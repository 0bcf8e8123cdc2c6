------------------------------- MODULE XYPad -------------------------------
(***************************************************************************)
(* The XY pad of the editor: two knobs, one per network, each with an      *)
(* arrow and buttons that are shown when a pointer comes near and hidden   *)
(* by a timer after it left.  A pointer that presses a knob drags it: a    *)
(* gesture on the knob's parameters, which the host must see the end of.   *)
(*                                                                         *)
(* JUCE, as far as the pad relies on it (external): a pointer that moves   *)
(* sends mouseExit of the old and mouseEnter of the new component, none    *)
(* while it is pressed and none while a modal component (the chooser of a  *)
(* model file) is open; each touch is a pointer of its own.                *)
(***************************************************************************)
EXTENDS Integers

CONSTANTS
    Parts,      \* of the pad, one per network: a knob, its arrow and buttons
    Pointers,   \* the mouse, or the touches of a screen
    HideAfter   \* ticks of the timer until the buttons are hidden (20 * 4)

ASSUME PadAssumption == /\ HideAfter \in Nat \ {0}
                        /\ Parts \cap {"none"} = {}

None == "none"  \* noKnobOnHover and noKnobOnDrag

Knobs == {"knob"} \X Parts
Tools == {"tools"} \X Parts  \* arrow, select, grain and on/off button
Places == {<<"away", None>>, <<"pad", None>>} \cup Knobs \cup Tools

VARIABLES
    over,         \* the component under each pointer
    pressed,      \* the pointers that are pressed
    modal,        \* is the chooser open?
    shown,        \* parts whose arrow and buttons are visible
    knobOnHover,
    knobOnDrag,
    timing,       \* does the timer run?
    timerCounter,
    touched,      \* knobs whose parameters are in a gesture, for the host
    missed,       \* history: has an exit been withheld and none come since?
    crossed       \* history: did a drag end otherwise than by a mouseUp?

vars == <<over, pressed, modal, shown, knobOnHover, knobOnDrag, timing,
          timerCounter, touched, missed, crossed>>

TypeOK == /\ over \in [Pointers -> Places]
          /\ pressed \subseteq Pointers
          /\ modal \in BOOLEAN
          /\ shown \subseteq Parts
          /\ knobOnHover \in Parts \cup {None}
          /\ knobOnDrag \in Parts \cup {None}
          /\ timing \in BOOLEAN
          /\ timerCounter \in 0 .. HideAfter - 1
          /\ touched \subseteq Parts
          /\ missed \in BOOLEAN /\ crossed \in BOOLEAN

-----------------------------------------------------------------------------
(***************************************************************************)
(* A new editor; the gestures belong to the processor's parameters.        *)
(***************************************************************************)
Opened == /\ over = [p \in Pointers |-> <<"away", None>>]
          /\ pressed = {} /\ modal = FALSE
          /\ shown = {} /\ knobOnHover = None /\ knobOnDrag = None
          /\ timing = FALSE /\ timerCounter = 0
          /\ missed = FALSE

Init == Opened /\ touched = {} /\ crossed = FALSE

CloseEditor == /\ ~modal
               /\ over' = [p \in Pointers |-> <<"away", None>>]
               /\ pressed' = {} /\ modal' = FALSE
               /\ shown' = {} /\ knobOnHover' = None /\ knobOnDrag' = None
               /\ timing' = FALSE /\ timerCounter' = 0
               /\ missed' = FALSE
               /\ crossed' = (crossed \/ knobOnDrag # None)
               /\ UNCHANGED touched

(***************************************************************************)
(* mouseEnter() of something that belongs to part n.                       *)
(***************************************************************************)
Enter(n) == /\ timing' = FALSE
            /\ shown' = {n}
            /\ knobOnHover' = n

(***************************************************************************)
(* A pointer moves: mouseExit() of the pad or a part of it starts the      *)
(* timer, mouseEnter() of a part stops it again.  Buttons can be           *)
(* entered only while they are visible.                                    *)
(***************************************************************************)
\* Mutant: mouseExit() counts for the pad itself only.
StartsTimerPad(place) == place[1] = "pad"

StartsTimer(place) == place[1] # "away"

Move(p, place) ==
    /\ p \notin pressed /\ over[p] # place
    /\ place \in Tools => place[2] \in shown
    /\ over' = [over EXCEPT ![p] = place]
    /\ IF modal
       THEN /\ missed' = (missed \/ StartsTimer(over[p]))
            /\ UNCHANGED <<shown, knobOnHover, timing>>
       ELSE /\ IF place[2] # None
               THEN Enter(place[2])
               ELSE /\ timing' = (timing \/ StartsTimer(over[p]))
                    /\ UNCHANGED <<shown, knobOnHover>>
            /\ missed' = (missed /\ ~StartsTimer(over[p]) /\ place[2] = None)
    /\ UNCHANGED <<pressed, modal, knobOnDrag, timerCounter, touched, crossed>>

(***************************************************************************)
(* mouseDown(): only a knob is dragged.                                    *)
(***************************************************************************)
Press(p) ==
    /\ ~modal /\ p \notin pressed /\ over[p][1] # "away"
    /\ pressed' = pressed \cup {p}
    /\ IF over[p] \in Knobs
       THEN /\ touched' = touched \cup {over[p][2]}
            /\ knobOnDrag' = over[p][2]
            /\ crossed' = (crossed \/ knobOnDrag \notin {None, over[p][2]})
       ELSE UNCHANGED <<touched, knobOnDrag, crossed>>
    /\ UNCHANGED <<over, modal, shown, knobOnHover, timing, timerCounter, missed>>

(***************************************************************************)
(* mouseUp() of any pointer ends the drag.                                 *)
(***************************************************************************)
\* Mutant: the gesture is ended for the knob under the pointer.
ReleasedUnder(p) == touched \ {over[p][2], None}
Released(p) == touched \ {knobOnDrag}

Release(p) ==
    /\ p \in pressed
    /\ pressed' = pressed \ {p}
    /\ touched' = Released(p)
    /\ knobOnDrag' = None
    /\ UNCHANGED <<over, modal, shown, knobOnHover, timing, timerCounter, missed,
                   crossed>>

(***************************************************************************)
(* The chooser opens after a click on the select button, and closes.       *)
(***************************************************************************)
OpenChooser(p) == /\ ~modal /\ pressed = {} /\ over[p] \in Tools
                  /\ modal' = TRUE
                  /\ UNCHANGED <<over, pressed, shown, knobOnHover, knobOnDrag,
                                 timing, timerCounter, touched, missed, crossed>>

CloseChooser == /\ modal
                /\ modal' = FALSE
                /\ UNCHANGED <<over, pressed, shown, knobOnHover, knobOnDrag, timing,
                               timerCounter, touched, missed, crossed>>

(***************************************************************************)
(* timerCallback(): the counter is not reset when the timer is started, so *)
(* it counts all the ticks since the buttons were last hidden.             *)
(***************************************************************************)
\* Mutant: the counter is not reset, and never again equals 20 * 4.
TickAgain == /\ timing
             /\ timerCounter' = IF timerCounter + 1 = HideAfter THEN timerCounter
                                ELSE timerCounter + 1
             /\ UNCHANGED <<over, pressed, modal, shown, knobOnHover, knobOnDrag,
                            timing, touched, missed, crossed>>

\* Mutant: the counter is compared before it is counted up.
TickLate ==
    /\ timing
    /\ timerCounter' = IF timerCounter = HideAfter THEN 0 ELSE timerCounter + 1
    /\ shown' = IF timerCounter = HideAfter THEN shown \ {knobOnHover} ELSE shown
    /\ timing' = (timerCounter # HideAfter)
    /\ knobOnHover' = IF timerCounter = HideAfter THEN None ELSE knobOnHover
    /\ UNCHANGED <<over, pressed, modal, knobOnDrag, touched, missed, crossed>>

Tick ==
    /\ timing
    /\ IF timerCounter + 1 = HideAfter
       THEN /\ shown' = shown \ {knobOnHover}
            /\ timing' = FALSE /\ knobOnHover' = None /\ timerCounter' = 0
       ELSE /\ timerCounter' = timerCounter + 1
            /\ UNCHANGED <<shown, knobOnHover, timing>>
    /\ UNCHANGED <<over, pressed, modal, knobOnDrag, touched, missed, crossed>>

Pointing == \E p \in Pointers : \/ \E place \in Places : Move(p, place)
                                \/ Press(p) \/ Release(p) \/ OpenChooser(p)

Next == Pointing \/ CloseChooser \/ Tick \/ CloseEditor

(***************************************************************************)
(* JUCE's timer ticks as long as it runs, even if leaving one component    *)
(* after the other restarts it: no pointer does that every 50 ms for ever. *)
(***************************************************************************)
Spec == Init /\ [][Next]_vars /\ WF_vars(Tick)

-----------------------------------------------------------------------------
Near(n) == \E p \in Pointers : over[p][2] = n

(***************************************************************************)
(* The buttons shown, of one network at most, are those the timer will     *)
(* hide, and it does run unless a pointer is still there: a network's      *)
(* buttons do not stay behind, unless the chooser withheld the exit        *)
(* (XYPad.cpp, mouseEnter, mouseExit, timerCallback).                      *)
(***************************************************************************)
ShownIsWatched == \A n \in shown : /\ knobOnHover = n
                                   /\ timing \/ missed \/ Near(n)

(***************************************************************************)
(* Every gesture the host was told of is the drag in progress, unless two  *)
(* pointers dragged both knobs or the editor was closed in a drag: no      *)
(* parameter is left in a gesture (XYPad.cpp, mouseDown, mouseUp).         *)
(***************************************************************************)
GesturesEnd == ~crossed => touched = {knobOnDrag} \ {None}

(***************************************************************************)
(* When the pointers stay away from the knobs and no exit was withheld,    *)
(* the buttons get hidden and stay so (XYPad.cpp, timerCallback).          *)
(***************************************************************************)
ComesToRest ==
    <>[](~missed /\ \A n \in Parts : ~Near(n)) => <>[](shown = {})
=============================================================================

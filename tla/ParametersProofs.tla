-------------------------- MODULE ParametersProofs --------------------------
(***************************************************************************)
(* The parameters between the user's hand and the signal path.  First the  *)
(* XY pad: what is shown is watched, and gestures end, for any number of   *)
(* knobs and pointers and any timer.  Then the settings of the same        *)
(* networks (module Settings): they follow their parameters, for any       *)
(* defaults and sample rates and in steps of any size.                     *)
(***************************************************************************)
EXTENDS XYPad, Settings, TLAPS

USE PadAssumption

IInv == TypeOK /\ ShownIsWatched /\ GesturesEnd

-----------------------------------------------------------------------------
LEMMA PlaceTypes ==
  ASSUME NEW x \in Places
  PROVE  /\ x[2] \in Parts \cup {None}
         /\ x[1] = "away" => x[2] = None
         /\ x \in Knobs \cup Tools => x[2] \in Parts
BY DEF Places, Knobs, Tools, None

LEMMA SomeFacts ==
  /\ <<"away", None>> \in Places
  /\ 0 \in 0 .. HideAfter - 1
BY DEF Places

LEMMA InvInit == Init => IInv
<1> SUFFICES ASSUME Init PROVE IInv
  OBVIOUS
<1>1. /\ over = [p \in Pointers |-> <<"away", None>>]
      /\ pressed = {} /\ modal = FALSE /\ timing = FALSE
      /\ missed = FALSE /\ crossed = FALSE
      /\ shown = {} /\ knobOnHover = None /\ knobOnDrag = None
      /\ timerCounter = 0 /\ touched = {}
  BY DEF Init, Opened
<1>2. over \in [Pointers -> Places]
  BY <1>1, SomeFacts
<1>3. modal \in BOOLEAN /\ timing \in BOOLEAN /\ missed \in BOOLEAN /\ crossed \in BOOLEAN
  BY <1>1
<1>4. TypeOK
  BY <1>1, <1>2, <1>3, SomeFacts DEF TypeOK
<1>5. ShownIsWatched
  BY <1>1 DEF ShownIsWatched
<1>6. GesturesEnd
  BY <1>1 DEF GesturesEnd
<1> QED BY <1>4, <1>5, <1>6 DEF IInv

LEMMA MoveKeeps ==
  ASSUME IInv, NEW p \in Pointers, NEW place \in Places, Move(p, place)
  PROVE  IInv'
<1> USE DEF IInv
<1>1. /\ over' = [over EXCEPT ![p] = place] /\ over' \in [Pointers -> Places]
      /\ over[p] \in Places
  BY DEF TypeOK, Move
<1>2. \A n \in Parts : Near(n) => Near(n)' \/ (over[p][2] = n /\ StartsTimer(over[p]))
  BY <1>1, PlaceTypes DEF Near, StartsTimer, TypeOK, None
<1>3. CASE modal
  <2>1. /\ missed' = (missed \/ StartsTimer(over[p]))
        /\ UNCHANGED <<shown, knobOnHover, timing>>
    BY <1>3 DEF Move
  <2>2. TypeOK'
    BY <1>1, <2>1 DEF TypeOK, Move, StartsTimer
  <2>3. ShownIsWatched'
    BY <1>2, <2>1 DEF ShownIsWatched, TypeOK
  <2> QED BY <2>2, <2>3 DEF GesturesEnd, Move
<1>4. CASE ~modal /\ place[2] # None
  <2>1. Enter(place[2]) /\ place[2] \in Parts
    BY <1>4, PlaceTypes DEF Move
  <2>2. Near(place[2])'
    BY <1>1 DEF Near, TypeOK
  <2>3. TypeOK'
    BY <1>1, <1>4, <2>1 DEF TypeOK, Move, Enter
  <2>4. ShownIsWatched'
    BY <2>1, <2>2 DEF ShownIsWatched, Enter
  <2> QED BY <2>3, <2>4 DEF GesturesEnd, Move
<1>5. CASE ~modal /\ place[2] = None
  <2>1. /\ timing' = (timing \/ StartsTimer(over[p]))
        /\ missed' = (missed /\ ~StartsTimer(over[p]) /\ place[2] = None)
        /\ UNCHANGED <<shown, knobOnHover>>
    BY <1>5 DEF Move
  <2>2. TypeOK'
    BY <1>1, <2>1 DEF TypeOK, Move, StartsTimer
  <2>3. ShownIsWatched'
    BY <1>2, <1>5, <2>1 DEF ShownIsWatched, TypeOK
  <2> QED BY <2>2, <2>3 DEF GesturesEnd, Move
<1> QED BY <1>3, <1>4, <1>5

LEMMA PressKeeps ==
  ASSUME IInv, NEW p \in Pointers, Press(p)
  PROVE  IInv'
<1> USE DEF IInv
<1>1. over[p] \in Places
  BY DEF TypeOK
<1>2. CASE over[p] \in Knobs
  <2>1. over[p][2] \in Parts /\ over[p][2] # None
    BY <1>1, <1>2, PlaceTypes DEF None
  <2>2. TypeOK'
    BY <1>2, <2>1 DEF TypeOK, Press
  <2>3. GesturesEnd'
    BY <1>2, <2>1 DEF GesturesEnd, Press, TypeOK
  <2> QED BY <2>2, <2>3 DEF ShownIsWatched, Near, Press
<1>3. CASE over[p] \notin Knobs
  BY <1>3 DEF Press, TypeOK, ShownIsWatched, Near, GesturesEnd
<1> QED BY <1>2, <1>3

LEMMA ReleaseKeeps ==
  ASSUME IInv, NEW p \in Pointers, Release(p)
  PROVE  IInv'
BY DEF IInv, Release, Released, TypeOK, ShownIsWatched, Near, GesturesEnd

LEMMA ChooserKeeps ==
  ASSUME IInv, NEW p \in Pointers, OpenChooser(p) \/ CloseChooser
  PROVE  IInv'
BY DEF IInv, OpenChooser, CloseChooser, TypeOK, ShownIsWatched, Near, GesturesEnd

LEMMA CloseEditorKeeps ==
  ASSUME IInv, CloseEditor
  PROVE  IInv'
<1> USE DEF IInv
<1>1. TypeOK'
  <2>1. over' \in [Pointers -> Places]
    BY SomeFacts DEF CloseEditor
  <2>2. timerCounter' \in 0 .. HideAfter - 1
    BY SomeFacts DEF CloseEditor
  <2>3. /\ modal' \in BOOLEAN /\ timing' \in BOOLEAN
        /\ missed' \in BOOLEAN /\ crossed' \in BOOLEAN
    BY DEF CloseEditor
  <2>4. /\ pressed' \subseteq Pointers /\ shown' \subseteq Parts
        /\ knobOnHover' \in Parts \cup {None}
        /\ knobOnDrag' \in Parts \cup {None}
        /\ touched' \subseteq Parts
    BY DEF CloseEditor, TypeOK
  <2> QED BY <2>1, <2>2, <2>3, <2>4 DEF TypeOK
<1>2. GesturesEnd'
  BY DEF CloseEditor, GesturesEnd, TypeOK
<1> QED BY <1>1, <1>2 DEF CloseEditor, ShownIsWatched

LEMMA TickKeeps ==
  ASSUME IInv, Tick
  PROVE  IInv'
<1> USE DEF IInv
<1>1. CASE timerCounter + 1 = HideAfter
  <2>1. TypeOK'
    <3>1. /\ timerCounter' = 0 /\ timing' = FALSE /\ knobOnHover' = None
          /\ shown' = shown \ {knobOnHover}
          /\ UNCHANGED <<over, pressed, modal, knobOnDrag, touched, missed, crossed>>
      BY <1>1 DEF Tick
    <3>2. timing' \in BOOLEAN /\ shown' \subseteq Parts
      BY <3>1 DEF TypeOK
    <3> QED BY <3>1, <3>2, SomeFacts DEF TypeOK
  <2>2. shown' = {}
    BY <1>1 DEF Tick, ShownIsWatched, TypeOK
  <2> QED BY <2>1, <2>2 DEF Tick, ShownIsWatched, GesturesEnd
<1>2. CASE timerCounter + 1 # HideAfter
  BY <1>2 DEF Tick, TypeOK, ShownIsWatched, Near, GesturesEnd
<1> QED BY <1>1, <1>2

LEMMA InvNext == IInv /\ [Next]_vars => IInv'
<1> SUFFICES ASSUME IInv, [Next]_vars PROVE IInv'
  OBVIOUS
<1>1. CASE Pointing
  BY <1>1, MoveKeeps, PressKeeps, ReleaseKeeps, ChooserKeeps DEF Pointing
<1>2. CASE CloseChooser
  BY <1>2 DEF IInv, CloseChooser, TypeOK, ShownIsWatched, Near, GesturesEnd
<1>3. CASE Tick \/ CloseEditor
  BY <1>3, TickKeeps, CloseEditorKeeps
<1>4. CASE UNCHANGED vars
  BY <1>4 DEF vars, IInv, TypeOK, ShownIsWatched, Near, GesturesEnd
<1> QED BY <1>1, <1>2, <1>3, <1>4 DEF Next

THEOREM Invariant == Spec => []IInv
BY InvInit, InvNext, PTL DEF Spec

-----------------------------------------------------------------------------
(***************************************************************************)
(* The variables keep their types: the counter stays below its limit, so   *)
(* the test for equality in timerCallback() is never jumped over.          *)
(***************************************************************************)
THEOREM TypeCorrect == Spec => []TypeOK
BY Invariant, PTL DEF IInv

(***************************************************************************)
(* Buttons do not stay behind (XYPad.cpp, mouseExit and timerCallback).    *)
(***************************************************************************)
THEOREM NothingStaysBehind == Spec => []ShownIsWatched
BY Invariant, PTL DEF IInv

(***************************************************************************)
(* A gesture is in progress only while a knob is dragged (XYPad.cpp,       *)
(* mouseDown and mouseUp).                                                 *)
(***************************************************************************)
THEOREM GesturesDoEnd == Spec => []GesturesEnd
BY Invariant, PTL DEF IInv

-----------------------------------------------------------------------------
USE SettingsAssumption

(***************************************************************************)
(* What updateFilterParams() has done of its work at each of its steps.    *)
(***************************************************************************)
FilterInSteps ==
    \A n \in Networks :
        /\ update[n] = "other" => Side(cutoff[n]) \in enabled[n]
        /\ update[n] = "enable" => enabled[n] = {Side(cutoff[n])}
        /\ update[n] \in {"tune", "none"} => enabled[n] = Filtering(cutoff[n])
        /\ update[n] = "none" =>
             /\ tuned[n][Side(cutoff[n])][1] = Clamped(cutoff[n])
             /\ tuned[n][Side(cutoff[n])][2] = rate \/ moved[n]

(***************************************************************************)
(* As long as a block has seen the knob on one side only, that side's      *)
(* filter alone is enabled, whatever step the update is at.                *)
(***************************************************************************)
OneSide(n) == sides[n] \in {{"HP"}, {"LP"}}

SidesCover ==
    \A n \in Networks :
        /\ Stands(cutoff[n]) \in sides[n]
        /\ OneSide(n) =>
             /\ enabled[n] = sides[n]
             /\ block[n] = "HP" => passed[n] = {}
             /\ block[n] = "LP" => passed[n] = sides[n] \cap {"HP"}
             /\ block[n] = "done" => passed[n] = sides[n]

SInv == SettingsTypeOK /\ SettingsFollow /\ FilterInSteps /\ SidesCover

(***************************************************************************)
(* The values the curves of the knobs take.                                *)
(***************************************************************************)
LEMMA CurveTypes ==
  ASSUME NEW v \in Values
  PROVE  /\ Attack(v) \in 0 .. 2 * Half
         /\ FirstAttack(v) \in 0 .. 2 * Half
         /\ Sustain(v) \in -4 * Half .. 2 * Half
         /\ Clamped(v) \in 0 .. 2 * Half
         /\ v < Half => Attack(v) = FirstAttack(v)
BY DEF Values, Attack, FirstAttack, Sustain, Clamped

LEMMA SideTypes ==
  ASSUME NEW v
  PROVE  /\ Side(v) \in {"HP", "LP"} /\ Other(v) \in {"HP", "LP"}
         /\ {"HP", "LP"} \ {Other(v)} = {Side(v)}
         /\ Filtering(v) \in SUBSET {"HP", "LP"}
         /\ Filtering(v) = IF Stands(v) = "middle" THEN {} ELSE {Stands(v)}
         /\ Stands(v) # "middle" => Stands(v) = Side(v) /\ Cuts(v)
BY DEF Side, Other, Filtering, Stands, Cuts

LEMMA SettingsStart == ASSUME SettingsInit PROVE SInv
<1>1. SettingsTypeOK
  <2>1. \A n \in Networks : Shapes[n] \in Values /\ Cutoffs[n] \in Values
    OBVIOUS
  <2>2. /\ shape \in [Networks -> Values] /\ cutoff \in [Networks -> Values]
        /\ mix \in [Networks -> 0 .. 2 * Half]
        /\ proportion \in [Networks -> 0 .. 2 * Half]
    BY DEF SettingsInit
  <2>3. /\ attack \in [Networks -> 0 .. 2 * Half]
        /\ sustain \in [Networks -> -4 * Half .. 2 * Half]
    BY <2>1, CurveTypes DEF SettingsInit, FirstSustain
  <2>4. tuned \in [Networks -> [{"HP", "LP"} -> (0 .. 2 * Half) \X Rates]]
    BY <2>1, CurveTypes DEF SettingsInit
  <2>5. /\ enabled \in [Networks -> SUBSET {"HP", "LP"}]
        /\ passed \in [Networks -> SUBSET {"HP", "LP"}]
        /\ sides \in [Networks -> SUBSET {"HP", "LP", "middle"}]
    BY SideTypes DEF SettingsInit
  <2>6. moved \in [Networks -> BOOLEAN]
    BY DEF SettingsInit
  <2> QED BY <2>2, <2>3, <2>4, <2>5, <2>6
          DEF SettingsTypeOK, SettingsInit
<1>2. SettingsFollow
  BY CurveTypes DEF SettingsInit, SettingsFollow,
     FirstAttack, FirstSustain
<1>3. FilterInSteps
  BY SideTypes DEF SettingsInit, FilterInSteps
<1>4. SidesCover
  BY SideTypes DEF SettingsInit, SidesCover, OneSide
<1> QED BY <1>1, <1>2, <1>3, <1>4 DEF SInv

LEMMA ChangeKeeps ==
  ASSUME SInv, NEW n \in Networks,
         \/ \E v \in Values : ChangeShape(n, v)
         \/ \E v \in 0 .. 2 * Half : ChangeMix(n, v)
  PROVE  SInv'
<1> USE DEF SInv
<1>1. ASSUME NEW v \in Values, ChangeShape(n, v)
      PROVE  SettingsTypeOK' /\ SettingsFollow'
  BY <1>1, CurveTypes DEF ChangeShape, SettingsTypeOK, SettingsFollow
<1>2. ASSUME NEW v \in 0 .. 2 * Half, ChangeMix(n, v)
      PROVE  SettingsTypeOK' /\ SettingsFollow'
  BY <1>2 DEF ChangeMix, SettingsTypeOK, SettingsFollow
<1>3. FilterInSteps' /\ SidesCover'
  BY DEF ChangeShape, ChangeMix, FilterInSteps, SidesCover, OneSide
<1> QED BY <1>1, <1>2, <1>3

LEMMA ChangeCutoffKeeps ==
  ASSUME SInv,
         NEW n \in Networks, NEW v \in Values, ChangeCutoff(n, v)
  PROVE  SInv'
<1> USE DEF SInv, ChangeCutoff
<1>1. Stands(v) \in {"HP", "LP", "middle"}
  BY SideTypes DEF Stands
<1>2. SettingsTypeOK'
  BY <1>1, SideTypes DEF SettingsTypeOK
<1>3. SettingsFollow'
  BY DEF SettingsFollow
<1>4. FilterInSteps'
  BY DEF SettingsTypeOK, FilterInSteps
<1>5. SidesCover'
  <2> SUFFICES ASSUME NEW m \in Networks
               PROVE  /\ Stands(cutoff'[m]) \in sides'[m]
                      /\ OneSide(m)' =>
                           /\ enabled'[m] = sides'[m]
                           /\ block'[m] = "HP" => passed'[m] = {}
                           /\ block'[m] = "LP" => passed'[m] = sides'[m] \cap {"HP"}
                           /\ block'[m] = "done" => passed'[m] = sides'[m]
    BY DEF SidesCover
  <2>1. CASE m # n
    BY <2>1 DEF SidesCover, OneSide, SettingsTypeOK
  <2>2. CASE m = n
    <3>1. /\ cutoff'[m] = v /\ sides'[m] = sides[m] \cup {Stands(v)}
          /\ enabled'[m] = enabled[m] \cup {Side(v)}
          /\ UNCHANGED <<block, passed>>
      BY <2>2 DEF SettingsTypeOK
    <3>2. sides[m] # {}
      BY DEF SidesCover
    <3>3. OneSide(m)' => /\ OneSide(m) /\ sides'[m] = sides[m]
                         /\ Side(v) \in sides[m]
      <4> SUFFICES ASSUME OneSide(m)'
                   PROVE  OneSide(m) /\ sides'[m] = sides[m] /\ Side(v) \in sides[m]
        OBVIOUS
      <4>1. PICK s \in {"HP", "LP"} : sides'[m] = {s}
        BY Zenon DEF OneSide
      <4>2. sides[m] = {s} /\ Stands(v) = s
        BY ONLY <3>1, <3>2, <4>1
      <4>3. Side(v) = s
        BY ONLY <4>1, <4>2, SideTypes
      <4> QED BY ONLY <4>1, <4>2, <4>3 DEF OneSide
    <3>4. OneSide(m) => enabled[m] = sides[m]
      BY DEF SidesCover
    <3>5. OneSide(m)' => enabled'[m] = sides'[m]
      BY <3>1, <3>3, <3>4
    <3> QED BY <3>1, <3>3, <3>5 DEF SidesCover
  <2> QED BY <2>1, <2>2
<1> QED BY <1>2, <1>3, <1>4, <1>5

LEMMA DisableKeeps ==
  ASSUME SInv, NEW n \in Networks, DisableOther(n)
  PROVE  SInv'
<1> USE DEF SInv, DisableOther
<1>1. SettingsTypeOK' /\ SettingsFollow'
  BY DEF SettingsTypeOK, SettingsFollow
<1>2. enabled'[n] = {Side(cutoff[n])}
  <2>1. /\ enabled'[n] = enabled[n] \ {Other(cutoff[n])}
        /\ enabled[n] \subseteq {"HP", "LP"} /\ Side(cutoff[n]) \in enabled[n]
    BY DEF SettingsTypeOK, FilterInSteps
  <2> QED BY <2>1 DEF Side, Other
<1>3. FilterInSteps'
  BY <1>2 DEF SettingsTypeOK, FilterInSteps
<1>4. OneSide(n) => enabled'[n] = enabled[n]
  BY <1>2, SideTypes DEF SidesCover, OneSide
<1>5. SidesCover'
  BY <1>4 DEF SettingsTypeOK, SidesCover, OneSide
<1> QED BY <1>1, <1>3, <1>5

LEMMA EnableKeeps ==
  ASSUME SInv, NEW n \in Networks, Enable(n)
  PROVE  SInv'
<1> USE DEF SInv, Enable
<1>1. SettingsTypeOK' /\ SettingsFollow'
  BY SideTypes DEF SettingsTypeOK, SettingsFollow
<1>2. enabled'[n] = Filtering(cutoff[n])
  <2>1. /\ enabled[n] = {Side(cutoff[n])}
        /\ enabled'[n] = IF Cuts(cutoff[n])
                          THEN enabled[n] \cup {Side(cutoff[n])}
                          ELSE enabled[n] \ {Side(cutoff[n])}
    BY DEF SettingsTypeOK, FilterInSteps
  <2> QED BY <2>1 DEF Filtering
<1>3. FilterInSteps'
  BY <1>2 DEF SettingsTypeOK, FilterInSteps
<1>4. OneSide(n) => enabled'[n] = enabled[n]
  BY <1>2, SideTypes DEF SidesCover, OneSide
<1>5. SidesCover'
  BY <1>4 DEF SettingsTypeOK, SidesCover, OneSide
<1> QED BY <1>1, <1>3, <1>5

LEMMA TuneKeeps ==
  ASSUME SInv, NEW n \in Networks, Tune(n)
  PROVE  SInv'
<1> USE DEF SInv, Tune
<1>1. cutoff[n] \in Values /\ rate \in Rates /\ Side(cutoff[n]) \in {"HP", "LP"}
  BY SideTypes DEF SettingsTypeOK
<1>2. SettingsTypeOK'
  BY <1>1, CurveTypes DEF SettingsTypeOK
<1>3. tuned'[n][Side(cutoff[n])] = <<Clamped(cutoff[n]), rate>>
  BY <1>1 DEF SettingsTypeOK
<1>4. FilterInSteps'
  BY <1>3 DEF SettingsTypeOK, FilterInSteps
<1>5. SettingsFollow' /\ SidesCover'
  BY DEF SettingsFollow, SidesCover, OneSide
<1> QED BY <1>2, <1>4, <1>5

LEMMA PrepareKeeps ==
  ASSUME SInv, NEW r \in Rates, Prepare(r)
  PROVE  SInv'
<1> USE DEF SInv, Prepare
<1>1. \A n \in Networks : moved'[n] = (moved[n] \/ r # rate)
  OBVIOUS
<1>2. SettingsTypeOK'
  BY DEF SettingsTypeOK
<1>3. FilterInSteps'
  BY <1>1 DEF FilterInSteps
<1>4. SettingsFollow' /\ SidesCover'
  BY DEF SettingsFollow, SidesCover, OneSide
<1> QED BY <1>2, <1>3, <1>4

LEMMA StartBlockKeeps ==
  ASSUME SInv, NEW n \in Networks, NEW bad \in BOOLEAN, StartBlock(n, bad)
  PROVE  SInv'
<1> USE DEF SInv, StartBlock
<1>1. Stands(cutoff[n]) \in {"HP", "LP", "middle"}
  BY SideTypes DEF Stands
<1>2. SettingsTypeOK'
  BY <1>1 DEF SettingsTypeOK
<1>3. SettingsFollow' /\ FilterInSteps'
  BY DEF SettingsFollow, FilterInSteps
<1>4. sides'[n] = IF update[n] = "none" THEN {Stands(cutoff[n])} ELSE sides[n]
  BY DEF SettingsTypeOK
<1>5. update[n] = "none" /\ OneSide(n)' => enabled[n] = sides'[n]
  <2> SUFFICES ASSUME update[n] = "none", OneSide(n)' PROVE enabled[n] = sides'[n]
    OBVIOUS
  <2>1. sides'[n] = {Stands(cutoff[n])} /\ Stands(cutoff[n]) # "middle"
    <3>1. sides'[n] = {Stands(cutoff[n])}
      BY <1>4
    <3>2. sides'[n] = {"HP"} \/ sides'[n] = {"LP"}
      BY Zenon DEF OneSide
    <3>3. Stands(cutoff[n]) \in {"HP", "LP"}
      BY ONLY <3>1, <3>2
    <3> QED BY ONLY <3>1, <3>3
  <2>2. enabled[n] = {Stands(cutoff[n])}
    BY <2>1, SideTypes DEF FilterInSteps
  <2> QED BY <2>1, <2>2
<1>6. SidesCover'
  <2> SUFFICES ASSUME NEW m \in Networks
               PROVE  /\ Stands(cutoff[m]) \in sides'[m]
                      /\ OneSide(m)' =>
                           /\ enabled[m] = sides'[m]
                           /\ block'[m] = "HP" => passed'[m] = {}
                           /\ block'[m] = "LP" => passed'[m] = sides'[m] \cap {"HP"}
                           /\ block'[m] = "done" => passed'[m] = sides'[m]
    BY DEF SidesCover
  <2>1. CASE m # n
    BY <2>1 DEF SidesCover, OneSide, SettingsTypeOK
  <2>2. CASE m = n
    <3>1. block'[m] \in {"HP", "skipped"} /\ passed'[m] = {}
      BY <2>2 DEF SettingsTypeOK
    <3>2. Stands(cutoff[m]) \in sides'[m] /\ (OneSide(m)' => enabled[m] = sides'[m])
      BY <1>4, <1>5, <2>2 DEF SidesCover, OneSide
    <3> QED BY <3>1, <3>2
  <2> QED BY <2>1, <2>2
<1> QED BY <1>2, <1>3, <1>6

LEMMA ProcessKeeps ==
  ASSUME SInv,
         NEW n \in Networks, NEW f \in {"HP", "LP"}, ProcessFilter(n, f)
  PROVE  SInv'
<1> USE DEF SInv, ProcessFilter
<1>1. SettingsTypeOK'
  BY DEF SettingsTypeOK
<1>2. SettingsFollow' /\ FilterInSteps'
  BY DEF SettingsFollow, FilterInSteps
<1>3. passed'[n] = passed[n] \cup (enabled[n] \cap {f})
  BY DEF SettingsTypeOK
<1>4. SidesCover'
  BY <1>3 DEF SettingsTypeOK, SidesCover, OneSide
<1> QED BY <1>1, <1>2, <1>4

LEMMA SettingsSteps ==
  SInv /\ [SettingsNext]_settings => SInv'
<1> SUFFICES ASSUME SInv, [SettingsNext]_settings PROVE SInv'
  OBVIOUS
<1>1. CASE SettingsNext
  BY <1>1, ChangeKeeps, ChangeCutoffKeeps, DisableKeeps, EnableKeeps, TuneKeeps,
     PrepareKeeps, StartBlockKeeps, ProcessKeeps DEF SettingsNext, UpdateFilter
<1>2. CASE UNCHANGED settings
  BY <1>2 DEF settings, SInv, SettingsTypeOK, SettingsFollow, FilterInSteps, SidesCover,
     OneSide
<1> QED BY <1>1, <1>2

THEOREM SettingsInvariant == SettingsSpec => []SInv
BY SettingsStart, SettingsSteps, PTL DEF SettingsSpec

-----------------------------------------------------------------------------
(***************************************************************************)
(* The settings keep their types: whatever the parameters, no gain and no  *)
(* cutoff leaves the range of its curve (parameterChanged).                *)
(***************************************************************************)
THEOREM SettingsTypes == SettingsSpec => []SettingsTypeOK
<1>1. SInv => SettingsTypeOK
  BY DEF SInv
<1> QED BY <1>1, SettingsInvariant, PTL

(***************************************************************************)
(* Whatever the order of changes, the shaper and the mix are what their    *)
(* parameters say, but for the defaults the constructors set otherwise     *)
(* (ProcessorTransientSplitter.cpp, PluginProcessor.cpp).                  *)
(***************************************************************************)
THEOREM SettingsDoFollow == SettingsSpec => []SettingsFollow
<1>1. SInv => SettingsFollow
  BY DEF SInv
<1> QED BY <1>1, SettingsInvariant, PTL

(***************************************************************************)
(* Between two updates the filter on the knob's side alone is enabled, and *)
(* tuned to the knob (IIRCutoffFilter.cpp, updateFilterParams).            *)
(***************************************************************************)
THEOREM FiltersDoFollow == SettingsSpec => []FilterFollows
<1>1. SInv => FilterFollows
  BY DEF SInv, FilterInSteps, FilterFollows
<1> QED BY <1>1, SettingsInvariant, PTL

(***************************************************************************)
(* A block without NaN goes through one filter, unless the knob has        *)
(* crossed the middle or stood in it meanwhile (IIRCutoffFilter.cpp,       *)
(* processFilters, which returns before both filters for a block with one).*)
(***************************************************************************)
THEOREM BlocksFilteredOnce == SettingsSpec => []FilteredOnce
<1>1. ASSUME SInv, NEW n \in Networks, block[n] = "done"
      PROVE  \/ passed[n] \in {{"HP"}, {"LP"}} /\ passed[n] \subseteq sides[n]
             \/ "middle" \in sides[n]
             \/ {"HP", "LP"} \subseteq sides[n]
  <2>1. sides[n] \in SUBSET {"HP", "LP", "middle"} /\ sides[n] # {}
    BY <1>1 DEF SInv, SettingsTypeOK, SidesCover
  <2>2. CASE OneSide(n)
    BY <1>1, <2>2 DEF SInv, SidesCover, OneSide
  <2>3. CASE ~OneSide(n)
    BY <2>1, <2>3 DEF OneSide
  <2> QED BY <2>2, <2>3
<1>2. SInv => FilteredOnce
  BY <1>1 DEF FilteredOnce
<1> QED BY <1>2, SettingsInvariant, PTL
=============================================================================

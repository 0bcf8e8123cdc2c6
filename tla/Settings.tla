------------------------------ MODULE Settings ------------------------------
(***************************************************************************)
(* The parameters of the host and the settings the signal path works with: *)
(* each is copied by a constructor once and by parameterChanged() whenever *)
(* the parameter changes, so the copies are right only if every such piece *)
(* of code agrees.  Modelled are those where they do not, or where the     *)
(* audio thread may look in between: the transient shapers, the mixes of   *)
(* the grain delays and the cutoff filters.                                *)
(*                                                                         *)
(* A value of 0.5 is Half, the gain 1 is 2 * Half.  JUCE (external): a     *)
(* listener is called when a value changes and by one thread at a time for *)
(* each parameter; hosts prepare the plugin while nothing else is going on.*)
(***************************************************************************)
EXTENDS Integers

CONSTANTS
    Networks,
    Half,      \* steps of a parameter between 0 and 0.5
    Rates,     \* sample rates
    FirstRate, \* the one IIRCutoffFilter.h assumes, 48000
    Shapes,    \* default of each network's transient shaper
    Cutoffs,   \* default of its cutoff knob
    Mix        \* default of the grain delays' mix, 0.25

Values == -2 * Half .. 2 * Half

ASSUME SettingsAssumption == /\ Half \in Nat \ {0} /\ FirstRate \in Rates
                             /\ Shapes \in [Networks -> Values]
                             /\ Cutoffs \in [Networks -> Values]
                             /\ Mix \in 0 .. 2 * Half

VARIABLES
    shape, cutoff, mix,  \* the parameters of each network
    attack, sustain,     \* gains of its transient splitter
    proportion,          \* wet proportion of its grain delay's mixer
    rate,                \* currentSpec.sampleRate
    enabled,             \* filters (of "HP", "LP") that are enabled
    tuned,               \* cutoff and rate of their coefficients
    update,              \* next step of updateFilterParams()
    block,               \* what the audio thread does with a network's block;
                         \* "skipped": it returned before the filters
    passed,              \* filters the block has gone through
    changed,             \* history: parameters that have changed once
    sides,               \* history: knob positions this block may have seen
    moved                \* history: has the rate changed since the last update?

settings == <<shape, cutoff, mix, attack, sustain, proportion, rate, enabled, tuned,
          update, block, passed, changed, sides, moved>>

SettingsTypeOK == /\ shape \in [Networks -> Values] /\ cutoff \in [Networks -> Values]
          /\ mix \in [Networks -> 0 .. 2 * Half]
          /\ attack \in [Networks -> 0 .. 2 * Half]
          /\ sustain \in [Networks -> -4 * Half .. 2 * Half]
          /\ proportion \in [Networks -> 0 .. 2 * Half]
          /\ rate \in Rates
          /\ enabled \in [Networks -> SUBSET {"HP", "LP"}]
          /\ tuned \in [Networks -> [{"HP", "LP"} -> (0 .. 2 * Half) \X Rates]]
          /\ update \in [Networks -> {"none", "other", "enable", "tune"}]
          /\ block \in [Networks -> {"HP", "LP", "done", "skipped"}]
          /\ passed \in [Networks -> SUBSET {"HP", "LP"}]
          /\ changed \in [Networks -> SUBSET {"shape", "mix"}]
          /\ sides \in [Networks -> SUBSET {"HP", "LP", "middle"}]
          /\ moved \in [Networks -> BOOLEAN]

-----------------------------------------------------------------------------
(***************************************************************************)
(* The transient shaper turns sustain down below 0.5 and attack above.     *)
(***************************************************************************)
Attack(v) == IF v < Half THEN 2 * Half ELSE 4 * Half - 2 * v
Sustain(v) == IF v < Half THEN 2 * v ELSE 2 * Half

\* The constructor sets the attack twice where the sustain is meant.
FirstAttack(v) == 2 * Half
FirstSustain(v) == Sustain(v)

(***************************************************************************)
(* The cutoff knob: high-pass from the middle up, low-pass below.  In the  *)
(* very middle the high-pass would cut at 20 Hz and is not enabled.        *)
(***************************************************************************)
Side(v) == IF v >= Half THEN "HP" ELSE "LP"
Other(v) == IF v >= Half THEN "LP" ELSE "HP"
Stands(v) == IF v = Half THEN "middle" ELSE Side(v)

\* Mutant: the knob's value is taken as it is.
ClampedNot(v) == v
Clamped(v) == IF v < 0 THEN 0 ELSE v

Cuts(v) == v # Half

\* What updateFilterParams(v) leaves, if nobody looks in between.
Filtering(v) == IF Cuts(v) THEN {Side(v)} ELSE {}

SettingsInit == /\ shape = Shapes /\ cutoff = Cutoffs /\ mix = [n \in Networks |-> Mix]
        /\ attack = [n \in Networks |-> FirstAttack(Shapes[n])]
        /\ sustain = [n \in Networks |-> FirstSustain(Shapes[n])]
        /\ proportion = [n \in Networks |-> 0]
        /\ rate = FirstRate
        /\ enabled = [n \in Networks |-> Filtering(Cutoffs[n])]
        /\ tuned = [n \in Networks |-> [f \in {"HP", "LP"} |->
             IF f = Side(Cutoffs[n]) THEN <<Clamped(Cutoffs[n]), FirstRate>>
             ELSE <<Half, FirstRate>>]]
        /\ update = [n \in Networks |-> "none"]
        /\ block = [n \in Networks |-> "done"]
        /\ passed = [n \in Networks |-> Filtering(Cutoffs[n])]
        /\ changed = [n \in Networks |-> {}]
        /\ sides = [n \in Networks |-> {Stands(Cutoffs[n])}]
        /\ moved = [n \in Networks |-> FALSE]

-----------------------------------------------------------------------------
(***************************************************************************)
(* parameterChanged(): user, host or recalled state, all the same.         *)
(***************************************************************************)
\* Mutant: the constructor's slip here, too.
ChangeShapeTwice(n, v) ==
    /\ v # shape[n]
    /\ shape' = [shape EXCEPT ![n] = v]
    /\ attack' = [attack EXCEPT ![n] = 2 * Half]
    /\ sustain' = IF v < Half THEN [sustain EXCEPT ![n] = 2 * v] ELSE sustain
    /\ changed' = [changed EXCEPT ![n] = @ \cup {"shape"}]
    /\ UNCHANGED <<cutoff, mix, proportion, rate, enabled, tuned, update, block,
                   passed, sides, moved>>

ChangeShape(n, v) ==
    /\ v # shape[n]
    /\ shape' = [shape EXCEPT ![n] = v]
    /\ attack' = [attack EXCEPT ![n] = Attack(v)]
    /\ sustain' = [sustain EXCEPT ![n] = Sustain(v)]
    /\ changed' = [changed EXCEPT ![n] = @ \cup {"shape"}]
    /\ UNCHANGED <<cutoff, mix, proportion, rate, enabled, tuned, update, block,
                   passed, sides, moved>>

ChangeMix(n, v) ==
    /\ v # mix[n]
    /\ mix' = [mix EXCEPT ![n] = v]
    /\ proportion' = [proportion EXCEPT ![n] = v]
    /\ changed' = [changed EXCEPT ![n] = @ \cup {"mix"}]
    /\ UNCHANGED <<shape, cutoff, attack, sustain, rate, enabled, tuned, update,
                   block, passed, sides, moved>>

(***************************************************************************)
(* updateFilterParams() enables one filter and disables the other, before  *)
(* updateHPFilterParams() or updateLPFilterParams() look at the frequency  *)
(* and replace the coefficients.                                           *)
(***************************************************************************)
ChangeCutoff(n, v) ==
    /\ v # cutoff[n] /\ update[n] = "none"
    /\ cutoff' = [cutoff EXCEPT ![n] = v]
    /\ enabled' = [enabled EXCEPT ![n] = @ \cup {Side(v)}]
    /\ update' = [update EXCEPT ![n] = "other"]
    /\ sides' = [sides EXCEPT ![n] = @ \cup {Stands(v)}]
    /\ UNCHANGED <<shape, mix, attack, sustain, proportion, rate, tuned, block,
                   passed, changed, moved>>

\* Mutant: only the filter on the knob's side is set.
LeaveOther(n) ==
    /\ update[n] = "other"
    /\ update' = [update EXCEPT ![n] = "enable"]
    /\ UNCHANGED <<shape, cutoff, mix, attack, sustain, proportion, rate, enabled,
                   tuned, block, passed, changed, sides, moved>>

DisableOther(n) ==
    /\ update[n] = "other"
    /\ enabled' = [enabled EXCEPT ![n] = @ \ {Other(cutoff[n])}]
    /\ update' = [update EXCEPT ![n] = "enable"]
    /\ UNCHANGED <<shape, cutoff, mix, attack, sustain, proportion, rate, tuned,
                   block, passed, changed, sides, moved>>

Enable(n) ==
    /\ update[n] = "enable"
    /\ enabled' = [enabled EXCEPT ![n] =
                     IF Cuts(cutoff[n]) THEN @ \cup {Side(cutoff[n])}
                     ELSE @ \ {Side(cutoff[n])}]
    /\ update' = [update EXCEPT ![n] = "tune"]
    /\ UNCHANGED <<shape, cutoff, mix, attack, sustain, proportion, rate, tuned,
                   block, passed, changed, sides, moved>>

Tune(n) ==
    /\ update[n] = "tune"
    /\ tuned' = [tuned EXCEPT ![n] =
                   [@ EXCEPT ![Side(cutoff[n])] = <<Clamped(cutoff[n]), rate>>]]
    /\ update' = [update EXCEPT ![n] = "none"]
    /\ moved' = [moved EXCEPT ![n] = FALSE]
    /\ UNCHANGED <<shape, cutoff, mix, attack, sustain, proportion, rate, enabled,
                   block, passed, changed, sides>>

-----------------------------------------------------------------------------
(***************************************************************************)
(* prepare() keeps the coefficients of the former sample rate.             *)
(***************************************************************************)
Prepare(r) ==
    /\ \A n \in Networks : update[n] = "none" /\ block[n] \in {"done", "skipped"}
    /\ rate' = r
    /\ moved' = [n \in Networks |-> moved[n] \/ r # rate]
    /\ UNCHANGED <<shape, cutoff, mix, attack, sustain, proportion, enabled, tuned,
                   update, block, passed, changed, sides>>

(***************************************************************************)
(* processFilters() for a network: it returns at once if a sample of the   *)
(* block is NaN (bad); else high-pass, then low-pass, each if it is        *)
(* enabled when the audio thread gets there.                               *)
(***************************************************************************)
StartBlock(n, bad) ==
    /\ block[n] \in {"done", "skipped"}
    /\ block' = [block EXCEPT ![n] = IF bad THEN "skipped" ELSE "HP"]
    /\ passed' = [passed EXCEPT ![n] = {}]
    /\ sides' = [sides EXCEPT ![n] = IF update[n] = "none" THEN {Stands(cutoff[n])} ELSE @]
    /\ UNCHANGED <<shape, cutoff, mix, attack, sustain, proportion, rate, enabled,
                   tuned, update, changed, moved>>

\* Mutant: the flag is not looked at.
ProcessAnyway(n, f) ==
    /\ block[n] = f
    /\ block' = [block EXCEPT ![n] = IF f = "HP" THEN "LP" ELSE "done"]
    /\ passed' = [passed EXCEPT ![n] = @ \cup {f}]
    /\ UNCHANGED <<shape, cutoff, mix, attack, sustain, proportion, rate, enabled,
                   tuned, update, changed, sides, moved>>

ProcessFilter(n, f) ==
    /\ block[n] = f
    /\ block' = [block EXCEPT ![n] = IF f = "HP" THEN "LP" ELSE "done"]
    /\ passed' = [passed EXCEPT ![n] = @ \cup (enabled[n] \cap {f})]
    /\ UNCHANGED <<shape, cutoff, mix, attack, sustain, proportion, rate, enabled,
                   tuned, update, changed, sides, moved>>

UpdateFilter(n) == DisableOther(n) \/ Enable(n) \/ Tune(n)

SettingsNext == \/ \E r \in Rates : Prepare(r)
        \/ \E n \in Networks :
             \/ \E v \in Values : ChangeShape(n, v) \/ ChangeCutoff(n, v)
             \/ \E v \in 0 .. 2 * Half : ChangeMix(n, v)
             \/ UpdateFilter(n)
             \/ \E bad \in BOOLEAN : StartBlock(n, bad)
             \/ \E f \in {"HP", "LP"} : ProcessFilter(n, f)

SettingsSpec == SettingsInit /\ [][SettingsNext]_settings

-----------------------------------------------------------------------------
(***************************************************************************)
(* Whatever was changed and recalled before, a shaper and a mix are what   *)
(* the parameter says, except where a constructor differs: the attack of a *)
(* shaper above 0.5 and the mix, until they change for the first time      *)
(* (ProcessorTransientSplitter.cpp, PluginProcessor.cpp).                  *)
(***************************************************************************)
SettingsFollow ==
    \A n \in Networks :
        /\ sustain[n] = Sustain(shape[n])
        /\ attack[n] # Attack(shape[n]) => /\ "shape" \notin changed[n]
                                           /\ attack[n] = 2 * Half
        /\ proportion[n] # mix[n] => "mix" \notin changed[n] /\ proportion[n] = 0

(***************************************************************************)
(* When no update is under way, the filter on the knob's side and no other *)
(* is enabled, and it is tuned to the knob; to the sample rate as well, if *)
(* that has not changed since (IIRCutoffFilter.cpp, updateFilterParams).   *)
(***************************************************************************)
FilterFollows ==
    \A n \in Networks : update[n] = "none" =>
        LET f == Side(cutoff[n])
        IN  /\ enabled[n] = Filtering(cutoff[n])
            /\ tuned[n][f][1] = Clamped(cutoff[n])
            /\ tuned[n][f][2] = rate \/ moved[n]

(***************************************************************************)
(* A block without NaN goes through the one filter the knob has stood for; *)
(* through both or neither only if the knob crossed the middle or stood in *)
(* it meanwhile (IIRCutoffFilter.cpp, processFilters).  Of a block with a  *)
(* NaN, which goes through neither, nothing is claimed; but the next one   *)
(* is filtered right again.                                                *)
(***************************************************************************)
FilteredOnce ==
    \A n \in Networks : block[n] = "done" =>
        \/ passed[n] \in {{"HP"}, {"LP"}} /\ passed[n] \subseteq sides[n]
        \/ "middle" \in sides[n]
        \/ {"HP", "LP"} \subseteq sides[n]
=============================================================================

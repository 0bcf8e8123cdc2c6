--------------------------- MODULE ModelSelection ---------------------------
(***************************************************************************)
(* Which model a network runs, and what the user is told about it.        *)
(*                                                                         *)
(* Each network has an automatable parameter SELECT (off: the model inside *)
(* the plugin, on: a file of the user's).  Switching it on opens a file    *)
(* chooser, if the editor is open; switching it off loads the internal     *)
(* model again.  The name of the model is held by the processor in a       *)
(* juce::Value, shown on a knob of the editor, and saved by the host with  *)
(* the parameters.  The name of the file is all that is saved of it.       *)
(*                                                                         *)
(* Loads are single steps here; ModelLoading has their steps.              *)
(***************************************************************************)
EXTENDS Naturals

CONSTANTS
  Networks,   \* 1 and 2
  Files,      \* models the user can choose
  BuiltIn,    \* "Funk" or "Djembe": the internal model, and its name
  Empty,      \* the empty name
  NoState     \* the host has saved nothing yet

ASSUME SelectionAssumption ==
  /\ Networks \subseteq Nat \ {0}
  /\ BuiltIn \notin Files
  /\ Empty \notin Files

VARIABLES
  select,    \* the parameters SELECT_NETWORK1 and SELECT_NETWORK2
  model,     \* what the session of a network was made from
  value,     \* network1Name, network2Name while they are values of their own
  stored,    \* the names in the "Settings" of the state tree
  linked,    \* do network1Name and network2Name refer to the state tree?
  editor,    \* is the editor open?
  label,     \* the names on the knobs, while it is
  chooser,   \* the network the open file chooser is for, or 0
  saved,     \* the state the host has saved last
  intruded   \* history: did the host set SELECT while a file chooser was open,
             \* or switch it off with no editor to drop the name?

vars ==
  <<select, model, value, stored, linked, editor, label, chooser, saved, intruded>>

Names == Files \cup {BuiltIn, Empty}
States == [select : [Networks -> BOOLEAN], stored : [Networks -> Names]]

\* Types, and the ranges TLC and the proofs rely on.
TypeOK ==
  /\ select \in [Networks -> BOOLEAN]
  /\ model \in [Networks -> Files \cup {BuiltIn}]
  /\ value \in [Networks -> Names]
  /\ stored \in [Networks -> Names]
  /\ linked \in BOOLEAN
  /\ editor \in BOOLEAN
  /\ label \in [Networks -> Names]
  /\ chooser \in Networks \cup {0}
  /\ saved \in States \cup {NoState}
  /\ intruded \in BOOLEAN

\* What network1Name or network2Name says: juce::Value::referTo makes it an
\* alias of the property in the state tree.
Name(n) == IF linked THEN stored[n] ELSE value[n]

-----------------------------------------------------------------------------
AllOff == [n \in Networks |-> FALSE]
AllBuiltIn == [n \in Networks |-> BuiltIn]
NoLabels == [n \in Networks |-> Empty]

\* A processor as its constructor leaves it: the tree gets the names that the
\* values have, but the values do not refer to it yet.
Init ==
  /\ select = AllOff
  /\ model = AllBuiltIn
  /\ value = AllBuiltIn
  /\ stored = AllBuiltIn
  /\ linked = FALSE
  /\ editor = FALSE
  /\ label = NoLabels
  /\ chooser = 0
  /\ saved = NoState
  /\ intruded = FALSE

\* Mutant: the name goes to the knob alone.
SetNameOfKnobOnly(n, name) ==
  /\ label' = [label EXCEPT ![n] = name]
  /\ UNCHANGED <<value, stored>>

(***************************************************************************)
(* XYPad::updateKnobName: the name of network n, in the processor and on   *)
(* the knob.                                                               *)
(***************************************************************************)
updateKnobName(n, name) ==
  /\ label' = [label EXCEPT ![n] = name]
  /\ IF linked
     THEN stored' = [stored EXCEPT ![n] = name] /\ UNCHANGED value
     ELSE value' = [value EXCEPT ![n] = name] /\ UNCHANGED stored

\* Mutant: the destructor of the editor leaves its listeners registered.
ListensForEver == TRUE

\* The editor and its XYPad listen to the parameters while they exist.
EditorListens == editor

\* Mutant: XYPad does not listen to SELECT.
KeepName(n) == UNCHANGED <<value, stored, label>>

\* SELECT went off: XYPad, if there is one, writes its own network1Name or
\* network2Name, which is never assigned and therefore empty.
DropName(n) ==
  IF EditorListens
  THEN updateKnobName(n, Empty)
  ELSE UNCHANGED <<value, stored, label>>

\* Mutant: any change of SELECT opens the chooser.
SwitchOffAsksToo(n) ==
  /\ select' = [select EXCEPT ![n] = FALSE]
  /\ model' = [model EXCEPT ![n] = BuiltIn]
  /\ DropName(n)
  /\ chooser' = IF EditorListens THEN n ELSE chooser

\* SELECT goes off: OnnxProcessor loads the internal model.
SwitchOff(n) ==
  /\ select' = [select EXCEPT ![n] = FALSE]
  /\ model' = [model EXCEPT ![n] = BuiltIn]
  /\ DropName(n)
  /\ UNCHANGED chooser

\* Mutant: the editor numbers the networks once more than it should.
SwitchOnNext(n) ==
  /\ select' = [select EXCEPT ![n] = TRUE]
  /\ chooser' = IF EditorListens THEN n + 1 ELSE chooser
  /\ UNCHANGED <<model, value, stored, label>>

\* SELECT goes on: the editor, if open, asks for a file.  One chooser exists at
\* a time: a second one destroys the first, whose callback is never called.
SwitchOn(n) ==
  /\ select' = [select EXCEPT ![n] = TRUE]
  /\ chooser' = IF EditorListens THEN n ELSE chooser
  /\ UNCHANGED <<model, value, stored, label>>

\* Listeners are called when the value of a parameter changes.
Toggle(n) ==
  /\ select[n] => SwitchOff(n)
  /\ ~select[n] => SwitchOn(n)
  /\ UNCHANGED <<linked, editor, saved>>

-----------------------------------------------------------------------------
\* The user clicks a select button; an open chooser is modal.
Click(n) == editor /\ chooser = 0 /\ Toggle(n) /\ UNCHANGED intruded

\* The host automates SELECT.
Automate(n) ==
  /\ Toggle(n)
  /\ intruded' = (intruded \/ chooser # 0 \/ (select[n] /\ ~editor))

\* The user chooses a file: it is loaded, and its name shown and kept.
Choose(file) ==
  /\ chooser # 0
  /\ model' = [model EXCEPT ![chooser] = file]
  /\ updateKnobName(chooser, file)
  /\ chooser' = 0
  /\ UNCHANGED <<select, linked, editor, saved, intruded>>

\* The user cancels, or chooses an empty file: SELECT is switched off.
Cancel ==
  /\ chooser # 0
  /\ chooser' = 0
  /\ IF select[chooser]
     THEN /\ select' = [select EXCEPT ![chooser] = FALSE]
          /\ model' = [model EXCEPT ![chooser] = BuiltIn]
          /\ DropName(chooser)
     ELSE UNCHANGED <<select, model, value, stored, label>>
  /\ UNCHANGED <<linked, editor, saved, intruded>>

\* The user chooses what is no local file: the callback returns.
ChooseRemote ==
  /\ chooser # 0
  /\ chooser' = 0
  /\ UNCHANGED <<select, model, value, stored, linked, editor, label, saved, intruded>>

\* The editor opens: the knobs show the processor's names.
OpenEditor ==
  /\ ~editor
  /\ editor' = TRUE
  /\ label' = [n \in Networks |-> Name(n)]
  /\ UNCHANGED <<select, model, value, stored, linked, chooser, saved, intruded>>

\* The editor closes, and an open chooser with it, without calling back.
CloseEditor ==
  /\ editor
  /\ editor' = FALSE
  /\ label' = NoLabels
  /\ chooser' = 0
  /\ UNCHANGED <<select, model, value, stored, linked, saved, intruded>>

-----------------------------------------------------------------------------
\* getStateInformation: parameters and tree, the names as the tree has them.
getStateInformation ==
  /\ saved' = [select |-> select, stored |-> stored]
  /\ UNCHANGED <<select, model, value, stored, linked, editor, label, chooser,
                 intruded>>

(***************************************************************************)
(* setStateInformation: replaceState() sets each parameter, which calls    *)
(* the listeners of those that change, network 1 first; then the names are *)
(* made to refer to the new tree.  The knobs are told nothing of the new   *)
(* names.                                                                  *)
(***************************************************************************)
setStateInformation ==
  /\ saved # NoState
  /\ intruded' = (intruded \/ chooser # 0)
  /\ select' = saved.select
  /\ model' = [n \in Networks |->
                 IF select[n] /\ ~saved.select[n] THEN BuiltIn ELSE model[n]]
  /\ label' = [n \in Networks |->
                 IF select[n] /\ ~saved.select[n] /\ EditorListens
                 THEN Empty ELSE label[n]]
  /\ LET on == {n \in Networks : ~select[n] /\ saved.select[n]}
     IN  IF EditorListens /\ on # {}
         THEN \E n \in on : (\A m \in on : m <= n) /\ chooser' = n
         ELSE UNCHANGED chooser
  /\ stored' = saved.stored
  /\ linked' = TRUE
  /\ UNCHANGED <<value, editor, saved>>

\* The host closes the project and opens it again: a new processor.
NewProcessor ==
  /\ select' = AllOff
  /\ model' = AllBuiltIn
  /\ value' = AllBuiltIn
  /\ stored' = AllBuiltIn
  /\ linked' = FALSE
  /\ editor' = FALSE
  /\ label' = NoLabels
  /\ chooser' = 0
  /\ UNCHANGED <<saved, intruded>>

Next ==
  \/ \E n \in Networks : Click(n) \/ Automate(n)
  \/ \E file \in Files : Choose(file)
  \/ Cancel \/ ChooseRemote
  \/ OpenEditor \/ CloseEditor
  \/ getStateInformation \/ setStateInformation \/ NewProcessor

Spec == Init /\ [][Next]_vars

-----------------------------------------------------------------------------
(***************************************************************************)
(* In a processor that was given no saved state, a model of the user's is  *)
(* never run under another name, kept or shown, however clicks,            *)
(* automation, choices and the opening and closing of the editor follow    *)
(* each other (XYPad::updateKnobName and the editor's constructor).        *)
(***************************************************************************)
ExternalIsNamed ==
  ~linked =>
    \A n \in Networks : model[n] \in Files =>
      Name(n) = model[n] /\ (editor => label[n] = model[n])

(***************************************************************************)
(* Unless the host intrudes: a network whose SELECT is off runs the        *)
(* internal model and does not claim the name of a file, nor does          *)
(* any state saved (OnnxProcessor::parameterChanged,                  *)
(* XYPad::parameterChanged and the tree the names may or may not be in).   *)
(***************************************************************************)
OffIsBuiltIn ==
  ~intruded =>
    /\ \A n \in Networks : ~select[n] => model[n] = BuiltIn /\ Name(n) \notin Files
    /\ saved # NoState =>
         \A n \in Networks : ~saved.select[n] => saved.stored[n] \notin Files

(***************************************************************************)
(* Unless the host intrudes, a file chooser is only ever open for a        *)
(* network whose SELECT is on, so that a file chosen is not loaded into a  *)
(* network that is to run its internal model (openFileChooser's callback   *)
(* does not look at the parameter again).                                  *)
(***************************************************************************)
ChooserIsWanted == ~intruded /\ chooser # 0 => select[chooser]

(***************************************************************************)
(* Whatever the host does, a file chooser, whose callback captures the     *)
(* editor, is open only while the editor is                                *)
(* (the destructor removes the listener and destroys the chooser).         *)
(***************************************************************************)
ChooserNeedsEditor == chooser # 0 => editor
=============================================================================

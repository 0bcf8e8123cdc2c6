------------------------ MODULE ModelSelectionProofs ------------------------
(***************************************************************************)
(* Proofs about ModelSelection, for any networks and files.                *)
(***************************************************************************)
EXTENDS ModelSelection, TLAPS

\* updateKnobName renames one network, wherever its name is kept, and its knob.
LEMMA Renaming ==
  ASSUME TypeOK, NEW n \in Networks, NEW name \in Names,
         updateKnobName(n, name), UNCHANGED linked
  PROVE  /\ value' \in [Networks -> Names]
         /\ stored' \in [Networks -> Names]
         /\ label' \in [Networks -> Names]
         /\ \A m \in Networks : Name(m)' = IF m = n THEN name ELSE Name(m)
         /\ \A m \in Networks : label'[m] = IF m = n THEN name ELSE label[m]
         /\ ~linked => stored' = stored
BY DEF TypeOK, updateKnobName, Name

\* setStateInformation leaves the chooser that was open, or opens one of a
\* network that is switched on.
LEMMA RecallChooser ==
  ASSUME setStateInformation
  PROVE  \/ chooser' = chooser
         \/ editor /\ chooser' \in {n \in Networks : saved.select[n]}
BY DEF setStateInformation, EditorListens

-----------------------------------------------------------------------------
(***************************************************************************)
(* Type correctness, action by action.                                     *)
(***************************************************************************)
LEMMA TypeStep == TypeOK /\ [Next]_vars => TypeOK'
<1> SUFFICES ASSUME TypeOK, [Next]_vars PROVE TypeOK'
  OBVIOUS
<1>0. BuiltIn \in Names /\ Empty \in Names /\ Files \subseteq Names
  BY DEF Names
<1>1. ASSUME NEW n \in Networks, Toggle(n), intruded' \in BOOLEAN PROVE TypeOK'
  <2>1. CASE select[n] /\ editor
    <3>1. updateKnobName(n, Empty) /\ UNCHANGED linked
      BY <1>1, <2>1 DEF Toggle, SwitchOff, DropName, EditorListens
    <3> QED
      BY <1>0, <1>1, <2>1, <3>1, Renaming DEF Toggle, SwitchOff, TypeOK
  <2>2. CASE select[n] /\ ~editor
    BY <1>1, <2>2 DEF Toggle, SwitchOff, DropName, EditorListens, TypeOK
  <2>3. CASE ~select[n]
    BY <1>1, <2>3 DEF Toggle, SwitchOn, EditorListens, TypeOK
  <2> QED
    BY <2>1, <2>2, <2>3
<1>2. ASSUME NEW file \in Files, Choose(file) PROVE TypeOK'
  <2>1. chooser \in Networks /\ updateKnobName(chooser, file) /\ UNCHANGED linked
    BY <1>2 DEF Choose, TypeOK
  <2> QED
    BY <1>0, <1>2, <2>1, Renaming DEF Choose, TypeOK
<1>3. CASE Cancel
  <2>1. CASE select[chooser] /\ editor
    <3>1. chooser \in Networks /\ updateKnobName(chooser, Empty) /\ UNCHANGED linked
      BY <1>3, <2>1 DEF Cancel, DropName, EditorListens, TypeOK
    <3> QED
      BY <1>0, <1>3, <2>1, <3>1, Renaming DEF Cancel, TypeOK
  <2>2. CASE select[chooser] /\ ~editor
    BY <1>3, <2>2 DEF Cancel, DropName, EditorListens, TypeOK
  <2>3. CASE ~select[chooser]
    BY <1>3, <2>3 DEF Cancel, TypeOK
  <2> QED
    BY <2>1, <2>2, <2>3
<1>4. CASE ChooseRemote
  BY <1>4 DEF ChooseRemote, TypeOK
<1>5. CASE OpenEditor
  BY <1>5 DEF OpenEditor, TypeOK, Name
<1>6. CASE CloseEditor
  BY <1>0, <1>6 DEF CloseEditor, NoLabels, TypeOK
<1>7. CASE getStateInformation
  BY <1>7 DEF getStateInformation, TypeOK, States
<1>8. CASE setStateInformation
  <2>1. saved \in States
    BY <1>8 DEF setStateInformation, TypeOK
  <2>2. chooser' \in Networks \cup {0}
    BY <1>8, RecallChooser DEF TypeOK
  <2> QED
    BY <1>0, <1>8, <2>1, <2>2 DEF setStateInformation, TypeOK, States
<1>9. CASE NewProcessor
  BY <1>0, <1>9 DEF NewProcessor, AllOff, AllBuiltIn, NoLabels, TypeOK
<1>10. CASE UNCHANGED vars
  BY <1>10 DEF vars, TypeOK
<1>11. ASSUME NEW n \in Networks, Click(n) \/ Automate(n) PROVE TypeOK'
  <2>1. Toggle(n) /\ intruded' \in BOOLEAN
    BY <1>11 DEF Click, Automate, TypeOK
  <2> QED
    BY <1>1, <2>1
<1> QED
  BY <1>2, <1>3, <1>4, <1>5, <1>6, <1>7, <1>8, <1>9, <1>10, <1>11 DEF Next

LEMMA TypeInit == Init => TypeOK
BY DEF Init, AllOff, AllBuiltIn, NoLabels, TypeOK, Names

\* Every variable keeps its type, whatever the host does.
THEOREM TypeCorrect == Spec => []TypeOK
BY TypeInit, TypeStep, PTL DEF Spec

-----------------------------------------------------------------------------
(***************************************************************************)
(* The file chooser lives no longer than the editor: inductive as it is.   *)
(***************************************************************************)
LEMMA ChooserStep == ChooserNeedsEditor /\ [Next]_vars => ChooserNeedsEditor'
<1> SUFFICES ASSUME ChooserNeedsEditor, [Next]_vars PROVE ChooserNeedsEditor'
  OBVIOUS
<1> USE DEF ChooserNeedsEditor
<1>1. ASSUME NEW n \in Networks, Toggle(n) PROVE ChooserNeedsEditor'
  BY <1>1 DEF Toggle, SwitchOff, DropName, SwitchOn, EditorListens
<1>2. CASE setStateInformation
  BY <1>2, RecallChooser DEF setStateInformation
<1>3. CASE \/ \E file \in Files : Choose(file)
           \/ Cancel \/ ChooseRemote \/ CloseEditor \/ NewProcessor
  BY <1>3 DEF Choose, Cancel, ChooseRemote, CloseEditor, NewProcessor
<1>4. CASE OpenEditor \/ getStateInformation \/ UNCHANGED vars
  BY <1>4 DEF OpenEditor, getStateInformation, vars
<1> QED
  BY <1>1, <1>2, <1>3, <1>4 DEF Next, Click, Automate

\* No file chooser outlives the editor its callback captures.
THEOREM ChooserWithinEditor == Spec => []ChooserNeedsEditor
<1>1. Init => ChooserNeedsEditor
  BY DEF Init, ChooserNeedsEditor
<1> QED
  BY <1>1, ChooserStep, PTL DEF Spec

-----------------------------------------------------------------------------
(***************************************************************************)
(* Names of external models.  What a network is called changes together    *)
(* with its model, or while it runs the internal one.                      *)
(***************************************************************************)
LEMMA NamedStep ==
  ASSUME SelectionAssumption,
         TypeOK, ChooserNeedsEditor, ExternalIsNamed, [Next]_vars
  PROVE  ExternalIsNamed'
<1>0. BuiltIn \in Names /\ Empty \in Names /\ Files \subseteq Names
  BY DEF Names
<1>1. ASSUME NEW n \in Networks, Toggle(n) PROVE ExternalIsNamed'
  <2>1. CASE select[n] /\ editor
    <3>1. updateKnobName(n, Empty) /\ UNCHANGED <<linked, editor>>
      BY <1>1, <2>1 DEF Toggle, SwitchOff, DropName, EditorListens
    <3>2. model' = [model EXCEPT ![n] = BuiltIn]
      BY <1>1, <2>1 DEF Toggle, SwitchOff
    <3> QED
      BY <1>0, <3>1, <3>2, Renaming DEF ExternalIsNamed, SelectionAssumption, TypeOK
  <2>2. CASE select[n] /\ ~editor
    BY <1>1, <2>2
       DEF Toggle, SwitchOff, DropName, EditorListens, ExternalIsNamed, SelectionAssumption,
           TypeOK, Name
  <2>3. CASE ~select[n]
    BY <1>1, <2>3 DEF Toggle, SwitchOn, ExternalIsNamed, Name
  <2> QED
    BY <2>1, <2>2, <2>3
<1>2. ASSUME NEW file \in Files, Choose(file) PROVE ExternalIsNamed'
  <2>1. chooser \in Networks /\ updateKnobName(chooser, file)
    BY <1>2 DEF Choose, TypeOK
  <2>2. model' = [model EXCEPT ![chooser] = file] /\ UNCHANGED <<linked, editor>>
    BY <1>2 DEF Choose
  <2> QED
    BY <1>0, <2>1, <2>2, Renaming DEF ExternalIsNamed, TypeOK
<1>3. CASE Cancel
  <2>1. CASE select[chooser]
    <3>1. chooser \in Networks /\ updateKnobName(chooser, Empty)
      BY <1>3, <2>1 DEF Cancel, DropName, EditorListens, ChooserNeedsEditor, TypeOK
    <3>2. model' = [model EXCEPT ![chooser] = BuiltIn] /\ UNCHANGED <<linked, editor>>
      BY <1>3, <2>1 DEF Cancel
    <3> QED
      BY <1>0, <3>1, <3>2, Renaming DEF ExternalIsNamed, SelectionAssumption, TypeOK
  <2>2. CASE ~select[chooser]
    BY <1>3, <2>2 DEF Cancel, ExternalIsNamed, Name
  <2> QED
    BY <2>1, <2>2
<1>4. CASE OpenEditor
  BY <1>4 DEF OpenEditor, ExternalIsNamed, Name
<1>5. CASE ChooseRemote \/ CloseEditor \/ UNCHANGED vars
  BY <1>5 DEF ChooseRemote, CloseEditor, vars, ExternalIsNamed, Name
<1>6. CASE getStateInformation
  BY <1>6 DEF getStateInformation, ExternalIsNamed, Name
<1>7. CASE setStateInformation
  BY <1>7 DEF setStateInformation, ExternalIsNamed
<1>8. CASE NewProcessor
  BY <1>8 DEF NewProcessor, AllBuiltIn, ExternalIsNamed, SelectionAssumption
<1> QED
  BY <1>1, <1>2, <1>3, <1>4, <1>5, <1>6, <1>7, <1>8 DEF Next, Click, Automate

\* In a processor that was given no saved state, an external model always runs
\* under its name, in the processor and on the knob.
THEOREM ExternalModelsNamed == Spec => []ExternalIsNamed
<1>1. Init => ExternalIsNamed
  BY SelectionAssumption DEF Init, AllBuiltIn, ExternalIsNamed, SelectionAssumption
<1>2. TypeOK /\ ChooserNeedsEditor /\ ExternalIsNamed /\ [Next]_vars => ExternalIsNamed'
  BY NamedStep, SelectionAssumption
<1> QED
  BY <1>1, <1>2, TypeCorrect, ChooserWithinEditor, PTL DEF Spec

-----------------------------------------------------------------------------
(***************************************************************************)
(* Switched-off networks.  A chosen file goes to a network that is on,     *)
(* because no chooser is open for one that is off; and a state saved       *)
(* before the names are in the tree saves the built-in names.              *)
(***************************************************************************)
OffInv ==
  /\ OffIsBuiltIn
  /\ ChooserIsWanted
  /\ ~linked => \A n \in Networks : stored[n] = BuiltIn

\* A step that renames network n, and leaves the names of files only to networks
\* that are on, keeps the invariant.
LEMMA OffRenaming ==
  ASSUME SelectionAssumption, TypeOK, OffInv, ~intruded,
         NEW n \in Networks, NEW name \in Names, updateKnobName(n, name),
         NEW on \in BOOLEAN, select' = [select EXCEPT ![n] = on],
         NEW file \in Files \cup {BuiltIn}, model' = [model EXCEPT ![n] = file],
         ~on => file = BuiltIn /\ name \notin Files,
         chooser' = 0, UNCHANGED <<linked, saved>>
  PROVE  OffInv'
<1>1. /\ \A m \in Networks : Name(m)' = IF m = n THEN name ELSE Name(m)
      /\ ~linked => stored' = stored
  BY Renaming
<1>2. ASSUME NEW m \in Networks, ~select'[m]
      PROVE  model'[m] = BuiltIn /\ Name(m)' \notin Files
  <2>1. CASE m = n
    BY <1>1, <1>2, <2>1 DEF TypeOK
  <2>2. CASE m # n
    <3>1. ~select[m] /\ model'[m] = model[m]
      BY <1>2, <2>2 DEF TypeOK
    <3> QED
      BY <1>1, <2>2, <3>1 DEF OffInv, OffIsBuiltIn
  <2> QED
    BY <2>1, <2>2
<1>3. saved' # NoState =>
        \A m \in Networks : ~saved'.select[m] => saved'.stored[m] \notin Files
  BY DEF OffInv, OffIsBuiltIn
<1>4. ChooserIsWanted'
  BY DEF ChooserIsWanted
<1> QED
  BY <1>1, <1>2, <1>3, <1>4 DEF OffInv, OffIsBuiltIn

LEMMA OffStep ==
  ASSUME SelectionAssumption, TypeOK, ChooserNeedsEditor, OffInv, [Next]_vars,
         ~intruded, ~intruded'
  PROVE  OffInv'
<1>0. /\ BuiltIn \in Names /\ Empty \in Names /\ Files \subseteq Names
      /\ BuiltIn \notin Files /\ Empty \notin Files
      /\ 0 \notin Networks
  BY DEF Names, SelectionAssumption
<1>1. ASSUME NEW n \in Networks, Toggle(n), chooser = 0, select[n] => editor
      PROVE  OffInv'
  <2>1. CASE select[n]
    <3>1. updateKnobName(n, Empty) /\ UNCHANGED <<linked, saved, chooser>>
      BY <1>1, <2>1 DEF Toggle, SwitchOff, DropName, EditorListens
    <3>2. /\ select' = [select EXCEPT ![n] = FALSE]
          /\ model' = [model EXCEPT ![n] = BuiltIn]
      BY <1>1, <2>1 DEF Toggle, SwitchOff
    <3> QED
      BY <1>0, <1>1, <3>1, <3>2, OffRenaming
  <2>2. CASE ~select[n]
    BY <1>0, <1>1, <2>2
       DEF Toggle, SwitchOn, EditorListens, OffInv, OffIsBuiltIn,
           ChooserIsWanted, TypeOK, Name
  <2> QED
    BY <2>1, <2>2
<1>2. ASSUME NEW file \in Files, Choose(file) PROVE OffInv'
  <2>1. chooser \in Networks /\ updateKnobName(chooser, file)
    BY <1>2 DEF Choose, TypeOK
  <2>2. /\ model' = [model EXCEPT ![chooser] = file]
        /\ chooser' = 0
        /\ UNCHANGED <<select, linked, saved>>
    BY <1>2 DEF Choose
  <2>3. select' = [select EXCEPT ![chooser] = TRUE]
    BY <1>2, <2>1 DEF Choose, OffInv, ChooserIsWanted, TypeOK
  <2> QED
    BY <1>0, <2>1, <2>2, <2>3, OffRenaming
<1>3. CASE Cancel
  <2>1. chooser \in Networks /\ select[chooser] /\ chooser' = 0
    BY <1>3 DEF Cancel, TypeOK, OffInv, ChooserIsWanted
  <2>2. /\ updateKnobName(chooser, Empty)
        /\ select' = [select EXCEPT ![chooser] = FALSE]
        /\ model' = [model EXCEPT ![chooser] = BuiltIn]
        /\ UNCHANGED <<linked, saved>>
    BY <1>3, <2>1 DEF Cancel, DropName, EditorListens, ChooserNeedsEditor
  <2> QED
    BY <1>0, <2>1, <2>2, OffRenaming
<1>4. CASE ChooseRemote \/ OpenEditor \/ CloseEditor \/ UNCHANGED vars
  <2>1. UNCHANGED <<select, model, value, stored, linked, saved>>
    BY <1>4 DEF ChooseRemote, OpenEditor, CloseEditor, vars
  <2>2. chooser' = chooser \/ chooser' = 0
    BY <1>4 DEF ChooseRemote, OpenEditor, CloseEditor, vars
  <2> QED
    BY <2>1, <2>2 DEF OffInv, OffIsBuiltIn, ChooserIsWanted, Name
<1>5. CASE getStateInformation
  <2>1. \A n \in Networks : ~select[n] => stored[n] \notin Files
    BY <1>0 DEF OffInv, OffIsBuiltIn, Name
  <2>2. saved'.select = select /\ saved'.stored = stored
    BY <1>5 DEF getStateInformation
  <2> QED
    BY <1>5, <2>1, <2>2
       DEF getStateInformation, OffInv, OffIsBuiltIn, ChooserIsWanted, Name
<1>6. CASE setStateInformation
  <2>1. /\ saved \in States /\ saved # NoState /\ chooser = 0
        /\ select' = saved.select /\ stored' = saved.stored /\ linked' /\ saved' = saved
    BY <1>6 DEF setStateInformation, TypeOK, SelectionAssumption
  <2>2. \A n \in Networks : ~select'[n] => model'[n] = BuiltIn
    BY <1>6, <2>1 DEF setStateInformation, OffInv, OffIsBuiltIn, TypeOK
  <2>3. OffIsBuiltIn'
    BY <2>1, <2>2 DEF OffInv, OffIsBuiltIn, Name
  <2>4. ChooserIsWanted'
    BY <1>6, <2>1, RecallChooser DEF ChooserIsWanted
  <2> QED
    BY <2>1, <2>3, <2>4 DEF OffInv
<1>7. CASE NewProcessor
  BY <1>0, <1>7 DEF NewProcessor, AllOff, AllBuiltIn, OffInv, OffIsBuiltIn,
                    ChooserIsWanted, Name
<1>8. ASSUME NEW n \in Networks, Click(n) \/ Automate(n) PROVE OffInv'
  BY <1>1, <1>8 DEF Click, Automate
<1> QED
  BY <1>2, <1>3, <1>4, <1>5, <1>6, <1>7, <1>8 DEF Next

\* What the host has done stays done.
LEMMA IntrudedForGood == [Next]_vars => (intruded => intruded')
BY DEF Next, vars, Click, Automate, Choose, Cancel, ChooseRemote, OpenEditor,
       CloseEditor, getStateInformation, setStateInformation, NewProcessor

\* Unless the host intrudes, a network whose SELECT is off runs the internal model
\* under no file's name, and no file chooser is open for it.
THEOREM OffNetworksBuiltIn == Spec => [](OffIsBuiltIn /\ ChooserIsWanted)
<1> DEFINE QuietInv == ~intruded => OffInv
<1>1. Init => QuietInv
  BY SelectionAssumption DEF Init, AllOff, AllBuiltIn, OffInv, OffIsBuiltIn,
     ChooserIsWanted, Name, SelectionAssumption
<1>2. TypeOK /\ ChooserNeedsEditor /\ QuietInv /\ [Next]_vars => QuietInv'
  BY OffStep, IntrudedForGood, SelectionAssumption
<1>3. QuietInv => OffIsBuiltIn /\ ChooserIsWanted
  BY DEF OffInv, OffIsBuiltIn, ChooserIsWanted
<1> QED
  BY <1>1, <1>2, <1>3, TypeCorrect, ChooserWithinEditor, PTL DEF Spec

\* Unless the host intrudes, the callback of the chooser, which does not look at SELECT
\* again, finds a network whose SELECT is on (PluginEditor.cpp, openFileChooser).
THEOREM ChooserForOnNetworks == Spec => []ChooserIsWanted
BY OffNetworksBuiltIn, PTL
=============================================================================

------------------------- MODULE MakeUpGainProofs -------------------------
(***************************************************************************)
(* The make-up gain's promises, for any ratios, gains and ring sizes.      *)
(***************************************************************************)
EXTENDS MakeUpGain, TLAPS

USE GainAssumption

(***************************************************************************)
(* The unit of makeUpGain at every place: once or, after a change that     *)
(* overran the branch, twice converted outside of the branch; linear in    *)
(* it, unless a change has just come.                                      *)
(***************************************************************************)
Units == /\ at \notin Branch => makeUpGain[2] \in {1, 2}
         /\ at \in {"ramp", "keep", "load"} => makeUpGain[2] \in {0, 1}
         /\ at \in {"ramp", "keep", "load", "store"} => reg[2] \in {0, 1}

(***************************************************************************)
(* Where the gain chosen is before the block ends: in place, unless the    *)
(* branch has begun, and the branch is not entered with auto off.          *)
(***************************************************************************)
ChosenInPlace == wanted # Automatic =>
                     /\ ~auto
                     /\ ~setting /\ ~overrun /\ at \notin Branch
                            => makeUpGain = Decibels(wanted)
                     /\ ~setting /\ at \in Branch => overrun

(***************************************************************************)
(* How far the rings are apart within a block.                             *)
(***************************************************************************)
RingsInBlock == ~skewed =>
    IF at \in {"start", "samples"} /\ auto
    THEN inIndex = Pushed(outIndex) ELSE inIndex = outIndex

(***************************************************************************)
(* The end of a block that no change fell into, on its way to previous.    *)
(***************************************************************************)
GainFollowed ==
    unsteady < 2 =>
        /\ at = "samples" => applied = IF auto THEN Linear(Unity) ELSE dB2amp(makeUpGain)
        /\ at \in Branch => auto
        /\ at = "ramp" => reg = makeUpGain
        /\ at = "keep" => applied = makeUpGain
        /\ at \in {"load", "store"} => previous = applied
        /\ at = "idle" => previous = ended
GainFollows ==
    unsteady = 0 =>
        /\ at \in {"start", "samples", "ratio", "ramp"} => previous = ended
        /\ at \in {"keep", "load", "store"} => began = ended

(***************************************************************************)
(* A chosen gain that nothing has changed is the one the block before      *)
(* ended with.                                                             *)
(***************************************************************************)
ChosenFollows ==
    ~renewed /\ ~auto =>
        /\ unsteady < 2 /\ at = "idle" => dB2amp(makeUpGain) = ended
        /\ unsteady = 0 /\ at = "start" => dB2amp(makeUpGain) = ended
        /\ unsteady = 0 /\ at = "samples" => began = ended

IInv == /\ TypeOK /\ Units /\ ChosenInPlace /\ RingsInBlock
        /\ GainFollowed /\ GainFollows /\ ChosenFollows
-----------------------------------------------------------------------------
LEMMA GainTypes ==
  ASSUME NEW g \in Values
  PROVE  /\ g[1] \in Sources /\ g[2] \in 0 .. 2
         /\ g[2] \in {1, 2} => dB2amp(g) \in Values /\ dB2amp(g)[2] \in {0, 1}
         /\ g[2] \in {0, 1} => amp2dB(g) \in Values /\ amp2dB(g)[2] \in {1, 2}
BY DEF Values, dB2amp, amp2dB

LEMMA SourceTypes ==
  ASSUME NEW x \in Sources
  PROVE  /\ Linear(x) \in Values /\ Linear(x)[2] = 0
         /\ Decibels(x) \in Values /\ Decibels(x)[2] = 1
BY DEF Values, Linear, Decibels

LEMMA PushedTypes ==
  ASSUME NEW i \in 0 .. RingBlocks - 1
  PROVE  Pushed(i) \in 0 .. RingBlocks - 1
BY DEF Pushed

LEMMA InvInit == Init => IInv
<1> SUFFICES ASSUME Init PROVE IInv
  OBVIOUS
<1>1. Automatic \in Sources /\ Memory \in Sources /\ Unity \in Sources
  BY DEF Sources
<1>2. TypeOK
  <2>1. /\ Decibels(Automatic) \in Values /\ Linear(Memory) \in Values
        /\ Linear(Unity) \in Values
    BY <1>1, SourceTypes
  <2>2. 0 \in 0 .. RingBlocks - 1 /\ 0 \in 0 .. 2
    OBVIOUS
  <2>3. /\ setting \in BOOLEAN /\ auto \in BOOLEAN
        /\ overrun \in BOOLEAN /\ skewed \in BOOLEAN /\ renewed \in BOOLEAN
    BY Zenon DEF Init
  <2>4. "idle" \in Places
    BY DEF Places
  <2> QED BY <2>1, <2>2, <2>3, <2>4 DEF Init, TypeOK
<1>3. Units /\ RingsInBlock /\ GainFollowed /\ GainFollows /\ ChosenFollows
  BY DEF Init, Units, Branch, Decibels, RingsInBlock, GainFollowed, GainFollows,
         ChosenFollows
<1>4. ChosenInPlace
  BY DEF Init, ChosenInPlace
<1> QED BY <1>2, <1>3, <1>4 DEF IInv

LEMMA SwitchKeeps ==
  ASSUME IInv, NEW v \in Gains \cup {Automatic}, Switch(v)
  PROVE  IInv'
<1> USE DEF IInv, parameter, index, gains, Switch
<1>1. TypeOK'
  <2>1. auto' \in BOOLEAN /\ setting' \in BOOLEAN
    BY Zenon
  <2>2. skewed' \in BOOLEAN /\ unsteady' \in 0 .. 2
    BY DEF TypeOK
  <2> QED BY <2>1, <2>2 DEF TypeOK
<1>2. Units'
  BY GainTypes, SourceTypes DEF TypeOK, Units, Branch, Sources
<1>3. ChosenInPlace'
  BY DEF TypeOK, ChosenInPlace, Branch
<1>4. RingsInBlock'
  BY DEF TypeOK, RingsInBlock
<1>5. GainFollowed'
  BY DEF TypeOK, GainFollowed, GainFollows, Branch
<1>6. GainFollows'
  BY DEF TypeOK, GainFollowed, GainFollows
<1>7. ChosenFollows'
  BY DEF TypeOK, GainFollowed, ChosenFollows, Branch
<1> QED BY <1>1, <1>2, <1>3, <1>4, <1>5, <1>6, <1>7

LEMMA SetKeeps ==
  ASSUME IInv, SetMakeUpGain
  PROVE  IInv'
<1> USE DEF IInv, parameter, index, gains, SetMakeUpGain
<1>1. TypeOK'
  <2>1. makeUpGain' \in Values
    BY SourceTypes DEF TypeOK, Sources
  <2>2. overrun' \in BOOLEAN /\ unsteady' \in 0 .. 2
    BY DEF TypeOK, Branch
  <2> QED BY <2>1, <2>2 DEF TypeOK
<1>2. Units'
  BY GainTypes, SourceTypes DEF TypeOK, Units, Branch, Sources
<1>3. ChosenInPlace'
  BY DEF TypeOK, ChosenInPlace, Branch
<1>4. RingsInBlock'
  BY DEF TypeOK, RingsInBlock
<1>5. GainFollowed'
  BY DEF TypeOK, GainFollowed, GainFollows, Branch
<1>6. GainFollows'
  BY DEF TypeOK, GainFollowed, GainFollows
<1>7. ChosenFollows'
  BY DEF TypeOK, GainFollowed, ChosenFollows, Branch
<1> QED BY <1>1, <1>2, <1>3, <1>4, <1>5, <1>6, <1>7

LEMMA PrepareKeeps ==
  ASSUME IInv, Prepare
  PROVE  IInv'
<1> USE DEF IInv, parameter, index, gains, Prepare
<1>1. TypeOK'
  <2>1. 0 \in 0 .. RingBlocks - 1
    OBVIOUS
  <2> QED BY <2>1 DEF TypeOK
<1>2. Units'
  BY GainTypes, SourceTypes DEF TypeOK, Units, Branch, Sources
<1>3. ChosenInPlace'
  BY DEF TypeOK, ChosenInPlace, Branch
<1>4. RingsInBlock'
  BY DEF TypeOK, RingsInBlock
<1>5. GainFollowed'
  BY DEF TypeOK, GainFollowed, GainFollows, Branch
<1>6. GainFollows'
  BY DEF TypeOK, GainFollowed, GainFollows
<1>7. ChosenFollows'
  BY DEF TypeOK, GainFollowed, ChosenFollows, Branch
<1> QED BY <1>1, <1>2, <1>3, <1>4, <1>5, <1>6, <1>7

LEMMA CopyInputKeeps ==
  ASSUME IInv, CopyInput
  PROVE  IInv'
<1> USE DEF IInv, parameter, index, gains, CopyInput, StartBlock
<1>1. TypeOK'
  BY GainTypes, SourceTypes, PushedTypes DEF TypeOK, Units, Places, Branch, Sources
<1>2. Units'
  BY GainTypes, SourceTypes DEF TypeOK, Units, Branch, Sources
<1>3. ChosenInPlace'
  BY DEF TypeOK, ChosenInPlace, Branch
<1>4. RingsInBlock'
  BY DEF TypeOK, RingsInBlock
<1>5. GainFollowed'
  BY DEF TypeOK, GainFollowed, GainFollows, Branch
<1>6. GainFollows'
  BY DEF TypeOK, GainFollowed, GainFollows
<1>7. ChosenFollows'
  BY DEF TypeOK, GainFollowed, ChosenFollows, Branch
<1> QED BY <1>1, <1>2, <1>3, <1>4, <1>5, <1>6, <1>7

LEMMA SampleKeeps ==
  ASSUME IInv, Sample
  PROVE  IInv'
<1> USE DEF IInv, parameter, index, gains, Sample
<1>1. TypeOK'
  BY GainTypes, SourceTypes, PushedTypes DEF TypeOK, Units, Places, Branch, Sources
<1>2. Units'
  BY GainTypes, SourceTypes DEF TypeOK, Units, Branch, Sources
<1>3. ChosenInPlace'
  BY DEF TypeOK, ChosenInPlace, Branch
<1>4. RingsInBlock'
  BY DEF TypeOK, RingsInBlock
<1>5. GainFollowed'
  BY DEF TypeOK, GainFollowed, GainFollows, Branch
<1>6. GainFollows'
  BY DEF TypeOK, GainFollowed, GainFollows
<1>7. ChosenFollows'
  BY DEF TypeOK, GainFollowed, ChosenFollows, Branch
<1> QED BY <1>1, <1>2, <1>3, <1>4, <1>5, <1>6, <1>7

LEMMA KeepChosenKeeps ==
  ASSUME IInv, KeepChosen
  PROVE  IInv'
<1> USE DEF IInv, parameter, index, gains, KeepChosen, EndManual
<1>1. TypeOK'
  BY GainTypes, SourceTypes, PushedTypes DEF TypeOK, Units, Places, Branch, Sources
<1>2. Units'
  BY GainTypes, SourceTypes DEF TypeOK, Units, Branch, Sources
<1>3. ChosenInPlace'
  BY DEF TypeOK, ChosenInPlace, Branch
<1>4. RingsInBlock'
  BY DEF TypeOK, RingsInBlock
<1>5. GainFollowed'
  BY DEF TypeOK, GainFollowed, GainFollows, Branch
<1>6. GainFollows'
  BY DEF TypeOK, GainFollowed, GainFollows
<1>7. ChosenFollows'
  BY DEF TypeOK, GainFollowed, ChosenFollows, Branch
<1> QED BY <1>1, <1>2, <1>3, <1>4, <1>5, <1>6, <1>7

LEMMA CopyOutputKeeps ==
  ASSUME IInv, CopyOutput
  PROVE  IInv'
<1> USE DEF IInv, parameter, index, gains, CopyOutput, EnterBranch
<1>1. TypeOK'
  BY GainTypes, SourceTypes, PushedTypes DEF TypeOK, Units, Places, Branch, Sources
<1>2. Units'
  BY GainTypes, SourceTypes DEF TypeOK, Units, Branch, Sources
<1>3. ChosenInPlace'
  BY DEF TypeOK, ChosenInPlace, Branch
<1>4. RingsInBlock'
  BY DEF TypeOK, RingsInBlock
<1>5. GainFollowed'
  BY DEF TypeOK, GainFollowed, GainFollows, Branch
<1>6. GainFollows'
  BY DEF TypeOK, GainFollowed, GainFollows
<1>7. ChosenFollows'
  BY DEF TypeOK, GainFollowed, ChosenFollows, Branch
<1> QED BY <1>1, <1>2, <1>3, <1>4, <1>5, <1>6, <1>7

LEMMA StoreRatioKeeps ==
  ASSUME IInv, NEW r \in Ratios, StoreRatio(r)
  PROVE  IInv'
<1> USE DEF IInv, parameter, index, gains, StoreRatio
<1>1. TypeOK'
  BY GainTypes, SourceTypes, PushedTypes DEF TypeOK, Units, Places, Branch, Sources
<1>2. Units'
  BY GainTypes, SourceTypes DEF TypeOK, Units, Branch, Sources
<1>3. ChosenInPlace'
  BY DEF TypeOK, ChosenInPlace, Branch
<1>4. RingsInBlock'
  BY DEF TypeOK, RingsInBlock
<1>5. GainFollowed'
  BY DEF TypeOK, GainFollowed, GainFollows, Branch
<1>6. GainFollows'
  BY DEF TypeOK, GainFollowed, GainFollows
<1>7. ChosenFollows'
  BY DEF TypeOK, GainFollowed, ChosenFollows, Branch
<1> QED BY <1>1, <1>2, <1>3, <1>4, <1>5, <1>6, <1>7

LEMMA RampKeeps ==
  ASSUME IInv, Ramp
  PROVE  IInv'
<1> USE DEF IInv, parameter, index, gains, Ramp
<1>1. TypeOK'
  BY GainTypes, SourceTypes, PushedTypes DEF TypeOK, Units, Places, Branch, Sources
<1>2. Units'
  BY GainTypes, SourceTypes DEF TypeOK, Units, Branch, Sources
<1>3. ChosenInPlace'
  BY DEF TypeOK, ChosenInPlace, Branch
<1>4. RingsInBlock'
  BY DEF TypeOK, RingsInBlock
<1>5. GainFollowed'
  BY DEF TypeOK, GainFollowed, GainFollows, Branch
<1>6. GainFollows'
  BY DEF TypeOK, GainFollowed, GainFollows
<1>7. ChosenFollows'
  BY DEF TypeOK, GainFollowed, ChosenFollows, Branch
<1> QED BY <1>1, <1>2, <1>3, <1>4, <1>5, <1>6, <1>7

LEMMA KeepRatioKeeps ==
  ASSUME IInv, KeepRatio
  PROVE  IInv'
<1> USE DEF IInv, parameter, index, gains, KeepRatio
<1>1. TypeOK'
  BY GainTypes, SourceTypes, PushedTypes DEF TypeOK, Units, Places, Branch, Sources
<1>2. Units'
  BY GainTypes, SourceTypes DEF TypeOK, Units, Branch, Sources
<1>3. ChosenInPlace'
  BY DEF TypeOK, ChosenInPlace, Branch
<1>4. RingsInBlock'
  BY DEF TypeOK, RingsInBlock
<1>5. GainFollowed'
  BY DEF TypeOK, GainFollowed, GainFollows, Branch
<1>6. GainFollows'
  BY DEF TypeOK, GainFollowed, GainFollows
<1>7. ChosenFollows'
  BY DEF TypeOK, GainFollowed, ChosenFollows, Branch
<1> QED BY <1>1, <1>2, <1>3, <1>4, <1>5, <1>6, <1>7

LEMMA LoadRatioKeeps ==
  ASSUME IInv, LoadRatio
  PROVE  IInv'
<1> USE DEF IInv, parameter, index, gains, LoadRatio
<1>1. TypeOK'
  BY GainTypes, SourceTypes, PushedTypes DEF TypeOK, Units, Places, Branch, Sources
<1>2. Units'
  BY GainTypes, SourceTypes DEF TypeOK, Units, Branch, Sources
<1>3. ChosenInPlace'
  BY DEF TypeOK, ChosenInPlace, Branch
<1>4. RingsInBlock'
  BY DEF TypeOK, RingsInBlock
<1>5. GainFollowed'
  BY DEF TypeOK, GainFollowed, GainFollows, Branch
<1>6. GainFollows'
  BY DEF TypeOK, GainFollowed, GainFollows
<1>7. ChosenFollows'
  BY DEF TypeOK, GainFollowed, ChosenFollows, Branch
<1> QED BY <1>1, <1>2, <1>3, <1>4, <1>5, <1>6, <1>7

LEMMA StoreDecibelsKeeps ==
  ASSUME IInv, StoreDecibels
  PROVE  IInv'
<1> USE DEF IInv, parameter, index, gains, StoreDecibels
<1>1. TypeOK'
  BY GainTypes, SourceTypes, PushedTypes DEF TypeOK, Units, Places, Branch, Sources
<1>2. Units'
  BY GainTypes, SourceTypes DEF TypeOK, Units, Branch, Sources
<1>3. ChosenInPlace'
  BY DEF TypeOK, ChosenInPlace, Branch
<1>4. RingsInBlock'
  BY DEF TypeOK, RingsInBlock
<1>5. GainFollowed'
  BY DEF TypeOK, GainFollowed, GainFollows, Branch
<1>6. GainFollows'
  BY DEF TypeOK, GainFollowed, GainFollows
<1>7. ChosenFollows'
  BY DEF TypeOK, GainFollowed, ChosenFollows, Branch
<1> QED BY <1>1, <1>2, <1>3, <1>4, <1>5, <1>6, <1>7

LEMMA InvNext == IInv /\ [Next]_vars => IInv'
<1> SUFFICES ASSUME IInv, [Next]_vars PROVE IInv'
  OBVIOUS
<1>1. CASE ProcessBlock
  BY <1>1, CopyInputKeeps, SampleKeeps, KeepChosenKeeps, CopyOutputKeeps,
     StoreRatioKeeps, RampKeeps, KeepRatioKeeps, LoadRatioKeeps, StoreDecibelsKeeps
     DEF ProcessBlock
<1>2. CASE ParameterChanged \/ Prepare
  BY <1>2, SwitchKeeps, SetKeeps, PrepareKeeps DEF ParameterChanged
<1>3. CASE UNCHANGED vars
  BY <1>3 DEF vars, parameter, index, gains, IInv, TypeOK, Units, ChosenInPlace,
     RingsInBlock, GainFollowed, GainFollows, ChosenFollows
<1> QED BY <1>1, <1>2, <1>3 DEF Next

THEOREM Invariant == Spec => []IInv
BY InvInit, InvNext, PTL DEF Spec

-----------------------------------------------------------------------------
(***************************************************************************)
(* The variables keep their types (Compressor.cpp, parameter and           *)
(* autoMakeUpGain).                                                        *)
(***************************************************************************)
THEOREM TypeCorrect == Spec => []TypeOK
BY Invariant, PTL DEF IInv

(***************************************************************************)
(* The gain chosen stays in use (ProcessorCompressor.cpp,                  *)
(* parameterChanged).                                                      *)
(***************************************************************************)
THEOREM ChosenGainStays == Spec => []ChosenGainKept
<1>1. IInv => ChosenGainKept
  BY DEF IInv, ChosenInPlace, ChosenGainKept, Branch
<1> QED BY <1>1, Invariant, PTL

(***************************************************************************)
(* The RMS levels are taken of the same blocks (Compressor.cpp,            *)
(* copyAutoMakeUpBuffer).                                                  *)
(***************************************************************************)
THEOREM RingsStayAligned == Spec => []RingsAligned
<1>1. IInv => RingsAligned
  BY DEF IInv, RingsInBlock, RingsAligned
<1> QED BY <1>1, Invariant, PTL

(***************************************************************************)
(* Between two blocks the gain jumps only to a chosen one, after a change  *)
(* (Compressor.cpp, processBlock).                                         *)
(***************************************************************************)
THEOREM JumpsOnlyWhenChosen == Spec => []JumpsWhenChosen
<1>1. IInv => JumpsWhenChosen
  BY DEF IInv, GainFollows, ChosenFollows, JumpsWhenChosen
<1> QED BY <1>1, Invariant, PTL
=============================================================================

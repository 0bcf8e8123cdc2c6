---------------------------- MODULE MakeUpGain ----------------------------
(***************************************************************************)
(* The make-up gain of the compressor.  Set to "Auto" it is the ratio of   *)
(* two RMS levels, computed anew for every block by the audio thread,      *)
(* which keeps it in the same field, parameter.makeUpGain, that holds the  *)
(* gain chosen by the user: first linear, then in decibels.  The thread    *)
(* that changes the parameter writes the switch and then the gain, and     *)
(* nothing orders the two threads.                                         *)
(*                                                                         *)
(* A gain is a pair: where it comes from, and how often it went through    *)
(* amp2dB (0 for a linear gain, 1 for decibels; any other number is a gain *)
(* in a wrong unit).                                                       *)
(***************************************************************************)
EXTENDS Integers

CONSTANTS
    Ratios,     \* levels in over levels out that a block may have
    Gains,      \* gains the user may choose
    RingBlocks  \* blocks that fit in inputBuffer and outputBuffer

Automatic == "auto"
Unity == "unity"
Memory == "memory"  \* of previousMakeUpGain, which nothing initialises

ASSUME GainAssumption == /\ RingBlocks \in Nat \ {0}
                         /\ Ratios \cap Gains = {}
                         /\ {Automatic, Unity, Memory} \cap (Ratios \cup Gains) = {}

VARIABLES
    wanted,      \* the value of the parameter: a gain, or automatic
    setting,     \* is the gain of a change still to be written?
    auto,        \* parameter.autoMakeUpGain
    makeUpGain,  \* parameter.makeUpGain
    previous,    \* autoMakeUpGain.previousMakeUpGain
    inIndex,     \* inputBufferIndex and outputBufferIndex, in blocks
    outIndex,
    at,          \* where the audio thread is in processBlock
    reg,         \* what it has loaded from makeUpGain, or computed for it
    rereads,     \* does this build load makeUpGain again for each use?
    began,       \* history: the gain of the first sample of this block
    applied,     \* history: the gain of the last sample of this block
    ended,       \* history: the gain of the last sample of the block before
    overrun,     \* history: was wanted written into the automatic branch?
    skewed,      \* history: was auto changed between its two uses?
    unsteady,    \* history: blocks until a change inside a block is past
    renewed      \* history: was wanted written since the block before?

parameter == <<wanted, setting, auto>>
index == <<inIndex, outIndex>>
gains == <<began, applied, ended>>
vars == <<parameter, makeUpGain, previous, index, at, reg, rereads, gains,
          overrun, skewed, unsteady, renewed>>

Sources == Ratios \cup Gains \cup {Automatic, Unity, Memory}
Values == Sources \X (0 .. 2)

Branch == {"ratio", "ramp", "keep", "load", "store"}
Places == {"idle", "start", "samples"} \cup Branch

TypeOK == /\ wanted \in Gains \cup {Automatic}
          /\ setting \in BOOLEAN /\ auto \in BOOLEAN
          /\ makeUpGain \in Values /\ previous \in Values
          /\ reg \in Values
          /\ began \in Values /\ applied \in Values /\ ended \in Values
          /\ inIndex \in 0 .. RingBlocks - 1 /\ outIndex \in 0 .. RingBlocks - 1
          /\ at \in Places
          /\ rereads \in BOOLEAN /\ overrun \in BOOLEAN /\ skewed \in BOOLEAN
          /\ unsteady \in 0 .. 2 /\ renewed \in BOOLEAN

Linear(source) == <<source, 0>>
Decibels(source) == <<source, 1>>

amp2dB(g) == <<g[1], g[2] + 1>>
dB2amp(g) == <<g[1], g[2] - 1>>

-----------------------------------------------------------------------------
(***************************************************************************)
(* The constructors: the parameter and autoMakeUpGain start automatic; the *)
(* parameter's value for that, -0.1, becomes the first makeUpGain.         *)
(***************************************************************************)
Init == /\ wanted = Automatic /\ setting = FALSE /\ auto = TRUE
        /\ makeUpGain = Decibels(Automatic)
        /\ previous = Linear(Memory)
        /\ inIndex = 0 /\ outIndex = 0
        /\ at = "idle" /\ reg = Linear(Unity)
        /\ rereads \in BOOLEAN
        /\ began = Linear(Memory) /\ applied = Linear(Memory)
        /\ ended = Linear(Memory)
        /\ overrun = FALSE /\ skewed = FALSE /\ unsteady = 0 /\ renewed = FALSE

(***************************************************************************)
(* ProcessorCompressor::parameterChanged, one write after the other.       *)
(***************************************************************************)
Switch(v) == /\ ~setting
             /\ wanted' = v
             /\ auto' = (v = Automatic)
             /\ setting' = (v # Automatic)
             /\ overrun' = FALSE
             /\ skewed' = (skewed \/ (at \in {"start", "samples"} /\ auto # auto'))
             /\ unsteady' = IF at = "idle" THEN unsteady ELSE 2
             /\ renewed' = TRUE
             /\ UNCHANGED <<makeUpGain, previous, index, at, reg, rereads, gains>>

SetMakeUpGain == /\ setting
                 /\ makeUpGain' = Decibels(wanted)
                 /\ setting' = FALSE
                 /\ overrun' = (at \in Branch)
                 /\ unsteady' = IF at = "idle" THEN unsteady ELSE 2
                 /\ renewed' = TRUE
                 /\ UNCHANGED <<wanted, auto, previous, index, at, reg, rereads,
                                gains, skewed>>

(***************************************************************************)
(* Compressor::prepare between two blocks.                                 *)
(***************************************************************************)
Prepare == /\ at = "idle"
           /\ inIndex' = 0 /\ outIndex' = 0
           /\ skewed' = FALSE
           /\ UNCHANGED <<parameter, makeUpGain, previous, at, reg, rereads, gains,
                          overrun, unsteady, renewed>>

(***************************************************************************)
(* copyAutoMakeUpBuffer: one more block in a ring.                         *)
(***************************************************************************)
\* Mutant: the index does not wrap.
PushedOn(i) == i + 1

Pushed(i) == IF i + 1 >= RingBlocks THEN 0 ELSE i + 1

(***************************************************************************)
(* The start of processBlock: the input is kept if auto is on.             *)
(***************************************************************************)
StartBlock == /\ at = "idle"
              /\ at' = "start"
              /\ unsteady' = IF unsteady = 0 THEN 0 ELSE unsteady - 1
              /\ UNCHANGED <<parameter, makeUpGain, previous, outIndex, reg,
                             rereads, gains, overrun, skewed, renewed>>

\* Mutant: the input is kept whether auto is on or off.
CopyInputAlways == StartBlock /\ inIndex' = Pushed(inIndex)

CopyInput == StartBlock /\ inIndex' = IF auto THEN Pushed(inIndex) ELSE inIndex

(***************************************************************************)
(* One sample of the block: the gain chosen, if auto is off now.  It is    *)
(* multiplied with the sample as it is, no ramp leads to it.               *)
(***************************************************************************)
Sample == /\ at \in {"start", "samples"}
          /\ applied' = IF auto THEN Linear(Unity) ELSE dB2amp(makeUpGain)
          /\ began' = IF at = "start" THEN applied' ELSE began
          /\ at' = "samples"
          /\ UNCHANGED <<parameter, makeUpGain, previous, index, reg, rereads,
                         ended, overrun, skewed, unsteady, renewed>>

(***************************************************************************)
(* The end of processBlock with auto off: where the next ramp starts.      *)
(***************************************************************************)
EndManual == /\ at = "samples" /\ ~auto
             /\ previous' = dB2amp(makeUpGain)
             /\ ended' = applied /\ renewed' = FALSE
             /\ at' = "idle"
             /\ UNCHANGED <<parameter, index, reg, rereads, began, applied, overrun,
                            skewed, unsteady>>

\* Mutant: the conversion to decibels is outside of the if.
KeepChosenConverted == EndManual /\ makeUpGain' = <<makeUpGain[1], 2>>

KeepChosen == EndManual /\ UNCHANGED makeUpGain

(***************************************************************************)
(* The end of processBlock with auto on, one access of makeUpGain after    *)
(* the other.  copyAutoMakeUpBuffer() and the output's RMS level first;    *)
(***************************************************************************)
EnterBranch == /\ outIndex' = Pushed(outIndex)
               /\ at' = "ratio"
               /\ UNCHANGED <<parameter, makeUpGain, previous, inIndex, reg,
                              rereads, gains, overrun, skewed, unsteady, renewed>>

CopyOutput == at = "samples" /\ auto /\ EnterBranch

(***************************************************************************)
(* the ratio is stored, linear;                                            *)
(***************************************************************************)
StoreRatio(r) == /\ at = "ratio"
                 /\ makeUpGain' = Linear(r) /\ reg' = Linear(r)
                 /\ at' = "ramp"
                 /\ UNCHANGED <<parameter, previous, index, rereads, gains, overrun,
                                skewed, unsteady, renewed>>

(***************************************************************************)
(* applyGainRamp() leads from the previous gain to it;                     *)
(***************************************************************************)
Ramp == /\ at = "ramp"
        /\ began' = previous
        /\ applied' = IF rereads THEN makeUpGain ELSE reg
        /\ at' = "keep"
        /\ UNCHANGED <<parameter, makeUpGain, previous, index, reg, rereads, ended,
                       overrun, skewed, unsteady, renewed>>

(***************************************************************************)
(* it is loaded again (the samples of the ramp might overlap it) and kept; *)
(***************************************************************************)
\* Mutant: it is not kept.
KeepNothing == /\ at = "keep"
               /\ reg' = makeUpGain
               /\ at' = "load"
               /\ UNCHANGED <<parameter, makeUpGain, previous, index, rereads, gains,
                              overrun, skewed, unsteady, renewed>>

KeepRatio == /\ at = "keep"
             /\ previous' = makeUpGain /\ reg' = makeUpGain
             /\ at' = "load"
             /\ UNCHANGED <<parameter, makeUpGain, index, rereads, gains, overrun,
                            skewed, unsteady, renewed>>

(***************************************************************************)
(* and converted to decibels, which is a load and a store.                 *)
(***************************************************************************)
LoadRatio == /\ at = "load"
             /\ reg' = IF rereads THEN makeUpGain ELSE reg
             /\ at' = "store"
             /\ UNCHANGED <<parameter, makeUpGain, previous, index, rereads, gains,
                            overrun, skewed, unsteady, renewed>>

StoreDecibels == /\ at = "store"
                 /\ makeUpGain' = amp2dB(reg)
                 /\ ended' = applied /\ renewed' = FALSE
                 /\ at' = "idle"
                 /\ UNCHANGED <<parameter, previous, index, reg, rereads, began,
                                applied, overrun, skewed, unsteady>>

ProcessBlock == \/ CopyInput \/ Sample \/ KeepChosen
                \/ CopyOutput \/ (\E r \in Ratios : StoreRatio(r)) \/ Ramp
                \/ KeepRatio \/ LoadRatio \/ StoreDecibels

ParameterChanged == (\E v \in Gains \cup {Automatic} : Switch(v)) \/ SetMakeUpGain

Next == ProcessBlock \/ ParameterChanged \/ Prepare

Spec == Init /\ [][Next]_vars

-----------------------------------------------------------------------------
(***************************************************************************)
(* The gain the user chose is the one in use, in decibels, whatever blocks *)
(* came before, between and after the two writes of its change, unless the *)
(* second fell into the automatic end of a block (ProcessorCompressor.cpp, *)
(* parameterChanged; Compressor.cpp, processBlock).                        *)
(***************************************************************************)
ChosenGainKept == at = "idle" /\ ~setting /\ wanted # Automatic /\ ~overrun
                      => makeUpGain = Decibels(wanted)

(***************************************************************************)
(* The two RMS levels are taken of the same blocks: the indices of the     *)
(* rings agree, unless auto changed within a block since the last prepare  *)
(* (Compressor.cpp, copyAutoMakeUpBuffer).                                 *)
(***************************************************************************)
RingsAligned == at = "idle" /\ ~skewed => inIndex = outIndex

(***************************************************************************)
(* The gain jumps between two blocks only to a chosen one, and only if a   *)
(* change came between them: an automatic block starts with the gain the   *)
(* block before ended with, chosen or automatic, and so does a block with  *)
(* a chosen gain that no change came before.  Blocks that a change came    *)
(* within, and the block after such a one, are left out (Compressor.cpp,   *)
(* processBlock; previousMakeUpGain).                                      *)
(***************************************************************************)
JumpsWhenChosen ==
    unsteady = 0 => /\ at \in {"keep", "load", "store"} => began = ended
                    /\ at = "samples" /\ ~auto => (began = ended \/ renewed)
=============================================================================

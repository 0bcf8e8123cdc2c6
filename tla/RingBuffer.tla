----------------------------- MODULE RingBuffer -----------------------------
(***************************************************************************)
(* RingBuffer (source/dsp/onnx/RingBuffer.{h,cpp}): the sample ring that   *)
(* carries audio into an InferenceThread, and a second one that carries    *)
(* its output back.  Every ring of the program has one channel, so the     *)
(* per-channel vectors readPos and writePos are single integers here.      *)
(*                                                                         *)
(* This module is the ring as one thread sees it, one action per method;   *)
(* it implements the queue of module SampleQueue.                          *)
(***************************************************************************)
EXTENDS Integers, Sequences

CONSTANTS
    Sample,      \* the values a caller can push, NaN among them
    Zero,        \* the sample 0.0
    NaN,         \* not a number
    Uninit,      \* contents of a slot of freshly allocated memory
    Capacities   \* the sizes initialise() is called with

ASSUME SampleAssumption ==
    /\ Zero \in Sample
    /\ NaN \in Sample
    /\ Zero # NaN
    /\ Uninit \notin Sample

ASSUME CapacitiesAssumption == Capacities \subseteq Nat \ {0}

VARIABLES
    capacity,    \* buffer.getNumSamples()
    buffer,      \* the slots
    readPos,
    writePos,
    popped,      \* the value the last popSample returned
    call         \* history: the last call, "clear" for initialise and reset

vars == <<capacity, buffer, readPos, writePos, popped, call>>

Calls == {<<"clear">>, <<"pop">>} \cup {<<"push", s>> : s \in Sample}

Slots(n) == 0 .. n - 1

Sanitise(s) == IF s = NaN THEN Zero ELSE s

CleanSample == Sample \ {NaN}

TypeOK == /\ capacity \in Capacities
          /\ buffer \in [Slots(capacity) -> CleanSample \cup {Uninit}]
          /\ readPos \in Slots(capacity)
          /\ writePos \in Slots(capacity)
          /\ popped \in CleanSample
          /\ call \in Calls

-----------------------------------------------------------------------------
\* Mutant: the case of a write position that has wrapped is forgotten.
AvailableUnwrapped == writePos - readPos

(***************************************************************************)
(* getAvailableSamples()                                                   *)
(***************************************************************************)
Available == IF readPos <= writePos
             THEN writePos - readPos
             ELSE writePos + capacity - readPos

(***************************************************************************)
(* The position after p: ++p, and back to 0 at the end of the buffer.      *)
(***************************************************************************)
Advance(p) == IF p + 1 >= capacity THEN 0 ELSE p + 1

Init == /\ capacity \in Capacities
        /\ buffer = [i \in Slots(capacity) |-> Uninit]
        /\ readPos = 0
        /\ writePos = 0
        /\ popped = Zero
        /\ call = <<"clear">>

(***************************************************************************)
(* initialise(1, n).  AudioBuffer::setSize leaves a buffer of the right    *)
(* size alone and otherwise allocates memory it does not clear.            *)
(***************************************************************************)
Initialise(n) ==
    /\ capacity' = n
    /\ buffer' = IF n = capacity THEN buffer ELSE [i \in Slots(n) |-> Uninit]
    /\ readPos' = 0
    /\ writePos' = 0
    /\ call' = <<"clear">>
    /\ UNCHANGED popped

(***************************************************************************)
(* reset()                                                                 *)
(***************************************************************************)
Reset == /\ buffer' = [i \in Slots(capacity) |-> Zero]
         /\ readPos' = 0
         /\ writePos' = 0
         /\ call' = <<"clear">>
         /\ UNCHANGED <<capacity, popped>>

\* Mutant: a NaN is stored as it is.
PushSampleRaw(s) == /\ buffer' = [buffer EXCEPT ![writePos] = s]
                    /\ writePos' = Advance(writePos)
                    /\ call' = <<"push", s>>
                    /\ UNCHANGED <<capacity, readPos, popped>>

(***************************************************************************)
(* pushSample(s): stores the sample whether or not there is room for it.   *)
(***************************************************************************)
PushSample(s) == /\ buffer' = [buffer EXCEPT ![writePos] = Sanitise(s)]
                 /\ writePos' = Advance(writePos)
                 /\ call' = <<"push", s>>
                 /\ UNCHANGED <<capacity, readPos, popped>>

(***************************************************************************)
(* popSample().  The method does not test for samples itself; each of its  *)
(* callers does (InferenceThread::sendAudio, OnnxProcessor::processOutput) *)
(***************************************************************************)
PopSample == /\ Available > 0
             /\ popped' = Sanitise(buffer[readPos])
             /\ readPos' = Advance(readPos)
             /\ call' = <<"pop">>
             /\ UNCHANGED <<capacity, buffer, writePos>>

Next == \/ \E n \in Capacities : Initialise(n)
        \/ Reset
        \/ \E s \in Sample : PushSample(s)
        \/ PopSample

Spec == Init /\ [][Next]_vars

-----------------------------------------------------------------------------
(***************************************************************************)
(* The queue a ring stands for: its unread slots, oldest first.            *)
(***************************************************************************)
Slot(i) == IF readPos + i - 1 < capacity
           THEN readPos + i - 1
           ELSE readPos + i - 1 - capacity

Unread == [i \in 1 .. Available |-> buffer[Slot(i)]]

Queue == INSTANCE SampleQueue WITH queue <- Unread

(***************************************************************************)
(* The ring is a queue of capacity - 1 samples, across every wrap of both  *)
(* positions: pops return what was pushed, in order, cleaned of NaN and    *)
(* never a slot that was not written; only the push that catches up with   *)
(* readPos, a reset or a new initialise() forgets samples, and then all.   *)
(***************************************************************************)
ImplementsQueue == Queue!Spec
=============================================================================

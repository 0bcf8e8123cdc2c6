------------------------- MODULE RingBufferThreads -------------------------
(***************************************************************************)
(* OnnxProcessor::receiveRingBuffer between its two threads: the worker    *)
(* pushes, one memory access at a time, while the audio thread counts the  *)
(* available samples and pops a block.  The positions are plain integers   *)
(* (no atomics, no lock), so every access of one thread may fall between   *)
(* any two of the other: pushSample() lets writePos show the value         *)
(* capacity before it wraps, and getAvailableSamples() loads writePos      *)
(* twice unless the build is optimised.                                    *)
(*                                                                         *)
(* Assumed: the stores of a push are seen in program order, as on x86, and *)
(* the worker does not overrun the ring (module NetworkStream).            *)
(***************************************************************************)
EXTENDS Integers, Sequences

CONSTANTS
    Capacity,   \* slots of the ring
    BlockSizes  \* the maximum block sizes a host prepares with; blocks are
                \* always that long (module NetworkStream)

ASSUME ThreadsAssumption == /\ Capacity \in Nat \ {0, 1}
                            /\ BlockSizes \subseteq 1 .. Capacity - 1

VARIABLES
    blockSize,  \* the block size of this run
    loadsTwice, \* does this build load writePos twice, as the code says, or
                \* did the optimiser keep it in a register?
    slots,      \* the buffer; a sample is its number in the stream
    writePos,
    readPos,
    pushing,    \* the worker's place in pushSample: "no", "stored", "advanced"
    serving,    \* the audio thread's place in processOutput: "no", "compared"
                \* (first load of writePos done) or "popping"
    wrapped,    \* the outcome of the comparison readPos > writePos
    toPop,      \* samples of the block still to be popped
    pushed,     \* history: number of the next sample to be pushed
    popped,     \* history: number of the next sample to be popped
    got,        \* the last sample popped
    call,       \* history: the last push or pop, as in module RingBuffer
    misread     \* history: the audio thread has taken an empty ring for a
                \* full one (LooksFull); popped means nothing from then on

setup == <<blockSize, loadsTwice>>

vars == <<setup, slots, writePos, readPos, pushing, serving, wrapped, toPop,
          pushed, popped, got, call, misread>>

(***************************************************************************)
(* Samples are numbered modulo twice the ring, which tells every sample    *)
(* from those of the lap before.                                           *)
(***************************************************************************)
Numbers == 0 .. 2 * Capacity - 1
NextNumber(k) == IF k + 1 = 2 * Capacity THEN 0 ELSE k + 1

(***************************************************************************)
(* Samples pushed and not yet popped.                                      *)
(***************************************************************************)
Unread == IF pushed >= popped THEN pushed - popped
                              ELSE pushed + 2 * Capacity - popped

TypeOK == /\ blockSize \in BlockSizes
          /\ loadsTwice \in BOOLEAN
          /\ slots \in [0 .. Capacity - 1 -> Numbers \cup {-1}]
          /\ writePos \in 0 .. Capacity
          /\ readPos \in 0 .. Capacity - 1
          /\ pushing \in {"no", "stored", "advanced"}
          /\ serving \in {"no", "compared", "popping"}
          /\ wrapped \in BOOLEAN
          /\ toPop \in 0 .. blockSize
          /\ pushed \in Numbers /\ popped \in Numbers
          /\ got \in Numbers \cup {-1}
          /\ misread \in BOOLEAN
          /\ call \in {<<"clear">>, <<"pop">>} \cup {<<"push", k>> : k \in Numbers}

Init == /\ blockSize \in BlockSizes
        /\ loadsTwice \in BOOLEAN
        /\ slots = [i \in 0 .. Capacity - 1 |-> -1]
        /\ writePos = 0 /\ readPos = 0
        /\ pushing = "no" /\ serving = "no"
        /\ wrapped = FALSE /\ toPop = 0
        /\ pushed = 0 /\ popped = 0
        /\ got = 0 /\ call = <<"clear">>
        /\ misread = FALSE

-----------------------------------------------------------------------------
(***************************************************************************)
(* pushSample() by the worker: buffer.setSample, ++writePos, wrap.         *)
(* The worker is assumed not to catch up with readPos, as it does not      *)
(* while the inferences are in time (NetworkStreamProofs!RingsSuffice).    *)
(***************************************************************************)
HasRoom == IF readPos <= writePos THEN writePos - readPos < Capacity - 1
                                  ELSE writePos + 1 < readPos

SetSample == /\ pushing = "no"
             /\ HasRoom
             /\ slots' = [slots EXCEPT ![writePos] = pushed]
             /\ pushing' = "stored"
             /\ UNCHANGED <<setup, writePos, readPos, serving, wrapped, toPop, pushed, popped, got, call, misread>>

AdvanceWritePos == /\ pushing = "stored"
                   /\ writePos' = writePos + 1
                   /\ pushed' = NextNumber(pushed)
                   /\ pushing' = "advanced"
                   /\ call' = <<"push", pushed>>
                   /\ UNCHANGED <<setup, slots, readPos, serving, wrapped, toPop, popped, got, misread>>

\* Mutant: the position wraps one slot too late.
WrapWritePosLate == /\ pushing = "advanced"
                    /\ writePos' = IF writePos > Capacity THEN 0 ELSE writePos
                    /\ pushing' = "no"
                    /\ UNCHANGED <<setup, slots, readPos, serving, wrapped, toPop, pushed, popped, got, call, misread>>

WrapWritePos == /\ pushing = "advanced"
                /\ writePos' = IF writePos >= Capacity THEN 0 ELSE writePos
                /\ pushing' = "no"
                /\ UNCHANGED <<setup, slots, readPos, serving, wrapped, toPop, pushed, popped, got, call, misread>>

(***************************************************************************)
(* getAvailableSamples() by the audio thread: the first load of writePos   *)
(* chooses the formula, the second one is used in it.                      *)
(***************************************************************************)
CompareLoad == /\ serving = "no"
               /\ wrapped' = ~(readPos <= writePos)
               /\ serving' = "compared"
               /\ UNCHANGED <<setup, slots, writePos, readPos, pushing, toPop, pushed, popped, got, call, misread>>

\* Mutant: equal positions count as a full ring.
WrappedWhenEqual == IF loadsTwice THEN wrapped ELSE ~(readPos < writePos)

Wrapped == IF loadsTwice THEN wrapped ELSE ~(readPos <= writePos)

\* Mutant: the case of a write position that has wrapped is forgotten.
AvailableUnwrapped == writePos - readPos

AvailableSamples == IF Wrapped THEN writePos + Capacity - readPos
                               ELSE writePos - readPos

(***************************************************************************)
(* The ring is empty and shows writePos = capacity and readPos = 0: the    *)
(* last slot was pushed and popped before the worker wrapped writePos.     *)
(* getAvailableSamples() then returns capacity, and a whole lap of former  *)
(* samples is served again.  It takes a callback that starts with the ring *)
(* empty, that is an inference that is late (NetworkStreamProofs!          *)
(* OutputInTime).                                                          *)
(***************************************************************************)
LooksFull == Unread = 0 /\ writePos = Capacity

\* Mutant: a block is popped with one sample missing.
CountLoadOneShort ==
    /\ serving = "compared"
    /\ misread' = (misread \/ LooksFull)
    /\ IF AvailableSamples + 1 >= blockSize
       THEN serving' = "popping" /\ toPop' = blockSize
       ELSE serving' = "no" /\ UNCHANGED toPop
    /\ UNCHANGED <<setup, slots, writePos, readPos, pushing, wrapped, pushed, popped, got, call>>

(***************************************************************************)
(* The second load, and processOutput's decision.                          *)
(***************************************************************************)
CountLoad ==
    /\ serving = "compared"
    /\ misread' = (misread \/ LooksFull)
    /\ IF AvailableSamples >= blockSize
       THEN serving' = "popping" /\ toPop' = blockSize
       ELSE serving' = "no" /\ UNCHANGED toPop
    /\ UNCHANGED <<setup, slots, writePos, readPos, pushing, wrapped, pushed, popped, got, call>>

(***************************************************************************)
(* popSample()                                                             *)
(***************************************************************************)
PopSample == /\ serving = "popping"
             /\ got' = slots[readPos]
             /\ call' = <<"pop">>
             /\ readPos' = IF readPos + 1 >= Capacity THEN 0 ELSE readPos + 1
             /\ popped' = NextNumber(popped)
             /\ toPop' = toPop - 1
             /\ serving' = IF toPop = 1 THEN "no" ELSE "popping"
             /\ UNCHANGED <<setup, slots, writePos, pushing, wrapped, pushed, misread>>

Next == \/ SetSample \/ AdvanceWritePos \/ WrapWritePos
        \/ CompareLoad
        \/ CountLoad
        \/ PopSample

(***************************************************************************)
(* The worker has more to push, and the host keeps asking for blocks.      *)
(***************************************************************************)
Fairness == /\ WF_vars(SetSample \/ AdvanceWritePos \/ WrapWritePos)
            /\ WF_vars(CompareLoad)
            /\ WF_vars(CountLoad)
            /\ WF_vars(PopSample)

Spec == Init /\ [][Next]_vars /\ Fairness

-----------------------------------------------------------------------------
(***************************************************************************)
(* The queue the two threads share: the samples pushed and not yet popped. *)
(* A push counts from ++writePos on, where the audio thread can see it.    *)
(***************************************************************************)
NumberAt(i) == IF popped + i - 1 < 2 * Capacity THEN popped + i - 1
                                                ELSE popped + i - 1 - 2 * Capacity

UnreadNumbers == [i \in 1 .. Unread |-> NumberAt(i)]

Queue == INSTANCE SampleQueue
         WITH Sample <- Numbers, Zero <- 0, NaN <- -1, Capacities <- {Capacity},
              capacity <- Capacity, queue <- UnreadNumbers, popped <- got

(***************************************************************************)
(* Without a lock the ring is still the queue that RingBuffer is to one    *)
(* thread: the audio thread gets every sample once, in the order pushed,   *)
(* never a slot the worker is still to write, and none is ever forgotten,  *)
(* wherever the two threads meet, until an empty ring is counted while     *)
(* writePos shows capacity.                                                *)
(***************************************************************************)
SharedRingIsQueue == Queue!Init /\ [][misread' \/ Queue!Next]_(Queue!vars)

(***************************************************************************)
(* What the audio thread is about to pop is there: whatever the worker     *)
(* does between the two loads, and in an empty ring as well,               *)
(* getAvailableSamples() does not count more than was pushed, but for that *)
(* one case.                                                               *)
(***************************************************************************)
CountedIsThere == ~misread /\ serving = "popping" => toPop <= Unread

(***************************************************************************)
(* The two loads may count too little, but not for ever: the audio thread  *)
(* pops again and again.                                                   *)
(***************************************************************************)
Flows == []<>(serving = "popping")

(***************************************************************************)
(* With a single load a block that is there is never taken for missing.    *)
(***************************************************************************)
NoFalseMiss ==
    [][CountLoad /\ ~misread /\ ~loadsTwice /\ blockSize <= Unread
         => serving' = "popping"]_vars
=============================================================================

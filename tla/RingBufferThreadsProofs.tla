---------------------- MODULE RingBufferThreadsProofs ----------------------
(***************************************************************************)
(* What the two threads need no lock for, in a ring of any size, for any   *)
(* block sizes and with one or two loads of writePos: a block counted is   *)
(* there, and the ring is the queue of module SampleQueue, as long as no   *)
(* empty ring was counted while writePos shows capacity (misread).         *)
(***************************************************************************)
EXTENDS RingBufferThreads, SequenceTheorems, TLAPS

USE ThreadsAssumption DEF setup

(***************************************************************************)
(* The slot of a sample, and how far it is behind the next one to pop.     *)
(***************************************************************************)
Position(k) == IF k < Capacity THEN k ELSE k - Capacity
Behind(k) == IF k >= popped THEN k - popped ELSE k + 2 * Capacity - popped

(***************************************************************************)
(* The positions follow the stream, writePos with its excursion to         *)
(* capacity; the ring never overruns.                                      *)
(***************************************************************************)
PositionsFollow ==
    /\ readPos = Position(popped)
    /\ \/ writePos = Position(pushed)
       \/ pushing = "advanced" /\ Position(pushed) = 0 /\ writePos = Capacity
    /\ Unread <= Capacity - 1
    /\ pushing = "stored" => Unread < Capacity - 1

(***************************************************************************)
(* What is unread is in its slots, and so is what is about to be.          *)
(***************************************************************************)
SlotsHold ==
    /\ \A k \in Numbers : Behind(k) < Unread => slots[Position(k)] = k
    /\ pushing = "stored" => slots[Position(pushed)] = pushed

(***************************************************************************)
(* A wrap the audio thread saw is still one when it counts, and what it    *)
(* has counted is there.                                                   *)
(***************************************************************************)
CountsRight ==
    /\ serving = "compared" /\ wrapped => writePos < readPos
    /\ serving = "popping" => toPop <= Unread

(***************************************************************************)
(* What holds after a misread as well.                                     *)
(***************************************************************************)
InRing ==
    /\ TypeOK
    /\ pushing # "advanced" => writePos < Capacity
    /\ serving = "popping" => toPop > 0

Sound == PositionsFollow /\ SlotsHold /\ CountsRight

IInv == InRing /\ (~misread => Sound)

-----------------------------------------------------------------------------
(***************************************************************************)
(* A ring that is not empty is counted right by comparing the positions.   *)
(***************************************************************************)
LEMMA UnreadByPositions ==
  ASSUME TypeOK, PositionsFollow, Unread > 0
  PROVE  Unread = IF readPos <= writePos THEN writePos - readPos
                                         ELSE writePos + Capacity - readPos
BY DEF TypeOK, PositionsFollow, Unread, Position, Numbers

LEMMA UnreadType == TypeOK => Unread \in 0 .. 2 * Capacity - 1
BY DEF TypeOK, Unread, Numbers

LEMMA RoomByPositions ==
  ASSUME TypeOK, PositionsFollow, pushing = "no", HasRoom
  PROVE  Unread < Capacity - 1
BY DEF TypeOK, PositionsFollow, HasRoom, Unread, Position, Numbers

LEMMA PositionType == \A k \in Numbers : Position(k) \in 0 .. Capacity - 1
BY DEF Position, Numbers

LEMMA InvInit == Init => IInv
<1> SUFFICES ASSUME Init PROVE IInv
  OBVIOUS
<1>1. 0 \in Numbers /\ Unread = 0
  BY DEF Numbers, Init, Unread
<1>2. blockSize \in Nat
  BY DEF Init
<1>3. TypeOK
  <2>1. slots \in [0 .. Capacity - 1 -> Numbers \cup {-1}]
    BY DEF Init
  <2>2. got \in Numbers /\ call = <<"clear">>
    BY <1>1 DEF Init
  <2>3. loadsTwice \in BOOLEAN /\ wrapped \in BOOLEAN
    BY DEF Init
  <2>4. /\ writePos \in 0 .. Capacity /\ readPos \in 0 .. Capacity - 1
        /\ toPop \in 0 .. blockSize /\ blockSize \in BlockSizes
    BY <1>2 DEF Init
  <2> QED BY <1>1, <2>1, <2>2, <2>3, <2>4 DEF Init, TypeOK
<1>4. PositionsFollow /\ CountsRight
  BY <1>1 DEF Init, PositionsFollow, Position, CountsRight
<1>5. SlotsHold
  BY <1>1 DEF Init, SlotsHold, Behind, Numbers
<1>6. InRing
  BY <1>3 DEF Init, InRing
<1> QED BY <1>4, <1>5, <1>6 DEF IInv, Sound

(***************************************************************************)
(* Positions and counters stay in their ranges, misread or not.            *)
(***************************************************************************)
LEMMA InRingNext == InRing /\ [Next]_vars => InRing'
<1> SUFFICES ASSUME InRing, [Next]_vars PROVE InRing'
  OBVIOUS
<1> USE DEF InRing
<1>n. ASSUME NEW k \in Numbers PROVE NextNumber(k) \in Numbers
  BY DEF NextNumber, Numbers
<1>b. blockSize \in Nat \ {0}
  BY DEF TypeOK
<1>1. CASE SetSample
  BY <1>1 DEF SetSample, TypeOK
<1>2. CASE AdvanceWritePos
  <2>1. pushed \in Numbers /\ pushed' = NextNumber(pushed) /\ writePos' \in 0 .. Capacity
    BY <1>2 DEF AdvanceWritePos, TypeOK
  <2>2. pushed' \in Numbers
    BY <1>n, <2>1
  <2> QED BY <1>2, <2>1, <2>2 DEF AdvanceWritePos, TypeOK
<1>3. CASE WrapWritePos
  BY <1>3 DEF WrapWritePos, TypeOK
<1>4. CASE CompareLoad
  BY <1>4 DEF CompareLoad, TypeOK
<1>5. CASE CountLoad
  <2>1. misread' \in BOOLEAN
    BY <1>5 DEF CountLoad
  <2> QED BY <1>5, <1>b, <2>1 DEF CountLoad, TypeOK
<1>6. CASE PopSample
  <2>1. popped \in Numbers /\ popped' = NextNumber(popped)
    BY <1>6 DEF PopSample, TypeOK
  <2>2. popped' \in Numbers
    BY <1>n, <2>1
  <2>3. got' \in Numbers \cup {-1} /\ readPos' \in 0 .. Capacity - 1
    BY <1>6 DEF PopSample, TypeOK
  <2>4. toPop' \in 0 .. blockSize /\ (serving' = "popping" => toPop' > 0)
    BY <1>6, <1>b DEF PopSample, TypeOK
  <2> QED BY <1>6, <2>2, <2>3, <2>4 DEF PopSample, TypeOK
<1>7. CASE UNCHANGED vars
  BY <1>7 DEF vars, TypeOK
<1> QED BY <1>1, <1>2, <1>3, <1>4, <1>5, <1>6, <1>7 DEF Next

-----------------------------------------------------------------------------
LEMMA SetSampleKeeps == ASSUME TypeOK, Sound, SetSample PROVE Sound'
<1> USE DEF Sound
<1>0. Unread < Capacity - 1
  BY RoomByPositions DEF SetSample
<1>1. writePos = Position(pushed) /\ pushed \in Numbers
  BY DEF SetSample, PositionsFollow, TypeOK
<1>2. writePos \in 0 .. Capacity - 1
  BY <1>1, PositionType
<1>4. PositionsFollow'
  BY <1>0, <1>1 DEF SetSample, PositionsFollow, Unread, Position
<1>5. SlotsHold'
  <2>1. ASSUME NEW k \in Numbers, Behind(k) < Unread
        PROVE  Position(k) # writePos
    BY <1>0, <1>1, <2>1 DEF Position, Behind, Unread, Numbers, TypeOK
  <2>2. slots' = [slots EXCEPT ![writePos] = pushed] /\ slots'[writePos] = pushed
    BY <1>2 DEF SetSample, TypeOK
  <2>3. ASSUME NEW k \in Numbers, Behind(k) < Unread
        PROVE  slots'[Position(k)] = k
    BY <1>2, <2>1, <2>2, <2>3, PositionType DEF SlotsHold, TypeOK
  <2> QED BY <1>1, <2>2, <2>3 DEF SlotsHold, Behind, Unread, SetSample, Position
<1>6. CountsRight'
  BY DEF SetSample, CountsRight, Unread
<1> QED BY <1>4, <1>5, <1>6

LEMMA AdvanceKeeps == ASSUME TypeOK, Sound, AdvanceWritePos PROVE Sound'
<1> USE DEF Sound
<1>1. /\ writePos = Position(pushed) /\ Unread < Capacity - 1
      /\ pushed \in Numbers /\ popped \in Numbers
  BY DEF AdvanceWritePos, PositionsFollow, TypeOK
<1>2. pushed' \in Numbers /\ pushed' = NextNumber(pushed) /\ popped' = popped
  BY <1>1 DEF AdvanceWritePos, NextNumber, Numbers
<1>3. Unread' = Unread + 1
  BY <1>1, <1>2 DEF Unread, NextNumber, Numbers
<1>5. PositionsFollow'
  <2>1. \/ writePos' = Position(pushed')
        \/ Position(pushed') = 0 /\ writePos' = Capacity
    BY <1>1, <1>2 DEF AdvanceWritePos, Position, NextNumber, Numbers
  <2> QED BY <1>1, <1>3, <2>1, UnreadType DEF AdvanceWritePos, PositionsFollow, Position
<1>6. SlotsHold'
  <2>1. ASSUME NEW k \in Numbers, Behind(k) < Unread + 1, k # pushed
        PROVE  Behind(k) < Unread
    BY <1>1, <2>1 DEF Behind, Unread, Numbers
  <2>2. ASSUME NEW k \in Numbers, Behind(k) < Unread + 1
        PROVE  slots[Position(k)] = k
    BY <1>1, <2>1, <2>2 DEF SlotsHold, AdvanceWritePos
  <2> QED BY <1>2, <1>3, <2>2 DEF SlotsHold, AdvanceWritePos, Behind, Position
<1>7. CountsRight'
  <2>1. CASE serving = "compared"
    <3>1. ASSUME wrapped PROVE writePos + 1 < readPos
      <4>1. writePos < readPos /\ Unread > 0
        BY <1>1, <2>1, <3>1 DEF CountsRight, PositionsFollow, Unread, TypeOK, Numbers
      <4>2. Unread = writePos + Capacity - readPos
        BY <4>1, UnreadByPositions DEF TypeOK
      <4> QED BY <1>1, <4>2 DEF TypeOK
    <3> QED BY <2>1, <3>1 DEF CountsRight, AdvanceWritePos
  <2>2. CASE serving = "popping"
    BY <1>3, <2>2, UnreadType DEF CountsRight, AdvanceWritePos, TypeOK
  <2>3. CASE serving = "no"
    BY <2>3 DEF CountsRight, AdvanceWritePos
  <2> QED BY <2>1, <2>2, <2>3 DEF TypeOK
<1> QED BY <1>5, <1>6, <1>7

LEMMA WrapKeeps == ASSUME TypeOK, Sound, WrapWritePos PROVE Sound'
<1> USE DEF Sound
<1>1. writePos' = Position(pushed) /\ pushed \in Numbers
  BY DEF WrapWritePos, PositionsFollow, TypeOK, Position, Numbers
<1>3. PositionsFollow' /\ SlotsHold'
  BY <1>1 DEF WrapWritePos, PositionsFollow, SlotsHold, Unread,
              Behind, Position
<1>4. CountsRight'
  BY DEF WrapWritePos, CountsRight, Unread, TypeOK
<1> QED BY <1>3, <1>4

LEMMA CompareKeeps == ASSUME TypeOK, Sound, CompareLoad PROVE Sound'
<1> USE DEF Sound
<1>2. PositionsFollow' /\ SlotsHold'
  BY DEF CompareLoad, PositionsFollow, SlotsHold, Unread, Behind,
         Position
<1>3. CountsRight'
  <2>1. wrapped' => ~(readPos <= writePos)
    BY Zenon DEF CompareLoad
  <2>2. wrapped' => writePos' < readPos'
    BY <2>1 DEF CompareLoad, TypeOK
  <2>3. serving' = "compared"
    BY DEF CompareLoad
  <2> QED BY <2>2, <2>3 DEF CountsRight
<1> QED BY <1>2, <1>3

(***************************************************************************)
(* The two loads may belong to different laps, and still count no sample   *)
(* that is not there, unless an empty ring looks full.                     *)
(***************************************************************************)
LEMMA NeverTooMany ==
  ASSUME TypeOK, Sound, serving = "compared", ~LooksFull
  PROVE  AvailableSamples <= Unread
<1>1. wrapped => writePos < readPos
  BY DEF Sound, CountsRight
<1>2. CASE Unread > 0
  <2>1. Unread = IF readPos <= writePos THEN writePos - readPos
                                        ELSE writePos + Capacity - readPos
    BY <1>2, UnreadByPositions DEF Sound
  <2> QED BY <1>1, <2>1 DEF AvailableSamples, Wrapped, TypeOK
<1>3. CASE Unread = 0
  <2>1. writePos = readPos
    BY <1>3 DEF LooksFull, Sound, PositionsFollow, Unread, TypeOK, Numbers, Position
  <2> QED BY <1>1, <1>3, <2>1 DEF AvailableSamples, Wrapped, TypeOK
<1> QED BY <1>2, <1>3, UnreadType

LEMMA CountKeeps == ASSUME TypeOK, Sound, CountLoad, ~misread' PROVE Sound'
<1> USE DEF Sound
<1>1. serving = "compared" /\ AvailableSamples <= Unread
  BY NeverTooMany DEF CountLoad
<1>2. AvailableSamples \in Int /\ blockSize \in Nat \ {0}
  BY DEF AvailableSamples, TypeOK
<1>4. PositionsFollow' /\ SlotsHold'
  BY DEF CountLoad, PositionsFollow, SlotsHold, Unread, Behind,
         Position
<1>5. Unread' = Unread
  BY DEF CountLoad, Unread
<1>6. CountsRight'
  BY <1>1, <1>2, <1>5, UnreadType DEF CountLoad, CountsRight
<1> QED BY <1>4, <1>6

LEMMA PopKeeps == ASSUME InRing, Sound, PopSample PROVE Sound'
<1> USE DEF InRing, Sound
<1>1. /\ toPop \in 1 .. Unread /\ readPos = Position(popped)
      /\ pushed \in Numbers /\ popped \in Numbers
  BY DEF PopSample, CountsRight, PositionsFollow, TypeOK
<1>2. slots[readPos] = popped
  BY <1>1, UnreadType DEF SlotsHold, Behind, Numbers
<1>3. popped' \in Numbers /\ popped' = NextNumber(popped) /\ pushed' = pushed
  BY <1>1 DEF PopSample, NextNumber, Numbers
<1>4. readPos' = Position(popped')
  BY <1>1, <1>3 DEF PopSample, NextNumber, Position, Numbers
<1>5. Unread' = Unread - 1
  BY <1>1, <1>3 DEF Unread, NextNumber, Numbers
<1>7. PositionsFollow'
  BY <1>4, <1>5, UnreadType DEF PopSample, PositionsFollow, Position
<1>8. SlotsHold'
  <2>1. ASSUME NEW k \in Numbers, Behind(k)' < Unread - 1
        PROVE  Behind(k) < Unread
    BY <1>1, <1>3, <2>1 DEF Behind, Unread, NextNumber, Numbers
  <2> QED BY <1>5, <2>1 DEF SlotsHold, PopSample, Position
<1>9. CountsRight'
  BY <1>1, <1>5, UnreadType DEF PopSample, CountsRight
<1> QED BY <1>7, <1>8, <1>9

LEMMA InvNext == IInv /\ [Next]_vars => IInv'
<1> SUFFICES ASSUME InRing, ~misread => Sound, [Next]_vars, ~misread' PROVE Sound'
  BY InRingNext DEF IInv
<1>0. TypeOK /\ Sound
  BY DEF InRing, Next, SetSample, AdvanceWritePos, WrapWritePos, CompareLoad, CountLoad,
         PopSample, vars
<1>1. CASE Next
  BY <1>0, <1>1, SetSampleKeeps, AdvanceKeeps, WrapKeeps, CompareKeeps, CountKeeps,
     PopKeeps DEF Next
<1>2. CASE UNCHANGED vars
  BY <1>0, <1>2 DEF vars, Sound, PositionsFollow, SlotsHold, CountsRight,
              Unread, Behind, Position
<1> QED BY <1>1, <1>2

THEOREM Invariant == Spec => []IInv
BY InvInit, InvNext, PTL DEF Spec

-----------------------------------------------------------------------------
(***************************************************************************)
(* The positions stay in the ring of RingBuffer.cpp, writePos but for the  *)
(* moment before it wraps.                                                 *)
(***************************************************************************)
THEOREM TypeCorrect == Spec => []TypeOK
BY Invariant, PTL DEF IInv, InRing

(***************************************************************************)
(* A block that getAvailableSamples() has counted is there until popped,   *)
(* at any interleaving with a push and in an empty ring as well, until an  *)
(* empty ring has been counted while writePos shows capacity.              *)
(***************************************************************************)
THEOREM CountedStays == Spec => []CountedIsThere
<1>1. IInv => CountedIsThere
  BY DEF IInv, Sound, CountsRight, CountedIsThere
<1> QED BY <1>1, Invariant, PTL

(***************************************************************************)
(* With a single load of writePos no block that is there counts as missing *)
(* (getAvailableSamples() of a build that keeps it in a register), under   *)
(* the same condition.                                                     *)
(***************************************************************************)
THEOREM BlocksAreFound == Spec => NoFalseMiss
<1>1. ASSUME IInv, CountLoad, ~misread, ~loadsTwice, blockSize <= Unread
      PROVE  serving' = "popping"
  <2>1. TypeOK /\ PositionsFollow /\ Unread > 0
    BY <1>1, UnreadType DEF IInv, InRing, Sound, TypeOK
  <2>2. AvailableSamples = Unread
    BY <1>1, <2>1, UnreadByPositions DEF AvailableSamples, Wrapped, TypeOK
  <2> QED BY <1>1, <2>2 DEF CountLoad
<1>2. IInv /\ [Next]_vars =>
        [CountLoad /\ ~misread /\ ~loadsTwice /\ blockSize <= Unread
           => serving' = "popping"]_vars
  BY <1>1
<1> QED BY <1>2, Invariant, PTL DEF Spec, NoFalseMiss

-----------------------------------------------------------------------------
(***************************************************************************)
(* The shared ring implements the queue: seen through what is unread,      *)
(* ++writePos is the push, popSample() is the pop, and the other memory    *)
(* accesses of both threads change nothing.                                *)
(***************************************************************************)
LEMMA UnreadSeq ==
  ASSUME TypeOK
  PROVE  /\ Unread \in Nat
         /\ \A i \in 1 .. Unread : NumberAt(i) \in Numbers
         /\ UnreadNumbers \in Seq(Numbers)
         /\ Len(UnreadNumbers) = Unread
<1>1. Unread \in 0 .. 2 * Capacity - 1
  BY UnreadType
<1>2. \A i \in 1 .. Unread : NumberAt(i) \in Numbers
  BY <1>1 DEF TypeOK, NumberAt, Numbers
<1>3. UnreadNumbers \in [1 .. Unread -> Numbers]
  BY <1>2 DEF UnreadNumbers
<1> QED BY <1>1, <1>2, <1>3 DEF UnreadNumbers

LEMMA PushStep == ASSUME TypeOK, TypeOK', Sound, AdvanceWritePos PROVE Queue!Push(pushed)
<1>1. /\ Unread < Capacity - 1 /\ TypeOK /\ TypeOK'
      /\ pushed \in Numbers /\ popped \in Numbers
      /\ popped' = popped /\ pushed' = NextNumber(pushed)
  BY DEF Sound, AdvanceWritePos, PositionsFollow, TypeOK
<1>2. Unread' = Unread + 1
  BY <1>1 DEF Unread, NextNumber, Numbers
<1>3. NumberAt(Unread + 1) = pushed /\ \A i \in Int : NumberAt(i)' = NumberAt(i)
  BY <1>1 DEF NumberAt, Unread, Numbers
<1>4. /\ Unread \in Nat /\ UnreadNumbers \in Seq(Numbers)
      /\ Len(UnreadNumbers) = Unread
      /\ UnreadNumbers' \in Seq(Numbers) /\ Len(UnreadNumbers') = Unread + 1
  <2>1. /\ Unread \in Nat /\ UnreadNumbers \in Seq(Numbers)
        /\ Len(UnreadNumbers) = Unread
        /\ \A i \in 1 .. Unread : NumberAt(i) \in Numbers
    BY <1>1, UnreadSeq
  <2>2. UnreadNumbers' \in [1 .. Unread + 1 -> Numbers]
    BY <1>1, <1>2, <1>3, <2>1 DEF UnreadNumbers
  <2> QED BY <2>1, <2>2
<1>5. UnreadNumbers' = Append(UnreadNumbers, pushed)
  <2>1. \A i \in 1 .. Unread + 1 :
           UnreadNumbers'[i] = IF i = Unread + 1 THEN pushed ELSE UnreadNumbers[i]
    BY <1>2, <1>3, <1>4 DEF UnreadNumbers
  <2>2. /\ Append(UnreadNumbers, pushed) \in Seq(Numbers)
        /\ Len(Append(UnreadNumbers, pushed)) = Unread + 1
        /\ \A i \in 1 .. Unread + 1 : Append(UnreadNumbers, pushed)[i] =
              IF i = Unread + 1 THEN pushed ELSE UnreadNumbers[i]
    BY <1>1, <1>4
  <2> QED BY <1>4, <2>1, <2>2, SeqEqual
<1>6. Queue!Sanitise(pushed) = pushed
  BY <1>1 DEF Queue!Sanitise, Numbers
<1> QED BY <1>1, <1>4, <1>5, <1>6 DEF Queue!Push, AdvanceWritePos

LEMMA PopStep == ASSUME InRing, TypeOK', Sound, PopSample PROVE Queue!Pop
<1>1. /\ toPop \in 1 .. Unread /\ TypeOK /\ TypeOK'
      /\ pushed \in Numbers /\ popped \in Numbers
      /\ pushed' = pushed /\ popped' = NextNumber(popped)
  BY UnreadType DEF InRing, Sound, PopSample, CountsRight, TypeOK
<1>2. Unread \in Nat /\ Unread > 0 /\ Unread' = Unread - 1
  BY <1>1, UnreadType DEF Unread, NextNumber, Numbers
<1>3. NumberAt(1) = popped /\ \A i \in 1 .. Unread - 1 : NumberAt(i)' = NumberAt(i + 1)
  BY <1>1, <1>2, UnreadType DEF NumberAt, NextNumber, Numbers
<1>4. /\ UnreadNumbers \in Seq(Numbers) /\ Len(UnreadNumbers) = Unread
      /\ UnreadNumbers' \in Seq(Numbers) /\ Len(UnreadNumbers') = Unread - 1
  <2>1. /\ UnreadNumbers \in Seq(Numbers) /\ Len(UnreadNumbers) = Unread
        /\ \A i \in 1 .. Unread : NumberAt(i) \in Numbers
    BY <1>1, UnreadSeq
  <2>2. UnreadNumbers' \in [1 .. Unread - 1 -> Numbers]
    BY <1>2, <1>3, <2>1 DEF UnreadNumbers
  <2> QED BY <1>2, <2>1, <2>2
<1>5. UnreadNumbers # << >> /\ Head(UnreadNumbers) = popped
  BY <1>2, <1>3, <1>4 DEF UnreadNumbers
<1>6. got' = popped
  <2>1. slots[Position(popped)] = popped /\ readPos = Position(popped)
    BY <1>1, <1>2, UnreadType DEF Sound, SlotsHold, PositionsFollow, Behind, Numbers
  <2> QED BY <2>1 DEF PopSample
<1>7. UnreadNumbers' = Tail(UnreadNumbers)
  <2>1. \A i \in 1 .. Unread - 1 : UnreadNumbers'[i] = UnreadNumbers[i + 1]
    BY <1>2, <1>3 DEF UnreadNumbers
  <2>2. /\ Tail(UnreadNumbers) \in Seq(Numbers)
        /\ Len(Tail(UnreadNumbers)) = Unread - 1
        /\ \A i \in 1 .. Unread - 1 :
              Tail(UnreadNumbers)[i] = UnreadNumbers[i + 1]
    BY <1>4, <1>5, HeadTailProperties
  <2> QED BY <1>4, <2>1, <2>2, SeqEqual
<1> QED BY <1>5, <1>6, <1>7 DEF Queue!Pop, PopSample

(***************************************************************************)
(* The ring needs no lock to be a queue: the samples come out of           *)
(* popSample() in the order of pushSample(), each once and none forgotten, *)
(* with the accesses to both positions at any interleaving, as long as no  *)
(* empty ring is counted while writePos shows capacity.                    *)
(***************************************************************************)
THEOREM SharedRing == Spec => SharedRingIsQueue
<1>1. Init => Queue!Init
  <2> SUFFICES ASSUME Init PROVE Queue!Init
    OBVIOUS
  <2>1. Unread = 0
    BY DEF Init, Unread
  <2>2. UnreadNumbers = << >>
    BY <2>1 DEF UnreadNumbers
  <2> QED BY <2>2 DEF Init, Queue!Init
<1>2. IInv /\ IInv' /\ [Next]_vars => [misread' \/ Queue!Next]_(Queue!vars)
  <2> SUFFICES ASSUME IInv, IInv', [Next]_vars, ~misread'
               PROVE  Queue!Next \/ UNCHANGED Queue!vars
    OBVIOUS
  <2>0. InRing /\ TypeOK /\ TypeOK' /\ Sound
    BY DEF IInv, InRing, Next, SetSample, AdvanceWritePos, WrapWritePos, CompareLoad,
           CountLoad, PopSample, vars
  <2>1. CASE AdvanceWritePos
    BY <2>0, <2>1, PushStep DEF Queue!Next, TypeOK
  <2>2. CASE PopSample
    BY <2>0, <2>2, PopStep DEF Queue!Next
  <2>3. CASE SetSample \/ WrapWritePos \/ CompareLoad \/ CountLoad \/ UNCHANGED vars
    <3>1. UNCHANGED <<pushed, popped, got, call>>
      BY <2>3 DEF SetSample, WrapWritePos, CompareLoad, CountLoad, vars
    <3> QED BY <3>1 DEF Queue!vars, UnreadNumbers, NumberAt, Unread
  <2> QED BY <2>1, <2>2, <2>3 DEF Next
<1> QED BY <1>1, <1>2, Invariant, PTL DEF Spec, SharedRingIsQueue
=============================================================================

-------------------------- MODULE RingBufferProofs --------------------------
(***************************************************************************)
(* RingBuffer implements SampleQueue, for every set of samples and every   *)
(* set of ring sizes.                                                      *)
(***************************************************************************)
EXTENDS RingBuffer, SequenceTheorems, TLAPS

USE SampleAssumption, CapacitiesAssumption

(***************************************************************************)
(* Positions stay inside the ring.                                         *)
(***************************************************************************)
LEMMA AdvanceInSlots ==
  ASSUME TypeOK, NEW p \in Slots(capacity)
  PROVE  Advance(p) \in Slots(capacity)
BY DEF TypeOK, Slots, Advance

LEMMA SanitiseClean ==
  ASSUME NEW s \in CleanSample \cup {NaN}
  PROVE  Sanitise(s) \in CleanSample
BY DEF Sanitise, CleanSample

-----------------------------------------------------------------------------
(***************************************************************************)
(* Popping returns a clean sample only because no unread slot is           *)
(* uninitialised memory: the strengthening that makes TypeOK inductive.    *)
(***************************************************************************)
UnreadWritten == \A i \in 1 .. Available : buffer[Slot(i)] \in CleanSample

IInv == TypeOK /\ UnreadWritten

(***************************************************************************)
(* How many samples are unread after each operation, and where they lie.   *)
(***************************************************************************)
LEMMA AvailableBounds ==
  ASSUME TypeOK
  PROVE  /\ capacity \in Nat \ {0}
         /\ readPos \in Int /\ writePos \in Int
         /\ Available \in 0 .. capacity - 1
         /\ \A i \in 1 .. Available : Slot(i) \in Slots(capacity) \ {writePos}
         /\ \A i \in 1 .. capacity : Slot(i) \in Slots(capacity)
         /\ Available + 1 <= capacity
         /\ Slot(Available + 1) = writePos
BY DEF TypeOK, Slots, Available, Slot

LEMMA PushAvailable ==
  ASSUME TypeOK, NEW s \in Sample, PushSample(s)
  PROVE  /\ Available + 1 < capacity => Available' = Available + 1
         /\ Available + 1 >= capacity => Available' = 0
         /\ \A i \in Int : Slot(i)' = Slot(i)
BY DEF TypeOK, Slots, Available, Slot, PushSample, Advance

LEMMA PopAvailable ==
  ASSUME TypeOK, PopSample
  PROVE  /\ Available > 0
         /\ Available' = Available - 1
         /\ \A i \in 1 .. Available - 1 : Slot(i)' = Slot(i + 1)
         /\ readPos = Slot(1)
BY DEF TypeOK, Slots, Available, Slot, PopSample, Advance

LEMMA EmptiedAvailable ==
  ASSUME NEW n \in Capacities, Initialise(n) \/ Reset
  PROVE  Available' = 0
BY DEF Initialise, Reset, Available

-----------------------------------------------------------------------------
LEMMA InvInit == Init => IInv
BY DEF Init, IInv, TypeOK, UnreadWritten, Slots, Available, CleanSample, Calls

LEMMA InvNext == IInv /\ [Next]_vars => IInv'
<1> SUFFICES ASSUME IInv, [Next]_vars PROVE IInv'
  OBVIOUS
<1> USE DEF IInv
<1>1. ASSUME NEW n \in Capacities, Initialise(n) PROVE IInv'
  <2>1. TypeOK'
    BY <1>1 DEF TypeOK, Initialise, Slots, Calls
  <2>2. UnreadWritten'
    <3>1. Available' = 0
      BY <1>1, EmptiedAvailable
    <3> QED BY <3>1 DEF UnreadWritten
  <2> QED BY <2>1, <2>2
<1>2. ASSUME Reset PROVE IInv'
  <2>1. TypeOK'
    BY <1>2 DEF TypeOK, Reset, Slots, CleanSample, Calls
  <2>2. UnreadWritten'
    <3>1. Available' = 0
      BY <1>2, EmptiedAvailable DEF TypeOK
    <3> QED BY <3>1 DEF UnreadWritten
  <2> QED BY <2>1, <2>2
<1>3. ASSUME NEW s \in Sample, PushSample(s) PROVE IInv'
  <2>1. Sanitise(s) \in CleanSample
    BY SanitiseClean DEF CleanSample
  <2>2. TypeOK'
    BY <1>3, <2>1, AdvanceInSlots DEF TypeOK, PushSample, Calls
  <2>3. UnreadWritten'
    <3> SUFFICES ASSUME NEW i \in (1 .. Available)'
                 PROVE  buffer'[Slot(i)'] \in CleanSample
      BY DEF UnreadWritten
    <3>1. Available + 1 < capacity /\ i \in 1 .. Available + 1
      BY <1>3, PushAvailable, AvailableBounds
    <3>2. Slot(i)' = Slot(i)
      BY <1>3, PushAvailable, <3>1, AvailableBounds
    <3>3. CASE i = Available + 1
      BY <1>3, <2>1, <3>2, <3>3, AvailableBounds DEF PushSample, TypeOK
    <3>4. CASE i \in 1 .. Available
      BY <1>3, <3>2, <3>4, AvailableBounds DEF PushSample, UnreadWritten, TypeOK
    <3> QED BY <3>1, <3>3, <3>4, AvailableBounds
  <2> QED BY <2>2, <2>3
<1>4. ASSUME PopSample PROVE IInv'
  <2>1. buffer[readPos] \in CleanSample
    BY <1>4, PopAvailable, AvailableBounds DEF UnreadWritten
  <2>2. TypeOK'
    BY <1>4, <2>1, AdvanceInSlots, SanitiseClean DEF TypeOK, PopSample, Calls
  <2>3. UnreadWritten'
    <3> SUFFICES ASSUME NEW i \in (1 .. Available)'
                 PROVE  buffer'[Slot(i)'] \in CleanSample
      BY DEF UnreadWritten
    <3>1. i \in 1 .. Available - 1 /\ i + 1 \in 1 .. Available
      BY <1>4, PopAvailable, AvailableBounds
    <3>2. Slot(i)' = Slot(i + 1)
      BY <1>4, PopAvailable, <3>1
    <3> QED BY <1>4, <3>1, <3>2 DEF PopSample, UnreadWritten
  <2> QED BY <2>2, <2>3
<1>5. CASE UNCHANGED vars
  BY <1>5 DEF vars, TypeOK, UnreadWritten, Available, Slot
<1> QED BY <1>1, <1>2, <1>3, <1>4, <1>5 DEF Next

(***************************************************************************)
(* Both positions always lie inside the ring, and a pop returns a clean    *)
(* sample: never NaN, never memory nobody wrote (pushSample, popSample).   *)
(***************************************************************************)
THEOREM TypeCorrect == Spec => []TypeOK
<1>1. IInv => TypeOK
  BY DEF IInv
<1> QED BY <1>1, InvInit, InvNext, PTL DEF Spec
-----------------------------------------------------------------------------
(***************************************************************************)
(* Every operation is the queue's operation of the same kind, seen through *)
(* the unread slots.                                                       *)
(***************************************************************************)
LEMMA UnreadSeq ==
  ASSUME IInv
  PROVE  /\ Unread \in Seq(CleanSample)
         /\ Len(Unread) = Available
         /\ \A i \in 1 .. Available : Unread[i] = buffer[Slot(i)]
<1>1. Available \in Nat
  BY AvailableBounds DEF IInv
<1>2. Unread \in [1 .. Available -> CleanSample]
  BY DEF IInv, UnreadWritten, Unread
<1> QED BY <1>1, <1>2 DEF Unread

LEMMA ClearStep ==
  ASSUME IInv, IInv', NEW n \in Capacities, Initialise(n) \/ Reset
  PROVE  Queue!Clear
<1>1. Available' = 0
  BY EmptiedAvailable
<1>2. Unread' = << >>
  BY <1>1 DEF Unread
<1> QED BY <1>2 DEF Queue!Clear, Initialise, Reset, IInv, TypeOK

LEMMA PushStep ==
  ASSUME IInv, IInv', NEW s \in Sample, PushSample(s)
  PROVE  Queue!Push(s)
<1> DEFINE c == Sanitise(s)
<1>1. /\ Unread \in Seq(CleanSample) /\ Len(Unread) = Available
      /\ \A i \in 1 .. Available : Unread[i] = buffer[Slot(i)]
  BY UnreadSeq
<1>2. /\ Available \in Nat /\ capacity \in Nat /\ Slot(Available + 1) = writePos
      /\ \A i \in 1 .. Available : Slot(i) \in Slots(capacity) \ {writePos}
      /\ writePos \in Slots(capacity)
      /\ buffer \in [Slots(capacity) -> CleanSample \cup {Uninit}]
  BY AvailableBounds DEF IInv, TypeOK
<1>3. CASE Available + 1 < capacity
  <2>1. Available' = Available + 1 /\ \A i \in Int : Slot(i)' = Slot(i)
    BY <1>3, PushAvailable DEF IInv
  <2>2. \A i \in 1 .. Available + 1 :
           buffer'[Slot(i)'] = IF i = Available + 1 THEN c ELSE Unread[i]
    BY <1>1, <1>2, <2>1 DEF PushSample
  <2>3. Unread' = [i \in 1 .. Available + 1 |->
                     IF i = Available + 1 THEN c ELSE Unread[i]]
    BY <2>1, <2>2 DEF Unread
  <2>4. Unread' = Append(Unread, c)
    <3>1. c \in CleanSample
      BY SanitiseClean DEF CleanSample
    <3>2. /\ Append(Unread, c) \in Seq(CleanSample)
          /\ Len(Append(Unread, c)) = Available + 1
          /\ \A i \in 1 .. Available + 1 :
                Append(Unread, c)[i] = IF i = Available + 1 THEN c ELSE Unread[i]
      BY <1>1, <1>2, <3>1
    <3>3. \A i \in 1 .. Available : Unread[i] \in CleanSample
      BY <1>1, <1>2, ElementOfSeq
    <3>4. Unread' \in [1 .. Available + 1 -> CleanSample]
      BY <1>2, <2>3, <3>1, <3>3
    <3>5. /\ Unread' \in Seq(CleanSample)
          /\ Len(Unread') = Available + 1
      BY <1>2, <3>4
    <3> QED BY <2>3, <3>2, <3>5, SeqEqual
  <2> QED BY <1>1, <1>3, <2>4 DEF Queue!Push, Queue!Sanitise, Sanitise, PushSample
<1>4. CASE Available + 1 >= capacity
  <2>1. Unread' = << >>
    BY <1>4, PushAvailable DEF IInv, Unread
  <2> QED BY <1>1, <1>2, <1>4, <2>1 DEF Queue!Push, PushSample
<1> QED BY <1>2, <1>3, <1>4

LEMMA PopStep ==
  ASSUME IInv, IInv', PopSample
  PROVE  Queue!Pop
<1>1. /\ Unread \in Seq(CleanSample) /\ Len(Unread) = Available
      /\ \A i \in 1 .. Available : Unread[i] = buffer[Slot(i)]
  BY UnreadSeq
<1>2. /\ Available > 0 /\ Available' = Available - 1 /\ readPos = Slot(1)
      /\ \A i \in 1 .. Available - 1 : Slot(i)' = Slot(i + 1)
  BY PopAvailable DEF IInv
<1>3. Available \in Nat
  BY AvailableBounds DEF IInv
<1>4. Unread # << >> /\ Head(Unread) = buffer[readPos]
  BY <1>1, <1>2, <1>3
<1>5. popped' = Head(Unread)
  <2>1. buffer[readPos] \in CleanSample
    BY <1>2, <1>3 DEF IInv, UnreadWritten
  <2> QED BY <1>4, <2>1 DEF PopSample, Sanitise, CleanSample
<1>6. Unread' = [i \in 1 .. Available - 1 |-> Unread[i + 1]]
  <2>1. \A i \in 1 .. Available - 1 : buffer'[Slot(i)'] = Unread[i + 1]
    BY <1>1, <1>2, <1>3 DEF PopSample
  <2> QED BY <1>2, <2>1 DEF Unread
<1>7. Unread' = Tail(Unread)
  <2>1. /\ Tail(Unread) \in Seq(CleanSample)
        /\ Len(Tail(Unread)) = Available - 1
        /\ \A i \in 1 .. Available - 1 : Tail(Unread)[i] = Unread[i + 1]
    BY <1>1, <1>4, HeadTailProperties
  <2>2. \A i \in 1 .. Available : Unread[i] \in CleanSample
    BY <1>1, <1>3, ElementOfSeq
  <2>3. Unread' \in [1 .. Available - 1 -> CleanSample]
    BY <1>2, <1>3, <1>6, <2>2
  <2>4. Unread' \in Seq(CleanSample) /\ Len(Unread') = Available - 1
    BY <1>2, <1>3, <2>3
  <2> QED BY <1>6, <2>1, <2>4, SeqEqual
<1> QED BY <1>4, <1>5, <1>7 DEF Queue!Pop, PopSample

(***************************************************************************)
(* A ring is a queue of capacity - 1 samples: the samples popped are those *)
(* pushed, in order and without NaN, and the only samples ever forgotten   *)
(* are those of an overrun, a reset or an initialise (RingBuffer.cpp).     *)
(***************************************************************************)
THEOREM RingIsQueue == Spec => ImplementsQueue
<1>1. Init => Queue!Init
  <2> SUFFICES ASSUME Init PROVE Queue!Init
    OBVIOUS
  <2>1. Available = 0
    BY DEF Init, Available
  <2>2. Unread = << >>
    BY <2>1 DEF Unread
  <2> QED BY <2>2 DEF Init, Queue!Init
<1>2. IInv /\ IInv' /\ [Next]_vars => [Queue!Next]_(Queue!vars)
  <2> SUFFICES ASSUME IInv, IInv', [Next]_vars
               PROVE  Queue!Next \/ UNCHANGED Queue!vars
    OBVIOUS
  <2>1. CASE Next
    BY <2>1, ClearStep, PushStep, PopStep, CapacitiesAssumption
       DEF Next, Queue!Next, IInv, TypeOK
  <2>2. CASE UNCHANGED vars
    BY <2>2 DEF vars, Queue!vars, Unread, Available, Slot
  <2> QED BY <2>1, <2>2
<1> QED BY <1>1, <1>2, InvInit, InvNext, PTL DEF Spec, ImplementsQueue, Queue!Spec
=============================================================================

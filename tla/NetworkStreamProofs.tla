------------------------ MODULE NetworkStreamProofs ------------------------
(***************************************************************************)
(* The delay of a network, and when it never misses a block, for every     *)
(* model input size, ring size, block size and inference time.             *)
(***************************************************************************)
EXTENDS NetworkStream, TLAPS

USE SizesAssumption

(***************************************************************************)
(* calculateLatency() rounds getLatency() up to whole blocks and takes one *)
(* block off: it is the only multiple of b below getLatency() that reaches *)
(* it with one block more.                                                 *)
(***************************************************************************)
LEMMA LatencyInNat ==
  ASSUME NEW b \in BlockSizes
  PROVE  CalculateLatency(b) \in Nat
<1>1. /\ b \in Nat \ {0} /\ GetLatency \in Nat /\ b <= GetLatency
  BY DEF GetLatency
<1>2. /\ GetLatency \div b \in Nat
      /\ GetLatency = (GetLatency \div b) * b + (GetLatency % b)
      /\ GetLatency % b \in 0 .. b - 1
  BY <1>1
<1>3. (GetLatency \div b + 1) * b = (GetLatency \div b) * b + b
  BY <1>1, <1>2
<1>4. (GetLatency \div b) * b \in Nat
  BY <1>1, <1>2
<1> QED BY <1>1, <1>2, <1>3, <1>4 DEF CalculateLatency

LEMMA LatencyIsMultiple ==
  ASSUME NEW b \in BlockSizes, NEW m \in Nat,
         m * b < GetLatency, GetLatency <= m * b + b
  PROVE  CalculateLatency(b) = m * b
<1>1. b \in Nat \ {0} /\ GetLatency \in Nat
  BY DEF GetLatency
<1> DEFINE q == GetLatency \div b
           r == GetLatency % b
<1>2. q \in Nat /\ r \in 0 .. b - 1 /\ GetLatency = q * b + r
  BY <1>1
<1> HIDE DEF q, r
<1>3. CASE r = 0
  <2>1. q * b > m * b /\ q * b <= m * b + b
    BY <1>1, <1>2, <1>3
  <2>2. q = m + 1
    BY <1>1, <1>2, <2>1
  <2> QED BY <1>1, <1>3, <2>2 DEF CalculateLatency, q, r
<1>4. CASE r # 0
  <2>1. q * b < m * b + b /\ q * b + b > m * b
    BY <1>1, <1>2, <1>4
  <2>2. q = m
    BY <1>1, <1>2, <2>1
  <2> QED BY <1>1, <1>4, <2>2 DEF CalculateLatency, q, r
<1> QED BY <1>3, <1>4

(***************************************************************************)
(* The latency is shorter than getLatency() by at most one block.          *)
(***************************************************************************)
LEMMA LatencyBounds ==
  ASSUME NEW b \in BlockSizes
  PROVE  CalculateLatency(b) < GetLatency /\ GetLatency <= CalculateLatency(b) + b
<1>1. b \in Nat \ {0} /\ GetLatency \in Nat
  BY DEF GetLatency
<1> DEFINE q == GetLatency \div b
           r == GetLatency % b
<1>2. q \in Nat /\ r \in 0 .. b - 1 /\ GetLatency = q * b + r /\ q * b \in Nat
  BY <1>1
<1> HIDE DEF q, r
<1>3. (q + 1) * b = q * b + b
  BY <1>1, <1>2
<1> QED BY <1>1, <1>2, <1>3 DEF CalculateLatency, q, r

(***************************************************************************)
(* A push forgets exactly what it does not keep.                           *)
(***************************************************************************)
LEMMA RingArithmetic ==
  ASSUME NEW k \in 0 .. Capacity - 1, NEW n \in 0 .. Capacity
  PROVE  /\ Pushed(k, n) \in 0 .. Capacity - 1
         /\ Forgotten(k, n) \in Nat
         /\ Pushed(k, n) + Forgotten(k, n) = k + n
         /\ Pushed(k, n) <= k + n
         /\ k + n < Capacity => Forgotten(k, n) = 0
BY DEF Pushed, Forgotten

LEMMA BlockSizeBounds ==
  ASSUME blockSize \in BlockSizes
  PROVE  blockSize \in Nat \ {0} /\ blockSize \in 0 .. Capacity
OBVIOUS

-----------------------------------------------------------------------------
(***************************************************************************)
(* Type correctness.                                                       *)
(***************************************************************************)
LEMMA TypeInit == Init => TypeOK
<1> SUFFICES ASSUME Init PROVE TypeOK
  OBVIOUS
<1>1. blockSize \in BlockSizes /\ latencyInSamples \in Nat
  BY LatencyInNat DEF Init
<1>2. blockSize \in Nat /\ 0 \in 0 .. blockSize
  BY <1>1
<1>3. 0 \in 0 .. Capacity - 1 /\ 0 \in 0 .. ModelInputSize /\ 0 \in Nat
  OBVIOUS
<1>4. init \in BOOLEAN /\ running \in BOOLEAN
  BY DEF Init
<1> QED BY <1>1, <1>2, <1>3, <1>4 DEF Init, TypeOK

LEMMA TypeNext == TypeOK /\ [Next]_vars => TypeOK'
<1> SUFFICES ASSUME TypeOK, [Next]_vars PROVE TypeOK'
  OBVIOUS
<1>1. CASE SendAudio
  <2>1. blockSize \in Nat \ {0} /\ blockSize \in 0 .. Capacity
    BY BlockSizeBounds DEF TypeOK
  <2>2. Pushed(recv, blockSize) \in 0 .. Capacity - 1 /\ Forgotten(recv, blockSize) \in Nat
    BY <2>1, RingArithmetic DEF TypeOK
  <2> QED BY <1>1, <2>1, <2>2 DEF TypeOK, SendAudio
<1>2. CASE ProcessOutput
  BY <1>2 DEF TypeOK, ProcessOutput, PassThrough, Serve, Miss
<1>3. CASE PushProcessed
  <2>1. Pushed(out, 1) \in 0 .. Capacity - 1 /\ Forgotten(out, 1) \in Nat
    <3>1. out \in 0 .. Capacity - 1 /\ 1 \in 0 .. Capacity
      BY DEF TypeOK
    <3> QED BY <3>1, RingArithmetic
  <2> QED BY <1>3, <2>1 DEF TypeOK, PushProcessed
<1>4. CASE ThreadExits
  BY <1>4 DEF TypeOK, ThreadExits
<1>5. ASSUME NEW b \in BlockSizes, Prepare(b) PROVE TypeOK'
  BY <1>5, LatencyInNat DEF TypeOK, Prepare, Restart
<1>6. CASE ReloadModel
  BY <1>6 DEF TypeOK, ReloadModel, Restart
<1>7. CASE UNCHANGED vars
  BY <1>7 DEF TypeOK, vars
<1> QED BY <1>1, <1>2, <1>3, <1>4, <1>5, <1>6, <1>7 DEF Next

(***************************************************************************)
(* Both rings stay within their size, an inference never has more than a   *)
(* model input to push, and the latency reported is never negative.        *)
(***************************************************************************)
THEOREM TypeCorrect == Spec => []TypeOK
BY TypeInit, TypeNext, PTL DEF Spec

-----------------------------------------------------------------------------
(***************************************************************************)
(* The delay.  While the network collects, the samples sent since the last *)
(* prepare are whole blocks and fewer than getLatency(); the block that    *)
(* reaches getLatency() is the first one served.                           *)
(***************************************************************************)
WholeBlocks == \E m \in Nat : initSamples = m * blockSize

DelayInv == /\ TypeOK
            /\ DelayLaw
            /\ latencyInSamples = CalculateLatency(blockSize)
            /\ sending \in {0, blockSize}
            /\ ~running => toPush = 0
            /\ init => /\ initSamples < GetLatency
                       /\ inferenceCounter = 0
                       /\ WholeBlocks

(***************************************************************************)
(* A block sent is owed; what the worker pushes was owed before.           *)
(***************************************************************************)
LEMMA SentIsOwed ==
  ASSUME TypeOK, ~running => toPush = 0, SendAudio
  PROVE  Delay' = Delay + blockSize
<1>1. blockSize \in Nat \ {0} /\ recv \in 0 .. Capacity - 1 /\ blockSize \in 0 .. Capacity
  BY BlockSizeBounds DEF TypeOK
<1>2. /\ Pushed(recv, blockSize) + Forgotten(recv, blockSize) = recv + blockSize
      /\ Pushed(recv, blockSize) \in Nat /\ Forgotten(recv, blockSize) \in Nat
  BY <1>1, RingArithmetic
<1>3. CASE ~running /\ Pushed(recv, blockSize) >= ModelInputSize
  <2>1. toPush = 0
    BY <1>3
  <2>2. recv' = Pushed(recv, blockSize) - ModelInputSize /\ toPush' = ModelInputSize
    BY <1>3 DEF SendAudio
  <2> QED BY <1>2, <2>1, <2>2 DEF SendAudio, Delay, TypeOK
<1>4. CASE ~(~running /\ Pushed(recv, blockSize) >= ModelInputSize)
  <2>1. recv' = Pushed(recv, blockSize) /\ toPush' = toPush
    BY <1>4 DEF SendAudio
  <2> QED BY <1>1, <1>2, <2>1 DEF SendAudio, Delay, TypeOK
<1> QED BY <1>3, <1>4

LEMMA PushedIsOwed == TypeOK /\ PushProcessed => Delay' = Delay
<1> SUFFICES ASSUME TypeOK, PushProcessed PROVE Delay' = Delay
  OBVIOUS
<1>1. out \in 0 .. Capacity - 1 /\ 1 \in 0 .. Capacity
  BY DEF TypeOK
<1>2. /\ Pushed(out, 1) + Forgotten(out, 1) = out + 1
      /\ Pushed(out, 1) \in Nat /\ Forgotten(out, 1) \in Nat
  BY <1>1, RingArithmetic
<1> QED BY <1>2 DEF PushProcessed, Delay, TypeOK

LEMMA DelayInit == Init => DelayInv
<1> SUFFICES ASSUME Init PROVE DelayInv
  OBVIOUS
<1>1. TypeOK
  BY TypeInit
<1>2. 0 = 0 * blockSize
  BY <1>1 DEF TypeOK
<1> QED BY <1>1, <1>2 DEF DelayInv, Init, DelayLaw, Delay, WholeBlocks, GetLatency

LEMMA DelayNext == DelayInv /\ [Next]_vars => DelayInv'
<1> SUFFICES ASSUME DelayInv, [Next]_vars PROVE DelayInv'
  OBVIOUS
<1>t. TypeOK /\ TypeOK' /\ DelayLaw
  BY TypeNext DEF DelayInv
<1>g. GetLatency \in Nat
  BY DEF GetLatency
<1>1. CASE SendAudio
  <2>1. blockSize \in Nat \ {0} /\ sending = 0
    BY <1>1, <1>t, BlockSizeBounds DEF SendAudio, TypeOK
  <2>2. Delay' = Delay + blockSize
    BY <1>1, SentIsOwed DEF DelayInv
  <2>3. ~running' => toPush' = 0
    BY <1>1 DEF SendAudio, DelayInv
  <2>4. CASE ~init
    <3>1. DelayLaw'
      BY <1>1, <1>t, <2>1, <2>2, <2>4 DEF SendAudio, DelayLaw, TypeOK
    <3> QED BY <1>1, <1>t, <2>1, <2>3, <2>4, <3>1 DEF SendAudio, DelayInv
  <2>5. CASE init
    <3>1. PICK m \in Nat : initSamples = m * blockSize
      BY <2>5 DEF DelayInv, WholeBlocks
    <3>2. /\ initSamples' = m * blockSize + blockSize
          /\ m * blockSize \in Nat
          /\ m * blockSize < GetLatency
          /\ m * blockSize + blockSize = (m + 1) * blockSize
          /\ inferenceCounter = 0 /\ inferenceCounter' = 0
          /\ blockSize' = blockSize /\ latencyInSamples' = latencyInSamples
          /\ sending' = blockSize
      BY <1>1, <1>t, <2>1, <2>5, <3>1 DEF SendAudio, DelayInv, TypeOK
    <3>3. Delay' = m * blockSize + blockSize
      BY <1>t, <2>1, <2>2, <2>5, <3>1 DEF DelayLaw
    <3>4. WholeBlocks'
      BY <3>2 DEF WholeBlocks
    <3>5. CASE init'
      <4>1. initSamples' < GetLatency
        BY <1>1, <3>5 DEF SendAudio
      <4> QED BY <1>t, <2>3, <3>2, <3>3, <3>4, <3>5, <4>1 DEF DelayInv, DelayLaw
    <3>6. CASE ~init'
      <4>1. ~(initSamples' < GetLatency)
        BY <1>1, <2>5, <3>6 DEF SendAudio
      <4>2. latencyInSamples = m * blockSize
        BY <1>t, <1>g, <3>2, <4>1, LatencyIsMultiple DEF DelayInv, TypeOK
      <4>3. blockSize * inferenceCounter' = 0
        BY <1>t, <3>2 DEF TypeOK
      <4>4. DelayLaw'
        BY <3>2, <3>3, <3>6, <4>2, <4>3 DEF DelayLaw
      <4> QED BY <1>t, <2>3, <3>2, <3>6, <4>4 DEF DelayInv
    <3> QED BY <3>5, <3>6
  <2> QED BY <2>4, <2>5
<1>2. CASE ProcessOutput
  <2>1. /\ sending = blockSize /\ sending' = 0
        /\ blockSize \in Nat /\ inferenceCounter \in Nat /\ out \in Nat
    BY <1>2, <1>t DEF ProcessOutput, DelayInv, TypeOK
  <2>2. DelayLaw'
    <3>1. CASE PassThrough
      BY <1>2, <1>t, <3>1 DEF ProcessOutput, PassThrough, DelayLaw, Delay
    <3>2. CASE Miss
      <4>1. blockSize * (inferenceCounter + 1) = blockSize * inferenceCounter + blockSize
        BY <2>1
      <4> QED BY <1>2, <1>t, <2>1, <3>2, <4>1
              DEF ProcessOutput, Miss, DelayLaw, Delay, TypeOK
    <3>3. CASE Serve /\ inferenceCounter > 0 /\ out >= 2 * sending
      <4>1. blockSize * (inferenceCounter - 1) = blockSize * inferenceCounter - blockSize
        BY <2>1
      <4>2. out' = out - 2 * blockSize /\ inferenceCounter' = inferenceCounter - 1
        BY <2>1, <3>3 DEF Serve
      <4> QED BY <1>2, <1>t, <2>1, <3>3, <4>1, <4>2
              DEF ProcessOutput, Serve, DelayLaw, Delay, TypeOK
    <3>4. CASE Serve /\ ~(inferenceCounter > 0 /\ out >= 2 * sending)
      <4>1. out' = out - blockSize /\ inferenceCounter' = inferenceCounter
        BY <2>1, <3>4 DEF Serve
      <4> QED BY <1>2, <1>t, <2>1, <3>4, <4>1
              DEF ProcessOutput, Serve, DelayLaw, Delay, TypeOK
    <3> QED BY <1>2, <3>1, <3>2, <3>3, <3>4 DEF ProcessOutput
  <2>3. init => inferenceCounter' = inferenceCounter
    BY <1>2 DEF ProcessOutput, PassThrough, Serve, Miss
  <2> QED BY <1>2, <1>t, <2>1, <2>2, <2>3 DEF ProcessOutput, DelayInv, WholeBlocks
<1>3. CASE PushProcessed
  <2>1. Delay' = Delay
    BY <1>3, <1>t, PushedIsOwed
  <2> QED BY <1>3, <1>t, <2>1 DEF PushProcessed, DelayInv, DelayLaw, WholeBlocks
<1>4. CASE ThreadExits
  BY <1>4, <1>t DEF ThreadExits, DelayInv, DelayLaw, Delay, WholeBlocks
<1>5. CASE Restart /\ latencyInSamples' = CalculateLatency(blockSize')
  <2>1. WholeBlocks'
    <3>1. blockSize' \in Nat
      BY <1>t DEF TypeOK
    <3>2. \A b \in Nat : 0 = 0 * b
      OBVIOUS
    <3> QED BY <1>5, <3>1, <3>2 DEF Restart, WholeBlocks
  <2>2. Delay' = 0
    BY <1>5, <1>t DEF Restart, Delay, TypeOK
  <2>3. 0 < GetLatency
    BY DEF GetLatency
  <2> QED BY <1>5, <1>t, <2>1, <2>2, <2>3 DEF Restart, DelayInv, DelayLaw
<1>6. ASSUME NEW b \in BlockSizes, Prepare(b) PROVE DelayInv'
  BY <1>5, <1>6 DEF Prepare
<1>7. CASE ReloadModel
  BY <1>5, <1>7 DEF ReloadModel, DelayInv
<1>8. CASE UNCHANGED vars
  BY <1>8, <1>t DEF vars, DelayInv, DelayLaw, Delay, WholeBlocks
<1> QED BY <1>1, <1>2, <1>3, <1>4, <1>6, <1>7, <1>8 DEF Next

(***************************************************************************)
(* The delay of the network is the latency reported to the host plus one   *)
(* block per missed block not skipped yet, whatever the speed of the       *)
(* model, the sizes of ring and block, overruns included.                  *)
(* (calculateLatency, init_samples, inferenceCounter)                      *)
(***************************************************************************)
THEOREM DelayIsReported == Spec => []DelayLaw
<1>1. DelayInv => DelayLaw
  BY DEF DelayInv
<1> QED BY <1>1, DelayInit, DelayNext, PTL DEF Spec

(***************************************************************************)
(* The delay line.  What is seen of the network between two callbacks      *)
(* changes in four ways only, each one that a line may take; the reported  *)
(* latency is a whole number of blocks.                                    *)
(***************************************************************************)
LEMMA LatencyInBlocks ==
  \A b \in BlockSizes : /\ CalculateLatency(b) \in Nat
                         /\ CalculateLatency(b) % b = 0
<1> TAKE b \in BlockSizes
<1>1. b \in Nat \ {0} /\ GetLatency \in Nat
  BY BlockSizeBounds DEF GetLatency
<1>2. CalculateLatency(b) \in Nat
  BY LatencyInNat
<1>3. PICK k \in Nat : CalculateLatency(b) = k * b
  <2>1. PICK q \in Nat : q = GetLatency \div b
    BY <1>1
  <2>2. CASE GetLatency % b = 0
    <3>1. CalculateLatency(b) = q * b - b
      BY <2>1, <2>2 DEF CalculateLatency
    <3>2. q * b - b = (q - 1) * b
      BY <1>1
    <3>3. q # 0
      BY <1>1, <1>2, <3>1
    <3>4. q - 1 \in Nat
      BY <3>3
    <3> QED BY <3>1, <3>2, <3>4
  <2>3. CASE GetLatency % b # 0
    <3>1. CalculateLatency(b) = (q + 1) * b - b
      BY <2>1, <2>3 DEF CalculateLatency
    <3>2. (q + 1) * b - b = q * b
      BY <1>1
    <3> QED BY <3>1, <3>2
  <2> QED BY <2>2, <2>3
<1>4. (k * b) % b = 0
  BY <1>1
<1> QED BY <1>2, <1>3, <1>4

LEMMA RestartStep ==
  ASSUME TypeOK, TypeOK', Restart, latencyInSamples' = CalculateLatency(blockSize')
  PROVE  Line!Restart
<1>1. (Delay - sending)' = 0
  BY DEF Restart, Delay, TypeOK
<1>2. blockSize' \in BlockSizes
  BY DEF TypeOK
<1> QED BY <1>1, <1>2, LatencyInBlocks DEF Restart, Line!Restart, Line!Empty

LEMMA OutputStep ==
  ASSUME DelayInv, ProcessOutput
  PROVE  Line!Fill \/ Line!BeLate \/ Line!CatchUp \/ UNCHANGED Line!vars
<1>1. /\ TypeOK /\ DelayLaw
      /\ sending = blockSize /\ sending' = 0
      /\ UNCHANGED <<blockSize, latencyInSamples, recv, init, toPush, stray, lost>>
  BY DEF DelayInv, ProcessOutput
<1>2. /\ blockSize \in Nat \ {0} /\ latencyInSamples \in Nat
      /\ recv \in Nat /\ toPush \in Nat /\ out \in Nat /\ stray \in Nat /\ lost \in Nat
      /\ inferenceCounter \in Nat
  BY <1>1, BlockSizeBounds DEF TypeOK
<1>3. Delay \in Int /\ (Delay - sending)' = Delay + (out' - out)
  <2>1. out' \in Int
    BY <1>1, <1>2 DEF ProcessOutput, PassThrough, Serve, Miss
  <2> QED BY <1>1, <1>2, <2>1 DEF Delay
<1>4. ~init => Line!Full
  <2>1. ASSUME ~init PROVE Delay - sending = latencyInSamples + blockSize * inferenceCounter
    BY <1>1, <1>2, <2>1 DEF DelayLaw
  <2>2. blockSize * inferenceCounter \in Nat
    BY <1>2
  <2> QED BY <1>2, <2>1, <2>2 DEF Line!Full
<1>5. CASE PassThrough
  <2>1. init /\ out' = out /\ inferenceCounter' = inferenceCounter
    BY <1>5 DEF PassThrough
  <2>2. Delay = initSamples /\ initSamples < GetLatency
    BY <1>1, <2>1 DEF DelayInv, DelayLaw
  <2>3. GetLatency <= latencyInSamples + blockSize /\ GetLatency \in Nat
    BY <1>2, LatencyBounds DEF DelayInv, TypeOK, GetLatency
  <2>4. ~Line!Full
    BY <1>1, <1>2, <1>3, <2>2, <2>3 DEF Line!Full
  <2> QED BY <1>1, <1>2, <1>3, <2>1, <2>4 DEF Line!Fill
<1>6. CASE Miss
  BY <1>1, <1>2, <1>3, <1>4, <1>6 DEF Miss, Line!BeLate
<1>7. CASE Serve /\ inferenceCounter > 0 /\ out >= 2 * sending
  BY <1>1, <1>2, <1>3, <1>4, <1>7 DEF Serve, Line!CatchUp
<1>8. CASE Serve /\ ~(inferenceCounter > 0 /\ out >= 2 * sending)
  <2>1. out' = out - sending /\ inferenceCounter' = inferenceCounter
    BY <1>8 DEF Serve
  <2> QED BY <1>1, <1>2, <1>3, <2>1 DEF Line!vars
<1> QED BY <1>5, <1>6, <1>7, <1>8 DEF ProcessOutput

(***************************************************************************)
(* To its host the network is a delay line of the latency it reports, for  *)
(* every size of block, ring and model input and every speed of the model: *)
(* only processOutput, prepare() and a load change what the host sees.     *)
(* (OnnxProcessor::processBlock and prepare, InferenceThread::sendAudio)   *)
(***************************************************************************)
THEOREM NetworkIsDelayLine == Spec => ImplementsDelayLine
<1>1. Init => Line!Init
  <2> SUFFICES ASSUME Init PROVE Line!Init
    OBVIOUS
  <2>1. Delay - sending = 0
    BY DEF Init, Delay
  <2> QED BY <2>1, LatencyInBlocks DEF Init, Line!Init, Line!Empty
<1>2. DelayInv /\ DelayInv' /\ [Next]_vars => [Line!Next]_(Line!vars)
  <2> SUFFICES ASSUME DelayInv, DelayInv', [Next]_vars
               PROVE  Line!Next \/ UNCHANGED Line!vars
    OBVIOUS
  <2>t. TypeOK /\ TypeOK'
    BY DEF DelayInv
  <2>1. CASE SendAudio
    <3>1. Delay' = Delay + blockSize
      BY <2>1, SentIsOwed DEF DelayInv
    <3>2. sending = 0 /\ sending' = blockSize /\ blockSize \in Nat /\ Delay \in Int
      BY <2>1, <2>t, BlockSizeBounds DEF SendAudio, TypeOK, Delay
    <3>3. (Delay - sending)' = Delay - sending
      BY <3>1, <3>2
    <3> QED BY <2>1, <3>3 DEF SendAudio, Line!vars
  <2>2. CASE ProcessOutput
    BY <2>2, OutputStep DEF Line!Next
  <2>3. CASE PushProcessed
    <3>1. Delay' = Delay
      BY <2>3, <2>t, PushedIsOwed
    <3> QED BY <2>3, <3>1 DEF PushProcessed, Line!vars
  <2>4. CASE ThreadExits
    BY <2>4 DEF ThreadExits, Line!vars, Delay
  <2>5. ASSUME NEW b \in BlockSizes, Prepare(b) PROVE Line!Next
    BY <2>5, <2>t, RestartStep DEF Prepare, Line!Next
  <2>6. CASE ReloadModel
    BY <2>6, <2>t, RestartStep DEF ReloadModel, DelayInv, Line!Next
  <2>7. CASE UNCHANGED vars
    BY <2>7 DEF vars, Line!vars, Delay
  <2> QED BY <2>1, <2>2, <2>3, <2>4, <2>5, <2>6, <2>7 DEF Next
<1> QED BY <1>1, <1>2, DelayInit, DelayNext, PTL DEF Spec, ImplementsDelayLine, Line!Spec

-----------------------------------------------------------------------------
(***************************************************************************)
(* What has a common divisor: b and ModelInputSize are multiples of every  *)
(* g \in CommonDivisors(b), so the unread samples of the input ring are.   *)
(***************************************************************************)
Multiple(n, g) == \E k \in Int : n = k * g

LEMMA MultipleOfDivisor ==
  ASSUME NEW n \in Nat, NEW g \in Nat \ {0}, n % g = 0
  PROVE  Multiple(n, g)
<1>1. n = (n \div g) * g + (n % g) /\ n \div g \in Int
  OBVIOUS
<1>2. n = (n \div g) * g
  BY <1>1
<1> QED BY <1>1, <1>2 DEF Multiple

LEMMA MultipleSum ==
  ASSUME NEW m \in Int, NEW n \in Int, NEW g \in Nat, Multiple(m, g), Multiple(n, g)
  PROVE  Multiple(m + n, g) /\ Multiple(m - n, g)
<1>1. PICK j \in Int : m = j * g
  BY DEF Multiple
<1>2. PICK k \in Int : n = k * g
  BY DEF Multiple
<1>3. m + n = (j + k) * g /\ m - n = (j - k) * g
  BY <1>1, <1>2
<1>4. j + k \in Int /\ j - k \in Int
  OBVIOUS
<1> QED BY <1>3, <1>4 DEF Multiple

(***************************************************************************)
(* Of two different multiples the smaller one is smaller by the divisor.   *)
(***************************************************************************)
LEMMA MultipleGap ==
  ASSUME NEW m \in Int, NEW n \in Int, NEW g \in Nat \ {0},
         Multiple(m, g), Multiple(n, g), m < n
  PROVE  m + g <= n
<1>1. PICK j \in Int : m = j * g
  BY DEF Multiple
<1>2. PICK k \in Int : n = k * g
  BY DEF Multiple
<1>3. CASE j >= k
  <2>1. (j - k) * g >= 0
    BY <1>3
  <2>2. (j - k) * g = j * g - k * g
    OBVIOUS
  <2> QED BY <1>1, <1>2, <2>1, <2>2
<1>4. CASE j + 1 <= k
  <2>1. (k - j - 1) * g >= 0
    BY <1>4
  <2>2. (k - j - 1) * g = k * g - j * g - g
    OBVIOUS
  <2> QED BY <1>1, <1>2, <2>1, <2>2
<1> QED BY <1>3, <1>4

(***************************************************************************)
(* A whole number of blocks below RunTime is at most LongestRun.           *)
(***************************************************************************)
LEMMA LongestIsLongest ==
  ASSUME NEW b \in BlockSizes, NEW a \in Nat, Multiple(a, b), a < RunTime
  PROVE  a <= LongestRun(b)
<1> DEFINE q == (RunTime - 1) \div b
<1>1. /\ b \in Nat \ {0} /\ q \in Int
      /\ RunTime - 1 = q * b + ((RunTime - 1) % b) /\ (RunTime - 1) % b < b
  OBVIOUS
<1> HIDE DEF q
<1>2. PICK k \in Int : a = k * b
  BY DEF Multiple
<1>3. k * b < q * b + b
  BY <1>1, <1>2
<1>4. k <= q
  BY <1>1, <1>3
<1>5. (q - k) * b >= 0 /\ (q - k) * b = q * b - k * b
  BY <1>1, <1>4
<1> QED BY <1>1, <1>2, <1>5 DEF LongestRun, q

-----------------------------------------------------------------------------
(***************************************************************************)
(* No misses.  A worker at work finds at most the samples that arrived     *)
(* since it started, and what its model input was exceeded by before; with *)
(* its model input these are not more than the latency, so the samples to  *)
(* be served are always among those that were pushed.  A worker that was   *)
(* at work when the host prepared (stale) is gone before any are served.   *)
(***************************************************************************)
Stale == init /\ recv = initSamples /\ initSamples <= age

Fresh == /\ Multiple(age, blockSize)
         /\ \A g \in CommonDivisors(blockSize) : recv <= age + blockSize - g

TimelyInv ==
    /\ DelayInv
    /\ inferenceCounter = 0
    /\ lost = 0
    /\ \A g \in CommonDivisors(blockSize) : Multiple(recv, g)
    /\ running => age < RunTime /\ (Stale \/ Fresh)
    /\ ~running => recv < ModelInputSize

LEMMA MultipleOfItself ==
  ASSUME NEW n \in Int
  PROVE  Multiple(n, n) /\ Multiple(0, n)
<1>1. n = 1 * n /\ 0 = 0 * n
  OBVIOUS
<1> QED BY <1>1 DEF Multiple

LEMMA DivisorsDivide ==
  ASSUME NEW b \in BlockSizes, NEW g \in CommonDivisors(b)
  PROVE  /\ g \in 1 .. b /\ g \in Nat \ {0}
         /\ Multiple(b, g) /\ Multiple(ModelInputSize, g)
<1>1. /\ g \in 1 .. b /\ g \in Nat \ {0} /\ b \in Nat
      /\ b % g = 0 /\ ModelInputSize % g = 0
  BY DEF CommonDivisors
<1> QED BY <1>1, MultipleOfDivisor

(***************************************************************************)
(* What KeepsUp says of the block size in use.                             *)
(***************************************************************************)
LEMMA KeepsUpNow ==
  ASSUME KeepsUp, NEW b \in BlockSizes
  PROVE  \E g \in CommonDivisors(b) :
           /\ g \in 1 .. b /\ b \in 1 .. ModelInputSize
           /\ LongestRun(b) \in Nat
           /\ CalculateLatency(b) \in Nat
           /\ ModelInputSize + b - g + LongestRun(b) <= CalculateLatency(b)
           /\ CalculateLatency(b) < ModelInputSize + MaxModelCalcSize
           /\ RunTime <= LongestRun(b) + b
           /\ MaxModelCalcSize <= ModelInputSize
           /\ 2 * ModelInputSize + MaxModelCalcSize + b <= Capacity
<1>1. PICK g \in CommonDivisors(b) :
        ModelInputSize + b - g + LongestRun(b) <= CalculateLatency(b)
  BY DEF KeepsUp
<1>2. g \in 1 .. b /\ b \in 1 .. ModelInputSize
  BY DivisorsDivide
<1>3. CalculateLatency(b) \in Nat /\ CalculateLatency(b) < GetLatency
  BY LatencyInNat, LatencyBounds
<1> DEFINE q == (RunTime - 1) \div b
<1>4. /\ q \in Nat /\ b \in Nat \ {0}
      /\ RunTime - 1 = q * b + ((RunTime - 1) % b) /\ (RunTime - 1) % b \in 0 .. b - 1
  BY <1>2
<1> HIDE DEF q
<1>5. q * b \in Nat
  BY <1>4
<1>6. LongestRun(b) \in Nat /\ RunTime <= LongestRun(b) + b
  BY <1>4, <1>5 DEF LongestRun, q
<1>7. /\ MaxModelCalcSize <= ModelInputSize
      /\ 2 * ModelInputSize + MaxModelCalcSize + b <= Capacity
  BY DEF KeepsUp
<1> QED BY <1>1, <1>2, <1>3, <1>6, <1>7 DEF GetLatency

(***************************************************************************)
(* The input ring holds less than a model input; and once the network      *)
(* serves, no more is on its way to the output ring than the latency.      *)
(***************************************************************************)
LEMMA Lag ==
  ASSUME KeepsUp, TimelyInv
  PROVE  /\ recv < ModelInputSize
         /\ LongestRun(blockSize) < GetLatency
         /\ ~init => recv + toPush <= latencyInSamples
<1>t. TypeOK /\ latencyInSamples = CalculateLatency(blockSize)
  BY DEF TimelyInv, DelayInv
<1>1. PICK g \in CommonDivisors(blockSize) :
        /\ g \in 1 .. blockSize /\ blockSize \in 1 .. ModelInputSize
        /\ LongestRun(blockSize) \in Nat
        /\ CalculateLatency(blockSize) \in Nat
        /\ ModelInputSize + blockSize - g + LongestRun(blockSize)
             <= CalculateLatency(blockSize)
        /\ CalculateLatency(blockSize) < ModelInputSize + MaxModelCalcSize
        /\ RunTime <= LongestRun(blockSize) + blockSize
        /\ MaxModelCalcSize <= ModelInputSize
        /\ 2 * ModelInputSize + MaxModelCalcSize + blockSize <= Capacity
  BY <1>t, KeepsUpNow DEF TypeOK
<1>l. LongestRun(blockSize) < GetLatency
  BY <1>1 DEF GetLatency
<1>2. CASE running /\ Stale
  <2>1. Multiple(initSamples, blockSize)
    BY <1>2 DEF TimelyInv, DelayInv, Stale, WholeBlocks, Multiple
  <2>2. initSamples < RunTime /\ initSamples \in Nat
    BY <1>2, <1>t DEF TimelyInv, Stale, TypeOK
  <2>3. initSamples <= LongestRun(blockSize)
    BY <1>t, <2>1, <2>2, LongestIsLongest DEF TypeOK
  <2>4. recv = initSamples /\ init
    BY <1>2 DEF Stale
  <2>5. recv < ModelInputSize
    BY <1>1, <2>2, <2>3, <2>4
  <2> QED BY <1>l, <2>4, <2>5, Zenon
<1>3. CASE running /\ ~Stale
  <2>1. age <= LongestRun(blockSize)
    BY <1>3, <1>t, LongestIsLongest DEF TimelyInv, Fresh, TypeOK
  <2>2. recv <= age + blockSize - g
    BY <1>3 DEF TimelyInv, Fresh
  <2> QED BY <1>1, <1>3, <1>t, <1>l, <2>1, <2>2 DEF TypeOK
<1>4. CASE ~running
  <2>1. recv < ModelInputSize /\ recv \in Nat /\ toPush = 0
    BY <1>4, <1>t DEF TimelyInv, DelayInv, TypeOK
  <2>2. recv + toPush <= CalculateLatency(blockSize)
    BY <1>1, <2>1
  <2>3. recv + toPush <= latencyInSamples
    BY <1>t, <2>2
  <2> QED BY <1>l, <2>1, <2>3, Zenon
<1> QED BY <1>2, <1>3, <1>4

LEMMA TimelyInit == Init => TimelyInv
<1> SUFFICES ASSUME Init PROVE TimelyInv
  OBVIOUS
<1>1. DelayInv
  BY DelayInit
<1>2. blockSize \in BlockSizes /\ recv = 0
  BY DEF Init
<1>3. \A g \in CommonDivisors(blockSize) : Multiple(recv, g)
  BY <1>2, DivisorsDivide, MultipleOfItself
<1> QED BY <1>1, <1>2, <1>3 DEF TimelyInv, Init

LEMMA SendAudioTimely ==
  ASSUME KeepsUp, TimelyInv, SendAudio, DelayInv'
  PROVE  TimelyInv'
<1>t. TypeOK /\ TypeOK' /\ sending = 0
  BY DEF TimelyInv, DelayInv, SendAudio
<1>b. blockSize \in BlockSizes /\ blockSize \in 1 .. ModelInputSize
  BY <1>t DEF TypeOK
<1>k. 2 * ModelInputSize + MaxModelCalcSize + blockSize <= Capacity
  BY <1>b DEF KeepsUp
<1>1. recv < ModelInputSize /\ recv \in Nat
  BY <1>t, Lag DEF TypeOK
<1>2. Pushed(recv, blockSize) = recv + blockSize /\ Forgotten(recv, blockSize) = 0
  BY <1>1, <1>b, <1>k DEF Pushed, Forgotten
<1>3. blockSize' = blockSize /\ inferenceCounter' = 0 /\ lost' = 0
  BY <1>2 DEF SendAudio, TimelyInv
<1>4. \A g \in CommonDivisors(blockSize) : Multiple(recv', g)
  <2> SUFFICES ASSUME NEW g \in CommonDivisors(blockSize) PROVE Multiple(recv', g)
    OBVIOUS
  <2>1. /\ g \in Nat \ {0}
        /\ Multiple(blockSize, g) /\ Multiple(ModelInputSize, g) /\ Multiple(recv, g)
    BY <1>b, DivisorsDivide DEF TimelyInv
  <2>2. Multiple(recv + blockSize, g)
    BY <1>1, <1>b, <2>1, MultipleSum
  <2>3. Multiple(recv + blockSize - ModelInputSize, g)
    BY <1>1, <1>b, <2>1, <2>2, MultipleSum
  <2>4. recv' = recv + blockSize \/ recv' = recv + blockSize - ModelInputSize
    BY <1>1, <1>2, <1>b DEF SendAudio
  <2> QED BY <2>2, <2>3, <2>4
<1>5. CASE running
  <2>1. /\ running' /\ recv' = recv + blockSize /\ age' = age + blockSize
        /\ age' < RunTime /\ age \in Nat
    BY <1>2, <1>5, <1>t DEF SendAudio, TypeOK
  <2>2. ASSUME Stale PROVE Stale'
    <3>1. init /\ initSamples \in Nat /\ initSamples <= age /\ recv = initSamples
      BY <1>t, <2>2 DEF Stale, TypeOK
    <3>2. Multiple(initSamples, blockSize)
      BY <3>1 DEF TimelyInv, DelayInv, WholeBlocks, Multiple
    <3>3. Multiple(initSamples + blockSize, blockSize)
      BY <1>b, <3>1, <3>2, MultipleOfItself, MultipleSum
    <3>4. initSamples + blockSize < RunTime /\ initSamples + blockSize \in Nat
      BY <1>b, <2>1, <3>1
    <3>5. initSamples + blockSize <= LongestRun(blockSize)
      BY <1>b, <3>3, <3>4, LongestIsLongest
    <3>6. initSamples' = initSamples + blockSize /\ init' = (initSamples' < GetLatency)
      BY <3>1 DEF SendAudio
    <3>7. initSamples' < GetLatency
      <4>1. LongestRun(blockSize) < GetLatency
        BY Lag
      <4>2. LongestRun(blockSize) \in Nat /\ GetLatency \in Nat
        BY <1>b, KeepsUpNow DEF GetLatency
      <4> QED BY <3>4, <3>5, <3>6, <4>1, <4>2
    <3>8. init'
      BY <3>6, <3>7, Zenon
    <3> QED BY <1>b, <2>1, <3>1, <3>6, <3>8 DEF Stale
  <2>3. ASSUME Fresh PROVE Fresh'
    <3>1. Multiple(age + blockSize, blockSize)
      BY <1>b, <2>1, <2>3, MultipleOfItself, MultipleSum DEF Fresh
    <3>2. ASSUME NEW g \in CommonDivisors(blockSize)
          PROVE  recv + blockSize <= age + blockSize + blockSize - g
      <4>1. recv <= age + blockSize - g /\ g \in 1 .. blockSize
        BY <1>b, <2>3, DivisorsDivide DEF Fresh
      <4> QED BY <1>1, <1>b, <2>1, <4>1
    <3> QED BY <1>3, <2>1, <3>1, <3>2 DEF Fresh
  <2>4. Stale' \/ Fresh'
    BY <1>5, <2>2, <2>3 DEF TimelyInv
  <2> QED BY <1>3, <1>4, <2>1, <2>4 DEF TimelyInv
<1>6. CASE ~running /\ recv + blockSize >= ModelInputSize
  <2>1. running' /\ recv' = recv + blockSize - ModelInputSize /\ age' = 0
    <3>1. ~running /\ Pushed(recv, blockSize) >= ModelInputSize
      BY <1>2, <1>6
    <3>2. running'
      BY <3>1, Zenon DEF SendAudio
    <3>3. recv' = Pushed(recv, blockSize) - ModelInputSize /\ age' = 0
      BY <3>1, Zenon DEF SendAudio
    <3>4. recv' = recv + blockSize - ModelInputSize
      BY <1>1, <1>2, <1>b, <3>3
    <3> QED BY <3>2, <3>3, <3>4, Zenon
  <2>2. ASSUME NEW g \in CommonDivisors(blockSize) PROVE recv' <= 0 + blockSize - g
    <3>1. /\ g \in Nat \ {0}
          /\ Multiple(ModelInputSize, g) /\ Multiple(recv, g)
      BY <1>b, DivisorsDivide DEF TimelyInv
    <3>2. recv + g <= ModelInputSize
      BY <1>1, <3>1, MultipleGap
    <3> QED BY <1>1, <1>b, <2>1, <3>1, <3>2
  <2>3. Fresh'
    BY <1>3, <1>b, <2>1, <2>2, MultipleOfItself DEF Fresh
  <2> QED BY <1>3, <1>4, <2>1, <2>3 DEF TimelyInv
<1>7. CASE ~running /\ recv + blockSize < ModelInputSize
  <2>1. ~running' /\ recv' = recv + blockSize
    BY <1>1, <1>2, <1>7, <1>b, <1>t DEF SendAudio, TypeOK
  <2> QED BY <1>3, <1>4, <1>7, <2>1 DEF TimelyInv
<1> QED BY <1>1, <1>5, <1>6, <1>7, <1>b

(***************************************************************************)
(* What processOutput is about to serve is in the output ring.             *)
(***************************************************************************)
OutputReady == ~init => out >= sending

LEMMA OutputIsReady ==
  ASSUME KeepsUp, TimelyInv
  PROVE  OutputReady
<1>1. TypeOK /\ blockSize * inferenceCounter = 0
  BY DEF TimelyInv, DelayInv, TypeOK
<1>2. ~init => Delay = latencyInSamples + sending /\ recv + toPush <= latencyInSamples
  BY <1>1, Lag DEF TimelyInv, DelayInv, DelayLaw, TypeOK
<1> QED BY <1>1, <1>2 DEF OutputReady, Delay, TimelyInv, TypeOK

LEMMA TimelyNext ==
  ASSUME KeepsUp
  PROVE  TimelyInv /\ [Next]_vars => TimelyInv'
<1> SUFFICES ASSUME TimelyInv, [Next]_vars PROVE TimelyInv'
  OBVIOUS
<1>t. DelayInv' /\ TypeOK /\ TypeOK'
  BY DelayNext DEF TimelyInv, DelayInv
<1>1. CASE SendAudio
  BY <1>1, <1>t, SendAudioTimely
<1>2. CASE ProcessOutput
  <2>1. ~init => out >= sending
    BY OutputIsReady DEF OutputReady
  <2>2. inferenceCounter' = 0
    BY <1>2, <2>1, <1>t DEF ProcessOutput, PassThrough, Serve, Miss, TimelyInv, TypeOK
  <2> QED BY <1>2, <1>t, <2>2 DEF ProcessOutput, TimelyInv, Stale, Fresh
<1>3. CASE PushProcessed
  <2>1. out + 1 < Capacity
    <3>1. /\ 2 * ModelInputSize + MaxModelCalcSize + blockSize <= Capacity
          /\ latencyInSamples < GetLatency
      BY <1>t, LatencyBounds DEF KeepsUp, TypeOK, TimelyInv, DelayInv
    <3>2. Delay < GetLatency + blockSize
      <4>1. blockSize * inferenceCounter = 0 /\ GetLatency \in Nat
        BY <1>t DEF TimelyInv, TypeOK, GetLatency
      <4> QED BY <1>t, <3>1, <4>1 DEF TimelyInv, DelayInv, DelayLaw, TypeOK
    <3> QED BY <1>3, <1>t, <3>1, <3>2 DEF PushProcessed, Delay, TypeOK, TimelyInv, GetLatency
  <2>2. Forgotten(out, 1) = 0
    BY <1>t, <2>1 DEF Forgotten, TypeOK
  <2>3. lost' = 0
    BY <1>3, <2>2 DEF PushProcessed, TimelyInv
  <2> QED BY <1>3, <1>t, <2>3 DEF PushProcessed, TimelyInv, Stale, Fresh
<1>4. CASE ThreadExits
  <2>1. recv < ModelInputSize
    BY Lag
  <2> QED BY <1>4, <1>t, <2>1 DEF ThreadExits, TimelyInv
<1>5. CASE Restart /\ blockSize' \in BlockSizes
  <2>1. \A g \in CommonDivisors(blockSize') : Multiple(recv', g)
    BY <1>5, DivisorsDivide, MultipleOfItself DEF Restart
  <2>2. running' => age' < RunTime /\ Stale'
    BY <1>5, <1>t DEF Restart, TimelyInv, Stale, TypeOK
  <2> QED BY <1>5, <1>t, <2>1, <2>2 DEF Restart, TimelyInv
<1>6. ASSUME NEW b \in BlockSizes, Prepare(b) PROVE TimelyInv'
  BY <1>5, <1>6 DEF Prepare
<1>7. CASE ReloadModel
  BY <1>5, <1>7, <1>t DEF ReloadModel, TypeOK
<1>8. CASE UNCHANGED vars
  BY <1>8, <1>t DEF vars, TimelyInv, Stale, Fresh
<1> QED BY <1>1, <1>2, <1>3, <1>4, <1>6, <1>7, <1>8 DEF Next

LEMMA Timely == ASSUME KeepsUp PROVE Spec => []TimelyInv
BY TimelyInit, TimelyNext, PTL DEF Spec

(***************************************************************************)
(* If what comes in during an inference and its model input are not more   *)
(* than the latency, no block is ever missed, whatever block sizes the     *)
(* host prepares with, dividing the model input or not, prepares and loads *)
(* included.  Blocks of a power of two make this an inference of the whole *)
(* time granted (sendAudio, processOutput).                                *)
(***************************************************************************)
THEOREM NoMisses ==
  ASSUME KeepsUp
  PROVE  Spec => []NeverMisses
<1>1. TimelyInv => NeverMisses
  BY DEF TimelyInv, NeverMisses
<1> QED BY <1>1, Timely, PTL

(***************************************************************************)
(* Under the same condition neither ring ever overruns: prepare() has      *)
(* allocated enough memory.                                                *)
(***************************************************************************)
THEOREM RingsSuffice ==
  ASSUME KeepsUp
  PROVE  Spec => []NothingLost
<1>1. TimelyInv => NothingLost
  BY DEF TimelyInv, NothingLost
<1> QED BY <1>1, Timely, PTL

(***************************************************************************)
(* Under the same condition processOutput finds its block in the output    *)
(* ring before it counts the samples there, so the ring is never empty     *)
(* when it does, which excludes misread of module RingBufferThreads.       *)
(***************************************************************************)
THEOREM OutputInTime ==
  ASSUME KeepsUp
  PROVE  Spec => []OutputReady
<1>1. TimelyInv => OutputReady
  BY OutputIsReady
<1> QED BY <1>1, Timely, PTL

(***************************************************************************)
(* A block counted at once is pushSample() called once per sample: by      *)
(* induction from none, as many samples stay in the ring and as many are   *)
(* forgotten as SampleQueue!Push, one at a time, would keep and forget.    *)
(***************************************************************************)
THEOREM PushedOneByOne ==
  ASSUME NEW k \in 0 .. Capacity - 1, NEW n \in 0 .. Capacity - 1
  PROVE  /\ Pushed(k, 0) = k /\ Forgotten(k, 0) = 0
         /\ Pushed(k, 1) = IF k + 1 < Capacity THEN k + 1 ELSE 0
         /\ Pushed(k, n + 1) = Pushed(Pushed(k, n), 1)
         /\ Forgotten(k, n + 1) = Forgotten(k, n) + Forgotten(Pushed(k, n), 1)
BY DEF Pushed, Forgotten
=============================================================================

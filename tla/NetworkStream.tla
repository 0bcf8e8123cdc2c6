--------------------------- MODULE NetworkStream ---------------------------
(***************************************************************************)
(* One neural network of the plugin as a stream of samples: OnnxProcessor  *)
(* and its InferenceThread (source/dsp/onnx).                              *)
(*                                                                         *)
(* The audio thread sends every block of the host into a ring; as soon as  *)
(* ModelInputSize samples are there and the worker is idle, it hands them  *)
(* to the worker thread, which runs the model and pushes ModelInputSize    *)
(* samples into a second ring.  The same audio callback then serves a      *)
(* block from that second ring, MaxModelCalcSize samples being allowed for *)
(* the inference.  What the samples are does not matter here, only how     *)
(* many of them are where, so the two rings (module RingBuffer) are the    *)
(* numbers recv and out, and an overrun sets such a number to zero.        *)
(*                                                                         *)
(* A block has always the maximum length the host has prepared with: the   *)
(* buffer that processBlock of the plugin mixes the host's channels into   *)
(* keeps that length, and a shorter block only overwrites its beginning.   *)
(*                                                                         *)
(* Time is the audio clock: age counts the samples the network was sent    *)
(* since the worker started, and no inference lasts as long as RunTime of  *)
(* them.  (A host that sends shorter blocks makes RunTime longer.)         *)
(***************************************************************************)
EXTENDS Integers

CONSTANTS
    ModelInputSize,    \* samples per inference (16384)
    MaxModelCalcSize,  \* samples of delay granted to an inference (4096)
    Capacity,          \* slots of either ring: one second of samples
    BlockSizes,        \* the maximum block sizes the host prepares with
    RunTime,           \* an inference ends less than RunTime samples later
    MaxLost            \* bound: the host stops once more than this is lost

ASSUME SizesAssumption ==
    /\ ModelInputSize \in Nat \ {0}
    /\ MaxModelCalcSize \in Nat
    /\ Capacity \in Nat \ {0}
    /\ BlockSizes \subseteq Nat \ {0}
    /\ \A b \in BlockSizes : b < Capacity /\ b <= ModelInputSize
    /\ RunTime \in Nat \ {0}
    /\ MaxLost \in Nat

VARIABLES
    blockSize,         \* spec.maximumBlockSize
    latencyInSamples,  \* the latency reported to the host
    recv,              \* unread samples of InferenceThread::receiveRingBuffer
    init,              \* the network still only collects samples
    initSamples,       \* InferenceThread::init_samples
    running,           \* isThreadRunning()
    toPush,            \* samples of the inference not yet in the output ring
    age,               \* audio time since the worker started
    out,               \* unread samples of OnnxProcessor::receiveRingBuffer
    inferenceCounter,  \* blocks that were due and could not be served
    sending,           \* length of the block between sendAudio and
                       \* processOutput, 0 between two callbacks
    stray,             \* history: samples of an inference that was under way
                       \* at the last prepare
    lost               \* history: samples an overrun has forgotten since then

vars == <<blockSize, latencyInSamples, recv, init, initSamples, running, toPush,
          age, out, inferenceCounter, sending, stray, lost>>

TypeOK == /\ blockSize \in BlockSizes
          /\ latencyInSamples \in Nat
          /\ recv \in 0 .. Capacity - 1
          /\ init \in BOOLEAN
          /\ initSamples \in Nat
          /\ running \in BOOLEAN
          /\ toPush \in 0 .. ModelInputSize
          /\ age \in Nat
          /\ out \in 0 .. Capacity - 1
          /\ inferenceCounter \in Nat
          /\ sending \in 0 .. blockSize
          /\ stray \in 0 .. ModelInputSize
          /\ lost \in Nat

-----------------------------------------------------------------------------
\* Mutant: no time is granted to an inference.
GetLatencyUngranted == ModelInputSize

(***************************************************************************)
(* InferenceThread::getLatency() and OnnxProcessor::calculateLatency().    *)
(* The code divides in float; the quotient of two such integers is never   *)
(* rounded to a whole number unless it is one.                             *)
(***************************************************************************)
GetLatency == ModelInputSize + MaxModelCalcSize

CalculateLatency(b) ==
    IF GetLatency % b = 0
    THEN (GetLatency \div b) * b - b
    ELSE (GetLatency \div b + 1) * b - b

(***************************************************************************)
(* A ring that holds k samples after the push of n more, and how many are  *)
(* forgotten: the push that would fill the last slot empties the ring.     *)
(***************************************************************************)
Pushed(k, n)    == IF k + n >= Capacity THEN k + n - Capacity ELSE k + n
Forgotten(k, n) == IF k + n >= Capacity THEN Capacity ELSE 0

Init == /\ blockSize \in BlockSizes
        /\ latencyInSamples = CalculateLatency(blockSize)
        /\ recv = 0 /\ out = 0
        /\ init = TRUE /\ initSamples = 0
        /\ running = FALSE /\ toPush = 0 /\ age = 0
        /\ inferenceCounter = 0
        /\ sending = 0
        /\ stray = 0 /\ lost = 0

-----------------------------------------------------------------------------
(***************************************************************************)
(* The audio thread.  OnnxProcessor::processBlock is SendAudio, then one   *)
(* of the three outcomes of ProcessOutput; the worker may run in between.  *)
(***************************************************************************)

(***************************************************************************)
(* InferenceThread::sendAudio of a block.  The first conjunct says only    *)
(* that the host's callback comes no earlier than audio time allows: an    *)
(* inference of RunTime samples is over by then.                           *)
(***************************************************************************)
SendAudio ==
    LET kept   == Pushed(recv, blockSize)
        starts == ~running /\ kept >= ModelInputSize
    IN /\ running => age + blockSize < RunTime
       /\ sending = 0
       /\ lost <= MaxLost
       /\ sending' = blockSize
       /\ recv' = IF starts THEN kept - ModelInputSize ELSE kept
       /\ lost' = lost + Forgotten(recv, blockSize)
       /\ running' = (running \/ starts)
       /\ toPush' = IF starts THEN ModelInputSize ELSE toPush
       /\ age' = IF running THEN age + blockSize ELSE 0
       /\ initSamples' = IF init THEN initSamples + blockSize ELSE initSamples
       /\ init' = (init /\ initSamples' < GetLatency)
       /\ UNCHANGED <<blockSize, latencyInSamples, out, inferenceCounter, stray>>

(***************************************************************************)
(* OnnxProcessor::processOutput while the network still collects: the      *)
(* block goes on as it came.                                               *)
(***************************************************************************)
PassThrough == /\ init
               /\ UNCHANGED <<out, inferenceCounter>>

\* Mutants: a block is skipped although none is owed; or none ever is.
ServeSkipping ==
    LET skips == out >= 2 * sending
    IN /\ ~init
       /\ out >= sending
       /\ out' = IF skips THEN out - 2 * sending ELSE out - sending
       /\ inferenceCounter' = IF skips THEN inferenceCounter - 1
                                       ELSE inferenceCounter
ServeOnly == /\ ~init
             /\ out >= sending
             /\ out' = out - sending
             /\ UNCHANGED inferenceCounter

(***************************************************************************)
(* The block is served; if blocks were missed before and two are there,    *)
(* one is skipped, so that the delay shrinks by one block again.           *)
(***************************************************************************)
Serve == LET skips == inferenceCounter > 0 /\ out >= 2 * sending
         IN /\ ~init
            /\ out >= sending
            /\ out' = IF skips THEN out - 2 * sending ELSE out - sending
            /\ inferenceCounter' = IF skips THEN inferenceCounter - 1
                                            ELSE inferenceCounter

\* Mutant: a missed block is not counted.
MissUncounted == /\ ~init
                 /\ out < sending
                 /\ UNCHANGED <<inferenceCounter, out>>

(***************************************************************************)
(* The block is not there in time: silence, and one more block owed.       *)
(***************************************************************************)
Miss == /\ ~init
        /\ out < sending
        /\ inferenceCounter' = inferenceCounter + 1
        /\ UNCHANGED out

ProcessOutput ==
    /\ sending > 0
    /\ PassThrough \/ Serve \/ Miss
    /\ sending' = 0
    /\ UNCHANGED <<blockSize, latencyInSamples, recv, init, initSamples, running,
                   toPush, age, stray, lost>>

(***************************************************************************)
(* The worker: InferenceThread::run hands its samples to the lambda of     *)
(* OnnxProcessor's constructor, which pushes them one by one, and ends.    *)
(* A model that throws is caught and the same number of samples pushed.    *)
(***************************************************************************)
PushProcessed ==
    /\ running /\ toPush > 0
    /\ toPush' = toPush - 1
    /\ out' = Pushed(out, 1)
    /\ lost' = lost + Forgotten(out, 1)
    /\ UNCHANGED <<blockSize, latencyInSamples, recv, init, initSamples, running,
                   age, inferenceCounter, sending, stray>>

ThreadExits ==
    /\ running /\ toPush = 0
    /\ running' = FALSE
    /\ age' = 0
    /\ UNCHANGED <<blockSize, latencyInSamples, recv, init, initSamples, toPush,
                   out, inferenceCounter, sending, stray, lost>>

\* Mutant: the output ring keeps its samples.
RestartKeepingOutput == /\ sending = 0
                        /\ recv' = 0 /\ out' = out
                        /\ init' = TRUE /\ initSamples' = 0
                        /\ inferenceCounter' = 0
                        /\ stray' = toPush /\ lost' = 0
                        /\ UNCHANGED <<running, toPush, age, sending>>

(***************************************************************************)
(* The rest of both classes: rings emptied, init restarted, counter reset. *)
(***************************************************************************)
Restart == /\ sending = 0
           /\ recv' = 0 /\ out' = 0
           /\ init' = TRUE /\ initSamples' = 0
           /\ inferenceCounter' = 0
           /\ stray' = toPush /\ lost' = 0
           /\ UNCHANGED <<running, toPush, age, sending>>

(***************************************************************************)
(* OnnxProcessor::prepare, called by the host between callbacks.  Nothing  *)
(* stops the worker: what it still has to push goes to the emptied ring.   *)
(***************************************************************************)
Prepare(b) == /\ Restart
              /\ blockSize' = b
              /\ latencyInSamples' = CalculateLatency(b)

(***************************************************************************)
(* A load of another model that returns (module ModelLoading has its       *)
(* steps): it found the worker idle, and the audio thread was suspended.   *)
(***************************************************************************)
ReloadModel == /\ ~running
               /\ Restart
               /\ UNCHANGED <<blockSize, latencyInSamples>>

Next == \/ SendAudio
        \/ ProcessOutput
        \/ PushProcessed
        \/ ThreadExits
        \/ \E b \in BlockSizes : Prepare(b)
        \/ ReloadModel

(***************************************************************************)
(* The host keeps calling the plugin, a callback ends, and the worker gets *)
(* the processor; nobody has to prepare or to load.                        *)
(***************************************************************************)
Fairness == /\ WF_vars(SendAudio)
            /\ WF_vars(ProcessOutput)
            /\ WF_vars(PushProcessed)
            /\ WF_vars(ThreadExits)

Spec == Init /\ [][Next]_vars /\ Fairness

-----------------------------------------------------------------------------
(***************************************************************************)
(* How far the output lags behind the input: the samples sent and neither  *)
(* served nor skipped yet, apart from the stray ones of a former prepare.  *)
(***************************************************************************)
Delay == recv + toPush + out + lost - stray

(***************************************************************************)
(* The network lags behind by exactly the latency the plugin reports, plus *)
(* one block per missed block that was not skipped yet: inferenceCounter   *)
(* is a true account of the delay, through misses, skips, overruns,        *)
(* prepares and loads in any order.                                        *)
(* (calculateLatency, sendAudio's init_samples and processOutput's         *)
(* inferenceCounter, three separate pieces of code)                        *)
(***************************************************************************)
DelayLaw ==
    IF init THEN Delay = initSamples
            ELSE Delay = latencyInSamples + blockSize * inferenceCounter + sending

(***************************************************************************)
(* To its host the network is a delay line as long as the latency reported *)
(* to it: it fills in whole blocks, from then on never owes less than the  *)
(* latency, and one block more for each block missed until one is skipped; *)
(* the sends, pushes and ends of the worker in between are not seen.       *)
(* (OnnxProcessor::processBlock and prepare, InferenceThread::sendAudio)   *)
(***************************************************************************)
Line == INSTANCE DelayLine WITH block   <- blockSize,
                                latency <- latencyInSamples,
                                owed    <- Delay - sending,
                                late    <- inferenceCounter

ImplementsDelayLine == Line!Spec

(***************************************************************************)
(* No block is ever missed: processOutput never emits silence.  Holds only *)
(* if the inferences keep up (see KeepsUp and the runs).                   *)
(***************************************************************************)
NeverMisses == inferenceCounter = 0

(***************************************************************************)
(* The rings are large enough: neither of them ever overruns               *)
(* (prepare(), "allocate enough memory").                                  *)
(***************************************************************************)
NothingLost == lost = 0

(***************************************************************************)
(* A slow spell is made good: if from some time on no inference takes more *)
(* than the time granted to it, and no ring has overrun, skipping brings   *)
(* the delay back to the reported latency.                                 *)
(***************************************************************************)
Recovers == []NothingLost /\ <>[](running => age < MaxModelCalcSize)
              => ((inferenceCounter > 0) ~> (inferenceCounter = 0))

(***************************************************************************)
(* When a host's blocks of b samples are served in time.  An inference     *)
(* starts with the block that completes a model input, which may exceed it *)
(* by up to b - g samples if g divides both; it may see LongestRun(b)      *)
(* samples more come in; and with the model input itself these must not be *)
(* more than the latency.  The rings hold two model inputs (one of them    *)
(* may be stray), the granted time and a block.                            *)
(***************************************************************************)
CommonDivisors(b) == {g \in 1 .. b : b % g = 0 /\ ModelInputSize % g = 0}

LongestRun(b) == ((RunTime - 1) \div b) * b

KeepsUp ==
    /\ MaxModelCalcSize <= ModelInputSize
    /\ \A b \in BlockSizes :
          /\ \E g \in CommonDivisors(b) :
                ModelInputSize + b - g + LongestRun(b) <= CalculateLatency(b)
          /\ 2 * ModelInputSize + MaxModelCalcSize + b <= Capacity
=============================================================================

------------------------- MODULE ModelLoadingProofs -------------------------
(***************************************************************************)
(* What keeps a load, the audio callback and the workers apart, for every  *)
(* number of networks.                                                     *)
(***************************************************************************)
EXTENDS ModelLoading, TLAPS

USE LoadingAssumption

-----------------------------------------------------------------------------
LEMMA TypeInit == Init => TypeOK
<1> SUFFICES ASSUME Init PROVE TypeOK
  OBVIOUS
<1>1. /\ 1 \in Networks /\ InitBlocks \in 0 .. InitBlocks /\ 0 \in 0 .. NumNetworks
      /\ 0 \in 0 .. InitBlocks - 1
  BY DEF Networks
<1>2. load \in [Threads -> [at : Steps, net : Networks]]
  BY <1>1 DEF Init, Steps
<1> QED BY <1>1, <1>2 DEF Init, TypeOK

LEMMA TypeNext == TypeOK /\ [Next]_vars => TypeOK'
<1> SUFFICES ASSUME TypeOK, [Next]_vars PROVE TypeOK'
  OBVIOUS
<1>g. ASSUME NEW t \in Threads, NEW s \in Steps, Goto(t, s)
      PROVE  load' \in [Threads -> [at : Steps, net : Networks]]
  BY <1>g DEF TypeOK, Goto
<1>n. \A t \in Threads : load[t].net \in Networks
  BY DEF TypeOK
<1>1. CASE BeginCallback
  <2>1. \A t \in Threads : load[t].at = "reset" => window[t] + 1 \in 0 .. InitBlocks - 1
    BY <1>1 DEF BeginCallback, Prompt, TypeOK
  <2>2. window' \in [Threads -> 0 .. InitBlocks - 1]
    BY <1>1, <2>1 DEF BeginCallback, TypeOK
  <2> QED BY <1>1, <2>2 DEF BeginCallback, TypeOK
<1>2. CASE Callback
  <2>1. block > 0 => block \in Networks
    BY DEF TypeOK, Networks
  <2>2. CASE SendAudio
    BY <2>1, <2>2 DEF SendAudio, OneLess, TypeOK
  <2>3. CASE StartWorker
    BY <2>1, <2>3 DEF StartWorker, TypeOK
  <2>4. CASE ProcessOutput
    <3>1. block' \in 0 .. NumNetworks
      BY <2>4 DEF ProcessOutput, TypeOK
    <3>2. out' \in [Networks -> SUBSET {"current", "former"}]
      BY <2>4 DEF ProcessOutput, TypeOK
    <3> QED BY <2>4, <3>1, <3>2 DEF ProcessOutput, TypeOK
  <2> QED BY <1>2, <2>2, <2>3, <2>4 DEF Callback
<1>3. ASSUME NEW n \in Networks, Infer(n) \/ PushAndExit(n) PROVE TypeOK'
  BY <1>3 DEF Infer, PushAndExit, TypeOK
<1>4. ASSUME NEW l \in loads, Request(l[1], l[2]) PROVE TypeOK'
  <2>1. l[1] \in Threads /\ l[2] \in Networks
    BY DEF TypeOK, Threads, Networks
  <2>2. load' \in [Threads -> [at : Steps, net : Networks]]
    BY <1>4, <2>1 DEF Request, TypeOK, Steps
  <2> QED BY <1>4, <2>2 DEF Request, TypeOK
<1>5. ASSUME NEW t \in Threads, Lock(t) PROVE TypeOK'
  <2>1. load' \in [Threads -> [at : Steps, net : Networks]]
    BY <1>5, <1>g DEF Lock, Suspend, Unsuspend, Steps
  <2> QED BY <1>5, <2>1 DEF Lock, Suspend, Unsuspend, TypeOK
<1>6. ASSUME NEW t \in Threads, Load(t) PROVE TypeOK'
  <2>1. load' \in [Threads -> [at : Steps, net : Networks]]
    <3>1. \A s \in Steps : Goto(t, s) => load' \in [Threads -> [at : Steps, net : Networks]]
      BY <1>g
    <3> QED BY <1>6, <3>1
        DEF Load, RaiseFlag, CheckThread, StopThread, SpinEnds, CreateSession,
            CreateFails, PrepareThread, ResetOutput, LowerFlag, Steps
  <2>2. loading' \in [Networks -> BOOLEAN]
    BY <1>6, <1>n
       DEF Load, RaiseFlag, CheckThread, StopThread, SpinEnds, CreateSession,
           CreateFails, PrepareThread, ResetOutput, LowerFlag, TypeOK
  <2>3. worker' \in [Networks -> {"none", "infer", "push"}]
    BY <1>6, <1>n
       DEF Load, RaiseFlag, CheckThread, StopThread, SpinEnds, CreateSession,
           CreateFails, PrepareThread, ResetOutput, LowerFlag, TypeOK
  <2>4. left' \in [Networks -> 0 .. InitBlocks]
    BY <1>6, <1>n
       DEF Load, RaiseFlag, CheckThread, StopThread, SpinEnds, CreateSession,
           CreateFails, PrepareThread, ResetOutput, LowerFlag, TypeOK
  <2>5. out' \in [Networks -> SUBSET {"current", "former"}]
    BY <1>6, <1>n
       DEF Load, RaiseFlag, CheckThread, StopThread, SpinEnds, CreateSession,
           CreateFails, PrepareThread, ResetOutput, LowerFlag, TypeOK
  <2>6. window' \in [Threads -> 0 .. InitBlocks - 1]
    <3>1. 0 \in 0 .. InitBlocks - 1
      OBVIOUS
    <3> QED BY <1>6, <3>1
        DEF Load, RaiseFlag, CheckThread, StopThread, SpinEnds, CreateSession,
            CreateFails, PrepareThread, ResetOutput, LowerFlag, TypeOK
  <2> QED BY <1>6, <2>1, <2>2, <2>3, <2>4, <2>5, <2>6
       DEF Load, RaiseFlag, CheckThread, StopThread, SpinEnds, CreateSession,
           CreateFails, PrepareThread, ResetOutput, LowerFlag, TypeOK
<1>7. CASE PrepareToPlay
  BY <1>7 DEF PrepareToPlay, TypeOK
<1>8. CASE UNCHANGED vars
  BY <1>8 DEF vars, TypeOK
<1> QED BY <1>1, <1>2, <1>3, <1>4, <1>5, <1>6, <1>7, <1>8 DEF Next

(***************************************************************************)
(* Every variable of the loading machinery keeps its type, for any number  *)
(* of networks and any use of the plugin (ModelLoading).                   *)
(***************************************************************************)
THEOREM TypeCorrect == Spec => []TypeOK
BY TypeInit, TypeNext, PTL DEF Spec

(***************************************************************************)
(* Who loads what does not change.                                         *)
(***************************************************************************)
LEMMA LoadsFixed == [Next]_vars => loads' = loads
<1> SUFFICES ASSUME [Next]_vars PROVE loads' = loads
  OBVIOUS
<1>1. ASSUME NEW t \in Threads, Lock(t) \/ Load(t) PROVE loads' = loads
  BY <1>1 DEF Lock, Load, Suspend, Unsuspend, RaiseFlag, CheckThread, StopThread, SpinEnds,
              CreateSession, CreateFails, PrepareThread, ResetOutput, LowerFlag
<1>2. ASSUME NEW l \in loads, Request(l[1], l[2]) PROVE loads' = loads
  BY <1>2 DEF Request
<1> QED BY <1>1, <1>2 DEF Next, BeginCallback, Callback, SendAudio, StartWorker,
                          ProcessOutput, Infer, PushAndExit, PrepareToPlay, vars

(***************************************************************************)
(* What a step of a load does to its own thread and to the other one, and  *)
(* what a request does.                                                    *)
(***************************************************************************)
LEMMA LoadStep ==
  ASSUME TypeOK, NEW t \in Threads, Lock(t) \/ Load(t)
  PROVE  /\ \E s \in Steps : Goto(t, s) /\ load'[t] = [at |-> s, net |-> load[t].net]
         /\ \A u \in Threads \ {t} : load'[u] = load[u]
         /\ \A n \in Networks : worker[n] = "none" => worker'[n] = "none"
         /\ block' = block /\ stage' = stage
         /\ Loading(t)
<1>1. PICK s \in Steps : Goto(t, s)
  BY DEF Lock, Load, Suspend, Unsuspend, RaiseFlag, CheckThread, StopThread, SpinEnds,
         CreateSession, CreateFails, PrepareThread, ResetOutput, LowerFlag, Steps
<1>2. /\ load'[t] = [at |-> s, net |-> load[t].net]
      /\ \A u \in Threads \ {t} : load'[u] = load[u]
  BY <1>1 DEF Goto, TypeOK
<1>3. \A n \in Networks : worker[n] = "none" => worker'[n] = "none"
  BY DEF Lock, Load, Suspend, Unsuspend, RaiseFlag, CheckThread, StopThread, SpinEnds,
         CreateSession, CreateFails, PrepareThread, ResetOutput, LowerFlag, TypeOK
<1>4. block' = block /\ stage' = stage /\ Loading(t)
  BY DEF Lock, Load, Suspend, Unsuspend, RaiseFlag, CheckThread, StopThread, SpinEnds,
         CreateSession, CreateFails, PrepareThread, ResetOutput, LowerFlag, Loading
<1> QED BY <1>1, <1>2, <1>3, <1>4

LEMMA RequestStep ==
  ASSUME TypeOK, NEW l \in loads, Request(l[1], l[2])
  PROVE  /\ l[1] \in Threads /\ <<l[1], l[2]>> \in loads
         /\ load'[l[1]].at = "suspend" /\ load'[l[1]].net = l[2]
         /\ \A u \in Threads \ {l[1]} : load'[u] = load[u]
         /\ ~Loading(l[1])
         /\ l[1] = "audio" => block = 0
         /\ suspended' = suspended /\ block' = block /\ stage' = stage
         /\ worker' = worker /\ loading' = loading /\ left' = left
         /\ out' = out /\ window' = window
<1>1. l \in Threads \X Networks
  BY DEF TypeOK, Threads, Networks
<1>2. l[1] \in Threads /\ l[2] \in Networks /\ l = <<l[1], l[2]>>
  BY <1>1
<1> QED BY <1>2 DEF Request, TypeOK

-----------------------------------------------------------------------------
(***************************************************************************)
(* Whoever loads: the audio thread is not in a callback while it loads,    *)
(* and only a callback starts a worker; so, from the check or the stop on, *)
(* the worker of the network it loads is not running.                      *)
(***************************************************************************)
Stopped == {"spin", "create", "prepare", "unsuspend", "reset", "lower"}

AudioInv ==
    /\ TypeOK
    /\ \A t \in Threads : Loading(t) => <<t, load[t].net>> \in loads
    /\ block = 0 => stage = "send"
    /\ Loading("audio") => block = 0
    /\ load["audio"].at # "failed"
    /\ load["audio"].at \in Stopped => worker[load["audio"].net] = "none"

LEMMA AudioInit == Init => AudioInv
BY TypeInit DEF Init, AudioInv, Loading, Stopped, Threads

LEMMA AudioNext == AudioInv /\ [Next]_vars => AudioInv'
<1> SUFFICES ASSUME AudioInv, [Next]_vars PROVE AudioInv'
  OBVIOUS
<1>t. TypeOK /\ TypeOK' /\ loads' = loads
  BY TypeNext, LoadsFixed DEF AudioInv
<1>n. /\ \A t \in Threads : load[t].net \in Networks
      /\ "audio" \in Threads /\ "message" \in Threads
  BY <1>t DEF TypeOK, Threads
<1>1. CASE BeginCallback
  BY <1>1, <1>t DEF BeginCallback, AudioInv, Loading
<1>2. CASE Callback
  <2>1. block > 0 /\ load' = load
    BY <1>2 DEF Callback, SendAudio, StartWorker, ProcessOutput
  <2>2. load["audio"].at = "idle"
    BY <1>t, <2>1 DEF AudioInv, Loading, TypeOK
  <2>3. block' = 0 => stage' = "send"
    BY <1>2, <1>t DEF Callback, SendAudio, StartWorker, ProcessOutput
  <2> QED BY <1>t, <2>1, <2>2, <2>3 DEF AudioInv, Loading, Stopped
<1>3. ASSUME NEW n \in Networks, Infer(n) \/ PushAndExit(n) PROVE AudioInv'
  <2>1. \A m \in Networks : worker[m] = "none" => worker'[m] = "none"
    BY <1>3, <1>t DEF Infer, PushAndExit, TypeOK
  <2>2. load' = load /\ block' = block /\ stage' = stage
    BY <1>3 DEF Infer, PushAndExit
  <2> QED BY <1>t, <1>n, <2>1, <2>2 DEF AudioInv, Loading
<1>4. ASSUME NEW l \in loads, Request(l[1], l[2]) PROVE AudioInv'
  <2>1. /\ load'[l[1]].at = "suspend" /\ load'[l[1]].net = l[2]
        /\ \A u \in Threads \ {l[1]} : load'[u] = load[u]
        /\ ~Loading(l[1]) /\ (l[1] = "audio" => block = 0)
        /\ block' = block /\ stage' = stage /\ worker' = worker
        /\ l[1] \in Threads /\ <<l[1], l[2]>> \in loads
    BY <1>4, <1>t, RequestStep
  <2> QED BY <1>t, <1>n, <2>1 DEF AudioInv, Loading, Stopped
<1>5. ASSUME NEW t \in Threads, Lock(t) \/ Load(t) PROVE AudioInv'
  <2>1. PICK s \in Steps : Goto(t, s) /\ load'[t] = [at |-> s, net |-> load[t].net]
    BY <1>5, <1>t, LoadStep
  <2>2. /\ \A u \in Threads \ {t} : load'[u] = load[u]
        /\ \A n \in Networks : worker[n] = "none" => worker'[n] = "none"
        /\ block' = block /\ stage' = stage /\ Loading(t)
    BY <1>5, <1>t, LoadStep
  <2>3. load'[t].at = s /\ load'[t].net = load[t].net
    BY <2>1
  <2>4. \A u \in Threads : Loading(u)' => <<u, load'[u].net>> \in loads
    BY <2>2, <2>3 DEF AudioInv, Loading
  <2>5. t = "audio" => s # "failed"
    BY <1>5, <2>3 DEF Lock, Load, Suspend, Unsuspend, RaiseFlag, CheckThread, StopThread,
         SpinEnds, CreateSession, CreateFails, PrepareThread, ResetOutput, LowerFlag, Goto,
         TypeOK, AudioInv
  <2>6. ASSUME t = "audio", s \in Stopped PROVE worker'[load[t].net] = "none"
    <3>1. CASE load[t].at \in Stopped
      BY <1>n, <2>2, <2>6, <3>1 DEF AudioInv
    <3>2. CASE load[t].at \notin Stopped
      BY <1>5, <1>t, <1>n, <2>3, <2>6, <3>2
         DEF Lock, Load, Suspend, Unsuspend, RaiseFlag, CheckThread, StopThread, SpinEnds,
             CreateSession, CreateFails, PrepareThread, ResetOutput, LowerFlag, Goto,
             TypeOK, Stopped
    <3> QED BY <3>1, <3>2
  <2>7. CASE t = "audio"
    BY <1>t, <1>n, <2>2, <2>3, <2>4, <2>5, <2>6, <2>7 DEF AudioInv, Loading
  <2>8. CASE t # "audio"
    BY <1>t, <1>n, <2>2, <2>4, <2>8 DEF AudioInv, Loading
  <2> QED BY <2>7, <2>8
<1>6. CASE PrepareToPlay
  BY <1>6, <1>t DEF PrepareToPlay, AudioInv, Loading
<1>7. CASE UNCHANGED vars
  BY <1>7, <1>t DEF vars, AudioInv, Loading
<1> QED BY <1>1, <1>2, <1>3, <1>4, <1>5, <1>6, <1>7 DEF Next

LEMMA AudioHolds == Spec => []AudioInv
BY AudioInit, AudioNext, PTL DEF Spec

-----------------------------------------------------------------------------
(***************************************************************************)
(* If only the message thread loads, the suspension it began lasts until   *)
(* it ends it: the callback stays out meanwhile.  A load that fails leaves *)
(* it to the next one.  The flag is raised before that and lowered after   *)
(* it, so that no callback decides to start the worker once the load has   *)
(* found it idle or stopped it, and none has decided so before.            *)
(***************************************************************************)
Silenced == {"flag", "check", "stop", "spin", "create", "prepare", "unsuspend",
             "failed"}
Flagged == {"check", "stop", "spin", "create", "prepare", "unsuspend", "reset", "lower"}

MessageInv ==
    /\ AudioInv
    /\ load["audio"].at = "idle"
    /\ load["message"].at \in Silenced => suspended /\ block = 0
    /\ load["message"].at \in Flagged => loading[load["message"].net]
    /\ load["message"].at \in Stopped =>
         /\ worker[load["message"].net] = "none"
         /\ ~(block = load["message"].net /\ stage = "start")

LEMMA MessageInit == Init => MessageInv
BY AudioInit DEF Init, MessageInv, Threads, Silenced, Flagged, Stopped

LEMMA MessageNext == MessageOnly /\ MessageInv /\ [Next]_vars => MessageInv'
<1> SUFFICES ASSUME MessageOnly, MessageInv, [Next]_vars PROVE MessageInv'
  OBVIOUS
<1> DEFINE n == load["message"].net
<1>t. TypeOK /\ TypeOK' /\ AudioInv /\ AudioInv'
  BY AudioNext DEF MessageInv, AudioInv
<1>n. n \in Networks /\ n # 0 /\ "message" \in Threads /\ "audio" \in Threads
  BY <1>t DEF TypeOK, Networks, Threads
<1>1. CASE BeginCallback
  BY <1>1, <1>t DEF BeginCallback, MessageInv, AudioInv
<1>2. CASE Callback
  <2>1. load' = load /\ loading' = loading /\ block > 0 /\ suspended' = suspended
    BY <1>2 DEF Callback, SendAudio, StartWorker, ProcessOutput
  <2>2. CASE SendAudio
    BY <1>t, <1>n, <2>1, <2>2 DEF SendAudio, MayStart, MessageInv, Silenced, Stopped, Flagged
  <2>3. CASE StartWorker
    BY <1>t, <1>n, <2>1, <2>3 DEF StartWorker, MessageInv, Silenced, Stopped, TypeOK
  <2>4. CASE ProcessOutput
    BY <1>t, <1>n, <2>1, <2>4 DEF ProcessOutput, MessageInv, Silenced, Stopped
  <2> QED BY <1>2, <2>2, <2>3, <2>4 DEF Callback
<1>3. ASSUME NEW k \in Networks, Infer(k) \/ PushAndExit(k) PROVE MessageInv'
  <2>1. \A m \in Networks : worker[m] = "none" => worker'[m] = "none"
    BY <1>3, <1>t DEF Infer, PushAndExit, TypeOK
  <2>2. UNCHANGED <<load, loading, block, stage, suspended>>
    BY <1>3 DEF Infer, PushAndExit
  <2> QED BY <1>t, <1>n, <2>1, <2>2 DEF MessageInv
<1>4. ASSUME NEW l \in loads, Request(l[1], l[2]) PROVE MessageInv'
  <2>1. l[1] = "message"
    BY DEF MessageOnly
  <2>2. load'["message"].at = "suspend" /\ load'["audio"] = load["audio"]
    BY <1>4, <1>t, <1>n, <2>1, RequestStep
  <2> QED BY <1>t, <2>2 DEF MessageInv, Silenced, Flagged, Stopped
<1>5. ASSUME NEW t \in Threads, Lock(t) \/ Load(t) PROVE MessageInv'
  <2>0. t = "message"
    BY <1>5, <1>t, LoadStep DEF MessageInv, Loading, Threads
  <2>1. PICK s \in Steps : Goto(t, s) /\ load'[t] = [at |-> s, net |-> n]
    BY <1>5, <1>t, <2>0, LoadStep
  <2>2. /\ load'["audio"] = load["audio"]
        /\ \A k \in Networks : worker[k] = "none" => worker'[k] = "none"
        /\ block' = block /\ stage' = stage
    BY <1>5, <1>t, <1>n, <2>0, LoadStep
  <2>3. load'["message"].at = s /\ load'["message"].net = n
    BY <2>0, <2>1
  <2>4. s \in Silenced => suspended' /\ block' = 0
    BY <1>5, <1>t, <1>n, <2>0, <2>3
       DEF Lock, Load, Suspend, Unsuspend, RaiseFlag, CheckThread, StopThread, SpinEnds,
           CreateSession, CreateFails, PrepareThread, ResetOutput, LowerFlag, Goto,
           MessageInv, Silenced, TypeOK
  <2>5. s \in Flagged => loading'[n]
    BY <1>5, <1>t, <1>n, <2>0, <2>3
       DEF Lock, Load, Suspend, Unsuspend, RaiseFlag, CheckThread, StopThread, SpinEnds,
           CreateSession, CreateFails, PrepareThread, ResetOutput, LowerFlag, Goto,
           MessageInv, Flagged, TypeOK
  <2>6. s \in Stopped => worker'[n] = "none"
    BY <1>5, <1>t, <1>n, <2>0, <2>3
       DEF Lock, Load, Suspend, Unsuspend, RaiseFlag, CheckThread, StopThread, SpinEnds,
           CreateSession, CreateFails, PrepareThread, ResetOutput, LowerFlag, Goto,
           MessageInv, Stopped, TypeOK
  <2>7. s \in Stopped => ~(block' = n /\ stage' = "start")
    <3>1. CASE s \in Silenced
      BY <1>n, <2>4, <3>1
    <3>2. CASE s \in {"reset", "lower"}
      BY <1>5, <1>t, <1>n, <2>0, <2>2, <2>3, <3>2
         DEF Lock, Load, Suspend, Unsuspend, RaiseFlag, CheckThread, StopThread, SpinEnds,
             CreateSession, CreateFails, PrepareThread, ResetOutput, LowerFlag, Goto,
             MessageInv, Stopped, TypeOK
    <3> QED BY <3>1, <3>2 DEF Silenced, Stopped
  <2> QED BY <1>t, <2>2, <2>3, <2>4, <2>5, <2>6, <2>7 DEF MessageInv
<1>6. CASE PrepareToPlay
  BY <1>6, <1>t DEF PrepareToPlay, MessageInv
<1>7. CASE UNCHANGED vars
  BY <1>7, <1>t DEF vars, MessageInv
<1> QED BY <1>1, <1>2, <1>3, <1>4, <1>5, <1>6, <1>7 DEF Next

LEMMA MessageHolds == Spec => [](MessageOnly => MessageInv)
<1>1. Init => (MessageOnly => MessageInv)
  BY MessageInit
<1>2. (MessageOnly => MessageInv) /\ [Next]_vars => (MessageOnly => MessageInv)'
  BY MessageNext, LoadsFixed DEF MessageOnly
<1> QED BY <1>1, <1>2, PTL DEF Spec

ApartInv == AudioInv /\ (MessageOnly => MessageInv)

LEMMA ApartHolds == Spec => []ApartInv
BY AudioHolds, MessageHolds, PTL DEF ApartInv

LEMMA ApartStopped ==
  ASSUME ApartInv, NEW t \in Threads, KeptApart(t), load[t].at \in Stopped
  PROVE  /\ worker[load[t].net] = "none"
         /\ ~(block = load[t].net /\ stage = "start")
<1>1. load[t].net # 0
  BY DEF ApartInv, AudioInv, TypeOK, Networks
<1>2. CASE t = "audio"
  BY <1>1, <1>2 DEF ApartInv, AudioInv, Loading, Stopped
<1>3. CASE t # "audio"
  BY <1>3 DEF ApartInv, MessageInv, KeptApart, Threads
<1> QED BY <1>2, <1>3

-----------------------------------------------------------------------------
(***************************************************************************)
(* No session is replaced while a worker runs the model in it, or while    *)
(* the callback is on the way from its test of loadingModel to             *)
(* startThread(), by a load that is kept apart from the callback: all      *)
(* loads are on the message thread, or this one is on the audio thread     *)
(* (loadInternalModel, loadExternalModel, sendAudio).                      *)
(***************************************************************************)
THEOREM SessionNotReplacedInUse == Spec => SessionSafe
<1>1. ApartInv =>
        \A t \in Threads :
          KeptApart(t) /\ load[t].at = "create" /\ load'[t].at = "prepare"
            => /\ worker[load[t].net] # "infer"
               /\ ~(block = load[t].net /\ stage = "start")
  BY ApartStopped DEF Stopped
<1> QED BY <1>1, ApartHolds, PTL DEF Spec, SessionSafe

(***************************************************************************)
(* Nor does such a load reset an output ring while the worker pushes into  *)
(* it or is about to be started, although callbacks go on meanwhile.       *)
(***************************************************************************)
THEOREM OutputResetAlone == Spec => ResetAlone
<1>1. ApartInv =>
        \A t \in Threads :
          KeptApart(t) /\ load[t].at = "reset" /\ load'[t].at = "lower"
            => /\ worker[load[t].net] = "none"
               /\ ~(block = load[t].net /\ stage = "start")
  BY ApartStopped DEF Stopped
<1> QED BY <1>1, ApartHolds, PTL DEF Spec, ResetAlone

(***************************************************************************)
(* Nor does it re-create the input ring of a network under a running audio *)
(* callback (suspendProcessing, prepare).                                  *)
(***************************************************************************)
THEOREM InputRingAlone == Spec => RingAlone
<1>1. ApartInv =>
        \A t \in Threads :
          KeptApart(t) /\ load[t].at = "prepare" /\ load'[t].at = "unsuspend"
            => block = 0
  BY DEF ApartInv, AudioInv, MessageInv, KeptApart, Threads, Loading, Silenced
<1> QED BY <1>1, ApartHolds, PTL DEF Spec, RingAlone

-----------------------------------------------------------------------------
(***************************************************************************)
(* What keeps the worker from being started also seals the fate of a load  *)
(* that found it running: having stopped it, it waits for it to run.       *)
(***************************************************************************)
LEMMA SpinStep ==
  ASSUME ApartInv, [Next]_vars, NEW t \in Threads, KeptApart(t), load[t].at = "spin"
  PROVE  load'[t].at = "spin"
<1>1. TypeOK /\ worker[load[t].net] = "none" /\ Loading(t)
  BY ApartStopped DEF ApartInv, AudioInv, Stopped, Loading
<1>2. ASSUME NEW u \in Threads, Lock(u) \/ Load(u) PROVE load'[t].at = "spin"
  <2>1. u # t
    BY <1>1, <1>2
       DEF Lock, Load, Suspend, Unsuspend, RaiseFlag, CheckThread, StopThread, SpinEnds,
           CreateSession, CreateFails, PrepareThread, ResetOutput, LowerFlag
  <2> QED BY <1>1, <1>2, <2>1, LoadStep
<1>3. ASSUME NEW l \in loads, Request(l[1], l[2]) PROVE load'[t].at = "spin"
  BY <1>1, <1>3, RequestStep
<1> QED BY <1>2, <1>3 DEF Next, BeginCallback, Callback, SendAudio, StartWorker,
                          ProcessOutput, Infer, PushAndExit, PrepareToPlay, vars

(***************************************************************************)
(* A load kept apart from the callback that once waits in                  *)
(* while (!isThreadRunning()) never returns (InferenceThread.cpp,          *)
(* loadInternalModel and loadExternalModel).  This is the first exception  *)
(* of Unsuspends.                                                          *)
(***************************************************************************)
THEOREM StoppedLoadHangs ==
  ASSUME NEW t \in Threads
  PROVE  Spec => [](KeptApart(t) /\ load[t].at = "spin" => [](load[t].at = "spin"))
<1> DEFINE Hangs == KeptApart(t) /\ load[t].at = "spin"
<1>1. ApartInv /\ Hangs /\ [Next]_vars => Hangs'
  BY SpinStep, LoadsFixed DEF KeptApart, MessageOnly
<1>2. Hangs => load[t].at = "spin"
  OBVIOUS
<1> QED BY <1>1, <1>2, ApartHolds, PTL DEF Spec

(***************************************************************************)
(* Both exceptions of Unsuspends are real.  When the message thread waits  *)
(* for the worker it has stopped, the plugin is silent for ever; when      *)
(* Ort::Session has thrown, it is until another model is loaded            *)
(* (suspendProcessing, InferenceThread.cpp).                               *)
(***************************************************************************)
THEOREM HangSilencesForEver ==
  Spec => [](MessageOnly /\ load["message"].at = "spin" => [](suspended /\ block = 0))
<1> DEFINE Hangs == MessageOnly /\ load["message"].at = "spin"
<1>1. "message" \in Threads /\ (MessageOnly => KeptApart("message"))
  BY DEF Threads, KeptApart
<1>2. ApartInv /\ Hangs /\ [Next]_vars => Hangs'
  BY <1>1, SpinStep, LoadsFixed DEF MessageOnly
<1>3. ApartInv /\ Hangs => suspended /\ block = 0
  BY DEF ApartInv, MessageInv, Silenced
<1> QED BY <1>2, <1>3, ApartHolds, PTL DEF Spec

THEOREM FailureSilences ==
  Spec => [](MessageOnly /\ load["message"].at = "failed" => suspended /\ block = 0)
<1>1. (MessageOnly => MessageInv) =>
        (MessageOnly /\ load["message"].at = "failed" => suspended /\ block = 0)
  BY DEF MessageInv, Silenced
<1> QED BY <1>1, MessageHolds, PTL

(***************************************************************************)
(* There are no others: whoever loads, a suspended plugin has a load that  *)
(* is still to end the suspension, or that failed.  With the fairness of   *)
(* the loads this is what Unsuspends rests on.                             *)
(***************************************************************************)
SuspenderLeft ==
    suspended => \E t \in Threads : load[t].at \in Silenced \cup {"suspend"}

THEOREM SuspensionHasOwner == Spec => []SuspenderLeft
<1>1. Init => SuspenderLeft
  BY DEF Init, SuspenderLeft
<1>2. TypeOK /\ SuspenderLeft /\ [Next]_vars => SuspenderLeft'
  <2> SUFFICES ASSUME TypeOK, SuspenderLeft, [Next]_vars, suspended'
               PROVE  \E t \in Threads : load'[t].at \in Silenced \cup {"suspend"}
    BY DEF SuspenderLeft
  <2>1. ASSUME NEW l \in loads, Request(l[1], l[2])
        PROVE  \E t \in Threads : load'[t].at \in Silenced \cup {"suspend"}
    <3>1. l[1] \in Threads
      BY DEF TypeOK, Threads, Networks
    <3>2. load'[l[1]].at = "suspend"
      BY <2>1, <3>1 DEF Request, TypeOK
    <3> QED BY <3>1, <3>2
  <2>2. ASSUME NEW u \in Threads, Lock(u) \/ Load(u)
        PROVE  \E t \in Threads : load'[t].at \in Silenced \cup {"suspend"}
    <3>1. PICK s \in Steps : load' = [load EXCEPT ![u].at = s]
      BY <2>2
         DEF Lock, Load, Suspend, Unsuspend, RaiseFlag, CheckThread, StopThread, SpinEnds,
             CreateSession, CreateFails, PrepareThread, ResetOutput, LowerFlag, Goto, Steps
    <3>2. load'[u].at = s /\ \A t \in Threads \ {u} : load'[t] = load[t]
      BY <3>1 DEF TypeOK
    <3>3. CASE load[u].at \in Silenced \cup {"suspend"}
      <4>1. \A step : Goto(u, step) => load'[u].at = step
        BY DEF Goto, TypeOK
      <4>2. CASE Lock(u)
        BY <4>1, <4>2 DEF Lock, Suspend, Unsuspend, Silenced
      <4>3. CASE Load(u)
        BY <3>3, <4>1, <4>3
           DEF Load, RaiseFlag, CheckThread, StopThread, SpinEnds, CreateSession,
               CreateFails, PrepareThread, ResetOutput, LowerFlag, Silenced
      <4> QED BY <2>2, <4>2, <4>3
    <3>4. CASE load[u].at \notin Silenced \cup {"suspend"}
      <4>1. suspended
        BY <2>2, <3>4
           DEF Lock, Load, Suspend, Unsuspend, RaiseFlag, CheckThread, StopThread,
               SpinEnds, CreateSession, CreateFails, PrepareThread, ResetOutput,
               LowerFlag, Silenced
      <4> QED BY <3>2, <3>4, <4>1 DEF SuspenderLeft
    <3> QED BY <3>3, <3>4
  <2>3. CASE BeginCallback \/ Callback \/ PrepareToPlay \/ UNCHANGED vars
             \/ \E n \in Networks : Infer(n) \/ PushAndExit(n)
    BY <2>3 DEF BeginCallback, Callback, SendAudio, StartWorker, ProcessOutput,
                PrepareToPlay, Infer, PushAndExit, vars, SuspenderLeft
  <2> QED BY <2>1, <2>2, <2>3 DEF Next
<1> QED BY <1>1, <1>2, TypeCorrect, PTL DEF Spec

-----------------------------------------------------------------------------
(***************************************************************************)
(* Whoever loads: samples of a former session are in an output ring only   *)
(* while a load that has replaced the session has not yet reset it.        *)
(***************************************************************************)
Resetting == {"prepare", "unsuspend", "reset"}

FormerOwned ==
    \A n \in Networks : "former" \in out[n] =>
        \E t \in Threads : load[t].net = n /\ load[t].at \in Resetting

LEMMA FormerOwnedNext == TypeOK /\ FormerOwned /\ [Next]_vars => FormerOwned'
<1> SUFFICES ASSUME TypeOK, FormerOwned, [Next]_vars,
                    NEW n \in Networks, "former" \in out'[n]
             PROVE  \E t \in Threads : load'[t].net = n /\ load'[t].at \in Resetting
  BY DEF FormerOwned
<1>1. CASE BeginCallback \/ Callback \/ PrepareToPlay \/ UNCHANGED vars
             \/ \E k \in Networks : Infer(k) \/ PushAndExit(k)
  <2>1. "former" \in out[n] /\ load' = load
    BY <1>1 DEF BeginCallback, Callback, SendAudio, StartWorker, ProcessOutput,
                PrepareToPlay, Infer, PushAndExit, vars, TypeOK
  <2> QED BY <2>1 DEF FormerOwned
<1>2. ASSUME NEW l \in loads, Request(l[1], l[2])
      PROVE  \E t \in Threads : load'[t].net = n /\ load'[t].at \in Resetting
  <2>1. PICK t \in Threads : load[t].net = n /\ load[t].at \in Resetting
    BY <1>2, RequestStep DEF FormerOwned
  <2> QED BY <1>2, <2>1, RequestStep DEF Loading, Resetting
<1>3. ASSUME NEW u \in Threads, Lock(u) \/ Load(u)
      PROVE  \E t \in Threads : load'[t].net = n /\ load'[t].at \in Resetting
  <2>1. /\ \A s : Goto(u, s) => load'[u].at = s /\ load'[u].net = load[u].net
        /\ \A t \in Threads \ {u} : load'[t] = load[t]
    BY <1>3, LoadStep DEF Goto, TypeOK
  <2>2. CASE CreateSession(u)
    <3>1. CASE n = load[u].net
      BY <2>1, <2>2, <3>1 DEF CreateSession, Resetting
    <3>2. CASE n # load[u].net
      <4>1. "former" \in out[n]
        BY <2>2, <3>2 DEF CreateSession, TypeOK
      <4>2. PICK t \in Threads : load[t].net = n /\ load[t].at \in Resetting
        BY <4>1 DEF FormerOwned
      <4> QED BY <2>1, <3>2, <4>2
    <3> QED BY <3>1, <3>2
  <2>3. CASE ~CreateSession(u)
    <3>1. "former" \in out[n] /\ ~(load[u].at = "reset" /\ load[u].net = n)
      BY <1>3, <2>3
         DEF Lock, Load, Suspend, Unsuspend, RaiseFlag, CheckThread, StopThread, SpinEnds,
             CreateFails, PrepareThread, ResetOutput, LowerFlag, TypeOK
    <3>2. PICK t \in Threads : load[t].net = n /\ load[t].at \in Resetting
      BY <3>1 DEF FormerOwned
    <3>3. t = u => load'[u].net = n /\ load'[u].at \in Resetting
      BY <1>3, <2>1, <2>3, <3>1, <3>2
         DEF Lock, Load, Suspend, Unsuspend, RaiseFlag, CheckThread, StopThread, SpinEnds,
             CreateFails, PrepareThread, ResetOutput, LowerFlag, Resetting
    <3> QED BY <2>1, <3>2, <3>3
  <2> QED BY <2>2, <2>3
<1> QED BY <1>1, <1>2, <1>3 DEF Next

(***************************************************************************)
(* Until the message thread has reset the ring, the network is collecting: *)
(* each block it has been sent since is a callback of the window.          *)
(***************************************************************************)
Unsent(n) == block # 0 /\ (block < n \/ (block = n /\ stage = "send"))

Collecting ==
    LET m == load["message"]
        w == window["message"]
    IN /\ m.at # "reset" => w = 0
       /\ m.at = "unsuspend" => left[m.net] = InitBlocks
       /\ m.at = "reset" => /\ left[m.net] + w >= InitBlocks
                            /\ Unsent(m.net) => left[m.net] + w > InitBlocks

LEMMA CollectingNext ==
  MessageOnly /\ MessageInv /\ Collecting /\ [Next]_vars => Collecting'
<1> SUFFICES ASSUME MessageOnly, MessageInv, Collecting, [Next]_vars PROVE Collecting'
  OBVIOUS
<1> DEFINE m == load["message"]
           w == window["message"]
<1>s. TypeOK /\ MessageInv'
  BY MessageNext DEF MessageInv, AudioInv
<1>m. m.net \in Networks /\ m.net \in Int /\ m.net > 0 /\ block \in Nat
  BY <1>s DEF TypeOK, Threads, Networks
<1>l. /\ \A n \in Networks : left[n] \in 0 .. InitBlocks
      /\ w \in 0 .. InitBlocks - 1
  BY <1>s DEF TypeOK, Threads
<1>1. CASE BeginCallback
  <2>1. /\ w' = IF m.at = "reset" THEN w + 1 ELSE w
        /\ load' = load /\ left' = left
    BY <1>1 DEF BeginCallback, Threads
  <2> QED BY <1>m, <1>l, <2>1 DEF Collecting
<1>2. CASE SendAudio
  <2>1. load' = load /\ window' = window /\ block' = block /\ stage' # "send" /\ block > 0
    BY <1>2 DEF SendAudio
  <2>2. m.at # "unsuspend"
    BY <2>1, <1>m DEF MessageInv, Silenced
  <2>3. CASE block = m.net
    <3>1. m.at = "reset" => left[m.net] + w > InitBlocks /\ left[m.net] > 0
      BY <1>2, <1>m, <1>l, <2>3 DEF SendAudio, Collecting, Unsent
    <3>2. m.at = "reset" => left'[m.net] = left[m.net] - 1
      BY <1>2, <1>s, <1>m, <1>l, <2>3, <3>1 DEF SendAudio, OneLess, TypeOK
    <3>3. ~Unsent(m.net)'
      BY <1>m, <2>1, <2>3 DEF Unsent
    <3> QED BY <1>m, <1>l, <2>1, <2>2, <3>1, <3>2, <3>3 DEF Collecting
  <2>4. CASE block # m.net
    <3>1. left'[m.net] = left[m.net]
      BY <1>2, <1>s, <1>m, <2>4 DEF SendAudio, TypeOK
    <3>2. Unsent(m.net)' => Unsent(m.net)
      BY <2>1 DEF Unsent
    <3> QED BY <2>1, <2>2, <3>1, <3>2 DEF Collecting
  <2> QED BY <2>3, <2>4
<1>3. CASE StartWorker \/ ProcessOutput
  <2>1. load' = load /\ window' = window /\ left' = left /\ block > 0
    BY <1>3 DEF StartWorker, ProcessOutput
  <2>2. Unsent(m.net)' => Unsent(m.net)
    <3>1. CASE StartWorker
      BY <3>1 DEF StartWorker, Unsent
    <3>2. CASE ProcessOutput
      <4>1. block' = 0 \/ block' = block + 1
        BY <3>2 DEF ProcessOutput
      <4> QED BY <1>m, <2>1, <4>1 DEF Unsent
    <3> QED BY <1>3, <3>1, <3>2
  <2> QED BY <2>1, <2>2 DEF Collecting
<1>4. ASSUME NEW n \in Networks, Infer(n) \/ PushAndExit(n) PROVE Collecting'
  BY <1>4 DEF Infer, PushAndExit, Collecting, Unsent
<1>5. ASSUME NEW l \in loads, Request(l[1], l[2]) PROVE Collecting'
  <2>1. l[1] = "message"
    BY DEF MessageOnly
  <2>2. load'["message"].at = "suspend" /\ m.at # "reset" /\ window' = window
    <3>1. ~Loading("message") /\ window' = window /\ load'["message"].at = "suspend"
      BY <1>5, <1>s, <2>1, RequestStep
    <3> QED BY <3>1 DEF Loading
  <2> QED BY <2>2 DEF Collecting
<1>6. ASSUME NEW t \in Threads, Lock(t) \/ Load(t) PROVE Collecting'
  <2>0. t = "message"
    BY <1>6, <1>s, LoadStep DEF MessageInv, Loading, Threads
  <2>1. PICK s \in Steps : Goto(t, s) /\ load'[t] = [at |-> s, net |-> m.net]
    BY <1>6, <1>s, <2>0, LoadStep
  <2>2. load'["message"].at = s /\ load'["message"].net = m.net
    BY <2>0, <2>1
  <2>3. s = "unsuspend" => left'[m.net] = InitBlocks
    BY <1>6, <1>s, <1>m, <2>0, <2>2
       DEF Lock, Load, Suspend, Unsuspend, RaiseFlag, CheckThread, StopThread, SpinEnds,
           CreateSession, CreateFails, PrepareThread, ResetOutput, LowerFlag, Goto, TypeOK
  <2>4. s = "reset" => /\ left' = left /\ window' = window
                       /\ m.at = "unsuspend" /\ block' = 0
    BY <1>6, <1>s, <2>0, <2>2
       DEF Lock, Load, Suspend, Unsuspend, RaiseFlag, CheckThread, StopThread, SpinEnds,
           CreateSession, CreateFails, PrepareThread, ResetOutput, LowerFlag, Goto, TypeOK,
           Threads
  <2>5. s # "reset" => w' = 0
    BY <1>6, <1>s, <2>0, <2>2
       DEF Lock, Load, Suspend, Unsuspend, RaiseFlag, CheckThread, StopThread, SpinEnds,
           CreateSession, CreateFails, PrepareThread, ResetOutput, LowerFlag, Goto, TypeOK,
           Threads, Collecting
  <2>6. s = "reset" => /\ left'[m.net] = InitBlocks /\ w' = 0
                       /\ ~Unsent(m.net)'
    BY <2>4 DEF Collecting, Unsent
  <2> QED BY <2>2, <2>3, <2>5, <2>6 DEF Collecting
<1>7. CASE PrepareToPlay
  BY <1>7 DEF PrepareToPlay, Loading, Collecting
<1>8. CASE UNCHANGED vars
  BY <1>8 DEF vars, Collecting, Unsent
<1> QED BY <1>1, <1>2, <1>3, <1>4, <1>5, <1>6, <1>7, <1>8 DEF Next, Callback

FormerInv == ApartInv /\ FormerOwned /\ (MessageOnly => Collecting)

LEMMA FormerHolds == Spec => []FormerInv
<1>1. Init => FormerOwned /\ (MessageOnly => Collecting)
  BY DEF Init, FormerOwned, Collecting, Threads
<1>2. ApartInv /\ FormerOwned /\ [Next]_vars => FormerOwned'
  BY FormerOwnedNext DEF ApartInv, AudioInv
<1>3. ApartInv /\ (MessageOnly => Collecting) /\ [Next]_vars => (MessageOnly => Collecting)'
  BY CollectingNext, LoadsFixed DEF ApartInv, MessageOnly
<1> QED BY <1>1, <1>2, <1>3, ApartHolds, PTL DEF Spec, FormerInv

(***************************************************************************)
(* No sample of a former model is served by a network that only loads kept *)
(* apart from the callback concern, although the plugin is un-suspended    *)
(* before the output ring is reset (onModelLoaded): a load on the audio    *)
(* thread resets it before the next callback, and after one on the message *)
(* thread the network is collecting meanwhile.                             *)
(***************************************************************************)
THEOREM FormerModelSilent == Spec => FormerNeverServed
<1>1. FormerInv =>
        \A n \in Networks :
          OnlyKeptApart(n) /\ block = n /\ left[n] = 0
            /\ stage = "serve" /\ stage' # "serve"
             => "former" \notin out[n]
  <2> SUFFICES ASSUME FormerInv, NEW n \in Networks, OnlyKeptApart(n),
                      block = n, left[n] = 0, "former" \in out[n]
               PROVE  FALSE
    OBVIOUS
  <2>1. PICK t \in Threads : load[t].net = n /\ load[t].at \in Resetting
    BY DEF FormerInv, FormerOwned
  <2>2. AudioInv /\ TypeOK /\ n \in Int /\ n > 0 /\ <<t, n>> \in loads
    BY <2>1 DEF FormerInv, ApartInv, AudioInv, Loading, Resetting, Networks
  <2>3. t # "audio"
    BY <2>1, <2>2 DEF AudioInv, Loading, Resetting
  <2>4. t = "message"
    BY <2>3 DEF Threads
  <2>5. MessageOnly
    <3>1. <<t, n>>[1] = t /\ <<t, n>>[2] = n
      OBVIOUS
    <3> QED BY <2>2, <2>3, <3>1 DEF OnlyKeptApart, KeptApart
  <2>6. load["message"].at = "reset" /\ load["message"].net = n
    BY <2>1, <2>2, <2>4, <2>5 DEF FormerInv, ApartInv, MessageInv, Silenced, Resetting
  <2>7. window["message"] \in 0 .. InitBlocks - 1
    BY <2>2 DEF TypeOK, Threads
  <2> QED BY <2>5, <2>6, <2>7 DEF FormerInv, Collecting
<1> QED BY <1>1, FormerHolds, PTL DEF Spec, FormerNeverServed
=============================================================================

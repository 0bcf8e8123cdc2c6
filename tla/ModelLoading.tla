---------------------------- MODULE ModelLoading ----------------------------
(***************************************************************************)
(* Exchanging the model of a network while the plugin plays:               *)
(* OnnxProcessor::parameterChanged and loadExternalModel, and              *)
(* InferenceThread::loadInternalModel and loadExternalModel, step by step, *)
(* against the host's audio callback and the worker threads.               *)
(*                                                                         *)
(* Three things keep these threads apart.  suspendProcessing() takes the   *)
(* callback lock of juce::AudioProcessor, which the audio callback holds   *)
(* (block # 0 below), and once suspended the callback only clears its      *)
(* buffer; loadingModel keeps sendAudio() from starting the worker; and    *)
(* stopThread() ends a worker that was started before.  The suspended flag *)
(* belongs to the plugin, so both networks share it: with a host that      *)
(* automates one network while a click loads the other, the first load to  *)
(* end lets the callback in under the other one, and then the callback can *)
(* start a worker that the load has looked for already.                    *)
(***************************************************************************)
EXTENDS Integers

CONSTANTS
    NumNetworks,   \* the networks are 1 .. NumNetworks
    Sessions,      \* the ways the plugin is used: sets of pairs <<thread,
                   \* network>>, who loads which model.  The message thread
                   \* loads on a click, a chosen file or a restored state;
                   \* the audio thread, if the host automates
                   \* SELECT_NETWORKn and applies it there
    InitBlocks     \* blocks a network collects before it serves any

ASSUME LoadingAssumption ==
    /\ NumNetworks \in Nat \ {0}
    /\ Sessions \subseteq SUBSET ({"message", "audio"} \X (1 .. NumNetworks))
    /\ InitBlocks \in Nat \ {0, 1}

Networks == 1 .. NumNetworks
Threads  == {"message", "audio"}

VARIABLES
    loads,      \* how the plugin is used this time
    suspended,  \* juce::AudioProcessor::isSuspended()
    block,      \* the network the audio callback is processing, 0 outside
                \* of a callback
    stage,      \* what it does next with it: "send" the block and look
                \* whether to start the worker, "start" it, "serve" output
    worker,     \* per network: "none" if its thread is not running, else
                \* "infer" (in session.Run) or "push" (handing over)
    loading,    \* per network: InferenceThread::loadingModel
    left,       \* per network: blocks until init becomes false
    out,        \* per network: whose samples are in the output ring, those of
                \* the "current" session or of a "former" one
    load,       \* per thread: the step of its load and the network loaded
    window      \* per thread: callbacks begun since its load un-suspended
                \* the plugin, until it has reset the output ring

vars ==
    <<suspended, block, stage, worker, loading, left, out, load, window, loads>>

Steps == {"idle", "suspend", "flag", "check", "stop", "spin", "create",
          "prepare", "unsuspend", "reset", "lower", "failed"}

TypeOK == /\ loads \in Sessions
          /\ suspended \in BOOLEAN
          /\ block \in 0 .. NumNetworks
          /\ stage \in {"send", "start", "serve"}
          /\ worker \in [Networks -> {"none", "infer", "push"}]
          /\ loading \in [Networks -> BOOLEAN]
          /\ left \in [Networks -> 0 .. InitBlocks]
          /\ out \in [Networks -> SUBSET {"current", "former"}]
          /\ load \in [Threads -> [at : Steps, net : Networks]]
          /\ window \in [Threads -> 0 .. InitBlocks - 1]

Init == /\ loads \in Sessions
        /\ suspended = FALSE
        /\ block = 0
        /\ stage = "send"
        /\ worker = [n \in Networks |-> "none"]
        /\ loading = [n \in Networks |-> FALSE]
        /\ left = [n \in Networks |-> InitBlocks]
        /\ out = [n \in Networks |-> {}]
        /\ load = [t \in Threads |-> [at |-> "idle", net |-> 1]]
        /\ window = [t \in Threads |-> 0]

Loading(t) == load[t].at \notin {"idle", "failed"}

Goto(t, step) == load' = [load EXCEPT ![t].at = step]

-----------------------------------------------------------------------------
(***************************************************************************)
(* The audio callback.  processBlock runs the networks one after the       *)
(* other, each in three steps: a load of the message thread may raise its  *)
(* flag or look for the worker between any two of them, if another load    *)
(* has un-suspended the plugin.                                            *)
(***************************************************************************)

(***************************************************************************)
(* Timing: a loader gets from un-suspending the plugin to resetting the    *)
(* output ring in less audio time than a network needs to collect          *)
(* (20480 samples, 0.4 seconds).                                           *)
(***************************************************************************)
Prompt == \A t \in Threads : load[t].at = "reset" => window[t] < InitBlocks - 1

BeginCallback == /\ block = 0
                 /\ ~suspended
                 /\ ~Loading("audio")
                 /\ Prompt
                 /\ block' = 1
                 /\ window' = [t \in Threads |-> IF load[t].at = "reset"
                                               THEN window[t] + 1 ELSE window[t]]
                 /\ UNCHANGED <<suspended, stage, worker, loading, left, out, load, loads>>

\* Mutants: blocks are still counted once enough were collected; or loadingModel
\* is not looked at.
OneLessAlways(k) == k - 1
MayStartLoading(n) == worker[n] = "none"

OneLess(k) == IF k > 0 THEN k - 1 ELSE 0

MayStart(n) == worker[n] = "none" /\ ~loading[n]

(***************************************************************************)
(* sendAudio: the block is pushed and counted; the worker is to be started *)
(* if it is idle, the ring holds a model input (enough) and no model is    *)
(* being loaded.  The last condition is the last one looked at, and only   *)
(* this callback could have started the worker since the first.  init is   *)
(* cleared at the end; nobody but this callback reads it.                  *)
(***************************************************************************)
SendAudio ==
    /\ block > 0
    /\ stage = "send"
    /\ left' = [left EXCEPT ![block] = OneLess(@)]
    /\ \E enough \in BOOLEAN :
         stage' = IF enough /\ MayStart(block) THEN "start" ELSE "serve"
    /\ UNCHANGED <<suspended, block, worker, loading, out, load, window, loads>>

(***************************************************************************)
(* The model input is taken out, then startThread().                       *)
(***************************************************************************)
StartWorker ==
    /\ block > 0
    /\ stage = "start"
    /\ worker' = [worker EXCEPT ![block] = "infer"]
    /\ stage' = "serve"
    /\ UNCHANGED <<suspended, block, loading, left, out, load, window, loads>>

(***************************************************************************)
(* processOutput: passes through while init, else takes samples out.       *)
(***************************************************************************)
ProcessOutput ==
    /\ block > 0
    /\ stage = "serve"
    /\ \/ UNCHANGED out
       \/ left[block] = 0 /\ out' = [out EXCEPT ![block] = {}]
    /\ block' = IF block = NumNetworks THEN 0 ELSE block + 1
    /\ stage' = "send"
    /\ UNCHANGED <<suspended, worker, loading, left, load, window, loads>>

Callback == SendAudio \/ StartWorker \/ ProcessOutput

(***************************************************************************)
(* The worker of network n: InferenceThread::run.                          *)
(***************************************************************************)
Infer(n) == /\ worker[n] = "infer"
            /\ worker' = [worker EXCEPT ![n] = "push"]
            /\ UNCHANGED <<suspended, block, stage, loading, left, out, load, window, loads>>

PushAndExit(n) == /\ worker[n] = "push"
                  /\ worker' = [worker EXCEPT ![n] = "none"]
                  /\ out' = [out EXCEPT ![n] = @ \cup {"current"}]
                  /\ UNCHANGED <<suspended, block, stage, loading, left, load, window, loads>>

-----------------------------------------------------------------------------
(***************************************************************************)
(* A load by thread t of a model for network n.                            *)
(***************************************************************************)
Request(t, n) == /\ ~Loading(t)
                 /\ t = "audio" => block = 0
                 /\ load' = [load EXCEPT ![t] = [at |-> "suspend", net |-> n]]
                 /\ UNCHANGED <<suspended, block, stage, worker, loading, left, out, window, loads>>

\* Mutant: the plugin is suspended without waiting for the callback.
SuspendAtOnce(t) == /\ load[t].at = "suspend"
                    /\ suspended' = TRUE
                    /\ Goto(t, "flag")
                    /\ UNCHANGED <<block, stage, worker, loading, left, out, window, loads>>

(***************************************************************************)
(* onOnnxModelLoad(true, ...): suspendProcessing(true), which waits for    *)
(* the callback lock.                                                      *)
(***************************************************************************)
Suspend(t) == /\ load[t].at = "suspend"
              /\ block = 0
              /\ suspended' = TRUE
              /\ Goto(t, "flag")
              /\ UNCHANGED <<block, stage, worker, loading, left, out, window, loads>>

RaiseFlag(t) == /\ load[t].at = "flag"
                /\ loading' = [loading EXCEPT ![load[t].net] = TRUE]
                /\ Goto(t, "check")
                /\ UNCHANGED <<suspended, block, stage, worker, left, out, window, loads>>

\* Mutant: the load does not look for a running worker.
CheckNothing(t) == /\ load[t].at = "check"
                   /\ Goto(t, "create")
                   /\ UNCHANGED <<suspended, block, stage, worker, loading, left, out, window, loads>>

(***************************************************************************)
(* if (isThreadRunning())                                                  *)
(***************************************************************************)
CheckThread(t) == /\ load[t].at = "check"
                  /\ Goto(t, IF worker[load[t].net] = "none" THEN "create" ELSE "stop")
                  /\ UNCHANGED <<suspended, block, stage, worker, loading, left, out, window, loads>>

(***************************************************************************)
(* stopThread(10): the worker ends by itself in time, having pushed its    *)
(* samples, or it is killed, wherever it is.                               *)
(***************************************************************************)
StopThread(t) ==
    LET n == load[t].net
    IN /\ load[t].at = "stop"
       /\ worker' = [worker EXCEPT ![n] = "none"]
       /\ \/ UNCHANGED out
          \/ /\ worker[n] # "none"
             /\ out' = [out EXCEPT ![n] = @ \cup {"current"}]
       /\ Goto(t, "spin")
       /\ UNCHANGED <<suspended, block, stage, loading, left, window, loads>>

(***************************************************************************)
(* while (!isThreadRunning()) wait: the loop waits for the thread to run,  *)
(* not for it to have stopped.                                             *)
(***************************************************************************)
SpinEnds(t) == /\ load[t].at = "spin"
               /\ worker[load[t].net] # "none"
               /\ Goto(t, "create")
               /\ UNCHANGED <<suspended, block, stage, worker, loading, left, out, window, loads>>

(***************************************************************************)
(* session = Ort::Session(...).  What the ring holds stems from a former   *)
(* session now.                                                            *)
(***************************************************************************)
CreateSession(t) ==
    LET n == load[t].net
    IN /\ load[t].at = "create"
       /\ out' = [out EXCEPT ![n] = IF @ = {} THEN {} ELSE {"former"}]
       /\ Goto(t, "prepare")
       /\ UNCHANGED <<suspended, block, stage, worker, loading, left, window, loads>>

(***************************************************************************)
(* Ort::Session throws on a file that is no model; nothing on the way up   *)
(* clears loadingModel or un-suspends the plugin.                          *)
(***************************************************************************)
CreateFails(t) == /\ load[t].at = "create"
                  /\ t = "message"
                  /\ Goto(t, "failed")
                  /\ UNCHANGED <<suspended, block, stage, worker, loading, left, out, window, loads>>

\* Mutant: the network does not collect anew.
PrepareKeepingInit(t) == /\ load[t].at = "prepare"
                         /\ Goto(t, "unsuspend")
                         /\ UNCHANGED <<suspended, block, stage, worker, loading, left, out, window, loads>>

(***************************************************************************)
(* InferenceThread::prepare(last_spec)                                     *)
(***************************************************************************)
PrepareThread(t) == /\ load[t].at = "prepare"
                    /\ left' = [left EXCEPT ![load[t].net] = InitBlocks]
                    /\ Goto(t, "unsuspend")
                    /\ UNCHANGED <<suspended, block, stage, worker, loading, out, window, loads>>

\* Mutant: the plugin stays suspended.
StaySuspended(t) == /\ load[t].at = "unsuspend"
                    /\ block = 0
                    /\ Goto(t, "reset")
                    /\ UNCHANGED <<suspended, block, stage, worker, loading, left, out, window, loads>>

(***************************************************************************)
(* onModelLoaded: onOnnxModelLoad(false, ...), then the output ring.       *)
(***************************************************************************)
Unsuspend(t) == /\ load[t].at = "unsuspend"
                /\ block = 0
                /\ suspended' = FALSE
                /\ Goto(t, "reset")
                /\ UNCHANGED <<block, stage, worker, loading, left, out, window, loads>>

ResetOutput(t) == /\ load[t].at = "reset"
                  /\ out' = [out EXCEPT ![load[t].net] = {}]
                  /\ window' = [window EXCEPT ![t] = 0]
                  /\ Goto(t, "lower")
                  /\ UNCHANGED <<suspended, block, stage, worker, loading, left, loads>>

LowerFlag(t) == /\ load[t].at = "lower"
                /\ loading' = [loading EXCEPT ![load[t].net] = FALSE]
                /\ Goto(t, "idle")
                /\ UNCHANGED <<suspended, block, stage, worker, left, out, window, loads>>

(***************************************************************************)
(* prepareToPlay, between callbacks, on the message thread: rings emptied, *)
(* collecting restarted, workers left alone.                               *)
(***************************************************************************)
PrepareToPlay == /\ block = 0
                 /\ ~Loading("message") /\ ~Loading("audio")
                 /\ left' = [n \in Networks |-> InitBlocks]
                 /\ out' = [n \in Networks |-> {}]
                 /\ UNCHANGED <<suspended, block, stage, worker, loading, load, window, loads>>

-----------------------------------------------------------------------------
Lock(t) == Suspend(t) \/ Unsuspend(t)

Load(t) == \/ RaiseFlag(t) \/ CheckThread(t) \/ StopThread(t) \/ SpinEnds(t)
           \/ CreateSession(t) \/ CreateFails(t) \/ PrepareThread(t)
           \/ ResetOutput(t) \/ LowerFlag(t)

Next == \/ BeginCallback
        \/ Callback
        \/ \E n \in Networks : Infer(n) \/ PushAndExit(n)
        \/ \E l \in loads : Request(l[1], l[2])
        \/ \E t \in Threads : Lock(t) \/ Load(t)
        \/ PrepareToPlay

(***************************************************************************)
(* A callback that began ends, workers and loaders run, and the lock, free *)
(* between any two callbacks, is not withheld from a loader forever.       *)
(***************************************************************************)
Fairness == /\ WF_vars(Callback)
            /\ \A n \in Networks : WF_vars(Infer(n)) /\ WF_vars(PushAndExit(n))
            /\ \A t \in Threads : SF_vars(Lock(t)) /\ WF_vars(Load(t))

Spec == Init /\ [][Next]_vars /\ Fairness

-----------------------------------------------------------------------------
(***************************************************************************)
(* The message thread alone loads: the suspended flag keeps the callback   *)
(* away from its loads.  A load on the audio thread needs no flag, since   *)
(* the callback is the same thread.  But the two do not mix: the load that *)
(* ends first un-suspends the plugin under the other one.                  *)
(***************************************************************************)
MessageOnly  == \A l \in loads : l[1] = "message"
KeptApart(t) == MessageOnly \/ t = "audio"

(***************************************************************************)
(* A load that is kept apart from the callback never replaces a session    *)
(* while a worker runs the model in it, or will: the callback has not      *)
(* decided to start it (session = Ort::Session(...) destroys the one       *)
(* session.Run works on).                                                  *)
(***************************************************************************)
SessionSafe ==
    [][\A t \in Threads :
         KeptApart(t) /\ load[t].at = "create" /\ load'[t].at = "prepare"
            => /\ worker[load[t].net] # "infer"
               /\ ~(block = load[t].net /\ stage = "start")]_vars

(***************************************************************************)
(* Nor does it re-create the input ring under the audio callback           *)
(* (prepare(last_spec)).                                                   *)
(***************************************************************************)
RingAlone ==
    [][\A t \in Threads :
         KeptApart(t) /\ load[t].at = "prepare" /\ load'[t].at = "unsuspend"
            => block = 0]_vars

(***************************************************************************)
(* If only such loads concern a network, no sample of a former model is    *)
(* served after a load, although the plugin is un-suspended before the     *)
(* output ring is reset (onModelLoaded, the lambda of OnnxProcessor's      *)
(* constructor).                                                           *)
(***************************************************************************)
OnlyKeptApart(n) == \A l \in loads : l[2] = n => KeptApart(l[1])

FormerNeverServed ==
    [][\A n \in Networks :
         OnlyKeptApart(n) /\ block = n /\ left[n] = 0
           /\ stage = "serve" /\ stage' # "serve"
            => "former" \notin out[n]]_vars

(***************************************************************************)
(* In that same window, with callbacks going on, no worker pushes into the *)
(* ring being reset and none is about to be started, so that nothing of    *)
(* the new model is thrown away (loadingModel is still raised).            *)
(***************************************************************************)
ResetAlone ==
    [][\A t \in Threads :
         KeptApart(t) /\ load[t].at = "reset" /\ load'[t].at = "lower"
            => /\ worker[load[t].net] = "none"
               /\ ~(block = load[t].net /\ stage = "start")]_vars

(***************************************************************************)
(* The plugin does not stay silent: every suspension ends, unless a load   *)
(* spins for ever on a worker it has stopped, or failed.                   *)
(***************************************************************************)
Unsuspends ==
    suspended ~> \/ ~suspended
                 \/ \E t \in Threads : load[t].at \in {"spin", "failed"}
=============================================================================

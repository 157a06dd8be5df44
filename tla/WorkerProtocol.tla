---------------------------- MODULE WorkerProtocol ----------------------------
(***************************************************************************)
(* RemoteCapabilityProxy (core/proxy.py) and the worker it spawns          *)
(* (core/worker.py): the life of the process, the calls and cancellations  *)
(* that reach it over HTTP, and lifecycle calls under stall detection.     *)
(*                                                                         *)
(* A worker serves requests on its event loop.  What is a plain function   *)
(* there runs in a thread; /initialize and /reconfigure are coroutines     *)
(* that call the capability, and nothing else is served while they do.     *)
(***************************************************************************)
EXTENDS Integers, FiniteSets

CONSTANTS
  Calls,
  Tasks,        \* the calls on the task channel
  Streams,      \* the calls that stream
  Ambient,      \* observability class of the proxy
  Cap,          \* calls that callers keep on an instance at a time
  Threshold,    \* prefetch_stall_threshold_seconds, in polls
  MaxWorkers,   \* bound of the model: workers spawned
  MaxReports,   \* bound of the model: report_progress calls per worker
  MaxTimeouts,  \* bound of the model: cancel requests that time out
  MaxFailures,  \* bound of the model: journal appends that raise
  MaxFaults     \* bound of the model: workers that crash or are OOM-killed

Workers == 1 .. MaxWorkers

ASSUME ProtocolAssumption ==
  /\ Tasks \subseteq Calls /\ Streams \subseteq Calls /\ Tasks \cap Streams = {}
  /\ Ambient \in BOOLEAN
  /\ {Cap, Threshold, MaxWorkers} \subseteq Nat \ {0}
  /\ {MaxReports, MaxTimeouts, MaxFailures, MaxFaults} \subseteq Nat

VARIABLES
  host,      \* the host process: up, zombie, gone
  up,        \* each worker process: none, starting, serving, stopping, killed, dead
  rc,        \* how it died
  held,      \* workers whose proxy has not set process to None
  cur,       \* the worker of the proxy in use, 0 if there is none
  loaded,    \* the manager has that proxy
  op,        \* the lifecycle operation the host is in
  hook,      \* the lifecycle request at each worker
  progress,  \* what /progress shows
  rows,      \* the rows of each worker in the journal
  failed,    \* appends that raised
  faults,
  flag,      \* _cancel_requested of each worker's capability
  at,        \* the host's side of each call: idle, waiting, ended
  to,        \* the worker it was posted to
  run,       \* the worker's side of it
  got,       \* how it ended
  signal,    \* cancel requests on their way
  asked,     \* calls cancel_async() was called for
  late,      \* those whose request timed out
  told,      \* those whose request was served while they ran
  beside     \* the calls each call overlapped

hostVars == <<host, held, cur, loaded, op>>
procVars == <<up, rc, faults>>
journalVars == <<rows, failed>>
callVars == <<at, to, run, got, beside>>
cancelVars == <<signal, asked, late, told>>
vars == <<hostVars, procVars, hook, progress, journalVars, flag, callVars, cancelVars>>

NoOp == [name |-> "none", silent |-> 0, seen |-> 0]
Unseen == -1
OnLoop == {"initialize", "reconfigure"}

Init ==
  /\ host = "up" /\ held = {} /\ cur = 0 /\ loaded = FALSE /\ op = NoOp
  /\ up = [w \in Workers |-> "none"]
  /\ rc = [w \in Workers |-> "none"]
  /\ faults = 0
  /\ hook = [w \in Workers |-> <<"none", "none">>]
  /\ progress = [w \in Workers |-> 0]
  /\ rows = [w \in Workers |-> {}]
  /\ failed = 0
  /\ flag = [w \in Workers |-> FALSE]
  /\ at = [c \in Calls |-> "idle"]
  /\ to = [c \in Calls |-> 0]
  /\ run = [c \in Calls |-> "none"]
  /\ got = [c \in Calls |-> "none"]
  /\ beside = [c \in Calls |-> {}]
  /\ signal = {} /\ asked = {} /\ late = {} /\ told = {}

Blocked(w) == hook[w][2] = "running" /\ hook[w][1] \in OnLoop
Serves(w) == up[w] = "serving" /\ ~Blocked(w)
Works(w) == up[w] \in {"serving", "stopping"}
Answers(w) == Works(w) /\ ~Blocked(w)
Running(w) == hook[w][2] = "running" \/ \E c \in Calls : to[c] = w /\ run[c] = "running"

-----------------------------------------------------------------------------
(* The life of a worker, as the proxy drives it.                           *)

(* _journal_event: an ambient worker leaves no rows but of an abnormal     *)
(* death.  The append may raise.                                           *)
Journalled(row) == ~Ambient \/ row = "died_abnormally"

Append(w, row) ==
  /\ rows' = IF Journalled(row) THEN [rows EXCEPT ![w] = @ \cup {row}] ELSE rows
  /\ UNCHANGED failed

AppendRaises(w, row) ==
  /\ Journalled(row) /\ failed < MaxFailures
  /\ failed' = failed + 1
  /\ UNCHANGED rows

(* The proxy's constructor raised, or load_capability gave up: nobody has  *)
(* the proxy any more, whatever became of the process.                     *)
Dropped == cur' = 0 /\ loaded' = FALSE /\ op' = NoOp

(* SIGTERM to the process group.                                           *)
Signalled(w) == [up EXCEPT ![w] = IF @ \in {"starting", "serving"} THEN "stopping" ELSE @]

(* _start_process: Popen, the pump, and the row of the spawn.              *)
Spawn ==
  /\ host = "up" /\ op = NoOp /\ cur = 0
  /\ \E w \in Workers :
       /\ up[w] = "none" /\ \A v \in 1 .. w - 1 : up[v] # "none"
       /\ up' = [up EXCEPT ![w] = "starting"]
       /\ held' = held \cup {w}
       /\ \/ /\ Append(w, "spawned")
             /\ cur' = w /\ loaded' = FALSE /\ op' = [NoOp EXCEPT !.name = "spawn"]
          \/ AppendRaises(w, "spawned") /\ Dropped
  /\ UNCHANGED <<host, rc, faults, hook, progress, flag, callVars, cancelVars>>

(* The worker has imported its capability and adapters, and serves.        *)
Boot(w) ==
  /\ up[w] = "starting"
  /\ up' = [up EXCEPT ![w] = "serving"]
  /\ UNCHANGED <<hostVars, rc, faults, hook, progress, journalVars, flag, callVars,
                 cancelVars>>

(* A startup error, a crash, or the kernel's OOM killer.                   *)
Dies(w, code) ==
  /\ up' = [up EXCEPT ![w] = "dead"]
  /\ rc' = [rc EXCEPT ![w] = code]
  /\ hook' = [hook EXCEPT ![w] = <<@[1], "lost">>]
  /\ UNCHANGED <<host, held, cur, loaded, op, progress, journalVars, flag, callVars,
                 cancelVars>>

Fails(w) ==
  /\ up[w] \in {"starting", "serving", "stopping"}
  /\ faults < MaxFaults /\ faults' = faults + 1
  /\ Dies(w, "exit") \/ Dies(w, "kill")

(* A worker told to stop runs the shutdown of its server, which waits for  *)
(* what the capability is doing; terminate_process does not.               *)
Exit(w) == up[w] = "stopping" /\ ~Running(w) /\ Dies(w, "term") /\ UNCHANGED faults

(* terminate_process waited long enough: SIGKILL, which ends the process   *)
(* when the kernel gets to it.                                             *)
Killing(w) ==
  /\ up[w] = "stopping" /\ up' = [up EXCEPT ![w] = "killed"]
  /\ UNCHANGED <<hostVars, rc, faults, hook, progress, journalVars, flag, callVars,
                 cancelVars>>

KillExpires_Cleanup == op.name = "cleanup" /\ Killing(cur)

KillExpires == op.name \in {"cleanup", "stall", "mismatch"} /\ Killing(cur)

KernelKills(w) == up[w] = "killed" /\ Dies(w, "kill") /\ UNCHANGED faults

(* _wait_for_ready.  The worker answers /health with its substrate.  A     *)
(* configuration is then sent, if there is one.                            *)
Ready ==
  /\ op.name = "spawn" /\ up[cur] = "serving"
  /\ \/ /\ Append(cur, "ready")
        /\ \/ op' = NoOp /\ loaded' = TRUE /\ UNCHANGED hook
           \/ /\ op' = [name |-> "initialize", silent |-> 0, seen |-> Unseen]
              /\ hook' = [hook EXCEPT ![cur] = <<"initialize", "asked">>]
              /\ UNCHANGED loaded
        /\ UNCHANGED cur
     \/ AppendRaises(cur, "ready") /\ Dropped /\ UNCHANGED hook
  /\ UNCHANGED <<host, held, procVars, progress, flag, callVars, cancelVars>>

Mismatch ==
  /\ op.name = "spawn" /\ up[cur] = "serving"
  /\ \/ /\ Append(cur, "died_abnormally")
        /\ up' = Signalled(cur) /\ op' = [NoOp EXCEPT !.name = "mismatch"]
        /\ UNCHANGED <<cur, loaded>>
     \/ AppendRaises(cur, "died_abnormally") /\ Dropped /\ UNCHANGED up
  /\ UNCHANGED <<host, held, rc, faults, hook, progress, flag, callVars, cancelVars>>

(* The startup budget is spent; the process is left as it is.              *)
StartupTimeout ==
  /\ op.name = "spawn"
  /\ Append(cur, "died_abnormally") \/ AppendRaises(cur, "died_abnormally")
  /\ Dropped
  /\ UNCHANGED <<host, held, procVars, hook, progress, flag, callVars, cancelVars>>

Terminated_Unawaited ==
  /\ op.name \in {"cleanup", "stall", "mismatch"}
  /\ up[cur] \in {"stopping", "killed", "dead"}
  /\ held' = IF op.name = "stall" THEN held ELSE held \ {cur}
  /\ IF op.name = "stall" /\ loaded
     THEN op' = NoOp /\ UNCHANGED <<cur, loaded>>
     ELSE Dropped
  /\ IF op.name = "cleanup"
     THEN Append(cur, "died") \/ AppendRaises(cur, "died")
     ELSE UNCHANGED journalVars
  /\ UNCHANGED <<host, procVars, hook, progress, flag, callVars, cancelVars>>

(* The end of terminate_process, by what had called it.  It returns once   *)
(* the process has exited, or two seconds after SIGKILL whether or not it  *)
(* has; the proxy lets go of the process either way.                       *)
Terminated ==
  /\ op.name \in {"cleanup", "stall", "mismatch"} /\ up[cur] \in {"killed", "dead"}
  /\ held' = IF op.name = "stall" THEN held ELSE held \ {cur}
  /\ IF op.name = "stall" /\ loaded
     THEN op' = NoOp /\ UNCHANGED <<cur, loaded>>
     ELSE Dropped
  /\ IF op.name = "cleanup"
     THEN Append(cur, "died") \/ AppendRaises(cur, "died")
     ELSE UNCHANGED journalVars
  /\ UNCHANGED <<host, procVars, hook, progress, flag, callVars, cancelVars>>

(* cleanup(): the worker is asked to clean up, then terminated.            *)
Cleanup ==
  /\ host = "up" /\ op = NoOp /\ loaded
  /\ op' = [NoOp EXCEPT !.name = "cleanup"]
  /\ up' = Signalled(cur)
  /\ UNCHANGED <<host, held, cur, loaded, rc, faults, hook, progress, journalVars, flag,
                 callVars, cancelVars>>

-----------------------------------------------------------------------------
(* Lifecycle calls.                                                        *)

(* prefetch(), reconfigure(), or the initialize() of an update.            *)
Ask(name) ==
  /\ host = "up" /\ op = NoOp /\ loaded
  /\ up[cur] # "dead" /\ hook[cur][2] # "running"
  /\ op' = [name |-> name, silent |-> 0, seen |-> Unseen]
  /\ hook' = [hook EXCEPT ![cur] = <<name, "asked">>]
  /\ UNCHANGED <<host, held, cur, loaded, procVars, progress, journalVars, flag, callVars,
                 cancelVars>>

HookBegins_Resets(w) ==
  /\ hook[w][2] = "asked" /\ Serves(w)
  /\ hook' = [hook EXCEPT ![w][2] = "running"]
  /\ flag' = [flag EXCEPT ![w] = FALSE]
  /\ UNCHANGED <<hostVars, procVars, progress, journalVars, callVars, cancelVars>>

HookBegins(w) ==
  /\ hook[w][2] = "asked" /\ Serves(w)
  /\ hook' = [hook EXCEPT ![w][2] = "running"]
  /\ UNCHANGED <<hostVars, procVars, progress, journalVars, flag, callVars, cancelVars>>

HookReturns(w) ==
  /\ hook[w][2] = "running" /\ Works(w)
  /\ \E end \in {"ok", "raised"} : hook' = [hook EXCEPT ![w][2] = end]
  /\ UNCHANGED <<hostVars, procVars, progress, journalVars, flag, callVars, cancelVars>>

(* report_progress, by the lifecycle call or by any other.                 *)
ReportProgress(w) ==
  /\ Running(w) /\ Works(w) /\ progress[w] < MaxReports
  /\ progress' = [progress EXCEPT ![w] = @ + 1]
  /\ UNCHANGED <<hostVars, procVars, hook, journalVars, flag, callVars, cancelVars>>

Watched == {"initialize", "prefetch"}
Pending == hook[cur][2] \in {"asked", "running"}

Poll_AnyAnswer ==
  /\ op.name \in Watched /\ Pending /\ op.silent < Threshold
  /\ op' = IF Answers(cur) THEN [op EXCEPT !.silent = 0, !.seen = progress[cur]]
                           ELSE [op EXCEPT !.silent = @ + 1]
  /\ UNCHANGED <<host, held, cur, loaded, procVars, hook, progress, journalVars, flag,
                 callVars, cancelVars>>

(* One interval of _run_prefetch_with_stall_detection.                     *)
Poll ==
  /\ op.name \in Watched /\ Pending /\ op.silent < Threshold
  /\ op' = IF Answers(cur) /\ progress[cur] # op.seen
           THEN [op EXCEPT !.silent = 0, !.seen = progress[cur]]
           ELSE [op EXCEPT !.silent = @ + 1]
  /\ UNCHANGED <<host, held, cur, loaded, procVars, hook, progress, journalVars, flag,
                 callVars, cancelVars>>

Stall ==
  /\ op.name \in Watched /\ Pending /\ op.silent = Threshold
  /\ op' = [NoOp EXCEPT !.name = "stall"]
  /\ up' = Signalled(cur)
  /\ UNCHANGED <<host, held, cur, loaded, rc, faults, hook, progress, journalVars, flag,
                 callVars, cancelVars>>

(* The POST came back, or its connection broke.  A load that fails here    *)
(* leaves the worker behind.                                               *)
Replied ==
  /\ op.name \in Watched \cup {"reconfigure"}
  /\ \/ hook[cur][2] \in {"ok", "raised"} /\ Answers(cur)
     \/ hook[cur][2] = "lost"
  /\ hook' = [hook EXCEPT ![cur] = <<"none", "none">>]
  /\ IF loaded \/ hook[cur][2] = "ok"
     THEN op' = NoOp /\ loaded' = TRUE /\ UNCHANGED cur
     ELSE Dropped
  /\ UNCHANGED <<host, held, procVars, progress, journalVars, flag, callVars, cancelVars>>

-----------------------------------------------------------------------------
(* Calls.                                                                  *)

Waiting == {c \in Calls : at[c] = "waiting"}
Active == Waiting \cup (signal \ late)

(* execute, execute_task and execute_stream: a request without a deadline. *)
Post(c) ==
  /\ host = "up" /\ loaded /\ at[c] = "idle" /\ Cardinality(Active) < Cap
  /\ at' = [at EXCEPT ![c] = "waiting"]
  /\ to' = [to EXCEPT ![c] = cur]
  /\ run' = [run EXCEPT ![c] = "sent"]
  /\ beside' = [d \in Calls |-> IF d = c THEN Active
                                ELSE IF d \in Active THEN beside[d] \cup {c} ELSE beside[d]]
  /\ UNCHANGED <<got, hostVars, procVars, hook, progress, journalVars, flag, cancelVars>>

Begin_NoReset(c) ==
  /\ run[c] = "sent" /\ Serves(to[c])
  /\ \/ run' = [run EXCEPT ![c] = "running"]
     \/ c \in Tasks /\ run' = [run EXCEPT ![c] = "raised"]
  /\ UNCHANGED <<flag, at, to, got, beside, hostVars, procVars, hook, progress, journalVars,
                 cancelVars>>

(* The endpoint: a task without an adapter or method is answered first.    *)
Begin(c) ==
  /\ run[c] = "sent" /\ Serves(to[c])
  /\ \/ /\ run' = [run EXCEPT ![c] = "running"]
        /\ flag' = [flag EXCEPT ![to[c]] = FALSE]
     \/ /\ c \in Tasks /\ run' = [run EXCEPT ![c] = "raised"]
        /\ UNCHANGED flag
  /\ UNCHANGED <<at, to, got, beside, hostVars, procVars, hook, progress, journalVars,
                 cancelVars>>

(* What cancel() set is what check_cancel() raises on.                     *)
CheckCancel(c) == flag[to[c]]

(* The capability returns or raises, when it likes; or its check_cancel()  *)
(* sees the flag.                                                          *)
CallReturns(c) ==
  /\ run[c] = "running" /\ Works(to[c])
  /\ \E end \in {"ok", "raised"} \cup (IF CheckCancel(c) THEN {"cancelled"} ELSE {}) :
       run' = [run EXCEPT ![c] = end]
  /\ UNCHANGED <<at, to, got, beside, hostVars, procVars, hook, progress, journalVars, flag,
                 cancelVars>>

Ended(c, how) ==
  /\ at' = [at EXCEPT ![c] = IF @ = "waiting" THEN "ended" ELSE @]
  /\ got' = [got EXCEPT ![c] = IF at[c] = "waiting" THEN how ELSE @]
  /\ run' = [run EXCEPT ![c] = "none"]
  /\ UNCHANGED <<to, beside, hostVars, procVars, hook, progress, flag, cancelVars>>

(* _harvest_worker_accounts: what a task recorded comes with its answer,   *)
(* to a host that may have given the job up; an append that raises is      *)
(* logged.                                                                 *)
Harvest(c) ==
  IF c \in Tasks /\ run[c] # "cancelled" /\ host = "up"
  THEN Append(to[c], "account") \/ AppendRaises(to[c], "account")
  ELSE UNCHANGED journalVars

Respond(c) ==
  /\ run[c] \in {"ok", "raised", "cancelled"} /\ Answers(to[c])
  /\ Harvest(c) /\ Ended(c, run[c])

(* _check_worker_death, if the proxy still has its process.  A stream is   *)
(* not looked into.                                                        *)
Classified(c) ==
  CASE c \in Streams \/ to[c] \notin held -> "transport"
    [] rc[to[c]] = "kill" -> "oom"
    [] OTHER -> "died"

Fault(c) ==
  /\ run[c] # "none" /\ up[to[c]] = "dead"
  /\ Ended(c, Classified(c)) /\ UNCHANGED journalVars

-----------------------------------------------------------------------------
(* Cancellation.                                                           *)

SendCancel(c) ==
  /\ host = "up" /\ at[c] = "waiting" /\ c \notin asked
  /\ asked' = asked \cup {c} /\ signal' = signal \cup {c}
  /\ UNCHANGED <<late, told, hostVars, procVars, hook, progress, journalVars, flag, callVars>>

(* /cancel, in a thread of the worker.                                     *)
TakeCancel(c) ==
  /\ c \in signal /\ Serves(to[c])
  /\ flag' = [flag EXCEPT ![to[c]] = TRUE]
  /\ signal' = signal \ {c}
  /\ told' = IF run[c] = "running" THEN told \cup {c} ELSE told
  /\ UNCHANGED <<asked, late, hostVars, procVars, hook, progress, journalVars, callVars>>

CancelFails(c) ==
  /\ c \in signal /\ up[to[c]] = "dead"
  /\ signal' = signal \ {c}
  /\ UNCHANGED <<asked, late, told, hostVars, procVars, hook, progress, journalVars, flag,
                 callVars>>

(* Two seconds pass without an answer.  The exception fails the job, while *)
(* the request and the call stay where they are.                           *)
CancelTimesOut(c) ==
  /\ host = "up" /\ c \in signal \ late /\ Cardinality(late) < MaxTimeouts
  /\ late' = late \cup {c}
  /\ at' = [at EXCEPT ![c] = "ended"]
  /\ got' = [got EXCEPT ![c] = IF @ = "none" THEN "abandoned" ELSE @]
  /\ UNCHANGED <<to, run, beside, signal, asked, told, hostVars, procVars, hook, progress,
                 journalVars, flag>>

-----------------------------------------------------------------------------
(* The end of the host.                                                    *)

HostDies ==
  /\ host = "up"
  /\ host' = "zombie" /\ held' = {} /\ Dropped
  /\ at' = [c \in Calls |-> "ended"]
  /\ signal' = {}
  /\ UNCHANGED <<to, run, got, beside, asked, late, told, procVars, hook, progress,
                 journalVars, flag>>

HostReaped ==
  /\ host = "zombie" /\ host' = "gone"
  /\ UNCHANGED <<held, cur, loaded, op, procVars, hook, progress, journalVars, flag,
                 callVars, cancelVars>>

ParentMonitor_Gone(w) ==
  /\ host = "gone" /\ up[w] \in {"starting", "serving"}
  /\ up' = Signalled(w)
  /\ UNCHANGED <<hostVars, rc, faults, hook, progress, journalVars, flag, callVars,
                 cancelVars>>

(* parent_monitor: the suicide pact.                                       *)
ParentMonitor(w) ==
  /\ host # "up" /\ up[w] \in {"starting", "serving"}
  /\ up' = Signalled(w)
  /\ UNCHANGED <<hostVars, rc, faults, hook, progress, journalVars, flag, callVars,
                 cancelVars>>

-----------------------------------------------------------------------------
(* What the host, and the machinery of the workers, does of itself.        *)
System ==
  \/ Ready \/ StartupTimeout \/ KillExpires \/ Terminated
  \/ Poll \/ Stall \/ Replied
  \/ \E w \in Workers : Exit(w) \/ KernelKills(w) \/ HookBegins(w) \/ ParentMonitor(w)
  \/ \E c \in Calls : Begin(c) \/ Respond(c) \/ Fault(c) \/ TakeCancel(c) \/ CancelFails(c)

(* What a capability does.                                                 *)
Tool ==
  \/ \E w \in Workers : HookReturns(w) \/ ReportProgress(w)
  \/ \E c \in Calls : CallReturns(c)

Next ==
  \/ System \/ Tool
  \/ Spawn \/ Mismatch \/ Cleanup \/ HostDies \/ HostReaped
  \/ \E name \in Watched \cup {"reconfigure"} : Ask(name)
  \/ \E w \in Workers : Boot(w) \/ Fails(w)
  \/ \E c \in Calls : Post(c) \/ SendCancel(c) \/ CancelTimesOut(c)

Spec == Init /\ [][Next]_vars

(* The host's loop and the event loop of each worker serve what waits for  *)
(* them; a request outlives the times when the loop is busy, hence SF.     *)
(* The kernel ends what it was told to kill, in its own time.              *)
(* Nothing makes a capability return, a caller act or a host end.          *)
Served(c) == Begin(c) \/ Respond(c) \/ TakeCancel(c) \/ Fault(c) \/ CancelFails(c)

Fairness ==
  /\ WF_vars(Ready \/ StartupTimeout \/ KillExpires \/ Terminated \/ Poll \/ Stall \/ Replied)
  /\ \A w \in Workers : WF_vars(Exit(w) \/ KernelKills(w) \/ ParentMonitor(w)) /\ SF_vars(HookBegins(w))
  /\ \A c \in Calls : SF_vars(Served(c))

LiveSpec == Spec /\ Fairness

-----------------------------------------------------------------------------
Outcomes == {"none", "ok", "raised", "cancelled", "oom", "died", "transport", "abandoned"}

TypeOK ==
  /\ host \in {"up", "zombie", "gone"}
  /\ up \in [Workers -> {"none", "starting", "serving", "stopping", "killed", "dead"}]
  /\ rc \in [Workers -> {"none", "exit", "term", "kill"}]
  /\ held \subseteq Workers /\ cur \in 0 .. MaxWorkers /\ loaded \in BOOLEAN
  /\ op.silent \in 0 .. Threshold /\ op.seen \in Unseen .. MaxReports
  /\ op.name # "none" => cur # 0
  /\ loaded => cur # 0 /\ host = "up"
  /\ progress \in [Workers -> 0 .. MaxReports]
  /\ flag \in [Workers -> BOOLEAN]
  /\ at \in [Calls -> {"idle", "waiting", "ended"}]
  /\ to \in [Calls -> 0 .. MaxWorkers]
  /\ run \in [Calls -> {"none", "sent", "running", "ok", "raised", "cancelled"}]
  /\ got \in [Calls -> Outcomes]
  /\ signal \subseteq asked /\ late \subseteq asked /\ told \subseteq asked

(* A cancel that reached a call stays visible to its check_cancel() until  *)
(* the call ends, if the instance ran it alone.                            *)
CancelHeld ==
  \A c \in told :
    run[c] = "running" /\ beside[c] = {} /\ late = {} => flag[to[c]]

(* Only calls somebody asked to cancel come back cancelled, unless calls   *)
(* shared the worker or a cancel request was given up.                     *)
OnlyTheAsked ==
  \A c \in Calls :
    got[c] = "cancelled" /\ late = {} => ({c} \cup beside[c]) \cap asked # {}

(* While the host lives, a process no proxy has any more has exited or was *)
(* sent SIGKILL, and the journal has its end unless an append raised; an   *)
(* unload lets go of its process.  So nothing that was loaded holds the    *)
(* GPU for good, though it may still hold it for a while.                  *)
NoneLeftBehind ==
  [][host' = "up" =>
       /\ loaded /\ ~loaded' => cur \notin held'
       /\ \A w \in Workers : up'[w] # "none" /\ w \notin held'
            => /\ up'[w] \in {"killed", "dead"}
               /\ \/ Ambient \/ failed' > 0
                  \/ rows'[w] \cap {"died", "died_abnormally"} # {}]_vars

(* "Progress-bounded waiting": a load or a prefetch ends even if the       *)
(* capability hangs in it for ever.                                        *)
LifecycleEnds == op.name \in Watched ~> op.name \notin Watched

(* A caller gets an answer, whatever becomes of the worker, if calls and   *)
(* reconfigurations return: loads and prefetches may hang.                 *)
ToolReturns ==
  /\ \A c \in Calls : run[c] = "running" ~> run[c] # "running"
  /\ \A w \in Workers : hook[w] = <<"reconfigure", "running">>
                          ~> hook[w] # <<"reconfigure", "running">>

CallsEnd == ToolReturns => \A c \in Calls : at[c] = "waiting" ~> at[c] = "ended"

(* "If the Host process dies, the Worker must terminate itself", as soon   *)
(* as it notices a zombie for a dead host, if the capability returns.      *)
WorkReturns ==
  /\ \A c \in Calls : run[c] = "running" ~> run[c] # "running"
  /\ \A w \in Workers : hook[w][2] = "running" ~> hook[w][2] # "running"

SuicidePact == WorkReturns => (host # "up" ~> \A w \in Workers : up[w] \in {"none", "dead"})
=============================================================================

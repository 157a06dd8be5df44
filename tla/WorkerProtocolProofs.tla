-------------------------- MODULE WorkerProtocolProofs --------------------------
(***************************************************************************)
(* Theorems about WorkerProtocol, for every set of calls, however many     *)
(* workers are spawned, and whatever crashes, hangs or times out.          *)
(***************************************************************************)
EXTENDS WorkerProtocol, TLAPS

USE DEF hostVars, procVars, journalVars, callVars, cancelVars

-----------------------------------------------------------------------------
(* Types.  What makes them inductive: the host is in an operation on a     *)
(* worker only while it is up.                                             *)

Operations == {"none", "spawn", "mismatch", "cleanup", "stall", "initialize", "prefetch",
               "reconfigure"}
Hook == {"none", "initialize", "prefetch", "reconfigure"}
          \X {"none", "asked", "running", "ok", "raised", "lost"}
Op == [name : Operations, silent : 0 .. Threshold, seen : Unseen .. MaxReports]
Rows == {"spawned", "ready", "died", "died_abnormally", "account"}

HostTyped ==
  /\ host \in {"up", "zombie", "gone"}
  /\ held \subseteq Workers /\ cur \in 0 .. MaxWorkers /\ loaded \in BOOLEAN
  /\ op \in Op
  /\ op.name # "none" => cur # 0 /\ host = "up"
  /\ loaded => cur # 0 /\ host = "up"

WorkersTyped ==
  /\ up \in [Workers -> {"none", "starting", "serving", "stopping", "killed", "dead"}]
  /\ rc \in [Workers -> {"none", "exit", "term", "kill"}]
  /\ hook \in [Workers -> Hook]
  /\ progress \in [Workers -> 0 .. MaxReports]
  /\ rows \in [Workers -> SUBSET Rows]
  /\ flag \in [Workers -> BOOLEAN]
  /\ failed \in Nat /\ faults \in Nat

CallsTyped ==
  /\ at \in [Calls -> {"idle", "waiting", "ended"}]
  /\ to \in [Calls -> 0 .. MaxWorkers]
  /\ run \in [Calls -> {"none", "sent", "running", "ok", "raised", "cancelled"}]
  /\ got \in [Calls -> Outcomes]
  /\ beside \in [Calls -> SUBSET Calls]
  /\ \A c \in Calls : run[c] # "none" => to[c] # 0
  /\ asked \subseteq Calls
  /\ signal \subseteq asked /\ late \subseteq asked /\ told \subseteq asked

Typed == HostTyped /\ WorkersTyped /\ CallsTyped

LEMMA Bounds ==
  /\ MaxWorkers \in Nat /\ Threshold \in Nat \ {0}
  /\ MaxReports \in Nat /\ MaxFailures \in Nat /\ MaxFaults \in Nat
  /\ \A w \in Workers : w \in 0 .. MaxWorkers /\ w # 0
  /\ \A w \in 0 .. MaxWorkers : w # 0 => w \in Workers
  /\ Unseen \in Unseen .. MaxReports /\ 0 \in Unseen .. MaxReports
  /\ 0 .. MaxReports \subseteq Unseen .. MaxReports
BY ProtocolAssumption DEF Workers, Unseen

(* An operation that has just begun, and what is left when one ends.       *)
LEMMA Begun ==
  ASSUME NEW name \in Operations
  PROVE  /\ [NoOp EXCEPT !.name = name] \in Op
         /\ [NoOp EXCEPT !.name = name].name = name
         /\ [name |-> name, silent |-> 0, seen |-> Unseen] \in Op
BY Bounds DEF NoOp, Op

LEMMA Nothing == NoOp \in Op /\ NoOp.name = "none"
BY Bounds DEF NoOp, Op, Operations

LEMMA TypedInit == Init => Typed
<1> SUFFICES ASSUME Init PROVE Typed
  OBVIOUS
<1>1. HostTyped
  <2>1. host = "up" /\ held = {} /\ cur \in 0 .. MaxWorkers /\ loaded = FALSE
    BY Bounds DEF Init
  <2>2. op \in Op /\ op.name = "none"
    BY Nothing DEF Init
  <2> QED
    BY <2>1, <2>2 DEF HostTyped
<1>2. WorkersTyped
  BY Bounds DEF Init, WorkersTyped, Hook, Rows
<1>3. CallsTyped
  BY Bounds DEF Init, CallsTyped, Outcomes
<1> QED
  BY <1>1, <1>2, <1>3 DEF Typed

(* The current worker of an operation, and of a loaded capability.         *)
LEMMA Current ==
  HostTyped /\ (op.name # "none" \/ loaded) => cur \in Workers
BY Bounds DEF HostTyped

LEMMA Journal ==
  ASSUME WorkersTyped, NEW w \in Workers, NEW row \in Rows,
         Append(w, row) \/ AppendRaises(w, row)
  PROVE  rows' \in [Workers -> SUBSET Rows] /\ failed' \in Nat
BY DEF WorkersTyped, Append, AppendRaises

LEMMA Dropping ==
  ASSUME HostTyped, Dropped, held' \subseteq Workers, host' \in {"up", "zombie", "gone"}
  PROVE  HostTyped'
<1>1. op' \in Op /\ op'.name = "none"
  BY Nothing DEF Dropped
<1>2. cur' \in 0 .. MaxWorkers
  BY Bounds DEF Dropped
<1>3. loaded' = FALSE
  BY DEF Dropped
<1> QED
  BY <1>1, <1>2, <1>3 DEF HostTyped

LEMMA HostNext == Typed /\ [Next]_vars => HostTyped'
<1> SUFFICES ASSUME Typed, [Next]_vars PROVE HostTyped'
  OBVIOUS
<1>t. HostTyped /\ WorkersTyped
  BY DEF Typed
<1>n. /\ host \in {"up", "zombie", "gone"} /\ held \subseteq Workers
      /\ cur \in 0 .. MaxWorkers /\ loaded \in BOOLEAN
  BY <1>t DEF HostTyped
<1>1. CASE UNCHANGED hostVars
  BY <1>t, <1>1 DEF HostTyped
<1>2. CASE Spawn
  <2>1. PICK w \in Workers :
          /\ held' = held \cup {w}
          /\ \/ cur' = w /\ loaded' = FALSE /\ op' = [NoOp EXCEPT !.name = "spawn"]
             \/ Dropped
    BY <1>2 DEF Spawn
  <2>2. host = "up" /\ host' = "up" /\ held' \subseteq Workers
    BY <1>2, <1>n, <2>1 DEF Spawn
  <2>3. CASE Dropped
    BY <1>t, <2>2, <2>3, Dropping
  <2>4. CASE cur' = w /\ loaded' = FALSE /\ op' = [NoOp EXCEPT !.name = "spawn"]
    <3>1. op' \in Op
      BY <2>4, Begun DEF Operations
    <3>2. cur' \in 0 .. MaxWorkers /\ cur' # 0
      BY <2>4, Bounds
    <3> QED
      BY <2>2, <2>4, <3>1, <3>2 DEF HostTyped
  <2> QED
    BY <2>1, <2>3, <2>4
<1>3. CASE Ready
  <2>1. /\ host' = host /\ held' = held /\ op.name = "spawn"
        /\ \/ Dropped
           \/ op' = NoOp /\ loaded' = TRUE /\ UNCHANGED cur
           \/ /\ op' = [name |-> "initialize", silent |-> 0, seen |-> Unseen]
              /\ UNCHANGED <<cur, loaded>>
    BY <1>3 DEF Ready
  <2>2. host = "up" /\ cur # 0
    BY <1>t, <2>1 DEF HostTyped
  <2>3. NoOp \in Op /\ [name |-> "initialize", silent |-> 0, seen |-> Unseen] \in Op
    BY Begun, Nothing DEF Operations
  <2>4. CASE Dropped
    BY <1>n, <1>t, <2>1, <2>4, Dropping
  <2>5. CASE ~Dropped
    <3>1. op' \in Op /\ cur' = cur /\ loaded' \in BOOLEAN
      BY <1>n, <2>1, <2>3, <2>5
    <3> QED
      BY <1>n, <2>1, <2>2, <3>1 DEF HostTyped
  <2> QED
    BY <2>4, <2>5
<1>4. ASSUME NEW name \in Operations, op' = [NoOp EXCEPT !.name = name],
             UNCHANGED <<host, held, cur, loaded>>, host = "up", cur # 0
      PROVE  HostTyped'
  BY <1>4, <1>n, Begun DEF HostTyped
<1>5. CASE Mismatch
  <2>1. CASE Dropped
    BY <1>5, <1>n, <1>t, <2>1, Dropping DEF Mismatch
  <2>2. CASE ~Dropped
    BY <1>4, <1>5, <1>t, <2>2 DEF Mismatch, HostTyped, Operations
  <2> QED
    BY <2>1, <2>2
<1>6. CASE Cleanup
  BY <1>4, <1>6, <1>t DEF Cleanup, HostTyped, Operations
<1>7. CASE Stall
  BY <1>4, <1>7, <1>t DEF Stall, HostTyped, Operations, Watched
<1>8. CASE StartupTimeout
  BY <1>8, <1>n, <1>t, Dropping DEF StartupTimeout
<1>9. CASE HostDies
  BY <1>9, <1>t, Dropping DEF HostDies
<1>10. ASSUME op' = NoOp, UNCHANGED <<host, cur>>, held' \subseteq Workers,
              loaded' \in BOOLEAN, host = "up", cur # 0
       PROVE  HostTyped'
  BY <1>10, <1>n, Nothing DEF HostTyped
<1>11. CASE Terminated
  <2>1. op.name # "none" /\ host' = host /\ held' \subseteq Workers
    BY <1>11, <1>n DEF Terminated
  <2>2. host = "up" /\ cur # 0
    BY <1>t, <2>1 DEF HostTyped
  <2>3. Dropped \/ (op' = NoOp /\ UNCHANGED <<cur, loaded>>)
    BY <1>11 DEF Terminated
  <2> QED
    BY <1>10, <1>n, <1>t, <2>1, <2>2, <2>3, Dropping
<1>12. CASE Replied
  <2>1. op.name # "none" /\ host' = host /\ held' = held
    BY <1>12 DEF Replied, Watched
  <2>2. host = "up" /\ cur # 0
    BY <1>t, <2>1 DEF HostTyped
  <2>3. Dropped \/ (op' = NoOp /\ loaded' = TRUE /\ UNCHANGED cur)
    BY <1>12 DEF Replied
  <2> QED
    BY <1>10, <1>n, <1>t, <2>1, <2>2, <2>3, Dropping
<1>13. ASSUME NEW name \in Watched \cup {"reconfigure"}, Ask(name) PROVE HostTyped'
  <2>1. /\ op' = [name |-> name, silent |-> 0, seen |-> Unseen]
        /\ host = "up" /\ loaded /\ UNCHANGED <<host, held, cur, loaded>>
    BY <1>13 DEF Ask
  <2>2. op' \in Op
    BY <2>1, Begun DEF Operations, Watched
  <2> QED
    BY <1>t, <2>1, <2>2 DEF HostTyped
<1>14. CASE Poll
  <2>1. cur \in Workers
    BY <1>14, <1>t, Current DEF Poll, Watched
  <2>2. op.silent + 1 \in 0 .. Threshold /\ 0 \in 0 .. Threshold
    BY <1>14, <1>t, Bounds DEF Poll, HostTyped, Op
  <2>3. progress[cur] \in Unseen .. MaxReports
    BY <1>t, <2>1, Bounds DEF WorkersTyped
  <2>4. /\ \/ op' = [op EXCEPT !.silent = 0, !.seen = progress[cur]]
           \/ op' = [op EXCEPT !.silent = op.silent + 1]
        /\ UNCHANGED <<host, held, cur, loaded>>
    BY <1>14 DEF Poll
  <2>5. op' \in Op /\ op'.name = op.name
    BY <1>t, <2>2, <2>3, <2>4 DEF HostTyped, Op
  <2> QED
    BY <1>t, <2>4, <2>5 DEF HostTyped
<1>15. CASE HostReaped
  BY <1>15, <1>t DEF HostTyped, HostReaped
<1> QED
  BY <1>1, <1>2, <1>3, <1>5, <1>6, <1>7, <1>8, <1>9, <1>11, <1>12, <1>13, <1>14, <1>15
  DEF Next, System, Tool, vars, KillExpires, Killing, KernelKills, Exit, Fails, Dies, HookBegins, ParentMonitor,
      Begin, Respond, Fault, Ended, TakeCancel, CancelFails, HookReturns, ReportProgress,
      CallReturns, Boot, Post, SendCancel, CancelTimesOut
(* A hook that moves on, or ends with its worker.                          *)
LEMMA HookMoves ==
  ASSUME WorkersTyped, NEW w \in Workers,
         NEW s \in {"none", "asked", "running", "ok", "raised", "lost"}
  PROVE  /\ [hook EXCEPT ![w][2] = s] \in [Workers -> Hook]
         /\ [hook EXCEPT ![w] = <<@[1], s>>] \in [Workers -> Hook]
BY DEF WorkersTyped, Hook

LEMMA WorkersNext == Typed /\ [Next]_vars => WorkersTyped'
<1> SUFFICES ASSUME Typed, [Next]_vars PROVE WorkersTyped'
  OBVIOUS
<1>t. HostTyped /\ WorkersTyped /\ CallsTyped
  BY DEF Typed
<1>s. \A row \in {"spawned", "ready", "died", "died_abnormally", "account"} : row \in Rows
  BY DEF Rows
<1>c. op.name # "none" \/ loaded => cur \in Workers
  BY <1>t, Current
<1>u. \A w \in Workers :
        Signalled(w) \in
          [Workers -> {"none", "starting", "serving", "stopping", "killed", "dead"}]
  BY <1>t DEF WorkersTyped, Signalled
<1>1. CASE UNCHANGED <<procVars, hook, progress, journalVars, flag>>
  BY <1>t, <1>1 DEF WorkersTyped
<1>2. CASE Spawn
  <2>1. PICK w \in Workers :
          /\ up' = [up EXCEPT ![w] = "starting"]
          /\ Append(w, "spawned") \/ AppendRaises(w, "spawned")
    BY <1>2 DEF Spawn
  <2>2. rows' \in [Workers -> SUBSET Rows] /\ failed' \in Nat
    BY <1>s, <1>t, <2>1, Journal
  <2> QED
    BY <1>2, <1>t, <2>1, <2>2 DEF WorkersTyped, Spawn
<1>3. ASSUME NEW w \in Workers, Boot(w) PROVE WorkersTyped'
  BY <1>3, <1>t DEF WorkersTyped, Boot
<1>4. ASSUME NEW w \in Workers, NEW code \in {"exit", "term", "kill"}, Dies(w, code),
             faults' \in Nat
      PROVE  WorkersTyped'
  <2>1. hook' \in [Workers -> Hook]
    BY <1>4, <1>t, HookMoves DEF Dies
  <2> QED
    BY <1>4, <1>t, <2>1 DEF WorkersTyped, Dies
<1>5. ASSUME NEW w \in Workers, Fails(w) \/ Exit(w) \/ KernelKills(w) PROVE WorkersTyped'
  <2>1. faults' \in Nat
    BY <1>5, <1>t DEF WorkersTyped, Fails, Exit, KernelKills
  <2> QED
    BY <1>4, <1>5, <2>1 DEF Fails, Exit, KernelKills
<1>6. CASE KillExpires
  <2>1. cur \in Workers
    BY <1>6, <1>c DEF KillExpires
  <2> QED
    BY <1>6, <1>t, <2>1 DEF WorkersTyped, KillExpires, Killing
<1>7. ASSUME NEW row \in Rows, cur \in Workers,
             \/ Append(cur, row) \/ AppendRaises(cur, row)
             \/ UNCHANGED journalVars,
             up' = up \/ up' = Signalled(cur),
             hook' \in [Workers -> Hook],
             UNCHANGED <<rc, faults, progress, flag>>
      PROVE  WorkersTyped'
  <2>1. rows' \in [Workers -> SUBSET Rows] /\ failed' \in Nat
    BY <1>7, <1>t, Journal DEF WorkersTyped
  <2>2. up' \in [Workers -> {"none", "starting", "serving", "stopping", "killed", "dead"}]
    BY <1>7, <1>t, <1>u DEF WorkersTyped
  <2> QED
    BY <1>7, <1>t, <2>1, <2>2 DEF WorkersTyped
<1>h. hook \in [Workers -> Hook]
  BY <1>t DEF WorkersTyped
<1>8. CASE Ready
  <2>1. cur \in Workers /\ (Append(cur, "ready") \/ AppendRaises(cur, "ready"))
    BY <1>8, <1>c DEF Ready
  <2>2. hook' = hook \/ hook' = [hook EXCEPT ![cur] = <<"initialize", "asked">>]
    BY <1>8 DEF Ready
  <2>3. hook' \in [Workers -> Hook]
    BY <1>h, <2>1, <2>2 DEF Hook
  <2> QED
    BY <1>7, <1>8, <1>s, <2>1, <2>3 DEF Ready
<1>9. CASE Mismatch
  BY <1>7, <1>9, <1>c, <1>h, <1>s DEF Mismatch
<1>10. CASE StartupTimeout
  BY <1>7, <1>10, <1>c, <1>h, <1>s DEF StartupTimeout
<1>11. CASE Terminated
  BY <1>7, <1>11, <1>c, <1>h, <1>s DEF Terminated
<1>12. CASE Cleanup
  BY <1>7, <1>12, <1>c, <1>h, <1>s DEF Cleanup
<1>13. CASE Stall
  BY <1>7, <1>13, <1>c, <1>h, <1>s DEF Stall, Watched
<1>14. ASSUME NEW name \in Watched \cup {"reconfigure"}, Ask(name) PROVE WorkersTyped'
  <2>1. cur \in Workers /\ hook' = [hook EXCEPT ![cur] = <<name, "asked">>]
    BY <1>14, <1>c DEF Ask
  <2>2. hook' \in [Workers -> Hook]
    BY <1>h, <2>1 DEF Hook, Watched
  <2> QED
    BY <1>7, <1>14, <1>s, <2>1, <2>2 DEF Ask
<1>15. CASE Replied
  <2>1. cur \in Workers
    BY <1>15, <1>c DEF Replied, Watched
  <2>2. hook' = [hook EXCEPT ![cur] = <<"none", "none">>]
    BY <1>15 DEF Replied
  <2>3. hook' \in [Workers -> Hook]
    BY <1>h, <2>1, <2>2 DEF Hook
  <2> QED
    BY <1>7, <1>15, <1>s, <2>1, <2>3 DEF Replied
<1>16. ASSUME NEW w \in Workers, HookBegins(w) \/ HookReturns(w) PROVE WorkersTyped'
  <2>1. PICK s \in {"running", "ok", "raised"} : hook' = [hook EXCEPT ![w][2] = s]
    BY <1>16 DEF HookBegins, HookReturns
  <2>2. hook' \in [Workers -> Hook]
    BY <1>t, <2>1, HookMoves
  <2> QED
    BY <1>16, <1>t, <2>2 DEF WorkersTyped, HookBegins, HookReturns
<1>17. ASSUME NEW w \in Workers, ReportProgress(w) PROVE WorkersTyped'
  BY <1>17, <1>t, Bounds DEF WorkersTyped, ReportProgress
<1>18. ASSUME NEW w \in Workers, ParentMonitor(w) PROVE WorkersTyped'
  BY <1>18, <1>t, <1>u DEF WorkersTyped, ParentMonitor
<1>19. ASSUME NEW c \in Calls, Begin(c) \/ TakeCancel(c) PROVE WorkersTyped'
  BY <1>19, <1>t DEF WorkersTyped, Begin, TakeCancel
<1>20. ASSUME NEW c \in Calls, Respond(c) PROVE WorkersTyped'
  <2>1. to[c] \in Workers
    BY <1>20, <1>t, Bounds DEF Respond, CallsTyped
  <2>2. Harvest(c) /\ UNCHANGED <<procVars, hook, progress, flag>>
    BY <1>20 DEF Respond, Ended
  <2>3. rows' \in [Workers -> SUBSET Rows] /\ failed' \in Nat
    BY <1>s, <1>t, <2>1, <2>2, Journal DEF Harvest, WorkersTyped
  <2> QED
    BY <1>t, <2>2, <2>3 DEF WorkersTyped
<1> QED
  BY <1>1, <1>2, <1>3, <1>5, <1>6, <1>8, <1>9, <1>10, <1>11, <1>12, <1>13, <1>14, <1>15,
     <1>16, <1>17, <1>18, <1>19, <1>20
  DEF Next, System, Tool, vars, HostDies, HostReaped, Poll, Fault, Ended, CancelFails,
      CallReturns, Post, SendCancel, CancelTimesOut

LEMMA CallsNext == Typed /\ [Next]_vars => CallsTyped'
<1> SUFFICES ASSUME Typed, [Next]_vars PROVE CallsTyped'
  OBVIOUS
<1>t. HostTyped /\ CallsTyped
  BY DEF Typed
<1>1. CASE UNCHANGED <<callVars, cancelVars>>
  BY <1>t, <1>1 DEF CallsTyped
<1>2. ASSUME NEW c \in Calls, Post(c) PROVE CallsTyped'
  <2>1. cur \in 0 .. MaxWorkers /\ cur # 0 /\ Active \subseteq Calls
    BY <1>2, <1>t DEF Post, HostTyped, CallsTyped, Active, Waiting
  <2>2. beside' \in [Calls -> SUBSET Calls]
    BY <1>2, <1>t, <2>1 DEF CallsTyped, Post
  <2> QED
    BY <1>2, <1>t, <2>1, <2>2 DEF CallsTyped, Post
<1>3. ASSUME NEW c \in Calls, Begin(c) \/ CallReturns(c) PROVE CallsTyped'
  <2>1. PICK s \in {"running", "ok", "raised", "cancelled"} : run' = [run EXCEPT ![c] = s]
    BY <1>3 DEF Begin, CallReturns
  <2> QED
    BY <1>3, <1>t, <2>1 DEF CallsTyped, Begin, CallReturns
<1>4. ASSUME NEW c \in Calls, NEW how \in Outcomes, Ended(c, how) PROVE CallsTyped'
  BY <1>4, <1>t DEF CallsTyped, Ended
<1>5. ASSUME NEW c \in Calls, Respond(c) PROVE CallsTyped'
  BY <1>4, <1>5 DEF Respond, Outcomes
<1>6. ASSUME NEW c \in Calls, Fault(c) PROVE CallsTyped'
  <2>1. Classified(c) \in Outcomes
    BY DEF Classified, Outcomes
  <2> QED
    BY <1>4, <1>6, <2>1 DEF Fault
<1>7. ASSUME NEW c \in Calls, SendCancel(c) PROVE CallsTyped'
  BY <1>7, <1>t DEF CallsTyped, SendCancel
<1>8. ASSUME NEW c \in Calls, TakeCancel(c) PROVE CallsTyped'
  BY <1>8, <1>t DEF CallsTyped, TakeCancel
<1>9. ASSUME NEW c \in Calls, CancelFails(c) PROVE CallsTyped'
  BY <1>9, <1>t DEF CallsTyped, CancelFails
<1>10. ASSUME NEW c \in Calls, CancelTimesOut(c) PROVE CallsTyped'
  BY <1>10, <1>t DEF CallsTyped, CancelTimesOut, Outcomes
<1>11. CASE HostDies
  BY <1>11, <1>t DEF CallsTyped, HostDies
<1> QED
  BY <1>1, <1>2, <1>3, <1>5, <1>6, <1>7, <1>8, <1>9, <1>10, <1>11
  DEF Next, System, Tool, vars, Spawn, Ready, Mismatch, StartupTimeout, KillExpires, Killing,
      KernelKills,
      Terminated, Cleanup, Exit, Fails, Dies, Boot, Ask, HookBegins, HookReturns,
      ReportProgress, Poll, Stall, Replied, ParentMonitor, HostReaped

LEMMA AlwaysTyped == Spec => []Typed
<1>1. Typed /\ [Next]_vars => Typed'
  BY HostNext, WorkersNext, CallsNext DEF Typed
<1> QED
  BY <1>1, TypedInit, PTL DEF Spec

(* Every variable of the protocol keeps its type; the host is in an        *)
(* operation, or has a capability loaded, only with a worker and while it  *)
(* is up; and only calls that somebody cancelled have a cancel under way.  *)
THEOREM TypeCorrect == Spec => []TypeOK
<1>1. Typed => TypeOK
  BY DEF Typed, HostTyped, WorkersTyped, CallsTyped, Op, TypeOK
<1> QED
  BY <1>1, AlwaysTyped, PTL
-----------------------------------------------------------------------------
(* Calls that share a worker.  Whoever is under way, as a request, an      *)
(* answer or a cancel, knows of everybody else who is: until a cancel      *)
(* request is given up, a call is posted only where the proxy counts all   *)
(* that the worker may still have.                                         *)

Live(c) == run[c] # "none" \/ c \in signal

Counted ==
  \A c \in Calls :
    /\ at[c] = "waiting" => run[c] # "none"
    /\ at[c] = "idle" => run[c] = "none" /\ c \notin asked /\ got[c] = "none"
    /\ run[c] # "none" /\ host = "up" /\ c \notin late => at[c] = "waiting"

Overlap ==
  late = {} => \A c, d \in Calls : c # d /\ Live(c) /\ Live(d) => d \in beside[c]

LEMMA SharingInit == Init => Counted /\ Overlap
BY DEF Init, Counted, Overlap, Live

LEMMA CountedNext == Typed /\ Counted /\ [Next]_vars => Counted'
<1> SUFFICES ASSUME Typed, Counted, [Next]_vars PROVE Counted'
  OBVIOUS
<1>t. HostTyped /\ CallsTyped
  BY DEF Typed
<1>1. ASSUME UNCHANGED <<callVars, cancelVars>>, host' = host \/ host' # "up"
      PROVE  Counted'
  BY <1>1 DEF Counted
<1>2. ASSUME NEW c \in Calls, Post(c) PROVE Counted'
  BY <1>2, <1>t DEF Counted, CallsTyped, Post
<1>3. ASSUME NEW c \in Calls, Begin(c) \/ CallReturns(c) PROVE Counted'
  <2>1. PICK s \in {"running", "ok", "raised", "cancelled"} : run' = [run EXCEPT ![c] = s]
    BY <1>3 DEF Begin, CallReturns
  <2>2. run[c] # "none"
    BY <1>3 DEF Begin, CallReturns
  <2>3. UNCHANGED <<at, got, asked, late, host>>
    BY <1>3 DEF Begin, CallReturns
  <2> QED
    BY <1>t, <2>1, <2>2, <2>3 DEF Counted, CallsTyped
<1>4. ASSUME NEW c \in Calls, NEW how, run[c] # "none", Ended(c, how) PROVE Counted'
  BY <1>4, <1>t DEF Counted, CallsTyped, Ended
<1>5. ASSUME NEW c \in Calls, Respond(c) \/ Fault(c) PROVE Counted'
  BY <1>4, <1>5 DEF Respond, Fault
<1>6. ASSUME NEW c \in Calls, SendCancel(c) PROVE Counted'
  BY <1>6 DEF Counted, SendCancel
<1>7. ASSUME NEW c \in Calls, TakeCancel(c) \/ CancelFails(c) PROVE Counted'
  BY <1>7 DEF Counted, TakeCancel, CancelFails
<1>8. ASSUME NEW c \in Calls, CancelTimesOut(c) PROVE Counted'
  BY <1>8, <1>t DEF Counted, CallsTyped, CancelTimesOut
<1>9. CASE HostDies
  BY <1>9, <1>t DEF Counted, CallsTyped, HostDies
<1> QED
  BY <1>1, <1>2, <1>3, <1>5, <1>6, <1>7, <1>8, <1>9
  DEF Next, System, Tool, vars, Spawn, Ready, Mismatch, StartupTimeout, KillExpires, Killing,
      KernelKills,
      Terminated, Cleanup, Exit, Fails, Dies, Boot, Ask, HookBegins, HookReturns,
      ReportProgress, Poll, Stall, Replied, ParentMonitor, HostReaped

(* Steps that post nothing: what a call overlapped is not forgotten.       *)
LEMMA StillOverlap ==
  ASSUME Overlap, late \subseteq late', beside' = beside,
         \A c \in Calls : Live(c)' => Live(c)
  PROVE  Overlap'
BY DEF Overlap

LEMMA OverlapNext == Typed /\ Counted /\ Overlap /\ [Next]_vars => Overlap'
<1> SUFFICES ASSUME Typed, Counted, Overlap, [Next]_vars PROVE Overlap'
  OBVIOUS
<1>t. HostTyped /\ CallsTyped
  BY DEF Typed
<1>1. CASE UNCHANGED <<callVars, cancelVars>>
  BY <1>1, StillOverlap DEF Live
<1>2. ASSUME NEW c \in Calls, Post(c) PROVE Overlap'
  <2> SUFFICES ASSUME late = {} PROVE Overlap'
    BY <1>2 DEF Overlap, Post
  <2>1. /\ beside' = [d \in Calls |-> IF d = c THEN Active
                                      ELSE IF d \in Active THEN beside[d] \cup {c}
                                      ELSE beside[d]]
        /\ host = "up" /\ at[c] = "idle" /\ run' = [run EXCEPT ![c] = "sent"]
        /\ UNCHANGED <<signal, late>>
    BY <1>2 DEF Post
  <2>2. \A d \in Calls : Live(d) => d \in Active
    BY <2>1 DEF Counted, Live, Active, Waiting
  <2>3. \A d \in Calls : d # c => (Live(d)' <=> Live(d))
    BY <1>t, <2>1 DEF Live, CallsTyped
  <2>4. ASSUME NEW d \in Calls, NEW e \in Calls, d # e, Live(d)', Live(e)'
        PROVE  e \in beside'[d]
    <3>1. CASE d = c
      BY <2>1, <2>2, <2>3, <2>4, <3>1
    <3>2. CASE e = c
      BY <2>1, <2>2, <2>3, <2>4, <3>2
    <3>3. CASE d # c /\ e # c
      <4>1. e \in beside[d]
        BY <2>3, <2>4, <3>3 DEF Overlap
      <4> QED
        BY <2>1, <3>3, <4>1
    <3> QED
      BY <3>1, <3>2, <3>3
  <2> QED
    BY <2>4 DEF Overlap
<1>3. ASSUME NEW c \in Calls, Begin(c) \/ CallReturns(c) PROVE Overlap'
  <2>1. PICK s \in {"running", "ok", "raised", "cancelled"} : run' = [run EXCEPT ![c] = s]
    BY <1>3 DEF Begin, CallReturns
  <2>2. run[c] # "none" /\ UNCHANGED <<beside, signal, late>>
    BY <1>3 DEF Begin, CallReturns
  <2>3. \A d \in Calls : Live(d)' => Live(d)
    BY <1>t, <2>1, <2>2 DEF Live, CallsTyped
  <2> QED
    BY <2>2, <2>3, StillOverlap
<1>4. ASSUME NEW c \in Calls, NEW how, Ended(c, how) PROVE Overlap'
  <2>1. run' = [run EXCEPT ![c] = "none"] /\ UNCHANGED <<beside, signal, late>>
    BY <1>4 DEF Ended
  <2>2. \A d \in Calls : Live(d)' => Live(d)
    BY <1>t, <2>1 DEF Live, CallsTyped
  <2> QED
    BY <2>1, <2>2, StillOverlap
<1>5. ASSUME NEW c \in Calls, Respond(c) \/ Fault(c) PROVE Overlap'
  BY <1>4, <1>5 DEF Respond, Fault
<1>6. ASSUME NEW c \in Calls, SendCancel(c) PROVE Overlap'
  <2>1. Live(c) /\ signal' = signal \cup {c} /\ UNCHANGED <<run, beside, late>>
    BY <1>6 DEF Counted, SendCancel, Live
  <2> QED
    BY <2>1, StillOverlap DEF Live
<1>7. ASSUME NEW c \in Calls, TakeCancel(c) \/ CancelFails(c) PROVE Overlap'
  BY <1>7, StillOverlap DEF Live, TakeCancel, CancelFails
<1>8. ASSUME NEW c \in Calls, CancelTimesOut(c) PROVE Overlap'
  BY <1>8, StillOverlap DEF Live, CancelTimesOut
<1>9. CASE HostDies
  BY <1>9, StillOverlap DEF Live, HostDies
<1> QED
  BY <1>1, <1>2, <1>3, <1>5, <1>6, <1>7, <1>8, <1>9
  DEF Next, System, Tool, vars, Spawn, Ready, Mismatch, StartupTimeout, KillExpires, Killing,
      KernelKills,
      Terminated, Cleanup, Exit, Fails, Dies, Boot, Ask, HookBegins, HookReturns,
      ReportProgress, Poll, Stall, Replied, ParentMonitor, HostReaped

LEMMA AlwaysShared == Spec => [](Counted /\ Overlap)
BY SharingInit, CountedNext, OverlapNext, AlwaysTyped, PTL DEF Spec

-----------------------------------------------------------------------------
(* Cancels.  A call that was told never begins again, and another one      *)
(* clears the flag only if the two overlap.                                *)

Told == \A c \in told : run[c] # "sent"

Held == CancelHeld /\ Told

LEMMA HeldInit == Init => Held
BY DEF Init, Held, Told, CancelHeld

LEMMA HeldNext == Typed /\ Counted /\ Overlap /\ Held /\ [Next]_vars => Held'
<1> SUFFICES ASSUME Typed, Counted, Overlap, Held, [Next]_vars PROVE Held'
  OBVIOUS
<1>t. HostTyped /\ CallsTyped /\ WorkersTyped /\ told \subseteq Calls
  BY DEF Typed, CallsTyped
(* Steps that tell nobody, begin no call and clear no flag.                *)
<1>1. ASSUME told' \subseteq told, late \subseteq late',
             \A c \in Calls : run'[c] # run[c] => run'[c] \notin {"sent", "running"},
             \A c \in told : run[c] = "running" => /\ to'[c] = to[c]
                                                   /\ flag[to[c]] => flag'[to[c]]
                                                   /\ beside[c] \subseteq beside'[c]
      PROVE  Held'
  <2>1. Told'
    BY <1>1, <1>t DEF Held, Told
  <2>2. ASSUME NEW c \in told', run'[c] = "running", beside'[c] = {}, late' = {}
        PROVE  flag'[to'[c]]
    <3>1. c \in told /\ run[c] = "running" /\ late = {}
      BY <1>1, <1>t, <2>2
    <3>2. beside[c] = {} /\ to'[c] = to[c]
      BY <1>1, <2>2, <3>1
    <3>3. flag[to[c]]
      BY <3>1, <3>2 DEF Held, CancelHeld
    <3> QED
      BY <1>1, <3>1, <3>2, <3>3
  <2> QED
    BY <2>1, <2>2 DEF Held, CancelHeld
<1>2. CASE UNCHANGED <<callVars, cancelVars, flag>>
  BY <1>1, <1>2
<1>3. ASSUME NEW c \in Calls, Post(c) PROVE Held'
  <2>1. c \notin told
    BY <1>3, <1>t DEF Post, Counted, CallsTyped
  <2>2. /\ run' = [run EXCEPT ![c] = "sent"] /\ to' = [to EXCEPT ![c] = cur]
        /\ UNCHANGED <<flag, told, late>>
        /\ \A d \in Calls : d # c => beside[d] \subseteq beside'[d]
    BY <1>3 DEF Post
  <2>3. \A d \in told : /\ run'[d] = run[d] /\ to'[d] = to[d]
                        /\ beside[d] \subseteq beside'[d]
    BY <1>t, <2>1, <2>2 DEF CallsTyped
  <2>4. Told'
    BY <2>2, <2>3 DEF Held, Told
  <2>5. CancelHeld'
    BY <2>2, <2>3 DEF Held, CancelHeld
  <2> QED
    BY <2>4, <2>5 DEF Held
<1>4. ASSUME NEW c \in Calls, Begin(c) PROVE Held'
  <2>1. /\ run[c] = "sent" /\ UNCHANGED <<told, late, to, beside>>
        /\ flag' = [flag EXCEPT ![to[c]] = FALSE] \/ flag' = flag
        /\ \E s \in {"running", "raised"} : run' = [run EXCEPT ![c] = s]
    BY <1>4 DEF Begin
  <2>2. c \notin told
    BY <2>1 DEF Held, Told
  <2>3. \A d \in told : run'[d] = run[d] /\ d # c
    BY <1>t, <2>1, <2>2 DEF CallsTyped
  <2>4. Told'
    BY <2>1, <2>3 DEF Held, Told
  <2>5. ASSUME NEW d \in told', run'[d] = "running", beside'[d] = {}, late' = {}
        PROVE  flag'[to'[d]]
    <3>1. d \in told /\ d # c /\ run[d] = "running" /\ beside[d] = {} /\ late = {}
      BY <2>1, <2>3, <2>5
    <3>2. c \in beside[d]
      BY <1>t, <2>1, <3>1 DEF Overlap, Live
    <3> QED
      BY <3>1, <3>2
  <2> QED
    BY <2>4, <2>5 DEF Held, CancelHeld
<1>5. ASSUME NEW c \in Calls, CallReturns(c) PROVE Held'
  <2>1. PICK s \in {"ok", "raised", "cancelled"} : run' = [run EXCEPT ![c] = s]
    BY <1>5 DEF CallReturns
  <2>2. UNCHANGED <<told, late, to, beside, flag>>
    BY <1>5 DEF CallReturns
  <2>3. \A d \in Calls : run'[d] # run[d] => run'[d] \notin {"sent", "running"}
    BY <1>t, <2>1 DEF CallsTyped
  <2> QED
    BY <1>1, <2>2, <2>3
<1>6. ASSUME NEW c \in Calls, Respond(c) \/ Fault(c) PROVE Held'
  <2>1. run' = [run EXCEPT ![c] = "none"] /\ UNCHANGED <<told, late, to, beside, flag>>
    BY <1>6 DEF Respond, Fault, Ended
  <2>2. \A d \in Calls : run'[d] # run[d] => run'[d] \notin {"sent", "running"}
    BY <1>t, <2>1 DEF CallsTyped
  <2> QED
    BY <1>1, <2>1, <2>2
<1>7. ASSUME NEW c \in Calls, TakeCancel(c) PROVE Held'
  <2>1. /\ flag' = [flag EXCEPT ![to[c]] = TRUE]
        /\ told' = IF run[c] = "running" THEN told \cup {c} ELSE told
        /\ UNCHANGED <<run, to, beside, late>>
    BY <1>7 DEF TakeCancel
  <2>2. \A d \in told' : d \in told \/ (d = c /\ run[c] = "running")
    BY <2>1
  <2>3. Told'
    BY <2>1, <2>2 DEF Held, Told
  <2>4. run[c] = "running" => flag'[to[c]] = TRUE
    BY <1>t, <2>1, Bounds DEF WorkersTyped, CallsTyped
  <2>5. \A d \in told : flag[to[d]] => flag'[to[d]]
    BY <1>t, <2>1 DEF WorkersTyped
  <2> QED
    BY <2>1, <2>2, <2>3, <2>4, <2>5 DEF Held, CancelHeld
<1>8. ASSUME NEW c \in Calls, SendCancel(c) \/ CancelFails(c) \/ CancelTimesOut(c)
      PROVE  Held'
  BY <1>1, <1>8 DEF SendCancel, CancelFails, CancelTimesOut
<1>9. CASE HostDies
  BY <1>1, <1>9 DEF HostDies
<1> QED
  BY <1>2, <1>3, <1>4, <1>5, <1>6, <1>7, <1>8, <1>9
  DEF Next, System, Tool, vars, Spawn, Ready, Mismatch, StartupTimeout, KillExpires, Killing,
      KernelKills,
      Terminated, Cleanup, Exit, Fails, Dies, Boot, Ask, HookBegins, HookReturns,
      ReportProgress, Poll, Stall, Replied, ParentMonitor, HostReaped

(* A cancel that reached a running call is seen by its check_cancel()      *)
(* until the call ends: no other endpoint, lifecycle call or process event *)
(* clears the flag of an instance that ran the call alone (worker.py       *)
(* /execute, /cancel; cancel_async).                                       *)
THEOREM CancelsHeld == Spec => []CancelHeld
<1>1. Held => CancelHeld
  BY DEF Held
<1> QED
  BY <1>1, HeldInit, HeldNext, AlwaysTyped, AlwaysShared, PTL DEF Spec

-----------------------------------------------------------------------------
(* Whom a cancelled call goes back to.  What makes the property inductive: *)
(* a flag that is up while a call runs, and an answer that has not left    *)
(* the worker, already have somebody who asked behind them.                *)

Blamed(c) == ({c} \cup beside[c]) \cap asked # {}

Blame ==
  late = {} => \A c \in Calls :
    \/ got[c] = "cancelled" \/ run[c] = "cancelled" \/ (run[c] = "running" /\ flag[to[c]])
    => Blamed(c)

LEMMA BlameInit == Init => Blame
BY DEF Init, Blame

LEMMA BlameNext == Typed /\ Counted /\ Overlap /\ Blame /\ [Next]_vars => Blame'
<1> SUFFICES ASSUME Typed, Counted, Overlap, Blame, [Next]_vars PROVE Blame'
  OBVIOUS
<1>t. HostTyped /\ CallsTyped /\ WorkersTyped
  BY DEF Typed
(* Steps that raise no flag, begin no call, and cancel none.               *)
<1>1. ASSUME late \subseteq late', asked \subseteq asked', beside' = beside, to' = to,
             \A c \in Calls :
               /\ got'[c] = "cancelled" => got[c] = "cancelled" \/ run[c] = "cancelled"
               /\ run'[c] = "cancelled" => \/ run[c] = "cancelled"
                                           \/ run[c] = "running" /\ flag[to[c]]
               /\ run'[c] = "running" /\ flag'[to[c]] => run[c] = "running" /\ flag[to[c]]
      PROVE  Blame'
  <2>1. \A c \in Calls : Blamed(c) => Blamed(c)'
    BY <1>1 DEF Blamed
  <2> QED
    BY <1>1, <2>1 DEF Blame
<1>2. CASE UNCHANGED <<callVars, cancelVars, flag>>
  BY <1>1, <1>2
<1>3. ASSUME NEW c \in Calls, Post(c) PROVE Blame'
  <2>1. /\ got[c] = "none" /\ run' = [run EXCEPT ![c] = "sent"]
        /\ to' = [to EXCEPT ![c] = cur]
        /\ UNCHANGED <<got, flag, asked, late>>
        /\ \A d \in Calls : d # c => beside[d] \subseteq beside'[d]
    BY <1>3 DEF Post, Counted
  <2>2. run'[c] = "sent" /\ got'[c] = "none"
    BY <1>t, <2>1 DEF CallsTyped
  <2>3. \A d \in Calls : d # c => /\ run'[d] = run[d] /\ to'[d] = to[d]
                                  /\ Blamed(d) => Blamed(d)'
    BY <1>t, <2>1 DEF CallsTyped, Blamed
  <2> QED
    BY <2>1, <2>2, <2>3 DEF Blame
<1>4. ASSUME NEW c \in Calls, Begin(c) PROVE Blame'
  <2>1. /\ run[c] = "sent" /\ UNCHANGED <<got, asked, late, to, beside>>
        /\ \/ run' = [run EXCEPT ![c] = "running"] /\ flag' = [flag EXCEPT ![to[c]] = FALSE]
           \/ run' = [run EXCEPT ![c] = "raised"] /\ flag' = flag
    BY <1>4 DEF Begin
  <2>2. to[c] \in Workers
    BY <1>t, <2>1, Bounds DEF CallsTyped
  <2>3. \A d \in Calls : run'[d] = "running" /\ flag'[to[d]] => run[d] = "running" /\ flag[to[d]]
    <3>1. CASE run' = [run EXCEPT ![c] = "running"] /\ flag' = [flag EXCEPT ![to[c]] = FALSE]
      <4>1. /\ flag'[to[c]] = FALSE
            /\ \A w \in Workers : w # to[c] => flag'[w] = flag[w]
        BY <1>t, <2>2, <3>1 DEF WorkersTyped
      <4>2. \A d \in Calls : d # c => run'[d] = run[d]
        BY <1>t, <3>1 DEF CallsTyped
      <4>3. \A d \in Calls : run[d] # "none" => to[d] \in Workers
        BY <1>t, Bounds DEF CallsTyped
      <4> QED
        BY <2>1, <4>1, <4>2, <4>3
    <3>2. CASE run' = [run EXCEPT ![c] = "raised"] /\ flag' = flag
      BY <1>t, <3>2 DEF CallsTyped
    <3> QED
      BY <2>1, <3>1, <3>2
  <2>4. \A d \in Calls : run'[d] = "cancelled" => run[d] = "cancelled"
    BY <1>t, <2>1 DEF CallsTyped
  <2> QED
    BY <1>1, <2>1, <2>3, <2>4
<1>5. ASSUME NEW c \in Calls, CallReturns(c) PROVE Blame'
  <2>1. PICK s \in {"ok", "raised", "cancelled"} :
          run' = [run EXCEPT ![c] = s] /\ (s = "cancelled" => flag[to[c]])
    BY <1>5 DEF CallReturns, CheckCancel
  <2>2. run[c] = "running" /\ UNCHANGED <<got, asked, late, to, beside, flag>>
    BY <1>5 DEF CallReturns
  <2>3. \A d \in Calls :
          /\ run'[d] = "cancelled" => \/ run[d] = "cancelled"
                                      \/ run[d] = "running" /\ flag[to[d]]
          /\ run'[d] = "running" => run[d] = "running"
    BY <1>t, <2>1, <2>2 DEF CallsTyped
  <2> QED
    BY <1>1, <2>2, <2>3
<1>6. ASSUME NEW c \in Calls, NEW how, how = "cancelled" => run[c] = "cancelled",
             Ended(c, how)
      PROVE  Blame'
  <2>1. /\ run' = [run EXCEPT ![c] = "none"] /\ UNCHANGED <<asked, late, to, beside, flag>>
        /\ got' = [got EXCEPT ![c] = IF at[c] = "waiting" THEN how ELSE @]
    BY <1>6 DEF Ended
  <2>2. \A d \in Calls :
          /\ got'[d] = "cancelled" => got[d] = "cancelled" \/ run[d] = "cancelled"
          /\ run'[d] = run[d] \/ run'[d] = "none"
    BY <1>6, <1>t, <2>1 DEF CallsTyped
  <2> QED
    BY <1>1, <2>1, <2>2
<1>7. ASSUME NEW c \in Calls, Respond(c) PROVE Blame'
  BY <1>6, <1>7 DEF Respond
<1>8. ASSUME NEW c \in Calls, Fault(c) PROVE Blame'
  <2>1. Classified(c) # "cancelled"
    BY DEF Classified
  <2> QED
    BY <1>6, <1>8, <2>1 DEF Fault
<1>9. ASSUME NEW c \in Calls, TakeCancel(c) PROVE Blame'
  <2>1. /\ flag' = [flag EXCEPT ![to[c]] = TRUE] /\ c \in signal /\ c \in asked
        /\ UNCHANGED <<run, to, beside, got, asked, late>>
    BY <1>9, <1>t DEF TakeCancel, CallsTyped
  <2>2. ASSUME NEW d \in Calls, run[d] = "running", late = {} PROVE Blamed(d)'
    <3>1. d # c => c \in beside[d]
      BY <2>1, <2>2 DEF Overlap, Live
    <3> QED
      BY <2>1, <3>1 DEF Blamed
  <2>3. \A d \in Calls : Blamed(d) => Blamed(d)'
    BY <2>1 DEF Blamed
  <2> QED
    BY <2>1, <2>2, <2>3 DEF Blame
<1>10. ASSUME NEW c \in Calls, SendCancel(c) \/ CancelFails(c) PROVE Blame'
  BY <1>1, <1>10 DEF SendCancel, CancelFails
<1>11. ASSUME NEW c \in Calls, CancelTimesOut(c) PROVE Blame'
  BY <1>11 DEF Blame, CancelTimesOut
<1>12. CASE HostDies
  BY <1>1, <1>12 DEF HostDies
<1> QED
  BY <1>2, <1>3, <1>4, <1>5, <1>7, <1>8, <1>9, <1>10, <1>11, <1>12
  DEF Next, System, Tool, vars, Spawn, Ready, Mismatch, StartupTimeout, KillExpires, Killing,
      KernelKills,
      Terminated, Cleanup, Exit, Fails, Dies, Boot, Ask, HookBegins, HookReturns,
      ReportProgress, Poll, Stall, Replied, ParentMonitor, HostReaped

(* A call comes back cancelled only if somebody asked to cancel it or a    *)
(* call it overlapped, however cancels, answers, restarts and crashes      *)
(* interleave, as long as no cancel request was given up (cancel_async,    *)
(* /cancel, check_cancel).                                                 *)
THEOREM OnlyTheAskedCancelled == Spec => []OnlyTheAsked
<1>1. Blame => OnlyTheAsked
  BY DEF Blame, Blamed, OnlyTheAsked
<1> QED
  BY <1>1, BlameInit, BlameNext, AlwaysTyped, AlwaysShared, PTL DEF Spec

-----------------------------------------------------------------------------
(* Workers given up.  A load in progress is never of a loaded capability.  *)

Loading == op.name \in {"spawn", "mismatch"} => ~loaded

LEMMA LoadingInit == Init => Loading
BY DEF Init, Loading

LEMMA LoadingNext == Typed /\ Loading /\ [Next]_vars => Loading'
<1> SUFFICES ASSUME Typed, Loading, [Next]_vars PROVE Loading'
  OBVIOUS
<1>t. HostTyped
  BY DEF Typed
<1>1. CASE UNCHANGED <<op, loaded>>
  BY <1>1 DEF Loading
<1>2. CASE loaded' = FALSE
  BY <1>2 DEF Loading
<1>3. ASSUME NEW name \in Operations \ {"spawn", "mismatch"}, op' = [NoOp EXCEPT !.name = name]
      PROVE  Loading'
  BY <1>3, Begun DEF Loading
<1>4. CASE op' = NoOp
  BY <1>4, Nothing DEF Loading
<1>5. ASSUME NEW name, name \notin {"spawn", "mismatch"},
             op' = [name |-> name, silent |-> 0, seen |-> Unseen]
      PROVE  Loading'
  BY <1>5 DEF Loading
<1>6. CASE Spawn
  BY <1>2, <1>6 DEF Spawn, Dropped
<1>7. CASE Ready
  BY <1>2, <1>4, <1>5, <1>7 DEF Ready, Dropped
<1>8. CASE Mismatch
  <2>1. loaded' = FALSE
    BY <1>8, <1>t DEF Mismatch, Dropped, Loading, HostTyped
  <2> QED
    BY <1>2, <2>1
<1>9. CASE Cleanup
  BY <1>3, <1>9 DEF Cleanup, Operations
<1>10. CASE Stall
  BY <1>3, <1>10 DEF Stall, Operations
<1>11. CASE Terminated \/ StartupTimeout \/ Replied \/ HostDies
  BY <1>2, <1>4, <1>11 DEF Terminated, StartupTimeout, Replied, HostDies, Dropped
<1>12. ASSUME NEW name \in Watched \cup {"reconfigure"}, Ask(name) PROVE Loading'
  BY <1>5, <1>12 DEF Ask, Watched
<1>13. CASE Poll
  <2>1. /\ loaded' = loaded
        /\ \/ op' = [op EXCEPT !.silent = 0, !.seen = progress[cur]]
           \/ op' = [op EXCEPT !.silent = op.silent + 1]
    BY <1>13 DEF Poll
  <2>2. op'.name = op.name
    BY <1>t, <2>1 DEF HostTyped, Op
  <2> QED
    BY <2>1, <2>2 DEF Loading
<1> QED
  BY <1>1, <1>6, <1>7, <1>8, <1>9, <1>10, <1>11, <1>12, <1>13
  DEF Next, System, Tool, vars, KillExpires, Killing, KernelKills, Exit, Fails, Dies, HookBegins, ParentMonitor,
      Begin, Respond, Fault, Ended, TakeCancel, CancelFails, HookReturns, ReportProgress,
      CallReturns, Boot, Post, SendCancel, CancelTimesOut, HostReaped

(* What a proxy has let go of is at its end, and the journal knows.  A     *)
(* worker refused at launch already has its row.                           *)
Forgotten(w) == up[w] # "none" /\ w \notin held

AtItsEnd(w) ==
  /\ up[w] \in {"killed", "dead"}
  /\ Ambient \/ failed > 0 \/ rows[w] \cap {"died", "died_abnormally"} # {}

LetGo == host = "up" => \A w \in Workers : Forgotten(w) => AtItsEnd(w)

Refused == op.name = "mismatch" => "died_abnormally" \in rows[cur]

LEMMA LetGoInit == Init => LetGo /\ Refused
BY Nothing DEF Init, LetGo, Refused, Forgotten

(* The journal only grows.                                                 *)
LEMMA JournalGrows ==
  ASSUME WorkersTyped, NEW v \in Workers, NEW row \in Rows,
         \/ Append(v, row) \/ AppendRaises(v, row)
         \/ UNCHANGED journalVars
  PROVE  \A w \in Workers : /\ rows[w] \subseteq rows'[w]
                            /\ failed > 0 => failed' > 0
BY DEF WorkersTyped, Append, AppendRaises

(* A step that lets go of nothing, and revives no process.                 *)
LEMMA LetGoKept ==
  ASSUME LetGo, host' = "up" => host = "up",
         \A w \in Workers : /\ Forgotten(w)' => Forgotten(w)
                            /\ up[w] \in {"killed", "dead"} => up'[w] \in {"killed", "dead"}
                            /\ rows[w] \subseteq rows'[w]
                            /\ failed > 0 => failed' > 0
  PROVE  LetGo'
<1> SUFFICES ASSUME host' = "up", NEW w \in Workers, Forgotten(w)' PROVE AtItsEnd(w)'
  BY DEF LetGo
<1>1. AtItsEnd(w)
  BY DEF LetGo
<1> QED
  BY <1>1 DEF AtItsEnd

LEMMA LetGoNext == Typed /\ LetGo /\ Refused /\ [Next]_vars => LetGo'
<1> SUFFICES ASSUME Typed, LetGo, Refused, [Next]_vars PROVE LetGo'
  OBVIOUS
<1>t. HostTyped /\ WorkersTyped /\ CallsTyped
  BY DEF Typed
<1>c. op.name # "none" \/ loaded => cur \in Workers
  BY <1>t, Current
<1>s. \A row \in {"spawned", "ready", "died", "died_abnormally", "account"} : row \in Rows
  BY DEF Rows
<1>u. up \in [Workers -> {"none", "starting", "serving", "stopping", "killed", "dead"}]
  BY <1>t DEF WorkersTyped
<1>1. CASE UNCHANGED <<host, held, up, journalVars>>
  BY <1>1, LetGoKept DEF Forgotten
<1>2. CASE Spawn
  <2>1. PICK w \in Workers :
          /\ up[w] = "none" /\ up' = [up EXCEPT ![w] = "starting"]
          /\ held' = held \cup {w}
          /\ Append(w, "spawned") \/ AppendRaises(w, "spawned")
    BY <1>2 DEF Spawn
  <2>2. host' = host
    BY <1>2 DEF Spawn
  <2>3. \A v \in Workers : rows[v] \subseteq rows'[v] /\ (failed > 0 => failed' > 0)
    BY <1>s, <1>t, <2>1, JournalGrows
  <2>4. \A v \in Workers : /\ Forgotten(v)' => Forgotten(v)
                           /\ up[v] \in {"killed", "dead"} => up'[v] \in {"killed", "dead"}
    BY <1>u, <2>1 DEF Forgotten
  <2> QED
    BY <2>2, <2>3, <2>4, LetGoKept
<1>3. ASSUME NEW w \in Workers, NEW s \in {"serving", "stopping", "killed", "dead"},
             up[w] # "none", up[w] \notin {"killed", "dead"} \/ s = "dead",
             up' = [up EXCEPT ![w] = s], UNCHANGED <<host, held, journalVars>>
      PROVE  LetGo'
  <2>1. \A v \in Workers : /\ Forgotten(v)' => Forgotten(v)
                           /\ up[v] \in {"killed", "dead"} => up'[v] \in {"killed", "dead"}
    BY <1>3, <1>u DEF Forgotten
  <2> QED
    BY <1>3, <2>1, LetGoKept
<1>4. ASSUME NEW w \in Workers,
             Boot(w) \/ Fails(w) \/ Exit(w) \/ KernelKills(w)
      PROVE  LetGo'
  BY <1>3, <1>4 DEF Boot, Fails, Exit, KernelKills, Dies
<1>5. CASE KillExpires
  BY <1>3, <1>5, <1>c DEF KillExpires, Killing
<1>6. ASSUME NEW w \in Workers, up' = up \/ up' = Signalled(w), UNCHANGED <<host, held>>,
             \A v \in Workers : rows[v] \subseteq rows'[v] /\ (failed > 0 => failed' > 0)
      PROVE  LetGo'
  <2>1. \A v \in Workers : /\ Forgotten(v)' => Forgotten(v)
                           /\ up[v] \in {"killed", "dead"} => up'[v] \in {"killed", "dead"}
    BY <1>6, <1>u DEF Forgotten, Signalled
  <2> QED
    BY <1>6, <2>1, LetGoKept
<1>7. CASE Ready \/ Mismatch \/ StartupTimeout
  <2>1. cur \in Workers
    BY <1>7, <1>c DEF Ready, Mismatch, StartupTimeout
  <2>2. \A v \in Workers : rows[v] \subseteq rows'[v] /\ (failed > 0 => failed' > 0)
    BY <1>7, <1>s, <1>t, <2>1, JournalGrows DEF Ready, Mismatch, StartupTimeout
  <2> QED
    BY <1>6, <1>7, <2>1, <2>2 DEF Ready, Mismatch, StartupTimeout
<1>8. CASE Cleanup \/ Stall
  BY <1>6, <1>8, <1>c DEF Cleanup, Stall, Watched
<1>9. ASSUME NEW w \in Workers, ParentMonitor(w) PROVE LetGo'
  BY <1>6, <1>9 DEF ParentMonitor
<1>10. ASSUME NEW c \in Calls, Respond(c) PROVE LetGo'
  <2>1. to[c] \in Workers
    BY <1>10, <1>t, Bounds DEF Respond, CallsTyped
  <2>2. \A v \in Workers : rows[v] \subseteq rows'[v] /\ (failed > 0 => failed' > 0)
    BY <1>10, <1>s, <1>t, <2>1, JournalGrows DEF Respond, Harvest
  <2> QED
    BY <1>6, <1>10, <2>1, <2>2 DEF Respond, Ended
<1>11. CASE Terminated
  <2>1. /\ cur \in Workers /\ op.name \in {"cleanup", "stall", "mismatch"}
        /\ up[cur] \in {"killed", "dead"} /\ up' = up /\ host' = host
        /\ held' = IF op.name = "stall" THEN held ELSE held \ {cur}
    BY <1>11, <1>c DEF Terminated
  <2>2. Append(cur, "died") \/ AppendRaises(cur, "died") \/ UNCHANGED journalVars
    BY <1>11 DEF Terminated
  <2>3. \A v \in Workers : rows[v] \subseteq rows'[v] /\ (failed > 0 => failed' > 0)
    BY <1>s, <1>t, <2>1, <2>2, JournalGrows
  <2>4. CASE op.name = "stall"
    BY <2>1, <2>3, <2>4, LetGoKept DEF Forgotten
  <2>5. CASE op.name # "stall"
    <3>0. PICK v \in Workers : v = cur
      BY <2>1
    <3>1. AtItsEnd(v)'
      <4>1. CASE op.name = "mismatch"
        BY <2>1, <2>3, <3>0, <4>1 DEF Refused, AtItsEnd
      <4>2. CASE op.name = "cleanup" /\ AppendRaises(cur, "died")
        BY <1>t, <2>1, <3>0, <4>2 DEF AppendRaises, AtItsEnd, WorkersTyped
      <4>3. CASE op.name = "cleanup" /\ Append(cur, "died")
        BY <1>t, <2>1, <3>0, <4>3 DEF Append, Journalled, AtItsEnd, WorkersTyped
      <4> QED
        BY <1>11, <2>1, <2>5, <4>1, <4>2, <4>3 DEF Terminated
    <3>2. ASSUME host' = "up", NEW w \in Workers, w # v, Forgotten(w)' PROVE AtItsEnd(w)'
      <4>1. AtItsEnd(w)
        BY <2>1, <3>0, <3>2 DEF LetGo, Forgotten
      <4> QED
        BY <2>1, <2>3, <4>1 DEF AtItsEnd
    <3> QED
      BY <3>1, <3>2 DEF LetGo
  <2> QED
    BY <2>4, <2>5
<1>12. CASE HostDies
  BY <1>12 DEF HostDies, LetGo
<1>13. CASE HostReaped
  BY <1>13 DEF HostReaped, LetGo
<1> QED
  BY <1>1, <1>2, <1>4, <1>5, <1>7, <1>8, <1>9, <1>10, <1>11, <1>12, <1>13
  DEF Next, System, Tool, vars, Replied, Ask, Poll, HookBegins, Begin, Fault, Ended,
      TakeCancel, CancelFails, HookReturns, ReportProgress, CallReturns, Post, SendCancel,
      CancelTimesOut

LEMMA RefusedNext == Typed /\ Refused /\ [Next]_vars => Refused'
<1> SUFFICES ASSUME Typed, Refused, [Next]_vars PROVE Refused'
  OBVIOUS
<1>t. HostTyped /\ WorkersTyped /\ CallsTyped
  BY DEF Typed
<1>c. op.name # "none" \/ loaded => cur \in Workers
  BY <1>t, Current
<1>1. CASE UNCHANGED <<op, cur, rows>>
  BY <1>1 DEF Refused
<1>2. CASE op' = NoOp
  BY <1>2, Nothing DEF Refused
<1>3. ASSUME NEW name \in Operations \ {"mismatch"}, op' = [NoOp EXCEPT !.name = name]
      PROVE  Refused'
  BY <1>3, Begun DEF Refused
<1>4. ASSUME NEW name, name # "mismatch", op' = [name |-> name, silent |-> 0, seen |-> Unseen]
      PROVE  Refused'
  BY <1>4 DEF Refused
<1>5. CASE Spawn
  BY <1>2, <1>3, <1>5 DEF Spawn, Dropped, Operations
<1>6. CASE Ready
  BY <1>2, <1>4, <1>6 DEF Ready, Dropped
<1>7. CASE Mismatch
  <2>1. cur \in Workers
    BY <1>7, <1>c DEF Mismatch
  <2>2. CASE Dropped
    BY <1>2, <2>2 DEF Dropped
  <2>3. CASE ~Dropped
    <3>1. Append(cur, "died_abnormally") /\ cur' = cur
      BY <1>7, <2>3 DEF Mismatch
    <3> QED
      BY <1>t, <2>1, <3>1 DEF Append, Journalled, WorkersTyped, Refused
  <2> QED
    BY <2>2, <2>3
<1>8. CASE Cleanup \/ Stall
  BY <1>3, <1>8 DEF Cleanup, Stall, Operations
<1>9. CASE Terminated \/ StartupTimeout \/ HostDies
  BY <1>2, <1>9 DEF Terminated, StartupTimeout, HostDies, Dropped
<1>10. CASE Replied
  BY <1>2, <1>10 DEF Replied, Dropped
<1>11. ASSUME NEW name \in Watched \cup {"reconfigure"}, Ask(name) PROVE Refused'
  BY <1>4, <1>11 DEF Ask, Watched
<1>12. CASE Poll
  <2>1. /\ UNCHANGED <<cur, rows>>
        /\ \/ op' = [op EXCEPT !.silent = 0, !.seen = progress[cur]]
           \/ op' = [op EXCEPT !.silent = op.silent + 1]
    BY <1>12 DEF Poll
  <2>2. op'.name = op.name
    BY <1>t, <2>1 DEF HostTyped, Op
  <2> QED
    BY <2>1, <2>2 DEF Refused
<1>13. ASSUME NEW c \in Calls, Respond(c) PROVE Refused'
  <2>1. to[c] \in Workers
    BY <1>13, <1>t, Bounds DEF Respond, CallsTyped
  <2>2. \A v \in Workers : rows[v] \subseteq rows'[v]
    BY <1>13, <1>t, <2>1, JournalGrows DEF Respond, Harvest, Rows
  <2>3. UNCHANGED <<op, cur>>
    BY <1>13 DEF Respond, Ended
  <2> QED
    BY <1>c, <2>2, <2>3 DEF Refused
<1> QED
  BY <1>1, <1>5, <1>6, <1>7, <1>8, <1>9, <1>10, <1>11, <1>12, <1>13
  DEF Next, System, Tool, vars, KillExpires, Killing, KernelKills, Exit, Fails, Dies,
      HookBegins, ParentMonitor, Begin, Fault, Ended, TakeCancel, CancelFails, HookReturns,
      ReportProgress, CallReturns, Boot, Post, SendCancel, CancelTimesOut, HostReaped

(* Only an unload gives up what was loaded, and it lets go of the process. *)
LEMMA GivingUp ==
  Typed /\ Loading /\ Next /\ loaded /\ ~loaded' /\ host' = "up" => cur \notin held'
<1> SUFFICES ASSUME Typed, Loading, Next, loaded, ~loaded', host' = "up"
             PROVE  cur \notin held'
  OBVIOUS
<1>t. HostTyped
  BY DEF Typed
<1>1. Terminated
  <2>1. op.name \notin {"spawn", "mismatch"} /\ cur # 0
    BY <1>t DEF Loading, HostTyped
  <2> QED
    BY <2>1
    DEF Next, System, Tool, vars, Spawn, Ready, Mismatch, StartupTimeout, Cleanup, HostDies,
        Replied, Ask, Stall, Poll, KillExpires, Killing, KernelKills, Exit, Fails, Dies,
        HookBegins, ParentMonitor, Begin, Respond, Fault, Ended, TakeCancel, CancelFails,
        HookReturns, ReportProgress, CallReturns, Boot, Post, SendCancel, CancelTimesOut,
        HostReaped
<1> QED
  BY <1>1 DEF Terminated, Loading

(* What an unload lets go of, and whatever else a proxy has let go of, has *)
(* exited or was sent SIGKILL, with a row in the journal unless an append  *)
(* raised: the bounded waits of terminate_process never leave a process    *)
(* that was only asked to stop (cleanup, terminate_process, the refusal at *)
(* launch, _run_prefetch_with_stall_detection).                            *)
THEOREM NoWorkerLeftBehind == Spec => NoneLeftBehind
<1> DEFINE Step ==
      host' = "up" =>
        /\ loaded /\ ~loaded' => cur \notin held'
        /\ \A w \in Workers : up'[w] # "none" /\ w \notin held'
             => /\ up'[w] \in {"killed", "dead"}
                /\ \/ Ambient \/ failed' > 0
                   \/ rows'[w] \cap {"died", "died_abnormally"} # {}
<1>1. Spec => []Loading
  BY LoadingInit, LoadingNext, AlwaysTyped, PTL DEF Spec
<1>2. Spec => []Refused
  BY LetGoInit, RefusedNext, AlwaysTyped, PTL DEF Spec
<1>3. Spec => []LetGo
  BY <1>2, LetGoInit, LetGoNext, AlwaysTyped, PTL DEF Spec
<1>4. Typed /\ Loading /\ LetGo' /\ [Next]_vars => [Step]_vars
  BY GivingUp DEF LetGo, Forgotten, AtItsEnd
<1> HIDE DEF Step
<1>5. Spec => [][Step]_vars
  BY <1>1, <1>3, <1>4, AlwaysTyped, PTL DEF Spec
<1> QED
  BY <1>5 DEF Step, NoneLeftBehind
=============================================================================

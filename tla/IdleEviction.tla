---------------------------- MODULE IdleEviction ------------------------------
(***************************************************************************)
(* Jobs that fit the GPU budget but not the memory that resident models    *)
(* leave free: the resources rung of _pop_next_admissible, the             *)
(* idle-eviction request it fires (core/queue.py), the eviction thread of  *)
(* the manager, which runs beside the event loop, and the reactive         *)
(* eviction of a call that ran out of memory (core/manager.py).            *)
(*                                                                         *)
(* Every instance is profiled and has a cap of one, and there are lanes    *)
(* for all: what JobQueue leaves to choice, memory, telemetry and the      *)
(* wake-ups of the loop, is the state here.                                *)
(***************************************************************************)
EXTENDS Integers, Sequences, SequencesExt, FiniteSetsExt

CONSTANTS
  Queue,      \* the jobs that may be submitted, most urgent first
  Instances,  \* capability instances
  Inst,       \* the instance of each job
  Peak,       \* empirical GPU peak of each instance
  Loads,      \* what its worker may hold on the GPU once it has run
  Vram,       \* GPU memory, all of it inside the headroom
  Slots       \* bound of the model: idle-eviction requests under way at a time

Jobs == ToSet(Queue)

ASSUME EvictionAssumption ==
  /\ Vram \in Nat /\ Slots \in Nat
  /\ Queue \in Seq(Jobs) /\ Inst \in [Jobs -> Instances]
  /\ Peak \in [Instances -> 1 .. Vram]
  /\ \A i \in Instances : Loads[i] \subseteq 1 .. Peak[i]

VARIABLES
  phase,      \* of each job: _pending, _running, _running_executions
  retried,    \* the jobs on their second and last attempt
  resident,   \* GPU memory each instance's worker holds
  available,  \* _job_available
  loop,       \* where _process_loop is
  stats,      \* the telemetry the scan works on, read before it, and whether
              \* a retry gave memory back while it was on its way
  asked,      \* the jobs in _evict_last_request, and of these
  cooling,    \* the ones within evict_cooldown_seconds
  request     \* the idle-eviction requests

jobs == <<phase, retried>>
evictions == <<asked, cooling, request>>
vars == <<jobs, resident, available, loop, stats, evictions>>

pending == {j \in Jobs : phase[j] = "pending"}
running == {j \in Jobs : phase[j] \in {"admitted", "executing"}}

Targets(S) == {Inst[j] : j \in S}
Executing == Targets({j \in Jobs : phase[j] = "executing"})

Total(f, S) == MapThenSumSet(LAMBDA x : f[x], S)

Free == Vram - Total(resident, Instances)

Nothing == [i \in Instances |-> 0]
Idle == [at |-> "none", known |-> {}, exclude |-> {}, target |-> 0, todo |-> {},
         found |-> Nothing, freed |-> 0]

Init ==
  /\ phase = [j \in Jobs |-> "new"] /\ retried = {}
  /\ resident \in [Instances -> 0 .. Vram]
  /\ \A i \in Instances : resident[i] \in {0} \cup Loads[i]
  /\ Free >= 0
  /\ available = FALSE /\ loop = "waiting"
  /\ stats = [free |-> 0, held |-> Nothing, todo |-> {}, late |-> FALSE]
  /\ asked = {} /\ cooling = {}
  /\ request = [s \in 1 .. Slots |-> Idle]

Become(j, p) == phase' = [phase EXCEPT ![j] = p]

Submit(j) ==
  /\ phase[j] = "new"
  /\ Become(j, "pending")
  /\ available' = TRUE
  /\ UNCHANGED <<retried, resident, loop, stats, evictions>>

-----------------------------------------------------------------------------
(* The dispatch loop.                                                      *)

(* Free memory is read first, then what the workers of the jobs that are   *)
(* pending hold, each in a request of its own.                             *)
Fetch ==
  /\ loop = "waiting" /\ available
  /\ IF pending = {}
     THEN available' = FALSE /\ UNCHANGED <<loop, stats>>
     ELSE /\ loop' = "fetching"
          /\ stats' = [free |-> Free, held |-> Nothing, todo |-> Targets(pending),
                      late |-> FALSE]
          /\ UNCHANGED available
  /\ UNCHANGED <<jobs, resident, evictions>>

FetchHeld(i) ==
  /\ loop = "fetching" /\ i \in stats.todo
  /\ stats' = [stats EXCEPT !.held[i] = resident[i], !.todo = @ \ {i}]
  /\ UNCHANGED <<jobs, resident, available, loop, evictions>>

Need_Uncredited(j) == Peak[Inst[j]]

(* A worker's next job reuses what it holds.  An instance that was not     *)
(* asked, its job being new, has no credit.                                *)
Need(j) == Peak[Inst[j]] - Min({Peak[Inst[j]], stats.held[Inst[j]]})

Eligible(j) ==
  /\ Inst[j] \notin Targets(running)
  /\ Total([k \in Jobs |-> Peak[Inst[k]]], running \cup {j}) =< Vram

Starved(j) == Eligible(j) /\ Need(j) > stats.free

Rank(j) == CHOOSE n \in DOMAIN Queue : Queue[n] = j

First(S) == {j \in S : \A k \in S : Rank(j) =< Rank(k)}

Spare_Busy(j) == Targets(running) \cup {Inst[j]}

(* A request for job j leaves alone what runs, what other pending jobs are *)
(* after, and its own instance.                                            *)
Spare(j) == Targets(running) \cup Targets(pending \ {j}) \cup {Inst[j]}

(* The first admissible job is launched; of the starved ones ahead of it,  *)
(* the first whose cooldown has passed asks for an eviction (Slots bounds  *)
(* how many are under way).                                                *)
Scan ==
  LET pick == First({j \in pending : Eligible(j) /\ ~Starved(j)})
      seen == {j \in pending : \A k \in pick : Rank(j) < Rank(k)}
      ask == First({j \in seen : Starved(j) /\ j \notin cooling})
      Request(j) == [Idle EXCEPT !.at = "evicting", !.known = {k \in Jobs : phase[k] # "new"},
                                 !.exclude = Spare(j), !.target = Need(j) - stats.free,
                                 !.todo = Instances \ Spare(j)]
      idle == {s \in 1 .. Slots : request[s].at = "none"}
  IN
  /\ loop = "fetching" /\ stats.todo = {}
  /\ loop' = "waiting"
  /\ phase' = [j \in Jobs |-> IF j \in pick THEN "admitted" ELSE phase[j]]
  /\ available' = (pick # {})
  /\ asked' = asked \cup ask /\ cooling' = cooling \cup ask
  /\ IF ask = {} THEN UNCHANGED request
     ELSE \E j \in ask, s \in idle :
            /\ \A t \in idle : s =< t
            /\ request' = [request EXCEPT ![s] = Request(j)]
  /\ UNCHANGED <<retried, resident, stats>>

(* The cooldown starts with the request and may end before it.             *)
CooldownPasses(j) ==
  /\ j \in cooling
  /\ cooling' = cooling \ {j}
  /\ UNCHANGED <<jobs, resident, available, loop, stats, asked, request>>

-----------------------------------------------------------------------------
(* The jobs, seen by the manager.                                          *)

Begin(j) ==
  /\ phase[j] = "admitted"
  /\ Become(j, "executing")
  /\ UNCHANGED <<retried, resident, available, loop, stats, evictions>>

(* The worker of the call takes memory, and keeps it.                      *)
Load(j) ==
  /\ phase[j] = "executing"
  /\ \E m \in Loads[Inst[j]] :
       /\ m > resident[Inst[j]]
       /\ resident' = [resident EXCEPT ![Inst[j]] = m]
  /\ Free' >= 0
  /\ UNCHANGED <<jobs, available, loop, stats, evictions>>

(* What a retry of job j may evict.                                        *)
Cleared(j) == Instances \ (Targets({k \in Jobs \ {j} : phase[k] = "executing"}) \cup {Inst[j]})

(* The call reports that it ran out of memory, as it may before there is   *)
(* none left.  The retry evicts idle residents, the largest first and one  *)
(* at least, until its estimate says that there is room, reloads its own   *)
(* worker and calls again; the loop is blocked as long.  The last attempt  *)
(* fails, see End.                                                         *)
OutOfMemory(j) ==
  LET held == {i \in Cleared(j) : resident[i] > 0} IN
  /\ phase[j] = "executing" /\ j \notin retried
  /\ \E gone \in SUBSET held :
       /\ gone = {} => held = {}
       /\ \A v \in gone, w \in held \ gone : resident[v] >= resident[w]
       /\ resident' = [i \in Instances |-> IF i \in gone \cup {Inst[j]} THEN 0 ELSE resident[i]]
  /\ Become(j, "admitted")
  /\ retried' = retried \cup {j}
  /\ stats' = [stats EXCEPT !.late = loop = "fetching"]
  /\ UNCHANGED <<available, loop, evictions>>

(* A job ends, before its call or after it, and drops its stamp.           *)
End(j) ==
  /\ j \in running
  /\ Become(j, "done")
  /\ asked' = asked \ {j} /\ cooling' = cooling \ {j}
  /\ available' = TRUE
  /\ UNCHANGED <<retried, resident, loop, stats, request>>

-----------------------------------------------------------------------------
(* evict_idle_gpu, in its thread.                                          *)

(* Each instance is looked at in turn: an executing one is no candidate.   *)
Measure(s, i) ==
  LET r == request[s] IN
  /\ r.at = "evicting" /\ i \in r.todo
  /\ request' = [request EXCEPT ![s] = [r EXCEPT
       !.todo = r.todo \ {i}, !.found[i] = IF i \in Executing THEN 0 ELSE resident[i]]]
  /\ UNCHANGED <<jobs, resident, available, loop, stats, asked, cooling>>

(* The shortfall with a margin of a quarter is covered.                    *)
Covered(r) == 4 * r.freed >= 5 * r.target

(* The largest candidate left is released, whatever it does by now, and    *)
(* counts as it was measured.  Its worker gives all its GPU memory back.   *)
Release(s, v) ==
  LET r == request[s] IN
  /\ r.at = "evicting" /\ r.todo = {} /\ ~Covered(r)
  /\ r.found[v] > 0 /\ \A i \in Instances : r.found[i] =< r.found[v]
  /\ resident' = [resident EXCEPT ![v] = 0]
  /\ request' = [request EXCEPT ![s] = [r EXCEPT !.found[v] = 0, !.freed = @ + r.found[v]]]
  /\ UNCHANGED <<jobs, available, loop, stats, asked, cooling>>

(* The request returns and wakes the loop; having freed something it wakes *)
(* it once more after the settle delay.                                    *)
Return(s) ==
  LET r == request[s] IN
  /\ r.at = "evicting" /\ r.todo = {}
  /\ Covered(r) \/ r.found = Nothing
  /\ request' = [request EXCEPT ![s] =
       IF r.freed > 0 THEN [Idle EXCEPT !.at = "settling"] ELSE Idle]
  /\ available' = TRUE
  /\ UNCHANGED <<jobs, resident, loop, stats, asked, cooling>>

(* A telemetry round trip is over sooner than the settle delay.            *)
Settled(s) ==
  /\ request[s].at = "settling" /\ loop = "waiting"
  /\ request' = [request EXCEPT ![s] = Idle]
  /\ available' = TRUE
  /\ UNCHANGED <<jobs, resident, loop, stats, asked, cooling>>

-----------------------------------------------------------------------------

Next ==
  \/ Fetch \/ Scan \/ \E i \in Instances : FetchHeld(i)
  \/ \E j \in Jobs : \/ Submit(j) \/ CooldownPasses(j)
                     \/ Begin(j) \/ Load(j) \/ OutOfMemory(j) \/ End(j)
  \/ \E s \in 1 .. Slots : \/ Return(s) \/ Settled(s)
                           \/ \E i \in Instances : Measure(s, i) \/ Release(s, i)

Spec == Init /\ [][Next]_vars

-----------------------------------------------------------------------------
(* Properties.                                                             *)

TypeOK ==
  /\ phase \in [Jobs -> {"new", "pending", "admitted", "executing", "done"}]
  /\ retried \subseteq Jobs /\ cooling \subseteq asked /\ asked \subseteq Jobs
  /\ resident \in [Instances -> 0 .. Vram]
  /\ available \in BOOLEAN /\ loop \in {"waiting", "fetching"}
  /\ stats.held \in [Instances -> 0 .. Vram] /\ stats.todo \subseteq Instances
  /\ \A s \in 1 .. Slots :
       /\ request[s].at \in {"none", "evicting", "settling"}
       /\ request[s].found \in [Instances -> 0 .. Vram]

(* Nothing is under way that would wake the loop.                          *)
Resting ==
  /\ loop = "waiting" /\ ~available
  /\ running = {} /\ \A s \in 1 .. Slots : request[s].at = "none"

(* When all has come to rest, the jobs that still wait do not fit in the   *)
(* memory as it is, what their own workers hold included, and each of them *)
(* has asked for an eviction and was answered: no wake-up was lost, and no *)
(* job was passed over because another asked in its place.                 *)
RestIsJustified ==
  Resting /\ ~stats.late => \A j \in pending :
    /\ Peak[Inst[j]] - resident[Inst[j]] > Free
    /\ j \in asked

(* A job that executes loses its model only to a request that was made     *)
(* before the job was submitted ("structural victim hysteresis",           *)
(* queue.py:1611, and manager.py:1701 "never evict a mid-execute           *)
(* instance").                                                             *)
SparedKeepsMemory ==
  [][\A k \in Jobs :
       /\ phase[k] = "executing" /\ phase'[k] = "executing"
       /\ resident'[Inst[k]] < resident[Inst[k]]
       => \E s \in 1 .. Slots : request[s].at = "evicting" /\ k \notin request[s].known]_vars
=============================================================================

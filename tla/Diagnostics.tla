------------------------------ MODULE Diagnostics ------------------------------
(***************************************************************************)
(* The disposable half of observability (core/diagnostics_store.py): the   *)
(* log records of a worker, buffered and committed together, the raw lines *)
(* that the host pumps from its pipe, and the sweep of a starting host.    *)
(* They share one database; every process has one connection to it.        *)
(*                                                                         *)
(* The flush at the end of a request runs on the worker's event loop; a    *)
(* capability logs from a thread of its own.  A line stands for its time.  *)
(***************************************************************************)
EXTENDS Integers, Sequences, FiniteSets, SequencesExt

CONSTANTS
  Calls,
  Streams,      \* the calls on /execute_stream
  None,
  Loop,         \* the worker's event loop
  Budget,       \* max_total_mb, in rows, or None
  Batch,        \* rows of each table that a size batch deletes (500)
  WalMax,       \* wal_max_mb, in transactions
  MaxLines,     \* bound of the model: lines logged and printed
  MaxFailures,  \* bound of the model: transactions that fail
  MaxEnds,      \* bound of the model: crashes of the worker and the host
  MaxIntervals  \* bound of the model: intervals of the sweep

ASSUME DiagnosticsAssumption ==
  /\ Streams \subseteq Calls /\ {None, Loop} \cap Calls = {} /\ None # Loop
  /\ Budget \in Nat \cup {None}
  /\ {Batch, WalMax} \subseteq Nat \ {0}
  /\ {MaxLines, MaxFailures, MaxEnds, MaxIntervals} \subseteq Nat

VARIABLES
  pc,        \* the calls: idle, running, returned, ended, lost
  lines,     \* who wrote each line, in the order of their time
  buffer,    \* _buffer of the handler
  taken,     \* the batch that each thread is committing
  lock,      \* who holds the handler's lock across a commit
  serving,   \* whose request the loop is ending, Loop for any other
  open,      \* rows of the worker's transaction that never ended
  records, chunks,  \* the tables, as numbers of lines
  wal,       \* transactions since the last checkpoint
  failures, ends,
  dropped,   \* lines whose transaction failed
  deleted,   \* rows that a sweep deleted
  sweep,     \* the sweep of the host: none, due, size, mark
  since,     \* when it began, and whether the WAL made it due
  last,      \* last_sweep of the meta table, -1 before the first
  interval,  \* the time, in intervals of the sweep
  swept      \* sweeps that ended in each interval, but for early ones

handlerVars == <<lines, buffer, taken, lock, serving>>
storeVars == <<open, records, chunks, wal, failures, dropped>>
sweepVars == <<deleted, sweep, since, last, interval, swept>>
vars == <<pc, handlerVars, storeVars, ends, sweepVars>>

Threads == Calls \cup {Loop}

Init ==
  /\ pc = [c \in Calls |-> "idle"]
  /\ lines = <<>> /\ buffer = <<>>
  /\ taken = [t \in Threads |-> <<>>]
  /\ lock = None /\ serving = None
  /\ open = <<>> /\ records = <<>> /\ chunks = <<>>
  /\ wal = 0 /\ failures = 0 /\ ends = 0
  /\ dropped = {} /\ deleted = {}
  /\ sweep = "none" /\ since = [at |-> 0, early |-> FALSE]
  /\ last = -1 /\ interval = 0
  /\ swept = [e \in 0 .. MaxIntervals |-> 0]

NewLine == Len(lines) + 1

-----------------------------------------------------------------------------
(* The worker's handler.                                                   *)

Begin(c) ==
  /\ pc[c] = "idle"
  /\ pc' = [pc EXCEPT ![c] = "running"]
  /\ UNCHANGED <<handlerVars, storeVars, ends, sweepVars>>

(* The handler is full of what waits: the caller takes it all.             *)
Take(t, batch) ==
  /\ taken' = [taken EXCEPT ![t] = batch]
  /\ buffer' = <<>>

(* emit: under the handler's lock, and with it a flush if it is a warning. *)
Log(c, warning) ==
  /\ pc[c] = "running" /\ lock = None /\ Len(lines) < MaxLines
  /\ lines' = Append(lines, c)
  /\ IF warning THEN Take(c, Append(buffer, NewLine)) /\ lock' = c
                ELSE buffer' = Append(buffer, NewLine) /\ UNCHANGED <<taken, lock>>
  /\ UNCHANGED <<pc, serving, storeVars, ends, sweepVars>>

Returns(c) ==
  /\ pc[c] = "running" /\ lock # c
  /\ pc' = [pc EXCEPT ![c] = IF c \in Streams THEN "ended" ELSE "returned"]
  /\ UNCHANGED <<handlerVars, storeVars, ends, sweepVars>>

Flush_Unlocked(r) ==
  /\ serving = None
  /\ IF r = Loop THEN buffer # <<>> /\ UNCHANGED pc
     ELSE /\ pc[r] = "returned"
          /\ pc' = [pc EXCEPT ![r] = IF buffer = <<>> THEN "ended" ELSE @]
  /\ serving' = IF buffer = <<>> THEN None ELSE r
  /\ Take(Loop, buffer)
  /\ UNCHANGED <<lines, lock, storeVars, ends, sweepVars>>

(* The end of a request of call c, or of one like /progress: the flush     *)
(* waits for the lock, and gives it up before it writes.  A stream has had *)
(* its flush when the response began.                                      *)
Flush(r) ==
  /\ serving = None /\ lock = None
  /\ IF r = Loop THEN buffer # <<>> /\ UNCHANGED pc
     ELSE /\ pc[r] = "returned"
          /\ pc' = [pc EXCEPT ![r] = IF buffer = <<>> THEN "ended" ELSE @]
  /\ serving' = IF buffer = <<>> THEN None ELSE r
  /\ Take(Loop, buffer)
  /\ UNCHANGED <<lines, lock, storeVars, ends, sweepVars>>

(* The flush of thread t is over.                                          *)
Flushed(t) ==
  /\ taken' = [taken EXCEPT ![t] = <<>>]
  /\ lock' = IF lock = t THEN None ELSE lock
  /\ serving' = IF t = Loop THEN None ELSE serving
  /\ pc' = IF t = Loop /\ serving \in Calls THEN [pc EXCEPT ![serving] = "ended"] ELSE pc

(* append_records: one transaction, which takes along what an earlier one  *)
(* left open on this connection.                                           *)
Commit(t) ==
  /\ taken[t] # <<>>
  /\ records' = records \o open \o taken[t]
  /\ open' = <<>>
  /\ wal' = IF wal > WalMax THEN wal ELSE wal + 1
  /\ Flushed(t)
  /\ UNCHANGED <<lines, buffer, chunks, failures, dropped, ends, sweepVars>>

CommitFails_Retried(t) ==
  /\ taken[t] # <<>> /\ failures < MaxFailures
  /\ failures' = failures + 1
  /\ \E k \in 0 .. Len(taken[t]) : open' = open \o SubSeq(taken[t], 1, k)
  /\ buffer' = taken[t] \o buffer
  /\ Flushed(t)
  /\ UNCHANGED <<lines, records, chunks, wal, dropped, ends, sweepVars>>

(* "A sink that fails drops them": what was inserted before the failure is *)
(* not rolled back.                                                        *)
CommitFails(t) ==
  /\ taken[t] # <<>> /\ failures < MaxFailures
  /\ failures' = failures + 1
  /\ \E k \in 0 .. Len(taken[t]) : open' = open \o SubSeq(taken[t], 1, k)
  /\ dropped' = dropped \cup ToSet(taken[t])
  /\ Flushed(t)
  /\ UNCHANGED <<lines, buffer, records, chunks, wal, ends, sweepVars>>

(* The worker is killed, or crashes; another is spawned.                   *)
Crash ==
  /\ ends < MaxEnds /\ ends' = ends + 1
  /\ pc' = [c \in Calls |-> IF pc[c] \in {"running", "returned"} THEN "lost" ELSE pc[c]]
  /\ buffer' = <<>> /\ open' = <<>>
  /\ taken' = [t \in Threads |-> <<>>]
  /\ lock' = None /\ serving' = None
  /\ UNCHANGED <<lines, records, chunks, wal, failures, dropped, sweepVars>>

-----------------------------------------------------------------------------
(* The host.                                                               *)

(* A transaction left open keeps every other process from writing.         *)
Writable == open = <<>>

AppendChunk(line) ==
  /\ chunks' = Append(chunks, line)
  /\ wal' = IF wal > WalMax THEN wal ELSE wal + 1

(* _pump_stream: the line is a row, or is dropped.  A sweep has the host's *)
(* connection to itself.                                                   *)
Pump ==
  /\ Len(lines) < MaxLines /\ sweep # "size"
  /\ lines' = Append(lines, Loop)
  /\ IF Writable THEN AppendChunk(NewLine) /\ UNCHANGED dropped
     ELSE dropped' = dropped \cup {NewLine} /\ UNCHANGED <<chunks, wal>>
  /\ UNCHANGED <<pc, buffer, taken, lock, serving, open, records, failures, ends, sweepVars>>

(* A CapabilityManager is made, in a host that just started: its thread    *)
(* asks maybe_sweep whether a sweep is due.                                *)
Due_NoMark == TRUE

Due == last < interval

HostStarts ==
  /\ sweep = "none" /\ ends < MaxEnds /\ ends' = ends + 1
  /\ Due \/ wal > WalMax
  /\ sweep' = "due" /\ since' = [at |-> interval, early |-> ~Due]
  /\ UNCHANGED <<pc, handlerVars, storeVars, deleted, last, interval, swept>>

(* The rows of a table that are in S, in their order.                      *)
Only(table, S) ==
  LET kept[i \in 0 .. Len(table)] ==
        IF i = 0 THEN <<>>
        ELSE IF table[i] \in S THEN Append(kept[i - 1], table[i]) ELSE kept[i - 1]
  IN  kept[Len(table)]

(* apply_retention, by age: rows of either table from before a time.       *)
ByAge ==
  /\ sweep = "due" /\ Writable
  /\ \E cutoff \in 1 .. NewLine :
       LET recent == cutoff .. Len(lines) IN
       /\ records' = Only(records, recent)
       /\ chunks' = Only(chunks, recent)
       /\ deleted' = deleted \cup ((ToSet(records) \cup ToSet(chunks)) \ recent)
  /\ sweep' = IF Budget = None THEN "mark" ELSE "size"
  /\ UNCHANGED <<pc, handlerVars, open, wal, failures, dropped, ends, since, last, interval,
                 swept>>

Over == Len(records) + Len(chunks) > Budget

Oldest(table) == SubSeq(table, 1, IF Len(table) < Batch THEN Len(table) ELSE Batch)
Newer(table) == SubSeq(table, Batch + 1, Len(table))

(* By size: batch by batch, the first rows of each table, until it fits.   *)
BySize ==
  /\ sweep = "size" /\ Writable
  /\ IF Over
     THEN /\ records' = Newer(records) /\ chunks' = Newer(chunks)
          /\ deleted' = deleted \cup ToSet(Oldest(records)) \cup ToSet(Oldest(chunks))
          /\ UNCHANGED sweep
     ELSE sweep' = "mark" /\ UNCHANGED <<records, chunks, deleted>>
  /\ UNCHANGED <<pc, handlerVars, open, wal, failures, dropped, ends, since, last, interval,
                 swept>>

(* last_sweep is when the sweep began; the checkpoint empties the WAL.     *)
Mark ==
  /\ sweep = "mark" /\ Writable
  /\ last' = since.at /\ wal' = 0
  /\ sweep' = "none"
  /\ swept' = [swept EXCEPT ![since.at] = IF since.early THEN @ ELSE @ + 1]
  /\ UNCHANGED <<pc, handlerVars, open, records, chunks, failures, dropped, ends, deleted,
                 since, interval>>

(* A write of the sweep fails, or the host ends: the rest is left undone.  *)
SweepEnds ==
  /\ sweep # "none"
  /\ sweep' = "none"
  /\ UNCHANGED <<pc, handlerVars, storeVars, ends, deleted, since, last, interval, swept>>

IntervalPasses ==
  /\ interval < MaxIntervals
  /\ interval' = interval + 1
  /\ UNCHANGED <<pc, handlerVars, storeVars, ends, deleted, sweep, since, last, swept>>

-----------------------------------------------------------------------------
Next ==
  \/ \E c \in Calls : Begin(c) \/ Returns(c) \/ \E w \in BOOLEAN : Log(c, w)
  \/ \E t \in Threads : Flush(t) \/ Commit(t) \/ CommitFails(t)
  \/ Crash \/ Pump
  \/ HostStarts \/ ByAge \/ BySize \/ Mark \/ SweepEnds \/ IntervalPasses

Spec == Init /\ [][Next]_vars

-----------------------------------------------------------------------------
TypeOK ==
  /\ pc \in [Calls -> {"idle", "running", "returned", "ended", "lost"}]
  /\ lines \in Seq(Threads) /\ Len(lines) =< MaxLines
  /\ {buffer, open, records, chunks} \subseteq Seq(DOMAIN lines)
  /\ taken \in [Threads -> Seq(DOMAIN lines)]
  /\ lock \in Calls \cup {None} /\ serving \in Threads \cup {None}
  /\ wal \in 0 .. WalMax + 1
  /\ failures \in 0 .. MaxFailures /\ ends \in 0 .. MaxEnds
  /\ dropped \subseteq DOMAIN lines /\ deleted \subseteq DOMAIN lines
  /\ sweep \in {"none", "due", "size", "mark"}
  /\ since \in [at : 0 .. MaxIntervals, early : BOOLEAN]
  /\ last \in -1 .. MaxIntervals /\ interval \in 0 .. MaxIntervals
  /\ swept \in [0 .. MaxIntervals -> Nat]

(* "A job's records land": what a call logged is in the store when its     *)
(* request is over, and outlives the worker, unless its transaction failed *)
(* or a sweep deleted it; a record a warning took along as well.           *)
EndedIsRecorded ==
  \A c \in Calls \ Streams : pc[c] = "ended" =>
    \A n \in DOMAIN lines : lines[n] = c => n \in ToSet(records) \cup dropped \cup deleted

(* No line is stored twice, nor comes back after it was deleted, whichever *)
(* transactions fail half-way.                                             *)
StoredOnce ==
  LET stored == records \o open \o chunks IN
  IsInjective(stored) /\ ToSet(stored) \cap deleted = {}

(* "At most once per interval": hosts that start one after the other, with *)
(* sweeps that fail or are cut short in between, complete one, unless the  *)
(* WAL made more of them due.                                              *)
OncePerInterval == \A e \in DOMAIN swept : swept[e] =< 1
=============================================================================

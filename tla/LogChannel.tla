----------------------------- MODULE LogChannel -----------------------------
(***************************************************************************)
(* One asynchronous channel of xproxy-beta/xlog from its start to the end  *)
(* of its worker: threads that log, the worker thread that writes to the   *)
(* log targets, and the thread that stops the channel.  Every operation of *)
(* shared_queue holds the queue's mutex and is one step; between two of    *)
(* them, and between them and the atomic stopped_, the others run.         *)
(*                                                                         *)
(* When more than HardLim messages wait, messages are refused until the    *)
(* worker has got below SoftLim; it then puts a report of how many were    *)
(* refused in the queue.  Messages of level fatal and messages to an       *)
(* explicit target are forced: never refused.                              *)
(*                                                                         *)
(* Messages are numbered in the order in which they come to the queue.     *)
(* Their text, level and target, and the target files, are left out, and   *)
(* so is the logger that hands messages to its channels.                   *)
(***************************************************************************)
EXTENDS Integers, Sequences, FiniteSets

CONSTANTS
  HardLim,     \* max_allowed_size_ of the queue
  SoftLim,     \* soft_lim_
  MaxMsgs      \* bound: messages that come to the queue

ASSUME LimitsAssumption == /\ HardLim \in Nat /\ SoftLim \in Nat
                           /\ HardLim > SoftLim /\ SoftLim > 1
ASSUME MaxMsgsAssumption == MaxMsgs \in Nat

Stopped == {"running", "stopped", "stopped_flush"}

\* What the queue holds: messages and reports of refused messages.
Message == [n : Nat \ {0}, forced : BOOLEAN]
Report  == [n |-> 0, forced |-> TRUE]
Entry   == Message \cup {Report}

WorkerAt  == {"check", "wait", "log", "count", "report", "unblock",
              "block", "drain", "flush", "last", "done"}
StopperAt == {"idle", "stored", "blocked", "join", "joined"}

VARIABLES
  queue,     \* queue_
  block,     \* block_push_
  cnt,       \* cnt_blocked_push_
  unblock,   \* unblock_pop_
  stopped,   \* stopped_
  wat,       \* where the worker is
  sat,       \* where the thread is that calls stop
  res,       \* the worker's msg and res: entry, queue_size_, push_blocked_
  skipped,   \* the worker's cnt_skipped
  next,      \* number of messages that came to the queue
  taken,     \* history: entries the queue took, in their order
  file,      \* history: entries the worker wrote, in their order
  lost,      \* history: number of refused messages
  told,      \* history: sum of the numbers in the reports
  owed       \* history: a message was refused and no report follows it yet

shared  == <<queue, block, cnt, unblock>>
worker  == <<wat, res, skipped>>
history == <<taken, file, lost, told, owed>>
vars    == <<shared, stopped, worker, sat, next, history>>

NoResult == [msg |-> Report, size |-> 0, blocked |-> FALSE]

Init ==
  /\ queue = <<>> /\ block = FALSE /\ cnt = 0 /\ unblock = FALSE
  /\ stopped = "running" /\ wat = "check" /\ sat = "idle"
  /\ res = NoResult /\ skipped = 0
  /\ next = 0 /\ taken = <<>> /\ file = <<>>
  /\ lost = 0 /\ told = 0 /\ owed = FALSE

-----------------------------------------------------------------------------
(* shared_queue *)

PushFront(e) == queue' = <<e>> \o queue /\ taken' = Append(taken, e)

Push(e) == /\ queue' = Append(queue, e)
           /\ taken' = Append(taken, e)

MayPush(forced) == (~block /\ Len(queue) <= HardLim) \/ forced

\* wait_pop and try_pop of a queue with entries.
Pop == /\ queue' = Tail(queue)
       /\ res' = [msg |-> Head(queue), size |-> Len(queue), blocked |-> block]

\* enque_log_msg.  The logger takes a channel out of its list, with its mutex
\* exclusive, before it stops it; so nobody calls this on a stopped channel.
Emplace(forced) ==
  /\ sat = "idle" /\ next < MaxMsgs
  /\ next' = next + 1
  /\ \/ /\ MayPush(forced)
        /\ Push([n |-> next + 1, forced |-> forced])
        /\ UNCHANGED <<block, cnt, lost, owed>>
     \/ /\ ~MayPush(forced)
        /\ cnt' = cnt + 1 /\ block' = TRUE
        /\ lost' = lost + 1 /\ owed' = TRUE
        /\ UNCHANGED <<queue, taken>>
  /\ UNCHANGED <<unblock, stopped, worker, sat, file, told>>

-----------------------------------------------------------------------------
(* The worker *)

CheckStopped ==
  /\ wat = "check"
  /\ wat' = IF stopped = "running" THEN "wait" ELSE "block"
  /\ UNCHANGED <<shared, stopped, res, skipped, sat, next, history>>

WaitPopRetries ==
  /\ wat = "wait"
  /\ queue # <<>> \/ unblock
  /\ unblock' = FALSE
  /\ \/ queue # <<>> /\ Pop /\ wat' = "log"
     \/ queue = <<>> /\ wat' = "wait" /\ UNCHANGED <<queue, res>>
  /\ UNCHANGED <<block, cnt, stopped, skipped, sat, next, history>>

WaitPop ==
  /\ wat = "wait"
  /\ queue # <<>> \/ unblock
  /\ unblock' = FALSE
  /\ \/ queue # <<>> /\ Pop /\ wat' = "log"
     \/ queue = <<>> /\ wat' = "check" /\ UNCHANGED <<queue, res>>
  /\ UNCHANGED <<block, cnt, stopped, skipped, sat, next, history>>

LogMessageOffByOne ==
  /\ wat = "log"
  /\ file' = Append(file, res.msg)
  /\ wat' = IF res.blocked /\ res.size + 1 < SoftLim THEN "count" ELSE "check"
  /\ UNCHANGED <<shared, stopped, res, skipped, sat, next, taken, lost, told, owed>>

LogMessage ==
  /\ wat = "log"
  /\ file' = Append(file, res.msg)
  /\ wat' = IF res.blocked /\ res.size < SoftLim THEN "count" ELSE "check"
  /\ UNCHANGED <<shared, stopped, res, skipped, sat, next, taken, lost, told, owed>>

CountBlockedAboveOne ==
  /\ wat = "count"
  /\ skipped' = cnt
  /\ wat' = IF cnt > 1 THEN "report" ELSE "unblock"
  /\ UNCHANGED <<shared, stopped, res, sat, next, history>>

CountBlocked ==
  /\ wat = "count"
  /\ skipped' = cnt
  /\ wat' = IF cnt > 0 THEN "report" ELSE "unblock"
  /\ UNCHANGED <<shared, stopped, res, sat, next, history>>

EmplaceReport ==
  /\ wat = "report"
  /\ Push(Report)
  /\ told' = told + skipped
  /\ wat' = "unblock"
  /\ UNCHANGED <<block, cnt, unblock, stopped, res, skipped, sat, next, file, lost, owed>>

Reports(s) == \E i \in 1..Len(s) : s[i] = Report

\* A report that waits in the queue is written after what was refused so far.
UnblockPush ==
  /\ wat = "unblock"
  /\ cnt' = 0 /\ block' = FALSE
  /\ owed' = (owed /\ ~Reports(queue))
  /\ wat' = "check"
  /\ UNCHANGED <<queue, unblock, stopped, res, skipped, sat, next, taken, file, lost, told>>

BlockPush ==
  /\ wat = "block"
  /\ block' = TRUE
  /\ wat' = IF stopped = "stopped_flush" THEN "drain" ELSE "last"
  /\ UNCHANGED <<queue, cnt, unblock, stopped, res, skipped, sat, next, history>>

TryPop ==
  /\ wat = "drain"
  /\ \/ queue # <<>> /\ Pop /\ wat' = "flush"
     \/ queue = <<>> /\ wat' = "last" /\ UNCHANGED <<queue, res>>
  /\ UNCHANGED <<block, cnt, unblock, stopped, skipped, sat, next, history>>

LogFlushed ==
  /\ wat = "flush"
  /\ file' = Append(file, res.msg)
  /\ wat' = "drain"
  /\ UNCHANGED <<shared, stopped, res, skipped, sat, next, taken, lost, told, owed>>

\* The last report goes to the targets directly.
LogLast ==
  /\ wat = "last"
  /\ wat' = "done"
  /\ skipped' = cnt
  /\ told' = told + cnt
  /\ owed' = (owed /\ cnt = 0)
  /\ UNCHANGED <<shared, stopped, res, sat, next, taken, file, lost>>

-----------------------------------------------------------------------------
(* stop *)

StoreStopped(wait_flush) ==
  /\ sat = "idle" /\ sat' = "stored"
  /\ stopped' = IF wait_flush THEN "stopped_flush" ELSE "stopped"
  /\ UNCHANGED <<shared, worker, next, history>>

StopBlocksPush ==
  /\ sat = "stored" /\ sat' = "blocked"
  /\ block' = TRUE
  /\ UNCHANGED <<queue, cnt, unblock, stopped, worker, next, history>>

\* unblock_pop, or unblock_pop_if_empty when the queue is to be flushed.
StopUnblocksPop ==
  /\ sat = "blocked" /\ sat' = "join"
  /\ unblock' = (unblock \/ stopped = "stopped" \/ queue = <<>>)
  /\ UNCHANGED <<queue, block, cnt, stopped, worker, next, history>>

Join ==
  /\ sat = "join" /\ wat = "done" /\ sat' = "joined"
  /\ UNCHANGED <<shared, stopped, worker, next, history>>

Worker == \/ CheckStopped \/ WaitPop \/ LogMessage \/ CountBlocked
          \/ EmplaceReport \/ UnblockPush
          \/ BlockPush \/ TryPop \/ LogFlushed \/ LogLast

StopGoesOn == StopBlocksPush \/ StopUnblocksPop \/ Join

Next == \/ \E forced \in BOOLEAN : Emplace(forced)
        \/ Worker
        \/ \E wait_flush \in BOOLEAN : StoreStopped(wait_flush)
        \/ StopGoesOn

Spec == Init /\ [][Next]_vars

\* A thread that may run does so eventually; nobody has to log or to stop.
FairSpec == Spec /\ WF_vars(Worker) /\ WF_vars(StopGoesOn)

-----------------------------------------------------------------------------
(* Properties *)

TypeOK ==
  /\ queue \in Seq(Entry) /\ block \in BOOLEAN /\ cnt \in Nat
  /\ unblock \in BOOLEAN /\ stopped \in Stopped
  /\ wat \in WorkerAt /\ sat \in StopperAt
  /\ res \in [msg : Entry, size : Nat, blocked : BOOLEAN] /\ skipped \in Nat
  /\ next \in Nat /\ taken \in Seq(Entry) /\ file \in Seq(Entry)
  /\ lost \in Nat /\ told \in Nat /\ owed \in BOOLEAN

\* The worker has taken an entry from the queue and not yet written it.
Holds == wat \in {"log", "flush"}

\* Whatever the queue took is written once, in the order of taking: what is
\* written, the entry in the worker's hands and the queue together are the
\* entries taken (shared_queue::emplace, wait_pop, try_pop and worker).
InOrder ==
  LET held == IF Holds THEN 1 ELSE 0 IN
  /\ Len(taken) = Len(file) + held + Len(queue)
  /\ \A i \in 1..Len(file) : file[i] = taken[i]
  /\ Holds => res.msg = taken[Len(file) + 1]
  /\ \A i \in 1..Len(queue) : queue[i] = taken[Len(file) + held + i]

\* A channel stopped with wait_flush has written all it took when its worker
\* ends (the flush loop of worker and the second block_push before it).
FlushedAll ==
  wat = "done" /\ stopped = "stopped_flush" => queue = <<>> /\ file = taken

\* No message is lost silently: while one was refused that no report follows,
\* the counter of refused messages is not zero, so that the worker makes a
\* report when it unblocks the queue or when it ends; after its end none is
\* left (the count is read, reported and reset in three separate steps).  The
\* comments of worker allow two inexactnesses, which this leaves room for: what
\* is refused between reading and resetting is not in the number reported, and
\* a report in the queue of a channel stopped without a flush goes with it.
LossIsTold == /\ owed /\ wat # "done" => cnt > 0
              /\ wat = "done" => ~owed

\* The reports together never name more messages than were refused.
ToldIsTrue == told <= lost

\* Refusing ends: the worker of a channel that refuses messages has something
\* to take, or is about to lift the refusal (the reason for SoftLim > 1).
RefusalEnds ==
  block /\ stopped = "running" =>
    \/ queue # <<>>
    \/ wat \in {"count", "report", "unblock"}
    \/ wat = "log" /\ res.blocked /\ res.size < SoftLim

\* The thread in stop never waits for a worker that waits for an entry: the
\* store to stopped_, which the worker may have read before, is followed by
\* something that wakes it (stop, wait_pop).
NoLostWakeup == sat = "join" /\ wat = "wait" => unblock \/ queue # <<>>

Unforced(s) == {i \in 1..Len(s) : ~s[i].forced}

\* The queue is bounded but for forced entries (max_allowed_size_ + 1, since
\* emplace compares the size before it pushes).
Bounded == Cardinality(Unforced(queue)) <= HardLim + 1

\* Messages are accepted again only below the soft limit, whatever forced
\* entries came in between.
ResumesLow ==
  [][block /\ ~block' => Cardinality(Unforced(queue)) <= SoftLim - 2]_vars

\* stop returns.
StopReturns == sat = "stored" ~> sat = "joined"

=============================================================================

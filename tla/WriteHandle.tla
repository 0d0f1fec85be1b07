---------------------------- MODULE WriteHandle ----------------------------
(***************************************************************************)
(* One object_write_handle of xproxy-beta/cache and the threads that run   *)
(* its code, at the granularity of its atomic operations: the network      *)
(* thread of the user (async_write, async_close), the writer thread of     *)
(* aio_service (process_queue, exec) and the thread that stops the service.*)
(*                                                                         *)
(* CacheFs treats one exec of a write handle as a single step.  Here the   *)
(* other threads run between any two accesses to shared data: user_data_   *)
(* (a spin lock around one swap), state_ (an atomic) and the write queue   *)
(* (a mutex around each operation).                                        *)
(*                                                                         *)
(* An object has ObjectLen units of data, of which the write transaction   *)
(* wants those in [DataBeg, DataEnd): skip_copy drops the others.  wbuffer_*)
(* holds one fragment of at most BuffCap units.  The aggregate writer      *)
(* takes a fragment or, when its block is full, refuses it.  The queue's   *)
(* other tasks do not concern the handle.                                  *)
(***************************************************************************)
EXTENDS Naturals, FiniteSetsExt

CONSTANTS
  ObjectLen,   \* actual_rng_.len()
  DataBeg,     \* units skipped at the beginning: wtrans_.get_range() starts
  DataEnd,     \* where the write transaction's range ends
  BuffCap,     \* capacity of wbuffer_
  OpSizes      \* sizes of the buffers the user passes to one async_write

ASSUME SizesAssumption == /\ ObjectLen \in Nat /\ DataBeg \in Nat
                          /\ DataEnd \in Nat /\ DataBeg < DataEnd
                          /\ DataEnd <= ObjectLen
                          /\ BuffCap \in Nat \ {0}
                          /\ OpSizes \subseteq Nat \ {0}

Nobody == 0     \* user_data_ without handler and buffers

State  == {"running", "close", "closed", "service_stopped"}
Thread == {"user", "writer", "stopper"}

\* Where a thread is between two accesses to shared data.
UserAt    == {"idle", "push", "mark", "abort",
              "enqueue", "close_mark", "close_abort", "fire", "done"}
WriterAt  == {"idle", "exec", "swap", "copy", "finish", "check", "push",
              "mark", "abort", "fire", "final", "close_done", "ended"}
StopperAt == {"idle", "join", "mark", "abort", "done"}

VARIABLES
  ud,       \* user_data_: units of the operation still to be consumed
  st,       \* state_
  links,    \* times the task is linked in write_queue_
  working,  \* aio_task_queue::working_
  at,       \* for each thread, where it is
  took,     \* the ud of try_write_all, between its two swaps
  offs,     \* processed_bytes_: units of the object consumed so far
  wbuf,     \* units in wbuffer_
  sent,     \* units the aggregate writer took over
  acked,    \* units of the object reported to the user as written
  finals    \* calls of do_final_write

vars == <<ud, st, links, working, at, took, offs, wbuf, sent, acked, finals>>

data  == <<took, offs, wbuf, sent, acked, finals>>   \* the writer thread's
queue == <<links, working>>

Init == /\ ud = Nobody /\ st = "running" /\ links = 0 /\ working = TRUE
        /\ at = [t \in Thread |-> "idle"]
        /\ took = Nobody /\ offs = 0 /\ wbuf = 0 /\ sent = 0
        /\ acked = 0 /\ finals = 0

-----------------------------------------------------------------------------
(* The queue, and what a thread does that finds it stopped.                *)

\* Two links of one intrusive list node: what follows is undefined, and the
\* model goes no further.
Corrupted == links > 1

Step(t, from, to) == /\ ~Corrupted
                     /\ at[t] = from /\ at' = [at EXCEPT ![t] = to]

\* aio_service::push_task: push_back does not look whether the task is linked.
PushBack(t, next, stopped) ==
  /\ Step(t, "push", IF working THEN next ELSE stopped)
  /\ links' = IF working THEN links + 1 ELSE links
  /\ UNCHANGED <<ud, st, working, data>>

\* Mutant of Enqueue: the task is not put in the queue.
EnqueueSkipped(t, next, stopped) ==
  /\ Step(t, "enqueue", IF working THEN next ELSE stopped)
  /\ UNCHANGED <<ud, st, queue, data>>

\* aio_service::enqueue_task: nothing happens if the task is linked.
Enqueue(t, next, stopped) ==
  /\ Step(t, "enqueue", IF working THEN next ELSE stopped)
  /\ links' = IF working THEN Max({links, 1}) ELSE links
  /\ UNCHANGED <<ud, st, working, data>>

\* try_fire_error: the handler, if there is one, is called with an error.
TryFireError(t, from, to) ==
  Step(t, from, to) /\ ud' = Nobody /\ UNCHANGED <<st, queue, data>>

\* service_stopped: state_ first, then try_fire_error.
MarkStopped(t, from, to) ==
  Step(t, from, to) /\ st' = "service_stopped" /\ UNCHANGED <<ud, queue, data>>

-----------------------------------------------------------------------------
(* The user: one operation at a time, and nothing after async_close.       *)

InFlight == ud # Nobody \/ at["writer"] \in {"copy", "finish"}

AsyncWrite == \E n \in OpSizes :
  /\ ~InFlight
  /\ Step("user", "idle", "push")
  /\ ud' = n
  /\ UNCHANGED <<st, queue, data>>

AsyncWritePush == PushBack("user", "idle", "mark")

AsyncClose ==
  /\ Step("user", "idle", IF st = "running" THEN "enqueue" ELSE "fire")
  /\ st' = IF st = "running" THEN "close" ELSE st
  /\ UNCHANGED <<ud, queue, data>>

AsyncCloseEnqueue == Enqueue("user", "fire", "close_mark")
AsyncCloseFire    == TryFireError("user", "fire", "done")

UserStopped ==
  \/ MarkStopped("user", "mark", "abort")
  \/ TryFireError("user", "abort", "idle")
  \/ MarkStopped("user", "close_mark", "close_abort")
  \/ TryFireError("user", "close_abort", "fire")

-----------------------------------------------------------------------------
(* The writer thread: process_queue and exec.                              *)

Pop == /\ working /\ links > 0
       /\ Step("writer", "idle", "exec")
       /\ links' = links - 1
       /\ UNCHANGED <<ud, st, working, data>>

\* pop returns null: tasks that are still queued stay there.
WriterEnds == /\ ~working
              /\ Step("writer", "idle", "ended")
              /\ UNCHANGED <<ud, st, queue, data>>

Exec == /\ Step("writer", "exec", CASE st = "running" -> "swap"
                                    [] st = "close"   -> "fire"
                                    [] OTHER          -> "idle")
        /\ UNCHANGED <<ud, st, queue, data>>

\* try_write_all takes the user's data; there are none if it was cancelled.
TakeUserData ==
  /\ Step("writer", "swap", IF ud = Nobody THEN "check" ELSE "copy")
  /\ took' = ud /\ ud' = Nobody
  /\ UNCHANGED <<st, queue, offs, wbuf, sent, acked, finals>>

\* skip_copy::operator(): the offset after skipping and copying what there is.
SkipCopy(o, have, room) ==
  LET skipped == Max({o, Min({DataBeg, o + have})})
      left1   == have - (skipped - o)
      copied  == IF skipped \in DataBeg..(DataEnd - 1)
                 THEN Min({DataEnd - skipped, room, left1}) ELSE 0
      at2     == skipped + copied
      left2   == left1 - copied
  IN  [copied |-> copied,
       offs   |-> IF at2 >= DataEnd THEN Min({ObjectLen, at2 + left2}) ELSE at2]

\* Mutant of BufferAfter: wbuffer_ is cleared when it is full, taken or not.
BufferAfterCleared(full, taken) == IF taken \/ full = BuffCap THEN 0 ELSE full

\* wbuffer_.clear() only after aggw_write_frag has taken the fragment.
BufferAfter(full, taken) == IF taken THEN 0 ELSE full

\* One round of try_write_all's loop.  "taken": the aggregate writer takes a
\* full fragment, or the last one; otherwise the loop ends and the fragment
\* stays in wbuffer_.
Copy(taken) ==
  LET res  == SkipCopy(offs, took, BuffCap - wbuf)
      full == wbuf + res.copied
      send == full = BuffCap \/ (res.offs = ObjectLen /\ full > 0)
  IN  /\ took > 0 /\ offs < ObjectLen
      /\ send \/ taken
      /\ Step("writer", "copy", IF taken THEN "copy" ELSE "finish")
      /\ took' = took - (res.offs - offs)
      /\ offs' = res.offs
      /\ wbuf' = BufferAfter(full, send /\ taken)
      /\ sent' = IF send /\ taken THEN sent + full ELSE sent
      /\ UNCHANGED <<ud, st, queue, acked, finals>>

CopyTaken   == Copy(TRUE)
CopyRefused == Copy(FALSE)

CopyEnds == /\ took = 0 \/ offs = ObjectLen
            /\ Step("writer", "copy", "finish")
            /\ UNCHANGED <<ud, st, queue, data>>

\* The handler is called, with success or with unexpected_data, or the user's
\* data are put back for the next exec.
FinishWrite ==
  LET curDone == took = 0
      allDone == offs = ObjectLen
  IN  /\ Step("writer", "finish", IF curDone \/ allDone THEN "idle" ELSE "check")
      /\ acked' = IF curDone THEN offs ELSE acked
      /\ took' = IF curDone \/ allDone THEN Nobody ELSE ud
      /\ ud'   = IF curDone \/ allDone THEN ud ELSE took
      /\ UNCHANGED <<st, queue, offs, wbuf, sent, finals>>

\* Mutant of CheckState: the task is not queued again.
CheckStateNoPush == /\ Step("writer", "check", "idle")
                    /\ UNCHANGED <<ud, st, queue, data>>

\* exec looks at state_ again before it queues the task once more.
CheckState == /\ Step("writer", "check", IF st = "running" THEN "push" ELSE "idle")
              /\ UNCHANGED <<ud, st, queue, data>>

ExecPush == PushBack("writer", "idle", "mark")

WriterStopped == \/ MarkStopped("writer", "mark", "abort")
                 \/ TryFireError("writer", "abort", "idle")

\* exec in state close.
CloseFire == TryFireError("writer", "fire", "final")

DoFinalWrite == /\ Step("writer", "final", "close_done")
                /\ finals' = finals + 1
                /\ sent' = sent + wbuf /\ wbuf' = 0
                /\ UNCHANGED <<ud, st, queue, took, offs, acked>>

\* Mutant of CloseDone: the state is not changed.
CloseDoneForgotten == /\ Step("writer", "close_done", "idle")
                      /\ UNCHANGED <<ud, st, queue, data>>

CloseDone == /\ Step("writer", "close_done", "idle")
             /\ st' = "closed"
             /\ UNCHANGED <<ud, queue, data>>

-----------------------------------------------------------------------------
(* aio_service::stop, on shutdown or after too many disk errors.           *)

StopQueue == /\ Step("stopper", "idle", "join")
             /\ working' = FALSE
             /\ UNCHANGED <<ud, st, links, data>>

\* Mutant of ReleaseAll: the queued tasks are dropped.
\* The writer thread is joined, then every queued task is told.
ReleaseAll == /\ at["writer"] = "ended"
              /\ Step("stopper", "join", IF links > 0 THEN "mark" ELSE "done")
              /\ links' = 0
              /\ UNCHANGED <<ud, st, working, data>>

StopperStopped == \/ MarkStopped("stopper", "mark", "abort")
                  \/ TryFireError("stopper", "abort", "done")

User   == AsyncWrite \/ AsyncWritePush \/ AsyncClose \/ AsyncCloseEnqueue
            \/ AsyncCloseFire \/ UserStopped
Writer == Pop \/ WriterEnds \/ Exec \/ TakeUserData \/ CopyTaken \/ CopyRefused
            \/ CopyEnds \/ FinishWrite \/ CheckState \/ ExecPush \/ WriterStopped
            \/ CloseFire \/ DoFinalWrite \/ CloseDone
Stopper == StopQueue \/ ReleaseAll \/ StopperStopped

Next == User \/ Writer \/ Stopper

Spec == Init /\ [][Next]_vars

\* A thread that has begun a call ends it.  The aggregate writer does not
\* refuse for ever (CacheFs!AggWriterReturns).  Nobody has to begin a call.
FairSpec == /\ Spec
            /\ WF_vars(Writer)
            /\ SF_vars(CopyTaken)
            /\ WF_vars(User /\ at["user"] # "idle")
            /\ WF_vars(Stopper /\ at["stopper"] # "idle")

-----------------------------------------------------------------------------
(* What the handle promises.                                               *)

\* Every variable has its type, and every thread is where its code can be.
TypeOK == /\ ud \in 0..Max(OpSizes) /\ took \in 0..Max(OpSizes)
          /\ st \in State /\ links \in 0..2 /\ working \in BOOLEAN
          /\ at["user"] \in UserAt /\ at["writer"] \in WriterAt
          /\ at["stopper"] \in StopperAt
          /\ offs \in 0..ObjectLen /\ acked \in 0..ObjectLen
          /\ wbuf \in 0..BuffCap /\ sent \in Nat /\ finals \in Nat

\* The units of the transaction among the first o units of the object.
Wanted(o) == Max({0, Min({o, DataEnd}) - Min({o, DataBeg})})

\* What was consumed from the user is with the aggregate writer or still in
\* wbuffer_, whoever refuses, closes or stops in between, and no more than
\* that is reported to the user as written (object_write_handle::try_write_all).
NothingLost == /\ sent + wbuf = Wanted(offs)
               /\ acked <= offs
               /\ finals > 0 => sent = Wanted(offs) /\ sent >= Wanted(acked)

\* However close, a write in progress and a stop of the service race, the
\* transaction is finished once: a second final write would hand an already
\* moved transaction to the aggregate writer (exec, state::closed).
FinalWriteOnce == finals <= 1

\* No thread has the handle any more: its destructor runs.
Released == /\ at["user"] = "done" /\ links = 0
            /\ at["writer"] \in {"idle", "ended"}
            /\ at["stopper"] \notin {"mark", "abort"}

\* The assertion of the destructor: the transaction was finished, unless the
\* service was stopped.
DestroyedFinished == Released => \/ finals = 1 /\ wbuf = 0
                                 \/ st = "service_stopped"

\* Both: one final write at most, and a handle that is gone has had it.
FinishedOnce == FinalWriteOnce /\ DestroyedFinished

\* push_front and push_back expect that the task is not queued yet
\* (aio_task_queue.h).
NotQueuedTwice == ~Corrupted

Undisturbed == [](working /\ ~Corrupted)

\* While the service works, the handler of every async_write is called, also
\* when the aggregate writer refuses data again and again or the handle is
\* closed in the middle of an exec.
WritesAnswered == Undisturbed => (InFlight ~> ~InFlight)

\* While the service works, closing a handle finishes its transaction.
CloseFinishes == Undisturbed => (st = "close" ~> finals = 1)

=============================================================================

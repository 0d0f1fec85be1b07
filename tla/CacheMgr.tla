------------------------------ MODULE CacheMgr ------------------------------
(***************************************************************************)
(* cache_mgr of xproxy-beta/cache: the set of volumes, the rounds of       *)
(* metadata syncs over them, and the removal of a volume with too many     *)
(* disk errors, each a handler on the manager's own thread; and of every   *)
(* volume (cache_fs) its aio_service with the read queue, on which objects *)
(* are opened, and with the metadata sync on the write queue.              *)
(*                                                                         *)
(* A volume has one reader thread here.  Network threads open objects and  *)
(* close the open handles again.  They are gone before the manager is      *)
(* stopped (xproxy.cpp).                                                   *)
(***************************************************************************)
EXTENDS Naturals, Sequences, FiniteSets, SequencesExt

CONSTANTS
  Vols,      \* volumes; numbers, in the order of their uuids
  Opens,     \* object_open_handles
  MaxErrors, \* max_cnt_disk_errors
  None       \* no volume, no handle

ASSUME VolsAssumption == Vols \subseteq Nat /\ IsFiniteSet(Vols)
                         /\ None \notin Vols \cup Opens
ASSUME MaxErrorsAssumption == MaxErrors \in Nat \ {0}

VARIABLES
  mode,    \* the manager: running, told to stop, closing the volumes, down
  fss,     \* cache_fs_: the volumes in use
  tmr,     \* sync_meta_tmr_ is scheduled
  posted,  \* handlers of ios_ in their order
  closing, \* the volume on_fs_bad is closing
  svc,     \* aio_service of each volume
  rq,      \* its read_queue_
  thr,     \* the open handle its reader thread executes
  rel,     \* what was left in the queue when it was released
  told,    \* how many of these know that the service is stopped
  sync,    \* task_md_sync of each volume
  errs,    \* cnt_disk_errors_
  op,      \* open handles: what the user has done with them
  ans,     \* how often the handler of each was called
  seen     \* not in the code: volumes that had their turn in this round

mgrVars == <<mode, fss, tmr, posted, closing, seen>>
opVars  == <<op, ans>>
svcVars == <<svc, rq, thr, rel, told>>
vars    == <<mgrVars, svcVars, sync, errs, opVars>>

Handler == [what: {"sync"}, vol: Vols \cup {None}] \cup [what: {"bad"}, vol: Vols]

Init == /\ mode = "run" /\ fss = Vols /\ tmr = TRUE /\ posted = <<>>
        /\ closing = None /\ seen = {}
        /\ svc  = [v \in Vols |-> "up"]
        /\ rq   = [v \in Vols |-> <<>>]
        /\ thr  = [v \in Vols |-> None]
        /\ rel  = [v \in Vols |-> <<>>]
        /\ told = [v \in Vols |-> 0]
        /\ sync = [v \in Vols |-> "none"]
        /\ errs = [v \in Vols |-> 0]
        /\ op   = [c \in Opens |-> [pc |-> "idle", vol |-> None]]
        /\ ans  = [c \in Opens |-> 0]

-----------------------------------------------------------------------------
(* The manager's thread.                                                   *)

\* Handlers posted after ios_.stop() are never run.
Post(q, what, v) == IF mode = "run" THEN Append(q, [what |-> what, vol |-> v]) ELSE q

\* Mutant of TimerFires: the timer goes on.
TimerFiresAgain ==
  /\ mode = "run" /\ tmr
  /\ tmr' = tmr /\ posted' = Post(posted, "sync", None) /\ seen' = {}
  /\ UNCHANGED <<mode, fss, closing, svcVars, sync, errs, opVars>>

TimerFires ==
  /\ mode = "run" /\ tmr
  /\ tmr' = FALSE /\ posted' = Post(posted, "sync", None) /\ seen' = {}
  /\ UNCHANGED <<mode, fss, closing, svcVars, sync, errs, opVars>>

ThreadFree == mode = "run" /\ closing = None /\ posted # <<>>

\* Mutant of NextVols: the round ends when the volume before was removed.
NextVolsFound(prev) == IF prev = None THEN fss
                       ELSE IF prev \notin fss THEN {} ELSE {v \in fss : v > prev}

\* The volumes that are left in this round after prev.
NextVols(prev) == IF prev = None THEN fss ELSE {v \in fss : v > prev}

\* start_metadata_sync; async_sync_metadata of the next volume ends at once
\* if its metadata are not dirty.
StartMetadataSync ==
  /\ ThreadFree /\ Head(posted).what = "sync"
  /\ LET next == NextVols(Head(posted).vol) IN
     IF next = {}
     THEN tmr' = TRUE /\ posted' = Tail(posted) /\ UNCHANGED <<sync, seen>>
     ELSE LET v == CHOOSE u \in next : \A w \in next : u <= w IN
          /\ tmr' = tmr /\ seen' = seen \cup {v}
          /\ \/ sync' = [sync EXCEPT ![v] = "queued"] /\ posted' = Tail(posted)
             \/ sync' = sync /\ posted' = Post(Tail(posted), "sync", v)
  /\ UNCHANGED <<mode, fss, closing, svcVars, errs, opVars>>

\* on_fs_bad: first the volume is taken out, then it is closed; aios_.stop()
\* stops the queues and waits for the threads.
OnFsBad ==
  /\ ThreadFree /\ Head(posted).what = "bad"
  /\ LET v == Head(posted).vol IN
     IF v \in fss
     THEN /\ fss' = fss \ {v} /\ closing' = v
          /\ svc' = [svc EXCEPT ![v] = "stopping"]
     ELSE UNCHANGED <<fss, closing, svc>>
  /\ posted' = Tail(posted)
  /\ UNCHANGED <<mode, tmr, seen, rq, thr, rel, told, sync, errs, opVars>>

BadClosed ==
  /\ closing # None /\ svc[closing] = "down"
  /\ closing' = None
  /\ UNCHANGED <<mode, fss, tmr, posted, seen, svcVars, sync, errs, opVars>>

\* cache_mgr::stop, which waits for the handler that is running.  Network
\* threads have been stopped before it.
Stop ==
  /\ mode = "run"
  /\ mode' = "stop" /\ posted' = <<>>
  /\ UNCHANGED <<fss, tmr, closing, seen, svcVars, sync, errs, opVars>>

\* The volumes are closed in parallel.
StopVolumes ==
  /\ mode = "stop" /\ closing = None
  /\ mode' = "close"
  /\ svc' = [v \in Vols |-> IF v \in fss THEN "stopping" ELSE svc[v]]
  /\ UNCHANGED <<fss, tmr, posted, closing, seen, rq, thr, rel, told, sync, errs, opVars>>

Stopped ==
  /\ mode = "close" /\ \A v \in fss : svc[v] = "down"
  /\ mode' = "down" /\ fss' = {}
  /\ UNCHANGED <<tmr, posted, closing, seen, svcVars, sync, errs, opVars>>

-----------------------------------------------------------------------------
(* The service of a volume: the end of it.                                 *)

\* The threads have ended; the queues are released.  A metadata sync is told
\* that the service is stopped, which does nothing.
ThreadsJoined(v) ==
  /\ svc[v] = "stopping" /\ thr[v] = None /\ sync[v] # "writing"
  /\ svc' = [svc EXCEPT ![v] = "clearing"]
  /\ rel' = [rel EXCEPT ![v] = rq[v]] /\ rq' = [rq EXCEPT ![v] = <<>>]
  /\ told' = [told EXCEPT ![v] = 0]
  /\ sync' = [sync EXCEPT ![v] = "none"]
  /\ UNCHANGED <<mgrVars, thr, errs, opVars>>

\* service_stopped of the next one of the released handles, which stays linked
\* until all are told.
ReleasedTold(v) ==
  /\ told' = [told EXCEPT ![v] = @ + 1]
  /\ ans' = [ans EXCEPT ![rel[v][told[v] + 1]] = @ + 1]

TellReleased(v) ==
  /\ svc[v] = "clearing" /\ told[v] < Len(rel[v])
  /\ ReleasedTold(v)
  /\ UNCHANGED <<mgrVars, svc, rq, thr, rel, sync, errs, op>>

DisposeReleased(v) ==
  /\ svc[v] = "clearing" /\ told[v] = Len(rel[v])
  /\ svc' = [svc EXCEPT ![v] = "down"] /\ rel' = [rel EXCEPT ![v] = <<>>]
  /\ told' = [told EXCEPT ![v] = 0]
  /\ UNCHANGED <<mgrVars, rq, thr, sync, errs, opVars>>

-----------------------------------------------------------------------------
(* Disk errors and the metadata sync.                                      *)

\* Mutant of DiskError: the limit must be exceeded.
DiskErrorLate(v) == IF errs[v] + 1 > MaxErrors THEN Post(posted, "bad", v) ELSE posted

\* cache_fs::on_disk_error: the handlers after it.  The callback is used once.
DiskError(v) == IF errs[v] + 1 = MaxErrors THEN Post(posted, "bad", v) ELSE posted

CountError(v) == errs' = [errs EXCEPT ![v] = IF @ < MaxErrors THEN @ + 1 ELSE @]

\* Another operation of a volume fails.
OtherDiskError(v) ==
  /\ svc[v] \in {"up", "stopping"} /\ errs[v] < MaxErrors
  /\ CountError(v) /\ posted' = DiskError(v)
  /\ UNCHANGED <<mode, fss, tmr, closing, seen, svcVars, sync, opVars>>

\* The writer thread takes the task_md_sync for a chunk.
PopSync(v) ==
  /\ svc[v] = "up" /\ sync[v] = "queued"
  /\ sync' = [sync EXCEPT ![v] = "writing"]
  /\ UNCHANGED <<mgrVars, svcVars, errs, opVars>>

\* on_end_io_op: it pushes itself for the next chunk, which a stopped queue
\* refuses, or it ends and calls on_end, after on_disk_error if it failed.
ChunkWritten(v) ==
  /\ sync[v] = "writing"
  /\ \/ /\ sync' = [sync EXCEPT ![v] = IF svc[v] = "up" THEN "queued" ELSE "none"]
        /\ UNCHANGED <<posted, errs>>
     \/ /\ sync' = [sync EXCEPT ![v] = "none"]
        /\ posted' = Post(posted, "sync", v) /\ errs' = errs
     \/ /\ sync' = [sync EXCEPT ![v] = "none"]
        /\ CountError(v) /\ posted' = Post(DiskError(v), "sync", v)
  /\ UNCHANGED <<mode, fss, tmr, closing, seen, svcVars, opVars>>

-----------------------------------------------------------------------------
(* Opening objects.                                                        *)

\* async_open_read, async_open_write: the user has a copy of the collection
\* and the volume of the key from it.  (Without any volume the process dies
\* here, in the division by their count.)
ChooseVolume(c) ==
  /\ mode = "run" /\ op[c].pc = "idle"
  /\ \E v \in fss : op' = [op EXCEPT ![c] = [pc |-> "chosen", vol |-> v]]
  /\ UNCHANGED <<mgrVars, svcVars, sync, errs, ans>>

\* Mutant of PushRefused: the handler is not called.
PushRefusedSilently(c) == ans' = ans

\* push_front_task to a queue that no longer works: service_stopped.
PushRefused(c) == ans' = [ans EXCEPT ![c] = @ + 1]

PushFront(c) ==
  LET v == op[c].vol IN
  /\ mode = "run" /\ op[c].pc = "chosen"
  /\ op' = [op EXCEPT ![c].pc = "asked"]
  /\ \/ svc[v] = "up" /\ rq' = [rq EXCEPT ![v] = <<c>> \o @] /\ ans' = ans
     \/ svc[v] # "up" /\ rq' = rq /\ PushRefused(c)
  /\ UNCHANGED <<mgrVars, svc, thr, rel, told, sync, errs>>

\* Mutant of Popped: the handle stays in the queue while it is executed.
PoppedKept(q) == q

Popped(q) == Tail(q)

\* The reader thread takes the next handle; exec calls its handler.
PopOpen(v) ==
  /\ svc[v] = "up" /\ thr[v] = None /\ rq[v] # <<>>
  /\ thr' = [thr EXCEPT ![v] = Head(rq[v])] /\ rq' = [rq EXCEPT ![v] = Popped(@)]
  /\ UNCHANGED <<mgrVars, svc, rel, told, sync, errs, opVars>>

ExecOpen(v) ==
  /\ thr[v] # None
  /\ thr' = [thr EXCEPT ![v] = None] /\ ans' = [ans EXCEPT ![thr[v]] = @ + 1]
  /\ UNCHANGED <<mgrVars, svc, rq, rel, told, sync, errs, op>>

\* A hook is unlinked from the list it is in; it is never in one twice.
Without(q, c) == IF \E i \in 1..Len(q) : q[i] = c
                 THEN RemoveAt(q, CHOOSE i \in 1..Len(q) : q[i] = c)
                 ELSE q

\* async_close by the user, who may not know of an answer yet.  remove_task
\* takes the handle out of whatever list it is linked in, the released ones
\* included, and then the handler is called.
CloseOpen(c) ==
  LET v     == op[c].vol
      inRel == \E i \in 1..Len(rel[v]) : rel[v][i] = c
      inRq  == \E i \in 1..Len(rq[v]) : rq[v][i] = c
  IN  /\ mode = "run" /\ op[c].pc = "asked"
      /\ op' = [op EXCEPT ![c].pc = "closed"]
      /\ rq'  = [rq EXCEPT ![v] = Without(@, c)]
      /\ rel' = [rel EXCEPT ![v] = Without(@, c)]
      /\ told' = [told EXCEPT ![v] =
                    IF \E i \in 1..@ : rel[v][i] = c THEN @ - 1 ELSE @]
      /\ ans' = IF inRel \/ inRq THEN [ans EXCEPT ![c] = @ + 1] ELSE ans
      /\ UNCHANGED <<mgrVars, svc, thr, sync, errs>>

Linked(c) == \E v \in Vols : \/ thr[v] = c
                             \/ \E i \in 1..Len(rq[v]) : rq[v][i] = c
                             \/ \E i \in 1..Len(rel[v]) : rel[v][i] = c

\* The user has got the answer and opens another object with a new handle.
NextOpen(c) ==
  /\ mode = "run" /\ op[c].pc \in {"asked", "closed"} /\ ans[c] > 0 /\ ~Linked(c)
  /\ op' = [op EXCEPT ![c] = [pc |-> "idle", vol |-> None]]
  /\ ans' = [ans EXCEPT ![c] = 0]
  /\ UNCHANGED <<mgrVars, svcVars, sync, errs>>

-----------------------------------------------------------------------------
Handle   == StartMetadataSync \/ OnFsBad \/ BadClosed \/ StopVolumes \/ Stopped
Thread(v) == \/ PopSync(v) \/ ChunkWritten(v)
             \/ ThreadsJoined(v) \/ TellReleased(v) \/ DisposeReleased(v)
Reader(v) == PopOpen(v) \/ ExecOpen(v)

Next == \/ TimerFires \/ Stop \/ Handle
        \/ \E v \in Vols : Thread(v) \/ Reader(v) \/ OtherDiskError(v)
        \/ \E c \in Opens : \/ ChooseVolume(c) \/ PushFront(c)
                            \/ CloseOpen(c) \/ NextOpen(c)

\* Timers fire and threads go on; a metadata sync has finitely many chunks.
\* Disk errors, the stop and what users do need not happen.
Fairness == /\ WF_vars(TimerFires) /\ WF_vars(Handle)
            /\ \A v \in Vols : /\ WF_vars(Thread(v)) /\ WF_vars(Reader(v))
                               /\ SF_vars(ChunkWritten(v) /\ sync'[v] = "none")

Spec     == Init /\ [][Next]_vars
FairSpec == Spec /\ Fairness

-----------------------------------------------------------------------------
(* Properties.                                                             *)

TypeOK ==
  /\ mode \in {"run", "stop", "close", "down"}
  /\ fss \subseteq Vols /\ tmr \in BOOLEAN /\ seen \subseteq Vols
  /\ posted \in Seq(Handler) /\ closing \in Vols \cup {None}
  /\ svc \in [Vols -> {"up", "stopping", "clearing", "down"}]
  /\ rq \in [Vols -> Seq(Opens)] /\ thr \in [Vols -> Opens \cup {None}]
  /\ rel \in [Vols -> Seq(Opens)]
  /\ \A v \in Vols : told[v] \in 0..Len(rel[v])
  /\ sync \in [Vols -> {"none", "queued", "writing"}]
  /\ errs \in [Vols -> 0..MaxErrors]
  /\ op \in [Opens -> [pc: {"idle", "chosen", "asked", "closed"}, vol: Vols \cup {None}]]
  /\ ans \in [Opens -> 0..2]

\* The rounds never fork: the timer, a posted continuation and a sync in
\* progress exclude each other, so that no volume is asked to sync while it
\* does ("There shouldn't be a previous metadata sync operation in progress").
OneSyncAtATime ==
  LET syncs == {i \in 1..Len(posted) : posted[i].what = "sync"}
      busy  == {v \in Vols : sync[v] # "none"}
  IN  Cardinality(syncs) + Cardinality(busy) + (IF tmr THEN 1 ELSE 0) <= 1

\* When a round ends every volume still in use has had its turn in it, also
\* if the volume before it was removed in the meantime.
RoundComplete == [][tmr' /\ ~tmr => fss \subseteq seen]_vars

\* A handle that its user has not closed is answered at most once: the thread
\* that executes it and the stop of the service never both have it.
AskedOnce == \A c \in Opens : op[c].pc = "asked" => ans[c] <= 1

\* An open is answered, also if its volume is closed before or after it gets
\* into the queue.  While there are ever more opens it need not be: they go to
\* the front of the queue.
OpenAnswered ==
  <>[](\A c \in Opens : op[c].pc # "chosen") =>
    \A c \in Opens : op[c].pc \in {"asked", "closed"} ~> ans[c] > 0

\* A volume with too many errors is closed, whatever the manager and the
\* threads of the volume are doing.
BadIsClosed == \A v \in Vols : errs[v] = MaxErrors ~> svc[v] = "down" \/ mode = "down"

\* "ensures the only one of the functions is actually executed"
\* (object_open_handle.cpp:87-89): service_stopped or async_close.
AnsweredOnce == \A c \in Opens : ans[c] <= 1

\* "even if some file systems has been removed in the meantime we'll continue
\* from the next" (cache_mgr.cpp:396-397)
SyncGoesOn == []<>(tmr \/ mode # "run" \/ fss = {})

=============================================================================

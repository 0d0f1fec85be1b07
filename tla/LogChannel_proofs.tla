-------------------------- MODULE LogChannel_proofs --------------------------
(***************************************************************************)
(* Proofs about LogChannel, for any limits and any number of messages.     *)
(*                                                                         *)
(* InOrder, ToldIsTrue with Told, and RefusalEnds are inductive with the   *)
(* types.  LossIsTold needs Refusing: while nobody stops the channel, the  *)
(* queue refuses only with a count above zero, and the worker that is      *)
(* about to lift the refusal has seen it; hence when it finds the count    *)
(* zero the channel is being stopped, no message comes any more, and       *)
(* resetting the count forgets nothing.                                    *)
(***************************************************************************)
EXTENDS LogChannel, SequenceTheorems, FiniteSetTheorems, TLAPS

\* The stop has begun exactly when stopped_ says so; past its loop the worker
\* has seen it, and in the end there is nothing left to flush.
Stopping ==
  /\ sat = "idle" <=> stopped = "running"
  /\ wat \in {"block", "drain", "flush", "last", "done"} => stopped # "running"
  /\ wat \in {"last", "done"} /\ stopped = "stopped_flush" => queue = <<>>

Refusing ==
  /\ sat = "idle" /\ block => cnt > 0
  /\ wat \in {"count", "report", "unblock"} => res.blocked
  /\ wat \in {"log", "count", "report", "unblock"} /\ res.blocked /\ sat = "idle" => block
  /\ wat = "unblock" => Reports(queue) \/ (sat # "idle" /\ ~owed)

Told ==
  /\ wat \in {"report", "unblock"} => skipped <= cnt
  /\ told + (IF wat = "done" THEN 0
             ELSE IF wat = "unblock" THEN cnt - skipped ELSE cnt) <= lost

-----------------------------------------------------------------------------
(* What the operations of the queue do to its entries.                     *)

LEMMA Lengths ==
  ASSUME TypeOK
  PROVE  /\ Len(queue) \in Nat /\ Len(taken) \in Nat /\ Len(file) \in Nat
         /\ queue # <<>> <=> Len(queue) > 0
         /\ <<>> \in Seq(Entry) /\ Len(<<>>) = 0
<1>1. queue \in Seq(Entry) /\ taken \in Seq(Entry) /\ file \in Seq(Entry)
  BY DEF TypeOK
<1>2. Len(queue) \in Nat /\ Len(taken) \in Nat /\ Len(file) \in Nat
  BY <1>1, LenProperties
<1>3. <<>> \in Seq(Entry) /\ Len(<<>>) = 0 /\ (queue # <<>> => Len(queue) \in Nat \ {0})
  BY <1>1, EmptySeq
<1> QED  BY <1>2, <1>3

LEMMA Pushed ==
  ASSUME TypeOK, NEW e \in Entry, Push(e)
  PROVE  /\ queue' \in Seq(Entry) /\ taken' \in Seq(Entry)
         /\ Len(queue') = Len(queue) + 1 /\ Len(taken') = Len(taken) + 1
         /\ \A i \in 1..Len(queue) : queue'[i] = queue[i]
         /\ \A i \in 1..Len(taken) : taken'[i] = taken[i]
         /\ queue'[Len(queue) + 1] = e /\ taken'[Len(taken) + 1] = e
<1>1. queue \in Seq(Entry) /\ taken \in Seq(Entry)
  BY DEF TypeOK
<1>2. queue' = Append(queue, e) /\ taken' = Append(taken, e)
  BY DEF Push
<1>3. /\ queue' \in Seq(Entry) /\ Len(queue') = Len(queue) + 1
      /\ \A i \in 1..Len(queue) : queue'[i] = queue[i]
      /\ queue'[Len(queue) + 1] = e
  BY <1>1, <1>2, AppendProperties
<1>4. /\ taken' \in Seq(Entry) /\ Len(taken') = Len(taken) + 1
      /\ \A i \in 1..Len(taken) : taken'[i] = taken[i]
      /\ taken'[Len(taken) + 1] = e
  BY <1>1, <1>2, AppendProperties
<1> QED  BY <1>3, <1>4

LEMMA Popped ==
  ASSUME TypeOK, queue # <<>>, Pop
  PROVE  /\ queue' \in Seq(Entry)
         /\ Len(queue') = Len(queue) - 1
         /\ \A i \in 1..Len(queue') : queue'[i] = queue[i + 1]
         /\ res' = [msg |-> queue[1], size |-> Len(queue), blocked |-> block]
         /\ res' \in [msg : Entry, size : Nat, blocked : BOOLEAN]
<1>1. queue \in Seq(Entry) /\ Len(queue) \in Nat /\ Len(queue) > 0 /\ block \in BOOLEAN
  BY Lengths DEF TypeOK
<1>2. queue' = Tail(queue) /\ res' = [msg |-> Head(queue), size |-> Len(queue), blocked |-> block]
  BY DEF Pop
<1>3. /\ queue' \in Seq(Entry) /\ Len(queue') = Len(queue) - 1
      /\ \A i \in 1..Len(queue') : queue'[i] = queue[i + 1]
      /\ Head(queue) \in Entry
  BY <1>1, <1>2, HeadTailProperties
<1>4. Head(queue) = queue[1]
  BY <1>1
<1> QED  BY <1>1, <1>2, <1>3, <1>4

LEMMA Written ==
  ASSUME TypeOK, file' = Append(file, res.msg)
  PROVE  /\ file' \in Seq(Entry) /\ Len(file') = Len(file) + 1
         /\ \A i \in 1..Len(file) : file'[i] = file[i]
         /\ file'[Len(file) + 1] = res.msg
<1>1. file \in Seq(Entry) /\ res.msg \in Entry
  BY DEF TypeOK
<1> QED  BY <1>1, AppendProperties

LEMMA EntriesAre ==
  ASSUME TypeOK
  PROVE  /\ Report \in Entry
         /\ \A forced \in BOOLEAN : [n |-> next + 1, forced |-> forced] \in Entry
  BY DEF TypeOK, Entry, Message

-----------------------------------------------------------------------------
(* Types *)

\* The queue's fields, the histories and the two threads have the values the
\* code can give them.
LEMMA TypeKept ==
  ASSUME TypeOK, [Next]_vars
  PROVE  TypeOK'
<1> USE DEF shared, worker, history, Stopped, WorkerAt, StopperAt
<1>1. ASSUME NEW forced \in BOOLEAN, Emplace(forced) PROVE TypeOK'
  <2> DEFINE e == [n |-> next + 1, forced |-> forced]
  <2>1. CASE MayPush(forced)
    <3>1. Push(e) /\ next' = next + 1 /\ UNCHANGED <<block, cnt, lost, owed, unblock, stopped, wat, res, skipped, sat, file, told>>
      BY <1>1, <2>1 DEF Emplace
    <3>2. queue' \in Seq(Entry) /\ taken' \in Seq(Entry)
      BY <3>1, EntriesAre, Pushed
    <3> QED  BY <3>1, <3>2 DEF TypeOK
  <2>2. CASE ~MayPush(forced)
    <3>1. /\ next' = next + 1 /\ cnt' = cnt + 1 /\ lost' = lost + 1
          /\ block' = TRUE /\ owed' = TRUE
          /\ UNCHANGED <<queue, taken, unblock, stopped, wat, res, skipped, sat, file, told>>
      BY <1>1, <2>2 DEF Emplace
    <3> QED  BY <3>1 DEF TypeOK
  <2> QED  BY <2>1, <2>2
<1>2. CASE CheckStopped
  BY <1>2 DEF CheckStopped, TypeOK
<1>3. CASE WaitPop
  <2>1. CASE queue # <<>> /\ Pop /\ wat' = "log"
    <3>1. queue' \in Seq(Entry) /\ res' \in [msg : Entry, size : Nat, blocked : BOOLEAN]
      BY <2>1, Popped
    <3> QED  BY <1>3, <2>1, <3>1 DEF WaitPop, TypeOK
  <2>2. CASE queue = <<>> /\ wat' = "check" /\ UNCHANGED <<queue, res>>
    BY <1>3, <2>2 DEF WaitPop, TypeOK
  <2> QED  BY <1>3, <2>1, <2>2 DEF WaitPop
<1>4. CASE LogMessage \/ LogFlushed
  <2>1. file' \in Seq(Entry)
    BY <1>4, Written DEF LogMessage, LogFlushed
  <2>2. /\ wat' \in {"count", "check", "drain"}
        /\ UNCHANGED <<queue, block, cnt, unblock, stopped, res, skipped, sat, next, taken, lost, told, owed>>
    BY <1>4 DEF LogMessage, LogFlushed
  <2> QED  BY <2>1, <2>2 DEF TypeOK
<1>5. CASE CountBlocked
  BY <1>5 DEF CountBlocked, TypeOK
<1>6. CASE EmplaceReport
  <2>1. queue' \in Seq(Entry) /\ taken' \in Seq(Entry)
    BY <1>6, EntriesAre, Pushed DEF EmplaceReport
  <2> QED  BY <1>6, <2>1 DEF EmplaceReport, TypeOK
<1>7. CASE UnblockPush
  BY <1>7 DEF UnblockPush, TypeOK
<1>8. CASE BlockPush
  BY <1>8 DEF BlockPush, TypeOK
<1>9. CASE TryPop
  <2>1. CASE queue # <<>> /\ Pop /\ wat' = "flush"
    <3>1. queue' \in Seq(Entry) /\ res' \in [msg : Entry, size : Nat, blocked : BOOLEAN]
      BY <2>1, Popped
    <3> QED  BY <1>9, <2>1, <3>1 DEF TryPop, TypeOK
  <2>2. CASE queue = <<>> /\ wat' = "last" /\ UNCHANGED <<queue, res>>
    BY <1>9, <2>2 DEF TryPop, TypeOK
  <2> QED  BY <1>9, <2>1, <2>2 DEF TryPop
<1>10. CASE LogLast
  BY <1>10 DEF LogLast, TypeOK
<1>11. ASSUME NEW wait_flush \in BOOLEAN, StoreStopped(wait_flush) PROVE TypeOK'
  BY <1>11 DEF StoreStopped, TypeOK
<1>12. CASE StopGoesOn
  BY <1>12 DEF StopGoesOn, StopBlocksPush, StopUnblocksPop, Join, TypeOK
<1>13. CASE UNCHANGED vars
  BY <1>13 DEF vars, TypeOK
<1> QED  BY <1>1, <1>2, <1>3, <1>4, <1>5, <1>6, <1>7, <1>8, <1>9, <1>10, <1>11, <1>12, <1>13
         DEF Next, Worker

-----------------------------------------------------------------------------
(* Order *)

LEMMA OrderKept ==
  ASSUME TypeOK, InOrder, [Next]_vars
  PROVE  InOrder'
<1> USE DEF shared, worker, history
<1>0. /\ Len(queue) \in Nat /\ Len(taken) \in Nat /\ Len(file) \in Nat
      /\ queue # <<>> <=> Len(queue) > 0
  BY Lengths
\* An entry is added at both ends.
<1>1. ASSUME NEW e \in Entry, Push(e), UNCHANGED <<file, res>>, Holds' = Holds PROVE InOrder'
  <2> DEFINE held == IF Holds THEN 1 ELSE 0
  <2>1. /\ Len(queue') = Len(queue) + 1 /\ Len(taken') = Len(taken) + 1
        /\ \A i \in 1..Len(queue) : queue'[i] = queue[i]
        /\ \A i \in 1..Len(taken) : taken'[i] = taken[i]
        /\ queue'[Len(queue) + 1] = e /\ taken'[Len(taken) + 1] = e
    BY <1>1, Pushed
  <2>2. /\ held \in Nat /\ Len(taken) = Len(file) + held + Len(queue)
        /\ \A i \in 1..Len(file) : file[i] = taken[i]
        /\ Holds => held = 1 /\ res.msg = taken[Len(file) + 1]
        /\ \A i \in 1..Len(queue) : queue[i] = taken[Len(file) + held + i]
    BY DEF InOrder
  <2>3. file' = file /\ res' = res /\ Holds' = Holds /\ held' = held
    BY <1>1
  <2> HIDE DEF held
  <2>4. \A i \in 1..Len(file) : file[i] = taken'[i]
    BY <1>0, <2>1, <2>2
  <2>5. Holds => res.msg = taken'[Len(file) + 1]
    BY <1>0, <2>1, <2>2
  <2>6. ASSUME NEW i \in 1..Len(queue') PROVE queue'[i] = taken'[Len(file) + held + i]
    <3>1. CASE i = Len(queue) + 1
      BY <1>0, <2>1, <2>2, <3>1
    <3>2. CASE i \in 1..Len(queue)
      <4>1. Len(file) + held + i \in 1..Len(taken)
        BY <1>0, <2>2, <3>2
      <4> QED  BY <2>1, <2>2, <3>2, <4>1
    <3> QED  BY <1>0, <2>1, <3>1, <3>2
  <2>7. Len(taken') = Len(file) + held + Len(queue')
    BY <1>0, <2>1, <2>2
  <2> QED  BY <2>3, <2>4, <2>5, <2>6, <2>7 DEF InOrder, held
\* The entry at the head passes to the worker.
<1>2. ASSUME queue # <<>>, Pop, UNCHANGED <<file, taken>>, ~Holds, Holds' PROVE InOrder'
  <2>1. /\ Len(queue') = Len(queue) - 1
        /\ \A i \in 1..Len(queue') : queue'[i] = queue[i + 1]
        /\ res'.msg = queue[1]
    BY <1>2, Popped
  <2>2. /\ Len(taken) = Len(file) + 0 + Len(queue)
        /\ \A i \in 1..Len(file) : file[i] = taken[i]
        /\ \A i \in 1..Len(queue) : queue[i] = taken[Len(file) + 0 + i]
    BY <1>2 DEF InOrder
  <2>3. res'.msg = taken[Len(file) + 1]
    BY <1>0, <1>2, <2>1, <2>2
  <2>4. ASSUME NEW i \in 1..Len(queue') PROVE queue'[i] = taken[Len(file) + 1 + i]
    <3>1. i + 1 \in 1..Len(queue) /\ Len(file) + 0 + (i + 1) = Len(file) + 1 + i
      BY <1>0, <2>1
    <3> QED  BY <2>1, <2>2, <3>1
  <2>5. Len(taken) = Len(file) + 1 + Len(queue')
    BY <1>0, <2>1, <2>2
  <2> QED  BY <1>2, <2>2, <2>3, <2>4, <2>5 DEF InOrder
\* The worker writes what it holds.
<1>3. ASSUME file' = Append(file, res.msg), UNCHANGED <<queue, taken>>, Holds, ~Holds' PROVE InOrder'
  <2>1. /\ Len(file') = Len(file) + 1
        /\ \A i \in 1..Len(file) : file'[i] = file[i]
        /\ file'[Len(file) + 1] = res.msg
    BY <1>3, Written
  <2>2. /\ Len(taken) = Len(file) + 1 + Len(queue)
        /\ \A i \in 1..Len(file) : file[i] = taken[i]
        /\ res.msg = taken[Len(file) + 1]
        /\ \A i \in 1..Len(queue) : queue[i] = taken[Len(file) + 1 + i]
    BY <1>3 DEF InOrder
  <2>3. ASSUME NEW i \in 1..Len(file') PROVE file'[i] = taken[i]
    <3>1. i \in 1..Len(file) \/ i = Len(file) + 1
      BY <1>0, <2>1
    <3> QED  BY <2>1, <2>2, <3>1
  <2>4. /\ Len(taken) = Len(file') + 0 + Len(queue)
        /\ \A i \in 1..Len(queue) : queue[i] = taken[Len(file') + 0 + i]
    BY <1>0, <2>1, <2>2
  <2> QED  BY <1>3, <2>3, <2>4 DEF InOrder
<1>4. CASE UNCHANGED <<queue, taken, file, res>> /\ Holds' = Holds
  BY <1>4 DEF InOrder
<1>5. ASSUME NEW forced \in BOOLEAN, Emplace(forced) PROVE InOrder'
  <2>1. wat' = wat /\ Holds' = Holds
    BY <1>5 DEF Emplace, Holds
  <2>2. \/ Push([n |-> next + 1, forced |-> forced])
        \/ UNCHANGED <<queue, taken>>
    BY <1>5 DEF Emplace
  <2>3. UNCHANGED <<file, res>>
    BY <1>5 DEF Emplace
  <2> QED  BY <1>1, <1>4, <2>1, <2>2, <2>3, EntriesAre
<1>6. CASE EmplaceReport
  <2>1. Push(Report) /\ UNCHANGED <<file, res>> /\ Holds' = Holds
    BY <1>6 DEF EmplaceReport, Holds
  <2> QED  BY <1>1, <2>1, EntriesAre
<1>7. CASE WaitPop \/ TryPop
  <2>1. ~Holds /\ UNCHANGED <<file, taken>>
    BY <1>7 DEF WaitPop, TryPop, Holds
  <2>2. \/ queue # <<>> /\ Pop /\ wat' \in {"log", "flush"}
        \/ UNCHANGED <<queue, res>> /\ wat' \in {"check", "last"}
    BY <1>7 DEF WaitPop, TryPop
  <2>3. \/ queue # <<>> /\ Pop /\ Holds'
        \/ UNCHANGED <<queue, res>> /\ Holds' = Holds
    BY <2>1, <2>2 DEF Holds
  <2> QED  BY <1>2, <1>4, <2>1, <2>3 DEF Holds
<1>8. CASE LogMessage \/ LogFlushed
  <2>1. file' = Append(file, res.msg) /\ UNCHANGED <<queue, taken>> /\ Holds /\ ~Holds'
    BY <1>8 DEF LogMessage, LogFlushed, Holds
  <2> QED  BY <1>3, <2>1
<1>9. CASE CheckStopped \/ CountBlocked \/ UnblockPush \/ BlockPush \/ LogLast
  BY <1>4, <1>9 DEF CheckStopped, CountBlocked, UnblockPush, BlockPush, LogLast, Holds
<1>10. CASE (\E wait_flush \in BOOLEAN : StoreStopped(wait_flush)) \/ StopGoesOn \/ UNCHANGED vars
  BY <1>4, <1>10 DEF StoreStopped, StopGoesOn, StopBlocksPush, StopUnblocksPop, Join, vars, Holds
<1> QED  BY <1>5, <1>6, <1>7, <1>8, <1>9, <1>10 DEF Next, Worker

LEMMA StoppingKept ==
  ASSUME TypeOK, Stopping, [Next]_vars
  PROVE  Stopping'
<1> USE DEF shared, worker, history
<1>1. CASE \E forced \in BOOLEAN : Emplace(forced)
  <2>1. sat = "idle" /\ UNCHANGED <<sat, stopped, wat>>
    BY <1>1 DEF Emplace
  <2> QED  BY <2>1 DEF Stopping
<1>2. CASE CheckStopped \/ CountBlocked \/ UnblockPush \/ LogMessage \/ LogFlushed \/ LogLast
  BY <1>2 DEF CheckStopped, CountBlocked, UnblockPush, LogMessage, LogFlushed, LogLast, Stopping
<1>3. CASE EmplaceReport \/ BlockPush
  BY <1>3 DEF EmplaceReport, BlockPush, Stopping
<1>4. CASE WaitPop \/ TryPop
  BY <1>4 DEF WaitPop, TryPop, Stopping
<1>5. CASE \E wait_flush \in BOOLEAN : StoreStopped(wait_flush)
  BY <1>5 DEF StoreStopped, Stopping
<1>6. CASE StopGoesOn \/ UNCHANGED vars
  BY <1>6 DEF StopGoesOn, StopBlocksPush, StopUnblocksPop, Join, vars, Stopping
<1> QED  BY <1>1, <1>2, <1>3, <1>4, <1>5, <1>6 DEF Next, Worker

\* A flushed channel has written everything: nothing in the queue, nothing in
\* the worker's hands.
LEMMA FlushedFollows ==
  ASSUME TypeOK, InOrder, Stopping
  PROVE  FlushedAll
<1> SUFFICES ASSUME wat = "done", stopped = "stopped_flush" PROVE queue = <<>> /\ file = taken
  BY DEF FlushedAll
<1>1. queue = <<>> /\ Len(queue) = 0 /\ Len(file) \in Nat
  BY Lengths DEF Stopping
<1>2. /\ Len(taken) = Len(file) + 0 + Len(queue)
      /\ \A i \in 1..Len(file) : file[i] = taken[i]
  BY DEF InOrder, Holds
<1>3. Len(file) = Len(taken)
  BY <1>1, <1>2
<1>4. file \in Seq(Entry) /\ taken \in Seq(Entry)
  BY DEF TypeOK
<1>5. file = taken
  BY <1>2, <1>3, <1>4, SeqEqual
<1> QED  BY <1>1, <1>5

-----------------------------------------------------------------------------
(* Refusing and telling *)

LEMMA ReportsPushed ==
  ASSUME TypeOK, NEW e \in Entry, Push(e)
  PROVE  /\ Reports(queue) => Reports(queue')
         /\ e = Report => Reports(queue')
<1>1. /\ Len(queue) \in Nat /\ Len(queue') = Len(queue) + 1
      /\ \A i \in 1..Len(queue) : queue'[i] = queue[i]
      /\ queue'[Len(queue) + 1] = e
  BY Lengths, Pushed
<1>2. Len(queue) + 1 \in 1..Len(queue') /\ 1..Len(queue) \subseteq 1..Len(queue')
  BY <1>1
<1> QED  BY <1>1, <1>2 DEF Reports

LEMMA RefusingKept ==
  ASSUME TypeOK, Stopping, Refusing, LossIsTold, [Next]_vars
  PROVE  Refusing' /\ LossIsTold'
<1> USE DEF shared, worker, history
<1>0. cnt \in Nat /\ block \in BOOLEAN /\ owed \in BOOLEAN
  BY DEF TypeOK
<1>1. ASSUME NEW forced \in BOOLEAN, Emplace(forced) PROVE Refusing' /\ LossIsTold'
  <2>1. sat = "idle" /\ UNCHANGED <<sat, wat, res, stopped>>
    BY <1>1 DEF Emplace
  <2>2. wat # "done"
    BY <2>1 DEF Stopping
  <2>3. CASE MayPush(forced)
    <3>1. Push([n |-> next + 1, forced |-> forced]) /\ UNCHANGED <<block, cnt, owed>>
      BY <1>1, <2>3 DEF Emplace
    <3>2. Reports(queue) => Reports(queue')
      BY <3>1, EntriesAre, ReportsPushed
    <3> QED  BY <2>1, <2>2, <3>1, <3>2 DEF Refusing, LossIsTold
  <2>4. CASE ~MayPush(forced)
    <3>1. cnt' = cnt + 1 /\ block' = TRUE /\ owed' = TRUE /\ queue' = queue
      BY <1>1, <2>4 DEF Emplace
    <3>2. cnt' > 0
      BY <1>0, <3>1
    <3>3. Reports(queue') = Reports(queue)
      BY <3>1
    <3> QED  BY <2>1, <2>2, <3>1, <3>2, <3>3 DEF Refusing, LossIsTold
  <2> QED  BY <2>3, <2>4
<1>2. CASE CheckStopped
  <2>1. /\ wat = "check" /\ wat' \in {"wait", "block"}
        /\ UNCHANGED <<queue, block, cnt, res, sat, owed>>
    BY <1>2 DEF CheckStopped
  <2> QED  BY <2>1 DEF Refusing, LossIsTold
<1>3. CASE WaitPop
  <2>1. wat = "wait" /\ wat' \in {"log", "check"} /\ UNCHANGED <<block, cnt, sat, owed>>
    BY <1>3 DEF WaitPop
  <2>2. wat' = "log" => res'.blocked = block
    BY <1>3 DEF WaitPop, Pop
  <2> QED  BY <2>1, <2>2 DEF Refusing, LossIsTold
<1>4. CASE LogMessage
  <2>1. /\ wat = "log" /\ wat' \in {"count", "check"} /\ (wat' = "count" => res.blocked)
        /\ UNCHANGED <<queue, block, cnt, res, sat, owed>>
    BY <1>4 DEF LogMessage
  <2> QED  BY <2>1 DEF Refusing, LossIsTold
<1>5. CASE CountBlocked
  <2>1. /\ wat = "count" /\ wat' \in {"report", "unblock"} /\ (wat' = "unblock" => ~(cnt > 0))
        /\ UNCHANGED <<queue, block, cnt, res, sat, owed>>
    BY <1>5 DEF CountBlocked
  <2>2. cnt > 0 \/ (sat # "idle" /\ ~owed)
    BY <2>1 DEF Refusing, LossIsTold
  <2> QED  BY <2>1, <2>2 DEF Refusing, LossIsTold
<1>6. CASE EmplaceReport
  <2>1. /\ wat = "report" /\ wat' = "unblock" /\ Push(Report)
        /\ UNCHANGED <<block, cnt, res, sat, owed>>
    BY <1>6 DEF EmplaceReport
  <2>2. Reports(queue')
    BY <2>1, EntriesAre, ReportsPushed
  <2> QED  BY <2>1, <2>2 DEF Refusing, LossIsTold
<1>7. CASE UnblockPush
  <2>1. /\ wat = "unblock" /\ wat' = "check" /\ cnt' = 0 /\ block' = FALSE
        /\ owed' = (owed /\ ~Reports(queue)) /\ UNCHANGED <<queue, res, sat>>
    BY <1>7 DEF UnblockPush
  <2>2. ~owed'
    BY <2>1 DEF Refusing
  <2> QED  BY <2>1, <2>2 DEF Refusing, LossIsTold
<1>8. CASE BlockPush
  <2>1. /\ wat = "block" /\ wat' \in {"drain", "last"} /\ UNCHANGED <<cnt, res, sat, owed>>
    BY <1>8 DEF BlockPush
  <2>2. sat # "idle"
    BY <2>1 DEF Stopping
  <2> QED  BY <2>1, <2>2 DEF Refusing, LossIsTold
<1>9. CASE TryPop
  <2>1. wat = "drain" /\ wat' \in {"flush", "last"} /\ UNCHANGED <<block, cnt, sat, owed>>
    BY <1>9 DEF TryPop
  <2> QED  BY <2>1 DEF Refusing, LossIsTold
<1>10. CASE LogFlushed
  <2>1. wat = "flush" /\ wat' = "drain" /\ UNCHANGED <<block, cnt, sat, owed>>
    BY <1>10 DEF LogFlushed
  <2> QED  BY <2>1 DEF Refusing, LossIsTold
<1>11. CASE LogLast
  <2>1. /\ wat = "last" /\ wat' = "done" /\ owed' = (owed /\ cnt = 0)
        /\ UNCHANGED <<block, cnt, sat>>
    BY <1>11 DEF LogLast
  <2>2. ~owed'
    <3>1. owed => cnt > 0
      BY <2>1 DEF LossIsTold
    <3>2. cnt = 0 => ~(cnt > 0)
      BY <1>0
    <3> QED  BY <2>1, <3>1, <3>2, Zenon
  <2> QED  BY <2>1, <2>2 DEF Refusing, LossIsTold
<1>12. CASE \E wait_flush \in BOOLEAN : StoreStopped(wait_flush)
  <2>1. sat = "idle" /\ sat' = "stored" /\ UNCHANGED <<queue, block, cnt, res, owed, wat>>
    BY <1>12 DEF StoreStopped
  <2>2. wat = "unblock" => Reports(queue)
    BY <2>1 DEF Refusing
  <2>3. Reports(queue') = Reports(queue)
    BY <2>1
  <2> QED  BY <2>1, <2>2, <2>3 DEF Refusing, LossIsTold
<1>13. CASE StopGoesOn
  <2>1. sat # "idle" /\ sat' # "idle" /\ UNCHANGED <<queue, cnt, res, owed, wat>>
    BY <1>13 DEF StopGoesOn, StopBlocksPush, StopUnblocksPop, Join
  <2>2. Reports(queue') = Reports(queue)
    BY <2>1
  <2> QED  BY <2>1, <2>2 DEF Refusing, LossIsTold
<1>14. CASE UNCHANGED vars
  BY <1>14 DEF vars, Refusing, LossIsTold, Reports
<1> QED  BY <1>1, <1>2, <1>3, <1>4, <1>5, <1>6, <1>7, <1>8, <1>9, <1>10, <1>11, <1>12, <1>13, <1>14
         DEF Next, Worker

LEMMA ToldKept ==
  ASSUME TypeOK, Stopping, Told, [Next]_vars
  PROVE  Told'
<1> USE DEF shared, worker, history
<1>0. cnt \in Nat /\ told \in Nat /\ lost \in Nat /\ skipped \in Nat
  BY DEF TypeOK
<1>1. CASE \E forced \in BOOLEAN : Emplace(forced)
  <2>1. UNCHANGED <<wat, skipped, told>> /\ wat # "done"
    BY <1>1 DEF Emplace, Stopping
  <2>2. UNCHANGED <<cnt, lost>> \/ (cnt' = cnt + 1 /\ lost' = lost + 1)
    BY <1>1 DEF Emplace
  <2> QED  BY <1>0, <2>1, <2>2 DEF Told
<1>2. CASE CheckStopped \/ WaitPop \/ LogMessage \/ BlockPush \/ TryPop \/ LogFlushed
  <2>1. /\ wat \notin {"report", "unblock", "done"} /\ wat' \notin {"report", "unblock", "done"}
        /\ UNCHANGED <<cnt, told, lost>>
    BY <1>2 DEF CheckStopped, WaitPop, LogMessage, BlockPush, TryPop, LogFlushed
  <2> QED  BY <2>1 DEF Told
<1>3. CASE CountBlocked
  <2>1. /\ wat = "count" /\ wat' \in {"report", "unblock"} /\ skipped' = cnt
        /\ UNCHANGED <<cnt, told, lost>> /\ (wat' = "unblock" => cnt = 0)
    BY <1>0, <1>3 DEF CountBlocked
  <2> QED  BY <1>0, <2>1 DEF Told
<1>4. CASE EmplaceReport
  <2>1. /\ wat = "report" /\ wat' = "unblock" /\ told' = told + skipped
        /\ UNCHANGED <<cnt, skipped, lost>>
    BY <1>4 DEF EmplaceReport
  <2> QED  BY <1>0, <2>1 DEF Told
<1>5. CASE UnblockPush
  <2>1. wat = "unblock" /\ wat' = "check" /\ cnt' = 0 /\ UNCHANGED <<skipped, told, lost>>
    BY <1>5 DEF UnblockPush
  <2> QED  BY <1>0, <2>1 DEF Told
<1>6. CASE LogLast
  <2>1. wat = "last" /\ wat' = "done" /\ told' = told + cnt /\ UNCHANGED <<cnt, lost>>
    BY <1>6 DEF LogLast
  <2> QED  BY <1>0, <2>1 DEF Told
<1>7. CASE (\E wait_flush \in BOOLEAN : StoreStopped(wait_flush)) \/ StopGoesOn \/ UNCHANGED vars
  <2>1. UNCHANGED <<wat, cnt, skipped, told, lost>>
    BY <1>7 DEF StoreStopped, StopGoesOn, StopBlocksPush, StopUnblocksPop, Join, vars
  <2> QED  BY <2>1 DEF Told
<1> QED  BY <1>1, <1>2, <1>3, <1>4, <1>5, <1>6, <1>7 DEF Next, Worker

LEMMA ToldFollows ==
  ASSUME TypeOK, Told
  PROVE  ToldIsTrue
<1>1. cnt \in Nat /\ told \in Nat /\ lost \in Nat /\ skipped \in Nat
  BY DEF TypeOK
<1>2. CASE wat = "done"
  BY <1>1, <1>2 DEF Told, ToldIsTrue
<1>3. CASE wat = "unblock"
  <2>1. skipped <= cnt /\ told + (cnt - skipped) <= lost
    BY <1>3 DEF Told
  <2> QED  BY <1>1, <2>1 DEF ToldIsTrue
<1>4. CASE wat \notin {"done", "unblock"}
  <2>1. told + cnt <= lost
    BY <1>4 DEF Told
  <2> QED  BY <1>1, <2>1 DEF ToldIsTrue
<1> QED  BY <1>2, <1>3, <1>4

LEMMA RefusalKept ==
  ASSUME TypeOK, Stopping, RefusalEnds, [Next]_vars
  PROVE  RefusalEnds'
<1> USE DEF shared, worker, history
<1>0. /\ Len(queue) \in Nat /\ (queue # <<>> <=> Len(queue) > 0)
      /\ HardLim \in Nat /\ SoftLim \in Nat /\ SoftLim > 1
  BY Lengths, LimitsAssumption
<1>1. ASSUME NEW forced \in BOOLEAN, Emplace(forced) PROVE RefusalEnds'
  <2>1. UNCHANGED <<wat, res, stopped>>
    BY <1>1 DEF Emplace
  <2>2. CASE MayPush(forced)
    <3>1. Push([n |-> next + 1, forced |-> forced]) /\ block' = block
      BY <1>1, <2>2 DEF Emplace
    <3>2. queue' # <<>>
      BY <3>1, EntriesAre, AppendProperties DEF Push, TypeOK
    <3> QED  BY <3>2 DEF RefusalEnds
  <2>3. CASE ~MayPush(forced)
    <3>1. queue' = queue
      BY <1>1, <2>3 DEF Emplace
    <3>2. block \/ queue # <<>>
      BY <1>0, <2>3 DEF MayPush
    <3> QED  BY <2>1, <3>1, <3>2 DEF RefusalEnds
  <2> QED  BY <2>2, <2>3
<1>2. CASE CheckStopped
  <2>1. /\ wat = "check" /\ UNCHANGED <<queue, block, stopped>>
    BY <1>2 DEF CheckStopped
  <2> QED  BY <2>1 DEF RefusalEnds
<1>3. CASE WaitPop
  <2>1. wat = "wait" /\ UNCHANGED <<block, stopped>>
    BY <1>3 DEF WaitPop
  <2>2. CASE queue # <<>> /\ Pop /\ wat' = "log"
    <3>1. /\ Len(queue') = Len(queue) - 1 /\ queue' \in Seq(Entry)
          /\ res'.size = Len(queue) /\ res'.blocked = block
      BY <2>2, Popped
    <3>2. queue' # <<>> \/ Len(queue') = 0
      BY <3>1, EmptySeq
    <3>3. CASE Len(queue') = 0
      <4>1. res'.size < SoftLim
        BY <1>0, <3>1, <3>3
      <4> QED  BY <2>1, <2>2, <3>1, <4>1 DEF RefusalEnds
    <3>4. CASE queue' # <<>>
      BY <3>4 DEF RefusalEnds
    <3> QED  BY <3>2, <3>3, <3>4
  <2>3. CASE queue = <<>> /\ wat' = "check" /\ UNCHANGED <<queue, res>>
    BY <2>1, <2>3 DEF RefusalEnds
  <2> QED  BY <1>3, <2>2, <2>3 DEF WaitPop
<1>4. CASE LogMessage
  <2>1. /\ wat = "log" /\ UNCHANGED <<queue, block, stopped>>
        /\ wat' = IF res.blocked /\ res.size < SoftLim THEN "count" ELSE "check"
    BY <1>4 DEF LogMessage
  <2> QED  BY <2>1 DEF RefusalEnds
<1>5. CASE CountBlocked \/ EmplaceReport
  <2>1. wat' \in {"report", "unblock"}
    BY <1>5 DEF CountBlocked, EmplaceReport
  <2> QED  BY <2>1 DEF RefusalEnds
<1>6. CASE UnblockPush
  <2>1. ~block'
    BY <1>6 DEF UnblockPush
  <2> QED  BY <2>1 DEF RefusalEnds
<1>7. CASE BlockPush \/ TryPop \/ LogFlushed \/ LogLast
  <2>1. stopped' = stopped /\ wat \in {"block", "drain", "flush", "last"}
    BY <1>7 DEF BlockPush, TryPop, LogFlushed, LogLast
  <2> QED  BY <2>1 DEF RefusalEnds, Stopping
<1>8. CASE \E wait_flush \in BOOLEAN : StoreStopped(wait_flush)
  <2>1. stopped' # "running"
    BY <1>8 DEF StoreStopped
  <2> QED  BY <2>1 DEF RefusalEnds
<1>9. CASE StopGoesOn
  <2>1. stopped' = stopped /\ sat # "idle"
    BY <1>9 DEF StopGoesOn, StopBlocksPush, StopUnblocksPop, Join
  <2> QED  BY <2>1 DEF RefusalEnds, Stopping
<1>10. CASE UNCHANGED vars
  BY <1>10 DEF vars, RefusalEnds
<1> QED  BY <1>1, <1>2, <1>3, <1>4, <1>5, <1>6, <1>7, <1>8, <1>9, <1>10 DEF Next, Worker

LEMMA WakeupKept ==
  ASSUME TypeOK, Stopping, NoLostWakeup, [Next]_vars
  PROVE  NoLostWakeup'
<1> USE DEF shared, worker, history
<1>0. stopped \in Stopped
  BY DEF TypeOK
<1>1. CASE (\E forced \in BOOLEAN : Emplace(forced)) \/ (\E f \in BOOLEAN : StoreStopped(f))
  <2>1. sat' # "join"
    BY <1>1 DEF Emplace, StoreStopped
  <2> QED  BY <2>1 DEF NoLostWakeup
<1>2. CASE CheckStopped
  <2>1. sat' = sat /\ wat' = IF stopped = "running" THEN "wait" ELSE "block"
    BY <1>2 DEF CheckStopped
  <2> QED  BY <2>1 DEF NoLostWakeup, Stopping
<1>3. CASE Worker /\ ~CheckStopped
  <2>1. wat' # "wait"
    BY <1>3 DEF Worker, WaitPop, LogMessage, CountBlocked, EmplaceReport, UnblockPush,
                BlockPush, TryPop, LogFlushed, LogLast
  <2> QED  BY <2>1 DEF NoLostWakeup
<1>4. CASE StopUnblocksPop
  <2>1. /\ unblock' = (unblock \/ stopped = "stopped" \/ queue = <<>>) /\ queue' = queue
    BY <1>4 DEF StopUnblocksPop
  <2> QED  BY <2>1 DEF NoLostWakeup
<1>5. CASE StopBlocksPush \/ Join
  <2>1. sat' # "join"
    BY <1>5 DEF StopBlocksPush, Join
  <2> QED  BY <2>1 DEF NoLostWakeup
<1>6. CASE UNCHANGED vars
  BY <1>6 DEF vars, NoLostWakeup
<1> QED  BY <1>1, <1>2, <1>3, <1>4, <1>5, <1>6 DEF Next, StopGoesOn

-----------------------------------------------------------------------------
(* Bounds: how many entries of the queue are not forced.                   *)

\* The worker is about to lift the refusal: it popped below the soft limit.
WillLift == \/ wat = "log" /\ res.blocked /\ res.size < SoftLim
            \/ wat \in {"count", "report", "unblock"}

Low == WillLift => Cardinality(Unforced(queue)) <= SoftLim - 2

LEMMA UnforcedFinite ==
  ASSUME NEW s \in Seq(Entry)
  PROVE  /\ IsFiniteSet(Unforced(s))
         /\ Cardinality(Unforced(s)) \in Nat
         /\ Cardinality(Unforced(s)) <= Len(s)
         /\ Len(s) \in Nat
<1>1. Len(s) \in Nat
  BY LenProperties
<1>2. IsFiniteSet(1..Len(s)) /\ Cardinality(1..Len(s)) = Len(s)
  <2>1. 1 \in Int /\ Len(s) \in Int
    BY <1>1
  <2>2. /\ IsFiniteSet(1..Len(s))
        /\ Cardinality(1..Len(s)) = IF 1 > Len(s) THEN 0 ELSE Len(s) - 1 + 1
    BY <2>1, FS_Interval, ZenonT(60)
  <2>3. (IF 1 > Len(s) THEN 0 ELSE Len(s) - 1 + 1) = Len(s)
    BY <1>1
  <2> QED  BY <2>2, <2>3
<1>3. Unforced(s) \subseteq 1..Len(s)
  BY DEF Unforced
<1>4. IsFiniteSet(Unforced(s)) /\ Cardinality(Unforced(s)) <= Len(s)
  BY <1>2, <1>3, FS_Subset
<1> QED  BY <1>1, <1>4, FS_CardinalityType

LEMMA UnforcedPushed ==
  ASSUME TypeOK, NEW e \in Entry, Push(e), e.forced
  PROVE  Unforced(queue') = Unforced(queue)
<1>1. /\ Len(queue) \in Nat /\ Len(queue') = Len(queue) + 1
      /\ \A i \in 1..Len(queue) : queue'[i] = queue[i]
      /\ queue'[Len(queue) + 1] = e
  BY Lengths, Pushed
<1>2. ASSUME NEW i \in Unforced(queue) PROVE i \in Unforced(queue')
  BY <1>1, <1>2 DEF Unforced
<1>3. ASSUME NEW i \in Unforced(queue') PROVE i \in Unforced(queue)
  <2>1. i \in 1..Len(queue') /\ ~queue'[i].forced
    BY <1>3 DEF Unforced
  <2>2. i # Len(queue) + 1
    BY <1>1, <2>1
  <2>3. i \in 1..Len(queue)
    BY <1>1, <2>1, <2>2
  <2> QED  BY <1>1, <2>1, <2>3 DEF Unforced
<1> QED  BY <1>2, <1>3

\* Shifting the entries down by one maps those that are not forced one to one
\* to entries that were not forced.
LEMMA UnforcedPopped ==
  ASSUME TypeOK, queue # <<>>, Pop
  PROVE  Cardinality(Unforced(queue')) <= Cardinality(Unforced(queue))
<1>1. /\ Len(queue) \in Nat /\ Len(queue') = Len(queue) - 1
      /\ \A i \in 1..Len(queue') : queue'[i] = queue[i + 1]
  BY Lengths, Popped
<1> DEFINE f == [i \in Unforced(queue') |-> i + 1]
<1>2. ASSUME NEW i \in Unforced(queue') PROVE i \in Nat /\ i + 1 \in Unforced(queue)
  <2>1. i \in 1..Len(queue') /\ ~queue'[i].forced
    BY DEF Unforced
  <2>2. i \in Nat /\ i + 1 \in 1..Len(queue)
    BY <1>1, <2>1
  <2> QED  BY <1>1, <2>1, <2>2 DEF Unforced
<1>3. f \in [Unforced(queue') -> Unforced(queue)]
  BY <1>2
<1>4. \A i, j \in Unforced(queue') : f[i] = f[j] => i = j
  BY <1>2
<1> HIDE DEF f
<1>5. f \in Injection(Unforced(queue'), Unforced(queue))
  BY <1>3, <1>4 DEF Injection, IsInjective
<1>6. IsFiniteSet(Unforced(queue))
  BY UnforcedFinite DEF TypeOK
<1> QED  BY <1>5, <1>6, FS_Injection

LEMMA BoundsKept ==
  ASSUME TypeOK, TypeOK', Stopping, Refusing, Bounded, Low, [Next]_vars
  PROVE  Bounded' /\ Low'
<1> USE DEF shared, worker, history
<1> DEFINE u == Cardinality(Unforced(queue))
           v == Cardinality(Unforced(queue'))
<1>0. queue \in Seq(Entry) /\ queue' \in Seq(Entry)
  BY DEF TypeOK
<1>a. /\ u \in Nat /\ u <= Len(queue) /\ Len(queue) \in Nat
      /\ v \in Nat /\ v <= Len(queue') /\ Len(queue') \in Nat
  BY <1>0, UnforcedFinite
<1>b. HardLim \in Nat /\ SoftLim \in Nat /\ u <= HardLim + 1
  BY LimitsAssumption DEF Bounded
<1>c. u <= SoftLim - 2 \/ ~WillLift
  BY DEF Low
<1>d. ASSUME v <= HardLim + 1, v <= SoftLim - 2 \/ ~WillLift' PROVE Bounded' /\ Low'
  BY <1>d DEF Bounded, Low
<1>e. ASSUME UNCHANGED <<queue, res, wat>> PROVE Bounded' /\ Low'
  <2>1. v = u /\ WillLift' = WillLift
    BY <1>e DEF WillLift
  <2> QED  BY <1>b, <1>c, <1>d, <2>1
<1>f. ASSUME v <= u, ~WillLift' PROVE Bounded' /\ Low'
  BY <1>a, <1>b, <1>d, <1>f
<1> HIDE DEF u, v
<1>1. ASSUME NEW forced \in BOOLEAN, Emplace(forced) PROVE Bounded' /\ Low'
  <2> DEFINE e == [n |-> next + 1, forced |-> forced]
  <2>1. UNCHANGED <<wat, res>> /\ sat = "idle" /\ WillLift' = WillLift
    BY <1>1 DEF Emplace, WillLift
  <2>2. CASE MayPush(forced) /\ forced
    <3>1. Push(e) /\ e.forced
      BY <1>1, <2>2 DEF Emplace
    <3>2. v = u
      BY <3>1, EntriesAre, UnforcedPushed DEF u, v
    <3> QED  BY <1>b, <1>c, <1>d, <2>1, <3>2
  <2>3. CASE MayPush(forced) /\ ~forced
    <3>1. Push(e) /\ ~block /\ Len(queue) <= HardLim
      BY <1>1, <2>3 DEF Emplace, MayPush
    <3>2. Len(queue') = Len(queue) + 1
      BY <3>1, EntriesAre, Pushed
    <3>3. ~WillLift
      BY <2>1, <3>1 DEF Refusing, WillLift
    <3>4. v <= HardLim + 1
      BY <1>a, <1>b, <3>1, <3>2
    <3> QED  BY <1>d, <2>1, <3>3, <3>4
  <2>4. CASE ~MayPush(forced)
    <3>1. queue' = queue
      BY <1>1, <2>4 DEF Emplace
    <3> QED  BY <1>e, <2>1, <3>1
  <2> QED  BY <2>2, <2>3, <2>4
<1>2. CASE CheckStopped \/ BlockPush \/ LogFlushed \/ LogLast \/ UnblockPush
  <2>1. queue' = queue /\ wat' \in {"wait", "block", "drain", "last", "done", "check"}
    BY <1>2 DEF CheckStopped, BlockPush, LogFlushed, LogLast, UnblockPush
  <2>2. v = u /\ ~WillLift'
    BY <2>1 DEF u, v, WillLift
  <2> QED  BY <1>a, <1>f, <2>2
<1>3. CASE WaitPop
  <2>1. CASE queue # <<>> /\ Pop /\ wat' = "log"
    <3>1. /\ Len(queue') = Len(queue) - 1 /\ res'.size = Len(queue)
      BY <2>1, Popped
    <3>2. v <= u
      BY <2>1, UnforcedPopped DEF u, v
    <3>3. v <= SoftLim - 2 \/ ~WillLift'
      <4>1. WillLift' => Len(queue) < SoftLim
        BY <2>1, <3>1 DEF WillLift
      <4> QED  BY <1>a, <1>b, <3>1, <4>1
    <3> QED  BY <1>a, <1>b, <1>d, <3>2, <3>3
  <2>2. CASE queue = <<>> /\ wat' = "check" /\ UNCHANGED <<queue, res>>
    <3>1. v = u /\ ~WillLift'
      BY <2>2 DEF u, v, WillLift
    <3> QED  BY <1>a, <1>f, <3>1
  <2> QED  BY <1>3, <2>1, <2>2 DEF WaitPop
<1>4. CASE TryPop
  <2>1. wat' \in {"flush", "last"} /\ ~WillLift'
    BY <1>4 DEF TryPop, WillLift
  <2>2. CASE queue # <<>> /\ Pop
    <3>1. v <= u
      BY <2>2, UnforcedPopped DEF u, v
    <3> QED  BY <1>f, <2>1, <3>1
  <2>3. CASE queue' = queue
    <3>1. v = u
      BY <2>3 DEF u, v
    <3> QED  BY <1>a, <1>f, <2>1, <3>1
  <2> QED  BY <1>4, <2>2, <2>3 DEF TryPop
<1>5. CASE LogMessage
  <2>1. /\ wat = "log" /\ UNCHANGED <<queue, res>>
        /\ wat' = IF res.blocked /\ res.size < SoftLim THEN "count" ELSE "check"
    BY <1>5 DEF LogMessage
  <2>2. v = u /\ (WillLift' => WillLift)
    BY <2>1 DEF u, v, WillLift
  <2> QED  BY <1>b, <1>c, <1>d, <2>2
<1>6. CASE CountBlocked
  <2>1. queue' = queue /\ WillLift
    BY <1>6 DEF CountBlocked, WillLift
  <2>2. v = u
    BY <2>1 DEF u, v
  <2> QED  BY <1>b, <1>c, <1>d, <2>1, <2>2
<1>7. CASE EmplaceReport
  <2>1. Push(Report) /\ Report.forced /\ WillLift
    BY <1>7 DEF EmplaceReport, WillLift, Report
  <2>2. v = u
    BY <2>1, EntriesAre, UnforcedPushed DEF u, v
  <2> QED  BY <1>b, <1>c, <1>d, <2>1, <2>2
<1>8. CASE (\E wait_flush \in BOOLEAN : StoreStopped(wait_flush)) \/ StopGoesOn \/ UNCHANGED vars
  <2>1. UNCHANGED <<queue, res, wat>>
    BY <1>8 DEF StoreStopped, StopGoesOn, StopBlocksPush, StopUnblocksPop, Join, vars
  <2> QED  BY <1>e, <2>1
<1> QED  BY <1>1, <1>2, <1>3, <1>4, <1>5, <1>6, <1>7, <1>8 DEF Next, Worker

-----------------------------------------------------------------------------
(* Theorems *)

Inv == /\ TypeOK /\ InOrder /\ Stopping /\ Refusing /\ LossIsTold /\ Told
       /\ RefusalEnds /\ NoLostWakeup /\ Bounded /\ Low

LEMMA InitInv == Init => Inv
<1> SUFFICES ASSUME Init PROVE Inv
  OBVIOUS
<1> USE DEF Init
<1>1. TypeOK
  <2>1. <<>> \in Seq(Entry)
    BY EmptySeq
  <2>2. Report \in Entry /\ NoResult \in [msg : Entry, size : Nat, blocked : BOOLEAN]
    BY DEF Entry, NoResult
  <2> QED  BY <2>1, <2>2 DEF TypeOK, Stopped, WorkerAt, StopperAt
<1>2. Len(queue) = 0 /\ Len(taken) = 0 /\ Len(file) = 0 /\ ~Holds
  BY DEF Holds
<1>3. InOrder
  BY <1>2 DEF InOrder
<1>4. Stopping /\ Refusing /\ LossIsTold /\ Told /\ RefusalEnds /\ NoLostWakeup
  BY DEF Stopping, Refusing, LossIsTold, Told, RefusalEnds, NoLostWakeup
<1>5. Cardinality(Unforced(queue)) <= 0 /\ Cardinality(Unforced(queue)) \in Nat
  BY <1>1, <1>2, UnforcedFinite DEF TypeOK
<1>6. Bounded /\ Low
  BY <1>5, LimitsAssumption DEF Bounded, Low, WillLift
<1> QED  BY <1>1, <1>3, <1>4, <1>6 DEF Inv

LEMMA InvKept == Inv /\ [Next]_vars => Inv'
<1> SUFFICES ASSUME Inv, [Next]_vars PROVE Inv'
  OBVIOUS
<1>1. TypeOK' /\ InOrder' /\ Stopping'
  BY TypeKept, OrderKept, StoppingKept DEF Inv
<1>2. Refusing' /\ LossIsTold' /\ Told'
  BY RefusingKept, ToldKept DEF Inv
<1>3. RefusalEnds' /\ NoLostWakeup'
  BY RefusalKept, WakeupKept DEF Inv
<1>4. Bounded' /\ Low'
  BY <1>1, BoundsKept DEF Inv
<1> QED  BY <1>1, <1>2, <1>3, <1>4 DEF Inv

\* The inductive invariant holds always.
THEOREM Invariance == Spec => []Inv
  BY InitInv, InvKept, PTL DEF Spec

\* The fields of the queue, the threads and the histories keep their types.
THEOREM AlwaysTyped == Spec => []TypeOK
<1>1. Inv => TypeOK
  BY DEF Inv
<1> QED  BY <1>1, Invariance, PTL

\* What the queue takes is written once and in order (shared_queue, worker).
THEOREM WrittenInOrder == Spec => []InOrder
<1>1. Inv => InOrder
  BY DEF Inv
<1> QED  BY <1>1, Invariance, PTL

\* A channel stopped with wait_flush has written all it took (worker).
THEOREM FlushWritesAll == Spec => []FlushedAll
<1>1. Inv => FlushedAll
  BY FlushedFollows DEF Inv
<1> QED  BY <1>1, Invariance, PTL

\* No message is refused without a report that follows (count_blocked_push,
\* the forced report and unblock_push in worker).
THEOREM NoSilentLoss == Spec => []LossIsTold
<1>1. Inv => LossIsTold
  BY DEF Inv
<1> QED  BY <1>1, Invariance, PTL

\* The reports never name more messages than were refused.
THEOREM ReportsAreTrue == Spec => []ToldIsTrue
<1>1. Inv => ToldIsTrue
  BY ToldFollows DEF Inv
<1> QED  BY <1>1, Invariance, PTL

\* A channel that refuses has work left that will end the refusal: for every
\* pair of limits the constructor accepts.
THEOREM RefusalNeverStuck == Spec => []RefusalEnds
<1>1. Inv => RefusalEnds
  BY DEF Inv
<1> QED  BY <1>1, Invariance, PTL

\* stop never joins a worker that nothing wakes.
THEOREM WorkerIsWoken == Spec => []NoLostWakeup
<1>1. Inv => NoLostWakeup
  BY DEF Inv
<1> QED  BY <1>1, Invariance, PTL

\* The queue never holds more than one entry above the hard limit, forced ones
\* aside (emplace).
THEOREM AlwaysBounded == Spec => []Bounded
<1>1. Inv => Bounded
  BY DEF Inv
<1> QED  BY <1>1, Invariance, PTL

\* Refusing ends only below the soft limit (worker, unblock_push).
THEOREM AlwaysResumesLow == Spec => ResumesLow
<1>1. Inv /\ [Next]_vars => [block /\ ~block' => Cardinality(Unforced(queue)) <= SoftLim - 2]_vars
  <2> SUFFICES ASSUME Inv, Next, block, ~block'
               PROVE  Cardinality(Unforced(queue)) <= SoftLim - 2
    OBVIOUS
  <2> USE DEF shared, worker, history
  <2>1. UnblockPush
    <3>1. ~(\E forced \in BOOLEAN : Emplace(forced))
      BY DEF Emplace
    <3>2. ~(CheckStopped \/ WaitPop \/ LogMessage \/ CountBlocked \/ EmplaceReport)
      BY DEF CheckStopped, WaitPop, LogMessage, CountBlocked, EmplaceReport
    <3>3. ~(BlockPush \/ TryPop \/ LogFlushed \/ LogLast)
      BY DEF BlockPush, TryPop, LogFlushed, LogLast
    <3>4. ~((\E wait_flush \in BOOLEAN : StoreStopped(wait_flush)) \/ StopGoesOn)
      BY DEF StoreStopped, StopGoesOn, StopBlocksPush, StopUnblocksPop, Join
    <3> QED  BY <3>1, <3>2, <3>3, <3>4 DEF Next, Worker
  <2>2. WillLift
    BY <2>1 DEF UnblockPush, WillLift
  <2> QED  BY <2>2 DEF Inv, Low
<1> QED  BY <1>1, Invariance, PTL DEF Spec, ResumesLow

=============================================================================

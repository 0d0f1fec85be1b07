--------------------------- MODULE CacheFs_proofs ---------------------------
(***************************************************************************)
(* Proofs about CacheFs, for any keys, sizes, handles and disk failures.   *)
(*                                                                         *)
(* The order of the argument: first the turn-taking of the writer thread   *)
(* (QueueInv), which mentions neither the table nor the volume; then what  *)
(* every operation on the table and the block keeps (Good, KeepsMarks);    *)
(* then the inductive invariant Inv, one lemma per action; last, on top of *)
(* it, where the fragments are on the volume and what they hold.           *)
(***************************************************************************)
EXTENDS CacheFs, FiniteSetTheorems, SequenceTheorems, TLAPS

-----------------------------------------------------------------------------
(* The writer thread and its queue.                                        *)

Waiting == {"md_read1", "evac1", "flush1"}    \* the agg_writer is queued

QueueInv ==
  /\ aw \in AwStates
  /\ wq \in Seq(Task)
  /\ aw \in Waiting => wq # <<>> /\ Head(wq) = AggWriter
  /\ \A i \in 1..Len(wq) : wq[i] = AggWriter => i = 1 /\ aw \in Waiting
  /\ pd # None => aw # "wait_write"

\* A queue of write handles only.
HandlesOnly(q) == \A i \in 1..Len(q) : q[i] # AggWriter

\* Taking the first task leaves write handles.
LEMMA TailHandles ==
  ASSUME NEW q \in Seq(Task), q # <<>>,
         \A i \in 1..Len(q) : q[i] = AggWriter => i = 1
  PROVE  Tail(q) \in Seq(Task) /\ HandlesOnly(Tail(q))
<1>1. Tail(q) \in Seq(Task) /\ Len(Tail(q)) = Len(q) - 1
      /\ \A i \in 1..Len(Tail(q)) : Tail(q)[i] = q[i + 1]
  BY HeadTailProperties
<1>2. Len(q) \in Nat
  BY LenProperties
<1> QED  BY <1>1, <1>2 DEF HandlesOnly

\* The agg_writer goes in front of write handles.
LEMMA PushFront ==
  ASSUME NEW q \in Seq(Task), HandlesOnly(q)
  PROVE  LET n == <<AggWriter>> \o q
         IN  /\ n \in Seq(Task) /\ n # <<>> /\ Head(n) = AggWriter
             /\ \A i \in 1..Len(n) : n[i] = AggWriter => i = 1
<1> DEFINE one == <<AggWriter>>
           n   == one \o q
<1>1. one \in Seq(Task) /\ Len(one) = 1 /\ one[1] = AggWriter
  BY DEF Task
<1>2. /\ n \in Seq(Task) /\ Len(n) = 1 + Len(q)
      /\ \A i \in 1..(1 + Len(q)) : n[i] = IF i <= 1 THEN one[i] ELSE q[i - 1]
  BY <1>1, ConcatProperties
<1>3. Len(q) \in Nat
  BY LenProperties
<1>4. n # <<>>
  BY <1>2, <1>3, EmptySeq
<1>5. Head(n) = n[1] /\ n[1] = AggWriter
  BY <1>1, <1>2, <1>3, <1>4
<1>6. ASSUME NEW i \in 1..Len(n), n[i] = AggWriter PROVE i = 1
  BY <1>2, <1>3, <1>6 DEF HandlesOnly
<1> QED  BY <1>2, <1>4, <1>5, <1>6

\* A write handle goes behind the others.
LEMMA PushBack ==
  ASSUME NEW q \in Seq(Task), NEW w \in WriteHandles
  PROVE  /\ Append(q, w) \in Seq(Task)
         /\ Append(q, w) # <<>>
         /\ q # <<>> => Head(Append(q, w)) = Head(q)
         /\ \A i \in 1..Len(Append(q, w)) :
              Append(q, w)[i] = AggWriter => i \in 1..Len(q) /\ q[i] = AggWriter
<1> DEFINE n == Append(q, w)
<1>1. /\ n \in Seq(Task) /\ Len(n) = Len(q) + 1
      /\ \A i \in 1..Len(q) : n[i] = q[i]
      /\ n[Len(q) + 1] = w
  BY AppendProperties DEF Task
<1>2. Len(q) \in Nat
  BY LenProperties
<1>3. w # AggWriter
  BY HandlesAssumption
<1>4. n # <<>>
  BY <1>1, <1>2, EmptySeq
<1>5. q # <<>> => Head(n) = Head(q)
  BY <1>1, <1>2, <1>4, EmptySeq
<1>6. ASSUME NEW i \in 1..Len(n), n[i] = AggWriter
      PROVE  i \in 1..Len(q) /\ q[i] = AggWriter
  BY <1>1, <1>2, <1>3, <1>6
<1> QED  BY <1>1, <1>4, <1>5, <1>6

\* The agg_writer queues itself when only write handles wait.
LEMMA EnqueueKeepsQueue ==
  ASSUME NEW q \in Seq(Task), HandlesOnly(q), NEW state \in Waiting,
         EnqueueAio(q, state)
  PROVE  /\ aw' = state /\ wq' \in Seq(Task)
         /\ wq' # <<>> /\ Head(wq') = AggWriter
         /\ \A i \in 1..Len(wq') : wq'[i] = AggWriter => i = 1
BY PushFront DEF EnqueueAio

\* While the agg_writer is not queued the whole queue is write handles.
LEMMA QueueWithoutAggWriter ==
  ASSUME QueueInv, aw \notin Waiting
  PROVE  HandlesOnly(wq)
BY DEF QueueInv, HandlesOnly

\* A write handle is taken from the queue in state wait_write only.
LEMMA HandleTurn ==
  ASSUME QueueInv, ~WriterBusy, NEW w \in WriteHandles, wq # <<>>, Head(wq) = w
  PROVE  /\ aw = "wait_write" /\ pd = None
         /\ Tail(wq) \in Seq(Task) /\ HandlesOnly(Tail(wq))
<1>1. aw = "wait_write"
  BY HandlesAssumption DEF QueueInv, WriterBusy, Waiting, AwStates
<1> QED  BY <1>1, TailHandles DEF QueueInv

LEMMA AppendHandle ==
  ASSUME NEW q \in Seq(Task), HandlesOnly(q), NEW w \in WriteHandles
  PROVE  Append(q, w) \in Seq(Task) /\ HandlesOnly(Append(q, w))
BY PushBack DEF HandlesOnly

\* What is left of QueueInv when the agg_writer is not queued, and when it is.
LEMMA IdleQueue ==
  ASSUME aw' \in AwStates \ Waiting, wq' \in Seq(Task), HandlesOnly(wq'),
         pd' # None => aw' # "wait_write"
  PROVE  QueueInv'
BY DEF QueueInv, HandlesOnly

LEMMA EnqueuedQueue ==
  ASSUME NEW q \in Seq(Task), HandlesOnly(q), NEW state \in Waiting,
         EnqueueAio(q, state)
  PROVE  QueueInv'
<1>1. state \in AwStates /\ state # "wait_write"
  BY DEF Waiting, AwStates
<1> QED  BY <1>1, EnqueueKeepsQueue DEF QueueInv

LEMMA WritePendDataQueue ==
  ASSUME QueueInv, aw \notin Waiting, NEW t, NEW b, NEW w, WritePendData(t, b, w)
  PROVE  QueueInv'
<1>1. HandlesOnly(wq) /\ wq \in Seq(Task)
  BY QueueWithoutAggWriter DEF QueueInv
<1>2. CASE aw' = "wait_write" /\ pd' = None /\ wq' = wq
  BY <1>1, <1>2, IdleQueue DEF AwStates, Waiting, HandlesOnly
<1>3. CASE EnqueueAio(wq, "flush1")
  BY <1>1, <1>3, EnqueuedQueue DEF Waiting
<1> QED  BY <1>2, <1>3 DEF WritePendData

LEMMA NextFromWaitNextQueue ==
  ASSUME QueueInv, aw \notin Waiting, NEW t, NEW b, NEW es,
         NextFromWaitNext(t, b, es)
  PROVE  QueueInv'
<1>1. HandlesOnly(wq) /\ wq \in Seq(Task)
  BY QueueWithoutAggWriter DEF QueueInv
<1>2. CASE EnqueueAio(wq, "evac1")
  BY <1>1, <1>2, EnqueuedQueue DEF Waiting
<1>3. CASE WritePendData(t, b, wpos)
  BY <1>3, WritePendDataQueue
<1> QED  BY <1>2, <1>3 DEF NextFromWaitNext

LEMMA AggWriterKeepsQueue ==
  ASSUME QueueInv, AggWriterStep
  PROVE  QueueInv'
<1>1. CASE BeginIoOp
  <2>1. /\ wq # <<>> /\ wq' = Tail(wq) /\ aw \in Waiting /\ pd' = pd
        /\ aw' \in {"md_read2", "evac2", "flush2"}
    BY <1>1 DEF BeginIoOp, Waiting
  <2>2. Tail(wq) \in Seq(Task) /\ HandlesOnly(Tail(wq))
    BY <2>1, TailHandles DEF QueueInv
  <2> QED  BY <2>1, <2>2, IdleQueue DEF AwStates, Waiting, HandlesOnly
<1>2. CASE OnMdRead
  <2>1. aw \notin Waiting
    BY <1>2 DEF OnMdRead, Waiting
  <2> QED  BY <1>2, <2>1, NextFromWaitNextQueue DEF OnMdRead
<1>3. CASE OnEvacDone
  <2>1. aw \notin Waiting
    BY <1>3 DEF OnEvacDone, Waiting
  <2> QED  BY <1>3, <2>1, NextFromWaitNextQueue DEF OnEvacDone
<1>4. CASE OnFlushDone
  <2>1. aw \notin Waiting
    BY <1>4 DEF OnFlushDone, Waiting
  <2>2. HandlesOnly(wq) /\ wq \in Seq(Task)
    BY <2>1, QueueWithoutAggWriter DEF QueueInv
  <2>3. CASE lap1'
    BY <1>4, <2>1, <2>3, WritePendDataQueue DEF OnFlushDone
  <2>4. CASE ~lap1'
    BY <1>4, <2>2, <2>4, EnqueuedQueue DEF OnFlushDone, Waiting
  <2> QED  BY <2>3, <2>4
<1> QED  BY <1>1, <1>2, <1>3, <1>4 DEF AggWriterStep

LEMMA WriteKeepsQueue ==
  ASSUME QueueInv, NEW w \in WriteHandles, WriteStep(w)
  PROVE  QueueInv'
<1>1. CASE wq' = wq /\ aw' = aw /\ pd' = pd
  BY <1>1 DEF QueueInv
<1>2. CASE wq' = Append(wq, w) /\ aw' = aw /\ pd' = pd
  <2>1. /\ wq' \in Seq(Task) /\ wq' # <<>>
        /\ wq # <<>> => Head(wq') = Head(wq)
        /\ \A i \in 1..Len(wq') :
             wq'[i] = AggWriter => i \in 1..Len(wq) /\ wq[i] = AggWriter
    BY <1>2, PushBack DEF QueueInv
  <2> QED  BY <1>2, <2>1 DEF QueueInv
<1>3. CASE ExecWrite(w)
  <2>1. /\ aw = "wait_write" /\ pd = None /\ pd' = pd
        /\ Tail(wq) \in Seq(Task) /\ HandlesOnly(Tail(wq))
    BY <1>3, HandleTurn DEF ExecWrite
  <2>2. CASE wq' = Tail(wq) /\ aw' = aw
    BY <2>1, <2>2, IdleQueue DEF AwStates, Waiting, HandlesOnly
  <2>3. CASE EnqueueAio(Tail(wq), "flush1")
    BY <2>1, <2>3, EnqueuedQueue DEF Waiting
  <2>4. CASE EnqueueAio(Append(Tail(wq), w), "flush1")
    BY <2>1, <2>4, EnqueuedQueue, AppendHandle DEF Waiting
  <2> QED  BY <1>3, <2>2, <2>3, <2>4 DEF ExecWrite
<1>4. CASE ExecClose(w)
  <2>1. /\ aw = "wait_write" /\ pd = None
        /\ Tail(wq) \in Seq(Task) /\ HandlesOnly(Tail(wq))
    BY <1>4, HandleTurn DEF ExecClose
  <2>2. CASE wq' = Tail(wq) /\ aw' = aw /\ pd' = pd
    BY <2>1, <2>2, IdleQueue DEF AwStates, Waiting, HandlesOnly
  <2>3. CASE EnqueueAio(Tail(wq), "flush1")
    BY <2>1, <2>3, EnqueuedQueue DEF Waiting
  <2> QED  BY <1>4, <2>2, <2>3 DEF ExecClose
<1> QED  BY <1>1, <1>2, <1>3, <1>4
         DEF WriteStep, OpenWrite, OpenTruncate, AsyncWrite, AsyncCloseWrite

LEMMA ReadKeepsQueue ==
  ASSUME QueueInv, NEW r \in ReadHandles, ReadStep(r)
  PROVE  QueueInv'
<1>1. wq' = wq /\ aw' = aw /\ pd' = pd
  BY DEF ReadStep, OpenRead, FindElem, TryReadMem, BeginDiskRead, EndDiskRead,
         CloseRead
<1> QED  BY <1>1 DEF QueueInv

\* The agg_writer and the write handles never get into each other's way: the
\* state machine of agg_writer.cpp never sees an event it does not expect in
\* its state, so it never aborts.
THEOREM WriterTurns == Spec => []QueueInv
<1>1. Init => QueueInv
  <2> SUFFICES ASSUME Init PROVE QueueInv
    OBVIOUS
  <2>1. wq = <<>> /\ aw = "wait_write" /\ pd = None
    BY DEF Init
  <2>2. wq \in Seq(Task) /\ Len(wq) = 0
    BY <2>1, EmptySeq
  <2> QED  BY <2>1, <2>2 DEF QueueInv, AwStates, Waiting
<1>2. QueueInv /\ [Next]_vars => QueueInv'
  <2> SUFFICES ASSUME QueueInv, [Next]_vars PROVE QueueInv'
    OBVIOUS
  <2>1. CASE UNCHANGED vars
    BY <2>1 DEF QueueInv, vars
  <2>2. CASE Next
    BY <2>2, AggWriterKeepsQueue, WriteKeepsQueue, ReadKeepsQueue DEF Next
  <2> QED  BY <2>1, <2>2
<1> QED  BY <1>1, <1>2, PTL DEF Spec

\* NoUnexpectedEvent and NothingPending, for every instance.
THEOREM UnexpectedEventNever == Spec => []NoUnexpectedEvent
<1>1. QueueInv => NoUnexpectedEvent
  <2> SUFFICES ASSUME QueueInv, ~WriterBusy, wq # <<>>
               PROVE  IF Head(wq) = AggWriter THEN aw \in Waiting
                      ELSE aw = "wait_write"
    BY DEF NoUnexpectedEvent, Waiting
  <2>1. CASE Head(wq) = AggWriter
    <3>1. Len(wq) \in Nat \ {0} /\ Head(wq) = wq[1]
      BY EmptySeq DEF QueueInv
    <3> QED  BY <2>1, <3>1 DEF QueueInv
  <2>2. CASE Head(wq) # AggWriter
    BY <2>2 DEF QueueInv, WriterBusy, AwStates, Waiting
  <2> QED  BY <2>1, <2>2
<1> QED  BY <1>1, WriterTurns, PTL

THEOREM NothingPendingTwice == Spec => []NothingPending
<1>1. QueueInv => NothingPending
  BY DEF QueueInv, NothingPending
<1> QED  BY <1>1, WriterTurns, PTL

-----------------------------------------------------------------------------
(* A write handle is in the queue exactly while a write or a close of it    *)
(* waits for its turn, and never twice.                                     *)

Once(q)   == \A i, j \in 1..Len(q) : q[i] = q[j] => i = j
Has(q, x) == \E i \in 1..Len(q) : q[i] = x

QueuedOnce ==
  /\ Once(wq)
  /\ \A w \in WriteHandles :
       Has(wq, w) <=> wh[w] # None /\ wh[w].pc \in {"queued", "closing"}

LEMMA TailOnce ==
  ASSUME NEW q \in Seq(Task), q # <<>>, Once(q)
  PROVE  /\ Tail(q) \in Seq(Task) /\ Once(Tail(q))
         /\ \A x : Has(Tail(q), x) <=> Has(q, x) /\ x # Head(q)
<1>1. /\ Tail(q) \in Seq(Task) /\ Len(Tail(q)) = Len(q) - 1
      /\ \A i \in 1..Len(Tail(q)) : Tail(q)[i] = q[i + 1]
  BY HeadTailProperties
<1>2. Len(q) \in Nat \ {0} /\ Head(q) = q[1]
  BY EmptySeq
<1>3. Once(Tail(q))
  BY <1>1, <1>2 DEF Once
<1>4. ASSUME NEW x PROVE Has(Tail(q), x) <=> Has(q, x) /\ x # Head(q)
  <2>1. ASSUME Has(Tail(q), x) PROVE Has(q, x) /\ x # Head(q)
    BY <1>1, <1>2, <2>1 DEF Has, Once
  <2>2. ASSUME Has(q, x), x # Head(q) PROVE Has(Tail(q), x)
    <3>1. PICK i \in 1..Len(q) : q[i] = x
      BY <2>2 DEF Has
    <3>2. i - 1 \in 1..Len(Tail(q)) /\ Tail(q)[i - 1] = x
      BY <1>1, <1>2, <2>2, <3>1
    <3> QED  BY <3>2 DEF Has
  <2> QED  BY <2>1, <2>2
<1> QED  BY <1>1, <1>3, <1>4

LEMMA FrontOnce ==
  ASSUME NEW q \in Seq(Task), Once(q), HandlesOnly(q)
  PROVE  LET n == <<AggWriter>> \o q
         IN  /\ n \in Seq(Task) /\ Once(n)
             /\ \A x \in WriteHandles : Has(n, x) <=> Has(q, x)
<1> DEFINE one == <<AggWriter>>
           n   == one \o q
<1>1. one \in Seq(Task) /\ Len(one) = 1 /\ one[1] = AggWriter
  BY DEF Task
<1>2. /\ n \in Seq(Task) /\ Len(n) = 1 + Len(q) /\ Len(q) \in Nat
      /\ \A i \in 1..(1 + Len(q)) : n[i] = IF i <= 1 THEN one[i] ELSE q[i - 1]
  BY <1>1, ConcatProperties, LenProperties
<1> HIDE DEF n
<1>3. Once(n)
  BY <1>1, <1>2 DEF Once, HandlesOnly
<1>4. ASSUME NEW x \in WriteHandles PROVE Has(n, x) <=> Has(q, x)
  <2>1. ASSUME Has(n, x) PROVE Has(q, x)
    <3>1. PICK i \in 1..Len(n) : n[i] = x
      BY <2>1 DEF Has
    <3>2. i - 1 \in 1..Len(q) /\ q[i - 1] = x
      BY <1>1, <1>2, <3>1, HandlesAssumption
    <3> QED  BY <3>2 DEF Has
  <2>2. ASSUME Has(q, x) PROVE Has(n, x)
    <3>1. PICK i \in 1..Len(q) : q[i] = x
      BY <2>2 DEF Has
    <3>2. i + 1 \in 1..Len(n) /\ n[i + 1] = x
      BY <1>2, <3>1
    <3> QED  BY <3>2 DEF Has
  <2> QED  BY <2>1, <2>2
<1> QED  BY <1>2, <1>3, <1>4 DEF n

LEMMA BackOnce ==
  ASSUME NEW q \in Seq(Task), Once(q), NEW w \in WriteHandles, ~Has(q, w)
  PROVE  /\ Append(q, w) \in Seq(Task) /\ Once(Append(q, w))
         /\ \A x : Has(Append(q, w), x) <=> Has(q, x) \/ x = w
<1> DEFINE n == Append(q, w)
<1>1. /\ n \in Seq(Task) /\ Len(n) = Len(q) + 1 /\ Len(q) \in Nat
      /\ \A i \in 1..Len(q) : n[i] = q[i]
      /\ n[Len(q) + 1] = w
  BY AppendProperties, LenProperties DEF Task
<1> HIDE DEF n
<1>2. Once(n)
  BY <1>1 DEF Once, Has
<1>3. ASSUME NEW x PROVE Has(n, x) <=> Has(q, x) \/ x = w
  BY <1>1 DEF Has
<1> QED  BY <1>1, <1>2, <1>3 DEF n

\* A step that adds or removes the agg_writer only.
LEMMA SameHandlesQueued ==
  ASSUME QueuedOnce, wh' = wh, Once(wq'),
         \A w \in WriteHandles : Has(wq', w) <=> Has(wq, w)
  PROVE  QueuedOnce'
BY DEF QueuedOnce

LEMMA AggWriterKeepsOnce ==
  ASSUME QueueInv, QueuedOnce, AggWriterStep
  PROVE  QueuedOnce'
<1>1. wh' = wh
  BY DEF AggWriterStep, BeginIoOp, OnMdRead, OnEvacDone, OnFlushDone
<1>2. CASE BeginIoOp
  <2>1. wq # <<>> /\ wq' = Tail(wq) /\ Head(wq) = AggWriter /\ wq \in Seq(Task)
    BY <1>2 DEF BeginIoOp, QueueInv
  <2>2. Once(Tail(wq)) /\ \A x : Has(Tail(wq), x) <=> Has(wq, x) /\ x # AggWriter
    BY <2>1, TailOnce DEF QueuedOnce
  <2>3. \A w \in WriteHandles : w # AggWriter
    BY HandlesAssumption
  <2> QED  BY <1>1, <2>1, <2>2, <2>3, SameHandlesQueued
<1>3. CASE OnMdRead \/ OnEvacDone \/ OnFlushDone
  <2>1. aw \notin Waiting
    BY <1>3 DEF OnMdRead, OnEvacDone, OnFlushDone, Waiting
  <2>2. wq' = wq \/ wq' = <<AggWriter>> \o wq
    BY <1>3 DEF OnMdRead, OnEvacDone, OnFlushDone, NextFromWaitNext, WritePendData,
                EnqueueAio
  <2>3. HandlesOnly(wq) /\ wq \in Seq(Task)
    BY <2>1, QueueWithoutAggWriter DEF QueueInv
  <2>4. Once(wq') /\ \A w \in WriteHandles : Has(wq', w) <=> Has(wq, w)
    BY <2>2, <2>3, FrontOnce DEF QueuedOnce
  <2> QED  BY <1>1, <2>4, SameHandlesQueued
<1> QED  BY <1>2, <1>3 DEF AggWriterStep

\* The queue after the handle at its head has had its turn: the handle is in
\* it again or not, the agg_writer may be in front.
LEMMA ExecQueue ==
  ASSUME QueueInv, QueuedOnce, ~WriterBusy, NEW w \in WriteHandles,
         wq # <<>>, Head(wq) = w,
         \/ wq' = Tail(wq) \/ EnqueueAio(Tail(wq), "flush1")
         \/ EnqueueAio(Append(Tail(wq), w), "flush1")
  PROVE  /\ Once(wq')
         /\ \A x \in WriteHandles \ {w} : Has(wq', x) <=> Has(wq, x)
         /\ wq' = Tail(wq) \/ EnqueueAio(Tail(wq), "flush1") => ~Has(wq', w)
         /\ EnqueueAio(Append(Tail(wq), w), "flush1") => Has(wq', w)
         /\ Has(wq, w)
<1> DEFINE t == Tail(wq)
<1>1. /\ t \in Seq(Task) /\ Once(t) /\ HandlesOnly(t)
      /\ \A x : Has(t, x) <=> Has(wq, x) /\ x # w
  BY TailOnce, HandleTurn DEF QueueInv, QueuedOnce
<1>2. Has(wq, w)
  BY EmptySeq DEF QueueInv, Has
<1>3. /\ Append(t, w) \in Seq(Task) /\ Once(Append(t, w)) /\ HandlesOnly(Append(t, w))
      /\ \A x : Has(Append(t, w), x) <=> Has(t, x) \/ x = w
  BY <1>1, BackOnce, AppendHandle
<1> HIDE DEF t
<1>4. CASE wq' = t
  <2>1. Once(wq') /\ ~Has(wq', w) /\ \A x \in WriteHandles \ {w} : Has(wq', x) <=> Has(wq, x)
    BY <1>1, <1>4
  <2>2. ~EnqueueAio(Append(t, w), "flush1")
    BY <1>1, <1>3, <1>4, <2>1, FrontOnce DEF EnqueueAio
  <2> QED  BY <1>2, <2>1, <2>2 DEF t
<1>5. CASE EnqueueAio(t, "flush1")
  <2>1. Once(wq') /\ ~Has(wq', w) /\ \A x \in WriteHandles \ {w} : Has(wq', x) <=> Has(wq, x)
    BY <1>1, <1>5, FrontOnce DEF EnqueueAio
  <2>2. ~EnqueueAio(Append(t, w), "flush1")
    BY <1>1, <1>3, <2>1, FrontOnce, ZenonT(60) DEF EnqueueAio
  <2> QED  BY <1>2, <2>1, <2>2 DEF t
<1>6. CASE EnqueueAio(Append(t, w), "flush1")
  <2>1. Once(wq') /\ Has(wq', w) /\ \A x \in WriteHandles \ {w} : Has(wq', x) <=> Has(wq, x)
    BY <1>1, <1>3, <1>6, FrontOnce DEF EnqueueAio
  <2>2. ~(wq' = t \/ EnqueueAio(t, "flush1"))
    BY <1>1, <2>1, FrontOnce DEF EnqueueAio
  <2> QED  BY <1>2, <2>1, <2>2 DEF t
<1> QED  BY <1>4, <1>5, <1>6 DEF t

-----------------------------------------------------------------------------
(* The table and the block.                                                *)

\* Elements with readers stay, with their readers count and content; nothing
\* else gets readers.
KeepsMarks(t, u) ==
  \A p \in Piece : IF t[p] # None /\ t[p].rd > 0
                   THEN u[p] # None /\ u[p].rd = t[p].rd /\ u[p].val = t[p].val
                   ELSE u[p] = None \/ u[p].rd = 0

Distinct(b) == \A i, j \in 1..Len(b) : b[i].p = b[j].p => i = j

InBlock(t, b, w) ==
  \A p \in Piece : t[p] # None /\ t[p].mem =>
    t[p].off[1] = w /\ t[p].off[2] \in 1..Len(b) /\ b[t[p].off[2]].p = p

\* A table and a block that belong together, at write position w.
Good(t, b, w) == /\ t \in Table /\ b \in Seq(Frag) /\ w \in Blocks
                 /\ Len(b) <= Slots /\ Distinct(b) /\ InBlock(t, b, w)

LEMMA KeepsMarksRefl ==
  ASSUME NEW t \in Table PROVE KeepsMarks(t, t)
BY SizesAssumption DEF KeepsMarks, Table, Elem

LEMMA KeepsMarksTrans ==
  ASSUME NEW t \in Table, NEW u \in Table, NEW v \in Table,
         KeepsMarks(t, u), KeepsMarks(u, v)
  PROVE  KeepsMarks(t, v)
<1> SUFFICES ASSUME NEW p \in Piece
             PROVE  IF t[p] # None /\ t[p].rd > 0
                    THEN v[p] # None /\ v[p].rd = t[p].rd /\ v[p].val = t[p].val
                    ELSE v[p] = None \/ v[p].rd = 0
  BY DEF KeepsMarks
<1>1. CASE t[p] # None /\ t[p].rd > 0
  BY <1>1 DEF KeepsMarks
<1>2. CASE u[p] = None \/ u[p].rd = 0
  BY <1>2 DEF KeepsMarks
<1> QED  BY <1>1, <1>2 DEF KeepsMarks

\* One more fragment in the block does not disturb what is there.
LEMMA AppendGood ==
  ASSUME NEW t, NEW b, NEW w, Good(t, b, w), NEW f \in Frag,
         Len(b) < Slots, f.p \notin Listed(b)
  PROVE  /\ Good(t, Append(b, f), w)
         /\ Len(Append(b, f)) = Len(b) + 1
         /\ Append(b, f)[Len(b) + 1] = f
<1> DEFINE n == Append(b, f)
<1>1. /\ n \in Seq(Frag) /\ Len(n) = Len(b) + 1 /\ Len(b) \in Nat
      /\ \A i \in 1..Len(b) : n[i] = b[i]
      /\ n[Len(b) + 1] = f
  BY AppendProperties, LenProperties DEF Good
<1>2. Len(n) <= Slots
  BY <1>1, SizesAssumption
<1>3. Distinct(n)
  BY <1>1 DEF Distinct, Good, Listed
<1>4. InBlock(t, n, w)
  BY <1>1 DEF InBlock, Good
<1> QED  BY <1>1, <1>2, <1>3, <1>4 DEF Good

LEMMA AddNewFragmentGood ==
  ASSUME NEW t, NEW b, NEW w, Good(t, b, w), NEW p \in Piece, NEW v \in Gen
  PROVE  LET res == AddNewFragment(t, b, w, p, v)
         IN  Good(res.t, res.b, w) /\ KeepsMarks(t, res.t)
<1> DEFINE res   == AddNewFragment(t, b, w, p, v)
           f     == [p |-> p, val |-> v]
           added == Append(b, f)
           re    == [off |-> <<w, Len(b) + 1>>, mem |-> TRUE, rd |-> 0, val |-> v]
           u     == [t EXCEPT ![p] = re]
<1>1. t \in Table /\ KeepsMarks(t, t)
  BY KeepsMarksRefl DEF Good
<1>2. \/ res.t = t /\ res.b = b
      \/ /\ ~(Len(b) >= Slots) /\ p \notin Listed(b)
         /\ res.b = added
         /\ res.t = t \/ ((t[p] = None \/ t[p].rd = 0) /\ res.t = u)
  BY DEF AddNewFragment, MayOverwrite
<1>3. CASE res.t = t /\ res.b = b
  BY <1>1, <1>3
<1>4. CASE /\ ~(Len(b) >= Slots) /\ p \notin Listed(b) /\ res.b = added
  <2>1. f \in Frag /\ f.p = p
    BY DEF Frag
  <2>2. Len(b) \in Nat /\ Len(b) < Slots
    BY <1>4, SizesAssumption, LenProperties DEF Good
  <2>3. Good(t, added, w) /\ Len(added) = Len(b) + 1 /\ added[Len(b) + 1] = f
    BY <1>4, <2>1, <2>2, AppendGood
  <2>4. CASE res.t = t
    BY <1>1, <1>4, <2>3, <2>4
  <2>5. CASE (t[p] = None \/ t[p].rd = 0) /\ res.t = u
    <3>1. Len(b) + 1 \in 1..Slots
      BY <2>2, SizesAssumption
    <3>2. re \in Elem
      BY <3>1, SizesAssumption DEF Elem, Offset, Good
    <3>3. u \in Table /\ u[p] = re /\ \A q \in Piece \ {p} : u[q] = t[q]
      BY <1>1, <3>2 DEF Table
    <3>4. InBlock(u, added, w)
      BY <2>1, <2>2, <2>3, <3>3 DEF InBlock, Good
    <3>5. KeepsMarks(t, u)
      BY <1>1, <2>5, <3>3 DEF KeepsMarks
    <3> QED  BY <1>4, <2>3, <2>5, <3>3, <3>4, <3>5 DEF Good
  <2> QED  BY <1>2, <1>4, <2>4, <2>5 DEF Good
<1> QED  BY <1>2, <1>3, <1>4

LEMMA RemNonEvacGood ==
  ASSUME NEW t, NEW b, NEW w, Good(t, b, w), NEW es \in SUBSET Entry
  PROVE  Good(RemNonEvac(t, es), b, w) /\ KeepsMarks(t, RemNonEvac(t, es))
<1> DEFINE u == RemNonEvac(t, es)
<1>1. \A p \in Piece : u[p] = t[p] \/ (u[p] = None /\ (t[p] = None \/ t[p].rd = 0))
  BY DEF RemNonEvac
<1>2. t \in Table /\ KeepsMarks(t, t)
  BY KeepsMarksRefl DEF Good
<1>3. u \in Table
  <2> DEFINE removed == {e.p : e \in es}
  <2>1. u = [p \in Piece |-> IF p \in removed /\ t[p] # None /\ t[p].rd = 0
                           THEN None ELSE t[p]]
    BY DEF RemNonEvac
  <2> HIDE DEF removed, u
  <2> QED  BY <1>2, <2>1 DEF Table
<1>4. KeepsMarks(t, u)
  BY <1>1, <1>2 DEF KeepsMarks
<1>5. InBlock(u, b, w)
  BY <1>1 DEF InBlock, Good
<1> QED  BY <1>3, <1>4, <1>5 DEF Good

LEMMA AddEvacFragmentGood ==
  ASSUME NEW t, NEW b, Good(t, b, wpos), NEW f \in Frag,
         Len(b) < Slots, f.p \notin Listed(b)
  PROVE  /\ Good(AddEvacFragment(t, b, f.p), Append(b, f), wpos)
         /\ KeepsMarks(t, AddEvacFragment(t, b, f.p))
<1> DEFINE u == AddEvacFragment(t, b, f.p)
           n == Append(b, f)
<1>1. /\ Good(t, n, wpos) /\ Len(n) = Len(b) + 1 /\ n[Len(b) + 1] = f
      /\ Len(b) \in Nat /\ t \in Table /\ f.p \in Piece /\ wpos \in Blocks
  BY AppendGood, LenProperties DEF Good, Frag
<1>2. CASE t[f.p] = None
  BY <1>1, <1>2, KeepsMarksRefl DEF AddEvacFragment
<1>3. CASE t[f.p] # None
  <2> DEFINE re == [t[f.p] EXCEPT !.mem = TRUE, !.off = <<wpos, Len(b) + 1>>]
  <2>1. Len(b) + 1 \in 1..Slots
    BY <1>1, SizesAssumption
  <2>2. t[f.p] \in Elem
    BY <1>1, <1>3 DEF Table
  <2>3. /\ re \in Elem /\ re.rd = t[f.p].rd /\ re.val = t[f.p].val
        /\ re.mem /\ re.off = <<wpos, Len(b) + 1>>
    BY <1>1, <2>1, <2>2 DEF Elem, Offset
  <2>4. u = [t EXCEPT ![f.p] = re]
    BY <1>1, <1>3 DEF AddEvacFragment, Table
  <2>5. u \in Table /\ u[f.p] = re /\ \A q \in Piece \ {f.p} : u[q] = t[q]
    BY <1>1, <2>3, <2>4, ZenonT(60) DEF Table
  <2>6. KeepsMarks(t, u)
    <3>1. KeepsMarks(t, t) /\ re # None
      BY <1>1, <2>3, KeepsMarksRefl, NoneAssumption
    <3> QED  BY <1>3, <2>3, <2>5, <3>1, ZenonT(60) DEF KeepsMarks
  <2>7. InBlock(u, n, wpos)
    <3> HIDE DEF u, n, re
    <3>1. Len(b) + 1 \in 1..Len(n)
      BY <1>1
    <3>2. ASSUME NEW p \in Piece, u[p] # None /\ u[p].mem
          PROVE  /\ u[p].off[1] = wpos /\ u[p].off[2] \in 1..Len(n)
                 /\ n[u[p].off[2]].p = p
      <4>1. CASE p = f.p
        BY <1>1, <2>3, <2>5, <3>1, <4>1
      <4>2. CASE p # f.p
        BY <1>1, <2>5, <3>2, <4>2 DEF InBlock, Good
      <4> QED  BY <4>1, <4>2
    <3> QED  BY <3>2 DEF InBlock
  <2> QED  BY <1>1, <2>5, <2>6, <2>7 DEF Good
<1> QED  BY <1>2, <1>3

LEMMA CommitDiskWriteGood ==
  ASSUME NEW t, NEW b, NEW w, Good(t, b, w), NEW w2 \in Blocks
  PROVE  /\ Good(CommitDiskWrite(t, b), <<>>, w2)
         /\ KeepsMarks(t, CommitDiskWrite(t, b))
<1> DEFINE u == CommitDiskWrite(t, b)
<1>1. t \in Table /\ KeepsMarks(t, t)
  BY KeepsMarksRefl DEF Good
<1>2. ASSUME NEW p \in Piece
      PROVE  IF t[p] = None THEN u[p] = None
             ELSE /\ u[p] \in Elem /\ u[p] # None /\ ~u[p].mem
                  /\ u[p].rd = t[p].rd /\ u[p].val = t[p].val
  <2>1. CASE t[p] = None
    BY <2>1 DEF CommitDiskWrite
  <2>2. CASE t[p] # None
    <3>1. t[p] \in Elem
      BY <1>1, <2>2 DEF Table
    <3>2. CASE p \in Listed(b)
      <4>1. u[p] = [t[p] EXCEPT !.mem = FALSE]
        BY <2>2, <3>2 DEF CommitDiskWrite
      <4>2. u[p] \in Elem /\ ~u[p].mem /\ u[p].rd = t[p].rd /\ u[p].val = t[p].val
        BY <3>1, <4>1 DEF Elem
      <4> QED  BY <2>2, <4>2, NoneAssumption
    <3>3. CASE p \notin Listed(b)
      <4>1. u[p] = t[p]
        BY <2>2, <3>3 DEF CommitDiskWrite
      <4>2. ~t[p].mem
        BY <2>2, <3>3 DEF Good, InBlock, Listed
      <4> QED  BY <2>2, <3>1, <4>1, <4>2, NoneAssumption
    <3> QED  BY <3>2, <3>3
  <2> QED  BY <2>1, <2>2
<1>3. u \in Table
  BY <1>2 DEF Table, CommitDiskWrite
<1>4. KeepsMarks(t, u)
  BY <1>1, <1>2 DEF KeepsMarks
<1>5. InBlock(u, <<>>, w2)
  BY <1>2 DEF InBlock
<1>6. <<>> \in Seq(Frag) /\ Len(<<>>) = 0
  BY EmptySeq
<1> QED  BY <1>3, <1>4, <1>5, <1>6, SizesAssumption DEF Good, Distinct

LEMMA WritePendDataGood ==
  ASSUME NEW t, NEW b, NEW w, Good(t, b, w), pd \in Frag \cup {None},
         WritePendData(t, b, w)
  PROVE  /\ Good(tbl', blk', w) /\ KeepsMarks(t, tbl')
         /\ pd' \in Frag \cup {None}
         /\ aw' \in {"wait_write", "flush1"}
<1>1. CASE pd = None
  BY <1>1, KeepsMarksRefl DEF WritePendData, Good
<1>2. CASE pd # None
  <2>1. pd.p \in Piece /\ pd.val \in Gen
    BY <1>2 DEF Frag
  <2> QED  BY <1>2, <2>1, AddNewFragmentGood DEF WritePendData, EnqueueAio
<1> QED  BY <1>1, <1>2

-----------------------------------------------------------------------------
(* The readers.                                                            *)

LEMMA ReadersFinite ==
  ASSUME NEW p
  PROVE  IsFiniteSet(ReadersOf(p)) /\ Cardinality(ReadersOf(p)) \in Nat
<1>1. ReadersOf(p) \in SUBSET ReadHandles
  BY DEF ReadersOf
<1> QED  BY <1>1, HandlesAssumption, FS_Subset, FS_CardinalityType

\* An operation that keeps the marks and opens or ends no transaction.
LEMMA SameReaders ==
  ASSUME tbl \in Table, ReadersExact, tbl' \in Table, KeepsMarks(tbl, tbl'),
         \A p \in Piece : ReadersOf(p)' = ReadersOf(p)
  PROVE  ReadersExact'
<1> SUFFICES ASSUME NEW p \in Piece
             PROVE  IF tbl'[p] = None THEN ReadersOf(p) = {}
                    ELSE tbl'[p].rd = Cardinality(ReadersOf(p))
  BY DEF ReadersExact
<1>1. CASE tbl[p] # None /\ tbl[p].rd > 0
  BY <1>1 DEF KeepsMarks, ReadersExact
<1>2. CASE tbl[p] = None \/ tbl[p].rd = 0
  <2>1. ReadersOf(p) = {}
    BY <1>2, ReadersFinite, FS_EmptySet DEF ReadersExact
  <2>2. tbl'[p] = None \/ tbl'[p].rd = 0
    BY <1>2, SizesAssumption DEF KeepsMarks
  <2> QED  BY <2>1, <2>2, FS_EmptySet
<1>3. tbl[p] = None \/ tbl[p].rd \in Nat
  BY SizesAssumption DEF Table, Elem
<1> QED  BY <1>1, <1>2, <1>3

\* Nothing changes but the readers counts.
SameElems(t, u) ==
  \A p \in Piece : u[p] # t[p] => /\ t[p] # None /\ u[p] # None
                                /\ u[p].mem = t[p].mem /\ u[p].off = t[p].off
                                /\ u[p].val = t[p].val

\* What MarkedKept says of a step.
Kept == \A p \in Marked(tbl) : tbl'[p] # None /\ tbl'[p].val = tbl[p].val

LEMMA KeptByMarks ==
  ASSUME KeepsMarks(tbl, tbl') \/ SameElems(tbl, tbl') PROVE Kept
BY DEF Kept, KeepsMarks, SameElems, Marked, Present

LEMMA SameElemsGood ==
  ASSUME NEW t, NEW b, NEW w, Good(t, b, w), NEW u \in Table, SameElems(t, u)
  PROVE  Good(u, b, w)
<1>1. InBlock(u, b, w)
  BY DEF SameElems, Good, InBlock
<1> QED  BY <1>1 DEF Good

\* The read handles and the marks after a transaction of r has been opened.
LEMMA MarkReadExact ==
  ASSUME tbl \in Table, ReadersExact, NEW r \in ReadHandles, NEW ps,
         \A p \in Piece : ReadersOf(p)' = IF p \in ps THEN ReadersOf(p) \cup {r}
                                         ELSE ReadersOf(p),
         \A p \in Piece : r \notin ReadersOf(p),
         ps \subseteq Present(tbl), \A p \in ps : tbl[p].rd < MaxReaders,
         tbl' = MarkRead(tbl, ps)
  PROVE  /\ tbl' \in Table /\ ReadersExact'
         /\ SameElems(tbl, tbl')
<1>1. ASSUME NEW p \in Piece
      PROVE  IF p \in ps
             THEN /\ tbl[p] # None /\ tbl'[p] \in Elem /\ tbl'[p] # None
                  /\ tbl'[p].rd = tbl[p].rd + 1 /\ tbl'[p].mem = tbl[p].mem
                  /\ tbl'[p].off = tbl[p].off /\ tbl'[p].val = tbl[p].val
             ELSE tbl'[p] = tbl[p]
  <2>1. CASE p \in ps
    <3>1. tbl[p] # None /\ tbl[p] \in Elem /\ tbl[p].rd < MaxReaders
      BY <2>1 DEF Present, Table
    <3>2. tbl'[p] = [tbl[p] EXCEPT !.rd = tbl[p].rd + 1]
      BY <2>1 DEF MarkRead
    <3>3. tbl[p].rd + 1 \in 0..MaxReaders
      BY <3>1, SizesAssumption DEF Elem
    <3>4. /\ tbl'[p] \in Elem /\ tbl'[p].rd = tbl[p].rd + 1
          /\ tbl'[p].mem = tbl[p].mem /\ tbl'[p].off = tbl[p].off
          /\ tbl'[p].val = tbl[p].val
      BY <3>1, <3>2, <3>3 DEF Elem
    <3> QED  BY <2>1, <3>1, <3>4, NoneAssumption
  <2>2. CASE p \notin ps
    BY <2>2 DEF MarkRead
  <2> QED  BY <2>1, <2>2
<1>2. tbl' \in Table
  BY <1>1 DEF MarkRead, Table
<1>3. ASSUME NEW p \in Piece
      PROVE  IF tbl'[p] = None THEN ReadersOf(p)' = {}
             ELSE tbl'[p].rd = Cardinality(ReadersOf(p)')
  <2>1. CASE p \in ps
    <3>1. Cardinality(ReadersOf(p) \cup {r}) = Cardinality(ReadersOf(p)) + 1
      BY ReadersFinite, FS_AddElement
    <3> QED  BY <1>1, <2>1, <3>1 DEF ReadersExact
  <2>2. CASE p \notin ps
    BY <1>1, <2>2 DEF ReadersExact
  <2> QED  BY <2>1, <2>2
<1>4. SameElems(tbl, tbl')
  BY <1>1 DEF SameElems
<1> QED  BY <1>2, <1>3, <1>4 DEF ReadersExact

\* The same after the transaction of r has ended: all its elements are found.
LEMMA UnmarkReadExact ==
  ASSUME tbl \in Table, ReadersExact, NEW r \in ReadHandles, NEW ps \in SUBSET Piece,
         \A p \in Piece : ReadersOf(p)' = ReadersOf(p) \ {r},
         \A p \in Piece : r \in ReadersOf(p) <=> p \in ps,
         tbl' = UnmarkRead(tbl, ps)
  PROVE  /\ tbl' \in Table /\ ReadersExact'
         /\ SameElems(tbl, tbl')
<1>1. ps \subseteq Present(tbl)
  BY DEF ReadersExact, Present
<1>2. tbl' = [p \in Piece |-> IF p \in ps THEN [tbl[p] EXCEPT !.rd = tbl[p].rd - 1]
                             ELSE tbl[p]]
  BY <1>1 DEF UnmarkRead
<1>3. ASSUME NEW p \in ps
      PROVE  /\ tbl[p] # None /\ tbl[p] \in Elem /\ tbl[p].rd - 1 \in 0..MaxReaders
             /\ Cardinality(ReadersOf(p) \ {r}) = tbl[p].rd - 1
  <2>1. tbl[p] # None /\ tbl[p] \in Elem
    BY <1>1 DEF Present, Table
  <2>2. tbl[p].rd = Cardinality(ReadersOf(p))
    BY <2>1 DEF ReadersExact
  <2>3. Cardinality(ReadersOf(p) \ {r}) = tbl[p].rd - 1
    BY <2>2, ReadersFinite, FS_RemoveElement
  <2>4. Cardinality(ReadersOf(p) \ {r}) \in Nat
    BY ReadersFinite, FS_RemoveElement, FS_CardinalityType
  <2>5. tbl[p].rd \in 0..MaxReaders
    BY <2>1 DEF Elem
  <2> QED  BY <2>1, <2>3, <2>4, <2>5, SizesAssumption
<1>4. ASSUME NEW p \in Piece
      PROVE  IF p \in ps
             THEN /\ tbl[p] # None /\ tbl'[p] \in Elem /\ tbl'[p] # None
                  /\ tbl'[p].rd = tbl[p].rd - 1 /\ tbl'[p].mem = tbl[p].mem
                  /\ tbl'[p].off = tbl[p].off /\ tbl'[p].val = tbl[p].val
             ELSE tbl'[p] = tbl[p]
  <2>1. CASE p \in ps
    <3>1. tbl'[p] = [tbl[p] EXCEPT !.rd = tbl[p].rd - 1]
      BY <1>2, <2>1
    <3>2. /\ tbl'[p] \in Elem /\ tbl'[p].rd = tbl[p].rd - 1
          /\ tbl'[p].mem = tbl[p].mem /\ tbl'[p].off = tbl[p].off
          /\ tbl'[p].val = tbl[p].val
      BY <1>3, <2>1, <3>1 DEF Elem
    <3> QED  BY <1>3, <2>1, <3>2, NoneAssumption
  <2>2. CASE p \notin ps
    BY <1>2, <2>2
  <2> QED  BY <2>1, <2>2
<1>5. tbl' \in Table
  BY <1>2, <1>4 DEF Table
<1>6. ASSUME NEW p \in Piece
      PROVE  IF tbl'[p] = None THEN ReadersOf(p)' = {}
             ELSE tbl'[p].rd = Cardinality(ReadersOf(p)')
  <2>1. CASE p \in ps
    BY <1>3, <1>4, <2>1
  <2>2. CASE p \notin ps
    <3>1. ReadersOf(p)' = ReadersOf(p)
      BY <2>2
    <3> QED  BY <1>4, <2>2, <3>1 DEF ReadersExact
  <2> QED  BY <2>1, <2>2
<1>7. SameElems(tbl, tbl')
  BY <1>4 DEF SameElems
<1> QED  BY <1>5, <1>6, <1>7 DEF ReadersExact

-----------------------------------------------------------------------------
(* The steps of the read handles.                                          *)

ReadInv == /\ Good(tbl, blk, wpos)
           /\ rh \in [ReadHandles -> ReadHandle \cup {None}]
           /\ ReadersExact

LEMMA OpenReadInv ==
  ASSUME ReadInv, NEW r \in ReadHandles, NEW k \in Keys, NEW lo \in 1..NFrags,
         NEW hi \in lo..NFrags, OpenRead(r, k, lo, hi)
  PROVE  ReadInv' /\ Kept
<1> DEFINE ps == {k} \X (lo..hi)
           h  == [pc |-> "ready", k |-> k, lo |-> lo, hi |-> hi, cur |-> lo,
                  el |-> None, lk |-> FALSE]
<1>1. /\ rh[r] = None /\ rh' = [rh EXCEPT ![r] = h]
      /\ ps \subseteq Present(tbl) /\ \A p \in ps : tbl[p].rd < MaxReaders
      /\ tbl' = MarkRead(tbl, ps) /\ blk' = blk /\ wpos' = wpos
  BY DEF OpenRead
<1>2. hi \in 1..NFrags
  BY SizesAssumption
<1>3. h \in ReadHandle /\ h # None
  <2>1. h \in ReadHandle
    BY <1>2 DEF ReadHandle
  <2> HIDE DEF h
  <2> QED  BY <2>1, NoneAssumption
<1>4. rh' \in [ReadHandles -> ReadHandle \cup {None}]
  BY <1>1, <1>3 DEF ReadInv
<1>5. \A p \in Piece : r \notin ReadersOf(p)
  BY <1>1 DEF ReadersOf
<1>6. ASSUME NEW p \in Piece
      PROVE  ReadersOf(p)' = IF p \in ps THEN ReadersOf(p) \cup {r} ELSE ReadersOf(p)
  <2>1. ASSUME NEW q \in ReadHandles
        PROVE  (rh'[q] # None /\ p \in Cover(rh'[q]))
               <=> IF q = r THEN p \in ps ELSE rh[q] # None /\ p \in Cover(rh[q])
    BY <1>1, <1>3 DEF ReadInv, Cover
  <2> QED  BY <1>1, <2>1 DEF ReadersOf
<1>7. tbl' \in Table /\ ReadersExact' /\ SameElems(tbl, tbl')
  <2> HIDE DEF ps
  <2> QED  BY <1>1, <1>5, <1>6, MarkReadExact DEF ReadInv, Good
<1> QED  BY <1>1, <1>4, <1>7, SameElemsGood, KeptByMarks DEF ReadInv

LEMMA EndReadInv ==
  ASSUME ReadInv, NEW r \in ReadHandles, rh[r] # None, EndRead(r),
         blk' = blk, wpos' = wpos
  PROVE  ReadInv' /\ Kept
<1> DEFINE ps == Cover(rh[r])
<1>1. rh' = [rh EXCEPT ![r] = None] /\ tbl' = UnmarkRead(tbl, ps)
  BY DEF EndRead
<1>2. ps \in SUBSET Piece
  BY SizesAssumption DEF ReadInv, ReadHandle, Cover, Piece
<1>3. rh' \in [ReadHandles -> ReadHandle \cup {None}]
  BY <1>1 DEF ReadInv
<1>4. \A p \in Piece : r \in ReadersOf(p) <=> p \in ps
  BY DEF ReadersOf
<1>5. ASSUME NEW p \in Piece PROVE ReadersOf(p)' = ReadersOf(p) \ {r}
  BY <1>1 DEF ReadInv, ReadersOf
<1>6. tbl' \in Table /\ ReadersExact' /\ SameElems(tbl, tbl')
  <2> HIDE DEF ps
  <2> QED  BY <1>1, <1>2, <1>4, <1>5, UnmarkReadExact DEF ReadInv, Good
<1> QED  BY <1>3, <1>6, SameElemsGood, KeptByMarks DEF ReadInv

\* A step of a handle that leaves the range of its transaction alone.
LEMMA SameCoverInv ==
  ASSUME ReadInv, NEW r \in ReadHandles, rh[r] # None, NEW h \in ReadHandle,
         rh' = [rh EXCEPT ![r] = h], Cover(h) = Cover(rh[r]),
         tbl' = tbl, blk' = blk, wpos' = wpos
  PROVE  ReadInv' /\ Kept
<1>1. rh' \in [ReadHandles -> ReadHandle \cup {None}] /\ h # None
  BY NoneAssumption DEF ReadInv
<1>2. ASSUME NEW p \in Piece PROVE ReadersOf(p)' = ReadersOf(p)
  BY <1>1 DEF ReadInv, ReadersOf
<1>3. ReadersExact'
  BY <1>2, SameReaders, KeepsMarksRefl DEF ReadInv, Good
<1> QED  BY <1>1, <1>3, KeepsMarksRefl, KeptByMarks DEF ReadInv, Good

LEMMA DeliverInv ==
  ASSUME ReadInv, NEW r \in ReadHandles, rh[r] # None, Deliver(r),
         blk' = blk, wpos' = wpos
  PROVE  ReadInv' /\ Kept
<1>1. CASE EndRead(r)
  BY <1>1, EndReadInv
<1>2. CASE ~EndRead(r)
  <2> DEFINE h == [rh[r] EXCEPT !.pc = "ready", !.cur = @ + 1,
                               !.el = None, !.lk = FALSE]
  <2>1. rh[r] \in ReadHandle
    BY DEF ReadInv
  <2>2. rh[r].cur < rh[r].hi /\ rh' = [rh EXCEPT ![r] = h] /\ tbl' = tbl
    BY <1>2 DEF Deliver, ReadInv
  <2>3. rh[r].cur + 1 \in 1..NFrags
    BY <2>1, <2>2, SizesAssumption DEF ReadHandle
  <2>4. h \in ReadHandle /\ h.k = rh[r].k /\ h.lo = rh[r].lo /\ h.hi = rh[r].hi
    BY <2>1, <2>3 DEF ReadHandle
  <2>5. Cover(h) = Cover(rh[r])
    BY <2>4 DEF Cover
  <2> HIDE DEF h
  <2> QED  BY <2>2, <2>4, <2>5, SameCoverInv
<1> QED  BY <1>1, <1>2

LEMMA FindElemInv ==
  ASSUME ReadInv, NEW r \in ReadHandles, FindElem(r)
  PROVE  ReadInv' /\ Kept
<1>1. rh[r] # None /\ rh[r] \in ReadHandle /\ blk' = blk /\ wpos' = wpos
  BY DEF FindElem, ReadInv
<1>2. CASE tbl[ReadPiece(r)] = None
  BY <1>1, <1>2, EndReadInv DEF FindElem
<1>3. CASE tbl[ReadPiece(r)] # None
  <2> DEFINE e  == tbl[ReadPiece(r)]
             el == [off |-> e.off, mem |-> e.mem]
             h  == [rh[r] EXCEPT !.el = el,
                                 !.pc = IF e.mem THEN "found" ELSE "disk"]
  <2>1. ReadPiece(r) \in Piece
    BY <1>1 DEF ReadPiece, Piece, ReadHandle
  <2>2. e \in Elem
    BY <1>3, <2>1 DEF ReadInv, Good, Table
  <2>3. el \in ElemCopy
    BY <2>2 DEF Elem, ElemCopy
  <2>4. h \in ReadHandle /\ h.k = rh[r].k /\ h.lo = rh[r].lo /\ h.hi = rh[r].hi
    <3> HIDE DEF el, e
    <3> QED  BY <1>1, <2>3 DEF ReadHandle
  <2>5. rh' = [rh EXCEPT ![r] = h] /\ tbl' = tbl
    BY <1>1, <1>3 DEF FindElem, ReadInv
  <2>6. Cover(h) = Cover(rh[r])
    BY <2>4 DEF Cover
  <2> HIDE DEF h
  <2> QED  BY <1>1, <2>4, <2>5, <2>6, SameCoverInv
<1> QED  BY <1>2, <1>3

LEMMA ReadStepInv ==
  ASSUME ReadInv, NEW r \in ReadHandles, ReadStep(r)
  PROVE  ReadInv' /\ Kept
<1>1. ASSUME NEW k \in Keys, NEW lo \in 1..NFrags, NEW hi \in lo..NFrags,
             OpenRead(r, k, lo, hi)
      PROVE  ReadInv' /\ Kept
  BY <1>1, OpenReadInv
<1>2. CASE FindElem(r)
  BY <1>2, FindElemInv
<1>3. CASE TryReadMem(r)
  <2>1. rh[r] # None /\ rh[r] \in ReadHandle /\ blk' = blk /\ wpos' = wpos
    BY <1>3 DEF TryReadMem, ReadInv
  <2>2. CASE Deliver(r)
    BY <2>1, <2>2, DeliverInv
  <2>3. CASE ~Deliver(r)
    <3> DEFINE h == [rh[r] EXCEPT !.pc = "disk"]
    <3>1. rh' = [rh EXCEPT ![r] = h] /\ tbl' = tbl
      BY <1>3, <2>1, <2>3 DEF TryReadMem, ReadInv
    <3>2. h \in ReadHandle /\ Cover(h) = Cover(rh[r])
      BY <2>1 DEF ReadHandle, Cover
    <3> QED  BY <2>1, <3>1, <3>2, SameCoverInv
  <2> QED  BY <2>2, <2>3
<1>4. CASE BeginDiskRead(r)
  <2>1. rh[r] # None /\ rh[r] \in ReadHandle /\ blk' = blk /\ wpos' = wpos
        /\ tbl' = tbl
    BY <1>4 DEF BeginDiskRead, ReadInv
  <2> DEFINE lk == LockNeeded(rh[r].el.off[1])
             h  == [rh[r] EXCEPT !.pc = "reading", !.lk = lk]
  <2>2. rh' = [rh EXCEPT ![r] = h]
    BY <1>4, <2>1 DEF BeginDiskRead, ReadInv
  <2>3. lk \in BOOLEAN
    BY DEF LockNeeded
  <2>4. h \in ReadHandle /\ Cover(h) = Cover(rh[r])
    <3> HIDE DEF lk
    <3> QED  BY <2>1, <2>3 DEF ReadHandle, Cover
  <2> HIDE DEF h
  <2> QED  BY <2>1, <2>2, <2>4, SameCoverInv
<1>5. CASE EndDiskRead(r)
  <2>1. rh[r] # None /\ blk' = blk /\ wpos' = wpos /\ (Deliver(r) \/ EndRead(r))
    BY <1>5 DEF EndDiskRead
  <2> QED  BY <2>1, DeliverInv, EndReadInv
<1>6. CASE CloseRead(r)
  BY <1>6, EndReadInv DEF CloseRead
<1> QED  BY <1>1, <1>2, <1>3, <1>4, <1>5, <1>6 DEF ReadStep

-----------------------------------------------------------------------------
(* The inductive invariant.                                                *)

\* Entries of one block: one slot per piece, one piece per slot.
WellFormed(es) == \A e, f \in es : e.p = f.p \/ e.slot = f.slot => e = f

FitsWith(b, es) == /\ Len(b) + Cardinality(es) <= Slots
                   /\ Listed(b) \cap {e.p : e \in es} = {}

VolumeInv ==
  /\ lap1 \in BOOLEAN
  /\ pd \in Frag \cup {None}
  /\ dsk \in [Blocks -> [1..Slots -> Frag \cup {Blank}]]
  /\ dmd \in [Blocks -> [ok: BOOLEAN, ent: SUBSET Entry]]
  /\ \A b \in Blocks : WellFormed(dmd[b].ent)
  /\ evac \in SUBSET Entry /\ WellFormed(evac)
  /\ aw \in {"md_read1", "md_read2"} => blk = <<>>
  /\ aw \in {"evac1", "evac2"} => FitsWith(blk, evac)

WriteInv ==
  /\ gen \in [Keys -> Gen]
  /\ wh \in [WriteHandles -> WriteHandle \cup {None}]
  /\ \A w \in WriteHandles :
       wh[w] # None /\ wh[w].pc = "queued" => wh[w].cur <= wh[w].hi

Inv == ReadInv /\ VolumeInv /\ WriteInv

LEMMA EntriesFit ==
  ASSUME NEW es \in SUBSET Entry, WellFormed(es)
  PROVE  IsFiniteSet(es) /\ Cardinality(es) \in Nat /\ Cardinality(es) <= Slots
<1> DEFINE f == [e \in es |-> e.slot]
<1>1. f \in Injection(es, 1..Slots)
  BY DEF Injection, IsInjective, WellFormed, Entry
<1>2. IsFiniteSet(1..Slots) /\ Cardinality(1..Slots) = Slots
  BY FS_Interval, SizesAssumption
<1>3. IsFiniteSet(es) /\ Cardinality(es) <= Slots
  BY <1>1, <1>2, FS_Injection
<1> QED  BY <1>3, FS_CardinalityType

\* A step that changes the table and the block, and no transaction.
LEMMA SameReadHandles ==
  ASSUME ReadInv, Good(tbl', blk', wpos'), KeepsMarks(tbl, tbl'), rh' = rh
  PROVE  ReadInv' /\ Kept
<1>1. \A p \in Piece : ReadersOf(p)' = ReadersOf(p)
  BY DEF ReadersOf
<1> QED  BY <1>1, SameReaders, KeptByMarks DEF ReadInv, Good

-----------------------------------------------------------------------------
(* The steps of the agg_writer.                                            *)

LEMMA NextFromWaitNextInv ==
  ASSUME NEW t, NEW b, NEW es \in SUBSET Entry, Good(t, b, wpos),
         WellFormed(es), FitsWith(b, es), pd \in Frag \cup {None},
         NextFromWaitNext(t, b, es)
  PROVE  /\ Good(tbl', blk', wpos) /\ KeepsMarks(t, tbl')
         /\ pd' \in Frag \cup {None} /\ evac' = es
         /\ aw' \in {"evac1", "wait_write", "flush1"}
         /\ aw' = "evac1" => FitsWith(blk', evac')
<1>1. CASE es # {}
  BY <1>1, KeepsMarksRefl DEF NextFromWaitNext, EnqueueAio, Good
<1>2. CASE es = {}
  BY <1>2, WritePendDataGood DEF NextFromWaitNext
<1> QED  BY <1>1, <1>2

LEMMA OnMdReadInv ==
  ASSUME Inv, OnMdRead
  PROVE  Inv' /\ Kept
<1> DEFINE ent == dmd[wpos].ent
<1>1. /\ Good(tbl, blk, wpos) /\ wpos \in Blocks /\ tbl \in Table
      /\ ent \in SUBSET Entry /\ WellFormed(ent) /\ blk = <<>>
      /\ pd \in Frag \cup {None}
  BY DEF Inv, ReadInv, VolumeInv, Good, OnMdRead
<1>2. PICK t, es : /\ NextFromWaitNext(t, blk, es)
                   /\ \/ t = RemNonEvac(tbl, ent) /\ es = ToEvacuate(tbl, ent)
                      \/ t = tbl /\ es = {}
  BY DEF OnMdRead
<1>3. Good(t, blk, wpos) /\ KeepsMarks(tbl, t)
  <2> HIDE DEF ent
  <2> QED  BY <1>1, <1>2, RemNonEvacGood, KeepsMarksRefl
<1>4. es \in SUBSET Entry /\ WellFormed(es)
  BY <1>1, <1>2 DEF ToEvacuate, WellFormed
<1>5. FitsWith(blk, es)
  <2>1. Len(blk) = 0 /\ Listed(blk) = {}
    BY <1>1, EmptySeq DEF Listed
  <2> QED  BY <1>4, <2>1, EntriesFit DEF FitsWith
<1>6. /\ Good(tbl', blk', wpos) /\ KeepsMarks(t, tbl')
      /\ pd' \in Frag \cup {None} /\ evac' = es
      /\ aw' \in {"evac1", "wait_write", "flush1"}
      /\ aw' = "evac1" => FitsWith(blk', evac')
  BY <1>1, <1>2, <1>3, <1>4, <1>5, NextFromWaitNextInv
<1>7. /\ wpos' = wpos /\ lap1' = lap1 /\ dsk' = dsk /\ dmd' = dmd
      /\ rh' = rh /\ wh' = wh /\ gen' = gen
  BY DEF OnMdRead
<1>8. ReadInv' /\ Kept
  BY <1>1, <1>3, <1>6, <1>7, KeepsMarksTrans, SameReadHandles DEF Inv, Good
<1>9. VolumeInv'
  BY <1>4, <1>6, <1>7 DEF Inv, VolumeInv
<1> QED  BY <1>7, <1>8, <1>9 DEF Inv, WriteInv

LEMMA OnEvacDoneInv ==
  ASSUME Inv, OnEvacDone
  PROVE  Inv' /\ Kept
<1>1. PICK e \in FirstOf(evac) :
        LET found == dsk[wpos][e.slot] IN
        \/ /\ found.p = e.p
           /\ NextFromWaitNext(AddEvacFragment(tbl, blk, e.p),
                               Append(blk, found), evac \ {e})
        \/ NextFromWaitNext(tbl, blk, evac \ {e})
  BY DEF OnEvacDone
<1> DEFINE found == dsk[wpos][e.slot]
           es    == evac \ {e}
<1>2. /\ Good(tbl, blk, wpos) /\ wpos \in Blocks /\ tbl \in Table
      /\ evac \in SUBSET Entry /\ WellFormed(evac) /\ FitsWith(blk, evac)
      /\ pd \in Frag \cup {None} /\ blk \in Seq(Frag)
      /\ dsk \in [Blocks -> [1..Slots -> Frag \cup {Blank}]]
  BY DEF Inv, ReadInv, VolumeInv, Good, OnEvacDone
<1>3. e \in evac /\ e \in Entry
  BY <1>2 DEF FirstOf
<1>4. /\ IsFiniteSet(evac) /\ Cardinality(evac) \in Nat
      /\ IsFiniteSet(es) /\ Cardinality(es) \in Nat
      /\ Cardinality(es) = Cardinality(evac) - 1
  BY <1>2, <1>3, EntriesFit, FS_RemoveElement, FS_CardinalityType
<1>5. Len(blk) \in Nat /\ Len(blk) + Cardinality(es) + 1 <= Slots
  BY <1>2, <1>4, SizesAssumption, LenProperties DEF FitsWith
<1>6. es \in SUBSET Entry /\ WellFormed(es) /\ FitsWith(blk, es)
  BY <1>2, <1>4, <1>5, SizesAssumption DEF WellFormed, FitsWith
<1>7. PICK t, b : /\ NextFromWaitNext(t, b, es)
                  /\ Good(t, b, wpos) /\ KeepsMarks(tbl, t) /\ FitsWith(b, es)
  <2>1. CASE /\ found.p = e.p
             /\ NextFromWaitNext(AddEvacFragment(tbl, blk, e.p),
                                 Append(blk, found), es)
    <3>1. found \in Frag
      <4>1. found \in Frag \cup {Blank}
        BY <1>2, <1>3 DEF Entry
      <4>2. e.p \in Piece
        BY <1>3 DEF Entry
      <4>3. Blank.p = None /\ None \notin Piece
        BY NoneAssumption DEF Blank
      <4> HIDE DEF found
      <4> QED  BY <2>1, <4>1, <4>2, <4>3
    <3>2. found.p \notin Listed(blk)
      BY <1>2, <1>3, <2>1 DEF FitsWith
    <3>3. Len(blk) < Slots
      BY <1>4, <1>5, SizesAssumption
    <3>4. /\ Good(AddEvacFragment(tbl, blk, e.p), Append(blk, found), wpos)
          /\ KeepsMarks(tbl, AddEvacFragment(tbl, blk, e.p))
      <4> HIDE DEF found
      <4> QED  BY <1>2, <2>1, <3>1, <3>2, <3>3, AddEvacFragmentGood
    <3>5. FitsWith(Append(blk, found), es)
      <4> DEFINE n == Append(blk, found)
      <4>1. /\ Len(n) = Len(blk) + 1
            /\ \A i \in 1..Len(blk) : n[i] = blk[i]
            /\ n[Len(blk) + 1] = found
        BY <1>2, <3>1, AppendProperties
      <4>2. Listed(n) \subseteq Listed(blk) \cup {e.p}
        <5> HIDE DEF n, found
        <5> QED  BY <1>5, <2>1, <4>1 DEF Listed
      <4>3. e.p \notin {x.p : x \in es}
        BY <1>2, <1>3 DEF WellFormed
      <4>4. Len(n) + Cardinality(es) <= Slots
        BY <1>4, <1>5, <4>1, SizesAssumption
      <4> QED  BY <1>6, <4>2, <4>3, <4>4 DEF FitsWith
    <3> QED  BY <2>1, <3>4, <3>5
  <2>2. CASE NextFromWaitNext(tbl, blk, es)
    BY <1>2, <1>6, <2>2, KeepsMarksRefl
  <2> QED  BY <1>1, <2>1, <2>2
<1>8. /\ Good(tbl', blk', wpos) /\ KeepsMarks(t, tbl')
      /\ pd' \in Frag \cup {None} /\ evac' = es
      /\ aw' \in {"evac1", "wait_write", "flush1"}
      /\ aw' = "evac1" => FitsWith(blk', evac')
  <2> HIDE DEF es
  <2> QED  BY <1>2, <1>6, <1>7, NextFromWaitNextInv
<1>9. /\ wpos' = wpos /\ lap1' = lap1 /\ dsk' = dsk /\ dmd' = dmd
      /\ rh' = rh /\ wh' = wh /\ gen' = gen
  BY DEF OnEvacDone
<1>10. ReadInv' /\ Kept
  BY <1>2, <1>7, <1>8, <1>9, KeepsMarksTrans, SameReadHandles DEF Inv, Good
<1>11. VolumeInv'
  BY <1>6, <1>8, <1>9 DEF Inv, VolumeInv
<1> QED  BY <1>9, <1>10, <1>11 DEF Inv, WriteInv

LEMMA NextWritePosType ==
  ASSUME wpos \in Blocks, lap1 \in BOOLEAN
  PROVE  NextWritePos \in Blocks /\ NextLap1 \in BOOLEAN
BY SizesAssumption DEF Blocks, NextWritePos, NextLap1

LEMMA BlockMetaType ==
  ASSUME Good(tbl, blk, wpos)
  PROVE  BlockMeta \in [ok: BOOLEAN, ent: SUBSET Entry] /\ WellFormed(BlockMeta.ent)
<1>1. blk \in Seq(Frag) /\ Len(blk) \in Nat /\ Len(blk) <= Slots /\ Distinct(blk)
  BY LenProperties DEF Good
<1>2. \A i \in 1..Len(blk) : i \in 1..Slots /\ blk[i].p \in Piece
  <2> TAKE i \in 1..Len(blk)
  <2>1. blk[i] \in Frag
    BY <1>1, ElementOfSeq
  <2>2. i \in 1..Slots
    BY <1>1, SizesAssumption
  <2> QED  BY <2>1, <2>2 DEF Frag
<1> DEFINE ent == {[p |-> blk[i].p, slot |-> i] : i \in 1..Len(blk)}
<1>3. ent \in SUBSET Entry
  BY <1>2 DEF Entry
<1>4. WellFormed(ent)
  BY <1>1 DEF WellFormed, Distinct
<1> QED  BY <1>3, <1>4 DEF BlockMeta

\* A flush, complete or not, leaves well-formed areas on the volume.
LEMMA FlushedType ==
  ASSUME Good(tbl, blk, wpos), VolumeInv, NEW done \in SUBSET (1..Len(blk)),
         NEW meta \in {dmd[wpos], BlockMeta, [ok |-> FALSE, ent |-> {}]},
         Flushed(done, meta)
  PROVE  /\ dsk' \in [Blocks -> [1..Slots -> Frag \cup {Blank}]]
         /\ dmd' \in [Blocks -> [ok: BOOLEAN, ent: SUBSET Entry]]
         /\ \A b \in Blocks : WellFormed(dmd'[b].ent)
<1>1. wpos \in Blocks
  BY DEF Good
<1>2. meta \in [ok: BOOLEAN, ent: SUBSET Entry] /\ WellFormed(meta.ent)
  <2>1. CASE meta = dmd[wpos]
    BY <1>1, <2>1 DEF VolumeInv
  <2>2. CASE meta = BlockMeta
    BY <2>2, BlockMetaType
  <2>3. CASE meta = [ok |-> FALSE, ent |-> {}]
    BY <2>3 DEF WellFormed
  <2> QED  BY <2>1, <2>2, <2>3
<1>3. dmd' = [dmd EXCEPT ![wpos] = meta]
  BY DEF Flushed
<1>4. /\ dmd' \in [Blocks -> [ok: BOOLEAN, ent: SUBSET Entry]]
      /\ \A b \in Blocks : WellFormed(dmd'[b].ent)
  BY <1>1, <1>2, <1>3 DEF VolumeInv
<1> DEFINE area == [s \in 1..Slots |-> IF s \in done THEN blk[s] ELSE dsk[wpos][s]]
<1>5. area \in [1..Slots -> Frag \cup {Blank}]
  <2>1. \A s \in done : blk[s] \in Frag
    BY ElementOfSeq DEF Good
  <2> QED  BY <1>1, <2>1, ZenonT(60) DEF VolumeInv
<1>6. dsk' = [dsk EXCEPT ![wpos] = area]
  BY DEF Flushed
<1>7. dsk' \in [Blocks -> [1..Slots -> Frag \cup {Blank}]]
  <2> HIDE DEF area
  <2> QED  BY <1>1, <1>5, <1>6 DEF VolumeInv
<1> QED  BY <1>4, <1>7

LEMMA OnFlushDoneInv ==
  ASSUME Inv, OnFlushDone
  PROVE  Inv' /\ Kept
<1>1. Good(tbl, blk, wpos) /\ wpos \in Blocks /\ tbl \in Table
  BY DEF Inv, ReadInv, Good
<1>2. PICK done \in SUBSET (1..Len(blk)),
           meta \in {dmd[wpos], BlockMeta, [ok |-> FALSE, ent |-> {}]} :
        Flushed(done, meta)
  BY DEF OnFlushDone
<1>3. /\ dsk' \in [Blocks -> [1..Slots -> Frag \cup {Blank}]]
      /\ dmd' \in [Blocks -> [ok: BOOLEAN, ent: SUBSET Entry]]
      /\ \A b \in Blocks : WellFormed(dmd'[b].ent)
  BY <1>1, <1>2, FlushedType DEF Inv
<1>4. /\ wpos' = NextWritePos /\ wpos' \in Blocks
      /\ lap1' = NextLap1 /\ lap1' \in BOOLEAN
      /\ evac' = {} /\ rh' = rh /\ wh' = wh /\ gen' = gen
      /\ pd \in Frag \cup {None}
  BY <1>1, NextWritePosType DEF OnFlushDone, Inv, VolumeInv
<1> DEFINE t == CommitDiskWrite(tbl, blk)
<1>5. Good(t, <<>>, wpos') /\ KeepsMarks(tbl, t) /\ t \in Table
  <2>1. Good(t, <<>>, wpos') /\ KeepsMarks(tbl, t)
    BY <1>1, <1>4, CommitDiskWriteGood
  <2> QED  BY <2>1 DEF Good
<1>6. CASE lap1'
  <2>1. WritePendData(t, <<>>, wpos')
    BY <1>6 DEF OnFlushDone
  <2>2. /\ Good(tbl', blk', wpos') /\ KeepsMarks(t, tbl')
        /\ pd' \in Frag \cup {None} /\ aw' \in {"wait_write", "flush1"}
    <3> HIDE DEF t
    <3> QED  BY <1>4, <1>5, <2>1, WritePendDataGood
  <2>3. ReadInv' /\ Kept
    BY <1>1, <1>4, <1>5, <2>2, KeepsMarksTrans, SameReadHandles DEF Inv, Good
  <2>4. VolumeInv'
    BY <1>3, <1>4, <2>2 DEF VolumeInv, WellFormed
  <2> QED  BY <1>4, <2>3, <2>4 DEF Inv, WriteInv
<1>7. CASE ~lap1'
  <2>1. tbl' = t /\ blk' = <<>> /\ pd' = pd /\ aw' = "md_read1"
    BY <1>7 DEF OnFlushDone, EnqueueAio
  <2>2. ReadInv' /\ Kept
    BY <1>4, <1>5, <2>1, SameReadHandles DEF Inv
  <2>3. VolumeInv'
    BY <1>3, <1>4, <2>1 DEF VolumeInv, WellFormed
  <2> QED  BY <1>4, <2>2, <2>3 DEF Inv, WriteInv
<1> QED  BY <1>6, <1>7

LEMMA BeginIoOpInv ==
  ASSUME Inv, BeginIoOp
  PROVE  Inv' /\ Kept
<1>1. /\ tbl' = tbl /\ blk' = blk /\ wpos' = wpos /\ rh' = rh /\ lap1' = lap1
      /\ dsk' = dsk /\ dmd' = dmd /\ evac' = evac /\ pd' = pd
      /\ wh' = wh /\ gen' = gen
      /\ \/ aw = "md_read1" /\ aw' = "md_read2"
         \/ aw = "evac1" /\ aw' = "evac2"
         \/ aw' = "flush2"
  BY DEF BeginIoOp
<1>2. ReadInv' /\ Kept
  BY <1>1, KeepsMarksRefl, SameReadHandles DEF Inv, ReadInv, Good
<1>3. VolumeInv'
  BY <1>1 DEF Inv, VolumeInv
<1> QED  BY <1>1, <1>2, <1>3 DEF Inv, WriteInv

-----------------------------------------------------------------------------
(* The steps of the write handles.                                         *)

LEMMA WriteHandleChange ==
  ASSUME WriteInv, NEW w \in WriteHandles, NEW h \in WriteHandle,
         h.pc = "queued" => h.cur <= h.hi, wh' = [wh EXCEPT ![w] = h], gen' = gen
  PROVE  WriteInv'
BY DEF WriteInv

\* A step of a write handle that leaves table, block and agg_writer alone.
LEMMA WriteHandleInv ==
  ASSUME Inv, NEW w \in WriteHandles, NEW h \in WriteHandle,
         h.pc = "queued" => h.cur <= h.hi, wh' = [wh EXCEPT ![w] = h],
         tbl' = tbl /\ blk' = blk /\ wpos' = wpos /\ rh' = rh /\ lap1' = lap1,
         dsk' = dsk /\ dmd' = dmd /\ evac' = evac /\ pd' = pd /\ aw' = aw,
         gen' = gen
  PROVE  Inv' /\ Kept
<1>1. ReadInv' /\ Kept
  BY KeepsMarksRefl, SameReadHandles DEF Inv, ReadInv, Good
<1>2. VolumeInv'
  BY DEF Inv, VolumeInv
<1>3. WriteInv'
  BY WriteHandleChange DEF Inv
<1> QED  BY <1>1, <1>2, <1>3 DEF Inv

LEMMA OpenWriteInv ==
  ASSUME Inv, NEW w \in WriteHandles, NEW k \in Keys, OpenWrite(w, k)
  PROVE  Inv' /\ Kept
<1>1. PICK lo \in Absent(k), hi \in Absent(k) :
        wh' = [wh EXCEPT ![w] = [pc |-> "open", k |-> k, cur |-> lo,
                                 hi |-> hi, val |-> gen[k]]]
  BY DEF OpenWrite
<1> DEFINE h == [pc |-> "open", k |-> k, cur |-> lo, hi |-> hi, val |-> gen[k]]
<1>2. lo \in 1..(NFrags + 1) /\ hi \in 1..NFrags /\ gen[k] \in Gen
  BY SizesAssumption DEF Absent, Inv, WriteInv
<1>3. h \in WriteHandle /\ h.pc # "queued"
  BY <1>2 DEF WriteHandle
<1> QED
  <2> HIDE DEF h
  <2> QED  BY <1>1, <1>3, WriteHandleInv DEF OpenWrite, h

LEMMA OpenTruncateInv ==
  ASSUME Inv, NEW w \in WriteHandles, NEW k \in Keys, OpenTruncate(w, k)
  PROVE  Inv' /\ Kept
<1>1. /\ tbl' = [p \in Piece |-> IF p \in PiecesOf(k) THEN None ELSE tbl[p]]
      /\ PiecesOf(k) \cap Marked(tbl) = {}
      /\ blk' = blk /\ wpos' = wpos /\ rh' = rh /\ lap1' = lap1 /\ dsk' = dsk
      /\ dmd' = dmd /\ evac' = evac /\ pd' = pd /\ aw' = aw
      /\ gen' = [gen EXCEPT ![k] = (gen[k] + 1) % NGens]
      /\ wh' = [wh EXCEPT ![w] = [pc |-> "open", k |-> k, cur |-> 1,
                                  hi |-> NFrags, val |-> gen'[k]]]
  BY DEF OpenTruncate
<1>2. Good(tbl, blk, wpos) /\ tbl \in Table /\ gen \in [Keys -> Gen]
  BY DEF Inv, ReadInv, WriteInv, Good
<1>3. tbl' \in Table
  BY <1>1, <1>2 DEF Table
<1>4. InBlock(tbl', blk, wpos)
  BY <1>1, <1>2 DEF InBlock, Good
<1>5. KeepsMarks(tbl, tbl')
  <2>1. KeepsMarks(tbl, tbl)
    BY <1>2, KeepsMarksRefl
  <2>2. ASSUME NEW p \in Piece, p \in PiecesOf(k)
        PROVE  tbl'[p] = None /\ ~(tbl[p] # None /\ tbl[p].rd > 0)
    BY <1>1, <2>2 DEF Marked, Present
  <2>3. ASSUME NEW p \in Piece, p \notin PiecesOf(k)
        PROVE  tbl'[p] = tbl[p]
    BY <1>1, <2>3
  <2> QED  BY <2>1, <2>2, <2>3 DEF KeepsMarks
<1>6. ReadInv' /\ Kept
  BY <1>1, <1>2, <1>3, <1>4, <1>5, SameReadHandles DEF Inv, Good
<1>7. VolumeInv'
  BY <1>1 DEF Inv, VolumeInv
<1>8. (gen[k] + 1) % NGens \in Gen
  BY <1>2, SizesAssumption DEF Gen
<1>9. gen' \in [Keys -> Gen] /\ gen'[k] \in Gen
  BY <1>1, <1>2, <1>8
<1> DEFINE h == [pc |-> "open", k |-> k, cur |-> 1, hi |-> NFrags, val |-> gen'[k]]
<1>10. h \in WriteHandle /\ h.pc # "queued"
  BY <1>9, SizesAssumption DEF WriteHandle
<1>11. WriteInv'
  <2> HIDE DEF h
  <2>1. wh' = [wh EXCEPT ![w] = h]
    BY <1>1 DEF h
  <2> QED  BY <1>9, <1>10, <2>1 DEF Inv, WriteInv
<1> QED  BY <1>6, <1>7, <1>11 DEF Inv

LEMMA AsyncWriteInv ==
  ASSUME Inv, NEW w \in WriteHandles, AsyncWrite(w)
  PROVE  Inv' /\ Kept
<1> DEFINE h == [wh[w] EXCEPT !.pc = "queued"]
<1>1. wh[w] \in WriteHandle /\ wh[w].cur <= wh[w].hi /\ wh' = [wh EXCEPT ![w] = h]
  BY DEF AsyncWrite, Inv, WriteInv
<1>2. h \in WriteHandle /\ h.cur <= h.hi
  BY <1>1 DEF WriteHandle
<1> QED
  <2> HIDE DEF h
  <2> QED  BY <1>1, <1>2, WriteHandleInv DEF AsyncWrite

LEMMA AsyncCloseWriteInv ==
  ASSUME Inv, NEW w \in WriteHandles, AsyncCloseWrite(w)
  PROVE  Inv' /\ Kept
<1> DEFINE h == [wh[w] EXCEPT !.pc = "closing"]
<1>1. wh[w] \in WriteHandle /\ wh' = [wh EXCEPT ![w] = h]
  BY DEF AsyncCloseWrite, Inv, WriteInv
<1>2. h \in WriteHandle /\ h.pc # "queued"
  BY <1>1 DEF WriteHandle
<1> QED
  <2> HIDE DEF h
  <2> QED  BY <1>1, <1>2, WriteHandleInv DEF AsyncCloseWrite

LEMMA WritePieceType ==
  ASSUME Inv, NEW w \in WriteHandles, wh[w] # None, wh[w].cur <= wh[w].hi
  PROVE  /\ wh[w] \in WriteHandle /\ WritePiece(w) \in Piece /\ wh[w].val \in Gen
         /\ wh[w].cur + 1 \in 1..(NFrags + 1)
<1>1. wh[w] \in WriteHandle
  BY DEF Inv, WriteInv
<1>2. wh[w].cur \in 1..NFrags
  BY <1>1, SizesAssumption DEF WriteHandle
<1> QED  BY <1>1, <1>2, SizesAssumption DEF WriteHandle, WritePiece, Piece

\* Only one write handle runs at a time, and only in state wait_write.
LEMMA ExecWriteInv ==
  ASSUME Inv, QueueInv, NEW w \in WriteHandles, wh[w] # None, ExecWrite(w)
  PROVE  Inv' /\ Kept
<1> DEFINE res == AddNewFragment(tbl, blk, wpos, WritePiece(w), wh[w].val)
<1>1. wh[w].cur <= wh[w].hi /\ wh[w].pc = "queued"
  BY DEF Inv, WriteInv, ExecWrite
<1>2. /\ wh[w] \in WriteHandle /\ WritePiece(w) \in Piece /\ wh[w].val \in Gen
      /\ wh[w].cur + 1 \in 1..(NFrags + 1)
  BY <1>1, WritePieceType
<1>3. Good(res.t, res.b, wpos) /\ KeepsMarks(tbl, res.t)
  BY <1>2, AddNewFragmentGood DEF Inv, ReadInv
<1>4. /\ tbl' = res.t /\ blk' = res.b /\ wpos' = wpos /\ lap1' = lap1
      /\ dsk' = dsk /\ dmd' = dmd /\ evac' = evac /\ pd' = pd /\ rh' = rh
      /\ gen' = gen
      /\ aw = "wait_write" /\ aw' \in {"wait_write", "flush1"}
  BY HandleTurn DEF ExecWrite, EnqueueAio
<1>5. ReadInv' /\ Kept
  <2> HIDE DEF res
  <2> QED  BY <1>3, <1>4, SameReadHandles DEF Inv
<1>6. VolumeInv'
  <2> HIDE DEF res
  <2> QED  BY <1>4 DEF Inv, VolumeInv
<1>7. gen' = gen
  BY DEF ExecWrite
<1>8. WriteInv'
  <2>1. CASE wh' = [wh EXCEPT ![w].pc = "open", ![w].cur = @ + 1]
    <3> DEFINE h == [wh[w] EXCEPT !.pc = "open", !.cur = wh[w].cur + 1]
    <3>1. h \in WriteHandle /\ h.pc # "queued" /\ wh' = [wh EXCEPT ![w] = h]
      BY <1>2, <2>1 DEF WriteHandle, Inv, WriteInv
    <3> HIDE DEF h
    <3> QED  BY <1>7, <3>1, WriteHandleChange DEF Inv
  <2>2. CASE wh' = [wh EXCEPT ![w].pc = "open"]
    <3> DEFINE h == [wh[w] EXCEPT !.pc = "open"]
    <3>1. h \in WriteHandle /\ h.pc # "queued" /\ wh' = [wh EXCEPT ![w] = h]
      BY <1>2, <2>2 DEF WriteHandle, Inv, WriteInv
    <3> HIDE DEF h
    <3> QED  BY <1>7, <3>1, WriteHandleChange DEF Inv
  <2>3. CASE wh' = wh
    BY <1>7, <2>3 DEF Inv, WriteInv
  <2> QED  BY <2>1, <2>2, <2>3 DEF ExecWrite
<1> QED  BY <1>5, <1>6, <1>8 DEF Inv

LEMMA ExecCloseInv ==
  ASSUME Inv, QueueInv, NEW w \in WriteHandles, wh[w] # None, ExecClose(w)
  PROVE  Inv' /\ Kept
<1> DEFINE res == AddNewFragment(tbl, blk, wpos, WritePiece(w), wh[w].val)
<1>1. /\ wpos' = wpos /\ lap1' = lap1 /\ dsk' = dsk /\ dmd' = dmd /\ evac' = evac
      /\ rh' = rh /\ gen' = gen /\ wh' = [wh EXCEPT ![w] = None]
      /\ aw = "wait_write" /\ aw' \in {"wait_write", "flush1"}
  BY HandleTurn DEF ExecClose, EnqueueAio
<1>2. /\ Good(tbl', blk', wpos) /\ KeepsMarks(tbl, tbl')
      /\ pd' \in Frag \cup {None}
  <2>1. CASE UNCHANGED <<tbl, blk, aw, pd>>
    BY <2>1, KeepsMarksRefl DEF Inv, ReadInv, VolumeInv, Good
  <2>2. CASE /\ wh[w].cur <= wh[w].hi /\ tbl' = res.t /\ blk' = res.b
             /\ pd' = pd \/ pd' = [p |-> WritePiece(w), val |-> wh[w].val]
    <3>1. WritePiece(w) \in Piece /\ wh[w].val \in Gen
      BY <2>2, WritePieceType
    <3>2. Good(res.t, res.b, wpos) /\ KeepsMarks(tbl, res.t)
      BY <3>1, AddNewFragmentGood DEF Inv, ReadInv
    <3>3. pd' \in Frag \cup {None}
      BY <2>2, <3>1 DEF Frag, Inv, VolumeInv
    <3> QED  BY <2>2, <3>2, <3>3
  <2> QED  BY <2>1, <2>2 DEF ExecClose
<1>3. ReadInv' /\ Kept
  BY <1>1, <1>2, SameReadHandles DEF Inv
<1>4. VolumeInv'
  BY <1>1, <1>2 DEF Inv, VolumeInv
<1>5. WriteInv'
  BY <1>1 DEF Inv, WriteInv
<1> QED  BY <1>3, <1>4, <1>5 DEF Inv

\* A step after which w waits in the queue, or does not, and the others as before.
LEMMA OneHandleQueued ==
  ASSUME QueuedOnce, NEW w \in WriteHandles, Once(wq'),
         \A x \in WriteHandles \ {w} : Has(wq', x) <=> Has(wq, x),
         \A x \in WriteHandles \ {w} : wh'[x] = wh[x],
         Has(wq', w) <=> wh'[w] # None /\ wh'[w].pc \in {"queued", "closing"}
  PROVE  QueuedOnce'
BY DEF QueuedOnce

LEMMA WriteKeepsOnce ==
  ASSUME WriteInv, QueueInv, QueuedOnce, NEW w \in WriteHandles, WriteStep(w)
  PROVE  QueuedOnce'
<1>0. wh \in [WriteHandles -> WriteHandle \cup {None}] /\ wq \in Seq(Task)
  BY DEF WriteInv, QueueInv
<1>1. ASSUME NEW k \in Keys, OpenWrite(w, k) \/ OpenTruncate(w, k)
      PROVE  QueuedOnce'
  <2>1. PICK h : wh' = [wh EXCEPT ![w] = h] /\ h.pc = "open" /\ wh[w] = None /\ wq' = wq
    <3>1. CASE OpenWrite(w, k)
      BY <3>1 DEF OpenWrite
    <3>2. CASE OpenTruncate(w, k)
      BY <3>2 DEF OpenTruncate
    <3> QED  BY <1>1, <3>1, <3>2
  <2>2. wh'[w].pc = "open" /\ \A x \in WriteHandles \ {w} : wh'[x] = wh[x]
    BY <1>0, <2>1
  <2> QED  BY <2>1, <2>2, OneHandleQueued DEF QueuedOnce
<1>2. CASE AsyncWrite(w) \/ (AsyncCloseWrite(w) /\ wh[w].pc = "open")
  <2>1. /\ wh[w] # None /\ wh[w].pc = "open" /\ wq' = Append(wq, w)
        /\ \/ wh' = [wh EXCEPT ![w].pc = "queued"]
           \/ wh' = [wh EXCEPT ![w].pc = "closing"]
    BY <1>2 DEF AsyncWrite, AsyncCloseWrite
  <2>2. /\ wh'[w] \in WriteHandle /\ wh'[w].pc \in {"queued", "closing"}
        /\ \A x \in WriteHandles \ {w} : wh'[x] = wh[x]
    BY <1>0, <2>1 DEF WriteHandle
  <2>3. Once(wq') /\ \A x : Has(wq', x) <=> Has(wq, x) \/ x = w
    BY <1>0, <2>1, BackOnce DEF QueuedOnce
  <2> QED  BY <2>2, <2>3, NoneAssumption, OneHandleQueued
<1>3. CASE AsyncCloseWrite(w) /\ wh[w].pc # "open"
  <2>1. /\ wh[w] # None /\ wh[w].pc = "queued" /\ wq' = wq
        /\ wh' = [wh EXCEPT ![w].pc = "closing"]
    BY <1>3 DEF AsyncCloseWrite
  <2>2. /\ wh'[w] \in WriteHandle /\ wh'[w].pc = "closing"
        /\ \A x \in WriteHandles \ {w} : wh'[x] = wh[x]
    BY <1>0, <2>1 DEF WriteHandle
  <2> QED  BY <2>1, <2>2, NoneAssumption, OneHandleQueued DEF QueuedOnce
<1>4. CASE ExecWrite(w)
  <2>1. /\ ~WriterBusy /\ wq # <<>> /\ Head(wq) = w /\ wh[w].pc = "queued"
        /\ \/ /\ wq' = Tail(wq) \/ EnqueueAio(Tail(wq), "flush1")
              /\ \/ wh' = [wh EXCEPT ![w].pc = "open", ![w].cur = @ + 1]
                 \/ wh' = [wh EXCEPT ![w].pc = "open"]
           \/ EnqueueAio(Append(Tail(wq), w), "flush1") /\ wh' = wh
    BY <1>4 DEF ExecWrite
  <2>2. /\ Once(wq') /\ \A x \in WriteHandles \ {w} : Has(wq', x) <=> Has(wq, x)
        /\ wq' = Tail(wq) \/ EnqueueAio(Tail(wq), "flush1") => ~Has(wq', w)
        /\ EnqueueAio(Append(Tail(wq), w), "flush1") => Has(wq', w)
        /\ Has(wq, w)
    BY <2>1, ExecQueue
  <2>3. CASE EnqueueAio(Append(Tail(wq), w), "flush1") /\ wh' = wh
    BY <2>2, <2>3, OneHandleQueued DEF QueuedOnce
  <2>4. CASE /\ wq' = Tail(wq) \/ EnqueueAio(Tail(wq), "flush1")
             /\ \/ wh' = [wh EXCEPT ![w].pc = "open", ![w].cur = @ + 1]
                \/ wh' = [wh EXCEPT ![w].pc = "open"]
    <3>1. wh[w] # None /\ wh[w] \in WriteHandle
      BY <1>0, <2>2 DEF QueuedOnce
    <3>2. wh'[w].pc = "open" /\ \A x \in WriteHandles \ {w} : wh'[x] = wh[x]
      BY <1>0, <2>4, <3>1 DEF WriteHandle
    <3> QED  BY <2>2, <2>4, <3>2, OneHandleQueued
  <2> QED  BY <2>1, <2>3, <2>4
<1>5. CASE ExecClose(w)
  <2>1. /\ ~WriterBusy /\ wq # <<>> /\ Head(wq) = w
        /\ wq' = Tail(wq) \/ EnqueueAio(Tail(wq), "flush1")
        /\ wh' = [wh EXCEPT ![w] = None]
    BY <1>5 DEF ExecClose
  <2>2. /\ Once(wq') /\ \A x \in WriteHandles \ {w} : Has(wq', x) <=> Has(wq, x)
        /\ ~Has(wq', w)
    BY <2>1, ExecQueue
  <2>3. wh'[w] = None /\ \A x \in WriteHandles \ {w} : wh'[x] = wh[x]
    BY <1>0, <2>1
  <2> QED  BY <2>2, <2>3, OneHandleQueued
<1> QED  BY <1>1, <1>2, <1>3, <1>4, <1>5 DEF WriteStep

\* A handle that has its turn is open.
LEMMA QueuedIsOpen ==
  ASSUME QueueInv, QueuedOnce, NEW w \in WriteHandles, wq # <<>>, Head(wq) = w
  PROVE  wh[w] # None
<1>1. Has(wq, w)
  BY EmptySeq DEF QueueInv, Has
<1> QED  BY <1>1 DEF QueuedOnce

-----------------------------------------------------------------------------
(* The theorems.                                                           *)

AllInv == QueueInv /\ QueuedOnce /\ Inv

LEMMA InitInv ==
  ASSUME Init
  PROVE  AllInv
<1>1. /\ tbl = [p \in Piece |-> None] /\ wpos = 0 /\ lap1 = TRUE /\ blk = <<>>
      /\ dsk  = [b \in Blocks |-> [s \in 1..Slots |-> Blank]]
      /\ dmd  = [b \in Blocks |-> [ok |-> FALSE, ent |-> {}]]
      /\ aw   = "wait_write" /\ evac = {} /\ pd = None /\ wq = <<>>
      /\ rh   = [r \in ReadHandles |-> None]
      /\ wh   = [w \in WriteHandles |-> None]
      /\ gen  = [k \in Keys |-> 0]
  BY DEF Init
<1>2. /\ wq \in Seq(Task) /\ Len(wq) = 0
      /\ blk \in Seq(Frag) /\ Len(blk) = 0
  BY <1>1, EmptySeq
<1>3. QueueInv /\ QueuedOnce
  BY <1>1, <1>2 DEF QueueInv, AwStates, Waiting, QueuedOnce, Once, Has
<1>4. Good(tbl, blk, wpos)
  BY <1>1, <1>2, SizesAssumption DEF Good, Table, Blocks, Distinct, InBlock
<1>5. ReadersExact
  BY <1>1 DEF ReadersExact, ReadersOf
<1>6. ReadInv
  BY <1>1, <1>4, <1>5 DEF ReadInv
<1>7. VolumeInv
  BY <1>1 DEF VolumeInv, WellFormed
<1>8. WriteInv
  BY <1>1, SizesAssumption DEF WriteInv, Gen
<1> QED  BY <1>3, <1>6, <1>7, <1>8 DEF AllInv, Inv

LEMMA NextInv ==
  ASSUME AllInv, Next
  PROVE  AllInv' /\ Kept
<1> USE DEF AllInv
<1>1. CASE AggWriterStep
  <2>1. QueueInv' /\ QueuedOnce'
    BY <1>1, AggWriterKeepsQueue, AggWriterKeepsOnce
  <2>2. Inv' /\ Kept
    BY <1>1, BeginIoOpInv, OnMdReadInv, OnEvacDoneInv, OnFlushDoneInv
    DEF AggWriterStep
  <2> QED  BY <2>1, <2>2
<1>2. ASSUME NEW w \in WriteHandles, WriteStep(w)
      PROVE  AllInv' /\ Kept
  <2>1. QueueInv' /\ QueuedOnce'
    BY <1>2, WriteKeepsQueue, WriteKeepsOnce DEF Inv
  <2>2. CASE ExecWrite(w) \/ ExecClose(w)
    <3>1. wh[w] # None
      BY <2>2, QueuedIsOpen DEF ExecWrite, ExecClose
    <3> QED  BY <2>1, <2>2, <3>1, ExecWriteInv, ExecCloseInv
  <2>3. CASE ~(ExecWrite(w) \/ ExecClose(w))
    <3>1. Inv' /\ Kept
      BY <1>2, <2>3, OpenWriteInv, OpenTruncateInv, AsyncWriteInv, AsyncCloseWriteInv
      DEF WriteStep
    <3> QED  BY <2>1, <3>1
  <2> QED  BY <2>2, <2>3
<1>3. ASSUME NEW r \in ReadHandles, ReadStep(r)
      PROVE  AllInv' /\ Kept
  <2>1. /\ wq' = wq /\ aw' = aw /\ pd' = pd /\ wh' = wh /\ lap1' = lap1 /\ blk' = blk
        /\ dsk' = dsk /\ dmd' = dmd /\ evac' = evac /\ gen' = gen
    BY <1>3 DEF ReadStep, OpenRead, FindElem, TryReadMem, BeginDiskRead, EndDiskRead,
                CloseRead
  <2>2. QueueInv' /\ QueuedOnce'
    BY <2>1 DEF QueueInv, QueuedOnce
  <2>3. ReadInv' /\ Kept
    BY <1>3, ReadStepInv DEF Inv
  <2>4. VolumeInv' /\ WriteInv'
    BY <2>1 DEF Inv, VolumeInv, WriteInv
  <2> QED  BY <2>2, <2>3, <2>4 DEF Inv
<1> QED  BY <1>1, <1>2, <1>3 DEF Next

THEOREM Invariance == Spec => []AllInv
<1>1. AllInv /\ [Next]_vars => AllInv'
  <2> SUFFICES ASSUME AllInv, [Next]_vars PROVE AllInv'
    OBVIOUS
  <2>1. CASE UNCHANGED vars
    <3>1. ReadInv'
      BY <2>1, KeepsMarksRefl, SameReadHandles DEF AllInv, Inv, ReadInv, Good, vars
    <3> QED  BY <2>1, <3>1
             DEF AllInv, Inv, VolumeInv, WriteInv, QueueInv, QueuedOnce, vars
  <2>2. CASE Next
    BY <2>2, NextInv
  <2> QED  BY <2>1, <2>2
<1> QED  BY <1>1, InitInv, PTL DEF Spec

\* Every variable keeps its range: in particular no readers count leaves
\* 0..MaxReaders and no fragment is given a place outside of a block.
THEOREM TypeCorrect == Spec => []TypeOK
<1>1. AllInv => TypeOK
  BY DEF AllInv, Inv, ReadInv, VolumeInv, WriteInv, QueueInv, Good, TypeOK
<1> QED  BY <1>1, Invariance, PTL

\* The readers counts of the table are the open read transactions, whatever
\* writers, evacuation, truncation and disk errors do in between.
THEOREM ReadersAlwaysExact == Spec => []ReadersExact
<1>1. AllInv => ReadersExact
  BY DEF AllInv, Inv, ReadInv
<1> QED  BY <1>1, Invariance, PTL

\* An element that is flagged in_memory is found in the block.
THEOREM InMemoryFound == Spec => []InMemoryIsInBlock
<1>1. AllInv => InMemoryIsInBlock
  <2> SUFFICES ASSUME AllInv, NEW p \in Present(tbl), tbl[p].mem
               PROVE  HasEntry(p, tbl[p].off)
    BY DEF InMemoryIsInBlock
  <2>1. p \in Piece /\ tbl[p] # None /\ InBlock(tbl, blk, wpos)
    BY DEF Present, AllInv, Inv, ReadInv, Good
  <2> QED  BY <2>1 DEF InBlock, HasEntry
<1> QED  BY <1>1, Invariance, PTL

\* Evacuated fragments always have room in the block.
THEOREM EvacuationAlwaysFits == Spec => []EvacuationFits
<1>1. AllInv => EvacuationFits
  BY DEF AllInv, Inv, VolumeInv, FitsWith, EvacuationFits
<1> QED  BY <1>1, Invariance, PTL

\* No step takes an element away from its readers or changes what it stands
\* for.
THEOREM MarkedAlwaysKept == Spec => MarkedKept
<1>1. AllInv /\ [Next]_vars => [Kept]_vars
  BY NextInv
<1> QED  BY <1>1, Invariance, PTL DEF Spec, MarkedKept, Kept

-----------------------------------------------------------------------------
(* Where the fragments are on the volume.  As long as no disk operation    *)
(* fails, an element that is not in memory points to an area that holds    *)
(* its fragment and that the metadata of its block name; in the block that *)
(* is written next such an element is left only until it is evacuated.     *)

EntryOf(p, e) == [p |-> p, slot |-> e.off[2]]

PlacedAt(p, e) ==
  /\ dsk[e.off[1]][e.off[2]].p = p
  /\ dmd[e.off[1]].ok /\ EntryOf(p, e) \in dmd[e.off[1]].ent
  /\ lap1 => e.off[1] < wpos
  /\ aw \notin {"md_read1", "md_read2"} /\ e.off[1] = wpos => EntryOf(p, e) \in evac

OnVolume(t, p) == t[p] # None /\ ~t[p].mem

Placed == \A p \in Piece : OnVolume(tbl, p) => PlacedAt(p, tbl[p])

PlaceInv == /\ Placed
            /\ aw \in {"wait_write", "flush1", "flush2"} => evac = {}

\* Nothing comes to the volume, and nothing moves there.
NoneArrives(t, u) ==
  \A p \in Piece : OnVolume(u, p) => OnVolume(t, p) /\ u[p].off = t[p].off

\* A step without a flush and without the end of a metadata read.
LEMMA StaysPlaced ==
  ASSUME PlaceInv, NoneArrives(tbl, tbl'),
         wpos' = wpos, lap1' = lap1, dsk' = dsk, dmd' = dmd, evac' = evac,
         \/ aw' = aw
         \/ aw = "md_read1" /\ aw' = "md_read2"
         \/ aw = "evac1" /\ aw' = "evac2"
         \/ aw \in {"wait_write", "flush1"} /\ aw' \in {"flush1", "flush2"}
  PROVE  PlaceInv'
<1>1. aw' \in {"wait_write", "flush1", "flush2"} => evac' = {}
  BY DEF PlaceInv
<1>2. ASSUME NEW p \in Piece, OnVolume(tbl', p)
      PROVE  PlacedAt(p, tbl[p])'
  <2>1. PlacedAt(p, tbl[p]) /\ tbl'[p].off = tbl[p].off
    BY <1>2 DEF NoneArrives, PlaceInv, Placed
  <2> QED  BY <2>1 DEF PlacedAt, EntryOf
<1> QED  BY <1>1, <1>2 DEF PlaceInv, Placed, OnVolume

LEMMA AddNewFragmentArrives ==
  ASSUME NEW t \in Table, NEW b, NEW w, NEW p \in Piece, NEW v
  PROVE  NoneArrives(t, AddNewFragment(t, b, w, p, v).t)
<1> DEFINE re == [off |-> <<w, Len(b) + 1>>, mem |-> TRUE, rd |-> 0, val |-> v]
           u  == AddNewFragment(t, b, w, p, v).t
<1>1. u = t \/ u = [t EXCEPT ![p] = re]
  BY DEF AddNewFragment
<1>2. re.mem
  OBVIOUS
<1>3. NoneArrives(t, u)
  <2> HIDE DEF re, u
  <2> QED  BY <1>1, <1>2 DEF NoneArrives, OnVolume, Table
<1> QED  BY <1>3

LEMMA WritePendDataArrives ==
  ASSUME NEW t \in Table, NEW b, NEW w, pd \in Frag \cup {None},
         WritePendData(t, b, w)
  PROVE  NoneArrives(t, tbl') /\ aw' \in {"wait_write", "flush1"}
<1>1. CASE pd = None
  BY <1>1 DEF WritePendData, NoneArrives
<1>2. CASE pd # None
  <2>1. pd.p \in Piece
    BY <1>2 DEF Frag
  <2> QED  BY <1>2, <2>1, AddNewFragmentArrives DEF WritePendData, EnqueueAio
<1> QED  BY <1>1, <1>2

LEMMA NextFromWaitNextArrives ==
  ASSUME NEW t \in Table, NEW b, NEW es, pd \in Frag \cup {None},
         NextFromWaitNext(t, b, es)
  PROVE  /\ NoneArrives(t, tbl') /\ evac' = es
         /\ aw' \in {"evac1", "wait_write", "flush1"}
         /\ aw' # "evac1" => es = {}
<1>1. CASE es # {}
  BY <1>1 DEF NextFromWaitNext, EnqueueAio, NoneArrives
<1>2. CASE es = {}
  BY <1>2, WritePendDataArrives DEF NextFromWaitNext
<1> QED  BY <1>1, <1>2

\* What the metadata name and nobody reads leaves the table; what somebody
\* reads is to be evacuated.
LEMMA OnMdReadPlaces ==
  ASSUME Failing = {}, Inv, PlaceInv, OnMdRead
  PROVE  PlaceInv'
<1> DEFINE ent == dmd[wpos].ent
<1>1. /\ tbl \in Table /\ wpos \in Blocks /\ ent \in SUBSET Entry
      /\ pd \in Frag \cup {None} /\ aw = "md_read2" /\ InBlock(tbl, blk, wpos)
      /\ wpos' = wpos /\ lap1' = lap1 /\ dsk' = dsk /\ dmd' = dmd
  BY DEF Inv, ReadInv, VolumeInv, Good, OnMdRead
<1>2. PICK t, es : /\ NextFromWaitNext(t, blk, es)
                   /\ \/ dmd[wpos].ok /\ t = RemNonEvac(tbl, ent) /\ es = ToEvacuate(tbl, ent)
                      \/ ~dmd[wpos].ok /\ t = tbl /\ es = {}
  BY DEF OnMdRead
<1>3. t \in Table /\ NoneArrives(tbl, t)
  <2>1. CASE t = tbl
    BY <1>1, <2>1 DEF NoneArrives
  <2>2. CASE t = RemNonEvac(tbl, ent)
    <3>1. \A p \in Piece : t[p] = tbl[p] \/ t[p] = None
      BY <2>2 DEF RemNonEvac
    <3>2. t \in Table
      <4> HIDE DEF ent
      <4> QED  BY <1>1, <2>2, RemNonEvacGood DEF Inv, ReadInv, Good
    <3> QED  BY <3>1, <3>2 DEF NoneArrives, OnVolume
  <2> QED  BY <1>2, <2>1, <2>2
<1>4. /\ NoneArrives(t, tbl') /\ evac' = es
      /\ aw' \in {"evac1", "wait_write", "flush1"} /\ (aw' # "evac1" => es = {})
  BY <1>1, <1>2, <1>3, NextFromWaitNextArrives
<1>5. ASSUME NEW p \in Piece, OnVolume(tbl', p)
      PROVE  PlacedAt(p, tbl[p])'
  <2>1. OnVolume(t, p) /\ OnVolume(tbl, p) /\ tbl'[p].off = tbl[p].off
    BY <1>3, <1>4, <1>5 DEF NoneArrives
  <2>2. PlacedAt(p, tbl[p])
    BY <2>1 DEF PlaceInv, Placed
  <2>3. tbl[p].off[1] = wpos => EntryOf(p, tbl[p]) \in es
    <3> SUFFICES ASSUME tbl[p].off[1] = wpos PROVE EntryOf(p, tbl[p]) \in es
      OBVIOUS
    <3>1. dmd[wpos].ok /\ EntryOf(p, tbl[p]) \in ent /\ EntryOf(p, tbl[p]).p = p
      BY <2>2 DEF PlacedAt, EntryOf
    <3>2. t = RemNonEvac(tbl, ent) /\ es = ToEvacuate(tbl, ent)
      BY <1>2, <3>1
    <3>3. t[p] # None /\ tbl[p] # None /\ p \in {e.p : e \in ent}
      BY <2>1, <3>1 DEF OnVolume
    <3>4. tbl[p].rd # 0
      <4> HIDE DEF ent
      <4> QED  BY <3>2, <3>3 DEF RemNonEvac
    <3>5. p \in Marked(tbl)
      BY <1>1, <3>3, <3>4, SizesAssumption DEF Marked, Present, Table, Elem
    <3> QED  BY <3>1, <3>2, <3>5 DEF ToEvacuate
  <2> QED  BY <1>1, <1>4, <2>1, <2>2, <2>3 DEF PlacedAt, EntryOf
<1> QED  BY <1>4, <1>5 DEF PlaceInv, Placed, OnVolume

\* An element that waits for its evacuation has its fragment where the entry
\* says, so it is evacuated, and is in memory from then on.
LEMMA OnEvacDonePlaces ==
  ASSUME Failing = {}, Inv, PlaceInv, OnEvacDone
  PROVE  PlaceInv'
<1>1. PICK e \in FirstOf(evac) :
        LET found == dsk[wpos][e.slot] IN
        \/ /\ found.p = e.p
           /\ NextFromWaitNext(AddEvacFragment(tbl, blk, e.p),
                               Append(blk, found), evac \ {e})
        \/ found.p # e.p /\ NextFromWaitNext(tbl, blk, evac \ {e})
  BY DEF OnEvacDone
<1> DEFINE found == dsk[wpos][e.slot]
           es    == evac \ {e}
<1>2. /\ tbl \in Table /\ wpos \in Blocks /\ blk \in Seq(Frag)
      /\ evac \in SUBSET Entry
      /\ pd \in Frag \cup {None} /\ aw = "evac2"
      /\ wpos' = wpos /\ lap1' = lap1 /\ dsk' = dsk /\ dmd' = dmd
  BY DEF Inv, ReadInv, VolumeInv, Good, OnEvacDone
<1>3. e \in evac /\ e.p \in Piece
  BY <1>2 DEF FirstOf, Entry
<1>4. PICK t, b : /\ NextFromWaitNext(t, b, es)
                  /\ \/ found.p = e.p /\ t = AddEvacFragment(tbl, blk, e.p)
                     \/ found.p # e.p /\ t = tbl
  BY <1>1
<1> HIDE DEF found
<1>5. /\ t \in Table /\ NoneArrives(tbl, t)
      /\ found.p = e.p => t[e.p] = None \/ t[e.p].mem
  <2>1. CASE t = tbl /\ (found.p # e.p \/ tbl[e.p] = None)
    BY <1>2, <1>3, <2>1 DEF NoneArrives
  <2>2. CASE /\ tbl[e.p] # None
             /\ t = [tbl EXCEPT ![e.p].mem = TRUE, ![e.p].off = <<wpos, Len(blk) + 1>>]
    <3> DEFINE re == [tbl[e.p] EXCEPT !.mem = TRUE, !.off = <<wpos, Len(blk) + 1>>]
    <3>1. tbl[e.p] \in Elem
      BY <1>2, <1>3, <2>2 DEF Table
    <3>2. re.mem
      BY <3>1 DEF Elem
    <3>3. t = [tbl EXCEPT ![e.p] = re]
      BY <1>2, <1>3, <2>2 DEF Table
    <3>4. t[e.p] = re /\ \A q \in Piece \ {e.p} : t[q] = tbl[q]
      BY <1>2, <1>3, <3>3 DEF Table
    <3>5. NoneArrives(tbl, t)
      <4> HIDE DEF re
      <4> QED  BY <3>2, <3>4 DEF NoneArrives, OnVolume
    <3>6. Len(blk) + 1 \in 1..Slots
      <4>1. FitsWith(blk, evac) /\ WellFormed(evac)
        BY <1>2 DEF Inv, VolumeInv
      <4>2. IsFiniteSet(evac) /\ Cardinality(evac) \in Nat
        BY <1>2, <4>1, EntriesFit
      <4>3. Cardinality(evac) # 0
        BY <1>3, <4>2, FS_EmptySet
      <4> QED  BY <1>2, <4>1, <4>2, <4>3, LenProperties, SizesAssumption DEF FitsWith
    <3>7. re \in Elem
      BY <1>2, <3>1, <3>6 DEF Elem, Offset
    <3>8. t \in Table
      <4> HIDE DEF re
      <4> QED  BY <1>2, <1>3, <3>3, <3>7 DEF Table
    <3> QED  BY <3>2, <3>4, <3>5, <3>8
  <2> QED  BY <1>4, <2>1, <2>2 DEF AddEvacFragment
<1>6. /\ NoneArrives(t, tbl') /\ evac' = es
      /\ aw' \in {"evac1", "wait_write", "flush1"} /\ (aw' # "evac1" => es = {})
  <2> HIDE DEF es
  <2> QED  BY <1>2, <1>4, <1>5, NextFromWaitNextArrives
<1>7. ASSUME NEW p \in Piece, OnVolume(tbl', p)
      PROVE  PlacedAt(p, tbl[p])'
  <2>1. OnVolume(t, p) /\ OnVolume(tbl, p) /\ tbl'[p].off = tbl[p].off
    BY <1>5, <1>6, <1>7 DEF NoneArrives
  <2>2. PlacedAt(p, tbl[p])
    BY <2>1 DEF PlaceInv, Placed
  <2>3. tbl[p].off[1] = wpos => EntryOf(p, tbl[p]) \in es
    <3> SUFFICES ASSUME tbl[p].off[1] = wpos, EntryOf(p, tbl[p]) = e PROVE FALSE
      BY <1>2, <2>2 DEF PlacedAt
    <3>1. e.p = p /\ e.slot = tbl[p].off[2]
      BY DEF EntryOf
    <3>2. found.p = p
      BY <2>2, <3>1 DEF PlacedAt, found
    <3> QED  BY <1>5, <2>1, <3>1, <3>2 DEF OnVolume
  <2> QED  BY <1>2, <1>6, <2>1, <2>2, <2>3 DEF PlacedAt, EntryOf
<1> QED  BY <1>6, <1>7 DEF PlaceInv, Placed, OnVolume

\* The block is written whole, with its metadata; nothing that stays on the
\* volume was in its area.
FlushedAt(p, x) ==
  /\ dsk'[x[1]][x[2]].p = p
  /\ dmd'[x[1]].ok /\ [p |-> p, slot |-> x[2]] \in dmd'[x[1]].ent
  /\ lap1' => x[1] < wpos'

LEMMA FlushedPlaces ==
  ASSUME Inv, PlaceInv, aw = "flush2", Flushed(1..Len(blk), BlockMeta),
         lap1' = NextLap1, wpos' = NextWritePos, NEW p \in Piece,
         OnVolume(CommitDiskWrite(tbl, blk), p)
  PROVE  FlushedAt(p, CommitDiskWrite(tbl, blk)[p].off)
<1> DEFINE e == CommitDiskWrite(tbl, blk)[p]
           area == [s \in 1..Slots |-> IF s \in 1..Len(blk) THEN blk[s] ELSE dsk[wpos][s]]
           o == tbl[p].off
<1>1. /\ wpos \in Blocks /\ blk \in Seq(Frag) /\ Len(blk) \in Nat /\ Len(blk) <= Slots
      /\ InBlock(tbl, blk, wpos)
      /\ dsk \in [Blocks -> [1..Slots -> Frag \cup {Blank}]]
      /\ dmd \in [Blocks -> [ok: BOOLEAN, ent: SUBSET Entry]]
  BY LenProperties DEF Inv, ReadInv, VolumeInv, Good
<1>2. tbl[p] # None /\ tbl[p] \in Elem /\ o \in Offset /\ e.off = o
  <2>1. tbl[p] # None
    BY DEF OnVolume, CommitDiskWrite
  <2>2. tbl[p] \in Elem
    BY <2>1 DEF Inv, ReadInv, Good, Table
  <2>3. e = tbl[p] \/ e = [tbl[p] EXCEPT !.mem = FALSE]
    BY <2>1 DEF CommitDiskWrite
  <2> HIDE DEF e
  <2> QED  BY <2>1, <2>2, <2>3 DEF Elem
<1>3. o[1] \in Blocks /\ o[2] \in 1..Slots
  BY <1>2 DEF Offset
<1>4. dsk' = [dsk EXCEPT ![wpos] = area] /\ dmd' = [dmd EXCEPT ![wpos] = BlockMeta]
  BY DEF Flushed
<1>5. CASE tbl[p].mem
  <2>1. o[1] = wpos /\ o[2] \in 1..Len(blk) /\ blk[o[2]].p = p
    BY <1>1, <1>2, <1>5 DEF InBlock
  <2>2. dsk'[o[1]][o[2]] = blk[o[2]]
    BY <1>1, <1>3, <1>4, <2>1
  <2>3. dmd'[o[1]] = BlockMeta
    BY <1>1, <1>4, <2>1
  <2>4. BlockMeta.ok /\ [p |-> p, slot |-> o[2]] \in BlockMeta.ent
    BY <2>1 DEF BlockMeta
  <2>5. lap1' => o[1] < wpos'
    <3>1. lap1' => wpos' = wpos + 1
      BY DEF NextLap1, NextWritePos
    <3> HIDE DEF o
    <3> QED  BY <1>1, <2>1, <3>1 DEF Blocks
  <2> HIDE DEF e, o
  <2>6. FlushedAt(p, o)
    BY <2>1, <2>2, <2>3, <2>4, <2>5 DEF FlushedAt
  <2>7. FlushedAt(p, e.off)
    BY <1>2, <2>6
  <2> QED  BY <2>7 DEF e
<1>6. CASE ~tbl[p].mem
  <2>1. PlacedAt(p, tbl[p]) /\ evac = {}
    BY <1>2, <1>6 DEF PlaceInv, Placed, OnVolume
  <2>2. o[1] # wpos
    BY <2>1 DEF PlacedAt
  <2>3. dsk'[o[1]] = dsk[o[1]] /\ dmd'[o[1]] = dmd[o[1]]
    <3> HIDE DEF area, o
    <3> QED  BY <1>1, <1>3, <1>4, <2>2
  <2>4. lap1' => o[1] < wpos'
    <3>1. lap1' => lap1 /\ wpos' = wpos + 1
      BY DEF NextLap1, NextWritePos
    <3>2. lap1 => o[1] < wpos
      BY <2>1 DEF PlacedAt
    <3> QED  BY <1>1, <1>3, <3>1, <3>2 DEF Blocks
  <2>5. FlushedAt(p, o)
    BY <2>1, <2>3, <2>4 DEF PlacedAt, EntryOf, FlushedAt
  <2> HIDE DEF e, o
  <2>6. FlushedAt(p, e.off)
    BY <1>2, <2>5
  <2> QED  BY <2>6 DEF e
<1> QED  BY <1>5, <1>6

LEMMA OnFlushDonePlaces ==
  ASSUME Failing = {}, Inv, PlaceInv, OnFlushDone
  PROVE  PlaceInv'
<1> DEFINE t == CommitDiskWrite(tbl, blk)
<1>1. /\ aw = "flush2" /\ Flushed(1..Len(blk), BlockMeta)
      /\ wpos' = NextWritePos /\ lap1' = NextLap1 /\ evac' = {}
      /\ pd \in Frag \cup {None}
  BY DEF OnFlushDone, Inv, VolumeInv
<1>2. t \in Table
  <2>1. Good(tbl, blk, wpos) /\ wpos \in Blocks
    BY DEF Inv, ReadInv, Good
  <2> QED  BY <2>1, CommitDiskWriteGood DEF Good
<1>3. /\ NoneArrives(t, tbl')
      /\ IF lap1' THEN aw' \in {"wait_write", "flush1"} ELSE aw' = "md_read1"
  <2>1. CASE lap1'
    <3>1. WritePendData(t, <<>>, wpos')
      BY <2>1 DEF OnFlushDone
    <3> HIDE DEF t
    <3> QED  BY <1>1, <1>2, <2>1, <3>1, WritePendDataArrives
  <2>2. CASE ~lap1'
    <3>1. tbl' = t /\ aw' = "md_read1"
      BY <2>2 DEF OnFlushDone, EnqueueAio
    <3> HIDE DEF t
    <3> QED  BY <2>2, <3>1 DEF NoneArrives
  <2> QED  BY <2>1, <2>2
<1>4. ASSUME NEW p \in Piece, OnVolume(tbl', p)
      PROVE  PlacedAt(p, tbl[p])'
  <2>1. OnVolume(t, p) /\ tbl'[p].off = t[p].off
    BY <1>3, <1>4 DEF NoneArrives
  <2>2. /\ dsk'[t[p].off[1]][t[p].off[2]].p = p
        /\ dmd'[t[p].off[1]].ok /\ EntryOf(p, t[p]) \in dmd'[t[p].off[1]].ent
        /\ lap1' => t[p].off[1] < wpos'
    BY <1>1, <2>1, FlushedPlaces DEF FlushedAt, EntryOf
  <2>3. /\ aw' \notin {"md_read1", "md_read2"} => t[p].off[1] # wpos'
    <3>1. t[p].off[1] \in Blocks /\ wpos' \in Blocks
      <4>1. t[p] \in Elem
        BY <1>2, <2>1 DEF Table, OnVolume
      <4>2. wpos \in Blocks /\ lap1 \in BOOLEAN
        BY DEF Inv, ReadInv, VolumeInv, Good
      <4> HIDE DEF t
      <4> QED  BY <1>1, <4>1, <4>2, NextWritePosType DEF Elem, Offset
    <3> HIDE DEF t
    <3> QED  BY <1>3, <2>2, <3>1 DEF Blocks
  <2> HIDE DEF t
  <2> QED  BY <2>1, <2>2, <2>3 DEF PlacedAt, EntryOf
<1> QED  BY <1>1, <1>4 DEF PlaceInv, Placed, OnVolume

\* The steps of users' handles bring nothing to the volume.
LEMMA ReadStepArrives ==
  ASSUME ReadInv, NEW r \in ReadHandles, ReadStep(r)
  PROVE  NoneArrives(tbl, tbl')
<1>1. tbl \in Table /\ rh \in [ReadHandles -> ReadHandle \cup {None}]
  BY DEF ReadInv, Good
<1>2. ASSUME NEW ps, ps \subseteq Present(tbl), tbl' = MarkRead(tbl, ps)
      PROVE  NoneArrives(tbl, tbl')
  <2> SUFFICES ASSUME NEW p \in Piece, OnVolume(tbl', p)
               PROVE  OnVolume(tbl, p) /\ tbl'[p].off = tbl[p].off
    BY DEF NoneArrives
  <2>1. CASE p \in ps
    <3>1. tbl[p] # None /\ tbl[p] \in Elem
      BY <1>1, <1>2, <2>1 DEF Present, Table
    <3>2. tbl'[p] = [tbl[p] EXCEPT !.rd = @ + 1]
      BY <1>2, <2>1 DEF MarkRead
    <3> QED  BY <3>1, <3>2 DEF OnVolume, Elem
  <2>2. CASE p \notin ps
    BY <1>2, <2>2 DEF MarkRead, OnVolume
  <2> QED  BY <2>1, <2>2
<1>3. ASSUME NEW ps, tbl' = UnmarkRead(tbl, ps)
      PROVE  NoneArrives(tbl, tbl')
  <2> SUFFICES ASSUME NEW p \in Piece, OnVolume(tbl', p)
               PROVE  OnVolume(tbl, p) /\ tbl'[p].off = tbl[p].off
    BY DEF NoneArrives
  <2>1. CASE p \in ps /\ ps \subseteq Present(tbl)
    <3>1. tbl[p] # None /\ tbl[p] \in Elem
      BY <1>1, <2>1 DEF Present, Table
    <3>2. tbl'[p] = [tbl[p] EXCEPT !.rd = @ - 1]
      BY <1>3, <2>1 DEF UnmarkRead
    <3> QED  BY <3>1, <3>2 DEF OnVolume, Elem
  <2>2. CASE ~(p \in ps /\ ps \subseteq Present(tbl))
    BY <1>3, <2>2 DEF UnmarkRead, OnVolume
  <2> QED  BY <2>1, <2>2
<1>4. CASE tbl' = tbl
  BY <1>4 DEF NoneArrives
<1>5. CASE EndRead(r)
  BY <1>3, <1>5 DEF EndRead
<1>6. ASSUME NEW k \in Keys, NEW lo \in 1..NFrags, NEW hi \in lo..NFrags,
             OpenRead(r, k, lo, hi)
      PROVE  NoneArrives(tbl, tbl')
  BY <1>2, <1>6 DEF OpenRead
<1>7. \/ tbl' = tbl \/ EndRead(r)
      \/ \E k \in Keys : \E lo \in 1..NFrags : \E hi \in lo..NFrags :
            OpenRead(r, k, lo, hi)
  BY DEF ReadStep, FindElem, TryReadMem, BeginDiskRead, EndDiskRead, CloseRead, Deliver
<1> QED  BY <1>4, <1>5, <1>6, <1>7

LEMMA WriteStepPlaces ==
  ASSUME AllInv, PlaceInv, NEW w \in WriteHandles, WriteStep(w)
  PROVE  PlaceInv'
<1>1. /\ wpos' = wpos /\ lap1' = lap1 /\ dsk' = dsk /\ dmd' = dmd /\ evac' = evac
  BY DEF WriteStep, OpenWrite, OpenTruncate, AsyncWrite, AsyncCloseWrite, ExecWrite,
         ExecClose
<1>2. tbl \in Table
  BY DEF AllInv, Inv, ReadInv, Good
<1>3. CASE UNCHANGED <<tbl, aw>>
  <2>1. NoneArrives(tbl, tbl')
    BY <1>3 DEF NoneArrives
  <2> QED  BY <1>1, <1>3, <2>1, StaysPlaced
<1>4. ASSUME NEW k \in Keys, OpenTruncate(w, k) PROVE PlaceInv'
  <2>1. NoneArrives(tbl, tbl')
    BY <1>4 DEF OpenTruncate, NoneArrives, OnVolume
  <2> QED  BY <1>1, <1>4, <2>1, StaysPlaced DEF OpenTruncate
<1>5. CASE ExecWrite(w) \/ ExecClose(w)
  <2>1. aw = "wait_write" /\ wh[w] # None
    BY <1>5, HandleTurn, QueuedIsOpen DEF ExecWrite, ExecClose, AllInv
  <2>2. aw' \in {"wait_write", "flush1"}
    BY <1>5, <2>1 DEF ExecWrite, ExecClose, EnqueueAio
  <2>3. CASE tbl' = tbl
    <3>1. NoneArrives(tbl, tbl')
      BY <2>3 DEF NoneArrives
    <3> QED  BY <1>1, <2>1, <2>2, <3>1, StaysPlaced
  <2>4. CASE /\ tbl' = AddNewFragment(tbl, blk, wpos, WritePiece(w), wh[w].val).t
             /\ wh[w].cur <= wh[w].hi
    <3>1. WritePiece(w) \in Piece
      BY <2>1, <2>4, WritePieceType DEF AllInv
    <3>2. NoneArrives(tbl, tbl')
      BY <1>2, <2>4, <3>1, AddNewFragmentArrives
    <3> QED  BY <1>1, <2>1, <2>2, <3>2, StaysPlaced
  <2>5. ExecWrite(w) => wh[w].cur <= wh[w].hi
    BY <2>1 DEF ExecWrite, AllInv, Inv, WriteInv
  <2> QED  BY <1>5, <2>3, <2>4, <2>5 DEF ExecWrite, ExecClose
<1> QED  BY <1>3, <1>4, <1>5 DEF WriteStep, OpenWrite, AsyncWrite, AsyncCloseWrite

\* The step of the induction.
LEMMA PlacesKept ==
  ASSUME Failing = {}, AllInv, PlaceInv, [Next]_vars
  PROVE  PlaceInv'
<1>1. CASE AggWriterStep
  <2>1. CASE BeginIoOp
    <3>1. NoneArrives(tbl, tbl')
      BY <2>1 DEF BeginIoOp, NoneArrives
    <3> QED  BY <2>1, <3>1, StaysPlaced DEF BeginIoOp
  <2> QED  BY <1>1, <2>1, OnMdReadPlaces, OnEvacDonePlaces, OnFlushDonePlaces
           DEF AggWriterStep, AllInv
<1>2. ASSUME NEW w \in WriteHandles, WriteStep(w) PROVE PlaceInv'
  BY <1>2, WriteStepPlaces
<1>3. ASSUME NEW r \in ReadHandles, ReadStep(r) PROVE PlaceInv'
  <2>1. /\ wpos' = wpos /\ lap1' = lap1 /\ dsk' = dsk /\ dmd' = dmd /\ evac' = evac
        /\ aw' = aw
    BY <1>3 DEF ReadStep, OpenRead, FindElem, TryReadMem, BeginDiskRead, EndDiskRead,
                CloseRead
  <2>2. NoneArrives(tbl, tbl')
    BY <1>3, ReadStepArrives DEF AllInv, Inv
  <2> QED  BY <2>1, <2>2, StaysPlaced
<1>4. CASE UNCHANGED vars
  <2>1. NoneArrives(tbl, tbl')
    BY <1>4 DEF vars, NoneArrives
  <2> QED  BY <1>4, <2>1, StaysPlaced DEF vars
<1> QED  BY <1>1, <1>2, <1>3, <1>4 DEF Next

LEMMA PlaceInvariance ==
  ASSUME Failing = {} PROVE Spec => []PlaceInv
<1>1. Init => PlaceInv
  BY DEF Init, PlaceInv, Placed, OnVolume
<1>2. AllInv /\ PlaceInv /\ [Next]_vars => PlaceInv'
  BY PlacesKept
<1> QED  BY <1>1, <1>2, Invariance, PTL DEF Spec

-----------------------------------------------------------------------------
(* Objects that do not change have one content, generation 0, wherever a   *)
(* fragment of them is: in the table, in the block, pending, on the volume *)
(* or in the hands of a writer.                                            *)

Settled == {p \in Piece : p[1] \notin Changing}

TableContent(t) == \A p \in Settled : t[p] # None => t[p].val = 0
BlockContent(b) == \A i \in 1..Len(b) : b[i].p \in Settled => b[i].val = 0
FragContent(f)  == f.p \in Settled => f.val = 0

ContentInv ==
  /\ TableContent(tbl) /\ BlockContent(blk)
  /\ \A b \in Blocks : \A s \in 1..Slots : FragContent(dsk[b][s])
  /\ pd # None => FragContent(pd)
  /\ \A w \in WriteHandles :
       wh[w] # None /\ wh[w].k \notin Changing => wh[w].val = 0
  /\ \A k \in Keys \ Changing : gen[k] = 0

LEMMA AddNewFragmentContent ==
  ASSUME NEW t \in Table, NEW b \in Seq(Frag), NEW w, NEW p \in Piece, NEW v \in Gen,
         TableContent(t), BlockContent(b), p \in Settled => v = 0
  PROVE  LET res == AddNewFragment(t, b, w, p, v)
         IN  TableContent(res.t) /\ BlockContent(res.b)
<1> DEFINE res   == AddNewFragment(t, b, w, p, v)
           f     == [p |-> p, val |-> v]
           added == Append(b, f)
           re    == [off |-> <<w, Len(b) + 1>>, mem |-> TRUE, rd |-> 0, val |-> v]
           u     == [t EXCEPT ![p] = re]
<1>1. (res.t = t \/ res.t = u) /\ (res.b = b \/ res.b = added)
  BY DEF AddNewFragment
<1>2. BlockContent(added)
  <2>1. f \in Frag /\ f.p = p /\ f.val = v
    BY DEF Frag
  <2>2. /\ Len(added) = Len(b) + 1 /\ added[Len(b) + 1] = f /\ Len(b) \in Nat
        /\ \A i \in 1..Len(b) : added[i] = b[i]
    BY <2>1, AppendProperties, LenProperties
  <2> HIDE DEF added, f
  <2> QED  BY <2>1, <2>2 DEF BlockContent
<1>3. TableContent(u)
  <2>1. u[p] = re /\ re.val = v /\ \A q \in Piece \ {p} : u[q] = t[q]
    BY DEF Table
  <2> HIDE DEF u, re
  <2> QED  BY <2>1 DEF TableContent, Settled
<1>4. TableContent(res.t) /\ BlockContent(res.b)
  <2> HIDE DEF res, u, added
  <2> QED  BY <1>1, <1>2, <1>3
<1> QED  BY <1>4

LEMMA WritePendDataContent ==
  ASSUME NEW t \in Table, NEW b \in Seq(Frag), NEW w, pd \in Frag \cup {None},
         TableContent(t), BlockContent(b), pd # None => FragContent(pd),
         WritePendData(t, b, w)
  PROVE  TableContent(tbl') /\ BlockContent(blk') /\ (pd' # None => FragContent(pd'))
<1>1. CASE pd = None
  BY <1>1 DEF WritePendData
<1>2. CASE pd # None
  <2>1. pd.p \in Piece /\ pd.val \in Gen /\ (pd.p \in Settled => pd.val = 0)
    BY <1>2 DEF Frag, FragContent
  <2>2. /\ tbl' = AddNewFragment(t, b, w, pd.p, pd.val).t
        /\ blk' = AddNewFragment(t, b, w, pd.p, pd.val).b
        /\ pd' = None \/ pd' = pd
    BY <1>2 DEF WritePendData
  <2> QED  BY <2>1, <2>2, AddNewFragmentContent
<1> QED  BY <1>1, <1>2

LEMMA NextFromWaitNextContent ==
  ASSUME NEW t \in Table, NEW b \in Seq(Frag), NEW es, pd \in Frag \cup {None},
         TableContent(t), BlockContent(b), pd # None => FragContent(pd),
         NextFromWaitNext(t, b, es)
  PROVE  TableContent(tbl') /\ BlockContent(blk') /\ (pd' # None => FragContent(pd'))
BY WritePendDataContent DEF NextFromWaitNext

LEMMA OnMdReadContent ==
  ASSUME Inv, ContentInv, OnMdRead PROVE ContentInv'
<1> DEFINE ent == dmd[wpos].ent
<1>1. /\ Good(tbl, blk, wpos) /\ wpos \in Blocks /\ tbl \in Table /\ blk \in Seq(Frag)
      /\ ent \in SUBSET Entry /\ pd \in Frag \cup {None}
      /\ dsk' = dsk /\ wh' = wh /\ gen' = gen
  BY DEF Inv, ReadInv, VolumeInv, Good, OnMdRead
<1>2. PICK t, es : /\ NextFromWaitNext(t, blk, es)
                   /\ t = RemNonEvac(tbl, ent) \/ t = tbl
  BY DEF OnMdRead
<1>3. t \in Table
  <2> HIDE DEF ent
  <2> QED  BY <1>1, <1>2, RemNonEvacGood DEF Good
<1>4. TableContent(t)
  <2>1. \A p \in Piece : t[p] = tbl[p] \/ t[p] = None
    BY <1>2 DEF RemNonEvac
  <2> QED  BY <2>1 DEF TableContent, ContentInv, Settled
<1>5. TableContent(tbl') /\ BlockContent(blk') /\ (pd' # None => FragContent(pd'))
  BY <1>1, <1>2, <1>3, <1>4, NextFromWaitNextContent DEF ContentInv
<1> QED  BY <1>1, <1>5 DEF ContentInv

LEMMA OnEvacDoneContent ==
  ASSUME Inv, ContentInv, OnEvacDone PROVE ContentInv'
<1>1. PICK e \in FirstOf(evac) :
        LET found == dsk[wpos][e.slot] IN
        \/ /\ found.p = e.p
           /\ NextFromWaitNext(AddEvacFragment(tbl, blk, e.p),
                               Append(blk, found), evac \ {e})
        \/ NextFromWaitNext(tbl, blk, evac \ {e})
  BY DEF OnEvacDone
<1> DEFINE found == dsk[wpos][e.slot]
           es    == evac \ {e}
<1>2. /\ Good(tbl, blk, wpos) /\ wpos \in Blocks /\ tbl \in Table
      /\ evac \in SUBSET Entry /\ WellFormed(evac) /\ FitsWith(blk, evac)
      /\ pd \in Frag \cup {None} /\ blk \in Seq(Frag)
      /\ dsk \in [Blocks -> [1..Slots -> Frag \cup {Blank}]]
      /\ dsk' = dsk /\ wh' = wh /\ gen' = gen
  BY DEF Inv, ReadInv, VolumeInv, Good, OnEvacDone
<1>3. e \in evac /\ e \in Entry /\ e.p \in Piece /\ e.slot \in 1..Slots
  BY <1>2 DEF FirstOf, Entry
<1>4. FragContent(found)
  BY <1>2, <1>3 DEF ContentInv
<1>5. PICK t, b : /\ NextFromWaitNext(t, b, es) /\ t \in Table /\ b \in Seq(Frag)
                  /\ TableContent(t) /\ BlockContent(b)
  <2>1. CASE /\ found.p = e.p
             /\ NextFromWaitNext(AddEvacFragment(tbl, blk, e.p),
                                 Append(blk, found), es)
    <3> DEFINE u == AddEvacFragment(tbl, blk, e.p)
               n == Append(blk, found)
    <3>1. found \in Frag
      <4>1. found \in Frag \cup {Blank}
        BY <1>2, <1>3
      <4>2. Blank.p = None /\ None \notin Piece
        BY NoneAssumption DEF Blank
      <4> HIDE DEF found
      <4> QED  BY <1>3, <2>1, <4>1, <4>2
    <3> HIDE DEF found
    <3>2. found.p \notin Listed(blk)
      BY <1>2, <1>3, <2>1 DEF FitsWith
    <3>3. Len(blk) < Slots
      <4>1. IsFiniteSet(evac) /\ Cardinality(evac) \in Nat
        BY <1>2, EntriesFit
      <4>2. Cardinality(evac) # 0
        BY <1>3, <4>1, FS_EmptySet
      <4> QED  BY <1>2, <4>1, <4>2, LenProperties, SizesAssumption DEF FitsWith
    <3>4. Good(u, n, wpos)
      BY <1>2, <2>1, <3>1, <3>2, <3>3, AddEvacFragmentGood
    <3>5. BlockContent(n)
      <4>1. /\ Len(n) = Len(blk) + 1 /\ n[Len(blk) + 1] = found /\ Len(blk) \in Nat
            /\ \A i \in 1..Len(blk) : n[i] = blk[i]
        BY <1>2, <3>1, AppendProperties, LenProperties
      <4> HIDE DEF n
      <4> QED  BY <1>4, <4>1 DEF BlockContent, ContentInv, FragContent
    <3>6. TableContent(u)
      <4>1. ASSUME NEW p \in Piece PROVE
              (tbl[p] = None => u[p] = None) /\ (tbl[p] # None => u[p].val = tbl[p].val)
        <5>1. CASE tbl[e.p] = None
          BY <5>1 DEF AddEvacFragment
        <5>2. CASE tbl[e.p] # None
          <6> DEFINE re == [tbl[e.p] EXCEPT !.mem = TRUE, !.off = <<wpos, Len(blk) + 1>>]
          <6>1. tbl[e.p] \in Elem
            BY <1>2, <1>3, <5>2 DEF Table
          <6>2. re.val = tbl[e.p].val
            BY <6>1 DEF Elem
          <6>3. u = [tbl EXCEPT ![e.p] = re]
            BY <1>2, <1>3, <5>2 DEF AddEvacFragment, Table
          <6> HIDE DEF re, u
          <6> QED  BY <1>2, <1>3, <5>2, <6>2, <6>3 DEF Table
        <5> QED  BY <5>1, <5>2
      <4> HIDE DEF u
      <4> QED  BY <4>1 DEF TableContent, ContentInv, Settled
    <3> QED  BY <2>1, <3>4, <3>5, <3>6 DEF Good
  <2>2. CASE NextFromWaitNext(tbl, blk, es)
    BY <1>2, <2>2 DEF ContentInv
  <2> QED  BY <1>1, <2>1, <2>2
<1>6. TableContent(tbl') /\ BlockContent(blk') /\ (pd' # None => FragContent(pd'))
  <2> HIDE DEF es
  <2> QED  BY <1>2, <1>5, NextFromWaitNextContent DEF ContentInv
<1> QED  BY <1>2, <1>6 DEF ContentInv

LEMMA OnFlushDoneContent ==
  ASSUME Inv, ContentInv, OnFlushDone PROVE ContentInv'
<1>1. /\ Good(tbl, blk, wpos) /\ wpos \in Blocks /\ tbl \in Table /\ blk \in Seq(Frag)
      /\ dsk \in [Blocks -> [1..Slots -> Frag \cup {Blank}]]
      /\ lap1 \in BOOLEAN /\ pd \in Frag \cup {None}
      /\ wpos' = NextWritePos /\ wh' = wh /\ gen' = gen
  BY DEF Inv, ReadInv, VolumeInv, Good, OnFlushDone
<1>2. PICK done \in SUBSET (1..Len(blk)) :
        dsk' = [dsk EXCEPT ![wpos] =
                  [s \in 1..Slots |-> IF s \in done THEN blk[s] ELSE dsk[wpos][s]]]
  BY DEF OnFlushDone, Flushed
<1> DEFINE area == [s \in 1..Slots |-> IF s \in done THEN blk[s] ELSE dsk[wpos][s]]
           t == CommitDiskWrite(tbl, blk)
<1>3. \A b \in Blocks : \A s \in 1..Slots : FragContent(dsk'[b][s])
  <2>1. \A s \in 1..Slots : FragContent(area[s])
    <3> TAKE s \in 1..Slots
    <3>1. CASE s \in done
      <4>1. area[s] = blk[s] /\ s \in 1..Len(blk)
        BY <3>1
      <4> HIDE DEF area
      <4> QED  BY <4>1 DEF ContentInv, BlockContent, FragContent
    <3>2. CASE s \notin done
      <4>1. area[s] = dsk[wpos][s]
        BY <3>2
      <4> HIDE DEF area
      <4> QED  BY <1>1, <4>1 DEF ContentInv
    <3> QED  BY <3>1, <3>2
  <2> HIDE DEF area
  <2>2. \A b \in Blocks : dsk'[b] = IF b = wpos THEN area ELSE dsk[b]
    BY <1>1, <1>2 DEF area
  <2> QED  BY <2>1, <2>2 DEF ContentInv
<1>4. t \in Table /\ TableContent(t)
  <2>1. t \in Table
    BY <1>1, CommitDiskWriteGood DEF Good
  <2>2. ASSUME NEW p \in Piece
        PROVE  (tbl[p] = None => t[p] = None) /\ (tbl[p] # None => t[p].val = tbl[p].val)
    <3>1. CASE tbl[p] # None /\ p \in Listed(blk)
      <4>1. tbl[p] \in Elem
        BY <1>1, <3>1 DEF Table
      <4>2. t[p] = [tbl[p] EXCEPT !.mem = FALSE]
        BY <3>1 DEF CommitDiskWrite
      <4> HIDE DEF t
      <4> QED  BY <3>1, <4>1, <4>2 DEF Elem
    <3>2. CASE ~(tbl[p] # None /\ p \in Listed(blk))
      BY <3>2 DEF CommitDiskWrite
    <3> QED  BY <3>1, <3>2
  <2> HIDE DEF t
  <2> QED  BY <2>1, <2>2 DEF TableContent, ContentInv, Settled
<1>5. TableContent(tbl') /\ BlockContent(blk') /\ (pd' # None => FragContent(pd'))
  <2>1. <<>> \in Seq(Frag) /\ Len(<<>>) = 0 /\ BlockContent(<<>>)
    BY DEF BlockContent
  <2>2. CASE lap1'
    <3>1. WritePendData(t, <<>>, wpos')
      BY <2>2 DEF OnFlushDone
    <3> HIDE DEF t
    <3> QED  BY <1>1, <1>4, <2>1, <3>1, WritePendDataContent DEF ContentInv
  <2>3. CASE ~lap1'
    <3>1. tbl' = t /\ blk' = <<>> /\ pd' = pd
      BY <2>3 DEF OnFlushDone
    <3> HIDE DEF t
    <3> QED  BY <1>4, <2>1, <3>1 DEF ContentInv
  <2> QED  BY <2>2, <2>3
<1> QED  BY <1>1, <1>3, <1>5 DEF ContentInv

LEMMA WriteStepContent ==
  ASSUME AllInv, ContentInv, NEW w \in WriteHandles, WriteStep(w)
  PROVE  ContentInv'
<1>1. /\ tbl \in Table /\ blk \in Seq(Frag) /\ pd \in Frag \cup {None}
      /\ wh \in [WriteHandles -> WriteHandle \cup {None}] /\ gen \in [Keys -> Gen]
  BY DEF AllInv, Inv, ReadInv, VolumeInv, WriteInv, Good
<1>2. dsk' = dsk
  BY DEF WriteStep, OpenWrite, OpenTruncate, AsyncWrite, AsyncCloseWrite, ExecWrite,
         ExecClose
<1>3. ASSUME NEW h, wh' = [wh EXCEPT ![w] = h],
             h # None /\ h.k \notin Changing => h.val = 0
      PROVE  \A x \in WriteHandles :
               wh'[x] # None /\ wh'[x].k \notin Changing => wh'[x].val = 0
  BY <1>1, <1>3 DEF ContentInv
<1>4. ASSUME NEW k \in Keys, OpenWrite(w, k) PROVE ContentInv'
  <2>1. PICK lo, hi : wh' = [wh EXCEPT ![w] = [pc |-> "open", k |-> k, cur |-> lo,
                                               hi |-> hi, val |-> gen[k]]]
    BY <1>4 DEF OpenWrite
  <2> DEFINE h == [pc |-> "open", k |-> k, cur |-> lo, hi |-> hi, val |-> gen[k]]
  <2>2. h # None /\ h.k \notin Changing => h.val = 0
    BY DEF ContentInv
  <2>3. wh' = [wh EXCEPT ![w] = h]
    BY <2>1
  <2> HIDE DEF h
  <2> QED  BY <1>2, <1>3, <1>4, <2>2, <2>3 DEF OpenWrite, ContentInv
<1>5. ASSUME NEW k \in Keys, OpenTruncate(w, k) PROVE ContentInv'
  <2> DEFINE h == [pc |-> "open", k |-> k, cur |-> 1, hi |-> NFrags, val |-> gen'[k]]
  <2>1. /\ k \in Changing /\ wh' = [wh EXCEPT ![w] = h] /\ h.k = k
        /\ blk' = blk /\ pd' = pd
    BY <1>5 DEF OpenTruncate
  <2>2. \A x \in WriteHandles :
          wh'[x] # None /\ wh'[x].k \notin Changing => wh'[x].val = 0
    <3> HIDE DEF h
    <3> QED  BY <1>3, <2>1
  <2>3. \A x \in Keys \ Changing : gen'[x] = 0
    BY <1>1, <1>5, <2>1 DEF OpenTruncate, ContentInv
  <2>4. TableContent(tbl')
    BY <1>5 DEF OpenTruncate, TableContent, ContentInv, Settled
  <2> HIDE DEF h
  <2> QED  BY <1>2, <2>1, <2>2, <2>3, <2>4 DEF ContentInv
<1>6. CASE AsyncWrite(w) \/ AsyncCloseWrite(w)
  <2>1. PICK s : wh' = [wh EXCEPT ![w].pc = s]
    BY <1>6 DEF AsyncWrite, AsyncCloseWrite
  <2>2. wh[w] # None /\ wh[w] \in WriteHandle
    BY <1>1, <1>6 DEF AsyncWrite, AsyncCloseWrite
  <2> DEFINE h == [wh[w] EXCEPT !.pc = s]
  <2>3. h.k = wh[w].k /\ h.val = wh[w].val /\ wh' = [wh EXCEPT ![w] = h]
    BY <1>1, <2>1, <2>2 DEF WriteHandle
  <2> HIDE DEF h
  <2>4. \A x \in WriteHandles :
          wh'[x] # None /\ wh'[x].k \notin Changing => wh'[x].val = 0
    BY <1>3, <2>2, <2>3 DEF ContentInv
  <2> QED  BY <1>2, <1>6, <2>4 DEF AsyncWrite, AsyncCloseWrite, ContentInv
<1>7. CASE ExecWrite(w) \/ ExecClose(w)
  <2>1. wh[w] # None /\ wh[w] \in WriteHandle /\ gen' = gen
    BY <1>1, <1>7, HandleTurn, QueuedIsOpen DEF ExecWrite, ExecClose, AllInv
  <2>2. \A x \in WriteHandles :
          wh'[x] # None /\ wh'[x].k \notin Changing => wh'[x].val = 0
    <3>1. CASE wh' = wh
      BY <3>1 DEF ContentInv
    <3>2. CASE wh' = [wh EXCEPT ![w] = None]
      BY <1>3, <3>2
    <3>3. CASE wh' = [wh EXCEPT ![w].pc = "open"]
      <4> DEFINE h == [wh[w] EXCEPT !.pc = "open"]
      <4>1. h.k = wh[w].k /\ h.val = wh[w].val /\ wh' = [wh EXCEPT ![w] = h]
        BY <1>1, <2>1, <3>3 DEF WriteHandle
      <4> HIDE DEF h
      <4> QED  BY <1>3, <2>1, <4>1 DEF ContentInv
    <3>4. CASE wh' = [wh EXCEPT ![w].pc = "open", ![w].cur = @ + 1]
      <4> DEFINE h == [wh[w] EXCEPT !.pc = "open", !.cur = wh[w].cur + 1]
      <4>1. h.k = wh[w].k /\ h.val = wh[w].val /\ wh' = [wh EXCEPT ![w] = h]
        BY <1>1, <2>1, <3>4 DEF WriteHandle
      <4> HIDE DEF h
      <4> QED  BY <1>3, <2>1, <4>1 DEF ContentInv
    <3> QED  BY <1>7, <3>1, <3>2, <3>3, <3>4 DEF ExecWrite, ExecClose
  <2>3. CASE tbl' = tbl /\ blk' = blk /\ pd' = pd
    BY <1>2, <2>1, <2>2, <2>3 DEF ContentInv
  <2>4. CASE /\ wh[w].cur <= wh[w].hi
             /\ tbl' = AddNewFragment(tbl, blk, wpos, WritePiece(w), wh[w].val).t
             /\ blk' = AddNewFragment(tbl, blk, wpos, WritePiece(w), wh[w].val).b
             /\ pd' = pd \/ pd' = [p |-> WritePiece(w), val |-> wh[w].val]
    <3>1. WritePiece(w) \in Piece /\ wh[w].val \in Gen
      BY <2>1, <2>4, WritePieceType DEF AllInv
    <3>2. WritePiece(w) \in Settled => wh[w].val = 0
      BY <2>1 DEF Settled, WritePiece, ContentInv
    <3>3. TableContent(tbl') /\ BlockContent(blk')
      BY <1>1, <2>4, <3>1, <3>2, AddNewFragmentContent DEF ContentInv
    <3>4. pd' # None => FragContent(pd')
      BY <2>4, <3>2 DEF FragContent, ContentInv
    <3> QED  BY <1>2, <2>1, <2>2, <3>3, <3>4 DEF ContentInv
  <2>5. ExecWrite(w) => wh[w].cur <= wh[w].hi
    BY <2>1 DEF ExecWrite, AllInv, Inv, WriteInv
  <2> QED  BY <1>7, <2>3, <2>4, <2>5 DEF ExecWrite, ExecClose
<1> QED  BY <1>4, <1>5, <1>6, <1>7 DEF WriteStep

LEMMA ReadStepContent ==
  ASSUME ReadInv, ContentInv, NEW r \in ReadHandles, ReadStep(r)
  PROVE  ContentInv'
<1>1. tbl \in Table
  BY DEF ReadInv, Good
<1>2. ASSUME NEW ps,
             \/ tbl' = MarkRead(tbl, ps) /\ ps \subseteq Present(tbl)
             \/ tbl' = UnmarkRead(tbl, ps)
      PROVE  TableContent(tbl')
  <2> SUFFICES ASSUME NEW p \in Settled, tbl'[p] # None
               PROVE  tbl'[p].val = 0
    BY DEF TableContent
  <2>1. p \in Piece /\ (tbl[p] # None => tbl[p].val = 0)
    BY DEF Settled, ContentInv, TableContent
  <2>2. CASE p \in ps /\ ps \subseteq Present(tbl)
    <3>1. tbl[p] # None /\ tbl[p] \in Elem
      BY <1>1, <2>2 DEF Present, Table
    <3>2. tbl'[p] = [tbl[p] EXCEPT !.rd = @ + 1] \/ tbl'[p] = [tbl[p] EXCEPT !.rd = @ - 1]
      BY <1>2, <2>1, <2>2 DEF MarkRead, UnmarkRead
    <3> QED  BY <2>1, <3>1, <3>2 DEF Elem
  <2>3. CASE ~(p \in ps /\ ps \subseteq Present(tbl))
    <3>1. tbl'[p] = tbl[p]
      BY <1>2, <2>1, <2>3 DEF MarkRead, UnmarkRead
    <3> QED  BY <2>1, <3>1
  <2> QED  BY <2>2, <2>3
<1>3. TableContent(tbl')
  <2>1. CASE tbl' = tbl
    BY <2>1 DEF ContentInv
  <2>2. CASE EndRead(r)
    BY <1>2, <2>2 DEF EndRead
  <2>3. ASSUME NEW k \in Keys, NEW lo \in 1..NFrags, NEW hi \in lo..NFrags,
               OpenRead(r, k, lo, hi)
        PROVE  TableContent(tbl')
    BY <1>2, <2>3 DEF OpenRead
  <2> QED  BY <2>1, <2>2, <2>3
           DEF ReadStep, FindElem, TryReadMem, BeginDiskRead, EndDiskRead, CloseRead, Deliver
<1>4. blk' = blk /\ dsk' = dsk /\ pd' = pd /\ wh' = wh /\ gen' = gen
  BY DEF ReadStep, OpenRead, FindElem, TryReadMem, BeginDiskRead, EndDiskRead, CloseRead
<1> QED  BY <1>3, <1>4 DEF ContentInv

LEMMA ContentKept ==
  ASSUME AllInv, ContentInv, [Next]_vars
  PROVE  ContentInv'
<1>1. CASE AggWriterStep
  <2>1. CASE BeginIoOp
    BY <2>1 DEF BeginIoOp, ContentInv
  <2> QED  BY <1>1, <2>1, OnMdReadContent, OnEvacDoneContent, OnFlushDoneContent
           DEF AggWriterStep, AllInv
<1>2. ASSUME NEW w \in WriteHandles, WriteStep(w) PROVE ContentInv'
  BY <1>2, WriteStepContent
<1>3. ASSUME NEW r \in ReadHandles, ReadStep(r) PROVE ContentInv'
  BY <1>3, ReadStepContent DEF AllInv, Inv
<1>4. CASE UNCHANGED vars
  BY <1>4 DEF vars, ContentInv
<1> QED  BY <1>1, <1>2, <1>3, <1>4 DEF Next

LEMMA ContentInvariance == Spec => []ContentInv
<1>1. Init => ContentInv
  <2> SUFFICES ASSUME Init PROVE ContentInv
    OBVIOUS
  <2>1. BlockContent(blk)
    BY DEF Init, BlockContent
  <2>2. \A b \in Blocks : \A s \in 1..Slots : FragContent(dsk[b][s])
    BY DEF Init, FragContent, Blank
  <2> QED  BY <2>1, <2>2 DEF Init, ContentInv, TableContent, Settled
<1>2. AllInv /\ ContentInv /\ [Next]_vars => ContentInv'
  BY ContentKept
<1> QED  BY <1>1, <1>2, Invariance, PTL DEF Spec

\* As long as no disk operation fails, the area an element on the volume
\* points to holds its fragment, lap after lap: the write position passes
\* over no element that is neither removed nor evacuated.  If the object is
\* one that does not change, its content is there, too.
FragmentsStay ==
  \A p \in Present(tbl) : ~tbl[p].mem =>
    LET stored == dsk[tbl[p].off[1]][tbl[p].off[2]]
    IN  stored.p = p /\ (p \in Settled => stored.val = tbl[p].val)

THEOREM FragmentsAlwaysStay ==
  ASSUME Failing = {} PROVE Spec => []FragmentsStay
<1>1. AllInv /\ PlaceInv /\ ContentInv => FragmentsStay
  <2> SUFFICES ASSUME AllInv, PlaceInv, ContentInv, NEW p \in Present(tbl), ~tbl[p].mem
               PROVE  LET stored == dsk[tbl[p].off[1]][tbl[p].off[2]]
                      IN  stored.p = p /\ (p \in Settled => stored.val = tbl[p].val)
    BY DEF FragmentsStay
  <2>1. /\ p \in Piece /\ tbl[p] # None /\ tbl[p] \in Elem
    BY DEF Present, AllInv, Inv, ReadInv, Good, Table
  <2>2. tbl[p].off[1] \in Blocks /\ tbl[p].off[2] \in 1..Slots
    BY <2>1 DEF Elem, Offset
  <2>3. dsk[tbl[p].off[1]][tbl[p].off[2]].p = p
    BY <2>1 DEF PlaceInv, Placed, PlacedAt, OnVolume
  <2>4. p \in Settled => /\ tbl[p].val = 0
                         /\ dsk[tbl[p].off[1]][tbl[p].off[2]].val = 0
    BY <2>1, <2>2, <2>3 DEF ContentInv, TableContent, FragContent
  <2> QED  BY <2>3, <2>4
<1> QED  BY <1>1, Invariance, PlaceInvariance, ContentInvariance, PTL

\* OnDiskIsOnDisk: without failing operations an element that is not in
\* memory is on the volume with its content.  Truncation is allowed for when
\* contents are not told apart; where they are, section 4 of the README says
\* what becomes of a fragment of the old object that is still in the block.
THEOREM OnDiskAlwaysOnDisk ==
  ASSUME Failing = {}, Changing = {} \/ NGens = 1
  PROVE  Spec => []OnDiskIsOnDisk
<1>1. AllInv /\ FragmentsStay => OnDiskIsOnDisk
  <2> SUFFICES ASSUME AllInv, FragmentsStay, NEW p \in Present(tbl), ~tbl[p].mem
               PROVE  dsk[tbl[p].off[1]][tbl[p].off[2]] = [p |-> p, val |-> tbl[p].val]
    BY DEF OnDiskIsOnDisk
  <2> DEFINE stored == dsk[tbl[p].off[1]][tbl[p].off[2]]
  <2>1. /\ p \in Piece /\ tbl[p] # None /\ tbl[p] \in Elem
        /\ dsk \in [Blocks -> [1..Slots -> Frag \cup {Blank}]]
    BY DEF Present, AllInv, Inv, ReadInv, VolumeInv, Good, Table
  <2>2. tbl[p].off[1] \in Blocks /\ tbl[p].off[2] \in 1..Slots /\ tbl[p].val \in Gen
    BY <2>1 DEF Elem, Offset
  <2>3. stored \in Frag \cup {Blank} /\ stored.p = p
    BY <2>1, <2>2 DEF FragmentsStay
  <2> HIDE DEF stored
  <2>4. stored \in Frag
    <3>1. Blank.p = None /\ None \notin Piece
      BY NoneAssumption DEF Blank
    <3> QED  BY <2>1, <2>3, <3>1
  <2>5. stored.val = tbl[p].val
    <3>1. CASE Changing = {}
      <4>1. p \in Settled
        BY <2>1, <3>1 DEF Settled
      <4> QED  BY <4>1 DEF FragmentsStay, stored
    <3>2. CASE NGens = 1
      <4>1. stored.val \in Gen
        BY <2>4 DEF Frag
      <4> QED  BY <2>2, <3>2, <4>1 DEF Gen
    <3> QED  BY <3>1, <3>2
  <2>6. stored = [p |-> p, val |-> tbl[p].val]
    BY <2>3, <2>4, <2>5 DEF Frag
  <2> QED  BY <2>6 DEF stored
<1>2. Spec => []FragmentsStay
  BY FragmentsAlwaysStay
<1> QED  BY <1>1, <1>2, Invariance, PTL

-----------------------------------------------------------------------------
(* Objects that change.  Where an element says its fragment is, there is   *)
(* the content the element stands for, as long as an entry that is         *)
(* evacuated is that of the element itself and not one of an older         *)
(* fragment of the same key and range.                                     *)

InMemStores(t, b) ==
  \A p \in Piece : t[p] # None /\ t[p].mem => b[t[p].off[2]].val = t[p].val
OnDskStores(t, d) ==
  \A p \in Piece : t[p] # None /\ ~t[p].mem =>
    d[t[p].off[1]][t[p].off[2]].val = t[p].val

StoreInv == InMemStores(tbl, blk) /\ OnDskStores(tbl, dsk)

\* The entry under evacuation has the disk offset of the element, not just its
\* key and range, which are all that get_evac_frags compares
\* (cache_fs_operations.cpp:341).
OwnEntries ==
  aw = "evac2" =>
    \A e \in FirstOf(evac) : tbl[e.p] # None => tbl[e.p].off = <<wpos, e.slot>>

\* The block c is b, perhaps with more fragments.
Grows(b, c) == Len(b) <= Len(c) /\ \A i \in 1..Len(b) : c[i] = b[i]

\* Elements of u are those of t, but for their readers.
Fewer(t, u) ==
  \A p \in Piece : u[p] # None =>
    /\ t[p] # None /\ u[p].off = t[p].off /\ u[p].mem = t[p].mem
    /\ u[p].val = t[p].val

LEMMA FewerStore ==
  ASSUME NEW t, NEW u, NEW b, NEW d, Fewer(t, u), InMemStores(t, b), OnDskStores(t, d)
  PROVE  InMemStores(u, b) /\ OnDskStores(u, d)
BY DEF Fewer, InMemStores, OnDskStores

LEMMA AppendGrows ==
  ASSUME NEW b \in Seq(Frag), NEW f \in Frag
  PROVE  /\ Grows(b, Append(b, f)) /\ Append(b, f) \in Seq(Frag)
         /\ Len(Append(b, f)) = Len(b) + 1 /\ Append(b, f)[Len(b) + 1] = f
BY AppendProperties, LenProperties DEF Grows

LEMMA GrownStores ==
  ASSUME NEW t, NEW b, NEW w, Good(t, b, w), NEW c, Grows(b, c), InMemStores(t, b)
  PROVE  InMemStores(t, c)
BY DEF Good, InBlock, Grows, InMemStores

LEMMA AddNewFragmentStores ==
  ASSUME NEW t, NEW b, NEW w, Good(t, b, w), NEW p \in Piece, NEW v \in Gen, NEW d
  PROVE  LET res == AddNewFragment(t, b, w, p, v)
         IN  /\ Grows(b, res.b)
             /\ InMemStores(t, b) => InMemStores(res.t, res.b)
             /\ OnDskStores(t, d) => OnDskStores(res.t, d)
<1> DEFINE res   == AddNewFragment(t, b, w, p, v)
           f     == [p |-> p, val |-> v]
           added == Append(b, f)
           re    == [off |-> <<w, Len(b) + 1>>, mem |-> TRUE, rd |-> 0, val |-> v]
           u     == [t EXCEPT ![p] = re]
<1>1. /\ (res.t = t /\ (res.b = b \/ res.b = added)) \/ (res.t = u /\ res.b = added)
      /\ t \in Table /\ b \in Seq(Frag) /\ Len(b) \in Nat
  BY LenProperties DEF AddNewFragment, Good
<1>2. f \in Frag /\ f.val = v
  BY DEF Frag
<1>3. /\ Grows(b, added) /\ Grows(b, b)
      /\ Len(added) = Len(b) + 1 /\ added[Len(b) + 1] = f
  <2> HIDE DEF f
  <2> QED  BY <1>1, <1>2, AppendGrows DEF Grows
<1>4. /\ u[p] = re /\ re.mem /\ re.val = v /\ re.off[2] = Len(b) + 1
      /\ \A q \in Piece \ {p} : u[q] = t[q]
  BY <1>1 DEF Table
<1> HIDE DEF res, f, added, re, u
<1>5. InMemStores(t, b) => InMemStores(t, added) /\ InMemStores(u, added)
  <2> SUFFICES ASSUME InMemStores(t, b) PROVE InMemStores(t, added) /\ InMemStores(u, added)
    OBVIOUS
  <2>1. InMemStores(t, added)
    BY <1>3, GrownStores
  <2> QED  BY <1>2, <1>3, <1>4, <2>1 DEF InMemStores
<1>6. OnDskStores(t, d) => OnDskStores(u, d)
  BY <1>4 DEF OnDskStores
<1>7. /\ Grows(b, res.b)
      /\ InMemStores(t, b) => InMemStores(res.t, res.b)
      /\ OnDskStores(t, d) => OnDskStores(res.t, d)
  BY <1>1, <1>3, <1>5, <1>6
<1> QED  BY <1>7 DEF res

LEMMA WritePendDataStores ==
  ASSUME NEW t, NEW b, NEW w, Good(t, b, w), pd \in Frag \cup {None}, NEW d,
         WritePendData(t, b, w)
  PROVE  /\ Grows(b, blk')
         /\ InMemStores(t, b) => InMemStores(tbl', blk')
         /\ OnDskStores(t, d) => OnDskStores(tbl', d)
<1>1. CASE pd = None
  <2>1. Len(b) \in Nat
    BY LenProperties DEF Good
  <2> QED  BY <1>1, <2>1 DEF WritePendData, Grows
<1>2. CASE pd # None
  <2>1. pd.p \in Piece /\ pd.val \in Gen
    BY <1>2 DEF Frag
  <2>2. /\ tbl' = AddNewFragment(t, b, w, pd.p, pd.val).t
        /\ blk' = AddNewFragment(t, b, w, pd.p, pd.val).b
    BY <1>2 DEF WritePendData
  <2> QED  BY <2>1, <2>2, AddNewFragmentStores
<1> QED  BY <1>1, <1>2

LEMMA NextFromWaitNextStores ==
  ASSUME NEW t, NEW b, NEW es, Good(t, b, wpos), pd \in Frag \cup {None}, NEW d,
         NextFromWaitNext(t, b, es)
  PROVE  /\ Grows(b, blk')
         /\ InMemStores(t, b) => InMemStores(tbl', blk')
         /\ OnDskStores(t, d) => OnDskStores(tbl', d)
<1>1. Len(b) \in Nat
  BY LenProperties DEF Good
<1>2. CASE es # {}
  BY <1>1, <1>2 DEF NextFromWaitNext, Grows
<1>3. CASE es = {}
  <2>1. WritePendData(t, b, wpos)
    BY <1>3 DEF NextFromWaitNext
  <2> QED  BY <2>1, WritePendDataStores
<1> QED  BY <1>2, <1>3

LEMMA OnMdReadStores ==
  ASSUME Inv, OnMdRead
  PROVE  Grows(blk, blk') /\ (StoreInv => StoreInv')
<1> DEFINE ent == dmd[wpos].ent
<1>1. /\ Good(tbl, blk, wpos) /\ ent \in SUBSET Entry /\ pd \in Frag \cup {None}
      /\ dsk' = dsk /\ tbl \in Table
  BY DEF Inv, ReadInv, VolumeInv, Good, OnMdRead
<1>2. PICK t, es : /\ NextFromWaitNext(t, blk, es)
                   /\ t = RemNonEvac(tbl, ent) \/ t = tbl
  BY DEF OnMdRead
<1>3. Good(t, blk, wpos)
  <2> HIDE DEF ent
  <2> QED  BY <1>1, <1>2, RemNonEvacGood
<1>4. Fewer(tbl, t)
  <2>1. \A p \in Piece : t[p] = tbl[p] \/ t[p] = None
    BY <1>2 DEF RemNonEvac
  <2> QED  BY <2>1 DEF Fewer
<1>5. StoreInv => InMemStores(t, blk) /\ OnDskStores(t, dsk)
  BY <1>4, FewerStore DEF StoreInv
<1>6. /\ Grows(blk, blk')
      /\ InMemStores(t, blk) => InMemStores(tbl', blk')
      /\ OnDskStores(t, dsk) => OnDskStores(tbl', dsk)
  BY <1>1, <1>2, <1>3, NextFromWaitNextStores
<1> QED  BY <1>1, <1>5, <1>6 DEF StoreInv

\* The fragment read from the area of the entry is what the element stands for,
\* because the entry is that of the element.
LEMMA OnEvacDoneStores ==
  ASSUME Inv, OnEvacDone
  PROVE  Grows(blk, blk') /\ (StoreInv /\ OwnEntries => StoreInv')
<1>1. PICK e \in FirstOf(evac) :
        LET found == dsk[wpos][e.slot] IN
        \/ /\ found.p = e.p
           /\ NextFromWaitNext(AddEvacFragment(tbl, blk, e.p),
                               Append(blk, found), evac \ {e})
        \/ NextFromWaitNext(tbl, blk, evac \ {e})
  BY DEF OnEvacDone
<1> DEFINE found == dsk[wpos][e.slot]
           es    == evac \ {e}
<1>2. /\ Good(tbl, blk, wpos) /\ wpos \in Blocks /\ tbl \in Table /\ aw = "evac2"
      /\ evac \in SUBSET Entry /\ WellFormed(evac) /\ FitsWith(blk, evac)
      /\ pd \in Frag \cup {None} /\ blk \in Seq(Frag) /\ Len(blk) \in Nat
      /\ dsk \in [Blocks -> [1..Slots -> Frag \cup {Blank}]]
      /\ dsk' = dsk
  BY LenProperties DEF Inv, ReadInv, VolumeInv, Good, OnEvacDone
<1>3. e \in evac /\ e \in Entry /\ e.p \in Piece /\ e.slot \in 1..Slots
  BY <1>2 DEF FirstOf, Entry
<1>4. ASSUME NEW t, NEW b, Good(t, b, wpos), Grows(blk, b), NextFromWaitNext(t, b, es),
             StoreInv /\ OwnEntries => InMemStores(t, b) /\ OnDskStores(t, dsk)
      PROVE  Grows(blk, blk') /\ (StoreInv /\ OwnEntries => StoreInv')
  <2>1. /\ Grows(b, blk')
        /\ InMemStores(t, b) => InMemStores(tbl', blk')
        /\ OnDskStores(t, dsk) => OnDskStores(tbl', dsk)
    <3> HIDE DEF es
    <3> QED  BY <1>2, <1>4, NextFromWaitNextStores
  <2>2. Grows(blk, blk')
    <3>1. Len(b) \in Nat
      BY <1>4, LenProperties DEF Good
    <3> QED  BY <1>2, <1>4, <2>1, <3>1 DEF Grows
  <2> QED  BY <1>2, <1>4, <2>1, <2>2 DEF StoreInv
<1>5. CASE NextFromWaitNext(tbl, blk, es)
  <2>1. Grows(blk, blk)
    BY <1>2 DEF Grows
  <2> QED  BY <1>2, <1>4, <1>5, <2>1 DEF StoreInv
<1>6. CASE /\ found.p = e.p
           /\ NextFromWaitNext(AddEvacFragment(tbl, blk, e.p), Append(blk, found), es)
  <2> DEFINE u == AddEvacFragment(tbl, blk, e.p)
             n == Append(blk, found)
  <2>1. found \in Frag
    <3>1. found \in Frag \cup {Blank}
      BY <1>2, <1>3
    <3>2. Blank.p = None /\ None \notin Piece
      BY NoneAssumption DEF Blank
    <3> HIDE DEF found
    <3> QED  BY <1>3, <1>6, <3>1, <3>2
  <2>2. e.p \notin Listed(blk)
    BY <1>2, <1>3 DEF FitsWith
  <2>3. Len(blk) < Slots
    <3>1. IsFiniteSet(evac) /\ Cardinality(evac) \in Nat
      BY <1>2, EntriesFit
    <3>2. Cardinality(evac) # 0
      BY <1>3, <3>1, FS_EmptySet
    <3> QED  BY <1>2, <3>1, <3>2, SizesAssumption DEF FitsWith
  <2>4. Good(u, n, wpos)
    <3> HIDE DEF found
    <3> QED  BY <1>2, <1>6, <2>1, <2>2, <2>3, AddEvacFragmentGood
  <2>5. Grows(blk, n) /\ n[Len(blk) + 1] = found
    <3> HIDE DEF found
    <3> QED  BY <1>2, <2>1, AppendGrows
  <2>6. StoreInv /\ OwnEntries => InMemStores(u, n) /\ OnDskStores(u, dsk)
    <3> SUFFICES ASSUME StoreInv, OwnEntries
                 PROVE  InMemStores(u, n) /\ OnDskStores(u, dsk)
      OBVIOUS
    <3>1. InMemStores(tbl, n)
      <4> HIDE DEF n
      <4> QED  BY <1>2, <2>5, GrownStores DEF StoreInv
    <3>2. CASE tbl[e.p] = None
      BY <3>1, <3>2 DEF AddEvacFragment, StoreInv
    <3>3. CASE tbl[e.p] # None
      <4> DEFINE re == [tbl[e.p] EXCEPT !.mem = TRUE, !.off = <<wpos, Len(blk) + 1>>]
      <4>1. tbl[e.p] \in Elem
        BY <1>2, <1>3, <3>3 DEF Table
      <4>2. re.mem /\ re.off[2] = Len(blk) + 1 /\ re.val = tbl[e.p].val
        BY <4>1 DEF Elem
      <4>3. u = [tbl EXCEPT ![e.p] = re]
        BY <1>2, <1>3, <3>3 DEF AddEvacFragment, Table
      <4> HIDE DEF re, u, n
      <4>4. u[e.p] = re /\ \A q \in Piece \ {e.p} : u[q] = tbl[q]
        BY <1>2, <1>3, <4>3 DEF Table
      <4>5. tbl[e.p].off = <<wpos, e.slot>>
        BY <1>2, <3>3 DEF OwnEntries
      <4>6. ~tbl[e.p].mem
        BY <1>2, <1>3, <2>2, <3>3 DEF Good, InBlock, Listed
      <4>7. found.val = tbl[e.p].val
        BY <1>3, <3>3, <4>5, <4>6 DEF StoreInv, OnDskStores
      <4>8. InMemStores(u, n)
        <5> HIDE DEF found
        <5> QED  BY <2>5, <3>1, <4>2, <4>4, <4>7 DEF InMemStores
      <4>9. OnDskStores(u, dsk)
        BY <4>2, <4>4 DEF StoreInv, OnDskStores
      <4> QED  BY <4>8, <4>9
    <3> QED  BY <3>2, <3>3
  <2> HIDE DEF u, n, es
  <2>7. NextFromWaitNext(u, n, es)
    BY <1>6 DEF u, n
  <2> QED  BY <1>4, <2>4, <2>5, <2>6, <2>7
<1> QED  BY <1>1, <1>5, <1>6

\* A fragment of the block comes to the volume at the slot its element names;
\* what other elements point to is not in the area that is written.
LEMMA OnFlushDoneStores ==
  ASSUME Failing = {}, Inv, PlaceInv, StoreInv, OnFlushDone
  PROVE  StoreInv'
<1> DEFINE t    == CommitDiskWrite(tbl, blk)
           area == [s \in 1..Slots |-> IF s \in 1..Len(blk) THEN blk[s] ELSE dsk[wpos][s]]
<1>1. /\ Good(tbl, blk, wpos) /\ wpos \in Blocks /\ tbl \in Table
      /\ dsk \in [Blocks -> [1..Slots -> Frag \cup {Blank}]]
      /\ dsk' = [dsk EXCEPT ![wpos] = area]
      /\ lap1 \in BOOLEAN /\ wpos' = NextWritePos
      /\ aw = "flush2" /\ pd \in Frag \cup {None} /\ Len(blk) <= Slots
      /\ Len(blk) \in Nat
  BY LenProperties DEF Inv, ReadInv, VolumeInv, Good, OnFlushDone, Flushed
<1>2. /\ \A b \in Blocks \ {wpos} : dsk'[b] = dsk[b]
      /\ \A s \in 1..Len(blk) : dsk'[wpos][s] = blk[s]
  <2>1. \A s \in 1..Len(blk) : area[s] = blk[s]
    BY <1>1, SizesAssumption
  <2> HIDE DEF area
  <2> QED  BY <1>1, <2>1
<1>3. Good(t, <<>>, wpos')
  <2>1. wpos' \in Blocks
    BY <1>1, NextWritePosType
  <2> QED  BY <1>1, <2>1, CommitDiskWriteGood
<1>4. ASSUME NEW p \in Piece, t[p] # None
      PROVE  ~t[p].mem /\ dsk'[t[p].off[1]][t[p].off[2]].val = t[p].val
  <2>1. tbl[p] # None /\ tbl[p] \in Elem
    BY <1>1, <1>4 DEF CommitDiskWrite, Table
  <2>2. /\ t[p].off = tbl[p].off /\ t[p].val = tbl[p].val
        /\ ~t[p].mem
    <3>1. (t[p] = tbl[p] /\ p \notin Listed(blk)) \/ t[p] = [tbl[p] EXCEPT !.mem = FALSE]
      BY <2>1 DEF CommitDiskWrite
    <3>2. p \notin Listed(blk) => ~tbl[p].mem
      BY <1>1, <2>1 DEF Good, InBlock, Listed
    <3> HIDE DEF t
    <3> QED  BY <2>1, <3>1, <3>2 DEF Elem
  <2>3. CASE tbl[p].mem
    <3>1. tbl[p].off[1] = wpos /\ tbl[p].off[2] \in 1..Len(blk)
      BY <1>1, <2>1, <2>3 DEF Good, InBlock
    <3>2. blk[tbl[p].off[2]].val = tbl[p].val
      BY <2>1, <2>3 DEF StoreInv, InMemStores
    <3> HIDE DEF t, area
    <3> QED  BY <1>2, <2>2, <3>1, <3>2
  <2>4. CASE ~tbl[p].mem
    <3>1. tbl[p].off[1] # wpos /\ tbl[p].off[1] \in Blocks
      BY <1>1, <2>1, <2>4 DEF PlaceInv, Placed, PlacedAt, OnVolume, Elem, Offset
    <3>2. dsk[tbl[p].off[1]][tbl[p].off[2]].val = tbl[p].val
      BY <2>1, <2>4 DEF StoreInv, OnDskStores
    <3> HIDE DEF t, area
    <3> QED  BY <1>2, <2>2, <3>1, <3>2
  <2> QED  BY <2>3, <2>4
<1> HIDE DEF t
<1>5. InMemStores(t, <<>>) /\ OnDskStores(t, dsk')
  BY <1>4 DEF InMemStores, OnDskStores
<1>6. CASE lap1'
  <2>1. WritePendData(t, <<>>, wpos')
    BY <1>6 DEF OnFlushDone, t
  <2> QED  BY <1>1, <1>3, <1>5, <2>1, WritePendDataStores DEF StoreInv
<1>7. CASE ~lap1'
  <2>1. tbl' = t /\ blk' = <<>>
    BY <1>7 DEF OnFlushDone, t
  <2> QED  BY <1>5, <2>1 DEF StoreInv
<1> QED  BY <1>6, <1>7

LEMMA WriteStepStores ==
  ASSUME AllInv, NEW w \in WriteHandles, WriteStep(w)
  PROVE  Grows(blk, blk') /\ (StoreInv => StoreInv')
<1>1. /\ Good(tbl, blk, wpos) /\ tbl \in Table /\ Len(blk) \in Nat
      /\ wh \in [WriteHandles -> WriteHandle \cup {None}]
  BY LenProperties DEF AllInv, Inv, ReadInv, WriteInv, Good
<1>2. dsk' = dsk
  BY DEF WriteStep, OpenWrite, OpenTruncate, AsyncWrite, AsyncCloseWrite, ExecWrite,
         ExecClose
<1>3. ASSUME Fewer(tbl, tbl'), blk' = blk
      PROVE  Grows(blk, blk') /\ (StoreInv => StoreInv')
  <2>1. InMemStores(tbl, blk) /\ OnDskStores(tbl, dsk)
          => InMemStores(tbl', blk) /\ OnDskStores(tbl', dsk)
    BY <1>3, FewerStore
  <2> QED  BY <1>1, <1>2, <1>3, <2>1 DEF StoreInv, Grows
<1>4. tbl' = tbl => Fewer(tbl, tbl')
  BY DEF Fewer
<1>5. ASSUME NEW k \in Keys, OpenTruncate(w, k)
      PROVE  Grows(blk, blk') /\ (StoreInv => StoreInv')
  <2>1. Fewer(tbl, tbl') /\ blk' = blk
    BY <1>5 DEF OpenTruncate, Fewer
  <2> QED  BY <1>3, <2>1
<1>6. CASE ExecWrite(w) \/ ExecClose(w)
  <2>1. wh[w] # None /\ wh[w] \in WriteHandle
    BY <1>1, <1>6, HandleTurn, QueuedIsOpen DEF ExecWrite, ExecClose, AllInv
  <2>2. CASE tbl' = tbl /\ blk' = blk
    BY <1>3, <1>4, <2>2
  <2>3. CASE /\ wh[w].cur <= wh[w].hi
             /\ tbl' = AddNewFragment(tbl, blk, wpos, WritePiece(w), wh[w].val).t
             /\ blk' = AddNewFragment(tbl, blk, wpos, WritePiece(w), wh[w].val).b
    <3>1. WritePiece(w) \in Piece /\ wh[w].val \in Gen
      BY <2>1, <2>3, WritePieceType DEF AllInv
    <3> QED  BY <1>1, <1>2, <2>3, <3>1, AddNewFragmentStores DEF StoreInv
  <2>4. ExecWrite(w) => wh[w].cur <= wh[w].hi
    BY <2>1 DEF ExecWrite, AllInv, Inv, WriteInv
  <2> QED  BY <1>6, <2>2, <2>3, <2>4 DEF ExecWrite, ExecClose
<1> QED  BY <1>3, <1>4, <1>5, <1>6 DEF WriteStep, OpenWrite, AsyncWrite, AsyncCloseWrite

LEMMA ReadStepStores ==
  ASSUME ReadInv, NEW r \in ReadHandles, ReadStep(r)
  PROVE  StoreInv => StoreInv'
<1>1. tbl \in Table
  BY DEF ReadInv, Good
<1>2. ASSUME NEW ps,
             \/ tbl' = MarkRead(tbl, ps) /\ ps \subseteq Present(tbl)
             \/ tbl' = UnmarkRead(tbl, ps)
      PROVE  Fewer(tbl, tbl')
  <2> SUFFICES ASSUME NEW p \in Piece, tbl'[p] # None
               PROVE  /\ tbl[p] # None /\ tbl'[p].off = tbl[p].off
                      /\ tbl'[p].mem = tbl[p].mem /\ tbl'[p].val = tbl[p].val
    BY DEF Fewer
  <2>1. CASE p \in ps /\ ps \subseteq Present(tbl)
    <3>1. tbl[p] # None /\ tbl[p] \in Elem
      BY <1>1, <2>1 DEF Present, Table
    <3>2. tbl'[p] = [tbl[p] EXCEPT !.rd = @ + 1] \/ tbl'[p] = [tbl[p] EXCEPT !.rd = @ - 1]
      BY <1>2, <2>1 DEF MarkRead, UnmarkRead
    <3> QED  BY <3>1, <3>2 DEF Elem
  <2>2. CASE ~(p \in ps /\ ps \subseteq Present(tbl))
    <3>1. tbl'[p] = tbl[p]
      BY <1>2, <2>2 DEF MarkRead, UnmarkRead
    <3> QED  BY <3>1
  <2> QED  BY <2>1, <2>2
<1>3. Fewer(tbl, tbl')
  <2>1. CASE tbl' = tbl
    BY <2>1 DEF Fewer
  <2>2. CASE EndRead(r)
    BY <1>2, <2>2 DEF EndRead
  <2>3. ASSUME NEW k \in Keys, NEW lo \in 1..NFrags, NEW hi \in lo..NFrags,
               OpenRead(r, k, lo, hi)
        PROVE  Fewer(tbl, tbl')
    BY <1>2, <2>3 DEF OpenRead
  <2> QED  BY <2>1, <2>2, <2>3
           DEF ReadStep, FindElem, TryReadMem, BeginDiskRead, EndDiskRead, CloseRead, Deliver
<1>4. blk' = blk /\ dsk' = dsk
  BY DEF ReadStep, OpenRead, FindElem, TryReadMem, BeginDiskRead, EndDiskRead, CloseRead
<1>5. InMemStores(tbl, blk) /\ OnDskStores(tbl, dsk)
        => InMemStores(tbl', blk) /\ OnDskStores(tbl', dsk)
  BY <1>3, FewerStore
<1> QED  BY <1>4, <1>5 DEF StoreInv

LEMMA StoresKept ==
  ASSUME Failing = {}, AllInv, PlaceInv, StoreInv, OwnEntries, [Next]_vars
  PROVE  StoreInv'
<1>1. CASE AggWriterStep
  <2>1. CASE BeginIoOp
    BY <2>1 DEF BeginIoOp, StoreInv
  <2> QED  BY <1>1, <2>1, OnMdReadStores, OnEvacDoneStores, OnFlushDoneStores
           DEF AggWriterStep, AllInv
<1>2. ASSUME NEW w \in WriteHandles, WriteStep(w) PROVE StoreInv'
  BY <1>2, WriteStepStores
<1>3. ASSUME NEW r \in ReadHandles, ReadStep(r) PROVE StoreInv'
  BY <1>3, ReadStepStores DEF AllInv, Inv
<1>4. CASE UNCHANGED vars
  BY <1>4 DEF vars, StoreInv
<1> QED  BY <1>1, <1>2, <1>3, <1>4 DEF Next

\* The match of an old entry with a newer element is all that is wrong with
\* evacuation (section 4 of the README): as long as every entry under
\* evacuation is that of the element itself, and no disk operation fails,
\* objects may change and be truncated at any time, and evacuation moves what
\* an element stands for, and an element that is not in memory has its content
\* on the volume.
THEOREM EvacuationMovesOwn ==
  ASSUME Failing = {}
  PROVE  Spec /\ []OwnEntries => [](EvacuationMoves /\ OnDiskIsOnDisk)
<1>1. AllInv /\ PlaceInv /\ StoreInv => EvacuationMoves /\ OnDiskIsOnDisk
  <2> SUFFICES ASSUME AllInv, PlaceInv, StoreInv
               PROVE  EvacuationMoves /\ OnDiskIsOnDisk
    OBVIOUS
  <2>1. EvacuationMoves
    BY DEF EvacuationMoves, Present, StoreInv, InMemStores
  <2>2. ASSUME NEW p \in Present(tbl), ~tbl[p].mem
        PROVE  dsk[tbl[p].off[1]][tbl[p].off[2]] = [p |-> p, val |-> tbl[p].val]
    <3> DEFINE stored == dsk[tbl[p].off[1]][tbl[p].off[2]]
    <3>1. /\ p \in Piece /\ tbl[p] # None /\ tbl[p] \in Elem
          /\ dsk \in [Blocks -> [1..Slots -> Frag \cup {Blank}]]
      BY DEF Present, AllInv, Inv, ReadInv, VolumeInv, Good, Table
    <3>2. tbl[p].off[1] \in Blocks /\ tbl[p].off[2] \in 1..Slots
      BY <3>1 DEF Elem, Offset
    <3>3. /\ stored \in Frag \cup {Blank}
          /\ stored.p = p /\ stored.val = tbl[p].val
      BY <2>2, <3>1, <3>2 DEF PlaceInv, Placed, PlacedAt, OnVolume, StoreInv, OnDskStores
    <3> HIDE DEF stored
    <3>4. stored \in Frag
      <4>1. Blank.p = None /\ None \notin Piece
        BY NoneAssumption DEF Blank
      <4> QED  BY <3>1, <3>3, <4>1
    <3>5. stored = [p |-> p, val |-> tbl[p].val]
      BY <3>3, <3>4 DEF Frag
    <3> QED  BY <3>5 DEF stored
  <2> QED  BY <2>1, <2>2 DEF OnDiskIsOnDisk
<1>2. Init => StoreInv
  BY DEF Init, StoreInv, InMemStores, OnDskStores
<1>3. AllInv /\ PlaceInv /\ StoreInv /\ OwnEntries /\ [Next]_vars => StoreInv'
  BY StoresKept
<1> QED  BY <1>1, <1>2, <1>3, Invariance, PlaceInvariance, PTL DEF Spec

-----------------------------------------------------------------------------
(* The copies of elements that readers work with.                          *)

\* Only the end of a flush takes anything away from the block or the volume.
LEMMA BlockGrows ==
  ASSUME AllInv, [Next]_vars, ~OnFlushDone
  PROVE  Grows(blk, blk') /\ dsk' = dsk /\ wpos' = wpos
<1>1. blk' = blk => Grows(blk, blk')
  <2>1. Len(blk) \in Nat
    BY LenProperties DEF AllInv, Inv, ReadInv, Good
  <2> QED  BY <2>1 DEF Grows
<1>2. CASE AggWriterStep
  <2>1. CASE BeginIoOp
    BY <1>1, <2>1 DEF BeginIoOp
  <2>2. CASE OnMdRead
    BY <2>2, OnMdReadStores DEF OnMdRead, AllInv
  <2>3. CASE OnEvacDone
    BY <2>3, OnEvacDoneStores DEF OnEvacDone, AllInv
  <2> QED  BY <1>2, <2>1, <2>2, <2>3 DEF AggWriterStep
<1>3. ASSUME NEW w \in WriteHandles, WriteStep(w)
      PROVE  Grows(blk, blk') /\ dsk' = dsk /\ wpos' = wpos
  <2>1. dsk' = dsk /\ wpos' = wpos
    BY <1>3 DEF WriteStep, OpenWrite, OpenTruncate, AsyncWrite, AsyncCloseWrite, ExecWrite,
                ExecClose
  <2> QED  BY <1>3, <2>1, WriteStepStores
<1>4. ASSUME NEW r \in ReadHandles, ReadStep(r)
      PROVE  Grows(blk, blk') /\ dsk' = dsk /\ wpos' = wpos
  BY <1>1, <1>4 DEF ReadStep, OpenRead, FindElem, TryReadMem, BeginDiskRead, EndDiskRead,
                    CloseRead
<1>5. CASE UNCHANGED vars
  BY <1>1, <1>5 DEF vars
<1> QED  BY <1>2, <1>3, <1>4, <1>5 DEF Next

\* A reader whose handle does not change keeps what its copy leads to: the
\* block only grows, and a flush writes over nothing an element points to.
LEMMA OthersKeepCopy ==
  ASSUME Failing = {}, AllInv, AllInv', PlaceInv', [Next]_vars,
         NEW r \in ReadHandles, rh'[r] = rh[r], HasCopy(r), CopyLeads(r),
         tbl'[ReadPiece(r)] # None, tbl'[ReadPiece(r)].off = rh[r].el.off
  PROVE  CopyLeads(r)'
<1> DEFINE p   == ReadPiece(r)
           off == rh[r].el.off
<1>1. /\ rh[r] \in ReadHandle /\ blk \in Seq(Frag) /\ Len(blk) \in Nat
      /\ wpos \in Blocks /\ Len(blk) <= Slots
      /\ dsk \in [Blocks -> [1..Slots -> Frag \cup {Blank}]]
  BY LenProperties DEF HasCopy, AllInv, Inv, ReadInv, VolumeInv, Good
<1>2. p \in Piece /\ off \in Offset
  BY <1>1 DEF HasCopy, ReadHandle, ElemCopy, Piece, ReadPiece
<1>3. off[1] \in Blocks /\ off[2] \in 1..Slots
  BY <1>2 DEF Offset
<1>4. ReadPiece(r)' = p /\ rh'[r].el.off = off /\ rh'[r].pc = rh[r].pc
  BY DEF ReadPiece
<1>5. CASE ~OnFlushDone
  <2>1. Grows(blk, blk') /\ dsk' = dsk /\ wpos' = wpos
    BY <1>5, BlockGrows
  <2>2. /\ Len(blk') \in Nat
    BY LenProperties DEF AllInv, Inv, ReadInv, Good
  <2> HIDE DEF p, off
  <2>3. HasEntry(p, off) => /\ off[1] = wpos' /\ off[2] \in 1..Len(blk')
                            /\ blk'[off[2]].p = p
    <3> SUFFICES ASSUME HasEntry(p, off)
                 PROVE  off[2] \in 1..Len(blk') /\ blk'[off[2]].p = p
      BY <2>1 DEF HasEntry
    <3>1. off[2] \in 1..Len(blk) /\ blk[off[2]].p = p
      BY DEF HasEntry
    <3> QED  BY <1>1, <2>1, <2>2, <3>1 DEF Grows
  <2>4. (rh[r].pc = "found" /\ HasEntry(p, off)) \/ dsk[off[1]][off[2]].p = p
    BY DEF CopyLeads, p, off
  <2> QED  BY <1>4, <2>1, <2>3, <2>4 DEF CopyLeads, HasEntry
<1>6. CASE OnFlushDone
  <2>1. wpos' \in Blocks /\ wpos' # wpos
    BY <1>1, <1>6, NextWritePosType, SizesAssumption
       DEF OnFlushDone, NextWritePos, Blocks
  <2>2. CASE off[1] # wpos
    <3>1. dsk[off[1]][off[2]].p = p
      BY <2>2 DEF CopyLeads, HasEntry
    <3>2. dsk'[off[1]] = dsk[off[1]]
      <4>1. PICK area : dsk' = [dsk EXCEPT ![wpos] = area]
        BY <1>6 DEF OnFlushDone, Flushed
      <4> HIDE DEF off
      <4> QED  BY <1>1, <1>3, <2>2, <4>1
    <3> HIDE DEF p, off
    <3> QED  BY <1>4, <3>1, <3>2 DEF CopyLeads
  <2>3. CASE off[1] = wpos
    <3>1. ~tbl'[p].mem
      <4>1. tbl'[p].mem => tbl'[p].off[1] = wpos'
        BY <1>2 DEF AllInv, Inv, ReadInv, Good, InBlock
      <4> QED  BY <2>1, <2>3, <4>1
    <3>2. dsk'[off[1]][off[2]].p = p
      BY <1>2, <3>1 DEF PlaceInv, Placed, OnVolume, PlacedAt
    <3> HIDE DEF p, off
    <3> QED  BY <1>4, <3>2 DEF CopyLeads
  <2> QED  BY <2>2, <2>3
<1> QED  BY <1>5, <1>6

\* The reader's own steps: the copy is taken of an element that is where it
\* says, and a reader that does not find the fragment in the block goes on to
\* the volume.
LEMMA OwnKeepsCopy ==
  ASSUME Failing = {}, AllInv, PlaceInv, NEW r \in ReadHandles, ReadStep(r),
         HasCopy(r)', HasCopy(r) => CopyLeads(r)
  PROVE  CopyLeads(r)'
<1>1. /\ rh \in [ReadHandles -> ReadHandle \cup {None}] /\ tbl \in Table
      /\ InBlock(tbl, blk, wpos)
  BY DEF AllInv, Inv, ReadInv, Good
<1>2. rh'[r] # None /\ rh'[r].el # None
  BY DEF HasCopy
<1>3. CASE FindElem(r)
  <2> DEFINE p == ReadPiece(r)
             e == tbl[p]
             h == [rh[r] EXCEPT !.el = [off |-> e.off, mem |-> e.mem],
                                !.pc = IF e.mem THEN "found" ELSE "disk"]
  <2>1. rh[r] # None /\ rh[r] \in ReadHandle /\ dsk' = dsk /\ blk' = blk /\ wpos' = wpos
    BY <1>1, <1>3 DEF FindElem
  <2>2. p \in Piece
    BY <2>1 DEF ReadHandle, Piece, ReadPiece
  <2>3. e # None /\ rh' = [rh EXCEPT ![r] = h]
    BY <1>1, <1>2, <1>3 DEF FindElem, EndRead
  <2>4. /\ h.el = [off |-> e.off, mem |-> e.mem] /\ h.k = rh[r].k /\ h.cur = rh[r].cur
        /\ h.pc = IF e.mem THEN "found" ELSE "disk"
    BY <2>1 DEF ReadHandle
  <2>5. rh'[r] = h
    <3> HIDE DEF h
    <3> QED  BY <1>1, <2>3
  <2>6. rh'[r].el.off = e.off /\ ReadPiece(r)' = p /\ (e.mem => rh'[r].pc = "found")
    <3> HIDE DEF h, e
    <3> QED  BY <2>4, <2>5 DEF ReadPiece
  <2>7. e.mem => HasEntry(p, e.off)
    BY <1>1, <2>2, <2>3 DEF InBlock, HasEntry
  <2>8. ~e.mem => dsk[e.off[1]][e.off[2]].p = p
    BY <2>2, <2>3 DEF PlaceInv, Placed, OnVolume, PlacedAt
  <2> HIDE DEF p, e, h
  <2>9. CASE e.mem
    <3>1. blk'[e.off[2]].p = p /\ e.off[1] = wpos' /\ e.off[2] \in 1..Len(blk')
      BY <2>1, <2>7, <2>9 DEF HasEntry
    <3> QED  BY <2>6, <2>9, <3>1 DEF CopyLeads, HasEntry
  <2>10. CASE ~e.mem
    BY <2>1, <2>6, <2>8, <2>10 DEF CopyLeads
  <2> QED  BY <2>9, <2>10
<1>4. ASSUME NEW s, rh' = [rh EXCEPT ![r] = s], s # None, rh[r] # None,
             s.el = rh[r].el, s.k = rh[r].k, s.cur = rh[r].cur,
             dsk' = dsk, rh[r].pc = "found" => ~HasEntry(ReadPiece(r), rh[r].el.off)
      PROVE  CopyLeads(r)'
  <2>1. rh'[r] = s
    BY <1>1, <1>4
  <2>2. dsk[rh[r].el.off[1]][rh[r].el.off[2]].p = ReadPiece(r)
    BY <1>2, <1>4, <2>1 DEF HasCopy, CopyLeads
  <2>3. ReadPiece(r)' = ReadPiece(r)
    BY <1>4, <2>1 DEF ReadPiece
  <2> QED  BY <1>4, <2>1, <2>2, <2>3 DEF CopyLeads
<1>5. CASE TryReadMem(r)
  <2>1. rh[r] # None /\ rh[r] \in ReadHandle /\ dsk' = dsk
    BY <1>1, <1>5 DEF TryReadMem
  <2>2. ~Deliver(r)
    <3>1. Deliver(r) => rh'[r] = None \/ rh'[r].el = None
      <4>1. CASE rh' = [rh EXCEPT ![r].pc = "ready", ![r].cur = @ + 1,
                                  ![r].el = None, ![r].lk = FALSE]
        <5>1. rh'[r] = [rh[r] EXCEPT !.pc = "ready", !.cur = @ + 1, !.el = None, !.lk = FALSE]
          BY <1>1, <4>1
        <5> QED  BY <2>1, <5>1 DEF ReadHandle
      <4> QED  BY <1>1, <4>1 DEF Deliver, EndRead
    <3> QED  BY <1>2, <3>1
  <2>3. ~HasEntry(ReadPiece(r), rh[r].el.off) /\ rh' = [rh EXCEPT ![r].pc = "disk"]
    BY <1>5, <2>2 DEF TryReadMem
  <2> DEFINE s == [rh[r] EXCEPT !.pc = "disk"]
  <2>4. /\ rh' = [rh EXCEPT ![r] = s] /\ s.el = rh[r].el /\ s.k = rh[r].k
        /\ s.cur = rh[r].cur /\ s \in ReadHandle
    BY <1>1, <2>1, <2>3 DEF ReadHandle
  <2>5. s # None
    BY <2>4, NoneAssumption
  <2> HIDE DEF s
  <2> QED  BY <1>4, <2>1, <2>3, <2>4, <2>5
<1>6. CASE BeginDiskRead(r)
  <2>1. /\ rh[r] # None /\ rh[r] \in ReadHandle /\ dsk' = dsk /\ rh[r].pc = "disk"
        /\ rh' = [rh EXCEPT ![r].pc = "reading", ![r].lk = LockNeeded(rh[r].el.off[1])]
    BY <1>1, <1>6 DEF BeginDiskRead
  <2> DEFINE s == [rh[r] EXCEPT !.pc = "reading", !.lk = LockNeeded(rh[r].el.off[1])]
  <2>2. LockNeeded(rh[r].el.off[1]) \in BOOLEAN
    BY DEF LockNeeded
  <2>3. /\ rh' = [rh EXCEPT ![r] = s] /\ s.el = rh[r].el /\ s.k = rh[r].k
        /\ s.cur = rh[r].cur /\ s \in ReadHandle
    <3> DEFINE lk == LockNeeded(rh[r].el.off[1])
    <3> HIDE DEF lk
    <3> QED  BY <1>1, <2>1, <2>2 DEF ReadHandle, lk
  <2>4. s # None
    BY <2>3, NoneAssumption
  <2> HIDE DEF s
  <2> QED  BY <1>4, <2>1, <2>3, <2>4
<1>7. CASE EndDiskRead(r) \/ CloseRead(r)
           \/ \E k \in Keys : \E lo \in 1..NFrags : \E hi \in lo..NFrags :
                OpenRead(r, k, lo, hi)
  <2>1. ~EndRead(r)
    BY <1>1, <1>2 DEF EndRead
  <2>2. rh'[r].el = None
    <3>1. CASE EndDiskRead(r)
      <4>1. rh[r] # None /\ rh[r] \in ReadHandle
        BY <1>1, <3>1 DEF EndDiskRead
      <4>2. rh' = [rh EXCEPT ![r].pc = "ready", ![r].cur = @ + 1,
                             ![r].el = None, ![r].lk = FALSE]
        BY <2>1, <3>1 DEF EndDiskRead, Deliver
      <4>3. rh'[r] = [rh[r] EXCEPT !.pc = "ready", !.cur = @ + 1, !.el = None, !.lk = FALSE]
        BY <1>1, <4>2
      <4> QED  BY <4>1, <4>3 DEF ReadHandle
    <3>2. ASSUME NEW k \in Keys, NEW lo \in 1..NFrags, NEW hi \in lo..NFrags,
                 OpenRead(r, k, lo, hi)
          PROVE  rh'[r].el = None
      <4>1. rh' = [rh EXCEPT ![r] = [pc |-> "ready", k |-> k, lo |-> lo, hi |-> hi,
                                     cur |-> lo, el |-> None, lk |-> FALSE]]
        BY <3>2 DEF OpenRead
      <4> QED  BY <1>1, <4>1
    <3> QED  BY <1>7, <2>1, <3>1, <3>2 DEF CloseRead
  <2> QED  BY <1>2, <2>2
<1> QED  BY <1>3, <1>5, <1>6, <1>7 DEF ReadStep

\* CopiesLead: without failing disk operations a reader's copy leads to its
\* fragment when it is taken, and does so until the element has been moved.
THEOREM CopiesAlwaysLead ==
  ASSUME Failing = {} PROVE Spec => CopiesLead
<1> DEFINE Stays(r) ==
      LET p == ReadPiece(r)' IN
      (/\ HasCopy(r)' /\ (HasCopy(r) => CopyLeads(r))
       /\ tbl'[p] # None /\ tbl'[p].off = rh'[r].el.off)
      => CopyLeads(r)'
<1>1. ASSUME AllInv, AllInv', PlaceInv, PlaceInv', [Next]_vars, NEW r \in ReadHandles
      PROVE  Stays(r)
  <2> SUFFICES ASSUME HasCopy(r)', HasCopy(r) => CopyLeads(r),
                      tbl'[ReadPiece(r)'] # None,
                      tbl'[ReadPiece(r)'].off = rh'[r].el.off
               PROVE  CopyLeads(r)'
    OBVIOUS
  <2>1. CASE ReadStep(r)
    BY <1>1, <2>1, OwnKeepsCopy
  <2>2. CASE rh'[r] = rh[r]
    <3>1. HasCopy(r) /\ ReadPiece(r)' = ReadPiece(r)
      BY <2>2 DEF HasCopy, ReadPiece
    <3> QED  BY <1>1, <2>2, <3>1, OthersKeepCopy
  <2>3. ASSUME NEW q \in ReadHandles, q # r, ReadStep(q) PROVE rh'[r] = rh[r]
    <3>1. \E h : rh' = [rh EXCEPT ![q] = h]
      <4>1. rh \in [ReadHandles -> ReadHandle \cup {None}]
        BY <1>1 DEF AllInv, Inv, ReadInv
      <4> QED  BY <2>3, <4>1 DEF ReadStep, OpenRead, FindElem, TryReadMem, BeginDiskRead,
                                 EndDiskRead, CloseRead, Deliver, EndRead
    <3> QED  BY <1>1, <2>3, <3>1 DEF AllInv, Inv, ReadInv
  <2>4. ASSUME NEW w \in WriteHandles, WriteStep(w) PROVE rh' = rh
    BY <2>4 DEF WriteStep, OpenWrite, OpenTruncate, AsyncWrite, AsyncCloseWrite, ExecWrite,
                ExecClose
  <2>5. AggWriterStep => rh' = rh
    BY DEF AggWriterStep, BeginIoOp, OnMdRead, OnEvacDone, OnFlushDone
  <2>6. UNCHANGED vars => rh' = rh
    BY DEF vars
  <2> QED  BY <1>1, <2>1, <2>2, <2>3, <2>4, <2>5, <2>6 DEF Next
<1>2. AllInv /\ AllInv' /\ PlaceInv /\ PlaceInv' /\ [Next]_vars
        => [\A r \in ReadHandles : Stays(r)]_vars
  <2> HIDE DEF Stays
  <2> QED  BY <1>1
<1>3. CopiesLead <=> [][\A r \in ReadHandles : Stays(r)]_vars
  BY DEF CopiesLead
<1> HIDE DEF Stays
<1> QED  BY <1>2, <1>3, Invariance, PlaceInvariance, PTL DEF Spec

=============================================================================

-------------------------- MODULE CacheMgr_proofs --------------------------
(***************************************************************************)
(* Proofs about CacheMgr, for any volumes, open handles and error limit.   *)
(*                                                                         *)
(* The rounds of metadata syncs have one token: the timer, a continuation  *)
(* among the posted handlers or a sync in progress; OneToken says that it  *)
(* is never doubled, HadTurn what the round has done when the token is at  *)
(* a volume.  Linked1 says in which one list each open handle is and how   *)
(* often its handler was called there.                                     *)
(***************************************************************************)
EXTENDS CacheMgr, FiniteSetTheorems, SequenceTheorems, WellFoundedInduction, TLAPS

Typed ==
  /\ mode \in {"run", "stop", "close", "down"}
  /\ fss \subseteq Vols /\ tmr \in BOOLEAN /\ seen \subseteq Vols
  /\ posted \in Seq(Handler)
  /\ svc \in [Vols -> {"up", "stopping", "clearing", "down"}]
  /\ rq \in [Vols -> Seq(Opens)] /\ thr \in [Vols -> Opens \cup {None}]
  /\ rel \in [Vols -> Seq(Opens)] /\ told \in [Vols -> Nat]
  /\ sync \in [Vols -> {"none", "queued", "writing"}]
  /\ op \in [Opens -> [pc: {"idle", "chosen", "asked", "closed"}, vol: Vols \cup {None}]]
  /\ ans \in [Opens -> Nat]
  /\ \A c \in Opens : op[c].pc # "idle" => op[c].vol \in Vols

SyncAt(i) == i \in 1..Len(posted) /\ posted[i].what = "sync"
Busy(v)   == v \in Vols /\ sync[v] # "none"

OneToken ==
  /\ \A i, j \in 1..Len(posted) : SyncAt(i) /\ SyncAt(j) => i = j
  /\ \A v, w \in Vols : Busy(v) /\ Busy(w) => v = w
  /\ \A i \in 1..Len(posted), v \in Vols : ~(SyncAt(i) /\ Busy(v))
  /\ tmr => \A i \in 1..Len(posted) : ~SyncAt(i)
  /\ tmr => \A v \in Vols : ~Busy(v)

HadTurn ==
  /\ \A i \in 1..Len(posted) : SyncAt(i) /\ posted[i].vol # None =>
       \A u \in fss : u <= posted[i].vol => u \in seen
  /\ \A v \in Vols : Busy(v) => \A u \in fss : u <= v => u \in seen

-----------------------------------------------------------------------------
(* The handlers that are posted.                                           *)

LEMMA PostIs ==
  ASSUME NEW q \in Seq(Handler), NEW what \in {"sync", "bad"}, NEW v,
         [what |-> what, vol |-> v] \in Handler
  PROVE  /\ Post(q, what, v) \in Seq(Handler)
         /\ Len(Post(q, what, v)) \in {Len(q), Len(q) + 1}
         /\ Len(q) \in Nat
         /\ \A i \in 1..Len(q) : Post(q, what, v)[i] = q[i]
         /\ \A i \in 1..Len(Post(q, what, v)) : i \notin 1..Len(q) =>
              i = Len(q) + 1 /\ Post(q, what, v)[i] = [what |-> what, vol |-> v]
<1> DEFINE h == [what |-> what, vol |-> v]
<1>1. /\ Append(q, h) \in Seq(Handler)
      /\ Len(Append(q, h)) = Len(q) + 1
      /\ \A i \in 1..Len(q) : Append(q, h)[i] = q[i]
      /\ Append(q, h)[Len(q) + 1] = h
      /\ Len(q) \in Nat
  BY AppendProperties, LenProperties
<1>2. Post(q, what, v) \in {q, Append(q, h)}
  BY DEF Post
<1> HIDE DEF h
<1>3. CASE Post(q, what, v) = q
  BY <1>1, <1>3
<1>4. CASE Post(q, what, v) = Append(q, h)
  BY <1>1, <1>4 DEF h
<1> QED  BY <1>2, <1>3, <1>4

LEMMA HandlersAre ==
  /\ \A v \in Vols : /\ [what |-> "sync", vol |-> v] \in Handler
                     /\ [what |-> "bad", vol |-> v] \in Handler
  /\ [what |-> "sync", vol |-> None] \in Handler
  /\ \A h \in Handler : /\ h.what \in {"sync", "bad"}
                        /\ h.vol \in Vols \cup {None}
                        /\ h.what = "bad" => h.vol \in Vols
  BY DEF Handler

LEMMA TailIs ==
  ASSUME NEW S, NEW q \in Seq(S), q # <<>>
  PROVE  /\ Tail(q) \in Seq(S) /\ Len(Tail(q)) = Len(q) - 1 /\ Len(q) \in Nat \ {0}
         /\ \A i \in 1..Len(Tail(q)) : i + 1 \in 1..Len(q) /\ Tail(q)[i] = q[i + 1]
         /\ Head(q) = q[1] /\ q[1] \in S /\ 1 \in 1..Len(q)
<1>1. Len(q) \in Nat \ {0}
  BY EmptySeq
<1>2. q[1] \in S
  BY <1>1, ElementOfSeq
<1> QED  BY <1>1, <1>2, HeadTailProperties

LEMMA ErrorPosts ==
  ASSUME posted \in Seq(Handler), NEW v \in Vols
  PROVE  /\ DiskError(v) \in Seq(Handler)
         /\ \A i \in 1..Len(posted) : DiskError(v)[i] = posted[i]
         /\ \A i \in 1..Len(DiskError(v)) : i \notin 1..Len(posted) =>
              DiskError(v)[i].what = "bad"
         /\ Len(DiskError(v)) \in {Len(posted), Len(posted) + 1} /\ Len(posted) \in Nat
<1>1. DiskError(v) \in {posted, Post(posted, "bad", v)}
  BY DEF DiskError
<1>2. CASE DiskError(v) = posted
  BY <1>2, LenProperties
<1>3. CASE DiskError(v) = Post(posted, "bad", v)
  <2> DEFINE q == Post(posted, "bad", v)
             h == [what |-> "bad", vol |-> v]
  <2>1. h \in Handler /\ h.what = "bad"
    BY HandlersAre
  <2>2. /\ q \in Seq(Handler) /\ Len(q) \in {Len(posted), Len(posted) + 1}
        /\ Len(posted) \in Nat
        /\ \A i \in 1..Len(posted) : q[i] = posted[i]
        /\ \A i \in 1..Len(q) : i \notin 1..Len(posted) => q[i] = h
    BY <2>1, PostIs
  <2> HIDE DEF q, h
  <2> QED  BY <1>3, <2>1, <2>2 DEF q
<1> QED  BY <1>1, <1>2, <1>3

-----------------------------------------------------------------------------
(* The types.                                                              *)

Less == OpToRel(<, Nat)

LEMMA NextVolIs ==
  ASSUME Typed, NEW prev, NextVols(prev) # {}
  PROVE  LET v == CHOOSE u \in NextVols(prev) : \A w \in NextVols(prev) : u <= w IN
         /\ v \in NextVols(prev) /\ v \in fss /\ v \in Vols /\ v \in Nat
         /\ \A w \in NextVols(prev) : v <= w
<1>1. NextVols(prev) \subseteq fss /\ fss \subseteq Vols /\ Vols \subseteq Nat
  BY VolsAssumption DEF Typed, NextVols
<1>2. IsWellFoundedOn(Less, Nat)
  BY NatLessThanWellFounded, Zenon DEF Less
<1>3. PICK m \in NextVols(prev) : \A x \in NextVols(prev) : ~(<<x, m>> \in Less)
  <2>1. NextVols(prev) \subseteq Nat
    BY <1>1
  <2> QED  BY <1>2, <2>1, WFMin
<1>4. ASSUME NEW x \in NextVols(prev) PROVE m <= x
  <2>1. m \in Nat /\ x \in Nat
    BY <1>1
  <2>2. ~(x < m)
    <3>1. <<x, m>> \in Nat \X Nat
      BY <2>1
    <3>2. <<x, m>>[1] = x /\ <<x, m>>[2] = m
      OBVIOUS
    <3> QED  BY <1>3, <3>1, <3>2, Zenon DEF Less, OpToRel
  <2> QED  BY <2>1, <2>2
<1> QED  BY <1>1, <1>4

\* The position a handle is unlinked from is that of the handle, if it is there.
LEMMA WithoutIs ==
  ASSUME NEW q \in Seq(Opens), NEW c
  PROVE  /\ Without(q, c) \in Seq(Opens)
         /\ \E p \in 1..(Len(q) + 1) :
              /\ p <= Len(q) => q[p] = c
              /\ p > Len(q) => \A i \in 1..Len(q) : q[i] # c
              /\ Len(Without(q, c)) = IF p <= Len(q) THEN Len(q) - 1 ELSE Len(q)
              /\ \A i \in 1..Len(Without(q, c)) :
                   Without(q, c)[i] = q[IF i < p THEN i ELSE i + 1]
<1>0. Len(q) \in Nat
  BY LenProperties
<1>1. CASE \A i \in 1..Len(q) : q[i] # c
  <2> DEFINE p == Len(q) + 1
  <2>1. Without(q, c) = q
    BY <1>1 DEF Without
  <2>2. p \in 1..(Len(q) + 1) /\ ~(p <= Len(q)) /\ \A i \in 1..Len(q) : i < p
    BY <1>0
  <2> HIDE DEF p
  <2>3. \A i \in 1..Len(q) : q[i] = q[IF i < p THEN i ELSE i + 1]
    BY <2>2
  <2> QED  BY <1>1, <2>1, <2>2, <2>3
<1>2. CASE \E i \in 1..Len(q) : q[i] = c
  <2> DEFINE p == CHOOSE i \in 1..Len(q) : q[i] = c
  <2>1. p \in 1..Len(q) /\ q[p] = c
    BY <1>2
  <2>2. Without(q, c) = RemoveAt(q, p)
    BY <1>2 DEF Without
  <2> HIDE DEF p
  <2> DEFINE a == SubSeq(q, 1, p - 1)
             b == SubSeq(q, p + 1, Len(q))
  <2>3. /\ a \in Seq(Opens) /\ Len(a) = p - 1
        /\ \A i \in 1..(p - 1) : a[i] = q[i]
    <3>1. \A i \in 1..(p - 1) : q[i] \in Opens
      BY <2>1, <1>0, ElementOfSeq
    <3>2. p - 1 \in Int /\ 1 \in Int
      BY <2>1, <1>0
    <3>3. /\ a \in Seq(Opens)
          /\ Len(a) = IF 1 <= p - 1 THEN p - 1 - 1 + 1 ELSE 0
          /\ \A i \in 1..(p - 1 - 1 + 1) : a[i] = q[1 + i - 1]
      BY <3>1, <3>2, SubSeqProperties
    <3> HIDE DEF a
    <3> QED  BY <3>3, <2>1, <1>0
  <2>4. /\ b \in Seq(Opens) /\ Len(b) = Len(q) - p
        /\ \A i \in 1..(Len(q) - p) : b[i] = q[p + i]
    <3>1. \A i \in (p + 1)..Len(q) : q[i] \in Opens
      BY <2>1, <1>0, ElementOfSeq
    <3>2. p + 1 \in Int /\ Len(q) \in Int
      BY <2>1, <1>0
    <3>3. /\ b \in Seq(Opens)
          /\ Len(b) = IF p + 1 <= Len(q) THEN Len(q) - (p + 1) + 1 ELSE 0
          /\ \A i \in 1..(Len(q) - (p + 1) + 1) : b[i] = q[p + 1 + i - 1]
      BY <3>1, <3>2, SubSeqProperties
    <3> HIDE DEF b
    <3> QED  BY <3>3, <2>1, <1>0
  <2>5. Without(q, c) = a \o b
    BY <2>2 DEF RemoveAt
  <2> HIDE DEF a, b
  <2>6. /\ a \o b \in Seq(Opens) /\ Len(a \o b) = Len(a) + Len(b)
        /\ \A i \in 1..(Len(a) + Len(b)) :
             (a \o b)[i] = IF i <= Len(a) THEN a[i] ELSE b[i - Len(a)]
    BY <2>3, <2>4, ConcatProperties
  <2>7. Len(a \o b) = Len(q) - 1
    BY <2>1, <2>3, <2>4, <2>6, <1>0
  <2>8. ASSUME NEW i \in 1..(Len(q) - 1)
        PROVE  (a \o b)[i] = q[IF i < p THEN i ELSE i + 1]
    <3>1. CASE i < p
      BY <3>1, <2>1, <2>3, <2>4, <2>6, <1>0
    <3>2. CASE ~(i < p)
      <4>1. (a \o b)[i] = b[i - (p - 1)]
        BY <3>2, <2>1, <2>3, <2>4, <2>6, <1>0
      <4>2. i - (p - 1) \in 1..(Len(q) - p) /\ p + (i - (p - 1)) = i + 1
        BY <3>2, <2>1, <1>0
      <4> QED  BY <3>2, <4>1, <4>2, <2>4
    <3> QED  BY <3>1, <3>2
  <2>9. p \in 1..(Len(q) + 1) /\ p <= Len(q)
    BY <2>1, <1>0
  <2>10. /\ q[p] = c /\ p <= Len(q)
         /\ Len(Without(q, c)) = Len(q) - 1
         /\ \A i \in 1..Len(Without(q, c)) :
              Without(q, c)[i] = q[IF i < p THEN i ELSE i + 1]
    BY <2>1, <2>5, <2>7, <2>8, <2>9
  <2>11. ~(p > Len(q))
    BY <2>1, <1>0
  <2>12. \E r \in 1..(Len(q) + 1) :
           /\ r <= Len(q) => q[r] = c
           /\ r > Len(q) => \A i \in 1..Len(q) : q[i] # c
           /\ Len(Without(q, c)) = IF r <= Len(q) THEN Len(q) - 1 ELSE Len(q)
           /\ \A i \in 1..Len(Without(q, c)) :
                Without(q, c)[i] = q[IF i < r THEN i ELSE i + 1]
    <3>1. p \in 1..(Len(q) + 1)
      BY <2>9
    <3> WITNESS p \in 1..(Len(q) + 1)
    <3> QED  BY <2>10, <2>11
  <2> QED  BY <2>5, <2>6, <2>12
<1> QED  BY <1>1, <1>2

LEMMA OpMoves ==
  ASSUME Typed, NEW c \in Opens, op[c].pc # "idle", NEW pc \in {"asked", "closed"},
         op' = [op EXCEPT ![c].pc = pc]
  PROVE  /\ op' \in [Opens -> [pc: {"idle", "chosen", "asked", "closed"}, vol: Vols \cup {None}]]
         /\ op'[c].pc = pc /\ op'[c].vol = op[c].vol /\ op[c].vol \in Vols
         /\ \A d \in Opens : d # c => op'[d] = op[d]
         /\ \A d \in Opens : op'[d].pc # "idle" => op'[d].vol \in Vols
<1>1. /\ op[c] \in [pc: {"idle", "chosen", "asked", "closed"}, vol: Vols \cup {None}]
      /\ op[c].vol \in Vols
  BY DEF Typed
<1>2. op' = [op EXCEPT ![c] = [op[c] EXCEPT !.pc = pc]]
  OBVIOUS
<1>3. [op[c] EXCEPT !.pc = pc] = [pc |-> pc, vol |-> op[c].vol]
  BY <1>1
<1>4. op' = [op EXCEPT ![c] = [pc |-> pc, vol |-> op[c].vol]]
  BY <1>2, <1>3
<1>5. op'[c] = [pc |-> pc, vol |-> op[c].vol] /\ \A d \in Opens : d # c => op'[d] = op[d]
  BY <1>4 DEF Typed
<1>6. op' \in [Opens -> [pc: {"idle", "chosen", "asked", "closed"}, vol: Vols \cup {None}]]
  BY <1>1, <1>4, ZenonT(60) DEF Typed
<1>7. \A d \in Opens : op'[d].pc # "idle" => op'[d].vol \in Vols
  BY <1>1, <1>5 DEF Typed
<1> QED  BY <1>1, <1>5, <1>6, <1>7

LEMMA TypedKept ==
  ASSUME Typed, [Next]_vars
  PROVE  Typed'
<1> USE DEF Typed
<1>1. CASE TimerFires
  <2>1. [what |-> "sync", vol |-> None] \in Handler /\ posted \in Seq(Handler)
    BY HandlersAre
  <2>2. posted' \in Seq(Handler)
    BY <1>1, <2>1, PostIs DEF TimerFires
  <2> QED  BY <1>1, <2>2 DEF TimerFires, svcVars, opVars
<1>2. CASE Stop
  <2>1. posted' \in Seq(Handler)
    BY <1>2, EmptySeq DEF Stop
  <2> QED  BY <1>2, <2>1 DEF Stop, svcVars, opVars
<1>3. CASE StartMetadataSync
  <2> DEFINE prev == Head(posted).vol
             v == CHOOSE u \in NextVols(prev) : \A w \in NextVols(prev) : u <= w
  <2>1. posted # <<>> /\ Tail(posted) \in Seq(Handler)
    BY <1>3, TailIs DEF StartMetadataSync, ThreadFree
  <2>2. CASE NextVols(prev) = {}
    BY <1>3, <2>1, <2>2 DEF StartMetadataSync, svcVars, opVars
  <2>3. CASE NextVols(prev) # {}
    <3>1. v \in Vols
      BY <2>3, NextVolIs
    <3>2. /\ tmr' = tmr /\ seen' = seen \cup {v}
          /\ \/ sync' = [sync EXCEPT ![v] = "queued"] /\ posted' = Tail(posted)
             \/ sync' = sync /\ posted' = Post(Tail(posted), "sync", v)
          /\ UNCHANGED <<mode, fss, closing, svcVars, errs, opVars>>
      BY <1>3, <2>3 DEF StartMetadataSync
    <3> HIDE DEF v
    <3>3. Post(Tail(posted), "sync", v) \in Seq(Handler)
      BY <2>1, <3>1, HandlersAre, PostIs
    <3>4. posted' \in Seq(Handler)
      BY <3>2, <3>3, <2>1
    <3> QED  BY <3>1, <3>2, <3>4 DEF svcVars, opVars
  <2> QED  BY <2>2, <2>3
<1>4. CASE OnFsBad
  <2>1. posted' \in Seq(Handler)
    BY <1>4, TailIs DEF OnFsBad, ThreadFree
  <2>2. fss' \subseteq Vols /\ svc' \in [Vols -> {"up", "stopping", "clearing", "down"}]
    BY <1>4 DEF OnFsBad
  <2> QED  BY <1>4, <2>1, <2>2 DEF OnFsBad, opVars
<1>5. CASE BadClosed
  BY <1>5 DEF BadClosed, svcVars, opVars
<1>6. CASE StopVolumes
  BY <1>6 DEF StopVolumes, opVars
<1>7. CASE Stopped
  BY <1>7 DEF Stopped, svcVars, opVars
<1>8. ASSUME NEW v \in Vols, ThreadsJoined(v) PROVE Typed'
  <2>1. <<>> \in Seq(Opens) /\ rq[v] \in Seq(Opens)
    BY EmptySeq
  <2> QED  BY <1>8, <2>1 DEF ThreadsJoined, mgrVars, opVars
<1>9. ASSUME NEW v \in Vols, TellReleased(v) PROVE Typed'
  <2>1. told[v] + 1 \in 1..Len(rel[v])
    BY <1>9, LenProperties DEF TellReleased
  <2>2. rel[v][told[v] + 1] \in Opens
    BY <2>1, ElementOfSeq
  <2> QED  BY <1>9, <2>2, SMTT(60) DEF TellReleased, ReleasedTold, mgrVars
<1>10. ASSUME NEW v \in Vols, DisposeReleased(v) PROVE Typed'
  <2>1. <<>> \in Seq(Opens)
    BY EmptySeq
  <2> QED  BY <1>10, <2>1 DEF DisposeReleased, mgrVars, opVars
<1>11. ASSUME NEW v \in Vols, OtherDiskError(v) PROVE Typed'
  <2>1. posted' \in Seq(Handler)
    BY <1>11, ErrorPosts DEF OtherDiskError
  <2> QED  BY <1>11, <2>1 DEF OtherDiskError, svcVars, opVars
<1>12. ASSUME NEW v \in Vols, PopSync(v) PROVE Typed'
  BY <1>12 DEF PopSync, mgrVars, svcVars, opVars
<1>13. ASSUME NEW v \in Vols, ChunkWritten(v) PROVE Typed'
  <2>1. /\ DiskError(v) \in Seq(Handler)
        /\ [what |-> "sync", vol |-> v] \in Handler
    BY ErrorPosts, HandlersAre
  <2>2. /\ Post(posted, "sync", v) \in Seq(Handler)
        /\ Post(DiskError(v), "sync", v) \in Seq(Handler)
    BY <2>1, PostIs
  <2>3. posted' \in {posted, Post(posted, "sync", v), Post(DiskError(v), "sync", v)}
    BY <1>13 DEF ChunkWritten
  <2>4. posted' \in Seq(Handler)
    BY <2>2, <2>3
  <2>5. sync' \in [Vols -> {"none", "queued", "writing"}]
    BY <1>13 DEF ChunkWritten
  <2> QED  BY <1>13, <2>4, <2>5 DEF ChunkWritten, svcVars, opVars
<1>14. ASSUME NEW c \in Opens, ChooseVolume(c) PROVE Typed'
  BY <1>14 DEF ChooseVolume, mgrVars, svcVars
<1>15. ASSUME NEW c \in Opens, PushFront(c) PROVE Typed'
  <2> DEFINE v == op[c].vol
  <2>1. /\ op[c].pc = "chosen" /\ v \in Vols
        /\ op' = [op EXCEPT ![c].pc = "asked"]
        /\ rq' \in {rq, [rq EXCEPT ![v] = <<c>> \o @]}
        /\ ans' \in {ans, [ans EXCEPT ![c] = @ + 1]}
        /\ UNCHANGED <<mgrVars, svc, thr, rel, told, sync, errs>>
    BY <1>15 DEF PushFront, PushRefused
  <2>2. /\ op' \in [Opens -> [pc: {"idle", "chosen", "asked", "closed"}, vol: Vols \cup {None}]]
        /\ \A d \in Opens : op'[d].pc # "idle" => op'[d].vol \in Vols
    BY <2>1, OpMoves
  <2> HIDE DEF v
  <2>3. <<c>> \o rq[v] \in Seq(Opens)
    <3>1. rq[v] \in Seq(Opens) /\ <<c>> \in Seq(Opens)
      BY <2>1
    <3> QED  BY <3>1, ConcatProperties
  <2>4. rq' \in [Vols -> Seq(Opens)]
    BY <2>1, <2>3
  <2>5. ans' \in [Opens -> Nat]
    <3>1. ans \in [Opens -> Nat] /\ [ans EXCEPT ![c] = @ + 1] \in [Opens -> Nat]
      OBVIOUS
    <3> QED  BY <2>1, <3>1
  <2> QED  BY <2>1, <2>2, <2>4, <2>5 DEF mgrVars
<1>16. ASSUME NEW v \in Vols, PopOpen(v) PROVE Typed'
  <2>1. Tail(rq[v]) \in Seq(Opens) /\ Head(rq[v]) \in Opens
    BY <1>16, TailIs DEF PopOpen
  <2> QED  BY <1>16, <2>1 DEF PopOpen, Popped, mgrVars, opVars
<1>17. ASSUME NEW v \in Vols, ExecOpen(v) PROVE Typed'
  BY <1>17 DEF ExecOpen, mgrVars
<1>18. ASSUME NEW c \in Opens, CloseOpen(c) PROVE Typed'
  <2> DEFINE v == op[c].vol
  <2>1. v \in Vols
    BY <1>18 DEF CloseOpen
  <2>2. Without(rq[v], c) \in Seq(Opens) /\ Without(rel[v], c) \in Seq(Opens)
    BY <2>1, WithoutIs
  <2>3. /\ op' = [op EXCEPT ![c].pc = "closed"]
        /\ rq' = [rq EXCEPT ![v] = Without(@, c)]
        /\ rel' = [rel EXCEPT ![v] = Without(@, c)]
        /\ told' = [told EXCEPT ![v] =
                      IF \E i \in 1..@ : rel[v][i] = c THEN @ - 1 ELSE @]
        /\ ans' \in {ans, [ans EXCEPT ![c] = @ + 1]}
        /\ UNCHANGED <<mgrVars, svc, thr, sync, errs>>
    BY <1>18 DEF CloseOpen
  <2> HIDE DEF v
  <2>4. (\E i \in 1..told[v] : rel[v][i] = c) => told[v] - 1 \in Nat
    BY <2>1
  <2>5. told' \in [Vols -> Nat]
    BY <2>1, <2>3, <2>4
  <2>6. /\ op' \in [Opens -> [pc: {"idle", "chosen", "asked", "closed"}, vol: Vols \cup {None}]]
        /\ \A d \in Opens : op'[d].pc # "idle" => op'[d].vol \in Vols
    BY <1>18, OpMoves DEF CloseOpen
  <2>7. /\ rq' \in [Vols -> Seq(Opens)] /\ rel' \in [Vols -> Seq(Opens)]
        /\ ans' \in [Opens -> Nat]
    BY <2>1, <2>2, <2>3
  <2> QED  BY <2>3, <2>5, <2>6, <2>7 DEF mgrVars
<1>19. ASSUME NEW c \in Opens, NextOpen(c) PROVE Typed'
  BY <1>19 DEF NextOpen, mgrVars, svcVars
<1>20. CASE UNCHANGED vars
  BY <1>20 DEF vars, mgrVars, svcVars, opVars
<1> QED
  BY <1>1, <1>2, <1>3, <1>4, <1>5, <1>6, <1>7, <1>8, <1>9, <1>10, <1>11,
     <1>12, <1>13, <1>14, <1>15, <1>16, <1>17, <1>18, <1>19, <1>20
  DEF Next, Handle, Thread, Reader

-----------------------------------------------------------------------------
(* One token.                                                              *)

\* Nothing is added to what the rounds are about.
LEMMA OnlyLess ==
  ASSUME Typed, OneToken, HadTurn, NEW k \in {0, 1},
         tmr' => tmr, fss' \subseteq fss, seen \subseteq seen',
         \A v \in Vols : sync'[v] # "none" => sync[v] # "none",
         \A i \in 1..Len(posted') : posted'[i].what = "sync" =>
           i + k \in 1..Len(posted) /\ posted'[i] = posted[i + k],
         Len(posted') \in Nat
  PROVE  OneToken' /\ HadTurn'
<1>1. \A i \in 1..Len(posted') : SyncAt(i)' =>
         i + k \in 1..Len(posted) /\ SyncAt(i + k) /\ posted'[i] = posted[i + k]
  BY DEF SyncAt
<1>2. \A v \in Vols : Busy(v)' => Busy(v)
  BY DEF Busy
<1>3. OneToken'
  <2>1. ASSUME NEW i \in 1..Len(posted'), NEW j \in 1..Len(posted'), SyncAt(i)', SyncAt(j)'
        PROVE  i = j
    <3>1. i + k = j + k
      BY <1>1, <2>1 DEF OneToken
    <3> QED  BY <3>1
  <2> QED  BY <1>1, <1>2, <2>1 DEF OneToken
<1>4. HadTurn'
  BY <1>1, <1>2 DEF HadTurn
<1> QED  BY <1>3, <1>4

\* The token is nowhere but at the end of the posted handlers.
LEMMA TokenPosted ==
  ASSUME Typed, NEW h, NEW n \in Nat,
         Len(posted') \in {n, n + 1}, ~tmr',
         \A i \in 1..n : posted'[i].what # "sync",
         \A i \in 1..Len(posted') : i \notin 1..n => posted'[i] = h,
         \A v \in Vols : sync'[v] = "none",
         h.vol # None => \A u \in fss' : u <= h.vol => u \in seen'
  PROVE  OneToken' /\ HadTurn'
<1>1. \A i \in 1..Len(posted') : SyncAt(i)' => i = n + 1 /\ posted'[i] = h
  BY DEF SyncAt
<1>2. \A v \in Vols : ~Busy(v)'
  BY DEF Busy
<1> QED  BY <1>1, <1>2 DEF OneToken, HadTurn
LEMMA TokenKept ==
  ASSUME Typed, OneToken, HadTurn, [Next]_vars
  PROVE  OneToken' /\ HadTurn'
<1>0. posted \in Seq(Handler) /\ Len(posted) \in Nat /\ Typed'
  BY TypedKept, LenProperties DEF Typed
<1>p. Len(posted') \in Nat
  BY <1>0, LenProperties DEF Typed
<1>1. CASE TimerFires
  <2> DEFINE h == [what |-> "sync", vol |-> None]
  <2>1. tmr /\ ~tmr' /\ sync' = sync /\ posted' = Post(posted, "sync", None)
    BY <1>1 DEF TimerFires
  <2>2. /\ Len(posted') \in {Len(posted), Len(posted) + 1}
        /\ \A i \in 1..Len(posted) : posted'[i] = posted[i]
        /\ \A i \in 1..Len(posted') : i \notin 1..Len(posted) => posted'[i] = h
    BY <1>0, <2>1, HandlersAre, PostIs
  <2>3. /\ \A i \in 1..Len(posted) : posted[i].what # "sync"
        /\ \A v \in Vols : sync[v] = "none"
    BY <2>1 DEF OneToken, SyncAt, Busy
  <2>4. h.vol = None
    OBVIOUS
  <2> HIDE DEF h
  <2>5. ~tmr' /\ \A v \in Vols : sync'[v] = "none"
    BY <2>1, <2>3
  <2>6. h.vol # None => \A u \in fss' : u <= h.vol => u \in seen'
    BY <2>4
  <2>7. \A i \in 1..Len(posted) : posted'[i].what # "sync"
    BY <2>2, <2>3
  <2> QED  BY <1>0, <2>2, <2>5, <2>6, <2>7, TokenPosted
<1>2. CASE Stop
  <2>1. posted' = <<>> /\ Len(posted') = 0
    BY <1>2 DEF Stop
  <2>2. UNCHANGED <<tmr, fss, seen, sync>>
    BY <1>2 DEF Stop
  <2> QED  BY <2>1, <2>2, OnlyLess
<1>3. CASE StartMetadataSync
  <2> DEFINE prev == Head(posted).vol
             v == CHOOSE u \in NextVols(prev) : \A w \in NextVols(prev) : u <= w
             h == [what |-> "sync", vol |-> v]
  <2>1. posted # <<>> /\ Head(posted).what = "sync" /\ fss' = fss
    BY <1>3 DEF StartMetadataSync, ThreadFree
  <2>2. /\ Tail(posted) \in Seq(Handler) /\ Len(Tail(posted)) \in Nat
        /\ \A i \in 1..Len(Tail(posted)) :
             i + 1 \in 1..Len(posted) /\ i + 1 # 1 /\ Tail(posted)[i] = posted[i + 1]
        /\ SyncAt(1) /\ 1 \in 1..Len(posted) /\ posted[1].vol = prev
        /\ prev \in Vols \cup {None}
    BY <1>0, <2>1, TailIs, HandlersAre DEF SyncAt
  <2>3. /\ \A i \in 1..Len(Tail(posted)) : Tail(posted)[i].what # "sync"
        /\ \A w \in Vols : sync[w] = "none"
        /\ ~tmr
    BY <2>2 DEF OneToken, SyncAt, Busy
  <2>4. CASE NextVols(prev) = {}
    <3>1. posted' = Tail(posted) /\ UNCHANGED <<sync, seen>>
      BY <1>3, <2>4 DEF StartMetadataSync
    <3> QED  BY <2>3, <3>1 DEF OneToken, HadTurn, SyncAt, Busy
  <2>5. CASE NextVols(prev) # {}
    <3>1. /\ v \in NextVols(prev) /\ v \in fss /\ v \in Vols
          /\ \A w \in NextVols(prev) : v <= w
      BY <2>5, NextVolIs
    <3>2. /\ tmr' = tmr /\ seen' = seen \cup {v}
          /\ \/ sync' = [sync EXCEPT ![v] = "queued"] /\ posted' = Tail(posted)
             \/ sync' = sync /\ posted' = Post(Tail(posted), "sync", v)
      BY <1>3, <2>5 DEF StartMetadataSync
    <3>h. h \in Handler /\ h.vol = v
      BY <3>1, HandlersAre
    <3>5. Post(Tail(posted), "sync", v) = Post(Tail(posted), h.what, h.vol)
      OBVIOUS
    <3> HIDE DEF v
    <3>3. \A u \in fss : u <= v => u \in seen'
      <4>1. SUFFICES ASSUME NEW u \in fss, u <= v, u # v PROVE u \in seen
        BY <3>2
      <4>2. u \in Nat /\ v \in Nat /\ ~(v <= u)
        BY <3>1, <4>1, VolsAssumption DEF Typed
      <4>3. u \notin NextVols(prev) /\ prev # None /\ prev \in Nat
        BY <3>1, <4>1, <4>2, <2>2, VolsAssumption DEF NextVols
      <4>4. u <= prev
        BY <4>2, <4>3 DEF NextVols
      <4> QED  BY <2>2, <4>3, <4>4 DEF HadTurn
    <3>4. CASE sync' = [sync EXCEPT ![v] = "queued"] /\ posted' = Tail(posted)
      <4>1. \A w \in Vols : Busy(w)' => w = v
        BY <2>3, <3>4, <3>1 DEF Typed, Busy
      <4>2. \A i \in 1..Len(posted') : ~SyncAt(i)'
        BY <2>3, <3>4 DEF SyncAt
      <4> QED  BY <2>1, <2>3, <3>2, <3>3, <4>1, <4>2 DEF OneToken, HadTurn
    <3>6. CASE sync' = sync /\ posted' = Post(Tail(posted), "sync", v)
      <4> DEFINE q == Tail(posted)
      <4>1. q \in Seq(Handler) /\ Len(q) \in Nat /\ \A i \in 1..Len(q) : q[i].what # "sync"
        BY <2>2, <2>3
      <4>2. posted' = Post(q, "sync", v)
        BY <3>6
      <4>3. h.vol # None => \A u \in fss' : u <= h.vol => u \in seen'
        BY <2>1, <3>3, <3>h
      <4> HIDE DEF q
      <4>4. /\ Len(posted') \in {Len(q), Len(q) + 1}
            /\ \A i \in 1..Len(q) : posted'[i] = q[i]
            /\ \A i \in 1..Len(posted') : i \notin 1..Len(q) => posted'[i] = h
        BY <3>h, <4>1, <4>2, PostIs
      <4>5. \A i \in 1..Len(q) : posted'[i].what # "sync"
        BY <4>1, <4>4
      <4> HIDE DEF h
      <4>6. ~tmr' /\ \A w \in Vols : sync'[w] = "none"
        BY <2>3, <3>2, <3>6
      <4> QED  BY <4>1, <4>3, <4>4, <4>5, <4>6, TokenPosted
    <3> QED  BY <3>2, <3>4, <3>6
  <2> QED  BY <2>4, <2>5
<1>4. CASE OnFsBad
  <2>1. posted # <<>> /\ posted' = Tail(posted)
    BY <1>4 DEF OnFsBad, ThreadFree
  <2>2. \A i \in 1..Len(posted') : i + 1 \in 1..Len(posted) /\ posted'[i] = posted[i + 1]
    BY <1>0, <2>1, TailIs
  <2>3. fss' \subseteq fss /\ UNCHANGED <<tmr, seen, sync>>
    BY <1>4 DEF OnFsBad
  <2> QED  BY <1>p, <2>2, <2>3, OnlyLess
<1>5. CASE UNCHANGED <<tmr, fss, seen, sync, posted>>
  BY <1>5 DEF OneToken, HadTurn, SyncAt, Busy
<1>6. CASE Stopped
  <2>1. fss' \subseteq fss /\ UNCHANGED <<tmr, seen, sync, posted>>
    BY <1>6 DEF Stopped, svcVars, opVars
  <2> QED  BY <1>0, <2>1, OnlyLess
<1>7. ASSUME NEW v \in Vols, ThreadsJoined(v) PROVE OneToken' /\ HadTurn'
  <2>1. /\ UNCHANGED <<tmr, fss, seen, posted>>
        /\ \A w \in Vols : sync'[w] # "none" => sync[w] # "none"
    BY <1>7 DEF ThreadsJoined, mgrVars, Typed
  <2> QED  BY <1>0, <2>1, OnlyLess
<1>8. ASSUME NEW v \in Vols, OtherDiskError(v) PROVE OneToken' /\ HadTurn'
  <2>1. UNCHANGED <<tmr, fss, seen, sync>> /\ posted' = DiskError(v)
    BY <1>8 DEF OtherDiskError
  <2>2. \A i \in 1..Len(posted') : posted'[i].what = "sync" =>
          i \in 1..Len(posted) /\ posted'[i] = posted[i]
    BY <1>0, <2>1, ErrorPosts
  <2>3. \A i \in 1..Len(posted') : i + 0 = i
    BY <1>p
  <2> QED  BY <1>p, <2>1, <2>2, <2>3, OnlyLess
<1>9. ASSUME NEW v \in Vols, PopSync(v) PROVE OneToken' /\ HadTurn'
  <2>1. /\ UNCHANGED <<tmr, fss, seen, posted>>
        /\ \A w \in Vols : sync'[w] # "none" => sync[w] # "none"
    BY <1>9 DEF PopSync, mgrVars, Typed
  <2> QED  BY <1>0, <2>1, OnlyLess
<1>10. ASSUME NEW v \in Vols, ChunkWritten(v) PROVE OneToken' /\ HadTurn'
  <2> DEFINE h == [what |-> "sync", vol |-> v]
  <2>1. /\ UNCHANGED <<tmr, fss, seen>> /\ Busy(v)
        /\ \A w \in Vols : w # v => sync'[w] = sync[w]
    BY <1>10 DEF ChunkWritten, Typed, Busy
  <2>2. /\ ~tmr /\ \A i \in 1..Len(posted) : posted[i].what # "sync"
        /\ \A w \in Vols : w # v => sync[w] = "none"
        /\ \A u \in fss : u <= v => u \in seen
    BY <2>1 DEF OneToken, HadTurn, SyncAt, Busy
  <2>3. CASE posted' = posted
    <3>1. \A w \in Vols : sync'[w] # "none" => sync[w] # "none"
      BY <2>1 DEF Busy
    <3> QED  BY <1>0, <2>1, <2>3, <3>1, OnlyLess
  <2>h. h \in Handler /\ h.vol = v
    BY HandlersAre
  <2>4. ASSUME NEW q \in {posted, DiskError(v)},
               posted' = Post(q, "sync", v), sync' = [sync EXCEPT ![v] = "none"]
        PROVE  OneToken' /\ HadTurn'
    <3>1. q \in Seq(Handler) /\ Len(q) \in Nat /\ \A i \in 1..Len(q) : q[i].what # "sync"
      BY <1>0, <2>2, ErrorPosts
    <3>2. /\ Len(posted') \in {Len(q), Len(q) + 1}
          /\ \A i \in 1..Len(q) : posted'[i] = q[i]
          /\ \A i \in 1..Len(posted') : i \notin 1..Len(q) => posted'[i] = h
      BY <2>4, <2>h, <3>1, PostIs
    <3>3. \A w \in Vols : sync'[w] = "none"
      BY <2>1, <2>2, <2>4 DEF Typed
    <3>4. h.vol # None => \A u \in fss' : u <= h.vol => u \in seen'
      BY <2>1, <2>2, <2>h
    <3> HIDE DEF h
    <3> QED  BY <2>1, <2>2, <3>1, <3>2, <3>3, <3>4, TokenPosted
  <2>5. \/ posted' = posted
        \/ /\ sync' = [sync EXCEPT ![v] = "none"]
           /\ posted' = Post(posted, "sync", v) \/ posted' = Post(DiskError(v), "sync", v)
    BY <1>10 DEF ChunkWritten
  <2> QED  BY <2>3, <2>4, <2>5
<1>11. UNCHANGED vars => UNCHANGED <<tmr, fss, seen, sync, posted>>
  BY DEF vars, mgrVars
<1>12. BadClosed \/ StopVolumes => UNCHANGED <<tmr, fss, seen, sync, posted>>
  BY DEF BadClosed, StopVolumes
<1>13. ASSUME NEW v \in Vols, TellReleased(v) \/ DisposeReleased(v) \/ Reader(v)
       PROVE  UNCHANGED <<tmr, fss, seen, sync, posted>>
  BY <1>13 DEF TellReleased, DisposeReleased, Reader, PopOpen, ExecOpen, mgrVars
<1>14. ASSUME NEW c \in Opens, ChooseVolume(c) \/ PushFront(c) \/ CloseOpen(c) \/ NextOpen(c)
       PROVE  UNCHANGED <<tmr, fss, seen, sync, posted>>
  BY <1>14 DEF ChooseVolume, PushFront, CloseOpen, NextOpen, mgrVars
<1> QED
  BY <1>1, <1>2, <1>3, <1>4, <1>5, <1>6, <1>7, <1>8, <1>9, <1>10, <1>11, <1>12, <1>13, <1>14
  DEF Next, Handle, Thread
-----------------------------------------------------------------------------
(* The theorems about the rounds.                                          *)

LEMMA AtMostOne ==
  ASSUME NEW S, \A x, y \in S : x = y
  PROVE  Cardinality(S) = IF S = {} THEN 0 ELSE 1
<1>1. CASE S = {}
  BY <1>1, FS_EmptySet
<1>2. CASE S # {}
  <2>1. PICK x \in S : TRUE
    BY <1>2
  <2>2. S = {x}
    BY <2>1
  <2>3. Cardinality({x}) = 1
    BY FS_Singleton
  <2> QED  BY <1>2, <2>2, <2>3
<1> QED  BY <1>1, <1>2

LEMMA InitIsTyped == Init => Typed /\ OneToken /\ HadTurn
<1> SUFFICES ASSUME Init PROVE Typed /\ OneToken /\ HadTurn
  OBVIOUS
<1>1. <<>> \in Seq(Handler) /\ <<>> \in Seq(Opens) /\ Len(<<>>) = 0
  BY EmptySeq
<1>2. Typed
  BY <1>1 DEF Init, Typed
<1>3. OneToken /\ HadTurn
  BY <1>1 DEF Init, OneToken, HadTurn, SyncAt, Busy
<1> QED  BY <1>2, <1>3

LEMMA Rounds == Spec => [](Typed /\ OneToken /\ HadTurn)
<1>1. Typed /\ OneToken /\ HadTurn /\ [Next]_vars => (Typed /\ OneToken /\ HadTurn)'
  BY TypedKept, TokenKept
<1> QED  BY <1>1, InitIsTyped, PTL DEF Spec

\* The rounds of metadata syncs never fork, so that no volume is asked to sync
\* while it does, whatever volumes fail and are removed, and also while the
\* manager stops (start_metadata_sync, on_fs_bad, stop).
THEOREM RoundsNeverFork == Spec => []OneSyncAtATime
<1>1. Typed /\ OneToken => OneSyncAtATime
  <2> SUFFICES ASSUME Typed, OneToken PROVE OneSyncAtATime
    OBVIOUS
  <2> DEFINE syncs == {i \in 1..Len(posted) : posted[i].what = "sync"}
             busy  == {v \in Vols : sync[v] # "none"}
             s     == Cardinality(syncs)
             b     == Cardinality(busy)
  <2>1. /\ \A i, j \in syncs : i = j
        /\ \A v, w \in busy : v = w
        /\ syncs # {} => busy = {} /\ ~tmr
        /\ busy # {} => ~tmr
    BY DEF OneToken, SyncAt, Busy
  <2> HIDE DEF syncs, busy
  <2>2. s = (IF syncs = {} THEN 0 ELSE 1) /\ b = (IF busy = {} THEN 0 ELSE 1)
    BY <2>1, AtMostOne
  <2> HIDE DEF s, b
  <2>3. s + b + (IF tmr THEN 1 ELSE 0) <= 1
    BY <2>1, <2>2
  <2> QED  BY <2>3 DEF OneSyncAtATime, s, b, syncs, busy
<1> QED  BY <1>1, Rounds, PTL

\* A round ends only when every volume still in use has had its turn in it, also
\* if the volume before it was removed in the meantime (start_metadata_sync).
THEOREM RoundsAreComplete == Spec => RoundComplete
<1>1. Typed /\ OneToken /\ HadTurn /\ [Next]_vars
        => [tmr' /\ ~tmr => fss \subseteq seen]_vars
  <2> SUFFICES ASSUME Typed, OneToken, HadTurn, Next, tmr', ~tmr
               PROVE  fss \subseteq seen
    BY DEF vars
  <2>1. StartMetadataSync
    BY DEF Next, TimerFires, Stop, Handle, OnFsBad, BadClosed, StopVolumes, Stopped,
       Thread, PopSync, ChunkWritten, ThreadsJoined, TellReleased, DisposeReleased,
       Reader, PopOpen, ExecOpen, OtherDiskError, ChooseVolume, PushFront, CloseOpen,
       NextOpen, mgrVars
  <2> DEFINE prev == Head(posted).vol
  <2>2. NextVols(prev) = {} /\ posted # <<>> /\ Head(posted).what = "sync"
    BY <2>1 DEF StartMetadataSync, ThreadFree
  <2>3. /\ SyncAt(1) /\ 1 \in 1..Len(posted) /\ posted[1].vol = prev
        /\ prev \in Vols \cup {None}
    BY <2>2, TailIs, HandlersAre DEF Typed, SyncAt
  <2>4. CASE prev = None
    BY <2>2, <2>4 DEF NextVols
  <2>5. ASSUME prev # None, NEW u \in fss PROVE u \in seen
    <3>1. u \in Nat /\ prev \in Nat /\ ~(u > prev)
      BY <2>2, <2>3, <2>5, VolsAssumption DEF NextVols, Typed
    <3>2. u <= prev
      BY <3>1
    <3> QED  BY <2>3, <2>5, <3>2 DEF HadTurn
  <2> QED  BY <2>4, <2>5
<1> QED  BY <1>1, Rounds, PTL DEF Spec, RoundComplete
-----------------------------------------------------------------------------
(* The answers to opens.                                                   *)

Asked(c, v) == c \in Opens /\ op[c].pc = "asked" /\ op[c].vol = v

\* In the read queue, in the hands of the reader thread, or released: where an
\* open handle is linked, and how often it has been called there.
InQueue == \A v \in Vols : \A i \in 1..Len(rq[v]) :
  /\ Asked(rq[v][i], v) /\ ans[rq[v][i]] = 0 /\ thr[v] # rq[v][i]
  /\ \A j \in 1..Len(rq[v]) : rq[v][i] = rq[v][j] => i = j
InThread == \A v \in Vols : thr[v] # None =>
  /\ op[thr[v]].pc \in {"asked", "closed"} /\ op[thr[v]].vol = v
  /\ op[thr[v]].pc = "asked" => ans[thr[v]] = 0
InReleased == \A v \in Vols : \A i \in 1..Len(rel[v]) :
  /\ Asked(rel[v][i], v) /\ ans[rel[v][i]] = IF i <= told[v] THEN 1 ELSE 0
  /\ \A j \in 1..Len(rel[v]) : rel[v][i] = rel[v][j] => i = j
Service == \A v \in Vols :
  /\ svc[v] \in {"clearing", "down"} => rq[v] = <<>> /\ thr[v] = None
  /\ svc[v] # "clearing" => rel[v] = <<>>
  /\ told[v] <= Len(rel[v])
InUse == mode \in {"run", "stop"} => \A v \in fss : svc[v] = "up"
NotAsked == \A c \in Opens : op[c].pc \in {"idle", "chosen"} => ans[c] = 0

Linked1 == InQueue /\ InThread /\ InReleased /\ Service
             /\ InUse /\ NotAsked /\ AskedOnce

LEMMA Lengths ==
  ASSUME Typed, NEW v \in Vols
  PROVE  /\ rq[v] \in Seq(Opens) /\ Len(rq[v]) \in Nat
         /\ rel[v] \in Seq(Opens) /\ Len(rel[v]) \in Nat
         /\ \A i \in 1..Len(rq[v]) : rq[v][i] \in Opens
         /\ \A i \in 1..Len(rel[v]) : rel[v][i] \in Opens
         /\ told[v] \in Nat /\ Len(<<>>) = 0
<1>1. rq[v] \in Seq(Opens) /\ rel[v] \in Seq(Opens) /\ told[v] \in Nat
  BY DEF Typed
<1> QED  BY <1>1, LenProperties, ElementOfSeq, EmptySeq


LEMMA InUseKept ==
  ASSUME Typed, InUse, [Next]_vars
  PROVE  InUse'
<1> USE DEF InUse
<1>1. CASE Stop BY <1>1 DEF Stop, svcVars
<1>2. CASE OnFsBad BY <1>2 DEF OnFsBad, Typed
<1>3. CASE StopVolumes BY <1>3 DEF StopVolumes
<1>4. CASE Stopped BY <1>4 DEF Stopped, svcVars
<1>5. ASSUME NEW v \in Vols, ThreadsJoined(v) PROVE InUse'
  BY <1>5 DEF ThreadsJoined, mgrVars, Typed
<1>6. ASSUME NEW v \in Vols, DisposeReleased(v) PROVE InUse'
  BY <1>6 DEF DisposeReleased, mgrVars, Typed
<1>7. CASE UNCHANGED <<mode, fss, svc>>
  BY <1>7
<1> QED  BY <1>1, <1>2, <1>3, <1>4, <1>5, <1>6, <1>7
  DEF Next, TimerFires, Handle, StartMetadataSync, BadClosed, Thread, PopSync, ChunkWritten,
      TellReleased, Reader, PopOpen, ExecOpen, OtherDiskError, ChooseVolume, PushFront,
      CloseOpen, NextOpen, vars, mgrVars, svcVars

\* The service of a volume stops only when it is up: nothing is released then.
LEMMA StopKeeps ==
  ASSUME Typed, Linked1, OnFsBad \/ StopVolumes
  PROVE  InQueue' /\ InThread' /\ InReleased' /\ Service' /\ NotAsked' /\ AskedOnce'
<1>1. UNCHANGED <<rq, thr, rel, told, op, ans>>
  BY DEF OnFsBad, StopVolumes, svcVars, opVars
<1>2. \A v \in Vols : svc'[v] = svc[v] \/ (svc'[v] = "stopping" /\ svc[v] = "up")
  BY DEF OnFsBad, StopVolumes, Linked1, InUse, Typed, ThreadFree
<1>3. Service'
  BY <1>1, <1>2 DEF Linked1, Service
<1> QED  BY <1>1, <1>3 DEF Linked1, InQueue, InThread, InReleased, NotAsked, AskedOnce, Asked

LEMMA JoinKeeps ==
  ASSUME Typed, Linked1, NEW v \in Vols, ThreadsJoined(v)
  PROVE  InQueue' /\ InThread' /\ InReleased' /\ Service' /\ NotAsked' /\ AskedOnce'
<1>1. /\ svc[v] = "stopping" /\ thr[v] = None
      /\ svc' = [svc EXCEPT ![v] = "clearing"]
      /\ rel' = [rel EXCEPT ![v] = rq[v]] /\ rq' = [rq EXCEPT ![v] = <<>>]
      /\ told' = [told EXCEPT ![v] = 0]
      /\ UNCHANGED <<thr, op, ans>>
  BY DEF ThreadsJoined, opVars
<1>2. /\ svc'[v] = "clearing" /\ rel'[v] = rq[v] /\ rq'[v] = <<>> /\ told'[v] = 0
      /\ \A w \in Vols : w # v => /\ svc'[w] = svc[w] /\ rel'[w] = rel[w]
                                  /\ rq'[w] = rq[w] /\ told'[w] = told[w]
  BY <1>1 DEF Typed
<1>3. Len(rq'[v]) = 0 /\ Len(rel'[v]) \in Nat
  BY <1>2, Lengths
<1>4. InQueue'
  BY <1>1, <1>2, <1>3 DEF Linked1, InQueue, Asked
<1>5. InThread' /\ NotAsked' /\ AskedOnce'
  BY <1>1 DEF Linked1, InThread, NotAsked, AskedOnce
<1>6. InReleased'
  BY <1>1, <1>2, Lengths DEF Linked1, InQueue, InReleased, Asked
<1>7. Service'
  BY <1>1, <1>2, <1>3 DEF Linked1, Service
<1> QED  BY <1>4, <1>5, <1>6, <1>7

LEMMA TellKeeps ==
  ASSUME Typed, Linked1, NEW v \in Vols, TellReleased(v)
  PROVE  InQueue' /\ InThread' /\ InReleased' /\ Service' /\ NotAsked' /\ AskedOnce'
<1> DEFINE c == rel[v][told[v] + 1]
<1>0. /\ told[v] \in Nat /\ told[v] + 1 \in 1..Len(rel[v]) /\ c \in Opens
      /\ Asked(c, v) /\ ans[c] = 0 /\ svc[v] = "clearing"
  <2>1. told[v] < Len(rel[v]) /\ svc[v] = "clearing"
    BY DEF TellReleased
  <2>2. told[v] \in Nat /\ told[v] + 1 \in 1..Len(rel[v]) /\ ~(told[v] + 1 <= told[v])
    BY <2>1, Lengths
  <2>3. Asked(c, v) /\ ans[c] = 0
    BY <2>2 DEF Linked1, InReleased
  <2> QED  BY <2>1, <2>2, <2>3 DEF Asked
<1>1. /\ told' = [told EXCEPT ![v] = @ + 1] /\ ans' = [ans EXCEPT ![c] = @ + 1]
      /\ UNCHANGED <<svc, rq, thr, rel, op>>
  BY DEF TellReleased, ReleasedTold
<1> HIDE DEF c
<1>2. /\ ans'[c] = 1 /\ \A d \in Opens : d # c => ans'[d] = ans[d]
      /\ told'[v] = told[v] + 1 /\ \A w \in Vols : w # v => told'[w] = told[w]
  BY <1>0, <1>1 DEF Typed
<1>3. InQueue'
  <2>1. \A w \in Vols : \A i \in 1..Len(rq[w]) : rq[w][i] # c
    BY <1>0 DEF Linked1, Service, InQueue, Asked
  <2> QED  BY <1>1, <1>2, <2>1, Lengths DEF Linked1, InQueue, Asked
<1>4. InThread'
  BY <1>0, <1>1, <1>2 DEF Linked1, Service, InThread, Asked, Typed
<1>5. InReleased'
  <2>1. ASSUME NEW w \in Vols, NEW i \in 1..Len(rel[w])
        PROVE  ans'[rel[w][i]] = IF i <= told'[w] THEN 1 ELSE 0
    <3>1. CASE rel[w][i] = c
      <4>1. w = v
        BY <1>0, <3>1 DEF Linked1, InReleased, Asked
      <4>2. i = told[v] + 1
        BY <1>0, <3>1, <4>1 DEF Linked1, InReleased, c
      <4> QED  BY <1>0, <1>2, <3>1, <4>1, <4>2
    <3>2. CASE rel[w][i] # c
      <4>1. ans'[rel[w][i]] = IF i <= told[w] THEN 1 ELSE 0
        BY <1>2, <3>2, Lengths DEF Linked1, InReleased
      <4>2. w = v => i # told[v] + 1
        BY <3>2 DEF c
      <4>3. i <= told'[w] <=> i <= told[w]
        BY <1>0, <1>2, <4>2, Lengths
      <4> QED  BY <4>1, <4>3
    <3> QED  BY <3>1, <3>2
  <2> QED  BY <1>1, <2>1 DEF Linked1, InReleased, Asked
<1>6. Service'
  BY <1>0, <1>1, <1>2, Lengths DEF Linked1, Service
<1>7. NotAsked' /\ AskedOnce'
  BY <1>0, <1>1, <1>2 DEF Linked1, NotAsked, AskedOnce, Asked
<1> QED  BY <1>3, <1>4, <1>5, <1>6, <1>7

LEMMA DisposeKeeps ==
  ASSUME Typed, Linked1, NEW v \in Vols, DisposeReleased(v)
  PROVE  InQueue' /\ InThread' /\ InReleased' /\ Service' /\ NotAsked' /\ AskedOnce'
<1>1. /\ svc[v] = "clearing" /\ svc' = [svc EXCEPT ![v] = "down"]
      /\ rel' = [rel EXCEPT ![v] = <<>>] /\ told' = [told EXCEPT ![v] = 0]
      /\ UNCHANGED <<rq, thr, op, ans>>
  BY DEF DisposeReleased, opVars
<1>2. /\ svc'[v] = "down" /\ rel'[v] = <<>> /\ told'[v] = 0 /\ Len(rel'[v]) = 0
      /\ \A w \in Vols : w # v => /\ svc'[w] = svc[w] /\ rel'[w] = rel[w]
                                  /\ told'[w] = told[w]
  BY <1>1, Lengths DEF Typed
<1>3. InQueue' /\ InThread' /\ NotAsked' /\ AskedOnce'
  BY <1>1 DEF Linked1, InQueue, InThread, NotAsked, AskedOnce, Asked
<1>4. InReleased'
  BY <1>1, <1>2 DEF Linked1, InReleased, Asked
<1>5. Service'
  BY <1>1, <1>2 DEF Linked1, Service
<1> QED  BY <1>3, <1>4, <1>5
LEMMA NotLinked ==
  ASSUME Typed, Linked1, NEW c \in Opens, op[c].pc \in {"idle", "chosen"}
  PROVE  \A v \in Vols : /\ thr[v] # c
                         /\ \A i \in 1..Len(rq[v]) : rq[v][i] # c
                         /\ \A i \in 1..Len(rel[v]) : rel[v][i] # c
<1>1. c # None
  BY VolsAssumption
<1> QED  BY <1>1 DEF Linked1, InQueue, InThread, InReleased, Asked

LEMMA ChooseKeeps ==
  ASSUME Typed, Linked1, NEW c \in Opens, ChooseVolume(c)
  PROVE  InQueue' /\ InThread' /\ InReleased' /\ Service' /\ NotAsked' /\ AskedOnce'
<1>1. /\ op[c].pc = "idle" /\ op'[c].pc = "chosen"
      /\ \A d \in Opens : d # c => op'[d] = op[d]
      /\ UNCHANGED <<svc, rq, thr, rel, told, ans>>
  BY DEF ChooseVolume, svcVars, Typed
<1>2. InQueue' /\ InReleased'
  BY <1>1, NotLinked DEF Linked1, InQueue, InReleased, Asked
<1>3. InThread'
  BY <1>1, NotLinked DEF Linked1, InThread, Typed
<1> QED  BY <1>1, <1>2, <1>3 DEF Linked1, Service, NotAsked, AskedOnce

LEMMA PushKeeps ==
  ASSUME Typed, Linked1, NEW c \in Opens, PushFront(c)
  PROVE  InQueue' /\ InThread' /\ InReleased' /\ Service' /\ NotAsked' /\ AskedOnce'
<1> DEFINE v == op[c].vol
<1>1. /\ op[c].pc = "chosen" /\ op' = [op EXCEPT ![c].pc = "asked"]
      /\ \/ svc[v] = "up" /\ rq' = [rq EXCEPT ![v] = <<c>> \o @] /\ ans' = ans
         \/ svc[v] # "up" /\ rq' = rq /\ ans' = [ans EXCEPT ![c] = @ + 1]
      /\ UNCHANGED <<svc, thr, rel, told>>
  BY DEF PushFront, PushRefused
<1>2. /\ op'[c].pc = "asked" /\ op'[c].vol = v /\ v \in Vols
      /\ \A d \in Opens : d # c => op'[d] = op[d]
      /\ ans[c] = 0
  BY <1>1, OpMoves DEF Linked1, NotAsked
<1> HIDE DEF v
<1>n. \A w \in Vols : /\ thr[w] # c
                      /\ \A i \in 1..Len(rq[w]) : rq[w][i] # c
                      /\ \A i \in 1..Len(rel[w]) : rel[w][i] # c
  BY <1>1, NotLinked
<1>3. InThread'
  <2>1. \A d \in Opens : d # c => ans'[d] = ans[d]
    BY <1>1 DEF Typed
  <2> QED  BY <1>1, <1>2, <1>n, <2>1 DEF Linked1, InThread, Typed
<1>4. InReleased'
  <2>1. \A d \in Opens : d # c => ans'[d] = ans[d]
    BY <1>1 DEF Typed
  <2> QED  BY <1>1, <1>2, <1>n, <2>1, Lengths DEF Linked1, InReleased, Asked
<1>5. NotAsked' /\ AskedOnce'
  BY <1>1, <1>2 DEF Linked1, NotAsked, AskedOnce, Typed
<1>6. CASE svc[v] = "up" /\ rq' = [rq EXCEPT ![v] = <<c>> \o @] /\ ans' = ans
  <2>1. /\ Len(rq'[v]) = Len(rq[v]) + 1 /\ rq'[v][1] = c
        /\ \A i \in 1..Len(rq'[v]) : i # 1 => i - 1 \in 1..Len(rq[v]) /\ rq'[v][i] = rq[v][i - 1]
    <3>1. <<c>> \in Seq(Opens) /\ Len(<<c>>) = 1 /\ <<c>>[1] = c
      OBVIOUS
    <3>2. rq[v] \in Seq(Opens) /\ Len(rq[v]) \in Nat
      BY <1>2, Lengths
    <3>3. /\ Len(<<c>> \o rq[v]) = Len(<<c>>) + Len(rq[v])
          /\ \A i \in 1..(Len(<<c>>) + Len(rq[v])) :
               (<<c>> \o rq[v])[i] = IF i <= Len(<<c>>) THEN <<c>>[i] ELSE rq[v][i - Len(<<c>>)]
      BY <3>1, <3>2, ConcatProperties
    <3>4. rq'[v] = <<c>> \o rq[v]
      BY <1>2, <1>6 DEF Typed
    <3> QED  BY <3>1, <3>2, <3>3, <3>4
  <2>2. \A w \in Vols : w # v => rq'[w] = rq[w]
    BY <1>6 DEF Typed
  <2>3. ASSUME NEW w \in Vols, NEW i \in 1..Len(rq'[w])
        PROVE  /\ rq'[w][i] \in Opens
               /\ op'[rq'[w][i]].pc = "asked" /\ op'[rq'[w][i]].vol = w
               /\ ans'[rq'[w][i]] = 0 /\ thr'[w] # rq'[w][i]
               /\ \A j \in 1..Len(rq'[w]) : rq'[w][i] = rq'[w][j] => i = j
    <3>1. CASE w # v
      BY <1>1, <1>2, <1>6, <1>n, <2>2, <2>3, <3>1 DEF Linked1, InQueue, Asked
    <3>2. CASE w = v /\ i = 1
      BY <1>1, <1>2, <1>6, <1>n, <2>1, <2>3, <3>2 DEF Asked
    <3>3. CASE w = v /\ i # 1
      <4>1. i - 1 \in 1..Len(rq[v]) /\ rq'[v][i] = rq[v][i - 1]
        BY <2>1, <2>3, <3>3
      <4>2. \A j \in 1..Len(rq'[v]) : rq'[v][i] = rq'[v][j] => i = j
        <5>1. SUFFICES ASSUME NEW j \in 1..Len(rq'[v]), rq'[v][i] = rq'[v][j] PROVE i = j
          OBVIOUS
        <5>2. j # 1
          <6>1. rq[v][i - 1] # c
            BY <1>2, <1>n, <4>1
          <6>2. rq'[v][i] # rq'[v][1]
            BY <2>1, <4>1, <6>1
          <6> QED  BY <5>1, <6>2
        <5>3. j - 1 \in 1..Len(rq[v]) /\ rq'[v][j] = rq[v][j - 1]
          <6>1. /\ Len(rq[v]) \in Nat /\ Len(rq'[v]) = Len(rq[v]) + 1
                /\ j \in 1..Len(rq'[v])
            BY <1>2, <2>1, <5>1, Lengths
          <6>2. j \in Nat /\ j - 1 \in 1..Len(rq[v])
            BY <5>2, <6>1
          <6> QED  BY <2>1, <5>2, <6>2
        <5>4. i - 1 = j - 1
          <6>1. \A x, y \in 1..Len(rq[v]) : rq[v][x] = rq[v][y] => x = y
            BY <1>2 DEF Linked1, InQueue
          <6>2. rq[v][i - 1] = rq[v][j - 1]
            BY <4>1, <5>1, <5>3
          <6> QED  BY <4>1, <5>3, <6>1, <6>2, Zenon
        <5> QED  BY <3>3, <2>3, <5>4
      <4> QED  BY <1>1, <1>2, <1>6, <1>n, <3>3, <4>1, <4>2 DEF Linked1, InQueue, Asked
    <3> QED  BY <3>1, <3>2, <3>3
  <2>4. InQueue'
    BY <2>3 DEF InQueue, Asked
  <2>5. Service'
    BY <1>1, <1>6, <2>2 DEF Linked1, Service
  <2> QED  BY <1>3, <1>4, <1>5, <2>4, <2>5
<1>7. CASE svc[v] # "up" /\ rq' = rq /\ ans' = [ans EXCEPT ![c] = @ + 1]
  <2>1. \A d \in Opens : d # c => ans'[d] = ans[d]
    BY <1>7 DEF Typed
  <2>2. InQueue'
    BY <1>1, <1>2, <1>7, <1>n, <2>1, Lengths DEF Linked1, InQueue, Asked
  <2>3. Service'
    BY <1>1, <1>7 DEF Linked1, Service
  <2> QED  BY <1>3, <1>4, <1>5, <2>2, <2>3
<1> QED  BY <1>1, <1>6, <1>7

LEMMA PopKeeps ==
  ASSUME Typed, Linked1, NEW v \in Vols, PopOpen(v)
  PROVE  InQueue' /\ InThread' /\ InReleased' /\ Service' /\ NotAsked' /\ AskedOnce'
<1>1. /\ svc[v] = "up" /\ thr[v] = None /\ rq[v] # <<>>
      /\ thr' = [thr EXCEPT ![v] = Head(rq[v])] /\ rq' = [rq EXCEPT ![v] = Tail(@)]
      /\ UNCHANGED <<svc, rel, told, op, ans>>
  BY DEF PopOpen, Popped, opVars
<1>2. /\ thr'[v] = rq[v][1] /\ rq'[v] = Tail(rq[v]) /\ 1 \in 1..Len(rq[v])
      /\ \A i \in 1..Len(rq'[v]) : /\ i + 1 \in 1..Len(rq[v]) /\ i + 1 # 1
                                   /\ rq'[v][i] = rq[v][i + 1]
      /\ \A w \in Vols : w # v => thr'[w] = thr[w] /\ rq'[w] = rq[w]
  <2>1. rq[v] \in Seq(Opens)
    BY Lengths
  <2>2. Tail(rq[v]) \in Seq(Opens) /\ Len(Tail(rq[v])) \in Nat
    BY <1>1, <2>1, TailIs, LenProperties
  <2> QED  BY <1>1, <2>1, <2>2, TailIs DEF Typed
<1>3. ASSUME NEW w \in Vols, NEW i \in 1..Len(rq'[w])
      PROVE  /\ rq'[w][i] \in Opens
             /\ op'[rq'[w][i]].pc = "asked" /\ op'[rq'[w][i]].vol = w
             /\ ans'[rq'[w][i]] = 0 /\ thr'[w] # rq'[w][i]
             /\ \A j \in 1..Len(rq'[w]) : rq'[w][i] = rq'[w][j] => i = j
  <2>1. CASE w # v
    BY <1>1, <1>2, <1>3, <2>1 DEF Linked1, InQueue, Asked
  <2>2. CASE w = v
    <3>1. i \in Nat
      BY <1>3
    <3>2. /\ Asked(rq[v][i + 1], v) /\ ans[rq[v][i + 1]] = 0 /\ rq[v][1] # rq[v][i + 1]
      BY <1>2, <1>3, <2>2 DEF Linked1, InQueue
    <3>3. ASSUME NEW j \in 1..Len(rq'[v]), rq'[v][i] = rq'[v][j] PROVE i = j
      <4>1. i + 1 = j + 1
        <5>1. \A x, y \in 1..Len(rq[v]) : rq[v][x] = rq[v][y] => x = y
          BY DEF Linked1, InQueue
        <5>2. /\ i + 1 \in 1..Len(rq[v]) /\ j + 1 \in 1..Len(rq[v])
              /\ rq[v][i + 1] = rq[v][j + 1]
          BY <1>2, <1>3, <2>2, <3>3
        <5> QED  BY <5>1, <5>2, Zenon
      <4> QED  BY <3>1, <3>3, <4>1
    <3> QED  BY <1>1, <1>2, <1>3, <2>2, <3>2, <3>3, ZenonT(60) DEF Asked
  <2> QED  BY <2>1, <2>2
<1>4. InQueue'
  BY <1>3 DEF InQueue, Asked
<1>5. InThread'
  BY <1>1, <1>2 DEF Linked1, InQueue, InThread, Asked
<1>6. InReleased' /\ NotAsked' /\ AskedOnce'
  BY <1>1 DEF Linked1, InReleased, NotAsked, AskedOnce, Asked
<1>7. Service'
  BY <1>1, <1>2 DEF Linked1, Service
<1> QED  BY <1>4, <1>5, <1>6, <1>7

LEMMA ExecKeeps ==
  ASSUME Typed, Linked1, NEW v \in Vols, ExecOpen(v)
  PROVE  InQueue' /\ InThread' /\ InReleased' /\ Service' /\ NotAsked' /\ AskedOnce'
<1> DEFINE c == thr[v]
<1>1. /\ c # None /\ c \in Opens
      /\ thr' = [thr EXCEPT ![v] = None] /\ ans' = [ans EXCEPT ![c] = @ + 1]
      /\ UNCHANGED <<svc, rq, rel, told, op>>
  BY DEF ExecOpen, Typed
<1>2. /\ op[c].pc \in {"asked", "closed"} /\ op[c].vol = v
      /\ op[c].pc = "asked" => ans[c] = 0
      /\ svc[v] \notin {"clearing", "down"} /\ rel[v] = <<>>
  BY <1>1 DEF Linked1, InThread, Service
<1>3. /\ ans'[c] = ans[c] + 1 /\ \A d \in Opens : d # c => ans'[d] = ans[d]
      /\ thr'[v] = None /\ \A w \in Vols : w # v => thr'[w] = thr[w]
  BY <1>1 DEF Typed
<1>4. InQueue'
  <2>1. \A w \in Vols : \A i \in 1..Len(rq[w]) : rq[w][i] # c /\ rq[w][i] # None
    BY <1>1, <1>2, VolsAssumption DEF Linked1, InQueue, Asked
  <2> QED  BY <1>1, <1>3, <2>1, Lengths DEF Linked1, InQueue, Asked
<1> HIDE DEF c
<1>5. InThread'
  <2>1. \A w \in Vols : w # v /\ thr[w] # None => thr[w] # c
    BY <1>1, <1>2 DEF Linked1, InThread
  <2> QED  BY <1>1, <1>3, <2>1 DEF Linked1, InThread, Typed
<1>6. InReleased'
  <2>1. \A w \in Vols : \A i \in 1..Len(rel[w]) : rel[w][i] # c
    BY <1>2, Lengths DEF Linked1, InReleased, Asked
  <2> QED  BY <1>1, <1>3, <2>1, Lengths DEF Linked1, InReleased, Asked
<1>7. Service'
  BY <1>1, <1>3 DEF Linked1, Service
<1>8. NotAsked' /\ AskedOnce'
  BY <1>1, <1>2, <1>3 DEF Linked1, NotAsked, AskedOnce
<1> QED  BY <1>4, <1>5, <1>6, <1>7, <1>8

LEMMA NextOpenKeeps ==
  ASSUME Typed, Linked1, NEW c \in Opens, NextOpen(c)
  PROVE  InQueue' /\ InThread' /\ InReleased' /\ Service' /\ NotAsked' /\ AskedOnce'
<1>1. /\ op'[c].pc = "idle" /\ ans'[c] = 0
      /\ \A d \in Opens : d # c => op'[d] = op[d] /\ ans'[d] = ans[d]
      /\ UNCHANGED <<svc, rq, thr, rel, told>>
  BY DEF NextOpen, svcVars, Typed
<1>2. \A v \in Vols : /\ thr[v] # c
                      /\ \A i \in 1..Len(rq[v]) : rq[v][i] # c
                      /\ \A i \in 1..Len(rel[v]) : rel[v][i] # c
  BY DEF NextOpen, Linked
<1>3. InQueue' /\ InReleased'
  BY <1>1, <1>2, Lengths, SMTT(60) DEF Linked1, InQueue, InReleased, Asked
<1>4. InThread'
  BY <1>1, <1>2 DEF Linked1, InThread, Typed
<1>5. Service' /\ NotAsked' /\ AskedOnce'
  BY <1>1 DEF Linked1, Service, NotAsked, AskedOnce
<1> QED  BY <1>3, <1>4, <1>5
\* Unlinking a handle from a list without duplicates: the others keep their order.
Unlinked(q, s, c, p) ==
  /\ p \in 1..(Len(q) + 1)
  /\ \A i \in 1..Len(q) : q[i] = c <=> i = p
  /\ Len(s) = IF p <= Len(q) THEN Len(q) - 1 ELSE Len(q)
  /\ \A i \in 1..Len(s) : /\ (IF i < p THEN i ELSE i + 1) \in 1..Len(q)
                          /\ s[i] = q[IF i < p THEN i ELSE i + 1]
                          /\ s[i] # c
  /\ \A i, j \in 1..Len(s) : s[i] = s[j] => i = j

LEMMA UnlinkIs ==
  ASSUME NEW q \in Seq(Opens), NEW c, NEW s, s = Without(q, c),
         \A i, j \in 1..Len(q) : q[i] = q[j] => i = j
  PROVE  (q = <<>> => s = <<>>) /\ \E p : Unlinked(q, s, c, p)
<1>1. s \in Seq(Opens) /\ Len(s) \in Nat /\ Len(q) \in Nat
  BY WithoutIs, LenProperties
<1>2. PICK p \in 1..(Len(q) + 1) :
        /\ p <= Len(q) => q[p] = c
        /\ p > Len(q) => \A i \in 1..Len(q) : q[i] # c
        /\ Len(s) = IF p <= Len(q) THEN Len(q) - 1 ELSE Len(q)
        /\ \A i \in 1..Len(s) : s[i] = q[IF i < p THEN i ELSE i + 1]
  BY WithoutIs
<1>3. \A i \in 1..Len(q) : q[i] = c <=> i = p
  BY <1>1, <1>2
<1> DEFINE f(i) == IF i < p THEN i ELSE i + 1
<1>4. \A i \in 1..Len(s) : f(i) \in 1..Len(q) /\ f(i) # p
  BY <1>1, <1>2
<1>5. \A i \in 1..Len(s) : s[i] = q[f(i)]
  BY <1>2
<1>6. \A i, j \in 1..Len(s) : f(i) = f(j) => i = j
  BY <1>1, <1>2
<1> HIDE DEF f
<1>7. \A i \in 1..Len(s) : s[i] # c
  BY <1>3, <1>4, <1>5
<1>8. \A i, j \in 1..Len(s) : s[i] = s[j] => i = j
  <2>1. SUFFICES ASSUME NEW i \in 1..Len(s), NEW j \in 1..Len(s), s[i] = s[j] PROVE i = j
    OBVIOUS
  <2>2. q[f(i)] = q[f(j)] /\ f(i) \in 1..Len(q) /\ f(j) \in 1..Len(q)
    BY <1>4, <1>5, <2>1
  <2>3. f(i) = f(j)
    BY <2>2, Zenon
  <2> QED  BY <1>6, <2>3
<1>9. q = <<>> => s = <<>>
  BY <1>1, <1>2, EmptySeq
<1>10. \A i \in 1..Len(s) : /\ (IF i < p THEN i ELSE i + 1) \in 1..Len(q)
                            /\ s[i] = q[IF i < p THEN i ELSE i + 1]
                            /\ s[i] # c
  BY <1>4, <1>5, <1>7 DEF f
<1>11. Len(s) = IF p <= Len(q) THEN Len(q) - 1 ELSE Len(q)
  BY <1>2
<1>12. Unlinked(q, s, c, p)
  BY <1>3, <1>8, <1>10, <1>11 DEF Unlinked
<1> QED  BY <1>9, <1>12

LEMMA CloseKeeps ==
  ASSUME Typed, Linked1, NEW c \in Opens, CloseOpen(c)
  PROVE  InQueue' /\ InThread' /\ InReleased' /\ Service' /\ NotAsked' /\ AskedOnce'
<1> DEFINE v == op[c].vol
           q == rq[v]
           r == rel[v]
<1>1. /\ op[c].pc = "asked" /\ op' = [op EXCEPT ![c].pc = "closed"]
      /\ rq' = [rq EXCEPT ![v] = Without(@, c)]
      /\ rel' = [rel EXCEPT ![v] = Without(@, c)]
      /\ told' = [told EXCEPT ![v] = IF \E i \in 1..@ : r[i] = c THEN @ - 1 ELSE @]
      /\ ans' \in {ans, [ans EXCEPT ![c] = @ + 1]}
      /\ UNCHANGED <<svc, thr>>
  BY DEF CloseOpen
<1>2. /\ op'[c].pc = "closed" /\ op'[c].vol = v /\ v \in Vols
      /\ \A d \in Opens : d # c => op'[d] = op[d]
  BY <1>1, OpMoves
<1> HIDE DEF v
<1>3. /\ rq'[v] = Without(q, c) /\ rel'[v] = Without(r, c)
      /\ told'[v] = IF \E i \in 1..told[v] : r[i] = c THEN told[v] - 1 ELSE told[v]
      /\ \A w \in Vols : w # v => /\ rq'[w] = rq[w] /\ rel'[w] = rel[w]
                                  /\ told'[w] = told[w]
      /\ \A d \in Opens : d # c => ans'[d] = ans[d]
  BY <1>1, <1>2 DEF Typed
<1>4. /\ q \in Seq(Opens) /\ r \in Seq(Opens) /\ Len(q) \in Nat /\ Len(r) \in Nat
      /\ told[v] \in Nat /\ told[v] <= Len(r)
      /\ \A i, j \in 1..Len(q) : q[i] = q[j] => i = j
      /\ \A i, j \in 1..Len(r) : r[i] = r[j] => i = j
  BY <1>2, Lengths DEF Linked1, InQueue, InReleased, Service
<1>5. PICK p : Unlinked(q, rq'[v], c, p)
  BY <1>3, <1>4, UnlinkIs
<1>6. PICK o : Unlinked(r, rel'[v], c, o)
  BY <1>3, <1>4, UnlinkIs
<1>e. (q = <<>> => rq'[v] = <<>>) /\ (r = <<>> => rel'[v] = <<>>)
  BY <1>3, <1>4, UnlinkIs
<1>7. told'[v] = IF o <= told[v] THEN told[v] - 1 ELSE told[v]
  <2>1. (\E i \in 1..told[v] : r[i] = c) <=> o <= told[v]
    BY <1>4, <1>6 DEF Unlinked
  <2> QED  BY <1>3, <2>1
<1>8. InQueue'
  <2>1. ASSUME NEW w \in Vols, NEW i \in 1..Len(rq'[w])
        PROVE  /\ rq'[w][i] \in Opens
               /\ op'[rq'[w][i]].pc = "asked" /\ op'[rq'[w][i]].vol = w
               /\ ans'[rq'[w][i]] = 0 /\ thr'[w] # rq'[w][i]
               /\ \A j \in 1..Len(rq'[w]) : rq'[w][i] = rq'[w][j] => i = j
    <3>1. CASE w # v
      <4>1. rq'[w][i] = rq[w][i] /\ i \in 1..Len(rq[w]) /\ Asked(rq[w][i], w)
        BY <1>3, <2>1, <3>1 DEF Linked1, InQueue
      <4>2. rq[w][i] # c
        BY <3>1, <4>1 DEF Asked, v
      <4> QED  BY <1>1, <1>2, <1>3, <2>1, <3>1, <4>1, <4>2 DEF Linked1, InQueue, Asked
    <3>2. CASE w = v
      <4> DEFINE k == IF i < p THEN i ELSE i + 1
      <4>1. k \in 1..Len(q) /\ rq'[v][i] = q[k] /\ rq'[v][i] # c
        BY <1>5, <2>1, <3>2 DEF Unlinked
      <4> HIDE DEF k
      <4>2. Asked(q[k], v) /\ ans[q[k]] = 0 /\ thr[v] # q[k]
        BY <1>2, <4>1 DEF Linked1, InQueue
      <4> QED  BY <1>1, <1>2, <1>3, <1>5, <2>1, <3>2, <4>1, <4>2 DEF Asked, Unlinked
    <3> QED  BY <3>1, <3>2
  <2> QED  BY <2>1 DEF InQueue, Asked
<1>9. InReleased'
  <2>1. ASSUME NEW w \in Vols, NEW i \in 1..Len(rel'[w])
        PROVE  /\ rel'[w][i] \in Opens
               /\ op'[rel'[w][i]].pc = "asked" /\ op'[rel'[w][i]].vol = w
               /\ ans'[rel'[w][i]] = IF i <= told'[w] THEN 1 ELSE 0
               /\ \A j \in 1..Len(rel'[w]) : rel'[w][i] = rel'[w][j] => i = j
    <3>1. CASE w # v
      <4>1. rel'[w][i] = rel[w][i] /\ i \in 1..Len(rel[w]) /\ Asked(rel[w][i], w)
        BY <1>3, <2>1, <3>1 DEF Linked1, InReleased
      <4>2. rel[w][i] # c
        BY <3>1, <4>1 DEF Asked, v
      <4> QED  BY <1>1, <1>2, <1>3, <2>1, <3>1, <4>1, <4>2 DEF Linked1, InReleased, Asked
    <3>2. CASE w = v
      <4> DEFINE k == IF i < o THEN i ELSE i + 1
      <4>1. k \in 1..Len(r) /\ rel'[v][i] = r[k] /\ rel'[v][i] # c
        BY <1>6, <2>1, <3>2 DEF Unlinked
      <4>2. k <= told[v] <=> i <= told'[v]
        BY <1>4, <1>6, <1>7, <2>1, <3>2 DEF Unlinked
      <4> HIDE DEF k
      <4>3. Asked(r[k], v) /\ ans[r[k]] = IF k <= told[v] THEN 1 ELSE 0
        BY <1>2, <4>1 DEF Linked1, InReleased
      <4> QED  BY <1>1, <1>2, <1>3, <1>6, <2>1, <3>2, <4>1, <4>2, <4>3 DEF Asked, Unlinked
    <3> QED  BY <3>1, <3>2
  <2> QED  BY <2>1 DEF InReleased, Asked
<1>10. InThread'
  BY <1>1, <1>2, <1>3 DEF Linked1, InThread, Typed
<1>11. Service'
  <2>1. told'[v] <= Len(rel'[v])
    BY <1>4, <1>6, <1>7 DEF Unlinked
  <2> QED  BY <1>1, <1>2, <1>3, <1>e, <2>1 DEF Linked1, Service
<1>12. NotAsked' /\ AskedOnce'
  BY <1>2, <1>3 DEF Linked1, NotAsked, AskedOnce
<1> QED  BY <1>8, <1>9, <1>10, <1>11, <1>12

LEMMA LinkedKept ==
  ASSUME Typed, Linked1, [Next]_vars
  PROVE  Linked1'
<1> DEFINE P == InQueue /\ InThread /\ InReleased /\ Service /\ NotAsked /\ AskedOnce
<1>1. ASSUME UNCHANGED <<rq, thr, rel, told, svc, op, ans>> PROVE P'
  BY <1>1 DEF Linked1, InQueue, InThread, InReleased, Service, NotAsked, AskedOnce, Asked
<1>2. ASSUME OnFsBad \/ StopVolumes PROVE P'
  BY <1>2, StopKeeps
<1>3. ASSUME NEW v \in Vols, ThreadsJoined(v) PROVE P'
  BY <1>3, JoinKeeps
<1>4. ASSUME NEW v \in Vols, TellReleased(v) PROVE P'
  BY <1>4, TellKeeps
<1>5. ASSUME NEW v \in Vols, DisposeReleased(v) PROVE P'
  BY <1>5, DisposeKeeps
<1>6. ASSUME NEW v \in Vols, Reader(v) PROVE P'
  BY <1>6, PopKeeps, ExecKeeps DEF Reader
<1>7. ASSUME NEW c \in Opens, ChooseVolume(c) \/ PushFront(c) PROVE P'
  BY <1>7, ChooseKeeps, PushKeeps
<1>8. ASSUME NEW c \in Opens, CloseOpen(c) \/ NextOpen(c) PROVE P'
  BY <1>8, CloseKeeps, NextOpenKeeps
<1>9. P'
  BY <1>1, <1>2, <1>3, <1>4, <1>5, <1>6, <1>7, <1>8
  DEF Next, TimerFires, Stop, Handle, StartMetadataSync, BadClosed, Stopped, Thread,
      PopSync, ChunkWritten, OtherDiskError, vars, mgrVars, svcVars, opVars
<1> QED  BY <1>9, InUseKept DEF Linked1

\* A handle that its user has not closed is answered at most once, though the
\* reader thread, the stop of the service and the refusal by a stopped queue can
\* all come to it (object_open_handle::exec, service_stopped, async_close).
THEOREM NeverAnsweredTwice == Spec => []AskedOnce
<1>1. Init => Linked1
  <2> SUFFICES ASSUME Init PROVE Linked1
    OBVIOUS
  <2>1. \A v \in Vols : Len(rq[v]) = 0 /\ Len(rel[v]) = 0 /\ thr[v] = None
    BY EmptySeq DEF Init
  <2>2. InQueue /\ InThread /\ InReleased
    BY <2>1 DEF InQueue, InThread, InReleased
  <2> QED  BY <2>1, <2>2 DEF Init, Linked1, Service, InUse, NotAsked, AskedOnce
<1>2. Typed /\ Linked1 /\ [Next]_vars => (Typed /\ Linked1)'
  BY TypedKept, LinkedKept
<1>3. Typed /\ Linked1 => AskedOnce
  BY DEF Linked1
<1> QED  BY <1>1, <1>2, <1>3, InitIsTyped, PTL DEF Spec
=============================================================================

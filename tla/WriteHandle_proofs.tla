------------------------- MODULE WriteHandle_proofs -------------------------
(***************************************************************************)
(* Proofs about WriteHandle, for objects, fragments and writes of any      *)
(* size.                                                                   *)
(*                                                                         *)
(* Two invariants carry the rest.  Consumed says where the units are that  *)
(* the handle took from its user; it is about the writer thread's data     *)
(* alone, but holds after the final write only because the writer never    *)
(* copies again, which Finished says: once there was a final write the     *)
(* state is closed or stopped, whatever the other threads do.  Closing     *)
(* says that a handle being closed is queued, executed or told of the stop *)
(* of the service, hence not forgotten.                                    *)
(***************************************************************************)
EXTENDS WriteHandle, TLAPS

Typed == /\ ud \in Nat /\ took \in Nat
         /\ st \in State /\ links \in Nat /\ working \in BOOLEAN
         /\ at \in [Thread -> UserAt \cup WriterAt \cup StopperAt]
         /\ at["user"] \in UserAt /\ at["writer"] \in WriterAt
         /\ at["stopper"] \in StopperAt
         /\ offs \in 0..ObjectLen /\ acked \in Nat
         /\ wbuf \in 0..BuffCap /\ sent \in Nat /\ finals \in Nat

Consumed == sent + wbuf = Wanted(offs) /\ acked <= offs

Finished ==
  /\ finals <= 1
  /\ finals > 0 =>
       /\ wbuf = 0
       /\ \/ at["writer"] = "close_done"
          \/ st \in {"closed", "service_stopped"} /\ at["writer"] \in {"idle", "exec", "ended"}

\* The writer is executing the handle and has seen, or will see, its state.
Seen == at["writer"] \in {"exec", "fire", "final", "close_done"}

Closing ==
  /\ st = "closed" \/ at["writer"] = "close_done" => finals = 1
  /\ at["user"] \in {"idle", "push", "mark", "abort"} => st \in {"running", "service_stopped"}
  /\ at["user"] \in {"enqueue", "close_mark", "close_abort", "fire", "done"} => st # "running"
  /\ at["writer"] \in {"fire", "final", "close_done"} =>
       at["user"] \notin {"idle", "push", "mark", "abort"}
  /\ at["user"] = "close_abort" => st # "close"
  /\ at["user"] \in {"fire", "done"} /\ st = "close" =>
       links > 0 \/ Seen \/ at["stopper"] = "mark"

Inv == Typed /\ Consumed /\ Finished /\ Closing

-----------------------------------------------------------------------------
(* Arithmetic of skip_copy.                                                *)

LEMMA MaxOfTwo ==
  ASSUME NEW a \in Int, NEW b \in Int
  PROVE  Max({a, b}) = IF a >= b THEN a ELSE b
  BY DEF Max

LEMMA MinOfTwo ==
  ASSUME NEW a \in Int, NEW b \in Int
  PROVE  Min({a, b}) = IF a <= b THEN a ELSE b
  BY DEF Min

LEMMA MinOfThree ==
  ASSUME NEW a \in Int, NEW b \in Int, NEW c \in Int
  PROVE  /\ Min({a, b, c}) \in {a, b, c}
         /\ Min({a, b, c}) <= a /\ Min({a, b, c}) <= b /\ Min({a, b, c}) <= c
<1> DEFINE m == IF a <= b /\ a <= c THEN a ELSE IF b <= c THEN b ELSE c
<1>1. m \in {a, b, c} /\ \A x \in {a, b, c} : m <= x
  OBVIOUS
<1> QED  BY <1>1 DEF Min

LEMMA WantedIs ==
  ASSUME NEW o \in Nat
  PROVE  Wanted(o) = IF o <= DataBeg THEN 0
                     ELSE IF o <= DataEnd THEN o - DataBeg ELSE DataEnd - DataBeg
<1>1. DataBeg \in Nat /\ DataEnd \in Nat /\ DataBeg < DataEnd
  BY SizesAssumption
<1>2. /\ Min({o, DataEnd}) = IF o <= DataEnd THEN o ELSE DataEnd
      /\ Min({o, DataBeg}) = IF o <= DataBeg THEN o ELSE DataBeg
  BY <1>1, MinOfTwo
<1> DEFINE d == Min({o, DataEnd}) - Min({o, DataBeg})
<1>3. d = IF o <= DataBeg THEN 0
          ELSE IF o <= DataEnd THEN o - DataBeg ELSE DataEnd - DataBeg
  BY <1>1, <1>2
<1>4. d \in Nat
  BY <1>1, <1>3
<1> HIDE DEF d
<1>5. Max({0, d}) = d
  BY <1>4, MaxOfTwo
<1> QED  BY <1>3, <1>5 DEF Wanted, d

\* skip_copy consumes no more than it is given, copies no more than fits, and
\* what it copies are the wanted units among those it consumes.
LEMMA SkipCopyIs ==
  ASSUME NEW o \in 0..ObjectLen, NEW have \in Nat, NEW room \in Nat
  PROVE  LET res == SkipCopy(o, have, room) IN
         /\ res.offs \in o..ObjectLen /\ res.offs - o <= have
         /\ res.copied \in 0..room
         /\ Wanted(res.offs) = Wanted(o) + res.copied
<1> DEFINE skipped == Max({o, Min({DataBeg, o + have})})
           left1   == have - (skipped - o)
           copied  == IF skipped \in DataBeg..(DataEnd - 1)
                      THEN Min({DataEnd - skipped, room, left1}) ELSE 0
           at2     == skipped + copied
           left2   == left1 - copied
           offs2   == IF at2 >= DataEnd THEN Min({ObjectLen, at2 + left2}) ELSE at2
<1>a. /\ DataBeg \in Nat /\ DataEnd \in Nat /\ DataBeg < DataEnd
      /\ ObjectLen \in Nat /\ DataEnd <= ObjectLen /\ o \in Nat /\ o <= ObjectLen
  BY SizesAssumption
<1>1. SkipCopy(o, have, room) = [copied |-> copied, offs |-> offs2]
  BY DEF SkipCopy
<1>2. Min({DataBeg, o + have}) = IF DataBeg <= o + have THEN DataBeg ELSE o + have
  BY <1>a, MinOfTwo
<1>3. /\ skipped = IF o >= DataBeg THEN o
                   ELSE IF DataBeg <= o + have THEN DataBeg ELSE o + have
      /\ skipped \in Nat
  <2> DEFINE m == Min({DataBeg, o + have})
  <2>1. m \in Nat /\ m = IF DataBeg <= o + have THEN DataBeg ELSE o + have
    BY <1>a, <1>2
  <2>2. skipped = Max({o, m})
    OBVIOUS
  <2> HIDE DEF m, skipped
  <2>3. skipped = IF o >= m THEN o ELSE m
    BY <2>1, <2>2, <1>a, MaxOfTwo
  <2> QED  BY <2>1, <2>3, <1>a
<1> HIDE DEF skipped
<1>4. left1 \in Nat /\ skipped + left1 = o + have
  BY <1>a, <1>3
<1> HIDE DEF left1
<1>5. /\ copied \in Nat /\ copied <= room /\ copied <= left1
      /\ copied > 0 => skipped >= DataBeg /\ skipped + copied <= DataEnd
      /\ copied = 0 => \/ skipped < DataBeg \/ skipped >= DataEnd
                       \/ room = 0 \/ left1 = 0
  <2>1. CASE skipped \in DataBeg..(DataEnd - 1)
    <3>1. DataEnd - skipped \in Nat \ {0} /\ skipped >= DataBeg
      BY <2>1, <1>a
    <3>2. copied = Min({DataEnd - skipped, room, left1})
      BY <2>1
    <3> HIDE DEF copied
    <3>a. DataEnd - skipped \in Int /\ room \in Int /\ left1 \in Int
      BY <3>1, <1>4
    <3>3. /\ copied \in {DataEnd - skipped, room, left1}
          /\ copied <= DataEnd - skipped /\ copied <= room /\ copied <= left1
      BY <3>a, <3>2, MinOfThree, Zenon
    <3> QED  BY <3>1, <3>3, <1>a, <1>3, <1>4
  <2>2. CASE skipped \notin DataBeg..(DataEnd - 1)
    BY <2>2, <1>a, <1>3, <1>4
  <2> QED  BY <2>1, <2>2
<1> HIDE DEF copied
<1>6. at2 \in Nat /\ left2 \in Nat /\ at2 + left2 = o + have
  BY <1>3, <1>4, <1>5
<1>7. offs2 = IF at2 >= DataEnd
              THEN IF ObjectLen <= o + have THEN ObjectLen ELSE o + have
              ELSE at2
  BY <1>6, <1>a, MinOfTwo
<1>8. at2 >= o /\ at2 <= o + have /\ at2 = skipped + copied
  BY <1>3, <1>4, <1>5, <1>6, <1>a
<1> HIDE DEF at2, left2, offs2
<1>9. offs2 \in o..ObjectLen /\ offs2 - o <= have
  BY <1>6, <1>7, <1>8, <1>a
<1>10. Wanted(offs2) = Wanted(o) + copied
  <2>1. offs2 \in Nat /\ offs2 >= o
    BY <1>9, <1>a
  <2>2. Wanted(o) = IF o <= DataBeg THEN 0
                    ELSE IF o <= DataEnd THEN o - DataBeg ELSE DataEnd - DataBeg
    BY <1>a, WantedIs
  <2>3. Wanted(offs2) = IF offs2 <= DataBeg THEN 0
                    ELSE IF offs2 <= DataEnd THEN offs2 - DataBeg ELSE DataEnd - DataBeg
    BY <2>1, WantedIs
  <2>4. CASE copied > 0
    BY <2>4, <2>1, <2>2, <2>3, <1>a, <1>3, <1>5, <1>7, <1>8
  <2>5. CASE copied = 0
    BY <2>5, <2>1, <2>2, <2>3, <1>a, <1>3, <1>4, <1>5, <1>6, <1>7, <1>8
  <2> QED  BY <2>4, <2>5, <1>5
<1> QED  BY <1>1, <1>5, <1>9, <1>10

LEMMA WantedGrows ==
  ASSUME NEW o \in Nat, NEW p \in Nat, o <= p
  PROVE  Wanted(o) <= Wanted(p)
  BY WantedIs, SizesAssumption
-----------------------------------------------------------------------------
(* Every step keeps the invariant.                                         *)

LEMMA EnqueueIs ==
  ASSUME Typed, AsyncCloseEnqueue
  PROVE  /\ Step("user", "enqueue", IF working THEN "fire" ELSE "close_mark")
         /\ links' \in Nat /\ links' >= links /\ (working => links' > 0)
         /\ UNCHANGED <<ud, st, working, data>>
<1>1. Max({links, 1}) = IF links >= 1 THEN links ELSE 1
  BY MaxOfTwo DEF Typed
<1> QED  BY <1>1 DEF AsyncCloseEnqueue, Enqueue, Typed

LEMMA CopyIs ==
  ASSUME Typed, NEW taken \in BOOLEAN, Copy(taken)
  PROVE  /\ at["writer"] = "copy" /\ at["writer"]' \in {"copy", "finish"}
         /\ Step("writer", "copy", at["writer"]')
         /\ offs' \in offs..ObjectLen /\ took' \in Nat
         /\ wbuf' \in 0..BuffCap /\ sent' \in Nat
         /\ Wanted(offs') + sent + wbuf = Wanted(offs) + sent' + wbuf'
         /\ UNCHANGED <<ud, st, links, working, acked, finals>>
<1> DEFINE res  == SkipCopy(offs, took, BuffCap - wbuf)
           full == wbuf + res.copied
           send == full = BuffCap \/ (res.offs = ObjectLen /\ full > 0)
<1>1. /\ offs \in 0..ObjectLen /\ took \in Nat /\ BuffCap - wbuf \in Nat
      /\ wbuf \in 0..BuffCap /\ BuffCap \in Nat /\ ObjectLen \in Nat /\ sent \in Nat
  BY SizesAssumption DEF Typed
<1>2. /\ res.offs \in offs..ObjectLen /\ res.offs - offs <= took
      /\ res.copied \in 0..(BuffCap - wbuf)
      /\ Wanted(res.offs) = Wanted(offs) + res.copied
  BY <1>1, SkipCopyIs
<1>3. /\ send \/ taken
      /\ Step("writer", "copy", IF taken THEN "copy" ELSE "finish")
      /\ took' = took - (res.offs - offs)
      /\ offs' = res.offs
      /\ wbuf' = IF send /\ taken THEN 0 ELSE full
      /\ sent' = IF send /\ taken THEN sent + full ELSE sent
      /\ UNCHANGED <<ud, st, links, working, acked, finals>>
  BY DEF Copy, BufferAfter, queue
<1> HIDE DEF res
<1>4. Wanted(offs) \in Nat
  BY <1>1, WantedIs, SizesAssumption
<1>5. at["writer"] = "copy" /\ at["writer"]' = IF taken THEN "copy" ELSE "finish"
  BY <1>3 DEF Typed, Step, Thread
<1>6. full \in 0..BuffCap
  BY <1>1, <1>2
<1>7. offs' \in offs..ObjectLen /\ took' \in Nat
  BY <1>1, <1>2, <1>3
<1>8. wbuf' \in 0..BuffCap /\ sent' \in Nat
  BY <1>1, <1>3, <1>6
<1>9. Wanted(offs') + sent + wbuf = Wanted(offs) + sent' + wbuf'
  BY <1>1, <1>2, <1>3, <1>4
<1> QED  BY <1>3, <1>5, <1>7, <1>8, <1>9

LEMMA TypedKept ==
  ASSUME Typed, [Next]_vars
  PROVE  Typed'
<1> USE SizesAssumption DEF Typed, Step, Thread, UserAt, WriterAt, StopperAt, State, Nobody, Corrupted, data, queue
<1>1. CASE AsyncWrite
  BY <1>1 DEF AsyncWrite
<1>2. CASE AsyncWritePush
  BY <1>2 DEF AsyncWritePush, PushBack
<1>3. CASE AsyncClose
  BY <1>3 DEF AsyncClose
<1>4. CASE AsyncCloseEnqueue
  BY <1>4, EnqueueIs
<1>5. CASE AsyncCloseFire
  BY <1>5 DEF AsyncCloseFire, TryFireError
<1>6. CASE UserStopped
  BY <1>6 DEF UserStopped, MarkStopped, TryFireError
<1>7. CASE Pop
  BY <1>7 DEF Pop
<1>8. CASE WriterEnds
  BY <1>8 DEF WriterEnds
<1>9. CASE Exec
  BY <1>9 DEF Exec
<1>10. CASE TakeUserData
  BY <1>10 DEF TakeUserData
<1>11. ASSUME NEW taken \in BOOLEAN, Copy(taken) PROVE Typed'
  BY <1>11, CopyIs
<1>12. CASE CopyEnds
  BY <1>12 DEF CopyEnds
<1>13. CASE FinishWrite
  BY <1>13 DEF FinishWrite
<1>14. CASE CheckState
  BY <1>14 DEF CheckState
<1>15. CASE ExecPush
  BY <1>15 DEF ExecPush, PushBack
<1>16. CASE WriterStopped
  BY <1>16 DEF WriterStopped, MarkStopped, TryFireError
<1>17. CASE CloseFire
  BY <1>17 DEF CloseFire, TryFireError
<1>18. CASE DoFinalWrite
  BY <1>18 DEF DoFinalWrite
<1>19. CASE CloseDone
  BY <1>19 DEF CloseDone
<1>20. CASE StopQueue
  BY <1>20 DEF StopQueue
<1>21. CASE ReleaseAll
  BY <1>21 DEF ReleaseAll
<1>22. CASE StopperStopped
  BY <1>22 DEF StopperStopped, MarkStopped, TryFireError
<1>23. CASE UNCHANGED vars
  BY <1>23 DEF vars, data, queue
<1> QED
  BY <1>1, <1>2, <1>3, <1>4, <1>5, <1>6, <1>7, <1>8, <1>9, <1>10,
     <1>11, <1>12, <1>13, <1>14, <1>15, <1>16, <1>17, <1>18, <1>19,
     <1>20, <1>21, <1>22, <1>23
  DEF Next, User, Writer, Stopper, CopyTaken, CopyRefused

LEMMA ConsumedKept ==
  ASSUME Typed, Consumed, [Next]_vars
  PROVE  Consumed'
<1>1. ASSUME NEW taken \in BOOLEAN, Copy(taken) PROVE Consumed'
  <2>1. offs \in Nat /\ offs' \in Nat /\ ObjectLen \in Nat
    BY <1>1, CopyIs, SizesAssumption DEF Typed
  <2>2. Wanted(offs) \in Nat /\ Wanted(offs') \in Nat
    BY <2>1, WantedIs, SizesAssumption
  <2>3. /\ Wanted(offs') + sent + wbuf = Wanted(offs) + sent' + wbuf'
        /\ sent' \in Nat /\ wbuf' \in Nat /\ offs' >= offs /\ acked' = acked
    BY <1>1, <2>1, CopyIs, SizesAssumption
  <2>4. Wanted(offs)' = Wanted(offs')
    BY DEF Wanted
  <2>5. sent \in Nat /\ wbuf \in Nat
    BY SizesAssumption DEF Typed
  <2>6. sent + wbuf = Wanted(offs) /\ acked \in Nat /\ acked <= offs
    BY DEF Typed, Consumed
  <2>7. sent' + wbuf' = Wanted(offs')
    <3>1. PICK s2 \in Nat : s2 = sent'
      BY <2>3
    <3>2. PICK w2 \in Nat : w2 = wbuf'
      BY <2>3
    <3>3. Wanted(offs') + sent + wbuf = Wanted(offs) + s2 + w2
      BY <2>3, <3>1, <3>2, Zenon
    <3>4. s2 + w2 = Wanted(offs')
      BY <2>2, <2>5, <2>6, <3>3
    <3> QED  BY <3>1, <3>2, <3>4, Zenon
  <2>8. acked' <= offs'
    BY <2>1, <2>3, <2>6
  <2> QED  BY <2>4, <2>7, <2>8 DEF Consumed
<1>2. CASE FinishWrite
  <2>1. UNCHANGED <<offs, sent, wbuf>> /\ acked' \in {acked, offs}
    BY <1>2 DEF FinishWrite
  <2>2. offs \in Nat /\ acked <= offs
    BY SizesAssumption DEF Typed, Consumed
  <2>3. offs' = offs /\ acked' <= offs
    BY <2>1, <2>2
  <2> QED  BY <2>1, <2>3 DEF Consumed, Wanted
<1>3. CASE DoFinalWrite
  <2>1. UNCHANGED <<offs, acked>> /\ sent' = sent + wbuf /\ wbuf' = 0
    BY <1>3 DEF DoFinalWrite
  <2>2. sent' + wbuf' = sent + wbuf
    BY <2>1, SizesAssumption DEF Typed
  <2> QED  BY <2>1, <2>2 DEF Consumed, Wanted
<1>4. CASE UNCHANGED <<offs, acked, sent, wbuf>>
  BY <1>4 DEF Consumed, Wanted
<1>5. \/ \E taken \in BOOLEAN : Copy(taken)
      \/ FinishWrite \/ DoFinalWrite \/ UNCHANGED <<offs, acked, sent, wbuf>>
  BY DEF Next, vars, data, queue, User, AsyncWrite, AsyncWritePush, PushBack, AsyncClose,
     AsyncCloseEnqueue, Enqueue, AsyncCloseFire, TryFireError, UserStopped, MarkStopped,
     Writer, Pop, WriterEnds, Exec, TakeUserData, CopyTaken, CopyRefused, CopyEnds,
     CheckState, ExecPush, WriterStopped, CloseFire, CloseDone,
     Stopper, StopQueue, ReleaseAll, StopperStopped
<1> QED  BY <1>1, <1>2, <1>3, <1>4, <1>5

LEMMA FinishedKept ==
  ASSUME Typed, Finished, [Next]_vars
  PROVE  Finished'
<1> USE SizesAssumption DEF Typed, Finished, Step, Thread, State, data, queue
<1>1. CASE AsyncWrite
  BY <1>1 DEF AsyncWrite
<1>2. CASE AsyncWritePush
  BY <1>2 DEF AsyncWritePush, PushBack
<1>3. CASE AsyncClose
  BY <1>3 DEF AsyncClose
<1>4. CASE AsyncCloseEnqueue
  BY <1>4, EnqueueIs
<1>5. CASE AsyncCloseFire
  BY <1>5 DEF AsyncCloseFire, TryFireError
<1>6. CASE UserStopped
  BY <1>6 DEF UserStopped, MarkStopped, TryFireError
<1>7. CASE Pop
  BY <1>7 DEF Pop
<1>8. CASE WriterEnds
  BY <1>8 DEF WriterEnds
<1>9. CASE Exec
  BY <1>9 DEF Exec
<1>10. CASE TakeUserData
  BY <1>10 DEF TakeUserData
<1>11. ASSUME NEW taken \in BOOLEAN, Copy(taken) PROVE Finished'
  BY <1>11, CopyIs
<1>12. CASE CopyEnds
  BY <1>12 DEF CopyEnds
<1>13. CASE FinishWrite
  BY <1>13 DEF FinishWrite
<1>14. CASE CheckState
  BY <1>14 DEF CheckState
<1>15. CASE ExecPush
  BY <1>15 DEF ExecPush, PushBack
<1>16. CASE WriterStopped
  BY <1>16 DEF WriterStopped, MarkStopped, TryFireError
<1>17. CASE CloseFire
  BY <1>17 DEF CloseFire, TryFireError
<1>18. CASE DoFinalWrite
  BY <1>18 DEF DoFinalWrite
<1>19. CASE CloseDone
  BY <1>19 DEF CloseDone
<1>20. CASE StopQueue
  BY <1>20 DEF StopQueue
<1>21. CASE ReleaseAll
  BY <1>21 DEF ReleaseAll
<1>22. CASE StopperStopped
  BY <1>22 DEF StopperStopped, MarkStopped, TryFireError
<1>23. CASE UNCHANGED vars
  BY <1>23 DEF vars, data, queue
<1> QED
  BY <1>1, <1>2, <1>3, <1>4, <1>5, <1>6, <1>7, <1>8, <1>9, <1>10,
     <1>11, <1>12, <1>13, <1>14, <1>15, <1>16, <1>17, <1>18, <1>19,
     <1>20, <1>21, <1>22, <1>23
  DEF Next, User, Writer, Stopper, CopyTaken, CopyRefused

LEMMA ClosingKept ==
  ASSUME Typed, Finished, Closing, [Next]_vars
  PROVE  Closing'
<1> USE SizesAssumption DEF Typed, Finished, Closing, Seen, Step, Thread, UserAt, WriterAt, StopperAt, State, Corrupted, data, queue
<1>1. CASE AsyncWrite
  BY <1>1 DEF AsyncWrite
<1>2. CASE AsyncWritePush
  BY <1>2 DEF AsyncWritePush, PushBack
<1>3. CASE AsyncClose
  BY <1>3 DEF AsyncClose
<1>4. CASE AsyncCloseEnqueue
  BY <1>4, EnqueueIs
<1>5. CASE AsyncCloseFire
  BY <1>5 DEF AsyncCloseFire, TryFireError
<1>6. CASE UserStopped
  BY <1>6 DEF UserStopped, MarkStopped, TryFireError
<1>7. CASE Pop
  BY <1>7 DEF Pop
<1>8. CASE WriterEnds
  BY <1>8 DEF WriterEnds
<1>9. CASE Exec
  BY <1>9 DEF Exec
<1>10. CASE TakeUserData
  BY <1>10 DEF TakeUserData
<1>11. ASSUME NEW taken \in BOOLEAN, Copy(taken) PROVE Closing'
  BY <1>11, CopyIs
<1>12. CASE CopyEnds
  BY <1>12 DEF CopyEnds
<1>13. CASE FinishWrite
  BY <1>13 DEF FinishWrite
<1>14. CASE CheckState
  BY <1>14 DEF CheckState
<1>15. CASE ExecPush
  BY <1>15 DEF ExecPush, PushBack
<1>16. CASE WriterStopped
  BY <1>16 DEF WriterStopped, MarkStopped, TryFireError
<1>17. CASE CloseFire
  BY <1>17 DEF CloseFire, TryFireError
<1>18. CASE DoFinalWrite
  BY <1>18 DEF DoFinalWrite
<1>19. CASE CloseDone
  BY <1>19 DEF CloseDone
<1>20. CASE StopQueue
  BY <1>20 DEF StopQueue
<1>21. CASE ReleaseAll
  BY <1>21 DEF ReleaseAll
<1>22. CASE StopperStopped
  BY <1>22 DEF StopperStopped, MarkStopped, TryFireError
<1>23. CASE UNCHANGED vars
  BY <1>23 DEF vars, data, queue
<1> QED
  BY <1>1, <1>2, <1>3, <1>4, <1>5, <1>6, <1>7, <1>8, <1>9, <1>10,
     <1>11, <1>12, <1>13, <1>14, <1>15, <1>16, <1>17, <1>18, <1>19,
     <1>20, <1>21, <1>22, <1>23
  DEF Next, User, Writer, Stopper, CopyTaken, CopyRefused

LEMMA Invariance == Spec => []Inv
<1>1. Init => Inv
  <2> SUFFICES ASSUME Init PROVE Inv
    OBVIOUS
  <2>1. Wanted(0) = 0
    BY WantedIs, SizesAssumption
  <2>2. Typed
    BY SizesAssumption DEF Init, Typed, Thread, UserAt, WriterAt, StopperAt, State, Nobody
  <2>3. Consumed
    BY <2>1, SizesAssumption DEF Init, Consumed
  <2>4. Finished /\ Closing
    BY DEF Init, Finished, Closing, Thread
  <2> QED  BY <2>2, <2>3, <2>4 DEF Inv
<1>2. Inv /\ [Next]_vars => Inv'
  BY TypedKept, ConsumedKept, FinishedKept, ClosingKept DEF Inv
<1> QED  BY <1>1, <1>2, PTL DEF Spec

\* No unit that a write consumed is lost or handed over twice, and no more is
\* reported as written, whoever refuses, closes or stops in between
\* (try_write_all, exec).
THEOREM NothingEverLost == Spec => []NothingLost
<1>1. Inv => NothingLost
  <2> SUFFICES ASSUME Inv PROVE NothingLost
    OBVIOUS
  <2>1. sent + wbuf = Wanted(offs) /\ acked <= offs /\ (finals > 0 => wbuf = 0)
    BY DEF Inv, Consumed, Finished
  <2>2. /\ offs \in Nat /\ acked \in Nat /\ sent \in Nat
    BY SizesAssumption DEF Inv, Typed
  <2>3. Wanted(acked) <= Wanted(offs)
    BY <2>1, <2>2, WantedGrows
  <2>4. finals > 0 => sent = Wanted(offs)
    BY <2>1, <2>2
  <2> QED  BY <2>1, <2>3, <2>4 DEF NothingLost
<1> QED  BY <1>1, Invariance, PTL

\* The transaction is finished at most once, however close, a write in progress
\* and a stop of the service race (exec, state::closed).
THEOREM FinalWriteAtMostOnce == Spec => []FinalWriteOnce
<1>1. Inv => FinalWriteOnce
  BY DEF Inv, Finished, FinalWriteOnce
<1> QED  BY <1>1, Invariance, PTL

\* A handle that no thread has any more is finished, or its service was stopped:
\* the assertion of ~object_write_handle.
THEOREM AlwaysDestroyedFinished == Spec => []DestroyedFinished
<1>1. Inv => DestroyedFinished
  BY DEF Inv, Typed, Finished, Closing, Seen, DestroyedFinished, Released, State
<1> QED  BY <1>1, Invariance, PTL

\* The transaction is finished once before its handle goes away.
THEOREM AlwaysFinishedOnce == Spec => []FinishedOnce
<1>1. FinalWriteOnce /\ DestroyedFinished => FinishedOnce
  BY DEF FinishedOnce
<1> QED  BY <1>1, FinalWriteAtMostOnce, AlwaysDestroyedFinished, PTL

=============================================================================

------------------------------ MODULE CacheFs ------------------------------
(***************************************************************************)
(* One cache volume of xproxy-beta/cache while it is running: the table of *)
(* cached fragments (fs_metadata / fs_table), the in-memory block new      *)
(* fragments are collected in (agg_write_block), the state machine that    *)
(* flushes that block to the circular volume and saves what readers still  *)
(* use from the area it is about to overwrite (agg_writer), the writer     *)
(* thread's queue (aio_service), the volume mutex, and the read and write  *)
(* handles that run against them.                                          *)
(*                                                                         *)
(* The data are abstracted.  An object is NFrags fragments with fixed      *)
(* bounds, so a fragment is a pair <<key, index>> and two fragments either *)
(* are the same or do not overlap.  A volume block has room for Slots      *)
(* fragments.  The content of a fragment is the generation of its object:  *)
(* a truncating write starts a new generation.                             *)
(*                                                                         *)
(* Every critical section of the code (fs_metadata lock, or fs_metadata    *)
(* and block locks together) is one step.  A disk operation is two steps,  *)
(* and other threads run between them.                                     *)
(***************************************************************************)
EXTENDS Naturals, Sequences, FiniteSets

CONSTANTS
  Keys,          \* object keys; numbers, because agg_write_meta sorts by key
  NFrags,        \* fragments of an object
  NBlocks,       \* blocks of the data area of the volume
  Slots,         \* fragments a block has room for
  ReadHandles,   \* object_read_handles
  WriteHandles,  \* object_write_handles
  MaxReaders,    \* limit of the readers count of a range_elem (255 in the code)
  MaxEntries,    \* fragments the fs_table has room for
  NGens,         \* bound: contents of an object are told apart modulo NGens
  Changing,      \* keys whose objects change, and are written with truncation
  Failing,       \* disk operations that may fail: a subset of {"read", "write"}
  None,          \* no element, no handle, no fragment
  AggWriter      \* the agg_writer as a task of the write queue

ASSUME KeysAssumption    == Keys \subseteq Nat /\ Changing \subseteq Keys
ASSUME SizesAssumption   == /\ NFrags \in Nat \ {0} /\ Slots \in Nat \ {0}
                            /\ NBlocks \in Nat /\ NBlocks >= 3
                            /\ MaxReaders \in Nat \ {0} /\ MaxEntries \in Nat
                            /\ NGens \in Nat \ {0}
ASSUME HandlesAssumption == /\ IsFiniteSet(ReadHandles)
                            /\ AggWriter \notin WriteHandles
ASSUME FailingAssumption == Failing \subseteq {"read", "write"}

Piece  == Keys \X (1..NFrags)
Blocks == 0..(NBlocks - 1)
Offset == Blocks \X (1..Slots)      \* disk_offset: block and place in it
Gen    == 0..(NGens - 1)

\* A range_elem of the table.  "val" is not in the code: it is the content
\* the element stands for, the one that was handed to fsmd_add_new_fragment.
Elem == [off: Offset, mem: BOOLEAN, rd: 0..MaxReaders, val: Gen]

Table == [Piece -> Elem \cup {None}]

\* A stored fragment: the header names the piece, the data are its content.
Frag == [p: Piece, val: Gen]
Blank == [p |-> None, val |-> 0]    \* an area without a valid fragment header

\* An entry of the metadata at the start of a block on the volume.
Entry == [p: Piece, slot: 1..Slots]

Task == WriteHandles \cup {AggWriter}

AwStates == {"md_read1", "md_read2", "evac1", "evac2",
             "wait_write", "flush1", "flush2"}

\* The copy of a range_elem that a reader works with.
ElemCopy == [off: Offset, mem: BOOLEAN]

ReadHandle  == [pc: {"ready", "found", "disk", "reading"}, k: Keys,
                lo: 1..NFrags, hi: 1..NFrags, cur: 1..NFrags,
                el: ElemCopy \cup {None}, lk: BOOLEAN]
WriteHandle == [pc: {"open", "queued", "closing"}, k: Keys,
                cur: 1..(NFrags + 1), hi: 1..NFrags, val: Gen]

ASSUME NoneAssumption == /\ None \notin Elem \cup ElemCopy \cup Frag
                         /\ None \notin ReadHandle \cup WriteHandle
                         /\ None \notin Piece

VARIABLES
  tbl,    \* fs_table: for each piece its range_elem or None
  wpos,   \* fs_metadata::write_pos, and agg_writer's copy of it
  lap1,   \* the first lap over the volume: nothing to evacuate yet
  blk,    \* agg_write_block: the fragments in the order they were added
  dsk,    \* the volume: what each slot of each block holds
  dmd,    \* the agg_write_meta at the start of each block on the volume
  aw,     \* the state of the agg_writer state machine
  evac,   \* evac_meta_: entries of the current block still to be evacuated
  pd,     \* pend_data_: the final fragment that did not fit
  wq,     \* aio_service::write_queue_
  rh,     \* read handles
  wh,     \* write handles
  gen     \* the current generation of each object

vars == <<tbl, wpos, lap1, blk, dsk, dmd, aw, evac, pd, wq, rh, wh, gen>>

-----------------------------------------------------------------------------
(* The table, the block and the operations of cache_fs_operations on them. *)

Present(t)  == {p \in Piece : t[p] # None}
Marked(t)   == {p \in Present(t) : t[p].rd > 0}
Listed(b)   == {b[i].p : i \in 1..Len(b)}
PiecesOf(k) == {k} \X (1..NFrags)

\* agg_write_meta::has_entry: key, range and disk offset all match.
HasEntry(p, off) == /\ off[1] = wpos
                    /\ off[2] \in 1..Len(blk)
                    /\ blk[off[2]].p = p

\* Mutant of MayOverwrite: the readers of the overwritten element are ignored.
MayOverwriteMarked(t, p) == t[p] # None

\* The overwrite condition of fsmd_add_new_fragment.
MayOverwrite(t, p) == t[p].rd = 0

\* fsmd_add_new_fragment at write position w: the table and the block after
\* it, and whether the fragment was taken (or is pretended to be).
AddNewFragment(t, b, w, p, v) ==
  LET re    == [off |-> <<w, Len(b) + 1>>, mem |-> TRUE, rd |-> 0, val |-> v]
      added == Append(b, [p |-> p, val |-> v])
      full  == Len(b) >= Slots
      limit == t[p] = None /\ Cardinality(Present(t)) >= MaxEntries
      skip  == t[p] # None /\ ~MayOverwrite(t, p)
  IN  IF full THEN [t |-> t, b |-> b, ok |-> FALSE]
      ELSE IF p \in Listed(b) THEN [t |-> t, b |-> b, ok |-> TRUE]
      ELSE IF limit THEN [t |-> t, b |-> added, ok |-> FALSE]
      ELSE IF skip  THEN [t |-> t, b |-> added, ok |-> TRUE]
      ELSE [t |-> [t EXCEPT ![p] = re], b |-> added, ok |-> TRUE]

\* Mutant of RemNonEvac: elements with readers are removed, too.
RemNonEvacMarked(t, entries) ==
  [p \in Piece |-> IF p \in {e.p : e \in entries} THEN None ELSE t[p]]

\* fsmd_rem_non_evac_frags.  The entries of the block's metadata are matched
\* with the table by key, offset and size, not by disk offset.
RemNonEvac(t, entries) ==
  [p \in Piece |-> IF p \in {e.p : e \in entries} /\ t[p] # None /\ t[p].rd = 0
                   THEN None ELSE t[p]]

\* Mutant of ToEvacuate: an element with a single reader is left behind.
ToEvacuateManyReaders(t, entries) ==
  {e \in entries : e.p \in Present(t) /\ t[e.p].rd > 1}
ToEvacuate(t, entries) == {e \in entries : e.p \in Marked(t)}

\* Mutant of AddEvacFragment: the element keeps its old disk offset.
AddEvacFragmentOldOffset(t, b, p) ==
  IF t[p] = None THEN t ELSE [t EXCEPT ![p].mem = TRUE]

\* fsmd_add_evac_fragment: the element is in memory again, at its new place.
AddEvacFragment(t, b, p) ==
  IF t[p] = None THEN t
  ELSE [t EXCEPT ![p].mem = TRUE, ![p].off = <<wpos, Len(b) + 1>>]

\* Mutant of CommitDiskWrite: the last fragment of the block is skipped.
CommitDiskWriteShort(t, b) ==
  [p \in Piece |-> IF t[p] # None /\ \E i \in 1..(Len(b) - 1) : b[i].p = p
                   THEN [t[p] EXCEPT !.mem = FALSE] ELSE t[p]]

\* fsmd_commit_disk_write: what the block holds is on the disk now.
CommitDiskWrite(t, b) ==
  [p \in Piece |-> IF t[p] # None /\ p \in Listed(b)
                   THEN [t[p] EXCEPT !.mem = FALSE] ELSE t[p]]

\* Mutant of NextWritePos: the check for the end of the volume is off by one.
NextWritePosPastEnd == IF wpos + 1 <= NBlocks THEN wpos + 1 ELSE 0

\* go_to_next_wr_pos
NextWritePos == IF wpos + 2 <= NBlocks THEN wpos + 1 ELSE 0
NextLap1     == lap1 /\ wpos + 2 <= NBlocks

\* agg_write_meta is sorted by key and offset; evacuation goes in that order.
Before(p, q) == p[1] < q[1] \/ (p[1] = q[1] /\ p[2] < q[2])
FirstOf(es)  == {e \in es : \A f \in es : f = e \/ Before(e.p, f.p)}

-----------------------------------------------------------------------------
Init ==
  /\ tbl  = [p \in Piece |-> None]
  /\ wpos = 0
  /\ lap1 = TRUE
  /\ blk  = <<>>
  /\ dsk  = [b \in Blocks |-> [s \in 1..Slots |-> Blank]]
  /\ dmd  = [b \in Blocks |-> [ok |-> FALSE, ent |-> {}]]
  /\ aw   = "wait_write"
  /\ evac = {}
  /\ pd   = None
  /\ wq   = <<>>
  /\ rh   = [r \in ReadHandles |-> None]
  /\ wh   = [w \in WriteHandles |-> None]
  /\ gen  = [k \in Keys |-> 0]

-----------------------------------------------------------------------------
(* The agg_writer.  It is a task of the write queue that goes to the front *)
(* of it, and the write queue has one thread, which is busy from the       *)
(* beginning to the end of a disk operation.                               *)

\* Mutant of WriterBusy: the thread goes on while an evacuation read runs.
WriterBusyNotInEvac == aw \in {"md_read2", "flush2"}

WriterBusy == aw \in {"md_read2", "evac2", "flush2"}

\* Mutant of EnqueueAio: the agg_writer has no precedence over the handles.
EnqueueAioLast(q, state) == wq' = Append(q, AggWriter) /\ aw' = state

\* Mutant of EnqueueAio: the task gets lost.
EnqueueAioLost(q, state) == wq' = q /\ aw' = state

\* enqueue_read_aio_op, enqueue_write_aio_op
EnqueueAio(q, state) == wq' = <<AggWriter>> \o q /\ aw' = state

\* Mutant of WritePendData: the fragment stays pending after it was written.
WritePendDataKept(t, b, w) ==
  IF pd = None
  THEN /\ tbl' = t /\ blk' = b /\ pd' = None
       /\ aw' = "wait_write" /\ wq' = wq
  ELSE LET res == AddNewFragment(t, b, w, pd.p, pd.val)
       IN  /\ tbl' = res.t /\ blk' = res.b /\ pd' = pd
           /\ \/ res.ok  /\ aw' = "wait_write" /\ wq' = wq
              \/ ~res.ok /\ EnqueueAio(wq, "flush1")

\* write_pend_data, with the deferred flush when the data do not fit
WritePendData(t, b, w) ==
  IF pd = None
  THEN /\ tbl' = t /\ blk' = b /\ pd' = None
       /\ aw' = "wait_write" /\ wq' = wq
  ELSE LET res == AddNewFragment(t, b, w, pd.p, pd.val)
       IN  /\ tbl' = res.t /\ blk' = res.b
           /\ \/ res.ok  /\ pd' = None /\ aw' = "wait_write" /\ wq' = wq
              \/ ~res.ok /\ pd' = pd   /\ EnqueueAio(wq, "flush1")

\* Mutant of NextFromWaitNext: what has been evacuated stays in evac_meta_.
NextFromWaitNextKept(t, b, es) ==
  /\ evac' = evac \cup es
  /\ IF es # {}
     THEN tbl' = t /\ blk' = b /\ pd' = pd /\ EnqueueAio(wq, "evac1")
     ELSE WritePendData(t, b, wpos)

\* ev_do_next in wait_next, with t, b and es the table, the block and the
\* entries to evacuate after the operation that has just ended
NextFromWaitNext(t, b, es) ==
  /\ evac' = es
  /\ IF es # {}
     THEN tbl' = t /\ blk' = b /\ pd' = pd /\ EnqueueAio(wq, "evac1")
     ELSE WritePendData(t, b, wpos)

\* The writer thread pops the agg_writer and begins its disk operation.  For
\* a write it waits first until nobody holds the volume mutex
\* (vmtx_wait_disk_readers); it does not keep the mutex.
NobodyLocks == \A r \in ReadHandles : rh[r] # None => ~rh[r].lk

BeginIoOp ==
  /\ ~WriterBusy
  /\ wq # <<>> /\ Head(wq) = AggWriter
  /\ wq' = Tail(wq)
  /\ \/ aw = "md_read1" /\ aw' = "md_read2"
     \/ aw = "evac1"    /\ aw' = "evac2"
     \/ aw = "flush1"   /\ aw' = "flush2" /\ NobodyLocks
  /\ UNCHANGED <<tbl, wpos, lap1, blk, dsk, dmd, evac, pd, rh, wh, gen>>

\* on_md_read.  A disk error or bad metadata: nothing will be evacuated.
OnMdRead ==
  /\ aw = "md_read2"
  /\ \/ /\ dmd[wpos].ok
        /\ NextFromWaitNext(RemNonEvac(tbl, dmd[wpos].ent), blk,
                            ToEvacuate(tbl, dmd[wpos].ent))
     \/ /\ "read" \in Failing \/ ~dmd[wpos].ok
        /\ NextFromWaitNext(tbl, blk, {})
  /\ UNCHANGED <<wpos, lap1, dsk, dmd, rh, wh, gen>>

\* on_evac_done.  A disk error or a wrong header: the entry is left alone.
OnEvacDone ==
  /\ aw = "evac2"
  /\ \E e \in FirstOf(evac) :
       LET found == dsk[wpos][e.slot] IN
       \/ /\ found.p = e.p
          /\ NextFromWaitNext(AddEvacFragment(tbl, blk, e.p),
                              Append(blk, found), evac \ {e})
       \/ /\ "read" \in Failing \/ found.p # e.p
          /\ NextFromWaitNext(tbl, blk, evac \ {e})
  /\ UNCHANGED <<wpos, lap1, dsk, dmd, rh, wh, gen>>

\* The metadata a flush writes at the start of the block.
BlockMeta == [ok |-> TRUE, ent |-> {[p |-> blk[i].p, slot |-> i] : i \in 1..Len(blk)}]

\* What the volume holds after a flush that wrote the slots in "done" and
\* left "meta" as the block's metadata.  Only the used part is written.
Flushed(done, meta) ==
  /\ dsk' = [dsk EXCEPT ![wpos] =
               [s \in 1..Slots |-> IF s \in done THEN blk[s] ELSE dsk[wpos][s]]]
  /\ dmd' = [dmd EXCEPT ![wpos] = meta]

\* on_flush_done, fsmd_commit_disk_write and ev_do_next in state begin.  The
\* commit is done when the write has failed, too: then any part of the block
\* may have reached the disk.
OnFlushDone ==
  /\ aw = "flush2"
  /\ \/ Flushed(1..Len(blk), BlockMeta)
     \/ /\ "write" \in Failing
        /\ \E done \in SUBSET (1..Len(blk)),
              meta \in {dmd[wpos], BlockMeta, [ok |-> FALSE, ent |-> {}]} :
             Flushed(done, meta)
  /\ wpos' = NextWritePos
  /\ lap1' = NextLap1
  /\ evac' = {}
  /\ IF lap1'
     THEN WritePendData(CommitDiskWrite(tbl, blk), <<>>, wpos')
     ELSE /\ tbl' = CommitDiskWrite(tbl, blk) /\ blk' = <<>> /\ pd' = pd
          /\ EnqueueAio(wq, "md_read1")
  /\ UNCHANGED <<rh, wh, gen>>

-----------------------------------------------------------------------------
(* Write handles.                                                          *)

\* fsmd_begin_write: the range is trimmed to what is not there yet.
Absent(k) == {i \in 1..NFrags : tbl[<<k, i>>] = None}

OpenWrite(w, k) ==
  /\ wh[w] = None
  /\ Absent(k) # {}
  /\ \E lo, hi \in Absent(k) :
       /\ \A i \in Absent(k) : lo <= i /\ i <= hi
       /\ wh' = [wh EXCEPT ![w] = [pc |-> "open", k |-> k, cur |-> lo,
                                   hi |-> hi, val |-> gen[k]]]
  /\ UNCHANGED <<tbl, wpos, lap1, blk, dsk, dmd, aw, evac, pd, wq, rh, gen>>

\* Mutant of OpenTruncate: not refused while there are readers.
OpenTruncateMarked(w, k) ==
  /\ wh[w] = None
  /\ k \in Changing
  /\ tbl' = [p \in Piece |-> IF p \in PiecesOf(k) THEN None ELSE tbl[p]]
  /\ gen' = [gen EXCEPT ![k] = (@ + 1) % NGens]
  /\ wh'  = [wh EXCEPT ![w] = [pc |-> "open", k |-> k, cur |-> 1,
                               hi |-> NFrags, val |-> gen'[k]]]
  /\ UNCHANGED <<wpos, lap1, blk, dsk, dmd, aw, evac, pd, wq, rh>>

\* fsmd_begin_write_truncate: refused while any element has readers.
OpenTruncate(w, k) ==
  /\ wh[w] = None
  /\ k \in Changing
  /\ PiecesOf(k) \cap Marked(tbl) = {}
  /\ tbl' = [p \in Piece |-> IF p \in PiecesOf(k) THEN None ELSE tbl[p]]
  /\ gen' = [gen EXCEPT ![k] = (@ + 1) % NGens]
  /\ wh'  = [wh EXCEPT ![w] = [pc |-> "open", k |-> k, cur |-> 1,
                               hi |-> NFrags, val |-> gen'[k]]]
  /\ UNCHANGED <<wpos, lap1, blk, dsk, dmd, aw, evac, pd, wq, rh>>

\* object_write_handle::async_write
AsyncWrite(w) ==
  /\ wh[w] # None /\ wh[w].pc = "open" /\ wh[w].cur <= wh[w].hi
  /\ wh' = [wh EXCEPT ![w].pc = "queued"]
  /\ wq' = Append(wq, w)
  /\ UNCHANGED <<tbl, wpos, lap1, blk, dsk, dmd, aw, evac, pd, rh, gen>>

\* Mutant of AsyncCloseWrite: an idle handle is not queued when it is closed.
AsyncCloseWriteLost(w) ==
  /\ wh[w] # None /\ wh[w].pc \in {"open", "queued"}
  /\ wh' = [wh EXCEPT ![w].pc = "closing"]
  /\ wq' = wq
  /\ UNCHANGED <<tbl, wpos, lap1, blk, dsk, dmd, aw, evac, pd, rh, gen>>

\* object_write_handle::async_close
AsyncCloseWrite(w) ==
  /\ wh[w] # None /\ wh[w].pc \in {"open", "queued"}
  /\ wh' = [wh EXCEPT ![w].pc = "closing"]
  /\ wq' = IF wh[w].pc = "queued" THEN wq ELSE Append(wq, w)
  /\ UNCHANGED <<tbl, wpos, lap1, blk, dsk, dmd, aw, evac, pd, rh, gen>>

\* The fragment a write handle is about to add.
WritePiece(w) == <<wh[w].k, wh[w].cur>>

\* object_write_handle::exec of a running handle: agg_writer::write of one
\* fragment.  When it does not fit the block is flushed; the handle goes to
\* the back of the queue, or, if it has consumed the user's buffers, waits
\* with a full buffer for the user's next call.
ExecWrite(w) ==
  /\ ~WriterBusy
  /\ wq # <<>> /\ Head(wq) = w
  /\ wh[w].pc = "queued"
  /\ LET res == AddNewFragment(tbl, blk, wpos, WritePiece(w), wh[w].val)
     IN  /\ tbl' = res.t /\ blk' = res.b
         /\ \/ /\ res.ok
               /\ wh' = [wh EXCEPT ![w].pc = "open", ![w].cur = @ + 1]
               /\ wq' = Tail(wq) /\ aw' = aw
            \/ /\ ~res.ok
               /\ wh' = [wh EXCEPT ![w].pc = "open"]
               /\ EnqueueAio(Tail(wq), "flush1")
            \/ /\ ~res.ok
               /\ wh' = wh
               /\ EnqueueAio(Append(Tail(wq), w), "flush1")
  /\ UNCHANGED <<wpos, lap1, dsk, dmd, evac, pd, rh, gen>>

\* object_write_handle::exec of a closed handle: agg_writer::final_write of
\* what its buffer holds, possibly nothing.
ExecClose(w) ==
  /\ ~WriterBusy
  /\ wq # <<>> /\ Head(wq) = w
  /\ wh[w].pc = "closing"
  /\ wh' = [wh EXCEPT ![w] = None]
  /\ \/ /\ wq' = Tail(wq) /\ UNCHANGED <<tbl, blk, aw, pd>>
     \/ /\ wh[w].cur <= wh[w].hi
        /\ LET res == AddNewFragment(tbl, blk, wpos, WritePiece(w), wh[w].val)
           IN  /\ tbl' = res.t /\ blk' = res.b
               /\ \/ res.ok  /\ wq' = Tail(wq) /\ UNCHANGED <<aw, pd>>
                  \/ /\ ~res.ok
                     /\ pd' = [p |-> WritePiece(w), val |-> wh[w].val]
                     /\ EnqueueAio(Tail(wq), "flush1")
  /\ UNCHANGED <<wpos, lap1, dsk, dmd, evac, rh, gen>>

-----------------------------------------------------------------------------
(* Read handles, run by the reader threads.                                *)

Cover(h) == {h.k} \X (h.lo..h.hi)     \* the range of the read transaction

\* fsmd_begin_read: every element of the range is marked, or none.
MarkRead(t, ps)   == [p \in Piece |-> IF p \in ps THEN [t[p] EXCEPT !.rd = @ + 1]
                                      ELSE t[p]]
OpenRead(r, k, lo, hi) ==
  /\ rh[r] = None
  /\ LET ps == {k} \X (lo..hi) IN
     /\ ps \subseteq Present(tbl)
     /\ \A p \in ps : tbl[p].rd < MaxReaders
     /\ tbl' = MarkRead(tbl, ps)
  /\ rh' = [rh EXCEPT ![r] = [pc |-> "ready", k |-> k, lo |-> lo, hi |-> hi,
                              cur |-> lo, el |-> None, lk |-> FALSE]]
  /\ UNCHANGED <<wpos, lap1, blk, dsk, dmd, aw, evac, pd, wq, wh, gen>>

\* Mutant of UnmarkRead: a range that is in memory is not unmarked.
UnmarkReadOnDisk(t, ps) ==
  [p \in Piece |-> IF p \in ps /\ t[p] # None /\ ~t[p].mem
                   THEN [t[p] EXCEPT !.rd = @ - 1] ELSE t[p]]

\* fsmd_end_read: unmarks the range when all of it is found.
UnmarkRead(t, ps) ==
  IF ps \subseteq Present(t)
  THEN [p \in Piece |-> IF p \in ps THEN [t[p] EXCEPT !.rd = @ - 1] ELSE t[p]]
  ELSE t
EndRead(r) == /\ tbl' = UnmarkRead(tbl, Cover(rh[r]))
              /\ rh'  = [rh EXCEPT ![r] = None]

ReadPiece(r) == <<rh[r].k, rh[r].cur>>

\* The user has got the current fragment: go to the next one or finish.
Deliver(r) ==
  \/ /\ rh[r].cur < rh[r].hi
     /\ rh' = [rh EXCEPT ![r].pc = "ready", ![r].cur = @ + 1,
                         ![r].el = None, ![r].lk = FALSE]
     /\ tbl' = tbl
  \/ rh[r].cur = rh[r].hi /\ EndRead(r)

\* fsmd_find_next_range_elem: the handle takes a copy of the element.
FindElem(r) ==
  /\ rh[r] # None /\ rh[r].pc = "ready"
  /\ IF tbl[ReadPiece(r)] = None THEN EndRead(r)
     ELSE LET e == tbl[ReadPiece(r)] IN
          /\ rh' = [rh EXCEPT ![r].el = [off |-> e.off, mem |-> e.mem],
                              ![r].pc = IF e.mem THEN "found" ELSE "disk"]
          /\ tbl' = tbl
  /\ UNCHANGED <<wpos, lap1, blk, dsk, dmd, aw, evac, pd, wq, wh, gen>>

\* aggw_try_read_frag of an element whose copy says that it is in memory.
TryReadMem(r) ==
  /\ rh[r] # None /\ rh[r].pc = "found"
  /\ IF HasEntry(ReadPiece(r), rh[r].el.off) THEN Deliver(r)
     ELSE rh' = [rh EXCEPT ![r].pc = "disk"] /\ tbl' = tbl
  /\ UNCHANGED <<wpos, lap1, blk, dsk, dmd, aw, evac, pd, wq, wh, gen>>

\* vmtx_lock_shared: the mutex is taken for a disk offset in the three
\* blocks from the write position on.  The disk read begins.
LockNeeded(b) == \/ wpos <= b /\ b < wpos + 3
                 \/ b < wpos /\ b + NBlocks < wpos + 3

BeginDiskRead(r) ==
  /\ rh[r] # None /\ rh[r].pc = "disk"
  /\ rh' = [rh EXCEPT ![r].pc = "reading", ![r].lk = LockNeeded(rh[r].el.off[1])]
  /\ UNCHANGED <<tbl, wpos, lap1, blk, dsk, dmd, aw, evac, pd, wq, wh, gen>>

\* What a disk read may return: while the block is being written, the old or
\* the new header with the old or the new data.
DiskReads(off) ==
  LET old == dsk[off[1]][off[2]] IN
  IF aw = "flush2" /\ off[1] = wpos /\ off[2] <= Len(blk)
  THEN {[p |-> x.p, val |-> y.val] : x, y \in {old, blk[off[2]]}}
  ELSE {old}

\* on_end_io_op: the mutex is released, the header checked, the data handed
\* over; after a disk error or a wrong header the transaction is ended.
EndDiskRead(r) ==
  /\ rh[r] # None /\ rh[r].pc = "reading"
  /\ \/ \E d \in DiskReads(rh[r].el.off) :
          IF d.p = ReadPiece(r) THEN Deliver(r) ELSE EndRead(r)
     \/ "read" \in Failing /\ EndRead(r)
  /\ UNCHANGED <<wpos, lap1, blk, dsk, dmd, aw, evac, pd, wq, wh, gen>>

\* async_close, done by a reader thread between two operations of the handle
CloseRead(r) ==
  /\ rh[r] # None /\ rh[r].pc = "ready"
  /\ EndRead(r)
  /\ UNCHANGED <<wpos, lap1, blk, dsk, dmd, aw, evac, pd, wq, wh, gen>>

-----------------------------------------------------------------------------
AggWriterStep == BeginIoOp \/ OnMdRead \/ OnEvacDone \/ OnFlushDone

WriteStep(w) == \/ \E k \in Keys : OpenWrite(w, k) \/ OpenTruncate(w, k)
                \/ AsyncWrite(w) \/ AsyncCloseWrite(w)
                \/ ExecWrite(w) \/ ExecClose(w)

ReadStep(r) == \/ \E k \in Keys : \E lo \in 1..NFrags : \E hi \in lo..NFrags :
                    OpenRead(r, k, lo, hi)
               \/ FindElem(r) \/ TryReadMem(r)
               \/ BeginDiskRead(r) \/ EndDiskRead(r) \/ CloseRead(r)

Next == \/ AggWriterStep
        \/ \E w \in WriteHandles : WriteStep(w)
        \/ \E r \in ReadHandles : ReadStep(r)

Spec == Init /\ [][Next]_vars

\* The writer thread and the reader threads go on with what they have begun.
\* A flush waits for a moment in which no reader holds the volume mutex, and
\* gets it if such moments keep coming (pthread_rwlock with its default
\* attributes prefers readers, so nothing more can be assumed).  Users of
\* handles need not do anything.
ReadThreadStep(r) == TryReadMem(r) \/ BeginDiskRead(r) \/ EndDiskRead(r)

Fairness ==
  /\ SF_vars(BeginIoOp)
  /\ WF_vars(OnMdRead \/ OnEvacDone \/ OnFlushDone)
  /\ \A w \in WriteHandles : WF_vars(ExecWrite(w) \/ ExecClose(w))
  /\ \A r \in ReadHandles : WF_vars(ReadThreadStep(r))

FairSpec == Spec /\ Fairness
-----------------------------------------------------------------------------
(* Properties.                                                             *)

\* The range of every variable; in particular a readers count never leaves
\* 0..MaxReaders (atomic_dec_readers enforces that it is not decremented
\* below zero) and nothing but a task is in the write queue.
TypeOK ==
  /\ tbl  \in Table
  /\ wpos \in Blocks
  /\ lap1 \in BOOLEAN
  /\ blk  \in Seq(Frag)
  /\ dsk  \in [Blocks -> [1..Slots -> Frag \cup {Blank}]]
  /\ dmd  \in [Blocks -> [ok: BOOLEAN, ent: SUBSET Entry]]
  /\ aw   \in AwStates
  /\ evac \in SUBSET Entry
  /\ pd   \in Frag \cup {None}
  /\ wq   \in Seq(Task)
  /\ rh   \in [ReadHandles -> ReadHandle \cup {None}]
  /\ wh   \in [WriteHandles -> WriteHandle \cup {None}]
  /\ gen  \in [Keys -> Gen]

\* The read transactions whose range includes a piece.
ReadersOf(p) == {r \in ReadHandles : rh[r] # None /\ p \in Cover(rh[r])}

\* The readers count of an element is the number of open read transactions
\* over it, and an element with open transactions is in the table: whatever
\* is removed, overwritten, evacuated or truncated between fsmd_begin_read
\* and fsmd_end_read, the latter finds what the former has marked ("Seems
\* like they've been removed while being read. This must not happen").
ReadersExact ==
  \A p \in Piece : IF tbl[p] = None THEN ReadersOf(p) = {}
                   ELSE tbl[p].rd = Cardinality(ReadersOf(p))

\* No step removes an element that has readers or replaces what it stands
\* for: overwriting, truncating and fsmd_rem_non_evac_frags spare it.
MarkedKept ==
  [][\A p \in Marked(tbl) : tbl'[p] # None /\ tbl'[p].val = tbl[p].val]_vars

\* An element that is flagged in_memory is in the agg_write_block, at the
\* disk offset the element has, from the moment it is added or evacuated
\* until fsmd_commit_disk_write takes the flag back.
InMemoryIsInBlock ==
  \A p \in Present(tbl) : tbl[p].mem => HasEntry(p, tbl[p].off)

\* An element that is not flagged in_memory is on the volume: the area it
\* points to still holds its fragment.  The write position never passes over
\* an element that is neither removed nor evacuated.
OnDiskIsOnDisk ==
  \A p \in Present(tbl) :
    ~tbl[p].mem => dsk[tbl[p].off[1]][tbl[p].off[2]] = [p |-> p, val |-> tbl[p].val]

\* Where the copy of an element leads a reader: to the block in memory, if it
\* has the fragment there, or to the volume.
HasCopy(r)   == rh[r] # None /\ rh[r].el # None
CopyLeads(r) ==
  LET p   == ReadPiece(r)
      off == rh[r].el.off
  IN  \/ rh[r].pc = "found" /\ HasEntry(p, off)
      \/ dsk[off[1]][off[2]].p = p

\* The copy of an element that a reader takes under the lock and uses after it
\* (object_read_handle.cpp:383) leads to the fragment when it is taken, and
\* goes on to do so while the block is filled, flushed and overwritten: only
\* when the element has been moved can a step make the copy a stale one, which
\* the reader then sees by the header of what it finds.
CopiesLead ==
  [][\A r \in ReadHandles :
       LET p == ReadPiece(r)' IN
       (/\ HasCopy(r)' /\ (HasCopy(r) => CopyLeads(r))
        /\ tbl'[p] # None /\ tbl'[p].off = rh'[r].el.off)
       => CopyLeads(r)']_vars

\* The writer thread never takes a write handle's task while the agg_writer
\* is anywhere but in wait_write, and takes the agg_writer only when it waits
\* for its turn: the state machine never aborts on an unexpected event.
NoUnexpectedEvent ==
  ~WriterBusy /\ wq # <<>> =>
    IF Head(wq) = AggWriter THEN aw \in {"md_read1", "evac1", "flush1"}
    ELSE aw = "wait_write"

\* Adding an evacuated fragment to the block cannot fail (X3ME_ENFORCE in
\* fsmd_add_evac_fragment): there is room for all that is left to evacuate
\* and none of it is in the block already.
EvacuationFits ==
  aw \in {"evac1", "evac2"} =>
    /\ Len(blk) + Cardinality(evac) <= Slots
    /\ Listed(blk) \cap {e.p : e \in evac} = {}

\* There is at most one final fragment that waits for room: while write
\* handles can run nothing is pending (assertion in do_fin_write).
NothingPending == aw = "wait_write" => pd = None

\* "ensure that the currently written region of the volume is not accessed
\* by readers at the same time" (cache_fs_ops.h:43-45)
NoReadOfWrittenArea ==
  \A r \in ReadHandles :
    ~(/\ rh[r] # None /\ rh[r].pc = "reading" /\ aw = "flush2"
      /\ rh[r].el.off[1] = wpos /\ rh[r].el.off[2] <= Len(blk))

\* Evacuation moves an element, it does not change what the element stands
\* for: "change a bit its disk offset to the final place where it's
\* evacuated" (cache_fs_operations.cpp:447-448).
EvacuationMoves ==
  \A p \in Present(tbl) :
    tbl[p].mem /\ HasEntry(p, tbl[p].off)
      => blk[tbl[p].off[2]].val = tbl[p].val

\* Once the agg_writer has left wait_write it comes back to it: evacuation,
\* the flush and the retry of the pending fragment end.  While readers keep
\* marking elements they need not: evacuated fragments can fill every block.
AggWriterReturns ==
  <>[](Marked(tbl) = {}) => (aw # "wait_write" ~> aw = "wait_write")

\* A write or a close that a user has issued is eventually answered, under
\* the same condition.
WritesAnswered ==
  <>[](Marked(tbl) = {}) =>
    \A w \in WriteHandles :
      (wh[w] # None /\ wh[w].pc \in {"queued", "closing"})
        ~> (wh[w] = None \/ wh[w].pc = "open")
=============================================================================

----------------------------- MODULE FsMetadata -----------------------------
(***************************************************************************)
(* The metadata of one cache volume of xproxy-beta/cache in memory         *)
(* (fs_metadata, fs_table) and on the disk, where two copies A and B are   *)
(* written in turns: by the asynchronous sync (cache_fs, task_md_sync), by *)
(* the sync of a shutdown, and by the reset of a volume whose metadata     *)
(* could not be loaded.  A crash can come between any two writes.          *)
(*                                                                         *)
(* Of a table the model keeps, for each fs_node, how many ranges are       *)
(* committed to the disk and how many are still in the aggregate block in  *)
(* memory.  A copy is a row of chunks (metadata_sync_size): the first has  *)
(* the header, the last has the footer, and how many there are depends on  *)
(* the size of the table.  A chunk holds a part of one saved snapshot.     *)
(***************************************************************************)
EXTENDS Integers, FiniteSets, FiniteSetsExt

CONSTANTS
  Nodes,      \* keys of fs_nodes
  MaxRanges,  \* bound: ranges of one node
  NodeSize,   \* sizeof(fs_node_t)
  RangeSize,  \* sizeof(range_elem)
  StoreBlock, \* store_block_size: the footer is at a multiple of it
  ChunkSize,  \* metadata_sync_size
  SerialMod,  \* sync_serial_ is computed modulo this (2^32 in the code)
  MaxSerial,  \* bound: the last serial
  MaxResets,  \* bound: resets of the volume
  WritesFail, \* whether disk writes may fail
  None        \* a chunk without metadata; no write in progress

ASSUME SizesAssumption == /\ IsFiniteSet(Nodes)
                          /\ MaxRanges \in Nat /\ NodeSize \in Nat
                          /\ RangeSize \in Nat /\ StoreBlock \in Nat \ {0}
                          /\ ChunkSize \in Nat \ {0}
                          /\ SerialMod \in Nat \ {0, 1} /\ SerialMod % 2 = 0
                          /\ MaxSerial \in 0..(SerialMod - 1)
                          /\ MaxResets \in Nat /\ WritesFail \in BOOLEAN

-----------------------------------------------------------------------------
(* fs_table.                                                               *)

RVec  == [dsk: 0..MaxRanges, mem: 0..MaxRanges]
Empty == [dsk |-> 0, mem |-> 0]

Size(rv)      == rv.dsk + rv.mem
EmptyTable    == [n \in Nodes |-> Empty]
CntNodes(t)   == Cardinality({n \in Nodes : t[n] # Empty})

\* The sum of f[n] over the nodes, none of which is more than MaxRanges,
\* counted one by one.
Total(f) == Cardinality({x \in Nodes \X (1..MaxRanges) : x[2] <= f[x[1]]})

\* cnt_ranges_ should count the ranges of the vectors without SBO.
InVectors(size) == IF size > 1 THEN size ELSE 0
Counted(t)      == Total([n \in Nodes |-> InVectors(Size(t[n]))])

CalcInc(size) == CASE size = 0 -> 0 [] size = 1 -> 2 [] OTHER -> 1

\* Mutants of CalcDec: the range that stays behind alone is still counted;
\* the range that is alone is counted.
CalcDec(size, dec) == IF size = 1 THEN 0
                      ELSE IF size = dec + 1 THEN dec + 1 ELSE dec

DataSize(nodes, ranges) == nodes * NodeSize + ranges * RangeSize

\* What save writes: header, table with its own header, footer.
Snapshot == [uuid: 0..MaxResets, serial: 0..(SerialMod - 1),
             tbl: [Nodes -> RVec], ranges: Nat]

\* round_to_store_block_size
FtrOffs(size)  == ((size + StoreBlock - 1) \div StoreBlock) * StoreBlock
ChunksOf(size) == FtrOffs(size) \div ChunkSize + 1

TableSize(s) == DataSize(CntNodes(s.tbl), s.ranges)
Chunks(s)    == ChunksOf(TableSize(s))
MaxChunks    == ChunksOf(DataSize(Cardinality(Nodes), Cardinality(Nodes) * MaxRanges))

\* fs_table::load: each vector is loaded whole, then its uncommitted ranges
\* are removed; what is left must be as many as the header says.
LoadedRanges(t) ==
  Total([n \in Nodes |-> InVectors(Size(t[n])) - CalcDec(Size(t[n]), t[n].mem)])
TableLoads(s)   == LoadedRanges(s.tbl) = s.ranges
Committed(t)    == [n \in Nodes |-> [t[n] EXCEPT !.mem = 0]]

-----------------------------------------------------------------------------
(* fs_metadata::load.  "d" are the two copies on the disk, 0 is A, 1 is B. *)

Copy == 0..1

\* The footer of the table whose header is in the first chunk, if there is
\* one at the place where the size in that header says it must be.
Hdr(d, c)    == d[c][1]
FtrAt(d, c)  == Chunks(Hdr(d, c))
Ftr(d, c)    == d[c][FtrAt(d, c)]
HasFtr(d, c) == /\ Ftr(d, c) # None
                /\ FtrOffs(TableSize(Ftr(d, c))) = FtrOffs(TableSize(Hdr(d, c)))

Current(d, c) == /\ Hdr(d, c) # None /\ HasFtr(d, c)
                 /\ Hdr(d, c).uuid = Ftr(d, c).uuid

\* Mutant of Finished: the serial of the footer is not looked at.
Finished(d, c) == Hdr(d, c).serial = Ftr(d, c).serial

\* Mutant of ChooseCopy: A is chosen whether it is fresher or not.
ChooseCopyFirst(d) ==
  IF \E c \in Copy : ~Current(d, c) THEN None
  ELSE IF Finished(d, 0) THEN 0
  ELSE IF Finished(d, 1) THEN 1
  ELSE None

\* load_check_metadata_hdr_ftr: the copy to load, None if there is none.
ChooseCopy(d) ==
  IF \E c \in Copy : ~Current(d, c) THEN None
  ELSE IF /\ Finished(d, 0)
          /\ \/ Hdr(d, 0).serial >= Hdr(d, 1).serial
             \/ ~Finished(d, 1)
       THEN 0
  ELSE IF Finished(d, 1) THEN 1
  ELSE None

\* Every chunk of the copy is from the snapshot in its header.
Whole(d, c) == /\ Hdr(d, c) # None
               /\ \A i \in 1..Chunks(Hdr(d, c)) : d[c][i] = Hdr(d, c)

\* load_full_metadata: a copy that is not whole does not have a valid table.
Loads(d) == /\ ChooseCopy(d) # None
            /\ Whole(d, ChooseCopy(d))
            /\ TableLoads(Hdr(d, ChooseCopy(d)))

-----------------------------------------------------------------------------
VARIABLES
  tbl,     \* fs_table in memory
  ranges,  \* fs_table::cnt_ranges_
  uuid,    \* fs_metadata_hdr: one per reset of the volume
  serial,  \* fs_metadata_hdr::sync_serial_
  dirty,   \* fs_metadata::is_dirty_
  mode,    \* what the volume is doing
  job,     \* the write of a copy in progress
  disk,    \* the chunks of the two copies
  good,    \* the snapshot written last as a whole, or loaded; None in a reset
  unsaved, \* a sync failed and none was finished since
  revived  \* metadata from before an interrupted reset were loaded

vars == <<tbl, ranges, uuid, serial, dirty, mode, job, disk, good, unsaved,
          revived>>

Job == [snap: Snapshot, copy: Copy, done: 0..MaxChunks]

ASSUME NoneAssumption == None \notin Snapshot \cup Job

NextSerial(s) == (s + 1) % SerialMod
PrevSerial(s) == (s + SerialMod - 1) % SerialMod

Fresh(u) == [uuid |-> u, serial |-> 0, tbl |-> EmptyTable, ranges |-> 0]

\* A new write of the copy the serial selects.
NewJob(t, r, s) ==
  [snap |-> [uuid |-> uuid, serial |-> s, tbl |-> t, ranges |-> r],
   copy |-> s % 2, done |-> 0]

Init == /\ tbl = EmptyTable /\ ranges = 0
        /\ uuid = 0 /\ serial = 0 /\ dirty = FALSE
        /\ mode = "up" /\ job = None
        /\ disk = [c \in Copy |-> [i \in 1..MaxChunks |->
                     IF i <= Chunks(Fresh(0)) THEN Fresh(0) ELSE None]]
        /\ good = Fresh(0) /\ unsaved = FALSE /\ revived = FALSE

-----------------------------------------------------------------------------
(* The running volume changes the table.                                   *)

onDisk == <<uuid, serial, mode, job, disk, good, unsaved, revived>>

\* fs_table::add_entry without overlaps; the new range is in memory.
AddRange(n) ==
  /\ mode = "up" /\ Size(tbl[n]) < MaxRanges
  /\ tbl' = [tbl EXCEPT ![n].mem = @ + 1]
  /\ ranges' = ranges + CalcInc(Size(tbl[n]))
  /\ dirty' = TRUE
  /\ UNCHANGED onDisk

\* fs_table::add_entry over d committed and m uncommitted ranges.
OverwriteRanges(n) == \E d \in 0..tbl[n].dsk, m \in 0..tbl[n].mem :
  /\ mode = "up" /\ d + m > 0
  /\ tbl' = [tbl EXCEPT ![n] = [dsk |-> @.dsk - d, mem |-> @.mem - m + 1]]
  /\ ranges' = ranges - CalcDec(Size(tbl[n]), d + m)
                      + CalcInc(Size(tbl[n]) - d - m)
  /\ dirty' = TRUE
  /\ UNCHANGED onDisk

\* fs_table::rem_entries: an object is truncated, or its ranges are not
\* evacuated.
RemoveRanges(n) == \E d \in 0..tbl[n].dsk, m \in 0..tbl[n].mem :
  /\ mode = "up" /\ d + m > 0
  /\ tbl' = [tbl EXCEPT ![n] = [dsk |-> @.dsk - d, mem |-> @.mem - m]]
  /\ ranges' = ranges - CalcDec(Size(tbl[n]), d + m)
  /\ dirty' = TRUE
  /\ UNCHANGED onDisk

CommitAll(t) == [n \in Nodes |-> [dsk |-> Size(t[n]), mem |-> 0]]

\* fsmd_commit_disk_write: the block is on the disk, the write position moves.
CommitBlock ==
  /\ mode = "up"
  /\ tbl' = CommitAll(tbl) /\ dirty' = TRUE
  /\ UNCHANGED <<ranges, onDisk>>

-----------------------------------------------------------------------------
(* The asynchronous sync.                                                  *)

\* cache_fs::async_sync_metadata.
AsyncSync ==
  /\ mode = "up" /\ job = None /\ dirty /\ serial < MaxSerial
  /\ dirty' = FALSE
  /\ serial' = NextSerial(serial)
  /\ job' = NewJob(tbl, ranges, NextSerial(serial))
  /\ UNCHANGED <<tbl, ranges, uuid, mode, disk, good, unsaved, revived>>

Write(j, d) == [d EXCEPT ![j.copy][j.done + 1] = j.snap]

Last(j) == j.done + 1 = Chunks(j.snap)

\* task_md_sync::on_end_io_op without error.
SyncChunk ==
  /\ mode = "up" /\ job # None
  /\ disk' = Write(job, disk)
  /\ job'  = IF Last(job) THEN None ELSE [job EXCEPT !.done = @ + 1]
  /\ good' = IF Last(job) THEN job.snap ELSE good
  /\ unsaved' = (unsaved /\ ~Last(job))
  /\ UNCHANGED <<tbl, ranges, uuid, serial, dirty, mode, revived>>

\* task_md_sync::on_end_io_op with an error, and the callback: the serial goes
\* back, so that the next sync writes the same copy; is_dirty_ is not restored.
SyncChunkFails ==
  /\ mode = "up" /\ job # None /\ WritesFail
  /\ serial' = PrevSerial(serial)
  /\ job' = None /\ unsaved' = TRUE
  /\ UNCHANGED <<tbl, ranges, uuid, dirty, mode, disk, good, revived>>

-----------------------------------------------------------------------------
(* cache_fs::close, and the end of the process.                            *)

\* Mutant of SerialAtClose: an aborted sync counts as done.
SerialAtCloseKept(aborted) == IF aborted THEN serial ELSE serial

\* close aborts an asynchronous sync that is in progress.
SerialAtClose(aborted) == IF aborted THEN PrevSerial(serial) ELSE serial

\* aio_service is stopped, the block is flushed (unless it is empty, or the
\* write fails), and the metadata are synced if a sync was aborted or they are
\* dirty, as they are after a flush.
Close(flushed) ==
  LET aborted == job # None
      t       == IF flushed THEN CommitAll(tbl) ELSE tbl
      sync    == aborted \/ dirty \/ flushed
      s       == NextSerial(SerialAtClose(aborted))
  IN  /\ mode = "up" /\ SerialAtClose(aborted) < MaxSerial
      /\ flushed \/ CommitAll(tbl) = tbl \/ WritesFail
      /\ tbl' = t
      /\ dirty' = FALSE
      /\ mode' = IF sync THEN "close" ELSE "down"
      /\ serial' = IF sync THEN s ELSE serial
      /\ job' = IF sync THEN NewJob(t, ranges, s) ELSE None
      /\ UNCHANGED <<ranges, uuid, disk, good, unsaved, revived>>

\* sync_metadata writes the chunks in one call; a crash may come in between.
CloseChunk ==
  /\ mode = "close"
  /\ disk' = Write(job, disk)
  /\ job'  = IF Last(job) THEN None ELSE [job EXCEPT !.done = @ + 1]
  /\ good' = IF Last(job) THEN job.snap ELSE good
  /\ unsaved' = (unsaved /\ ~Last(job))
  /\ mode' = IF Last(job) THEN "down" ELSE "close"
  /\ UNCHANGED <<tbl, ranges, uuid, serial, dirty, revived>>

CloseChunkFails ==
  /\ mode = "close" /\ WritesFail
  /\ serial' = PrevSerial(serial)
  /\ job' = None /\ mode' = "down" /\ unsaved' = TRUE
  /\ UNCHANGED <<tbl, ranges, uuid, dirty, disk, good, revived>>

\* The process dies, or a bad volume is closed without a sync, or it cannot be
\* reset: what was written stays.
Crash == /\ mode # "down"
         /\ mode' = "down" /\ job' = None
         /\ UNCHANGED <<tbl, ranges, uuid, serial, dirty, disk, good, unsaved, revived>>

-----------------------------------------------------------------------------
(* cache_fs::init.                                                         *)

\* The uuids are random: a reset never gets one that was used before.
NewestUuid == Max({s.uuid : s \in {disk[c][i] : c \in Copy, i \in 1..MaxChunks}
                                       \ {None}})

InitLoad ==
  LET s == Hdr(disk, ChooseCopy(disk))
  IN  /\ mode = "down" /\ Loads(disk)
      /\ tbl' = Committed(s.tbl) /\ ranges' = s.ranges
      /\ uuid' = s.uuid /\ serial' = s.serial /\ dirty' = FALSE
      /\ mode' = "up" /\ good' = s /\ unsaved' = FALSE
      /\ revived' = (revived \/ s.uuid < NewestUuid)
      /\ UNCHANGED <<job, disk>>

\* init_reset_impl: clean_init, then both copies are written, A first.  The
\* metadata without a node fit in one chunk.
InitReset ==
  /\ mode = "down" /\ ~Loads(disk) /\ NewestUuid < MaxResets
  /\ tbl' = EmptyTable /\ ranges' = 0
  /\ uuid' = NewestUuid + 1 /\ serial' = 0 /\ dirty' = FALSE
  /\ mode' = "reset" /\ good' = None /\ unsaved' = FALSE
  /\ job' = [snap |-> Fresh(NewestUuid + 1), copy |-> 0, done |-> 0]
  /\ UNCHANGED <<disk, revived>>

ResetCopy ==
  /\ mode = "reset"
  /\ disk' = Write(job, disk)
  /\ \/ job.copy = 0 /\ job' = [job EXCEPT !.copy = 1]
        /\ UNCHANGED <<mode, good>>
     \/ job.copy = 1 /\ job' = None /\ mode' = "up" /\ good' = job.snap
  /\ UNCHANGED <<tbl, ranges, uuid, serial, dirty, unsaved, revived>>

Next == \/ \E n \in Nodes : AddRange(n) \/ OverwriteRanges(n) \/ RemoveRanges(n)
        \/ CommitBlock
        \/ AsyncSync \/ SyncChunk \/ SyncChunkFails
        \/ \E flushed \in BOOLEAN : Close(flushed)
        \/ CloseChunk \/ CloseChunkFails
        \/ Crash \/ InitLoad \/ InitReset \/ ResetCopy

Spec == Init /\ [][Next]_vars

-----------------------------------------------------------------------------
(* What the metadata promise.                                              *)

TypeOK ==
  /\ tbl \in [Nodes -> RVec] /\ ranges \in Nat
  /\ uuid \in 0..MaxResets /\ serial \in 0..(SerialMod - 1)
  /\ dirty \in BOOLEAN /\ mode \in {"up", "close", "down", "reset"}
  /\ job \in Job \cup {None} /\ (mode \in {"close", "reset"} => job # None)
  /\ disk \in [Copy -> [1..MaxChunks -> Snapshot \cup {None}]]
  /\ good \in Snapshot \cup {None} /\ unsaved \in BOOLEAN
  /\ revived \in BOOLEAN

\* The counter kept by adding and removing is what save writes: save stops the
\* process otherwise ("Wrong calculation of the data size", fs_table.cpp).
CountExact == ranges = Counted(tbl)

\* Whenever the process dies, the snapshot saved last is whole in one of the
\* copies: no sync, failed sync, aborted sync or restart writes over it.
GoodKept == good # None => \E c \in Copy : Whole(disk, c) /\ Hdr(disk, c) = good

\* The copy that is chosen after a crash is the snapshot saved last, never a
\* mixture of two, though a serial that was given back is used again for other
\* contents.  It can be one after a crash between the two writes of a reset,
\* because the copy loaded then may be older than chunks still on the disk.
FreshestChosen ==
  ~revived /\ ChooseCopy(disk) # None =>
    /\ Whole(disk, ChooseCopy(disk))
    /\ good # None => Hdr(disk, ChooseCopy(disk)) = good

\* Metadata that are not dirty are on the disk, so a close that syncs nothing
\* loses nothing, unless a sync failed.
CleanIsSaved ==
  mode = "up" /\ ~dirty /\ job = None /\ ~unsaved => Committed(good.tbl) = Committed(tbl)

\* What was committed to the disk and then saved survives a crash: fs_table::load
\* removes the ranges that were not committed, and keeps the others.
SavedSurvives == good # None /\ mode = "down" => Loads(disk)

=============================================================================

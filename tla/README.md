# TLA+ models of xproxy

xproxy (`src/xproxy-beta`) is a transparent caching HTTP proxy. This directory
holds TLA+ modules for its concurrent core, the disk cache
(`src/xproxy-beta/cache`), for the two state machines of a proxied
connection (`net/proxy_conn.cpp`, `http/http_handler.cpp`), and for the
asynchronous log channels (`xlog/async_channel_impl.cpp`), configurations to
model-check them with TLC, and proofs for TLAPS. Paths below are relative to
`src/xproxy-beta` unless they begin with `src/`.

To run one check: `tlc -workers 2 -config CacheFs_evacuation.cfg MCCacheFs.tla`.
To check proofs: `tlapm CacheFs_proofs.tla`, and so on for each `*_proofs.tla`.

## 1. The system

### 1.1 Components

| component | state it keeps | operations | how it meets the others |
|---|---|---|---|
| `cache_mgr` | collection of volumes (RCU), sync timer, its own io_service and thread | init, open objects, start/continue a round of metadata syncs, remove a bad volume, stop | calls `cache_fs`; gets "sync ended" and "volume bad" as handlers posted to its thread |
| `cache_fs` | one volume: metadata, aggregate writer, aio service, error counter | init (load or reset), async sync, close, count disk errors | owns everything below it |
| `fs_metadata`, `fs_table` | table key → `range_vector`, write position, serial, dirty flag, counters | add, find, remove, save, load, choose a copy | under one rwlock; used by readers, the writer thread and the sync |
| `range_vector`, `range_elem` | sorted ranges of an object; for each a disk offset, in-memory flag, 8-bit readers count | add, find, trim, remove, mark as read | inside `fs_table` |
| `cache_fs_operations` | volume mutex | every compound operation (`fsmd_*`, `aggw_*`, `vmtx_*`, `aios_*`) with its locks | the interface of handles and the aggregate writer to the volume |
| `agg_writer`, `agg_write_block` | state machine; block of collected fragments; pending final fragment; entries left to evacuate | write, final write, flush, read metadata of the next block, evacuate | a task of the write queue that puts itself at the front |
| `object_read_handle` | read transaction, copy of the current element, buffers | open, async read, close | reader threads; reads the block in memory or the disk |
| `object_write_handle` | write transaction, one fragment buffer, user data behind a spin lock, atomic state | async write, async close, exec | network thread, writer thread, stopping thread |
| `object_open_handle` | handler to call | exec, service_stopped, async_close | pushed to the front of the read queue |
| `aio_service`, `aio_task_queue` | read queue with several threads, write queue with one | push, push front, enqueue, remove, stop | runs all handles |
| `write_transactions` | open write transactions of an object | add, remove, trim | not used by the rest yet (`cache/cache_fs_operations.cpp:753-758`) |
| `proxy_conn` (`net/`) | two sockets, six orthogonal regions, pending bytes | receive, send, pause, resume, shut down, close, blind tunnel | drives a protocol handler |
| `http_handler`, `http_trans` (`http/`) | state machine of one transaction, cache streams, message parsers | origin and client data, cache answers, tunnel | between `proxy_conn` and `cache_mgr` |
| `async_channel_impl`, `shared_queue` (`xlog/`) | bounded queue of log messages, its refusals and their count, a worker thread | log, write, report what was refused, stop with or without a flush | used by all threads |
| `logger`, log targets and files (`xlog/`, `logging.cpp`) | list of channels behind a rwlock; levels and filters; names of the files | write to the channels, add and remove a channel, rotate, start and stop a debug log | used by all threads |
| `io_buff` (`xutils/`) | ring of buffers with readers | produce, consume, expand | used by one thread |
| rest | settings, management, plug-ins, command line tools, house and vendored libraries | | |

`PROJECT.json` lists every component with its files and what becomes of it.

### 1.2 What is hard, and what must be right

* **Readers against a circular volume.** The aggregate writer overwrites the
  oldest block. What a read transaction has marked must be carried to the new
  block (evacuation), what nobody reads must leave the table, and the mark must
  find its way back: counts equal open transactions, no marked element is
  removed or changed, an element points to where its data are.
* **One writer thread as a lock.** Nothing but the order in the write queue
  keeps write handles out while the aggregate writer has an operation on the
  disk; an unexpected event aborts the process (`cache/agg_writer.cpp:320`).
* **A write handle shared by three threads** without a common lock.
* **Two metadata copies, a counter and a serial** against crashes, failed and
  aborted syncs and resets.
* **One chain of syncs over all volumes** against their removal, and opens
  against the stop of the service they are queued in.
* **Sorted vectors of ranges of any bounds**: searches that look at neighbours
  only, counts of readers set by one search and taken back by another after
  other threads have changed the vector, a counter that leaves some ranges out.
* **Two state machines in the network part** that abort on any event they do
  not expect (`net/proxy_conn.cpp:296`, `http/http_handler.cpp:318`), with bytes
  pending at several readers of one buffer, a stream that is switched from the
  socket to the cache in the middle of a response, and a tunnel that can be
  wanted at any time.
* **A log queue that may refuse.** Its worker, the thread that stops it and all
  threads that log meet between critical sections: a refusal must end, nothing
  may be lost without being reported, and `stop` must not wait for a worker that
  waits for an entry.

The hazards in `PROJECT.json` are the detailed list, each at its line, with the
properties that cover it.

## 2. The modules

| module | models | state | one action per |
|---|---|---|---|
| `CacheFs` | a running volume: `cache_fs_operations`, `agg_writer`, `agg_write_block`, write queue, volume mutex, handles | `tbl wpos lap1 blk dsk dmd aw evac pd wq rh wh gen` | critical section; beginning and end of a disk operation |
| `RangeVector` | `range_vector`: every search and change, as operators on sequences | | |
| `FsTable` | `fs_table` and the operations of `cache_fs_operations` on it, fragments of any bounds | `nodes counts rtrans` | operation under the metadata lock |
| `PinnedRanges` | what the table promises its readers (abstract specification) | `frags reads` | begin, end, add, remove |
| `WriteHandle` | one `object_write_handle` and the three threads that run it | `ud st links working at took offs wbuf sent acked finals` | access to `user_data_`, `state_` or the queue |
| `FsMetadata` | `fs_metadata`/`fs_table` in memory and on the disk, sync, close, crash, init | `tbl ranges uuid serial dirty mode job disk good unsaved revived` | table operation; chunk written |
| `CacheMgr` | `cache_mgr`, volume life cycle, read queue, open handles, `task_md_sync` as seen from outside | `mode fss tmr posted closing svc rq thr rel told sync errs op ans seen` | handler; thread step between two locks |
| `ProxyConn` | `proxy_conn`: the six regions, buffers with readers, legs, pending bytes, as operators from a connection to the next | | |
| `HttpHandler` | `http_handler` and the transactions of `http_trans` on top of `ProxyConn` | | |
| `Proxy` | both, composed with the peers, the sockets, the cache and the stalled check | `conn` | completion handler |
| `LogChannel` | one channel of `xlog`: `shared_queue`, the worker and `stop` | `queue block cnt unblock stopped wat sat res skipped next taken file lost told owed` | critical section of the queue; access to `stopped_`; message written |
| `*_proofs` | theorems about the module of that name; `FsTable_proofs` has those about `RangeVector` and `PinnedRanges` too, `HttpHandler_proofs` what `Proxy_proofs` rests on | | |
| `MC*` | instances for TLC | | |

How they fit: `CacheFs` has the volume with the handles of users, exec of a
write handle being one step. `WriteHandle` takes that step apart; of the
aggregate writer it keeps only "takes the fragment" and "refuses it", and that it
does not refuse for ever is `CacheFs!AggWriterReturns`. `FsMetadata` has what
`CacheFs` keeps in `tbl` as numbers of ranges, and adds what becomes of it over
restarts. `CacheMgr` has many volumes, of each its queue, threads and errors.
`FsTable` is the table of `CacheFs` with fragments of any bounds and without what
happens to their data; it uses `RangeVector` and implements `PinnedRanges`.
`Proxy` EXTENDS `HttpHandler`, which EXTENDS `ProxyConn`; of the cache it has what
a stream of `cache_mgr` answers: found or not, bytes, an error, end of data.
`LogChannel` stands alone: every part logs, and none waits for what it logs.

### 2.1 CacheFs

`tbl` maps a *piece* (key, fragment number) to its `range_elem` (`off`, `mem`,
`rd`) or `None`; `val`, the content the element stands for, is a ghost. `blk` is
the block in memory, `dsk` what each slot of the volume holds, `dmd` the
`agg_write_meta` of each block on the volume, `aw` the state of the sml machine
(`evac1`: queued for an evacuation read, `evac2`: the read is running, and so
on), `pd` is `pend_data_`, `evac` is `evac_meta_`. Read handles go through
`ready → found → disk → reading` with a copy `el` of the element, and `lk` says
that they hold the volume mutex shared. `CopiesLead` is about these copies: one that
is older than the lock leads to its fragment until the element is moved, and the
reader sees by the fragment's header that it has been.

What is abstracted: an object has `NFrags` fragments with fixed bounds, a block
room for `Slots` of them. So two ranges are the same or disjoint; trimming and
partial overlaps are in `FsTable`. The content of a fragment
is the generation of its object, which a truncating write starts anew. A failed
write leaves any subset of the block on the disk and old, new or no metadata. A
read of a block that is being written returns old or new header with old or new
data.

### 2.2 WriteHandle

One action for each access to shared data: the swap of `user_data_` under its
spin lock, loads and stores of `state_`, queue operations under the queue's
mutex. `skip_copy` is modelled by what it computes. The user keeps to the
interface: one operation at a time, nothing after `async_close`. A state in which
the intrusive list links the task twice has no successors, because what the code
does then is undefined.

### 2.3 FsMetadata

Of a node the model keeps how many ranges are committed and how many are in
memory; that is all `cnt_ranges_`, `save` and `load` depend on. Each on-disk
copy is a row of chunks; a chunk holds part of one snapshot. A crash can come
between any two chunks. `good` is the snapshot written last as a whole (ghost),
`unsaved` remembers a failed sync, `revived` that metadata older than an
interrupted reset were loaded: both mark situations the properties exempt
because the code loses data in them (section 4).

The size of a table is counted range by range (`Total`), so that what the counter
must be is a cardinality the proofs can reason about.

### 2.4 CacheMgr

`posted` is the queue of the manager's io_service. `svc` runs a volume's service
from `up` over `stopping` (queues refuse, threads end) and `clearing` (the
released tasks are told) to `down`. The reads of the read queue other than opens
are left out, and the limit on queued tasks (56, answered at once,
`cache/cache_fs.cpp:250`) too.

### 2.5 RangeVector, FsTable, PinnedRanges

A vector is a sequence of elements `[beg, end)` with a readers count. The
functions that return two iterators return the set of indices between them:
`FindFullRange`, `FindInRange`, `FindExactRange`, `TrimOverlaps`, each written
the way the code searches: a lower bound and its neighbours, never all elements.
`SearchesFind` compares them with what they should find, defined over all
elements.

`FsTable` has one action per operation under the metadata lock: a read
transaction begins (marks what `FindFullRange` returns, or takes the marks back
at the limit), ends, a fragment is added over others, fragments that are not
evacuated are removed, an object is truncated. To mark some elements and take
the marks back at the limit is one step, as it is under one lock. `counts` are
the three counters, `MaxDataSize` the memory limit. The size of the table is
counted in elements, `NodeSize` of them for a node; whether a vector is in the
node (one range) or on the heap appears only in this counting.

`PinnedRanges` is a set of fragments that do not overlap and read transactions
that pin what they read. The mapping forgets order and counts:
`frags` is the set of all elements, `reads` is `rtrans`.

### 2.6 ProxyConn, HttpHandler, Proxy

One network thread runs a connection, so a completion handler is one action, and
the methods it calls are operators from a connection record to the next. The
record keeps the six regions as the set `sm` of current states; `OrgRecvTable`
and its five siblings are the transition tables with guards and actions, and an
event without a row in any region adds to `bug` (there the code calls `abort`).
The same for `http_handler`, whose state is `csm`, and for assertions.

A socket operation is `live` until it succeeds, ends or fails; when its socket is
closed it is `dead` and may still be completed with whatever was already queued.
A unit of the client's stream ends a request, is a part of one, or is not HTTP; a
unit of the origin's stream is known by its place, which is what `StreamIntact`
and `ObjectIntact` compare. Headers are their number of units, the length of the
body, and whether the response may be cached. A body without a length (chunked
included) is not cached. The growth of a buffer that is too short for the headers
is left out: `ClnCap` and `OrgCap` are the buffers after it.

### 2.7 LogChannel

The queue's fields are `queue`, `block` (`block_push_`), `cnt`
(`cnt_blocked_push_`) and `unblock` (`unblock_pop_`). `wat` is the worker's place:
it looks at `stopped_`, waits for an entry, writes it, and when it took the entry
from a refusing queue below the soft limit, reads the count, puts a report in the
queue and lifts the refusal, in three critical sections between which others
come. After its loop it blocks the queue again, flushes if it is asked to, and
writes the last report. `sat` is the place of the thread in `stop`.

Messages are numbered in the order in which they come. A message is forced (level
fatal, or to an explicit target) or not; text, level and target are left out.
`taken`, `file`, `lost`, `told` and `owed` are histories. No message comes to a
channel that is being stopped: the logger takes a channel out of its list with its
mutex exclusive before it stops it (`xlog/logger.ipp`).

## 3. The runs

| run | instance | distinct states | what it shows |
|---|---|---|---|
| `evacuation` | 1 key, 2 fragments, 3 blocks of 2 slots, 1 reader, 1 writer, truncation | 107,612 | places, room, order, marks and readers' copies with evacuation and pending fragments; every write is answered |
| `errors` | 1 key, 1 fragment, 3 blocks, 3 readers of which 2 are admitted, reads and writes may fail | 332,704 | readers counts survive errors, refusals at the limit and what the writer does after them |
| `stale_evacuation` | 1 key, 2 generations | *violation* | old data are evacuated in place of newer |
| `ranges` | objects of 5 and 2 bytes, fragments of up to 3, vectors of up to 4, 3 readers of which 2 are admitted, symmetric | 7,597 | searches, trimming, the three counts, the memory limit and the refusal of readers; `FsTable` implements `PinnedRanges` |
| `write_handle_races` | object of 5 units, 2 skipped, buffer of 2, writes of 1 and 4 | 5,326 | no data and no answer lost, one final write |
| `double_link` | the same | *violation* | a task is queued twice |
| `metadata_crash` | 1 node, 2 ranges, 3 syncs, 1 reset, writes may fail | 322,042 | the last good snapshot is kept and chosen |
| `saved_survives` | the same, one chunk, no failures | *violation* | a whole snapshot is refused by `load` |
| `volumes` | 2 volumes, 2 opens, 1 error makes a volume bad | 108,863 | one sync at a time, whole rounds, opens answered, bad volumes closed |
| `sync_goes_on` | 2 volumes, 1 open | *violation* | the rounds of syncs end for good |
| `conn` | 4 worlds of what client and origin send, buffers of 2 and 3 units | 232,556 | no unexpected event and no failed assertion; stream and cached object are whole; what waits goes on |
| `log_stop` | queue of 3, soft limit 2, 7 messages | 477,818 | order, no silent loss, refusals end; `stop` returns |

### 3.1 Why the bounds are enough

* Three blocks are the least a volume can have here: the mutex covers three
  blocks from the write position, and the write position must be able to wrap
  around while an element elsewhere stays. Two slots let one fragment be
  evacuated and another be written beside it, fill a block by evacuation alone,
  and make an entry of the same block stay behind.
* One key with two fragments makes a transaction span elements of which one is
  marked, flushed or missing. Two readers of one element distinguish "has readers"
  from "has one reader". In `errors` and `ranges` `MaxReaders = 2` with three
  readers, so the third is refused, in `ranges` after it has marked a part of what
  it wants. `evacuation` has one reader and no refusal. The limit on entries is
  not reached in the runs (`evacuation` passes with `MaxEntries = 1` too, where it
  is); what the runs check of it is proved for every `MaxEntries`.
* `NGens = 1` identifies all contents (the runs where only places matter);
  `NGens = 2` tells old from new.
* In `ranges` an object of 5 bytes with fragments of up to 3 has fragments that
  overlap one, several or none of the others, cover a hole, and end or begin
  where another does; vectors of 4 are full before the object is. The second
  object competes for `MaxDataSize`, which refuses an addition in some states
  and is just reached in others.
* In `conn` each world puts a boundary where the code has one: a body that comes
  in several reads and bytes nobody asked for after it; two requests in one
  read, alone or with something that is not HTTP; a request in two parts; a response too small
  to be cached, one without a length; headers that fill the buffer before the
  body. `BpWindow = 2` is less than a body. The cache finds the object or does
  not, has equal or other bytes, accepts a write or fails.
* `ObjectLen = 5`, `BuffCap = 2` and writes of 1 and 4 units give skips at
  both ends, fragments that are filled by several writes, a last fragment that is
  not full, and data beyond the object.
* `MaxRanges = 2` is where the small-buffer case of the counter lies, and a
  second range makes the snapshot need a second chunk. Three serials write each
  copy again after a failure; a reset can be interrupted once and retried.
* `MaxErrors = 1` instead of 5 only shortens the counting.
* In `log_stop` seven messages are enough to fill a queue of 3 over its limit, be
  refused, be admitted again below the soft limit, and be refused a second time;
  a stop comes at any place of it. `SoftLim = 2` is the least the code allows.

Bounds that are not in the code: `NGens`, `MaxSerial`, `MaxResets`, `MaxRanges` of
`FsMetadata`, `ObjSize`, `Worlds`, `MaxMsgs`.

The proofs (section 5) hold for all values of these constants.

Each run checks the properties that its instance can break; the type invariants
of `WriteHandle`, `FsMetadata`, `FsTable`, `CacheMgr` and `LogChannel` are in their
modules, hold there, and are left out of the runs. That of `Proxy` is a part of
`AssertsHold`. `CountExact` of `FsMetadata` and `FlushedAll`, `ToldIsTrue`,
`NoLostWakeup`, `Bounded` and `ResumesLow` of `LogChannel` are left out too,
because they are proved; so is `CleanIsSaved` of `FsMetadata`, which exempts the
failed sync, the case in which the code does lose changes (section 4).

`CHECK_DEADLOCK FALSE` is used where the system really stops: a handle is
destroyed, the process stops, the manager is down, the connection is over, the channel
is stopped, or (`FsMetadata`) the bound on resets is reached.

### 3.2 Fairness

* `CacheFs`: the writer thread and the reader threads go on with what they have
  begun (weak fairness). The flush waits for a moment without readers at
  `vmtx_wait_disk_readers`. `x3me_libs`' `shared_mutex` is a pthread rwlock with
  default attributes, which prefers readers, so the code guarantees no more than:
  if such moments keep coming the flush gets one (strong fairness of
  `BeginIoOp`). Users are never assumed to call, read on or close.
* The two liveness properties of `CacheFs` are conditional on
  `<>[](Marked(tbl) = {})`. Without it they fail, and so does the code: while
  readers keep marking elements, evacuation can fill every block completely, and
  the pending fragment is flushed, retried and refused for ever.
* `WriteHandle`: a call that has begun ends; the aggregate writer does not refuse
  for ever. `WritesAnswered` and `CloseFinishes` are claimed while the service
  works: after a stop the code may lose a handler (section 4).
* `Proxy`: the cache answers an operation that stays started, and a send to the
  client that stays started is completed in some way, both
  as weak fairness with its enabling condition written out (an operation is
  started and the process has not aborted); nothing is assumed of what the
  peers do, of receives, or of the send to the origin.
* `CacheMgr`: the timer fires, threads go on, a sync has finitely many chunks.
  `OpenAnswered` is conditional on opens ceasing, since newer opens go to the
  front of the queue.
* `LogChannel`: the worker goes on while it can, and so does a thread in `stop`
  (weak fairness of each). Nobody has to log or to stop.

## 4. Where the code and its comments disagree

Four runs end in a violation of what a comment, an assertion or the program's own
consistency asks for, and the findings in `PROJECT.json` quote the lines:
`stale_evacuation`, `double_link`, `saved_survives`, `sync_goes_on`.

Three more can be seen, one with a configuration of its own and two by adding a
property to a run as an INVARIANT:

* `tlc -config Proxy_bpctrl_abort.cfg MCProxy.tla`. `on_origin_pre_connect` is
  called before `ev_org_connect` (`net/proxy_conn.cpp:675`). When
  `bp_ctrl_.add_del_entry` fails in it (`http/http_handler.cpp:411`) the handler
  starts a blind tunnel at once, and the connection gets `ev_org_recv` and
  `ev_org_send` in regions that have no transition for them yet: "BUG in
  Proxy_conn state machine" (`net/proxy_conn.cpp:299`), and the process aborts.
  The worlds of `conn` do not have this failure, and `EventsAlwaysExpected` (section
  5) says that it is the only way to such an abort.
* `NoReadOfWrittenArea` of `CacheFs` in `CacheFs_errors.cfg` (or with two keys
  and no truncation). `vmtx_wait_disk_readers` locks and at once unlocks the
  volume mutex, and the block is written after it
  (`cache/cache_fs_operations.cpp:169`), where `cache/cache_fs_ops.h:43-45` wants
  to ensure "that the currently written region of the volume is not accessed by
  readers at the same time".
* `AnsweredOnce` of `CacheMgr` in `CacheMgr_sync_goes_on.cfg`. The queue is
  released by telling tasks that are still linked, so a cancel succeeds as well
  (`cache/aio_task_queue.cpp:97`), where `cache/object_open_handle.cpp:86-89` says
  that only one of the two functions "is actually executed". What does hold, that
  an open whose handle was not closed is answered once, is `AskedOnce`.

Other behaviour that was met, is in the models, and is not claimed against:

* After a failed read of a block's metadata nothing is evacuated, and elements
  point to overwritten areas. `OnDiskIsOnDisk` is therefore checked without read
  errors.
* When the entry limit is reached the fragment stays in the block and the caller
  is told that there is no room: block after block is flushed without progress
  until an entry goes away.
* A torn sync of a copy whose number of chunks has changed leaves a header
  without a footer; then `load_check_metadata_hdr_ftr` refuses both copies, also
  the whole one, and the volume is reset.
* A failed asynchronous sync leaves `is_dirty_` false; a close before the next
  change does not save (`unsaved`).
* After a crash in the middle of a reset the next start may load the old
  metadata; its syncs then mix with what the reset wrote (`revived`).
* `sync_serial_` is "allowed to overflow" (`cache/fs_metadata_hdr.h:20-21`), but
  the comparison in `load` takes the older copy then. The model stays below the
  overflow.
* `aio_task_queue::size_` is decremented below zero by a cancel after a stop.
* With no volume left the next open divides by their number
  (`cache/cache_mgr.cpp:25`); and removing a volume maps keys to other volumes,
  as a TODO at lines 17-18 says.
* `http_handler` says that before a blind tunnel it will "first write all data
  [...] to the cache and then start the blind tunnel"
  (`http/http_handler.cpp:199-204`); a tunnel wanted during a write closes the
  cache when that write is over, with what was received meanwhile unwritten. The
  object is then not completed, so nothing wrong is served.
* A send to the origin that fails after the switch to the cache closes the cache
  stream (`net/proxy_conn.cpp:907`): the client gets a truncated response. The
  model has this; `EndIsPassedOn` counts the closed leg as an end.
* `close_if_stalled` looks at received bytes only.
* `write_transactions::add_entry` asserts the opposite of its message
  (`cache/write_transactions.cpp:13`); nothing calls it.
* `service_stopped` of a write handle can run beside `exec`; a handler that was
  swapped out at that moment is put back and never called.

And outside the models, in the logger:

* The target of a debug log is created with level `trace` (`logging.cpp:466-467`),
  so `lvl <= max_log_level()` is always true in `xlog/logger.ipp:139` and the filter
  behind the `||` is never asked, where `logging.cpp:408-409` counts on it.
* Names of debug logs have a resolution of one second (`logging.cpp:61-67`). A
  start that fails in the second in which another succeeded truncates the file of
  the running log and removes it (`logging.cpp:492`).

## 5. Proofs

The theorems hold for all keys, nodes, volumes, handles, sizes and sets of
failing operations that satisfy the assumptions named in the modules. The
assumptions are those of the code: at least three blocks, positive sizes, finite
sets of handles and nodes, the aggregate writer is not a write handle, `None` is
none of the values it stands in for, serials stay below the modulus. Some
theorems have a hypothesis of their own, marked below. Those about places and
contents on the volume assume that no disk operation fails, and of objects that
change, that an evacuated entry is the element's own (`OwnEntries`). Without these
they are false, and the code shows it (section 4). What a connection
meets is free: whatever units the client and the origin send, when a socket fails
or ends, what the cache has and when it fails, the sizes of the buffers, which calls
of back pressure fail. A connection whose back pressure entry can't be added aborts at its
accept; the theorems say of it that it does, and what still holds.

| module | theorem | statement |
|---|---|---|
| `CacheFs_proofs` | `WriterTurns` | `Spec => []QueueInv` |
| | `UnexpectedEventNever` | `Spec => []NoUnexpectedEvent` |
| | `NothingPendingTwice` | `Spec => []NothingPending` |
| | `Invariance` | `Spec => []AllInv` |
| | `TypeCorrect` | `Spec => []TypeOK` |
| | `ReadersAlwaysExact` | `Spec => []ReadersExact` |
| | `InMemoryFound` | `Spec => []InMemoryIsInBlock` |
| | `EvacuationAlwaysFits` | `Spec => []EvacuationFits` |
| | `MarkedAlwaysKept` | `Spec => MarkedKept` |
| | `FragmentsAlwaysStay` | `Failing = {}`: `Spec => []FragmentsStay` |
| | `OnDiskAlwaysOnDisk` | `Failing = {}`, and `Changing = {}` or `NGens = 1`: `Spec => []OnDiskIsOnDisk` |
| | `EvacuationMovesOwn` | `Failing = {}`: `Spec /\ []OwnEntries => [](EvacuationMoves /\ OnDiskIsOnDisk)` |
| | `CopiesAlwaysLead` | `Failing = {}`: `Spec => CopiesLead` |
| `FsTable_proofs` | `TableInvariance` | `Spec => []Inv` |
| | `ReadersAlwaysExact` | `Spec => []ReadersExact` |
| | `SearchesAlwaysFind` | `Spec => []SearchesFind` |
| | `WritesGetMissing` | `Spec => []WritesMissing` |
| | `CountsAlwaysExact` | `Spec => []CountsExact` |
| | `TableImplementsPinned` | `Spec => PinsWhatIsRead` |
| | `PinnedStaysServed` | `Promise!Spec => [](Apart /\ PinServed)`, of `PinnedRanges` |
| `WriteHandle_proofs` | `NothingEverLost` | `Spec => []NothingLost` |
| | `AlwaysFinishedOnce` | `Spec => []FinishedOnce` |
| | `FinalWriteAtMostOnce` | `Spec => []FinalWriteOnce` |
| | `AlwaysDestroyedFinished` | `Spec => []DestroyedFinished` |
| `FsMetadata_proofs` | `Invariance` | `Spec => []Inv` |
| | `CountAlwaysExact` | `Spec => []CountExact` |
| | `GoodAlwaysKept` | `Spec => []GoodKept` |
| | `CleanAlwaysSaved` | `Spec => []CleanIsSaved` |
| | `CopyInvariance` | `Spec => []CopyInv` |
| | `FreshestAlwaysChosen` | `Spec => []FreshestChosen` |
| `CacheMgr_proofs` | `RoundsNeverFork` | `Spec => []OneSyncAtATime` |
| | `RoundsAreComplete` | `Spec => RoundComplete` |
| | `NeverAnsweredTwice` | `Spec => []AskedOnce` |
| `LogChannel_proofs` | `Invariance` | `Spec => []Inv` |
| | `AlwaysTyped` | `Spec => []TypeOK` |
| | `WrittenInOrder` | `Spec => []InOrder` |
| | `FlushWritesAll` | `Spec => []FlushedAll` |
| | `NoSilentLoss` | `Spec => []LossIsTold` |
| | `ReportsAreTrue` | `Spec => []ToldIsTrue` |
| | `RefusalNeverStuck` | `Spec => []RefusalEnds` |
| | `WorkerIsWoken` | `Spec => []NoLostWakeup` |
| | `AlwaysBounded` | `Spec => []Bounded` |
| | `AlwaysResumesLow` | `Spec => ResumesLow` |
| `Proxy_proofs` | `ConnInvariance` | `Spec => [](IInv \/ NoEntry)` |
| | `EventsAlwaysExpected` | `Spec => [](NoUnexpectedEvent <=> ("add" \notin conn.bp_fails \/ Init))` |
| | `StreamAlwaysIntact` | `Spec => []StreamIntact` |
| | `AlwaysPausedWhileDeciding` | `Spec => []PausedWhileDeciding` |
| | `ObjectAlwaysIntact` | `Spec => []ObjectIntact` |
| | `AssertsAlwaysHold` | `Spec => []("add" \notin conn.bp_fails => AssertsHold)` |
| | `OneRequestAlways` | `Spec => []OneRequestAtATime` |

The first part of `FsTable_proofs` are the lemmas about the operators on vectors.
`HttpHandler_proofs` has the invariant of `Proxy` and a lemma for each thing the
machine and the handler do to a connection; `Proxy_proofs` puts them together.

### 5.1 CacheFs

1. **Turns.** `QueueInv`: the aggregate writer is in the write queue exactly
   once, at its front, when it waits for its turn, and not at all otherwise; and
   a fragment is pending only outside `wait_write`. It mentions neither table nor
   volume. `NoUnexpectedEvent` alone is not inductive: it speaks of the head of
   the queue only, and the next head would be unknown.
2. **Tables.** Each operation on table and block keeps `Good` (types, room, and
   that an element in memory is in the block at its place) and `KeepsMarks` (a
   marked element stays, with its count and content). These are lemmas about the
   operators, one each.
3. **The invariant.** `Inv == ReadInv /\ VolumeInv /\ WriteInv`, with
   `ReadersExact` in the first; the entries left to evacuate, their slots and the
   room for them in the second (`EvacuationFits` needs that entries on the volume
   have distinct pieces and slots, and that the block is empty when metadata are
   read); the cursor of the write handles in the third. `QueuedOnce`, a handle is
   linked exactly when it has something to do, bounds the cursor of the handle
   that runs. `AllInv == QueueInv /\ QueuedOnce /\ Inv`, one lemma per action.
4. **Places.** As long as no disk operation fails, an element that is not in
   memory is at a slot that holds its fragment and is named by the metadata of
   its block (`Placed`). Before the first lap is over only blocks before the write
   position can have one; in the block at the write position there is none but
   those still to evacuate, once its metadata are read. So a flush, which
   overwrites that block, overwrites no fragment that an element points to, and
   turns the elements in memory into elements at their slots. `PlaceInv` needs
   `AllInv` and not the other way round, so that the first three steps stay free
   of the volume.
5. **Contents.** `ContentInv`: everything about an object that does not change is
   of generation 0, in the table, the block, the pending fragment, the handles
   and the volume. With it the fragment at the place of an element has the
   element's content too. For an object that changes it may be an older one's,
   which is the behaviour of section 4. `StoreInv` says where that begins: what the
   block and the volume hold at the place of an element is the content it stands for,
   and every step keeps this, also a truncation or a wrap of the volume, except an
   evacuation of an entry that is not the element's own (`OwnEntries`).
6. **Copies.** A reader's copy is an element's place as it was. While the table
   still has the element there, the steps that change block or volume keep what is
   there: a flush writes the block to the place the copies in memory have,
   the write position passes only over what no element points to (`PlaceInv`), and the block
   is emptied only by the flush. So only a move can spoil a copy.

### 5.2 RangeVector and FsTable

`Vector(es)`: elements are not empty and one ends before the next begins. From
this each search by neighbours is shown to find what its definition over all
elements says: the elements that overlap a range are consecutive, and a range is
covered exactly when no hole is among them. `Inv` of `FsTable` says that all
nodes are vectors, that every open transaction is covered without a hole, and
that the count of an element is the number of transactions over it. The point of
the argument is `ChangeKeeps`: elements that are dropped have no readers, and a
new element comes only where no reader is, because a reader's range is always
complete; so `end_read` finds exactly the elements `begin_read` marked, though the
vector was changed between them. The refinement follows from the same lemma: a
step that drops and adds elements is a step of `PinnedRanges`, whatever
order and counts do.

`trim_overlaps` (`TrimOverlapsTrims`): what a write still has to fetch is the part
of its range that no element covers at either end. The code looks at the first
and the last element that overlap only, and because elements do not overlap each
other these are the ones that can reach over an end.

The three counts are sizes of disjoint unions over the objects, so a change of
one vector changes each count by what changed in that object's part
(`TotalChanges`). The number of bytes is the number of positions held, which is
the sum of the lengths only because elements do not overlap (`BytesAreHeld`). `ChangeCounts`
puts this together with the arithmetic of `CalcInc` and `CalcDec` for a change
that drops some elements and adds at most one. The memory limit is kept because
an addition over it is refused, unless it replaces elements: then there are no
more than before.

### 5.3 WriteHandle

Three invariants. `Consumed`: what was sent and is buffered is what the
transaction wants of the bytes consumed so far, inside a running copy as well;
`SkipCopyIs` is the arithmetic of `skip_copy` at both ends of the wanted range.
`Finished`: which thread has the right to the final write, by `state_` and the
place of each thread. `Closing`: after a close somebody will still run the handle
or has seen it.

### 5.4 FsMetadata

* The counter: `TotalChanges` (a sum changes by what one summand changes),
  `IncCounts` and `DecCounts` (what `calc_inc_cnt_ranges` and
  `calc_dec_cnt_ranges` add and take for each size), `LoadKeepsCount` (what
  `load` is left with is what it should count).
* The copies: `Writing` says that while a sync is under way its serial is one
  more than the good one's and its first `done` chunks are written; with an aborted
  or failed sync the serial is given back, so the next one takes the same copy
  (`Turn`). `Headers` says that a copy begins with a snapshot of its parity, or
  of a reset; it excludes that copy B is loaded with serial 0, after which the
  next sync would write over it. `GoodKept` alone is not inductive: it does not
  say in which copy the good snapshot is.
* The choice of a copy: `GoodKept` does not say that the good copy is chosen. A torn copy
  could look finished and newer: the serial of an attempt that failed is used again,
  with other contents and another number of chunks, over what the attempts before left
  behind. `Feet` excludes it: a chunk that is the last of its snapshot, at its
  place, was written by a sync that was finished, so its serial is not after the
  good one's; and a header that is newer therefore finds no footer of its serial
  (`Untorn`). `Begun` carries this over a reset that is interrupted between the
  two copies: either the first is written, or the metadata still do not load. All
  of it holds while metadata from before a reset were not loaded (`revived`), because
  uuids are compared only within a copy.
* `ChunksBounded`: the size of the copies that is reserved for a full table is
  enough for any table, by monotonicity of rounding.

### 5.5 CacheMgr

`OneToken`: timer, posted continuation and running sync are one token that is
passed on, or lost with a bad volume. `HadTurn`: the volumes before the current
one have had their turn, or are no longer in use. `Linked1`: an open handle is in
one place only, the queue, a thread, the released list or nowhere, and that place
agrees with its state and that of the volume's service (`InQueue`, `InThread`,
`InReleased`, `Service`, `InUse`).

### 5.6 LogChannel

`Stopping`: `stopped_` says whether the stop has begun, and what the worker has
seen of it. `Refusing`: while nobody stops the channel it refuses only with a
count above zero, and a worker that is about to lift the refusal took its entry
from a queue that refused. `LossIsTold` needs it: a worker that finds the count
zero there knows that a stop has begun, so no message comes between its three
critical sections and resetting the count forgets nothing. `Told` splits the
refused messages into those reported, those the worker has read the number of, and
the rest. `Low`: when the worker is about to lift the refusal, at most
`SoftLim - 2` entries that are not forced are left. It took its entry from a
refusing queue of less than `SoftLim`, and only forced entries came since.
`FlushedAll`, `ToldIsTrue`, `NoLostWakeup`, `Bounded` and `ResumesLow` follow.

### 5.7 Proxy

`NoEntry` is a connection whose back pressure entry can't be added: it has not been
accepted, when an accept is all that can happen, or it has aborted. The handler wants the
tunnel before the connect, so the machine is told to receive in a state that has no row for it
(`RecvAborts`), and no method takes that back (`EventCarries`). For every other
connection there is `IInv`: nothing was aborted, the origin's bytes came in order
(`Intact`), and the connection is `Good`, which has these parts.

* `Mach`: the machine has one state in each region; an operation that runs
  on a socket has the state that waits for it, was given room, and sends no more
  than is to be sent (`OpsOk`); what was sent and is to be sent was received, and the
  cache has read no more than was received (`Counts`).
* `Steps`: where the connection stands. Both sides of the origin connect
  together, nothing is read before, and a direction is shut only after the stream
  that feeds it has ended.
* `Served`: when the cache has taken over the origin's stream, it goes on where
  the socket stopped.
* Without a tunnel, `Hand`: which operation of the cache each state of the handler
  waits for and the handle it has (`OpFits`); the origin is paused exactly while
  the cache is asked (`Paused`); a handler that uses the cache has a complete
  request (`Cached`) and asked for the body of its response (`Asked`); where that
  body begins in the stream (`Place`); how far the three
  readers of the origin's buffer are, the client's, the transaction's and
  the cache's (`Bytes`); when the connection has its back pressure entry and whether
  it was told a length (`Entry`); what a pending tunnel and a response that ended
  wait for (`Waits`); and how what was passed on, what is held back and what the
  handler has read add up, for both directions (`Ledger`). A tunnel uses no cache
  at all.

No property is inductive alone. `NoUnexpectedEvent` needs `OpFits` (a result of the
cache comes only to a state that has a row for it) and `Paused` (the stream is
resumed only where it was paused); `ObjectIntact` needs that the cache's reader is
where the body began plus what was written; `StreamIntact` needs how far the
cache has read when it takes over, which `Asked` and `Place` give.

`AssertsHold` is about the asserts of the code. That no operation of a socket is
started twice, and none beyond what is to be sent, follows from `Mach`. `OpFits`
says that the cache is asked for one thing at a time, with the handle it gave, and
that a handler a tunnel replaces waits for nothing. `Entry` and
`Place` give the asserts on back pressure: a length is told once, for an entry
that exists, and it isn't zero. `Bytes` and `Waits` give those on the readers: the
cache is written with bytes that are there, and the headers are skipped before the body
is used. A transaction that ends is completed, also when its end came
while its last bytes were being written (`Waits`). No data come from the origin
while it is paused (`Paused`). The type invariant needs `Mach` and `Place` only.

`OneRequestAtATime` is `Ledger` for the direction to the origin. The proof corrected
it. It had been the equation of what was passed on, held back and read, as long as no
request is bad, and `conn` agreed. But `OnReqEnd` completes a bad request when the
client's stream ends: after two requests and something that isn't HTTP in one read, while
the cache is asked about the first response, a tunnel is pending, the bytes of that
read are counted by the transactions and the handler has not consumed them; with the end
of the stream no request is bad any more. The code is right there: the tunnel
will send these bytes. So the equation holds while no tunnel is pending, and otherwise
what is passed on stays within what was consumed, and with what is held back within
what was received. `conn` now has the world with these three units.

A completion handler calls through several layers, and in between the connection
is not good: bytes have been received and not yet been dealt with, or a
response has begun and the cache has not been asked. `Legs`, `Early`, `Writes` and
`Reads` are what holds at these points. Each method has a lemma that says between which of
them it goes; `Does` says of the machine's rows which states they leave, and
`Left` what a handler may assume after the machine ran. Requests are parsed, and responses
given out to transactions, by recursive functions over an interval of units or
transactions; `Recursive` says such a function exists, and `Upward` is the induction over the
interval, with a set for the property.

Of the transitions an event fires at most one has an action (`ActOf`), as TLC
evaluated for all events and states; the proofs hold whichever it is. TLC
evaluated `IInv` too, in all states of `conn`.

### 5.8 Only model-checked

* All liveness, `StopReturns` included: the proof system has no rules for fairness
  and `ENABLED`. The step that matters for it, that no wakeup is lost, is proved.
* The runs of section 4 that expect a violation, which show a step and need no proof.

Every safety invariant of a passing run is stated by a theorem, with the hypotheses
given above.

## 6. Not modelled, and why

* Parsing of messages, settings, management, plug-ins, tools: one thread, input
  and output; unit tests reach them.
* Byte layouts, checksums, alignment, growth of buffers: data the properties do
  not tell apart. `io_buff` itself (its ring and `expand`) is replaced by what
  the connection relies on: room up to the slowest reader, an offset per reader.
* `write_transactions`: not called by the program.
* The last flush of the aggregate writer at a stop is in `FsMetadata` only. It
  writes the block over an area whose evacuation may not be over, and a pending
  fragment is lost.
* `cnt_entries_` and `entries_data_size_` after a load, where they drift; while
  the volume runs they are in `FsTable`.
* `logger`: its list of channels is behind a rwlock that is held while a message is
  put in them; `LogChannel` has what follows from it. Levels, filters, rotation and
  names of log files are input and output; two observations are in section 4.
* In the read handle, the spin lock `serializator_` and the swap of the user data.
* Vendored libraries and `x3me_libs`: used by their contract. They are most of
  the lines of the repository.

## 7. Plan

Done: `CacheFs`, `WriteHandle`, `FsMetadata`, `CacheMgr`, `RangeVector` with
`FsTable` and `PinnedRanges`, `LogChannel`, and `ProxyConn`, `HttpHandler` and
`Proxy`, each with proofs.

What could follow:

1. `CacheSpec`, an abstract cache (a reader gets the content of one generation or
   an error), to be implemented by `CacheFs` without the behaviour of section 4.
2. The read handle taken apart the way `WriteHandle` does it.
3. `IoBuff` with its readers and `expand`; the logger's list of channels.

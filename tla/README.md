# tarsnap: specifications, model checks and proofs

Tarsnap is a backup client.  Archives are cut into chunks, encrypted, and kept by a server that
the client does not trust and that is not part of the repository.  What the client keeps between
two runs is a key file and a *cache directory*.  The code that can lose somebody's backups, and
that a test hardly reaches, is the code that moves the cache directory and the server from one
committed state to the next while processes are killed, power fails, packets are lost and other
machines use the same keys.  This directory specifies that code in TLA+, checks it with TLC on
small instances, and proves its main invariants with TLAPS for all instances.

Paths below are relative to `src/`.

## 1. Inventory

| Component | State it keeps | Operations | Talks to |
|---|---|---|---|
| transaction markers, `tar/multitape/multitape_transaction.c` | symlinks `cseq` (last committed sequence number), `ckpt_m` (a checkpoint being made), `commit_m` (a commit pending), `lockf` | `multitape_lock`, `_cleanstate`, `_checkpoint`, `_commit`, `_sequence` | chunk directory, storage transactions |
| chunk directory, `tar/chunks/chunks_directory.c` | files `directory`, `directory.tmp`, `directory.ckpt` | `_read`, `_write`, `_commit`, `_exists` | file system |
| storage transactions, `tar/storage/storage_transaction.c` | nothing between calls | start, cancel, checkpoint, commit, commitfromcheckpoint, each repeated while the server says "try again later" | the server, through `netpacket_op` |
| commands, `multitape_{write,delete,fsck,recover,nuke}.c` | the sequence number of their transaction, the chunk table, an archive under construction | open, write, checkpoint, close; delete; five phases of fsck; recover; nuke | all of the above |
| chunk table, `tar/chunks/chunks_{write,delete,stats}.c` | per chunk `nrefs`, `ncopies`, flag `CHDATA_CTAPE`; global statistics | write or reference a chunk, delete a reference, count again | storage queues |
| archive streams, `tar/multitape/multitape_{write,read}.c`, `tar/glue/archive_multitape.c` | write cookie: mode, header buffer, three chunkifiers; read cookie: for each stream a chunk and a look-ahead | set mode, write, write a chunk, checkpoint, close; read, skip, read a chunk; copy | chunk table, storage, front end |
| chunkification cache, `tar/ccache` and its use in `tar/write.c` | per path the inode number, size and time of a file, its chunks and trailer | read, look up, write an entry or verify it, end, age, replace the file | archive streams, chunk table |
| storage queues, `tar/storage/storage_{write,delete,read,directory}.c` | bytes or requests pending, connections | send with a window, flush, end | `netpacket_op` |
| request queue, `lib/netpacket/netpacket_op.c` | FIFO of operations, connection state, number of drops | queue, send, receive, reconnect and send everything again | packet layer |
| packet layer, `lib/netproto`, `lib/network` | buffers, callbacks, timeouts | key exchange, read and write packets, cancel | sockets |
| read cache, `tar/storage/storage_read_cache.c` | hash table of files, least recently used list, size and limit | add a name, add data, find, set the limit, prune | `storage_read.c` |
| re-encryption, `recrypt/recrypt.c` | two machines' cache directories and transactions, block lists | list, compare, copy in batches, copy the directory, delete | markers, storage, tarsnap between two runs |
| key tools, `keygen`, `keymgmt`, `keyregen` | key files | | |
| front end, `tar/*.c`, `libarchive`, `libcperciva`, `lib/crypto`, `lib/datastruct` | | | |

How they interact: a command takes the lock, completes whatever an earlier command left
(`multitape_cleanstate`), reads the last sequence number, asks the server for a new transaction,
sends or deletes files within it, waits until every request is answered, writes a new chunk
directory under a temporary name, leaves a marker, and then follows the marker: install the
directory, tell the server, update `cseq`, remove the marker.  Every later command follows a marker
it finds in the same way.

What is hard: a crash at any point of that sequence, in particular in the middle of
`chunks_directory_commit`, where one file has two names; a power failure, after which each name may
have any of the entries it had since the last sync; requests that take effect although no answer
arrives; a server that answers "success" for a transaction it does not know; commands that do not
take the lock (`--recover`, `--nuke`, `--initialize-cachedir`); other machines.  `PROJECT.json` lists
each hazard at its line, with the properties that watch it.

What makes each component correct:

- markers and directory: a client that is in sequence with the server has the chunk directory of
  what the server has (`InSync`); a pending commit will install the right directory
  (`CommitBacked`); an unexpected crash never forces the user to run `--fsck`
  (`NeverOutOfSequence`); a file still needed is never truncated (`NoAliasTruncated`); the two sites
  change as one (`Atomic`); what is pending gets done (`PendingResolved`);
- commands and queues: the server never commits files it does not have (`NeverPartial`); success
  means committed (`AckedCommitted`);
- chunk table: reference counts agree with the archives, so that a delete removes exactly the
  chunks that no other archive uses;
- request queue: each operation gets its own answer, in order, however often the connection drops;
- archive streams: what is read back is what was written, however it was cut, checkpointed, skipped or
  copied (`RoundTrip`, `WholeRead`), and no consistency check of the reader or writer ever fires (`NoFault`);
- chunkification cache: a file that is not opened is archived as it was when `lstat` was called (`Exact`), and
  one that has not changed is not read again (`Remembered`), both up to the place where a read of it has failed;
- storage queues: a flush that succeeds has everything stored (`FlushStored`), the limit holds (`Window`), no
  call waits for itself (`Returns`);
- read cache: the list stays a list in the right order (`LRUOrder`), its size is what it holds (`Accounted`), and
  nothing that was evicted or damaged is returned (`Served`);
- re-encryption: no archive is lost wherever it stops (`NeverLost`), the new directory is on disk before blocks
  are deleted (`DirectoryFirst`), and running it again finishes it (`Finishes`).

## 2. Plan

| Order | Module | Models | Status |
|---|---|---|---|
| 1 | `Multitape` | markers, directory files, commands, server transactions, crashes, power failures, other machines | done |
| 2 | `TwoSite` | abstract specification that `Multitape` implements | done |
| 3 | `MultitapeInv`, `MultitapeProofs` | inductive invariants and proofs, with the refinement | done, proved |
| 4 | `Chunks` | `nrefs`, `ncopies`, `CHDATA_CTAPE`, statistics, what a checkpoint saves and restores, delete and fsck counting | done, proved |
| 5 | `NetpacketOp`, `RequestQueue` | queue, connection, drops and replays, with an abstract queue (`RequestQueue`) that answers each request once | done, proved |
| 6 | `Tape` | streams of an archive: writer, reader, checkpoints, truncation, copying | done, proved |
| 7 | `FileCache` | the chunkification cache over several backups of a changing file | done, proved |
| 8 | `Recrypt` | two machines, batches, deletion, tarsnap used in between | done, proved |
| 9 | `StorageQueue` | windows of pending writes and deletes, flush, failures | done, proved |
| 10 | `ReadCache` | LRU cache of `storage_read_cache.c` and the reads through it | done, proved |
| 11 | `WriteQueue` | `tsnetwork_writeq.c`: callbacks in order, cancellation | left |

Composition: the modules are joined by what one promises the next, and each promise is checked in the
module below.  `NetpacketOp` implements `RequestQueue` (`ExactlyOnce`); `StorageQueue` takes a connection to be that
queue, with answers in order and requests carried out once or more; its `FlushStored` is what the step `Flush` of
`Multitape` relies on.  `Multitape` implements `TwoSite` (`Atomic`), which is why `Chunks`, `Recrypt` and `FileCache` can
treat a commit as one step or a short sequence of steps.  `Chunks` refines what `Multitape` calls the contents of a
version; `Tape` refines what `Chunks` calls an archive; `FileCache` says which chunks a file becomes that `Tape` writes
with `PutChunk`.

Each component's invariant and proofs are in modules named after it (`...Inv`, `...Proofs`), except that the two of
`tar/storage` are proved together in `StorageProofs`; section 12 says what is proved.  Every safety invariant and action
property of the passing runs is now a theorem; what is left is `WriteQueue`, and the liveness properties, which only TLC can check.

## 3. `Multitape`

### State

| Variable | In the code |
|---|---|
| `dir` | what the names `cseq`, `commit_m`, `ckpt_m`, `directory`, `directory.tmp`, `directory.ckpt` of the cache directory lead to |
| `disk` | for each name, the entries it may have after a power failure; a `dirutil_fsyncdir` makes it one |
| `lock` | the process whose descriptor of `lockf` holds the lock |
| `pc`, `loc` | where each process is between two system calls or requests, and the locals it carries along |
| `out` | how the last command of a process ended; "mismatch" is the message "Run --fsck" |
| `ver`, `cur`, `kind`, `ckpt`, `work` | the server: committed version, transaction in progress, its type, its last checkpoint, and whether all the files for the next checkpoint (of a write) or for the commit (of a delete or fsck) are there |
| `next`, `crashes` | bounds: sequence numbers used, crashes so far |
| `hist`, `acked` | histories: versions ever committed, transactions reported done |

A *version* `[seq, ck, whole]` is what an archive set contains and what a chunk directory describes:
checkpoint `ck` of transaction `seq`.  It is also the inode of the file that holds it, because a version
is written into one file only; so `dir["directory"] = dir["directory.tmp"]` says that the two names are
links to one file, which is what `chunks_directory_commit` compares.  Sequence numbers and nonces are
random in the code and only compared, so they are ordinals here.

### Actions

One action per step after which the code can be interrupted.

| Actions | Code |
|---|---|
| `Begin` | `bsdtar.c` checks that there is a chunk directory, `multitape_lock` |
| `ReadCkptM`, `DkUnlink`, `DkLink`, `DkDone`, `DkEnd` | `multitape_docheckpoint` |
| `MvStat`, `MvLink`, `MvUnlink`, `MvEnd` | `chunks_directory_commit` |
| `RemoteCheckpoint`, `RemoteCommit` | `storage_transaction_checkpoint`, `storage_transaction_commit` |
| `ReadCommitM`, `CsUnlink`, `CsLink`, `CsDone`, `CsEnd` | `multitape_docommit` |
| `IsCk`, `IsCkCommit` | `storage_transaction_commitfromcheckpoint` |
| `Cancel`, `Start`, `StartRefused` | `storage_transaction_start` |
| `Open`, `Work`, `Flush`, `WrOpen`, `WrClose`, `Mark`, `NukeCommit` | `writetape_*`, `deletetape`, `fscktape`, `nuketape`, `chunks_directory_write` |
| `LostReply` | `reconnect` in `netpacket_op.c`, and the loops on "try again later" |
| `Crash`, `PowerLoss` | every error path that gives up; kill; power failure |
| `Foreign*` | another machine with the same keys |

A sync and the operation after it are one step: what a crash between the two can leave, a crash
before or after both can leave as well.  The server is not in the repository; `Srv*` and `Foreign*` are
what `lib/netpacket/packets.txt` says of it and `storage_transaction.c` relies on.

### Abstract specification

`TwoSite` says what the layer is for: client and server hold a version each; the client first falls
into doubt, only then may the server move on, and the client leaves doubt only into agreement.
`Atomic` states that `Multitape` implements it under the mapping `server <- ver` and `client` in doubt while
`commit_m` exists.

## 4. `Chunks`

An archive is three lists of chunk headers.  The chunks of file data are listed in the *chunk index
stream*, which is itself cut into chunks; those, and the chunks of the header and trailer streams, are listed
in the *metaindex*.  `chunks_*.c` counts, for each chunk, the archives that use it (`nrefs`) and the
references in all (`ncopies`), with a flag (`CHDATA_CTAPE`) that says whether the current archive has
been counted.  A wrong count is a chunk deleted from under another archive, or one never deleted.

| Variable | In the code |
|---|---|
| `srv` | the archives whose metadata (`m`) and metaindex (`i`) the server has, and the chunks it has |
| `dir` | the records and extra statistics in the file `directory` |
| `synced` | does `cseq` match the server |
| `op`, `key` | the command that runs, the archive it works on |
| `mem` | the cookie `CHUNKS_W`, `CHUNKS_D` or `CHUNKS_S`: hash table, chunks uploaded (`up`), `stats_total`, `stats_unique`, `stats_extra` |
| `ar`, `buf` | the streams' indexes in `TAPE_W`; the headers in the chunkifier of the index stream |
| `saved`, `nck` | what the last checkpoint will commit; their number |
| `it` | the locals of `multitape_chunkiter_tmd` |
| `tape`, `todo`, `keep`, `del` | `stats_tape`, `stats_tapeu`, `stats_tapee`; archives phase 4 has not reached; archives that stay; chunks the transaction deletes |
| `faults`, `damaged` | bound; has a file been lost since the last fsck |

A chunk of the index stream is the sequence of headers in it, so index chunks can be shared as data
chunks are.  Chunk boundaries depend on content (`Cut`), on a maximum (`MaxIndex`), and on checkpoints.
One action per reference (`WriteFileChunk`, `WriteChunkRef`, `DeleteChunk`, `FsckChunk`), and per command step:
`Open`, `Checkpoint`, `Close`; `DeleteStart`, `DeleteEnd`; `FsckStart` (phases 1 to 3), `FsckArchive`,
`FsckBroken`, `FsckAdd` (phase 4), `FsckEnd` (phase 5 and commit).  `Fail` is any error or kill; it commits the
last checkpoint if there is one, because the next command does so before anything else (that it does, and
that the server and the directory change as one, is what `Multitape` is about).  `LoseFile` and
`Foreign*` bring about what fsck is for.

`RefsExact` and `ExtraExact` say that the directory counts what the archives use, exactly; `TableExact`
the same of the table in memory in the middle of a backup, and of the statistics printed at its end;
`NoDangling` and `NoOrphans` that the server has all the chunks in use and no other; `DeleteProceeds`
that a delete never trips over chunks that it has deleted itself, though it reads its list from them;
`StaysComplete` that no command, whatever the state of the directory and of other archives, takes an
archive away that is complete and that it was not asked to delete.

One number the model has and no property speaks of: after an fsck `stats_unique` is too large when
two archives share a chunk, because `chunks_stats_addchunk` tests `nrefs <= 1` for the per-archive figure
that `chunks_fsck_archive_add` then adds up.  It is never printed after an fsck nor stored.

## 5. `NetpacketOp`

Everything above is told to the server through `netpacket_op`.  An operation is a callback that sends a
request and a callback (`handlepacket`) that takes the answer, and may send a second request.  All that is
queued is sent without waiting for answers; an answer belongs to the head of the queue, because nothing in it
says which request it answers.  When the connection is lost, everything queued is sent again.

| Variable | In the code |
|---|---|
| `state`, `reading`, `ndrops`, `serveralive` | the fields of `struct netpacket_internal` |
| `queue` | `pending_head` to `pending_tail`; `handle` is `handlepacket`, which is not assigned by `netpacket_op` |
| `timer` | which callback is to come in state 1, `callback_connect` or `callback_reconnect` |
| `status` | whether an error was returned to the event loop, or `netpacket_close` called |
| `unsent` | the write queue of the connection |
| `wire`, `answers`, `late` | requests and answers on their way; requests sent on connections that were given up |
| `executed`, `submitted`, `done` | histories |
| `retryforever`, `drops` | the option; bound |

`Submit` is `netpacket_op`; `Connected` and `ConnectFailed` are `callback_connect`; `Wake` is
`callback_reconnect`; `Sent` and `Lost` are `netpacket_op_packetsent`; `Lost`, `ReceiveFirst` and `ReceiveLast` are
`callback_packetreceived`; `Reconnect` is `reconnect`; `Close` is `netpacket_close`.  The event loop runs one
callback at a time, so each is one action.  `Execute` and `ExecuteLate` are the server: it answers a
connection's requests in order, and requests of a dead connection may be carried out at any later time.

Operations with a second request (`Double`: the transaction requests and directory listings, which ask for a
nonce first) are never queued together with another: their users wait for each before the next
(`Alone`).  This matters: the second request goes to the end of the write queue although its operation is at
the head, so with another operation queued behind it the answers would be out of order.  The one
operation submitted inside a callback, the next part of a directory listing, is `Followers`.

`InOrder`: what is on its way is one packet for each queued operation, in the order of the queue and at the
stage its `handlepacket` stands for, and nothing while there is no connection.  `ReadPending`: an answer that
will come is waited for, and a read is pending only with a head to take it.  `OwnAnswer`: each operation
finished with its own final answer.  `RequestQueue` is the promise to the storage layer - answers in order,
each once, each after its operation was carried out - and `ExactlyOnce` states that `NetpacketOp` implements
it; that an operation may be *carried out* several times and late is what `LostReply` of `Multitape` allows for.

## 6. `Tape`

An archive is what the front end writes in a sequence of calls, spread over three streams of chunks: *headers*, *chunks*
of file data, and *trailers*, the ends of files that are too short for a chunk.  The header stream says of each entry how
much it has of each.  The reader puts them together again; a copy (`@archive`) runs a reader and a writer at once and
passes whole chunks from one to the other where it can.

| Variable | In the code |
|---|---|
| `mode`, `eof`, `hbuf`, `cfile`, `e` | write cookie: mode 0 header, 1 data, 2 done, 3 end of archive; header buffer; what is in `c_file`; streams and the entry's `clen`, `tlen` |
| `out`, `tape` | the archive as last stored, by a checkpoint or the end; the one being read |
| `rd` | read cookie: per stream the chunk in its buffer, position, what to skip, the header read ahead; what is left of the entry |
| `backlog` | data that libarchive has read and not passed on |
| `phase`, `kind`, `n`, `pos`, `data`, `warning` | what the front end is doing; histories |

| Actions | Code |
|---|---|
| `PutMode`, `PutHeader`, `PutData`, `PutChunk`, `PutMarker`, `PutCheckpoint`, `Truncate`, `Close`, `Abandon` | `writetape_setmode`, `_write`, `_writechunk`, `_checkpoint`, `_truncate`, `_close`, `_free`, as `write.c` calls them |
| `CopyMode`, `CopyRead`, `CopyDrain`, `CopyChunk`, `CopyCheckpoint`, `CopyEnd`, `CopyClose` | `append_archive`, `archive_multitape_copy` |
| `Read`, `Skip`, `Peek` | `readtape_read`, `_skip`, `_readchunk` |

A unit stands for a few kB and is its own number, so that one misplaced unit is seen.  The place where a chunk ends
depends on the data through a rolling hash; here it may end anywhere from `MinCut` on, and must at `MaxChunk`.  The two
other streams are cut after the amounts in `Cuts`, or nowhere.  An item of the header stream is `[unit, left]`: a unit, or
with `unit = 0` an entry header, whose lengths are `left`.  The loops of `readtape_read` over empty entries and of
`readtape_skip` over parts are recursive functions, of as many turns as the header stream has items, and as there are
units to skip.  An index stream is the sequence of chunks it lists (how it is cut
itself is in `Chunks`).  `RoundTrip` says that whatever was written is read at its place; `NoFault` that none of the checks
that "cannot happen" fires, such as two trailers in an entry or a chunk asked for in the middle of another; `WholeRead`
that the reader reports the end neither early nor late and a copy is as long as its original.

## 7. `FileCache`

The chunkification cache remembers what a file was cut into, so that a file with the inode number, size and time it
had before need not be opened.  What makes it delicate is that the file changes while all this goes on, times have
the resolution of seconds, chunks may since have been deleted, and a checkpoint or a signal may end the archive within
the file.

| Variable | In the code |
|---|---|
| `file`, `now`, `writes`, `fails` | the file and the clock; changes of the file and reads of it that failed, bounded |
| `disk` | the file's record in `cache` |
| `saved`, `present` | chunks in the chunk directory, and in the table of the running backup |
| `rec`, `st`, `cnum`, `pos`, `held`, `hit`, `keep`, `whole` | the record in memory, what `lstat` said, and the fields of the cookie in `ccache_entry.c` |
| `snaptime` | the time the backup started |
| `cut`, `entry`, `fault` | histories |

`Lookup` is `ccache_entry_lookup`; `WriteWhole` is `ccache_entry_write`; `VerifyChunk` and `Verified` are
`ccache_entry_writefile`, which compares the file with a record that no longer fits; `ReadUnit`, `ReadFails`, `FillUnit` and
`Finish` are `write_file_data` and `finish_entry` with the callbacks; `CheckpointInFile` and `TruncateInFile` cut the file short; `EntryEnd`
is `ccache_entry_end`; `CacheUnlink` and `CacheRename` are `ccache_write`.  `Modify`, `Replace`, `DeleteArchives` and `Fsck` are what
others do.

A `read` that fails is not the same in the two places where the file is read.  In `ccache_entry_writefile` it is fatal
(`Crash`).  In `write_file_data` (`write.c:1229-1262`) the loop ends as it does at the end of the file, and what is missing is
filled with nulls (`ReadFails`, then `FillUnit`), also when nobody has touched the file.  The chunks with the nulls enter the
record under the inode number, size and time of `lstat`, so that the next backup takes them from the cache (finding 9).  The
history `good` of a record says how many units could be read when it was made, and `Exact` and `Remembered` say what then
holds: the data has the right length, is what the file had in its first `good` units, and nulls after them (`AsRead`);
that `good` is the whole size unless a read has failed is the first conjunct of `Exact`.

`Exact`, `NoProgrammerError` and `Remembered` are stated at the end of the module.  `Exact` holds because a file
modified in the second of the snapshot or later is recorded with an older time (`RecordedTime`); the assumption is
that a replaced file has another inode number and that nobody sets a time back on purpose.

The branch of `EntryEnd` that drops the chunks of a record of another state of the file (`ccache_entry.c:598-601`) is translated
but not taken in the model: it needs an entry that ends without `ccache_entry_writefile`, after a header that could
not be written (`write.c:1106-1157`), which is left out.

## 8. `Recrypt`

`tarsnap-recrypt` copies the blocks of one machine to another under new keys, a batch per write transaction, then
copies the chunk directory, and last deletes all blocks of the old machine in one delete transaction started before they
were listed.

| Variable | In the code |
|---|---|
| `srv` | of each machine the blocks, last transaction, and transaction in progress with what it adds and deletes |
| `cache`, `disk` | `cseq`, `commit_m`, `directory`, `directory.tmp` of each cache directory; what `directory` may be after a power failure |
| `pc`, `sub`, `loc` | place in `main` and in `multitape_commit`; the block lists, sequence numbers, and whether the output file of `copydirectory` still has its name |
| `moved`, `saved` | histories: blocks it deleted; archives that were ever committed |

One action per step of `main` after which it may be cut off, and between two runs `tarsnap` may be used with both cache
directories: `Clean` (`multitape_cleanstate`), `Backup`, `Fsck`, and `Foreign` for another system with the old keys, whose
backup ends the transaction in progress and adds its archive (`Extended`).  The
steps of a commit that `Multitape` has are four here, since its power failures are checked there.  A block is the
same under either key.

`NeverLost`: each archive can be read in full with one of the two sets of keys.  `DirectoryFirst`: once the old
blocks are gone the new directory is on disk.  `Finishes`: if it is run again whenever it is interrupted, it ends.  Three
constants say what else is done with the machines; each of them is a condition of `NeverLost` or `DirectoryFirst`, see the
findings.

## 9. `StorageQueue`

`storage_write_file` and `storage_delete_file` return when a request is queued, not when it is answered.  How much may be pending
is limited, and `_flush` and `_end` wait for the rest.  `npending` is `nbytespending` or `npending`; `queue` has for each
connection the requests not answered; `call` is what the program waits in (`network_spin`), which is when callbacks run;
`level` is what must be reached for it to go on.  `File` and `Send` are the two halves of a call, before and after it waits;
`SendFails` is a `netpacket_op` that fails, after the operation was queued or for want of memory before;
`Success` and `Failure` are the callbacks; `Wait`, `Drained` and `Free` are flush, end and free.  The module's formulas are
`QueueInit`, `QueueNext`, `QueueSpec`, because `StorageProofs` extends it together with `ReadCache`.

The case that no test reaches is a failure whose status is returned to *another* wait, for instance of a read on another
connection: the transaction goes on and must not report a success.  It does not, because a request that has failed stays
counted (`AfterFailure`), so that no later flush returns.  The same is true of a request that could not be sent (`SendFails`): it
stays counted although its caller was told, and an answer to it may still come.

## 10. `ReadCache`

Files that a reader will want are named in advance (`AddName`); their contents come when an answer arrives (`Answer`),
by which time the entry may have been evicted. Without memory for a name the cache is only pruned (`AddNameFails`),
and `chunkiter` goes on. `ht`, `list` are the hash table's entries and the fields of `struct storage_read_cache`;
`reads` and `spin` the requests under way. `LruRemove`, `LruAdd`, `Prune` are the functions of that name with every
pointer; `order` is the list as it should be, computed without pointers, with which `LRUOrder` compares them.
`cache_prune` loops until the size fits; `PruneTurn` is one turn of its loop, and `Prune` takes one more than there
are files, which is enough because every turn takes a file from the list. `Accounted` and `Served` are stated at the
end of the module. An evicted entry keeps its place in the table, as in the code.

## 11. Runs

Every run instantiates the module `MC...` of its component.  `MaxSeq` bounds the transactions ever started, `MaxCkpt` the
checkpoints of a write transaction, `MaxCrash` crashes and power failures together; every other bound is commented in the
module that declares it.

| Run | Instance | Shows |
|---|---|---|
| `crash` | 1 process, write, delete, fsck, recover; 4 transactions, 2 checkpoints, 2 crashes, power failures, fairness | the type invariant, six safety properties, the invariant `AInv` that proves two of them and the refinement, the refinement of `TwoSite`, and `PendingResolved` |
| `foreign` | 2 processes, write, fsck, nuke, symmetric; 3 transactions, 1 checkpoint, 1 crash; no hard links, another machine | the invariant of the proofs (`InSync` and `NeverPartial` among it) under interleaving and whatever another machine does |
| `recover_race` | 2 processes, one `--recover` | violated: `--recover` takes no lock |
| `chunks` | 2 names (4 archives with `.part`), 2 data chunks of which one is also header data, 2 references to data or headers in an archive besides index chunks, 2 checkpoints, 1 lost file or foreign transaction | `NoUnderflow`, six more invariants and `StaysComplete` |
| `prune_oom` | 1 name, memory may run out | violated: `--fsck-prune` deletes chunks of an archive it keeps |
| `netpacket` | 4 operations, 2 with a second request; 3 connections lost or refused; limits 2 and 1; with and without `--retry-forever` | `WaitsInTable`, `InOrder`, `ReadPending`, `OwnAnswer`, `ExactlyOnce`, `Answered` |
| `tape` | 4 units and an end marker, chunks of 2 or 3 units, 1 checkpoint; then read, or copied and read | `RoundTrip`, `NoFault`, `WholeRead` |
| `filecache` | a file of 1 or 3 units, chunks of 2; 1 change, 1 failed read, 3 seconds, 2 backups | `Exact`, `NoProgrammerError`, `Remembered` |
| `recrypt` | 2 archives that share a block, batches of 1; 2 crashes or power failures, 5 starts, `tarsnap` used twice | `NeverLost`, `DirectoryFirst`, `Finishes` |
| `recrypt_lost` | the same with `--fsck-prune` on the new machine too | violated: an archive neither machine has |
| `storagequeue` | 5 requests of 1, 2 or 3 bytes; limits of 3 bytes and 3 deletes; 2 connections | `FlushStored`, `Window`, `Returns` |
| `readcache` | 3 files, 4 bytes in all; limits 0 and 2 and none; 2 reads at a time | `LRUOrder`, `Accounted`, `Served` |

The bounds are enough for the interesting cases.  In `crash`, two checkpoints give an old and a new one in one
transaction, with files of both in the directory; the second crash happens in the recovery from the first; four
transactions are one committed, one orphaned by a lost answer, one that deletes or repairs, and one more.  The invariant
of the proofs relates at most two transactions and two checkpoints, and the proofs have no bound.  In `chunks` two
references are enough for a chunk to be used twice in one archive, across a checkpoint, as header and as data, and
by two archives at once; index chunks come on top.  In `netpacket` the two simple operations are in flight together,
each stage of the others is cut off by each kind of failure, and three failures reach both limits, whose values (10
and 3 in the code) only count.  In `tape` four units are a header with data in a chunk, a trailer and another header, or
two files, or a file of a whole chunk and a rest across a checkpoint.  In `filecache` the two backups are one that makes a
record, whole or short of a failed read, and one that meets it with the file as it was or changed before, during or
after either; what a third one would meet is again a record made by one backup, and the proofs have no bound.  A file of three
units has a chunk and a trailer, one of one unit only a trailer.  In `recrypt` two archives sharing a block make three batches, and each crash may
be in the recovery from the other.  In `storagequeue` the five deletes pass the limit and then half of it, and uploads fill
the limit alone, together, or exceed it.  In `readcache` three files make a list with a middle, and the limits evict all
or one of two.

Deadlock is checked in the runs of `Multitape` and `Chunks`: a process or command that cannot continue has ended, and
another may begin.  It is not checked in the other runs, where the system really ends: a connection that was closed stays closed, an
archive has been read to its end, a transaction has ended, every file has been lost with the reads done, or the bound on
runs and backups is reached.  `Answered`, `Returns` and `Finishes` say that they do not stop earlier.

### Fairness

`FairSpec` of `Multitape` has weak fairness on the steps of a running process (it is scheduled and its requests
are answered in the end; `LostReply` cannot happen forever because `netpacket_op` gives up, which is
a `Crash`) and strong fairness on beginning a backup: backups are run from cron again and again, and one
that finds the lock free will start.  Crashes are bounded, so they stop in the end.  Nothing is assumed
about delete, fsck or recover.

In `NetpacketOp` the event loop runs every callback whose time has come: weak fairness on connecting
(which ends, one way or the other), waking, sending and receiving.  `Execute \/ Lost` is fair because a
read times out (`netproto_readpacket`): either an answer comes or the connection is lost.  Connections lost are
bounded by `MaxDrops`.  Nobody is assumed to submit anything or to close the connection.

In `Recrypt` a running `main` goes on, and it is started again when it was interrupted; `Finishes` is only about behaviours
in which nobody uses `tarsnap` with these machines meanwhile.  In `StorageQueue` a request is served and answered in the
end, which `Answered` of `NetpacketOp` provides as long as the connection is not given up; if it is, that is a `Failure`
and `Returns` excuses it.

## 12. Proofs

The model checks above are of small instances; the theorems below hold for every value of the constants that the
`ASSUME` of each module and the theorem's own assumptions allow.  Each rests on an inductive invariant, which was checked
with TLC before it was proved, because none of the properties is inductive by itself: a property speaks of the moment
when something could go wrong, and the invariant of how the program got there.  Proofs have one lemma per action.

| Module | Theorems | Under the assumption |
|---|---|---|
| `MultitapeProofs` | `TypeCorrect` (`TypeOK`) | |
| | `Inductive` (`IInv`), `Synchronised` (`InSync`), `WholeCommitted` (`NeverPartial`), `PendingBacked` (`CommitBacked`), `SafeToOverwrite` (`NoAliasTruncated`) | `RecoverAlone`, `RenameSafe` |
| | `Sequenced` (`AInv`), `SuccessMeansCommitted` (`AckedCommitted`), `InSequence` (`NeverOutOfSequence`), `ImplementsTwoSite` (`Atomic`) | these and `Alone` |
| `ChunksProofs` | `CountersInRange` (`NoUnderflow`), `DirectoryExact` (`RefsExact`), `ExtraOfArchives` (`ExtraExact`), `ArchivesWhole` (`NoDangling`), `NothingLeftBehind` (`NoOrphans`), `TableOfWrite` (`TableExact`), `DeleteIsNotStopped` (`DeleteProceeds`), `PruneSparesKept` (`PruneSparesReferenced`), `ArchivesSpared` (`StaysComplete`) | `Oom = FALSE` |
| `NetpacketProofs` | `WaitsKnown` (`WaitsInTable`), `PacketsInOrder` (`InOrder`), `AnswersAwaited` (`ReadPending`), `OwnAnswers` (`OwnAnswer`), `Refines` (`ExactlyOnce`) | |
| `RecryptProofs` | `NothingLost` (`NeverLost`) | `Careful` |
| | `DirectoryKept` (`DirectoryFirst`) | `Careful`, `"new" \notin Interrupted` |
| `StorageProofs` | `FlushesStored` (`FlushStored`), `WindowHolds` (`Window`), `ListKept` (`LRUOrder`), `SizeKept` (`Accounted`), `FilesServed` (`Served`) | |
| `FileCacheProofs` | `ArchivedExactly` (`Exact`), `NeverProgrammerError` (`NoProgrammerError`), `FilesRemembered` (`Remembered`) | |
| `TapeProofs` | `Places` (`IInv` of `TapeInv`), `RoundTrips` (`RoundTrip`), `NeverFault` (`NoFault`), `ReadWhole` (`WholeRead`) | |
| `Sums` | lemmas about `MapThenSumSet` | |

The assumptions, each of which the theorem needs:

- `RecoverAlone`: `--recover` is not run beside another command.  Without it `InSync` is false (run
  `recover_race`).
- `RenameSafe`: where the file system has no hard links, no power failure hits a rename.  The comment in
  `chunks_directory_commit` says why the code cannot do better there.
- `Alone`: no other machine uses the same keys and `--nuke`, which goes past the cache directory, is not used.  With
  them the client is told to run `--fsck`, as it should be, so that `NeverOutOfSequence` and `Atomic` do not hold.
- `Careful`: the old keys are not used again once re-encryption is over, and `--fsck-prune` is not run on the half filled
  new machine (`recrypt_lost`, findings 3 and 8).  `"new" \notin Interrupted`: see finding 7.

### The transaction layer

`InSync` is not inductive: it says nothing of the files that a marker will install.  `IInv` (module
`MultitapeInv`) is

- `CacheInv`: `Good(d)` holds of the directory as it is *and of every directory a power failure could
  make of it*.  `Good` says that a pending checkpoint of the transaction in progress names a file
  that describes it, and that the server has it or all it needs to make it (`GoodCkpt`); that a
  pending commit will install what the server will commit or has committed (`GoodCommit`); that without
  a pending commit the directory is current if the sequence number is (`GoodSync`); and which names
  may share a file (`GoodAlias`);
- `SrvInv`, `DiskInv`: sequence numbers are handed out once, and what is committed or checkpointed is
  whole;
- `LockInv`: at most one process changes the directory; `NukeInv`: a nuke works in a transaction nobody
  else knows of;
- `ProcInv`: what the process that changes the directory knows at each of its steps, in particular which
  names may still differ from the disk (`Synced`).

`MultitapeProofs` has first the lemmas for the steps of `multitape_docheckpoint`, `multitape_docommit` and
`chunks_directory_commit`, where one lemma reduces "good after any power failure" to "good for each entry of the names not yet
synced", and then those of the server, the transactions and the environment.

That a success is never reported for a transaction that was not committed needs more, because the answer to a commit
says only that the transaction is not in progress any more.  `AInv` adds which transaction the markers name, now and
after any power failure (`MarkerInv`): the one in progress, or the one committed last; that transactions are committed in
the order of their numbers (`OrderInv`); and what each process knows of its own (`SeqInv`).  From it every step is shown to
be a step of `TwoSite` or to change nothing there, under the refinement mapping of `Multitape`.

### The counts of chunks

None of the properties of `Chunks` is inductive: `RefsExact` says nothing while a command runs, and what a command
writes in the end is the work of many steps.  `IInv` of `ChunksInv` is

- `Durable`, of the server and the directory as they are: the directory counts for each chunk, and in the extra statistics,
  *at least* what the archives on the server amount to if it is in sequence, and just that if no file was ever lost
  (`Describes`).  "At least" is what survives a lost file, and enough for a delete never to remove a chunk in use;
- `Checkpointed`: the same of the server and the directory that a commit of the last checkpoint would leave.  This is what makes a
  failure after a checkpoint harmless, with statistics saved and restored around it;
- `Writing`: the table is what the directory has plus the references of the archive written so far, those still in the
  index buffer included; a chunk has one more in `nrefs` and its mark if and only if the archive refers to it
  (`WriteTable`);
- `Deleting`: the table is what the directory has without the references that `chunkiter` has met; these are the
  references of the archive without those left in the walk (`Met`), and what has been removed from the server is what has no
  references left;
- `Checking`: of `--fsck` and `--fsck-prune`, the table describes the archives that are done (`Done`), and its second counters
  and marks hold what was met of the one at hand.

The actions are then statements about counting, which the first part of `ChunksProofs` has: the occurrences of a chunk in a sequence
that becomes longer (`Occ`) and in the index of an archive (`Inside`), one step of the walk through an archive, and the
users, uses and files of archives to which one is added or from which one is taken away.

`Oom = FALSE` says that `chunks_read_cache` is never refused the memory for an index chunk.  Without it `chunkiter` leaves out part of an
archive and reports success (finding 2): `Deleting` and `Checking` are then false, and so is
`PruneSparesReferenced` (run `prune_oom`).  The hypothesis is needed by almost every one of the theorems: with `Oom = TRUE` in
`chunks.cfg`, TLC finds each of its invariants violated but `ExtraExact`.

The invariant was checked with TLC in the instance of `chunks.cfg` (360184 states, some 90 seconds); it is not in that run's
configuration because the properties it was made for are.

### The request queue

`IInv` of `NetpacketInv` has `TypeOK` and the four invariants of the run, which are inductive only together, and: in which states a
callback is awaited (`Connection`), that the queue is the end of what was submitted (`Order`), that an operation
with a second request is alone in the queue (`Lone`, which the callers of `netpacket_op` see to), and that what is answered
was carried out (`Carried`).  With it `ReceiveFirst` and `ReceiveLast` map to `RequestQueue`'s answer or to a stutter.  The
one assumption on the limits is that `MaxReconnects` is not zero; it is 10 in the code.

### Re-encryption

`IInv` of `RecryptInv` says of every directory that the old machine may have after a power failure that, when it is in
sequence, it lists what the server has (`OldSynced`), and that once blocks have been deleted it is out of sequence
or the server has nothing (`OldRetired`); that a transaction on the old machine adds only what completes an archive or
takes away only what the new machine has (`OldWhole`); and what the lists in `main` are worth at each step (`ListInv`, `WorkInv`,
`BatchInv`, `DeleteInv`): while the delete transaction is the one in progress the list of the old blocks is what the server has,
which is why the code starts it before it lists them.  `NewDirInv` adds what the new directories hold.

### The storage queues

`QueueInv` of `StorageQueue` says that what is not stored or not known to be (`Unsettled`), with the request that waits, adds up to at
most `npending` (`Counted`).  From it a flush, which waits for `npending = 0`, has nothing unsettled, and the window
is not exceeded.  The sums need facts about `MapThenSumSet`, which module `Sums` proves: the equation of the
recursion, and the sum of a set with an element more or less, of two disjoint sets, and of a subset.

### The chunkification cache

`IInv` of `FileCacheInv` says that a record in the cache, or in memory, is true of the file as long as the file has the record's inode
number and time (`Honest`): a record is older than the clock, so that whoever changes the file later gives it another time.
The rest follows one file through a backup: what `lstat` said is still so unless the file has changed, and then its time is one
that no record gets (`Seen`); what was taken from the record or read is what `lstat` saw, up to where a read failed
(`Whole`, `Verifying`, `ReadOn`, `Filling`); and a file read to its end is all in its record (`Kept`).  All of these speak of a
record's `good` units.  `Unfailed`, which rests on `IInv`, says that these are all its units as long as no read has failed.
The lemmas about `AsRead` take a sequence of units, nulls behind the readable ones, through its prefixes and extensions.

### The read cache

The properties of `ReadCache` speak of the cache between two calls, and `cache_prune` takes it apart link by link.  `IsList(c, s)` of
`ReadCacheInv` is therefore stated of any cache `c` and any sequence `s`: the links of `c` go through `s` in both directions,
its size is what the buffers of `s` take, and a buffer has the whole file it is of.  One lemma takes it through
`cache_lru_remove` (`s` without the file, wherever it stands), one through `cache_lru_add` (`s` with the file before it), and one
through a turn of `cache_prune` (`s` without its last).  A list that still does not fit is not empty, so that
the loop ends with the longest front of `s` that fits, and never follows a null pointer.  `IInv` adds that no file out of the
list has a buffer (`OnlyListed`), without which a late answer would be kept and not counted.  TLC checked it in the instance of
`readcache.cfg`.

### The format of an archive

`RoundTrip` speaks of what one call of the reader returned, and says nothing of what the streams look like, in which chunks
they are, and what the next call will find.  `IInv` of `TapeInv` describes a set of streams by two sequences: `x`, the data of
each stream with the chunks taken away, and `m`, the *marks*, where `m[k]` says how much of each stream precedes entry `k`.

- `Layout`: between two marks lies an entry (`HasEntry`), which has in the header stream its lengths and then the header, in
  the two others the data and the trailer, and the units in all three continue the numbers of those before.  How many units
  precede an entry follows from its mark (`Units`), because it is all that was written minus the entry headers;
- `Flat`: the chunks are a way to cut `x`; `Start(ch, j)` is how much precedes chunk `j`.  Neither `m` nor `x` says where
  chunks end, so that a chunk may hold the end of one entry and several others.  `Aligned`: but not in the stream of file
  data, where an entry ends with a chunk, because `setmode` ends the chunkifier; this is why a copy may reference chunks;
- `Writes`: the entry under way is the header buffer, what `clen` and `tlen` count at the end of the two streams, and the
  chunkifier's buffer, in this order of their numbers.  `Modes` says that there is no trailer before the data ends.
  `WriterInPlace` is this of the cookie, `OutWhole` says of the archive last stored that it has a layout with nothing under way;
- `AtPlace`: the reader is in an entry `k`, and for each stream what it has had of it up to the next mark is `m[k+1]` less
  what is left.  `StreamAt` says the same of the cookie of that stream: chunk, position, amount to skip and look-ahead
  add up to that.  A header is read before data and data before a trailer, and between two calls the reader is not within
  a chunk of file data;
- `Kinds`, `Backlog` and `DataUpTo`: a copy knows from the original what comes next, has what libarchive read ahead, and the end
  marker, which the copy writes itself, is in no chunk of data.

An action of the writer then appends to `x`, or adds a mark; one of the reader moves it within an entry or to the next.  The
lemmas about `stream_get_chunkheader` and `stream_get_chunk` are stated of any chunks and any amount to skip
(`StreamAt` with the same amount before and after), those about `readtape_read`, `_skip` and `_readchunk` of any archive
with a layout.

The existential quantifiers over `m` and `x` range over infinite sets.  For TLC, `IInvChecked` of `MCTape` has the only
values they can have, which are computed from the chunks and the lengths in the header stream.  It was checked in all 794045
states of `tape.cfg`; it is not in that run's configuration because it takes three minutes.

### Recursion over data

The induction theorems of the library take an operator as a parameter, which the provers cannot instantiate.  `Sums` and
the first part of `FileCacheProofs` (about `FlattenSeq`) do without: the community modules define sums and concatenations by a
recursive function, as `ReadCache` does `Prune`, so the lemmas suppose a counterexample, take a smallest one, which well-founded
orders have (`WFMin`), and contradict the equation of the recursion.  In `TapeProofs` the lengths of
chunks are such sums; the loops of `readtape_read` and `readtape_skip` are recursive functions, and `RunExists` shows with the
least number of turns without one that a function with their equation exists for any number of turns.

### Only model-checked

`PendingResolved`, `Answered`, `Returns` and `Finishes`: liveness under fairness is beyond the prover.

## 13. Findings

Shown by a run:

1. `--recover` does not take the lock (`multitape_recover.c`).  Beside a backup it can leave the client in
   sequence with the server but with a chunk directory that describes something else; a later
   `--delete` would trust its reference counts.  (`recover_race`)
2. `multitape_chunkiter_tmd` reports success when it runs out of memory between two chunks of the index.
   `--fsck-prune` then deletes chunks of an archive that it keeps, and `--delete` leaves counts too high.  (`prune_oom`)
3. `tarsnap-recrypt` lists the new machine's blocks (`recrypt.c:480`) before it completes a commit pending there
   (`:488`).  If that commit is of a `--fsck-prune`, it deletes blocks which the list has, so they are not copied, and then they
   are deleted from the old machine.  (`recrypt_lost`; it takes a server that lets the write key complete a pending
   commit, as `writetape_open` relies on.)

Met while modelling, with no run of their own:

4. After a crash in the very first backup the archive cannot be recovered with `--recover`, against
   the manual page, because `bsdtar.c:1004` wants a chunk directory; the next backup does complete it.
5. When another machine ends a transaction for which a checkpoint marker is left here, every command
   including `--fsck` stops with "Run --fsck" (`multitape_fsck.c:480`).
6. `--retry-forever` gives up after three failures when the connection at hand has never been established
   (`netpacket_op.c:253`); each transaction request uses a new one.
7. A `directory.tmp` left on the new machine by an `--fsck` that failed before its marker is moved over `directory` by
   `tarsnap-recrypt`'s first commit, while it has that file open: the directory it then copies goes to a file without a name,
   against `recrypt.c:653-658`.  With `"new"` in the constant `Interrupted`, `DirectoryFirst` fails.
8. A crash or power failure after `tarsnap-recrypt` has deleted the old blocks (`recrypt.c:712`) and before `directory` is
   unlinked for good (`:717`, which nothing syncs) leaves an old cache directory that is in sequence and lists deleted blocks.
   Backups with the old keys then refer to them.  With `Retired = FALSE`, `NeverLost` fails.
9. An error of `read` while a file is archived is taken for the end of the file (`write.c:1238`, `:1262`): there is no message,
   the exit status is 0, against `tarsnap.1-mdoc.in:1110-1111` (`.Ex -std`: other than 0 if an error occurs), and the entry is
   filled with nulls (`archive_write_set_format_pax.c:1250-1283`).  These are remembered for the unchanged file, so that later
   backups archive nulls without opening it, until it changes or its record is dropped; `ccache_entry_writefile` treats the same
   error as fatal.  With `entry = SubSeq(st.units, 1, Len(entry))` in place of `AsRead` in `Exact`, TLC finds a file
   archived with nulls by its first backup, and one that a second takes from the cache.

## 14. Not modelled

Contents of files, encryption, HMACs and the random numbers; in `Multitape` the two-packet exchanges that
obtain nonces (a lost answer anywhere in them is a lost answer to the request); directory listings in several
packets (`netpacket_directory_readmore`); dry runs, which only take the lock; `--initialize-cachedir`; `--print-stats` and
other readers.  Of the modelled components: encodings and corrupt contents (of metadata, of the chunk directory, of the
cache file with its path compression); the rolling hash of `chunkify.c`; `storage_write_fexist` and the signals at bandwidth
thresholds; the parallel readers of `copyblocks` and the re-encryption of metadata in `recrypt.c`; traversal of the file
system in `write.c`.

Components without a module are listed in `PROJECT.json` with the reason: the packet layer and the client's event loop
(`NetpacketOp` says what it needs of them), keys and cryptography, the key tools, the command line, data structures.
The vendored libraries, libarchive and libcperciva, stay out, and they are most of the lines of `src/`:
the modules cover most of `tar/multitape`, `tar/chunks`, `tar/storage`, `tar/ccache`, `lib/netpacket` and `recrypt`, which is where
the program keeps its promises, and a small share of the tree as a whole.

# A TLA+ verification of sqlite-objs

sqlite-objs is an SQLite VFS that keeps a database in Azure Blob Storage: the
main database file is a page blob behind a local cache file, the rollback
journal and the WAL are block blobs behind memory buffers, and SQLite's file
locks are blob leases. The specifications in this directory model that code,
`src/src/sqlite_objs_vfs.c` and what it uses of `src/src/azure_client.c`; TLC checks them on
small instances, and TLAPS proves, for every value of the constants, the safety of
the main database file, of the cache file that outlives its connection, of the WAL
file and of the HTTP client, and that database and rollback journal together commit
atomically and durably.

## 1. The system

| Part | State | Operations | Meets |
|---|---|---|---|
| MAIN_DB file | `sqliteObjsFile`: lock level, lease id, ETag, cache file, dirty bitmap, `nData`, `lastSyncedSize`, `readsSinceSharedLock` | xOpen, xClose, xRead, xWrite, xTruncate, xSync, xLock, xUnlock, both revalidations, refresh | page blob and lease; other connections through them |
| Page blob and lease | ETag, size, pages, lease | create, resize, page write (lease id or If-Match), chunked read, lease acquire, renew, release; expiry | every connection |
| MAIN_JOURNAL file | memory buffer, block blob, per-process table of existing journals (16 entries) | xOpen, xWrite, xTruncate, xSync, xDelete, xAccess, xCheckReservedLock | SQLite's pager; other processes through the blob |
| Persistent cache (`cache_reuse`) | cache file, `.etag`, `.snapshot`, `.state` | reuse by ETag, incremental diff, download, the files written by xSync and xClose | earlier and later sessions of the machine |
| Lazy cache (`prefetch=none`) | valid bitmap | page-1 bootstrap, fetch with readahead, PRAGMA prefetch | persistent cache |
| WAL file | memory buffer, block blob and its staged blocks | xOpen, xWrite, xTruncate, xSync, xClose, xDelete, parallel block upload | SQLite's wal.c in EXCLUSIVE locking mode; later sessions through the blob |
| HTTP client | curl handles, client mutex | request loop with retries, batch page write, multi-range read, parallel upload | every request of one client |
| Authentication, error mapping, URI parameters, PRAGMAs and metrics, shell, stub client, Rust bindings | none that changes how blobs are used | | |

What makes it hard, each point listed at its line under `hazards` in
`PROJECT.json`:

- connections interleave between any two requests, and SHARED takes no lease,
  so downloads overlap flushes;
- an ETag is copied at one moment and compared at another, and the ETag of a
  batch of page writes may be that of any of them;
- a lease expires while its holder works; its renewal may fail in the middle of
  a call; a request may be done and its answer lost;
- a process dies between two ranges of a flush, between journal and database,
  or between two of the files that describe its cache;
- the table of existing journals is per process, the journals are not;
- a WAL file is replaced whole by every xSync, and a frame whose upload failed
  stays in the buffer;
- a request is sent again after an answer that got lost, and a batch keeps the
  client's mutex over all its rounds.

## 2. The plan

In order of importance. Parts 1 to 8 are done.

1. `PageBlob`, `MainDb`: the protocol of cache, ETag and lease, on which all else
   stands. Runs under contention, faults, creation, and for progress.
2. `MainDbProofs`: an inductive invariant of `MainDb`; the safety properties for
   every value of the constants.
3. `Journal`, with `AtomicCommit` as the abstract specification: database and
   journal blob together are one value that transactions replace whole.
4. `CacheReuse`: the cache file from session to session, with the lazy cache.
5. `Wal`: buffer, upload in one piece or in parallel blocks, recovery at xOpen,
   checkpoints, and what a session that opens later finds.
6. `AzureClient`: the request loop with its retries, the rounds of a batch and the
   client's mutex; `AzureClientProofs`: its safety for every value of the constants.
7. `JournalProofs`: `Journal` implements `AtomicCommit`, and its commits are durable,
   for every value of the constants.
8. `WalProofs`, `CacheReuseProofs`: inductive invariants of `Wal` and `CacheReuse`; their
   safety properties for every value of the constants.
9. What `CacheReuse` leaves out: failing flushes, xTruncate, creation, xClose with
   dirty pages.

## 3. Modules

| Module | What it is |
|---|---|
| `PageBlob` | the service's page blob and lease; external, modelled from the requests of `azure_client.c` |
| `MainDb` | the MAIN_DB file, extends `PageBlob` |
| `MCMainDb`, `MainDbClaims` | instances for TLC; what documents say and the code does not keep |
| `MainDbInv` | the inductive invariant and lemmas on the helpers |
| `MainDbLockProofs`, `MainDbWriteProofs` | one lemma per action: it preserves the invariant |
| `MainDbProofs` | the theorems |
| `AtomicCommit` | what a database file and its journal promise together |
| `Journal` | the MAIN_JOURNAL file under a rollback commit |
| `MCJournal` | deployments for TLC |
| `JournalProofs` | the inductive invariant of `Journal`, and the theorems |
| `CacheReuse` | persistent and lazy cache |
| `MCCacheReuse` | instances; claims |
| `CacheReuseProofs` | the inductive invariant of `CacheReuse`, and the theorems |
| `Wal` | the WAL file under SQLite's write-ahead log |
| `WalProofs` | the inductive invariant of `Wal`, and the theorems |
| `AzureClient` | threads that share one client: requests, retries, batches, mutex |
| `MCWal`, `MCAzureClient` | instances |
| `AzureClientProofs` | the inductive invariant of `AzureClient`, and the theorems |

### MainDb

A step is one request together with the local code up to the next request, so
handlers of different connections interleave exactly where the code waits for
the service. `pc[c]` names the request that the running call makes next. xOpen is
`OpenExists`, then `OpenHead` or `OpenCreate`, then a download (`Fetch`, `FetchDone`); xLock is
`LockShared`, or `LockAcquire` followed by `Revalidate`, a download and perhaps `GiveUp`;
xSync and the flush of xClose are `Sync` or `Close`, then `Resize`, `Put` and `FlushDone`.
Every request has a failing form. A request whose answer is lost may or may not have been
done (`LockLost`, `TruncateFail`, `FlushFail`, `Put` that is sent again).

Data: a page holds the number of the xWrite that wrote it; an ETag is a counter;
bytes of a buffer that no answer filled are `Junk`. A download asks for the sets
of pages in `Chunks`, in any order.

`taint` is a history variable. The code has four places where the ETag that a
connection keeps stops describing its cache file: a refresh whose download
fails (`"refresh"`), a write whose lease renewal fails (`"renew"`), a truncation
whose answer is lost (`"truncate"`), and a connection that created the blob and
has no ETag while others change it (`"create"`). The properties hold wherever no
such event has happened to the connection.

SQLite is the environment. Assumed of it: `synchronous` is NORMAL or more; pages
are written at EXCLUSIVE; the pager drops a write lock over unsynced pages only
after an I/O error and then drops every lock; xClose comes at NONE. The local
disk does not fail.

### Journal

A behaviour starts in one of the deployments in `Layouts` and stays in it
(`layout`). Connections belong to processes (`procOf`), and a process has one table
entry for the journal (`state`), or none if its table was full (`tracked`). The
answer of `blob_exists` and its storage in the table are separate steps, because
the code lets its mutex go for the request; `overtaken` is the history that "no
journal" was stored after an upload of one. The database file is abstracted to
what the properties of `MainDb` say of it: SHARED gives the blob's content,
RESERVED is granted over current content only, xSync writes page by page under
the lease. The pager's commit, rollback and hot-journal protocol is that of the
vendored `sqlite3.c`: a commit whose flush fails is rolled back from the buffer
(`PutFail`, `PlayBack`), but when the deletion of the journal fails (`FinaliseFail`) the
pager gives up its lease and takes nothing back; the journal then is hot, or it is
gone and only the answer was lost. `Recoverable`, the refinement mapping, is what a rollback of
the journal blob would leave.

A commit ends in one of `modes`, whichever journal_mode the connection has then.
`faulty` and `maxFaults` say which kinds of request may fail and how many.
`pastWriters` is an assumption on the environment: FALSE says that a connection
that read past a journal because somebody held the lease does not go on to write
(`claim_recovery` shows what happens without it). `Reliable` says that the search
for a journal can be relied upon: HEADs and downloads of it are answered, no process has a
table that another one's journal escapes, and nothing was `overtaken`. `AtomicSpec`
is stated under `Reliable`, `CommitDurable` without it.

### CacheReuse

One machine opens, uses and closes the database, or dies, again and again, while
others commit. `hist` is the sequence of the blob's versions, the ETag is its
length, and a page holds the version that wrote it. The files of the cache are
written one per step, so a crash falls between any two of them. The death of a
process loses no file contents; a power failure is not modelled. The flush
always succeeds here, its failures being `MainDb`'s. `taint` records how the file may have
come apart from its ETag; a new download empties it.

A whole download (`Download`, `Refresh`) is a GET for each set of pages in `Chunks`, in any
order and each answered by the version the blob has then (`GetChunk`). A range that
ends beyond a blob that has become shorter is answered in part, which the code
accepts, and the rest of `tempBuf` stays `Junk`; one that lies wholly beyond it is refused
(`RangeRefused`). `pageSize` is the page size in the header of the database. A diff sets bits of
the valid bitmap before the code has read that header, in units of `DefaultPageSize`
(`Marked`), so in a database with larger pages it marks pages that it has not fetched.

### Wal

The VFS offers no usable shared memory, so SQLite enters WAL mode in
locking_mode=EXCLUSIVE only: a session takes SHARED, looks for a WAL file
(`Access`), takes EXCLUSIVE and with it the lease (`Lock`), and xOpen downloads the
WAL blob (`Get`). Its transactions then go to the buffer `aWalData`. The first
frames after a restart of the log wait for a sync of the header; with
`synchronous=FULL` a commit waits for an xSync of its frames, with NORMAL it does
not. xSync replaces the blob by the buffer, with one Put Blob or with Put Block
for each chunk, in any order and by concurrent requests, and Put Block List. A
checkpoint syncs the log, copies its pages to the cache file and flushes them
page by page; TRUNCATE and the end of a session delete the blob, and nobody sees
it when that fails. An open that gets SQLITE_BUSY keeps SHARED, and what it has read,
for the next attempt.

A transaction is one record of the log with its number, its pages and what its
checksums start from (`prev`): recovery takes records while these follow, as
`walIndexRecover` does, so that records of an older log or of a transaction that
was rolled back are told apart from the log's own. `latest`, `durable`, `unsynced` and
`doubt` are history variables: a commit that failed is in doubt until its frames
are overwritten, because a later upload of the whole buffer carries them too.

### AzureClient

A thread is in `lock` until it has the client's mutex, in `send` for one request
of `execute_with_retry`, and in `round` and `wait` for a batch, which keeps the mutex
from its first request to its return. The requests of a round are served one by
one in any order (`Serve`); `EndRound` collects the answers, in any order too, and
returns or starts the next round. The service is one ETag and one lease. Other
clients write, and the lease runs out, at any moment (`Elsewhere`). Answers
with transient errors are unlimited; what else goes wrong is counted by `faults`.
`landed` and `made` are history variables: the requests of a call that took
effect, and the ETags they made.

## 4. Runs that pass

| Run | Instance | What it shows |
|---|---|---|
| `contention` | 2 connections, 2 pages, 2 writes, no faults | `TypeOK`, `CacheCoherent`, `WriterCurrent`, `LeaseMatchesLock`, `SnapshotStable` |
| `faults` | 2 connections, 2 pages, 1 write, 1 fault, one chunk per page, a database of one page or none | `CacheCoherent`, `WriterCurrent`, `LeaseMatchesLock` when a request fails or its answer is lost, and when connections race to create the database |
| `progress` | 2 connections, 1 page, 1 write | `CallsReturn`: every call that has begun returns |
| `journal` | 2 connections, 2 pages, 2 transactions, three deployments: one process with a table entry, 2 faults; two machines without table entries, DELETE and PERSIST, 2 faults, both with deletions that fail or whose answers are lost; two machines with stale tables, swallowed errors and lost answers, 1 fault | `TypeOK`; `AtomicSpec`: in the first two `Journal` implements `AtomicCommit`; `CommitDurable`: a commit that returned success is what a new process recovers |
| `cache_files` | both prefetch modes, 2 pages of the default size or of twice that, a download in one GET or two, 4 versions, 1 fault | `TypeOK`, `ReuseCoherent` |
| `wal` | 2 sessions, 2 pages, 2 transactions, `synchronous` FULL or NORMAL, 2 faults | `TypeOK`, `RecoversCommit`, `ReadsLatest` |
| `client` | 2 threads, 2 ranges, 2 calls, 1 retry, 1 fault beside transient errors | `TypeOK`, `OkMeansApplied`, `ConditionalOnce`, `EtagOfCall`, `MutexReleased`, and `CallsReturn` |

`CacheCoherent`: a cache that revalidation would accept by its ETag is the blob,
page by page, under the connection's dirty pages. `WriterCurrent`: a connection at
RESERVED or above whose lease is intact builds on the blob's current content.
`SnapshotStable`: nothing but its own writes changes the cache file under a pager
that has read. `LeaseMatchesLock`: lease ids and lock levels agree on every path.
`ReuseCoherent`: a session whose ETag is the blob's reads the blob, whatever files
earlier sessions left. `RecoversCommit`: recovery finds the last synced commit, one
that was committed after it without a sync, or one whose upload reported failure
and whose frames are not overwritten, whole and never an earlier one.
`ReadsLatest`: a session reads what it committed or recovered last.
`OkMeansApplied`: a call that returns AZURE_OK had all of its requests take effect,
over all rounds. `ConditionalOnce`: a write with If-Match takes effect once, however
often it is sent. `EtagOfCall`: the ETag a write returns is one that it made.
`MutexReleased`: every error path unlocks the client's mutex but one, an
allocation in `az_page_blob_write_batch` (`leaked`).

**Bounds.** Two connections are a writer and one that it can harm or be harmed
by; the proofs remove this bound, and those on pages, versions, transactions and
faults. Two pages are the least for a flush
that stops halfway, for a download that mixes versions and for a file that grows
and shrinks. Four versions are a write of two pages by this machine and a commit
of another after it. Two transactions are the least for one built on another, for
a log of two blocks, and for a log that starts again over old frames. `MaxPut` is 1,
so that two dirty pages are two ranges. One fault is one failed request at any
point; the reliable deployments of `journal`, and `wal`, have two, so that a failed commit may be
followed by a failed rollback, and a failed checkpoint by a failed close. In `client`
the source's 5 and 3 retries are one of each: a second attempt already meets what
the first one left; the proof has no such bound. Two calls are two of one thread
(a lease, then a write under it) or one of each thread. Symmetry is over
connections (`MainDb`), pages (`Journal`) or both (`Wal`), which the specifications
only compare. The views drop the age of a stale ETag, which
nothing compares, variables of a call that is not running, which of several
reasons `taint` holds, and in `wal` what no later step reads: blocks that no running
upload has staged, a cache file that the next lock replaces, a closed WAL file. The run for
liveness uses neither symmetry nor view.

**Fairness.** `progress` assumes `WF_vars(Step(c))`: a call that has begun goes on,
because every request has a timeout and a bounded number of retries. Nothing is
assumed of SQLite's calls, of crashes, of lease expiry or of `FlushRenew`. The
renewal in a batch write is a request made while the client's mutex is held;
that mutex is outside `MainDb`, so `progress` speaks of the sequential flush only.
`client` assumes `WF_vars(Step(t))`: curl's time-outs (60 s for a request, 120 s
for one of a multi-range read, 10 s to connect) answer every request, one way or
another. Attempts and calls are bounded, so that no thread is overtaken for ever
at the mutex and weak fairness is enough for taking it. Nothing is assumed of failing
allocations, of a lease renewal or of other clients. `CallsReturn` of `AzureClient`
excepts the two ways in which a thread has the mutex for good (`Stuck`).

**Deadlock** is checked in every run but those of `AzureClient`: its calls are
bounded, and a mutex that stays locked stops every thread, which `CallsReturn` and
`claim_renewal` are about.

## 5. Runs that find a disagreement

Each of these checks one statement of a document or comment, and TLC finds a
behaviour of the code that does not keep it. `PROJECT.json` quotes the statements.

| Run | Statement | What happens |
|---|---|---|
| `claim_snapshot` | readers see one blob version | a refresh overlaps a flush |
| `claim_recovery` | a new machine recovers | a dead writer's lease hides its hot journal |
| `claim_crash` | no reuse after a crash | the `.etag` of an earlier session vouches for unflushed pages |
| `claim_readahead` | valid pages come from the cache | the readahead window overwrites them |
| `claim_renewal` | the lease is renewed during long flushes | the renewal locks the mutex that the batch already has, and the thread waits for itself |

The passing runs are as strong as what they exclude is narrow. Beside the events
of these runs they exclude, by a history variable or a constant, and the models
reach, the following:

| Excluded by | Event |
|---|---|
| `taint` of `MainDb` | a failed refresh keeps the new ETag (line 2190); a lease renewal fails in xWrite (1592); a truncation whose answer is lost (1652); the empty ETag of a creator (2303) |
| `Reliable` in `AtomicSpec` | HEAD or download of a hot journal fails and the error is dropped (3463); a table entry of 0 outlives another process's upload (3433); the answer to a HEAD is stored over the entry of an upload made meanwhile by another thread (3641, 3654; `overtaken`), against the comment at 3601 ("we know when the journal exists"). Without the last premise TLC finds `AtomicSpec` violated with two failing page writes of one process |
| `faulty` of `Journal`, `Faulty` of `Wal` | the lease of a live writer expires: nothing fences its upload of a journal or of a WAL file (1847). With `"expiry"` among the faults TLC finds `CommitDurable`, `RecoversCommit` and `ReadsLatest` violated |
| `modes` of `Journal` | journal_mode=TRUNCATE: xTruncate changes the buffer and nothing uploads it (1635). With `"truncate"` among the modes TLC finds `CommitDurable` violated |
| `leaked` of `AzureClient` | the allocation after which a batch returns with the mutex |
| `taint` of `CacheReuse` | the HEAD of xClose, sent without a lease (1347); a crash after `.etag` and before `.state` (2124); prefetch=all over a sparse file (3041); a failed refresh; holes that a diff in units of the default page size has marked valid (1139, the size being detected at 1163). With files of the last kind admitted TLC finds `ReuseCoherent` violated |

Lines are of `src/src/sqlite_objs_vfs.c`.

## 6. What is proved

TLAPS checks, for all constants that satisfy the named assumptions of `PageBlob`,
`MainDb`, `Journal`, `CacheReuse`, `Wal` and `AzureClient` (any number of connections,
processes, pages, versions, transactions, faults, threads, ranges and retries):

| Module | Theorem | Statement |
|---|---|---|
| `MainDbProofs` | `Invariance` | `Spec => []Inv` |
| | `TypeCorrect` | `Spec => []TypeOK` |
| | `CoherentCache` | `Spec => []CacheCoherent` |
| | `CurrentWriter` | `Spec => []WriterCurrent` |
| | `LocksMatch` | `Spec => []LeaseMatchesLock` |
| | `StableSnapshot` | `Spec => SnapshotStable` |
| `JournalProofs` | `Invariance` | `Spec => []IInv` |
| | `TypeCorrect` | `Spec => []TypeOK` |
| | `Implements` | `Spec /\ Orderly => AtomicSpec` |
| | `Durability` | `Spec /\ NoExpiry /\ NoTruncate => CommitDurable` |
| `CacheReuseProofs` | `Invariance` | `Spec => []IInv` |
| | `TypeCorrect` | `Spec => []TypeOK` |
| | `Coherence` | `Spec => []ReuseCoherent` |
| `WalProofs` | `Invariance` | `Spec => []IInv` |
| | `TypeCorrect` | `Spec => []TypeOK` |
| | `Recovery` | `NoExpiry` implies `Spec => []RecoversCommit` |
| | `Reads` | `NoExpiry` implies `Spec => []ReadsLatest` |
| `AzureClientProofs` | `Invariance` | `Spec => []IInv` |
| | `TypeCorrect` | `Spec => []TypeOK` |
| | `AllApplied` | `Spec => []OkMeansApplied` |
| | `AppliedOnce` | `Spec => []ConditionalOnce` |
| | `OwnEtag` | `Spec => []EtagOfCall` |
| | `ReleasedMutex` | `Spec => []MutexReleased` |

**MainDb.** `CacheCoherent` is not inductive: it says nothing of a connection whose ETag is old,
of a download under way or of a flush half done, and each of these turns into an
accepted cache later. `Inv` (module `MainDbInv`) is `TypeOK` and, for every connection:

- `Etags`: no ETag that it keeps is newer than the blob's, so a changed blob can
  never come back to an ETag that somebody remembers;
- `Download`: if the blob still has the ETag that a running download started
  with, the buffer holds the blob's pages for every page not in `todo`; under an
  intact lease the blob does have it;
- `Coherent`: `CacheMatches` holds not only when the ETag is accepted but whenever
  the cache is known to rest on the blob (`Based`): also while the lease is intact
  and revalidation has passed, and in a flush whose last answer is the blob's ETag;
  and then every page that the flush will not send any more is in the blob as it
  is in the cache;
- `Locks`: lease id against lock level at every point of every call;
- `Fresh` and `BlankBeyond`: a closed connection has nothing, and pages beyond the
  end of a file are blank, so growing a file agrees with growing the blob;

with `LapsedAlone`: an expired lease is renewable only while no other is active.
Each action has a lemma that
it preserves `Inv`, split by conjunct; the lemmas of `MainDbInv` on `Install`, `Forget`,
`Overtaken`, `Refresh` and the requests of the blob are shared by them.
`SnapshotStable` follows from a second invariant (`Unread`): a connection that has
read has no download running.

**Journal.** The theorems hold in every deployment, under premises that no step
changes: `NoExpiry`, the lease of a live writer does not run out; `NoTruncate`,
journal_mode is not TRUNCATE; `Orderly`, `NoTruncate` and no `pastWriters`. Section 5
says what the code does without each of them. `Reliable` allows no `"expiry"`, so
`Implements` needs no further premise for it. Neither property is inductive: a flush
that is half done is atomic because of what the journal blob holds, and a
transaction is built on the last one because of what its connection read before it
had a lease. `IInv` is `TypeOK` with

- `LockInv`, given `NoExpiry`: which requests belong to which phase; who plays back,
  writes or undoes holds the lease; a page that the flush need not write any more is
  in the page blob as it is in the cache file (`Flushes`), from which `Durability` follows;
- `Core`, given `Reliable` and `Orderly`: in a flush the journal blob is the journal
  buffer and has the earlier content of every page still to be written (`TxInv`); a
  rollback writes what recovery finds (`PlayInv`); a table entry of 0 means that
  there is nothing to recover (`TableInv`); and who has found no journal has a cache
  file that is what recovery finds, or has a page that no blob will hold again
  (`Current`, `Dead`), so that RESERVED, which compares the cache with the blob, is
  refused.

`Current` is the heart of it: a reader overlaps commits, crashes and rollbacks of
others for as long as it likes, and only this disjunction survives them all. Each
action has a lemma that it preserves `Core`; the end of a journal and a deletion that
fails share theirs (`Ends`, `FinaliseCore`), because both may leave the journal cold and
neither changes a page; most steps change one connection and no
blob, and share the lemmas on such steps. In `Implements` a `Write` is a `Begin`, the end
of a committed journal is a `Commit`, also when its answer is lost, other failures, rollbacks and crashes are `Abort`s, and
every other step, page writes and the upload of the journal among them, is a
stuttering step.

**CacheReuse.** `ReuseCoherent` speaks of a session at rest whose ETag is the blob's; a
file reaches that point through versions that others overwrite, sidecar files of
several sessions, and crashes between them. The invariant relates the file to every
version that something still names: the `.etag` and `.snapshot` files, `p->snapshot`, and
`p->etag` of a session at rest (`Refs`). A page of the blob that has not changed since such
a version is right in the file (`Agrees`), or is a hole that neither the `.state` file nor
the session will serve (`Strict`). This survives a commit of another machine, because
a new version only makes `Unchanged` smaller; it is what makes a diff correct, because
the list of ranges names exactly the other pages; and it gives `ReuseCoherent`, because
nothing has changed since the blob's own version. `IInv` is

- `Typed`: types, which variables mean something when (`Phase`), and that a page beyond the
  size of a running HEAD is newer than every version kept (`Within`), so that cutting
  the file to that size loses nothing;
- `Clean`, as long as `taint` is empty: `Agrees` for all of `Refs` (`OnDiskInv`), pages that a
  running diff has done (`PatchInv`), pages that a write transaction has not touched
  or has sent (`WriteInv`), and the length of the file (`SizeInv`);
- `BufInv`: while GETs are answered by one version after another, a page that has
  been read and is unchanged since the HEAD, or since a version that a sidecar file
  names, is right in `tempBuf`; nothing else need be (`GetInv`). So if the blob still has the ETag of the HEAD when the last answer is
  in, the buffer is the blob; if it has not, the session is not accepted, and `Junk` in the
  file is replaced by the next refresh.

`Within` must not depend on `taint`: a download or a refresh starts from any file and
empties `taint`. `Strict` leaves the `.state` file out while a lazy session has a new file
and has not written one (`Unsaved`); a crash then is what `taint` records as `"state"`. TLC
checked `IInv` with the constants of the `cache_files` run before it was proved. The
proof for the first state showed that `MaxVersions` must be at least 1, which
`BoundsAssumption` now says.

**Wal.** `NoExpiry` says that `"expiry"` is not among the faults; section 5 says what
happens otherwise. `TypeCorrect` needs no such premise. `RecoversCommit` is not
inductive: what recovery finds after the next upload depends on frames that lie in the buffer behind the committed ones, of a
transaction that failed or was rolled back. `IInv` is `Local` (`TypeOK`, and room for the
frame of a transaction that waits for its header) and, given `NoExpiry`, `Core`:

- `BufferInv`: the committed frames of the buffer are valid, and so many of the frames
  behind them as would be valid after an upload give a content that recovery may
  find (`Tail`); the numbers in old frames are smaller than the one a new frame gets, so
  none of them can continue it; the salt of the buffer is that of the header as
  soon as there is one;
- `FileInv`: the cache file is the page blob but for pages that a checkpoint is
  copying, which the log in the blob has too, so that a page write in any order changes
  nothing that recovery finds; outside the frames not copied yet it is what the
  session reads (`Pending`);
- `ReadInv`, `CkptInv`: the session reads its last commit; a checkpoint runs on a log that
  is in the blob as it is in the buffer;
- `ClaimInv`: an xClose that has given up its lease and still has dirty pages to write
  under its ETag (`Claims`) can only write pages that the log of the next session has as
  well, as long as that session has written none itself;
- `StageInv`: the blocks staged by a running upload are those of its buffer.

`Committed` is the largest n such that the first n frames are valid. That a largest one
exists is the one place where induction is needed; it is taken from the
well-foundedness of < in `WellFoundedInduction`. The facts about `Replay` (a checkpoint
followed by a replay is a replay; a frame changes its own pages only; equal frames
give equal contents) are lemmas of their own. Each action has a lemma that it
preserves `Local` and one that it preserves `Core`; an upload has one for each of the
four things it may be for.

**AzureClient.** The properties of `AzureClient` speak of calls that returned. Its invariant `IInv`
adds what a running call knows: a range that is done, or has an answer `"ok"`, has
landed (`BatchInv`); the ETags a call made are newer than the one its If-Match names
and no newer than the blob's, so a conditional request that is sent again after
it took effect is refused (`EtagInv`); and who has the mutex is in a request or a
batch. `ServedFacts` states what one answered request guarantees; the step lemmas
of the single request and of the batch both rest on it.

Only model-checked: `CallsReturn` of both modules (fairness and ENABLED are beyond
the prover).

## 7. What is not modelled

- Authentication, error wording, URI parsing, PRAGMA output, metrics, the shell,
  the stub client and the Rust bindings keep no state that blobs or locks depend
  on. Temporary files go to the default VFS.
- Of the client: delays between attempts, paged list requests, the reuse of
  connections.
- Of WAL mode: switching into and out of it, frames that a cache spill writes
  before a commit, `journal_size_limit`.
- Of `CacheReuse`: a flush that fails, xTruncate and the creation of a blob.
- Failures of the local disk and of memory allocation (those of `AzureClient`
  apart), and power loss.
- `src/sqlite-autoconf-3520000` is SQLite itself, by far the most of the lines under
  `src/`. What its pager and wal.c do with the files of this VFS is in `Journal` and
  `Wal`; parser, code generator, virtual machine, B-tree and shell are not this
  program's.

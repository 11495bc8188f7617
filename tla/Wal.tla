-------------------------------- MODULE Wal --------------------------------
(***************************************************************************)
(* The WAL file of sqlite_objs_vfs.c under SQLite's write-ahead log, in    *)
(* locking_mode=EXCLUSIVE, the only mode xShmMap leaves: a block blob that *)
(* every xSync replaces whole, in one request or block by block, from a    *)
(* memory buffer.  The main database file is what MainDb shows it to be:   *)
(* a cache file that locking brings to the blob's content and that xSync   *)
(* writes back page by page under the lease.  A step is one request, with  *)
(* the local code of the VFS and of wal.c up to the next one.              *)
(***************************************************************************)
EXTENDS Integers

CONSTANTS
    Conn,          \* connections, one per process
    Page,          \* the pages of the database
    Levels,        \* PRAGMA synchronous of the sessions: "full", "normal"
    Faulty,        \* the requests that may fail
    NoLease, Lost,
    MaxTx,         \* bound: write transactions, which are also the log's slots
    MaxFaults      \* bound: requests that fail

Fallible == {"head", "get", "put", "putLost", "page", "delete", "expiry"}

ASSUME ConnAssumption == NoLease \notin Conn /\ Lost \notin Conn /\ NoLease # Lost
ASSUME LevelsAssumption == Levels \subseteq {"full", "normal"}
ASSUME FaultAssumption == Faulty \subseteq Fallible
ASSUME BoundsAssumption == MaxTx \in Nat \ {0} /\ MaxFaults \in Nat

Slot == 1..MaxTx

\* The frames of one transaction, the last with the commit mark.  `prev' is
\* what the checksums of its frames start from: the transaction before it, or
\* the salts of the header.
Rec == [tx : Nat, prev : Nat, pages : SUBSET Page]
NoRec == [tx |-> 0, prev |-> 0, pages |-> {}]

\* The content of a WAL file: the header's salts and whether its nCkpt is
\* above zero, and the frames after it.
Log == [salt : Nat, ckpt : BOOLEAN, frames : [Slot -> Rec]]
NoLog == [salt |-> 0, ckpt |-> FALSE, frames |-> [i \in Slot |-> NoRec]]

\* A chunk of it; the first one has the header.
Block == [salt : Nat, ckpt : BOOLEAN, rec : Rec]
NoBlocks == [i \in Slot |-> [salt |-> 0, ckpt |-> FALSE, rec |-> NoRec]]

\* What wal.c keeps of it: WalIndexHdr, Wal.nCkpt and WalCkptInfo.nBackfill.
\* Frames are counted by transaction; salts that are yet to be drawn are 0.
Hdr == [aSalt : Nat, nCkpt : BOOLEAN, mxFrame : 0..MaxTx, nBackfill : 0..MaxTx]
NoHdr == [aSalt |-> 0, nCkpt |-> FALSE, mxFrame |-> 0, nBackfill |-> 0]

Content == [Page -> Nat]
Blank == [p \in Page |-> 0]

VARIABLES
    db,         \* the page blob: by page, the transaction that wrote it
    holder,     \* whose lease is active: a connection, Lost or NoLease
    walBlob,    \* the WAL blob; NoLog when there is none
    staged,     \* its uncommitted blocks
    pc,         \* what the connection does next
    goal,       \* why a checkpoint runs
    level,      \* PRAGMA synchronous
    cache,      \* the cache file of the main database
    dirty,      \* p->dirty of the main database
    todo,       \* pages that xSync has still to write
    fresh,      \* connections whose p->etag is the page blob's
    reads,      \* connections that read a page before they had the lease
    aWalData,   \* the buffer of the WAL file
    hdr,        \* the wal-index header
    txn,        \* the transaction that waits for the header's sync
    done,       \* the blocks az_block_blob_upload_parallel has staged
    latest,     \* history: the last content committed or recovered
    durable,    \* history: the last content that a sync is known to have kept
    unsynced,   \* history: contents committed since, without a sync
    doubt,      \* history: contents of commits that failed or are under way
    nTx,        \* number of write transactions; each writes its number
    faults      \* number of failed requests

blobVars == <<db, holder, walBlob, staged>>
fileVars == <<cache, dirty, todo, fresh, reads>>
walVars == <<aWalData, hdr, txn, done>>
histVars == <<latest, durable, unsynced, doubt>>
vars == <<blobVars, pc, goal, level, fileVars, walVars, histVars, nTx, faults>>

\* The calls of xSync of the WAL file, by the step of wal.c that makes them.
Uploading == {"header", "commit", "ckpt", "close"}
PC == {"idle", "access", "lock", "get", "ready", "flush", "delete",
       "unlock", "closeDb"} \cup Uploading
Goal == {"none", "passive", "truncate", "close"}

TypeOK ==
    /\ db \in Content
    /\ holder \in Conn \cup {NoLease, Lost}
    /\ walBlob \in Log
    /\ staged \in [Slot -> Block]
    /\ pc \in [Conn -> PC]
    /\ goal \in [Conn -> Goal]
    /\ level \in [Conn -> {"full", "normal"}]
    /\ cache \in [Conn -> Content]
    /\ dirty \in [Conn -> SUBSET Page]
    /\ todo \in [Conn -> SUBSET Page]
    /\ fresh \in SUBSET Conn
    /\ reads \in SUBSET Conn
    /\ aWalData \in [Conn -> Log]
    /\ hdr \in [Conn -> Hdr]
    /\ txn \in [Conn -> Rec]
    /\ done \in [Conn -> SUBSET Slot]
    /\ latest \in Content
    /\ durable \in Content
    /\ unsynced \in SUBSET Content
    /\ doubt \in SUBSET Content
    /\ nTx \in 0..MaxTx
    /\ faults \in 0..MaxFaults

Init ==
    /\ db = Blank
    /\ holder = NoLease
    /\ walBlob = NoLog
    /\ staged = NoBlocks
    /\ pc = [c \in Conn |-> "idle"]
    /\ goal = [c \in Conn |-> "none"]
    /\ level \in [Conn -> Levels]
    /\ cache = [c \in Conn |-> Blank]
    /\ dirty = [c \in Conn |-> {}]
    /\ todo = [c \in Conn |-> {}]
    /\ fresh = {}
    /\ reads = {}
    /\ aWalData = [c \in Conn |-> NoLog]
    /\ hdr = [c \in Conn |-> NoHdr]
    /\ txn = [c \in Conn |-> NoRec]
    /\ done = [c \in Conn |-> {}]
    /\ latest = Blank
    /\ durable = Blank
    /\ unsynced = {}
    /\ doubt = {}
    /\ nTx = 0
    /\ faults = 0

-----------------------------------------------------------------------------
(* The log. *)

\* walIndexRecover takes frames while their salts and checksums follow.
Valid(log, n) ==
    \A i \in 1..n : /\ log.frames[i] # NoRec
                    /\ log.frames[i].prev = IF i = 1 THEN log.salt ELSE log.frames[i - 1].tx

Newest(S) == CHOOSE i \in S : \A j \in S : j <= i

\* The last frame that ends a transaction and that recovery reaches.
Committed(log) == Newest({n \in 0..MaxTx : Valid(log, n)})

\* The pages d as they read through the first n transactions of the log.
Replay(log, n, d) ==
    [p \in Page |-> LET W == {i \in 1..n : p \in log.frames[i].pages}
                    IN  IF W = {} THEN d[p] ELSE log.frames[Newest(W)].tx]

\* What recovery makes of the two blobs.
Recoverable == Replay(walBlob, Committed(walBlob), db)

View(c) == Replay(aWalData[c], hdr[c].mxFrame, cache[c])

\* Commits that were rolled back and whose frames are still in the buffer.
Tail(log, h, d) == {Replay(log, n, d) : n \in {m \in Slot : m > h.mxFrame /\ Valid(log, m)}}

\* walFrames: the transaction goes after the last one that committed.
Framed(log, h, t) ==
    [log EXCEPT !.frames[h.mxFrame + 1] =
        [t EXCEPT !.prev = IF h.mxFrame = 0 THEN log.salt ELSE log.frames[h.mxFrame].tx]]

-----------------------------------------------------------------------------
(* Helpers. *)

Fault(kind) == kind \in Faulty /\ faults < MaxFaults /\ faults' = faults + 1

GoTo(c, next) == pc' = [pc EXCEPT ![c] = next]

Release(c) == IF holder = c THEN NoLease ELSE holder

Restarted(h) == [h EXCEPT !.nCkpt = TRUE, !.aSalt = 0, !.mxFrame = 0, !.nBackfill = 0]

\* The connection is closed, or its process is gone.
Gone(c) ==
    /\ GoTo(c, "idle")
    /\ goal' = [goal EXCEPT ![c] = "none"]
    /\ cache' = [cache EXCEPT ![c] = Blank]
    /\ dirty' = [dirty EXCEPT ![c] = {}]
    /\ todo' = [todo EXCEPT ![c] = {}]
    /\ reads' = reads \ {c}
    /\ aWalData' = [aWalData EXCEPT ![c] = NoLog]
    /\ hdr' = [hdr EXCEPT ![c] = NoHdr]
    /\ txn' = [txn EXCEPT ![c] = NoRec]
    /\ done' = [done EXCEPT ![c] = {}]

-----------------------------------------------------------------------------
(* A session opens: SHARED, the look for a WAL file, EXCLUSIVE, xOpen of    *)
(* the WAL file and recovery.                                              *)

LockShared(c) ==
    /\ pc[c] = "idle"
    /\ cache' = [cache EXCEPT ![c] = db]
    /\ fresh' = fresh \cup {c}
    /\ reads' = reads \ {c}
    /\ GoTo(c, "access")
    /\ UNCHANGED <<blobVars, goal, level, dirty, todo, walVars, histVars, nTx, faults>>

ReadsHeader(c) == reads' = IF holder = c THEN reads ELSE reads \cup {c}

\* pagerOpenWalIfPresent.  Without a WAL file, and after a request that fails,
\* page 1 is read, and says that the database is in WAL mode.
Access(c) ==
    /\ pc[c] = "access"
    /\ GoTo(c, "lock")
    /\ \/ walBlob # NoLog /\ UNCHANGED <<reads, faults>>
       \/ walBlob = NoLog /\ ReadsHeader(c) /\ UNCHANGED faults
       \/ Fault("head") /\ ReadsHeader(c)
    /\ UNCHANGED <<blobVars, goal, level, cache, dirty, todo, fresh, walVars, histVars, nTx>>

\* Mutant: revalidateAfterLease is left out of xLock.
LockKeepsCache(c) ==
    /\ pc[c] = "lock"
    /\ holder \in {c, NoLease}
    /\ holder' = c
    /\ GoTo(c, "get")
    /\ UNCHANGED <<db, walBlob, staged, goal, level, fileVars, walVars, histVars, nTx, faults>>

\* pagerExclusiveLock: SQLITE_BUSY when somebody has the lease, or when the
\* blob changed under a page that was read.  In this locking mode the pager
\* keeps SHARED, and what was read, for the next attempt.
Lock(c) ==
    /\ pc[c] = "lock"
    /\ \/ /\ holder = c
          /\ GoTo(c, "get")
          /\ UNCHANGED <<holder, cache, fresh, reads>>
       \/ /\ holder = NoLease
          /\ c \in fresh \/ c \notin reads
          /\ holder' = c
          /\ cache' = [cache EXCEPT ![c] = db]
          /\ fresh' = fresh \cup {c}
          /\ reads' = reads \ {c}
          /\ GoTo(c, "get")
       \/ /\ \/ holder \notin {c, NoLease}
             \/ holder = NoLease /\ c \notin fresh /\ c \in reads
          /\ GoTo(c, "access")
          /\ UNCHANGED <<holder, cache, fresh, reads>>
    /\ UNCHANGED <<db, walBlob, staged, goal, level, dirty, todo, walVars, histVars, nTx, faults>>

\* xOpen of the WAL file downloads it, and fails when it cannot.
Get(c) ==
    /\ pc[c] = "get"
    /\ \/ /\ aWalData' = [aWalData EXCEPT ![c] = walBlob]
          /\ hdr' = [hdr EXCEPT ![c] =
                       [aSalt |-> walBlob.salt, nCkpt |-> walBlob.ckpt,
                        mxFrame |-> Committed(walBlob), nBackfill |-> 0]]
          /\ latest' = Recoverable
          /\ durable' = latest'
          /\ unsynced' = {}
          /\ doubt' = {}
          /\ GoTo(c, "ready")
          /\ UNCHANGED faults
       \/ /\ Fault("get")
          /\ GoTo(c, "access")
          /\ UNCHANGED <<aWalData, hdr, histVars>>
    /\ UNCHANGED <<blobVars, goal, level, fileVars, txn, done, nTx>>

-----------------------------------------------------------------------------
(* A write transaction. *)

\* walFrames writes t to the buffer `log'; with synchronous=NORMAL the
\* transaction has committed then, with FULL an xSync follows.  The history
\* before it is d, u, q.
WalFrames(c, log, h, t, d, u, q) ==
    LET new == Framed(log, h, t)
        content == Replay(new, h.mxFrame + 1, cache[c])
    IN  /\ aWalData' = [aWalData EXCEPT ![c] = new]
        /\ durable' = d
        /\ \/ /\ level[c] = "full"
              /\ hdr' = [hdr EXCEPT ![c] = h]
              /\ doubt' = q \cup {content}
              /\ unsynced' = u
              /\ GoTo(c, "commit")
              /\ UNCHANGED latest
           \/ /\ level[c] = "normal"
              /\ hdr' = [hdr EXCEPT ![c] = [h EXCEPT !.mxFrame = @ + 1]]
              /\ unsynced' = u \cup {content}
              /\ doubt' = q
              /\ latest' = content
              /\ GoTo(c, "ready")

\* walRestartLog starts the log again when all of it is in the database file;
\* the header is synced before frames follow.
Begin(c, S) ==
    LET h == IF hdr[c].nBackfill = hdr[c].mxFrame /\ hdr[c].mxFrame > 0
             THEN Restarted(hdr[c]) ELSE hdr[c]
        t == [tx |-> nTx + 1, prev |-> 0, pages |-> S]
        salt == IF ~h.nCkpt \/ h.aSalt = 0 THEN nTx + 1 ELSE h.aSalt
    IN  /\ pc[c] = "ready"
        /\ S # {}
        /\ nTx < MaxTx /\ hdr[c].mxFrame < MaxTx
        /\ nTx' = nTx + 1
        /\ \/ /\ h.mxFrame = 0
              /\ txn' = [txn EXCEPT ![c] = t]
              /\ hdr' = [hdr EXCEPT ![c] = [h EXCEPT !.aSalt = salt]]
              /\ aWalData' = [aWalData EXCEPT ![c].salt = salt, ![c].ckpt = h.nCkpt]
              /\ GoTo(c, "header")
              /\ UNCHANGED histVars
           \/ /\ h.mxFrame > 0
              /\ WalFrames(c, aWalData[c], h, t, durable, unsynced, doubt)
              /\ UNCHANGED txn
        /\ UNCHANGED <<blobVars, goal, level, fileVars, done, faults>>

-----------------------------------------------------------------------------
(* xSync of the WAL file: one Put Blob, or Put Block for each chunk and Put *)
(* Block List; xClose does the same.                                       *)

Chunk(log, i) ==
    [salt |-> IF i = 1 THEN log.salt ELSE 0, ckpt |-> i = 1 /\ log.ckpt, rec |-> log.frames[i]]

Blocks(log) == {1} \cup {i \in Slot : log.frames[i] # NoRec}

\* What Put Block List makes of the blocks staged last.
Assembled(log) ==
    [salt |-> staged[1].salt, ckpt |-> staged[1].ckpt,
     frames |-> [i \in Slot |-> IF i \in Blocks(log) THEN staged[i].rec ELSE NoRec]]

\* What wal.c does after a sync that succeeded.
Synced(c) ==
    LET log == aWalData[c]
        h == hdr[c]
        tail == Tail(log, h, cache[c])
    IN  \/ /\ pc[c] = "header"
           /\ WalFrames(c, log, h, txn[c], View(c), {}, tail)
           /\ UNCHANGED <<goal, cache, dirty, todo>>
        \/ /\ pc[c] = "commit"
           /\ hdr' = [hdr EXCEPT ![c].mxFrame = @ + 1]
           /\ latest' = Replay(log, h.mxFrame + 1, cache[c])
           /\ durable' = latest'
           /\ unsynced' = {}
           /\ doubt' = {}
           /\ GoTo(c, "ready")
           /\ UNCHANGED <<goal, cache, dirty, todo, aWalData>>
        \/ /\ pc[c] = "ckpt"
           /\ cache' = [cache EXCEPT ![c] = View(c)]
           /\ dirty' = [dirty EXCEPT ![c] = @ \cup
                          UNION {log.frames[i].pages : i \in h.nBackfill + 1..h.mxFrame}]
           /\ todo' = [todo EXCEPT ![c] = dirty'[c]]
           /\ durable' = View(c)
           /\ unsynced' = {}
           /\ doubt' = tail
           /\ GoTo(c, "flush")
           /\ UNCHANGED <<goal, aWalData, hdr, latest>>
        \/ /\ pc[c] = "close"
           /\ GoTo(c, IF h.nBackfill = h.mxFrame THEN "delete" ELSE "unlock")
           /\ durable' = View(c)
           /\ unsynced' = {}
           /\ doubt' = tail
           /\ UNCHANGED <<goal, cache, dirty, todo, aWalData, hdr, latest>>

\* The transaction is rolled back, the checkpoint given up; xClose goes on.
SyncFailed(c) ==
    \/ /\ pc[c] \in {"header", "commit"}
       /\ GoTo(c, "ready")
       /\ UNCHANGED goal
    \/ /\ pc[c] = "ckpt" /\ goal[c] # "close"
       /\ GoTo(c, "ready")
       /\ goal' = [goal EXCEPT ![c] = "none"]
    \/ /\ pc[c] = "ckpt" /\ goal[c] = "close"
       /\ GoTo(c, "close")
       /\ UNCHANGED goal
    \/ /\ pc[c] = "close"
       /\ GoTo(c, IF hdr[c].nBackfill = hdr[c].mxFrame THEN "delete" ELSE "unlock")
       /\ UNCHANGED goal

\* Put Blob discards the blocks that were staged.
PutBlob(c) ==
    /\ walBlob' = aWalData[c]
    /\ staged' = NoBlocks

\* Mutant: the blocks are committed although a chunk was not uploaded.
PutSomeBlocks(c) ==
    /\ done[c] # {}
    /\ walBlob' = Assembled(aWalData[c])
    /\ staged' = NoBlocks

PutBlockList(c) ==
    /\ done[c] = Blocks(aWalData[c])
    /\ walBlob' = Assembled(aWalData[c])
    /\ staged' = NoBlocks

Upload(c) ==
    /\ pc[c] \in Uploading
    /\ \/ done[c] = {} /\ PutBlob(c)
       \/ PutBlockList(c)
    /\ Synced(c)
    /\ done' = [done EXCEPT ![c] = {}]
    /\ txn' = [txn EXCEPT ![c] = NoRec]
    /\ UNCHANGED <<db, holder, level, fresh, reads, nTx, faults>>

\* A chunk; the parallel path is for buffers of more than one.
PutBlock(c, i) ==
    /\ pc[c] \in Uploading
    /\ Blocks(aWalData[c]) # {1}
    /\ i \in Blocks(aWalData[c]) \ done[c]
    /\ staged' = [staged EXCEPT ![i] = Chunk(aWalData[c], i)]
    /\ done' = [done EXCEPT ![c] = @ \cup {i}]
    /\ UNCHANGED <<db, holder, walBlob, pc, goal, level, fileVars, aWalData, hdr, txn, histVars, nTx, faults>>

\* SQLITE_IOERR_FSYNC: a request failed, or its answer was lost.
UploadFail(c) ==
    /\ pc[c] \in Uploading
    /\ \/ Fault("put") /\ UNCHANGED <<walBlob, staged>>
       \/ Fault("putLost") /\ ((done[c] = {} /\ PutBlob(c)) \/ PutBlockList(c))
    /\ SyncFailed(c)
    /\ done' = [done EXCEPT ![c] = {}]
    /\ txn' = [txn EXCEPT ![c] = NoRec]
    /\ UNCHANGED <<db, holder, level, fileVars, aWalData, hdr, histVars, nTx>>

-----------------------------------------------------------------------------
(* Checkpoints, xTruncate of the WAL file, and the end of a session.       *)

\* walCheckpoint; TRUNCATE goes on to the file when nothing is left to copy.
Checkpoint(c, g) ==
    /\ pc[c] = "ready"
    /\ g \in {"passive", "truncate"}
    /\ \/ hdr[c].nBackfill < hdr[c].mxFrame /\ GoTo(c, "ckpt")
       \/ hdr[c].nBackfill = hdr[c].mxFrame /\ g = "truncate" /\ GoTo(c, "delete")
    /\ goal' = [goal EXCEPT ![c] = g]
    /\ UNCHANGED <<blobVars, level, fileVars, walVars, histVars, nTx, faults>>

\* One page of xSync of the database, which needs the lease.
PutPage(c, p) ==
    /\ pc[c] = "flush"
    /\ holder = c
    /\ p \in todo[c]
    /\ db' = [db EXCEPT ![p] = cache[c][p]]
    /\ todo' = [todo EXCEPT ![c] = @ \ {p}]
    /\ fresh' = {}
    /\ UNCHANGED <<holder, walBlob, staged, pc, goal, level, cache, dirty, reads, walVars, histVars, nTx, faults>>

PutPageFail(c) ==
    /\ pc[c] = "flush"
    /\ \/ Fault("page")
       \/ holder # c /\ todo[c] # {} /\ UNCHANGED faults
    /\ todo' = [todo EXCEPT ![c] = {}]
    /\ \/ goal[c] = "close" /\ GoTo(c, "close") /\ UNCHANGED goal
       \/ goal[c] # "close" /\ GoTo(c, "ready") /\ goal' = [goal EXCEPT ![c] = "none"]
    /\ UNCHANGED <<blobVars, level, cache, dirty, fresh, reads, walVars, histVars, nTx>>

\* Mutant: nBackfill runs one past the last frame that was copied.
FlushedPastEnd(c) ==
    /\ pc[c] = "flush"
    /\ todo[c] = {}
    /\ dirty' = [dirty EXCEPT ![c] = {}]
    /\ fresh' \in {fresh, fresh \cup {c}}
    /\ hdr' = [hdr EXCEPT ![c].nBackfill = hdr[c].mxFrame + 1]
    /\ \/ goal[c] = "passive" /\ GoTo(c, "ready") /\ goal' = [goal EXCEPT ![c] = "none"]
       \/ goal[c] = "truncate" /\ GoTo(c, "delete") /\ UNCHANGED goal
       \/ goal[c] = "close" /\ GoTo(c, "close") /\ UNCHANGED goal
    /\ UNCHANGED <<blobVars, level, cache, todo, reads, aWalData, txn, done, histVars, nTx, faults>>

\* The etag kept is that of the answer collected last, not the blob's last.
Flushed(c) ==
    /\ pc[c] = "flush"
    /\ todo[c] = {}
    /\ dirty' = [dirty EXCEPT ![c] = {}]
    /\ fresh' \in {fresh, fresh \cup {c}}
    /\ hdr' = [hdr EXCEPT ![c].nBackfill = hdr[c].mxFrame]
    /\ \/ goal[c] = "passive" /\ GoTo(c, "ready") /\ goal' = [goal EXCEPT ![c] = "none"]
       \/ goal[c] = "truncate" /\ GoTo(c, "delete") /\ UNCHANGED goal
       \/ goal[c] = "close" /\ GoTo(c, "close") /\ UNCHANGED goal
    /\ UNCHANGED <<blobVars, level, cache, todo, reads, aWalData, txn, done, histVars, nTx, faults>>

\* sqlite3WalClose, and the xClose of a WAL file that holds data.
Close(c) ==
    /\ pc[c] = "ready"
    /\ goal' = [goal EXCEPT ![c] = "close"]
    /\ GoTo(c, IF hdr[c].nBackfill < hdr[c].mxFrame THEN "ckpt"
               ELSE IF aWalData[c] = NoLog THEN "delete" ELSE "close")
    /\ UNCHANGED <<blobVars, level, fileVars, walVars, histVars, nTx, faults>>

\* xTruncate to nothing, and xDelete: neither caller sees that it failed.
Delete(c) ==
    /\ pc[c] = "delete"
    /\ \/ walBlob' = NoLog /\ UNCHANGED faults
       \/ Fault("delete") /\ UNCHANGED walBlob
    /\ \/ /\ goal[c] = "truncate"
          /\ aWalData' = [aWalData EXCEPT ![c] = NoLog]
          /\ hdr' = [hdr EXCEPT ![c] = Restarted(@)]
          /\ goal' = [goal EXCEPT ![c] = "none"]
          /\ GoTo(c, "ready")
       \/ /\ goal[c] = "close"
          /\ GoTo(c, "unlock")
          /\ UNCHANGED <<goal, aWalData, hdr>>
    /\ UNCHANGED <<db, holder, staged, level, fileVars, txn, done, histVars, nTx>>

\* xUnlock of the main database, and its xClose when nothing is dirty.
Unlock(c) ==
    /\ pc[c] = "unlock"
    /\ holder' = Release(c)
    /\ \/ dirty[c] = {} /\ Gone(c) /\ fresh' = fresh \ {c}
       \/ /\ dirty[c] # {} /\ GoTo(c, "closeDb")
          /\ UNCHANGED <<goal, fileVars, walVars>>
    /\ UNCHANGED <<db, walBlob, staged, level, histVars, nTx, faults>>

\* xClose flushes what a checkpoint left dirty, without a lease and with
\* If-Match: the first range that lands changes the ETag for the others.
CloseDb(c) ==
    /\ pc[c] = "closeDb"
    /\ \/ /\ c \in fresh /\ holder = NoLease
          /\ \E P \in SUBSET dirty[c] :
               /\ P # {}
               /\ db' = [p \in Page |-> IF p \in P THEN cache[c][p] ELSE db[p]]
          /\ fresh' = {}
          /\ UNCHANGED faults
       \/ /\ \/ (c \notin fresh \/ holder # NoLease) /\ UNCHANGED faults
             \/ Fault("page")
          /\ fresh' = fresh \ {c}
          /\ UNCHANGED db
    /\ Gone(c)
    /\ UNCHANGED <<holder, walBlob, staged, level, histVars, nTx>>

\* The application closes a connection that has no WAL file open.
Quit(c) ==
    /\ pc[c] = "access"
    /\ holder' = Release(c)
    /\ Gone(c)
    /\ fresh' = fresh \ {c}
    /\ UNCHANGED <<db, walBlob, staged, level, histVars, nTx, faults>>

-----------------------------------------------------------------------------
(* A process dies, and its lease runs on.                                  *)

Crash(c) ==
    /\ pc[c] # "idle"
    /\ Gone(c)
    /\ fresh' = fresh \ {c}
    /\ holder' = IF holder = c THEN Lost ELSE holder
    /\ UNCHANGED <<db, walBlob, staged, level, histVars, nTx, faults>>

\* Only a write of the database renews a lease.
Expire ==
    /\ \/ holder = Lost /\ UNCHANGED faults
       \/ holder \in Conn /\ Fault("expiry")
    /\ holder' = NoLease
    /\ UNCHANGED <<db, walBlob, staged, pc, goal, level, fileVars, walVars, histVars, nTx>>

Next ==
    \/ Expire
    \/ \E c \in Conn :
         \/ LockShared(c) \/ Access(c) \/ Lock(c) \/ Get(c)
         \/ \E S \in SUBSET Page : Begin(c, S)
         \/ Upload(c) \/ UploadFail(c)
         \/ \E i \in Slot : PutBlock(c, i)
         \/ \E g \in Goal : Checkpoint(c, g)
         \/ \E p \in Page : PutPage(c, p)
         \/ PutPageFail(c) \/ Flushed(c)
         \/ Close(c) \/ Delete(c) \/ Unlock(c) \/ CloseDb(c) \/ Quit(c)
         \/ Crash(c)

Spec == Init /\ [][Next]_vars

-----------------------------------------------------------------------------
(* Properties. *)

(***************************************************************************)
(* Whatever process dies, and whichever requests of xSync, xTruncate and   *)
(* xDelete fail, recovery finds the content of the last synced commit, of  *)
(* a later commit that synchronous=NORMAL did not sync, or of a commit     *)
(* that reported failure and whose frames were not overwritten yet: never  *)
(* part of a transaction, and never an earlier content.                    *)
(***************************************************************************)
RecoversCommit == Recoverable \in {durable} \cup unsynced \cup doubt

(***************************************************************************)
(* A session reads, through its buffer and its cache file, the content     *)
(* that it committed or recovered last, whatever was rolled back,          *)
(* checkpointed, restarted or truncated since.                             *)
(***************************************************************************)
ReadsLatest == \A c \in Conn : pc[c] = "ready" => View(c) = latest
=============================================================================

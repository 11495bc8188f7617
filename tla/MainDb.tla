------------------------------- MODULE MainDb -------------------------------
(***************************************************************************)
(* The MAIN_DB file of sqlite_objs_vfs.c: several connections, each with a *)
(* local cache file, share one page blob.  SHARED takes no lease and       *)
(* revalidates the cache by ETag; RESERVED and above hold the blob's       *)
(* lease.  A step is one request to the service together with the local    *)
(* code up to the next request, so handlers of different connections       *)
(* interleave between requests.  prefetch=all, no persistent cache.        *)
(***************************************************************************)
EXTENDS PageBlob

CONSTANTS
    Chunks,        \* the page sets that a parallel download asks for
    MaxPut,        \* pages in the largest page write (4 MiB in the code)
    InitialSizes,  \* pages the blob may have at the start, or NoBlob
    MaxWrites,     \* bound: calls of xWrite
    MaxFaults      \* bound: requests that fail or whose answer is lost

NoBlob == -1

ASSUME ChunksAssumption == UNION Chunks = Page
ASSUME MaxPutAssumption == MaxPut \in Nat \ {0}
ASSUME BoundsAssumption ==
    /\ InitialSizes \subseteq 0..MaxPages \cup {NoBlob}
    /\ MaxWrites \in Nat
    /\ MaxFaults \in Nat

NONE == 0
SHARED == 1
RESERVED == 2
EXCLUSIVE == 4

VARIABLES
    pc,        \* "idle" between calls, else the request the call makes next
    eLock,     \* p->eLock
    leased,    \* connections with a non-empty p->leaseId
    reads,     \* connections with p->readsSinceSharedLock > 0
    etag,      \* p->etag
    cache,     \* the cache file, by page
    nData,     \* p->nData, in pages
    synced,    \* p->lastSyncedSize, in pages
    dirty,     \* p->dirty
    todo,      \* pages the running download or flush has still to move
    buf,       \* tempBuf of the running download
    want,      \* the size a download was started with
    ret,       \* aerr.etag of the running flush
    req,       \* the level that the running xLock was asked for
    err,       \* connections whose pager got an I/O error in this transaction
    taint,     \* history: why a connection's etag may not describe its cache
    nWrites,   \* number of xWrite calls; each writes its number to the page
    faults     \* number of failed requests

lockVars == <<eLock, leased, reads>>
cacheVars == <<etag, cache, nData, synced, dirty>>
xferVars == <<todo, buf, want, ret, req>>
envVars == <<err, nWrites, faults>>
vars == <<blobVars, pc, lockVars, cacheVars, xferVars, envVars, taint>>

Getting == {"getOpen", "getShared", "getLease"}
Flushing == {"resize", "put"}
PC == {"closed", "openHead", "openCreate", "idle", "revalidate", "giveUp"}
          \cup Getting \cup Flushing
Opened(c) == pc[c] \notin {"closed", "openHead", "openCreate"}

\* The four ways a connection's bookkeeping can come apart from the blob.
Reason == {"refresh", "renew", "truncate", "create"}

LockTypeOK ==
    /\ eLock \in [Conn -> {NONE, SHARED, RESERVED, EXCLUSIVE}]
    /\ leased \subseteq Conn
    /\ reads \subseteq Conn

CacheTypeOK ==
    /\ etag \in [Conn -> Nat]
    /\ cache \in [Conn -> [Page -> Int]]
    /\ nData \in [Conn -> 0..MaxPages]
    /\ synced \in [Conn -> 0..MaxPages]
    /\ dirty \in [Conn -> SUBSET Page]

XferTypeOK ==
    /\ todo \in [Conn -> SUBSET Page]
    /\ buf \in [Conn -> [Page -> Int]]
    /\ want \in [Conn -> 0..MaxPages]
    /\ ret \in [Conn -> Nat]
    /\ req \in [Conn -> {NONE, RESERVED, EXCLUSIVE}]

TypeOK ==
    /\ BlobTypeOK
    /\ pc \in [Conn -> PC]
    /\ LockTypeOK
    /\ CacheTypeOK
    /\ XferTypeOK
    /\ err \subseteq Conn /\ nWrites \in Nat /\ faults \in Nat
    /\ taint \in [Conn -> SUBSET Reason]

Init ==
    /\ \E n \in InitialSizes :
         \/ n = NoBlob /\ bEtag = NoEtag /\ bSize = 0
         \/ n # NoBlob /\ bEtag = 1 /\ bSize = n
    /\ bData = BlankPages
    /\ holder = NoLease
    /\ lapsed = NoLease
    /\ pc = [c \in Conn |-> "closed"]
    /\ eLock = [c \in Conn |-> NONE]
    /\ leased = {}
    /\ reads = {}
    /\ etag = [c \in Conn |-> NoEtag]
    /\ cache = [c \in Conn |-> BlankPages]
    /\ nData = [c \in Conn |-> 0]
    /\ synced = [c \in Conn |-> 0]
    /\ dirty = [c \in Conn |-> {}]
    /\ todo = [c \in Conn |-> {}]
    /\ buf = [c \in Conn |-> BlankPages]
    /\ want = [c \in Conn |-> 0]
    /\ ret = [c \in Conn |-> NoEtag]
    /\ req = [c \in Conn |-> NONE]
    /\ err = {}
    /\ taint = [c \in Conn |-> {}]
    /\ nWrites = 0
    /\ faults = 0

-----------------------------------------------------------------------------
(* Helpers. *)

Fault == faults < MaxFaults /\ faults' = faults + 1

GoTo(c, next) == pc' = [pc EXCEPT ![c] = next]

\* The locals of the running call are gone when it returns.
EndXfer(c) ==
    /\ todo' = [todo EXCEPT ![c] = {}]
    /\ buf' = [buf EXCEPT ![c] = BlankPages]
    /\ want' = [want EXCEPT ![c] = 0]
    /\ ret' = [ret EXCEPT ![c] = NoEtag]
    /\ req' = [req EXCEPT ![c] = NONE]

\* The pager of c gets an I/O error.
IOError(c) == err' = err \cup {c}

\* History: c changes the blob, and connections without an ETag miss it.
Overtaken(c, own) ==
    taint' = [d \in Conn |-> taint[d] \cup
                IF d = c THEN own
                ELSE IF Opened(d) /\ etag[d] = NoEtag THEN {"create"} ELSE {}]

\* xClose frees everything the connection had; a crash loses it.
Forget(c) ==
    /\ GoTo(c, "closed")
    /\ eLock' = [eLock EXCEPT ![c] = NONE]
    /\ leased' = leased \ {c}
    /\ reads' = reads \ {c}
    /\ etag' = [etag EXCEPT ![c] = NoEtag]
    /\ cache' = [cache EXCEPT ![c] = BlankPages]
    /\ nData' = [nData EXCEPT ![c] = 0]
    /\ synced' = [synced EXCEPT ![c] = 0]
    /\ dirty' = [dirty EXCEPT ![c] = {}]
    /\ EndXfer(c)
    /\ err' = err \ {c}
    /\ UNCHANGED nWrites

\* The cache file takes the given content, all of it clean.
Install(c, content, size) ==
    /\ cache' = [cache EXCEPT ![c] = content]
    /\ nData' = [nData EXCEPT ![c] = size]
    /\ synced' = [synced EXCEPT ![c] = size]
    /\ dirty' = [dirty EXCEPT ![c] = {}]
    /\ taint' = [taint EXCEPT ![c] = {}]

\* A download of the whole blob begins: the HEAD gave size and ETag.
StartGet(c, next) ==
    /\ GoTo(c, next)
    /\ todo' = [todo EXCEPT ![c] = 1..bSize]
    /\ buf' = [buf EXCEPT ![c] = BlankPages]
    /\ want' = [want EXCEPT ![c] = bSize]
    /\ UNCHANGED <<cache, nData, synced, dirty, taint, ret, req>>

-----------------------------------------------------------------------------
(* xOpen. *)

OpenExists(c) ==
    /\ pc[c] = "closed"
    /\ GoTo(c, IF Exists THEN "openHead" ELSE "openCreate")
    /\ taint' = [taint EXCEPT ![c] = {}]
    /\ UNCHANGED <<blobVars, lockVars, cacheVars, xferVars, envVars>>

OpenHead(c) ==
    /\ pc[c] = "openHead"
    /\ etag' = [etag EXCEPT ![c] = bEtag]
    /\ \/ bSize > 0 /\ StartGet(c, "getOpen")
       \/ /\ bSize = 0
          /\ Install(c, BlankPages, 0)
          /\ GoTo(c, "idle")
          /\ EndXfer(c)
    /\ UNCHANGED <<blobVars, lockVars, envVars>>

\* The ETag of the blob just created is not read: p->etag stays empty.
OpenCreate(c) ==
    /\ pc[c] = "openCreate"
    /\ PageBlobCreate
    /\ Overtaken(c, {})
    /\ GoTo(c, "idle")
    /\ UNCHANGED <<lockVars, cacheVars, xferVars, envVars>>

OpenFail(c) ==
    /\ pc[c] \in {"openHead", "openCreate"}
    /\ \/ /\ pc[c] = "openCreate" /\ holder # NoLease
          /\ UNCHANGED <<blobVars, faults, taint>>
       \/ Fault /\ UNCHANGED <<blobVars, taint>>
       \/ pc[c] = "openCreate" /\ Fault /\ PageBlobCreate /\ Overtaken(c, {})
    /\ GoTo(c, "closed")
    /\ UNCHANGED <<lockVars, cacheVars, xferVars, err, nWrites>>

-----------------------------------------------------------------------------
(* Download of the whole blob, in chunks that are answered in any order.   *)

\* A range that ends beyond the blob is answered in part, and the rest of
\* the buffer keeps what malloc left there.
Fetch(c) ==
    /\ pc[c] \in Getting
    /\ \E ch \in Chunks :
         /\ \E p \in ch \cap todo[c] : p <= bSize
         /\ buf' = [buf EXCEPT ![c] =
                      [p \in Page |-> IF p \notin ch \cap todo[c] THEN buf[c][p]
                                      ELSE IF p <= bSize THEN bData[p] ELSE Junk]]
         /\ todo' = [todo EXCEPT ![c] = @ \ ch]
    /\ UNCHANGED <<blobVars, pc, lockVars, cacheVars, want, ret, req, envVars, taint>>

\* A range wholly beyond the end of the blob is refused.
RangeRefusedIgnored(c) == FALSE
RangeRefused(c) ==
    \E ch \in Chunks : ch \cap todo[c] # {} /\ \A p \in ch \cap todo[c] : p > bSize

FetchFail(c) ==
    /\ pc[c] \in Getting
    /\ todo[c] # {}
    /\ \/ RangeRefused(c) /\ UNCHANGED faults
       \/ Fault
    /\ \/ /\ pc[c] = "getOpen"
          /\ Forget(c)
          /\ UNCHANGED taint
       \/ /\ pc[c] # "getOpen"
          /\ GoTo(c, IF pc[c] = "getShared" THEN "idle" ELSE "giveUp")
          /\ taint' = [taint EXCEPT ![c] = @ \cup {"refresh"}]
          /\ EndXfer(c)
          /\ UNCHANGED <<lockVars, cacheVars, err, nWrites>>
    /\ UNCHANGED blobVars

FetchDone(c) ==
    /\ pc[c] \in Getting
    /\ todo[c] = {}
    /\ Install(c, buf[c], want[c])
    /\ eLock' = [eLock EXCEPT ![c] = IF pc[c] = "getOpen" THEN NONE
                                     ELSE IF pc[c] = "getShared" THEN SHARED ELSE req[c]]
    /\ GoTo(c, "idle")
    /\ EndXfer(c)
    /\ UNCHANGED <<blobVars, leased, reads, etag, envVars>>

-----------------------------------------------------------------------------
(* xLock and xUnlock. *)

\* refreshMainDbCache: p->etag takes the new value before the download.
Refresh(c, next, level) ==
    /\ etag' = [etag EXCEPT ![c] = bEtag]
    /\ \/ bSize > 0 /\ StartGet(c, next) /\ UNCHANGED eLock
       \/ /\ bSize = 0
          /\ Install(c, BlankPages, 0)
          /\ GoTo(c, "idle")
          /\ eLock' = [eLock EXCEPT ![c] = level]
          /\ EndXfer(c)

\* p->etag is empty, or the same as the blob's.
EtagValid(c) == etag[c] \in {NoEtag, bEtag}

LockShared(c) ==
    /\ pc[c] = "idle"
    /\ eLock[c] = NONE
    /\ reads' = reads \ {c}
    /\ \/ /\ EtagValid(c)
          /\ eLock' = [eLock EXCEPT ![c] = SHARED]
          /\ UNCHANGED <<pc, cacheVars, xferVars, taint>>
       \/ /\ ~EtagValid(c)
          /\ Refresh(c, "getShared", SHARED)
    /\ UNCHANGED <<blobVars, leased, envVars>>

\* A connection that holds a lease raises its level without a request.
LockHeld(c, level) ==
    /\ pc[c] = "idle"
    /\ SHARED <= eLock[c] /\ eLock[c] < level
    /\ c \in leased
    /\ eLock' = [eLock EXCEPT ![c] = level]
    /\ UNCHANGED <<blobVars, pc, leased, reads, cacheVars, xferVars, envVars, taint>>

\* The mutated form grants the level without revalidating.
LockAcquireUnchecked(c, level) ==
    /\ pc[c] = "idle"
    /\ SHARED <= eLock[c] /\ eLock[c] < level
    /\ c \notin leased
    /\ LeaseAcquire(c)
    /\ leased' = leased \cup {c}
    /\ eLock' = [eLock EXCEPT ![c] = level]
    /\ UNCHANGED <<pc, reads, cacheVars, xferVars, envVars, taint>>

\* Another's lease makes lease_acquire fail: SQLITE_BUSY, and nothing changes.
\* An answer without the right ETag is followed by a HEAD.
LockAcquire(c, level) ==
    /\ pc[c] = "idle"
    /\ SHARED <= eLock[c] /\ eLock[c] < level
    /\ c \notin leased
    /\ LeaseAcquire(c)
    /\ leased' = leased \cup {c}
    /\ \/ /\ EtagValid(c)
          /\ eLock' = [eLock EXCEPT ![c] = level]
          /\ UNCHANGED <<pc, req>>
       \/ /\ etag[c] # NoEtag
          /\ GoTo(c, "revalidate")
          /\ req' = [req EXCEPT ![c] = level]
          /\ UNCHANGED eLock
    /\ UNCHANGED <<reads, cacheVars, todo, buf, want, ret, envVars, taint>>

\* The service grants the lease and the answer is lost.
LockLost(c) ==
    /\ pc[c] = "idle"
    /\ eLock[c] = SHARED
    /\ c \notin leased
    /\ Exists /\ holder = NoLease
    /\ Leased(Lost, NoLease)
    /\ Fault
    /\ UNCHANGED <<pc, lockVars, cacheVars, xferVars, err, nWrites, taint>>

\* p->readsSinceSharedLock is 0.
ReadsUncounted(c) == TRUE
NothingRead(c) == c \notin reads

\* revalidateAfterLease: only a transaction that has read nothing may move
\* to the blob's current content; any other gives the lease back.
Revalidate(c) ==
    /\ pc[c] = "revalidate"
    /\ \/ /\ EtagValid(c)
          /\ GoTo(c, "idle")
          /\ eLock' = [eLock EXCEPT ![c] = req[c]]
          /\ EndXfer(c)
          /\ UNCHANGED <<cacheVars, taint>>
       \/ /\ ~EtagValid(c) /\ NothingRead(c)
          /\ Refresh(c, "getLease", req[c])
       \/ /\ ~EtagValid(c) /\ ~NothingRead(c)
          /\ GoTo(c, "giveUp")
          /\ EndXfer(c)
          /\ UNCHANGED <<eLock, cacheVars, taint>>
    /\ UNCHANGED <<blobVars, leased, reads, envVars>>

\* The mutated form grants the level when the HEAD fails.
RevalidateFailGranted(c) ==
    /\ pc[c] = "revalidate"
    /\ Fault
    /\ GoTo(c, "idle")
    /\ eLock' = [eLock EXCEPT ![c] = req[c]]
    /\ EndXfer(c)
    /\ UNCHANGED <<blobVars, leased, reads, cacheVars, err, nWrites, taint>>

RevalidateFail(c) ==
    /\ pc[c] = "revalidate"
    /\ Fault
    /\ GoTo(c, "giveUp")
    /\ EndXfer(c)
    /\ UNCHANGED <<blobVars, lockVars, cacheVars, err, nWrites, taint>>

\* lease_release, whose failure is ignored: the id is dropped all the same.
DropLeaseKeepsId(c) == LeaseRelease(c) /\ UNCHANGED <<faults, leased>>
DropLeaseIfReleased(c) ==
    \/ LeaseRelease(c) /\ leased' = leased \ {c} /\ UNCHANGED faults
    \/ c \in leased /\ LeaseForget(c) /\ Fault /\ UNCHANGED leased
DropLease(c) ==
    /\ \/ LeaseRelease(c) /\ UNCHANGED faults
       \/ c \in leased /\ LeaseForget(c) /\ Fault
    /\ leased' = leased \ {c}

GiveUp(c) ==
    /\ pc[c] = "giveUp"
    /\ DropLease(c)
    /\ GoTo(c, "idle")
    /\ UNCHANGED <<eLock, reads, cacheVars, xferVars, err, nWrites, taint>>

\* The pager drops its write lock over unsynced pages only after an error,
\* and then drops every lock.
Unlock(c, level) ==
    /\ pc[c] = "idle"
    /\ eLock[c] > level
    /\ dirty[c] = {} \/ c \in err
    /\ c \in err => level = NONE
    /\ DropLease(c)
    /\ eLock' = [eLock EXCEPT ![c] = level]
    /\ err' = err \ {c}
    /\ UNCHANGED <<pc, reads, cacheVars, xferVars, nWrites, taint>>

-----------------------------------------------------------------------------
(* xRead, xWrite, xTruncate, as the pager calls them. *)

Read(c) ==
    /\ pc[c] = "idle"
    /\ eLock[c] >= SHARED
    /\ reads' = reads \cup {c}
    /\ UNCHANGED <<blobVars, pc, eLock, leased, cacheVars, xferVars, envVars, taint>>

\* leaseRenewIfNeeded: no lease, a lease young enough, or one renewed.
LeaseKept(c) ==
    \/ UNCHANGED blobVars
    \/ c \in leased /\ LeaseRenew(c)

LeaseNotKept(c) ==
    /\ c \in leased
    /\ \/ c \notin {holder, lapsed} /\ UNCHANGED faults
       \/ Fault
    /\ UNCHANGED blobVars

\* The end of the file after a write of page p.
Appended(n, p) == n + p
Extended(n, p) == IF p > n THEN p ELSE n

\* The page is in the cache file before the lease is looked at; when the
\* renewal fails the page is not marked dirty.
Write(c, p) ==
    /\ pc[c] = "idle"
    /\ eLock[c] = EXCLUSIVE
    /\ p <= nData[c] + 1
    /\ nWrites < MaxWrites
    /\ nWrites' = nWrites + 1
    /\ cache' = [cache EXCEPT ![c][p] = nWrites + 1]
    /\ nData' = [nData EXCEPT ![c] = Extended(@, p)]
    /\ \/ /\ LeaseKept(c)
          /\ dirty' = [dirty EXCEPT ![c] = @ \cup {p}]
          /\ UNCHANGED <<err, faults, taint>>
       \/ /\ LeaseNotKept(c)
          /\ IOError(c)
          /\ taint' = [taint EXCEPT ![c] = @ \cup {"renew"}]
          /\ UNCHANGED dirty
    /\ UNCHANGED <<pc, lockVars, etag, synced, xferVars>>

\* Neither the dirty bits beyond the new end nor p->etag are touched.
Truncate(c, n) ==
    /\ pc[c] = "idle"
    /\ eLock[c] = EXCLUSIVE
    /\ n < nData[c]
    /\ PageBlobResize(c, c \in leased, n)
    /\ Overtaken(c, {})
    /\ cache' = [cache EXCEPT ![c] = Cut(@, n)]
    /\ nData' = [nData EXCEPT ![c] = n]
    /\ synced' = [synced EXCEPT ![c] = n]
    /\ UNCHANGED <<pc, lockVars, etag, dirty, xferVars, envVars>>

\* The resize is refused or fails, or is done and its answer lost.
TruncateFail(c, n) ==
    /\ pc[c] = "idle"
    /\ eLock[c] = EXCLUSIVE
    /\ n < nData[c]
    /\ \/ /\ ~MayWrite(c, c \in leased)
          /\ UNCHANGED <<blobVars, faults, taint>>
       \/ Fault /\ UNCHANGED <<blobVars, taint>>
       \/ /\ Fault
          /\ PageBlobResize(c, c \in leased, n)
          /\ Overtaken(c, {"truncate"})
    /\ IOError(c)
    /\ UNCHANGED <<pc, lockVars, cacheVars, xferVars, nWrites>>

-----------------------------------------------------------------------------
(* xSync, and xClose with what it flushes. *)

\* coalesceDirtyRanges: each maximal run of dirty pages below the end of the
\* file, cut from its start into pieces of at most MaxPut pages.
RunStart(D, p) == CHOOSE a \in D : a <= p /\ a..p \subseteq D /\ a - 1 \notin D
Piece(D, p) == <<RunStart(D, p), (p - RunStart(D, p)) \div MaxPut>>
Ranges(D) == {{q \in D : Piece(D, q) = Piece(D, p)} : p \in D}

ToFlushShort(c) == dirty[c] \cap 1..(nData[c] - 1)
ToFlush(c) == dirty[c] \cap 1..nData[c]

\* The blob is resized only if the file grew since it was last known.
StartFlush(c) ==
    /\ GoTo(c, IF nData[c] > synced[c] THEN "resize" ELSE "put")
    /\ todo' = [todo EXCEPT ![c] = ToFlush(c)]
    /\ ret' = [ret EXCEPT ![c] = NoEtag]
    /\ UNCHANGED <<lockVars, cacheVars, buf, want, req, nWrites, taint>>

Sync(c) ==
    /\ pc[c] = "idle"
    /\ eLock[c] = EXCLUSIVE
    /\ dirty[c] # {}
    /\ \/ /\ LeaseKept(c)
          /\ StartFlush(c)
          /\ UNCHANGED <<err, faults>>
       \/ /\ LeaseNotKept(c)
          /\ IOError(c)
          /\ UNCHANGED <<pc, lockVars, cacheVars, xferVars, nWrites, taint>>

\* The pager has dropped its locks: what is left is flushed without a lease.
Close(c) ==
    /\ pc[c] = "idle"
    /\ eLock[c] = NONE
    /\ \/ /\ dirty[c] = {}
          /\ Forget(c)
          /\ taint' = [taint EXCEPT ![c] = {}]
          /\ UNCHANGED faults
       \/ /\ dirty[c] # {}
          /\ StartFlush(c)
          /\ UNCHANGED <<err, faults>>
    /\ UNCHANGED blobVars

Resize(c) ==
    /\ pc[c] = "resize"
    /\ PageBlobResize(c, c \in leased, nData[c])
    /\ Overtaken(c, {})
    /\ synced' = [synced EXCEPT ![c] = nData[c]]
    /\ GoTo(c, "put")
    /\ UNCHANGED <<lockVars, etag, cache, nData, dirty, xferVars, envVars>>

\* If-Match is sent only without a lease.
IfMatch(c) == IF c \in leased THEN NoEtag ELSE etag[c]

PutRange(c, r) == PageBlobWrite(c, c \in leased, IfMatch(c), r, cache[c])

\* The ranges are written in any order.  The ETag the flush reports is that
\* of whichever answer is read last; a lost answer makes it send the range
\* again.
Put(c) ==
    /\ pc[c] = "put"
    /\ \E r \in Ranges(ToFlush(c)) :
         /\ r \subseteq todo[c]
         /\ PutRange(c, r)
         /\ \/ todo' = [todo EXCEPT ![c] = @ \ r] /\ UNCHANGED faults
            \/ UNCHANGED todo /\ Fault
    /\ Overtaken(c, {})
    /\ \E e \in {ret[c], bEtag'} : ret' = [ret EXCEPT ![c] = e]
    /\ UNCHANGED <<pc, lockVars, cacheVars, buf, want, req, err, nWrites>>

\* A long flush renews the lease between ranges.
FlushRenew(c) ==
    /\ pc[c] = "put"
    /\ todo[c] \notin {{}, ToFlush(c)}
    /\ c \in leased
    /\ LeaseRenew(c)
    /\ UNCHANGED <<pc, lockVars, cacheVars, xferVars, envVars, taint>>

\* xSync answers SQLITE_IOERR or SQLITE_BUSY.
SyncErrorCleans(c) ==
    /\ GoTo(c, "idle")
    /\ IOError(c)
    /\ EndXfer(c)
    /\ dirty' = [dirty EXCEPT ![c] = {}]
    /\ UNCHANGED <<lockVars, etag, cache, nData, synced, nWrites>>
SyncError(c) ==
    /\ GoTo(c, "idle")
    /\ IOError(c)
    /\ EndXfer(c)
    /\ UNCHANGED <<lockVars, cacheVars, nWrites>>

\* A refused or failed request ends the flush with the dirty bits as they
\* were; xClose goes on to close the file.
FlushFail(c) ==
    /\ \/ /\ pc[c] = "resize"
          /\ \/ ~MayWrite(c, c \in leased) /\ UNCHANGED <<blobVars, faults, taint>>
             \/ Fault /\ UNCHANGED <<blobVars, taint>>
             \/ Fault /\ PageBlobResize(c, c \in leased, nData[c]) /\ Overtaken(c, {})
       \/ /\ pc[c] = "put"
          /\ todo[c] # {}
          /\ \/ /\ \/ ~MayWrite(c, c \in leased)
                   \/ IfMatch(c) \notin {NoEtag, bEtag}
                   \/ ~(todo[c] \subseteq 1..bSize)
                /\ UNCHANGED faults
             \/ Fault
          /\ UNCHANGED <<blobVars, taint>>
    /\ IF eLock[c] = NONE THEN Forget(c) ELSE SyncError(c)

\* A flush of nothing but pages beyond the end of the file sends no range.
FlushDone(c) ==
    /\ pc[c] = "put"
    /\ todo[c] = {}
    /\ \/ /\ eLock[c] = NONE
          /\ Forget(c)
          /\ UNCHANGED taint
       \/ /\ eLock[c] # NONE
          /\ GoTo(c, "idle")
          /\ etag' = [etag EXCEPT ![c] = IF ret[c] = NoEtag THEN @ ELSE ret[c]]
          /\ dirty' = [dirty EXCEPT ![c] = {}]
          /\ err' = err \ {c}
          /\ EndXfer(c)
          /\ UNCHANGED <<lockVars, cache, nData, synced, nWrites, taint>>
    /\ UNCHANGED <<blobVars, faults>>

-----------------------------------------------------------------------------
(* The process of c dies; its lease runs on until it expires. *)
Crash(c) ==
    /\ pc[c] # "closed"
    /\ LeaseForget(c)
    /\ Forget(c)
    /\ taint' = [taint EXCEPT ![c] = {}]
    /\ UNCHANGED faults

Expire == LeaseExpire
          /\ UNCHANGED <<pc, lockVars, cacheVars, xferVars, envVars, taint>>

\* What a call that has begun does next.
Step(c) ==
    \/ OpenHead(c) \/ OpenCreate(c) \/ OpenFail(c)
    \/ Fetch(c) \/ FetchFail(c) \/ FetchDone(c)
    \/ Revalidate(c) \/ RevalidateFail(c) \/ GiveUp(c)
    \/ Resize(c) \/ Put(c) \/ FlushFail(c) \/ FlushDone(c)

\* The calls that SQLite makes.
Call(c) ==
    \/ OpenExists(c) \/ LockShared(c) \/ LockLost(c)
    \/ \E level \in {RESERVED, EXCLUSIVE} : LockHeld(c, level) \/ LockAcquire(c, level)
    \/ \E level \in {NONE, SHARED} : Unlock(c, level)
    \/ Read(c)
    \/ \E p \in Page : Write(c, p)
    \/ \E n \in 0..MaxPages : Truncate(c, n) \/ TruncateFail(c, n)
    \/ Sync(c) \/ Close(c)

Next == Expire \/ \E c \in Conn : Step(c) \/ FlushRenew(c) \/ Call(c) \/ Crash(c)

Spec == Init /\ [][Next]_vars

\* A call that has begun goes on: requests have timeouts and bounded retries.
FairSpec == Spec /\ \A c \in Conn : WF_vars(Step(c))

-----------------------------------------------------------------------------
(* Properties. *)

\* The lease of c is active, or has expired and can still be renewed.
LeaseIntact(c) == c \in {holder, lapsed}

\* The cache file is the blob's content under the dirty pages.
CacheMatches(c) ==
    /\ synced[c] <= bSize /\ bSize <= nData[c]
    /\ dirty[c] = {} => nData[c] = bSize
    /\ \A p \in Page \ dirty[c] : cache[c][p] = bData[p]

\* Between downloads, with an etag that revalidation accepts.
Accepted(c) == Opened(c) /\ pc[c] \notin Getting /\ EtagValid(c)

(***************************************************************************)
(* Whenever revalidateBeforeRead or revalidateAfterLease would accept the  *)
(* cache by its ETag, every clean page of the cache file is the blob's     *)
(* page, unless one of the four events that `taint' records has occurred.  *)
(***************************************************************************)
CacheCoherent == \A c \in Conn : Accepted(c) /\ taint[c] = {} => CacheMatches(c)

(***************************************************************************)
(* While a connection that xLock granted RESERVED or more has its lease,   *)
(* its cache is the blob's current content under its own dirty pages: it   *)
(* never builds a commit on content that another commit has replaced, and  *)
(* when xSync has succeeded the blob is what the cache is.                 *)
(***************************************************************************)
WriterCurrent ==
    \A c \in Conn : eLock[c] >= RESERVED /\ LeaseIntact(c) /\ taint[c] = {}
                       => CacheMatches(c)

(***************************************************************************)
(* Once the pager has read under SHARED, nothing but its own writes alters *)
(* the cache file until it gives the lock up: revalidateAfterLease answers *)
(* SQLITE_BUSY instead of refreshing under the pager.                      *)
(***************************************************************************)
SnapshotStable ==
    [][\A c \in reads \cap reads' :
          cache'[c] # cache[c] => pc[c] = "idle" /\ eLock[c] = EXCLUSIVE]_vars

(***************************************************************************)
(* Lock levels and leases go together on every path of xLock and xUnlock:  *)
(* between calls exactly the connections at RESERVED or above hold a lease *)
(* id, and the service has no lease of a connection that forgot its id.    *)
(***************************************************************************)
LeaseMatchesLock ==
    \A c \in Conn :
        /\ pc[c] = "idle" => (c \in leased <=> eLock[c] >= RESERVED)
        /\ LeaseIntact(c) => c \in leased

\* Every call returns: no handler waits for another connection.
CallsReturn == \A c \in Conn : pc[c] \notin {"idle", "closed"} ~> pc[c] \in {"idle", "closed"}
=============================================================================

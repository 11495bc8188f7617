---------------------------- MODULE MainDbProofs ----------------------------
(***************************************************************************)
(* MainDb: its type invariant, LeaseMatchesLock, CacheCoherent, WriterCurrent*)
(* and SnapshotStable hold for every number of connections and pages, every*)
(* chunking of downloads and every number of faults.                       *)
(***************************************************************************)
EXTENDS MainDbLockProofs, MainDbWriteProofs

\* Most leaves are first-order; a leaf that needs arithmetic cites SMT.
USE Zenon

-----------------------------------------------------------------------------
(* Crashes, lease expiry, and the step as a whole. *)

\* A process dies: the connection has nothing, its lease is nobody's.
LEMMA CrashInv == ASSUME Inv, NEW c \in Conn, Crash(c) PROVE Inv'
<1>1. LeaseStep(c) /\ ~LeaseIntact(c)'
  BY ForgetLeaseEffect DEF Crash, Inv, TypeOK
<1>2. Forget(c) /\ faults' = faults /\ taint' = [taint EXCEPT ![c] = {}]
  BY DEF Crash
<1>3. ConnInv(c)'
  BY <1>1, <1>2, Forgotten DEF LeaseStep
<1>4. TaintTypeOK' /\ \A d \in Conn \ {c} : taint'[d] = taint[d]
  BY <1>2 DEF TaintTypeOK, Inv, TypeOK
<1>5. LocalTypeOK' /\ Others(c)
  BY <1>2, <1>4, ForgetEffect DEF LocalTypeOK, Others, Inv, TypeOK
<1> QED
  BY <1>1, <1>3, <1>5, LocalStep

\* A step that only touches the lease, and only to end it.
LEMMA ExpireInv == ASSUME Inv, Expire PROVE Inv'
<1>1. /\ BlobTypeOK' /\ SameContent /\ LapsedAlone'
      /\ \A d \in Conn : LeaseIntact(d)' => LeaseIntact(d)
  BY ExpireEffect DEF Expire, Inv, TypeOK
<1>2. /\ LockTypeOK' /\ CacheTypeOK' /\ XferTypeOK'
      /\ \A d \in Conn : SameLock(d) /\ SameCache(d) /\ SameXfer(d)
  BY KeepLock, KeepCache, KeepXfer DEF Expire, Inv, TypeOK
<1>3. TypeOK' /\ \A d \in Conn : Same(d) /\ taint'[d] = taint[d]
  BY <1>1, <1>2 DEF Expire, envVars, Same, Inv, TypeOK
<1>4. \A d \in Conn : ConnInv(d)'
  BY <1>1, <1>3, Bystander
<1>5. BlankBeyond(bData, bSize)'
  BY <1>1 DEF SameContent, Inv
<1> QED
  BY <1>1, <1>3, <1>4, <1>5 DEF Inv

\* A step that changes nothing.
LEMMA StutterInv == ASSUME Inv, UNCHANGED vars PROVE Inv'
<1>1. UNCHANGED <<blobVars, pc, lockVars, cacheVars, xferVars, envVars, taint>>
  BY DEF vars
<1>2. /\ LockTypeOK' /\ CacheTypeOK' /\ XferTypeOK'
      /\ \A d \in Conn : SameLock(d) /\ SameCache(d) /\ SameXfer(d)
  BY <1>1, KeepLock, KeepCache, KeepXfer DEF Inv, TypeOK
<1>3. /\ BlobTypeOK' /\ SameContent /\ LapsedAlone' /\ BlankBeyond(bData, bSize)'
      /\ \A d \in Conn : LeaseIntact(d)' => LeaseIntact(d)
  BY <1>1 DEF blobVars, BlobTypeOK, SameContent, LapsedAlone, LeaseIntact, Inv, TypeOK
<1>4. TypeOK' /\ \A d \in Conn : Same(d) /\ taint'[d] = taint[d]
  BY <1>1, <1>2, <1>3 DEF envVars, Same, Inv, TypeOK
<1>5. \A d \in Conn : ConnInv(d)'
  BY <1>3, <1>4, Bystander
<1> QED
  BY <1>3, <1>4, <1>5 DEF Inv

\* Every step of a running call preserves the invariant.
LEMMA StepInv == ASSUME Inv, NEW c \in Conn, Step(c) PROVE Inv'
  BY OpenHeadInv, OpenCreateInv, OpenFailInv, FetchInv, FetchFailInv, FetchDoneInv,
     RevalidateInv, RevalidateFailInv, GiveUpInv, ResizeInv, PutInv, FlushFailInv,
     FlushDoneInv DEF Step

\* Every call of SQLite preserves the invariant.
LEMMA CallInv == ASSUME Inv, NEW c \in Conn, Call(c) PROVE Inv'
  BY OpenExistsInv, LockSharedInv, LockLostInv, LockHeldInv, LockAcquireInv, UnlockInv,
     ReadInv, WriteInv, TruncateInv, TruncateFailInv, SyncInv, CloseInv DEF Call

\* Every step of the specification preserves the invariant.
LEMMA NextInv == ASSUME Inv, [Next]_vars PROVE Inv'
  BY StepInv, FlushRenewInv, CallInv, CrashInv, ExpireInv, StutterInv DEF Next

-----------------------------------------------------------------------------
(* The theorems. *)

\* The inductive invariant holds in every behaviour of the VFS.
THEOREM Invariance == Spec => []Inv
  BY InitInv, NextInv, PTL DEF Spec

\* Every variable of the model keeps its type: cache files and blob never
\* grow beyond the database, and every call is at one of its requests.
THEOREM TypeCorrect == Spec => []TypeOK
<1>1. Inv => TypeOK
  BY DEF Inv
<1> QED
  BY <1>1, Invariance, PTL

\* revalidateBeforeRead and revalidateAfterLease are right to trust a cache
\* whose ETag is the blob's, except after the four events `taint' records.
THEOREM CoherentCache == Spec => []CacheCoherent
<1>1. Inv => CacheCoherent
  <2> SUFFICES ASSUME Inv, NEW c \in Conn, Accepted(c), taint[c] = {}
               PROVE  CacheMatches(c)
    BY DEF CacheCoherent
  <2>1. Based(c)
    BY DEF Accepted, Based
  <2> QED
    BY <2>1 DEF Inv, ConnInv, Coherent
<1> QED
  BY <1>1, Invariance, PTL

\* xLock grants RESERVED and above only over the blob's current content, and
\* the lease keeps it current until xUnlock.
THEOREM CurrentWriter == Spec => []WriterCurrent
<1>1. Inv => WriterCurrent
  <2> SUFFICES ASSUME Inv, NEW c \in Conn, eLock[c] >= RESERVED, LeaseIntact(c), taint[c] = {}
               PROVE  CacheMatches(c)
    BY DEF WriterCurrent
  <2>1. Locks(c) /\ Coherent(c) /\ pc[c] \in PC
    BY DEF Inv, ConnInv, TypeOK
  <2>2. pc[c] \notin {"closed", "openHead", "openCreate", "getOpen", "getShared", "revalidate",
                      "getLease", "giveUp"}
    BY SMT, <2>1 DEF Locks, SHARED, RESERVED
  <2>3. Based(c)
    BY <2>2 DEF Based, Opened, Getting
  <2> QED
    BY <2>1, <2>3 DEF Coherent
<1> QED
  BY <1>1, Invariance, PTL

\* Every path through xLock and xUnlock keeps lock levels and leases together.
THEOREM LocksMatch == Spec => []LeaseMatchesLock
<1>1. Inv => LeaseMatchesLock
  BY DEF Inv, ConnInv, Locks, LeaseMatchesLock
<1> QED
  BY <1>1, Invariance, PTL

\* A connection that has read nothing yet is the only kind that a download
\* may serve: xLock clears the mark before it revalidates.
Unread == \A c \in Conn : pc[c] \in Getting \/ ~Opened(c) => c \notin reads

\* No connection has read at the start.
LEMMA UnreadInit == Init => Unread
  BY DEF Init, Unread

\* A connection that has read has no download started under it.
LEMMA UnreadNext == ASSUME TypeOK, Unread, [Next]_vars PROVE Unread'
<1> SUFFICES ASSUME NEW d \in Conn, pc'[d] \in Getting \/ ~Opened(d)' PROVE d \notin reads'
  BY DEF Unread
<1>1. pc \in [Conn -> PC] /\ (pc[d] \in Getting \/ ~Opened(d) => d \notin reads)
  BY DEF TypeOK, Unread
<1> USE <1>1 DEF Opened
<1>2. CASE UNCHANGED vars \/ Expire
  BY <1>2 DEF vars, lockVars, Expire
<1>3. ASSUME NEW c \in Conn, Step(c) PROVE d \notin reads'
  <2>1. CASE OpenHead(c) \/ OpenCreate(c) \/ OpenFail(c)
    BY <2>1 DEF OpenHead, OpenCreate, OpenFail, GoTo, StartGet, lockVars
  <2>2. CASE Fetch(c) \/ FetchFail(c) \/ FetchDone(c)
    BY <2>2 DEF Fetch, FetchFail, FetchDone, GoTo, Forget, lockVars, Getting
  <2>3. CASE Revalidate(c) \/ RevalidateFail(c) \/ GiveUp(c)
    BY <2>3
       DEF Revalidate, NothingRead, RevalidateFail, GiveUp, Refresh, StartGet, GoTo, lockVars,
           Getting
  <2>4. CASE Resize(c) \/ Put(c) \/ FlushFail(c) \/ FlushDone(c)
    BY <2>4 DEF Resize, Put, FlushFail, SyncError, FlushDone, GoTo, Forget, lockVars, Getting
  <2> QED
    BY <1>3, <2>1, <2>2, <2>3, <2>4 DEF Step
<1>4. ASSUME NEW c \in Conn, Call(c) PROVE d \notin reads'
  <2>1. CASE OpenExists(c) \/ LockShared(c) \/ LockLost(c)
    BY <2>1 DEF OpenExists, LockShared, LockLost, Refresh, StartGet, GoTo, lockVars
  <2>2. ASSUME NEW level, LockHeld(c, level) \/ LockAcquire(c, level) \/ Unlock(c, level)
        PROVE d \notin reads'
    BY <2>2 DEF LockHeld, LockAcquire, Unlock, GoTo, Getting
  <2>3. CASE Read(c)
    BY <2>3 DEF Read, Getting
  <2>4. ASSUME NEW p, Write(c, p) \/ Truncate(c, p) \/ TruncateFail(c, p) PROVE d \notin reads'
    BY <2>4 DEF Write, Truncate, TruncateFail, lockVars
  <2>5. CASE Sync(c) \/ Close(c)
    BY <2>5 DEF Sync, Close, StartFlush, Forget, GoTo, lockVars, Getting
  <2> QED
    BY <1>4, <2>1, <2>2, <2>3, <2>4, <2>5 DEF Call
<1>5. ASSUME NEW c \in Conn, Crash(c) \/ FlushRenew(c) PROVE d \notin reads'
  BY <1>5 DEF Crash, FlushRenew, Forget, GoTo, lockVars
<1> QED
  BY <1>2, <1>3, <1>4, <1>5 DEF Next

\* No download, of xOpen or of a refresh, runs in a connection that has read
\* under its lock.
THEOREM UnreadInvariance == Spec => []Unread
<1>1. Inv => TypeOK
  BY DEF Inv
<1> QED
  BY <1>1, UnreadInit, UnreadNext, Invariance, PTL DEF Spec

\* One step never replaces the cache file under a connection that has read.
LEMMA SnapshotStep ==
  ASSUME TypeOK, Unread, [Next]_vars, NEW d \in reads \cap reads', cache'[d] # cache[d]
  PROVE  pc[d] = "idle" /\ eLock[d] = EXCLUSIVE
<1>1. d \in Conn /\ cache \in [Conn -> [Page -> Int]]
  BY DEF TypeOK, LockTypeOK, CacheTypeOK
<1>2. pc[d] \notin Getting /\ Opened(d)
  BY <1>1 DEF Unread
<1> DEFINE good == pc[d] = "idle" /\ eLock[d] = EXCLUSIVE
<1> USE <1>1, <1>2
<1>3. CASE UNCHANGED vars \/ Expire
  BY <1>3 DEF vars, cacheVars, Expire
<1>4. ASSUME NEW c \in Conn, Step(c) PROVE good
  <2>1. CASE OpenHead(c)
    BY <2>1 DEF OpenHead, StartGet, Install, Opened
  <2>2. CASE OpenCreate(c) \/ OpenFail(c) \/ Fetch(c)
    BY <2>2 DEF OpenCreate, OpenFail, Fetch, cacheVars
  <2>3. CASE FetchFail(c)
    BY <2>3 DEF FetchFail, Forget, cacheVars
  <2>4. CASE FetchDone(c)
    BY <2>4 DEF FetchDone, Install
  <2>5. CASE Revalidate(c)
    BY <2>5 DEF Revalidate, NothingRead, Refresh, StartGet, Install, cacheVars
  <2>6. CASE RevalidateFail(c) \/ GiveUp(c) \/ Resize(c) \/ Put(c)
    BY <2>6 DEF RevalidateFail, GiveUp, Resize, Put, cacheVars
  <2>7. CASE FlushFail(c) \/ FlushDone(c)
    BY <2>7 DEF FlushFail, SyncError, FlushDone, Forget, cacheVars
  <2> QED
    BY <1>4, <2>1, <2>2, <2>3, <2>4, <2>5, <2>6, <2>7 DEF Step
<1>5. ASSUME NEW c \in Conn, Call(c) PROVE good
  <2>1. CASE OpenExists(c) \/ LockLost(c) \/ Read(c)
    BY <2>1 DEF OpenExists, LockLost, Read, cacheVars
  <2>2. CASE LockShared(c)
    BY <2>2 DEF LockShared, Refresh, StartGet, Install, cacheVars
  <2>3. ASSUME NEW level, LockHeld(c, level) \/ LockAcquire(c, level) \/ Unlock(c, level)
        PROVE good
    BY <2>3 DEF LockHeld, LockAcquire, Unlock, cacheVars
  <2>4. ASSUME NEW p \in Page, Write(c, p) PROVE good
    BY <2>4 DEF Write
  <2>5. ASSUME NEW n \in 0..MaxPages, Truncate(c, n) \/ TruncateFail(c, n) PROVE good
    BY <2>5 DEF Truncate, TruncateFail, cacheVars
  <2>6. CASE Sync(c) \/ Close(c)
    BY <2>6 DEF Sync, Close, StartFlush, Forget, cacheVars
  <2> QED
    BY <1>5, <2>1, <2>2, <2>3, <2>4, <2>5, <2>6 DEF Call
<1>6. ASSUME NEW c \in Conn, Crash(c) \/ FlushRenew(c) PROVE good
  BY <1>6 DEF Crash, FlushRenew, Forget, cacheVars
<1> QED
  BY <1>3, <1>4, <1>5, <1>6 DEF Next

\* What a transaction has read stays as it was read: revalidateAfterLease
\* answers SQLITE_BUSY instead of refreshing the cache under the pager.
THEOREM StableSnapshot == Spec => SnapshotStable
<1>1. Inv => TypeOK
  BY DEF Inv
<1>2. ASSUME TypeOK, Unread, [Next]_vars
      PROVE  [\A c \in reads \cap reads' :
                 cache'[c] # cache[c] => pc[c] = "idle" /\ eLock[c] = EXCLUSIVE]_vars
  BY <1>2, SnapshotStep
<1> QED
  BY <1>1, <1>2, Invariance, UnreadInvariance, PTL DEF Spec, SnapshotStable
=============================================================================

-------------------------- MODULE MainDbWriteProofs --------------------------
(***************************************************************************)
(* xWrite, xTruncate, xSync and xClose, with the requests of a flush and   *)
(* their failures, preserve the invariant of MainDb.                       *)
(***************************************************************************)
EXTENDS MainDbInv

\* Most leaves are first-order; a leaf that needs arithmetic cites SMT.
USE Zenon

-----------------------------------------------------------------------------
(* xWrite and xTruncate. *)

\* xWrite: the page is dirty, or the connection is marked.
LEMMA WriteInv == ASSUME Inv, NEW c \in Conn, NEW p \in Page, Write(c, p) PROVE Inv'
<1>1. LeaseStep(c) /\ (LeaseIntact(c)' <=> LeaseIntact(c))
  BY RenewalEffect DEF Write
<1>2. pc[c] = "idle" /\ pc' = pc /\ etag' = etag /\ synced' = synced
  BY DEF Write
<1>3. /\ LockTypeOK' /\ XferTypeOK' /\ \A d \in Conn : SameLock(d) /\ SameXfer(d)
  BY KeepLock, KeepXfer DEF Write, Inv, TypeOK
<1>4. /\ cache' \in [Conn -> [Page -> Int]] /\ nWrites' \in Nat
      /\ \A q \in Page \ {p} : cache'[c][q] = cache[c][q]
      /\ \A d \in Conn \ {c} : cache'[d] = cache[d]
  BY SMT DEF Write, CacheTypeOK, Inv, TypeOK
<1>5. /\ nData' \in [Conn -> 0..MaxPages]
      /\ nData'[c] = IF p > nData[c] THEN p ELSE nData[c]
      /\ \A d \in Conn \ {c} : nData'[d] = nData[d]
  BY SMT DEF Write, Extended, CacheTypeOK, Page, Inv, TypeOK
<1>6. \/ dirty' = [dirty EXCEPT ![c] = @ \cup {p}] /\ taint' = taint
      \/ dirty' = dirty /\ taint' = [taint EXCEPT ![c] = @ \cup {"renew"}]
  BY DEF Write
<1>7. /\ dirty' \in [Conn -> SUBSET Page] /\ TaintTypeOK'
      /\ \A d \in Conn \ {c} : dirty'[d] = dirty[d] /\ taint'[d] = taint[d]
      /\ \/ dirty'[c] = dirty[c] \cup {p} /\ taint'[c] = taint[c]
         \/ taint'[c] # {}
  <2>1. dirty \in [Conn -> SUBSET Page] /\ taint \in [Conn -> SUBSET Reason] /\ "renew" \in Reason
    BY DEF CacheTypeOK, Reason, Inv, TypeOK
  <2>2. CASE dirty' = [dirty EXCEPT ![c] = @ \cup {p}] /\ taint' = taint
    BY <2>1, <2>2 DEF TaintTypeOK
  <2>3. CASE dirty' = dirty /\ taint' = [taint EXCEPT ![c] = @ \cup {"renew"}]
    BY <2>1, <2>3 DEF TaintTypeOK
  <2> QED
    BY <1>6, <2>2, <2>3
<1>8. CacheTypeOK' /\ \A d \in Conn \ {c} : SameCache(d)
  BY <1>2, <1>4, <1>5, <1>7 DEF CacheTypeOK, SameCache, Inv, TypeOK
<1>9. err' \subseteq Conn /\ faults' \in Nat
  BY FaultType DEF Write, IOError, LeaseNotKept, Inv, TypeOK
<1>10. LocalTypeOK' /\ Others(c)
  BY <1>2, <1>3, <1>4, <1>7, <1>8, <1>9 DEF LocalTypeOK, Others, Same, Inv, TypeOK
<1>11. ConnInv(c)'
  <2> USE <1>1, <1>2, <1>3 DEF LeaseStep, SameContent, SameLock, SameXfer
  <2>1. ConnInv(c) /\ p \in Nat /\ nData[c] \in Nat /\ synced[c] \in Nat /\ bSize \in Nat
    BY SMT DEF CacheTypeOK, BlobTypeOK, Page, Inv, TypeOK
  <2>2. Fresh(c)' /\ Download(c)'
    BY DEF Fresh, Opened, Download, Getting
  <2>3. Etags(c)' /\ Locks(c)'
    BY <2>1 DEF ConnInv, Etags, Exists, Locks
  <2>4. BlankBeyond(cache[c], nData[c])'
    <3>1. BlankBeyond(cache[c], nData[c]) /\ nData'[c] \in Nat /\ Page \subseteq Nat
      BY SMT, <1>5, <2>1 DEF ConnInv, Page
    <3>2. SUFFICES ASSUME NEW q \in Page, q > nData'[c] PROVE cache'[c][q] = Blank
      BY DEF BlankBeyond
    <3>3. q # p /\ q > nData[c]
      BY SMT, <1>5, <2>1, <3>1, <3>2
    <3> QED
      BY <1>4, <3>1, <3>3 DEF BlankBeyond
  <2>5. ASSUME Based(c)' PROVE CacheMatches(c)'
    <3>1. dirty'[c] = dirty[c] \cup {p} /\ taint[c] = {}
      BY <1>7, <2>5 DEF Based
    <3>2. Based(c)
      BY <2>5, <3>1 DEF Based, Opened, EtagValid
    <3>3. CacheMatches(c)
      BY <2>1, <3>2 DEF ConnInv, Coherent
    <3> QED
      BY SMT, <1>4, <1>5, <2>1, <3>1, <3>3 DEF CacheMatches, Inv
  <2>6. Coherent(c)'
    BY <2>5 DEF Coherent, Flushed, Flushing
  <2> QED
    BY <2>2, <2>3, <2>4, <2>6 DEF ConnInv
<1> QED
  BY <1>1, <1>10, <1>11, LocalStep DEF TypeOK

\* xTruncate cuts the blob and the cache file at the same page.
LEMMA TruncateInv ==
  ASSUME Inv, NEW c \in Conn, NEW n \in 0..MaxPages, Truncate(c, n)
  PROVE  Inv'
<1>1. /\ ContentStep(c) /\ bEtag \in Nat /\ bEtag' \in Nat /\ bSize' = n
      /\ \A p \in Page : bData'[p] = IF p <= n THEN bData[p] ELSE Blank
  BY ResizeEffect DEF Truncate
<1>2. pc[c] = "idle" /\ eLock[c] = EXCLUSIVE /\ pc' = pc /\ etag' = etag /\ dirty' = dirty
  BY DEF Truncate
<1>3. /\ LockTypeOK' /\ XferTypeOK' /\ \A d \in Conn : SameLock(d) /\ SameXfer(d)
  BY KeepLock, KeepXfer DEF Truncate, Inv, TypeOK
<1>4. /\ cache' \in [Conn -> [Page -> Int]]
      /\ \A p \in Page : cache'[c][p] = IF p <= n THEN cache[c][p] ELSE Blank
      /\ \A d \in Conn \ {c} : cache'[d] = cache[d]
  BY SMT DEF Truncate, CacheTypeOK, Cut, Blank, Inv, TypeOK
<1>5. /\ nData' \in [Conn -> 0..MaxPages] /\ synced' \in [Conn -> 0..MaxPages]
      /\ nData'[c] = n /\ synced'[c] = n
      /\ \A d \in Conn \ {c} : nData'[d] = nData[d] /\ synced'[d] = synced[d]
  BY DEF Truncate, CacheTypeOK, Inv, TypeOK
<1>6. CacheTypeOK' /\ \A d \in Conn \ {c} : SameCache(d)
  BY <1>2, <1>4, <1>5 DEF CacheTypeOK, SameCache, Inv, TypeOK
<1>7. Passed(c) /\ TaintTypeOK' /\ taint'[c] = taint[c]
  <2>1. Overtaken(c, {}) /\ {} \in SUBSET Reason
    BY DEF Truncate
  <2>2. \A d \in Conn \ {c} : Same(d)
    BY <1>2, <1>3, <1>6 DEF Same
  <2>3. Passed(c) /\ TaintTypeOK' /\ taint'[c] = taint[c] \cup {}
    BY <2>1, <2>2, PassedBy
  <2> QED
    BY <2>3
<1>8. LocalTypeOK'
  BY <1>3, <1>6, <1>7 DEF LocalTypeOK, Truncate, envVars, Inv, TypeOK
<1>9. ConnInv(c)'
  <2>1. ConnInv(c) /\ etag[c] <= bEtag /\ ret[c] <= bEtag
    BY DEF ConnInv, Etags, Inv
  <2>2. etag[c] \in Nat /\ ret[c] \in Nat /\ bEtag' = bEtag + 1
    BY <1>1 DEF CacheTypeOK, XferTypeOK, ContentStep, Inv, TypeOK
  <2>3. Fresh(c)' /\ Download(c)' /\ BlankBeyond(cache[c], nData[c])'
    <3>1. Fresh(c)' /\ Download(c)'
      BY <1>2 DEF Fresh, Opened, Download, Getting
    <3>2. \A p \in Page : p > n => ~(p <= n)
      BY SMT DEF Page
    <3> QED
      BY <1>4, <1>5, <3>1, <3>2 DEF BlankBeyond
  <2>4. Etags(c)'
    BY SMT, <1>1, <1>2, <1>3, <2>1, <2>2 DEF Etags, Exists, NoEtag, SameXfer
  <2>5. Locks(c)'
    BY <1>1, <1>2, <1>3, <2>1 DEF ConnInv, Locks, SameLock, LeaseIntact, ContentStep
  <2>6. ASSUME Based(c)' PROVE CacheMatches(c)'
    <3>1. Based(c)
      BY <1>1, <1>2, <1>7, <2>6, StillBased
    <3>2. CacheMatches(c)
      BY <2>1, <3>1 DEF ConnInv, Coherent
    <3> QED
      BY SMT, <1>1, <1>2, <1>4, <1>5, <3>2 DEF CacheMatches
  <2>7. Coherent(c)'
    BY <1>2, <2>6 DEF Coherent, Flushed, Flushing
  <2> QED
    BY <2>3, <2>4, <2>5, <2>7 DEF ConnInv
<1> QED
  BY <1>1, <1>7, <1>8, <1>9, WriteStep DEF Inv

\* xTruncate fails; if the blob was cut all the same, the connection is marked.
LEMMA TruncateFailInv ==
  ASSUME Inv, NEW c \in Conn, NEW n \in 0..MaxPages, TruncateFail(c, n)
  PROVE  Inv'
<1>1. pc[c] = "idle" /\ pc' = pc /\ nWrites' = nWrites
  BY DEF TruncateFail
<1>2. /\ LockTypeOK' /\ CacheTypeOK' /\ XferTypeOK'
      /\ \A d \in Conn : SameLock(d) /\ SameCache(d) /\ SameXfer(d)
  BY KeepLock, KeepCache, KeepXfer DEF TruncateFail, Inv, TypeOK
<1>3. err' \subseteq Conn /\ faults' \in Nat
  BY FaultType DEF TruncateFail, IOError, Inv, TypeOK
<1>4. \A d \in Conn : Same(d)
  BY <1>1, <1>2 DEF Same
<1>5. CASE UNCHANGED <<blobVars, taint>>
  <2>1. LeaseStep(c) /\ (LeaseIntact(c)' <=> LeaseIntact(c))
    BY <1>5, NoRequest DEF Inv, TypeOK
  <2>2. LocalTypeOK'
    BY <1>1, <1>2, <1>3, <1>5 DEF LocalTypeOK, TaintTypeOK, Inv, TypeOK
  <2> QED
    BY <1>4, <1>5, <2>1, <2>2, Untouched
<1>6. CASE PageBlobResize(c, c \in leased, n) /\ Overtaken(c, {"truncate"})
  <2>1. ContentStep(c)
    BY <1>6, ResizeEffect
  <2>2. Passed(c) /\ TaintTypeOK' /\ taint'[c] = taint[c] \cup {"truncate"}
    BY <1>4, <1>6, PassedBy DEF Reason
  <2>3. LocalTypeOK'
    BY <1>1, <1>2, <1>3, <2>2 DEF LocalTypeOK, Inv, TypeOK
  <2>4. ConnInv(c)'
    BY <1>1, <1>2, <2>1, <2>2, Marked DEF SameXfer
  <2> QED
    BY <2>1, <2>2, <2>3, <2>4, WriteStep
<1> QED
  BY <1>5, <1>6 DEF TruncateFail

-----------------------------------------------------------------------------
(* xSync and xClose. *)

\* A flush begins: the pages it will not send are in the blob already.
LEMMA StartFlushEffect ==
  ASSUME Inv, NEW c \in Conn, StartFlush(c), pc[c] = "idle", eLock[c] \in {NONE, EXCLUSIVE},
         SameContent, LeaseIntact(c)' <=> LeaseIntact(c)
  PROVE  /\ (pc \in [Conn -> PC])' /\ LockTypeOK' /\ CacheTypeOK' /\ XferTypeOK' /\ TaintTypeOK'
         /\ nWrites' = nWrites
         /\ Others(c) /\ ConnInv(c)'
<1>1. /\ pc' \in [Conn -> PC] /\ pc'[c] = (IF nData[c] > synced[c] THEN "resize" ELSE "put")
      /\ \A d \in Conn \ {c} : pc'[d] = pc[d]
  BY GoToEffect DEF StartFlush, PC, Flushing, Inv, TypeOK
<1>2. /\ LockTypeOK' /\ CacheTypeOK' /\ \A d \in Conn : SameLock(d) /\ SameCache(d)
  BY KeepLock, KeepCache DEF StartFlush, Inv, TypeOK
<1>3. /\ XferTypeOK' /\ todo'[c] = ToFlush(c) /\ ret'[c] = NoEtag
      /\ \A d \in Conn \ {c} : SameXfer(d)
  <2>1. ToFlush(c) \in SUBSET Page
    BY DEF ToFlush, CacheTypeOK, Inv, TypeOK
  <2> QED
    BY <2>1 DEF StartFlush, XferTypeOK, SameXfer, NoEtag, Inv, TypeOK
<1>4. taint' = taint /\ nWrites' = nWrites
  BY DEF StartFlush
<1>5. Others(c) /\ TaintTypeOK'
  BY <1>1, <1>2, <1>3, <1>4 DEF Others, Same, TaintTypeOK, Inv, TypeOK
<1>6. ConnInv(c)'
  <2> USE <1>1, <1>2, <1>3 DEF SameLock, SameCache, SameContent
  <2>1. ConnInv(c) /\ bEtag \in Nat /\ etag[c] <= bEtag /\ Exists
    BY DEF BlobTypeOK, ConnInv, Etags, Inv, TypeOK
  <2>2. Fresh(c)' /\ Download(c)' /\ BlankBeyond(cache[c], nData[c])'
    BY <2>1 DEF ConnInv, Fresh, Opened, Download, Getting, TypeOK
  <2>3. Etags(c)'
    <3>1. etag'[c] <= bEtag' /\ ret'[c] = 0 /\ Exists' /\ bEtag' \in Nat
      BY <2>1 DEF Exists, NoEtag
    <3> QED
      BY SMT, <3>1 DEF Etags
  <2>4. Locks(c)'
    BY SMT, <2>1 DEF ConnInv, Locks, NONE, RESERVED, EXCLUSIVE
  <2>5. ASSUME Based(c)' PROVE CacheMatches(c)' /\ Flushed(c)'
    <3>1. Based(c)
      BY <1>4, <2>1, <2>5 DEF Based, Opened, Getting, EtagValid, Exists
    <3>2. CacheMatches(c)
      BY <2>1, <3>1 DEF ConnInv, Coherent
    <3>3. CacheMatches(c)'
      BY <3>2 DEF CacheMatches
    <3>4. bSize \in Nat /\ nData[c] \in Nat /\ synced[c] \in Nat
      BY SMT DEF BlobTypeOK, CacheTypeOK, Inv, TypeOK
    <3>5. pc'[c] = "put" => synced'[c] = nData'[c]
      BY SMT, <3>2, <3>4 DEF CacheMatches
    <3>6. ASSUME NEW p \in Page \ ToFlush(c) PROVE cache[c][p] = bData[p]
      <4>1. CASE p \notin dirty[c]
        BY <3>2, <4>1 DEF CacheMatches
      <4>2. CASE p \in dirty[c]
        <5>1. p > nData[c] /\ p > bSize
          BY SMT, <3>2, <3>4, <4>2 DEF ToFlush, Page, CacheMatches
        <5> QED
          BY <5>1 DEF ConnInv, BlankBeyond, Inv
      <4> QED
        BY <4>1, <4>2
    <3> QED
      BY <3>3, <3>5, <3>6 DEF Flushed
  <2>6. Coherent(c)'
    BY <2>5 DEF Coherent
  <2> QED
    BY <2>2, <2>3, <2>4, <2>6 DEF ConnInv
<1> QED
  BY <1>1, <1>2, <1>3, <1>4, <1>5, <1>6

\* xSync renews the lease and starts the flush.
LEMMA SyncInv == ASSUME Inv, NEW c \in Conn, Sync(c) PROVE Inv'
<1>1. LeaseStep(c) /\ (LeaseIntact(c)' <=> LeaseIntact(c))
  BY RenewalEffect DEF Sync
<1>2. CASE StartFlush(c) /\ UNCHANGED <<err, faults>>
  <2>1. pc[c] = "idle" /\ eLock[c] \in {NONE, EXCLUSIVE} /\ SameContent
    BY <1>1 DEF Sync, LeaseStep
  <2>2. LocalTypeOK' /\ Others(c) /\ ConnInv(c)'
    BY <1>1, <1>2, <2>1, StartFlushEffect DEF LocalTypeOK, Inv, TypeOK
  <2> QED
    BY <1>1, <2>2, LocalStep DEF TypeOK
<1>3. CASE LeaseNotKept(c) /\ IOError(c)
           /\ UNCHANGED <<pc, lockVars, cacheVars, xferVars, nWrites, taint>>
  <2>1. /\ LockTypeOK' /\ CacheTypeOK' /\ XferTypeOK'
        /\ \A d \in Conn : SameLock(d) /\ SameCache(d) /\ SameXfer(d)
    BY <1>3, KeepLock, KeepCache, KeepXfer DEF Inv, TypeOK
  <2>2. err' \subseteq Conn /\ faults' \in Nat
    BY <1>3, FaultType DEF IOError, LeaseNotKept, Inv, TypeOK
  <2>3. LocalTypeOK' /\ \A d \in Conn : Same(d) /\ taint'[d] = taint[d]
    BY <1>3, <2>1, <2>2 DEF LocalTypeOK, Same, TaintTypeOK, Inv, TypeOK
  <2> QED
    BY <1>1, <2>3, Untouched
<1> QED
  BY <1>2, <1>3 DEF Sync

\* xClose forgets a clean file and flushes one that is not.
LEMMA CloseInv == ASSUME Inv, NEW c \in Conn, Close(c) PROVE Inv'
<1>1. pc[c] = "idle" /\ eLock[c] = NONE /\ c \notin leased /\ UNCHANGED blobVars
  <2>1. pc[c] = "idle" /\ eLock[c] = NONE /\ UNCHANGED blobVars
    BY DEF Close
  <2>2. Locks(c)
    BY DEF ConnInv, Inv
  <2> QED
    BY SMT, <2>1, <2>2 DEF Locks, NONE, RESERVED
<1>2. CASE Forget(c) /\ taint' = [taint EXCEPT ![c] = {}] /\ UNCHANGED faults
  <2>1. TaintTypeOK' /\ \A d \in Conn \ {c} : taint'[d] = taint[d]
    BY <1>2 DEF TaintTypeOK, Inv, TypeOK
  <2> QED
    BY <1>1, <1>2, <2>1, QuietForget DEF Inv, TypeOK
<1>3. CASE StartFlush(c) /\ UNCHANGED <<err, faults>>
  <2>1. LeaseStep(c) /\ (LeaseIntact(c)' <=> LeaseIntact(c)) /\ SameContent
    BY <1>1, NoRequest DEF LeaseStep, Inv, TypeOK
  <2>2. LocalTypeOK' /\ Others(c) /\ ConnInv(c)'
    BY <1>1, <1>3, <2>1, StartFlushEffect DEF LocalTypeOK, Inv, TypeOK
  <2> QED
    BY <2>1, <2>2, LocalStep DEF TypeOK
<1> QED
  BY <1>2, <1>3 DEF Close

\* The connection flushing is between calls of the pager at EXCLUSIVE with a
\* lease, or in xClose without one.

-----------------------------------------------------------------------------
(* The requests of a flush. *)

\* Where a connection in a flush stands: with EXCLUSIVE and a lease, or in xClose.
LEMMA FlushLocks ==
  ASSUME Inv, NEW c \in Conn, pc[c] \in Flushing
  PROVE  /\ \/ eLock[c] = NONE /\ c \notin leased /\ ~LeaseIntact(c)
            \/ eLock[c] = EXCLUSIVE /\ c \in leased
         /\ bEtag \in Nat /\ etag[c] \in Nat /\ ret[c] \in Nat
         /\ etag[c] <= bEtag /\ ret[c] <= bEtag
         /\ nData[c] \in 0..MaxPages /\ synced[c] \in 0..MaxPages /\ bSize \in 0..MaxPages
<1>1. Locks(c) /\ Etags(c)
  BY DEF Inv, ConnInv
<1>2. /\ bEtag \in Nat /\ etag[c] \in Nat /\ ret[c] \in Nat
      /\ nData[c] \in 0..MaxPages /\ synced[c] \in 0..MaxPages /\ bSize \in 0..MaxPages
  BY DEF Inv, TypeOK, BlobTypeOK, CacheTypeOK, XferTypeOK
<1> QED
  BY <1>1, <1>2 DEF Locks, Etags

\* Growing the blob to the size of the cache file keeps them in agreement.
LEMMA GrownMatches ==
  ASSUME Inv, NEW c \in Conn, pc[c] \in Flushing, Based(c),
         bSize' = nData[c], \A p \in Page : bData'[p] = IF p <= nData[c] THEN bData[p] ELSE Blank
  PROVE  \A p \in Page : cache[c][p] = bData[p] => cache[c][p] = bData'[p]
<1>1. BlankBeyond(cache[c], nData[c])
  BY DEF Inv, ConnInv
<1>2. nData[c] \in Nat /\ \A p \in Page : p <= nData[c] \/ p > nData[c]
  BY SMT, FlushLocks DEF Page
<1> QED
  BY <1>1, <1>2 DEF BlankBeyond

\* The blob grows to the file before the pages are sent.
LEMMA ResizeInv == ASSUME Inv, NEW c \in Conn, Resize(c) PROVE Inv'
<1>1. pc[c] \in Flushing /\ pc[c] = "resize" /\ nData[c] \in 0..MaxPages
  BY DEF Resize, Flushing, CacheTypeOK, Inv, TypeOK
<1>2. /\ ContentStep(c) /\ bEtag \in Nat /\ bEtag' \in Nat /\ bSize' = nData[c]
      /\ \A p \in Page : bData'[p] = IF p <= nData[c] THEN bData[p] ELSE Blank
  BY <1>1, ResizeEffect DEF Resize
<1>3. pc' \in [Conn -> PC] /\ pc'[c] = "put" /\ \A d \in Conn \ {c} : pc'[d] = pc[d]
  BY GoToEffect DEF Resize, PC, Flushing, Inv, TypeOK
<1>4. /\ LockTypeOK' /\ XferTypeOK' /\ \A d \in Conn : SameLock(d) /\ SameXfer(d)
  BY KeepLock, KeepXfer DEF Resize, Inv, TypeOK
<1>5. /\ CacheTypeOK' /\ synced'[c] = nData[c] /\ \A d \in Conn \ {c} : SameCache(d)
  BY DEF Resize, CacheTypeOK, SameCache, Inv, TypeOK
<1>6. etag' = etag /\ cache' = cache /\ nData' = nData /\ dirty' = dirty
  BY DEF Resize
<1>7. Passed(c) /\ TaintTypeOK' /\ taint'[c] = taint[c]
  <2>1. Overtaken(c, {}) /\ {} \in SUBSET Reason
    BY DEF Resize
  <2>2. \A d \in Conn \ {c} : Same(d)
    BY <1>3, <1>4, <1>5 DEF Same
  <2>3. Passed(c) /\ TaintTypeOK' /\ taint'[c] = taint[c] \cup {}
    BY <2>1, <2>2, PassedBy DEF TypeOK
  <2> QED
    BY <2>3
<1>8. LocalTypeOK'
  BY <1>3, <1>4, <1>5, <1>7 DEF LocalTypeOK, Resize, envVars, Inv, TypeOK
<1>9. ConnInv(c)'
  <2>1. ConnInv(c) /\ etag[c] <= bEtag /\ ret[c] <= bEtag /\ etag[c] \in Nat /\ ret[c] \in Nat
    BY <1>1, FlushLocks DEF Inv
  <2>2. bEtag' = bEtag + 1
    BY <1>2 DEF ContentStep
  <2>3. Fresh(c)' /\ Download(c)' /\ BlankBeyond(cache[c], nData[c])'
    BY <1>3, <1>6, <2>1 DEF ConnInv, Fresh, Opened, Download, Getting
  <2>4. Etags(c)'
    BY SMT, <1>2, <1>4, <1>6, <2>1, <2>2 DEF Etags, Exists, NoEtag, SameXfer
  <2>5. Locks(c)'
    BY <1>1, <1>2, <1>3, <1>4, FlushLocks DEF Locks, SameLock, LeaseIntact, ContentStep
  <2>6. ASSUME Based(c)' PROVE CacheMatches(c)' /\ Flushed(c)'
    <3>1. Based(c)
      BY SMT, <1>1, <1>2, <1>4, <1>6, <1>7, <2>1, <2>2, <2>6, StillBased DEF SameXfer
    <3>2. CacheMatches(c) /\ Flushed(c)
      BY <2>1, <3>1 DEF ConnInv, Coherent
    <3>3. \A p \in Page : cache[c][p] = bData[p] => cache[c][p] = bData'[p]
      BY <1>1, <1>2, <3>1, GrownMatches
    <3>4. CacheMatches(c)'
      BY SMT, <1>1, <1>2, <1>5, <1>6, <3>2, <3>3 DEF CacheMatches
    <3>5. Flushed(c)'
      BY <1>1, <1>4, <1>5, <1>6, <3>2, <3>3 DEF Flushed, SameXfer
    <3> QED
      BY <3>4, <3>5
  <2>7. Coherent(c)'
    BY <2>6 DEF Coherent
  <2> QED
    BY <2>3, <2>4, <2>5, <2>7 DEF ConnInv
<1> QED
  BY <1>2, <1>7, <1>8, <1>9, WriteStep

\* One page write of c: what it asks of the service and what it does there.
LEMMA PutEffect ==
  ASSUME Inv, NEW c \in Conn, NEW r, PutRange(c, r)
  PROVE  /\ ContentStep(c) /\ bSize' = bSize /\ bEtag' \in Nat
         /\ \A p \in Page : bData'[p] = IF p \in r THEN cache[c][p] ELSE bData[p]
         /\ EtagValid(c) \/ LeaseIntact(c)
<1> DEFINE new == [p \in Page |-> IF p \in r THEN cache[c][p] ELSE bData[p]]
<1>1. /\ BlobTypeOK /\ bData \in [Page -> Int] /\ bEtag \in Nat /\ bSize \in 0..MaxPages
      /\ cache[c] \in [Page -> Int] /\ BlankBeyond(bData, bSize)
  BY DEF Inv, TypeOK, BlobTypeOK, CacheTypeOK
<1>2. new \in [Page -> Int]
  BY <1>1
<1>3. /\ holder = (IF c \in leased THEN c ELSE NoLease)
      /\ (IF c \in leased THEN NoEtag ELSE etag[c]) \in {NoEtag, bEtag}
      /\ r \subseteq 1..bSize
      /\ Modified(bSize, new)
  BY DEF PutRange, PageBlobWrite, MayWrite, IfMatch
<1>4. EtagValid(c) \/ LeaseIntact(c)
  BY <1>3 DEF EtagValid, LeaseIntact
<1>5. BlankBeyond(new, bSize)
  BY SMT, <1>1, <1>3 DEF BlankBeyond, Page
<1>6. \A p \in Page : new[p] = IF p \in r THEN cache[c][p] ELSE bData[p]
  OBVIOUS
<1> HIDE DEF new
<1>7. /\ BlobTypeOK' /\ bEtag' = bEtag + 1 /\ bSize' = bSize /\ bData' = new
      /\ holder' = holder /\ lapsed' = NoLease
  BY <1>1, <1>2, <1>3, ModifiedEffect
<1>8. ContentStep(c)
  BY <1>3, <1>5, <1>7 DEF ContentStep
<1> QED
  BY SMT, <1>1, <1>4, <1>6, <1>7, <1>8

\* One range of a flush: what leaves todo is in the blob.
LEMMA PutInv == ASSUME Inv, NEW c \in Conn, Put(c) PROVE Inv'
<1>1. pc[c] \in Flushing /\ pc[c] = "put" /\ pc' = pc
  BY DEF Put, Flushing
<1>2. PICK r \in Ranges(ToFlush(c)) :
         /\ r \subseteq todo[c]
         /\ PutRange(c, r)
         /\ \/ todo' = [todo EXCEPT ![c] = @ \ r] /\ UNCHANGED faults
            \/ UNCHANGED todo /\ Fault
  BY DEF Put
<1>3. /\ ContentStep(c) /\ bSize' = bSize /\ bEtag' \in Nat
      /\ \A p \in Page : bData'[p] = IF p \in r THEN cache[c][p] ELSE bData[p]
      /\ EtagValid(c) \/ LeaseIntact(c)
  BY <1>2, PutEffect
<1>4. /\ LockTypeOK' /\ CacheTypeOK' /\ \A d \in Conn : SameLock(d) /\ SameCache(d)
  BY KeepLock, KeepCache DEF Put, Inv, TypeOK
<1>5. /\ todo' \in [Conn -> SUBSET Page] /\ todo'[c] \in {todo[c], todo[c] \ r}
      /\ \A d \in Conn \ {c} : todo'[d] = todo[d]
  BY <1>2 DEF XferTypeOK, Inv, TypeOK
<1>6. /\ ret' \in [Conn -> Nat] /\ ret'[c] \in {ret[c], bEtag'}
      /\ \A d \in Conn \ {c} : ret'[d] = ret[d]
  <2>1. PICK e \in {ret[c], bEtag'} : ret' = [ret EXCEPT ![c] = e]
    BY DEF Put
  <2> QED
    BY <1>3, <2>1 DEF XferTypeOK, Inv, TypeOK
<1>7. XferTypeOK' /\ \A d \in Conn \ {c} : SameXfer(d)
  BY SMT, <1>6 DEF Put, XferTypeOK, SameXfer, Inv, TypeOK
<1>8. Passed(c) /\ TaintTypeOK' /\ taint'[c] = taint[c]
  <2>1. Overtaken(c, {}) /\ {} \in SUBSET Reason
    BY DEF Put
  <2>2. \A d \in Conn \ {c} : Same(d)
    BY <1>1, <1>4, <1>7 DEF Same
  <2>3. Passed(c) /\ TaintTypeOK' /\ taint'[c] = taint[c] \cup {}
    BY <2>1, <2>2, PassedBy
  <2> QED
    BY <2>3
<1>9. faults' \in Nat
  BY <1>2, FaultType DEF Inv, TypeOK
<1>10. LocalTypeOK'
  BY <1>4, <1>7, <1>8, <1>9 DEF LocalTypeOK, Put, Inv, TypeOK
<1>11. ConnInv(c)'
  <2>1. ConnInv(c) /\ etag[c] <= bEtag /\ ret[c] <= bEtag /\ etag[c] \in Nat /\ ret[c] \in Nat
        /\ bEtag \in Nat
    BY <1>1, FlushLocks DEF Inv
  <2>2. bEtag' = bEtag + 1
    BY <1>3 DEF ContentStep
  <2>3. Fresh(c)' /\ Download(c)' /\ BlankBeyond(cache[c], nData[c])'
    BY <1>1, <1>4, <2>1 DEF ConnInv, Fresh, Opened, Download, Getting, SameCache
  <2>4. Etags(c)'
    <3>1. etag'[c] <= bEtag' /\ ret'[c] <= bEtag' /\ bEtag' # 0
      BY SMT, <1>4, <1>6, <2>1, <2>2 DEF SameCache
    <3> QED
      BY <3>1 DEF Etags, Exists, NoEtag
  <2>5. Locks(c)'
    BY <1>1, <1>3, <1>4, FlushLocks DEF Locks, LeaseIntact, ContentStep, SameLock
  <2>6. ASSUME Based(c)' PROVE CacheMatches(c)' /\ Flushed(c)'
    <3>1. Based(c)
      BY <1>1, <1>3, <1>4, <1>8, <2>6, StillBased DEF SameCache
    <3>2. CacheMatches(c) /\ Flushed(c)
      BY <2>1, <3>1 DEF ConnInv, Coherent
    <3>3. CacheMatches(c)'
      BY <1>3, <1>4, <3>2 DEF CacheMatches, SameCache
    <3>4. Flushed(c)'
      BY <1>1, <1>3, <1>4, <1>5, <3>2 DEF Flushed, SameCache
    <3> QED
      BY <3>3, <3>4
  <2>7. Coherent(c)'
    BY <2>6 DEF Coherent
  <2> QED
    BY <2>3, <2>4, <2>5, <2>7 DEF ConnInv, SameCache
<1> QED
  BY <1>3, <1>8, <1>10, <1>11, WriteStep

\* The lease is renewed between two ranges.
LEMMA FlushRenewInv == ASSUME Inv, NEW c \in Conn, FlushRenew(c) PROVE Inv'
<1>1. LeaseStep(c) /\ LeaseIntact(c)
  BY RenewEffect DEF FlushRenew, Inv, TypeOK
<1>2. /\ LockTypeOK' /\ CacheTypeOK' /\ XferTypeOK'
      /\ \A d \in Conn : SameLock(d) /\ SameCache(d) /\ SameXfer(d)
  BY KeepLock, KeepCache, KeepXfer DEF FlushRenew, Inv, TypeOK
<1>3. LocalTypeOK' /\ \A d \in Conn : Same(d) /\ taint'[d] = taint[d]
  BY <1>2 DEF LocalTypeOK, Same, FlushRenew, envVars, TaintTypeOK, Inv, TypeOK
<1> QED
  BY <1>1, <1>3, Untouched

\* A flush ends early, with the dirty bits as they were.
LEMMA FlushFailInv == ASSUME Inv, NEW c \in Conn, FlushFail(c) PROVE Inv'
<1> DEFINE quiet == UNCHANGED <<blobVars, taint>>
           grown == PageBlobResize(c, c \in leased, nData[c]) /\ Overtaken(c, {})
           back == /\ GoTo(c, "idle") /\ IOError(c) /\ EndXfer(c)
                   /\ UNCHANGED <<lockVars, cacheVars, nWrites>>
<1>1. pc[c] \in Flushing /\ (quiet \/ grown)
  BY DEF FlushFail, Flushing
<1>2. faults' \in Nat
  BY FaultType DEF FlushFail, Inv, TypeOK
<1>3. (eLock[c] = NONE /\ Forget(c)) \/ (eLock[c] # NONE /\ back)
  BY DEF FlushFail, SyncError
<1>4. ConnInv(c) /\ nData[c] \in 0..MaxPages
  BY <1>1, FlushLocks DEF Inv
<1>5. ASSUME grown
      PROVE  /\ ContentStep(c) /\ bEtag' \in Nat /\ bEtag' = bEtag + 1 /\ bSize' = nData[c]
             /\ \A p \in Page : bData'[p] = IF p <= nData[c] THEN bData[p] ELSE Blank
  BY <1>4, <1>5, ResizeEffect DEF ContentStep
<1>6. CASE eLock[c] = NONE /\ Forget(c)
  <2>1. c \notin leased /\ ~LeaseIntact(c)
    BY SMT, <1>1, <1>6, FlushLocks DEF NONE, EXCLUSIVE
  <2>2. CASE quiet
    BY <1>2, <1>6, <2>1, <2>2, QuietForget DEF TaintTypeOK, Inv, TypeOK
  <2>3. CASE grown
    <3>1. ~LeaseIntact(c)' /\ BlobTypeOK'
      BY <1>5, <2>1, <2>3 DEF ContentStep, LeaseIntact
    <3>2. ConnInv(c)'
      BY <1>6, <3>1, Forgotten
    <3>3. {} \in SUBSET Reason /\ \A d \in Conn \ {c} : Same(d)
      BY <1>6, ForgetEffect DEF Inv
    <3>4. Passed(c) /\ TaintTypeOK'
      BY <2>3, <3>3, PassedBy
    <3>5. LocalTypeOK'
      BY <1>2, <1>6, <3>4, ForgetEffect DEF LocalTypeOK, Inv
    <3> QED
      BY <1>5, <2>3, <3>2, <3>4, <3>5, WriteStep
  <2> QED
    BY <1>1, <2>2, <2>3
<1>7. CASE eLock[c] # NONE /\ back
  <2>1. pc' \in [Conn -> PC] /\ pc'[c] = "idle" /\ \A d \in Conn \ {c} : pc'[d] = pc[d]
    BY <1>7, GoToEffect DEF PC, Inv, TypeOK
  <2>2. /\ LockTypeOK' /\ CacheTypeOK' /\ \A d \in Conn : SameLock(d) /\ SameCache(d)
    BY <1>7, KeepLock, KeepCache DEF Inv, TypeOK
  <2>3. XferTypeOK' /\ ret'[c] = NoEtag /\ \A d \in Conn \ {c} : SameXfer(d)
    BY <1>7, EndXferEffect DEF Inv, TypeOK
  <2>4. err' \subseteq Conn /\ nWrites' \in Nat
    BY <1>7 DEF IOError, Inv, TypeOK
  <2>5. eLock[c] = EXCLUSIVE /\ c \in leased
    BY <1>1, <1>7, FlushLocks
  <2>6. Locks(c)'
    BY SMT, <2>1, <2>2, <2>5 DEF Locks, SameLock, RESERVED, EXCLUSIVE
  <2>7. CASE quiet
    <3>1. LeaseStep(c) /\ (LeaseIntact(c)' <=> LeaseIntact(c))
      BY <2>7, NoRequest DEF Inv, TypeOK
    <3>2. LocalTypeOK' /\ Others(c)
      BY <1>2, <2>1, <2>2, <2>3, <2>4, <2>7
         DEF LocalTypeOK, TaintTypeOK, Others, Same, Inv, TypeOK
    <3>3. Based(c)' => Based(c)
      BY <1>1, <2>1, <2>2, <2>7, <3>1
         DEF Based, Opened, Getting, Flushing, EtagValid, LeaseStep, SameContent, SameCache
    <3>4. ConnInv(c)'
      BY <1>1, <2>1, <2>2, <2>3, <2>6, <3>1, <3>3, Relocked DEF LeaseStep, Flushing
    <3> QED
      BY <3>1, <3>2, <3>4, LocalStep
  <2>8. CASE grown
    <3>1. {} \in SUBSET Reason /\ Overtaken(c, {}) /\ \A d \in Conn \ {c} : Same(d)
      BY <2>1, <2>2, <2>3, <2>8 DEF Same
    <3>2. Passed(c) /\ TaintTypeOK' /\ taint'[c] = taint[c] \cup {}
      BY <3>1, PassedBy
    <3>3. LocalTypeOK'
      BY <1>2, <2>1, <2>2, <2>3, <2>4, <3>2 DEF LocalTypeOK
    <3>4. ConnInv(c)'
      <4>1. Fresh(c)' /\ Download(c)' /\ BlankBeyond(cache[c], nData[c])'
        BY <1>4, <2>1, <2>2 DEF ConnInv, Fresh, Opened, Download, Getting, SameCache
      <4>2. Etags(c)'
        <5>1. bEtag \in Nat /\ etag[c] \in Nat /\ etag[c] <= bEtag /\ bEtag' = bEtag + 1
          BY <1>1, <1>5, <2>8, FlushLocks
        <5> QED
          BY SMT, <2>2, <2>3, <5>1 DEF Etags, Exists, NoEtag, SameCache
      <4>3. ASSUME Based(c)' PROVE CacheMatches(c)'
        <5>1. Based(c)
          BY <1>1, <1>5, <2>1, <2>2, <2>8, <3>2, <4>3, StillBased
             DEF Flushing, TypeOK, SameCache
        <5>2. CacheMatches(c)
          BY <1>4, <5>1 DEF ConnInv, Coherent
        <5>3. \A p \in Page : cache[c][p] = bData[p] => cache[c][p] = bData'[p]
          BY <1>1, <1>5, <2>8, <5>1, GrownMatches
        <5>4. synced[c] <= nData[c] /\ nData[c] <= nData[c]
          BY SMT, <1>1, <5>2, FlushLocks DEF CacheMatches
        <5> QED
          <6>1. bSize' = nData[c]
            BY <1>5, <2>8 DEF TypeOK
          <6>2. /\ synced'[c] = synced[c] /\ nData'[c] = nData[c]
                /\ dirty'[c] = dirty[c] /\ cache'[c] = cache[c]
            BY <2>2 DEF SameCache
          <6>3. \A p \in Page \ dirty[c] : cache[c][p] = bData'[p]
            BY <5>2, <5>3 DEF CacheMatches
          <6> QED
            BY <5>4, <6>1, <6>2, <6>3 DEF CacheMatches
      <4>4. Coherent(c)'
        BY <2>1, <4>3 DEF Coherent, Flushed, Flushing
      <4> QED
        BY <2>6, <4>1, <4>2, <4>4 DEF ConnInv
    <3> QED
      BY <1>5, <2>8, <3>2, <3>3, <3>4, WriteStep
  <2> QED
    BY <1>1, <2>7, <2>8
<1> QED
  BY <1>3, <1>6, <1>7

\* A flush ends: the file is clean and the blob is what it is.
LEMMA FlushDoneInv == ASSUME Inv, NEW c \in Conn, FlushDone(c) PROVE Inv'
<1>1. pc[c] \in Flushing /\ pc[c] = "put" /\ todo[c] = {} /\ UNCHANGED <<blobVars, faults>>
  BY DEF FlushDone, Flushing
<1>2. CASE eLock[c] = NONE /\ Forget(c) /\ UNCHANGED taint
  <2>1. c \notin leased
    BY SMT, <1>1, <1>2, FlushLocks DEF NONE, EXCLUSIVE
  <2> QED
    BY <1>1, <1>2, <2>1, QuietForget DEF TaintTypeOK, Inv, TypeOK
<1>3. CASE /\ eLock[c] # NONE
           /\ GoTo(c, "idle")
           /\ etag' = [etag EXCEPT ![c] = IF ret[c] = NoEtag THEN @ ELSE ret[c]]
           /\ dirty' = [dirty EXCEPT ![c] = {}]
           /\ err' = err \ {c}
           /\ EndXfer(c)
           /\ UNCHANGED <<lockVars, cache, nData, synced, nWrites, taint>>
  <2>1. pc' \in [Conn -> PC] /\ pc'[c] = "idle" /\ \A d \in Conn \ {c} : pc'[d] = pc[d]
    BY <1>3, GoToEffect DEF PC, Inv, TypeOK
  <2>2. LockTypeOK' /\ \A d \in Conn : SameLock(d)
    BY <1>3, KeepLock DEF Inv, TypeOK
  <2>3. XferTypeOK' /\ ret'[c] = NoEtag /\ \A d \in Conn \ {c} : SameXfer(d)
    BY <1>3, EndXferEffect DEF Inv, TypeOK
  <2>4. /\ CacheTypeOK' /\ \A d \in Conn \ {c} : SameCache(d)
        /\ dirty'[c] = {} /\ etag'[c] = IF ret[c] = NoEtag THEN etag[c] ELSE ret[c]
        /\ cache' = cache /\ nData' = nData /\ synced' = synced
    <3>1. ret[c] \in Nat
      BY <1>1, FlushLocks
    <3> QED
      BY <1>3, <3>1 DEF CacheTypeOK, SameCache, Inv, TypeOK
  <2>5. taint' = taint /\ LocalTypeOK' /\ Others(c)
    BY <1>1, <1>3, <2>1, <2>2, <2>3, <2>4
       DEF LocalTypeOK, TaintTypeOK, Others, Same, Inv, TypeOK
  <2>6. LeaseStep(c) /\ (LeaseIntact(c)' <=> LeaseIntact(c)) /\ SameContent
    BY <1>1, NoRequest DEF LeaseStep, Inv, TypeOK
  <2>7. ConnInv(c)'
    <3>1. ConnInv(c) /\ Exists
      BY <1>1 DEF ConnInv, Etags, Inv
    <3>2. Fresh(c)' /\ Download(c)' /\ BlankBeyond(cache[c], nData[c])'
      BY <2>1, <2>4, <3>1 DEF ConnInv, Fresh, Opened, Download, Getting
    <3>3. Etags(c)'
      <4>1. etag[c] <= bEtag /\ ret[c] <= bEtag /\ bEtag \in Nat
        BY <1>1, FlushLocks
      <4> QED
        <5>1. etag'[c] <= bEtag' /\ ret'[c] = 0 /\ Exists'
          BY <2>3, <2>4, <2>6, <3>1, <4>1 DEF Exists, NoEtag, SameContent
        <5> QED
          BY SMT, <2>6, <4>1, <5>1 DEF Etags, SameContent
    <3>4. Locks(c)'
      BY SMT, <1>1, <1>3, <2>1, <2>2, FlushLocks DEF Locks, SameLock, RESERVED, EXCLUSIVE
    <3>5. ASSUME Based(c)' PROVE CacheMatches(c)'
      <4>1. Based(c)
        <5>1. taint[c] = {} /\ (EtagValid(c)' \/ LeaseIntact(c))
          BY <2>1, <2>5, <2>6, <3>5 DEF Based
        <5>2. EtagValid(c)' => EtagValid(c) \/ ret[c] = bEtag
          BY <2>4, <2>6 DEF EtagValid, SameContent
        <5> QED
          BY <1>1, <5>1, <5>2 DEF Based, Opened, Getting
      <4>2. CacheMatches(c) /\ Flushed(c)
        BY <3>1, <4>1 DEF ConnInv, Coherent
      <4>3. synced[c] = nData[c] /\ \A p \in Page : cache[c][p] = bData[p]
        BY <1>1, <4>2 DEF Flushed
      <4>4. nData[c] = bSize
        BY SMT, <1>1, <4>2, <4>3, FlushLocks DEF CacheMatches
      <4> QED
        BY <2>4, <2>6, <4>2, <4>3, <4>4 DEF CacheMatches, SameContent
    <3>6. Coherent(c)'
      BY <2>1, <3>5 DEF Coherent, Flushed, Flushing
    <3> QED
      BY <3>2, <3>3, <3>4, <3>6 DEF ConnInv, TypeOK
  <2> QED
    BY <2>5, <2>6, <2>7, LocalStep
<1> QED
  BY <1>2, <1>3 DEF FlushDone
=============================================================================

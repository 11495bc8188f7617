-------------------------- MODULE MainDbLockProofs --------------------------
(***************************************************************************)
(* xOpen, every download, xLock, xUnlock and xRead preserve the invariant  *)
(* of MainDb.                                                              *)
(***************************************************************************)
EXTENDS MainDbInv

\* Most leaves are first-order; a leaf that needs arithmetic cites SMT.
USE Zenon

-----------------------------------------------------------------------------
(* xOpen. *)

\* blob_exists at the start of xOpen.
LEMMA OpenExistsInv == ASSUME Inv, NEW c \in Conn, OpenExists(c) PROVE Inv'
<1>1. LeaseStep(c) /\ (LeaseIntact(c)' <=> LeaseIntact(c))
  BY NoRequest DEF OpenExists, Inv, TypeOK
<1>2. /\ pc' \in [Conn -> PC] /\ pc'[c] = (IF Exists THEN "openHead" ELSE "openCreate")
      /\ \A d \in Conn \ {c} : pc'[d] = pc[d]
  BY GoToEffect DEF OpenExists, PC, Inv, TypeOK
<1>3. /\ LockTypeOK' /\ CacheTypeOK' /\ XferTypeOK'
      /\ \A d \in Conn : SameLock(d) /\ SameCache(d) /\ SameXfer(d)
  BY KeepLock, KeepCache, KeepXfer DEF OpenExists, Inv, TypeOK
<1>4. TaintTypeOK' /\ \A d \in Conn \ {c} : taint'[d] = taint[d]
  BY DEF OpenExists, TaintTypeOK, Inv, TypeOK
<1>5. LocalTypeOK' /\ Others(c)
  BY <1>2, <1>3, <1>4 DEF LocalTypeOK, Others, Same, OpenExists, envVars, Inv, TypeOK
<1>6. ConnInv(c)'
  <2> USE <1>2, <1>3 DEF SameLock, SameCache, SameXfer, LeaseStep, SameContent
  <2>1. pc[c] = "closed" /\ ConnInv(c)
    BY DEF OpenExists, Inv
  <2>2. Fresh(c)' /\ Etags(c)'
    BY <1>1, <2>1 DEF ConnInv, Fresh, Etags, Opened, Exists
  <2>3. Locks(c)'
    BY <1>1, <2>1 DEF ConnInv, Locks
  <2>4. BlankBeyond(cache[c], nData[c])' /\ Download(c)' /\ Coherent(c)'
    BY <2>1 DEF ConnInv, Download, Coherent, Based, Opened, Getting
  <2> QED
    BY <2>2, <2>3, <2>4 DEF ConnInv
<1> QED
  BY <1>1, <1>5, <1>6, LocalStep

\* The HEAD of xOpen, and the start of the download.
LEMMA OpenHeadInv == ASSUME Inv, NEW c \in Conn, OpenHead(c) PROVE Inv'
<1>1. LeaseStep(c) /\ (LeaseIntact(c)' <=> LeaseIntact(c))
  BY NoRequest DEF OpenHead, Inv, TypeOK
<1>2. pc[c] = "openHead" /\ eLock[c] = NONE /\ c \notin leased /\ ~LeaseIntact(c) /\ Exists
  BY DEF OpenHead, ConnInv, Locks, Etags, Inv
<1>3. Refresh(c, "getOpen", NONE)
  BY <1>2 DEF OpenHead, Refresh, lockVars, LockTypeOK, Inv, TypeOK
<1>4. LockTypeOK' /\ \A d \in Conn : SameLock(d)
  BY KeepLock DEF OpenHead, Inv, TypeOK
<1> DEFINE gets == /\ pc'[c] = "getOpen"
                   /\ todo'[c] = 1..bSize /\ buf'[c] = BlankPages /\ want'[c] = bSize
                   /\ ret'[c] = ret[c] /\ cache'[c] = cache[c] /\ nData'[c] = nData[c]
           empty == /\ bSize = 0
                    /\ pc'[c] = "idle" /\ ret'[c] = NoEtag
                    /\ cache'[c] = BlankPages /\ nData'[c] = 0 /\ synced'[c] = 0 /\ dirty'[c] = {}
<1>5. /\ (pc \in [Conn -> PC])' /\ CacheTypeOK' /\ XferTypeOK' /\ TaintTypeOK'
      /\ etag'[c] = bEtag
      /\ gets \/ empty
      /\ \A d \in Conn \ {c} : /\ pc'[d] = pc[d] /\ SameCache(d) /\ SameXfer(d)
                                /\ taint'[d] = taint[d]
  BY <1>3, RefreshEffect DEF Getting, Inv
<1>6. LocalTypeOK' /\ Others(c)
  BY <1>4, <1>5 DEF LocalTypeOK, Others, Same, OpenHead, envVars, Inv, TypeOK
<1>7. Locks(c)'
  BY SMT, <1>1, <1>2, <1>4, <1>5 DEF Locks, SameLock, Flushing, NONE, RESERVED
<1>8. CASE gets
  <2>1. BlankBeyond(cache[c], nData[c])' /\ ret'[c] <= bEtag
    BY <1>8 DEF ConnInv, Etags, Inv
  <2>2. ConnInv(c)'
    BY <1>1, <1>2, <1>5, <1>7, <1>8, <2>1, Downloading DEF LeaseStep, Getting, Inv
  <2> QED
    BY <1>1, <1>6, <2>2, LocalStep DEF TypeOK
<1>9. CASE empty
  <2>1. ConnInv(c)'
    BY <1>1, <1>2, <1>5, <1>7, <1>9, Emptied DEF LeaseStep
  <2> QED
    BY <1>1, <1>6, <2>1, LocalStep DEF Inv
<1> QED
  BY <1>5, <1>8, <1>9

\* PageBlobCreate as the other connections see it.
LEMMA CreateEffect ==
  ASSUME Inv, NEW c \in Conn, PageBlobCreate
  PROVE  /\ ContentStep(c) /\ Exists' /\ ~LeaseIntact(c)'
         /\ bSize' = 0 /\ bData' = BlankPages
<1>1. /\ BlobTypeOK' /\ bEtag' = bEtag + 1 /\ bSize' = 0 /\ bData' = BlankPages
      /\ holder' = holder /\ lapsed' = NoLease /\ holder = NoLease /\ bEtag \in Nat
  BY BlankType, Sizes, ModifiedEffect DEF Inv, TypeOK, PageBlobCreate, BlobTypeOK
<1> QED
  BY SMT, <1>1, ConnAssumption DEF ContentStep, Exists, NoEtag, LeaseIntact, BlankBeyond, BlankPages

\* page_blob_create in xOpen: it may replace a blob that others have open.
LEMMA OpenCreateInv == ASSUME Inv, NEW c \in Conn, OpenCreate(c) PROVE Inv'
<1>1. /\ ContentStep(c) /\ Exists' /\ ~LeaseIntact(c)'
      /\ bSize' = 0 /\ bData' = BlankPages
  BY CreateEffect DEF OpenCreate
<1>2. pc' \in [Conn -> PC] /\ pc'[c] = "idle" /\ \A d \in Conn \ {c} : pc'[d] = pc[d]
  BY GoToEffect DEF OpenCreate, PC, Inv, TypeOK
<1>3. /\ LockTypeOK' /\ CacheTypeOK' /\ XferTypeOK'
      /\ \A d \in Conn : SameLock(d) /\ SameCache(d) /\ SameXfer(d)
  BY KeepLock, KeepCache, KeepXfer DEF OpenCreate, Inv, TypeOK
<1>4. Passed(c) /\ TaintTypeOK'
  BY <1>2, <1>3, PassedBy DEF OpenCreate, Same
<1>5. LocalTypeOK'
  BY <1>2, <1>3, <1>4 DEF LocalTypeOK, OpenCreate, envVars, Inv, TypeOK
<1>6. ConnInv(c)'
  <2> USE <1>1, <1>2, <1>3 DEF SameLock, SameCache, SameXfer
  <2>1. pc[c] = "openCreate" /\ ConnInv(c)
    BY DEF OpenCreate, Inv
  <2>2. /\ eLock[c] = NONE /\ c \notin leased /\ etag[c] = NoEtag /\ cache[c] = BlankPages
        /\ nData[c] = 0 /\ synced[c] = 0 /\ dirty[c] = {} /\ ret[c] = NoEtag
    BY <2>1 DEF ConnInv, Fresh, Locks, Opened
  <2>3. Fresh(c)' /\ Download(c)' /\ BlankBeyond(cache[c], nData[c])'
    BY SMT, <2>2 DEF Fresh, Download, Getting, BlankBeyond, BlankPages
  <2>4. Etags(c)'
    BY SMT, <2>2 DEF Etags, NoEtag, ContentStep, BlobTypeOK
  <2>5. Locks(c)'
    BY SMT, <2>2 DEF Locks, NONE, RESERVED
  <2>6. Coherent(c)'
    BY SMT, <2>2 DEF Coherent, CacheMatches, Flushed
  <2> QED
    BY <2>3, <2>4, <2>5, <2>6 DEF ConnInv
<1> QED
  BY <1>1, <1>4, <1>5, <1>6, WriteStep

\* xOpen fails, perhaps after the blob was created.
LEMMA OpenFailInv == ASSUME Inv, NEW c \in Conn, OpenFail(c) PROVE Inv'
<1>1. pc' \in [Conn -> PC] /\ pc'[c] = "closed" /\ \A d \in Conn \ {c} : pc'[d] = pc[d]
  BY GoToEffect DEF OpenFail, PC, Inv, TypeOK
<1>2. /\ LockTypeOK' /\ CacheTypeOK' /\ XferTypeOK'
      /\ \A d \in Conn : SameLock(d) /\ SameCache(d) /\ SameXfer(d)
  BY KeepLock, KeepCache, KeepXfer DEF OpenFail, Inv, TypeOK
<1>3. err' = err /\ nWrites' = nWrites /\ faults' \in Nat
  BY FaultType DEF OpenFail, Inv, TypeOK
<1>4. ASSUME bEtag' \in Nat, ~LeaseIntact(c)' PROVE ConnInv(c)'
  <2> USE <1>1, <1>2, <1>4 DEF SameLock, SameCache, SameXfer
  <2>1. pc[c] \in {"openHead", "openCreate"} /\ ConnInv(c)
    BY DEF OpenFail, Inv
  <2>2. Fresh(c) /\ etag[c] = NoEtag /\ ret[c] = NoEtag /\ eLock[c] = NONE /\ c \notin leased
    BY <2>1 DEF ConnInv, Fresh, Locks, Opened
  <2>3. Fresh(c)' /\ Download(c)' /\ BlankBeyond(cache[c], nData[c])' /\ Coherent(c)'
    BY <2>1 DEF ConnInv, Fresh, Download, Opened, Getting, Coherent, Based
  <2>4. Etags(c)' /\ Locks(c)'
    BY SMT, <2>2 DEF Etags, NoEtag, Locks
  <2> QED
    BY <2>3, <2>4 DEF ConnInv
<1>5. CASE UNCHANGED <<blobVars, taint>>
  <2>1. LeaseStep(c) /\ ~LeaseIntact(c)'
    BY <1>5, NoRequest DEF OpenFail, ConnInv, Locks, Inv, TypeOK
  <2>2. ConnInv(c)'
    BY <1>4, <2>1 DEF LeaseStep, BlobTypeOK
  <2>3. LocalTypeOK' /\ Others(c)
    BY <1>1, <1>2, <1>3, <1>5 DEF LocalTypeOK, Others, Same, TaintTypeOK, Inv, TypeOK
  <2> QED
    BY <2>1, <2>2, <2>3, LocalStep DEF Inv
<1>6. CASE PageBlobCreate /\ Overtaken(c, {})
  <2>1. ContentStep(c) /\ ~LeaseIntact(c)'
    BY <1>6, CreateEffect
  <2>2. ConnInv(c)'
    BY <1>4, <2>1 DEF ContentStep, BlobTypeOK
  <2>3. Passed(c) /\ TaintTypeOK'
    BY <1>1, <1>2, <1>6, PassedBy DEF Same, Inv
  <2>4. LocalTypeOK'
    BY <1>1, <1>2, <1>3, <2>3 DEF LocalTypeOK, Inv, TypeOK
  <2> QED
    BY <2>1, <2>2, <2>3, <2>4, WriteStep
<1> QED
  BY <1>5, <1>6 DEF OpenFail

-----------------------------------------------------------------------------
(* Downloads. *)

\* One chunk of a download: the buffer stays right as long as the ETag is.
LEMMA FetchInv == ASSUME Inv, NEW c \in Conn, Fetch(c) PROVE Inv'
<1>1. LeaseStep(c) /\ (LeaseIntact(c)' <=> LeaseIntact(c))
  BY NoRequest DEF Fetch, Inv, TypeOK
<1>2. /\ LockTypeOK' /\ CacheTypeOK' /\ \A d \in Conn : SameLock(d) /\ SameCache(d)
  BY KeepLock, KeepCache DEF Fetch, Inv, TypeOK
<1>3. pc' = pc /\ want' = want /\ ret' = ret /\ req' = req /\ taint' = taint
  BY DEF Fetch
<1>4. PICK ch \in Chunks :
         /\ buf' = [buf EXCEPT ![c] =
                      [p \in Page |-> IF p \notin ch \cap todo[c] THEN buf[c][p]
                                      ELSE IF p <= bSize THEN bData[p] ELSE Junk]]
         /\ todo' = [todo EXCEPT ![c] = @ \ ch]
  BY DEF Fetch
<1>5. /\ todo' \in [Conn -> SUBSET Page] /\ todo'[c] = todo[c] \ ch
      /\ \A d \in Conn \ {c} : todo'[d] = todo[d]
  BY <1>4 DEF XferTypeOK, Inv, TypeOK
<1>6. /\ buf' \in [Conn -> [Page -> Int]]
      /\ buf'[c] = [p \in Page |-> IF p \notin ch \cap todo[c] THEN buf[c][p]
                                   ELSE IF p <= bSize THEN bData[p] ELSE Junk]
      /\ \A d \in Conn \ {c} : buf'[d] = buf[d]
  <2> DEFINE b == [p \in Page |-> IF p \notin ch \cap todo[c] THEN buf[c][p]
                                  ELSE IF p <= bSize THEN bData[p] ELSE Junk]
  <2>1. b \in [Page -> Int]
    BY SMT DEF XferTypeOK, BlobTypeOK, Junk, Inv, TypeOK
  <2>2. buf' = [buf EXCEPT ![c] = b]
    BY <1>4
  <2> HIDE DEF b
  <2>3. buf' \in [Conn -> [Page -> Int]] /\ buf'[c] = b /\ \A d \in Conn \ {c} : buf'[d] = buf[d]
    BY <2>1, <2>2 DEF XferTypeOK, Inv, TypeOK
  <2> QED
    BY <2>3 DEF b
<1>7. XferTypeOK' /\ \A d \in Conn \ {c} : SameXfer(d)
  BY <1>3, <1>5, <1>6 DEF XferTypeOK, SameXfer, Inv, TypeOK
<1>8. LocalTypeOK' /\ Others(c)
  BY <1>2, <1>7 DEF LocalTypeOK, Others, Same, TaintTypeOK, Fetch, envVars, Inv, TypeOK
<1>9. ConnInv(c)'
  <2> USE <1>2, <1>3 DEF SameLock, SameCache, LeaseStep, SameContent
  <2>1. pc[c] \in Getting /\ ConnInv(c)
    BY DEF Fetch, Inv
  <2>2. Fresh(c)' /\ Etags(c)'
    BY <1>1, <2>1 DEF ConnInv, Fresh, Etags, Opened, Exists
  <2>3. Locks(c)' /\ BlankBeyond(cache[c], nData[c])' /\ Coherent(c)'
    BY <1>1, <2>1 DEF ConnInv, Locks, Coherent, Based
  <2>4. Download(c)'
    <3>1. Download(c) /\ want[c] \in 0..MaxPages
      BY DEF ConnInv, XferTypeOK, Inv, TypeOK
    <3>2. todo'[c] \subseteq 1..want'[c] /\ BlankBeyond(buf[c], want[c])'
      BY SMT, <1>5, <1>6, <2>1, <3>1 DEF Download, BlankBeyond
    <3>3. ASSUME etag[c] = bEtag
          PROVE want[c] = bSize /\ \A p \in Page \ todo'[c] : buf'[c][p] = bData[p]
      BY SMT, <1>5, <1>6, <2>1, <3>1, <3>3 DEF Download, TypeOK
    <3> QED
      BY <1>1, <3>1, <3>2, <3>3 DEF Download, Inv
  <2> QED
    BY <2>2, <2>3, <2>4 DEF ConnInv, TypeOK
<1> QED
  BY <1>1, <1>8, <1>9, LocalStep DEF Inv, TypeOK

\* A download fails: xOpen forgets everything, a refresh keeps the old file.
LEMMA FetchFailInv == ASSUME Inv, NEW c \in Conn, FetchFail(c) PROVE Inv'
<1>1. LeaseStep(c) /\ (LeaseIntact(c)' <=> LeaseIntact(c))
  BY NoRequest DEF FetchFail, Inv, TypeOK
<1>2. faults' \in Nat
  BY FaultType DEF FetchFail, Inv, TypeOK
<1>3. CASE pc[c] = "getOpen" /\ Forget(c) /\ UNCHANGED taint
  <2>1. ~LeaseIntact(c)'
    BY <1>1, <1>3 DEF ConnInv, Locks, Inv
  <2>2. ConnInv(c)'
    BY <1>1, <1>3, <2>1, Forgotten DEF LeaseStep
  <2>3. LocalTypeOK' /\ Others(c)
    BY <1>2, <1>3, ForgetEffect DEF LocalTypeOK, TaintTypeOK, Others, Inv, TypeOK
  <2> QED
    BY <1>1, <2>2, <2>3, LocalStep
<1>4. CASE /\ pc[c] # "getOpen"
           /\ GoTo(c, IF pc[c] = "getShared" THEN "idle" ELSE "giveUp")
           /\ taint' = [taint EXCEPT ![c] = @ \cup {"refresh"}]
           /\ EndXfer(c)
           /\ UNCHANGED <<lockVars, cacheVars, err, nWrites>>
  <2>1. /\ pc' \in [Conn -> PC] /\ pc'[c] = (IF pc[c] = "getShared" THEN "idle" ELSE "giveUp")
        /\ \A d \in Conn \ {c} : pc'[d] = pc[d]
    BY <1>4, GoToEffect DEF PC, Inv, TypeOK
  <2>2. /\ LockTypeOK' /\ CacheTypeOK' /\ \A d \in Conn : SameLock(d) /\ SameCache(d)
    BY <1>4, KeepLock, KeepCache DEF Inv, TypeOK
  <2>3. XferTypeOK' /\ ret'[c] = NoEtag /\ \A d \in Conn \ {c} : SameXfer(d)
    BY <1>4, EndXferEffect DEF Inv, TypeOK
  <2>4. TaintTypeOK' /\ taint'[c] # {} /\ \A d \in Conn \ {c} : taint'[d] = taint[d]
    BY <1>4 DEF TaintTypeOK, Reason, Inv, TypeOK
  <2>5. LocalTypeOK' /\ Others(c)
    BY <1>2, <1>4, <2>1, <2>2, <2>3, <2>4 DEF LocalTypeOK, Others, Same, Inv, TypeOK
  <2>6. ConnInv(c)'
    <3> USE <1>1, <2>1, <2>2, <2>3 DEF SameLock, SameCache, LeaseStep, SameContent
    <3>1. pc[c] \in {"getShared", "getLease"} /\ ConnInv(c)
      BY <1>4 DEF FetchFail, Getting, Inv
    <3>2. Fresh(c)' /\ Coherent(c)' /\ Download(c)' /\ BlankBeyond(cache[c], nData[c])'
      BY <2>4, <3>1 DEF ConnInv, Fresh, Opened, Coherent, Based, Download, Getting
    <3>3. Etags(c)'
      <4>1. bEtag \in Nat /\ etag[c] <= bEtag /\ Exists
        BY <3>1 DEF ConnInv, Etags, BlobTypeOK
      <4> QED
        BY SMT, <4>1 DEF Etags, NoEtag, Exists
    <3>4. Locks(c)'
      BY SMT, <3>1 DEF ConnInv, Locks, Flushing, NONE, RESERVED
    <3> QED
      BY <3>2, <3>3, <3>4 DEF ConnInv
  <2> QED
    BY <1>1, <2>5, <2>6, LocalStep
<1> QED
  BY <1>3, <1>4 DEF FetchFail

\* The buffer becomes the cache file, and the lock is granted.
LEMMA FetchDoneInv == ASSUME Inv, NEW c \in Conn, FetchDone(c) PROVE Inv'
<1> DEFINE level == IF pc[c] = "getOpen" THEN NONE
                    ELSE IF pc[c] = "getShared" THEN SHARED ELSE req[c]
<1>1. LeaseStep(c) /\ (LeaseIntact(c)' <=> LeaseIntact(c))
  BY NoRequest DEF FetchDone, Inv, TypeOK
<1>2. pc' \in [Conn -> PC] /\ pc'[c] = "idle" /\ \A d \in Conn \ {c} : pc'[d] = pc[d]
  BY GoToEffect DEF FetchDone, PC, Inv, TypeOK
<1>3. /\ XferTypeOK' /\ ret'[c] = NoEtag /\ \A d \in Conn \ {c} : SameXfer(d)
  BY EndXferEffect DEF FetchDone, Inv, TypeOK
<1>4. buf[c] \in [Page -> Int] /\ want[c] \in 0..MaxPages /\ Install(c, buf[c], want[c])
  BY DEF FetchDone, XferTypeOK, Inv, TypeOK
<1>5. etag' = etag /\ leased' = leased /\ reads' = reads
  BY DEF FetchDone
<1>6. CacheTypeOK' /\ TaintTypeOK' /\ \A d \in Conn \ {c} : SameCache(d) /\ taint'[d] = taint[d]
  BY <1>4, <1>5, InstallEffect DEF CacheTypeOK, SameCache, Inv, TypeOK
<1>7. cache'[c] = buf[c] /\ nData'[c] = want[c] /\ synced'[c] = want[c] /\ dirty'[c] = {}
  BY SMT, <1>4, InstallEffect DEF Inv
<1>8. LockTypeOK' /\ eLock'[c] = level /\ \A d \in Conn \ {c} : SameLock(d)
  <2>1. level \in {NONE, SHARED, RESERVED, EXCLUSIVE} /\ eLock' = [eLock EXCEPT ![c] = level]
    BY DEF FetchDone, XferTypeOK, Inv, TypeOK
  <2> HIDE DEF level
  <2> QED
    BY <1>5, <2>1 DEF LockTypeOK, SameLock, Inv, TypeOK
<1>9. LocalTypeOK' /\ Others(c)
  BY <1>2, <1>3, <1>6, <1>8 DEF LocalTypeOK, Others, Same, FetchDone, envVars, Inv, TypeOK
<1>10. ConnInv(c)'
  <2> USE <1>1, <1>2, <1>3, <1>5, <1>7 DEF LeaseStep, SameContent
  <2>1. pc[c] \in Getting /\ ConnInv(c) /\ todo[c] = {}
    BY DEF FetchDone, Inv
  <2>2. Fresh(c)' /\ Download(c)'
    BY DEF Fresh, Opened, Download, Getting
  <2>3. Etags(c)'
    BY SMT, <2>1 DEF ConnInv, Etags, NoEtag, Exists, Getting, BlobTypeOK
  <2>4. Locks(c)'
    <3>1. \/ pc[c] \in {"getOpen", "getShared"} /\ c \notin leased
          \/ pc[c] = "getLease" /\ c \in leased /\ req[c] \in {RESERVED, EXCLUSIVE}
      BY <2>1 DEF ConnInv, Locks, Getting, XferTypeOK, Inv, TypeOK
    <3>2. LeaseIntact(c) => c \in leased
      BY <2>1 DEF ConnInv, Locks
    <3> QED
      BY SMT, <1>8, <3>1, <3>2 DEF Locks, Flushing, NONE, SHARED, RESERVED, EXCLUSIVE
  <2>5. BlankBeyond(cache[c], nData[c])'
    BY <2>1 DEF ConnInv, Download
  <2>6. ASSUME Based(c)' PROVE etag[c] = bEtag
    BY <2>1, <2>6 DEF Based, EtagValid, ConnInv, Download, Locks, Getting
  <2>7. ASSUME Based(c)' PROVE CacheMatches(c)'
    <3>1. want[c] = bSize /\ \A p \in Page : buf[c][p] = bData[p]
      BY <2>1, <2>6, <2>7 DEF ConnInv, Download
    <3> QED
      BY SMT, <1>4, <3>1 DEF CacheMatches
  <2>8. Coherent(c)'
    BY <2>7 DEF Coherent, Flushed, Flushing
  <2> QED
    BY <2>2, <2>3, <2>4, <2>5, <2>8 DEF ConnInv, Inv
<1> QED
  BY <1>1, <1>9, <1>10, LocalStep

-----------------------------------------------------------------------------
(* xLock, xUnlock and xRead. *)

\* xLock SHARED: the cache is accepted by its ETag, or its refresh starts.
LEMMA LockSharedInv == ASSUME Inv, NEW c \in Conn, LockShared(c) PROVE Inv'
<1>1. LeaseStep(c) /\ (LeaseIntact(c)' <=> LeaseIntact(c))
  BY NoRequest DEF LockShared, Inv, TypeOK
<1>2. pc[c] = "idle" /\ eLock[c] = NONE /\ c \notin leased /\ ~LeaseIntact(c) /\ Exists
  BY SMT DEF LockShared, ConnInv, Locks, Etags, NONE, RESERVED, Inv
<1>3. leased' = leased /\ (reads \subseteq Conn)'
  BY DEF LockShared, LockTypeOK, Inv, TypeOK
<1>4. CASE EtagValid(c) /\ eLock' = [eLock EXCEPT ![c] = SHARED]
           /\ UNCHANGED <<pc, cacheVars, xferVars, taint>>
  <2>1. /\ CacheTypeOK' /\ XferTypeOK' /\ \A d \in Conn : SameCache(d) /\ SameXfer(d)
    BY <1>4, KeepCache, KeepXfer DEF Inv, TypeOK
  <2>2. LockTypeOK' /\ eLock'[c] = SHARED /\ \A d \in Conn \ {c} : SameLock(d)
    BY <1>3, <1>4 DEF LockTypeOK, SameLock, Inv, TypeOK
  <2>3. LocalTypeOK' /\ Others(c)
    BY <1>4, <2>1, <2>2
       DEF LocalTypeOK, Others, Same, LockShared, envVars, TaintTypeOK, Inv, TypeOK
  <2>4. Locks(c)'
    BY SMT, <1>1, <1>2, <1>3, <1>4, <2>2 DEF Locks, Flushing, SHARED, RESERVED, Inv
  <2>5. Based(c)' => Based(c)
    BY <1>4 DEF Based, Opened
  <2>6. ConnInv(c)'
    BY <1>1, <1>2, <1>4, <2>1, <2>4, <2>5, Relocked DEF LeaseStep, SameXfer, TypeOK
  <2> QED
    BY <1>1, <2>3, <2>6, LocalStep
<1>5. CASE Refresh(c, "getShared", SHARED)
  <2> DEFINE gets == /\ pc'[c] = "getShared" /\ eLock'[c] = eLock[c]
                     /\ todo'[c] = 1..bSize /\ buf'[c] = BlankPages /\ want'[c] = bSize
                     /\ ret'[c] = ret[c] /\ cache'[c] = cache[c] /\ nData'[c] = nData[c]
             empty == /\ bSize = 0
                      /\ pc'[c] = "idle" /\ eLock'[c] = SHARED /\ ret'[c] = NoEtag
                      /\ cache'[c] = BlankPages /\ nData'[c] = 0 /\ synced'[c] = 0 /\ dirty'[c] = {}
  <2>1. /\ (pc \in [Conn -> PC])' /\ CacheTypeOK' /\ XferTypeOK' /\ TaintTypeOK'
        /\ (eLock \in [Conn -> {NONE, SHARED, RESERVED, EXCLUSIVE}])'
        /\ etag'[c] = bEtag
        /\ gets \/ empty
        /\ \A d \in Conn \ {c} : /\ pc'[d] = pc[d] /\ eLock'[d] = eLock[d]
                                  /\ SameCache(d) /\ SameXfer(d) /\ taint'[d] = taint[d]
    BY <1>5, RefreshEffect DEF Getting, Inv
  <2>2. LockTypeOK' /\ \A d \in Conn \ {c} : SameLock(d)
    BY <1>3, <2>1 DEF LockTypeOK, SameLock, Inv, TypeOK
  <2>3. LocalTypeOK' /\ Others(c)
    BY <2>1, <2>2 DEF LocalTypeOK, Others, Same, LockShared, envVars, Inv, TypeOK
  <2>4. Locks(c)'
    BY SMT, <1>1, <1>2, <1>3, <2>1 DEF Locks, Flushing, SHARED, RESERVED, TypeOK
  <2>5. CASE gets
    <3>1. BlankBeyond(cache[c], nData[c])' /\ ret'[c] <= bEtag
      BY <2>5 DEF ConnInv, Etags, Inv
    <3>2. ConnInv(c)'
      BY <1>1, <1>2, <2>1, <2>4, <2>5, <3>1, Downloading DEF LeaseStep, Getting, Inv
    <3> QED
      BY <1>1, <2>3, <3>2, LocalStep
  <2>6. CASE empty
    <3>1. ConnInv(c)'
      BY <1>1, <1>2, <2>1, <2>4, <2>6, Emptied DEF LeaseStep
    <3> QED
      BY <1>1, <2>3, <3>1, LocalStep
  <2> QED
    BY <2>1, <2>5, <2>6 DEF Inv
<1> QED
  BY <1>4, <1>5 DEF LockShared

\* xLock to a higher level under a lease that is held.
LEMMA LockHeldInv ==
  ASSUME Inv, NEW c \in Conn, NEW level \in {RESERVED, EXCLUSIVE}, LockHeld(c, level)
  PROVE  Inv'
<1>1. LeaseStep(c) /\ (LeaseIntact(c)' <=> LeaseIntact(c))
  BY NoRequest DEF LockHeld, Inv, TypeOK
<1>2. pc[c] = "idle" /\ pc' = pc /\ taint' = taint /\ c \in leased /\ leased' = leased
  BY DEF LockHeld
<1>3. /\ CacheTypeOK' /\ XferTypeOK' /\ \A d \in Conn : SameCache(d) /\ SameXfer(d)
  BY KeepCache, KeepXfer DEF LockHeld, Inv, TypeOK
<1>4. LockTypeOK' /\ eLock'[c] = level /\ \A d \in Conn \ {c} : SameLock(d)
  BY DEF LockHeld, LockTypeOK, SameLock, Inv, TypeOK
<1>5. LocalTypeOK' /\ Others(c)
  BY <1>3, <1>4 DEF LocalTypeOK, Others, Same, LockHeld, envVars, TaintTypeOK, Inv, TypeOK
<1>6. Locks(c)'
  BY SMT, <1>2, <1>4 DEF Locks, Flushing, RESERVED, EXCLUSIVE
<1>7. Based(c)' => Based(c)
  BY <1>1, <1>2, <1>3 DEF Based, Opened, EtagValid, LeaseStep, SameContent, SameCache
<1>8. ConnInv(c)'
  BY <1>1, <1>2, <1>3, <1>6, <1>7, Relocked DEF LeaseStep, SameXfer
<1> QED
  BY <1>1, <1>5, <1>8, LocalStep

\* xLock RESERVED or above: the lease, and the ETag of its answer.
LEMMA LockAcquireInv ==
  ASSUME Inv, NEW c \in Conn, NEW level \in {RESERVED, EXCLUSIVE}, LockAcquire(c, level)
  PROVE  Inv'
<1>1. LeaseStep(c)
  BY AcquireEffect DEF LockAcquire, Inv, TypeOK
<1>2. pc[c] = "idle" /\ c \notin leased /\ leased' = leased \cup {c} /\ taint' = taint
  BY DEF LockAcquire
<1>3. eLock[c] = SHARED
  BY SMT DEF LockAcquire, ConnInv, Locks, LockTypeOK, NONE, SHARED, RESERVED, EXCLUSIVE, Inv,
         TypeOK
<1>4. CacheTypeOK' /\ \A d \in Conn : SameCache(d)
  BY KeepCache DEF LockAcquire, Inv, TypeOK
<1>5. CASE EtagValid(c) /\ eLock' = [eLock EXCEPT ![c] = level] /\ UNCHANGED <<pc, req>>
  <2>1. XferTypeOK' /\ \A d \in Conn : SameXfer(d)
    BY <1>5, KeepXfer DEF LockAcquire, xferVars, Inv, TypeOK
  <2>2. LockTypeOK' /\ eLock'[c] = level /\ \A d \in Conn \ {c} : SameLock(d)
    BY <1>5 DEF LockAcquire, LockTypeOK, SameLock, Inv, TypeOK
  <2>3. LocalTypeOK' /\ Others(c)
    BY <1>2, <1>4, <1>5, <2>1, <2>2
       DEF LocalTypeOK, Others, Same, LockAcquire, envVars, TaintTypeOK, Inv, TypeOK
  <2>4. Locks(c)'
    BY SMT, <1>2, <1>5, <2>2 DEF Locks, Flushing, RESERVED, EXCLUSIVE
  <2>5. Based(c)' => Based(c)
    BY <1>2, <1>5 DEF Based, Opened
  <2>6. ConnInv(c)'
    BY <1>1, <1>2, <1>4, <1>5, <2>1, <2>4, <2>5, Relocked DEF LeaseStep, SameXfer, Inv
  <2> QED
    BY <1>1, <2>3, <2>6, LocalStep
<1>6. CASE GoTo(c, "revalidate") /\ req' = [req EXCEPT ![c] = level] /\ UNCHANGED eLock
  <2>1. /\ XferTypeOK' /\ req'[c] = level /\ ret' = ret /\ \A d \in Conn \ {c} : SameXfer(d)
    BY <1>6 DEF LockAcquire, XferTypeOK, SameXfer, Inv, TypeOK
  <2>2. LockTypeOK' /\ eLock'[c] = SHARED /\ \A d \in Conn \ {c} : SameLock(d)
    BY <1>3, <1>6 DEF LockAcquire, LockTypeOK, SameLock, Inv, TypeOK
  <2>3. pc' \in [Conn -> PC] /\ pc'[c] = "revalidate" /\ \A d \in Conn \ {c} : pc'[d] = pc[d]
    BY <1>6, GoToEffect DEF PC, Inv, TypeOK
  <2>4. LocalTypeOK' /\ Others(c)
    BY <1>4, <2>1, <2>2, <2>3
       DEF LocalTypeOK, Others, Same, LockAcquire, envVars, TaintTypeOK, Inv, TypeOK
  <2>5. Locks(c)'
    BY SMT, <1>2, <2>1, <2>2, <2>3 DEF Locks, Flushing, NONE, RESERVED, EXCLUSIVE
  <2>6. Based(c)' => Based(c)
    BY <1>1, <1>2, <1>4, <2>3
       DEF Based, Opened, Getting, EtagValid, LeaseStep, SameContent, SameCache
  <2>7. ConnInv(c)'
    BY <1>1, <1>2, <1>4, <2>1, <2>3, <2>5, <2>6, Relocked DEF LeaseStep
  <2> QED
    BY <1>1, <2>4, <2>7, LocalStep
<1> QED
  BY <1>5, <1>6 DEF LockAcquire

\* A lease that is granted to a connection that never hears of it.
LEMMA LockLostInv == ASSUME Inv, NEW c \in Conn, LockLost(c) PROVE Inv'
<1>1. LeaseStep(c) /\ ~LeaseIntact(c)'
  BY LostEffect DEF LockLost, Inv, TypeOK
<1>2. pc[c] = "idle" /\ pc' = pc /\ taint' = taint
  BY DEF LockLost
<1>3. /\ LockTypeOK' /\ CacheTypeOK' /\ XferTypeOK'
      /\ \A d \in Conn : SameLock(d) /\ SameCache(d) /\ SameXfer(d)
  BY KeepLock, KeepCache, KeepXfer DEF LockLost, Inv, TypeOK
<1>4. LocalTypeOK' /\ Others(c)
  BY <1>3, FaultType DEF LocalTypeOK, Others, Same, LockLost, TaintTypeOK, Inv, TypeOK
<1>5. Locks(c)'
  BY <1>1, <1>2, <1>3 DEF ConnInv, Locks, SameLock, Flushing, Inv
<1>6. Based(c)' => Based(c)
  BY <1>1, <1>2, <1>3 DEF Based, Opened, EtagValid, LeaseStep, SameContent, SameCache
<1>7. ConnInv(c)'
  BY <1>1, <1>2, <1>3, <1>5, <1>6, Relocked DEF LeaseStep, SameXfer
<1> QED
  BY <1>1, <1>4, <1>7, LocalStep

\* The HEAD of revalidateAfterLease fails.
LEMMA RevalidateFailInv == ASSUME Inv, NEW c \in Conn, RevalidateFail(c) PROVE Inv'
<1>1. LeaseStep(c) /\ (LeaseIntact(c)' <=> LeaseIntact(c))
  BY NoRequest DEF RevalidateFail, Inv, TypeOK
<1>2. pc' \in [Conn -> PC] /\ pc'[c] = "giveUp" /\ \A d \in Conn \ {c} : pc'[d] = pc[d]
  BY GoToEffect DEF RevalidateFail, PC, Inv, TypeOK
<1>3. LockTypeOK' /\ CacheTypeOK' /\ \A d \in Conn : SameLock(d) /\ SameCache(d)
  BY KeepLock, KeepCache DEF RevalidateFail, Inv, TypeOK
<1>4. XferTypeOK' /\ ret'[c] = NoEtag /\ \A d \in Conn \ {c} : SameXfer(d)
  BY EndXferEffect DEF RevalidateFail, Inv, TypeOK
<1>5. pc[c] = "revalidate" /\ taint' = taint
  BY DEF RevalidateFail
<1>6. LocalTypeOK' /\ Others(c)
  BY <1>2, <1>3, <1>4, FaultType
     DEF LocalTypeOK, Others, Same, RevalidateFail, TaintTypeOK, Inv, TypeOK
<1>7. Locks(c)'
  BY <1>2, <1>3, <1>5 DEF ConnInv, Locks, SameLock, Flushing, Inv
<1>8. Based(c)' => Based(c)
  BY <1>1, <1>2, <1>3, <1>5
     DEF Based, Opened, Getting, EtagValid, LeaseStep, SameContent, SameCache
<1>9. ConnInv(c)'
  BY <1>1, <1>2, <1>3, <1>4, <1>5, <1>7, <1>8, Relocked DEF LeaseStep, Inv
<1> QED
  BY <1>1, <1>6, <1>9, LocalStep DEF TypeOK

\* revalidateAfterLease: grant, refresh, or give up.
LEMMA RevalidateInv == ASSUME Inv, NEW c \in Conn, Revalidate(c) PROVE Inv'
<1>1. LeaseStep(c) /\ (LeaseIntact(c)' <=> LeaseIntact(c))
  BY NoRequest DEF Revalidate, Inv, TypeOK
<1>2. /\ pc[c] = "revalidate" /\ eLock[c] = SHARED /\ c \in leased
      /\ req[c] \in {RESERVED, EXCLUSIVE} /\ Exists
  BY DEF Revalidate, ConnInv, Locks, Etags, XferTypeOK, Inv, TypeOK
<1>3. leased' = leased /\ reads' = reads
  BY DEF Revalidate
<1>4. CASE EtagValid(c) /\ GoTo(c, "idle") /\ eLock' = [eLock EXCEPT ![c] = req[c]]
           /\ EndXfer(c) /\ UNCHANGED <<cacheVars, taint>>
  <2>1. pc' \in [Conn -> PC] /\ pc'[c] = "idle" /\ \A d \in Conn \ {c} : pc'[d] = pc[d]
    BY <1>4, GoToEffect DEF PC, Inv, TypeOK
  <2>2. LockTypeOK' /\ eLock'[c] = req[c] /\ \A d \in Conn \ {c} : SameLock(d)
    BY <1>2, <1>3, <1>4 DEF LockTypeOK, SameLock, Inv, TypeOK
  <2>3. CacheTypeOK' /\ \A d \in Conn : SameCache(d)
    BY <1>4, KeepCache DEF Inv, TypeOK
  <2>4. XferTypeOK' /\ ret'[c] = NoEtag /\ \A d \in Conn \ {c} : SameXfer(d)
    BY <1>4, EndXferEffect DEF Inv, TypeOK
  <2>5. LocalTypeOK' /\ Others(c)
    BY <1>4, <2>1, <2>2, <2>3, <2>4
       DEF LocalTypeOK, Others, Same, Revalidate, envVars, TaintTypeOK, Inv, TypeOK
  <2>6. Locks(c)'
    BY SMT, <1>2, <1>3, <2>1, <2>2 DEF Locks, Flushing, RESERVED, EXCLUSIVE
  <2>7. Based(c)' => Based(c)
    BY <1>2, <1>4 DEF Based, Opened, Getting
  <2>8. ConnInv(c)'
    BY <1>1, <1>2, <2>1, <2>3, <2>4, <2>6, <2>7, Relocked DEF LeaseStep, Inv
  <2> QED
    BY <1>1, <2>5, <2>8, LocalStep
<1>5. CASE Refresh(c, "getLease", req[c])
  <2> DEFINE gets == /\ pc'[c] = "getLease" /\ eLock'[c] = eLock[c]
                     /\ todo'[c] = 1..bSize /\ buf'[c] = BlankPages /\ want'[c] = bSize
                     /\ ret'[c] = ret[c] /\ req'[c] = req[c]
                     /\ cache'[c] = cache[c] /\ nData'[c] = nData[c]
             empty == /\ bSize = 0
                      /\ pc'[c] = "idle" /\ eLock'[c] = req[c] /\ ret'[c] = NoEtag
                      /\ cache'[c] = BlankPages /\ nData'[c] = 0 /\ synced'[c] = 0 /\ dirty'[c] = {}
  <2>1. /\ (pc \in [Conn -> PC])' /\ CacheTypeOK' /\ XferTypeOK' /\ TaintTypeOK'
        /\ (eLock \in [Conn -> {NONE, SHARED, RESERVED, EXCLUSIVE}])'
        /\ etag'[c] = bEtag
        /\ gets \/ empty
        /\ \A d \in Conn \ {c} : /\ pc'[d] = pc[d] /\ eLock'[d] = eLock[d]
                                  /\ SameCache(d) /\ SameXfer(d) /\ taint'[d] = taint[d]
    BY <1>2, <1>5, RefreshEffect DEF Getting, Inv
  <2>2. LockTypeOK' /\ \A d \in Conn \ {c} : SameLock(d)
    BY <1>3, <2>1 DEF LockTypeOK, SameLock, Inv, TypeOK
  <2>3. LocalTypeOK' /\ Others(c)
    BY <2>1, <2>2 DEF LocalTypeOK, Others, Same, Revalidate, envVars, Inv, TypeOK
  <2>4. Locks(c)'
    BY SMT, <1>2, <1>3, <2>1 DEF Locks, Flushing, NONE, RESERVED, EXCLUSIVE
  <2>5. CASE gets
    <3>1. BlankBeyond(cache[c], nData[c])' /\ ret'[c] <= bEtag
      BY <2>5 DEF ConnInv, Etags, Inv
    <3>2. ConnInv(c)'
      BY <1>1, <1>2, <2>1, <2>4, <2>5, <3>1, Downloading DEF LeaseStep, Getting
    <3> QED
      BY <1>1, <2>3, <3>2, LocalStep DEF Inv
  <2>6. CASE empty
    <3>1. ConnInv(c)'
      BY <1>1, <1>2, <2>1, <2>4, <2>6, Emptied DEF LeaseStep
    <3> QED
      BY <1>1, <2>3, <3>1, LocalStep
  <2> QED
    BY <2>1, <2>5, <2>6
<1>6. CASE ~EtagValid(c) /\ GoTo(c, "giveUp") /\ EndXfer(c) /\ UNCHANGED <<eLock, cacheVars, taint>>
  <2>1. pc' \in [Conn -> PC] /\ pc'[c] = "giveUp" /\ \A d \in Conn \ {c} : pc'[d] = pc[d]
    BY <1>6, GoToEffect DEF PC, Inv, TypeOK
  <2>2. /\ LockTypeOK' /\ CacheTypeOK' /\ \A d \in Conn : SameLock(d) /\ SameCache(d)
    BY <1>3, <1>6, KeepLock, KeepCache DEF lockVars, Inv, TypeOK
  <2>3. XferTypeOK' /\ ret'[c] = NoEtag /\ \A d \in Conn \ {c} : SameXfer(d)
    BY <1>6, EndXferEffect DEF Inv, TypeOK
  <2>4. LocalTypeOK' /\ Others(c)
    BY <1>6, <2>1, <2>2, <2>3
       DEF LocalTypeOK, Others, Same, Revalidate, envVars, TaintTypeOK, Inv, TypeOK
  <2>5. Locks(c)'
    BY <1>2, <2>1, <2>2 DEF Locks, SameLock, Flushing
  <2>6. Based(c)' => Based(c)
    BY <1>1, <1>6, <2>1, <2>2 DEF Based, EtagValid, LeaseStep, SameContent, SameCache, Inv
  <2>7. ConnInv(c)'
    BY <1>1, <1>2, <2>1, <2>2, <2>3, <2>5, <2>6, Relocked DEF LeaseStep
  <2> QED
    BY <1>1, <2>4, <2>7, LocalStep
<1> QED
  BY <1>4, <1>5, <1>6 DEF Revalidate

\* lease_release in xLock and xUnlock.
LEMMA DropLeaseEffect ==
  ASSUME Inv, NEW c \in Conn, DropLease(c)
  PROVE  LeaseStep(c) /\ ~LeaseIntact(c)' /\ leased' = leased \ {c} /\ faults' \in Nat
<1>1. BlobTypeOK /\ LapsedAlone /\ faults \in Nat
  BY DEF Inv, TypeOK
<1> QED
  BY <1>1, ReleaseEffect, ForgetLeaseEffect, FaultType DEF DropLease

\* xLock gives the lease back and answers SQLITE_BUSY.
LEMMA GiveUpInv == ASSUME Inv, NEW c \in Conn, GiveUp(c) PROVE Inv'
<1>1. LeaseStep(c) /\ ~LeaseIntact(c)' /\ leased' = leased \ {c} /\ faults' \in Nat
  BY DropLeaseEffect DEF GiveUp
<1>2. pc' \in [Conn -> PC] /\ pc'[c] = "idle" /\ \A d \in Conn \ {c} : pc'[d] = pc[d]
  BY GoToEffect DEF GiveUp, PC, Inv, TypeOK
<1>3. /\ CacheTypeOK' /\ XferTypeOK' /\ \A d \in Conn : SameCache(d) /\ SameXfer(d)
  BY KeepCache, KeepXfer DEF GiveUp, Inv, TypeOK
<1>4. LockTypeOK' /\ \A d \in Conn \ {c} : SameLock(d)
  BY <1>1 DEF GiveUp, LockTypeOK, SameLock, Inv, TypeOK
<1>5. LocalTypeOK' /\ Others(c)
  BY <1>1, <1>2, <1>3, <1>4 DEF LocalTypeOK, Others, Same, GiveUp, TaintTypeOK, Inv, TypeOK
<1>6. pc[c] = "giveUp" /\ eLock'[c] = SHARED /\ taint' = taint
  BY DEF GiveUp, ConnInv, Locks, Inv
<1>7. Locks(c)'
  BY SMT, <1>1, <1>2, <1>6 DEF Locks, Flushing, SHARED, RESERVED
<1>8. Based(c)' => Based(c)
  BY <1>1, <1>2, <1>3, <1>6
     DEF Based, Opened, Getting, EtagValid, LeaseStep, SameContent, SameCache
<1>9. ConnInv(c)'
  BY <1>1, <1>2, <1>3, <1>6, <1>7, <1>8, Relocked DEF LeaseStep, SameXfer
<1> QED
  BY <1>1, <1>5, <1>9, LocalStep

\* xUnlock, whether or not the service hears of it.
LEMMA UnlockInv ==
  ASSUME Inv, NEW c \in Conn, NEW level \in {NONE, SHARED}, Unlock(c, level)
  PROVE  Inv'
<1>1. LeaseStep(c) /\ ~LeaseIntact(c)' /\ leased' = leased \ {c} /\ faults' \in Nat
  BY DropLeaseEffect DEF Unlock
<1>2. pc[c] = "idle" /\ pc' = pc /\ taint' = taint
  BY DEF Unlock
<1>3. /\ CacheTypeOK' /\ XferTypeOK' /\ \A d \in Conn : SameCache(d) /\ SameXfer(d)
  BY KeepCache, KeepXfer DEF Unlock, Inv, TypeOK
<1>4. LockTypeOK' /\ eLock'[c] = level /\ \A d \in Conn \ {c} : SameLock(d)
  BY <1>1 DEF Unlock, LockTypeOK, SameLock, Inv, TypeOK
<1>5. LocalTypeOK' /\ Others(c)
  BY <1>1, <1>3, <1>4 DEF LocalTypeOK, Others, Same, Unlock, TaintTypeOK, Inv, TypeOK
<1>6. Locks(c)'
  BY SMT, <1>1, <1>2, <1>4 DEF Locks, Flushing, NONE, SHARED, RESERVED
<1>7. Based(c)' => Based(c)
  BY <1>1, <1>2, <1>3 DEF Based, Opened, EtagValid, LeaseStep, SameContent, SameCache
<1>8. ConnInv(c)'
  BY <1>1, <1>2, <1>3, <1>6, <1>7, Relocked DEF LeaseStep, SameXfer
<1> QED
  BY <1>1, <1>5, <1>8, LocalStep

\* xRead counts a read and changes nothing else.
LEMMA ReadInv == ASSUME Inv, NEW c \in Conn, Read(c) PROVE Inv'
<1>1. LeaseStep(c) /\ (LeaseIntact(c)' <=> LeaseIntact(c))
  BY NoRequest DEF Read, Inv, TypeOK
<1>2. /\ CacheTypeOK' /\ XferTypeOK' /\ \A d \in Conn : SameCache(d) /\ SameXfer(d)
  BY KeepCache, KeepXfer DEF Read, Inv, TypeOK
<1>3. LockTypeOK' /\ \A d \in Conn : SameLock(d)
  BY DEF Read, LockTypeOK, SameLock, Inv, TypeOK
<1>4. LocalTypeOK' /\ \A d \in Conn : Same(d) /\ taint'[d] = taint[d]
  BY <1>2, <1>3 DEF LocalTypeOK, Same, Read, envVars, TaintTypeOK, Inv, TypeOK
<1> QED
  BY <1>1, <1>4, Untouched
=============================================================================

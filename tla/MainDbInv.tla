----------------------------- MODULE MainDbInv -----------------------------
(***************************************************************************)
(* The inductive invariant of MainDb, that it holds initially, and the lemmas*)
(* that the proofs about the single steps share: what the building blocks of*)
(* an action do to each part of the state, and which steps leave the       *)
(* invariant of a connection alone.                                        *)
(***************************************************************************)
EXTENDS MainDb, TLAPS

\* Most leaves are first-order; a leaf that needs arithmetic cites SMT.
USE Zenon

-----------------------------------------------------------------------------
(* The inductive invariant. *)

\* A connection that is not open has nothing.
Fresh(c) ==
    ~Opened(c) => /\ etag[c] = NoEtag
                  /\ cache[c] = BlankPages
                  /\ nData[c] = 0
                  /\ synced[c] = 0
                  /\ dirty[c] = {}
                  /\ ret[c] = NoEtag

\* No ETag is newer than the blob's.
Etags(c) ==
    /\ etag[c] <= bEtag
    /\ ret[c] <= bEtag
    /\ pc[c] \notin {"closed", "openCreate"} => Exists

\* Lease ids against lock levels, at every point of every call.
Locks(c) ==
    /\ LeaseIntact(c) => c \in leased
    /\ pc[c] \in {"closed", "openHead", "openCreate", "getOpen", "getShared"}
          => eLock[c] = NONE /\ c \notin leased
    /\ pc[c] = "idle" => (c \in leased <=> eLock[c] >= RESERVED)
    /\ pc[c] \in {"revalidate", "getLease", "giveUp"} => eLock[c] = SHARED /\ c \in leased
    /\ pc[c] \in {"revalidate", "getLease"} => req[c] # NONE
    /\ pc[c] \in Flushing => \/ eLock[c] = NONE /\ c \notin leased
                             \/ eLock[c] = EXCLUSIVE /\ c \in leased

BlankBeyond(d, n) == \A p \in Page : p > n => d[p] = Blank

\* A download in progress: if the blob is still the one that the HEAD saw,
\* the buffer holds its pages.  Under an intact lease it is that one.
Download(c) ==
    pc[c] \in Getting =>
        /\ etag[c] # NoEtag
        /\ todo[c] \subseteq 1..want[c]
        /\ BlankBeyond(buf[c], want[c])
        /\ pc[c] = "getLease" /\ LeaseIntact(c) => etag[c] = bEtag
        /\ etag[c] = bEtag => /\ want[c] = bSize
                              /\ \A p \in Page \ todo[c] : buf[c][p] = bData[p]

\* The cache is known to rest on the blob's present content.
Based(c) ==
    /\ Opened(c)
    /\ pc[c] \notin Getting
    /\ taint[c] = {}
    /\ \/ EtagValid(c)
       \/ LeaseIntact(c) /\ pc[c] \notin {"revalidate", "giveUp"}
       \/ pc[c] = "put" /\ ret[c] = bEtag

\* In the middle of a flush, what is not to be sent any more is in the blob.
Flushed(c) ==
    /\ pc[c] = "put" => synced[c] = nData[c]
    /\ pc[c] \in Flushing => \A p \in Page \ todo[c] : cache[c][p] = bData[p]

Coherent(c) == Based(c) => CacheMatches(c) /\ Flushed(c)

ConnInv(c) ==
    /\ Fresh(c)
    /\ Etags(c)
    /\ Locks(c)
    /\ BlankBeyond(cache[c], nData[c])
    /\ Download(c)
    /\ Coherent(c)

LapsedAlone == lapsed # NoLease => holder = NoLease

Inv ==
    /\ TypeOK
    /\ LapsedAlone
    /\ BlankBeyond(bData, bSize)
    /\ \A c \in Conn : ConnInv(c)

-----------------------------------------------------------------------------
(* What the building blocks of the actions do: to types, to the other      *)
(* connections, to the acting one.                                         *)

SameLock(d) ==
    /\ eLock'[d] = eLock[d]
    /\ d \in leased' <=> d \in leased

SameCache(d) ==
    /\ etag'[d] = etag[d]
    /\ cache'[d] = cache[d]
    /\ nData'[d] = nData[d]
    /\ synced'[d] = synced[d]
    /\ dirty'[d] = dirty[d]

SameXfer(d) ==
    /\ todo'[d] = todo[d]
    /\ buf'[d] = buf[d]
    /\ want'[d] = want[d]
    /\ ret'[d] = ret[d]
    /\ req'[d] = req[d]

Same(d) == pc'[d] = pc[d] /\ SameLock(d) /\ SameCache(d) /\ SameXfer(d)

TaintTypeOK == taint \in [Conn -> SUBSET Reason]

\* A file of blank pages is a file.
LEMMA BlankType == BlankPages \in [Page -> Int]
  BY SMT DEF BlankPages, Blank

\* Page counts and the page sets they stand for.
LEMMA Sizes == 0 \in 0..MaxPages /\ \A n \in 0..MaxPages : n \in Nat /\ 1..n \subseteq Page
  BY SMT, PagesAssumption DEF Page

\* Moving one connection to its next request.
LEMMA GoToEffect ==
  ASSUME pc \in [Conn -> PC], NEW c \in Conn, NEW next \in PC, GoTo(c, next)
  PROVE  pc' \in [Conn -> PC] /\ pc'[c] = next /\ \A d \in Conn \ {c} : pc'[d] = pc[d]
  BY DEF GoTo

\* Returning from a call drops its locals.
LEMMA EndXferEffect ==
  ASSUME XferTypeOK, NEW c \in Conn, EndXfer(c)
  PROVE  /\ XferTypeOK'
         /\ ret'[c] = NoEtag
         /\ \A d \in Conn \ {c} : SameXfer(d)
<1>1. XferTypeOK'
  BY BlankType, Sizes DEF XferTypeOK, EndXfer, NoEtag
<1>2. ret'[c] = NoEtag
  BY DEF XferTypeOK, EndXfer
<1>3. \A d \in Conn \ {c} : SameXfer(d)
  BY SMT DEF EndXfer, SameXfer
<1> QED
  BY <1>1, <1>2, <1>3

\* Starting a download.
LEMMA StartGetEffect ==
  ASSUME TypeOK, NEW c \in Conn, NEW next \in Getting, StartGet(c, next)
  PROVE  /\ (pc \in [Conn -> PC])' /\ XferTypeOK'
         /\ pc'[c] = next
         /\ todo'[c] = 1..bSize /\ buf'[c] = BlankPages /\ want'[c] = bSize
         /\ ret'[c] = ret[c] /\ req'[c] = req[c]
         /\ \A d \in Conn \ {c} : pc'[d] = pc[d] /\ SameXfer(d)
<1>1. next \in PC /\ bSize \in 0..MaxPages
  BY DEF PC, BlobTypeOK, TypeOK
<1>2. pc' \in [Conn -> PC] /\ pc'[c] = next /\ \A d \in Conn \ {c} : pc'[d] = pc[d]
  BY <1>1, GoToEffect DEF StartGet, TypeOK
<1>3. XferTypeOK'
  BY <1>1, BlankType, Sizes DEF XferTypeOK, StartGet, TypeOK
<1>4. /\ todo'[c] = 1..bSize /\ buf'[c] = BlankPages /\ want'[c] = bSize
      /\ ret'[c] = ret[c] /\ req'[c] = req[c]
  BY DEF XferTypeOK, StartGet, TypeOK
<1>5. \A d \in Conn \ {c} : SameXfer(d)
  BY SMT DEF StartGet, SameXfer
<1> QED
  BY <1>2, <1>3, <1>4, <1>5

\* Replacing the cache file.
LEMMA InstallEffect ==
  ASSUME TypeOK, NEW c \in Conn, NEW data \in [Page -> Int], NEW n \in 0..MaxPages,
         Install(c, data, n)
  PROVE  /\ (cache \in [Conn -> [Page -> Int]])'
         /\ (nData \in [Conn -> 0..MaxPages])' /\ (synced \in [Conn -> 0..MaxPages])'
         /\ (dirty \in [Conn -> SUBSET Page])' /\ TaintTypeOK'
         /\ cache'[c] = data /\ nData'[c] = n /\ synced'[c] = n
         /\ dirty'[c] = {} /\ taint'[c] = {}
         /\ \A d \in Conn \ {c} : /\ cache'[d] = cache[d] /\ nData'[d] = nData[d]
                                   /\ synced'[d] = synced[d] /\ dirty'[d] = dirty[d]
                                   /\ taint'[d] = taint[d]
<1>1. /\ (cache \in [Conn -> [Page -> Int]])' /\ cache'[c] = data
      /\ \A d \in Conn \ {c} : cache'[d] = cache[d]
  BY DEF Install, TypeOK, CacheTypeOK
<1>2. /\ (nData \in [Conn -> 0..MaxPages])' /\ nData'[c] = n
      /\ \A d \in Conn \ {c} : nData'[d] = nData[d]
  BY DEF Install, TypeOK, CacheTypeOK
<1>3. /\ (synced \in [Conn -> 0..MaxPages])' /\ synced'[c] = n
      /\ \A d \in Conn \ {c} : synced'[d] = synced[d]
  BY DEF Install, TypeOK, CacheTypeOK
<1>4. /\ (dirty \in [Conn -> SUBSET Page])' /\ dirty'[c] = {}
      /\ \A d \in Conn \ {c} : dirty'[d] = dirty[d]
  BY DEF Install, TypeOK, CacheTypeOK
<1>5. TaintTypeOK' /\ taint'[c] = {} /\ \A d \in Conn \ {c} : taint'[d] = taint[d]
  BY DEF Install, TypeOK, TaintTypeOK
<1> QED
  BY <1>1, <1>2, <1>3, <1>4, <1>5

\* Losing everything a connection had.
LEMMA ForgetEffect ==
  ASSUME TypeOK, NEW c \in Conn, Forget(c)
  PROVE  /\ (pc \in [Conn -> PC])' /\ LockTypeOK' /\ CacheTypeOK' /\ XferTypeOK'
         /\ (err \subseteq Conn)' /\ (nWrites \in Nat)'
         /\ pc'[c] = "closed" /\ eLock'[c] = NONE /\ c \notin leased'
         /\ etag'[c] = NoEtag /\ cache'[c] = BlankPages /\ nData'[c] = 0
         /\ synced'[c] = 0 /\ dirty'[c] = {} /\ ret'[c] = NoEtag
         /\ \A d \in Conn \ {c} : Same(d)
<1>1. (pc \in [Conn -> PC])' /\ pc'[c] = "closed" /\ \A d \in Conn \ {c} : pc'[d] = pc[d]
  BY GoToEffect DEF Forget, PC, TypeOK
<1>2. /\ LockTypeOK' /\ eLock'[c] = NONE /\ c \notin leased'
      /\ \A d \in Conn \ {c} : SameLock(d)
  BY DEF LockTypeOK, SameLock, Forget, TypeOK
<1>3. CacheTypeOK'
  BY BlankType, Sizes DEF CacheTypeOK, Forget, NoEtag, TypeOK
<1>4. /\ etag'[c] = NoEtag /\ cache'[c] = BlankPages /\ nData'[c] = 0
      /\ synced'[c] = 0 /\ dirty'[c] = {}
  BY DEF CacheTypeOK, Forget, TypeOK
<1>5. \A d \in Conn \ {c} : SameCache(d)
  BY SMT DEF SameCache, Forget
<1>6. XferTypeOK' /\ ret'[c] = NoEtag /\ \A d \in Conn \ {c} : SameXfer(d)
  BY EndXferEffect DEF Forget, TypeOK
<1>7. (err \subseteq Conn)' /\ (nWrites \in Nat)'
  BY DEF Forget, TypeOK
<1> QED
  BY <1>1, <1>2, <1>3, <1>4, <1>5, <1>6, <1>7 DEF Same

\* refreshMainDbCache up to its download.
LEMMA RefreshEffect ==
  ASSUME TypeOK, NEW c \in Conn, NEW next \in Getting,
         NEW level \in {NONE, SHARED, RESERVED, EXCLUSIVE}, Refresh(c, next, level)
  PROVE  /\ (pc \in [Conn -> PC])' /\ CacheTypeOK' /\ XferTypeOK' /\ TaintTypeOK'
         /\ (eLock \in [Conn -> {NONE, SHARED, RESERVED, EXCLUSIVE}])'
         /\ etag'[c] = bEtag
         /\ \/ /\ pc'[c] = next /\ eLock'[c] = eLock[c]
               /\ todo'[c] = 1..bSize /\ buf'[c] = BlankPages /\ want'[c] = bSize
               /\ ret'[c] = ret[c] /\ req'[c] = req[c]
               /\ cache'[c] = cache[c] /\ nData'[c] = nData[c]
            \/ /\ bSize = 0
               /\ pc'[c] = "idle" /\ eLock'[c] = level /\ ret'[c] = NoEtag
               /\ cache'[c] = BlankPages /\ nData'[c] = 0 /\ synced'[c] = 0
               /\ dirty'[c] = {} /\ taint'[c] = {}
         /\ \A d \in Conn \ {c} : /\ pc'[d] = pc[d] /\ eLock'[d] = eLock[d]
                                   /\ SameCache(d) /\ SameXfer(d) /\ taint'[d] = taint[d]
<1>1. (etag \in [Conn -> Nat])' /\ etag'[c] = bEtag /\ \A d \in Conn \ {c} : etag'[d] = etag[d]
  BY DEF CacheTypeOK, BlobTypeOK, Refresh, TypeOK
<1>2. CASE bSize > 0 /\ StartGet(c, next) /\ UNCHANGED eLock
  <2>1. /\ cache' = cache /\ nData' = nData /\ synced' = synced
        /\ dirty' = dirty /\ taint' = taint /\ eLock' = eLock
    BY <1>2 DEF StartGet
  <2>2. CacheTypeOK' /\ TaintTypeOK' /\ \A d \in Conn \ {c} : SameCache(d)
    BY <1>1, <2>1 DEF CacheTypeOK, TaintTypeOK, SameCache, TypeOK
  <2>3. (eLock \in [Conn -> {NONE, SHARED, RESERVED, EXCLUSIVE}])'
    BY <2>1 DEF LockTypeOK, TypeOK
  <2> QED
    BY <1>1, <1>2, <2>1, <2>2, <2>3, StartGetEffect DEF TypeOK
<1>3. CASE bSize = 0 /\ Install(c, BlankPages, 0) /\ GoTo(c, "idle") /\ EndXfer(c)
            /\ eLock' = [eLock EXCEPT ![c] = level]
  <2>1. (pc \in [Conn -> PC])' /\ pc'[c] = "idle" /\ \A d \in Conn \ {c} : pc'[d] = pc[d]
    BY <1>3, GoToEffect DEF PC, TypeOK
  <2>2. /\ (eLock \in [Conn -> {NONE, SHARED, RESERVED, EXCLUSIVE}])'
        /\ eLock'[c] = level /\ \A d \in Conn \ {c} : eLock'[d] = eLock[d]
    BY <1>3 DEF LockTypeOK, TypeOK
  <2>3. /\ (cache \in [Conn -> [Page -> Int]])'
        /\ (nData \in [Conn -> 0..MaxPages])' /\ (synced \in [Conn -> 0..MaxPages])'
        /\ (dirty \in [Conn -> SUBSET Page])' /\ TaintTypeOK'
        /\ cache'[c] = BlankPages /\ nData'[c] = 0 /\ synced'[c] = 0
        /\ dirty'[c] = {} /\ taint'[c] = {}
        /\ \A d \in Conn \ {c} : /\ cache'[d] = cache[d] /\ nData'[d] = nData[d]
                                  /\ synced'[d] = synced[d] /\ dirty'[d] = dirty[d]
                                  /\ taint'[d] = taint[d]
    BY <1>3, InstallEffect, BlankType, Sizes
  <2>4. CacheTypeOK' /\ \A d \in Conn \ {c} : SameCache(d)
    BY <1>1, <2>3 DEF CacheTypeOK, SameCache
  <2>5. XferTypeOK' /\ ret'[c] = NoEtag /\ \A d \in Conn \ {c} : SameXfer(d)
    BY <1>3, EndXferEffect DEF TypeOK
  <2> QED
    BY <1>1, <1>3, <2>1, <2>2, <2>3, <2>4, <2>5
<1> QED
  BY <1>2, <1>3 DEF Refresh

\* A change of the blob's content.
LEMMA ModifiedEffect ==
  ASSUME BlobTypeOK, NEW n \in 0..MaxPages, NEW data \in [Page -> Int], Modified(n, data)
  PROVE  BlobTypeOK' /\ bEtag' = bEtag + 1 /\ bSize' = n /\ bData' = data
         /\ holder' = holder /\ lapsed' = NoLease
  BY SMT DEF BlobTypeOK, Modified

\* Cutting a file down.
LEMMA CutEffect ==
  ASSUME NEW data \in [Page -> Int], NEW n \in 0..MaxPages
  PROVE  /\ Cut(data, n) \in [Page -> Int]
         /\ BlankBeyond(Cut(data, n), n)
         /\ \A p \in Page : p <= n => Cut(data, n)[p] = data[p]
  BY SMT DEF Cut, BlankBeyond, Page, Blank

\* A lease request.
LEMMA LeasedEffect ==
  ASSUME BlobTypeOK, NEW h \in Conn \cup {NoLease, Lost}, NEW l \in Conn \cup {NoLease},
         Leased(h, l)
  PROVE  BlobTypeOK' /\ holder' = h /\ lapsed' = l
         /\ bEtag' = bEtag /\ bSize' = bSize /\ bData' = bData
  BY DEF BlobTypeOK, Leased

\* The history of a write.
LEMMA OvertakenEffect ==
  ASSUME TypeOK, NEW c \in Conn, NEW own \in SUBSET Reason, Overtaken(c, own)
  PROVE  /\ TaintTypeOK'
         /\ taint'[c] = taint[c] \cup own
         /\ \A d \in Conn \ {c} : Opened(d) /\ etag[d] = NoEtag => taint'[d] # {}
         /\ \A d \in Conn \ {c} : taint'[d] = {} => taint[d] = {}
  BY DEF TypeOK, TaintTypeOK, Overtaken, Reason

-----------------------------------------------------------------------------
(* Lease requests, and steps without a request, as the rest of the system  *)
(* sees them.                                                              *)

SameContent == bEtag' = bEtag /\ bSize' = bSize /\ bData' = bData

\* The step gives no lease to any connection other than c.
NoLeaseGained(c) == \A d \in Conn \ {c} : LeaseIntact(d)' => LeaseIntact(d)

LeaseStep(c) == BlobTypeOK' /\ SameContent /\ LapsedAlone' /\ NoLeaseGained(c)

\* A step that leaves the service alone.
LEMMA NoRequest ==
  ASSUME BlobTypeOK, LapsedAlone, NEW c \in Conn, UNCHANGED blobVars
  PROVE  LeaseStep(c) /\ (LeaseIntact(c)' <=> LeaseIntact(c))
  BY DEF blobVars, BlobTypeOK, LapsedAlone, LeaseStep, SameContent, NoLeaseGained, LeaseIntact

\* lease_acquire.
LEMMA AcquireEffect ==
  ASSUME BlobTypeOK, LapsedAlone, NEW c \in Conn, LeaseAcquire(c)
  PROVE  LeaseStep(c)
  BY LeasedEffect
     DEF LeaseAcquire, LapsedAlone, LeaseStep, SameContent, NoLeaseGained, LeaseIntact

\* lease_renew succeeds only for an intact lease, and keeps it intact.
LEMMA RenewEffect ==
  ASSUME BlobTypeOK, LapsedAlone, NEW c \in Conn, LeaseRenew(c)
  PROVE  LeaseStep(c) /\ LeaseIntact(c) /\ LeaseIntact(c)'
  BY LeasedEffect
     DEF LeaseRenew, LapsedAlone, LeaseStep, SameContent, NoLeaseGained, LeaseIntact

\* leaseRenewIfNeeded succeeds.
LEMMA KeptEffect ==
  ASSUME BlobTypeOK, LapsedAlone, NEW c \in Conn, LeaseKept(c)
  PROVE  LeaseStep(c) /\ (LeaseIntact(c)' <=> LeaseIntact(c))
  BY NoRequest, RenewEffect DEF LeaseKept

\* lease_release.
LEMMA ReleaseEffect ==
  ASSUME BlobTypeOK, LapsedAlone, NEW c \in Conn, LeaseRelease(c)
  PROVE  LeaseStep(c) /\ ~LeaseIntact(c)'
<1> DEFINE h == IF holder = c THEN NoLease ELSE holder
           l == IF lapsed = c THEN NoLease ELSE lapsed
<1>1. h \in Conn \cup {NoLease, Lost} /\ l \in Conn \cup {NoLease}
  BY DEF BlobTypeOK
<1>2. Leased(h, l)
  BY DEF LeaseRelease
<1>3. BlobTypeOK' /\ SameContent /\ holder' = h /\ lapsed' = l
  BY <1>1, <1>2, LeasedEffect DEF SameContent
<1> QED
  BY <1>3, ConnAssumption DEF LapsedAlone, LeaseStep, NoLeaseGained, LeaseIntact

\* A lease whose id is forgotten.
LEMMA ForgetLeaseEffect ==
  ASSUME BlobTypeOK, LapsedAlone, NEW c \in Conn, LeaseForget(c)
  PROVE  LeaseStep(c) /\ ~LeaseIntact(c)'
<1> DEFINE h == IF holder = c THEN Lost ELSE holder
           l == IF lapsed = c THEN NoLease ELSE lapsed
<1>1. h \in Conn \cup {NoLease, Lost} /\ l \in Conn \cup {NoLease}
  BY DEF BlobTypeOK
<1>2. Leased(h, l)
  BY DEF LeaseForget
<1>3. BlobTypeOK' /\ SameContent /\ holder' = h /\ lapsed' = l
  BY <1>1, <1>2, LeasedEffect DEF SameContent
<1> QED
  BY <1>3, ConnAssumption DEF LapsedAlone, LeaseStep, NoLeaseGained, LeaseIntact

\* A lease that nobody ever learns of.
LEMMA LostEffect ==
  ASSUME BlobTypeOK, LapsedAlone, NEW c \in Conn, holder = NoLease, Leased(Lost, NoLease)
  PROVE  LeaseStep(c) /\ ~LeaseIntact(c)'
  BY ConnAssumption, LeasedEffect
     DEF LapsedAlone, LeaseStep, SameContent, NoLeaseGained, LeaseIntact

\* A lease that expires.
LEMMA ExpireEffect ==
  ASSUME BlobTypeOK, LapsedAlone, LeaseExpire
  PROVE  /\ BlobTypeOK' /\ SameContent /\ LapsedAlone'
         /\ \A d \in Conn : LeaseIntact(d)' => LeaseIntact(d)
<1> DEFINE l == IF holder = Lost THEN NoLease ELSE holder
<1>1. l \in Conn \cup {NoLease}
  BY DEF BlobTypeOK
<1>2. BlobTypeOK' /\ SameContent /\ holder' = NoLease /\ lapsed' = l
  BY <1>1, LeasedEffect DEF LeaseExpire, SameContent
<1> QED
  BY <1>2 DEF LapsedAlone, LeaseIntact

-----------------------------------------------------------------------------
(* The connections that do not act. *)

\* A connection that a step leaves alone keeps its invariant when the blob's
\* content stays as it is.
LEMMA Bystander ==
  ASSUME Inv, NEW d \in Conn, Same(d), taint'[d] = taint[d], SameContent,
         LeaseIntact(d)' => LeaseIntact(d)
  PROVE  ConnInv(d)'
<1>1. (Opened(d)' <=> Opened(d)) /\ (EtagValid(d)' <=> EtagValid(d)) /\ (Exists' <=> Exists)
  BY DEF Opened, EtagValid, Exists, Same, SameCache, SameContent
<1>2. Fresh(d)' /\ Etags(d)'
  BY <1>1 DEF Fresh, Etags, Inv, ConnInv, Same, SameCache, SameXfer, SameContent
<1>3. Locks(d)'
  BY DEF Locks, Inv, ConnInv, Same, SameLock, SameXfer
<1>4. BlankBeyond(cache[d], nData[d])'
  BY DEF Inv, ConnInv, Same, SameCache
<1>5. Download(d)'
  BY SMT DEF Download, Inv, ConnInv, Same, SameCache, SameXfer, SameContent
<1>6. Based(d)' => Based(d)
  BY <1>1 DEF Based, Same, SameXfer, SameContent
<1>7. Coherent(d)'
  BY SMT, <1>6
     DEF Coherent, CacheMatches, Flushed, Inv, ConnInv, Same, SameCache, SameXfer, SameContent
<1> QED
  BY <1>2, <1>3, <1>4, <1>5, <1>7 DEF ConnInv, SameContent

\* It also does when another connection changes the content: whatever it
\* knew of the blob is then visibly out of date, or marked so.
LEMMA Overtaking ==
  ASSUME Inv, NEW c \in Conn, NEW d \in Conn \ {c}, Same(d),
         holder \in {c, NoLease}, holder' = holder, lapsed' = NoLease, bEtag' = bEtag + 1,
         Opened(d) /\ etag[d] = NoEtag => taint'[d] # {}
  PROVE  ConnInv(d)'
<1>0. bEtag \in Nat /\ etag[d] \in Nat /\ ret[d] \in Nat /\ etag[d] <= bEtag /\ ret[d] <= bEtag
  BY DEF TypeOK, BlobTypeOK, CacheTypeOK, XferTypeOK, Etags, Inv, ConnInv
<1>1. ~LeaseIntact(d)'
  BY ConnAssumption DEF LeaseIntact
<1>2. etag'[d] # bEtag' /\ ret'[d] # bEtag' /\ etag'[d] <= bEtag' /\ ret'[d] <= bEtag'
  BY SMT, <1>0 DEF Same, SameCache, SameXfer
<1>3. Fresh(d)'
  BY DEF Fresh, Opened, Inv, ConnInv, Same, SameCache, SameXfer
<1>4. Etags(d)'
  BY SMT, <1>0, <1>2 DEF Etags, Exists, NoEtag
<1>5. Locks(d)'
  BY <1>1 DEF Locks, Inv, ConnInv, Same, SameLock, SameXfer
<1>6. BlankBeyond(cache[d], nData[d])'
  BY DEF Inv, ConnInv, Same, SameCache
<1>7. Download(d)'
  BY <1>1, <1>2 DEF Download, Inv, ConnInv, Same, SameCache, SameXfer
<1>8. Coherent(d)'
  BY <1>1, <1>2 DEF Coherent, Based, Opened, EtagValid, Same, SameCache
<1> QED
  BY <1>3, <1>4, <1>5, <1>6, <1>7, <1>8 DEF ConnInv, SameXfer

-----------------------------------------------------------------------------
(* The frame of every step: what is left to show of the acting connection. *)

LocalTypeOK ==
    /\ pc \in [Conn -> PC]
    /\ LockTypeOK
    /\ CacheTypeOK
    /\ XferTypeOK
    /\ err \subseteq Conn /\ nWrites \in Nat /\ faults \in Nat
    /\ TaintTypeOK

Others(c) == \A d \in Conn \ {c} : Same(d) /\ taint'[d] = taint[d]

\* A step of c that does not change the blob's content.
LEMMA LocalStep ==
  ASSUME Inv, NEW c \in Conn, LeaseStep(c), LocalTypeOK', Others(c), ConnInv(c)'
  PROVE  Inv'
<1>1. TypeOK'
  BY DEF TypeOK, LeaseStep, LocalTypeOK, TaintTypeOK
<1>2. LapsedAlone' /\ BlankBeyond(bData, bSize)'
  BY DEF Inv, LeaseStep, SameContent
<1>3. \A d \in Conn \ {c} : ConnInv(d)'
  BY Bystander DEF Others, LeaseStep, NoLeaseGained
<1> QED
  BY <1>1, <1>2, <1>3 DEF Inv

\* A step of c that changes it: the service lets c write, and the history
\* marks those that cannot notice.
ContentStep(c) ==
    /\ BlobTypeOK' /\ BlankBeyond(bData, bSize)'
    /\ holder \in {c, NoLease}
    /\ holder' = holder /\ lapsed' = NoLease /\ bEtag' = bEtag + 1

Passed(c) == \A d \in Conn \ {c} : /\ Same(d)
                                   /\ Opened(d) /\ etag[d] = NoEtag => taint'[d] # {}

\* A step that changes the blob preserves the invariant if it does so for the
\* acting connection: the others only fall behind.
LEMMA WriteStep ==
  ASSUME Inv, NEW c \in Conn, ContentStep(c), LocalTypeOK', Passed(c), ConnInv(c)'
  PROVE  Inv'
<1>1. TypeOK'
  BY DEF TypeOK, ContentStep, LocalTypeOK, TaintTypeOK
<1>2. LapsedAlone' /\ BlankBeyond(bData, bSize)'
  BY DEF ContentStep, LapsedAlone
<1>3. \A d \in Conn \ {c} : ConnInv(d)'
  BY Overtaking DEF Passed, ContentStep
<1> QED
  BY <1>1, <1>2, <1>3 DEF Inv

\* Counting faults.
LEMMA FaultType == ASSUME faults \in Nat, Fault \/ UNCHANGED faults PROVE faults' \in Nat
  BY SMT DEF Fault

\* A connection that has lost everything.
LEMMA Forgotten ==
  ASSUME Inv, NEW c \in Conn, Forget(c), BlobTypeOK', ~LeaseIntact(c)'
  PROVE  ConnInv(c)'
<1>1. /\ pc'[c] = "closed" /\ eLock'[c] = NONE /\ c \notin leased'
      /\ etag'[c] = NoEtag /\ cache'[c] = BlankPages /\ nData'[c] = 0
      /\ synced'[c] = 0 /\ dirty'[c] = {} /\ ret'[c] = NoEtag
  BY ForgetEffect DEF Inv
<1>2. Fresh(c)' /\ Locks(c)' /\ BlankBeyond(cache[c], nData[c])' /\ Download(c)' /\ Coherent(c)'
  BY <1>1 DEF Fresh, Locks, BlankBeyond, BlankPages, Download, Coherent, Based, Opened, Getting
<1>3. Etags(c)'
  BY SMT, <1>1 DEF Etags, BlobTypeOK, NoEtag
<1> QED
  BY <1>2, <1>3 DEF ConnInv

\* The initial state.
LEMMA InitInv == Init => Inv
<1> SUFFICES ASSUME Init PROVE Inv
  OBVIOUS
<1>1. BlobTypeOK
  <2>1. PICK n \in InitialSizes : \/ n = NoBlob /\ bEtag = NoEtag /\ bSize = 0
                                  \/ n # NoBlob /\ bEtag = 1 /\ bSize = n
    BY DEF Init
  <2>2. bEtag \in Nat /\ bSize \in 0..MaxPages
    BY SMT, <2>1, BoundsAssumption, Sizes DEF NoEtag
  <2> QED
    BY <2>2, BlankType DEF Init, BlobTypeOK
<1>2. LockTypeOK /\ CacheTypeOK /\ XferTypeOK
  BY BlankType, Sizes DEF Init, LockTypeOK, CacheTypeOK, XferTypeOK, NoEtag
<1>3. TypeOK
  BY <1>1, <1>2 DEF Init, TypeOK, PC
<1>4. LapsedAlone /\ BlankBeyond(bData, bSize)
  BY DEF Init, LapsedAlone, BlankBeyond, BlankPages
<1>5. ASSUME NEW c \in Conn PROVE ConnInv(c)
  <2>1. /\ pc[c] = "closed" /\ eLock[c] = NONE /\ c \notin leased
        /\ etag[c] = NoEtag /\ cache[c] = BlankPages /\ nData[c] = 0
        /\ synced[c] = 0 /\ dirty[c] = {} /\ ret[c] = NoEtag /\ ~LeaseIntact(c)
    BY ConnAssumption DEF Init, LeaseIntact
  <2>2. Fresh(c) /\ Locks(c) /\ BlankBeyond(cache[c], nData[c]) /\ Download(c) /\ Coherent(c)
    BY <2>1
       DEF Fresh, Locks, BlankBeyond, BlankPages, Download, Coherent, Based, Opened, Getting
  <2>3. Etags(c)
    BY SMT, <1>1, <2>1 DEF Etags, BlobTypeOK, NoEtag
  <2> QED
    BY <2>2, <2>3 DEF ConnInv
<1> QED
  BY <1>3, <1>4, <1>5 DEF Inv

\* State that a step does not mention.
LEMMA KeepLock ==
  ASSUME LockTypeOK, UNCHANGED lockVars PROVE LockTypeOK' /\ \A d \in Conn : SameLock(d)
  BY DEF LockTypeOK, lockVars, SameLock

\* A step that leaves the cache variables alone.
LEMMA KeepCache ==
  ASSUME CacheTypeOK, UNCHANGED cacheVars PROVE CacheTypeOK' /\ \A d \in Conn : SameCache(d)
  BY DEF CacheTypeOK, cacheVars, SameCache

\* A step that leaves the variables of transfers alone.
LEMMA KeepXfer ==
  ASSUME XferTypeOK, UNCHANGED xferVars PROVE XferTypeOK' /\ \A d \in Conn : SameXfer(d)
  BY DEF XferTypeOK, xferVars, SameXfer

\* A connection whose download has just begun.
LEMMA Downloading ==
  ASSUME Inv, NEW c \in Conn, SameContent, Exists, pc'[c] \in Getting, etag'[c] = bEtag,
         todo'[c] = 1..bSize, buf'[c] = BlankPages, want'[c] = bSize, ret'[c] <= bEtag,
         Locks(c)', BlankBeyond(cache[c], nData[c])'
  PROVE  ConnInv(c)'
<1>1. bEtag \in Nat /\ bSize \in 0..MaxPages
  BY DEF TypeOK, BlobTypeOK, Inv
<1>2. Fresh(c)' /\ Coherent(c)'
  BY DEF Fresh, Coherent, Based, Opened, Getting
<1>3. Etags(c)'
  BY SMT, <1>1 DEF Etags, Exists, SameContent
<1>4. Download(c)'
  BY SMT, <1>1 DEF Download, BlankBeyond, BlankPages, Exists, Page, Inv, SameContent
<1> QED
  BY <1>2, <1>3, <1>4 DEF ConnInv

\* A connection that found the blob empty.
LEMMA Emptied ==
  ASSUME Inv, NEW c \in Conn, SameContent, Exists, bSize = 0, pc'[c] = "idle",
         etag'[c] = bEtag, cache'[c] = BlankPages, nData'[c] = 0, synced'[c] = 0,
         dirty'[c] = {}, ret'[c] = NoEtag, Locks(c)'
  PROVE  ConnInv(c)'
<1>1. bEtag \in Nat
  BY DEF TypeOK, BlobTypeOK, Inv
<1>2. Fresh(c)' /\ Download(c)' /\ BlankBeyond(cache[c], nData[c])'
  BY DEF Fresh, Download, Opened, Getting, BlankBeyond, BlankPages
<1>3. Etags(c)'
  BY SMT, <1>1 DEF Etags, Exists, NoEtag, SameContent
<1>4. Coherent(c)'
  BY SMT DEF Coherent, CacheMatches, Flushed, BlankBeyond, BlankPages, Page, Inv, SameContent
<1> QED
  BY <1>2, <1>3, <1>4 DEF ConnInv

-----------------------------------------------------------------------------
(* Steps that the proofs about several operations share. *)

\* The effect of a change by c on what the others are marked with.
LEMMA PassedBy ==
  ASSUME Inv, NEW c \in Conn, NEW own \in SUBSET Reason, Overtaken(c, own),
         \A d \in Conn \ {c} : Same(d)
  PROVE  Passed(c) /\ TaintTypeOK' /\ taint'[c] = taint[c] \cup own
  BY OvertakenEffect DEF Inv, Passed

\* A step between transfers that leaves cache and content alone: what is to
\* be shown is the lock discipline, and that the cache is not trusted more.
LEMMA Relocked ==
  ASSUME Inv, NEW c \in Conn, SameContent, SameCache(c), ret'[c] \in {ret[c], NoEtag},
         pc[c] \in {"idle", "revalidate", "giveUp", "resize", "put"},
         pc'[c] \in {"idle", "revalidate", "giveUp"},
         Based(c)' => Based(c), Locks(c)'
  PROVE  ConnInv(c)'
<1>1. ConnInv(c) /\ bEtag \in Nat
  BY DEF Inv, TypeOK, BlobTypeOK
<1>2. Fresh(c)' /\ Download(c)' /\ BlankBeyond(cache[c], nData[c])'
  BY <1>1 DEF Fresh, Opened, Download, Getting, ConnInv, SameCache
<1>3. Etags(c)'
  <2>1. etag[c] <= bEtag /\ ret[c] <= bEtag /\ Exists
    BY <1>1 DEF ConnInv, Etags
  <2> QED
    BY SMT, <1>1, <2>1 DEF Etags, Exists, NoEtag, SameContent, SameCache
<1>4. Coherent(c)'
  BY <1>1 DEF Coherent, ConnInv, CacheMatches, Flushed, Flushing, SameContent, SameCache
<1> QED
  BY <1>2, <1>3, <1>4 DEF ConnInv, SameContent

\* Changing one lock level.
LEMMA LevelEffect ==
  ASSUME LockTypeOK, NEW c \in Conn, NEW level \in {NONE, SHARED, RESERVED, EXCLUSIVE},
         eLock' = [eLock EXCEPT ![c] = level]
  PROVE  /\ eLock' \in [Conn -> {NONE, SHARED, RESERVED, EXCLUSIVE}]
         /\ eLock'[c] = level
         /\ \A d \in Conn \ {c} : eLock'[d] = eLock[d]
  BY DEF LockTypeOK

\* Any step that touches neither content nor connection state apart from
\* `reads', `err' and the counters, and takes no lease.
LEMMA Untouched ==
  ASSUME Inv, NEW c \in Conn, LeaseStep(c), LeaseIntact(c)' => LeaseIntact(c), LocalTypeOK',
         \A d \in Conn : Same(d) /\ taint'[d] = taint[d]
  PROVE  Inv'
<1>1. ConnInv(c)'
  BY Bystander DEF LeaseStep
<1> QED
  BY <1>1, LocalStep DEF Others

\* leaseRenewIfNeeded, whatever its outcome.
LEMMA RenewalEffect ==
  ASSUME Inv, NEW c \in Conn, LeaseKept(c) \/ LeaseNotKept(c)
  PROVE  LeaseStep(c) /\ (LeaseIntact(c)' <=> LeaseIntact(c))
<1>1. BlobTypeOK /\ LapsedAlone
  BY DEF Inv, TypeOK
<1> QED
  BY <1>1, KeptEffect, NoRequest DEF LeaseNotKept

\* page_blob_resize as the other connections see it.
LEMMA ResizeEffect ==
  ASSUME Inv, NEW c \in Conn, NEW n \in 0..MaxPages, PageBlobResize(c, c \in leased, n)
  PROVE  /\ ContentStep(c) /\ bEtag \in Nat /\ bEtag' \in Nat
         /\ bSize' = n
         /\ \A p \in Page : bData'[p] = IF p <= n THEN bData[p] ELSE Blank
<1>1. BlobTypeOK /\ bData \in [Page -> Int] /\ bEtag \in Nat
  BY DEF Inv, TypeOK, BlobTypeOK
<1>2. Modified(n, Cut(bData, n)) /\ holder \in {c, NoLease}
  BY DEF PageBlobResize, MayWrite
<1>3. /\ BlobTypeOK' /\ bEtag' = bEtag + 1 /\ bSize' = n /\ bData' = Cut(bData, n)
      /\ holder' = holder /\ lapsed' = NoLease
  BY <1>1, <1>2, CutEffect, ModifiedEffect
<1>4. BlankBeyond(Cut(bData, n), n)
  BY <1>1, CutEffect
<1>5. ContentStep(c)
  BY <1>2, <1>3, <1>4 DEF ContentStep, BlankBeyond
<1> QED
  BY SMT, <1>1, <1>3, <1>5 DEF Cut

\* A connection that changes the content trusts its cache afterwards only if
\* it did before: by an empty p->etag, by its lease, or by what a write told.
LEMMA StillBased ==
  ASSUME Inv, NEW c \in Conn, ContentStep(c), etag'[c] = etag[c], Based(c)',
         taint'[c] = {} => taint[c] = {}, pc[c] \in {"idle", "resize", "put"},
         pc'[c] = "put" /\ ret'[c] = bEtag' => EtagValid(c) \/ LeaseIntact(c)
  PROVE  Based(c)
<1>1. bEtag \in Nat /\ etag[c] \in Nat /\ etag[c] <= bEtag /\ bEtag' = bEtag + 1
  BY DEF Inv, TypeOK, BlobTypeOK, CacheTypeOK, ConnInv, Etags, ContentStep
<1>2. EtagValid(c)' => EtagValid(c)
  BY SMT, <1>1 DEF EtagValid
<1>3. LeaseIntact(c)' => LeaseIntact(c)
  BY DEF LeaseIntact, ContentStep
<1> QED
  BY <1>2, <1>3 DEF Based, Opened, Getting

\* A connection that gives everything up without a request.
LEMMA QuietForget ==
  ASSUME Inv, NEW c \in Conn, Forget(c), c \notin leased, UNCHANGED blobVars, faults' \in Nat,
         TaintTypeOK', \A d \in Conn \ {c} : taint'[d] = taint[d]
  PROVE  Inv'
<1>1. LeaseStep(c) /\ ~LeaseIntact(c)'
  BY NoRequest DEF Inv, TypeOK, ConnInv, Locks
<1>2. ConnInv(c)'
  BY <1>1, Forgotten DEF LeaseStep
<1>3. LocalTypeOK' /\ Others(c)
  BY ForgetEffect DEF Inv, LocalTypeOK, Others
<1> QED
  BY <1>1, <1>2, <1>3, LocalStep

\* A connection whose own bookkeeping a lost answer has put out of step.
LEMMA Marked ==
  ASSUME Inv, NEW c \in Conn, ContentStep(c), SameLock(c), SameCache(c),
         pc[c] = "idle", pc'[c] = "idle", ret'[c] = ret[c], taint'[c] # {}
  PROVE  ConnInv(c)'
<1>1. ConnInv(c) /\ etag[c] <= bEtag /\ ret[c] <= bEtag
  BY DEF Inv, ConnInv, Etags
<1>2. bEtag \in Nat /\ etag[c] \in Nat /\ ret[c] \in Nat /\ bEtag' = bEtag + 1
  BY DEF Inv, TypeOK, BlobTypeOK, CacheTypeOK, XferTypeOK, ContentStep
<1>3. Fresh(c)' /\ Download(c)' /\ Coherent(c)'
  BY DEF Fresh, Opened, Download, Getting, Coherent, Based
<1>4. Etags(c)'
  BY SMT, <1>1, <1>2 DEF Etags, Exists, NoEtag, SameCache
<1>5. Locks(c)' /\ BlankBeyond(cache[c], nData[c])'
  BY <1>1 DEF ConnInv, Locks, LeaseIntact, ContentStep, SameLock, SameCache
<1> QED
  BY <1>3, <1>4, <1>5 DEF ConnInv
=============================================================================

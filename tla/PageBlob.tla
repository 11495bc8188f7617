------------------------------ MODULE PageBlob ------------------------------
(***************************************************************************)
(* The Azure page blob that holds one database, as the VFS uses it: an     *)
(* ETag, a size, pages, and at most one lease.  The service is external;   *)
(* each operator is one request that the service accepts, named after the  *)
(* entry of azure_ops_t that sends it.                                     *)
(***************************************************************************)
EXTENDS Integers

CONSTANTS
    Conn,      \* database connections, in one process or in several
    MaxPages,  \* bound: pages of the largest database
    NoLease,   \* no connection
    Lost       \* holds a lease whose id no live connection remembers

ASSUME ConnAssumption == NoLease \notin Conn /\ Lost \notin Conn /\ NoLease # Lost
ASSUME PagesAssumption == MaxPages \in Nat \ {0}

Page == 1..MaxPages
Blank == 0                       \* a page nobody wrote: all zeros
Junk == -1                       \* bytes nobody wrote: an uninitialised buffer
NoEtag == 0                      \* p->etag[0] == '\0'; also the ETag of no blob
BlankPages == [p \in Page |-> Blank]

VARIABLES
    bEtag,     \* ETag: a new one for every change of the content or the size
    bSize,     \* size in pages
    bData,     \* the pages; those beyond the size are blank
    holder,    \* whose lease is active: a connection, Lost or NoLease
    lapsed     \* whose expired lease is still renewable, or NoLease

blobVars == <<bEtag, bSize, bData, holder, lapsed>>

BlobTypeOK ==
    /\ bEtag \in Nat
    /\ bSize \in 0..MaxPages
    /\ bData \in [Page -> Int]
    /\ holder \in Conn \cup {NoLease, Lost}
    /\ lapsed \in Conn \cup {NoLease}

Exists == bEtag # NoEtag

Cut(d, n) == [p \in Page |-> IF p <= n THEN d[p] ELSE Blank]

(***************************************************************************)
(* A write that carries a lease id needs that lease to be active; one that *)
(* carries none is refused while any lease is active.                      *)
(***************************************************************************)
MayWrite(c, withLease) == holder = (IF withLease THEN c ELSE NoLease)

\* A modification ends what was left of an expired lease.
Modified(size, data) ==
    /\ bEtag' = bEtag + 1
    /\ bSize' = size
    /\ bData' = data
    /\ lapsed' = NoLease
    /\ UNCHANGED holder

\* Put Blob without a precondition: replaces a blob that is already there.
PageBlobCreate == holder = NoLease /\ Modified(0, BlankPages)

PageBlobResize(c, withLease, n) == MayWrite(c, withLease) /\ Modified(n, Cut(bData, n))

PageBlobWrite(c, withLease, ifMatch, range, src) ==
    /\ MayWrite(c, withLease)
    /\ ifMatch \in {NoEtag, bEtag}
    /\ range \subseteq 1..bSize
    /\ Modified(bSize, [p \in Page |-> IF p \in range THEN src[p] ELSE bData[p]])

\* Lease requests leave the ETag alone.
Leased(h, l) ==
    /\ holder' = h
    /\ lapsed' = l
    /\ UNCHANGED <<bEtag, bSize, bData>>

LeaseAcquire(c) == Exists /\ holder = NoLease /\ Leased(c, NoLease)

\* An expired lease can be renewed until the blob is modified or leased again.
LeaseRenew(c) == c \in {holder, lapsed} /\ Leased(c, NoLease)

LeaseRelease(c) == Leased(IF holder = c THEN NoLease ELSE holder,
                          IF lapsed = c THEN NoLease ELSE lapsed)

\* The client forgets its lease id while the lease runs on.
LeaseForget(c) == Leased(IF holder = c THEN Lost ELSE holder,
                         IF lapsed = c THEN NoLease ELSE lapsed)

LeaseExpire == /\ holder # NoLease
               /\ Leased(NoLease, IF holder = Lost THEN NoLease ELSE holder)
=============================================================================

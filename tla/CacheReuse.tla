----------------------------- MODULE CacheReuse -----------------------------
(***************************************************************************)
(* The cache file that outlives its connection (cache_reuse=1), its three  *)
(* sidecar files .etag, .snapshot and .state, and the lazy cache           *)
(* (prefetch=none) of sqlite_objs_vfs.c.  One machine opens the database,  *)
(* closes it and dies, session after session, while others commit.  A step *)
(* is one request or the local code up to the next file that a dead        *)
(* process would leave behind.  The lock protocol and the failures of a    *)
(* flush are MainDb's.                                                     *)
(***************************************************************************)
EXTENDS Integers, Sequences

CONSTANTS
    Modes,        \* the values of prefetch that sessions use: "all", "none"
    Readahead,    \* SQLITE_OBJS_READAHEAD_PAGES
    Bootstrap,    \* pages in SQLITE_OBJS_PAGE1_BOOTSTRAP bytes
    Chunks,       \* the sets of pages that one GET of a whole download may ask for
    PageSizes,    \* the page sizes that a database may have
    DefaultPageSize, \* SQLITE_OBJS_DEFAULT_PAGE_SIZE
    InitialSize,  \* pages of the blob at the start
    MaxPages,     \* bound: pages of the largest blob
    MaxVersions,  \* bound: versions of the blob
    MaxFaults     \* bound: requests that fail

ASSUME ModesAssumption == Modes \subseteq {"all", "none"}
ASSUME WindowAssumption == Readahead \in Nat \ {0} /\ Bootstrap \in Nat \ {0}
ASSUME SizeAssumption == MaxPages \in Nat /\ InitialSize \in 1..MaxPages
ASSUME ChunksAssumption == UNION Chunks = 1..MaxPages
ASSUME PageSizeAssumption == PageSizes \subseteq Nat \ {0} /\ DefaultPageSize \in Nat \ {0}
ASSUME BoundsAssumption == MaxVersions \in Nat \ {0} /\ MaxFaults \in Nat

Hole == 0                            \* zeros of a sparse file
New == MaxVersions + 1               \* a page that is not in the blob yet
Junk == MaxVersions + 2              \* what malloc left in a buffer
No == 0                              \* no ETag, no snapshot, no .state file

VARIABLES
    hist,       \* the versions of the blob; the ETag is the number of the last
    pageSize,   \* the page size in the header of the database
    present,    \* the cache file exists
    file,       \* its pages; a page holds the version that wrote it
    fEtag,      \* .etag
    fSnap,      \* .snapshot: the version that the snapshot keeps
    fSize,      \* .state: the file size it was written for
    fValid,     \* .state: the valid bitmap
    pc,         \* what the session does next
    mode,       \* p->prefetchMode
    etag,       \* p->etag
    snap,       \* p->snapshot
    valid,      \* p->valid
    dirty,      \* p->dirty
    target,     \* blobSize from the answer to a HEAD
    todo,       \* pages of a diff, a download or a flush that are still to come
    tempBuf,    \* the buffer that a whole download fills
    acks,       \* ETags that the page writes of a flush came back with
    faults,     \* number of failed requests
    fresh,      \* history: the file was emptied and no .state written since
    taint       \* history: how the file may have come to differ from its ETag

blobVars == <<hist, pageSize>>
fileVars == <<present, file, fEtag, fSnap, fSize, fValid>>
memVars == <<mode, etag, snap, valid, dirty, target, todo, tempBuf, acks>>
vars == <<blobVars, fileVars, pc, memVars, faults, fresh, taint>>

PC == {"closed", "diff", "patch", "download", "open", "refresh", "write", "flush",
       "snapshot", "closeState", "closeEtag", "closeSnap"}

\* A dead process; a HEAD at close; holes under prefetch=all; a failed refresh;
\* holes that a diff in units of another page size has marked valid.
Reason == {"crash", "state", "head", "holes", "refresh", "units"}

Page == 1..MaxPages
Etag == 0..MaxVersions
Version == Len(hist)
Blob == hist[Version]
Pages(s) == 1..Len(s)
NoBuf == [p \in Page |-> Junk]

TypeOK ==
    /\ Version \in 1..MaxVersions
    /\ \A v \in 1..Version : Len(hist[v]) \in Page
    /\ pageSize \in PageSizes
    /\ present \in BOOLEAN
    /\ Len(file) \in 0..MaxPages /\ \A p \in Pages(file) : file[p] \in 0..Junk
    /\ fEtag \in Etag /\ fSnap \in Etag /\ fSize \in 0..MaxPages
    /\ fValid \subseteq Page
    /\ pc \in PC
    /\ mode \in {"all", "none"}
    /\ etag \in Etag /\ snap \in Etag
    /\ valid \subseteq Page /\ dirty \subseteq Pages(file)
    /\ target \in 0..MaxPages
    /\ todo \subseteq Page
    /\ tempBuf \in [Page -> 0..Junk]
    /\ acks \subseteq Etag
    /\ faults \in 0..MaxFaults
    /\ fresh \in BOOLEAN
    /\ taint \subseteq Reason

Init ==
    /\ hist = <<[p \in 1..InitialSize |-> 1]>>
    /\ pageSize \in PageSizes
    /\ present = FALSE /\ file = <<>>
    /\ fEtag = No /\ fSnap = No /\ fSize = No /\ fValid = {}
    /\ pc = "closed"
    /\ mode = "all" /\ etag = No /\ snap = No
    /\ valid = {} /\ dirty = {} /\ target = 0 /\ todo = {} /\ tempBuf = NoBuf /\ acks = {}
    /\ faults = 0
    /\ fresh = FALSE /\ taint = {}

-----------------------------------------------------------------------------
(* Helpers. *)

Fault == faults < MaxFaults /\ faults' = faults + 1

\* ftruncate to n pages.
Sized(s, n) == [p \in 1..n |-> IF p <= Len(s) THEN s[p] ELSE Hole]

\* pwrite of pages S of the blob into the cache file.
Patched(s, S) == [p \in Pages(s) |-> IF p \in S THEN Blob[p] ELSE s[p]]

\* Mutant: bits are set beyond the bitmap.
MarkedUnchecked(p) ==
    (((p - 1) * pageSize) \div DefaultPageSize + 1)
      ..((p * pageSize + DefaultPageSize - 1) \div DefaultPageSize)

\* The pages whose bits validMarkRange sets for page p in a diff, when
\* p->pageSize is still the default.
Marked(p) ==
    (((p - 1) * pageSize) \div DefaultPageSize + 1)
      ..((p * pageSize + DefaultPageSize - 1) \div DefaultPageSize) \cap Page

Holes == {p \in Pages(file) : file[p] = Hole}

\* The pages that Get Page Ranges reports as changed since a snapshot.
DiffRanges(s) == {p \in Pages(Blob) : p > Len(hist[s]) \/ hist[s][p] # Blob[p]}

\* readStateFile, whose bitmap counts only for a file of the same size.
SavedValid(size) == IF fSize = size THEN fValid ELSE {}

WriteStateFile ==
    IF mode = "none"
    THEN fSize' = Len(file) /\ fValid' = valid /\ fresh' = FALSE
    ELSE UNCHANGED <<fSize, fValid, fresh>>

-----------------------------------------------------------------------------
(* Others commit; a writer's lease keeps them out. *)

Commit(n, S) ==
    /\ Version < MaxVersions
    /\ pc \notin {"write", "flush", "snapshot"}
    /\ S # {} \/ n # Len(Blob)
    /\ S \subseteq 1..n
    /\ hist' = Append(hist, [p \in 1..n |->
                               IF p \in S \/ p > Len(Blob) THEN Version + 1 ELSE Blob[p]])
    /\ UNCHANGED <<pageSize, fileVars, pc, memVars, faults, fresh, taint>>

-----------------------------------------------------------------------------
(* xOpen. *)

\* The ETag and the size are right: the file is taken as it is.
Reuse(m) ==
    /\ present /\ fEtag = Version /\ Len(file) = Len(Blob)
    /\ snap' = fSnap
    /\ valid' = IF m = "none" THEN SavedValid(Len(Blob)) ELSE {}
    /\ taint' = IF m = "all" /\ Holes # {} THEN taint \cup {"holes"} ELSE taint
    /\ pc' = "open"
    /\ UNCHANGED <<fileVars, dirty, todo, fresh>>

\* A snapshot of the version that the file was synchronised with is known.
TryDiff(m) ==
    /\ ~(present /\ fEtag = Version /\ Len(file) = Len(Blob))
    /\ fSnap # No /\ present
    /\ snap' = fSnap
    /\ valid' = {}
    /\ taint' = IF m = "all" /\ Holes # {} THEN taint \cup {"holes"} ELSE taint
    /\ pc' = "diff"
    /\ UNCHANGED <<fileVars, dirty, todo, fresh>>

\* O_TRUNC; the sidecar files stay.
StartDownload(m) ==
    /\ ~(present /\ fEtag = Version /\ Len(file) = Len(Blob))
    /\ fSnap = No \/ ~present
    /\ present' = TRUE /\ file' = <<>>
    /\ valid' = {}
    /\ todo' = IF m = "all" THEN Pages(Blob) ELSE {}
    /\ pc' = "download"
    /\ UNCHANGED <<fEtag, fSnap, fSize, fValid, snap, dirty, fresh, taint>>

Open(m) ==
    /\ pc = "closed"
    /\ mode' = m
    /\ etag' = Version
    /\ target' = Len(Blob)
    /\ Reuse(m) \/ TryDiff(m) \/ StartDownload(m)
    /\ UNCHANGED <<blobVars, tempBuf, acks, faults>>

\* blob_get_page_ranges_diff; the file grows to the size of the HEAD.
DiffList ==
    /\ pc = "diff"
    /\ todo' = DiffRanges(snap)
    /\ file' = IF target > Len(file) THEN Sized(file, target) ELSE file
    /\ pc' = "patch"
    /\ UNCHANGED <<blobVars, present, fEtag, fSnap, fSize, fValid,
                   mode, etag, snap, valid, dirty, target, tempBuf, acks, faults, fresh, taint>>

\* One changed range; pwrite beyond the end makes the file longer.  The bitmap
\* has the size that the file had, and bits beyond it are not set.
DiffPage ==
    /\ pc = "patch"
    /\ \E p \in todo \cap Pages(Blob) :
         /\ file' = Patched(Sized(file, IF p > Len(file) THEN p ELSE Len(file)), {p})
         /\ \E M \in SUBSET Marked(p) :
              valid' = IF mode = "none" THEN valid \cup M ELSE valid
         /\ todo' = todo \ {p}
    /\ UNCHANGED <<blobVars, present, fEtag, fSnap, fSize, fValid, pc,
                   mode, etag, snap, dirty, target, tempBuf, acks, faults, fresh, taint>>

\* Mutant: the file keeps the pages that the blob has lost.
DiffDoneKeepsTail ==
    /\ pc = "patch" /\ todo = {}
    /\ pc' = "open"
    /\ UNCHANGED <<blobVars, fileVars, memVars, faults, fresh, taint>>

\* The file ends at the size of the HEAD: the code cuts it if it was longer when
\* it was opened, and looks at no page that a range has added beyond nData.
DiffDone ==
    /\ pc = "patch" /\ todo = {}
    /\ file' = IF target < Len(file) THEN Sized(file, target) ELSE file
    /\ taint' = IF \E p \in valid : p \in Pages(file') /\ file'[p] = Hole
                THEN taint \cup {"units"} ELSE taint
    /\ pc' = "open"
    /\ UNCHANGED <<blobVars, present, fEtag, fSnap, fSize, fValid,
                   memVars, faults, fresh>>

\* The list or a range fails, or the blob has become too short for a range.
DiffFail ==
    /\ pc \in {"diff", "patch"}
    /\ \/ Fault
       \/ ~(todo \subseteq Pages(Blob)) /\ UNCHANGED faults
    /\ file' = <<>>
    /\ valid' = {} /\ todo' = IF mode = "all" THEN 1..target ELSE {}
    /\ snap' = No
    /\ pc' = "download"
    /\ UNCHANGED <<blobVars, present, fEtag, fSnap, fSize, fValid,
                   mode, etag, dirty, target, tempBuf, acks, fresh, taint>>

\* A whole download is under way: page_blob_read_multi into tempBuf.
Getting == pc = "refresh" \/ (pc = "download" /\ mode = "all")

\* One GET, answered by whatever version the blob has now.  Of a range that
\* ends beyond the blob the answer is a part, and the buffer keeps its rest.
GetChunk ==
    /\ Getting
    /\ \E ch \in Chunks :
         /\ ch \cap todo \cap Pages(Blob) # {}
         /\ tempBuf' = [p \in Page |-> IF p \in ch \cap todo \cap Pages(Blob)
                                      THEN Blob[p] ELSE tempBuf[p]]
         /\ todo' = todo \ ch
    /\ UNCHANGED <<blobVars, fileVars, pc, mode, etag, snap, valid, dirty, target, acks,
                   faults, fresh, taint>>

\* A range wholly beyond the end of the blob is refused.
RangeRefused ==
    \E ch \in Chunks : ch \cap todo # {} /\ ch \cap todo \cap Pages(Blob) = {}

\* The file that is written once every GET has been answered.
Loaded == [p \in 1..target |-> tempBuf[p]]

\* prefetch=all: the whole blob; the blob may be newer than the ETag.
Download ==
    /\ pc = "download" /\ mode = "all"
    /\ todo = {}
    /\ file' = Loaded
    /\ tempBuf' = NoBuf
    /\ fresh' = FALSE
    /\ taint' = {}
    /\ pc' = "open"
    /\ UNCHANGED <<blobVars, present, fEtag, fSnap, fSize, fValid,
                   mode, etag, snap, valid, dirty, target, todo, acks, faults>>

\* prefetch=none: a sparse file with the first pages.
DownloadFirst ==
    /\ pc = "download" /\ mode = "none"
    /\ LET first == 1..(IF Bootstrap < target THEN Bootstrap ELSE target)
                       \cap Pages(Blob)
       IN  /\ file' = Patched(Sized(<<>>, target), first)
           /\ valid' = first
    /\ fresh' = TRUE
    /\ taint' = {}
    /\ pc' = "open"
    /\ UNCHANGED <<blobVars, present, fEtag, fSnap, fSize, fValid,
                   mode, etag, snap, dirty, target, todo, tempBuf, acks, faults>>

\* The cache file is unlinked, its sidecar files are not.
DownloadFail ==
    /\ pc = "download"
    /\ \/ (mode = "all" => todo # {}) /\ Fault
       \/ mode = "all" /\ RangeRefused /\ UNCHANGED faults
    /\ present' = FALSE /\ file' = <<>>
    /\ todo' = {} /\ tempBuf' = NoBuf
    /\ pc' = "closed"
    /\ UNCHANGED <<blobVars, fEtag, fSnap, fSize, fValid,
                   mode, etag, snap, valid, dirty, target, acks, fresh, taint>>

-----------------------------------------------------------------------------
(* Locks: revalidateBeforeRead and revalidateAfterLease, to the extent that *)
(* they touch the cache file.                                               *)

\* The HEAD of a lock finds a new version: its ETag is taken at once.
Stale ==
    /\ pc = "open"
    /\ etag # Version
    /\ etag' = Version
    /\ target' = Len(Blob)
    /\ todo' = Pages(Blob)
    /\ pc' = "refresh"
    /\ UNCHANGED <<blobVars, fileVars, mode, snap, valid, dirty, tempBuf, acks,
                   faults, fresh, taint>>

\* refreshMainDbCache marks every page valid, also of a lazy cache.
Refresh ==
    /\ pc = "refresh"
    /\ todo = {}
    /\ file' = Loaded
    /\ tempBuf' = NoBuf
    /\ valid' = IF mode = "none" THEN 1..target ELSE {}
    /\ snap' = No
    /\ dirty' = {}
    /\ taint' = {}
    /\ pc' = "open"
    /\ UNCHANGED <<blobVars, present, fEtag, fSnap, fSize, fValid,
                   mode, etag, target, todo, acks, faults, fresh>>

RefreshFail ==
    /\ pc = "refresh"
    /\ todo # {}
    /\ \/ Fault
       \/ RangeRefused /\ UNCHANGED faults
    /\ todo' = {} /\ tempBuf' = NoBuf
    /\ taint' = taint \cup {"refresh"}
    /\ pc' = "open"
    /\ UNCHANGED <<blobVars, fileVars, mode, etag, snap, valid, dirty, target, acks, fresh>>

-----------------------------------------------------------------------------
(* Reads of a lazy cache. *)

\* fetchPagesFromAzure: a window of pages, valid or not, from whatever
\* version the blob has now; a short answer fills less.
Fetch(p) ==
    LET window == p..(p + Readahead - 1) \cap Pages(file) \cap Pages(Blob)
    IN  /\ p \in Pages(Blob)
        /\ file' = Patched(file, window)
        /\ valid' = valid \cup window

\* xRead of a page that is not valid; one that is valid changes nothing.
Read(p) ==
    /\ pc \in {"open", "write"} /\ mode = "none"
    /\ p \in Pages(file) \ valid
    /\ Fetch(p)
    /\ UNCHANGED <<blobVars, present, fEtag, fSnap, fSize, fValid, pc,
                   mode, etag, snap, dirty, target, todo, tempBuf, acks, faults, fresh, taint>>

\* One range of PRAGMA sqlite_objs_prefetch: invalid pages up to a valid one.
Prefetch(p, q) ==
    /\ pc = "open" /\ mode = "none"
    /\ q <= Len(file)
    /\ p..q \cap valid = {}
    /\ p = 1 \/ p - 1 \in valid
    /\ q = Len(file) \/ q + 1 \in valid
    /\ p \in Pages(Blob)
    /\ file' = Patched(file, p..q \cap Pages(Blob))
    /\ valid' = valid \cup (p..q \cap Pages(Blob))
    /\ UNCHANGED <<blobVars, present, fEtag, fSnap, fSize, fValid, pc,
                   mode, etag, snap, dirty, target, todo, tempBuf, acks, faults, fresh, taint>>

-----------------------------------------------------------------------------
(* A write transaction: xWrite, xSync and the sidecar files it leaves. *)

\* RESERVED is granted over current content only.
Reserve ==
    /\ pc = "open"
    /\ etag = Version
    /\ pc' = "write"
    /\ UNCHANGED <<blobVars, fileVars, memVars, faults, fresh, taint>>

\* A page of the file or the one after its end.
Write(p) ==
    /\ pc = "write"
    /\ p \in 1..(Len(file) + 1) \ dirty
    /\ file' = [Sized(file, IF p > Len(file) THEN p ELSE Len(file)) EXCEPT ![p] = New]
    /\ dirty' = dirty \cup {p}
    /\ valid' = IF mode = "none" THEN valid \cup {p} ELSE valid
    /\ UNCHANGED <<blobVars, present, fEtag, fSnap, fSize, fValid, pc,
                   mode, etag, snap, target, todo, tempBuf, acks, faults, fresh, taint>>

Sync ==
    /\ pc = "write"
    /\ dirty # {}
    /\ acks' = {}
    /\ todo' = dirty
    /\ pc' = "flush"
    /\ UNCHANGED <<blobVars, fileVars, mode, etag, snap, valid, dirty, target, tempBuf,
                   faults, fresh, taint>>

\* Nothing was written: the lock goes.
Release ==
    /\ pc = "write"
    /\ dirty = {}
    /\ pc' = "open"
    /\ UNCHANGED <<blobVars, fileVars, memVars, faults, fresh, taint>>

\* A page reaches the blob, which has a new version and the size of the file;
\* what is not a page of an earlier version is stamped with the new one.
Put(p) ==
    /\ pc = "flush"
    /\ Version < MaxVersions
    /\ p \in todo
    /\ LET stamp == IF file[p] \in Etag THEN file[p] ELSE Version + 1
       IN  /\ hist' = Append(hist, [Sized(Blob, Len(file)) EXCEPT ![p] = stamp])
           /\ file' = [file EXCEPT ![p] = stamp]
    /\ acks' = acks \cup {Version + 1}
    /\ todo' = todo \ {p}
    /\ UNCHANGED <<pageSize, present, fEtag, fSnap, fSize, fValid, pc,
                   mode, etag, snap, valid, dirty, target, tempBuf, faults, fresh, taint>>

\* The ETag of some page write, of the last one in a sequential flush, goes to
\* the .etag file at once.
SyncDone ==
    /\ pc = "flush" /\ todo = {}
    /\ \E e \in acks : etag' = e /\ fEtag' = e
    /\ dirty' = {}
    /\ pc' = "snapshot"
    /\ UNCHANGED <<blobVars, present, file, fSnap, fSize, fValid,
                   mode, snap, valid, target, todo, tempBuf, acks, faults, fresh, taint>>

\* blob_snapshot_create, whose failure is not one of xSync; then .state.
SnapshotCreate ==
    /\ pc = "snapshot"
    /\ \/ snap' = Version /\ UNCHANGED faults
       \/ Fault /\ UNCHANGED snap
    /\ WriteStateFile
    /\ pc' = "open"
    /\ UNCHANGED <<blobVars, present, file, fEtag, fSnap,
                   mode, etag, valid, dirty, target, todo, tempBuf, acks, taint>>

-----------------------------------------------------------------------------
(* xClose, file by file. *)

\* The HEAD before the sidecar files are written; no lock is held.
CloseHead ==
    /\ pc = "open"
    /\ \/ etag' = Version /\ UNCHANGED faults
       \/ Fault /\ UNCHANGED etag
    /\ taint' = IF etag' # etag THEN taint \cup {"head"} ELSE taint
    /\ pc' = "closeState"
    /\ UNCHANGED <<blobVars, fileVars, mode, snap, valid, dirty, target, todo, tempBuf, acks,
                   fresh>>

CloseState ==
    /\ pc = "closeState"
    /\ WriteStateFile
    /\ pc' = "closeEtag"
    /\ UNCHANGED <<blobVars, present, file, fEtag, fSnap, memVars, faults, taint>>

CloseEtag ==
    /\ pc = "closeEtag"
    /\ fEtag' = etag
    /\ pc' = "closeSnap"
    /\ UNCHANGED <<blobVars, present, file, fSnap, fSize, fValid, memVars, faults, fresh, taint>>

\* An empty p->snapshot leaves the .snapshot file of an earlier session.
CloseSnap ==
    /\ pc = "closeSnap"
    /\ fSnap' = IF snap # No THEN snap ELSE fSnap
    /\ etag' = No /\ snap' = No /\ valid' = {} /\ target' = 0 /\ acks' = {}
    /\ pc' = "closed"
    /\ UNCHANGED <<blobVars, present, file, fEtag, fSize, fValid,
                   mode, dirty, todo, tempBuf, faults, fresh, taint>>

-----------------------------------------------------------------------------
(* The process dies and leaves its files as they are.                       *)

\* What a download or a refresh that is cut short leaves: the file as it was,
\* emptied or all zeros until the answers are there, or a beginning of the new one.
CutShort ==
    \/ UNCHANGED file
    \/ Getting /\ todo = {} /\ \E n \in 0..target : file' = [p \in 1..n |-> tempBuf[p]]
    \/ /\ pc = "download" /\ mode = "none"
       /\ \E n \in 0..Bootstrap :
            file' = Patched(Sized(<<>>, target), 1..n \cap Pages(Blob))

Crash ==
    /\ pc # "closed"
    /\ IF pc \in {"download", "refresh"} THEN CutShort ELSE UNCHANGED file
    /\ taint' = taint
                  \cup {r \in {"crash"} : dirty # {} \/ pc = "download" \/ file' # file}
                  \cup {r \in {"state"} : fresh}
    /\ etag' = No /\ snap' = No /\ valid' = {} /\ dirty' = {}
    /\ target' = 0 /\ todo' = {} /\ tempBuf' = NoBuf /\ acks' = {}
    /\ pc' = "closed"
    /\ UNCHANGED <<blobVars, present, fEtag, fSnap, fSize, fValid, mode, faults, fresh>>

Next ==
    \/ \E n \in Page : \E S \in SUBSET (1..n) : Commit(n, S)
    \/ \E m \in Modes : Open(m)
    \/ DiffList \/ DiffPage \/ DiffDone \/ DiffFail
    \/ GetChunk \/ Download \/ DownloadFirst \/ DownloadFail
    \/ Stale \/ Refresh \/ RefreshFail
    \/ \E p \in Page : Read(p) \/ Write(p) \/ Put(p)
    \/ \E p, q \in Page : p <= q /\ Prefetch(p, q)
    \/ Reserve \/ Sync \/ Release \/ SyncDone \/ SnapshotCreate
    \/ CloseHead \/ CloseState \/ CloseEtag \/ CloseSnap
    \/ Crash

Spec == Init /\ [][Next]_vars

-----------------------------------------------------------------------------
(* Properties. *)

\* The cache file holds the blob, as far as the session looks at it.
FileMatches ==
    /\ Len(file) = Len(Blob)
    /\ \A p \in Pages(file) : mode = "all" \/ p \in valid => file[p] = Blob[p]

\* A session at rest whose ETag is that of the blob, and whose file has at
\* most the given history.
Accepted(reasons) == pc = "open" /\ etag = Version /\ taint \subseteq reasons

(***************************************************************************)
(* A session that revalidation would accept, because its ETag is the       *)
(* blob's, reads the blob's pages: whether it took the file of an earlier  *)
(* session by its ETag, patched it with the diff since a snapshot, or      *)
(* downloaded it, and whatever sidecar files earlier sessions, also ones   *)
(* that died between two of them, left behind.                             *)
(***************************************************************************)
ReuseCoherent == Accepted({}) => FileMatches
=============================================================================

--------------------------- MODULE CacheReuseProofs ---------------------------
(***************************************************************************)
(* CacheReuse: a session that revalidation accepts reads the blob's pages, *)
(* for any number of pages, versions, sessions and failed requests.        *)
(***************************************************************************)
EXTENDS CacheReuse, SequenceTheorems, TLAPS

\* Most leaves are first-order; a leaf that needs arithmetic or sequences
\* cites SMT.
USE Zenon

-----------------------------------------------------------------------------
(* The inductive invariant. *)

\* Versions hold stamps of versions up to the last one.
HistOK ==
    /\ hist \in Seq(Seq(Nat))
    /\ Version \in 1..MaxVersions
    /\ \A v \in 1..Version : Len(hist[v]) \in Page
    /\ \A v \in 1..Version : \A p \in Pages(hist[v]) : hist[v][p] \in 0..Version

\* Values of pages that no version of the blob has.
Odd == {New, Junk}

FileOK ==
    /\ file \in Seq(Nat)
    /\ Len(file) \in 0..MaxPages
    /\ \A p \in Pages(file) : file[p] \in 0..Version \/ file[p] \in Odd

StateOK ==
    /\ present \in BOOLEAN
    /\ fEtag \in 0..Version /\ fSnap \in 0..Version /\ fSize \in 0..MaxPages
    /\ fValid \subseteq Page
    /\ pc \in PC
    /\ mode \in {"all", "none"}
    /\ etag \in 0..Version /\ snap \in 0..Version
    /\ valid \subseteq Page /\ dirty \subseteq Pages(file)
    /\ target \in 0..MaxPages
    /\ todo \subseteq Page
    /\ acks \subseteq 1..Version
    /\ faults \in 0..MaxFaults
    /\ fresh \in BOOLEAN
    /\ taint \subseteq Reason

Loading == {"diff", "patch", "download", "refresh"}
Resting == {"open", "closeState", "closeEtag", "closeSnap"}
Writing == {"write", "flush", "snapshot"}

\* The pages that version r and the blob have in common.
Unchanged(r) == {p \in Pages(Blob) : p \in Pages(hist[r]) /\ hist[r][p] = Blob[p]}

Kept == {fSnap, fEtag, snap} \ {No}

\* Which variables mean something when.
Phase ==
    /\ dirty # {} => pc \in {"write", "flush"}
    /\ pc = "flush" => todo \subseteq dirty
    /\ pc # "closed" => present /\ etag # No
    /\ pc \in {"closed", "download"} => snap = No
    /\ pc \in {"diff", "patch"} => snap # No
    /\ pc = "patch" => target <= Len(file)
    /\ pc = "write" => etag = Version
    /\ pc \in Loading /\ etag = Version => target = Len(Blob)

\* A page beyond the size of the HEAD is newer than everything kept.
Within ==
    pc \in Loading => \A r \in Kept \cup {etag} : \A p \in Unchanged(r) : p <= target

Typed == HistOK /\ FileOK /\ StateOK /\ Phase /\ Within

\* The .state file is older than the file that the session started.
Unsaved ==
    /\ fresh /\ mode = "none"
    /\ pc \in {"open", "refresh", "write", "flush", "snapshot", "closeState"}

\* The pages that this session or a later one serves without a request.
Strict ==
    (IF Unsaved THEN {} ELSE fValid) \cup
    (IF pc = "closed" THEN {} ELSE IF mode = "all" THEN Page
     ELSE IF pc = "patch" THEN {} ELSE valid)

\* The file holds page p of the blob; a page nobody serves may be a hole.
Holds(p) ==
    /\ p \in Pages(file)
    /\ file[p] = Blob[p] \/ (file[p] = Hole /\ p \notin Strict)

\* What has not changed since version r is right in the file.
Agrees(r) == \A p \in Unchanged(r) : Holds(p)

\* The versions that the file has been brought up to, or can be.
Refs == Kept \cup {e \in {etag} : pc \in Resting}

\* Written, and not in the blob yet.
Excused == IF pc = "write" THEN dirty ELSE IF pc = "flush" THEN todo ELSE {}

OnDiskInv ==
    present /\ pc \in {"closed", "diff", "patch", "refresh"} \cup Resting =>
        \A r \in Refs : Agrees(r)

PatchInv == pc = "patch" => \A r \in {etag} : \A p \in Unchanged(r) \ todo : Holds(p)

WriteInv ==
    pc \in Writing => /\ \A p \in Pages(Blob) \ Excused : Holds(p)
                      /\ Pages(file) \ Pages(Blob) \subseteq Excused

SizeInv == pc \in Resting /\ etag = Version => Len(file) = Len(Blob)

Clean == OnDiskInv /\ PatchInv /\ WriteInv /\ SizeInv

CacheInv == Typed /\ (taint = {} => Clean)

BufOK ==
    /\ pageSize \in PageSizes
    /\ tempBuf \in [Page -> Nat]
    /\ \A p \in Page : tempBuf[p] \in 0..Version \/ tempBuf[p] \in Odd

\* What a whole download has fetched, and nobody has changed since a version
\* that is kept, is as it is in the blob, whichever GET came when.
GetInv ==
    Getting => \A r \in Kept \cup {etag} : \A p \in Unchanged(r) \ todo : tempBuf[p] = Blob[p]

BufInv == BufOK /\ GetInv

IInv == CacheInv /\ BufInv

-----------------------------------------------------------------------------
(* Files. *)

\* A function on 1..n is a sequence of length n.
LEMMA Built ==
    ASSUME NEW n \in Nat, NEW T, NEW f \in [1..n -> T]
    PROVE  f \in Seq(T) /\ Len(f) = n
BY SMT

\* What ftruncate leaves.
LEMMA SizedIs ==
    ASSUME NEW s \in Seq(Nat), NEW n \in Nat
    PROVE  /\ Sized(s, n) \in Seq(Nat)
           /\ Len(Sized(s, n)) = n
           /\ \A p \in 1..n : p <= Len(s) => Sized(s, n)[p] = s[p]
           /\ \A p \in 1..n : ~(p <= Len(s)) => Sized(s, n)[p] = 0
<1>1. Sized(s, n) \in [1..n -> Nat]
    BY SMT DEF Sized, Hole
<1>2. Sized(s, n) \in Seq(Nat) /\ Len(Sized(s, n)) = n
    BY <1>1, Built
<1> QED BY <1>2, SMT DEF Sized, Hole

\* What the pwrite of pages S leaves.
LEMMA PatchedIs ==
    ASSUME Blob \in Seq(Nat), NEW s \in Seq(Nat), NEW S, S \cap Pages(s) \subseteq Pages(Blob)
    PROVE  /\ Patched(s, S) \in Seq(Nat)
           /\ Len(Patched(s, S)) = Len(s)
           /\ \A p \in Pages(s) : p \in S => Patched(s, S)[p] = Blob[p]
           /\ \A p \in Pages(s) : p \notin S => Patched(s, S)[p] = s[p]
<1> DEFINE b == Blob
<1>1. b \in Seq(Nat)
    OBVIOUS
<1> HIDE DEF b
<1>2. Patched(s, S) = [p \in Pages(s) |-> IF p \in S THEN b[p] ELSE s[p]]
    BY DEF Patched, b
<1>3. S \cap Pages(s) \subseteq Pages(b)
    BY DEF b
<1>4. Patched(s, S) \in [1..Len(s) -> Nat] /\ Len(s) \in Nat
    BY <1>1, <1>2, <1>3, SMT DEF Pages
<1>5. Patched(s, S) \in Seq(Nat) /\ Len(Patched(s, S)) = Len(s)
    BY <1>4, Built
<1>6. /\ \A p \in Pages(s) : p \in S => Patched(s, S)[p] = b[p]
      /\ \A p \in Pages(s) : p \notin S => Patched(s, S)[p] = s[p]
    BY <1>2
<1> QED BY <1>5, <1>6 DEF b

-----------------------------------------------------------------------------
(* Facts that the steps share. *)

\* The types of the blob and of the file.
LEMMA Basics ==
    ASSUME Typed
    PROVE  /\ Version \in Nat /\ Version \in 1..Version /\ Version \in 1..MaxVersions
           /\ Blob \in Seq(Nat) /\ Len(Blob) \in Nat /\ Len(Blob) \in Page
           /\ Pages(Blob) \subseteq Page
           /\ file \in Seq(Nat) /\ Len(file) \in Nat /\ Pages(file) \subseteq Page
           /\ Page \subseteq Nat /\ MaxPages \in Nat
<1>1. /\ hist \in Seq(Seq(Nat)) /\ Version \in 1..MaxVersions
      /\ \A v \in 1..Version : Len(hist[v]) \in Page
      /\ file \in Seq(Nat) /\ Len(file) \in 0..MaxPages
    BY DEF Typed, HistOK, FileOK
<1>2. Version \in Nat /\ Version \in 1..Version /\ MaxPages \in Nat
    BY <1>1, BoundsAssumption, SizeAssumption, SMT
<1>3. hist[Version] \in Seq(Nat)
    BY <1>1, <1>2, SMT DEF Version
<1>4. Len(Blob) \in Page
    BY <1>1, <1>2 DEF Blob
<1>5. /\ Len(Blob) \in Nat /\ 1..Len(Blob) \subseteq Page /\ Page \subseteq Nat
      /\ Len(file) \in Nat /\ 1..Len(file) \subseteq Page
    BY <1>1, <1>4, SizeAssumption, SMT DEF Page
<1> QED BY <1>1, <1>2, <1>3, <1>4, <1>5 DEF Blob, Pages

\* The values of pages.
LEMMA Stamps ==
    ASSUME Typed
    PROVE  /\ \A p \in Pages(Blob) : Blob[p] \in 0..Version
           /\ \A p \in Pages(file) : file[p] \in 0..Version \/ file[p] \in Odd
<1>1. Version \in 1..Version
    BY Basics
<1> QED BY <1>1 DEF Typed, HistOK, FileOK, Blob

\* The invariant implies the types.
LEMMA TypedOK ==
    ASSUME Typed, BufOK
    PROVE  TypeOK
<1>1. /\ Version \in Nat /\ Version <= MaxVersions /\ MaxVersions \in Nat /\ MaxPages \in Nat
    BY Basics, BoundsAssumption, SMT
<1>2. 0..Version \subseteq Etag /\ 1..Version \subseteq Etag /\ 0..Version \subseteq 0..Junk
    BY <1>1, SMT DEF Etag, Junk
<1>3. New \in 0..Junk /\ Junk \in 0..Junk
    BY <1>1, SMT DEF New, Junk
<1>4. tempBuf \in [Page -> 0..Junk]
    BY <1>2, <1>3 DEF BufOK, Odd
<1>5. \A p \in Pages(file) : file[p] \in 0..Junk
    BY <1>2, <1>3 DEF Typed, FileOK, Odd
<1> QED BY <1>2, <1>4, <1>5 DEF Typed, HistOK, FileOK, StateOK, BufOK, TypeOK

\* What is said of the blob stays while there is no new version.
LEMMA SameBlob ==
    ASSUME UNCHANGED hist
    PROVE  /\ Version' = Version /\ Blob' = Blob
           /\ \A r : Unchanged(r)' = Unchanged(r)
           /\ HistOK => HistOK'
BY DEF Version, Blob, Unchanged, HistOK

\* The same file, served from no more than before.
LEMMA SameFile ==
    ASSUME UNCHANGED <<hist, file>>, Strict' \subseteq Strict
    PROVE  \A p : Holds(p) => Holds(p)'
<1>1. Blob' = Blob
    BY SameBlob
<1> QED BY <1>1 DEF Holds

\* A file that has a page of the blob has it whoever serves it.
LEMMA RightHolds ==
    ASSUME NEW p \in Pages(file), file[p] = Blob[p]
    PROVE  Holds(p)
BY DEF Holds

\* The blob gets another version.
LEMMA NewVersion ==
    ASSUME Typed, NEW b \in Seq(Nat), Len(b) \in Page, Version < MaxVersions,
           \A p \in Pages(b) : b[p] \in 0..Version + 1,
           hist' = Append(hist, b)
    PROVE  /\ HistOK' /\ Version' = Version + 1 /\ Blob' = b
           /\ \A v \in 1..Version : hist'[v] = hist[v]
           /\ 0..Version \subseteq 0..Version' /\ 1..Version \subseteq 1..Version'
           /\ Version' \in 1..Version' /\ Version' \notin 0..Version
<1>1. hist \in Seq(Seq(Nat))
    BY DEF Typed, HistOK
<1>2. /\ hist' \in Seq(Seq(Nat)) /\ Len(hist') = Len(hist) + 1
      /\ \A v \in 1..Len(hist) : hist'[v] = hist[v]
      /\ hist'[Len(hist) + 1] = b
    BY <1>1, AppendProperties, SMT
<1>3. Version' = Version + 1 /\ Blob' = b /\ \A v \in 1..Version : hist'[v] = hist[v]
    BY <1>2 DEF Version, Blob
<1>4. Version \in Nat /\ MaxVersions \in Nat
    BY Basics, BoundsAssumption
<1>5. Version' \in 1..MaxVersions
    BY <1>3, <1>4, SMT
<1>6. \A v \in 1..Version' : v \in 1..Version \/ v = Version + 1
    BY <1>3, <1>4, SMT
<1>7. /\ 0..Version \subseteq 0..Version' /\ 1..Version \subseteq 1..Version'
      /\ Version' \in 1..Version' /\ Version' \notin 0..Version
    BY <1>3, <1>4, SMT
<1>8. \A v \in 1..Version' : Len(hist'[v]) \in Page
    <2> TAKE v \in 1..Version'
    <2>1. CASE v \in 1..Version
        BY <1>3, <2>1 DEF Typed, HistOK
    <2>2. CASE v = Version + 1
        BY <1>2, <2>2 DEF Version
    <2> QED BY <1>6, <2>1, <2>2
<1>9. ASSUME NEW v \in 1..Version', NEW p \in Pages(hist'[v])
      PROVE  hist'[v][p] \in 0..Version'
    <2>1. CASE v \in 1..Version
        BY <1>3, <1>7, <2>1 DEF Typed, HistOK
    <2>2. CASE v = Version + 1
        BY <1>2, <1>3, <2>2 DEF Version
    <2> QED BY <1>6, <2>1, <2>2
<1> QED BY <1>2, <1>3, <1>5, <1>7, <1>8, <1>9 DEF HistOK

\* The first state: no cache file.
LEMMA IInvInit ==
    ASSUME Init
    PROVE  IInv
<1> DEFINE b == [p \in 1..InitialSize |-> 1]
<1>1. InitialSize \in Nat /\ InitialSize \in Page /\ 0 \in 0..MaxPages /\ 0 \in 0..MaxFaults
    BY SizeAssumption, BoundsAssumption, SMT DEF Page
<1>2. b \in [1..InitialSize -> {1}]
    OBVIOUS
<1>3. b \in Seq({1}) /\ Len(b) = InitialSize
    BY <1>1, <1>2, Built
<1>4. hist = <<b>>
    BY DEF Init
<1> HIDE DEF b
<1>5. Len(hist) = 1 /\ hist[1] = b /\ hist \in Seq(Seq(Nat))
    BY <1>3, <1>4, SMT
<1>6. \A v \in 1..1 : v = 1
    BY SMT
<1>7. \A p \in Pages(b) : b[p] \in 0..1
    BY <1>3, SMT DEF Pages
<1>8. HistOK
    <2>1. Version = 1 /\ 1 \in 1..MaxVersions
        BY <1>5, BoundsAssumption, SMT DEF Version
    <2>2. \A v \in 1..Version : hist[v] = b
        BY <1>5, <1>6, <2>1
    <2> QED BY <1>1, <1>3, <1>5, <1>7, <2>1, <2>2 DEF HistOK
<1>9. Version = 1 /\ 0 \in 0..1
    BY <1>5, SMT DEF Version
<1>10. FileOK
    BY <1>1, EmptySeq, SMT DEF Init, FileOK, Pages
<1>11. StateOK
    BY <1>1, <1>9 DEF Init, StateOK, No, PC
<1>12. Phase /\ Within
    BY DEF Init, Phase, Within, Loading, No
<1>13. Clean
    BY DEF Init, Clean, OnDiskInv, PatchInv, WriteInv, SizeInv, Writing, Resting
<1>14. BufInv
    <2>1. Junk \in Nat
        BY BoundsAssumption, SMT DEF Junk
    <2> QED BY <2>1 DEF Init, BufInv, BufOK, GetInv, Getting, NoBuf, Odd
<1> QED BY <1>8, <1>10, <1>11, <1>12, <1>13, <1>14 DEF IInv, CacheInv, Typed

-----------------------------------------------------------------------------
(* Steps that leave the blob and the file alone. *)

Still == UNCHANGED <<hist, file>>

\* Their types stay.
LEMMA StillOK ==
    ASSUME Typed, Still
    PROVE  /\ HistOK' /\ FileOK' /\ Version' = Version /\ Blob' = Blob
           /\ \A r : Unchanged(r)' = Unchanged(r)
<1>1. UNCHANGED hist
    BY DEF Still
<1>2. HistOK' /\ Version' = Version /\ Blob' = Blob /\ \A r : Unchanged(r)' = Unchanged(r)
    BY <1>1, SameBlob DEF Typed
<1> QED BY <1>2 DEF Typed, FileOK, Still

\* Nothing that agreed with the file stops to.
LEMMA AgreeStill ==
    ASSUME Still, Strict' \subseteq Strict
    PROVE  \A r : Agrees(r) => Agrees(r)'
<1>1. \A r : Unchanged(r)' = Unchanged(r)
    BY SameBlob DEF Still
<1>2. \A p : Holds(p) => Holds(p)'
    BY SameFile DEF Still
<1> QED BY <1>1, <1>2 DEF Agrees

\* A file that has the blob agrees with every version.
LEMMA CurrentAgrees ==
    ASSUME \A p \in Pages(Blob) : Holds(p)
    PROVE  \A r : Agrees(r)
BY DEF Agrees, Unchanged

\* The HEAD of a lock, which takes the ETag before the content.
LEMMA StepStale ==
    ASSUME CacheInv, Stale
    PROVE  CacheInv'
<1> USE DEF blobVars, fileVars
<1>1. /\ pc = "open" /\ pc' = "refresh" /\ etag' = Version /\ target' = Len(Blob) /\ Still
      /\ todo' = Pages(Blob)
      /\ UNCHANGED <<present, fEtag, fSnap, fSize, fValid, mode, snap, valid, dirty, acks,
                     faults, fresh, taint>>
    BY DEF Stale, Still
<1>2. Typed
    BY DEF CacheInv
<1>3. HistOK' /\ FileOK' /\ Version' = Version /\ Blob' = Blob /\ \A r : Unchanged(r)' = Unchanged(r)
    BY <1>1, <1>2, StillOK
<1>4. Version \in 0..Version /\ Version # 0 /\ Len(Blob) \in 0..MaxPages
    <2>1. Version \in 1..Version /\ Len(Blob) \in Page /\ Version \in Nat /\ MaxPages \in Nat
        BY <1>2, Basics
    <2> QED BY <2>1, SMT DEF Page
<1>5. StateOK'
    BY <1>1, <1>2, <1>3, <1>4, Basics DEF Typed, StateOK, PC, Still
<1>6. Phase'
    BY <1>1, <1>2, <1>3, <1>4 DEF Typed, Phase, No
<1>7. Within'
    <2>1. \A r : \A p \in Unchanged(r) : p <= Len(Blob)
        BY <1>2, Basics, SMT DEF Unchanged, Pages
    <2> QED BY <1>1, <1>3, <2>1 DEF Within
<1>8. ASSUME taint' = {} PROVE Clean'
    <2>1. Clean
        BY <1>1, <1>8 DEF CacheInv
    <2>2. Strict' = Strict
        BY <1>1 DEF Strict, Unsaved
    <2>3. \A r : Agrees(r) => Agrees(r)'
        BY <1>1, <2>2, AgreeStill
    <2>4. present /\ \A r \in Kept : Agrees(r)
        BY <1>1, <1>2, <2>1 DEF Clean, OnDiskInv, Refs, Resting, Typed, Phase
    <2>5. OnDiskInv'
        BY <1>1, <2>3, <2>4 DEF OnDiskInv, Refs, Kept, Resting
    <2> QED BY <1>1, <2>5 DEF Clean, PatchInv, WriteInv, SizeInv, Writing, Resting
<1> QED BY <1>3, <1>5, <1>6, <1>7, <1>8 DEF CacheInv, Typed

\* RESERVED, over current content.
LEMMA StepReserve ==
    ASSUME CacheInv, Reserve
    PROVE  CacheInv'
<1> USE DEF blobVars, fileVars, memVars
<1>1. /\ pc = "open" /\ pc' = "write" /\ etag = Version /\ Still
      /\ UNCHANGED <<present, fEtag, fSnap, fSize, fValid, mode, etag, snap, valid, dirty, target,
                     todo, acks, faults, fresh, taint>>
    BY DEF Reserve, Still
<1>2. Typed
    BY DEF CacheInv
<1>3. HistOK' /\ FileOK' /\ Version' = Version /\ Blob' = Blob
    BY <1>1, <1>2, StillOK
<1>4. StateOK'
    BY <1>1, <1>2, <1>3 DEF Typed, StateOK, PC, Still
<1>5. Phase' /\ Within'
    BY <1>1, <1>2, <1>3 DEF Typed, Phase, Within, Loading
<1>6. ASSUME taint' = {} PROVE Clean'
    <2>1. Clean
        BY <1>1, <1>6 DEF CacheInv
    <2>2. Strict' = Strict
        BY <1>1 DEF Strict, Unsaved
    <2>3. \A p : Holds(p) => Holds(p)'
        BY <1>1, <2>2, SameFile DEF Still
    <2>4. Agrees(etag) /\ Len(file) = Len(Blob)
        BY <1>1, <1>2, <2>1 DEF Clean, OnDiskInv, SizeInv, Refs, Resting, Typed, Phase
    <2>5. \A p \in Pages(Blob) : Holds(p)
        BY <1>1, <2>4 DEF Agrees, Unchanged, Blob
    <2>6. WriteInv'
        BY <1>1, <1>3, <2>3, <2>4, <2>5 DEF WriteInv, Still, Pages
    <2> QED BY <1>1, <2>6 DEF Clean, OnDiskInv, PatchInv, SizeInv, Resting
<1> QED BY <1>3, <1>4, <1>5, <1>6 DEF CacheInv, Typed

\* xSync starts: what is dirty is to be sent.
LEMMA StepSync ==
    ASSUME CacheInv, Sync
    PROVE  CacheInv'
<1> USE DEF blobVars, fileVars
<1>1. /\ pc = "write" /\ pc' = "flush" /\ todo' = dirty /\ acks' = {} /\ Still
      /\ UNCHANGED <<present, fEtag, fSnap, fSize, fValid, mode, etag, snap, valid, dirty, target,
                     faults, fresh, taint>>
    BY DEF Sync, Still
<1>2. Typed
    BY DEF CacheInv
<1>3. HistOK' /\ FileOK' /\ Version' = Version /\ Blob' = Blob
    BY <1>1, <1>2, StillOK
<1>4. StateOK'
    <2>1. dirty \subseteq Page
        BY <1>2, Basics DEF Typed, StateOK
    <2> QED BY <1>1, <1>2, <1>3, <2>1 DEF Typed, StateOK, PC, Still
<1>5. Phase' /\ Within'
    BY <1>1, <1>2, <1>3 DEF Typed, Phase, Within, Loading
<1>6. ASSUME taint' = {} PROVE Clean'
    <2>1. Clean
        BY <1>1, <1>6 DEF CacheInv
    <2>2. Strict' = Strict
        BY <1>1 DEF Strict, Unsaved
    <2>3. \A p : Holds(p) => Holds(p)'
        BY <1>1, <2>2, SameFile DEF Still
    <2>4. Excused' = Excused /\ pc \in Writing
        BY <1>1 DEF Excused, Writing
    <2>5. WriteInv'
        BY <1>1, <1>3, <2>1, <2>3, <2>4 DEF Clean, WriteInv, Still
    <2> QED BY <1>1, <2>5 DEF Clean, OnDiskInv, PatchInv, SizeInv, Resting
<1> QED BY <1>3, <1>4, <1>5, <1>6 DEF CacheInv, Typed

\* All pages are in the blob; .etag is written.
LEMMA StepSyncDone ==
    ASSUME CacheInv, SyncDone
    PROVE  CacheInv'
<1> USE DEF blobVars
<1>1. /\ pc = "flush" /\ pc' = "snapshot" /\ todo = {} /\ dirty' = {} /\ Still
      /\ \E e \in acks : etag' = e /\ fEtag' = e
      /\ UNCHANGED <<present, fSnap, fSize, fValid, mode, snap, valid, target, todo, acks,
                     faults, fresh, taint>>
    BY DEF SyncDone, Still
<1>2. Typed
    BY DEF CacheInv
<1>3. HistOK' /\ FileOK' /\ Version' = Version /\ Blob' = Blob
    BY <1>1, <1>2, StillOK
<1>4. etag' \in 0..Version /\ fEtag' \in 0..Version /\ etag' # No
    <2>1. etag' \in 1..Version /\ fEtag' = etag'
        BY <1>1, <1>2 DEF Typed, StateOK
    <2>2. Version \in Nat
        BY <1>2, Basics
    <2> QED BY <2>1, <2>2, SMT DEF No
<1>5. StateOK'
    BY <1>1, <1>2, <1>3, <1>4 DEF Typed, StateOK, PC, Still
<1>6. Phase' /\ Within'
    BY <1>1, <1>2, <1>3, <1>4 DEF Typed, Phase, Within, Loading
<1>7. ASSUME taint' = {} PROVE Clean'
    <2>1. Clean
        BY <1>1, <1>7 DEF CacheInv
    <2>2. Strict' = Strict
        BY <1>1 DEF Strict, Unsaved
    <2>3. \A p : Holds(p) => Holds(p)'
        BY <1>1, <2>2, SameFile DEF Still
    <2>4. Excused' = {} /\ Excused = {} /\ pc \in Writing
        BY <1>1 DEF Excused, Writing
    <2>5. WriteInv'
        BY <1>1, <1>3, <2>1, <2>3, <2>4 DEF Clean, WriteInv, Still
    <2> QED BY <1>1, <2>5 DEF Clean, OnDiskInv, PatchInv, SizeInv, Resting
<1> QED BY <1>3, <1>5, <1>6, <1>7 DEF CacheInv, Typed

\* A write transaction is over, and all of it is in the blob.
LEMMA Settled ==
    ASSUME Typed, Clean, Still, pc \in Writing, Excused = {}, Strict' \subseteq Strict
    PROVE  /\ \A r : Agrees(r)'
           /\ Len(file)' = Len(Blob)'
<1>1. Blob' = Blob
    BY StillOK
<1>2. \A p \in Pages(Blob) : Holds(p)
    BY DEF Clean, WriteInv
<1>3. \A r : Agrees(r)'
    <2>1. \A r : Agrees(r)
        BY <1>2, CurrentAgrees
    <2> QED BY <2>1, AgreeStill
<1>4. Pages(file) = Pages(Blob)
    BY <1>2 DEF Clean, WriteInv, Holds
<1>5. Len(file) = Len(Blob)
    <2> DEFINE m == Len(file)
               n == Len(Blob)
    <2>1. m \in Nat /\ n \in Nat /\ 1..m = 1..n
        BY <1>4, Basics DEF Pages
    <2> HIDE DEF m, n
    <2>2. m = n
        <3>1. m \in 1..m \/ m = 0
            BY <2>1, SMT
        <3>2. n \in 1..n \/ n = 0
            BY <2>1, SMT
        <3> QED BY <2>1, <3>1, <3>2, SMT
    <2> QED BY <2>2 DEF m, n
<1> QED BY <1>1, <1>3, <1>5 DEF Still

\* The lock goes with nothing written.
LEMMA StepRelease ==
    ASSUME CacheInv, Release
    PROVE  CacheInv'
<1> USE DEF blobVars, fileVars, memVars
<1>1. /\ pc = "write" /\ pc' = "open" /\ dirty = {} /\ Still
      /\ UNCHANGED <<present, fEtag, fSnap, fSize, fValid, mode, etag, snap, valid, dirty, target,
                     todo, acks, faults, fresh, taint>>
    BY DEF Release, Still
<1>2. Typed
    BY DEF CacheInv
<1>3. HistOK' /\ FileOK' /\ Version' = Version /\ Blob' = Blob
    BY <1>1, <1>2, StillOK
<1>4. StateOK'
    BY <1>1, <1>2, <1>3 DEF Typed, StateOK, PC, Still
<1>5. Phase' /\ Within'
    BY <1>1, <1>2, <1>3 DEF Typed, Phase, Within, Loading
<1>6. ASSUME taint' = {} PROVE Clean'
    <2>1. Clean
        BY <1>1, <1>6 DEF CacheInv
    <2>2. Strict' = Strict
        BY <1>1 DEF Strict, Unsaved
    <2>3. Excused = {} /\ pc \in Writing
        BY <1>1 DEF Excused, Writing
    <2>4. (\A r : Agrees(r)') /\ Len(file)' = Len(Blob)'
        BY <1>1, <1>2, <2>1, <2>2, <2>3, Settled
    <2> QED BY <1>1, <2>4 DEF Clean, OnDiskInv, PatchInv, SizeInv, WriteInv, Writing
<1> QED BY <1>3, <1>4, <1>5, <1>6 DEF CacheInv, Typed

\* writeStateFile.
LEMMA StateWritten ==
    ASSUME Typed, WriteStateFile, UNCHANGED <<file, mode, valid>>,
           pc \notin {"closed", "patch"}, pc' \notin {"closed", "patch"}
    PROVE  /\ fSize' \in 0..MaxPages /\ fValid' \subseteq Page /\ fresh' \in BOOLEAN
           /\ Strict' \subseteq Strict
<1>1. CASE mode = "none"
    <2>1. fSize' = Len(file) /\ fValid' = valid /\ fresh' = FALSE
        BY <1>1 DEF WriteStateFile
    <2>2. Strict' = valid /\ valid \subseteq Strict
        BY <1>1, <2>1 DEF Strict
    <2> QED BY <2>1, <2>2 DEF Typed, StateOK, FileOK
<1>2. CASE mode # "none"
    <2>1. UNCHANGED <<fSize, fValid, fresh>> /\ mode = "all"
        BY <1>2 DEF WriteStateFile, Typed, StateOK
    <2>2. Strict' = Strict
        BY <1>2, <2>1 DEF Strict, Unsaved
    <2> QED BY <2>1, <2>2 DEF Typed, StateOK
<1> QED BY <1>1, <1>2

\* The snapshot after a flush, and .state.
LEMMA StepSnapshotCreate ==
    ASSUME CacheInv, SnapshotCreate
    PROVE  CacheInv'
<1> USE DEF blobVars
<1>1. /\ pc = "snapshot" /\ pc' = "open" /\ WriteStateFile /\ Still
      /\ snap' \in {snap, Version}
      /\ UNCHANGED <<present, fEtag, fSnap, mode, etag, valid, dirty, target, todo, acks, taint>>
    BY DEF SnapshotCreate, Still
<1>2. Typed
    BY DEF CacheInv
<1>3. HistOK' /\ FileOK' /\ Version' = Version /\ Blob' = Blob
    BY <1>1, <1>2, StillOK
<1>4. faults' \in 0..MaxFaults
    <2>1. faults \in 0..MaxFaults
        BY <1>2 DEF Typed, StateOK
    <2> QED BY <2>1, BoundsAssumption, SMT DEF SnapshotCreate, Fault
<1>5. snap' \in 0..Version
    <2>1. Version \in 0..Version
        BY <1>2, Basics, SMT
    <2> QED BY <1>1, <1>2, <2>1 DEF Typed, StateOK
<1>6. /\ fSize' \in 0..MaxPages /\ fValid' \subseteq Page /\ fresh' \in BOOLEAN
      /\ Strict' \subseteq Strict
    BY <1>1, <1>2, StateWritten DEF Still
<1>7. StateOK'
    BY <1>1, <1>2, <1>3, <1>4, <1>5, <1>6 DEF Typed, StateOK, PC, Still
<1>8. Phase' /\ Within'
    BY <1>1, <1>2, <1>3 DEF Typed, Phase, Within, Loading
<1>9. ASSUME taint' = {} PROVE Clean'
    <2>1. Clean
        BY <1>1, <1>9 DEF CacheInv
    <2>2. Excused = {} /\ pc \in Writing
        BY <1>1 DEF Excused, Writing
    <2>3. (\A r : Agrees(r)') /\ Len(file)' = Len(Blob)'
        BY <1>1, <1>2, <1>6, <2>1, <2>2, Settled
    <2> QED BY <1>1, <2>3 DEF Clean, OnDiskInv, PatchInv, SizeInv, WriteInv, Writing
<1> QED BY <1>3, <1>7, <1>8, <1>9 DEF CacheInv, Typed

\* The session goes on to the next file of xClose.
LEMMA Closing ==
    ASSUME Typed, Clean, Still, pc \in Resting, pc' \in Resting \cup {"closed"},
           Strict' \subseteq Strict, Refs' \subseteq Refs, pc' \in Resting => etag' = etag
    PROVE  Clean'
<1>1. Version' = Version /\ Blob' = Blob
    BY StillOK
<1>2. \A r : Agrees(r) => Agrees(r)'
    BY AgreeStill
<1>3. present
    BY DEF Typed, Phase, Resting
<1>4. OnDiskInv'
    BY <1>2, <1>3 DEF Clean, OnDiskInv
<1>5. pc' # "patch" /\ pc' \notin Writing
    BY DEF Resting, Writing
<1>6. SizeInv'
    BY <1>1 DEF Clean, SizeInv, Still, Resting
<1> QED BY <1>4, <1>5, <1>6 DEF Clean, PatchInv, WriteInv, Writing

\* The HEAD of xClose.
LEMMA StepCloseHead ==
    ASSUME CacheInv, CloseHead
    PROVE  CacheInv'
<1> USE DEF blobVars, fileVars
<1>1. /\ pc = "open" /\ pc' = "closeState" /\ Still
      /\ etag' \in {etag, Version}
      /\ taint' = IF etag' # etag THEN taint \cup {"head"} ELSE taint
      /\ UNCHANGED <<present, fEtag, fSnap, fSize, fValid, mode, snap, valid, dirty, target, todo,
                     acks, fresh>>
    BY DEF CloseHead, Still
<1>2. Typed
    BY DEF CacheInv
<1>3. HistOK' /\ FileOK' /\ Version' = Version /\ Blob' = Blob
    BY <1>1, <1>2, StillOK
<1>4. faults' \in 0..MaxFaults
    <2>1. faults \in 0..MaxFaults
        BY <1>2 DEF Typed, StateOK
    <2> QED BY <2>1, BoundsAssumption, SMT DEF CloseHead, Fault
<1>5. etag' \in 0..Version /\ etag' # No
    <2>1. Version \in 0..Version /\ Version # 0
        BY <1>2, Basics, SMT
    <2> QED BY <1>1, <1>2, <2>1 DEF Typed, StateOK, Phase, No
<1>6. taint' \subseteq Reason
    BY <1>1, <1>2 DEF Typed, StateOK, Reason
<1>7. StateOK'
    BY <1>1, <1>2, <1>3, <1>4, <1>5, <1>6 DEF Typed, StateOK, PC, Still
<1>8. Phase' /\ Within'
    BY <1>1, <1>2, <1>3, <1>5 DEF Typed, Phase, Within, Loading
<1>9. ASSUME taint' = {} PROVE Clean'
    <2>1. etag' = etag /\ taint = {} /\ Clean
        BY <1>1, <1>9 DEF CacheInv
    <2>2. Strict' = Strict /\ Refs' = Refs
        BY <1>1, <2>1 DEF Strict, Unsaved, Refs, Kept, Resting
    <2> QED BY <1>1, <1>2, <2>1, <2>2, Closing DEF Resting
<1> QED BY <1>3, <1>7, <1>8, <1>9 DEF CacheInv, Typed

\* xClose writes .state.
LEMMA StepCloseState ==
    ASSUME CacheInv, CloseState
    PROVE  CacheInv'
<1> USE DEF blobVars, memVars
<1>1. /\ pc = "closeState" /\ pc' = "closeEtag" /\ WriteStateFile /\ Still
      /\ UNCHANGED <<present, fEtag, fSnap, mode, etag, snap, valid, dirty, target, todo, acks,
                     faults, taint>>
    BY DEF CloseState, Still
<1>2. Typed
    BY DEF CacheInv
<1>3. HistOK' /\ FileOK' /\ Version' = Version /\ Blob' = Blob
    BY <1>1, <1>2, StillOK
<1>4. /\ fSize' \in 0..MaxPages /\ fValid' \subseteq Page /\ fresh' \in BOOLEAN
      /\ Strict' \subseteq Strict
    BY <1>1, <1>2, StateWritten DEF Still
<1>5. StateOK'
    BY <1>1, <1>2, <1>3, <1>4 DEF Typed, StateOK, PC, Still
<1>6. Phase' /\ Within'
    BY <1>1, <1>2, <1>3 DEF Typed, Phase, Within, Loading
<1>7. ASSUME taint' = {} PROVE Clean'
    <2>1. Clean /\ Refs' = Refs
        BY <1>1, <1>7 DEF CacheInv, Refs, Kept, Resting
    <2> QED BY <1>1, <1>2, <1>4, <2>1, Closing DEF Resting
<1> QED BY <1>3, <1>5, <1>6, <1>7 DEF CacheInv, Typed

\* xClose writes .etag.
LEMMA StepCloseEtag ==
    ASSUME CacheInv, CloseEtag
    PROVE  CacheInv'
<1> USE DEF blobVars, memVars
<1>1. /\ pc = "closeEtag" /\ pc' = "closeSnap" /\ fEtag' = etag /\ Still
      /\ UNCHANGED <<present, fSnap, fSize, fValid, mode, etag, snap, valid, dirty, target, todo,
                     acks, faults, fresh, taint>>
    BY DEF CloseEtag, Still
<1>2. Typed
    BY DEF CacheInv
<1>3. HistOK' /\ FileOK' /\ Version' = Version /\ Blob' = Blob
    BY <1>1, <1>2, StillOK
<1>4. StateOK'
    BY <1>1, <1>2, <1>3 DEF Typed, StateOK, PC, Still
<1>5. Phase' /\ Within'
    BY <1>1, <1>2, <1>3 DEF Typed, Phase, Within, Loading
<1>6. ASSUME taint' = {} PROVE Clean'
    <2>1. Clean /\ Refs' \subseteq Refs
        BY <1>1, <1>6 DEF CacheInv, Refs, Kept, Resting
    <2>2. Strict' = Strict
        BY <1>1 DEF Strict, Unsaved
    <2> QED BY <1>1, <1>2, <2>1, <2>2, Closing DEF Resting
<1> QED BY <1>3, <1>4, <1>5, <1>6 DEF CacheInv, Typed

\* xClose writes .snapshot.
LEMMA StepCloseSnap ==
    ASSUME CacheInv, CloseSnap
    PROVE  CacheInv'
<1> USE DEF blobVars
<1>1. /\ pc = "closeSnap" /\ pc' = "closed" /\ Still
      /\ fSnap' = IF snap # No THEN snap ELSE fSnap
      /\ etag' = No /\ snap' = No /\ valid' = {} /\ target' = 0 /\ acks' = {}
      /\ UNCHANGED <<present, fEtag, fSize, fValid, mode, dirty, todo, faults, fresh, taint>>
    BY DEF CloseSnap, Still
<1>2. Typed
    BY DEF CacheInv
<1>3. HistOK' /\ FileOK' /\ Version' = Version /\ Blob' = Blob
    BY <1>1, <1>2, StillOK
<1>4. No \in 0..Version /\ 0 \in 0..MaxPages
    BY <1>2, Basics, SMT DEF No
<1>5. StateOK'
    BY <1>1, <1>2, <1>3, <1>4 DEF Typed, StateOK, PC, Still
<1>6. Phase' /\ Within'
    BY <1>1, <1>2, <1>3 DEF Typed, Phase, Within, Loading
<1>7. ASSUME taint' = {} PROVE Clean'
    <2>1. Clean /\ Refs' \subseteq Refs
        BY <1>1, <1>7 DEF CacheInv, Refs, Kept, Resting
    <2>2. Strict' \subseteq Strict
        BY <1>1 DEF Strict, Unsaved
    <2> QED BY <1>1, <1>2, <2>1, <2>2, Closing DEF Resting
<1> QED BY <1>3, <1>5, <1>6, <1>7 DEF CacheInv, Typed

\* A refresh that fails leaves its mark.
LEMMA StepRefreshFail ==
    ASSUME CacheInv, RefreshFail
    PROVE  CacheInv'
<1> USE DEF blobVars, fileVars
<1>1. /\ pc = "refresh" /\ pc' = "open" /\ taint' = taint \cup {"refresh"} /\ Still
      /\ todo' = {}
      /\ UNCHANGED <<present, fEtag, fSnap, fSize, fValid, mode, etag, snap, valid, dirty, target,
                     acks, fresh>>
    BY DEF RefreshFail, Still
<1>2. Typed
    BY DEF CacheInv
<1>3. HistOK' /\ FileOK' /\ Version' = Version /\ Blob' = Blob
    BY <1>1, <1>2, StillOK
<1>4. faults' \in 0..MaxFaults
    <2>1. faults \in 0..MaxFaults
        BY <1>2 DEF Typed, StateOK
    <2> QED BY <2>1, BoundsAssumption, SMT DEF RefreshFail, Fault
<1>5. StateOK'
    BY <1>1, <1>2, <1>3, <1>4 DEF Typed, StateOK, PC, Still, Reason
<1>6. Phase' /\ Within'
    BY <1>1, <1>2, <1>3 DEF Typed, Phase, Within, Loading
<1> QED BY <1>1, <1>3, <1>5, <1>6 DEF CacheInv, Typed

-----------------------------------------------------------------------------
(* xOpen and downloads that fail. *)

\* No page that is unchanged is beyond the blob.
LEMMA InBlob ==
    ASSUME Typed
    PROVE  \A r : \A p \in Unchanged(r) : p <= Len(Blob)
BY Basics, SMT DEF Unchanged, Pages

\* A whole download asks for pages.
LEMMA UpToTarget ==
    ASSUME Typed
    PROVE  1..target \subseteq Page
<1>1. target \in 0..MaxPages /\ MaxPages \in Nat
    BY Basics DEF Typed, StateOK
<1> QED BY <1>1, SMT DEF Page

\* O_TRUNC leaves a file that has its type.
LEMMA Emptied ==
    ASSUME Typed, UNCHANGED hist, file' = <<>>
    PROVE  /\ HistOK' /\ FileOK' /\ Version' = Version /\ Blob' = Blob
           /\ \A r : Unchanged(r)' = Unchanged(r)
<1>1. HistOK' /\ Version' = Version /\ Blob' = Blob /\ \A r : Unchanged(r)' = Unchanged(r)
    BY SameBlob DEF Typed
<1>2. 0 \in 0..MaxPages
    BY SizeAssumption, SMT
<1>3. FileOK'
    <2>1. file' \in Seq(Nat) /\ Len(file') = 0 /\ 1..0 = {}
        BY EmptySeq, SMT
    <2> QED BY <1>2, <2>1 DEF FileOK, Pages
<1> QED BY <1>1, <1>3

\* A diff that fails turns into a download.
LEMMA StepDiffFail ==
    ASSUME CacheInv, DiffFail
    PROVE  CacheInv'
<1> USE DEF blobVars
<1>1. /\ pc \in {"diff", "patch"} /\ pc' = "download" /\ file' = <<>>
      /\ valid' = {} /\ todo' \in {1..target, {}} /\ snap' = No
      /\ UNCHANGED <<hist, present, fEtag, fSnap, fSize, fValid, mode, etag, dirty, target, acks,
                     fresh, taint>>
    BY DEF DiffFail
<1>2. Typed
    BY DEF CacheInv
<1>3. HistOK' /\ FileOK' /\ Version' = Version /\ Blob' = Blob /\ \A r : Unchanged(r)' = Unchanged(r)
    BY <1>1, <1>2, Emptied
<1>4. faults' \in 0..MaxFaults
    <2>1. faults \in 0..MaxFaults
        BY <1>2 DEF Typed, StateOK
    <2> QED BY <2>1, BoundsAssumption, SMT DEF DiffFail, Fault
<1>5. dirty = {} /\ No \in 0..Version /\ todo' \subseteq Page
    <2>1. 1..target \subseteq Page
        BY <1>2, UpToTarget
    <2>2. No \in 0..Version
        BY <1>2, Basics, SMT DEF No
    <2> QED BY <1>1, <1>2, <2>1, <2>2 DEF Typed, Phase
<1>6. StateOK'
    BY <1>1, <1>2, <1>3, <1>4, <1>5 DEF Typed, StateOK, PC
<1>7. Phase'
    BY <1>1, <1>2, <1>3, <1>5 DEF Typed, Phase, Loading
<1>8. Within'
    <2>1. Kept' \subseteq Kept
        BY <1>1 DEF Kept
    <2> QED BY <1>1, <1>2, <1>3, <2>1 DEF Typed, Within, Loading
<1>9. Clean'
    BY <1>1 DEF Clean, OnDiskInv, PatchInv, WriteInv, SizeInv, Resting, Writing
<1> QED BY <1>3, <1>6, <1>7, <1>8, <1>9 DEF CacheInv, Typed

\* A download that fails removes the file.
LEMMA StepDownloadFail ==
    ASSUME CacheInv, DownloadFail
    PROVE  CacheInv'
<1> USE DEF blobVars
<1>1. /\ pc = "download" /\ pc' = "closed" /\ file' = <<>> /\ present' = FALSE /\ todo' = {}
      /\ UNCHANGED <<hist, fEtag, fSnap, fSize, fValid, mode, etag, snap, valid, dirty, target,
                     acks, fresh, taint>>
    BY DEF DownloadFail
<1>2. Typed
    BY DEF CacheInv
<1>3. HistOK' /\ FileOK' /\ Version' = Version
    BY <1>1, <1>2, Emptied
<1>4. faults' \in 0..MaxFaults
    <2>1. faults \in 0..MaxFaults
        BY <1>2 DEF Typed, StateOK
    <2> QED BY <2>1, BoundsAssumption, SMT DEF DownloadFail, Fault
<1>5. dirty = {}
    BY <1>1, <1>2 DEF Typed, Phase
<1>6. StateOK'
    BY <1>1, <1>2, <1>3, <1>4, <1>5 DEF Typed, StateOK, PC
<1>7. Phase' /\ Within'
    BY <1>1, <1>2, <1>5 DEF Typed, Phase, Within, Loading
<1>8. Clean'
    BY <1>1 DEF Clean, OnDiskInv, PatchInv, WriteInv, SizeInv, Resting, Writing
<1> QED BY <1>3, <1>6, <1>7, <1>8 DEF CacheInv, Typed

\* O_TRUNC.
LEMMA OpenDownload ==
    ASSUME CacheInv, NEW m \in Modes, Open(m), StartDownload(m)
    PROVE  CacheInv'
<1> USE DEF blobVars
<1>1. /\ pc = "closed" /\ pc' = "download" /\ file' = <<>> /\ present' = TRUE
      /\ mode' = m /\ etag' = Version /\ target' = Len(Blob) /\ valid' = {}
      /\ todo' \in {Pages(Blob), {}}
      /\ UNCHANGED <<hist, fEtag, fSnap, fSize, fValid, snap, dirty, acks, faults, fresh, taint>>
    BY DEF Open, StartDownload
<1>2. Typed
    BY DEF CacheInv
<1>3. HistOK' /\ FileOK' /\ Version' = Version /\ Blob' = Blob /\ \A r : Unchanged(r)' = Unchanged(r)
    BY <1>1, <1>2, Emptied
<1>4. dirty = {} /\ m \in {"all", "none"}
    BY <1>1, <1>2, ModesAssumption DEF Typed, Phase
<1>5. Version \in 0..Version /\ Version # No /\ Len(Blob) \in 0..MaxPages
    BY <1>2, Basics, SMT DEF No, Page
<1>6. StateOK'
    <2>1. todo' \subseteq Page
        BY <1>1, <1>2, Basics
    <2> QED BY <1>1, <1>2, <1>3, <1>4, <1>5, <2>1 DEF Typed, StateOK, PC
<1>7. Phase' /\ Within'
    BY <1>1, <1>2, <1>3, <1>4, <1>5, InBlob DEF Typed, Phase, Within
<1>8. Clean'
    BY <1>1 DEF Clean, OnDiskInv, PatchInv, WriteInv, SizeInv, Resting, Writing
<1> QED BY <1>3, <1>6, <1>7, <1>8 DEF CacheInv, Typed

\* The file that an earlier session left.
LEMMA OpenKept ==
    ASSUME CacheInv, NEW m \in Modes, Open(m), Reuse(m) \/ TryDiff(m)
    PROVE  CacheInv'
<1> USE DEF blobVars, fileVars
<1>1. /\ pc = "closed" /\ present /\ snap' = fSnap /\ Still
      /\ \/ pc' = "open" /\ fEtag = Version /\ Len(file) = Len(Blob)
         \/ pc' = "diff" /\ fSnap # No
      /\ mode' = m /\ etag' = Version /\ target' = Len(Blob)
      /\ valid' = {} \/ (m = "none" /\ valid' = SavedValid(Len(Blob)))
      /\ taint' = IF m = "all" /\ Holes # {} THEN taint \cup {"holes"} ELSE taint
      /\ UNCHANGED <<present, fEtag, fSnap, fSize, fValid, dirty, todo, acks, faults, fresh>>
    <2>1. CASE Reuse(m)
        BY <2>1 DEF Open, Reuse, Still
    <2>2. CASE TryDiff(m)
        BY <2>2 DEF Open, TryDiff, Still
    <2> QED BY <2>1, <2>2
<1>2. Typed
    BY DEF CacheInv
<1>3. HistOK' /\ FileOK' /\ Version' = Version /\ Blob' = Blob /\ \A r : Unchanged(r)' = Unchanged(r)
    BY <1>1, <1>2, StillOK
<1>4. dirty = {} /\ m \in {"all", "none"}
    BY <1>1, <1>2, ModesAssumption DEF Typed, Phase
<1>5. Version \in 0..Version /\ Version # No /\ Len(Blob) \in 0..MaxPages
    BY <1>2, Basics, SMT DEF No, Page
<1>6. valid' \subseteq fValid
    BY <1>1 DEF SavedValid
<1>7. StateOK'
    BY <1>1, <1>2, <1>3, <1>4, <1>5, <1>6 DEF Typed, StateOK, PC, Still, Reason
<1>8. Phase' /\ Within'
    BY <1>1, <1>2, <1>3, <1>4, <1>5, InBlob DEF Typed, Phase, Within
<1>9. ASSUME taint' = {} PROVE Clean'
    <2>1. taint = {} /\ (m = "all" => Holes = {})
        BY <1>1, <1>9
    <2>2. Clean
        BY <2>1 DEF CacheInv
    <2>3. Strict = fValid /\ (m = "none" => Strict' \subseteq fValid)
        BY <1>1, <1>6 DEF Strict, Unsaved
    <2>4. \A p : Holds(p) => Holds(p)'
        <3>1. CASE m = "none"
            BY <1>1, <2>3, <3>1, SameFile DEF Still
        <3>2. CASE m = "all"
            <4>1. \A p : Holds(p) => p \in Pages(file) /\ file[p] = Blob[p]
                BY <2>1, <3>2 DEF Holds, Holes
            <4> QED BY <1>1, <1>3, <4>1 DEF Holds, Still
        <3> QED BY <1>4, <3>1, <3>2
    <2>5. \A r : Agrees(r) => Agrees(r)'
        BY <1>3, <2>4 DEF Agrees
    <2>6. \A r \in Kept : Agrees(r)
        BY <1>1, <2>2 DEF Clean, OnDiskInv, Refs
    <2>7. Refs' \subseteq Kept
        BY <1>1, <1>5 DEF Refs, Kept, Resting
    <2>8. OnDiskInv'
        BY <2>5, <2>6, <2>7 DEF OnDiskInv
    <2> QED BY <1>1, <1>3, <2>8 DEF Clean, PatchInv, WriteInv, SizeInv, Resting, Writing, Still
<1> QED BY <1>3, <1>7, <1>8, <1>9 DEF CacheInv, Typed

\* xOpen, in each of its three ways.
LEMMA StepOpen ==
    ASSUME CacheInv, NEW m \in Modes, Open(m)
    PROVE  CacheInv'
<1>1. Reuse(m) \/ TryDiff(m) \/ StartDownload(m)
    BY DEF Open
<1> QED BY <1>1, OpenKept, OpenDownload

-----------------------------------------------------------------------------
(* Steps that write the cache file. *)

\* t is s and, after it, holes.
Extends(s, t) ==
    /\ \A p \in Pages(s) : p \in Pages(t) /\ t[p] = s[p]
    /\ \A p \in Pages(t) \ Pages(s) : t[p] = Hole

\* A file that grows.
LEMMA SizedGrows ==
    ASSUME NEW s \in Seq(Nat), NEW n \in Nat, Len(s) <= n
    PROVE  Sized(s, n) \in Seq(Nat) /\ Len(Sized(s, n)) = n /\ Extends(s, Sized(s, n))
<1> DEFINE t == Sized(s, n)
<1>1. /\ t \in Seq(Nat) /\ Len(t) = n
      /\ \A p \in 1..n : p <= Len(s) => t[p] = s[p]
      /\ \A p \in 1..n : ~(p <= Len(s)) => t[p] = 0
    BY SizedIs
<1> HIDE DEF t
<1>2. Len(s) \in Nat
    BY LenProperties
<1>3. \A p \in 1..Len(s) : p \in 1..n /\ p <= Len(s)
    BY <1>2, SMT
<1>4. \A p \in (1..n) \ (1..Len(s)) : ~(p <= Len(s))
    BY <1>2, SMT
<1>5. Extends(s, t)
    BY <1>1, <1>3, <1>4 DEF Extends, Pages, Hole
<1> QED BY <1>1, <1>5 DEF t

\* The first n pages of s.
LEMMA SizedCuts ==
    ASSUME NEW s \in Seq(Nat), NEW n \in Nat, n <= Len(s)
    PROVE  /\ Sized(s, n) \in Seq(Nat) /\ Len(Sized(s, n)) = n
           /\ \A p \in 1..n : p \in Pages(s) /\ Sized(s, n)[p] = s[p]
<1>1. Len(s) \in Nat
    BY LenProperties
<1>2. \A p \in 1..n : p <= Len(s) /\ p \in 1..Len(s)
    BY <1>1, SMT
<1> QED BY <1>2, SizedIs DEF Pages

Replaced(s, p, v) == [s EXCEPT ![p] = v]

\* One page is written.
LEMMA ReplacedIs ==
    ASSUME NEW s \in Seq(Nat), NEW p \in Pages(s), NEW v \in Nat
    PROVE  /\ Replaced(s, p, v) \in Seq(Nat)
           /\ Len(Replaced(s, p, v)) = Len(s)
           /\ Replaced(s, p, v)[p] = v
           /\ \A q \in Pages(s) : q # p => Replaced(s, p, v)[q] = s[q]
<1> DEFINE t == Replaced(s, p, v)
<1>1. /\ s \in [1..Len(s) -> Nat] /\ Len(s) \in Nat
    BY LenProperties
<1>2. p \in 1..Len(s)
    BY DEF Pages
<1>3. t \in [1..Len(s) -> Nat] /\ t[p] = v /\ \A q \in 1..Len(s) : q # p => t[q] = s[q]
    BY <1>1, <1>2 DEF Replaced
<1> HIDE DEF t
<1>4. t \in Seq(Nat) /\ Len(t) = Len(s)
    BY <1>1, <1>3, Built
<1> QED BY <1>3, <1>4 DEF Pages, t

\* A file of pages of the blob or of new ones has its type.
LEMMA FileWritten ==
    ASSUME Typed, UNCHANGED hist, file' \in Seq(Nat), Len(file') \in 0..MaxPages,
           \A p \in Pages(file') : file'[p] \in 0..Version \/ file'[p] \in Odd
    PROVE  /\ HistOK' /\ FileOK' /\ Version' = Version /\ Blob' = Blob
           /\ \A r : Unchanged(r)' = Unchanged(r)
<1>1. HistOK' /\ Version' = Version /\ Blob' = Blob /\ \A r : Unchanged(r)' = Unchanged(r)
    BY SameBlob DEF Typed
<1> QED BY <1>1 DEF FileOK

\* All but the pages of W stays, and only they become served.
LEMMA HoldsStep ==
    ASSUME NEW W, Blob' = Blob, Strict' \subseteq Strict \cup W,
           \A p \in Pages(file) \ W : p \in Pages(file') /\ file'[p] = file[p]
    PROVE  \A p : p \notin W /\ Holds(p) => Holds(p)'
BY DEF Holds

\* What was just fetched is right.
LEMMA HoldsNew ==
    ASSUME NEW W, Blob' = Blob, \A p \in W : p \in Pages(file') /\ file'[p] = Blob[p]
    PROVE  \A p \in W : Holds(p)'
BY DEF Holds

\* Zeros are a value of a page.
LEMMA HoleOK ==
    ASSUME Typed
    PROVE  Hole \in 0..Version /\ No \in 0..Version
BY Basics, SMT DEF Hole, No

\* The list of ranges: what it does not name has not changed since the snapshot.
LEMMA StepDiffList ==
    ASSUME CacheInv, DiffList
    PROVE  CacheInv'
<1> USE DEF blobVars
<1>1. /\ pc = "diff" /\ pc' = "patch" /\ todo' = DiffRanges(snap)
      /\ file' = IF target > Len(file) THEN Sized(file, target) ELSE file
      /\ UNCHANGED <<hist, present, fEtag, fSnap, fSize, fValid, mode, etag, snap, valid, dirty,
                     target, acks, faults, fresh, taint>>
    BY DEF DiffList
<1>2. Typed
    BY DEF CacheInv
<1>3. file \in Seq(Nat) /\ Len(file) \in 0..MaxPages /\ target \in 0..MaxPages /\ MaxPages \in Nat
    BY <1>2, Basics DEF Typed, FileOK, StateOK
<1>4. /\ file' \in Seq(Nat) /\ Len(file') \in 0..MaxPages /\ target <= Len(file')
      /\ Extends(file, file')
    <2>1. CASE target > Len(file)
        <3>1. file' = Sized(file, target) /\ target \in Nat /\ Len(file) <= target
            BY <1>1, <1>3, <2>1, SMT
        <3>2. target <= target
            BY <3>1, SMT
        <3> QED BY <1>3, <3>1, <3>2, SizedGrows
    <2>2. CASE ~(target > Len(file))
        <3>1. file' = file /\ target <= Len(file)
            BY <1>1, <1>3, <2>2, SMT
        <3> QED BY <1>3, <3>1 DEF Extends
    <2> QED BY <2>1, <2>2
<1>5. \A p \in Pages(file') : file'[p] \in 0..Version \/ file'[p] \in Odd
    BY <1>2, <1>4, HoleOK DEF Typed, FileOK, Extends
<1>6. HistOK' /\ FileOK' /\ Version' = Version /\ Blob' = Blob /\ \A r : Unchanged(r)' = Unchanged(r)
    BY <1>1, <1>2, <1>4, <1>5, FileWritten
<1>7. dirty = {} /\ snap # No /\ present
    BY <1>1, <1>2 DEF Typed, Phase
<1>8. todo' \subseteq Page
    BY <1>1, <1>2, Basics DEF DiffRanges
<1>9. StateOK'
    BY <1>1, <1>2, <1>6, <1>7, <1>8 DEF Typed, StateOK, PC
<1>10. Phase'
    BY <1>1, <1>2, <1>4, <1>6, <1>7 DEF Typed, Phase, Loading
<1>11. Within'
    BY <1>1, <1>2, <1>6 DEF Typed, Within, Loading, Kept
<1>12. ASSUME taint' = {} PROVE Clean'
    <2>1. Clean
        BY <1>1, <1>12 DEF CacheInv
    <2>2. Strict' \subseteq Strict
        BY <1>1 DEF Strict, Unsaved
    <2>3. \A p : Holds(p) => Holds(p)'
        BY <1>4, <1>6, <2>2 DEF Extends, Holds
    <2>4. Refs' = Kept /\ \A r \in Kept : Agrees(r)
        BY <1>1, <1>7, <2>1 DEF Clean, OnDiskInv, Refs, Kept, Resting
    <2>5. OnDiskInv'
        BY <1>6, <2>3, <2>4 DEF OnDiskInv, Agrees
    <2>6. \A p \in Pages(Blob) \ DiffRanges(snap) : p \in Unchanged(snap)
        <3>1. Len(hist[snap]) \in Nat
            <4>1. snap \in 1..Version
                <5>1. snap \in 0..Version /\ Version \in Nat
                    BY <1>2, Basics DEF Typed, StateOK
                <5> QED BY <1>7, <5>1, SMT DEF No
            <4> QED BY <1>2, <4>1, Basics DEF Typed, HistOK
        <3>2. \A p \in Pages(Blob) : ~(p > Len(hist[snap])) => p \in Pages(hist[snap])
            <4> DEFINE n == Len(hist[snap])
            <4>1. n \in Nat
                BY <3>1
            <4> HIDE DEF n
            <4>2. \A p \in 1..Len(Blob) : ~(p > n) => p \in 1..n
                BY <1>2, <4>1, Basics, SMT
            <4> QED BY <4>2 DEF n, Pages
        <3> QED BY <3>2 DEF DiffRanges, Unchanged
    <2>7. snap \in Kept
        BY <1>7 DEF Kept
    <2>8. PatchInv'
        <3>1. ASSUME NEW r, NEW p \in Unchanged(r), p \notin DiffRanges(snap)
              PROVE  Holds(p)'
            <4>1. p \in Pages(Blob)
                BY DEF Unchanged
            <4> QED BY <2>3, <2>4, <2>6, <2>7, <3>1, <4>1 DEF Agrees
        <3> QED BY <1>1, <1>6, <3>1 DEF PatchInv
    <2> QED BY <1>1, <2>5, <2>8 DEF Clean, WriteInv, SizeInv, Resting, Writing
<1> QED BY <1>6, <1>9, <1>10, <1>11, <1>12 DEF CacheInv, Typed

\* One range of the diff.
LEMMA StepDiffPage ==
    ASSUME CacheInv, DiffPage
    PROVE  CacheInv'
<1> USE DEF blobVars
<1>1. PICK p \in todo \cap Pages(Blob) :
         /\ file' = Patched(Sized(file, IF p > Len(file) THEN p ELSE Len(file)), {p})
         /\ \E M \in SUBSET Marked(p) :
              valid' = IF mode = "none" THEN valid \cup M ELSE valid
         /\ todo' = todo \ {p}
    BY DEF DiffPage
<1>2. /\ pc = "patch" /\ pc' = "patch"
      /\ UNCHANGED <<hist, present, fEtag, fSnap, fSize, fValid, mode, etag, snap, dirty, target,
                     acks, faults, fresh, taint>>
    BY DEF DiffPage
<1>3. Typed
    BY DEF CacheInv
<1> DEFINE n == IF p > Len(file) THEN p ELSE Len(file)
<1>4. /\ file \in Seq(Nat) /\ Len(file) \in 0..MaxPages /\ MaxPages \in Nat /\ p \in Page
      /\ target <= Len(file) /\ target \in 0..MaxPages
    BY <1>2, <1>3, Basics DEF Typed, FileOK, Phase, StateOK
<1>5. n \in 0..MaxPages /\ n \in Nat /\ Len(file) <= n /\ target <= n /\ p \in 1..n
    BY <1>4, SMT DEF Page
<1> HIDE DEF n
<1> DEFINE s == Sized(file, n)
<1>6. s \in Seq(Nat) /\ Len(s) = n /\ Extends(file, s)
    BY <1>4, <1>5, SizedGrows
<1>7. file' = Patched(s, {p})
    BY <1>1 DEF n, s
<1> HIDE DEF s
<1>8. /\ file' \in Seq(Nat) /\ Len(file') = n
      /\ \A q \in Pages(s) : q \in {p} => file'[q] = Blob[q]
      /\ \A q \in Pages(s) : q \notin {p} => file'[q] = s[q]
    <2>1. {p} \cap Pages(s) \subseteq Pages(Blob) /\ Blob \in Seq(Nat)
        BY <1>1, <1>3, Basics
    <2> QED BY <1>6, <1>7, <2>1, PatchedIs
<1>9. Pages(file') = Pages(s) /\ p \in Pages(s)
    BY <1>5, <1>6, <1>8 DEF Pages
<1>10. \A q \in Pages(file) \ {p} : q \in Pages(file') /\ file'[q] = file[q]
    BY <1>6, <1>8, <1>9 DEF Extends
<1>11. file'[p] = Blob[p]
    BY <1>8, <1>9
<1>12. \A q \in Pages(file') : file'[q] \in 0..Version \/ file'[q] \in Odd
    BY <1>1, <1>3, <1>6, <1>8, <1>9, HoleOK, Stamps DEF Extends
<1>13. HistOK' /\ FileOK' /\ Version' = Version /\ Blob' = Blob /\ \A r : Unchanged(r)' = Unchanged(r)
    BY <1>2, <1>3, <1>5, <1>8, <1>12, FileWritten
<1>14. dirty = {} /\ present
    BY <1>2, <1>3 DEF Typed, Phase
<1>15. valid' \subseteq Page /\ todo' \subseteq Page
    <2>1. Marked(p) \subseteq Page
        BY DEF Marked
    <2> QED BY <1>1, <1>3, <2>1 DEF Typed, StateOK
<1>16. StateOK'
    BY <1>2, <1>3, <1>13, <1>14, <1>15 DEF Typed, StateOK
<1>17. Phase'
    BY <1>2, <1>3, <1>5, <1>8, <1>13, <1>14 DEF Typed, Phase
<1>18. Within'
    BY <1>2, <1>3, <1>13 DEF Typed, Within, Kept
<1>19. ASSUME taint' = {} PROVE Clean'
    <2>1. Clean
        BY <1>2, <1>19 DEF CacheInv
    <2>2. Strict' \subseteq Strict \cup {p}
        BY <1>2 DEF Strict, Unsaved
    <2>3. \A q : q \notin {p} /\ Holds(q) => Holds(q)'
        BY <1>10, <1>13, <2>2, HoldsStep
    <2>4. Holds(p)'
        BY <1>9, <1>11, <1>13 DEF Holds
    <2>5. \A q : Holds(q) => Holds(q)'
        BY <2>3, <2>4
    <2>6. Refs' = Refs
        BY <1>2 DEF Refs, Kept
    <2>7. OnDiskInv'
        BY <1>2, <1>13, <2>1, <2>5, <2>6 DEF Clean, OnDiskInv, Agrees
    <2>8. PatchInv'
        <3>1. ASSUME NEW q \in Unchanged(etag) \ todo' PROVE Holds(q)'
            <4>1. CASE q = p
                BY <2>4, <4>1
            <4>2. CASE q # p
                BY <1>1, <1>2, <2>1, <2>5, <4>2 DEF Clean, PatchInv
            <4> QED BY <4>1, <4>2
        <3> QED BY <1>2, <1>13, <3>1 DEF PatchInv
    <2> QED BY <1>2, <2>7, <2>8 DEF Clean, WriteInv, SizeInv, Resting, Writing
<1> QED BY <1>13, <1>16, <1>17, <1>18, <1>19 DEF CacheInv, Typed

\* The end of a diff: the file gets the size of the HEAD.
LEMMA StepDiffDone ==
    ASSUME CacheInv, DiffDone
    PROVE  CacheInv'
<1> USE DEF blobVars, memVars
<1>1. /\ pc = "patch" /\ pc' = "open" /\ todo = {}
      /\ file' = IF target < Len(file) THEN Sized(file, target) ELSE file
      /\ taint' = IF \E p \in valid : p \in Pages(file') /\ file'[p] = Hole
                  THEN taint \cup {"units"} ELSE taint
      /\ UNCHANGED <<hist, present, fEtag, fSnap, fSize, fValid, mode, etag, snap, valid, dirty,
                     target, todo, acks, faults, fresh>>
    BY DEF DiffDone
<1>2. Typed
    BY DEF CacheInv
<1>3. /\ file \in Seq(Nat) /\ Len(file) \in Nat /\ target \in 0..MaxPages /\ target <= Len(file)
      /\ MaxPages \in Nat
    BY <1>1, <1>2, Basics DEF Typed, FileOK, StateOK, Phase
<1>4. /\ file' \in Seq(Nat) /\ Len(file') = target
      /\ \A p \in 1..target : p \in Pages(file) /\ file'[p] = file[p]
    <2>1. target \in Nat
        BY <1>3, SMT
    <2>2. CASE target < Len(file)
        BY <1>1, <1>3, <2>1, <2>2, SizedCuts
    <2>3. CASE ~(target < Len(file))
        <3>1. Len(file) = target /\ file' = file
            BY <1>1, <1>3, <2>1, <2>3, SMT
        <3> QED BY <1>3, <3>1 DEF Pages
    <2> QED BY <2>2, <2>3
<1>5. Pages(file') = 1..target
    BY <1>4 DEF Pages
<1>6. \A p \in Pages(file') : file'[p] \in 0..Version \/ file'[p] \in Odd
    BY <1>2, <1>4, <1>5 DEF Typed, FileOK
<1>7. HistOK' /\ FileOK' /\ Version' = Version /\ Blob' = Blob /\ \A r : Unchanged(r)' = Unchanged(r)
    BY <1>1, <1>2, <1>3, <1>4, <1>6, FileWritten
<1>8. dirty = {} /\ present
    BY <1>1, <1>2 DEF Typed, Phase
<1>9. StateOK'
    <2>1. taint' \subseteq Reason
        BY <1>1, <1>2 DEF Typed, StateOK, Reason
    <2> QED BY <1>1, <1>2, <1>7, <1>8, <2>1 DEF Typed, StateOK, PC
<1>10. Phase' /\ Within'
    BY <1>1, <1>2, <1>7, <1>8 DEF Typed, Phase, Within, Loading
<1>11. ASSUME taint' = {} PROVE Clean'
    <2>1. Clean /\ \A p \in valid : p \in Pages(file') => file'[p] # Hole
        BY <1>1, <1>11 DEF CacheInv
    <2>2. Strict' \subseteq Strict \cup valid
        BY <1>1 DEF Strict, Unsaved
    <2>3. ASSUME NEW r \in Kept \cup {etag}, NEW p \in Unchanged(r) PROVE Holds(p)'
        <3>1. Holds(p)
            <4>1. CASE r \in Kept
                BY <1>1, <1>8, <2>1, <4>1 DEF Clean, OnDiskInv, Refs, Agrees
            <4>2. CASE r = etag
                BY <1>1, <2>1, <2>3, <4>2 DEF Clean, PatchInv
            <4> QED BY <2>3, <4>1, <4>2
        <3>2. p \in Pages(file')
            <4>1. p <= target
                BY <1>1, <1>2 DEF Typed, Within, Loading
            <4>2. p \in 1..Len(file)
                BY <3>1 DEF Holds, Pages
            <4> QED BY <1>3, <1>5, <4>1, <4>2, SMT
        <3> QED BY <1>4, <1>5, <1>7, <2>1, <2>2, <3>1, <3>2 DEF Holds
    <2>4. Refs' \subseteq Kept \cup {etag}
        BY <1>1 DEF Refs, Kept
    <2>5. OnDiskInv'
        BY <1>7, <2>3, <2>4 DEF OnDiskInv, Agrees
    <2>6. SizeInv'
        BY <1>1, <1>2, <1>4, <1>7 DEF SizeInv, Typed, Phase, Loading
    <2> QED BY <1>1, <2>5, <2>6 DEF Clean, PatchInv, WriteInv, Writing
<1> QED BY <1>7, <1>9, <1>10, <1>11 DEF CacheInv, Typed

\* The first n pages of the buffer.
LEMMA BufferIs ==
    ASSUME Typed, BufOK, NEW n \in 0..MaxPages, NEW f, f = [p \in 1..n |-> tempBuf[p]]
    PROVE  /\ f \in Seq(Nat) /\ Len(f) = n
           /\ \A p \in 1..n : f[p] = tempBuf[p] /\ (f[p] \in 0..Version \/ f[p] \in Odd)
<1>1. n \in Nat /\ 1..n \subseteq Page
    BY SizeAssumption, SMT DEF Page
<1>2. f \in [1..n -> Nat]
    BY <1>1 DEF BufOK
<1>3. f \in Seq(Nat) /\ Len(f) = n
    BY <1>1, <1>2, Built
<1> QED BY <1>1, <1>3 DEF BufOK

\* The file becomes what the buffer holds.
LEMMA Fetched ==
    ASSUME Typed, BufInv, Getting, UNCHANGED <<hist, etag, target>>, pc' = "open",
           todo = {}, file' = Loaded, Refs' \subseteq Kept \cup {etag}
    PROVE  /\ HistOK' /\ FileOK' /\ Version' = Version /\ Blob' = Blob
           /\ Clean'
<1>1. target \in 0..MaxPages /\ MaxPages \in Nat /\ pc \in Loading
    BY Basics DEF Typed, StateOK, Getting, Loading
<1>2. target \in Nat
    BY <1>1, SMT
<1>3. /\ file' \in Seq(Nat) /\ Len(file') = target
      /\ \A p \in 1..target :
           file'[p] = tempBuf[p] /\ (file'[p] \in 0..Version \/ file'[p] \in Odd)
    <2> DEFINE f == Loaded
    <2>1. f = [p \in 1..target |-> tempBuf[p]]
        BY DEF Loaded
    <2>2. file' = f
        OBVIOUS
    <2> HIDE DEF f
    <2>3. /\ f \in Seq(Nat) /\ Len(f) = target
          /\ \A p \in 1..target : f[p] = tempBuf[p] /\ (f[p] \in 0..Version \/ f[p] \in Odd)
        BY <1>1, <2>1, BufferIs DEF BufInv
    <2> QED BY <2>2, <2>3
<1>4. Pages(file') = 1..target
    BY <1>3 DEF Pages
<1>5. \A p \in Pages(file') : file'[p] \in 0..Version \/ file'[p] \in Odd
    BY <1>3, <1>4
<1>6. HistOK' /\ FileOK' /\ Version' = Version /\ Blob' = Blob /\ \A r : Unchanged(r)' = Unchanged(r)
    BY <1>1, <1>3, <1>5, FileWritten
<1>7. ASSUME NEW r \in Kept \cup {etag}, NEW p \in Unchanged(r) PROVE Holds(p)'
    <2>1. p <= target /\ p \in 1..Len(Blob) /\ Len(Blob) \in Nat
        BY <1>1, Basics DEF Typed, Within, Unchanged, Pages
    <2>2. p \in 1..target
        BY <1>2, <2>1, SMT
    <2>3. tempBuf[p] = Blob[p]
        BY DEF BufInv, GetInv
    <2> QED BY <1>3, <1>4, <1>6, <2>2, <2>3 DEF Holds
<1>8. OnDiskInv'
    BY <1>6, <1>7 DEF OnDiskInv, Agrees
<1>9. SizeInv'
    BY <1>1, <1>3, <1>6 DEF SizeInv, Typed, Phase
<1> QED BY <1>6, <1>8, <1>9 DEF Clean, PatchInv, WriteInv, Writing

\* The download of the whole blob.
LEMMA StepDownload ==
    ASSUME CacheInv, BufInv, Download
    PROVE  CacheInv'
<1> USE DEF blobVars
<1>1. /\ pc = "download" /\ pc' = "open" /\ mode = "all" /\ todo = {} /\ file' = Loaded
      /\ fresh' = FALSE /\ taint' = {}
      /\ UNCHANGED <<hist, present, fEtag, fSnap, fSize, fValid, mode, etag, snap, valid, dirty,
                     target, todo, acks, faults>>
    BY DEF Download
<1>2. Typed
    BY DEF CacheInv
<1>3. Refs' \subseteq Kept \cup {etag} /\ Getting
    BY <1>1 DEF Refs, Kept, Getting
<1>4. HistOK' /\ FileOK' /\ Version' = Version /\ Blob' = Blob /\ Clean'
    BY <1>1, <1>2, <1>3, Fetched
<1>5. dirty = {}
    BY <1>1, <1>2 DEF Typed, Phase
<1>6. StateOK'
    BY <1>1, <1>2, <1>4, <1>5 DEF Typed, StateOK, PC
<1>7. Phase' /\ Within'
    BY <1>1, <1>2, <1>4, <1>5 DEF Typed, Phase, Within, Loading
<1> QED BY <1>4, <1>6, <1>7 DEF CacheInv, Typed

\* One GET of a whole download, which leaves the file alone.
LEMMA StepGetChunk ==
    ASSUME CacheInv, GetChunk
    PROVE  CacheInv'
<1> USE DEF blobVars, fileVars
<1>1. /\ pc \in {"refresh", "download"} /\ pc' = pc /\ Still /\ todo' \subseteq todo
      /\ UNCHANGED <<present, fEtag, fSnap, fSize, fValid, mode, etag, snap, valid, dirty, target,
                     acks, faults, fresh, taint>>
    BY DEF GetChunk, Getting, Still
<1>2. Typed
    BY DEF CacheInv
<1>3. HistOK' /\ FileOK' /\ Version' = Version /\ Blob' = Blob /\ \A r : Unchanged(r)' = Unchanged(r)
    BY <1>1, <1>2, StillOK
<1>4. StateOK'
    <2>1. todo' \subseteq Page
        BY <1>1, <1>2 DEF Typed, StateOK
    <2> QED BY <1>1, <1>2, <1>3, <2>1 DEF Typed, StateOK, Still
<1>5. Phase'
    BY <1>1, <1>2, <1>3 DEF Typed, Phase
<1>6. Within'
    BY <1>1, <1>2, <1>3 DEF Typed, Within, Kept
<1>7. ASSUME taint' = {} PROVE Clean'
    <2>1. Clean
        BY <1>1, <1>7 DEF CacheInv
    <2>2. Strict' = Strict /\ Refs' = Refs
        BY <1>1 DEF Strict, Unsaved, Refs, Kept
    <2>3. \A r : Agrees(r) => Agrees(r)'
        BY <1>1, <2>2, AgreeStill
    <2>4. OnDiskInv'
        BY <1>1, <2>1, <2>2, <2>3 DEF Clean, OnDiskInv
    <2> QED BY <1>1, <2>4 DEF Clean, PatchInv, WriteInv, SizeInv, Resting, Writing
<1> QED BY <1>3, <1>4, <1>5, <1>6, <1>7 DEF CacheInv, Typed

\* The refresh of a lock.
LEMMA StepRefresh ==
    ASSUME CacheInv, BufInv, Refresh
    PROVE  CacheInv'
<1> USE DEF blobVars
<1>1. /\ pc = "refresh" /\ pc' = "open" /\ todo = {} /\ file' = Loaded
      /\ valid' \in {1..target, {}} /\ snap' = No /\ dirty' = {} /\ taint' = {}
      /\ UNCHANGED <<hist, present, fEtag, fSnap, fSize, fValid, mode, etag, target, todo, acks,
                     faults, fresh>>
    BY DEF Refresh
<1>2. Typed
    BY DEF CacheInv
<1>3. Refs' \subseteq Kept \cup {etag} /\ Getting
    BY <1>1 DEF Refs, Kept, Getting
<1>4. HistOK' /\ FileOK' /\ Version' = Version /\ Blob' = Blob /\ Clean'
    BY <1>1, <1>2, <1>3, Fetched
<1>5. valid' \subseteq Page
    BY <1>1, <1>2, UpToTarget
<1>6. No \in 0..Version
    BY <1>2, HoleOK
<1>7. StateOK'
    BY <1>1, <1>2, <1>4, <1>5, <1>6 DEF Typed, StateOK, PC
<1>8. Phase' /\ Within'
    BY <1>1, <1>2, <1>4 DEF Typed, Phase, Within, Loading
<1> QED BY <1>4, <1>7, <1>8 DEF CacheInv, Typed

\* A sparse file.
LEMMA StepDownloadFirst ==
    ASSUME CacheInv, DownloadFirst
    PROVE  CacheInv'
<1> USE DEF blobVars
<1> DEFINE first == 1..(IF Bootstrap < target THEN Bootstrap ELSE target) \cap Pages(Blob)
           s == Sized(<<>>, target)
<1>1. /\ pc = "download" /\ pc' = "open" /\ mode = "none" /\ file' = Patched(s, first)
      /\ valid' = first /\ fresh' = TRUE /\ taint' = {}
      /\ UNCHANGED <<hist, present, fEtag, fSnap, fSize, fValid, mode, etag, snap, dirty, target,
                     todo, acks, faults>>
    BY DEF DownloadFirst
<1>2. Typed
    BY DEF CacheInv
<1>3. target \in 0..MaxPages /\ MaxPages \in Nat /\ Blob \in Seq(Nat) /\ Pages(Blob) \subseteq Page
    BY <1>2, Basics DEF Typed, StateOK
<1>4. first \subseteq Pages(Blob)
    OBVIOUS
<1> HIDE DEF first
<1>5. target \in Nat /\ Len(<<>>) = 0 /\ <<>> \in Seq(Nat) /\ 1..0 = {} /\ 0 <= target
    BY <1>3, EmptySeq, SMT
<1>6. s \in Seq(Nat) /\ Len(s) = target /\ Extends(<<>>, s)
    BY <1>5, SizedGrows
<1> HIDE DEF s
<1>7. Pages(s) = 1..target /\ \A p \in Pages(s) : s[p] = Hole
    BY <1>5, <1>6 DEF Extends, Pages
<1>8. /\ file' \in Seq(Nat) /\ Len(file') = target
      /\ \A p \in Pages(s) : p \in first => file'[p] = Blob[p]
      /\ \A p \in Pages(s) : p \notin first => file'[p] = s[p]
    BY <1>1, <1>3, <1>4, <1>6, PatchedIs
<1>9. Pages(file') = 1..target
    BY <1>8 DEF Pages
<1>10. \A p \in 1..target : file'[p] = Blob[p] \/ (file'[p] = Hole /\ p \notin first)
    BY <1>7, <1>8
<1>11. \A p \in Pages(file') : file'[p] \in 0..Version \/ file'[p] \in Odd
    BY <1>2, <1>4, <1>7, <1>8, <1>9, Stamps, HoleOK
<1>12. HistOK' /\ FileOK' /\ Version' = Version /\ Blob' = Blob /\ \A r : Unchanged(r)' = Unchanged(r)
    BY <1>1, <1>2, <1>3, <1>8, <1>11, FileWritten
<1>13. dirty = {}
    BY <1>1, <1>2 DEF Typed, Phase
<1>14. StateOK'
    BY <1>1, <1>2, <1>3, <1>4, <1>12, <1>13 DEF Typed, StateOK, PC
<1>15. Phase' /\ Within'
    BY <1>1, <1>2, <1>12, <1>13 DEF Typed, Phase, Within, Loading
<1>16. Strict' = first
    BY <1>1 DEF Strict, Unsaved
<1>17. ASSUME NEW r \in Kept \cup {etag}, NEW p \in Unchanged(r) PROVE Holds(p)'
    <2>1. p <= target /\ p \in 1..Len(Blob) /\ Len(Blob) \in Nat
        BY <1>1, <1>2, Basics DEF Typed, Within, Unchanged, Pages, Loading
    <2>2. p \in 1..target
        BY <1>5, <2>1, SMT
    <2> QED BY <1>9, <1>10, <1>12, <1>16, <2>2 DEF Holds
<1>18. Refs' \subseteq Kept \cup {etag}
    BY <1>1 DEF Refs, Kept
<1>19. OnDiskInv'
    BY <1>12, <1>17, <1>18 DEF OnDiskInv, Agrees
<1>20. SizeInv'
    BY <1>1, <1>2, <1>8, <1>12 DEF SizeInv, Typed, Phase, Loading
<1>21. Clean'
    BY <1>1, <1>19, <1>20 DEF Clean, PatchInv, WriteInv, Writing
<1> QED BY <1>12, <1>14, <1>15, <1>21 DEF CacheInv, Typed

\* Pages of the blob come into a lazy cache.
LEMMA Filled ==
    ASSUME CacheInv, pc \in {"open", "write"}, NEW W, W \subseteq Pages(file), W \subseteq Pages(Blob),
           file' = Patched(file, W), valid' = valid \cup W,
           UNCHANGED <<hist, present, fEtag, fSnap, fSize, fValid, pc, mode, etag, snap, dirty,
                       target, todo, acks, faults, fresh, taint>>
    PROVE  CacheInv'
<1>1. Typed
    BY DEF CacheInv
<1>2. file \in Seq(Nat) /\ Len(file) \in 0..MaxPages /\ Blob \in Seq(Nat) /\ Pages(Blob) \subseteq Page
    BY <1>1, Basics DEF Typed, FileOK
<1>3. /\ file' \in Seq(Nat) /\ Len(file') = Len(file)
      /\ \A p \in Pages(file) : p \in W => file'[p] = Blob[p]
      /\ \A p \in Pages(file) : p \notin W => file'[p] = file[p]
    BY <1>2, PatchedIs
<1>4. Pages(file') = Pages(file)
    BY <1>3 DEF Pages
<1>5. \A p \in Pages(file') : file'[p] \in 0..Version \/ file'[p] \in Odd
    BY <1>1, <1>3, <1>4, Stamps
<1>6. HistOK' /\ FileOK' /\ Version' = Version /\ Blob' = Blob /\ \A r : Unchanged(r)' = Unchanged(r)
    BY <1>1, <1>2, <1>3, <1>5, FileWritten
<1>7. StateOK'
    BY <1>1, <1>2, <1>4, <1>6 DEF Typed, StateOK
<1>8. Phase' /\ Within'
    BY <1>1, <1>6 DEF Typed, Phase, Within, Loading
<1>9. ASSUME taint' = {} PROVE Clean'
    <2>1. Clean
        BY <1>9 DEF CacheInv
    <2>2. Strict' \subseteq Strict \cup W
        BY DEF Strict, Unsaved
    <2>3. \A p : p \notin W /\ Holds(p) => Holds(p)'
        BY <1>3, <1>4, <1>6, <2>2, HoldsStep
    <2>4. \A p \in W : Holds(p)'
        BY <1>3, <1>4, <1>6, HoldsNew
    <2>5. \A p : Holds(p) => Holds(p)'
        BY <2>3, <2>4
    <2>6. Refs' = Refs /\ Excused' = Excused
        BY DEF Refs, Kept, Excused
    <2>7. OnDiskInv'
        BY <1>6, <2>1, <2>5, <2>6 DEF Clean, OnDiskInv, Agrees
    <2>8. WriteInv'
        BY <1>4, <1>6, <2>1, <2>5, <2>6 DEF Clean, WriteInv
    <2>9. SizeInv'
        BY <1>3, <1>6, <2>1 DEF Clean, SizeInv
    <2> QED BY <2>7, <2>8, <2>9 DEF Clean, PatchInv
<1> QED BY <1>6, <1>7, <1>8, <1>9 DEF CacheInv, Typed

\* xRead of a lazy cache.
LEMMA StepRead ==
    ASSUME CacheInv, NEW p \in Page, Read(p)
    PROVE  CacheInv'
<1> DEFINE W == p..(p + Readahead - 1) \cap Pages(file) \cap Pages(Blob)
<1>1. /\ file' = Patched(file, W) /\ valid' = valid \cup W /\ pc \in {"open", "write"}
      /\ UNCHANGED <<hist, present, fEtag, fSnap, fSize, fValid, pc, mode, etag, snap, dirty,
                     target, todo, acks, faults, fresh, taint>>
    BY DEF Read, Fetch, blobVars
<1>2. W \subseteq Pages(file) /\ W \subseteq Pages(Blob)
    OBVIOUS
<1> HIDE DEF W
<1> QED BY <1>1, <1>2, Filled

\* PRAGMA sqlite_objs_prefetch.
LEMMA StepPrefetch ==
    ASSUME CacheInv, NEW p \in Page, NEW q \in Page, Prefetch(p, q)
    PROVE  CacheInv'
<1> DEFINE W == p..q \cap Pages(Blob)
<1>1. /\ file' = Patched(file, W) /\ valid' = valid \cup W /\ pc \in {"open", "write"}
      /\ q <= Len(file)
      /\ UNCHANGED <<hist, present, fEtag, fSnap, fSize, fValid, pc, mode, etag, snap, dirty,
                     target, todo, acks, faults, fresh, taint>>
    BY DEF Prefetch, blobVars
<1>2. W \subseteq Pages(Blob)
    OBVIOUS
<1>3. W \subseteq Pages(file)
    <2>1. Len(file) \in Nat
        BY Basics DEF CacheInv
    <2>2. p..q \subseteq 1..Len(file)
        BY <1>1, <2>1, SizeAssumption, SMT DEF Page
    <2> QED BY <2>2 DEF Pages
<1> HIDE DEF W
<1> QED BY <1>1, <1>2, <1>3, Filled

\* xWrite: the page is excused until it is in the blob.
LEMMA StepWrite ==
    ASSUME CacheInv, NEW p \in Page, Write(p)
    PROVE  CacheInv'
<1> USE DEF blobVars
<1> DEFINE n == IF p > Len(file) THEN p ELSE Len(file)
           s == Sized(file, n)
<1>1. /\ pc = "write" /\ pc' = "write" /\ p \in 1..(Len(file) + 1) /\ file' = [s EXCEPT ![p] = New]
      /\ dirty' = dirty \cup {p} /\ valid' = IF mode = "none" THEN valid \cup {p} ELSE valid
      /\ UNCHANGED <<hist, present, fEtag, fSnap, fSize, fValid, mode, etag, snap, target, todo,
                     acks, faults, fresh, taint>>
    BY DEF Write
<1>2. Typed
    BY DEF CacheInv
<1>3. file \in Seq(Nat) /\ Len(file) \in 0..MaxPages /\ MaxPages \in Nat
    BY <1>2, Basics DEF Typed, FileOK
<1>4. /\ n \in 0..MaxPages /\ n \in Nat /\ Len(file) <= n /\ p \in 1..n
      /\ \A q \in 1..n : q \in 1..Len(file) \/ q = p
    BY <1>1, <1>3, SMT DEF Page
<1> HIDE DEF n
<1>5. s \in Seq(Nat) /\ Len(s) = n /\ Extends(file, s)
    BY <1>3, <1>4, SizedGrows
<1> HIDE DEF s
<1>6. New \in Nat
    BY BoundsAssumption, SMT DEF New
<1>7. /\ file' \in Seq(Nat) /\ Len(file') = n /\ file'[p] = New
      /\ \A q \in Pages(s) : q # p => file'[q] = s[q]
    <2>1. p \in Pages(s)
        BY <1>4, <1>5 DEF Pages
    <2>2. file' = Replaced(s, p, New)
        BY <1>1 DEF Replaced
    <2> QED BY <1>5, <1>6, <2>1, <2>2, ReplacedIs
<1>8. Pages(file') = Pages(s) /\ p \in Pages(s) /\ \A q \in Pages(s) : q \in Pages(file) \/ q = p
    BY <1>4, <1>5, <1>7 DEF Pages
<1>9. \A q \in Pages(file) \ {p} : q \in Pages(file') /\ file'[q] = file[q]
    BY <1>5, <1>7, <1>8 DEF Extends
<1>10. \A q \in Pages(file') : file'[q] \in 0..Version \/ file'[q] \in Odd
    BY <1>2, <1>7, <1>8, <1>9 DEF Typed, FileOK, Odd
<1>11. HistOK' /\ FileOK' /\ Version' = Version /\ Blob' = Blob /\ \A r : Unchanged(r)' = Unchanged(r)
    BY <1>1, <1>2, <1>4, <1>7, <1>10, FileWritten
<1>12. valid' \subseteq Page /\ dirty' \subseteq Pages(file')
    BY <1>1, <1>2, <1>5, <1>8 DEF Typed, StateOK, Extends
<1>13. StateOK'
    BY <1>1, <1>2, <1>11, <1>12 DEF Typed, StateOK
<1>14. Phase' /\ Within'
    BY <1>1, <1>2, <1>11 DEF Typed, Phase, Within, Loading
<1>15. ASSUME taint' = {} PROVE Clean'
    <2>1. Clean
        BY <1>1, <1>15 DEF CacheInv
    <2>2. Strict' \subseteq Strict \cup {p}
        BY <1>1 DEF Strict, Unsaved
    <2>3. \A q : q \notin {p} /\ Holds(q) => Holds(q)'
        BY <1>9, <1>11, <2>2, HoldsStep
    <2>4. Excused = dirty /\ Excused' = dirty \cup {p}
        BY <1>1 DEF Excused
    <2>5. \A q \in Pages(Blob) \ Excused : Holds(q)
        BY <1>1, <2>1 DEF Clean, WriteInv, Writing
    <2>6. Pages(file) \ Pages(Blob) \subseteq Excused
        BY <1>1, <2>1 DEF Clean, WriteInv, Writing
    <2>7. WriteInv'
        BY <1>8, <1>11, <2>3, <2>4, <2>5, <2>6 DEF WriteInv
    <2> QED BY <1>1, <2>7 DEF Clean, OnDiskInv, PatchInv, SizeInv, Resting
<1> QED BY <1>11, <1>13, <1>14, <1>15 DEF CacheInv, Typed

-----------------------------------------------------------------------------
(* Steps that write the blob. *)

\* What others commit: pages of a new version, and pages that stay.
LEMMA CommitIs ==
    ASSUME Typed, NEW n \in Page, NEW S, NEW b,
           b = [p \in 1..n |-> IF p \in S \/ p > Len(Blob) THEN Version + 1 ELSE Blob[p]]
    PROVE  /\ b \in Seq(Nat) /\ Len(b) = n
           /\ \A p \in Pages(b) : b[p] = Version + 1 \/ (p \in Pages(Blob) /\ b[p] = Blob[p])
<1> DEFINE v == Version + 1
           l == Len(Blob)
           c == Blob
<1>1. v \in Nat /\ l \in Nat /\ c \in Seq(Nat) /\ l = Len(c) /\ n \in Nat
    BY Basics, SMT
<1>2. b = [p \in 1..n |-> IF p \in S \/ p > l THEN v ELSE c[p]]
    BY Zenon
<1>3. Pages(Blob) = 1..l /\ Blob = c /\ Version + 1 = v
    BY DEF Pages
<1> HIDE DEF v, l, c
<1>4. \A p \in 1..n : ~(p > l) => p \in 1..l /\ c[p] \in Nat
    BY <1>1, SMT
<1>5. \A p \in 1..n : b[p] = v \/ (p \in 1..l /\ b[p] = c[p])
    BY <1>2, <1>4
<1>6. b \in [1..n -> Nat]
    BY <1>1, <1>2, <1>4
<1>7. b \in Seq(Nat) /\ Len(b) = n
    BY <1>1, <1>6, Built
<1> QED BY <1>3, <1>5, <1>7 DEF Pages

\* A commit of somebody else: what differs from an old version still does.
LEMMA CommitKeeps ==
    ASSUME Typed, NEW n \in Page, NEW S, Commit(n, S)
    PROVE  /\ HistOK' /\ Version' = Version + 1
           /\ 0..Version \subseteq 0..Version' /\ 1..Version \subseteq 1..Version'
           /\ Version' \notin 0..Version
           /\ \A r \in 1..Version : \A p \in Unchanged(r)' : p \in Unchanged(r) /\ Blob'[p] = Blob[p]
           /\ \A r \in Kept : r \in 1..Version
           /\ pc # "closed" => etag \in 1..Version
<1> USE DEF fileVars, memVars
<1> DEFINE b == [p \in 1..n |-> IF p \in S \/ p > Len(Blob) THEN Version + 1 ELSE Blob[p]]
<1>1. /\ Version < MaxVersions /\ pc \notin Writing /\ hist' = Append(hist, b)
      /\ UNCHANGED <<present, file, fEtag, fSnap, fSize, fValid, pc, mode, etag, snap, valid, dirty,
                     target, todo, acks, faults, fresh, taint>>
    BY DEF Commit, Writing
<1>2. /\ b \in Seq(Nat) /\ Len(b) = n
      /\ \A p \in Pages(b) : b[p] = Version + 1 \/ (p \in Pages(Blob) /\ b[p] = Blob[p])
    BY CommitIs
<1> HIDE DEF b
<1>3. /\ Version + 1 \in 0..Version + 1 /\ 0..Version \subseteq 0..Version + 1
      /\ Version + 1 \notin 0..Version
    BY Basics, SMT
<1>4. \A p \in Pages(b) : b[p] \in 0..Version + 1
    BY <1>2, <1>3, Stamps
<1>5. /\ HistOK' /\ Version' = Version + 1 /\ Blob' = b
      /\ \A v \in 1..Version : hist'[v] = hist[v]
      /\ 0..Version \subseteq 0..Version' /\ 1..Version \subseteq 1..Version'
      /\ Version' \notin 0..Version
    BY <1>1, <1>2, <1>4, NewVersion
<1>6. ASSUME NEW r \in 1..Version, NEW p \in Unchanged(r)'
      PROVE  p \in Unchanged(r) /\ Blob'[p] = Blob[p]
    <2>1. hist'[r] = hist[r]
        BY <1>5
    <2>2. p \in Pages(b) /\ p \in Pages(hist[r]) /\ hist[r][p] = b[p]
        BY <1>5, <2>1 DEF Unchanged
    <2>3. hist[r][p] \in 0..Version
        BY <2>2 DEF Typed, HistOK
    <2>4. p \in Pages(Blob) /\ b[p] = Blob[p]
        BY <1>2, <1>3, <2>2, <2>3
    <2> QED BY <1>5, <2>2, <2>4 DEF Unchanged
<1>7. /\ \A r \in Kept : r \in 1..Version
      /\ pc # "closed" => etag \in 1..Version
    <2>1. \A r \in 0..Version : r # No => r \in 1..Version
        BY Basics, SMT DEF No
    <2> QED BY <2>1 DEF Typed, StateOK, Phase, Kept
<1> QED BY <1>5, <1>6, <1>7

\* A commit of somebody else.
LEMMA StepCommit ==
    ASSUME CacheInv, NEW n \in Page, NEW S, Commit(n, S)
    PROVE  CacheInv'
<1> USE DEF fileVars, memVars
<1>1. /\ pc \notin Writing
      /\ UNCHANGED <<present, file, fEtag, fSnap, fSize, fValid, pc, mode, etag, snap, valid, dirty,
                     target, todo, acks, faults, fresh, taint>>
    BY DEF Commit, Writing
<1>2. Typed
    BY DEF CacheInv
<1>3. /\ HistOK' /\ Version' = Version + 1
      /\ 0..Version \subseteq 0..Version' /\ 1..Version \subseteq 1..Version'
      /\ Version' \notin 0..Version
    BY <1>2, CommitKeeps
<1>4. \A r \in 1..Version : \A p \in Unchanged(r)' : p \in Unchanged(r) /\ Blob'[p] = Blob[p]
    BY <1>2, CommitKeeps
<1>5. /\ \A r \in Kept : r \in 1..Version
      /\ pc # "closed" => etag \in 1..Version
    BY <1>2, CommitKeeps
<1>6. FileOK'
    BY <1>1, <1>2, <1>3 DEF Typed, FileOK
<1>7. StateOK'
    BY <1>1, <1>2, <1>3 DEF Typed, StateOK
<1>8. Phase'
    BY <1>1, <1>2, <1>3 DEF Typed, Phase, StateOK, Writing
<1>9. Within'
    <2>1. Kept' = Kept
        BY <1>1 DEF Kept
    <2> QED BY <1>1, <1>2, <1>4, <1>5, <2>1 DEF Typed, Within, Loading
<1>10. ASSUME taint' = {} PROVE Clean'
    <2>1. Clean
        BY <1>1, <1>10 DEF CacheInv
    <2>2. Strict' = Strict
        BY <1>1 DEF Strict, Unsaved
    <2>3. \A r \in 1..Version : \A p \in Unchanged(r)' : Holds(p) => Holds(p)'
        BY <1>1, <1>4, <2>2 DEF Holds
    <2>4. Refs' = Refs /\ \A r \in Refs : r \in 1..Version
        BY <1>1, <1>5 DEF Refs, Kept, Resting
    <2>5. OnDiskInv'
        <3>1. \A r \in 1..Version : Agrees(r) => Agrees(r)'
            BY <1>4, <2>3 DEF Agrees
        <3> QED BY <1>1, <2>1, <2>4, <3>1 DEF Clean, OnDiskInv
    <2>6. PatchInv'
        BY <1>1, <1>4, <1>5, <2>1, <2>3 DEF Clean, PatchInv
    <2>7. SizeInv'
        BY <1>1, <1>2, <1>3 DEF SizeInv, Typed, StateOK
    <2> QED BY <1>1, <2>5, <2>6, <2>7 DEF Clean, WriteInv
<1> QED BY <1>3, <1>6, <1>7, <1>8, <1>9, <1>10 DEF CacheInv, Typed

\* One page of a flush.
LEMMA StepPut ==
    ASSUME CacheInv, NEW p \in Page, Put(p)
    PROVE  CacheInv'
<1> DEFINE stamp == IF file[p] \in Etag THEN file[p] ELSE Version + 1
           s == Sized(Blob, Len(file))
           b == Replaced(s, p, stamp)
<1>1. /\ pc = "flush" /\ pc' = "flush" /\ Version < MaxVersions /\ p \in todo
      /\ hist' = Append(hist, b) /\ file' = Replaced(file, p, stamp)
      /\ acks' = acks \cup {Version + 1} /\ todo' = todo \ {p}
      /\ UNCHANGED <<present, fEtag, fSnap, fSize, fValid, mode, etag, snap, valid, dirty, target,
                     faults, fresh, taint>>
    BY DEF Put, Replaced
<1>2. Typed
    BY DEF CacheInv
<1>3. todo \subseteq dirty /\ dirty \subseteq Pages(file) /\ p \in Pages(file)
    BY <1>1, <1>2 DEF Typed, Phase, StateOK
<1>4. /\ file \in Seq(Nat) /\ Blob \in Seq(Nat) /\ Len(file) \in 0..MaxPages /\ Len(Blob) \in Nat
      /\ Version \in Nat /\ MaxPages \in Nat
    BY <1>2, Basics DEF Typed, FileOK
<1>5. Len(file) \in Page /\ Len(file) \in Nat
    <2>1. p \in 1..Len(file)
        BY <1>3 DEF Pages
    <2> QED BY <1>4, <2>1, SMT DEF Page
<1>6. 0..Version \subseteq 0..Version + 1 /\ Version + 1 \in 0..Version + 1 /\ 0..Version + 1 \subseteq Nat
    BY <1>4, SMT
<1>7. stamp \in 0..Version + 1 /\ stamp \in Nat
    <2>1. New \notin Etag /\ Junk \notin Etag
        BY BoundsAssumption, SMT DEF New, Junk, Etag
    <2> QED BY <1>2, <1>3, <1>6, <2>1, Stamps DEF Odd
<1> HIDE DEF stamp
<1>8. /\ s \in Seq(Nat) /\ Len(s) = Len(file)
      /\ \A q \in 1..Len(file) : q <= Len(Blob) => s[q] = Blob[q]
      /\ \A q \in 1..Len(file) : ~(q <= Len(Blob)) => s[q] = 0
    BY <1>4, <1>5, SizedIs
<1> HIDE DEF s
<1>9. \A q \in 1..Len(file) : q <= Len(Blob) <=> q \in Pages(Blob)
    BY <1>4, <1>5, SMT DEF Pages
<1>10. Pages(s) = Pages(file)
    BY <1>8 DEF Pages
<1>11. /\ \A q \in Pages(file) : q \in Pages(Blob) => s[q] = Blob[q]
       /\ \A q \in Pages(file) : q \notin Pages(Blob) => s[q] = Hole
    BY <1>8, <1>9 DEF Pages, Hole
<1>12. /\ b \in Seq(Nat) /\ Len(b) = Len(file) /\ b[p] = stamp
       /\ \A q \in Pages(file) : q # p => b[q] = s[q]
    <2>1. p \in Pages(s)
        BY <1>3, <1>10
    <2>2. /\ b \in Seq(Nat) /\ Len(b) = Len(s) /\ b[p] = stamp
          /\ \A q \in Pages(s) : q # p => b[q] = s[q]
        BY <1>7, <1>8, <2>1, ReplacedIs
    <2> QED BY <1>8, <1>10, <2>2
<1>13. /\ file' \in Seq(Nat) /\ Len(file') = Len(file) /\ file'[p] = stamp
       /\ \A q \in Pages(file) : q # p => file'[q] = file[q]
    <2> DEFINE f == Replaced(file, p, stamp)
    <2>1. /\ f \in Seq(Nat) /\ Len(f) = Len(file) /\ f[p] = stamp
          /\ \A q \in Pages(file) : q # p => f[q] = file[q]
        BY <1>3, <1>4, <1>7, ReplacedIs
    <2>2. file' = f
        BY <1>1
    <2> HIDE DEF f
    <2> QED BY <2>1, <2>2
<1> HIDE DEF b
<1>14. Pages(b) = Pages(file) /\ Pages(file') = Pages(file)
    BY <1>12, <1>13 DEF Pages
<1>15. \A q \in Pages(b) : b[q] \in 0..Version + 1
    BY <1>2, <1>6, <1>7, <1>11, <1>12, <1>14, Stamps, HoleOK
<1>16. /\ HistOK' /\ Version' = Version + 1 /\ Blob' = b
       /\ 0..Version \subseteq 0..Version' /\ 1..Version \subseteq 1..Version'
       /\ Version' \in 1..Version'
    BY <1>1, <1>2, <1>5, <1>12, <1>15, NewVersion
<1>17. FileOK'
    <2>1. \A q \in Pages(file') : file'[q] \in 0..Version' \/ file'[q] \in Odd
        BY <1>2, <1>7, <1>13, <1>14, <1>16, Stamps
    <2> QED BY <1>4, <1>13, <2>1 DEF FileOK
<1>18. StateOK'
    <2>1. acks' \subseteq 1..Version'
        BY <1>1, <1>2, <1>16 DEF Typed, StateOK
    <2> QED BY <1>1, <1>2, <1>14, <1>16, <2>1 DEF Typed, StateOK
<1>19. Phase' /\ Within'
    BY <1>1, <1>2 DEF Typed, Phase, Within, Loading
<1>20. ASSUME taint' = {} PROVE Clean'
    <2>1. Clean
        BY <1>1, <1>20 DEF CacheInv
    <2>2. Strict' = Strict
        BY <1>1 DEF Strict, Unsaved
    <2>3. Excused = todo /\ Excused' = todo \ {p}
        BY <1>1 DEF Excused
    <2>4. /\ \A q \in Pages(Blob) \ todo : Holds(q)
          /\ Pages(file) \ Pages(Blob) \subseteq todo
        BY <1>1, <2>1, <2>3 DEF Clean, WriteInv, Writing
    <2>5. ASSUME NEW q \in Pages(file), q \notin todo \ {p} PROVE Holds(q)'
        <3>1. CASE q = p
            BY <1>12, <1>13, <1>14, <1>16, <3>1 DEF Holds
        <3>2. CASE q # p
            <4>1. q \in Pages(Blob) /\ Holds(q)
                BY <2>4, <2>5, <3>2
            <4>2. Blob'[q] = Blob[q] /\ file'[q] = file[q] /\ q \in Pages(file')
                BY <1>11, <1>12, <1>13, <1>14, <1>16, <3>2, <4>1
            <4> QED BY <2>2, <4>1, <4>2 DEF Holds
        <3> QED BY <3>1, <3>2
    <2>6. WriteInv'
        BY <1>14, <1>16, <2>3, <2>5 DEF WriteInv
    <2> QED BY <1>1, <2>6 DEF Clean, OnDiskInv, PatchInv, SizeInv, Resting
<1> QED BY <1>16, <1>17, <1>18, <1>19, <1>20 DEF CacheInv, Typed

-----------------------------------------------------------------------------
(* A process that dies, and the whole. *)

\* What a dead process leaves has the type of a file.
LEMMA CrashFile ==
    ASSUME Typed, BufOK, Crash
    PROVE  HistOK' /\ FileOK' /\ Version' = Version /\ Blob' = Blob /\ UNCHANGED hist
<1>1. UNCHANGED hist
    BY DEF Crash, blobVars
<1>2. target \in 0..MaxPages /\ Blob \in Seq(Nat) /\ MaxPages \in Nat
    BY Basics DEF Typed, StateOK
<1>3. CASE file' = file
    BY <1>1, <1>3, StillOK DEF Still
<1>4. ASSUME NEW n \in 0..target, file' = [p \in 1..n |-> tempBuf[p]]
      PROVE  HistOK' /\ FileOK' /\ Version' = Version /\ Blob' = Blob
    <2>1. n \in 0..MaxPages
        BY <1>2, SMT
    <2> DEFINE f == [p \in 1..n |-> tempBuf[p]]
    <2>2. file' = f /\ f = [p \in 1..n |-> tempBuf[p]]
        BY <1>4
    <2> HIDE DEF f
    <2>3. /\ f \in Seq(Nat) /\ Len(f) = n
          /\ \A p \in 1..n : f[p] \in 0..Version \/ f[p] \in Odd
        BY <2>1, <2>2, BufferIs
    <2>4. \A p \in Pages(file') : file'[p] \in 0..Version \/ file'[p] \in Odd
        BY <2>2, <2>3 DEF Pages
    <2> QED BY <1>1, <2>1, <2>2, <2>3, <2>4, FileWritten
<1>5. ASSUME NEW n, file' = Patched(Sized(<<>>, target), 1..n \cap Pages(Blob))
      PROVE  HistOK' /\ FileOK' /\ Version' = Version /\ Blob' = Blob
    <2> DEFINE S == 1..n \cap Pages(Blob)
               s == Sized(<<>>, target)
    <2>1. target \in Nat /\ Len(<<>>) = 0 /\ <<>> \in Seq(Nat) /\ 1..0 = {} /\ 0 <= target
        BY <1>2, EmptySeq, SMT
    <2>2. s \in Seq(Nat) /\ Len(s) = target /\ Extends(<<>>, s)
        BY <2>1, SizedGrows
    <2>3. file' = Patched(s, S) /\ S \subseteq Pages(Blob)
        BY <1>5
    <2> HIDE DEF S, s
    <2>4. Pages(s) = 1..target /\ \A p \in Pages(s) : s[p] = Hole
        BY <2>1, <2>2 DEF Extends, Pages
    <2>5. /\ file' \in Seq(Nat) /\ Len(file') = target
          /\ \A p \in Pages(s) : p \in S => file'[p] = Blob[p]
          /\ \A p \in Pages(s) : p \notin S => file'[p] = s[p]
        BY <1>2, <2>2, <2>3, PatchedIs
    <2>6. Pages(file') = Pages(s)
        BY <2>2, <2>5 DEF Pages
    <2>7. \A p \in Pages(file') : file'[p] \in 0..Version \/ file'[p] \in Odd
        BY <2>3, <2>4, <2>5, <2>6, HoleOK, Stamps
    <2> QED BY <1>1, <1>2, <2>5, <2>7, FileWritten
<1> QED BY <1>1, <1>3, <1>4, <1>5 DEF Crash, CutShort

\* The process dies.
LEMMA StepCrash ==
    ASSUME CacheInv, BufInv, Crash
    PROVE  CacheInv'
<1> USE DEF blobVars
<1>1. /\ pc # "closed" /\ pc' = "closed"
      /\ taint' = taint
                    \cup {r \in {"crash"} : dirty # {} \/ pc = "download" \/ file' # file}
                    \cup {r \in {"state"} : fresh}
      /\ etag' = No /\ snap' = No /\ valid' = {} /\ dirty' = {}
      /\ target' = 0 /\ todo' = {} /\ acks' = {}
      /\ UNCHANGED <<present, fEtag, fSnap, fSize, fValid, mode, faults, fresh>>
    BY DEF Crash
<1>2. Typed
    BY DEF CacheInv
<1>3. HistOK' /\ FileOK' /\ Version' = Version /\ Blob' = Blob /\ UNCHANGED hist
    BY <1>2, CrashFile DEF BufInv
<1>4. No \in 0..Version /\ 0 \in 0..MaxPages
    BY <1>2, Basics, SMT DEF No
<1>5. taint' \subseteq Reason
    BY <1>1, <1>2 DEF Typed, StateOK, Reason
<1>6. StateOK'
    BY <1>1, <1>2, <1>3, <1>4, <1>5 DEF Typed, StateOK, PC
<1>7. Phase' /\ Within'
    BY <1>1 DEF Phase, Within, Loading
<1>8. ASSUME taint' = {} PROVE Clean'
    <2>1. taint = {} /\ dirty = {} /\ pc # "download" /\ file' = file /\ ~fresh
        BY <1>1, <1>8
    <2>2. Clean /\ Still
        BY <1>3, <2>1 DEF CacheInv, Still
    <2>3. Strict' \subseteq Strict
        BY <1>1, <2>1 DEF Strict, Unsaved
    <2>4. \A r : Agrees(r) => Agrees(r)'
        BY <2>2, <2>3, AgreeStill
    <2>5. present /\ pc \in PC
        BY <1>1, <1>2 DEF Typed, Phase, StateOK
    <2>6. \A r \in Kept : Agrees(r)
        <3>1. CASE pc \in Writing
            <4>1. Excused = {}
                BY <1>2, <2>1, <3>1 DEF Excused, Typed, Phase
            <4>2. \A p \in Pages(Blob) : Holds(p)
                BY <2>2, <3>1, <4>1 DEF Clean, WriteInv
            <4> QED BY <4>2, CurrentAgrees
        <3>2. CASE pc \notin Writing
            <4>1. pc \in {"closed", "diff", "patch", "refresh"} \cup Resting
                BY <2>1, <2>5, <3>2 DEF PC, Writing, Resting
            <4> QED BY <2>2, <2>5, <4>1 DEF Clean, OnDiskInv, Refs
        <3> QED BY <3>1, <3>2
    <2>7. Refs' \subseteq Kept
        BY <1>1 DEF Refs, Kept, Resting
    <2>8. OnDiskInv'
        BY <2>4, <2>6, <2>7 DEF OnDiskInv
    <2> QED BY <1>1, <2>8 DEF Clean, PatchInv, WriteInv, SizeInv, Resting, Writing
<1> QED BY <1>3, <1>6, <1>7, <1>8 DEF CacheInv, Typed

\* Nothing happens.
LEMMA Stutter ==
    ASSUME CacheInv, UNCHANGED vars
    PROVE  CacheInv'
<1>1. /\ Still
      /\ UNCHANGED <<present, fEtag, fSnap, fSize, fValid, pc, mode, etag, snap, valid, dirty,
                     target, todo, acks, faults, fresh, taint>>
    BY DEF Still, vars, blobVars, fileVars, memVars
<1>2. Typed
    BY DEF CacheInv
<1>3. HistOK' /\ FileOK' /\ Version' = Version /\ Blob' = Blob /\ \A r : Unchanged(r)' = Unchanged(r)
    BY <1>1, <1>2, StillOK
<1>4. Kept' = Kept /\ Strict' = Strict /\ Refs' = Refs /\ Excused' = Excused
    BY <1>1 DEF Kept, Strict, Unsaved, Refs, Excused
<1>5. StateOK' /\ Phase'
    <2>1. StateOK'
        BY <1>1, <1>2, <1>3 DEF Typed, StateOK, Still
    <2>2. Phase'
        BY <1>1, <1>2, <1>3 DEF Typed, Phase, Still
    <2> QED BY <2>1, <2>2
<1>6. Within'
    BY <1>1, <1>2, <1>3, <1>4 DEF Typed, Within
<1>7. ASSUME taint' = {} PROVE Clean'
    <2>1. Clean
        BY <1>1, <1>7 DEF CacheInv
    <2>2. \A p : Holds(p) => Holds(p)'
        BY <1>1, <1>3, <1>4 DEF Holds, Still
    <2>3. \A r : Agrees(r) => Agrees(r)'
        BY <1>3, <2>2 DEF Agrees
    <2>4. OnDiskInv'
        BY <1>1, <1>4, <2>1, <2>3 DEF Clean, OnDiskInv
    <2>5. PatchInv'
        BY <1>1, <1>3, <2>1, <2>2 DEF Clean, PatchInv
    <2>6. WriteInv'
        BY <1>1, <1>3, <1>4, <2>1, <2>2 DEF Clean, WriteInv, Still
    <2>7. SizeInv'
        BY <1>1, <1>3, <2>1 DEF Clean, SizeInv, Still
    <2> QED BY <2>4, <2>5, <2>6, <2>7 DEF Clean
<1> QED BY <1>3, <1>5, <1>6, <1>7 DEF CacheInv, Typed

\* Every step preserves what is said of the file and its sidecars.
LEMMA CacheNext ==
    ASSUME CacheInv, BufInv, [Next]_vars
    PROVE  CacheInv'
<1>1. CASE \E n \in Page : \E S \in SUBSET (1..n) : Commit(n, S)
    BY <1>1, StepCommit
<1>2. CASE \E m \in Modes : Open(m)
    BY <1>2, StepOpen
<1>3. CASE DiffList \/ DiffPage \/ DiffDone \/ DiffFail
    BY <1>3, StepDiffList, StepDiffPage, StepDiffDone, StepDiffFail
<1>4. CASE GetChunk \/ Download \/ DownloadFirst \/ DownloadFail
    BY <1>4, StepGetChunk, StepDownload, StepDownloadFirst, StepDownloadFail
<1>5. CASE Stale \/ Refresh \/ RefreshFail
    BY <1>5, StepStale, StepRefresh, StepRefreshFail
<1>6. CASE \E p \in Page : Read(p) \/ Write(p) \/ Put(p)
    BY <1>6, StepRead, StepWrite, StepPut
<1>7. CASE \E p, q \in Page : p <= q /\ Prefetch(p, q)
    BY <1>7, StepPrefetch
<1>8. CASE Reserve \/ Sync \/ Release \/ SyncDone \/ SnapshotCreate
    BY <1>8, StepReserve, StepSync, StepRelease, StepSyncDone, StepSnapshotCreate
<1>9. CASE CloseHead \/ CloseState \/ CloseEtag \/ CloseSnap
    BY <1>9, StepCloseHead, StepCloseState, StepCloseEtag, StepCloseSnap
<1>10. CASE Crash
    BY <1>10, StepCrash
<1>11. CASE UNCHANGED vars
    BY <1>11, Stutter
<1> QED BY <1>1, <1>2, <1>3, <1>4, <1>5, <1>6, <1>7, <1>8, <1>9, <1>10, <1>11 DEF Next

-----------------------------------------------------------------------------
(* The buffer of a whole download. *)

\* No whole download is under way after the step.
LEMMA BufRests ==
    ASSUME Typed, BufOK, pageSize' = pageSize, tempBuf' \in {tempBuf, NoBuf},
           0..Version \subseteq 0..Version', ~Getting'
    PROVE  BufInv'
<1>1. Junk \in Nat
    BY BoundsAssumption, SMT DEF Junk
<1>2. tempBuf' \in [Page -> Nat]
    BY <1>1 DEF BufOK, NoBuf
<1>3. \A p \in Page : tempBuf'[p] = tempBuf[p] \/ tempBuf'[p] = Junk
    BY DEF NoBuf
<1> QED BY <1>2, <1>3 DEF BufOK, BufInv, GetInv, Odd

\* A whole download begins, and everything is still to come.
LEMMA BufStarts ==
    ASSUME Typed, BufOK, UNCHANGED <<hist, pageSize, tempBuf>>,
           \A r : Unchanged(r) \cap 1..target' \subseteq todo',
           \A r \in Kept' \cup {etag'} : \A p \in Unchanged(r) : p <= target',
           target' \in Nat
    PROVE  BufInv'
<1>1. Version' = Version /\ \A r : Unchanged(r)' = Unchanged(r)
    BY SameBlob
<1>2. \A r \in Kept' \cup {etag'} : \A p \in Unchanged(r) : p \in 1..target'
    <2>1. \A r : \A p \in Unchanged(r) : p \in 1..Len(Blob)
        BY DEF Unchanged, Pages
    <2>2. \A p \in 1..Len(Blob) : p <= target' => p \in 1..target'
        BY Basics, SMT
    <2> QED BY <2>1, <2>2
<1>3. GetInv'
    BY <1>1, <1>2 DEF GetInv
<1> QED BY <1>1, <1>3 DEF BufOK, BufInv

\* A commit of somebody else between two GETs.
LEMMA BufCommit ==
    ASSUME Typed, BufInv, NEW n \in Page, NEW S, Commit(n, S)
    PROVE  BufInv'
<1>1. UNCHANGED <<pageSize, tempBuf, todo, pc, mode, etag, fSnap, fEtag, snap>>
    BY DEF Commit, fileVars, memVars
<1>2. 0..Version \subseteq 0..Version'
    BY CommitKeeps
<1>3. BufOK'
    BY <1>1, <1>2 DEF BufInv, BufOK
<1>4. \A r \in 1..Version : \A p \in Unchanged(r)' : p \in Unchanged(r) /\ Blob'[p] = Blob[p]
    BY CommitKeeps
<1>5. Getting' = Getting /\ Kept' = Kept
    BY <1>1 DEF Getting, Kept
<1>6. ASSUME Getting PROVE \A r \in Kept \cup {etag} : r \in 1..Version
    BY <1>6, CommitKeeps DEF Getting
<1>7. GetInv'
    BY <1>1, <1>4, <1>5, <1>6 DEF BufInv, GetInv
<1> QED BY <1>3, <1>7 DEF BufInv

\* One GET: what it brings is the blob's.
LEMMA BufGetChunk ==
    ASSUME Typed, BufInv, GetChunk
    PROVE  BufInv'
<1>1. PICK ch \in Chunks :
        /\ tempBuf' = [p \in Page |-> IF p \in ch \cap todo \cap Pages(Blob)
                                     THEN Blob[p] ELSE tempBuf[p]]
        /\ todo' = todo \ ch
    BY DEF GetChunk
<1>2. UNCHANGED <<hist, pageSize, pc, mode, etag, fSnap, fEtag, snap>> /\ Getting
    BY DEF GetChunk, blobVars, fileVars
<1>3. Version' = Version /\ Blob' = Blob /\ \A r : Unchanged(r)' = Unchanged(r)
    BY <1>2, SameBlob
<1> DEFINE W == ch \cap todo \cap Pages(Blob)
<1>4. /\ \A p \in Page : p \in W => tempBuf'[p] = Blob[p]
      /\ \A p \in Page : p \notin W => tempBuf'[p] = tempBuf[p]
    BY <1>1
<1>5. W \subseteq Pages(Blob)
    OBVIOUS
<1>6. \A p \in Pages(Blob) : p \notin todo' => p \in W \/ p \notin todo
    BY <1>1
<1>7. tempBuf' = [p \in Page |-> tempBuf'[p]]
    BY <1>1
<1> HIDE DEF W
<1>8. \A p \in Page : tempBuf'[p] \in 0..Version \/ tempBuf'[p] \in Odd
    BY <1>4, <1>5, Stamps DEF BufInv, BufOK
<1>9. \A p \in Page : tempBuf'[p] \in Nat
    <2>1. 0..Version \subseteq Nat /\ New \in Nat /\ Junk \in Nat
        BY Basics, BoundsAssumption, SMT DEF New, Junk
    <2> QED BY <1>8, <2>1 DEF Odd
<1>10. BufOK'
    <2>1. tempBuf' \in [Page -> Nat]
        BY <1>7, <1>9
    <2> QED BY <1>2, <1>3, <1>8, <2>1 DEF BufInv, BufOK
<1>11. GetInv'
    <2>1. Kept' = Kept
        BY <1>2 DEF Kept
    <2>2. ASSUME NEW r \in Kept \cup {etag}, NEW p \in Unchanged(r), p \notin todo'
          PROVE  tempBuf'[p] = Blob[p]
        <3>1. p \in Pages(Blob) /\ p \in Page
            BY Basics DEF Unchanged
        <3>2. CASE p \in W
            BY <1>4, <3>1, <3>2
        <3>3. CASE p \notin W
            BY <1>2, <1>4, <1>6, <2>2, <3>1, <3>3 DEF BufInv, GetInv
        <3> QED BY <3>2, <3>3
    <2> QED BY <1>2, <1>3, <2>1, <2>2 DEF GetInv
<1> QED BY <1>10, <1>11 DEF BufInv

\* The steps that begin a whole download, or a sparse one.
LEMMA BufBegins ==
    ASSUME Typed, BufInv, Typed',
           (\E m \in Modes : Open(m)) \/ DiffFail \/ Stale
    PROVE  BufInv'
<1> USE DEF blobVars
<1>1. UNCHANGED <<hist, pageSize, tempBuf>> /\ BufOK
    BY DEF Open, DiffFail, Stale, BufInv
<1>2. Version' = Version /\ \A r : Unchanged(r)' = Unchanged(r)
    BY <1>1, SameBlob
<1>3. CASE ~Getting'
    BY <1>1, <1>2, <1>3, BufRests
<1>4. CASE Getting'
    <2>1. pc' \in Loading /\ target' \in Nat
        <3>1. target' \in 0..MaxPages
            BY DEF Typed, StateOK
        <3>2. target' \in Nat
            BY <3>1, SizeAssumption, SMT
        <3> QED BY <1>4, <3>2 DEF Getting, Loading
    <2>2. \A r \in Kept' \cup {etag'} : \A p \in Unchanged(r) : p <= target'
        BY <1>2, <2>1 DEF Typed, Within
    <2>3. todo' = Pages(Blob) \/ todo' = 1..target'
        <3>1. CASE \E m \in Modes : Open(m)
            BY <1>4, <3>1 DEF Open, Reuse, TryDiff, StartDownload, Getting
        <3>2. CASE DiffFail
            BY <1>4, <3>2 DEF DiffFail, Getting
        <3>3. CASE Stale
            BY <3>3 DEF Stale
        <3> QED BY <3>1, <3>2, <3>3
    <2>4. \A r : Unchanged(r) \cap 1..target' \subseteq todo'
        BY <2>3 DEF Unchanged
    <2> QED BY <1>1, <2>1, <2>2, <2>4, BufStarts
<1> QED BY <1>3, <1>4

\* The other steps: no whole download is under way when they are done.
LEMMA BufOthers ==
    ASSUME Typed, BufInv,
           \/ DiffList \/ DiffPage \/ DiffDone
           \/ Download \/ DownloadFirst \/ DownloadFail
           \/ Refresh \/ RefreshFail
           \/ \E p \in Page : Read(p) \/ Write(p)
           \/ \E p, q \in Page : p <= q /\ Prefetch(p, q)
           \/ Reserve \/ Sync \/ Release \/ SyncDone \/ SnapshotCreate
           \/ CloseHead \/ CloseState \/ CloseEtag \/ CloseSnap
           \/ Crash
    PROVE  BufInv'
<1> USE DEF blobVars, fileVars, memVars
<1>1. UNCHANGED <<hist, pageSize>> /\ tempBuf' \in {tempBuf, NoBuf} /\ pc' \notin {"refresh", "download"}
    <2>1. CASE DiffList \/ DiffPage \/ DiffDone
        BY <2>1 DEF DiffList, DiffPage, DiffDone
    <2>2. CASE Download \/ DownloadFirst \/ DownloadFail
        BY <2>2 DEF Download, DownloadFirst, DownloadFail
    <2>3. CASE Refresh \/ RefreshFail
        BY <2>3 DEF Refresh, RefreshFail
    <2>4. CASE \E p \in Page : Read(p) \/ Write(p)
        BY <2>4 DEF Read, Write
    <2>5. CASE \E p, q \in Page : p <= q /\ Prefetch(p, q)
        BY <2>5 DEF Prefetch
    <2>6. CASE Reserve \/ Sync \/ Release \/ SyncDone \/ SnapshotCreate
        BY <2>6 DEF Reserve, Sync, Release, SyncDone, SnapshotCreate
    <2>7. CASE CloseHead \/ CloseState \/ CloseEtag \/ CloseSnap
        BY <2>7 DEF CloseHead, CloseState, CloseEtag, CloseSnap
    <2>8. CASE Crash
        BY <2>8 DEF Crash
    <2> QED BY <2>1, <2>2, <2>3, <2>4, <2>5, <2>6, <2>7, <2>8
<1>2. Version' = Version
    BY <1>1, SameBlob
<1>3. ~Getting'
    BY <1>1 DEF Getting
<1> QED BY <1>1, <1>2, <1>3, BufRests DEF BufInv

\* One page of a flush.
LEMMA BufPut ==
    ASSUME Typed, Typed', BufInv, NEW p \in Page, Put(p)
    PROVE  BufInv'
<1>1. UNCHANGED <<pageSize, tempBuf>> /\ pc' = "flush" /\ Version + 1 \in acks'
    BY DEF Put
<1>2. Version + 1 \in 1..Version' /\ Version \in Nat /\ Version' \in Nat
    <2>1. Version' \in Nat
        BY BoundsAssumption, SMT DEF Typed, HistOK
    <2> QED BY <1>1, <2>1, Basics DEF Typed, StateOK
<1>3. 0..Version \subseteq 0..Version'
    <2> DEFINE a == Version
               b == Version'
    <2>1. a + 1 \in 1..b /\ a \in Nat /\ b \in Nat
        BY <1>2
    <2> HIDE DEF a, b
    <2>2. 0..a \subseteq 0..b
        BY <2>1, SMT
    <2> QED BY <2>2 DEF a, b
<1>4. ~Getting'
    BY <1>1 DEF Getting
<1> QED BY <1>1, <1>3, <1>4, BufRests DEF BufInv

\* Nothing happens.
LEMMA BufStutter ==
    ASSUME BufInv, UNCHANGED vars
    PROVE  BufInv'
<1>1. UNCHANGED <<hist, pageSize, tempBuf, todo, pc, mode, etag, fSnap, fEtag, snap>>
    BY DEF vars, blobVars, fileVars, memVars
<1>2. Version' = Version /\ Blob' = Blob /\ \A r : Unchanged(r)' = Unchanged(r)
    BY <1>1, SameBlob
<1>3. Getting' = Getting /\ Kept' = Kept
    BY <1>1 DEF Getting, Kept
<1> QED BY <1>1, <1>2, <1>3 DEF BufInv, BufOK, GetInv

\* Every step preserves what is said of the buffer.
LEMMA BufNext ==
    ASSUME Typed, BufInv, Typed', [Next]_vars
    PROVE  BufInv'
<1>1. CASE UNCHANGED vars
    BY <1>1, BufStutter
<1>2. CASE \E n \in Page : \E S \in SUBSET (1..n) : Commit(n, S)
    BY <1>2, BufCommit
<1>3. CASE (\E m \in Modes : Open(m)) \/ DiffFail \/ Stale
    BY <1>3, BufBegins
<1>4. CASE GetChunk
    BY <1>4, BufGetChunk
<1>5. CASE \E p \in Page : Put(p)
    BY <1>5, BufPut
<1> QED BY <1>1, <1>2, <1>3, <1>4, <1>5, BufOthers DEF Next

\* Every step preserves the invariant.
LEMMA IInvNext ==
    ASSUME IInv, [Next]_vars
    PROVE  IInv'
<1>1. CacheInv'
    BY CacheNext DEF IInv
<1> QED BY <1>1, BufNext DEF IInv, CacheInv

(***************************************************************************)
(* Every state of the cache file and its sidecars satisfies the inductive  *)
(* invariant, for every blob size, number of versions and failed requests. *)
(***************************************************************************)
THEOREM Invariance == Spec => []IInv
<1>1. Init => IInv
    BY IInvInit
<1>2. IInv /\ [Next]_vars => IInv'
    BY IInvNext
<1> QED BY <1>1, <1>2, PTL DEF Spec

\* The variables keep their types: xOpen, xWrite, xSync and xClose leave no
\* sidecar file, bitmap or cache file out of its range.
THEOREM TypeCorrect == Spec => []TypeOK
<1>1. IInv => TypeOK
    BY TypedOK DEF IInv, CacheInv, BufInv
<1> QED BY <1>1, Invariance, PTL

\* The invariant implies ReuseCoherent.
LEMMA Coherent ==
    ASSUME IInv
    PROVE  ReuseCoherent
<1> SUFFICES ASSUME pc = "open", etag = Version, taint = {}
             PROVE  FileMatches
    BY DEF ReuseCoherent, Accepted
<1>1. Typed /\ Clean
    BY DEF IInv, CacheInv
<1>2. Len(file) = Len(Blob)
    BY <1>1 DEF Clean, SizeInv, Resting
<1>3. Agrees(etag)
    BY <1>1 DEF Clean, OnDiskInv, Refs, Resting, Typed, Phase
<1>4. \A p \in Pages(Blob) : Holds(p)
    BY <1>3 DEF Agrees, Unchanged, Blob
<1>5. Pages(file) = Pages(Blob) /\ Pages(file) \subseteq Page
    BY <1>1, <1>2, Basics DEF Pages
<1>6. \A p \in Page : mode = "all" \/ p \in valid => p \in Strict
    BY DEF Strict
<1> QED BY <1>2, <1>4, <1>5, <1>6 DEF FileMatches, Holds

(***************************************************************************)
(* A session that revalidation accepts by its ETag reads the blob's pages, *)
(* whatever earlier sessions left in the cache file and its sidecars: the  *)
(* reuse and the diff of xOpen, downloads, refreshes, the lazy cache and   *)
(* the order in which xSync and xClose write .state, .etag and .snapshot.  *)
(***************************************************************************)
THEOREM Coherence == Spec => []ReuseCoherent
<1>1. IInv => ReuseCoherent
    BY Coherent
<1> QED BY <1>1, Invariance, PTL
=============================================================================

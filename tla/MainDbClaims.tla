---------------------------- MODULE MainDbClaims ----------------------------
(***************************************************************************)
(* What the repository's documents say of readers and the code does not    *)
(* keep.  `seen' records every content that the blob has had.              *)
(***************************************************************************)
EXTENDS MainDb, TLC

VARIABLE seen

SeenInit == Init /\ seen = {<<bSize, bData>>}
SeenNext == Next /\ seen' = seen \cup {<<bSize', bData'>>}
SeenSpec == SeenInit /\ [][SeenNext]_<<vars, seen>>

PageChunks == {{p} : p \in Page}

\* The pager may read, and has written nothing.
Reading(c) == pc[c] = "idle" /\ eLock[c] = SHARED /\ dirty[c] = {}

(***************************************************************************)
(* "Snapshot Isolation: Once SQLite reads under SHARED lock, all pages     *)
(* from same blob version (ETag)": what a reader has in its cache file is  *)
(* a content that the blob had at some moment.  The requests of            *)
(* page_blob_read_multi carry no condition on the version.                 *)
(***************************************************************************)
SnapshotOfOneVersion ==
    \A c \in Conn : Reading(c) /\ taint[c] = {} => <<nData[c], cache[c]>> \in seen

=============================================================================

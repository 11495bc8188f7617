---------------------------- MODULE MCCacheReuse ----------------------------
(* What the repository says of the persistent cache and the code does not  *)
(* keep; and the instances of CacheReuse for TLC.                          *)
EXTENDS CacheReuse

\* Only the versions that a snapshot keeps matter beside the last one, the
\* variables of a call only while it runs, and whether there is a reason for
\* the file to differ from its ETag, not which.
View == <<Version, pageSize, [v \in {Version, snap, fSnap} \ {No} |-> hist[v]],
          fileVars, pc, etag, snap, valid, dirty, todo, faults, fresh, taint = {},
          IF pc = "closed" THEN "all" ELSE mode,
          tempBuf, IF pc \in {"diff", "patch", "download", "refresh"} THEN target ELSE 0,
          IF pc = "flush" THEN acks ELSE {}>>

(***************************************************************************)
(* "Crash safety: ... On crash, next open sees no sidecar -> full          *)
(* download. No data corruption path": a session that opens after a crash  *)
(* reads the blob's pages.                                                 *)
(***************************************************************************)
CrashSafe == Accepted({"crash"}) => FileMatches

(***************************************************************************)
(* "lazy xRead fetches from Azure only for invalid pages and serves valid  *)
(* pages from cache": a page that was written stays as it was written      *)
(* until it has reached the blob.                                          *)
(***************************************************************************)
WritesKept == pc = "write" => \A p \in dirty : file[p] = New
=============================================================================

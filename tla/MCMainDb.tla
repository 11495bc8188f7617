------------------------------ MODULE MCMainDb ------------------------------
(* Small instances of MainDb for TLC. *)
EXTENDS MainDb, TLC

Symmetry == Permutations(Conn)

\* One GET for the whole blob, and one GET for every page.
OneChunk == {Page}
PageChunks == {{p} : p \in Page}

\* No database yet, or one of one page.
NoneOrOne == {NoBlob, 1}

(***************************************************************************)
(* ETags are only ever compared for equality with the blob's and with the  *)
(* empty one, so states that differ only in how old a stale ETag is behave *)
(* alike.                                                                  *)
(***************************************************************************)
EtagClass(e) == IF e = NoEtag THEN "none" ELSE IF e = bEtag THEN "current" ELSE "stale"

View == <<Exists, bSize, bData, holder, lapsed, pc, lockVars, cache, nData, synced, dirty,
          todo, buf, want, req, envVars, taint,
          [c \in Conn |-> <<EtagClass(etag[c]), EtagClass(ret[c])>>]>>
=============================================================================

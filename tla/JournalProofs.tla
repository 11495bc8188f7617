--------------------------- MODULE JournalProofs ---------------------------
(***************************************************************************)
(* Journal implements AtomicCommit, and its commits are durable, for any   *)
(* number of connections, processes, pages, transactions and faults.       *)
(***************************************************************************)
EXTENDS Journal, TLAPS

\* Most leaves are first-order; a leaf that needs arithmetic or equality of
\* functions cites SMT.
USE Zenon

\* The assumptions on a deployment, which no step changes.
NoExpiry == "expiry" \notin layout.faulty
NoTruncate == "truncate" \notin layout.modes
Orderly == NoTruncate /\ ~layout.pastWriters

Owns(c) == phase[c] \in {"play", "tx", "undo"}
Live(c) == phase[c] = "tx" /\ pc[c] \in {"upload", "put", "finalise"}

-----------------------------------------------------------------------------
(* Locks and flushes. *)

PcOfPhase(c) ==
    /\ phase[c] = "none" => pc[c] \in {"idle", "reading"}
    /\ phase[c] = "check" => pc[c] \in {"access", "seed", "reserved", "open", "openSeed", "get", "hotLock"}
    /\ phase[c] = "play" => pc[c] \in {"access", "seed", "open", "openSeed", "get", "upload", "put", "finalise", "unlock"}
    /\ phase[c] = "tx" => pc[c] \in {"open", "openSeed", "get", "begin", "upload", "put", "finalise", "unlock"}
    /\ phase[c] = "undo" => pc[c] \in {"put", "finalise", "unlock"}

\* A transaction starts over the page blob, and what its flush has written,
\* or need not write, is there.
Flushes(c) ==
    /\ phase[c] = "tx" /\ pc[c] \in {"open", "openSeed", "get", "begin"} => cache[c] = db
    /\ Live(c) => \A p \in Page \ todo[c] : db[p] = cache[c][p]
    /\ pc[c] = "finalise" => todo[c] = {}

ConnLock(c) == PcOfPhase(c) /\ (Owns(c) => holder = c) /\ Flushes(c)

LockInv == \A c \in Conn : ConnLock(c)

-----------------------------------------------------------------------------
(* The journal. *)

\* A transaction and its journal.
TxInv(c) ==
    /\ phase[c] = "tx" /\ pc[c] \in {"open", "openSeed", "get", "begin", "upload"} => Recoverable = db
    /\ Live(c) =>
         /\ Entries(jBuf[c]) # {}
         /\ todo[c] \subseteq Entries(jBuf[c])
         /\ \A p \in Page : cache[c][p] = IF jBuf[c][p] # None THEN nTx ELSE db[p]
         /\ \A p \in Page : Recoverable[p] < nTx
         /\ \A p \in Page : jBuf[c][p] # None => jBuf[c][p] = Recoverable[p]
    /\ Live(c) /\ pc[c] # "upload" =>
         /\ jBlob = jBuf[c]
         /\ procOf[c] \in layout.tracked => state[procOf[c]] = 1
    /\ Live(c) /\ pc[c] = "upload" =>
         /\ \A p \in Page : \A d \in Conn \ {c} : cache[d][p] < nTx

\* A rollback, of a hot journal or of the connection's own transaction.
PlayInv(c) ==
    /\ phase[c] = "play" /\ pc[c] \in {"access", "seed", "open", "openSeed", "get"} => cache[c] = db
    /\ phase[c] = "play" /\ pc[c] \in {"seed", "openSeed"} => found[c] = jExists
    /\ phase[c] \in {"play", "undo"} /\ pc[c] \in {"upload", "put", "finalise"} =>
         /\ cache[c] = Recoverable
         /\ \A p \in Page \ todo[c] : db[p] = Recoverable[p]
    /\ phase[c] = "play" /\ pc[c] = "upload" => jBuf[c] = jBlob
    /\ phase[c] = "play" /\ pc[c] = "unlock" => cache[c] = Recoverable

\* The page p of c's cache file is not what the blob holds, and never will be.
Dead(c, p) ==
    /\ cache[c][p] # Recoverable[p]
    /\ cache[c][p] # db[p]
    /\ \A d \in Conn : Live(d) => cache[d][p] # cache[c][p]

\* c has looked for a journal and found none.
Cleared(c) ==
    \/ phase[c] = "check" /\ pc[c] \in {"seed", "openSeed"} /\ ~found[c]
    \/ pc[c] = "reading" /\ c \notin past

\* Its cache file is what recovery finds, or RESERVED will be refused.
Current(c) == cache[c] = Recoverable \/ \E p \in Page : Dead(c, p)

ConnInv(c) ==
    /\ TxInv(c)
    /\ PlayInv(c)
    /\ Cleared(c) => Current(c)

Bounded ==
    /\ nTx <= MaxTx
    /\ \A p \in Page : db[p] <= nTx /\ Recoverable[p] <= nTx
    /\ \A p \in Page : \A c \in Conn : cache[c][p] <= nTx

TableInv ==
    /\ \A r \in Proc : r \notin layout.tracked => state[r] = Unknown
    /\ \A c \in Conn : state[procOf[c]] = 0 => Recoverable = db

Core ==
    /\ jBlob # Empty => jExists
    /\ Bounded
    /\ TableInv
    /\ \A c \in Conn : ConnInv(c)

IInv ==
    /\ TypeOK
    /\ NoExpiry => LockInv
    /\ Reliable /\ Orderly => Core

-----------------------------------------------------------------------------
(* What a step does to the connection that takes it. *)

LocalOK ==
    /\ holder \in Conn \cup {NoLease, Lost}
    /\ pc \in [Conn -> PC]
    /\ phase \in [Conn -> Phase]
    /\ cache \in [Conn -> [Page -> Nat]]
    /\ jBuf \in [Conn -> [Page -> Nat \cup {None}]]
    /\ todo \in [Conn -> SUBSET Page]
    /\ past \subseteq Conn

\* The others keep what they have.
Kept(d) ==
    /\ pc'[d] = pc[d] /\ phase'[d] = phase[d] /\ cache'[d] = cache[d]
    /\ jBuf'[d] = jBuf[d] /\ todo'[d] = todo[d] /\ (d \in past' <=> d \in past)

\* The new values of c's variables.
Becomes(c, pcv, phasev, cachev, jBufv, todov) ==
    /\ LocalOK'
    /\ pc'[c] = pcv /\ phase'[c] = phasev /\ cache'[c] = cachev
    /\ jBuf'[c] = jBufv /\ todo'[c] = todov
    /\ \A d \in Conn \ {c} : Kept(d)

Moves(c, next) ==
    /\ Becomes(c, next, phase[c], cache[c], jBuf[c], todo[c])
    /\ holder' = holder /\ past' = past

Leaves(c) ==
    /\ Becomes(c, "idle", "none", Blank, Empty, {})
    /\ holder' = Release(c) /\ past' = past \ {c}

StartsReading(c) ==
    /\ Becomes(c, "reading", "none", cache[c], Empty, todo[c])
    /\ holder' = Release(c)
    /\ past' = IF pc[c] = "reserved" THEN past \cup {c} ELSE past

Undoes(c, next, todov) ==
    /\ Becomes(c, next, "undo", Undo(jBuf[c], cache[c]), jBuf[c], todov)
    /\ holder' = holder /\ past' = past

(***************************************************************************)
(* The step to the next label, of any handler.                             *)
(***************************************************************************)
LEMMA MovesEffect ==
    ASSUME TypeOK, NEW c \in Conn, NEW next \in PC, GoTo(c, next),
           UNCHANGED <<holder, phase, cache, jBuf, todo, past>>
    PROVE  Moves(c, next)
BY DEF TypeOK, GoTo, Moves, Becomes, Kept, LocalOK

(***************************************************************************)
(* The pager's unlock.                                                     *)
(***************************************************************************)
LEMMA LeaveEffect ==
    ASSUME TypeOK, NEW c \in Conn, Leave(c)
    PROVE  Leaves(c)
<1>1. "idle" \in PC /\ "none" \in Phase /\ Blank \in [Page -> Nat] /\ Empty \in [Page -> Nat \cup {None}]
    BY DEF PC, Phase, Blank, Empty
<1> QED BY <1>1 DEF TypeOK, Leave, GoTo, Release, Leaves, Becomes, Kept, LocalOK

(***************************************************************************)
(* The end of the search for a journal.                                    *)
(***************************************************************************)
LEMMA StartReadingEffect ==
    ASSUME TypeOK, NEW c \in Conn, StartReading(c)
    PROVE  StartsReading(c)
<1>1. "reading" \in PC /\ "none" \in Phase /\ Empty \in [Page -> Nat \cup {None}]
    BY DEF PC, Phase, Empty
<1> QED BY <1>1 DEF TypeOK, StartReading, GoTo, Release, StartsReading, Becomes, Kept, LocalOK

(***************************************************************************)
(* What Undo makes of a journal and a file.                                *)
(***************************************************************************)
LEMMA UndoType ==
    ASSUME NEW j \in [Page -> Nat \cup {None}], NEW d \in [Page -> Nat]
    PROVE  /\ Undo(j, d) \in [Page -> Nat]
           /\ \A p \in Page : Undo(j, d)[p] = IF j[p] # None THEN j[p] ELSE d[p]
BY DEF Undo, None

(***************************************************************************)
(* A rollback from the buffer begins.                                      *)
(***************************************************************************)
LEMMA DiscardEffect ==
    ASSUME TypeOK, NEW c \in Conn, Discard(c)
    PROVE  Undoes(c, "finalise", {})
<1>1. "finalise" \in PC /\ "undo" \in Phase /\ Undo(jBuf[c], cache[c]) \in [Page -> Nat]
    BY UndoType DEF PC, Phase, TypeOK
<1> QED BY <1>1 DEF TypeOK, Discard, GoTo, Undoes, Becomes, Kept, LocalOK

(***************************************************************************)
(* The pager's answer to an error of a flush.                              *)
(***************************************************************************)
LEMMA PlayBackEffect ==
    ASSUME TypeOK, NEW c \in Conn, PlayBack(c)
    PROVE  \/ phase[c] = "tx" /\ Undoes(c, "put", Entries(jBuf[c]))
           \/ phase[c] # "tx" /\ Leaves(c)
<1>1. "put" \in PC /\ "undo" \in Phase /\ Undo(jBuf[c], cache[c]) \in [Page -> Nat]
    BY UndoType DEF PC, Phase, TypeOK
<1>2. Entries(jBuf[c]) \subseteq Page
    BY DEF Entries
<1>3. CASE phase[c] # "tx"
    BY <1>3, LeaveEffect DEF PlayBack
<1>4. CASE phase[c] = "tx"
    <2>1. /\ phase' = [phase EXCEPT ![c] = "undo"]
          /\ cache' = [cache EXCEPT ![c] = Undo(jBuf[c], cache[c])]
          /\ todo' = [todo EXCEPT ![c] = Entries(jBuf[c])]
          /\ pc' = [pc EXCEPT ![c] = "put"]
          /\ holder' = holder /\ jBuf' = jBuf /\ past' = past
        BY <1>4 DEF PlayBack, GoTo, TypeOK
    <2>2. Undoes(c, "put", Entries(jBuf[c]))
        BY <1>1, <1>2, <2>1 DEF TypeOK, Undoes, Becomes, Kept, LocalOK
    <2> QED BY <1>4, <2>2
<1> QED BY <1>3, <1>4

(***************************************************************************)
(* What the pager does with the answer of xAccess.                         *)
(***************************************************************************)
LEMMA AccessedEffect ==
    ASSUME TypeOK, NEW c \in Conn, NEW exists \in BOOLEAN, Accessed(c, exists)
    PROVE  \/ exists /\ phase[c] = "check" /\ Moves(c, "reserved")
           \/ exists /\ phase[c] = "play" /\ Moves(c, "open")
           \/ ~exists /\ StartsReading(c)
<1>1. "reserved" \in PC /\ "open" \in PC
    BY DEF PC
<1> QED BY <1>1, MovesEffect, StartReadingEffect DEF Accessed

\* xOpen of a journal whose content is j.
Opens(c, j) ==
    \/ phase[c] = "check" /\ Entries(j) # {} /\ Moves(c, "hotLock")
    \/ phase[c] = "check" /\ Entries(j) = {} /\ StartsReading(c)
    \/ /\ phase[c] = "play"
       /\ Becomes(c, IF Entries(j) = {} THEN "put" ELSE "upload", "play",
                  Undo(j, cache[c]), j, Entries(j))
       /\ holder' = holder /\ past' = past
    \/ phase[c] = "tx" /\ Moves(c, "begin")

(***************************************************************************)
(* xOpen of the journal, by what the pager opens it for.                   *)
(***************************************************************************)
LEMMA OpenedEffect ==
    ASSUME TypeOK, NEW c \in Conn, NEW j \in [Page -> Nat \cup {None}], Opened(c, j)
    PROVE  Opens(c, j)
<1>1. "hotLock" \in PC /\ "begin" \in PC /\ "put" \in PC /\ "upload" \in PC
    BY DEF PC
<1>2. CASE phase[c] = "check" /\ Entries(j) # {}
    BY <1>1, <1>2, MovesEffect DEF Opened, Opens
<1>3. CASE phase[c] = "check" /\ Entries(j) = {}
    BY <1>3, StartReadingEffect DEF Opened, Opens
<1>4. CASE phase[c] = "tx"
    BY <1>1, <1>4, MovesEffect DEF Opened, Opens
<1>5. CASE phase[c] = "play"
    <2>1. /\ Undo(j, cache[c]) \in [Page -> Nat]
          /\ Entries(j) \subseteq Page
        BY UndoType DEF TypeOK, Entries
    <2>2. /\ jBuf' = [jBuf EXCEPT ![c] = j]
          /\ cache' = [cache EXCEPT ![c] = Undo(j, cache[c])]
          /\ todo' = [todo EXCEPT ![c] = Entries(j)]
          /\ pc' = [pc EXCEPT ![c] = IF Entries(j) = {} THEN "put" ELSE "upload"]
          /\ holder' = holder /\ phase' = phase /\ past' = past
        BY <1>5 DEF Opened, GoTo, TypeOK
    <2>3. Becomes(c, IF Entries(j) = {} THEN "put" ELSE "upload", "play",
                  Undo(j, cache[c]), j, Entries(j))
        BY <1>1, <1>5, <2>1, <2>2 DEF TypeOK, Becomes, Kept, LocalOK
    <2> QED BY <1>5, <2>2, <2>3 DEF Opens
<1> QED BY <1>2, <1>3, <1>4, <1>5 DEF Opened

(***************************************************************************)
(* The actions that are not made of these: what they do to c, one by one.  *)
(***************************************************************************)
LEMMA LockSharedEffect ==
    ASSUME TypeOK, NEW c \in Conn, LockShared(c)
    PROVE  /\ Becomes(c, "access", "check", db, jBuf[c], todo[c])
           /\ holder' = holder /\ past' = past
<1>1. "access" \in PC /\ "check" \in Phase
    BY DEF PC, Phase
<1> QED BY <1>1 DEF TypeOK, LockShared, GoTo, blobVars, Becomes, Kept, LocalOK

(***************************************************************************)
(* xLock EXCLUSIVE for a rollback.                                         *)
(***************************************************************************)
LEMMA HotLockEffect ==
    ASSUME TypeOK, NEW c \in Conn, HotLock(c)
    PROVE  \/ /\ holder = NoLease /\ holder' = c /\ past' = past
              /\ Becomes(c, "access", "play", db, jBuf[c], todo[c])
           \/ Leaves(c)
<1>1. "access" \in PC /\ "play" \in Phase
    BY DEF PC, Phase
<1>2. CASE holder = NoLease
    <2>1. /\ holder' = c /\ cache' = [cache EXCEPT ![c] = db]
          /\ phase' = [phase EXCEPT ![c] = "play"] /\ pc' = [pc EXCEPT ![c] = "access"]
          /\ jBuf' = jBuf /\ todo' = todo /\ past' = past
        BY <1>2 DEF HotLock, GoTo
    <2> QED BY <1>1, <1>2, <2>1 DEF TypeOK, Becomes, Kept, LocalOK
<1>3. CASE holder # NoLease
    BY <1>3, LeaveEffect DEF HotLock
<1> QED BY <1>2, <1>3

(***************************************************************************)
(* xLock RESERVED.                                                         *)
(***************************************************************************)
LEMMA ReserveEffect ==
    ASSUME TypeOK, NEW c \in Conn, Reserve(c)
    PROVE  /\ Becomes(c, "open", "tx", cache[c], jBuf[c], todo[c])
           /\ holder' = c /\ past' = past
<1>1. "open" \in PC /\ "tx" \in Phase
    BY DEF PC, Phase
<1> QED BY <1>1 DEF TypeOK, Reserve, GoTo, Becomes, Kept, LocalOK

(***************************************************************************)
(* The pages of a transaction.                                             *)
(***************************************************************************)
LEMMA WriteEffect ==
    ASSUME TypeOK, NEW c \in Conn, NEW S \in SUBSET Page, Write(c, S)
    PROVE  /\ Becomes(c, "upload", phase[c],
                      [p \in Page |-> IF p \in S THEN nTx + 1 ELSE cache[c][p]],
                      [p \in Page |-> IF p \in S THEN cache[c][p] ELSE None], S)
           /\ holder' = holder /\ past' = past
<1>1. "upload" \in PC
    BY DEF PC
<1>2. /\ [p \in Page |-> IF p \in S THEN nTx + 1 ELSE cache[c][p]] \in [Page -> Nat]
      /\ [p \in Page |-> IF p \in S THEN cache[c][p] ELSE None] \in [Page -> Nat \cup {None}]
    BY SMT DEF TypeOK
<1> DEFINE new == [p \in Page |-> IF p \in S THEN nTx + 1 ELSE cache[c][p]]
           old == [p \in Page |-> IF p \in S THEN cache[c][p] ELSE None]
<1>3. /\ cache' = [cache EXCEPT ![c] = new] /\ jBuf' = [jBuf EXCEPT ![c] = old]
      /\ todo' = [todo EXCEPT ![c] = S] /\ pc' = [pc EXCEPT ![c] = "upload"]
      /\ holder' = holder /\ past' = past /\ phase' = phase
    BY DEF TypeOK, Write, GoTo, blobVars
<1>4. new \in [Page -> Nat] /\ old \in [Page -> Nat \cup {None}]
    BY <1>2
<1> HIDE DEF new, old
<1>5. Becomes(c, "upload", phase[c], new, old, S) /\ holder' = holder /\ past' = past
    BY <1>1, <1>3, <1>4 DEF TypeOK, Becomes, Kept, LocalOK
<1> QED BY <1>5 DEF new, old

(***************************************************************************)
(* xSync of the journal, its end, and the end of the flush.                *)
(***************************************************************************)
LEMMA UploadEffect ==
    ASSUME TypeOK, NEW c \in Conn
    PROVE  /\ Upload(c) => Moves(c, "put")
           /\ Flushed(c) => Moves(c, "finalise")
           /\ \A mode : Finalise(c, mode) => Moves(c, "unlock")
<1>1. "put" \in PC /\ "finalise" \in PC /\ "unlock" \in PC
    BY DEF PC
<1>2. Upload(c) => Moves(c, "put")
    BY <1>1, MovesEffect DEF Upload
<1>3. Flushed(c) => Moves(c, "finalise")
    BY <1>1, MovesEffect DEF Flushed, blobVars
<1>4. ASSUME NEW mode, Finalise(c, mode) PROVE Moves(c, "unlock")
    BY <1>1, <1>4, MovesEffect DEF Finalise
<1> QED BY <1>2, <1>3, <1>4

(***************************************************************************)
(* One page of the flush.                                                  *)
(***************************************************************************)
LEMMA PutEffect ==
    ASSUME TypeOK, NEW c \in Conn, Put(c)
    PROVE  /\ holder' = holder /\ past' = past
           /\ \E p \in todo[c] :
                /\ Becomes(c, "put", phase[c], cache[c], jBuf[c], todo[c] \ {p})
                /\ \A q \in Page : db'[q] = IF q = p THEN cache[c][p] ELSE db[q]
<1>1. PICK p \in todo[c] : db' = [db EXCEPT ![p] = cache[c][p]] /\ todo' = [todo EXCEPT ![c] = @ \ {p}]
    BY DEF Put
<1>2. Becomes(c, "put", phase[c], cache[c], jBuf[c], todo[c] \ {p})
    BY <1>1 DEF TypeOK, Put, Becomes, Kept, LocalOK
<1>3. \A q \in Page : db'[q] = IF q = p THEN cache[c][p] ELSE db[q]
    BY <1>1 DEF TypeOK
<1> QED BY <1>1, <1>2, <1>3 DEF Put

-----------------------------------------------------------------------------
(* Types. *)

\* The types of what connections share; LocalOK has the rest.
SharedOK ==
    /\ layout \in Layout
    /\ db \in [Page -> Nat]
    /\ jExists \in BOOLEAN
    /\ jBlob \in [Page -> Nat \cup {None}]
    /\ state \in [Proc -> {Unknown, 0, 1}]
    /\ overtaken \in BOOLEAN
    /\ found \in [Conn -> BOOLEAN]
    /\ nTx \in Nat /\ faults \in Nat

(***************************************************************************)
(* What the helpers on table, journal and faults give.                     *)
(***************************************************************************)
LEMMA TableTypes ==
    ASSUME TypeOK, NEW c \in Conn
    PROVE  /\ procOf[c] \in Proc
           /\ \A s \in {0, 1} : SetState(c, s) => state' \in [Proc -> {Unknown, 0, 1}]
           /\ StoreAnswer(c) => state' \in [Proc -> {Unknown, 0, 1}] /\ overtaken' \in BOOLEAN
           /\ \A kind : Fault(kind) => faults' \in Nat
<1>1. procOf[c] \in Proc
    BY DEF TypeOK, Layout, procOf
<1>2. \A s \in {0, 1} : SetState(c, s) => state' \in [Proc -> {Unknown, 0, 1}]
    BY <1>1 DEF TypeOK, SetState
<1>3. Bit(found[c]) \in {0, 1}
    BY DEF Bit
<1>4. StoreAnswer(c) => state' \in [Proc -> {Unknown, 0, 1}] /\ overtaken' \in BOOLEAN
    BY <1>2, <1>3 DEF StoreAnswer
<1>5. \A kind : Fault(kind) => faults' \in Nat
    BY SMT DEF TypeOK, Fault
<1> QED BY <1>1, <1>2, <1>4, <1>5

(***************************************************************************)
(* Every variable of Journal stays in its type.                            *)
(***************************************************************************)
LEMMA TypeStep == TypeOK /\ [Next]_vars => TypeOK'
<1> SUFFICES ASSUME TypeOK, [Next]_vars PROVE LocalOK' /\ SharedOK'
    BY DEF TypeOK, LocalOK, SharedOK
<1>0. LocalOK /\ SharedOK /\ Empty \in [Page -> Nat \cup {None}]
    BY DEF TypeOK, LocalOK, SharedOK, Empty
<1>a. ASSUME NEW c \in Conn,
             \/ \E next : Moves(c, next)
             \/ \E next, t : Undoes(c, next, t)
             \/ Leaves(c) \/ StartsReading(c)
             \/ \E j : Opens(c, j)
      PROVE  LocalOK'
    BY <1>a DEF Moves, Undoes, Leaves, StartsReading, Opens, Becomes
<1>1. CASE UNCHANGED vars
    BY <1>0, <1>1 DEF vars, blobVars, tableVars, connVars, LocalOK, SharedOK
<1>2. CASE Expire
    BY <1>0, <1>2, SMT DEF Expire, Fault, tableVars, connVars, LocalOK, SharedOK
<1>3. ASSUME NEW r \in Proc, Crash(r) PROVE LocalOK' /\ SharedOK'
    BY <1>0, <1>3 DEF Crash, Blank, Empty, LocalOK, SharedOK, PC, Phase
<1>4. ASSUME NEW c \in Conn, LockShared(c) PROVE LocalOK' /\ SharedOK'
    BY <1>0, <1>4 DEF LockShared, GoTo, blobVars, tableVars, LocalOK, SharedOK, PC, Phase
<1>5. ASSUME NEW c \in Conn, Access(c) PROVE LocalOK' /\ SharedOK'
    <2>1. faults' \in Nat /\ found' \in [Conn -> BOOLEAN]
        BY <1>0, <1>5, TableTypes DEF Access, SharedOK
    <2>2. SharedOK'
        BY <1>0, <1>5, <2>1 DEF Access, SharedOK, tableVars
    <2>3. \/ \E exists \in BOOLEAN : Accessed(c, exists)
          \/ GoTo(c, "seed") /\ UNCHANGED <<holder, phase, cache, jBuf, todo, past>>
        BY <1>5 DEF Access
    <2>4. "seed" \in PC
        BY DEF PC
    <2> QED BY <1>a, <2>2, <2>3, <2>4, AccessedEffect, MovesEffect
<1>6. ASSUME NEW c \in Conn, Seed(c) PROVE LocalOK' /\ SharedOK'
    <2>1. SharedOK'
        BY <1>0, <1>6, TableTypes DEF Seed, SharedOK
    <2>2. found[c] \in BOOLEAN /\ Accessed(c, found[c])
        BY <1>0, <1>6 DEF Seed, SharedOK
    <2> QED BY <1>a, <2>1, <2>2, AccessedEffect
<1>7. ASSUME NEW c \in Conn, CheckReserved(c) PROVE LocalOK' /\ SharedOK'
    <2>1. SharedOK'
        BY <1>0, <1>7, TableTypes DEF CheckReserved, SharedOK, tableVars
    <2>2. "open" \in PC
        BY DEF PC
    <2> QED BY <1>a, <1>7, <2>1, <2>2, StartReadingEffect, MovesEffect DEF CheckReserved
<1>8. ASSUME NEW c \in Conn, Open(c) PROVE LocalOK' /\ SharedOK'
    <2>1. faults' \in Nat /\ found' \in [Conn -> BOOLEAN]
        BY <1>0, <1>8, TableTypes DEF Open, SharedOK
    <2>2. SharedOK'
        BY <1>0, <1>8, <2>1 DEF Open, SharedOK, tableVars
    <2>3. "openSeed" \in PC
        BY DEF PC
    <2> QED BY <1>0, <1>a, <1>8, <2>2, <2>3, OpenedEffect, MovesEffect DEF Open
<1>9. ASSUME NEW c \in Conn, OpenSeed(c) PROVE LocalOK' /\ SharedOK'
    <2>1. SharedOK'
        BY <1>0, <1>9, TableTypes DEF OpenSeed, SharedOK
    <2>2. "get" \in PC
        BY DEF PC
    <2> QED BY <1>0, <1>a, <1>9, <2>1, <2>2, OpenedEffect, MovesEffect DEF OpenSeed
<1>10. ASSUME NEW c \in Conn, Get(c) PROVE LocalOK' /\ SharedOK'
    <2>1. SharedOK'
        BY <1>0, <1>10, TableTypes DEF Get, SharedOK, tableVars
    <2>2. jBlob \in [Page -> Nat \cup {None}]
        BY <1>0 DEF SharedOK
    <2> QED BY <1>0, <1>a, <1>10, <2>1, <2>2, OpenedEffect DEF Get
<1>11. ASSUME NEW c \in Conn, HotLock(c) PROVE LocalOK' /\ SharedOK'
    <2>1. CASE holder # NoLease
        BY <1>0, <1>a, <1>11, <2>1, LeaveEffect DEF HotLock, Leave, SharedOK, tableVars
    <2>2. CASE holder = NoLease
        <3>1. SharedOK'
            BY <1>0, <1>11, <2>2 DEF HotLock, SharedOK, tableVars
        <3>2. /\ holder' = c /\ cache' = [cache EXCEPT ![c] = db]
              /\ phase' = [phase EXCEPT ![c] = "play"] /\ pc' = [pc EXCEPT ![c] = "access"]
              /\ jBuf' = jBuf /\ todo' = todo /\ past' = past
            BY <1>11, <2>2 DEF HotLock, GoTo
        <3> QED BY <1>0, <3>1, <3>2 DEF LocalOK, SharedOK, PC, Phase
    <2> QED BY <2>1, <2>2
<1>12. ASSUME NEW c \in Conn, Reserve(c) PROVE LocalOK' /\ SharedOK'
    BY <1>0, <1>12 DEF Reserve, GoTo, tableVars, LocalOK, SharedOK, PC, Phase
<1>13. ASSUME NEW c \in Conn, EndRead(c) PROVE LocalOK' /\ SharedOK'
    BY <1>0, <1>a, <1>13, LeaveEffect DEF EndRead, Leave, SharedOK, tableVars
<1>14. ASSUME NEW c \in Conn, NEW S \in SUBSET Page, Write(c, S) PROVE LocalOK' /\ SharedOK'
    BY <1>0, <1>14, SMT DEF Write, GoTo, blobVars, tableVars, LocalOK, SharedOK, PC, None
<1>15. ASSUME NEW c \in Conn, Upload(c) PROVE LocalOK' /\ SharedOK'
    <2>1. SharedOK'
        BY <1>0, <1>15, TableTypes DEF Upload, JournalUploaded, SharedOK, LocalOK
    <2> QED BY <1>0, <1>15, <2>1 DEF Upload, GoTo, LocalOK, PC
<1>16. ASSUME NEW c \in Conn, UploadFail(c) PROVE LocalOK' /\ SharedOK'
    <2>1. found' = found
        BY <1>16 DEF UploadFail, Discard, Leave
    <2>2. faults' \in Nat
        BY <1>16, TableTypes DEF UploadFail
    <2>3. jExists' \in BOOLEAN /\ jBlob' \in [Page -> Nat \cup {None}]
        <3>1. jBuf[c] \in [Page -> Nat \cup {None}]
            BY <1>0 DEF LocalOK
        <3> QED BY <1>0, <1>16, <3>1 DEF UploadFail, JournalUploaded, SharedOK
    <2>4. SharedOK'
        BY <1>0, <1>16, <2>1, <2>2, <2>3 DEF UploadFail, SharedOK, tableVars
    <2> QED BY <1>a, <1>16, <2>4, DiscardEffect, LeaveEffect DEF UploadFail
<1>17. ASSUME NEW c \in Conn, Rollback(c) PROVE LocalOK' /\ SharedOK'
    BY <1>0, <1>a, <1>17, DiscardEffect DEF Rollback, Discard, SharedOK, tableVars
<1>18. ASSUME NEW c \in Conn, Put(c) PROVE LocalOK' /\ SharedOK'
    BY <1>0, <1>18, SMT DEF Put, tableVars, LocalOK, SharedOK
<1>19. ASSUME NEW c \in Conn, PutFail(c) PROVE LocalOK' /\ SharedOK'
    <2>1. found' = found
        BY <1>19 DEF PutFail, PlayBack, Leave
    <2>2. SharedOK'
        BY <1>0, <1>19, <2>1, TableTypes DEF PutFail, SharedOK, tableVars
    <2> QED BY <1>a, <1>19, <2>2, PlayBackEffect DEF PutFail
<1>20. ASSUME NEW c \in Conn, Flushed(c) PROVE LocalOK' /\ SharedOK'
    BY <1>0, <1>20 DEF Flushed, GoTo, blobVars, tableVars, LocalOK, SharedOK, PC
<1>21. ASSUME NEW c \in Conn, NEW mode \in layout.modes, Finalise(c, mode) PROVE LocalOK' /\ SharedOK'
    <2>1. Bit(mode = "persist") \in {0, 1}
        BY DEF Bit
    <2>2. state' \in [Proc -> {Unknown, 0, 1}]
        BY <1>0, <1>21, <2>1, TableTypes DEF Finalise, SharedOK
    <2>3. SharedOK'
        BY <1>0, <1>21, <2>2 DEF Finalise, JournalCold, SharedOK
    <2> QED BY <1>0, <1>21, <2>3 DEF Finalise, GoTo, LocalOK, PC
<1>22. ASSUME NEW c \in Conn, NEW mode \in layout.modes, FinaliseFail(c, mode) PROVE LocalOK' /\ SharedOK'
    <2>1. found' = found
        BY <1>22 DEF FinaliseFail, Leave
    <2>2. SharedOK'
        BY <1>0, <1>22, <2>1, TableTypes DEF FinaliseFail, JournalCold, SharedOK, tableVars
    <2> QED BY <1>a, <1>22, <2>2, LeaveEffect DEF FinaliseFail
<1>23. ASSUME NEW c \in Conn, Unlock(c) PROVE LocalOK' /\ SharedOK'
    <2>1. SharedOK'
        BY <1>0, <1>23 DEF Unlock, Leave, SharedOK, tableVars
    <2> QED BY <1>a, <1>23, <2>1, StartReadingEffect, LeaveEffect DEF Unlock
<1> QED
    BY <1>1, <1>2, <1>3, <1>4, <1>5, <1>6, <1>7, <1>8, <1>9, <1>10, <1>11, <1>12, <1>13,
       <1>14, <1>15, <1>16, <1>17, <1>18, <1>19, <1>20, <1>21, <1>22, <1>23 DEF Next

-----------------------------------------------------------------------------
(* Locks and flushes, where no lease of a live writer expires. *)

(***************************************************************************)
(* A connection that a step leaves alone keeps its locks: only an owner    *)
(* of the lease changes the page blob.                                     *)
(***************************************************************************)
LEMMA LockOthers ==
    ASSUME TypeOK, LockInv, NEW c \in Conn, NEW d \in Conn \ {c}, Kept(d),
           holder' \in {holder, Release(c)} \/ holder = NoLease,
           db' = db \/ holder = c
    PROVE  ConnLock(d)'
<1>1. ConnLock(d) /\ d # c /\ d # NoLease
    BY ConnAssumption DEF LockInv
<1>2. PcOfPhase(d)' /\ (Owns(d)' <=> Owns(d)) /\ (Live(d)' <=> Live(d))
    BY <1>1 DEF ConnLock, PcOfPhase, Owns, Live, Kept
<1>3. Owns(d) => holder = d /\ holder' = d /\ db' = db
    BY <1>1 DEF ConnLock, Release
<1>4. Live(d) \/ phase[d] = "tx" => Owns(d)
    BY DEF Live, Owns
<1>5. Flushes(d)'
    BY <1>1, <1>2, <1>3, <1>4 DEF ConnLock, Flushes, Kept
<1> QED BY <1>2, <1>3, <1>5 DEF ConnLock

(***************************************************************************)
(* A step to c that ends where locks are not held needs nothing of them.   *)
(***************************************************************************)
LEMMA LockSelf ==
    ASSUME TypeOK, NEW c \in Conn, ConnLock(c)
    PROVE  /\ Leaves(c) => ConnLock(c)'
           /\ StartsReading(c) => ConnLock(c)'
           /\ \A t : Undoes(c, "put", t) /\ Owns(c) => ConnLock(c)'
           /\ Undoes(c, "finalise", {}) /\ Owns(c) => ConnLock(c)'
BY DEF Leaves, StartsReading, Undoes, Becomes, ConnLock, PcOfPhase, Owns, Live, Flushes

\* The journal is being opened.
Opening(c) == pc[c] \in {"open", "openSeed", "get"}

(***************************************************************************)
(* xOpen and xAccess of the journal.                                       *)
(***************************************************************************)
LEMMA LockMoves ==
    ASSUME TypeOK, NEW c \in Conn, ConnLock(c), db' = db
    PROVE  /\ \A j : Opening(c) /\ Opens(c, j) => ConnLock(c)'
           /\ pc[c] = "access" /\ Moves(c, "seed") => ConnLock(c)'
           /\ pc[c] \in {"access", "seed"} /\ phase[c] = "check" /\ Moves(c, "reserved") => ConnLock(c)'
           /\ pc[c] \in {"access", "seed"} /\ phase[c] = "play" /\ Moves(c, "open") => ConnLock(c)'
           /\ pc[c] = "reserved" /\ Moves(c, "open") => ConnLock(c)'
           /\ pc[c] = "open" /\ Moves(c, "openSeed") => ConnLock(c)'
           /\ pc[c] = "openSeed" /\ Moves(c, "get") => ConnLock(c)'
           /\ pc[c] = "upload" /\ Moves(c, "put") => ConnLock(c)'
           /\ pc[c] = "put" /\ todo[c] = {} /\ Moves(c, "finalise") => ConnLock(c)'
           /\ pc[c] = "finalise" /\ Moves(c, "unlock") => ConnLock(c)'
<1>1. phase[c] \in Phase
    BY DEF TypeOK
<1> USE <1>1 DEF Opening, Moves, Becomes, ConnLock, PcOfPhase, Owns, Live, Flushes, Phase
<1>2. ASSUME NEW j, Opening(c), Opens(c, j) PROVE ConnLock(c)'
    <2>1. CASE phase[c] = "check" /\ Entries(j) = {} /\ StartsReading(c)
        BY <2>1 DEF StartsReading
    <2>2. CASE phase[c] = "check" /\ Entries(j) # {} /\ Moves(c, "hotLock")
        BY <2>2
    <2>3. CASE phase[c] = "tx" /\ Moves(c, "begin")
        BY <1>2, <2>3
    <2>4. CASE /\ phase[c] = "play"
               /\ Becomes(c, IF Entries(j) = {} THEN "put" ELSE "upload", "play",
                          Undo(j, cache[c]), j, Entries(j))
               /\ holder' = holder /\ past' = past
        BY <2>4
    <2> QED BY <1>2, <2>1, <2>2, <2>3, <2>4 DEF Opens
<1>3. pc[c] = "access" /\ Moves(c, "seed") => ConnLock(c)'
    OBVIOUS
<1>4. pc[c] \in {"access", "seed"} /\ phase[c] = "check" /\ Moves(c, "reserved") => ConnLock(c)'
    OBVIOUS
<1>5. pc[c] \in {"access", "seed"} /\ phase[c] = "play" /\ Moves(c, "open") => ConnLock(c)'
    OBVIOUS
<1>6. pc[c] = "reserved" /\ Moves(c, "open") => ConnLock(c)'
    OBVIOUS
<1>7. pc[c] = "open" /\ Moves(c, "openSeed") => ConnLock(c)'
    OBVIOUS
<1>8. pc[c] = "openSeed" /\ Moves(c, "get") => ConnLock(c)'
    OBVIOUS
<1>9. pc[c] = "upload" /\ Moves(c, "put") => ConnLock(c)'
    OBVIOUS
<1>10. pc[c] = "put" /\ todo[c] = {} /\ Moves(c, "finalise") => ConnLock(c)'
    OBVIOUS
<1>11. pc[c] = "finalise" /\ Moves(c, "unlock") => ConnLock(c)'
    OBVIOUS
<1> HIDE DEF Opening, Moves, Becomes, ConnLock, PcOfPhase, Owns, Live, Flushes, Phase
<1>12. \A j : Opening(c) /\ Opens(c, j) => ConnLock(c)'
    BY <1>2
<1> QED BY <1>12, <1>3, <1>4, <1>5, <1>6, <1>7, <1>8, <1>9, <1>10, <1>11

(***************************************************************************)
(* A step of c that is one of the effects above keeps the locks of all.    *)
(***************************************************************************)
LEMMA LockAll ==
    ASSUME TypeOK, LockInv, NEW c \in Conn, ConnLock(c)', \A d \in Conn \ {c} : Kept(d),
           holder' \in {holder, Release(c)} \/ holder = NoLease,
           db' = db \/ holder = c
    PROVE  LockInv'
<1>1. \A d \in Conn \ {c} : ConnLock(d)'
    BY LockOthers
<1> QED BY <1>1 DEF LockInv

(***************************************************************************)
(* Phases, leases and flushes agree after every step.                      *)
(***************************************************************************)
LEMMA LockStep ==
    ASSUME TypeOK, NoExpiry, LockInv, [Next]_vars
    PROVE  LockInv'
<1>0. ASSUME NEW c \in Conn PROVE ConnLock(c) /\ phase[c] \in Phase
    BY DEF LockInv, TypeOK
<1>a. ASSUME NEW c \in Conn, Leaves(c), db' = db PROVE LockInv'
    BY <1>0, <1>a, LockSelf, LockAll DEF Leaves, Becomes
<1>b. ASSUME NEW c \in Conn, StartsReading(c), db' = db PROVE LockInv'
    BY <1>0, <1>b, LockSelf, LockAll DEF StartsReading, Becomes
<1>c. ASSUME NEW c \in Conn, NEW next, Moves(c, next), ConnLock(c)', db' = db PROVE LockInv'
    BY <1>c, LockAll DEF Moves, Becomes
<1>d. ASSUME NEW c \in Conn, Owns(c), db' = db,
             (\E t : Undoes(c, "put", t)) \/ Undoes(c, "finalise", {})
      PROVE  LockInv'
    <2>1. ConnLock(c)'
        BY <1>0, <1>d, LockSelf
    <2> QED BY <1>d, <2>1, LockAll DEF Undoes, Becomes
<1>e. ASSUME NEW c \in Conn, NEW j, Opening(c), Opens(c, j), db' = db
      PROVE  LockInv'
    <2>1. ConnLock(c)'
        BY <1>0, <1>e, LockMoves
    <2>2. /\ \A d \in Conn \ {c} : Kept(d)
          /\ holder' \in {holder, Release(c)}
        BY <1>e DEF Opens, Moves, StartsReading, Becomes
    <2> QED BY <1>e, <2>1, <2>2, LockAll
<1>f. ASSUME NEW c \in Conn, NEW exists \in BOOLEAN, pc[c] \in {"access", "seed"},
             Accessed(c, exists), db' = db
      PROVE  LockInv'
    BY <1>0, <1>b, <1>c, <1>f, AccessedEffect, LockMoves
<1>1. CASE UNCHANGED vars
    <2>1. UNCHANGED <<db, holder, pc, phase, cache, todo>>
        BY <1>1 DEF vars, blobVars, connVars
    <2> QED BY <2>1 DEF LockInv, ConnLock, PcOfPhase, Owns, Live, Flushes
<1>2. CASE Expire
    <2>1. holder = Lost /\ UNCHANGED <<db, pc, phase, cache, todo>>
        BY <1>2 DEF Expire, Fault, NoExpiry, connVars
    <2>2. \A c \in Conn : ~Owns(c)
        BY <2>1, ConnAssumption DEF LockInv, ConnLock
    <2> QED BY <2>1, <2>2 DEF LockInv, ConnLock, PcOfPhase, Owns, Live, Flushes
<1>3. ASSUME NEW r \in Proc, Crash(r) PROVE LockInv'
    <2> SUFFICES ASSUME NEW d \in Conn PROVE ConnLock(d)'
        BY DEF LockInv
    <2>1. CASE procOf[d] = r
        <3>1. pc'[d] = "idle" /\ phase'[d] = "none"
            BY <1>3, <2>1 DEF Crash
        <3> QED BY <3>1 DEF ConnLock, PcOfPhase, Owns, Live, Flushes
    <2>2. CASE procOf[d] # r
        <3>1. /\ pc'[d] = pc[d] /\ phase'[d] = phase[d] /\ cache'[d] = cache[d] /\ todo'[d] = todo[d]
              /\ db' = db
              /\ holder = d => holder' = d
            BY <1>3, <2>2 DEF Crash
        <3> QED BY <1>0, <3>1, SMT DEF ConnLock, PcOfPhase, Owns, Live, Flushes
    <2> QED BY <2>1, <2>2
<1>4. ASSUME NEW c \in Conn, LockShared(c) PROVE LockInv'
    <2>1. db' = db /\ Becomes(c, "access", "check", db, jBuf[c], todo[c]) /\ holder' = holder
        BY <1>4, LockSharedEffect DEF LockShared, blobVars
    <2>2. ConnLock(c)'
        BY <2>1 DEF Becomes, ConnLock, PcOfPhase, Owns, Live, Flushes
    <2> QED BY <2>1, <2>2, LockAll DEF Becomes
<1>5. ASSUME NEW c \in Conn, Access(c) PROVE LockInv'
    <2>1. db' = db /\ pc[c] = "access"
        BY <1>5 DEF Access
    <2>2. \/ \E exists \in BOOLEAN : Accessed(c, exists)
          \/ GoTo(c, "seed") /\ UNCHANGED <<holder, phase, cache, jBuf, todo, past>>
        BY <1>5 DEF Access
    <2>3. "seed" \in PC
        BY DEF PC
    <2> QED BY <1>0, <1>c, <1>f, <2>1, <2>2, <2>3, MovesEffect, LockMoves
<1>6. ASSUME NEW c \in Conn, Seed(c) PROVE LockInv'
    <2>1. db' = db /\ pc[c] = "seed" /\ found[c] \in BOOLEAN /\ Accessed(c, found[c])
        BY <1>6 DEF Seed, TypeOK
    <2> QED BY <1>f, <2>1
<1>7. ASSUME NEW c \in Conn, CheckReserved(c) PROVE LockInv'
    <2>1. db' = db /\ pc[c] = "reserved" /\ "open" \in PC
        BY <1>7 DEF CheckReserved, PC
    <2> QED BY <1>0, <1>b, <1>c, <1>7, <2>1, StartReadingEffect, MovesEffect, LockMoves DEF CheckReserved
<1>8. ASSUME NEW c \in Conn, Open(c) PROVE LockInv'
    <2>1. db' = db /\ pc[c] = "open" /\ Opening(c) /\ "openSeed" \in PC /\ Empty \in [Page -> Nat \cup {None}]
        BY <1>8 DEF Open, Opening, PC, Empty
    <2> QED BY <1>0, <1>c, <1>e, <1>8, <2>1, OpenedEffect, MovesEffect, LockMoves DEF Open
<1>9. ASSUME NEW c \in Conn, OpenSeed(c) PROVE LockInv'
    <2>1. db' = db /\ pc[c] = "openSeed" /\ Opening(c) /\ "get" \in PC /\ Empty \in [Page -> Nat \cup {None}]
        BY <1>9 DEF OpenSeed, Opening, PC, Empty
    <2> QED BY <1>0, <1>c, <1>e, <1>9, <2>1, OpenedEffect, MovesEffect, LockMoves DEF OpenSeed
<1>10. ASSUME NEW c \in Conn, Get(c) PROVE LockInv'
    <2>1. db' = db /\ Opening(c) /\ Empty \in [Page -> Nat \cup {None}] /\ jBlob \in [Page -> Nat \cup {None}]
        BY <1>10 DEF Get, Opening, Empty, TypeOK
    <2> QED BY <1>e, <1>10, <2>1, OpenedEffect DEF Get
<1>11. ASSUME NEW c \in Conn, HotLock(c) PROVE LockInv'
    <2>1. db' = db
        BY <1>11 DEF HotLock
    <2>2. CASE /\ holder = NoLease /\ holder' = c /\ past' = past
               /\ Becomes(c, "access", "play", db, jBuf[c], todo[c])
        <3>1. ConnLock(c)'
            BY <2>2 DEF Becomes, ConnLock, PcOfPhase, Owns, Live, Flushes
        <3> QED BY <2>1, <2>2, <3>1, LockAll DEF Becomes
    <2> QED BY <1>a, <1>11, <2>1, <2>2, HotLockEffect
<1>12. ASSUME NEW c \in Conn, Reserve(c) PROVE LockInv'
    <2>1. /\ db' = db /\ holder = NoLease /\ cache[c] = db /\ holder' = c
          /\ Becomes(c, "open", "tx", cache[c], jBuf[c], todo[c])
        BY <1>12, ReserveEffect DEF Reserve
    <2>2. ConnLock(c)'
        BY <2>1 DEF Becomes, ConnLock, PcOfPhase, Owns, Live, Flushes
    <2> QED BY <2>1, <2>2, LockAll DEF Becomes
<1>13. ASSUME NEW c \in Conn, EndRead(c) PROVE LockInv'
    BY <1>a, <1>13, LeaveEffect DEF EndRead
<1>14. ASSUME NEW c \in Conn, NEW S \in SUBSET Page, Write(c, S) PROVE LockInv'
    <2>1. /\ db' = db /\ holder' = holder /\ pc[c] = "begin"
          /\ Becomes(c, "upload", phase[c],
                      [p \in Page |-> IF p \in S THEN nTx + 1 ELSE cache[c][p]],
                      [p \in Page |-> IF p \in S THEN cache[c][p] ELSE None], S)
        BY <1>14, WriteEffect DEF Write, blobVars
    <2>2. ConnLock(c)'
        BY <1>0, <2>1, SMT DEF Becomes, ConnLock, PcOfPhase, Owns, Live, Flushes, Phase
    <2> QED BY <2>1, <2>2, LockAll DEF Becomes
<1>15. ASSUME NEW c \in Conn, Upload(c) PROVE LockInv'
    <2>1. db' = db /\ pc[c] = "upload" /\ Moves(c, "put")
        BY <1>15, UploadEffect DEF Upload
    <2> QED BY <1>0, <1>c, <2>1, LockMoves
<1>16. ASSUME NEW c \in Conn, UploadFail(c) PROVE LockInv'
    <2>1. db' = db /\ (phase[c] = "tx" => Owns(c))
        BY <1>16 DEF UploadFail, Owns
    <2> QED BY <1>a, <1>d, <1>16, <2>1, DiscardEffect, LeaveEffect DEF UploadFail
<1>17. ASSUME NEW c \in Conn, Rollback(c) PROVE LockInv'
    <2>1. db' = db /\ Owns(c)
        BY <1>17 DEF Rollback, Owns
    <2> QED BY <1>d, <1>17, <2>1, DiscardEffect DEF Rollback
<1>18. ASSUME NEW c \in Conn, Put(c) PROVE LockInv'
    <2>1. pc[c] = "put" /\ holder = c /\ db' \in [Page -> Nat]
        BY <1>18, TypeStep DEF Put, Next, TypeOK
    <2>2. PICK p \in todo[c] :
             /\ Becomes(c, "put", phase[c], cache[c], jBuf[c], todo[c] \ {p})
             /\ \A q \in Page : db'[q] = IF q = p THEN cache[c][p] ELSE db[q]
        BY <1>18, PutEffect
    <2>3. holder' = holder
        BY <1>18, PutEffect
    <2>4. ConnLock(c)'
        BY <1>0, <2>1, <2>2, <2>3 DEF Becomes, ConnLock, PcOfPhase, Owns, Live, Flushes
    <2> QED BY <2>1, <2>2, <2>3, <2>4, LockAll DEF Becomes
<1>19. ASSUME NEW c \in Conn, PutFail(c) PROVE LockInv'
    <2>1. db' = db /\ (phase[c] = "tx" => Owns(c))
        BY <1>19 DEF PutFail, Owns
    <2> QED BY <1>a, <1>d, <1>19, <2>1, PlayBackEffect DEF PutFail
<1>20. ASSUME NEW c \in Conn, Flushed(c) PROVE LockInv'
    <2>1. db' = db /\ pc[c] = "put" /\ todo[c] = {} /\ Moves(c, "finalise")
        BY <1>20, UploadEffect DEF Flushed, blobVars
    <2> QED BY <1>0, <1>c, <2>1, LockMoves
<1>21. ASSUME NEW c \in Conn, NEW mode \in layout.modes, Finalise(c, mode) PROVE LockInv'
    <2>1. db' = db /\ pc[c] = "finalise" /\ Moves(c, "unlock")
        BY <1>21, UploadEffect DEF Finalise
    <2> QED BY <1>0, <1>c, <2>1, LockMoves
<1>22. ASSUME NEW c \in Conn, NEW mode \in layout.modes, FinaliseFail(c, mode) PROVE LockInv'
    BY <1>a, <1>22, LeaveEffect DEF FinaliseFail
<1>23. ASSUME NEW c \in Conn, Unlock(c) PROVE LockInv'
    <2>1. db' = db
        BY <1>23 DEF Unlock
    <2> QED BY <1>a, <1>b, <1>23, <2>1, StartReadingEffect, LeaveEffect DEF Unlock
<1> QED
    BY <1>1, <1>2, <1>3, <1>4, <1>5, <1>6, <1>7, <1>8, <1>9, <1>10, <1>11, <1>12, <1>13,
       <1>14, <1>15, <1>16, <1>17, <1>18, <1>19, <1>20, <1>21, <1>22, <1>23 DEF Next

-----------------------------------------------------------------------------
(* What recovery finds. *)

(***************************************************************************)
(* The content that recovery finds, page by page.                          *)
(***************************************************************************)
LEMMA RecoverableAt ==
    ASSUME TypeOK
    PROVE  /\ Recoverable \in [Page -> Nat]
           /\ \A p \in Page : Recoverable[p] = IF jBlob[p] # None THEN jBlob[p] ELSE db[p]
           /\ jBlob = Empty => Recoverable = db
<1>1. jBlob \in [Page -> Nat \cup {None}] /\ db \in [Page -> Nat]
    BY DEF TypeOK
<1>2. /\ Recoverable \in [Page -> Nat]
      /\ \A p \in Page : Recoverable[p] = IF jBlob[p] # None THEN jBlob[p] ELSE db[p]
    BY <1>1, UndoType DEF Recoverable
<1>3. ASSUME jBlob = Empty PROVE Recoverable = db
    BY <1>1, <1>2, <1>3, SMT DEF Empty
<1> QED BY <1>2, <1>3

(***************************************************************************)
(* The same after a step.                                                  *)
(***************************************************************************)
LEMMA RecoverableNext ==
    ASSUME TypeOK'
    PROVE  /\ Recoverable' \in [Page -> Nat]
           /\ \A p \in Page : Recoverable'[p] = IF jBlob'[p] # None THEN jBlob'[p] ELSE db'[p]
           /\ jBlob' = Empty => Recoverable' = db'
<1>1. jBlob' \in [Page -> Nat \cup {None}] /\ db' \in [Page -> Nat]
    BY DEF TypeOK
<1>2. /\ Recoverable' \in [Page -> Nat]
      /\ \A p \in Page : Recoverable'[p] = IF jBlob'[p] # None THEN jBlob'[p] ELSE db'[p]
    BY <1>1, UndoType DEF Recoverable
<1>3. ASSUME jBlob' = Empty PROVE Recoverable' = db'
    BY <1>1, <1>2, <1>3, SMT DEF Empty
<1> QED BY <1>2, <1>3

(***************************************************************************)
(* A file that is current, or that can never be reserved, stays so while   *)
(* recovery finds the same: a page of the blob only becomes what recovery  *)
(* finds or what the transaction under way wrote, and a new transaction    *)
(* writes a new number.                                                    *)
(***************************************************************************)
LEMMA StaysCurrent ==
    ASSUME TypeOK, TypeOK', Bounded, NEW d \in Conn, Current(d), cache'[d] = cache[d],
           Recoverable' = Recoverable,
           \A p \in Page : \/ db'[p] = db[p] \/ db'[p] = Recoverable[p]
                           \/ \E e \in Conn : Live(e) /\ db'[p] = cache[e][p],
           \A e \in Conn : Live(e)' =>
               \A p \in Page : \/ cache'[e][p] = Recoverable[p] \/ cache'[e][p] = nTx + 1
                               \/ Live(e) /\ cache'[e][p] = cache[e][p]
    PROVE  Current(d)'
<1>1. CASE cache[d] = Recoverable
    BY <1>1 DEF Current
<1>2. ASSUME NEW p \in Page, Dead(d, p) PROVE Dead(d, p)'
    <2>1. cache[d][p] <= nTx /\ nTx \in Nat /\ cache[d][p] \in Nat
        BY DEF Bounded, TypeOK
    <2>2. cache[d][p] # nTx + 1
        BY <2>1, SMT
    <2>3. cache'[d][p] # Recoverable'[p] /\ cache'[d][p] # db'[p]
        BY <1>2 DEF Dead
    <2>4. ASSUME NEW e \in Conn, Live(e)' PROVE cache'[e][p] # cache'[d][p]
        BY <1>2, <2>2, <2>4 DEF Dead
    <2> QED BY <2>3, <2>4 DEF Dead
<1> QED BY <1>1, <1>2 DEF Current

(***************************************************************************)
(* When there is nothing to put back and no flush under way, a file that   *)
(* is not the blob is one that can never be reserved.                      *)
(***************************************************************************)
LEMMA BecomesCurrent ==
    ASSUME TypeOK, Core, NEW c \in Conn, ~Live(c), Recoverable = db,
           \A d \in Conn : Live(d) => pc[d] = "upload"
    PROVE  Current(c)
<1>1. SUFFICES ASSUME cache[c] # Recoverable PROVE \E p \in Page : Dead(c, p)
    BY DEF Current
<1>2. cache[c] \in [Page -> Nat] /\ Recoverable \in [Page -> Nat]
    BY RecoverableAt DEF TypeOK
<1>3. PICK p \in Page : cache[c][p] # Recoverable[p]
    BY <1>1, <1>2, SMT
<1>4. ASSUME NEW d \in Conn, Live(d) PROVE cache[d][p] # cache[c][p]
    <2>1. TxInv(d) /\ pc[d] = "upload" /\ c \in Conn \ {d}
        BY <1>4 DEF Core, ConnInv
    <2>2. cache[d][p] = IF jBuf[d][p] # None THEN nTx ELSE db[p]
        BY <1>4, <2>1 DEF TxInv
    <2>3. cache[c][p] < nTx /\ nTx \in Nat /\ cache[c][p] \in Nat
        BY <1>2, <1>4, <2>1 DEF TxInv, TypeOK
    <2>4. cache[c][p] # nTx
        BY <2>3, SMT
    <2> QED BY <1>3, <2>2, <2>4
<1> QED BY <1>3, <1>4 DEF Dead

(***************************************************************************)
(* An empty or missing journal blob means that no flush is under way.      *)
(***************************************************************************)
LEMMA EmptyLook ==
    ASSUME TypeOK, Core, jBlob = Empty
    PROVE  /\ Recoverable = db
           /\ \A d \in Conn : Live(d) => pc[d] = "upload"
<1>1. Entries(jBlob) = {}
    BY DEF Entries, Empty
<1>2. ASSUME NEW d \in Conn, Live(d), pc[d] # "upload" PROVE FALSE
    BY <1>1, <1>2 DEF Core, ConnInv, TxInv
<1> QED BY <1>2, RecoverableAt

(***************************************************************************)
(* So does a table entry that says there is no journal.                    *)
(***************************************************************************)
LEMMA TableLook ==
    ASSUME TypeOK, Reliable, Core, NEW c \in Conn, state[procOf[c]] = 0
    PROVE  /\ Recoverable = db
           /\ \A d \in Conn : Live(d) => pc[d] = "upload"
<1>1. procOf[c] \in Proc
    BY TableTypes
<1>2. procOf[c] \in layout.tracked
    BY <1>1, SMT DEF Core, TableInv, Unknown
<1>3. ASSUME NEW d \in Conn, Live(d), pc[d] # "upload" PROVE FALSE
    <2>1. procOf[d] = procOf[c]
        BY <1>2 DEF Reliable
    <2>2. state[procOf[d]] = 1
        BY <1>2, <1>3, <2>1 DEF Core, ConnInv, TxInv
    <2> QED BY <2>1, <2>2, SMT
<1> QED BY <1>3 DEF Core, TableInv

(***************************************************************************)
(* The rollback of a transaction from its buffer gives what recovery       *)
(* finds, and nothing outside the buffer differs from it.                  *)
(***************************************************************************)
LEMMA UndoesToRecoverable ==
    ASSUME TypeOK, Core, NEW c \in Conn, Live(c)
    PROVE  /\ Undo(jBuf[c], cache[c]) = Recoverable
           /\ \A p \in Page \ Entries(jBuf[c]) : db[p] = Recoverable[p]
           /\ pc[c] = "upload" => Recoverable = db
<1>1. TxInv(c)
    BY DEF Core, ConnInv
<1>2. jBuf[c] \in [Page -> Nat \cup {None}] /\ cache[c] \in [Page -> Nat]
    BY DEF TypeOK
<1>3. pc[c] = "upload" => Recoverable = db
    BY <1>1 DEF TxInv, Live
<1>4. ASSUME NEW p \in Page, jBuf[c][p] = None PROVE cache[c][p] = db[p] /\ db[p] = Recoverable[p]
    <2>1. cache[c][p] = db[p]
        BY <1>1, <1>4 DEF TxInv
    <2>2. CASE pc[c] = "upload"
        BY <1>3, <2>1, <2>2
    <2>3. CASE pc[c] # "upload"
        BY <1>1, <1>4, <2>1, <2>3, RecoverableAt DEF TxInv
    <2> QED BY <2>2, <2>3
<1>5. ASSUME NEW p \in Page PROVE Undo(jBuf[c], cache[c])[p] = Recoverable[p]
    <2>1. CASE jBuf[c][p] = None
        BY <1>2, <1>4, <2>1, UndoType
    <2>2. CASE jBuf[c][p] # None
        BY <1>1, <1>2, <2>2, UndoType DEF TxInv
    <2> QED BY <2>1, <2>2
<1>6. Undo(jBuf[c], cache[c]) \in [Page -> Nat] /\ Recoverable \in [Page -> Nat]
    BY <1>2, UndoType, RecoverableAt
<1>7. Undo(jBuf[c], cache[c]) = Recoverable
    BY <1>5, <1>6, SMT
<1> QED BY <1>3, <1>4, <1>7 DEF Entries

-----------------------------------------------------------------------------
(* What a step does to the others. *)

\* A step of the connections C that changes neither blob.
Quiet(C) ==
    /\ db' = db /\ jBlob' = jBlob /\ jExists' = jExists /\ nTx' = nTx /\ layout' = layout
    /\ \A d \in Conn \ C : Kept(d) /\ found'[d] = found[d]
    /\ \A c \in C : Live(c)' => Live(c) /\ cache'[c] = cache[c]
    /\ \A c \in C : \A p \in Page : cache'[c][p] \in {db[p], Recoverable[p], cache[c][p], 0}
    /\ \A d \in Conn \ C : Live(d) /\ pc[d] # "upload" /\ state[procOf[d]] = 1 => state'[procOf[d]] = 1

(***************************************************************************)
(* A quiet step leaves recovery as it is, a file that is current as        *)
(* current, and no number above nTx.                                       *)
(***************************************************************************)
LEMMA QuietFacts ==
    ASSUME TypeOK, TypeOK', Core, NEW C \in SUBSET Conn, Quiet(C)
    PROVE  /\ Recoverable' = Recoverable
           /\ \A d \in Conn : Live(d)' => Live(d) /\ cache'[d] = cache[d]
           /\ \A d \in Conn : Current(d) /\ cache'[d] = cache[d] => Current(d)'
           /\ Bounded'
           /\ jBlob' # Empty => jExists'
           /\ \A c \in Conn : c \notin C => procOf'[c] = procOf[c]
<1>1. Recoverable' = Recoverable
    BY DEF Quiet, Recoverable
<1>2. \A d \in Conn : Live(d)' => Live(d) /\ cache'[d] = cache[d]
    BY DEF Quiet, Kept, Live
<1>3. ASSUME NEW d \in Conn, Current(d), cache'[d] = cache[d] PROVE Current(d)'
    BY <1>1, <1>2, <1>3, StaysCurrent DEF Core, Quiet
<1>4. ASSUME NEW c \in Conn, NEW p \in Page PROVE cache'[c][p] <= nTx
    <2>1. db[p] <= nTx /\ Recoverable[p] <= nTx /\ cache[c][p] <= nTx /\ nTx \in Nat
        BY DEF Core, Bounded, TypeOK
    <2>2. cache'[c][p] \in {db[p], Recoverable[p], cache[c][p], 0}
        BY DEF Quiet, Kept
    <2> QED BY <2>1, <2>2, SMT
<1>5. Bounded'
    BY <1>1, <1>4 DEF Core, Bounded, Quiet
<1> QED BY <1>1, <1>2, <1>3, <1>5 DEF Core, Quiet, procOf

(***************************************************************************)
(* The connections that a quiet step leaves alone keep their invariant.    *)
(***************************************************************************)
LEMMA QuietOthers ==
    ASSUME TypeOK, TypeOK', Core, NEW C \in SUBSET Conn, Quiet(C)
    PROVE  \A d \in Conn \ C : ConnInv(d)'
<1> SUFFICES ASSUME NEW d \in Conn \ C PROVE ConnInv(d)'
    OBVIOUS
<1>1. /\ Recoverable' = Recoverable /\ db' = db /\ jBlob' = jBlob /\ jExists' = jExists /\ nTx' = nTx
      /\ layout' = layout
      /\ pc'[d] = pc[d] /\ phase'[d] = phase[d] /\ cache'[d] = cache[d] /\ jBuf'[d] = jBuf[d]
      /\ todo'[d] = todo[d] /\ found'[d] = found[d] /\ (d \in past' <=> d \in past)
    BY QuietFacts DEF Quiet, Kept
<1>2. TxInv(d) /\ PlayInv(d) /\ (Cleared(d) => Current(d))
    BY DEF Core, ConnInv
<1>3. ASSUME Live(d), pc[d] = "upload", NEW c \in Conn \ {d}, NEW p \in Page PROVE cache'[c][p] < nTx
    <2>1. /\ cache[c][p] < nTx /\ Recoverable[p] < nTx /\ Recoverable = db
          /\ Recoverable[p] \in Nat /\ nTx \in Nat
        BY <1>2, <1>3, RecoverableAt DEF TxInv, Live, TypeOK
    <2>2. cache'[c][p] \in {db[p], Recoverable[p], cache[c][p], 0}
        BY DEF Quiet, Kept
    <2> QED BY <2>1, <2>2, SMT
<1>4. Live(d) /\ pc[d] # "upload" /\ procOf[d] \in layout.tracked => state'[procOf[d]] = 1
    BY <1>2 DEF TxInv, Quiet
<1>5. Live(d)' <=> Live(d)
    BY <1>1 DEF Live
<1>6. TxInv(d)'
    BY <1>1, <1>2, <1>3, <1>4, <1>5 DEF TxInv, procOf
<1>7. PlayInv(d)'
    BY <1>1, <1>2 DEF PlayInv
<1>8. Cleared(d)' => Cleared(d)
    BY <1>1 DEF Cleared
<1>9. Cleared(d)' => Current(d)'
    BY <1>1, <1>2, <1>8, QuietFacts
<1> QED BY <1>6, <1>7, <1>9 DEF ConnInv

(***************************************************************************)
(* A step of the lease's owner that leaves recovery as it is leaves the    *)
(* others as they are.                                                     *)
(***************************************************************************)
LEMMA OwnerOthers ==
    ASSUME TypeOK, TypeOK', Core, LockInv, NEW c \in Conn, Owns(c),
           \A d \in Conn \ {c} : Kept(d), found' = found,
           Recoverable' = Recoverable,
           \A p \in Page : \/ db'[p] = db[p] \/ db'[p] = Recoverable[p]
                           \/ Live(c) /\ db'[p] = cache[c][p],
           Live(c)' => \A p \in Page : \/ cache'[c][p] = Recoverable[p] \/ cache'[c][p] = nTx + 1
                                       \/ Live(c) /\ cache'[c][p] = cache[c][p]
    PROVE  \A d \in Conn \ {c} : ConnInv(d)'
<1> SUFFICES ASSUME NEW d \in Conn \ {c} PROVE ConnInv(d)'
    OBVIOUS
<1>1. \A e \in Conn \ {c} : ~Owns(e) /\ ~Owns(e)' /\ ~Live(e)'
    <2> SUFFICES ASSUME NEW e \in Conn \ {c} PROVE ~Owns(e) /\ ~Owns(e)' /\ ~Live(e)'
        OBVIOUS
    <2>1. ~Owns(e)
        BY DEF LockInv, ConnLock
    <2> QED BY <2>1 DEF Owns, Live, Kept
<1>2. TxInv(d)' /\ PlayInv(d)'
    BY <1>1 DEF TxInv, PlayInv, Owns, Live
<1>3. Cleared(d)' => Cleared(d)
    BY DEF Cleared, Kept
<1>4. Cleared(d) => Current(d)
    BY DEF Core, ConnInv
<1>5. cache'[d] = cache[d]
    BY DEF Kept
<1>6. Current(d) => Current(d)'
    BY <1>1, <1>5, StaysCurrent DEF Core
<1> QED BY <1>2, <1>3, <1>4, <1>6 DEF ConnInv

-----------------------------------------------------------------------------
(* The search for a journal, action by action. *)

\* What every step below starts from.
Assumed == TypeOK /\ TypeOK' /\ Reliable /\ Orderly /\ LockInv /\ Core

\* The step sends nothing that changes a blob.
SameBlobs == db' = db /\ jBlob' = jBlob /\ jExists' = jExists /\ nTx' = nTx /\ layout' = layout

(***************************************************************************)
(* A quiet step of one connection that leaves the table alone.             *)
(***************************************************************************)
LEMMA QuietSelf ==
    ASSUME Assumed, NEW c \in Conn, Quiet({c}), ConnInv(c)', state' = state
    PROVE  Core'
<1>1. \A d \in Conn \ {c} : ConnInv(d)'
    BY QuietOthers DEF Assumed
<1> db' = db /\ layout' = layout
    BY DEF Quiet
<1>2. /\ Recoverable' = Recoverable /\ Bounded' /\ (jBlob' # Empty => jExists')
    BY QuietFacts DEF Assumed
<1>3. TableInv'
    BY <1>2 DEF Assumed, Core, TableInv, procOf
<1> QED BY <1>1, <1>2, <1>3 DEF Core

(***************************************************************************)
(* The same from what the step does.                                       *)
(***************************************************************************)
LEMMA QuietCore ==
    ASSUME Assumed, NEW c \in Conn, SameBlobs, state' = state,
           \A d \in Conn \ {c} : Kept(d) /\ found'[d] = found[d],
           Live(c)' => Live(c) /\ cache'[c] = cache[c],
           \A p \in Page : cache'[c][p] \in {db[p], Recoverable[p], cache[c][p], 0},
           ConnInv(c)'
    PROVE  Core'
<1>1. Quiet({c})
    BY DEF Quiet, SameBlobs
<1> QED BY <1>1, QuietSelf

(***************************************************************************)
(* The pager's unlock, and the start of a read that found the file current *)
(* or went past a journal.                                                 *)
(***************************************************************************)
LEMMA LeavesCore ==
    ASSUME Assumed, NEW c \in Conn, SameBlobs, state' = state, found' = found, Leaves(c)
    PROVE  Core'
<1>1. /\ pc'[c] = "idle" /\ phase'[c] = "none" /\ cache'[c] = Blank
      /\ \A d \in Conn \ {c} : Kept(d)
    BY DEF Leaves, Becomes
<1>2. ConnInv(c)' /\ ~Live(c)'
    BY <1>1 DEF ConnInv, TxInv, PlayInv, Cleared, Live
<1>3. \A p \in Page : cache'[c][p] = 0
    BY <1>1 DEF Blank
<1> QED BY <1>1, <1>2, <1>3, QuietCore

(***************************************************************************)
(* A look that found no journal ends in a read.                            *)
(***************************************************************************)
LEMMA ReadingSelf ==
    ASSUME Assumed, NEW c \in Conn, SameBlobs, StartsReading(c),
           \A d \in Conn \ {c} : found'[d] = found[d], 
           \A d \in Conn \ {c} : Live(d) /\ pc[d] # "upload" /\ state[procOf[d]] = 1 => state'[procOf[d]] = 1,
           pc[c] = "reserved" \/ Current(c)
    PROVE  Quiet({c}) /\ ConnInv(c)'
<1>1. /\ pc'[c] = "reading" /\ phase'[c] = "none" /\ cache'[c] = cache[c]
      /\ \A d \in Conn \ {c} : Kept(d)
      /\ pc[c] = "reserved" => c \in past'
    BY DEF StartsReading, Becomes
<1>2. ~Live(c)'
    BY <1>1 DEF Live
<1>3. Quiet({c})
    BY <1>1, <1>2 DEF Quiet, SameBlobs
<1>4. Current(c) => Current(c)'
    BY <1>1, <1>3, QuietFacts DEF Assumed
<1>5. TxInv(c)' /\ PlayInv(c)'
    BY <1>1 DEF TxInv, PlayInv, Live
<1>6. Cleared(c)' => Current(c)'
    BY <1>1, <1>4 DEF Cleared
<1> QED BY <1>3, <1>5, <1>6 DEF ConnInv

(***************************************************************************)
(* The same where the table is left alone.                                 *)
(***************************************************************************)
LEMMA ReadingCore ==
    ASSUME Assumed, NEW c \in Conn, SameBlobs, state' = state, StartsReading(c),
           \A d \in Conn \ {c} : found'[d] = found[d], 
           pc[c] = "reserved" \/ Current(c)
    PROVE  Core'
<1>1. ConnInv(c)'
    BY ReadingSelf
<1>2. /\ \A d \in Conn \ {c} : Kept(d)
      /\ cache'[c] = cache[c] /\ ~Live(c)'
    BY DEF StartsReading, Becomes, Live
<1> QED BY <1>1, <1>2, QuietCore

(***************************************************************************)
(* xLock SHARED keeps the invariant.                                       *)
(***************************************************************************)
LEMMA LockSharedCore ==
    ASSUME Assumed, NEW c \in Conn, LockShared(c)
    PROVE  Core'
<1>1. SameBlobs /\ state' = state /\ found' = found
    BY DEF LockShared, blobVars, tableVars, SameBlobs
<1>2. /\ pc'[c] = "access" /\ phase'[c] = "check" /\ cache'[c] = db
      /\ \A d \in Conn \ {c} : Kept(d)
    BY LockSharedEffect DEF Becomes, Assumed
<1>3. ConnInv(c)' /\ ~Live(c)'
    BY <1>2 DEF ConnInv, TxInv, PlayInv, Cleared, Live
<1> QED BY <1>1, <1>2, <1>3, QuietCore

(***************************************************************************)
(* A step of a look that stays within the look.                            *)
(***************************************************************************)
LEMMA LookMoves ==
    ASSUME Assumed, NEW c \in Conn, SameBlobs, NEW next, Moves(c, next), ~Live(c),
           \A d \in Conn \ {c} : found'[d] = found[d], 
           \A d \in Conn \ {c} : Live(d) /\ pc[d] # "upload" /\ state[procOf[d]] = 1 => state'[procOf[d]] = 1,
           \/ phase[c] = "check" /\ next \notin {"seed", "openSeed", "reading"}
           \/ phase[c] = "check" /\ next \in {"seed", "openSeed"} /\ (found'[c] \/ Current(c))
           \/ phase[c] = "play" /\ cache[c] = db /\ next \in {"open", "get"}
           \/ phase[c] = "play" /\ cache[c] = db /\ next \in {"seed", "openSeed"} /\ found'[c] = jExists
           \/ phase[c] = "tx" /\ next \in {"openSeed", "get", "begin"} /\ Recoverable = db
    PROVE  Quiet({c}) /\ ConnInv(c)'
<1>1. /\ pc'[c] = next /\ phase'[c] = phase[c] /\ cache'[c] = cache[c] /\ jBuf'[c] = jBuf[c]
      /\ \A d \in Conn \ {c} : Kept(d)
    BY DEF Moves, Becomes
<1>2. ~Live(c)'
    BY <1>1 DEF Live
<1>3. Quiet({c})
    BY <1>1, <1>2 DEF Quiet, SameBlobs
<1>4. Recoverable' = Recoverable /\ db' = db /\ jExists' = jExists /\ (Current(c) => Current(c)')
    BY <1>1, <1>3, QuietFacts DEF Assumed, SameBlobs
<1>5. TxInv(c)'
    BY <1>1, <1>2, <1>4 DEF TxInv
<1>6. PlayInv(c)'
    BY <1>1, <1>4 DEF PlayInv
<1>7. Cleared(c)' => Current(c)'
    BY <1>1, <1>4 DEF Cleared
<1> QED BY <1>3, <1>5, <1>6, <1>7 DEF ConnInv

(***************************************************************************)
(* An answer that goes into the table and was not overtaken.               *)
(***************************************************************************)
LEMMA StoredAnswer ==
    ASSUME Assumed, NEW c \in Conn, StoreAnswer(c), ~overtaken'
    PROVE  /\ \A r \in Proc : state'[r] = state[r] \/ (r = procOf[c] /\ r \in layout.tracked /\ state'[r] \in {0, 1})
           /\ \A r \in Proc : state'[r] = 0 => state[r] = 0 \/ jBlob = Empty
           /\ \A d \in Conn : Live(d) /\ pc[d] # "upload" /\ state[procOf[d]] = 1 => state'[procOf[d]] = 1
<1>1. procOf[c] \in Proc /\ state \in [Proc -> {Unknown, 0, 1}] /\ found[c] \in BOOLEAN
    BY TableTypes DEF Assumed, TypeOK
<1>2. procOf[c] \in layout.tracked /\ ~found[c] => jBlob = Empty
    BY DEF StoreAnswer
<1>3. state' = IF procOf[c] \in layout.tracked THEN [state EXCEPT ![procOf[c]] = IF found[c] THEN 1 ELSE 0] ELSE state
    BY DEF StoreAnswer, SetState, Bit
<1>4. \A r \in Proc : state'[r] = state[r] \/ (r = procOf[c] /\ r \in layout.tracked /\ state'[r] \in {0, 1})
    BY <1>1, <1>3
<1>5. \A r \in Proc : state'[r] = 0 => state[r] = 0 \/ jBlob = Empty
    BY <1>1, <1>2, <1>3, SMT
<1>6. ASSUME NEW d \in Conn, Live(d), pc[d] # "upload", state[procOf[d]] = 1 PROVE state'[procOf[d]] = 1
    <2>1. jBlob # Empty
        BY <1>6, EmptyLook DEF Assumed
    <2>2. procOf[d] \in Proc
        BY TableTypes DEF Assumed
    <2> QED BY <1>4, <1>5, <1>6, <2>1, <2>2
<1> QED BY <1>4, <1>5, <1>6

(***************************************************************************)
(* A quiet step that stores an answer.                                     *)
(***************************************************************************)
LEMMA StoredCore ==
    ASSUME Assumed, NEW c \in Conn, Quiet({c}), ConnInv(c)', StoreAnswer(c), ~overtaken'
    PROVE  Core'
<1>1. \A d \in Conn \ {c} : ConnInv(d)'
    BY QuietOthers DEF Assumed
<1> db' = db /\ layout' = layout
    BY DEF Quiet
<1>2. /\ Recoverable' = Recoverable /\ Bounded' /\ (jBlob' # Empty => jExists')
    BY QuietFacts DEF Assumed
<1>3. TableInv
    BY DEF Assumed, Core
<1>4. ASSUME NEW d \in Conn, state'[procOf[d]] = 0 PROVE Recoverable = db
    <2>1. procOf[d] \in Proc
        BY TableTypes DEF Assumed
    <2>2. state[procOf[d]] = 0 \/ jBlob = Empty
        BY <1>4, <2>1, StoredAnswer
    <2> QED BY <1>3, <2>2, RecoverableAt DEF TableInv, Assumed
<1>5. \A r \in Proc : r \notin layout.tracked => state'[r] = Unknown
    BY <1>3, StoredAnswer DEF TableInv
<1>6. TableInv'
    BY <1>2, <1>4, <1>5 DEF TableInv, procOf
<1> QED BY <1>1, <1>2, <1>6 DEF Core

-----------------------------------------------------------------------------
(* xAccess, xCheckReservedLock and xOpen. *)

(***************************************************************************)
(* What the invariant says of one connection.                              *)
(***************************************************************************)
LEMMA OfConn ==
    ASSUME Assumed, NEW c \in Conn
    PROVE  /\ PcOfPhase(c) /\ (Owns(c) => holder = c) /\ Flushes(c)
           /\ TxInv(c) /\ PlayInv(c) /\ (Cleared(c) => Current(c))
BY DEF Assumed, LockInv, ConnLock, Core, ConnInv

(***************************************************************************)
(* xOpen of the journal, with the content it finds.                        *)
(***************************************************************************)
LEMMA OpensSelf ==
    ASSUME Assumed, NEW c \in Conn, SameBlobs, NEW j \in [Page -> Nat \cup {None}], Opens(c, j),
           pc[c] \in {"open", "openSeed", "get"},
           found' = found,
           \A d \in Conn \ {c} : Live(d) /\ pc[d] # "upload" /\ state[procOf[d]] = 1 => state'[procOf[d]] = 1,
           phase[c] = "check" /\ Entries(j) = {} => Current(c),
           phase[c] = "play" => j = jBlob \/ (j = Empty /\ Recoverable = db)
    PROVE  Quiet({c}) /\ ConnInv(c)'
<1>1. TxInv(c) /\ PlayInv(c) /\ ~Live(c)
    BY OfConn DEF Live
<1>2. CASE phase[c] = "check" /\ Entries(j) # {}
    <2>1. Moves(c, "hotLock")
        BY <1>2 DEF Opens
    <2> QED BY <1>1, <1>2, <2>1, LookMoves
<1>3. CASE phase[c] = "check" /\ Entries(j) = {}
    <2>1. StartsReading(c)
        BY <1>3 DEF Opens
    <2> QED BY <1>3, <2>1, ReadingSelf
<1>4. CASE phase[c] = "tx"
    <2>1. Moves(c, "begin") /\ Recoverable = db
        BY <1>1, <1>4 DEF Opens, TxInv
    <2> QED BY <1>1, <1>4, <2>1, LookMoves
<1>5. CASE phase[c] = "play"
    <2>1. Becomes(c, IF Entries(j) = {} THEN "put" ELSE "upload", "play", Undo(j, cache[c]), j, Entries(j))
        BY <1>5 DEF Opens
    <2>2. /\ pc'[c] = (IF Entries(j) = {} THEN "put" ELSE "upload")
          /\ phase'[c] = "play" /\ cache'[c] = Undo(j, cache[c]) /\ jBuf'[c] = j /\ todo'[c] = Entries(j)
          /\ \A d \in Conn \ {c} : Kept(d)
        BY <2>1 DEF Becomes
    <2>3. cache[c] = db
        BY <1>1, <1>5 DEF PlayInv
    <2>4. cache'[c] = Recoverable /\ \A p \in Page \ Entries(j) : db[p] = Recoverable[p]
        <3>1. CASE j = jBlob
            <4>1. cache'[c] = Recoverable
                BY <2>2, <2>3, <3>1 DEF Recoverable
            <4>2. \A p \in Page \ Entries(j) : db[p] = Recoverable[p]
                BY <3>1, RecoverableAt DEF Entries, Assumed
            <4> QED BY <4>1, <4>2
        <3>2. CASE j = Empty /\ Recoverable = db
            <4>1. db \in [Page -> Nat] /\ Empty \in [Page -> Nat \cup {None}]
                BY <3>2 DEF Assumed, TypeOK
            <4>2. Undo(Empty, db) \in [Page -> Nat] /\ \A p \in Page : Undo(Empty, db)[p] = db[p]
                BY <4>1, UndoType DEF Empty
            <4>3. Undo(Empty, db) = db
                BY <4>1, <4>2, SMT
            <4> QED BY <2>2, <2>3, <3>2, <4>3
        <3> QED BY <1>5, <3>1, <3>2
    <2>5. Entries(j) # {} => j = jBlob
        BY <1>5 DEF Entries, Empty
    <2>6. ~Live(c)'
        BY <2>2 DEF Live
    <2>7. Quiet({c})
        BY <2>2, <2>4, <2>6 DEF Quiet, SameBlobs
    <2>8. Recoverable' = Recoverable /\ db' = db /\ jBlob' = jBlob
        BY <2>7, QuietFacts DEF Assumed, SameBlobs
    <2>9. TxInv(c)' /\ (Cleared(c)' => Current(c)')
        BY <2>2, <2>6 DEF TxInv, Cleared
    <2>10. PlayInv(c)'
        BY <2>2, <2>4, <2>5, <2>8 DEF PlayInv
    <2> QED BY <2>7, <2>9, <2>10 DEF ConnInv
<1> QED BY <1>2, <1>3, <1>4, <1>5 DEF Opens

(***************************************************************************)
(* xAccess keeps the invariant.                                            *)
(***************************************************************************)
LEMMA AccessCore ==
    ASSUME Assumed, NEW c \in Conn, Access(c)
    PROVE  Core'
<1>1. /\ SameBlobs /\ state' = state /\ pc[c] = "access"
      /\ \A d \in Conn \ {c} : found'[d] = found[d]
    BY DEF Access, tableVars, SameBlobs, Assumed, TypeOK
<1>2. PcOfPhase(c) /\ PlayInv(c) /\ ~Live(c)
    BY <1>1, OfConn DEF Live
<1>3. phase[c] \in {"check", "play"}
    BY <1>1, <1>2 DEF PcOfPhase, Assumed, TypeOK, Phase
<1>4. phase[c] = "play" => cache[c] = db
    BY <1>1, <1>2 DEF PlayInv
<1>5. ASSUME Accessed(c, state[procOf[c]] = 1), state[procOf[c]] # Unknown PROVE Core'
    <2>1. CASE state[procOf[c]] = 1
        <3>1. \/ phase[c] = "check" /\ Moves(c, "reserved")
              \/ phase[c] = "play" /\ Moves(c, "open")
            BY <1>5, <2>1, AccessedEffect DEF Assumed
        <3>2. Quiet({c}) /\ ConnInv(c)'
            BY <1>1, <1>2, <1>4, <3>1, LookMoves
        <3> QED BY <1>1, <3>2, QuietSelf
    <2>2. CASE state[procOf[c]] # 1
        <3>1. StartsReading(c)
            BY <1>5, <2>2, AccessedEffect DEF Assumed
        <3>2. state[procOf[c]] = 0
            BY <1>5, <2>2, TableTypes, SMT DEF Assumed, TypeOK
        <3>3. Current(c)
            BY <1>2, <3>2, TableLook, BecomesCurrent DEF Assumed
        <3> QED BY <1>1, <3>1, <3>3, ReadingCore
    <2> QED BY <2>1, <2>2
<1>6. ASSUME found' = [found EXCEPT ![c] = jExists], GoTo(c, "seed"),
             UNCHANGED <<holder, phase, cache, jBuf, todo, past>>
      PROVE  Core'
    <2>1. Moves(c, "seed") /\ found'[c] = jExists
        BY <1>6, MovesEffect DEF Assumed, PC, TypeOK
    <2>2. ~jExists => Current(c)
        <3> SUFFICES ASSUME ~jExists PROVE Current(c)
            OBVIOUS
        <3>1. jBlob = Empty
            BY DEF Assumed, Core
        <3> QED BY <1>2, <3>1, EmptyLook, BecomesCurrent DEF Assumed
    <2>3. Quiet({c}) /\ ConnInv(c)'
        BY <1>1, <1>2, <1>3, <1>4, <2>1, <2>2, LookMoves
    <2> QED BY <1>1, <2>3, QuietSelf
<1>7. ~Fault("access")
    BY DEF Assumed, Reliable, Fault
<1> QED BY <1>5, <1>6, <1>7 DEF Access

(***************************************************************************)
(* The answer of xAccess, once it is in the table.                         *)
(***************************************************************************)
LEMMA SeedCore ==
    ASSUME Assumed, NEW c \in Conn, Seed(c), ~overtaken'
    PROVE  Core'
<1>1. SameBlobs /\ found' = found /\ pc[c] = "seed" /\ StoreAnswer(c) /\ Accessed(c, found[c])
    BY DEF Seed, SameBlobs
<1>2. PcOfPhase(c) /\ PlayInv(c) /\ ~Live(c) /\ (Cleared(c) => Current(c))
    BY <1>1, OfConn DEF Live
<1>3. phase[c] \in {"check", "play"}
    BY <1>1, <1>2 DEF PcOfPhase, Assumed, TypeOK, Phase
<1>4. phase[c] = "play" => cache[c] = db /\ found[c] = jExists
    BY <1>1, <1>2 DEF PlayInv
<1>5. \A d \in Conn : Live(d) /\ pc[d] # "upload" /\ state[procOf[d]] = 1 => state'[procOf[d]] = 1
    BY <1>1, StoredAnswer
<1>6. CASE found[c]
    <2>1. \/ phase[c] = "check" /\ Moves(c, "reserved")
          \/ phase[c] = "play" /\ Moves(c, "open")
        BY <1>1, <1>6, AccessedEffect DEF Assumed
    <2>2. Quiet({c}) /\ ConnInv(c)'
        BY <1>1, <1>2, <1>4, <1>5, <2>1, LookMoves
    <2> QED BY <1>1, <2>2, StoredCore
<1>7. CASE ~found[c]
    <2>0. found[c] \in BOOLEAN /\ TypeOK
        BY DEF Assumed, TypeOK
    <2>1. StartsReading(c)
        BY <1>1, <1>7, <2>0, AccessedEffect
    <2>3. ASSUME phase[c] = "play" PROVE Current(c)
        <3>1. jBlob = Empty
            BY <1>4, <1>7, <2>3 DEF Assumed, Core
        <3> QED BY <1>2, <3>1, EmptyLook, BecomesCurrent DEF Assumed
    <2>4. Current(c)
        BY <1>1, <1>2, <1>3, <1>7, <2>3 DEF Cleared
    <2>5. Quiet({c}) /\ ConnInv(c)'
        BY <1>1, <1>5, <2>1, <2>4, ReadingSelf
    <2> QED BY <1>1, <2>5, StoredCore
<1> QED BY <1>6, <1>7

(***************************************************************************)
(* xCheckReservedLock keeps the invariant.                                 *)
(***************************************************************************)
LEMMA CheckReservedCore ==
    ASSUME Assumed, NEW c \in Conn, CheckReserved(c)
    PROVE  Core'
<1>1. SameBlobs /\ state' = state /\ found' = found /\ pc[c] = "reserved"
    BY DEF CheckReserved, tableVars, SameBlobs
<1>2. phase[c] = "check" /\ ~Live(c)
    BY <1>1, OfConn DEF PcOfPhase, Assumed, TypeOK, Phase, Live
<1>3. CASE StartReading(c)
    BY <1>1, <1>3, StartReadingEffect, ReadingCore DEF Assumed
<1>4. CASE GoTo(c, "open") /\ UNCHANGED <<holder, phase, cache, jBuf, todo, past>>
    <2>1. Moves(c, "open")
        BY <1>4, MovesEffect DEF Assumed, PC
    <2>2. Quiet({c}) /\ ConnInv(c)'
        BY <1>1, <1>2, <2>1, LookMoves
    <2> QED BY <1>1, <2>2, QuietSelf
<1> QED BY <1>3, <1>4 DEF CheckReserved

(***************************************************************************)
(* xOpen of the journal keeps the invariant: up to the request.            *)
(***************************************************************************)
LEMMA OpenCore ==
    ASSUME Assumed, NEW c \in Conn, Open(c)
    PROVE  Core'
<1>1. SameBlobs /\ state' = state /\ pc[c] = "open"
    BY DEF Open, tableVars, SameBlobs
<1>2. PcOfPhase(c) /\ PlayInv(c) /\ TxInv(c) /\ ~Live(c)
    BY <1>1, OfConn DEF Live
<1>3. phase[c] \in {"check", "play", "tx"}
    BY <1>1, <1>2 DEF PcOfPhase, Assumed, TypeOK, Phase
<1>4. ASSUME state[procOf[c]] = 0, Opened(c, Empty), found' = found PROVE Core'
    <2>1. Empty \in [Page -> Nat \cup {None}]
        BY DEF Empty, None
    <2>2. Opens(c, Empty)
        BY <1>4, <2>1, OpenedEffect DEF Assumed
    <2>3. Recoverable = db /\ Current(c)
        BY <1>2, <1>4, TableLook, BecomesCurrent DEF Assumed
    <2>4. Quiet({c}) /\ ConnInv(c)'
        BY <1>1, <1>4, <2>1, <2>2, <2>3, OpensSelf
    <2> QED BY <1>1, <2>4, QuietSelf
<1>5. ASSUME found' = [found EXCEPT ![c] = jExists], GoTo(c, "openSeed"),
             UNCHANGED <<holder, phase, cache, jBuf, todo, past>>
      PROVE  Core'
    <2>1. Moves(c, "openSeed") /\ found'[c] = jExists /\ \A d \in Conn \ {c} : found'[d] = found[d]
        BY <1>5, MovesEffect DEF Assumed, PC, TypeOK
    <2>2. ~jExists => Current(c)
        <3> SUFFICES ASSUME ~jExists PROVE Current(c)
            OBVIOUS
        <3>1. jBlob = Empty
            BY DEF Assumed, Core
        <3> QED BY <1>2, <3>1, EmptyLook, BecomesCurrent DEF Assumed
    <2>3. /\ phase[c] = "play" => cache[c] = db
          /\ phase[c] = "tx" => Recoverable = db
        BY <1>1, <1>2 DEF PlayInv, TxInv
    <2>4. Quiet({c}) /\ ConnInv(c)'
        BY <1>1, <1>2, <1>3, <2>1, <2>2, <2>3, LookMoves
    <2> QED BY <1>1, <2>4, QuietSelf
<1>6. ~Fault("head")
    BY DEF Assumed, Reliable, Fault
<1> QED BY <1>4, <1>5, <1>6 DEF Open

(***************************************************************************)
(* xOpen of the journal, with the answer in the table.                     *)
(***************************************************************************)
LEMMA OpenSeedCore ==
    ASSUME Assumed, NEW c \in Conn, OpenSeed(c), ~overtaken'
    PROVE  Core'
<1>1. SameBlobs /\ found' = found /\ pc[c] = "openSeed" /\ StoreAnswer(c)
    BY DEF OpenSeed, SameBlobs
<1>2. PcOfPhase(c) /\ PlayInv(c) /\ TxInv(c) /\ ~Live(c) /\ (Cleared(c) => Current(c))
    BY <1>1, OfConn DEF Live
<1>3. phase[c] \in {"check", "play", "tx"}
    BY <1>1, <1>2 DEF PcOfPhase, Assumed, TypeOK, Phase
<1>4. /\ phase[c] = "play" => cache[c] = db /\ found[c] = jExists
      /\ phase[c] = "tx" => Recoverable = db
    BY <1>1, <1>2 DEF PlayInv, TxInv
<1>5. \A d \in Conn : Live(d) /\ pc[d] # "upload" /\ state[procOf[d]] = 1 => state'[procOf[d]] = 1
    BY <1>1, StoredAnswer
<1>6. ASSUME GoTo(c, "get"), UNCHANGED <<holder, phase, cache, jBuf, todo, past>> PROVE Core'
    <2>1. Moves(c, "get")
        BY <1>6, MovesEffect DEF Assumed, PC
    <2>2. Quiet({c}) /\ ConnInv(c)'
        BY <1>1, <1>2, <1>3, <1>4, <1>5, <2>1, LookMoves
    <2> QED BY <1>1, <2>2, StoredCore
<1>7. ASSUME ~found[c], Opened(c, Empty) PROVE Core'
    <2>1. Empty \in [Page -> Nat \cup {None}]
        BY DEF Empty, None
    <2>2. Opens(c, Empty)
        BY <1>7, <2>1, OpenedEffect DEF Assumed
    <2>3. phase[c] = "check" => Current(c)
        BY <1>1, <1>2, <1>7 DEF Cleared
    <2>4. phase[c] = "play" => Empty = jBlob
        BY <1>4, <1>7 DEF Assumed, Core
    <2>5. Quiet({c}) /\ ConnInv(c)'
        BY <1>1, <1>5, <2>1, <2>2, <2>3, <2>4, OpensSelf
    <2> QED BY <1>1, <2>5, StoredCore
<1> QED BY <1>6, <1>7 DEF OpenSeed

(***************************************************************************)
(* The download of the journal keeps the invariant.                        *)
(***************************************************************************)
LEMMA GetCore ==
    ASSUME Assumed, NEW c \in Conn, Get(c)
    PROVE  Core'
<1>1. SameBlobs /\ state' = state /\ found' = found /\ pc[c] = "get"
    BY DEF Get, tableVars, SameBlobs
<1>2. ~Fault("download") /\ jBlob \in [Page -> Nat \cup {None}] /\ ~Live(c)
    BY <1>1 DEF Assumed, Reliable, Fault, TypeOK, Live
<1>3. Opened(c, jBlob)
    BY <1>2 DEF Get
<1>4. Opens(c, jBlob)
    BY <1>2, <1>3, OpenedEffect DEF Assumed
<1>5. Entries(jBlob) = {} => Current(c)
    <2> SUFFICES ASSUME Entries(jBlob) = {} PROVE Current(c)
        OBVIOUS
    <2>1. jBlob = Empty
        BY <1>2 DEF Entries, Empty
    <2> QED BY <1>2, <2>1, EmptyLook, BecomesCurrent DEF Assumed
<1>6. Quiet({c}) /\ ConnInv(c)'
    BY <1>1, <1>2, <1>4, <1>5, OpensSelf
<1> QED BY <1>1, <1>6, QuietSelf

(***************************************************************************)
(* EXCLUSIVE for a rollback keeps the invariant.                           *)
(***************************************************************************)
LEMMA HotLockCore ==
    ASSUME Assumed, NEW c \in Conn, HotLock(c)
    PROVE  Core'
<1>1. SameBlobs /\ state' = state /\ found' = found
    BY DEF HotLock, tableVars, SameBlobs, Leave
<1>2. CASE Leaves(c)
    BY <1>1, <1>2, LeavesCore
<1>3. CASE Becomes(c, "access", "play", db, jBuf[c], todo[c])
    <2>1. /\ pc'[c] = "access" /\ phase'[c] = "play" /\ cache'[c] = db
          /\ \A d \in Conn \ {c} : Kept(d)
        BY <1>3 DEF Becomes
    <2>2. ~Live(c)' /\ TxInv(c)' /\ ~Cleared(c)'
        BY <2>1 DEF Live, TxInv, Cleared
    <2>3. PlayInv(c)'
        BY <1>1, <2>1 DEF PlayInv, SameBlobs
    <2> QED BY <1>1, <2>1, <2>2, <2>3, QuietCore DEF ConnInv
<1> QED BY <1>2, <1>3, HotLockEffect DEF Assumed

(***************************************************************************)
(* RESERVED keeps the invariant: it is granted over the blob's content,    *)
(* and that is then what recovery finds.                                   *)
(***************************************************************************)
LEMMA ReserveCore ==
    ASSUME Assumed, NEW c \in Conn, Reserve(c)
    PROVE  Core'
<1>1. /\ SameBlobs /\ state' = state /\ found' = found
      /\ pc[c] = "reading" /\ cache[c] = db /\ (c \in past => layout.pastWriters)
    BY DEF Reserve, tableVars, SameBlobs
<1>2. Current(c)
    BY <1>1, OfConn DEF Cleared, Assumed, Orderly
<1>3. Recoverable = db
    BY <1>1, <1>2 DEF Current, Dead
<1>4. /\ pc'[c] = "open" /\ phase'[c] = "tx" /\ cache'[c] = cache[c]
      /\ \A d \in Conn \ {c} : Kept(d)
    BY ReserveEffect DEF Becomes, Assumed
<1>5. ~Live(c)' /\ PlayInv(c)' /\ ~Cleared(c)'
    BY <1>4 DEF Live, PlayInv, Cleared
<1>6. Recoverable' = Recoverable /\ db' = db
    BY <1>1 DEF SameBlobs, Recoverable
<1>7. TxInv(c)'
    BY <1>3, <1>4, <1>5, <1>6 DEF TxInv
<1> QED BY <1>1, <1>4, <1>5, <1>7, QuietCore DEF ConnInv

(***************************************************************************)
(* The end of a read, and of a transaction.                                *)
(***************************************************************************)
LEMMA UnlockCore ==
    ASSUME Assumed, NEW c \in Conn, EndRead(c) \/ Unlock(c)
    PROVE  Core'
<1>1. SameBlobs /\ state' = state /\ found' = found
    BY DEF EndRead, Unlock, tableVars, SameBlobs, Leave
<1>2. CASE Leave(c)
    BY <1>1, <1>2, LeaveEffect, LeavesCore DEF Assumed
<1>3. CASE pc[c] = "unlock" /\ phase[c] = "play" /\ StartReading(c)
    <2>1. Current(c)
        BY <1>3, OfConn DEF PlayInv, Current
    <2> QED BY <1>1, <1>3, <2>1, StartReadingEffect, ReadingCore DEF Assumed
<1> QED BY <1>2, <1>3 DEF EndRead, Unlock

-----------------------------------------------------------------------------
(* The steps of a transaction and of a rollback. *)

(***************************************************************************)
(* The phase of a connection that sends the journal, a page or the end of  *)
(* the journal: it owns the lease.                                         *)
(***************************************************************************)
LEMMA OwnerAt ==
    ASSUME Assumed, NEW c \in Conn, pc[c] \in {"upload", "put", "finalise"}
    PROVE  /\ Owns(c)
           /\ Live(c) \/ phase[c] \in {"play", "undo"}
           /\ pc[c] = "upload" => phase[c] \in {"play", "tx"}
           /\ \A d \in Conn \ {c} : ~Owns(d) /\ ~Live(d)
<1>1. PcOfPhase(c) /\ phase[c] \in Phase
    BY OfConn DEF Assumed, TypeOK
<1>2. Owns(c) /\ (Live(c) \/ phase[c] \in {"play", "undo"})
    BY <1>1 DEF PcOfPhase, Phase, Owns, Live
<1>3. pc[c] = "upload" => phase[c] \in {"play", "tx"}
    BY <1>1 DEF PcOfPhase, Phase
<1>4. \A d \in Conn \ {c} : ~Owns(d)
    BY <1>2, OfConn
<1> QED BY <1>2, <1>3, <1>4 DEF Owns, Live

(***************************************************************************)
(* A rollback from the buffer that begins.                                 *)
(***************************************************************************)
LEMMA UndoesCore ==
    ASSUME Assumed, NEW c \in Conn, SameBlobs, state' = state, found' = found, Live(c),
           NEW next \in {"put", "finalise"}, NEW S, Undoes(c, next, S),
           S = Entries(jBuf[c]) \/ pc[c] = "upload"
    PROVE  Core'
<1>1. /\ pc'[c] = next /\ phase'[c] = "undo" /\ cache'[c] = Undo(jBuf[c], cache[c])
      /\ todo'[c] = S /\ \A d \in Conn \ {c} : Kept(d)
    BY DEF Undoes, Becomes
<1>2. /\ Undo(jBuf[c], cache[c]) = Recoverable
      /\ \A p \in Page \ S : db[p] = Recoverable[p]
    BY UndoesToRecoverable DEF Assumed
<1>3. ~Live(c)' /\ TxInv(c)' /\ ~Cleared(c)'
    BY <1>1 DEF Live, TxInv, Cleared
<1>4. Recoverable' = Recoverable /\ db' = db
    BY DEF SameBlobs, Recoverable
<1>5. PlayInv(c)'
    BY <1>1, <1>2, <1>4 DEF PlayInv
<1> QED BY <1>1, <1>2, <1>3, <1>5, QuietCore DEF ConnInv

(***************************************************************************)
(* ROLLBACK before the commit.                                             *)
(***************************************************************************)
LEMMA RollbackCore ==
    ASSUME Assumed, NEW c \in Conn, Rollback(c)
    PROVE  Core'
<1>1. /\ SameBlobs /\ state' = state /\ found' = found /\ Live(c) /\ pc[c] = "upload"
      /\ Discard(c)
    BY DEF Rollback, Discard, tableVars, SameBlobs, Live
<1> QED BY <1>1, DiscardEffect, UndoesCore DEF Assumed

(***************************************************************************)
(* A page that cannot be written: the transaction is undone from the       *)
(* buffer, or the rollback is left to the next connection.                 *)
(***************************************************************************)
LEMMA PutFailCore ==
    ASSUME Assumed, NEW c \in Conn, PutFail(c)
    PROVE  Core'
<1>1. SameBlobs /\ state' = state /\ pc[c] = "put" /\ PlayBack(c)
    BY DEF PutFail, tableVars, SameBlobs
<1>2. found' = found
    BY <1>1 DEF PlayBack, Leave
<1>3. CASE phase[c] = "tx" /\ Undoes(c, "put", Entries(jBuf[c]))
    BY <1>1, <1>2, <1>3, UndoesCore DEF Live
<1>4. CASE Leaves(c)
    BY <1>1, <1>2, <1>4, LeavesCore
<1> QED BY <1>1, <1>3, <1>4, PlayBackEffect DEF Assumed

(***************************************************************************)
(* The end of the flush.                                                   *)
(***************************************************************************)
LEMMA FlushedCore ==
    ASSUME Assumed, NEW c \in Conn, Flushed(c)
    PROVE  Core'
<1>1. SameBlobs /\ state' = state /\ found' = found /\ pc[c] = "put"
    BY DEF Flushed, blobVars, tableVars, SameBlobs
<1>2. /\ pc'[c] = "finalise" /\ phase'[c] = phase[c] /\ cache'[c] = cache[c] /\ jBuf'[c] = jBuf[c]
      /\ todo'[c] = todo[c] /\ \A d \in Conn \ {c} : Kept(d)
    BY UploadEffect DEF Moves, Becomes, Assumed
<1>3. TxInv(c) /\ PlayInv(c)
    BY OfConn
<1>4. /\ Recoverable' = Recoverable /\ db' = db /\ jBlob' = jBlob /\ nTx' = nTx
      /\ layout' = layout
    BY <1>1 DEF SameBlobs, Recoverable
<1>5. Live(c)' <=> Live(c)
    BY <1>1, <1>2 DEF Live
<1>6. TxInv(c)'
    BY <1>1, <1>2, <1>3, <1>4, <1>5 DEF TxInv, procOf
<1>7. PlayInv(c)'
    BY <1>1, <1>2, <1>3, <1>4 DEF PlayInv
<1>8. ~Cleared(c)'
    BY <1>2 DEF Cleared
<1> QED BY <1>1, <1>2, <1>5, <1>6, <1>7, <1>8, QuietCore DEF ConnInv

(***************************************************************************)
(* A step of the lease's owner that leaves recovery as it is.              *)
(***************************************************************************)
LEMMA OwnerCore ==
    ASSUME Assumed, NEW c \in Conn, Owns(c),
           \A d \in Conn \ {c} : Kept(d), found' = found, nTx' = nTx,
           Recoverable' = Recoverable,
           \A p \in Page : \/ db'[p] = db[p] \/ db'[p] = Recoverable[p]
                           \/ Live(c) /\ db'[p] = cache[c][p],
           Live(c)' => Live(c) /\ cache'[c] = cache[c],
           \A p \in Page : cache'[c][p] \in {Recoverable[p], cache[c][p], 0},
           jBlob' # Empty => jExists', TableInv', ConnInv(c)'
    PROVE  Core'
<1>1. \A d \in Conn \ {c} : ConnInv(d)'
    BY OwnerOthers DEF Assumed
<1>2. Bounded /\ nTx \in Nat
    BY DEF Assumed, Core, TypeOK
<1>3. \A p \in Page : db'[p] <= nTx
    BY <1>2 DEF Bounded
<1>4. ASSUME NEW d \in Conn, NEW p \in Page PROVE cache'[d][p] <= nTx
    <2>1. CASE d = c
        BY <1>2, <2>1, SMT DEF Bounded
    <2>2. CASE d # c
        BY <1>2, <2>2 DEF Bounded, Kept
    <2> QED BY <2>1, <2>2
<1>5. Bounded'
    BY <1>2, <1>3, <1>4 DEF Bounded
<1> QED BY <1>1, <1>5 DEF Core

(***************************************************************************)
(* The upload of the buffer leaves recovery as it is: what it puts back is *)
(* what the blob holds, and a rollback sends the journal it has read.      *)
(***************************************************************************)
LEMMA UploadedRecoverable ==
    ASSUME Assumed, NEW c \in Conn, pc[c] = "upload", JournalUploaded(c), db' = db
    PROVE  Recoverable' = Recoverable
<1>1. phase[c] \in {"play", "tx"} /\ TxInv(c) /\ PlayInv(c)
    BY OwnerAt, OfConn
<1>2. jBlob' = jBuf[c]
    BY DEF JournalUploaded
<1>3. CASE phase[c] = "play"
    BY <1>1, <1>2, <1>3 DEF PlayInv, Recoverable
<1>4. CASE phase[c] = "tx"
    <2>1. Live(c)
        BY <1>4 DEF Live
    <2>2. /\ Recoverable = db
          /\ \A p \in Page : jBuf[c][p] # None => jBuf[c][p] = Recoverable[p]
        BY <1>1, <1>4, <2>1 DEF TxInv
    <2>3. \A p \in Page : Recoverable'[p] = Recoverable[p]
        BY <1>2, <2>2, RecoverableNext DEF Assumed
    <2>4. Recoverable \in [Page -> Nat] /\ Recoverable' \in [Page -> Nat]
        BY RecoverableAt, RecoverableNext DEF Assumed
    <2> QED BY <2>3, <2>4, SMT
<1> QED BY <1>1, <1>3, <1>4

(***************************************************************************)
(* xSync of the journal keeps the invariant.                               *)
(***************************************************************************)
LEMMA UploadCore ==
    ASSUME Assumed, NEW c \in Conn, Upload(c)
    PROVE  Core'
<1>1. /\ pc[c] = "upload" /\ JournalUploaded(c) /\ SetState(c, 1)
      /\ db' = db /\ found' = found /\ nTx' = nTx /\ layout' = layout
    BY DEF Upload
<1>2. /\ pc'[c] = "put" /\ phase'[c] = phase[c] /\ cache'[c] = cache[c] /\ jBuf'[c] = jBuf[c]
      /\ todo'[c] = todo[c] /\ \A d \in Conn \ {c} : Kept(d)
    BY UploadEffect DEF Moves, Becomes, Assumed
<1>3. Owns(c) /\ TxInv(c) /\ PlayInv(c)
    BY <1>1, OwnerAt, OfConn
<1>4. Recoverable' = Recoverable
    BY <1>1, UploadedRecoverable
<1>5. jExists' /\ jBlob' = jBuf[c]
    BY <1>1 DEF JournalUploaded
<1>6. /\ state \in [Proc -> {Unknown, 0, 1}] /\ procOf[c] \in Proc /\ TableInv
    BY TableTypes DEF Assumed, TypeOK, Core
<1>7. state' = IF procOf[c] \in layout.tracked THEN [state EXCEPT ![procOf[c]] = 1] ELSE state
    BY <1>1 DEF SetState
<1>8. /\ procOf[c] \in layout.tracked => state'[procOf[c]] = 1
      /\ \A r \in Proc : state'[r] = 0 => state[r] = 0
      /\ \A r \in Proc : r \notin layout.tracked => state'[r] = state[r]
    BY <1>6, <1>7, SMT
<1>9. TableInv'
    <2>1. ASSUME NEW d \in Conn, state'[procOf[d]] = 0 PROVE Recoverable' = db'
        <3>1. procOf[d] \in Proc
            BY TableTypes DEF Assumed
        <3> QED BY <1>1, <1>4, <1>6, <1>8, <2>1, <3>1 DEF TableInv
    <2> QED BY <1>1, <1>6, <1>8, <2>1 DEF TableInv, procOf
<1>10. Live(c)' <=> Live(c)
    BY <1>1, <1>2 DEF Live
<1>11. TxInv(c)'
    BY <1>1, <1>2, <1>3, <1>4, <1>5, <1>8, <1>10 DEF TxInv, procOf
<1>12. PlayInv(c)' /\ ~Cleared(c)'
    BY <1>1, <1>2, <1>3, <1>4 DEF PlayInv, Cleared
<1>13. ConnInv(c)'
    BY <1>11, <1>12 DEF ConnInv
<1> QED BY <1>1, <1>2, <1>3, <1>4, <1>5, <1>9, <1>10, <1>13, OwnerCore

(***************************************************************************)
(* An upload that fails, and one whose answer is lost, keep the invariant. *)
(***************************************************************************)
LEMMA UploadFailCore ==
    ASSUME Assumed, NEW c \in Conn, UploadFail(c)
    PROVE  Core'
<1>1. /\ pc[c] = "upload" /\ db' = db /\ nTx' = nTx /\ layout' = layout /\ state' = state
      /\ found' = found
    BY DEF UploadFail, Discard, Leave, tableVars
<1>2. \/ phase[c] = "tx" /\ Undoes(c, "finalise", {})
      \/ phase[c] = "play" /\ Leaves(c)
    BY DiscardEffect, LeaveEffect DEF UploadFail, Assumed
<1>3. CASE UNCHANGED <<jExists, jBlob>>
    <2>1. SameBlobs
        BY <1>1, <1>3 DEF SameBlobs
    <2>2. CASE phase[c] = "tx" /\ Undoes(c, "finalise", {})
        BY <1>1, <2>1, <2>2, UndoesCore DEF Live
    <2>3. CASE Leaves(c)
        BY <1>1, <2>1, <2>3, LeavesCore
    <2> QED BY <1>2, <2>2, <2>3
<1>4. CASE JournalUploaded(c)
    <2>1. Recoverable' = Recoverable /\ Owns(c)
        BY <1>1, <1>4, UploadedRecoverable, OwnerAt
    <2>2. jExists'
        BY <1>4 DEF JournalUploaded
    <2>3. TableInv'
        BY <1>1, <2>1 DEF Assumed, Core, TableInv, procOf
    <2>4. CASE phase[c] = "tx" /\ Undoes(c, "finalise", {})
        <3>1. /\ pc'[c] = "finalise" /\ phase'[c] = "undo" /\ cache'[c] = Undo(jBuf[c], cache[c])
              /\ todo'[c] = {} /\ \A d \in Conn \ {c} : Kept(d)
            BY <2>4 DEF Undoes, Becomes
        <3>2. Undo(jBuf[c], cache[c]) = Recoverable /\ Recoverable = db
            BY <1>1, <2>4, UndoesToRecoverable DEF Assumed, Live
        <3>3. ~Live(c)' /\ TxInv(c)' /\ ~Cleared(c)'
            BY <3>1 DEF Live, TxInv, Cleared
        <3>4. PlayInv(c)'
            BY <1>1, <2>1, <3>1, <3>2 DEF PlayInv
        <3>5. ConnInv(c)'
            BY <3>3, <3>4 DEF ConnInv
        <3> QED BY <1>1, <2>1, <2>2, <2>3, <3>1, <3>2, <3>3, <3>5, OwnerCore
    <2>5. CASE Leaves(c)
        <3>1. /\ pc'[c] = "idle" /\ phase'[c] = "none" /\ cache'[c] = Blank
              /\ \A d \in Conn \ {c} : Kept(d)
            BY <2>5 DEF Leaves, Becomes
        <3>2. ConnInv(c)' /\ ~Live(c)'
            BY <3>1 DEF ConnInv, TxInv, PlayInv, Cleared, Live
        <3>3. \A p \in Page : cache'[c][p] = 0
            BY <3>1 DEF Blank
        <3> QED BY <1>1, <2>1, <2>2, <2>3, <3>1, <3>2, <3>3, OwnerCore
    <2> QED BY <1>2, <2>4, <2>5
<1> QED BY <1>3, <1>4 DEF UploadFail

(***************************************************************************)
(* One page of a flush keeps the invariant: a commit writes only pages     *)
(* that the journal holds, a rollback writes what the journal held.        *)
(***************************************************************************)
LEMMA PutCore ==
    ASSUME Assumed, NEW c \in Conn, Put(c)
    PROVE  Core' /\ Recoverable' = Recoverable
<1>1. /\ pc[c] = "put" /\ found' = found /\ nTx' = nTx /\ layout' = layout /\ state' = state
      /\ jExists' = jExists /\ jBlob' = jBlob
    BY DEF Put, tableVars
<1>2. PICK p \in todo[c] :
         /\ Becomes(c, "put", phase[c], cache[c], jBuf[c], todo[c] \ {p})
         /\ \A q \in Page : db'[q] = IF q = p THEN cache[c][p] ELSE db[q]
    BY PutEffect DEF Assumed
<1>3. /\ pc'[c] = "put" /\ phase'[c] = phase[c] /\ cache'[c] = cache[c] /\ jBuf'[c] = jBuf[c]
      /\ todo'[c] = todo[c] \ {p} /\ \A d \in Conn \ {c} : Kept(d)
    BY <1>2 DEF Becomes
<1>4. Owns(c) /\ (Live(c) \/ phase[c] \in {"play", "undo"}) /\ TxInv(c) /\ PlayInv(c) /\ p \in Page
    BY <1>1, OwnerAt, OfConn DEF Assumed, TypeOK
<1>5. TypeOK /\ TypeOK' /\ Reliable /\ Core
    BY DEF Assumed
<1>6. Live(c) => p \in Entries(jBuf[c]) /\ jBlob = jBuf[c]
    BY <1>1, <1>4 DEF TxInv
<1>7. phase[c] \in {"play", "undo"} => cache[c][p] = Recoverable[p]
    BY <1>1, <1>4 DEF PlayInv
<1>8. Recoverable' = Recoverable
    <2>1. ASSUME NEW q \in Page PROVE Recoverable'[q] = Recoverable[q]
        <3>1. CASE Live(c)
            BY <1>1, <1>2, <1>5, <1>6, <3>1, RecoverableAt, RecoverableNext DEF Entries
        <3>2. CASE phase[c] \in {"play", "undo"}
            BY <1>1, <1>2, <1>5, <1>7, <3>2, RecoverableAt, RecoverableNext
        <3> QED BY <1>4, <3>1, <3>2
    <2>2. Recoverable \in [Page -> Nat] /\ Recoverable' \in [Page -> Nat]
        BY <1>5, RecoverableAt, RecoverableNext
    <2> QED BY <2>1, <2>2, SMT
<1>9. TableInv'
    <2>1. TableInv
        BY <1>5 DEF Core
    <2>2. ASSUME NEW d \in Conn, state[procOf[d]] = 0 PROVE Recoverable = db'
        <3>1. Recoverable = db /\ ~Live(c)
            BY <1>1, <1>5, <2>2, TableLook
        <3>2. \A q \in Page : db'[q] = db[q]
            BY <1>2, <1>4, <1>7, <3>1
        <3>3. db \in [Page -> Nat] /\ db' \in [Page -> Nat]
            BY <1>5 DEF TypeOK
        <3> QED BY <3>1, <3>2, <3>3, SMT
    <2> QED BY <1>1, <1>8, <2>1, <2>2 DEF TableInv, procOf
<1>10. Live(c)' <=> Live(c)
    BY <1>1, <1>3 DEF Live
<1>11. TxInv(c)'
    <2>1. CASE Live(c)
        <3>1. \A q \in Page : jBuf[c][q] = None => db'[q] = db[q]
            BY <1>2, <1>6, <2>1 DEF Entries
        <3> QED BY <1>1, <1>3, <1>4, <1>8, <1>10, <2>1, <3>1 DEF TxInv, procOf
    <2>2. CASE ~Live(c)
        BY <1>3, <1>4, <1>10, <2>2 DEF TxInv
    <2> QED BY <2>1, <2>2
<1>12. PlayInv(c)'
    <2>1. phase[c] \in {"play", "undo"} => \A q \in Page \ (todo[c] \ {p}) : db'[q] = Recoverable[q]
        BY <1>1, <1>2, <1>4, <1>7 DEF PlayInv
    <2> QED BY <1>1, <1>3, <1>4, <1>8, <2>1 DEF PlayInv
<1>13. ConnInv(c)'
    BY <1>3, <1>11, <1>12 DEF ConnInv, Cleared
<1>14. \A q \in Page : db'[q] = db[q] \/ db'[q] = Recoverable[q] \/ (Live(c) /\ db'[q] = cache[c][q])
    BY <1>2, <1>4, <1>7
<1>15. jBlob' # Empty => jExists'
    BY <1>1, <1>5 DEF Core
<1> QED BY <1>1, <1>3, <1>4, <1>8, <1>9, <1>10, <1>13, <1>14, <1>15, OwnerCore

\* The journal becomes cold in DELETE or PERSIST mode, known to the pager or not.
Ends(c, mode) ==
    /\ pc[c] = "finalise" /\ mode # "truncate" /\ JournalCold(mode)
    /\ db' = db /\ nTx' = nTx /\ layout' = layout /\ found' = found
    /\ \A r \in Proc : r \notin layout.tracked => state'[r] = state[r]

(***************************************************************************)
(* The end of a journal, and a deletion whose answer is lost, end it.      *)
(***************************************************************************)
LEMMA FinaliseEnds ==
    ASSUME Assumed, NEW c \in Conn, NEW mode \in layout.modes
    PROVE  /\ Finalise(c, mode) => Ends(c, mode) /\ Moves(c, "unlock")
           /\ FinaliseFail(c, mode) => Leaves(c) /\ (SameBlobs \/ Ends(c, mode))
<1>1. /\ TypeOK /\ mode # "truncate"
      /\ state \in [Proc -> {Unknown, 0, 1}] /\ procOf[c] \in Proc
    BY TableTypes DEF Assumed, Orderly, NoTruncate, TypeOK
<1>2. ASSUME Finalise(c, mode) PROVE Ends(c, mode) /\ Moves(c, "unlock")
    <2>1. \E s : SetState(c, s)
        BY <1>1, <1>2 DEF Finalise
    <2>2. \A r \in Proc : r \notin layout.tracked => state'[r] = state[r]
        BY <1>1, <2>1 DEF SetState
    <2> QED BY <1>1, <1>2, <2>2, UploadEffect DEF Finalise, Ends
<1>3. ASSUME FinaliseFail(c, mode) PROVE Leaves(c) /\ (SameBlobs \/ Ends(c, mode))
    <2>1. /\ pc[c] = "finalise" /\ Leave(c) /\ state' = state
          /\ db' = db /\ nTx' = nTx /\ layout' = layout
          /\ UNCHANGED <<jExists, jBlob>> \/ JournalCold(mode)
        BY <1>3 DEF FinaliseFail, tableVars
    <2>2. found' = found
        BY <2>1 DEF Leave
    <2>3. SameBlobs \/ Ends(c, mode)
        BY <1>1, <2>1, <2>2 DEF SameBlobs, Ends
    <2> QED BY <1>1, <2>1, <2>3, LeaveEffect
<1> QED BY <1>2, <1>3

(***************************************************************************)
(* Once the journal has ended, the page blob is what recovery finds, and   *)
(* it holds the transaction, or what recovery found before.                *)
(***************************************************************************)
LEMMA FinaliseFacts ==
    ASSUME Assumed, NEW c \in Conn, NEW mode, Ends(c, mode)
    PROVE  /\ Recoverable' = db' /\ db' = db /\ jBlob' = Empty
           /\ phase[c] = "tx" => db = cache[c]
           /\ phase[c] # "tx" => db = Recoverable /\ cache[c] = Recoverable
<1>1. pc[c] = "finalise" /\ db' = db /\ JournalCold(mode) /\ mode # "truncate"
    BY DEF Ends
<1>2. jBlob' = Empty
    BY <1>1 DEF JournalCold
<1>3. Recoverable' = db'
    BY <1>2, RecoverableNext DEF Assumed
<1>4. todo[c] = {} /\ PlayInv(c) /\ (Live(c) \/ phase[c] \in {"play", "undo"}) /\ Flushes(c)
    BY <1>1, OfConn, OwnerAt DEF Flushes
<1>5. db \in [Page -> Nat] /\ cache[c] \in [Page -> Nat] /\ Recoverable \in [Page -> Nat]
    BY RecoverableAt DEF Assumed, TypeOK
<1>6. ASSUME phase[c] = "tx" PROVE db = cache[c]
    <2>1. \A p \in Page : db[p] = cache[c][p]
        BY <1>1, <1>4, <1>6 DEF Flushes, Live
    <2> QED BY <1>5, <2>1, SMT
<1>7. ASSUME phase[c] # "tx" PROVE db = Recoverable /\ cache[c] = Recoverable
    <2>1. phase[c] \in {"play", "undo"}
        BY <1>4, <1>7 DEF Live
    <2>2. cache[c] = Recoverable /\ \A p \in Page : db[p] = Recoverable[p]
        BY <1>1, <1>4, <2>1 DEF PlayInv
    <2> QED BY <1>5, <2>2, SMT
<1> QED BY <1>1, <1>2, <1>3, <1>6, <1>7

(***************************************************************************)
(* A commit makes every file that had looked, and is not the new content,  *)
(* one that can never be reserved.                                         *)
(***************************************************************************)
LEMMA CommitCurrent ==
    ASSUME Assumed, NEW c \in Conn, NEW d \in Conn \ {c}, Live(c), Current(d), cache'[d] = cache[d],
           db' = db, db = cache[c], Recoverable' = db, \A e \in Conn : ~Live(e)'
    PROVE  Current(d)'
<1>1. ASSUME NEW p \in Page, cache[d][p] # db[p] PROVE Dead(d, p)'
    BY <1>1 DEF Dead
<1>2. CASE cache[d] = Recoverable
    <2>1. TxInv(c)
        BY OfConn
    <2>2. PICK p \in Page : jBuf[c][p] # None
        BY <2>1 DEF TxInv, Entries
    <2>3. cache[c][p] = nTx /\ Recoverable[p] < nTx
        BY <2>1, <2>2 DEF TxInv
    <2>4. Recoverable[p] \in Nat /\ nTx \in Nat
        BY RecoverableAt DEF Assumed, TypeOK
    <2>5. cache[d][p] # db[p]
        BY <1>2, <2>3, <2>4, SMT
    <2> QED BY <1>1, <2>5 DEF Current
<1>3. ASSUME NEW p \in Page, Dead(d, p) PROVE Current(d)'
    <2>1. cache[d][p] # db[p]
        BY <1>3 DEF Dead
    <2> QED BY <1>1, <2>1 DEF Current
<1> QED BY <1>2, <1>3 DEF Current

(***************************************************************************)
(* A journal that has ended keeps the invariant, whether the pager goes on *)
(* or leaves.                                                              *)
(***************************************************************************)
LEMMA EndsCore ==
    ASSUME Assumed, NEW c \in Conn, NEW mode, Ends(c, mode), Moves(c, "unlock") \/ Leaves(c)
    PROVE  Core'
<1>1. /\ pc[c] = "finalise" /\ nTx' = nTx /\ layout' = layout /\ found' = found
    BY DEF Ends
<1>2. /\ pc'[c] \in {"unlock", "idle"} /\ phase'[c] \in {phase[c], "none"}
      /\ \/ cache'[c] = cache[c]
         \/ phase'[c] = "none" /\ cache'[c] = Blank
      /\ \A d \in Conn \ {c} : Kept(d)
    BY DEF Moves, Leaves, Becomes
<1>3. Owns(c) /\ (Live(c) \/ phase[c] \in {"play", "undo"}) /\ \A d \in Conn \ {c} : ~Owns(d)
    BY <1>1, OwnerAt
<1>4. Recoverable' = db' /\ db' = db /\ jBlob' = Empty
    BY FinaliseFacts
<1>5. TableInv'
    BY <1>1, <1>4 DEF Ends, Assumed, Core, TableInv
<1>6. \A e \in Conn : ~Live(e)'
    <2> SUFFICES ASSUME NEW e \in Conn PROVE ~Live(e)'
        OBVIOUS
    <2>1. CASE e = c
        BY <1>2, <2>1 DEF Live
    <2>2. CASE e # c
        BY <1>2, <1>3, <2>2 DEF Live, Owns, Kept
    <2> QED BY <2>1, <2>2
<1>7. ConnInv(c)'
    <2>1. TxInv(c)' /\ ~Cleared(c)'
        BY <1>2, <1>6 DEF TxInv, Cleared
    <2>2. phase[c] = "play" => cache[c] = Recoverable'
        BY <1>4, FinaliseFacts
    <2>3. PlayInv(c)'
        BY <1>2, <2>2 DEF PlayInv
    <2> QED BY <2>1, <2>3 DEF ConnInv
<1>8. ASSUME NEW d \in Conn \ {c} PROVE ConnInv(d)'
    <2>1. cache'[d] = cache[d] /\ ~Owns(d)'
        BY <1>2, <1>3 DEF Kept, Owns
    <2>2. TxInv(d)' /\ PlayInv(d)'
        BY <1>6, <2>1 DEF TxInv, PlayInv, Owns
    <2>3. Cleared(d)' => Current(d)
        <3>1. Cleared(d)' => Cleared(d)
            BY <1>1, <1>2 DEF Cleared, Kept
        <3> QED BY <3>1, OfConn
    <2>4. ASSUME Current(d) PROVE Current(d)'
        <3>1. CASE Live(c)
            BY <1>4, <1>6, <2>1, <2>4, <3>1, CommitCurrent, FinaliseFacts DEF Live
        <3>2. CASE phase[c] # "tx"
            <4>1. db = Recoverable
                BY <3>2, FinaliseFacts
            <4> QED BY <1>4, <1>6, <2>1, <2>4, <4>1 DEF Current, Dead
        <3> QED BY <1>3, <3>1, <3>2
    <2> QED BY <2>2, <2>3, <2>4 DEF ConnInv
<1>9. Bounded'
    <2>1. Bounded
        BY DEF Assumed, Core
    <2>2. \A d \in Conn \ {c} : cache'[d] = cache[d]
        BY <1>2 DEF Kept
    <2>3. nTx \in Nat
        BY DEF Assumed, TypeOK
    <2>4. \A p \in Page : cache'[c][p] = cache[c][p] \/ cache'[c][p] = 0
        BY <1>2 DEF Blank
    <2>5. \A p \in Page : cache'[c][p] <= nTx
        BY <2>1, <2>3, <2>4, SMT DEF Bounded
    <2> QED BY <1>1, <1>4, <2>1, <2>2, <2>5 DEF Bounded
<1> QED BY <1>4, <1>5, <1>7, <1>8, <1>9 DEF Core

(***************************************************************************)
(* The journal's end, and its failure, keep the invariant.                 *)
(***************************************************************************)
LEMMA FinaliseCore ==
    ASSUME Assumed, NEW c \in Conn, NEW mode \in layout.modes,
           Finalise(c, mode) \/ FinaliseFail(c, mode)
    PROVE  Core'
<1>1. CASE Finalise(c, mode)
    BY <1>1, FinaliseEnds, EndsCore
<1>2. CASE FinaliseFail(c, mode)
    <2>1. Leaves(c) /\ (SameBlobs \/ Ends(c, mode))
        BY <1>2, FinaliseEnds
    <2>2. state' = state /\ found' = found
        BY <1>2 DEF FinaliseFail, Leave, tableVars
    <2> QED BY <2>1, <2>2, EndsCore, LeavesCore
<1> QED BY <1>1, <1>2

(***************************************************************************)
(* The pages of a transaction keep the invariant: they are written over    *)
(* what recovery finds, with a number that no file holds.                  *)
(***************************************************************************)
LEMMA WriteCore ==
    ASSUME Assumed, NEW c \in Conn, NEW S \in SUBSET Page, Write(c, S)
    PROVE  Core'
<1> DEFINE new == [p \in Page |-> IF p \in S THEN nTx + 1 ELSE cache[c][p]]
           old == [p \in Page |-> IF p \in S THEN cache[c][p] ELSE None]
<1>1. /\ pc[c] = "begin" /\ S # {} /\ nTx < MaxTx /\ nTx' = nTx + 1
      /\ db' = db /\ jBlob' = jBlob /\ jExists' = jExists /\ layout' = layout /\ state' = state
      /\ found' = found
    BY DEF Write, blobVars, tableVars
<1>2. /\ pc'[c] = "upload" /\ phase'[c] = phase[c] /\ cache'[c] = new
      /\ jBuf'[c] = old /\ todo'[c] = S /\ \A d \in Conn \ {c} : Kept(d)
    <2>1. Becomes(c, "upload", phase[c], new, old, S)
        BY WriteEffect DEF Assumed
    <2> QED BY <2>1 DEF Becomes
<1>3. phase[c] = "tx" /\ Owns(c) /\ ~Live(c)
    BY <1>1, OfConn DEF PcOfPhase, Assumed, TypeOK, Phase, Owns, Live
<1>4. cache[c] = db /\ Recoverable = db
    BY <1>1, <1>3, OfConn DEF Flushes, TxInv
<1>5. Recoverable' = Recoverable
    BY <1>1 DEF Recoverable
<1>6. Bounded /\ nTx \in Nat /\ MaxTx \in Nat /\ \A d \in Conn : cache[d] \in [Page -> Nat]
    BY BoundsAssumption DEF Assumed, Core, TypeOK
<1>7. /\ \A p \in Page : db[p] <= nTx /\ Recoverable[p] <= nTx /\ db[p] \in Nat
      /\ \A p \in Page : \A d \in Conn : cache[d][p] <= nTx /\ cache[d][p] \in Nat
    BY <1>6 DEF Bounded, Assumed, TypeOK
<1>8. \A p \in Page : new[p] = (IF p \in S THEN nTx + 1 ELSE db[p]) /\ old[p] = (IF p \in S THEN db[p] ELSE None)
    BY <1>4
<1>9. \A p \in Page : old[p] # None <=> p \in S
    BY <1>7, <1>8, SMT DEF None
<1> HIDE DEF new, old
<1>10. Bounded'
    <2>1. ASSUME NEW p \in Page, NEW d \in Conn PROVE cache'[d][p] <= nTx + 1
        <3>1. CASE d = c
            BY <1>2, <1>6, <1>7, <1>8, <3>1, SMT
        <3>2. CASE d # c
            BY <1>2, <1>6, <1>7, <3>2, SMT DEF Kept
        <3> QED BY <3>1, <3>2
    <2>2. nTx + 1 <= MaxTx /\ \A p \in Page : db[p] <= nTx + 1 /\ Recoverable[p] <= nTx + 1
        BY <1>1, <1>4, <1>6, <1>7, SMT
    <2> QED BY <1>1, <1>5, <2>1, <2>2 DEF Bounded
<1>11. TableInv'
    BY <1>1, <1>4, <1>5 DEF Assumed, Core, TableInv
<1>12. Live(c)'
    BY <1>2, <1>3 DEF Live
<1>13. TxInv(c)'
    <2>1. Entries(jBuf'[c]) = S
        BY <1>2, <1>9 DEF Entries
    <2>2. \A p \in Page : cache'[c][p] = IF jBuf'[c][p] # None THEN nTx' ELSE db'[p]
        BY <1>1, <1>2, <1>8, <1>9
    <2>3. \A p \in Page : Recoverable'[p] < nTx'
        BY <1>1, <1>4, <1>5, <1>6, <1>7, SMT
    <2>4. \A p \in Page : jBuf'[c][p] # None => jBuf'[c][p] = Recoverable'[p]
        BY <1>2, <1>4, <1>5, <1>8, <1>9
    <2>5. \A p \in Page : \A d \in Conn \ {c} : cache'[d][p] < nTx'
        <3> SUFFICES ASSUME NEW p \in Page, NEW d \in Conn \ {c} PROVE cache'[d][p] < nTx'
            OBVIOUS
        <3>1. cache'[d] = cache[d] /\ cache[d][p] <= nTx /\ cache[d][p] \in Nat
            BY <1>2, <1>7 DEF Kept
        <3> QED BY <1>1, <1>6, <3>1, SMT
    <2>6. Recoverable' = db' /\ Entries(jBuf'[c]) # {} /\ todo'[c] \subseteq Entries(jBuf'[c])
        BY <1>1, <1>2, <1>4, <1>5, <2>1
    <2> QED BY <1>2, <2>2, <2>3, <2>4, <2>5, <2>6 DEF TxInv
<1>14. PlayInv(c)' /\ ~Cleared(c)'
    BY <1>2, <1>3 DEF PlayInv, Cleared
<1>15. \A p \in Page : cache'[c][p] = Recoverable[p] \/ cache'[c][p] = nTx + 1
    BY <1>2, <1>4, <1>8
<1>16. \A d \in Conn \ {c} : ConnInv(d)'
    BY <1>1, <1>2, <1>3, <1>5, <1>15, OwnerOthers DEF Assumed
<1>17. jBlob' # Empty => jExists'
    BY <1>1 DEF Assumed, Core
<1> QED BY <1>10, <1>11, <1>13, <1>14, <1>16, <1>17 DEF Core, ConnInv

(***************************************************************************)
(* The death of a process keeps the invariant.                             *)
(***************************************************************************)
LEMMA CrashCore ==
    ASSUME Assumed, NEW r \in Proc, Crash(r)
    PROVE  Core'
<1> DEFINE C == {c \in Conn : procOf[c] = r}
<1>1. SameBlobs /\ state' = [state EXCEPT ![r] = Unknown]
    BY DEF Crash, SameBlobs
<1>2. \A c \in C : pc'[c] = "idle" /\ phase'[c] = "none" /\ cache'[c] = Blank
    BY DEF Crash
<1>3. \A d \in Conn \ C : Kept(d) /\ found'[d] = found[d]
    BY DEF Crash, Kept
<1>4. /\ state \in [Proc -> {Unknown, 0, 1}] /\ \A d \in Conn : procOf[d] \in Proc
      /\ TableInv
    BY TableTypes DEF Assumed, TypeOK, Core
<1>5. \A q \in Proc : state'[q] = IF q = r THEN Unknown ELSE state[q]
    BY <1>1, <1>4
<1>6. \A d \in Conn \ C : state'[procOf[d]] = state[procOf[d]]
    BY <1>4, <1>5
<1>7. \A c \in C : ConnInv(c)' /\ ~Live(c)'
    BY <1>2 DEF ConnInv, TxInv, PlayInv, Cleared, Live
<1>8. \A c \in C : \A p \in Page : cache'[c][p] = 0
    BY <1>2 DEF Blank
<1> HIDE DEF C
<1>9. Quiet(C)
    BY <1>1, <1>3, <1>6, <1>7, <1>8 DEF Quiet, SameBlobs
<1>10. C \in SUBSET Conn
    BY DEF C
<1>11. /\ Recoverable' = Recoverable /\ Bounded' /\ (jBlob' # Empty => jExists')
       /\ \A d \in Conn \ C : ConnInv(d)'
    BY <1>9, <1>10, QuietFacts, QuietOthers DEF Assumed
<1>12. TableInv'
    <2>1. \A d \in Conn : state'[procOf[d]] = 0 => Recoverable = db
        BY <1>4, <1>5, SMT DEF TableInv, Unknown
    <2> QED BY <1>1, <1>4, <1>5, <1>11, <2>1 DEF TableInv, SameBlobs, procOf
<1> QED BY <1>7, <1>11, <1>12 DEF Core

(***************************************************************************)
(* The end of a lease, and a step that changes nothing.                    *)
(***************************************************************************)
LEMMA IdleCore ==
    ASSUME Assumed, Expire \/ UNCHANGED vars
    PROVE  Core'
<1>1. /\ SameBlobs /\ state' = state
      /\ pc' = pc /\ phase' = phase /\ cache' = cache /\ jBuf' = jBuf /\ todo' = todo
      /\ past' = past /\ found' = found
    BY DEF Expire, vars, blobVars, tableVars, connVars, SameBlobs
<1>2. Quiet({})
    BY <1>1 DEF Quiet, SameBlobs, Kept
<1>3. /\ Recoverable' = Recoverable /\ Bounded' /\ (jBlob' # Empty => jExists')
      /\ \A d \in Conn : ConnInv(d)'
    <2>1. {} \in SUBSET Conn /\ Conn \ {} = Conn
        OBVIOUS
    <2> QED BY <1>2, <2>1, QuietFacts, QuietOthers DEF Assumed
<1>4. TableInv'
    BY <1>1, <1>3 DEF Assumed, Core, TableInv, SameBlobs, procOf
<1> QED BY <1>3, <1>4 DEF Core

-----------------------------------------------------------------------------
(* The inductive invariant. *)

(***************************************************************************)
(* A deployment does not change, and history is not forgotten.             *)
(***************************************************************************)
LEMMA LayoutKept ==
    ASSUME [Next]_vars
    PROVE  layout' = layout /\ (overtaken => overtaken')
<1>1. ASSUME NEW c \in Conn, Seed(c) \/ OpenSeed(c) PROVE layout' = layout /\ (overtaken => overtaken')
    BY <1>1 DEF Seed, OpenSeed, StoreAnswer, tableVars
<1>2. ASSUME NEW c \in Conn,
             \/ LockShared(c) \/ Access(c) \/ CheckReserved(c) \/ Open(c) \/ Get(c) \/ HotLock(c)
             \/ Reserve(c) \/ EndRead(c) \/ Unlock(c)
      PROVE  layout' = layout /\ overtaken' = overtaken
    BY <1>2 DEF LockShared, Access, CheckReserved, Open, Get, HotLock, Reserve, EndRead, Unlock,
           tableVars
<1>3. ASSUME NEW c \in Conn,
             \/ \E S \in SUBSET Page : Write(c, S)
             \/ Upload(c) \/ UploadFail(c) \/ Rollback(c) \/ Put(c) \/ PutFail(c) \/ Flushed(c)
             \/ \E mode \in layout.modes : Finalise(c, mode) \/ FinaliseFail(c, mode)
      PROVE  layout' = layout /\ overtaken' = overtaken
    BY <1>3 DEF Write, Upload, UploadFail, Rollback, Put, PutFail, Flushed, Finalise,
           FinaliseFail, tableVars
<1>4. ASSUME Expire \/ (\E r \in Proc : Crash(r)) \/ UNCHANGED vars
      PROVE  layout' = layout /\ overtaken' = overtaken
    BY <1>4 DEF Expire, Crash, vars, tableVars
<1> QED BY <1>1, <1>2, <1>3, <1>4, SMT DEF Next

(***************************************************************************)
(* Every step keeps the invariant, unless it stores an answer that was     *)
(* overtaken.                                                              *)
(***************************************************************************)
LEMMA CoreStep ==
    ASSUME Assumed, [Next]_vars, ~overtaken'
    PROVE  Core'
<1>1. ASSUME NEW c \in Conn,
             \/ LockShared(c) \/ Access(c) \/ Seed(c) \/ CheckReserved(c)
             \/ Open(c) \/ OpenSeed(c) \/ Get(c) \/ HotLock(c)
      PROVE  Core'
    BY <1>1, LockSharedCore, AccessCore, SeedCore, CheckReservedCore, OpenCore, OpenSeedCore,
       GetCore, HotLockCore
<1>2. ASSUME NEW c \in Conn,
             \/ Reserve(c) \/ EndRead(c) \/ Upload(c) \/ UploadFail(c) \/ Rollback(c)
             \/ Put(c) \/ PutFail(c) \/ Flushed(c) \/ Unlock(c)
      PROVE  Core'
    BY <1>2, ReserveCore, UnlockCore, UploadCore, UploadFailCore, RollbackCore, PutCore,
       PutFailCore, FlushedCore
<1>3. ASSUME NEW c \in Conn, NEW S \in SUBSET Page, Write(c, S) PROVE Core'
    BY <1>3, WriteCore
<1>4. ASSUME NEW c \in Conn, NEW mode \in layout.modes, Finalise(c, mode) \/ FinaliseFail(c, mode)
      PROVE  Core'
    BY <1>4, FinaliseCore
<1>5. ASSUME NEW r \in Proc, Crash(r) PROVE Core'
    BY <1>5, CrashCore
<1> QED BY <1>1, <1>2, <1>3, <1>4, <1>5, IdleCore DEF Next

(***************************************************************************)
(* The initial states satisfy the invariant.                               *)
(***************************************************************************)
LEMMA InitIInv == Init => IInv
<1> SUFFICES ASSUME Init PROVE IInv
    OBVIOUS
<1>1. TypeOK
    BY LayoutsAssumption DEF Init, TypeOK, Blank, Empty, PC, Phase
<1>2. \A c \in Conn : pc[c] = "idle" /\ phase[c] = "none" /\ cache[c] = Blank
    BY DEF Init
<1>3. LockInv
    BY <1>2 DEF LockInv, ConnLock, PcOfPhase, Owns, Live, Flushes
<1>4. Recoverable = Blank /\ db = Blank /\ jBlob = Empty /\ nTx = 0
    BY <1>1, RecoverableAt DEF Init
<1>5. \A c \in Conn : ConnInv(c)
    BY <1>2 DEF ConnInv, TxInv, PlayInv, Cleared, Live
<1>6. Bounded
    BY <1>2, <1>4, BoundsAssumption, SMT DEF Bounded, Blank
<1>7. TableInv
    BY <1>4 DEF Init, TableInv
<1> QED BY <1>1, <1>3, <1>4, <1>5, <1>6, <1>7 DEF IInv, Core

(***************************************************************************)
(* Where the search for a journal can be relied upon no lease of a live    *)
(* writer expires.                                                         *)
(***************************************************************************)
LEMMA ReliableLeases == Reliable => NoExpiry
BY DEF Reliable, NoExpiry

(***************************************************************************)
(* Every step preserves the invariant.                                     *)
(***************************************************************************)
LEMMA NextIInv == IInv /\ [Next]_vars => IInv'
<1> SUFFICES ASSUME IInv, [Next]_vars PROVE IInv'
    OBVIOUS
<1>1. TypeOK /\ TypeOK' /\ layout' = layout /\ (overtaken => overtaken')
    BY TypeStep, LayoutKept DEF IInv
<1>2. NoExpiry' => LockInv'
    <2>1. NoExpiry' => NoExpiry
        BY <1>1 DEF NoExpiry
    <2> QED BY <1>1, <2>1, LockStep DEF IInv
<1>3. ASSUME Reliable', Orderly' PROVE Core'
    <2>1. Reliable /\ Orderly /\ ~overtaken'
        BY <1>1, <1>3 DEF Reliable, Orderly, NoTruncate, procOf
    <2>2. LockInv /\ Core
        BY <2>1, ReliableLeases DEF IInv
    <2>3. Assumed
        BY <1>1, <2>1, <2>2 DEF Assumed
    <2> QED BY <2>1, <2>3, CoreStep
<1> QED BY <1>1, <1>2, <1>3 DEF IInv

(***************************************************************************)
(* The variables keep their types; where no lease of a live writer         *)
(* expires, whoever plays back a journal, writes or undoes a transaction   *)
(* holds the lease; and where besides the search for a journal can be      *)
(* relied upon, the journal of a transaction in its flush is in the blob,  *)
(* and whoever found no journal reads what recovery would find or can      *)
(* never reserve.                                                          *)
(***************************************************************************)
THEOREM Invariance == Spec => []IInv
<1>1. Init => IInv
    BY InitIInv
<1>2. IInv /\ [Next]_vars => IInv'
    BY NextIInv
<1> QED BY <1>1, <1>2, PTL DEF Spec

(***************************************************************************)
(* The blobs, the table of journals and the connections' buffers keep      *)
(* their types.                                                            *)
(***************************************************************************)
THEOREM TypeCorrect == Spec => []TypeOK
<1>1. IInv => TypeOK
    BY DEF IInv
<1> QED BY <1>1, Invariance, PTL

-----------------------------------------------------------------------------
(* The implementation of AtomicCommit. *)

\* No transaction gets to its commit, and those that are there stay as they are.
Tame == \A d \in Conn : Live(d)' => Live(d) /\ cache'[d] = cache[d]

(***************************************************************************)
(* The content that the transactions are about to commit.                  *)
(***************************************************************************)
LEMMA WorkAt ==
    /\ Work = [c \in Conn |-> IF Live(c) THEN cache[c] ELSE Nothing]
    /\ Work' = [c \in Conn |-> IF Live(c)' THEN cache'[c] ELSE Nothing]
BY DEF Work, Live

(***************************************************************************)
(* A step that leaves recovery alone ends some transactions, or none.      *)
(***************************************************************************)
LEMMA TameAborts ==
    ASSUME Recoverable' = Recoverable, Tame
    PROVE  Atomic!Next
<1> DEFINE C == {d \in Conn : ~Live(d)'}
<1>1. Work' = [d \in Conn |-> IF d \in C THEN Nothing ELSE Work[d]]
    BY WorkAt DEF Tame
<1>2. Atomic!Abort(C)
    BY <1>1 DEF Atomic!Abort
<1> QED BY <1>2 DEF Atomic!Next

(***************************************************************************)
(* The effects that begin no transaction.                                  *)
(***************************************************************************)
LEMMA TameEffects ==
    ASSUME NEW c \in Conn
    PROVE  /\ Leaves(c) => Tame
           /\ StartsReading(c) => Tame
           /\ \A next, S : Undoes(c, next, S) => Tame
           /\ \A next : Moves(c, next) /\ (next \in {"upload", "put", "finalise"} => pc[c] \in {"upload", "put", "finalise"}) => Tame
           /\ \A j : Opens(c, j) => Tame
<1> USE DEF Tame, Live, Kept, Becomes
<1>1. Leaves(c) => Tame
    BY DEF Leaves
<1>2. StartsReading(c) => Tame
    BY DEF StartsReading
<1>3. \A next, S : Undoes(c, next, S) => Tame
    BY DEF Undoes
<1>4. \A next : Moves(c, next) /\ (next \in {"upload", "put", "finalise"} => pc[c] \in {"upload", "put", "finalise"}) => Tame
    BY DEF Moves
<1>5. ASSUME NEW j, Opens(c, j) PROVE Tame
    <2>1. CASE StartsReading(c)
        BY <1>2, <2>1
    <2>2. CASE Moves(c, "hotLock") \/ Moves(c, "begin")
        BY <1>4, <2>2
    <2>3. CASE Becomes(c, IF Entries(j) = {} THEN "put" ELSE "upload", "play",
                       Undo(j, cache[c]), j, Entries(j))
        BY <2>3
    <2> HIDE DEF Tame, Live, Kept, Becomes
    <2> QED BY <1>5, <2>1, <2>2, <2>3 DEF Opens
<1> HIDE DEF Tame, Live, Kept, Becomes
<1> QED BY <1>1, <1>2, <1>3, <1>4, <1>5

(***************************************************************************)
(* The search for a journal, locks and their ends begin no transaction.    *)
(***************************************************************************)
LEMMA TameSearch ==
    ASSUME Assumed, NEW c \in Conn,
           \/ LockShared(c) \/ Access(c) \/ Seed(c) \/ CheckReserved(c)
           \/ Open(c) \/ OpenSeed(c) \/ Get(c) \/ HotLock(c)
           \/ Reserve(c) \/ EndRead(c) \/ Unlock(c)
    PROVE  Tame /\ Recoverable' = Recoverable
<1>1. Recoverable' = Recoverable
    BY DEF LockShared, Access, Seed, CheckReserved, Open, OpenSeed, Get, HotLock, Reserve, EndRead,
           Unlock, blobVars, Recoverable
<1>2. /\ TypeOK /\ found[c] \in BOOLEAN /\ jBlob \in [Page -> Nat \cup {None}]
      /\ Empty \in [Page -> Nat \cup {None}]
    BY DEF Assumed, TypeOK, Empty
<1>3. "seed" \in PC /\ "open" \in PC /\ "openSeed" \in PC /\ "get" \in PC
    BY DEF PC
<1>4. \A next : next \notin {"upload", "put", "finalise"} /\ Moves(c, next) => Tame
    BY TameEffects
<1>5. ASSUME NEW exists \in BOOLEAN, Accessed(c, exists) PROVE Tame
    BY <1>2, <1>4, <1>5, AccessedEffect, TameEffects
<1>6. ASSUME NEW j \in [Page -> Nat \cup {None}], Opened(c, j) PROVE Tame
    BY <1>2, <1>6, OpenedEffect, TameEffects
<1>7. ASSUME NEW next \in {"seed", "open", "openSeed", "get"}, GoTo(c, next),
             UNCHANGED <<holder, phase, cache, jBuf, todo, past>>
      PROVE  Tame
    BY <1>2, <1>3, <1>4, <1>7, MovesEffect
<1>8. ASSUME StartReading(c) PROVE Tame
    BY <1>2, <1>8, StartReadingEffect, TameEffects
<1>9. ASSUME Leave(c) PROVE Tame
    BY <1>2, <1>9, LeaveEffect, TameEffects
<1>10. ASSUME LockShared(c) PROVE Tame
    BY <1>2, <1>10, LockSharedEffect DEF Becomes, Kept, Tame, Live
<1>11. ASSUME Access(c) PROVE Tame
    <2>1. \/ \E exists \in BOOLEAN : Accessed(c, exists)
          \/ GoTo(c, "seed") /\ UNCHANGED <<holder, phase, cache, jBuf, todo, past>>
        BY <1>11 DEF Access
    <2> QED BY <1>5, <1>7, <2>1
<1>12. ASSUME Seed(c) PROVE Tame
    BY <1>2, <1>5, <1>12 DEF Seed
<1>13. ASSUME CheckReserved(c) PROVE Tame
    BY <1>7, <1>8, <1>13 DEF CheckReserved
<1>14. ASSUME Open(c) PROVE Tame
    BY <1>2, <1>6, <1>7, <1>14 DEF Open
<1>15. ASSUME OpenSeed(c) PROVE Tame
    BY <1>2, <1>6, <1>7, <1>15 DEF OpenSeed
<1>16. ASSUME Get(c) PROVE Tame
    BY <1>2, <1>6, <1>16 DEF Get
<1>17. ASSUME HotLock(c) PROVE Tame
    <2>1. CASE Leaves(c)
        BY <2>1, TameEffects
    <2>2. CASE Becomes(c, "access", "play", db, jBuf[c], todo[c])
        BY <2>2 DEF Becomes, Kept, Tame, Live
    <2> QED BY <1>2, <1>17, <2>1, <2>2, HotLockEffect
<1>18. ASSUME Reserve(c) PROVE Tame
    BY <1>2, <1>18, ReserveEffect DEF Becomes, Kept, Tame, Live
<1>19. ASSUME EndRead(c) \/ Unlock(c) PROVE Tame
    BY <1>8, <1>9, <1>19 DEF EndRead, Unlock
<1>20. Tame
    BY <1>10, <1>11, <1>12, <1>13, <1>14, <1>15, <1>16, <1>17, <1>18, <1>19
<1> QED BY <1>1, <1>20

(***************************************************************************)
(* Neither do the journal's upload, the flush, and their errors.           *)
(***************************************************************************)
LEMMA TameFlush ==
    ASSUME Assumed, NEW c \in Conn,
           \/ Upload(c) \/ UploadFail(c) \/ Rollback(c)
           \/ Put(c) \/ PutFail(c) \/ Flushed(c)
    PROVE  Tame /\ Recoverable' = Recoverable
<1>1. TypeOK
    BY DEF Assumed
<1>2. CASE Upload(c)
    <2>1. Moves(c, "put") /\ pc[c] = "upload"
        BY <1>1, <1>2, UploadEffect DEF Upload
    <2> QED BY <1>2, <2>1, TameEffects, UploadedRecoverable DEF Upload
<1>3. CASE UploadFail(c)
    <2>1. (\E S : Undoes(c, "finalise", S)) \/ Leaves(c)
        BY <1>1, <1>3, DiscardEffect, LeaveEffect DEF UploadFail
    <2>2. Tame
        BY <2>1, TameEffects
    <2>3. Recoverable' = Recoverable
        BY <1>3, UploadedRecoverable DEF UploadFail, Recoverable
    <2> QED BY <2>2, <2>3
<1>4. CASE Rollback(c)
    <2>1. Tame
        BY <1>1, <1>4, DiscardEffect, TameEffects DEF Rollback
    <2> QED BY <1>4, <2>1 DEF Rollback, Recoverable
<1>5. CASE Put(c)
    <2>1. pc' = pc /\ phase' = phase /\ cache' = cache
        BY <1>5 DEF Put
    <2> QED BY <1>5, <2>1, PutCore DEF Tame, Live
<1>6. CASE PutFail(c)
    <2>1. PlayBack(c) /\ db' = db /\ jBlob' = jBlob
        BY <1>6 DEF PutFail
    <2>2. (\E S : Undoes(c, "put", S)) \/ Leaves(c)
        BY <1>1, <2>1, PlayBackEffect
    <2>3. Tame
        BY <2>2, TameEffects
    <2> QED BY <2>1, <2>3 DEF Recoverable
<1>7. CASE Flushed(c)
    <2>1. Moves(c, "finalise") /\ pc[c] = "put"
        BY <1>1, <1>7, UploadEffect DEF Flushed
    <2> QED BY <1>7, <2>1, TameEffects DEF Flushed, blobVars, Recoverable
<1> QED BY <1>2, <1>3, <1>4, <1>5, <1>6, <1>7

(***************************************************************************)
(* The pages of a transaction are a Begin.                                 *)
(***************************************************************************)
LEMMA WriteBegins ==
    ASSUME Assumed, NEW c \in Conn, NEW S \in SUBSET Page, Write(c, S)
    PROVE  Atomic!Next
<1> DEFINE new == [p \in Page |-> IF p \in S THEN nTx + 1 ELSE cache[c][p]]
           old == [p \in Page |-> IF p \in S THEN cache[c][p] ELSE None]
<1>1. /\ pc[c] = "begin" /\ nTx < MaxTx /\ db' = db /\ jBlob' = jBlob
    BY DEF Write, blobVars
<1>2. /\ pc'[c] = "upload" /\ phase'[c] = phase[c] /\ cache'[c] = new
      /\ jBuf'[c] = old /\ todo'[c] = S /\ \A d \in Conn \ {c} : Kept(d)
    <2>1. Becomes(c, "upload", phase[c], new, old, S)
        BY WriteEffect DEF Assumed
    <2> QED BY <2>1 DEF Becomes
<1>3. phase[c] = "tx" /\ ~Live(c)
    BY <1>1, OfConn DEF PcOfPhase, Assumed, TypeOK, Phase, Live
<1>4. cache[c] = Recoverable
    BY <1>1, <1>3, OfConn DEF Flushes, TxInv
<1>5. nTx + 1 \in 0..MaxTx
    BY <1>1, BoundsAssumption, SMT DEF Assumed, TypeOK
<1>6. Live(c)' /\ \A d \in Conn \ {c} : (Live(d)' <=> Live(d)) /\ cache'[d] = cache[d]
    BY <1>2, <1>3 DEF Live, Kept
<1>7. Work' = [Work EXCEPT ![c] = [p \in Page |-> IF p \in S THEN nTx + 1 ELSE Recoverable[p]]]
    BY <1>2, <1>4, <1>6, WorkAt
<1>8. Work[c] = Nothing
    BY <1>3, WorkAt
<1>9. Recoverable' = Recoverable
    BY <1>1 DEF Recoverable
<1>10. Atomic!Begin(c)
    BY <1>5, <1>7, <1>8, <1>9 DEF Atomic!Begin
<1> QED BY <1>10 DEF Atomic!Next

(***************************************************************************)
(* The journal's end is the Commit of a transaction, also when the pager   *)
(* takes it for a failure.                                                 *)
(***************************************************************************)
LEMMA EndsCommits ==
    ASSUME Assumed, NEW c \in Conn, NEW mode, Ends(c, mode), Moves(c, "unlock") \/ Leaves(c)
    PROVE  Atomic!Next
<1>1. /\ pc[c] = "finalise" /\ pc'[c] \in {"unlock", "idle"} /\ \A d \in Conn \ {c} : Kept(d)
    BY DEF Ends, Moves, Leaves, Becomes
<1>2. /\ Live(c) \/ phase[c] \in {"play", "undo"}
      /\ \A d \in Conn \ {c} : ~Live(d)
    BY <1>1, OwnerAt
<1>3. CASE Live(c)
    <2>1. Recoverable' = cache[c]
        BY <1>3, FinaliseFacts DEF Live
    <2>2. Work[c] = cache[c] /\ cache[c] \in [Page -> Nat]
        BY <1>3, WorkAt DEF Assumed, TypeOK
    <2>3. \A d \in Conn : ~Live(d)'
        <3> SUFFICES ASSUME NEW d \in Conn PROVE ~Live(d)'
            OBVIOUS
        <3>1. CASE d = c
            BY <1>1, <3>1 DEF Live
        <3>2. CASE d # c
            BY <1>1, <1>2, <3>2 DEF Live, Kept
        <3> QED BY <3>1, <3>2
    <2>4. Work' = [d \in Conn |-> Nothing]
        BY <2>3, WorkAt
    <2>5. Atomic!Commit(c)
        BY <2>1, <2>2, <2>4, NothingAssumption DEF Atomic!Commit
    <2> QED BY <2>5 DEF Atomic!Next
<1>4. CASE phase[c] # "tx"
    <2>1. Recoverable' = Recoverable
        BY <1>4, FinaliseFacts
    <2>2. Tame
        BY TameEffects
    <2> QED BY <2>1, <2>2, TameAborts
<1> QED BY <1>2, <1>3, <1>4

(***************************************************************************)
(* The second phase of a commit is its Commit, or, when the request did    *)
(* nothing, an Abort that leaves a hot journal behind.                     *)
(***************************************************************************)
LEMMA FinaliseCommits ==
    ASSUME Assumed, NEW c \in Conn, NEW mode \in layout.modes,
           Finalise(c, mode) \/ FinaliseFail(c, mode)
    PROVE  Atomic!Next
<1>1. CASE Finalise(c, mode)
    BY <1>1, FinaliseEnds, EndsCommits
<1>2. CASE FinaliseFail(c, mode)
    <2>1. Leaves(c) /\ (SameBlobs \/ Ends(c, mode))
        BY <1>2, FinaliseEnds
    <2>2. CASE SameBlobs
        <3>1. Recoverable' = Recoverable
            BY <2>2 DEF SameBlobs, Recoverable
        <3>2. Tame
            BY <2>1, TameEffects
        <3> QED BY <3>1, <3>2, TameAborts
    <2> QED BY <2>1, <2>2, EndsCommits
<1> QED BY <1>1, <1>2

(***************************************************************************)
(* Every step is one of AtomicCommit, or changes nothing there.            *)
(***************************************************************************)
LEMMA AtomicStep ==
    ASSUME Assumed, [Next]_vars
    PROVE  [Atomic!Next]_<<Recoverable, Work>>
<1>1. CASE UNCHANGED vars
    BY <1>1 DEF vars, blobVars, connVars, Recoverable, Work
<1>2. CASE Expire
    BY <1>2 DEF Expire, connVars, Recoverable, Work
<1>3. ASSUME NEW r \in Proc, Crash(r) PROVE Atomic!Next
    <2>1. Recoverable' = Recoverable
        BY <1>3 DEF Crash, Recoverable
    <2>2. Tame
        BY <1>3 DEF Crash, Tame, Live
    <2> QED BY <2>1, <2>2, TameAborts
<1>4. ASSUME NEW c \in Conn,
             \/ LockShared(c) \/ Access(c) \/ Seed(c) \/ CheckReserved(c)
             \/ Open(c) \/ OpenSeed(c) \/ Get(c) \/ HotLock(c)
             \/ Reserve(c) \/ EndRead(c) \/ Unlock(c)
      PROVE  Atomic!Next
    BY <1>4, TameSearch, TameAborts
<1>5. ASSUME NEW c \in Conn,
             \/ Upload(c) \/ UploadFail(c) \/ Rollback(c)
             \/ Put(c) \/ PutFail(c) \/ Flushed(c)
      PROVE  Atomic!Next
    BY <1>5, TameFlush, TameAborts
<1>6. ASSUME NEW c \in Conn, NEW S \in SUBSET Page, Write(c, S) PROVE Atomic!Next
    BY <1>6, WriteBegins
<1>7. ASSUME NEW c \in Conn, NEW mode \in layout.modes, Finalise(c, mode) \/ FinaliseFail(c, mode)
      PROVE  Atomic!Next
    BY <1>7, FinaliseCommits
<1> QED BY <1>1, <1>2, <1>3, <1>4, <1>5, <1>6, <1>7 DEF Next

(***************************************************************************)
(* The page blob, the journal blob, the journal table and the lease        *)
(* implement AtomicCommit: whatever process dies and whichever upload, put *)
(* or delete fails or is done and its answer lost, a rollback finds the    *)
(* content before a transaction or the content after it, and every         *)
(* transaction is built on the one before.                                 *)
(* Assumed are journal_mode delete or persist, that no one who read past a *)
(* leased journal writes, and, in the property itself, Reliable.           *)
(***************************************************************************)
THEOREM Implements == Spec /\ Orderly => AtomicSpec
<1>1. Init => (Reliable => Atomic!Init)
    <2> SUFFICES ASSUME Init PROVE Atomic!Init
        OBVIOUS
    <2>1. Recoverable = Blank
        BY InitIInv, RecoverableAt DEF IInv, Init
    <2>2. Work = [c \in Conn |-> Nothing]
        BY WorkAt DEF Init, Live
    <2>3. Blank \in [Page -> 0..MaxTx]
        BY BoundsAssumption, SMT DEF Blank
    <2> QED BY <2>1, <2>2, <2>3 DEF Atomic!Init
<1>2. Orderly /\ [Next]_vars => Orderly'
    BY LayoutKept DEF Orderly, NoTruncate
<1>3. IInv /\ IInv' /\ Orderly /\ [Next]_vars => (Reliable => [Atomic!Next]_<<Recoverable, Work>>)
    <2> SUFFICES ASSUME IInv, IInv', Orderly, [Next]_vars, Reliable
                 PROVE  [Atomic!Next]_<<Recoverable, Work>>
        OBVIOUS
    <2>1. Assumed
        BY ReliableLeases DEF IInv, Assumed
    <2> QED BY <2>1, AtomicStep
<1> QED BY <1>1, <1>2, <1>3, Invariance, PTL DEF Spec, AtomicSpec

(***************************************************************************)
(* Only the journal's end takes a connection from there to its unlock.     *)
(***************************************************************************)
LEMMA OnlyFinalise ==
    ASSUME TypeOK, [Next]_vars, NEW c \in Conn, pc[c] = "finalise", pc'[c] = "unlock"
    PROVE  \E mode \in layout.modes : Finalise(c, mode)
<1>1. pc \in [Conn -> PC]
    BY DEF TypeOK
<1>2. ASSUME NEW d \in Conn,
             \/ LockShared(d) \/ Access(d) \/ Seed(d) \/ CheckReserved(d)
             \/ Open(d) \/ OpenSeed(d) \/ Get(d) \/ HotLock(d)
             \/ Reserve(d) \/ EndRead(d) \/ Unlock(d)
      PROVE  FALSE
    BY <1>1, <1>2 DEF LockShared, Access, Seed, CheckReserved, Open, OpenSeed, Get, HotLock, Reserve,
           EndRead, Unlock, Accessed, Opened, StartReading, Leave, GoTo
<1>3. ASSUME NEW d \in Conn, NEW mode,
             \/ \E S \in SUBSET Page : Write(d, S)
             \/ Upload(d) \/ UploadFail(d) \/ Rollback(d)
             \/ Put(d) \/ PutFail(d) \/ Flushed(d) \/ FinaliseFail(d, mode)
      PROVE  FALSE
    BY <1>1, <1>3 DEF Write, Upload, UploadFail, Rollback, Put, PutFail, Flushed, FinaliseFail,
           Discard, PlayBack, Leave, GoTo
<1>4. ASSUME NEW d \in Conn, NEW mode \in layout.modes, Finalise(d, mode) PROVE d = c
    BY <1>1, <1>4 DEF Finalise, GoTo
<1>5. ~(UNCHANGED vars) /\ ~Expire
    BY DEF vars, connVars, Expire
<1>6. ASSUME NEW r \in Proc, Crash(r) PROVE FALSE
    BY <1>6 DEF Crash
<1> QED BY <1>2, <1>3, <1>4, <1>5, <1>6 DEF Next

(***************************************************************************)
(* A commit that returned is what a process that starts then would find,   *)
(* whatever the answers to the search for a journal: all it needs is that  *)
(* the lease of a live writer does not expire and that journal_mode is not *)
(* truncate.                                                               *)
(***************************************************************************)
THEOREM Durability == Spec /\ NoExpiry /\ NoTruncate => CommitDurable
<1>1. NoExpiry /\ NoTruncate /\ [Next]_vars => NoExpiry' /\ NoTruncate'
    BY LayoutKept DEF NoExpiry, NoTruncate
<1>2. ASSUME IInv, IInv', NoExpiry, NoTruncate, [Next]_vars, NEW c \in Conn,
             phase[c] = "tx", pc[c] = "finalise", pc'[c] = "unlock"
      PROVE  Recoverable' = cache[c]
    <2>1. TypeOK /\ TypeOK' /\ Flushes(c)
        BY <1>2 DEF IInv, LockInv, ConnLock
    <2>2. PICK mode \in layout.modes : Finalise(c, mode)
        BY <1>2, <2>1, OnlyFinalise
    <2>3. jBlob' = Empty /\ db' = db
        BY <1>2, <2>2 DEF Finalise, JournalCold, NoTruncate
    <2>4. Recoverable' = db
        BY <2>1, <2>3, RecoverableNext
    <2>5. \A p \in Page : db[p] = cache[c][p]
        BY <1>2, <2>1 DEF Flushes, Live
    <2>6. db \in [Page -> Nat] /\ cache[c] \in [Page -> Nat]
        BY <2>1 DEF TypeOK
    <2> QED BY <2>4, <2>5, <2>6, SMT
<1>3. IInv /\ IInv' /\ NoExpiry /\ NoTruncate /\ [Next]_vars =>
        \A c \in Conn : phase[c] = "tx" /\ pc[c] = "finalise" /\ pc'[c] = "unlock"
                          => Recoverable' = cache[c]
    BY <1>2
<1> QED BY <1>1, <1>3, Invariance, PTL DEF Spec, CommitDurable
=============================================================================

------------------------------- MODULE Journal -------------------------------
(***************************************************************************)
(* The MAIN_JOURNAL file of sqlite_objs_vfs.c under SQLite's rollback      *)
(* commit: a block blob beside the page blob, a memory buffer per open     *)
(* file, and a per-process table of which journals exist.  The main        *)
(* database file is what MainDb shows it to be: SHARED brings the cache    *)
(* file to the blob's content, RESERVED is granted over current content    *)
(* only, and xSync writes pages one by one under the lease.  A step is one *)
(* request, or the local code after its answer.                            *)
(***************************************************************************)
EXTENDS Integers

CONSTANTS
    Conn,         \* database connections
    Proc,         \* processes; each has one VFS and one journal table
    Page,         \* the pages of the database
    Layouts,      \* the deployments to look at, see Layout
    NoLease, Lost, Nothing,
    MaxTx         \* bound: transactions that write

Fallible == {"upload", "uploadLost", "put", "delete", "deleteLost", "access",
             "head", "download", "expiry"}

\* A deployment: the process of each connection, the processes whose table had
\* an entry left for this journal, the journal_modes, the requests that may
\* fail and how many of them (a bound), and whether those that read past a
\* leased journal go on to write.
Layout == [procOf : [Conn -> Proc], tracked : SUBSET Proc,
           modes : SUBSET {"delete", "persist", "truncate"},
           faulty : SUBSET Fallible, maxFaults : Nat, pastWriters : BOOLEAN]

ASSUME ConnAssumption == NoLease \notin Conn /\ Lost \notin Conn /\ NoLease # Lost
ASSUME LayoutsAssumption == \A l \in Layouts : l \in Layout
ASSUME NothingAssumption == Nothing \notin [Page -> Nat]
ASSUME BoundsAssumption == MaxTx \in Nat

None == -1                           \* a page that is not in the journal
Empty == [p \in Page |-> None]       \* no journal, an empty one, a zeroed header
Blank == [p \in Page |-> 0]
Unknown == -1                        \* jce->state of a new entry

VARIABLES
    layout,    \* the deployment
    db,        \* the page blob: by page, the transaction that wrote it
    holder,    \* whose lease is active: a connection, Lost or NoLease
    jExists,   \* the journal blob exists
    jBlob,     \* its content: by page, what the page was before
    state,     \* journalCache[].state, by process
    overtaken, \* history: "no journal" was stored after an upload of one
    pc,        \* what the connection does next
    phase,     \* why it has the journal open
    cache,     \* the cache file of the main database
    jBuf,      \* p->aJrnlData
    found,     \* the answer of blob_exists, not yet looked at
    todo,      \* pages that xSync has still to write
    past,      \* history: connections that read past a journal under a lease
    nTx,       \* number of write transactions; each writes its number
    faults     \* number of failed requests

blobVars == <<db, holder, jExists, jBlob>>
connVars == <<pc, phase, cache, jBuf, found, todo, past>>
tableVars == <<state, overtaken>>
vars == <<layout, blobVars, tableVars, connVars, nTx, faults>>

procOf == layout.procOf

PC == {"idle", "access", "seed", "reserved", "open", "openSeed", "get", "hotLock",
       "reading", "begin", "upload", "put", "finalise", "unlock"}
Phase == {"none", "check", "play", "tx", "undo"}

TypeOK ==
    /\ layout \in Layout
    /\ db \in [Page -> Nat]
    /\ holder \in Conn \cup {NoLease, Lost}
    /\ jExists \in BOOLEAN
    /\ jBlob \in [Page -> Nat \cup {None}]
    /\ state \in [Proc -> {Unknown, 0, 1}]
    /\ overtaken \in BOOLEAN
    /\ pc \in [Conn -> PC]
    /\ phase \in [Conn -> Phase]
    /\ cache \in [Conn -> [Page -> Nat]]
    /\ jBuf \in [Conn -> [Page -> Nat \cup {None}]]
    /\ found \in [Conn -> BOOLEAN]
    /\ todo \in [Conn -> SUBSET Page]
    /\ past \subseteq Conn
    /\ nTx \in Nat /\ faults \in Nat

Init ==
    /\ layout \in Layouts
    /\ db = Blank
    /\ holder = NoLease
    /\ jExists = FALSE
    /\ jBlob = Empty
    /\ state = [r \in Proc |-> Unknown]
    /\ overtaken = FALSE
    /\ pc = [c \in Conn |-> "idle"]
    /\ phase = [c \in Conn |-> "none"]
    /\ cache = [c \in Conn |-> Blank]
    /\ jBuf = [c \in Conn |-> Empty]
    /\ found = [c \in Conn |-> FALSE]
    /\ todo = [c \in Conn |-> {}]
    /\ past = {}
    /\ nTx = 0
    /\ faults = 0

-----------------------------------------------------------------------------
(* Helpers. *)

Fault(kind) == kind \in layout.faulty /\ faults < layout.maxFaults /\ faults' = faults + 1

GoTo(c, next) == pc' = [pc EXCEPT ![c] = next]

\* journalCacheGetOrCreate gives no entry when the table is full.
SetState(c, s) ==
    state' = IF procOf[c] \in layout.tracked THEN [state EXCEPT ![procOf[c]] = s] ELSE state

Bit(exists) == IF exists THEN 1 ELSE 0

\* The answer of a request goes into the table after the mutex was let go for
\* the request, over whatever others stored meanwhile.
StoreAnswer(c) ==
    /\ SetState(c, Bit(found[c]))
    /\ overtaken' = (overtaken \/ (procOf[c] \in layout.tracked /\ ~found[c] /\ jBlob # Empty))

Entries(jrnl) == {p \in Page : jrnl[p] # None}

\* The pages d with those of the journal put back.
Undo(jrnl, d) == [p \in Page |-> IF jrnl[p] # None THEN jrnl[p] ELSE d[p]]

Release(c) == IF holder = c THEN NoLease ELSE holder

\* The pager unlocks the database and closes the journal.
Leave(c) ==
    /\ GoTo(c, "idle")
    /\ holder' = Release(c)
    /\ phase' = [phase EXCEPT ![c] = "none"]
    /\ cache' = [cache EXCEPT ![c] = Blank]
    /\ jBuf' = [jBuf EXCEPT ![c] = Empty]
    /\ todo' = [todo EXCEPT ![c] = {}]
    /\ past' = past \ {c}
    /\ UNCHANGED found

\* The pager has its snapshot, and no lease.
StartReading(c) ==
    /\ GoTo(c, "reading")
    /\ holder' = Release(c)
    /\ phase' = [phase EXCEPT ![c] = "none"]
    /\ jBuf' = [jBuf EXCEPT ![c] = Empty]
    /\ past' = IF pc[c] = "reserved" THEN past \cup {c} ELSE past
    /\ UNCHANGED <<cache, todo>>

-----------------------------------------------------------------------------
(* SHARED, and the search for a hot journal. *)

LockShared(c) ==
    /\ pc[c] = "idle"
    /\ cache' = [cache EXCEPT ![c] = db]
    /\ phase' = [phase EXCEPT ![c] = "check"]
    /\ GoTo(c, "access")
    /\ UNCHANGED <<layout, blobVars, tableVars, jBuf, found, todo, past, nTx, faults>>

\* What the pager does with the answer of xAccess: before a rollback it asks
\* whether somebody holds RESERVED, under EXCLUSIVE it opens the journal.
Accessed(c, exists) ==
    \/ exists /\ phase[c] = "check" /\ GoTo(c, "reserved") /\ UNCHANGED <<holder, phase, cache, jBuf, todo, past>>
    \/ exists /\ phase[c] = "play" /\ GoTo(c, "open") /\ UNCHANGED <<holder, phase, cache, jBuf, todo, past>>
    \/ ~exists /\ StartReading(c)

\* xAccess: the table's answer, or that of a request; one that fails says no.
Access(c) ==
    /\ pc[c] = "access"
    /\ \/ /\ state[procOf[c]] # Unknown
          /\ Accessed(c, state[procOf[c]] = 1)
          /\ UNCHANGED <<found, faults>>
       \/ /\ state[procOf[c]] = Unknown
          /\ found' = [found EXCEPT ![c] = jExists]
          /\ GoTo(c, "seed")
          /\ UNCHANGED <<holder, phase, cache, jBuf, todo, past, faults>>
       \/ /\ state[procOf[c]] = Unknown
          /\ Fault("access")
          /\ Accessed(c, FALSE)
          /\ UNCHANGED found
    /\ UNCHANGED <<layout, db, jExists, jBlob, tableVars, nTx>>

Seed(c) ==
    /\ pc[c] = "seed"
    /\ StoreAnswer(c)
    /\ Accessed(c, found[c])
    /\ UNCHANGED <<layout, db, jExists, jBlob, found, nTx, faults>>

\* xCheckReservedLock: somebody's lease makes the journal theirs.
CheckReserved(c) ==
    /\ pc[c] = "reserved"
    /\ \/ /\ holder # NoLease
          /\ StartReading(c)
          /\ UNCHANGED faults
       \/ /\ \/ holder = NoLease /\ UNCHANGED faults
             \/ Fault("access")
          /\ GoTo(c, "open")
          /\ UNCHANGED <<holder, phase, cache, jBuf, todo, past>>
    /\ UNCHANGED <<layout, db, jExists, jBlob, tableVars, found, nTx>>

-----------------------------------------------------------------------------
(* xOpen of the journal. *)

\* Mutant: a rollback puts back pages that the journal has no entry for.
OpenedUndoesAll(c, content) ==
    \/ /\ phase[c] = "check" /\ Entries(content) # {}
       /\ GoTo(c, "hotLock")
       /\ UNCHANGED <<holder, phase, cache, jBuf, todo, past>>
    \/ /\ phase[c] = "check" /\ Entries(content) = {}
       /\ StartReading(c)
    \/ /\ phase[c] = "play"
       /\ jBuf' = [jBuf EXCEPT ![c] = content]
       /\ cache' = [cache EXCEPT ![c] = content]
       /\ todo' = [todo EXCEPT ![c] = Entries(content)]
       /\ GoTo(c, "upload")
       /\ UNCHANGED <<holder, phase, past>>
    \/ /\ phase[c] = "tx"
       /\ GoTo(c, "begin")
       /\ UNCHANGED <<holder, phase, cache, jBuf, todo, past>>

\* A look for a hot journal reads the first byte; a rollback puts the pages
\* back in the cache file; a new transaction writes over the buffer.
Opened(c, content) ==
    \/ /\ phase[c] = "check" /\ Entries(content) # {}
       /\ GoTo(c, "hotLock")
       /\ UNCHANGED <<holder, phase, cache, jBuf, todo, past>>
    \/ /\ phase[c] = "check" /\ Entries(content) = {}
       /\ StartReading(c)
    \/ /\ phase[c] = "play"
       /\ jBuf' = [jBuf EXCEPT ![c] = content]
       /\ cache' = [cache EXCEPT ![c] = Undo(content, @)]
       /\ todo' = [todo EXCEPT ![c] = Entries(content)]
       /\ GoTo(c, IF Entries(content) = {} THEN "put" ELSE "upload")
       /\ UNCHANGED <<holder, phase, past>>
    \/ /\ phase[c] = "tx"
       /\ GoTo(c, "begin")
       /\ UNCHANGED <<holder, phase, cache, jBuf, todo, past>>

\* The table's 0 saves the request; the error of a request is not looked at.
Open(c) ==
    /\ pc[c] = "open"
    /\ \/ /\ state[procOf[c]] = 0
          /\ Opened(c, Empty)
          /\ UNCHANGED <<found, faults>>
       \/ /\ state[procOf[c]] # 0
          /\ \/ found' = [found EXCEPT ![c] = jExists] /\ UNCHANGED faults
             \/ found' = [found EXCEPT ![c] = FALSE] /\ Fault("head")
          /\ GoTo(c, "openSeed")
          /\ UNCHANGED <<holder, phase, cache, jBuf, todo, past>>
    /\ UNCHANGED <<layout, db, jExists, jBlob, tableVars, nTx>>

OpenSeed(c) ==
    /\ pc[c] = "openSeed"
    /\ StoreAnswer(c)
    /\ \/ found[c] /\ GoTo(c, "get") /\ UNCHANGED <<holder, phase, cache, jBuf, todo, past>>
       \/ ~found[c] /\ Opened(c, Empty)
    /\ UNCHANGED <<layout, db, jExists, jBlob, found, nTx, faults>>

\* A download that fails, or finds nothing, leaves the buffer empty.
Get(c) ==
    /\ pc[c] = "get"
    /\ \/ Opened(c, jBlob) /\ UNCHANGED faults
       \/ Opened(c, Empty) /\ Fault("download")
    /\ UNCHANGED <<layout, db, jExists, jBlob, tableVars, found, nTx>>

\* EXCLUSIVE for the rollback; nothing has been read, so the cache follows.
HotLock(c) ==
    /\ pc[c] = "hotLock"
    /\ \/ /\ holder = NoLease
          /\ holder' = c
          /\ cache' = [cache EXCEPT ![c] = db]
          /\ phase' = [phase EXCEPT ![c] = "play"]
          /\ GoTo(c, "access")
          /\ UNCHANGED <<jBuf, found, todo, past>>
       \/ holder # NoLease /\ Leave(c)
    /\ UNCHANGED <<layout, db, jExists, jBlob, tableVars, nTx, faults>>

-----------------------------------------------------------------------------
(* A write transaction: xOpen, xWrite and xSync of the journal, xSync of   *)
(* the database, and the step that makes the journal cold.                 *)

\* RESERVED: SQLITE_BUSY unless the blob is free and what the cache shows.
Reserve(c) ==
    /\ pc[c] = "reading"
    /\ nTx < MaxTx
    /\ holder = NoLease
    /\ cache[c] = db
    /\ c \in past => layout.pastWriters
    /\ holder' = c
    /\ phase' = [phase EXCEPT ![c] = "tx"]
    /\ GoTo(c, "open")
    /\ UNCHANGED <<layout, db, jExists, jBlob, tableVars, cache, jBuf, found, todo, past, nTx, faults>>

EndRead(c) ==
    /\ pc[c] = "reading"
    /\ Leave(c)
    /\ UNCHANGED <<layout, db, jExists, jBlob, tableVars, nTx, faults>>

\* The pages S are copied to the journal buffer and overwritten.
Write(c, S) ==
    /\ pc[c] = "begin"
    /\ S # {}
    /\ nTx < MaxTx
    /\ nTx' = nTx + 1
    /\ jBuf' = [jBuf EXCEPT ![c] = [p \in Page |-> IF p \in S THEN cache[c][p] ELSE None]]
    /\ cache' = [cache EXCEPT ![c] = [p \in Page |-> IF p \in S THEN nTx + 1 ELSE @[p]]]
    /\ todo' = [todo EXCEPT ![c] = S]
    /\ GoTo(c, "upload")
    /\ UNCHANGED <<layout, blobVars, tableVars, phase, found, past, faults>>

\* The journal blob is replaced by the buffer.
JournalUploaded(c) == jExists' = TRUE /\ jBlob' = jBuf[c]

\* Mutant: the sync of the journal is left out, as with synchronous=OFF.
UploadSkipped(c) ==
    /\ pc[c] = "upload"
    /\ GoTo(c, "put")
    /\ UNCHANGED <<layout, blobVars, tableVars, phase, cache, jBuf, found, todo, past, nTx, faults>>

\* xSync of the journal, in a commit or before a rollback; no lease protects it.
Upload(c) ==
    /\ pc[c] = "upload"
    /\ JournalUploaded(c)
    /\ SetState(c, 1)
    /\ GoTo(c, "put")
    /\ UNCHANGED <<layout, db, holder, overtaken, phase, cache, jBuf, found, todo, past, nTx, faults>>

\* The transaction ends before the database was touched: the pager forgets
\* its pages and deletes the journal.
Discard(c) ==
    /\ phase' = [phase EXCEPT ![c] = "undo"]
    /\ cache' = [cache EXCEPT ![c] = Undo(jBuf[c], @)]
    /\ todo' = [todo EXCEPT ![c] = {}]
    /\ GoTo(c, "finalise")
    /\ UNCHANGED <<holder, jBuf, found, past>>

UploadFail(c) ==
    /\ pc[c] = "upload"
    /\ \/ Fault("upload") /\ UNCHANGED <<jExists, jBlob>>
       \/ Fault("uploadLost") /\ JournalUploaded(c)
    /\ \/ phase[c] = "tx" /\ Discard(c)
       \/ phase[c] = "play" /\ Leave(c)
    /\ UNCHANGED <<layout, db, tableVars, nTx>>

\* ROLLBACK before the commit.
Rollback(c) ==
    /\ pc[c] = "upload" /\ phase[c] = "tx"
    /\ Discard(c)
    /\ UNCHANGED <<layout, db, jExists, jBlob, tableVars, nTx, faults>>

\* One page of xSync of the database, which needs the lease.
Put(c) ==
    /\ pc[c] = "put"
    /\ holder = c
    /\ \E p \in todo[c] :
         /\ db' = [db EXCEPT ![p] = cache[c][p]]
         /\ todo' = [todo EXCEPT ![c] = @ \ {p}]
    /\ UNCHANGED <<layout, holder, jExists, jBlob, tableVars, pc, phase, cache, jBuf, found, past, nTx, faults>>

\* The first phase of a commit fails, and the transaction is rolled back from
\* the buffer; a rollback that fails leaves the journal to the next connection.
PlayBack(c) ==
    \/ /\ phase[c] = "tx"
       /\ phase' = [phase EXCEPT ![c] = "undo"]
       /\ cache' = [cache EXCEPT ![c] = Undo(jBuf[c], @)]
       /\ todo' = [todo EXCEPT ![c] = Entries(jBuf[c])]
       /\ GoTo(c, "put")
       /\ UNCHANGED <<holder, jBuf, found, past>>
    \/ phase[c] # "tx" /\ Leave(c)

PutFail(c) ==
    /\ pc[c] = "put"
    /\ \/ todo[c] # {} /\ holder # c /\ UNCHANGED faults
       \/ Fault("put")
    /\ PlayBack(c)
    /\ UNCHANGED <<layout, db, jExists, jBlob, tableVars, nTx>>

\* Mutant: the flush stops before the last range.
FlushedShort(c) ==
    /\ pc[c] = "put"
    /\ \A p, q \in todo[c] : p = q
    /\ GoTo(c, "finalise")
    /\ UNCHANGED <<layout, blobVars, tableVars, phase, cache, jBuf, found, todo, past, nTx, faults>>

Flushed(c) ==
    /\ pc[c] = "put"
    /\ todo[c] = {}
    /\ GoTo(c, "finalise")
    /\ UNCHANGED <<layout, blobVars, tableVars, phase, cache, jBuf, found, todo, past, nTx, faults>>

\* xDelete, or xWrite of a zeroed header and xSync.  xTruncate to nothing
\* empties the buffer, and xSync of an empty buffer sends no request.
JournalCold(mode) ==
    \/ mode = "delete" /\ jExists' = FALSE /\ jBlob' = Empty
    \/ mode = "persist" /\ jExists' = TRUE /\ jBlob' = Empty
    \/ mode = "truncate" /\ UNCHANGED <<jExists, jBlob>>

Finalise(c, mode) ==
    /\ pc[c] = "finalise"
    /\ JournalCold(mode)
    /\ \/ mode = "truncate" /\ UNCHANGED state
       \/ mode # "truncate" /\ SetState(c, Bit(mode = "persist"))
    /\ GoTo(c, "unlock")
    /\ UNCHANGED <<layout, db, holder, overtaken, phase, cache, jBuf, found, todo, past, nTx, faults>>

\* The second phase of a commit, or the end of a rollback, fails: the pager
\* has closed the journal and gives up the lease, and its error state takes
\* back nothing.  The journal, if it is still there, is hot for whoever comes.
FinaliseFail(c, mode) ==
    /\ pc[c] = "finalise"
    /\ mode # "truncate"
    /\ \/ Fault("delete") /\ UNCHANGED <<jExists, jBlob>>
       \/ Fault("deleteLost") /\ JournalCold(mode)
    /\ Leave(c)
    /\ UNCHANGED <<layout, db, tableVars, nTx>>

\* After a rollback of a hot journal the pager goes on at SHARED.
Unlock(c) ==
    /\ pc[c] = "unlock"
    /\ \/ phase[c] = "play" /\ StartReading(c) /\ UNCHANGED found
       \/ phase[c] # "play" /\ Leave(c)
    /\ UNCHANGED <<layout, db, jExists, jBlob, tableVars, nTx, faults>>

-----------------------------------------------------------------------------
(* A process dies with its connections and its table; its lease runs on.   *)

Crash(r) ==
    LET Dead == {c \in Conn : procOf[c] = r}
        Reset(f, v) == [c \in Conn |-> IF c \in Dead THEN v ELSE f[c]]
    IN  /\ \E c \in Dead : pc[c] # "idle"
        /\ holder' = IF holder \in Dead THEN Lost ELSE holder
        /\ state' = [state EXCEPT ![r] = Unknown]
        /\ pc' = Reset(pc, "idle")
        /\ phase' = Reset(phase, "none")
        /\ cache' = Reset(cache, Blank)
        /\ jBuf' = Reset(jBuf, Empty)
        /\ found' = Reset(found, FALSE)
        /\ todo' = Reset(todo, {})
        /\ past' = past \ Dead
        /\ UNCHANGED <<layout, db, jExists, jBlob, overtaken, nTx, faults>>

Expire ==
    /\ \/ holder = Lost /\ UNCHANGED faults
       \/ holder \in Conn /\ Fault("expiry")
    /\ holder' = NoLease
    /\ UNCHANGED <<layout, db, jExists, jBlob, tableVars, connVars, nTx>>

Next ==
    \/ Expire
    \/ \E r \in Proc : Crash(r)
    \/ \E c \in Conn :
         \/ LockShared(c) \/ Access(c) \/ Seed(c) \/ CheckReserved(c)
         \/ Open(c) \/ OpenSeed(c) \/ Get(c) \/ HotLock(c)
         \/ Reserve(c) \/ EndRead(c)
         \/ \E S \in SUBSET Page : Write(c, S)
         \/ Upload(c) \/ UploadFail(c) \/ Rollback(c)
         \/ Put(c) \/ PutFail(c) \/ Flushed(c)
         \/ \E mode \in layout.modes : Finalise(c, mode) \/ FinaliseFail(c, mode)
         \/ Unlock(c)

Spec == Init /\ [][Next]_vars

-----------------------------------------------------------------------------
(* Properties. *)

\* The requests that look for a journal are answered, no table is older than
\* what another process did, and none has an answer that was overtaken.
Reliable ==
    /\ layout.faulty \subseteq {"upload", "uploadLost", "put", "delete", "deleteLost"}
    /\ layout.tracked = {} \/ \A c, d \in Conn : procOf[c] = procOf[d]
    /\ ~overtaken

\* What the database is once a journal that is there has been rolled back.
Recoverable == Undo(jBlob, db)

\* The content that the transaction of c is about to commit.
Work == [c \in Conn |->
           IF phase[c] = "tx" /\ pc[c] \in {"upload", "put", "finalise"}
           THEN cache[c] ELSE Nothing]

(***************************************************************************)
(* The page blob and the journal blob together are one value that write    *)
(* transactions replace whole: at every moment, whatever process dies, a   *)
(* rollback finds either the content before a transaction or the content   *)
(* after it, and a transaction is built on the content before it.  The     *)
(* code promises it where the search for a journal can be relied upon.     *)
(***************************************************************************)
Atomic == INSTANCE AtomicCommit WITH Stamp <- 0..MaxTx, value <- Recoverable, work <- Work
AtomicSpec ==
    /\ Reliable => Atomic!Init
    /\ [][Reliable => [Atomic!Next]_<<Recoverable, Work>>]_vars

(***************************************************************************)
(* When the step that makes the journal cold returns to a commit, that     *)
(* commit is what a process that starts now would find.                    *)
(***************************************************************************)
CommitDurable ==
    [][\A c \in Conn :
          phase[c] = "tx" /\ pc[c] = "finalise" /\ pc'[c] = "unlock"
              => Recoverable' = cache[c]]_vars
=============================================================================

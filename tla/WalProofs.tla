----------------------------- MODULE WalProofs -----------------------------
(***************************************************************************)
(* Wal: recovery finds a commit, and sessions read what they committed,    *)
(* for any number of connections, pages, transactions and faults, as long  *)
(* as the lease of a live session does not expire.                         *)
(***************************************************************************)
EXTENDS Wal, WellFoundedInduction, TLAPS

\* Most leaves are first-order; a leaf that needs arithmetic or equality of
\* functions cites SMT.
USE Zenon

NoExpiry == "expiry" \notin Faulty

\* The WAL file is open.
Session == {"ready", "flush", "delete", "unlock"} \cup Uploading
InSession(c) == pc[c] \in Session

Cov(log, n) == UNION {log.frames[i].pages : i \in 1..n}
OnDisk == Cov(walBlob, Committed(walBlob))

Allowed == {durable} \cup unsynced \cup doubt

-----------------------------------------------------------------------------
(* The inductive invariant. *)

\* What a connection that waits for an upload will write, or has written.
Framing(c) ==
    /\ pc[c] = "header" => hdr[c].mxFrame = 0
    /\ pc[c] = "commit" => hdr[c].mxFrame < MaxTx

Local == TypeOK /\ \A c \in Conn : Framing(c)

\* Numbers are drawn once, and a transaction writes a page.
LogOK(log, n) ==
    /\ log.salt <= n
    /\ \A i \in Slot : /\ log.frames[i].tx <= n
                       /\ log.frames[i].prev <= n
                       /\ log.frames[i] # NoRec => log.frames[i].pages # {}

\* The buffer: committed frames, then what was rolled back or is under way.
BufferInv(c) ==
    LET log == aWalData[c]
        h == hdr[c]
    IN  /\ h.nBackfill <= h.mxFrame
        /\ h.aSalt # 0 => log.salt = h.aSalt
        /\ Valid(log, h.mxFrame)
        /\ Tail(log, h, cache[c]) \subseteq Allowed
        /\ pc[c] = "header" =>
             /\ txn[c].tx = nTx /\ txn[c].pages # {}
             /\ \A i \in Slot : log.frames[i].prev < nTx
        /\ pc[c] = "commit" =>
             /\ Valid(log, h.mxFrame + 1)
             /\ log.frames[h.mxFrame + 1].tx = nTx
             /\ \A i \in Slot \ {h.mxFrame + 1} : log.frames[i].prev < nTx

\* The pages of the frames that no checkpoint has copied yet.
Between(log, b, n) == UNION {log.frames[i].pages : i \in b + 1..n}
Pending(c) == Between(aWalData[c], hdr[c].nBackfill, hdr[c].mxFrame)

\* The cache file: it is the page blob but for pages that a checkpoint is
\* copying from the log, and that the log in the blob has too.
FileInv(c) ==
    /\ dirty[c] \subseteq Pending(c)
    /\ dirty[c] \subseteq OnDisk
    /\ \A p \in Page \ dirty[c] : cache[c][p] = db[p]
    /\ \A p \in Page \ Pending(c) : cache[c][p] = View(c)[p]

\* What the session reads is its last commit.
ReadInv(c) == View(c) = latest /\ latest \in {durable} \cup unsynced

\* Checkpoints and deletions.
CkptInv(c) ==
    /\ pc[c] \in {"ckpt", "flush"} => hdr[c].nBackfill < hdr[c].mxFrame
    /\ pc[c] = "delete" => hdr[c].nBackfill = hdr[c].mxFrame
    /\ pc[c] = "flush" =>
         /\ walBlob = aWalData[c]
         /\ cache[c] = View(c)
         /\ dirty[c] # {} /\ todo[c] \subseteq dirty[c]
         /\ \A p \in dirty[c] \ todo[c] : db[p] = cache[c][p]

\* d's xClose may still write pages.
Claims(d) == pc[d] = "closeDb" /\ d \in fresh

\* The session has put nothing in the page blob since, and its log has them.
ClaimInv(c, d) ==
    Claims(d) =>
        /\ hdr[c].nBackfill = 0
        /\ dirty[d] \subseteq Cov(aWalData[c], hdr[c].mxFrame)
        /\ pc[c] = "flush" => todo[c] = dirty[c]

SessionInv(c) ==
    /\ BufferInv(c) /\ FileInv(c) /\ ReadInv(c) /\ CkptInv(c)
    /\ \A d \in Conn : ClaimInv(c, d)

\* The blocks that an upload has staged are those of the buffer.
StageInv(c) ==
    /\ pc[c] \notin Uploading => done[c] = {}
    /\ done[c] \subseteq Blocks(aWalData[c])
    /\ \A i \in done[c] : staged[i] = Chunk(aWalData[c], i)

\* Before a session: with the lease the cache file is the page blob.
OpenInv(c) ==
    pc[c] \in {"idle", "access", "lock", "get"} =>
        /\ dirty[c] = {}
        /\ holder = c /\ pc[c] # "idle" => cache[c] = db

ConnInv(c) ==
    /\ InSession(c) \/ pc[c] = "get" => holder = c
    /\ InSession(c) => SessionInv(c)
    /\ OpenInv(c)
    /\ StageInv(c)
    /\ Claims(c) => dirty[c] \subseteq OnDisk

Core ==
    /\ LogOK(walBlob, nTx)
    /\ \A c \in Conn : LogOK(aWalData[c], nTx)
    /\ RecoversCommit
    /\ \A c \in Conn : ConnInv(c)

IInv == Local /\ (NoExpiry => Core)

-----------------------------------------------------------------------------
(* Numbers of frames and of transactions. *)

\* The next number, and what is below it.
LEMMA Succ ==
    \A n \in Nat :
        /\ n + 1 \in Nat /\ n <= n /\ n <= n + 1 /\ n \in 0..n + 1
        /\ \A i \in Nat : i <= n => i < n + 1 /\ i <= n + 1
BY SMT

\* The numbers that a header holds.
LEMMA FrameNumber ==
    \A n \in 0..MaxTx :
        /\ n \in Nat
        /\ n < MaxTx => n + 1 \in Slot
        /\ n <= 0 => n = 0
        /\ \A m \in Slot : m > n => m = n + 1 \/ m > n + 1
BY BoundsAssumption, SMT DEF Slot

\* A transaction that has not been chained yet.
LEMMA NewRec ==
    ASSUME NEW n \in Nat, NEW S \in SUBSET Page
    PROVE  [tx |-> n, prev |-> 0, pages |-> S] \in Rec
BY SMT DEF Rec

\* Pages of one content over another.
LEMMA Merged ==
    ASSUME NEW d \in Content, NEW e \in Content, NEW P
    PROVE  [p \in Page |-> IF p \in P THEN d[p] ELSE e[p]] \in Content
BY SMT DEF Content

-----------------------------------------------------------------------------
(* Logs. *)

\* A set of naturals has a least element.
LEMMA Least ==
    ASSUME NEW T \in SUBSET Nat, T # {}
    PROVE  \E x \in T : \A y \in T : x <= y
<1> DEFINE R == OpToRel(<, Nat)
<1>1. IsWellFoundedOn(R, Nat)
    BY NatLessThanWellFounded
<1> HIDE DEF R
<1>2. PICK x \in T : \A y \in T : <<y, x>> \notin R
    BY <1>1, WFMin
<1>3. \A y \in Nat : y < x => <<y, x>> \in R
    BY SMT DEF R, OpToRel
<1>4. \A y \in T : ~(y < x)
    BY <1>2, <1>3
<1> QED BY <1>4, SMT

\* Newest is what its name says.
LEMMA NewestIs ==
    ASSUME NEW S \in SUBSET (0..MaxTx), S # {}
    PROVE  Newest(S) \in S /\ \A j \in S : j <= Newest(S)
<1> DEFINE T == {n \in Nat : MaxTx - n \in S}
<1>1. \A s \in S : MaxTx - s \in T
    BY BoundsAssumption, SMT
<1>2. T \in SUBSET Nat /\ T # {}
    BY <1>1
<1> HIDE DEF T
<1>3. PICK x \in T : \A y \in T : x <= y
    BY <1>2, Least
<1>4. MaxTx - x \in S
    BY <1>3 DEF T
<1>5. \A j \in S : j <= MaxTx - x
    BY <1>1, <1>2, <1>3, BoundsAssumption, SMT
<1> QED BY <1>4, <1>5 DEF Newest

\* Recovery takes the longest run of frames that follow each other.
LEMMA CommittedIs ==
    ASSUME NEW log
    PROVE  /\ Committed(log) \in 0..MaxTx
           /\ Valid(log, Committed(log))
           /\ \A n \in 0..MaxTx : Valid(log, n) => n <= Committed(log)
<1> DEFINE S == {n \in 0..MaxTx : Valid(log, n)}
<1>1. 0 \in 0..MaxTx /\ 1..0 = {}
    BY BoundsAssumption, SMT
<1>2. Valid(log, 0)
    BY <1>1 DEF Valid
<1>3. S \in SUBSET (0..MaxTx) /\ S # {}
    BY <1>1, <1>2
<1>4. Newest(S) \in S /\ \A j \in S : j <= Newest(S)
    BY <1>3, NewestIs
<1> QED BY <1>4 DEF Committed

\* A prefix of a valid log is valid.
LEMMA ValidPrefix ==
    ASSUME NEW log, NEW n \in Nat, NEW m \in 0..n, Valid(log, n)
    PROVE  Valid(log, m)
<1>1. 1..m \subseteq 1..n
    BY SMT
<1> QED BY <1>1 DEF Valid

\* More frames cover more pages.
LEMMA CovGrows ==
    ASSUME NEW log, NEW n \in Nat, NEW m \in 0..n
    PROVE  Cov(log, m) \subseteq Cov(log, n)
<1>1. 1..m \subseteq 1..n
    BY SMT
<1> QED BY <1>1 DEF Cov

\* No frames cover no page.
LEMMA CovNone == \A log : Cov(log, 0) = {}
<1>1. 1..0 = {}
    BY SMT
<1> QED BY <1>1 DEF Cov

\* The pages of the frames after b, up to n.
LEMMA BetweenIs ==
    ASSUME NEW log, NEW b \in Nat, NEW n \in Nat
    PROVE  /\ Between(log, b, n) \subseteq Cov(log, n)
           /\ Between(log, 0, n) = Cov(log, n)
           /\ Between(log, n, n) = {}
           /\ b <= n => Between(log, b, n + 1) = Between(log, b, n) \cup log.frames[n + 1].pages
<1>1. \A i \in b + 1..n : i \in 1..n
    BY SMT
<1>2. 0 + 1 = 1 /\ n + 1..n = {}
    BY SMT
<1>3. Between(log, 0, n) = Cov(log, n) /\ Between(log, n, n) = {}
    BY <1>2 DEF Between, Cov
<1>4. ASSUME b <= n
      PROVE  Between(log, b, n + 1) = Between(log, b, n) \cup log.frames[n + 1].pages
    <2>1. \A i : i \in b + 1..n + 1 <=> i \in b + 1..n \/ i = n + 1
        BY <1>4, SMT
    <2>2. \A x : x \in Between(log, b, n + 1) <=>
                  x \in Between(log, b, n) \/ x \in log.frames[n + 1].pages
        BY <2>1 DEF Between
    <2> QED BY <2>2
<1> QED BY <1>1, <1>3, <1>4 DEF Between, Cov

\* One more frame that is not copied yet.
Grown(log, b, n) == Between(log, b, n + 1) = Between(log, b, n) \cup log.frames[n + 1].pages

\* One more frame adds its pages.
LEMMA BetweenGrows ==
    ASSUME NEW log, NEW b \in Nat, NEW n \in Nat, b <= n
    PROVE  Grown(log, b, n)
BY BetweenIs DEF Grown

\* Equal frames have equal pages.
LEMMA BetweenSame ==
    ASSUME NEW log, NEW new, NEW b \in Nat, NEW n \in Nat,
           \A i \in 1..n : new.frames[i] = log.frames[i]
    PROVE  Between(new, b, n) = Between(log, b, n)
<1>1. \A i \in b + 1..n : i \in 1..n
    BY SMT
<1> QED BY <1>1 DEF Between

\* A page reads as the log has it, or else as the file below.
LEMMA ReplayAt ==
    ASSUME NEW log, NEW n, NEW d, NEW e, NEW p \in Page
    PROVE  /\ p \in Cov(log, n) => Replay(log, n, d)[p] = Replay(log, n, e)[p]
           /\ p \notin Cov(log, n) => Replay(log, n, d)[p] = d[p]
<1> DEFINE W == {i \in 1..n : p \in log.frames[i].pages}
<1>1. /\ Replay(log, n, d)[p] = IF W = {} THEN d[p] ELSE log.frames[Newest(W)].tx
      /\ Replay(log, n, e)[p] = IF W = {} THEN e[p] ELSE log.frames[Newest(W)].tx
    BY DEF Replay
<1>2. p \in Cov(log, n) <=> W # {}
    BY DEF Cov
<1> HIDE DEF W
<1> QED BY <1>1, <1>2

\* The log hides what is below the pages that it has.
LEMMA ReplaySame ==
    ASSUME NEW log, NEW n, NEW d, NEW e, \A p \in Page \ Cov(log, n) : d[p] = e[p]
    PROVE  Replay(log, n, d) = Replay(log, n, e)
<1>1. ASSUME NEW p \in Page PROVE Replay(log, n, d)[p] = Replay(log, n, e)[p]
    <2>1. /\ p \in Cov(log, n) => Replay(log, n, d)[p] = Replay(log, n, e)[p]
          /\ p \notin Cov(log, n) => Replay(log, n, d)[p] = d[p]
        BY ReplayAt, SMT
    <2>2. p \notin Cov(log, n) => Replay(log, n, e)[p] = e[p]
        BY ReplayAt, SMT
    <2> QED BY <2>1, <2>2
<1>2. Replay(log, n, d) = [p \in Page |-> Replay(log, n, d)[p]]
    BY DEF Replay
<1>3. Replay(log, n, e) = [p \in Page |-> Replay(log, n, e)[p]]
    BY DEF Replay
<1> QED BY <1>1, <1>2, <1>3

\* A checkpoint changes nothing of what a replay of all frames gives.
LEMMA ReplayTwice ==
    ASSUME NEW log, NEW n \in Nat, NEW m \in 0..n, NEW d
    PROVE  Replay(log, n, Replay(log, m, d)) = Replay(log, n, d)
<1>1. Cov(log, m) \subseteq Cov(log, n)
    BY CovGrows
<1>2. ASSUME NEW p \in Page \ Cov(log, n) PROVE Replay(log, m, d)[p] = d[p]
    <2>1. p \in Page /\ p \notin Cov(log, m)
        BY <1>1
    <2> QED BY <2>1, ReplayAt, SMT
<1> DEFINE r == Replay(log, m, d)
<1>3. \A p \in Page \ Cov(log, n) : r[p] = d[p]
    BY <1>2
<1> HIDE DEF r
<1>4. Replay(log, n, r) = Replay(log, n, d)
    BY <1>3, ReplaySame
<1> QED BY <1>4 DEF r

\* No frames change nothing.
LEMMA ReplayNone ==
    ASSUME NEW log, NEW d \in Content
    PROVE  Replay(log, 0, d) = d
<1>1. 1..0 = {}
    BY SMT
<1>2. Replay(log, 0, d) = [p \in Page |-> d[p]]
    BY <1>1 DEF Replay
<1> QED BY <1>2 DEF Content

\* A replay gives a content of the database.
LEMMA ReplayType ==
    ASSUME NEW log \in Log, NEW n \in 0..MaxTx, NEW d \in Content
    PROVE  Replay(log, n, d) \in Content
<1>1. ASSUME NEW p \in Page PROVE Replay(log, n, d)[p] \in Nat
    <2> DEFINE W == {i \in 1..n : p \in log.frames[i].pages}
    <2>1. Replay(log, n, d)[p] = IF W = {} THEN d[p] ELSE log.frames[Newest(W)].tx
        BY DEF Replay
    <2>2. W \in SUBSET (0..MaxTx) /\ W \subseteq Slot
        BY BoundsAssumption, SMT DEF Slot
    <2> HIDE DEF W
    <2>3. W # {} => Newest(W) \in Slot
        BY <2>2, NewestIs
    <2>4. \A i \in Slot : log.frames[i].tx \in Nat
        BY SMT DEF Log, Rec
    <2> QED BY <2>1, <2>3, <2>4 DEF Content
<1>2. Replay(log, n, d) = [p \in Page |-> Replay(log, n, d)[p]]
    BY DEF Replay
<1> QED BY <1>1, <1>2 DEF Content

\* A frame that leaves a page alone does not change how it reads.
LEMMA ReplayStep ==
    ASSUME NEW log, NEW n \in Nat, NEW d, NEW p \in Page, p \notin log.frames[n + 1].pages
    PROVE  Replay(log, n + 1, d)[p] = Replay(log, n, d)[p]
<1> DEFINE W(k) == {i \in 1..k : p \in log.frames[i].pages}
<1>1. \A i : i \in 1..(n + 1) <=> i \in 1..n \/ i = n + 1
    BY SMT
<1>2. W(n + 1) = W(n)
    BY <1>1
<1>3. \A k : Replay(log, k, d)[p] = IF W(k) = {} THEN d[p] ELSE log.frames[Newest(W(k))].tx
    BY DEF Replay
<1> HIDE DEF W
<1> QED BY <1>2, <1>3

Skipped(log, n, d, p) == Replay(log, n + 1, d)[p] = Replay(log, n, d)[p]

\* A frame leaves the pages alone that it does not hold.
LEMMA FrameSkips ==
    ASSUME NEW log, NEW n \in Nat, NEW d, NEW p \in Page, p \notin log.frames[n + 1].pages
    PROVE  Skipped(log, n, d, p)
BY ReplayStep, SMT DEF Skipped

\* What the first n frames say does not depend on the others.
LEMMA ReplayPrefix ==
    ASSUME NEW log, NEW new, NEW n \in 0..MaxTx, NEW d,
           \A i \in 1..n : new.frames[i] = log.frames[i]
    PROVE  Cov(new, n) = Cov(log, n) /\ Replay(new, n, d) = Replay(log, n, d)
<1>1. Cov(new, n) = Cov(log, n)
    BY DEF Cov
<1>2. ASSUME NEW p \in Page PROVE Replay(new, n, d)[p] = Replay(log, n, d)[p]
    <2> DEFINE W == {i \in 1..n : p \in log.frames[i].pages}
               V == {i \in 1..n : p \in new.frames[i].pages}
    <2>1. W = V
        OBVIOUS
    <2>2. 1..n \subseteq 0..MaxTx
        BY BoundsAssumption, SMT
    <2>3. /\ Replay(log, n, d)[p] = IF W = {} THEN d[p] ELSE log.frames[Newest(W)].tx
          /\ Replay(new, n, d)[p] = IF V = {} THEN d[p] ELSE new.frames[Newest(V)].tx
        BY DEF Replay
    <2>4. W \in SUBSET (0..MaxTx) /\ W \subseteq 1..n
        BY <2>2
    <2> HIDE DEF W, V
    <2>5. W # {} => Newest(W) \in 1..n
        BY <2>4, NewestIs
    <2> QED BY <2>1, <2>3, <2>5
<1>3. Replay(log, n, d) = [p \in Page |-> Replay(log, n, d)[p]]
    BY DEF Replay
<1>4. Replay(new, n, d) = [p \in Page |-> Replay(new, n, d)[p]]
    BY DEF Replay
<1> QED BY <1>1, <1>2, <1>3, <1>4

\* Validity depends on the salt and the frames only.
LEMMA ValidSame ==
    ASSUME NEW log, NEW new, NEW n \in 0..MaxTx, Valid(log, n), new.salt = log.salt,
           \A i \in 1..n : new.frames[i] = log.frames[i]
    PROVE  Valid(new, n)
<1>1. \A i \in 1..n : i # 1 => i - 1 \in 1..n
    BY BoundsAssumption, SMT
<1> QED BY <1>1 DEF Valid

\* One frame more follows.
LEMMA ValidStep ==
    ASSUME NEW log, NEW n \in Nat, Valid(log, n), log.frames[n + 1] # NoRec,
           log.frames[n + 1].prev = IF n = 0 THEN log.salt ELSE log.frames[n].tx
    PROVE  Valid(log, n + 1)
<1>1. \A i \in 1..(n + 1) : i \in 1..n \/ i = n + 1
    BY SMT
<1>2. (n + 1) - 1 = n /\ (n + 1 = 1 <=> n = 0)
    BY SMT
<1> QED BY <1>1, <1>2 DEF Valid

\* walFrames changes one frame.
OneFrame(log, h, t, new) ==
    LET n == h.mxFrame
    IN  /\ new \in Log
        /\ new.salt = log.salt
        /\ n + 1 \in Slot
        /\ \A i \in Slot : i # n + 1 => new.frames[i] = log.frames[i]
        /\ \A i \in 1..n : new.frames[i] = log.frames[i]
        /\ new.frames[n + 1].tx = t.tx
        /\ new.frames[n + 1].pages = t.pages
        /\ new.frames[n + 1].prev = IF n = 0 THEN log.salt ELSE log.frames[n].tx

\* walFrames writes one frame, after the committed ones.
LEMMA FramedIs ==
    ASSUME NEW log \in Log, NEW h, h.mxFrame \in 0..MaxTx, h.mxFrame < MaxTx, NEW t \in Rec
    PROVE  OneFrame(log, h, t, Framed(log, h, t))
<1> DEFINE k == h.mxFrame + 1
           r == IF h.mxFrame = 0 THEN log.salt ELSE log.frames[h.mxFrame].tx
           f == [t EXCEPT !.prev = r]
           fr == [log.frames EXCEPT ![k] = f]
<1>1. k \in Slot /\ (h.mxFrame # 0 => h.mxFrame \in Slot)
    BY BoundsAssumption, SMT DEF Slot
<1>2. log.frames \in [Slot -> Rec] /\ log.salt \in Nat /\ log.ckpt \in BOOLEAN
    BY DEF Log
<1>3. r \in Nat
    BY <1>1, <1>2 DEF Rec
<1> HIDE DEF r
<1>4. f \in Rec /\ f.tx = t.tx /\ f.pages = t.pages /\ f.prev = r
    BY <1>3, SMT DEF Rec
<1> HIDE DEF f, k
<1>5. fr \in [Slot -> Rec] /\ fr[k] = f /\ \A i \in Slot : i # k => fr[i] = log.frames[i]
    BY <1>1, <1>2, <1>4
<1>6. Framed(log, h, t) = [log EXCEPT !.frames = fr]
    BY DEF Framed, f, r, k
<1> HIDE DEF fr
<1>7. /\ Framed(log, h, t) \in Log
      /\ Framed(log, h, t).salt = log.salt
      /\ Framed(log, h, t).frames = fr
    BY <1>2, <1>5, <1>6, SMT DEF Log
<1>8. \A i \in 1..h.mxFrame : i \in Slot /\ i # k
    BY BoundsAssumption, SMT DEF Slot, k
<1> QED BY <1>1, <1>4, <1>5, <1>7, <1>8 DEF k, r, OneFrame

\* No old frame follows the frame of the newest transaction.
LEMMA TailStops ==
    ASSUME NEW log, NEW N \in Nat, NEW n \in Nat, log.frames[n + 1].tx = N,
           \A i \in Slot \ {n + 1} : log.frames[i].prev < N,
           NEW m \in Slot, m > n + 1
    PROVE  ~ Valid(log, m)
<1>1. /\ n + 2 \in Slot \ {n + 1}
      /\ n + 2 \in 1..m
      /\ n + 2 # 1
      /\ (n + 2) - 1 = n + 1
    BY BoundsAssumption, SMT DEF Slot
<1>2. Valid(log, m) => log.frames[n + 2].prev = N
    BY <1>1 DEF Valid
<1>3. log.frames[n + 2].prev < N
    BY <1>1
<1>4. ~(N < N)
    BY SMT
<1> QED BY <1>2, <1>3, <1>4

\* No old frame follows new salts.
LEMMA TailRestarts ==
    ASSUME NEW log, log.salt \in Nat, \A i \in Slot : log.frames[i].prev < log.salt,
           NEW m \in Slot
    PROVE  ~ Valid(log, m)
<1>1. 1 \in Slot /\ 1 \in 1..m
    BY BoundsAssumption, SMT DEF Slot
<1>2. Valid(log, m) => log.frames[1].prev = log.salt
    BY <1>1 DEF Valid
<1>3. ~(log.salt < log.salt)
    BY SMT
<1> QED BY <1>1, <1>2, <1>3

\* An empty WAL file.
LEMMA EmptyLog ==
    /\ NoLog \in Log
    /\ NoLog.salt = 0
    /\ \A i \in Slot : NoLog.frames[i] = NoRec
    /\ \A m \in Slot : ~ Valid(NoLog, m)
    /\ Committed(NoLog) = 0
<1>1. NoRec \in Rec
    BY SMT DEF NoRec, Rec
<1>2. NoLog.salt = 0 /\ \A i \in Slot : NoLog.frames[i] = NoRec
    BY DEF NoLog
<1>3. NoLog \in Log
    BY <1>1, SMT DEF NoLog, Log
<1>4. ASSUME NEW m \in Slot PROVE ~ Valid(NoLog, m)
    <2>1. 1 \in Slot /\ 1 \in 1..m
        BY BoundsAssumption, SMT DEF Slot
    <2> QED BY <1>2, <2>1 DEF Valid
<1>5. \A n \in 0..MaxTx : n = 0 \/ n \in Slot
    BY BoundsAssumption, SMT DEF Slot
<1> QED BY <1>2, <1>3, <1>4, <1>5, CommittedIs

\* What recovery makes of a log that a connection with the header h has in
\* its buffer, and of a page blob that differs from its cache file e only
\* where the log has the pages.
LEMMA LogRecovers ==
    ASSUME NEW log, NEW h, h.mxFrame \in 0..MaxTx, Valid(log, h.mxFrame), NEW d, NEW e,
           \A p \in Page \ Cov(log, h.mxFrame) : d[p] = e[p]
    PROVE  /\ Cov(log, h.mxFrame) \subseteq Cov(log, Committed(log))
           /\ Replay(log, Committed(log), d) \in {Replay(log, h.mxFrame, e)} \cup Tail(log, h, e)
<1> DEFINE n == h.mxFrame
           k == Committed(log)
<1>1. k \in 0..MaxTx /\ Valid(log, k) /\ n <= k
    BY CommittedIs
<1> HIDE DEF k
<1>2. k \in Nat /\ n \in 0..k /\ (k = n \/ (k \in Slot /\ k > n))
    BY <1>1, BoundsAssumption, SMT DEF Slot
<1>3. Cov(log, n) \subseteq Cov(log, k)
    BY <1>2, CovGrows
<1>4. \A p \in Page \ Cov(log, k) : d[p] = e[p]
    BY <1>3
<1>5. Replay(log, k, d) = Replay(log, k, e)
    BY <1>4, ReplaySame, SMT
<1>6. k # n => Replay(log, k, e) \in Tail(log, h, e)
    BY <1>1, <1>2 DEF Tail
<1> QED BY <1>3, <1>5, <1>6 DEF k

\* Put Blob and Put Block List make the blob what the buffer is.
LEMMA Uploaded ==
    ASSUME TypeOK, NEW c \in Conn, StageInv(c), PutBlob(c) \/ PutBlockList(c)
    PROVE  walBlob' = aWalData[c] /\ staged' = NoBlocks
<1> DEFINE log == aWalData[c]
<1>1. ASSUME PutBlockList(c) PROVE Assembled(log) = log
    <2>1. log \in Log
        BY DEF TypeOK
    <2>2. 1 \in Slot
        BY BoundsAssumption, SMT DEF Slot
    <2>3. \A i \in Blocks(log) : staged[i] = Chunk(log, i)
        BY <1>1 DEF PutBlockList, StageInv
    <2>4. 1 \in Blocks(log) /\ \A i \in Slot : i \notin Blocks(log) => log.frames[i] = NoRec
        BY DEF Blocks
    <2> HIDE DEF log
    <2>5. log.ckpt \in BOOLEAN /\ log.frames \in [Slot -> Rec]
        BY <2>1 DEF Log
    <2>6. /\ \A i : Chunk(log, i).rec = log.frames[i]
          /\ Chunk(log, 1).salt = log.salt
        BY DEF Chunk
    <2>7. Chunk(log, 1).ckpt = log.ckpt
        <3>1. CASE log.ckpt = TRUE
            BY <3>1 DEF Chunk
        <3>2. CASE log.ckpt = FALSE
            BY <3>2 DEF Chunk
        <3> QED BY <2>5, <3>1, <3>2
    <2>8. [i \in Slot |-> IF i \in Blocks(log) THEN staged[i].rec ELSE NoRec] = log.frames
        BY <2>3, <2>4, <2>5, <2>6
    <2>9. log = [salt |-> log.salt, ckpt |-> log.ckpt, frames |-> log.frames]
        BY <2>1, SMT DEF Log
    <2>10. staged[1].salt = log.salt /\ staged[1].ckpt = log.ckpt
        BY <2>3, <2>4, <2>6, <2>7
    <2> QED BY <2>8, <2>9, <2>10 DEF Assembled
<1> QED BY <1>1 DEF PutBlob, PutBlockList

-----------------------------------------------------------------------------
(* Types, whatever expires. *)

\* The first state has the types of its variables.
LEMMA LocalInit == Init => Local
<1> SUFFICES ASSUME Init PROVE Local
    OBVIOUS
<1>1. Blank \in Content
    BY SMT DEF Blank, Content
<1>2. NoLog \in Log
    BY EmptyLog
<1>3. NoRec \in Rec
    BY SMT DEF NoRec, Rec
<1>4. NoBlocks \in [Slot -> Block]
    BY <1>3, SMT DEF NoBlocks, Block
<1>5. NoHdr \in Hdr /\ 0 \in 0..MaxTx /\ 0 \in 0..MaxFaults
    BY BoundsAssumption, SMT DEF NoHdr, Hdr
<1>6. "idle" \in PC /\ "none" \in Goal
    BY DEF PC, Goal
<1>7. level \in [Conn -> {"full", "normal"}]
    BY LevelsAssumption DEF Init
<1>8. TypeOK
    BY <1>1, <1>2, <1>3, <1>4, <1>5, <1>6, <1>7 DEF Init, TypeOK
<1>9. \A c \in Conn : Framing(c)
    BY DEF Init, Framing
<1> QED BY <1>8, <1>9 DEF Local

\* The steps that leave the log, its header and the history alone.
LEMMA LocalPlain ==
    ASSUME Local, NEW c \in Conn,
           \/ LockShared(c) \/ Access(c) \/ Lock(c)
           \/ \E g \in Goal : Checkpoint(c, g)
           \/ \E p \in Page : PutPage(c, p)
           \/ PutPageFail(c) \/ Close(c)
    PROVE  Local'
<1> USE DEF Local, GoTo, Fault, blobVars, fileVars, walVars, histVars
<1>0. {"idle", "access", "lock", "get", "ready", "flush", "delete", "unlock", "closeDb",
       "header", "commit", "ckpt", "close"} \subseteq PC
    BY DEF PC, Uploading
<1>1. CASE LockShared(c)
    <2>1. TypeOK'
        BY <1>0, <1>1, SMT DEF LockShared, TypeOK
    <2> QED BY <1>1, <2>1, SMT DEF LockShared, Framing, TypeOK
<1>2. CASE Access(c)
    <2>1. TypeOK'
        BY <1>0, <1>2, BoundsAssumption, SMT DEF Access, ReadsHeader, TypeOK
    <2> QED BY <1>2, <2>1, SMT DEF Access, Framing, TypeOK
<1>3. CASE Lock(c)
    <2>1. TypeOK'
        BY <1>0, <1>3, SMT DEF Lock, TypeOK
    <2> QED BY <1>3, <2>1, SMT DEF Lock, Framing, TypeOK
<1>4. ASSUME NEW g \in Goal, Checkpoint(c, g) PROVE Local'
    <2>1. TypeOK'
        BY <1>0, <1>4, SMT DEF Checkpoint, TypeOK
    <2> QED BY <1>4, <2>1, SMT DEF Checkpoint, Framing, TypeOK
<1>5. ASSUME NEW p \in Page, PutPage(c, p) PROVE Local'
    <2>1. TypeOK'
        BY <1>0, <1>5, SMT DEF PutPage, TypeOK, Content
    <2> QED BY <1>5, <2>1, SMT DEF PutPage, Framing, TypeOK
<1>6. CASE PutPageFail(c)
    <2>1. TypeOK'
        BY <1>0, <1>6, BoundsAssumption, SMT DEF PutPageFail, TypeOK, Goal
    <2> QED BY <1>6, <2>1, SMT DEF PutPageFail, Framing, TypeOK
<1>7. CASE Close(c)
    <2>1. TypeOK'
        BY <1>0, <1>7, SMT DEF Close, TypeOK, Goal
    <2> QED BY <1>7, <2>1, SMT DEF Close, Framing, TypeOK
<1> QED BY <1>1, <1>2, <1>3, <1>4, <1>5, <1>6, <1>7

\* A restarted header: no frames, and a new salt to come.
LEMMA RestartedIs ==
    ASSUME NEW h \in Hdr
    PROVE  /\ Restarted(h) \in Hdr
           /\ Restarted(h).nCkpt = TRUE
           /\ Restarted(h).aSalt = 0
           /\ Restarted(h).mxFrame = 0
           /\ Restarted(h).nBackfill = 0
<1>1. PICK t \in BOOLEAN : t = TRUE
    OBVIOUS
<1> DEFINE h1 == [h EXCEPT !.nCkpt = t]
           h2 == [h1 EXCEPT !.aSalt = 0]
           h3 == [h2 EXCEPT !.mxFrame = 0]
           h4 == [h3 EXCEPT !.nBackfill = 0]
<1>2. Restarted(h) = h4
    BY <1>1 DEF Restarted
<1>3. h1 \in Hdr
    BY SMT DEF Hdr
<1> HIDE DEF h1
<1>4. h4 \in Hdr
    <2>1. h2 \in Hdr
        BY <1>3, SMT DEF Hdr
    <2> HIDE DEF h2
    <2>2. h3 \in Hdr
        BY <2>1, BoundsAssumption, SMT DEF Hdr
    <2> HIDE DEF h3
    <2> QED BY <2>2, BoundsAssumption, SMT DEF Hdr
<1>5. Restarted(h).nCkpt = TRUE
    BY SMT DEF Restarted, Hdr
<1>6. Restarted(h).aSalt = 0
    BY SMT DEF Restarted, Hdr
<1>7. Restarted(h).mxFrame = 0 /\ Restarted(h).nBackfill = 0
    BY SMT DEF Restarted, Hdr
<1> QED BY <1>2, <1>4, <1>5, <1>6, <1>7

\* The end of a session keeps the types.
LEMMA LocalGone ==
    ASSUME Local, NEW c \in Conn, Unlock(c) \/ CloseDb(c) \/ Quit(c) \/ Crash(c)
    PROVE  Local'
<1>1. Blank \in Content /\ NoLog \in Log /\ NoRec \in Rec /\ NoHdr \in Hdr
    BY BoundsAssumption, EmptyLog, SMT DEF Blank, Content, NoRec, Rec, NoHdr, Hdr
<1>2. "idle" \in PC /\ "closeDb" \in PC /\ "none" \in Goal
    BY DEF PC, Goal
<1>3. TypeOK
    BY DEF Local
<1>4. Gone(c) => /\ pc' \in [Conn -> PC]
                 /\ goal' \in [Conn -> Goal]
                 /\ cache' \in [Conn -> Content]
                 /\ dirty' \in [Conn -> SUBSET Page]
                 /\ todo' \in [Conn -> SUBSET Page]
                 /\ reads' \in SUBSET Conn
                 /\ aWalData' \in [Conn -> Log]
                 /\ hdr' \in [Conn -> Hdr]
                 /\ txn' \in [Conn -> Rec]
                 /\ done' \in [Conn -> SUBSET Slot]
    BY <1>1, <1>2, <1>3, SMT DEF Gone, GoTo, TypeOK
<1>5. Gone(c) => \A d \in Conn : Framing(d)'
    BY <1>3, SMT DEF Gone, GoTo, Framing, Local, TypeOK
<1> USE DEF blobVars, fileVars, walVars, histVars
<1>6. CASE Unlock(c)
    <2>1. CASE dirty[c] = {}
        <3>1. TypeOK'
            BY <1>3, <1>4, <1>6, <2>1, SMT DEF Unlock, Release, TypeOK
        <3> QED BY <1>5, <1>6, <2>1, <3>1 DEF Unlock, Local
    <2>2. CASE dirty[c] # {}
        <3>1. TypeOK'
            BY <1>2, <1>3, <1>6, <2>2, SMT DEF Unlock, Release, GoTo, TypeOK
        <3>2. pc' = [pc EXCEPT ![c] = "closeDb"] /\ UNCHANGED hdr
            BY <1>6, <2>2 DEF Unlock, GoTo
        <3>3. \A d \in Conn : pc'[d] \in {pc[d], "closeDb"}
            BY <1>3, <3>2 DEF TypeOK
        <3> QED BY <3>1, <3>2, <3>3 DEF Framing, Local
    <2> QED BY <2>1, <2>2
<1>7. CASE CloseDb(c)
    <2>1. db' \in Content
        <3>1. db \in Content /\ cache[c] \in Content
            BY <1>3 DEF TypeOK
        <3>2. ASSUME NEW P, db' = [p \in Page |-> IF p \in P THEN cache[c][p] ELSE db[p]]
              PROVE  db' \in Content
            BY <3>1, <3>2, Merged
        <3> QED BY <1>7, <3>1, <3>2 DEF CloseDb
    <2>2. faults' \in 0..MaxFaults
        BY <1>3, <1>7, BoundsAssumption, SMT DEF CloseDb, Fault, TypeOK
    <2>3. fresh' \in SUBSET Conn
        BY <1>3, <1>7 DEF CloseDb, TypeOK
    <2>4. Gone(c) /\ UNCHANGED <<holder, walBlob, staged, level, histVars, nTx>>
        BY <1>7 DEF CloseDb
    <2>5. TypeOK'
        BY <1>3, <1>4, <2>1, <2>2, <2>3, <2>4 DEF TypeOK
    <2> QED BY <1>5, <2>4, <2>5 DEF Local
<1>8. CASE Quit(c)
    <2>1. TypeOK'
        BY <1>3, <1>4, <1>8, SMT DEF Quit, Release, TypeOK
    <2> QED BY <1>5, <1>8, <2>1 DEF Quit, Local
<1>9. CASE Crash(c)
    <2>1. TypeOK'
        BY <1>3, <1>4, <1>9, SMT DEF Crash, TypeOK
    <2> QED BY <1>5, <1>9, <2>1 DEF Crash, Local
<1> QED BY <1>6, <1>7, <1>8, <1>9

\* So does the end of a lease.
LEMMA LocalExpire ==
    ASSUME Local, Expire
    PROVE  Local'
<1> USE DEF blobVars, fileVars, walVars, histVars
<1>1. TypeOK'
    BY BoundsAssumption, SMT DEF Expire, Fault, Local, TypeOK
<1> QED BY <1>1 DEF Expire, Local, Framing

\* So does the end of a checkpoint.
LEMMA LocalFlushed ==
    ASSUME Local, NEW c \in Conn, Flushed(c)
    PROVE  Local'
<1> USE DEF blobVars, fileVars, walVars, histVars
<1>1. {"ready", "delete", "close"} \subseteq PC /\ "none" \in Goal
    BY DEF PC, Uploading, Goal
<1>2. hdr' \in [Conn -> Hdr]
    <2>1. [hdr[c] EXCEPT !.nBackfill = hdr[c].mxFrame] \in Hdr
        BY SMT DEF Local, TypeOK, Hdr
    <2> QED BY <2>1 DEF Flushed, Local, TypeOK
<1>3. pc' \in [Conn -> PC] /\ goal' \in [Conn -> Goal] /\ fresh' \in SUBSET Conn
    BY <1>1, SMT DEF Flushed, GoTo, Local, TypeOK
<1>4. dirty' \in [Conn -> SUBSET Page]
    BY DEF Flushed, Local, TypeOK
<1>5. TypeOK'
    BY <1>2, <1>3, <1>4 DEF Flushed, Local, TypeOK
<1>6. ASSUME NEW d \in Conn PROVE Framing(d)'
    <2>1. d = c => pc'[d] \in {"ready", "delete", "close"}
        BY DEF Flushed, GoTo, Local, TypeOK
    <2>2. d # c => pc'[d] = pc[d] /\ hdr'[d] = hdr[d]
        BY DEF Flushed, GoTo, Local, TypeOK
    <2> QED BY <2>1, <2>2 DEF Framing, Local
<1> QED BY <1>5, <1>6 DEF Local

\* So does the deletion of the log.
LEMMA LocalDelete ==
    ASSUME Local, NEW c \in Conn, Delete(c)
    PROVE  Local'
<1> USE DEF blobVars, fileVars, walVars, histVars
<1>1. {"ready", "unlock"} \subseteq PC /\ "none" \in Goal
    BY DEF PC, Goal
<1>2. hdr' \in [Conn -> Hdr]
    <2>1. hdr[c] \in Hdr
        BY DEF Local, TypeOK
    <2>2. Restarted(hdr[c]) \in Hdr
        BY <2>1, RestartedIs
    <2> QED BY <2>2 DEF Delete, Local, TypeOK
<1>3. pc' \in [Conn -> PC] /\ goal' \in [Conn -> Goal]
    BY <1>1, SMT DEF Delete, GoTo, Local, TypeOK
<1>4. walBlob' \in Log /\ aWalData' \in [Conn -> Log]
    <2>1. NoLog \in Log
        BY EmptyLog
    <2> QED BY <2>1, SMT DEF Delete, Local, TypeOK
<1>5. faults' \in 0..MaxFaults
    BY BoundsAssumption, SMT DEF Delete, Fault, Local, TypeOK
<1>6. TypeOK'
    BY <1>2, <1>3, <1>4, <1>5 DEF Delete, Local, TypeOK
<1>7. ASSUME NEW d \in Conn PROVE Framing(d)'
    <2>1. d = c => pc'[d] \in {"ready", "unlock"}
        BY DEF Delete, GoTo, Local, TypeOK
    <2>2. d # c => pc'[d] = pc[d] /\ hdr'[d] = hdr[d]
        BY DEF Delete, GoTo, Local, TypeOK
    <2> QED BY <2>1, <2>2 DEF Framing, Local
<1> QED BY <1>6, <1>7 DEF Local

\* So does the download of the log at xOpen.
LEMMA LocalGet ==
    ASSUME Local, NEW c \in Conn, Get(c)
    PROVE  Local'
<1> USE DEF blobVars, fileVars, walVars, histVars
<1>1. {"ready", "access"} \subseteq PC
    BY DEF PC
<1>2. Committed(walBlob) \in 0..MaxTx
    BY CommittedIs
<1>3. hdr' \in [Conn -> Hdr]
    <2>1. [aSalt |-> walBlob.salt, nCkpt |-> walBlob.ckpt,
           mxFrame |-> Committed(walBlob), nBackfill |-> 0] \in Hdr
        BY <1>2, BoundsAssumption, SMT DEF Local, TypeOK, Hdr, Log
    <2> QED BY <2>1 DEF Get, Local, TypeOK
<1>4. Recoverable \in Content
    BY <1>2, ReplayType DEF Recoverable, Local, TypeOK
<1>5. pc' \in [Conn -> PC]
    BY <1>1, SMT DEF Get, GoTo, Local, TypeOK
<1>6. aWalData' \in [Conn -> Log]
    BY DEF Get, Local, TypeOK
<1>7. latest' \in Content /\ durable' \in Content
    BY <1>4 DEF Get, Local, TypeOK
<1>8. unsynced' \in SUBSET Content /\ doubt' \in SUBSET Content
    BY DEF Get, Local, TypeOK
<1>9. faults' \in 0..MaxFaults
    BY BoundsAssumption, SMT DEF Get, Fault, Local, TypeOK
<1>10. TypeOK'
    BY <1>3, <1>5, <1>6, <1>7, <1>8, <1>9 DEF Get, Local, TypeOK
<1>11. ASSUME NEW d \in Conn PROVE Framing(d)'
    <2>1. d = c => pc'[d] \in {"ready", "access"}
        BY DEF Get, GoTo, Local, TypeOK
    <2>2. d # c => pc'[d] = pc[d] /\ hdr'[d] = hdr[d]
        BY DEF Get, GoTo, Local, TypeOK
    <2> QED BY <2>1, <2>2 DEF Framing, Local
<1> QED BY <1>10, <1>11 DEF Local

\* mxFrame counts one frame more.
LEMMA NextFrame ==
    ASSUME NEW h \in Hdr, h.mxFrame < MaxTx
    PROVE  /\ [h EXCEPT !.mxFrame = @ + 1] \in Hdr
           /\ [h EXCEPT !.mxFrame = @ + 1].mxFrame = h.mxFrame + 1
           /\ [h EXCEPT !.mxFrame = @ + 1].nBackfill = h.nBackfill
           /\ [h EXCEPT !.mxFrame = @ + 1].aSalt = h.aSalt
           /\ h.mxFrame \in 0..MaxTx /\ h.mxFrame + 1 \in 0..MaxTx
<1>1. h.mxFrame \in 0..MaxTx /\ h.mxFrame + 1 \in 0..MaxTx
    BY BoundsAssumption, SMT DEF Hdr
<1> QED BY <1>1, SMT DEF Hdr

\* walFrames keeps the types of what it assigns.
LEMMA WalFramesLocal ==
    ASSUME Local, NEW c \in Conn, NEW log \in Log, NEW h \in Hdr, h.mxFrame < MaxTx,
           NEW t \in Rec, NEW d \in Content, NEW u \in SUBSET Content, NEW q \in SUBSET Content,
           WalFrames(c, log, h, t, d, u, q)
    PROVE  /\ aWalData' \in [Conn -> Log]
           /\ hdr' \in [Conn -> Hdr]
           /\ pc' \in [Conn -> PC]
           /\ latest' \in Content
           /\ durable' \in Content
           /\ unsynced' \in SUBSET Content
           /\ doubt' \in SUBSET Content
           /\ \A e \in Conn : Framing(e)'
<1> DEFINE new == Framed(log, h, t)
           content == Replay(new, h.mxFrame + 1, cache[c])
<1>0. TypeOK
    BY DEF Local
<1>1. /\ [h EXCEPT !.mxFrame = @ + 1] \in Hdr
      /\ h.mxFrame \in 0..MaxTx /\ h.mxFrame + 1 \in 0..MaxTx
    BY NextFrame
<1>2. new \in Log
    BY <1>1, FramedIs DEF OneFrame
<1> HIDE DEF new
<1>3. content \in Content
    <2>1. cache[c] \in Content
        BY <1>0 DEF TypeOK
    <2> QED BY <1>1, <1>2, <2>1, ReplayType
<1> HIDE DEF content
<1>4. aWalData' = [aWalData EXCEPT ![c] = new] /\ durable' = d
    BY DEF WalFrames, new
<1>5. {"ready", "commit"} \subseteq PC
    BY DEF PC, Uploading
<1>6. CASE level[c] = "full"
    <2>1. /\ hdr' = [hdr EXCEPT ![c] = h]
          /\ doubt' = q \cup {content}
          /\ unsynced' = u
          /\ pc' = [pc EXCEPT ![c] = "commit"]
          /\ latest' = latest
        BY <1>6 DEF WalFrames, GoTo, new, content
    <2>2. \A e \in Conn : Framing(e)'
        BY <1>0, <2>1 DEF Framing, Local, TypeOK
    <2>3. hdr' \in [Conn -> Hdr] /\ pc' \in [Conn -> PC] /\ latest' \in Content
        BY <1>0, <1>5, <2>1 DEF TypeOK
    <2> QED BY <1>0, <1>2, <1>3, <1>4, <2>1, <2>2, <2>3 DEF TypeOK
<1>7. CASE level[c] = "normal"
    <2>1. /\ hdr' = [hdr EXCEPT ![c] = [h EXCEPT !.mxFrame = @ + 1]]
          /\ doubt' = q
          /\ unsynced' = u \cup {content}
          /\ pc' = [pc EXCEPT ![c] = "ready"]
          /\ latest' = content
        BY <1>7 DEF WalFrames, GoTo, new, content
    <2>2. \A e \in Conn : Framing(e)'
        BY <1>0, <2>1 DEF Framing, Local, TypeOK
    <2>3. hdr' \in [Conn -> Hdr] /\ pc' \in [Conn -> PC]
        BY <1>0, <1>1, <1>5, <2>1 DEF TypeOK
    <2> QED BY <1>0, <1>2, <1>3, <1>4, <2>1, <2>2, <2>3 DEF TypeOK
<1> QED BY <1>6, <1>7 DEF WalFrames

\* The header that walFrames starts from, and the salts that it draws.
BeginHdr(c) ==
    IF hdr[c].nBackfill = hdr[c].mxFrame /\ hdr[c].mxFrame > 0 THEN Restarted(hdr[c]) ELSE hdr[c]

BeginSalt(c) == IF ~BeginHdr(c).nCkpt \/ BeginHdr(c).aSalt = 0 THEN nTx + 1 ELSE BeginHdr(c).aSalt

NewTxn(S) == [tx |-> nTx + 1, prev |-> 0, pages |-> S]

\* The two cases of a transaction's begin.
BeginHeader(c, S) ==
    /\ BeginHdr(c).mxFrame = 0
    /\ txn' = [txn EXCEPT ![c] = NewTxn(S)]
    /\ hdr' = [hdr EXCEPT ![c] = [BeginHdr(c) EXCEPT !.aSalt = BeginSalt(c)]]
    /\ aWalData' = [aWalData EXCEPT ![c].salt = BeginSalt(c), ![c].ckpt = BeginHdr(c).nCkpt]
    /\ GoTo(c, "header")
    /\ UNCHANGED histVars

BeginFrames(c, S) ==
    /\ BeginHdr(c).mxFrame > 0
    /\ WalFrames(c, aWalData[c], BeginHdr(c), NewTxn(S), durable, unsynced, doubt)
    /\ UNCHANGED txn

\* A transaction starts with a header to upload, or with its frame.
LEMMA BeginCases ==
    ASSUME NEW c, NEW S, Begin(c, S)
    PROVE  /\ pc[c] = "ready"
           /\ S # {}
           /\ nTx < MaxTx /\ hdr[c].mxFrame < MaxTx
           /\ nTx' = nTx + 1
           /\ BeginHeader(c, S) \/ BeginFrames(c, S)
           /\ UNCHANGED <<blobVars, goal, level, fileVars, done, faults>>
BY DEF Begin, BeginHeader, BeginFrames, BeginHdr, BeginSalt, NewTxn

\* The header and the salt that a transaction starts with.
LEMMA BeginHdrIs ==
    ASSUME Local, NEW c \in Conn, hdr[c].mxFrame < MaxTx
    PROVE  /\ BeginHdr(c) \in Hdr
           /\ BeginHdr(c).mxFrame < MaxTx
           /\ BeginHdr(c).mxFrame > 0 => BeginHdr(c) = hdr[c]
           /\ BeginSalt(c) \in Nat
<1>1. hdr[c] \in Hdr /\ nTx \in Nat
    BY BoundsAssumption, SMT DEF Local, TypeOK
<1>2. /\ Restarted(hdr[c]) \in Hdr
      /\ Restarted(hdr[c]).mxFrame = 0
    BY <1>1, RestartedIs
<1>3. 0 < MaxTx /\ ~(0 > 0)
    BY BoundsAssumption, SMT
<1>4. BeginHdr(c) \in Hdr /\ BeginHdr(c).mxFrame < MaxTx
    BY <1>1, <1>2, <1>3 DEF BeginHdr
<1>5. BeginHdr(c).mxFrame > 0 => BeginHdr(c) = hdr[c]
    BY <1>2, <1>3 DEF BeginHdr
<1>6. BeginHdr(c).aSalt \in Nat
    BY <1>4 DEF Hdr
<1>7. nTx + 1 \in Nat
    BY <1>1, SMT
<1> QED BY <1>4, <1>5, <1>6, <1>7 DEF BeginSalt

\* The log's header is written anew.
Salted(log, s, k) == [[log EXCEPT !.salt = s] EXCEPT !.ckpt = k]

\* A new salt leaves the frames alone.
LEMMA SaltedIs ==
    ASSUME NEW log \in Log, NEW s \in Nat, NEW k \in BOOLEAN
    PROVE  /\ Salted(log, s, k) \in Log
           /\ Salted(log, s, k).salt = s
           /\ Salted(log, s, k).frames = log.frames
<1> DEFINE l1 == [log EXCEPT !.salt = s]
           l2 == [l1 EXCEPT !.ckpt = k]
<1>1. l1 \in Log /\ l1.salt = s /\ l1.frames = log.frames
    BY SMT DEF Log
<1> HIDE DEF l1
<1>2. l2 \in Log /\ l2.salt = l1.salt /\ l2.frames = l1.frames
    BY <1>1, SMT DEF Log
<1>3. Salted(log, s, k) = l2
    BY DEF Salted, l1
<1> QED BY <1>1, <1>2, <1>3

\* A transaction keeps the types.
LEMMA LocalBegin ==
    ASSUME Local, NEW c \in Conn, NEW S \in SUBSET Page, Begin(c, S)
    PROVE  Local'
<1> USE DEF blobVars, fileVars
<1>0. TypeOK
    BY DEF Local
<1>1. /\ hdr[c].mxFrame < MaxTx /\ nTx < MaxTx /\ nTx' = nTx + 1
      /\ BeginHeader(c, S) \/ BeginFrames(c, S)
      /\ UNCHANGED <<blobVars, goal, level, fileVars, done, faults>>
    BY BeginCases
<1>2. nTx' \in 0..MaxTx
    BY <1>0, <1>1, BoundsAssumption, SMT DEF TypeOK
<1>3. /\ BeginHdr(c) \in Hdr
      /\ BeginHdr(c).mxFrame < MaxTx
      /\ BeginSalt(c) \in Nat
    BY <1>1, BeginHdrIs
<1>4. NewTxn(S) \in Rec
    BY <1>0, BoundsAssumption, SMT DEF NewTxn, Rec, TypeOK
<1>5. CASE BeginHeader(c, S)
    <2>1. [BeginHdr(c) EXCEPT !.aSalt = BeginSalt(c)] \in Hdr
        BY <1>3, SMT DEF Hdr
    <2>2. [BeginHdr(c) EXCEPT !.aSalt = BeginSalt(c)].mxFrame = 0
        BY <1>3, <1>5, SMT DEF Hdr, BeginHeader
    <2>3. hdr' \in [Conn -> Hdr]
        BY <1>0, <1>5, <2>1 DEF BeginHeader, TypeOK
    <2>4. aWalData' \in [Conn -> Log]
        <3>1. aWalData[c] \in Log /\ BeginHdr(c).nCkpt \in BOOLEAN
            BY <1>0, <1>3 DEF TypeOK, Hdr
        <3>2. Salted(aWalData[c], BeginSalt(c), BeginHdr(c).nCkpt) \in Log
            BY <1>3, <3>1, SaltedIs
        <3>3. aWalData' = [aWalData EXCEPT ![c] = Salted(aWalData[c], BeginSalt(c), BeginHdr(c).nCkpt)]
            BY <1>0, <1>5 DEF BeginHeader, Salted, TypeOK
        <3> QED BY <1>0, <3>2, <3>3 DEF TypeOK
    <2>5. pc' \in [Conn -> PC] /\ txn' \in [Conn -> Rec]
        <3>1. "header" \in PC
            BY DEF PC, Uploading
        <3> QED BY <1>0, <1>4, <1>5, <3>1 DEF BeginHeader, GoTo, TypeOK
    <2>6. TypeOK'
        BY <1>0, <1>1, <1>2, <1>5, <2>3, <2>4, <2>5 DEF BeginHeader, histVars, TypeOK
    <2>7. ASSUME NEW d \in Conn PROVE Framing(d)'
        <3>1. d = c => pc'[d] = "header" /\ hdr'[d].mxFrame = 0
            BY <1>0, <1>5, <2>2 DEF BeginHeader, GoTo, TypeOK
        <3>2. d # c => pc'[d] = pc[d] /\ hdr'[d] = hdr[d]
            BY <1>0, <1>5 DEF BeginHeader, GoTo, TypeOK
        <3> QED BY <3>1, <3>2 DEF Framing, Local
    <2> QED BY <2>6, <2>7 DEF Local
<1>6. CASE BeginFrames(c, S)
    <2>1. /\ aWalData[c] \in Log
          /\ durable \in Content /\ unsynced \in SUBSET Content /\ doubt \in SUBSET Content
        BY <1>0 DEF TypeOK
    <2>2. WalFrames(c, aWalData[c], BeginHdr(c), NewTxn(S), durable, unsynced, doubt)
        BY <1>6 DEF BeginFrames
    <2>3. /\ aWalData' \in [Conn -> Log]
          /\ hdr' \in [Conn -> Hdr]
          /\ pc' \in [Conn -> PC]
          /\ latest' \in Content
          /\ durable' \in Content
          /\ unsynced' \in SUBSET Content
          /\ doubt' \in SUBSET Content
          /\ \A e \in Conn : Framing(e)'
        BY <1>3, <1>4, <2>1, <2>2, WalFramesLocal
    <2>4. TypeOK'
        BY <1>0, <1>1, <1>2, <1>6, <2>3 DEF BeginFrames, TypeOK
    <2> QED BY <2>3, <2>4 DEF Local
<1> QED BY <1>1, <1>5, <1>6

\* A piece of a log is a block.
LEMMA ChunkType ==
    ASSUME NEW log \in Log, NEW i \in Slot
    PROVE  Chunk(log, i) \in Block
<1>1. log.salt \in Nat /\ log.frames[i] \in Rec
    BY DEF Log
<1>2. PICK s \in Nat : s = IF i = 1 THEN log.salt ELSE 0
    BY <1>1, SMT
<1>3. PICK k \in BOOLEAN : k = (i = 1 /\ log.ckpt)
    OBVIOUS
<1>4. [salt |-> s, ckpt |-> k, rec |-> log.frames[i]] \in Block
    BY <1>1, SMT DEF Block
<1>5. Chunk(log, i) = [salt |-> s, ckpt |-> k, rec |-> log.frames[i]]
    BY <1>2, <1>3 DEF Chunk
<1> QED BY <1>4, <1>5

\* An upload leaves a log in the blob.
LEMMA LocalUploaded ==
    ASSUME TypeOK, NEW c \in Conn, PutBlob(c) \/ PutBlockList(c)
    PROVE  walBlob' \in Log /\ staged' \in [Slot -> Block]
<1>1. NoRec \in Rec
    BY SMT DEF NoRec, Rec
<1>2. NoBlocks \in [Slot -> Block]
    BY <1>1, SMT DEF NoBlocks, Block
<1>3. Assembled(aWalData[c]) \in Log
    <2>1. 1 \in Slot
        BY BoundsAssumption, SMT DEF Slot
    <2>2. \A i \in Slot : staged[i] \in Block
        BY DEF TypeOK
    <2>3. staged[1].salt \in Nat /\ staged[1].ckpt \in BOOLEAN
        BY <2>1, <2>2 DEF Block
    <2>4. \A i \in Slot : staged[i].rec \in Rec
        BY <2>2 DEF Block
    <2> DEFINE f == [i \in Slot |-> IF i \in Blocks(aWalData[c]) THEN staged[i].rec ELSE NoRec]
    <2>5. f \in [Slot -> Rec]
        BY <1>1, <2>4
    <2>6. Assembled(aWalData[c]) = [salt |-> staged[1].salt, ckpt |-> staged[1].ckpt, frames |-> f]
        BY DEF Assembled
    <2> HIDE DEF f
    <2> QED BY <2>3, <2>5, <2>6, SMT DEF Log
<1>4. aWalData[c] \in Log
    BY DEF TypeOK
<1> QED BY <1>2, <1>3, <1>4 DEF PutBlob, PutBlockList

\* An upload that succeeds keeps the types.
LEMMA LocalUpload ==
    ASSUME Local, NEW c \in Conn, Upload(c)
    PROVE  Local'
<1> DEFINE log == aWalData[c]
           h == hdr[c]
           tail == Tail(log, h, cache[c])
<1>0. TypeOK
    BY DEF Local
<1>1. /\ log \in Log /\ h \in Hdr /\ cache[c] \in Content /\ txn[c] \in Rec
      /\ h.mxFrame \in 0..MaxTx
    BY <1>0 DEF TypeOK, Hdr
<1>2. View(c) \in Content
    BY <1>1, ReplayType DEF View
<1>3. tail \in SUBSET Content
    <2>1. \A n \in Slot : n \in 0..MaxTx
        BY BoundsAssumption, SMT DEF Slot
    <2>2. \A n \in Slot : Replay(log, n, cache[c]) \in Content
        BY <1>1, <2>1, ReplayType
    <2> QED BY <2>2 DEF Tail
<1>4. walBlob' \in Log /\ staged' \in [Slot -> Block]
    <2>1. PutBlob(c) \/ PutBlockList(c)
        BY DEF Upload
    <2> QED BY <1>0, <2>1, LocalUploaded
<1>5. done' \in [Conn -> SUBSET Slot] /\ txn' \in [Conn -> Rec]
    <2>1. NoRec \in Rec
        BY SMT DEF NoRec, Rec
    <2> QED BY <1>0, <2>1 DEF Upload, TypeOK
<1>6. UNCHANGED <<db, holder, level, fresh, reads, nTx, faults>> /\ Synced(c)
    BY DEF Upload
<1>7. {"commit", "ready", "flush", "delete", "unlock"} \subseteq PC
    BY DEF PC, Uploading
<1> HIDE DEF tail
<1>8. CASE pc[c] = "header"
    <2>1. /\ WalFrames(c, log, h, txn[c], View(c), {}, tail)
          /\ UNCHANGED <<goal, cache, dirty, todo>>
        BY <1>6, <1>8 DEF Synced, tail
    <2>2. h.mxFrame < MaxTx
        BY <1>8, BoundsAssumption, SMT DEF Local, Framing
    <2>3. {} \in SUBSET Content
        OBVIOUS
    <2>4. /\ aWalData' \in [Conn -> Log]
          /\ hdr' \in [Conn -> Hdr]
          /\ pc' \in [Conn -> PC]
          /\ latest' \in Content
          /\ durable' \in Content
          /\ unsynced' \in SUBSET Content
          /\ doubt' \in SUBSET Content
          /\ \A e \in Conn : Framing(e)'
        BY <1>1, <1>2, <1>3, <2>1, <2>2, <2>3, WalFramesLocal
    <2>5. TypeOK'
        BY <1>0, <1>4, <1>5, <1>6, <2>1, <2>4 DEF TypeOK
    <2> QED BY <2>4, <2>5 DEF Local
<1>9. CASE pc[c] = "commit"
    <2>1. /\ hdr' = [hdr EXCEPT ![c].mxFrame = @ + 1]
          /\ latest' = Replay(log, h.mxFrame + 1, cache[c])
          /\ durable' = latest'
          /\ unsynced' = {}
          /\ doubt' = {}
          /\ pc' = [pc EXCEPT ![c] = "ready"]
          /\ UNCHANGED <<goal, cache, dirty, todo, aWalData>>
        BY <1>6, <1>9 DEF Synced, GoTo
    <2>2. h.mxFrame < MaxTx
        BY <1>9 DEF Local, Framing
    <2>3. [h EXCEPT !.mxFrame = @ + 1] \in Hdr /\ h.mxFrame + 1 \in 0..MaxTx
        BY <1>1, <2>2, NextFrame
    <2>4. latest' \in Content
        BY <1>1, <2>1, <2>3, ReplayType
    <2>5. hdr' \in [Conn -> Hdr] /\ pc' \in [Conn -> PC]
        BY <1>0, <1>7, <2>1, <2>3 DEF TypeOK
    <2>6. TypeOK'
        BY <1>0, <1>4, <1>5, <1>6, <2>1, <2>4, <2>5 DEF TypeOK
    <2>7. \A e \in Conn : Framing(e)'
        BY <1>0, <2>1 DEF Framing, Local, TypeOK
    <2> QED BY <2>6, <2>7 DEF Local
<1>10. CASE pc[c] = "ckpt"
    <2> DEFINE P == UNION {log.frames[i].pages : i \in h.nBackfill + 1..h.mxFrame}
    <2>1. /\ cache' = [cache EXCEPT ![c] = View(c)]
          /\ dirty' = [dirty EXCEPT ![c] = @ \cup P]
          /\ todo' = [todo EXCEPT ![c] = dirty'[c]]
          /\ durable' = View(c)
          /\ unsynced' = {}
          /\ doubt' = tail
          /\ pc' = [pc EXCEPT ![c] = "flush"]
          /\ UNCHANGED <<goal, aWalData, hdr, latest>>
        BY <1>6, <1>10 DEF Synced, GoTo, tail
    <2>2. P \in SUBSET Page
        <3>1. \A i \in h.nBackfill + 1..h.mxFrame : i \in Slot
            BY <1>1, BoundsAssumption, SMT DEF Slot, Hdr
        <3>2. \A i \in Slot : log.frames[i].pages \in SUBSET Page
            BY <1>1 DEF Log, Rec
        <3> QED BY <3>1, <3>2
    <2> HIDE DEF P
    <2>3. dirty' \in [Conn -> SUBSET Page]
        BY <1>0, <2>1, <2>2 DEF TypeOK
    <2>4. todo' \in [Conn -> SUBSET Page]
        BY <1>0, <2>1, <2>3 DEF TypeOK
    <2>5. cache' \in [Conn -> Content] /\ pc' \in [Conn -> PC]
        BY <1>0, <1>2, <1>7, <2>1 DEF TypeOK
    <2>6. TypeOK'
        BY <1>0, <1>2, <1>3, <1>4, <1>5, <1>6, <2>1, <2>3, <2>4, <2>5 DEF TypeOK
    <2>7. \A e \in Conn : Framing(e)'
        BY <1>0, <2>1 DEF Framing, Local, TypeOK
    <2> QED BY <2>6, <2>7 DEF Local
<1>11. CASE pc[c] = "close"
    <2>1. /\ pc' = [pc EXCEPT ![c] = IF h.nBackfill = h.mxFrame THEN "delete" ELSE "unlock"]
          /\ durable' = View(c)
          /\ unsynced' = {}
          /\ doubt' = tail
          /\ UNCHANGED <<goal, cache, dirty, todo, aWalData, hdr, latest>>
        BY <1>6, <1>11 DEF Synced, GoTo, tail
    <2>2. pc' \in [Conn -> PC]
        BY <1>0, <1>7, <2>1 DEF TypeOK
    <2>3. TypeOK'
        BY <1>0, <1>2, <1>3, <1>4, <1>5, <1>6, <2>1, <2>2 DEF TypeOK
    <2>4. \A e \in Conn : Framing(e)'
        BY <1>0, <2>1 DEF Framing, Local, TypeOK
    <2> QED BY <2>3, <2>4 DEF Local
<1> QED BY <1>6, <1>8, <1>9, <1>10, <1>11 DEF Synced

\* So does one that fails.
LEMMA LocalUploadFail ==
    ASSUME Local, NEW c \in Conn, UploadFail(c)
    PROVE  Local'
<1> USE DEF fileVars, histVars
<1>0. TypeOK
    BY DEF Local
<1>1. walBlob' \in Log /\ staged' \in [Slot -> Block]
    <2>1. PutBlob(c) \/ PutBlockList(c) \/ UNCHANGED <<walBlob, staged>>
        BY DEF UploadFail
    <2> QED BY <1>0, <2>1, LocalUploaded DEF TypeOK
<1>2. done' \in [Conn -> SUBSET Slot] /\ txn' \in [Conn -> Rec]
    <2>1. NoRec \in Rec
        BY SMT DEF NoRec, Rec
    <2> QED BY <1>0, <2>1 DEF UploadFail, TypeOK
<1>3. faults' \in 0..MaxFaults
    BY <1>0, BoundsAssumption, SMT DEF UploadFail, Fault, TypeOK
<1>4. \E s \in {"ready", "close", "delete", "unlock"} : pc' = [pc EXCEPT ![c] = s]
    BY DEF UploadFail, SyncFailed, GoTo
<1>5. {"ready", "close", "delete", "unlock"} \subseteq PC /\ "none" \in Goal
    BY DEF PC, Uploading, Goal
<1>6. pc' \in [Conn -> PC]
    BY <1>0, <1>4, <1>5 DEF TypeOK
<1>7. goal' \in [Conn -> Goal]
    BY <1>0, <1>5 DEF UploadFail, SyncFailed, TypeOK
<1>8. TypeOK'
    BY <1>0, <1>1, <1>2, <1>3, <1>6, <1>7 DEF UploadFail, TypeOK
<1>9. ASSUME NEW d \in Conn PROVE Framing(d)'
    <2>1. hdr' = hdr
        BY DEF UploadFail
    <2>2. d = c => pc'[d] \in {"ready", "close", "delete", "unlock"}
        BY <1>0, <1>4 DEF TypeOK
    <2>3. d # c => pc'[d] = pc[d]
        BY <1>0, <1>4 DEF TypeOK
    <2> QED BY <2>1, <2>2, <2>3 DEF Framing, Local
<1> QED BY <1>8, <1>9 DEF Local

\* So does a block that is staged.
LEMMA LocalPutBlock ==
    ASSUME Local, NEW c \in Conn, NEW i \in Slot, PutBlock(c, i)
    PROVE  Local'
<1> USE DEF fileVars, histVars
<1>0. TypeOK
    BY DEF Local
<1>1. Chunk(aWalData[c], i) \in Block
    <2>1. aWalData[c] \in Log
        BY <1>0 DEF TypeOK
    <2> QED BY <2>1, ChunkType
<1>2. staged' \in [Slot -> Block] /\ done' \in [Conn -> SUBSET Slot]
    BY <1>0, <1>1 DEF PutBlock, TypeOK
<1>3. TypeOK'
    BY <1>0, <1>2 DEF PutBlock, TypeOK
<1> QED BY <1>3 DEF PutBlock, Framing, Local

\* What TypeOK and Framing say holds of every step.
LEMMA LocalNext ==
    ASSUME Local, [Next]_vars
    PROVE  Local'
<1>1. CASE UNCHANGED vars
    BY <1>1 DEF vars, blobVars, fileVars, walVars, histVars, Local, TypeOK, Framing
<1>2. CASE Expire
    BY <1>2, LocalExpire
<1>3. ASSUME NEW c \in Conn,
             \/ LockShared(c) \/ Access(c) \/ Lock(c)
             \/ \E g \in Goal : Checkpoint(c, g)
             \/ \E p \in Page : PutPage(c, p)
             \/ PutPageFail(c) \/ Close(c)
      PROVE  Local'
    BY <1>3, LocalPlain
<1>4. ASSUME NEW c \in Conn, Get(c) PROVE Local'
    BY <1>4, LocalGet
<1>5. ASSUME NEW c \in Conn, NEW S \in SUBSET Page, Begin(c, S) PROVE Local'
    BY <1>5, LocalBegin
<1>6. ASSUME NEW c \in Conn, Upload(c) PROVE Local'
    BY <1>6, LocalUpload
<1>7. ASSUME NEW c \in Conn, UploadFail(c) PROVE Local'
    BY <1>7, LocalUploadFail
<1>8. ASSUME NEW c \in Conn, NEW i \in Slot, PutBlock(c, i) PROVE Local'
    BY <1>8, LocalPutBlock
<1>9. ASSUME NEW c \in Conn, Flushed(c) PROVE Local'
    BY <1>9, LocalFlushed
<1>10. ASSUME NEW c \in Conn, Delete(c) PROVE Local'
    BY <1>10, LocalDelete
<1>11. ASSUME NEW c \in Conn, Unlock(c) \/ CloseDb(c) \/ Quit(c) \/ Crash(c) PROVE Local'
    BY <1>11, LocalGone
<1> QED BY <1>1, <1>2, <1>3, <1>4, <1>5, <1>6, <1>7, <1>8, <1>9, <1>10, <1>11 DEF Next

-----------------------------------------------------------------------------
(* A step of one connection, as the others see it. *)

\* The step leaves what d has alone.
Same(d) ==
    /\ pc'[d] = pc[d]
    /\ cache'[d] = cache[d]
    /\ dirty'[d] = dirty[d]
    /\ todo'[d] = todo[d]
    /\ aWalData'[d] = aWalData[d]
    /\ hdr'[d] = hdr[d]
    /\ txn'[d] = txn[d]
    /\ done'[d] = done[d]
    /\ d \in fresh' => d \in fresh

\* What was drawn before stays drawn.
LEMMA LogOKGrows ==
    ASSUME NEW log \in Log, NEW n \in Nat, NEW m \in Nat, n <= m, LogOK(log, n)
    PROVE  LogOK(log, m)
<1>1. log.salt \in Nat
    BY DEF Log
<1>2. \A i \in Slot : log.frames[i].tx \in Nat /\ log.frames[i].prev \in Nat
    BY DEF Log, Rec
<1>3. log.salt <= m
    BY <1>1, SMT DEF LogOK
<1>4. \A i \in Slot : log.frames[i].tx <= m /\ log.frames[i].prev <= m
    BY <1>2, SMT DEF LogOK
<1> QED BY <1>3, <1>4 DEF LogOK

\* A connection that has no lease is in no session.
LEMMA Outside ==
    ASSUME NEW d \in Conn, ConnInv(d), holder # d
    PROVE  /\ pc[d] \notin Session /\ pc[d] # "get" /\ pc[d] \notin Uploading
           /\ done[d] = {}
<1>1. pc[d] \notin Session /\ pc[d] # "get"
    BY DEF ConnInv, InSession
<1>2. pc[d] \notin Uploading
    BY <1>1 DEF Session
<1> QED BY <1>1, <1>2 DEF ConnInv, StageInv

\* It only has to find the pages it claims in the log.
LEMMA Outsider ==
    ASSUME NEW d \in Conn, ConnInv(d), holder # d, holder' # d, Same(d),
           Claims(d)' => dirty[d] \subseteq OnDisk'
    PROVE  ConnInv(d)'
<1>1. pc[d] \notin Session /\ pc[d] # "get" /\ pc[d] \notin Uploading /\ done[d] = {}
    BY Outside
<1>2. (InSession(d) \/ pc[d] = "get")' => FALSE
    BY <1>1 DEF InSession, Same
<1>3. OpenInv(d)'
    BY DEF ConnInv, OpenInv, Same
<1>4. StageInv(d)'
    <2>1. done'[d] = {}
        BY <1>1 DEF Same
    <2> QED BY <2>1 DEF StageInv
<1>5. Claims(d)' => (dirty[d] \subseteq OnDisk)'
    BY DEF Same
<1> QED BY <1>2, <1>3, <1>4, <1>5 DEF ConnInv

\* A step of the connection that has the lease.
LEMMA HolderStep ==
    ASSUME Local, Local', Core, NEW c \in Conn, holder = c,
           \A d \in Conn \ {c} : Same(d),
           \A d \in Conn \ {c} : holder' # d,
           \A d \in Conn \ {c} : Claims(d) => dirty[d] \subseteq OnDisk',
           nTx <= nTx', LogOK(walBlob', nTx'), LogOK(aWalData'[c], nTx'),
           RecoversCommit', ConnInv(c)'
    PROVE  Core'
<1>1. ASSUME NEW d \in Conn PROVE ConnInv(d)'
    <2>1. CASE d # c
        <3>1. Same(d) /\ holder' # d /\ holder # d
            BY <2>1
        <3>2. Claims(d)' => dirty[d] \subseteq OnDisk'
            BY <2>1, <3>1 DEF Claims, Same
        <3>3. ConnInv(d)
            BY DEF Core
        <3> QED BY <3>1, <3>2, <3>3, Outsider
    <2> QED BY <2>1
<1>2. ASSUME NEW d \in Conn PROVE LogOK(aWalData'[d], nTx')
    <2>1. CASE d # c
        <3>1. aWalData'[d] = aWalData[d]
            BY <2>1 DEF Same
        <3>2. aWalData[d] \in Log /\ nTx \in Nat /\ nTx' \in Nat
            BY BoundsAssumption, SMT DEF Local, TypeOK
        <3>3. LogOK(aWalData[d], nTx)
            BY DEF Core
        <3>4. LogOK(aWalData[d], nTx')
            BY <3>2, <3>3, LogOKGrows
        <3> QED BY <3>1, <3>4
    <2> QED BY <2>1
<1> QED BY <1>1, <1>2 DEF Core

\* A step within a session.
LEMMA SessionStep ==
    ASSUME Local, Local', Core, NEW c \in Conn, holder = c, holder' = c,
           \A d \in Conn \ {c} : Same(d), pc'[c] \in Session,
           \A d \in Conn \ {c} : Claims(d) => dirty[d] \subseteq OnDisk',
           nTx <= nTx', LogOK(walBlob', nTx'), LogOK(aWalData'[c], nTx'),
           RecoversCommit', BufferInv(c)', FileInv(c)', ReadInv(c)', CkptInv(c)', StageInv(c)',
           \A d \in Conn \ {c} : Claims(d)' =>
               /\ hdr'[c].nBackfill = 0
               /\ dirty[d] \subseteq Cov(aWalData'[c], hdr'[c].mxFrame)
               /\ pc'[c] = "flush" => todo'[c] = dirty'[c]
    PROVE  Core'
<1>1. pc'[c] \notin {"idle", "access", "lock", "get", "closeDb"}
    BY DEF Session, Uploading
<1>2. ~ Claims(c)'
    BY <1>1 DEF Claims
<1>3. ASSUME NEW d \in Conn PROVE ClaimInv(c, d)'
    <2>1. CASE d # c
        <3>1. dirty'[d] = dirty[d]
            BY <2>1 DEF Same
        <3> QED BY <2>1, <3>1 DEF ClaimInv
    <2>2. CASE d = c
        BY <1>2, <2>2 DEF ClaimInv
    <2> QED BY <2>1, <2>2
<1>4. SessionInv(c)'
    BY <1>3 DEF SessionInv
<1>5. OpenInv(c)'
    BY <1>1 DEF OpenInv
<1>6. ConnInv(c)'
    BY <1>2, <1>4, <1>5 DEF ConnInv
<1>7. \A d \in Conn \ {c} : holder' # d
    OBVIOUS
<1> QED BY <1>6, <1>7, HolderStep

\* What the invariant says of a connection with an open WAL file.
LEMMA InSessionFacts ==
    ASSUME Local, Core, NEW c \in Conn, pc[c] \in Session
    PROVE  /\ holder = c
           /\ BufferInv(c) /\ FileInv(c) /\ ReadInv(c) /\ CkptInv(c) /\ StageInv(c)
           /\ \A d \in Conn : ClaimInv(c, d)
           /\ LogOK(aWalData[c], nTx)
           /\ aWalData[c] \in Log /\ hdr[c] \in Hdr /\ cache[c] \in Content
           /\ hdr[c].mxFrame \in 0..MaxTx /\ hdr[c].nBackfill \in 0..MaxTx
           /\ nTx \in Nat
<1>1. ConnInv(c) /\ InSession(c) /\ LogOK(aWalData[c], nTx)
    BY DEF Core, InSession
<1>2. aWalData[c] \in Log /\ hdr[c] \in Hdr /\ cache[c] \in Content
    BY DEF Local, TypeOK
<1>3. hdr[c].mxFrame \in 0..MaxTx /\ hdr[c].nBackfill \in 0..MaxTx
    BY <1>2 DEF Hdr
<1>4. nTx \in Nat
    BY BoundsAssumption, SMT DEF Local, TypeOK
<1> QED BY <1>1, <1>2, <1>3, <1>4 DEF ConnInv, SessionInv

\* When it has copied all of them, the cache file is the page blob, and has
\* what the session reads.
LEMMA NonePending ==
    ASSUME Local, Core, NEW c \in Conn, pc[c] \in Session, hdr[c].nBackfill = hdr[c].mxFrame
    PROVE  Pending(c) = {} /\ dirty[c] = {} /\ cache[c] = View(c) /\ cache[c] = db
<1>1. FileInv(c) /\ hdr[c].mxFrame \in 0..MaxTx /\ cache[c] \in Content
    BY InSessionFacts
<1>2. hdr[c].mxFrame \in Nat
    BY <1>1, BoundsAssumption, SMT
<1>3. Pending(c) = {}
    BY <1>2, BetweenIs DEF Pending
<1>4. dirty[c] = {}
    BY <1>1, <1>3 DEF FileInv
<1>5. \A p \in Page : cache[c][p] = db[p] /\ cache[c][p] = View(c)[p]
    BY <1>1, <1>3, <1>4 DEF FileInv
<1>6. cache[c] = [p \in Page |-> cache[c][p]] /\ db = [p \in Page |-> db[p]]
    BY <1>1 DEF Local, TypeOK, Content
<1>7. View(c) = [p \in Page |-> View(c)[p]]
    BY DEF View, Replay
<1> HIDE DEF View
<1> QED BY <1>3, <1>4, <1>5, <1>6, <1>7

\* The page blob differs from the cache file only where the log has pages.
LEMMA BelowLog ==
    ASSUME Local, Core, NEW c \in Conn, pc[c] \in Session
    PROVE  /\ dirty[c] \subseteq Cov(aWalData[c], hdr[c].mxFrame)
           /\ \A p \in Page \ Cov(aWalData[c], hdr[c].mxFrame) : db[p] = cache[c][p]
<1>1. FileInv(c) /\ hdr[c].mxFrame \in 0..MaxTx /\ hdr[c].nBackfill \in 0..MaxTx
    BY InSessionFacts
<1>2. hdr[c].mxFrame \in Nat /\ hdr[c].nBackfill \in Nat
    BY <1>1, BoundsAssumption, SMT
<1>3. Pending(c) \subseteq Cov(aWalData[c], hdr[c].mxFrame)
    BY <1>2, BetweenIs DEF Pending
<1> QED BY <1>1, <1>3 DEF FileInv

\* What recovery would make of the buffer, were it in the blob.
LEMMA BufferRecovers ==
    ASSUME Local, Core, NEW c \in Conn, pc[c] \in Session
    PROVE  LET log == aWalData[c]
           IN  /\ Cov(log, hdr[c].mxFrame) \subseteq Cov(log, Committed(log))
               /\ Replay(log, Committed(log), db) \in {View(c)} \cup Tail(log, hdr[c], cache[c])
<1>1. BufferInv(c) /\ hdr[c].mxFrame \in 0..MaxTx
    BY InSessionFacts
<1>2. Valid(aWalData[c], hdr[c].mxFrame)
    BY <1>1 DEF BufferInv
<1>3. \A p \in Page \ Cov(aWalData[c], hdr[c].mxFrame) : db[p] = cache[c][p]
    BY BelowLog
<1> DEFINE log == aWalData[c]
           h == hdr[c]
           e == cache[c]
<1>4. h.mxFrame \in 0..MaxTx /\ Valid(log, h.mxFrame) /\ \A p \in Page \ Cov(log, h.mxFrame) : db[p] = e[p]
    BY <1>1, <1>2, <1>3
<1>5. View(c) = Replay(log, h.mxFrame, e)
    BY DEF View
<1> HIDE DEF log, h, e
<1>6. /\ Cov(log, h.mxFrame) \subseteq Cov(log, Committed(log))
      /\ Replay(log, Committed(log), db) \in {Replay(log, h.mxFrame, e)} \cup Tail(log, h, e)
    BY <1>4, LogRecovers
<1> QED BY <1>5, <1>6 DEF log, h, e

\* The start of a checkpoint and of xClose preserve Core.
LEMMA CoreCheckpoint ==
    ASSUME Local, Core, Local', NEW c \in Conn, (\E g \in Goal : Checkpoint(c, g)) \/ Close(c)
    PROVE  Core'
<1> USE DEF blobVars, fileVars, walVars, histVars
<1>1. pc[c] = "ready" /\ pc[c] \in Session
    BY DEF Checkpoint, Close, Session
<1>2. /\ UNCHANGED <<db, holder, walBlob, staged, cache, dirty, todo, fresh, aWalData, hdr, txn, done>>
      /\ UNCHANGED <<latest, durable, unsynced, doubt, nTx>>
    BY DEF Checkpoint, Close
<1>3. /\ holder = c
      /\ BufferInv(c) /\ FileInv(c) /\ ReadInv(c) /\ CkptInv(c) /\ StageInv(c)
      /\ \A d \in Conn : ClaimInv(c, d)
      /\ LogOK(aWalData[c], nTx) /\ nTx \in Nat
      /\ hdr[c].mxFrame \in 0..MaxTx /\ hdr[c].nBackfill \in 0..MaxTx
    BY <1>1, InSessionFacts
<1>4. PICK s \in {"ckpt", "delete", "close"} :
            /\ pc' = [pc EXCEPT ![c] = s]
            /\ s = "ckpt" => hdr[c].nBackfill < hdr[c].mxFrame
            /\ s = "delete" => hdr[c].nBackfill = hdr[c].mxFrame
    <2>1. ~(hdr[c].nBackfill < hdr[c].mxFrame) => hdr[c].nBackfill = hdr[c].mxFrame
        BY <1>3, BoundsAssumption, SMT DEF BufferInv
    <2> QED BY <2>1 DEF Checkpoint, Close, GoTo
<1>5. pc'[c] = s /\ \A d \in Conn \ {c} : pc'[d] = pc[d]
    BY <1>4 DEF Local, TypeOK
<1>6. \A d \in Conn \ {c} : Same(d)
    BY <1>2, <1>5 DEF Same
<1>7. s \in Session /\ s # "header" /\ s # "commit" /\ s # "flush"
    BY DEF Session, Uploading
<1>8. BufferInv(c)'
    BY <1>2, <1>3, <1>5, <1>7 DEF BufferInv, Allowed
<1>9. FileInv(c)' /\ ReadInv(c)'
    BY <1>2, <1>3 DEF FileInv, ReadInv, View, Pending, OnDisk
<1>10. CkptInv(c)'
    BY <1>2, <1>4, <1>5, <1>7 DEF CkptInv
<1>11. StageInv(c)'
    <2>1. done[c] = {}
        BY <1>1, <1>3 DEF StageInv, Uploading
    <2> QED BY <1>2, <2>1 DEF StageInv
<1>12. \A d \in Conn \ {c} : Claims(d) => dirty[d] \subseteq OnDisk'
    BY <1>2 DEF Core, ConnInv, OnDisk
<1>13. \A d \in Conn \ {c} : Claims(d)' => ClaimInv(c, d) /\ Claims(d)
    BY <1>3, <1>6 DEF Claims, Same
<1>14. RecoversCommit'
    BY <1>2 DEF Core, RecoversCommit, Recoverable
<1>15. nTx <= nTx' /\ LogOK(walBlob', nTx') /\ LogOK(aWalData'[c], nTx')
    <2>1. nTx <= nTx
        BY <1>3, Succ
    <2> QED BY <1>2, <1>3, <2>1 DEF Core
<1>16. \A d \in Conn \ {c} : Claims(d)' =>
               /\ hdr'[c].nBackfill = 0
               /\ dirty[d] \subseteq Cov(aWalData'[c], hdr'[c].mxFrame)
               /\ pc'[c] = "flush" => todo'[c] = dirty'[c]
    BY <1>2, <1>5, <1>7, <1>13 DEF ClaimInv
<1>17. holder' = c /\ pc'[c] \in Session
    BY <1>2, <1>3, <1>5, <1>7
<1> QED BY <1>3, <1>6, <1>8, <1>9, <1>10, <1>11, <1>12, <1>14, <1>15, <1>16, <1>17, SessionStep

\* A page write of a checkpoint that fails preserves Core.
LEMMA CorePutPageFail ==
    ASSUME Local, Core, Local', NEW c \in Conn, PutPageFail(c)
    PROVE  Core'
<1> USE DEF blobVars, fileVars, walVars, histVars
<1>1. pc[c] = "flush" /\ pc[c] \in Session
    BY DEF PutPageFail, Session
<1>2. /\ UNCHANGED <<db, holder, walBlob, staged, cache, dirty, fresh, aWalData, hdr, txn, done>>
      /\ UNCHANGED <<latest, durable, unsynced, doubt, nTx>>
      /\ todo' = [todo EXCEPT ![c] = {}]
    BY DEF PutPageFail
<1>3. /\ holder = c
      /\ BufferInv(c) /\ FileInv(c) /\ ReadInv(c) /\ CkptInv(c) /\ StageInv(c)
      /\ \A d \in Conn : ClaimInv(c, d)
      /\ LogOK(aWalData[c], nTx) /\ nTx \in Nat
    BY <1>1, InSessionFacts
<1>4. PICK s \in {"close", "ready"} : pc' = [pc EXCEPT ![c] = s]
    BY DEF PutPageFail, GoTo
<1>5. pc'[c] = s /\ \A d \in Conn \ {c} : pc'[d] = pc[d] /\ todo'[d] = todo[d]
    BY <1>2, <1>4 DEF Local, TypeOK
<1>6. \A d \in Conn \ {c} : Same(d)
    BY <1>2, <1>5 DEF Same
<1>7. s \in Session /\ s \notin {"header", "commit", "ckpt", "flush", "delete"}
    BY DEF Session, Uploading
<1>8. BufferInv(c)'
    BY <1>2, <1>3, <1>5, <1>7 DEF BufferInv, Allowed
<1>9. FileInv(c)' /\ ReadInv(c)'
    BY <1>2, <1>3 DEF FileInv, ReadInv, View, Pending, OnDisk
<1>10. CkptInv(c)'
    BY <1>5, <1>7 DEF CkptInv
<1>11. StageInv(c)'
    <2>1. done[c] = {}
        BY <1>1, <1>3 DEF StageInv, Uploading
    <2> QED BY <1>2, <2>1 DEF StageInv
<1>12. \A d \in Conn \ {c} : Claims(d) => dirty[d] \subseteq OnDisk'
    BY <1>2 DEF Core, ConnInv, OnDisk
<1>13. \A d \in Conn \ {c} : Claims(d)' => ClaimInv(c, d) /\ Claims(d)
    BY <1>3, <1>6 DEF Claims, Same
<1>14. RecoversCommit'
    BY <1>2 DEF Core, RecoversCommit, Recoverable
<1>15. nTx <= nTx' /\ LogOK(walBlob', nTx') /\ LogOK(aWalData'[c], nTx')
    <2>1. nTx <= nTx
        BY <1>3, Succ
    <2> QED BY <1>2, <1>3, <2>1 DEF Core
<1>16. \A d \in Conn \ {c} : Claims(d)' =>
               /\ hdr'[c].nBackfill = 0
               /\ dirty[d] \subseteq Cov(aWalData'[c], hdr'[c].mxFrame)
               /\ pc'[c] = "flush" => todo'[c] = dirty'[c]
    BY <1>2, <1>5, <1>7, <1>13 DEF ClaimInv
<1>17. holder' = c /\ pc'[c] \in Session
    BY <1>2, <1>3, <1>5, <1>7
<1> QED BY <1>3, <1>6, <1>8, <1>9, <1>10, <1>11, <1>12, <1>14, <1>15, <1>16, <1>17, SessionStep

\* A staged block preserves Core.
LEMMA CorePutBlock ==
    ASSUME Local, Core, Local', NEW c \in Conn, NEW i \in Slot, PutBlock(c, i)
    PROVE  Core'
<1> USE DEF fileVars, histVars
<1>1. pc[c] \in Uploading /\ pc[c] \in Session
    BY DEF PutBlock, Session
<1>2. /\ UNCHANGED <<db, holder, walBlob, pc, cache, dirty, todo, fresh, aWalData, hdr, txn>>
      /\ UNCHANGED <<latest, durable, unsynced, doubt, nTx>>
      /\ staged' = [staged EXCEPT ![i] = Chunk(aWalData[c], i)]
      /\ done' = [done EXCEPT ![c] = @ \cup {i}]
      /\ i \in Blocks(aWalData[c])
    BY DEF PutBlock
<1>3. /\ holder = c
      /\ BufferInv(c) /\ FileInv(c) /\ ReadInv(c) /\ CkptInv(c) /\ StageInv(c)
      /\ \A d \in Conn : ClaimInv(c, d)
      /\ LogOK(aWalData[c], nTx) /\ nTx \in Nat
    BY <1>1, InSessionFacts
<1>5. done'[c] = done[c] \cup {i} /\ \A d \in Conn \ {c} : done'[d] = done[d]
    BY <1>2 DEF Local, TypeOK
<1>6. \A d \in Conn \ {c} : Same(d)
    BY <1>2, <1>5 DEF Same
<1>8. BufferInv(c)'
    BY <1>2, <1>3 DEF BufferInv, Allowed
<1>9. FileInv(c)' /\ ReadInv(c)'
    BY <1>2, <1>3 DEF FileInv, ReadInv, View, Pending, OnDisk
<1>10. CkptInv(c)'
    BY <1>2, <1>3 DEF CkptInv, View
<1>11. StageInv(c)'
    <2>1. \A j \in Slot : staged'[j] = IF j = i THEN Chunk(aWalData[c], i) ELSE staged[j]
        BY <1>2 DEF Local, TypeOK
    <2>2. done[c] \subseteq Slot
        BY DEF Local, TypeOK
    <2>3. \A j \in done'[c] : staged'[j] = Chunk(aWalData[c], j)
        BY <1>3, <1>5, <2>1, <2>2 DEF StageInv
    <2> QED BY <1>1, <1>2, <1>3, <1>5, <2>3 DEF StageInv
<1>12. \A d \in Conn \ {c} : Claims(d) => dirty[d] \subseteq OnDisk'
    BY <1>2 DEF Core, ConnInv, OnDisk
<1>13. \A d \in Conn \ {c} : Claims(d)' => ClaimInv(c, d) /\ Claims(d)
    BY <1>3, <1>6 DEF Claims, Same
<1>14. RecoversCommit'
    BY <1>2 DEF Core, RecoversCommit, Recoverable
<1>15. nTx <= nTx' /\ LogOK(walBlob', nTx') /\ LogOK(aWalData'[c], nTx')
    <2>1. nTx <= nTx
        BY <1>3, Succ
    <2> QED BY <1>2, <1>3, <2>1 DEF Core
<1>16. \A d \in Conn \ {c} : Claims(d)' =>
               /\ hdr'[c].nBackfill = 0
               /\ dirty[d] \subseteq Cov(aWalData'[c], hdr'[c].mxFrame)
               /\ pc'[c] = "flush" => todo'[c] = dirty'[c]
    BY <1>2, <1>13 DEF ClaimInv
<1>17. holder' = c /\ pc'[c] \in Session
    BY <1>1, <1>2, <1>3
<1> QED BY <1>3, <1>6, <1>8, <1>9, <1>10, <1>11, <1>12, <1>14, <1>15, <1>16, <1>17, SessionStep

\* An upload that fails preserves Core.
LEMMA CoreUploadFail ==
    ASSUME Local, Core, Local', NEW c \in Conn, UploadFail(c)
    PROVE  Core'
<1> USE DEF fileVars, histVars
<1>1. pc[c] \in Uploading /\ pc[c] \in Session
    BY DEF UploadFail, Session
<1>2. /\ UNCHANGED <<db, holder, cache, dirty, todo, fresh, aWalData, hdr>>
      /\ UNCHANGED <<latest, durable, unsynced, doubt, nTx>>
      /\ done' = [done EXCEPT ![c] = {}]
      /\ txn' = [txn EXCEPT ![c] = NoRec]
    BY DEF UploadFail
<1>3. /\ holder = c
      /\ BufferInv(c) /\ FileInv(c) /\ ReadInv(c) /\ CkptInv(c) /\ StageInv(c)
      /\ \A d \in Conn : ClaimInv(c, d)
      /\ LogOK(aWalData[c], nTx) /\ nTx \in Nat
    BY <1>1, InSessionFacts
<1>4. PICK s \in {"ready", "close", "delete", "unlock"} :
            /\ pc' = [pc EXCEPT ![c] = s]
            /\ s = "delete" => hdr[c].nBackfill = hdr[c].mxFrame
    BY DEF UploadFail, SyncFailed, GoTo
<1>5. /\ pc'[c] = s /\ done'[c] = {}
      /\ \A d \in Conn \ {c} : pc'[d] = pc[d] /\ done'[d] = done[d] /\ txn'[d] = txn[d]
    BY <1>2, <1>4 DEF Local, TypeOK
<1>6. \A d \in Conn \ {c} : Same(d)
    BY <1>2, <1>5 DEF Same
<1>7. s \in Session /\ s \notin {"header", "commit", "ckpt", "flush"}
    BY DEF Session, Uploading
<1>8. BufferInv(c)'
    BY <1>2, <1>3, <1>5, <1>7 DEF BufferInv, Allowed
<1>11. /\ FileInv(c)' /\ ReadInv(c)'
       /\ \A d \in Conn \ {c} : Claims(d) => dirty[d] \subseteq OnDisk'
       /\ RecoversCommit' /\ LogOK(walBlob', nTx')
    <2>1. UNCHANGED <<walBlob, staged>> \/ PutBlob(c) \/ PutBlockList(c)
        BY DEF UploadFail
    <2>2. CASE UNCHANGED <<walBlob, staged>>
        <3>1. FileInv(c)' /\ ReadInv(c)'
            BY <1>2, <1>3, <2>2 DEF FileInv, ReadInv, View, Pending, OnDisk
        <3>2. \A d \in Conn \ {c} : Claims(d) => dirty[d] \subseteq OnDisk'
            BY <2>2 DEF Core, ConnInv, OnDisk
        <3>3. RecoversCommit' /\ LogOK(walBlob', nTx')
            BY <1>2, <2>2 DEF Core, RecoversCommit, Recoverable
        <3> QED BY <3>1, <3>2, <3>3
    <2>3. CASE PutBlob(c) \/ PutBlockList(c)
        <3>1. walBlob' = aWalData[c]
            BY <1>3, <2>3, Uploaded DEF Local
        <3>2. /\ Cov(aWalData[c], hdr[c].mxFrame) \subseteq OnDisk'
              /\ Recoverable' \in {View(c)} \cup Tail(aWalData[c], hdr[c], cache[c])
            BY <1>1, <1>2, <3>1, BufferRecovers DEF OnDisk, Recoverable
        <3>3. dirty[c] \subseteq Cov(aWalData[c], hdr[c].mxFrame)
            BY <1>1, BelowLog
        <3>4. FileInv(c)' /\ ReadInv(c)'
            <4>1. dirty'[c] \subseteq OnDisk'
                BY <1>2, <3>2, <3>3
            <4> QED BY <1>2, <1>3, <4>1 DEF FileInv, ReadInv, View, Pending
        <3>5. \A d \in Conn \ {c} : Claims(d) => dirty[d] \subseteq OnDisk'
            BY <1>3, <3>2 DEF ClaimInv
        <3>6. RecoversCommit'
            BY <1>2, <1>3, <3>2 DEF BufferInv, Allowed, ReadInv, RecoversCommit
        <3>7. LogOK(walBlob', nTx')
            BY <1>2, <1>3, <3>1
        <3> QED BY <3>4, <3>5, <3>6, <3>7
    <2> QED BY <2>1, <2>2, <2>3
<1>12. CkptInv(c)'
    BY <1>2, <1>4, <1>5, <1>7 DEF CkptInv
<1>13. StageInv(c)'
    BY <1>5 DEF StageInv
<1>14. \A d \in Conn \ {c} : Claims(d)' => ClaimInv(c, d) /\ Claims(d)
    BY <1>3, <1>6 DEF Claims, Same
<1>15. nTx <= nTx' /\ LogOK(aWalData'[c], nTx')
    <2>1. nTx <= nTx
        BY <1>3, SMT
    <2> QED BY <1>2, <1>3, <2>1
<1>16. \A d \in Conn \ {c} : Claims(d)' =>
               /\ hdr'[c].nBackfill = 0
               /\ dirty[d] \subseteq Cov(aWalData'[c], hdr'[c].mxFrame)
               /\ pc'[c] = "flush" => todo'[c] = dirty'[c]
    BY <1>2, <1>5, <1>7, <1>14 DEF ClaimInv
<1>17. holder' = c /\ pc'[c] \in Session
    BY <1>2, <1>3, <1>5, <1>7
<1> QED BY <1>3, <1>6, <1>8, <1>11, <1>12, <1>13, <1>15, <1>16, <1>17, SessionStep

\* Pages that the log in the blob has do not matter to recovery.
LEMMA DiskHides ==
    ASSUME NEW D, D \subseteq OnDisk, \A p \in Page \ D : db'[p] = db[p],
           UNCHANGED <<walBlob, durable, unsynced, doubt>>, RecoversCommit
    PROVE  RecoversCommit'
<1> DEFINE k == Committed(walBlob)
           e == db
           f == db'
<1>1. \A p \in Page \ Cov(walBlob, k) : f[p] = e[p]
    BY DEF OnDisk
<1> HIDE DEF k, e, f
<1>2. Replay(walBlob, k, f) = Replay(walBlob, k, e)
    BY <1>1, ReplaySame, SMT
<1>3. Recoverable' = Recoverable
    BY <1>2 DEF Recoverable, k, e, f
<1> QED BY <1>3 DEF RecoversCommit

\* A page write of a checkpoint preserves Core: the log has the page too.
LEMMA CorePutPage ==
    ASSUME Local, Core, Local', NEW c \in Conn, NEW p \in Page, PutPage(c, p)
    PROVE  Core'
<1> USE DEF walVars, histVars
<1>1. pc[c] = "flush" /\ pc[c] \in Session
    BY DEF PutPage, Session
<1>2. /\ UNCHANGED <<holder, walBlob, staged, pc, cache, dirty, aWalData, hdr, txn, done>>
      /\ UNCHANGED <<latest, durable, unsynced, doubt, nTx>>
      /\ p \in todo[c]
      /\ db' = [db EXCEPT ![p] = cache[c][p]]
      /\ todo' = [todo EXCEPT ![c] = @ \ {p}]
      /\ fresh' = {}
    BY DEF PutPage
<1>3. /\ holder = c
      /\ BufferInv(c) /\ FileInv(c) /\ ReadInv(c) /\ CkptInv(c) /\ StageInv(c)
      /\ LogOK(aWalData[c], nTx) /\ nTx \in Nat
    BY <1>1, InSessionFacts
<1>4. /\ todo'[c] = todo[c] \ {p} /\ \A d \in Conn \ {c} : todo'[d] = todo[d]
      /\ db'[p] = cache[c][p] /\ \A q \in Page \ {p} : db'[q] = db[q]
    BY <1>2 DEF Local, TypeOK, Content
<1>5. p \in dirty[c]
    BY <1>1, <1>2, <1>3 DEF CkptInv
<1>6. \A d \in Conn \ {c} : Same(d)
    BY <1>2, <1>4 DEF Same
<1>7. BufferInv(c)'
    BY <1>2, <1>3 DEF BufferInv, Allowed
<1>8. FileInv(c)' /\ ReadInv(c)'
    <2>1. \A q \in Page \ dirty[c] : cache[c][q] = db'[q]
        BY <1>3, <1>4, <1>5 DEF FileInv
    <2>2. View(c)' = View(c) /\ Pending(c)' = Pending(c) /\ OnDisk' = OnDisk
        BY <1>2 DEF View, Pending, OnDisk
    <2> QED BY <1>2, <1>3, <2>1, <2>2 DEF FileInv, ReadInv
<1>9. CkptInv(c)'
    <2>1. dirty[c] \subseteq Page
        BY DEF Local, TypeOK
    <2>2. \A q \in dirty[c] \ todo'[c] : db'[q] = cache[c][q]
        BY <1>1, <1>3, <1>4, <2>1 DEF CkptInv
    <2>3. todo'[c] \subseteq dirty[c]
        BY <1>1, <1>3, <1>4 DEF CkptInv
    <2> QED BY <1>1, <1>2, <1>3, <2>2, <2>3 DEF CkptInv, View
<1>10. StageInv(c)'
    BY <1>2, <1>3 DEF StageInv
<1>11. \A d \in Conn \ {c} : Claims(d) => dirty[d] \subseteq OnDisk'
    BY <1>2 DEF Core, ConnInv, OnDisk
<1>12. RecoversCommit'
    <2>1. \A q \in Page \ dirty[c] : db'[q] = db[q]
        BY <1>4, <1>5
    <2>2. dirty[c] \subseteq OnDisk
        BY <1>3 DEF FileInv
    <2> QED BY <1>2, <2>1, <2>2, DiskHides DEF Core
<1>13. nTx <= nTx' /\ LogOK(walBlob', nTx') /\ LogOK(aWalData'[c], nTx')
    <2>1. nTx <= nTx
        BY <1>3, Succ
    <2> QED BY <1>2, <1>3, <2>1 DEF Core
<1>14. \A d \in Conn \ {c} : ~ Claims(d)'
    BY <1>2 DEF Claims
<1>15. holder' = c /\ pc'[c] \in Session
    BY <1>1, <1>2, <1>3
<1> QED BY <1>3, <1>6, <1>7, <1>8, <1>9, <1>10, <1>11, <1>12, <1>13, <1>14, <1>15, SessionStep

\* The end of a checkpoint preserves Core.
LEMMA CoreFlushed ==
    ASSUME Local, Core, Local', NEW c \in Conn, Flushed(c)
    PROVE  Core'
<1> USE DEF blobVars, histVars
<1>1. pc[c] = "flush" /\ pc[c] \in Session
    BY DEF Flushed, Session
<1>2. /\ UNCHANGED <<db, holder, walBlob, staged, cache, todo, aWalData, txn, done>>
      /\ UNCHANGED <<latest, durable, unsynced, doubt, nTx>>
      /\ todo[c] = {}
      /\ dirty' = [dirty EXCEPT ![c] = {}]
      /\ fresh' \in {fresh, fresh \cup {c}}
      /\ hdr' = [hdr EXCEPT ![c].nBackfill = hdr[c].mxFrame]
    BY DEF Flushed
<1>3. /\ holder = c
      /\ BufferInv(c) /\ FileInv(c) /\ ReadInv(c) /\ CkptInv(c) /\ StageInv(c)
      /\ \A d \in Conn : ClaimInv(c, d)
      /\ LogOK(aWalData[c], nTx) /\ nTx \in Nat
      /\ hdr[c] \in Hdr /\ hdr[c].mxFrame \in 0..MaxTx
    BY <1>1, InSessionFacts
<1>4. PICK s \in {"ready", "delete", "close"} : pc' = [pc EXCEPT ![c] = s]
    BY DEF Flushed, GoTo
<1>5. /\ pc'[c] = s /\ dirty'[c] = {}
      /\ \A d \in Conn \ {c} : pc'[d] = pc[d] /\ dirty'[d] = dirty[d] /\ hdr'[d] = hdr[d]
    BY <1>2, <1>4 DEF Local, TypeOK
<1>6. hdr'[c].nBackfill = hdr[c].mxFrame /\ hdr'[c].mxFrame = hdr[c].mxFrame /\ hdr'[c].aSalt = hdr[c].aSalt
    <2>1. hdr'[c] = [hdr[c] EXCEPT !.nBackfill = hdr[c].mxFrame]
        BY <1>2 DEF Local, TypeOK
    <2> QED BY <1>3, <2>1, SMT DEF Hdr
<1>7. \A d \in Conn \ {c} : Same(d)
    BY <1>2, <1>5 DEF Same
<1>8. s \in Session /\ s \notin {"header", "commit", "ckpt", "flush"}
    BY DEF Session, Uploading
<1>9. BufferInv(c)'
    <2>1. hdr[c].mxFrame <= hdr[c].mxFrame
        BY <1>3, BoundsAssumption, SMT
    <2> QED BY <1>2, <1>3, <1>5, <1>6, <1>8, <2>1 DEF BufferInv, Allowed, Tail
<1>10. View(c)' = View(c)
    BY <1>2, <1>6 DEF View
<1>11. FileInv(c)' /\ ReadInv(c)'
    <2>1. \A q \in Page : cache[c][q] = db[q]
        BY <1>1, <1>2, <1>3 DEF CkptInv, FileInv
    <2>2. cache[c] = View(c)
        BY <1>1, <1>3 DEF CkptInv
    <2> QED BY <1>2, <1>3, <1>5, <1>10, <2>1, <2>2 DEF FileInv, ReadInv
<1>12. CkptInv(c)'
    BY <1>5, <1>6, <1>8 DEF CkptInv
<1>13. StageInv(c)'
    <2>1. done[c] = {}
        BY <1>1, <1>3 DEF StageInv, Uploading
    <2> QED BY <1>2, <2>1 DEF StageInv
<1>14. \A d \in Conn \ {c} : Claims(d) => dirty[d] \subseteq OnDisk'
    BY <1>2 DEF Core, ConnInv, OnDisk
<1>15. \A d \in Conn \ {c} : ~ Claims(d)'
    <2>1. \A d \in Conn \ {c} : ~ Claims(d)
        BY <1>1, <1>2, <1>3 DEF ClaimInv, CkptInv
    <2> QED BY <1>7, <2>1 DEF Claims, Same
<1>16. RecoversCommit'
    BY <1>2 DEF Core, RecoversCommit, Recoverable
<1>17. nTx <= nTx' /\ LogOK(walBlob', nTx') /\ LogOK(aWalData'[c], nTx')
    <2>1. nTx <= nTx
        BY <1>3, Succ
    <2> QED BY <1>2, <1>3, <2>1 DEF Core
<1>18. holder' = c /\ pc'[c] \in Session
    BY <1>2, <1>3, <1>5, <1>8
<1> QED BY <1>3, <1>7, <1>9, <1>11, <1>12, <1>13, <1>14, <1>15, <1>16, <1>17, <1>18, SessionStep

\* The deletion of a log that is all copied preserves Core.
LEMMA CoreDelete ==
    ASSUME Local, Core, Local', NEW c \in Conn, Delete(c)
    PROVE  Core'
<1> USE DEF fileVars, histVars
<1>1. pc[c] = "delete" /\ pc[c] \in Session
    BY DEF Delete, Session
<1>2. /\ UNCHANGED <<db, holder, staged, cache, dirty, todo, fresh, txn, done>>
      /\ UNCHANGED <<latest, durable, unsynced, doubt, nTx>>
      /\ walBlob' = NoLog \/ walBlob' = walBlob
    BY DEF Delete
<1>3. /\ holder = c
      /\ BufferInv(c) /\ FileInv(c) /\ ReadInv(c) /\ CkptInv(c) /\ StageInv(c)
      /\ \A d \in Conn : ClaimInv(c, d)
      /\ LogOK(aWalData[c], nTx) /\ nTx \in Nat
      /\ hdr[c] \in Hdr /\ hdr[c].mxFrame \in 0..MaxTx /\ cache[c] \in Content
    BY <1>1, InSessionFacts
<1>4. hdr[c].nBackfill = hdr[c].mxFrame
    BY <1>1, <1>3 DEF CkptInv
<1>5. Pending(c) = {} /\ dirty[c] = {} /\ cache[c] = View(c) /\ cache[c] = db
    BY <1>1, <1>4, NonePending
<1>6. /\ NoLog \in Log /\ NoLog.salt = 0
      /\ \A i \in Slot : NoLog.frames[i] = NoRec
      /\ \A m \in Slot : ~ Valid(NoLog, m)
      /\ Committed(NoLog) = 0
    BY EmptyLog
<1>7. LogOK(NoLog, nTx)
    <2>1. NoRec.tx = 0 /\ NoRec.prev = 0
        BY DEF NoRec
    <2>2. 0 <= nTx
        BY <1>3, SMT
    <2> QED BY <1>6, <2>1, <2>2 DEF LogOK
<1>8. done[c] = {}
    BY <1>1, <1>3 DEF StageInv, Uploading
<1>9. RecoversCommit' /\ LogOK(walBlob', nTx')
    <2>1. CASE walBlob' = walBlob
        BY <1>2, <2>1 DEF Core, RecoversCommit, Recoverable
    <2>2. CASE walBlob' = NoLog
        <3>1. Replay(NoLog, 0, db) = db
            BY <1>3, <1>5, ReplayNone
        <3>2. Recoverable' = latest
            BY <1>2, <1>3, <1>5, <1>6, <2>2, <3>1 DEF Recoverable, ReadInv
        <3> QED BY <1>2, <1>3, <1>7, <2>2, <3>2 DEF RecoversCommit, ReadInv
    <2> QED BY <1>2, <2>1, <2>2
<1>10. ASSUME NEW d \in Conn \ {c}, Claims(d) PROVE dirty[d] = {} /\ hdr[c].mxFrame = 0
    <2>1. hdr[c].mxFrame = 0 /\ dirty[d] \subseteq Cov(aWalData[c], hdr[c].mxFrame)
        BY <1>3, <1>4, <1>10 DEF ClaimInv
    <2> QED BY <2>1, CovNone
<1>11. \A d \in Conn \ {c} : Claims(d) => dirty[d] \subseteq OnDisk'
    BY <1>10
<1>12. nTx <= nTx'
    BY <1>2, <1>3, SMT
<1>13. CASE goal[c] = "truncate"
    <2>1. /\ aWalData' = [aWalData EXCEPT ![c] = NoLog]
          /\ hdr' = [hdr EXCEPT ![c] = Restarted(hdr[c])]
          /\ pc' = [pc EXCEPT ![c] = "ready"]
        BY <1>13 DEF Delete, GoTo
    <2>2. /\ pc'[c] = "ready" /\ aWalData'[c] = NoLog /\ hdr'[c] = Restarted(hdr[c])
          /\ \A d \in Conn \ {c} : pc'[d] = pc[d] /\ aWalData'[d] = aWalData[d] /\ hdr'[d] = hdr[d]
        BY <2>1 DEF Local, TypeOK
    <2>3. hdr'[c].mxFrame = 0 /\ hdr'[c].nBackfill = 0 /\ hdr'[c].aSalt = 0
        BY <1>3, <2>2, RestartedIs
    <2>4. \A d \in Conn \ {c} : Same(d)
        BY <1>2, <2>2 DEF Same
    <2>5. View(c)' = cache[c]
        <3>1. Replay(NoLog, 0, cache[c]) = cache[c]
            BY <1>3, ReplayNone
        <3> QED BY <1>2, <2>2, <2>3, <3>1 DEF View
    <2>6. BufferInv(c)'
        <3>1. Valid(NoLog, 0) /\ 0 <= 0
            BY <1>6, CommittedIs, SMT
        <3>2. Tail(aWalData'[c], hdr'[c], cache'[c]) = {}
            BY <1>6, <2>2 DEF Tail
        <3> QED BY <2>2, <2>3, <3>1, <3>2 DEF BufferInv
    <2>7. FileInv(c)' /\ ReadInv(c)'
        BY <1>2, <1>3, <1>5, <2>5 DEF FileInv, ReadInv
    <2>8. CkptInv(c)'
        BY <2>2 DEF CkptInv
    <2>9. StageInv(c)'
        BY <1>2, <1>8 DEF StageInv
    <2>10. ASSUME NEW d \in Conn \ {c}, Claims(d)'
           PROVE  /\ hdr'[c].nBackfill = 0
                  /\ dirty[d] \subseteq Cov(aWalData'[c], hdr'[c].mxFrame)
                  /\ pc'[c] = "flush" => todo'[c] = dirty'[c]
        <3>1. Claims(d)
            BY <2>4, <2>10 DEF Claims, Same
        <3> QED BY <1>10, <2>2, <2>3, <3>1
    <2>11. LogOK(aWalData'[c], nTx') /\ holder' = c /\ pc'[c] \in Session
        BY <1>2, <1>3, <1>7, <2>2 DEF Session
    <2> QED BY <1>3, <1>9, <1>11, <1>12, <2>4, <2>6, <2>7, <2>8, <2>9, <2>10, <2>11, SessionStep
<1>14. CASE goal[c] = "close"
    <2>1. UNCHANGED <<aWalData, hdr>> /\ pc' = [pc EXCEPT ![c] = "unlock"]
        BY <1>14 DEF Delete, GoTo
    <2>2. pc'[c] = "unlock" /\ \A d \in Conn \ {c} : pc'[d] = pc[d]
        BY <2>1 DEF Local, TypeOK
    <2>3. \A d \in Conn \ {c} : Same(d)
        BY <1>2, <2>1, <2>2 DEF Same
    <2>4. BufferInv(c)'
        BY <1>2, <1>3, <2>1, <2>2 DEF BufferInv, Allowed
    <2>5. FileInv(c)' /\ ReadInv(c)'
        BY <1>2, <1>3, <1>5, <2>1 DEF FileInv, ReadInv, View, Pending
    <2>6. CkptInv(c)'
        BY <2>2 DEF CkptInv
    <2>7. StageInv(c)'
        BY <1>2, <1>8 DEF StageInv
    <2>8. ASSUME NEW d \in Conn \ {c}, Claims(d)'
          PROVE  /\ hdr'[c].nBackfill = 0
                 /\ dirty[d] \subseteq Cov(aWalData'[c], hdr'[c].mxFrame)
                 /\ pc'[c] = "flush" => todo'[c] = dirty'[c]
        <3>1. Claims(d)
            BY <2>3, <2>8 DEF Claims, Same
        <3> QED BY <1>3, <2>1, <2>2, <3>1 DEF ClaimInv
    <2>9. LogOK(aWalData'[c], nTx') /\ holder' = c /\ pc'[c] \in Session
        BY <1>2, <1>3, <2>1, <2>2 DEF Session
    <2> QED BY <1>3, <1>9, <1>11, <1>12, <2>3, <2>4, <2>5, <2>6, <2>7, <2>8, <2>9, SessionStep
<1> QED BY <1>13, <1>14 DEF Delete

\* The download of the log at xOpen preserves Core.
LEMMA CoreGet ==
    ASSUME Local, Core, Local', NEW c \in Conn, Get(c)
    PROVE  Core'
<1> USE DEF blobVars, fileVars
<1>1. pc[c] = "get" /\ UNCHANGED <<db, holder, walBlob, staged, cache, dirty, todo, fresh, txn, done, nTx>>
    BY DEF Get
<1>2. ConnInv(c) /\ holder = c /\ dirty[c] = {} /\ cache[c] = db /\ done[c] = {}
    BY <1>1 DEF Core, ConnInv, OpenInv, StageInv, Uploading
<1>3. nTx \in Nat /\ nTx <= nTx' /\ LogOK(walBlob', nTx')
    <2>1. nTx \in Nat /\ nTx <= nTx
        BY BoundsAssumption, SMT DEF Local, TypeOK
    <2> QED BY <1>1, <2>1 DEF Core
<1>4. \A d \in Conn \ {c} : Claims(d) => dirty[d] \subseteq OnDisk /\ OnDisk' = OnDisk
    BY <1>1 DEF Core, ConnInv, OnDisk
<1>5. CASE pc' = [pc EXCEPT ![c] = "access"] /\ UNCHANGED <<aWalData, hdr, histVars>>
    <2>1. pc'[c] = "access" /\ \A d \in Conn \ {c} : pc'[d] = pc[d]
        BY <1>5 DEF Local, TypeOK
    <2>2. \A d \in Conn \ {c} : Same(d)
        BY <1>1, <1>5, <2>1 DEF Same
    <2>3. ConnInv(c)'
        <3>1. pc'[c] \notin Session
            BY <2>1 DEF Session, Uploading
        <3>2. OpenInv(c)'
            BY <1>1, <1>2 DEF OpenInv
        <3>3. StageInv(c)'
            BY <1>1, <1>2 DEF StageInv
        <3> QED BY <2>1, <3>1, <3>2, <3>3 DEF ConnInv, InSession, Claims
    <2>4. RecoversCommit' /\ LogOK(aWalData'[c], nTx')
        BY <1>1, <1>5 DEF Core, RecoversCommit, Recoverable, histVars
    <2>5. \A d \in Conn \ {c} : holder' # d
        BY <1>1, <1>2
    <2> QED BY <1>2, <1>3, <1>4, <2>2, <2>3, <2>4, <2>5, HolderStep
<1>6. CASE /\ aWalData' = [aWalData EXCEPT ![c] = walBlob]
           /\ hdr' = [hdr EXCEPT ![c] =
                        [aSalt |-> walBlob.salt, nCkpt |-> walBlob.ckpt,
                         mxFrame |-> Committed(walBlob), nBackfill |-> 0]]
           /\ latest' = Recoverable
           /\ durable' = latest'
           /\ unsynced' = {}
           /\ doubt' = {}
           /\ pc' = [pc EXCEPT ![c] = "ready"]
    <2> DEFINE k == Committed(walBlob)
    <2>1. /\ pc'[c] = "ready" /\ aWalData'[c] = walBlob
          /\ hdr'[c].aSalt = walBlob.salt /\ hdr'[c].mxFrame = k /\ hdr'[c].nBackfill = 0
          /\ \A d \in Conn \ {c} : pc'[d] = pc[d] /\ aWalData'[d] = aWalData[d] /\ hdr'[d] = hdr[d]
        BY <1>6 DEF Local, TypeOK
    <2>2. k \in 0..MaxTx /\ Valid(walBlob, k) /\ \A n \in 0..MaxTx : Valid(walBlob, n) => n <= k
        BY CommittedIs
    <2>3. \A d \in Conn \ {c} : Same(d)
        BY <1>1, <2>1 DEF Same
    <2>4. View(c)' = Recoverable
        BY <1>1, <1>2, <2>1 DEF View, Recoverable
    <2> HIDE DEF k
    <2>5. BufferInv(c)'
        <3>1. Tail(aWalData'[c], hdr'[c], cache'[c]) = {}
            <4>1. \A m \in Slot : m \in 0..MaxTx /\ ~(m > k /\ m <= k)
                BY <2>2, BoundsAssumption, SMT DEF Slot
            <4> QED BY <2>1, <2>2, <4>1 DEF Tail
        <3>2. 0 <= k
            BY <2>2, BoundsAssumption, SMT
        <3> QED BY <2>1, <2>2, <3>1, <3>2 DEF BufferInv
    <2>6. FileInv(c)'
        <3>1. Pending(c)' = Cov(walBlob, k)
            <4>1. k \in Nat
                BY <2>2, BoundsAssumption, SMT
            <4>2. Pending(c)' = Between(walBlob, 0, k)
                BY <2>1 DEF Pending
            <4> QED BY <4>1, <4>2, BetweenIs
        <3>2. ASSUME NEW p \in Page, p \notin Cov(walBlob, k)
              PROVE  Recoverable[p] = db[p]
            BY <3>2, ReplayAt, SMT DEF Recoverable, k
        <3> QED BY <1>1, <1>2, <2>4, <3>1, <3>2 DEF FileInv
    <2>7. ReadInv(c)'
        BY <1>6, <2>4 DEF ReadInv
    <2>8. CkptInv(c)'
        BY <2>1 DEF CkptInv
    <2>9. StageInv(c)'
        BY <1>1, <1>2 DEF StageInv
    <2>10. ASSUME NEW d \in Conn \ {c}, Claims(d)'
           PROVE  /\ hdr'[c].nBackfill = 0
                  /\ dirty[d] \subseteq Cov(aWalData'[c], hdr'[c].mxFrame)
                  /\ pc'[c] = "flush" => todo'[c] = dirty'[c]
        <3>1. Claims(d)
            BY <2>3, <2>10 DEF Claims, Same
        <3> QED BY <1>4, <2>1, <3>1 DEF OnDisk, k
    <2>11. RecoversCommit'
        BY <1>1, <1>6 DEF RecoversCommit, Recoverable
    <2>12. LogOK(aWalData'[c], nTx') /\ holder' = c /\ pc'[c] \in Session
        BY <1>1, <1>2, <1>3, <2>1 DEF Session
    <2> QED BY <1>2, <1>3, <1>4, <2>3, <2>5, <2>6, <2>7, <2>8, <2>9, <2>10, <2>11, <2>12, SessionStep
<1> QED BY <1>5, <1>6 DEF Get, GoTo

\* What a connection that is gone leaves behind.
LEMMA GoneFacts ==
    ASSUME Local, NEW c \in Conn, Gone(c)
    PROVE  /\ pc'[c] = "idle" /\ dirty'[c] = {} /\ done'[c] = {} /\ aWalData'[c] = NoLog
           /\ \A d \in Conn \ {c} : /\ pc'[d] = pc[d]
                                    /\ cache'[d] = cache[d]
                                    /\ dirty'[d] = dirty[d]
                                    /\ todo'[d] = todo[d]
                                    /\ aWalData'[d] = aWalData[d]
                                    /\ hdr'[d] = hdr[d]
                                    /\ txn'[d] = txn[d]
                                    /\ done'[d] = done[d]
           /\ ConnInv(c)'
<1>1. pc'[c] = "idle" /\ dirty'[c] = {} /\ done'[c] = {} /\ aWalData'[c] = NoLog
    BY DEF Gone, GoTo, Local, TypeOK
<1>2. \A d \in Conn \ {c} : /\ pc'[d] = pc[d] /\ cache'[d] = cache[d]
                            /\ dirty'[d] = dirty[d] /\ todo'[d] = todo[d]
    BY DEF Gone, GoTo, Local, TypeOK
<1>3. \A d \in Conn \ {c} : /\ aWalData'[d] = aWalData[d] /\ hdr'[d] = hdr[d]
                            /\ txn'[d] = txn[d] /\ done'[d] = done[d]
    BY DEF Gone, GoTo, Local, TypeOK
<1>4. ConnInv(c)'
    <2>1. pc'[c] \notin Session
        BY <1>1 DEF Session, Uploading
    <2>2. OpenInv(c)' /\ StageInv(c)'
        BY <1>1 DEF OpenInv, StageInv
    <2> QED BY <1>1, <2>1, <2>2 DEF ConnInv, InSession, Claims
<1> QED BY <1>1, <1>2, <1>3, <1>4

\* An empty log holds no number.
LEMMA EmptyLogOK ==
    ASSUME NEW n \in Nat
    PROVE  LogOK(NoLog, n)
<1>1. NoLog.salt = 0 /\ \A i \in Slot : NoLog.frames[i] = NoRec
    BY EmptyLog
<1>2. NoRec.tx = 0 /\ NoRec.prev = 0
    BY DEF NoRec
<1>3. 0 <= n
    BY SMT
<1> QED BY <1>1, <1>2, <1>3 DEF LogOK

\* The release of the lease preserves Core.
LEMMA CoreUnlock ==
    ASSUME Local, Core, Local', NEW c \in Conn, Unlock(c)
    PROVE  Core'
<1> USE DEF fileVars, walVars, histVars
<1>1. pc[c] = "unlock" /\ pc[c] \in Session /\ pc[c] \notin Uploading
    BY DEF Unlock, Session, Uploading
<1>2. /\ UNCHANGED <<db, walBlob, staged, latest, durable, unsynced, doubt, nTx>>
      /\ holder' = Release(c)
    BY DEF Unlock
<1>3. holder = c /\ FileInv(c) /\ StageInv(c) /\ LogOK(aWalData[c], nTx) /\ nTx \in Nat
    BY <1>1, InSessionFacts
<1>4. holder' = NoLease /\ \A d \in Conn : holder' # d
    BY <1>2, <1>3, ConnAssumption DEF Release
<1>5. /\ RecoversCommit' /\ LogOK(walBlob', nTx')
      /\ \A d \in Conn \ {c} : Claims(d) => dirty[d] \subseteq OnDisk'
    BY <1>2 DEF Core, ConnInv, OnDisk, RecoversCommit, Recoverable
<1>6. nTx <= nTx'
    BY <1>2, <1>3, SMT
<1>7. CASE dirty[c] = {}
    <2>1. Gone(c) /\ fresh' = fresh \ {c}
        BY <1>7 DEF Unlock
    <2>2. ConnInv(c)' /\ \A d \in Conn \ {c} : Same(d)
        BY <2>1, GoneFacts DEF Same
    <2>3. LogOK(aWalData'[c], nTx')
        BY <1>2, <1>3, <2>1, GoneFacts, EmptyLogOK
    <2> QED BY <1>3, <1>4, <1>5, <1>6, <2>2, <2>3, HolderStep
<1>8. CASE dirty[c] # {}
    <2>1. pc' = [pc EXCEPT ![c] = "closeDb"]
        BY <1>8 DEF Unlock, GoTo
    <2>2. UNCHANGED <<cache, dirty, todo, fresh, aWalData, hdr, txn, done>>
        BY <1>8 DEF Unlock
    <2>3. pc'[c] = "closeDb" /\ \A d \in Conn \ {c} : pc'[d] = pc[d]
        BY <2>1 DEF Local, TypeOK
    <2>4. \A d \in Conn \ {c} : Same(d)
        BY <2>2, <2>3 DEF Same
    <2>5. ConnInv(c)'
        <3>1. pc'[c] \notin Session
            BY <2>3 DEF Session, Uploading
        <3>2. OpenInv(c)'
            BY <2>3 DEF OpenInv
        <3>3. StageInv(c)'
            BY <1>1, <1>3, <2>2 DEF StageInv
        <3>4. dirty'[c] \subseteq OnDisk'
            BY <1>2, <1>3, <2>2 DEF FileInv, OnDisk
        <3> QED BY <2>3, <3>1, <3>2, <3>3, <3>4 DEF ConnInv, InSession
    <2>6. LogOK(aWalData'[c], nTx')
        BY <1>2, <1>3, <2>2
    <2> QED BY <1>3, <1>4, <1>5, <1>6, <2>4, <2>5, <2>6, HolderStep
<1> QED BY <1>7, <1>8

\* walFrames writes the frames of the newest transaction, N: they follow
\* the log, and nothing follows them.
NewestFrame(log, h, N, new) ==
    LET n == h.mxFrame
    IN  /\ new.salt = log.salt /\ LogOK(new, N)
        /\ \A i \in 1..n : new.frames[i] = log.frames[i]
        /\ new.frames[n + 1].tx = N
        /\ \A i \in Slot \ {n + 1} : new.frames[i].prev < N
        /\ Valid(new, n) /\ Valid(new, n + 1)
        /\ \A m \in Slot : m > n + 1 => ~ Valid(new, m)
        /\ Cov(new, n) = Cov(log, n)
        /\ \A b \in Nat : Between(new, b, n) = Between(log, b, n)
        /\ \A d : Replay(new, n, d) = Replay(log, n, d)

\* A frame just written ends the valid part of the log.
LEMMA FramedNewest ==
    ASSUME NEW log \in Log, NEW h \in Hdr, h.mxFrame < MaxTx, NEW N \in Nat,
           NEW t \in Rec, t.tx = N, t.pages # {}, Valid(log, h.mxFrame), LogOK(log, N),
           \A i \in Slot : log.frames[i].prev < N
    PROVE  NewestFrame(log, h, N, Framed(log, h, t))
<1> DEFINE n == h.mxFrame
           new == Framed(log, h, t)
<1>1. n \in 0..MaxTx /\ n \in Nat
    BY BoundsAssumption, SMT DEF Hdr
<1>2. /\ new \in Log
      /\ new.salt = log.salt
      /\ n + 1 \in Slot
      /\ \A i \in Slot : i # n + 1 => new.frames[i] = log.frames[i]
      /\ \A i \in 1..n : new.frames[i] = log.frames[i]
      /\ new.frames[n + 1].tx = t.tx
      /\ new.frames[n + 1].pages = t.pages
      /\ new.frames[n + 1].prev = IF n = 0 THEN log.salt ELSE log.frames[n].tx
    <2>1. OneFrame(log, h, t, new)
        BY <1>1, FramedIs
    <2> QED BY <2>1 DEF OneFrame
<1>3. n # 0 => n \in Slot /\ n \in 1..n
    BY <1>1, BoundsAssumption, SMT DEF Slot
<1>4. Valid(log, n)
    OBVIOUS
<1> HIDE DEF n, new
<1>5. new.frames[n + 1] # NoRec
    <2>1. NoRec.pages = {}
        BY DEF NoRec
    <2> QED BY <1>2, <2>1
<1>6. Valid(new, n)
    BY <1>1, <1>2, <1>4, ValidSame
<1>7. new.frames[n + 1].prev = IF n = 0 THEN new.salt ELSE new.frames[n].tx
    BY <1>2, <1>3
<1>8. Valid(new, n + 1)
    BY <1>1, <1>5, <1>6, <1>7, ValidStep
<1>9. \A i \in Slot \ {n + 1} : new.frames[i].prev < N
    BY <1>2
<1>10. \A m \in Slot : m > n + 1 => ~ Valid(new, m)
    BY <1>1, <1>2, <1>9, TailStops
<1>11. LogOK(new, N)
    <2>1. new.frames[n + 1].prev <= N
        BY <1>2, <1>3 DEF LogOK
    <2>2. N <= N
        BY SMT
    <2> QED BY <1>2, <2>1, <2>2 DEF LogOK
<1>12. Cov(new, n) = Cov(log, n) /\ \A d : Replay(new, n, d) = Replay(log, n, d)
    BY <1>1, <1>2, ReplayPrefix, SMT
<1>13. \A b \in Nat : Between(new, b, n) = Between(log, b, n)
    BY <1>1, <1>2, BetweenSame
<1> QED BY <1>2, <1>6, <1>8, <1>9, <1>10, <1>11, <1>12, <1>13 DEF n, new, NewestFrame

\* The frames of a transaction are written: nothing else changes but, when
\* the header was synced before, the log in the blob.
LEMMA FramesStep ==
    ASSUME Local, Local', Core, NEW c \in Conn, pc[c] \in Session, holder' = c,
           NEW t \in Rec, t.tx = nTx', t.pages # {},
           \A i \in Slot : aWalData[c].frames[i].prev < nTx',
           LogOK(aWalData[c], nTx'), hdr[c].mxFrame < MaxTx, nTx <= nTx',
           NEW d, NEW u, NEW q, WalFrames(c, aWalData[c], hdr[c], t, d, u, q),
           latest \in {d} \cup u, Recoverable' \in {d} \cup u \cup q,
           UNCHANGED <<db, cache, dirty, todo, fresh>>,
           done'[c] = {}, \A e \in Conn \ {c} : txn'[e] = txn[e] /\ done'[e] = done[e],
           LogOK(walBlob', nTx'), dirty[c] \subseteq OnDisk',
           \A e \in Conn \ {c} : Claims(e) => dirty[e] \subseteq OnDisk'
    PROVE  Core'
<1> DEFINE log == aWalData[c]
           h == hdr[c]
           n == h.mxFrame
           new == Framed(log, h, t)
           content == Replay(new, n + 1, cache[c])
<1>1. /\ holder = c
      /\ BufferInv(c) /\ FileInv(c) /\ ReadInv(c) /\ StageInv(c)
      /\ \A e \in Conn : ClaimInv(c, e)
      /\ log \in Log /\ h \in Hdr /\ cache[c] \in Content
      /\ n \in 0..MaxTx /\ h.nBackfill \in 0..MaxTx
    BY InSessionFacts
<1>2. nTx' \in Nat /\ n \in Nat /\ h.nBackfill \in Nat /\ n + 1 \in Slot
    <2>1. nTx' \in 0..MaxTx
        BY DEF Local, TypeOK
    <2> QED BY <1>1, <2>1, FrameNumber
<1>3. Valid(log, n) /\ h.nBackfill <= n
    BY <1>1 DEF BufferInv
<1>4. /\ new.salt = log.salt /\ LogOK(new, nTx')
      /\ \A i \in 1..n : new.frames[i] = log.frames[i]
      /\ new.frames[n + 1].tx = nTx'
      /\ \A i \in Slot \ {n + 1} : new.frames[i].prev < nTx'
      /\ Valid(new, n) /\ Valid(new, n + 1)
      /\ \A m \in Slot : m > n + 1 => ~ Valid(new, m)
      /\ Cov(new, n) = Cov(log, n)
      /\ \A b \in Nat : Between(new, b, n) = Between(log, b, n)
      /\ Replay(new, n, cache[c]) = Replay(log, n, cache[c])
    <2>1. NewestFrame(log, h, nTx', new)
        BY <1>1, <1>2, <1>3, FramedNewest
    <2> QED BY <2>1 DEF NewestFrame
<1> HIDE DEF new
<1>5. /\ aWalData' = [aWalData EXCEPT ![c] = new]
      /\ durable' = d
      /\ \/ /\ hdr' = [hdr EXCEPT ![c] = h]
            /\ doubt' = q \cup {content}
            /\ unsynced' = u
            /\ pc' = [pc EXCEPT ![c] = "commit"]
            /\ latest' = latest
         \/ /\ hdr' = [hdr EXCEPT ![c] = [h EXCEPT !.mxFrame = @ + 1]]
            /\ unsynced' = u \cup {content}
            /\ doubt' = q
            /\ latest' = content
            /\ pc' = [pc EXCEPT ![c] = "ready"]
    BY DEF WalFrames, GoTo, new
<1>6. aWalData'[c] = new /\ \A e \in Conn \ {c} : aWalData'[e] = aWalData[e]
    BY <1>5 DEF Local, TypeOK
<1>7. \A e \in Conn \ {c} : Same(e)
    <2>1. \A e \in Conn \ {c} : pc'[e] = pc[e] /\ hdr'[e] = hdr[e]
        BY <1>5 DEF Local, TypeOK
    <2> QED BY <1>6, <2>1 DEF Same
<1>8. RecoversCommit'
    BY <1>5 DEF RecoversCommit
<1>9. StageInv(c)'
    BY DEF StageInv
<1>10. \A e \in Conn \ {c} : Claims(e)' => Claims(e) /\ h.nBackfill = 0 /\ dirty[e] \subseteq Cov(log, n)
    BY <1>1, <1>7 DEF Claims, ClaimInv, Same
<1>11. \A m \in Slot : m > n => m = n + 1 \/ m > n + 1
    BY <1>1, FrameNumber
<1>12. Between(new, h.nBackfill, n) = Pending(c)
    BY <1>2, <1>4 DEF Pending
<1> HIDE DEF content
<1>13. CASE pc' = [pc EXCEPT ![c] = "commit"]
    <2>1. /\ hdr' = [hdr EXCEPT ![c] = h]
          /\ doubt' = q \cup {content}
          /\ unsynced' = u
          /\ latest' = latest
        <3>1. pc' # [pc EXCEPT ![c] = "ready"]
            BY <1>13 DEF Local, TypeOK
        <3> QED BY <1>5, <3>1
    <2>2. pc'[c] = "commit" /\ hdr'[c] = h
        BY <1>13, <2>1 DEF Local, TypeOK
    <2>3. BufferInv(c)'
        <3>1. Tail(new, h, cache[c]) \subseteq {content}
            BY <1>4, <1>11 DEF Tail, content
        <3>2. Tail(aWalData'[c], hdr'[c], cache'[c]) \subseteq Allowed'
            BY <1>6, <2>1, <2>2, <3>1 DEF Allowed
        <3> QED BY <1>1, <1>3, <1>4, <1>6, <2>2, <3>2 DEF BufferInv
    <2>4. View(c)' = View(c) /\ Pending(c)' = Pending(c)
        BY <1>4, <1>6, <1>12, <2>2 DEF View, Pending
    <2>5. FileInv(c)'
        BY <1>1, <2>4 DEF FileInv
    <2>6. ReadInv(c)'
        BY <1>1, <1>5, <2>1, <2>4 DEF ReadInv
    <2>7. CkptInv(c)'
        BY <2>2 DEF CkptInv
    <2>8. \A e \in Conn \ {c} : Claims(e)' =>
               /\ hdr'[c].nBackfill = 0
               /\ dirty[e] \subseteq Cov(aWalData'[c], hdr'[c].mxFrame)
               /\ pc'[c] = "flush" => todo'[c] = dirty'[c]
        BY <1>4, <1>6, <1>10, <2>2
    <2>9. LogOK(aWalData'[c], nTx') /\ pc'[c] \in Session
        BY <1>4, <1>6, <2>2 DEF Session, Uploading
    <2> QED BY <1>1, <1>7, <1>8, <1>9, <2>3, <2>5, <2>6, <2>7, <2>8, <2>9, SessionStep
<1>14. CASE pc' = [pc EXCEPT ![c] = "ready"]
    <2>1. /\ hdr' = [hdr EXCEPT ![c] = [h EXCEPT !.mxFrame = @ + 1]]
          /\ unsynced' = u \cup {content}
          /\ latest' = content
        <3>1. pc' # [pc EXCEPT ![c] = "commit"]
            BY <1>14 DEF Local, TypeOK
        <3> QED BY <1>5, <3>1
    <2>2. pc'[c] = "ready" /\ hdr'[c] = [h EXCEPT !.mxFrame = @ + 1]
        BY <1>14, <2>1 DEF Local, TypeOK
    <2>3. hdr'[c].mxFrame = n + 1 /\ hdr'[c].nBackfill = h.nBackfill /\ hdr'[c].aSalt = h.aSalt
        BY <1>1, <2>2, NextFrame
    <2>4. BufferInv(c)'
        <3>1. Tail(aWalData'[c], hdr'[c], cache'[c]) = {}
            BY <1>4, <1>6, <2>3 DEF Tail
        <3>2. h.nBackfill <= n + 1
            BY <1>2, <1>3, Succ
        <3> QED BY <1>1, <1>4, <1>6, <2>2, <2>3, <3>1, <3>2 DEF BufferInv
    <2>5. View(c)' = content
        BY <1>6, <2>3 DEF View, content
    <2>6. Pending(c)' = Pending(c) \cup new.frames[n + 1].pages /\ Cov(new, n) \subseteq Cov(new, n + 1)
        <3>1. Between(new, h.nBackfill, n + 1) = Pending(c) \cup new.frames[n + 1].pages
            <4>1. Grown(new, h.nBackfill, n)
                BY <1>2, <1>3, BetweenGrows
            <4> QED BY <1>12, <4>1 DEF Grown
        <3>2. Cov(new, n) \subseteq Cov(new, n + 1)
            <4>1. n + 1 \in Nat /\ n \in 0..n + 1
                BY <1>2, Succ
            <4> QED BY <4>1, CovGrows
        <3> QED BY <1>6, <2>3, <3>1, <3>2 DEF Pending
    <2>7. FileInv(c)'
        <3>1. ASSUME NEW p \in Page, p \notin Pending(c)' PROVE cache[c][p] = content[p]
            <4>1. p \notin Pending(c) /\ p \notin new.frames[n + 1].pages
                BY <2>6, <3>1
            <4>2. content[p] = Replay(new, n, cache[c])[p]
                <5>1. Skipped(new, n, cache[c], p)
                    BY <1>2, <4>1, FrameSkips
                <5> QED BY <5>1 DEF Skipped, content
            <4>3. cache[c][p] = View(c)[p]
                BY <1>1, <4>1 DEF FileInv
            <4> QED BY <1>4, <4>2, <4>3 DEF View
        <3> QED BY <1>1, <2>5, <2>6, <3>1 DEF FileInv
    <2>8. ReadInv(c)'
        BY <2>1, <2>5 DEF ReadInv
    <2>9. CkptInv(c)'
        BY <2>2 DEF CkptInv
    <2>10. \A e \in Conn \ {c} : Claims(e)' =>
               /\ hdr'[c].nBackfill = 0
               /\ dirty[e] \subseteq Cov(aWalData'[c], hdr'[c].mxFrame)
               /\ pc'[c] = "flush" => todo'[c] = dirty'[c]
        BY <1>4, <1>6, <1>10, <2>2, <2>3, <2>6
    <2>11. LogOK(aWalData'[c], nTx') /\ pc'[c] \in Session
        BY <1>4, <1>6, <2>2 DEF Session
    <2> QED BY <1>1, <1>7, <1>8, <1>9, <2>4, <2>7, <2>8, <2>9, <2>10, <2>11, SessionStep
<1> QED BY <1>5, <1>13, <1>14

\* Equal logs may turn into the same contents.
LEMMA TailSame ==
    ASSUME NEW log, NEW new, NEW h, NEW g, NEW d, new.frames = log.frames, new.salt = log.salt,
           g.mxFrame = h.mxFrame
    PROVE  Tail(new, g, d) = Tail(log, h, d)
<1>1. \A m : Valid(new, m) <=> Valid(log, m)
    BY DEF Valid
<1>2. \A m : Replay(new, m, d) = Replay(log, m, d)
    BY DEF Replay
<1> QED BY <1>1, <1>2 DEF Tail

\* A new transaction preserves Core.
LEMMA CoreBegin ==
    ASSUME Local, Core, Local', NEW c \in Conn, NEW S \in SUBSET Page, Begin(c, S)
    PROVE  Core'
<1> USE DEF blobVars, fileVars
<1>1. /\ pc[c] = "ready" /\ S # {}
      /\ nTx < MaxTx /\ hdr[c].mxFrame < MaxTx /\ nTx' = nTx + 1
      /\ BeginHeader(c, S) \/ BeginFrames(c, S)
      /\ UNCHANGED <<db, holder, walBlob, staged, cache, dirty, todo, fresh, done>>
    BY BeginCases
<1>2. pc[c] \in Session /\ pc[c] \notin Uploading
    BY <1>1 DEF Session, Uploading
<1>3. /\ holder = c
      /\ BufferInv(c) /\ FileInv(c) /\ ReadInv(c) /\ StageInv(c)
      /\ \A d \in Conn : ClaimInv(c, d)
      /\ LogOK(aWalData[c], nTx)
      /\ aWalData[c] \in Log /\ hdr[c] \in Hdr /\ cache[c] \in Content
      /\ hdr[c].mxFrame \in 0..MaxTx /\ hdr[c].nBackfill \in 0..MaxTx
      /\ nTx \in Nat
    BY <1>2, InSessionFacts
<1>4. nTx' \in Nat /\ nTx <= nTx'
    BY <1>1, <1>3, Succ
<1>5. LogOK(walBlob', nTx') /\ LogOK(aWalData[c], nTx')
    <2>1. LogOK(walBlob, nTx) /\ walBlob \in Log
        BY DEF Core, Local, TypeOK
    <2> QED BY <1>1, <1>3, <1>4, <2>1, LogOKGrows
<1>6. \A i \in Slot : aWalData[c].frames[i].prev < nTx'
    <2>1. \A i \in Slot : aWalData[c].frames[i].prev \in Nat /\ aWalData[c].frames[i].prev <= nTx
        BY <1>3 DEF Log, Rec, LogOK
    <2> QED BY <1>1, <1>3, <2>1, Succ
<1>7. \A d \in Conn : Claims(d) => dirty[d] \subseteq OnDisk'
    BY <1>1 DEF Core, ConnInv, OnDisk
<1>8. dirty[c] \subseteq OnDisk' /\ Recoverable' \in Allowed
    BY <1>1, <1>3 DEF FileInv, OnDisk, Core, RecoversCommit, Recoverable, Allowed
<1>9. done'[c] = {} /\ \A d \in Conn \ {c} : done'[d] = done[d]
    BY <1>1, <1>2, <1>3 DEF StageInv
<1>10. /\ BeginHdr(c) \in Hdr
       /\ BeginHdr(c).mxFrame > 0 => BeginHdr(c) = hdr[c]
       /\ BeginSalt(c) \in Nat
    BY <1>1, BeginHdrIs
<1>11. CASE BeginFrames(c, S)
    <2>1. /\ WalFrames(c, aWalData[c], hdr[c], NewTxn(S), durable, unsynced, doubt)
          /\ txn' = txn
        BY <1>10, <1>11 DEF BeginFrames
    <2>2. NewTxn(S).tx = nTx' /\ NewTxn(S).pages # {}
        BY <1>1 DEF NewTxn
    <2>3. NewTxn(S) \in Rec
        <3>1. nTx + 1 \in Nat
            BY <1>1, <1>4
        <3> QED BY <3>1, NewRec DEF NewTxn
    <2>4. latest \in {durable} \cup unsynced /\ Recoverable' \in {durable} \cup unsynced \cup doubt
        BY <1>3, <1>8 DEF ReadInv, Allowed
    <2>5. holder' = c
        BY <1>1, <1>3
    <2> QED BY <1>1, <1>2, <1>4, <1>5, <1>6, <1>7, <1>8, <1>9, <2>1, <2>2, <2>3, <2>4, <2>5, FramesStep
<1>12. CASE BeginHeader(c, S)
    <2> DEFINE h == BeginHdr(c)
               salt == BeginSalt(c)
               log == aWalData[c]
    <2>1. h.mxFrame = 0 /\ h.nBackfill = 0 /\ hdr[c].nBackfill = hdr[c].mxFrame
          /\ (h.aSalt # 0 => h = hdr[c])
        <3>1. CASE hdr[c].nBackfill = hdr[c].mxFrame /\ hdr[c].mxFrame > 0
            <4>1. h = Restarted(hdr[c])
                BY <3>1 DEF BeginHdr
            <4>2. h.mxFrame = 0 /\ h.nBackfill = 0 /\ h.aSalt = 0
                BY <1>3, <4>1, RestartedIs
            <4> QED BY <3>1, <4>2
        <3>2. CASE ~(hdr[c].nBackfill = hdr[c].mxFrame /\ hdr[c].mxFrame > 0)
            <4>1. h = hdr[c]
                BY <3>2 DEF BeginHdr
            <4>2. hdr[c].mxFrame = 0
                BY <1>12, <4>1 DEF BeginHeader
            <4>3. hdr[c].nBackfill = 0
                BY <1>3, <4>2, FrameNumber DEF BufferInv
            <4> QED BY <4>1, <4>2, <4>3
        <3> QED BY <3>1, <3>2
    <2>2. Pending(c) = {} /\ dirty[c] = {} /\ cache[c] = View(c) /\ cache[c] = db
        BY <1>2, <2>1, NonePending
    <2> DEFINE new == Salted(log, salt, h.nCkpt)
    <2>3. new.salt = salt /\ new.frames = log.frames
        <3>1. h.nCkpt \in BOOLEAN
            BY <1>10 DEF Hdr
        <3> QED BY <1>3, <1>10, <3>1, SaltedIs
    <2>4. aWalData' = [aWalData EXCEPT ![c] = new]
        BY <1>12 DEF BeginHeader, Salted, Local, TypeOK
    <2>5. /\ hdr' = [hdr EXCEPT ![c] = [h EXCEPT !.aSalt = salt]]
          /\ txn' = [txn EXCEPT ![c] = NewTxn(S)]
          /\ pc' = [pc EXCEPT ![c] = "header"]
          /\ UNCHANGED <<latest, durable, unsynced, doubt>>
        BY <1>12 DEF BeginHeader, GoTo, histVars
    <2>6. [h EXCEPT !.aSalt = salt].mxFrame = 0 /\ [h EXCEPT !.aSalt = salt].nBackfill = 0
          /\ [h EXCEPT !.aSalt = salt].aSalt = salt
        BY <1>10, <2>1, SMT DEF Hdr
    <2>7. salt = nTx' \/ (salt = log.salt /\ hdr[c].mxFrame = 0)
        BY <1>1, <1>3, <2>1 DEF BeginSalt, BufferInv
    <2> HIDE DEF new, h, salt
    <2>8. /\ aWalData'[c] = new /\ pc'[c] = "header" /\ txn'[c] = NewTxn(S)
          /\ hdr'[c].mxFrame = 0 /\ hdr'[c].nBackfill = 0 /\ hdr'[c].aSalt = salt
        BY <2>4, <2>5, <2>6 DEF Local, TypeOK
    <2>9. \A d \in Conn \ {c} : /\ aWalData'[d] = aWalData[d] /\ pc'[d] = pc[d]
                                /\ hdr'[d] = hdr[d] /\ txn'[d] = txn[d]
        BY <2>4, <2>5 DEF Local, TypeOK
    <2>10. \A d \in Conn \ {c} : Same(d)
        BY <1>1, <1>9, <2>9 DEF Same
    <2>11. View(c)' = cache[c]
        <3>1. Replay(new, 0, cache[c]) = cache[c]
            BY <1>3, ReplayNone
        <3> QED BY <1>1, <2>8, <3>1 DEF View
    <2>12. Tail(aWalData'[c], hdr'[c], cache'[c]) \subseteq Allowed'
        <3>1. CASE salt = nTx'
            <4>1. \A m \in Slot : ~ Valid(new, m)
                BY <1>4, <1>6, <2>3, <3>1, TailRestarts
            <4> QED BY <2>8, <4>1 DEF Tail
        <3>2. CASE salt = log.salt /\ hdr[c].mxFrame = 0
            <4>1. Tail(new, hdr'[c], cache[c]) = Tail(log, hdr[c], cache[c])
                <5>1. new.frames = log.frames /\ new.salt = log.salt
                    BY <2>3, <3>2
                <5>2. hdr'[c].mxFrame = hdr[c].mxFrame
                    BY <2>8, <3>2
                <5> QED BY <5>1, <5>2, TailSame, SMT
            <4> QED BY <1>1, <1>3, <2>5, <2>8, <4>1 DEF BufferInv, Allowed
        <3> QED BY <2>7, <3>1, <3>2
    <2>13. BufferInv(c)'
        <3>1. Valid(new, 0) /\ 0 <= 0
            <4>1. 1..0 = {} /\ 0 <= 0
                BY SMT
            <4> QED BY <4>1 DEF Valid
        <3>2. NewTxn(S).tx = nTx' /\ NewTxn(S).pages # {}
            BY <1>1 DEF NewTxn
        <3>3. \A i \in Slot : new.frames[i].prev < nTx'
            BY <1>6, <2>3
        <3> QED BY <2>3, <2>8, <2>12, <3>1, <3>2, <3>3 DEF BufferInv
    <2>14. FileInv(c)' /\ ReadInv(c)'
        BY <1>1, <1>3, <2>2, <2>5, <2>11 DEF FileInv, ReadInv
    <2>15. CkptInv(c)' /\ StageInv(c)'
        BY <1>9, <2>8 DEF CkptInv, StageInv
    <2>16. ASSUME NEW d \in Conn \ {c}, Claims(d)'
           PROVE  /\ hdr'[c].nBackfill = 0
                  /\ dirty[d] \subseteq Cov(aWalData'[c], hdr'[c].mxFrame)
                  /\ pc'[c] = "flush" => todo'[c] = dirty'[c]
        <3>1. Claims(d)
            BY <2>10, <2>16 DEF Claims, Same
        <3>2. hdr[c].mxFrame = 0 /\ dirty[d] \subseteq Cov(log, hdr[c].mxFrame)
            BY <1>3, <2>1, <3>1 DEF ClaimInv
        <3>3. dirty[d] = {}
            BY <3>2, CovNone
        <3> QED BY <2>8, <3>3
    <2>17. LogOK(aWalData'[c], nTx')
        <3>1. salt <= nTx'
            BY <1>4, <1>5, <2>7, Succ DEF LogOK
        <3> QED BY <1>5, <2>3, <2>8, <3>1 DEF LogOK
    <2>18. RecoversCommit'
        BY <1>8, <2>5 DEF RecoversCommit, Allowed
    <2>19. holder' = c /\ pc'[c] \in Session
        BY <1>1, <1>3, <2>8 DEF Session, Uploading
    <2> QED BY <1>3, <1>4, <1>5, <1>7, <2>10, <2>13, <2>14, <2>15, <2>16, <2>17, <2>18, <2>19, SessionStep
<1> QED BY <1>1, <1>11, <1>12

\* What holds of every upload that succeeds.
Sent(c) ==
    /\ walBlob' = aWalData[c]
    /\ UNCHANGED <<db, holder, fresh, nTx>>
    /\ done'[c] = {}
    /\ \A d \in Conn \ {c} : done'[d] = done[d] /\ txn'[d] = txn[d]
    /\ LogOK(walBlob', nTx')
    /\ nTx <= nTx'
    /\ holder' = c
    /\ Cov(aWalData[c], hdr[c].mxFrame) \subseteq OnDisk'
    /\ dirty[c] \subseteq OnDisk'
    /\ \A d \in Conn \ {c} : Claims(d) => dirty[d] \subseteq OnDisk'
    /\ Recoverable' \in {View(c)} \cup Tail(aWalData[c], hdr[c], cache[c])

\* An upload puts the buffer into the blob, by Put Blob or Put Block List.
LEMMA UploadSends ==
    ASSUME Local, Core, NEW c \in Conn, Upload(c)
    PROVE  pc[c] \in Session /\ Synced(c) /\ Sent(c)
<1>1. pc[c] \in Uploading /\ pc[c] \in Session /\ Synced(c) /\ (PutBlob(c) \/ PutBlockList(c))
    BY DEF Upload, Session
<1>2. /\ holder = c /\ StageInv(c)
      /\ \A d \in Conn : ClaimInv(c, d)
      /\ LogOK(aWalData[c], nTx) /\ nTx \in Nat
    BY <1>1, InSessionFacts
<1>3. UNCHANGED <<db, holder, fresh, nTx>>
    BY DEF Upload
<1>4. walBlob' = aWalData[c]
    BY <1>1, <1>2, Uploaded DEF Local
<1>5. done'[c] = {} /\ \A d \in Conn \ {c} : done'[d] = done[d] /\ txn'[d] = txn[d]
    BY DEF Upload, Local, TypeOK
<1>6. nTx <= nTx'
    BY <1>2, <1>3, SMT
<1>7. /\ Cov(aWalData[c], hdr[c].mxFrame) \subseteq OnDisk'
      /\ Recoverable' \in {View(c)} \cup Tail(aWalData[c], hdr[c], cache[c])
    BY <1>1, <1>3, <1>4, BufferRecovers DEF OnDisk, Recoverable
<1>8. dirty[c] \subseteq OnDisk'
    BY <1>1, <1>7, BelowLog
<1>9. \A d \in Conn \ {c} : Claims(d) => dirty[d] \subseteq OnDisk'
    BY <1>2, <1>7 DEF ClaimInv
<1> QED BY <1>1, <1>2, <1>3, <1>4, <1>5, <1>6, <1>7, <1>8, <1>9 DEF Sent

\* The upload of a header preserves Core: its salt makes all frames invalid.
LEMMA CoreHeaderSynced ==
    ASSUME Local, Core, Local', NEW c \in Conn, Upload(c), pc[c] = "header"
    PROVE  Core'
<1>1. pc[c] \in Session /\ Synced(c) /\ Sent(c)
    BY UploadSends
<1> DEFINE tail == Tail(aWalData[c], hdr[c], cache[c])
           d == View(c)
<1>2. /\ WalFrames(c, aWalData[c], hdr[c], txn[c], d, {}, tail)
      /\ UNCHANGED <<cache, dirty, todo>>
    BY <1>1 DEF Synced
<1>3. /\ BufferInv(c) /\ ReadInv(c) /\ LogOK(aWalData[c], nTx)
    BY <1>1, InSessionFacts
<1>4. /\ txn[c].tx = nTx' /\ txn[c].pages # {}
      /\ \A i \in Slot : aWalData[c].frames[i].prev < nTx'
    BY <1>1, <1>3 DEF BufferInv, Sent
<1>5. txn[c] \in Rec
    BY DEF Local, TypeOK
<1>6. hdr[c].mxFrame < MaxTx
    BY BoundsAssumption, SMT DEF Local, Framing
<1>7. latest \in {d} \cup {} /\ Recoverable' \in {d} \cup {} \cup tail
    BY <1>1, <1>3 DEF ReadInv, Sent
<1>8. LogOK(aWalData[c], nTx')
    BY <1>1, <1>3 DEF Sent
<1>9. UNCHANGED <<db, cache, dirty, todo, fresh>>
    BY <1>1, <1>2 DEF Sent
<1>10. /\ holder' = c /\ nTx <= nTx' /\ done'[c] = {}
       /\ \A e \in Conn \ {c} : txn'[e] = txn[e] /\ done'[e] = done[e]
       /\ LogOK(walBlob', nTx') /\ dirty[c] \subseteq OnDisk'
       /\ \A e \in Conn \ {c} : Claims(e) => dirty[e] \subseteq OnDisk'
    BY <1>1 DEF Sent
<1> HIDE DEF tail, d
<1> QED BY <1>1, <1>2, <1>4, <1>5, <1>6, <1>7, <1>8, <1>9, <1>10, FramesStep

\* The upload of a commit preserves Core: it becomes what recovery finds.
LEMMA CoreCommitSynced ==
    ASSUME Local, Core, Local', NEW c \in Conn, Upload(c), pc[c] = "commit"
    PROVE  Core'
<1> DEFINE log == aWalData[c]
           h == hdr[c]
           n == h.mxFrame
           content == Replay(log, n + 1, cache[c])
<1>1. pc[c] \in Session /\ Synced(c) /\ Sent(c)
    BY UploadSends
<1>2. /\ hdr' = [hdr EXCEPT ![c] = [h EXCEPT !.mxFrame = @ + 1]]
      /\ latest' = content /\ durable' = content /\ unsynced' = {} /\ doubt' = {}
      /\ pc' = [pc EXCEPT ![c] = "ready"]
      /\ UNCHANGED <<cache, dirty, todo, aWalData>>
    BY <1>1 DEF Synced, GoTo, Local, TypeOK
<1>3. /\ holder = c
      /\ BufferInv(c) /\ FileInv(c) /\ \A d \in Conn : ClaimInv(c, d)
      /\ LogOK(log, nTx) /\ h \in Hdr /\ n \in 0..MaxTx /\ h.nBackfill \in 0..MaxTx /\ nTx \in Nat
    BY <1>1, InSessionFacts
<1>4. n < MaxTx
    BY DEF Local, Framing
<1>5. /\ Valid(log, n + 1) /\ log.frames[n + 1].tx = nTx /\ h.nBackfill <= n
      /\ \A i \in Slot \ {n + 1} : log.frames[i].prev < nTx
    BY <1>3 DEF BufferInv
<1>6. n \in Nat /\ h.nBackfill \in Nat /\ n + 1 \in Nat /\ n \in 0..n + 1 /\ h.nBackfill <= n + 1
    BY <1>3, <1>5, BoundsAssumption, SMT
<1>7. \A m \in Slot : m > n + 1 => ~ Valid(log, m)
    BY <1>3, <1>5, <1>6, TailStops
<1>8. /\ pc'[c] = "ready" /\ hdr'[c] = [h EXCEPT !.mxFrame = @ + 1]
      /\ \A d \in Conn \ {c} : pc'[d] = pc[d] /\ hdr'[d] = hdr[d]
    BY <1>2 DEF Local, TypeOK
<1>9. hdr'[c].mxFrame = n + 1 /\ hdr'[c].nBackfill = h.nBackfill /\ hdr'[c].aSalt = h.aSalt
    BY <1>3, <1>4, <1>8, NextFrame
<1>10. \A d \in Conn \ {c} : Same(d)
    BY <1>1, <1>2, <1>8 DEF Same, Sent
<1>11. View(c)' = content
    BY <1>2, <1>9 DEF View
<1>12. Cov(log, n) \subseteq Cov(log, n + 1)
    BY <1>6, CovGrows
<1>13. Pending(c)' = Pending(c) \cup log.frames[n + 1].pages
    <2> DEFINE b == h.nBackfill
    <2>1. b \in Nat /\ n \in Nat /\ b <= n
        BY <1>5, <1>6
    <2> HIDE DEF log, n, b
    <2>2. Grown(log, b, n)
        BY <2>1, BetweenGrows
    <2> QED BY <1>2, <1>9, <2>2 DEF Pending, Grown, log, n, b
<1>14. BufferInv(c)'
    <2>1. Tail(aWalData'[c], hdr'[c], cache'[c]) = {}
        BY <1>2, <1>7, <1>9 DEF Tail
    <2> QED BY <1>2, <1>3, <1>5, <1>6, <1>8, <1>9, <2>1 DEF BufferInv
<1>15. FileInv(c)'
    <2>1. ASSUME NEW p \in Page, p \notin Pending(c)' PROVE cache[c][p] = content[p]
        <3>1. p \notin Pending(c) /\ p \notin log.frames[n + 1].pages
            BY <1>13, <2>1
        <3>2. content[p] = Replay(log, n, cache[c])[p]
            <4>1. Skipped(log, n, cache[c], p)
                BY <1>6, <3>1, FrameSkips
            <4> QED BY <4>1 DEF Skipped
        <3>3. cache[c][p] = View(c)[p]
            BY <1>3, <3>1 DEF FileInv
        <3> QED BY <3>2, <3>3 DEF View
    <2>2. UNCHANGED db /\ dirty[c] \subseteq OnDisk'
        BY <1>1 DEF Sent
    <2> HIDE DEF content
    <2> QED BY <1>2, <1>3, <1>11, <1>13, <2>1, <2>2 DEF FileInv
<1>16. ReadInv(c)' /\ CkptInv(c)'
    BY <1>2, <1>8, <1>11 DEF ReadInv, CkptInv
<1>17. StageInv(c)'
    BY <1>1 DEF Sent, StageInv
<1>18. RecoversCommit'
    <2> DEFINE k == [h EXCEPT !.mxFrame = @ + 1]
    <2>1. k.mxFrame = n + 1
        BY <1>8, <1>9
    <2>2. n + 1 \in 0..MaxTx
        BY <1>3, <1>4, BoundsAssumption, SMT
    <2>3. \A p \in Page \ Cov(log, n + 1) : db[p] = cache[c][p]
        BY <1>1, <1>12, BelowLog
    <2>4. Tail(log, k, cache[c]) = {}
        BY <1>7, <2>1 DEF Tail
    <2> DEFINE e == cache[c]
    <2> HIDE DEF k, n, e, log
    <2>5. Replay(log, Committed(log), db) \in {Replay(log, k.mxFrame, e)} \cup Tail(log, k, e)
        BY <1>5, <2>1, <2>2, <2>3, LogRecovers DEF e
    <2>6. Recoverable' = content
        BY <1>1, <2>1, <2>4, <2>5 DEF Recoverable, Sent, e, log
    <2> QED BY <1>2, <2>6 DEF RecoversCommit
<1>19. \A d \in Conn \ {c} : Claims(d)' =>
               /\ hdr'[c].nBackfill = 0
               /\ dirty[d] \subseteq Cov(aWalData'[c], hdr'[c].mxFrame)
               /\ pc'[c] = "flush" => todo'[c] = dirty'[c]
    <2>1. \A d \in Conn \ {c} : Claims(d)' => Claims(d)
        BY <1>10 DEF Claims, Same
    <2> QED BY <1>2, <1>3, <1>8, <1>9, <1>12, <2>1 DEF ClaimInv
<1>20. LogOK(aWalData'[c], nTx') /\ pc'[c] \in Session
    BY <1>1, <1>2, <1>3, <1>8 DEF Sent, Session
<1>21. /\ nTx <= nTx' /\ LogOK(walBlob', nTx') /\ holder' = c
       /\ \A d \in Conn \ {c} : Claims(d) => dirty[d] \subseteq OnDisk'
    BY <1>1 DEF Sent
<1> QED BY <1>3, <1>10, <1>14, <1>15, <1>16, <1>17, <1>18, <1>19, <1>20, <1>21, SessionStep

\* The upload before a checkpoint preserves Core.
LEMMA CoreCheckpointSynced ==
    ASSUME Local, Core, Local', NEW c \in Conn, Upload(c), pc[c] = "ckpt"
    PROVE  Core'
<1> DEFINE log == aWalData[c]
           h == hdr[c]
           n == h.mxFrame
           tail == Tail(log, h, cache[c])
<1>1. pc[c] \in Session /\ Synced(c) /\ Sent(c)
    BY UploadSends
<1>2. /\ cache' = [cache EXCEPT ![c] = View(c)]
      /\ dirty' = [dirty EXCEPT ![c] = @ \cup Pending(c)]
      /\ todo' = [todo EXCEPT ![c] = dirty'[c]]
      /\ durable' = View(c) /\ unsynced' = {} /\ doubt' = tail
      /\ pc' = [pc EXCEPT ![c] = "flush"]
      /\ UNCHANGED <<aWalData, hdr, latest>>
    BY <1>1 DEF Synced, GoTo, Pending, Between
<1>3. /\ holder = c
      /\ BufferInv(c) /\ FileInv(c) /\ ReadInv(c) /\ CkptInv(c) /\ \A d \in Conn : ClaimInv(c, d)
      /\ LogOK(log, nTx) /\ n \in 0..MaxTx /\ h.nBackfill \in 0..MaxTx /\ nTx \in Nat
    BY <1>1, InSessionFacts
<1>4. n \in Nat /\ h.nBackfill \in Nat
    BY <1>3, BoundsAssumption, SMT
<1>5. /\ pc'[c] = "flush" /\ cache'[c] = View(c)
      /\ dirty'[c] = dirty[c] \cup Pending(c) /\ todo'[c] = dirty'[c]
    BY <1>2 DEF Local, TypeOK
<1>6. \A d \in Conn \ {c} : /\ pc'[d] = pc[d] /\ cache'[d] = cache[d]
                            /\ dirty'[d] = dirty[d] /\ todo'[d] = todo[d]
    BY <1>2 DEF Local, TypeOK
<1>7. \A d \in Conn \ {c} : Same(d)
    BY <1>1, <1>2, <1>6 DEF Same, Sent
<1>8. dirty'[c] = Pending(c)
    BY <1>3, <1>5 DEF FileInv
<1>9. Pending(c)' = Pending(c)
    BY <1>2 DEF Pending
<1> DEFINE v == View(c)
           e == cache[c]
<1>10. v = Replay(log, n, e)
    BY DEF View
<1>11. View(c)' = View(c)
    <2>1. Replay(log, n, v) = Replay(log, n, e)
        <3>1. n \in 0..n
            BY <1>4, SMT
        <3> HIDE DEF e, log, n, v
        <3> QED BY <1>4, <1>10, <3>1, ReplayTwice
    <2> QED BY <1>2, <1>5, <1>10, <2>1 DEF View
<1>12. Tail(log, h, v) = tail
    <2>1. ASSUME NEW m \in Slot, m > n PROVE Replay(log, m, v) = Replay(log, m, e)
        <3>1. m \in Nat /\ n \in 0..m
            BY <1>4, <2>1, BoundsAssumption, SMT DEF Slot
        <3> HIDE DEF e, log, n, v
        <3> QED BY <1>10, <3>1, ReplayTwice
    <2> QED BY <2>1 DEF Tail
<1>13. BufferInv(c)'
    <2>1. Tail(aWalData'[c], hdr'[c], cache'[c]) \subseteq Allowed'
        BY <1>2, <1>5, <1>12 DEF Allowed
    <2> QED BY <1>2, <1>3, <1>5, <2>1 DEF BufferInv
<1>14. \A p \in Page \ Pending(c) : View(c)[p] = db[p]
    BY <1>3 DEF FileInv
<1>15. Pending(c) \subseteq OnDisk'
    <2>1. Pending(c) \subseteq Cov(log, n)
        BY <1>4, BetweenIs DEF Pending
    <2> QED BY <1>1, <2>1 DEF Sent
<1>16. FileInv(c)'
    <2>1. UNCHANGED db
        BY <1>1 DEF Sent
    <2>2. cache'[c] = View(c)'
        BY <1>5, <1>11
    <2> QED BY <1>5, <1>8, <1>9, <1>14, <1>15, <2>1, <2>2 DEF FileInv
<1>17. ReadInv(c)'
    BY <1>2, <1>3, <1>11 DEF ReadInv
<1>18. Pending(c) # {}
    <2>1. h.nBackfill < n
        BY <1>3 DEF CkptInv
    <2>2. n \in h.nBackfill + 1..n /\ n \in Slot /\ n \in 1..n
        BY <1>3, <1>4, <2>1, BoundsAssumption, SMT DEF Slot
    <2>3. log.frames[n] # NoRec
        BY <1>3, <2>2 DEF BufferInv, Valid
    <2>4. log.frames[n].pages # {}
        BY <1>3, <2>2, <2>3 DEF LogOK
    <2> QED BY <2>2, <2>4 DEF Pending, Between
<1>19. CkptInv(c)'
    <2>1. h.nBackfill < n
        BY <1>3 DEF CkptInv
    <2>2. walBlob' = aWalData'[c]
        BY <1>1, <1>2 DEF Sent
    <2> QED BY <1>2, <1>5, <1>8, <1>11, <1>18, <2>1, <2>2 DEF CkptInv
<1>20. StageInv(c)'
    BY <1>1 DEF Sent, StageInv
<1>21. RecoversCommit'
    BY <1>1, <1>2 DEF Sent, RecoversCommit
<1>22. \A d \in Conn \ {c} : Claims(d)' =>
               /\ hdr'[c].nBackfill = 0
               /\ dirty[d] \subseteq Cov(aWalData'[c], hdr'[c].mxFrame)
               /\ pc'[c] = "flush" => todo'[c] = dirty'[c]
    <2>1. \A d \in Conn \ {c} : Claims(d)' => Claims(d)
        BY <1>7 DEF Claims, Same
    <2> QED BY <1>2, <1>3, <1>5, <2>1 DEF ClaimInv
<1>23. LogOK(aWalData'[c], nTx') /\ pc'[c] \in Session
    BY <1>1, <1>2, <1>3, <1>5 DEF Sent, Session
<1>24. /\ nTx <= nTx' /\ LogOK(walBlob', nTx') /\ holder' = c
       /\ \A d \in Conn \ {c} : Claims(d) => dirty[d] \subseteq OnDisk'
    BY <1>1 DEF Sent
<1> QED BY <1>3, <1>7, <1>13, <1>16, <1>17, <1>19, <1>20, <1>21, <1>22, <1>23, <1>24, SessionStep

\* The upload of xClose preserves Core.
LEMMA CoreCloseSynced ==
    ASSUME Local, Core, Local', NEW c \in Conn, Upload(c), pc[c] = "close"
    PROVE  Core'
<1> DEFINE tail == Tail(aWalData[c], hdr[c], cache[c])
<1>1. pc[c] \in Session /\ Synced(c) /\ Sent(c)
    BY UploadSends
<1>2. PICK s \in {"delete", "unlock"} :
            /\ pc' = [pc EXCEPT ![c] = s]
            /\ s = "delete" => hdr[c].nBackfill = hdr[c].mxFrame
    BY <1>1 DEF Synced, GoTo
<1>3. /\ durable' = View(c) /\ unsynced' = {} /\ doubt' = tail
      /\ UNCHANGED <<cache, dirty, todo, aWalData, hdr, latest>>
    BY <1>1 DEF Synced
<1>4. /\ holder = c
      /\ BufferInv(c) /\ FileInv(c) /\ ReadInv(c) /\ \A d \in Conn : ClaimInv(c, d)
      /\ LogOK(aWalData[c], nTx)
    BY <1>1, InSessionFacts
<1>5. pc'[c] = s /\ \A d \in Conn \ {c} : pc'[d] = pc[d]
    BY <1>2 DEF Local, TypeOK
<1>6. \A d \in Conn \ {c} : Same(d)
    BY <1>1, <1>3, <1>5 DEF Same, Sent
<1>7. s \in Session /\ s \notin {"header", "commit", "ckpt", "flush"}
    BY DEF Session, Uploading
<1>8. BufferInv(c)'
    BY <1>3, <1>4, <1>5, <1>7 DEF BufferInv, Allowed
<1>9. FileInv(c)'
    <2>1. UNCHANGED db /\ dirty[c] \subseteq OnDisk'
        BY <1>1 DEF Sent
    <2>2. View(c)' = View(c) /\ Pending(c)' = Pending(c)
        BY <1>3 DEF View, Pending
    <2> QED BY <1>3, <1>4, <2>1, <2>2 DEF FileInv
<1>10. ReadInv(c)'
    BY <1>3, <1>4 DEF ReadInv, View
<1>11. CkptInv(c)'
    BY <1>2, <1>3, <1>5, <1>7 DEF CkptInv
<1>12. StageInv(c)'
    BY <1>1 DEF Sent, StageInv
<1>13. RecoversCommit'
    BY <1>1, <1>3 DEF Sent, RecoversCommit
<1>14. \A d \in Conn \ {c} : Claims(d)' =>
               /\ hdr'[c].nBackfill = 0
               /\ dirty[d] \subseteq Cov(aWalData'[c], hdr'[c].mxFrame)
               /\ pc'[c] = "flush" => todo'[c] = dirty'[c]
    <2>1. \A d \in Conn \ {c} : Claims(d)' => Claims(d)
        BY <1>6 DEF Claims, Same
    <2> QED BY <1>3, <1>4, <1>5, <1>7, <2>1 DEF ClaimInv
<1>15. LogOK(aWalData'[c], nTx') /\ pc'[c] \in Session
    BY <1>1, <1>3, <1>4, <1>5, <1>7 DEF Sent
<1>16. /\ nTx <= nTx' /\ LogOK(walBlob', nTx') /\ holder' = c
       /\ \A d \in Conn \ {c} : Claims(d) => dirty[d] \subseteq OnDisk'
    BY <1>1 DEF Sent
<1> QED BY <1>4, <1>6, <1>8, <1>9, <1>10, <1>11, <1>12, <1>13, <1>14, <1>15, <1>16, SessionStep

-----------------------------------------------------------------------------
(* Steps that change neither a blob nor the history. *)

Quiet == UNCHANGED <<db, walBlob, staged, latest, durable, unsynced, doubt, nTx>>

\* A connection that such a step does not touch, in a session or not.
LEMMA Bystander ==
    ASSUME NEW d \in Conn, ConnInv(d), Same(d), Quiet, holder = d <=> holder' = d,
           \A e \in Conn : Claims(e)' => Claims(e) /\ dirty'[e] = dirty[e]
    PROVE  ConnInv(d)'
<1>1. /\ pc'[d] = pc[d] /\ cache'[d] = cache[d] /\ dirty'[d] = dirty[d] /\ todo'[d] = todo[d]
      /\ aWalData'[d] = aWalData[d] /\ hdr'[d] = hdr[d] /\ txn'[d] = txn[d] /\ done'[d] = done[d]
    BY DEF Same
<1>2. OnDisk' = OnDisk /\ Allowed' = Allowed /\ View(d)' = View(d) /\ Pending(d)' = Pending(d)
    BY <1>1 DEF Quiet, OnDisk, Allowed, View, Pending
<1>3. ASSUME InSession(d) PROVE SessionInv(d)'
    <2>1. BufferInv(d) /\ FileInv(d) /\ ReadInv(d) /\ CkptInv(d) /\ \A e \in Conn : ClaimInv(d, e)
        BY <1>3 DEF ConnInv, SessionInv
    <2>2. BufferInv(d)'
        BY <1>1, <1>2, <2>1 DEF BufferInv, Quiet
    <2>3. FileInv(d)'
        BY <1>1, <1>2, <2>1 DEF FileInv, Quiet
    <2>4. ReadInv(d)'
        BY <1>2, <2>1 DEF ReadInv, Quiet
    <2>5. CkptInv(d)'
        BY <1>1, <1>2, <2>1 DEF CkptInv, Quiet
    <2>6. \A e \in Conn : ClaimInv(d, e)'
        BY <1>1, <2>1 DEF ClaimInv
    <2> QED BY <2>2, <2>3, <2>4, <2>5, <2>6 DEF SessionInv
<1>4. InSession(d)' = InSession(d)
    BY <1>1 DEF InSession
<1>5. OpenInv(d)'
    BY <1>1 DEF ConnInv, OpenInv, Quiet
<1>6. StageInv(d)'
    BY <1>1 DEF ConnInv, StageInv, Quiet
<1>7. Claims(d)' => dirty'[d] \subseteq OnDisk'
    BY <1>1, <1>2 DEF ConnInv
<1> QED BY <1>1, <1>3, <1>4, <1>5, <1>6, <1>7 DEF ConnInv

\* A step of one connection that writes no blob and claims no page.
LEMMA QuietStep ==
    ASSUME Local, Core, NEW c \in Conn, Quiet, ConnInv(c)', ~ Claims(c)',
           \A d \in Conn \ {c} : Same(d) /\ (holder = d <=> holder' = d),
           LogOK(aWalData'[c], nTx)
    PROVE  Core'
<1>1. LogOK(walBlob', nTx') /\ RecoversCommit' /\ nTx' = nTx
    BY DEF Core, Quiet, RecoversCommit, Recoverable
<1>2. \A d \in Conn : LogOK(aWalData'[d], nTx')
    BY <1>1 DEF Core, Same
<1>3. \A e \in Conn : Claims(e)' => Claims(e) /\ dirty'[e] = dirty[e]
    BY DEF Claims, Same
<1>4. ASSUME NEW d \in Conn PROVE ConnInv(d)'
    <2>1. CASE d # c
        <3>1. Same(d) /\ (holder = d <=> holder' = d) /\ ConnInv(d)
            BY <2>1 DEF Core
        <3> QED BY <1>3, <3>1, Bystander
    <2> QED BY <2>1
<1> QED BY <1>1, <1>2, <1>4 DEF Core

\* LockShared, Access and Lock: on the way to a session.
LEMMA CoreOpening ==
    ASSUME Local, Core, NEW c \in Conn, LockShared(c) \/ Access(c) \/ Lock(c)
    PROVE  Core'
<1> USE DEF blobVars, walVars, histVars
<1>1. /\ Quiet /\ UNCHANGED <<dirty, todo, aWalData, hdr, txn, done>>
    BY DEF LockShared, Access, Lock, Quiet
<1>2. PICK s \in {"access", "lock", "get"} : pc' = [pc EXCEPT ![c] = s]
    BY DEF LockShared, Access, Lock, GoTo
<1>3. pc[c] \in {"idle", "access", "lock"} /\ ConnInv(c) /\ dirty[c] = {} /\ done[c] = {}
    BY DEF LockShared, Access, Lock, Core, ConnInv, OpenInv, StageInv, Uploading
<1>4. pc'[c] = s /\ \A d \in Conn \ {c} : pc'[d] = pc[d]
    BY <1>2 DEF Local, TypeOK
<1>5. /\ cache' \in {cache, [cache EXCEPT ![c] = db]}
      /\ fresh' \in {fresh, fresh \cup {c}}
      /\ holder' = holder \/ (holder = NoLease /\ holder' = c)
    BY DEF LockShared, Access, Lock
<1>6. \A d \in Conn \ {c} : cache'[d] = cache[d] /\ (d \in fresh' => d \in fresh)
    BY <1>5 DEF Local, TypeOK
<1>7. \A d \in Conn \ {c} : Same(d)
    BY <1>1, <1>4, <1>6 DEF Same
<1>8. \A d \in Conn \ {c} : holder = d <=> holder' = d
    BY <1>5, ConnAssumption
<1>9. /\ holder' = c => cache'[c] = db
      /\ s = "get" => holder' = c
    <2>1. CASE LockShared(c)
        BY <1>4, <2>1 DEF LockShared, GoTo, Local, TypeOK
    <2>2. CASE Access(c)
        <3>1. holder = c => cache[c] = db
            BY <1>3, <2>2 DEF Access, ConnInv, OpenInv
        <3> QED BY <1>4, <2>2, <3>1 DEF Access, GoTo, Local, TypeOK
    <2>3. CASE Lock(c)
        <3>1. holder = c => cache[c] = db
            BY <1>3, <2>3 DEF Lock, ConnInv, OpenInv
        <3> QED BY <1>4, <2>3, <3>1 DEF Lock, GoTo, Local, TypeOK
    <2> QED BY <2>1, <2>2, <2>3
<1>10. pc'[c] \notin Session /\ pc'[c] \notin Uploading /\ ~ Claims(c)'
    BY <1>4 DEF Session, Uploading, Claims
<1>11. ConnInv(c)'
    <2>1. OpenInv(c)'
        BY <1>1, <1>3, <1>9 DEF OpenInv, Quiet
    <2>2. StageInv(c)'
        BY <1>1, <1>3 DEF StageInv
    <2> QED BY <1>4, <1>9, <1>10, <2>1, <2>2 DEF ConnInv, InSession
<1>12. LogOK(aWalData'[c], nTx)
    BY <1>1 DEF Core
<1> QED BY <1>1, <1>7, <1>8, <1>10, <1>11, <1>12, QuietStep

\* A connection closes its files without a write, or dies.
LEMMA CoreGone ==
    ASSUME Local, Core, NEW c \in Conn, Gone(c), Quiet, fresh' = fresh \ {c},
           \A d \in Conn \ {c} : holder = d <=> holder' = d
    PROVE  Core'
<1>1. \A d \in Conn \ {c} : Same(d)
    BY GoneFacts DEF Same
<1>2. ConnInv(c)' /\ pc'[c] = "idle" /\ aWalData'[c] = NoLog
    BY GoneFacts
<1>3. ~ Claims(c)'
    BY <1>2 DEF Claims
<1>4. LogOK(aWalData'[c], nTx)
    <2>1. nTx \in Nat
        BY BoundsAssumption, SMT DEF Local, TypeOK
    <2> QED BY <1>2, <2>1, EmptyLogOK
<1> QED BY <1>1, <1>2, <1>3, <1>4, QuietStep

\* A connection that gives up or dies preserves Core.
LEMMA CoreLeaves ==
    ASSUME Local, Core, NEW c \in Conn, Quit(c) \/ Crash(c)
    PROVE  Core'
<1>1. Quiet /\ Gone(c) /\ fresh' = fresh \ {c}
    BY DEF Quit, Crash, Quiet, histVars
<1>2. \A d \in Conn \ {c} : holder = d <=> holder' = d
    BY ConnAssumption DEF Quit, Crash, Release
<1> QED BY <1>1, <1>2, CoreGone

\* The write of xClose lands on pages that the log in the blob has too.
LEMMA CoreCloseDb ==
    ASSUME Local, Core, NEW c \in Conn, CloseDb(c)
    PROVE  Core'
<1> USE DEF histVars
<1>1. pc[c] = "closeDb" /\ Gone(c) /\ UNCHANGED <<holder, walBlob, staged, latest, durable, unsynced, doubt, nTx>>
    BY DEF CloseDb
<1>2. CASE fresh' = fresh \ {c} /\ UNCHANGED db
    BY <1>1, <1>2, CoreGone DEF Quiet
<1>3. ASSUME c \in fresh, holder = NoLease, fresh' = {}, NEW P \in SUBSET dirty[c],
             db' = [p \in Page |-> IF p \in P THEN cache[c][p] ELSE db[p]]
      PROVE  Core'
    <2>1. dirty[c] \subseteq OnDisk
        BY <1>1, <1>3 DEF Core, ConnInv, Claims
    <2>2. \A p \in Page \ dirty[c] : db'[p] = db[p]
        BY <1>3
    <2>3. RecoversCommit'
        BY <1>1, <2>1, <2>2, DiskHides DEF Core
    <2>4. RecoversCommit' /\ LogOK(walBlob', nTx')
        BY <1>1, <2>3 DEF Core
    <2>5. \A d \in Conn : holder # d /\ holder' # d
        BY <1>1, <1>3, ConnAssumption
    <2>6. \A d \in Conn \ {c} : Same(d)
        BY <1>1, <1>3, GoneFacts DEF Same
    <2>7. ConnInv(c)' /\ aWalData'[c] = NoLog
        BY <1>1, GoneFacts
    <2>8. ASSUME NEW d \in Conn PROVE ConnInv(d)'
        <3>1. CASE d # c
            <4>1. ConnInv(d) /\ Same(d) /\ holder # d /\ holder' # d
                BY <2>5, <2>6, <3>1 DEF Core
            <4>2. ~ Claims(d)'
                BY <1>3 DEF Claims
            <4> QED BY <4>1, <4>2, Outsider
        <3> QED BY <2>7, <3>1
    <2>9. \A d \in Conn : LogOK(aWalData'[d], nTx')
        <3>1. nTx \in Nat
            BY BoundsAssumption, SMT DEF Local, TypeOK
        <3>2. LogOK(NoLog, nTx)
            BY <3>1, EmptyLogOK
        <3> QED BY <1>1, <2>6, <2>7, <3>2 DEF Core, Same
    <2> QED BY <2>4, <2>8, <2>9 DEF Core
<1> QED BY <1>2, <1>3 DEF CloseDb

\* The lease of a process that died runs out, or nothing happens.
LEMMA CoreIdle ==
    ASSUME Local, Core, Quiet, UNCHANGED <<pc, cache, dirty, todo, fresh, aWalData, hdr, txn, done>>,
           \A d \in Conn : holder = d <=> holder' = d
    PROVE  Core'
<1>1. \A d \in Conn : Same(d) /\ Claims(d)' = Claims(d)
    BY DEF Same, Claims
<1>2. LogOK(walBlob', nTx') /\ RecoversCommit' /\ \A d \in Conn : LogOK(aWalData'[d], nTx')
    BY DEF Core, Quiet, RecoversCommit, Recoverable
<1>3. ASSUME NEW d \in Conn PROVE ConnInv(d)'
    <2>1. ConnInv(d) /\ Same(d) /\ (holder = d <=> holder' = d)
        BY <1>1 DEF Core
    <2> QED BY <1>1, <2>1, Bystander
<1> QED BY <1>2, <1>3 DEF Core

\* No lease of a live session expires.
LEMMA CoreExpire ==
    ASSUME NoExpiry, Local, Core, Expire
    PROVE  Core'
<1>1. holder = Lost /\ holder' = NoLease
    BY DEF Expire, Fault, NoExpiry
<1>2. \A d \in Conn : holder = d <=> holder' = d
    BY <1>1, ConnAssumption
<1>3. Quiet /\ UNCHANGED <<pc, cache, dirty, todo, fresh, aWalData, hdr, txn, done>>
    BY DEF Expire, Quiet, fileVars, walVars, histVars
<1> QED BY <1>2, <1>3, CoreIdle

-----------------------------------------------------------------------------
(* The theorems. *)

\* Core holds at the start.
LEMMA CoreInit ==
    ASSUME Init
    PROVE  Core
<1> DEFINE k == Committed(NoLog)
<1>1. 0 \in Nat
    BY SMT
<1>2. LogOK(NoLog, 0)
    BY <1>1, EmptyLogOK
<1>3. LogOK(walBlob, nTx) /\ \A c \in Conn : LogOK(aWalData[c], nTx)
    BY <1>2 DEF Init
<1>4. RecoversCommit
    <2>1. k \in 0..MaxTx /\ Valid(NoLog, k)
        BY CommittedIs
    <2>2. k \notin Slot
        BY <2>1, EmptyLog
    <2> HIDE DEF k
    <2>3. k = 0
        BY <2>1, <2>2, BoundsAssumption, SMT DEF Slot
    <2>4. Blank \in Content
        BY SMT DEF Blank, Content
    <2>5. Replay(NoLog, k, Blank) = Blank
        BY <2>3, <2>4, ReplayNone
    <2> QED BY <2>5 DEF Init, RecoversCommit, Recoverable, k
<1>5. ASSUME NEW c \in Conn PROVE ConnInv(c)
    <2>1. pc[c] = "idle" /\ dirty[c] = {} /\ done[c] = {}
        BY DEF Init
    <2>2. pc[c] \notin Session
        BY <2>1 DEF Session, Uploading
    <2> QED BY <2>1, <2>2 DEF ConnInv, InSession, OpenInv, StageInv, Claims
<1> QED BY <1>3, <1>4, <1>5 DEF Core

\* An upload preserves Core, whatever it is for.
LEMMA CoreUpload ==
    ASSUME Local, Core, Local', NEW c \in Conn, Upload(c)
    PROVE  Core'
<1>1. pc[c] \in {"header", "commit", "ckpt", "close"}
    BY DEF Upload, Uploading
<1> QED BY <1>1, CoreHeaderSynced, CoreCommitSynced, CoreCheckpointSynced, CoreCloseSynced

\* Every step preserves Core.
LEMMA CoreNext ==
    ASSUME NoExpiry, Local, Core, Local', [Next]_vars
    PROVE  Core'
<1>1. CASE UNCHANGED vars
    <2>1. Quiet /\ UNCHANGED <<pc, cache, dirty, todo, fresh, aWalData, hdr, txn, done, holder>>
        BY <1>1 DEF vars, blobVars, fileVars, walVars, histVars, Quiet
    <2> QED BY <2>1, CoreIdle
<1>2. CASE Expire
    BY <1>2, CoreExpire
<1>3. ASSUME NEW c \in Conn, LockShared(c) \/ Access(c) \/ Lock(c) PROVE Core'
    BY <1>3, CoreOpening
<1>4. ASSUME NEW c \in Conn, Get(c) PROVE Core'
    BY <1>4, CoreGet
<1>5. ASSUME NEW c \in Conn, NEW S \in SUBSET Page, Begin(c, S) PROVE Core'
    BY <1>5, CoreBegin
<1>6. ASSUME NEW c \in Conn, Upload(c) PROVE Core'
    BY <1>6, CoreUpload
<1>7. ASSUME NEW c \in Conn, UploadFail(c) PROVE Core'
    BY <1>7, CoreUploadFail
<1>8. ASSUME NEW c \in Conn, NEW i \in Slot, PutBlock(c, i) PROVE Core'
    BY <1>8, CorePutBlock
<1>9. ASSUME NEW c \in Conn, (\E g \in Goal : Checkpoint(c, g)) \/ Close(c) PROVE Core'
    BY <1>9, CoreCheckpoint
<1>10. ASSUME NEW c \in Conn, NEW p \in Page, PutPage(c, p) PROVE Core'
    BY <1>10, CorePutPage
<1>11. ASSUME NEW c \in Conn, PutPageFail(c) PROVE Core'
    BY <1>11, CorePutPageFail
<1>12. ASSUME NEW c \in Conn, Flushed(c) PROVE Core'
    BY <1>12, CoreFlushed
<1>13. ASSUME NEW c \in Conn, Delete(c) PROVE Core'
    BY <1>13, CoreDelete
<1>14. ASSUME NEW c \in Conn, Unlock(c) PROVE Core'
    BY <1>14, CoreUnlock
<1>15. ASSUME NEW c \in Conn, CloseDb(c) PROVE Core'
    BY <1>15, CoreCloseDb
<1>16. ASSUME NEW c \in Conn, Quit(c) \/ Crash(c) PROVE Core'
    BY <1>16, CoreLeaves
<1> QED BY <1>1, <1>2, <1>3, <1>4, <1>5, <1>6, <1>7, <1>8, <1>9, <1>10, <1>11, <1>12, <1>13,
           <1>14, <1>15, <1>16 DEF Next

(***************************************************************************)
(* Every step of wal.c and of the VFS below it keeps the types, and, when  *)
(* no lease of a live session expires, what relates the buffer of a        *)
(* session to the WAL blob, the cache file and the page blob.              *)
(***************************************************************************)
THEOREM Invariance == Spec => []IInv
<1>1. Init => IInv
    BY LocalInit, CoreInit DEF IInv
<1>2. IInv /\ [Next]_vars => IInv'
    <2> SUFFICES ASSUME IInv, [Next]_vars PROVE IInv'
        OBVIOUS
    <2>1. Local'
        BY LocalNext DEF IInv
    <2>2. ASSUME NoExpiry PROVE Core'
        BY <2>1, <2>2, CoreNext DEF IInv
    <2> QED BY <2>1, <2>2 DEF IInv, NoExpiry
<1> QED BY <1>1, <1>2, PTL DEF Spec

(***************************************************************************)
(* The state is well typed: the frame that walFrames writes is within the  *)
(* log, and mxFrame and nBackfill never run past it, whichever requests    *)
(* fail and whichever leases expire.                                       *)
(***************************************************************************)
THEOREM TypeCorrect == Spec => []TypeOK
<1>1. IInv => TypeOK
    BY DEF IInv, Local
<1> QED BY <1>1, Invariance, PTL

(***************************************************************************)
(* Recovery finds a content that was committed, or whose commit is in      *)
(* doubt, and no earlier one, after any crash and any failed request of    *)
(* xSync, xTruncate, xDelete and xClose, when no lease of a live session   *)
(* expires.                                                                *)
(***************************************************************************)
THEOREM Recovery ==
    ASSUME NoExpiry
    PROVE  Spec => []RecoversCommit
<1>1. IInv => RecoversCommit
    BY DEF IInv, Core
<1> QED BY <1>1, Invariance, PTL

(***************************************************************************)
(* A session reads what it committed or recovered last through rollbacks,  *)
(* checkpoints, restarts and truncations of the log, when no lease of a    *)
(* live session expires.                                                   *)
(***************************************************************************)
THEOREM Reads ==
    ASSUME NoExpiry
    PROVE  Spec => []ReadsLatest
<1>1. IInv => ReadsLatest
    <2> SUFFICES ASSUME Core, NEW c \in Conn, pc[c] = "ready"
                 PROVE  View(c) = latest
        BY DEF IInv, ReadsLatest
    <2>1. InSession(c)
        BY DEF InSession, Session
    <2> QED BY <2>1 DEF Core, ConnInv, SessionInv, ReadInv
<1> QED BY <1>1, Invariance, PTL
=============================================================================

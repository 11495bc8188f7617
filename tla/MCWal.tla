-------------------------------- MODULE MCWal --------------------------------
(* Instances of Wal for TLC. *)
EXTENDS Wal, TLC

Symmetry == Permutations(Conn) \cup Permutations(Page)

(***************************************************************************)
(* What later steps can read: of the blocks those that an upload under way *)
(* has staged, of the cache file what the next lock does not replace, of   *)
(* the WAL file nothing after its xClose, and `latest' only in a session.  *)
(***************************************************************************)
Closed(c) == pc[c] \in {"unlock", "closeDb"} \/ (pc[c] = "delete" /\ goal[c] = "close")

InSession == \E c \in Conn : pc[c] \in {"ready", "header", "commit", "ckpt", "flush", "delete"}

FileView(c) ==
    [cache |-> [p \in Page |->
                  IF \/ pc[c] \in {"access", "lock"} /\ holder # c
                     \/ Closed(c) /\ p \notin dirty[c]
                  THEN 0 ELSE cache[c][p]],
     wal |-> IF Closed(c) THEN <<NoLog, NoHdr>> ELSE <<aWalData[c], hdr[c]>>]

Observed ==
    <<db, holder, walBlob,
      [i \in Slot |-> IF \E c \in Conn : i \in done[c] THEN staged[i] ELSE NoBlocks[i]],
      pc, goal, level, dirty, todo, fresh, reads, txn, done, [c \in Conn |-> FileView(c)],
      IF InSession THEN latest ELSE Blank, durable, unsynced, doubt, nTx, faults>>
=============================================================================

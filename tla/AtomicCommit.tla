---------------------------- MODULE AtomicCommit ----------------------------
(***************************************************************************)
(* What a database file and its rollback journal promise together: one     *)
(* value that transactions replace whole, or not at all.  A transaction    *)
(* starts from the current value and loses its claim when another commits. *)
(***************************************************************************)
CONSTANTS
    Conn,      \* the connections
    Page,      \* the pages of the database
    Stamp,     \* what a transaction can write to a page
    Nothing    \* no transaction is running

VARIABLES
    value,     \* what a reader finds after recovery
    work       \* by connection, the content its transaction will commit

Init ==
    /\ value \in [Page -> Stamp]
    /\ work = [c \in Conn |-> Nothing]

\* A transaction writes some pages of the current value.
Begin(c) ==
    /\ work[c] = Nothing
    /\ \E S \in SUBSET Page, t \in Stamp :
         work' = [work EXCEPT ![c] = [p \in Page |-> IF p \in S THEN t ELSE value[p]]]
    /\ UNCHANGED value

Commit(c) ==
    /\ work[c] # Nothing
    /\ value' = work[c]
    /\ work' = [d \in Conn |-> Nothing]

Abort(C) ==
    /\ work' = [c \in Conn |-> IF c \in C THEN Nothing ELSE work[c]]
    /\ UNCHANGED value

Next ==
    \/ \E c \in Conn : Begin(c) \/ Commit(c)
    \/ \E C \in SUBSET Conn : Abort(C)

Spec == Init /\ [][Next]_<<value, work>>
=============================================================================

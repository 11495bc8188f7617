------------------------------ MODULE MCJournal ------------------------------
(* Instances of Journal for TLC. *)
EXTENDS Journal, TLC

CONSTANTS a, b, r1, r2

OneProcess == [c \in Conn |-> r1]
TwoProcesses == a :> r1 @@ b :> r2

\* Two connections that share a process and its table.
Process == [procOf |-> OneProcess, tracked |-> {r1}, modes |-> {"delete"},
            faulty |-> {"upload", "uploadLost", "put", "delete", "deleteLost"},
            maxFaults |-> 2, pastWriters |-> FALSE]

\* Two machines without a table entry.
Machines == [procOf |-> TwoProcesses, tracked |-> {}, modes |-> {"delete", "persist"},
             faulty |-> {"upload", "uploadLost", "put", "delete", "deleteLost"},
             maxFaults |-> 2, pastWriters |-> FALSE]

\* Two machines with tables that go stale, and answers that get lost.
Unreliable == [procOf |-> TwoProcesses, tracked |-> {r1, r2}, modes |-> {"delete"},
               faulty |-> Fallible \ {"expiry"},
               maxFaults |-> 1, pastWriters |-> TRUE]

\* Two machines, no failing request, and a reader that goes on to write.
ReadPast == [procOf |-> TwoProcesses, tracked |-> {}, modes |-> {"delete"},
             faulty |-> {}, maxFaults |-> 0, pastWriters |-> TRUE]

Deployments == {Process, Machines, Unreliable}
AfterCrash == {ReadPast}

Symmetry == Permutations(Page)
=============================================================================

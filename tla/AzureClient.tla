---------------------------- MODULE AzureClient ----------------------------
(***************************************************************************)
(* azure_client.c: the requests of threads that share one client, whose    *)
(* mutex guards its curl handles.  A call is one request that is sent      *)
(* again after a transient error, or a batch of requests in rounds that    *)
(* keeps the mutex until it returns: az_page_blob_write_batch,             *)
(* az_page_blob_read_multi, az_block_blob_upload_parallel.  The service is *)
(* reduced to the ETag of the page blob and its lease.                     *)
(***************************************************************************)
EXTENDS Integers

CONSTANTS
    Thread,
    Range,               \* page ranges, or the chunks of an upload or a download
    List,                \* the Put Block List request of an upload
    Free,                \* nobody has the mutex
    Faulty,              \* what may go wrong
    AZURE_MAX_RETRIES,
    BATCH_MAX_RETRIES,   \* the same number in all three batch functions
    MaxCalls,            \* bound: calls
    MaxFaults,           \* bound: what goes wrong, transient errors apart
    MaxEtag              \* bound: writes by other clients stop at this ETag

\* An answer that times out after the service acted, a reset connection before
\* and after that, a failed allocation or signature, a failed allocation of the
\* requests of a round, and a round that lasts 15 seconds.
Fallible == {"late", "network", "reset", "setup", "nomem", "slow"}

ASSUME NamesAssumption == Free \notin Thread /\ List \notin Range
ASSUME FaultAssumption == Faulty \subseteq Fallible
ASSUME BoundsAssumption ==
    /\ AZURE_MAX_RETRIES \in Nat /\ BATCH_MAX_RETRIES \in 0..AZURE_MAX_RETRIES
    /\ MaxCalls \in Nat /\ MaxFaults \in Nat /\ MaxEtag \in Nat

Kind == {"write", "read", "upload", "acquire", "release"}

\* azure_err_t, with 409 and 412 as "precondition", 429 and 5xx as "server".
Code == {"none", "ok", "precondition", "server", "network", "nomem"}

\* The arguments of a call: lid is the lease id (0: none), cond the If-Match
\* ETag (0: none).
Call == [id : Nat, kind : Kind, ranges : SUBSET Range, lid : Nat, cond : Nat]
NoCall == [id |-> 0, kind |-> "read", ranges |-> {}, lid |-> 0, cond |-> 0]

Reply == [rc : Code, etag : Nat]
NoReply == [rc |-> "none", etag |-> 0]
NoReplies == [r \in Range |-> NoReply]

VARIABLES
    mutex,     \* client->mutex: the thread that has it, or Free
    etag,      \* the page blob's ETag; every write makes the next number
    lease,     \* the id of its active lease, or 0
    pc,        \* where the thread is
    call,      \* its call, or the one that returned last
    held,      \* the lease id it was given last
    attempt,   \* of the request, or of the round
    done,      \* done[] of a batch
    reply,     \* the answers of a round
    got,       \* err->etag, or last_etag of a batch
    result,    \* what its call returned
    landed,    \* history: the requests of its call that took effect
    made,      \* history: the ETags they made
    leaked,    \* history: a call has returned with the mutex
    nCalls,
    faults

serviceVars == <<etag, lease>>
localVars == <<attempt, done, reply>>
histVars == <<landed, made>>
vars == <<mutex, serviceVars, pc, call, held, localVars, got, result, histVars, leaked, nCalls, faults>>

PC == {"idle", "lock", "send", "round", "wait", "renew"}

TypeOK ==
    /\ mutex \in Thread \cup {Free}
    /\ etag \in Nat /\ lease \in Nat
    /\ pc \in [Thread -> PC]
    /\ call \in [Thread -> Call]
    /\ held \in [Thread -> Nat]
    /\ attempt \in [Thread -> 0..AZURE_MAX_RETRIES]
    /\ done \in [Thread -> SUBSET Range]
    /\ reply \in [Thread -> [Range -> Reply]]
    /\ got \in [Thread -> Nat]
    /\ result \in [Thread -> Code]
    /\ landed \in [Thread -> SUBSET (Range \cup {List})]
    /\ made \in [Thread -> SUBSET Nat]
    /\ leaked \in BOOLEAN
    /\ nCalls \in Nat /\ faults \in Nat

Init ==
    /\ mutex = Free
    /\ etag = 1 /\ lease = 0
    /\ pc = [t \in Thread |-> "idle"]
    /\ call = [t \in Thread |-> NoCall]
    /\ held = [t \in Thread |-> 0]
    /\ attempt = [t \in Thread |-> 0]
    /\ done = [t \in Thread |-> {}]
    /\ reply = [t \in Thread |-> NoReplies]
    /\ got = [t \in Thread |-> 0]
    /\ result = [t \in Thread |-> "none"]
    /\ landed = [t \in Thread |-> {}]
    /\ made = [t \in Thread |-> {}]
    /\ leaked = FALSE
    /\ nCalls = 0 /\ faults = 0

-----------------------------------------------------------------------------
(* Helpers. *)

Fault(kind) == kind \in Faulty /\ faults < MaxFaults /\ faults' = faults + 1

GoTo(t, next) == pc' = [pc EXCEPT ![t] = next]

\* azure_is_retryable.
Retryable(rc) == rc = "server"

Batch(R) == \E r, q \in R : r # q

\* A batch of one range takes the sequential path; so do the lease requests,
\* and the block list of an upload whose chunks are all there.
Single(t) == ~Batch(call[t].ranges) \/ done[t] = call[t].ranges

\* What the request of a sequential call carries.
Item(t) == IF Batch(call[t].ranges) THEN {List} ELSE call[t].ranges

\* The call's own variables are gone.
Return(t, rc) ==
    /\ GoTo(t, "idle")
    /\ attempt' = [attempt EXCEPT ![t] = 0]
    /\ done' = [done EXCEPT ![t] = {}]
    /\ reply' = [reply EXCEPT ![t] = NoReplies]
    /\ result' = [result EXCEPT ![t] = rc]
    /\ held' = IF rc = "ok" /\ call[t].kind = "acquire"
               THEN [held EXCEPT ![t] = call[t].id] ELSE held

-----------------------------------------------------------------------------
(* The service. *)

\* Mutant: a request that is sent again leaves its If-Match out.
ConditionsFirstTry(t) ==
    [lid |-> call[t].lid, cond |-> IF attempt[t] = 0 THEN call[t].cond ELSE 0]

\* The x-ms-lease-id and If-Match headers of a request.
Conditions(t) == [lid |-> call[t].lid, cond |-> call[t].cond]

\* A leased blob takes writes that name the lease, and a write that names a
\* lease needs it to be active.
Granted(t) ==
    LET k == call[t].kind
        h == Conditions(t)
    IN  \/ k \in {"read", "upload"}
        \/ k = "write" /\ lease = h.lid /\ h.cond \in {0, etag}
        \/ k = "acquire" /\ lease = 0
        \/ k = "release" /\ lease = h.lid

Apply(t, S) ==
    /\ etag' = IF call[t].kind = "write" THEN etag + 1 ELSE etag
    /\ lease' = IF call[t].kind = "acquire" THEN call[t].id
                ELSE IF call[t].kind = "release" THEN 0 ELSE lease
    /\ landed' = [landed EXCEPT ![t] = @ \cup S]
    /\ made' = IF call[t].kind = "write" THEN [made EXCEPT ![t] = @ \cup {etag + 1}] ELSE made

\* The request for S is answered with rc, as execute_single and the batch
\* functions classify it.  A transient error may last.
Served(t, S, rc) ==
    \/ /\ Granted(t) /\ Apply(t, S)
       /\ \/ rc = "ok" /\ UNCHANGED faults
          \/ rc = "server" /\ Fault("late")
          \/ rc = "network" /\ Fault("reset")
    \/ /\ UNCHANGED <<serviceVars, histVars>>
       /\ \/ rc = "precondition" /\ ~Granted(t) /\ UNCHANGED faults
          \/ rc = "server" /\ UNCHANGED faults
          \/ rc = "network" /\ Fault("network")

\* Other clients write, and a lease runs out.
Elsewhere ==
    /\ \/ lease = 0 /\ etag < MaxEtag /\ etag' = etag + 1 /\ UNCHANGED lease
       \/ lease # 0 /\ lease' = 0 /\ UNCHANGED etag
    /\ UNCHANGED <<mutex, pc, call, held, localVars, got, result, histVars, leaked, nCalls, faults>>

-----------------------------------------------------------------------------
(* A call, and its requests one by one: execute_with_retry.                *)

\* The VFS sends If-Match only where it has no lease, and forgets a lease that
\* it releases.
Begin(t, kind, R, cond) ==
    /\ pc[t] = "idle"
    /\ nCalls < MaxCalls
    /\ \/ kind = "write" /\ R # {} /\ (held[t] = 0 \/ cond = 0)
       \/ kind \in {"read", "upload"} /\ R # {} /\ cond = 0
       \/ kind = "acquire" /\ held[t] = 0 /\ R = {} /\ cond = 0
       \/ kind = "release" /\ held[t] # 0 /\ R = {} /\ cond = 0
    /\ nCalls' = nCalls + 1
    /\ call' = [call EXCEPT ![t] =
                  [id |-> nCalls + 1, kind |-> kind, ranges |-> R, lid |-> held[t], cond |-> cond]]
    /\ held' = IF kind = "release" THEN [held EXCEPT ![t] = 0] ELSE held
    /\ got' = [got EXCEPT ![t] = 0]
    /\ result' = [result EXCEPT ![t] = "none"]
    /\ landed' = [landed EXCEPT ![t] = {}]
    /\ made' = [made EXCEPT ![t] = {}]
    /\ GoTo(t, "lock")
    /\ UNCHANGED <<mutex, serviceVars, localVars, leaked, faults>>

Lock(t) ==
    /\ pc[t] = "lock"
    /\ mutex = Free
    /\ mutex' = t
    /\ GoTo(t, IF Single(t) THEN "send" ELSE "round")
    /\ UNCHANGED <<serviceVars, call, held, localVars, got, result, histVars, leaked, nCalls, faults>>

\* Mutant: the loop runs once more than AZURE_MAX_RETRIES allows.
MoreTries(t) == attempt[t] <= AZURE_MAX_RETRIES

TriesLeft(t) == attempt[t] < AZURE_MAX_RETRIES

\* Mutant: `attempt' is not counted.
TryAgainUncounted(t) ==
    /\ GoTo(t, "lock")
    /\ UNCHANGED <<localVars, held, result>>

TryAgain(t) ==
    /\ attempt' = [attempt EXCEPT ![t] = @ + 1]
    /\ GoTo(t, "lock")
    /\ UNCHANGED <<done, reply, held, result>>

\* Mutant: the ETag kept is the one before the write.
KeepOldEtag(t, rc) ==
    got' = IF rc = "ok" /\ call[t].kind = "write" THEN [got EXCEPT ![t] = etag] ELSE got

KeepEtag(t, rc) ==
    got' = IF rc = "ok" /\ call[t].kind = "write" THEN [got EXCEPT ![t] = etag'] ELSE got

\* execute_single unlocks the mutex on every path; the delay before the next
\* attempt is outside of it.
Request(t) ==
    /\ pc[t] = "send"
    /\ mutex' = Free
    /\ \E rc \in Code :
         /\ Served(t, Item(t), rc)
         /\ KeepEtag(t, rc)
         /\ \/ Retryable(rc) /\ TriesLeft(t) /\ TryAgain(t)
            \/ ~(Retryable(rc) /\ TriesLeft(t)) /\ Return(t, rc)
    /\ UNCHANGED <<call, leaked, nCalls>>

\* The signature or a header list cannot be made.
RequestFail(t) ==
    /\ pc[t] = "send"
    /\ Fault("setup")
    /\ mutex' = Free
    /\ Return(t, "nomem")
    /\ UNCHANGED <<serviceVars, call, got, histVars, leaked, nCalls>>

-----------------------------------------------------------------------------
(* A batch: rounds of requests for what is not done yet.                   *)

Pending(t) == call[t].ranges \ done[t]

Round(t) ==
    /\ pc[t] = "round"
    /\ GoTo(t, "wait")
    /\ UNCHANGED <<mutex, serviceVars, call, held, localVars, got, result, histVars, leaked, nCalls, faults>>

\* Mutant: a batch whose requests cannot be set up returns with the mutex.
RoundFailLocked(t) ==
    /\ pc[t] = "round"
    /\ Fault("setup")
    /\ Return(t, "network")
    /\ UNCHANGED <<mutex, serviceVars, call, got, histVars, leaked, nCalls>>

\* The requests of the round cannot be set up.  One allocation of the batch
\* write returns with the mutex locked.
RoundFail(t) ==
    /\ pc[t] = "round"
    /\ \/ /\ \E rc \in {"network", "nomem"} : Return(t, rc)
          /\ Fault("setup")
          /\ mutex' = Free
          /\ UNCHANGED leaked
       \/ /\ call[t].kind = "write"
          /\ Return(t, "nomem")
          /\ Fault("nomem")
          /\ leaked' = TRUE
          /\ UNCHANGED mutex
    /\ UNCHANGED <<serviceVars, call, got, histVars, nCalls>>

Serve(t, r) ==
    /\ pc[t] = "wait"
    /\ r \in Pending(t)
    /\ reply[t][r] = NoReply
    /\ \E rc \in Code :
         /\ Served(t, {r}, rc)
         /\ reply' = [reply EXCEPT ![t][r] = [rc |-> rc, etag |-> IF call[t].kind = "write" THEN etag' ELSE 0]]
    /\ UNCHANGED <<mutex, pc, call, held, attempt, done, got, result, leaked, nCalls>>

\* A write that lasts renews its lease through execute_single, which locks the
\* mutex that the batch has: a default mutex, and the thread waits for itself.
Renew(t) ==
    /\ pc[t] = "wait"
    /\ call[t].kind = "write" /\ call[t].lid # 0
    /\ \E r \in Pending(t) : reply[t][r] = NoReply
    /\ Fault("slow")
    /\ GoTo(t, "renew")
    /\ UNCHANGED <<mutex, serviceVars, call, held, localVars, got, result, histVars, leaked, nCalls>>

Written(t) == {r \in Pending(t) : reply[t][r].rc = "ok"}

\* Mutant: only the ranges of the last round are looked at.
AllDoneThisRound(t) == Written(t) # {}

AllDone(t) == Pending(t) \subseteq Written(t)

NextRound(t, next, n) ==
    /\ GoTo(t, next)
    /\ attempt' = [attempt EXCEPT ![t] = n]
    /\ done' = [done EXCEPT ![t] = @ \cup Written(t)]
    /\ reply' = [reply EXCEPT ![t] = NoReplies]
    /\ UNCHANGED <<held, result>>

\* The answers are collected in any order: the error is that of the first
\* which failed, the ETag that of the last which did not.
EndRound(t) ==
    /\ pc[t] = "wait"
    /\ \A r \in Pending(t) : reply[t][r] # NoReply
    /\ \/ (Written(t) = {} \/ call[t].kind # "write") /\ UNCHANGED got
       \/ call[t].kind = "write" /\ \E r \in Written(t) : got' = [got EXCEPT ![t] = reply[t][r].etag]
    /\ \/ /\ AllDone(t) /\ call[t].kind # "upload"
          /\ Return(t, "ok")
          /\ mutex' = Free
          /\ UNCHANGED faults
       \/ /\ AllDone(t) /\ call[t].kind = "upload"
          /\ mutex' = Free
          /\ \/ NextRound(t, "lock", 0) /\ UNCHANGED faults
             \/ Return(t, "nomem") /\ Fault("setup")
       \/ \E r \in Pending(t) \ Written(t) :
            LET again == Retryable(reply[t][r].rc) /\ attempt[t] < BATCH_MAX_RETRIES
            IN  /\ \/ again /\ NextRound(t, "round", attempt[t] + 1) /\ UNCHANGED mutex
                   \/ ~again /\ Return(t, reply[t][r].rc) /\ mutex' = Free
                /\ UNCHANGED faults
    /\ UNCHANGED <<serviceVars, call, histVars, leaked, nCalls>>

-----------------------------------------------------------------------------
\* The steps that a call takes by itself: curl's time-outs answer every request.
Step(t) ==
    \/ Lock(t) \/ Request(t) \/ Round(t) \/ EndRound(t)
    \/ \E r \in Range : Serve(t, r)

Next ==
    \/ Elsewhere
    \/ \E t \in Thread :
         \/ \E kind \in Kind, R \in SUBSET Range, cond \in 0..etag : Begin(t, kind, R, cond)
         \/ Step(t)
         \/ RequestFail(t) \/ RoundFail(t) \/ Renew(t)

Spec == Init /\ [][Next]_vars

FairSpec == Spec /\ \A t \in Thread : WF_vars(Step(t))

-----------------------------------------------------------------------------
(* Properties. *)

Wanted(c) == c.ranges \cup IF c.kind = "upload" /\ Batch(c.ranges) THEN {List} ELSE {}

(***************************************************************************)
(* A call that returned AZURE_OK had every one of its requests take        *)
(* effect, over all attempts and rounds, and for a parallel upload the     *)
(* block list as well.                                                     *)
(***************************************************************************)
OkMeansApplied ==
    \A t \in Thread : pc[t] = "idle" /\ result[t] = "ok" => Wanted(call[t]) \subseteq landed[t]

(***************************************************************************)
(* A conditional write takes effect at most once, however often            *)
(* execute_with_retry or a batch sends it after answers that were lost:    *)
(* the second time it meets the ETag that it made itself.                  *)
(***************************************************************************)
ConditionalOnce ==
    \A t \in Thread : call[t].cond # 0 => \A e, f \in made[t] : e = f

(***************************************************************************)
(* The ETag that a write returns with AZURE_OK is one that it made; that   *)
(* of a single request is the last it made, that of a batch may be any.    *)
(***************************************************************************)
EtagOfCall ==
    \A t \in Thread :
        pc[t] = "idle" /\ result[t] = "ok" /\ call[t].kind = "write" =>
            /\ got[t] \in made[t]
            /\ ~Batch(call[t].ranges) => \A e \in made[t] : e <= got[t]

(***************************************************************************)
(* The client's mutex is unlocked on every error path but one, the         *)
(* allocation in az_page_blob_write_batch: who has it is in the middle of  *)
(* a request or a batch, and nobody else is.                               *)
(***************************************************************************)
MutexReleased ==
    leaked \/ \A t \in Thread : mutex = t <=> pc[t] \in {"send", "round", "wait", "renew"}

\* The mutex will not be unlocked any more.
Stuck == leaked \/ \E t \in Thread : pc[t] = "renew"

(***************************************************************************)
(* Every call returns, also when the service answers with transient errors *)
(* for ever, unless a thread has the mutex for good: after the allocation  *)
(* above, or in a lease renewal.                                           *)
(***************************************************************************)
CallsReturn == \A t \in Thread : pc[t] # "idle" ~> pc[t] = "idle" \/ Stuck

(***************************************************************************)
(* The renewal of a lease during a long batch write comes to an end, so    *)
(* that the flush goes on with its lease.                                  *)
(***************************************************************************)
RenewalReturns == \A t \in Thread : pc[t] = "renew" ~> pc[t] # "renew"
=============================================================================

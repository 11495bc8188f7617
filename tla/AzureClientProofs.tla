------------------------- MODULE AzureClientProofs -------------------------
(***************************************************************************)
(* The safety properties of AzureClient for any number of threads, ranges, *)
(* retries and calls.                                                      *)
(***************************************************************************)
EXTENDS AzureClient, TLAPS

USE Zenon

Holding == {"send", "round", "wait", "renew"}

\* What a batch, and the block list after it, know of their requests.
BatchInv(t) ==
    /\ done[t] \subseteq call[t].ranges
    /\ done[t] \subseteq landed[t]
    /\ \A r \in Range : reply[t][r].rc = "ok" => r \in landed[t]
    /\ pc[t] = "idle" => done[t] = {} /\ reply[t] = NoReplies
    /\ pc[t] \in {"round", "wait", "renew"} => Batch(call[t].ranges) /\ Pending(t) # {}
    /\ pc[t] = "send" /\ Batch(call[t].ranges) => done[t] = call[t].ranges

\* The ETags that a call made are newer than the one it named, so that a
\* conditional call makes one at most.
EtagInv(t) ==
    /\ \A e \in made[t] : call[t].cond < e /\ e <= etag
    /\ call[t].cond # 0 => \A e, f \in made[t] : e = f
    /\ \A r \in Range :
         reply[t][r].rc = "ok" /\ call[t].kind = "write" => reply[t][r].etag \in made[t]

\* What a call that returned AZURE_OK leaves.
ResultInv(t) ==
    result[t] = "ok" =>
        /\ pc[t] = "idle"
        /\ Wanted(call[t]) \subseteq landed[t]
        /\ call[t].kind = "write" =>
             /\ got[t] \in made[t]
             /\ ~Batch(call[t].ranges) => \A e \in made[t] : e <= got[t]

CallInv(t) == BatchInv(t) /\ EtagInv(t) /\ ResultInv(t)

IInv == TypeOK /\ MutexReleased /\ \A t \in Thread : CallInv(t)

-----------------------------------------------------------------------------
(* What a step says of a thread. *)

\* The call and the records of s are as they were.
Kept(s) ==
    /\ pc'[s] = pc[s] /\ call'[s] = call[s] /\ done'[s] = done[s] /\ reply'[s] = reply[s]
    /\ got'[s] = got[s] /\ result'[s] = result[s]
    /\ landed'[s] = landed[s] /\ made'[s] = made[s]

(***************************************************************************)
(* A thread that a step leaves alone keeps its invariant while ETags grow. *)
(***************************************************************************)
LEMMA KeptInv ==
    ASSUME NEW s \in Thread, TypeOK, CallInv(s), Kept(s), etag' \in Nat, etag <= etag'
    PROVE  CallInv(s)'
<1>1. BatchInv(s)'
    BY DEF CallInv, BatchInv, Kept, Pending, Batch, NoReplies
<1>2. \A e \in made[s] : e \in Nat
    BY DEF TypeOK
<1>3. \A e \in made'[s] : call'[s].cond < e /\ e <= etag'
    <2> SUFFICES ASSUME NEW e \in made[s] PROVE call[s].cond < e /\ e <= etag'
        BY DEF Kept
    <2>1. e \in Nat /\ e <= etag /\ call[s].cond < e
        BY <1>2 DEF CallInv, EtagInv
    <2> QED BY <2>1, SMT DEF TypeOK
<1>4. EtagInv(s)'
    BY <1>3 DEF CallInv, EtagInv, Kept
<1>5. ResultInv(s)'
    <2>1. Wanted(call'[s]) = Wanted(call[s]) /\ Batch(call'[s].ranges) = Batch(call[s].ranges)
        BY DEF Kept
    <2> QED BY <2>1 DEF CallInv, ResultInv, Kept
<1> QED BY <1>1, <1>4, <1>5 DEF CallInv

\* What an answered request guarantees.
ServedPost(t, S, rc) ==
    /\ etag' \in Nat /\ etag <= etag' /\ lease' \in Nat /\ faults' \in Nat
    /\ landed' \in [Thread -> SUBSET (Range \cup {List})]
    /\ made' \in [Thread -> SUBSET Nat]
    /\ \A s \in Thread \ {t} : landed'[s] = landed[s] /\ made'[s] = made[s]
    /\ landed[t] \subseteq landed'[t] /\ made[t] \subseteq made'[t]
    /\ rc = "ok" => S \subseteq landed'[t]
    /\ rc = "ok" /\ call[t].kind = "write" => etag' \in made'[t]
    /\ \A e \in made'[t] : call[t].cond < e /\ e <= etag'
    /\ call[t].cond # 0 => \A e, f \in made'[t] : e = f

(***************************************************************************)
(* A request that the service grants makes an ETag newer than all before   *)
(* it; a conditional one is granted only while its call has made none.     *)
(***************************************************************************)
LEMMA ServedFacts ==
    ASSUME TypeOK, NEW t \in Thread, CallInv(t), NEW S \in SUBSET (Range \cup {List}),
           NEW rc, Served(t, S, rc)
    PROVE  ServedPost(t, S, rc)
<1>1. /\ etag \in Nat /\ lease \in Nat /\ faults \in Nat
      /\ landed \in [Thread -> SUBSET (Range \cup {List})]
      /\ made \in [Thread -> SUBSET Nat]
      /\ call[t].id \in Nat /\ call[t].cond \in Nat
    BY DEF TypeOK, Call
<1>2. \A e \in made[t] : call[t].cond < e /\ e <= etag
    BY DEF CallInv, EtagInv
<1>3. call[t].cond # 0 => \A e, f \in made[t] : e = f
    BY DEF CallInv, EtagInv
<1>4. faults' \in Nat
    BY <1>1, SMT DEF Served, Fault
<1>5. CASE UNCHANGED <<serviceVars, histVars>> /\ rc # "ok"
    BY <1>1, <1>2, <1>3, <1>4, <1>5, SMT DEF ServedPost, serviceVars, histVars
<1>6. CASE Granted(t) /\ Apply(t, S)
    <2>1. /\ landed' \in [Thread -> SUBSET (Range \cup {List})]
          /\ \A s \in Thread \ {t} : landed'[s] = landed[s]
          /\ landed'[t] = landed[t] \cup S
        BY <1>1, <1>6 DEF Apply
    <2>2. lease' \in Nat
        BY <1>1, <1>6, SMT DEF Apply
    <2>3. CASE call[t].kind # "write"
        <3>1. etag' = etag /\ made' = made
            BY <1>6, <2>3 DEF Apply
        <3> QED BY <1>1, <1>2, <1>3, <1>4, <2>1, <2>2, <2>3, <3>1, SMT DEF ServedPost
    <2>4. CASE call[t].kind = "write"
        <3>1. etag' = etag + 1 /\ made' = [made EXCEPT ![t] = @ \cup {etag + 1}]
            BY <1>6, <2>4 DEF Apply
        <3>2. /\ etag + 1 \in Nat /\ etag <= etag + 1
            BY <1>1, SMT
        <3>3. /\ made' \in [Thread -> SUBSET Nat]
              /\ \A s \in Thread \ {t} : made'[s] = made[s]
              /\ made'[t] = made[t] \cup {etag + 1}
            BY <1>1, <3>1, <3>2
        <3>4. call[t].cond \in {0, etag}
            BY <1>6, <2>4 DEF Granted, Conditions
        <3>5. \A e \in made'[t] : call[t].cond < e /\ e <= etag + 1
            <4> SUFFICES ASSUME NEW e \in made'[t] PROVE call[t].cond < e /\ e <= etag + 1
                OBVIOUS
            <4>1. CASE e = etag + 1
                BY <1>1, <3>4, <4>1, SMT
            <4>2. CASE e \in made[t]
                <5>1. e \in Nat /\ call[t].cond < e /\ e <= etag
                    BY <1>1, <1>2, <4>2
                <5> QED BY <1>1, <5>1, SMT
            <4> QED BY <3>3, <4>1, <4>2
        <3>6. call[t].cond # 0 => made[t] = {}
            <4> SUFFICES ASSUME call[t].cond # 0, NEW e \in made[t] PROVE FALSE
                OBVIOUS
            <4>1. call[t].cond = etag
                BY <3>4
            <4>2. e \in Nat /\ etag < e /\ e <= etag
                BY <1>1, <1>2, <4>1
            <4> QED BY <1>1, <4>2, SMT
        <3>7. call[t].cond # 0 => \A e, f \in made'[t] : e = f
            BY <3>3, <3>6
        <3> QED BY <1>4, <2>1, <2>2, <3>1, <3>2, <3>3, <3>5, <3>7 DEF ServedPost
    <2> QED BY <2>3, <2>4
<1> QED BY <1>5, <1>6 DEF Served

-----------------------------------------------------------------------------
(* The mutex, and the parts of the invariant together. *)

\* A step of t moves no other thread.
Alone(t) == \A s \in Thread \ {t} : Kept(s)

(***************************************************************************)
(* A thread keeps the mutex while it is in the middle of a request.        *)
(***************************************************************************)
LEMMA MutexKept ==
    ASSUME MutexReleased, NEW t \in Thread, Alone(t), mutex' = mutex, leaked' = leaked,
           pc[t] \in Holding <=> pc'[t] \in Holding
    PROVE  MutexReleased'
BY DEF MutexReleased, Alone, Kept, Holding

(***************************************************************************)
(* A thread in the middle of a request unlocks its own mutex.              *)
(***************************************************************************)
LEMMA MutexFreed ==
    ASSUME MutexReleased, NEW t \in Thread, Alone(t), mutex' = Free, leaked' = leaked,
           pc[t] \in Holding, pc'[t] \notin Holding
    PROVE  MutexReleased'
<1> SUFFICES ASSUME ~leaked, NEW s \in Thread PROVE ~(mutex' = s) /\ pc'[s] \notin Holding
    BY DEF MutexReleased, Holding
<1>1. ~(mutex' = s)
    BY NamesAssumption
<1>2. mutex = t
    BY DEF MutexReleased, Holding
<1>3. s # t => pc[s] \notin Holding
    BY <1>2 DEF MutexReleased, Holding
<1> QED BY <1>1, <1>3 DEF Alone, Kept

(***************************************************************************)
(* A free mutex is taken by one thread.                                    *)
(***************************************************************************)
LEMMA MutexTaken ==
    ASSUME MutexReleased, NEW t \in Thread, Alone(t), mutex = Free, mutex' = t, leaked' = leaked,
           pc'[t] \in Holding
    PROVE  MutexReleased'
<1> SUFFICES ASSUME ~leaked, NEW s \in Thread PROVE mutex' = s <=> pc'[s] \in Holding
    BY DEF MutexReleased, Holding
<1>1. pc[s] \notin Holding
    BY NamesAssumption DEF MutexReleased, Holding
<1> QED BY <1>1 DEF Alone, Kept

(***************************************************************************)
(* A step of t preserves the invariant when it preserves the part about t. *)
(***************************************************************************)
LEMMA StepInv ==
    ASSUME IInv, NEW t \in Thread, Alone(t), TypeOK', etag <= etag', MutexReleased', CallInv(t)'
    PROVE  IInv'
<1> SUFFICES ASSUME NEW s \in Thread, s # t PROVE CallInv(s)'
    BY DEF IInv
<1> QED BY KeptInv DEF IInv, Alone, TypeOK

-----------------------------------------------------------------------------
(* The steps. *)

(***************************************************************************)
(* Writes of other clients only make the ETag grow.                        *)
(***************************************************************************)
LEMMA ElsewhereInv == IInv /\ Elsewhere => IInv'
<1> SUFFICES ASSUME IInv, Elsewhere PROVE IInv'
    OBVIOUS
<1> USE DEF localVars, histVars
<1>1. etag' \in Nat /\ lease' \in Nat /\ etag <= etag'
    BY SMT DEF IInv, TypeOK, Elsewhere
<1>2. TypeOK'
    BY <1>1 DEF IInv, TypeOK, Elsewhere
<1>3. MutexReleased'
    BY DEF IInv, MutexReleased, Elsewhere
<1>4. \A s \in Thread : CallInv(s)'
    BY <1>1, KeptInv DEF IInv, Kept, Elsewhere
<1> QED BY <1>2, <1>3, <1>4 DEF IInv

(***************************************************************************)
(* No answer is not an answer.                                             *)
(***************************************************************************)
LEMMA NoneAnswered ==
    NoReplies \in [Range -> Reply] /\ \A r \in Range : NoReplies[r].rc = "none"
BY SMT DEF NoReplies, NoReply, Reply, Code

(***************************************************************************)
(* A call starts with no answer, nothing done and no ETag made.            *)
(***************************************************************************)
LEMMA BeginInv ==
    ASSUME IInv, NEW t \in Thread, NEW kind \in Kind, NEW R \in SUBSET Range,
           NEW cond \in 0..etag, Begin(t, kind, R, cond)
    PROVE  IInv'
<1> USE DEF localVars, serviceVars
<1>1. nCalls' \in Nat /\ nCalls + 1 \in Nat /\ cond \in Nat /\ etag <= etag'
    BY SMT DEF IInv, TypeOK, Begin
<1>2. [id |-> nCalls + 1, kind |-> kind, ranges |-> R, lid |-> held[t], cond |-> cond] \in Call
    BY <1>1 DEF IInv, TypeOK, Call
<1>3. held' \in [Thread -> Nat]
    BY SMT DEF IInv, TypeOK, Begin
<1>4. "none" \in Code /\ "lock" \in PC /\ 0 \in Nat
    BY SMT DEF Code, PC
<1>5. TypeOK'
    BY <1>1, <1>2, <1>3, <1>4 DEF IInv, TypeOK, Begin, GoTo
<1>6. Alone(t)
    BY DEF IInv, TypeOK, Begin, GoTo, Alone, Kept
<1>7. /\ pc[t] = "idle" /\ pc'[t] = "lock" /\ result'[t] = "none"
      /\ landed'[t] = {} /\ made'[t] = {} /\ done'[t] = done[t] /\ reply'[t] = reply[t]
    BY DEF IInv, TypeOK, Begin, GoTo
<1>8. done[t] = {} /\ reply[t] = NoReplies
    BY <1>7 DEF IInv, CallInv, BatchInv
<1>9. \A r \in Range : reply[t][r].rc = "none"
    BY NoneAnswered, <1>8
<1>10. MutexReleased'
    BY <1>6, <1>7, MutexKept DEF IInv, Begin, Holding
<1>11. CallInv(t)'
    BY <1>7, <1>8, <1>9 DEF CallInv, BatchInv, EtagInv, ResultInv
<1> QED BY <1>1, <1>5, <1>6, <1>10, <1>11, StepInv

(***************************************************************************)
(* Lock: a thread with the mutex sends one request, or has ranges left.    *)
(***************************************************************************)
LEMMA LockInv ==
    ASSUME IInv, NEW t \in Thread, Lock(t)
    PROVE  IInv'
<1> USE DEF localVars, serviceVars, histVars
<1>1. pc'[t] = (IF Single(t) THEN "send" ELSE "round") /\ pc[t] = "lock"
    BY DEF IInv, TypeOK, Lock, GoTo
<1>2. pc' \in [Thread -> PC]
    BY DEF IInv, TypeOK, Lock, GoTo, PC
<1>3. TypeOK' /\ Alone(t) /\ etag' = etag
    BY <1>2 DEF IInv, TypeOK, Lock, GoTo, Alone, Kept
<1>4. etag <= etag'
    BY <1>3, SMT DEF IInv, TypeOK
<1>5. MutexReleased'
    BY <1>1, <1>3, MutexTaken DEF IInv, Lock, Holding
<1>6. /\ done[t] \subseteq call[t].ranges
      /\ result[t] # "ok"
    BY <1>1 DEF IInv, CallInv, BatchInv, ResultInv
<1>7. BatchInv(t)'
    <2>1. CASE Single(t)
        BY <1>1, <2>1 DEF IInv, CallInv, BatchInv, Lock, Single, Pending
    <2>2. CASE ~Single(t)
        BY <1>1, <1>6, <2>2 DEF IInv, CallInv, BatchInv, Lock, Single, Pending
    <2> QED BY <2>1, <2>2
<1>8. EtagInv(t)' /\ ResultInv(t)'
    BY <1>6 DEF IInv, CallInv, EtagInv, ResultInv, Lock
<1> QED BY <1>3, <1>4, <1>5, <1>7, <1>8, StepInv DEF CallInv

\* What t's own variables are when its call has returned.
Returned(t, rc) ==
    /\ pc' \in [Thread -> PC]
    /\ attempt' \in [Thread -> 0..AZURE_MAX_RETRIES]
    /\ done' \in [Thread -> SUBSET Range]
    /\ reply' \in [Thread -> [Range -> Reply]]
    /\ result' \in [Thread -> Code]
    /\ held' \in [Thread -> Nat]
    /\ pc'[t] = "idle" /\ done'[t] = {} /\ reply'[t] = NoReplies /\ result'[t] = rc
    /\ \A s \in Thread \ {t} :
         pc'[s] = pc[s] /\ done'[s] = done[s] /\ reply'[s] = reply[s] /\ result'[s] = result[s]

(***************************************************************************)
(* A call that returns leaves none of its own variables behind.            *)
(***************************************************************************)
LEMMA ReturnFacts ==
    ASSUME TypeOK, NEW t \in Thread, NEW rc \in Code, Return(t, rc)
    PROVE  Returned(t, rc)
<1>1. 0 \in 0..AZURE_MAX_RETRIES /\ "idle" \in PC
    BY BoundsAssumption, SMT DEF PC
<1>2. call[t].id \in Nat
    BY DEF TypeOK, Call
<1>3. held' \in [Thread -> Nat]
    BY <1>2 DEF TypeOK, Return
<1> QED BY <1>1, <1>3, NoneAnswered DEF TypeOK, Return, Returned, GoTo

(***************************************************************************)
(* A call that fails leaves an invariant about it, whatever took effect.   *)
(***************************************************************************)
LEMMA FailedInv ==
    ASSUME NEW t \in Thread, NEW rc, rc # "ok", Returned(t, rc), EtagInv(t),
           etag' = etag, made' = made, call' = call
    PROVE  CallInv(t)'
<1>1. \A r \in Range : reply'[t][r].rc = "none"
    BY NoneAnswered DEF Returned
<1>2. BatchInv(t)'
    BY <1>1 DEF BatchInv, Returned, NoReplies
<1>3. EtagInv(t)'
    BY <1>1 DEF EtagInv
<1>4. ResultInv(t)'
    BY DEF ResultInv, Returned
<1> QED BY <1>2, <1>3, <1>4 DEF CallInv

(***************************************************************************)
(* execute_single fails before it sends, with the mutex unlocked.          *)
(***************************************************************************)
LEMMA RequestFailInv ==
    ASSUME IInv, NEW t \in Thread, RequestFail(t)
    PROVE  IInv'
<1> USE DEF serviceVars, histVars
<1>1. Returned(t, "nomem")
    BY ReturnFacts DEF IInv, RequestFail, Code
<1>2. faults' \in Nat /\ etag <= etag'
    BY SMT DEF IInv, TypeOK, RequestFail, Fault
<1>3. TypeOK'
    BY <1>1, <1>2 DEF IInv, TypeOK, RequestFail, Returned
<1>4. Alone(t)
    BY <1>1 DEF RequestFail, Returned, Alone, Kept
<1>5. MutexReleased'
    BY <1>1, <1>4, MutexFreed DEF IInv, RequestFail, Returned, Holding
<1>6. CallInv(t)'
    BY <1>1, FailedInv DEF IInv, CallInv, RequestFail
<1> QED BY <1>2, <1>3, <1>4, <1>5, <1>6, StepInv

(***************************************************************************)
(* The requests of a round go out.                                         *)
(***************************************************************************)
LEMMA RoundInv ==
    ASSUME IInv, NEW t \in Thread, Round(t)
    PROVE  IInv'
<1> USE DEF localVars, serviceVars, histVars
<1>1. pc[t] = "round" /\ pc'[t] = "wait" /\ pc' \in [Thread -> PC]
    BY DEF IInv, TypeOK, Round, GoTo, PC
<1>2. TypeOK' /\ Alone(t)
    BY <1>1 DEF IInv, TypeOK, Round, GoTo, Alone, Kept
<1>3. etag <= etag'
    BY SMT DEF IInv, TypeOK, Round
<1>4. MutexReleased'
    BY <1>1, <1>2, MutexKept DEF IInv, Round, Holding
<1>5. BatchInv(t)'
    BY <1>1 DEF IInv, CallInv, BatchInv, Round, Pending
<1>6. EtagInv(t)' /\ ResultInv(t)'
    BY <1>1 DEF IInv, CallInv, EtagInv, ResultInv, Round
<1> QED BY <1>2, <1>3, <1>4, <1>5, <1>6, StepInv DEF CallInv

(***************************************************************************)
(* A round that cannot be set up: the one path that returns with the mutex *)
(* is recorded in `leaked'.                                                *)
(***************************************************************************)
LEMMA RoundFailInv ==
    ASSUME IInv, NEW t \in Thread, RoundFail(t)
    PROVE  IInv'
<1> USE DEF serviceVars, histVars
<1>1. PICK rc \in {"network", "nomem"} : Return(t, rc)
    BY DEF RoundFail
<1>2. Returned(t, rc) /\ rc # "ok"
    BY <1>1, ReturnFacts DEF IInv, Code
<1>3. faults' \in Nat /\ etag <= etag'
    BY SMT DEF IInv, TypeOK, RoundFail, Fault
<1>4. mutex' \in Thread \cup {Free} /\ leaked' \in BOOLEAN
    BY DEF IInv, TypeOK, RoundFail
<1>5. TypeOK'
    BY <1>2, <1>3, <1>4 DEF IInv, TypeOK, RoundFail, Returned
<1>6. Alone(t)
    BY <1>2 DEF RoundFail, Returned, Alone, Kept
<1>7. MutexReleased'
    <2>1. CASE leaked' = TRUE
        BY <2>1 DEF MutexReleased
    <2>2. CASE mutex' = Free /\ leaked' = leaked
        BY <1>2, <1>6, <2>2, MutexFreed DEF IInv, RoundFail, Returned, Holding
    <2> QED BY <2>1, <2>2 DEF RoundFail
<1>8. CallInv(t)'
    BY <1>2, FailedInv DEF IInv, CallInv, RoundFail
<1> QED BY <1>3, <1>5, <1>6, <1>7, <1>8, StepInv

(***************************************************************************)
(* A batch write that lasts starts to renew its lease, with the mutex.     *)
(***************************************************************************)
LEMMA RenewInv ==
    ASSUME IInv, NEW t \in Thread, Renew(t)
    PROVE  IInv'
<1> USE DEF localVars, serviceVars, histVars
<1>1. pc[t] = "wait" /\ pc'[t] = "renew" /\ pc' \in [Thread -> PC]
    BY DEF IInv, TypeOK, Renew, GoTo, PC
<1>2. faults' \in Nat /\ etag <= etag'
    BY SMT DEF IInv, TypeOK, Renew, Fault
<1>3. TypeOK' /\ Alone(t)
    BY <1>1, <1>2 DEF IInv, TypeOK, Renew, GoTo, Alone, Kept
<1>4. MutexReleased'
    BY <1>1, <1>3, MutexKept DEF IInv, Renew, Holding
<1>5. BatchInv(t)'
    BY <1>1 DEF IInv, CallInv, BatchInv, Renew, Pending
<1>6. EtagInv(t)' /\ ResultInv(t)'
    BY <1>1 DEF IInv, CallInv, EtagInv, ResultInv, Renew
<1> QED BY <1>2, <1>3, <1>4, <1>5, <1>6, StepInv DEF CallInv

(***************************************************************************)
(* One request of execute_with_retry: an answer that is an error and may   *)
(* be tried again leaves what took effect; "ok" is that of the last        *)
(* request, after all chunks of an upload.                                 *)
(***************************************************************************)
LEMMA RequestInv ==
    ASSUME IInv, NEW t \in Thread, Request(t)
    PROVE  IInv'
<1> DEFINE S == Item(t)
<1>1. PICK rc \in Code :
         /\ Served(t, S, rc)
         /\ KeepEtag(t, rc)
         /\ \/ Retryable(rc) /\ TriesLeft(t) /\ TryAgain(t)
            \/ ~(Retryable(rc) /\ TriesLeft(t)) /\ Return(t, rc)
    BY DEF Request
<1>2. pc[t] = "send" /\ mutex' = Free /\ call' = call /\ leaked' = leaked /\ nCalls' = nCalls
    BY DEF Request
<1>3. call[t].ranges \subseteq Range /\ S \in SUBSET (Range \cup {List})
    BY DEF IInv, TypeOK, Call, Item
<1>4. ServedPost(t, S, rc)
    BY <1>1, <1>3, ServedFacts DEF IInv
<1>5. /\ etag' \in Nat /\ etag <= etag'
      /\ landed[t] \subseteq landed'[t] /\ made[t] \subseteq made'[t]
    BY <1>4 DEF ServedPost
<1>6. got' \in [Thread -> Nat] /\ \A s \in Thread \ {t} : got'[s] = got[s]
    BY <1>1, <1>5 DEF IInv, TypeOK, KeepEtag
<1>7. CASE TryAgain(t) /\ TriesLeft(t) /\ Retryable(rc)
    <2>1. /\ pc'[t] = "lock" /\ pc' \in [Thread -> PC] /\ \A s \in Thread \ {t} : pc'[s] = pc[s]
          /\ done' = done /\ reply' = reply /\ held' = held /\ result' = result
        BY <1>7 DEF IInv, TypeOK, TryAgain, GoTo, PC
    <2>2. attempt[t] + 1 \in 0..AZURE_MAX_RETRIES
        BY <1>7, BoundsAssumption, SMT DEF IInv, TypeOK, TriesLeft
    <2>3. attempt' \in [Thread -> 0..AZURE_MAX_RETRIES]
        BY <1>7, <2>2 DEF IInv, TypeOK, TryAgain
    <2>4. TypeOK'
        BY <1>2, <1>4, <1>6, <2>1, <2>3 DEF IInv, TypeOK, ServedPost
    <2>5. Alone(t)
        BY <1>2, <1>4, <1>6, <2>1 DEF Alone, Kept, ServedPost
    <2>6. MutexReleased'
        BY <1>2, <2>1, <2>5, MutexFreed DEF IInv, Holding
    <2>7. result[t] # "ok"
        BY <1>2 DEF IInv, CallInv, ResultInv
    <2>8. BatchInv(t)'
        BY <1>2, <1>5, <2>1 DEF IInv, CallInv, BatchInv
    <2>9. EtagInv(t)' /\ ResultInv(t)'
        BY <1>2, <1>4, <2>1, <2>7 DEF IInv, CallInv, EtagInv, ResultInv, ServedPost
    <2> QED BY <1>5, <2>4, <2>5, <2>6, <2>8, <2>9, StepInv DEF CallInv
<1>8. CASE Return(t, rc)
    <2>1. Returned(t, rc)
        BY <1>8, ReturnFacts DEF IInv
    <2>2. TypeOK'
        BY <1>2, <1>4, <1>6, <2>1 DEF IInv, TypeOK, ServedPost, Returned
    <2>3. Alone(t)
        BY <1>2, <1>4, <1>6, <2>1 DEF Alone, Kept, ServedPost, Returned
    <2>4. MutexReleased'
        BY <1>2, <2>1, <2>3, MutexFreed DEF IInv, Returned, Holding
    <2>5. \A r \in Range : reply'[t][r].rc = "none"
        BY <2>1, NoneAnswered DEF Returned
    <2>6. BatchInv(t)'
        BY <2>1, <2>5 DEF BatchInv, Returned
    <2>7. EtagInv(t)'
        BY <1>2, <1>4, <2>5 DEF EtagInv, ServedPost
    <2>8. ASSUME rc = "ok" PROVE Wanted(call[t]) \subseteq landed'[t]
        <3>1. S \subseteq landed'[t]
            BY <1>4, <2>8 DEF ServedPost
        <3>2. CASE Batch(call[t].ranges)
            <4>1. call[t].ranges \subseteq landed[t]
                BY <1>2, <3>2 DEF IInv, CallInv, BatchInv
            <4> QED BY <1>5, <3>1, <3>2, <4>1 DEF Wanted, Item
        <3>3. CASE ~Batch(call[t].ranges)
            BY <3>1, <3>3 DEF Wanted, Item
        <3> QED BY <3>2, <3>3
    <2>9. ASSUME rc = "ok", call[t].kind = "write"
          PROVE  got'[t] \in made'[t] /\ \A e \in made'[t] : e <= got'[t]
        <3>1. got'[t] = etag'
            BY <1>1, <2>9 DEF IInv, TypeOK, KeepEtag
        <3> QED BY <1>4, <2>9, <3>1 DEF ServedPost
    <2>10. ResultInv(t)'
        BY <1>2, <2>1, <2>8, <2>9 DEF ResultInv, Returned
    <2> QED BY <1>5, <2>2, <2>3, <2>4, <2>6, <2>7, <2>10, StepInv DEF CallInv
<1> QED BY <1>1, <1>7, <1>8

(***************************************************************************)
(* A request of a round is answered; "ok" is recorded after it took effect.*)
(***************************************************************************)
LEMMA ServeInv ==
    ASSUME IInv, NEW t \in Thread, NEW r \in Range, Serve(t, r)
    PROVE  IInv'
<1> DEFINE E == IF call[t].kind = "write" THEN etag' ELSE 0
<1>1. PICK rc \in Code :
         /\ Served(t, {r}, rc)
         /\ reply' = [reply EXCEPT ![t][r] = [rc |-> rc, etag |-> E]]
    BY DEF Serve
<1>2. /\ pc[t] = "wait"
      /\ UNCHANGED <<mutex, pc, call, held, attempt, done, got, result, leaked, nCalls>>
    BY DEF Serve
<1>3. ServedPost(t, {r}, rc)
    BY <1>1, ServedFacts DEF IInv
<1>4. /\ etag' \in Nat /\ etag <= etag'
      /\ landed[t] \subseteq landed'[t] /\ made[t] \subseteq made'[t]
    BY <1>3 DEF ServedPost
<1>5. [rc |-> rc, etag |-> E] \in Reply
    BY <1>4, SMT DEF Reply
<1>6. /\ reply' \in [Thread -> [Range -> Reply]]
      /\ \A s \in Thread \ {t} : reply'[s] = reply[s]
      /\ reply'[t][r] = [rc |-> rc, etag |-> E]
      /\ \A q \in Range \ {r} : reply'[t][q] = reply[t][q]
    BY <1>1, <1>5 DEF IInv, TypeOK
<1>7. TypeOK'
    BY <1>2, <1>3, <1>6 DEF IInv, TypeOK, ServedPost
<1>8. Alone(t)
    BY <1>2, <1>3, <1>6 DEF Alone, Kept, ServedPost
<1>9. MutexReleased'
    BY <1>2, <1>8, MutexKept DEF IInv, Holding
<1>10. reply'[t][r].rc = rc /\ reply'[t][r].etag = E
    BY <1>6, SMT
<1>11. \A q \in Range : reply'[t][q].rc = "ok" => q \in landed'[t]
    <2>1. rc = "ok" => r \in landed'[t]
        BY <1>3 DEF ServedPost
    <2>2. \A q \in Range \ {r} : reply[t][q].rc = "ok" => q \in landed[t]
        BY DEF IInv, CallInv, BatchInv
    <2> HIDE DEF E
    <2> QED BY <1>4, <1>6, <1>10, <2>1, <2>2
<1>12. BatchInv(t)'
    BY <1>2, <1>4, <1>11 DEF IInv, CallInv, BatchInv, Pending
<1>13. \A q \in Range :
         reply'[t][q].rc = "ok" /\ call[t].kind = "write" => reply'[t][q].etag \in made'[t]
    <2>1. rc = "ok" /\ call[t].kind = "write" => E \in made'[t]
        BY <1>3 DEF ServedPost
    <2>2. \A q \in Range \ {r} :
            reply[t][q].rc = "ok" /\ call[t].kind = "write" => reply[t][q].etag \in made[t]
        BY DEF IInv, CallInv, EtagInv
    <2> HIDE DEF E
    <2> QED BY <1>4, <1>6, <1>10, <2>1, <2>2
<1>14. EtagInv(t)'
    BY <1>2, <1>3, <1>13 DEF EtagInv, ServedPost
<1>15. ResultInv(t)'
    BY <1>2 DEF IInv, CallInv, ResultInv
<1> QED BY <1>4, <1>7, <1>8, <1>9, <1>12, <1>14, <1>15, StepInv DEF CallInv

\* A round leaves t's own variables for the next one, or for the block list.
Rounded(t, next) ==
    /\ pc' \in [Thread -> PC]
    /\ attempt' \in [Thread -> 0..AZURE_MAX_RETRIES]
    /\ done' \in [Thread -> SUBSET Range]
    /\ reply' \in [Thread -> [Range -> Reply]]
    /\ pc'[t] = next /\ done'[t] = done[t] \cup Written(t) /\ reply'[t] = NoReplies
    /\ held' = held /\ result' = result
    /\ \A s \in Thread \ {t} : pc'[s] = pc[s] /\ done'[s] = done[s] /\ reply'[s] = reply[s]

(***************************************************************************)
(* What a round wrote is done.                                             *)
(***************************************************************************)
LEMMA NextRoundFacts ==
    ASSUME TypeOK, NEW t \in Thread, NEW next \in PC, NEW n \in 0..AZURE_MAX_RETRIES,
           NextRound(t, next, n)
    PROVE  Rounded(t, next)
<1>1. Written(t) \in SUBSET Range
    BY DEF TypeOK, Call, Written, Pending
<1> QED BY <1>1, NoneAnswered DEF TypeOK, NextRound, Rounded, GoTo

(***************************************************************************)
(* The end of a round keeps the invariant about t when t goes on.          *)
(***************************************************************************)
LEMMA RoundedInv ==
    ASSUME IInv, NEW t \in Thread, pc[t] = "wait", NEW next \in {"lock", "round"},
           Rounded(t, next), etag' = etag, landed' = landed, made' = made, call' = call,
           next = "round" => ~AllDone(t)
    PROVE  CallInv(t)'
<1>1. \A r \in Range : reply'[t][r].rc = "none"
    BY NoneAnswered DEF Rounded
<1>2. /\ Written(t) \subseteq call[t].ranges /\ Written(t) \subseteq Range
      /\ Written(t) \subseteq landed[t]
    BY DEF IInv, TypeOK, Call, CallInv, BatchInv, Written, Pending
<1>3. pc'[t] = "round" => Batch(call[t].ranges) /\ call[t].ranges \ done'[t] # {}
    BY DEF IInv, CallInv, BatchInv, Rounded, AllDone, Pending
<1>4. BatchInv(t)'
    BY <1>1, <1>2, <1>3 DEF IInv, CallInv, BatchInv, Rounded, Pending
<1>5. EtagInv(t)'
    BY <1>1 DEF IInv, CallInv, EtagInv
<1>6. ResultInv(t)'
    BY DEF IInv, CallInv, ResultInv, Rounded
<1> QED BY <1>4, <1>5, <1>6 DEF CallInv

(***************************************************************************)
(* The end of a round: "ok" needs every range that was left to be written  *)
(* in this round, and those before it were written in earlier ones.        *)
(***************************************************************************)
LEMMA EndRoundInv ==
    ASSUME IInv, NEW t \in Thread, EndRound(t)
    PROVE  IInv'
<1> USE DEF serviceVars, histVars
<1>1. /\ pc[t] = "wait" /\ call' = call /\ leaked' = leaked /\ nCalls' = nCalls
      /\ etag' = etag /\ lease' = lease /\ landed' = landed /\ made' = made
    BY DEF EndRound
<1>2. etag <= etag'
    BY <1>1, SMT DEF IInv, TypeOK
<1>3. /\ Batch(call[t].ranges) /\ Pending(t) # {} /\ Pending(t) \subseteq Range
      /\ Written(t) \subseteq Pending(t)
    BY <1>1 DEF IInv, TypeOK, Call, CallInv, BatchInv, Pending, Written
<1>4. \A r \in Range : reply[t][r].etag \in Nat /\ reply[t][r].rc \in Code
    BY DEF IInv, TypeOK, Reply
<1>5. got' \in [Thread -> Nat] /\ \A s \in Thread \ {t} : got'[s] = got[s]
    BY <1>3, <1>4 DEF IInv, TypeOK, EndRound
<1>6. \A rc \in Code : Return(t, rc) /\ mutex' = Free /\ faults' \in Nat =>
         Returned(t, rc) /\ TypeOK' /\ Alone(t) /\ MutexReleased'
    <2> SUFFICES ASSUME NEW rc \in Code, Return(t, rc), mutex' = Free, faults' \in Nat
                 PROVE  Returned(t, rc) /\ TypeOK' /\ Alone(t) /\ MutexReleased'
        OBVIOUS
    <2>1. Returned(t, rc)
        BY ReturnFacts DEF IInv
    <2>2. TypeOK'
        BY <1>1, <1>5, <2>1 DEF IInv, TypeOK, Returned
    <2>3. Alone(t)
        BY <1>1, <1>5, <2>1 DEF Alone, Kept, Returned
    <2>4. MutexReleased'
        BY <1>1, <2>1, <2>3, MutexFreed DEF IInv, Returned, Holding
    <2> QED BY <2>1, <2>2, <2>3, <2>4
<1>7. \A rc \in Code \ {"ok"} : Return(t, rc) /\ mutex' = Free /\ faults' \in Nat => IInv'
    BY <1>1, <1>2, <1>6, FailedInv, StepInv DEF IInv, CallInv
<1>8. ASSUME NEW next \in {"lock", "round"}, Rounded(t, next), UNCHANGED faults,
             next = "round" => ~AllDone(t) /\ mutex' = mutex,
             next = "lock" => mutex' = Free
      PROVE  IInv'
    <2>1. TypeOK'
        BY <1>1, <1>5, <1>8 DEF IInv, TypeOK, Rounded
    <2>2. Alone(t)
        BY <1>1, <1>5, <1>8 DEF Alone, Kept, Rounded
    <2>3. MutexReleased'
        <3>1. CASE next = "round"
            BY <1>1, <1>8, <2>2, <3>1, MutexKept DEF IInv, Rounded, Holding
        <3>2. CASE next = "lock"
            BY <1>1, <1>8, <2>2, <3>2, MutexFreed DEF IInv, Rounded, Holding
        <3> QED BY <3>1, <3>2
    <2>4. CallInv(t)'
        BY <1>1, <1>8, RoundedInv
    <2> QED BY <1>2, <2>1, <2>2, <2>3, <2>4, StepInv
<1>9. CASE AllDone(t) /\ call[t].kind # "upload" /\ Return(t, "ok") /\ mutex' = Free
           /\ UNCHANGED faults
    <2>1. Returned(t, "ok") /\ TypeOK' /\ Alone(t) /\ MutexReleased'
        BY <1>6, <1>9 DEF IInv, TypeOK, Code
    <2>2. \A r \in Range : reply'[t][r].rc = "none"
        BY <2>1, NoneAnswered DEF Returned
    <2>3. BatchInv(t)'
        BY <2>1, <2>2 DEF BatchInv, Returned
    <2>4. EtagInv(t)'
        BY <1>1, <2>2 DEF IInv, CallInv, EtagInv
    <2>5. Wanted(call[t]) \subseteq landed[t]
        <3>1. Wanted(call[t]) = call[t].ranges
            BY <1>9 DEF Wanted
        <3>2. Pending(t) \subseteq landed[t]
            BY <1>3, <1>9 DEF IInv, CallInv, BatchInv, AllDone, Written
        <3>3. done[t] \subseteq landed[t]
            BY DEF IInv, CallInv, BatchInv
        <3> QED BY <3>1, <3>2, <3>3 DEF Pending
    <2>6. call[t].kind = "write" => got'[t] \in made[t]
        <3> SUFFICES ASSUME call[t].kind = "write" PROVE got'[t] \in made[t]
            OBVIOUS
        <3>1. PICK r \in Written(t) : got' = [got EXCEPT ![t] = reply[t][r].etag]
            BY <1>3, <1>9 DEF EndRound, AllDone
        <3>2. r \in Range /\ reply[t][r].rc = "ok"
            BY <1>3 DEF Written
        <3>3. reply[t][r].etag \in made[t]
            BY <3>2 DEF IInv, CallInv, EtagInv
        <3> QED BY <3>1, <3>3 DEF IInv, TypeOK
    <2>7. ResultInv(t)'
        BY <1>1, <1>3, <2>1, <2>5, <2>6 DEF ResultInv, Returned
    <2> QED BY <1>2, <2>1, <2>3, <2>4, <2>7, StepInv DEF CallInv
<1>10. CASE AllDone(t) /\ mutex' = Free /\ NextRound(t, "lock", 0) /\ UNCHANGED faults
    <2>1. 0 \in 0..AZURE_MAX_RETRIES /\ "lock" \in PC
        BY BoundsAssumption, SMT DEF PC
    <2>2. Rounded(t, "lock")
        BY <1>10, <2>1, NextRoundFacts DEF IInv
    <2> QED BY <1>8, <1>10, <2>2
<1>11. CASE mutex' = Free /\ Return(t, "nomem") /\ Fault("setup")
    <2>1. faults' \in Nat
        BY <1>11, SMT DEF IInv, TypeOK, Fault
    <2> QED BY <1>7, <1>11, <2>1 DEF Code
<1>12. ASSUME NEW r \in Pending(t) \ Written(t), attempt[t] < BATCH_MAX_RETRIES,
              NextRound(t, "round", attempt[t] + 1), UNCHANGED mutex, UNCHANGED faults
       PROVE  IInv'
    <2>1. attempt[t] + 1 \in 0..AZURE_MAX_RETRIES /\ "round" \in PC
        BY <1>12, BoundsAssumption, SMT DEF IInv, TypeOK, PC
    <2>2. Rounded(t, "round")
        BY <1>12, <2>1, NextRoundFacts DEF IInv
    <2>3. ~AllDone(t)
        BY <1>12 DEF AllDone
    <2> QED BY <1>8, <1>12, <2>2, <2>3
<1>13. ASSUME NEW r \in Pending(t) \ Written(t), Return(t, reply[t][r].rc), mutex' = Free,
              UNCHANGED faults
       PROVE  IInv'
    <2>1. reply[t][r].rc \in Code \ {"ok"}
        BY <1>3, <1>4, <1>13 DEF Written
    <2>2. faults' \in Nat
        BY <1>13 DEF IInv, TypeOK
    <2> QED BY <1>7, <1>13, <2>1, <2>2
<1> QED BY <1>9, <1>10, <1>11, <1>12, <1>13 DEF EndRound

-----------------------------------------------------------------------------
(***************************************************************************)
(* The invariant of the request loop and of the rounds of a batch, whatever*)
(* the threads, ranges, retries, faults and calls.                         *)
(***************************************************************************)
THEOREM Invariance == Spec => []IInv
<1>1. Init => IInv
    <2> SUFFICES ASSUME Init PROVE IInv
        OBVIOUS
    <2>1. /\ 0 \in 0..AZURE_MAX_RETRIES /\ 0 \in Nat /\ 1 \in Nat /\ NoCall \in Call
        BY BoundsAssumption, SMT DEF NoCall, Call, Kind
    <2>2. "none" \in Code /\ "idle" \in PC
        BY DEF Code, PC
    <2>3. TypeOK
        BY <2>1, <2>2, NoneAnswered DEF Init, TypeOK
    <2>4. MutexReleased
        BY NamesAssumption DEF Init, MutexReleased
    <2>5. \A t \in Thread : CallInv(t)
        BY NoneAnswered DEF Init, CallInv, BatchInv, EtagInv, ResultInv
    <2> QED BY <2>3, <2>4, <2>5 DEF IInv
<1>2. IInv /\ [Next]_vars => IInv'
    <2> SUFFICES ASSUME IInv, [Next]_vars PROVE IInv'
        OBVIOUS
    <2>1. CASE Elsewhere
        BY <2>1, ElsewhereInv
    <2>2. ASSUME NEW t \in Thread, NEW kind \in Kind, NEW R \in SUBSET Range,
                 NEW cond \in 0..etag, Begin(t, kind, R, cond)
          PROVE  IInv'
        BY <2>2, BeginInv
    <2>3. ASSUME NEW t \in Thread, Step(t) PROVE IInv'
        BY <2>3, LockInv, RequestInv, RoundInv, EndRoundInv, ServeInv DEF Step
    <2>4. ASSUME NEW t \in Thread, RequestFail(t) \/ RoundFail(t) \/ Renew(t) PROVE IInv'
        BY <2>4, RequestFailInv, RoundFailInv, RenewInv
    <2>5. CASE UNCHANGED vars
        <3>1. UNCHANGED <<mutex, etag, pc, call, done, reply, got, result, landed, made, leaked>>
            BY <2>5 DEF vars, serviceVars, localVars, histVars
        <3>2. TypeOK'
            BY <2>5 DEF IInv, TypeOK, vars, serviceVars, localVars, histVars
        <3>3. MutexReleased'
            BY <3>1 DEF IInv, MutexReleased
        <3>4. etag' \in Nat /\ etag <= etag'
            BY <3>1, SMT DEF IInv, TypeOK
        <3>5. \A s \in Thread : CallInv(s)'
            BY <3>1, <3>4, KeptInv DEF IInv, Kept
        <3> QED BY <3>2, <3>3, <3>5 DEF IInv
    <2> QED BY <2>1, <2>2, <2>3, <2>4, <2>5 DEF Next
<1> QED BY <1>1, <1>2, PTL DEF Spec

(***************************************************************************)
(* Requests, replies, retries and the client's mutex keep their types.     *)
(***************************************************************************)
THEOREM TypeCorrect == Spec => []TypeOK
<1>1. IInv => TypeOK
    BY DEF IInv
<1> QED BY <1>1, Invariance, PTL

(***************************************************************************)
(* A call that returns AZURE_OK had every one of its requests take effect, *)
(* over all attempts and rounds.                                           *)
(***************************************************************************)
THEOREM AllApplied == Spec => []OkMeansApplied
<1>1. IInv => OkMeansApplied
    BY DEF IInv, CallInv, ResultInv, OkMeansApplied
<1> QED BY <1>1, Invariance, PTL

(***************************************************************************)
(* A write with If-Match takes effect at most once, however often          *)
(* execute_with_retry or a batch sends it again.                           *)
(***************************************************************************)
THEOREM AppliedOnce == Spec => []ConditionalOnce
<1>1. IInv => ConditionalOnce
    BY DEF IInv, CallInv, EtagInv, ConditionalOnce
<1> QED BY <1>1, Invariance, PTL

(***************************************************************************)
(* Every path out of a call unlocks the client's mutex, but for the failed *)
(* allocation in az_page_blob_write_batch.                                 *)
(***************************************************************************)
THEOREM ReleasedMutex == Spec => []MutexReleased
<1>1. IInv => MutexReleased
    BY DEF IInv
<1> QED BY <1>1, Invariance, PTL

(***************************************************************************)
(* The ETag that a write returns is one that the write itself has made.    *)
(***************************************************************************)
THEOREM OwnEtag == Spec => []EtagOfCall
<1>1. IInv => EtagOfCall
    BY DEF IInv, CallInv, ResultInv, EtagOfCall
<1> QED BY <1>1, Invariance, PTL
=============================================================================

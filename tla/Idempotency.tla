---------------------------- MODULE Idempotency ----------------------------
(***************************************************************************)
(* One idempotency key in Redis (common/idempotency.service.ts) and what   *)
(* it guards in the database: the creation of a charging session           *)
(* (create in charging/charging.service.ts), which is unique by user and   *)
(* key.                                                                    *)
(***************************************************************************)
EXTENDS Integers, FiniteSets

CONSTANTS
  Requests,     \* requests with the key
  MaxFaults     \* bound on locks that expire, crashes and losses of the cache

VARIABLES
  result,       \* the cached result, NoSession if there is none
  lock,         \* whether the lock is set
  session,      \* the session with the key, by number: NoSession if there is none
  made,         \* sessions made so far
  call,         \* what each request does, and its answer
  faults        \* faults so far

vars == <<result, lock, session, made, call, faults>>

-----------------------------------------------------------------------------

NoSession == 0
NoCall == [op |-> "idle", answer |-> NoSession]

Op(r) == call[r].op
Goto(r, op) == call' = [call EXCEPT ![r].op = op]
Running == {r \in Requests : Op(r) \in {"produce", "store", "release"}}
Answers == {call[r].answer : r \in {q \in Requests : Op(q) = "answered"}}

\* execute: the cached result is the answer.
Get(r) ==
  /\ Op(r) = "idle"
  /\ call' = [call EXCEPT ![r] = IF result # NoSession THEN [op |-> "answered", answer |-> result]
                                 ELSE [NoCall EXCEPT !.op = "acquire"]]
  /\ UNCHANGED <<result, lock, session, made, faults>>

\* Faulty variant: the lock is taken over.
AcquireAnyway(r) ==
  /\ Op(r) = "acquire"
  /\ lock' = TRUE
  /\ Goto(r, "produce")
  /\ UNCHANGED <<result, session, made, faults>>

\* SET NX.  The result may have been stored since it was asked for: nothing looks again.
Acquire(r) ==
  /\ Op(r) = "acquire"
  /\ lock' = TRUE
  /\ Goto(r, IF lock THEN "refused" ELSE "produce")
  /\ UNCHANGED <<result, session, made, faults>>

\* The producer.  A session with the key makes the second creation fail.
Produce(r) ==
  /\ Op(r) = "produce"
  /\ IF session = NoSession
       THEN /\ made' = made + 1
            /\ session' = made'
            /\ call' = [call EXCEPT ![r] = [op |-> "store", answer |-> made']]
       ELSE /\ Goto(r, "release")
            /\ UNCHANGED <<session, made>>
  /\ UNCHANGED <<result, lock, faults>>

\* The producer fails for another reason, and leaves no session.
ProducerThrows(r) ==
  /\ Op(r) = "produce"
  /\ Goto(r, "release")
  /\ UNCHANGED <<result, lock, session, made, faults>>

Store(r) ==
  /\ Op(r) = "store"
  /\ result' = call[r].answer
  /\ Goto(r, "release")
  /\ UNCHANGED <<lock, session, made, faults>>

\* The lock is deleted, whoever set it.
Release(r) ==
  /\ Op(r) = "release"
  /\ lock' = FALSE
  /\ Goto(r, IF call[r].answer = NoSession THEN "refused" ELSE "answered")
  /\ UNCHANGED <<result, session, made, faults>>

\* A client that got no session asks again with its key.
Retry(r) ==
  /\ Op(r) = "refused"
  /\ call' = [call EXCEPT ![r] = NoCall]
  /\ UNCHANGED <<result, lock, session, made, faults>>

-----------------------------------------------------------------------------
(* Faults *)

Fault == faults < MaxFaults /\ faults' = faults + 1

LockExpires ==
  /\ lock /\ Fault
  /\ lock' = FALSE
  /\ UNCHANGED <<result, session, made, call>>

\* The backend dies with its requests; the lock stays.
Crash ==
  /\ Fault
  /\ call' = [r \in Requests |-> IF r \in Running THEN [NoCall EXCEPT !.op = "refused"] ELSE call[r]]
  /\ UNCHANGED <<result, lock, session, made>>

\* The result expires, or Redis is restarted.
CacheLost ==
  /\ result # NoSession /\ Fault
  /\ result' = NoSession
  /\ lock' \in {lock, FALSE}
  /\ UNCHANGED <<session, made, call>>

-----------------------------------------------------------------------------

Init ==
  /\ result = NoSession /\ lock = FALSE /\ session = NoSession /\ made = 0 /\ faults = 0
  /\ call = [r \in Requests |-> NoCall]

Next ==
  \/ \E r \in Requests : Get(r) \/ Acquire(r) \/ Produce(r) \/ ProducerThrows(r) \/ Store(r)
                           \/ Release(r) \/ Retry(r)
  \/ LockExpires \/ Crash \/ CacheLost

Spec == Init /\ [][Next]_vars

-----------------------------------------------------------------------------
(* Properties *)

Call == [op : {"idle", "acquire", "produce", "store", "release", "refused", "answered"}, answer : Nat]

\* Every variable has its type.
TypeOK ==
  /\ {result, session, made, faults} \subseteq Nat
  /\ lock \in BOOLEAN
  /\ call \in [Requests -> Call]

\* Two producers of one key run at one time only if a lock has expired or been lost under its
\* owner, and then no more than one for each; and whatever is lost, a request that is answered
\* with a session is answered with the one there is, although nothing looks at the cache again
\* once the lock is taken (execute, and the unique index of create).
KeyIsHeld ==
  /\ Cardinality(Running) <= 1 + faults
  /\ Answers \subseteq {session}
=============================================================================

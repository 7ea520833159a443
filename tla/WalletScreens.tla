---------------------------- MODULE WalletScreens ----------------------------
(***************************************************************************)
(* The payment screens of the driver's app (mobile-driver/app/(tabs)/      *)
(* profile): wallet, add-funds, pix-[paymentId], auto-recharge and         *)
(* payment-center, over the queries they share (payments/query-keys.ts).   *)
(*                                                                         *)
(* Screens lie on a stack, so several are mounted.  Each shows the last    *)
(* answer of its queries; a mutation that succeeds writes an answer into   *)
(* them, or invalidates them: what a mounted screen shows is fetched       *)
(* again, the rest when a screen that shows it is mounted.  A fetch that   *)
(* is under way is replaced only by an invalidation, and only if there was *)
(* an answer before: else it ends with what the server said when it was    *)
(* asked.  Nothing aborts the requests of these screens.                   *)
(*                                                                         *)
(* Left out: amounts, the switch of the consent, the receipt, a second     *)
(* top-up, and what the backend does to the rule by itself.                *)
(***************************************************************************)
EXTENDS Naturals, Sequences

CONSTANTS
  Visits,       \* sets of screens of which a driver visits one
  MaxCalls,     \* bound on mutations
  MaxFailures   \* bound on requests that fail

VARIABLES
  server,       \* what the backend holds: the payment, whether it is credited, the rule, the methods
  visited,      \* the screens the driver visits
  opened,       \* screens on the stack
  query,        \* what each query shows, its fetch, and whether it is invalidated
  mutation,     \* the mutations under way
  form,         \* the switch of the rule's form
  unsure,       \* queries whose mutation failed, with or without effect
  calls, failures

vars == <<server, visited, opened, query, mutation, form, unsure, calls, failures>>

-----------------------------------------------------------------------------
(* Data *)

Queries == {"wallet", "intent", "rule", "methods"}
Mutations == {"topUp", "cancel", "save", "disable", "change"}

\* The queries of each screen.
Uses ==
  [wallet |-> {"wallet"}, add |-> {}, pix |-> {"intent"},
   rule |-> {"rule", "methods"}, methods |-> {"methods"}]
Screens == DOMAIN Uses

\* What a mutation writes.
Of == [topUp |-> "wallet", cancel |-> "intent", save |-> "rule", disable |-> "rule", change |-> "methods"]

\* What a query or a request carries is a tuple of one, or nothing.
Unknown == <<>>

\* The backend's isTerminal: a captured payment may still be refunded.
Terminal == {<<"CANCELLED">>, <<"EXPIRED">>}

\* crossed: the fetch under way, or a write, may end with something older than what the backend holds.
NoQuery == [shows |-> Unknown, at |-> "idle", value |-> Unknown, stale |-> FALSE, crossed |-> FALSE]

\* alone: no other mutation of the same query was under way.
NoCall == [at |-> "idle", value |-> Unknown, alone |-> TRUE]

Active(q) == \E s \in opened : q \in Uses[s]
Known(q) == query[q].shows # Unknown
UnderWay(k) == k.at \in {"asked", "answered"}

\* The screen shows neither that it loads nor an error.
Ready(s) == s \in opened /\ \A q \in Uses[s] : Known(q) /\ query[q].at # "failed"

\* What the backend answers.
Holds(q) ==
  CASE q = "wallet" -> <<server.credited>>
    [] q = "intent" -> <<server.payment>>
    [] q = "rule" -> <<server.enabled>>
    [] q = "methods" -> <<server.methods>>

\* paymentKeys: the key of the rule begins with that of the wallet.
Prefixed(q) == IF q = "wallet" THEN {"wallet", "rule"} ELSE {q}

-----------------------------------------------------------------------------
(* Queries *)

Ask(k) == [k EXCEPT !.at = "asked", !.value = Unknown, !.crossed = FALSE]

\* Faulty variant: a fetch that is under way is believed.
InvalidateIdle(q, queries) ==
  [k \in Queries |->
     IF k \notin Prefixed(q) THEN queries[k]
     ELSE IF ~Active(k) THEN [queries[k] EXCEPT !.stale = TRUE]
     ELSE IF UnderWay(queries[k]) THEN queries[k]
     ELSE Ask(queries[k])]

\* invalidateQueries
Invalidate(q, queries) ==
  [k \in Queries |->
     IF k \notin Prefixed(q) THEN queries[k]
     ELSE IF ~Active(k) THEN [queries[k] EXCEPT !.stale = TRUE, !.crossed = @ \/ UnderWay(queries[k])]
     ELSE IF UnderWay(queries[k]) /\ queries[k].shows = Unknown THEN [queries[k] EXCEPT !.crossed = TRUE]
     ELSE Ask(queries[k])]

\* setQueryData
Set(q, m, queries) ==
  [queries EXCEPT ![q].shows = mutation[m].value, ![q].stale = FALSE,
                  ![q].crossed = UnderWay(queries[q]) \/ ~mutation[m].alone]

Read(q) ==
  /\ query[q].at = "asked"
  /\ query' = [query EXCEPT ![q].at = "answered", ![q].value = Holds(q)]
  /\ UNCHANGED <<server, visited, opened, mutation, form, unsure, calls, failures>>

\* What is shown is replaced.  The Pix screen sees that it has become CAPTURED, the form of the rule that
\* it has changed.
Receive(q) ==
  /\ query[q].at = "answered"
  /\ LET k == query[q]
         seen == [query EXCEPT ![q] = [k EXCEPT !.shows = k.value, !.at = "idle", !.value = Unknown,
                                                !.stale = FALSE]]
         captured == /\ q = "intent" /\ "pix" \in opened
                     /\ k.value = <<"CAPTURED">> /\ k.shows # k.value
     IN /\ query' = IF captured THEN Invalidate("wallet", seen) ELSE seen
        /\ form' = IF q = "rule" /\ "rule" \in opened /\ k.value # k.shows THEN k.value[1] ELSE form
  /\ UNCHANGED <<server, visited, opened, mutation, unsure, calls, failures>>

\* A request and its retry fail.
FetchFails(q) ==
  /\ UnderWay(query[q])
  /\ failures < MaxFailures /\ failures' = failures + 1
  /\ query' = [query EXCEPT ![q].at = "failed", ![q].value = Unknown]
  /\ UNCHANGED <<server, visited, opened, mutation, form, unsure, calls>>

\* "Tentar novamente" asks for all that the screen shows, unless a first answer is still awaited.
Retry(s) ==
  /\ s \in opened /\ \E q \in Uses[s] : query[q].at = "failed"
  /\ \A q \in Uses[s] : Known(q) \/ ~UnderWay(query[q])
  /\ query' = [q \in Queries |-> IF q \in Uses[s] THEN Ask(query[q]) ELSE query[q]]
  /\ UNCHANGED <<server, visited, opened, mutation, form, unsure, calls, failures>>

\* refetchInterval of the Pix screen, as long as what it shows may change.
Poll ==
  /\ "pix" \in opened /\ ~UnderWay(query["intent"])
  /\ query["intent"].shows \notin Terminal
  /\ query' = [query EXCEPT !["intent"] = Ask(@)]
  /\ UNCHANGED <<server, visited, opened, mutation, form, unsure, calls, failures>>

-----------------------------------------------------------------------------
(* Screens *)

\* What is missing or invalidated is fetched, what is older than 30 s as well.
Mounted(s, queries) ==
  {[q \in Queries |-> IF q \in F THEN Ask(queries[q]) ELSE queries[q]] :
     F \in {F \in SUBSET {q \in Uses[s] : ~UnderWay(queries[q])} :
              \A q \in Uses[s] :
                ~UnderWay(queries[q]) /\ (queries[q].shows = Unknown \/ queries[q].stale) => q \in F}}

\* The Pix screen is opened by the top-up only.
Open(s) ==
  /\ s \in visited \ (opened \cup {"pix"})
  /\ opened' = opened \cup {s}
  /\ query' \in Mounted(s, query)
  /\ form' = IF s = "rule" THEN Known("rule") /\ query["rule"].shows[1] ELSE form
  /\ UNCHANGED <<server, visited, mutation, unsure, calls, failures>>

Leave(s) ==
  /\ s \in opened /\ opened' = opened \ {s}
  /\ UNCHANGED <<server, visited, query, mutation, form, unsure, calls, failures>>

Toggle ==
  /\ Ready("rule") /\ form' = ~form
  /\ UNCHANGED <<server, visited, opened, query, mutation, unsure, calls, failures>>

-----------------------------------------------------------------------------
(* Mutations *)

\* The button is there.
Offered(m) ==
  CASE m = "topUp" -> Ready("add") /\ server.payment = "none"
    [] m = "cancel" -> Ready("pix") /\ query["intent"].shows = <<"PENDING">>
    [] m = "save" -> Ready("rule")
    [] m = "disable" -> Ready("rule") /\ query["rule"].shows = <<TRUE>>
    [] m = "change" -> Ready("methods")

Others(m) == {n \in Mutations \ {m} : Of[n] = Of[m] /\ mutation[n].at # "idle"}

Press(m) ==
  /\ Offered(m) /\ mutation[m].at = "idle"
  /\ calls < MaxCalls /\ calls' = calls + 1
  /\ mutation' = [n \in Mutations |->
       IF n = m THEN [at |-> "sent", value |-> IF m = "save" THEN <<form>> ELSE Unknown, alone |-> Others(m) = {}]
       ELSE IF n \in Others(m) THEN [mutation[n] EXCEPT !.alone = FALSE]
       ELSE mutation[n]]
  /\ UNCHANGED <<server, visited, opened, query, form, unsure, failures>>

\* The backend does it.
Commit(m) ==
  /\ mutation[m].at = "sent"
  /\ m = "cancel" => server.payment = "PENDING"
  /\ server' =
       CASE m = "topUp" -> [server EXCEPT !.payment = "PENDING"]
         [] m = "cancel" -> [server EXCEPT !.payment = "CANCELLED"]
         [] m = "save" -> [server EXCEPT !.enabled = mutation[m].value[1]]
         [] m = "disable" -> [server EXCEPT !.enabled = FALSE]
         [] m = "change" -> [server EXCEPT !.methods = @ + 1]
  /\ mutation' = [mutation EXCEPT ![m].at = "done",
                          ![m].value = CASE m = "cancel" -> <<"CANCELLED">>
                                         [] m = "disable" -> <<FALSE>>
                                         [] OTHER -> @]
  /\ UNCHANGED <<visited, opened, query, form, unsure, calls, failures>>

\* Only a pending payment can be cancelled.
Refuse ==
  /\ mutation["cancel"].at = "sent" /\ server.payment # "PENDING"
  /\ mutation' = [mutation EXCEPT !["cancel"] = NoCall]
  /\ UNCHANGED <<server, visited, opened, query, form, unsure, calls, failures>>

\* onSuccess, as far as its first await.
Succeed(m) ==
  /\ mutation[m].at = "done"
  /\ query' =
       CASE m \in {"topUp", "change"} -> Invalidate(Of[m], query)
         [] m = "save" -> Invalidate("rule", Set("rule", m, query))
         [] m \in {"cancel", "disable"} -> Set(Of[m], m, query)
  /\ form' = CASE m = "disable" -> FALSE
               [] m = "save" /\ "rule" \in opened /\ query["rule"].shows # mutation[m].value -> mutation[m].value[1]
               [] OTHER -> form
  /\ mutation' = [mutation EXCEPT ![m] = IF m \in {"cancel", "disable"} THEN NoCall ELSE [@ EXCEPT !.at = "settling"]]
  /\ UNCHANGED <<server, visited, opened, unsure, calls, failures>>

\* What was invalidated has been fetched, or has failed.  The form of the top-up gives way to the Pix screen.
Settle(m) ==
  /\ mutation[m].at = "settling"
  /\ \A q \in Prefixed(Of[m]) : Active(q) => ~UnderWay(query[q])
  /\ mutation' = [mutation EXCEPT ![m] = NoCall]
  /\ IF m = "topUp"
     THEN opened' = (opened \ {"add"}) \cup {"pix"} /\ query' \in Mounted("pix", query)
     ELSE UNCHANGED <<opened, query>>
  /\ UNCHANGED <<server, visited, form, unsure, calls, failures>>

\* onError: the request or its answer is lost.
Lose(m) ==
  /\ mutation[m].at \in {"sent", "done"}
  /\ failures < MaxFailures /\ failures' = failures + 1
  /\ mutation' = [mutation EXCEPT ![m] = NoCall]
  /\ unsure' = unsure \cup {Of[m]}
  /\ UNCHANGED <<server, visited, opened, query, form, calls>>

-----------------------------------------------------------------------------
(* The backend *)

\* The driver pays: the wallet is credited before the payment is captured.
Pay ==
  /\ server.payment = "PENDING"
  /\ server' = IF server.credited THEN [server EXCEPT !.payment = "CAPTURED"]
               ELSE [server EXCEPT !.credited = TRUE]
  /\ UNCHANGED <<visited, opened, query, mutation, form, unsure, calls, failures>>

Expire ==
  /\ server.payment = "PENDING" /\ ~server.credited
  /\ server' = [server EXCEPT !.payment = "EXPIRED"]
  /\ UNCHANGED <<visited, opened, query, mutation, form, unsure, calls, failures>>

Init ==
  /\ server \in [payment : {"none"}, credited : {FALSE}, enabled : BOOLEAN, methods : {0}]
  /\ visited \in Visits /\ opened = {} /\ query = [q \in Queries |-> NoQuery] /\ mutation = [m \in Mutations |-> NoCall]
  /\ form = FALSE /\ unsure = {} /\ calls = 0 /\ failures = 0

Next ==
  \/ \E q \in Queries : Read(q) \/ Receive(q) \/ FetchFails(q)
  \/ \E s \in Screens : Open(s) \/ Leave(s) \/ Retry(s)
  \/ \E m \in Mutations : Press(m) \/ Commit(m) \/ Succeed(m) \/ Settle(m) \/ Lose(m)
  \/ Poll \/ Toggle \/ Refuse \/ Pay \/ Expire

Spec == Init /\ [][Next]_vars

\* The interval of the Pix screen goes on after errors, and requests end.
Fairness == WF_vars(Poll) /\ WF_vars(Read("intent")) /\ WF_vars(Receive("intent"))

FairSpec == Spec /\ Fairness

-----------------------------------------------------------------------------
(* Properties *)

\* Every variable has its type.
TypeOK ==
  /\ server.payment \in {"none", "PENDING", "CAPTURED", "CANCELLED", "EXPIRED"}
  /\ opened \subseteq visited /\ visited \subseteq Screens /\ unsure \subseteq Queries
  /\ \A q \in Queries : query[q].at \in {"idle", "asked", "answered", "failed"}
  /\ \A m \in Mutations : mutation[m].at \in {"idle", "sent", "done", "settling"}
  /\ form \in BOOLEAN

\* Nothing is on its way to the query, and nothing was lost or has crossed.
Quiet(q) ==
  /\ Known(q) /\ query[q].at = "idle" /\ ~query[q].stale /\ ~query[q].crossed
  /\ q \notin unsure /\ \A m \in Mutations : Of[m] = q => mutation[m].at = "idle"

\* A rule and a list of methods that rest are those the backend holds, whatever mutations and screens met;
\* and a driver who is shown that the payment is captured finds its credit in a wallet that rests (the
\* mutations and the effect of the screens).
ScreensAreTrue ==
  /\ \A q \in {"rule", "methods"} : Quiet(q) => query[q].shows = Holds(q)
  /\ "pix" \in opened /\ query["intent"].shows = <<"CAPTURED">> /\ Quiet("wallet") =>
       query["wallet"].shows = <<TRUE>>

\* A driver who stays on the Pix screen is shown how the payment ended, also if the cancellation is answered
\* while an older poll is under way (refetchInterval).
PaymentEndIsShown ==
  ("pix" \in opened /\ server.payment \in {"CAPTURED", "CANCELLED", "EXPIRED"})
    ~> ("pix" \notin opened \/ query["intent"].shows = Holds("intent"))
=============================================================================

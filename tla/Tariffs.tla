------------------------------ MODULE Tariffs ------------------------------
(***************************************************************************)
(* Tariffs of a station: drafts, their publication and their archival      *)
(* (admin/admin-operations.service.ts), and the tariff a new charging      *)
(* session takes (charging/charging.service.ts).  A publication is a READ  *)
(* COMMITTED transaction whose reads come before the row is locked; an     *)
(* archival reads outside any transaction.                                 *)
(***************************************************************************)
EXTENDS Integers, FiniteSets

CONSTANTS
  TariffIds,    \* tariffs that may be created
  Requests,     \* places for one request in flight each
  LastDay       \* bound on time

VARIABLES
  tariff,       \* tariffs
  versions,     \* tariff_versions: their numbers, by tariff
  request,      \* the request in each place
  today,        \* the clock
  taken         \* the tariff the last new session has its snapshot of, as it was then

vars == <<tariff, versions, request, today, taken>>

-----------------------------------------------------------------------------
(* Data *)

\* published, archived: publishedAt, archivedAt are set.  from, until: validFrom and validUntil;
\* never stands for null.
never == LastDay + 1
NoTariff == [status |-> "none", published |-> FALSE, archived |-> FALSE, from |-> 0, until |-> never]

NoRequest == [op |-> "idle", id |-> "none", read |-> {}]

Published == {t \in TariffIds : tariff[t].status = "PUBLISHED"}

Done(r) == request' = [request EXCEPT ![r] = NoRequest]

-----------------------------------------------------------------------------

\* createTariff: a draft, valid from the day given or from now.
CreateTariff(t, from) ==
  /\ tariff[t] = NoTariff
  /\ tariff' = [tariff EXCEPT ![t].status = "DRAFT", ![t].from = from]
  /\ UNCHANGED <<versions, request, today, taken>>

\* publishTariff, its reads: a published tariff is answered as it is, an archived one refused.
ReadDraft(r, t) ==
  /\ request[r] = NoRequest
  /\ tariff[t].status = "DRAFT"
  /\ request' = [request EXCEPT ![r] = [op |-> "publish", id |-> t, read |-> versions[t]]]
  /\ UNCHANGED <<tariff, versions, today, taken>>

\* Faulty variant: the version of a publication that lost the race replaces the other.
PublishOver(r) ==
  LET t == request[r].id IN
  /\ request[r].op = "publish"
  /\ tariff' = [tariff EXCEPT ![t].status = "PUBLISHED", ![t].published = TRUE]
  /\ versions' = [versions EXCEPT ![t] = @ \cup {Cardinality(@) + 1}]
  /\ Done(r)
  /\ UNCHANGED <<today, taken>>

\* publishTariff, its writes: the tariff whatever it is now, and the version after those it
\* read.  The number is unique: a second publication is rolled back as a whole.
PublishTariff(r) ==
  LET t == request[r].id n == Cardinality(request[r].read) + 1 IN
  /\ request[r].op = "publish"
  /\ IF n \in versions[t]
       THEN UNCHANGED <<tariff, versions>>
       ELSE /\ tariff' = [tariff EXCEPT ![t].status = "PUBLISHED", ![t].published = TRUE]
            /\ versions' = [versions EXCEPT ![t] = @ \cup {n}]
  /\ Done(r)
  /\ UNCHANGED <<today, taken>>

\* archiveTariff: nothing is asked of the status; an end of validity that was set stays.
ReadToArchive(r, t) ==
  /\ request[r] = NoRequest
  /\ tariff[t] # NoTariff
  /\ request' = [request EXCEPT ![r] = [op |-> "archive", id |-> t, read |-> {}]]
  /\ UNCHANGED <<tariff, versions, today, taken>>

ArchiveTariff(r) ==
  LET t == request[r].id IN
  /\ request[r].op = "archive"
  /\ tariff' = [tariff EXCEPT ![t].status = "ARCHIVED", ![t].archived = TRUE,
                              ![t].until = IF @ = never THEN today ELSE @]
  /\ Done(r)
  /\ UNCHANGED <<versions, today, taken>>

-----------------------------------------------------------------------------
(* A new charging session *)

InForce == {t \in TariffIds : /\ tariff[t].status # "none"
                              /\ tariff[t].from <= today
                              /\ tariff[t].until > today}

\* ChargingService.create: of the tariffs in force the one that is valid since last.
TakeTariff ==
  /\ \E t \in InForce :
       /\ \A o \in InForce : tariff[o].from <= tariff[t].from
       /\ taken' = tariff[t]
  /\ UNCHANGED <<tariff, versions, request, today>>

Tick ==
  /\ today < LastDay
  /\ today' = today + 1
  /\ UNCHANGED <<tariff, versions, request, taken>>

-----------------------------------------------------------------------------

Init ==
  /\ tariff = [t \in TariffIds |-> NoTariff]
  /\ versions = [t \in TariffIds |-> {}]
  /\ request = [r \in Requests |-> NoRequest]
  /\ today = 0 /\ taken = NoTariff

Next ==
  \/ \E t \in TariffIds, from \in 0 .. LastDay : CreateTariff(t, from)
  \/ TakeTariff \/ Tick
  \/ \E r \in Requests :
       \/ \E t \in TariffIds : ReadDraft(r, t) \/ ReadToArchive(r, t)
       \/ PublishTariff(r) \/ ArchiveTariff(r)

Spec == Init /\ [][Next]_vars

-----------------------------------------------------------------------------
(* Properties *)

\* Every variable has its type.
TypeOK ==
  /\ tariff \in [TariffIds -> [status : {"none", "DRAFT", "PUBLISHED", "ARCHIVED"},
                               published : BOOLEAN, archived : BOOLEAN,
                               from : 0 .. LastDay, until : 0 .. never]]
  /\ \A t \in TariffIds : versions[t] \subseteq Nat
  /\ today \in 0 .. LastDay

\* A tariff was published exactly once, however many publications and archivals of it are under
\* way at one time: it has one version, with the number 1, if it is or was published, and none
\* otherwise (publishTariff).
PublishedHasVersion ==
  \A t \in TariffIds : versions[t] = (IF tariff[t].published THEN {1} ELSE {})

\* TariffFormPage.tsx: a draft can be reviewed before it is published.  No session is charged by
\* a tariff that was never published.
DraftIsNotCharged == taken # NoTariff => taken.published
=============================================================================

----------------------------- MODULE StationSearch -----------------------------
(***************************************************************************)
(* The search of stations: the screen of the map and the list              *)
(* (mobile-driver/app/(tabs)/stations/index.tsx), its filters, the cache   *)
(* of its query, and the service that answers it                           *)
(* (backend/src/stations/stations.service.ts).                             *)
(*                                                                         *)
(* The service answers from two reads.  The screen keeps the answers by    *)
(* what they were asked for, shows the last ones while the next are        *)
(* fetched, and filters whatever it shows again by itself.                 *)
(***************************************************************************)
EXTENDS Integers, FiniteSets

CONSTANTS
  StationIds,   \* numbers of the stations
  MaxFetches,   \* bound on requests of the screen
  MaxChanges    \* bound on changes of stations

VARIABLES
  sites,        \* stations, with whether a connector is free
  filters,      \* of the map's store
  draft,        \* of the screen of the filters, while it is open
  origin,       \* where the phone is, or the fallback
  typed,        \* searchQuery
  search,       \* debouncedSearch
  cache,        \* answers of the query by key; still: stations that have not changed since it was asked
  fetch,        \* the request of the current key
  previous,     \* key of the last answer that was shown
  fetches, changes

store == <<filters, draft, origin, typed, search>>
query == <<cache, fetch, previous, fetches>>
vars == <<sites, store, query, changes>>

-----------------------------------------------------------------------------
(* Data *)

None == 0
Near == 1
Sites == [there : BOOLEAN, free : BOOLEAN]
Words == {None, Near}
Origins == {"fallback", "here"}

NoFilters == [distance |-> 2, fast |-> FALSE, free |-> FALSE]
Narrow == [distance |-> 1, fast |-> FALSE, free |-> TRUE]
Quick(f) == [f EXCEPT !.fast = ~@]
Closed == [NoFilters EXCEPT !.distance = 0]
Filters == {NoFilters, Narrow, Quick(NoFilters), Quick(Narrow)}

\* Half of the stations are near the fallback, the others near the phone; the first one is fast, and what is
\* typed names it.
Distance(s, o) == IF (s % 2 = 1) = (o = "fallback") THEN 1 ELSE 2
IsFast(s) == s = Near

\* Faulty variant: one answer for all places.
KeyOfFilters(f, o) == <<f, "fallback">>

\* queryKey
KeyOf(f, o) == <<f, o>>

Keys == {KeyOf(f, o) : f \in Filters, o \in Origins}
Key == KeyOf(filters, origin)

NoAnswer == [known |-> FALSE, data |-> <<>>, still |-> {}]
Idle == [at |-> "idle", found |-> {}, still |-> {}]
Asked == [at |-> "asked", found |-> {}, still |-> StationIds]

HasAnswer(k) == cache[k].known

-----------------------------------------------------------------------------
(* The query *)

\* Another key is observed: the request of the old one is aborted, and what is missing or has become stale
\* is asked for.
Look(f, o) ==
  /\ filters' = f /\ origin' = o
  /\ LET k == KeyOf(f, o) IN
       IF k = Key THEN UNCHANGED query
       ELSE /\ previous' = IF HasAnswer(k) THEN k ELSE previous
            /\ \/ HasAnswer(k) /\ fetch' = Idle /\ UNCHANGED fetches
               \/ fetches < MaxFetches /\ fetch' = Asked /\ fetches' = fetches + 1
            /\ UNCHANGED cache

\* The button, the pull, or the return to the screen with a stale answer.
Refresh ==
  /\ fetch.at \in {"idle", "failed"}
  /\ fetches < MaxFetches /\ fetches' = fetches + 1
  /\ fetch' = Asked
  /\ UNCHANGED <<sites, store, cache, previous, changes>>

Resolve(data) ==
  /\ cache' = [cache EXCEPT ![Key] = [known |-> TRUE, data |-> data, still |-> fetch.still]]
  /\ previous' = Key
  /\ fetch' = Idle

\* nearby: the ids within the distance.
ReadDistances ==
  /\ fetch.at = "asked"
  /\ LET found == {s \in StationIds : sites[s].there /\ Distance(s, origin) <= filters.distance} IN
       IF found = {} THEN Resolve(<<>>)
       ELSE fetch' = [fetch EXCEPT !.at = "found", !.found = found] /\ UNCHANGED <<cache, previous>>
  /\ UNCHANGED <<sites, store, fetches, changes>>

\* The stations of the ids that are still there, with the power that is asked for.
ReadStations ==
  /\ fetch.at = "found"
  /\ LET found == {s \in fetch.found : sites[s].there /\ (filters.fast => IsFast(s))}
     IN Resolve([s \in found |-> sites[s].free])
  /\ UNCHANGED <<sites, store, fetches, changes>>

\* The request and its retry have failed.
FetchFails ==
  /\ fetch.at \in {"asked", "found"}
  /\ fetch' = [Idle EXCEPT !.at = "failed"]
  /\ UNCHANGED <<sites, store, cache, previous, fetches, changes>>

-----------------------------------------------------------------------------
(* The screen *)

\* The position of the phone becomes known, or the screen starts anew without it.
Move ==
  /\ \E o \in Origins \ {origin} : Look(filters, o)
  /\ UNCHANGED <<sites, draft, typed, search, changes>>

\* The chip of fast chargers.
QuickFilter ==
  /\ draft = Closed
  /\ Look(Quick(filters), origin)
  /\ UNCHANGED <<sites, draft, typed, search, changes>>

OpenFilters ==
  /\ draft = Closed /\ draft' = filters
  /\ UNCHANGED <<sites, filters, origin, typed, search, query, changes>>

EditFilters ==
  /\ draft # Closed /\ draft' \in Filters \ {draft}
  /\ UNCHANGED <<sites, filters, origin, typed, search, query, changes>>

ApplyFilters ==
  /\ draft # Closed /\ draft' = Closed
  /\ Look(draft, origin)
  /\ UNCHANGED <<sites, typed, search, changes>>

LeaveFilters ==
  /\ draft # Closed /\ draft' = Closed
  /\ UNCHANGED <<sites, filters, origin, typed, search, query, changes>>

\* The search of the empty list is cleared with the filters.
ClearAll ==
  /\ draft = Closed
  /\ typed' = None
  /\ Look(NoFilters, origin)
  /\ UNCHANGED <<sites, draft, search, changes>>

Type ==
  /\ draft = Closed
  /\ typed' \in Words \ {typed}
  /\ UNCHANGED <<sites, filters, draft, origin, search, query, changes>>

Debounce ==
  /\ search # typed /\ search' = typed
  /\ UNCHANGED <<sites, filters, draft, origin, typed, query, changes>>

\* An operator, or a driver who charges.
Change ==
  /\ changes < MaxChanges /\ changes' = changes + 1
  /\ \E s \in StationIds, site \in Sites :
       /\ sites[s] # site /\ sites' = [sites EXCEPT ![s] = site]
       /\ cache' = [k \in Keys |-> [cache[k] EXCEPT !.still = @ \ {s}]]
       /\ fetch' = [fetch EXCEPT !.still = @ \ {s}]
  /\ UNCHANGED <<store, previous, fetches>>

\* stationsQuery.data: the answer of the key, or the last one while the first of the key is fetched.
Data ==
  IF HasAnswer(Key) THEN cache[Key].data
  ELSE IF fetch.at = "failed" \/ ~HasAnswer(previous) THEN <<>>
  ELSE cache[previous].data

\* discoverStations: distances are computed anew, and every filter is applied again.
Discover(data) ==
  {s \in DOMAIN data :
     /\ Distance(s, origin) <= filters.distance
     /\ filters.fast => IsFast(s)
     /\ filters.free => data[s]
     /\ search \in {None, s}}

Shown == Discover(Data)

Init ==
  /\ sites \in [StationIds -> Sites]
  /\ filters = NoFilters /\ draft = Closed /\ origin = "fallback" /\ typed = None /\ search = None
  /\ cache = [k \in Keys |-> NoAnswer] /\ previous = Key
  /\ fetch = Asked /\ fetches = 1
  /\ changes = 0

Next ==
  \/ Move \/ QuickFilter \/ OpenFilters \/ EditFilters \/ ApplyFilters \/ LeaveFilters \/ ClearAll
  \/ Type \/ Debounce
  \/ Refresh \/ ReadDistances \/ ReadStations \/ FetchFails
  \/ Change

Spec == Init /\ [][Next]_vars

-----------------------------------------------------------------------------
(* Properties *)

\* Every variable has its type.
TypeOK ==
  /\ sites \in [StationIds -> Sites]
  /\ filters \in Filters /\ draft \in Filters \cup {Closed} /\ origin \in Origins
  /\ typed \in Words /\ search \in Words
  /\ fetch.at \in {"idle", "asked", "found", "failed"} /\ previous \in Keys
  /\ \A k \in Keys : cache[k].still \subseteq StationIds

\* A station that is there and fits what the driver asked for.
Fits(s) ==
  /\ sites[s].there /\ Distance(s, origin) <= filters.distance
  /\ filters.fast => IsFast(s)
  /\ filters.free => sites[s].free
  /\ search \in {None, s}

\* Whatever answer is shown, no station of it is out of the distance and the power asked for now; once
\* nothing is fetched and nothing has failed there is an answer to what is asked now; and as soon as there
\* is one, every station that has not changed since it was asked for is shown if and only if it fits now
\* (queryKey, placeholderData, discoverStations, StationsService.nearby).
SearchIsRight ==
  /\ \A s \in Shown : Distance(s, origin) <= filters.distance /\ (filters.fast => IsFast(s))
  /\ fetch.at = "idle" => HasAnswer(Key)
  /\ \A s \in cache[Key].still : s \in Shown <=> Fits(s)
=============================================================================

------------------------------ MODULE Stations ------------------------------
(***************************************************************************)
(* A station that several operators edit and archive                       *)
(* (admin/admin-operations.service.ts).  An edit is guarded by the version *)
(* its operator saw; its coordinates are stored twice, as columns and as a *)
(* point, by statements that are not in one transaction.                   *)
(***************************************************************************)
EXTENDS Integers

CONSTANTS
  Places,       \* values of a coordinate
  Requests,     \* places for one request in flight each
  MaxVersion    \* bound on edits

VARIABLES
  station,      \* the row of the station
  held,         \* coordinates the row has had
  request       \* the request in each place

vars == <<station, held, request>>

-----------------------------------------------------------------------------
(* Data *)

Keep == "keep"       \* a field the input leaves out
NoRequest == [op |-> "idle", version |-> 0, lat |-> Keep, lng |-> Keep, status |-> Keep,
              point |-> <<>>]

StationStatus == {"ONLINE", "OFFLINE"}

Op(r) == request[r].op
New(value, old) == IF value = Keep THEN old ELSE value
Done(r) == request' = [request EXCEPT ![r] = NoRequest]

-----------------------------------------------------------------------------
(* updateStation *)

\* The station is found; the version is one its operator has seen.
BeginUpdate(r, lat, lng, status) ==
  /\ Op(r) = "idle" /\ ~station.deleted /\ station.version < MaxVersion
  /\ request' = [request EXCEPT ![r] = [NoRequest EXCEPT !.op = "update", !.version = station.version,
                                          !.lat = lat, !.lng = lng, !.status = status]]
  /\ UNCHANGED <<station, held>>

\* One statement, which changes the row if nobody has since it was seen.
UpdateStation(r) ==
  LET lat == New(request[r].lat, station.lat) lng == New(request[r].lng, station.lng) IN
  /\ Op(r) = "update"
  /\ IF station.version # request[r].version
       THEN Done(r) /\ UNCHANGED <<station, held>>
       ELSE /\ station' = [station EXCEPT !.lat = lat, !.lng = lng, !.version = @ + 1,
                                          !.status = New(request[r].status, @)]
            /\ held' = held \cup {<<lat, lng>>}
            /\ request' = [request EXCEPT ![r].op = "read"]

\* Faulty variant: the point is made of the input, and of the row for what the input leaves out.
PointOfInput(r) ==
  IF request[r].lat = Keep /\ request[r].lng = Keep
    THEN Done(r)
    ELSE request' = [request EXCEPT ![r].op = "locate",
                       ![r].point = <<New(request[r].lat, station.lat), New(request[r].lng, station.lng)>>]

\* The row is read again, as it is by now, if a coordinate was given.
PointOfRow(r) ==
  IF request[r].lat = Keep /\ request[r].lng = Keep
    THEN Done(r)
    ELSE request' = [request EXCEPT ![r].op = "locate", ![r].point = <<station.lat, station.lng>>]

ReadBack(r) ==
  /\ Op(r) = "read"
  /\ PointOfRow(r)
  /\ UNCHANGED <<station, held>>

SetLocation(r) ==
  /\ Op(r) = "locate"
  /\ station' = [station EXCEPT !.location = request[r].point]
  /\ Done(r)
  /\ UNCHANGED held

-----------------------------------------------------------------------------
(* archiveStation *)

BeginArchive(r) ==
  /\ Op(r) = "idle" /\ ~station.deleted
  /\ request' = [request EXCEPT ![r].op = "archive"]
  /\ UNCHANGED <<station, held>>

ArchivedRow == [station EXCEPT !.deleted = TRUE, !.status = "OFFLINE", !.version = @ + 1]

ArchiveStation(r) ==
  /\ Op(r) = "archive"
  /\ station' = ArchivedRow
  /\ Done(r)
  /\ UNCHANGED held

-----------------------------------------------------------------------------

\* createStation writes columns and point in one transaction.
Init ==
  /\ \E lat, lng \in Places :
       /\ station = [version |-> 1, lat |-> lat, lng |-> lng, location |-> <<lat, lng>>,
                     status |-> "ONLINE", deleted |-> FALSE]
       /\ held = {<<lat, lng>>}
  /\ request = [r \in Requests |-> NoRequest]

Next ==
  \E r \in Requests :
    \/ \E lat, lng \in Places \cup {Keep}, s \in StationStatus \cup {Keep} : BeginUpdate(r, lat, lng, s)
    \/ UpdateStation(r) \/ ReadBack(r) \/ SetLocation(r)
    \/ BeginArchive(r) \/ ArchiveStation(r)

Spec == Init /\ [][Next]_vars

-----------------------------------------------------------------------------
(* Properties *)

Station ==
  [version : Nat, lat : Places, lng : Places, location : Places \X Places,
   status : StationStatus, deleted : BOOLEAN]
Request ==
  [op : {"idle", "update", "read", "locate", "archive"}, version : Nat,
   lat : Places \cup {Keep}, lng : Places \cup {Keep}, status : StationStatus \cup {Keep},
   point : (Places \X Places) \cup {<<>>}]

\* Every variable has its type.
TypeOK ==
  /\ station \in Station
  /\ held \subseteq Places \X Places
  /\ request \in [Requests -> Request]

\* The point of a station is a pair of coordinates its row has had, never one coordinate of an
\* edit with the other of another; and an archived station is offline for good, whatever edits
\* were under way when it was archived (updateStation, archiveStation).
StationIsCoherent ==
  /\ station.location \in held
  /\ station.deleted => station.status = "OFFLINE"
=============================================================================

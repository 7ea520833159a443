---------------------------- MODULE UserLocation ----------------------------
(***************************************************************************)
(* The position of the user in the driver's app: the hook of the map's     *)
(* screen (src/location/useUserLocation.ts) over the service that asks the *)
(* phone (src/location/LocationService.ts).                                *)
(*                                                                         *)
(* Every operation of the hook has an AbortController of its own; the next *)
(* operation, or the end of the screen, aborts it at whatever await it is. *)
(* An operation that found the position goes on to watch it.               *)
(***************************************************************************)
EXTENDS Naturals, FiniteSets, FiniteSetsExt

CONSTANT MaxLocates   \* bound on operations

VARIABLES
  phone,        \* the permission of the app, and whether the GPS is on
  mounted,      \* mountedRef
  current,      \* operationRef
  operation,    \* where each operation is, with what it has read
  aborted,      \* controllers that are aborted
  subscribed,   \* subscriptions of the operations that the phone serves
  view          \* what the hook returns

vars == <<phone, mounted, current, operation, aborted, subscribed, view>>

-----------------------------------------------------------------------------
(* Data *)

None == 0
Locates == 1 .. MaxLocates

Permissions == {"not-requested", "granted", "denied", "blocked"}

\* The end of requestCurrentLocation.
Failures == {"permission-denied", "permission-blocked", "services-disabled", "unavailable",
             "timeout", "cancelled", "native-error"}
Results == Failures \cup {"ok"}

NoOperation == [at |-> "none", ask |-> FALSE, result |-> "none"]

Goto(o, step) == operation' = [operation EXCEPT ![o].at = step]

\* requestCurrentLocation resolves.
Resolve(o, result) == operation' = [operation EXCEPT ![o].at = "located", ![o].result = result]

\* mountedRef.current and not controller.signal.aborted
Wanted(o) == mounted /\ o \notin aborted

\* What abort() makes of an operation at once: a wait for the position ends.
Cancelled(o) ==
  IF operation[o].at = "position"
    THEN [operation EXCEPT ![o].at = "located", ![o].result = "cancelled"]
    ELSE operation

\* stop: the subscription listens to the signal, and the one in watchStopRef is stopped as well.
Stop ==
  /\ aborted' = aborted \cup ({current} \ {None})
  /\ subscribed' = subscribed \ {current}

Refused(permission) == IF permission = "blocked" THEN "permission-blocked" ELSE "permission-denied"

\* getPermissionState: the phone may fail to answer it.
PermissionStates == {phone.permission, "denied"}

-----------------------------------------------------------------------------
(* The hook *)

\* The first effect reads the permission under a controller of its own.
Mount ==
  /\ ~mounted /\ current = None
  /\ mounted' = TRUE
  /\ current' = 1
  /\ operation' = [operation EXCEPT ![1].at = "mount"]
  /\ UNCHANGED <<phone, aborted, subscribed, view>>

\* A new operation under the next controller; from is what the caller's own operation becomes.
Locate(o, ask, from) ==
  /\ o = Max({p \in Locates : operation[p].at # "none"}) + 1 /\ o \in Locates
  /\ Stop
  /\ current' = o
  /\ operation' = [from EXCEPT ![o] = [at |-> "permission", ask |-> ask, result |-> "none"]]

\* refresh and requestPermission, by the buttons of the screen.
Ask(o, ask) ==
  /\ mounted
  /\ Locate(o, ask, Cancelled(current))
  /\ view' = [view EXCEPT !.loading = TRUE, !.error = "none"]
  /\ UNCHANGED <<phone, mounted>>

\* The first effect goes on; locate(false) follows if the permission is granted.
Mounted ==
  \E permission \in PermissionStates, o \in Locates :
    /\ operation[1].at = "mount"
    /\ IF Wanted(1)
         THEN IF permission = "granted"
                THEN /\ Locate(o, FALSE, [operation EXCEPT ![1].at = "done"])
                     /\ view' = [view EXCEPT !.permission = permission, !.loading = TRUE, !.error = "none"]
                ELSE /\ view' = [view EXCEPT !.permission = permission, !.loading = FALSE]
                     /\ Goto(1, "done")
                     /\ UNCHANGED <<current, aborted, subscribed>>
         ELSE Goto(1, "done") /\ UNCHANGED <<current, aborted, subscribed, view>>
    /\ UNCHANGED <<phone, mounted>>

\* The screen ends: the effect's controller and the current one are aborted.
Unmount ==
  /\ mounted
  /\ mounted' = FALSE
  /\ operation' = Cancelled(current)
  /\ aborted' = aborted \cup {1, current}
  /\ subscribed' = subscribed \ {current}
  /\ UNCHANGED <<phone, current, view>>

\* After requestCurrentLocation the permission is read again, unless nobody wants the result.
Located(o) ==
  /\ operation[o].at = "located"
  /\ Goto(o, IF Wanted(o) THEN "state" ELSE "done")
  /\ UNCHANGED <<phone, mounted, current, aborted, subscribed, view>>

\* The result is shown, and a position is watched from then on.
Show(o) ==
  /\ operation[o].at = "state"
  /\ \E permission \in PermissionStates :
       IF ~Wanted(o) THEN Goto(o, "done") /\ UNCHANGED view
       ELSE IF operation[o].result = "ok"
         THEN /\ view' = [position |-> o, error |-> "none", loading |-> FALSE, permission |-> permission]
              /\ Goto(o, "watch permission")
         ELSE /\ view' = [view EXCEPT !.error = operation[o].result, !.loading = FALSE,
                                      !.permission = permission]
              /\ Goto(o, "done")
  /\ UNCHANGED <<phone, mounted, current, aborted, subscribed>>

-----------------------------------------------------------------------------
(* requestCurrentLocation *)

\* The user may be asked, and answers.
AnswerPermission(o) ==
  /\ operation[o].at = "permission"
  /\ \E answer \in IF operation[o].ask /\ phone.permission # "blocked"
                     THEN {"granted", "denied", "blocked"} ELSE {phone.permission} :
       /\ phone' = [phone EXCEPT !.permission = answer]
       /\ \/ answer = "granted" /\ Goto(o, "services")
          \/ answer # "granted" /\ Resolve(o, Refused(answer))
          \/ Resolve(o, "native-error")
  /\ UNCHANGED <<mounted, current, aborted, subscribed, view>>

\* withControls looks at the signal before it waits.
AnswerServices(o) ==
  /\ operation[o].at = "services"
  /\ \/ ~phone.gps /\ Resolve(o, "services-disabled")
     \/ phone.gps /\ o \in aborted /\ Resolve(o, "cancelled")
     \/ phone.gps /\ o \notin aborted /\ Goto(o, "position")
     \/ Resolve(o, "native-error")
  /\ UNCHANGED <<phone, mounted, current, aborted, subscribed, view>>

\* The position, an error of the phone, or the time is up.
AnswerPosition(o) ==
  /\ operation[o].at = "position"
  /\ \E result \in {"ok", "unavailable", "timeout"} : Resolve(o, result)
  /\ UNCHANGED <<phone, mounted, current, aborted, subscribed, view>>

-----------------------------------------------------------------------------
(* watchLocation *)

WatchPermission(o) ==
  /\ operation[o].at = "watch permission"
  /\ \E permission \in PermissionStates :
       Goto(o, IF permission = "granted" THEN "watch services" ELSE "done")
  /\ UNCHANGED <<phone, mounted, current, aborted, subscribed, view>>

WatchServices(o) ==
  /\ operation[o].at = "watch services"
  /\ \/ Goto(o, IF phone.gps THEN "watch" ELSE "done")
     \/ Goto(o, "done")
  /\ UNCHANGED <<phone, mounted, current, aborted, subscribed, view>>

\* watchPositionAsync answers: a subscription of an operation that was aborted is stopped at once.
Watch(o) ==
  /\ operation[o].at = "watch"
  /\ subscribed' \in {subscribed, IF o \in aborted THEN subscribed ELSE subscribed \cup {o}}
  /\ Goto(o, "done")
  /\ UNCHANGED <<phone, mounted, current, aborted, view>>

\* A position of the subscription is shown.
Move(o) ==
  /\ o \in subscribed /\ Wanted(o)
  /\ view' = [view EXCEPT !.position = o, !.error = "none", !.permission = "granted"]
  /\ UNCHANGED <<phone, mounted, current, operation, aborted, subscribed>>

-----------------------------------------------------------------------------

\* In the settings of the phone.
SwitchGps ==
  /\ phone' = [phone EXCEPT !.gps = ~@]
  /\ UNCHANGED <<mounted, current, operation, aborted, subscribed, view>>

Init ==
  /\ phone \in [permission : Permissions, gps : BOOLEAN]
  /\ mounted = FALSE /\ current = None
  /\ operation = [o \in Locates |-> NoOperation]
  /\ aborted = {} /\ subscribed = {}
  /\ view = [position |-> None, error |-> "none", loading |-> TRUE, permission |-> "not-requested"]

\* What the phone and the hook do once an operation is under way.
Proceed(o) ==
  \/ AnswerPermission(o) \/ AnswerServices(o) \/ AnswerPosition(o)
  \/ Located(o) \/ Show(o)

Next ==
  \/ Mount \/ Mounted \/ Unmount \/ SwitchGps
  \/ \E o \in Locates :
       \/ \E ask \in BOOLEAN : Ask(o, ask)
       \/ Proceed(o)
       \/ WatchPermission(o) \/ WatchServices(o) \/ Watch(o) \/ Move(o)

Spec == Init /\ [][Next]_vars

-----------------------------------------------------------------------------
(* Properties *)

Steps == {"none", "mount", "permission", "services", "position", "located", "state",
          "watch permission", "watch services", "watch", "done"}

\* Every variable has its type.
TypeOK ==
  /\ phone \in [permission : Permissions, gps : BOOLEAN] /\ mounted \in BOOLEAN
  /\ current \in Locates \cup {None}
  /\ operation \in [Locates -> [at : Steps, ask : BOOLEAN, result : Results \cup {"none"}]]
  /\ aborted \subseteq Locates /\ subscribed \subseteq Locates
  /\ view \in [position : Locates \cup {None}, error : Failures \cup {"none"}, loading : BOOLEAN,
               permission : Permissions]

\* The phone is watched for the newest operation of a screen that is there, and for no other,
\* wherever the others were interrupted (stop, watchLocation).
WatchIsOwned == \A o \in subscribed : mounted /\ o = current /\ view.position # None
=============================================================================

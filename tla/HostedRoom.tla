------------------------------ MODULE HostedRoom ------------------------------
(***************************************************************************)
(* The room a player hosts from the desktop application: started, found    *)
(* again after a restart, stopped.  One call of the shell is in flight at  *)
(* a time; the backend's handler may fail, or be dropped with its          *)
(* connection, at every await, and the backend may die.  What survives is  *)
(* the room with its creation receipt, and two secrets: the request that   *)
(* made it and the address its guests were given.                          *)
(*                                                                         *)
(* A secret is changed in memory first and then written with all others;   *)
(* when the write fails the call fails and the change stays in memory.     *)
(*                                                                         *)
(* Left out: the campaign's lane, which only makes a start fail while a    *)
(* turn runs, the invitations a repeated start renews, and the `closed`    *)
(* and `transport_stopped` marks, which skip stages that change nothing    *)
(* when they are repeated.                                                 *)
(***************************************************************************)
EXTENDS Naturals, Sequences, FiniteSets

CONSTANTS
    HostRequests,       \* requests of the player, each with a nonce of its own
    Table,              \* the campaign a request names
    Nothing,            \* no request, no room, no address
    MaxPorts            \* bounds the model: how often a free port is taken

ASSUME HostAssumption ==
    /\ Nothing \notin HostRequests \cup Nat /\ MaxPorts \in Nat
    /\ Nothing \notin [request : HostRequests, hall : Nat, running : BOOLEAN,
                       address : Nat \cup {Nothing}]
    /\ Nothing \notin [hall : Nat, address : Nat]

VARIABLES
    halls,              \* coop_rooms: the campaign of each room, and whether it is open
    hallReceipts,           \* room_creation_receipts, by request
    slots, disk,        \* the two secrets in memory and in the snapshot file
    active, halfMade,    \* AppStateNativeRoomHostService
    listener,           \* RoomTcpListener.hosted
    ports,              \* ports the system has given out
    calling,            \* the handler in flight
    host,               \* NativeRoomState.host of the shell: a room
    granted, toldClosed \* answers the shell got (history): addresses, closed rooms

hostVars == <<halls, hallReceipts, slots, disk, active, halfMade, listener, ports, calling, host,
              granted, toldClosed>>

NoSlots == [request |-> Nothing, address |-> Nothing]
NoRequest == [op |-> "none", request |-> Nothing, hall |-> Nothing, at |-> "idle", then |-> "none"]

HostInit ==
    /\ halls = <<>> /\ hallReceipts = <<>> /\ slots = NoSlots /\ disk = NoSlots
    /\ active = Nothing /\ halfMade = Nothing /\ listener = Nothing /\ ports = 0
    /\ calling = NoRequest /\ host = Nothing /\ granted = {} /\ toldClosed = {}

Open(n) == n # Nothing /\ halls[n].open
Received(r) == IF r \in DOMAIN hallReceipts THEN hallReceipts[r] ELSE Nothing

-----------------------------------------------------------------------------
(* Calls, and how they go on, fail or are dropped.                         *)
Arrive(op, r, n) ==
    /\ calling = NoRequest
    /\ calling' = [op |-> op, request |-> r, hall |-> n, at |-> "reconcile", then |-> "none"]
    /\ UNCHANGED <<halls, hallReceipts, slots, disk, active, halfMade, listener, ports, host,
                   granted, toldClosed>>

HostRoom(r) == Arrive("start", r, Nothing)
RecoverHost == slots.request # Nothing /\ Arrive("start", slots.request, Nothing)
StopHost(n) == Arrive("stop", Nothing, n)

Stage(at) == calling.at = at
Goes(at) == calling' = [calling EXCEPT !.at = at]
GoesThen(at, then) == calling' = [calling EXCEPT !.at = at, !.then = then]
Errs == calling' = NoRequest

(* The handler returns an error it takes no measures against, is dropped,  *)
(* or its answer is lost.  Nothing is awaited for between the creation and *)
(* the listener's answer.                                                  *)
HandlerEnds ==
    /\ calling # NoRequest /\ ~Stage("listen") /\ Errs
    /\ UNCHANGED <<halls, hallReceipts, slots, disk, active, halfMade, listener, ports, host,
                   granted, toldClosed>>

(* A secret is set or deleted; what follows depends on the snapshot file.  *)
Keeps(new, done, failed) ==
    /\ slots' = new
    /\ (disk' = new /\ done) \/ (UNCHANGED disk /\ failed)

-----------------------------------------------------------------------------
(* A creation that failed is compensated before anything else is done.     *)
Closed(n) == IF n = Nothing THEN halls ELSE [halls EXCEPT ![n].open = FALSE]

CompensateCreation ==
    /\ Stage("reconcile") /\ halfMade # Nothing
    /\ halls' = Closed(Received(halfMade)) /\ GoesThen("unbind", "reconciled")
    /\ UNCHANGED <<hallReceipts, slots, disk, active, halfMade, listener, ports, host, granted,
                   toldClosed>>

(* start: what was being stopped is stopped first, the same room is only   *)
(* told again, another selection is refused.                               *)
Selected(r) == slots.request \in {Nothing, r}
StartSelects ==
    /\ Stage("reconcile") /\ halfMade = Nothing /\ calling.op = "start"
    /\ \/ active # Nothing /\ ~active.running /\ GoesThen("close", "select")
       \/ active # Nothing /\ active.running
             /\ IF active.request = calling.request /\ Open(active.hall)
                THEN Goes("refresh") ELSE Errs
       \/ active = Nothing /\ (IF Selected(calling.request) THEN Goes("save") ELSE Errs)
    /\ UNCHANGED <<halls, hallReceipts, slots, disk, active, halfMade, listener, ports, host,
                   granted, toldClosed>>

SaveRequest ==
    /\ Stage("save")
    /\ Keeps([slots EXCEPT !.request = calling.request], Goes("create"), Errs)
    /\ UNCHANGED <<halls, hallReceipts, active, halfMade, listener, ports, host, granted, toldClosed>>

(* create_local_room: the room of the receipt, the open room of the        *)
(* campaign, or a new one.                                                 *)
OpenOf(campaign) == {n \in DOMAIN halls : halls[n].campaign = campaign /\ halls[n].open}
Created(r) ==
    IF Received(r) # Nothing THEN Received(r)
    ELSE IF OpenOf(Table[r]) # {} THEN CHOOSE n \in OpenOf(Table[r]) : TRUE
    ELSE Len(halls) + 1

RoomMade ==
    LET n == Created(calling.request) IN
    /\ halls' = IF n > Len(halls)
                THEN Append(halls, [campaign |-> Table[calling.request], open |-> TRUE])
                ELSE halls
    /\ hallReceipts' = [r \in DOMAIN hallReceipts \cup {calling.request} |->
                       IF r = calling.request THEN n ELSE hallReceipts[r]]

CreateRoom ==
    LET n == Created(calling.request) IN
    /\ Stage("create") /\ RoomMade
    /\ IF halls'[n].open
       THEN /\ Goes("listen")
            /\ active' = [request |-> calling.request, hall |-> n, running |-> FALSE,
                          address |-> Nothing]
       ELSE GoesThen("unbind", "superseded") /\ UNCHANGED active
    /\ UNCHANGED <<slots, disk, halfMade, listener, ports, host, granted, toldClosed>>

CreateDropped ==
    /\ Stage("create") /\ RoomMade /\ Errs
    /\ UNCHANGED <<slots, disk, active, halfMade, listener, ports, host, granted, toldClosed>>

(* It failed, perhaps after its commit: without an address nobody is a     *)
(* guest yet, and the room is given up.                                    *)
CreateFails ==
    /\ Stage("create") /\ (RoomMade \/ UNCHANGED <<halls, hallReceipts>>)
    /\ IF slots.address # Nothing THEN Errs /\ UNCHANGED halfMade
       ELSE halfMade' = calling.request /\ Goes("reconcile")
    /\ UNCHANGED <<slots, disk, active, listener, ports, host, granted, toldClosed>>

-----------------------------------------------------------------------------
(* The listener takes the saved address, or a free port.                   *)
OpenListener ==
    /\ Stage("listen") /\ listener = Nothing
    /\ \E port \in IF slots.address # Nothing THEN {slots.address} ELSE {ports + 1} :
          /\ port <= MaxPorts /\ listener' = [hall |-> active.hall, address |-> port]
          /\ ports' = IF port > ports THEN port ELSE ports
          /\ active' = [active EXCEPT !.address = port, !.running = slots.address # Nothing]
    /\ Goes(IF slots.address = Nothing THEN "bind" ELSE "refresh")
    /\ UNCHANGED <<halls, hallReceipts, slots, disk, halfMade, host, granted, toldClosed>>

(* A saved port that is taken must not close the room.                     *)
ListenerFails ==
    /\ Stage("listen")
    /\ IF slots.address # Nothing THEN active' = Nothing /\ Errs
       ELSE GoesThen("close", "failed") /\ UNCHANGED active
    /\ UNCHANGED <<halls, hallReceipts, slots, disk, halfMade, listener, ports, host, granted, toldClosed>>

(* A mutant: the address is told although it was not saved.                *)
SaveAddressLater ==
    /\ Stage("bind") /\ Goes("refresh") /\ active' = [active EXCEPT !.running = TRUE]
    /\ UNCHANGED <<halls, hallReceipts, slots, disk, halfMade, listener, ports, host, granted, toldClosed>>

SaveAddress ==
    /\ Stage("bind")
    /\ Keeps([slots EXCEPT !.address = active.address],
             \/ Goes("refresh") /\ active' = [active EXCEPT !.running = TRUE]
             \/ Errs /\ UNCHANGED active,       \* dropped
             GoesThen("close", "failed") /\ UNCHANGED active)
    /\ UNCHANGED <<halls, hallReceipts, halfMade, listener, ports, host, granted, toldClosed>>

TellAddress ==
    /\ Stage("refresh") /\ Open(active.hall) /\ Errs
    /\ granted' = granted \cup {<<active.hall, active.address>>} /\ host' = active.hall
    /\ UNCHANGED <<halls, hallReceipts, slots, disk, active, halfMade, listener, ports, toldClosed>>

-----------------------------------------------------------------------------
(* cleanup: the room, the listener, the address, the request, in this order. *)
CloseHall ==
    /\ Stage("close") /\ halls' = Closed(active.hall) /\ Goes("unlisten")
    /\ active' = [active EXCEPT !.running = FALSE]
    /\ UNCHANGED <<hallReceipts, slots, disk, halfMade, listener, ports, host, granted, toldClosed>>
Unlisten ==
    /\ Stage("unlisten") /\ listener' = Nothing /\ Goes("unbind")
    /\ UNCHANGED <<halls, hallReceipts, slots, disk, active, halfMade, ports, host, granted, toldClosed>>
ForgetAddress ==
    /\ Stage("unbind") /\ Keeps([slots EXCEPT !.address = Nothing], Goes("unsave"), Errs)
    /\ UNCHANGED <<halls, hallReceipts, active, halfMade, listener, ports, host, granted, toldClosed>>
ForgetRequest ==
    /\ Stage("unsave") /\ Keeps([slots EXCEPT !.request = Nothing], Goes("over"), Errs)
    /\ UNCHANGED <<halls, hallReceipts, active, halfMade, listener, ports, host, granted, toldClosed>>

(* And what the caller of these stages goes on with.                       *)
StagesOver ==
    /\ Stage("over")
    /\ halfMade' = IF calling.then = "reconciled" THEN Nothing ELSE halfMade
    /\ active' = IF calling.then \in {"select", "failed", "stopped"} THEN Nothing ELSE active
    /\ CASE calling.then \in {"reconciled", "select"} -> GoesThen("reconcile", "none")
         [] calling.then = "stopped" -> Goes("stopped")
         [] OTHER -> Errs
    /\ UNCHANGED <<halls, hallReceipts, slots, disk, listener, ports, host, granted, toldClosed>>

-----------------------------------------------------------------------------
(* stop: a selection that was never recovered is not claimed to be closed. *)
MayClaimClosed == slots.request = Nothing
StopSelects ==
    /\ Stage("reconcile") /\ halfMade = Nothing /\ calling.op = "stop"
    /\ IF active = Nothing THEN IF MayClaimClosed THEN Goes("stopped") ELSE Errs
       ELSE IF active.hall = calling.hall THEN GoesThen("close", "stopped") ELSE Errs
    /\ UNCHANGED <<halls, hallReceipts, slots, disk, active, halfMade, listener, ports, host,
                   granted, toldClosed>>
Stopped ==
    /\ Stage("stopped") /\ Errs /\ host' = Nothing
    /\ toldClosed' = toldClosed \cup {calling.hall}
    /\ UNCHANGED <<halls, hallReceipts, slots, disk, active, halfMade, listener, ports, granted>>

(* The host closes the room over its public route.                         *)
HostCloses(n) ==
    /\ Open(n) /\ halls' = Closed(n)
    /\ UNCHANGED <<hallReceipts, slots, disk, active, halfMade, listener, ports, calling, host,
                   granted, toldClosed>>

(* The backend dies, with or without the shell, and starts again.          *)
BackendDies ==
    /\ calling' = NoRequest /\ active' = Nothing /\ halfMade' = Nothing /\ listener' = Nothing
    /\ slots' = disk /\ host' \in {host, Nothing}
    /\ UNCHANGED <<halls, hallReceipts, disk, ports, granted, toldClosed>>

-----------------------------------------------------------------------------
HostNext ==
    \/ \E r \in HostRequests : HostRoom(r)
    \/ \E n \in DOMAIN halls : StopHost(n) \/ HostCloses(n)
    \/ RecoverHost \/ HandlerEnds
    \/ CompensateCreation \/ StartSelects \/ SaveRequest \/ CreateRoom \/ CreateDropped
    \/ CreateFails \/ OpenListener \/ ListenerFails \/ SaveAddress \/ TellAddress
    \/ CloseHall \/ Unlisten \/ ForgetAddress \/ ForgetRequest \/ StagesOver
    \/ StopSelects \/ Stopped \/ BackendDies

HostSpec == HostInit /\ [][HostNext]_hostVars

-----------------------------------------------------------------------------
(* A room stays open only as long as the player can find it again, even    *)
(* after the backend dies at any point.                                    *)
OpenRoomIsSaved ==
    \A n \in DOMAIN halls : halls[n].open =>
        disk.request # Nothing /\ Received(disk.request) = n

(* The guests of a room find it where they were told, through restarts.    *)
OneAddress == \A g, h \in granted : g[1] = h[1] => g = h

(* What was reported closed is closed, and sockets belong to a room that   *)
(* the service still answers for.                                          *)
StopMeansClosed == \A n \in toldClosed : ~halls[n].open
ServedIsHeld == listener # Nothing => active # Nothing /\ active.hall = listener.hall

HostAccountable == OpenRoomIsSaved /\ OneAddress /\ StopMeansClosed /\ ServedIsHeld
=============================================================================

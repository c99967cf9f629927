---------------------------- MODULE HostingProofs ----------------------------
(***************************************************************************)
(* Proofs about a room between its host and its guests: the room the host  *)
(* keeps through failures and restarts (HostedRoom), the feed by which a   *)
(* guest follows it (RoomFeed), and the outbox from which the guest sends  *)
(* (RoomOutbox); for every number of requests, campaigns, ports, calls and *)
(* operations, and every length of the room's history.                     *)
(***************************************************************************)
EXTENDS HostedRoom, RoomFeed, RoomOutbox, FiniteSetTheorems, SequenceTheorems, WellFoundedInduction, TLAPS

-----------------------------------------------------------------------------
(* The hosted room.  An open room is the one of the request on disk; the   *)
(* service in memory, or a creation to be compensated, stands for it; the  *)
(* stages of a handler say what was done before them.                      *)
Hall == [campaign : {Table[r] : r \in HostRequests}, open : BOOLEAN]
HostSlots == [request : HostRequests \cup {Nothing}, address : (Nat \ {0}) \cup {Nothing}]
OnAir == [request : HostRequests, hall : Nat, running : BOOLEAN, address : Nat \cup {Nothing}]
Served == [hall : Nat, address : Nat]
Request == [op : {"none", "start", "stop"}, request : HostRequests \cup {Nothing},
            hall : Nat \cup {Nothing},
            at : {"idle", "reconcile", "save", "create", "listen", "bind", "refresh", "close",
                  "unlisten", "unbind", "unsave", "over", "stopped"},
            then : {"none", "reconciled", "select", "superseded", "failed", "stopped"}]

HostTyped ==
  /\ halls \in Seq(Hall) /\ slots \in HostSlots /\ disk \in HostSlots /\ ports \in Nat
  /\ DOMAIN hallReceipts \subseteq HostRequests
  /\ hallReceipts \in [DOMAIN hallReceipts -> DOMAIN halls]
  /\ active \in OnAir \cup {Nothing} /\ (active # Nothing => active.hall \in DOMAIN halls)
  /\ halfMade \in HostRequests \cup {Nothing} /\ listener \in Served \cup {Nothing}
  /\ calling \in Request
  /\ (calling.op = "start" => calling.request \in HostRequests)
  /\ (calling.op = "stop" => calling.hall \in DOMAIN halls)
  /\ granted \subseteq (DOMAIN halls) \X (Nat \ {0}) /\ toldClosed \subseteq DOMAIN halls

NoneOpen == \A n \in DOMAIN halls : ~halls[n].open

OpenIsFound ==
  /\ \A n \in DOMAIN halls : halls[n].open =>
        /\ slots.request = disk.request /\ disk.request \in DOMAIN hallReceipts
        /\ hallReceipts[disk.request] = n
  /\ active # Nothing => halfMade = Nothing /\ \A n \in DOMAIN halls : halls[n].open => n = active.hall
  /\ halfMade # Nothing => \A n \in DOMAIN halls : halls[n].open =>
        halfMade \in DOMAIN hallReceipts /\ n = hallReceipts[halfMade]

StagesStand ==
  /\ Stage("save") => /\ active = Nothing /\ halfMade = Nothing /\ calling.op = "start"
                      /\ slots.request \in {Nothing, calling.request}
  /\ Stage("create") => /\ active = Nothing /\ halfMade = Nothing /\ calling.op = "start"
                        /\ slots = disk /\ slots.request = calling.request
  /\ Stage("listen") => active # Nothing /\ slots = disk /\ listener = Nothing /\ active.running = FALSE
  /\ Stage("bind") => /\ active # Nothing /\ slots = disk /\ slots.address = Nothing
                      /\ active.running = FALSE /\ active.address \in Nat \ {0}
  /\ Stage("refresh") => active # Nothing /\ active.running
  /\ Stage("close") => active # Nothing
  /\ calling.at \in {"unlisten", "unbind", "unsave", "over"} =>
        NoneOpen /\ (active # Nothing => active.running = FALSE)
  /\ calling.at \in {"unbind", "unsave", "over"} => listener = Nothing
  /\ Stage("stopped") => NoneOpen /\ calling.op = "stop"
  /\ calling.then = "stopped" => calling.op = "stop"

AddressStands ==
  /\ active # Nothing /\ active.running =>
        slots = disk /\ slots.address = active.address /\ active.address # Nothing
  /\ \A g \in granted : halls[g[1]].open => slots.address = g[2] /\ disk.address = g[2]

HostInv ==
  /\ HostTyped /\ OpenIsFound /\ StagesStand /\ AddressStands
  /\ OneAddress /\ StopMeansClosed /\ ServedIsHeld

(* No request is under way, and nothing is a room on the air.              *)
LEMMA Idle ==
  NoRequest \in Request /\ NoRequest.op = "none" /\ NoRequest.at = "idle" /\ NoRequest.then = "none"
BY DEF NoRequest, Request

LEMMA SomethingIsNothing ==
  /\ \A r \in HostRequests : r # Nothing
  /\ \A n \in Nat : n # Nothing
  /\ \A r \in OnAir : r # Nothing
  /\ \A r \in Served : r # Nothing
BY HostAssumption DEF OnAir, Served

(* To close a room is to close that one.                                   *)
LEMMA ClosedRoom ==
  ASSUME HostTyped, NEW n \in DOMAIN halls
  PROVE  /\ Closed(n) \in Seq(Hall) /\ DOMAIN Closed(n) = DOMAIN halls
         /\ \A m \in DOMAIN halls : Closed(n)[m].open = (m # n /\ halls[m].open)
<1>1. halls \in Seq(Hall) /\ n # Nothing /\ Len(halls) \in Nat /\ DOMAIN halls = 1..Len(halls)
  BY SomethingIsNothing DEF HostTyped
<1>2. halls[n] \in Hall
  BY <1>1
<1> DEFINE k == [halls[n] EXCEPT !.open = FALSE]
<1>3. k \in Hall /\ k.open = FALSE
  BY <1>2 DEF Hall
<1> HIDE DEF k
<1>4. Closed(n) = [halls EXCEPT ![n] = k]
  BY <1>1 DEF Closed, k
<1>5. \A m \in DOMAIN halls : halls[m] \in Hall
  BY <1>1
<1> QED BY <1>1, <1>3, <1>4, <1>5 DEF Hall

LEMMA HostInvInit == HostInit => HostInv
<1> SUFFICES ASSUME HostInit PROVE HostInv
  OBVIOUS
<1>1. halls = <<>> /\ DOMAIN halls = {} /\ DOMAIN hallReceipts = {} /\ halls \in Seq(Hall)
      /\ hallReceipts \in [DOMAIN hallReceipts -> DOMAIN halls]
  BY DEF HostInit
<1>2. slots = NoSlots /\ disk = NoSlots /\ NoSlots \in HostSlots
  BY DEF HostInit, NoSlots, HostSlots
<1> QED
  BY <1>1, <1>2, Idle DEF HostInit, HostInv, HostTyped, OpenIsFound, StagesStand, AddressStands, Stage,
     OneAddress, StopMeansClosed, ServedIsHeld

(* A handler that goes on, or ends, and touches nothing else.              *)
LEMMA HandlerMoves ==
  ASSUME HostTyped,
         NEW to \in {"reconcile", "save", "create", "listen", "bind", "refresh", "close",
                     "unlisten", "unbind", "unsave", "over", "stopped"},
         Goes(to)
  PROVE  /\ calling' \in Request /\ calling'.at = to /\ calling'.op = calling.op
         /\ calling'.request = calling.request /\ calling'.hall = calling.hall
         /\ calling'.then = calling.then
BY DEF HostTyped, Request, Goes

LEMMA HandlerTurns ==
  ASSUME HostTyped,
         NEW to \in {"reconcile", "close", "unbind"},
         NEW then \in {"none", "reconciled", "select", "superseded", "failed", "stopped"},
         GoesThen(to, then)
  PROVE  /\ calling' \in Request /\ calling'.at = to /\ calling'.op = calling.op
         /\ calling'.request = calling.request /\ calling'.hall = calling.hall
         /\ calling'.then = then
BY DEF HostTyped, Request, GoesThen

(* When nothing of the record changes, only the stage is looked at.        *)
LEMMA ArriveStep ==
  ASSUME HostInv,
         \/ \E r \in HostRequests : HostRoom(r)
         \/ \E n \in DOMAIN halls : StopHost(n)
         \/ RecoverHost
  PROVE  HostInv'
<1> USE DEF HostInv
<1>1. PICK op \in {"start", "stop"}, r \in HostRequests \cup {Nothing}, n \in Nat \cup {Nothing} :
        /\ Arrive(op, r, n) /\ (op = "start" => r \in HostRequests)
        /\ (op = "stop" => n \in DOMAIN halls)
  <2>1. \A n \in DOMAIN halls : n \in Nat
    BY DEF HostTyped
  <2> QED BY <2>1 DEF HostRoom, StopHost, RecoverHost, HostTyped, HostSlots
<1> DEFINE new == [op |-> op, request |-> r, hall |-> n, at |-> "reconcile", then |-> "none"]
<1>2. new \in Request /\ new.op = op /\ new.request = r /\ new.hall = n /\ new.at = "reconcile"
      /\ new.then = "none"
  BY DEF Request
<1> HIDE DEF new
<1>3. calling' = new /\ UNCHANGED <<halls, hallReceipts, slots, disk, active, halfMade, listener,
                                    ports, host, granted, toldClosed>>
  BY <1>1 DEF Arrive, new
<1> QED
  BY <1>1, <1>2, <1>3 DEF HostTyped, OpenIsFound, StagesStand, AddressStands, NoneOpen, Stage,
     OneAddress, StopMeansClosed, ServedIsHeld

LEMMA EndsStep ==
  ASSUME HostInv, HandlerEnds
  PROVE  HostInv'
BY Idle DEF HostInv, HandlerEnds, Errs, HostTyped, OpenIsFound, StagesStand, AddressStands,
   NoneOpen, Stage, OneAddress, StopMeansClosed, ServedIsHeld

(* The only room open is closed: none is open any more.                    *)
LEMMA ClosesAll ==
  ASSUME HostTyped, NEW n \in (DOMAIN halls) \cup {Nothing}, halls' = Closed(n),
         \A m \in DOMAIN halls : halls[m].open => m = n
  PROVE  /\ halls' \in Seq(Hall) /\ DOMAIN halls' = DOMAIN halls
         /\ \A m \in DOMAIN halls : ~halls'[m].open
<1>1. CASE n = Nothing
  <2>1. \A m \in DOMAIN halls : m # Nothing
    BY SomethingIsNothing DEF HostTyped
  <2> QED BY <1>1, <2>1 DEF Closed, HostTyped
<1>2. CASE n \in DOMAIN halls
  BY <1>2, ClosedRoom
<1> QED BY <1>1, <1>2

LEMMA CompensateStep ==
  ASSUME HostInv, CompensateCreation
  PROVE  HostInv'
<1> USE DEF HostInv
<1>1. halfMade # Nothing /\ active = Nothing /\ listener = Nothing
  BY DEF CompensateCreation, OpenIsFound, ServedIsHeld
<1>2. Received(halfMade) \in (DOMAIN halls) \cup {Nothing}
      /\ \A m \in DOMAIN halls : halls[m].open => m = Received(halfMade)
  BY <1>1 DEF Received, OpenIsFound, HostTyped
<1>3. halls' \in Seq(Hall) /\ DOMAIN halls' = DOMAIN halls /\ \A m \in DOMAIN halls : ~halls'[m].open
  BY <1>2, ClosesAll DEF CompensateCreation
<1>4. /\ calling' \in Request /\ calling'.at = "unbind" /\ calling'.op = calling.op
      /\ calling'.request = calling.request /\ calling'.hall = calling.hall
      /\ calling'.then = "reconciled"
  BY HandlerTurns DEF CompensateCreation
<1>5. UNCHANGED <<hallReceipts, slots, disk, active, halfMade, listener, ports, host, granted,
                  toldClosed>>
  BY DEF CompensateCreation
<1> QED
  BY <1>1, <1>3, <1>4, <1>5 DEF HostTyped, OpenIsFound, StagesStand, AddressStands, NoneOpen,
     Stage, OneAddress, StopMeansClosed, ServedIsHeld

LEMMA StartSelectsStep ==
  ASSUME HostInv, StartSelects
  PROVE  HostInv'
<1> USE DEF HostInv
<1>1. halfMade = Nothing /\ calling.op = "start" /\ UNCHANGED <<halls, hallReceipts, slots, disk,
        active, halfMade, listener, ports, host, granted, toldClosed>>
  BY DEF StartSelects
<1>2. ASSUME active # Nothing, GoesThen("close", "select") PROVE HostInv'
  BY <1>1, <1>2, HandlerTurns DEF HostTyped, OpenIsFound, StagesStand, AddressStands, NoneOpen,
     Stage, OneAddress, StopMeansClosed, ServedIsHeld
<1>3. ASSUME active # Nothing, active.running, Goes("refresh") PROVE HostInv'
  BY <1>1, <1>3, HandlerMoves DEF HostTyped, OpenIsFound, StagesStand, AddressStands, NoneOpen,
     Stage, OneAddress, StopMeansClosed, ServedIsHeld
<1>4. ASSUME active = Nothing, Selected(calling.request), Goes("save") PROVE HostInv'
  BY <1>1, <1>4, HandlerMoves DEF HostTyped, OpenIsFound, StagesStand, AddressStands, NoneOpen,
     Stage, OneAddress, StopMeansClosed, ServedIsHeld, Selected
<1>5. CASE Errs
  BY <1>1, <1>5, Idle DEF Errs, HostTyped, OpenIsFound, StagesStand, AddressStands, NoneOpen,
     Stage, OneAddress, StopMeansClosed, ServedIsHeld
<1> QED BY <1>2, <1>3, <1>4, <1>5 DEF StartSelects

LEMMA SaveRequestStep ==
  ASSUME HostInv, SaveRequest
  PROVE  HostInv'
<1> USE DEF HostInv
<1>1. /\ active = Nothing /\ halfMade = Nothing /\ calling.op = "start"
      /\ calling.request \in HostRequests /\ slots.request \in {Nothing, calling.request}
  BY DEF SaveRequest, StagesStand, HostTyped
<1> DEFINE new == [slots EXCEPT !.request = calling.request]
<1>2. new \in HostSlots /\ new.request = calling.request /\ new.address = slots.address
  BY <1>1 DEF HostTyped, HostSlots
<1> HIDE DEF new
<1>3. /\ slots' = new /\ ((disk' = new /\ Goes("create")) \/ (disk' = disk /\ Errs))
      /\ UNCHANGED <<halls, hallReceipts, active, halfMade, listener, ports, host, granted, toldClosed>>
  BY Zenon DEF SaveRequest, Keeps, new
<1>4. \A n \in DOMAIN halls : halls[n].open => slots.request = calling.request
  BY <1>1, SomethingIsNothing DEF OpenIsFound, HostTyped
<1>5. CASE disk' = new /\ Goes("create")
  BY <1>1, <1>2, <1>3, <1>4, <1>5, HandlerMoves DEF HostTyped, OpenIsFound, StagesStand,
     AddressStands, NoneOpen, Stage, OneAddress, StopMeansClosed, ServedIsHeld
<1>6. CASE disk' = disk /\ Errs
  BY <1>1, <1>2, <1>3, <1>4, <1>6, Idle DEF HostTyped, OpenIsFound, StagesStand, Errs,
     AddressStands, NoneOpen, Stage, OneAddress, StopMeansClosed, ServedIsHeld
<1> QED BY <1>3, <1>5, <1>6

(* What a creation leaves: the room of the request, the only one open.     *)
LEMMA RoomMadeHolds ==
  ASSUME HostInv, Stage("create"), RoomMade
  PROVE  /\ halls' \in Seq(Hall) /\ DOMAIN halls \subseteq DOMAIN halls'
         /\ \A n \in DOMAIN halls : halls'[n] = halls[n]
         /\ DOMAIN hallReceipts' \subseteq HostRequests
         /\ hallReceipts' \in [DOMAIN hallReceipts' -> DOMAIN halls']
         /\ Created(calling.request) \in DOMAIN halls' /\ calling.request \in DOMAIN hallReceipts'
         /\ hallReceipts'[calling.request] = Created(calling.request)
         /\ \A n \in DOMAIN halls' : halls'[n].open => n = Created(calling.request)
<1> USE DEF HostInv
<1>1. /\ calling.request \in HostRequests /\ slots.request = calling.request /\ slots = disk
  BY DEF StagesStand, HostTyped
<1>2. halls \in Seq(Hall) /\ Len(halls) \in Nat /\ DOMAIN halls = 1..Len(halls)
      /\ \A n \in DOMAIN halls : halls[n] \in Hall
  BY DEF HostTyped
<1>3. \A n \in DOMAIN halls : halls[n].open =>
         calling.request \in DOMAIN hallReceipts /\ n = hallReceipts[calling.request]
  BY <1>1 DEF OpenIsFound
<1> DEFINE n == Created(calling.request)
           new == [campaign |-> Table[calling.request], open |-> TRUE]
<1>4. new \in Hall
  BY <1>1 DEF Hall
<1>5. hallReceipts' = [r \in DOMAIN hallReceipts \cup {calling.request} |->
                          IF r = calling.request THEN n ELSE hallReceipts[r]]
      /\ halls' = IF n > Len(halls) THEN Append(halls, new) ELSE halls
  BY DEF RoomMade
<1>6. \A r \in DOMAIN hallReceipts : hallReceipts[r] \in DOMAIN halls
  BY DEF HostTyped
<1>7. CASE calling.request \in DOMAIN hallReceipts
  <2>1. n = hallReceipts[calling.request] /\ n \in DOMAIN halls
    BY <1>2, <1>6, <1>7, SomethingIsNothing DEF Created, Received
  <2> HIDE DEF new, n
  <2>3. ~(n > Len(halls))
    BY <1>2, <2>1
  <2>2. halls' = halls
    BY <1>5, <2>3
  <2> USE DEF n
  <2> QED BY <1>1, <1>2, <1>3, <1>5, <1>6, <1>7, <2>1, <2>2 DEF HostTyped
<1>8. CASE calling.request \notin DOMAIN hallReceipts
  <2>1. \A m \in DOMAIN halls : ~halls[m].open
    BY <1>3, <1>8
  <2>2. n = Len(halls) + 1
    BY <1>8, <2>1 DEF Created, Received, OpenOf
  <2> HIDE DEF new, n
  <2>11. n > Len(halls)
    BY <1>2, <2>2
  <2>3. halls' = Append(halls, new)
    BY <1>5, <2>11
  <2>4. halls' \in Seq(Hall) /\ DOMAIN halls' = 1..(Len(halls) + 1)
        /\ \A m \in 1..Len(halls) : halls'[m] = halls[m]
    BY <1>2, <1>4, <2>3
  <2>5. DOMAIN halls \subseteq DOMAIN halls' /\ n \in DOMAIN halls'
        /\ \A m \in DOMAIN halls' : m \in DOMAIN halls \/ m = n
    BY <1>2, <2>2, <2>4
  <2>6. DOMAIN hallReceipts' = DOMAIN hallReceipts \cup {calling.request}
        /\ \A r \in DOMAIN hallReceipts' : hallReceipts'[r] \in DOMAIN halls'
    BY <1>5, <1>6, <2>5
  <2>7. hallReceipts' \in [DOMAIN hallReceipts' -> DOMAIN halls']
    BY <1>5, <2>6
  <2>8. hallReceipts'[calling.request] = n
    BY <1>5
  <2>9. DOMAIN hallReceipts' \subseteq HostRequests
    BY <1>1, <2>6 DEF HostTyped
  <2>10. \A m \in DOMAIN halls' : halls'[m].open => m = n
    BY <1>2, <2>1, <2>4, <2>5
  <2> USE DEF n
  <2> QED BY <1>2, <2>4, <2>5, <2>6, <2>7, <2>8, <2>9, <2>10
<1> QED BY <1>7, <1>8

LEMMA CreateStep ==
  ASSUME HostInv, CreateRoom \/ CreateDropped \/ CreateFails
  PROVE  HostInv'
<1> USE DEF HostInv
<1>1. /\ Stage("create") /\ active = Nothing /\ halfMade = Nothing /\ slots = disk
      /\ calling.request \in HostRequests /\ slots.request = calling.request
      /\ listener = Nothing /\ calling.op = "start"
  BY DEF CreateRoom, CreateDropped, CreateFails, StagesStand, HostTyped, ServedIsHeld
<1> DEFINE n == Created(calling.request)
           Made == /\ halls' \in Seq(Hall) /\ DOMAIN halls \subseteq DOMAIN halls'
                   /\ \A m \in DOMAIN halls : halls'[m] = halls[m]
                   /\ DOMAIN hallReceipts' \subseteq HostRequests
                   /\ hallReceipts' \in [DOMAIN hallReceipts' -> DOMAIN halls']
                   /\ n \in DOMAIN halls' /\ calling.request \in DOMAIN hallReceipts'
                   /\ hallReceipts'[calling.request] = n
                   /\ \A m \in DOMAIN halls' : halls'[m].open => m = n
<1>2. RoomMade => Made
  BY <1>1, RoomMadeHolds
<1> HIDE DEF n
<1>3. ASSUME CreateRoom, Goes("listen"),
             active' = [request |-> calling.request, hall |-> n, running |-> FALSE, address |-> Nothing]
      PROVE  HostInv'
  <2> DEFINE new == [request |-> calling.request, hall |-> n, running |-> FALSE, address |-> Nothing]
  <2>1. Made /\ UNCHANGED <<slots, disk, halfMade, listener, ports, host, granted, toldClosed>>
    BY <1>2, <1>3 DEF CreateRoom
  <2>2. new \in OnAir /\ new # Nothing /\ new.hall = n /\ new.running = FALSE
    <3>1. n \in Nat
      BY <2>1
    <3>2. new \in OnAir
      BY <1>1, <3>1 DEF OnAir
    <3> QED BY <3>2, SomethingIsNothing
  <2> HIDE DEF new
  <2>3. active' = new
    BY <1>3 DEF new
  <2>5. HostTyped'
    BY <1>1, <1>3, <2>1, <2>2, <2>3, HandlerMoves DEF HostTyped
  <2>6. OpenIsFound'
    BY <1>1, <2>1, <2>2, <2>3 DEF OpenIsFound
  <2>7. StagesStand'
    BY <1>1, <1>3, <2>1, <2>2, <2>3, HandlerMoves DEF StagesStand, Stage
  <2>8. AddressStands'
    BY <1>1, <2>1, <2>2, <2>3 DEF AddressStands, HostTyped
  <2>9. OneAddress' /\ StopMeansClosed' /\ ServedIsHeld'
    BY <1>1, <2>1, <2>2, <2>3 DEF OneAddress, StopMeansClosed, ServedIsHeld, HostTyped
  <2> QED BY <2>5, <2>6, <2>7, <2>8, <2>9
<1>4. ASSUME CreateRoom, ~halls'[n].open, GoesThen("unbind", "superseded"), UNCHANGED active
      PROVE  HostInv'
  <2>1. Made /\ UNCHANGED <<slots, disk, halfMade, listener, ports, host, granted, toldClosed>>
    BY <1>2, <1>4 DEF CreateRoom
  <2> QED
    BY <1>1, <1>4, <2>1, HandlerTurns DEF HostTyped, OpenIsFound, StagesStand,
       AddressStands, NoneOpen, Stage, OneAddress, StopMeansClosed, ServedIsHeld
<1>5. CASE CreateDropped
  <2>1. Made /\ Errs
        /\ UNCHANGED <<slots, disk, active, halfMade, listener, ports, host, granted, toldClosed>>
    BY <1>2, <1>5 DEF CreateDropped
  <2> QED
    BY <1>1, <2>1, Idle DEF Errs, HostTyped, OpenIsFound, StagesStand,
       AddressStands, NoneOpen, Stage, OneAddress, StopMeansClosed, ServedIsHeld
<1>6. CASE CreateFails
  <2>1. /\ Made \/ UNCHANGED <<halls, hallReceipts>>
        /\ UNCHANGED <<slots, disk, active, listener, ports, host, granted, toldClosed>>
        /\ (Errs /\ UNCHANGED halfMade) \/ (halfMade' = calling.request /\ Goes("reconcile"))
    BY <1>2, <1>6 DEF CreateFails
  <2>2. /\ halls' \in Seq(Hall) /\ DOMAIN halls \subseteq DOMAIN halls'
        /\ \A m \in DOMAIN halls : halls'[m] = halls[m]
        /\ DOMAIN hallReceipts' \subseteq HostRequests
        /\ hallReceipts' \in [DOMAIN hallReceipts' -> DOMAIN halls']
        /\ \A m \in DOMAIN halls' : halls'[m].open =>
              calling.request \in DOMAIN hallReceipts' /\ hallReceipts'[calling.request] = m
    <3>1. CASE Made
      BY <3>1
    <3>2. CASE UNCHANGED <<halls, hallReceipts>>
      BY <1>1, <3>2 DEF HostTyped, OpenIsFound
    <3> QED BY <2>1, <3>1, <3>2
  <2>3. CASE Errs /\ UNCHANGED halfMade
    BY <1>1, <2>1, <2>2, <2>3, Idle DEF Errs, HostTyped, OpenIsFound, StagesStand,
       AddressStands, NoneOpen, Stage, OneAddress, StopMeansClosed, ServedIsHeld
  <2>4. CASE halfMade' = calling.request /\ Goes("reconcile")
    BY <1>1, <2>1, <2>2, <2>4, HandlerMoves DEF HostTyped, OpenIsFound, StagesStand,
       AddressStands, NoneOpen, Stage, OneAddress, StopMeansClosed, ServedIsHeld
  <2> QED BY <2>1, <2>3, <2>4
<1>7. ASSUME CreateRoom PROVE HostInv'
  BY <1>3, <1>4, <1>7 DEF CreateRoom, n
<1> QED BY <1>5, <1>6, <1>7

LEMMA OpenListenerStep ==
  ASSUME HostInv, OpenListener
  PROVE  HostInv'
<1> USE DEF HostInv
<1>1. /\ active # Nothing /\ active \in OnAir /\ slots = disk /\ listener = Nothing
      /\ active.running = FALSE /\ halfMade = Nothing /\ active.hall \in DOMAIN halls
  BY DEF OpenListener, StagesStand, HostTyped, OpenIsFound
<1>2. PICK port \in Nat \ {0} :
        /\ slots.address # Nothing => port = slots.address
        /\ listener' = [hall |-> active.hall, address |-> port]
        /\ ports' = IF port > ports THEN port ELSE ports
        /\ active' = [active EXCEPT !.address = port, !.running = slots.address # Nothing]
  <2>1. slots.address # Nothing => slots.address \in Nat \ {0}
    BY DEF HostTyped, HostSlots
  <2>2. ports + 1 \in Nat \ {0}
    BY DEF HostTyped
  <2> QED BY <2>1, <2>2 DEF OpenListener
<1> DEFINE on == [active EXCEPT !.address = port, !.running = slots.address # Nothing]
           l == [hall |-> active.hall, address |-> port]
<1>3. /\ on \in OnAir /\ on # Nothing /\ on.hall = active.hall /\ on.address = port
      /\ on.running = (slots.address # Nothing)
  BY <1>1, SomethingIsNothing DEF OnAir
<1>4. l \in Served /\ l # Nothing /\ l.hall = active.hall
  BY <1>1, SomethingIsNothing DEF OnAir, Served
<1> HIDE DEF on, l
<1>5. active' = on /\ listener' = l /\ ports' \in Nat
  BY <1>2 DEF on, l, HostTyped
<1>6. port # Nothing
  BY SomethingIsNothing
<1>7. UNCHANGED <<halls, hallReceipts, slots, disk, halfMade, host, granted, toldClosed>>
  BY DEF OpenListener
<1>8. CASE slots.address = Nothing /\ Goes("bind")
  BY <1>1, <1>2, <1>3, <1>4, <1>5, <1>6, <1>7, <1>8, HandlerMoves DEF HostTyped, OpenIsFound, StagesStand,
     AddressStands, NoneOpen, Stage, OneAddress, StopMeansClosed, ServedIsHeld
<1>9. CASE slots.address # Nothing /\ Goes("refresh")
  BY <1>1, <1>2, <1>3, <1>4, <1>5, <1>6, <1>7, <1>9, HandlerMoves DEF HostTyped, OpenIsFound, StagesStand,
     AddressStands, NoneOpen, Stage, OneAddress, StopMeansClosed, ServedIsHeld
<1> QED BY <1>8, <1>9 DEF OpenListener

LEMMA ListenerFailsStep ==
  ASSUME HostInv, ListenerFails
  PROVE  HostInv'
<1> USE DEF HostInv
<1>1. /\ active # Nothing /\ listener = Nothing /\ active.running = FALSE /\ halfMade = Nothing
      /\ UNCHANGED <<halls, hallReceipts, slots, disk, halfMade, listener, ports, host, granted, toldClosed>>
  BY DEF ListenerFails, StagesStand, OpenIsFound
<1>2. CASE active' = Nothing /\ Errs
  BY <1>1, <1>2, Idle DEF Errs, HostTyped, OpenIsFound, StagesStand,
     AddressStands, NoneOpen, Stage, OneAddress, StopMeansClosed, ServedIsHeld
<1>3. CASE GoesThen("close", "failed") /\ UNCHANGED active
  BY <1>1, <1>3, HandlerTurns DEF HostTyped, OpenIsFound, StagesStand,
     AddressStands, NoneOpen, Stage, OneAddress, StopMeansClosed, ServedIsHeld
<1> QED BY <1>2, <1>3 DEF ListenerFails

LEMMA SaveAddressStep ==
  ASSUME HostInv, SaveAddress
  PROVE  HostInv'
<1> USE DEF HostInv
<1>1. /\ active # Nothing /\ active \in OnAir /\ slots = disk /\ slots.address = Nothing
      /\ active.running = FALSE /\ halfMade = Nothing /\ active.hall \in DOMAIN halls
      /\ active.address \in Nat \ {0} /\ active.address # Nothing
  BY SomethingIsNothing DEF SaveAddress, StagesStand, HostTyped, OpenIsFound
<1> DEFINE new == [slots EXCEPT !.address = active.address]
           on == [active EXCEPT !.running = TRUE]
<1>2. new \in HostSlots /\ new.request = slots.request /\ new.address = active.address
  BY <1>1 DEF HostTyped, HostSlots
<1>3. on \in OnAir /\ on # Nothing /\ on.hall = active.hall /\ on.address = active.address /\ on.running
  BY <1>1, SomethingIsNothing DEF OnAir
<1> HIDE DEF new, on
<1>4. /\ slots' = new
      /\ \/ disk' = new /\ Goes("refresh") /\ active' = on
         \/ disk' = new /\ Errs /\ active' = active
         \/ disk' = disk /\ GoesThen("close", "failed") /\ active' = active
      /\ UNCHANGED <<halls, hallReceipts, halfMade, listener, ports, host, granted, toldClosed>>
  BY Zenon DEF SaveAddress, Keeps, new, on
<1>5. \A g \in granted : ~halls[g[1]].open
  <2>1. \A g \in granted : g[2] # Nothing
    BY SomethingIsNothing DEF HostTyped
  <2> QED BY <1>1, <2>1 DEF AddressStands
<1>6. CASE disk' = new /\ Goes("refresh") /\ active' = on
  BY <1>1, <1>2, <1>3, <1>4, <1>5, <1>6, HandlerMoves DEF HostTyped, OpenIsFound, StagesStand,
     AddressStands, NoneOpen, Stage, OneAddress, StopMeansClosed, ServedIsHeld
<1>7. CASE disk' = new /\ Errs /\ active' = active
  BY <1>1, <1>2, <1>4, <1>5, <1>7, Idle DEF Errs, HostTyped, OpenIsFound, StagesStand,
     AddressStands, NoneOpen, Stage, OneAddress, StopMeansClosed, ServedIsHeld
<1>8. CASE disk' = disk /\ GoesThen("close", "failed") /\ active' = active
  BY <1>1, <1>2, <1>4, <1>5, <1>8, HandlerTurns DEF HostTyped, OpenIsFound, StagesStand,
     AddressStands, NoneOpen, Stage, OneAddress, StopMeansClosed, ServedIsHeld
<1> QED BY <1>4, <1>6, <1>7, <1>8

LEMMA TellAddressStep ==
  ASSUME HostInv, TellAddress
  PROVE  HostInv'
<1> USE DEF HostInv
<1>1. /\ active # Nothing /\ active \in OnAir /\ active.hall \in DOMAIN halls
      /\ slots = disk /\ slots.address = active.address
      /\ active.address \in Nat \ {0} /\ active.hall # Nothing /\ halls[active.hall].open
  BY SomethingIsNothing DEF TellAddress, StagesStand, HostTyped, HostSlots, AddressStands, OnAir, Open
<1>2. /\ Errs /\ granted' = granted \cup {<<active.hall, active.address>>}
      /\ UNCHANGED <<halls, hallReceipts, slots, disk, active, halfMade, listener, ports, toldClosed>>
  BY DEF TellAddress
<1>3. granted' \subseteq (DOMAIN halls) \X (Nat \ {0})
  BY <1>1, <1>2 DEF HostTyped
<1>4. \A g \in granted' : halls[g[1]].open => slots.address = g[2]
  BY <1>1, <1>2 DEF AddressStands
<1>5. OneAddress'
  <2>1. \A g \in granted : g[1] = active.hall => g[2] = active.address /\ g = <<active.hall, active.address>>
    <3>1. \A g \in granted : g = <<g[1], g[2]>>
      BY DEF HostTyped
    <3> QED BY <1>1, <3>1 DEF AddressStands
  <2>2. \A g \in granted, h \in granted : g[1] = h[1] => g = h
    BY DEF OneAddress
  <2>3. <<active.hall, active.address>>[1] = active.hall
    OBVIOUS
  <2> QED BY <1>2, <2>1, <2>2, <2>3 DEF OneAddress
<1> QED
  BY <1>1, <1>2, <1>3, <1>4, <1>5, Idle DEF Errs, HostTyped, OpenIsFound, StagesStand,
     AddressStands, NoneOpen, Stage, StopMeansClosed, ServedIsHeld

LEMMA CloseHallStep ==
  ASSUME HostInv, CloseHall
  PROVE  HostInv'
<1> USE DEF HostInv
<1>1. /\ active # Nothing /\ active \in OnAir /\ active.hall \in DOMAIN halls /\ halfMade = Nothing
      /\ \A m \in DOMAIN halls : halls[m].open => m = active.hall
  BY DEF CloseHall, StagesStand, HostTyped, OpenIsFound
<1>2. halls' \in Seq(Hall) /\ DOMAIN halls' = DOMAIN halls /\ \A m \in DOMAIN halls : ~halls'[m].open
  BY <1>1, ClosesAll DEF CloseHall
<1> DEFINE on == [active EXCEPT !.running = FALSE]
<1>3. on \in OnAir /\ on # Nothing /\ on.hall = active.hall /\ on.running = FALSE
  BY <1>1, SomethingIsNothing DEF OnAir
<1> HIDE DEF on
<1>4. active' = on /\ Goes("unlisten")
      /\ UNCHANGED <<hallReceipts, slots, disk, halfMade, listener, ports, host, granted, toldClosed>>
  BY DEF CloseHall, on
<1> QED
  BY <1>1, <1>2, <1>3, <1>4, HandlerMoves DEF HostTyped, OpenIsFound, StagesStand,
     AddressStands, NoneOpen, Stage, OneAddress, StopMeansClosed, ServedIsHeld

LEMMA ForgetStep ==
  ASSUME HostInv, Unlisten \/ ForgetAddress \/ ForgetRequest
  PROVE  HostInv'
<1> USE DEF HostInv
<1>1. NoneOpen /\ (active # Nothing => active.running = FALSE)
      /\ UNCHANGED <<halls, hallReceipts, active, halfMade, ports, host, granted, toldClosed>>
  BY DEF Unlisten, ForgetAddress, ForgetRequest, StagesStand, Stage
<1>2. slots' \in HostSlots /\ disk' \in HostSlots
  BY DEF Unlisten, ForgetAddress, ForgetRequest, Keeps, HostTyped, HostSlots
<1>3. CASE Unlisten
  BY <1>1, <1>2, <1>3, HandlerMoves DEF Unlisten, HostTyped, OpenIsFound, StagesStand,
     AddressStands, NoneOpen, Stage, OneAddress, StopMeansClosed, ServedIsHeld
<1>4. ASSUME listener = Nothing, UNCHANGED listener, Goes("unsave") \/ Goes("over") PROVE HostInv'
  BY <1>1, <1>2, <1>4, HandlerMoves DEF HostTyped, OpenIsFound, StagesStand,
     AddressStands, NoneOpen, Stage, OneAddress, StopMeansClosed, ServedIsHeld
<1>5. ASSUME listener = Nothing, UNCHANGED listener, Errs PROVE HostInv'
  BY <1>1, <1>2, <1>5, Idle DEF Errs, HostTyped, OpenIsFound, StagesStand,
     AddressStands, NoneOpen, Stage, OneAddress, StopMeansClosed, ServedIsHeld
<1>6. ForgetAddress \/ ForgetRequest =>
        listener = Nothing /\ UNCHANGED listener /\ (Goes("unsave") \/ Goes("over") \/ Errs)
  BY DEF ForgetAddress, ForgetRequest, Keeps, StagesStand, Stage
<1> QED BY <1>3, <1>4, <1>5, <1>6

LEMMA StagesOverStep ==
  ASSUME HostInv, StagesOver
  PROVE  HostInv'
<1> USE DEF HostInv
<1>1. NoneOpen /\ (active # Nothing => active.running = FALSE) /\ listener = Nothing
      /\ UNCHANGED <<halls, hallReceipts, slots, disk, listener, ports, host, granted, toldClosed>>
  BY DEF StagesOver, StagesStand, Stage
<1>2. halfMade' \in {halfMade, Nothing} /\ active' \in {active, Nothing}
  BY DEF StagesOver
<1>3. CASE GoesThen("reconcile", "none")
  BY <1>1, <1>2, <1>3, HandlerTurns DEF HostTyped, OpenIsFound, StagesStand,
     AddressStands, NoneOpen, Stage, OneAddress, StopMeansClosed, ServedIsHeld
<1>4. CASE calling.then = "stopped" /\ Goes("stopped")
  BY <1>1, <1>2, <1>4, HandlerMoves DEF HostTyped, OpenIsFound, StagesStand,
     AddressStands, NoneOpen, Stage, OneAddress, StopMeansClosed, ServedIsHeld
<1>5. CASE Errs
  BY <1>1, <1>2, <1>5, Idle DEF Errs, HostTyped, OpenIsFound, StagesStand,
     AddressStands, NoneOpen, Stage, OneAddress, StopMeansClosed, ServedIsHeld
<1> QED BY <1>3, <1>4, <1>5 DEF StagesOver

(* A stop is claimed when nothing is selected, or after the stages.        *)
LEMMA StopSelectsStep ==
  ASSUME HostInv, StopSelects
  PROVE  HostInv'
<1> USE DEF HostInv
<1>1. halfMade = Nothing /\ calling.op = "stop" /\ UNCHANGED <<halls, hallReceipts, slots, disk,
        active, halfMade, listener, ports, host, granted, toldClosed>>
  BY DEF StopSelects
<1>2. ASSUME active = Nothing, slots.request = Nothing, Goes("stopped") PROVE HostInv'
  <2>1. NoneOpen
    BY <1>2, SomethingIsNothing DEF OpenIsFound, HostTyped, NoneOpen
  <2> QED
    BY <1>1, <1>2, <2>1, HandlerMoves DEF HostTyped, OpenIsFound, StagesStand, AddressStands, NoneOpen,
       Stage, OneAddress, StopMeansClosed, ServedIsHeld
<1>3. ASSUME active # Nothing, GoesThen("close", "stopped") PROVE HostInv'
  BY <1>1, <1>3, HandlerTurns DEF HostTyped, OpenIsFound, StagesStand, AddressStands, NoneOpen,
     Stage, OneAddress, StopMeansClosed, ServedIsHeld
<1>4. CASE Errs
  BY <1>1, <1>4, Idle DEF Errs, HostTyped, OpenIsFound, StagesStand, AddressStands, NoneOpen,
     Stage, OneAddress, StopMeansClosed, ServedIsHeld
<1> QED BY <1>2, <1>3, <1>4 DEF StopSelects, MayClaimClosed

LEMMA StoppedStep ==
  ASSUME HostInv, Stopped
  PROVE  HostInv'
<1>1. NoneOpen /\ calling.hall \in DOMAIN halls
  BY DEF HostInv, Stopped, StagesStand, HostTyped
<1> QED
  BY <1>1, Idle DEF HostInv, Stopped, Errs, HostTyped, OpenIsFound, StagesStand, AddressStands,
     NoneOpen, Stage, OneAddress, StopMeansClosed, ServedIsHeld

LEMMA HostClosesStep ==
  ASSUME HostInv, NEW n \in DOMAIN halls, HostCloses(n)
  PROVE  HostInv'
<1> USE DEF HostInv
<1>1. /\ halls' \in Seq(Hall) /\ DOMAIN halls' = DOMAIN halls
      /\ \A m \in DOMAIN halls : halls'[m].open => halls[m].open
  BY ClosedRoom DEF HostCloses
<1>2. UNCHANGED <<hallReceipts, slots, disk, active, halfMade, listener, ports, calling, host,
                  granted, toldClosed>>
  BY DEF HostCloses
<1>3. \A g \in granted : g[1] \in DOMAIN halls
  BY DEF HostTyped
<1> QED
  BY <1>1, <1>2, <1>3 DEF HostTyped, OpenIsFound, StagesStand, AddressStands,
     NoneOpen, Stage, OneAddress, StopMeansClosed, ServedIsHeld

LEMMA BackendDiesStep ==
  ASSUME HostInv, BackendDies
  PROVE  HostInv'
BY Idle DEF HostInv, BackendDies, Errs, HostTyped, OpenIsFound, StagesStand, AddressStands,
   NoneOpen, Stage, OneAddress, StopMeansClosed, ServedIsHeld

LEMMA HostStep ==
  ASSUME HostInv, [HostNext]_hostVars
  PROVE  HostInv'
<1>1. CASE UNCHANGED hostVars
  BY <1>1 DEF hostVars, HostInv, HostTyped, OpenIsFound, StagesStand, AddressStands,
     NoneOpen, Stage, OneAddress, StopMeansClosed, ServedIsHeld
<1> QED
  BY <1>1, ArriveStep, EndsStep, CompensateStep, StartSelectsStep, SaveRequestStep, CreateStep,
     OpenListenerStep, ListenerFailsStep, SaveAddressStep, TellAddressStep, CloseHallStep,
     ForgetStep, StagesOverStep, StopSelectsStep, StoppedStep, HostClosesStep, BackendDiesStep
  DEF HostNext

(* A room is open only while the player can find it again, its guests find *)
(* it where they were told, what was reported closed is closed, and the    *)
(* socket belongs to a room the service answers for, whatever of its       *)
(* stages failed, was dropped or died with the backend.                    *)
THEOREM HostIsAccountable == HostSpec => []HostAccountable
<1>1. HostInv => HostAccountable
  <2> SUFFICES ASSUME HostInv PROVE HostAccountable
    OBVIOUS
  <2>1. OpenRoomIsSaved
    BY SomethingIsNothing DEF HostInv, OpenIsFound, HostTyped, OpenRoomIsSaved, Received
  <2> QED BY <2>1 DEF HostInv, HostAccountable
<1>2. HostInv /\ [HostNext]_hostVars => HostInv'
  BY HostStep
<1> QED BY <1>1, <1>2, HostInvInit, PTL DEF HostSpec


-----------------------------------------------------------------------------
(* The feed.  Updates follow each other without a gap from what the guest  *)
(* was told last, and each shows the timeline of the state it carries.     *)
Page == [cursor : Nat, head : Nat, reset : Nat, anew : BOOLEAN, events : SUBSET Nat]
FeedStates == [at : {"off", "open", "first", "poll", "read"}, after : Nat, forced : BOOLEAN,
               cursor : Nat, head : Nat, lease : Nat, tries : Nat]
Screen == [status : {"offline", "connecting", "connected", "disconnected"}, head : Nat,
           cursor : Nat, reset : Nat]

FeedTyped ==
  /\ changes \in Seq({"state", "timeline_reset"}) /\ changes # <<>>
  /\ place \in [present : BOOLEAN, epoch : Nat] /\ feed \in FeedStates /\ wire \in Seq(Page)
  /\ answer \in [at : {"none", "asking", "answered"}, knew : Nat, update : Page \cup {<<>>}]
  /\ view \in Screen /\ told \in [set : SUBSET Nat, upto : Nat] /\ unseemly = FALSE

ResetAt(head) == Max({0} \cup {n \in 1..head : changes[n] = "timeline_reset"})

UpdateStands(u) ==
  /\ u \in Page /\ u.head \in 1..Latest /\ u.cursor <= u.head /\ u.reset = ResetAt(u.head)
  /\ u.anew => \E first \in Nat : first <= u.cursor /\ u.events = first..u.cursor

Follows(last, u) == u.anew \/ (last <= u.cursor /\ u.events = (last + 1)..u.cursor)

WireStands ==
  /\ \A i \in 1..Len(wire) : UpdateStands(wire[i])
  /\ wire # <<>> => Follows(told.upto, wire[1])
  /\ \A i \in 1..Len(wire) : i > 1 => Follows(wire[i - 1].cursor, wire[i])

ToldStands ==
  told.set = {} \/ \E first \in Nat : first <= told.upto /\ told.set = first..told.upto

FeedStands ==
  /\ feed.at \in {"poll", "read"} =>
        IF wire = <<>> THEN feed.cursor = told.upto /\ feed.cursor <= view.head
        ELSE feed.cursor = wire[Len(wire)].cursor
  /\ feed.at \in {"open", "first"} => wire = <<>> /\ told.upto = feed.after
  /\ view.status = "connecting" =>
        feed.at = "off" /\ wire = <<>> /\ answer.knew = view.reset

ViewStands ==
  /\ view.head <= Latest /\ view.reset = ResetAt(view.head)
  /\ answer.at = "answered" => UpdateStands(answer.update)

FeedInv == FeedTyped /\ WireStands /\ ToldStands /\ FeedStands /\ ViewStands

-----------------------------------------------------------------------------
(* The greatest of some numbers is one of them.                            *)
LEMMA GreatestOf ==
  ASSUME NEW n \in Nat, NEW S \in SUBSET (0..n), S # {}
  PROVE  Max(S) \in S /\ \A m \in S : m <= Max(S)
<1> DEFINE T == {n - s : s \in S}
<1>1. T \subseteq Nat /\ T # {}
  <2>1. \A s \in S : s \in Nat /\ s <= n /\ n - s \in Nat
    OBVIOUS
  <2> QED BY <2>1
<1>2. PICK x \in T : \A y \in T : <<y, x>> \notin OpToRel(<, Nat)
  <2> HIDE DEF T
  <2> QED BY <1>1, WFMin, NatLessThanWellFounded
<1>3. \A y \in T : ~(y < x)
  BY <1>1, <1>2 DEF OpToRel
<1>4. PICK b \in S : x = n - b
  OBVIOUS
<1>5. \A m \in S : b >= m
  <2> TAKE m \in S
  <2>1. ~(n - m < n - b)
    BY <1>3, <1>4
  <2> QED BY <2>1
<1>6. \E y \in S : \A m \in S : y >= m
  BY <1>5
<1>7. Max(S) \in S /\ \A m \in S : Max(S) >= m
  BY <1>6 DEF Max
<1>8. \A m \in S : m \in Nat
  OBVIOUS
<1> HIDE DEF T
<1>9. Max(S) \in Nat
  BY <1>7, <1>8
<1> QED BY <1>7, <1>8, <1>9

LEMMA LastOfInterval ==
  ASSUME NEW lo \in Nat, NEW hi \in Nat, lo <= hi
  PROVE  Max(lo..hi) = hi
<1>1. lo..hi \in SUBSET (0..hi) /\ hi \in lo..hi
  OBVIOUS
<1>2. Max(lo..hi) \in lo..hi /\ \A m \in lo..hi : m <= Max(lo..hi)
  BY <1>1, GreatestOf
<1> QED BY <1>1, <1>2

(* The timeline of a state, and that of the room's.                        *)
LEMMA TimelineOf ==
  ASSUME changes \in Seq({"state", "timeline_reset"})
  PROVE  /\ ResetAt(0) = 0
         /\ ResetCursor = ResetAt(Latest) /\ ResetCursor \in 0..Latest
<1>1. Latest \in Nat
  BY DEF Latest
<1>2. {0} \cup {n \in 1..0 : changes[n] = "timeline_reset"} = 0..0
  OBVIOUS
<1>3. ResetAt(0) = 0
  <2>1. ResetAt(0) = Max(0..0)
    BY <1>2, Zenon DEF ResetAt
  <2>2. 0 \in Nat /\ 0 <= 0
    OBVIOUS
  <2>3. Max(0..0) = 0
    BY <2>2, LastOfInterval
  <2> QED BY <2>1, <2>3
<1>4. ResetCursor = ResetAt(Latest)
  BY DEF ResetCursor, ResetAt, Resets
<1> DEFINE S == {0} \cup {n \in 1..Latest : changes[n] = "timeline_reset"}
<1>5. S \in SUBSET (0..Latest) /\ S # {}
  BY <1>1
<1>6. Max(S) \in S
  <2> HIDE DEF S
  <2> QED BY <1>1, <1>5, GreatestOf
<1> QED BY <1>3, <1>4, <1>5, <1>6 DEF ResetCursor, Resets

(* The page a reader gets: the newest changes of the timeline, or the next *)
(* ones after those it has.                                                *)
LEMMA PageHolds ==
  ASSUME FeedTyped, NEW after \in Nat
  PROVE  /\ UpdateStands(Update(after)) /\ Follows(after, Update(after))
         /\ Update(after).cursor = PageCursor(after) /\ PageCursor(after) \in Nat
<1>1. Latest \in Nat /\ Latest >= 1 /\ PageSize \in Nat /\ PageSize >= 1
  BY FeedAssumption DEF FeedTyped, Latest
<1>2. ResetCursor = ResetAt(Latest) /\ ResetCursor \in 0..Latest
  BY TimelineOf DEF FeedTyped
<1>3. CASE StartsAnew(after)
  <2> DEFINE S == {n \in 1..Latest : n >= ResetCursor}
             lo == IF ResetCursor = 0 THEN 1 ELSE ResetCursor
             first == IF Latest - PageSize + 1 > lo THEN Latest - PageSize + 1 ELSE lo
  <2>1. S = lo..Latest /\ lo \in 1..Latest
    BY <1>1, <1>2
  <2>2. \A n \in S : {m \in S : m > n} = (n + 1)..Latest
    BY <1>1, <2>1
  <2>3. \A n \in S : Cardinality({m \in S : m > n}) = Latest - n
    <3> TAKE n \in S
    <3>1. n \in 1..Latest
      BY <2>1
    <3>2. Cardinality((n + 1)..Latest) = Latest - n
      <4>1. n + 1 \in Int /\ Latest \in Int
        BY <1>1, <3>1
      <4>2. Cardinality((n + 1)..Latest) = IF n + 1 > Latest THEN 0 ELSE Latest - (n + 1) + 1
        BY <4>1, FS_Interval
      <4> QED BY <1>1, <3>1, <4>2
    <3> QED BY <2>2, <3>2
  <2>4. Newest(S) = first..Latest /\ first \in Nat /\ first <= Latest
    <3> HIDE DEF S
    <3>1. Newest(S) = {n \in S : Latest - n < PageSize}
      BY <2>3 DEF Newest
    <3>2. lo \in 1..Latest
      BY <2>1
    <3>3. S = lo..Latest
      BY <2>1
    <3> HIDE DEF lo
    <3>4. first \in Nat /\ first <= Latest /\ lo <= first
      BY <1>1, <3>2
    <3>5. \A n \in lo..Latest : Latest - n < PageSize <=> n >= first
      BY <1>1, <3>2
    <3> HIDE DEF first
    <3>6. {n \in lo..Latest : Latest - n < PageSize} = first..Latest
      BY <1>1, <3>2, <3>4, <3>5
    <3> QED BY <3>1, <3>3, <3>4, <3>6
  <2>5. Events(after) = first..Latest
    BY <1>3, <2>4 DEF Events
  <2> HIDE DEF S, lo, first
  <2>6. PageCursor(after) = Latest
    BY <1>3 DEF PageCursor
  <2>7. Update(after) \in Page
    BY <1>1, <1>2, <2>4, <2>5, <2>6 DEF Update, Page, StartsAnew
  <2> QED
    BY <1>1, <1>2, <1>3, <2>4, <2>5, <2>6, <2>7 DEF Update, UpdateStands, Follows
<1>4. CASE ~StartsAnew(after)
  <2>1. after \in 1..Latest
    BY <1>1, <1>4 DEF StartsAnew
  <2> DEFINE S == {n \in 1..Latest : n > after}
             last == IF after + PageSize < Latest THEN after + PageSize ELSE Latest
  <2>2. S = (after + 1)..Latest
    BY <1>1, <2>1
  <2>3. \A n \in S : {m \in S : m < n} = (after + 1)..(n - 1)
    BY <1>1, <2>1, <2>2
  <2>4. \A n \in S : Cardinality({m \in S : m < n}) = n - 1 - after
    <3> TAKE n \in S
    <3>1. n \in (after + 1)..Latest
      BY <2>2
    <3>2. Cardinality((after + 1)..(n - 1)) = n - 1 - after
      <4>1. after + 1 \in Int /\ n - 1 \in Int
        BY <3>1
      <4>2. Cardinality((after + 1)..(n - 1)) = IF after + 1 > n - 1 THEN 0 ELSE (n - 1) - (after + 1) + 1
        BY <4>1, FS_Interval
      <4> QED BY <1>1, <2>1, <3>1, <4>2
    <3> QED BY <2>3, <3>2
  <2>5. Oldest(S) = (after + 1)..last
    <3> HIDE DEF S
    <3>1. Oldest(S) = {n \in S : n - 1 - after < PageSize}
      BY <2>4 DEF Oldest
    <3>2. S = (after + 1)..Latest
      BY <2>2
    <3>3. last \in Nat /\ last <= Latest
      BY <1>1, <2>1
    <3>4. \A n \in (after + 1)..Latest : n - 1 - after < PageSize <=> n <= last
      BY <1>1, <2>1
    <3> HIDE DEF last
    <3>5. {n \in (after + 1)..Latest : n - 1 - after < PageSize} = (after + 1)..last
      BY <1>1, <2>1, <3>3, <3>4
    <3> QED BY <3>1, <3>2, <3>5
  <2>6. Events(after) = (after + 1)..last /\ last \in after..Latest /\ (last = after => last = Latest)
    BY <1>1, <1>4, <2>1, <2>5 DEF Events
  <2> HIDE DEF S, last
  <2>7. PageCursor(after) = last
    <3>1. CASE last = after
      BY <1>4, <2>1, <2>6, <3>1 DEF PageCursor
    <3>2. CASE last # after
      <4>1. after + 1 <= last /\ Events(after) # {}
        BY <2>1, <2>6, <3>2
      <4> QED BY <1>4, <2>1, <2>6, <4>1, LastOfInterval DEF PageCursor
    <3> QED BY <3>1, <3>2
  <2>8. Update(after) \in Page
    BY <1>1, <1>2, <2>1, <2>6, <2>7 DEF Update, Page, StartsAnew
  <2> QED
    BY <1>1, <1>2, <1>4, <2>1, <2>6, <2>7, <2>8 DEF Update, UpdateStands, Follows
<1> QED BY <1>3, <1>4

LEMMA FeedInvInit == FeedInit => FeedInv
<1> SUFFICES ASSUME FeedInit PROVE FeedInv
  OBVIOUS
<1>1. changes = <<"state">> /\ changes \in Seq({"state", "timeline_reset"}) /\ changes # <<>> /\ Len(changes) = 1
  BY DEF FeedInit
<1>2. ResetAt(0) = 0
  BY <1>1, TimelineOf
<1>3. NoFeed \in FeedStates /\ NoFeed.at = "off" /\ EmptyView \in Screen /\ EmptyView.status = "offline"
      /\ EmptyView.head = 0 /\ EmptyView.reset = 0
  BY DEF NoFeed, FeedStates, EmptyView, Screen
<1>4. FeedTyped
  BY <1>1, <1>3 DEF FeedInit, FeedTyped, NoAnswer, NothingHeard
<1> QED
  BY <1>1, <1>2, <1>3, <1>4 DEF FeedInit, FeedInv, WireStands, ToldStands, FeedStands, ViewStands,
     NoAnswer, NothingHeard, Latest

(* A change more is a change nobody has read: what was read stays true.    *)
LEMMA ChangeStep ==
  ASSUME FeedInv, NEW kind \in {"state", "timeline_reset"}, changes' = Append(changes, kind),
         place' \in [present : BOOLEAN, epoch : Nat],
         UNCHANGED <<feed, wire, answer, view, told, unseemly>>
  PROVE  FeedInv'
<1> USE DEF FeedInv
<1>1. /\ changes' \in Seq({"state", "timeline_reset"}) /\ changes' # <<>>
      /\ Latest \in Nat /\ Latest' = Latest + 1
      /\ \A n \in 1..Latest : changes'[n] = changes[n]
  BY DEF FeedTyped, Latest
<1>2. \A h \in 0..Latest : ResetAt(h)' = ResetAt(h)
  <2> SUFFICES ASSUME NEW h \in 0..Latest PROVE ResetAt(h)' = ResetAt(h)
    OBVIOUS
  <2>1. {n \in 1..h : changes'[n] = "timeline_reset"} = {n \in 1..h : changes[n] = "timeline_reset"}
    <3>1. \A n \in 1..h : n \in 1..Latest
      BY <1>1
    <3> QED BY <1>1, <3>1
  <2> QED BY <2>1, Zenon DEF ResetAt
<1>3. \A u \in Page : UpdateStands(u) => UpdateStands(u)'
  BY <1>1, <1>2 DEF UpdateStands, Page
<1>4. \A i \in 1..Len(wire) : wire[i] \in Page
  BY DEF FeedTyped
<1>5. FeedTyped'
  BY <1>1 DEF FeedTyped
<1>6. WireStands'
  BY <1>3, <1>4 DEF WireStands, Follows
<1>7. ViewStands'
  <2>1. view.head \in 0..Latest
    BY <1>1 DEF ViewStands, FeedTyped, Screen
  <2>2. answer.at = "answered" => UpdateStands(answer.update)'
    BY <1>3 DEF ViewStands, UpdateStands
  <2> QED BY <1>1, <1>2, <2>1, <2>2 DEF ViewStands
<1> QED BY <1>5, <1>6, <1>7 DEF ToldStands, FeedStands

(* Only the stream of the host moves, and not to where it may read on.     *)
LEMMA FeedMoves ==
  ASSUME FeedInv, feed' \in FeedStates, UNCHANGED <<changes, place, wire, answer, view, told, unseemly>>,
         feed'.at \in {"poll", "read"} => feed.at \in {"poll", "read"} /\ feed'.cursor = feed.cursor,
         feed'.at \in {"open", "first"} => feed.at \in {"open", "first"} /\ feed'.after = feed.after
  PROVE  FeedInv'
<1>1. view.status = "connecting" => feed'.at = "off"
  BY DEF FeedInv, FeedStands, FeedTyped, FeedStates
<1>2. FeedTyped' /\ ToldStands'
  BY DEF FeedInv, FeedTyped, ToldStands
<1>3. \A u : UpdateStands(u)' = UpdateStands(u)
  BY DEF UpdateStands, ResetAt, Latest
<1>4. WireStands' /\ ViewStands'
  BY <1>3 DEF FeedInv, WireStands, ViewStands, Follows, ResetAt, Latest
<1>5. FeedStands'
  BY <1>1 DEF FeedInv, FeedStands
<1> QED BY <1>2, <1>4, <1>5 DEF FeedInv

LEMMA SendsStep ==
  ASSUME FeedInv, NEW after \in Nat, SendsPage(Update(after)), place.present = TRUE,
         feed.at \in {"first", "read"},
         feed.at = "first" => after = feed.after, feed.at = "read" => after = feed.cursor
  PROVE  FeedInv'
<1> USE DEF FeedInv
<1> DEFINE u == Update(after)
           f == [feed EXCEPT !.at = "poll", !.cursor = u.cursor, !.head = u.head]
<1>1. UpdateStands(u) /\ Follows(after, u) /\ u \in Page
  BY PageHolds DEF UpdateStands
<1>2. f \in FeedStates /\ f.at = "poll" /\ f.cursor = u.cursor
  <2> HIDE DEF u
  <2> QED BY <1>1 DEF FeedTyped, FeedStates, Page
<1> HIDE DEF u, f
<1>3. wire' = Append(wire, u) /\ feed' = f /\ UNCHANGED <<changes, place, answer, view, told, unseemly>>
  BY DEF SendsPage, FeedTyped, u, f
<1>4. /\ wire \in Seq(Page) /\ wire' \in Seq(Page) /\ Len(wire) \in Nat /\ Len(wire') = Len(wire) + 1
      /\ wire'[Len(wire) + 1] = u /\ \A i \in 1..Len(wire) : wire'[i] = wire[i]
      /\ (wire = <<>> <=> Len(wire) = 0) /\ wire' # <<>>
  BY <1>1, <1>3 DEF FeedTyped
<1>5. IF wire = <<>> THEN after = told.upto ELSE after = wire[Len(wire)].cursor
  BY DEF FeedStands
<1>6. view.status # "connecting"
  BY DEF FeedStands
<1>7. \A v : UpdateStands(v)' = UpdateStands(v)
  BY <1>3 DEF UpdateStands, ResetAt, Latest
<1>8. WireStands'
  <2>1. \A i \in 1..Len(wire') : UpdateStands(wire'[i])
    BY <1>1, <1>4 DEF WireStands
  <2>2. Follows(told.upto, wire'[1])
    BY <1>1, <1>4, <1>5 DEF WireStands
  <2>3. ASSUME NEW i \in 1..Len(wire'), i > 1 PROVE Follows(wire'[i - 1].cursor, wire'[i])
    <3>1. CASE i = Len(wire) + 1
      BY <1>1, <1>4, <1>5, <2>3, <3>1
    <3>2. CASE i \in 1..Len(wire)
      BY <1>4, <2>3, <3>2 DEF WireStands
    <3> QED BY <1>4, <3>1, <3>2
  <2> QED BY <1>3, <1>7, <2>1, <2>2, <2>3 DEF WireStands, Follows
<1>9. FeedTyped' /\ ToldStands'
  BY <1>2, <1>3, <1>4 DEF FeedTyped, ToldStands
<1>10. FeedStands'
  BY <1>2, <1>3, <1>4, <1>6 DEF FeedStands
<1>11. ViewStands'
  BY <1>3 DEF ViewStands, UpdateStands, ResetAt, Latest
<1> QED BY <1>8, <1>9, <1>10, <1>11

(* An update the screen takes is of the state it shows from then on.       *)
LEMMA ShowsStands ==
  ASSUME FeedInv, NEW u \in Page, UpdateStands(u),
         NEW status \in {"offline", "connecting", "connected", "disconnected"}, Shows(u, status)
  PROVE  /\ view' \in Screen /\ view'.status = status
         /\ view'.head <= Latest /\ view'.reset = ResetAt(view'.head)
         /\ u.cursor <= view'.head /\ view.head <= view'.head
<1>1. view \in Screen /\ view.head <= Latest /\ view.reset = ResetAt(view.head) /\ Latest \in Nat
  BY DEF FeedInv, FeedTyped, ViewStands, Latest
<1>2. CASE Fresh(u)
  <2> DEFINE m == Max({view.cursor, u.cursor})
  <2>1. m \in Nat
    <3>1. view.cursor \in Nat /\ u.cursor \in Nat /\ view.cursor + u.cursor \in Nat
      BY <1>1 DEF Screen, Page
    <3>2. {view.cursor, u.cursor} \in SUBSET (0..(view.cursor + u.cursor))
      BY <3>1
    <3>3. Max({view.cursor, u.cursor}) \in {view.cursor, u.cursor}
      BY <3>1, <3>2, GreatestOf
    <3> QED BY <3>1, <3>3
  <2> DEFINE new == [status |-> status, head |-> u.head, reset |-> u.reset, cursor |-> m]
  <2>2. view' = new
    BY <1>2 DEF Shows
  <2> HIDE DEF m
  <2>3. new \in Screen /\ new.status = status /\ new.head = u.head /\ new.reset = u.reset
    BY <2>1 DEF Screen, Page
  <2> HIDE DEF new
  <2> QED BY <1>1, <1>2, <2>2, <2>3 DEF Fresh, UpdateStands, Page, Screen
<1>3. CASE ~Fresh(u)
  <2>1. view' = [view EXCEPT !.status = status]
    BY <1>3 DEF Shows
  <2> QED BY <1>1, <1>3, <2>1 DEF Fresh, UpdateStands, Page, Screen
<1> QED BY <1>2, <1>3

LEMMA GuestActivatesStep ==
  ASSUME FeedInv, GuestActivates
  PROVE  FeedInv'
<1> USE DEF FeedInv
<1> DEFINE v == [EmptyView EXCEPT !.status = "connecting"]
           a == [NoAnswer EXCEPT !.at = "asking"]
<1>1. v \in Screen /\ v.status = "connecting" /\ v.head = 0 /\ v.reset = 0
  BY DEF EmptyView, Screen
<1>2. a.at = "asking" /\ a.knew = 0 /\ a \in [at : {"none", "asking", "answered"}, knew : Nat, update : Page \cup {<<>>}]
  BY DEF NoAnswer
<1>3. NoFeed \in FeedStates /\ NoFeed.at = "off"
  BY DEF NoFeed, FeedStates
<1> HIDE DEF v, a
<1>4. /\ view' = v /\ answer' = a /\ feed' = NoFeed /\ wire' = <<>> /\ told' = NothingHeard
      /\ UNCHANGED <<changes, place, unseemly>>
  BY DEF GuestActivates, v, a
<1>5. ResetAt(0) = 0 /\ Latest \in Nat
  BY TimelineOf DEF FeedTyped, Latest
<1>6. FeedTyped'
  BY <1>1, <1>2, <1>3, <1>4 DEF FeedTyped, NothingHeard
<1>7. ViewStands'
  <2>1. {0} \cup {n \in 1..view'.head : changes'[n] = "timeline_reset"} = 0..0
    BY <1>1, <1>4
  <2>2. Max({0} \cup {n \in 1..view'.head : changes'[n] = "timeline_reset"}) = 0
    <3>1. Max(0..0) = 0
      BY LastOfInterval, 0 \in Nat, 0 <= 0
    <3> QED BY <2>1, <3>1, Zenon
  <2> QED BY <1>1, <1>2, <1>4, <1>5, <2>2 DEF ViewStands, ResetAt, Latest
<1>8. ToldStands' /\ FeedStands' /\ WireStands'
  BY <1>1, <1>2, <1>3, <1>4 DEF ToldStands, FeedStands, WireStands, NothingHeard
<1> QED BY <1>6, <1>7, <1>8

(* Requests of the guest, and their answers, which may be lost.            *)
LEMMA AnswerStep ==
  ASSUME FeedInv, GuestAsks \/ HostAnswers \/ AnswerLost
  PROVE  FeedInv'
<1> USE DEF FeedInv
<1>1. UNCHANGED <<changes, place, feed, wire, told, unseemly>>
  BY DEF GuestAsks, HostAnswers, AnswerLost
<1>2. \A u : UpdateStands(u)' = UpdateStands(u)
  BY <1>1 DEF UpdateStands, ResetAt, Latest
<1>3. /\ answer' \in [at : {"none", "asking", "answered"}, knew : Nat, update : Page \cup {<<>>}]
      /\ answer'.at = "answered" => UpdateStands(answer'.update)
  <2>1. CASE GuestAsks
    BY <2>1 DEF GuestAsks, NoAnswer, FeedTyped, Screen
  <2>2. CASE HostAnswers
    <3>1. UpdateStands(Update(0)) /\ Update(0) \in Page
      BY PageHolds DEF UpdateStands
    <3> DEFINE u == Update(0)
    <3> HIDE DEF u
    <3>2. answer' = [answer EXCEPT !.at = "answered", !.update = u]
      BY <2>2 DEF HostAnswers, u
    <3>3. UpdateStands(u) /\ u \in Page
      BY <3>1 DEF u
    <3> QED BY <3>2, <3>3 DEF FeedTyped
  <2>3. CASE AnswerLost
    BY <2>3 DEF AnswerLost, NoAnswer
  <2> QED BY <2>1, <2>2, <2>3
<1>4. /\ view' \in Screen /\ view'.head = view.head /\ view'.reset = view.reset
      /\ view'.status = "connecting" => view.status = "connecting" /\ answer'.knew = answer.knew
  BY DEF GuestAsks, HostAnswers, AnswerLost, FeedTyped, Screen
<1>5. FeedTyped'
  BY <1>1, <1>3, <1>4 DEF FeedTyped
<1>6. WireStands' /\ ToldStands'
  BY <1>1, <1>2 DEF WireStands, ToldStands, Follows
<1>7. FeedStands'
  BY <1>1, <1>4 DEF FeedStands
<1>8. ViewStands'
  BY <1>1, <1>2, <1>3, <1>4 DEF ViewStands, ResetAt, Latest
<1> QED BY <1>5, <1>6, <1>7, <1>8

LEMMA AnswerArrivesStep ==
  ASSUME FeedInv, AnswerArrives
  PROVE  FeedInv'
<1> USE DEF FeedInv
<1> DEFINE u == answer.update
<1>1. u \in Page /\ UpdateStands(u)
  BY DEF AnswerArrives, ViewStands, UpdateStands
<1>2. UNCHANGED <<changes, place, wire, unseemly>> /\ answer' = NoAnswer
  BY DEF AnswerArrives
<1>3. view \in Screen /\ view.head <= Latest /\ view.reset = ResetAt(view.head)
  BY DEF FeedTyped, ViewStands
<1>4. /\ view' \in Screen /\ view'.head <= Latest /\ view'.reset = ResetAt(view'.head)
      /\ view.head <= view'.head /\ view'.status \in {view.status, "connected"}
      /\ view'.status = "connecting" => answer.knew # view.reset
  <2>1. CASE answer.knew = view.reset
    <3>1. Shows(u, "connected")
      BY <2>1 DEF AnswerArrives
    <3> QED BY <1>1, <3>1, ShowsStands
  <2>2. CASE answer.knew # view.reset
    BY <1>3, <2>2 DEF AnswerArrives, Screen
  <2> QED BY <2>1, <2>2
<1>5. \A v : UpdateStands(v)' = UpdateStands(v)
  BY <1>2 DEF UpdateStands, ResetAt, Latest
<1>6. ViewStands'
  BY <1>2, <1>4, <1>5 DEF ViewStands, NoAnswer, ResetAt, Latest
<1>7. answer' \in [at : {"none", "asking", "answered"}, knew : Nat, update : Page \cup {<<>>}]
  BY <1>2 DEF NoAnswer
<1>8. CASE view.status # "connecting"
  <2>1. UNCHANGED <<feed, told>> /\ view'.status # "connecting"
    BY <1>4, <1>8 DEF AnswerArrives
  <2>2. FeedTyped'
    BY <1>2, <1>4, <1>7, <2>1 DEF FeedTyped
  <2>3. WireStands' /\ ToldStands'
    BY <1>2, <1>5, <2>1 DEF WireStands, ToldStands, Follows
  <2>4. FeedStands'
    <3>1. feed.cursor \in Nat /\ view.head \in Nat /\ view'.head \in Nat
      BY <1>3, <1>4 DEF FeedTyped, FeedStates, Screen
    <3> QED BY <1>2, <1>4, <2>1, <3>1 DEF FeedStands
  <2> QED BY <1>6, <2>2, <2>3, <2>4
<1>9. CASE view.status = "connecting"
  <2>1. wire = <<>> /\ answer.knew = view.reset
    BY <1>9 DEF FeedStands
  <2> DEFINE f == [NoFeed EXCEPT !.at = "open", !.after = u.cursor, !.forced = TRUE]
  <2>2. f \in FeedStates /\ f.at = "open" /\ f.after = u.cursor
    <3> HIDE DEF u
    <3> QED BY <1>1 DEF NoFeed, FeedStates, Page
  <2> HIDE DEF f
  <2>3. feed' = f /\ told' = [set |-> {}, upto |-> u.cursor]
    BY <1>9 DEF AnswerArrives, f
  <2>4. FeedTyped'
    BY <1>1, <1>2, <1>4, <1>7, <2>2, <2>3 DEF FeedTyped, Page
  <2>5. WireStands' /\ ToldStands'
    BY <1>2, <2>1, <2>3 DEF WireStands, ToldStands
  <2>6. FeedStands'
    BY <1>2, <1>4, <2>1, <2>2, <2>3 DEF FeedStands
  <2> QED BY <1>6, <2>4, <2>5, <2>6
<1> QED BY <1>8, <1>9

LEMMA GuestHearsStep ==
  ASSUME FeedInv, GuestHears
  PROVE  FeedInv'
<1> USE DEF FeedInv
<1> DEFINE u == wire[1]
<1>1. /\ wire \in Seq(Page) /\ wire # <<>> /\ wire' = Tail(wire) /\ Len(wire) \in Nat /\ Len(wire) >= 1
      /\ UNCHANGED <<changes, place, feed, answer, unseemly>>
  BY DEF GuestHears, FeedTyped
<1>2. u \in Page /\ UpdateStands(u) /\ Follows(told.upto, u) /\ u.cursor \in Nat
  <2>1. 1 \in 1..Len(wire)
    BY <1>1
  <2>2. wire[1] \in Page /\ UpdateStands(wire[1])
    BY <1>1, <2>1 DEF WireStands
  <2>3. Follows(told.upto, wire[1])
    BY <1>1 DEF WireStands
  <2> QED BY <2>2, <2>3 DEF Page
<1>3. /\ wire' \in Seq(Page) /\ Len(wire') = Len(wire) - 1 /\ (wire' = <<>> <=> Len(wire) = 1)
      /\ \A i \in 1..Len(wire') : wire'[i] = wire[i + 1]
  <2>1. wire' \in Seq(Page) /\ Len(wire') = Len(wire) - 1 /\ \A i \in 1..Len(wire') : wire'[i] = wire[i + 1]
    BY <1>1, HeadTailProperties
  <2>2. wire' = <<>> <=> Len(wire') = 0
    BY <2>1, EmptySeq
  <2> QED BY <1>1, <2>1, <2>2
<1>4. /\ Shows(u, view.status)
      /\ told' = [set |-> IF u.anew THEN u.events ELSE told.set \cup u.events, upto |-> u.cursor]
  BY DEF GuestHears
<1>5. view \in Screen /\ told \in [set : SUBSET Nat, upto : Nat]
  BY DEF FeedTyped
<1>6. /\ view' \in Screen /\ view'.status = view.status
      /\ view'.head <= Latest /\ view'.reset = ResetAt(view'.head) /\ u.cursor <= view'.head
  BY <1>2, <1>4, <1>5, ShowsStands DEF Screen
<1>7. \A v : UpdateStands(v)' = UpdateStands(v)
  BY <1>1 DEF UpdateStands, ResetAt, Latest
<1>8. view.status # "connecting"
  BY <1>1 DEF FeedStands
<1> HIDE DEF u
<1>9. told'.set \in SUBSET Nat /\ told' \in [set : SUBSET Nat, upto : Nat] /\ told'.upto = u.cursor
  BY <1>2, <1>4, <1>5 DEF Page
<1>10. FeedTyped'
  BY <1>1, <1>3, <1>6, <1>9 DEF FeedTyped
<1>11. WireStands'
  <2>1. \A i \in 1..Len(wire') : UpdateStands(wire'[i])
    BY <1>1, <1>3 DEF WireStands
  <2>2. ASSUME NEW i \in 1..Len(wire'), i > 1 PROVE Follows(wire'[i - 1].cursor, wire'[i])
    <3>1. i + 1 \in 1..Len(wire) /\ i + 1 > 1 /\ i - 1 \in 1..Len(wire')
      BY <1>1, <1>3, <2>2
    <3>2. Follows(wire[(i + 1) - 1].cursor, wire[i + 1])
      BY <3>1 DEF WireStands
    <3>3. wire'[i] = wire[i + 1] /\ wire'[i - 1] = wire[(i + 1) - 1]
      BY <1>3, <3>1
    <3> QED BY <3>2, <3>3
  <2>3. wire' # <<>> => Follows(told'.upto, wire'[1])
    <3> SUFFICES ASSUME wire' # <<>> PROVE Follows(told'.upto, wire'[1])
      OBVIOUS
    <3>1. 2 \in 1..Len(wire) /\ 1 \in 1..Len(wire')
      BY <1>1, <1>3
    <3>2. Follows(wire[2 - 1].cursor, wire[2]) /\ wire'[1] = wire[1 + 1]
      BY <1>3, <3>1 DEF WireStands
    <3> QED BY <1>9, <3>2 DEF u
  <2> QED BY <1>7, <2>1, <2>2, <2>3 DEF WireStands, Follows
<1>12. ToldStands'
  <2>1. CASE u.anew
    <3>1. PICK first \in Nat : first <= u.cursor /\ u.events = first..u.cursor
      BY <1>2, <2>1 DEF UpdateStands
    <3>2. told'.set = first..told'.upto
      BY <1>4, <1>9, <2>1, <3>1
    <3> QED BY <1>9, <3>1, <3>2 DEF ToldStands
  <2>2. CASE ~u.anew
    <3>1. told.upto <= u.cursor /\ u.events = (told.upto + 1)..u.cursor
          /\ told'.set = told.set \cup u.events
      BY <1>2, <1>4, <2>2 DEF Follows
    <3>2. CASE told.set = {}
      <4>1. CASE told.upto = u.cursor
        BY <1>5, <3>1, <3>2, <4>1 DEF ToldStands
      <4>2. CASE told.upto # u.cursor
        <5>1. told.upto + 1 <= told'.upto /\ told.upto + 1 \in Nat /\ told'.set = (told.upto + 1)..told'.upto
          BY <1>2, <1>5, <1>9, <3>1, <3>2, <4>2
        <5> QED BY <5>1 DEF ToldStands
      <4> QED BY <4>1, <4>2
    <3>3. CASE told.set # {}
      <4>1. PICK first \in Nat : first <= told.upto /\ told.set = first..told.upto
        BY <3>3 DEF ToldStands
      <4>2. told'.set = first..told'.upto /\ first <= told'.upto
        BY <1>2, <1>5, <1>9, <3>1, <4>1
      <4> QED BY <4>2 DEF ToldStands
    <3> QED BY <3>2, <3>3
  <2> QED BY <2>1, <2>2
<1>13. FeedStands'
  <2>1. feed.at \in {"poll", "read"} => feed.cursor = wire[Len(wire)].cursor
    BY <1>1 DEF FeedStands
  <2>2. wire' # <<>> => wire'[Len(wire')] = wire[Len(wire)]
    BY <1>1, <1>3
  <2>3. wire' = <<>> => wire[Len(wire)] = u
    BY <1>1, <1>3 DEF u
  <2>4. feed.at \notin {"open", "first"}
    BY <1>1 DEF FeedStands
  <2> QED BY <1>1, <1>6, <1>8, <1>9, <2>1, <2>2, <2>3, <2>4 DEF FeedStands
<1>14. ViewStands'
  BY <1>1, <1>6, <1>7 DEF ViewStands, ResetAt, Latest
<1> QED BY <1>10, <1>11, <1>12, <1>13, <1>14

LEMMA FeedStep ==
  ASSUME FeedInv, [FeedNext]_feedVars
  PROVE  FeedInv'
<1>1. CASE UNCHANGED feedVars
  <2>1. UNCHANGED <<changes, place, feed, wire, view, answer, told, unseemly>>
    BY <1>1 DEF feedVars
  <2>2. FeedTyped' /\ ToldStands' /\ FeedStands'
    BY <2>1 DEF FeedInv, FeedTyped, ToldStands, FeedStands, Latest
  <2>3. WireStands'
    BY <2>1 DEF FeedInv, WireStands, UpdateStands, Follows, ResetAt, Latest
  <2>4. ViewStands'
    <3>1. \A n : ResetAt(n)' = ResetAt(n)
      BY <2>1 DEF ResetAt
    <3> QED BY <2>1, <3>1 DEF FeedInv, ViewStands, UpdateStands, Latest
  <2> QED BY <2>2, <2>3, <2>4 DEF FeedInv
<1>2. CASE SomethingChanges \/ SaveRestored
  <2>1. place' \in [present : BOOLEAN, epoch : Nat]
    BY <1>2 DEF SomethingChanges, SaveRestored, FeedInv, FeedTyped
  <2> QED BY <1>2, <2>1, ChangeStep DEF SomethingChanges, SaveRestored, Commits
<1>3. CASE MembersChange
  <2>1. place' \in [present : BOOLEAN, epoch : Nat]
    BY <1>3 DEF MembersChange, FeedInv, FeedTyped
  <2> QED BY <1>3, <2>1, ChangeStep DEF MembersChange, Commits
<1>4. CASE FeedAuthenticates
  BY <1>4, FeedMoves DEF FeedAuthenticates, FeedInv, FeedTyped, FeedStates, NoFeed
<1>5. CASE FirstPage \/ NextPage
  <2>1. place.present = TRUE /\ feed.after \in Nat /\ feed.cursor \in Nat
    BY <1>5 DEF FirstPage, NextPage, LeaseHolds, FeedInv, FeedTyped, FeedStates
  <2> QED BY <1>5, <2>1, SendsStep DEF FirstPage, NextPage
<1>6. CASE NoPage
  BY <1>6, FeedMoves DEF NoPage, FeedInv, FeedTyped, FeedStates
<1>7. CASE FeedDenied
  <2>1. feed \in FeedStates /\ NoFeed \in FeedStates /\ NoFeed.at = "off"
        /\ UNCHANGED <<changes, place, wire, answer, view, told, unseemly>>
    BY <1>7 DEF FeedDenied, FeedInv, FeedTyped, FeedStates, NoFeed
  <2>2. CASE feed.at = "read" /\ feed' = [feed EXCEPT !.at = "poll"]
    BY <2>1, <2>2, FeedMoves DEF FeedStates
  <2>3. CASE feed.at = "first" /\ feed' = [feed EXCEPT !.at = "open", !.tries = @ + 1]
    <3> DEFINE more == feed.tries + 1
    <3>1. more \in Nat
      BY <2>1 DEF FeedStates
    <3>2. feed' = [feed EXCEPT !.at = "open", !.tries = more]
      BY <2>3
    <3> HIDE DEF more
    <3>3. feed' \in FeedStates /\ feed'.at = "open" /\ feed'.after = feed.after
      BY <2>1, <3>1, <3>2 DEF FeedStates
    <3> QED BY <2>1, <2>3, <3>3, FeedMoves
  <2>4. CASE feed' = NoFeed
    BY <2>1, <2>4, FeedMoves
  <2> QED BY <1>7, <2>2, <2>3, <2>4 DEF FeedDenied
<1>8. CASE FeedBreaks
  <2>1. NoFeed \in FeedStates /\ NoFeed.at = "off"
    BY DEF NoFeed, FeedStates
  <2>2. view' \in Screen /\ view'.head = view.head /\ view'.reset = view.reset /\ view'.status = "disconnected"
    BY <1>8 DEF FeedBreaks, FeedInv, FeedTyped, Screen
  <2>3. feed' = NoFeed /\ wire' = <<>> /\ UNCHANGED <<changes, place, answer, told, unseemly>>
    BY <1>8 DEF FeedBreaks
  <2> QED
    BY <2>1, <2>2, <2>3 DEF FeedInv, FeedTyped, WireStands, ToldStands, FeedStands, ViewStands,
       UpdateStands, ResetAt, Latest
<1> QED
  BY <1>1, <1>2, <1>3, <1>4, <1>5, <1>6, <1>7, <1>8, GuestActivatesStep, AnswerStep, AnswerArrivesStep,
     GuestHearsStep DEF FeedNext

(* A member of a room hears every change in order and without a gap, shows *)
(* the room as it is once the feed has said all, and is read to only while *)
(* a member, whatever overtakes, breaks or is restored.                    *)
THEOREM FeedIsFaithful == FeedSpec => []FeedFaithful
<1>1. FeedInv => FeedFaithful
  <2> SUFFICES ASSUME FeedInv PROVE FeedFaithful
    OBVIOUS
  <2> USE DEF FeedInv
  <2>1. NothingSkipped
    <3>1. CASE told.set = {}
      BY <3>1 DEF NothingSkipped
    <3>2. CASE told.set # {}
      <4>1. PICK first \in Nat : first <= told.upto /\ told.set = first..told.upto
        BY <3>2 DEF ToldStands
      <4>2. told.upto \in Nat
        BY DEF FeedTyped
      <4>3. Max(told.set) = told.upto
        BY <4>1, <4>2, LastOfInterval
      <4>4. \A m, n \in told.set : m..n \subseteq told.set
        BY <4>1, <4>2
      <4> QED BY <4>3, <4>4 DEF NothingSkipped
    <3> QED BY <3>1, <3>2
  <2>2. QuietMeansCurrent
    <3>1. ResetCursor = ResetAt(Latest) /\ Latest \in Nat /\ view.head \in Nat
      BY TimelineOf DEF FeedTyped, Latest, Screen
    <3>2. view.head <= Latest /\ view.reset = ResetAt(view.head)
      BY DEF ViewStands
    <3>3. feed.at = "poll" /\ feed.cursor = Latest /\ wire = <<>> => view.head = Latest
      BY <3>1, <3>2 DEF FeedStands
    <3> QED BY <3>1, <3>2, <3>3 DEF QuietMeansCurrent
  <2> QED BY <2>1, <2>2 DEF FeedFaithful, FeedTyped
<1>2. FeedInv /\ [FeedNext]_feedVars => FeedInv'
  BY FeedStep
<1> QED BY <1>1, <1>2, FeedInvInit, PTL DEF FeedSpec

-----------------------------------------------------------------------------
(* The outbox of a guest.  A call that has an operation on its way, or the *)
(* answer to it, has it in the slot; and one call at a time is that far.   *)
Memories == [known : BOOLEAN, conn : Nat, departed : Nat, intent : Nat, selected : BOOLEAN,
             pending : BOOLEAN, archived : BOOLEAN, other : GuestOps \cup {NoOp},
             departure : Nat \cup {NoOp}]
Seats == [st : {"none", "in", "left", "out"}, departure : Nat, epoch : Nat]
OutboxStages == {"off", "lane", "settled", "enter", "choose", "ask", "granted", "denied", "select",
                 "chosen"} \cup InOutbox
Calls == [at : OutboxStages, does : {"nothing", "act", "leave", "join", "resume", "recover"},
          op : GuestOps \cup Nat \cup {NoOp}, epoch : Nat]
OnItsWay == {"sent", "no", "yes"}
Fits(r) == IF r.does = "act" THEN r.op \in GuestOps /\ r.at \in {"lane"} \cup OnItsWay
                             ELSE r.op \in Nat \cup {NoOp}

OutboxTyped ==
  /\ seat \in Seats
  /\ left \subseteq [decided : Nat, became : Nat] /\ carried \subseteq GuestOps
  /\ store \in Memories /\ filed \in Memories
  /\ call \in [Callers -> Calls] /\ \A c \in Callers : Fits(call[c])
OneInOutbox == \A c, d \in Callers : call[c].at \in InOutbox /\ call[d].at \in InOutbox => c = d
SlotHolds == \A c \in Callers : ~Leaving(c) /\ call[c].at \in OnItsWay => store.other = call[c].op
OutboxInv == OutboxTyped /\ OneInOutbox /\ SlotHolds /\ FateKept

(* Moves changes one call: it is in the outbox only if it was, or nobody.  *)
LEMMA OneCallMoves ==
  ASSUME OutboxInv, NEW c \in Callers, NEW r \in Calls, Fits(r), call' = [call EXCEPT ![c] = r],
         r.at \in InOutbox => call[c].at \in InOutbox \/ OutboxFree
  PROVE  /\ call' \in [Callers -> Calls] /\ \A d \in Callers : Fits(call'[d])
         /\ OneInOutbox' /\ call'[c] = r /\ \A d \in Callers \ {c} : call'[d] = call[d]
<1>1. call \in [Callers -> Calls] /\ \A d \in Callers : Fits(call[d])
  BY DEF OutboxInv, OutboxTyped
<1>2. call'[c] = r /\ \A d \in Callers \ {c} : call'[d] = call[d]
  BY <1>1
<1>3. call' \in [Callers -> Calls]
  BY <1>1
<1>4. \A d \in Callers : Fits(call'[d])
  BY <1>1, <1>2
<1>5. OneInOutbox'
  BY <1>1, <1>2 DEF OutboxInv, OneInOutbox, OutboxFree
<1> QED BY <1>2, <1>3, <1>4, <1>5

(* A step that leaves the operations' slot alone, and what the host has    *)
(* carried out: a write makes the file as the memory is.                   *)
LEMMA OperationsLeftAlone ==
  ASSUME OutboxInv, OutboxTyped', OneInOutbox',
         \A c \in Callers : call'[c].does = "act" /\ call'[c].at \in OnItsWay => call'[c] = call[c],
         store'.other = store.other,
         filed' = store' \/ (filed' = filed /\ unbacked \subseteq unbacked'),
         carried' = carried, heard \subseteq heard', astray \subseteq astray'
  PROVE  OutboxInv'
<1>1. SlotHolds'
  BY DEF OutboxInv, SlotHolds, Leaving
<1>2. FateKept'
  BY DEF OutboxInv, FateKept
<1> QED BY <1>1, <1>2 DEF OutboxInv

LEMMA SeatMoves ==
  ASSUME NEW s \in Seats, NEW st \in {"none", "in", "left", "out"}, NEW n \in Nat
  PROVE  [s EXCEPT !.st = st, !.epoch = n] \in Seats
BY DEF Seats

LEMMA OutboxInvInit == OutInit => OutboxInv
BY RoomOutboxAssumption DEF OutInit, OutboxInv, OutboxTyped, Seats, OneInOutbox, SlotHolds, FateKept, Memories, Calls, NoCall,
   Fits, OutboxStages, InOutbox, OnItsWay, Leaving

(* A call goes on or ends, and its operation, if it has one, does not.     *)
LEMMA CallAside ==
  ASSUME OutboxInv, NEW c \in Callers, NEW r \in Calls, Fits(r), call' = [call EXCEPT ![c] = r],
         r.at \in InOutbox => call[c].at \in InOutbox \/ OutboxFree,
         r.does = "act" => r.at = "lane",
         store' \in Memories, store'.other = store.other,
         filed' = store' \/ (filed' = filed /\ unbacked \subseteq unbacked'),
         seat' \in Seats,
         left' \subseteq [decided : Nat, became : Nat],
         carried' = carried, heard \subseteq heard', astray \subseteq astray'
  PROVE  OutboxInv'
<1>1. /\ call' \in [Callers -> Calls] /\ \A d \in Callers : Fits(call'[d])
      /\ OneInOutbox' /\ call'[c] = r /\ \A d \in Callers \ {c} : call'[d] = call[d]
  BY OneCallMoves
<1>2. OutboxTyped'
  BY <1>1 DEF OutboxInv, OutboxTyped
<1>3. \A d \in Callers : call'[d].does = "act" /\ call'[d].at \in OnItsWay => call'[d] = call[d]
  BY <1>1 DEF OnItsWay
<1> QED BY <1>1, <1>2, <1>3, OperationsLeftAlone

(* The same for a call that records something: what cannot be written ends *)
(* the call.                                                               *)
LEMMA RecordAside ==
  ASSUME OutboxInv, NEW c \in Callers, NEW with \in Memories, NEW r \in Calls, Fits(r),
         \/ Saved(with) /\ call' = [call EXCEPT ![c] = r]
         \/ Unsaved(with) /\ call' = [call EXCEPT ![c] = NoCall]
         \/ UNCHANGED <<Vault, unbacked>> /\ call' = [call EXCEPT ![c] = r],
         r.at \in InOutbox => call[c].at \in InOutbox \/ OutboxFree,
         r.does = "act" => r.at = "lane",
         with.other = store.other, UNCHANGED <<HostSide, astray>>, heard \subseteq heard'
  PROVE  OutboxInv'
<1>1. NoCall \in Calls /\ Fits(NoCall) /\ NoCall.at \notin InOutbox /\ NoCall.does # "act"
  BY DEF NoCall, Calls, Fits, OutboxStages, InOutbox
<1>2. /\ seat' \in Seats
      /\ left' \subseteq [decided : Nat, became : Nat]
  BY DEF OutboxInv, OutboxTyped, HostSide
<1>3. /\ store' \in Memories /\ store'.other = store.other
      /\ filed' = store' \/ (filed' = filed /\ unbacked \subseteq unbacked')
  BY DEF Saved, Unsaved, Vault, OutboxInv, OutboxTyped
<1>4. CASE call' = [call EXCEPT ![c] = r]
  BY <1>2, <1>3, <1>4, CallAside DEF HostSide
<1>5. CASE call' = [call EXCEPT ![c] = NoCall]
  BY <1>1, <1>2, <1>3, <1>5, CallAside DEF HostSide
<1> QED BY <1>4, <1>5

(* A new call: an operation queues for the outbox, the rest where it says. *)
LEMMA CallStarts ==
  ASSUME OutboxInv, NEW c \in Callers, NEW does, NEW op, NEW at, Start(c, does, op, at),
         at \in {"lane", "enter"},
         \/ does = "act" /\ at = "lane" /\ op \in GuestOps
         \/ does \in {"leave", "join", "resume", "recover"} /\ op \in Nat \cup {NoOp}
  PROVE  OutboxInv'
<1> DEFINE r == [NoCall EXCEPT !.does = does, !.op = op, !.at = at]
<1>1. call' = [call EXCEPT ![c] = r]
  BY DEF Start
<1>2. r \in Calls /\ Fits(r) /\ r.at = at /\ r.does = does /\ r.at \notin InOutbox
  BY DEF NoCall, Calls, Fits, OutboxStages, InOutbox
<1>3. UNCHANGED <<HostSide, Vault, History>>
  BY DEF Start
<1> HIDE DEF r
<1>4. OutboxTyped
  BY DEF OutboxInv
<1> QED BY <1>1, <1>2, <1>3, <1>4, CallAside DEF OutboxTyped, HostSide, Vault, History

(* An operation is put into an empty slot, or found there, and goes out.   *)
LEMMA SaveIntentStep == ASSUME OutboxInv, NEW c \in Callers, SaveIntent(c) PROVE OutboxInv'
<1> DEFINE r == [call[c] EXCEPT !.at = "sent"]
<1>1. OutboxTyped /\ call[c] \in Calls /\ Fits(call[c]) /\ call[c].at = "lane" /\ OutboxFree
  BY DEF OutboxInv, OutboxTyped, SaveIntent, At
<1>2. r \in Calls /\ Fits(r) /\ r.does = call[c].does /\ r.op = call[c].op /\ r.at = "sent"
  BY <1>1 DEF Calls, Fits, OutboxStages, InOutbox, OnItsWay
<1>3. NoCall \in Calls /\ Fits(NoCall) /\ NoCall.at \notin InOutbox /\ NoCall.does # "act"
  BY DEF NoCall, Calls, Fits, OutboxStages, InOutbox
<1>4. /\ UNCHANGED <<HostSide, heard, astray>>
      /\ \/ Slot(c) = NoOp /\ Saved(Filled(c, call[c].op)) /\ call' = [call EXCEPT ![c] = r]
         \/ Slot(c) = NoOp /\ Unsaved(Filled(c, call[c].op)) /\ call' = [call EXCEPT ![c] = NoCall]
         \/ Slot(c) = call[c].op /\ UNCHANGED <<Vault, unbacked>> /\ call' = [call EXCEPT ![c] = r]
         \/ UNCHANGED <<Vault, unbacked>> /\ call' = [call EXCEPT ![c] = NoCall]
  BY <1>1 DEF SaveIntent, Records, Skips, Then, Goto, Reaches, Ends, End
<1> HIDE DEF r
<1>5. CASE Leaving(c)
  <2>1. Filled(c, call[c].op) \in Memories /\ Filled(c, call[c].op).other = store.other
    BY <1>1, <1>5 DEF Filled, Memories, OutboxTyped, Fits, Leaving
  <2>2. r.does # "act"
    BY <1>2, <1>5 DEF Leaving
  <2> DEFINE with == Filled(c, call[c].op)
  <2> HIDE DEF with
  <2>3. with \in Memories /\ with.other = store.other
    BY <2>1 DEF with
  <2>4. \/ Saved(with) /\ call' = [call EXCEPT ![c] = r]
        \/ Unsaved(with) /\ call' = [call EXCEPT ![c] = NoCall]
        \/ UNCHANGED <<Vault, unbacked>> /\ call' = [call EXCEPT ![c] = r]
        \/ UNCHANGED <<Vault, unbacked>> /\ call' = [call EXCEPT ![c] = NoCall]
    BY <1>4 DEF with
  <2>5. CASE UNCHANGED <<Vault, unbacked>> /\ call' = [call EXCEPT ![c] = NoCall]
    BY <1>1, <1>3, <1>4, <2>5, <2>3, RecordAside
  <2>6. CASE ~(UNCHANGED <<Vault, unbacked>> /\ call' = [call EXCEPT ![c] = NoCall])
    BY <1>1, <1>2, <1>4, <2>6, <2>2, <2>3, <2>4, RecordAside
  <2> QED BY <2>5, <2>6
<1>6. CASE ~Leaving(c)
  <2>1. /\ Filled(c, call[c].op) \in Memories /\ Filled(c, call[c].op).other = call[c].op
        /\ Slot(c) = store.other /\ call[c].op \in GuestOps
    BY <1>1, <1>6 DEF Filled, Slot, Memories, OutboxTyped, Fits, Leaving
  <2>2. CASE UNCHANGED <<Vault, unbacked>> /\ call' = [call EXCEPT ![c] = NoCall]
    <3>1. store' \in Memories /\ store'.other = store.other /\ filed' = filed /\ unbacked' = unbacked
      BY <2>2, <1>1 DEF Vault, OutboxTyped
    <3>2. seat' = seat /\ left' = left /\ carried' = carried /\ heard' = heard /\ astray' = astray
      BY <1>4 DEF HostSide
    <3> QED BY <1>1, <1>3, <2>2, <3>1, <3>2, CallAside DEF OutboxTyped
  <2>3. CASE Slot(c) = NoOp /\ Unsaved(Filled(c, call[c].op)) /\ call' = [call EXCEPT ![c] = NoCall]
    <3>1. /\ call' \in [Callers -> Calls] /\ \A d \in Callers : Fits(call'[d])
          /\ OneInOutbox' /\ call'[c] = NoCall /\ \A d \in Callers \ {c} : call'[d] = call[d]
      BY <1>3, <2>3, OneCallMoves
    <3>2. OutboxTyped'
      BY <1>1, <1>4, <2>1, <2>3, <3>1 DEF OutboxTyped, Unsaved, HostSide
    <3>3. SlotHolds'
      BY <1>1, <1>3, <3>1 DEF SlotHolds, OutboxFree, InOutbox, OnItsWay, Leaving
    <3>4. carried \ (heard \cup astray) = {}
      BY <1>1, <2>1, <2>3, RoomOutboxAssumption DEF OutboxInv, FateKept, OutboxTyped
    <3>5. FateKept'
      BY <1>4, <3>4 DEF FateKept, HostSide
    <3> QED BY <3>1, <3>2, <3>3, <3>5 DEF OutboxInv
  <2>4. CASE /\ call' = [call EXCEPT ![c] = r]
             /\ \/ Slot(c) = NoOp /\ Saved(Filled(c, call[c].op))
                \/ Slot(c) = call[c].op /\ UNCHANGED <<Vault, unbacked>>
    <3>1. /\ call' \in [Callers -> Calls] /\ \A d \in Callers : Fits(call'[d])
          /\ OneInOutbox' /\ call'[c] = r /\ \A d \in Callers \ {c} : call'[d] = call[d]
      BY <1>1, <1>2, <2>4, OneCallMoves
    <3>2. store' \in Memories /\ filed' \in Memories /\ store'.other = call[c].op
      BY <1>1, <2>1, <2>4 DEF OutboxTyped, Saved, Vault
    <3>3. OutboxTyped'
      BY <1>1, <1>4, <3>1, <3>2 DEF OutboxTyped, HostSide
    <3>4. SlotHolds'
      BY <1>1, <1>2, <3>1, <3>2 DEF SlotHolds, OutboxFree, InOutbox, OnItsWay, Leaving
    <3>5. CASE Slot(c) = NoOp
      <4>1. carried \ (heard \cup astray) = {}
        BY <1>1, <2>1, <3>5, RoomOutboxAssumption DEF OutboxInv, FateKept, OutboxTyped
      <4> QED BY <1>4, <4>1, <3>1, <3>3, <3>4 DEF OutboxInv, FateKept, HostSide
    <3>6. CASE Slot(c) = call[c].op /\ UNCHANGED <<Vault, unbacked>>
      BY <1>4, <3>1, <3>3, <3>4, <3>6 DEF OutboxInv, FateKept, HostSide, Vault
    <3> QED BY <2>4, <3>5, <3>6
  <2> QED BY <1>4, <2>2, <2>3, <2>4
<1> QED BY <1>5, <1>6

(* The host carries it out: the slot has it, and so has the file unless it *)
(* lags behind.                                                            *)
LEMMA HostActsStep == ASSUME OutboxInv, NEW c \in Callers, HostActs(c) PROVE OutboxInv'
<1>1. OutboxTyped /\ call[c] \in Calls /\ Fits(call[c]) /\ call[c].at = "sent" /\ ~Leaving(c)
  BY DEF OutboxInv, OutboxTyped, HostActs, At
<1>2. PICK where \in {"yes", "no"} : call' = [call EXCEPT ![c].at = where, ![c].epoch = 0]
  BY DEF HostActs, Answer
<1> DEFINE r == [call[c] EXCEPT !.at = where, !.epoch = 0]
<1>3. call' = [call EXCEPT ![c] = r]
  BY <1>1, <1>2 DEF OutboxTyped
<1>4. /\ r \in Calls /\ Fits(r) /\ r.does = call[c].does /\ r.op = call[c].op /\ r.at = where
      /\ call[c].at \in InOutbox
  BY <1>1 DEF Calls, Fits, OutboxStages, InOutbox, OnItsWay
<1> HIDE DEF r
<1>5. /\ call' \in [Callers -> Calls] /\ \A d \in Callers : Fits(call'[d])
      /\ OneInOutbox' /\ call'[c] = r /\ \A d \in Callers \ {c} : call'[d] = call[d]
  BY <1>3, <1>4, OneCallMoves
<1>6. /\ carried' = carried \cup {call[c].op} \/ carried' = carried
      /\ UNCHANGED <<seat, left, store, filed, heard, astray>>
      /\ unbacked' = IF filed # store /\ HostSide' # HostSide THEN unbacked \cup {call[c].op} ELSE unbacked
  BY DEF HostActs, Outruns, Vault
<1>7. store.other = call[c].op /\ call[c].op \in GuestOps
  BY <1>1 DEF OutboxInv, SlotHolds, OnItsWay, Fits, Leaving
<1>8. OutboxTyped'
  BY <1>1, <1>5, <1>6, <1>7 DEF OutboxTyped
<1>9. SlotHolds'
  BY <1>1, <1>4, <1>5, <1>6, <1>7 DEF OutboxInv, SlotHolds, OnItsWay, Leaving
<1>10. FateKept'
  <2> SUFFICES ASSUME NEW o \in (carried \ (heard \cup astray))'
               PROVE  store.other = o /\ (o \notin unbacked' => filed.other = o)
    BY <1>6 DEF FateKept
  <2>1. CASE o \in carried
    BY <1>6, <2>1 DEF OutboxInv, FateKept
  <2>2. CASE o \notin carried
    <3>1. o = call[c].op /\ HostSide' # HostSide
      BY <1>6, <2>2 DEF HostSide
    <3> QED BY <1>6, <1>7, <3>1
  <2> QED BY <2>1, <2>2
<1> QED BY <1>5, <1>8, <1>9, <1>10 DEF OutboxInv

(* A departure is received: the slot of the operations is another one.     *)
LEMMA HostLetsGoStep == ASSUME OutboxInv, NEW c \in Callers, HostLetsGo(c) PROVE OutboxInv'
<1>1. OutboxTyped /\ call[c] \in Calls /\ Fits(call[c]) /\ call[c].at = "sent" /\ Leaving(c)
  BY DEF OutboxInv, OutboxTyped, HostLetsGo, At
<1>2. PICK where \in {"yes", "no"}, epoch \in Nat : call' = [call EXCEPT ![c].at = where, ![c].epoch = epoch]
  <2>1. \A r \in left : r.became \in Nat
    BY <1>1 DEF OutboxTyped
  <2>2. seat.epoch + 1 \in Nat /\ 0 \in Nat
    BY <1>1 DEF OutboxTyped, Seats
  <2>3. \E where \in {"yes", "no"}, epoch \in Nat : Answer(c, where, epoch)
    BY <2>1, <2>2 DEF HostLetsGo
  <2> QED BY <2>3 DEF Answer
<1> DEFINE r == [call[c] EXCEPT !.at = where, !.epoch = epoch]
<1>3. call' = [call EXCEPT ![c] = r]
  BY <1>1, <1>2 DEF OutboxTyped
<1>4. r \in Calls /\ Fits(r) /\ r.does # "act" /\ call[c].at \in InOutbox
  BY <1>1 DEF Calls, Fits, OutboxStages, InOutbox, Leaving
<1> HIDE DEF r
<1>5. /\ seat' \in Seats
      /\ left' \subseteq [decided : Nat, became : Nat]
  BY <1>1 DEF HostLetsGo, OutboxTyped, Seats
<1>6. UNCHANGED <<carried, Vault, heard>> /\ unbacked \subseteq unbacked' /\ astray \subseteq astray'
  BY DEF HostLetsGo, Outruns
<1> QED BY <1>1, <1>3, <1>4, <1>5, <1>6, CallAside DEF OutboxTyped, Vault

(* The answer to an operation is in: its slot is emptied, in memory first. *)
LEMMA VerdictStep ==
  ASSUME OutboxInv, NEW c \in Callers, ~Leaving(c), call[c].at \in OnItsWay,
         Records(c, Filled(c, NoOp), Ends(c)), Hear(c), UNCHANGED <<HostSide, astray>>
  PROVE  OutboxInv'
<1>1. OutboxTyped /\ call[c] \in Calls /\ call[c].at \in InOutbox
  BY DEF OutboxInv, OutboxTyped, InOutbox, OnItsWay
<1>2. NoCall \in Calls /\ Fits(NoCall) /\ NoCall.at \notin InOutbox /\ NoCall.does # "act"
  BY DEF NoCall, Calls, Fits, OutboxStages, InOutbox
<1>3. Filled(c, NoOp) \in Memories
  BY <1>1 DEF Filled, OutboxTyped, Memories
<1>4. call' = [call EXCEPT ![c] = NoCall] /\ (Saved(Filled(c, NoOp)) \/ Unsaved(Filled(c, NoOp)))
  BY DEF Records, Ends, End
<1>5. /\ call' \in [Callers -> Calls] /\ \A d \in Callers : Fits(call'[d])
      /\ OneInOutbox' /\ call'[c] = NoCall /\ \A d \in Callers \ {c} : call'[d] = call[d]
  BY <1>2, <1>4, OneCallMoves
<1>6. OutboxTyped'
  BY <1>1, <1>3, <1>4, <1>5 DEF OutboxTyped, HostSide, Saved, Unsaved
<1>7. SlotHolds'
  BY <1>1, <1>2, <1>5 DEF OutboxInv, OneInOutbox, SlotHolds, InOutbox, OnItsWay, Leaving
<1>8. store.other = call[c].op /\ heard' = heard \cup {call[c].op}
  BY DEF OutboxInv, SlotHolds, Hear
<1>9. (carried \ (heard \cup astray))' = {}
  BY <1>8 DEF OutboxInv, FateKept, HostSide
<1> QED BY <1>5, <1>6, <1>7, <1>9 DEF OutboxInv, FateKept

(* What no call does by itself: the death of the process, a room put away, *)
(* the host's own moves.                                                   *)
LEMMA CrashStep == ASSUME OutboxInv, Crash PROVE OutboxInv'
<1>1. OutboxTyped /\ NoCall \in Calls /\ Fits(NoCall) /\ NoCall.at \notin InOutbox /\ NoCall.does # "act"
  BY DEF OutboxInv, NoCall, Calls, Fits, OutboxStages, InOutbox
<1>2. \A c \in Callers : call'[c] = NoCall
  BY DEF Crash
<1>3. OutboxTyped'
  BY <1>1, <1>2 DEF Crash, OutboxTyped, HostSide
<1>4. OneInOutbox' /\ SlotHolds'
  BY <1>1, <1>2 DEF OneInOutbox, SlotHolds, Leaving
<1>5. FateKept'
  BY DEF OutboxInv, FateKept, Crash, HostSide
<1> QED BY <1>3, <1>4, <1>5 DEF OutboxInv

LEMMA PostponeStep == ASSUME OutboxInv, Postpone PROVE OutboxInv'
<1>1. PICK with \in {IF store.archived THEN [store EXCEPT !.pending = FALSE]
                                       ELSE [store EXCEPT !.archived = TRUE]} : Saved(with) \/ Unsaved(with)
  BY DEF Postpone
<1>2. with \in Memories /\ with.other = store.other
  BY DEF OutboxInv, OutboxTyped, Memories
<1>3. UNCHANGED <<HostSide, call, heard, astray>>
  BY DEF Postpone
<1>4. /\ store' = with /\ filed' \in Memories
      /\ filed' = store' \/ (filed' = filed /\ unbacked \subseteq unbacked')
  BY <1>1, <1>2 DEF Saved, Unsaved, OutboxInv, OutboxTyped
<1>5. OutboxTyped' /\ OneInOutbox'
  BY <1>2, <1>3, <1>4 DEF OutboxInv, OutboxTyped, OneInOutbox, HostSide
<1> QED BY <1>2, <1>3, <1>4, <1>5, OperationsLeftAlone DEF HostSide

LEMMA HostMovesStep == ASSUME OutboxInv, HostMoves PROVE OutboxInv'
<1>1. UNCHANGED <<left, carried, Vault, call, History>>
  BY DEF HostMoves
<1>2. seat' \in Seats
  <2>1. PICK st \in {seat.st, "out"} : seat' = [seat EXCEPT !.st = st, !.epoch = @ + 1]
    BY DEF HostMoves
  <2>2. st \in {"none", "in", "left", "out"}
    BY <2>1 DEF OutboxInv, OutboxTyped, Seats
  <2>3. seat \in Seats /\ seat.epoch + 1 \in Nat
    BY DEF OutboxInv, OutboxTyped, Seats
  <2>4. seat' = [seat EXCEPT !.st = st, !.epoch = seat.epoch + 1]
    BY <2>1
  <2>5. [seat EXCEPT !.st = st, !.epoch = seat.epoch + 1] \in Seats
    BY <2>2, <2>3, SeatMoves
  <2> QED BY <2>4, <2>5
<1>3. OutboxTyped' /\ OneInOutbox'
  BY <1>1, <1>2 DEF OutboxInv, OutboxTyped, OneInOutbox, Vault
<1> QED BY <1>1, <1>3, OperationsLeftAlone DEF Vault, History

(* A call that leaves, joins or comes back, at any of its stages.          *)
LEMMA LeavingStep ==
  ASSUME OutboxInv, NEW c \in Callers, Leaving(c), call[c].at \in OutboxStages \ {"off"},
         NEW with \in Memories, with.other = store.other, NEW stage \in OutboxStages,
         stage \in InOutbox => call[c].at \in InOutbox,
         \/ Saved(with) /\ (call' = [call EXCEPT ![c].at = stage] \/ call' = [call EXCEPT ![c] = NoCall])
         \/ Unsaved(with) /\ call' = [call EXCEPT ![c] = NoCall]
         \/ UNCHANGED <<Vault, unbacked>>
            /\ (call' = [call EXCEPT ![c].at = stage] \/ call' = [call EXCEPT ![c] = NoCall]),
         UNCHANGED <<HostSide, heard, astray>>
  PROVE  OutboxInv'
<1> DEFINE r == [call[c] EXCEPT !.at = stage]
<1>1. OutboxTyped /\ call[c] \in Calls /\ Fits(call[c])
  BY DEF OutboxInv, OutboxTyped
<1>2. r \in Calls /\ Fits(r) /\ r.at = stage /\ r.does # "act"
  BY <1>1 DEF Calls, Fits, Leaving
<1>3. NoCall \in Calls /\ Fits(NoCall) /\ NoCall.at \notin InOutbox /\ NoCall.does # "act"
  BY DEF NoCall, Calls, Fits, OutboxStages, InOutbox
<1>4. [call EXCEPT ![c].at = stage] = [call EXCEPT ![c] = r]
  BY <1>1 DEF OutboxTyped
<1> HIDE DEF r
<1>5. CASE call' = [call EXCEPT ![c] = NoCall]
  BY <1>3, <1>5, RecordAside
<1>6. CASE call' # [call EXCEPT ![c] = NoCall]
  BY <1>2, <1>4, <1>6, RecordAside
<1> QED BY <1>5, <1>6

LEMMA OutboxStep == OutboxInv /\ [OutNext]_outVars => OutboxInv'
<1> SUFFICES ASSUME OutboxInv, [OutNext]_outVars PROVE OutboxInv'
  OBVIOUS
<1>1. OutboxTyped /\ OneInOutbox /\ SlotHolds
  BY DEF OutboxInv
<1>2. CASE UNCHANGED outVars
  BY <1>2 DEF outVars, OutboxInv, OutboxTyped, OneInOutbox, SlotHolds, FateKept, Leaving
<1>3. CASE Crash
  BY <1>3, CrashStep
<1>4. CASE Postpone
  BY <1>4, PostponeStep
<1>5. CASE HostMoves
  BY <1>5, HostMovesStep
<1>6. ASSUME NEW c \in Callers,
             \/ Drop(c) \/ LeaveRoom(c) \/ SaveIntent(c)
             \/ HostActs(c) \/ HostLetsGo(c) \/ Rejected(c) \/ Accepted(c)
             \/ Archive(c) \/ Release(c) \/ Settled(c)
             \/ JoinRoom(c) \/ Resume(c) \/ Recover(c) \/ Enter(c)
             \/ Choose(c) \/ HostAdmits(c) \/ Complete(c)
             \/ \E o \in GuestOps : Act(c, o)
      PROVE  OutboxInv'
  <2> DEFINE Stands == Leaving(c) /\ call[c].at \in OutboxStages \ {"off"}
  <2>1. call[c] \in Calls /\ Fits(call[c]) /\ store \in Memories /\ call[c].epoch \in Nat
    BY <1>1 DEF OutboxTyped, Calls
  <2>2. ASSUME call[c].at \in OutboxStages \ ({"off", "lane"} \cup OnItsWay) PROVE Stands
    BY <2>1, <2>2 DEF Calls, Fits, Leaving
  <2>3. CASE Drop(c)
    <3>1. NoCall \in Calls /\ Fits(NoCall) /\ NoCall.at \notin InOutbox /\ NoCall.does # "act"
      BY DEF NoCall, Calls, Fits, OutboxStages, InOutbox
    <3>2. call' = [call EXCEPT ![c] = NoCall] /\ UNCHANGED <<HostSide, Vault, History>>
      BY <2>3 DEF Drop, End
    <3> QED BY <1>1, <3>1, <3>2, CallAside DEF OutboxTyped, HostSide, Vault, History
  <2>4. CASE LeaveRoom(c)
    BY <1>1, <2>4, CallStarts DEF LeaveRoom, OutboxTyped, Seats
  <2>5. CASE SaveIntent(c)
    BY <2>5, SaveIntentStep
  <2>6. CASE HostActs(c)
    BY <2>6, HostActsStep
  <2>7. CASE HostLetsGo(c)
    BY <2>7, HostLetsGoStep
  <2>8. CASE Rejected(c)
    <3>1. CASE ~Leaving(c)
      BY <2>8, <3>1, VerdictStep DEF Rejected, At, OnItsWay
    <3>2. CASE Leaving(c)
      <4>1. Filled(c, NoOp) \in Memories /\ Filled(c, NoOp).other = store.other
        BY <2>1, <3>2 DEF Filled, Memories
      <4>2. /\ Saved(Filled(c, NoOp)) \/ Unsaved(Filled(c, NoOp))
            /\ call' = [call EXCEPT ![c] = NoCall] /\ UNCHANGED <<HostSide, heard, astray>>
            /\ call[c].at \in OutboxStages \ {"off"} /\ "off" \in OutboxStages /\ "off" \notin InOutbox
        BY <2>8, <3>2 DEF Rejected, Records, Ends, End, Hear, At, OutboxStages, InOutbox
      <4> QED BY <3>2, <4>1, <4>2, LeavingStep
    <3> QED BY <3>1, <3>2
  <2>9. CASE Accepted(c)
    <3>1. CASE ~Leaving(c)
      BY <2>9, <3>1, VerdictStep DEF Accepted, At, OnItsWay
    <3>2. CASE Leaving(c)
      <4>1. /\ call' = [call EXCEPT ![c].at = "archive"] /\ UNCHANGED <<HostSide, Vault, unbacked, heard, astray>>
            /\ call[c].at = "yes"
        BY <2>9, <3>2 DEF Accepted, Skips, Requeues, Queues, Reaches, At
      <4>2. "archive" \in OutboxStages /\ "yes" \in InOutbox /\ "yes" \in OutboxStages \ {"off"}
        BY DEF OutboxStages, InOutbox
      <4> QED BY <2>1, <3>2, <4>1, <4>2, LeavingStep
    <3> QED BY <3>1, <3>2
  <2>10. CASE Archive(c)
    <3>1. Stands /\ call[c].at \in InOutbox /\ {"point", "unselect", "release"} \subseteq OutboxStages
      BY <2>2, <2>10 DEF Archive, At, OutboxStages, InOutbox, OnItsWay
    <3>2. UNCHANGED <<HostSide, heard, astray>>
      BY <2>10 DEF Archive
    <3>3. \E with \in Memories, stage \in {"point", "unselect", "release"} :
             /\ with.other = store.other
             /\ \/ Saved(with) /\ call' = [call EXCEPT ![c].at = stage]
                \/ Unsaved(with) /\ call' = [call EXCEPT ![c] = NoCall]
                \/ UNCHANGED <<Vault, unbacked>> /\ call' = [call EXCEPT ![c].at = stage]
      <4>1. /\ Departure(call[c].epoch) \in Memories /\ Departure(call[c].epoch).other = store.other
            /\ [store EXCEPT !.archived = TRUE] \in Memories
            /\ [store EXCEPT !.selected = FALSE] \in Memories
        BY <2>1 DEF Departure, Memories
      <4>2. /\ [store EXCEPT !.archived = TRUE].other = store.other
            /\ [store EXCEPT !.selected = FALSE].other = store.other
        BY <2>1 DEF Memories
      <4> QED BY <2>1, <2>10, <4>1, <4>2 DEF Archive, Records, Skips, Then, Goto, Reaches, Unlocks, Leaves, End
    <3> QED BY <3>1, <3>2, <3>3, LeavingStep
  <2>11. CASE Release(c)
    <3>1. Stands /\ "settled" \in OutboxStages /\ "settled" \notin InOutbox
      BY <2>2, <2>11 DEF Release, At, OutboxStages, InOutbox, OnItsWay
    <3>2. Filled(c, NoOp) \in Memories /\ Filled(c, NoOp).other = store.other
      BY <2>1, <3>1 DEF Filled, Memories
    <3>3. /\ UNCHANGED <<HostSide, heard, astray>>
          /\ \/ Saved(Filled(c, NoOp)) /\ (call' = [call EXCEPT ![c].at = "settled"] \/ call' = [call EXCEPT ![c] = NoCall])
             \/ Unsaved(Filled(c, NoOp)) /\ call' = [call EXCEPT ![c] = NoCall]
      BY <2>11 DEF Release, Records, Ends, End, Requeues, Queues, Reaches
    <3> QED BY <3>1, <3>2, <3>3, LeavingStep
  <2>12. CASE Settled(c)
    <3>1. Stands /\ "enter" \in OutboxStages /\ "enter" \notin InOutbox
      BY <2>2, <2>12 DEF Settled, At, OutboxStages, InOutbox, OnItsWay
    <3>2. Departure(call[c].epoch) \in Memories /\ Departure(call[c].epoch).other = store.other
      BY <2>1 DEF Departure, Memories
    <3>3. /\ UNCHANGED <<HostSide, heard, astray>>
          /\ \/ Saved(Departure(call[c].epoch)) /\ call' = [call EXCEPT ![c].at = "enter"]
             \/ Unsaved(Departure(call[c].epoch)) /\ call' = [call EXCEPT ![c] = NoCall]
             \/ UNCHANGED <<Vault, unbacked>> /\ call' = [call EXCEPT ![c].at = "enter"]
      BY <2>12 DEF Settled, Records, Skips, End, Requeues, Queues, Reaches
    <3> QED BY <3>1, <3>2, <3>3, LeavingStep
  <2>13. CASE JoinRoom(c)
    BY <2>13, CallStarts DEF JoinRoom
  <2>14. ASSUME NEW does \in {"resume", "recover"}, SettleFirst(c, does) PROVE OutboxInv'
    <3>1. \E op \in Nat \cup {NoOp}, at \in {"lane", "enter"} : Start(c, does, op, at)
      BY <2>1, <2>14 DEF SettleFirst, Memories
    <3> QED BY <3>1, CallStarts
  <2>15. CASE Resume(c)
    BY <2>14, <2>15 DEF Resume
  <2>16. CASE Recover(c)
    BY <2>14, <2>16 DEF Recover
  <2>17. CASE Enter(c)
    <3>1. Stands /\ {"choose", "ask"} \subseteq OutboxStages /\ {"choose", "ask"} \cap InOutbox = {}
      BY <2>2, <2>17 DEF Enter, At, OutboxStages, InOutbox, OnItsWay
    <3>2. UNCHANGED <<HostSide, heard, astray>>
      BY <2>17 DEF Enter
    <3>3. \E with \in Memories, stage \in {"choose", "ask"} :
             /\ with.other = store.other
             /\ \/ Saved(with) /\ call' = [call EXCEPT ![c].at = stage]
                \/ Unsaved(with) /\ call' = [call EXCEPT ![c] = NoCall]
                \/ /\ UNCHANGED <<Vault, unbacked>>
                   /\ call' = [call EXCEPT ![c].at = stage] \/ call' = [call EXCEPT ![c] = NoCall]
      <4>1. /\ [store EXCEPT !.known = TRUE] \in Memories
            /\ [store EXCEPT !.intent = store.departed] \in Memories
            /\ [store EXCEPT !.known = TRUE].other = store.other
            /\ [store EXCEPT !.intent = store.departed].other = store.other
        BY <2>1 DEF Memories
      <4> QED BY <2>1, <2>17, <4>1 DEF Enter, Records, Skips, Then, Goto, Reaches, Ends, End
    <3> QED BY <3>1, <3>2, <3>3, LeavingStep
  <2>18. CASE Choose(c)
    <3>1. Stands /\ "ask" \in OutboxStages /\ "ask" \notin InOutbox
      BY <2>2, <2>18 DEF Choose, At, OutboxStages, InOutbox, OnItsWay
    <3>2. [store EXCEPT !.pending = TRUE] \in Memories /\ [store EXCEPT !.pending = TRUE].other = store.other
      BY <2>1 DEF Memories
    <3>3. /\ UNCHANGED <<HostSide, heard, astray>>
          /\ \/ Saved([store EXCEPT !.pending = TRUE]) /\ call' = [call EXCEPT ![c].at = "ask"]
             \/ Unsaved([store EXCEPT !.pending = TRUE]) /\ call' = [call EXCEPT ![c] = NoCall]
      BY <2>18 DEF Choose, Records, Then, Goto, Reaches, End
    <3> QED BY <3>1, <3>2, <3>3, LeavingStep
  <2>19. CASE HostAdmits(c)
    <3>1. Stands
      BY <2>2, <2>19 DEF HostAdmits, At, OutboxStages, InOutbox, OnItsWay
    <3>2. seat' \in Seats
      <4>1. seat \in Seats /\ seat.epoch \in Nat /\ seat.epoch + 1 \in Nat
        BY <1>1 DEF OutboxTyped, Seats
      <4>2. \/ seat' = seat
            \/ seat' = [seat EXCEPT !.st = "in", !.epoch = seat.epoch + 1]
            \/ seat' = [seat EXCEPT !.st = "in", !.epoch = seat.epoch]
        BY <2>19 DEF HostAdmits
      <4>3. \A n \in Nat : [seat EXCEPT !.st = "in", !.epoch = n] \in Seats
        BY <4>1, SeatMoves
      <4> QED BY <4>1, <4>2, <4>3
    <3>3. PICK where \in {"granted", "denied"}, epoch \in Nat :
             call' = [call EXCEPT ![c].at = where, ![c].epoch = epoch]
      BY <2>19, <3>2 DEF HostAdmits, Answer, Seats
    <3> DEFINE r == [call[c] EXCEPT !.at = where, !.epoch = epoch]
    <3>4. call' = [call EXCEPT ![c] = r]
      BY <1>1, <3>3 DEF OutboxTyped
    <3>5. r \in Calls /\ Fits(r) /\ r.does # "act" /\ r.at \notin InOutbox
      BY <2>1, <3>1 DEF Calls, Fits, OutboxStages, InOutbox, Leaving
    <3> HIDE DEF r
    <3>6. UNCHANGED <<left, carried, Vault, heard, astray>> /\ unbacked \subseteq unbacked'
      BY <2>19 DEF HostAdmits, Outruns
    <3> QED BY <1>1, <3>2, <3>4, <3>5, <3>6, CallAside DEF OutboxTyped, Vault
  <2>20. CASE Complete(c)
    <3>1. Stands /\ {"select", "chosen"} \subseteq OutboxStages /\ {"select", "chosen"} \cap InOutbox = {}
      BY <2>2, <2>20 DEF Complete, At, OutboxStages, InOutbox, OnItsWay
    <3>2. UNCHANGED <<HostSide, heard, astray>>
      BY <2>20 DEF Complete
    <3>3. \E with \in Memories, stage \in {"select", "chosen"} :
             /\ with.other = store.other
             /\ \/ /\ Saved(with)
                   /\ call' = [call EXCEPT ![c].at = stage] \/ call' = [call EXCEPT ![c] = NoCall]
                \/ Unsaved(with) /\ call' = [call EXCEPT ![c] = NoCall]
      <4> DEFINE joined == [store EXCEPT !.conn = call[c].epoch, !.departed = 0, !.intent = 0]
                 chosen == [store EXCEPT !.selected = TRUE]
                 over == [store EXCEPT !.pending = FALSE]
      <4>1. joined \in Memories /\ chosen \in Memories /\ over \in Memories
        BY <2>1 DEF Memories
      <4>2. joined.other = store.other /\ chosen.other = store.other /\ over.other = store.other
        BY <2>1 DEF Memories
      <4>3. \/ Records(c, joined, Then(c, "select")) \/ Records(c, chosen, Then(c, "chosen"))
            \/ Records(c, over, End(c) /\ shell' = TRUE) \/ Records(c, over, Ends(c))
        BY <2>20 DEF Complete
      <4> HIDE DEF joined, chosen, over
      <4> QED BY <4>1, <4>2, <4>3 DEF Records, Then, Goto, Reaches, Ends, End
    <3> QED BY <3>1, <3>2, <3>3, LeavingStep
  <2>21. CASE \E o \in GuestOps : Act(c, o)
    BY <2>21, CallStarts DEF Act
  <2> QED BY <1>6, <2>3, <2>4, <2>5, <2>6, <2>7, <2>8, <2>9, <2>10, <2>11, <2>12, <2>13, <2>15, <2>16,
             <2>17, <2>18, <2>19, <2>20, <2>21
<1> QED BY <1>2, <1>3, <1>4, <1>5, <1>6 DEF OutNext

(* What the host has carried out for a guest, and the guest was not told,  *)
(* is in the guest's outbox until it is; after a restart too, unless the   *)
(* host was asked while the file lagged behind the memory.                 *)
THEOREM OperationsAreKept == OutSpec => []FateKept
<1>1. OutboxInv => FateKept
  BY DEF OutboxInv
<1> QED BY <1>1, OutboxInvInit, OutboxStep, PTL DEF OutSpec
=============================================================================

----------------------------- MODULE RoomOutbox -----------------------------
(***************************************************************************)
(* A guest of a remote room: the record of its join, the pointers that     *)
(* find it again, and the two outbox slots that keep what was sent until   *)
(* its fate is known, all in the encrypted store.  Calls of the desktop    *)
(* shell run concurrently; a call may be dropped at any await and the      *)
(* process may die (which drops every call).  Host is the guest's seat as  *)
(* module Rooms moves it; an operation is a member of GuestOps, a departure *)
(* is named by the epoch in which the player decided to leave.             *)
(*                                                                         *)
(* The store is changed in memory first and then written, all of it, to    *)
(* its file: a write that fails fails its call, and the change stays in    *)
(* memory until another write takes it along or the process dies.          *)
(*                                                                         *)
(* One join is followed; the index of known joins is written with its      *)
(* record.  A return intent is told from another one by its departure only:*)
(* the host takes any nonce for the current departure.  The outbox lane    *)
(* and the selection lane are fair mutexes.                                *)
(***************************************************************************)
EXTENDS Naturals, Sequences

CONSTANTS
    GuestOps,        \* mutations other than leaving
    Callers,         \* calls under way at the same time
    MaxSeatEpoch, OthersUntil, BansUntil,   \* bounds of the model: epochs of the
                     \* room, how late others still move it, or it bans the guest
    NoOp

ASSUME RoomOutboxAssumption ==
    /\ NoOp \notin GuestOps /\ NoOp \notin Nat /\ "seat" \notin GuestOps
    /\ GuestOps \cap Nat = {} /\ MaxSeatEpoch \in Nat \ {0}

VARIABLES
    seat,            \* the host's record of the guest
    left,            \* the host's departure receipts: decided in, became
    carried,         \* operations the host has carried out
    store, filed,     \* StoredNativeGuestJoin, the pointers and the slots: in
                     \* memory, and in the snapshot file
    call,            \* the calls under way
    waiting,         \* calls in the queue of the outbox lane
    selectionLane,   \* calls at the selection lane: the head holds it
    shell,           \* the desktop shell has a connection of this guest
    heard,           \* operations the guest's backend has a definite answer to (history)
    unbacked, astray \* what the host has done of late that the file does not
                     \* know of, and what this, or a late departure, has cost (history)

outVars == <<seat, left, carried, store, filed, call, waiting, selectionLane,
             shell, heard, unbacked, astray>>
HostSide == <<seat, left, carried>>
Vault == <<store, filed>>
History == <<heard, unbacked, astray>>

NoCall == [at |-> "off", does |-> "nothing", op |-> NoOp, epoch |-> 0]

OutInit ==
    /\ seat = [st |-> "none", departure |-> 0, epoch |-> 1]
    /\ left = {} /\ carried = {} /\ heard = {} /\ unbacked = {} /\ astray = {}
    /\ store = [known |-> FALSE, conn |-> 0, departed |-> 0, intent |-> 0,
                selected |-> FALSE, pending |-> FALSE, archived |-> FALSE,
                other |-> NoOp, departure |-> NoOp]
    /\ filed = store /\ call = [c \in Callers |-> NoCall] /\ shell = FALSE
    /\ waiting = <<>> /\ selectionLane = <<>>

-----------------------------------------------------------------------------
At(c, where) == call[c].at = where
Holds(c) == selectionLane # <<>> /\ Head(selectionLane) = c
Without(c, queue) == SelectSeq(queue, LAMBDA d : d # c)

(* A call goes on from where it waited: with its place at the selection    *)
(* lane, anew at its end, or away from it, as at every end of a call.      *)
Reaches(c, where) == call' = [call EXCEPT ![c].at = where] /\ waiting' = Without(c, waiting)
Goto(c, where) == Reaches(c, where) /\ UNCHANGED selectionLane
Queues(c, where) ==
    Reaches(c, where) /\ selectionLane' = Append(Without(c, selectionLane), c)
Leaves(c, where) == Reaches(c, where) /\ selectionLane' = Without(c, selectionLane)
End(c) ==
    /\ call' = [call EXCEPT ![c] = NoCall] /\ waiting' = Without(c, waiting)
    /\ selectionLane' = Without(c, selectionLane)

(* The outbox lane is held from the reading of the slot to its release.    *)
InOutbox == {"sent", "no", "yes", "archive", "point", "unselect", "release"}
OutboxFree == \A d \in Callers : call[d].at \notin InOutbox
IsNext(c) == waiting # <<>> /\ Head(waiting) = c

(* set and delete of the store: memory, then the file, or an error.        *)
Saved(with) == store' = with /\ filed' = with /\ unbacked' = {}
Unsaved(with) == store' = with /\ UNCHANGED <<filed, unbacked>>
Records(c, with, done) == (Saved(with) /\ done) \/ (Unsaved(with) /\ End(c) /\ UNCHANGED shell)
Skips(done) == done /\ UNCHANGED <<Vault, unbacked>>
Then(c, where) == Goto(c, where) /\ UNCHANGED shell
Requeues(c, where) == Queues(c, where) /\ UNCHANGED shell
Unlocks(c, where) == Leaves(c, where) /\ UNCHANGED shell
Ends(c) == End(c) /\ UNCHANGED shell

Crash ==
    /\ call' = [c \in Callers |-> NoCall] /\ shell' = FALSE
    /\ store' = filed /\ astray' = astray \cup unbacked /\ unbacked' = {}
    /\ waiting' = <<>> /\ selectionLane' = <<>> /\ UNCHANGED <<HostSide, filed, heard>>

Leaving(c) == call[c].does # "act"
Slot(c) == IF Leaving(c) THEN store.departure ELSE store.other
Filled(c, with) == IF Leaving(c) THEN [store EXCEPT !.departure = with]
                                 ELSE [store EXCEPT !.other = with]

(* Mutant: a call without an answer counts as refused.                      *)
DropForgets(c) ==
    /\ ~At(c, "off") /\ End(c) /\ UNCHANGED <<HostSide, shell, heard, astray>>
    /\ IF At(c, "sent") THEN Saved(Filled(c, NoOp)) ELSE UNCHANGED <<Vault, unbacked>>

Drop(c) == ~At(c, "off") /\ End(c) /\ UNCHANGED <<HostSide, Vault, shell, History>>

-----------------------------------------------------------------------------
(* execute: an operation, or leaving in the epoch the player looked at.    *)
(* No await lies between the start of a call and its place in the lane.    *)
Start(c, does, op, at) ==
    /\ At(c, "off")
    /\ call' = [call EXCEPT ![c] = [NoCall EXCEPT !.does = does, !.op = op, !.at = at]]
    /\ waiting' = IF at = "lane" THEN Append(waiting, c) ELSE waiting
    /\ selectionLane' = IF at = "enter" THEN Append(selectionLane, c) ELSE selectionLane
    /\ UNCHANGED <<HostSide, Vault, shell, History>>

Act(c, o) == shell /\ o \notin heard /\ Start(c, "act", o, "lane")
LeaveRoom(c) == shell /\ seat.st = "in" /\ Start(c, "leave", seat.epoch, "lane")

(* A slot that holds something else refuses; what it holds goes out again, *)
(* and nothing is written for it.                                          *)
SaveIntent(c) ==
    /\ At(c, "lane") /\ OutboxFree /\ IsNext(c)
    /\ \/ Slot(c) = NoOp /\ Records(c, Filled(c, call[c].op), Then(c, "sent"))
       \/ Slot(c) = call[c].op /\ Skips(Then(c, "sent"))
       \/ Slot(c) \notin {NoOp, call[c].op} /\ Skips(Ends(c))
    /\ UNCHANGED <<HostSide, heard, astray>>

(* What the host does while the file lags behind is known in memory only.  *)
Answer(c, where, epoch) ==
    /\ call' = [call EXCEPT ![c].at = where, ![c].epoch = epoch]
    /\ UNCHANGED <<waiting, selectionLane>>
Outruns(what) == unbacked' = IF filed # store /\ HostSide' # HostSide
                             THEN unbacked \cup {what} ELSE unbacked

(* The host: who is not in the room is refused, the receipt answers what   *)
(* was carried out, the rest is carried out or refused.                    *)
HostActs(c) ==
    /\ At(c, "sent") /\ ~Leaving(c)
    /\ \/ /\ seat.st = "in" /\ carried' = carried \cup {call[c].op}
          /\ Answer(c, "yes", 0)
       \/ /\ seat.st # "in" \/ call[c].op \notin carried
          /\ Answer(c, "no", 0) /\ UNCHANGED carried
    /\ UNCHANGED <<seat, left, Vault, shell, heard, astray>> /\ Outruns(call[c].op)

(* The receipt of an earlier departure than the seat's own may come back.  *)
HostLetsGo(c) ==
    /\ At(c, "sent") /\ Leaving(c)
    /\ LET decided == call[c].op
           told == {r \in left : r.decided = decided}
           known == seat.st \in {"in", "left"}
       IN \/ \E r \in told :
                /\ known /\ Answer(c, "yes", r.became) /\ UNCHANGED <<seat, left>>
                /\ astray' = IF r.became = seat.departure THEN astray ELSE astray \cup {"seat"}
          \/ /\ seat.st = "in" /\ told = {} /\ decided = seat.epoch /\ seat.epoch < MaxSeatEpoch
             /\ seat' = [st |-> "left", departure |-> seat.epoch + 1, epoch |-> seat.epoch + 1]
             /\ left' = left \cup {[decided |-> decided, became |-> seat.epoch + 1]}
             /\ Answer(c, "yes", seat.epoch + 1) /\ UNCHANGED astray
          \/ /\ ~known \/ (told = {} /\ (seat.st # "in" \/ decided # seat.epoch))
             /\ Answer(c, "no", 0) /\ UNCHANGED <<seat, left, astray>>
    /\ UNCHANGED <<carried, Vault, shell, heard>> /\ Outruns("seat")

Hear(c) == heard' = IF Leaving(c) THEN heard ELSE heard \cup {call[c].op}

(* A definitive rejection releases the slot, whatever its body.            *)
Rejected(c) ==
    /\ At(c, "no") /\ Records(c, Filled(c, NoOp), Ends(c)) /\ Hear(c)
    /\ UNCHANGED <<HostSide, astray>>

Accepted(c) ==
    /\ At(c, "yes")
    /\ \/ ~Leaving(c) /\ Records(c, Filled(c, NoOp), Ends(c)) /\ Hear(c)
       \/ Leaving(c) /\ Skips(Requeues(c, "archive")) /\ UNCHANGED heard
    /\ UNCHANGED <<HostSide, astray>>

-----------------------------------------------------------------------------
(* archive_departure: the record, the archive, the selection, in order;    *)
(* what is as it should be is not written.                                 *)
Older(epoch) == store.conn > 0 /\ store.conn <= epoch
Departure(epoch) == [store EXCEPT !.departed = epoch, !.intent = 0]

Archive(c) ==
    /\ \/ /\ At(c, "archive") /\ Holds(c)
          /\ \/ Older(call[c].epoch) /\ Records(c, Departure(call[c].epoch), Then(c, "point"))
             \/ ~Older(call[c].epoch) /\ Skips(Unlocks(c, "release"))
       \/ /\ At(c, "point")
          /\ \/ store.archived /\ Skips(Then(c, "unselect"))
             \/ ~store.archived /\ Records(c, [store EXCEPT !.archived = TRUE], Then(c, "unselect"))
       \/ /\ At(c, "unselect")
          /\ \/ ~store.selected /\ Skips(Unlocks(c, "release"))
             \/ store.selected /\ Records(c, [store EXCEPT !.selected = FALSE], Unlocks(c, "release"))
    /\ UNCHANGED <<HostSide, heard, astray>>

Release(c) ==
    /\ At(c, "release")
    /\ Records(c, Filled(c, NoOp), IF call[c].does = "leave" THEN Ends(c) ELSE Requeues(c, "settled"))
    /\ UNCHANGED <<HostSide, heard, astray>>

-----------------------------------------------------------------------------
(* settle_departure: the slot is read, and sent once more if it is full;   *)
(* recover settles what the selection points to.                           *)
SettleFirst(c, does) ==
    /\ store.known
    /\ IF store.departure # NoOp /\ (does = "recover" => store.selected)
       THEN Start(c, does, store.departure, "lane")
       ELSE Start(c, does, NoOp, "enter")

(* The lane is taken twice: for the record, and again for the resume.      *)
Settled(c) ==
    /\ At(c, "settled") /\ Holds(c)
    /\ \/ Older(call[c].epoch) /\ Records(c, Departure(call[c].epoch), Requeues(c, "enter"))
       \/ ~Older(call[c].epoch) /\ Skips(Requeues(c, "enter"))
    /\ UNCHANGED <<HostSide, heard, astray>>

JoinRoom(c) == Start(c, "join", NoOp, "enter")
Resume(c) == SettleFirst(c, "resume")
Recover(c) == SettleFirst(c, "recover")

(* The record and a return intent are saved before anything is sent, the   *)
(* pending pointer too; recover follows the pointers and leaves a departed *)
(* guest alone.                                                            *)
Enter(c) ==
    /\ At(c, "enter") /\ Holds(c)
    /\ \/ /\ call[c].does = "join"
          /\ \/ store.known /\ Skips(Then(c, "choose"))
             \/ ~store.known /\ Records(c, [store EXCEPT !.known = TRUE], Then(c, "choose"))
       \/ /\ call[c].does = "resume"
          /\ LET draws == store.departed # 0 /\ store.intent = 0 IN
             \/ draws /\ Records(c, [store EXCEPT !.intent = store.departed], Then(c, "choose"))
             \/ ~draws /\ Skips(Then(c, "choose"))
       \/ /\ call[c].does = "recover"
          /\ IF (store.pending \/ store.selected) /\ store.departed = 0
             THEN Skips(Then(c, "ask")) ELSE Skips(Ends(c))
    /\ UNCHANGED <<HostSide, heard, astray>>

Choose(c) ==
    /\ At(c, "choose") /\ Records(c, [store EXCEPT !.pending = TRUE], Then(c, "ask"))
    /\ UNCHANGED <<HostSide, heard, astray>>

(* The host answers: refresh of a live connection, or join with an intent. *)
Welcome == IF store.conn > 0 /\ store.intent = 0 /\ store.departed = 0
           THEN seat.st = "in"
           ELSE \/ seat.st \in {"none", "in"} /\ store.intent = 0
                \/ /\ seat.st \in {"in", "left"} /\ store.intent > 0
                   /\ store.intent = seat.departure

HostAdmits(c) ==
    /\ At(c, "ask")
    /\ \/ /\ Welcome /\ (seat.st = "left" => seat.epoch < MaxSeatEpoch)
          /\ seat' = [seat EXCEPT !.st = "in", !.epoch = IF seat.st = "left" THEN @ + 1 ELSE @]
          /\ Answer(c, "granted", seat'.epoch)
       \/ /\ ~Welcome \/ seat.st = "none"
          /\ Answer(c, "denied", 0) /\ UNCHANGED seat
    /\ UNCHANGED <<left, carried, Vault, shell, heard, astray>> /\ Outruns("seat")

(* complete and complete_selected: record, selection, pending pointer.     *)
Complete(c) ==
    /\ \/ /\ At(c, "granted")
          /\ Records(c, [store EXCEPT !.conn = call[c].epoch, !.departed = 0, !.intent = 0],
                   Then(c, "select"))
       \/ At(c, "select") /\ Records(c, [store EXCEPT !.selected = TRUE], Then(c, "chosen"))
       \/ At(c, "chosen") /\ Records(c, [store EXCEPT !.pending = FALSE], End(c) /\ shell' = TRUE)
       \/ At(c, "denied") /\ Records(c, [store EXCEPT !.pending = FALSE], Ends(c))
    /\ UNCHANGED <<HostSide, heard, astray>>

(* postpone: a call of its own, which writes once or twice.                *)
Postpone ==
    /\ store.pending /\ selectionLane = <<>>
    /\ \E with \in {IF store.archived THEN [store EXCEPT !.pending = FALSE]
                                      ELSE [store EXCEPT !.archived = TRUE]} :
          Saved(with) \/ Unsaved(with)
    /\ UNCHANGED <<HostSide, call, waiting, selectionLane, shell, heard, astray>>

-----------------------------------------------------------------------------
(* The host bans the guest; somebody else moves the epoch.                 *)
HostMoves ==
    /\ \E st \in {seat.st, "out"} :
          /\ IF st = "out" THEN seat.st \in {"in", "left"} /\ seat.epoch <= BansUntil
             ELSE seat.epoch <= OthersUntil /\ seat.epoch < MaxSeatEpoch
          /\ seat' = [seat EXCEPT !.st = st, !.epoch = @ + 1]
    /\ UNCHANGED <<left, carried, Vault, call, waiting, selectionLane, shell, History>>

OutNext ==
    \/ \E c \in Callers :
          \/ Drop(c) \/ LeaveRoom(c) \/ SaveIntent(c)
          \/ HostActs(c) \/ HostLetsGo(c) \/ Rejected(c) \/ Accepted(c)
          \/ Archive(c) \/ Release(c) \/ Settled(c)
          \/ JoinRoom(c) \/ Resume(c) \/ Recover(c) \/ Enter(c)
          \/ Choose(c) \/ HostAdmits(c) \/ Complete(c)
          \/ \E o \in GuestOps : Act(c, o)
    \/ Crash \/ Postpone \/ HostMoves

OutSpec == OutInit /\ [][OutNext]_outVars

-----------------------------------------------------------------------------
(* An operation that the host carried out and whose fate the guest was not *)
(* told is still in its slot, whatever was dropped, sent again or could    *)
(* not be written: and it is there after a restart, unless the host was    *)
(* asked while the file lagged behind, and the process died like that.     *)
FateKept ==
    \A o \in carried \ (heard \cup astray) :
        store.other = o /\ (o \notin unbacked => filed.other = o)

(* A membership the host has granted is found again through a pointer; and *)
(* with no call under way and no departure left to settle, the record      *)
(* names the departure the host knows, so the next resume is let in.  Two  *)
(* things can spoil it: a process that died after the host was asked while *)
(* the file lagged behind, and a late departure that was answered with the *)
(* receipt of an earlier one.                                              *)
Findable(v) == v.selected \/ v.pending \/ v.archived
Agreed == /\ seat.st = "left" => store.departed = seat.departure
          /\ \A e \in {store.departed, store.intent} : e \in {0, seat.departure}
Quiet == \A c \in Callers : At(c, "off")
GuestComesBack ==
    "seat" \notin astray /\ seat.st \in {"in", "left"} =>
        /\ Findable(store) /\ ("seat" \notin unbacked => Findable(filed))
        /\ Quiet /\ store.departure = NoOp => Agreed

(* What a guest began is not forgotten: neither an operation nor its seat.  *)
IntentsKept == FateKept /\ GuestComesBack
=============================================================================

------------------------------- MODULE RoomFeed -------------------------------
(***************************************************************************)
(* What a guest is shown of the shared room.  Every commit of something    *)
(* the members share writes a numbered change in its own transaction; a    *)
(* feed reads pages of changes together with the state of that moment, and *)
(* the guest's screen takes them from two sources that overtake each       *)
(* other: the feed it subscribed to, and the answers to its own requests.  *)
(* Members come and go and saves are restored between any two steps.       *)
(*                                                                         *)
(* The state of the room is known by the number of the last change it      *)
(* contains, so `head` of an update also names the state it carries.       *)
(***************************************************************************)
EXTENDS Naturals, Sequences, FiniteSets, FiniteSetsExt

CONSTANTS
    PageSize,           \* changes in one update (128)
    MaxChanges,         \* bounds: changes of the room,
    MaxOnWire           \* updates between the host and the guest

ASSUME FeedAssumption == PageSize \in Nat \ {0} /\ MaxChanges \in Nat /\ MaxOnWire \in Nat

VARIABLES
    changes,            \* room_changes: "state" or "timeline_reset", by sequence
    place,              \* the guest's membership: present, and the room's epoch
    feed,               \* room_events: the stream of the host
    wire,               \* updates on their way to the guest
    answer,             \* room_state: an answer on its way, or none
    view,               \* RoomController
    told,               \* changes the guest heard since the feed last started anew (history)
    unseemly            \* an update was read for somebody who had left (history)

feedVars == <<changes, place, feed, wire, answer, view, told, unseemly>>

NoFeed == [at |-> "off", after |-> 0, forced |-> FALSE, cursor |-> 0, head |-> 0,
           lease |-> 0, tries |-> 0]
NoAnswer == [at |-> "none", knew |-> 0, update |-> <<>>]
EmptyView == [status |-> "offline", head |-> 0, cursor |-> 0, reset |-> 0]
NothingHeard == [set |-> {}, upto |-> 0]

FeedInit ==
    /\ changes = <<"state">> /\ place = [present |-> TRUE, epoch |-> 1]
    /\ feed = NoFeed /\ wire = <<>> /\ answer = NoAnswer /\ view = EmptyView
    /\ told = NothingHeard /\ unseemly = FALSE

-----------------------------------------------------------------------------
(* The host's side: changes, and the page a reader gets.                   *)
Latest == Len(changes)
Resets == {n \in 1..Latest : changes[n] = "timeline_reset"}
ResetCursor == Max({0} \cup Resets)

Oldest(S) == {n \in S : Cardinality({m \in S : m < n}) < PageSize}
Newest(S) == {n \in S : Cardinality({m \in S : m > n}) < PageSize}

(* after = 0 is a reader without a cursor: no change has the number 0.     *)
StartsAnew(after) == after = 0 \/ after > Latest \/ after < ResetCursor
Events(after) ==
    IF StartsAnew(after) THEN Newest({n \in 1..Latest : n >= ResetCursor})
    ELSE Oldest({n \in 1..Latest : n > after})
PageCursorAtHead(after) == Latest         \* mutant: pages are skipped
PageCursor(after) ==
    IF StartsAnew(after) \/ Events(after) = {} THEN Latest ELSE Max(Events(after))
Update(after) ==
    [cursor |-> PageCursor(after), head |-> Latest, reset |-> ResetCursor,
     anew |-> StartsAnew(after), events |-> Events(after)]
NothingNew(after, forced) == after = Latest /\ ~forced

Commits(kind) ==
    /\ Latest < MaxChanges /\ changes' = Append(changes, kind)
    /\ UNCHANGED <<feed, wire, answer, view, told, unseemly>>
SomethingChanges == Commits("state") /\ UNCHANGED place
SaveRestored == Commits("timeline_reset") /\ UNCHANGED place
(* Somebody joins or leaves, the guest or another: a new epoch.            *)
MembersChange ==
    /\ Commits("state")
    /\ \E stays \in BOOLEAN : place' = [present |-> stays, epoch |-> place.epoch + 1]

(* Proof of membership is checked when the lease is made, and again in the *)
(* transaction that reads; members come and go in between.                 *)
LeaseHolds(lease) == place.present /\ lease = place.epoch

FeedAuthenticates ==
    /\ feed.at \in {"open", "poll"}
    /\ feed' = IF place.present
               THEN [feed EXCEPT !.at = IF @ = "open" THEN "first" ELSE "read", !.lease = place.epoch]
               ELSE NoFeed
    /\ UNCHANGED <<changes, place, wire, answer, view, told, unseemly>>

SendsPage(update) ==
    /\ Len(wire) < MaxOnWire /\ wire' = Append(wire, update)
    /\ feed' = [feed EXCEPT !.at = "poll", !.cursor = update.cursor, !.head = update.head]
    /\ unseemly' = (unseemly \/ ~place.present)
    /\ UNCHANGED <<changes, place, answer, view, told>>
FirstPage ==
    /\ feed.at = "first" /\ LeaseHolds(feed.lease) /\ SendsPage(Update(feed.after))
NextPage ==
    /\ feed.at = "read" /\ LeaseHolds(feed.lease) /\ ~NothingNew(feed.cursor, FALSE)
    /\ SendsPage(Update(feed.cursor))
NoPage ==
    /\ feed.at = "read" /\ LeaseHolds(feed.lease) /\ NothingNew(feed.cursor, FALSE)
    /\ feed' = [feed EXCEPT !.at = "poll", !.head = feed.cursor]
    /\ UNCHANGED <<changes, place, wire, answer, view, told, unseemly>>
FeedDenied ==
    /\ feed.at \in {"first", "read"} /\ ~LeaseHolds(feed.lease)
    /\ feed' = CASE feed.at = "read" -> [feed EXCEPT !.at = "poll"]
                 [] feed.at = "first" /\ feed.tries < 2 ->
                        [feed EXCEPT !.at = "open", !.tries = @ + 1]
                 [] OTHER -> NoFeed
    /\ UNCHANGED <<changes, place, wire, answer, view, told, unseemly>>

-----------------------------------------------------------------------------
(* The guest's side.  What arrives is dropped when the screen shows a      *)
(* later state; the connection may break, and everything on it is lost.    *)
Fresh(update) == update.head >= view.head
Shows(update, status) ==
    view' = IF Fresh(update)
            THEN [status |-> status, head |-> update.head, reset |-> update.reset,
                  cursor |-> Max({view.cursor, update.cursor})]
            ELSE [view EXCEPT !.status = status]

GuestActivates ==
    /\ view.status \in {"offline", "connected", "disconnected"}
    /\ view' = [EmptyView EXCEPT !.status = "connecting"]
    /\ feed' = NoFeed /\ wire' = <<>> /\ told' = NothingHeard
    /\ answer' = [NoAnswer EXCEPT !.at = "asking"]
    /\ UNCHANGED <<changes, place, unseemly>>
GuestAsks ==
    /\ view.status = "connected" /\ answer = NoAnswer
    /\ answer' = [NoAnswer EXCEPT !.at = "asking", !.knew = view.reset]
    /\ UNCHANGED <<changes, place, feed, wire, view, told, unseemly>>
HostAnswers ==
    /\ answer.at = "asking" /\ place.present
    /\ answer' = [answer EXCEPT !.at = "answered", !.update = Update(0)]
    /\ UNCHANGED <<changes, place, feed, wire, view, told, unseemly>>
AnswerLost ==
    /\ answer.at # "none" /\ answer' = NoAnswer
    /\ view' = IF view.status = "connecting" THEN [view EXCEPT !.status = "disconnected"] ELSE view
    /\ UNCHANGED <<changes, place, feed, wire, told, unseemly>>
(* An answer asked for before a restore was heard of is not shown.         *)
AnswerArrives ==
    /\ answer.at = "answered" /\ answer' = NoAnswer
    /\ IF answer.knew = view.reset THEN Shows(answer.update, "connected") ELSE UNCHANGED view
    /\ feed' = IF view.status = "connecting"
               THEN [NoFeed EXCEPT !.at = "open", !.after = answer.update.cursor, !.forced = TRUE]
               ELSE feed
    /\ told' = IF view.status = "connecting" THEN [set |-> {}, upto |-> answer.update.cursor]
                ELSE told
    /\ UNCHANGED <<changes, place, wire, unseemly>>

GuestHears ==
    /\ wire # <<>> /\ wire' = Tail(wire)
    /\ LET update == wire[1] IN
       /\ Shows(update, view.status)
       /\ told' = [set |-> IF update.anew THEN update.events ELSE told.set \cup update.events,
                    upto |-> update.cursor]
    /\ UNCHANGED <<changes, place, feed, answer, unseemly>>
FeedBreaks ==
    /\ view.status = "connected"
    /\ feed' = NoFeed /\ wire' = <<>>
    /\ view' = [view EXCEPT !.status = "disconnected"]
    /\ UNCHANGED <<changes, place, answer, told, unseemly>>

FeedNext ==
    \/ SomethingChanges \/ SaveRestored \/ MembersChange
    \/ FeedAuthenticates \/ FirstPage \/ NextPage \/ NoPage \/ FeedDenied
    \/ GuestActivates \/ GuestAsks \/ HostAnswers \/ AnswerLost \/ AnswerArrives
    \/ GuestHears \/ FeedBreaks

FeedSpec == FeedInit /\ [][FeedNext]_feedVars

-----------------------------------------------------------------------------
(* Nothing is skipped: the changes heard are consecutive up to the cursor, *)
(* and belong to the timeline of the last page.                            *)
NothingSkipped ==
    /\ \A m, n \in told.set : m..n \subseteq told.set
    /\ told.set # {} => told.upto = Max(told.set)

(* A screen that has heard all its feed had to say shows the room as it is.*)
QuietMeansCurrent ==
    feed.at = "poll" /\ feed.cursor = Latest /\ wire = <<>> =>
        view.head = Latest /\ view.reset = ResetCursor

(* What a member is shown of the room is complete and in order, current    *)
(* once the room is quiet, and read only while a member.                   *)
FeedFaithful == NothingSkipped /\ QuietMeansCurrent /\ ~unseemly
=============================================================================

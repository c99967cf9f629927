-------------------------------- MODULE Rooms --------------------------------
(***************************************************************************)
(* One co-op room, from its creation to its closing: invitations, joins,   *)
(* departures, returns and bans as the room service and its repository     *)
(* carry them out.                                                         *)
(*                                                                         *)
(* A request handler authenticates a capability without any lock and gets  *)
(* a lease; later, under the process-wide ROOM_MUTATION lock, it acts.  A  *)
(* join and the issue of an invitation write secrets before they commit    *)
(* to the database, and a handler may be dropped, crash or meet an I/O     *)
(* error after any of those writes.                                        *)
(*                                                                         *)
(* Names: the uuids drawn by a join (of its credential, and of its member  *)
(* when the invitation has no target) are named by the join; a saved       *)
(* guest's and the host's first credential by the member.  The nonce of a  *)
(* leave is named by the epoch it expects; the native client draws one     *)
(* nonce for such a decision.                                              *)
(* Left out: what a change of members does to a running combat             *)
(* (reconcile_membership) and the change feed (room_changes), both written  *)
(* in the same transaction and read by nothing below; display names.        *)
(* Requests that are refused, and repetitions answered from a receipt,     *)
(* change nothing and are no steps.                                        *)
(***************************************************************************)
EXTENDS Naturals, FiniteSets

CONSTANTS
  Host,              \* the host's member id
  Saved,             \* guests the campaign's party already has
  Joins,             \* join ids of clients
  Invitations,       \* invitation ids
  None,
  MaxPartyMembers,   \* app_domain's party limit
  MaxEpoch,          \* bound: epochs of the room (u64 in the code)
  MaxLeases,         \* bound: leases held by handlers in flight
  MaxIntents         \* bound: return intents a client draws for one departure

Ids == {Host} \cup Saved \cup Joins

ASSUME RoomsAssumption ==
  /\ Host \notin Saved \cup Joins /\ Saved \cap Joins = {}
  /\ None \notin Ids \cup Invitations
  /\ IsFiniteSet(Ids)
  /\ MaxPartyMembers \in Nat /\ MaxEpoch \in Nat \ {0} /\ MaxLeases \in Nat /\ MaxIntents \in Nat
  /\ Cardinality({Host} \cup Saved) <= MaxPartyMembers

VARIABLES
  room,          \* the coop_rooms record
  invitationSecrets, credentialSecrets,   \* ids whose secret is in the vault
  pending,       \* member id kept in a join's private PendingJoin, or None
  receipts,      \* room_join_receipts; which invitation was spent is history
  departures,    \* room_departure_receipts
  returns,       \* room_return_receipts
  asked,         \* history: the return intents clients drew
  leases,        \* leases in the hands of handlers
  task           \* the handler inside ROOM_MUTATION between two of its writes

secrets == <<invitationSecrets, credentialSecrets>>
ledger == <<receipts, departures, returns>>
vars == <<room, secrets, pending, ledger, asked, leases, task>>

Idle == [step |-> "idle"]
NoReceipt == [member |-> None, invitation |-> None]

Member(m) == room.members[m]
IsMember(r, m) == r.members[m].credential # None
Party(r) == {m \in Ids : IsMember(r, m)}
IsPlayer(r, m) == m # Host /\ IsMember(r, m)

(* RoomRecord::valid: nothing else is ever written or read.                 *)
Valid(r) ==
  /\ Cardinality(Party(r)) <= MaxPartyMembers
  /\ \A m \in Ids : r.members[m].left =>
       ~r.members[m].active /\ IsPlayer(r, m) /\ r.members[m].departure > 0
  /\ \A m, n \in Party(r) : r.members[m].credential = r.members[n].credential => m = n
  /\ r.members[Host].active
  /\ r.invitation.target # None => IsPlayer(r, r.invitation.target)

WriteUnchecked(r) == room' = r   \* mutant: stores a record valid() rejects

Write(r) == Valid(r) /\ room' = r

(* The record r with member m changed to v in a new epoch.                  *)
Moved(r, m, v) == [r EXCEPT !.members[m] = v, !.epoch = @ + 1]
EpochLeft == room.epoch < MaxEpoch

NewInvitation(i, target) ==
  [id |-> i, target |-> target, consumedBy |-> None, expired |-> FALSE]

(* create_local_room: the party's members with fresh credentials, only the  *)
(* host present, and a first invitation, all with their secrets stored.     *)
Init ==
  /\ \E i \in Invitations :
       /\ room = [epoch |-> 1, active |-> TRUE, invitation |-> NewInvitation(i, None),
                  members |-> [m \in Ids |->
                     [credential |-> IF m \in Joins THEN None ELSE m,
                      active |-> m = Host, left |-> FALSE, departure |-> 0]]]
       /\ invitationSecrets = {i}
  /\ credentialSecrets = {Host} \cup Saved
  /\ pending = [j \in Joins |-> None]
  /\ receipts = [j \in Joins |-> NoReceipt]
  /\ departures = {} /\ returns = {} /\ asked = {} /\ leases = {}
  /\ task = Idle

-----------------------------------------------------------------------------
(* Leases                                                                   *)

(* Capabilities in the hands of people: the host's, and those of joins that *)
(* were granted.                                                            *)
Granted == {Host} \cup {j \in Joins : receipts[j] # NoReceipt}

(* authenticate (departing = FALSE) and authenticate_departure.  The lease   *)
(* carries the epoch of the record it was read from; the credential shown   *)
(* and the member's last departure are recorded as history.                 *)
Authenticate(m, c, departing) ==
  /\ Cardinality(leases) < MaxLeases
  /\ room.active
  /\ Member(m).active \/ (departing /\ Member(m).left)
  /\ departing => m # Host
  /\ Member(m).credential = c /\ c \in credentialSecrets
  /\ leases' = leases \cup {[member |-> m, epoch |-> room.epoch, credential |-> c,
                             departure |-> Member(m).departure]}
  /\ UNCHANGED <<room, secrets, pending, ledger, asked, task>>

EndRequest(l) ==
  /\ leases' = leases \ {l}
  /\ UNCHANGED <<room, secrets, pending, ledger, asked, task>>

(* verify_lease, with authorized_room: what every use of a lease checks.    *)
Verifies(l) == room.active /\ room.epoch = l.epoch /\ Member(l.member).active
HostVerifies(l) == Verifies(l) /\ l.member = Host

-----------------------------------------------------------------------------
(* Joining                                                                  *)

UsableTwice(invitation) == ~invitation.expired   \* mutant: forgets consumed_by

Usable(invitation) == invitation.consumedBy = None /\ ~invitation.expired

(* A join without a receipt that shows the current invitation's secret.     *)
BeginJoin(j) ==
  LET invitation == room.invitation
      member == IF pending[j] # None THEN pending[j]
                ELSE IF invitation.target # None THEN invitation.target ELSE j
  IN
  /\ task = Idle
  /\ room.active /\ receipts[j] = NoReceipt
  /\ Usable(invitation) /\ invitation.id \in invitationSecrets
  /\ invitation.target \in {None, member}
  /\ task' = [step |-> "pending", join |-> j, member |-> member,
              epoch |-> room.epoch, invitation |-> invitation.id]
  /\ UNCHANGED <<room, secrets, pending, ledger, asked, leases>>

SavePending ==
  /\ task.step = "pending"
  /\ pending' = [pending EXCEPT ![task.join] = task.member]
  /\ task' = [task EXCEPT !.step = "credential"]
  /\ UNCHANGED <<room, secrets, ledger, asked, leases>>

SaveCredential ==
  /\ task.step = "credential"
  /\ credentialSecrets' = credentialSecrets \cup {task.join}
  /\ task' = [task EXCEPT !.step = "commit"]
  /\ UNCHANGED <<room, invitationSecrets, pending, ledger, asked, leases>>

(* The conditions of commit_join, and the record it then writes.            *)
Admissible(t) ==
  /\ room.active /\ room.epoch = t.epoch
  /\ room.invitation.id = t.invitation /\ Usable(room.invitation)
  /\ \A m \in Ids : Member(m).credential # t.join
  /\ IF room.invitation.target # None
     THEN t.member = room.invitation.target /\ IsPlayer(room, t.member)
     ELSE Cardinality(Party(room)) < MaxPartyMembers /\ ~IsMember(room, t.member)

(* Mutant: the seat changes hands within the epoch.                         *)
AdmittedQuietly(t) ==
  [room EXCEPT !.invitation.consumedBy = t.join, !.members[t.member].credential = t.join,
               !.members[t.member].active = TRUE]

Admitted(t) ==
  LET seat == [Member(t.member) EXCEPT !.credential = t.join, !.active = TRUE]
      consumed == [room EXCEPT !.invitation.consumedBy = t.join]
  IN IF room.invitation.target # None THEN Moved(consumed, t.member, seat)
     ELSE [consumed EXCEPT !.members[t.member] = seat]

CommitJoin ==
  /\ task.step = "commit" /\ Admissible(task)
  /\ room.invitation.target # None => EpochLeft
  /\ Write(Admitted(task))
  /\ receipts' = [receipts EXCEPT ![task.join] =
                    [member |-> task.member, invitation |-> task.invitation]]
  /\ task' = Idle
  /\ UNCHANGED <<secrets, pending, departures, returns, asked, leases>>

(* The handler inside the lock ends before its commit: refused, cancelled,   *)
(* crashed, or out of luck with its store.                                  *)
Abandon ==
  /\ task # Idle
  /\ task' = Idle
  /\ UNCHANGED <<room, secrets, pending, ledger, asked, leases>>

(* Ten minutes pass.                                                        *)
Expire ==
  /\ Usable(room.invitation)
  /\ room' = [room EXCEPT !.invitation.expired = TRUE]
  /\ UNCHANGED <<secrets, pending, ledger, asked, leases, task>>
-----------------------------------------------------------------------------
(* Leaving and returning                                                    *)

Decided(m, expected) ==   \* mutant: forgets expected_epoch
  Member(m).active

(* The player decided to leave in this epoch, and is still there.           *)
Departs(m, expected) == expected = room.epoch /\ Member(m).active

(* leave_member.  expected is the epoch the player saw when it decided.     *)
Leave(l, expected) ==
  LET m == l.member
      leaving == [Member(m) EXCEPT !.active = FALSE, !.left = TRUE,
                                   !.departure = room.epoch + 1]
      receipt == [member |-> m, join |-> l.credential, expected |-> expected,
                  epoch |-> room.epoch + 1]
  IN
  /\ task = Idle
  /\ room.active /\ room.epoch = l.epoch /\ m # Host
  /\ ~ \E r \in departures : r.member = m /\ r.join = l.credential /\ r.expected = expected
  /\ Departs(m, expected) /\ EpochLeft
  /\ Write(Moved(room, m, leaving))
  /\ departures' = departures \cup {receipt}
  /\ UNCHANGED <<secrets, pending, receipts, returns, asked, leases, task>>

(* A client that was told of its departure draws an intent to undo it, or    *)
(* another one; its request may arrive at any later time, more than once.   *)
AskReturn(r, nonce) ==
  /\ r \in departures
  /\ \A n \in 1..(nonce - 1) : [join |-> r.join, departure |-> r.epoch, nonce |-> n] \in asked
  /\ asked' = asked \cup {[join |-> r.join, departure |-> r.epoch, nonce |-> nonce]}
  /\ UNCHANGED <<room, secrets, pending, ledger, leases, task>>

UndoesAny(q, m) == Member(m).departure > 0   \* mutant: any intent will do

Undoes(q, m) == Member(m).departure = q.departure

(* A replayed join with a return intent: join_with_return and return_member. *)
Return(q) ==
  LET j == q.join
      m == receipts[j].member
      receipt == [member |-> m, join |-> j, departure |-> q.departure, nonce |-> q.nonce]
  IN
  /\ task = Idle /\ q \in asked
  /\ room.active /\ receipts[j] # NoReceipt /\ pending[j] = m
  /\ Member(m).credential = j /\ (Member(m).active \/ Member(m).left)
  /\ Undoes(q, m)
  /\ receipt \notin returns
  /\ \/ /\ Member(m).left /\ EpochLeft
        /\ Write(Moved(room, m, [Member(m) EXCEPT !.active = TRUE, !.left = FALSE]))
     \/ ~Member(m).left /\ UNCHANGED room
  /\ returns' = returns \cup {receipt}
  /\ UNCHANGED <<secrets, pending, receipts, departures, asked, leases, task>>

-----------------------------------------------------------------------------
(* The host                                                                 *)

BannedGently(v) == [v EXCEPT !.active = FALSE]   \* mutant: keeps the right to return

Banned(v) == [v EXCEPT !.active = FALSE, !.left = FALSE]

Revoke(l, m) ==
  /\ task = Idle /\ HostVerifies(l) /\ EpochLeft
  /\ m # Host /\ (Member(m).active \/ Member(m).left)
  /\ Write(Moved(room, m, Banned(Member(m))))
  /\ UNCHANGED <<secrets, pending, ledger, asked, leases, task>>

CloseRoom ==
  /\ task = Idle /\ EpochLeft
  /\ Write([room EXCEPT !.active = FALSE, !.epoch = @ + 1])
  /\ UNCHANGED <<secrets, pending, ledger, asked, leases, task>>

Close(l) == HostVerifies(l) /\ CloseRoom

(* cancel_local_creation: the owner takes the room back, whatever its epoch. *)
CancelCreation == room.active /\ CloseRoom

(* issue_invitation writes the new secret before the record.                *)
BeginIssue(l, i, target) ==
  /\ task = Idle /\ HostVerifies(l)
  /\ target # None => IsPlayer(room, target)
  /\ i \notin invitationSecrets
  /\ invitationSecrets' = invitationSecrets \cup {i}
  /\ task' = [step |-> "rotate", lease |-> l, invitation |-> NewInvitation(i, target)]
  /\ UNCHANGED <<room, credentialSecrets, pending, ledger, asked, leases>>

RotateInvitation ==
  /\ task.step = "rotate" /\ HostVerifies(task.lease)
  /\ Write([room EXCEPT !.invitation = task.invitation])
  /\ task' = Idle
  /\ UNCHANGED <<secrets, pending, ledger, asked, leases>>

DropSecret(i, r) == invitationSecrets \ {i}   \* mutant: trusts the reported error

SecretsAfterError(i, r) ==
  IF r.invitation.id # i THEN invitationSecrets \ {i} ELSE invitationSecrets

(* The repository reports an error, before its commit or after it: the       *)
(* secret goes unless the record turns out to name the new invitation.      *)
RotateFails(committed) ==
  /\ task.step = "rotate"
  /\ IF committed THEN HostVerifies(task.lease) /\ Write([room EXCEPT !.invitation = task.invitation])
                  ELSE UNCHANGED room
  /\ invitationSecrets' = SecretsAfterError(task.invitation.id, room')
  /\ task' = Idle
  /\ UNCHANGED <<credentialSecrets, pending, ledger, asked, leases>>

-----------------------------------------------------------------------------
Joining ==
  \/ \E j \in Joins : BeginJoin(j)
  \/ SavePending \/ SaveCredential \/ CommitJoin \/ Abandon \/ Expire

Playing ==
  \/ \E m \in Ids, c \in Granted, departing \in BOOLEAN : Authenticate(m, c, departing)
  \/ \E l \in leases :
       \/ EndRequest(l)
       \/ \E expected \in 1..room.epoch : Leave(l, expected)
  \/ \E r \in departures, nonce \in 1..MaxIntents : AskReturn(r, nonce)
  \/ \E q \in asked : Return(q)

Hosting ==
  \/ \E l \in leases :
       \/ Close(l)
       \/ \E m \in Ids : Revoke(l, m)
       \/ \E i \in Invitations, target \in Ids \cup {None} : BeginIssue(l, i, target)
  \/ CancelCreation
  \/ RotateInvitation
  \/ \E committed \in BOOLEAN : RotateFails(committed)

Next == Joining \/ Playing \/ Hosting

Spec == Init /\ [][Next]_vars
-----------------------------------------------------------------------------
(* Properties                                                               *)

Credentials == Ids
MemberRecords == [credential : Credentials \cup {None}, active : BOOLEAN, left : BOOLEAN,
                  departure : 0..MaxEpoch]
InvitationRecords == [id : Invitations, target : Ids \cup {None},
                      consumedBy : Joins \cup {None}, expired : BOOLEAN]
Leases == [member : Ids, epoch : 1..MaxEpoch, credential : Credentials, departure : 0..MaxEpoch]
JoinTasks == [step : {"pending", "credential", "commit"}, join : Joins, member : Ids,
              epoch : 1..MaxEpoch, invitation : Invitations]
IssueTasks == [step : {"rotate"}, lease : Leases, invitation : InvitationRecords]

(* Every variable has its type, and the record is one RoomRecord::valid     *)
(* accepts (the repository refuses to read any other).                      *)
TypeOK ==
  /\ room \in [epoch : 1..MaxEpoch, active : BOOLEAN, invitation : InvitationRecords,
               members : [Ids -> MemberRecords]]
  /\ Valid(room)
  /\ invitationSecrets \subseteq Invitations /\ credentialSecrets \subseteq Credentials
  /\ pending \in [Joins -> Ids \cup {None}]
  /\ receipts \in [Joins -> [member : Ids, invitation : Invitations] \cup {NoReceipt}]
  /\ departures \subseteq [member : Ids, join : Joins, expected : 1..MaxEpoch, epoch : 1..MaxEpoch]
  /\ returns \subseteq [member : Ids, join : Joins, departure : 1..MaxEpoch, nonce : 1..MaxIntents]
  /\ asked \subseteq [join : Joins, departure : 1..MaxEpoch, nonce : 1..MaxIntents]
  /\ leases \subseteq Leases
  /\ task \in {Idle} \cup JoinTasks \cup IssueTasks

(* A lease is checked by epoch, member and role only, never by credential.  *)
(* Still, one that passes the check speaks for the credential that holds    *)
(* the seat now, and was not taken before the member's last departure.      *)
LeaseAuthority ==
  \A l \in leases : Verifies(l) =>
    /\ Member(l.member).credential = l.credential
    /\ Member(l.member).departure = l.departure

(* Wherever a join or the issue of an invitation was cut short, what the    *)
(* database names can be handed over again: the current invitation, the     *)
(* credential of every member, and the private proof of every join.        *)
SecretsBackRoom ==
  /\ room.invitation.id \in invitationSecrets
  /\ \A m \in Party(room) : Member(m).credential \in credentialSecrets
  /\ \A j \in Joins : receipts[j] # NoReceipt =>
       pending[j] = receipts[j].member /\ j \in credentialSecrets

(* However joins are cut short and retried, an invitation lets one in.      *)
InvitationUsedOnce ==
  \A j, k \in Joins :
    receipts[j] # NoReceipt /\ receipts[j].invitation = receipts[k].invitation => j = k

(* The keys of a room are neither lost nor copied.                          *)
KeysHold == SecretsBackRoom /\ InvitationUsedOnce

(* A departure happens in the very epoch its player saw when it decided: a  *)
(* leave that arrives late, or once more after a return, removes nobody.    *)
LeavesAreCurrent == \A r \in departures : r.epoch = r.expected + 1

(* A player who left under a credential and sits there again under it asked  *)
(* to undo that very departure: replayed joins and earlier returns do not   *)
(* bring it back (docs/PARTY_COMBAT.md, "Voluntary exit and return").       *)
ReturnsAreAsked ==
  \A r \in departures :
    LET m == Member(r.member) IN
    m.active /\ m.credential = r.join /\ m.departure = r.epoch =>
      \E q \in asked : q.join = r.join /\ q.departure = r.epoch

(* Players leave and come back when they mean to, and only then.            *)
DeparturesAsMeant == LeavesAreCurrent /\ ReturnsAreAsked

(* The room does to its members what Membership allows, and nothing else:   *)
(* who loses authority does so by a new epoch, a credential is dealt once,  *)
(* and no return follows a ban.                                             *)
Abstract == INSTANCE Membership WITH
  standing <- [m \in Ids |-> IF ~IsMember(room, m) THEN "unknown"
                             ELSE IF Member(m).active THEN "in"
                             ELSE IF Member(m).left THEN "left" ELSE "absent"],
  key <- [m \in Ids |-> Member(m).credential],
  dealt <- Granted \cup Saved,
  epoch <- room.epoch,
  open <- room.active

ImplementsMembership == Abstract!Spec

(* docs/ROOM_AUTH.md says that a host can invite a saved player, and that   *)
(* joining replaces that player's credential: a join that reaches its       *)
(* commit with everything in order is then admitted.                        *)
InviteAdmitsSavedPlayer ==
  task.step = "commit" /\ Admissible(task) /\ room.invitation.target # None
    => Valid(Admitted(task))
=============================================================================

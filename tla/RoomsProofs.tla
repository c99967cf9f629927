----------------------------- MODULE RoomsProofs -----------------------------
(***************************************************************************)
(* Proofs about Rooms.  What a lease may do is decided by comparing epochs,  *)
(* so everything rests on one observation, LeaseInv: as long as a lease is  *)
(* of the current epoch, its member's credential and last departure are     *)
(* those it was taken under.                                                *)
(***************************************************************************)
EXTENDS Rooms, TLAPS

RoomRecords ==
  [epoch : 1..MaxEpoch, active : BOOLEAN, invitation : InvitationRecords,
   members : [Ids -> MemberRecords]]

-----------------------------------------------------------------------------
(* How room records are put together                                        *)

(* A moved record differs in its epoch and in one member.                   *)
LEMMA MovedRecord ==
  ASSUME NEW r \in RoomRecords, NEW m \in Ids, NEW v \in MemberRecords, r.epoch < MaxEpoch
  PROVE  LET s == Moved(r, m, v) IN
         /\ s \in RoomRecords
         /\ s.epoch = r.epoch + 1 /\ s.active = r.active /\ s.invitation = r.invitation
         /\ s.members = [r.members EXCEPT ![m] = v]
<1>1. /\ r.epoch \in 1..MaxEpoch /\ MaxEpoch \in Nat
      /\ r.members \in [Ids -> MemberRecords]
  BY RoomsAssumption DEF RoomRecords
<1>2. r.epoch + 1 \in 1..MaxEpoch
  BY <1>1
<1>3. [r.members EXCEPT ![m] = v] \in [Ids -> MemberRecords]
  BY <1>1
<1>4. Moved(r, m, v) = [r EXCEPT !.members = [r.members EXCEPT ![m] = v], !.epoch = r.epoch + 1]
  BY DEF Moved, RoomRecords
<1> QED BY <1>2, <1>3, <1>4 DEF RoomRecords

(* The handler inside the lock is known by its step.                        *)
LEMMA TaskKinds ==
  ASSUME TypeOK
  PROVE  /\ task.step \in {"pending", "credential", "commit"} => task \in JoinTasks
         /\ task.step = "rotate" => task \in IssueTasks
         /\ task # Idle => task \in JoinTasks \cup IssueTasks
  BY DEF TypeOK, Idle, JoinTasks, IssueTasks

(* What an admitted join writes.                                            *)
LEMMA AdmittedRecord ==
  ASSUME TypeOK, task.step = "commit", Admissible(task),
         room.invitation.target # None => EpochLeft
  PROVE  LET s == Admitted(task) IN
         /\ s \in RoomRecords
         /\ s.active = room.active
         /\ s.epoch = IF room.invitation.target # None THEN room.epoch + 1 ELSE room.epoch
         /\ s.invitation = [room.invitation EXCEPT !.consumedBy = task.join]
         /\ s.members = [room.members EXCEPT ![task.member] =
              [room.members[task.member] EXCEPT !.credential = task.join, !.active = TRUE]]
<1> DEFINE seat == [room.members[task.member] EXCEPT !.credential = task.join, !.active = TRUE]
<1> DEFINE consumed == [room EXCEPT !.invitation.consumedBy = task.join]
<1>1. task \in JoinTasks
  BY TaskKinds
<1>2. room \in RoomRecords
  BY DEF TypeOK, RoomRecords
<1>3. room.members[task.member] \in MemberRecords /\ task.member \in Ids /\ task.join \in Joins
  BY <1>1, <1>2 DEF RoomRecords, JoinTasks
<1>4. seat \in MemberRecords
  BY <1>3 DEF MemberRecords, Credentials, Ids
<1>5. /\ consumed \in RoomRecords
      /\ consumed.epoch = room.epoch /\ consumed.active = room.active
      /\ consumed.members = room.members
      /\ consumed.invitation = [room.invitation EXCEPT !.consumedBy = task.join]
  BY <1>2, <1>3 DEF RoomRecords, InvitationRecords
<1>6. CASE room.invitation.target # None
  <2>1. Admitted(task) = Moved(consumed, task.member, seat)
    BY <1>6 DEF Admitted, Member
  <2>2. consumed.epoch < MaxEpoch
    BY <1>5, <1>6 DEF EpochLeft
  <2> HIDE DEF seat, consumed
  <2>3. LET s == Moved(consumed, task.member, seat) IN
         /\ s \in RoomRecords
         /\ s.epoch = consumed.epoch + 1 /\ s.active = consumed.active
         /\ s.invitation = consumed.invitation
         /\ s.members = [consumed.members EXCEPT ![task.member] = seat]
    BY <1>3, <1>4, <1>5, <2>2, MovedRecord
  <2> QED BY <1>5, <1>6, <2>1, <2>3 DEF seat
<1>7. CASE room.invitation.target = None
  <2>1. Admitted(task) = [consumed EXCEPT !.members[task.member] = seat]
    BY <1>7 DEF Admitted, Member
  <2> HIDE DEF seat, consumed
  <2>2. LET s == [consumed EXCEPT !.members[task.member] = seat] IN
         /\ s \in RoomRecords
         /\ s.epoch = consumed.epoch /\ s.active = consumed.active
         /\ s.invitation = consumed.invitation
         /\ s.members = [consumed.members EXCEPT ![task.member] = seat]
    BY <1>3, <1>4, <1>5 DEF RoomRecords
  <2> QED BY <1>5, <1>7, <2>1, <2>2 DEF seat
<1> QED BY <1>6, <1>7

(* What a step that moves one member into a new epoch does to the record.   *)
LEMMA MoveStep ==
  ASSUME TypeOK, NEW m \in Ids, NEW v \in MemberRecords, EpochLeft, Write(Moved(room, m, v))
  PROVE  /\ room' \in RoomRecords /\ Valid(room')
         /\ room'.epoch = room.epoch + 1 /\ room'.active = room.active
         /\ room'.invitation = room.invitation
         /\ room'.members = [room.members EXCEPT ![m] = v]
<1>1. room \in RoomRecords
  BY DEF TypeOK, RoomRecords
<1> QED BY <1>1, MovedRecord DEF Write, EpochLeft

(* The members a leave, a return and a ban put in place of the old ones.    *)
LEMMA MovedMembers ==
  ASSUME TypeOK, NEW m \in Ids, EpochLeft
  PROVE  /\ [Member(m) EXCEPT !.active = FALSE, !.left = TRUE, !.departure = room.epoch + 1]
              \in MemberRecords
         /\ [Member(m) EXCEPT !.active = TRUE, !.left = FALSE] \in MemberRecords
         /\ Banned(Member(m)) \in MemberRecords
<1>1. Member(m) \in MemberRecords
  BY DEF TypeOK, Member
<1>2. room.epoch + 1 \in 0..MaxEpoch
  BY RoomsAssumption DEF TypeOK, EpochLeft
<1> QED BY <1>1, <1>2 DEF MemberRecords, Banned

(* Every step leaves a well-formed, valid record.                           *)
LEMMA RoomTypeStep ==
  ASSUME TypeOK, [Next]_vars
  PROVE  room' \in RoomRecords /\ Valid(room')
<1>0. room \in RoomRecords /\ Valid(room)
  BY DEF TypeOK, RoomRecords
<1>1. CASE UNCHANGED room
  BY <1>0, <1>1
<1>2. CASE CommitJoin
  <2>1. Write(Admitted(task))
    BY <1>2 DEF CommitJoin
  <2> QED BY <1>2, <2>1, AdmittedRecord DEF CommitJoin, Write
<1>3. CASE Expire
  <2>1. room' = [room EXCEPT !.invitation = [room.invitation EXCEPT !.expired = TRUE]]
    BY <1>0, <1>3 DEF Expire, RoomRecords
  <2>2. [room.invitation EXCEPT !.expired = TRUE] \in InvitationRecords
    BY <1>0 DEF RoomRecords, InvitationRecords
  <2>3. room' \in RoomRecords /\ room'.members = room.members
        /\ room'.invitation.target = room.invitation.target
    BY <1>0, <2>1, <2>2 DEF RoomRecords, InvitationRecords
  <2> QED BY <1>0, <2>3 DEF Valid, Party, IsMember, IsPlayer
<1>4. ASSUME NEW l \in leases, NEW expected \in 1..room.epoch, Leave(l, expected)
      PROVE  room' \in RoomRecords /\ Valid(room')
  <2>1. l.member \in Ids
    BY DEF TypeOK, Leases
  <2> QED BY <1>4, <2>1, MovedMembers, MoveStep DEF Leave
<1>5. ASSUME NEW q \in asked, Return(q)
      PROVE  room' \in RoomRecords /\ Valid(room')
  <2>1. receipts[q.join].member \in Ids
    BY <1>5 DEF TypeOK, Return
  <2> QED BY <1>0, <1>5, <2>1, MovedMembers, MoveStep DEF Return
<1>6. ASSUME NEW l \in leases, NEW m \in Ids, Revoke(l, m)
      PROVE  room' \in RoomRecords /\ Valid(room')
  BY <1>6, MovedMembers, MoveStep DEF Revoke
<1>7. CASE CloseRoom
  <2>1. room.epoch + 1 \in 1..MaxEpoch
    BY <1>7, RoomsAssumption DEF CloseRoom, EpochLeft, TypeOK
  <2> QED BY <1>0, <1>7, <2>1 DEF CloseRoom, Write, RoomRecords
<1>8. ASSUME task.step = "rotate", Write([room EXCEPT !.invitation = task.invitation])
      PROVE  room' \in RoomRecords /\ Valid(room')
  <2>1. task.invitation \in InvitationRecords
    BY <1>8, TaskKinds DEF IssueTasks
  <2> QED BY <1>0, <1>8, <2>1 DEF Write, RoomRecords
<1> QED
  BY <1>1, <1>2, <1>3, <1>4, <1>5, <1>6, <1>7, <1>8 DEF Next, Joining, Playing, Hosting, vars,
     BeginJoin, SavePending, SaveCredential, Abandon, Authenticate, EndRequest, AskReturn, Close,
     CancelCreation, BeginIssue, RotateInvitation, RotateFails

(* A lease of the current epoch speaks for the seat as it is.  Its epoch     *)
(* cannot be ahead of the room's, and its credential was granted.           *)
LeaseInv ==
  /\ Member(Host).credential = Host
  /\ \A l \in leases :
       /\ l.epoch <= room.epoch
       /\ l.credential \in Granted
       /\ l.epoch = room.epoch =>
            /\ Member(l.member).credential = l.credential
            /\ Member(l.member).departure = l.departure

(* A player's current lease shows the credential of a join that was granted. *)
LEMMA PlayerCredential ==
  ASSUME TypeOK, LeaseInv, NEW l \in leases, l.epoch = room.epoch, l.member # Host
  PROVE  l.credential \in Joins /\ receipts[l.credential] # NoReceipt
<1>1. l.member \in Ids /\ Host \in Ids
  BY DEF TypeOK, Leases, Ids
<1>2. Member(l.member).credential = l.credential /\ l.credential \in Granted
  BY DEF LeaseInv
<1>3. l.credential # None
  BY <1>2, RoomsAssumption DEF Granted, Ids
<1>4. l.member \in Party(room) /\ Host \in Party(room)
  BY <1>1, <1>2, <1>3, RoomsAssumption DEF Party, IsMember, Member, LeaseInv
<1>5. l.credential # Host
  BY <1>2, <1>4 DEF TypeOK, Valid, LeaseInv, Member
<1> QED BY <1>2, <1>5 DEF Granted

(* The rest of the state, with one step per action that changes it.         *)
LedgerType ==
  /\ invitationSecrets \subseteq Invitations /\ credentialSecrets \subseteq Credentials
  /\ pending \in [Joins -> Ids \cup {None}]
  /\ receipts \in [Joins -> [member : Ids, invitation : Invitations] \cup {NoReceipt}]
  /\ departures \subseteq [member : Ids, join : Joins, expected : 1..MaxEpoch, epoch : 1..MaxEpoch]
  /\ returns \subseteq [member : Ids, join : Joins, departure : 1..MaxEpoch, nonce : 1..MaxIntents]
  /\ asked \subseteq [join : Joins, departure : 1..MaxEpoch, nonce : 1..MaxIntents]

HandlerType ==
  /\ leases \subseteq Leases
  /\ task \in {Idle} \cup JoinTasks \cup IssueTasks

LEMMA HandlerTypeStep ==
  ASSUME TypeOK, [Next]_vars
  PROVE  HandlerType'
<1> USE DEF TypeOK, HandlerType
<1>1. CASE UNCHANGED <<leases, task>>
  BY <1>1
<1>2. ASSUME task' = Idle, UNCHANGED leases PROVE HandlerType'
  BY <1>2 DEF Idle
<1>3. ASSUME NEW m \in Ids, NEW c \in Granted, NEW departing \in BOOLEAN, Authenticate(m, c, departing)
      PROVE  HandlerType'
  <2>1. c \in Credentials
    BY DEF Granted, Credentials, Ids
  <2>2. room.epoch \in 1..MaxEpoch /\ room.members[m].departure \in 0..MaxEpoch
    BY DEF MemberRecords
  <2> QED BY <1>3, <2>1, <2>2 DEF Authenticate, Member, Leases
<1>4. ASSUME NEW l \in leases, EndRequest(l) PROVE HandlerType'
  BY <1>4 DEF EndRequest
<1>5. ASSUME NEW j \in Joins, BeginJoin(j) PROVE HandlerType'
  <2> DEFINE member == IF pending[j] # None THEN pending[j]
                       ELSE IF room.invitation.target # None THEN room.invitation.target ELSE j
  <2>1. member \in Ids
    BY DEF Ids, InvitationRecords
  <2>2. room.epoch \in 1..MaxEpoch /\ room.invitation.id \in Invitations
    BY DEF InvitationRecords
  <2>3. task' = [step |-> "pending", join |-> j, member |-> member,
                 epoch |-> room.epoch, invitation |-> room.invitation.id]
    BY <1>5 DEF BeginJoin
  <2> HIDE DEF member
  <2>4. task' \in JoinTasks
    BY <2>1, <2>2, <2>3 DEF JoinTasks
  <2> QED BY <1>5, <2>4 DEF BeginJoin
<1>6. CASE SavePending
  <2>1. task \in JoinTasks
    BY <1>6, TaskKinds DEF SavePending
  <2> QED BY <1>6, <2>1 DEF SavePending, JoinTasks
<1>7. CASE SaveCredential
  <2>1. task \in JoinTasks
    BY <1>7, TaskKinds DEF SaveCredential
  <2> QED BY <1>7, <2>1 DEF SaveCredential, JoinTasks
<1>8. ASSUME NEW l \in leases, NEW i \in Invitations, NEW target \in Ids \cup {None},
             BeginIssue(l, i, target)
      PROVE  HandlerType'
  <2>1. NewInvitation(i, target) \in InvitationRecords
    BY DEF NewInvitation, InvitationRecords
  <2>2. task' \in IssueTasks
    BY <1>8, <2>1 DEF BeginIssue, IssueTasks
  <2> QED BY <1>8, <2>2 DEF BeginIssue
<1> QED
  BY <1>1, <1>2, <1>3, <1>4, <1>5, <1>6, <1>7, <1>8 DEF Next, Joining, Playing, Hosting, vars,
     CommitJoin, Abandon, Expire, Leave, AskReturn, Return, Revoke, Close, CloseRoom,
     CancelCreation, RotateInvitation, RotateFails

LEMMA LedgerTypeStep ==
  ASSUME TypeOK, LeaseInv, [Next]_vars
  PROVE  LedgerType'
<1> USE DEF LedgerType, secrets, ledger
<1>0. LedgerType
  BY DEF TypeOK
<1>1. CASE UNCHANGED <<secrets, pending, ledger, asked>>
  BY <1>0, <1>1
<1>2. CASE SavePending
  <2>1. task \in JoinTasks
    BY <1>2, TaskKinds DEF SavePending
  <2> QED BY <1>0, <1>2, <2>1 DEF SavePending, JoinTasks
<1>3. CASE SaveCredential
  <2>1. task.join \in Joins
    BY <1>3, TaskKinds DEF SaveCredential, JoinTasks
  <2> QED BY <1>0, <1>3, <2>1 DEF SaveCredential, Credentials, Ids
<1>4. CASE CommitJoin
  <2>1. task \in JoinTasks
    BY <1>4, TaskKinds DEF CommitJoin
  <2> QED BY <1>0, <1>4, <2>1 DEF CommitJoin, JoinTasks
<1>5. ASSUME NEW l \in leases, NEW expected \in 1..room.epoch, Leave(l, expected)
      PROVE  LedgerType'
  <2>1. room.epoch + 1 \in 1..MaxEpoch /\ expected \in 1..MaxEpoch
    BY <1>5, RoomsAssumption DEF Leave, EpochLeft, TypeOK
  <2>2. l.member \in Ids
    BY DEF TypeOK, Leases
  <2>3. l.credential \in Joins
    BY <1>5, PlayerCredential DEF Leave
  <2> QED BY <1>0, <1>5, <2>1, <2>2, <2>3 DEF Leave
<1>6. ASSUME NEW r \in departures, NEW nonce \in 1..MaxIntents, AskReturn(r, nonce)
      PROVE  LedgerType'
  BY <1>0, <1>6 DEF AskReturn
<1>7. ASSUME NEW q \in asked, Return(q)
      PROVE  LedgerType'
  <2>1. receipts[q.join].member \in Ids
    BY <1>0, <1>7 DEF Return
  <2> QED BY <1>0, <1>7, <2>1 DEF Return
<1>8. ASSUME NEW l \in leases, NEW i \in Invitations, NEW target \in Ids \cup {None},
             BeginIssue(l, i, target)
      PROVE  LedgerType'
  BY <1>0, <1>8 DEF BeginIssue
<1>9. ASSUME NEW committed \in BOOLEAN, RotateFails(committed)
      PROVE  LedgerType'
  BY <1>0, <1>9 DEF RotateFails, SecretsAfterError
<1> QED
  BY <1>1, <1>2, <1>3, <1>4, <1>5, <1>6, <1>7, <1>8, <1>9 DEF Next, Joining, Playing, Hosting,
     vars, BeginJoin, Abandon, Expire, Authenticate, EndRequest, Revoke, Close, CloseRoom,
     CancelCreation, RotateInvitation

LEMMA TypeStep ==
  ASSUME TypeOK, LeaseInv, [Next]_vars
  PROVE  TypeOK'
<1>1. room' \in RoomRecords /\ Valid(room')
  BY RoomTypeStep
<1>2. LedgerType' /\ HandlerType'
  BY LedgerTypeStep, HandlerTypeStep
<1> QED BY <1>1, <1>2 DEF TypeOK, RoomRecords, LedgerType, HandlerType

-----------------------------------------------------------------------------
(* What the moves of one member do, in the terms of the invariants          *)

(* A leave, a return and a ban are moves of a player of the room.           *)
LEMMA LeaveMoves ==
  ASSUME TypeOK, NEW l \in leases, NEW expected \in 1..room.epoch, Leave(l, expected)
  PROVE  /\ l.member \in Ids /\ l.member # Host
         /\ room'.epoch = room.epoch + 1 /\ room'.active = room.active
         /\ room'.invitation = room.invitation
         /\ room'.members = [room.members EXCEPT ![l.member] =
              [Member(l.member) EXCEPT !.active = FALSE, !.left = TRUE, !.departure = room.epoch + 1]]
<1>1. l.member \in Ids
  BY DEF TypeOK, Leases
<1> QED BY <1>1, MovedMembers, MoveStep DEF Leave

LEMMA ReturnMoves ==
  ASSUME TypeOK, NEW q \in asked, Return(q), Member(receipts[q.join].member).left
  PROVE  LET m == receipts[q.join].member IN
         /\ m \in Ids /\ m # Host
         /\ room'.epoch = room.epoch + 1 /\ room'.active = room.active
         /\ room'.invitation = room.invitation
         /\ room'.members = [room.members EXCEPT ![m] =
              [Member(m) EXCEPT !.active = TRUE, !.left = FALSE]]
<1> DEFINE m == receipts[q.join].member
<1>1. m \in Ids
  BY DEF TypeOK, Return
<1>2. m # Host
  BY <1>1 DEF TypeOK, Valid, IsPlayer, Member
<1>3. EpochLeft /\ Write(Moved(room, m, [Member(m) EXCEPT !.active = TRUE, !.left = FALSE]))
  BY DEF Return
<1> QED BY <1>1, <1>2, <1>3, MovedMembers, MoveStep

LEMMA RevokeMoves ==
  ASSUME TypeOK, NEW l \in leases, NEW m \in Ids, Revoke(l, m)
  PROVE  /\ m # Host
         /\ room'.epoch = room.epoch + 1 /\ room'.active = room.active
         /\ room'.invitation = room.invitation
         /\ room'.members = [room.members EXCEPT ![m] = Banned(Member(m))]
  BY MovedMembers, MoveStep DEF Revoke

(* A join never takes the host's seat, and takes no seat of the same epoch   *)
(* from anybody.                                                            *)
LEMMA JoinSeat ==
  ASSUME TypeOK, LeaseInv, CommitJoin
  PROVE  /\ task \in JoinTasks /\ task.member # Host
         /\ room.invitation.target = None => ~IsMember(room, task.member)
<1>1. task \in JoinTasks
  BY TaskKinds DEF CommitJoin
<1>2. IsMember(room, Host)
  BY RoomsAssumption DEF LeaseInv, IsMember, Member, Ids
<1> QED BY <1>1, <1>2 DEF CommitJoin, Admissible, IsPlayer

LEMMA RoomUnmoved ==
  ASSUME TypeOK, Expire \/ RotateInvitation \/ (\E committed \in BOOLEAN : RotateFails(committed))
  PROVE  room'.epoch = room.epoch /\ room'.active = room.active /\ room'.members = room.members
  BY DEF TypeOK, Expire, RotateInvitation, RotateFails, Write

LEMMA CloseMoves ==
  ASSUME TypeOK, CloseRoom
  PROVE  /\ room'.epoch = room.epoch + 1 /\ ~room'.active
         /\ room'.members = room.members /\ room'.invitation = room.invitation
  BY DEF TypeOK, CloseRoom, Write

-----------------------------------------------------------------------------
(* The parts of the inductive invariant                                     *)

(* What the database names is in the vault.                                 *)
SecretInv ==
  /\ room.invitation.id \in invitationSecrets
  /\ \A m \in Ids : IsMember(room, m) => Member(m).credential \in credentialSecrets
  /\ \A j \in Joins : receipts[j] # NoReceipt =>
       /\ pending[j] = receipts[j].member /\ j \in credentialSecrets
       /\ receipts[j].invitation \in invitationSecrets

(* How far the handler inside the lock has come.                            *)
TaskInv ==
  /\ task.step \in {"pending", "credential", "commit"} => receipts[task.join] = NoReceipt
  /\ task.step \in {"credential", "commit"} => pending[task.join] = task.member
  /\ task.step = "commit" => task.join \in credentialSecrets
  /\ task.step = "rotate" =>
       /\ task.invitation.id \in invitationSecrets
       /\ task.invitation.id # room.invitation.id
       /\ \A j \in Joins : receipts[j].invitation # task.invitation.id

(* A spent invitation stays spent while it is current.                      *)
SpentInv ==
  /\ InvitationUsedOnce
  /\ \A j \in Joins :
       receipts[j].invitation = room.invitation.id => room.invitation.consumedBy # None

DepartureInv ==
  /\ LeavesAreCurrent /\ ReturnsAreAsked
  /\ \A r \in departures : receipts[r.join] # NoReceipt

(* Only members act.                                                        *)
SeatInv == \A m \in Ids : Member(m).active => IsMember(room, m)

RoomInv == SeatInv /\ LeaseInv /\ SecretInv /\ TaskInv /\ SpentInv /\ DepartureInv

LEMMA GrantedGrows ==
  ASSUME TypeOK, TaskInv, [Next]_vars
  PROVE  \A j \in Joins : receipts[j] # NoReceipt => receipts'[j] = receipts[j]
<1>1. CASE CommitJoin
  <2>1. task \in JoinTasks /\ receipts[task.join] = NoReceipt
    BY <1>1, TaskKinds DEF TaskInv, CommitJoin
  <2> QED BY <1>1, <2>1 DEF CommitJoin, TypeOK
<1>2. CASE UNCHANGED receipts
  BY <1>2
<1> QED
  BY <1>1, <1>2 DEF Next, Joining, Playing, Hosting, vars, ledger, BeginJoin, SavePending,
     SaveCredential, Abandon, Expire, Authenticate, EndRequest, Leave, AskReturn, Return,
     Revoke, Close, CloseRoom, CancelCreation, BeginIssue, RotateInvitation, RotateFails

(* Leases                                                                   *)
LEMMA LeaseStep ==
  ASSUME TypeOK, RoomInv, [Next]_vars
  PROVE  LeaseInv'
<1> USE DEF RoomInv
<1>g. \A c \in Granted : c \in Granted'
  BY GrantedGrows DEF Granted
<1>h. Host \in Ids /\ room.epoch \in 1..MaxEpoch /\ MaxEpoch \in Nat
      /\ room.members \in [Ids -> MemberRecords]
  BY RoomsAssumption DEF Ids, TypeOK
<1>l. \A l \in leases : l.member \in Ids /\ l.epoch \in Nat
  BY RoomsAssumption DEF TypeOK, Leases
<1>1. ASSUME room'.members = room.members, room'.epoch \in {room.epoch, room.epoch + 1},
             UNCHANGED leases
      PROVE  LeaseInv'
  BY <1>1, <1>g, <1>h, <1>l DEF LeaseInv, Member
<1>2. ASSUME NEW m \in Ids \ {Host}, room'.epoch = room.epoch + 1, NEW v,
             room'.members = [room.members EXCEPT ![m] = v], UNCHANGED leases
      PROVE  LeaseInv'
  BY <1>2, <1>g, <1>h, <1>l DEF LeaseInv, Member
<1>3. CASE CommitJoin
  <2>1. task \in JoinTasks /\ task.member # Host
        /\ (room.invitation.target = None => ~IsMember(room, task.member))
    BY <1>3, JoinSeat
  <2>2. task.member \in Ids
    BY <2>1 DEF JoinTasks
  <2> DEFINE seat == [room.members[task.member] EXCEPT !.credential = task.join, !.active = TRUE]
  <2>3. /\ room'.epoch = IF room.invitation.target # None THEN room.epoch + 1 ELSE room.epoch
        /\ room'.members = [room.members EXCEPT ![task.member] = seat]
    BY <1>3, AdmittedRecord DEF CommitJoin, Write
  <2>u. UNCHANGED leases
    BY <1>3 DEF CommitJoin
  <2> HIDE DEF seat
  <2>4. CASE room.invitation.target # None
    BY <2>1, <2>2, <2>3, <2>4, <2>u, <1>2
  <2>5. CASE room.invitation.target = None
    <3>1. \A l \in leases : l.epoch = room.epoch => l.member # task.member
      BY <2>1, <2>5, RoomsAssumption DEF LeaseInv, IsMember, Member, Granted, Ids
    <3>2. room'.epoch = room.epoch
      BY <2>3, <2>5
    <3> QED BY <2>1, <2>2, <2>3, <2>u, <3>1, <3>2, <1>g, <1>h, <1>l DEF LeaseInv, Member
  <2> QED BY <2>4, <2>5
<1>4. CASE Expire \/ RotateInvitation \/ (\E committed \in BOOLEAN : RotateFails(committed))
  <2>1. UNCHANGED leases
    BY <1>4 DEF Expire, RotateInvitation, RotateFails
  <2> QED BY <1>1, <1>4, <2>1, RoomUnmoved
<1>5. ASSUME NEW m \in Ids, NEW c \in Granted, NEW departing \in BOOLEAN, Authenticate(m, c, departing)
      PROVE  LeaseInv'
  BY <1>5, <1>g, <1>h DEF Authenticate, LeaseInv, Member
<1>6. ASSUME NEW l \in leases, EndRequest(l) PROVE LeaseInv'
  BY <1>6, <1>g DEF EndRequest, LeaseInv, Member
<1>7. ASSUME NEW l \in leases, NEW expected \in 1..room.epoch, Leave(l, expected) PROVE LeaseInv'
  <2>1. UNCHANGED leases
    BY <1>7 DEF Leave
  <2> QED BY <1>2, <1>7, <2>1, LeaveMoves
<1>8. ASSUME NEW q \in asked, Return(q) PROVE LeaseInv'
  <2>1. UNCHANGED leases
    BY <1>8 DEF Return
  <2>2. CASE Member(receipts[q.join].member).left
    BY <1>2, <1>8, <2>1, <2>2, ReturnMoves
  <2>3. CASE ~Member(receipts[q.join].member).left
    BY <1>1, <1>8, <2>1, <2>3 DEF Return
  <2> QED BY <2>2, <2>3
<1>9. ASSUME NEW l \in leases, NEW m \in Ids, Revoke(l, m) PROVE LeaseInv'
  <2>1. UNCHANGED leases
    BY <1>9 DEF Revoke
  <2> QED BY <1>2, <1>9, <2>1, RevokeMoves
<1>10. CASE CloseRoom
  <2>1. UNCHANGED leases
    BY <1>10 DEF CloseRoom
  <2> QED BY <1>1, <1>10, <2>1, CloseMoves
<1>11. CASE UNCHANGED <<room, leases>>
  BY <1>1, <1>11
<1> QED
  BY <1>3, <1>4, <1>5, <1>6, <1>7, <1>8, <1>9, <1>10, <1>11 DEF Next, Joining, Playing, Hosting,
     vars, BeginJoin, SavePending, SaveCredential, Abandon, AskReturn, Close, CancelCreation,
     BeginIssue

(* Seats                                                                    *)
LEMMA SeatStep ==
  ASSUME TypeOK, RoomInv, [Next]_vars
  PROVE  SeatInv'
<1> USE DEF RoomInv
<1>h. room.members \in [Ids -> MemberRecords] /\ \A j \in Joins : j # None
  BY RoomsAssumption DEF TypeOK, Ids
<1>1. ASSUME room'.members = room.members PROVE SeatInv'
  BY <1>1 DEF SeatInv, IsMember, Member
<1>2. ASSUME NEW m \in Ids, NEW v, v.active => v.credential # None,
             room'.members = [room.members EXCEPT ![m] = v]
      PROVE  SeatInv'
  BY <1>2, <1>h DEF SeatInv, IsMember, Member
<1>3. CASE CommitJoin
  <2>1. task \in JoinTasks /\ task.member \in Ids /\ task.join \in Joins
    BY <1>3, TaskKinds DEF CommitJoin, JoinTasks
  <2> DEFINE seat == [room.members[task.member] EXCEPT !.credential = task.join, !.active = TRUE]
  <2>2. room'.members = [room.members EXCEPT ![task.member] = seat]
    BY <1>3, AdmittedRecord DEF CommitJoin, Write
  <2>3. seat.credential = task.join
    BY <1>h, <2>1 DEF MemberRecords
  <2> HIDE DEF seat
  <2> QED BY <1>2, <1>h, <2>1, <2>2, <2>3
<1>4. ASSUME NEW l \in leases, NEW expected \in 1..room.epoch, Leave(l, expected) PROVE SeatInv'
  <2> DEFINE v == [Member(l.member) EXCEPT !.active = FALSE, !.left = TRUE, !.departure = room.epoch + 1]
  <2>1. l.member \in Ids /\ room'.members = [room.members EXCEPT ![l.member] = v]
    BY <1>4, LeaveMoves
  <2>2. ~v.active
    BY <1>h, <2>1 DEF Member, MemberRecords
  <2> HIDE DEF v
  <2> QED BY <1>2, <2>1, <2>2
<1>5. ASSUME NEW q \in asked, Return(q) PROVE SeatInv'
  <2> DEFINE m == receipts[q.join].member
  <2> DEFINE v == [Member(m) EXCEPT !.active = TRUE, !.left = FALSE]
  <2>1. CASE Member(m).left
    <3>1. m \in Ids /\ room'.members = [room.members EXCEPT ![m] = v]
      BY <1>5, <2>1, ReturnMoves
    <3>2. v.credential = q.join
      BY <1>5, <1>h, <3>1 DEF Return, Member, MemberRecords
    <3>3. q.join \in Joins
      BY DEF TypeOK
    <3> HIDE DEF m, v
    <3> QED BY <1>2, <1>h, <3>1, <3>2, <3>3
  <2>2. CASE ~Member(m).left
    BY <1>1, <1>5, <2>2 DEF Return
  <2> QED BY <2>1, <2>2
<1>6. ASSUME NEW l \in leases, NEW m \in Ids, Revoke(l, m) PROVE SeatInv'
  <2>1. ~Banned(Member(m)).active
    BY <1>h DEF Banned, Member, MemberRecords
  <2> QED BY <1>2, <1>6, <2>1, RevokeMoves
<1>7. CASE CloseRoom
  BY <1>1, <1>7, CloseMoves
<1>8. CASE Expire \/ RotateInvitation \/ (\E committed \in BOOLEAN : RotateFails(committed))
  BY <1>1, <1>8, RoomUnmoved
<1>9. CASE UNCHANGED room
  BY <1>1, <1>9
<1> QED
  BY <1>3, <1>4, <1>5, <1>6, <1>7, <1>8, <1>9 DEF Next, Joining, Playing, Hosting, vars,
     BeginJoin, SavePending, SaveCredential, Abandon, Authenticate, EndRequest, AskReturn, Close,
     CancelCreation, BeginIssue

(* The vault                                                                *)
LEMMA SecretStep ==
  ASSUME TypeOK, RoomInv, [Next]_vars
  PROVE  SecretInv'
<1> USE DEF RoomInv
<1>h. /\ room.members \in [Ids -> MemberRecords]
      /\ pending \in [Joins -> Ids \cup {None}]
      /\ \A j \in Joins : j # None /\ j \in Ids
  BY RoomsAssumption DEF TypeOK, Ids
<1>1. ASSUME room'.members = room.members, room'.invitation.id = room.invitation.id,
             UNCHANGED <<secrets, pending, receipts>>
      PROVE  SecretInv'
  BY <1>1 DEF SecretInv, IsMember, Member, secrets
<1>2. ASSUME NEW m \in Ids, NEW v, v.credential = Member(m).credential,
             room'.members = [room.members EXCEPT ![m] = v],
             room'.invitation = room.invitation, UNCHANGED <<secrets, pending, receipts>>
      PROVE  SecretInv'
  <2>1. \A n \in Ids : Member(n)'.credential = Member(n).credential
    BY <1>2, <1>h DEF Member
  <2> QED BY <1>2, <2>1 DEF SecretInv, IsMember, Member, secrets
<1>3. CASE SavePending
  <2>1. task \in JoinTasks /\ receipts[task.join] = NoReceipt
    BY <1>3, TaskKinds DEF SavePending, TaskInv
  <2>2. \A j \in Joins : receipts[j] # NoReceipt => pending'[j] = pending[j]
    BY <1>3, <1>h, <2>1 DEF SavePending
  <2> QED BY <1>3, <2>2 DEF SavePending, SecretInv, IsMember, Member, secrets, ledger
<1>4. CASE SaveCredential
  BY <1>4 DEF SaveCredential, SecretInv, IsMember, Member, secrets, ledger
<1>5. CASE CommitJoin
  <2>1. task \in JoinTasks /\ task.member \in Ids /\ task.join \in Joins
    BY <1>5, TaskKinds DEF CommitJoin, JoinTasks
  <2> DEFINE seat == [room.members[task.member] EXCEPT !.credential = task.join, !.active = TRUE]
  <2>2. /\ room'.members = [room.members EXCEPT ![task.member] = seat]
        /\ room'.invitation.id = room.invitation.id
    BY <1>5, AdmittedRecord DEF CommitJoin, Write, TypeOK, InvitationRecords
  <2>3. seat.credential = task.join
    BY <1>h, <2>1 DEF MemberRecords
  <2>4. task.join \in credentialSecrets /\ pending[task.join] = task.member
    BY <1>5 DEF TaskInv, CommitJoin
  <2>5. task.invitation = room.invitation.id
    BY <1>5 DEF CommitJoin, Admissible
  <2>6. /\ UNCHANGED <<secrets, pending>>
        /\ receipts' = [receipts EXCEPT ![task.join] =
                          [member |-> task.member, invitation |-> task.invitation]]
    BY <1>5 DEF CommitJoin
  <2> HIDE DEF seat
  <2>7. \A m \in Ids : IsMember(room, m)' => Member(m)'.credential \in credentialSecrets
    BY <1>h, <2>1, <2>2, <2>3, <2>4 DEF SecretInv, IsMember, Member
  <2>8. \A j \in Joins : receipts'[j] # NoReceipt =>
           /\ pending[j] = receipts'[j].member /\ j \in credentialSecrets
           /\ receipts'[j].invitation \in invitationSecrets
    BY <2>1, <2>4, <2>5, <2>6 DEF SecretInv, TypeOK
  <2> QED BY <2>2, <2>6, <2>7, <2>8 DEF SecretInv, secrets
<1>6. CASE Expire
  <2>1. room'.invitation.id = room.invitation.id
    BY <1>6 DEF Expire, TypeOK, InvitationRecords
  <2> QED BY <1>1, <1>6, <2>1, RoomUnmoved DEF Expire, ledger
<1>7. ASSUME NEW l \in leases, NEW expected \in 1..room.epoch, Leave(l, expected) PROVE SecretInv'
  <2> DEFINE v == [Member(l.member) EXCEPT !.active = FALSE, !.left = TRUE, !.departure = room.epoch + 1]
  <2>1. /\ l.member \in Ids /\ room'.members = [room.members EXCEPT ![l.member] = v]
        /\ room'.invitation = room.invitation
    BY <1>7, LeaveMoves
  <2>2. v.credential = Member(l.member).credential
    BY <1>h, <2>1 DEF Member, MemberRecords
  <2> HIDE DEF v
  <2> QED BY <1>2, <1>7, <2>1, <2>2 DEF Leave
<1>8. ASSUME NEW q \in asked, Return(q) PROVE SecretInv'
  <2> DEFINE m == receipts[q.join].member
  <2> DEFINE v == [Member(m) EXCEPT !.active = TRUE, !.left = FALSE]
  <2>1. CASE Member(m).left
    <3>1. /\ m \in Ids /\ room'.members = [room.members EXCEPT ![m] = v]
          /\ room'.invitation = room.invitation
      BY <1>8, <2>1, ReturnMoves
    <3>2. v.credential = Member(m).credential
      BY <1>h, <3>1 DEF Member, MemberRecords
    <3> HIDE DEF m, v
    <3> QED BY <1>2, <1>8, <3>1, <3>2 DEF Return
  <2>2. CASE ~Member(m).left
    BY <1>1, <1>8, <2>2 DEF Return
  <2> QED BY <2>1, <2>2
<1>9. ASSUME NEW l \in leases, NEW m \in Ids, Revoke(l, m) PROVE SecretInv'
  <2>1. Banned(Member(m)).credential = Member(m).credential
    BY <1>h DEF Banned, Member, MemberRecords
  <2> QED BY <1>2, <1>9, <2>1, RevokeMoves DEF Revoke, ledger
<1>10. CASE CloseRoom
  BY <1>1, <1>10, CloseMoves DEF CloseRoom, ledger
<1>11. ASSUME NEW l \in leases, NEW i \in Invitations, NEW target \in Ids \cup {None},
             BeginIssue(l, i, target)
      PROVE  SecretInv'
  BY <1>11 DEF BeginIssue, SecretInv, IsMember, Member, ledger
<1>12. ASSUME task.step = "rotate", Write([room EXCEPT !.invitation = task.invitation]),
              UNCHANGED <<secrets, pending, receipts>>
       PROVE  SecretInv'
  BY <1>12 DEF Write, SecretInv, TaskInv, IsMember, Member, secrets, TypeOK
<1>13. ASSUME NEW committed \in BOOLEAN, RotateFails(committed) PROVE SecretInv'
  <2>1. task.step = "rotate" /\ UNCHANGED <<pending, receipts, credentialSecrets>>
    BY <1>13 DEF RotateFails, ledger
  <2>2. CASE committed
    <3>1. room' = [room EXCEPT !.invitation = task.invitation]
      BY <1>13, <2>2 DEF RotateFails, Write
    <3>2. UNCHANGED invitationSecrets
      BY <1>13, <3>1 DEF RotateFails, SecretsAfterError, TypeOK
    <3> QED BY <1>12, <1>13, <2>1, <2>2, <3>2 DEF RotateFails, secrets
  <2>3. CASE ~committed
    <3>1. UNCHANGED room
      BY <1>13, <2>3 DEF RotateFails
    <3>2. invitationSecrets' = invitationSecrets \ {task.invitation.id}
      BY <1>13, <2>1, <3>1 DEF RotateFails, SecretsAfterError, TaskInv
    <3>3. \A j \in Joins : receipts[j].invitation # task.invitation.id
      BY <2>1 DEF TaskInv
    <3> QED BY <2>1, <3>1, <3>2, <3>3 DEF SecretInv, TaskInv, IsMember, Member
  <2> QED BY <2>2, <2>3
<1>14. CASE UNCHANGED <<room, secrets, pending, receipts>>
  BY <1>1, <1>14
<1> QED
  BY <1>3, <1>4, <1>5, <1>6, <1>7, <1>8, <1>9, <1>10, <1>11, <1>12, <1>13, <1>14 DEF Next, Joining,
     Playing, Hosting, vars, ledger, BeginJoin, Abandon, Authenticate, EndRequest, AskReturn,
     Close, CancelCreation, RotateInvitation

(* The handler inside the lock                                              *)
LEMMA TaskStep ==
  ASSUME TypeOK, RoomInv, [Next]_vars
  PROVE  TaskInv'
<1> USE DEF RoomInv
<1>1. ASSUME task' = Idle PROVE TaskInv'
  BY <1>1 DEF TaskInv, Idle
<1>2. ASSUME NEW j \in Joins, BeginJoin(j) PROVE TaskInv'
  BY <1>2 DEF BeginJoin, TaskInv, ledger
<1>3. CASE SavePending
  <2>1. task \in JoinTasks
    BY <1>3, TaskKinds DEF SavePending
  <2>2. pending'[task.join] = task.member
    BY <1>3, <2>1 DEF SavePending, TypeOK, JoinTasks
  <2>3. task'.step = "credential" /\ task'.join = task.join /\ task'.member = task.member
    BY <1>3, <2>1 DEF SavePending, JoinTasks
  <2> QED BY <1>3, <2>2, <2>3 DEF SavePending, TaskInv, ledger
<1>4. CASE SaveCredential
  <2>1. task \in JoinTasks
    BY <1>4, TaskKinds DEF SaveCredential
  <2>2. task'.step = "commit" /\ task'.join = task.join /\ task'.member = task.member
    BY <1>4, <2>1 DEF SaveCredential, JoinTasks
  <2> QED BY <1>4, <2>2 DEF SaveCredential, TaskInv, ledger
<1>5. ASSUME NEW l \in leases, NEW i \in Invitations, NEW target \in Ids \cup {None},
             BeginIssue(l, i, target)
      PROVE  TaskInv'
  <2>1. task'.step = "rotate" /\ task'.invitation.id = i
    BY <1>5 DEF BeginIssue, NewInvitation
  <2>2. i \notin invitationSecrets /\ i \in invitationSecrets' /\ UNCHANGED <<room, receipts>>
    BY <1>5 DEF BeginIssue, ledger
  <2>3. i # room.invitation.id
    BY <2>2 DEF SecretInv
  <2>4. \A j \in Joins : receipts[j].invitation # i
    BY <2>2, RoomsAssumption DEF SecretInv, NoReceipt
  <2> QED BY <2>1, <2>2, <2>3, <2>4 DEF TaskInv
<1>6. CASE Expire
  <2>1. room'.invitation.id = room.invitation.id
    BY <1>6 DEF Expire, TypeOK, InvitationRecords
  <2> QED BY <1>6, <2>1 DEF Expire, TaskInv, ledger, secrets
<1>7. ASSUME task = Idle, UNCHANGED task PROVE TaskInv'
  BY <1>1, <1>7
<1>8. CASE UNCHANGED <<task, room, secrets, pending, receipts>>
  BY <1>8 DEF TaskInv, secrets
<1> QED
  BY <1>1, <1>2, <1>3, <1>4, <1>5, <1>6, <1>7, <1>8 DEF Next, Joining, Playing, Hosting, vars,
     ledger, CommitJoin, Abandon, Authenticate, EndRequest, Leave, AskReturn, Return, Revoke,
     Close, CloseRoom, CancelCreation, RotateInvitation, RotateFails

(* Invitations                                                              *)
LEMMA SpentStep ==
  ASSUME TypeOK, RoomInv, [Next]_vars
  PROVE  SpentInv'
<1> USE DEF RoomInv
<1>1. ASSUME room'.invitation.id = room.invitation.id,
             room'.invitation.consumedBy = room.invitation.consumedBy, UNCHANGED receipts
      PROVE  SpentInv'
  BY <1>1 DEF SpentInv, InvitationUsedOnce
<1>2. CASE CommitJoin
  <2>1. task \in JoinTasks /\ task.join \in Joins
    BY <1>2, TaskKinds DEF CommitJoin, JoinTasks
  <2>2. room'.invitation = [room.invitation EXCEPT !.consumedBy = task.join]
    BY <1>2, AdmittedRecord DEF CommitJoin, Write
  <2>3. /\ room'.invitation.id = room.invitation.id
        /\ room'.invitation.consumedBy = task.join /\ task.join # None
    BY <2>1, <2>2, RoomsAssumption DEF TypeOK, InvitationRecords, Ids
  <2>4. task.invitation = room.invitation.id /\ room.invitation.consumedBy = None
    BY <1>2 DEF CommitJoin, Admissible, Usable
  <2>5. \A j \in Joins : receipts[j].invitation # room.invitation.id
    BY <2>4 DEF SpentInv
  <2>6. receipts' = [receipts EXCEPT ![task.join] =
                       [member |-> task.member, invitation |-> task.invitation]]
    BY <1>2 DEF CommitJoin
  <2>7. \A j \in Joins : receipts'[j] = IF j = task.join
           THEN [member |-> task.member, invitation |-> task.invitation] ELSE receipts[j]
    BY <2>6 DEF TypeOK
  <2> QED BY <2>1, <2>3, <2>4, <2>5, <2>7 DEF SpentInv, InvitationUsedOnce
<1>3. CASE Expire
  <2>1. room'.invitation.id = room.invitation.id
        /\ room'.invitation.consumedBy = room.invitation.consumedBy
    BY <1>3 DEF Expire, TypeOK, InvitationRecords
  <2> QED BY <1>1, <1>3, <2>1 DEF Expire, ledger
<1>4. ASSUME task.step = "rotate", room' = [room EXCEPT !.invitation = task.invitation],
             UNCHANGED receipts
      PROVE  SpentInv'
  <2>1. room'.invitation.id = task.invitation.id
    BY <1>4 DEF TypeOK
  <2> QED BY <1>4, <2>1 DEF SpentInv, InvitationUsedOnce, TaskInv
<1>5. CASE RotateInvitation
  BY <1>4, <1>5 DEF RotateInvitation, Write, ledger
<1>6. ASSUME NEW committed \in BOOLEAN, RotateFails(committed) PROVE SpentInv'
  BY <1>1, <1>4, <1>6 DEF RotateFails, Write, ledger
<1>7. ASSUME NEW l \in leases, NEW expected \in 1..room.epoch, Leave(l, expected) PROVE SpentInv'
  BY <1>1, <1>7, LeaveMoves DEF Leave
<1>8. ASSUME NEW q \in asked, Return(q) PROVE SpentInv'
  BY <1>1, <1>8, ReturnMoves DEF Return
<1>9. ASSUME NEW l \in leases, NEW m \in Ids, Revoke(l, m) PROVE SpentInv'
  BY <1>1, <1>9, RevokeMoves DEF Revoke, ledger
<1>10. CASE CloseRoom
  BY <1>1, <1>10, CloseMoves DEF CloseRoom, ledger
<1>11. CASE UNCHANGED <<room, receipts>>
  BY <1>1, <1>11
<1> QED
  BY <1>2, <1>3, <1>5, <1>6, <1>7, <1>8, <1>9, <1>10, <1>11 DEF Next, Joining, Playing, Hosting,
     vars, ledger, BeginJoin, SavePending, SaveCredential, Abandon, Authenticate, EndRequest,
     AskReturn, Close, CancelCreation, BeginIssue

(* Departures                                                               *)
LEMMA DepartureStep ==
  ASSUME TypeOK, RoomInv, [Next]_vars
  PROVE  DepartureInv'
<1> USE DEF RoomInv
<1>h. /\ room.members \in [Ids -> MemberRecords]
      /\ \A r \in departures : r.member \in Ids /\ r.join \in Joins
  BY DEF TypeOK
<1>g. \A r \in departures : receipts'[r.join] # NoReceipt
  BY <1>h, GrantedGrows DEF DepartureInv
<1>1. ASSUME room'.members = room.members, UNCHANGED <<departures, asked>>
      PROVE  DepartureInv'
  BY <1>1, <1>g DEF DepartureInv, LeavesAreCurrent, ReturnsAreAsked, Member
<1>2. ASSUME NEW m \in Ids, NEW v \in MemberRecords, ~v.active,
             room'.members = [room.members EXCEPT ![m] = v], UNCHANGED <<departures, asked>>
      PROVE  DepartureInv'
  BY <1>2, <1>g, <1>h DEF DepartureInv, LeavesAreCurrent, ReturnsAreAsked, Member
<1>3. CASE CommitJoin
  <2>1. task \in JoinTasks /\ task.member \in Ids /\ task.join \in Joins
    BY <1>3, TaskKinds DEF CommitJoin, JoinTasks
  <2> DEFINE seat == [room.members[task.member] EXCEPT !.credential = task.join, !.active = TRUE]
  <2>2. room'.members = [room.members EXCEPT ![task.member] = seat]
    BY <1>3, AdmittedRecord DEF CommitJoin, Write
  <2>3. seat.credential = task.join
    BY <1>h, <2>1 DEF MemberRecords
  <2>4. \A r \in departures : r.join # task.join
    BY <1>3 DEF CommitJoin, TaskInv, DepartureInv
  <2>5. UNCHANGED <<departures, asked>>
    BY <1>3 DEF CommitJoin
  <2> HIDE DEF seat
  <2> QED BY <1>g, <1>h, <2>1, <2>2, <2>3, <2>4, <2>5
          DEF DepartureInv, LeavesAreCurrent, ReturnsAreAsked, Member
<1>4. ASSUME NEW l \in leases, NEW expected \in 1..room.epoch, Leave(l, expected)
      PROVE  DepartureInv'
  <2> DEFINE v == [Member(l.member) EXCEPT !.active = FALSE, !.left = TRUE, !.departure = room.epoch + 1]
  <2> DEFINE receipt == [member |-> l.member, join |-> l.credential, expected |-> expected,
                         epoch |-> room.epoch + 1]
  <2>1. l.member \in Ids /\ room'.members = [room.members EXCEPT ![l.member] = v]
    BY <1>4, LeaveMoves
  <2>2. ~v.active
    BY <1>h, <2>1 DEF Member, MemberRecords
  <2>3. departures' = departures \cup {receipt} /\ UNCHANGED <<asked, receipts>>
    BY <1>4 DEF Leave
  <2>4. receipt.epoch = receipt.expected + 1 /\ receipt.member = l.member
    BY <1>4 DEF Leave, Departs
  <2>5. receipts[receipt.join] # NoReceipt
    BY <1>4, PlayerCredential DEF Leave
  <2> HIDE DEF v, receipt
  <2> QED BY <1>h, <2>1, <2>2, <2>3, <2>4, <2>5
          DEF DepartureInv, LeavesAreCurrent, ReturnsAreAsked, Member
<1>5. ASSUME NEW q \in asked, Return(q) PROVE DepartureInv'
  <2> DEFINE m == receipts[q.join].member
  <2> DEFINE v == [Member(m) EXCEPT !.active = TRUE, !.left = FALSE]
  <2>u. UNCHANGED <<departures, asked>>
    BY <1>5 DEF Return
  <2>1. CASE Member(m).left
    <3>1. m \in Ids /\ room'.members = [room.members EXCEPT ![m] = v]
      BY <1>5, <2>1, ReturnMoves
    <3>2. v.credential = q.join /\ v.departure = q.departure
      BY <1>5, <1>h, <3>1 DEF Return, Undoes, Member, MemberRecords
    <3> HIDE DEF m, v
    <3> QED BY <1>g, <1>h, <2>u, <3>1, <3>2
            DEF DepartureInv, LeavesAreCurrent, ReturnsAreAsked, Member
  <2>2. CASE ~Member(m).left
    BY <1>1, <1>5, <2>2, <2>u DEF Return
  <2> QED BY <2>1, <2>2
<1>6. ASSUME NEW l \in leases, NEW m \in Ids, Revoke(l, m) PROVE DepartureInv'
  <2>1. Banned(Member(m)) \in MemberRecords /\ ~Banned(Member(m)).active
    BY <1>h DEF Banned, Member, MemberRecords
  <2> QED BY <1>2, <1>6, <2>1, RevokeMoves DEF Revoke, ledger
<1>7. CASE CloseRoom
  BY <1>1, <1>7, CloseMoves DEF CloseRoom, ledger
<1>8. CASE Expire \/ RotateInvitation \/ (\E committed \in BOOLEAN : RotateFails(committed))
  <2>1. UNCHANGED <<departures, asked>>
    BY <1>8 DEF Expire, RotateInvitation, RotateFails, ledger
  <2> QED BY <1>1, <1>8, <2>1, RoomUnmoved
<1>9. ASSUME NEW r \in departures, NEW nonce \in 1..MaxIntents, AskReturn(r, nonce)
      PROVE  DepartureInv'
  <2>1. asked \subseteq asked' /\ UNCHANGED <<room, departures>>
    BY <1>9 DEF AskReturn, ledger
  <2> QED BY <1>g, <2>1 DEF DepartureInv, LeavesAreCurrent, ReturnsAreAsked, Member
<1>10. CASE UNCHANGED <<room, departures, asked>>
  BY <1>1, <1>10
<1> QED
  BY <1>3, <1>4, <1>5, <1>6, <1>7, <1>8, <1>9, <1>10 DEF Next, Joining, Playing, Hosting, vars,
     ledger, BeginJoin, SavePending, SaveCredential, Abandon, Authenticate, EndRequest, Close,
     CancelCreation, BeginIssue

-----------------------------------------------------------------------------
(* Theorems                                                                 *)

LEMMA InitRoom == Init => TypeOK /\ RoomInv
<1> SUFFICES ASSUME Init PROVE TypeOK /\ RoomInv
  OBVIOUS
<1> DEFINE seat(m) == [credential |-> IF m \in Joins THEN None ELSE m,
                       active |-> m = Host, left |-> FALSE, departure |-> 0]
<1>1. PICK i \in Invitations :
        /\ room = [epoch |-> 1, active |-> TRUE, invitation |-> NewInvitation(i, None),
                   members |-> [m \in Ids |-> seat(m)]]
        /\ invitationSecrets = {i}
  BY DEF Init
<1>2. \A m \in Ids : seat(m) \in MemberRecords
  BY RoomsAssumption DEF MemberRecords, Credentials, Ids
<1>3. room \in RoomRecords
  <2>1. NewInvitation(i, None) \in InvitationRecords
    BY DEF NewInvitation, InvitationRecords
  <2>2. 1 \in 1..MaxEpoch
    BY RoomsAssumption
  <2> HIDE DEF seat
  <2> QED BY <1>1, <1>2, <2>1, <2>2 DEF RoomRecords
<1>4. \A m \in Ids : room.members[m] = seat(m)
  BY <1>1
<1>5. Host \in Ids /\ Host \notin Joins /\ None \notin Ids
  BY RoomsAssumption DEF Ids
<1>f. ASSUME NEW m \in Ids
      PROVE  /\ room.members[m].credential = IF m \in Joins THEN None ELSE m
             /\ room.members[m].active <=> m = Host
             /\ ~room.members[m].left
  <2>1. room.members[m] = seat(m)
    BY <1>4
  <2>2. seat(m).credential = IF m \in Joins THEN None ELSE m
    OBVIOUS
  <2>3. seat(m).active = (m = Host)
    BY Zenon
  <2>4. seat(m).left = FALSE
    OBVIOUS
  <2> HIDE DEF seat
  <2> QED BY <2>1, <2>2, <2>3, <2>4
<1> HIDE DEF seat
<1>6. Valid(room)
  <2>1. Party(room) = {Host} \cup Saved
    <3>1. \A m \in Ids : IsMember(room, m) <=> m \notin Joins
      BY <1>f, <1>5 DEF IsMember
    <3>2. \A m : m \in Ids /\ m \notin Joins <=> m \in {Host} \cup Saved
      BY RoomsAssumption DEF Ids
    <3> QED BY <3>1, <3>2 DEF Party
  <2>2. room.invitation.target = None
    BY <1>1 DEF NewInvitation
  <2>3. Cardinality(Party(room)) <= MaxPartyMembers
    BY <2>1, RoomsAssumption
  <2>4. \A m \in Party(room) : m \in Ids /\ room.members[m].credential = m
    BY <1>f, <1>5, <2>1, RoomsAssumption DEF Ids
  <2>5. room.members[Host].active
    BY <1>f, <1>5
  <2> QED BY <1>f, <2>2, <2>3, <2>4, <2>5 DEF Valid
<1>7. TypeOK
  BY <1>1, <1>3, <1>6 DEF Init, TypeOK, RoomRecords, Idle, Credentials, Ids
<1>8. \A j \in Joins : receipts[j] = NoReceipt
  BY DEF Init
<1>9. RoomInv
  <2>1. LeaseInv
    BY <1>f, <1>5 DEF Init, LeaseInv, Member
  <2>2. SecretInv
    BY <1>1, <1>f, <1>5, <1>8 DEF Init, SecretInv, NewInvitation, IsMember, Member, Ids
  <2>3. TaskInv
    BY DEF Init, TaskInv, Idle
  <2>4. SpentInv
    BY <1>1, <1>8, RoomsAssumption DEF SpentInv, InvitationUsedOnce, NoReceipt, NewInvitation
  <2>5. DepartureInv
    BY DEF Init, DepartureInv, LeavesAreCurrent, ReturnsAreAsked
  <2>6. SeatInv
    BY <1>f, <1>5 DEF SeatInv, IsMember, Member
  <2> QED BY <2>1, <2>2, <2>3, <2>4, <2>5, <2>6 DEF RoomInv
<1> QED BY <1>7, <1>9

LEMMA RoomStep ==
  ASSUME TypeOK, RoomInv, [Next]_vars
  PROVE  TypeOK' /\ RoomInv'
<1>1. TypeOK'
  BY TypeStep DEF RoomInv
<1> QED BY <1>1, SeatStep, LeaseStep, SecretStep, TaskStep, SpentStep, DepartureStep DEF RoomInv

(* The inductive invariant of the room: leases, vault, receipts and record   *)
(* agree in every reachable state, wherever handlers were cut short.        *)
THEOREM RoomCorrect == Spec => [](TypeOK /\ RoomInv)
  BY InitRoom, RoomStep, PTL DEF Spec

(* Every variable keeps its type, and the stored record stays one that       *)
(* RoomRecord::valid accepts.                                               *)
THEOREM RoomTypeCorrect == Spec => []TypeOK
  BY RoomCorrect, PTL

(* The authority of leases: verify_lease compares epochs only, and that is   *)
(* enough.                                                                  *)
THEOREM LeasesAreCurrent == Spec => []LeaseAuthority
<1>1. TypeOK /\ RoomInv => LeaseAuthority
  BY DEF RoomInv, LeaseInv, LeaseAuthority, Verifies
<1> QED BY <1>1, RoomCorrect, PTL

(* What the database names can always be handed out again.                  *)
THEOREM SecretsAreKept == Spec => []SecretsBackRoom
<1>1. TypeOK /\ RoomInv => SecretsBackRoom
  BY DEF RoomInv, SecretInv, SecretsBackRoom, Party
<1> QED BY <1>1, RoomCorrect, PTL

(* An invitation lets one in, whatever is retried.                          *)
THEOREM InvitationsAreSpentOnce == Spec => []InvitationUsedOnce
<1>1. RoomInv => InvitationUsedOnce
  BY DEF RoomInv, SpentInv
<1> QED BY <1>1, RoomCorrect, PTL

(* Keys are neither lost nor copied.                                        *)
THEOREM KeysAreKept == Spec => []KeysHold
<1>1. SecretsBackRoom /\ InvitationUsedOnce => KeysHold
  BY DEF KeysHold
<1> QED BY <1>1, SecretsAreKept, InvitationsAreSpentOnce, PTL

(* No late leave removes anybody, no earlier return undoes a later exit.    *)
THEOREM DeparturesAreMeant == Spec => []DeparturesAsMeant
<1>1. RoomInv => DeparturesAsMeant
  BY DEF RoomInv, DepartureInv, DeparturesAsMeant
<1> QED BY <1>1, RoomCorrect, PTL

-----------------------------------------------------------------------------
(* The room implements Membership                                           *)

(* What Membership sees of a member's record v.                             *)
StandingOf(v) == IF v.credential = None THEN "unknown"
                 ELSE IF v.active THEN "in" ELSE IF v.left THEN "left" ELSE "absent"

(* A move of one member is a move of Membership.                            *)
LEMMA MapsMove ==
  ASSUME TypeOK, NEW m \in Ids, m # Host, NEW v, room.active,
         room'.epoch = room.epoch + 1, room'.active = room.active,
         room'.members = [room.members EXCEPT ![m] = v], UNCHANGED receipts,
         v.credential = Member(m).credential,
         NEW from, StandingOf(Member(m)) \in from
  PROVE  Abstract!Move(m, from, StandingOf(v))
<1>h. room.members \in [Ids -> MemberRecords]
  BY DEF TypeOK
<1>1. \A n \in Ids : Member(n)' = IF n = m THEN v ELSE Member(n)
  BY <1>h DEF Member
<1>2. Member(m)' = v /\ \A n \in Ids \ {m} : Member(n)' = Member(n)
  BY <1>1
<1> QED BY <1>2 DEF Abstract!Move, StandingOf, Member, IsMember, Granted

(* A join that commits seats its member: as a newcomer, or in the seat of a  *)
(* player whom the invitation names and who did not leave.                  *)
LEMMA MapsSeat ==
  ASSUME TypeOK, RoomInv, TypeOK', CommitJoin
  PROVE  /\ task.join \in (Granted' \cup Saved) \ (Granted \cup Saved)
         /\ \/ Abstract!Enter(task.member, task.join)
            \/ Abstract!Replace(task.member, task.join)
<1>h. /\ room.members \in [Ids -> MemberRecords]
      /\ receipts \in [Joins -> [member : Ids, invitation : Invitations] \cup {NoReceipt}]
  BY DEF TypeOK
<1>1. task \in JoinTasks /\ task.member # Host /\ task.member \in Ids /\ task.join \in Joins
  BY JoinSeat DEF JoinTasks, RoomInv
<1> DEFINE seat == [room.members[task.member] EXCEPT !.credential = task.join, !.active = TRUE]
<1>2. /\ room'.members = [room.members EXCEPT ![task.member] = seat]
      /\ room'.active = room.active
      /\ room'.epoch = IF room.invitation.target # None THEN room.epoch + 1 ELSE room.epoch
  BY AdmittedRecord DEF CommitJoin, Write
<1>3. seat.credential = task.join /\ seat.active /\ seat.left = Member(task.member).left
  BY <1>h, <1>1 DEF MemberRecords, Member
<1> HIDE DEF seat
<1>4. /\ \A n \in Ids \ {task.member} : Member(n)' = Member(n)
      /\ room'.members[task.member] = seat
  BY <1>h, <1>1, <1>2 DEF Member
<1>5. ~Member(task.member).left
  <2>1. Valid(room')
    BY DEF TypeOK
  <2> QED BY <1>1, <1>3, <1>4, <2>1 DEF Valid, Member
<1>6. task.join \notin Granted \cup Saved /\ task.join # None
  <2>1. receipts[task.join] = NoReceipt
    BY DEF RoomInv, TaskInv, CommitJoin
  <2>2. task.join # Host /\ task.join \notin Saved /\ task.join # None
    BY <1>1, RoomsAssumption DEF Ids
  <2> QED BY <2>1, <2>2 DEF Granted
<1>7. Granted' = Granted \cup {task.join}
  <2>1. receipts' = [receipts EXCEPT ![task.join] =
                       [member |-> task.member, invitation |-> task.invitation]]
    BY DEF CommitJoin
  <2>2. [member |-> task.member, invitation |-> task.invitation] # NoReceipt
    BY <1>1, RoomsAssumption DEF NoReceipt
  <2> QED BY <1>h, <1>1, <2>1, <2>2 DEF Granted
<1>8. Abstract!Seat(task.member, task.join)
  <2>1. room.active
    BY DEF CommitJoin, Admissible
  <2>2. /\ room'.members[task.member].credential = task.join
        /\ room'.members[task.member].active
        /\ IsMember(room', task.member)
    BY <1>3, <1>4, <1>6 DEF IsMember
  <2>3. \A n \in Ids \ {task.member} : IsMember(room, n)' = IsMember(room, n)
    BY <1>4 DEF IsMember, Member
  <2> QED BY <1>1, <1>2, <1>4, <1>6, <1>7, <2>1, <2>2, <2>3 DEF Abstract!Seat, Member
<1>9. task.join \in (Granted' \cup Saved) \ (Granted \cup Saved)
  BY <1>6, <1>7
<1>10. CASE room.invitation.target # None
  <2>1. IsMember(room, task.member)
    BY <1>10 DEF CommitJoin, Admissible, IsPlayer
  <2> QED BY <1>1, <1>2, <1>5, <1>8, <1>9, <1>10, <2>1 DEF Abstract!Replace
<1>11. CASE room.invitation.target = None
  <2>1. ~IsMember(room, task.member)
    BY <1>11 DEF CommitJoin, Admissible
  <2> QED BY <1>1, <1>2, <1>8, <1>9, <1>11, <2>1 DEF Abstract!Enter
<1> QED BY <1>10, <1>11

(* The room starts as Membership does.                                      *)
LEMMA InitMaps == Init => Abstract!Init
<1> SUFFICES ASSUME Init PROVE Abstract!Init
  OBVIOUS
<1> DEFINE seat(m) == [credential |-> IF m \in Joins THEN None ELSE m,
                       active |-> m = Host, left |-> FALSE, departure |-> 0]
<1>1. room.epoch = 1 /\ room.active /\ \A m \in Ids : room.members[m] = seat(m)
  BY DEF Init
<1>2. ASSUME NEW m \in Ids
      PROVE  /\ Member(m).credential = IF m \in Joins THEN None ELSE m
             /\ Member(m).active <=> m = Host
             /\ ~Member(m).left
  <2>1. Member(m) = seat(m)
    BY <1>1 DEF Member
  <2>2. seat(m).credential = IF m \in Joins THEN None ELSE m
    OBVIOUS
  <2>3. seat(m).active = (m = Host)
    BY Zenon
  <2>4. seat(m).left = FALSE
    OBVIOUS
  <2> HIDE DEF seat
  <2> QED BY <2>1, <2>2, <2>3, <2>4
<1> HIDE DEF seat
<1>3. \A m \in Ids : IsMember(room, m) <=> m \notin Joins
  BY <1>2, RoomsAssumption DEF IsMember, Member, Ids
<1>4. \A m \in Ids : m # Host /\ m \notin Saved => m \in Joins
  BY DEF Ids
<1>5. \A m \in Ids : m = Host \/ m \in Saved => m \notin Joins
  BY RoomsAssumption
<1>6. Granted = {Host}
  BY DEF Granted, Init
<1>7. room.active = TRUE
  BY DEF Init
<1> QED BY <1>1, <1>2, <1>3, <1>4, <1>5, <1>6, <1>7 DEF Abstract!Init, Abstract!Ids, Ids

(* Every step is one of Membership, or none.                                *)
LEMMA StepMaps ==
  ASSUME TypeOK, RoomInv, TypeOK', [Next]_vars
  PROVE  [Abstract!Next]_(Abstract!vars)
<1>i. Ids = Abstract!Ids
  BY DEF Ids, Abstract!Ids
<1>h. room.members \in [Ids -> MemberRecords]
  BY DEF TypeOK
<1>1. ASSUME room'.members = room.members, room'.epoch = room.epoch, room'.active = room.active,
             UNCHANGED receipts
      PROVE  UNCHANGED Abstract!vars
  BY <1>1 DEF Abstract!vars, IsMember, Member, Granted
<1>2. CASE CommitJoin
  <2>1. task.member \in Ids /\ task.join \in Joins
    BY <1>2, TaskKinds DEF CommitJoin, JoinTasks
  <2>2. /\ task.join \in (Granted' \cup Saved) \ (Granted \cup Saved)
        /\ Abstract!Enter(task.member, task.join) \/ Abstract!Replace(task.member, task.join)
    BY <1>2, MapsSeat
  <2> QED BY <1>i, <2>1, <2>2 DEF Abstract!Next
<1>3. ASSUME NEW l \in leases, NEW expected \in 1..room.epoch, Leave(l, expected)
      PROVE  Abstract!Next
  <2> DEFINE m == l.member
  <2> DEFINE v == [Member(m) EXCEPT !.active = FALSE, !.left = TRUE, !.departure = room.epoch + 1]
  <2>1. /\ m \in Ids /\ m # Host
        /\ room'.epoch = room.epoch + 1 /\ room'.active = room.active
        /\ room'.members = [room.members EXCEPT ![m] = v]
    BY <1>3, LeaveMoves
  <2>2. room.active /\ Member(m).active /\ UNCHANGED receipts
    BY <1>3 DEF Leave, Departs
  <2>3. v.credential = Member(m).credential /\ ~v.active /\ v.left
    BY <1>h, <2>1 DEF Member, MemberRecords
  <2>4. Member(m).credential # None
    BY <2>1, <2>2 DEF RoomInv, SeatInv, IsMember, Member
  <2>5. StandingOf(Member(m)) \in {"in"} /\ StandingOf(v) = "left"
    BY <2>2, <2>3, <2>4 DEF StandingOf
  <2> HIDE DEF m, v
  <2>6. Abstract!Move(m, {"in"}, StandingOf(v))
    BY <2>1, <2>2, <2>3, <2>5, MapsMove
  <2> QED BY <1>i, <2>1, <2>5, <2>6 DEF Abstract!Next, Abstract!Leave
<1>4. ASSUME NEW q \in asked, Return(q), Member(receipts[q.join].member).left
      PROVE  Abstract!Next
  <2> DEFINE m == receipts[q.join].member
  <2> DEFINE v == [Member(m) EXCEPT !.active = TRUE, !.left = FALSE]
  <2>1. /\ m \in Ids /\ m # Host
        /\ room'.epoch = room.epoch + 1 /\ room'.active = room.active
        /\ room'.members = [room.members EXCEPT ![m] = v]
    BY <1>4, ReturnMoves
  <2>2. room.active /\ Member(m).left /\ UNCHANGED receipts
    BY <1>4 DEF Return
  <2>3. v.credential = Member(m).credential /\ v.active
    BY <1>h, <2>1 DEF Member, MemberRecords
  <2>4. Member(m).credential # None /\ ~Member(m).active
    BY <2>1, <2>2 DEF TypeOK, Valid, IsPlayer, IsMember, Member
  <2>5. StandingOf(Member(m)) \in {"left"} /\ StandingOf(v) = "in"
    BY <2>2, <2>3, <2>4 DEF StandingOf
  <2> HIDE DEF m, v
  <2>6. Abstract!Move(m, {"left"}, StandingOf(v))
    BY <2>1, <2>2, <2>3, <2>5, MapsMove
  <2> QED BY <1>i, <2>1, <2>5, <2>6 DEF Abstract!Next, Abstract!Return
<1>5. ASSUME NEW l \in leases, NEW m \in Ids, Revoke(l, m)
      PROVE  Abstract!Next
  <2> DEFINE v == Banned(Member(m))
  <2>1. /\ m # Host
        /\ room'.epoch = room.epoch + 1 /\ room'.active = room.active
        /\ room'.members = [room.members EXCEPT ![m] = v]
    BY <1>5, RevokeMoves
  <2>2. room.active /\ (Member(m).active \/ Member(m).left) /\ UNCHANGED receipts
    BY <1>5 DEF Revoke, HostVerifies, Verifies, ledger
  <2>3. v.credential = Member(m).credential /\ ~v.active /\ ~v.left
    BY <1>h DEF Banned, Member, MemberRecords
  <2>4. Member(m).credential # None
    <3>1. Member(m).active => Member(m).credential # None
      BY DEF RoomInv, SeatInv, IsMember, Member
    <3>2. Member(m).left => Member(m).credential # None
      BY DEF TypeOK, Valid, IsPlayer, IsMember, Member
    <3> QED BY <2>2, <3>1, <3>2
  <2>5. StandingOf(Member(m)) \in {"in", "left"} /\ StandingOf(v) = "absent"
    BY <2>2, <2>3, <2>4 DEF StandingOf
  <2> HIDE DEF v
  <2>6. Abstract!Move(m, {"in", "left"}, StandingOf(v))
    BY <2>1, <2>2, <2>3, <2>5, MapsMove
  <2> QED BY <1>i, <2>1, <2>5, <2>6 DEF Abstract!Next, Abstract!Ban
<1>6. ASSUME CloseRoom, room.active PROVE Abstract!Close
  <2>1. room'.epoch = room.epoch + 1 /\ room'.active = FALSE /\ room'.members = room.members
    BY <1>6, CloseMoves DEF TypeOK
  <2> QED BY <1>6, <2>1 DEF CloseRoom, Abstract!Close, IsMember, Member, Granted, ledger
<1>7. CASE Expire \/ RotateInvitation \/ (\E committed \in BOOLEAN : RotateFails(committed))
  <2>1. UNCHANGED receipts
    BY <1>7 DEF Expire, RotateInvitation, RotateFails, ledger
  <2> QED BY <1>1, <1>7, <2>1, RoomUnmoved
<1>8. CASE UNCHANGED <<room, receipts>>
  BY <1>1, <1>8
<1>9. ASSUME NEW q \in asked, Return(q), ~Member(receipts[q.join].member).left
      PROVE  UNCHANGED Abstract!vars
  <2>1. UNCHANGED <<room, receipts>>
    BY <1>9 DEF Return
  <2> QED BY <1>1, <2>1
<1>10. ASSUME CloseRoom, room.active PROVE Abstract!Next
  BY <1>6, <1>10 DEF Abstract!Next
<1>11. CASE \/ \E j \in Joins : BeginJoin(j)
            \/ SavePending \/ SaveCredential \/ Abandon
            \/ \E m \in Ids, c \in Granted, departing \in BOOLEAN : Authenticate(m, c, departing)
            \/ \E l \in leases : EndRequest(l)
            \/ \E r \in departures, nonce \in 1..MaxIntents : AskReturn(r, nonce)
            \/ \E l \in leases, i \in Invitations, target \in Ids \cup {None} : BeginIssue(l, i, target)
  BY <1>8, <1>11 DEF BeginJoin, SavePending, SaveCredential, Abandon, Authenticate, EndRequest,
     AskReturn, BeginIssue, ledger
<1>12. ASSUME (\E l \in leases : Close(l)) \/ CancelCreation PROVE Abstract!Next
  BY <1>10, <1>12 DEF Close, CancelCreation, HostVerifies, Verifies
<1>13. CASE UNCHANGED vars
  BY <1>8, <1>13 DEF vars, ledger
<1> QED
  BY <1>2, <1>3, <1>4, <1>5, <1>7, <1>9, <1>11, <1>12, <1>13 DEF Next, Joining, Playing, Hosting

(* The room does to its members what Membership allows: every step that     *)
(* takes authority from somebody opens a new epoch.                         *)
THEOREM RoomImplementsMembership == Spec => ImplementsMembership
<1>1. TypeOK /\ RoomInv /\ TypeOK' /\ [Next]_vars => [Abstract!Next]_(Abstract!vars)
  BY StepMaps
<1> QED BY <1>1, InitMaps, RoomCorrect, PTL DEF Spec, ImplementsMembership, Abstract!Spec
=============================================================================

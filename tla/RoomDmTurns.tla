---------------------------- MODULE RoomDmTurns ----------------------------
(***************************************************************************)
(* The shared Dungeon Master of a room: one campaign lane, turns owned by  *)
(* their member, the room's epoch and the timeline.  RoomDmRunner::execute *)
(* takes the lane and a lease, claims the turn, binds its environment and  *)
(* runs the engine on the lease it started with; every write of the engine *)
(* verifies the lease again in its own transaction.  Meanwhile members act *)
(* by hand, come and go, the host restores a save, the process dies.       *)
(*                                                                         *)
(* A turn carries out the commands of its verified manifest in order; how  *)
(* the engine talks to the provider is the subject of ToolCheckpoints.     *)
(***************************************************************************)
EXTENDS Naturals, Sequences, FiniteSets, SequencesExt

CONSTANTS
    DmTurns, Author,     \* turn ids and the member who sends each
    DmHost, DmMembers,
    Manifest,            \* commands of a turn's manifest
    MaxRoomEpoch, MaxResets, MaxProcess, MaxWorld,  \* bounds of the model
    NoTurn

ASSUME RoomDmAssumption ==
    /\ Author \in [DmTurns -> DmMembers] /\ DmHost \in DmMembers
    /\ Manifest \in Nat \ {0} /\ NoTurn \notin DmTurns

VARIABLES
    roomEpoch, seated,   \* the room's epoch and the members active in it
    resets, worldRev,    \* timeline_reset cursor, campaign revision
    process,             \* the process that holds the authority lock
    dmTurn,              \* room_dm_turns with its tools, transcript and events
    runner,              \* the holder of the lane
    ear,                 \* what the stream of a member has delivered
    dmApplied            \* how often the effect of a call happened

dmVars == <<roomEpoch, seated, resets, worldRev, process, dmTurn, runner, ear, dmApplied>>

Unclaimed == [st |-> "none", epoch |-> 0, reset |-> 0, owner |-> 0, tools |-> <<>>,
          reply |-> FALSE, log |-> 0, done |-> FALSE]
NoRunner == [t |-> NoTurn, at |-> "off", epoch |-> 0, resume |-> FALSE]
Deaf == [t |-> NoTurn, epoch |-> 0, got |-> 0, done |-> FALSE]

DmInit ==
    /\ roomEpoch = 0 /\ seated = DmMembers
    /\ resets = 0 /\ worldRev = 0 /\ process = 0
    /\ dmTurn = [t \in DmTurns |-> Unclaimed]
    /\ runner = NoRunner
    /\ ear = [m \in DmMembers |-> Deaf]
    /\ dmApplied = [t \in DmTurns |-> [k \in 1..Manifest |-> 0]]

-----------------------------------------------------------------------------
(* room_agent::guard and timeline, valid_row, active.                      *)
Seated(m, epoch) == m \in seated
Guard(m, epoch) == m \in seated /\ epoch = roomEpoch
OnTimeline(t) == dmTurn[t].st = "none" \/ dmTurn[t].reset = resets
Leased == Guard(Author[runner.t], runner.epoch) /\ OnTimeline(runner.t)
Row == dmTurn[runner.t]
(* The ledger asks for the row of the lease, the event log for its owner.  *)
Scoped == Leased /\ Row.epoch = runner.epoch
Owned == Scoped /\ Row.st = "running" /\ Row.owner = process

Pending(r) == r.st \in {"running", "interrupted"}
Superseded(kept) ==
    [t \in DmTurns |-> IF Pending(dmTurn[t]) /\ t \notin kept
                       THEN [dmTurn[t] EXCEPT !.st = "superseded"] ELSE dmTurn[t]]

(* The world keeps a receipt under the nonce of the call: a call whose     *)
(* effect happened is answered from there (replay_in_transaction).         *)
Receipted(t, k) == dmApplied[t][k] > 0

(* RoomHumanCommandLedger::load: a prepared call without an outcome must   *)
(* still see the revision it was prepared at.                              *)
Resolved(t, k) == Receipted(t, k) \/ dmTurn[t].tools[k].refusal
Loads(t) == \A k \in DOMAIN dmTurn[t].tools :
                ~Resolved(t, k) => dmTurn[t].tools[k].exp = worldRev
Told(r) == Cardinality({k \in DOMAIN r.tools : r.tools[k].said # "nothing"})

RunnerAt(where) == runner.at = where
Step(where) == runner' = [runner EXCEPT !.at = where]
World == <<roomEpoch, seated, resets, worldRev, process>>
Set(f, to) == dmTurn' = [dmTurn EXCEPT ![runner.t][f] = to]

-----------------------------------------------------------------------------
(* execute: the lane is tried, never waited for.                           *)
TakeLane(t, resume) ==
    /\ RunnerAt("off") /\ Author[t] \in seated
    /\ runner' = [t |-> t, at |-> "claim", epoch |-> roomEpoch, resume |-> resume]
    /\ UNCHANGED <<World, dmTurn, ear, dmApplied>>

Listen(t) == ear' = [ear EXCEPT ![Author[t]] =
                        [t |-> t, epoch |-> runner.epoch, got |-> 0, done |-> FALSE]]

Claim ==
    /\ RunnerAt("claim")
    /\ LET t == runner.t
           fresh == Row.st = "none"
           may == Leased /\ (fresh \/ (Row.epoch = runner.epoch /\ Row.st # "superseded"))
           busy == \E u \in DmTurns : Pending(dmTurn[u])
       IN \/ /\ may /\ fresh /\ ~busy
             /\ dmTurn' = [dmTurn EXCEPT ![t] =
                    [Unclaimed EXCEPT !.st = "running", !.epoch = roomEpoch, !.reset = resets,
                                  !.owner = process]]
             /\ Step("bind") /\ UNCHANGED ear
          \/ /\ may /\ ~fresh /\ Row.st = "interrupted" /\ runner.resume
             /\ dmTurn' = [dmTurn EXCEPT ![t] =
                    [Row EXCEPT !.st = "running", !.owner = process, !.log = Told(Row), !.done = FALSE]]
             /\ Step("bind") /\ UNCHANGED ear
          \/ /\ may /\ ~fresh /\ Row.st = "complete"
             /\ Listen(t) /\ runner' = NoRunner /\ UNCHANGED dmTurn
          \/ /\ \/ ~may
                \/ fresh /\ busy
                \/ ~fresh /\ Row.st = "running"
                \/ ~fresh /\ Row.st = "interrupted" /\ ~runner.resume
             /\ runner' = NoRunner /\ UNCHANGED <<dmTurn, ear>>
    /\ UNCHANGED <<World, dmApplied>>

(* bind_environment; a failure, or another environment, settles the turn.  *)
Bind ==
    /\ RunnerAt("bind")
    /\ \/ Owned /\ Step("run") /\ Listen(runner.t)
       \/ Step("fail") /\ UNCHANGED ear
    /\ UNCHANGED <<World, dmTurn, dmApplied>>

(* The handler is dropped at an await before its worker exists.            *)
Dropped ==
    /\ runner.at \in {"claim", "bind"} /\ runner' = NoRunner
    /\ UNCHANGED <<World, dmTurn, ear, dmApplied>>

-----------------------------------------------------------------------------
(* The engine.  Call k is the k-th command; the one at work is the first   *)
(* without an answer in the transcript.                                    *)
Calls == DOMAIN Row.tools
Working(k) == /\ k \in Calls /\ Row.tools[k].said = "nothing"
              /\ \A j \in Calls : j < k => Row.tools[j].said # "nothing"

(* prepare_after_permission: the nonce and the revision are saved once.    *)
NewCall == [exp |-> worldRev, said |-> "nothing", refusal |-> FALSE]
Prepare ==
    /\ RunnerAt("run") /\ Scoped /\ Loads(runner.t)
    /\ Len(Row.tools) < Manifest /\ ~\E k \in Calls : Working(k)
    /\ Set("tools", Append(Row.tools, NewCall))
    /\ UNCHANGED <<World, runner, ear, dmApplied>>

(* require_pending_binding: the row is this lease's, its ledger loads, the *)
(* call has no outcome yet and was prepared at the revision it acts on.    *)
BindingStands(k) ==
    /\ Scoped /\ Loads(runner.t)
    /\ ~Resolved(runner.t, k) /\ Row.tools[k].exp = worldRev

(* execute of the dispatcher: canonical receipt, binding, revision, effect *)
(* and receipt in one transaction; the engine may lose the answer.         *)
Effect(k) ==
    /\ RunnerAt("run") /\ Working(k) /\ BindingStands(k) /\ worldRev < MaxWorld
    /\ dmApplied' = [dmApplied EXCEPT ![runner.t][k] = @ + 1]
    /\ worldRev' = worldRev + 1
    /\ UNCHANGED runner \/ Step("fail")
    /\ UNCHANGED <<roomEpoch, seated, resets, process, dmTurn, ear>>

(* Mutant: a receipt that says otherwise is not looked for.                *)
RefuseUnchecked(k) ==
    /\ RunnerAt("run") /\ Working(k) /\ Scoped
    /\ dmTurn' = [dmTurn EXCEPT ![runner.t].tools[k].refusal = TRUE]
    /\ UNCHANGED <<World, runner, ear, dmApplied>>

(* record_definitive_refusal after the world said no.                      *)
Refuse(k) ==
    /\ RunnerAt("run") /\ Working(k) /\ ~Resolved(runner.t, k) /\ Scoped /\ Loads(runner.t)
    /\ dmTurn' = [dmTurn EXCEPT ![runner.t].tools[k].refusal = TRUE]
    /\ UNCHANGED <<World, runner, ear, dmApplied>>

(* The answer enters the transcript (append verifies lease and timeline,   *)
(* not the row), then the event log.                                       *)
Tell(k) ==
    /\ RunnerAt("run") /\ Working(k) /\ Resolved(runner.t, k) /\ Leased
    /\ dmTurn' = [dmTurn EXCEPT ![runner.t].tools[k].said =
                     IF Row.tools[k].refusal THEN "refused" ELSE "performed"]
    /\ UNCHANGED <<World, runner, ear, dmApplied>>

Log ==
    /\ RunnerAt("run") /\ Owned /\ Row.log < Told(Row)
    /\ Set("log", Row.log + 1)
    /\ UNCHANGED <<World, runner, ear, dmApplied>>

Narrate ==
    /\ RunnerAt("run") /\ Leased /\ ~Row.reply /\ Told(Row) = Manifest
    /\ Set("reply", TRUE)
    /\ UNCHANGED <<World, runner, ear, dmApplied>>

Done ==
    /\ RunnerAt("run") /\ Owned /\ Row.reply /\ Row.log = Told(Row)
    /\ Set("done", TRUE) /\ Step("complete")
    /\ UNCHANGED <<World, ear, dmApplied>>

(* A refused write, the provider, a lost client or RoomCancellation.       *)
Fail ==
    /\ RunnerAt("run") /\ Step("fail")
    /\ UNCHANGED <<World, dmTurn, ear, dmApplied>>

(* finish, and the lane is free.                                           *)
Finish ==
    /\ runner.at \in {"complete", "fail"} /\ runner' = NoRunner
    /\ \/ /\ Owned
          /\ LET whole == RunnerAt("complete") /\ Row.reply /\ Row.done
             IN  Set("st", IF whole THEN "complete" ELSE "interrupted")
       \/ ~Owned /\ UNCHANGED dmTurn
    /\ UNCHANGED <<World, ear, dmApplied>>

-----------------------------------------------------------------------------
(* authorized_delivery: the lease and the timeline are validated at every  *)
(* event; the terminal event waits for the receipt of the completion.      *)
Deliver(m) ==
    LET e == ear[m] IN
    /\ e.t # NoTurn /\ Guard(m, e.epoch) /\ OnTimeline(e.t)
    /\ \/ e.got < dmTurn[e.t].log /\ ear' = [ear EXCEPT ![m].got = @ + 1]
       \/ /\ e.got = dmTurn[e.t].log /\ ~e.done /\ dmTurn[e.t].st = "complete"
          /\ ear' = [ear EXCEPT ![m].done = TRUE]
    /\ UNCHANGED <<World, dmTurn, runner, dmApplied>>

-----------------------------------------------------------------------------
(* The surroundings.  A change of members, or closing, is a new epoch, and *)
(* trigger room_dm_epoch_invalidated ends what is pending.                 *)
ChangeSeats(members) ==
    /\ seated # {} /\ members # seated /\ roomEpoch < MaxRoomEpoch
    /\ members = {} \/ DmHost \in members
    /\ roomEpoch' = roomEpoch + 1 /\ seated' = members
    /\ dmTurn' = Superseded({t \in DmTurns : members # {} /\ dmTurn[t].epoch = roomEpoch'})
    /\ UNCHANGED <<resets, worldRev, process, runner, ear, dmApplied>>

(* A restore waits for the lane; its triggers reset the timeline.          *)
RestoreRoom ==
    /\ RunnerAt("off") /\ seated # {} /\ resets < MaxResets
    /\ resets' = resets + 1 /\ worldRev' = worldRev + 1
    /\ dmTurn' = Superseded({})
    /\ UNCHANGED <<roomEpoch, seated, process, runner, ear, dmApplied>>

(* A member acts through the room's own routes, which take no lane.        *)
ActByHand ==
    /\ seated # {} /\ worldRev < MaxWorld /\ worldRev' = worldRev + 1
    /\ UNCHANGED <<roomEpoch, seated, resets, process, dmTurn, runner, ear, dmApplied>>

(* The process dies; the next one interrupts what it left running.         *)
Restart ==
    /\ process < MaxProcess /\ process' = process + 1
    /\ runner' = NoRunner /\ ear' = [m \in DmMembers |-> Deaf]
    /\ dmTurn' = [t \in DmTurns |-> IF Pending(dmTurn[t])
                                    THEN [dmTurn[t] EXCEPT !.st = "interrupted"] ELSE dmTurn[t]]
    /\ UNCHANGED <<roomEpoch, seated, resets, worldRev, dmApplied>>

DmNext ==
    \/ \E t \in DmTurns, resume \in BOOLEAN : TakeLane(t, resume)
    \/ Claim \/ Bind \/ Dropped \/ Prepare \/ Log \/ Narrate \/ Done \/ Fail \/ Finish
    \/ \E k \in 1..Manifest : Effect(k) \/ Refuse(k) \/ Tell(k)
    \/ \E m \in DmMembers : Deliver(m)
    \/ \E members \in SUBSET DmMembers : ChangeSeats(members)
    \/ RestoreRoom \/ ActByHand \/ Restart

DmSpec == DmInit /\ [][DmNext]_dmVars

-----------------------------------------------------------------------------
(* A turn that is over stays as it is: whatever an engine still does on a  *)
(* lease of an earlier epoch or timeline, no answer, event, status or      *)
(* effect is added to it.                                                  *)
TurnOver(t) == dmTurn[t].st \in {"complete", "superseded"}
WhatIsOverIsKept ==
    \A t \in DmTurns : TurnOver(t) => dmTurn'[t] = dmTurn[t] /\ dmApplied'[t] = dmApplied[t]
OverIsOver == [][WhatIsOverIsKept]_dmVars

(* What the transcript tells of a call is what happened, once; and who has *)
(* heard the end of a turn has heard all of it.                            *)
TurnsToldTruly ==
    /\ \A t \in DmTurns : \A k \in DOMAIN dmTurn[t].tools :
             /\ dmApplied[t][k] <= 1
             /\ dmTurn[t].tools[k].said = "performed" => dmApplied[t][k] = 1
             /\ dmTurn[t].tools[k].said = "refused" => dmApplied[t][k] = 0
    /\ \A m \in DmMembers : LET e == ear[m] IN
          e.t # NoTurn /\ e.done => /\ dmTurn[e.t].st = "complete"
                                    /\ e.got = Manifest

(* An interrupted turn can be resumed: its ledger still loads.             *)
InterruptedCanGoOn ==
    \A t \in DmTurns : dmTurn[t].st = "interrupted" => Loads(t)
=============================================================================

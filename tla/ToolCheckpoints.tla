--------------------------- MODULE ToolCheckpoints ---------------------------
(***************************************************************************)
(* The tool calls of one durable turn: how the agent engine checkpoints    *)
(* them, and how a resume repairs and continues them.                      *)
(*                                                                         *)
(* The engine streams a round of the provider, saves its calls in the      *)
(* transcript, and takes them one by one through permission, preparation,  *)
(* the effect, the step result, the transcript and the event, each its own *)
(* transaction.  The engine may stop, and the process may die, between any *)
(* two of them; a resume then starts from the four records that survive:   *)
(* the transcript, the tool steps, the command ledger and the receipts of  *)
(* the effects.  Meanwhile the player may act through the combat screen,   *)
(* which does not take the campaign lane.                                  *)
(*                                                                         *)
(* Scope.  One operation with a verified manifest of Wanted unconditional  *)
(* commands, in a campaign with an authored adventure.  Conditions are the *)
(* subject of CommandLedger, questions to the player and the repair of a   *)
(* narration of RequestDialogue, tools that an authored adventure never    *)
(* offers of TableTools.  Who may claim and resume, timeline and delivery  *)
(* to the client are the subject of DurableTurns.  Provider call ids are   *)
(* unique within an operation, as provider protocols promise.              *)
(***************************************************************************)
EXTENDS Naturals, Sequences, FiniteSets, SequencesExt

CONSTANTS
  Calls,        \* provider call ids
  Kind,         \* the tool of a call: combat, story, dice or media
  Wanted,       \* commands of the manifest
  Plans,        \* bound: the sets of calls a turn may name together
  Rolls,        \* what the dice can show
  Unprepared,   \* a call without a binding
  MaxRounds,    \* AgentTurnConfig.max_rounds
  MaxResumes,   \* bound: resumes of the operation
  MaxRevision   \* bound: revisions of the world

ASSUME CheckpointConstants ==
  /\ Kind \in [Calls -> {"combat", "story", "dice", "media"}] /\ Plans \subseteq SUBSET Calls
  /\ Wanted \in Nat \ {0} /\ MaxRounds \in Nat \ {0}
  /\ MaxResumes \in Nat /\ MaxRevision \in Nat
  /\ Unprepared \notin Nat
  /\ Rolls \cap ({"none", "pending", "performed", "broken", "refused", "fresh"}
                 \cup {"unavailable", "settled", "denied"}) = {}
  /\ IsFiniteSet(Calls)

VARIABLES
  status,       \* agent_turn_operations.status
  users,        \* agent_turn_messages: how often the player's message was appended,
  asked,        \*   the saved messages with tool calls in order,
  answers,      \*   the saved tool results in order,
  finals,       \*   and how often a final narration was appended
  steps,        \* agent_tool_steps.result_json
  bound,        \* solo_human_command_bindings: the revision a call was prepared at
  terminal,     \*   and whether it is the step that finishes its command
  receipts,     \* calls with a canonical receipt of their effect
  log,          \* agent_turn_events
  revision, combat,  \* the world: its revision, whether an encounter is active
  engine,       \* where the engine is
  round, draft, todo, resolved, inCombat, held,   \* its local state
  chan,         \* events on their way to the recorder
  recording,    \* the recorder still accepts them
  resumes,
  applied       \* how often the effect of a call really happened

transcript == <<users, asked, answers, finals>>
ledger     == <<steps, bound, terminal, receipts>>
world      == <<revision, combat>>
local      == <<round, draft, todo, resolved, inCombat, held>>
delivery   == <<log, chan, recording>>
vars == <<status, transcript, ledger, world, engine, local, delivery, resumes, applied>>

Denials  == {"unavailable", "settled", "denied"}
Results  == {"performed", "broken", "refused", "fresh"} \cup Denials \cup Rolls
Verdicts == [kind : {"result"}, call : Calls, res : Results]
OfTools  == Verdicts \cup [kind : {"start"}, call : Calls]
            \cup [kind : {"media"}, call : Calls, round : Nat]
Event    == OfTools \cup [kind : {"text", "done"}]
Start(c)     == [kind |-> "start", call |-> c]
Media(c, n)  == [kind |-> "media", call |-> c, round |-> n]
Result(c, r) == [kind |-> "result", call |-> c, res |-> r]
Text         == [kind |-> "text"]
Done         == [kind |-> "done"]

Stage == {"off", "start", "round", "streaming", "calls", "claim", "effect", "finish",
          "media", "tell", "publish", "final", "done", "ended", "failed"}

TypeOK ==
  /\ status \in {"running", "interrupted", "complete"}
  /\ users \in Nat /\ finals \in Nat
  /\ asked \in Seq(Seq(Calls))
  /\ answers \in Seq([call : Calls, res : Results])
  /\ steps \in [Calls -> {"none", "pending"} \cup Results]
  /\ bound \in [Calls -> Nat \cup {Unprepared}]
  /\ terminal \in [Calls -> BOOLEAN]
  /\ receipts \in SUBSET Calls
  /\ log \in Seq(Event) /\ chan \in Seq(Event) /\ recording \in BOOLEAN
  /\ revision \in Nat /\ combat \in BOOLEAN
  /\ engine \in Stage
  /\ round \in 0..MaxRounds
  /\ draft \in Seq(Calls) /\ todo \in Seq(Calls)
  /\ resolved \in BOOLEAN /\ inCombat \in BOOLEAN
  /\ held \in Results \cup {"none"}
  /\ resumes \in 0..MaxResumes
  /\ applied \in [Calls -> Nat]

Init ==
  /\ status = "running" /\ engine = "start"
  /\ users = 0 /\ asked = <<>> /\ answers = <<>> /\ finals = 0
  /\ steps = [c \in Calls |-> "none"]
  /\ bound = [c \in Calls |-> Unprepared]
  /\ terminal = [c \in Calls |-> FALSE]
  /\ receipts = {}
  /\ log = <<>> /\ chan = <<>> /\ recording = TRUE
  /\ revision = 0 /\ combat \in BOOLEAN
  /\ round = 0 /\ draft = <<>> /\ todo = <<>>
  /\ resolved = FALSE /\ inCombat = FALSE /\ held = "none"
  /\ resumes = 0
  /\ applied = [c \in Calls |-> 0]

-----------------------------------------------------------------------------
(* Reading the records.                                                     *)

Resolution(c) == Kind[c] \in {"combat", "story", "dice"}   \* player_resolution_tool
Fragile(c)    == Kind[c] = "media"                         \* no receipt to dedupe by

(* What of a sequence is in S, in its order.                                *)
Those(s, S) ==
  LET kept[i \in 0..Len(s)] ==
        IF i = 0 THEN <<>>
        ELSE IF s[i] \in S THEN Append(kept[i - 1], s[i]) ELSE kept[i - 1]
  IN  kept[Len(s)]

AskedCalls == FlattenSeq(asked)
Answered == {answers[i].call : i \in DOMAIN answers}
AnswerOf(c) == answers[CHOOSE i \in DOMAIN answers : answers[i].call = c].res

(* replay_in_transaction: the receipt decides, then what the step records.  *)
Recorded(c) == IF c \in receipts THEN "performed"
               ELSE IF steps[c] \in Results THEN steps[c] ELSE "none"

Prepared(c) == bound[c] # Unprepared /\ Recorded(c) = "none"

(* human_commands_finished: a refusal, or the terminal step, ends a command. *)
Closing == {c \in Calls : /\ bound[c] # Unprepared /\ Recorded(c) # "none"
                          /\ terminal[c] \/ Recorded(c) = "refused"}
Finished == Cardinality(Closing) >= Wanted

(* load_ledger refuses to go on while a prepared call has an old stamp, and *)
(* repairs the step of every bound call whose effect has a receipt.         *)
LedgerLoads == \A c \in Calls : Prepared(c) => bound[c] = revision
Repaired == [c \in Calls |-> IF bound[c] # Unprepared /\ c \in receipts /\ steps[c] = "pending"
                             THEN "performed" ELSE steps[c]]
LoadLedger == LedgerLoads /\ steps' = Repaired

(* for_context and restrict_to_narration, as of the last context build.     *)
Offered(c) == /\ Kind[c] = "combat" => inCombat
              /\ Resolution(c) => ~resolved

Emit(e) == recording /\ chan' = Append(chan, e)

-----------------------------------------------------------------------------
(* run(): a saved final narration is delivered again, without the provider. *)
ReplayFinal ==
  /\ engine = "start" /\ finals > 0
  /\ LoadLedger
  /\ engine' = "final"
  /\ UNCHANGED <<status, transcript, bound, terminal, receipts, world, local, delivery,
                 resumes, applied>>

(* A mutant: calls that already have their result are taken up again.       *)
BeginAllCalls ==
  /\ engine = "start" /\ finals = 0
  /\ users' = IF users = 0 THEN 1 ELSE users
  /\ LoadLedger
  /\ resolved' = Finished /\ inCombat' = combat
  /\ todo' = AskedCalls
  /\ round' = IF asked = <<>> THEN 0 ELSE 1
  /\ engine' = IF asked = <<>> THEN "round" ELSE "calls"
  /\ UNCHANGED <<status, asked, answers, finals, bound, terminal, receipts, world, draft, held,
                 delivery, resumes, applied>>

(* Otherwise the player's message is appended unless the checkpoint has it, *)
(* and the saved calls without a result are taken up as round one.          *)
Begin ==
  LET pending == Those(AskedCalls, Calls \ Answered) IN
  /\ engine = "start" /\ finals = 0
  /\ users' = IF users = 0 THEN 1 ELSE users
  /\ LoadLedger
  /\ resolved' = Finished /\ inCombat' = combat
  /\ todo' = pending
  /\ round' = IF pending = <<>> THEN 0 ELSE 1
  /\ engine' = IF pending = <<>> THEN "round" ELSE "calls"
  /\ UNCHANGED <<status, asked, answers, finals, bound, terminal, receipts, world, draft, held,
                 delivery, resumes, applied>>

(* A mutant: nothing limits the rounds.                                     *)
OpenAnyRound ==
  /\ engine = "round"
  /\ LoadLedger
  /\ round' = round + 1 /\ draft' = <<>>
  /\ engine' = "streaming"
  /\ UNCHANGED <<status, transcript, bound, terminal, receipts, world, todo, resolved, inCombat,
                 held, delivery, resumes, applied>>

OpenRound ==
  /\ engine = "round" /\ round < MaxRounds
  /\ LoadLedger
  /\ round' = round + 1 /\ draft' = <<>>
  /\ engine' = "streaming"
  /\ UNCHANGED <<status, transcript, bound, terminal, receipts, world, todo, resolved, inCombat,
                 held, delivery, resumes, applied>>

(* The provider announces a call; the client sees its start at once.        *)
StreamCall(c) ==
  /\ engine = "streaming"
  /\ \E plan \in Plans : {c} \cup ToSet(AskedCalls \o draft) \subseteq plan
  /\ Start(c) \notin ToSet(log \o chan) /\ c \notin ToSet(AskedCalls \o draft)
  /\ Emit(Start(c))
  /\ draft' = Append(draft, c)
  /\ UNCHANGED <<status, transcript, ledger, world, engine, round, todo, resolved, inCombat,
                 held, log, recording, resumes, applied>>

SaveCalls ==
  /\ engine = "streaming" /\ draft # <<>>
  /\ asked' = Append(asked, draft)
  /\ todo' = draft
  /\ engine' = "calls"
  /\ UNCHANGED <<status, users, answers, finals, ledger, world, round, draft, resolved, inCombat,
                 held, delivery, resumes, applied>>

(* A mutant: a premature stop does not use up its round.                    *)
StopEarlyFree ==
  /\ engine = "streaming" /\ draft = <<>> /\ ~Finished
  /\ LoadLedger
  /\ resolved' = FALSE
  /\ round' = round - 1
  /\ engine' = "round"
  /\ UNCHANGED <<status, transcript, bound, terminal, receipts, world, draft, todo,
                 inCombat, held, delivery, resumes, applied>>

(* The provider wants to stop while commands are open: the round is lost.   *)
StopEarly ==
  /\ engine = "streaming" /\ draft = <<>> /\ ~Finished
  /\ LoadLedger
  /\ resolved' = FALSE
  /\ engine' = "round"
  /\ UNCHANGED <<status, transcript, bound, terminal, receipts, world, round, draft, todo,
                 inCombat, held, delivery, resumes, applied>>

(* A mutant: the narration is taken as the end, whatever the ledger says.   *)
StopAnyway ==
  /\ engine = "streaming" /\ draft = <<>>
  /\ LoadLedger
  /\ finals' = finals + 1
  /\ engine' = "final"
  /\ UNCHANGED <<status, users, asked, answers, bound, terminal, receipts, world, local,
                 delivery, resumes, applied>>

(* record_final_narration checks the ledger again in its own transaction.   *)
StopFinal ==
  /\ engine = "streaming" /\ draft = <<>> /\ Finished
  /\ LoadLedger
  /\ finals' = finals + 1
  /\ engine' = "final"
  /\ UNCHANGED <<status, users, asked, answers, bound, terminal, receipts, world, local,
                 delivery, resumes, applied>>

EmitText ==
  /\ engine = "final" /\ Emit(Text)
  /\ engine' = "done"
  /\ UNCHANGED <<status, transcript, ledger, world, local, log, recording, resumes, applied>>

EmitDone ==
  /\ engine = "done" /\ Emit(Done)
  /\ engine' = "ended"
  /\ UNCHANGED <<status, transcript, ledger, world, local, log, recording, resumes, applied>>

-----------------------------------------------------------------------------
(* One saved call: is it answered from the records, refused or executed?    *)

(* A mutant: a recorded roll is rolled again on replay.                     *)
ReplayRerolls(c) ==
  /\ engine = "calls" /\ todo # <<>> /\ c = Head(todo)
  /\ Resolution(c) /\ (resolved \/ Offered(c))
  /\ Recorded(c) # "none"
  /\ LoadLedger
  /\ held' \in IF Kind[c] = "dice" THEN Rolls ELSE {Recorded(c)}
  /\ resolved' = Finished
  /\ engine' = "tell"
  /\ UNCHANGED <<status, transcript, bound, terminal, receipts, world, round, draft, todo,
                 inCombat, delivery, resumes, applied>>

(* recover_player_tool and replay_human_refusal found its outcome.          *)
Replay(c) ==
  /\ engine = "calls" /\ todo # <<>> /\ c = Head(todo)
  /\ Resolution(c) /\ (resolved \/ Offered(c))
  /\ Recorded(c) # "none"
  /\ LedgerLoads
  /\ steps' = [Repaired EXCEPT ![c] = IF @ \in Results THEN @ ELSE Recorded(c)]
  /\ held' = Recorded(c)
  /\ resolved' = Finished
  /\ engine' = "tell"
  /\ UNCHANGED <<status, transcript, bound, terminal, receipts, world, round, draft, todo,
                 inCombat, delivery, resumes, applied>>

(* player_intention_already_resolved, player_intention_not_requested.       *)
Deny(c) ==
  /\ engine = "calls" /\ todo # <<>> /\ c = Head(todo)
  /\ Resolution(c) /\ (resolved \/ Offered(c))
  /\ Recorded(c) = "none"
  /\ resolved \/ bound[c] = Unprepared
  /\ LoadLedger
  /\ held' = IF resolved THEN "settled" ELSE "denied"
  /\ engine' = "tell"
  /\ UNCHANGED <<status, transcript, bound, terminal, receipts, world, round, draft, todo,
                 resolved, inCombat, delivery, resumes, applied>>

(* tool_not_available_in_authored_adventure.                                *)
Withhold(c) ==
  /\ engine = "calls" /\ todo # <<>> /\ c = Head(todo)
  /\ ~Offered(c) /\ ~(Resolution(c) /\ resolved)
  /\ held' = "unavailable"
  /\ engine' = "tell"
  /\ UNCHANGED <<status, transcript, ledger, world, round, draft, todo, resolved, inCombat,
                 delivery, resumes, applied>>

(* Permission was given earlier, or is given now and prepared atomically:   *)
(* the step and the binding with the stamp of the current world.            *)
Prepare(c, last) ==
  /\ engine = "calls" /\ todo # <<>> /\ c = Head(todo)
  /\ Resolution(c) /\ Offered(c) /\ Recorded(c) = "none"
  /\ LedgerLoads
  /\ IF bound[c] # Unprepared
     THEN steps' = Repaired /\ UNCHANGED <<bound, terminal>>
     ELSE /\ ~Finished /\ \A d \in Calls : ~Prepared(d)      \* the command is Ready
          /\ steps[c] = "none"
          /\ steps' = [Repaired EXCEPT ![c] = "pending"]
          /\ bound' = [bound EXCEPT ![c] = revision]
          /\ terminal' = [terminal EXCEPT ![c] = last]
  /\ engine' = "claim"
  /\ UNCHANGED <<status, transcript, receipts, world, local, delivery, resumes, applied>>

(* Media needs no permission.                                               *)
Admit(c) ==
  /\ engine = "calls" /\ todo # <<>> /\ c = Head(todo)
  /\ ~Resolution(c) /\ Offered(c)
  /\ engine' = "claim"
  /\ UNCHANGED <<status, transcript, ledger, world, local, delivery, resumes, applied>>

(* A mutant: a pending picture is simply generated again.                   *)
ClaimStepRepeats(c) ==
  /\ engine = "claim" /\ c = Head(todo)
  /\ IF steps[c] \in Results
     THEN /\ held' = steps[c]
          /\ engine' = IF Fragile(c) /\ steps[c] = "performed" THEN "media" ELSE "tell"
          /\ UNCHANGED steps
     ELSE /\ steps' = [steps EXCEPT ![c] = "pending"]
          /\ engine' = "effect"
          /\ UNCHANGED held
  /\ UNCHANGED <<status, transcript, bound, terminal, receipts, world, round, draft, todo,
                 resolved, inCombat, delivery, resumes, applied>>

(* claim_tool_step: a completed step answers; a pending one whose effect    *)
(* nothing can confirm asks for a fresh intention.                          *)
ClaimStep(c) ==
  /\ engine = "claim" /\ c = Head(todo)
  /\ \/ /\ steps[c] \in Results
        /\ held' = steps[c]
        /\ engine' = IF Fragile(c) /\ steps[c] = "performed" THEN "media" ELSE "tell"
        /\ UNCHANGED steps
     \/ /\ steps[c] = "pending" /\ Fragile(c)
        /\ held' = "fresh" /\ engine' = "finish"
        /\ UNCHANGED steps
     \/ /\ steps[c] = "none" \/ (steps[c] = "pending" /\ ~Fragile(c))
        /\ steps' = [steps EXCEPT ![c] = "pending"]
        /\ engine' = "effect"
        /\ UNCHANGED held
  /\ UNCHANGED <<status, transcript, bound, terminal, receipts, world, round, draft, todo,
                 resolved, inCombat, delivery, resumes, applied>>

(* A mutant: the stamp of the preparation is not compared.                  *)
PerformStale(c) ==
  /\ engine = "effect" /\ c = Head(todo)
  /\ Kind[c] \in {"combat", "story"} /\ c \notin receipts
  /\ (Kind[c] = "combat") = combat
  /\ receipts' = receipts \cup {c}
  /\ applied' = [applied EXCEPT ![c] = @ + 1]
  /\ revision < MaxRevision /\ revision' = revision + 1
  /\ combat' \in BOOLEAN
  /\ held' = "performed"
  /\ engine' = "finish"
  /\ UNCHANGED <<status, transcript, steps, bound, terminal, round, draft, todo, resolved,
                 inCombat, delivery, resumes>>

(* A mutant: an action is confirmed before its transaction committed.       *)
PerformUncommitted(c) ==
  /\ engine = "effect" /\ c = Head(todo) /\ Kind[c] \in {"combat", "story"}
  /\ held' = "performed"
  /\ engine' = "finish"
  /\ UNCHANGED <<status, transcript, ledger, world, round, draft, todo, resolved, inCombat,
                 delivery, resumes, applied>>

(* A combat, adventure or rest action commits: its receipt and its effect   *)
(* in one transaction, if the world is still the one it was prepared for.   *)
Perform(c) ==
  /\ engine = "effect" /\ c = Head(todo)
  /\ Kind[c] \in {"combat", "story"}
  /\ c \in receipts \/ (bound[c] = revision /\ (Kind[c] = "combat") = combat)
  /\ IF c \in receipts
     THEN UNCHANGED <<receipts, applied, world>>
     ELSE /\ receipts' = receipts \cup {c}
          /\ applied' = [applied EXCEPT ![c] = @ + 1]
          /\ revision < MaxRevision /\ revision' = revision + 1
          /\ combat' \in BOOLEAN       \* the last enemy falls, an ambush begins
  /\ held' = "performed"
  /\ engine' = "finish"
  /\ UNCHANGED <<status, transcript, steps, bound, terminal, round, draft, todo, resolved,
                 inCombat, delivery, resumes>>

(* The engine's rules refuse it definitively; nothing is committed.         *)
Refuse(c) ==
  /\ engine = "effect" /\ c = Head(todo)
  /\ Kind[c] \in {"combat", "story"} /\ c \notin receipts
  /\ held' = "refused"
  /\ engine' = "finish"
  /\ UNCHANGED <<status, transcript, ledger, world, round, draft, todo, resolved, inCombat,
                 delivery, resumes, applied>>

Roll(c) ==
  /\ engine = "effect" /\ c = Head(todo) /\ Kind[c] = "dice"
  /\ \E n \in Rolls : held' = n
  /\ engine' = "finish"
  /\ UNCHANGED <<status, transcript, ledger, world, round, draft, todo, resolved, inCombat,
                 delivery, resumes, applied>>

(* A picture is generated and stored, or the image provider fails.          *)
Generate(c) ==
  /\ engine = "effect" /\ c = Head(todo) /\ Kind[c] = "media"
  /\ \/ held' = "performed" /\ applied' = [applied EXCEPT ![c] = @ + 1]
     \/ held' = "broken" /\ UNCHANGED applied
  /\ engine' = "finish"
  /\ UNCHANGED <<status, transcript, ledger, world, round, draft, todo, resolved, inCombat,
                 delivery, resumes>>

(* A mutant: the result is answered without being written to its step.      *)
FinishStepForgets(c) ==
  /\ engine = "finish" /\ c = Head(todo)
  /\ engine' = IF Fragile(c) /\ held = "performed" THEN "media" ELSE "tell"
  /\ UNCHANGED <<status, transcript, ledger, world, local, delivery, resumes, applied>>

(* finish_tool_step: the result is written once; a refusal or a roll only   *)
(* in the world it was prepared for; a new map moves the world on.          *)
FinishStep(c) ==
  /\ engine = "finish" /\ c = Head(todo)
  /\ steps[c] = "pending"
  /\ bound[c] # Unprepared /\ held # "performed" => LedgerLoads /\ bound[c] = revision
  /\ steps' = [steps EXCEPT ![c] = held]
  /\ IF Fragile(c) /\ held = "performed"
     THEN revision' \in {revision, revision + 1} /\ revision' <= MaxRevision
     ELSE UNCHANGED revision
  /\ engine' = IF Fragile(c) /\ held = "performed" THEN "media" ELSE "tell"
  /\ UNCHANGED <<status, transcript, bound, terminal, receipts, combat, round, draft, todo,
                 inCombat, held, delivery, resumes, applied>>
  /\ resolved' = IF bound[c] # Unprepared THEN Finished' ELSE resolved

EmitMedia(c) ==
  /\ engine = "media" /\ c = Head(todo)
  /\ Emit(Media(c, round))
  /\ engine' = "tell"
  /\ UNCHANGED <<status, transcript, ledger, world, local, log, recording, resumes, applied>>

(* The result joins the transcript, then the client's stream; the context   *)
(* is rebuilt for the next call.                                            *)
Tell(c) ==
  /\ engine = "tell" /\ c = Head(todo)
  /\ answers' = Append(answers, [call |-> c, res |-> held])
  /\ engine' = "publish"
  /\ UNCHANGED <<status, users, asked, finals, ledger, world, local, delivery, resumes, applied>>

Publish(c) ==
  /\ engine = "publish" /\ c = Head(todo)
  /\ Emit(Result(c, held))
  /\ todo' = Tail(todo)
  /\ held' = "none"
  /\ inCombat' = combat
  /\ engine' = IF Tail(todo) = <<>> THEN "round" ELSE "calls"
  /\ UNCHANGED <<status, transcript, ledger, world, round, draft, resolved, log, recording,
                 resumes, applied>>

(* The provider, a verifier, a transaction or the round limit ends the      *)
(* engine with an error, or a cancellation does: possible everywhere.       *)
EngineStops ==
  /\ engine \notin {"off", "ended", "failed"}
  /\ engine' = "failed"
  /\ UNCHANGED <<status, transcript, ledger, world, local, delivery, resumes, applied>>

-----------------------------------------------------------------------------
(* The recorder of DurableTurns, reduced to what it does to the log.        *)
Record ==
  /\ recording /\ chan # <<>>
  /\ log' = Append(log, Head(chan))
  /\ chan' = Tail(chan)
  /\ UNCHANGED <<status, transcript, ledger, world, engine, local, recording, resumes, applied>>

RecordFails ==
  /\ recording /\ chan # <<>>
  /\ recording' = FALSE
  /\ chan' = <<>>
  /\ UNCHANGED <<status, transcript, ledger, world, engine, local, log, resumes, applied>>

(* A mutant: success is taken from the engine alone.                        *)
SettleUnrecorded ==
  /\ engine \in {"ended", "failed"} /\ chan = <<>>
  /\ status' = IF engine = "ended" THEN "complete" ELSE "interrupted"
  /\ engine' = "off"
  /\ UNCHANGED <<transcript, ledger, world, local, delivery, resumes, applied>>

Settle ==
  /\ engine \in {"ended", "failed"} /\ chan = <<>>
  /\ status' = IF engine = "ended" /\ recording THEN "complete" ELSE "interrupted"
  /\ engine' = "off"
  /\ UNCHANGED <<transcript, ledger, world, local, delivery, resumes, applied>>

(* The process dies; the next one marks the operation interrupted.          *)
Crash ==
  /\ status = "running"
  /\ status' = "interrupted"
  /\ engine' = "off"
  /\ chan' = <<>>
  /\ UNCHANGED <<transcript, ledger, world, local, log, recording, resumes, applied>>

(* The player acts on the combat screen, or other work commits: no lane.    *)
OtherCommit ==
  /\ status # "complete" /\ revision < MaxRevision
  /\ revision' = revision + 1
  /\ combat' \in BOOLEAN
  /\ UNCHANGED <<status, transcript, ledger, engine, local, delivery, resumes, applied>>

-----------------------------------------------------------------------------
(* resume(): what confirms the result of a saved call with a transcript     *)
(* result, and what that result is.                                         *)
Confirmed(c) == IF steps[c] \in Results THEN steps[c]
                ELSE IF Recorded(c) # "none" THEN Recorded(c) ELSE AnswerOf(c)
Confirmable(c) == Recorded(c) # "none" \/ AnswerOf(c) \in Denials \cup {"refused"}

Delivers(e, c) == e.kind \in {"media", "result"} /\ e.call = c

RepairDelivery(l, c) ==
  LET first == SelectInSubSeq(l, 1, Len(l), LAMBDA e : Delivers(e, c))
      at == IF first = 0 THEN Len(l) + 1 ELSE first
      media == Media(c, CHOOSE n \in DOMAIN asked : c \in ToSet(asked[n]))
      started == IF Start(c) \in ToSet(l) THEN l ELSE InsertAt(l, at, Start(c))
      shown == IF Fragile(c) /\ Confirmed(c) = "performed" /\ media \notin ToSet(started)
               THEN Append(started, media) ELSE started
  IN IF \E e \in ToSet(l) : e.kind = "result" /\ e.call = c
     THEN shown ELSE Append(shown, Result(c, Confirmed(c)))

(* The log without its narration, repaired call by call.                    *)
RepairedLog(calls) ==
  LET repaired[i \in 0..Len(calls)] ==
        IF i = 0 THEN Those(log, OfTools) ELSE RepairDelivery(repaired[i - 1], calls[i])
  IN  repaired[Len(calls)]

(* A mutant: the steps of unanswered calls are cleared.                     *)
ResumeClears ==
  /\ status = "interrupted" /\ resumes < MaxResumes
  /\ \A c \in Answered : Confirmable(c)
  /\ log' = Those(log, OfTools)
  /\ steps' = [c \in Calls |-> IF c \in Answered THEN Confirmed(c) ELSE "none"]
  /\ status' = "running" /\ engine' = "start"
  /\ recording' = TRUE
  /\ round' = 0 /\ draft' = <<>> /\ todo' = <<>>
  /\ resolved' = FALSE /\ inCombat' = FALSE /\ held' = "none"
  /\ resumes' = resumes + 1
  /\ UNCHANGED <<transcript, bound, terminal, receipts, world, chan, applied>>

Resume ==
  /\ status = "interrupted" /\ resumes < MaxResumes
  /\ \A c \in Answered : Confirmable(c)      \* confirmed_tool_receipt_missing
  /\ log' = RepairedLog(Those(AskedCalls, Answered))
  /\ steps' = [c \in Calls |-> IF c \in Answered THEN Confirmed(c) ELSE steps[c]]
  /\ status' = "running" /\ engine' = "start"
  /\ recording' = TRUE
  /\ round' = 0 /\ draft' = <<>> /\ todo' = <<>>
  /\ resolved' = FALSE /\ inCombat' = FALSE /\ held' = "none"
  /\ resumes' = resumes + 1
  /\ UNCHANGED <<transcript, bound, terminal, receipts, world, chan, applied>>

Turn == ReplayFinal \/ Begin \/ OpenRound \/ SaveCalls \/ StopEarly \/ StopFinal
        \/ EmitText \/ EmitDone

Call(c) == StreamCall(c) \/ Replay(c) \/ Deny(c) \/ Withhold(c) \/ Admit(c)
           \/ (\E last \in BOOLEAN : Prepare(c, last))
           \/ ClaimStep(c) \/ Perform(c) \/ Refuse(c) \/ Roll(c) \/ Generate(c)
           \/ FinishStep(c) \/ EmitMedia(c) \/ Tell(c) \/ Publish(c)

Engine   == Turn \/ EngineStops \/ \E c \in Calls : Call(c)
Recorder == Record \/ RecordFails \/ Settle

Next == Engine \/ Recorder \/ Crash \/ OtherCommit \/ Resume

Spec == Init /\ [][Next]_vars

(* The engine's awaits end (a provider or a database that never answers is  *)
(* ended by its timeout or by a cancellation), and the recorder is polled.  *)
FairSpec == Spec /\ WF_vars(Engine) /\ WF_vars(Recorder)

-----------------------------------------------------------------------------
Effectful(c) == Kind[c] \in {"combat", "story", "media"}
ToldInLog(l) == Those(l, Verdicts)
AsEvents     == [i \in DOMAIN answers |-> Result(answers[i].call, answers[i].res)]

(* However often a turn is interrupted and resumed, and wherever, no tool   *)
(* call has its effect twice: not the actions with a receipt, and not the   *)
(* pictures, for which there is none.                                       *)
EffectOnce == \A c \in Calls : applied[c] <= 1

(* Success is never invented: whoever is told that a call was performed,    *)
(* the model through the transcript or a resume through the steps, its      *)
(* effect did happen.                                                       *)
ConfirmedMeansApplied ==
  \A c \in Calls : Effectful(c) /\ applied[c] = 0 =>
    /\ steps[c] # "performed"
    /\ [call |-> c, res |-> "performed"] \notin ToSet(answers)

(* The same of the client, who is told through the log.                     *)
ClientToldTruth ==
  \A c \in Calls : Effectful(c) /\ applied[c] = 0 => Result(c, "performed") \notin ToSet(log \o chan)

(* An effect happens once, and whoever is told of it is told the truth.     *)
EffectsAsConfirmed == EffectOnce /\ ConfirmedMeansApplied

(* A saved result can always be confirmed again: no interruption leaves a   *)
(* transcript that makes every resume fail (confirmed_tool_receipt_missing).*)
ResumeConfirms ==
  status = "interrupted" => \A c \in Answered : Confirmable(c)

(* A call is answered once: the transcript and the log hold at most one     *)
(* result of it, and the log has them in the order of the transcript.       *)
AnsweredInOrder ==
  /\ \A i, j \in DOMAIN answers : answers[i].call = answers[j].call => i = j
  /\ Len(ToldInLog(log)) <= Len(answers)
  /\ \A i \in DOMAIN ToldInLog(log) : ToldInLog(log)[i].call = answers[i].call

(* A die is cast once: step, transcript and client agree on every result,   *)
(* whichever of them was repaired from which.  (Combat actions are the      *)
(* exception RefusedMeansNotApplied is about.)                              *)
OneVerdict ==
  \A c \in Calls \ {d \in Calls : Kind[d] = "combat"} :
    /\ \A i \in DOMAIN answers : answers[i].call = c /\ steps[c] \in Results =>
         answers[i].res = steps[c]
    /\ \A e \in ToSet(log) : e.kind = "result" /\ e.call = c =>
         [call |-> c, res |-> e.res] \in ToSet(answers)

(* A complete delivery ends with the narration and its terminal marker, and *)
(* holds a result for every tool result of the transcript.                  *)
CompleteDelivery ==
  status = "complete" =>
    /\ Len(log) >= 2 /\ SubSeq(log, Len(log) - 1, Len(log)) = <<Text, Done>>
    /\ Len(ToldInLog(log)) = Len(answers)

(* The log follows the transcript step by step, to its end, and claims no   *)
(* effect that did not happen.                                              *)
CompleteAndInOrder == AnsweredInOrder /\ CompleteDelivery /\ ClientToldTruth

(* The turn has one player message and one final narration, and that is     *)
(* only written when every command the player gave has had its outcome.     *)
CommandsBeforeNarration == users <= 1 /\ finals <= 1 /\ (finals > 0 => Finished)

(* Nor is it written while a saved call still waits for its result.         *)
NarratedOnce ==
  CommandsBeforeNarration /\ (finals > 0 => Answered = ToSet(AskedCalls))

(* Neither a die nor the end of the story is told in two versions.          *)
ToldOneWay == OneVerdict /\ NarratedOnce

(* The player's commands are not exceeded: once each of them has an outcome *)
(* no further action of the hero is committed under this turn, and never    *)
(* is one committed that was not prepared for the world it changes.         *)
NothingBeyondTheCommands ==
  [][\A c \in Calls : applied'[c] # applied[c] /\ Resolution(c) =>
        ~Finished /\ bound[c] = revision]_vars

(* What a step, or the transcript, records of a call is never rewritten.    *)
RecordsFrozen ==
  [][/\ \A c \in Calls : steps[c] \in Results => steps'[c] = steps[c]
     /\ IsPrefix(answers, answers') /\ IsPrefix(asked, asked')
     /\ receipts \subseteq receipts']_vars

(* With a provider that answers, a running turn comes to an end: a model    *)
(* that keeps stopping early, or keeps calling tools, runs out of rounds.   *)
TurnEnds == (status = "running") ~> (status # "running")

(* docs/HUMAN_COMMAND_LEDGER.md: exact canonical receipts repair missing    *)
(* result metadata after an interruption between effect and transcript; so  *)
(* a call whose effect has a receipt is not answered as one that had none.  *)
RefusedMeansNotApplied ==
  \A i \in DOMAIN answers :
    answers[i].res \in Denials \cup {"refused"} => applied[answers[i].call] = 0
=============================================================================

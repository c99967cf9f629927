--------------------------- MODULE RequestDialogue ---------------------------
(***************************************************************************)
(* The talk around one request of a player: the plan the engine makes of    *)
(* it, the questions it asks back, the player's answers and the narration   *)
(* that ends it.  Every turn of the talk is a turn of the engine: a question *)
(* ends the turn as interrupted, and the answer resumes it.  The connection  *)
(* may break and the process may die at any step; what the client sends     *)
(* then follows from what it reads of the server's records.                 *)
(*                                                                         *)
(* Left out: the tool calls that carry a command out (ToolCheckpoints), the *)
(* conditions of a plan (CommandLedger), who may claim a turn and a newer   *)
(* request or a restored save that supersedes it (DurableTurns).  The two   *)
(* reads of useRecovery are one.                                            *)
(***************************************************************************)
EXTENDS Naturals, Sequences, FiniteSets, SequencesExt

CONSTANTS
    Plans,           \* the plans a planner may come to: sequences of goals
    Drafts,           \* drafts of a narration,
    Faithful,        \*   and those the verifier finds publishable
    NoTale,
    TurnRounds,      \* AgentTurnConfig.max_rounds
    MaxAsked,        \* bound: questions of a request
    MaxTurns         \* bound: turns of a request

ASSUME DialogueAssumption ==
    /\ Plans \subseteq Seq({"exact", "vague"}) \ {<<>>}
    /\ Faithful \subseteq Drafts /\ NoTale \notin Drafts
    /\ TurnRounds \in Nat \ {0} /\ MaxAsked \in Nat /\ MaxTurns \in Nat

VARIABLES
    request,         \* agent_turn_operations.status, "none" before
    plan, over,      \* the goals of the manifest, how many commands are over
    asks,            \* HumanCommandClarification: the word answering it, or 0
    tale,            \* final_narration
    story,           \* bound assistant messages of the session
    turns,
    clarification,   \* of the driver: the reply the turn was sent with
    phase, turnRound, attempt, draft, outcome,   \* the engine
    wire,            \* the client is connected to the running turn
    view,            \* useRecovery: "unknown" until the next probe
    known, sent,     \* the question to answer, the reply a resume repeats
    spoken,          \* the question each word of the player was typed for
    screen,          \* the questions and narrations the player has seen
    contradicted     \* a reply was refused

recordVars == <<request, plan, over, asks, tale, story>>
engineVars == <<clarification, phase, turnRound, attempt, draft, outcome>>
clientVars == <<wire, view, known, sent, spoken, screen>>
dialogueVars == <<recordVars, engineVars, clientVars, turns, contradicted>>

Unsent == [id |-> 0, word |-> 0]
AskOf(k) == [ask |-> k, tale |-> NoTale]
TaleOf(t) == [ask |-> 0, tale |-> t]
Silence == TaleOf(NoTale)

DialogueInit ==
    /\ request = "none" /\ plan = <<>> /\ over = 0 /\ asks = <<>> /\ tale = NoTale
    /\ story = <<>> /\ turns = 0
    /\ phase = "off" /\ turnRound = 0 /\ attempt = 0 /\ draft = NoTale /\ outcome = Silence
    /\ wire = FALSE /\ view = "unknown" /\ known = 0 /\ sent = Unsent /\ clarification = Unsent
    /\ spoken = <<>> /\ screen = {} /\ contradicted = FALSE

(* assess: faithful, finished, and conveying every required discovery.      *)
Publishable(t) == t \in Faithful

-----------------------------------------------------------------------------
(* Reading the records.                                                     *)
OpenQuestion == asks # <<>> /\ Last(asks) = 0
AllOver == plan # <<>> /\ over = Len(plan)
(* resolution_command: the first command that is not over has no goal yet.  *)
NeedsWord == over < Len(plan) /\ plan[over + 1] = "vague"

(* persist: the questions and the narration that are not bound yet.         *)
Utterances(questions, final) ==
    [k \in DOMAIN questions |-> AskOf(k)] \o (IF final = NoTale THEN <<>> ELSE <<TaleOf(final)>>)
AppendAgain(questions, final) ==   \* mutant: without looking for the id
    story' = story \o Utterances(questions, final)
AppendBound(questions, final) ==
    LET all == Utterances(questions, final)
        new == {k \in DOMAIN all : all[k] \notin ToSet(story)}
        nth == CHOOSE f \in [1..Cardinality(new) -> new] : \A i, j \in DOMAIN f : i < j => f[i] < f[j]
    IN story' = story \o [i \in 1..Cardinality(new) |-> all[nth[i]]]

-----------------------------------------------------------------------------
(* The client.                                                              *)
StartTurn(reply) ==
    /\ turns < MaxTurns /\ turns' = turns + 1
    /\ request' = "running" /\ clarification' = reply
    /\ phase' = IF reply = Unsent THEN "begin" ELSE "reply"
    /\ turnRound' = 0 /\ attempt' = 0
    /\ outcome' = Silence /\ wire' = TRUE /\ view' = "unknown"
    /\ UNCHANGED <<plan, over, asks, tale, story, draft, screen, contradicted>>

SendRequest ==
    /\ request = "none" /\ StartTurn(Unsent)
    /\ UNCHANGED <<known, sent, spoken>>

(* /agent/recovery and /agent/recovery-input: a running turn is waited for; *)
(* otherwise the last question is open, or its reply goes with the resume.  *)
ProbeTurn ==
    /\ request # "none" /\ ~wire /\ view \in {"unknown", "wait"}
    /\ request = "running" => phase # "off"      \* the process is alive
    /\ view' = CASE request = "running" -> "wait"
                 [] request = "complete" -> "none"
                 [] OTHER -> IF OpenQuestion THEN "clarify" ELSE "resume"
    /\ known' = IF OpenQuestion THEN Len(asks) ELSE 0
    /\ sent' = IF asks = <<>> \/ OpenQuestion THEN Unsent
               ELSE [id |-> Len(asks), word |-> Last(asks)]
    /\ UNCHANGED <<recordVars, engineVars, wire, spoken, screen, turns, contradicted>>

(* What the player types answers the question the client knows to be open.  *)
AnswerQuestion ==
    /\ ~wire /\ view = "clarify" /\ request = "interrupted"
    /\ spoken' = Append(spoken, known)
    /\ StartTurn([id |-> known, word |-> Len(spoken) + 1])
    /\ UNCHANGED <<known, sent>>

ContinueTurn ==
    /\ ~wire /\ view = "resume" /\ request = "interrupted"
    /\ StartTurn(sent)
    /\ UNCHANGED <<known, sent, spoken>>

LoseWire ==
    /\ wire /\ wire' = FALSE /\ view' = "unknown"
    /\ UNCHANGED <<recordVars, engineVars, known, sent, spoken, screen, turns, contradicted>>

-----------------------------------------------------------------------------
(* The turn.                                                                *)
Engine(from, to) == phase = from /\ phase' = to
KeepsClient == UNCHANGED <<clarification, wire, view, known, sent, spoken, screen, turns>>

(* record_reply, before the engine runs: a reply is recorded once, the same *)
(* one may come again.                                                      *)
FirstReply(old, word) == old = 0   \* mutant: only the first time
SameReply(old, word) == old \in {0, word}
TakeReply ==
    LET id == clarification.id
        fits == id \in DOMAIN asks /\ SameReply(asks[id], clarification.word) IN
    /\ phase = "reply" /\ phase' = IF fits THEN "begin" ELSE "failed"
    /\ asks' = IF fits THEN [asks EXCEPT ![id] = clarification.word] ELSE asks
    /\ IF fits THEN AppendBound(asks', tale) ELSE UNCHANGED story
    /\ contradicted' = (contradicted \/ ~fits)
    /\ UNCHANGED <<request, plan, over, tale, turnRound, attempt, draft, outcome>> /\ KeepsClient

(* run: a saved narration is told again; a saved manifest is taken up.      *)
TakeUpTurn ==
    /\ phase = "begin"
    /\ phase' = CASE tale # NoTale -> "tell" [] plan = <<>> -> "plan" [] OTHER -> "round"
    /\ outcome' = TaleOf(tale)
    /\ UNCHANGED <<recordVars, turnRound, attempt, draft, contradicted>> /\ KeepsClient

(* LlmHumanCommandPlanner::plan: one repair of a plan that does not quote   *)
(* the request; what the second look approves is saved.                     *)
RepairPlan ==
    /\ Engine("plan", "plan") /\ attempt = 0 /\ attempt' = 1
    /\ UNCHANGED <<recordVars, turnRound, draft, outcome, contradicted>> /\ KeepsClient
SavePlan ==
    /\ Engine("plan", "round") /\ plan' \in Plans
    /\ UNCHANGED <<request, over, asks, tale, story, turnRound, attempt, draft, outcome,
                   contradicted>> /\ KeepsClient

(* resolve_pending_command: an open question is asked again as it is.       *)
AsksAgain == NeedsWord /\ OpenQuestion
OpenNextRound ==
    /\ phase = "round" /\ turnRound < TurnRounds /\ turnRound' = turnRound + 1
    /\ phase' = CASE AsksAgain -> "tell" [] NeedsWord /\ ~AsksAgain -> "resolve"
                  [] OTHER -> "provider"
    /\ outcome' = IF AsksAgain THEN AskOf(Len(asks)) ELSE outcome
    /\ IF AsksAgain THEN AppendBound(asks, tale) ELSE UNCHANGED story
    /\ UNCHANGED <<request, plan, over, asks, tale, attempt, draft, contradicted>> /\ KeepsClient

ResolveCommand ==
    /\ Engine("resolve", "provider")
    /\ plan' = [plan EXCEPT ![over + 1] = "exact"]
    /\ AppendBound(asks, tale)
    /\ UNCHANGED <<request, over, asks, tale, turnRound, attempt, draft, outcome, contradicted>>
    /\ KeepsClient

AskPlayer ==
    /\ Engine("resolve", "tell") /\ Len(asks) < MaxAsked
    /\ asks' = Append(asks, 0) /\ AppendBound(asks', tale)
    /\ outcome' = AskOf(Len(asks'))
    /\ UNCHANGED <<request, plan, over, tale, turnRound, attempt, draft, contradicted>>
    /\ KeepsClient

(* One round of the provider: the calls that end the command that is due,   *)
(* or calls and a premature end that leave it as it was.                    *)
CarryOut ==
    /\ Engine("provider", "round")
    /\ over' \in IF over < Len(plan) /\ plan[over + 1] = "exact" THEN {over, over + 1} ELSE {over}
    /\ UNCHANGED <<request, plan, asks, tale, story, turnRound, attempt, draft, outcome,
                   contradicted>> /\ KeepsClient

StopWithDraft ==
    /\ Engine("provider", "verify") /\ AllOver
    /\ draft' \in Drafts /\ attempt' = 0
    /\ UNCHANGED <<recordVars, turnRound, outcome, contradicted>> /\ KeepsClient

(* verify_narration: one repair, and what is still not faithful is withheld. *)
RepairDraft ==
    /\ Engine("verify", "verify") /\ ~Publishable(draft) /\ attempt = 0
    /\ draft' \in Drafts /\ attempt' = 1
    /\ UNCHANGED <<recordVars, turnRound, outcome, contradicted>> /\ KeepsClient

TellFirst ==   \* mutant: the draft is told and not recorded
    /\ Engine("verify", "tell") /\ Publishable(draft)
    /\ outcome' = TaleOf(draft)
    /\ UNCHANGED <<recordVars, turnRound, attempt, draft, contradicted>> /\ KeepsClient
RecordTale ==
    /\ Engine("verify", "tell") /\ Publishable(draft) /\ tale = NoTale
    /\ tale' = draft /\ AppendBound(asks, draft)
    /\ outcome' = TaleOf(draft)
    /\ UNCHANGED <<request, plan, over, asks, turnRound, attempt, draft, contradicted>>
    /\ KeepsClient

(* TextDelta, then AgentNeedsInput or AgentDone, which the client receives  *)
(* after the operation is finished.                                         *)
TellPlayer ==
    /\ Engine("tell", "finish")
    /\ screen' = IF wire THEN screen \cup {outcome} ELSE screen
    /\ UNCHANGED <<recordVars, clarification, turnRound, attempt, draft, outcome, contradicted,
                   wire, view, known, sent, spoken, turns>>

Hangs ==
    /\ wire' = FALSE /\ view' = "unknown"
    /\ UNCHANGED <<clarification, known, sent, spoken, screen, turns>>
FinishTurn ==
    /\ Engine("finish", "off")
    /\ request' = IF outcome.tale # NoTale THEN "complete" ELSE "interrupted"
    /\ UNCHANGED <<plan, over, asks, tale, story, turnRound, attempt, draft, outcome,
                   contradicted>> /\ Hangs

(* The provider, a verifier or the store fails, the rounds are used up, the *)
(* client is gone.                                                          *)
FailTurn ==
    /\ phase # "off" /\ phase' = "off" /\ request' = "interrupted"
    /\ UNCHANGED <<plan, over, asks, tale, story, turnRound, attempt, draft, outcome,
                   contradicted>> /\ Hangs

DieInTurn ==
    /\ phase # "off" /\ phase' = "off"
    /\ UNCHANGED <<recordVars, turnRound, attempt, draft, outcome, contradicted>> /\ Hangs
RecoverTurn ==
    /\ phase = "off" /\ request = "running" /\ request' = "interrupted"
    /\ UNCHANGED <<plan, over, asks, tale, story, engineVars, contradicted, wire, view, known,
                   sent, spoken, screen, turns>>

DialogueNext ==
    \/ SendRequest \/ ProbeTurn \/ AnswerQuestion \/ ContinueTurn \/ LoseWire
    \/ TakeReply \/ TakeUpTurn \/ RepairPlan \/ SavePlan
    \/ OpenNextRound \/ ResolveCommand \/ AskPlayer \/ CarryOut
    \/ StopWithDraft \/ RepairDraft \/ RecordTale
    \/ TellPlayer \/ FinishTurn \/ FailTurn \/ DieInTurn \/ RecoverTurn

DialogueSpec == DialogueInit /\ [][DialogueNext]_dialogueVars
-----------------------------------------------------------------------------
(* However often a turn breaks off: a word of the player answers the        *)
(* question it was typed for and is never refused; whatever the player was  *)
(* shown is on record once, one question at most is open, and the story     *)
(* ends with one verified narration of commands that are all over.          *)
DialogueFaithful ==
    /\ ~contradicted
    /\ \A k \in DOMAIN asks : asks[k] # 0 => spoken[asks[k]] = k
    /\ \A k \in 1..(Len(asks) - 1) : asks[k] # 0
    /\ IsInjective(story)
    /\ ToSet(story) = {AskOf(k) : k \in DOMAIN asks}
                      \cup (IF tale = NoTale THEN {} ELSE {TaleOf(tale)})
    /\ screen \subseteq ToSet(story)
    /\ tale # NoTale => tale \in Faithful /\ AllOver
=============================================================================

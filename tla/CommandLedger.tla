--------------------------- MODULE CommandLedger ---------------------------
(***************************************************************************)
(* The ledger of one player's request: the verified manifest of commands,  *)
(* the bindings of the tool calls prepared for them, the outcomes of their  *)
(* canonical receipts, the questions asked and the final narration.  Each  *)
(* operation reads the ledger and writes it in one transaction; what it    *)
(* may do is decided by HumanCommandManifest::progress.                    *)
(*                                                                         *)
(* Left out: spans and quotes of the request; the owner, the timeline and  *)
(* the world revision a call was prepared at, which ToolCheckpoints and    *)
(* RoomDmTurns follow.  A goal is the kind of its action: "check" is a     *)
(* roll with a hero check, "move" may take intermediate moves, "act" is    *)
(* any other one.                                                          *)
(***************************************************************************)
EXTENDS Naturals, Sequences, FiniteSets, SequencesExt

CONSTANTS
    MaxManifest,     \* commands of a manifest
    MaxSteps,        \* bound of the model: calls prepared for one command
    MaxQuestions,    \* bound of the model
    Codes            \* definitive refusals

ASSUME LedgerAssumption ==
    /\ MaxManifest \in Nat /\ MaxSteps \in Nat /\ MaxQuestions \in Nat /\ Codes # {}
    /\ Codes \cap {"none", "success", "failure", "performed"} = {}

VARIABLES
    manifest,        \* its commands, in the order of the request; <<>> before
    bindings,        \* per command, the calls bound to it, in step order
    questions,       \* HumanCommandClarification: the command, is it answered
    narrated         \* final_narration is saved

ledgerVars == <<manifest, bindings, questions, narrated>>

Goals == {"check", "move", "act", "unclear"}
Exact == Goals \ {"unclear"}
Always == [on |-> 0, that |-> "always", code |-> 0]

-----------------------------------------------------------------------------
(* validate_structure.                                                     *)
Conditions(commands, i) ==
    {Always}
    \cup [on : {j \in 1..(i - 1) : commands[j].goal = "check"},
          that : {"succeeded", "failed"}, code : {0}]
    \cup [on : 1..(i - 1), that : {"refused"}, code : {0}]
    \cup [on : 1..(i - 1), that : {"because"}, code : Codes]

ValidManifest(commands) ==
    \A i \in DOMAIN commands : commands[i].when \in Conditions(commands, i)

Manifests ==
    UNION {{c \in [1..n -> [goal : Goals,
                            when : Conditions([k \in 1..n |-> [goal |-> "check"]], n)]] :
               ValidManifest(c)} : n \in 1..MaxManifest}

-----------------------------------------------------------------------------
(* Outcomes of a call: none yet, a roll, performed, or refused with a code. *)
Outcome(call) == call.outcome
IsRefusal(call) == Outcome(call) \in Codes
Answered(call) == Outcome(call) # "none"

(* The outcome a condition on command i looks at: of its terminal call, or *)
(* the refusal that ended it earlier.                                      *)
Deciding(i) == {k \in DOMAIN bindings[i] : Answered(bindings[i][k])
                                        /\ (bindings[i][k].terminal \/ IsRefusal(bindings[i][k]))}

(* May the command run?  "unknown" when the outcome does not say.          *)
TriggeredBy(when) ==
    IF Deciding(when.on) = {} THEN "unknown"
    ELSE LET call == bindings[when.on][CHOOSE k \in Deciding(when.on) : TRUE]
             says(b) == IF b THEN "yes" ELSE "no"
         IN CASE when.that = "refused" -> says(IsRefusal(call))
              [] when.that = "because" -> says(Outcome(call) = when.code)
              [] when.that = "succeeded" /\ Outcome(call) \in {"success", "failure"} ->
                    says(Outcome(call) = "success")
              [] when.that = "failed" /\ Outcome(call) \in {"success", "failure"} ->
                    says(Outcome(call) = "failure")
              [] OTHER -> "unknown"

Dealt == {"finished", "not triggered"}

(* What the calls of a triggered command amount to.                        *)
OwnProgress(i) ==
    LET mine == bindings[i]
        last == Len(mine)
    IN IF \E k \in DOMAIN mine : IsRefusal(mine[k]) THEN "finished"
       ELSE IF \E k \in DOMAIN mine : ~Answered(mine[k]) THEN "prepared"
       ELSE IF last > 0 /\ mine[last].terminal THEN "finished"
       ELSE IF manifest[i].goal = "unclear" THEN "needs resolution" ELSE "ready"

ProgressIgnoringOrder ==   \* mutant: an open earlier command does not matter
    LET status[i \in DOMAIN manifest] ==
          LET when == manifest[i].when
              active == IF when = Always THEN "yes"
                        ELSE IF status[when.on] = "not triggered" THEN "no"
                        ELSE TriggeredBy(when)
          IN CASE active = "unknown" -> "waiting for condition"
               [] active = "no" -> "not triggered"
               [] OTHER -> OwnProgress(i)
    IN status

(* HumanCommandManifest::progress.                                         *)
Progress ==
    LET status[i \in DOMAIN manifest] ==
          LET when == manifest[i].when
              active == IF when = Always THEN "yes"
                        ELSE IF status[when.on] = "not triggered" THEN "no"
                        ELSE TriggeredBy(when)
          IN IF \E j \in 1..(i - 1) : status[j] \notin Dealt THEN "waiting for previous"
             ELSE CASE active = "unknown" -> "waiting for condition"
                    [] active = "no" -> "not triggered"
                    [] OTHER -> OwnProgress(i)
    IN status

(* The inconsistencies progress rejects: steps after the last word of a    *)
(* command, calls of a command that is not due, calls without a goal.      *)
Consistent ==
    \A i \in DOMAIN manifest :
        /\ \A k \in DOMAIN bindings[i] : k < Len(bindings[i]) =>
              /\ ~bindings[i][k].terminal /\ Answered(bindings[i][k]) /\ ~IsRefusal(bindings[i][k])
        /\ bindings[i] # <<>> =>
              /\ Progress[i] \in {"finished", "prepared", "ready"}
              /\ manifest[i].goal # "unclear"
        /\ \A k \in DOMAIN bindings[i] : ~bindings[i][k].terminal => manifest[i].goal = "move"

(* resolution_command: the command that waits for a word of the player.    *)
Resolving == {i \in DOMAIN manifest : Progress[i] = "needs resolution"}
AllDealt == \A i \in DOMAIN manifest : Progress[i] \in Dealt
Asking == questions # <<>> /\ ~Last(questions).answered

(* validate_clarifications.                                                *)
Orderly ==
    /\ narrated => AllDealt
    /\ \A q \in 1..(Len(questions) - 1) : questions[q].answered
    /\ Asking => Last(questions).about \in Resolving

(* load_ledger: what is read must hold together, or the turn is stuck.     *)
Loaded == Consistent /\ Orderly /\ manifest # <<>>

-----------------------------------------------------------------------------
LedgerInit ==
    /\ manifest = <<>> /\ bindings = <<>> /\ questions = <<>>
    /\ narrated = FALSE

(* save_verified_manifest; saving it again changes nothing.                *)
SaveManifest ==
    /\ manifest = <<>> /\ manifest' \in Manifests
    /\ bindings' = [i \in DOMAIN manifest' |-> <<>>]
    /\ UNCHANGED <<questions, narrated>>

(* prepare_after_permission: check_binding and prepare_binding, and with   *)
(* the binding the step of the tool.                                       *)
PrepareCall(i, terminal) ==
    /\ Len(bindings[i]) < MaxSteps
    /\ ~terminal => manifest[i].goal = "move" /\ Len(bindings[i]) + 1 < MaxSteps
    /\ Progress[i] = "ready"
    /\ bindings' = [bindings EXCEPT ![i] = Append(@, [terminal |-> terminal, outcome |-> "none"])]
    /\ UNCHANGED <<manifest, questions, narrated>>

(* require_prepared_context: the effect asks for its binding in the        *)
(* ledger, which has no receipt yet.  Whose turn it is, and whether the    *)
(* world has moved on, is looked at in ToolCheckpoints.                    *)
BindingOpen(i) == bindings[i] # <<>> /\ ~Answered(Last(bindings[i]))

(* The canonical receipt of the call: a check is rolled, other actions are *)
(* performed or refused.                                                   *)
Conclude(i, outcome) ==
    LET k == Len(bindings[i]) IN
    /\ BindingOpen(i)
    /\ IF manifest[i].goal = "check" THEN outcome \in {"success", "failure"}
                                     ELSE outcome \in {"performed"} \cup Codes
    /\ bindings' = [bindings EXCEPT ![i][k].outcome = outcome]
    /\ UNCHANGED <<manifest, questions, narrated>>

(* record_question: the same question may be recorded again.               *)
Question(i) ==
    /\ ~Asking /\ Len(questions) < MaxQuestions /\ i \in Resolving
    /\ questions' = Append(questions, [about |-> i, answered |-> FALSE])
    /\ UNCHANGED <<manifest, bindings, narrated>>

Reply ==
    /\ Asking
    /\ questions' = [questions EXCEPT ![Len(questions)].answered = TRUE]
    /\ UNCHANGED <<manifest, bindings, narrated>>

(* resolve_goal, and persist with its second look at the structure.        *)
MayResolveAsked(i) == i \in Resolving /\ bindings[i] = <<>>   \* mutant: before the reply
MayResolve(i) == bindings[i] = <<>> /\ ~Asking /\ i \in Resolving
ResolveGoal(i, goal) ==
    /\ MayResolve(i)
    /\ manifest' = [manifest EXCEPT ![i].goal = goal] /\ ValidManifest(manifest')
    /\ UNCHANGED <<bindings, questions, narrated>>

(* record_final.                                                           *)
NarrateFinal ==
    /\ AllDealt /\ ~narrated /\ narrated' = TRUE
    /\ UNCHANGED <<manifest, bindings, questions>>

(* Every transaction on a saved manifest loads the ledger first.           *)
Transaction ==
    \/ Reply \/ NarrateFinal
    \/ \E i \in DOMAIN manifest :
          \/ \E terminal \in BOOLEAN : PrepareCall(i, terminal)
          \/ \E outcome \in {"success", "failure", "performed"} \cup Codes : Conclude(i, outcome)
          \/ Question(i)
          \/ \E goal \in Exact : ResolveGoal(i, goal)

LedgerNext == SaveManifest \/ (Loaded /\ Transaction)

LedgerSpec == LedgerInit /\ [][LedgerNext]_ledgerVars

-----------------------------------------------------------------------------
(* The ledger written by one step is read by the next one: it holds        *)
(* together, and it is either done or names a command that can go on; no   *)
(* condition is left without an answer.                                    *)
LedgerGoesOn ==
    /\ Consistent /\ Orderly
    /\ \A i \in DOMAIN manifest : Progress[i] # "waiting for condition"
    /\ AllDealt \/ \E i \in DOMAIN manifest :
                       Progress[i] \in {"ready", "prepared", "needs resolution"}

(* A command runs only when the ones before it are over and its condition  *)
(* came true, as the player meant it: carried out in order.                *)
Happened(i) == bindings[i] # <<>>
Meant(i) ==
    LET when == manifest[i].when
        end == Last(bindings[when.on])
    IN \/ when = Always
       \/ /\ Happened(when.on)
          /\ CASE when.that = "refused" -> IsRefusal(end)
               [] when.that = "because" -> Outcome(end) = when.code
               [] when.that = "succeeded" -> Outcome(end) = "success"
               [] OTHER -> Outcome(end) = "failure"
RunsAsMeant ==
    \A i \in DOMAIN manifest : Happened(i) =>
        /\ Meant(i)
        /\ \A j \in 1..(i - 1) :
              IF Happened(j) THEN LET end == Last(bindings[j])
                                  IN Answered(end) /\ (end.terminal \/ IsRefusal(end))
              ELSE ~Meant(j)

(* The player's commands are carried out as they were given, to the end.    *)
CommandsAsGiven == LedgerGoesOn /\ RunsAsMeant
=============================================================================

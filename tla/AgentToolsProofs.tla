--------------------------- MODULE AgentToolsProofs ---------------------------
(***************************************************************************)
(* Proofs about the tools of a Dungeon Master's turn.  Of their records    *)
(* (ToolCheckpoints), for every set of calls, every manifest and every     *)
(* bound: what they guarantee however often a turn is interrupted and      *)
(* resumed (CheckpointInv), and that the answers follow the calls and the  *)
(* client's log the answers (DeliveryInv).  Of what they write, the table  *)
(* (TableTools) and the memory of characters (NpcMemory), for every number *)
(* of campaigns, turns, tokens and facts.                                  *)
(***************************************************************************)
EXTENDS ToolCheckpoints, TableTools, NpcMemory,
        FiniteSetTheorems, SequenceTheorems, WellFoundedInduction, TLAPS

-----------------------------------------------------------------------------
(* The inductive invariant, in parts.                                       *)

(* The records and what the engine holds have their types.  The log is part *)
(* of StreamFollows: its type rests on what a resume makes of it.           *)
RecordsTyped ==
  /\ steps \in [Calls -> {"none", "pending"} \cup Results]
  /\ bound \in [Calls -> Nat \cup {Unprepared}] /\ terminal \in [Calls -> BOOLEAN]
  /\ receipts \subseteq Calls /\ applied \in [Calls -> Nat]
  /\ asked \in Seq(Seq(Calls)) /\ answers \in Seq([call : Calls, res : Results])
  /\ users \in Nat /\ finals \in Nat /\ revision \in Nat
  /\ draft \in Seq(Calls) /\ held \in Results \cup {"none"}

(* The call the engine is at, in one of the given stages.                   *)
AtHand(c, stages) == engine \in stages /\ c = Head(todo)

(* What the engine holds between two statements is backed by the records.   *)
HeldBacked ==
  \A c \in Calls :
    /\ AtHand(c, {"effect", "finish"}) => steps[c] = "pending"
    /\ AtHand(c, {"finish", "media", "tell"}) => held \in Results
    /\ AtHand(c, {"media", "tell"}) => Recorded(c) # "none" \/ held \in Denials

(* So is every answer of the transcript.                                    *)
AnswersBacked ==
  \A i \in DOMAIN answers :
    Recorded(answers[i].call) # "none" \/ answers[i].res \in Denials \cup {"refused"}

(* At most one call is prepared and has no outcome; its command is open;    *)
(* the engine acts under a preparation only.                                *)
OnePreparation ==
  \A c \in Calls :
    /\ Prepared(c) => ~Finished /\ \A d \in Calls : Prepared(d) => c = d
    /\ AtHand(c, {"claim", "effect"}) /\ Resolution(c) => Prepared(c)

(* An effect is counted by its receipt; a picture, which has none, is not   *)
(* drawn before its step is claimed.  Whoever holds a success has its effect.*)
EffectsCounted ==
  \A c \in Calls :
    /\ Kind[c] \in {"combat", "story"} => applied[c] = IF c \in receipts THEN 1 ELSE 0
    /\ Kind[c] \in {"dice", "media"} => c \notin receipts
    /\ Kind[c] = "dice" => applied[c] = 0
    /\ Kind[c] = "media" => applied[c] <= 1
    /\ Kind[c] = "media" /\ (steps[c] = "none" \/ AtHand(c, {"effect"})) => applied[c] = 0
    /\ Effectful(c) /\ steps[c] = "performed" => applied[c] # 0
    /\ Effectful(c) /\ AtHand(c, {"finish", "media", "tell"}) /\ held = "performed"
         => applied[c] # 0

AnswersApplied ==
  \A i \in DOMAIN answers :
    Effectful(answers[i].call) /\ answers[i].res = "performed" => applied[answers[i].call] # 0

(* The narration is the last thing the engine saves.                        *)
NarrationLast ==
  /\ users <= 1 /\ finals <= 1
  /\ finals > 0 => Finished /\ engine \in {"off", "start", "final", "done", "ended", "failed"}

CheckpointInv ==
  /\ RecordsTyped /\ HeldBacked /\ AnswersBacked /\ OnePreparation /\ EffectsCounted
  /\ AnswersApplied /\ NarrationLast
-----------------------------------------------------------------------------
(* What the words of the records are, and are not.                          *)
LEMMA Words ==
  /\ "none" \notin Results /\ "pending" \notin Results
  /\ {"performed", "broken", "refused", "fresh"} \subseteq Results
  /\ Denials \subseteq Results /\ Rolls \subseteq Results
  /\ {"performed", "refused"} \cap (Denials \cup Rolls) = {}
BY CheckpointConstants DEF Results, Denials

(* An element of a sequence is one of its set.                              *)
LEMMA SeqElement ==
  ASSUME NEW S, NEW s \in Seq(S), NEW i \in DOMAIN s
  PROVE  s[i] \in S
OBVIOUS

(* A call with an answer has one that AnswerOf finds.                       *)
LEMMA AnswerOfAnswered ==
  ASSUME NEW c \in Answered
  PROVE  \E i \in DOMAIN answers : answers[i].call = c /\ AnswerOf(c) = answers[i].res
<1>1. \E i \in DOMAIN answers : answers[i].call = c
  BY DEF Answered
<1> QED BY <1>1 DEF AnswerOf

(* Loading the ledger, with its repairs, leaves what is recorded alone.     *)
Quiet ==
  steps' \in {steps, Repaired} /\ UNCHANGED <<bound, terminal, receipts, applied>>

LEMMA QuietRecords ==
  ASSUME RecordsTyped, Quiet
  PROVE  /\ steps' \in [Calls -> {"none", "pending"} \cup Results]
         /\ \A c \in Calls : Recorded(c)' = Recorded(c) /\ (Prepared(c)' <=> Prepared(c))
         /\ Finished' <=> Finished
         /\ \A c \in Calls : steps[c] \in Results \cup {"none"} => steps'[c] = steps[c]
         /\ \A c \in Calls : steps'[c] # steps[c] => steps'[c] = "performed" /\ c \in receipts
<1> USE Words DEF RecordsTyped, Quiet
<1>1. /\ steps' \in [Calls -> {"none", "pending"} \cup Results]
      /\ \A c \in Calls : steps'[c] # steps[c] =>
            steps[c] = "pending" /\ steps'[c] = "performed" /\ c \in receipts
  BY DEF Repaired
<1>2. \A c \in Calls : Recorded(c)' = Recorded(c)
  BY <1>1 DEF Recorded
<1>3. \A c \in Calls : Prepared(c)' <=> Prepared(c)
  BY <1>2 DEF Prepared
<1>4. Closing' = Closing
  BY <1>2 DEF Closing
<1>5. Finished' <=> Finished
  BY <1>4 DEF Finished
<1> QED BY <1>1, <1>2, <1>3, <1>5

(* Every step is a quiet one, away from the call at hand; or one of a call; *)
(* or a resume.                                                             *)
Elsewhere ==
  \/ engine' \notin {"claim", "effect", "finish", "media", "tell"}
  \/ UNCHANGED <<engine, todo, held, steps>>

AtCall(c) ==
  \/ Replay(c) \/ Deny(c) \/ Withhold(c) \/ Admit(c) \/ (\E last \in BOOLEAN : Prepare(c, last))
  \/ ClaimStep(c) \/ Perform(c) \/ Refuse(c) \/ Roll(c) \/ Generate(c) \/ FinishStep(c)
  \/ EmitMedia(c)

LEMMA Moves ==
  ASSUME [Next]_vars
  PROVE  (Quiet /\ Elsewhere) \/ (\E c \in Calls : AtCall(c)) \/ Resume
<1> USE DEF Quiet, Elsewhere
<1>1. CASE UNCHANGED vars
  BY <1>1 DEF vars, ledger, local
<1>2. CASE Turn
  BY <1>2 DEF Turn, ReplayFinal, Begin, OpenRound, SaveCalls, StopEarly, StopFinal, EmitText,
     EmitDone, LoadLedger, ledger, local
<1>3. ASSUME NEW c \in Calls, Call(c) PROVE (Quiet /\ Elsewhere) \/ AtCall(c)
  BY <1>3 DEF Call, AtCall, StreamCall, Tell, Publish, ledger, local
<1>4. CASE EngineStops \/ Recorder \/ Crash \/ OtherCommit
  BY <1>4 DEF EngineStops, Recorder, Record, RecordFails, Settle, Crash, OtherCommit, ledger, local
<1> QED BY <1>1, <1>2, <1>3, <1>4 DEF Next, Engine

-----------------------------------------------------------------------------
(* Every step keeps the types of the records.                               *)
LEMMA RecordsTypedStep ==
  ASSUME CheckpointInv, [Next]_vars
  PROVE  RecordsTyped'
<1> USE Words DEF CheckpointInv, RecordsTyped
<1> DEFINE LedgerTyped == /\ steps \in [Calls -> {"none", "pending"} \cup Results]
                          /\ bound \in [Calls -> Nat \cup {Unprepared}]
                          /\ terminal \in [Calls -> BOOLEAN]
                          /\ receipts \subseteq Calls /\ applied \in [Calls -> Nat]
           RestTyped == /\ asked \in Seq(Seq(Calls)) /\ answers \in Seq([call : Calls, res : Results])
                        /\ users \in Nat /\ finals \in Nat /\ revision \in Nat
                        /\ draft \in Seq(Calls) /\ held \in Results \cup {"none"}
<1>1. LedgerTyped'
  <2>1. CASE Quiet
    BY <2>1, QuietRecords DEF Quiet
  <2>2. ASSUME NEW c \in Calls, AtCall(c), ~Quiet PROVE LedgerTyped'
    <3> Repaired \in [Calls -> {"none", "pending"} \cup Results]
      BY DEF Repaired
    <3>1. Recorded(c) \in Results \cup {"none"}
      BY DEF Recorded
    <3>2. CASE Replay(c)
      BY <3>1, <3>2 DEF Replay
    <3>3. ASSUME NEW last \in BOOLEAN, Prepare(c, last) PROVE LedgerTyped'
      BY <3>3 DEF Prepare
    <3>4. CASE ClaimStep(c)
      BY <3>4 DEF ClaimStep
    <3>5. CASE Perform(c)
      BY <3>5 DEF Perform
    <3>6. CASE Generate(c)
      <4>1. applied' = [applied EXCEPT ![c] = @ + 1] \/ applied' = applied
        BY <3>6 DEF Generate
      <4>2. applied' \in [Calls -> Nat]
        BY <4>1
      <4> QED BY <3>6, <4>2 DEF Generate, ledger
    <3>7. CASE FinishStep(c)
      <4>1. held \in Results
        BY <3>7 DEF FinishStep, HeldBacked, AtHand
      <4> QED BY <3>7, <4>1 DEF FinishStep
    <3> QED BY <2>2, <3>2, <3>3, <3>4, <3>5, <3>6, <3>7 DEF AtCall, Quiet, Deny, Withhold, Admit, Refuse, Roll,
            EmitMedia, LoadLedger, ledger
  <2>3. CASE Resume
    <3>1. ASSUME NEW c \in Answered PROVE Confirmed(c) \in Results
      <4>1. PICK i \in DOMAIN answers : AnswerOf(c) = answers[i].res
        BY AnswerOfAnswered
      <4>2. answers \in Seq([call : Calls, res : Results])
        OBVIOUS
      <4>3. answers[i] \in [call : Calls, res : Results]
        BY <4>1, <4>2, SeqElement
      <4> QED BY <4>1, <4>3 DEF Confirmed, Recorded
    <3> QED BY <2>3, <3>1 DEF Resume
  <2> QED BY <2>1, <2>2, <2>3, Moves
<1>2. RestTyped'
  <2>1. CASE UNCHANGED vars
    BY <2>1 DEF vars, transcript, world, local
  <2>2. CASE Turn
    <3>1. CASE SaveCalls
      <4>1. Append(asked, draft) \in Seq(Seq(Calls))
        OBVIOUS
      <4> QED BY <3>1, <4>1 DEF SaveCalls, world
    <3>2. CASE ReplayFinal
      BY <3>2 DEF ReplayFinal, transcript, world, local
    <3>4. CASE Begin
      BY <3>4 DEF Begin, world
    <3>5. CASE OpenRound
      BY <3>5 DEF OpenRound, transcript, world
    <3>3. CASE StopEarly \/ StopFinal \/ EmitText \/ EmitDone
      BY <3>3 DEF StopEarly, StopFinal, EmitText, EmitDone, transcript, world, local
    <3> QED BY <2>2, <3>1, <3>2, <3>3, <3>4, <3>5 DEF Turn
  <2>3. ASSUME NEW c \in Calls, Call(c) PROVE RestTyped'
    <3>1. Recorded(c) \in Results \cup {"none"} /\ steps[c] \in {"none", "pending"} \cup Results
      BY DEF Recorded
    <3>2. CASE Tell(c)
      <4>1. held \in Results
        BY <3>2 DEF Tell, HeldBacked, AtHand
      <4> QED BY <3>2, <4>1 DEF Tell, world, local
    <3>3. CASE StreamCall(c) \/ Publish(c)
      <4>1. Append(draft, c) \in Seq(Calls)
        OBVIOUS
      <4> QED BY <3>3, <4>1 DEF StreamCall, Publish, transcript, world
    <3>4. CASE Replay(c) \/ Deny(c) \/ Withhold(c) \/ Admit(c) \/ \E last \in BOOLEAN : Prepare(c, last)
      BY <3>1, <3>4 DEF Replay, Deny, Withhold, Admit, Prepare, transcript, world, local, Denials, Results
    <3>5. CASE ClaimStep(c) \/ Perform(c) \/ Refuse(c) \/ Roll(c) \/ Generate(c)
      BY <3>1, <3>5 DEF ClaimStep, Perform, Refuse, Roll, Generate, transcript, world, local
    <3>6. CASE FinishStep(c)
      <4>1. revision' \in Nat
        BY <3>6 DEF FinishStep
      <4> QED BY <3>6, <4>1 DEF FinishStep, transcript
    <3>7. CASE EmitMedia(c)
      BY <3>7 DEF EmitMedia, transcript, world, local
    <3> QED BY <2>3, <3>2, <3>3, <3>4, <3>5, <3>6, <3>7 DEF Call
  <2>4. CASE EngineStops \/ Recorder \/ Crash \/ OtherCommit
    BY <2>4 DEF EngineStops, Recorder, Record, RecordFails, Settle, Crash, OtherCommit, transcript,
       world, local
  <2>5. CASE Resume
    BY <2>5 DEF Resume, transcript, world
  <2> QED BY <2>1, <2>2, <2>3, <2>4, <2>5 DEF Next, Engine
<1> QED BY <1>1, <1>2

(* What is recorded of a call stays recorded; the lemma behind              *)
(* RecordsFrozen, and behind every part of the invariant that speaks of     *)
(* records.                                                                 *)
LEMMA RecordsKept ==
  ASSUME CheckpointInv, [Next]_vars
  PROVE  /\ \A c \in Calls : steps[c] \in Results => steps'[c] = steps[c]
         /\ \A c \in Calls : Recorded(c) # "none" => Recorded(c)' = Recorded(c)
         /\ receipts \subseteq receipts'
<1> USE Words DEF CheckpointInv, RecordsTyped
<1> DEFINE Kept(d) == /\ steps[d] \in Results => steps'[d] = steps[d]
                      /\ Recorded(d) # "none" => Recorded(d)' = Recorded(d)
                      /\ d \in receipts => d \in receipts'
<1>1. CASE Quiet
  <2>1. \A d \in Calls : Kept(d)
    BY <1>1, QuietRecords DEF Quiet
  <2> QED BY <2>1, <1>1 DEF Quiet
<1>2. ASSUME NEW c \in Calls, AtCall(c), ~Quiet, NEW d \in Calls PROVE Kept(d)
  <2>1. /\ Repaired[d] # steps[d] => steps[d] = "pending" /\ Repaired[d] = "performed" /\ d \in receipts
        /\ Repaired \in [Calls -> {"none", "pending"} \cup Results]
    BY DEF Repaired
  <2>2. CASE Replay(c)
    BY <2>1, <2>2 DEF Replay, Recorded
  <2>3. ASSUME NEW last \in BOOLEAN, Prepare(c, last) PROVE Kept(d)
    BY <2>1, <2>3 DEF Prepare, Recorded
  <2>4. CASE ClaimStep(c)
    BY <2>4 DEF ClaimStep, Recorded
  <2>5. CASE Perform(c)
    <3>1. c \notin receipts => Recorded(c) = "none" /\ steps[c] = "pending"
      BY <2>5 DEF Perform, HeldBacked, AtHand, Recorded
    <3> QED BY <2>5, <3>1 DEF Perform, Recorded
  <2>6. CASE Generate(c)
    BY <2>6 DEF Generate, Recorded, ledger
  <2>7. CASE FinishStep(c)
    BY <2>7 DEF FinishStep, Recorded
  <2> QED BY <1>2, <2>2, <2>3, <2>4, <2>5, <2>6, <2>7 DEF AtCall, Quiet, Deny, Withhold, Admit, Refuse, Roll,
          EmitMedia, LoadLedger, ledger
<1>3. ASSUME Resume, NEW d \in Calls PROVE Kept(d)
  BY <1>3 DEF Resume, Confirmed, Recorded
<1> QED
  <2>1. \A d \in Calls : Kept(d)
    BY <1>1, <1>2, <1>3, Moves, QuietRecords DEF Quiet
  <2> QED BY <2>1

-----------------------------------------------------------------------------
(* What the engine holds stays backed by the records.                       *)
LEMMA HeldBackedStep ==
  ASSUME CheckpointInv, [Next]_vars
  PROVE  HeldBacked'
<1> USE Words DEF CheckpointInv, RecordsTyped, HeldBacked, AtHand
<1> DEFINE Backed(d) == /\ AtHand(d, {"effect", "finish"}) => steps[d] = "pending"
                        /\ AtHand(d, {"finish", "media", "tell"}) => held \in Results
                        /\ AtHand(d, {"media", "tell"}) => Recorded(d) # "none" \/ held \in Denials
<1>1. \A d \in Calls : Recorded(d) # "none" => Recorded(d)' # "none"
  BY RecordsKept
<1>2. ASSUME Quiet, Elsewhere, NEW d \in Calls PROVE Backed(d)'
  BY <1>1, <1>2 DEF Elsewhere
<1>3. ASSUME NEW c \in Calls, AtCall(c), NEW d \in Calls PROVE Backed(d)'
  <2>1. CASE Replay(c)
    <3>1. Recorded(c) \in Results
      BY <2>1 DEF Replay, Recorded
    <3> QED BY <1>1, <2>1, <3>1 DEF Replay
  <2>2. CASE Deny(c)
    BY <2>2 DEF Deny, Denials
  <2>3. CASE Withhold(c)
    BY <2>3 DEF Withhold, Denials
  <2>4. CASE Admit(c) \/ \E last \in BOOLEAN : Prepare(c, last)
    BY <2>4 DEF Admit, Prepare
  <2>5. CASE ClaimStep(c)
    <3>1. steps[c] \in Results => Recorded(c) # "none"
      BY DEF Recorded
    <3> QED BY <1>1, <2>5, <3>1 DEF ClaimStep
  <2>6. CASE Perform(c)
    BY <2>6 DEF Perform
  <2>7. CASE Refuse(c)
    BY <2>7 DEF Refuse, ledger, local
  <2>8. CASE Roll(c)
    BY <2>8 DEF Roll, ledger, local
  <2>9. CASE Generate(c)
    BY <2>9 DEF Generate, ledger, local
  <2>10. CASE FinishStep(c)
    <3>1. steps'[c] = held /\ held \in Results
      BY <2>10 DEF FinishStep
    <3>2. Recorded(c)' # "none"
      BY <3>1 DEF Recorded
    <3> QED BY <2>10, <3>1, <3>2 DEF FinishStep
  <2>11. CASE EmitMedia(c)
    BY <1>1, <2>11 DEF EmitMedia, ledger, local
  <2> QED BY <1>3, <2>1, <2>2, <2>3, <2>4, <2>5, <2>6, <2>7, <2>8, <2>9, <2>10, <2>11 DEF AtCall
<1>4. ASSUME Resume, NEW d \in Calls PROVE Backed(d)'
  BY <1>4 DEF Resume
<1> QED
  <2>1. \A d \in Calls : Backed(d)'
    BY <1>2, <1>3, <1>4, Moves
  <2> QED BY <2>1

(* The transcript grows by the answer of the call at hand, or not at all.   *)
LEMMA AnswersGrow ==
  ASSUME [Next]_vars
  PROVE  \/ answers' = answers
         \/ \E c \in Calls : /\ AtHand(c, {"tell"}) /\ UNCHANGED <<ledger, applied>>
                             /\ answers' = Append(answers, [call |-> c, res |-> held])
<1>1. CASE UNCHANGED vars
  BY <1>1 DEF vars, transcript
<1>2. CASE Turn
  BY <1>2 DEF Turn, ReplayFinal, Begin, OpenRound, SaveCalls, StopEarly, StopFinal, EmitText,
     EmitDone, transcript
<1>3. ASSUME NEW c \in Calls, Call(c)
      PROVE  \/ answers' = answers
             \/ /\ AtHand(c, {"tell"}) /\ UNCHANGED <<ledger, applied>>
                /\ answers' = Append(answers, [call |-> c, res |-> held])
  BY <1>3 DEF Call, StreamCall, Replay, Deny, Withhold, Admit, Prepare, ClaimStep, Perform, Refuse,
     Roll, Generate, FinishStep, EmitMedia, Tell, Publish, transcript, AtHand
<1>4. CASE EngineStops \/ Recorder \/ Crash \/ OtherCommit \/ Resume
  BY <1>4 DEF EngineStops, Recorder, Record, RecordFails, Settle, Crash, OtherCommit, Resume, transcript
<1> QED BY <1>1, <1>2, <1>3, <1>4 DEF Next, Engine

(* An answer of the longer transcript is an old one or the last.            *)
LEMMA Appended ==
  ASSUME NEW S, NEW s \in Seq(S), NEW e \in S, NEW i \in DOMAIN Append(s, e)
  PROVE  (i \in DOMAIN s /\ Append(s, e)[i] = s[i]) \/ Append(s, e)[i] = e
OBVIOUS

LEMMA AnswersBackedStep ==
  ASSUME CheckpointInv, [Next]_vars
  PROVE  AnswersBacked'
<1> USE Words DEF CheckpointInv, RecordsTyped, AnswersBacked
<1> DEFINE Backed(a) == Recorded(a.call) # "none" \/ a.res \in Denials \cup {"refused"}
           Answer == [call : Calls, res : Results]
<1>1. answers \in Seq(Answer)
  OBVIOUS
<1>2. ASSUME NEW a \in Answer, Backed(a) PROVE Backed(a)'
  BY <1>2, RecordsKept
<1>3. ASSUME NEW i \in DOMAIN answers PROVE Backed(answers[i])
  OBVIOUS
<1>6. ASSUME NEW i \in DOMAIN answers PROVE answers[i] \in Answer
  BY <1>1, SeqElement
<1>4. CASE answers' = answers
  <2>2. ASSUME NEW i \in DOMAIN answers'
        PROVE  (Recorded(answers[i].call) # "none")' \/ answers'[i].res \in Denials \cup {"refused"}
    BY <1>2, <1>3, <1>4, <1>6, <2>2
  <2> QED BY <2>2
<1>5. ASSUME NEW c \in Calls, AtHand(c, {"tell"}), UNCHANGED <<ledger, applied>>,
             answers' = Append(answers, [call |-> c, res |-> held])
      PROVE  AnswersBacked'
  <2> DEFINE new == [call |-> c, res |-> held]
  <2>1. held \in Results /\ (Recorded(c) # "none" \/ held \in Denials)
    BY <1>5 DEF HeldBacked, AtHand
  <2>2. new \in Answer /\ Backed(new)
    BY <2>1
  <2>3. ASSUME NEW i \in DOMAIN answers' PROVE Backed(answers[i])'
    <3>1. (i \in DOMAIN answers /\ answers'[i] = answers[i]) \/ answers'[i] = new
      BY <1>1, <1>5, <2>2, Appended
    <3>2. answers'[i] \in Answer
      BY <1>6, <2>2, <3>1
    <3>3. Backed(answers'[i])
      BY <1>3, <2>2, <3>1
    <3> QED BY <1>2, <3>2, <3>3
  <2> QED BY <2>3
<1> QED BY <1>4, <1>5, AnswersGrow

-----------------------------------------------------------------------------
(* A preparation that is still without an outcome after a step that bound   *)
(* nothing was there before it, and no command has been closed since.       *)
LEMMA StillPrepared ==
  ASSUME CheckpointInv, UNCHANGED <<bound, terminal>>,
         \A c \in Calls : Recorded(c) # "none" => Recorded(c)' = Recorded(c),
         NEW d \in Calls, Prepared(d)'
  PROVE  /\ Prepared(d) /\ ~Finished'
         /\ \A e \in Calls : Prepared(e)' => e = d
<1> USE DEF CheckpointInv
<1>1. \A e \in Calls : Prepared(e)' => Prepared(e)
  BY DEF Prepared
<1>2. Prepared(d) /\ ~Finished /\ \A e \in Calls : Prepared(e) => e = d
  BY <1>1 DEF OnePreparation
<1>3. \A e \in Calls : bound[e] # Unprepared => Recorded(e)' = Recorded(e)
  BY <1>2 DEF Prepared
<1>4. Closing' = Closing
  BY <1>3 DEF Closing
<1>5. ~Finished'
  BY <1>2, <1>4 DEF Finished
<1> QED BY <1>1, <1>2, <1>5

(* Only the preparation of a call binds it.                                 *)
LEMMA BoundKept ==
  ASSUME [Next]_vars, ~\E c \in Calls, last \in BOOLEAN : Prepare(c, last) /\ bound[c] = Unprepared
  PROVE  UNCHANGED <<bound, terminal>>
<1>1. CASE Quiet
  BY <1>1 DEF Quiet
<1>2. ASSUME NEW c \in Calls, AtCall(c), ~Quiet PROVE UNCHANGED <<bound, terminal>>
  <2>1. ASSUME NEW last \in BOOLEAN, Prepare(c, last) PROVE UNCHANGED <<bound, terminal>>
    BY <2>1 DEF Prepare
  <2> QED BY <1>2, <2>1 DEF AtCall, Quiet, Replay, Deny, Withhold, Admit, ClaimStep, Perform, Refuse,
          Roll, Generate, FinishStep, EmitMedia, ledger
<1>3. CASE Resume
  BY <1>3 DEF Resume
<1> QED BY <1>1, <1>2, <1>3, Moves

(* A new preparation: its command was open, and no other was prepared.      *)
LEMMA NewPreparation ==
  ASSUME CheckpointInv, NEW c \in Calls, NEW last \in BOOLEAN, Prepare(c, last),
         bound[c] = Unprepared
  PROVE  ~Finished' /\ Prepared(c)' /\ \A d \in Calls : Prepared(d)' => d = c
<1> USE CheckpointConstants, Words DEF CheckpointInv, RecordsTyped
<1>1. /\ bound' = [bound EXCEPT ![c] = revision] /\ terminal' = [terminal EXCEPT ![c] = last]
      /\ steps' = [Repaired EXCEPT ![c] = "pending"] /\ receipts' = receipts
      /\ Recorded(c) = "none" /\ ~Finished /\ \A d \in Calls : ~Prepared(d)
  BY DEF Prepare
<1>2. Repaired \in [Calls -> {"none", "pending"} \cup Results]
      /\ \A d \in Calls : Repaired[d] # steps[d] =>
            steps[d] = "pending" /\ Repaired[d] = "performed" /\ d \in receipts
  BY DEF Repaired
<1>3. \A d \in Calls : Recorded(d)' = Recorded(d)
  BY <1>1, <1>2 DEF Recorded
<1>4. /\ bound'[c] # Unprepared
      /\ \A d \in Calls : d # c => bound'[d] = bound[d] /\ terminal'[d] = terminal[d]
  BY <1>1
<1>5. Closing' = Closing
  BY <1>1, <1>3, <1>4 DEF Closing
<1> QED BY <1>1, <1>3, <1>4, <1>5 DEF Finished, Prepared

LEMMA OnePreparationStep ==
  ASSUME CheckpointInv, [Next]_vars
  PROVE  OnePreparation'
<1> USE Words DEF CheckpointInv, AtHand
<1>1. ASSUME NEW c \in Calls, Prepared(c)'
      PROVE  ~Finished' /\ \A d \in Calls : Prepared(d)' => c = d
  <2>1. CASE \E e \in Calls, last \in BOOLEAN : Prepare(e, last) /\ bound[e] = Unprepared
    BY <1>1, <2>1, NewPreparation
  <2>2. CASE ~\E e \in Calls, last \in BOOLEAN : Prepare(e, last) /\ bound[e] = Unprepared
    BY <1>1, <2>2, BoundKept, RecordsKept, StillPrepared
  <2> QED BY <2>1, <2>2
<1>2. ASSUME NEW c \in Calls, AtHand(c, {"claim", "effect"})', Resolution(c) PROVE Prepared(c)'
  <2>1. CASE Quiet /\ Elsewhere
    <3>1. Prepared(c)
      BY <1>2, <2>1 DEF Elsewhere, OnePreparation
    <3> QED BY <2>1, <3>1, QuietRecords
  <2>2. ASSUME NEW e \in Calls, AtCall(e) PROVE Prepared(c)'
    <3>2. e = c
      BY <1>2, <2>2 DEF AtCall, Replay, Deny, Withhold, Admit, Prepare, ClaimStep, Perform, Refuse,
         Roll, Generate, FinishStep, EmitMedia, local
    <3>3. ASSUME NEW last \in BOOLEAN, Prepare(c, last) PROVE Prepared(c)'
      <4>1. CASE bound[c] = Unprepared
        BY <3>3, <4>1, NewPreparation
      <4>2. CASE bound[c] # Unprepared
        <5>1. Quiet /\ Prepared(c)
          BY <3>3, <4>2 DEF Prepare, Quiet, Prepared
        <5> QED BY <5>1, QuietRecords
      <4> QED BY <4>1, <4>2
    <3>4. CASE ClaimStep(c)
      <4>1. Prepared(c)
        BY <1>2, <3>4 DEF ClaimStep, OnePreparation
      <4>2. /\ UNCHANGED <<bound, receipts>> /\ c \notin receipts
            /\ steps' = steps \/ steps' = [steps EXCEPT ![c] = "pending"]
        BY <3>4, <4>1 DEF ClaimStep, Prepared, Recorded
      <4>3. Recorded(c)' = "none"
        BY <4>1, <4>2 DEF Recorded, Prepared, RecordsTyped
      <4> QED BY <4>1, <4>2, <4>3 DEF Prepared
    <3> QED BY <1>2, <2>2, <3>2, <3>3, <3>4 DEF AtCall, Replay, Deny, Withhold, Admit, Perform, Refuse,
            Roll, Generate, FinishStep, EmitMedia, Resolution
  <2>3. CASE Resume
    BY <1>2, <2>3 DEF Resume
  <2> QED BY <2>1, <2>2, <2>3, Moves
<1> QED BY <1>1, <1>2 DEF OnePreparation, Resolution

-----------------------------------------------------------------------------
(* Effects are counted once, and nobody holds a success without one.        *)
LEMMA EffectsCountedStep ==
  ASSUME CheckpointInv, [Next]_vars
  PROVE  EffectsCounted'
<1> USE Words, CheckpointConstants DEF CheckpointInv, RecordsTyped, AtHand, Effectful
<1> DEFINE Counted(d) ==
             /\ Kind[d] \in {"combat", "story"} => applied[d] = IF d \in receipts THEN 1 ELSE 0
             /\ Kind[d] \in {"dice", "media"} => d \notin receipts
             /\ Kind[d] = "dice" => applied[d] = 0
             /\ Kind[d] = "media" => applied[d] <= 1
             /\ Kind[d] = "media" /\ (steps[d] = "none" \/ AtHand(d, {"effect"})) => applied[d] = 0
             /\ Effectful(d) /\ steps[d] = "performed" => applied[d] # 0
             /\ Effectful(d) /\ AtHand(d, {"finish", "media", "tell"}) /\ held = "performed"
                  => applied[d] # 0
<1>1. \A d \in Calls : Counted(d)
  BY DEF EffectsCounted
<1>2. \A d \in Calls : Effectful(d) /\ d \in receipts => applied[d] # 0
  BY <1>1
<1>3. \A d \in Calls : Repaired[d] # steps[d] =>
          steps[d] = "pending" /\ Repaired[d] = "performed" /\ d \in receipts
  BY DEF Repaired
<1>4. Repaired \in [Calls -> {"none", "pending"} \cup Results]
  BY DEF Repaired
<1>5. ASSUME Quiet, Elsewhere, NEW d \in Calls PROVE Counted(d)'
  <2>1. steps'[d] = steps[d] \/ (steps'[d] = "performed" /\ d \in receipts)
    BY <1>5, QuietRecords
  <2> QED BY <1>1, <1>2, <1>5, <2>1 DEF Quiet, Elsewhere
<1>6. ASSUME NEW c \in Calls, AtCall(c), NEW d \in Calls PROVE Counted(d)'
  <2>1. CASE Replay(c)
    <3>1. /\ UNCHANGED <<receipts, applied, todo>> /\ engine' = "tell" /\ held' = Recorded(c)
          /\ c = Head(todo) /\ Recorded(c) # "none"
          /\ steps' = [Repaired EXCEPT ![c] = IF @ \in Results THEN @ ELSE Recorded(c)]
      BY <2>1 DEF Replay
    <3>2. Recorded(c) = "performed" /\ Effectful(c) => applied[c] # 0
      BY <1>1, <1>2 DEF Recorded
    <3>3. /\ steps'[d] # steps[d] /\ steps'[d] = "performed" /\ Effectful(d) => applied[d] # 0
          /\ steps'[d] = "none" => steps[d] = "none"
      BY <1>2, <1>3, <1>4, <3>1, <3>2
    <3> QED BY <1>1, <3>1, <3>2, <3>3
  <2>2. CASE Deny(c) \/ Withhold(c)
    <3>1. /\ UNCHANGED <<receipts, applied, todo>> /\ engine' = "tell" /\ held' \in Denials
          /\ steps' \in {steps, Repaired}
      BY <2>2 DEF Deny, Withhold, LoadLedger, ledger, Denials
    <3> QED BY <1>1, <1>2, <1>3, <3>1
  <2>3. CASE Admit(c)
    BY <1>1, <2>3 DEF Admit, ledger, local
  <2>4. ASSUME NEW last \in BOOLEAN, Prepare(c, last) PROVE Counted(d)'
    <3>1. /\ UNCHANGED <<receipts, applied, todo, held>> /\ engine' = "claim"
          /\ steps' = Repaired \/ steps' = [Repaired EXCEPT ![c] = "pending"]
      BY <2>4 DEF Prepare, local
    <3>2. steps'[d] \in {steps[d], "pending"} \/ (steps'[d] = "performed" /\ d \in receipts)
      BY <1>3, <1>4, <3>1
    <3> QED BY <1>1, <1>2, <3>1, <3>2
  <2>5. CASE ClaimStep(c)
    <3>1. UNCHANGED <<receipts, applied, todo>> /\ c = Head(todo)
      BY <2>5 DEF ClaimStep
    <3>2. CASE /\ steps[c] \in Results /\ held' = steps[c] /\ engine' \in {"media", "tell"}
               /\ UNCHANGED steps
      BY <1>1, <3>1, <3>2
    <3>3. CASE held' = "fresh" /\ engine' = "finish" /\ UNCHANGED steps
      BY <1>1, <3>1, <3>3
    <3>4. CASE /\ steps[c] = "none" \/ Kind[c] # "media"
               /\ steps' = [steps EXCEPT ![c] = "pending"] /\ engine' = "effect" /\ UNCHANGED held
      BY <1>1, <3>1, <3>4
    <3> QED BY <2>5, <3>2, <3>3, <3>4 DEF ClaimStep, Fragile
  <2>6. CASE Perform(c)
    <3>1. /\ engine = "effect" /\ engine' = "finish" /\ c = Head(todo) /\ UNCHANGED <<steps, todo>>
          /\ Kind[c] \in {"combat", "story"} /\ held' = "performed"
          /\ \/ c \in receipts /\ UNCHANGED <<receipts, applied>>
             \/ /\ c \notin receipts /\ receipts' = receipts \cup {c}
                /\ applied' = [applied EXCEPT ![c] = @ + 1]
      BY <2>6 DEF Perform
    <3> QED BY <1>1, <3>1
  <2>7. CASE Refuse(c)
    BY <1>1, <2>7 DEF Refuse, ledger, local
  <2>8. CASE Roll(c)
    <3>1. /\ engine' = "finish" /\ UNCHANGED <<steps, receipts, applied, todo>> /\ c = Head(todo)
          /\ Kind[c] = "dice"
      BY <2>8 DEF Roll, ledger, local
    <3> QED BY <1>1, <3>1
  <2>9. CASE Generate(c)
    <3>1. /\ engine = "effect" /\ engine' = "finish" /\ c = Head(todo) /\ UNCHANGED <<steps, receipts, todo>>
          /\ Kind[c] = "media" /\ steps[c] = "pending"
          /\ \/ held' = "performed" /\ applied' = [applied EXCEPT ![c] = @ + 1]
             \/ held' = "broken" /\ UNCHANGED applied
      BY <2>9 DEF Generate, ledger, HeldBacked
    <3> QED BY <1>1, <3>1
  <2>10. CASE FinishStep(c)
    <3>1. /\ UNCHANGED <<receipts, applied, todo, held>> /\ engine = "finish" /\ c = Head(todo)
          /\ engine' \in {"media", "tell"} /\ steps' = [steps EXCEPT ![c] = held] /\ held \in Results
      BY <2>10 DEF FinishStep, HeldBacked
    <3> QED BY <1>1, <3>1
  <2>11. CASE EmitMedia(c)
    BY <1>1, <2>11 DEF EmitMedia, ledger, local
  <2> QED BY <1>6, <2>1, <2>2, <2>3, <2>4, <2>5, <2>6, <2>7, <2>8, <2>9, <2>10, <2>11 DEF AtCall
<1>7. ASSUME Resume, NEW d \in Calls PROVE Counted(d)'
  <2>1. /\ UNCHANGED <<receipts, applied>> /\ engine' = "start"
        /\ steps'[d] = IF d \in Answered THEN Confirmed(d) ELSE steps[d]
        /\ d \in Answered => Confirmable(d)
    BY <1>7 DEF Resume
  <2>2. d \in Answered /\ Confirmed(d) = "performed" /\ Effectful(d) => applied[d] # 0
    BY <1>1, <1>2, <2>1 DEF Confirmed, Confirmable, Recorded
  <2>3. d \in Answered => Confirmed(d) # "none"
    BY <2>1 DEF Confirmed, Confirmable
  <2> QED BY <1>1, <2>1, <2>2, <2>3
<1> QED
  <2>1. \A d \in Calls : Counted(d)'
    BY <1>5, <1>6, <1>7, Moves
  <2> QED BY <2>1 DEF EffectsCounted

LEMMA AppliedKept ==
  ASSUME CheckpointInv, [Next]_vars, NEW c \in Calls, applied[c] # 0
  PROVE  applied'[c] # 0
<1> USE DEF CheckpointInv, RecordsTyped
<1>1. ASSUME NEW d \in Calls, AtCall(d), ~Quiet PROVE applied'[c] # 0
  <2>1. applied' = applied \/ applied' = [applied EXCEPT ![d] = @ + 1]
    BY <1>1 DEF AtCall, Quiet, Replay, Deny, Withhold, Admit, Prepare, ClaimStep, Perform, Refuse,
       Roll, Generate, FinishStep, EmitMedia
  <2> QED BY <2>1
<1> QED BY <1>1, Moves DEF Quiet, Resume

LEMMA AnswersAppliedStep ==
  ASSUME CheckpointInv, [Next]_vars
  PROVE  AnswersApplied'
<1> USE DEF CheckpointInv, RecordsTyped, AnswersApplied
<1> DEFINE Happened(a) == Effectful(a.call) /\ a.res = "performed" => applied[a.call] # 0
           Answer == [call : Calls, res : Results]
<1>1. answers \in Seq(Answer)
  OBVIOUS
<1>2. ASSUME NEW a \in Answer, Happened(a) PROVE Happened(a)'
  <2>1. a.call \in Calls
    OBVIOUS
  <2> QED BY <1>2, <2>1, AppliedKept DEF Effectful
<1>3. ASSUME NEW i \in DOMAIN answers PROVE answers[i] \in Answer /\ Happened(answers[i])
  BY <1>1, SeqElement
<1>4. CASE answers' = answers
  <2>1. ASSUME NEW i \in DOMAIN answers' PROVE Happened(answers[i])'
    <3>1. Happened(answers'[i]) /\ answers'[i] \in Answer
      BY <1>3, <1>4
    <3> QED BY <1>2, <3>1
  <2> QED BY <2>1
<1>5. ASSUME NEW c \in Calls, AtHand(c, {"tell"}), UNCHANGED <<ledger, applied>>,
             answers' = Append(answers, [call |-> c, res |-> held])
      PROVE  AnswersApplied'
  <2> DEFINE new == [call |-> c, res |-> held]
  <2>1. new \in Answer
    BY <1>5 DEF HeldBacked, AtHand
  <2>2. Happened(new)
    BY <1>5 DEF EffectsCounted, AtHand
  <2>3. ASSUME NEW i \in DOMAIN answers' PROVE Happened(answers[i])'
    <3>1. (i \in DOMAIN answers /\ answers'[i] = answers[i]) \/ answers'[i] = new
      BY <1>1, <1>5, <2>1, Appended
    <3>2. answers'[i] \in Answer /\ Happened(answers'[i])
      BY <1>3, <2>1, <2>2, <3>1
    <3> QED BY <1>2, <3>2
  <2> QED BY <2>3
<1> QED BY <1>4, <1>5, AnswersGrow

-----------------------------------------------------------------------------
(* A closed command stays closed, so that what was finished is finished.    *)
LEMMA FinishedStays ==
  ASSUME CheckpointInv, [Next]_vars, Finished
  PROVE  Finished'
<1> USE DEF CheckpointInv
<1>1. Closing \subseteq Closing'
  <2>1. ASSUME NEW c \in Closing PROVE c \in Closing'
    <3>1. Recorded(c)' = Recorded(c)
      BY RecordsKept DEF Closing
    <3>2. bound'[c] = bound[c] /\ terminal'[c] = terminal[c]
      <4>1. CASE \E e \in Calls, last \in BOOLEAN : Prepare(e, last) /\ bound[e] = Unprepared
        <5>1. PICK e \in Calls, last \in BOOLEAN : Prepare(e, last) /\ bound[e] = Unprepared
          BY <4>1
        <5>2. e # c
          BY <5>1 DEF Closing
        <5>3. bound' = [bound EXCEPT ![e] = revision] /\ terminal' = [terminal EXCEPT ![e] = last]
          BY <5>1 DEF Prepare
        <5> QED BY <5>2, <5>3 DEF RecordsTyped, Closing
      <4>2. CASE ~\E e \in Calls, last \in BOOLEAN : Prepare(e, last) /\ bound[e] = Unprepared
        BY <4>2, BoundKept
      <4> QED BY <4>1, <4>2
    <3> QED BY <3>1, <3>2 DEF Closing
  <2> QED BY <2>1
<1>2. IsFiniteSet(Closing') /\ IsFiniteSet(Closing)
  BY CheckpointConstants, FS_Subset DEF Closing
<1>3. Cardinality(Closing) <= Cardinality(Closing')
  BY <1>1, <1>2, FS_Subset
<1>4. Cardinality(Closing) \in Nat /\ Cardinality(Closing') \in Nat
  BY <1>2, FS_CardinalityType
<1> QED BY <1>3, <1>4, CheckpointConstants DEF Finished

LEMMA NarrationLastStep ==
  ASSUME CheckpointInv, [Next]_vars
  PROVE  NarrationLast'
<1> USE DEF CheckpointInv, RecordsTyped, NarrationLast
<1> DEFINE Late == {"off", "start", "final", "done", "ended", "failed"}
<1>1. CASE StopFinal
  <2>1. Finished /\ finals = 0
    BY <1>1 DEF StopFinal
  <2> QED BY <1>1, <2>1, FinishedStays DEF StopFinal
<1>2. ASSUME UNCHANGED <<users, finals>>, finals > 0 => engine' \in Late PROVE NarrationLast'
  BY <1>2, FinishedStays
<1>3. CASE Begin
  BY <1>3 DEF Begin
<1>4. CASE UNCHANGED vars
  BY <1>2, <1>4 DEF vars, transcript
<1>5. CASE ReplayFinal \/ OpenRound \/ SaveCalls \/ StopEarly \/ EmitText \/ EmitDone
  BY <1>2, <1>5 DEF ReplayFinal, OpenRound, SaveCalls, StopEarly, EmitText, EmitDone, transcript
<1>6. ASSUME NEW c \in Calls, Call(c) PROVE NarrationLast'
  <2>1. UNCHANGED <<users, finals>> /\ engine \notin Late
    BY <1>6 DEF Call, StreamCall, Replay, Deny, Withhold, Admit, Prepare, ClaimStep, Perform, Refuse,
       Roll, Generate, FinishStep, EmitMedia, Tell, Publish, transcript
  <2> QED BY <1>2, <2>1
<1>7. CASE EngineStops \/ Recorder \/ Crash \/ OtherCommit \/ Resume
  BY <1>2, <1>7 DEF EngineStops, Recorder, Record, RecordFails, Settle, Crash, OtherCommit, Resume,
     transcript
<1> QED BY <1>1, <1>3, <1>4, <1>5, <1>6, <1>7 DEF Next, Engine, Turn

-----------------------------------------------------------------------------
LEMMA CheckpointInvInit == Init => CheckpointInv
<1> SUFFICES ASSUME Init PROVE CheckpointInv
  OBVIOUS
<1> USE DEF Init
<1>1. RecordsTyped
  BY DEF RecordsTyped
<1>2. HeldBacked /\ AnswersBacked /\ AnswersApplied
  BY DEF HeldBacked, AtHand, AnswersBacked, AnswersApplied
<1>3. OnePreparation
  BY DEF OnePreparation, Prepared, AtHand
<1>4. EffectsCounted
  BY DEF EffectsCounted, AtHand
<1>5. NarrationLast
  BY DEF NarrationLast
<1> QED BY <1>1, <1>2, <1>3, <1>4, <1>5 DEF CheckpointInv

(* The records of a turn stay consistent with each other, with what the     *)
(* engine holds and with the effects that happened, whatever is cut off     *)
(* wherever and however often it is resumed: the inductive invariant the    *)
(* other theorems rest on.                                                  *)
THEOREM CheckpointsCorrect == Spec => []CheckpointInv
<1>1. CheckpointInv /\ [Next]_vars => CheckpointInv'
  BY RecordsTypedStep, HeldBackedStep, AnswersBackedStep, OnePreparationStep, EffectsCountedStep,
     AnswersAppliedStep, NarrationLastStep DEF CheckpointInv
<1> QED BY <1>1, CheckpointInvInit, PTL DEF Spec

(* No tool call has its effect twice, combat action, story action or        *)
(* picture; and no call without its effect is recorded or answered as       *)
(* performed: claim_tool_step, finish_tool_step and resume never invent a   *)
(* success.                                                                 *)
THEOREM EffectsAreConfirmed == Spec => []EffectsAsConfirmed
<1>1. CheckpointInv => EffectOnce
  <2> SUFFICES ASSUME CheckpointInv, NEW c \in Calls PROVE applied[c] <= 1
    BY DEF EffectOnce
  <2>1. Kind[c] \in {"combat", "story", "dice", "media"}
    BY CheckpointConstants
  <2> QED BY <2>1 DEF CheckpointInv, EffectsCounted
<1>2. CheckpointInv => ConfirmedMeansApplied
  <2> SUFFICES ASSUME CheckpointInv, NEW c \in Calls, Effectful(c), applied[c] = 0
               PROVE  /\ steps[c] # "performed"
                      /\ [call |-> c, res |-> "performed"] \notin ToSet(answers)
    BY DEF ConfirmedMeansApplied
  <2>1. steps[c] # "performed"
    BY DEF CheckpointInv, EffectsCounted
  <2>2. ASSUME NEW i \in DOMAIN answers PROVE answers[i] # [call |-> c, res |-> "performed"]
    BY <2>2 DEF CheckpointInv, AnswersApplied
  <2> QED BY <2>1, <2>2 DEF ToSet
<1> QED BY <1>1, <1>2, CheckpointsCorrect, PTL DEF EffectsAsConfirmed

(* resume never fails with confirmed_tool_receipt_missing: every answer of  *)
(* an interrupted transcript can be confirmed again.                        *)
THEOREM ResumesAreConfirmed == Spec => []ResumeConfirms
<1>1. CheckpointInv => ResumeConfirms
  <2> SUFFICES ASSUME CheckpointInv, NEW c \in Answered PROVE Confirmable(c)
    BY DEF ResumeConfirms
  <2>1. PICK i \in DOMAIN answers : answers[i].call = c /\ AnswerOf(c) = answers[i].res
    BY AnswerOfAnswered
  <2> QED BY <2>1 DEF CheckpointInv, AnswersBacked, Confirmable
<1> QED BY <1>1, CheckpointsCorrect, PTL

(* An action of the hero commits only while a command of its player is      *)
(* open, and only in the world it was prepared for: the ledger's gate holds *)
(* through replays, interruptions and the actions of others.                *)
THEOREM CommandsAreNotExceeded == Spec => NothingBeyondTheCommands
<1> DEFINE Within == \A c \in Calls : applied'[c] # applied[c] /\ Resolution(c) =>
                        ~Finished /\ bound[c] = revision
<1>1. ASSUME CheckpointInv, [Next]_vars PROVE Within
  <2> SUFFICES ASSUME NEW c \in Calls, applied'[c] # applied[c], Resolution(c)
               PROVE  ~Finished /\ bound[c] = revision
    OBVIOUS
  <2>1. PICK d \in Calls : AtCall(d) /\ ~Quiet
    BY <1>1, Moves DEF Quiet, Resume
  <2>2. Perform(d) \/ Generate(d)
    BY <2>1 DEF AtCall, Quiet, Replay, Deny, Withhold, Admit, Prepare, ClaimStep, Refuse, Roll,
       FinishStep, EmitMedia
  <2>3. applied' = [applied EXCEPT ![d] = @ + 1]
    BY <2>2 DEF Perform, Generate
  <2>4. d = c
    BY <1>1, <2>3 DEF CheckpointInv, RecordsTyped
  <2>5. Perform(c)
    BY <2>2, <2>4 DEF Generate, Resolution
  <2>6. bound[c] = revision /\ AtHand(c, {"claim", "effect"})
    BY <2>5 DEF Perform, AtHand
  <2> QED BY <1>1, <2>6 DEF CheckpointInv, OnePreparation
<1>2. CheckpointInv /\ [Next]_vars => [Within]_vars
  BY <1>1
<1> QED BY <1>2, CheckpointsCorrect, PTL DEF Spec, NothingBeyondTheCommands

-----------------------------------------------------------------------------
LEMMA AskedGrow ==
  ASSUME [Next]_vars
  PROVE  asked' = asked \/ asked' = Append(asked, draft)
<1>1. CASE UNCHANGED vars
  BY <1>1 DEF vars, transcript
<1>2. CASE Turn
  BY <1>2 DEF Turn, ReplayFinal, Begin, OpenRound, SaveCalls, StopEarly, StopFinal, EmitText,
     EmitDone, transcript
<1>3. ASSUME NEW c \in Calls, Call(c) PROVE asked' = asked
  BY <1>3 DEF Call, StreamCall, Replay, Deny, Withhold, Admit, Prepare, ClaimStep, Perform, Refuse,
     Roll, Generate, FinishStep, EmitMedia, Tell, Publish, transcript
<1>4. CASE EngineStops \/ Recorder \/ Crash \/ OtherCommit \/ Resume
  BY <1>4 DEF EngineStops, Recorder, Record, RecordFails, Settle, Crash, OtherCommit, Resume, transcript
<1> QED BY <1>1, <1>2, <1>3, <1>4 DEF Next, Engine

LEMMA PrefixOfItself ==
  ASSUME NEW S, NEW s \in Seq(S)
  PROVE  IsPrefix(s, s) /\ \A e \in S : IsPrefix(s, Append(s, e))
<1>1. ASSUME NEW e \in S PROVE SubSeq(s, 1, Len(s)) = SubSeq(Append(s, e), 1, Len(s))
  OBVIOUS
<1> QED BY <1>1 DEF IsPrefix

(* What a step or the transcript records of a call, and that it happened,   *)
(* is never rewritten, by no replay, repair or resume.                      *)
THEOREM RecordsAreFrozen == Spec => RecordsFrozen
<1> DEFINE Frozen == /\ \A c \in Calls : steps[c] \in Results => steps'[c] = steps[c]
                     /\ IsPrefix(answers, answers') /\ IsPrefix(asked, asked')
                     /\ receipts \subseteq receipts'
<1>1. ASSUME CheckpointInv, [Next]_vars PROVE Frozen
  <2>1. IsPrefix(asked, asked')
    <3>1. asked \in Seq(Seq(Calls)) /\ draft \in Seq(Calls)
      BY <1>1 DEF CheckpointInv, RecordsTyped
    <3> QED BY <1>1, <3>1, AskedGrow, PrefixOfItself
  <2>2. IsPrefix(answers, answers')
    <3>1. answers \in Seq([call : Calls, res : Results])
      BY <1>1 DEF CheckpointInv, RecordsTyped
    <3>2. ASSUME NEW c \in Calls, AtHand(c, {"tell"})
          PROVE  [call |-> c, res |-> held] \in [call : Calls, res : Results]
      BY <1>1, <3>2 DEF CheckpointInv, HeldBacked, AtHand
    <3> QED BY <1>1, <3>1, <3>2, AnswersGrow, PrefixOfItself
  <2> QED BY <1>1, <2>1, <2>2, RecordsKept
<1>2. CheckpointInv /\ [Next]_vars => [Frozen]_vars
  BY <1>1
<1> QED BY <1>2, CheckpointsCorrect, PTL DEF Spec, RecordsFrozen

(* The final narration is written once, and only when every command of the  *)
(* player's manifest has had its outcome.                                   *)
THEOREM NarrationAfterCommands == Spec => []CommandsBeforeNarration
<1>1. CheckpointInv => CommandsBeforeNarration
  BY DEF CheckpointInv, NarrationLast, CommandsBeforeNarration
<1> QED BY <1>1, CheckpointsCorrect, PTL

-----------------------------------------------------------------------------
(* What of a sequence is in a set, in its order; and sequences laid end to  *)
(* end.  Both are recursive functions: their values are reached by          *)
(* induction over numbers and sequences, with the property as a set.        *)

(* Some number of a set of numbers is its smallest.                        *)
LEMMA Smallest ==
  ASSUME NEW S \in SUBSET Nat, S # {}
  PROVE  \E x \in S : \A y \in S : x <= y
<1>1. PICK x \in S : \A y \in S : <<y, x>> \notin OpToRel(<, Nat)
  BY WFMin, NatLessThanWellFounded
<1>2. \A y \in S : ~(y < x)
  BY <1>1 DEF OpToRel
<1> QED BY <1>2

(* Induction over the numbers up to n, with the property as a set.         *)
LEMMA UpTo ==
  ASSUME NEW n \in Nat, NEW P, 0 \in P, \A i \in 1..n : i - 1 \in P => i \in P
  PROVE  \A i \in 0..n : i \in P
<1> DEFINE Failing == {i \in 0..n : i \notin P}
<1> SUFFICES ASSUME Failing # {} PROVE FALSE
  OBVIOUS
<1>1. PICK i \in Failing : \A j \in Failing : i <= j
  <2>1. Failing \in SUBSET Nat
    OBVIOUS
  <2> HIDE DEF Failing
  <2> QED BY <2>1, Smallest
<1>2. i \in 0..n /\ i \notin P /\ i # 0
  BY <1>1
<1>3. i \in 1..n /\ i - 1 \in 0..n /\ ~(i <= i - 1)
  BY <1>2
<1>4. i - 1 \in P
  BY <1>1, <1>3
<1> QED BY <1>2, <1>3, <1>4

(* And over sequences.                                                     *)
LEMMA OverSequences ==
  ASSUME NEW E, NEW P, <<>> \in P, \A s \in Seq(E), e \in E : s \in P => Append(s, e) \in P
  PROVE  \A s \in Seq(E) : s \in P
<1> DEFINE Lengths == {i \in Nat : \A s \in Seq(E) : Len(s) = i => s \in P}
<1>1. 0 \in Lengths
  <2>1. \A s \in Seq(E) : Len(s) = 0 => s = <<>>
    OBVIOUS
  <2> QED BY <2>1
<1>2. ASSUME NEW n \in Nat, n - 1 \in Lengths, n # 0 PROVE n \in Lengths
  <2> SUFFICES ASSUME NEW s \in Seq(E), Len(s) = n PROVE s \in P
    OBVIOUS
  <2> DEFINE t == SubSeq(s, 1, n - 1)
  <2>1. t \in Seq(E) /\ Len(t) = n - 1 /\ s[n] \in E /\ s = Append(t, s[n])
    BY <1>2
  <2> HIDE DEF t
  <2>2. t \in P
    BY <1>2, <2>1
  <2> QED BY <2>1, <2>2
<1>3. ASSUME NEW s \in Seq(E) PROVE s \in P
  <2>1. Len(s) \in Nat
    OBVIOUS
  <2>2. \A i \in 1..Len(s) : i - 1 \in Lengths => i \in Lengths
    BY <1>2, <2>1
  <2> HIDE DEF Lengths
  <2>3. Len(s) \in Lengths
    <3>1. PICK n \in Nat : n = Len(s)
      BY <2>1
    <3>2. \A i \in 0..n : i \in Lengths
      BY <1>1, <2>2, <3>1, UpTo
    <3> QED BY <3>1, <3>2
  <2> QED BY <2>3 DEF Lengths
<1> QED BY <1>3

ThoseOf(s, S, f) ==
  f[0] = <<>> /\ \A i \in 1..Len(s) : f[i] = IF s[i] \in S THEN Append(f[i - 1], s[i]) ELSE f[i - 1]
(* Those are the last value of a function that grows along the sequence.    *)
LEMMA ThoseAre ==
  ASSUME NEW E, NEW s \in Seq(E), NEW S
  PROVE  \E f \in [0..Len(s) -> Seq(E)] : ThoseOf(s, S, f) /\ Those(s, S) = f[Len(s)]
<1> DEFINE n == Len(s)
           Grown(v, i) == IF s[i] \in S THEN Append(v, s[i]) ELSE v
           Def(f) == f = [i \in 0..n |-> IF i = 0 THEN <<>> ELSE Grown(f[i - 1], i)]
           Fits(f, k) == f[0] = <<>> /\ \A i \in 1..k : f[i] = Grown(f[i - 1], i)
           Good == {k \in 0..n : \E f \in [0..k -> Seq(E)] : Fits(f, k)}
<1>0. n \in Nat /\ \A i \in 1..n : s[i] \in E
  OBVIOUS
<1>1. ASSUME NEW v \in Seq(E), NEW i \in 1..n PROVE Grown(v, i) \in Seq(E)
  BY <1>0
<1> HIDE DEF n, Grown
<1>2. 0 \in Good
  <2> DEFINE f == [i \in 0..0 |-> <<>>]
  <2>1. Fits(f, 0) /\ f \in [0..0 -> Seq(E)] /\ 0 \in 0..n
    BY <1>0
  <2> HIDE DEF f, Fits
  <2> QED BY <2>1
<1>3. ASSUME NEW k \in 1..n, k - 1 \in Good PROVE k \in Good
  <2>1. PICK f \in [0..(k - 1) -> Seq(E)] : Fits(f, k - 1)
    BY <1>3
  <2> DEFINE g == [i \in 0..k |-> IF i = k THEN Grown(f[k - 1], k) ELSE f[i]]
  <2>2. Grown(f[k - 1], k) \in Seq(E)
    BY <1>0, <1>1, <2>1
  <2>3. g \in [0..k -> Seq(E)]
    <3>1. \A i \in 0..k : i # k => i \in 0..(k - 1)
      BY <1>0
    <3> QED BY <2>1, <2>2, <3>1
  <2>4. g[0] = <<>> /\ g[k] = Grown(g[k - 1], k)
    BY <1>0, <2>1
  <2>5. \A i \in 1..k : i # k => g[i] = f[i] /\ g[i - 1] = f[i - 1] /\ i \in 1..(k - 1)
    BY <1>0
  <2>6. Fits(g, k)
    <3> HIDE DEF g
    <3> QED BY <2>1, <2>4, <2>5
  <2>7. k \in 0..n
    BY <1>0
  <2> HIDE DEF g, Fits
  <2> QED BY <2>3, <2>6, <2>7
<1>4. n \in Good
  <2> HIDE DEF Good
  <2>1. \A k \in 1..n : k - 1 \in Good => k \in Good
    BY <1>3
  <2>2. \A k \in 0..n : k \in Good
    BY <1>0, <1>2, <2>1, UpTo
  <2> QED BY <1>0, <2>2
<1>5. PICK g \in [0..n -> Seq(E)] : Fits(g, n)
  BY <1>4
<1>6. Def(g)
  <2>1. g = [i \in 0..n |-> g[i]]
    BY <1>5
  <2>2. \A i \in 0..n : i = 0 \/ i \in 1..n
    BY <1>0
  <2> QED BY <1>5, <2>1, <2>2
<1>7. PICK f : f = CHOOSE h : Def(h)
  OBVIOUS
<1>8. Def(f)
  <2> HIDE DEF Def
  <2> QED BY <1>6, <1>7
<1>9. Fits(f, n)
  <2>1. 0 \in 0..n /\ \A i \in 1..n : i \in 0..n /\ i # 0
    BY <1>0
  <2> QED BY <1>8, <2>1
<1>10. \A i \in 0..n : f[i] = g[i]
  <2> DEFINE P == {i \in 0..n : f[i] = g[i]}
  <2>1. 0 \in P
    BY <1>0, <1>5, <1>9
  <2>2. \A i \in 1..n : i - 1 \in P => i \in P
    BY <1>0, <1>5, <1>9
  <2>3. \A i \in 0..n : i \in P
    <3> HIDE DEF P
    <3> QED BY <1>0, <2>1, <2>2, UpTo
  <2> QED BY <2>3
<1>11. Those(s, S) = f[n]
  BY <1>7 DEF Those, n, Grown
<1>12. ThoseOf(s, S, g) /\ Those(s, S) = g[n]
  <2>1. n \in 0..n
    BY <1>0
  <2> QED BY <1>5, <1>10, <1>11, <2>1 DEF ThoseOf, n, Grown
<1> QED BY <1>12 DEF n

(* Of nothing, nothing.                                                     *)
LEMMA ThoseNil == \A S : Those(<<>>, S) = <<>>
<1> TAKE S
<1>1. <<>> \in Seq({}) /\ Len(<<>>) = 0
  OBVIOUS
<1>2. PICK f : ThoseOf(<<>>, S, f) /\ Those(<<>>, S) = f[Len(<<>>)]
  BY <1>1, ThoseAre
<1> QED BY <1>1, <1>2 DEF ThoseOf

(* One element more is one of them more, or none.                           *)
LEMMA ThoseStep ==
  ASSUME NEW E, NEW s \in Seq(E), NEW e \in E, NEW S
  PROVE  /\ Those(s, S) \in Seq(E)
         /\ Those(Append(s, e), S) = IF e \in S THEN Append(Those(s, S), e) ELSE Those(s, S)
<1> DEFINE t == Append(s, e)
           n == Len(s)
<1>1. /\ t \in Seq(E) /\ n \in Nat /\ Len(t) = n + 1 /\ t[n + 1] = e
      /\ \A i \in 1..n : t[i] = s[i]
  OBVIOUS
<1> HIDE DEF t
<1>2. PICK f \in [0..n -> Seq(E)] : ThoseOf(s, S, f) /\ Those(s, S) = f[n]
  BY ThoseAre
<1>3. PICK g \in [0..Len(t) -> Seq(E)] : ThoseOf(t, S, g) /\ Those(t, S) = g[Len(t)]
  BY <1>1, ThoseAre
<1>4. \A i \in 1..n : i \in 1..Len(t)
  BY <1>1
<1>5. \A i \in 0..n : f[i] = g[i]
  <2> DEFINE P == {i \in 0..n : f[i] = g[i]}
  <2> HIDE DEF n
  <2>1. 0 \in P
    BY <1>1, <1>2, <1>3 DEF ThoseOf
  <2>2. \A i \in 1..n : i - 1 \in P => i \in P
    BY <1>1, <1>2, <1>3, <1>4 DEF ThoseOf, n
  <2>3. \A i \in 0..n : i \in P
    <3> HIDE DEF P
    <3> QED BY <1>1, <2>1, <2>2, UpTo
  <2> QED BY <2>3
<1>6. g[n + 1] = IF e \in S THEN Append(g[n], e) ELSE g[n]
  <2>1. n + 1 \in 1..Len(t) /\ (n + 1) - 1 = n
    BY <1>1
  <2> QED BY <1>1, <1>3, <2>1 DEF ThoseOf
<1>7. f[n] = g[n] /\ f[n] \in Seq(E)
  BY <1>1, <1>2, <1>5
<1> QED BY <1>1, <1>2, <1>3, <1>6, <1>7 DEF t

(* They are a sequence of the same elements.                                *)
LEMMA ThoseTyped ==
  ASSUME NEW E, NEW s \in Seq(E), NEW S
  PROVE  Those(s, S) \in Seq(E)
<1>1. PICK f \in [0..Len(s) -> Seq(E)] : Those(s, S) = f[Len(s)]
  BY ThoseAre
<1>2. Len(s) \in 0..Len(s)
  OBVIOUS
<1> QED BY <1>1, <1>2

(* What an appended element adds.                                           *)
LEMMA Ends ==
  ASSUME NEW E, NEW s \in Seq(E), NEW e \in E
  PROVE  /\ Append(s, e) \in Seq(E) /\ ToSet(Append(s, e)) = ToSet(s) \cup {e}
         /\ ToSet(s) \subseteq E
<1>1. /\ Append(s, e) \in Seq(E) /\ DOMAIN Append(s, e) = 1..(Len(s) + 1) /\ Len(s) \in Nat
      /\ Append(s, e)[Len(s) + 1] = e /\ DOMAIN s = 1..Len(s)
      /\ \A i \in DOMAIN s : Append(s, e)[i] = s[i]
  OBVIOUS
<1>2. DOMAIN Append(s, e) = DOMAIN s \cup {Len(s) + 1}
  BY <1>1
<1>3. ToSet(Append(s, e)) = ToSet(s) \cup {e}
  BY <1>1, <1>2 DEF ToSet
<1> QED BY <1>1, <1>3 DEF ToSet

(* The empty sequence has no elements.                                      *)
LEMMA NothingIn == ToSet(<<>>) = {}
BY DEF ToSet

(* Those of two sequences laid end to end are those of each.                *)
LEMMA ThoseSplit ==
  ASSUME NEW E, NEW S, NEW s \in Seq(E), NEW t \in Seq(E)
  PROVE  Those(s \o t, S) = Those(s, S) \o Those(t, S)
<1> DEFINE P == {u \in Seq(E) : Those(s \o u, S) = Those(s, S) \o Those(u, S)}
<1>1. <<>> \in P
  <2>1. Those(<<>>, S) = <<>> /\ Those(s, S) \in Seq(E)
    BY ThoseNil, ThoseTyped
  <2> QED BY <2>1
<1>2. ASSUME NEW u \in Seq(E), NEW e \in E, u \in P PROVE Append(u, e) \in P
  <2>1. s \o u \in Seq(E) /\ Append(u, e) \in Seq(E) /\ s \o Append(u, e) = Append(s \o u, e)
    OBVIOUS
  <2>2. /\ Those(Append(s \o u, e), S) = IF e \in S THEN Append(Those(s \o u, S), e) ELSE Those(s \o u, S)
        /\ Those(Append(u, e), S) = IF e \in S THEN Append(Those(u, S), e) ELSE Those(u, S)
        /\ Those(s, S) \in Seq(E) /\ Those(u, S) \in Seq(E)
    <3>1. Those(s, S) \in Seq(E) /\ Those(u, S) \in Seq(E)
      BY ThoseTyped
    <3>2. PICK w \in Seq(E) : w = s \o u
      BY <2>1
    <3>3. Those(Append(w, e), S) = IF e \in S THEN Append(Those(w, S), e) ELSE Those(w, S)
      BY ThoseStep, SMTT(60)
    <3>4. Those(Append(u, e), S) = IF e \in S THEN Append(Those(u, S), e) ELSE Those(u, S)
      BY ThoseStep, SMTT(60)
    <3> QED BY <3>1, <3>2, <3>3, <3>4
  <2>3. Those(s, S) \o Append(Those(u, S), e) = Append(Those(s, S) \o Those(u, S), e)
    BY <2>2
  <2>4. Those(s \o u, S) = Those(s, S) \o Those(u, S)
    BY <1>2
  <2>5. Those(s \o Append(u, e), S) = Those(s, S) \o Those(Append(u, e), S)
    BY <2>1, <2>2, <2>3, <2>4
  <2> QED BY <2>1, <2>5
<1>3. \A u \in Seq(E) : u \in P
  <2> HIDE DEF P
  <2> QED BY <1>1, <1>2, OverSequences
<1> QED BY <1>3

(* Which elements they are.                                                *)
LEMMA ThoseElements ==
  ASSUME NEW E, NEW S, NEW s \in Seq(E)
  PROVE  /\ Those(s, S) \in Seq(E) /\ ToSet(Those(s, S)) = ToSet(s) \cap S
         /\ ToSet(s) \subseteq S => Those(s, S) = s
         /\ ToSet(s) \cap S = {} => Those(s, S) = <<>>
<1> DEFINE Fine(u) == /\ Those(u, S) \in Seq(E) /\ ToSet(Those(u, S)) = ToSet(u) \cap S
                      /\ ToSet(u) \subseteq S => Those(u, S) = u
                      /\ ToSet(u) \cap S = {} => Those(u, S) = <<>>
           P == {u \in Seq(E) : Fine(u)}
<1>1. <<>> \in P
  <2>1. Those(<<>>, S) = <<>> /\ ToSet(<<>>) = {} /\ <<>> \in Seq(E)
    BY ThoseNil, NothingIn
  <2> QED BY <2>1
<1>2. ASSUME NEW u \in Seq(E), NEW e \in E, u \in P PROVE Append(u, e) \in P
  <2>1. /\ Append(u, e) \in Seq(E) /\ ToSet(Append(u, e)) = ToSet(u) \cup {e}
        /\ Append(Those(u, S), e) \in Seq(E)
        /\ ToSet(Append(Those(u, S), e)) = ToSet(Those(u, S)) \cup {e}
    BY <1>2, Ends
  <2>2. Those(Append(u, e), S) = IF e \in S THEN Append(Those(u, S), e) ELSE Those(u, S)
    BY ThoseStep
  <2>3. Fine(Append(u, e))
    BY <1>2, <2>1, <2>2
  <2> HIDE DEF Fine
  <2> QED BY <2>1, <2>3
<1>3. s \in P
  <2> HIDE DEF P
  <2> QED BY <1>1, <1>2, OverSequences
<1> QED BY <1>3

(* Those of some of them.                                                  *)
LEMMA ThoseOfThose ==
  ASSUME NEW E, NEW S, NEW T, T \subseteq S, NEW s \in Seq(E)
  PROVE  Those(Those(s, S), T) = Those(s, T)
<1> DEFINE P == {u \in Seq(E) : Those(Those(u, S), T) = Those(u, T)}
<1>1. <<>> \in P
  BY ThoseNil
<1>2. ASSUME NEW u \in Seq(E), NEW e \in E, u \in P PROVE Append(u, e) \in P
  <2>1. Append(u, e) \in Seq(E) /\ Those(u, S) \in Seq(E)
    BY ThoseStep
  <2>2. /\ Those(Append(u, e), S) = IF e \in S THEN Append(Those(u, S), e) ELSE Those(u, S)
        /\ Those(Append(u, e), T) = IF e \in T THEN Append(Those(u, T), e) ELSE Those(u, T)
        /\ Those(Append(Those(u, S), e), T) =
              IF e \in T THEN Append(Those(Those(u, S), T), e) ELSE Those(Those(u, S), T)
    <3>1. PICK v \in Seq(E) : v = Those(u, S)
      BY <2>1
    <3>2. Those(Append(v, e), T) = IF e \in T THEN Append(Those(v, T), e) ELSE Those(v, T)
      BY ThoseStep
    <3>3. Those(Append(u, e), S) = IF e \in S THEN Append(Those(u, S), e) ELSE Those(u, S)
      BY ThoseStep
    <3>4. Those(Append(u, e), T) = IF e \in T THEN Append(Those(u, T), e) ELSE Those(u, T)
      BY ThoseStep
    <3> QED BY <3>1, <3>2, <3>3, <3>4
  <2>3. Those(Those(Append(u, e), S), T) = Those(Append(u, e), T)
    BY <1>2, <2>2
  <2> QED BY <2>1, <2>3
<1>3. s \in P
  <2> HIDE DEF P
  <2> QED BY <1>1, <1>2, OverSequences
<1> QED BY <1>3

-----------------------------------------------------------------------------
(* What two sequences of sequences hold, one after the other.              *)
FlattenOf(s, f) ==
  f[1] = s[1] /\ \A i \in 2..Len(s) : f[i] = f[i - 1] \o s[i]
(* What is laid end to end is the last value of a growing function.         *)
LEMMA FlattenAre ==
  ASSUME NEW E, NEW s \in Seq(Seq(E)), s # <<>>
  PROVE  \E f \in [1..Len(s) -> Seq(E)] : FlattenOf(s, f) /\ FlattenSeq(s) = f[Len(s)]
<1> DEFINE n == Len(s)
           Def(f) == f = [i \in 1..n |-> IF i = 1 THEN s[i] ELSE f[i - 1] \o s[i]]
           Fits(f, k) == f[1] = s[1] /\ \A i \in 2..k : f[i] = f[i - 1] \o s[i]
           Good == {k \in 0..n : k = 0 \/ \E f \in [1..k -> Seq(E)] : Fits(f, k)}
<1>0. n \in Nat /\ n # 0 /\ \A i \in 1..n : s[i] \in Seq(E)
  OBVIOUS
<1>1. ASSUME NEW v \in Seq(E), NEW i \in 1..n PROVE v \o s[i] \in Seq(E)
  BY <1>0
<1> HIDE DEF n
<1>3. ASSUME NEW k \in 1..n, k - 1 \in Good PROVE k \in Good
  <2>1. CASE k = 1
    <3> DEFINE f == [i \in 1..1 |-> s[1]]
    <3>1. Fits(f, 1) /\ f \in [1..1 -> Seq(E)] /\ 1 \in 0..n
      BY <1>0
    <3> HIDE DEF f, Fits
    <3> QED BY <2>1, <3>1
  <2>2. CASE k # 1
    <3>0. k - 1 # 0 /\ k - 1 \in 1..(k - 1)
      BY <1>0, <2>2
    <3>1. PICK f \in [1..(k - 1) -> Seq(E)] : Fits(f, k - 1)
      <4> HIDE DEF Fits
      <4> QED BY <1>3, <3>0
    <3> DEFINE g == [i \in 1..k |-> IF i = k THEN f[k - 1] \o s[k] ELSE f[i]]
    <3>2. f[k - 1] \o s[k] \in Seq(E)
      <4>1. f[k - 1] \in Seq(E)
        BY <3>0, <3>1
      <4> QED BY <1>1, <4>1
    <3>3. g \in [1..k -> Seq(E)]
      <4>1. \A i \in 1..k : i # k => i \in 1..(k - 1)
        BY <1>0
      <4> QED BY <3>1, <3>2, <4>1
    <3>4. g[1] = s[1] /\ g[k] = g[k - 1] \o s[k]
      <4>1. 1 \in 1..k /\ k \in 1..k /\ k - 1 \in 1..k /\ 1 # k /\ k - 1 # k
        BY <1>0, <2>2
      <4>2. g[1] = f[1] /\ g[k - 1] = f[k - 1] /\ g[k] = f[k - 1] \o s[k]
        BY <4>1
      <4> HIDE DEF g
      <4> QED BY <3>1, <4>2
    <3>5. \A i \in 2..k : i # k => g[i] = f[i] /\ g[i - 1] = f[i - 1] /\ i \in 2..(k - 1)
      BY <1>0
    <3>6. Fits(g, k)
      <4> HIDE DEF g
      <4> QED BY <3>1, <3>4, <3>5
    <3>7. k \in 0..n
      BY <1>0
    <3> HIDE DEF g, Fits
    <3> QED BY <3>3, <3>6, <3>7
  <2> QED BY <2>1, <2>2
<1>4. n \in Good
  <2>0. 0 \in Good
    BY <1>0
  <2> HIDE DEF Good
  <2>1. \A k \in 1..n : k - 1 \in Good => k \in Good
    BY <1>3
  <2>2. \A k \in 0..n : k \in Good
    BY <1>0, <2>0, <2>1, UpTo
  <2> QED BY <1>0, <2>2
<1>5. PICK g \in [1..n -> Seq(E)] : Fits(g, n)
  BY <1>0, <1>4
<1>6. Def(g)
  <2>1. g = [i \in 1..n |-> g[i]]
    BY <1>5
  <2>2. \A i \in 1..n : i = 1 \/ i \in 2..n
    BY <1>0
  <2> QED BY <1>5, <2>1, <2>2
<1>7. PICK f : f = CHOOSE h : Def(h)
  OBVIOUS
<1>8. Def(f)
  <2> HIDE DEF Def
  <2> QED BY <1>6, <1>7
<1>9. Fits(f, n)
  <2>1. 1 \in 1..n /\ \A i \in 2..n : i \in 1..n /\ i # 1
    BY <1>0
  <2> QED BY <1>8, <2>1
<1>10. \A i \in 1..n : f[i] = g[i]
  <2> DEFINE P == {i \in 0..n : i = 0 \/ f[i] = g[i]}
  <2>1. 0 \in P
    BY <1>0
  <2>2. \A i \in 1..n : i - 1 \in P => i \in P
    <3> SUFFICES ASSUME NEW i \in 1..n, i - 1 \in P PROVE i \in 0..n /\ f[i] = g[i]
      OBVIOUS
    <3>0. i \in 0..n
      BY <1>0
    <3>1. CASE i = 1
      <4>1. f[1] = g[1]
        BY <1>5, <1>9
      <4> QED BY <3>0, <3>1, <4>1
    <3>2. CASE i # 1
      <4>1. i \in 2..n /\ f[i - 1] = g[i - 1]
        BY <1>0, <3>2
      <4>2. f[i] = f[i - 1] \o s[i]
        BY <1>9, <4>1
      <4>3. g[i] = g[i - 1] \o s[i]
        BY <1>5, <4>1
      <4> QED BY <3>0, <4>1, <4>2, <4>3
    <3> QED BY <3>0, <3>1, <3>2
  <2>3. \A i \in 0..n : i \in P
    <3> HIDE DEF P
    <3> QED BY <1>0, <2>1, <2>2, UpTo
  <2>4. \A i \in 1..n : i \in 0..n /\ i # 0
    BY <1>0
  <2> QED BY <2>3, <2>4
<1>11. FlattenSeq(s) = f[n]
  BY <1>0, <1>7 DEF FlattenSeq, n
<1>12. FlattenOf(s, g) /\ FlattenSeq(s) = g[n]
  <2>1. n \in 1..n
    BY <1>0
  <2> QED BY <1>5, <1>10, <1>11, <2>1 DEF FlattenOf, n
<1> QED BY <1>12 DEF n

(* Nothing laid end to end is nothing.                                      *)
LEMMA FlattenNil == FlattenSeq(<<>>) = <<>>
BY DEF FlattenSeq

(* What is laid end to end is a sequence of the same elements.              *)
LEMMA FlattenTyped ==
  ASSUME NEW E, NEW s \in Seq(Seq(E))
  PROVE  FlattenSeq(s) \in Seq(E)
<1>1. CASE s = <<>>
  <2>1. FlattenSeq(s) = <<>> /\ <<>> \in Seq(E)
    BY <1>1, FlattenNil
  <2> QED BY <2>1
<1>2. CASE s # <<>>
  <2>1. PICK f \in [1..Len(s) -> Seq(E)] : FlattenSeq(s) = f[Len(s)]
    BY <1>2, FlattenAre
  <2>2. Len(s) \in 1..Len(s)
    BY <1>2
  <2> QED BY <2>1, <2>2
<1> QED BY <1>1, <1>2

(* One sequence more is laid at the end.                                    *)
LEMMA FlattenStep ==
  ASSUME NEW E, NEW s \in Seq(Seq(E)), NEW e \in Seq(E)
  PROVE  FlattenSeq(Append(s, e)) = FlattenSeq(s) \o e
<1> DEFINE t == Append(s, e)
           n == Len(s)
<1>1. /\ t \in Seq(Seq(E)) /\ n \in Nat /\ Len(t) = n + 1 /\ t[n + 1] = e /\ t # <<>>
      /\ \A i \in 1..n : t[i] = s[i]
  <2>1. n \in Nat
    OBVIOUS
  <2> QED BY <2>1, AppendProperties
<1> HIDE DEF t
<1>2. PICK g \in [1..Len(t) -> Seq(E)] : FlattenOf(t, g) /\ FlattenSeq(t) = g[Len(t)]
  BY <1>1, FlattenAre
<1>3. CASE s = <<>>
  <2>1. FlattenSeq(s) = <<>> /\ n = 0
    BY <1>3, FlattenNil
  <2>2. FlattenSeq(t) = e
    BY <1>1, <1>2, <2>1 DEF FlattenOf
  <2> QED BY <2>1, <2>2 DEF t
<1>4. CASE s # <<>>
  <2>0. n # 0
    BY <1>4
  <2>1. PICK f \in [1..n -> Seq(E)] : FlattenOf(s, f) /\ FlattenSeq(s) = f[n]
    BY <1>4, FlattenAre
  <2> HIDE DEF n
  <2>2. f[n] = g[n]
    <3> DEFINE P == {i \in 0..n : i = 0 \/ f[i] = g[i]}
    <3>1. 0 \in P
      BY <1>1
    <3>2. \A i \in 1..n : i - 1 \in P => i \in P
      <4> SUFFICES ASSUME NEW i \in 1..n, i - 1 \in P PROVE i \in 0..n /\ f[i] = g[i]
        OBVIOUS
      <4>0. t[i] = s[i]
        BY <1>1
      <4>1. CASE i = 1
        BY <1>1, <1>2, <2>1, <4>0, <4>1 DEF FlattenOf
      <4>2. CASE i # 1
        <5>1. i \in 2..n /\ i \in 2..Len(t) /\ f[i - 1] = g[i - 1]
          BY <1>1, <4>2
        <5>2. f[i] = f[i - 1] \o s[i]
          BY <2>1, <5>1 DEF FlattenOf, n
        <5>3. g[i] = g[i - 1] \o t[i]
          BY <1>2, <5>1 DEF FlattenOf
        <5>4. i \in 0..n
          BY <1>1
        <5> QED BY <4>0, <5>1, <5>2, <5>3, <5>4
      <4> QED BY <4>1, <4>2
    <3>3. \A i \in 0..n : i \in P
      <4> HIDE DEF P
      <4> QED BY <1>1, <3>1, <3>2, UpTo
    <3>4. n \in 0..n
      BY <1>1
    <3> QED BY <2>0, <3>3, <3>4
  <2>3. g[n + 1] = g[n] \o e
    <3>1. n + 1 \in 2..Len(t) /\ (n + 1) - 1 = n
      BY <1>1, <2>0
    <3> QED BY <1>1, <1>2, <3>1 DEF FlattenOf
  <2> QED BY <1>1, <1>2, <2>1, <2>2, <2>3 DEF t
<1> QED BY <1>3, <1>4

(* What is in them is in one of them.                                      *)
LEMMA FlattenElement ==
  ASSUME NEW E, NEW s \in Seq(Seq(E))
  PROVE  \A e \in ToSet(FlattenSeq(s)) : \E i \in DOMAIN s : e \in ToSet(s[i])
<1> DEFINE Held(u) == \A e \in ToSet(FlattenSeq(u)) : \E i \in DOMAIN u : e \in ToSet(u[i])
           P == {u \in Seq(Seq(E)) : Held(u)}
<1>1. <<>> \in P
  <2>1. ToSet(FlattenSeq(<<>>)) = {} /\ <<>> \in Seq(Seq(E))
    BY FlattenNil, NothingIn
  <2> QED BY <2>1
<1>2. ASSUME NEW u \in Seq(Seq(E)), NEW d \in Seq(E), u \in P PROVE Append(u, d) \in P
  <2>1. FlattenSeq(Append(u, d)) = FlattenSeq(u) \o d /\ FlattenSeq(u) \in Seq(E)
    BY FlattenStep, FlattenTyped
  <2>2. PICK w \in Seq(E) : w = FlattenSeq(u)
    BY <2>1
  <2>3. \A e \in ToSet(w \o d) : e \in ToSet(w) \/ e \in ToSet(d)
    BY DEF ToSet
  <2>4. /\ Append(u, d) \in Seq(Seq(E)) /\ Append(u, d)[Len(u) + 1] = d
        /\ Len(u) + 1 \in DOMAIN Append(u, d)
        /\ \A i \in DOMAIN u : i \in DOMAIN Append(u, d) /\ Append(u, d)[i] = u[i]
    OBVIOUS
  <2>5. Held(Append(u, d))
    BY <1>2, <2>1, <2>2, <2>3, <2>4
  <2> HIDE DEF Held
  <2> QED BY <2>4, <2>5
<1>3. s \in P
  <2> HIDE DEF P
  <2>1. \A u \in Seq(Seq(E)), d \in Seq(E) : u \in P => Append(u, d) \in P
    BY <1>2
  <2> QED BY <1>1, <2>1, OverSequences
<1> QED BY <1>3

(* Sequences without repetition.                                           *)
LEMMA DistinctNil == IsInjective(<<>>)
BY DEF IsInjective

(* A new element repeats nothing.                                           *)
LEMMA DistinctAppend ==
  ASSUME NEW E, NEW s \in Seq(E), NEW e \in E, IsInjective(s), e \notin ToSet(s)
  PROVE  IsInjective(Append(s, e))
<1>1. \A i \in DOMAIN s : s[i] # e
  BY DEF ToSet
<1> QED BY <1>1 DEF IsInjective

(* Nor do the parts of such a sequence, which have nothing in common.       *)
LEMMA DistinctParts ==
  ASSUME NEW E, NEW s \in Seq(E), NEW t \in Seq(E), IsInjective(s \o t)
  PROVE  IsInjective(s) /\ ToSet(s) \cap ToSet(t) = {}
<1>1. /\ \A i \in DOMAIN s : i \in DOMAIN (s \o t) /\ (s \o t)[i] = s[i]
      /\ \A j \in DOMAIN t : /\ Len(s) + j \in DOMAIN (s \o t) /\ (s \o t)[Len(s) + j] = t[j]
                             /\ \A i \in DOMAIN s : i # Len(s) + j
  OBVIOUS
<1>2. IsInjective(s)
  BY <1>1 DEF IsInjective
<1>3. \A i \in DOMAIN s, j \in DOMAIN t : s[i] # t[j]
  BY <1>1 DEF IsInjective
<1> QED BY <1>2, <1>3 DEF ToSet

(* Of a sequence without repetition, those in a part of it are that part.  *)
LEMMA ThosePart ==
  ASSUME NEW E, NEW s \in Seq(E), NEW t \in Seq(E), IsInjective(s \o t), NEW S, NEW T,
         ToSet(s) \subseteq S, ToSet(t) \cap S = {}, ToSet(s) \cap T = {}, ToSet(t) \subseteq T
  PROVE  Those(s \o t, S) = s /\ Those(s \o t, T) = t
<1>1. Those(s, S) = s /\ Those(t, S) = <<>> /\ Those(s, T) = <<>> /\ Those(t, T) = t
  BY ThoseElements
<1>2. Those(s \o t, S) = Those(s, S) \o Those(t, S)
  BY ThoseSplit
<1>3. Those(s \o t, T) = Those(s, T) \o Those(t, T)
  BY ThoseSplit
<1> QED BY <1>1, <1>2, <1>3

(* What is put in the middle of a sequence, and not among those, changes   *)
(* nothing about them.                                                     *)
LEMMA ThoseInsert ==
  ASSUME NEW E, NEW S, NEW s \in Seq(E), NEW e \in E, e \notin S, NEW k \in 1..(Len(s) + 1)
  PROVE  InsertAt(s, k, e) \in Seq(E) /\ Those(InsertAt(s, k, e), S) = Those(s, S)
<1>0. /\ Len(s) \in Nat /\ k \in Int /\ k - 1 \in 0..Len(s) /\ (k - 1) + 1 = k
      /\ \A i \in 1..Len(s) : s[i] \in E
  OBVIOUS
<1>1. PICK a \in Seq(E) : a = SubSeq(s, 1, k - 1)
  <2>1. \A i \in 1..(k - 1) : s[i] \in E
    BY <1>0
  <2>2. k - 1 \in Int /\ 1 \in Int
    BY <1>0
  <2> QED BY <2>1, <2>2, SubSeqProperties
<1>2. PICK b \in Seq(E) : b = SubSeq(s, k, Len(s))
  <2>1. \A i \in k..Len(s) : s[i] \in E
    BY <1>0
  <2>2. k \in Int /\ Len(s) \in Int
    BY <1>0
  <2> QED BY <2>1, <2>2, SubSeqProperties
<1>3. s = a \o b
  <2>1. 1 \in 1..(Len(s) + 1) /\ k - 1 \in (1 - 1)..Len(s) /\ Len(s) \in (k - 1)..Len(s)
    BY <1>0
  <2>2. SubSeq(s, 1, k - 1) \o SubSeq(s, (k - 1) + 1, Len(s)) = SubSeq(s, 1, Len(s))
    BY <2>1, ConcatAdjacentSubSeq
  <2>3. SubSeq(s, 1, Len(s)) = s
    BY SubSeqFull
  <2> QED BY <1>0, <1>1, <1>2, <2>2, <2>3
<1>4. InsertAt(s, k, e) = Append(a, e) \o b
  <2>1. InsertAt(s, k, e) = a \o <<e>> \o b
    BY <1>1, <1>2 DEF InsertAt
  <2> QED BY <2>1, AppendIsConcat
<1>5. Append(a, e) \in Seq(E)
  OBVIOUS
<1>6. PICK c \in Seq(E) : c = Append(a, e)
  BY <1>5
<1>7. Those(c, S) = Those(a, S)
  BY <1>6, ThoseStep
<1>8. Those(c \o b, S) = Those(c, S) \o Those(b, S)
  BY ThoseSplit
<1>9. Those(a \o b, S) = Those(a, S) \o Those(b, S)
  BY ThoseSplit
<1> QED BY <1>3, <1>4, <1>6, <1>7, <1>8, <1>9

-----------------------------------------------------------------------------
(* The transcript answers the saved calls in their order.                   *)
Told == [i \in DOMAIN answers |-> answers[i].call]
Telling == {"calls", "claim", "effect", "finish", "media", "tell"}

(* No call is saved twice; the answers follow the saved calls, and what the *)
(* engine still has to do is the rest of them.                              *)
AnswersFollow ==
  /\ todo \in Seq(Calls)
  /\ IsInjective(AskedCalls)
  /\ engine = "streaming" => IsInjective(AskedCalls \o draft)
  /\ engine \in Telling => todo # <<>> /\ AskedCalls = Told \o todo
  /\ engine = "publish" => /\ todo # <<>> /\ AskedCalls = Told \o Tail(todo) /\ answers # <<>>
                           /\ Last(answers) = [call |-> Head(todo), res |-> held]
  /\ engine \in {"round", "streaming", "final", "done", "ended"} \/ finals > 0 => AskedCalls = Told
  /\ \E rest \in Seq(Calls) : AskedCalls = Told \o rest

(* The calls that were saved, and those that were answered.                 *)
LEMMA ToldTyped ==
  ASSUME RecordsTyped
  PROVE  /\ AskedCalls \in Seq(Calls) /\ Told \in Seq(Calls) /\ DOMAIN Told = DOMAIN answers
         /\ Len(Told) = Len(answers) /\ \A i \in DOMAIN answers : Told[i] = answers[i].call
         /\ Answered = ToSet(Told) /\ Answered \subseteq Calls
<1>1. asked \in Seq(Seq(Calls)) /\ answers \in Seq([call : Calls, res : Results])
  BY DEF RecordsTyped
<1>2. AskedCalls \in Seq(Calls)
  BY <1>1, FlattenTyped DEF AskedCalls
<1>3. DOMAIN answers = 1..Len(answers) /\ Len(answers) \in Nat
  BY <1>1
<1>4. ASSUME NEW i \in DOMAIN answers PROVE answers[i].call \in Calls
  <2>1. answers[i] \in [call : Calls, res : Results]
    BY <1>1, SeqElement
  <2> QED BY <2>1
<1>5. Told \in [1..Len(answers) -> Calls]
  BY <1>3, <1>4 DEF Told
<1>6. Told \in Seq(Calls) /\ Len(Told) = Len(answers)
  BY <1>3, <1>5, IsASeq
<1>7. DOMAIN Told = DOMAIN answers /\ \A i \in DOMAIN answers : Told[i] = answers[i].call
  BY DEF Told
<1>8. Answered = ToSet(Told)
  BY <1>7 DEF Answered, ToSet
<1> QED BY <1>2, <1>4, <1>6, <1>7, <1>8 DEF Answered

(* Any sequence is what was told and the rest, if there is a rest.          *)
LEMMA PartsOf ==
  ASSUME RecordsTyped, AnswersFollow
  PROVE  \E rest \in Seq(Calls) :
           /\ AskedCalls = Told \o rest /\ ToSet(rest) \cap Answered = {}
           /\ Those(AskedCalls, Answered) = Told
           /\ Those(AskedCalls, Calls \ Answered) = rest
           /\ IsInjective(Told)
<1>1. PICK rest \in Seq(Calls) : AskedCalls = Told \o rest
  BY DEF AnswersFollow
<1>2. Told \in Seq(Calls) /\ Answered = ToSet(Told)
  BY ToldTyped
<1>3. IsInjective(Told \o rest)
  BY <1>1 DEF AnswersFollow
<1>4. IsInjective(Told) /\ ToSet(Told) \cap ToSet(rest) = {}
  BY <1>2, <1>3, DistinctParts
<1>5. ToSet(rest) \subseteq Calls \ Answered
  <2>1. ToSet(rest) \subseteq Calls
    BY DEF ToSet
  <2> QED BY <1>2, <1>4, <2>1
<1>6. Those(Told \o rest, Answered) = Told /\ Those(Told \o rest, Calls \ Answered) = rest
  <2>1. /\ ToSet(Told) \subseteq Answered /\ ToSet(rest) \cap Answered = {}
        /\ ToSet(Told) \cap (Calls \ Answered) = {} /\ ToSet(rest) \subseteq Calls \ Answered
    BY <1>2, <1>4, <1>5
  <2>2. PICK t \in Seq(Calls) : t = Told
    BY <1>2
  <2>3. Those(t \o rest, Answered) = t /\ Those(t \o rest, Calls \ Answered) = rest
    BY <1>3, <2>1, <2>2, ThosePart
  <2> QED BY <2>2, <2>3
<1> QED BY <1>1, <1>2, <1>4, <1>6

(* The engine works at the call at hand and leaves the transcript alone.    *)
LEMMA AtCallStays ==
  ASSUME NEW c \in Calls, AtCall(c)
  PROVE  /\ engine \in Telling /\ engine' \in Telling /\ c = Head(todo)
         /\ UNCHANGED <<asked, answers, finals, todo, draft>>
BY DEF AtCall, Telling, Replay, Deny, Withhold, Admit, Prepare, ClaimStep, Perform, Refuse, Roll,
   Generate, FinishStep, EmitMedia, transcript, local

(* A new turn has saved and answered nothing.                               *)
LEMMA AnswersFollowInit == Init => AnswersFollow
<1> SUFFICES ASSUME Init PROVE AnswersFollow
  OBVIOUS
<1>1. AskedCalls = <<>> /\ Told = <<>>
  <2>1. AskedCalls = <<>>
    BY FlattenNil DEF Init, AskedCalls
  <2>2. Told = <<>>
    BY DEF Init, Told
  <2> QED BY <2>1, <2>2
<1>2. <<>> \in Seq(Calls) /\ <<>> = <<>> \o <<>>
  OBVIOUS
<1> QED BY <1>1, <1>2, DistinctNil DEF Init, AnswersFollow, Telling

(* Every step lets the answers follow the saved calls.                      *)
LEMMA AnswersFollowStep ==
  ASSUME CheckpointInv, AnswersFollow, [Next]_vars
  PROVE  AnswersFollow'
<1>0. /\ AskedCalls \in Seq(Calls) /\ Told \in Seq(Calls) /\ draft \in Seq(Calls)
      /\ todo \in Seq(Calls) /\ answers \in Seq([call : Calls, res : Results])
  BY ToldTyped DEF CheckpointInv, RecordsTyped, AnswersFollow
<1>1. asked' = asked => AskedCalls' = AskedCalls
  BY DEF AskedCalls
<1>2. answers' = answers => Told' = Told
  BY DEF Told
<1>3. ASSUME UNCHANGED <<asked, answers, finals, todo, draft>>,
             \/ engine' \in {"off", "start", "failed"}
             \/ engine \in Telling /\ engine' \in Telling
             \/ UNCHANGED <<engine, held>>
             \/ engine = "streaming" /\ engine' = "round"
             \/ engine \in {"final", "done"} /\ engine' \in {"done", "ended"}
             \/ finals > 0 /\ engine' = "final"
      PROVE  AnswersFollow'
  BY <1>1, <1>2, <1>3 DEF AnswersFollow, Telling
<1>4. CASE UNCHANGED vars
  BY <1>3, <1>4 DEF vars, transcript, local
<1>5. CASE ReplayFinal \/ StopEarly \/ EmitText \/ EmitDone
  BY <1>3, <1>5 DEF ReplayFinal, StopEarly, EmitText, EmitDone, transcript, local
<1>6. CASE Begin
  <2>1. /\ UNCHANGED <<asked, answers, finals, draft, held>> /\ finals = 0
        /\ todo' = Those(AskedCalls, Calls \ Answered)
        /\ engine' = IF todo' = <<>> THEN "round" ELSE "calls"
    BY <1>6 DEF Begin
  <2>2. PICK rest \in Seq(Calls) :
          AskedCalls = Told \o rest /\ Those(AskedCalls, Calls \ Answered) = rest
    BY PartsOf DEF CheckpointInv
  <2>3. rest = <<>> => AskedCalls = Told
    BY <1>0, <2>2
  <2> QED BY <1>1, <1>2, <2>1, <2>2, <2>3 DEF AnswersFollow, Telling
<1>7. CASE OpenRound
  <2>1. /\ UNCHANGED <<asked, answers, finals, todo, held>> /\ draft' = <<>>
        /\ engine = "round" /\ engine' = "streaming"
    BY <1>7 DEF OpenRound, transcript
  <2>2. AskedCalls \o <<>> = AskedCalls
    BY <1>0
  <2> QED BY <1>1, <1>2, <2>1, <2>2 DEF AnswersFollow, Telling
<1>8. CASE SaveCalls
  <2>1. /\ engine = "streaming" /\ draft # <<>> /\ asked' = Append(asked, draft) /\ todo' = draft
        /\ engine' = "calls" /\ UNCHANGED <<answers, finals>>
    BY <1>8 DEF SaveCalls
  <2>2. AskedCalls' = AskedCalls \o draft
    <3>1. asked \in Seq(Seq(Calls))
      BY DEF CheckpointInv, RecordsTyped
    <3>2. FlattenSeq(Append(asked, draft)) = FlattenSeq(asked) \o draft
      BY <1>0, <3>1, FlattenStep
    <3> QED BY <2>1, <3>2 DEF AskedCalls
  <2>3. finals = 0
    BY <2>1 DEF CheckpointInv, RecordsTyped, NarrationLast
  <2>4. Told' = Told /\ AskedCalls = Told /\ IsInjective(AskedCalls \o draft)
    BY <1>2, <2>1 DEF AnswersFollow
  <2>5. AskedCalls' = Told' \o todo' /\ IsInjective(AskedCalls') /\ todo' \in Seq(Calls)
    BY <1>0, <2>1, <2>2, <2>4
  <2>6. \E rest \in Seq(Calls) : AskedCalls' = Told' \o rest
    BY <2>5
  <2>7. todo' # <<>> /\ engine' = "calls" /\ finals' = 0
    BY <2>1, <2>3
  <2>8. engine' \notin {"streaming", "publish", "round", "final", "done", "ended"} /\ ~(finals' > 0)
    BY <2>7
  <2> QED BY <2>5, <2>6, <2>7, <2>8, Zenon DEF AnswersFollow, Telling
<1>9. CASE StopFinal
  <2>1. /\ UNCHANGED <<asked, answers, todo, draft, held>> /\ engine = "streaming" /\ engine' = "final"
    BY <1>9 DEF StopFinal, local
  <2> QED BY <1>1, <1>2, <2>1 DEF AnswersFollow, Telling
<1>10. ASSUME NEW c \in Calls, StreamCall(c) PROVE AnswersFollow'
  <2>1. /\ engine = "streaming" /\ c \notin ToSet(AskedCalls \o draft) /\ draft' = Append(draft, c)
        /\ UNCHANGED <<asked, answers, finals, todo, engine, held>>
    BY <1>10 DEF StreamCall, transcript
  <2>2. AskedCalls \o draft' = Append(AskedCalls \o draft, c)
    <3>1. PICK u \in Seq(Calls) : u = AskedCalls
      BY <1>0
    <3>2. PICK w \in Seq(Calls) : w = draft
      BY <1>0
    <3>3. u \o Append(w, c) = Append(u \o w, c)
      OBVIOUS
    <3> QED BY <2>1, <3>1, <3>2, <3>3
  <2>3. PICK s \in Seq(Calls) : s = AskedCalls \o draft
    BY <1>0, ConcatProperties
  <2>4. IsInjective(Append(s, c))
    BY <2>1, <2>3, DistinctAppend DEF AnswersFollow
  <2> QED BY <1>1, <1>2, <2>1, <2>2, <2>3, <2>4 DEF AnswersFollow, Telling
<1>11. ASSUME NEW c \in Calls, AtCall(c) PROVE AnswersFollow'
  BY <1>3, <1>11, AtCallStays
<1>12. ASSUME NEW c \in Calls, Tell(c) PROVE AnswersFollow'
  <2>1. /\ engine = "tell" /\ c = Head(todo) /\ answers' = Append(answers, [call |-> c, res |-> held])
        /\ engine' = "publish" /\ UNCHANGED <<asked, finals, todo, held>>
    BY <1>12 DEF Tell, local
  <2>2. todo # <<>> /\ AskedCalls = Told \o todo
    BY <2>1 DEF AnswersFollow, Telling
  <2>3. held \in Results
    BY <2>1 DEF CheckpointInv, HeldBacked, AtHand
  <2>4. PICK a \in [call : Calls, res : Results] : a = [call |-> c, res |-> held]
    BY <2>3
  <2>5. answers' # <<>> /\ Last(answers') = a
    <3>1. PICK s \in Seq([call : Calls, res : Results]) : s = answers
      BY <1>0
    <3>2. Append(s, a) # <<>> /\ Last(Append(s, a)) = a
      BY AppendProperties DEF Last
    <3> QED BY <2>1, <2>4, <3>1, <3>2
  <2>6. Told' = Append(Told, c)
    <3>1. DOMAIN answers' = 1..(Len(answers) + 1) /\ Len(answers) \in Nat /\ Len(Told) = Len(answers)
      BY <1>0, <2>1, <2>4, ToldTyped DEF CheckpointInv
    <3>2. \A i \in 1..(Len(answers) + 1) :
            answers'[i].call = IF i = Len(answers) + 1 THEN c ELSE answers[i].call
      BY <1>0, <2>1, <2>4
    <3>3. \A i \in 1..(Len(answers) + 1) : Append(Told, c)[i] = answers'[i].call
      <4>1. \A i \in DOMAIN answers : Told[i] = answers[i].call
        BY ToldTyped DEF CheckpointInv
      <4>2. DOMAIN answers = 1..Len(answers)
        BY <1>0
      <4>3. \A i \in 1..(Len(answers) + 1) :
              Append(Told, c)[i] = IF i = Len(answers) + 1 THEN c ELSE Told[i]
        BY <1>0, <3>1
      <4> QED BY <3>1, <3>2, <4>1, <4>2, <4>3
    <3>4. Append(Told, c) \in Seq(Calls) /\ DOMAIN Append(Told, c) = 1..(Len(answers) + 1)
      BY <1>0, <3>1
    <3>5. Told' = [i \in 1..(Len(answers) + 1) |-> answers'[i].call]
      BY <3>1 DEF Told
    <3>6. Append(Told, c) = [i \in 1..(Len(answers) + 1) |-> Append(Told, c)[i]]
      <4>1. PICK s \in Seq(Calls) : s = Append(Told, c)
        BY <3>4
      <4>2. DOMAIN s = 1..(Len(answers) + 1)
        BY <3>4, <4>1
      <4>3. s = [i \in DOMAIN s |-> s[i]]
        OBVIOUS
      <4> QED BY <4>1, <4>2, <4>3
    <3> QED BY <3>3, <3>5, <3>6
  <2>7. AskedCalls = Told' \o Tail(todo) /\ Tail(todo) \in Seq(Calls)
    BY <1>0, <2>1, <2>2, <2>6
  <2>8. finals = 0
    BY <2>1 DEF CheckpointInv, RecordsTyped, NarrationLast
  <2>9. AskedCalls' = Told' \o Tail(todo') /\ Tail(todo') \in Seq(Calls) /\ AskedCalls' = AskedCalls
    BY <1>1, <2>1, <2>7
  <2>10. \E rest \in Seq(Calls) : AskedCalls' = Told' \o rest
    BY <2>9
  <2>11. /\ todo' # <<>> /\ engine' = "publish" /\ finals' = 0 /\ todo' \in Seq(Calls)
         /\ Last(answers') = [call |-> Head(todo'), res |-> held'] /\ IsInjective(AskedCalls')
    BY <2>1, <2>2, <2>4, <2>5, <2>8, <2>9 DEF AnswersFollow
  <2>12. /\ engine' \notin {"streaming", "round", "final", "done", "ended"} /\ ~(finals' > 0)
         /\ engine' \notin Telling
    BY <2>11 DEF Telling
  <2> QED BY <2>5, <2>9, <2>10, <2>11, <2>12, Zenon DEF AnswersFollow
<1>13. ASSUME NEW c \in Calls, Publish(c) PROVE AnswersFollow'
  <2>1. /\ engine = "publish" /\ todo' = Tail(todo)
        /\ engine' = IF Tail(todo) = <<>> THEN "round" ELSE "calls"
        /\ UNCHANGED <<asked, answers, finals, draft>>
    BY <1>13 DEF Publish, transcript
  <2>2. Tail(todo) \in Seq(Calls) /\ AskedCalls = Told \o Tail(todo)
    <3>1. todo # <<>> /\ AskedCalls = Told \o Tail(todo)
      BY <2>1 DEF AnswersFollow
    <3>2. Tail(todo) \in Seq(Calls)
      BY <1>0, <3>1, HeadTailProperties
    <3> QED BY <3>1, <3>2
  <2>3. Tail(todo) = <<>> => AskedCalls = Told
    <3>1. Told \o <<>> = Told
      BY <1>0
    <3> QED BY <2>2, <3>1
  <2>4. finals = 0
    BY <2>1 DEF CheckpointInv, RecordsTyped, NarrationLast
  <2> QED BY <1>1, <1>2, <2>1, <2>2, <2>3, <2>4 DEF AnswersFollow, Telling
<1>14. CASE EngineStops \/ Recorder \/ Crash \/ OtherCommit
  BY <1>3, <1>14 DEF EngineStops, Recorder, Record, RecordFails, Settle, Crash, OtherCommit,
     transcript, local
<1>15. CASE Resume
  <2>1. UNCHANGED <<asked, answers, finals>> /\ todo' = <<>> /\ engine' = "start"
    BY <1>15 DEF Resume, transcript
  <2>2. <<>> \in Seq(Calls)
    OBVIOUS
  <2> QED BY <1>1, <1>2, <2>1, <2>2 DEF AnswersFollow, Telling
<1> QED
  BY <1>4, <1>5, <1>6, <1>7, <1>8, <1>9, <1>10, <1>11, <1>12, <1>13, <1>14, <1>15
  DEF Next, Engine, Turn, Call, AtCall

-----------------------------------------------------------------------------
(* One outcome of a call, but for the combat actions, whose tools a lost    *)
(* encounter withholds: what its receipt, its step and the engine say is    *)
(* the same, and so is what was answered.                                   *)
OutcomeHeld(c) ==
  /\ c \in receipts /\ steps[c] \in Results => steps[c] = "performed"
  /\ AtHand(c, {"finish"}) /\ c \in receipts => held = "performed"
  /\ AtHand(c, {"media", "tell"}) /\ Recorded(c) # "none" => held = Recorded(c)
OutcomeAnswered(c) ==
  \A i \in DOMAIN answers :
    answers[i].call = c /\ Recorded(c) # "none" => answers[i].res = Recorded(c)
OneOutcome ==
  \A c \in Calls : Kind[c] # "combat" => OutcomeHeld(c) /\ OutcomeAnswered(c)

(* Only what an answer says, and only at a resume, becomes the record of an *)
(* answered call.                                                           *)
LEMMA AnsweredRecords ==
  ASSUME CheckpointInv, AnswersFollow, [Next]_vars, NEW d \in Answered
  PROVE  Recorded(d)' = Recorded(d) \/ (Recorded(d) = "none" /\ Recorded(d)' = AnswerOf(d))
<1> USE Words DEF CheckpointInv, RecordsTyped
<1>0. d \in Calls
  BY ToldTyped
<1>1. CASE Quiet
  BY <1>0, <1>1, QuietRecords
<1>2. CASE Recorded(d) # "none"
  BY <1>0, <1>2, RecordsKept
<1>3. ASSUME NEW c \in Calls, AtCall(c), Recorded(d) = "none" PROVE Recorded(d)' = "none"
  <2>1. d # c
    <3>1. engine \in Telling /\ c = Head(todo)
      BY <1>3, AtCallStays
    <3>2. todo # <<>> /\ AskedCalls = Told \o todo /\ todo \in Seq(Calls) /\ IsInjective(AskedCalls)
      BY <3>1 DEF AnswersFollow
    <3>3. Told \in Seq(Calls) /\ Answered = ToSet(Told)
      BY ToldTyped
    <3>4. ToSet(Told) \cap ToSet(todo) = {}
      BY <3>2, <3>3, DistinctParts
    <3>5. c \in ToSet(todo)
      BY <3>1, <3>2 DEF ToSet
    <3> QED BY <3>3, <3>4, <3>5
  <2>2. d \notin receipts /\ steps[d] \notin Results
    BY <1>0, <1>3 DEF Recorded
  <2>3. Repaired \in [Calls -> {"none", "pending"} \cup Results] /\ Repaired[d] = steps[d]
    BY <1>0, <2>2 DEF Repaired
  <2>4. d \notin receipts' /\ steps'[d] \notin Results
    <3>1. CASE Replay(c)
      BY <1>0, <2>1, <2>2, <2>3, <3>1 DEF Replay
    <3>2. CASE Deny(c) \/ Withhold(c) \/ Admit(c)
      BY <2>2, <2>3, <3>2 DEF Deny, Withhold, Admit, LoadLedger, ledger
    <3>3. ASSUME NEW last \in BOOLEAN, Prepare(c, last) PROVE d \notin receipts' /\ steps'[d] \notin Results
      BY <1>0, <2>1, <2>2, <2>3, <3>3 DEF Prepare
    <3>4. CASE ClaimStep(c) \/ FinishStep(c)
      BY <1>0, <2>1, <2>2, <3>4 DEF ClaimStep, FinishStep
    <3>5. CASE Perform(c)
      BY <2>1, <2>2, <3>5 DEF Perform
    <3>6. CASE Refuse(c) \/ Roll(c) \/ Generate(c) \/ EmitMedia(c)
      BY <2>2, <3>6 DEF Refuse, Roll, Generate, EmitMedia, ledger
    <3> QED BY <1>3, <3>1, <3>2, <3>3, <3>4, <3>5, <3>6 DEF AtCall
  <2> QED BY <2>4 DEF Recorded
<1>4. CASE Resume /\ Recorded(d) = "none"
  <2>1. steps'[d] = AnswerOf(d) /\ receipts' = receipts
    BY <1>0, <1>4 DEF Resume, Confirmed, Recorded
  <2>2. AnswerOf(d) \in Results
    <3>1. PICK i \in DOMAIN answers : AnswerOf(d) = answers[i].res
      BY AnswerOfAnswered
    <3>2. answers[i] \in [call : Calls, res : Results]
      BY <3>1, SeqElement
    <3> QED BY <3>1, <3>2
  <2> QED BY <1>4, <2>1, <2>2 DEF Recorded
<1> QED BY <1>1, <1>2, <1>3, <1>4, Moves

(* An answered call has one answer.                                         *)
LEMMA AnswerOfIs ==
  ASSUME RecordsTyped, AnswersFollow, NEW i \in DOMAIN answers
  PROVE  AnswerOf(answers[i].call) = answers[i].res /\ answers[i].call \in Answered
<1> DEFINE d == answers[i].call
<1>1. \A j \in DOMAIN answers : answers[j].call = d => j = i
  <2>1. DOMAIN Told = DOMAIN answers /\ \A j \in DOMAIN answers : Told[j] = answers[j].call
    BY ToldTyped
  <2>2. IsInjective(Told)
    BY PartsOf
  <2> QED BY <2>1, <2>2 DEF IsInjective
<1>2. (CHOOSE j \in DOMAIN answers : answers[j].call = d) = i
  BY <1>1
<1> QED BY <1>2 DEF AnswerOf, Answered

(* Every step keeps receipt, step and what the engine holds in agreement.   *)
LEMMA OutcomeHeldStep ==
  ASSUME CheckpointInv, OneOutcome, [Next]_vars, NEW d \in Calls, Kind[d] # "combat"
  PROVE  OutcomeHeld(d)'
<1> USE Words, CheckpointConstants DEF CheckpointInv, RecordsTyped, AtHand, OutcomeHeld
<1>1. OutcomeHeld(d)
  BY DEF OneOutcome
<1>2. Recorded(d) # "none" => Recorded(d)' = Recorded(d)
  BY RecordsKept
<1>3. /\ Repaired[d] # steps[d] => steps[d] = "pending" /\ Repaired[d] = "performed" /\ d \in receipts
      /\ Repaired \in [Calls -> {"none", "pending"} \cup Results]
  BY DEF Repaired
<1>4. ASSUME Quiet PROVE /\ d \in receipts' /\ steps'[d] \in Results => steps'[d] = "performed"
                         /\ Recorded(d)' = Recorded(d)
  <2>1. /\ steps'[d] # steps[d] => steps'[d] = "performed"
        /\ receipts' = receipts /\ Recorded(d)' = Recorded(d)
    BY <1>4, QuietRecords DEF Quiet
  <2> QED BY <1>1, <2>1
<1>5. CASE Quiet /\ Elsewhere
  <2>1. /\ d \in receipts' /\ steps'[d] \in Results => steps'[d] = "performed"
        /\ Recorded(d)' = Recorded(d) /\ receipts' = receipts
    BY <1>4, <1>5 DEF Quiet
  <2>2. CASE engine' \notin {"claim", "effect", "finish", "media", "tell"}
    BY <2>1, <2>2
  <2>3. CASE UNCHANGED <<engine, todo, held, steps>>
    BY <1>1, <2>1, <2>3
  <2> QED BY <1>5, <2>2, <2>3 DEF Elsewhere
<1>6. ASSUME NEW c \in Calls, AtCall(c) PROVE OutcomeHeld(d)'
  <2>1. CASE Replay(c)
    <3>1. /\ UNCHANGED <<receipts, todo>> /\ engine' = "tell" /\ held' = Recorded(c)
          /\ c = Head(todo) /\ Recorded(c) # "none"
          /\ steps' = [Repaired EXCEPT ![c] = IF @ \in Results THEN @ ELSE Recorded(c)]
      BY <2>1 DEF Replay
    <3>2. d \in receipts /\ steps'[d] \in Results => steps'[d] = "performed"
      BY <1>1, <1>3, <3>1 DEF Recorded
    <3> QED BY <1>2, <3>1, <3>2
  <2>2. CASE Deny(c)
    <3>1. /\ Quiet /\ UNCHANGED todo /\ engine' = "tell" /\ c = Head(todo) /\ Recorded(c) = "none"
      BY <2>2 DEF Deny, Quiet, LoadLedger
    <3> QED BY <1>1, <1>4, <3>1
  <2>3. CASE Withhold(c)
    <3>1. /\ Quiet /\ UNCHANGED todo /\ engine' = "tell" /\ c = Head(todo) /\ c # d
      BY <2>3 DEF Withhold, Quiet, ledger, Offered
    <3> QED BY <1>1, <1>4, <3>1
  <2>4. CASE Admit(c)
    BY <1>1, <2>4 DEF Admit, ledger
  <2>5. ASSUME NEW last \in BOOLEAN, Prepare(c, last) PROVE OutcomeHeld(d)'
    <3>1. /\ UNCHANGED receipts /\ engine' = "claim"
          /\ steps' = Repaired \/ steps' = [Repaired EXCEPT ![c] = "pending"]
      BY <2>5 DEF Prepare
    <3> QED BY <1>1, <1>3, <3>1
  <2>6. CASE ClaimStep(c)
    <3>1. UNCHANGED <<receipts, todo>> /\ c = Head(todo) /\ engine = "claim"
      BY <2>6 DEF ClaimStep
    <3>2. CASE /\ steps[c] \in Results /\ held' = steps[c] /\ engine' \in {"media", "tell"}
               /\ UNCHANGED steps
      BY <1>1, <3>1, <3>2 DEF Recorded
    <3>3. CASE held' = "fresh" /\ engine' = "finish" /\ UNCHANGED steps /\ Kind[c] = "media"
      <4>1. Kind[d] = "media" => d \notin receipts
        BY DEF EffectsCounted
      <4> QED BY <1>1, <3>1, <3>3, <4>1
    <3>4. CASE steps' = [steps EXCEPT ![c] = "pending"] /\ engine' = "effect"
      BY <1>1, <3>1, <3>4
    <3> QED BY <2>6, <3>2, <3>3, <3>4 DEF ClaimStep, Fragile
  <2>7. CASE Perform(c)
    <3>1. /\ engine = "effect" /\ engine' = "finish" /\ c = Head(todo) /\ UNCHANGED <<steps, todo>>
          /\ held' = "performed" /\ receipts' \in {receipts, receipts \cup {c}}
      BY <2>7 DEF Perform
    <3>2. steps[c] = "pending"
      BY <3>1 DEF HeldBacked
    <3> QED BY <1>1, <3>1, <3>2
  <2>8. CASE Refuse(c)
    BY <1>1, <2>8 DEF Refuse, ledger, local
  <2>9. CASE Roll(c) \/ Generate(c)
    <3>1. /\ engine' = "finish" /\ c = Head(todo) /\ UNCHANGED <<steps, receipts, todo>>
          /\ Kind[c] \in {"dice", "media"}
      BY <2>9 DEF Roll, Generate, ledger, local
    <3>2. Kind[d] \in {"dice", "media"} => d \notin receipts
      BY DEF EffectsCounted
    <3> QED BY <1>1, <3>1, <3>2
  <2>10. CASE FinishStep(c)
    <3>1. /\ UNCHANGED <<receipts, todo, held>> /\ engine = "finish" /\ c = Head(todo)
          /\ engine' \in {"media", "tell"} /\ steps' = [steps EXCEPT ![c] = held] /\ held \in Results
      BY <2>10 DEF FinishStep, HeldBacked
    <3>2. Recorded(d)' = IF d \in receipts THEN "performed"
                         ELSE IF steps'[d] \in Results THEN steps'[d] ELSE "none"
      BY <3>1 DEF Recorded
    <3> QED BY <1>1, <3>1, <3>2
  <2>11. CASE EmitMedia(c)
    <3>1. UNCHANGED <<receipts, steps, todo, held>> /\ engine = "media" /\ engine' = "tell"
      BY <2>11 DEF EmitMedia, ledger, local
    <3>2. Recorded(d)' = Recorded(d)
      BY <3>1 DEF Recorded
    <3> QED BY <1>1, <3>1, <3>2
  <2> QED BY <1>6, <2>1, <2>2, <2>3, <2>4, <2>5, <2>6, <2>7, <2>8, <2>9, <2>10, <2>11 DEF AtCall
<1>7. CASE Resume
  <2>1. /\ UNCHANGED receipts /\ engine' = "start"
        /\ steps'[d] = IF d \in Answered THEN Confirmed(d) ELSE steps[d]
    BY <1>7 DEF Resume
  <2> QED BY <1>1, <2>1 DEF Confirmed, Recorded
<1> QED BY <1>5, <1>6, <1>7, Moves

(* Every step keeps the answers in agreement with the records.              *)
LEMMA OutcomeAnsweredStep ==
  ASSUME CheckpointInv, AnswersFollow, OneOutcome, [Next]_vars, NEW d \in Calls, Kind[d] # "combat"
  PROVE  OutcomeAnswered(d)'
<1> USE DEF CheckpointInv
<1>0. answers \in Seq([call : Calls, res : Results])
  BY DEF RecordsTyped
<1>1. OutcomeAnswered(d) /\ OutcomeHeld(d)
  BY DEF OneOutcome
<1>2. ASSUME NEW i \in DOMAIN answers, answers[i].call = d, Recorded(d)' # "none"
      PROVE  answers[i].res = Recorded(d)'
  <2>1. AnswerOf(d) = answers[i].res /\ d \in Answered
    BY <1>2, AnswerOfIs
  <2>2. Recorded(d)' = Recorded(d) \/ (Recorded(d) = "none" /\ Recorded(d)' = AnswerOf(d))
    BY <2>1, AnsweredRecords
  <2> QED BY <1>1, <1>2, <2>1, <2>2 DEF OutcomeAnswered
<1>3. CASE answers' = answers
  BY <1>2, <1>3 DEF OutcomeAnswered
<1>4. ASSUME NEW c \in Calls, AtHand(c, {"tell"}), UNCHANGED <<ledger, applied>>,
             answers' = Append(answers, [call |-> c, res |-> held])
      PROVE  OutcomeAnswered(d)'
  <2>1. held \in Results /\ Recorded(d)' = Recorded(d)
    BY <1>4 DEF HeldBacked, AtHand, ledger, Recorded
  <2>2. PICK a \in [call : Calls, res : Results] : a = [call |-> c, res |-> held]
    BY <2>1
  <2>3. ASSUME NEW i \in DOMAIN answers', answers'[i].call = d, Recorded(d)' # "none"
        PROVE  answers'[i].res = Recorded(d)'
    <3>1. (i \in DOMAIN answers /\ answers'[i] = answers[i]) \/ answers'[i] = a
      BY <1>0, <1>4, <2>2, <2>3, Appended
    <3>2. a.call = d => a.res = Recorded(d)'
      <4>1. a.call = c /\ a.res = held
        BY <2>2
      <4> QED BY <1>1, <1>4, <2>1, <2>3, <4>1 DEF OutcomeHeld, AtHand
    <3> QED BY <1>2, <2>3, <3>1, <3>2
  <2> QED BY <2>3 DEF OutcomeAnswered
<1> QED BY <1>3, <1>4, AnswersGrow

(* Every step keeps to one outcome of each call.                            *)
LEMMA OneOutcomeStep ==
  ASSUME CheckpointInv, AnswersFollow, OneOutcome, [Next]_vars
  PROVE  OneOutcome'
<1>1. ASSUME NEW d \in Calls, Kind[d] # "combat" PROVE OutcomeHeld(d)' /\ OutcomeAnswered(d)'
  BY <1>1, OutcomeHeldStep, OutcomeAnsweredStep
<1> QED BY <1>1 DEF OneOutcome

-----------------------------------------------------------------------------
(* What the client was told follows the answers: the same calls in the same *)
(* order, the same outcomes, no success without its effect.                 *)
Matches(t) ==
  /\ Len(t) <= Len(answers)
  /\ \A i \in DOMAIN t :
       /\ t[i].call = answers[i].call
       /\ Kind[t[i].call] # "combat" => t[i].res = answers[i].res
       /\ Effectful(t[i].call) /\ t[i].res = "performed" => applied[t[i].call] # 0

Sent == log \o chan
Narrated(s) == \E t \in Seq(Event) : s = Append(t, Text)
Concluded(s) == \E t \in Seq(Event) : s = Append(Append(t, Text), Done)

(* So does what is on its way to the log; while it is recorded nothing is   *)
(* missing but the answer being published.                                  *)
StreamFollows ==
  /\ log \in Seq(Event) /\ chan \in Seq(Event) /\ round \in Nat /\ recording \in BOOLEAN
  /\ Matches(ToldInLog(Sent))
  /\ status = "running" <=> engine # "off"
  /\ engine = "off" \/ ~recording => chan = <<>>
  /\ recording /\ engine \notin {"failed", "off", "publish"} => Len(ToldInLog(Sent)) = Len(answers)
  /\ recording /\ engine = "publish" => Len(ToldInLog(Sent)) + 1 = Len(answers)
  /\ recording /\ engine = "done" => Narrated(Sent)
  /\ recording /\ engine = "ended" => Concluded(Sent)
  /\ status = "complete" => Concluded(log) /\ Len(ToldInLog(log)) = Len(answers)

-----------------------------------------------------------------------------
(* Events and results.                                                      *)
LEMMA EventWords ==
  /\ Verdicts \subseteq Event /\ OfTools \subseteq Event /\ Verdicts \subseteq OfTools
  /\ Text \in Event \ Verdicts /\ Done \in Event \ Verdicts
  /\ \A c \in Calls : Start(c) \in Event \ Verdicts
  /\ \A c \in Calls, n \in Nat : Media(c, n) \in Event \ Verdicts
  /\ \A c \in Calls, r \in Results : Result(c, r) \in Verdicts
<1>1. /\ \A c \in Calls : Start(c) \in [kind : {"start"}, call : Calls] /\ Start(c).kind = "start"
      /\ \A c \in Calls, n \in Nat : /\ Media(c, n) \in [kind : {"media"}, call : Calls, round : Nat]
                                     /\ Media(c, n).kind = "media"
      /\ \A c \in Calls, r \in Results : Result(c, r) \in Verdicts
      /\ Text \in [kind : {"text", "done"}] /\ Done \in [kind : {"text", "done"}]
      /\ Text.kind = "text" /\ Done.kind = "done"
  BY DEF Start, Media, Result, Text, Done, Verdicts
<1>2. \A v \in Verdicts : v.kind = "result"
  BY DEF Verdicts
<1> QED BY <1>1, <1>2 DEF Event, OfTools

(* An event that tells a result is a verdict.                               *)
LEMMA EventResult ==
  ASSUME NEW e \in Event, e.kind = "result"
  PROVE  e \in Verdicts
BY DEF Event, OfTools, Verdicts

(* What a verdict says.                                                     *)
LEMMA VerdictParts ==
  ASSUME NEW v \in Verdicts
  PROVE  v.kind = "result" /\ v.call \in Calls /\ v.res \in Results /\ v = Result(v.call, v.res)
BY DEF Verdicts, Result

(* What the result of a call says.                                          *)
LEMMA ResultParts ==
  ASSUME NEW c, NEW r
  PROVE  Result(c, r).kind = "result" /\ Result(c, r).call = c /\ Result(c, r).res = r
BY DEF Result

(* The results of a log are its verdicts.                                   *)
LEMMA ToldInLogIs ==
  ASSUME NEW l \in Seq(Event)
  PROVE  /\ ToldInLog(l) \in Seq(Verdicts)
         /\ \A v \in Verdicts : v \in ToSet(l) <=> \E i \in DOMAIN ToldInLog(l) : ToldInLog(l)[i] = v
         /\ \A i \in DOMAIN ToldInLog(l) : ToldInLog(l)[i] \in Verdicts /\ ToldInLog(l)[i] \in ToSet(l)
<1>1. ToldInLog(l) \in Seq(Event) /\ ToSet(ToldInLog(l)) = ToSet(l) \cap Verdicts
  BY ThoseElements DEF ToldInLog
<1>2. PICK t \in Seq(Event) : t = ToldInLog(l)
  BY <1>1
<1>3. \A i \in DOMAIN t : t[i] \in Verdicts /\ t[i] \in ToSet(l)
  BY <1>1, <1>2 DEF ToSet
<1>4. t \in Seq(Verdicts)
  <2>1. Len(t) \in Nat /\ DOMAIN t = 1..Len(t) /\ t = [i \in 1..Len(t) |-> t[i]]
    OBVIOUS
  <2>2. \A i \in 1..Len(t) : t[i] \in Verdicts
    BY <1>3, <2>1
  <2> QED BY <2>1, <2>2, IsASeq
<1>5. \A v \in Verdicts : v \in ToSet(l) <=> \E i \in DOMAIN t : t[i] = v
  BY <1>1, <1>2 DEF ToSet
<1> QED BY <1>2, <1>3, <1>4, <1>5

(* An event more is a result more if it tells one.                          *)
LEMMA ToldInLogGrows ==
  ASSUME NEW l \in Seq(Event), NEW e \in Event
  PROVE  /\ e \notin Verdicts => ToldInLog(Append(l, e)) = ToldInLog(l)
         /\ e \in Verdicts => ToldInLog(Append(l, e)) = Append(ToldInLog(l), e)
BY ThoseStep, SMTT(60) DEF ToldInLog

(* What was told stays true to the answers, which only grow.                *)
LEMMA MatchesKept ==
  ASSUME CheckpointInv, [Next]_vars, NEW t \in Seq(Verdicts), Matches(t)
  PROVE  Matches(t)'
<1>1. answers \in Seq([call : Calls, res : Results])
  BY DEF CheckpointInv, RecordsTyped
<1>2. /\ Len(answers) <= Len(answers') /\ Len(answers) \in Nat /\ Len(answers') \in Nat
      /\ DOMAIN answers = 1..Len(answers)
      /\ \A i \in DOMAIN answers : answers'[i] = answers[i]
  <2>1. ASSUME answers' = answers
        PROVE  /\ Len(answers) <= Len(answers') /\ Len(answers') \in Nat
               /\ \A i \in DOMAIN answers : answers'[i] = answers[i]
    BY <1>1, <2>1
  <2>2. ASSUME NEW c \in Calls, AtHand(c, {"tell"}), answers' = Append(answers, [call |-> c, res |-> held])
        PROVE  /\ Len(answers) <= Len(answers') /\ Len(answers') \in Nat
               /\ \A i \in DOMAIN answers : answers'[i] = answers[i]
    <3>1. held \in Results
      BY <2>2 DEF CheckpointInv, HeldBacked, AtHand
    <3>2. PICK a \in [call : Calls, res : Results] : a = [call |-> c, res |-> held]
      BY <3>1
    <3> QED BY <1>1, <2>2, <3>2
  <2>3. \/ answers' = answers
        \/ \E c \in Calls : AtHand(c, {"tell"}) /\ answers' = Append(answers, [call |-> c, res |-> held])
    BY AnswersGrow
  <2>4. /\ Len(answers) <= Len(answers') /\ Len(answers') \in Nat
        /\ \A i \in DOMAIN answers : answers'[i] = answers[i]
    BY <1>1, <2>1, <2>2, <2>3
  <2>5. Len(answers) \in Nat /\ DOMAIN answers = 1..Len(answers)
    BY <1>1
  <2> QED BY <2>4, <2>5
<1>3. ASSUME NEW i \in DOMAIN t
      PROVE  t[i].call \in Calls /\ i \in DOMAIN answers
  <2>1. t[i] \in Verdicts
    BY SeqElement
  <2>2. i \in 1..Len(t) /\ Len(t) \in Nat
    OBVIOUS
  <2> QED BY <1>2, <2>1, <2>2, VerdictParts DEF Matches
<1>4. \A c \in Calls : applied[c] # 0 => applied'[c] # 0
  BY AppliedKept
<1>5. Len(t) <= Len(answers')
  <2>1. Len(t) \in Nat
    OBVIOUS
  <2> QED BY <1>2, <2>1 DEF Matches
<1> QED BY <1>2, <1>3, <1>4, <1>5 DEF Matches, Effectful

(* One more event.                                                          *)
LEMMA Emitted ==
  ASSUME log \in Seq(Event), chan \in Seq(Event), NEW e \in Event, log' = log, chan' = Append(chan, e)
  PROVE  /\ chan' \in Seq(Event) /\ Sent \in Seq(Event) /\ Sent' = Append(Sent, e)
         /\ ToldInLog(Sent) \in Seq(Verdicts)
         /\ e \notin Verdicts => ToldInLog(Sent') = ToldInLog(Sent)
         /\ e \in Verdicts => ToldInLog(Sent') = Append(ToldInLog(Sent), e)
<1>1. PICK l \in Seq(Event) : l = log
  OBVIOUS
<1>2. PICK k \in Seq(Event) : k = chan
  OBVIOUS
<1>3. l \o Append(k, e) = Append(l \o k, e) /\ Append(k, e) \in Seq(Event) /\ l \o k \in Seq(Event)
  OBVIOUS
<1>4. Sent = l \o k /\ Sent' = l \o Append(k, e)
  BY <1>1, <1>2 DEF Sent
<1>5. PICK s \in Seq(Event) : s = Sent
  BY <1>3, <1>4
<1>6. /\ e \notin Verdicts => ToldInLog(Append(s, e)) = ToldInLog(s)
      /\ e \in Verdicts => ToldInLog(Append(s, e)) = Append(ToldInLog(s), e)
      /\ ToldInLog(s) \in Seq(Verdicts)
  BY ToldInLogGrows, ToldInLogIs
<1>7. Sent' = Append(s, e) /\ chan' \in Seq(Event)
  BY <1>2, <1>3, <1>4, <1>5
<1>8. ToldInLog(Sent') = ToldInLog(Append(s, e)) /\ ToldInLog(Sent) = ToldInLog(s)
  BY <1>5, <1>7
<1> QED BY <1>5, <1>6, <1>7, <1>8

(* What the log was told is a beginning of what was sent.                   *)
LEMMA LogTold ==
  ASSUME log \in Seq(Event), chan \in Seq(Event)
  PROVE  /\ ToldInLog(log) \in Seq(Verdicts) /\ ToldInLog(Sent) \in Seq(Verdicts)
         /\ Len(ToldInLog(log)) <= Len(ToldInLog(Sent))
         /\ \A i \in DOMAIN ToldInLog(log) : /\ i \in DOMAIN ToldInLog(Sent)
                                             /\ ToldInLog(Sent)[i] = ToldInLog(log)[i]
         /\ chan = <<>> => Sent = log
<1>1. PICK l \in Seq(Event) : l = log
  OBVIOUS
<1>2. PICK k \in Seq(Event) : k = chan
  OBVIOUS
<1>3. Those(l \o k, Verdicts) = Those(l, Verdicts) \o Those(k, Verdicts)
  BY ThoseSplit
<1>4. PICK a \in Seq(Verdicts) : a = ToldInLog(l)
  BY ToldInLogIs
<1>5. PICK b \in Seq(Verdicts) : b = ToldInLog(k)
  BY ToldInLogIs
<1>6. ToldInLog(Sent) = a \o b /\ ToldInLog(log) = a
  BY <1>1, <1>2, <1>3, <1>4, <1>5 DEF ToldInLog, Sent
<1>7. /\ a \o b \in Seq(Verdicts) /\ Len(a) <= Len(a \o b)
      /\ \A i \in DOMAIN a : i \in DOMAIN (a \o b) /\ (a \o b)[i] = a[i]
  OBVIOUS
<1>8. l \o <<>> = l
  OBVIOUS
<1> QED BY <1>1, <1>2, <1>6, <1>7, <1>8 DEF Sent

(* So what the log was told follows the answers too.                        *)
LEMMA LogMatches ==
  ASSUME RecordsTyped, StreamFollows
  PROVE  Matches(ToldInLog(log))
<1>1. PICK a \in Seq(Verdicts) : a = ToldInLog(log)
  BY LogTold DEF StreamFollows
<1>2. PICK b \in Seq(Verdicts) : b = ToldInLog(Sent)
  BY LogTold DEF StreamFollows
<1>3. Len(a) <= Len(b) /\ \A i \in DOMAIN a : i \in DOMAIN b /\ b[i] = a[i]
  BY <1>1, <1>2, LogTold DEF StreamFollows
<1>4. Len(a) \in Nat /\ Len(b) \in Nat /\ Len(answers) \in Nat
  BY DEF RecordsTyped
<1>5. Matches(b)
  BY <1>2 DEF StreamFollows
<1>6. Matches(a)
  BY <1>3, <1>4, <1>5 DEF Matches
<1> QED BY <1>1, <1>6

-----------------------------------------------------------------------------
(* A repair of the log tells the result of a call that it did not tell yet, *)
(* and changes nothing else about what is told.                             *)
LEMMA ConfirmedIs ==
  ASSUME CheckpointInv, NEW c \in Answered
  PROVE  /\ Confirmed(c) \in Results
         /\ Effectful(c) /\ Confirmed(c) = "performed" => applied[c] # 0
<1> USE Words DEF CheckpointInv
<1>0. c \in Calls
  BY ToldTyped
<1>1. PICK i \in DOMAIN answers : answers[i].call = c /\ AnswerOf(c) = answers[i].res
  BY AnswerOfAnswered
<1>2. AnswerOf(c) \in Results
  <2>1. answers[i] \in [call : Calls, res : Results]
    BY <1>1, SeqElement DEF RecordsTyped
  <2> QED BY <1>1, <2>1
<1>3. Effectful(c) /\ AnswerOf(c) = "performed" => applied[c] # 0
  BY <1>1 DEF AnswersApplied
<1>4. /\ Effectful(c) /\ c \in receipts => applied[c] # 0
      /\ Effectful(c) /\ steps[c] = "performed" => applied[c] # 0
  <2>1. EffectsCounted
    OBVIOUS
  <2>2. /\ Kind[c] \in {"combat", "story"} => applied[c] = IF c \in receipts THEN 1 ELSE 0
        /\ Kind[c] \in {"dice", "media"} => c \notin receipts
        /\ Effectful(c) /\ steps[c] = "performed" => applied[c] # 0
    BY <1>0, <2>1 DEF EffectsCounted
  <2> QED BY <2>2 DEF Effectful
<1> QED BY <1>2, <1>3, <1>4 DEF Confirmed, Recorded

(* A saved call was saved in some round.                                    *)
LEMMA SavedRound ==
  ASSUME RecordsTyped, NEW c \in ToSet(AskedCalls)
  PROVE  Media(c, CHOOSE n \in DOMAIN asked : c \in ToSet(asked[n])) \in Event \ Verdicts /\ c \in Calls
<1>1. asked \in Seq(Seq(Calls))
  BY DEF RecordsTyped
<1>2. PICK n \in DOMAIN asked : c \in ToSet(asked[n])
  BY <1>1, FlattenElement DEF AskedCalls
<1>3. c \in Calls
  BY ToldTyped DEF ToSet
<1>4. (CHOOSE m \in DOMAIN asked : c \in ToSet(asked[m])) \in DOMAIN asked
  BY <1>2
<1>5. DOMAIN asked \subseteq Nat
  BY <1>1
<1> QED BY <1>3, <1>4, <1>5, EventWords

(* A repair tells the result of its call if the log did not.                *)
LEMMA RepairTells ==
  ASSUME CheckpointInv, AnswersFollow, NEW c \in Answered, NEW l \in Seq(Event)
  PROVE  /\ RepairDelivery(l, c) \in Seq(Event)
         /\ ToldInLog(RepairDelivery(l, c)) =
              IF \E e \in ToSet(l) : e.kind = "result" /\ e.call = c THEN ToldInLog(l)
              ELSE Append(ToldInLog(l), Result(c, Confirmed(c)))
<1> DEFINE I == {i \in 1..Len(l) : Delivers(l[i], c)}
           first == SelectInSubSeq(l, 1, Len(l), LAMBDA e : Delivers(e, c))
           at == IF first = 0 THEN Len(l) + 1 ELSE first
           media == Media(c, CHOOSE n \in DOMAIN asked : c \in ToSet(asked[n]))
           started == IF Start(c) \in ToSet(l) THEN l ELSE InsertAt(l, at, Start(c))
           shown == IF Fragile(c) /\ Confirmed(c) = "performed" /\ media \notin ToSet(started)
                    THEN Append(started, media) ELSE started
           told == \E e \in ToSet(l) : e.kind = "result" /\ e.call = c
<1>1. c \in Calls /\ c \in ToSet(AskedCalls)
  <2>1. PICK rest \in Seq(Calls) : AskedCalls = Told \o rest
    BY DEF AnswersFollow
  <2>2. Told \in Seq(Calls) /\ Answered = ToSet(Told) /\ Answered \subseteq Calls
    BY ToldTyped DEF CheckpointInv
  <2>3. PICK i \in DOMAIN Told : c = Told[i]
    BY <2>2 DEF ToSet
  <2>4. i \in DOMAIN (Told \o rest) /\ (Told \o rest)[i] = Told[i]
    BY <2>2, <2>3
  <2> QED BY <2>1, <2>2, <2>3, <2>4 DEF ToSet
<1>2. at \in 1..(Len(l) + 1)
  <2>1. Len(l) \in Nat /\ I \in SUBSET Nat
    OBVIOUS
  <2>2. first = IF I # {} THEN Min(I) ELSE 0
    BY DEF SelectInSubSeq
  <2>3. I # {} => Min(I) \in I
    <3> HIDE DEF I
    <3> QED BY <2>1, Smallest DEF Min
  <2>4. first = 0 \/ first \in I
    BY <2>2, <2>3
  <2> HIDE DEF first
  <2> QED BY <2>1, <2>4
<1>3. /\ Start(c) \in Event \ Verdicts /\ media \in Event \ Verdicts
      /\ Result(c, Confirmed(c)) \in Verdicts /\ Verdicts \subseteq Event
  BY <1>1, EventWords, SavedRound, ConfirmedIs DEF CheckpointInv
<1>4. RepairDelivery(l, c) = IF told THEN shown ELSE Append(shown, Result(c, Confirmed(c)))
  BY DEF RepairDelivery
<1> HIDE DEF at, media, told
<1>5. started \in Seq(Event) /\ ToldInLog(started) = ToldInLog(l)
  <2>1. InsertAt(l, at, Start(c)) \in Seq(Event) /\ Those(InsertAt(l, at, Start(c)), Verdicts) = Those(l, Verdicts)
    BY <1>2, <1>3, ThoseInsert
  <2> QED BY <2>1 DEF ToldInLog
<1> HIDE DEF started
<1>6. shown \in Seq(Event) /\ ToldInLog(shown) = ToldInLog(l)
  <2>1. PICK s \in Seq(Event) : s = started
    BY <1>5
  <2>2. Append(s, media) \in Seq(Event) /\ ToldInLog(Append(s, media)) = ToldInLog(s)
    BY <1>3, ToldInLogGrows
  <2> QED BY <1>5, <2>1, <2>2
<1> HIDE DEF shown
<1>7. PICK s \in Seq(Event) : s = shown
  BY <1>6
<1>8. PICK e \in Event : e = Result(c, Confirmed(c)) /\ e \in Verdicts
  BY <1>3
<1>9. Append(s, e) \in Seq(Event) /\ ToldInLog(Append(s, e)) = Append(ToldInLog(s), e)
  BY <1>8, ToldInLogGrows
<1> QED BY <1>4, <1>6, <1>7, <1>8, <1>9 DEF told

(* The log tells at least the first k answers, and all of it as answered.   *)
TellsTo(l, k) == l \in Seq(Event) /\ Matches(ToldInLog(l)) /\ k <= Len(ToldInLog(l))

(* Repairing call by call, in the order of the answers, goes on telling     *)
(* them.                                                                    *)
LEMMA RepairGoesOn ==
  ASSUME CheckpointInv, AnswersFollow, OneOutcome, NEW l, NEW k \in 1..Len(answers),
         TellsTo(l, k - 1)
  PROVE  TellsTo(RepairDelivery(l, Told[k]), k)
<1> DEFINE c == Told[k]
<1>0. /\ Told \in Seq(Calls) /\ DOMAIN Told = DOMAIN answers /\ DOMAIN answers = 1..Len(answers)
      /\ Len(answers) \in Nat /\ IsInjective(Told) /\ c \in Answered /\ c \in Calls
      /\ \A i \in DOMAIN answers : Told[i] = answers[i].call
  <2>1. /\ Told \in Seq(Calls) /\ DOMAIN Told = DOMAIN answers /\ Answered = ToSet(Told)
        /\ Answered \subseteq Calls /\ \A i \in DOMAIN answers : Told[i] = answers[i].call
    BY ToldTyped DEF CheckpointInv
  <2>2. DOMAIN answers = 1..Len(answers) /\ Len(answers) \in Nat
    BY DEF CheckpointInv, RecordsTyped
  <2>3. IsInjective(Told)
    BY PartsOf DEF CheckpointInv
  <2> QED BY <2>1, <2>2, <2>3 DEF ToSet
<1>1. PICK t \in Seq(Verdicts) : t = ToldInLog(l)
  BY ToldInLogIs DEF TellsTo
<1>2. /\ \A v \in Verdicts : v \in ToSet(l) <=> \E i \in DOMAIN t : t[i] = v
      /\ \A i \in DOMAIN t : t[i] \in Verdicts /\ t[i] \in ToSet(l)
  BY <1>1, ToldInLogIs DEF TellsTo
<1>3. Matches(t) /\ k - 1 <= Len(t) /\ Len(t) \in Nat /\ DOMAIN t = 1..Len(t) /\ l \in Seq(Event)
  BY <1>1 DEF TellsTo
<1>4. Len(t) <= Len(answers) /\ \A i \in DOMAIN t : i \in DOMAIN answers /\ t[i].call = Told[i]
  BY <1>0, <1>3 DEF Matches
<1> DEFINE told == \E e \in ToSet(l) : e.kind = "result" /\ e.call = c
<1>5. told <=> k <= Len(t)
  <2>1. ASSUME k <= Len(t) PROVE told
    <3>1. k \in DOMAIN t
      BY <1>3, <2>1
    <3>2. t[k].kind = "result" /\ t[k].call = c /\ t[k] \in ToSet(l)
      BY <1>2, <1>4, <3>1, VerdictParts
    <3> QED BY <3>2
  <2>2. ASSUME NEW e \in ToSet(l), e.kind = "result", e.call = c PROVE k <= Len(t)
    <3>1. e \in Verdicts
      <4>1. e \in Event
        BY <1>3 DEF ToSet
      <4> QED BY <2>2, <4>1, EventResult
    <3>2. PICK i \in DOMAIN t : t[i] = e
      BY <1>2, <3>1
    <3>3. Told[i] = Told[k] /\ i \in DOMAIN Told /\ k \in DOMAIN Told
      BY <1>0, <1>4, <2>2, <3>2
    <3>4. i = k
      BY <1>0, <3>3 DEF IsInjective
    <3> QED BY <1>3, <3>2, <3>4
  <2> QED BY <2>1, <2>2
<1>6. /\ RepairDelivery(l, c) \in Seq(Event)
      /\ ToldInLog(RepairDelivery(l, c)) = IF told THEN t ELSE Append(t, Result(c, Confirmed(c)))
  BY <1>0, <1>1, <1>3, RepairTells
<1> HIDE DEF told
<1>7. CASE k <= Len(t)
  BY <1>3, <1>5, <1>6, <1>7 DEF TellsTo
<1>8. CASE ~(k <= Len(t))
  <2>1. Len(t) + 1 = k
    BY <1>3, <1>8
  <2>2. PICK e \in Verdicts : e = Result(c, Confirmed(c))
    BY <1>0, ConfirmedIs, EventWords
  <2>3. e.call = c /\ e.res = Confirmed(c)
    BY <2>2, ResultParts
  <2>4. answers[k].call = c /\ k \in DOMAIN answers
    BY <1>0
  <2>5. Kind[c] # "combat" => Confirmed(c) = answers[k].res
    <3> SUFFICES ASSUME Kind[c] # "combat" PROVE Confirmed(c) = answers[k].res
      OBVIOUS
    <3>1. AnswerOf(c) = answers[k].res
      BY <2>4, AnswerOfIs DEF CheckpointInv
    <3>2. Recorded(c) # "none" => answers[k].res = Recorded(c)
      BY <1>0, <2>4 DEF OneOutcome, OutcomeAnswered
    <3>3. c \in receipts /\ steps[c] \in Results => steps[c] = "performed"
      BY <1>0 DEF OneOutcome, OutcomeHeld
    <3> QED BY <3>1, <3>2, <3>3, Words DEF Confirmed, Recorded
  <2>6. Effectful(c) /\ Confirmed(c) = "performed" => applied[c] # 0
    BY <1>0, ConfirmedIs
  <2>7. PICK u \in Seq(Verdicts) : u = Append(t, e)
    BY AppendProperties
  <2>8. Len(u) = k /\ u[k] = e /\ \A i \in DOMAIN u : i = k \/ (i \in DOMAIN t /\ u[i] = t[i])
    BY <2>1, <2>7
  <2>9. Matches(u)
    BY <1>0, <1>3, <2>3, <2>4, <2>5, <2>6, <2>8 DEF Matches
  <2>10. ToldInLog(RepairDelivery(l, c)) = u
    BY <1>5, <1>6, <1>8, <2>2, <2>7
  <2>11. k <= Len(u)
    BY <1>0, <2>8
  <2>12. RepairDelivery(l, Told[k]) \in Seq(Event)
    BY <1>6
  <2> QED BY <2>9, <2>10, <2>11, <2>12 DEF TellsTo
<1> QED BY <1>7, <1>8

(* Repaired call by call, the log tells every answer.                       *)
LEMMA RepairedTells ==
  ASSUME CheckpointInv, AnswersFollow, OneOutcome, log \in Seq(Event), Matches(ToldInLog(log))
  PROVE  TellsTo(RepairedLog(Told), Len(answers))
<1> DEFINE n == Len(Told)
           Def(f) == f = [i \in 0..n |-> IF i = 0 THEN Those(log, OfTools)
                                         ELSE RepairDelivery(f[i - 1], Told[i])]
           Fits(f, k) == /\ f[0] = Those(log, OfTools)
                         /\ \A i \in 1..k : f[i] = RepairDelivery(f[i - 1], Told[i])
           Good == {k \in 0..n : \E f \in [0..k -> Seq(Event)] : Fits(f, k) /\ \A i \in 0..k : TellsTo(f[i], i)}
<1>0. n = Len(answers) /\ n \in Nat
  BY ToldTyped DEF CheckpointInv, RecordsTyped
<1> HIDE DEF n
<1>1. TellsTo(Those(log, OfTools), 0)
  <2>1. Those(log, OfTools) \in Seq(Event)
    BY ThoseTyped
  <2>2. Those(Those(log, OfTools), Verdicts) = Those(log, Verdicts)
    <3>1. Verdicts \subseteq OfTools
      BY EventWords
    <3> QED BY <3>1, ThoseOfThose
  <2>3. ToldInLog(Those(log, OfTools)) = ToldInLog(log) /\ ToldInLog(log) \in Seq(Verdicts)
    BY <2>2, ToldInLogIs DEF ToldInLog
  <2>4. 0 <= Len(ToldInLog(log))
    BY <2>3
  <2> QED BY <2>1, <2>3, <2>4 DEF TellsTo
<1>2. ASSUME NEW l, NEW k \in 1..n, TellsTo(l, k - 1)
      PROVE  TellsTo(RepairDelivery(l, Told[k]), k)
  BY <1>0, <1>2, RepairGoesOn
<1>3. 0 \in Good
  <2> DEFINE f == [i \in 0..0 |-> Those(log, OfTools)]
  <2>1. Fits(f, 0) /\ 0 \in 0..n /\ f[0] = Those(log, OfTools)
    BY <1>0
  <2>2. f \in [0..0 -> Seq(Event)]
    BY <1>1 DEF TellsTo
  <2>3. \A i \in 0..0 : TellsTo(f[i], i)
    BY <1>1, <2>1
  <2> HIDE DEF f, Fits
  <2> QED BY <2>1, <2>2, <2>3
<1>4. ASSUME NEW k \in 1..n, k - 1 \in Good PROVE k \in Good
  <2>1. PICK f \in [0..(k - 1) -> Seq(Event)] : Fits(f, k - 1) /\ \A i \in 0..(k - 1) : TellsTo(f[i], i)
    <3> HIDE DEF Fits
    <3> QED BY <1>4
  <2>2. PICK v \in Seq(Event) : v = RepairDelivery(f[k - 1], Told[k]) /\ TellsTo(v, k)
    <3>1. k - 1 \in 0..(k - 1)
      BY <1>0
    <3>2. TellsTo(RepairDelivery(f[k - 1], Told[k]), k)
      BY <1>2, <2>1, <3>1
    <3> QED BY <3>2 DEF TellsTo
  <2> DEFINE g == [i \in 0..k |-> IF i = k THEN v ELSE f[i]]
  <2>3. g \in [0..k -> Seq(Event)]
    <3>1. \A i \in 0..k : i # k => i \in 0..(k - 1)
      BY <1>0
    <3> QED BY <2>1, <2>2, <3>1
  <2>4. g[0] = f[0] /\ g[k] = RepairDelivery(g[k - 1], Told[k]) /\ g[k] = v
    <3>1. 0 \in 0..k /\ k \in 0..k /\ k - 1 \in 0..k /\ 0 # k /\ k - 1 # k
      BY <1>0
    <3>2. g[0] = f[0] /\ g[k - 1] = f[k - 1] /\ g[k] = v
      BY <3>1
    <3> QED BY <2>2, <3>2
  <2>5. /\ \A i \in 1..k : i # k => g[i] = f[i] /\ g[i - 1] = f[i - 1] /\ i \in 1..(k - 1)
        /\ \A i \in 0..k : i # k => g[i] = f[i] /\ i \in 0..(k - 1)
    BY <1>0
  <2> HIDE DEF g
  <2>6. Fits(g, k)
    BY <2>1, <2>4, <2>5
  <2>7. \A i \in 0..k : TellsTo(g[i], i)
    BY <2>1, <2>2, <2>4, <2>5
  <2>8. k \in 0..n
    BY <1>0
  <2> HIDE DEF Fits
  <2> QED BY <2>3, <2>6, <2>7, <2>8
<1>5. n \in Good
  <2> HIDE DEF Good
  <2>1. \A k \in 1..n : k - 1 \in Good => k \in Good
    BY <1>4
  <2>2. \A k \in 0..n : k \in Good
    BY <1>0, <1>3, <2>1, UpTo
  <2> QED BY <1>0, <2>2
<1>6. PICK g \in [0..n -> Seq(Event)] : Fits(g, n) /\ \A i \in 0..n : TellsTo(g[i], i)
  <2> HIDE DEF Fits
  <2> QED BY <1>5
<1>7. Def(g)
  <2>1. g = [i \in 0..n |-> g[i]]
    BY <1>6
  <2>2. \A i \in 0..n : i = 0 \/ i \in 1..n
    BY <1>0
  <2> QED BY <1>6, <2>1, <2>2
<1>8. PICK f : f = CHOOSE h : Def(h)
  OBVIOUS
<1>9. Def(f)
  <2> HIDE DEF Def
  <2> QED BY <1>7, <1>8
<1>10. Fits(f, n)
  <2>1. 0 \in 0..n /\ \A i \in 1..n : i \in 0..n /\ i # 0
    BY <1>0
  <2> QED BY <1>9, <2>1
<1>11. \A i \in 0..n : f[i] = g[i]
  <2> DEFINE P == {i \in 0..n : f[i] = g[i]}
  <2>1. 0 \in P
    BY <1>0, <1>6, <1>10
  <2>2. \A i \in 1..n : i - 1 \in P => i \in P
    BY <1>0, <1>6, <1>10
  <2>3. \A i \in 0..n : i \in P
    <3> HIDE DEF P
    <3> QED BY <1>0, <2>1, <2>2, UpTo
  <2> QED BY <2>3
<1>12. RepairedLog(Told) = f[n]
  BY <1>8 DEF RepairedLog, n
<1>13. n \in 0..n
  BY <1>0
<1> QED BY <1>0, <1>6, <1>11, <1>12, <1>13

(* The stages in which no event waits to be sent, and the last ones.        *)
Busy == {"start", "round", "streaming", "calls", "claim", "effect", "finish", "media", "tell", "final"}

(* Working at a call, the engine sends nothing but pictures.                *)
LEMMA AtCallSilent ==
  ASSUME NEW c \in Calls, AtCall(c), ~EmitMedia(c)
  PROVE  engine \in Busy /\ engine' \in Busy /\ UNCHANGED <<log, chan, recording, status, round, answers>>
BY DEF AtCall, Busy, Replay, Deny, Withhold, Admit, Prepare, ClaimStep, Perform, Refuse, Roll,
   Generate, FinishStep, transcript, local, delivery

(* Every step lets the stream and the log follow the answers.               *)
LEMMA StreamFollowsStep ==
  ASSUME CheckpointInv, AnswersFollow, OneOutcome, StreamFollows, [Next]_vars
  PROVE  StreamFollows'
<1>0. /\ log \in Seq(Event) /\ chan \in Seq(Event) /\ round \in Nat /\ recording \in BOOLEAN
      /\ status = "running" <=> engine # "off"
      /\ answers \in Seq([call : Calls, res : Results]) /\ Len(answers) \in Nat
  BY DEF StreamFollows, CheckpointInv, RecordsTyped
<1>1. PICK t \in Seq(Verdicts) : t = ToldInLog(Sent) /\ Len(t) \in Nat
  BY <1>0, LogTold
<1>2. Matches(t) /\ Matches(t)'
  BY <1>1, MatchesKept DEF StreamFollows
<1>3. UNCHANGED <<log, chan>> => Sent' = Sent
  BY DEF Sent
<1>4. ASSUME UNCHANGED <<log, chan, recording, status, answers>>, round' \in Nat,
             \/ engine \in Busy /\ engine' \in Busy
             \/ engine # "off" /\ engine' = "failed"
             \/ engine' = engine
      PROVE  StreamFollows'
  <2>1. Sent' = Sent /\ ToldInLog(Sent') = t /\ ToldInLog(log') = ToldInLog(log)
    BY <1>1, <1>3, <1>4
  <2> QED BY <1>1, <1>2, <1>4, <2>1 DEF StreamFollows, Busy
<1>5. ASSUME NEW e \in Event \ Verdicts, recording, log' = log, chan' = Append(chan, e),
             UNCHANGED <<recording, status, round, answers>>,
             engine \notin {"off", "failed", "publish"},
             \/ engine' \in Busy
             \/ engine' = "done" /\ e = Text
             \/ engine = "done" /\ engine' = "ended" /\ e = Done
      PROVE  StreamFollows'
  <2>1. /\ chan' \in Seq(Event) /\ Sent \in Seq(Event) /\ Sent' = Append(Sent, e)
        /\ ToldInLog(Sent') = t
    BY <1>0, <1>1, <1>5, Emitted
  <2>2. engine' = "done" => Narrated(Sent')
    BY <1>5, <2>1 DEF Narrated, Busy
  <2>3. engine' = "ended" => Concluded(Sent')
    <3>1. engine' = "ended" => e = Done /\ Narrated(Sent)
      BY <1>5 DEF StreamFollows, Busy
    <3> QED BY <2>1, <3>1 DEF Narrated, Concluded
  <2>4. Len(t) = Len(answers)
    BY <1>1, <1>5 DEF StreamFollows
  <2>5. engine' # "off" /\ engine' # "publish" /\ engine # "off"
    BY <1>5 DEF Busy
  <2>6. status' = "running"
    BY <1>0, <1>5, <2>5
  <2> QED BY <1>0, <1>1, <1>2, <1>5, <2>1, <2>2, <2>3, <2>4, <2>5, <2>6 DEF StreamFollows
<1>6. CASE UNCHANGED vars
  BY <1>0, <1>4, <1>6 DEF vars, transcript, local, delivery
<1>7. CASE Turn
  <2>1. CASE ReplayFinal \/ Begin \/ OpenRound \/ SaveCalls \/ StopEarly \/ StopFinal
    <3>1. /\ UNCHANGED <<log, chan, recording, status, answers>> /\ round' \in {round, 0, 1, round + 1}
          /\ engine \in Busy /\ engine' \in Busy
      BY <2>1 DEF ReplayFinal, Begin, OpenRound, SaveCalls, StopEarly, StopFinal, transcript, local,
         delivery, Busy
    <3>2. round' \in Nat
      BY <1>0, <3>1
    <3> QED BY <1>4, <3>1, <3>2
  <2>2. CASE EmitText
    <3>1. Text \in Event \ Verdicts
      BY EventWords
    <3> QED BY <1>5, <2>2, <3>1 DEF EmitText, Emit, transcript, local
  <2>3. CASE EmitDone
    <3>1. Done \in Event \ Verdicts
      BY EventWords
    <3> QED BY <1>5, <2>3, <3>1 DEF EmitDone, Emit, transcript, local
  <2> QED BY <1>7, <2>1, <2>2, <2>3 DEF Turn
<1>8. ASSUME NEW c \in Calls, StreamCall(c) \/ EmitMedia(c) PROVE StreamFollows'
  <2>1. Start(c) \in Event \ Verdicts /\ Media(c, round) \in Event \ Verdicts
    BY <1>0, EventWords
  <2> QED BY <1>5, <1>8, <2>1 DEF StreamCall, EmitMedia, Emit, transcript, local, Busy
<1>9. ASSUME NEW c \in Calls, AtCall(c), ~EmitMedia(c) PROVE StreamFollows'
  <2>1. round' \in Nat
    BY <1>0, <1>9, AtCallSilent
  <2> QED BY <1>4, <1>9, <2>1, AtCallSilent
<1>10. ASSUME NEW c \in Calls, Tell(c) PROVE StreamFollows'
  <2>1. /\ engine = "tell" /\ engine' = "publish" /\ UNCHANGED <<log, chan, recording, status, round>>
        /\ answers' = Append(answers, [call |-> c, res |-> held]) /\ held \in Results
    BY <1>10 DEF Tell, local, delivery, CheckpointInv, HeldBacked, AtHand
  <2>2. Len(answers') = Len(answers) + 1
    <3>1. PICK a \in [call : Calls, res : Results] : a = [call |-> c, res |-> held]
      BY <2>1
    <3> QED BY <1>0, <2>1, <3>1
  <2>3. ToldInLog(Sent') = t
    BY <1>1, <1>3, <2>1
  <2>4. recording => Len(t) = Len(answers)
    BY <1>1, <2>1 DEF StreamFollows
  <2>5. status = "running" /\ (~recording => chan = <<>>)
    BY <1>0, <2>1 DEF StreamFollows
  <2> QED BY <1>0, <1>2, <2>1, <2>2, <2>3, <2>4, <2>5 DEF StreamFollows
<1>11. ASSUME NEW c \in Calls, Publish(c) PROVE StreamFollows'
  <2>1. /\ engine = "publish" /\ c = Head(todo) /\ recording /\ chan' = Append(chan, Result(c, held))
        /\ engine' \in {"round", "calls"} /\ UNCHANGED <<log, recording, status, round, answers, applied>>
    BY <1>11 DEF Publish, Emit, transcript
  <2>2. /\ answers # <<>> /\ Last(answers) = [call |-> c, res |-> held]
        /\ Len(t) + 1 = Len(answers)
    BY <1>1, <2>1 DEF AnswersFollow, StreamFollows
  <2>3. answers[Len(answers)] = [call |-> c, res |-> held] /\ held \in Results
    <3>1. answers[Len(answers)] = [call |-> c, res |-> held] /\ Len(answers) \in DOMAIN answers
      BY <1>0, <2>2 DEF Last
    <3>2. answers[Len(answers)] \in [call : Calls, res : Results]
      BY <1>0, <3>1, SeqElement
    <3> QED BY <3>1, <3>2
  <2>4. PICK e \in Verdicts : e = Result(c, held) /\ e.call = c /\ e.res = held
    BY <2>3, EventWords, ResultParts
  <2>5. e \in Event
    BY EventWords
  <2>6. chan' \in Seq(Event) /\ ToldInLog(Sent') = Append(t, e)
    BY <1>0, <1>1, <2>1, <2>4, <2>5, Emitted
  <2>7. PICK u \in Seq(Verdicts) : u = Append(t, e)
    BY AppendProperties
  <2>8. /\ Len(u) = Len(answers) /\ u[Len(answers)] = e
        /\ \A i \in DOMAIN u : i = Len(answers) \/ (i \in DOMAIN t /\ u[i] = t[i])
    BY <1>1, <2>2, <2>7
  <2>9. Effectful(c) /\ held = "performed" => applied[c] # 0
    <3>1. Len(answers) \in DOMAIN answers
      BY <1>0, <2>2
    <3>2. \A i \in DOMAIN answers :
            Effectful(answers[i].call) /\ answers[i].res = "performed" => applied[answers[i].call] # 0
      BY DEF CheckpointInv, AnswersApplied
    <3>3. answers[Len(answers)].call = c /\ answers[Len(answers)].res = held
      BY <2>3
    <3> QED BY <3>1, <3>2, <3>3
  <2>10. Matches(u)'
    <3>1. answers[Len(answers)].call = c /\ answers[Len(answers)].res = held
      BY <2>3
    <3>2. Matches(u)
      BY <1>0, <1>2, <2>4, <2>8, <2>9, <3>1 DEF Matches
    <3> QED BY <3>2, MatchesKept
  <2>11. status = "running"
    BY <1>0, <2>1
  <2> QED BY <1>0, <2>1, <2>6, <2>7, <2>8, <2>10, <2>11 DEF StreamFollows
<1>12. CASE EngineStops
  <2>1. engine # "off" /\ engine' = "failed" /\ UNCHANGED <<log, chan, recording, status, answers, round>>
    BY <1>12 DEF EngineStops, transcript, local, delivery
  <2> QED BY <1>0, <1>4, <2>1
<1>13. CASE OtherCommit
  <2>1. UNCHANGED <<log, chan, recording, status, answers, engine, round>>
    BY <1>13 DEF OtherCommit, transcript, local, delivery
  <2> QED BY <1>0, <1>4, <2>1
<1>14. CASE Record
  <2>1. /\ recording /\ chan # <<>> /\ log' = Append(log, Head(chan)) /\ chan' = Tail(chan)
        /\ UNCHANGED <<status, answers, engine, recording, round>>
    BY <1>14 DEF Record, transcript, local
  <2>2. log' \in Seq(Event) /\ chan' \in Seq(Event) /\ Sent' = Sent
    <3>1. PICK l \in Seq(Event) : l = log
      BY <1>0
    <3>2. PICK k \in Seq(Event) : k = chan
      BY <1>0
    <3>3. k # <<>> => /\ Append(l, Head(k)) \in Seq(Event) /\ Tail(k) \in Seq(Event)
                      /\ Append(l, Head(k)) \o Tail(k) = l \o k
      OBVIOUS
    <3> QED BY <2>1, <3>1, <3>2, <3>3 DEF Sent
  <2>3. ToldInLog(Sent') = t
    BY <1>1, <2>2
  <2>4. engine # "off" /\ status = "running"
    BY <1>0, <2>1 DEF StreamFollows
  <2> QED BY <1>0, <1>1, <1>2, <2>1, <2>2, <2>3, <2>4 DEF StreamFollows
<1>15. PICK a \in Seq(Verdicts) : a = ToldInLog(log) /\ Matches(a) /\ Matches(a)'
  <2>1. PICK a \in Seq(Verdicts) : a = ToldInLog(log)
    BY <1>0, LogTold
  <2>2. Matches(a)
    BY <2>1, LogMatches DEF CheckpointInv
  <2> QED BY <2>1, <2>2, MatchesKept
<1>16. ASSUME chan' = <<>>, log' = log PROVE ToldInLog(Sent') = a /\ chan' \in Seq(Event) /\ Sent' = log
  <2>1. PICK l \in Seq(Event) : l = log
    BY <1>0
  <2>2. l \o <<>> = l /\ <<>> \in Seq(Event)
    OBVIOUS
  <2> QED BY <1>15, <1>16, <2>1, <2>2 DEF Sent
<1>17. CASE RecordFails
  <2>1. /\ recording' = FALSE /\ chan' = <<>> /\ UNCHANGED <<log, status, answers, engine, round>>
        /\ chan # <<>>
    BY <1>17 DEF RecordFails, transcript, local
  <2>2. engine # "off" /\ status = "running"
    BY <1>0, <2>1 DEF StreamFollows
  <2> QED BY <1>0, <1>15, <1>16, <2>1, <2>2 DEF StreamFollows
<1>18. CASE Crash
  <2>1. /\ status' = "interrupted" /\ engine' = "off" /\ chan' = <<>>
        /\ UNCHANGED <<log, answers, recording, round>>
    BY <1>18 DEF Crash, transcript, local
  <2> QED BY <1>0, <1>15, <1>16, <2>1 DEF StreamFollows
<1>19. CASE Settle
  <2>1. /\ engine \in {"ended", "failed"} /\ chan = <<>> /\ engine' = "off"
        /\ status' = IF engine = "ended" /\ recording THEN "complete" ELSE "interrupted"
        /\ UNCHANGED <<log, chan, recording, answers, round>>
    BY <1>19 DEF Settle, transcript, local, delivery
  <2>2. Sent = log /\ t = a
    BY <1>0, <1>1, <1>15, <2>1, LogTold
  <2>3. engine = "ended" /\ recording => Concluded(log) /\ Len(a) = Len(answers)
    BY <1>1, <2>2 DEF StreamFollows
  <2> QED BY <1>0, <1>15, <1>16, <2>1, <2>3 DEF StreamFollows
<1>20. CASE Resume
  <2>1. /\ status = "interrupted" /\ log' = RepairedLog(Those(AskedCalls, Answered))
        /\ status' = "running" /\ engine' = "start" /\ recording' = TRUE /\ round' = 0
        /\ UNCHANGED <<answers, chan>>
    BY <1>20 DEF Resume, transcript
  <2>2. chan = <<>>
    BY <1>0, <2>1 DEF StreamFollows
  <2>3. Those(AskedCalls, Answered) = Told
    BY PartsOf DEF CheckpointInv
  <2>4. TellsTo(log', Len(answers))
    BY <1>0, <1>15, <2>1, <2>3, RepairedTells
  <2>5. PICK l \in Seq(Event) : l = log' /\ Matches(ToldInLog(l)) /\ Len(answers) <= Len(ToldInLog(l))
    BY <2>4 DEF TellsTo
  <2>6. PICK u \in Seq(Verdicts) : u = ToldInLog(l)
    BY ToldInLogIs
  <2>7. Matches(u) /\ Matches(u)' /\ Len(u) = Len(answers)
    <3>1. Matches(u)
      BY <2>5, <2>6
    <3>2. Len(u) <= Len(answers) /\ Len(answers) <= Len(u) /\ Len(u) \in Nat
      BY <2>5, <2>6, <3>1 DEF Matches
    <3> QED BY <1>0, <3>1, <3>2, MatchesKept
  <2>8. l \o <<>> = l
    OBVIOUS
  <2>9. ToldInLog(Sent') = u
    BY <2>1, <2>2, <2>5, <2>6, <2>8 DEF Sent
  <2> QED BY <1>0, <2>1, <2>2, <2>5, <2>7, <2>9 DEF StreamFollows
<1> QED
  BY <1>6, <1>7, <1>8, <1>9, <1>10, <1>11, <1>12, <1>13, <1>14, <1>17, <1>18, <1>19, <1>20
  DEF Next, Engine, Recorder, Call, AtCall

-----------------------------------------------------------------------------
(* The inductive invariant of the delivery.                                 *)
DeliveryInv == CheckpointInv /\ AnswersFollow /\ OneOutcome /\ StreamFollows

(* A new turn has told nothing.                                             *)
LEMMA DeliveryInvInit == Init => DeliveryInv
<1> SUFFICES ASSUME Init PROVE DeliveryInv
  OBVIOUS
<1>1. CheckpointInv /\ AnswersFollow
  BY CheckpointInvInit, AnswersFollowInit
<1>2. OneOutcome
  BY DEF Init, OneOutcome, OutcomeHeld, OutcomeAnswered, AtHand
<1>3. ToldInLog(Sent) = <<>>
  <2>1. Sent = <<>>
    BY DEF Init, Sent
  <2> QED BY <2>1, ThoseNil DEF ToldInLog
<1>4. Matches(<<>>)
  BY DEF Init, Matches
<1>5. Len(<<>>) = 0 /\ <<>> \in Seq(Event)
  OBVIOUS
<1>6. StreamFollows
  BY <1>3, <1>4, <1>5 DEF Init, StreamFollows
<1> QED BY <1>1, <1>2, <1>6 DEF DeliveryInv

(* However a turn is cut off and resumed, what it answers follows the saved *)
(* calls, and what the client is told follows the answers: the inductive    *)
(* invariant of the delivery.                                               *)
THEOREM DeliveryCorrect == Spec => []DeliveryInv
<1>1. DeliveryInv /\ [Next]_vars => DeliveryInv'
  <2>1. CheckpointInv /\ [Next]_vars => CheckpointInv'
    BY RecordsTypedStep, HeldBackedStep, AnswersBackedStep, OnePreparationStep, EffectsCountedStep,
       AnswersAppliedStep, NarrationLastStep DEF CheckpointInv
  <2> QED BY <2>1, AnswersFollowStep, OneOutcomeStep, StreamFollowsStep DEF DeliveryInv
<1> QED BY <1>1, DeliveryInvInit, PTL DEF Spec

(* A die is cast once and the story told in one version: transcript, steps  *)
(* and the client's log agree on every outcome, and the narration follows   *)
(* the answer of every saved call.                                          *)
THEOREM TheStoryIsOne == Spec => []ToldOneWay
<1>1. DeliveryInv => OneVerdict
  <2> SUFFICES ASSUME DeliveryInv, NEW c \in Calls, Kind[c] # "combat"
      PROVE  /\ \A i \in DOMAIN answers : answers[i].call = c /\ steps[c] \in Results =>
                  answers[i].res = steps[c]
             /\ \A e \in ToSet(log) : e.kind = "result" /\ e.call = c =>
                  [call |-> c, res |-> e.res] \in ToSet(answers)
    BY DEF OneVerdict
  <2> USE DEF DeliveryInv
  <2>1. ASSUME NEW i \in DOMAIN answers, answers[i].call = c, steps[c] \in Results
        PROVE  answers[i].res = steps[c]
    <3>1. OutcomeHeld(c) /\ OutcomeAnswered(c)
      BY DEF OneOutcome
    <3>2. Recorded(c) = steps[c]
      BY <2>1, <3>1 DEF Recorded, OutcomeHeld
    <3>3. Recorded(c) # "none"
      BY <2>1, <3>2, Words
    <3> QED BY <2>1, <3>1, <3>2, <3>3 DEF OutcomeAnswered
  <2>2. ASSUME NEW e \in ToSet(log), e.kind = "result", e.call = c
        PROVE  [call |-> c, res |-> e.res] \in ToSet(answers)
    <3>1. PICK a \in Seq(Verdicts) : a = ToldInLog(log) /\ Matches(a)
      BY LogTold, LogMatches DEF CheckpointInv, StreamFollows
    <3>2. e \in Verdicts
      <4>1. log \in Seq(Event)
        BY DEF StreamFollows
      <4>2. e \in Event
        BY <4>1 DEF ToSet
      <4> QED BY <2>2, <4>2, EventResult
    <3>3. PICK i \in DOMAIN a : a[i] = e
      BY <3>1, <3>2, ToldInLogIs DEF StreamFollows
    <3>4. answers \in Seq([call : Calls, res : Results]) /\ i \in DOMAIN answers
      <4>1. answers \in Seq([call : Calls, res : Results])
        BY DEF CheckpointInv, RecordsTyped
      <4>2. Len(a) <= Len(answers)
        BY <3>1 DEF Matches
      <4> QED BY <3>3, <4>1, <4>2
    <3>5. answers[i].call = c /\ answers[i].res = e.res
      BY <2>2, <3>1, <3>3 DEF Matches
    <3>6. answers[i] = [call |-> c, res |-> e.res]
      <4>1. answers[i] \in [call : Calls, res : Results]
        BY <3>4, SeqElement
      <4> QED BY <3>5, <4>1
    <3> QED BY <3>4, <3>6 DEF ToSet
  <2> QED BY <2>1, <2>2
<1>2. DeliveryInv => NarratedOnce
  <2> SUFFICES ASSUME DeliveryInv PROVE NarratedOnce
    OBVIOUS
  <2>1. CommandsBeforeNarration
    BY DEF DeliveryInv, CheckpointInv, NarrationLast, CommandsBeforeNarration
  <2>2. finals > 0 => AskedCalls = Told
    BY DEF DeliveryInv, AnswersFollow
  <2>3. Answered = ToSet(Told)
    BY ToldTyped DEF DeliveryInv, CheckpointInv
  <2> QED BY <2>1, <2>2, <2>3 DEF NarratedOnce
<1> QED BY <1>1, <1>2, DeliveryCorrect, PTL DEF ToldOneWay

(* The client's log follows the transcript answer by answer, is complete    *)
(* when the delivery is, and claims no effect that did not happen: lost,    *)
(* repaired and repeated deliveries included.                               *)
THEOREM DeliveryIsComplete == Spec => []CompleteAndInOrder
<1>1. ASSUME DeliveryInv PROVE CompleteAndInOrder
  <2> USE <1>1 DEF DeliveryInv
  <2>0. log \in Seq(Event) /\ chan \in Seq(Event)
    BY DEF StreamFollows
  <2>1. AnsweredInOrder
    <3>1. PICK a \in Seq(Verdicts) : a = ToldInLog(log) /\ Matches(a)
      BY LogTold, LogMatches DEF CheckpointInv, StreamFollows
    <3>2. /\ DOMAIN Told = DOMAIN answers /\ IsInjective(Told)
          /\ \A i \in DOMAIN answers : Told[i] = answers[i].call
      BY ToldTyped, PartsOf DEF CheckpointInv
    <3>3. \A i, j \in DOMAIN answers : answers[i].call = answers[j].call => i = j
      BY <3>2 DEF IsInjective
    <3> QED BY <3>1, <3>3 DEF AnsweredInOrder, Matches
  <2>2. CompleteDelivery
    <3> SUFFICES ASSUME status = "complete"
        PROVE  /\ Len(log) >= 2 /\ SubSeq(log, Len(log) - 1, Len(log)) = <<Text, Done>>
               /\ Len(ToldInLog(log)) = Len(answers)
      BY DEF CompleteDelivery
    <3>1. Concluded(log) /\ Len(ToldInLog(log)) = Len(answers)
      BY DEF StreamFollows
    <3>2. PICK t \in Seq(Event) : log = Append(Append(t, Text), Done)
      BY <3>1 DEF Concluded
    <3>3. PICK x \in Event, y \in Event : x = Text /\ y = Done
      BY EventWords
    <3>4. /\ Len(Append(Append(t, x), y)) = Len(t) + 2 /\ Len(t) \in Nat
          /\ SubSeq(Append(Append(t, x), y), Len(t) + 1, Len(t) + 2) = <<x, y>>
      <4>0. PICK s \in Seq(Event) : s = Append(t, x)
        BY AppendProperties
      <4>1. PICK u \in Seq(Event) : u = Append(Append(t, x), y) /\ u = Append(s, y)
        BY <4>0, AppendProperties
      <4>2. /\ Len(u) = Len(t) + 2 /\ Len(t) \in Nat /\ u[Len(t) + 1] = x /\ u[Len(t) + 2] = y
            /\ \A i \in (Len(t) + 1)..(Len(t) + 2) : u[i] \in Event
        BY <4>0, <4>1
      <4>3. PICK w \in Seq(Event) : w = SubSeq(u, Len(t) + 1, Len(t) + 2)
        <5>1. Len(t) + 1 \in Int /\ Len(t) + 2 \in Int
          BY <4>2
        <5>2. SubSeq(u, Len(t) + 1, Len(t) + 2) \in Seq(Event)
          BY <4>2, <5>1, SubSeqProperties
        <5> QED BY <5>2
      <4>4. Len(w) = 2 /\ w[1] = x /\ w[2] = y
        BY <4>2, <4>3
      <4>5. w = <<x, y>>
        BY <4>4
      <4> QED BY <4>1, <4>2, <4>3, <4>5
    <3>5. Len(log) = Len(t) + 2 /\ Len(log) - 1 = Len(t) + 1
      BY <3>2, <3>3, <3>4
    <3>6. Len(log) >= 2
      BY <3>4, <3>5
    <3> QED BY <3>1, <3>2, <3>3, <3>4, <3>5, <3>6
  <2>3. ClientToldTruth
    <3> SUFFICES ASSUME NEW c \in Calls, Effectful(c), Result(c, "performed") \in ToSet(log \o chan)
        PROVE  applied[c] # 0
      BY DEF ClientToldTruth
    <3>1. Sent \in Seq(Event)
      <4>1. PICK l \in Seq(Event) : l = log
        BY <2>0
      <4>2. PICK k \in Seq(Event) : k = chan
        BY <2>0
      <4> QED BY <4>1, <4>2, ConcatProperties DEF Sent
    <3>2. PICK v \in Verdicts : v = Result(c, "performed") /\ v.call = c /\ v.res = "performed"
      BY EventWords, ResultParts, Words
    <3>3. v \in ToSet(Sent)
      BY <3>2 DEF Sent
    <3>4. PICK i \in DOMAIN ToldInLog(Sent) : ToldInLog(Sent)[i] = v
      BY <3>1, <3>3, ToldInLogIs
    <3>5. Matches(ToldInLog(Sent))
      BY DEF StreamFollows
    <3> QED BY <3>2, <3>4, <3>5 DEF Matches
  <2> QED BY <2>1, <2>2, <2>3 DEF CompleteAndInOrder
<1> QED BY <1>1, DeliveryCorrect, PTL

(* Every variable keeps its type, the log's repairs included.               *)
THEOREM TypesAreKept == Spec => []TypeOK
<1> DEFINE LocalTyped == /\ status \in {"running", "interrupted", "complete"} /\ combat \in BOOLEAN
                         /\ engine \in Stage /\ round \in 0..MaxRounds
                         /\ resolved \in BOOLEAN /\ inCombat \in BOOLEAN /\ resumes \in 0..MaxResumes
<1>1. Init => LocalTyped
  <2>1. 0 \in 0..MaxRounds /\ 0 \in 0..MaxResumes
    BY CheckpointConstants
  <2> QED BY <2>1 DEF Init, Stage
<1>2. ASSUME LocalTyped, [Next]_vars PROVE LocalTyped'
  <2>0. 1 \in 0..MaxRounds /\ 0 \in 0..MaxRounds /\ 0 \in 0..MaxResumes
    BY CheckpointConstants
  <2>1. CASE UNCHANGED vars
    BY <1>2, <2>1 DEF vars, world, local
  <2>2. CASE Turn
    <3>1. round < MaxRounds => round + 1 \in 0..MaxRounds
      BY <1>2, CheckpointConstants
    <3>2. Finished \in BOOLEAN
      BY DEF Finished
    <3>3. CASE ReplayFinal \/ SaveCalls \/ StopEarly \/ StopFinal \/ EmitText \/ EmitDone
      BY <1>2, <3>3 DEF ReplayFinal, SaveCalls, StopEarly, StopFinal, EmitText, EmitDone, world,
         local, Stage
    <3>4. CASE Begin
      BY <1>2, <2>0, <3>2, <3>4 DEF Begin, world, Stage
    <3>5. CASE OpenRound
      BY <1>2, <3>1, <3>5 DEF OpenRound, world, Stage
    <3> QED BY <2>2, <3>3, <3>4, <3>5 DEF Turn
  <2>3. ASSUME NEW c \in Calls, Call(c) PROVE LocalTyped'
    <3>2. Finished \in BOOLEAN /\ Finished' \in BOOLEAN
      BY DEF Finished
    <3>3. CASE StreamCall(c) \/ Tell(c) \/ Publish(c) \/ EmitMedia(c)
      BY <1>2, <3>3 DEF StreamCall, Tell, Publish, EmitMedia, world, local, Stage
    <3>4. CASE Replay(c) \/ Deny(c) \/ Withhold(c) \/ Admit(c) \/ \E last \in BOOLEAN : Prepare(c, last)
      BY <1>2, <3>2, <3>4 DEF Replay, Deny, Withhold, Admit, Prepare, world, local, Stage
    <3>5. CASE ClaimStep(c) \/ Perform(c) \/ Refuse(c)
      BY <1>2, <3>5 DEF ClaimStep, Perform, Refuse, world, local, Stage
    <3>6. CASE Roll(c) \/ Generate(c)
      BY <1>2, <3>6 DEF Roll, Generate, world, local, Stage
    <3>7. CASE FinishStep(c)
      BY <1>2, <3>2, <3>7 DEF FinishStep, Stage
    <3> QED BY <2>3, <3>3, <3>4, <3>5, <3>6, <3>7 DEF Call
  <2>4. CASE EngineStops \/ Recorder \/ Crash \/ OtherCommit
    BY <1>2, <2>4 DEF EngineStops, Recorder, Record, RecordFails, Settle, Crash, OtherCommit, world,
       local, Stage
  <2>5. CASE Resume
    <3>1. resumes' \in 0..MaxResumes
      BY <1>2, <2>5, CheckpointConstants DEF Resume
    <3> QED BY <1>2, <2>0, <2>5, <3>1 DEF Resume, world, Stage
  <2> QED BY <1>2, <2>1, <2>2, <2>3, <2>4, <2>5 DEF Next, Engine
<1>3. DeliveryInv /\ LocalTyped => TypeOK
  BY DEF DeliveryInv, CheckpointInv, RecordsTyped, AnswersFollow, StreamFollows, TypeOK
<1> QED BY <1>1, <1>2, <1>3, DeliveryCorrect, PTL DEF Spec

-----------------------------------------------------------------------------
(* The memory of a character.  Between its two statements a turn has seen  *)
(* what the row still is: the lane keeps everybody else out.               *)
Held == [at : {"out", "thinks", "writes"}, fact : Nat, seen : SUBSET Nat]

MemoryTyped ==
  /\ said \in Nat /\ npc \in SUBSET Nat /\ saved \in SUBSET SUBSET Nat
  /\ hand \in [MemoryTurns -> Held]

MemoryInv ==
  /\ MemoryTyped
  /\ \A v, w \in MemoryTurns : hand[v].at # "out" /\ hand[w].at # "out" => v = w
  /\ \A w \in MemoryTurns : hand[w].at = "writes" => hand[w].seen = npc
  /\ MemoryOfTimeline

LEMMA MemoryInvInit == MemoryInit => MemoryInv
BY DEF MemoryInit, MemoryInv, MemoryTyped, Held, Empty, MemoryOfTimeline

LEMMA MemoryInvStep ==
  ASSUME MemoryInv, [MemoryNext]_memoryVars
  PROVE  MemoryInv'
<1> USE DEF MemoryInv, MemoryTyped, MemoryOfTimeline, Held
<1>1. CASE UNCHANGED memoryVars
  BY <1>1 DEF memoryVars
<1>2. ASSUME NEW w \in MemoryTurns, StartsTurn(w) PROVE MemoryInv'
  <2>1. \A v \in MemoryTurns : hand[v].at = "out"
    BY <1>2 DEF StartsTurn, NobodysTurn, Lane
  <2>2. hand' = [hand EXCEPT ![w] = [hand[w] EXCEPT !.at = "thinks"]]
    BY <1>2 DEF StartsTurn
  <2> QED BY <1>2, <2>1, <2>2 DEF StartsTurn
<1>3. ASSUME NEW w \in MemoryTurns, EndsTurn(w) PROVE MemoryInv'
  BY <1>3 DEF EndsTurn, Empty
<1>4. ASSUME NEW w \in MemoryTurns, ReadFacts(w) PROVE MemoryInv'
  BY <1>4 DEF ReadFacts
<1>5. ASSUME NEW w \in MemoryTurns, WriteFacts(w) PROVE MemoryInv'
  <2>1. \A v \in MemoryTurns : v # w => hand[v].at = "out"
    BY <1>5 DEF WriteFacts
  <2> DEFINE clean == [Empty EXCEPT !.at = "thinks"]
  <2>0. clean \in Held /\ clean.at = "thinks"
    BY DEF Empty
  <2> HIDE DEF clean
  <2>2. hand' = [hand EXCEPT ![w] = clean]
    BY <1>5 DEF WriteFacts, clean
  <2>3. npc' = npc \cup {hand[w].fact} /\ remembered' = remembered \cup {hand[w].fact}
    BY <1>5 DEF WriteFacts
  <2>4. hand[w].at = "writes" /\ UNCHANGED <<said, saved>>
    BY <1>5 DEF WriteFacts
  <2>5. hand' \in [MemoryTurns -> Held] /\ \A v \in MemoryTurns : hand'[v].at # "writes"
    BY <2>0, <2>1, <2>2
  <2>6. npc' = remembered' /\ npc' \in SUBSET Nat
    BY <2>3, <2>4
  <2> QED BY <2>0, <2>1, <2>2, <2>4, <2>5, <2>6
<1>6. CASE KeepSave
  BY <1>6 DEF KeepSave
<1>7. CASE RestoreFacts
  BY <1>7 DEF RestoreFacts, NobodysTurn, Lane
<1> QED BY <1>1, <1>2, <1>3, <1>4, <1>5, <1>6, <1>7 DEF MemoryNext

(* remember_npc loses no fact another turn was told is remembered, and     *)
(* brings back none that a restore took away.                              *)
THEOREM MemoryIsKept == MemorySpec => []MemoryOfTimeline
<1>1. MemoryInv => MemoryOfTimeline
  BY DEF MemoryInv
<1> QED BY <1>1, MemoryInvInit, MemoryInvStep, PTL DEF MemorySpec

-----------------------------------------------------------------------------
(* The table.  Every row belongs to a fight, every fight to a session.     *)
TokenNames == Tokens \cup ((1..MaxBouts) \X {"hero", "foe"})
Hp == 0..FullHp
Body == [hp : Hp, dead : BOOLEAN]
Bodies == UNION {[S -> Body] : S \in SUBSET TokenNames}
Fight == [session : TableCampaigns, bound : BOOLEAN, open : BOOLEAN, body : Bodies]
TokenRow == [bout : Bouts, hp : Hp, dead : BOOLEAN]
ToolCall == [tool : {"none", "strike", "end_combat"},
             campaign : TableCampaigns \cup {"none"}, session : TableCampaigns \cup {"none"}, targets : Seq(TokenNames),
             at : {"read", "write", "over"}, seen : Nat]

FightsTyped ==
  /\ heroed \subseteq TableCampaigns
  /\ bouts \in Seq(Fight) /\ Len(bouts) <= MaxBouts
  /\ rows \in [DOMAIN rows -> TokenRow] /\ DOMAIN rows \subseteq TokenNames

CallsTyped == call \in [TableTurns -> ToolCall]

(* A bound fight has the rows of its projection, and these alone.          *)
RowsFollow ==
  \A b \in Bouts : bouts[b].bound =>
    /\ \A t \in DOMAIN rows : rows[t].bout = b => t \in DOMAIN bouts[b].body
    /\ \A t \in DOMAIN bouts[b].body :
          /\ t \in DOMAIN rows /\ rows[t].bout = b
          /\ rows[t].hp = bouts[b].body[t].hp /\ rows[t].dead = bouts[b].body[t].dead

(* What a tool read before it writes still stands.                         *)
CallStands(r) ==
  /\ r.tool = "strike" => Len(r.targets) > 0
  /\ r.tool = "strike" /\ r.at = "write" => Exists(Head(r.targets)) /\ r.seen \in Hp
  /\ r.tool = "end_combat" => Owns(r.campaign, r.session)
  /\ r.tool = "end_combat" /\ r.at = "write" =>
        r.seen \in Bouts /\ bouts[r.seen].session = r.session

(* Once a hero of its campaign joined a fight, every later one binds too.  *)
BoundByHeroes == \A b \in Bouts : bouts[b].bound => bouts[b].session \in heroed

TheFights == FightsTyped /\ RowsFollow /\ BoundByHeroes /\ BoundFightAlone
TheCalls == CallsTyped /\ \A w \in TableTurns : CallStands(call[w])
TableInv == TheFights /\ TheCalls

-----------------------------------------------------------------------------
(* Newest finds one of the fights it is asked about.                       *)
LEMMA NewestIsOne ==
  ASSUME bouts \in Seq(Fight), NEW S \in SUBSET Bouts, S # {}
  PROVE  Newest(S) \in S
<1> DEFINE T == {Len(bouts) - s : s \in S}
<1>1. Bouts = 1..Len(bouts) /\ Len(bouts) \in Nat
  BY DEF Bouts
<1>2. T \subseteq Nat /\ T # {}
  <2>1. \A s \in S : s \in 1..Len(bouts)
    BY <1>1
  <2>2. \A s \in S : Len(bouts) - s \in Nat
    BY <1>1, <2>1
  <2> QED BY <2>2
<1>3. PICK x \in T : \A y \in T : <<y, x>> \notin OpToRel(<, Nat)
  <2> HIDE DEF T
  <2> QED BY <1>2, WFMin, NatLessThanWellFounded
<1>4. \A y \in T : ~(y < x)
  BY <1>2, <1>3 DEF OpToRel
<1>5. PICK b \in S : x = Len(bouts) - b
  OBVIOUS
<1>6. \A other \in S : other <= b
  <2> TAKE other \in S
  <2>1. ~(Len(bouts) - other < Len(bouts) - b)
    BY <1>4, <1>5
  <2> QED BY <2>1, <1>1
<1> QED BY <1>6 DEF Newest

(* Nothing takes a fight, its session or a token's row away.               *)
Kept ==
  /\ Bouts \subseteq Bouts' /\ DOMAIN rows \subseteq (DOMAIN rows)'
  /\ \A b \in Bouts : bouts'[b].session = bouts[b].session

LEMMA CallsWait ==
  ASSUME TheCalls, Kept, UNCHANGED call
  PROVE  TheCalls'
BY DEF TheCalls, CallsTyped, CallStands, Kept, Exists

LEMMA CallMoves ==
  ASSUME TheCalls, Kept, NEW w \in TableTurns, NEW r \in ToolCall, CallStands(r),
         call' = [call EXCEPT ![w] = r]
  PROVE  TheCalls'
<1>1. CallsTyped' /\ \A v \in TableTurns : call'[v] \in {call[v], r}
  BY DEF TheCalls, CallsTyped
<1>2. \A v \in TableTurns : CallStands(call'[v])
  BY <1>1 DEF TheCalls
<1>3. \A v \in TableTurns : CallStands(call[v])'
  BY <1>2 DEF CallStands, Kept, Exists
<1> QED BY <1>1, <1>3 DEF TheCalls

LEMMA CallEnds ==
  ASSUME TheCalls, Kept, NEW w \in TableTurns, call' = [call EXCEPT ![w] = NoCall]
  PROVE  TheCalls'
<1>1. <<>> \in Seq(TokenNames)
  OBVIOUS
<1>2. NoCall \in ToolCall /\ NoCall.tool = "none"
  BY <1>1 DEF NoCall, ToolCall
<1> QED BY <1>2, CallMoves DEF CallStands

(* The parts of a fight.                                                   *)
LEMMA FightParts ==
  ASSUME bouts \in Seq(Fight)
  PROVE  \A b \in Bouts :
           /\ bouts[b] \in Fight /\ bouts[b].body \in [DOMAIN bouts[b].body -> Body]
           /\ DOMAIN bouts[b].body \subseteq TokenNames
<1> TAKE b \in Bouts
<1>1. bouts[b] \in Fight
  BY DEF Bouts
<1>2. PICK S \in SUBSET TokenNames : bouts[b].body \in [S -> Body]
  BY <1>1 DEF Fight, Bodies
<1> QED BY <1>1, <1>2

LEMMA BodyIsOne ==
  ASSUME NEW S \in SUBSET TokenNames, NEW f \in [S -> Body]
  PROVE  f \in Bodies
BY DEF Bodies

-----------------------------------------------------------------------------
(* A fight of the store with other bodies, or closed: nothing but its own  *)
(* rows move.                                                              *)
LEMMA FightChanges ==
  ASSUME TheFights, UNCHANGED heroed, NEW b \in Bouts, NEW bodies \in Bodies,
         DOMAIN bodies = DOMAIN bouts[b].body, NEW open \in BOOLEAN, open => bouts[b].open,
         bouts' = [bouts EXCEPT ![b] = [@ EXCEPT !.open = open, !.body = bodies]],
         rows' = Follow(b, bodies)
  PROVE  TheFights' /\ Kept
<1> DEFINE fight == [bouts[b] EXCEPT !.open = open, !.body = bodies]
<1> USE DEF TheFights, FightsTyped
<1>1. /\ fight \in Fight /\ fight.session = bouts[b].session /\ fight.bound = bouts[b].bound
      /\ fight.open = open /\ fight.body = bodies
  BY FightParts DEF Fight
<1> HIDE DEF fight
<1>2. bouts' = [bouts EXCEPT ![b] = fight]
  BY DEF fight
<1>3. /\ bouts' \in Seq(Fight) /\ Len(bouts') = Len(bouts) /\ Bouts' = Bouts
      /\ bouts'[b] = fight /\ \A a \in Bouts : a # b => bouts'[a] = bouts[a]
  BY <1>1, <1>2 DEF Bouts
<1>4. bodies \in [DOMAIN bodies -> Body]
  BY DEF Bodies
<1>5. /\ DOMAIN rows' = DOMAIN rows
      /\ \A t \in DOMAIN rows : rows'[t] \in TokenRow /\ rows'[t].bout = rows[t].bout
      /\ \A t \in DOMAIN rows : rows[t].bout # b => rows'[t] = rows[t]
      /\ \A t \in DOMAIN rows : rows[t].bout = b /\ t \in DOMAIN bodies =>
            rows'[t].hp = bodies[t].hp /\ rows'[t].dead = bodies[t].dead
  <2>1. \A t \in DOMAIN rows : rows[t] \in TokenRow
    OBVIOUS
  <2> QED BY <1>4, <2>1 DEF Follow, TokenRow, Body
<1>6. rows' \in [DOMAIN rows' -> TokenRow']
  <2>1. TokenRow' = TokenRow
    BY <1>3 DEF TokenRow
  <2>2. rows' = [t \in DOMAIN rows |-> rows'[t]]
    BY DEF Follow
  <2> QED BY <1>5, <2>1, <2>2
<1>7. FightsTyped'
  BY <1>3, <1>5, <1>6
<1>8. RowsFollow'
  <2> SUFFICES ASSUME NEW a \in Bouts, bouts'[a].bound
               PROVE  /\ \A t \in DOMAIN rows' : rows'[t].bout = a => t \in DOMAIN bouts'[a].body
                      /\ \A t \in DOMAIN bouts'[a].body :
                           /\ t \in DOMAIN rows' /\ rows'[t].bout = a
                           /\ rows'[t].hp = bouts'[a].body[t].hp
                           /\ rows'[t].dead = bouts'[a].body[t].dead
    BY <1>3 DEF RowsFollow
  <2>1. bouts[a].bound /\ DOMAIN bouts'[a].body = DOMAIN bouts[a].body
    BY <1>1, <1>3
  <2>2. CASE a = b
    BY <1>1, <1>3, <1>5, <2>1, <2>2 DEF RowsFollow
  <2>3. CASE a # b
    BY <1>3, <1>5, <2>1, <2>3 DEF RowsFollow
  <2> QED BY <2>2, <2>3
<1>9. BoundByHeroes' /\ Kept
  BY <1>1, <1>3, <1>5 DEF BoundByHeroes, Kept
<1>10. BoundFightAlone'
  BY <1>1, <1>3 DEF BoundFightAlone, OpenIn, OpenBouts
<1> QED BY <1>7, <1>8, <1>9, <1>10

LEMMA EndFightStep ==
  ASSUME TheFights, UNCHANGED heroed, NEW b \in Bouts, EndFight(b)
  PROVE  TheFights' /\ Kept
<1>1. /\ bouts[b] \in Fight
  BY FightParts DEF TheFights, FightsTyped
<1>2. bouts[b].body \in Bodies
  BY <1>1 DEF Fight
<1>3. [bouts[b] EXCEPT !.open = FALSE] = [bouts[b] EXCEPT !.open = FALSE, !.body = bouts[b].body]
  BY <1>1 DEF Fight
<1>4. bouts' = [bouts EXCEPT ![b] = [@ EXCEPT !.open = FALSE, !.body = bouts[b].body]]
  BY <1>3 DEF EndFight
<1> QED BY <1>2, <1>4, FightChanges DEF EndFight

LEMMA ActStep ==
  ASSUME TheFights, UNCHANGED heroed, NEW b \in Bouts, NEW t \in DOMAIN bouts[b].body,
         NEW hp \in Hp, ActIn(b, t, hp)
  PROVE  TheFights' /\ Kept
<1> DEFINE bodies == [bouts[b].body EXCEPT ![t] = Struck(b, t, hp)]
<1>1. bouts[b] \in Fight /\ bouts[b].body \in [DOMAIN bouts[b].body -> Body]
      /\ DOMAIN bouts[b].body \subseteq TokenNames
  BY FightParts DEF TheFights, FightsTyped
<1>2. Struck(b, t, hp) \in Body
  BY DEF Struck, Body
<1>3. bodies \in [DOMAIN bouts[b].body -> Body]
  BY <1>1, <1>2
<1>4. bodies \in Bodies
  BY <1>1, <1>3, BodyIsOne
<1>5. bouts[b].open
  BY DEF ActIn
<1>6. [bouts[b] EXCEPT !.body = bodies] = [bouts[b] EXCEPT !.open = TRUE, !.body = bodies]
  BY <1>1, <1>5 DEF Fight
<1>7. bouts' = [bouts EXCEPT ![b] = [@ EXCEPT !.open = TRUE, !.body = bodies]]
      /\ rows' = Follow(b, bodies)
  BY <1>6 DEF ActIn
<1> HIDE DEF bodies
<1>8. DOMAIN bodies = DOMAIN bouts[b].body
  BY <1>3
<1> QED BY <1>4, <1>5, <1>7, <1>8, FightChanges

(* A fight begins: beside no open one of its session, if a hero joins.     *)
LEMMA CreateStep ==
  ASSUME TheFights, UNCHANGED heroed, NEW session \in TableCampaigns, NEW foe,
         foe \in Tokens \/ foe = Foe(Len(bouts) + 1), CreateFight(session, foe)
  PROVE  TheFights' /\ Kept
<1> DEFINE b == Len(bouts) + 1
           cast == {foe} \cup (IF Binds(session) THEN {Hero(b)} ELSE {})
           body == [t \in cast |-> Living(FullHp)]
           fight == [session |-> session, bound |-> Binds(session), open |-> TRUE, body |-> body]
           row == [bout |-> b, hp |-> FullHp, dead |-> FALSE]
<1> USE DEF TheFights, FightsTyped
<1>1. b \in 1..MaxBouts /\ b \notin Bouts /\ MayStart(session) /\ cast \cap DOMAIN rows = {}
  BY TableAssumption DEF CreateFight, Bouts
<1>2. cast \subseteq TokenNames
  BY <1>1 DEF TokenNames, Hero, Foe
<1>3. Living(FullHp) \in Body /\ Living(FullHp).hp = FullHp
      /\ Living(FullHp).dead = FALSE
  BY TableAssumption DEF Living, Body, Hp
<1>4. body \in [cast -> Body] /\ \A t \in cast : body[t] = Living(FullHp)
  BY <1>3
<1>5. fight \in Fight /\ fight.session = session /\ fight.bound = Binds(session) /\ fight.open
      /\ fight.body = body
  <2>1. body \in Bodies
    BY <1>2, <1>4, BodyIsOne
  <2>2. Binds(session) \in BOOLEAN
    BY DEF Binds
  <2> HIDE DEF body
  <2> QED BY <2>1, <2>2 DEF Fight
<1>6. bouts' = Append(bouts, fight)
  BY DEF CreateFight
<1>7. \A t \in cast : rows'[t] = row
  BY DEF CreateFight
<1>8. /\ DOMAIN rows' = DOMAIN rows \cup cast /\ \A t \in DOMAIN rows : rows'[t] = rows[t]
      /\ rows' = [t \in DOMAIN rows' |-> rows'[t]]
  BY <1>1 DEF CreateFight
<1> HIDE DEF fight, body, cast
<1>9. /\ bouts' \in Seq(Fight) /\ Len(bouts') = b /\ Bouts' = Bouts \cup {b} /\ bouts'[b] = fight
      /\ \A a \in Bouts : bouts'[a] = bouts[a]
  BY <1>5, <1>6 DEF Bouts
<1>10. row \in TokenRow' /\ row.bout = b /\ row.hp = FullHp /\ row.dead = FALSE
  BY <1>9, TableAssumption DEF TokenRow, Hp
<1> HIDE DEF row
<1>11. \A t \in DOMAIN rows : rows[t] \in TokenRow /\ rows[t].bout \in Bouts /\ rows[t] \in TokenRow'
  BY <1>9 DEF TokenRow
<1>12. FightsTyped'
  <2>1. \A t \in DOMAIN rows' : rows'[t] \in TokenRow'
    BY <1>7, <1>8, <1>10, <1>11
  <2>2. rows' \in [DOMAIN rows' -> TokenRow']
    BY <1>8, <2>1
  <2> QED BY <1>1, <1>2, <1>8, <1>9, <2>2
<1>13. RowsFollow'
  <2> SUFFICES ASSUME NEW a \in Bouts', bouts'[a].bound
               PROVE  /\ \A t \in DOMAIN rows' : rows'[t].bout = a => t \in DOMAIN bouts'[a].body
                      /\ \A t \in DOMAIN bouts'[a].body :
                           /\ t \in DOMAIN rows' /\ rows'[t].bout = a
                           /\ rows'[t].hp = bouts'[a].body[t].hp
                           /\ rows'[t].dead = bouts'[a].body[t].dead
    BY DEF RowsFollow
  <2>1. CASE a = b
    <3>1. \A t \in DOMAIN rows' : rows'[t].bout = b => t \in cast
      BY <1>1, <1>8, <1>11
    <3>2. bouts'[a].body = body /\ DOMAIN body = cast
      BY <1>4, <1>5, <1>9, <2>1
    <3>3. \A t \in cast : rows'[t].hp = body[t].hp /\ rows'[t].dead = body[t].dead
      BY <1>3, <1>4, <1>7, <1>10
    <3> HIDE DEF b
    <3> QED BY <1>7, <1>8, <1>10, <2>1, <3>1, <3>2, <3>3
  <2>2. CASE a \in Bouts
    <3>1. bouts'[a] = bouts[a] /\ a # b
      BY <1>1, <1>9, <2>2
    <3>2. \A t \in cast : rows'[t].bout # a
      BY <1>7, <1>10, <3>1
    <3> QED BY <1>8, <2>2, <3>1, <3>2 DEF RowsFollow
  <2> QED BY <1>9, <2>1, <2>2
<1>14. BoundByHeroes' /\ Kept
  BY <1>5, <1>8, <1>9 DEF BoundByHeroes, Kept, Binds
<1>15. BoundFightAlone'
  <2>1. \A a \in Bouts : bouts[a].session = session /\ bouts[a].open => ~Binds(session)
    BY <1>1 DEF MayStart, OpenIn, OpenBouts
  <2>2. \A a \in Bouts : bouts[a].bound => Binds(bouts[a].session)
    BY DEF BoundByHeroes, Binds
  <2>3. OpenBouts' = OpenBouts \cup {b} /\ b \notin OpenBouts
    BY <1>1, <1>5, <1>9 DEF OpenBouts
  <2>4. \A a \in OpenBouts : bouts[a].open /\ a \in Bouts /\ bouts'[a] = bouts[a]
    BY <1>9 DEF OpenBouts
  <2>5. bouts'[b].session = session /\ bouts'[b].bound = Binds(session)
    BY <1>5, <1>9
  <2>6. ASSUME NEW a \in OpenBouts', bouts'[a].bound, NEW c \in OpenBouts',
               bouts'[c].session = bouts'[a].session
        PROVE  c = a
    <3>1. CASE a = b /\ c = b
      BY <3>1
    <3>2. CASE a = b /\ c \in OpenBouts
      BY <2>1, <2>4, <2>5, <2>6, <3>2
    <3>3. CASE a \in OpenBouts /\ c = b
      BY <2>1, <2>2, <2>4, <2>5, <2>6, <3>3
    <3>4. CASE a \in OpenBouts /\ c \in OpenBouts
      BY <2>4, <2>6, <3>4 DEF BoundFightAlone, OpenIn
    <3> HIDE DEF b
    <3> QED BY <2>3, <2>6, <3>1, <3>2, <3>3, <3>4
  <2> QED BY <2>6 DEF BoundFightAlone, OpenIn
<1> QED BY <1>12, <1>13, <1>14, <1>15

(* A tool writes the row of a token outside the bound fights.              *)
LEMMA SetStep ==
  ASSUME TheFights, UNCHANGED <<heroed, bouts>>, NEW t \in TokenNames, NEW row \in TokenRow,
         EnsureUnbound(t), ~bouts[row.bout].bound, Set(t, row)
  PROVE  TheFights' /\ Kept
<1> USE DEF TheFights, FightsTyped
<1>1. /\ DOMAIN rows' = DOMAIN rows \cup {t} /\ rows'[t] = row
      /\ \A k \in DOMAIN rows : k # t => rows'[k] = rows[k]
      /\ rows' = [k \in DOMAIN rows' |-> rows'[k]]
  BY DEF Set
<1>2. Bouts' = Bouts /\ TokenRow' = TokenRow
  BY DEF Bouts, TokenRow
<1>3. \A k \in DOMAIN rows' : rows'[k] \in TokenRow
  BY <1>1
<1>4. rows' \in [DOMAIN rows' -> TokenRow']
  BY <1>1, <1>2, <1>3
<1>5. RowsFollow'
  BY <1>1, <1>2 DEF RowsFollow, EnsureUnbound, Exists
<1>6. Kept /\ BoundByHeroes' /\ BoundFightAlone'
  BY <1>1, <1>2 DEF Kept, BoundByHeroes, BoundFightAlone, OpenIn, OpenBouts
<1> QED BY <1>1, <1>4, <1>5, <1>6

LEMMA FightsWait ==
  ASSUME TheFights, UNCHANGED <<bouts, rows>>, heroed \subseteq heroed',
         heroed' \subseteq TableCampaigns
  PROVE  TheFights' /\ Kept
BY DEF TheFights, FightsTyped, RowsFollow, BoundByHeroes, BoundFightAlone, OpenIn, OpenBouts,
   Kept, TokenRow, Bouts

-----------------------------------------------------------------------------
(* The tools.                                                              *)
LEMMA TakeStep ==
  ASSUME TableInv, NEW w \in TableTurns, NEW c \in TableCampaigns, NEW session \in TableCampaigns,
         NEW tool \in {"end_combat", "strike"}, NEW targets \in Seq(TokenNames),
         Takes(w, c, session, tool, targets)
  PROVE  TableInv'
<1> DEFINE r == [tool |-> tool, campaign |-> c, session |-> session, targets |-> targets,
                 at |-> "read", seen |-> 0]
<1>1. r \in ToolCall /\ r.tool = tool /\ r.campaign = c /\ r.session = session
      /\ r.targets = targets /\ r.at = "read"
  BY DEF ToolCall
<1>2. call' = [call EXCEPT ![w] = r]
  BY DEF Takes
<1> HIDE DEF r
<1>3. CallStands(r)
  <2>1. tool = "strike" => Len(targets) > 0
    BY EmptySeq DEF Takes, Decodes
  <2> QED BY <1>1, <2>1 DEF Takes, MayExecute, CombatTools, CallStands
<1>4. UNCHANGED <<heroed, bouts, rows>>
  BY DEF Takes
<1> QED BY <1>1, <1>2, <1>3, <1>4, FightsWait, CallMoves DEF TableInv, TheFights, FightsTyped

(* A strike goes on with its next target, or answers.                      *)
LEMMA NextTargetStep ==
  ASSUME TheCalls, Kept, NEW w \in TableTurns, call[w].tool = "strike", NextTarget(w)
  PROVE  TheCalls'
<1> DEFINE rest == Tail(call[w].targets)
           r == [call[w] EXCEPT !.targets = rest, !.at = "read", !.seen = 0]
<1>1. call[w] \in ToolCall /\ call[w].targets \in Seq(TokenNames) /\ Len(call[w].targets) > 0
  BY DEF TheCalls, CallsTyped, ToolCall, CallStands
<1>2. rest \in Seq(TokenNames)
  BY <1>1, HeadTailProperties
<1>3. call' = [call EXCEPT ![w] = IF rest = <<>> THEN NoCall ELSE r]
  BY DEF NextTarget
<1> HIDE DEF rest
<1>4. r \in ToolCall /\ r.tool = "strike" /\ r.targets = rest /\ r.at = "read"
  BY <1>1, <1>2 DEF ToolCall
<1> HIDE DEF r
<1>5. CASE rest = <<>>
  BY <1>3, <1>5, CallEnds
<1>6. CASE rest # <<>>
  <2>1. Len(rest) > 0
    BY <1>2, <1>6, EmptySeq
  <2> QED BY <1>3, <1>4, <1>6, <2>1, CallMoves DEF CallStands
<1> QED BY <1>5, <1>6

LEMMA SawStep ==
  ASSUME TheCalls, Kept, NEW w \in TableTurns, NEW seen \in Nat, Saw(w, seen),
         call[w].tool = "strike" => Exists(Head(call[w].targets)) /\ seen \in Hp,
         call[w].tool = "end_combat" => seen \in Bouts /\ bouts[seen].session = call[w].session
  PROVE  TheCalls'
<1> DEFINE r == [call[w] EXCEPT !.at = "write", !.seen = seen]
<1>1. call[w] \in ToolCall /\ CallStands(call[w])
  BY DEF TheCalls, CallsTyped
<1>2. /\ r \in ToolCall /\ r.tool = call[w].tool /\ r.targets = call[w].targets
      /\ r.campaign = call[w].campaign /\ r.session = call[w].session /\ r.seen = seen
  BY <1>1 DEF ToolCall
<1>3. call' = [call EXCEPT ![w] = r]
  BY DEF Saw
<1> HIDE DEF r
<1>4. CallStands(r)
  BY <1>1, <1>2 DEF CallStands
<1> QED BY <1>2, <1>3, <1>4, CallMoves

LEMMA StrikeStep ==
  ASSUME TableInv, NEW w \in TableTurns,
         WriteTarget(w) \/ \E effective \in 0..1, heals \in BOOLEAN : ReadTarget(w, effective, heals)
  PROVE  TableInv'
<1> DEFINE t == Head(call[w].targets)
<1> USE DEF TableInv
<1>1. CASE WriteTarget(w)
  <2>1. call[w].tool = "strike" /\ Exists(t) /\ call[w].seen \in Hp
    BY <1>1 DEF WriteTarget, Runs, TheCalls, CallStands
  <2>2. rows[t] \in TokenRow /\ t \in TokenNames
    BY <2>1 DEF TheFights, FightsTyped, Exists
  <2>3. [rows[t] EXCEPT !.hp = call[w].seen] \in TokenRow
        /\ [rows[t] EXCEPT !.hp = call[w].seen].bout = rows[t].bout
    BY <2>1, <2>2 DEF TokenRow
  <2>4. UNCHANGED <<heroed, bouts>> /\ NextTarget(w)
    BY <1>1 DEF WriteTarget
  <2>5. TheFights' /\ Kept
    <3>1. CASE MaySetHp(t)
      <4>1. Set(t, [rows[t] EXCEPT !.hp = call[w].seen])
        BY <1>1, <3>1 DEF WriteTarget
      <4>2. EnsureUnbound(t) /\ ~bouts[rows[t].bout].bound
        BY <2>1, <3>1 DEF MaySetHp, EnsureUnbound
      <4> QED BY <2>2, <2>3, <2>4, <4>1, <4>2, SetStep
    <3>2. CASE ~MaySetHp(t)
      BY <1>1, <2>4, <3>2, FightsWait DEF WriteTarget, TheFights, FightsTyped
    <3> QED BY <3>1, <3>2
  <2> QED BY <2>1, <2>4, <2>5, NextTargetStep
<1>2. ASSUME NEW effective \in 0..1, NEW heals \in BOOLEAN, ReadTarget(w, effective, heals)
      PROVE  TableInv'
  <2>1. call[w].tool = "strike" /\ UNCHANGED <<heroed, bouts, rows>>
    BY <1>2 DEF ReadTarget, Runs
  <2>2. TheFights' /\ Kept
    BY <2>1, FightsWait DEF TheFights, FightsTyped
  <2>3. CASE Exists(t)
    <3> DEFINE seen == IF heals THEN Healed(rows[t].hp) ELSE Damaged(rows[t].hp, effective)
    <3>1. rows[t].hp \in 0..FullHp
      BY <2>3 DEF TheFights, FightsTyped, TokenRow, Hp, Exists
    <3>2. seen \in Hp
      BY <3>1, TableAssumption DEF Healed, Damaged, Hp
    <3>3. Saw(w, seen)
      BY <1>2, <2>3 DEF ReadTarget
    <3> HIDE DEF seen
    <3>4. seen \in Nat
      BY <3>2, TableAssumption DEF Hp
    <3> QED BY <2>1, <2>2, <2>3, <3>2, <3>3, <3>4, SawStep
  <2>4. CASE ~Exists(t)
    BY <1>2, <2>1, <2>2, <2>4, NextTargetStep DEF ReadTarget
  <2> QED BY <2>3, <2>4
<1> QED BY <1>1, <1>2

LEMMA EndToolStep ==
  ASSUME TableInv, NEW w \in TableTurns, LookForFight(w) \/ EndTool(w)
  PROVE  TableInv'
<1> USE DEF TableInv
<1>1. CASE LookForFight(w)
  <2>1. call[w].tool = "end_combat" /\ UNCHANGED <<heroed, bouts, rows>>
    BY <1>1 DEF LookForFight, Runs
  <2>2. TheFights' /\ Kept
    BY <2>1, FightsWait DEF TheFights, FightsTyped
  <2>3. CASE FightsToEnd(w) = {}
    BY <1>1, <2>2, <2>3, CallEnds DEF LookForFight, Answers
  <2>4. CASE FightsToEnd(w) # {}
    <3> DEFINE b == Newest(FightsToEnd(w))
    <3>1. FightsToEnd(w) \subseteq Bouts /\ bouts \in Seq(Fight)
      BY DEF FightsToEnd, OpenIn, OpenBouts, TheFights, FightsTyped
    <3>2. b \in FightsToEnd(w)
      BY <2>4, <3>1, NewestIsOne
    <3>3. Saw(w, b)
      BY <1>1, <2>4 DEF LookForFight
    <3> HIDE DEF b
    <3>4. b \in Bouts /\ b \in Nat /\ bouts[b].session = call[w].session
      BY <3>1, <3>2 DEF FightsToEnd, OpenIn, Bouts
    <3> QED BY <2>1, <2>2, <3>3, <3>4, SawStep
  <2> QED BY <2>3, <2>4
<1>2. CASE EndTool(w)
  <2>1. call[w].seen \in Bouts
    BY <1>2 DEF EndTool, Runs, TheCalls, CallStands
  <2>2. heroed' = heroed /\ call' = [call EXCEPT ![w] = NoCall]
    BY <1>2 DEF EndTool, Answers
  <2>3. TheFights' /\ Kept
    <3>1. CASE EndFight(call[w].seen)
      BY <2>1, <2>2, <3>1, EndFightStep
    <3>2. CASE UNCHANGED <<bouts, rows>>
      BY <2>2, <3>2, FightsWait DEF TheFights, FightsTyped
    <3> QED BY <1>2, <3>1, <3>2 DEF EndTool
  <2> QED BY <2>2, <2>3, CallEnds
<1> QED BY <1>1, <1>2

(* The token tools write beside the bound fights.                          *)
LEMMA TokenToolStep ==
  ASSUME TableInv, NEW c \in TableCampaigns, NEW t \in Named, NEW hp \in Hp,
         (t \in Tokens /\ AddTool(c, t, hp)) \/ UpdateTool(c, t, hp) \/ RemoveTool(c, t)
  PROVE  TableInv'
<1> USE DEF TableInv
<1>1. t \in TokenNames /\ bouts \in Seq(Fight)
  BY DEF Named, TokenNames, TheFights, FightsTyped
<1>2. UNCHANGED <<heroed, bouts, call>>
  BY DEF AddTool, UpdateTool, RemoveTool
<1>3. ASSUME t \in Tokens, AddTool(c, t, hp) PROVE TheFights' /\ Kept
  <2> DEFINE b == Newest(OpenBouts)
             row == [bout |-> b, hp |-> hp, dead |-> FALSE]
  <2>1. b \in Bouts
    <3>1. OpenBouts \subseteq Bouts /\ OpenBouts # {}
      BY <1>3 DEF OpenBouts, AddTool
    <3> QED BY <1>1, <3>1, NewestIsOne
  <2>2. Set(t, row) /\ EnsureUnbound(t) /\ ~bouts[b].bound
    BY <1>3 DEF AddTool, MayAdd
  <2> HIDE DEF b
  <2>3. row \in TokenRow /\ row.bout = b
    BY <2>1 DEF TokenRow
  <2> HIDE DEF row
  <2> QED BY <1>1, <1>2, <2>2, <2>3, SetStep
<1>4. ASSUME UpdateTool(c, t, hp) \/ RemoveTool(c, t) PROVE TheFights' /\ Kept
  <2>1. EnsureUnbound(t) /\ rows[t] \in TokenRow /\ ~bouts[rows[t].bout].bound
    BY <1>4 DEF UpdateTool, RemoveTool, MayPatch, EnsureUnbound, Exists, TheFights, FightsTyped
  <2>2. ASSUME UpdateTool(c, t, hp) PROVE TheFights' /\ Kept
    <3>1. [rows[t] EXCEPT !.hp = hp] \in TokenRow /\ [rows[t] EXCEPT !.hp = hp].bout = rows[t].bout
      BY <2>1 DEF TokenRow
    <3>2. Set(t, [rows[t] EXCEPT !.hp = hp])
      BY <2>2 DEF UpdateTool
    <3> QED BY <1>1, <1>2, <2>1, <3>1, <3>2, SetStep
  <2>3. ASSUME RemoveTool(c, t) PROVE TheFights' /\ Kept
    <3>1. [rows[t] EXCEPT !.dead = TRUE] \in TokenRow
          /\ [rows[t] EXCEPT !.dead = TRUE].bout = rows[t].bout
      BY <2>1 DEF TokenRow
    <3>2. Set(t, [rows[t] EXCEPT !.dead = TRUE])
      BY <2>3 DEF RemoveTool
    <3> QED BY <1>1, <1>2, <2>1, <3>1, <3>2, SetStep
  <2> QED BY <1>4, <2>2, <2>3
<1> QED BY <1>2, <1>3, <1>4, CallsWait

-----------------------------------------------------------------------------
(* The invariant holds.                                                    *)
LEMMA TableInvInit == TableInit => TableInv
<1> SUFFICES ASSUME TableInit PROVE TableInv
  OBVIOUS
<1>1. Bouts = {} /\ bouts \in Seq(Fight) /\ Len(bouts) = 0
  BY DEF TableInit, Bouts
<1>2. DOMAIN rows = {} /\ rows \in [DOMAIN rows -> TokenRow]
  BY DEF TableInit
<1>3. TheFights
  BY <1>1, <1>2, TableAssumption DEF TableInit, TheFights, FightsTyped, RowsFollow,
     BoundByHeroes, BoundFightAlone, OpenBouts
<1>4. <<>> \in Seq(TokenNames)
  OBVIOUS
<1>5. NoCall \in ToolCall /\ CallStands(NoCall)
  BY <1>4 DEF NoCall, ToolCall, CallStands
<1>6. TheCalls
  BY <1>5 DEF TableInit, TheCalls, CallsTyped
<1> QED BY <1>3, <1>6 DEF TableInv

LEMMA TableInvStep ==
  ASSUME TableInv, [TableNext]_tableVars
  PROVE  TableInv'
<1> USE DEF TableInv
<1>1. CASE UNCHANGED tableVars
  BY <1>1, FightsWait, CallsWait DEF tableVars, TheFights, FightsTyped
<1>2. ASSUME NEW c \in TableCampaigns, CommitHero(c) PROVE TableInv'
  BY <1>2, FightsWait, CallsWait DEF CommitHero, TheFights, FightsTyped
<1>3. ASSUME NEW c \in TableCampaigns, NEW t \in Tokens, ScreenStarts(c, t) PROVE TableInv'
  BY <1>3, CreateStep, CallsWait DEF ScreenStarts
<1>4. ASSUME NEW c \in TableCampaigns, NEW s \in TableCampaigns, StartTool(c, s) PROVE TableInv'
  BY <1>4, CreateStep, CallsWait DEF StartTool
<1>5. ASSUME NEW b \in Bouts, ScreenEnds(b) PROVE TableInv'
  BY <1>5, EndFightStep, CallsWait DEF ScreenEnds
<1>6. ASSUME NEW b \in Bouts, NEW t \in DOMAIN bouts[b].body, NEW hp \in 0..FullHp,
             ScreenActs(b, t, hp) \/ \E c \in TableCampaigns : IntentionTool(c, b, t, hp)
      PROVE  TableInv'
  <2>1. ActIn(b, t, hp) /\ UNCHANGED <<heroed, call>>
    BY <1>6 DEF ScreenActs, IntentionTool
  <2> QED BY <2>1, ActStep, CallsWait DEF Hp
<1>7. ASSUME NEW c \in TableCampaigns, NEW t \in Named, RemoveTool(c, t) PROVE TableInv'
  <2>1. 0 \in Hp
    BY TableAssumption DEF Hp
  <2> QED BY <1>7, <2>1, TokenToolStep
<1>8. ASSUME NEW c \in TableCampaigns, NEW t \in Named, NEW hp \in 0..FullHp,
             (t \in Tokens /\ AddTool(c, t, hp)) \/ UpdateTool(c, t, hp)
      PROVE  TableInv'
  BY <1>8, TokenToolStep DEF Hp
<1>9. ASSUME NEW w \in TableTurns, NEW c \in TableCampaigns, NEW s \in TableCampaigns,
             \/ Takes(w, c, s, "end_combat", <<>>)
             \/ \E t \in Named : Takes(w, c, s, "strike", <<t>>)
             \/ \E t, u \in Tokens : Takes(w, c, s, "strike", <<u, t>>)
      PROVE  TableInv'
  <2>1. Named \subseteq TokenNames /\ Tokens \subseteq TokenNames
    BY DEF Named, TokenNames, TheFights, FightsTyped
  <2>2. <<>> \in Seq(TokenNames)
    OBVIOUS
  <2>3. ASSUME NEW t \in Named, Takes(w, c, s, "strike", <<t>>) PROVE TableInv'
    <3>1. <<t>> \in Seq(TokenNames)
      BY <2>1
    <3> QED BY <2>3, <3>1, TakeStep
  <2>4. ASSUME NEW t \in Tokens, NEW u \in Tokens, Takes(w, c, s, "strike", <<u, t>>)
        PROVE  TableInv'
    <3>1. <<u, t>> \in Seq(TokenNames)
      BY <2>1
    <3> QED BY <2>4, <3>1, TakeStep
  <2> QED BY <1>9, <2>2, <2>3, <2>4, TakeStep
<1>10. ASSUME NEW w \in TableTurns, Dropped(w) PROVE TableInv'
  BY <1>10, FightsWait, CallEnds DEF Dropped, Answers, TheFights, FightsTyped
<1> QED
  BY <1>1, <1>2, <1>3, <1>4, <1>5, <1>6, <1>7, <1>8, <1>9, <1>10, StrikeStep, EndToolStep
  DEF TableNext

(* The rows of a bound fight are its projection whatever tools, screens    *)
(* and crashes do in between; the tool that ends a fight ends one of its   *)
(* own campaign; and a fight a hero joined is alone in its session.        *)
THEOREM TableIsKept == TableSpec => []TableHolds
<1>1. TableInv => BoundTokensFollow
  <2> SUFFICES ASSUME TableInv, NEW b \in Bouts, bouts[b].bound
               PROVE  /\ {t \in DOMAIN rows : rows[t].bout = b} = DOMAIN bouts[b].body
                      /\ \A t \in DOMAIN bouts[b].body :
                            [hp |-> rows[t].hp, dead |-> rows[t].dead] = bouts[b].body[t]
    BY DEF BoundTokensFollow
  <2>1. {t \in DOMAIN rows : rows[t].bout = b} = DOMAIN bouts[b].body
    BY DEF TableInv, TheFights, RowsFollow
  <2>2. ASSUME NEW t \in DOMAIN bouts[b].body
        PROVE  [hp |-> rows[t].hp, dead |-> rows[t].dead] = bouts[b].body[t]
    <3>1. bouts[b].body[t] \in Body
      BY FightParts DEF TableInv, TheFights, FightsTyped
    <3>2. bouts[b].body[t] = [hp |-> bouts[b].body[t].hp, dead |-> bouts[b].body[t].dead]
      BY <3>1 DEF Body
    <3> QED BY <3>2 DEF TableInv, TheFights, RowsFollow
  <2> QED BY <2>1, <2>2
<1>2. TableInv => EndsOwnFight /\ BoundFightAlone
  BY DEF TableInv, TheFights, TheCalls, CallStands, EndsOwnFight, Runs, Owns
<1> QED BY <1>1, <1>2, TableInvInit, TableInvStep, PTL DEF TableSpec, TableHolds
=============================================================================

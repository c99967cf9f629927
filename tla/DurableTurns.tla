---------------------------- MODULE DurableTurns ----------------------------
(***************************************************************************)
(* Durable delivery of solo AI turns in one campaign.                      *)
(*                                                                         *)
(* An HTTP attempt (a client posting a request id, fresh or with           *)
(* resume=true) waits for the campaign lane, claims or resumes the         *)
(* operation in SQLite, binds the execution environment and hands the lane *)
(* to a worker.  The worker pulls events out of the engine, appends them   *)
(* to the durable log, forwards them to the client, settles the operation  *)
(* and only then sends the terminal event.  The process may die at any     *)
(* moment, every transaction may fail, the client may vanish at any        *)
(* moment, and a restore or a replaced hero may change the timeline        *)
(* whenever nobody holds the lane.                                         *)
(*                                                                         *)
(* Abstractions.  The events of the engine are "tool" (a tool start, media *)
(* or result: what a resume keeps), "text" (narration and reasoning: what  *)
(* a resume drops), "done" and "input" (the two terminal events); the      *)
(* engine itself and the repair of single tool events are the subject of   *)
(* ToolCheckpoints.  A request body never changes under its id: the        *)
(* mismatch rejection changes no state.                                    *)
(***************************************************************************)
EXTENDS Naturals, Sequences, FiniteSets

CONSTANTS
  Requests,      \* request ids a renderer invented
  Attempts,      \* slots for HTTP calls that may be open at the same time
  Envs,          \* provider origin and model pairs a server can be configured with
  Heroes,        \* accepted characters of the campaign
  Nobody,        \* the lane is free
  Unbound,       \* execution_model IS NULL
  MaxBoots,      \* bound: how often the backend process is started
  MaxTimelines,  \* bound: how often a save is restored
  MaxEvents      \* bound: public events of one turn before its terminal one

ASSUME ConstantsOK ==
  /\ Nobody \notin Attempts
  /\ Unbound \notin Envs
  /\ Requests # {} /\ Envs # {}
  /\ MaxBoots \in Nat /\ MaxTimelines \in Nat /\ MaxEvents \in Nat

VARIABLES
  \* agent_turn_operations, agent_turn_events
  status, owner, generation, actor, environment, log,
  \* sessions.restore_generation, campaign_characters.character_id
  timeline, hero,
  \* the backend process and the lane of the campaign
  up, boot, lane,
  \* one HTTP attempt: where it is, what it asked, what its client received
  pc, req, resuming, env, connected, seen,
  \* the worker an attempt turned into
  engine, chan, sequence, cancelled, recording, terminal

dbVars      == <<status, owner, generation, actor, environment, log>>
worldVars   == <<timeline, hero>>
processVars == <<up, boot>>
askVars     == <<req, resuming, env>>
workerVars  == <<engine, chan, sequence, cancelled, recording, terminal>>
vars == <<dbVars, worldVars, processVars, lane, pc, askVars, connected, seen, workerVars>>

Event     == {"tool", "text", "done", "input"}
Terminals == {"done", "input"}
Status    == {"none", "running", "interrupted", "complete"}
Phase     == {"idle", "waiting", "claiming", "binding", "rebinding",
              "working", "delivering", "replaying"}

RecordType ==
  /\ status \in [Requests -> Status]
  /\ owner \in [Requests -> Nat]
  /\ generation \in [Requests -> Nat]
  /\ actor \in [Requests -> Heroes]
  /\ environment \in [Requests -> Envs \cup {Unbound}]
  /\ log \in [Requests -> Seq(Event)]

ProcessType ==
  /\ timeline \in Nat /\ hero \in Heroes
  /\ up \in BOOLEAN /\ boot \in Nat
  /\ lane \in Attempts \cup {Nobody}

AttemptType ==
  /\ pc \in [Attempts -> Phase]
  /\ req \in [Attempts -> Requests]
  /\ resuming \in [Attempts -> BOOLEAN]
  /\ env \in [Attempts -> Envs]
  /\ connected \in [Attempts -> BOOLEAN]
  /\ seen \in [Attempts -> Seq(Event \cup {"failed"})]

WorkerType ==
  /\ engine \in [Attempts -> {"off", "running", "ok", "failed"}]
  /\ chan \in [Attempts -> Seq(Event)]
  /\ sequence \in [Attempts -> Nat]
  /\ cancelled \in [Attempts -> BOOLEAN]
  /\ recording \in [Attempts -> BOOLEAN]
  /\ terminal \in [Attempts -> Terminals \cup {"none", "failed"}]

TypeOK == RecordType /\ ProcessType /\ AttemptType /\ WorkerType

Init ==
  /\ status = [r \in Requests |-> "none"]
  /\ owner = [r \in Requests |-> 0]
  /\ generation = [r \in Requests |-> 0]
  /\ environment = [r \in Requests |-> Unbound]
  /\ log = [r \in Requests |-> <<>>]
  /\ timeline = 0 /\ hero \in Heroes
  /\ actor = [r \in Requests |-> hero]
  /\ up = TRUE /\ boot = 1
  /\ lane = Nobody
  /\ pc = [a \in Attempts |-> "idle"]
  /\ req = [a \in Attempts |-> CHOOSE r \in Requests : TRUE]
  /\ resuming = [a \in Attempts |-> FALSE]
  /\ env = [a \in Attempts |-> CHOOSE e \in Envs : TRUE]
  /\ connected = [a \in Attempts |-> FALSE]
  /\ seen = [a \in Attempts |-> <<>>]
  /\ engine = [a \in Attempts |-> "off"]
  /\ chan = [a \in Attempts |-> <<>>]
  /\ sequence = [a \in Attempts |-> 0]
  /\ cancelled = [a \in Attempts |-> FALSE]
  /\ recording = [a \in Attempts |-> TRUE]
  /\ terminal = [a \in Attempts |-> "none"]

-----------------------------------------------------------------------------
(* The phases in which an attempt, or the worker it became, owns the lane.  *)
Holding(a) == pc[a] \in {"claiming", "binding", "rebinding", "working", "delivering"}

(* The scope an operation is pinned to is still the current one.            *)
InScope(r) == generation[r] = timeline /\ actor[r] = hero

(* The stored response ends in its terminal marker.                         *)
EndsDone(l) == l # <<>> /\ l[Len(l)] = "done"

(* A mutant: the interrupted log is taken over unrepaired.                  *)
UnrepairedLogs(l) == {l}

(* The logs a resume may leave behind: every retained tool event of the     *)
(* interrupted log, and those the transcript proves but delivery missed.    *)
RepairedLogs(l) ==
  {[i \in 1..n |-> "tool"] :
     n \in Cardinality({i \in DOMAIN l : l[i] = "tool"})..MaxEvents}

(* The handler answers with an error, or is dropped: the lane guard goes.   *)
GiveUp(a) ==
  /\ pc' = [pc EXCEPT ![a] = "idle"]
  /\ connected' = [connected EXCEPT ![a] = FALSE]
  /\ lane' = IF lane = a THEN Nobody ELSE lane

-----------------------------------------------------------------------------
(* An HTTP request arrives; its environment is read before the lane wait.   *)
Post(a, r, again, e) ==
  /\ up /\ pc[a] = "idle"
  /\ pc' = [pc EXCEPT ![a] = "waiting"]
  /\ req' = [req EXCEPT ![a] = r]
  /\ resuming' = [resuming EXCEPT ![a] = again]
  /\ env' = [env EXCEPT ![a] = e]
  /\ connected' = [connected EXCEPT ![a] = TRUE]
  /\ seen' = [seen EXCEPT ![a] = <<>>]
  /\ UNCHANGED <<dbVars, worldVars, processVars, lane, workerVars>>

Acquire(a) ==
  /\ pc[a] = "waiting" /\ lane = Nobody
  /\ lane' = a
  /\ pc' = [pc EXCEPT ![a] = "claiming"]
  /\ UNCHANGED <<dbVars, worldVars, processVars, askVars, connected, seen, workerVars>>

(* No record under this id, whichever mode was asked: the turn starts.      *)
ClaimNew(a) ==
  LET r == req[a] IN
  /\ pc[a] = "claiming" /\ status[r] = "none"
  /\ status' = [status EXCEPT ![r] = "running"]
  /\ owner' = [owner EXCEPT ![r] = boot]
  /\ generation' = [generation EXCEPT ![r] = timeline]
  /\ actor' = [actor EXCEPT ![r] = hero]
  /\ pc' = [pc EXCEPT ![a] = "binding"]
  /\ UNCHANGED <<environment, log, worldVars, processVars, lane, askVars, connected, seen, workerVars>>

(* A complete record is replayed; the lane is dropped before delivery.      *)
ClaimCompleted(a) ==
  /\ pc[a] = "claiming" /\ status[req[a]] = "complete"
  /\ pc' = [pc EXCEPT ![a] = "replaying"]
  /\ lane' = Nobody
  /\ UNCHANGED <<dbVars, worldVars, processVars, askVars, connected, seen, workerVars>>

(* A mutant: the timeline and the hero are not compared.                    *)
ClaimInterruptedAnywhere(a) ==
  LET r == req[a] IN
  /\ pc[a] = "claiming" /\ status[r] = "interrupted" /\ resuming[a]
  /\ \E kept \in RepairedLogs(log[r]) : log' = [log EXCEPT ![r] = kept]
  /\ status' = [status EXCEPT ![r] = "running"]
  /\ owner' = [owner EXCEPT ![r] = boot]
  /\ pc' = [pc EXCEPT ![a] = "rebinding"]
  /\ UNCHANGED <<generation, actor, environment, worldVars, processVars, lane,
                 askVars, connected, seen, workerVars>>

(* An interrupted record of the current scope is taken over and repaired.   *)
ClaimInterrupted(a) ==
  LET r == req[a] IN
  /\ pc[a] = "claiming" /\ status[r] = "interrupted"
  /\ resuming[a] /\ InScope(r)
  /\ \E kept \in RepairedLogs(log[r]) : log' = [log EXCEPT ![r] = kept]
  /\ status' = [status EXCEPT ![r] = "running"]
  /\ owner' = [owner EXCEPT ![r] = boot]
  /\ pc' = [pc EXCEPT ![a] = "rebinding"]
  /\ UNCHANGED <<generation, actor, environment, worldVars, processVars, lane,
                 askVars, connected, seen, workerVars>>

(* agent_turn_running, agent_turn_interrupted, agent_turn_superseded, or a  *)
(* transaction that failed: the attempt is answered with an error.          *)
ClaimRefused(a) ==
  /\ pc[a] = "claiming"
  /\ GiveUp(a)
  /\ UNCHANGED <<dbVars, worldVars, processVars, askVars, seen, workerVars>>

(* The task is spawned right after bind_environment returns: recovered      *)
(* events go out first and the recorder continues behind them.              *)
Spawn(a) ==
  /\ pc' = [pc EXCEPT ![a] = "working"]
  /\ engine' = [engine EXCEPT ![a] = "running"]
  /\ chan' = [chan EXCEPT ![a] = <<>>]
  /\ sequence' = [sequence EXCEPT ![a] = Len(log[req[a]])]
  /\ cancelled' = [cancelled EXCEPT ![a] = FALSE]
  /\ recording' = [recording EXCEPT ![a] = TRUE]
  /\ terminal' = [terminal EXCEPT ![a] = "none"]
  /\ seen' = [seen EXCEPT ![a] = log[req[a]]]

Bind(a) ==
  LET r == req[a] IN
  /\ pc[a] = "binding"
  /\ status[r] = "running" /\ owner[r] = boot
  /\ environment' = [environment EXCEPT ![r] = IF @ = Unbound THEN env[a] ELSE @]
  /\ Spawn(a)
  /\ UNCHANGED <<status, owner, generation, actor, log, worldVars, processVars,
                 lane, askVars, connected>>

(* A mutant: a resume goes on in whatever environment is configured now.    *)
RebindUnchecked(a) ==
  LET r == req[a] IN
  /\ pc[a] = "rebinding"
  /\ status[r] = "running" /\ owner[r] = boot
  /\ Spawn(a)
  /\ UNCHANGED <<dbVars, worldVars, processVars, lane, askVars, connected>>

Rebind(a) ==
  LET r == req[a] IN
  /\ pc[a] = "rebinding"
  /\ status[r] = "running" /\ owner[r] = boot
  /\ environment[r] = env[a]
  /\ Spawn(a)
  /\ UNCHANGED <<dbVars, worldVars, processVars, lane, askVars, connected>>

(* A mutant: the record gets a status that no claim knows.                  *)
BindRefusedFails(a) ==
  /\ pc[a] \in {"binding", "rebinding"}
  /\ status' = [status EXCEPT ![req[a]] = "failed"]
  /\ GiveUp(a)
  /\ UNCHANGED <<owner, generation, actor, environment, log, worldVars, processVars,
                 askVars, seen, workerVars>>

(* The environment cannot be bound (it changed, it was never recorded, or   *)
(* the transaction failed): finish(complete = false), which may fail too.   *)
BindRefused(a) ==
  LET r == req[a] IN
  /\ pc[a] \in {"binding", "rebinding"}
  /\ \/ /\ status[r] = "running" /\ owner[r] = boot
        /\ status' = [status EXCEPT ![r] = "interrupted"]
     \/ UNCHANGED status
  /\ GiveUp(a)
  /\ UNCHANGED <<owner, generation, actor, environment, log, worldVars, processVars,
                 askVars, seen, workerVars>>

(* The server drops the handler of a closed connection at an await point.   *)
Drop(a) ==
  /\ pc[a] \in {"waiting", "claiming", "binding", "rebinding"}
  /\ GiveUp(a)
  /\ UNCHANGED <<dbVars, worldVars, processVars, askVars, seen, workerVars>>

(* The client of a spawned stream goes away; the task goes on.              *)
Disconnect(a) ==
  /\ pc[a] \in {"working", "delivering", "replaying"} /\ connected[a]
  /\ connected' = [connected EXCEPT ![a] = FALSE]
  /\ UNCHANGED <<dbVars, worldVars, processVars, lane, pc, askVars, seen, workerVars>>

-----------------------------------------------------------------------------
(* The engine publishes one event, its last one, or fails.                  *)
EngineEmits(a, e) ==
  /\ pc[a] = "working" /\ engine[a] = "running" /\ recording[a]
  /\ e \in Event \ Terminals
  /\ Len(log[req[a]]) + Len(chan[a]) < MaxEvents
  /\ chan' = [chan EXCEPT ![a] = Append(@, e)]
  /\ UNCHANGED <<dbVars, worldVars, processVars, lane, pc, askVars, connected, seen,
                 engine, sequence, cancelled, recording, terminal>>

EngineEnds(a, e) ==
  /\ pc[a] = "working" /\ engine[a] = "running" /\ recording[a]
  /\ e \in Terminals
  /\ chan' = [chan EXCEPT ![a] = Append(@, e)]
  /\ engine' = [engine EXCEPT ![a] = "ok"]
  /\ UNCHANGED <<dbVars, worldVars, processVars, lane, pc, askVars, connected, seen,
                 sequence, cancelled, recording, terminal>>

EngineFails(a) ==
  /\ pc[a] = "working" /\ engine[a] = "running"
  /\ engine' = [engine EXCEPT ![a] = "failed"]
  /\ UNCHANGED <<dbVars, worldVars, processVars, lane, pc, askVars, connected, seen,
                 chan, sequence, cancelled, recording, terminal>>

(* append_event commits; a terminal event is withheld from the client.      *)
Record(a) ==
  LET r == req[a]
      e == Head(chan[a]) IN
  /\ pc[a] = "working" /\ recording[a] /\ chan[a] # <<>>
  /\ status[r] = "running" /\ owner[r] = boot
  /\ sequence[a] = Len(log[r])
  /\ log' = [log EXCEPT ![r] = Append(@, e)]
  /\ sequence' = [sequence EXCEPT ![a] = @ + 1]
  /\ chan' = [chan EXCEPT ![a] = Tail(@)]
  /\ IF e \in Terminals
     THEN /\ terminal' = [terminal EXCEPT ![a] = e]
          /\ UNCHANGED <<seen, cancelled>>
     ELSE /\ seen' = [seen EXCEPT ![a] = IF connected[a] THEN Append(@, e) ELSE @]
          /\ cancelled' = [cancelled EXCEPT ![a] = @ \/ ~connected[a]]
          /\ UNCHANGED terminal
  /\ UNCHANGED <<status, owner, generation, actor, environment, worldVars, processVars,
                 lane, pc, askVars, connected, engine, recording>>

(* append_event is rejected or its transaction fails: nothing is recorded   *)
(* from here on and the engine's receiver is gone.                          *)
RecordFails(a) ==
  /\ pc[a] = "working" /\ recording[a] /\ chan[a] # <<>>
  /\ recording' = [recording EXCEPT ![a] = FALSE]
  /\ cancelled' = [cancelled EXCEPT ![a] = TRUE]
  /\ chan' = [chan EXCEPT ![a] = <<>>]
  /\ UNCHANGED <<dbVars, worldVars, processVars, lane, pc, askVars, connected, seen,
                 engine, sequence, terminal>>

(* A mutant: a closed connection is only noticed at the next event.         *)
NoticeDisconnectLate(a) ==
  /\ pc[a] = "working" /\ ~connected[a] /\ ~cancelled[a] /\ recording[a]
  /\ chan[a] # <<>>
  /\ cancelled' = [cancelled EXCEPT ![a] = TRUE]
  /\ UNCHANGED <<dbVars, worldVars, processVars, lane, pc, askVars, connected, seen,
                 engine, chan, sequence, recording, terminal>>

(* sender.closed() wakes the recorder even while no event arrives.          *)
NoticeDisconnect(a) ==
  /\ pc[a] = "working" /\ ~connected[a] /\ ~cancelled[a] /\ recording[a]
  /\ cancelled' = [cancelled EXCEPT ![a] = TRUE]
  /\ UNCHANGED <<dbVars, worldVars, processVars, lane, pc, askVars, connected, seen,
                 engine, chan, sequence, recording, terminal>>

Settleable(a) == pc[a] = "working" /\ engine[a] \in {"ok", "failed"} /\ chan[a] = <<>>

Succeeded(a) == recording[a] /\ engine[a] = "ok" /\ terminal[a] \in Terminals

(* finish(complete) commits; what is left to send is decided by it.         *)
Settle(a) ==
  LET r == req[a]
      complete == Succeeded(a) /\ terminal[a] = "done" IN
  /\ Settleable(a)
  /\ complete => EndsDone(log[r])
  /\ status[r] = "running" /\ owner[r] = boot
  /\ status' = [status EXCEPT ![r] = IF complete THEN "complete" ELSE "interrupted"]
  /\ terminal' = [terminal EXCEPT ![a] = IF Succeeded(a) THEN @ ELSE "failed"]
  /\ pc' = [pc EXCEPT ![a] = "delivering"]
  /\ UNCHANGED <<owner, generation, actor, environment, log, worldVars, processVars, lane,
                 askVars, connected, seen, engine, chan, sequence, cancelled, recording>>

(* A mutant: the terminal event is sent although finish failed.             *)
SettleFailsQuietly(a) ==
  /\ Settleable(a)
  /\ pc' = [pc EXCEPT ![a] = "delivering"]
  /\ UNCHANGED <<dbVars, worldVars, processVars, lane, askVars, connected, seen,
                 engine, chan, sequence, cancelled, recording, terminal>>

(* finish is rejected or fails: the record stays as it was.                 *)
SettleFails(a) ==
  /\ Settleable(a)
  /\ terminal' = [terminal EXCEPT ![a] = "failed"]
  /\ pc' = [pc EXCEPT ![a] = "delivering"]
  /\ UNCHANGED <<dbVars, worldVars, processVars, lane, askVars, connected, seen,
                 engine, chan, sequence, cancelled, recording>>

(* A mutant: the lane guard is not part of the task.                        *)
DeliverKeepsLane(a) ==
  /\ pc[a] = "delivering"
  /\ seen' = [seen EXCEPT ![a] = IF connected[a] THEN Append(@, terminal[a]) ELSE @]
  /\ engine' = [engine EXCEPT ![a] = "off"]
  /\ terminal' = [terminal EXCEPT ![a] = "none"]
  /\ pc' = [pc EXCEPT ![a] = "idle"]
  /\ UNCHANGED <<dbVars, worldVars, processVars, lane, askVars, connected, chan,
                 sequence, cancelled, recording>>

(* The terminal event (or agent_failed) is sent and the task ends: only now *)
(* does the lane go back.                                                   *)
Deliver(a) ==
  /\ pc[a] = "delivering"
  /\ seen' = [seen EXCEPT ![a] = IF connected[a] THEN Append(@, terminal[a]) ELSE @]
  /\ engine' = [engine EXCEPT ![a] = "off"]
  /\ terminal' = [terminal EXCEPT ![a] = "none"]
  /\ sequence' = [sequence EXCEPT ![a] = 0]
  /\ cancelled' = [cancelled EXCEPT ![a] = FALSE]
  /\ recording' = [recording EXCEPT ![a] = TRUE]
  /\ GiveUp(a)
  /\ UNCHANGED <<dbVars, worldVars, processVars, askVars, chan>>

Replay(a) ==
  /\ pc[a] = "replaying"
  /\ seen' = [seen EXCEPT ![a] = IF connected[a] THEN log[req[a]] ELSE @]
  /\ GiveUp(a)
  /\ UNCHANGED <<dbVars, worldVars, processVars, askVars, workerVars>>

-----------------------------------------------------------------------------
(* A mutant: a restore does not wait for the lane.                          *)
RestoreSnapshotAnytime ==
  /\ up /\ timeline < MaxTimelines
  /\ timeline' = timeline + 1
  /\ UNCHANGED <<dbVars, hero, processVars, lane, pc, askVars, connected, seen, workerVars>>

(* A save is restored under the lane: a new timeline begins.                *)
RestoreSnapshot ==
  /\ up /\ lane = Nobody /\ timeline < MaxTimelines
  /\ timeline' = timeline + 1
  /\ UNCHANGED <<dbVars, hero, processVars, lane, pc, askVars, connected, seen, workerVars>>

(* Another accepted character takes over the campaign, under the lane.      *)
ReplaceHero ==
  /\ up /\ lane = Nobody
  /\ \E h \in Heroes \ {hero} : hero' = h
  /\ UNCHANGED <<dbVars, timeline, processVars, lane, pc, askVars, connected, seen, workerVars>>

Crash ==
  /\ up
  /\ up' = FALSE
  /\ lane' = Nobody
  /\ pc' = [a \in Attempts |-> "idle"]
  /\ connected' = [a \in Attempts |-> FALSE]
  /\ engine' = [a \in Attempts |-> "off"]
  /\ chan' = [a \in Attempts |-> <<>>]
  /\ sequence' = [a \in Attempts |-> 0]
  /\ cancelled' = [a \in Attempts |-> FALSE]
  /\ recording' = [a \in Attempts |-> TRUE]
  /\ terminal' = [a \in Attempts |-> "none"]
  /\ UNCHANGED <<dbVars, worldVars, boot, askVars, seen>>

(* A mutant: every record of another process is interrupted.                *)
BootForgetsReceipts ==
  /\ ~up /\ boot < MaxBoots
  /\ up' = TRUE /\ boot' = boot + 1
  /\ status' = [r \in Requests |-> IF status[r] = "none" THEN "none" ELSE "interrupted"]
  /\ UNCHANGED <<owner, generation, actor, environment, log, worldVars, lane, pc, askVars,
                 connected, seen, workerVars>>

(* A new process took the OS lock: what the dead one ran is interrupted.    *)
Boot ==
  /\ ~up /\ boot < MaxBoots
  /\ up' = TRUE /\ boot' = boot + 1
  /\ status' = [r \in Requests |->
        IF status[r] = "running" /\ owner[r] # boot + 1 THEN "interrupted" ELSE status[r]]
  /\ UNCHANGED <<owner, generation, actor, environment, log, worldVars, lane, pc, askVars,
                 connected, seen, workerVars>>

Recorder(a) == Record(a) \/ RecordFails(a) \/ NoticeDisconnect(a)
               \/ Settle(a) \/ SettleFails(a) \/ Deliver(a) \/ Replay(a)

Handler(a) == Acquire(a) \/ ClaimNew(a) \/ ClaimCompleted(a) \/ ClaimInterrupted(a)
              \/ ClaimRefused(a) \/ Bind(a) \/ Rebind(a) \/ BindRefused(a)

Engine(a) == (\E e \in Event : EngineEmits(a, e) \/ EngineEnds(a, e)) \/ EngineFails(a)

Client(a) == (\E r \in Requests, again \in BOOLEAN, e \in Envs : Post(a, r, again, e))
             \/ Drop(a) \/ Disconnect(a)

Next ==
  \/ \E a \in Attempts : Client(a) \/ Handler(a) \/ Engine(a) \/ Recorder(a)
  \/ RestoreSnapshot \/ ReplaceHero \/ Crash \/ Boot

Spec == Init /\ [][Next]_vars

(* What keeps running.  Tasks are polled and transactions end, so the steps *)
(* of a handler and of a recorder are weakly fair; the lane is a tokio      *)
(* Mutex, which serves its waiters in order, so nobody waiting is passed    *)
(* over for ever.  The engine promises only to stop once it is cancelled:   *)
(* a provider may otherwise keep it waiting indefinitely.  Clients, crashes *)
(* and restores promise nothing.                                            *)
Fairness ==
  \A a \in Attempts :
    /\ WF_vars(Handler(a))
    /\ SF_vars(Acquire(a))
    /\ WF_vars(Recorder(a))
    /\ WF_vars(cancelled[a] /\ EngineFails(a))

(* A provider that always answers in the end.                               *)
ProviderAnswers == \A a \in Attempts : WF_vars(EngineFails(a) \/ \E e \in Terminals : EngineEnds(a, e))

FairSpec == Spec /\ Fairness

-----------------------------------------------------------------------------
Told(a) == EndsDone(seen[a])

(* A client that saw agent_done holds exactly the durable log of a complete *)
(* operation: the terminal marker is sent only after the receipt commits,   *)
(* and neither a disconnect, a failed append, a repair nor a replay makes   *)
(* the delivered stream differ from the recorded one.                       *)
TerminalAfterReceipt ==
  \A a \in Attempts : Told(a) => status[req[a]] = "complete" /\ seen[a] = log[req[a]]

(* An engine that may still produce effects runs under the lane, for an     *)
(* operation this process owns, on the timeline and for the hero it was     *)
(* claimed with: no restore or hero change slips between claim and effect.  *)
WorkerOwnsTimeline ==
  \A a \in Attempts : pc[a] = "working" =>
    /\ lane = a
    /\ status[req[a]] = "running" /\ owner[req[a]] = boot
    /\ InScope(req[a])

(* Whatever the settings are by now, one operation is only ever executed    *)
(* with the environment its record was first bound to.                      *)
OneEnvironment ==
  \A a \in Attempts : pc[a] = "working" => environment[req[a]] = env[a]

(* The engine acts in the scope its operation was claimed for, whatever     *)
(* happens to the lane, the timeline, the party or the settings meanwhile.  *)
EngineWhereClaimed == WorkerOwnsTimeline /\ OneEnvironment

(* A completed operation never changes again: later attempts under its id   *)
(* can only replay the log that was recorded.                               *)
ReceiptFrozen ==
  [][\A r \in Requests : status[r] = "complete" =>
        /\ status'[r] = "complete"
        /\ log'[r] = log[r]
        /\ owner'[r] = owner[r]]_vars

(* An interrupted operation whose timeline or hero is gone is left exactly  *)
(* as it is: no attempt can take it over or rewrite its log.                *)
OldTimelineFrozen ==
  [][\A r \in Requests : status[r] = "interrupted" /\ ~InScope(r) =>
        status'[r] = "interrupted" /\ log'[r] = log[r]]_vars

(* What is over stays as it was, whoever asks again and whatever restarts.  *)
HistoryFrozen == ReceiptFrozen /\ OldTimelineFrozen

(* A client that leaves a running turn frees the lane of its campaign, even *)
(* if the provider never says another word.                                 *)
DisconnectFreesLane ==
  \A a \in Attempts : (pc[a] = "working" /\ ~connected[a]) ~> (lane # a)

(* With a provider that answers, an attempt waiting for the lane is served  *)
(* in the end (or its process died, or its client left).                    *)
WaitingIsServed ==
  ProviderAnswers => \A a \in Attempts : (pc[a] = "waiting") ~> (pc[a] # "waiting")

(* docs/AI_TURN_RECOVERY.md: "running: the current process still owns       *)
(* delivery", next action "Wait".                                           *)
RunningIsDelivered ==
  \A r \in Requests : up /\ status[r] = "running" =>
    \E a \in Attempts : lane = a /\ req[a] = r /\ Holding(a)

(* docs/AI_TURN_RECOVERY.md: only legacy records lack the origin metadata   *)
(* that a resume needs; a new operation captures it before inference.       *)
InterruptedKeepsOrigin ==
  \A r \in Requests : status[r] = "interrupted" => environment[r] # Unbound

-----------------------------------------------------------------------------
(* The inductive invariant behind TerminalAfterReceipt, WorkerOwnsTimeline  *)
(* and OneEnvironment.                                                      *)
LaneInv ==
  \A a \in Attempts :
    /\ Holding(a) => lane = a
    /\ pc[a] # "idle" => up

RecordInv ==
  \A r \in Requests :
    /\ status[r] = "none" => log[r] = <<>> /\ environment[r] = Unbound
    /\ status[r] = "complete" => EndsDone(log[r])

(* From its claim to its receipt an operation belongs to the lane holder.   *)
ClaimInv ==
  \A a \in Attempts :
    /\ pc[a] \in {"binding", "rebinding", "working"} =>
         /\ status[req[a]] = "running" /\ owner[req[a]] = boot
         /\ InScope(req[a])
    /\ pc[a] = "binding" => environment[req[a]] = Unbound
    /\ pc[a] \in {"binding", "rebinding"} => ~EndsDone(log[req[a]])
    /\ pc[a] = "working" => environment[req[a]] = env[a]
    /\ pc[a] = "replaying" => status[req[a]] = "complete"

(* A terminal event is the last one the engine publishes, and the last one  *)
(* the recorder takes out of the channel.                                   *)
ChannelInv ==
  \A a \in Attempts : pc[a] = "working" =>
    /\ \A i \in 1..Len(chan[a]) :
         chan[a][i] \in Terminals => i = Len(chan[a]) /\ engine[a] = "ok"
    /\ terminal[a] # "none" =>
         /\ terminal[a] \in Terminals
         /\ engine[a] = "ok" /\ chan[a] = <<>>

(* While a client listens, it has all of the log but the withheld terminal. *)
StreamInv ==
  \A a \in Attempts :
    /\ pc[a] # "idle" => ~Told(a)
    /\ pc[a] = "working" =>
         /\ recording[a] => sequence[a] = Len(log[req[a]])
         /\ terminal[a] = "none" =>
              /\ ~EndsDone(log[req[a]])
              /\ connected[a] => seen[a] = log[req[a]]
         /\ terminal[a] # "none" =>
              /\ terminal[a] = "done" => EndsDone(log[req[a]])
              /\ connected[a] => log[req[a]] = Append(seen[a], terminal[a])
    /\ pc[a] = "delivering" /\ terminal[a] = "done" =>
         /\ status[req[a]] = "complete"
         /\ connected[a] => log[req[a]] = Append(seen[a], "done")

DeliveryInv ==
  /\ LaneInv /\ RecordInv /\ ClaimInv /\ ChannelInv /\ StreamInv
  /\ TerminalAfterReceipt

(* TurnReceipts: what an answer is and when a client may be told one.       *)
Receipts == INSTANCE TurnReceipts WITH
  receipt <- [r \in Requests |-> IF status[r] = "complete" THEN log[r] ELSE <<>>],
  asked   <- req,
  told    <- [a \in Attempts |-> IF Told(a) THEN seen[a] ELSE <<>>]

(* One answer per request id, written once, and told only as written.       *)
ImplementsReceipts == Receipts!Spec
=============================================================================

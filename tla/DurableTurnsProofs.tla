------------------------- MODULE DurableTurnsProofs -------------------------
(***************************************************************************)
(* Proofs about DurableTurns, for every number of requests, attempts,      *)
(* environments and heroes and every bound.                                *)
(***************************************************************************)
EXTENDS DurableTurns, FiniteSetTheorems, SequenceTheorems, TLAPS

(* What a resume leaves behind is a log of tool events only.                *)
LEMMA RepairedLogsFact ==
  ASSUME NEW l \in Seq(Event), NEW kept \in RepairedLogs(l)
  PROVE  kept \in Seq(Event) /\ ~EndsDone(kept)
<1> DEFINE T == {i \in DOMAIN l : l[i] = "tool"}
<1>1. Cardinality(T) \in Nat
  <2>1. DOMAIN l = 1..Len(l) /\ Len(l) \in Nat
    OBVIOUS
  <2>2. IsFiniteSet(1..Len(l))
    BY <2>1, FS_Interval
  <2>3. IsFiniteSet(T)
    BY <2>1, <2>2, FS_Subset
  <2> QED BY <2>3, FS_CardinalityType
<1>2. PICK n \in Cardinality(T)..MaxEvents : kept = [i \in 1..n |-> "tool"]
  BY DEF RepairedLogs
<1>3. n \in Nat
  BY <1>1, <1>2
<1>4. kept \in Seq(Event) /\ Len(kept) = n
  BY <1>2, <1>3 DEF Event
<1>5. n > 0 => kept[n] = "tool"
  BY <1>2, <1>3
<1> QED BY <1>4, <1>5 DEF EndsDone

-----------------------------------------------------------------------------
(* An attempt never reaches delivery without something to deliver: what     *)
(* types the terminal event that Deliver appends to a client's stream.      *)
DeliverySends == \A a \in Attempts : pc[a] = "delivering" => terminal[a] # "none"

(* Each group of variables keeps its type under every step.                 *)
LEMMA RecordTypeStep ==
  ASSUME ConstantsOK, TypeOK, [Next]_vars
  PROVE  RecordType'
<1>1. CASE UNCHANGED dbVars
  BY <1>1 DEF TypeOK, RecordType, dbVars
<1> USE DEF TypeOK, RecordType, ProcessType, AttemptType, Status
<1>2. ASSUME NEW a \in Attempts, ClaimNew(a) PROVE RecordType'
  BY <1>2 DEF ClaimNew
<1>3. ASSUME NEW a \in Attempts, ClaimInterrupted(a) PROVE RecordType'
  <2>1. req[a] \in Requests /\ log[req[a]] \in Seq(Event)
    OBVIOUS
  <2>2. PICK kept \in RepairedLogs(log[req[a]]) : log' = [log EXCEPT ![req[a]] = kept]
    BY <1>3 DEF ClaimInterrupted
  <2>3. kept \in Seq(Event)
    BY <2>1, RepairedLogsFact
  <2> QED BY <1>3, <2>1, <2>2, <2>3 DEF ClaimInterrupted
<1>4. ASSUME NEW a \in Attempts, Bind(a) PROVE RecordType'
  BY <1>4 DEF Bind
<1>5. ASSUME NEW a \in Attempts, BindRefused(a) PROVE RecordType'
  BY <1>5 DEF BindRefused
<1>6. ASSUME NEW a \in Attempts, Record(a) PROVE RecordType'
  <2>1. chan[a] \in Seq(Event) /\ chan[a] # <<>> /\ log[req[a]] \in Seq(Event)
    BY <1>6 DEF WorkerType, Record
  <2>2. Head(chan[a]) \in Event
    BY <2>1
  <2>3. /\ log' = [log EXCEPT ![req[a]] = Append(log[req[a]], Head(chan[a]))]
        /\ req[a] \in Requests
        /\ UNCHANGED <<status, owner, generation, actor, environment>>
    BY <1>6 DEF Record
  <2>4. log' \in [Requests -> Seq(Event)]
    BY <2>1, <2>2, <2>3
  <2> QED BY <2>3, <2>4
<1>7. ASSUME NEW a \in Attempts, Settle(a) PROVE RecordType'
  BY <1>7 DEF Settle
<1>8. CASE Boot
  BY <1>8 DEF Boot
<1> QED BY <1>1, <1>2, <1>3, <1>4, <1>5, <1>6, <1>7, <1>8 DEF vars, Next, Client,
        Handler, Engine, Recorder, Post, Acquire, ClaimCompleted, ClaimRefused, Rebind,
        Drop, Disconnect, EngineEmits, EngineEnds, EngineFails, RecordFails,
        NoticeDisconnect, SettleFails, Deliver, Replay, RestoreSnapshot, ReplaceHero, Crash

LEMMA ProcessTypeStep ==
  ASSUME ConstantsOK, TypeOK, [Next]_vars
  PROVE  ProcessType'
<1>1. CASE UNCHANGED <<worldVars, processVars, lane>>
  BY <1>1 DEF TypeOK, ProcessType, worldVars, processVars
<1> USE DEF TypeOK, ProcessType, worldVars, processVars
<1>2. ASSUME NEW a \in Attempts, GiveUp(a), UNCHANGED <<worldVars, processVars>>
      PROVE  ProcessType'
  BY <1>2 DEF GiveUp
<1>3. ASSUME NEW a \in Attempts, Acquire(a) PROVE ProcessType'
  BY <1>3 DEF Acquire
<1>4. ASSUME NEW a \in Attempts, ClaimCompleted(a) PROVE ProcessType'
  BY <1>4 DEF ClaimCompleted
<1>5. CASE RestoreSnapshot
  BY <1>5 DEF RestoreSnapshot
<1>6. CASE ReplaceHero
  BY <1>6 DEF ReplaceHero
<1>7. CASE Crash
  BY <1>7 DEF Crash
<1>8. CASE Boot
  BY <1>8 DEF Boot
<1> QED BY <1>1, <1>2, <1>3, <1>4, <1>5, <1>6, <1>7, <1>8 DEF vars, Next, Client, Handler,
        Engine, Recorder, Post, ClaimNew, ClaimInterrupted, ClaimRefused, Bind, Rebind,
        BindRefused, Drop, Disconnect, EngineEmits, EngineEnds, EngineFails, Record,
        RecordFails, NoticeDisconnect, Settle, SettleFails, Deliver, Replay

LEMMA AttemptTypeStep ==
  ASSUME ConstantsOK, TypeOK, DeliverySends, [Next]_vars
  PROVE  AttemptType'
<1> USE DEF TypeOK
<1>1. CASE UNCHANGED <<pc, askVars, connected, seen>>
  BY <1>1 DEF AttemptType, askVars
<1> USE DEF AttemptType, askVars, Phase
<1>2. ASSUME NEW a \in Attempts, NEW r \in Requests, NEW again \in BOOLEAN, NEW e \in Envs,
             Post(a, r, again, e)
      PROVE  AttemptType'
  BY <1>2 DEF Post
<1>3. ASSUME NEW a \in Attempts, GiveUp(a), UNCHANGED <<askVars, seen>> PROVE AttemptType'
  BY <1>3 DEF GiveUp
<1>4. ASSUME NEW a \in Attempts, Disconnect(a) PROVE AttemptType'
  BY <1>4 DEF Disconnect
<1>5. ASSUME NEW a \in Attempts, NEW ph \in Phase, pc' = [pc EXCEPT ![a] = ph],
             UNCHANGED <<askVars, connected, seen>>
      PROVE  AttemptType'
  BY <1>5
<1>6. ASSUME NEW a \in Attempts, Spawn(a), UNCHANGED <<askVars, connected>>
      PROVE  AttemptType'
  <2>1. log[req[a]] \in Seq(Event \cup {"failed"})
    BY DEF RecordType
  <2> QED BY <1>6, <2>1 DEF Spawn
<1>7. ASSUME NEW a \in Attempts, Record(a) PROVE AttemptType'
  <2>1. chan[a] \in Seq(Event) /\ chan[a] # <<>>
    BY <1>7 DEF WorkerType, Record
  <2>2. Head(chan[a]) \in Event \cup {"failed"}
    BY <2>1
  <2>3. Append(seen[a], Head(chan[a])) \in Seq(Event \cup {"failed"})
    BY <2>2
  <2> QED BY <1>7, <2>3 DEF Record
<1>8. ASSUME NEW a \in Attempts, Deliver(a) PROVE AttemptType'
  <2>1. terminal[a] \in Event \cup {"failed"}
    BY <1>8 DEF WorkerType, DeliverySends, Deliver, Terminals, Event
  <2>2. Append(seen[a], terminal[a]) \in Seq(Event \cup {"failed"})
    BY <2>1
  <2> QED BY <1>8, <2>2 DEF Deliver, GiveUp
<1>9. ASSUME NEW a \in Attempts, Replay(a) PROVE AttemptType'
  <2>1. log[req[a]] \in Seq(Event \cup {"failed"})
    BY DEF RecordType
  <2> QED BY <1>9, <2>1 DEF Replay, GiveUp
<1>10. CASE Crash
  BY <1>10 DEF Crash
<1> HIDE DEF TypeOK, AttemptType, askVars
<1> QED BY <1>1, <1>2, <1>3, <1>4, <1>5, <1>6, <1>7, <1>8, <1>9, <1>10 DEF vars, Next, Client,
        Handler, Engine, Recorder, Acquire, ClaimNew, ClaimCompleted, ClaimInterrupted,
        ClaimRefused, Bind, Rebind, BindRefused, Drop, EngineEmits, EngineEnds, EngineFails,
        RecordFails, NoticeDisconnect, Settle, SettleFails, RestoreSnapshot, ReplaceHero, Boot

LEMMA WorkerTypeStep ==
  ASSUME ConstantsOK, TypeOK, [Next]_vars
  PROVE  WorkerType'
<1>1. CASE UNCHANGED workerVars
  BY <1>1 DEF TypeOK, WorkerType, workerVars
<1> USE DEF TypeOK, WorkerType
<1>2. ASSUME NEW a \in Attempts, Spawn(a) PROVE WorkerType'
  <2>1. Len(log[req[a]]) \in Nat
    BY DEF RecordType, AttemptType
  <2> QED BY <1>2, <2>1 DEF Spawn
<1>3. ASSUME NEW a \in Attempts, NEW e \in Event, EngineEmits(a, e) PROVE WorkerType'
  BY <1>3 DEF EngineEmits
<1>4. ASSUME NEW a \in Attempts, NEW e \in Event, EngineEnds(a, e) PROVE WorkerType'
  BY <1>4 DEF EngineEnds
<1>5. ASSUME NEW a \in Attempts, EngineFails(a) PROVE WorkerType'
  BY <1>5 DEF EngineFails
<1>6. ASSUME NEW a \in Attempts, Record(a) PROVE WorkerType'
  <2>1. Tail(chan[a]) \in Seq(Event)
    BY <1>6 DEF Record
  <2>2. (chan \in [Attempts -> Seq(Event)])'
    BY <1>6, <2>1 DEF Record
  <2>3. (sequence \in [Attempts -> Nat])'
    BY <1>6 DEF Record
  <2>4. (cancelled \in [Attempts -> BOOLEAN])'
    BY <1>6 DEF Record
  <2>5. (terminal \in [Attempts -> Terminals \cup {"none", "failed"}])'
    BY <1>6 DEF Record
  <2> QED BY <1>6, <2>2, <2>3, <2>4, <2>5 DEF Record
<1>7. ASSUME NEW a \in Attempts, Settle(a) PROVE WorkerType'
  BY <1>7 DEF Settle
<1>8. ASSUME NEW a \in Attempts, SettleFails(a) PROVE WorkerType'
  BY <1>8 DEF SettleFails
<1>9. ASSUME NEW a \in Attempts, RecordFails(a) PROVE WorkerType'
  BY <1>9 DEF RecordFails
<1>10. ASSUME NEW a \in Attempts, NoticeDisconnect(a) PROVE WorkerType'
  BY <1>10 DEF NoticeDisconnect
<1>11. ASSUME NEW a \in Attempts, Deliver(a) PROVE WorkerType'
  BY <1>11 DEF Deliver
<1>12. CASE Crash
  BY <1>12 DEF Crash
<1> HIDE DEF TypeOK, WorkerType
<1> QED BY <1>1, <1>2, <1>3, <1>4, <1>5, <1>6, <1>7, <1>8, <1>9, <1>10, <1>11, <1>12
        DEF vars, Next, Client, Handler, Engine, Recorder, Post, Acquire, ClaimNew,
        ClaimCompleted, ClaimInterrupted, ClaimRefused, Bind, Rebind, BindRefused,
        Drop, Disconnect, Replay, RestoreSnapshot, ReplaceHero, Boot

(* Settling decides what is left to send, and nothing takes it back.        *)
LEMMA DeliverySendsStep ==
  ASSUME TypeOK, DeliverySends, [Next]_vars
  PROVE  DeliverySends'
<1> USE DEF DeliverySends, TypeOK, AttemptType, WorkerType, Phase
<1>1. CASE UNCHANGED vars
  BY <1>1 DEF vars, workerVars
<1>2. ASSUME NEW a \in Attempts, Client(a) PROVE DeliverySends'
  BY <1>2 DEF Client, Post, Drop, Disconnect, GiveUp, workerVars
<1>3. ASSUME NEW a \in Attempts, Handler(a) PROVE DeliverySends'
  BY <1>3 DEF Handler, Acquire, ClaimNew, ClaimCompleted, ClaimInterrupted, ClaimRefused,
              Bind, Rebind, BindRefused, Spawn, GiveUp, workerVars
<1>4. ASSUME NEW a \in Attempts, Engine(a) PROVE DeliverySends'
  BY <1>4 DEF Engine, EngineEmits, EngineEnds, EngineFails
<1>5. ASSUME NEW a \in Attempts, Recorder(a) PROVE DeliverySends'
  BY <1>5 DEF Recorder, Record, RecordFails, NoticeDisconnect, Settle, SettleFails,
              Succeeded, Deliver, Replay, GiveUp, Terminals, workerVars
<1>6. CASE RestoreSnapshot \/ ReplaceHero \/ Crash \/ Boot
  BY <1>6 DEF RestoreSnapshot, ReplaceHero, Crash, Boot, workerVars
<1> QED BY <1>1, <1>2, <1>3, <1>4, <1>5, <1>6 DEF Next

(* Every reachable state is well typed: no handler, recorder, crash or      *)
(* restore leaves a value of the durable records or of a worker undefined.  *)
THEOREM TypeCorrect == Spec => []TypeOK
<1>1. ConstantsOK
  BY ConstantsOK
<1>2. Init => TypeOK /\ DeliverySends
  BY <1>1 DEF ConstantsOK, Init, TypeOK, RecordType, ProcessType, AttemptType,
              WorkerType, DeliverySends, Event, Terminals, Status, Phase
<1>3. TypeOK /\ DeliverySends /\ [Next]_vars => (TypeOK /\ DeliverySends)'
  BY <1>1, RecordTypeStep, ProcessTypeStep, AttemptTypeStep, WorkerTypeStep,
        DeliverySendsStep DEF TypeOK
<1> QED BY <1>2, <1>3, PTL DEF Spec

-----------------------------------------------------------------------------
(* Facts about logs.                                                        *)
LEMMA AppendFact ==
  ASSUME NEW S, NEW s \in Seq(S), NEW e \in S
  PROVE  /\ Append(s, e) \in Seq(S)
         /\ Len(Append(s, e)) = Len(s) + 1
         /\ EndsDone(Append(s, e)) <=> e = "done"
BY DEF EndsDone

LEMMA EmptyFact == ~EndsDone(<<>>)
BY DEF EndsDone

(* Only one attempt holds the lane.                                         *)
LEMMA OneHolder ==
  ASSUME LaneInv, NEW a \in Attempts, NEW b \in Attempts, Holding(a), Holding(b)
  PROVE  a = b
BY DEF LaneInv

(* No handler, recorder or boot ever touches a complete record.             *)
LEMMA CompleteStays ==
  ASSUME TypeOK, [Next]_vars, NEW r \in Requests, status[r] = "complete"
  PROVE  status'[r] = "complete" /\ log'[r] = log[r] /\ owner'[r] = owner[r]
<1> DEFINE Same == status'[r] = "complete" /\ log'[r] = log[r] /\ owner'[r] = owner[r]
<1>0. status \in [Requests -> Status] /\ log \in [Requests -> Seq(Event)]
      /\ owner \in [Requests -> Nat] /\ req \in [Attempts -> Requests]
  BY DEF TypeOK, RecordType, AttemptType
<1>1. CASE UNCHANGED dbVars
  BY <1>1 DEF dbVars
<1>2. ASSUME NEW a \in Attempts, ClaimNew(a) PROVE Same
  BY <1>0, <1>2 DEF ClaimNew
<1>3. ASSUME NEW a \in Attempts, ClaimInterrupted(a) PROVE Same
  <2>1. r # req[a]
    BY <1>3 DEF ClaimInterrupted
  <2> QED BY <1>0, <1>3, <2>1 DEF ClaimInterrupted
<1>4. ASSUME NEW a \in Attempts, Bind(a) PROVE Same
  BY <1>4 DEF Bind
<1>5. ASSUME NEW a \in Attempts, BindRefused(a) PROVE Same
  BY <1>0, <1>5 DEF BindRefused
<1>6. ASSUME NEW a \in Attempts, Record(a) PROVE Same
  BY <1>0, <1>6 DEF Record
<1>7. ASSUME NEW a \in Attempts, Settle(a) PROVE Same
  BY <1>0, <1>7 DEF Settle
<1>8. CASE Boot
  BY <1>0, <1>8 DEF Boot
<1> HIDE DEF Same
<1> QED BY <1>1, <1>2, <1>3, <1>4, <1>5, <1>6, <1>7, <1>8 DEF Same, vars, Next, Client,
        Handler, Engine, Recorder, Post, Acquire, ClaimCompleted, ClaimRefused, Rebind,
        Drop, Disconnect, EngineEmits, EngineEnds, EngineFails, RecordFails,
        NoticeDisconnect, SettleFails, Deliver, Replay, RestoreSnapshot, ReplaceHero, Crash

-----------------------------------------------------------------------------
(* The lane: whoever holds it got it free, and only its holder moves on.    *)
LEMMA LaneInvStep ==
  ASSUME ConstantsOK, TypeOK, LaneInv, [Next]_vars
  PROVE  LaneInv'
<1>0. pc \in [Attempts -> Phase] /\ Nobody \notin Attempts
  BY DEF TypeOK, AttemptType, ConstantsOK
<1>1. CASE UNCHANGED <<pc, lane, up>>
  BY <1>1 DEF LaneInv, Holding
<1> USE DEF LaneInv, Holding
<1>2. ASSUME NEW a \in Attempts, NEW r \in Requests, NEW again \in BOOLEAN, NEW e \in Envs,
             Post(a, r, again, e)
      PROVE  LaneInv'
  BY <1>0, <1>2 DEF Post, processVars
<1>3. ASSUME NEW a \in Attempts, GiveUp(a), UNCHANGED processVars PROVE LaneInv'
  BY <1>0, <1>3 DEF GiveUp, processVars
<1>4. ASSUME NEW a \in Attempts, Acquire(a) PROVE LaneInv'
  BY <1>0, <1>4 DEF Acquire, processVars
<1>5. ASSUME NEW a \in Attempts, ClaimCompleted(a) PROVE LaneInv'
  BY <1>0, <1>5 DEF ClaimCompleted, processVars
<1>6. ASSUME NEW a \in Attempts, Holding(a),
             NEW ph \in {"binding", "rebinding", "working", "delivering"},
             pc' = [pc EXCEPT ![a] = ph], UNCHANGED <<processVars, lane>>
      PROVE  LaneInv'
  BY <1>0, <1>6 DEF processVars
<1>7. CASE Crash
  BY <1>0, <1>7 DEF Crash
<1>8. CASE Boot
  BY <1>0, <1>8 DEF Boot
<1> HIDE DEF LaneInv
<1> QED BY <1>1, <1>2, <1>3, <1>4, <1>5, <1>6, <1>7, <1>8 DEF vars, processVars, Next, Client,
        Handler, Engine, Recorder, ClaimNew, ClaimInterrupted, ClaimRefused, Bind, Rebind, Spawn,
        BindRefused, Drop, Disconnect, EngineEmits, EngineEnds, EngineFails, Record, RecordFails,
        NoticeDisconnect, Settleable, Settle, SettleFails, Deliver, Replay, RestoreSnapshot,
        ReplaceHero

(* The records: an id nobody claimed is empty, a complete one has its end.  *)
LEMMA RecordInvStep ==
  ASSUME TypeOK, RecordInv, [Next]_vars
  PROVE  RecordInv'
<1>0. status \in [Requests -> Status] /\ log \in [Requests -> Seq(Event)]
      /\ environment \in [Requests -> Envs \cup {Unbound}] /\ req \in [Attempts -> Requests]
  BY DEF TypeOK, RecordType, AttemptType
<1>1. CASE UNCHANGED dbVars
  BY <1>1 DEF RecordInv, EndsDone, dbVars
<1> USE DEF RecordInv
<1>2. ASSUME NEW a \in Attempts, ClaimNew(a) PROVE RecordInv'
  BY <1>0, <1>2 DEF ClaimNew, EndsDone
<1>3. ASSUME NEW a \in Attempts, ClaimInterrupted(a) PROVE RecordInv'
  <2>1. \A r \in Requests : r # req[a] => log'[r] = log[r]
    BY <1>0, <1>3 DEF ClaimInterrupted
  <2>2. environment' = environment /\ status' = [status EXCEPT ![req[a]] = "running"]
    BY <1>3 DEF ClaimInterrupted
  <2> QED BY <1>0, <2>1, <2>2 DEF EndsDone
<1>4. ASSUME NEW a \in Attempts, Bind(a) PROVE RecordInv'
  BY <1>0, <1>4 DEF Bind, EndsDone
<1>5. ASSUME NEW a \in Attempts, BindRefused(a) PROVE RecordInv'
  BY <1>0, <1>5 DEF BindRefused, EndsDone
<1>6. ASSUME NEW a \in Attempts, Record(a) PROVE RecordInv'
  BY <1>0, <1>6 DEF Record, EndsDone
<1>7. ASSUME NEW a \in Attempts, Settle(a) PROVE RecordInv'
  BY <1>0, <1>7 DEF Settle, EndsDone
<1>8. CASE Boot
  BY <1>0, <1>8 DEF Boot, EndsDone
<1> HIDE DEF RecordInv
<1> QED BY <1>1, <1>2, <1>3, <1>4, <1>5, <1>6, <1>7, <1>8 DEF vars, Next, Client,
        Handler, Engine, Recorder, Post, Acquire, ClaimCompleted, ClaimRefused, Rebind,
        Drop, Disconnect, EngineEmits, EngineEnds, EngineFails, RecordFails,
        NoticeDisconnect, SettleFails, Deliver, Replay, RestoreSnapshot, ReplaceHero, Crash

(* Claims: from claim to receipt the record is this attempt's, this         *)
(* process's and this timeline's, because all the others wait for the lane. *)
LEMMA ClaimInvStep ==
  ASSUME ConstantsOK, TypeOK, LaneInv, RecordInv, ClaimInv, StreamInv, [Next]_vars
  PROVE  ClaimInv'
<1> DEFINE Scoped(a) == status[req[a]] = "running" /\ owner[req[a]] = boot /\ InScope(req[a])
<1> DEFINE Records == <<status, owner, generation, actor, environment, log, timeline, hero, boot>>
<1>0. /\ pc \in [Attempts -> Phase] /\ req \in [Attempts -> Requests] /\ env \in [Attempts -> Envs]
      /\ status \in [Requests -> Status] /\ log \in [Requests -> Seq(Event)]
      /\ owner \in [Requests -> Nat] /\ generation \in [Requests -> Nat]
      /\ actor \in [Requests -> Heroes] /\ environment \in [Requests -> Envs \cup {Unbound}]
      /\ Unbound \notin Envs
  BY DEF TypeOK, RecordType, AttemptType, ConstantsOK
<1>1. CASE UNCHANGED <<Records, pc, req, env>>
  BY <1>1 DEF ClaimInv, EndsDone, InScope
<1>2. ASSUME NEW a \in Attempts, NEW r \in Requests, NEW again \in BOOLEAN, NEW e \in Envs,
             Post(a, r, again, e)
      PROVE  ClaimInv'
  BY <1>0, <1>2 DEF ClaimInv, EndsDone, InScope, Post, dbVars, worldVars, processVars
<1>3. ASSUME NEW a \in Attempts, NEW ph \in {"idle", "claiming", "delivering"},
             pc' = [pc EXCEPT ![a] = ph], UNCHANGED <<Records, req, env>>
      PROVE  ClaimInv'
  BY <1>0, <1>3 DEF ClaimInv, EndsDone, InScope
<1>4. ASSUME NEW a \in Attempts, ClaimNew(a) PROVE ClaimInv'
  <2>1. Holding(a)
    BY <1>4 DEF ClaimNew, Holding
  <2>2. ASSUME NEW b \in Attempts, b # a
        PROVE  pc'[b] = pc[b] /\ pc[b] \notin {"binding", "rebinding", "working"}
    BY <1>0, <1>4, <2>1, <2>2, OneHolder DEF ClaimNew, Holding
  <2>3. ASSUME NEW b \in Attempts, pc'[b] = "replaying" PROVE status'[req'[b]] = "complete"
    BY <1>0, <1>4, <2>3 DEF ClaimNew, ClaimInv, askVars
  <2>4. /\ status'[req'[a]] = "running" /\ owner'[req'[a]] = boot'
        /\ generation'[req'[a]] = timeline' /\ actor'[req'[a]] = hero'
    BY <1>0, <1>4 DEF ClaimNew, askVars, worldVars, processVars
  <2>5. environment'[req'[a]] = Unbound /\ ~EndsDone(log'[req'[a]])
    BY <1>0, <1>4, EmptyFact DEF ClaimNew, askVars, RecordInv
  <2>6. pc'[a] = "binding"
    BY <1>0, <1>4 DEF ClaimNew
  <2> QED BY <2>2, <2>3, <2>4, <2>5, <2>6 DEF ClaimInv, InScope, EndsDone
<1>5. ASSUME NEW a \in Attempts, ClaimCompleted(a) PROVE ClaimInv'
  BY <1>0, <1>5 DEF ClaimInv, EndsDone, InScope, ClaimCompleted, dbVars, worldVars, processVars, askVars
<1>6. ASSUME NEW a \in Attempts, ClaimInterrupted(a) PROVE ClaimInv'
  <2>1. Holding(a)
    BY <1>6 DEF ClaimInterrupted, Holding
  <2>2. ASSUME NEW b \in Attempts, b # a
        PROVE  pc'[b] = pc[b] /\ pc[b] \notin {"binding", "rebinding", "working"}
    BY <1>0, <1>6, <2>1, <2>2, OneHolder DEF ClaimInterrupted, Holding
  <2>3. ASSUME NEW b \in Attempts, pc'[b] = "replaying" PROVE status'[req'[b]] = "complete"
    BY <1>0, <1>6, <2>3 DEF ClaimInterrupted, ClaimInv, askVars
  <2>4. /\ status'[req'[a]] = "running" /\ owner'[req'[a]] = boot'
        /\ generation'[req'[a]] = timeline' /\ actor'[req'[a]] = hero'
    BY <1>0, <1>6 DEF ClaimInterrupted, InScope, askVars, worldVars, processVars
  <2>5. ~EndsDone(log'[req'[a]])
    <3>1. PICK kept \in RepairedLogs(log[req[a]]) : log' = [log EXCEPT ![req[a]] = kept]
      BY <1>6 DEF ClaimInterrupted
    <3>2. ~EndsDone(kept)
      BY <1>0, RepairedLogsFact
    <3>3. log'[req'[a]] = kept
      BY <1>0, <1>6, <3>1 DEF ClaimInterrupted, askVars
    <3> QED BY <3>2, <3>3 DEF EndsDone
  <2>6. pc'[a] = "rebinding"
    BY <1>0, <1>6 DEF ClaimInterrupted
  <2> QED BY <2>2, <2>3, <2>4, <2>5, <2>6 DEF ClaimInv, InScope, EndsDone
<1>7. ASSUME NEW a \in Attempts, Bind(a) PROVE ClaimInv'
  <2>1. Holding(a)
    BY <1>7 DEF Bind, Holding
  <2>2. ASSUME NEW b \in Attempts, b # a
        PROVE  pc'[b] = pc[b] /\ pc[b] \notin {"binding", "rebinding", "working"}
    BY <1>0, <1>7, <2>1, <2>2, OneHolder DEF Bind, Spawn, Holding
  <2>3. pc'[a] = "working" /\ environment'[req'[a]] = env'[a]
    BY <1>0, <1>7 DEF Bind, Spawn, ClaimInv, askVars
  <2>4. UNCHANGED <<status, owner, generation, actor, timeline, hero, boot, req>>
    BY <1>7 DEF Bind, worldVars, processVars, askVars
  <2>5. Scoped(a)
    BY <1>7 DEF Bind, ClaimInv
  <2> QED BY <2>2, <2>3, <2>4, <2>5 DEF ClaimInv, InScope
<1>8. ASSUME NEW a \in Attempts, Rebind(a) PROVE ClaimInv'
  <2>1. UNCHANGED <<Records, req, env>> /\ pc' = [pc EXCEPT ![a] = "working"]
    BY <1>8 DEF Rebind, Spawn, dbVars, worldVars, processVars, askVars
  <2>2. pc[a] = "rebinding" /\ environment[req[a]] = env[a]
    BY <1>8 DEF Rebind
  <2> QED BY <1>0, <2>1, <2>2 DEF ClaimInv, EndsDone, InScope
<1>9. ASSUME NEW a \in Attempts, BindRefused(a) PROVE ClaimInv'
  <2>1. Holding(a)
    BY <1>9 DEF BindRefused, Holding
  <2>2. ASSUME NEW b \in Attempts, b # a
        PROVE  pc'[b] = pc[b] /\ pc[b] \notin {"binding", "rebinding", "working"}
    BY <1>0, <1>9, <2>1, <2>2, OneHolder DEF BindRefused, GiveUp, Holding
  <2>3. pc'[a] = "idle" /\ req' = req
    BY <1>0, <1>9 DEF BindRefused, GiveUp, askVars
  <2>4. ASSUME NEW b \in Attempts, b # a, pc'[b] = "replaying"
        PROVE  status'[req'[b]] = "complete"
    BY <1>0, <1>9, <2>2, <2>3, <2>4 DEF BindRefused, ClaimInv
  <2> QED BY <2>2, <2>3, <2>4 DEF ClaimInv
<1>10. ASSUME NEW a \in Attempts, Record(a) PROVE ClaimInv'
  <2>1. Holding(a)
    BY <1>10 DEF Record, Holding
  <2>2. ASSUME NEW b \in Attempts, b # a
        PROVE  pc[b] \notin {"binding", "rebinding", "working"}
    BY <1>0, <2>1, <2>2, OneHolder DEF Holding
  <2>3. /\ UNCHANGED <<status, owner, generation, actor, environment, timeline, hero, boot>>
        /\ UNCHANGED <<pc, req, env>> /\ pc[a] = "working"
    BY <1>10 DEF Record, worldVars, processVars, askVars
  <2> QED BY <2>2, <2>3 DEF ClaimInv, InScope
<1>11. ASSUME NEW a \in Attempts, Settle(a) PROVE ClaimInv'
  <2>1. Holding(a)
    BY <1>11 DEF Settle, Settleable, Holding
  <2>2. ASSUME NEW b \in Attempts, b # a
        PROVE  pc'[b] = pc[b] /\ pc[b] \notin {"binding", "rebinding", "working"}
    BY <1>0, <1>11, <2>1, <2>2, OneHolder DEF Settle, Holding
  <2>3. pc'[a] = "delivering" /\ req' = req
    BY <1>0, <1>11 DEF Settle, askVars
  <2>4. ASSUME NEW b \in Attempts, b # a, pc'[b] = "replaying"
        PROVE  status'[req'[b]] = "complete"
    BY <1>0, <1>11, <2>2, <2>3, <2>4 DEF Settle, ClaimInv
  <2> QED BY <2>2, <2>3, <2>4 DEF ClaimInv
<1>12. CASE RestoreSnapshot \/ ReplaceHero
  <2>1. lane = Nobody /\ Nobody \notin Attempts
    BY <1>12 DEF RestoreSnapshot, ReplaceHero, ConstantsOK
  <2>2. \A b \in Attempts : pc[b] \notin {"binding", "rebinding", "working"}
    BY <2>1 DEF LaneInv, Holding
  <2>3. UNCHANGED <<status, pc, req>>
    BY <1>12 DEF RestoreSnapshot, ReplaceHero, dbVars, askVars
  <2> QED BY <2>2, <2>3 DEF ClaimInv
<1>13. CASE Crash
  BY <1>13 DEF Crash, ClaimInv
<1>14. CASE Boot
  <2>1. \A b \in Attempts : pc'[b] = "idle"
    BY <1>0, <1>14 DEF Boot, LaneInv
  <2> QED BY <2>1 DEF ClaimInv
<1> QED BY <1>1, <1>2, <1>3, <1>4, <1>5, <1>6, <1>7, <1>8, <1>9, <1>10, <1>11, <1>12, <1>13, <1>14
        DEF vars, dbVars, worldVars, processVars, askVars, Next, Client, Handler, Engine, Recorder,
        Acquire, ClaimRefused, Drop, GiveUp, Disconnect, EngineEmits, EngineEnds, EngineFails,
        RecordFails, NoticeDisconnect, SettleFails, Deliver, Replay

(* Channels: the terminal event is the last one sent and the last one taken. *)
LEMMA ChannelInvStep ==
  ASSUME TypeOK, ChannelInv, [Next]_vars
  PROVE  ChannelInv'
<1>0. /\ pc \in [Attempts -> Phase] /\ chan \in [Attempts -> Seq(Event)]
      /\ engine \in [Attempts -> {"off", "running", "ok", "failed"}]
      /\ terminal \in [Attempts -> Terminals \cup {"none", "failed"}]
  BY DEF TypeOK, AttemptType, WorkerType
<1> USE DEF ChannelInv
<1>1. CASE UNCHANGED <<pc, workerVars>>
  BY <1>1 DEF workerVars
<1>2. ASSUME NEW a \in Attempts, NEW ph \in Phase \ {"working"},
             pc' = [pc EXCEPT ![a] = ph],
             \A b \in Attempts : b # a =>
               chan'[b] = chan[b] /\ engine'[b] = engine[b] /\ terminal'[b] = terminal[b]
      PROVE  ChannelInv'
  BY <1>0, <1>2
<1>3. ASSUME NEW a \in Attempts, Spawn(a) PROVE ChannelInv'
  BY <1>0, <1>3 DEF Spawn
<1>4. ASSUME NEW a \in Attempts, NEW e \in Event, EngineEmits(a, e) PROVE ChannelInv'
  <2>1. /\ pc[a] = "working" /\ engine[a] = "running" /\ e \notin Terminals
        /\ chan' = [chan EXCEPT ![a] = Append(chan[a], e)]
        /\ UNCHANGED <<pc, engine, terminal>>
    BY <1>4 DEF EngineEmits
  <2>2. \A i \in 1..Len(chan[a]) : chan[a][i] \notin Terminals
    BY <2>1
  <2>3. \A i \in 1..Len(chan'[a]) : chan'[a][i] \notin Terminals
    BY <1>0, <2>1, <2>2
  <2>4. terminal'[a] = "none"
    BY <2>1
  <2>5. \A b \in Attempts : b # a => chan'[b] = chan[b]
    BY <1>0, <2>1
  <2> QED BY <2>1, <2>3, <2>4, <2>5
<1>5. ASSUME NEW a \in Attempts, NEW e \in Event, EngineEnds(a, e) PROVE ChannelInv'
  <2>1. /\ pc[a] = "working" /\ engine[a] = "running"
        /\ chan' = [chan EXCEPT ![a] = Append(chan[a], e)]
        /\ engine' = [engine EXCEPT ![a] = "ok"]
        /\ UNCHANGED <<pc, terminal>>
    BY <1>5 DEF EngineEnds
  <2>2. \A i \in 1..Len(chan[a]) : chan[a][i] \notin Terminals
    BY <2>1
  <2>3. \A i \in 1..Len(chan'[a]) : chan'[a][i] \in Terminals => i = Len(chan'[a])
    BY <1>0, <2>1, <2>2
  <2>4. terminal'[a] = "none" /\ engine'[a] = "ok"
    BY <1>0, <2>1
  <2>5. \A b \in Attempts : b # a => chan'[b] = chan[b] /\ engine'[b] = engine[b]
    BY <1>0, <2>1
  <2> QED BY <2>1, <2>3, <2>4, <2>5
<1>6. ASSUME NEW a \in Attempts, EngineFails(a) PROVE ChannelInv'
  BY <1>0, <1>6 DEF EngineFails
<1>7. ASSUME NEW a \in Attempts, Record(a) PROVE ChannelInv'
  <2>1. /\ pc[a] = "working" /\ chan[a] # <<>>
        /\ chan' = [chan EXCEPT ![a] = Tail(chan[a])]
        /\ UNCHANGED <<pc, engine>>
    BY <1>7 DEF Record
  <2>2. \A i \in 1..Len(Tail(chan[a])) : Tail(chan[a])[i] = chan[a][i + 1]
    BY <1>0, <2>1
  <2>3. Len(Tail(chan[a])) = Len(chan[a]) - 1 /\ Len(chan[a]) \in Nat
    BY <1>0, <2>1
  <2>4. \A i \in 1..Len(chan'[a]) :
          chan'[a][i] \in Terminals => i = Len(chan'[a]) /\ engine'[a] = "ok"
    <3>1. chan'[a] = Tail(chan[a])
      BY <1>0, <2>1
    <3>2. ASSUME NEW i \in 1..Len(Tail(chan[a])), Tail(chan[a])[i] \in Terminals
          PROVE  i = Len(Tail(chan[a])) /\ engine[a] = "ok"
      <4>1. i + 1 \in 1..Len(chan[a]) /\ chan[a][i + 1] \in Terminals
        BY <2>2, <2>3, <3>2
      <4> QED BY <2>1, <2>3, <4>1
    <3> QED BY <2>1, <3>1, <3>2
  <2>5. terminal[a] = "none"
    BY <2>1
  <2>6. CASE Head(chan[a]) \in Terminals
    <3>1. Head(chan[a]) = chan[a][1] /\ 1 \in 1..Len(chan[a])
      BY <1>0, <2>1
    <3>2. Len(chan[a]) = 1 /\ engine[a] = "ok"
      BY <2>1, <2>6, <3>1
    <3>3. Tail(chan[a]) = <<>>
      BY <1>0, <2>1, <2>3, <3>2
    <3>4. terminal' = [terminal EXCEPT ![a] = Head(chan[a])]
      BY <1>7, <2>6 DEF Record
    <3> QED BY <1>0, <2>1, <2>4, <2>6, <3>2, <3>3, <3>4
  <2>7. CASE Head(chan[a]) \notin Terminals
    <3>1. terminal' = terminal
      BY <1>7, <2>7 DEF Record
    <3> QED BY <1>0, <2>1, <2>4, <2>5, <3>1
  <2> QED BY <2>6, <2>7
<1>8. ASSUME NEW a \in Attempts, RecordFails(a) PROVE ChannelInv'
  BY <1>0, <1>8 DEF RecordFails
<1>9. ASSUME NEW a \in Attempts, NoticeDisconnect(a) PROVE ChannelInv'
  BY <1>9 DEF NoticeDisconnect
<1>10. ASSUME NEW a \in Attempts, Settle(a) PROVE ChannelInv'
  BY <1>0, <1>2, <1>10 DEF Settle, Phase
<1>11. ASSUME NEW a \in Attempts, SettleFails(a) PROVE ChannelInv'
  BY <1>0, <1>2, <1>11 DEF SettleFails, Phase
<1>12. ASSUME NEW a \in Attempts, Deliver(a) PROVE ChannelInv'
  BY <1>0, <1>2, <1>12 DEF Deliver, GiveUp, Phase
<1>13. CASE Crash
  BY <1>13 DEF Crash
<1> HIDE DEF ChannelInv
<1> QED BY <1>1, <1>2, <1>3, <1>4, <1>5, <1>6, <1>7, <1>8, <1>9, <1>10, <1>11, <1>12, <1>13
        DEF vars, workerVars, Phase, Next, Client, Handler, Engine, Recorder, Post, Acquire, ClaimNew,
        ClaimCompleted, ClaimInterrupted, ClaimRefused, Bind, Rebind, BindRefused, Drop, GiveUp,
        Disconnect, Replay, RestoreSnapshot, ReplaceHero, Boot

(* Streams: what a listening client holds is the log, but for the terminal  *)
(* event that is withheld until the receipt commits.                        *)
LEMMA StreamInvStep ==
  ASSUME ConstantsOK, TypeOK, LaneInv, ClaimInv, ChannelInv, StreamInv, [Next]_vars
  PROVE  StreamInv'
<1> DEFINE Working(b) ==
      /\ recording[b] => sequence[b] = Len(log[req[b]])
      /\ terminal[b] = "none" =>
           /\ ~EndsDone(log[req[b]])
           /\ connected[b] => seen[b] = log[req[b]]
      /\ terminal[b] # "none" =>
           /\ terminal[b] = "done" => EndsDone(log[req[b]])
           /\ connected[b] => log[req[b]] = Append(seen[b], terminal[b])
<1> DEFINE Delivering(b) ==
      terminal[b] = "done" =>
        /\ status[req[b]] = "complete"
        /\ connected[b] => log[req[b]] = Append(seen[b], "done")
<1> DEFINE P(b) == /\ pc[b] # "idle" => ~EndsDone(seen[b])
                   /\ pc[b] = "working" => Working(b)
                   /\ pc[b] = "delivering" => Delivering(b)
<1> DEFINE Own(b) == <<pc[b], req[b], connected[b], seen[b], engine[b], sequence[b], recording[b], terminal[b]>>
<1>a. StreamInv <=> \A b \in Attempts : P(b)
  BY DEF StreamInv, Told
<1>b. StreamInv' <=> \A b \in Attempts : P(b)'
  BY DEF StreamInv, Told
<1>0. /\ pc \in [Attempts -> Phase] /\ req \in [Attempts -> Requests]
      /\ connected \in [Attempts -> BOOLEAN]
      /\ seen \in [Attempts -> Seq(Event \cup {"failed"})]
      /\ chan \in [Attempts -> Seq(Event)] /\ log \in [Requests -> Seq(Event)]
      /\ sequence \in [Attempts -> Nat] /\ recording \in [Attempts -> BOOLEAN]
      /\ engine \in [Attempts -> {"off", "running", "ok", "failed"}]
      /\ terminal \in [Attempts -> Terminals \cup {"none", "failed"}]
      /\ status \in [Requests -> Status]
  BY DEF TypeOK, RecordType, AttemptType, WorkerType
\* What an attempt that does not move keeps.
<1>1. ASSUME NEW b \in Attempts, Own(b)' = Own(b), log'[req[b]] = log[req[b]]
      PROVE  P(b)'
  <2>1. pc[b] = "delivering" /\ terminal[b] = "done" => status'[req[b]] = "complete"
    <3>1. pc[b] = "delivering" /\ terminal[b] = "done" => status[req[b]] = "complete"
      BY <1>a
    <3> QED BY <1>0, <3>1, CompleteStays
  <2>2. P(b)
    BY <1>a
  <2> QED BY <1>1, <2>1, <2>2 DEF EndsDone
<1>2. ASSUME NEW b \in Attempts, Own(b)' = Own(b), pc[b] # "working", Holding(b) => UNCHANGED log
      PROVE  P(b)'
  <2>1. CASE pc[b] = "delivering"
    BY <1>1, <1>2, <2>1 DEF Holding
  <2>2. CASE pc[b] # "delivering"
    <3>1. P(b)
      BY <1>a
    <3> QED BY <1>2, <2>2, <3>1 DEF EndsDone
  <2> QED BY <2>1, <2>2
\* What the other attempts keep while the lane holder changes its record.
<1>3. ASSUME NEW a \in Attempts, Holding(a), NEW b \in Attempts, b # a, Own(b)' = Own(b)
      PROVE  P(b)'
  <2>1. ~Holding(b)
    BY <1>3, OneHolder
  <2> QED BY <1>2, <1>3, <2>1 DEF Holding
\* An attempt that is told nothing and is not at work.
<1>4. ASSUME NEW a \in Attempts, NEW ph \in Phase \ {"working", "delivering"},
             pc' = [pc EXCEPT ![a] = ph], pc[a] # "idle" \/ ph = "idle",
             UNCHANGED <<req, seen, log, engine, sequence, recording, terminal>>,
             \A b \in Attempts : b # a => connected'[b] = connected[b]
      PROVE  StreamInv'
  <2>1. P(a)'
    <3>1. P(a)
      BY <1>a
    <3> QED BY <1>0, <1>4, <3>1 DEF EndsDone
  <2>2. ASSUME NEW b \in Attempts, b # a PROVE P(b)'
    BY <1>0, <1>1, <1>4, <2>2
  <2> HIDE DEF P
  <2> QED BY <1>b, <2>1, <2>2
<1>5. ASSUME NEW a \in Attempts, NEW r \in Requests, NEW again \in BOOLEAN, NEW e \in Envs,
             Post(a, r, again, e)
      PROVE  StreamInv'
  <2>1. P(a)'
    BY <1>0, <1>5, EmptyFact DEF Post, EndsDone
  <2>2. ASSUME NEW b \in Attempts, b # a PROVE P(b)'
    <3>1. Own(b)' = Own(b) /\ log' = log
      BY <1>0, <1>5, <2>2 DEF Post, dbVars, workerVars
    <3> QED BY <1>1, <3>1
  <2> HIDE DEF P
  <2> QED BY <1>b, <2>1, <2>2
<1>6. ASSUME NEW a \in Attempts, GiveUp(a), pc[a] # "idle",
             UNCHANGED <<req, seen, log, engine, sequence, recording, terminal>>
      PROVE  StreamInv'
  BY <1>0, <1>4, <1>6 DEF GiveUp, Phase
<1>7. ASSUME NEW a \in Attempts, Acquire(a) \/ ClaimNew(a) \/ ClaimCompleted(a) PROVE StreamInv'
  <2>1. UNCHANGED <<req, seen, log, engine, sequence, recording, terminal, connected>>
    BY <1>7 DEF Acquire, ClaimNew, ClaimCompleted, dbVars, askVars, workerVars
  <2>2. PICK ph \in {"claiming", "binding", "replaying"} : pc' = [pc EXCEPT ![a] = ph]
    BY <1>7 DEF Acquire, ClaimNew, ClaimCompleted
  <2>3. pc[a] # "idle"
    BY <1>7 DEF Acquire, ClaimNew, ClaimCompleted
  <2> QED BY <1>4, <2>1, <2>2, <2>3 DEF Phase
<1>8. ASSUME NEW a \in Attempts, ClaimInterrupted(a) PROVE StreamInv'
  <2>1. /\ pc[a] = "claiming" /\ pc' = [pc EXCEPT ![a] = "rebinding"]
        /\ UNCHANGED <<req, seen, engine, sequence, recording, terminal, connected>>
    BY <1>8 DEF ClaimInterrupted, askVars, workerVars
  <2>2. P(a)'
    <3>1. P(a)
      BY <1>a
    <3> QED BY <1>0, <2>1, <3>1 DEF EndsDone
  <2>3. ASSUME NEW b \in Attempts, b # a PROVE P(b)'
    BY <1>0, <1>3, <2>1, <2>3 DEF Holding
  <2> HIDE DEF P
  <2> QED BY <1>b, <2>2, <2>3
<1>9. ASSUME NEW a \in Attempts, pc[a] \in {"binding", "rebinding"}, Spawn(a),
             UNCHANGED <<req, log, connected>>
      PROVE  StreamInv'
  <2>1. ~EndsDone(log[req[a]])
    BY <1>9 DEF ClaimInv
  <2>2. /\ pc'[a] = "working" /\ seen'[a] = log[req[a]] /\ sequence'[a] = Len(log[req[a]])
        /\ terminal'[a] = "none" /\ UNCHANGED <<req, log>>
    BY <1>0, <1>9 DEF Spawn
  <2>3. P(a)'
    BY <2>1, <2>2 DEF EndsDone
  <2>4. ASSUME NEW b \in Attempts, b # a PROVE P(b)'
    <3>1. Own(b)' = Own(b) /\ log' = log
      BY <1>0, <1>9, <2>4 DEF Spawn
    <3> QED BY <1>1, <3>1
  <2> HIDE DEF P
  <2> QED BY <1>b, <2>3, <2>4
<1>10. ASSUME NEW a \in Attempts, BindRefused(a) PROVE StreamInv'
  BY <1>6, <1>10 DEF BindRefused, askVars, workerVars
<1>11. ASSUME NEW a \in Attempts, Disconnect(a) PROVE StreamInv'
  <2>1. /\ connected' = [connected EXCEPT ![a] = FALSE]
        /\ UNCHANGED <<pc, req, seen, log, engine, sequence, recording, terminal, status>>
    BY <1>11 DEF Disconnect, dbVars, askVars, workerVars
  <2>2. P(a)'
    <3>1. P(a)
      BY <1>a
    <3> QED BY <1>0, <2>1, <3>1 DEF EndsDone
  <2>3. ASSUME NEW b \in Attempts, b # a PROVE P(b)'
    BY <1>0, <1>1, <2>1, <2>3
  <2> HIDE DEF P
  <2> QED BY <1>b, <2>2, <2>3
<1>12. ASSUME NEW a \in Attempts, Record(a) PROVE StreamInv'
  <2> DEFINE e == Head(chan[a])
             l == log[req[a]]
  <2>1. /\ pc[a] = "working" /\ Holding(a) /\ recording[a] /\ chan[a] # <<>>
        /\ log' = [log EXCEPT ![req[a]] = Append(l, e)]
        /\ sequence' = [sequence EXCEPT ![a] = sequence[a] + 1]
        /\ sequence[a] = Len(l)
        /\ UNCHANGED <<pc, req, connected, engine, recording>>
    BY <1>12 DEF Record, Holding, askVars
  <2>2. terminal[a] = "none"
    BY <2>1 DEF ChannelInv
  <2>3. e \in Event /\ e \in Event \cup {"failed"} /\ l \in Seq(Event)
        /\ l \in Seq(Event \cup {"failed"})
    BY <1>0, <2>1
  <2>4. log'[req'[a]] = Append(l, e)
    BY <1>0, <2>1
  <2>5. ~EndsDone(l) /\ (connected[a] => seen[a] = l)
    BY <1>a, <2>1, <2>2
  <2>6. sequence'[a] = Len(Append(l, e))
    BY <1>0, <2>1, <2>3, AppendFact
  <2>7. EndsDone(Append(l, e)) <=> e = "done"
    BY <2>3, AppendFact
  <2>8. ~EndsDone(seen[a])
    BY <1>a, <2>1
  <2>9. P(a)'
    <3>1. CASE e \in Terminals
      <4>1. terminal'[a] = e /\ seen' = seen /\ e # "none"
        BY <1>0, <1>12, <3>1 DEF Record, Terminals
      <4> QED BY <2>1, <2>4, <2>5, <2>6, <2>7, <2>8, <4>1 DEF EndsDone
    <3>2. CASE e \notin Terminals
      <4>1. /\ terminal' = terminal /\ e # "done"
            /\ seen' = [seen EXCEPT ![a] = IF connected[a] THEN Append(seen[a], e) ELSE seen[a]]
        BY <1>12, <3>2 DEF Record, Terminals
      <4>2. connected[a] => seen'[a] = Append(l, e)
        BY <1>0, <2>5, <4>1
      <4>3. ~connected[a] => seen'[a] = seen[a]
        BY <1>0, <4>1
      <4>4. ~EndsDone(seen'[a])
        BY <2>7, <2>8, <4>1, <4>2, <4>3
      <4> QED BY <2>1, <2>2, <2>4, <2>6, <2>7, <4>1, <4>2, <4>4 DEF EndsDone
    <3> QED BY <3>1, <3>2
  <2>10. ASSUME NEW b \in Attempts, b # a PROVE P(b)'
    <3>1. terminal'[b] = terminal[b] /\ seen'[b] = seen[b]
      BY <1>0, <1>12, <2>10 DEF Record
    <3> QED BY <1>0, <1>3, <2>1, <2>10, <3>1
  <2> HIDE DEF P
  <2> QED BY <1>b, <2>9, <2>10
<1>13. ASSUME NEW a \in Attempts, RecordFails(a) PROVE StreamInv'
  <2>1. /\ recording' = [recording EXCEPT ![a] = FALSE]
        /\ UNCHANGED <<pc, req, seen, connected, log, engine, sequence, terminal, status>>
    BY <1>13 DEF RecordFails, dbVars, askVars
  <2>2. P(a)'
    <3>1. P(a)
      BY <1>a
    <3> QED BY <1>0, <2>1, <3>1 DEF EndsDone
  <2>3. ASSUME NEW b \in Attempts, b # a PROVE P(b)'
    BY <1>0, <1>1, <2>1, <2>3
  <2> HIDE DEF P
  <2> QED BY <1>b, <2>2, <2>3
<1>14. ASSUME NEW a \in Attempts, Settle(a) PROVE StreamInv'
  <2>1. /\ pc[a] = "working" /\ pc'[a] = "delivering" /\ Holding(a)
        /\ terminal' = [terminal EXCEPT ![a] = IF Succeeded(a) THEN @ ELSE "failed"]
        /\ UNCHANGED <<req, seen, connected, log, engine, sequence, recording>>
    BY <1>0, <1>14 DEF Settle, Settleable, Holding, askVars
  <2>2. terminal'[a] = "done" => Succeeded(a) /\ terminal[a] = "done"
    BY <1>0, <2>1
  <2>3. Succeeded(a) /\ terminal[a] = "done" => status'[req[a]] = "complete"
    BY <1>0, <1>14 DEF Settle
  <2>4. P(a)
    BY <1>a
  <2>5. P(a)'
    BY <2>1, <2>2, <2>3, <2>4 DEF EndsDone
  <2>6. ASSUME NEW b \in Attempts, b # a PROVE P(b)'
    <3>1. pc'[b] = pc[b]
      BY <1>0, <1>14, <2>6 DEF Settle
    <3> QED BY <1>0, <1>3, <2>1, <2>6, <3>1
  <2> HIDE DEF P
  <2> QED BY <1>b, <2>5, <2>6
<1>15. ASSUME NEW a \in Attempts, SettleFails(a) PROVE StreamInv'
  <2>1. /\ pc[a] = "working" /\ pc'[a] = "delivering" /\ terminal'[a] = "failed"
        /\ UNCHANGED <<req, seen, connected, log, engine, sequence, recording, status>>
    BY <1>0, <1>15 DEF SettleFails, Settleable, dbVars, askVars
  <2>2. P(a)
    BY <1>a
  <2>3. P(a)'
    BY <2>1, <2>2 DEF EndsDone
  <2>4. ASSUME NEW b \in Attempts, b # a PROVE P(b)'
    <3>1. pc'[b] = pc[b] /\ terminal'[b] = terminal[b]
      BY <1>0, <1>15, <2>4 DEF SettleFails
    <3> QED BY <1>0, <1>1, <2>1, <2>4, <3>1
  <2> HIDE DEF P
  <2> QED BY <1>b, <2>3, <2>4
<1>16. ASSUME NEW a \in Attempts, Deliver(a) \/ Replay(a) PROVE StreamInv'
  <2>1. pc'[a] = "idle" /\ UNCHANGED <<req, log>>
    BY <1>0, <1>16 DEF Deliver, Replay, GiveUp, dbVars, askVars
  <2>2. ASSUME NEW b \in Attempts, b # a PROVE P(b)'
    <3>1. Own(b)' = Own(b)
      <4>1. CASE Deliver(a)
        BY <1>0, <2>2, <4>1 DEF Deliver, GiveUp, askVars
      <4>2. CASE Replay(a)
        BY <1>0, <2>2, <4>2 DEF Replay, GiveUp, askVars, workerVars
      <4> QED BY <1>16, <4>1, <4>2
    <3> QED BY <1>1, <2>1, <3>1
  <2>3. P(a)'
    BY <2>1
  <2> HIDE DEF P
  <2> QED BY <1>b, <2>2, <2>3
<1>17. CASE UNCHANGED <<pc, req, seen, connected, log, sequence, recording, terminal>>
  <2>1. ASSUME NEW b \in Attempts PROVE P(b)'
    <3>1. pc[b] = "delivering" /\ terminal[b] = "done" => status'[req[b]] = "complete"
      <4>1. pc[b] = "delivering" /\ terminal[b] = "done" => status[req[b]] = "complete"
        BY <1>a
      <4> QED BY <1>0, <4>1, CompleteStays
    <3>2. P(b)
      BY <1>a
    <3> QED BY <1>17, <3>1, <3>2 DEF EndsDone
  <2> HIDE DEF P
  <2> QED BY <1>b, <2>1
<1>18. CASE Crash
  <2>1. ASSUME NEW b \in Attempts PROVE P(b)'
    BY <1>18, <2>1 DEF Crash
  <2> HIDE DEF P
  <2> QED BY <1>b, <2>1
<1> HIDE DEF P
<1> QED BY <1>5, <1>6, <1>7, <1>8, <1>9, <1>10, <1>11, <1>12, <1>13, <1>14, <1>15, <1>16, <1>17, <1>18
        DEF vars, dbVars, askVars, workerVars, Next, Client, Handler, Engine, Recorder, ClaimRefused,
        Bind, Rebind, Drop, EngineEmits, EngineEnds, EngineFails, NoticeDisconnect,
        RestoreSnapshot, ReplaceHero, Boot

(* Whoever was told that a turn is done holds the recorded answer.          *)
LEMMA ToldStep ==
  ASSUME TypeOK, ClaimInv, StreamInv, StreamInv', TerminalAfterReceipt, [Next]_vars
  PROVE  TerminalAfterReceipt'
<1>0. /\ pc \in [Attempts -> Phase] /\ req \in [Attempts -> Requests]
      /\ seen \in [Attempts -> Seq(Event \cup {"failed"})]
      /\ log \in [Requests -> Seq(Event)]
      /\ terminal \in [Attempts -> Terminals \cup {"none", "failed"}]
  BY DEF TypeOK, RecordType, AttemptType, WorkerType
<1> DEFINE Q(b) == EndsDone(seen[b]) => status[req[b]] = "complete" /\ seen[b] = log[req[b]]
<1>a. TerminalAfterReceipt <=> \A b \in Attempts : Q(b)
  BY DEF TerminalAfterReceipt, Told
<1>b. TerminalAfterReceipt' <=> \A b \in Attempts : Q(b)'
  BY DEF TerminalAfterReceipt, Told
<1>1. ASSUME NEW b \in Attempts, seen'[b] = seen[b], req'[b] = req[b] PROVE Q(b)'
  <2>1. CASE EndsDone(seen[b])
    <3>1. status[req[b]] = "complete" /\ seen[b] = log[req[b]] /\ req[b] \in Requests
      BY <1>0, <1>a, <2>1
    <3> QED BY <1>1, <3>1, CompleteStays
  <2>2. CASE ~EndsDone(seen[b])
    BY <1>1, <2>2 DEF EndsDone
  <2> QED BY <2>1, <2>2
<1>2. CASE UNCHANGED <<seen, req>>
  <2>1. ASSUME NEW b \in Attempts PROVE Q(b)'
    BY <1>1, <1>2
  <2> HIDE DEF Q
  <2> QED BY <1>b, <2>1
<1>3. ASSUME NEW a \in Attempts, ~EndsDone(seen'[a]),
             \A b \in Attempts : b # a => seen'[b] = seen[b] /\ req'[b] = req[b]
      PROVE  TerminalAfterReceipt'
  <2>1. ASSUME NEW b \in Attempts PROVE Q(b)'
    BY <1>1, <1>3 DEF EndsDone
  <2> HIDE DEF Q
  <2> QED BY <1>b, <2>1
<1>4. ASSUME NEW a \in Attempts, NEW r \in Requests, NEW again \in BOOLEAN, NEW e \in Envs,
             Post(a, r, again, e)
      PROVE  TerminalAfterReceipt'
  <2>1. seen'[a] = <<>>
    BY <1>0, <1>4 DEF Post
  <2>2. \A b \in Attempts : b # a => seen'[b] = seen[b] /\ req'[b] = req[b]
    BY <1>0, <1>4 DEF Post
  <2> QED BY <1>3, <2>1, <2>2, EmptyFact
<1>5. ASSUME NEW a \in Attempts, pc[a] \in {"binding", "rebinding"}, Spawn(a), UNCHANGED req
      PROVE  TerminalAfterReceipt'
  <2>1. seen'[a] = log[req[a]] /\ \A b \in Attempts : b # a => seen'[b] = seen[b]
    BY <1>0, <1>5 DEF Spawn
  <2>2. ~EndsDone(log[req[a]])
    BY <1>5 DEF ClaimInv
  <2> QED BY <1>3, <1>5, <2>1, <2>2
<1>6. ASSUME NEW a \in Attempts, Record(a) PROVE TerminalAfterReceipt'
  <2>1. ~EndsDone(seen'[a])
    <3>1. pc'[a] # "idle" /\ StreamInv'
      BY <1>6 DEF Record
    <3> QED BY <3>1 DEF StreamInv, Told
  <2>2. \A b \in Attempts : b # a => seen'[b] = seen[b] /\ req'[b] = req[b]
    BY <1>0, <1>6 DEF Record, askVars
  <2> QED BY <1>3, <2>1, <2>2
<1>7. ASSUME NEW a \in Attempts, Deliver(a) PROVE TerminalAfterReceipt'
  <2>1. /\ pc[a] = "delivering" /\ UNCHANGED <<req, status, log>>
        /\ seen' = [seen EXCEPT ![a] = IF connected[a] THEN Append(seen[a], terminal[a]) ELSE seen[a]]
    BY <1>7 DEF Deliver, dbVars, askVars
  <2>2. CASE connected[a] /\ terminal[a] = "done"
    <3>1. status'[req'[a]] = "complete" /\ seen'[a] = log'[req'[a]]
      BY <1>0, <2>1, <2>2 DEF StreamInv
    <3>2. ASSUME NEW b \in Attempts PROVE Q(b)'
      <4>1. CASE b = a
        BY <3>1, <4>1
      <4>2. CASE b # a
        BY <1>0, <1>1, <2>1, <4>2
      <4> QED BY <4>1, <4>2
    <3> HIDE DEF Q
    <3> QED BY <1>b, <3>2
  <2>3. CASE ~(connected[a] /\ terminal[a] = "done")
    <3>1. ~EndsDone(seen[a]) /\ terminal[a] \in Event \cup {"failed", "none"}
      BY <1>0, <2>1 DEF StreamInv, Told, Terminals, Event
    <3>2. ~EndsDone(seen'[a])
      <4>1. CASE connected[a]
        <5>1. terminal[a] # "done" /\ seen[a] \in Seq(Event \cup {"failed", "none"})
          BY <1>0, <2>3, <4>1
        <5>2. ~EndsDone(Append(seen[a], terminal[a]))
          BY <3>1, <5>1, AppendFact
        <5> QED BY <1>0, <2>1, <4>1, <5>2
      <4>2. CASE ~connected[a]
        BY <1>0, <2>1, <3>1, <4>2
      <4> QED BY <4>1, <4>2
    <3>3. \A b \in Attempts : b # a => seen'[b] = seen[b] /\ req'[b] = req[b]
      BY <1>0, <2>1
    <3> QED BY <1>3, <3>2, <3>3
  <2> QED BY <2>2, <2>3
<1>8. ASSUME NEW a \in Attempts, Replay(a) PROVE TerminalAfterReceipt'
  <2>1. /\ pc[a] = "replaying" /\ UNCHANGED <<req, status, log>>
        /\ seen' = [seen EXCEPT ![a] = IF connected[a] THEN log[req[a]] ELSE seen[a]]
    BY <1>8 DEF Replay, dbVars, askVars
  <2>2. status[req[a]] = "complete"
    BY <2>1 DEF ClaimInv
  <2>3. ASSUME NEW b \in Attempts PROVE Q(b)'
    <3>1. CASE b = a /\ connected[a]
      BY <1>0, <2>1, <2>2, <3>1
    <3>2. CASE b # a \/ ~connected[a]
      BY <1>0, <1>1, <2>1, <3>2
    <3> QED BY <3>1, <3>2
  <2> HIDE DEF Q
  <2> QED BY <1>b, <2>3
<1>9. CASE Crash
  BY <1>2, <1>9 DEF Crash, askVars
<1> HIDE DEF Q
<1> QED BY <1>2, <1>4, <1>5, <1>6, <1>7, <1>8, <1>9 DEF vars, askVars, Next, Client, Handler,
        Engine, Recorder, Acquire, ClaimNew, ClaimCompleted, ClaimInterrupted, ClaimRefused,
        Bind, Rebind, BindRefused, Drop, Disconnect, EngineEmits, EngineEnds, EngineFails,
        RecordFails, NoticeDisconnect, Settle, SettleFails, RestoreSnapshot, ReplaceHero, Boot

-----------------------------------------------------------------------------
(* Nothing has happened yet: every part of the invariant holds.             *)
LEMMA InitInv ==
  ASSUME ConstantsOK, Init
  PROVE  TypeOK /\ DeliverySends /\ DeliveryInv
<1>1. TypeOK /\ DeliverySends
  BY DEF ConstantsOK, Init, TypeOK, RecordType, ProcessType, AttemptType, WorkerType,
         DeliverySends, Event, Terminals, Status, Phase
<1>2. LaneInv /\ ClaimInv /\ ChannelInv
  BY DEF Init, LaneInv, Holding, ClaimInv, ChannelInv
<1>3. RecordInv
  BY DEF Init, RecordInv
<1>4. StreamInv /\ TerminalAfterReceipt
  BY EmptyFact DEF Init, StreamInv, TerminalAfterReceipt, Told
<1> QED BY <1>1, <1>2, <1>3, <1>4 DEF DeliveryInv

(* The invariant is inductive.                                              *)
LEMMA InvStep ==
  ASSUME ConstantsOK, TypeOK, DeliverySends, DeliveryInv, [Next]_vars
  PROVE  (TypeOK /\ DeliverySends /\ DeliveryInv)'
<1>1. TypeOK' /\ DeliverySends'
  BY RecordTypeStep, ProcessTypeStep, AttemptTypeStep, WorkerTypeStep, DeliverySendsStep
     DEF TypeOK
<1>2. LaneInv' /\ RecordInv' /\ ClaimInv' /\ ChannelInv' /\ StreamInv'
  BY LaneInvStep, RecordInvStep, ClaimInvStep, ChannelInvStep, StreamInvStep DEF DeliveryInv
<1>3. TerminalAfterReceipt'
  BY <1>2, ToldStep DEF DeliveryInv
<1> QED BY <1>1, <1>2, <1>3 DEF DeliveryInv

(* The inductive invariant of the delivery protocol holds for every number  *)
(* of requests, attempts, environments, heroes, boots, restores and events. *)
THEOREM DeliveryCorrect == Spec => [](TypeOK /\ DeliveryInv)
<1>1. Init => TypeOK /\ DeliverySends /\ DeliveryInv
  BY ConstantsOK, InitInv
<1>2. TypeOK /\ DeliverySends /\ DeliveryInv /\ [Next]_vars
      => (TypeOK /\ DeliverySends /\ DeliveryInv)'
  BY ConstantsOK, InvStep
<1> QED BY <1>1, <1>2, PTL DEF Spec

(* A client that saw agent_done holds exactly the recorded log of a         *)
(* complete operation, whatever failed, crashed or was resumed before.      *)
THEOREM ReceiptBeforeTerminal == Spec => []TerminalAfterReceipt
<1>1. TypeOK /\ DeliveryInv => TerminalAfterReceipt
  BY DEF DeliveryInv
<1> QED BY <1>1, DeliveryCorrect, PTL

(* A working engine holds the lane, owns its record and runs in the         *)
(* timeline and for the hero that its record was claimed with.              *)
THEOREM EngineInScope == Spec => []WorkerOwnsTimeline
<1>1. TypeOK /\ DeliveryInv => WorkerOwnsTimeline
  BY DEF DeliveryInv, LaneInv, Holding, ClaimInv, WorkerOwnsTimeline
<1> QED BY <1>1, DeliveryCorrect, PTL

(* An engine only ever works in the environment its record is bound to.     *)
THEOREM EngineEnvironment == Spec => []OneEnvironment
<1>1. TypeOK /\ DeliveryInv => OneEnvironment
  BY DEF DeliveryInv, ClaimInv, OneEnvironment
<1> QED BY <1>1, DeliveryCorrect, PTL

(* A complete record never changes again.                                   *)
THEOREM ReceiptIsFrozen == Spec => ReceiptFrozen
<1>1. TypeOK /\ [Next]_vars =>
        [\A r \in Requests : status[r] = "complete" =>
           /\ status'[r] = "complete"
           /\ log'[r] = log[r]
           /\ owner'[r] = owner[r]]_vars
  BY CompleteStays
<1> QED BY <1>1, TypeCorrect, PTL DEF Spec, ReceiptFrozen

-----------------------------------------------------------------------------
(* No attempt touches an interrupted record of another timeline or hero.    *)
LEMMA OldTimelineStays ==
  ASSUME TypeOK, [Next]_vars, NEW r \in Requests, status[r] = "interrupted", ~InScope(r)
  PROVE  status'[r] = "interrupted" /\ log'[r] = log[r]
<1> DEFINE Same == status'[r] = "interrupted" /\ log'[r] = log[r]
<1>0. status \in [Requests -> Status] /\ log \in [Requests -> Seq(Event)]
      /\ req \in [Attempts -> Requests]
  BY DEF TypeOK, RecordType, AttemptType
<1>1. CASE UNCHANGED <<status, log>>
  BY <1>1
<1>2. ASSUME NEW a \in Attempts, ClaimNew(a) PROVE Same
  BY <1>0, <1>2 DEF ClaimNew
<1>3. ASSUME NEW a \in Attempts, ClaimInterrupted(a) PROVE Same
  <2>1. r # req[a]
    BY <1>3 DEF ClaimInterrupted
  <2> QED BY <1>0, <1>3, <2>1 DEF ClaimInterrupted
<1>4. ASSUME NEW a \in Attempts, BindRefused(a) PROVE Same
  BY <1>0, <1>4 DEF BindRefused
<1>5. ASSUME NEW a \in Attempts, Record(a) PROVE Same
  BY <1>0, <1>5 DEF Record
<1>6. ASSUME NEW a \in Attempts, Settle(a) PROVE Same
  BY <1>0, <1>6 DEF Settle
<1>7. CASE Boot
  BY <1>0, <1>7 DEF Boot
<1> HIDE DEF Same
<1> QED BY <1>1, <1>2, <1>3, <1>4, <1>5, <1>6, <1>7 DEF Same, vars, dbVars, Next, Client,
        Handler, Engine, Recorder, Post, Acquire, ClaimCompleted, ClaimRefused, Bind, Rebind,
        Drop, Disconnect, EngineEmits, EngineEnds, EngineFails, RecordFails,
        NoticeDisconnect, SettleFails, Deliver, Replay, RestoreSnapshot, ReplaceHero, Crash

(* After a restore or a change of hero an interrupted turn is history.      *)
THEOREM OldTimelineIsFrozen == Spec => OldTimelineFrozen
<1>1. TypeOK /\ [Next]_vars =>
        [\A r \in Requests : status[r] = "interrupted" /\ ~InScope(r) =>
           status'[r] = "interrupted" /\ log'[r] = log[r]]_vars
  BY OldTimelineStays
<1> QED BY <1>1, TypeCorrect, PTL DEF Spec, OldTimelineFrozen

(* Neither receipts nor what a restore left behind is ever rewritten.       *)
THEOREM HistoryIsFrozen == Spec => HistoryFrozen
BY ReceiptIsFrozen, OldTimelineIsFrozen DEF HistoryFrozen

(* The engine acts where, and with what, its operation was claimed.         *)
THEOREM EngineStaysWhereClaimed == Spec => []EngineWhereClaimed
<1>1. WorkerOwnsTimeline /\ OneEnvironment => EngineWhereClaimed
  BY DEF EngineWhereClaimed
<1> QED BY <1>1, EngineInScope, EngineEnvironment, PTL

-----------------------------------------------------------------------------
(* The refinement of TurnReceipts.                                          *)
receiptOf == [r \in Requests |-> IF status[r] = "complete" THEN log[r] ELSE <<>>]
toldOf    == [a \in Attempts |-> IF Told(a) THEN seen[a] ELSE <<>>]

(* What a client was told changes only when it is told, or asks again.      *)
LEMMA ToldUnchanged ==
  ASSUME TypeOK, DeliveryInv, DeliveryInv', [Next]_vars,
         NEW a \in Attempts, req'[a] = req[a], pc[a] # "idle" => pc'[a] # "idle",
         pc[a] = "idle" => seen'[a] = seen[a]
  PROVE  toldOf'[a] = toldOf[a]
<1>1. pc[a] # "idle" => ~Told(a) /\ ~Told(a)'
  BY DEF DeliveryInv, StreamInv
<1>2. pc[a] = "idle" => (Told(a)' <=> Told(a))
  BY DEF Told, EndsDone
<1> QED BY <1>1, <1>2 DEF toldOf

(* Receipts appear when Settle completes a record, and only then.           *)
LEMMA ReceiptUnchanged ==
  ASSUME TypeOK, [Next]_vars, NEW r \in Requests, status[r] # "complete" => status'[r] # "complete"
  PROVE  receiptOf'[r] = receiptOf[r]
<1>1. CASE status[r] = "complete"
  BY <1>1, CompleteStays DEF receiptOf
<1>2. CASE status[r] # "complete"
  BY <1>2 DEF receiptOf
<1> QED BY <1>1, <1>2

LEMMA RefinementStep ==
  ASSUME TypeOK, DeliveryInv, DeliveryInv', [Next]_vars
  PROVE  [Receipts!Next]_(Receipts!vars)
<1> DEFINE Stutter == receiptOf' = receiptOf /\ toldOf' = toldOf /\ req' = req
<1> DEFINE Step == Receipts!Next \/ Stutter
<1>0. /\ pc \in [Attempts -> Phase] /\ req \in [Attempts -> Requests]
      /\ status \in [Requests -> Status]
      /\ seen \in [Attempts -> Seq(Event \cup {"failed"})] /\ log \in [Requests -> Seq(Event)]
  BY DEF TypeOK, RecordType, AttemptType
<1>a. Step => [Receipts!Next]_(Receipts!vars)
  BY DEF Receipts!vars, receiptOf, toldOf
<1> HIDE DEF Step
<1>1. ASSUME UNCHANGED req, \A r \in Requests : status[r] # "complete" => status'[r] # "complete",
             \A b \in Attempts : IF pc[b] # "idle" THEN pc'[b] # "idle" ELSE seen'[b] = seen[b]
      PROVE  Step
  <2>1. \A b \in Attempts : toldOf'[b] = toldOf[b]
    BY <1>1, ToldUnchanged
  <2>2. \A r \in Requests : receiptOf'[r] = receiptOf[r]
    BY <1>1, ReceiptUnchanged
  <2>3. toldOf' = toldOf /\ receiptOf' = receiptOf
    BY <2>1, <2>2 DEF toldOf, receiptOf
  <2> QED BY <1>1, <2>3 DEF Step
<1>2. ASSUME UNCHANGED <<req, seen>>,
             \A r \in Requests : status[r] # "complete" => status'[r] # "complete"
      PROVE  Step
  <2>1. \A r \in Requests : receiptOf'[r] = receiptOf[r]
    BY <1>2, ReceiptUnchanged
  <2>2. toldOf' = toldOf /\ receiptOf' = receiptOf
    BY <1>2, <2>1 DEF toldOf, receiptOf, Told, EndsDone
  <2> QED BY <1>2, <2>2 DEF Step
<1>3. ASSUME NEW a \in Attempts, NEW r \in Requests, NEW again \in BOOLEAN, NEW e \in Envs,
             Post(a, r, again, e)
      PROVE  Step
  <2>1. /\ req' = [req EXCEPT ![a] = r] /\ seen' = [seen EXCEPT ![a] = <<>>]
        /\ UNCHANGED <<status, log>>
    BY <1>3 DEF Post, dbVars
  <2>2. receiptOf' = receiptOf
    BY <2>1 DEF receiptOf
  <2>3. toldOf' = [toldOf EXCEPT ![a] = <<>>]
    BY <1>0, <2>1, EmptyFact DEF toldOf, Told, EndsDone
  <2>4. Receipts!Ask(a, r)
    BY <2>1, <2>2, <2>3 DEF Receipts!Ask, receiptOf, toldOf
  <2> QED BY <2>4 DEF Step, Receipts!Next
<1>4. ASSUME NEW a \in Attempts, Spawn(a), pc[a] # "idle", UNCHANGED <<req, status>>
      PROVE  Step
  <2>1. \A b \in Attempts : IF pc[b] # "idle" THEN pc'[b] # "idle" ELSE seen'[b] = seen[b]
    BY <1>0, <1>4 DEF Spawn
  <2> QED BY <1>1, <1>4, <2>1
<1>5. ASSUME NEW a \in Attempts, ClaimNew(a) PROVE Step
  BY <1>0, <1>2, <1>5 DEF ClaimNew, askVars
<1>6. ASSUME NEW a \in Attempts, ClaimInterrupted(a) PROVE Step
  BY <1>0, <1>2, <1>6 DEF ClaimInterrupted, askVars
<1>7. ASSUME NEW a \in Attempts, BindRefused(a) PROVE Step
  BY <1>0, <1>2, <1>7 DEF BindRefused, askVars
<1>8. ASSUME NEW a \in Attempts, Record(a) PROVE Step
  <2>1. /\ pc[a] = "working" /\ UNCHANGED <<req, status, pc>>
        /\ \A b \in Attempts : b # a => seen'[b] = seen[b]
    BY <1>0, <1>8 DEF Record, askVars
  <2> QED BY <1>1, <2>1
<1>9. ASSUME NEW a \in Attempts, Settle(a) PROVE Step
  <2>0. PICK r \in Requests : r = req[a]
    BY <1>0
  <2> DEFINE complete == Succeeded(a) /\ terminal[a] = "done"
  <2>1. /\ status[r] = "running" /\ pc[a] = "working" /\ (complete => EndsDone(log[r]))
        /\ status' = [status EXCEPT ![r] = IF complete THEN "complete" ELSE "interrupted"]
        /\ UNCHANGED <<req, seen, log>>
    BY <1>9, <2>0 DEF Settle, Settleable, askVars
  <2>2. CASE ~complete
    BY <1>0, <1>2, <2>1, <2>2
  <2>3. CASE complete
    <3>1. toldOf' = toldOf
      BY <2>1 DEF toldOf, Told, EndsDone
    <3>2. receiptOf[r] = <<>> /\ receiptOf'[r] = log[r]
      BY <1>0, <2>1, <2>3 DEF receiptOf
    <3>3. \A x \in Requests : x # r => receiptOf'[x] = receiptOf[x]
      BY <1>0, <2>1 DEF receiptOf
    <3>4. receiptOf' = [receiptOf EXCEPT ![r] = receiptOf'[r]]
      BY <1>0, <3>3 DEF receiptOf
    <3>5. Receipts!IsAnswer(receiptOf'[r])
      BY <2>1, <2>3, <3>2 DEF Receipts!IsAnswer, EndsDone
    <3>6. Receipts!Answer(r)
      BY <2>1, <3>1, <3>2, <3>4, <3>5 DEF Receipts!Answer, receiptOf, toldOf
    <3> QED BY <3>6 DEF Step, Receipts!Next
  <2> QED BY <2>2, <2>3
<1>10. ASSUME NEW a \in Attempts, pc[a] \in {"delivering", "replaying"},
              status[req[a]] = "complete", seen'[a] = log[req[a]],
              \A b \in Attempts : b # a => seen'[b] = seen[b], UNCHANGED <<req, status, log>>
       PROVE  Step
  <2>1. receiptOf' = receiptOf /\ receiptOf[req[a]] = log[req[a]]
    BY <1>0, <1>10 DEF receiptOf
  <2>2. EndsDone(log[req[a]])
    BY <1>0, <1>10 DEF DeliveryInv, RecordInv
  <2>3. toldOf[a] = <<>>
    BY <1>10 DEF toldOf, DeliveryInv, StreamInv
  <2>4. toldOf'[a] = log[req[a]]
    BY <1>10, <2>2 DEF toldOf, Told, EndsDone
  <2>5. \A b \in Attempts : b # a => toldOf'[b] = toldOf[b]
    BY <1>10 DEF toldOf, Told, EndsDone
  <2>6. toldOf' = [toldOf EXCEPT ![a] = receiptOf[req[a]]]
    BY <2>1, <2>4, <2>5 DEF toldOf
  <2>7. Receipts!IsAnswer(receiptOf[req[a]])
    BY <2>1, <2>2 DEF Receipts!IsAnswer, EndsDone
  <2>8. Receipts!Tell(a)
    BY <1>10, <2>1, <2>3, <2>6, <2>7 DEF Receipts!Tell, receiptOf, toldOf
  <2> QED BY <2>8 DEF Step, Receipts!Next
<1>11. ASSUME NEW a \in Attempts, ~Told(a), ~Told(a)',
              \A b \in Attempts : b # a => seen'[b] = seen[b], UNCHANGED <<req, status, log>>
       PROVE  Step
  <2>1. receiptOf' = receiptOf
    BY <1>11 DEF receiptOf
  <2>2. \A b \in Attempts : toldOf'[b] = toldOf[b]
    BY <1>11 DEF toldOf, Told, EndsDone
  <2>3. toldOf' = toldOf
    BY <2>2 DEF toldOf
  <2> QED BY <1>11, <2>1, <2>3 DEF Step
<1>12. ASSUME NEW a \in Attempts, Deliver(a) PROVE Step
  <2>1. /\ pc[a] = "delivering" /\ UNCHANGED <<req, status, log>>
        /\ seen' = [seen EXCEPT ![a] = IF connected[a] THEN Append(seen[a], terminal[a]) ELSE seen[a]]
    BY <1>12 DEF Deliver, dbVars, askVars
  <2>2. CASE Told(a)'
    <3>1. status'[req'[a]] = "complete" /\ seen'[a] = log'[req'[a]]
      BY <2>2 DEF DeliveryInv, TerminalAfterReceipt
    <3> QED BY <1>0, <1>10, <2>1, <3>1
  <2>3. CASE ~Told(a)'
    <3>1. ~Told(a)
      BY <2>1 DEF DeliveryInv, StreamInv
    <3> QED BY <1>0, <1>11, <2>1, <2>3, <3>1
  <2> QED BY <2>2, <2>3
<1>13. ASSUME NEW a \in Attempts, Replay(a) PROVE Step
  <2>1. /\ pc[a] = "replaying" /\ UNCHANGED <<req, status, log>>
        /\ seen' = [seen EXCEPT ![a] = IF connected[a] THEN log[req[a]] ELSE seen[a]]
    BY <1>13 DEF Replay, dbVars, askVars
  <2>2. status[req[a]] = "complete"
    BY <2>1 DEF DeliveryInv, ClaimInv
  <2>3. CASE connected[a]
    BY <1>0, <1>10, <2>1, <2>2, <2>3
  <2>4. CASE ~connected[a]
    <3>1. seen' = seen
      BY <1>0, <2>1, <2>4
    <3> QED BY <1>2, <2>1, <3>1
  <2> QED BY <2>3, <2>4
<1>14. CASE Boot
  <2>1. \A r \in Requests : status[r] # "complete" => status'[r] # "complete"
    BY <1>0, <1>14 DEF Boot
  <2>2. UNCHANGED <<req, seen>>
    BY <1>14 DEF Boot, askVars
  <2> QED BY <1>a, <1>2, <2>1, <2>2
<1> QED BY <1>a, <1>2, <1>3, <1>4, <1>5, <1>6, <1>7, <1>8, <1>9, <1>12, <1>13, <1>14
        DEF vars, dbVars, askVars, Next, Client, Handler, Engine, Recorder, Acquire, ClaimCompleted,
        ClaimRefused, Bind, Rebind, Drop, Disconnect, EngineEmits, EngineEnds, EngineFails,
        RecordFails, NoticeDisconnect, SettleFails, RestoreSnapshot, ReplaceHero, Crash

(* The delivery protocol, with all its failures, implements "one answer per *)
(* request id, written once, told only as written".                         *)
THEOREM DeliveryImplementsReceipts == Spec => ImplementsReceipts
<1>1. Init => Receipts!Init
  BY ConstantsOK, InitInv DEF TypeOK, AttemptType, Init, Receipts!Init, Told, EndsDone
<1>2. /\ TypeOK /\ DeliveryInv /\ (TypeOK /\ DeliveryInv)' /\ [Next]_vars
      => [Receipts!Next]_(Receipts!vars)
  BY RefinementStep
<1> QED BY <1>1, <1>2, DeliveryCorrect, PTL DEF Spec, ImplementsReceipts, Receipts!Spec
=============================================================================

--------------------------- MODULE CampaignProofs ---------------------------
(***************************************************************************)
(* What one campaign's own machinery promises, for every number of starts, *)
(* events, letters, screens and pictures: the runtime's children are owned, *)
(* a notification shows once, an effect happens once and in its time, an    *)
(* update of the settings is whole, a model reported as complete is on disk *)
(* as published, a command of a fight is answered once and alike, and the   *)
(* pictures in use stay what they were given.  Each part has an inductive   *)
(* invariant, one lemma per action, and its theorem at the end.             *)
(***************************************************************************)
EXTENDS LocalRuntime, Notifications, Saves, Settings, Downloads, Encounters, MediaLibrary,
        FiniteSetTheorems, SequenceTheorems, TLAPS

(* The runtime's children.  A child is retained under the current          *)
(* generation, or has just been spawned by the one task that holds the     *)
(* executor; a task that spawns has a generation of its own.               *)
Inner == [shut : BOOLEAN, gen : Nat, model : Nat, media : Nat,
          status : {"stopped", "starting", "running", "degraded", "failed"}]
StartTask == [at : {"none", "queued", "spawn", "retain", "probe", "over"}, role : Roles,
              gen : Nat, media : BOOLEAN]
Children == [gen : Nat, role : Roles]

RuntimeTyped ==
  /\ inner \in Inner /\ start \in [Starts -> StartTask] /\ executor \in Starts \cup {Nobody}
  /\ live \subseteq Children /\ exited \subseteq Children /\ closing \in BOOLEAN

SlotsAreCurrent ==
  /\ inner.model \in {NoChild, inner.gen} /\ inner.media \in {NoChild, inner.gen}
  /\ inner.shut => inner.model = NoChild /\ inner.media = NoChild

OneAtWork ==
  \A s \in Starts :
    /\ start[s].at \in {"spawn", "retain"} => executor = s
    /\ executor = s => start[s].at \in {"spawn", "retain"}
    /\ start[s].at \in {"spawn", "retain", "probe"} => start[s].gen # 0

InSlot(c) ==
  \/ c.role = "model" /\ inner.model # NoChild /\ c.gen = inner.model
  \/ c.role = "media" /\ inner.media # NoChild /\ c.gen = inner.media
JustSpawned(c) ==
  \E s \in Starts : /\ executor = s /\ start[s].at = "retain"
                    /\ c.gen = start[s].gen /\ c.role = start[s].role
LiveIsOwned == \A c \in live : InSlot(c) \/ JustSpawned(c)

RuntimeInv == RuntimeTyped /\ SlotsAreCurrent /\ OneAtWork /\ LiveIsOwned

LEMMA NobodyStarts == Starts \subseteq Nat /\ Nobody \notin Starts
BY LocalRuntimeAssumption DEF Starts, Nobody

LEMMA RuntimeInvInit == RuntimeInit => RuntimeInv
<1> SUFFICES ASSUME RuntimeInit PROVE RuntimeInv
  OBVIOUS
<1>1. RuntimeTyped
  BY DEF RuntimeInit, RuntimeTyped, Unborn, Inner, StartTask, Children, Roles, NoChild
<1>2. SlotsAreCurrent /\ LiveIsOwned
  BY DEF RuntimeInit, SlotsAreCurrent, LiveIsOwned
<1>3. OneAtWork
  BY NobodyStarts DEF RuntimeInit, OneAtWork, Unborn
<1> QED BY <1>1, <1>2, <1>3 DEF RuntimeInv

(* The children in the slots, by name.                                     *)
LEMMA RetainedAre ==
  ASSUME RuntimeTyped
  PROVE  Retained \subseteq Children /\ \A c \in Children : c \in Retained <=> InSlot(c)
BY DEF Retained, Child, Roles, InSlot, Children, RuntimeTyped, Inner, NoChild

LEMMA InnerIs ==
  ASSUME NEW shut \in BOOLEAN, NEW gen \in Nat, NEW m \in Nat, NEW d \in Nat,
         NEW st \in {"stopped", "starting", "running", "degraded", "failed"}
  PROVE  [shut |-> shut, gen |-> gen, model |-> m, media |-> d, status |-> st] \in Inner
BY DEF Inner

LEMMA TaskIs ==
  ASSUME NEW at \in {"none", "queued", "spawn", "retain", "probe", "over"}, NEW role \in Roles,
         NEW gen \in Nat, NEW m \in BOOLEAN
  PROVE  [at |-> at, role |-> role, gen |-> gen, media |-> m] \in StartTask
BY DEF StartTask

(* Emptying the slots kills what was in them: what was just spawned stays. *)
LEMMA StoppedIsClean ==
  ASSUME RuntimeInv, NEW p \in BOOLEAN, Kill(Retained), UNCHANGED executor,
         NEW st \in {"stopped", "starting", "failed"},
         inner' = [Stopped(p) EXCEPT !.status = st],
         start' \in [Starts -> StartTask], UNCHANGED closing,
         \A s \in Starts : \/ start'[s] = start[s]
                           \/ start[s].at = "probe" /\ start'[s] = [start[s] EXCEPT !.at = "over"]
  PROVE  RuntimeInv'
<1> USE DEF RuntimeInv
<1> DEFINE downed == inner.shut \/ p
           next == inner.gen + 1
<1>0. downed \in BOOLEAN /\ next \in Nat
  BY DEF RuntimeTyped, Inner
<1>1. inner' = [shut |-> downed, gen |-> next, model |-> NoChild, media |-> NoChild, status |-> st]
  BY DEF Stopped
<1> HIDE DEF downed, next
<1>2. RuntimeTyped'
  <2>1. inner' \in Inner
    <3>1. NoChild \in Nat /\ st \in {"stopped", "starting", "running", "degraded", "failed"}
      BY DEF NoChild
    <3>2. [shut |-> downed, gen |-> next, model |-> NoChild, media |-> NoChild, status |-> st] \in Inner
      BY <1>0, <3>1, InnerIs
    <3> QED BY <1>1, <3>2
  <2>2. live' \subseteq Children /\ exited' \subseteq Children
    BY DEF RuntimeTyped, Kill
  <2> QED BY <2>1, <2>2 DEF RuntimeTyped
<1>3. SlotsAreCurrent'
  BY <1>1 DEF SlotsAreCurrent
<1>4. OneAtWork'
  BY DEF OneAtWork, RuntimeTyped, StartTask
<1>5. LiveIsOwned'
  <2> SUFFICES ASSUME NEW c \in live' PROVE JustSpawned(c)'
    BY DEF LiveIsOwned
  <2>1. c \in live /\ c \notin Retained /\ c \in Children
    BY DEF Kill, RuntimeTyped
  <2>2. JustSpawned(c)
    BY <2>1, RetainedAre DEF LiveIsOwned
  <2> QED BY <2>2 DEF JustSpawned
<1> QED BY <1>2, <1>3, <1>4, <1>5

(* Steps that leave the slots alone.                                       *)
Waiting(task) == task.at \notin {"spawn", "retain", "probe"}
LEMMA SlotsAlone ==
  ASSUME RuntimeInv, UNCHANGED executor,
         NEW st \in {"stopped", "starting", "running", "degraded", "failed"},
         inner' = inner \/ inner' = [inner EXCEPT !.status = st],
         live' \subseteq live, exited' \subseteq Children, closing' \in BOOLEAN,
         start' \in [Starts -> StartTask],
         \A s \in Starts : \/ start'[s] = start[s]
                           \/ start[s].at \notin {"spawn", "retain"} /\ Waiting(start'[s])
  PROVE  RuntimeInv'
<1> USE DEF RuntimeInv
<1>1. inner' \in Inner /\ inner'.model = inner.model /\ inner'.media = inner.media
      /\ inner'.gen = inner.gen /\ inner'.shut = inner.shut
  BY DEF RuntimeTyped, Inner
<1>2. RuntimeTyped'
  BY <1>1 DEF RuntimeTyped
<1>3. SlotsAreCurrent'
  BY <1>1 DEF SlotsAreCurrent
<1>4. OneAtWork'
  BY DEF OneAtWork, Waiting
<1>5. LiveIsOwned'
  <2> SUFFICES ASSUME NEW c \in live' PROVE InSlot(c)' \/ JustSpawned(c)'
    BY DEF LiveIsOwned
  <2>1. CASE InSlot(c)
    BY <1>1, <2>1 DEF InSlot
  <2>2. CASE JustSpawned(c)
    BY <2>2 DEF JustSpawned
  <2> QED BY <2>1, <2>2 DEF LiveIsOwned
<1> QED BY <1>2, <1>3, <1>4, <1>5

LEMMA ReserveStep ==
  ASSUME RuntimeInv, NEW s \in Starts, NEW b \in BOOLEAN, Reserve(s, b)
  PROVE  RuntimeInv'
<1> DEFINE born == [Unborn EXCEPT !.at = "queued", !.media = b]
<1>1. born \in StartTask /\ Waiting(born)
  BY DEF Unborn, StartTask, Roles, Waiting
<1>2. start' = [start EXCEPT ![s] = born] /\ inner' = [inner EXCEPT !.status = "starting"]
      /\ UNCHANGED <<executor, live, exited, closing>> /\ start[s].at = "none"
  BY DEF Reserve
<1> HIDE DEF born
<1>3. start' \in [Starts -> StartTask]
  BY <1>1, <1>2 DEF RuntimeInv, RuntimeTyped
<1>4. \A t \in Starts : \/ start'[t] = start[t]
                        \/ start[t].at \notin {"spawn", "retain"} /\ Waiting(start'[t])
  BY <1>1, <1>2 DEF RuntimeInv, RuntimeTyped
<1>5. exited' \subseteq Children /\ closing' \in BOOLEAN /\ live' \subseteq live
  BY <1>2 DEF RuntimeInv, RuntimeTyped
<1> QED BY <1>2, <1>3, <1>4, <1>5, SlotsAlone

(* A task that is over no longer counts.                                   *)
LEMMA Ended ==
  ASSUME RuntimeInv, NEW s \in Starts, start[s].at \notin {"spawn", "retain"}, Ends(s)
  PROVE  /\ start' \in [Starts -> StartTask]
         /\ \A t \in Starts : \/ start'[t] = start[t]
                              \/ start[t].at \notin {"spawn", "retain"} /\ Waiting(start'[t])
BY DEF RuntimeInv, RuntimeTyped, Ends, StartTask, Waiting

LEMMA EnterStartStep ==
  ASSUME RuntimeInv, NEW s \in Starts, EnterStart(s)
  PROVE  RuntimeInv'
<1> USE DEF RuntimeInv
<1>1. executor = Nobody /\ start[s].at = "queued" /\ UNCHANGED closing
  BY DEF EnterStart
<1>0. \A c \in live : InSlot(c)
  BY <1>1, NobodyStarts DEF LiveIsOwned, JustSpawned
<1>2. CASE inner.shut /\ Ends(s) /\ UNCHANGED <<inner, executor, live, exited>>
  <2>1. live' \subseteq live /\ exited' \subseteq Children /\ closing' \in BOOLEAN
    BY <1>1, <1>2 DEF RuntimeTyped
  <2> QED BY <1>1, <1>2, <2>1, Ended, SlotsAlone
<1>3. CASE /\ ~inner.shut
           /\ inner' = [Stopped(FALSE) EXCEPT !.status = "starting"]
           /\ Kill(Retained)
           /\ start' = [start EXCEPT ![s].at = "spawn", ![s].gen = inner.gen + 1]
           /\ executor' = s
  <2>0. inner' = [shut |-> inner.shut, gen |-> inner.gen + 1, model |-> NoChild,
                  media |-> NoChild, status |-> "starting"]
    BY <1>3 DEF Stopped, RuntimeTyped, Inner
  <2>1. RuntimeTyped'
    <3>1. inner' \in Inner
      BY <2>0 DEF RuntimeTyped, Inner, NoChild
    <3>2. start' \in [Starts -> StartTask]
      <4> DEFINE next == inner.gen + 1
      <4>1. next \in Nat
        BY DEF RuntimeTyped, Inner
      <4>2. start' = [start EXCEPT ![s].at = "spawn", ![s].gen = next]
        BY <1>3
      <4> HIDE DEF next
      <4> QED BY <4>1, <4>2 DEF RuntimeTyped, StartTask
    <3> QED BY <1>1, <1>3, <3>1, <3>2 DEF RuntimeTyped, Kill
  <2>2. SlotsAreCurrent'
    BY <2>0 DEF SlotsAreCurrent
  <2>3. OneAtWork'
    <3> SUFFICES ASSUME NEW t \in Starts
                 PROVE  /\ start'[t].at \in {"spawn", "retain"} => executor' = t
                        /\ executor' = t => start'[t].at \in {"spawn", "retain"}
                        /\ start'[t].at \in {"spawn", "retain", "probe"} => start'[t].gen # 0
      BY DEF OneAtWork
    <3>1. CASE t = s
      BY <1>3, <3>1 DEF RuntimeTyped, Inner, StartTask
    <3>2. CASE t # s
      <4>1. start'[t] = start[t]
        BY <1>3, <3>2 DEF RuntimeTyped
      <4> QED BY <1>1, <1>3, <3>2, <4>1, NobodyStarts DEF OneAtWork
    <3> QED BY <3>1, <3>2
  <2>4. LiveIsOwned'
    <3>1. live' = {}
      BY <1>0, <1>3, RetainedAre DEF Kill, RuntimeTyped
    <3> QED BY <3>1 DEF LiveIsOwned
  <2> QED BY <2>1, <2>2, <2>3, <2>4
<1> QED BY <1>2, <1>3 DEF EnterStart

LEMMA SpawnStep ==
  ASSUME RuntimeInv, NEW s \in Starts, NEW role \in Roles, Spawn(s, role)
  PROVE  RuntimeInv'
<1> USE DEF RuntimeInv
<1> DEFINE gen == start[s].gen
<1>1. /\ start[s].at = "spawn" /\ start[s].role = role /\ UNCHANGED <<exited, closing>>
      /\ gen \in Nat /\ executor = s
  BY DEF Spawn, IsAt, RuntimeTyped, StartTask, OneAtWork
<1>0. \A c \in live : InSlot(c)
  BY <1>1 DEF LiveIsOwned, JustSpawned
<1>2. CASE live' = live \cup {Child(gen, role)} /\ Goes(s, "retain", role) /\ UNCHANGED <<inner, executor>>
  <2>1. start' \in [Starts -> StartTask] /\ start'[s] = [start[s] EXCEPT !.at = "retain", !.role = role]
        /\ \A t \in Starts \ {s} : start'[t] = start[t]
    BY <1>2 DEF RuntimeTyped, StartTask, Goes
  <2>2. start'[s].at = "retain" /\ start'[s].role = role /\ start'[s].gen = gen
    BY <2>1 DEF RuntimeTyped, StartTask
  <2>3. RuntimeTyped'
    BY <1>1, <1>2, <2>1 DEF RuntimeTyped, Children, Child
  <2>4. SlotsAreCurrent'
    BY <1>2 DEF SlotsAreCurrent
  <2>5. OneAtWork'
    <3>1. gen # 0
      BY <1>1 DEF OneAtWork
    <3>2. \A t \in Starts \ {s} : start[t].at \notin {"spawn", "retain"}
      BY <1>1 DEF OneAtWork
    <3> QED BY <1>1, <1>2, <2>1, <2>2, <3>1, <3>2 DEF OneAtWork
  <2>6. LiveIsOwned'
    <3> SUFFICES ASSUME NEW c \in live' PROVE InSlot(c)' \/ JustSpawned(c)'
      BY DEF LiveIsOwned
    <3>1. CASE c \in live
      BY <1>0, <1>2, <3>1 DEF InSlot
    <3>2. CASE c = Child(gen, role)
      BY <1>1, <1>2, <2>2, <3>2 DEF JustSpawned, Child
    <3> QED BY <1>2, <3>1, <3>2
  <2> QED BY <2>3, <2>4, <2>5, <2>6
<1>3. CASE /\ inner' = StatusIfCurrent(gen, Failure(role)) /\ Ends(s)
           /\ executor' = Nobody /\ UNCHANGED live
  <2>1. inner' \in Inner /\ inner'.model = inner.model /\ inner'.media = inner.media
        /\ inner'.gen = inner.gen /\ inner'.shut = inner.shut
    BY <1>3 DEF RuntimeTyped, Inner, StatusIfCurrent, Failure
  <2>2. start' \in [Starts -> StartTask] /\ start'[s].at = "over"
        /\ \A t \in Starts \ {s} : start'[t] = start[t]
    BY <1>3 DEF RuntimeTyped, StartTask, Ends
  <2>3. RuntimeTyped'
    BY <1>1, <1>3, <2>1, <2>2 DEF RuntimeTyped
  <2>4. SlotsAreCurrent'
    BY <2>1 DEF SlotsAreCurrent
  <2>5. OneAtWork'
    BY <1>1, <1>3, <2>2, NobodyStarts DEF OneAtWork
  <2>6. LiveIsOwned'
    BY <1>0, <1>3, <2>1 DEF LiveIsOwned, InSlot
  <2> QED BY <2>3, <2>4, <2>5, <2>6
<1> QED BY <1>2, <1>3 DEF Spawn

LEMMA RetainStep ==
  ASSUME RuntimeInv, NEW s \in Starts, NEW role \in Roles, Retain(s, role)
  PROVE  RuntimeInv'
<1> USE DEF RuntimeInv
<1> DEFINE gen == start[s].gen
<1>1. /\ start[s].at = "retain" /\ start[s].role = role /\ executor' = Nobody /\ UNCHANGED closing
      /\ gen \in Nat \ {0} /\ executor = s
  BY DEF Retain, IsAt, RuntimeTyped, StartTask, OneAtWork
<1>0. \A c \in live : InSlot(c) \/ c = Child(gen, role)
  <2> SUFFICES ASSUME NEW c \in live, JustSpawned(c) PROVE c = Child(gen, role)
    BY DEF LiveIsOwned
  <2>1. c \in Children /\ c.gen = gen /\ c.role = role
    BY <1>1 DEF JustSpawned, RuntimeTyped
  <2> QED BY <2>1 DEF Children, Child
<1>2. CASE MayRetain(s) /\ inner' = [inner EXCEPT ![role] = gen]
           /\ Goes(s, "probe", role) /\ UNCHANGED <<live, exited>>
  <2>0. inner.shut = FALSE /\ inner.gen = gen
    BY <1>2 DEF MayRetain, IsCurrent, RuntimeTyped, Inner
  <2>1. inner' \in Inner /\ inner'.gen = gen /\ inner'.shut = FALSE
        /\ inner'.model = (IF role = "model" THEN gen ELSE inner.model)
        /\ inner'.media = (IF role = "media" THEN gen ELSE inner.media)
    BY <1>1, <1>2, <2>0 DEF RuntimeTyped, Inner, Roles
  <2>2. start' \in [Starts -> StartTask] /\ start'[s].at = "probe" /\ start'[s].gen = gen
        /\ \A t \in Starts \ {s} : start'[t] = start[t]
    BY <1>2 DEF RuntimeTyped, StartTask, Goes
  <2>3. RuntimeTyped'
    BY <1>1, <1>2, <2>1, <2>2 DEF RuntimeTyped
  <2>4. SlotsAreCurrent'
    BY <2>0, <2>1 DEF SlotsAreCurrent
  <2>5. OneAtWork'
    BY <1>1, <2>2, NobodyStarts DEF OneAtWork
  <2>6. LiveIsOwned'
    <3> SUFFICES ASSUME NEW c \in live PROVE InSlot(c)'
      BY <1>2 DEF LiveIsOwned
    <3>1. CASE InSlot(c)
      BY <1>1, <2>0, <2>1, <3>1 DEF InSlot, SlotsAreCurrent, NoChild
    <3>2. CASE c = Child(gen, role)
      BY <1>1, <2>1, <3>2 DEF InSlot, Child, Roles, NoChild
    <3> QED BY <1>0, <3>1, <3>2
  <2> QED BY <2>3, <2>4, <2>5, <2>6
<1>3. CASE ~MayRetain(s) /\ Kill({Child(gen, role)}) /\ Ends(s) /\ UNCHANGED inner
  <2>2. start' \in [Starts -> StartTask] /\ start'[s].at = "over"
        /\ \A t \in Starts \ {s} : start'[t] = start[t]
    BY <1>3 DEF RuntimeTyped, StartTask, Ends
  <2>3. RuntimeTyped'
    BY <1>1, <1>3, <2>2 DEF RuntimeTyped, Kill
  <2>4. SlotsAreCurrent'
    BY <1>3 DEF SlotsAreCurrent
  <2>5. OneAtWork'
    BY <1>1, <2>2, NobodyStarts DEF OneAtWork
  <2>6. LiveIsOwned'
    <3> SUFFICES ASSUME NEW c \in live' PROVE InSlot(c)'
      BY DEF LiveIsOwned
    <3>1. c \in live /\ c # Child(gen, role)
      BY <1>3 DEF Kill
    <3> QED BY <1>0, <1>3, <3>1 DEF InSlot
  <2> QED BY <2>3, <2>4, <2>5, <2>6
<1> QED BY <1>2, <1>3 DEF Retain

LEMMA ProbeSteps ==
  ASSUME RuntimeInv, NEW s \in Starts,
         ModelHealthy(s) \/ ModelUnhealthy(s) \/ (\E b \in BOOLEAN : MediaProbed(s, b))
  PROVE  RuntimeInv'
<1> DEFINE gen == start[s].gen
<1>1. executor = Nobody /\ start[s].at = "probe" /\ gen \in Nat \ {0} /\ UNCHANGED closing
  BY DEF ModelHealthy, ModelUnhealthy, MediaProbed, IsAt, RuntimeInv, OneAtWork, RuntimeTyped, StartTask
<1>2. closing' \in BOOLEAN /\ exited \subseteq Children
  BY <1>1 DEF RuntimeInv, RuntimeTyped
<1>3. ASSUME Ends(s), inner' = inner \/ (\E st \in {"running", "degraded"} : inner' = StatusIfCurrent(gen, st)),
             UNCHANGED <<executor, live, exited>>
      PROVE  RuntimeInv'
  <2>1. PICK st \in {"stopped", "starting", "running", "degraded", "failed"} :
           inner' = inner \/ inner' = [inner EXCEPT !.status = st]
    BY <1>3 DEF StatusIfCurrent
  <2>2. live' \subseteq live /\ exited' \subseteq Children
    BY <1>2, <1>3
  <2> QED BY <1>1, <1>2, <1>3, <2>1, <2>2, Ended, SlotsAlone
<1>4. CASE ModelHealthy(s)
  <2>1. CASE \/ Ends(s) /\ UNCHANGED <<inner, executor>>
             \/ Ends(s) /\ inner' = StatusIfCurrent(gen, "running") /\ UNCHANGED executor
    BY <1>3, <1>4, <2>1 DEF ModelHealthy
  <2>2. CASE Goes(s, "spawn", "media") /\ executor' = s /\ UNCHANGED inner
    <3> USE DEF RuntimeInv
    <3>1. Goes(s, "spawn", "media") /\ executor' = s /\ UNCHANGED <<inner, live, exited>>
      BY <1>4, <2>2 DEF ModelHealthy
    <3>2. start' \in [Starts -> StartTask] /\ start'[s].at = "spawn" /\ start'[s].gen = gen
          /\ \A t \in Starts \ {s} : start'[t] = start[t]
      BY <3>1 DEF RuntimeTyped, StartTask, Goes, Roles
    <3>3. RuntimeTyped'
      BY <1>1, <3>1, <3>2 DEF RuntimeTyped
    <3>4. SlotsAreCurrent'
      BY <3>1 DEF SlotsAreCurrent
    <3>5. OneAtWork'
      BY <1>1, <3>1, <3>2, NobodyStarts DEF OneAtWork
    <3>6. LiveIsOwned'
      BY <1>1, <3>1, NobodyStarts DEF LiveIsOwned, InSlot, JustSpawned
    <3> QED BY <3>3, <3>4, <3>5, <3>6
  <2> QED BY <1>4, <2>1, <2>2 DEF ModelHealthy
<1>5. CASE ModelUnhealthy(s)
  <2>1. CASE UNCHANGED <<inner, live, exited>>
    BY <1>3, <1>5, <2>1 DEF ModelUnhealthy
  <2>2. CASE inner' = [Stopped(FALSE) EXCEPT !.status = "failed"] /\ Kill(Retained)
    <3>1. Ends(s) /\ UNCHANGED executor
      BY <1>5 DEF ModelUnhealthy
    <3>2. start' \in [Starts -> StartTask]
      BY <1>1, <3>1, Ended
    <3>3. \A t \in Starts : \/ start'[t] = start[t]
                            \/ start[t].at = "probe" /\ start'[t] = [start[t] EXCEPT !.at = "over"]
      BY <1>1, <3>1 DEF Ends, RuntimeInv, RuntimeTyped
    <3> QED BY <1>1, <2>2, <3>1, <3>2, <3>3, StoppedIsClean
  <2> QED BY <1>5, <2>1, <2>2 DEF ModelUnhealthy
<1>6. CASE \E b \in BOOLEAN : MediaProbed(s, b)
  BY <1>3, <1>6 DEF MediaProbed
<1> QED BY <1>4, <1>5, <1>6

LEMMA OutsideSteps ==
  ASSUME RuntimeInv,
         \/ \E c \in live : Dies(c)
         \/ \E c \in exited : Monitor(c)
         \/ CloseControl \/ ExecutorEnds
  PROVE  RuntimeInv'
<1>1. UNCHANGED executor /\ live' \subseteq live /\ closing' \in BOOLEAN
  BY DEF Dies, Monitor, CloseControl, ExecutorEnds, RuntimeInv, RuntimeTyped
<1>2. exited' \subseteq Children
  BY DEF Dies, Monitor, CloseControl, ExecutorEnds, RuntimeInv, RuntimeTyped
<1>3. PICK st \in {"stopped", "starting", "running", "degraded", "failed"} :
         inner' = inner \/ inner' = [inner EXCEPT !.status = st]
  BY DEF Dies, Monitor, CloseControl, ExecutorEnds, StatusIfCurrent
<1>4. /\ start' \in [Starts -> StartTask]
      /\ \A s \in Starts : \/ start'[s] = start[s]
                           \/ start[s].at \notin {"spawn", "retain"} /\ Waiting(start'[s])
  <2>1. CASE ~ExecutorEnds
    BY <2>1 DEF Dies, Monitor, CloseControl, RuntimeInv, RuntimeTyped
  <2>2. CASE ExecutorEnds
    <3> SUFFICES ASSUME NEW s \in Starts
                 PROVE  /\ start'[s] \in StartTask
                        /\ start[s].at \notin {"spawn", "retain"} /\ Waiting(start'[s])
      BY <2>2 DEF ExecutorEnds
    <3>1. start'[s] = IF start[s].at = "none" THEN Unborn ELSE [start[s] EXCEPT !.at = "over"]
      BY <2>2 DEF ExecutorEnds
    <3>2. start[s] \in StartTask
      BY DEF RuntimeInv, RuntimeTyped
    <3>3. start'[s] \in StartTask /\ Waiting(start'[s])
      BY <3>1, <3>2 DEF StartTask, Waiting, Unborn, Roles
    <3>4. start[s].at \notin {"spawn", "retain"}
      BY <2>2, NobodyStarts DEF ExecutorEnds, RuntimeInv, OneAtWork
    <3> QED BY <3>3, <3>4
  <2> QED BY <2>1, <2>2
<1> QED BY <1>1, <1>2, <1>3, <1>4, SlotsAlone

LEMMA StopSteps ==
  ASSUME RuntimeInv, Stop \/ Shutdown
  PROVE  RuntimeInv'
<1>1. PICK p \in BOOLEAN : inner' = Stopped(p)
  BY DEF Stop, Shutdown
<1>2. Stopped(p) = [Stopped(p) EXCEPT !.status = "stopped"]
  BY DEF Stopped
<1>3. Kill(Retained) /\ UNCHANGED <<start, executor, closing>>
  BY DEF Stop, Shutdown
<1>4. start' \in [Starts -> StartTask]
  BY <1>3 DEF RuntimeInv, RuntimeTyped
<1> QED BY <1>1, <1>2, <1>3, <1>4, StoppedIsClean

LEMMA RuntimeStep == RuntimeInv /\ [RuntimeNext]_runtimeVars => RuntimeInv'
<1> SUFFICES ASSUME RuntimeInv, [RuntimeNext]_runtimeVars PROVE RuntimeInv'
  OBVIOUS
<1>1. CASE UNCHANGED runtimeVars
  BY <1>1 DEF runtimeVars, RuntimeInv, RuntimeTyped, SlotsAreCurrent, OneAtWork, LiveIsOwned, InSlot,
              JustSpawned
<1>2. ASSUME NEW s \in Starts, EnterStart(s) PROVE RuntimeInv'
  BY <1>2, EnterStartStep
<1>3. ASSUME NEW s \in Starts, ModelHealthy(s) \/ ModelUnhealthy(s) PROVE RuntimeInv'
  BY <1>3, ProbeSteps
<1>4. ASSUME NEW s \in Starts, NEW b \in BOOLEAN, Reserve(s, b) \/ MediaProbed(s, b) PROVE RuntimeInv'
  BY <1>4, ReserveStep, ProbeSteps
<1>5. ASSUME NEW s \in Starts, NEW role \in Roles, Spawn(s, role) \/ Retain(s, role) PROVE RuntimeInv'
  BY <1>5, SpawnStep, RetainStep
<1> QED BY <1>1, <1>2, <1>3, <1>4, <1>5, OutsideSteps, StopSteps DEF RuntimeNext

(* No child of the runtimes is left running on its own: every one that     *)
(* lives is in the slot of the current generation, or in the hands of the  *)
(* task that has just spawned it; and no slot is filled after the shutdown.*)
THEOREM ChildrenAreOwned == RuntimeSpec => []ChildrenOwned
<1>1. RuntimeInv => ChildrenOwned
  <2> SUFFICES ASSUME RuntimeInv PROVE ChildrenOwned
    OBVIOUS
  <2>1. Retained \subseteq Children /\ \A c \in Children : c \in Retained <=> InSlot(c)
    BY RetainedAre DEF RuntimeInv
  <2>2. \A c \in live : c \in Retained \cup InHand
    <3> SUFFICES ASSUME NEW c \in live, JustSpawned(c) PROVE c \in InHand
      BY <2>1 DEF RuntimeInv, RuntimeTyped, LiveIsOwned
    <3>1. PICK s \in Starts : executor = s /\ c.gen = start[s].gen /\ c.role = start[s].role
      BY DEF JustSpawned
    <3>2. c = Child(start[s].gen, c.role) /\ c.role \in Roles
      BY <3>1 DEF RuntimeInv, RuntimeTyped, Children, Child
    <3> QED BY <3>1, <3>2 DEF InHand
  <2>3. \A c \in Retained : c.gen = inner.gen
    BY <2>1 DEF RuntimeInv, SlotsAreCurrent, InSlot
  <2>4. inner.shut => Retained = {}
    BY <2>1 DEF RuntimeInv, SlotsAreCurrent, InSlot
  <2> QED BY <2>2, <2>3, <2>4 DEF ChildrenOwned
<1>2. RuntimeInv /\ [RuntimeNext]_runtimeVars => RuntimeInv'
  BY RuntimeStep
<1> QED BY <1>1, <1>2, RuntimeInvInit, PTL DEF RuntimeSpec

-----------------------------------------------------------------------------
(* The notifications.  Whatever was reported or shown is covered by the    *)
(* ledger on disk, and lies before the event on offer; a spent token is in *)
(* no outbox.                                                              *)
OnOffer == [at : {"consumed", "posted", "shown"}, series : Series, round : Nat]
Kept == [ledger : [Series -> Nat], outbox : SUBSET Nat]
Report == [series : Series, round : Nat, how : {"sent", "suppressed", "denied"}]
Toast == [series : Series, round : Nat]
Clicked == [token : Nat, scope : Scopes \cup {"none"}]

NotesTyped ==
  /\ kept \in Kept /\ keptDisk \in Kept /\ offer \in OnOffer \cup {Silent}
  /\ gameScope \in Scopes \cup {"none"} /\ reports \in Seq(Report) /\ toasts \in Seq(Toast)
  /\ clicks \in Seq(Clicked)

LedgerGrows == \A s \in Series : keptDisk.ledger[s] <= kept.ledger[s]
EventsAreKept ==
  /\ \A i \in DOMAIN reports : reports[i].round <= keptDisk.ledger[reports[i].series]
  /\ \A i \in DOMAIN toasts : toasts[i].round <= keptDisk.ledger[toasts[i].series]
OfferIsKept ==
  offer # Silent => /\ offer.round = keptDisk.ledger[offer.series]
                    /\ offer.round = kept.ledger[offer.series]
OfferIsLast ==
  offer # Silent =>
    /\ \A i \in DOMAIN reports : reports[i].series = offer.series => reports[i].round < offer.round
    /\ offer.at # "shown" =>
         \A i \in DOMAIN toasts : toasts[i].series = offer.series => toasts[i].round < offer.round
KeptBackIsNotShown ==
  \A i \in DOMAIN reports : reports[i].how # "sent" =>
    \A j \in DOMAIN toasts : ~(toasts[j].series = reports[i].series /\ toasts[j].round = reports[i].round)
TokensAreSpent ==
  \A i \in DOMAIN clicks :
    /\ clicks[i].token \in DOMAIN toasts
    /\ clicks[i].token \notin kept.outbox \cup keptDisk.outbox
ClicksAreOne == \A i, j \in DOMAIN clicks : clicks[i].token = clicks[j].token => i = j
ClicksAreLocal ==
  \A i \in DOMAIN clicks : ScopeOf[toasts[clicks[i].token].series] \in {"app", clicks[i].scope}

EventsInv ==
  /\ LedgerGrows /\ EventsAreKept /\ OfferIsKept /\ OfferIsLast
  /\ InOrder(reports) /\ InOrder(toasts) /\ KeptBackIsNotShown
TokensInv == TokensAreSpent /\ ClicksAreOne /\ ClicksAreLocal
NotesInv == NotesTyped /\ EventsInv /\ TokensInv

LEMMA NotesInvInit == NotesInit => NotesInv
<1> SUFFICES ASSUME NotesInit PROVE NotesInv
  OBVIOUS
<1> USE DEF NotesInit
<1>1. NotesTyped
  BY EmptySeq DEF NotesTyped, Kept
<1>2. EventsInv
  BY DEF EventsInv, LedgerGrows, EventsAreKept, OfferIsKept, OfferIsLast, InOrder, KeptBackIsNotShown
<1>3. TokensInv
  BY DEF TokensInv, TokensAreSpent, ClicksAreOne, ClicksAreLocal
<1> QED BY <1>1, <1>2, <1>3 DEF NotesInv

(* What an appended sequence holds.                                        *)
LEMMA Appended ==
  ASSUME NEW S, NEW q \in Seq(S), NEW e \in S
  PROVE  /\ Append(q, e) \in Seq(S)
         /\ DOMAIN Append(q, e) = DOMAIN q \cup {Len(q) + 1}
         /\ \A i \in DOMAIN q : Append(q, e)[i] = q[i]
         /\ Append(q, e)[Len(q) + 1] = e
         /\ DOMAIN q = 1..Len(q) /\ Len(q) \in Nat
BY AppendProperties

LEMMA OfferTyped ==
  ASSUME NotesTyped
  PROVE  /\ offer.at \in {"consumed", "posted", "shown"} => offer \in OnOffer
         /\ offer # Silent => offer \in OnOffer
         /\ Silent.at = "none"
         /\ kept.ledger \in [Series -> Nat] /\ keptDisk.ledger \in [Series -> Nat]
         /\ kept.outbox \subseteq Nat /\ keptDisk.outbox \subseteq Nat
BY DEF NotesTyped, OnOffer, Silent, Kept

(* Steps that report and show nothing, with the ledger of memory or disk.  *)
LEMMA EventsAlone ==
  ASSUME NotesInv, NotesTyped', UNCHANGED <<reports, toasts>>,
         \/ kept'.ledger = kept.ledger /\ keptDisk'.ledger \in {keptDisk.ledger, kept.ledger}
         \/ kept'.ledger = keptDisk.ledger /\ keptDisk'.ledger = keptDisk.ledger,
         \/ offer' = Silent
         \/ /\ offer # Silent /\ offer'.series = offer.series /\ offer'.round = offer.round
            /\ offer.at = "shown" => offer'.at = "shown"
  PROVE  EventsInv'
<1> USE DEF NotesInv, EventsInv
<1>0. /\ kept.ledger \in [Series -> Nat] /\ keptDisk.ledger \in [Series -> Nat]
      /\ offer # Silent => offer.series \in Series /\ offer.round \in Nat
      /\ \A i \in DOMAIN reports : reports[i] \in Report
      /\ \A i \in DOMAIN toasts : toasts[i] \in Toast
  BY OfferTyped DEF OnOffer, NotesTyped
<1>1. \A s \in Series : keptDisk.ledger[s] <= keptDisk'.ledger[s]
  BY <1>0 DEF LedgerGrows
<1>2. LedgerGrows'
  BY <1>0 DEF LedgerGrows
<1>3. EventsAreKept'
  <2>1. keptDisk'.ledger \in [Series -> Nat]
    BY <1>0
  <2>2. \A i \in DOMAIN reports : reports[i].round <= keptDisk'.ledger[reports[i].series]
    BY <1>0, <1>1, <2>1 DEF EventsAreKept, Report
  <2>3. \A i \in DOMAIN toasts : toasts[i].round <= keptDisk'.ledger[toasts[i].series]
    BY <1>0, <1>1, <2>1 DEF EventsAreKept, Toast
  <2> QED BY <2>2, <2>3 DEF EventsAreKept
<1>4. OfferIsKept'
  BY <1>0 DEF OfferIsKept
<1>5. OfferIsLast'
  BY DEF OfferIsLast
<1>6. InOrder(reports)' /\ InOrder(toasts)' /\ KeptBackIsNotShown'
  BY DEF InOrder, KeptBackIsNotShown
<1> QED BY <1>2, <1>3, <1>4, <1>5, <1>6

(* Steps that spend no token and draw none but the next.                   *)
LEMMA TokensAlone ==
  ASSUME NotesInv, UNCHANGED clicks,
         DOMAIN toasts \subseteq DOMAIN toasts', \A i \in DOMAIN toasts : toasts'[i] = toasts[i],
         kept'.outbox \cup keptDisk'.outbox \subseteq kept.outbox \cup keptDisk.outbox \cup {NewToken}
  PROVE  TokensInv'
<1>1. NewToken \notin DOMAIN toasts
  BY DEF NotesInv, NotesTyped, NewToken
<1>2. TokensAreSpent'
  BY <1>1 DEF NotesInv, TokensInv, TokensAreSpent
<1>3. ClicksAreOne'
  BY DEF NotesInv, TokensInv, ClicksAreOne
<1>4. ClicksAreLocal'
  BY DEF NotesInv, TokensInv, ClicksAreLocal, TokensAreSpent
<1> QED BY <1>2, <1>3, <1>4 DEF TokensInv

LEMMA OfferStep ==
  ASSUME NotesInv, NEW s \in Series, NEW round \in 1..MaxRounds, Offer(s, round)
  PROVE  NotesInv'
<1> USE DEF NotesInv
<1>1. /\ offer = Silent /\ UNCHANGED <<gameScope, reports, toasts, clicks>>
      /\ kept' = [kept EXCEPT !.ledger[s] = round] /\ kept.ledger[s] < round /\ round \in Nat
  BY OfferTyped, NotificationsAssumption DEF Offer, Seen
<1>2. kept' \in Kept /\ kept'.outbox = kept.outbox /\ kept'.ledger = [kept.ledger EXCEPT ![s] = round]
  BY <1>1 DEF NotesTyped, Kept
<1>3. CASE keptDisk' = kept' /\ offer' = [at |-> "consumed", series |-> s, round |-> round]
  <2>1. NotesTyped'
    <3>1. offer' \in OnOffer
      BY <1>1, <1>3 DEF OnOffer
    <3> QED BY <1>1, <1>2, <1>3, <3>1 DEF NotesTyped
  <2>2. EventsInv'
    <3> USE DEF EventsInv
    <3>0. /\ kept.ledger \in [Series -> Nat] /\ keptDisk.ledger \in [Series -> Nat]
          /\ \A i \in DOMAIN reports : reports[i] \in Report
          /\ \A i \in DOMAIN toasts : toasts[i] \in Toast
      BY OfferTyped DEF NotesTyped
    <3>1. \A t \in Series : /\ keptDisk.ledger[t] <= kept'.ledger[t]
                            /\ t = s => keptDisk.ledger[t] < round /\ kept'.ledger[t] = round
      BY <1>1, <1>2, <3>0 DEF LedgerGrows
    <3>2. LedgerGrows'
      BY <1>2, <1>3, OfferTyped DEF LedgerGrows, NotesTyped, Kept
    <3>3. /\ \A i \in DOMAIN reports : /\ reports[i].round <= kept'.ledger[reports[i].series]
                                       /\ reports[i].series = s => reports[i].round < round
          /\ \A i \in DOMAIN toasts : /\ toasts[i].round <= kept'.ledger[toasts[i].series]
                                      /\ toasts[i].series = s => toasts[i].round < round
      BY <1>1, <1>2, <3>0, <3>1 DEF EventsAreKept, Report, Toast, Kept
    <3>4. EventsAreKept'
      BY <1>1, <1>3, <3>3 DEF EventsAreKept
    <3>5. OfferIsKept'
      BY <1>3, <3>1 DEF OfferIsKept
    <3>6. OfferIsLast'
      BY <1>1, <1>3, <3>3 DEF OfferIsLast
    <3>7. InOrder(reports)' /\ InOrder(toasts)' /\ KeptBackIsNotShown'
      BY <1>1 DEF InOrder, KeptBackIsNotShown
    <3> QED BY <3>2, <3>4, <3>5, <3>6, <3>7
  <2>3. TokensInv'
    BY <1>1, <1>2, <1>3, TokensAlone
  <2> QED BY <2>1, <2>2, <2>3
<1>4. CASE UNCHANGED <<keptDisk, offer>>
  <2>1. NotesTyped'
    BY <1>1, <1>2, <1>4 DEF NotesTyped
  <2>2. EventsInv'
    <3> USE DEF EventsInv
    <3>1. LedgerGrows'
      BY <1>1, <1>2, <1>4, OfferTyped DEF LedgerGrows
    <3> QED BY <1>1, <1>4, <3>1
       DEF EventsAreKept, OfferIsKept, OfferIsLast, InOrder, KeptBackIsNotShown
  <2>3. TokensInv'
    BY <1>1, <1>2, <1>4, TokensAlone
  <2> QED BY <2>1, <2>2, <2>3
<1> QED BY <1>3, <1>4 DEF Offer

LEMMA ReportSteps ==
  ASSUME NotesInv, Suppress \/ Sent
  PROVE  NotesInv'
<1> USE DEF NotesInv
<1>1. PICK how \in {"sent", "suppressed", "denied"} :
        /\ reports' = Append(reports, [series |-> offer.series, round |-> offer.round, how |-> how])
        /\ how # "sent" => offer.at = "consumed"
  BY DEF Suppress, Sent, Reported
<1>2. /\ offer \in OnOffer /\ offer # Silent /\ offer' = Silent
      /\ UNCHANGED <<kept, keptDisk, gameScope, toasts, clicks>>
  BY OfferTyped DEF Suppress, Sent
<1> DEFINE e == [series |-> offer.series, round |-> offer.round, how |-> how]
           n == Len(reports) + 1
<1>3. e \in Report /\ e.series = offer.series /\ e.round = offer.round /\ e.how = how
  BY <1>2 DEF OnOffer, Report
<1>4. reports' = Append(reports, e) /\ reports \in Seq(Report)
  BY <1>1 DEF NotesTyped
<1> HIDE DEF e
<1>5. /\ reports' \in Seq(Report) /\ DOMAIN reports' = DOMAIN reports \cup {n}
      /\ \A i \in DOMAIN reports : reports'[i] = reports[i]
      /\ reports'[n] = e /\ DOMAIN reports = 1..Len(reports) /\ Len(reports) \in Nat
  BY <1>3, <1>4, Appended
<1>6. NotesTyped'
  BY <1>2, <1>5 DEF NotesTyped
<1>7. EventsInv'
  <2> USE DEF EventsInv
  <2>1. LedgerGrows' /\ OfferIsKept' /\ OfferIsLast' /\ InOrder(toasts)'
    BY <1>2 DEF LedgerGrows, OfferIsKept, OfferIsLast, InOrder
  <2>2. EventsAreKept'
    <3>1. \A i \in DOMAIN reports : reports'[i].round <= keptDisk.ledger[reports'[i].series]
      BY <1>5 DEF EventsAreKept
    <3>2. e.round <= keptDisk.ledger[e.series]
      <4>1. e.round = keptDisk.ledger[e.series] /\ e.round \in Nat
        BY <1>2, <1>3 DEF OfferIsKept, OnOffer
      <4> QED BY <4>1
    <3>3. \A i \in DOMAIN toasts : toasts[i].round <= keptDisk.ledger[toasts[i].series]
      BY DEF EventsAreKept
    <3>4. \A i \in DOMAIN reports' : reports'[i].round <= keptDisk.ledger[reports'[i].series]
      BY <1>5, <3>1, <3>2
    <3> QED BY <1>2, <3>3, <3>4 DEF EventsAreKept
  <2>3. InOrder(reports)'
    <3> SUFFICES ASSUME NEW i \in DOMAIN reports', NEW j \in DOMAIN reports',
                        i < j, reports'[i].series = reports'[j].series
                 PROVE  reports'[i].round < reports'[j].round
      BY DEF InOrder
    <3>1. i \in DOMAIN reports
      BY <1>5
    <3>2. CASE j \in DOMAIN reports
      BY <1>5, <3>1, <3>2 DEF InOrder
    <3>3. CASE j = n
      BY <1>2, <1>3, <1>5, <3>1, <3>3 DEF OfferIsLast
    <3> QED BY <1>5, <3>2, <3>3
  <2>4. KeptBackIsNotShown'
    <3> SUFFICES ASSUME NEW i \in DOMAIN reports', reports'[i].how # "sent", NEW j \in DOMAIN toasts
                 PROVE  ~(toasts[j].series = reports'[i].series /\ toasts[j].round = reports'[i].round)
      BY <1>2 DEF KeptBackIsNotShown
    <3>1. CASE i \in DOMAIN reports
      BY <1>5, <3>1 DEF KeptBackIsNotShown
    <3>2. CASE i = n
      <4>1. toasts[j].series = offer.series => toasts[j].round < offer.round
        BY <1>1, <1>2, <1>3, <1>5, <3>2 DEF OfferIsLast
      <4>2. toasts[j].round \in Nat /\ offer.round \in Nat
        <5>1. toasts[j] \in Toast
          BY DEF NotesTyped
        <5> QED BY <1>2, <5>1 DEF OnOffer, Toast
      <4> QED BY <1>3, <1>5, <3>2, <4>1, <4>2
    <3> QED BY <1>5, <3>1, <3>2
  <2> QED BY <2>1, <2>2, <2>3, <2>4
<1>8. TokensInv'
  BY <1>2, TokensAlone
<1> QED BY <1>6, <1>7, <1>8

LEMMA ShowStep ==
  ASSUME NotesInv, Show
  PROVE  NotesInv'
<1> USE DEF NotesInv
<1>2. /\ offer \in OnOffer /\ offer # Silent /\ offer.at = "posted" /\ offer' = [offer EXCEPT !.at = "shown"]
      /\ UNCHANGED <<kept, keptDisk, gameScope, reports, clicks>>
  BY OfferTyped DEF Show
<1> DEFINE e == [series |-> offer.series, round |-> offer.round]
           n == Len(toasts) + 1
<1>3. e \in Toast /\ e.series = offer.series /\ e.round = offer.round
  BY <1>2 DEF OnOffer, Toast
<1>4. toasts' = Append(toasts, e) /\ toasts \in Seq(Toast)
  BY DEF NotesTyped, Show
<1> HIDE DEF e
<1>5. /\ toasts' \in Seq(Toast) /\ DOMAIN toasts' = DOMAIN toasts \cup {n}
      /\ \A i \in DOMAIN toasts : toasts'[i] = toasts[i]
      /\ toasts'[n] = e /\ DOMAIN toasts = 1..Len(toasts) /\ Len(toasts) \in Nat
  BY <1>3, <1>4, Appended
<1>6. offer' \in OnOffer /\ offer'.at = "shown" /\ offer'.series = offer.series /\ offer'.round = offer.round
  BY <1>2 DEF OnOffer
<1>7. NotesTyped'
  BY <1>2, <1>5, <1>6 DEF NotesTyped
<1>8. EventsInv'
  <2> USE DEF EventsInv
  <2>1. LedgerGrows' /\ OfferIsKept' /\ OfferIsLast' /\ InOrder(reports)'
    BY <1>2, <1>6 DEF LedgerGrows, OfferIsKept, OfferIsLast, InOrder
  <2>2. EventsAreKept'
    <3>1. \A i \in DOMAIN toasts : toasts'[i].round <= keptDisk.ledger[toasts'[i].series]
      BY <1>5 DEF EventsAreKept
    <3>2. e.round <= keptDisk.ledger[e.series]
      <4>1. e.round = keptDisk.ledger[e.series] /\ e.round \in Nat
        BY <1>2, <1>3 DEF OfferIsKept, OnOffer
      <4> QED BY <4>1
    <3>3. \A i \in DOMAIN reports : reports[i].round <= keptDisk.ledger[reports[i].series]
      BY DEF EventsAreKept
    <3>4. \A i \in DOMAIN toasts' : toasts'[i].round <= keptDisk.ledger[toasts'[i].series]
      BY <1>5, <3>1, <3>2
    <3> QED BY <1>2, <3>3, <3>4 DEF EventsAreKept
  <2>3. InOrder(toasts)'
    <3> SUFFICES ASSUME NEW i \in DOMAIN toasts', NEW j \in DOMAIN toasts',
                        i < j, toasts'[i].series = toasts'[j].series
                 PROVE  toasts'[i].round < toasts'[j].round
      BY DEF InOrder
    <3>1. i \in DOMAIN toasts
      BY <1>5
    <3>2. CASE j \in DOMAIN toasts
      BY <1>5, <3>1, <3>2 DEF InOrder
    <3>3. CASE j = n
      BY <1>2, <1>3, <1>5, <3>1, <3>3 DEF OfferIsLast
    <3> QED BY <1>5, <3>2, <3>3
  <2>4. KeptBackIsNotShown'
    <3> SUFFICES ASSUME NEW i \in DOMAIN reports, reports[i].how # "sent", NEW j \in DOMAIN toasts'
                 PROVE  ~(toasts'[j].series = reports[i].series /\ toasts'[j].round = reports[i].round)
      BY <1>2 DEF KeptBackIsNotShown
    <3>1. CASE j \in DOMAIN toasts
      BY <1>5, <3>1 DEF KeptBackIsNotShown
    <3>2. CASE j = n
      <4>1. reports[i].series = offer.series => reports[i].round < offer.round
        BY <1>2 DEF OfferIsLast
      <4>2. reports[i].round \in Nat /\ offer.round \in Nat
        <5>1. reports[i] \in Report
          BY DEF NotesTyped
        <5> QED BY <1>2, <5>1 DEF OnOffer, Report
      <4> QED BY <1>3, <1>5, <3>2, <4>1, <4>2
    <3> QED BY <1>5, <3>1, <3>2
  <2> QED BY <2>1, <2>2, <2>3, <2>4
<1>9. TokensInv'
  BY <1>2, <1>5, TokensAlone
<1> QED BY <1>7, <1>8, <1>9

(* The outbox and the store.                                               *)
LEMMA OutboxSteps ==
  ASSUME NotesInv, PostOut \/ NotShown \/ SavesItself \/ Crash \/ (\E scope \in Scopes \cup {"none"} : Turn(scope))
  PROVE  NotesInv'
<1> USE DEF NotesInv
<1>0. UNCHANGED <<reports, toasts, clicks>> /\ NewToken \in Nat
  BY DEF PostOut, NotShown, SavesItself, Crash, Turn, NewToken, NotesTyped
<1>1. CASE PostOut
  <2>1. /\ offer.at = "consumed" /\ offer \in OnOffer /\ offer # Silent /\ gameScope' = gameScope
    BY <1>1, OfferTyped DEF PostOut
  <2>2. PICK left \in Outbox : kept' = [kept EXCEPT !.outbox = left \cup {NewToken}]
    BY <1>1 DEF PostOut
  <2>3. left \subseteq kept.outbox
    BY DEF Outbox
  <2>4. kept' \in Kept /\ kept'.ledger = kept.ledger /\ kept'.outbox = left \cup {NewToken}
    BY <1>0, <2>2, <2>3 DEF NotesTyped, Kept
  <2>5. \/ keptDisk' = kept' /\ offer' = [offer EXCEPT !.at = "posted"]
        \/ offer' = Silent /\ UNCHANGED keptDisk
    BY <1>1 DEF PostOut
  <2>6. offer' = Silent \/ (offer' \in OnOffer /\ offer'.series = offer.series /\ offer'.round = offer.round)
    BY <2>1, <2>5 DEF OnOffer
  <2>7. NotesTyped'
    BY <1>0, <2>1, <2>4, <2>5, <2>6 DEF NotesTyped
  <2>8. EventsInv'
    BY <1>0, <2>1, <2>4, <2>5, <2>6, <2>7, EventsAlone
  <2>9. TokensInv'
    BY <1>0, <2>3, <2>4, <2>5, TokensAlone
  <2> QED BY <2>7, <2>8, <2>9
<1>2. CASE NotShown
  <2>1. kept' \in Kept /\ kept'.ledger = kept.ledger /\ kept'.outbox \subseteq kept.outbox
    BY <1>2 DEF NotShown, NotesTyped, Kept
  <2>2. keptDisk' \in {kept', keptDisk} /\ offer' = Silent /\ gameScope' = gameScope
    BY <1>2 DEF NotShown
  <2>3. NotesTyped'
    BY <1>0, <2>1, <2>2 DEF NotesTyped
  <2>4. EventsInv'
    BY <1>0, <2>1, <2>2, <2>3, EventsAlone
  <2>5. TokensInv'
    BY <1>0, <2>1, <2>2, TokensAlone
  <2> QED BY <2>3, <2>4, <2>5
<1>3. CASE SavesItself
  <2>1. NotesTyped'
    BY <1>0, <1>3 DEF NotesTyped, SavesItself
  <2>2. EventsInv'
    BY <1>0, <1>3, <2>1, EventsAlone DEF SavesItself
  <2>3. TokensInv'
    BY <1>0, <1>3, TokensAlone DEF SavesItself
  <2> QED BY <2>1, <2>2, <2>3
<1>4. CASE Crash
  <2>1. NotesTyped'
    BY <1>0, <1>4 DEF NotesTyped, Crash
  <2>2. EventsInv'
    BY <1>0, <1>4, <2>1, EventsAlone DEF Crash
  <2>3. TokensInv'
    BY <1>0, <1>4, TokensAlone DEF Crash
  <2> QED BY <2>1, <2>2, <2>3
<1>5. ASSUME NEW scope \in Scopes \cup {"none"}, Turn(scope) PROVE NotesInv'
  <2>1. NotesTyped'
    BY <1>0, <1>5 DEF NotesTyped, Turn
  <2>2. EventsInv'
    BY <1>0, <1>5, <2>1, EventsAlone DEF Turn
  <2>3. TokensInv'
    BY <1>0, <1>5, TokensAlone DEF Turn
  <2> QED BY <2>1, <2>2, <2>3
<1> QED BY <1>1, <1>2, <1>3, <1>4, <1>5

LEMMA ClickStep ==
  ASSUME NotesInv, NEW token \in DOMAIN toasts, Click(token)
  PROVE  NotesInv'
<1> USE DEF NotesInv
<1>1. /\ offer = Silent /\ UNCHANGED <<offer, gameScope, reports, toasts>>
      /\ kept' = [kept EXCEPT !.outbox = kept.outbox \ {token}]
  BY DEF Click, SpentOutbox
<1>2. kept' \in Kept /\ kept'.ledger = kept.ledger /\ kept'.outbox = kept.outbox \ {token}
  BY <1>1 DEF NotesTyped, Kept
<1>3. CASE UNCHANGED <<keptDisk, clicks>>
  <2>1. NotesTyped'
    BY <1>1, <1>2, <1>3 DEF NotesTyped
  <2>2. EventsInv'
    BY <1>1, <1>2, <1>3, <2>1, EventsAlone
  <2>3. TokensInv'
    BY <1>1, <1>2, <1>3, TokensAlone
  <2> QED BY <2>1, <2>2, <2>3
<1>4. CASE keptDisk' = kept' /\ UNCHANGED clicks
  <2>1. NotesTyped'
    BY <1>1, <1>2, <1>4 DEF NotesTyped
  <2>2. EventsInv'
    BY <1>1, <1>2, <1>4, <2>1, EventsAlone
  <2>3. TokensInv'
    BY <1>1, <1>2, <1>4, TokensAlone
  <2> QED BY <2>1, <2>2, <2>3
<1>5. CASE /\ keptDisk' = kept' /\ token \in kept.outbox /\ ScopeCurrent(toasts[token].series)
           /\ clicks' = Append(clicks, [token |-> token, scope |-> gameScope])
  <2> DEFINE e == [token |-> token, scope |-> gameScope]
             n == Len(clicks) + 1
  <2>1. e \in Clicked /\ e.token = token /\ e.scope = gameScope
    BY DEF NotesTyped, Clicked
  <2>2. clicks' = Append(clicks, e) /\ clicks \in Seq(Clicked)
    BY <1>5 DEF NotesTyped
  <2> HIDE DEF e
  <2>3. /\ clicks' \in Seq(Clicked) /\ DOMAIN clicks' = DOMAIN clicks \cup {n}
        /\ \A i \in DOMAIN clicks : clicks'[i] = clicks[i]
        /\ clicks'[n] = e /\ n \notin DOMAIN clicks
    BY <2>1, <2>2, Appended
  <2>4. NotesTyped'
    BY <1>1, <1>2, <1>5, <2>3 DEF NotesTyped
  <2>5. EventsInv'
    BY <1>1, <1>2, <1>5, <2>4, EventsAlone
  <2>6. TokensInv'
    <3> USE DEF TokensInv
    <3>1. \A i \in DOMAIN clicks : clicks[i].token # token
      BY <1>5 DEF TokensAreSpent
    <3>2. TokensAreSpent'
      BY <1>1, <1>2, <1>5, <2>1, <2>3 DEF TokensAreSpent
    <3>3. ClicksAreOne'
      BY <2>1, <2>3, <3>1 DEF ClicksAreOne
    <3>4. ClicksAreLocal'
      BY <1>1, <1>5, <2>1, <2>3 DEF ClicksAreLocal, ScopeCurrent
    <3> QED BY <3>2, <3>3, <3>4
  <2> QED BY <2>4, <2>5, <2>6
<1> QED BY <1>3, <1>4, <1>5 DEF Click

LEMMA NotesStep == NotesInv /\ [NotesNext]_noteVars => NotesInv'
<1> SUFFICES ASSUME NotesInv, [NotesNext]_noteVars PROVE NotesInv'
  OBVIOUS
<1>1. CASE UNCHANGED noteVars
  BY <1>1 DEF noteVars, NotesInv, NotesTyped, EventsInv, LedgerGrows, EventsAreKept, OfferIsKept, OfferIsLast,
     InOrder, KeptBackIsNotShown, TokensInv, TokensAreSpent, ClicksAreOne, ClicksAreLocal
<1>2. CASE NotesNext
  BY <1>2, OfferStep, ReportSteps, ShowStep, OutboxSteps, ClickStep DEF NotesNext
<1> QED BY <1>1, <1>2

(* In each series an event is answered and shown once and never after a    *)
(* later one, what was kept back is not shown, and a click opens the       *)
(* screen once, on its own campaign or room: through every failed save and *)
(* every crash.                                                            *)
THEOREM NotifiedAtMostOnce == NotesSpec => []NotifiedOnce
<1>1. NotesInv => NotifiedOnce
  BY DEF NotesInv, EventsInv, TokensInv, NotifiedOnce, KeptBackIsNotShown, ClicksAreOne, ClicksAreLocal,
         IsInjective
<1>2. NotesInv /\ [NotesNext]_noteVars => NotesInv'
  BY NotesStep
<1> QED BY <1>1, <1>2, NotesInvInit, PTL DEF NotesSpec

-----------------------------------------------------------------------------
(* The saves.  A letter that has had its effect, or was written before the *)
(* last restore, expects a revision that is gone, or acts in a fight that  *)
(* is over and comes back at a later revision only.                        *)
Row == [st : {"none", "open", "ended"}, rev : Nat, body : SUBSET Letters, scoped : BOOLEAN]
Asks == {"nothing", "commit", "create", "enroll", "act", "restore"}
Letter == [ask : Asks, about : Fights \cup Guests \cup Letters \cup {"none"}, exp : Nat, gen : Nat]

SavesTyped ==
  /\ DOMAIN camp = {"rev", "gen", "tale", "sheets"} /\ camp.rev \in Nat /\ camp.gen \in Nat
  /\ fights \in [Fights -> Row] /\ letter \in [Letters -> Letter]
  /\ DOMAIN saves = Letters /\ DOMAIN effects = Letters
  /\ \A r \in Letters : \A f \in DOMAIN saves[r].fight :
        saves[r].fight[f] \in Row /\ saves[r].fight[f].st = "open"

EffectOnce == \A r \in Letters : effects[r] = <<>> \/ effects[r] = <<letter[r].gen>>
Outdated(r) == effects[r] # <<>> \/ letter[r].gen # camp.gen
LetterStands(r) ==
  /\ letter[r].gen <= camp.gen
  /\ letter[r].ask = "nothing" => effects[r] = <<>>
  /\ letter[r].ask = "restore" => letter[r].about \in Letters
  /\ letter[r].ask = "act" =>
        /\ letter[r].about \in Fights /\ fights[letter[r].about].st # "none"
        /\ letter[r].exp <= fights[letter[r].about].rev
        /\ Outdated(r) => \/ letter[r].exp < fights[letter[r].about].rev
                          \/ fights[letter[r].about].st = "ended"
  /\ letter[r].ask \notin {"nothing", "act"} =>
        /\ letter[r].exp <= camp.rev
        /\ Outdated(r) => letter[r].exp < camp.rev
LettersStand == \A r \in Letters : LetterStands(r)
SavesInv == SavesTyped /\ EffectOnce /\ LettersStand
LEMMA SavesInvInit == SavesInit => SavesInv
<1> SUFFICES ASSUME SavesInit PROVE SavesInv
  OBVIOUS
<1> USE DEF SavesInit
<1>1. SavesTyped
  <2>1. DOMAIN camp = {"rev", "gen", "tale", "sheets"} /\ camp.rev \in Nat /\ camp.gen \in Nat
    OBVIOUS
  <2>2. fights \in [Fights -> Row]
    BY DEF NoRow, Row
  <2>3. letter \in [Letters -> Letter]
    BY DEF Blank, Letter, Asks
  <2>4. \A r \in Letters : DOMAIN saves[r].fight = {}
    BY DEF NoSave
  <2> QED BY <2>1, <2>2, <2>3, <2>4 DEF SavesTyped
<1>2. EffectOnce
  BY DEF EffectOnce
<1>3. LettersStand
  BY DEF LettersStand, LetterStands, Blank, Outdated
<1> QED BY <1>1, <1>2, <1>3 DEF SavesInv

LEMMA LetterTyped ==
  ASSUME SavesTyped, NEW r \in Letters
  PROVE  /\ letter[r].ask \in Asks /\ letter[r].exp \in Nat /\ letter[r].gen \in Nat
         /\ \A f \in Fights : fights[f].rev \in Nat /\ fights[f].st \in {"none", "open", "ended"}
BY DEF SavesTyped, Letter, Row

(* A letter is due for the first time, and in the generation it was        *)
(* written in.                                                             *)
LEMMA DueIsFirst ==
  ASSUME SavesInv, NEW r \in Letters, NEW ask \in Asks, ask # "nothing", Due(r, ask),
         ask = "act" => fights[letter[r].about].st = "open"
  PROVE  /\ effects[r] = <<>> /\ letter[r].gen = camp.gen /\ letter[r].ask = ask
         /\ effects' = [effects EXCEPT ![r] = <<camp.gen>>] /\ letter' = letter
         /\ EffectOnce'
<1> USE DEF SavesInv
<1>1. letter[r].ask = ask /\ letter[r].exp = CurrentRevision(r) /\ letter' = letter
      /\ effects' = [effects EXCEPT ![r] = Append(@, camp.gen)]
  BY DEF Due
<1>2. ~Outdated(r)
  BY <1>1, LetterTyped DEF LettersStand, LetterStands, CurrentRevision, SavesTyped
<1>3. effects[r] = <<>> /\ letter[r].gen = camp.gen
  BY <1>2 DEF Outdated
<1>4. effects' = [effects EXCEPT ![r] = <<camp.gen>>]
  BY <1>1, <1>3
<1>5. EffectOnce'
  BY <1>1, <1>3, <1>4 DEF EffectOnce, SavesTyped
<1> QED BY <1>1, <1>3, <1>4, <1>5

(* The revisions only grow, and one that a letter has used is left behind. *)
Grows(f) ==
  /\ fights[f].st # "none" => fights'[f].rev >= fights[f].rev
  /\ fights[f].st # "none" => fights'[f].st # "none"
  /\ fights[f].st = "ended" => fights'[f].st = "ended" \/ fights'[f].rev > fights[f].rev
LEMMA WorldMoves ==
  ASSUME SavesInv, SavesTyped', UNCHANGED letter, camp'.rev >= camp.rev, camp'.gen >= camp.gen,
         \A f \in Fights : Grows(f),
         \A l \in Letters :
            \/ effects'[l] = effects[l]
            \/ /\ letter[l].ask # "nothing"
               /\ letter[l].ask = "act" => fights'[letter[l].about].rev > fights[letter[l].about].rev
               /\ letter[l].ask # "act" => camp'.rev > camp.rev,
         camp'.gen # camp.gen =>
            /\ camp'.rev > camp.rev
            /\ \A f \in Fights : fights[f].st # "none" => fights'[f].rev > fights[f].rev \/ fights'[f].st = "ended"
  PROVE  LettersStand'
<1> USE DEF SavesInv
<1> SUFFICES ASSUME NEW l \in Letters PROVE LetterStands(l)'
  BY DEF LettersStand
<1>0. LetterStands(l)
  BY DEF LettersStand
<1>1. /\ letter[l].exp \in Nat /\ letter[l].gen \in Nat /\ letter[l].ask \in Asks
      /\ camp.rev \in Nat /\ camp.gen \in Nat /\ camp'.rev \in Nat /\ camp'.gen \in Nat
      /\ \A f \in Fights : fights[f].rev \in Nat /\ fights'[f].rev \in Nat
  BY LetterTyped DEF SavesTyped, Row
<1>2. letter[l].gen <= camp'.gen
  BY <1>0, <1>1 DEF LetterStands
<1>3. /\ letter[l].ask = "nothing" => effects'[l] = <<>>
      /\ letter[l].ask = "restore" => letter[l].about \in Letters
  BY <1>0 DEF LetterStands
<1>4. ASSUME letter[l].ask = "act"
      PROVE  /\ letter[l].about \in Fights /\ fights'[letter[l].about].st # "none"
             /\ letter[l].exp <= fights'[letter[l].about].rev
             /\ Outdated(l)' => \/ letter[l].exp < fights'[letter[l].about].rev
                                \/ fights'[letter[l].about].st = "ended"
  <2> DEFINE f == letter[l].about
  <2>1. f \in Fights /\ fights[f].st # "none" /\ letter[l].exp <= fights[f].rev
        /\ (Outdated(l) => letter[l].exp < fights[f].rev \/ fights[f].st = "ended")
    BY <1>0, <1>4 DEF LetterStands
  <2> HIDE DEF f
  <2>2. Grows(f) /\ fights[f].rev \in Nat /\ fights'[f].rev \in Nat
    BY <1>1, <2>1
  <2>3. letter[l].exp <= fights'[f].rev /\ fights'[f].st # "none"
    BY <1>1, <2>1, <2>2 DEF Grows
  <2>4. ASSUME Outdated(l)' PROVE letter[l].exp < fights'[f].rev \/ fights'[f].st = "ended"
    <3>1. CASE Outdated(l)
      BY <1>1, <2>1, <2>2, <3>1 DEF Grows
    <3>2. CASE effects'[l] # effects[l]
      <4>1. fights'[f].rev > fights[f].rev
        BY <1>4, <3>2 DEF f
      <4> QED BY <1>1, <2>1, <2>2, <4>1
    <3>3. CASE camp'.gen # camp.gen
      <4>1. fights'[f].rev > fights[f].rev \/ fights'[f].st = "ended"
        BY <2>1, <3>3
      <4> QED BY <1>1, <2>1, <2>2, <4>1
    <3> QED BY <2>4, <3>1, <3>2, <3>3 DEF Outdated
  <2> QED BY <2>1, <2>3, <2>4 DEF f
<1>5. ASSUME letter[l].ask \notin {"nothing", "act"}
      PROVE  letter[l].exp <= camp'.rev /\ (Outdated(l)' => letter[l].exp < camp'.rev)
  <2>1. letter[l].exp <= camp.rev /\ (Outdated(l) => letter[l].exp < camp.rev)
    BY <1>0, <1>5 DEF LetterStands
  <2>2. ASSUME Outdated(l)' PROVE letter[l].exp < camp'.rev
    <3>1. CASE Outdated(l)
      BY <1>1, <2>1, <3>1
    <3>2. CASE effects'[l] # effects[l] \/ camp'.gen # camp.gen
      BY <1>1, <1>5, <2>1, <3>2
    <3> QED BY <2>2, <3>1, <3>2 DEF Outdated
  <2> QED BY <1>1, <2>1, <2>2
<1> QED BY <1>2, <1>3, <1>4, <1>5 DEF LetterStands

LEMMA WrittenStep ==
  ASSUME SavesInv, NEW r \in Letters, Written(r)
  PROVE  SavesInv'
<1> USE DEF SavesInv
<1>1. PICK ask \in Asks \ {"nothing"}, about \in Fights \cup Guests \cup Letters \cup {"none"} :
        /\ Compose(r, ask, about) /\ (ask = "act" => about \in OpenFights)
        /\ ask = "restore" => about \in Letters
  BY DEF Written, Asks, OpenFights
<1> DEFINE new == [ask |-> ask, about |-> about, gen |-> camp.gen,
                   exp |-> IF ask = "act" THEN fights[about].rev ELSE camp.rev]
<1>2. letter[r] = Blank /\ letter' = [letter EXCEPT ![r] = new]
      /\ UNCHANGED <<camp, fights, recorded, saves, effects>>
  BY <1>1 DEF Compose
<1>3. new \in Letter /\ new.ask = ask /\ new.about = about /\ new.gen = camp.gen
      /\ new.exp = IF ask = "act" THEN fights[about].rev ELSE camp.rev
  BY <1>1 DEF Letter, Asks, OpenFights, SavesTyped, Row
<1> HIDE DEF new
<1>4. letter'[r] = new /\ \A l \in Letters \ {r} : letter'[l] = letter[l]
  BY <1>2 DEF SavesTyped
<1>5. effects[r] = <<>>
  BY <1>2 DEF LettersStand, LetterStands, Blank
<1>6. SavesTyped'
  BY <1>2, <1>3 DEF SavesTyped
<1>7. EffectOnce'
  BY <1>2, <1>4, <1>5 DEF EffectOnce
<1>8. LettersStand'
  <2> SUFFICES ASSUME NEW l \in Letters PROVE LetterStands(l)'
    BY DEF LettersStand
  <2>1. CASE l # r
    BY <1>2, <1>4, <2>1 DEF LettersStand, LetterStands, Outdated
  <2>2. CASE l = r
    <3>1. ~Outdated(l)'
      BY <1>2, <1>3, <1>4, <1>5, <2>2 DEF Outdated
    <3>2. camp.gen \in Nat /\ camp.rev \in Nat /\ \A f \in Fights : fights[f].rev \in Nat
      BY DEF SavesTyped, Row
    <3>3. ask = "act" => about \in Fights /\ fights[about].st = "open"
      BY <1>1 DEF OpenFights
    <3> QED BY <1>1, <1>2, <1>3, <1>4, <2>2, <3>1, <3>2, <3>3 DEF LetterStands
  <2> QED BY <2>1, <2>2
<1> QED BY <1>6, <1>7, <1>8

(* The letters of the campaign: a sheet, a guest, a save.                  *)
LEMMA CampaignLetters ==
  ASSUME SavesInv, NEW r \in Letters,
         CommitCharacter(r) \/ Enroll(r) \/ (\E b \in BOOLEAN : CreateSnapshot(r, b))
  PROVE  SavesInv'
<1> USE DEF SavesInv
<1>1. PICK ask \in {"commit", "enroll", "create"} : Due(r, ask)
  BY DEF CommitCharacter, Enroll, CreateSnapshot
<1>2. /\ letter[r].ask = ask /\ effects' = [effects EXCEPT ![r] = <<camp.gen>>] /\ letter' = letter
      /\ EffectOnce'
  BY <1>1, DueIsFirst DEF Asks
<1>3. UNCHANGED fights /\ DOMAIN camp' = DOMAIN camp /\ camp'.rev = camp.rev + 1 /\ camp'.gen = camp.gen
  BY DEF CommitCharacter, Enroll, CreateSnapshot, SavesTyped
<1>4. /\ DOMAIN saves' = Letters
      /\ \A l \in Letters : \A f \in DOMAIN saves'[l].fight :
            saves'[l].fight[f] \in Row /\ saves'[l].fight[f].st = "open"
  <2>1. CASE UNCHANGED saves
    BY <2>1 DEF SavesTyped
  <2>2. ASSUME NEW b \in BOOLEAN, CreateSnapshot(r, b) PROVE <1>4
    <3>1. PICK sheets :
             saves' = [saves EXCEPT ![r] = [rev |-> camp.rev + 1, tale |-> camp.tale, sheets |-> sheets,
                                            fight |-> [f \in OpenFights |-> fights[f]]]]
      BY <2>2 DEF CreateSnapshot
    <3>2. saves'[r].fight = [f \in OpenFights |-> fights[f]] /\ DOMAIN saves' = Letters
          /\ \A l \in Letters \ {r} : saves'[l] = saves[l]
      BY <3>1 DEF SavesTyped
    <3> QED BY <3>2 DEF SavesTyped, OpenFights
  <2> QED BY <2>1, <2>2 DEF CommitCharacter, Enroll
<1>5. SavesTyped'
  BY <1>2, <1>3, <1>4 DEF SavesTyped
<1>6. camp'.rev > camp.rev /\ camp'.gen = camp.gen /\ camp.gen \in Nat /\ camp'.rev >= camp.rev
      /\ camp'.gen >= camp.gen
  BY <1>3 DEF SavesTyped
<1>7. \A f \in Fights : Grows(f)
  BY <1>3 DEF Grows, SavesTyped, Row
<1>8. \A l \in Letters : effects'[l] = effects[l] \/ (l = r /\ letter[l].ask \notin {"nothing", "act"})
  BY <1>1, <1>2 DEF SavesTyped
<1>9. LettersStand'
  BY <1>2, <1>5, <1>6, <1>7, <1>8, WorldMoves
<1> QED BY <1>2, <1>5, <1>9

LEMMA ActInFightStep ==
  ASSUME SavesInv, NEW r \in Letters, NEW ends \in BOOLEAN, ActInFight(r, ends)
  PROVE  SavesInv'
<1> USE DEF SavesInv
<1> DEFINE f == letter[r].about
           stand == IF ends THEN "ended" ELSE fights[f].st
<1>1. Due(r, "act") /\ fights[f].st = "open" /\ UNCHANGED saves
  BY DEF ActInFight
<1>2. /\ letter[r].ask = "act" /\ effects' = [effects EXCEPT ![r] = <<camp.gen>>] /\ letter' = letter
      /\ EffectOnce'
  BY <1>1, DueIsFirst DEF Asks
<1>3. f \in Fights /\ fights[f] \in Row
  BY <1>2 DEF LettersStand, LetterStands, SavesTyped
<1>4. fights' = [fights EXCEPT ![f] = [fights[f] EXCEPT !.rev = @ + 1, !.body = @ \cup {r}, !.st = stand]]
  BY <1>3 DEF ActInFight, SavesTyped
<1>5. stand \in {"open", "ended"}
  BY <1>1
<1> HIDE DEF stand
<1>6. [fights[f] EXCEPT !.rev = @ + 1, !.body = @ \cup {r}, !.st = stand] \in Row
  <2> DEFINE later == fights[f].rev + 1
             body == fights[f].body \cup {r}
  <2>1. later \in Nat /\ body \in SUBSET Letters
    BY <1>3 DEF Row
  <2> HIDE DEF later, body
  <2>2. [fights[f] EXCEPT !.rev = later, !.body = body, !.st = stand] \in Row
    BY <1>3, <1>5, <2>1 DEF Row
  <2> QED BY <2>2 DEF later, body
<1>7. fights' \in [Fights -> Row]
  BY <1>4, <1>6 DEF SavesTyped
<1>8. fights'[f].rev = fights[f].rev + 1 /\ fights'[f].st = stand
      /\ \A g \in Fights \ {f} : fights'[g] = fights[g]
  BY <1>3, <1>4 DEF SavesTyped, Row
<1>9. DOMAIN camp' = DOMAIN camp /\ camp'.rev \in {camp.rev, camp.rev + 1} /\ camp'.gen = camp.gen
  BY DEF ActInFight, SavesTyped
<1>10. SavesTyped'
  BY <1>1, <1>2, <1>7, <1>9 DEF SavesTyped
<1>11. \A g \in Fights : Grows(g)
  BY <1>1, <1>5, <1>8 DEF Grows, SavesTyped, Row
<1>12. \A l \in Letters : effects'[l] = effects[l] \/ l = r
  BY <1>2 DEF SavesTyped
<1>13. fights'[f].rev > fights[f].rev /\ camp'.rev >= camp.rev /\ camp'.gen >= camp.gen
  BY <1>3, <1>8, <1>9 DEF SavesTyped, Row
<1>14. LettersStand'
  BY <1>2, <1>9, <1>10, <1>11, <1>12, <1>13, WorldMoves
<1> QED BY <1>2, <1>10, <1>14

LEMMA PlaySteps ==
  ASSUME SavesInv,
         \/ \E f \in Fights, scoped \in BOOLEAN : StartFight(f, scoped)
         \/ \E moves \in BOOLEAN : Play(moves)
  PROVE  SavesInv'
<1> USE DEF SavesInv
<1>1. UNCHANGED <<letter, recorded, saves, effects>>
  BY DEF StartFight, Play
<1>2. DOMAIN camp' = DOMAIN camp /\ camp'.rev \in {camp.rev, camp.rev + 1} /\ camp'.gen = camp.gen
  BY DEF StartFight, Play, SavesTyped
<1>3. fights' \in [Fights -> Row] /\ \A g \in Fights : Grows(g)
  <2>1. CASE UNCHANGED fights
    BY <2>1 DEF SavesTyped, Grows, Row
  <2>2. ASSUME NEW f \in Fights, NEW scoped \in BOOLEAN, StartFight(f, scoped) PROVE <1>3
    <3> DEFINE row == [NoRow EXCEPT !.st = "open", !.scoped = scoped]
    <3>1. row \in Row /\ row.st = "open" /\ row.rev = 0
      BY DEF Row, NoRow
    <3>2. fights[f].st = "none" /\ fights' = [fights EXCEPT ![f] = row]
      BY <2>2 DEF StartFight
    <3> HIDE DEF row
    <3>3. fights' \in [Fights -> Row]
      BY <3>1, <3>2 DEF SavesTyped
    <3>4. fights'[f] = row /\ \A g \in Fights \ {f} : fights'[g] = fights[g]
      BY <3>2 DEF SavesTyped
    <3>5. Grows(f)
      BY <3>1, <3>2, <3>4 DEF Grows
    <3>6. \A g \in Fights \ {f} : Grows(g)
      BY <3>4 DEF Grows, SavesTyped, Row
    <3> QED BY <3>3, <3>5, <3>6
  <2> QED BY <2>1, <2>2 DEF Play
<1>4. SavesTyped'
  BY <1>1, <1>2, <1>3 DEF SavesTyped
<1>5. EffectOnce'
  BY <1>1 DEF EffectOnce
<1>6. camp'.rev >= camp.rev /\ camp'.gen >= camp.gen
  BY <1>2 DEF SavesTyped
<1>7. LettersStand'
  BY <1>1, <1>2, <1>3, <1>4, <1>6, WorldMoves
<1> QED BY <1>4, <1>5, <1>7

LEMMA DeleteSaveStep ==
  ASSUME SavesInv, NEW s \in Letters, DeleteSave(s)
  PROVE  SavesInv'
<1> USE DEF SavesInv
<1>1. UNCHANGED <<camp, fights, letter, effects>> /\ saves' = [saves EXCEPT ![s] = NoSave]
  BY DEF DeleteSave
<1>2. SavesTyped'
  <2>1. DOMAIN saves' = Letters /\ saves'[s] = NoSave /\ \A l \in Letters \ {s} : saves'[l] = saves[l]
    BY <1>1 DEF SavesTyped
  <2>2. DOMAIN saves'[s].fight = {}
    BY <2>1 DEF NoSave
  <2> QED BY <1>1, <2>1, <2>2 DEF SavesTyped
<1> QED BY <1>1, <1>2 DEF EffectOnce, LettersStand, LetterStands, Outdated

(* Every fight that runs is over after a restore, or comes back later than *)
(* it ever was.                                                            *)
LEMMA RestoreStep ==
  ASSUME SavesInv, NEW r \in Letters, NEW joined \in BOOLEAN, RestoreSnapshot(r, joined)
  PROVE  SavesInv'
<1> USE DEF SavesInv
<1> DEFINE snap == saves[letter[r].about]
           more == IF joined THEN 1 ELSE 0
<1>1. Due(r, "restore") /\ UNCHANGED saves /\ snap # NoSave
  BY DEF RestoreSnapshot
<1>2. /\ letter[r].ask = "restore" /\ effects' = [effects EXCEPT ![r] = <<camp.gen>>] /\ letter' = letter
      /\ EffectOnce'
  BY <1>1, DueIsFirst DEF Asks
<1>3. camp' = [rev |-> camp.rev + (IF joined THEN 2 ELSE 1), gen |-> camp.gen + 1,
               tale |-> snap.tale, sheets |-> snap.sheets]
  BY DEF RestoreSnapshot
<1>4. camp'.rev \in {camp.rev + 1, camp.rev + 2} /\ camp'.gen = camp.gen + 1
      /\ DOMAIN camp' = {"rev", "gen", "tale", "sheets"}
  BY <1>3
<1>5. \A f \in DOMAIN snap.fight : snap.fight[f] \in Row /\ snap.fight[f].st = "open"
  BY <1>2 DEF SavesTyped, LettersStand, LetterStands
<1> HIDE DEF snap
<1>6. fights' = Reopened(snap, joined) /\ more \in {0, 1}
  BY DEF RestoreSnapshot, snap
<1>7. ASSUME NEW f \in Fights
      PROVE  /\ fights'[f] \in Row /\ Grows(f)
             /\ fights[f].st # "none" => fights'[f].rev > fights[f].rev \/ fights'[f].st = "ended"
  <2>0. fights[f] \in Row
    BY DEF SavesTyped
  <2>1. CASE f \in DOMAIN snap.fight
    <3> DEFINE later == Fresh(fights[f].rev, snap.fight[f].rev) + more
    <3>1. fights'[f] = [snap.fight[f] EXCEPT !.rev = later]
      BY <1>6, <2>1 DEF Reopened
    <3>2. later \in Nat /\ later > fights[f].rev
      BY <1>5, <1>6, <2>0, <2>1 DEF Fresh, Row
    <3> HIDE DEF later
    <3>3. fights'[f] \in Row /\ fights'[f].rev = later /\ fights'[f].st = "open"
      BY <1>5, <2>1, <3>1, <3>2 DEF Row
    <3> QED BY <2>0, <3>2, <3>3 DEF Grows, Row
  <2>2. CASE f \notin DOMAIN snap.fight
    <3>1. fights'[f] = IF fights[f].st = "open" THEN [fights[f] EXCEPT !.st = "ended"] ELSE fights[f]
      BY <1>6, <2>2 DEF Reopened
    <3> QED BY <2>0, <3>1 DEF Grows, Row
  <2> QED BY <2>1, <2>2
<1>8. fights' \in [Fights -> Row]
  BY <1>6, <1>7 DEF Reopened
<1>9. SavesTyped'
  BY <1>1, <1>2, <1>4, <1>8 DEF SavesTyped
<1>10. \A l \in Letters : effects'[l] = effects[l] \/ l = r
  BY <1>2 DEF SavesTyped
<1>11. camp'.rev > camp.rev /\ camp'.rev >= camp.rev /\ camp'.gen >= camp.gen
  BY <1>4 DEF SavesTyped
<1>12. LettersStand'
  BY <1>2, <1>7, <1>9, <1>10, <1>11, WorldMoves
<1> QED BY <1>2, <1>9, <1>12

LEMMA SavesStep == SavesInv /\ [SavesNext]_saveVars => SavesInv'
<1> SUFFICES ASSUME SavesInv, [SavesNext]_saveVars PROVE SavesInv'
  OBVIOUS
<1>1. CASE UNCHANGED saveVars
  BY <1>1 DEF saveVars, SavesInv, SavesTyped, EffectOnce, LettersStand, LetterStands, Outdated
<1>2. CASE SavesNext
  BY <1>2, WrittenStep, CampaignLetters, ActInFightStep, PlaySteps, DeleteSaveStep, RestoreStep
  DEF SavesNext
<1> QED BY <1>1, <1>2

(* A letter has its effect at most once, and in the generation of the      *)
(* session it was written in, whatever is restored or deleted between.     *)
THEOREM EffectsInTheirTime == SavesSpec => []OnceInItsTime
<1>1. SavesInv => OnceInItsTime
  BY DEF SavesInv, EffectOnce, OnceInItsTime
<1>2. SavesInv /\ [SavesNext]_saveVars => SavesInv'
  BY SavesStep
<1> QED BY <1>1, <1>2, SavesInvInit, PTL DEF SavesSpec

-----------------------------------------------------------------------------
(* The settings.  A post that nobody has disturbed stands in a known       *)
(* relation to what it found: how much of it is written, what is saved,    *)
(* and what has been put back.                                             *)
Secrets == {"legacy", NoKey} \cup {w.key : w \in Wishes} \cup {w.imageKey : w \in Wishes}
Vaults == [Keys -> Secrets]
Snapshots == [chat : {"default", "compat", "native", "odd"}, key : Secrets,
              image : {"none", "bundled", "replicate", "local", "turbo"}, imageKey : Secrets,
              video : BOOLEAN, rev : Nat]
Build == [chat : {"compat", "native", "odd"}, key : Secrets,
          image : {"none", "bundled", "replicate", "local", "turbo"}, imageKey : Secrets,
          video : BOOLEAN]
Mutation == [key : Keys, to : Secrets]
Update == [at : {"capture", "write", "restore", "stray", "done", "failed"}, alone : BOOLEAN,
           left : BOOLEAN, built : Build, muts : Seq(Mutation), old : Seq(Secrets), i : Nat,
           before : (Vaults \X Snapshots) \cup {<<>>}]

SettingsTyped ==
  /\ vault \in Vaults /\ vaultDisk \in Vaults /\ runtime \in Snapshots
  /\ posts \in [Screens -> Update \cup {Quiet}]

(* The place a post has reached in its list of mutations.                  *)
InShape(p) ==
  /\ p.at = "capture" => Len(p.old) = p.i /\ p.i <= Len(p.muts)
  /\ p.at \in {"write", "restore", "stray"} => Len(p.old) = Len(p.muts)
  /\ p.at = "write" => p.i \in 1..(Len(p.muts) + 1)
  /\ p.at = "restore" => p.i \in 0..Len(p.muts) /\ p.muts # <<>>
  /\ p.at = "stray" => p.i \in 1..Len(p.muts)

(* What holds of a vault v, its disk d and a runtime r while post p is the *)
(* only one.                                                               *)
KeysOf(muts, last) == {muts[k].key : k \in 1..last}
OldIsKept(p) == \A k \in 1..Len(p.old) : p.old[k] = p.before[1][p.muts[k].key]
WrittenTo(p, last, v, d) ==
  /\ \A k \in 1..last : v[p.muts[k].key] = p.muts[k].to
  /\ \A x \in Keys \ KeysOf(p.muts, last) : v[x] = p.before[1][x]
  /\ last > 0 => d = v
PlanStands(p) ==
  /\ \A j, k \in 1..Len(p.muts) : p.muts[j].key = p.muts[k].key => j = k
  /\ p.built.key # NoKey =>
        \E k \in 1..Len(p.muts) : p.muts[k] = [key |-> "openai_compat", to |-> p.built.key]
  /\ p.built.imageKey # NoKey =>
        \E k \in 1..Len(p.muts) : p.muts[k] = [key |-> "replicate", to |-> p.built.imageKey]

PostStands(p, v, d, r) ==
  /\ p.before # <<>> /\ PlanStands(p) /\ OldIsKept(p)
  /\ p.at = "capture" => v = p.before[1] /\ r = p.before[2] /\ p.left = FALSE
  /\ p.at = "write" => p.left = FALSE /\ r = p.before[2] /\ WrittenTo(p, p.i - 1, v, d)
  /\ p.at = "restore" =>
        /\ r = p.before[2]
        /\ p.left = FALSE => /\ \A x \in Keys \ KeysOf(p.muts, p.i) : v[x] = p.before[1][x]
                             /\ p.i < Len(p.muts) => d = v
  /\ p.at = "done" =>
        /\ WrittenTo(p, Len(p.muts), v, d) /\ r.rev = p.before[2].rev + 1
        /\ r.chat = p.built.chat /\ r.key = p.built.key /\ r.imageKey = p.built.imageKey
  /\ p.at = "failed" /\ p.left = FALSE =>
        /\ v = p.before[1] /\ r = p.before[2]
        /\ Len(p.old) < Len(p.muts) \/ d = v

SettingsInv ==
  /\ SettingsTyped
  /\ \A s \in Screens : InShape(posts[s])
  /\ \A s \in Screens : posts[s].alone =>
        /\ PostStands(posts[s], vault, vaultDisk, runtime)
        /\ \A o \in Screens \ {s} : ~InFlight(o)

LEMMA WishTyped ==
  ASSUME NEW w \in Wishes
  PROVE  /\ w.chat \in {"compat", "native", "odd"} /\ w.image \in {"off", "replicate", "local", "turbo"}
         /\ w.video \in BOOLEAN /\ w.restricted \in BOOLEAN
         /\ w.key \in Secrets /\ w.imageKey \in Secrets /\ NoKey \in Secrets /\ "legacy" \in Secrets
BY SettingsAssumption DEF Secrets

LEMMA BuiltTyped ==
  ASSUME NEW w \in Wishes, NEW h \in BOOLEAN, Buildable(w)
  PROVE  /\ Built(w, h) \in Build
         /\ Built(w, h).key # NoKey => w.chat = "compat" /\ w.key = Built(w, h).key
         /\ Built(w, h).imageKey # NoKey =>
              Picture(w, TRUE) = "replicate" /\ w.imageKey = Built(w, h).imageKey
<1>1. Picture(w, h) \in {"none", "bundled", "replicate", "local", "turbo"}
  BY WishTyped DEF Picture
<1>2. Picture(w, h) = "replicate" => Picture(w, TRUE) = "replicate"
  BY WishTyped DEF Picture, Oss
<1> DEFINE pic == Picture(w, h)
           key == IF w.chat = "compat" THEN w.key ELSE NoKey
           imageKey == IF pic = "replicate" THEN w.imageKey ELSE NoKey
           video == w.video /\ ~w.restricted /\ h
<1>3. key \in Secrets /\ imageKey \in Secrets /\ video \in BOOLEAN /\ w.chat \in {"compat", "native", "odd"}
  BY <1>1, WishTyped
<1>4. Built(w, h) = [chat |-> w.chat, key |-> key, image |-> pic, imageKey |-> imageKey, video |-> video]
  BY DEF Built
<1>5. Built(w, h) \in Build
  <2> HIDE DEF pic, key, imageKey, video
  <2> QED BY <1>1, <1>3, <1>4 DEF Build, pic
<1>6. Built(w, h).key = key /\ Built(w, h).imageKey = imageKey
  BY <1>4
<1> QED BY <1>2, <1>5, <1>6

LEMMA OneOrNone ==
  ASSUME NEW S, NEW x \in S
  PROVE  /\ <<>> \in Seq(S) /\ Len(<<>>) = 0
         /\ <<x>> \in Seq(S) /\ Len(<<x>>) = 1 /\ <<x>>[1] = x
BY EmptySeq

LEMMA MutationsAre ==
  ASSUME NEW w \in Wishes
  PROVE  /\ Mutations(w) \in Seq(Mutation)
         /\ \A j, k \in 1..Len(Mutations(w)) : Mutations(w)[j].key = Mutations(w)[k].key => j = k
         /\ w.chat = "compat" /\ w.key # NoKey =>
              \E k \in 1..Len(Mutations(w)) : Mutations(w)[k] = [key |-> "openai_compat", to |-> w.key]
         /\ Picture(w, TRUE) = "replicate" =>
              \E k \in 1..Len(Mutations(w)) : Mutations(w)[k] = [key |-> "replicate", to |-> w.imageKey]
<1> DEFINE a == [key |-> "anthropic", to |-> NoKey]
           b == [key |-> "openai_compat", to |-> w.key]
           c == [key |-> "replicate", to |-> w.imageKey]
           pic == Picture(w, TRUE)
<1>1. a \in Mutation /\ b \in Mutation /\ c \in Mutation
      /\ a.key = "anthropic" /\ b.key = "openai_compat" /\ c.key = "replicate"
  BY WishTyped DEF Mutation, Keys
<1>2. Mutations(w) = (IF w.chat # "compat" THEN <<>> ELSE <<a>>)
                     \o (IF w.chat = "compat" /\ w.key # NoKey THEN <<b>> ELSE <<>>)
                     \o (IF pic = "replicate" THEN <<c>> ELSE <<>>)
  BY DEF Mutations
<1> HIDE DEF a, b, c, pic
<1> DEFINE P1 == IF w.chat # "compat" THEN <<>> ELSE <<a>>
           P2 == IF w.chat = "compat" /\ w.key # NoKey THEN <<b>> ELSE <<>>
           P3 == IF pic = "replicate" THEN <<c>> ELSE <<>>
           M == Mutations(w)
<1>3. P1 \in Seq(Mutation) /\ Len(P1) \in {0, 1} /\ (Len(P1) = 1 => P1[1] = a)
  BY <1>1, OneOrNone
<1>4. /\ P2 \in Seq(Mutation) /\ Len(P2) \in {0, 1} /\ (Len(P2) = 1 => P2[1] = b)
      /\ w.chat = "compat" /\ w.key # NoKey => Len(P2) = 1
  <2>1. /\ <<b>> \in Seq(Mutation) /\ Len(<<b>>) = 1 /\ <<b>>[1] = b
        /\ <<>> \in Seq(Mutation) /\ Len(<<>>) = 0
    BY <1>1, OneOrNone
  <2>2. CASE w.chat = "compat" /\ w.key # NoKey
    <3>1. P2 = <<b>>
      BY <2>2
    <3> HIDE DEF P2
    <3> QED BY <2>1, <3>1
  <2>3. CASE ~(w.chat = "compat" /\ w.key # NoKey)
    <3>1. P2 = <<>>
      BY <2>3
    <3> HIDE DEF P2
    <3> QED BY <2>1, <2>3, <3>1
  <2> QED BY <2>2, <2>3
<1>5. /\ P3 \in Seq(Mutation) /\ Len(P3) \in {0, 1} /\ (Len(P3) = 1 => P3[1] = c)
      /\ pic = "replicate" => Len(P3) = 1
  <2>1. /\ <<c>> \in Seq(Mutation) /\ Len(<<c>>) = 1 /\ <<c>>[1] = c
        /\ <<>> \in Seq(Mutation) /\ Len(<<>>) = 0
    BY <1>1, OneOrNone
  <2>2. CASE pic = "replicate"
    <3>1. P3 = <<c>>
      BY <2>2
    <3> HIDE DEF P3
    <3> QED BY <2>1, <3>1
  <2>3. CASE ~(pic = "replicate")
    <3>1. P3 = <<>>
      BY <2>3
    <3> HIDE DEF P1, P2, P3
    <3>2. P3 \in Seq(Mutation) /\ Len(P3) = 0
      BY <2>1, <3>1
    <3> QED BY <2>3, <3>2
  <2> QED BY <2>2, <2>3
<1>6. M = (P1 \o P2) \o P3
  BY <1>2
<1> HIDE DEF P1, P2, P3, M
<1>7. /\ P1 \o P2 \in Seq(Mutation) /\ Len(P1 \o P2) = Len(P1) + Len(P2)
      /\ \A k \in 1..(Len(P1) + Len(P2)) :
            (P1 \o P2)[k] = IF k <= Len(P1) THEN P1[k] ELSE P2[k - Len(P1)]
  BY <1>3, <1>4, ConcatProperties
<1>8. /\ M \in Seq(Mutation) /\ Len(M) = Len(P1) + Len(P2) + Len(P3)
      /\ \A k \in 1..(Len(P1) + Len(P2) + Len(P3)) :
            M[k] = IF k <= Len(P1) + Len(P2) THEN (P1 \o P2)[k] ELSE P3[k - (Len(P1) + Len(P2))]
  BY <1>5, <1>6, <1>7, ConcatProperties
<1>9. \A k \in 1..Len(M) : \/ k = 1 /\ Len(P1) = 1 /\ M[k] = a
                           \/ k = Len(P1) + 1 /\ Len(P2) = 1 /\ M[k] = b
                           \/ k = Len(P1) + Len(P2) + 1 /\ Len(P3) = 1 /\ M[k] = c
  <2> SUFFICES ASSUME NEW k \in 1..Len(M)
               PROVE  \/ k = 1 /\ Len(P1) = 1 /\ M[k] = a
                      \/ k = Len(P1) + 1 /\ Len(P2) = 1 /\ M[k] = b
                      \/ k = Len(P1) + Len(P2) + 1 /\ Len(P3) = 1 /\ M[k] = c
    OBVIOUS
  <2>1. CASE k <= Len(P1)
    BY <1>3, <1>4, <1>5, <1>7, <1>8, <2>1
  <2>2. CASE k > Len(P1) /\ k <= Len(P1) + Len(P2)
    <3>1. k \in Int /\ Len(P1) \in {0, 1} /\ Len(P2) \in {0, 1}
      BY <1>3, <1>4, <1>8
    <3>2. k = Len(P1) + 1 /\ Len(P2) = 1 /\ k - Len(P1) = 1
      <4>1. \A x, y \in {0, 1} : \A z \in Int : z > x /\ z <= x + y => z = x + 1 /\ y = 1 /\ z - x = 1
        OBVIOUS
      <4> QED BY <2>2, <3>1, <4>1
    <3>3. k \in 1..(Len(P1) + Len(P2)) /\ ~(k <= Len(P1)) /\ k \in 1..(Len(P1) + Len(P2) + Len(P3))
      BY <1>5, <2>2, <3>1, <3>2
    <3>4. M[k] = (P1 \o P2)[k]
      BY <1>8, <2>2, <3>3
    <3>5. (P1 \o P2)[k] = P2[1]
      BY <1>7, <3>2, <3>3
    <3> QED BY <1>4, <3>2, <3>4, <3>5
  <2>3. CASE k > Len(P1) + Len(P2)
    <3>1. k = Len(P1) + Len(P2) + 1 /\ Len(P3) = 1 /\ k - (Len(P1) + Len(P2)) = 1
      BY <1>3, <1>4, <1>5, <1>8, <2>3
    <3> QED BY <1>3, <1>4, <1>5, <1>8, <2>3, <3>1
  <2> QED BY <1>3, <1>4, <2>1, <2>2, <2>3
<1>10. \A j, k \in 1..Len(M) : M[j].key = M[k].key => j = k
  BY <1>1, <1>3, <1>4, <1>5, <1>9
<1>11. Len(P2) = 1 => Len(P1) + 1 \in 1..Len(M) /\ M[Len(P1) + 1] = b
  BY <1>3, <1>4, <1>5, <1>7, <1>8
<1>12. Len(P3) = 1 => Len(P1) + Len(P2) + 1 \in 1..Len(M) /\ M[Len(P1) + Len(P2) + 1] = c
  BY <1>3, <1>4, <1>5, <1>7, <1>8
<1> QED BY <1>4, <1>5, <1>8, <1>10, <1>11, <1>12 DEF M, b, c, pic

LEMMA SettingsInvInit == SettingsInit => SettingsInv
<1> SUFFICES ASSUME SettingsInit PROVE SettingsInv
  OBVIOUS
<1>1. "legacy" \in Secrets /\ NoKey \in Secrets
  BY DEF Secrets
<1>2. SettingsTyped
  BY <1>1 DEF SettingsInit, SettingsTyped, Vaults, Snapshots
<1>3. \A s \in Screens : posts[s] = Quiet
  BY DEF SettingsInit
<1> QED BY <1>2, <1>3 DEF SettingsInv, Quiet, InShape

(* The post of a screen that waits for something.                          *)
LEMMA Updating ==
  ASSUME SettingsInv, NEW s \in Screens, posts[s].at # "none"
  PROVE  /\ posts[s] \in Update /\ InShape(posts[s])
         /\ posts[s].alone => PostStands(posts[s], vault, vaultDisk, runtime)
         /\ InFlight(s) => \A o \in Screens \ {s} : posts[o].alone = FALSE
<1>1. posts[s] \in Update
  BY DEF SettingsInv, SettingsTyped, Quiet
<1>2. \A o \in Screens : posts[o].alone \in BOOLEAN
  <2>1. Quiet.alone \in BOOLEAN /\ \A p \in Update : p.alone \in BOOLEAN
    BY DEF Quiet, Update
  <2> QED BY <2>1 DEF SettingsInv, SettingsTyped
<1>3. InFlight(s) => \A o \in Screens \ {s} : ~posts[o].alone
  BY DEF SettingsInv
<1> QED BY <1>1, <1>2, <1>3 DEF SettingsInv

(* A step of one post: the others are not alone, or are over.              *)
LEMMA OneMoves ==
  ASSUME SettingsInv, NEW s \in Screens, InFlight(s), NEW q \in Update \cup {Quiet},
         posts' = [posts EXCEPT ![s] = q], InShape(q),
         vault' \in Vaults, vaultDisk' \in Vaults, runtime' \in Snapshots,
         q.alone => posts[s].alone /\ PostStands(q, vault', vaultDisk', runtime')
  PROVE  SettingsInv'
<1> USE DEF SettingsInv
<1>1. SettingsTyped'
  BY DEF SettingsTyped
<1>2. posts'[s] = q /\ \A o \in Screens \ {s} : posts'[o] = posts[o]
  BY DEF SettingsTyped
<1>3. \A o \in Screens : InShape(posts'[o])
  BY <1>2
<1>4. \A o \in Screens \ {s} : posts[o].alone = FALSE
  BY Updating DEF InFlight
<1>5. ASSUME q.alone
      PROVE  PostStands(q, vault', vaultDisk', runtime') /\ \A o \in Screens \ {s} : ~InFlight(o)'
  <2>1. \A o \in Screens \ {s} : ~InFlight(o)
    BY <1>5
  <2> QED BY <1>2, <1>5, <2>1 DEF InFlight
<1> QED BY <1>1, <1>2, <1>3, <1>4, <1>5

LEMMA PostStep ==
  ASSUME SettingsInv, NEW s \in Screens, NEW w \in Wishes, Post(s, w)
  PROVE  SettingsInv'
<1> USE DEF SettingsInv
<1> DEFINE lonely == \A o \in Screens \ {s} : ~InFlight(o)
           muts == Mutations(w)
           found == IF lonely THEN <<vault, runtime>> ELSE <<>>
<1>1. PICK h \in BOOLEAN : posts' = [r \in Screens |->
           IF r = s THEN [at |-> "capture", alone |-> lonely, left |-> FALSE,
                          built |-> Built(w, h), muts |-> muts, old |-> <<>>,
                          i |-> 0, before |-> found]
           ELSE IF InFlight(r) THEN [posts[r] EXCEPT !.alone = FALSE, !.before = <<>>]
           ELSE Quiet]
  BY DEF Post
<1>2. ~InFlight(s) /\ Buildable(w) /\ UNCHANGED <<vault, vaultDisk, runtime>>
  BY DEF Post
<1> DEFINE built == Built(w, h)
           q == [at |-> "capture", alone |-> lonely, left |-> FALSE, built |-> built, muts |-> muts,
                 old |-> <<>>, i |-> 0, before |-> found]
<1>3. built \in Build /\ muts \in Seq(Mutation) /\ lonely \in BOOLEAN
  BY <1>2, BuiltTyped, MutationsAre
<1>4. found \in (Vaults \X Snapshots) \cup {<<>>} /\ (lonely => found = <<vault, runtime>>)
  BY DEF SettingsTyped
<1>5. (lonely => \A o \in Screens \ {s} : ~InFlight(o)) /\ posts'[s] = q
  BY <1>1
<1>6. \A r \in Screens \ {s} :
         posts'[r] = IF InFlight(r) THEN [posts[r] EXCEPT !.alone = FALSE, !.before = <<>>] ELSE Quiet
  BY <1>1
<1>7. PlanStands(q)
  <2>1. q.muts = muts /\ q.built = built
    OBVIOUS
  <2>2. /\ built.key # NoKey => w.chat = "compat" /\ w.key = built.key
        /\ built.imageKey # NoKey => Picture(w, TRUE) = "replicate" /\ w.imageKey = built.imageKey
    BY <1>2, BuiltTyped
  <2>3. /\ \A j, k \in 1..Len(muts) : muts[j].key = muts[k].key => j = k
        /\ w.chat = "compat" /\ w.key # NoKey =>
             \E k \in 1..Len(muts) : muts[k] = [key |-> "openai_compat", to |-> w.key]
        /\ Picture(w, TRUE) = "replicate" =>
             \E k \in 1..Len(muts) : muts[k] = [key |-> "replicate", to |-> w.imageKey]
    BY MutationsAre
  <2> HIDE DEF muts, built, q
  <2> QED BY <2>1, <2>2, <2>3 DEF PlanStands
<1>8. q.at = "capture" /\ q.alone = lonely /\ q.left = FALSE /\ q.muts = muts /\ q.old = <<>>
      /\ q.i = 0 /\ q.before = found
  OBVIOUS
<1> HIDE DEF lonely, muts, found, built
<1>9. q \in Update
  <2>1. <<>> \in Seq(Secrets)
    BY EmptySeq
  <2> QED BY <1>3, <1>4, <2>1 DEF Update
<1> HIDE DEF q
<1>10. InShape(q)
  <2>1. Len(q.old) = 0 /\ Len(muts) \in Nat
    BY <1>3, <1>8
  <2> QED BY <1>8, <2>1 DEF InShape
<1>11. lonely => PostStands(q, vault', vaultDisk', runtime')
  <2>1. lonely => found[1] = vault /\ found[2] = runtime /\ found # <<>>
    BY <1>4
  <2> QED BY <1>2, <1>7, <1>8, <2>1 DEF PostStands, OldIsKept
<1>12. ASSUME NEW r \in Screens \ {s}
       PROVE  /\ posts'[r] \in Update \cup {Quiet} /\ posts'[r].alone = FALSE /\ InShape(posts'[r])
              /\ ~InFlight(r) => ~InFlight(r)'
  <2>1. CASE InFlight(r)
    <3>1. posts[r] \in Update /\ InShape(posts[r])
      BY <2>1, Updating DEF InFlight
    <3>2. posts'[r] = [posts[r] EXCEPT !.alone = FALSE, !.before = <<>>]
      BY <1>6, <2>1
    <3>3. posts'[r] \in Update /\ posts'[r].alone = FALSE
      BY <3>1, <3>2 DEF Update
    <3>4. posts'[r].at = posts[r].at /\ posts'[r].old = posts[r].old /\ posts'[r].muts = posts[r].muts
          /\ posts'[r].i = posts[r].i
      BY <3>1, <3>2 DEF Update
    <3>5. InShape(posts'[r])
      BY <3>1, <3>4 DEF InShape
    <3> QED BY <2>1, <3>3, <3>5
  <2>2. CASE ~InFlight(r)
    <3>1. posts'[r] = Quiet
      BY <1>6, <2>2
    <3>2. Quiet.alone = FALSE /\ Quiet.at = "none" /\ InShape(Quiet)
      BY DEF Quiet, InShape
    <3> QED BY <3>1, <3>2 DEF InFlight
  <2> QED BY <2>1, <2>2
<1>13. SettingsTyped'
  <2>1. DOMAIN posts' = Screens /\ posts' = [r \in Screens |-> posts'[r]]
    BY <1>1
  <2>2. \A r \in Screens : posts'[r] \in Update \cup {Quiet}
    BY <1>5, <1>9, <1>12
  <2>3. posts' \in [Screens -> Update \cup {Quiet}]
    BY <2>1, <2>2
  <2> QED BY <1>2, <2>3 DEF SettingsTyped
<1> QED BY <1>5, <1>8, <1>10, <1>11, <1>12, <1>13

LEMMA DeclinedStep ==
  ASSUME SettingsInv, NEW s \in Screens, NEW w \in Wishes, Declined(s, w)
  PROVE  SettingsInv'
<1> USE DEF SettingsInv
<1>1. posts' = [posts EXCEPT ![s] = Quiet] /\ UNCHANGED <<vault, vaultDisk, runtime>>
  BY DEF Declined, Now
<1>2. posts'[s] = Quiet /\ \A o \in Screens \ {s} : posts'[o] = posts[o]
  BY <1>1 DEF SettingsTyped
<1>3. SettingsTyped'
  BY <1>1 DEF SettingsTyped
<1>4. InShape(Quiet) /\ Quiet.alone = FALSE /\ ~InFlight(s)'
  BY <1>2 DEF Quiet, InShape, InFlight
<1>5. \A o \in Screens : ~InFlight(o) => ~InFlight(o)'
  BY <1>2, <1>4 DEF InFlight
<1> QED BY <1>1, <1>2, <1>3, <1>4, <1>5

(* One mutation more, or less.                                             *)
LEMMA OneKeyMore ==
  ASSUME NEW muts \in Seq(Mutation), NEW i \in 1..Len(muts)
  PROVE  /\ muts[i].key \in Keys /\ muts[i].to \in Secrets
         /\ KeysOf(muts, i) = KeysOf(muts, i - 1) \cup {muts[i].key}
<1>1. 1..i = 1..(i - 1) \cup {i}
  OBVIOUS
<1>2. muts[i] \in Mutation
  OBVIOUS
<1> QED BY <1>1, <1>2 DEF KeysOf, Mutation

LEMMA CaptureStep ==
  ASSUME SettingsInv, NEW s \in Screens, Capture(s)
  PROVE  SettingsInv'
<1> DEFINE p == posts[s]
<1>1. p.at = "capture" /\ InFlight(s) /\ UNCHANGED <<vault, vaultDisk, runtime>>
  BY DEF Capture, InFlight
<1>2. /\ p \in Update /\ InShape(p) /\ p.alone \in BOOLEAN
      /\ p.alone => PostStands(p, vault, vaultDisk, runtime)
      /\ vault' \in Vaults /\ vaultDisk' \in Vaults /\ runtime' \in Snapshots
  BY <1>1, Updating DEF Update, SettingsInv, SettingsTyped
<1>3. Len(p.old) = p.i /\ p.i \in Nat /\ Len(p.muts) \in Nat /\ p.i <= Len(p.muts)
      /\ p.old \in Seq(Secrets) /\ p.muts \in Seq(Mutation)
  BY <1>1, <1>2 DEF InShape, Update
<1>4. CASE p.i = Len(p.muts) /\ Now(s, [p EXCEPT !.at = "write", !.i = 1])
  <2> DEFINE q == [p EXCEPT !.at = "write", !.i = 1]
  <2>1. q \in Update /\ q.at = "write" /\ q.i = 1 /\ q.alone = p.alone /\ q.left = p.left
        /\ q.muts = p.muts /\ q.old = p.old /\ q.before = p.before /\ q.built = p.built
    BY <1>2 DEF Update
  <2>2. posts' = [posts EXCEPT ![s] = q]
    BY <1>4 DEF Now
  <2> HIDE DEF q
  <2>3. InShape(q)
    BY <1>3, <1>4, <2>1 DEF InShape
  <2>4. q.alone => p.alone /\ PostStands(q, vault', vaultDisk', runtime')
    <3> SUFFICES ASSUME p.alone PROVE PostStands(q, vault', vaultDisk', runtime')
      BY <2>1
    <3>1. KeysOf(p.muts, 0) = {}
      BY DEF KeysOf
    <3>2. WrittenTo(q, q.i - 1, vault', vaultDisk')
      BY <1>1, <1>2, <2>1, <3>1 DEF PostStands, WrittenTo
    <3> QED BY <1>1, <1>2, <2>1, <3>2 DEF PostStands, PlanStands, OldIsKept
  <2> HIDE DEF p
  <2> QED BY <1>1, <1>2, <2>1, <2>2, <2>3, <2>4, OneMoves DEF p
<1>5. CASE /\ p.i # Len(p.muts)
           /\ Now(s, [p EXCEPT !.i = @ + 1, !.old = Append(@, vault[p.muts[p.i + 1].key])])
  <2> DEFINE next == p.i + 1
             key == p.muts[next].key
             read == vault[key]
             old == Append(p.old, read)
             q == [p EXCEPT !.i = next, !.old = old]
  <2>1. next \in 1..Len(p.muts) /\ key \in Keys /\ read \in Secrets
    <3>1. next \in 1..Len(p.muts)
      BY <1>3, <1>5
    <3>2. key \in Keys
      BY <1>3, <3>1, OneKeyMore
    <3> QED BY <3>1, <3>2 DEF SettingsInv, SettingsTyped, Vaults
  <2>2. /\ old \in Seq(Secrets) /\ Len(old) = next
        /\ \A k \in 1..p.i : old[k] = p.old[k]
        /\ old[next] = read
    BY <1>3, <2>1, AppendProperties
  <2>3. posts' = [posts EXCEPT ![s] = q]
    BY <1>5 DEF Now
  <2> HIDE DEF next, old, read, key
  <2>4. q \in Update /\ q.at = "capture" /\ q.i = next /\ q.alone = p.alone /\ q.left = p.left
        /\ q.muts = p.muts /\ q.old = old /\ q.before = p.before /\ q.built = p.built
    <3>1. next \in Nat
      BY <1>3 DEF next
    <3> QED BY <1>1, <1>2, <2>2, <3>1 DEF Update
  <2> HIDE DEF q
  <2>5. InShape(q)
    BY <1>3, <2>1, <2>2, <2>4 DEF InShape
  <2>6. q.alone => p.alone /\ PostStands(q, vault', vaultDisk', runtime')
    <3> SUFFICES ASSUME p.alone PROVE PostStands(q, vault', vaultDisk', runtime')
      BY <2>4
    <3>1. OldIsKept(q)
      <4>1. \A k \in 1..next : k = next \/ k \in 1..p.i
        BY <1>3 DEF next
      <4>2. vault = p.before[1] /\ \A k \in 1..p.i : p.old[k] = p.before[1][p.muts[k].key]
        BY <1>1, <1>2, <1>3 DEF PostStands, OldIsKept
      <4> QED BY <2>2, <2>4, <4>1, <4>2 DEF OldIsKept, read, key
    <3> QED BY <1>1, <1>2, <2>4, <3>1 DEF PostStands, PlanStands
  <2> HIDE DEF p
  <2> QED BY <1>1, <1>2, <2>3, <2>4, <2>5, <2>6, OneMoves DEF p
<1>6. CASE p.i < Len(p.muts) /\ Now(s, [p EXCEPT !.at = "failed"])
  <2> DEFINE q == [p EXCEPT !.at = "failed"]
  <2>1. q \in Update /\ q.at = "failed" /\ q.i = p.i /\ q.alone = p.alone /\ q.left = p.left
        /\ q.muts = p.muts /\ q.old = p.old /\ q.before = p.before /\ q.built = p.built
    BY <1>2 DEF Update
  <2>2. posts' = [posts EXCEPT ![s] = q]
    BY <1>6 DEF Now
  <2> HIDE DEF q
  <2>3. InShape(q)
    BY <2>1 DEF InShape
  <2>4. q.alone => p.alone /\ PostStands(q, vault', vaultDisk', runtime')
    BY <1>1, <1>2, <1>3, <1>6, <2>1 DEF PostStands, PlanStands, OldIsKept
  <2> HIDE DEF p
  <2> QED BY <1>1, <1>2, <2>1, <2>2, <2>3, <2>4, OneMoves DEF p
<1> QED BY <1>4, <1>5, <1>6 DEF Capture

(* What a write of the vault leaves, done or not.                          *)
LEMMA Writing ==
  ASSUME SettingsInv, NEW key \in Keys, NEW value \in Secrets,
         Stored(key, value) \/ NotStored(key, value)
  PROVE  /\ vault' \in Vaults /\ vaultDisk' \in Vaults
         /\ \A x \in Keys : x # key => vault'[x] = vault[x]
         /\ Stored(key, value) => vault'[key] = value /\ vaultDisk' = vault'
BY DEF Stored, NotStored, SettingsInv, SettingsTyped, Vaults

LEMMA WriteStep ==
  ASSUME SettingsInv, NEW s \in Screens, Write(s)
  PROVE  SettingsInv'
<1> DEFINE p == posts[s]
           m == p.muts[p.i]
           last == Len(p.muts)
<1>1. p.at = "write" /\ InFlight(s) /\ p.i <= last /\ UNCHANGED runtime
  BY DEF Write, InFlight
<1>2. /\ p \in Update /\ InShape(p) /\ p.alone \in BOOLEAN
      /\ p.alone => PostStands(p, vault, vaultDisk, runtime)
      /\ runtime' \in Snapshots
  BY <1>1, Updating DEF Update, SettingsInv, SettingsTyped
<1>3. /\ p.i \in 1..last /\ p.i \in Nat /\ last \in Nat /\ Len(p.old) = last /\ p.muts \in Seq(Mutation)
  BY <1>1, <1>2 DEF InShape, Update
<1>4. m.key \in Keys /\ m.to \in Secrets /\ KeysOf(p.muts, p.i) = KeysOf(p.muts, p.i - 1) \cup {m.key}
  BY <1>3, OneKeyMore
<1>5. CASE Stored(m.key, m.to) /\ Now(s, [p EXCEPT !.i = @ + 1])
  <2> DEFINE next == p.i + 1
             q == [p EXCEPT !.i = next]
  <2>1. next \in Nat /\ next - 1 = p.i /\ next \in 1..(last + 1)
    BY <1>3
  <2>2. posts' = [posts EXCEPT ![s] = q]
    BY <1>5 DEF Now
  <2> HIDE DEF next
  <2>3. q \in Update /\ q.at = "write" /\ q.i = next /\ q.alone = p.alone /\ q.left = p.left
        /\ q.muts = p.muts /\ q.old = p.old /\ q.before = p.before /\ q.built = p.built
    BY <1>1, <1>2, <2>1 DEF Update
  <2> HIDE DEF q
  <2>4. InShape(q)
    BY <1>3, <2>1, <2>3 DEF InShape
  <2>5. vault' \in Vaults /\ vaultDisk' \in Vaults /\ (\A x \in Keys : x # m.key => vault'[x] = vault[x])
        /\ vault'[m.key] = m.to /\ vaultDisk' = vault'
    BY <1>4, <1>5, Writing
  <2>6. q.alone => p.alone /\ PostStands(q, vault', vaultDisk', runtime')
    <3> SUFFICES ASSUME p.alone PROVE PostStands(q, vault', vaultDisk', runtime')
      BY <2>3
    <3>1. PlanStands(p) /\ OldIsKept(p) /\ p.before # <<>> /\ p.left = FALSE /\ runtime = p.before[2]
          /\ WrittenTo(p, p.i - 1, vault, vaultDisk)
      BY <1>1, <1>2 DEF PostStands
    <3>2. \A k \in 1..p.i : vault'[p.muts[k].key] = p.muts[k].to
      <4> SUFFICES ASSUME NEW k \in 1..p.i PROVE vault'[p.muts[k].key] = p.muts[k].to
        OBVIOUS
      <4>1. CASE k = p.i
        BY <2>5, <4>1
      <4>2. CASE k # p.i
        <5>1. k \in 1..(p.i - 1) /\ k \in 1..last /\ p.muts[k].key \in Keys
          BY <1>3, <4>2, OneKeyMore
        <5>2. p.muts[k].key # m.key
          BY <1>3, <3>1, <4>2, <5>1 DEF PlanStands
        <5> QED BY <2>5, <3>1, <5>1, <5>2 DEF WrittenTo
      <4> QED BY <4>1, <4>2
    <3>3. \A x \in Keys \ KeysOf(p.muts, p.i) : vault'[x] = p.before[1][x]
      BY <1>4, <2>5, <3>1 DEF WrittenTo
    <3>4. WrittenTo(q, q.i - 1, vault', vaultDisk')
      BY <2>1, <2>3, <2>5, <3>2, <3>3 DEF WrittenTo
    <3> QED BY <1>1, <2>3, <3>1, <3>4 DEF PostStands, PlanStands, OldIsKept
  <2> HIDE DEF p
  <2> QED BY <1>1, <1>2, <2>2, <2>3, <2>4, <2>5, <2>6, OneMoves DEF p
<1>6. CASE NotStored(m.key, m.to) /\ Now(s, [p EXCEPT !.at = "restore", !.i = UndoFrom(p)])
  <2> DEFINE q == [p EXCEPT !.at = "restore", !.i = last]
  <2>2. posts' = [posts EXCEPT ![s] = q]
    BY <1>6 DEF Now, UndoFrom
  <2> HIDE DEF last
  <2>3. q \in Update /\ q.at = "restore" /\ q.i = last /\ q.alone = p.alone /\ q.left = p.left
        /\ q.muts = p.muts /\ q.old = p.old /\ q.before = p.before /\ q.built = p.built
    BY <1>1, <1>2, <1>3 DEF Update
  <2> HIDE DEF q
  <2>4. InShape(q)
    <3>1. last = Len(p.muts) /\ p.muts # <<>>
      BY <1>3 DEF last
    <3> QED BY <1>3, <2>3, <3>1 DEF InShape
  <2>5. vault' \in Vaults /\ vaultDisk' \in Vaults /\ (\A x \in Keys : x # m.key => vault'[x] = vault[x])
    BY <1>4, <1>6, Writing
  <2>6. q.alone => p.alone /\ PostStands(q, vault', vaultDisk', runtime')
    <3> SUFFICES ASSUME p.alone PROVE PostStands(q, vault', vaultDisk', runtime')
      BY <2>3
    <3>1. PlanStands(p) /\ OldIsKept(p) /\ p.before # <<>> /\ runtime = p.before[2]
          /\ WrittenTo(p, p.i - 1, vault, vaultDisk)
      BY <1>1, <1>2 DEF PostStands
    <3>2. KeysOf(p.muts, p.i) \subseteq KeysOf(p.muts, last)
      BY <1>3 DEF KeysOf
    <3>3. \A x \in Keys \ KeysOf(p.muts, last) : vault'[x] = p.before[1][x]
      BY <1>4, <2>5, <3>1, <3>2 DEF WrittenTo
    <3>4. ~(q.i < Len(q.muts))
      BY <1>3, <2>3 DEF last
    <3> QED BY <1>1, <2>3, <3>1, <3>3, <3>4 DEF PostStands, PlanStands, OldIsKept
  <2> HIDE DEF p
  <2> QED BY <1>1, <1>2, <2>2, <2>3, <2>4, <2>5, <2>6, OneMoves DEF p
<1> QED BY <1>5, <1>6 DEF Write

LEMMA SwapStep ==
  ASSUME SettingsInv, NEW s \in Screens, Swap(s)
  PROVE  SettingsInv'
<1> DEFINE p == posts[s]
           q == [p EXCEPT !.at = "done"]
           rev == runtime.rev + 1
<1>1. p.at = "write" /\ InFlight(s) /\ p.i > Len(p.muts) /\ UNCHANGED <<vault, vaultDisk>>
      /\ posts' = [posts EXCEPT ![s] = q]
  BY DEF Swap, InFlight, Now
<1>2. /\ p \in Update /\ InShape(p) /\ p.alone \in BOOLEAN
      /\ p.alone => PostStands(p, vault, vaultDisk, runtime)
      /\ runtime \in Snapshots /\ vault' \in Vaults /\ vaultDisk' \in Vaults
  BY <1>1, Updating DEF Update, SettingsInv, SettingsTyped
<1>3. p.i = Len(p.muts) + 1 /\ Len(p.muts) \in Nat /\ p.i - 1 = Len(p.muts)
  BY <1>1, <1>2 DEF InShape, Update
<1>4. q \in Update /\ q.at = "done" /\ q.alone = p.alone /\ q.left = p.left
      /\ q.muts = p.muts /\ q.old = p.old /\ q.before = p.before /\ q.built = p.built
  BY <1>2 DEF Update
<1>5. rev \in Nat /\ p.built \in Build
  BY <1>2 DEF Snapshots, Update
<1>6. runtime' = [chat |-> p.built.chat, key |-> p.built.key, image |-> p.built.image,
                  imageKey |-> p.built.imageKey, video |-> p.built.video, rev |-> rev]
  BY DEF Swap
<1> HIDE DEF rev, q
<1>7. runtime' \in Snapshots
  BY <1>5, <1>6 DEF Snapshots, Build
<1>8. q.alone => p.alone /\ PostStands(q, vault', vaultDisk', runtime')
  <2> SUFFICES ASSUME p.alone PROVE PostStands(q, vault', vaultDisk', runtime')
    BY <1>4
  <2>1. PlanStands(p) /\ OldIsKept(p) /\ p.before # <<>> /\ runtime = p.before[2]
        /\ WrittenTo(p, Len(p.muts), vault, vaultDisk)
    BY <1>1, <1>2, <1>3 DEF PostStands
  <2>2. WrittenTo(q, Len(q.muts), vault', vaultDisk')
    BY <1>1, <1>4, <2>1 DEF WrittenTo
  <2>3. runtime'.rev = q.before[2].rev + 1 /\ runtime'.chat = q.built.chat
        /\ runtime'.key = q.built.key /\ runtime'.imageKey = q.built.imageKey
    BY <1>4, <1>6, <2>1 DEF rev
  <2> QED BY <1>4, <2>1, <2>2, <2>3 DEF PostStands, PlanStands, OldIsKept
<1>9. InShape(q)
  BY <1>4 DEF InShape
<1> HIDE DEF p
<1> QED BY <1>1, <1>2, <1>4, <1>7, <1>8, <1>9, OneMoves DEF p

LEMMA RestoreKeyStep ==
  ASSUME SettingsInv, NEW s \in Screens, RestoreKey(s)
  PROVE  SettingsInv'
<1> DEFINE p == posts[s]
           key == p.muts[p.i].key
           value == p.old[p.i]
           next == p.i - 1
<1>1. p.at = "restore" /\ InFlight(s) /\ p.i > 0 /\ UNCHANGED runtime
  BY DEF RestoreKey, InFlight
<1>2. /\ p \in Update /\ InShape(p) /\ p.alone \in BOOLEAN
      /\ p.alone => PostStands(p, vault, vaultDisk, runtime)
      /\ runtime' \in Snapshots
  BY <1>1, Updating DEF Update, SettingsInv, SettingsTyped
<1>3. /\ Len(p.muts) \in Nat /\ p.i \in 1..Len(p.muts) /\ next \in Nat /\ next < Len(p.muts)
      /\ Len(p.old) = Len(p.muts) /\ p.muts \in Seq(Mutation) /\ p.muts # <<>> /\ p.old \in Seq(Secrets)
  BY <1>1, <1>2 DEF InShape, Update
<1>4. key \in Keys /\ value \in Secrets /\ KeysOf(p.muts, p.i) = KeysOf(p.muts, next) \cup {key}
  BY <1>3, OneKeyMore
<1>5. PICK left \in BOOLEAN :
         /\ posts' = [posts EXCEPT ![s] = [p EXCEPT !.i = next, !.left = left]]
         /\ left = FALSE => Stored(key, value) /\ p.left = FALSE
         /\ Stored(key, value) \/ NotStored(key, value)
  <2>1. CASE Stored(key, value) /\ Now(s, [p EXCEPT !.i = @ - 1])
    <3>1. [p EXCEPT !.i = next] = [p EXCEPT !.i = next, !.left = p.left] /\ p.left \in BOOLEAN
      BY <1>2 DEF Update
    <3> QED BY <2>1, <3>1 DEF Now
  <2>2. CASE NotStored(key, value) /\ Now(s, [p EXCEPT !.i = @ - 1, !.left = TRUE])
    BY <2>2 DEF Now
  <2> QED BY <2>1, <2>2 DEF RestoreKey
<1> DEFINE q == [p EXCEPT !.i = next, !.left = left]
<1>6. q \in Update /\ q.at = "restore" /\ q.i = next /\ q.alone = p.alone /\ q.left = left
      /\ q.muts = p.muts /\ q.old = p.old /\ q.before = p.before /\ q.built = p.built
  <2> HIDE DEF next
  <2> QED BY <1>1, <1>2, <1>3 DEF Update
<1>7. posts' = [posts EXCEPT ![s] = q]
  BY <1>5
<1> HIDE DEF q
<1>8. InShape(q)
  BY <1>3, <1>6 DEF InShape
<1>9. /\ vault' \in Vaults /\ vaultDisk' \in Vaults /\ \A x \in Keys : x # key => vault'[x] = vault[x]
      /\ left = FALSE => vault'[key] = value /\ vaultDisk' = vault'
  BY <1>4, <1>5, Writing
<1>10. q.alone => p.alone /\ PostStands(q, vault', vaultDisk', runtime')
  <2> SUFFICES ASSUME p.alone PROVE PostStands(q, vault', vaultDisk', runtime')
    BY <1>6
  <2>1. /\ PlanStands(p) /\ OldIsKept(p) /\ p.before # <<>> /\ runtime = p.before[2]
        /\ p.left = FALSE => \A x \in Keys \ KeysOf(p.muts, p.i) : vault[x] = p.before[1][x]
    BY <1>1, <1>2 DEF PostStands
  <2>2. value = p.before[1][key]
    BY <1>3, <2>1 DEF OldIsKept
  <2>3. left = FALSE => \A x \in Keys \ KeysOf(p.muts, next) : vault'[x] = p.before[1][x]
    BY <1>4, <1>5, <1>9, <2>1, <2>2
  <2> HIDE DEF next, key, value
  <2> QED BY <1>1, <1>6, <1>9, <2>1, <2>3 DEF PostStands, PlanStands, OldIsKept
<1> HIDE DEF p
<1> QED BY <1>1, <1>2, <1>6, <1>7, <1>8, <1>9, <1>10, OneMoves DEF p

LEMMA RestoredStep ==
  ASSUME SettingsInv, NEW s \in Screens, Restored(s)
  PROVE  SettingsInv'
<1> DEFINE p == posts[s]
           q == [p EXCEPT !.at = "failed"]
<1>1. p.at = "restore" /\ InFlight(s) /\ p.i = 0 /\ UNCHANGED <<vault, vaultDisk, runtime>>
      /\ posts' = [posts EXCEPT ![s] = q]
  BY DEF Restored, InFlight, Now
<1>2. /\ p \in Update /\ InShape(p) /\ p.alone \in BOOLEAN
      /\ p.alone => PostStands(p, vault, vaultDisk, runtime)
      /\ vault \in Vaults /\ vault' \in Vaults /\ vaultDisk' \in Vaults /\ runtime' \in Snapshots
  BY <1>1, Updating DEF Update, SettingsInv, SettingsTyped
<1>3. q \in Update /\ q.at = "failed" /\ q.alone = p.alone /\ q.left = p.left
      /\ q.muts = p.muts /\ q.old = p.old /\ q.before = p.before /\ q.built = p.built
  BY <1>2 DEF Update
<1> HIDE DEF q
<1>4. InShape(q)
  BY <1>3 DEF InShape
<1>5. q.alone => p.alone /\ PostStands(q, vault', vaultDisk', runtime')
  <2> SUFFICES ASSUME p.alone PROVE PostStands(q, vault', vaultDisk', runtime')
    BY <1>3
  <2>1. /\ PlanStands(p) /\ OldIsKept(p) /\ p.before # <<>> /\ runtime = p.before[2]
        /\ p.left = FALSE => /\ \A x \in Keys \ KeysOf(p.muts, 0) : vault[x] = p.before[1][x]
                             /\ 0 < Len(p.muts) => vaultDisk = vault
    BY <1>1, <1>2 DEF PostStands
  <2>2. p.before[1] \in Vaults
    BY <1>2, <2>1 DEF Update
  <2>3. KeysOf(p.muts, 0) = {} /\ 0 < Len(p.muts)
    <3>1. p.muts \in Seq(Mutation) /\ p.muts # <<>>
      BY <1>1, <1>2 DEF Update, InShape
    <3> QED BY <3>1 DEF KeysOf
  <2>4. p.left = FALSE => vault = p.before[1] /\ vaultDisk = vault
    BY <1>2, <2>1, <2>2, <2>3 DEF Vaults
  <2> QED BY <1>1, <1>3, <2>1, <2>4 DEF PostStands, PlanStands, OldIsKept
<1> HIDE DEF p
<1> QED BY <1>1, <1>2, <1>3, <1>4, <1>5, OneMoves DEF p

LEMMA HangupStep ==
  ASSUME SettingsInv, NEW s \in Screens, Hangup(s)
  PROVE  SettingsInv'
<1> DEFINE p == posts[s]
           q == [p EXCEPT !.at = "stray"]
<1>1. p.at \in {"capture", "write", "restore"} /\ InFlight(s) /\ UNCHANGED <<vault, vaultDisk, runtime>>
  BY DEF Hangup, InFlight
<1>2. /\ p \in Update /\ InShape(p)
      /\ p.alone => PostStands(p, vault, vaultDisk, runtime)
      /\ vault' \in Vaults /\ vaultDisk' \in Vaults /\ runtime' \in Snapshots
  BY <1>1, Updating DEF SettingsInv, SettingsTyped
<1>3. q \in Update /\ q.at = "stray" /\ q.alone = p.alone /\ q.i = p.i
      /\ q.muts = p.muts /\ q.old = p.old /\ q.before = p.before /\ q.built = p.built
  BY <1>2 DEF Update
<1>4. CASE p.at # "capture" /\ p.i \in 1..Len(p.muts) /\ posts' = [posts EXCEPT ![s] = q]
  <2> HIDE DEF q
  <2>1. InShape(q)
    BY <1>1, <1>2, <1>3, <1>4 DEF InShape
  <2>2. q.alone => p.alone /\ PostStands(q, vault', vaultDisk', runtime')
    BY <1>2, <1>3 DEF PostStands, PlanStands, OldIsKept
  <2> HIDE DEF p
  <2> QED BY <1>1, <1>2, <1>3, <1>4, <2>1, <2>2, OneMoves DEF p
<1>5. CASE posts' = [posts EXCEPT ![s] = Quiet]
  <2>1. InShape(Quiet) /\ Quiet.alone = FALSE
    BY DEF InShape, Quiet
  <2> HIDE DEF p
  <2> QED BY <1>1, <1>2, <1>5, <2>1, OneMoves
<1> HIDE DEF q
<1> QED BY <1>4, <1>5 DEF Hangup, Now, q

LEMMA StrayWriteStep ==
  ASSUME SettingsInv, NEW s \in Screens, StrayWrite(s)
  PROVE  SettingsInv'
<1> DEFINE p == posts[s]
           m == p.muts[p.i]
<1>1. p.at = "stray" /\ InFlight(s) /\ UNCHANGED runtime /\ posts' = [posts EXCEPT ![s] = Quiet]
  BY DEF StrayWrite, InFlight, Now
<1>2. p \in Update /\ InShape(p) /\ runtime' \in Snapshots
  BY <1>1, Updating DEF SettingsInv, SettingsTyped
<1>3. /\ p.i \in 1..Len(p.muts) /\ Len(p.old) = Len(p.muts) /\ p.muts \in Seq(Mutation)
      /\ p.old \in Seq(Secrets)
  BY <1>1, <1>2 DEF InShape, Update
<1>4. m.key \in Keys /\ m.to \in Secrets /\ p.old[p.i] \in Secrets
  BY <1>3, OneKeyMore
<1>5. PICK value \in {m.to, p.old[p.i]} : Stored(m.key, value) \/ NotStored(m.key, value)
  BY DEF StrayWrite
<1>6. vault' \in Vaults /\ vaultDisk' \in Vaults
  BY <1>4, <1>5, Writing
<1>7. InShape(Quiet) /\ Quiet.alone = FALSE
  BY DEF InShape, Quiet
<1> QED BY <1>1, <1>2, <1>6, <1>7, OneMoves

LEMMA SettingsStep == SettingsInv /\ [SettingsNext]_settingsVars => SettingsInv'
<1> SUFFICES ASSUME SettingsInv, [SettingsNext]_settingsVars PROVE SettingsInv'
  OBVIOUS
<1>1. CASE UNCHANGED settingsVars
  BY <1>1 DEF settingsVars, SettingsInv, SettingsTyped, InFlight
<1>2. ASSUME NEW s \in Screens, NEW w \in Wishes, Post(s, w) \/ Declined(s, w) PROVE SettingsInv'
  BY <1>2, PostStep, DeclinedStep
<1>3. ASSUME NEW s \in Screens, Capture(s) \/ Write(s) \/ Swap(s) PROVE SettingsInv'
  BY <1>3, CaptureStep, WriteStep, SwapStep
<1>4. ASSUME NEW s \in Screens, RestoreKey(s) \/ Restored(s) PROVE SettingsInv'
  BY <1>4, RestoreKeyStep, RestoredStep
<1>5. ASSUME NEW s \in Screens, Hangup(s) \/ StrayWrite(s) PROVE SettingsInv'
  BY <1>5, HangupStep, StrayWriteStep
<1>6. CASE BackendRestarts
  <2>1. \A s \in Screens : posts'[s] = Quiet
    BY <1>6 DEF BackendRestarts
  <2>2. SettingsTyped'
    <3>1. NoKey \in Secrets
      BY DEF Secrets
    <3> QED BY <1>6, <3>1 DEF BackendRestarts, SettingsInv, SettingsTyped, Snapshots
  <2>3. InShape(Quiet) /\ Quiet.alone = FALSE
    BY DEF InShape, Quiet
  <2> QED BY <2>1, <2>2, <2>3 DEF SettingsInv
<1> QED BY <1>1, <1>2, <1>3, <1>4, <1>5, <1>6 DEF SettingsNext

(* A post of the settings that ran alone is all or nothing: one that       *)
(* succeeded left its snapshot and its keys, on disk as well, and one that *)
(* failed without saying that the rollback failed left both as they were.  *)
THEOREM AloneIsWhole == SettingsSpec => []UpdatesAreWhole
<1>1. SettingsInv => UpdatesAreWhole
  <2> SUFFICES ASSUME SettingsInv, NEW s \in Screens, posts[s].alone
               PROVE  UpdatesAreWhole!(s)
    BY DEF UpdatesAreWhole
  <2> DEFINE p == posts[s]
  <2>1. p \in Update /\ PostStands(p, vault, vaultDisk, runtime) /\ p.left \in BOOLEAN
    <3>1. p # Quiet
      BY DEF Quiet
    <3> QED BY <3>1 DEF SettingsInv, SettingsTyped, Update
  <2>2. Len(p.muts) \in Nat /\ (p.muts # <<>> => Len(p.muts) > 0)
    BY <2>1 DEF Update
  <2>3. ASSUME p.at = "done"
        PROVE  /\ \A i \in 1..Len(p.muts) : vault[p.muts[i].key] = p.muts[i].to
               /\ \A k \in Keys \ {p.muts[i].key : i \in 1..Len(p.muts)} : vault[k] = p.before[1][k]
               /\ p.muts # <<>> => vaultDisk = vault
               /\ runtime.chat = p.built.chat /\ runtime.rev = p.before[2].rev + 1
               /\ runtime.key # NoKey => vaultDisk["openai_compat"] = runtime.key
               /\ runtime.imageKey # NoKey => vaultDisk["replicate"] = runtime.imageKey
    <3>1. /\ WrittenTo(p, Len(p.muts), vault, vaultDisk) /\ runtime.rev = p.before[2].rev + 1
          /\ runtime.chat = p.built.chat /\ runtime.key = p.built.key
          /\ runtime.imageKey = p.built.imageKey /\ PlanStands(p)
      BY <2>1, <2>3 DEF PostStands
    <3>2. p.muts # <<>> => vaultDisk = vault
      BY <2>2, <3>1 DEF WrittenTo
    <3>3. \A k \in 1..Len(p.muts) : vault[p.muts[k].key] = p.muts[k].to /\ vaultDisk = vault
      BY <2>2, <3>1 DEF WrittenTo
    <3>4. runtime.key # NoKey => vaultDisk["openai_compat"] = runtime.key
      <4> SUFFICES ASSUME p.built.key # NoKey PROVE vaultDisk["openai_compat"] = p.built.key
        BY <3>1
      <4>1. PICK k \in 1..Len(p.muts) : p.muts[k] = [key |-> "openai_compat", to |-> p.built.key]
        BY <3>1 DEF PlanStands
      <4> QED BY <3>3, <4>1
    <3>5. runtime.imageKey # NoKey => vaultDisk["replicate"] = runtime.imageKey
      <4> SUFFICES ASSUME p.built.imageKey # NoKey PROVE vaultDisk["replicate"] = p.built.imageKey
        BY <3>1
      <4>1. PICK k \in 1..Len(p.muts) : p.muts[k] = [key |-> "replicate", to |-> p.built.imageKey]
        BY <3>1 DEF PlanStands
      <4> QED BY <3>3, <4>1
    <3> QED BY <3>1, <3>2, <3>3, <3>4, <3>5 DEF WrittenTo, KeysOf
  <2>4. ASSUME p.at = "failed", ~p.left
        PROVE  /\ vault = p.before[1] /\ runtime = p.before[2]
               /\ p.old # <<>> /\ Len(p.old) = Len(p.muts) /\ p.i = 0 => vaultDisk = vault
    BY <2>1, <2>2, <2>4 DEF PostStands
  <2> HIDE DEF p
  <2> QED BY <2>3, <2>4 DEF p
<1>2. SettingsInv /\ [SettingsNext]_settingsVars => SettingsInv'
  BY SettingsStep
<1> QED BY <1>1, <1>2, SettingsInvInit, PTL DEF SettingsSpec

-----------------------------------------------------------------------------
(* The downloads.  While nobody meddles, one job at most is at work, what  *)
(* is on disk is clean, and a transfer knows how much of it there is.      *)
Piece == [len : Nat, there : BOOLEAN, clean : BOOLEAN]
Transfer == [at : {"idle", "ask", "sent", "write", "ok", "bad"}, from : Nat, got : Nat, lost : BOOLEAN]
Job == [live : BOOLEAN, listed : BOOLEAN, next : Nat, tr : [Files -> Transfer]]
Count == Len(ModelFiles[model])

LoadTyped ==
  /\ model \in DOMAIN ModelFiles /\ shelf \in [Files -> Piece] /\ jobs \in Seq(Job)
  /\ handle \in Nat /\ meddled \in BOOLEAN
  /\ status \in {"idle", "downloading", "completed", "failed"}
  /\ \A j \in DOMAIN jobs :
        jobs[j].next \in 1..Count /\ (jobs[j].listed = FALSE => jobs[j].next = 1)

OpenIsThere ==
  \A j \in DOMAIN jobs, f \in Files :
     jobs[j].tr[f].at = "write" /\ jobs[j].tr[f].lost = FALSE => shelf[f].there
NotThereIsAbsent == \A f \in Files : shelf[f].there = FALSE => shelf[f] = Absent

AtWork(j) == jobs[j].live \/ \E f \in Files : Alive(j, f)
OneWorks == \A j \in DOMAIN jobs : AtWork(j) => j = Len(jobs)
ShelfIsClean == \A f \in Files : shelf[f].clean /\ shelf[f].len <= Chunks[f]
IsWhole(f) == shelf[f] = [len |-> Chunks[f], there |-> TRUE, clean |-> TRUE]
TransferStands(j, f) ==
  LET t == jobs[j].tr[f] IN
  /\ Alive(j, f) /\ t.at = "sent" => t.from = shelf[f].len /\ t.got = 0 /\ t.lost = FALSE
  /\ Alive(j, f) /\ t.at = "write" =>
        t.lost = FALSE /\ shelf[f].there /\ shelf[f].len = t.from + t.got
  /\ jobs[j].live /\ t.at = "ok" => IsWhole(f)
IsDone(j, f) ==
  /\ IsWhole(f) /\ jobs[j].tr[f].at # "write"
  /\ model = Folder => jobs[j].tr[f].at = "ok"
DoneInOrder(j) ==
  jobs[j].live => \A i \in 1..(jobs[j].next - 1) : IsDone(j, ModelFiles[model][i])
CompletedIsWhole == status = "completed" => (~SomethingAlive /\ \A f \in Files : IsWhole(f))

Undisturbed ==
  /\ OneWorks /\ ShelfIsClean /\ CompletedIsWhole
  /\ \A j \in DOMAIN jobs : DoneInOrder(j) /\ \A f \in Files : TransferStands(j, f)
LoadInv == LoadTyped /\ OpenIsThere /\ NotThereIsAbsent /\ (meddled \/ Undisturbed)

LEMMA FilesAre ==
  ASSUME LoadTyped
  PROVE  /\ Count \in Nat \ {0} /\ Files \subseteq Published
         /\ \A i \in 1..Count : ModelFiles[model][i] \in Files
         /\ \A f \in Files : \E i \in 1..Count : f = ModelFiles[model][i]
         /\ \A f \in Files : Chunks[f] \in Nat \ {0}
<1>1. ModelFiles[model] \in Seq(Published) /\ ModelFiles[model] # <<>>
  BY DownloadsAssumption DEF LoadTyped
<1>2. Count \in Nat \ {0} /\ \A i \in 1..Count : ModelFiles[model][i] \in Published
  BY <1>1, LenProperties DEF Count
<1>3. Files \subseteq Published
  BY <1>2 DEF Files, Count
<1> QED BY <1>2, <1>3, DownloadsAssumption DEF Files, Count

LEMMA LoadInvInit == LoadInit => LoadInv
<1> SUFFICES ASSUME LoadInit PROVE LoadInv
  OBVIOUS
<1>1. jobs \in Seq(Job) /\ DOMAIN jobs = {}
  BY EmptySeq DEF LoadInit
<1>2. LoadTyped
  BY <1>1 DEF LoadInit, LoadTyped, Piece, Absent
<1>3. OpenIsThere /\ NotThereIsAbsent
  BY <1>1 DEF LoadInit, OpenIsThere, NotThereIsAbsent
<1>4. OneWorks /\ CompletedIsWhole
  BY <1>1 DEF LoadInit, OneWorks, CompletedIsWhole
<1>5. ShelfIsClean
  BY <1>2, FilesAre DEF LoadInit, ShelfIsClean, Absent
<1> QED BY <1>1, <1>2, <1>3, <1>4, <1>5 DEF LoadInv, Undisturbed

(* What is known of one job.                                               *)
LEMMA JobIs ==
  ASSUME LoadTyped, NEW j \in DOMAIN jobs
  PROVE  /\ jobs[j] \in Job /\ jobs[j].next \in 1..Count /\ jobs[j].live \in BOOLEAN
         /\ jobs[j].tr \in [Files -> Transfer] /\ DOMAIN jobs = 1..Len(jobs) /\ Len(jobs) \in Nat
<1>1. jobs \in Seq(Job) /\ jobs[j].next \in 1..Count
  BY DEF LoadTyped
<1>2. jobs[j] \in Job /\ DOMAIN jobs = 1..Len(jobs) /\ Len(jobs) \in Nat
  BY <1>1, LenProperties
<1> QED BY <1>1, <1>2 DEF Job

(* The other jobs rest while one is at work and nobody has meddled.        *)
LEMMA OthersRest ==
  ASSUME LoadInv, meddled = FALSE, NEW j \in DOMAIN jobs, AtWork(j)
  PROVE  /\ j = Len(jobs) /\ status # "completed"
         /\ \A k \in DOMAIN jobs \ {j} :
               jobs[k].live = FALSE /\ \A f \in Files : ~Alive(k, f) /\ ~OtherWriter(j, f)
<1>1. Undisturbed
  BY DEF LoadInv
<1>2. j = Len(jobs)
  BY <1>1 DEF Undisturbed, OneWorks
<1>3. \A k \in DOMAIN jobs \ {j} : ~AtWork(k)
  BY <1>1, <1>2 DEF Undisturbed, OneWorks
<1>4. status # "completed"
  BY <1>1 DEF Undisturbed, CompletedIsWhole, SomethingAlive, AtWork
<1>5. \A k \in DOMAIN jobs \ {j} : jobs[k].live = FALSE /\ \A f \in Files : ~Alive(k, f)
  BY <1>3, JobIs DEF AtWork, LoadInv
<1> QED BY <1>2, <1>4, <1>5 DEF OtherWriter

LEMMA NobodyElseWrites ==
  ASSUME LoadInv, meddled = FALSE, NEW j \in DOMAIN jobs, NEW f \in Files, AtWork(j)
  PROVE  OtherWriter(j, f) = FALSE
<1>1. \A k \in DOMAIN jobs \ {j} : ~Alive(k, f)
  BY OthersRest
<1> QED BY <1>1 DEF OtherWriter

(* Setting one job of the sequence.                                        *)
LEMMA OneJob ==
  ASSUME LoadTyped, NEW j \in DOMAIN jobs, NEW q \in Job
  PROVE  LET js == [jobs EXCEPT ![j] = q] IN
         /\ js \in Seq(Job) /\ DOMAIN js = DOMAIN jobs /\ Len(js) = Len(jobs)
         /\ js[j] = q /\ \A k \in DOMAIN jobs \ {j} : js[k] = jobs[k]
<1> DEFINE js == [jobs EXCEPT ![j] = q]
<1>1. jobs \in Seq(Job)
  BY DEF LoadTyped
<1>2. js \in Seq(Job) /\ Len(js) = Len(jobs)
  BY <1>1, ExceptSeq
<1> QED BY <1>1, <1>2

(* A step of the job j that leaves the shelf alone.                        *)
LEMMA JobMoves ==
  ASSUME LoadInv, NEW j \in DOMAIN jobs, jobs[j].live, NEW q \in Job, q.next \in 1..Count,
         q.listed = FALSE => q.next = 1,
         jobs' = [jobs EXCEPT ![j] = q], UNCHANGED <<model, shelf, meddled>>,
         handle' \in Nat, status' \in {"idle", "downloading", "completed", "failed"},
         \A f \in Files : q.tr[f] = jobs[j].tr[f] \/ q.tr[f].at \in {"idle", "ask"},
         meddled = FALSE /\ q.live =>
            /\ status' # "completed"
            /\ \A i \in 1..(q.next - 1) : LET f == ModelFiles[model][i] IN
                  /\ IsWhole(f) /\ q.tr[f].at # "write" /\ (model = Folder => q.tr[f].at = "ok"),
         meddled = FALSE /\ status' = "completed" =>
            \A f \in Files : IsWhole(f) /\ (model = Folder => q.tr[f].at = "idle")
  PROVE  LoadInv'
<1> USE DEF LoadInv
<1>0. Files' = Files /\ Count' = Count /\ Job' = Job
  BY DEF Files, Count, Job
<1>1. /\ jobs' \in Seq(Job) /\ DOMAIN jobs' = DOMAIN jobs /\ Len(jobs') = Len(jobs)
      /\ jobs'[j] = q /\ \A k \in DOMAIN jobs \ {j} : jobs'[k] = jobs[k]
  BY OneJob
<1>2. LoadTyped'
  BY <1>0, <1>1 DEF LoadTyped
<1>3. OpenIsThere'
  BY <1>0, <1>1 DEF OpenIsThere
<1>4. NotThereIsAbsent'
  BY <1>0 DEF NotThereIsAbsent
<1>5. ASSUME meddled = FALSE PROVE Undisturbed'
  <2>1. /\ j = Len(jobs) /\ status # "completed"
        /\ \A k \in DOMAIN jobs \ {j} : jobs[k].live = FALSE /\ \A f \in Files : ~Alive(k, f)
    BY <1>5, OthersRest DEF AtWork
  <2>2. Undisturbed
    BY <1>5
  <2>3. \A k \in DOMAIN jobs \ {j} : jobs'[k].live = FALSE /\ \A f \in Files : ~Alive(k, f)'
    BY <1>1, <2>1 DEF Alive, Moving
  <2>4. OneWorks'
    BY <1>0, <1>1, <2>1, <2>3 DEF OneWorks, AtWork
  <2>5. ShelfIsClean'
    BY <1>0, <2>2 DEF Undisturbed, ShelfIsClean
  <2>6. \A f \in Files : IsWhole(f)' = IsWhole(f)
    BY DEF IsWhole
  <2>7. CompletedIsWhole'
    <3> SUFFICES ASSUME status' = "completed" PROVE ~SomethingAlive' /\ \A f \in Files : IsWhole(f)'
      BY <1>0 DEF CompletedIsWhole
    <3>1. q.live = FALSE /\ \A f \in Files : IsWhole(f) /\ (model = Folder => q.tr[f].at = "idle")
      BY <1>5 DEF Job
    <3>2. \A f \in Files : ~Alive(j, f)'
      BY <1>1, <3>1 DEF Alive, Moving
    <3> QED BY <1>0, <1>1, <2>3, <2>6, <3>1, <3>2 DEF SomethingAlive
  <2>8. ASSUME NEW k \in DOMAIN jobs, NEW f \in Files PROVE TransferStands(k, f)'
    <3>1. CASE k # j
      BY <1>1, <2>3, <2>8, <3>1 DEF TransferStands
    <3>2. CASE k = j
      <4>1. TransferStands(j, f)
        BY <2>2 DEF Undisturbed
      <4>2. Alive(j, f)' => q.tr[f].at \in {"ask", "sent", "write"}
        BY <1>1 DEF Alive, Moving
      <4>3. CASE q.tr[f].at \in {"idle", "ask"}
        BY <1>1, <3>2, <4>3 DEF TransferStands
      <4>4. CASE q.tr[f] = jobs[j].tr[f]
        <5>1. Alive(j, f)' => Alive(j, f)
          BY <1>1, <4>4 DEF Alive, Moving
        <5> QED BY <1>1, <2>6, <3>2, <4>1, <4>4, <5>1 DEF TransferStands
      <4> QED BY <4>3, <4>4
    <3> QED BY <3>1, <3>2
  <2>9. ASSUME NEW k \in DOMAIN jobs PROVE DoneInOrder(k)'
    <3>1. CASE k # j
      BY <1>1, <2>3, <2>9, <3>1 DEF DoneInOrder
    <3>2. CASE k = j
      BY <1>1, <1>5, <3>2 DEF DoneInOrder, IsDone, IsWhole
    <3> QED BY <3>1, <3>2
  <2> QED BY <1>0, <1>1, <2>4, <2>5, <2>7, <2>8, <2>9 DEF Undisturbed
<1>6. meddled \in BOOLEAN
  BY DEF LoadTyped
<1> QED BY <1>2, <1>3, <1>4, <1>5, <1>6

(* A transfer that is under way, as recorded.                              *)
LEMMA TransferIs ==
  ASSUME LoadInv, NEW j \in DOMAIN jobs, NEW f \in Files
  PROVE  /\ jobs[j].tr[f] \in Transfer /\ shelf[f] \in Piece /\ Chunks[f] \in Nat
         /\ Alive(j, f) => AtWork(j)
         /\ Alive(j, f) /\ meddled = FALSE =>
               /\ shelf[f].clean /\ shelf[f].len <= Chunks[f] /\ TransferStands(j, f)
               /\ OtherWriter(j, f) = FALSE
<1>1. jobs[j].tr[f] \in Transfer /\ shelf[f] \in Piece /\ Chunks[f] \in Nat
  BY JobIs, FilesAre DEF LoadInv, LoadTyped
<1>2. Alive(j, f) => AtWork(j)
  BY DEF AtWork
<1> QED BY <1>1, <1>2, NobodyElseWrites DEF LoadInv, Undisturbed, ShelfIsClean

(* Setting one transfer.                                                   *)
WithTransfer(j, f, t) == [jobs EXCEPT ![j].tr[f] = t]
LEMMA OneTransfer ==
  ASSUME LoadTyped, NEW j \in DOMAIN jobs, NEW f \in Files, NEW t \in Transfer
  PROVE  LET js == WithTransfer(j, f, t) IN
         /\ js \in Seq(Job) /\ DOMAIN js = DOMAIN jobs /\ Len(js) = Len(jobs)
         /\ \A k \in DOMAIN jobs \ {j} : js[k] = jobs[k]
         /\ js[j].tr[f] = t /\ \A g \in Files \ {f} : js[j].tr[g] = jobs[j].tr[g]
         /\ js[j].live = jobs[j].live /\ js[j].next = jobs[j].next /\ js[j].listed = jobs[j].listed
<1> DEFINE js == WithTransfer(j, f, t)
           q == [jobs[j] EXCEPT !.tr[f] = t]
<1>1. jobs[j] \in Job /\ jobs[j].tr \in [Files -> Transfer]
  BY JobIs
<1>2. q \in Job /\ q.tr = [jobs[j].tr EXCEPT ![f] = t] /\ q.live = jobs[j].live /\ q.next = jobs[j].next
      /\ q.listed = jobs[j].listed
  BY <1>1 DEF Job
<1>3. js = [jobs EXCEPT ![j] = q]
  BY DEF WithTransfer
<1> HIDE DEF q
<1>4. /\ js \in Seq(Job) /\ DOMAIN js = DOMAIN jobs /\ Len(js) = Len(jobs)
      /\ js[j] = q /\ \A k \in DOMAIN jobs \ {j} : js[k] = jobs[k]
  BY <1>2, <1>3, OneJob
<1> HIDE DEF js
<1>5. /\ js[j].tr[f] = t /\ \A g \in Files \ {f} : js[j].tr[g] = jobs[j].tr[g]
      /\ js[j].live = jobs[j].live /\ js[j].next = jobs[j].next /\ js[j].listed = jobs[j].listed
  BY <1>1, <1>2, <1>4
<1> QED BY <1>4, <1>5, Zenon DEF js

(* A step of the transfer of f by the job j.                               *)
LEMMA TransferMoves ==
  ASSUME LoadInv, NEW j \in DOMAIN jobs, NEW f \in Files, NEW t \in Transfer, NEW s \in Piece,
         Alive(j, f), To(j, f, t), shelf' = [shelf EXCEPT ![f] = s],
         UNCHANGED <<model, handle, status, meddled>>,
         t.at = "write" /\ t.lost = FALSE => s.there,
         shelf[f].there => s.there, s.there = FALSE => s = Absent,
         meddled = FALSE =>
            /\ s.clean /\ s.len <= Chunks[f]
            /\ t.at = "sent" => t.from = s.len /\ t.got = 0 /\ t.lost = FALSE
            /\ t.at = "write" => t.lost = FALSE /\ s.there /\ s.len = t.from + t.got
            /\ t.at = "ok" => s = [len |-> Chunks[f], there |-> TRUE, clean |-> TRUE]
            /\ jobs[j].tr[f].at # "write" /\ shelf[f].len = Chunks[f] => s = shelf[f] /\ t.at # "write"
  PROVE  LoadInv'
<1> USE DEF LoadInv
<1>0. Files' = Files /\ Count' = Count /\ Job' = Job
  BY DEF Files, Count, Job
<1>1. /\ jobs' \in Seq(Job) /\ DOMAIN jobs' = DOMAIN jobs /\ Len(jobs') = Len(jobs)
      /\ \A k \in DOMAIN jobs \ {j} : jobs'[k] = jobs[k]
      /\ jobs'[j].tr[f] = t /\ \A g \in Files \ {f} : jobs'[j].tr[g] = jobs[j].tr[g]
      /\ jobs'[j].live = jobs[j].live /\ jobs'[j].next = jobs[j].next
      /\ jobs'[j].listed = jobs[j].listed
  <2> DEFINE js == WithTransfer(j, f, t)
  <2>1. jobs' = js
    BY DEF To, WithTransfer
  <2>2. /\ js \in Seq(Job) /\ DOMAIN js = DOMAIN jobs /\ Len(js) = Len(jobs)
        /\ \A k \in DOMAIN jobs \ {j} : js[k] = jobs[k]
        /\ js[j].tr[f] = t /\ \A g \in Files \ {f} : js[j].tr[g] = jobs[j].tr[g]
        /\ js[j].live = jobs[j].live /\ js[j].next = jobs[j].next /\ js[j].listed = jobs[j].listed
    <3>1. LoadTyped
      OBVIOUS
    <3> HIDE DEF LoadInv
    <3> QED BY <3>1, OneTransfer
  <2> HIDE DEF js
  <2> QED BY <2>1, <2>2
<1>2. shelf' \in [Files -> Piece] /\ shelf'[f] = s /\ \A g \in Files \ {f} : shelf'[g] = shelf[g]
  BY DEF LoadTyped
<1>3. LoadTyped'
  <2>1. \A k \in DOMAIN jobs :
           jobs'[k].next \in 1..Count /\ (jobs'[k].listed = FALSE => jobs'[k].next = 1)
    BY <1>1 DEF LoadTyped
  <2> QED BY <1>0, <1>1, <1>2, <2>1 DEF LoadTyped
<1>4. OpenIsThere'
  <2> SUFFICES ASSUME NEW k \in DOMAIN jobs, NEW g \in Files, jobs'[k].tr[g].at = "write",
                      jobs'[k].tr[g].lost = FALSE
               PROVE  shelf'[g].there
    BY <1>0, <1>1 DEF OpenIsThere
  <2>1. CASE k = j /\ g = f
    BY <1>1, <1>2, <2>1
  <2>2. CASE ~(k = j /\ g = f)
    <3>1. jobs'[k].tr[g] = jobs[k].tr[g]
      BY <1>1, <2>2
    <3> QED BY <1>2, <3>1 DEF OpenIsThere
  <2> QED BY <2>1, <2>2
<1>5. NotThereIsAbsent'
  BY <1>0, <1>2 DEF NotThereIsAbsent
<1>6. ASSUME meddled = FALSE PROVE Undisturbed'
  <2>1. /\ j = Len(jobs) /\ status # "completed"
        /\ \A k \in DOMAIN jobs \ {j} : jobs[k].live = FALSE /\ \A g \in Files : ~Alive(k, g)
    BY <1>6, OthersRest DEF AtWork
  <2>2. Undisturbed
    BY <1>6
  <2>3. \A k \in DOMAIN jobs \ {j} : jobs'[k].live = FALSE /\ \A g \in Files : ~Alive(k, g)'
    BY <1>1, <2>1 DEF Alive, Moving
  <2>4. OneWorks'
    BY <1>0, <1>1, <2>1, <2>3 DEF OneWorks, AtWork
  <2>5. ShelfIsClean'
    BY <1>0, <1>2, <1>6, <2>2 DEF Undisturbed, ShelfIsClean
  <2>6. CompletedIsWhole'
    BY <2>1 DEF CompletedIsWhole
  <2>7. ASSUME NEW k \in DOMAIN jobs, NEW g \in Files PROVE TransferStands(k, g)'
    <3>1. CASE k # j
      BY <1>1, <2>3, <2>7, <3>1 DEF TransferStands
    <3>2. CASE k = j /\ g # f
      <4>1. TransferStands(j, g)
        BY <2>2 DEF Undisturbed
      <4>2. jobs'[j].tr[g] = jobs[j].tr[g] /\ shelf'[g] = shelf[g]
        BY <1>1, <1>2, <3>2
      <4>3. Alive(j, g)' => Alive(j, g)
        BY <1>1, <4>2 DEF Alive, Moving
      <4>4. IsWhole(g) => IsWhole(g)'
        BY <4>2 DEF IsWhole
      <4> QED BY <1>1, <3>2, <4>1, <4>2, <4>3, <4>4 DEF TransferStands
    <3>3. CASE k = j /\ g = f
      BY <1>1, <1>2, <1>6, <3>3 DEF TransferStands, IsWhole
    <3> QED BY <3>1, <3>2, <3>3
  <2>8. ASSUME NEW k \in DOMAIN jobs PROVE DoneInOrder(k)'
    <3>1. CASE k # j
      BY <1>1, <2>3, <2>8, <3>1 DEF DoneInOrder
    <3>2. CASE k = j
      <4>1. ASSUME NEW g \in Files, IsDone(j, g) PROVE IsDone(j, g)'
        <5>1. CASE g # f
          BY <1>1, <1>2, <4>1, <5>1 DEF IsDone, IsWhole
        <5>2. CASE g = f
          <6>1. jobs[j].tr[f].at # "write" /\ shelf[f].len = Chunks[f] /\ model # Folder
            BY <4>1, <5>2 DEF IsDone, IsWhole, Alive, Moving
          <6> QED BY <1>1, <1>2, <1>6, <4>1, <5>2, <6>1 DEF IsDone, IsWhole
        <5> QED BY <5>1, <5>2
      <4>2. ASSUME jobs[j].live, NEW i \in 1..(jobs[j].next - 1)
            PROVE  ModelFiles[model][i] \in Files /\ IsDone(j, ModelFiles[model][i])
        <5>1. i \in 1..Count
          BY JobIs, FilesAre
        <5> QED BY <2>2, <4>2, <5>1, FilesAre DEF Undisturbed, DoneInOrder
      <4> QED BY <1>1, <3>2, <4>1, <4>2 DEF DoneInOrder, IsDone
    <3> QED BY <3>1, <3>2
  <2> QED BY <1>0, <1>1, <2>4, <2>5, <2>6, <2>7, <2>8 DEF Undisturbed
<1>7. meddled \in BOOLEAN
  BY DEF LoadTyped
<1> QED BY <1>3, <1>4, <1>5, <1>6, <1>7

LEMMA ProbeStep ==
  ASSUME LoadInv, NEW j \in DOMAIN jobs, NEW f \in Files, Probe(j, f)
  PROVE  LoadInv'
<1> DEFINE from == shelf[f].len
           t == [Idle EXCEPT !.at = "sent", !.from = from]
<1>1. from \in Nat /\ shelf[f] \in Piece
  BY TransferIs DEF Piece
<1>2. Alive(j, f) /\ jobs[j].tr[f].at = "ask" /\ To(j, f, t)
      /\ UNCHANGED <<model, shelf, handle, status, meddled>>
  BY DEF Probe
<1> HIDE DEF from
<1>3. t \in Transfer /\ t.at = "sent" /\ t.from = from /\ t.got = 0 /\ t.lost = FALSE
  BY <1>1 DEF Transfer, Idle
<1>4. shelf' = [shelf EXCEPT ![f] = shelf[f]]
  BY <1>2 DEF LoadInv, LoadTyped
<1> HIDE DEF t
<1>5. shelf[f].there = FALSE => shelf[f] = Absent
  BY DEF LoadInv, NotThereIsAbsent
<1> QED BY <1>1, <1>2, <1>3, <1>4, <1>5, TransferIs, TransferMoves DEF from

LEMMA OpensStep ==
  ASSUME LoadInv, NEW j \in DOMAIN jobs, NEW f \in Files, Opens(j, f)
  PROVE  LoadInv'
<1> DEFINE old == jobs[j].tr[f]
           t == [old EXCEPT !.at = "write"]
           alone == ~OtherWriter(j, f)
           same == shelf[f].clean /\ shelf[f].len = old.from
           s == IF old.from = 0 THEN [len |-> 0, there |-> TRUE, clean |-> alone]
                ELSE [len |-> shelf[f].len, there |-> TRUE, clean |-> same]
<1>1. Alive(j, f) /\ old.at = "sent" /\ old.from < Chunks[f] /\ To(j, f, t)
      /\ UNCHANGED <<model, handle, status, meddled>>
  BY DEF Opens
<1>2. shelf' = [shelf EXCEPT ![f] = s]
  BY Zenon DEF Opens
<1>3. old \in Transfer /\ shelf[f] \in Piece /\ Chunks[f] \in Nat
  BY TransferIs
<1>4. meddled = FALSE => alone /\ shelf[f].clean /\ old.from = shelf[f].len /\ old.got = 0 /\ old.lost = FALSE
  BY <1>1, TransferIs DEF TransferStands
<1>5. t \in Transfer /\ t.at = "write" /\ t.from = old.from /\ t.got = old.got /\ t.lost = old.lost
  BY <1>3 DEF Transfer
<1>6. alone \in BOOLEAN /\ same \in BOOLEAN
  BY <1>3 DEF Piece
<1>7. meddled = FALSE => same
  BY <1>4
<1> HIDE DEF alone, same
<1>8. s \in Piece /\ s.there = TRUE /\ (s.len = IF old.from = 0 THEN 0 ELSE shelf[f].len)
      /\ (alone /\ same => s.clean)
  <2>1. CASE old.from = 0
    <3>1. s = [len |-> 0, there |-> TRUE, clean |-> alone]
      BY <2>1
    <3> HIDE DEF s
    <3> QED BY <1>6, <2>1, <3>1 DEF Piece
  <2>2. CASE old.from # 0
    <3>1. s = [len |-> shelf[f].len, there |-> TRUE, clean |-> same]
      BY <2>2
    <3> HIDE DEF s, old
    <3> QED BY <1>3, <1>6, <2>2, <3>1 DEF Piece
  <2> QED BY <2>1, <2>2
<1> HIDE DEF s, t
<1>9. meddled = FALSE => /\ s.clean /\ s.len <= Chunks[f] /\ t.lost = FALSE
                         /\ s.len = t.from + t.got /\ shelf[f].len # Chunks[f]
  <2>1. meddled = FALSE => shelf[f].len <= Chunks[f]
    BY <1>1, TransferIs
  <2> HIDE DEF old
  <2> QED BY <1>1, <1>3, <1>4, <1>5, <1>7, <1>8, <2>1 DEF Piece, Transfer
<1> QED BY <1>1, <1>2, <1>5, <1>8, <1>9, TransferMoves

LEMMA ChunkStep ==
  ASSUME LoadInv, NEW j \in DOMAIN jobs, NEW f \in Files, Chunk(j, f)
  PROVE  LoadInv'
<1> DEFINE old == jobs[j].tr[f]
           got == old.got + 1
           t == [old EXCEPT !.got = got]
           len == IF shelf[f].len < Chunks[f] THEN shelf[f].len + 1 ELSE shelf[f].len
           clean == shelf[f].clean /\ ~OtherWriter(j, f) /\ shelf[f].len < Chunks[f]
           longer == [len |-> len, there |-> shelf[f].there, clean |-> clean]
           s == IF old.lost THEN shelf[f] ELSE longer
<1>1. Alive(j, f) /\ old.at = "write" /\ old.from + old.got < Chunks[f] /\ To(j, f, t)
      /\ UNCHANGED <<model, handle, status, meddled>>
  BY DEF Chunk
<1>2. old \in Transfer /\ shelf[f] \in Piece /\ Chunks[f] \in Nat /\ shelf \in [Files -> Piece]
  BY TransferIs DEF LoadInv, LoadTyped
<1>3. shelf' = [shelf EXCEPT ![f] = s]
  <2>1. shelf' = IF old.lost THEN shelf ELSE [shelf EXCEPT ![f] = longer]
    BY Zenon DEF Chunk
  <2> HIDE DEF longer, old
  <2> QED BY <1>2, <2>1
<1>4. t \in Transfer /\ t.at = "write" /\ t.from = old.from /\ t.got = old.got + 1 /\ t.lost = old.lost
  <2>1. got \in Nat
    BY <1>2 DEF Transfer
  <2>2. t \in Transfer /\ t.at = "write" /\ t.from = old.from /\ t.got = got /\ t.lost = old.lost
    <3> HIDE DEF got
    <3> QED BY <1>1, <1>2, <2>1 DEF Transfer
  <2> QED BY <2>2
<1>5. len \in Nat /\ clean \in BOOLEAN
  BY <1>2 DEF Piece
<1>6. longer \in Piece /\ longer.len = len /\ longer.there = shelf[f].there /\ longer.clean = clean
  <2> HIDE DEF len, clean
  <2> QED BY <1>2, <1>5 DEF Piece
<1>7. old.lost = FALSE => shelf[f].there
  BY <1>1 DEF LoadInv, OpenIsThere
<1>8. shelf[f].there = FALSE => shelf[f] = Absent
  BY DEF LoadInv, NotThereIsAbsent
<1>9. meddled = FALSE => /\ old.lost = FALSE /\ shelf[f].there /\ shelf[f].len = old.from + old.got
                         /\ clean /\ len = shelf[f].len + 1 /\ len <= Chunks[f]
  <2>1. meddled = FALSE => /\ old.lost = FALSE /\ shelf[f].there /\ shelf[f].len = old.from + old.got
                           /\ shelf[f].clean /\ OtherWriter(j, f) = FALSE
    BY <1>1, TransferIs DEF TransferStands
  <2> QED BY <1>1, <1>2, <2>1 DEF Piece, Transfer
<1>10. s \in Piece /\ (shelf[f].there => s.there) /\ (t.lost = FALSE => s = longer)
       /\ (s.there = FALSE => s = Absent)
  <2> HIDE DEF longer, old
  <2> QED BY <1>2, <1>4, <1>6, <1>7, <1>8 DEF Transfer, Piece
<1>11. meddled = FALSE => s.clean /\ s.len <= Chunks[f] /\ t.lost = FALSE /\ s.there /\ s.len = t.from + t.got
  <2>1. meddled = FALSE => s = longer /\ t.lost = FALSE
    BY <1>4, <1>9, <1>10
  <2>2. meddled = FALSE => old.from + (old.got + 1) = (old.from + old.got) + 1
    <3> HIDE DEF old
    <3> QED BY <1>2 DEF Transfer
  <2> HIDE DEF s, longer, t, old, len, clean
  <2> QED BY <1>4, <1>6, <1>9, <2>1, <2>2
<1>12. t.at = "write" /\ t.lost = FALSE => s.there
  <2> HIDE DEF s, longer, t, old
  <2> QED BY <1>4, <1>6, <1>7, <1>10
<1> HIDE DEF s, t
<1> QED BY <1>1, <1>3, <1>4, <1>10, <1>11, <1>12, TransferMoves

(* The transfer is over, and the shelf stays as it is.                     *)
LEMMA TransferEnds ==
  ASSUME LoadInv, NEW j \in DOMAIN jobs, NEW f \in Files, Alive(j, f),
         NEW how \in {"ok", "bad"}, To(j, f, Result(j, how)),
         how = "ok" /\ meddled = FALSE => IsWhole(f),
         UNCHANGED <<model, shelf, handle, status, meddled>>
  PROVE  LoadInv'
<1> DEFINE t == Result(j, how)
<1>1. t \in Transfer /\ t.at \in {"idle", how}
  BY DEF Result, Idle, Transfer
<1>2. shelf' = [shelf EXCEPT ![f] = shelf[f]] /\ shelf[f] \in Piece
  BY TransferIs DEF LoadInv, LoadTyped
<1>3. shelf[f].there = FALSE => shelf[f] = Absent
  BY DEF LoadInv, NotThereIsAbsent
<1> HIDE DEF t
<1>4. To(j, f, t)
  BY DEF t
<1>5. meddled = FALSE => shelf[f].clean /\ shelf[f].len <= Chunks[f]
  BY TransferIs
<1> QED BY <1>1, <1>2, <1>3, <1>4, <1>5, TransferMoves DEF IsWhole

LEMMA BreaksStep ==
  ASSUME LoadInv, NEW j \in DOMAIN jobs, NEW f \in Files, Breaks(j, f)
  PROVE  LoadInv'
BY TransferEnds DEF Breaks

(* The jobs after the removal of files.                                    *)
LEMMA OrphanedIs ==
  ASSUME NEW js \in Seq(Job), NEW fs
  PROVE  /\ Orphaned(js, fs) \in Seq(Job) /\ Len(Orphaned(js, fs)) = Len(js)
         /\ DOMAIN Orphaned(js, fs) = DOMAIN js
         /\ \A k \in DOMAIN js :
               /\ Orphaned(js, fs)[k].live = js[k].live /\ Orphaned(js, fs)[k].next = js[k].next
               /\ Orphaned(js, fs)[k].listed = js[k].listed
               /\ \A f \in Files :
                     /\ Orphaned(js, fs)[k].tr[f].at = js[k].tr[f].at
                     /\ f \notin fs => Orphaned(js, fs)[k].tr[f] = js[k].tr[f]
                     /\ f \in fs /\ js[k].tr[f].at = "write" => Orphaned(js, fs)[k].tr[f].lost = TRUE
<1> DEFINE tr(k) == [f \in Files |-> IF f \in fs /\ js[k].tr[f].at = "write"
                                     THEN [js[k].tr[f] EXCEPT !.lost = TRUE] ELSE js[k].tr[f]]
           after(k) == [js[k] EXCEPT !.tr = tr(k)]
           n == Len(js)
<1>1. n \in Nat /\ DOMAIN js = 1..n /\ \A k \in 1..n : js[k] \in Job
  BY LenProperties
<1>2. \A k \in 1..n, f \in Files : js[k].tr[f] \in Transfer
  BY <1>1 DEF Job
<1>3. \A k \in 1..n : tr(k) \in [Files -> Transfer]
  BY <1>2 DEF Transfer
<1>4. \A k \in 1..n, f \in Files :
         /\ tr(k)[f].at = js[k].tr[f].at /\ (f \notin fs => tr(k)[f] = js[k].tr[f])
         /\ f \in fs /\ js[k].tr[f].at = "write" => tr(k)[f].lost = TRUE
  BY <1>2 DEF Transfer
<1> HIDE DEF tr
<1>5. \A k \in 1..n : after(k) \in Job /\ after(k).tr = tr(k) /\ after(k).live = js[k].live
                      /\ after(k).next = js[k].next /\ after(k).listed = js[k].listed
  BY <1>1, <1>3 DEF Job
<1>6. Orphaned(js, fs) = [k \in 1..n |-> after(k)]
  BY <1>1 DEF Orphaned, tr
<1> HIDE DEF after, n
<1>7. Orphaned(js, fs) \in [1..n -> Job]
  BY <1>5, <1>6
<1>8. Orphaned(js, fs) \in Seq(Job) /\ DOMAIN Orphaned(js, fs) = 1..n
  BY <1>1, <1>7, SeqDef
<1>9. Len(Orphaned(js, fs)) = n
  BY <1>1, <1>8, LenProperties
<1> QED BY <1>1, <1>4, <1>5, <1>6, <1>8, <1>9 DEF n

LEMMA StreamEndsStep ==
  ASSUME LoadInv, NEW j \in DOMAIN jobs, NEW f \in Files, StreamEnds(j, f)
  PROVE  LoadInv'
<1> USE DEF LoadInv
<1> DEFINE old == jobs[j].tr[f]
<1>1. Alive(j, f) /\ old.at = "write" /\ old.from + old.got = Chunks[f]
      /\ UNCHANGED <<model, handle, status, meddled>>
  BY DEF StreamEnds, Whole
<1>2. CASE To(j, f, Result(j, "ok")) /\ UNCHANGED shelf
  <2>1. meddled = FALSE => IsWhole(f)
    BY <1>1, TransferIs DEF TransferStands, IsWhole, Piece
  <2> QED BY <1>1, <1>2, <2>1, TransferEnds
<1>3. CASE /\ shelf' = [shelf EXCEPT ![f] = Absent]
           /\ jobs' = Orphaned([jobs EXCEPT ![j].tr[f] = Result(j, "bad")], {f})
  <2> DEFINE t == Result(j, "bad")
             js == WithTransfer(j, f, t)
  <2>0. Files' = Files /\ Count' = Count /\ Job' = Job
    BY <1>1 DEF Files, Count, Job
  <2>1. t \in Transfer /\ t.at \in {"idle", "bad"}
    BY DEF Result, Idle, Transfer
  <2>2. jobs' = Orphaned(js, {f})
    BY <1>3 DEF WithTransfer
  <2> HIDE DEF t
  <2>3. /\ js \in Seq(Job) /\ DOMAIN js = DOMAIN jobs /\ Len(js) = Len(jobs)
        /\ \A k \in DOMAIN jobs \ {j} : js[k] = jobs[k]
        /\ js[j].tr[f] = t /\ \A g \in Files \ {f} : js[j].tr[g] = jobs[j].tr[g]
        /\ js[j].live = jobs[j].live /\ js[j].next = jobs[j].next /\ js[j].listed = jobs[j].listed
    <3>1. LoadTyped
      OBVIOUS
    <3> HIDE DEF LoadInv
    <3> QED BY <2>1, <3>1, OneTransfer
  <2> HIDE DEF js
  <2>4. /\ jobs' \in Seq(Job) /\ DOMAIN jobs' = DOMAIN jobs /\ Len(jobs') = Len(jobs)
        /\ \A k \in DOMAIN jobs :
              /\ jobs'[k].live = jobs[k].live /\ jobs'[k].next = jobs[k].next
              /\ jobs'[k].listed = jobs[k].listed
              /\ \A g \in Files \ {f} : jobs'[k].tr[g] = jobs[k].tr[g]
              /\ jobs'[k].tr[f].at = "write" => jobs'[k].tr[f].lost = TRUE
        /\ jobs'[j].tr[f].at \in {"idle", "bad"}
        /\ \A k \in DOMAIN jobs \ {j} : jobs'[k].tr[f].at = jobs[k].tr[f].at
    <3> DEFINE o == Orphaned(js, {f})
    <3>1. /\ o \in Seq(Job) /\ Len(o) = Len(js) /\ DOMAIN o = DOMAIN js
          /\ \A k \in DOMAIN js :
                /\ o[k].live = js[k].live /\ o[k].next = js[k].next /\ o[k].listed = js[k].listed
                /\ \A g \in Files :
                      /\ o[k].tr[g].at = js[k].tr[g].at
                      /\ g # f => o[k].tr[g] = js[k].tr[g]
                      /\ g = f /\ js[k].tr[g].at = "write" => o[k].tr[g].lost = TRUE
      <4>1. /\ o \in Seq(Job) /\ Len(o) = Len(js) /\ DOMAIN o = DOMAIN js
            /\ \A k \in DOMAIN js :
                  /\ o[k].live = js[k].live /\ o[k].next = js[k].next
                  /\ o[k].listed = js[k].listed
                  /\ \A g \in Files :
                        /\ o[k].tr[g].at = js[k].tr[g].at
                        /\ g \notin {f} => o[k].tr[g] = js[k].tr[g]
                        /\ g \in {f} /\ js[k].tr[g].at = "write" => o[k].tr[g].lost = TRUE
        <5> HIDE DEF LoadInv
        <5> QED BY <2>3, OrphanedIs
      <4> HIDE DEF o
      <4> QED BY <4>1
    <3> HIDE DEF o
    <3>2. jobs' = o
      BY <2>2 DEF o
    <3>3. o[j].tr[f].at \in {"idle", "bad"}
      BY <2>1, <2>3, <3>1
    <3>4. \A k \in DOMAIN jobs : /\ o[k].live = jobs[k].live /\ o[k].next = jobs[k].next
                                 /\ o[k].listed = jobs[k].listed
      BY <2>3, <3>1
    <3>5. \A k \in DOMAIN jobs : /\ \A g \in Files \ {f} : o[k].tr[g] = jobs[k].tr[g]
                                 /\ o[k].tr[f].at = "write" => o[k].tr[f].lost = TRUE
      BY <2>3, <3>1
    <3>6. \A k \in DOMAIN jobs \ {j} : o[k].tr[f].at = jobs[k].tr[f].at
      BY <2>3, <3>1
    <3> QED BY <2>3, <3>1, <3>2, <3>3, <3>4, <3>5, <3>6
  <2>5. shelf' \in [Files -> Piece] /\ shelf'[f] = Absent /\ \A g \in Files \ {f} : shelf'[g] = shelf[g]
    BY <1>3 DEF LoadTyped, Absent, Piece
  <2>6. LoadTyped'
    <3>1. \A k \in DOMAIN jobs :
             jobs'[k].next \in 1..Count /\ (jobs'[k].listed = FALSE => jobs'[k].next = 1)
      BY <2>4 DEF LoadTyped
    <3> QED BY <1>1, <2>0, <2>4, <2>5, <3>1 DEF LoadTyped
  <2>7. OpenIsThere'
    <3> SUFFICES ASSUME NEW k \in DOMAIN jobs, NEW g \in Files, jobs'[k].tr[g].at = "write",
                        jobs'[k].tr[g].lost = FALSE
                 PROVE  shelf'[g].there
      BY <2>0, <2>4 DEF OpenIsThere
    <3>1. g # f
      BY <2>4
    <3> QED BY <2>4, <2>5, <3>1 DEF OpenIsThere
  <2>8. NotThereIsAbsent'
    BY <2>0, <2>5 DEF NotThereIsAbsent, Absent
  <2>9. ASSUME meddled = FALSE PROVE Undisturbed'
    <3>1. /\ j = Len(jobs) /\ status # "completed"
          /\ \A k \in DOMAIN jobs \ {j} : jobs[k].live = FALSE /\ \A g \in Files : ~Alive(k, g)
      BY <1>1, <2>9, OthersRest DEF AtWork
    <3>2. Undisturbed
      BY <2>9
    <3>3. \A k \in DOMAIN jobs \ {j} : jobs'[k].live = FALSE /\ \A g \in Files : ~Alive(k, g)'
      <4> SUFFICES ASSUME NEW k \in DOMAIN jobs \ {j}, NEW g \in Files
                   PROVE  jobs'[k].live = FALSE /\ ~Alive(k, g)'
        OBVIOUS
      <4>1. jobs'[k].live = jobs[k].live /\ jobs'[k].tr[g].at = jobs[k].tr[g].at
        BY <2>4
      <4> QED BY <1>1, <3>1, <4>1 DEF Alive, Moving
    <3>4. OneWorks'
      BY <2>0, <2>4, <3>1, <3>3 DEF OneWorks, AtWork
    <3>5. ShelfIsClean'
      BY <2>0, <2>5, <3>2, FilesAre DEF Undisturbed, ShelfIsClean, Absent
    <3>6. CompletedIsWhole'
      BY <1>1, <3>1 DEF CompletedIsWhole
    <3>7. ASSUME NEW k \in DOMAIN jobs, NEW g \in Files PROVE TransferStands(k, g)'
      <4>1. CASE k # j
        BY <2>4, <3>3, <3>7, <4>1 DEF TransferStands
      <4>2. CASE k = j /\ g # f
        <5>1. TransferStands(j, g)
          BY <3>2 DEF Undisturbed
        <5>2. jobs'[j].tr[g] = jobs[j].tr[g] /\ shelf'[g] = shelf[g] /\ jobs'[j].live = jobs[j].live
          BY <2>4, <2>5, <4>2
        <5>3. Alive(j, g)' => Alive(j, g)
          BY <1>1, <5>2 DEF Alive, Moving
        <5>4. IsWhole(g) => IsWhole(g)'
          BY <5>2 DEF IsWhole
        <5> QED BY <4>2, <5>1, <5>2, <5>3, <5>4 DEF TransferStands
      <4>3. CASE k = j /\ g = f
        BY <2>4, <4>3 DEF TransferStands
      <4> QED BY <4>1, <4>2, <4>3
    <3>8. ASSUME NEW k \in DOMAIN jobs PROVE DoneInOrder(k)'
      <4>1. CASE k # j
        BY <2>4, <3>3, <3>8, <4>1 DEF DoneInOrder
      <4>2. CASE k = j
        <5>1. ASSUME NEW g \in Files, IsDone(j, g) PROVE IsDone(j, g)'
          <6>1. g # f
            BY <1>1, <5>1 DEF IsDone
          <6> QED BY <1>1, <2>4, <2>5, <5>1, <6>1 DEF IsDone, IsWhole
        <5>2. ASSUME jobs[j].live, NEW i \in 1..(jobs[j].next - 1)
              PROVE  ModelFiles[model][i] \in Files /\ IsDone(j, ModelFiles[model][i])
          <6>1. i \in 1..Count
            BY JobIs, FilesAre
          <6> QED BY <3>2, <5>2, <6>1, FilesAre DEF Undisturbed, DoneInOrder
        <5> QED BY <1>1, <2>4, <4>2, <5>1, <5>2 DEF DoneInOrder
      <4> QED BY <4>1, <4>2
    <3> QED BY <2>0, <2>4, <3>4, <3>5, <3>6, <3>7, <3>8 DEF Undisturbed
  <2>10. meddled \in BOOLEAN
    BY DEF LoadTyped
  <2> QED BY <1>1, <2>6, <2>7, <2>8, <2>9, <2>10
<1> QED BY <1>2, <1>3 DEF StreamEnds

(* A job that is over.                                                     *)
LEMMA OverIs ==
  ASSUME LoadTyped, NEW j \in DOMAIN jobs
  PROVE  /\ Over(jobs[j]) \in Job /\ Over(jobs[j]).live = FALSE
         /\ Over(jobs[j]).next = jobs[j].next /\ Over(jobs[j]).listed = jobs[j].listed
         /\ \A f \in Files :
               /\ Over(jobs[j]).tr[f] = jobs[j].tr[f] \/ Over(jobs[j]).tr[f].at = "idle"
               /\ model # Folder \/ jobs[j].tr[f].at = "ok" => Over(jobs[j]).tr[f].at = "idle"
<1> DEFINE tr == [f \in Files |-> IF jobs[j].tr[f].at \in {"ok", "bad"} \/ model # Folder
                                  THEN Idle ELSE jobs[j].tr[f]]
<1>1. jobs[j] \in Job /\ jobs[j].tr \in [Files -> Transfer]
  BY JobIs
<1>2. Idle \in Transfer /\ Idle.at = "idle"
  BY DEF Idle, Transfer
<1>3. tr \in [Files -> Transfer]
  <2> HIDE DEF Idle
  <2> QED BY <1>1, <1>2
<1>4. \A f \in Files : /\ tr[f] = jobs[j].tr[f] \/ tr[f].at = "idle"
                       /\ model # Folder \/ jobs[j].tr[f].at = "ok" => tr[f].at = "idle"
  BY <1>2
<1>5. Over(jobs[j]) = [jobs[j] EXCEPT !.live = FALSE, !.tr = tr]
  BY DEF Over
<1> HIDE DEF tr
<1> QED BY <1>1, <1>3, <1>4, <1>5 DEF Job

LEMMA JobFinishes ==
  ASSUME LoadInv, NEW j \in DOMAIN jobs, jobs[j].live, NEW how \in {"completed", "failed"},
         Finish(j, how),
         how = "completed" /\ meddled = FALSE =>
            \A f \in Files : IsWhole(f) /\ (model = Folder => jobs[j].tr[f].at = "ok")
  PROVE  LoadInv'
<1> DEFINE q == Over(jobs[j])
<1>1. q.next \in 1..Count /\ (q.listed = FALSE => q.next = 1) /\ handle \in Nat
  <2>1. LoadTyped
    BY DEF LoadInv
  <2>2. q.next = jobs[j].next /\ q.listed = jobs[j].listed
    BY <2>1, OverIs
  <2> HIDE DEF q
  <2> QED BY <2>1, <2>2 DEF LoadTyped
<1>2. q \in Job /\ q.live = FALSE
  BY OverIs DEF LoadInv
<1>3. \A f \in Files : /\ q.tr[f] = jobs[j].tr[f] \/ q.tr[f].at = "idle"
                       /\ model # Folder \/ jobs[j].tr[f].at = "ok" => q.tr[f].at = "idle"
  BY OverIs DEF LoadInv
<1>4. jobs' = [jobs EXCEPT ![j] = q] /\ status' = how /\ UNCHANGED <<model, shelf, handle, meddled>>
  BY DEF Finish
<1> HIDE DEF q
<1> QED BY <1>1, <1>2, <1>3, <1>4, JobMoves

LEMMA ListFolderStep ==
  ASSUME LoadInv, NEW j \in DOMAIN jobs, ListFolder(j)
  PROVE  LoadInv'
<1>1. jobs[j].live /\ jobs[j].listed = FALSE
  BY JobIs DEF LoadInv, ListFolder, Job
<1>2. CASE Finish(j, "failed")
  BY <1>1, <1>2, JobFinishes
<1>3. CASE /\ jobs' = [jobs EXCEPT ![j].listed = TRUE,
                                   ![j].tr = [f \in Files |-> [Idle EXCEPT !.at = "ask"]]]
           /\ UNCHANGED <<model, shelf, handle, status, meddled>>
  <2> DEFINE tr == [f \in Files |-> [Idle EXCEPT !.at = "ask"]]
             q == [jobs[j] EXCEPT !.listed = TRUE, !.tr = tr]
  <2>1. tr \in [Files -> Transfer] /\ \A f \in Files : tr[f].at = "ask"
    BY DEF Idle, Transfer
  <2>2. jobs' = [jobs EXCEPT ![j] = q]
    BY <1>3
  <2>3. jobs[j] \in Job /\ jobs[j].next = 1 /\ handle \in Nat
        /\ status \in {"idle", "downloading", "completed", "failed"} /\ Count \in Nat \ {0}
    BY <1>1, JobIs, FilesAre DEF LoadInv, LoadTyped
  <2> HIDE DEF tr
  <2>4. q \in Job /\ q.next = 1 /\ q.listed = TRUE /\ q.tr = tr
    BY <2>1, <2>3 DEF Job
  <2>6. q.next \in 1..Count /\ 1..(q.next - 1) = {}
    BY <2>3, <2>4
  <2>5. meddled = FALSE => status # "completed"
    BY <1>1, OthersRest DEF AtWork
  <2>7. \A f \in Files : q.tr[f].at \in {"idle", "ask"}
    BY <2>1, <2>4
  <2> HIDE DEF q
  <2>8. UNCHANGED <<model, shelf, meddled>> /\ handle' \in Nat /\ status' = status
    BY <1>3, <2>3
  <2>9. meddled = FALSE /\ status' = "completed" =>
           \A f \in Files : IsWhole(f) /\ (model = Folder => q.tr[f].at = "idle")
    BY <2>5, <2>8
  <2>10. meddled = FALSE /\ q.live =>
            /\ status' # "completed"
            /\ \A i \in 1..(q.next - 1) : LET f == ModelFiles[model][i] IN
                  /\ IsWhole(f) /\ q.tr[f].at # "write" /\ (model = Folder => q.tr[f].at = "ok")
    BY <2>5, <2>6, <2>8
  <2> QED BY <1>1, <2>2, <2>3, <2>4, <2>6, <2>7, <2>8, <2>9, <2>10, JobMoves
<1> QED BY <1>2, <1>3 DEF ListFolder

(* A job that reached a file which is complete, has completed those before.*)
LEMMA DoneSoFar ==
  ASSUME LoadInv, meddled = FALSE, NEW j \in DOMAIN jobs, jobs[j].live, jobs[j].tr[AtFile(j)].at = "ok"
  PROVE  /\ status # "completed"
         /\ \A i \in 1..jobs[j].next : IsDone(j, ModelFiles[model][i])
<1>1. Undisturbed
  BY DEF LoadInv
<1>2. jobs[j].next \in 1..Count /\ Count \in Nat
  BY JobIs, FilesAre DEF LoadInv
<1>3. \A i \in 1..(jobs[j].next - 1) : IsDone(j, ModelFiles[model][i])
  BY <1>1 DEF Undisturbed, DoneInOrder
<1>4. IsDone(j, AtFile(j))
  <2>1. AtFile(j) \in Files
    BY <1>2, FilesAre DEF AtFile, LoadInv
  <2>2. TransferStands(j, AtFile(j))
    BY <1>1, <2>1 DEF Undisturbed
  <2> QED BY <2>2 DEF TransferStands, IsDone
<1>5. \A i \in 1..jobs[j].next : i \in 1..(jobs[j].next - 1) \/ i = jobs[j].next
  BY <1>2
<1>6. status # "completed"
  BY OthersRest DEF AtWork
<1> QED BY <1>3, <1>4, <1>5, <1>6 DEF AtFile

LEMMA GoesOnStep ==
  ASSUME LoadInv, NEW j \in DOMAIN jobs, GoesOn(j)
  PROVE  LoadInv'
<1>1. jobs[j].live /\ jobs[j].tr[AtFile(j)].at = "ok" /\ jobs[j].listed
  BY DEF GoesOn
<1>2. jobs[j] \in Job /\ jobs[j].next \in 1..Count /\ Count \in Nat \ {0} /\ handle \in Nat
      /\ status \in {"idle", "downloading", "completed", "failed"} /\ jobs[j].tr \in [Files -> Transfer]
      /\ jobs[j].listed = TRUE
  BY <1>1, JobIs, FilesAre DEF LoadInv, LoadTyped, Job
<1>3. meddled = FALSE => status # "completed" /\ \A i \in 1..jobs[j].next : IsDone(j, ModelFiles[model][i])
  BY <1>1, DoneSoFar
<1>4. CASE jobs[j].next = Count
  <2>1. meddled = FALSE => \A f \in Files : IsDone(j, f)
    BY <1>3, <1>4, FilesAre DEF LoadInv
  <2>2. Finish(j, "completed")
    BY <1>4 DEF GoesOn, Count
  <2> QED BY <1>1, <2>1, <2>2, JobFinishes DEF IsDone
<1>5. CASE jobs[j].next # Count
  <2> DEFINE f == ModelFiles[model][jobs[j].next + 1]
             t == IF model = Folder THEN jobs[j].tr[f] ELSE [Idle EXCEPT !.at = "ask"]
             next == jobs[j].next + 1
             tr == [jobs[j].tr EXCEPT ![f] = t]
             q == [jobs[j] EXCEPT !.next = next, !.tr = tr]
  <2>1. next \in 1..Count /\ next - 1 = jobs[j].next /\ f \in Files
    BY <1>2, <1>5, FilesAre DEF LoadInv
  <2>2. t \in Transfer /\ (model = Folder => t = jobs[j].tr[f]) /\ (model # Folder => t.at = "ask")
    <3>1. [Idle EXCEPT !.at = "ask"] \in Transfer /\ [Idle EXCEPT !.at = "ask"].at = "ask"
      BY DEF Idle, Transfer
    <3>2. jobs[j].tr[f] \in Transfer
      BY <1>2, <2>1
    <3> HIDE DEF f
    <3> QED BY <3>1, <3>2
  <2>3. jobs' = [jobs EXCEPT ![j] = q] /\ UNCHANGED <<model, shelf, handle, status, meddled>>
    <3>1. /\ jobs' = [jobs EXCEPT ![j].next = next, ![j].tr[f] = t]
          /\ UNCHANGED <<model, shelf, handle, status, meddled>>
      BY <1>5, Zenon DEF GoesOn, Count
    <3> HIDE DEF t, f, next
    <3> QED BY <1>2, <3>1
  <2> HIDE DEF t
  <2>4. tr \in [Files -> Transfer] /\ tr[f] = t /\ \A g \in Files \ {f} : tr[g] = jobs[j].tr[g]
    BY <1>2, <2>1, <2>2
  <2>4a. next \in Nat
    BY <1>2
  <2> HIDE DEF tr, next, f
  <2>5. q \in Job /\ q.next = next /\ q.tr = tr /\ q.listed = TRUE
    BY <1>2, <2>4, <2>4a DEF Job
  <2> HIDE DEF q
  <2>6. \A g \in Files : q.tr[g] = jobs[j].tr[g] \/ (model # Folder /\ q.tr[g].at = "ask")
    BY <2>1, <2>2, <2>4, <2>5
  <2>7. meddled = FALSE => \A i \in 1..(q.next - 1) : LET g == ModelFiles[model][i] IN
           IsWhole(g) /\ q.tr[g].at # "write" /\ (model = Folder => q.tr[g].at = "ok")
    <3> SUFFICES ASSUME meddled = FALSE, NEW i \in 1..jobs[j].next
                 PROVE  LET g == ModelFiles[model][i] IN
                        IsWhole(g) /\ q.tr[g].at # "write" /\ (model = Folder => q.tr[g].at = "ok")
      BY <2>1, <2>5
    <3>1. ModelFiles[model][i] \in Files /\ IsDone(j, ModelFiles[model][i])
      <4>1. i \in 1..Count
        BY <1>2
      <4> QED BY <1>3, <4>1, FilesAre DEF LoadInv
    <3> QED BY <2>6, <3>1 DEF IsDone
  <2> QED BY <1>1, <1>2, <1>3, <2>1, <2>3, <2>5, <2>6, <2>7, JobMoves
<1> QED BY <1>4, <1>5

LEMMA ReportsStep ==
  ASSUME LoadInv, NEW j \in DOMAIN jobs, Reports(j)
  PROVE  LoadInv'
BY JobFinishes DEF Reports

LEMMA AbortEndsStep ==
  ASSUME LoadInv, NEW j \in DOMAIN jobs, AbortEnds(j)
  PROVE  LoadInv'
<1> DEFINE q == Over(jobs[j])
<1>1. q.next \in 1..Count /\ (q.listed = FALSE => q.next = 1) /\ handle \in Nat
      /\ status \in {"idle", "downloading", "completed", "failed"}
  <2>1. LoadTyped
    BY DEF LoadInv
  <2>2. q.next = jobs[j].next /\ q.listed = jobs[j].listed
    BY <2>1, OverIs
  <2> HIDE DEF q
  <2> QED BY <2>1, <2>2 DEF LoadTyped
<1>2. q \in Job /\ q.live = FALSE
  BY OverIs DEF LoadInv
<1>3. \A f \in Files : q.tr[f] = jobs[j].tr[f] \/ q.tr[f].at = "idle"
  BY OverIs DEF LoadInv
<1>4. jobs' = [jobs EXCEPT ![j] = q] /\ jobs[j].live /\ UNCHANGED <<model, shelf, handle, status, meddled>>
  BY DEF AbortEnds
<1>5. meddled = FALSE => status # "completed"
  BY <1>4, OthersRest DEF AtWork
<1> HIDE DEF q
<1> QED BY <1>1, <1>2, <1>3, <1>4, <1>5, JobMoves

(* After a step on all jobs: who writes a file that is there, and, unless  *)
(* somebody meddled, nobody is at work on a clean shelf.                   *)
LEMMA AllStop ==
  ASSUME LoadInv, model' = model, shelf' \in [Files -> Piece], jobs' \in Seq(Job),
         DOMAIN jobs' = DOMAIN jobs, Len(jobs') = Len(jobs),
         handle' \in Nat, meddled' \in BOOLEAN, status' = "idle",
         \A j \in DOMAIN jobs : jobs'[j].next = jobs[j].next /\ jobs'[j].listed = jobs[j].listed,
         \A j \in DOMAIN jobs, f \in Files : jobs'[j].tr[f].at = "write" => jobs'[j].tr[f].lost = TRUE,
         \A f \in Files : shelf'[f].there = FALSE => shelf'[f] = Absent,
         meddled' = FALSE =>
            /\ \A f \in Files : shelf'[f].clean /\ shelf'[f].len <= Chunks[f]
            /\ \A j \in DOMAIN jobs : jobs'[j].live = FALSE /\ \A f \in Files : ~Alive(j, f)'
  PROVE  LoadInv'
<1>0. Files' = Files /\ Count' = Count /\ Job' = Job
  BY DEF Files, Count, Job
<1>1. LoadTyped'
  <2>1. \A k \in DOMAIN jobs :
           jobs'[k].next \in 1..Count /\ (jobs'[k].listed = FALSE => jobs'[k].next = 1)
    BY DEF LoadInv, LoadTyped
  <2>2. LoadTyped
    BY DEF LoadInv
  <2> QED BY <1>0, <2>1, <2>2 DEF LoadTyped
<1>2. OpenIsThere'
  BY <1>0 DEF OpenIsThere
<1>3. NotThereIsAbsent'
  BY <1>0 DEF NotThereIsAbsent
<1>4. ASSUME meddled' = FALSE PROVE Undisturbed'
  <2>1. \A j \in DOMAIN jobs : jobs'[j].live = FALSE /\ \A f \in Files : ~Alive(j, f)'
    BY <1>4
  <2>2. OneWorks'
    BY <1>0, <2>1 DEF OneWorks, AtWork
  <2>3. ShelfIsClean'
    BY <1>0, <1>4 DEF ShelfIsClean
  <2>4. CompletedIsWhole'
    BY DEF CompletedIsWhole
  <2>5. ASSUME NEW j \in DOMAIN jobs, NEW f \in Files PROVE TransferStands(j, f)'
    BY <2>1, <2>5 DEF TransferStands
  <2>6. ASSUME NEW j \in DOMAIN jobs PROVE DoneInOrder(j)'
    BY <2>1, <2>6 DEF DoneInOrder
  <2> QED BY <1>0, <2>2, <2>3, <2>4, <2>5, <2>6 DEF Undisturbed
<1> QED BY <1>1, <1>2, <1>3, <1>4 DEF LoadInv

LEMMA CancelStep ==
  ASSUME LoadInv, Cancel
  PROVE  LoadInv'
<1> DEFINE o == Orphaned(jobs, Files)
<1>1. jobs \in Seq(Job) /\ meddled \in BOOLEAN
  BY DEF LoadInv, LoadTyped
<1>2. /\ o \in Seq(Job) /\ Len(o) = Len(jobs) /\ DOMAIN o = DOMAIN jobs
      /\ \A k \in DOMAIN jobs :
            /\ o[k].live = jobs[k].live /\ o[k].next = jobs[k].next /\ o[k].listed = jobs[k].listed
            /\ \A f \in Files : /\ o[k].tr[f].at = jobs[k].tr[f].at
                                /\ jobs[k].tr[f].at = "write" => o[k].tr[f].lost = TRUE
  <2>1. /\ o \in Seq(Job) /\ Len(o) = Len(jobs) /\ DOMAIN o = DOMAIN jobs
        /\ \A k \in DOMAIN jobs :
              /\ o[k].live = jobs[k].live /\ o[k].next = jobs[k].next
              /\ o[k].listed = jobs[k].listed
              /\ \A f \in Files :
                    /\ o[k].tr[f].at = jobs[k].tr[f].at
                    /\ f \notin Files => o[k].tr[f] = jobs[k].tr[f]
                    /\ f \in Files /\ jobs[k].tr[f].at = "write" => o[k].tr[f].lost = TRUE
    <3> HIDE DEF LoadInv
    <3> QED BY <1>1, OrphanedIs
  <2> HIDE DEF o
  <2> QED BY <2>1
<1> HIDE DEF o
<1>3. /\ jobs' = o /\ shelf' = [f \in Files |-> Absent] /\ handle' = 0 /\ status' = "idle"
      /\ meddled' = (meddled \/ SomethingAlive) /\ model' = model
  BY DEF Cancel, o
<1>4. shelf' \in [Files -> Piece] /\ \A f \in Files : shelf'[f] = Absent
  BY <1>3 DEF Absent, Piece
<1>5. \A f \in Files : Absent.clean /\ Absent.len <= Chunks[f]
  BY FilesAre DEF LoadInv, Absent
<1>6. meddled' \in BOOLEAN /\ (meddled' = FALSE => ~SomethingAlive)
  BY <1>1, <1>3 DEF SomethingAlive
<1>7. \A j \in DOMAIN jobs : jobs[j].live \in BOOLEAN
  BY JobIs DEF LoadInv
<1>8. meddled' = FALSE =>
         \A j \in DOMAIN jobs : jobs'[j].live = FALSE /\ \A f \in Files : ~Alive(j, f)'
  BY <1>2, <1>3, <1>6, <1>7 DEF SomethingAlive, Alive, Moving
<1> QED BY <1>2, <1>3, <1>4, <1>5, <1>6, <1>8, AllStop

LEMMA AppClosesStep ==
  ASSUME LoadInv, AppCloses
  PROVE  LoadInv'
<1> DEFINE still == [f \in Files |-> Idle]
           stopped(k) == [jobs[k] EXCEPT !.live = FALSE, !.tr = still]
           n == Len(jobs)
<1>1. jobs \in Seq(Job) /\ meddled \in BOOLEAN /\ shelf \in [Files -> Piece]
  BY DEF LoadInv, LoadTyped
<1>2. n \in Nat /\ DOMAIN jobs = 1..n /\ \A k \in 1..n : jobs[k] \in Job
  BY <1>1, LenProperties
<1>3. still \in [Files -> Transfer] /\ \A f \in Files : still[f].at = "idle"
  BY DEF Idle, Transfer
<1> HIDE DEF still
<1>4. \A k \in 1..n : /\ stopped(k) \in Job /\ stopped(k).live = FALSE /\ stopped(k).tr = still
                      /\ stopped(k).next = jobs[k].next /\ stopped(k).listed = jobs[k].listed
  BY <1>2, <1>3 DEF Job
<1>5. /\ jobs' = [k \in 1..n |-> stopped(k)]
      /\ handle' = 0 /\ status' = "idle" /\ UNCHANGED <<model, shelf, meddled>>
  BY <1>2 DEF AppCloses, still
<1> HIDE DEF stopped, n
<1>6. jobs' \in [1..n -> Job]
  BY <1>4, <1>5
<1>7. jobs' \in Seq(Job) /\ DOMAIN jobs' = 1..n /\ Len(jobs') = n
  BY <1>2, <1>6, SeqDef, LenProperties
<1>8. \A j \in 1..n : /\ jobs'[j].live = FALSE /\ jobs'[j].tr = still
                      /\ jobs'[j].next = jobs[j].next /\ jobs'[j].listed = jobs[j].listed
  BY <1>4, <1>5
<1>9. \A j \in 1..n, f \in Files : jobs'[j].tr[f].at = "idle" /\ ~Alive(j, f)'
  BY <1>3, <1>8 DEF Alive, Moving
<1>10. \A f \in Files : shelf[f].there = FALSE => shelf[f] = Absent
  BY DEF LoadInv, NotThereIsAbsent
<1>11. meddled = FALSE => \A f \in Files : shelf[f].clean /\ shelf[f].len <= Chunks[f]
  BY DEF LoadInv, Undisturbed, ShelfIsClean
<1>12. Len(jobs') = Len(jobs) /\ DOMAIN jobs' = DOMAIN jobs
  BY <1>2, <1>7 DEF n
<1> QED BY <1>1, <1>2, <1>5, <1>7, <1>8, <1>9, <1>10, <1>11, <1>12, AllStop

LEMMA StartStep ==
  ASSUME LoadInv, Start
  PROVE  LoadInv'
<1> USE DEF LoadInv
<1> DEFINE listed == (model # Folder)
           tr == [f \in Files |-> IF model # Folder /\ f = ModelFiles[model][1]
                                  THEN [Idle EXCEPT !.at = "ask"] ELSE Idle]
           new == [live |-> TRUE, listed |-> listed, next |-> 1, tr |-> tr]
           n == Len(jobs)
<1>0. UNCHANGED <<model, shelf>> /\ Files' = Files /\ Count' = Count /\ Job' = Job
  BY DEF Start, Files, Count, Job
<1>1. jobs \in Seq(Job) /\ meddled \in BOOLEAN /\ LoadTyped
  BY DEF LoadTyped
<1>2. tr \in [Files -> Transfer] /\ \A f \in Files : tr[f].at \in {"idle", "ask"}
  BY DEF Idle, Transfer
<1>3. listed \in BOOLEAN
  OBVIOUS
<1>4. jobs' = Append(jobs, new) /\ handle' = n + 1 /\ status' = "downloading"
      /\ meddled' = IF SomethingAlive THEN TRUE ELSE meddled /\ \E f \in Files : shelf[f].there
  BY DEF Start
<1> HIDE DEF tr, listed
<1>5. new \in Job /\ new.live = TRUE /\ new.next = 1 /\ new.tr = tr
  BY <1>2, <1>3 DEF Job
<1> HIDE DEF new
<1>6. /\ n \in Nat /\ DOMAIN jobs = 1..n /\ jobs' \in Seq(Job) /\ Len(jobs') = n + 1
      /\ DOMAIN jobs' = 1..(n + 1) /\ jobs'[n + 1] = new /\ \A k \in 1..n : jobs'[k] = jobs[k]
  BY <1>1, <1>4, <1>5, AppendProperties, LenProperties
<1>7. \A k \in 1..(n + 1) : k \in 1..n \/ k = n + 1
  BY <1>6
<1> HIDE DEF n
<1>8a. meddled' \in BOOLEAN
  BY <1>1, <1>4
<1>8. LoadTyped'
  <2>1. \A k \in 1..(n + 1) :
           jobs'[k].next \in 1..Count /\ (jobs'[k].listed = FALSE => jobs'[k].next = 1)
    <3>1. 1 \in 1..Count
      BY <1>1, FilesAre
    <3> QED BY <1>1, <1>5, <1>6, <1>7, <3>1 DEF LoadTyped
  <2>2. handle' \in Nat /\ status' \in {"idle", "downloading", "completed", "failed"}
    BY <1>4, <1>6
  <2>3. shelf' \in [Files -> Piece] /\ model' \in DOMAIN ModelFiles
    BY <1>0, <1>1 DEF LoadTyped
  <2> QED BY <1>0, <1>6, <1>8a, <2>1, <2>2, <2>3 DEF LoadTyped
<1>9. OpenIsThere'
  <2> SUFFICES ASSUME NEW k \in 1..(n + 1), NEW f \in Files, jobs'[k].tr[f].at = "write",
                      jobs'[k].tr[f].lost = FALSE
               PROVE  shelf[f].there
    BY <1>0, <1>6 DEF OpenIsThere
  <2>1. k \in 1..n
    BY <1>2, <1>5, <1>6, <1>7
  <2> QED BY <1>6, <2>1 DEF OpenIsThere
<1>10. NotThereIsAbsent'
  BY <1>0 DEF NotThereIsAbsent
<1>11. ASSUME meddled' = FALSE PROVE Undisturbed'
  <2>1. ~SomethingAlive /\ (meddled = FALSE \/ \A f \in Files : shelf[f].there = FALSE)
    BY <1>1, <1>4, <1>11 DEF LoadTyped, Piece
  <2>2. \A f \in Files : shelf[f].clean /\ shelf[f].len <= Chunks[f]
    <3>1. CASE meddled = FALSE
      BY <3>1 DEF Undisturbed, ShelfIsClean
    <3>2. CASE \A f \in Files : shelf[f].there = FALSE
      BY <1>1, <3>2, FilesAre DEF NotThereIsAbsent, Absent
    <3> QED BY <2>1, <3>1, <3>2
  <2>3. \A k \in 1..n : jobs'[k].live = FALSE /\ \A f \in Files : ~Alive(k, f)'
    <3>1. \A k \in 1..n : jobs[k].live = FALSE /\ \A f \in Files : ~Alive(k, f)
      BY <1>1, <1>6, <2>1, JobIs DEF SomethingAlive
    <3> QED BY <1>0, <1>6, <3>1 DEF Alive, Moving
  <2>4. OneWorks'
    BY <1>0, <1>6, <1>7, <2>3 DEF OneWorks, AtWork
  <2>5. ShelfIsClean'
    BY <1>0, <2>2 DEF ShelfIsClean
  <2>6. CompletedIsWhole'
    BY <1>4 DEF CompletedIsWhole
  <2>7. ASSUME NEW k \in 1..(n + 1), NEW f \in Files PROVE TransferStands(k, f)'
    <3>1. CASE k \in 1..n
      BY <2>3, <2>7, <3>1 DEF TransferStands
    <3>2. CASE k = n + 1
      BY <1>2, <1>5, <1>6, <3>2 DEF TransferStands
    <3> QED BY <1>7, <3>1, <3>2
  <2>8. ASSUME NEW k \in 1..(n + 1) PROVE DoneInOrder(k)'
    <3>1. CASE k \in 1..n
      BY <2>3, <2>8, <3>1 DEF DoneInOrder
    <3>2. CASE k = n + 1
      <4>1. 1..(jobs'[k].next - 1) = {}
        BY <1>5, <1>6, <3>2
      <4> QED BY <4>1 DEF DoneInOrder
    <3> QED BY <1>7, <3>1, <3>2
  <2> QED BY <1>0, <1>6, <2>4, <2>5, <2>6, <2>7, <2>8 DEF Undisturbed
<1> QED BY <1>8, <1>8a, <1>9, <1>10, <1>11

LEMMA LoadInvStep == LoadInv /\ [LoadNext]_loadVars => LoadInv'
<1> SUFFICES ASSUME LoadInv, [LoadNext]_loadVars PROVE LoadInv'
  OBVIOUS
<1>1. CASE Start \/ Cancel \/ AppCloses
  BY <1>1, StartStep, CancelStep, AppClosesStep
<1>2. ASSUME NEW j \in DOMAIN jobs, ListFolder(j) \/ GoesOn(j) \/ Reports(j) \/ AbortEnds(j)
      PROVE  LoadInv'
  BY <1>2, ListFolderStep, GoesOnStep, ReportsStep, AbortEndsStep
<1>3. ASSUME NEW j \in DOMAIN jobs, NEW f \in Files,
             Probe(j, f) \/ Opens(j, f) \/ Chunk(j, f) \/ Breaks(j, f) \/ StreamEnds(j, f)
      PROVE  LoadInv'
  BY <1>3, ProbeStep, OpensStep, ChunkStep, BreaksStep, StreamEndsStep
<1>4. CASE UNCHANGED loadVars
  <2>1. Files' = Files /\ Count' = Count /\ Job' = Job
    BY <1>4 DEF loadVars, Files, Count, Job
  <2>2. LoadTyped' /\ OpenIsThere' /\ NotThereIsAbsent'
    BY <1>4, <2>1 DEF loadVars, LoadInv, LoadTyped, OpenIsThere, NotThereIsAbsent
  <2>3. Undisturbed => Undisturbed'
    <3>1. \A j \in DOMAIN jobs, f \in Files : Alive(j, f)' = Alive(j, f)
      BY <1>4 DEF loadVars, Alive, Moving
    <3>2. /\ \A j \in DOMAIN jobs : AtWork(j)' = AtWork(j)
          /\ SomethingAlive' = SomethingAlive
      BY <1>4, <2>1, <3>1 DEF loadVars, AtWork, SomethingAlive
    <3>3. \A f : IsWhole(f)' = IsWhole(f)
      BY <1>4 DEF loadVars, IsWhole
    <3>4. \A j \in DOMAIN jobs, f \in Files : TransferStands(j, f)' = TransferStands(j, f)
      BY <1>4, <3>1, <3>3 DEF loadVars, TransferStands
    <3>5. \A j \in DOMAIN jobs : DoneInOrder(j)' = DoneInOrder(j)
      BY <1>4, <3>3 DEF loadVars, DoneInOrder, IsDone
    <3> QED BY <1>4, <2>1, <3>2, <3>3, <3>4, <3>5
            DEF loadVars, Undisturbed, OneWorks, ShelfIsClean, CompletedIsWhole
  <2> QED BY <1>4, <2>2, <2>3 DEF loadVars, LoadInv
<1> QED BY <1>1, <1>2, <1>3, <1>4 DEF LoadNext

(* A model reported as complete is on disk as it was published, for every  *)
(* list of models, of any sizes and digests, and whatever broke, resumed   *)
(* or closed, as long as nobody meddled with a download that was alive     *)
(* (DownloadManager::start, cancel, download_to).                          *)
THEOREM CompletedIsPublished == LoadSpec => []CompletedMeansPublished
<1>1. LoadInv => CompletedMeansPublished
  BY DEF LoadInv, LoadTyped, Undisturbed, CompletedIsWhole, CompletedMeansPublished, IsWhole
<1> QED BY LoadInvInit, LoadInvStep, <1>1, PTL DEF LoadSpec

-----------------------------------------------------------------------------
(* The answers to a combat request.  Nothing is told before it is recorded,*)
(* and what is recorded stays until the client gives the request up.       *)
Told(r) == answers[r] = {} \/ (receipt[r] # None /\ answers[r] = {receipt[r]})
AnswersTyped ==
  /\ frev \in Nat /\ DOMAIN receipt = Requests /\ DOMAIN answers = Requests /\ DOMAIN held = Callers
  /\ \A c \in Callers : held[c] # None => held[c].r \in Requests /\ held[c].dice \in Seeds
AnswersInv == AnswersTyped /\ \A r \in Requests : Told(r)

LEMMA AnswersInvInit == Init => AnswersInv
BY DEF Init, AnswersInv, AnswersTyped, Told

(* The other actions answer nobody, and give the encounter a next revision *)
(* or a new one its first.                                                 *)
LEMMA NobodyIsTold ==
  ASSUME AnswersInv, UNCHANGED <<held, receipt, answers>>, frev' = frev \/ frev' = frev + 1 \/ frev' = 0
  PROVE  AnswersInv'
BY DEF AnswersInv, AnswersTyped, Told

LEMMA ReplayStep ==
  ASSUME AnswersInv, NEW r \in Requests, Replay(r)
  PROVE  AnswersInv'
<1>1. /\ receipt[r] # None /\ answers' = [answers EXCEPT ![r] = @ \cup {receipt[r]}]
      /\ UNCHANGED <<frev, held, receipt>>
  BY DEF Replay, Answer
<1> QED BY <1>1 DEF AnswersInv, AnswersTyped, Told

(* A request that is carried out is told its receipt, the first it gets.   *)
LEMMA RecordedIsTold ==
  ASSUME AnswersInv, NEW r \in Requests, receipt[r] = None, NEW said, said # None,
         receipt' = [receipt EXCEPT ![r] = said], Answer(r, receipt'[r])
  PROVE  \A q \in Requests : Told(q)'
<1>1. answers[r] = {} /\ DOMAIN receipt = Requests /\ DOMAIN answers = Requests
  BY DEF AnswersInv, AnswersTyped, Told
<1>2. receipt'[r] = said /\ \A q \in Requests \ {r} : receipt'[q] = receipt[q]
  BY <1>1
<1>3. answers'[r] = {said} /\ \A q \in Requests \ {r} : answers'[q] = answers[q]
  BY <1>1, <1>2 DEF Answer
<1> QED BY <1>2, <1>3 DEF AnswersInv, Told

LEMMA SoloComputeStep ==
  ASSUME AnswersInv, NEW c \in Callers, NEW r \in Requests, SoloCompute(c, r)
  PROVE  AnswersInv'
<1>1. PICK seed \in Seeds :
         held' = [held EXCEPT ![c] = [r |-> r, f |-> Prepare(fight, asked[r].cmd, seed).f, dice |-> seed]]
  BY DEF SoloCompute
<1>2. UNCHANGED <<frev, receipt, answers>>
  BY DEF SoloCompute
<1> DEFINE out == Prepare(fight, asked[r].cmd, seed).f
<1>3. held' = [held EXCEPT ![c] = [r |-> r, f |-> out, dice |-> seed]]
  BY <1>1
<1> HIDE DEF out
<1>4. /\ held'[c].r = r /\ held'[c].dice = seed
      /\ DOMAIN held' = Callers /\ \A d \in Callers \ {c} : held'[d] = held[d]
  BY <1>3 DEF AnswersInv, AnswersTyped
<1> QED BY <1>2, <1>4 DEF AnswersInv, AnswersTyped, Told

LEMMA SoloCommitStep ==
  ASSUME AnswersInv, NEW c \in Callers, SoloCommit(c)
  PROVE  AnswersInv'
<1> DEFINE r == held[c].r
           said == [rev |-> frev + 1, dice |-> held[c].dice]
<1>1. r \in Requests /\ held[c].dice \in Seeds /\ held' = [held EXCEPT ![c] = None]
  BY DEF AnswersInv, AnswersTyped, SoloCommit
<1>2. /\ DOMAIN held' = Callers
      /\ \A d \in Callers : held'[d] # None => held'[d].r \in Requests /\ held'[d].dice \in Seeds
  BY <1>1 DEF AnswersInv, AnswersTyped
<1>3. CASE receipt[r] # None /\ Answer(r, receipt[r]) /\ UNCHANGED <<frev, receipt>>
  BY <1>1, <1>2, <1>3 DEF AnswersInv, AnswersTyped, Told, Answer
<1>4. CASE UNCHANGED <<frev, receipt, answers>>
  BY <1>2, <1>4 DEF AnswersInv, AnswersTyped, Told
<1>5. CASE /\ receipt[r] = None /\ frev' = frev + 1
           /\ receipt' = [receipt EXCEPT ![r] = said] /\ Answer(r, receipt'[r])
  <2>1. frev + 1 \in Nat
    BY DEF AnswersInv, AnswersTyped
  <2>2. said # None
    BY <1>1, <2>1, EncountersAssumption
  <2> HIDE DEF said, r
  <2>3. \A q \in Requests : Told(q)'
    BY <1>1, <1>5, <2>2, RecordedIsTold
  <2> QED BY <1>1, <1>2, <1>5, <2>1, <2>3 DEF AnswersInv, AnswersTyped, Answer
<1> QED BY <1>3, <1>4, <1>5, Zenon DEF SoloCommit, Persist

LEMMA RoomActStep ==
  ASSUME AnswersInv, NEW r \in Requests, RoomAct(r)
  PROVE  AnswersInv'
<1>1. PICK seed \in Seeds : frev' = frev + 1 /\ receipt' = [receipt EXCEPT ![r] = [rev |-> frev + 1, dice |-> seed]]
  BY Zenon DEF RoomAct, Persist
<1>2. receipt[r] = None /\ Answer(r, receipt'[r]) /\ UNCHANGED held
  BY DEF RoomAct
<1> DEFINE said == [rev |-> frev + 1, dice |-> seed]
<1>3. frev + 1 \in Nat
  BY DEF AnswersInv, AnswersTyped
<1>4. said # None
  BY <1>3, EncountersAssumption
<1>5. receipt' = [receipt EXCEPT ![r] = said]
  BY <1>1
<1> HIDE DEF said
<1>6. \A q \in Requests : Told(q)'
  BY <1>2, <1>4, <1>5, RecordedIsTold
<1> QED BY <1>1, <1>2, <1>3, <1>5, <1>6 DEF AnswersInv, AnswersTyped, Answer

LEMMA ForgetStep ==
  ASSUME AnswersInv, NEW r \in Requests, Forget(r)
  PROVE  AnswersInv'
BY DEF AnswersInv, AnswersTyped, Told, Forget

LEMMA OpenStep ==
  ASSUME AnswersInv, NEW authored, NEW under, Open(authored, under)
  PROVE  AnswersInv'
<1>1. frev' = 0 /\ UNCHANGED calls
  BY Zenon DEF Open
<1> QED BY <1>1, NobodyIsTold DEF calls

LEMMA SeatStep ==
  ASSUME AnswersInv, NEW room, NEW members, Seat(room, members)
  PROVE  AnswersInv'
<1>1. UNCHANGED calls /\ (frev' = frev \/ frev' = frev + 1)
  BY Zenon DEF Seat, Persist
<1> QED BY <1>1, NobodyIsTold DEF calls

LEMMA AnswersInvStep == AnswersInv /\ [Next]_vars => AnswersInv'
<1> SUFFICES ASSUME AnswersInv, [Next]_vars PROVE AnswersInv'
  OBVIOUS
<1>1. CASE StartCombat \/ StartDefense
  BY <1>1, OpenStep, Zenon DEF StartCombat, StartDefense
<1>2. CASE End
  <2>1. UNCHANGED calls /\ frev' = frev + 1
    BY <1>2, Zenon DEF End, Persist
  <2> QED BY <2>1, NobodyIsTold DEF calls
<1>3. ASSUME NEW r \in Requests, Ask(r) PROVE AnswersInv'
  BY <1>3, NobodyIsTold DEF Ask
<1>4. CASE OpenRoom \/ CloseRoom
  BY <1>4, SeatStep, Zenon DEF OpenRoom, CloseRoom
<1>5. ASSUME NEW h \in Heroes, Return(h) \/ Leave(h) PROVE AnswersInv'
  BY <1>5, SeatStep, Zenon DEF Return, Leave
<1>6. ASSUME UNCHANGED <<party, fight, frev, fno, calls>> PROVE AnswersInv'
  BY <1>6, NobodyIsTold DEF calls
<1>7. ASSUME NEW h \in Heroes,
             \/ RollDeathSave(h) \/ \E to \in {"town", "away"} : AdventureAction(h, to)
             \/ \E kind \in Rests : Rest(h, kind)
             \/ \E t \in Heroes : Aid(h, t) \/ Wait(h, t)
      PROVE  AnswersInv'
  <2>1. Calm
    BY <1>7, Zenon DEF RollDeathSave, AdventureAction, Rest, Aid, Wait
  <2> QED BY <1>6, <2>1 DEF Calm
<1>8. CASE UNCHANGED vars
  BY <1>8, NobodyIsTold DEF vars, calls
<1> QED BY <1>1, <1>2, <1>3, <1>4, <1>5, <1>7, <1>8, ReplayStep, RoomActStep, ForgetStep,
           SoloComputeStep, SoloCommitStep, Zenon DEF Next

(* A combat request has one outcome and one set of dice, however often it  *)
(* is sent, by whatever path, and whatever the rules of the fight make of  *)
(* it (ResolveCombatAction::execute, commit_action, room_combat::act).     *)
THEOREM OneAnswer == Spec => []AnswersAgree
<1>1. AnswersInv => AnswersAgree
  <2> SUFFICES ASSUME AnswersInv, NEW r \in Requests
               PROVE  Cardinality(answers[r]) <= 1 /\ answers[r] \subseteq {receipt[r]}
    BY DEF AnswersAgree
  <2>1. CASE answers[r] = {}
    <3>1. Cardinality({}) = 0
      BY FS_EmptySet
    <3> QED BY <2>1, <3>1
  <2>2. CASE answers[r] = {receipt[r]}
    <3>1. Cardinality({receipt[r]}) = 1
      BY FS_Singleton
    <3> QED BY <2>2, <3>1
  <2> QED BY <2>1, <2>2 DEF AnswersInv, Told
<1> QED BY AnswersInvInit, AnswersInvStep, <1>1, PTL DEF Spec

-----------------------------------------------------------------------------
(* The pictures.  What a hero, a save or a proposal refers to is bound     *)
(* where it is used, but for a picture of the local player's own that came *)
(* to the hero with a save; a draft is never bound to a guest's hero; the  *)
(* map of a turn under way is one of the timeline the turn began in.       *)
LibraryIs == Cardinality(Ids) \in Nat /\ Ids = 1..Cardinality(Ids)
MediaBindingsOf(ids) == ids \X (1..2) \X (HeroSeats \cup {"map"})
MediaTyped ==
  /\ LibraryIs /\ mediaBindings \subseteq MediaBindingsOf(Ids)
  /\ DOMAIN portraits = (1..2) \X HeroSeats /\ DOMAIN maps = 1..2
  /\ saved.map # 0 => saved.map \in Ids
  /\ DOMAIN drawing = {"step", "line", "map"} /\ imported \in BOOLEAN
  /\ supplied \subseteq OwnPictures

Refers(lib, bindings, given, ref, c, r) ==
  ref.id # 0 => /\ ref.id \in DOMAIN lib /\ ref = [id |-> ref.id, pic |-> lib[ref.id].pic]
                /\ <<ref.id, c, r>> \in bindings \/ (c = 1 /\ r = "host" /\ ref.id \in given)
BoundAs(ref, c, r) == Refers(library, mediaBindings, supplied, ref, c, r)
PortraitsBound ==
  /\ \A c \in 1..2, r \in HeroSeats : BoundAs(portraits[<<c, r>>], c, r)
  /\ BoundAs(saved.portrait, 1, "host") /\ BoundAs(proposal, 1, "guest")
MapsBound == \A c \in 1..2 : maps[c] # 0 => <<maps[c], c, "map">> \in mediaBindings
NoDraftLent(bindings) == \A b \in bindings : b[3] = "guest" => library[b[1]].kind # "draft"
MapOfTimeline ==
  /\ maps[1] # 0 => maps[1] \in ours
  /\ drawing.step = "running" =>
        drawing.line = timeline /\ (drawing.map # 0 => drawing.map \in ours /\ drawing.map \in Ids)
MediaInv ==
  MediaTyped /\ PortraitsBound /\ MapsBound /\ NoDraftLent(mediaBindings) /\ MapOfTimeline

LEMMA MediaInvInit == MediaInit => MediaInv
<1> SUFFICES ASSUME MediaInit PROVE MediaInv
  OBVIOUS
<1> USE DEF MediaInit
<1>1. Ids = {} /\ Cardinality(Ids) = 0 /\ LibraryIs
  BY FS_EmptySet DEF Ids, LibraryIs
<1>2. DOMAIN portraits = (1..2) \X HeroSeats /\ \A c \in 1..2, r \in HeroSeats : portraits[<<c, r>>].id = 0
  <2>1. PICK s : /\ s.id = 0
                 /\ portraits = [a \in (1..2) \X HeroSeats |-> IF a = <<1, "host">> THEN s ELSE NoPortrait]
    <3>1. PICK s \in {NoPortrait} \cup {Inline(p) : p \in {q \in Pictures : hero}} :
             portraits = [a \in (1..2) \X HeroSeats |-> IF a = <<1, "host">> THEN s ELSE NoPortrait]
      OBVIOUS
    <3>2. s.id = 0
      BY DEF NoPortrait, Inline
    <3> QED BY <3>1, <3>2
  <2>2. NoPortrait.id = 0
    BY DEF NoPortrait
  <2> QED BY <2>1, <2>2
<1>3. saved.map = 0 /\ saved.portrait.id = 0 /\ proposal.id = 0
  BY <1>2 DEF HeroSeats, NoPortrait
<1>4. MediaTyped
  BY <1>1, <1>2, <1>3 DEF MediaTyped, NoDrawing
<1>5. PortraitsBound
  BY <1>2, <1>3 DEF PortraitsBound, BoundAs, Refers
<1>6. MapsBound /\ NoDraftLent(mediaBindings) /\ MapOfTimeline
  BY DEF MapsBound, NoDraftLent, MapOfTimeline, NoDrawing
<1> QED BY <1>4, <1>5, <1>6 DEF MediaInv

(* Assets only join the library.                                           *)
LibraryGrows == LibraryIs' /\ Ids \subseteq Ids' /\ \A i \in Ids : library'[i] = library[i]

LEMMA Registered ==
  ASSUME MediaInv, NEW id, NEW a, Accepts(id, a), library' = WithAsset(id, a)
  PROVE  LibraryGrows /\ id \in Ids' /\ library'[id] = a
<1>1. LibraryIs
  BY DEF MediaInv, MediaTyped
<1>2. Ids' = Ids \cup {id}
  BY DEF WithAsset, Ids
<1>3. library'[id] = a /\ \A i \in Ids : library'[i] = library[i]
  BY DEF WithAsset, Accepts, Ids
<1>4. CASE id \in Ids
  BY <1>1, <1>2, <1>3, <1>4 DEF LibraryGrows, LibraryIs
<1>5. CASE id \notin Ids
  <2>1. id = Cardinality(Ids) + 1
    BY <1>5 DEF Accepts, NextId
  <2> DEFINE n == Cardinality(Ids)
  <2>2. n \in Nat /\ Ids' = 1..(n + 1)
    BY <1>1, <1>2, <2>1 DEF LibraryIs
  <2> HIDE DEF n
  <2>3. Cardinality(Ids') = n + 1
    BY <2>2, FS_Interval
  <2>4. LibraryIs'
    BY <2>2, <2>3 DEF LibraryIs
  <2> QED BY <1>2, <1>3, <2>4 DEF LibraryGrows
<1> QED BY <1>4, <1>5

LEMMA LibraryStays ==
  ASSUME MediaInv, library' = library
  PROVE  LibraryGrows /\ Ids' = Ids
BY DEF MediaInv, MediaTyped, LibraryGrows, LibraryIs, Ids

(* What stays bound when pictures and bindings are added.                  *)
LEMMA BoundStays ==
  ASSUME LibraryGrows, mediaBindings \subseteq mediaBindings', supplied \subseteq supplied', NEW ref, NEW c, NEW r, BoundAs(ref, c, r)
  PROVE  Refers(library', mediaBindings', supplied', ref, c, r)
BY DEF LibraryGrows, BoundAs, Refers, Ids

(* A step that adds pictures and bindings, and refers to what is bound.    *)
LEMMA PicturesJoin ==
  ASSUME MediaInv, LibraryGrows, mediaBindings \subseteq mediaBindings',
         mediaBindings' \subseteq MediaBindingsOf(Ids'),
         \A b \in mediaBindings' \ mediaBindings : b[3] = "guest" => library'[b[1]].kind # "draft",
         DOMAIN portraits' = (1..2) \X HeroSeats, DOMAIN maps' = 1..2,
         DOMAIN drawing' = {"step", "line", "map"}, imported' \in BOOLEAN,
         \A c \in 1..2, r \in HeroSeats :
            \/ BoundAs(portraits'[<<c, r>>], c, r)
            \/ Refers(library', mediaBindings', supplied', portraits'[<<c, r>>], c, r),
         \/ supplied' = supplied
         \/ supplied \subseteq supplied' /\ supplied' \subseteq OwnPictures,
         \/ BoundAs(saved'.portrait, 1, "host")
         \/ Refers(library', mediaBindings', supplied', saved'.portrait, 1, "host"),
         \/ BoundAs(proposal', 1, "guest")
         \/ Refers(library', mediaBindings', supplied', proposal', 1, "guest"),
         \A c \in 1..2 : maps'[c] # 0 => <<maps'[c], c, "map">> \in mediaBindings',
         saved'.map # 0 => saved'.map \in Ids', MapOfTimeline'
  PROVE  MediaInv'
<1>0. supplied \subseteq supplied' /\ supplied' \subseteq OwnPictures
  BY DEF MediaInv, MediaTyped
<1>1. MediaTyped'
  <2>1. OwnPictures \subseteq OwnPictures'
    BY DEF OwnPictures, LibraryGrows
  <2> QED BY <1>0, <2>1 DEF MediaTyped, LibraryGrows
<1>2. PortraitsBound'
  <2>1. ASSUME NEW c \in 1..2, NEW r \in HeroSeats
        PROVE  Refers(library', mediaBindings', supplied', portraits'[<<c, r>>], c, r)
    BY <1>0, BoundStays
  <2>2. Refers(library', mediaBindings', supplied', saved'.portrait, 1, "host")
    BY <1>0, BoundStays
  <2>3. Refers(library', mediaBindings', supplied', proposal', 1, "guest")
    BY <1>0, BoundStays
  <2> QED BY <2>1, <2>2, <2>3 DEF PortraitsBound, BoundAs
<1>3. MapsBound'
  BY DEF MapsBound
<1>4. NoDraftLent(mediaBindings)'
  <2> SUFFICES ASSUME NEW b \in mediaBindings', b[3] = "guest" PROVE library'[b[1]].kind # "draft"
    BY DEF NoDraftLent
  <2>1. CASE b \in mediaBindings
    <3>1. b[1] \in Ids /\ library[b[1]].kind # "draft"
      BY <2>1 DEF MediaInv, MediaTyped, MediaBindingsOf, NoDraftLent
    <3> QED BY <3>1 DEF LibraryGrows
  <2> QED BY <2>1
<1> QED BY <1>1, <1>2, <1>3, <1>4 DEF MediaInv

(* Binding a portrait.                                                     *)
LEMMA BoundIs ==
  ASSUME MediaInv, NEW ref, NEW c \in 1..2, NEW role \in HeroSeats, ref.id # 0 => MayBind(ref, c, role)
  PROVE  /\ mediaBindings \subseteq Bound(ref, c, role)
         /\ Bound(ref, c, role) \subseteq MediaBindingsOf(Ids)
         /\ \A b \in Bound(ref, c, role) \ mediaBindings :
               b[3] = "guest" => library[b[1]].kind # "draft"
         /\ ref.id # 0 => /\ ref.id \in Ids /\ ref = RefTo(ref.id)
                          /\ <<ref.id, c, role>> \in Bound(ref, c, role)
<1>1. mediaBindings \subseteq MediaBindingsOf(Ids)
  BY DEF MediaInv, MediaTyped
<1>2. CASE ref.id = 0
  BY <1>1, <1>2 DEF Bound
<1>3. CASE ref.id # 0
  <2>1. Bound(ref, c, role) = mediaBindings \cup {<<ref.id, c, role>>}
    BY <1>3 DEF Bound
  <2>2. ref.id \in Ids /\ ref = RefTo(ref.id)
    BY <1>3 DEF MayBind
  <2>3. <<ref.id, c, role>> \in MediaBindingsOf(Ids)
    BY <2>2 DEF MediaBindingsOf
  <2>4. \/ <<ref.id, c, role>> \in mediaBindings
        \/ role = "host" \/ library[ref.id].kind # "draft"
    BY <1>3 DEF MayBind
  <2> QED BY <1>1, <2>1, <2>2, <2>3, <2>4
<1> QED BY <1>2, <1>3

(* A portrait of the host, and one of the guest.                           *)
LEMMA PortraitSet ==
  ASSUME MediaInv, NEW ref, NEW c \in 1..2, NEW role \in HeroSeats, ref.id # 0 => MayBind(ref, c, role),
         portraits' = [portraits EXCEPT ![<<c, role>>] = ref], mediaBindings' = Bound(ref, c, role),
         UNCHANGED <<library, supplied, maps, lineVars, imported>>, proposal' = proposal \/ proposal'.id = 0
  PROVE  MediaInv'
<1>1. LibraryGrows /\ Ids' = Ids
  BY LibraryStays
<1>2. /\ mediaBindings \subseteq mediaBindings' /\ mediaBindings' \subseteq MediaBindingsOf(Ids')
      /\ \A b \in mediaBindings' \ mediaBindings : b[3] = "guest" => library'[b[1]].kind # "draft"
      /\ ref.id # 0 => /\ ref.id \in Ids /\ ref = RefTo(ref.id)
                       /\ <<ref.id, c, role>> \in mediaBindings'
  BY <1>1, BoundIs
<1>3. DOMAIN portraits = (1..2) \X HeroSeats /\ DOMAIN maps = 1..2 /\ imported \in BOOLEAN
      /\ DOMAIN drawing = {"step", "line", "map"} /\ (saved.map # 0 => saved.map \in Ids)
  BY DEF MediaInv, MediaTyped
<1>4. ASSUME NEW d \in 1..2, NEW r \in HeroSeats
      PROVE  \/ BoundAs(portraits'[<<d, r>>], d, r)
             \/ Refers(library', mediaBindings', supplied', portraits'[<<d, r>>], d, r)
  <2>1. CASE d = c /\ r = role
    <3>1. portraits'[<<d, r>>] = ref
      BY <1>3, <2>1
    <3> QED BY <1>1, <1>2, <2>1, <3>1 DEF Refers, RefTo, Ids
  <2>2. CASE ~(d = c /\ r = role)
    <3>1. portraits'[<<d, r>>] = portraits[<<d, r>>]
      BY <1>3, <2>2
    <3> QED BY <3>1 DEF MediaInv, PortraitsBound
  <2> QED BY <2>1, <2>2
<1>5. BoundAs(saved'.portrait, 1, "host") /\ BoundAs(proposal', 1, "guest")
  BY DEF MediaInv, PortraitsBound, BoundAs, Refers, lineVars
<1>6. \A d \in 1..2 : maps'[d] # 0 => <<maps'[d], d, "map">> \in mediaBindings'
  BY <1>2 DEF MediaInv, MapsBound
<1>7. MapOfTimeline'
  BY <1>1 DEF MediaInv, MapOfTimeline, lineVars
<1> QED BY <1>1, <1>2, <1>3, <1>4, <1>5, <1>6, <1>7, PicturesJoin DEF lineVars

LEMMA CommitPortraitStep ==
  ASSUME MediaInv, NEW c \in 1..2, NEW ref, CommitPortrait(c, ref)
  PROVE  MediaInv'
BY PortraitSet DEF CommitPortrait, HeroSeats, guestVars

LEMMA CommitMigrationStep ==
  ASSUME MediaInv, CommitMigration
  PROVE  MediaInv'
<1> DEFINE ref == RefTo(migrating)
<1>1. /\ MayBind(ref, 1, "host") /\ portraits' = [portraits EXCEPT ![<<1, "host">>] = ref]
      /\ mediaBindings' = Bound(ref, 1, "host")
      /\ UNCHANGED <<library, supplied, maps, lineVars, guestVars, imported>>
  BY DEF CommitMigration
<1> HIDE DEF ref
<1>2. "host" \in HeroSeats /\ 1 \in 1..2 /\ proposal' = proposal
  BY <1>1 DEF HeroSeats, guestVars
<1> QED BY <1>1, <1>2, PortraitSet

LEMMA EnrollGuestStep ==
  ASSUME MediaInv, EnrollGuest
  PROVE  MediaInv'
<1>1. /\ proposal.id # 0 => MayBind(proposal, 1, "guest")
      /\ portraits' = [portraits EXCEPT ![<<1, "guest">>] = proposal]
      /\ mediaBindings' = Bound(proposal, 1, "guest") /\ proposal'.id = 0
      /\ UNCHANGED <<library, supplied, maps, lineVars, imported>>
  BY DEF EnrollGuest, NoPortrait
<1>2. "guest" \in HeroSeats /\ 1 \in 1..2
  BY DEF HeroSeats
<1> QED BY <1>1, <1>2, PortraitSet

(* Steps that only add a picture, or move what refers to none.             *)
LEMMA LibraryOnly ==
  ASSUME MediaInv, LibraryGrows, UNCHANGED <<mediaBindings, portraits, supplied, maps, imported>>,
         \/ UNCHANGED saved
         \/ saved'.portrait = portraits[<<1, "host">>] /\ saved'.map = maps[1],
         proposal' = proposal \/ proposal'.id = 0,
         DOMAIN drawing' = {"step", "line", "map"}, MapOfTimeline'
  PROVE  MediaInv'
<1>1. /\ mediaBindings \subseteq MediaBindingsOf(Ids') /\ DOMAIN portraits = (1..2) \X HeroSeats
      /\ DOMAIN maps = 1..2 /\ imported \in BOOLEAN /\ (saved.map # 0 => saved.map \in Ids')
  BY DEF MediaInv, MediaTyped, MediaBindingsOf, LibraryGrows
<1>2. maps[1] # 0 => maps[1] \in Ids'
  BY <1>1 DEF MediaInv, MapsBound, MediaBindingsOf
<1>3. saved'.map # 0 => saved'.map \in Ids'
  BY <1>1, <1>2
<1>4. \A c \in 1..2, r \in HeroSeats : BoundAs(portraits'[<<c, r>>], c, r)
  BY DEF MediaInv, PortraitsBound
<1>5. BoundAs(saved'.portrait, 1, "host")
  BY DEF MediaInv, PortraitsBound, HeroSeats
<1>6. BoundAs(proposal', 1, "guest")
  BY DEF MediaInv, PortraitsBound, BoundAs, Refers
<1>7. \A c \in 1..2 : maps'[c] # 0 => <<maps'[c], c, "map">> \in mediaBindings'
  BY DEF MediaInv, MapsBound
<1>8. /\ mediaBindings \subseteq mediaBindings' /\ mediaBindings' \subseteq MediaBindingsOf(Ids')
      /\ imported' \in BOOLEAN
      /\ DOMAIN portraits' = (1..2) \X HeroSeats /\ DOMAIN maps' = 1..2
  BY <1>1
<1>9. \A b \in mediaBindings' \ mediaBindings : b[3] = "guest" => library'[b[1]].kind # "draft"
  OBVIOUS
<1>10. \A c \in 1..2, r \in HeroSeats :
          \/ BoundAs(portraits'[<<c, r>>], c, r)
          \/ Refers(library', mediaBindings', supplied', portraits'[<<c, r>>], c, r)
  BY <1>4
<1> QED BY <1>3, <1>5, <1>6, <1>7, <1>8, <1>9, <1>10, PicturesJoin

LEMMA RegisterAssetStep ==
  ASSUME MediaInv, RegisterAsset
  PROVE  MediaInv'
<1>1. PICK a : Accepts(NextId, a) /\ library' = WithAsset(NextId, a)
  BY DEF RegisterAsset
<1>2. UNCHANGED <<mediaBindings, portraits, supplied, maps, saved, timeline, drawing, ours, proposal, imported>>
  BY DEF RegisterAsset, lineVars, heroVars, guestVars
<1>3. LibraryGrows
  BY <1>1, Registered
<1>4. MapOfTimeline'
  BY <1>2, <1>3 DEF MediaInv, MapOfTimeline, LibraryGrows
<1> QED BY <1>2, <1>3, <1>4, LibraryOnly DEF MediaInv, MediaTyped

LEMMA OwnAsset ==
  ASSUME MediaInv, NEW id, NEW a, Accepts(id, a), library' = WithAsset(id, a),
         UNCHANGED <<mediaBindings, portraits, supplied, maps, lineVars, proposal, imported>>
  PROVE  MediaInv'
<1>1. LibraryGrows
  BY Registered
<1>2. MapOfTimeline'
  BY <1>1 DEF MediaInv, MapOfTimeline, LibraryGrows, lineVars
<1> QED BY <1>1, <1>2, LibraryOnly DEF MediaInv, MediaTyped, lineVars

LEMMA MigratePortraitStep ==
  ASSUME MediaInv, NEW id, MigratePortrait(id)
  PROVE  MediaInv'
BY OwnAsset DEF MigratePortrait, heroVars, guestVars

LEMMA UploadPortraitStep ==
  ASSUME MediaInv, NEW id, NEW p, UploadPortrait(id, p)
  PROVE  MediaInv'
BY OwnAsset DEF UploadPortrait, heroVars, guestVars

LEMMA DrawMapStep ==
  ASSUME MediaInv, DrawMap
  PROVE  MediaInv'
<1>1. PICK a : Accepts(NextId, a) /\ library' = WithAsset(NextId, a)
  BY DEF DrawMap
<1>2. /\ drawing.step = "running" /\ drawing' = [drawing EXCEPT !.map = NextId]
      /\ ours' = ours \cup {NextId}
      /\ UNCHANGED <<mediaBindings, portraits, supplied, maps, saved, timeline, proposal, imported>>
  BY DEF DrawMap, guestVars, heroVars
<1>3. LibraryGrows /\ NextId \in Ids'
  BY <1>1, Registered
<1>4. DOMAIN drawing = {"step", "line", "map"}
  BY DEF MediaInv, MediaTyped
<1>5. /\ drawing'.step = "running" /\ drawing'.line = drawing.line /\ drawing'.map = NextId
      /\ DOMAIN drawing' = {"step", "line", "map"}
  BY <1>2, <1>4
<1>6. MapOfTimeline'
  BY <1>2, <1>3, <1>5 DEF MediaInv, MapOfTimeline
<1> QED BY <1>2, <1>3, <1>5, <1>6, LibraryOnly

LEMMA BeginDrawingStep ==
  ASSUME MediaInv, BeginDrawing
  PROVE  MediaInv'
<1>1. LibraryGrows /\ Ids' = Ids
  BY LibraryStays DEF BeginDrawing
<1>2. MapOfTimeline' /\ DOMAIN drawing' = {"step", "line", "map"}
  BY DEF BeginDrawing, MediaInv, MapOfTimeline
<1> QED BY <1>1, <1>2, LibraryOnly DEF BeginDrawing, heroVars, guestVars

LEMMA SaveGameStep ==
  ASSUME MediaInv, SaveGame
  PROVE  MediaInv'
<1>1. LibraryGrows /\ Ids' = Ids
  BY LibraryStays DEF SaveGame
<1>2. MapOfTimeline' /\ DOMAIN drawing' = {"step", "line", "map"}
  BY <1>1 DEF SaveGame, MediaInv, MediaTyped, MapOfTimeline
<1>3. saved'.portrait = portraits[<<1, "host">>] /\ saved'.map = maps[1]
  BY DEF SaveGame, Snapshot
<1> QED BY <1>1, <1>2, <1>3, LibraryOnly DEF SaveGame, Snapshot, heroVars, guestVars

LEMMA SaveSuppliedStep ==
  ASSUME MediaInv, NEW brought \in Portraits, SaveSupplied(brought)
  PROVE  MediaInv'
<1>1. /\ brought.id # 0 => brought.id \in OwnPictures
      /\ portraits' = [portraits EXCEPT ![<<1, "host">>] = brought]
      /\ supplied' = IF brought.id = 0 THEN supplied ELSE supplied \cup {brought.id}
      /\ saved'.portrait = brought /\ saved'.map = maps[1]
      /\ UNCHANGED <<library, mediaBindings, maps, timeline, drawing, proposal, imported, ours>>
  BY DEF SaveSupplied, Snapshot, guestVars
<1>2. LibraryGrows /\ Ids' = Ids
  BY <1>1, LibraryStays
<1>3. /\ mediaBindings \subseteq MediaBindingsOf(Ids) /\ supplied \subseteq OwnPictures
      /\ DOMAIN portraits = (1..2) \X HeroSeats /\ DOMAIN maps = 1..2 /\ imported \in BOOLEAN
      /\ DOMAIN drawing = {"step", "line", "map"}
      /\ \A c \in 1..2, r \in HeroSeats : BoundAs(portraits[<<c, r>>], c, r)
      /\ BoundAs(proposal, 1, "guest")
      /\ \A c \in 1..2 : maps[c] # 0 => <<maps[c], c, "map">> \in mediaBindings
  BY DEF MediaInv, MediaTyped, PortraitsBound, MapsBound
<1>4. supplied \subseteq supplied' /\ supplied' \subseteq OwnPictures
  BY <1>1, <1>3
<1>5. Refers(library', mediaBindings', supplied', brought, 1, "host")
  <2> SUFFICES ASSUME brought.id # 0
               PROVE  /\ brought.id \in DOMAIN library' /\ brought.id \in supplied'
                      /\ brought = [id |-> brought.id, pic |-> library'[brought.id].pic]
    BY DEF Refers
  <2>1. PICK i \in Ids : brought = RefTo(i)
    BY DEF Portraits, NoPortrait, Inline
  <2> QED BY <1>1, <2>1 DEF RefTo, Ids
<1>6. ASSUME NEW c \in 1..2, NEW r \in HeroSeats
      PROVE  \/ BoundAs(portraits'[<<c, r>>], c, r)
             \/ Refers(library', mediaBindings', supplied', portraits'[<<c, r>>], c, r)
  <2>1. CASE c = 1 /\ r = "host"
    <3>1. portraits'[<<c, r>>] = brought
      BY <1>1, <1>3, <2>1
    <3> QED BY <1>5, <2>1, <3>1
  <2>2. CASE ~(c = 1 /\ r = "host")
    <3>1. portraits'[<<c, r>>] = portraits[<<c, r>>]
      BY <1>1, <1>3, <2>2
    <3> QED BY <1>3, <3>1
  <2> QED BY <2>1, <2>2
<1>7. saved'.map # 0 => saved'.map \in Ids'
  BY <1>1, <1>2, <1>3 DEF MediaBindingsOf
<1>8. MapOfTimeline'
  BY <1>1, <1>2 DEF MediaInv, MapOfTimeline
<1>9. /\ mediaBindings \subseteq mediaBindings' /\ mediaBindings' \subseteq MediaBindingsOf(Ids')
      /\ \A b \in mediaBindings' \ mediaBindings : b[3] = "guest" => library'[b[1]].kind # "draft"
      /\ DOMAIN portraits' = (1..2) \X HeroSeats /\ DOMAIN maps' = 1..2 /\ imported' \in BOOLEAN
      /\ DOMAIN drawing' = {"step", "line", "map"} /\ BoundAs(proposal', 1, "guest")
      /\ \A c \in 1..2 : maps'[c] # 0 => <<maps'[c], c, "map">> \in mediaBindings'
  BY <1>1, <1>2, <1>3
<1>10. Refers(library', mediaBindings', supplied', saved'.portrait, 1, "host")
  BY <1>1, <1>5
<1> QED BY <1>2, <1>4, <1>6, <1>7, <1>8, <1>9, <1>10, PicturesJoin

LEMMA RestartMediaStep ==
  ASSUME MediaInv, RestartMedia
  PROVE  MediaInv'
<1>1. LibraryGrows /\ Ids' = Ids
  BY LibraryStays DEF RestartMedia
<1>2. DOMAIN drawing = {"step", "line", "map"}
  BY DEF MediaInv, MediaTyped
<1>3. DOMAIN drawing' = {"step", "line", "map"} /\ drawing'.step # "running"
  BY <1>2 DEF RestartMedia
<1>4. MapOfTimeline'
  BY <1>3 DEF RestartMedia, MediaInv, MapOfTimeline
<1> QED BY <1>1, <1>3, <1>4, LibraryOnly DEF RestartMedia, heroVars, guestVars

LEMMA SeatChangesStep ==
  ASSUME MediaInv, SitDown \/ StandUp
  PROVE  MediaInv'
<1>1. /\ UNCHANGED <<library, mediaBindings, portraits, supplied, maps, lineVars, imported>>
      /\ proposal' = proposal \/ proposal'.id = 0
  BY DEF SitDown, StandUp, heroVars, NoPortrait
<1>2. LibraryGrows /\ Ids' = Ids
  BY <1>1, LibraryStays
<1>3. MapOfTimeline' /\ DOMAIN drawing' = {"step", "line", "map"}
  BY <1>1, <1>2 DEF MediaInv, MediaTyped, MapOfTimeline, lineVars
<1> QED BY <1>1, <1>2, <1>3, LibraryOnly DEF lineVars

LEMMA SubmitCharacterStep ==
  ASSUME MediaInv, NEW ref, SubmitCharacter(ref)
  PROVE  MediaInv'
<1>1. /\ ref.id # 0 => MayBind(ref, 1, "guest")
      /\ proposal' = ref /\ mediaBindings' = Bound(ref, 1, "guest")
      /\ UNCHANGED <<library, portraits, supplied, maps, saved, timeline, drawing, ours, imported>>
  BY DEF SubmitCharacter, heroVars, lineVars
<1>2. LibraryGrows /\ Ids' = Ids
  BY <1>1, LibraryStays
<1>3. /\ mediaBindings \subseteq mediaBindings' /\ mediaBindings' \subseteq MediaBindingsOf(Ids')
      /\ \A b \in mediaBindings' \ mediaBindings : b[3] = "guest" => library'[b[1]].kind # "draft"
      /\ ref.id # 0 => ref.id \in Ids /\ ref = RefTo(ref.id) /\ <<ref.id, 1, "guest">> \in mediaBindings'
  <2>1. "guest" \in HeroSeats /\ 1 \in 1..2
    BY DEF HeroSeats
  <2>2. /\ mediaBindings \subseteq Bound(ref, 1, "guest")
        /\ Bound(ref, 1, "guest") \subseteq MediaBindingsOf(Ids)
        /\ \A b \in Bound(ref, 1, "guest") \ mediaBindings :
              b[3] = "guest" => library[b[1]].kind # "draft"
        /\ ref.id # 0 => /\ ref.id \in Ids /\ ref = RefTo(ref.id)
                         /\ <<ref.id, 1, "guest">> \in Bound(ref, 1, "guest")
    BY <1>1, <2>1, BoundIs
  <2> QED BY <1>1, <1>2, <2>2
<1>4. Refers(library', mediaBindings', supplied', proposal', 1, "guest")
  BY <1>1, <1>2, <1>3 DEF Refers, RefTo, Ids
<1>5. /\ DOMAIN portraits = (1..2) \X HeroSeats /\ DOMAIN maps = 1..2 /\ imported \in BOOLEAN
      /\ DOMAIN drawing = {"step", "line", "map"} /\ (saved.map # 0 => saved.map \in Ids)
      /\ \A c \in 1..2, r \in HeroSeats : BoundAs(portraits[<<c, r>>], c, r)
      /\ BoundAs(saved.portrait, 1, "host")
  BY DEF MediaInv, MediaTyped, PortraitsBound
<1>6. \A c \in 1..2 : maps'[c] # 0 => <<maps'[c], c, "map">> \in mediaBindings'
  BY <1>1, <1>3 DEF MediaInv, MapsBound
<1>7. MapOfTimeline'
  BY <1>1, <1>2 DEF MediaInv, MapOfTimeline
<1> QED BY <1>1, <1>2, <1>3, <1>4, <1>5, <1>6, <1>7, PicturesJoin

LEMMA FinishStepStep ==
  ASSUME MediaInv, FinishStep
  PROVE  MediaInv'
<1> DEFINE map == drawing.map
<1>1. /\ drawing.step = "running" /\ map # 0 /\ drawing' = NoDrawing /\ maps' = [maps EXCEPT ![1] = map]
      /\ mediaBindings' = mediaBindings \cup {<<map, 1, "map">>}
      /\ UNCHANGED <<library, portraits, supplied, saved, timeline, proposal, imported, ours>>
  BY DEF FinishStep, MapBound, heroVars, guestVars
<1>2. LibraryGrows /\ Ids' = Ids
  BY <1>1, LibraryStays
<1>3. map \in ours /\ map \in Ids
  BY <1>1 DEF MediaInv, MapOfTimeline
<1> HIDE DEF map
<1>4. /\ mediaBindings \subseteq MediaBindingsOf(Ids)
      /\ DOMAIN portraits = (1..2) \X HeroSeats /\ DOMAIN maps = 1..2 /\ imported \in BOOLEAN
      /\ saved.map # 0 => saved.map \in Ids
      /\ \A c \in 1..2, r \in HeroSeats : BoundAs(portraits[<<c, r>>], c, r)
      /\ BoundAs(saved.portrait, 1, "host") /\ BoundAs(proposal, 1, "guest")
  BY DEF MediaInv, MediaTyped, PortraitsBound
<1>5. <<map, 1, "map">> \in MediaBindingsOf(Ids)
  BY <1>3 DEF MediaBindingsOf
<1>6. /\ mediaBindings \subseteq mediaBindings' /\ mediaBindings' \subseteq MediaBindingsOf(Ids')
      /\ \A b \in mediaBindings' \ mediaBindings : b[3] = "guest" => library'[b[1]].kind # "draft"
  BY <1>1, <1>2, <1>4, <1>5
<1>7. \A c \in 1..2 : maps'[c] # 0 => <<maps'[c], c, "map">> \in mediaBindings'
  BY <1>1, <1>4 DEF MediaInv, MapsBound
<1>8. DOMAIN drawing' = {"step", "line", "map"} /\ drawing'.step = "idle"
  BY <1>1 DEF NoDrawing
<1>9. MapOfTimeline'
  BY <1>1, <1>3, <1>4, <1>8 DEF MapOfTimeline
<1>10. /\ \A c \in 1..2, r \in HeroSeats : BoundAs(portraits'[<<c, r>>], c, r)
       /\ BoundAs(saved'.portrait, 1, "host") /\ BoundAs(proposal', 1, "guest")
       /\ saved'.map # 0 => saved'.map \in Ids'
       /\ DOMAIN portraits' = (1..2) \X HeroSeats /\ DOMAIN maps' = 1..2 /\ imported' \in BOOLEAN
  BY <1>1, <1>2, <1>4
<1>11. supplied' = supplied
  BY <1>1
<1> QED BY <1>2, <1>6, <1>7, <1>8, <1>9, <1>10, <1>11, PicturesJoin

LEMMA RestoreSaveStep ==
  ASSUME MediaInv, RestoreSave
  PROVE  MediaInv'
<1>1. /\ drawing.step # "running" /\ timeline' = timeline + 1
      /\ portraits' = [portraits EXCEPT ![<<1, "host">>] = saved.portrait]
      /\ maps' = [maps EXCEPT ![1] = saved.map] /\ ours' = {saved.map}
      /\ mediaBindings' = IF saved.map = 0 THEN mediaBindings
                          ELSE mediaBindings \cup {<<saved.map, 1, "map">>}
      /\ UNCHANGED <<library, supplied, saved, drawing, proposal, imported>>
  BY DEF RestoreSave, MediaLane, MapBound, guestVars
<1>2. LibraryGrows /\ Ids' = Ids
  BY <1>1, LibraryStays
<1>3. /\ mediaBindings \subseteq MediaBindingsOf(Ids)
      /\ DOMAIN portraits = (1..2) \X HeroSeats /\ DOMAIN maps = 1..2 /\ imported \in BOOLEAN
      /\ DOMAIN drawing = {"step", "line", "map"} /\ (saved.map # 0 => saved.map \in Ids)
      /\ \A c \in 1..2, r \in HeroSeats : BoundAs(portraits[<<c, r>>], c, r)
      /\ BoundAs(saved.portrait, 1, "host") /\ BoundAs(proposal, 1, "guest")
  BY DEF MediaInv, MediaTyped, PortraitsBound
<1>4. saved.map # 0 => <<saved.map, 1, "map">> \in MediaBindingsOf(Ids)
  BY <1>3 DEF MediaBindingsOf
<1>5. /\ mediaBindings \subseteq mediaBindings' /\ mediaBindings' \subseteq MediaBindingsOf(Ids')
      /\ \A b \in mediaBindings' \ mediaBindings : b[3] = "guest" => library'[b[1]].kind # "draft"
      /\ saved.map # 0 => <<saved.map, 1, "map">> \in mediaBindings'
  BY <1>1, <1>2, <1>3, <1>4
<1>6. \A c \in 1..2 : maps'[c] # 0 => <<maps'[c], c, "map">> \in mediaBindings'
  BY <1>1, <1>3, <1>5 DEF MediaInv, MapsBound
<1>7. MapOfTimeline'
  BY <1>1, <1>3 DEF MapOfTimeline
<1>8. ASSUME NEW c \in 1..2, NEW r \in HeroSeats PROVE BoundAs(portraits'[<<c, r>>], c, r)
  <2>1. portraits'[<<c, r>>] = IF <<c, r>> = <<1, "host">> THEN saved.portrait ELSE portraits[<<c, r>>]
    BY <1>1, <1>3
  <2> QED BY <1>3, <2>1
<1>9. /\ BoundAs(saved'.portrait, 1, "host") /\ BoundAs(proposal', 1, "guest")
      /\ saved'.map # 0 => saved'.map \in Ids'
      /\ DOMAIN portraits' = (1..2) \X HeroSeats /\ DOMAIN maps' = 1..2 /\ imported' \in BOOLEAN
      /\ DOMAIN drawing' = {"step", "line", "map"}
  BY <1>1, <1>2, <1>3
<1>10. supplied' = supplied
  BY <1>1
<1> QED BY <1>2, <1>5, <1>6, <1>7, <1>8, <1>9, <1>10, PicturesJoin

(* Importing: the pictures referred to get as many new numbers.            *)
NewIds == NextId..(NextId + Cardinality(Referred) - 1)
CopyOf == CHOOSE f \in [Referred -> NewIds] : \A i, j \in Referred : i # j => f[i] # f[j]
Copies == {CopyOf[i] : i \in Referred}
LEMMA NewNumbers ==
  ASSUME MediaInv, Referred \subseteq Ids
  PROVE  /\ CopyOf \in [Referred -> NewIds] /\ \A i, j \in Referred : i # j => CopyOf[i] # CopyOf[j]
         /\ Copies = NewIds
         /\ NewIds \cap Ids = {} /\ Cardinality(Ids \cup NewIds) \in Nat
         /\ Ids \cup NewIds = 1..Cardinality(Ids \cup NewIds)
<1> DEFINE n == Cardinality(Ids)
           k == Cardinality(Referred)
<1>1. n \in Nat /\ Ids = 1..n
  BY DEF MediaInv, MediaTyped, LibraryIs
<1>2. IsFiniteSet(Ids)
  BY <1>1, FS_Interval
<1>3. IsFiniteSet(Referred) /\ k \in Nat
  BY <1>2, FS_Subset, FS_CardinalityType
<1>4. NewIds = (n + 1)..((n + 1) + k - 1)
  BY DEF NewIds, NextId
<1> HIDE DEF n
<1>5. IsFiniteSet(NewIds) /\ Cardinality(NewIds) = k
  <2> HIDE DEF k
  <2>1. n + 1 \in Int /\ (n + 1) + k - 1 \in Int
    BY <1>1, <1>3
  <2>2. /\ IsFiniteSet((n + 1)..((n + 1) + k - 1))
        /\ Cardinality((n + 1)..((n + 1) + k - 1))
             = IF n + 1 > (n + 1) + k - 1 THEN 0 ELSE ((n + 1) + k - 1) - (n + 1) + 1
    BY <2>1, FS_Interval
  <2> QED BY <1>1, <1>3, <1>4, <2>2
<1>6. PICK g \in Bijection(Referred, NewIds) : TRUE
  <2>1. ExistsBijection(Referred, NewIds)
    BY <1>3, <1>5, FS_SameCardinalityBij
  <2> QED BY <2>1 DEF ExistsBijection
<1>7. g \in [Referred -> NewIds] /\ \A i, j \in Referred : i # j => g[i] # g[j]
  BY <1>6 DEF Bijection, Injection, IsInjective
<1>8. CopyOf \in [Referred -> NewIds] /\ \A i, j \in Referred : i # j => CopyOf[i] # CopyOf[j]
  BY <1>7 DEF CopyOf
<1>9. CopyOf \in Injection(Referred, NewIds)
  BY <1>8 DEF Injection, IsInjective
<1>10. CopyOf \in Surjection(Referred, NewIds)
  BY <1>3, <1>5, <1>9, FS_Injection
<1>11. Copies = NewIds
  BY <1>8, <1>10 DEF Surjection, Copies
<1>12. NewIds \cap Ids = {} /\ Ids \cup NewIds = 1..(n + k)
  <2> HIDE DEF k
  <2> QED BY <1>1, <1>3, <1>4
<1> DEFINE m == n + k
<1>13. m \in Nat /\ m \in Int
  BY <1>1, <1>3
<1>14. Ids \cup NewIds = 1..m
  BY <1>12
<1> HIDE DEF m
<1>15. Cardinality(1..m) = m
  <2>1. Cardinality(1..m) = IF 1 > m THEN 0 ELSE m - 1 + 1
    BY <1>13, FS_Interval
  <2> QED BY <1>13, <2>1
<1>16. Cardinality(Ids \cup NewIds) = m
  BY <1>14, <1>15
<1> QED BY <1>8, <1>11, <1>12, <1>13, <1>14, <1>16

(* The import: what campaign 1 refers to, copied into campaign 2.           *)
Moved(ref) == IF ref.id = 0 THEN ref ELSE [ref EXCEPT !.id = CopyOf[ref.id]]
LEMMA ImportMediaStep ==
  ASSUME MediaInv, ImportMedia
  PROVE  MediaInv'
<1>1. /\ Referred \subseteq Portable(1) /\ imported' = TRUE
      /\ library' = [i \in Ids \cup Copies |->
                       IF i \in Ids THEN library[i]
                       ELSE Asset("campaign", 2, "none",
                                  library[CHOOSE o \in Referred : CopyOf[o] = i].pic)]
      /\ portraits' = [a \in DOMAIN portraits |-> IF a[1] = 2 THEN Moved(portraits[<<1, a[2]>>])
                                                 ELSE portraits[a]]
      /\ maps' = [maps EXCEPT ![2] = IF maps[1] = 0 THEN 0 ELSE CopyOf[maps[1]]]
      /\ mediaBindings' = mediaBindings
           \cup {<<portraits'[<<2, r>>].id, 2, r>> : r \in {s \in HeroSeats : portraits[<<1, s>>].id # 0}}
           \cup MapBound(2, maps'[2])
      /\ UNCHANGED <<supplied, lineVars, migrating, guestVars>>
  BY DEF ImportMedia, NewIds, Moved, CopyOf, Copies
<1>2. Referred \subseteq Ids
  BY <1>1 DEF Portable
<1>4. /\ CopyOf \in [Referred -> NewIds] /\ \A i, j \in Referred : i # j => CopyOf[i] # CopyOf[j]
      /\ Copies = NewIds
      /\ NewIds \cap Ids = {} /\ Cardinality(Ids \cup NewIds) \in Nat
      /\ Ids \cup NewIds = 1..Cardinality(Ids \cup NewIds)
  BY <1>2, NewNumbers
<1>5. Ids' = Ids \cup NewIds /\ \A i \in Ids : library'[i] = library[i]
  BY <1>1, <1>4 DEF Ids
<1>6. LibraryGrows
  <2>1. LibraryIs'
    BY <1>4, <1>5 DEF LibraryIs
  <2> QED BY <1>5, <2>1 DEF LibraryGrows
<1>7. ASSUME NEW i \in Referred
      PROVE  /\ CopyOf[i] \in Ids'
             /\ library'[CopyOf[i]].kind = "campaign" /\ library'[CopyOf[i]].pic = library[i].pic
  <2>1. CopyOf[i] \in NewIds /\ CopyOf[i] \notin Ids
    BY <1>4
  <2>2. (CHOOSE o \in Referred : CopyOf[o] = CopyOf[i]) = i
    BY <1>4
  <2>3. library'[CopyOf[i]] = Asset("campaign", 2, "none", library[i].pic)
    BY <1>1, <1>4, <1>5, <2>1, <2>2
  <2>4. CopyOf[i] \in Ids'
    BY <1>5, <2>1
  <2> QED BY <2>3, <2>4 DEF Asset
<1>8. DOMAIN portraits = (1..2) \X HeroSeats /\ DOMAIN maps = 1..2 /\ mediaBindings \subseteq MediaBindingsOf(Ids)
      /\ DOMAIN drawing = {"step", "line", "map"} /\ (saved.map # 0 => saved.map \in Ids)
  BY DEF MediaInv, MediaTyped
<1>9. ASSUME NEW r \in HeroSeats
      PROVE  /\ portraits'[<<1, r>>] = portraits[<<1, r>>]
             /\ portraits'[<<2, r>>] = Moved(portraits[<<1, r>>])
             /\ portraits[<<1, r>>].id # 0 =>
                   /\ portraits[<<1, r>>].id \in Referred
                   /\ portraits'[<<2, r>>] = [id |-> CopyOf[portraits[<<1, r>>].id], pic |-> portraits[<<1, r>>].pic]
                   /\ portraits[<<1, r>>].pic = library[portraits[<<1, r>>].id].pic
  <2>1. portraits'[<<1, r>>] = portraits[<<1, r>>] /\ portraits'[<<2, r>>] = Moved(portraits[<<1, r>>])
    BY <1>1, <1>8
  <2>2. ASSUME portraits[<<1, r>>].id # 0
        PROVE  /\ portraits[<<1, r>>] = [id |-> portraits[<<1, r>>].id, pic |-> library[portraits[<<1, r>>].id].pic]
               /\ portraits[<<1, r>>].id \in Referred
    <3>1. BoundAs(portraits[<<1, r>>], 1, r)
      BY 1 \in 1..2 DEF MediaInv, PortraitsBound
    <3> QED BY <2>2, <3>1 DEF BoundAs, Refers, Referred
  <2> QED BY <2>1, <2>2 DEF Moved
<1>10. maps'[1] = maps[1] /\ DOMAIN maps' = 1..2
       /\ maps'[2] = IF maps[1] = 0 THEN 0 ELSE CopyOf[maps[1]]
  BY <1>1, <1>8
<1>11. maps[1] # 0 => maps[1] \in Referred /\ maps'[2] # 0
  <2>1. 0 \notin Ids'
    BY <1>6 DEF LibraryGrows, LibraryIs
  <2> QED BY <1>7, <1>10, <2>1 DEF Referred
<1>12. mediaBindings \subseteq mediaBindings'
  BY <1>1
<1>13. ASSUME NEW b \in mediaBindings' \ mediaBindings
       PROVE  b \in MediaBindingsOf(Ids') /\ library'[b[1]].kind # "draft"
  <2>1. CASE \E r \in HeroSeats : portraits[<<1, r>>].id # 0 /\ b = <<portraits'[<<2, r>>].id, 2, r>>
    <3>1. PICK r \in HeroSeats : portraits[<<1, r>>].id # 0 /\ b = <<portraits'[<<2, r>>].id, 2, r>>
      BY <2>1
    <3>2. PICK i \in Referred : portraits'[<<2, r>>] = [id |-> CopyOf[i], pic |-> portraits[<<1, r>>].pic]
      BY <1>9, <3>1
    <3>3. portraits'[<<2, r>>].id = CopyOf[i]
      BY <3>2
    <3>4. b = <<CopyOf[i], 2, r>>
      BY <3>1, <3>3
    <3>5. CopyOf[i] \in Ids' /\ library'[CopyOf[i]].kind # "draft"
      BY <1>7
    <3> QED BY <3>4, <3>5 DEF MediaBindingsOf
  <2>2. CASE maps[1] # 0 /\ b = <<maps'[2], 2, "map">>
    <3>1. b = <<CopyOf[maps[1]], 2, "map">> /\ maps[1] \in Referred
      BY <1>10, <1>11, <2>2
    <3>2. CopyOf[maps[1]] \in Ids' /\ library'[CopyOf[maps[1]]].kind # "draft"
      BY <1>7, <3>1
    <3> QED BY <3>1, <3>2 DEF MediaBindingsOf
  <2>3. mediaBindings' \ mediaBindings \subseteq
           {<<portraits'[<<2, r>>].id, 2, r>> : r \in {s \in HeroSeats : portraits[<<1, s>>].id # 0}}
           \cup (IF maps[1] = 0 THEN {} ELSE {<<maps'[2], 2, "map">>})
    BY <1>1, <1>10 DEF MapBound
  <2> QED BY <2>1, <2>2, <2>3
<1>14. mediaBindings' \subseteq MediaBindingsOf(Ids')
  BY <1>5, <1>8, <1>13 DEF MediaBindingsOf
<1>15. ASSUME NEW c \in 1..2, NEW r \in HeroSeats
       PROVE  \/ BoundAs(portraits'[<<c, r>>], c, r)
              \/ Refers(library', mediaBindings', supplied', portraits'[<<c, r>>], c, r)
  <2>1. CASE c = 1
    BY <1>9, <2>1 DEF MediaInv, PortraitsBound
  <2>2. CASE c = 2 /\ portraits[<<1, r>>].id = 0
    BY <1>9, <2>2 DEF Refers, Moved
  <2>3. CASE c = 2 /\ portraits[<<1, r>>].id # 0
    <3>0. <<portraits'[<<2, r>>].id, 2, r>> \in mediaBindings'
      <4> DEFINE given == {s \in HeroSeats : portraits[<<1, s>>].id # 0}
                 bound == {<<portraits'[<<2, s>>].id, 2, s>> : s \in given}
      <4>1. r \in given
        BY <2>3
      <4>2. bound \subseteq mediaBindings'
        BY <1>1
      <4> HIDE DEF given
      <4>3. <<portraits'[<<2, r>>].id, 2, r>> \in bound
        BY <4>1
      <4> HIDE DEF bound
      <4> QED BY <4>2, <4>3
    <3> DEFINE i == portraits[<<1, r>>].id
               q == portraits'[<<2, r>>]
    <3>1. i \in Referred /\ q = [id |-> CopyOf[i], pic |-> library[i].pic]
      BY <1>9, <2>3
    <3>2. <<q.id, 2, r>> \in mediaBindings'
      BY <3>0
    <3> HIDE DEF i, q
    <3>3. CopyOf[i] \in Ids' /\ library'[CopyOf[i]].pic = library[i].pic
      BY <1>7, <3>1
    <3>4. Refers(library', mediaBindings', supplied', q, 2, r)
      BY <3>1, <3>2, <3>3 DEF Refers, Ids
    <3> QED BY <2>3, <3>4 DEF q
  <2> QED BY <2>1, <2>2, <2>3
<1>16. \A c \in 1..2 : maps'[c] # 0 => <<maps'[c], c, "map">> \in mediaBindings'
  <2>1. maps[1] # 0 => <<maps[1], 1, "map">> \in mediaBindings
    BY DEF MediaInv, MapsBound
  <2>2. maps[1] # 0 => <<maps'[2], 2, "map">> \in mediaBindings'
    BY <1>1, <1>11 DEF MapBound
  <2> QED BY <1>10, <1>12, <2>1, <2>2
<1>17. BoundAs(saved'.portrait, 1, "host") /\ BoundAs(proposal', 1, "guest")
  <2>1. saved' = saved /\ proposal' = proposal
    BY <1>1 DEF lineVars, guestVars
  <2> QED BY <2>1 DEF MediaInv, PortraitsBound, BoundAs, Refers
<1>18. MapOfTimeline'
  <2>1. drawing' = drawing /\ timeline' = timeline /\ ours' = ours
    BY <1>1 DEF lineVars
  <2> QED BY <1>5, <1>10, <2>1 DEF MediaInv, MapOfTimeline
<1>19. saved'.map # 0 => saved'.map \in Ids'
  BY <1>1, <1>5, <1>8 DEF lineVars
<1>20. DOMAIN portraits' = (1..2) \X HeroSeats /\ DOMAIN drawing' = {"step", "line", "map"} /\ imported' \in BOOLEAN
  BY <1>1, <1>8 DEF lineVars
<1>21. supplied' = supplied
  BY <1>1
<1> QED BY <1>6, <1>10, <1>12, <1>13, <1>14, <1>15, <1>16, <1>17, <1>18, <1>19, <1>20, <1>21, PicturesJoin

(* Every step keeps it.                                                     *)
LEMMA PlayOnStep ==
  ASSUME MediaInv, PlayOn
  PROVE  MediaInv'
<1>1. ASSUME NEW ref, CommitPortrait(1, ref) PROVE MediaInv'
  <2>1. 1 \in 1..2
    OBVIOUS
  <2> QED BY <1>1, <2>1, CommitPortraitStep
<1>2. ASSUME NEW id, MigratePortrait(id) PROVE MediaInv'
  BY <1>2, MigratePortraitStep
<1>3. ASSUME NEW id, NEW p, UploadPortrait(id, p) PROVE MediaInv'
  BY <1>3, UploadPortraitStep
<1>4. ASSUME NEW ref, SubmitCharacter(ref) PROVE MediaInv'
  BY <1>4, SubmitCharacterStep
<1>5. CASE SitDown \/ StandUp
  BY <1>5, SeatChangesStep
<1>6. CASE BeginDrawing \/ DrawMap \/ FinishStep \/ RestartMedia
  BY <1>6, BeginDrawingStep, DrawMapStep, FinishStepStep, RestartMediaStep
<1>8. ASSUME NEW brought \in Portraits, SaveSupplied(brought) PROVE MediaInv'
  BY <1>8, SaveSuppliedStep
<1>7. CASE CommitMigration \/ SaveGame \/ RestoreSave \/ EnrollGuest \/ ImportMedia
  BY <1>7, CommitMigrationStep, SaveGameStep, RestoreSaveStep, EnrollGuestStep, ImportMediaStep
<1> QED BY <1>1, <1>2, <1>3, <1>4, <1>5, <1>6, <1>7, <1>8, Zenon DEF PlayOn

LEMMA MediaInvStep == MediaInv /\ [MediaNext]_mediaVars => MediaInv'
<1> SUFFICES ASSUME MediaInv, [MediaNext]_mediaVars PROVE MediaInv'
  OBVIOUS
<1>1. CASE PlayOn
  BY <1>1, PlayOnStep
<1>2. ASSUME NEW ref, CommitPortrait(2, ref) PROVE MediaInv'
  <2>1. 2 \in 1..2
    OBVIOUS
  <2> QED BY <1>2, <2>1, CommitPortraitStep
<1>3. CASE RegisterAsset
  BY <1>3, RegisterAssetStep
<1>4. CASE UNCHANGED mediaVars
  <2>1. UNCHANGED <<library, mediaBindings, portraits, supplied, maps, saved, timeline, drawing,
                    proposal, imported, ours>>
    BY <1>4 DEF mediaVars
  <2> QED BY <2>1 DEF MediaInv, MediaTyped, LibraryIs, Ids, OwnPictures, PortraitsBound, BoundAs, Refers,
                      MapsBound, NoDraftLent, MapOfTimeline
<1> QED BY <1>1, <1>2, <1>3, <1>4, Zenon DEF MediaNext

(* What the invariant says of the pictures in use.                          *)
LEMMA PicturesKept == MediaInv => PicturesStay
<1> SUFFICES ASSUME MediaInv PROVE PicturesStay
  OBVIOUS
<1>1. ASSUME NEW c \in Campaigns PROVE c \in 1..2
  BY DEF Campaigns
<1>2. ASSUME NEW i, NEW c, NEW r, <<i, c, r>> \in mediaBindings
      PROVE  i \in Portable(c) /\ (r \in HeroSeats \cup {"map"} => i \in CampaignReads(c))
  <2>1. i \in Ids
    BY <1>2 DEF MediaInv, MediaTyped, MediaBindingsOf
  <2>2. <<i, c, r>>[1] = i /\ <<i, c, r>>[2] = c
    OBVIOUS
  <2>3. i \in Portable(c)
    BY <1>2, <2>1, <2>2 DEF Portable
  <2> QED BY <1>2, <2>1, <2>3 DEF CampaignReads
<1>3. ASSUME NEW c \in Campaigns, NEW r \in HeroSeats, portraits[<<c, r>>].id # 0
      PROVE  /\ MayBind(portraits[<<c, r>>], c, r)
             /\ \/ portraits[<<c, r>>].id \in CampaignReads(c) \cap Portable(c)
                \/ c = 1 /\ r = "host" /\ portraits[<<c, r>>].id \in UnboundSupplied
  <2> DEFINE ref == portraits[<<c, r>>]
  <2>1. BoundAs(ref, c, r)
    BY <1>1 DEF MediaInv, PortraitsBound
  <2>2. /\ ref.id \in Ids /\ ref = RefTo(ref.id)
        /\ <<ref.id, c, r>> \in mediaBindings \/ (c = 1 /\ r = "host" /\ ref.id \in supplied)
    BY <1>3, <2>1 DEF BoundAs, Refers, RefTo, Ids
  <2>3. CASE <<ref.id, c, r>> \in mediaBindings
    <3>1. ref.id \in CampaignReads(c) \cap Portable(c)
      BY <1>2, <2>3
    <3> QED BY <2>2, <2>3, <3>1 DEF MayBind
  <2>4. CASE <<ref.id, c, r>> \notin mediaBindings
    <3>1. c = 1 /\ r = "host" /\ ref.id \in UnboundSupplied /\ ref.id \in OwnPictures
      BY <2>2, <2>4 DEF UnboundSupplied, MediaInv, MediaTyped
    <3>2. MayBind(ref, c, r)
      BY <2>2, <3>1 DEF MayBind, OwnPictures
    <3> QED BY <3>1, <3>2
  <2> QED BY <2>3, <2>4
<1>4. ASSUME NEW c \in Campaigns, maps[c] # 0 PROVE maps[c] \in CampaignReads(c) \cap Portable(c)
  BY <1>1, <1>2, <1>4 DEF MediaInv, MapsBound
<1>5. ASSUME NEW i \in GuestReads \cap DraftReads
      PROVE  i \in UnboundSupplied \/ \E c \in Campaigns : <<i, c, "host">> \in mediaBindings
  <2>1. i \in Ids /\ i # 0 /\ library[i].kind = "draft"
    BY DEF DraftReads, MediaInv, MediaTyped, LibraryIs
  <2>2. PICK r \in ActiveSeats : portraits[<<1, r>>].id = i
    BY <2>1 DEF GuestReads
  <2>3. r \in HeroSeats /\ (r = "host" \/ r = "guest") /\ 1 \in 1..2 /\ 1 \in Campaigns
    BY DEF ActiveSeats, HeroSeats, Campaigns
  <2>4. BoundAs(portraits[<<1, r>>], 1, r)
    BY <2>3 DEF MediaInv, PortraitsBound
  <2>5. <<i, 1, r>> \in mediaBindings \/ (r = "host" /\ i \in supplied)
    BY <2>1, <2>2, <2>4 DEF BoundAs, Refers
  <2>6. CASE r = "guest"
    <3>1. <<i, 1, r>> \in mediaBindings /\ <<i, 1, r>>[1] = i /\ <<i, 1, r>>[3] = r
      BY <2>5, <2>6
    <3> QED BY <2>1, <2>6, <3>1 DEF MediaInv, NoDraftLent
  <2>7. CASE r = "host"
    BY <2>3, <2>5, <2>7 DEF UnboundSupplied
  <2> QED BY <2>3, <2>6, <2>7
<1>6. maps[1] # 0 => maps[1] \in ours
  BY DEF MediaInv, MapOfTimeline
<1> QED BY <1>3, <1>4, <1>5, <1>6 DEF PicturesStay

(* However pictures are saved, restored, migrated, uploaded again or        *)
(* imported: every hero keeps the picture it was given, bound to it unless  *)
(* it came with a save; the map is one of this timeline, and of the local   *)
(* player's drafts a guest sees only what the player has put on a hero      *)
(* (bind_portrait, persist_snapshot_character, apply_projection, capture).  *)
THEOREM PicturesInUse == MediaSpec => []PicturesStay
<1> QED BY MediaInvInit, MediaInvStep, PicturesKept, PTL DEF MediaSpec
=============================================================================

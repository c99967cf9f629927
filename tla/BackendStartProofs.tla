------------------------- MODULE BackendStartProofs -------------------------
(***************************************************************************)
(* The start of the backend, the talk it then serves, the files by which   *)
(* its campaigns move to another machine, and the commands of a request.   *)
(*                                                                         *)
(* A profile has one password, for every number of launches and however    *)
(* many of them die or meet a store that lies about a write.               *)
(* Between taking the lock and giving it back a launch is alone in its     *)
(* profile (LockInv), so what its second look did not find is still not    *)
(* there when it writes (EmptyInv); whoever holds a password read it from, *)
(* or wrote it to, the credential store, which never changes once it has   *)
(* one (KeyInv).                                                           *)
(*                                                                         *)
(* Whatever breaks off the talk around a request, an answer is taken for   *)
(* the question it was given to, and what the player is told is on record  *)
(* once (DialogueInv).                                                     *)
(*                                                                         *)
(* What moves is what was said, in its order (HistoryIs, by induction over *)
(* the messages), and it arrives once (BundlesInv).                        *)
(*                                                                         *)
(* The commands of a request are carried out as they were given: at most   *)
(* one of them can go on, those before it are over and those after it have *)
(* not begun (LedgerInv, FrontierIs; StatusesExist and EarlierStay by      *)
(* induction over the commands).                                           *)
(***************************************************************************)
EXTENDS BackendStart, RequestDialogue, Bundles, CommandLedger, FiniteSetTheorems, SequenceTheorems,
        WellFoundedInduction, TLAPS

Places == {"gone", "read", "look", "lock", "again", "lookAgain", "write", "readback", "have", "open"}
StartType ==
  /\ data \in SUBSET Dirs
  /\ keyring \in [Dirs -> Nat] /\ snapshot \in [Dirs -> Nat]
  /\ holder \in [Dirs -> Launches \cup {Unheld}]
  /\ launch \in [Launches -> [at : Places, dir : Dirs, key : Nat]]
  /\ made \in Nat /\ override \in BOOLEAN

Locked == {"again", "lookAgain", "write", "readback"}
LockInv == \A l \in Launches : launch[l].at \in Locked => holder[launch[l].dir] = l
EmptyInv == \A l \in Launches : launch[l].at \in {"lookAgain", "write"} => keyring[launch[l].dir] = 0
KeyInv ==
  ~override =>
    /\ \A l \in Launches : Holds(l) =>
         launch[l].key = keyring[launch[l].dir] /\ launch[l].key # 0
    /\ \A d \in Dirs : snapshot[d] \in {0, keyring[d]}

StartInv == StartType /\ LockInv /\ EmptyInv /\ KeyInv

LEMMA StartsThere == StartInit => StartInv
<1> SUFFICES ASSUME StartInit PROVE StartInv
  OBVIOUS
<1>1. Gone \in [at : Places, dir : Dirs, key : Nat]
  BY DEF Gone, Places, Dirs
<1>2. data \in SUBSET Dirs
  BY DEF StartInit, Dirs
<1>3. StartType
  BY <1>1, <1>2 DEF StartInit, StartType
<1>4. LockInv /\ EmptyInv /\ KeyInv
  BY DEF StartInit, LockInv, EmptyInv, KeyInv, Gone, Locked, Holds
<1> QED BY <1>3, <1>4 DEF StartInv

(* A launch that only moves on within what it holds.                       *)
LEMMA StartMoves ==
  ASSUME StartInv, NEW l \in Launches, NEW at \in Places, Step(l, at),
         UNCHANGED <<keyring, snapshot, made, override>>,
         data' \in SUBSET Dirs, holder' = holder,
         at \in Locked => launch[l].at \in Locked,
         at \in {"lookAgain", "write"} => keyring[launch[l].dir] = 0,
         at \in {"readback", "have", "open"} => Holds(l)
  PROVE  StartInv'
<1>1. StartType'
  BY DEF StartInv, StartType, Step
<1>2. \A k \in Launches : /\ launch'[k].dir = launch[k].dir /\ launch'[k].key = launch[k].key
                          /\ launch'[k].at = IF k = l THEN at ELSE launch[k].at
  BY DEF StartInv, StartType, Step
<1>3. LockInv' /\ EmptyInv' /\ KeyInv'
  BY <1>2 DEF StartInv, LockInv, EmptyInv, KeyInv, Holds
<1> QED BY <1>1, <1>3 DEF StartInv

(* A launch that gives its lock back, with a password or without.          *)
LEMMA StartLeaves ==
  ASSUME StartInv, NEW l \in Launches, NEW at \in {"gone", "have"}, NEW key \in Nat, NEW dir \in Dirs,
         launch' = [launch EXCEPT ![l] = [at |-> at, dir |-> dir, key |-> key]],
         UNCHANGED <<data, snapshot, made, override, keyring>>, holder' = Unlocked(l),
         at = "have" /\ ~override => key = keyring[dir] /\ key # 0
  PROVE  StartInv'
<1>1. StartType'
  BY DEF StartInv, StartType, Unlocked, Places
<1>2. \A k \in Launches : k # l => launch'[k] = launch[k]
  BY DEF StartInv, StartType
<1>3. launch'[l].at = at /\ launch'[l].dir = dir /\ launch'[l].key = key
  BY DEF StartInv, StartType
<1>4. LockInv'
  BY <1>2, <1>3 DEF StartInv, StartType, LockInv, Unlocked, Locked
<1>5. EmptyInv' /\ KeyInv'
  BY <1>2, <1>3 DEF StartInv, EmptyInv, KeyInv, Holds
<1> QED BY <1>1, <1>4, <1>5 DEF StartInv

LEMMA WritesAlone ==
  ASSUME StartInv, NEW l \in Launches, WritesPassword(l)
  PROVE  StartInv'
<1> DEFINE d == launch[l].dir
<1>0. d \in Dirs /\ made + 1 \in Nat /\ made + 1 # 0 /\ holder[d] = l /\ keyring[d] = 0
  BY DEF StartInv, StartType, LockInv, EmptyInv, WritesPassword, Locked
<1>1. ASSUME NEW k \in Launches, k # l, launch[k].dir = d
      PROVE  launch[k].at \notin Locked /\ (~override => ~Holds(k))
  BY <1>0, <1>1 DEF StartInv, LockInv, KeyInv
<1>2. ~override => snapshot[d] = 0
  BY <1>0 DEF StartInv, KeyInv
<1>3. /\ keyring' \in [Dirs -> Nat]
      /\ \A e \in Dirs : e # d => keyring'[e] = keyring[e]
  BY <1>0 DEF StartInv, StartType, WritesPassword
<1>4. \A k \in Launches : k # l => launch'[k] = launch[k]
  BY DEF StartInv, StartType, WritesPassword
<1>5. CASE /\ keyring' = [keyring EXCEPT ![d] = made + 1]
           /\ launch' = [launch EXCEPT ![l] = [at |-> "readback", dir |-> @.dir, key |-> made + 1]]
           /\ UNCHANGED holder
  <2>1. /\ launch'[l].at = "readback" /\ launch'[l].dir = d /\ launch'[l].key = made + 1
        /\ keyring'[d] = made + 1
    BY <1>0, <1>5 DEF StartInv, StartType
  <2>2. StartType'
    <3>1. launch' \in [Launches -> [at : Places, dir : Dirs, key : Nat]]
      BY <1>0, <1>5 DEF StartInv, StartType, Places
    <3> QED BY <1>0, <1>3, <1>5, <3>1 DEF StartInv, StartType, WritesPassword
  <2>3. LockInv'
    BY <1>0, <1>4, <1>5, <2>1 DEF StartInv, LockInv
  <2>4. EmptyInv'
    BY <1>1, <1>3, <1>4, <2>1 DEF StartInv, StartType, EmptyInv, Locked
  <2>5. KeyInv'
    BY <1>0, <1>1, <1>2, <1>3, <1>4, <2>1 DEF StartInv, StartType, KeyInv, Holds, WritesPassword
  <2> QED BY <2>2, <2>3, <2>4, <2>5 DEF StartInv
<1>6. CASE launch' = [launch EXCEPT ![l] = Gone] /\ holder' = Unlocked(l)
  <2>1. launch'[l].at = "gone"
    BY <1>6 DEF StartInv, StartType, Gone
  <2>2. StartType'
    BY <1>0, <1>3, <1>6 DEF StartInv, StartType, WritesPassword, Places, Gone, Unlocked, Dirs
  <2>3. LockInv'
    BY <1>4, <1>6, <2>1 DEF StartInv, StartType, LockInv, Unlocked, Locked
  <2>4. EmptyInv'
    BY <1>1, <1>3, <1>4, <2>1 DEF StartInv, StartType, EmptyInv, Locked
  <2>5. KeyInv'
    BY <1>0, <1>1, <1>2, <1>3, <1>4, <2>1 DEF StartInv, StartType, KeyInv, Holds, WritesPassword
  <2> QED BY <2>2, <2>3, <2>4, <2>5 DEF StartInv
<1> QED BY <1>5, <1>6 DEF WritesPassword

(* Every step of a launch keeps the invariant.                             *)
LEMMA StartStep == StartInv /\ [StartNext]_startVars => StartInv'
<1> SUFFICES ASSUME StartInv, [StartNext]_startVars PROVE StartInv'
  OBVIOUS
<1>1. CASE UNCHANGED startVars
  BY <1>1 DEF startVars, StartInv, StartType, LockInv, EmptyInv, KeyInv, Holds
<1>2. ASSUME NEW l \in Launches, Launch(l) \/ LaunchWithPassword(l) PROVE StartInv'
  <2>1. PICK at \in {"read", "have"}, key \in Nat :
          /\ launch' = [launch EXCEPT ![l] = [at |-> at, dir |-> Resolved, key |-> key]]
          /\ at = "have" => override'
    BY <1>2, StartAssumption DEF Launch, LaunchWithPassword, FromEnvironment
  <2>2. Resolved \in Dirs
    BY DEF Resolved, Dirs
  <2>3. /\ UNCHANGED <<data, keyring, snapshot, holder, made>>
        /\ override' \in {override, TRUE}
    BY <1>2 DEF Launch, LaunchWithPassword
  <2>4. /\ \A k \in Launches : k # l => launch'[k] = launch[k]
        /\ launch'[l].at = at
    BY <2>1 DEF StartInv, StartType
  <2>5. StartType'
    BY <2>1, <2>2, <2>3 DEF StartInv, StartType, Places
  <2>6. LockInv' /\ EmptyInv'
    BY <2>3, <2>4 DEF StartInv, LockInv, EmptyInv, Locked
  <2>7. KeyInv'
    BY <2>1, <2>3, <2>4 DEF StartInv, StartType, KeyInv, Holds
  <2> QED BY <2>5, <2>6, <2>7 DEF StartInv
<1>3. ASSUME NEW l \in Launches, Read(l) PROVE StartInv'
  <2>1. CASE keyring[launch[l].dir] # 0
    <3>1. /\ launch' = [launch EXCEPT ![l].at = "have", ![l].key = keyring[launch[l].dir]]
          /\ UNCHANGED <<data, keyring, snapshot, holder, made, override>>
      BY <1>3, <2>1 DEF Read, Has
    <3>2. /\ \A k \in Launches : k # l => launch'[k] = launch[k]
          /\ launch'[l].at = "have" /\ launch'[l].dir = launch[l].dir
          /\ launch'[l].key = keyring[launch[l].dir]
      BY <3>1 DEF StartInv, StartType
    <3>3. StartType'
      BY <3>1 DEF StartInv, StartType, Places
    <3>4. LockInv' /\ EmptyInv' /\ KeyInv'
      BY <2>1, <3>1, <3>2 DEF StartInv, LockInv, EmptyInv, KeyInv, Holds, Locked
    <3> QED BY <3>3, <3>4 DEF StartInv
  <2>2. CASE keyring[launch[l].dir] = 0
    <3>1. "look" \in Places /\ Step(l, "look") /\ UNCHANGED <<data, keyring, snapshot, holder, made, override>>
      BY <1>3, <2>2 DEF Read, Places
    <3> QED BY <3>1, StartMoves DEF Locked, StartInv, StartType
  <2> QED BY <2>1, <2>2
<1>4. ASSUME NEW l \in Launches, Look(l) PROVE StartInv'
  <2>1. "lock" \in Places /\ "lock" \notin Locked
    BY DEF Places, Locked
  <2> QED BY <1>4, <2>1, StartMoves DEF Look, StartInv, StartType
<1>5. ASSUME NEW l \in Launches, Lock(l) PROVE StartInv'
  <2>1. /\ \A k \in Launches : k # l => launch'[k] = launch[k]
        /\ launch'[l].at = "again" /\ launch'[l].dir = launch[l].dir /\ launch'[l].key = launch[l].key
        /\ UNCHANGED <<data, keyring, snapshot, made, override>>
    BY <1>5 DEF Lock, Step, StartInv, StartType
  <2>2. StartType'
    BY <1>5 DEF Lock, Step, StartInv, StartType, Places
  <2>3. LockInv'
    BY <1>5, <2>1, StartAssumption DEF Lock, StartInv, StartType, LockInv, Unheld
  <2>4. EmptyInv' /\ KeyInv'
    BY <2>1 DEF StartInv, EmptyInv, KeyInv, Holds
  <2> QED BY <2>2, <2>3, <2>4 DEF StartInv
<1>6. ASSUME NEW l \in Launches, ReadAgain(l) PROVE StartInv'
  <2>0. /\ launch[l].dir \in Dirs /\ keyring[launch[l].dir] \in Nat
        /\ UNCHANGED <<data, keyring, snapshot, made, override>>
    BY <1>6 DEF ReadAgain, StartInv, StartType
  <2>1. CASE FoundAgain(l) # 0
    <3>1. /\ launch' = [launch EXCEPT ![l] = [at |-> "have", dir |-> launch[l].dir,
                                             key |-> keyring[launch[l].dir]]]
          /\ holder' = Unlocked(l)
      BY <1>6, <2>1 DEF ReadAgain, Has, FoundAgain, StartInv, StartType
    <3> QED BY <2>0, <2>1, <3>1, StartLeaves DEF FoundAgain
  <2>2. CASE FoundAgain(l) = 0
    <3>1. "lookAgain" \in Places /\ Step(l, "lookAgain") /\ launch[l].at \in Locked /\ holder' = holder
      BY <1>6, <2>2 DEF ReadAgain, Places, Locked
    <3> QED BY <2>0, <2>2, <3>1, StartMoves DEF FoundAgain, StartInv, StartType
  <2> QED BY <2>1, <2>2
<1>7. ASSUME NEW l \in Launches, LookAgain(l) PROVE StartInv'
  <2>1. "write" \in Places /\ launch[l].at \in Locked /\ keyring[launch[l].dir] = 0
    BY <1>7 DEF LookAgain, Places, Locked, StartInv, EmptyInv
  <2> QED BY <1>7, <2>1, StartMoves DEF LookAgain, StartInv, StartType
<1>8. ASSUME NEW l \in Launches, WritesPassword(l) PROVE StartInv'
  BY <1>8, WritesAlone
<1>9. ASSUME NEW l \in Launches, ReadBack(l) PROVE StartInv'
  <2>1. /\ launch[l].dir \in Dirs /\ launch[l].key \in Nat
        /\ launch' = [launch EXCEPT ![l] = [at |-> "have", dir |-> launch[l].dir, key |-> launch[l].key]]
        /\ holder' = Unlocked(l) /\ UNCHANGED <<data, keyring, snapshot, made, override>>
    <3>1. launch[l] \in [at : Places, dir : Dirs, key : Nat]
      BY DEF StartInv, StartType
    <3>2. [launch[l] EXCEPT !.at = "have"]
            = [at |-> "have", dir |-> launch[l].dir, key |-> launch[l].key]
      BY <3>1
    <3>3. launch' = [launch EXCEPT ![l] = [launch[l] EXCEPT !.at = "have"]]
      BY <1>9 DEF ReadBack, Step
    <3> QED BY <1>9, <3>1, <3>2, <3>3 DEF ReadBack
  <2>2. ~override => launch[l].key = keyring[launch[l].dir] /\ launch[l].key # 0
    BY <1>9 DEF ReadBack, StartInv, KeyInv, Holds
  <2> QED BY <2>1, <2>2, StartLeaves
<1>10. ASSUME NEW l \in Launches, OpensVault(l) PROVE StartInv'
  <2>1. /\ "open" \in Places /\ "open" \notin Locked /\ Holds(l)
        /\ data' \in SUBSET Dirs
    BY <1>10 DEF OpensVault, Places, Locked, Holds, StartInv, StartType
  <2> QED BY <1>10, <2>1, StartMoves DEF OpensVault
<1>11. ASSUME NEW l \in Launches, Seal(l) PROVE StartInv'
  <2>1. /\ launch[l].dir \in Dirs /\ launch[l].key \in Nat
        /\ snapshot' = [snapshot EXCEPT ![launch[l].dir] = launch[l].key]
        /\ UNCHANGED <<data, keyring, holder, launch, made, override>>
    BY <1>11 DEF Seal, StartInv, StartType
  <2>2. ~override => launch[l].key = keyring[launch[l].dir]
    BY <1>11 DEF Seal, StartInv, KeyInv, Holds
  <2>3. StartType' /\ LockInv' /\ EmptyInv'
    BY <2>1 DEF StartInv, StartType, LockInv, EmptyInv
  <2>4. KeyInv'
    BY <2>1, <2>2 DEF StartInv, StartType, KeyInv, Holds
  <2> QED BY <2>3, <2>4 DEF StartInv
<1>12. ASSUME NEW l \in Launches, LaunchEnds(l) PROVE StartInv'
  <2>1. "managed" \in Dirs /\ 0 \in Nat
    BY DEF Dirs
  <2>2. /\ launch' = [launch EXCEPT ![l] = [at |-> "gone", dir |-> "managed", key |-> 0]]
        /\ holder' = Unlocked(l) /\ UNCHANGED <<data, keyring, snapshot, made, override>>
    BY <1>12 DEF LaunchEnds, Fails, Gone
  <2> QED BY <2>1, <2>2, StartLeaves
<1> QED
  BY <1>1, <1>2, <1>3, <1>4, <1>5, <1>6, <1>7, <1>8, <1>9, <1>10, <1>11, <1>12 DEF StartNext

(* The invariant holds however launches overlap and end.                   *)
THEOREM LaunchesCorrect == StartSpec => []StartInv
BY StartsThere, StartStep, PTL DEF StartSpec

(* Nobody is locked out of the secrets of a profile: all launches use, and *)
(* all vaults are sealed with, the one password of the credential store    *)
(* (processes/backend_credentials.rs).                                     *)
THEOREM OneKeyForever == StartSpec => []OneKey
<1>1. StartInv => OneKey
  BY DEF StartInv, StartType, KeyInv, OneKey, MatchesVault
<1> QED BY <1>1, LaunchesCorrect, PTL

-----------------------------------------------------------------------------
(* The talk around a request.  A question is answered by a word that was   *)
(* typed for it; the story holds the questions and the narration, once     *)
(* each; what a client is about to send was read of the records it will    *)
(* meet, and what the engine is about to tell is on record.                *)
Lines == [ask : Nat, tale : Drafts \cup {NoTale}]
DialogueTyped ==
  /\ request \in {"none", "running", "interrupted", "complete"}
  /\ plan \in Seq({"exact", "vague"}) /\ over \in 0..Len(plan)
  /\ asks \in Seq(Nat) /\ spoken \in Seq(Nat)
  /\ tale \in Drafts \cup {NoTale} /\ draft \in Drafts \cup {NoTale}
RepliesAs(reply) ==
  /\ reply.id \in DOMAIN asks /\ reply.word \in DOMAIN spoken
  /\ spoken[reply.word] = reply.id
AskedAndAnswered ==
  /\ \A k \in DOMAIN asks : asks[k] # 0 => asks[k] \in DOMAIN spoken /\ spoken[asks[k]] = k
  /\ \A k \in 1..(Len(asks) - 1) : asks[k] # 0
Recorded(queries, final) == {AskOf(k) : k \in DOMAIN queries} \cup (IF final = NoTale THEN {} ELSE {TaleOf(final)})
StoryIs == story \in Seq(Lines) /\ IsInjective(story) /\ ToSet(story) = Recorded(asks, tale)
TaleAtTheEnd == tale # NoTale => tale \in Faithful /\ AllOver
EngineKnows ==
  /\ phase # "off" => request = "running"
  /\ phase = "reply" => RepliesAs(clarification) /\ asks[clarification.id] \in {0, clarification.word}
  /\ phase = "plan" => plan = <<>>
  /\ phase = "resolve" => NeedsWord /\ ~OpenQuestion
  /\ phase = "verify" => AllOver
  /\ phase \in {"tell", "finish"} => outcome \in Recorded(asks, tale)
ClientKnows ==
  /\ view \in {"clarify", "resume"} => request = "interrupted"
  /\ view = "clarify" => OpenQuestion /\ known = Len(asks)
  /\ view = "resume" => sent = Unsent \/ (RepliesAs(sent) /\ asks[sent.id] = sent.word)
ScreenTrue == contradicted = FALSE /\ screen \subseteq Recorded(asks, tale)
DialogueInv ==
  /\ DialogueTyped /\ AskedAndAnswered /\ StoryIs /\ TaleAtTheEnd
  /\ EngineKnows /\ ClientKnows /\ ScreenTrue

LEMMA DialogueInvInit == DialogueInit => DialogueInv
<1> SUFFICES ASSUME DialogueInit PROVE DialogueInv
  OBVIOUS
<1> USE DEF DialogueInit
<1>1. DialogueTyped
  BY DEF DialogueTyped
<1>2. Recorded(asks, tale) = {} /\ StoryIs
  BY DEF Recorded, StoryIs, IsInjective, ToSet
<1> QED BY <1>1, <1>2 DEF DialogueInv, AskedAndAnswered, TaleAtTheEnd, EngineKnows, ClientKnows, ScreenTrue

(* What persist goes over: the queries in their order, then the end.      *)
LEMMA UtterancesAre ==
  ASSUME NEW queries \in Seq(Nat), NEW final \in Drafts \cup {NoTale}
  PROVE  LET all == Utterances(queries, final)
             n == Len(queries)
         IN  /\ all \in Seq(Lines) /\ n \in Nat
             /\ Len(all) = IF final = NoTale THEN n ELSE n + 1
             /\ \A k \in 1..n : all[k] = AskOf(k)
             /\ final # NoTale => all[n + 1] = TaleOf(final)
<1> DEFINE n == Len(queries)
           front == [k \in DOMAIN queries |-> AskOf(k)]
           back == IF final = NoTale THEN <<>> ELSE <<TaleOf(final)>>
<1>1. n \in Nat /\ DOMAIN queries = 1..n
  OBVIOUS
<1>2. \A k \in 1..n : AskOf(k) \in Lines
  BY <1>1 DEF AskOf, Lines
<1>3. front \in Seq(Lines) /\ Len(front) = n /\ \A k \in 1..n : front[k] = AskOf(k)
  BY <1>1, <1>2
<1>4. back \in Seq(Lines) /\ Len(back) = (IF final = NoTale THEN 0 ELSE 1) /\ (final # NoTale => back[1] = TaleOf(final))
  <2>1. TaleOf(final) \in Lines
    BY DEF TaleOf, Lines
  <2> QED BY <2>1
<1> HIDE DEF n, front, back
<1>5. Utterances(queries, final) = front \o back
  BY DEF Utterances, front, back
<1>6. /\ front \o back \in Seq(Lines) /\ Len(front \o back) = n + Len(back)
      /\ \A k \in 1..n : (front \o back)[k] = AskOf(k)
      /\ final # NoTale => (front \o back)[n + 1] = TaleOf(final)
  <2>1. /\ front \o back \in Seq(Lines) /\ Len(front \o back) = Len(front) + Len(back)
        /\ \A i \in 1..(Len(front) + Len(back)) :
              (front \o back)[i] = IF i <= Len(front) THEN front[i] ELSE back[i - Len(front)]
    BY <1>3, <1>4, ConcatProperties
  <2>2. Len(back) \in {0, 1} /\ (final # NoTale => Len(back) = 1)
    BY <1>4
  <2>3. \A k \in 1..n : (front \o back)[k] = AskOf(k)
    BY <1>1, <1>3, <2>1, <2>2
  <2>4. ASSUME final # NoTale PROVE (front \o back)[n + 1] = TaleOf(final)
    <3>1. n + 1 \in 1..(Len(front) + Len(back)) /\ ~(n + 1 <= Len(front)) /\ (n + 1) - Len(front) = 1
      BY <1>1, <1>3, <2>2, <2>4
    <3> QED BY <1>4, <2>1, <2>4, <3>1
  <2> QED BY <1>3, <2>1, <2>3, <2>4
<1> QED BY <1>1, <1>4, <1>5, <1>6 DEF n

(* What is bound is not bound again.                                        *)
LEMMA NothingNew ==
  ASSUME NEW queries \in Seq(Nat), NEW final \in Drafts \cup {NoTale}, story \in Seq(Lines),
         ToSet(story) = Recorded(queries, final), AppendBound(queries, final)
  PROVE  story' = story
<1> DEFINE all == Utterances(queries, final)
           new == {k \in DOMAIN all : all[k] \notin ToSet(story)}
           nth == CHOOSE f \in [1..Cardinality(new) -> new] : \A i, j \in DOMAIN f : i < j => f[i] < f[j]
<1>1. story' = story \o [i \in 1..Cardinality(new) |-> all[nth[i]]]
  BY DEF AppendBound
<1> HIDE DEF nth
<1>2. new = {}
  <2>1. /\ all \in Seq(Lines) /\ Len(queries) \in Nat
        /\ Len(all) = IF final = NoTale THEN Len(queries) ELSE Len(queries) + 1
        /\ \A k \in 1..Len(queries) : all[k] = AskOf(k)
        /\ final # NoTale => all[Len(queries) + 1] = TaleOf(final)
    BY UtterancesAre
  <2> HIDE DEF all
  <2>2. ASSUME NEW k \in DOMAIN all PROVE all[k] \in Recorded(queries, final)
    <3>1. k \in 1..Len(queries) \/ (final # NoTale /\ k = Len(queries) + 1)
      BY <2>1
    <3> QED BY <2>1, <3>1 DEF Recorded
  <2> QED BY <2>2
<1> HIDE DEF new
<1>3. Cardinality(new) = 0
  BY <1>2, FS_EmptySet
<1>4. [i \in 1..Cardinality(new) |-> all[nth[i]]] = <<>>
  BY <1>3
<1> QED BY <1>1, <1>4, ConcatEmptySeq

(* What is new is bound at the end.                                         *)
LEMMA OneNew ==
  ASSUME NEW queries \in Seq(Nat), NEW final \in Drafts \cup {NoTale}, story \in Seq(Lines),
         AppendBound(queries, final), NEW line \in Lines, line \notin ToSet(story), IsInjective(story),
         NEW old, ToSet(story) = old, Recorded(queries, final) = old \cup {line},
         Utterances(queries, final)[Len(Utterances(queries, final))] = line,
         Utterances(queries, final) # <<>>,
         \A k \in DOMAIN Utterances(queries, final) :
            k # Len(Utterances(queries, final)) => Utterances(queries, final)[k] \in old
  PROVE  /\ story' \in Seq(Lines) /\ IsInjective(story') /\ ToSet(story') = Recorded(queries, final)
<1> DEFINE all == Utterances(queries, final)
           new == {k \in DOMAIN all : all[k] \notin ToSet(story)}
           nth == CHOOSE f \in [1..Cardinality(new) -> new] : \A i, j \in DOMAIN f : i < j => f[i] < f[j]
<1>1. story' = story \o [i \in 1..Cardinality(new) |-> all[nth[i]]]
  BY DEF AppendBound
<1>2. all \in Seq(Lines)
  BY UtterancesAre
<1>3. nth = CHOOSE f \in [1..Cardinality(new) -> new] : \A i, j \in DOMAIN f : i < j => f[i] < f[j]
  OBVIOUS
<1> HIDE DEF nth
<1>4. all[Len(all)] = line /\ all # <<>> /\ (\A k \in DOMAIN all : k # Len(all) => all[k] \in old)
  OBVIOUS
<1> HIDE DEF all
<1>5. new = {Len(all)}
  <2>1. Len(all) \in DOMAIN all
    BY <1>2, <1>4
  <2> QED BY <1>4, <2>1
<1> DEFINE last == Len(all)
<1>6. last \in Nat
  BY <1>2
<1> HIDE DEF new
<1>7. Cardinality(new) = 1
  BY <1>5, FS_Singleton
<1>8. nth \in [1..1 -> new]
  <2> DEFINE f == [i \in 1..1 |-> last]
  <2>1. f \in [1..1 -> new] /\ \A i, j \in DOMAIN f : i < j => f[i] < f[j]
    BY <1>5
  <2> HIDE DEF f
  <2> QED BY <1>3, <1>7, <2>1
<1>9. nth[1] = last
  BY <1>5, <1>8
<1>10. [i \in 1..Cardinality(new) |-> all[nth[i]]] = <<line>>
  <2>1. all[nth[1]] = line
    BY <1>4, <1>9
  <2> QED BY <1>7, <2>1
<1>11. story' = Append(story, line)
  <2>1. story' = story \o <<line>>
    BY <1>1, <1>10, Zenon
  <2> QED BY <2>1, AppendIsConcat
<1>12. story' \in Seq(Lines) /\ Len(story') = Len(story) + 1 /\ story'[Len(story) + 1] = line
       /\ \A i \in 1..Len(story) : story'[i] = story[i]
  BY <1>11
<1>13. ToSet(story') = old \cup {line}
  <2>1. DOMAIN story = 1..Len(story) /\ Len(story) \in Nat /\ DOMAIN story' = 1..(Len(story) + 1)
    BY <1>12
  <2>2. \A i \in DOMAIN story' : i \in DOMAIN story \/ i = Len(story) + 1
    BY <2>1
  <2>3. DOMAIN story \subseteq DOMAIN story' /\ Len(story) + 1 \in DOMAIN story'
    BY <2>1
  <2> QED BY <1>12, <2>1, <2>2, <2>3 DEF ToSet
<1>14. IsInjective(story')
  <2> SUFFICES ASSUME NEW i \in DOMAIN story', NEW j \in DOMAIN story', story'[i] = story'[j] PROVE i = j
    BY DEF IsInjective
  <2>1. i \in 1..(Len(story) + 1) /\ j \in 1..(Len(story) + 1)
    BY <1>12
  <2>2. \A k \in 1..Len(story) : story[k] # line
    BY DEF ToSet
  <2> QED BY <1>12, <2>1, <2>2 DEF IsInjective
<1> QED BY <1>12, <1>13, <1>14

(* What stays true while the records stand.                                 *)
LEMMA RecordsStand ==
  ASSUME DialogueInv, UNCHANGED <<plan, over, asks, tale, story, spoken>>, screen' = screen \/ screen' = screen \cup {outcome},
         screen' # screen => phase \in {"tell", "finish"},
         contradicted' = contradicted, request' \in {"none", "running", "interrupted", "complete"},
         draft' \in Drafts \cup {NoTale}, EngineKnows', ClientKnows'
  PROVE  DialogueInv'
<1>1. DialogueTyped'
  BY DEF DialogueInv, DialogueTyped
<1>2. AskedAndAnswered' /\ StoryIs' /\ TaleAtTheEnd'
  BY DEF DialogueInv, AskedAndAnswered, StoryIs, Recorded, TaleAtTheEnd, AllOver
<1>3. ScreenTrue'
  BY DEF DialogueInv, ScreenTrue, Recorded, EngineKnows
<1> QED BY <1>1, <1>2, <1>3 DEF DialogueInv

LEMMA SendRequestStep ==
  ASSUME DialogueInv, SendRequest
  PROVE  DialogueInv'
<1> USE DEF SendRequest, StartTurn
<1>1. EngineKnows' /\ ClientKnows'
  BY DEF EngineKnows, ClientKnows
<1> QED BY <1>1, RecordsStand DEF DialogueInv, DialogueTyped

LEMMA ProbeTurnStep ==
  ASSUME DialogueInv, ProbeTurn
  PROVE  DialogueInv'
<1> USE DEF ProbeTurn, recordVars, engineVars
<1>1. EngineKnows'
  BY DEF DialogueInv, EngineKnows, RepliesAs, NeedsWord, OpenQuestion, AllOver, Recorded
<1>2. request \in {"running", "interrupted", "complete"}
  BY DEF DialogueInv, DialogueTyped
<1>3. ClientKnows'
  <2>1. CASE OpenQuestion
    BY <1>2, <2>1 DEF ClientKnows, OpenQuestion
  <2>2. CASE ~OpenQuestion
    <3>1. asks # <<>> => /\ Len(asks) \in DOMAIN asks /\ asks[Len(asks)] # 0 /\ Last(asks) = asks[Len(asks)]
      BY <2>2 DEF OpenQuestion, Last, DialogueInv, DialogueTyped
    <3>2. sent' = Unsent \/ (RepliesAs(sent') /\ asks[sent'.id] = sent'.word)
      BY <2>2, <3>1 DEF RepliesAs, DialogueInv, AskedAndAnswered
    <3>3. sent' = Unsent \/ ((RepliesAs(sent))' /\ asks'[sent'.id] = sent'.word)
      BY <3>2 DEF RepliesAs
    <3> QED BY <1>2, <2>2, <3>3 DEF ClientKnows
  <2> QED BY <2>1, <2>2
<1> QED BY <1>1, <1>3, RecordsStand DEF DialogueInv, DialogueTyped

LEMMA AnswerQuestionStep ==
  ASSUME DialogueInv, AnswerQuestion
  PROVE  DialogueInv'
<1> USE DEF AnswerQuestion, StartTurn
<1> DEFINE word == Len(spoken) + 1
<1>1. asks \in Seq(Nat) /\ spoken \in Seq(Nat) /\ known = Len(asks) /\ known \in DOMAIN asks /\ asks[known] = 0
  BY DEF DialogueInv, DialogueTyped, ClientKnows, OpenQuestion, Last
<1>2. known \in Nat /\ word \in Nat \ {0}
  BY <1>1
<1>3. /\ spoken' \in Seq(Nat) /\ spoken' = Append(spoken, known) /\ word \in DOMAIN spoken' /\ spoken'[word] = known
      /\ \A i \in DOMAIN spoken : i \in DOMAIN spoken' /\ spoken'[i] = spoken[i]
  BY <1>1, <1>2
<1>4. clarification' = [id |-> known, word |-> word] /\ phase' = "reply" /\ request' = "running" /\ view' = "unknown"
      /\ UNCHANGED <<plan, over, asks, tale, story, draft, screen, contradicted>>
  BY <1>2 DEF Unsent
<1> HIDE DEF word
<1>5. EngineKnows' /\ ClientKnows'
  <2>1. clarification'.id = known /\ clarification'.word = word
    BY <1>4
  <2> QED BY <1>1, <1>3, <1>4, <2>1 DEF EngineKnows, ClientKnows, RepliesAs
<1>6. DialogueTyped'
  BY <1>3, <1>4 DEF DialogueInv, DialogueTyped
<1>7. AskedAndAnswered'
  BY <1>3, <1>4 DEF DialogueInv, AskedAndAnswered
<1>8. StoryIs' /\ TaleAtTheEnd' /\ ScreenTrue'
  BY <1>4 DEF DialogueInv, StoryIs, Recorded, TaleAtTheEnd, AllOver, ScreenTrue
<1> QED BY <1>5, <1>6, <1>7, <1>8 DEF DialogueInv

LEMMA ContinueTurnStep ==
  ASSUME DialogueInv, ContinueTurn
  PROVE  DialogueInv'
<1> USE DEF ContinueTurn, StartTurn
<1>1. sent = Unsent \/ (RepliesAs(sent) /\ asks[sent.id] = sent.word)
  BY DEF DialogueInv, ClientKnows
<1>2. EngineKnows' /\ ClientKnows'
  BY <1>1 DEF EngineKnows, ClientKnows, RepliesAs
<1> QED BY <1>2, RecordsStand DEF DialogueInv, DialogueTyped

LEMMA LoseWireStep ==
  ASSUME DialogueInv, LoseWire
  PROVE  DialogueInv'
<1> USE DEF LoseWire, recordVars, engineVars
<1>1. EngineKnows' /\ ClientKnows'
  BY DEF DialogueInv, EngineKnows, ClientKnows, RepliesAs, NeedsWord, OpenQuestion, AllOver, Recorded
<1> QED BY <1>1, RecordsStand DEF DialogueInv, DialogueTyped

(* The client of a running turn is not about to send anything.              *)
LEMMA EngineRuns ==
  ASSUME DialogueInv, phase # "off", view' = view \/ view' = "unknown"
  PROVE  ClientKnows'
BY DEF DialogueInv, EngineKnows, ClientKnows

(* The steps of the engine that write no record.                            *)
LEMMA TakeUpTurnStep ==
  ASSUME DialogueInv, TakeUpTurn
  PROVE  DialogueInv'
<1> USE DEF TakeUpTurn, KeepsClient, recordVars
<1>1. EngineKnows'
  BY DEF DialogueInv, EngineKnows, Recorded
<1>2. ClientKnows'
  BY EngineRuns
<1> QED BY <1>1, <1>2, RecordsStand DEF DialogueInv, DialogueTyped

LEMMA DraftStep ==
  ASSUME DialogueInv, RepairPlan \/ StopWithDraft \/ RepairDraft
  PROVE  DialogueInv'
<1> USE DEF RepairPlan, StopWithDraft, RepairDraft, Engine, KeepsClient, recordVars
<1>1. EngineKnows'
  BY DEF DialogueInv, EngineKnows, AllOver
<1>2. ClientKnows'
  BY EngineRuns
<1> QED BY <1>1, <1>2, RecordsStand DEF DialogueInv, DialogueTyped

LEMMA TellPlayerStep ==
  ASSUME DialogueInv, TellPlayer
  PROVE  DialogueInv'
<1> USE DEF TellPlayer, Engine, recordVars
<1>1. EngineKnows'
  BY DEF DialogueInv, EngineKnows, Recorded
<1>2. ClientKnows'
  BY EngineRuns
<1> QED BY <1>1, <1>2, RecordsStand DEF DialogueInv, DialogueTyped

LEMMA TurnOverStep ==
  ASSUME DialogueInv, FinishTurn \/ FailTurn \/ DieInTurn
  PROVE  DialogueInv'
<1> USE DEF FinishTurn, FailTurn, DieInTurn, Engine, Hangs, recordVars
<1>1. EngineKnows'
  BY DEF EngineKnows
<1>2. ClientKnows'
  BY EngineRuns
<1> QED BY <1>1, <1>2, RecordsStand DEF DialogueInv, DialogueTyped

LEMMA RecoverTurnStep ==
  ASSUME DialogueInv, RecoverTurn
  PROVE  DialogueInv'
<1> USE DEF RecoverTurn, engineVars
<1>1. EngineKnows' /\ ClientKnows'
  BY DEF DialogueInv, EngineKnows, ClientKnows
<1> QED BY <1>1, RecordsStand DEF DialogueInv, DialogueTyped

(* The steps of the engine that write records.                              *)
LEMMA SavePlanStep ==
  ASSUME DialogueAssumption, DialogueInv, SavePlan
  PROVE  DialogueInv'
<1> USE DEF SavePlan, Engine, KeepsClient
<1>1. plan = <<>> /\ over = 0 /\ tale = NoTale
  <2>1. plan = <<>>
    BY DEF DialogueInv, EngineKnows
  <2> QED BY <2>1 DEF DialogueInv, DialogueTyped, TaleAtTheEnd, AllOver
<1>2. plan' \in Seq({"exact", "vague"}) /\ over \in 0..Len(plan')
  BY <1>1 DEF DialogueAssumption
<1>3. EngineKnows'
  BY DEF DialogueInv, EngineKnows
<1>4. ClientKnows'
  BY EngineRuns
<1>5. DialogueTyped' /\ AskedAndAnswered' /\ StoryIs' /\ TaleAtTheEnd' /\ ScreenTrue'
  BY <1>1, <1>2 DEF DialogueInv, DialogueTyped, AskedAndAnswered, StoryIs, Recorded, TaleAtTheEnd, ScreenTrue
<1> QED BY <1>3, <1>4, <1>5 DEF DialogueInv

LEMMA CarryOutStep ==
  ASSUME DialogueInv, CarryOut
  PROVE  DialogueInv'
<1> USE DEF CarryOut, Engine, KeepsClient
<1>1. over' \in 0..Len(plan) /\ (AllOver => over' = over)
  BY DEF DialogueInv, DialogueTyped, AllOver
<1>2. EngineKnows'
  BY DEF DialogueInv, EngineKnows
<1>3. ClientKnows'
  BY EngineRuns
<1>4. DialogueTyped' /\ AskedAndAnswered' /\ StoryIs' /\ TaleAtTheEnd' /\ ScreenTrue'
  BY <1>1 DEF DialogueInv, DialogueTyped, AskedAndAnswered, StoryIs, Recorded, TaleAtTheEnd, ScreenTrue, AllOver
<1> QED BY <1>2, <1>3, <1>4 DEF DialogueInv

LEMMA OpenNextRoundStep ==
  ASSUME DialogueInv, OpenNextRound
  PROVE  DialogueInv'
<1> USE DEF OpenNextRound, KeepsClient
<1>1. story' = story
  BY NothingNew DEF DialogueInv, DialogueTyped, StoryIs
<1>2. OpenQuestion => AskOf(Len(asks)) \in Recorded(asks, tale)
  <2>1. asks # <<>> => Len(asks) \in DOMAIN asks
    BY DEF DialogueInv, DialogueTyped
  <2> QED BY <2>1 DEF OpenQuestion, Recorded
<1>3. EngineKnows'
  <2>1. request' = "running"
    BY DEF DialogueInv, EngineKnows
  <2>2. CASE AsksAgain
    <3>1. phase' = "tell" /\ outcome' = AskOf(Len(asks))
      BY <2>2
    <3> QED BY <1>2, <2>1, <2>2, <3>1 DEF EngineKnows, Recorded, AsksAgain
  <2>3. CASE ~AsksAgain /\ NeedsWord
    <3>1. phase' = "resolve"
      BY <2>3
    <3> QED BY <2>1, <2>3, <3>1 DEF EngineKnows, AsksAgain, NeedsWord, OpenQuestion
  <2>4. CASE ~AsksAgain /\ ~NeedsWord
    <3>1. phase' = "provider"
      BY <2>4
    <3> QED BY <2>1, <3>1 DEF EngineKnows
  <2> QED BY <2>2, <2>3, <2>4
<1>4. ClientKnows'
  BY EngineRuns
<1> QED BY <1>1, <1>3, <1>4, RecordsStand DEF DialogueInv, DialogueTyped

LEMMA ResolveCommandStep ==
  ASSUME DialogueInv, ResolveCommand
  PROVE  DialogueInv'
<1> USE DEF ResolveCommand, Engine, KeepsClient
<1>1. story' = story
  BY NothingNew DEF DialogueInv, DialogueTyped, StoryIs
<1>2. plan' \in Seq({"exact", "vague"}) /\ Len(plan') = Len(plan) /\ over < Len(plan)
  BY DEF DialogueInv, DialogueTyped, EngineKnows, NeedsWord
<1>3. tale = NoTale
  <2>1. over < Len(plan) /\ over \in 0..Len(plan) /\ Len(plan) \in Nat
    BY <1>2 DEF DialogueInv, DialogueTyped
  <2>2. over # Len(plan)
    BY <2>1
  <2> QED BY <2>2 DEF DialogueInv, TaleAtTheEnd, AllOver
<1>4. EngineKnows'
  BY DEF DialogueInv, EngineKnows
<1>5. ClientKnows'
  BY EngineRuns
<1>6. DialogueTyped' /\ AskedAndAnswered' /\ StoryIs' /\ TaleAtTheEnd' /\ ScreenTrue'
  BY <1>1, <1>2, <1>3 DEF DialogueInv, DialogueTyped, AskedAndAnswered, StoryIs, Recorded, TaleAtTheEnd, ScreenTrue
<1> QED BY <1>4, <1>5, <1>6 DEF DialogueInv

(* A reply that reaches the engine fits the question it was typed for.      *)
LEMMA TakeReplyStep ==
  ASSUME DialogueInv, TakeReply
  PROVE  DialogueInv'
<1> DEFINE id == clarification.id
           word == clarification.word
<1>1. asks \in Seq(Nat) /\ spoken \in Seq(Nat) /\ id \in DOMAIN asks /\ asks[id] \in {0, word}
      /\ word \in DOMAIN spoken /\ spoken[word] = id
  BY DEF DialogueInv, DialogueTyped, EngineKnows, RepliesAs, TakeReply
<1>2. /\ phase = "reply" /\ phase' = "begin" /\ asks' = [asks EXCEPT ![id] = word] /\ AppendBound(asks', tale)
      /\ contradicted' = FALSE
      /\ UNCHANGED <<request, plan, over, tale, turnRound, attempt, draft, outcome>> /\ KeepsClient
  BY <1>1 DEF TakeReply, SameReply, DialogueInv, ScreenTrue
<1> HIDE DEF id, word
<1>3. asks' \in Seq(Nat) /\ DOMAIN asks' = DOMAIN asks /\ Len(asks') = Len(asks) /\ word \in Nat \ {0}
  BY <1>1, <1>2
<1>4. Recorded(asks', tale) = Recorded(asks, tale)
  BY <1>3 DEF Recorded
<1>5. story' = story
  BY <1>2, <1>3, <1>4, NothingNew DEF DialogueInv, DialogueTyped, StoryIs
<1>6. DialogueTyped'
  BY <1>2, <1>3 DEF DialogueInv, DialogueTyped, KeepsClient
<1>7. AskedAndAnswered'
  BY <1>1, <1>2, <1>3 DEF DialogueInv, AskedAndAnswered, KeepsClient
<1>8. StoryIs' /\ TaleAtTheEnd' /\ ScreenTrue'
  BY <1>2, <1>4, <1>5 DEF DialogueInv, StoryIs, TaleAtTheEnd, AllOver, ScreenTrue, KeepsClient
<1>9. EngineKnows'
  BY <1>2 DEF DialogueInv, EngineKnows
<1>10. ClientKnows'
  BY <1>2, EngineRuns DEF KeepsClient
<1> QED BY <1>6, <1>7, <1>8, <1>9, <1>10 DEF DialogueInv

(* A question joins the story.                                              *)
LEMMA AskPlayerStep ==
  ASSUME DialogueInv, AskPlayer
  PROVE  DialogueInv'
<1> USE DEF AskPlayer, Engine, KeepsClient
<1> DEFINE n == Len(asks)
           all == Utterances(asks', tale)
<1>1. asks \in Seq(Nat) /\ n \in Nat /\ asks' \in Seq(Nat) /\ Len(asks') = n + 1 /\ asks'[n + 1] = 0
      /\ DOMAIN asks = 1..n /\ DOMAIN asks' = 1..(n + 1) /\ \A k \in 1..n : asks'[k] = asks[k]
  BY DEF DialogueInv, DialogueTyped
<1>2. tale = NoTale /\ tale \in Drafts \cup {NoTale}
  BY DEF DialogueInv, DialogueTyped, TaleAtTheEnd, AllOver, EngineKnows, NeedsWord
<1>3. Recorded(asks', tale) = Recorded(asks, tale) \cup {AskOf(n + 1)}
  <2>1. \A k : k \in 1..(n + 1) <=> k \in 1..n \/ k = n + 1
    BY <1>1
  <2> QED BY <1>1, <2>1 DEF Recorded
<1>4. AskOf(n + 1) \in Lines /\ AskOf(n + 1) \notin Recorded(asks, tale)
  <2>1. AskOf(n + 1) \in Lines
    BY <1>1, <1>2 DEF AskOf, Lines
  <2>2. \A k \in 1..n : AskOf(k).ask # AskOf(n + 1).ask
    BY <1>1 DEF AskOf
  <2> QED BY <1>1, <1>2, <2>1, <2>2 DEF Recorded
<1>5. all \in Seq(Lines) /\ Len(all) = n + 1 /\ \A k \in 1..(n + 1) : all[k] = AskOf(k)
  BY <1>1, <1>2, UtterancesAre
<1> HIDE DEF n, all
<1>6. /\ all[Len(all)] = AskOf(n + 1) /\ all # <<>>
      /\ \A k \in DOMAIN all : k # Len(all) => all[k] \in Recorded(asks, tale)
  <2>1. \A k \in DOMAIN all : k # Len(all) => k \in 1..n
    BY <1>1, <1>5
  <2>2. Len(all) \in 1..(n + 1) /\ Len(all) # 0
    BY <1>1, <1>5
  <2> QED BY <1>1, <1>5, <2>1, <2>2 DEF Recorded
<1>7. story' \in Seq(Lines) /\ IsInjective(story') /\ ToSet(story') = Recorded(asks', tale)
  <2>1. story \in Seq(Lines) /\ IsInjective(story) /\ ToSet(story) = Recorded(asks, tale)
    BY DEF DialogueInv, StoryIs
  <2>2. AppendBound(asks', tale)
    OBVIOUS
  <2>3. AskOf(n + 1) \notin ToSet(story)
    BY <1>4, <2>1
  <2> QED BY <1>1, <1>2, <1>3, <1>4, <1>6, <2>1, <2>2, <2>3, OneNew, ZenonT(60) DEF all
<1>8. UNCHANGED <<request, plan, over, tale, draft, contradicted, spoken, screen, view>> /\ phase = "resolve" /\ phase' = "tell"
      /\ outcome' = AskOf(n + 1)
  BY <1>1 DEF n
<1>9. DialogueTyped' /\ TaleAtTheEnd'
  BY <1>1, <1>8 DEF DialogueInv, DialogueTyped, TaleAtTheEnd, AllOver
<1>10. AskedAndAnswered'
  <2>1. \A k \in 1..n : asks[k] # 0
    <3>1. asks # <<>> => asks[n] # 0
      BY <1>8 DEF DialogueInv, EngineKnows, OpenQuestion, Last, n
    <3>2. \A k \in 1..(n - 1) : asks[k] # 0
      BY DEF DialogueInv, AskedAndAnswered, n
    <3>3. \A k \in 1..n : k \in 1..(n - 1) \/ (k = n /\ asks # <<>>)
      BY <1>1
    <3> QED BY <3>1, <3>2, <3>3
  <2>2. \A k \in 1..n : asks[k] \in DOMAIN spoken /\ spoken[asks[k]] = k
    BY <1>1, <2>1 DEF DialogueInv, AskedAndAnswered
  <2>3. \A k \in 1..(n + 1) : asks'[k] # 0 => k \in 1..n
    BY <1>1
  <2> QED BY <1>1, <1>8, <2>1, <2>2, <2>3 DEF AskedAndAnswered
<1>11. StoryIs' /\ ScreenTrue'
  BY <1>3, <1>7, <1>8 DEF DialogueInv, StoryIs, ScreenTrue
<1>12. EngineKnows'
  BY <1>3, <1>8 DEF DialogueInv, EngineKnows
<1>13. ClientKnows'
  BY EngineRuns
<1> QED BY <1>9, <1>10, <1>11, <1>12, <1>13 DEF DialogueInv

(* A verified narration ends the story.                                     *)
LEMMA RecordTaleStep ==
  ASSUME DialogueAssumption, DialogueInv, RecordTale
  PROVE  DialogueInv'
<1> USE DEF RecordTale, Engine, KeepsClient
<1> DEFINE n == Len(asks)
           all == Utterances(asks, draft)
<1>1. asks \in Seq(Nat) /\ n \in Nat /\ tale = NoTale /\ draft \in Faithful /\ draft \in Drafts /\ draft # NoTale
  BY DEF DialogueInv, DialogueTyped, Publishable, DialogueAssumption
<1>2. Recorded(asks, draft) = Recorded(asks, tale) \cup {TaleOf(draft)}
  BY <1>1 DEF Recorded
<1>3. TaleOf(draft) \in Lines /\ TaleOf(draft) \notin Recorded(asks, tale)
  <2>1. TaleOf(draft) \in Lines
    BY <1>1 DEF TaleOf, Lines
  <2>2. \A k : AskOf(k).tale # TaleOf(draft).tale
    BY <1>1 DEF AskOf, TaleOf
  <2> QED BY <1>1, <2>1, <2>2 DEF Recorded
<1>4. all \in Seq(Lines) /\ Len(all) = n + 1 /\ (\A k \in 1..n : all[k] = AskOf(k)) /\ all[n + 1] = TaleOf(draft)
  BY <1>1, UtterancesAre
<1>5. DOMAIN asks = 1..n
  BY <1>1
<1> HIDE DEF n, all
<1>6. /\ all[Len(all)] = TaleOf(draft) /\ all # <<>>
      /\ \A k \in DOMAIN all : k # Len(all) => all[k] \in Recorded(asks, tale)
  <2>1. \A k \in DOMAIN all : k # Len(all) => k \in 1..n
    BY <1>1, <1>4
  <2>2. Len(all) # 0
    BY <1>1, <1>4
  <2> QED BY <1>1, <1>4, <1>5, <2>1, <2>2 DEF Recorded
<1>7. story' \in Seq(Lines) /\ IsInjective(story') /\ ToSet(story') = Recorded(asks, draft)
  <2>1. story \in Seq(Lines) /\ IsInjective(story) /\ ToSet(story) = Recorded(asks, tale)
    BY DEF DialogueInv, StoryIs
  <2>2. AppendBound(asks, draft) /\ draft \in Drafts \cup {NoTale}
    BY <1>1
  <2> QED BY <1>1, <1>2, <1>3, <1>6, <2>1, <2>2, OneNew DEF all
<1>8. UNCHANGED <<request, plan, over, asks, draft, contradicted, spoken, screen, view>> /\ phase' = "tell"
      /\ tale' = draft /\ outcome' = TaleOf(draft) /\ AllOver
  BY DEF DialogueInv, EngineKnows
<1>9. DialogueTyped' /\ TaleAtTheEnd' /\ AskedAndAnswered'
  BY <1>1, <1>8 DEF DialogueInv, DialogueTyped, TaleAtTheEnd, AllOver, AskedAndAnswered
<1>10. Recorded(asks, tale)' = Recorded(asks, draft)
  BY <1>8 DEF Recorded
<1>11. StoryIs' /\ ScreenTrue'
  BY <1>2, <1>7, <1>8, <1>10 DEF DialogueInv, StoryIs, ScreenTrue
<1>12. EngineKnows'
  BY <1>2, <1>8, <1>10 DEF DialogueInv, EngineKnows
<1>13. ClientKnows'
  BY EngineRuns
<1> QED BY <1>9, <1>11, <1>12, <1>13 DEF DialogueInv

LEMMA DialogueInvStep ==
  ASSUME DialogueAssumption, DialogueInv, [DialogueNext]_dialogueVars
  PROVE  DialogueInv'
<1>1. CASE UNCHANGED dialogueVars
  <2>1. EngineKnows' /\ ClientKnows'
    BY <1>1 DEF DialogueInv, EngineKnows, ClientKnows, RepliesAs, NeedsWord, OpenQuestion, AllOver, Recorded,
                dialogueVars, recordVars, engineVars, clientVars
  <2> QED BY <1>1, <2>1, RecordsStand DEF DialogueInv, DialogueTyped, dialogueVars, recordVars, engineVars, clientVars
<1>2. CASE DialogueNext
  BY <1>2, SendRequestStep, ProbeTurnStep, AnswerQuestionStep, ContinueTurnStep, LoseWireStep, TakeReplyStep,
     TakeUpTurnStep, DraftStep, SavePlanStep, OpenNextRoundStep, ResolveCommandStep, AskPlayerStep, CarryOutStep,
     RecordTaleStep, TellPlayerStep, TurnOverStep, RecoverTurnStep, Zenon DEF DialogueNext
<1> QED BY <1>1, <1>2

(* However often the talk around a request breaks off, a word of the player *)
(* answers the question it was typed for, what the player was shown is on   *)
(* record once, and the story ends with one verified narration of commands  *)
(* that are all over (record_reply, persist, useRecovery).                  *)
THEOREM TalkIsFaithful == DialogueSpec => []DialogueFaithful
<1>1. DialogueAssumption /\ DialogueInv => DialogueFaithful
  BY DEF DialogueInv, DialogueFaithful, AskedAndAnswered, StoryIs, ScreenTrue, TaleAtTheEnd, Recorded
<1>2. DialogueInv /\ [DialogueNext]_dialogueVars => DialogueInv'
  BY DialogueAssumption, DialogueInvStep
<1> QED BY <1>1, <1>2, DialogueAssumption, DialogueInvInit, PTL DEF DialogueSpec

-----------------------------------------------------------------------------
(* The stories that move.                                                  *)
(* Some number of a set of numbers is its smallest.                        *)
LEMMA SmallestOf ==
  ASSUME NEW S \in SUBSET Nat, S # {}
  PROVE  \E x \in S : \A y \in S : x <= y
<1>1. PICK x \in S : \A y \in S : <<y, x>> \notin OpToRel(<, Nat)
  BY WFMin, NatLessThanWellFounded
<1>2. \A y \in S : ~(y < x)
  BY <1>1 DEF OpToRel
<1> QED BY <1>2

(* The history that goes along, message by message.                        *)
Message == [who : STRING, text : Nat]
Tale == [story : Seq(Message), shared : SUBSET Nat]
Untold == [story |-> <<>>, shared |-> {}]
Carry(source, sharedOnly, so, i) ==
  IF ~(Spoken(source.story[i]) /\ (sharedOnly => i \in source.shared)) THEN so
  ELSE [story |-> Append(so.story, source.story[i]),
        shared |-> so.shared \cup (IF i \in source.shared THEN {Place(so.story)} ELSE {})]
Carried(source, sharedOnly, f, n) ==
  f = [i \in 0..n |-> IF i = 0 THEN Untold ELSE Carry(source, sharedOnly, f[i - 1], i)]

LEMMA CarriedExists ==
  ASSUME NEW source, NEW sharedOnly, NEW n \in Nat
  PROVE  \E f : Carried(source, sharedOnly, f, n)
<1> DEFINE Failing == {k \in Nat : ~\E f : Carried(source, sharedOnly, f, k)}
<1> SUFFICES ASSUME Failing # {} PROVE FALSE
  OBVIOUS
<1>1. PICK k \in Failing : \A y \in Failing : k <= y
  <2>1. Failing \in SUBSET Nat
    OBVIOUS
  <2> HIDE DEF Failing
  <2> QED BY <2>1, SmallestOf
<1>2. k # 0
  <2> SUFFICES ASSUME k = 0 PROVE FALSE
    OBVIOUS
  <2> DEFINE f == [i \in 0..0 |-> Untold]
  <2>1. Carried(source, sharedOnly, f, 0)
    BY DEF Carried
  <2> QED BY <2>1
<1>3. k - 1 \in Nat /\ k - 1 \notin Failing
  BY <1>1, <1>2
<1>4. PICK f : Carried(source, sharedOnly, f, k - 1)
  BY <1>3
<1> DEFINE g == [i \in 0..k |-> IF i = k THEN Carry(source, sharedOnly, f[k - 1], k) ELSE f[i]]
<1>5. \A i \in 0..k : g[i] = IF i = 0 THEN Untold ELSE Carry(source, sharedOnly, g[i - 1], i)
  <2>1. \A i \in 0..(k - 1) : f[i] = IF i = 0 THEN Untold ELSE Carry(source, sharedOnly, f[i - 1], i)
    BY <1>4 DEF Carried
  <2>2. \A i \in 0..(k - 1) : i # k /\ i \in 0..k /\ g[i] = f[i]
    BY <1>3
  <2>3. g[k] = Carry(source, sharedOnly, f[k - 1], k) /\ k - 1 \in 0..(k - 1)
    BY <1>3
  <2>4. \A i \in 0..k : i = k \/ (i \in 0..(k - 1) /\ (i # 0 => i - 1 \in 0..(k - 1)))
    BY <1>3
  <2> HIDE DEF g
  <2> QED BY <1>2, <2>1, <2>2, <2>3, <2>4
<1>6. Carried(source, sharedOnly, g, k)
  <2>1. g = [i \in 0..k |-> g[i]]
    OBVIOUS
  <2> HIDE DEF g
  <2> QED BY <2>1, <1>5, Zenon DEF Carried
<1> QED BY <1>1, <1>6

LEMMA HistoryIsCarried ==
  ASSUME NEW source, NEW sharedOnly, Len(source.story) \in Nat
  PROVE  \E f : /\ PortableHistory(source, sharedOnly) = f[Len(source.story)]
                /\ f[0] = Untold
                /\ \A i \in 1..Len(source.story) : f[i] = Carry(source, sharedOnly, f[i - 1], i)
<1> DEFINE f == CHOOSE g : Carried(source, sharedOnly, g, Len(source.story))
<1>1. PortableHistory(source, sharedOnly) = f[Len(source.story)]
  BY DEF PortableHistory, Carried, Carry, Untold
<1>2. Carried(source, sharedOnly, f, Len(source.story))
  BY CarriedExists
<1> HIDE DEF f
<1>3. \A i \in 0..Len(source.story) :
         f[i] = IF i = 0 THEN Untold ELSE Carry(source, sharedOnly, f[i - 1], i)
  BY <1>2 DEF Carried
<1> QED BY <1>1, <1>3

(* It is the messages that travel, in their order, each at its place.      *)
LEMMA HistoryIs ==
  ASSUME NEW source \in Tale, NEW sharedOnly \in BOOLEAN
  PROVE  LET so == PortableHistory(source, sharedOnly)
             goes == Travels(source, sharedOnly)
         IN  /\ so \in Tale /\ Tells(so, source, goes)
             /\ Marks(so, source, goes)
<1> DEFINE n == Len(source.story)
           goes == Travels(source, sharedOnly)
           Before(k) == {j \in goes : j <= k}
<1>1. n \in Nat /\ DOMAIN source.story = 1..n /\ goes \subseteq 1..n
      /\ \A i \in 1..n : source.story[i] \in Message
  BY DEF Tale, Travels
<1>2. PICK f : /\ PortableHistory(source, sharedOnly) = f[n]
               /\ f[0] = Untold
               /\ \A i \in 1..n : f[i] = Carry(source, sharedOnly, f[i - 1], i)
  BY <1>1, HistoryIsCarried
<1>3. \A k : IsFiniteSet(Before(k)) /\ Cardinality(Before(k)) \in Nat
  <2>1. IsFiniteSet(1..n)
    BY <1>1, FS_Interval
  <2>2. \A k : Before(k) \in SUBSET (1..n)
    BY <1>1
  <2> HIDE DEF Before
  <2> QED BY <2>1, <2>2, FS_Subset, FS_CardinalityType
<1>4. \A i : PlaceOf(i, goes) = Cardinality(Before(i))
  BY DEF PlaceOf
<1>5. \A k \in 1..n : /\ k \notin goes => Before(k) = Before(k - 1)
                      /\ k \in goes => /\ Before(k) = Before(k - 1) \cup {k} /\ k \notin Before(k - 1)
                                       /\ Cardinality(Before(k)) = Cardinality(Before(k - 1)) + 1
  <2> TAKE k \in 1..n
  <2>1. k \in Nat /\ \A j \in goes : j \in Nat /\ (j <= k <=> j <= k - 1 \/ j = k)
    BY <1>1
  <2>2. k \notin goes => Before(k) = Before(k - 1)
    BY <2>1
  <2>3. k \in goes => Before(k) = Before(k - 1) \cup {k} /\ k \notin Before(k - 1)
    <3>1. k \notin Before(k - 1)
      BY <2>1
    <3>2. k \in goes => \A j : j \in Before(k) <=> j \in Before(k - 1) \/ j = k
      BY <2>1
    <3> HIDE DEF Before
    <3> QED BY <3>1, <3>2
  <2> HIDE DEF Before
  <2> QED BY <1>3, <2>2, <2>3, FS_AddElement
<1>6. \A k \in 0..n : \A i \in Before(k) : PlaceOf(i, goes) \in 1..Cardinality(Before(k))
  <2> TAKE k \in 0..n
  <2> TAKE i \in Before(k)
  <2>1. Before(i) \in SUBSET Before(k) /\ Before(i) # {}
    BY <1>1
  <2>2. Cardinality(Before(i)) <= Cardinality(Before(k)) /\ Cardinality(Before(i)) # 0
    <3> HIDE DEF Before
    <3> QED BY <1>3, <2>1, FS_Subset, FS_EmptySet
  <2>3. PlaceOf(i, goes) = Cardinality(Before(i))
    BY <1>4
  <2> HIDE DEF Before, goes
  <2> QED BY <1>3, <2>2, <2>3
<1> DEFINE Agrees(k) ==
             /\ f[k] \in Tale /\ Len(f[k].story) = Cardinality(Before(k))
             /\ \A i \in Before(k) : f[k].story[PlaceOf(i, goes)] = source.story[i]
             /\ f[k].shared = {PlaceOf(i, goes) : i \in Before(k) \cap source.shared}
<1>7. Agrees(0)
  <2>1. Before(0) = {}
    BY <1>1
  <2>2. Cardinality({}) = 0
    BY FS_EmptySet
  <2>3. Untold \in Tale /\ Len(Untold.story) = 0 /\ Untold.shared = {}
    BY DEF Untold, Tale
  <2> HIDE DEF Before
  <2> QED BY <1>2, <2>1, <2>2, <2>3
<1>8. ASSUME NEW k \in 1..n, Agrees(k - 1) PROVE Agrees(k)
  <2> DEFINE so == f[k - 1]
  <2>1. k \in goes <=> Spoken(source.story[k]) /\ (sharedOnly => k \in source.shared)
    BY <1>1 DEF Travels
  <2>2. f[k] = Carry(source, sharedOnly, so, k)
    BY <1>2
  <2>3. CASE k \notin goes
    <3>1. f[k] = f[k - 1]
      BY <2>1, <2>2, <2>3 DEF Carry
    <3>2. Before(k) = Before(k - 1)
      BY <1>5, <2>3
    <3> HIDE DEF Before
    <3> QED BY <1>8, <3>1, <3>2
  <2>4. CASE k \in goes
    <3>1. f[k] = [story |-> Append(so.story, source.story[k]),
                  shared |-> so.shared \cup (IF k \in source.shared THEN {Place(so.story)} ELSE {})]
      BY <2>1, <2>2, <2>4 DEF Carry
    <3>2. so \in Tale /\ so.story \in Seq(Message) /\ Len(so.story) \in Nat /\ source.story[k] \in Message
      BY <1>1, <1>8 DEF Tale
    <3>3. Before(k) = Before(k - 1) \cup {k} /\ k \notin Before(k - 1)
          /\ Cardinality(Before(k)) = Len(so.story) + 1
      BY <1>5, <1>8, <2>4
    <3>4. PlaceOf(k, goes) = Len(so.story) + 1 /\ Place(so.story) = PlaceOf(k, goes)
      BY <1>4, <3>3 DEF Place
    <3>5. f[k] \in Tale
      <4>1. Append(so.story, source.story[k]) \in Seq(Message)
        BY <3>2
      <4>2. so.shared \in SUBSET Nat /\ Place(so.story) \in Nat
        BY <3>2, <3>4 DEF Tale
      <4> QED BY <3>1, <4>1, <4>2 DEF Tale
    <3>6. f[k].story = Append(so.story, source.story[k]) /\ Len(f[k].story) = Len(so.story) + 1
      BY <3>1, <3>2
    <3>7. \A i \in Before(k) : f[k].story[PlaceOf(i, goes)] = source.story[i]
      <4>1. \A i \in Before(k - 1) : PlaceOf(i, goes) \in 1..Len(so.story)
        <5>1. k - 1 \in 0..n /\ Cardinality(Before(k - 1)) = Len(so.story)
          BY <1>1, <1>8
        <5> HIDE DEF Before, goes, so, n
        <5> QED BY <1>6, <5>1
      <4>2. \A p \in 1..Len(so.story) : f[k].story[p] = so.story[p]
        BY <3>2, <3>6
      <4>3. f[k].story[Len(so.story) + 1] = source.story[k]
        BY <3>2, <3>6
      <4> HIDE DEF Before
      <4> QED BY <1>8, <3>3, <3>4, <4>1, <4>2, <4>3
    <3>8. f[k].shared = {PlaceOf(i, goes) : i \in Before(k) \cap source.shared}
      <4>1. f[k].shared = so.shared \cup (IF k \in source.shared THEN {PlaceOf(k, goes)} ELSE {})
        BY <3>1, <3>4
      <4>2. so.shared = {PlaceOf(i, goes) : i \in Before(k - 1) \cap source.shared}
        BY <1>8
      <4> HIDE DEF Before
      <4> QED BY <3>3, <4>1, <4>2
    <3> HIDE DEF Before
    <3> QED BY <3>3, <3>5, <3>6, <3>7, <3>8
  <2> QED BY <2>3, <2>4
<1>9. Agrees(n)
  <2> DEFINE Failing == {k \in Nat : k <= n /\ ~Agrees(k)}
  <2> HIDE DEF Agrees
  <2> SUFFICES ASSUME Failing # {} PROVE FALSE
    BY <1>1
  <2>1. PICK k \in Failing : \A y \in Failing : k <= y
    <3>1. Failing \in SUBSET Nat
      OBVIOUS
    <3> HIDE DEF Failing
    <3> QED BY <3>1, SmallestOf
  <2>2. k # 0
    BY <1>7
  <2>3. k \in 1..n /\ k - 1 \in Nat /\ k - 1 <= n /\ ~(k <= k - 1)
    BY <1>1, <2>2
  <2>4. k - 1 \notin Failing
    <3> HIDE DEF Failing
    <3> QED BY <2>1, <2>3
  <2> QED BY <1>8, <2>3, <2>4
<1>10. Before(n) = goes
  BY <1>1
<1> HIDE DEF Before
<1> QED BY <1>2, <1>9, <1>10 DEF Tells, Marks

(* A file's copies.  An import is under way, or done and not yet told, only *)
(* under the operation that memory and disk remember for its file.         *)
World == [from : Nat, tale : Tale, sheet : Sheets, rev : Nat, fight : Seq(Nat)]
Bundle == [kind : {"backup", "dossier"}, tale : Tale, of : Nat, actor : Sheets,
           sheet : Sheets, fight : BOOLEAN]
Backups == {k \in DOMAIN files : files[k].kind = "backup"}

BundlesTyped ==
  /\ worlds \in Seq(World) /\ files \in Seq(Bundle)
  /\ \A k \in DOMAIN files : files[k].of \in DOMAIN worlds
  /\ \A op \in DOMAIN receipts :
        receipts[op].digest \in DOMAIN files /\ receipts[op].world \in DOMAIN worlds
  /\ \A op \in DOMAIN prepared : prepared[op] \in Backups
  /\ \A r \in flights : r.file \in Backups

LaneStands ==
  /\ lane.for = "export" => /\ lane.kind \in {"backup", "dossier"}
                            /\ lane.world \in DOMAIN worlds /\ lane.actor \in Sheets
  /\ lane.for = "import" => lane.file \in DOMAIN pending /\ pending[lane.file] = lane.op

Pending(op, file) ==
  IF op \in DOMAIN receipts THEN receipts[op].digest = file /\ receipts[op].world \notin told
  ELSE \E r \in flights : r.op = op /\ r.file = file
RemembersIn(table, file, op) == file \in DOMAIN table /\ table[file] = op
OneOperation ==
  \A file \in DOMAIN files \ twice :
    /\ \A op : Pending(op, file) => RemembersIn(pending, file, op) /\ RemembersIn(onDisk, file, op)
    /\ \A op \in DOMAIN prepared : prepared[op] = file =>
          /\ \A o \in DOMAIN prepared : prepared[o] = file => o = op
          /\ file \in DOMAIN pending => pending[file] = op

CopiesHaveReceipts ==
  \A w \in DOMAIN worlds : worlds[w].from # 0 =>
    \E op \in DOMAIN receipts : receipts[op].digest = worlds[w].from /\ receipts[op].world = w

BundlesInv ==
  /\ BundlesTyped /\ LaneStands /\ OneOperation /\ CopiesHaveReceipts /\ BundlesAreFaithful

LEMMA BundlesInvInit == BundlesInit => BundlesInv
<1> SUFFICES ASSUME BundlesInit PROVE BundlesInv
  OBVIOUS
<1>1. PICK it \in Tales, sheet \in Sheets, fighting \in BOOLEAN :
        worlds = <<[from |-> 0, tale |-> it, sheet |-> sheet, rev |-> SourceRevision,
                    fight |-> IF fighting THEN <<1, SourceRevision>> ELSE <<>>]>>
  BY DEF BundlesInit
<1>2. it \in Tale /\ SourceRevision \in Nat
  BY BundlesAssumption DEF Tale, Message
<1>3. worlds \in Seq(World) /\ DOMAIN worlds = {1} /\ worlds[1].from = 0
  <2> DEFINE first == [from |-> 0, tale |-> it, sheet |-> sheet, rev |-> SourceRevision,
                       fight |-> IF fighting THEN <<1, SourceRevision>> ELSE <<>>]
  <2>1. first \in World
    BY <1>2 DEF World
  <2>2. first.from = 0 /\ worlds = <<first>>
    BY <1>1
  <2> HIDE DEF first
  <2> QED BY <2>1, <2>2
<1>4. /\ files = <<>> /\ DOMAIN files = {} /\ DOMAIN receipts = {} /\ DOMAIN prepared = {}
      /\ flights = {} /\ lane.for = "nothing"
  BY DEF BundlesInit, Nothing, LaneFree
<1> QED BY <1>3, <1>4 DEF BundlesInv, BundlesTyped, LaneStands, OneOperation, CopiesHaveReceipts,
         BundlesAreFaithful

(* A step that changes none of the records but the shell's own.            *)
LEMMA OnlyTheShell ==
  ASSUME BundlesInv, UNCHANGED <<worlds, files, receipts>>
  PROVE  /\ Backups' = Backups /\ CopiesHaveReceipts' /\ BundlesAreFaithful'
         /\ DOMAIN files' = DOMAIN files
<1>1. Backups' = Backups /\ CopiesHaveReceipts' /\ DOMAIN files' = DOMAIN files
  BY DEF BundlesInv, Backups, CopiesHaveReceipts
<1>2. \A k \in DOMAIN files : FileIsFaithful(files[k])' = FileIsFaithful(files[k])
  BY DEF FileIsFaithful
<1>3. \A w : CopyIsFaithful(w)' = CopyIsFaithful(w)
  BY DEF CopyIsFaithful
<1>4. BundlesAreFaithful'
  BY <1>2, <1>3 DEF BundlesInv, BundlesAreFaithful
<1> QED BY <1>1, <1>4

LEMMA BeginExportKeeps ==
  ASSUME BundlesInv, NEW w \in DOMAIN worlds, NEW kind \in {"backup", "dossier"},
         BeginExport(w, kind)
  PROVE  BundlesInv'
<1>1. UNCHANGED <<worlds, files, receipts, flights, prepared, pending, onDisk, told, twice>>
  BY DEF BeginExport
<1>2. lane' = [for |-> "export", kind |-> kind, world |-> w, actor |-> worlds[w].sheet]
      /\ worlds[w].sheet \in Sheets
  <2>1. worlds[w] \in World
    BY DEF BundlesInv, BundlesTyped
  <2> QED BY <2>1 DEF BeginExport, World
<1>3. LaneStands'
  BY <1>1, <1>2 DEF LaneStands
<1>4. Backups' = Backups /\ CopiesHaveReceipts' /\ BundlesAreFaithful'
  BY <1>1, OnlyTheShell
<1>5. BundlesTyped' /\ OneOperation'
  BY <1>1, <1>4 DEF BundlesInv, BundlesTyped, OneOperation, Pending, RemembersIn
<1> QED BY <1>3, <1>4, <1>5 DEF BundlesInv

(* What is captured is what travels of its world.                          *)
LEMMA CapturedIs ==
  ASSUME BundlesInv, lane.for = "export",
         lane.kind = "dossier" => worlds[lane.world].sheet = lane.actor
  PROVE  LET b == Captured(lane.world, lane.kind)
         IN  b \in Bundle /\ b.of = lane.world /\ FileIsFaithful(b)
<1> DEFINE w == lane.world
           kind == lane.kind
           it == PortableHistory(worlds[w].tale, kind = "dossier")
           carried == IF kind = "dossier" THEN [it EXCEPT !.shared = {}] ELSE it
           b == [kind |-> kind, tale |-> carried, of |-> w, actor |-> lane.actor,
                 sheet |-> worlds[w].sheet, fight |-> kind = "backup" /\ worlds[w].fight # <<>>]
<1>1. /\ w \in DOMAIN worlds /\ w \in Nat /\ worlds[w] \in World
      /\ kind \in {"backup", "dossier"} /\ lane.actor \in Sheets
  BY DEF BundlesInv, LaneStands, BundlesTyped
<1>2. worlds[w].tale \in Tale /\ worlds[w].sheet \in Sheets
  BY <1>1 DEF World
<1>3. /\ it \in Tale /\ Tells(it, worlds[w].tale, Travels(worlds[w].tale, kind = "dossier"))
      /\ Marks(it, worlds[w].tale, Travels(worlds[w].tale, kind = "dossier"))
  BY <1>2, HistoryIs
<1>4. carried \in Tale /\ carried.story = it.story /\ (kind # "dossier" => carried = it)
  BY <1>3 DEF Tale
<1>5. Captured(w, kind) = b
  BY DEF Captured
<1>6. b \in Bundle
  <2> HIDE DEF carried
  <2> QED BY <1>1, <1>2, <1>4 DEF Bundle
<1>7. FileIsFaithful(b)
  <2>1. /\ b.kind = kind /\ b.tale = carried /\ b.of = w /\ b.actor = lane.actor
        /\ b.sheet = worlds[w].sheet
    OBVIOUS
  <2>2. Tells(carried, worlds[w].tale, Travels(worlds[w].tale, kind = "dossier"))
    <3> HIDE DEF it, carried, w, kind
    <3> QED BY <1>3, <1>4 DEF Tells
  <2>3. kind = "backup" => Marks(carried, worlds[w].tale, Travels(worlds[w].tale, kind = "dossier"))
    <3> HIDE DEF it, carried, w, kind
    <3> QED BY <1>3, <1>4
  <2>4. kind # "backup" => worlds[w].sheet = lane.actor
    BY <1>1
  <2> HIDE DEF it, carried, w, kind, b
  <2> QED BY <2>1, <2>2, <2>3, <2>4 DEF FileIsFaithful
<1>8. b.of = w
  OBVIOUS
<1> HIDE DEF b
<1> QED BY <1>5, <1>6, <1>7, <1>8

LEMMA EndExportKeeps ==
  ASSUME BundlesInv, EndExport
  PROVE  BundlesInv'
<1>1. UNCHANGED <<worlds, receipts, flights, prepared, pending, onDisk, told, twice>>
      /\ lane.for = "export" /\ lane' = LaneFree
  BY DEF EndExport
<1>2. LaneStands'
  BY <1>1 DEF LaneStands, LaneFree
<1>3. CASE UNCHANGED files
  <2>1. Backups' = Backups /\ CopiesHaveReceipts' /\ BundlesAreFaithful'
    BY <1>1, <1>3, OnlyTheShell
  <2>2. BundlesTyped' /\ OneOperation'
    BY <1>1, <1>3, <2>1 DEF BundlesInv, BundlesTyped, OneOperation, Pending, RemembersIn
  <2> QED BY <1>2, <2>1, <2>2 DEF BundlesInv
<1>4. CASE /\ lane.kind = "dossier" => worlds[lane.world].sheet = lane.actor
           /\ files' = Append(files, Captured(lane.world, lane.kind))
  <2> DEFINE b == Captured(lane.world, lane.kind)
             n == Len(files)
  <2>1. b \in Bundle /\ b.of \in DOMAIN worlds /\ FileIsFaithful(b)
    BY <1>1, <1>4, CapturedIs DEF BundlesInv, LaneStands
  <2> HIDE DEF b
  <2>2. /\ files \in Seq(Bundle) /\ n \in Nat /\ DOMAIN files = 1..n
        /\ files' \in Seq(Bundle) /\ DOMAIN files' = 1..(n + 1)
        /\ files'[n + 1] = b /\ \A k \in DOMAIN files : k \in DOMAIN files' /\ files'[k] = files[k]
    BY <1>4, <2>1 DEF BundlesInv, BundlesTyped, b
  <2>3. \A k \in DOMAIN files' : k \in DOMAIN files \/ (k = n + 1 /\ k \notin DOMAIN files)
    BY <2>2
  <2> HIDE DEF n
  <2>4. \A k \in Backups : k \in Backups'
    BY <2>2 DEF Backups
  <2>5. BundlesTyped'
    BY <1>1, <2>1, <2>2, <2>3, <2>4 DEF BundlesInv, BundlesTyped
  <2>6. OneOperation'
    <3>1. \A op, k : Pending(op, k)' = Pending(op, k)
      BY <1>1 DEF Pending
    <3>2. \A op, k : Pending(op, k) => k \in DOMAIN files
      BY DEF Pending, BundlesInv, BundlesTyped, Backups
    <3>3. \A op \in DOMAIN prepared : prepared[op] \in DOMAIN files
      BY DEF BundlesInv, BundlesTyped, Backups
    <3> QED BY <1>1, <2>3, <3>1, <3>2, <3>3 DEF BundlesInv, OneOperation, RemembersIn
  <2>7. CopiesHaveReceipts'
    BY <1>1 DEF BundlesInv, CopiesHaveReceipts
  <2>8. BundlesAreFaithful'
    <3>1. \A x : FileIsFaithful(x)' = FileIsFaithful(x)
      BY <1>1 DEF FileIsFaithful
    <3>2. \A k \in DOMAIN files' : FileIsFaithful(files'[k])
      BY <2>1, <2>2, <2>3 DEF BundlesInv, BundlesAreFaithful
    <3>3. \A w \in DOMAIN worlds : worlds[w].from # 0 =>
             worlds[w].from \in DOMAIN files /\ CopyIsFaithful(w)
      BY DEF BundlesInv, BundlesTyped, BundlesAreFaithful, CopiesHaveReceipts
    <3>4. \A w \in DOMAIN worlds : worlds[w].from # 0 => CopyIsFaithful(w)'
      BY <1>1, <2>2, <3>3 DEF CopyIsFaithful
    <3>5. \A k \in DOMAIN files' : FileIsFaithful(files[k])'
      BY <1>1, <3>1, <3>2 DEF FileIsFaithful
    <3> QED BY <1>1, <3>4, <3>5 DEF BundlesAreFaithful
  <2> QED BY <1>2, <2>5, <2>6, <2>7, <2>8 DEF BundlesInv
<1> QED BY <1>3, <1>4 DEF EndExport

LEMMA PickKeeps ==
  ASSUME BundlesInv, NEW file \in DOMAIN files, Pick(file)
  PROVE  BundlesInv'
<1> DEFINE op == OperationFor(file)
<1>1. /\ UNCHANGED <<worlds, files, receipts, flights, pending, onDisk, lane, told>>
      /\ lane = LaneFree /\ file \in Backups
      /\ prepared' = Having(prepared, op, file)
      /\ twice' = IF \E o \in DOMAIN prepared : prepared[o] = file /\ o # op
                  THEN twice \cup {file} ELSE twice
  BY DEF Pick, Backups
<1>2. file \in DOMAIN pending => pending[file] = op
  BY DEF OperationFor
<1> HIDE DEF op
<1>3. /\ DOMAIN prepared' = DOMAIN prepared \cup {op} /\ prepared'[op] = file
      /\ \A o \in DOMAIN prepared : o # op => prepared'[o] = prepared[o]
  BY <1>1 DEF Having
<1>4. Backups' = Backups /\ CopiesHaveReceipts' /\ BundlesAreFaithful' /\ LaneStands'
  BY <1>1, OnlyTheShell DEF LaneStands, LaneFree
<1>5. BundlesTyped'
  BY <1>1, <1>3, <1>4 DEF BundlesInv, BundlesTyped
<1>6. OneOperation'
  <2>1. \A o, k : Pending(o, k)' = Pending(o, k)
    BY <1>1 DEF Pending
  <2>2. twice \subseteq twice'
    BY <1>1
  <2>3. file \notin twice' => \A o \in DOMAIN prepared : prepared[o] = file => o = op
    BY <1>1
  <2>4. \A k \in DOMAIN files \ twice' : \A o : Pending(o, k) =>
           RemembersIn(pending, k, o) /\ RemembersIn(onDisk, k, o)
    BY <2>2 DEF BundlesInv, OneOperation
  <2>5. ASSUME NEW k \in DOMAIN files \ twice', NEW o \in DOMAIN prepared', prepared'[o] = k
        PROVE  /\ \A p \in DOMAIN prepared' : prepared'[p] = k => p = o
               /\ k \in DOMAIN pending => pending[k] = o
    <3>1. CASE k = file
      <4>1. \A p \in DOMAIN prepared' : prepared'[p] = file => p = op
        BY <1>3, <2>3, <2>5, <3>1
      <4> QED BY <1>2, <2>5, <3>1, <4>1
    <3>2. CASE k # file
      <4>1. \A p \in DOMAIN prepared' : prepared'[p] = k => p \in DOMAIN prepared /\ prepared[p] = k
        BY <1>3, <3>2
      <4> QED BY <2>2, <2>5, <4>1 DEF BundlesInv, OneOperation
    <3> QED BY <3>1, <3>2
  <2> QED BY <1>1, <2>1, <2>4, <2>5 DEF OneOperation, RemembersIn
<1> QED BY <1>4, <1>5, <1>6 DEF BundlesInv

LEMMA ConfirmKeeps ==
  ASSUME BundlesInv, NEW op \in DOMAIN prepared, Confirm(op)
  PROVE  BundlesInv'
<1> DEFINE file == prepared[op]
<1>1. /\ UNCHANGED <<worlds, files, receipts, prepared, told, twice>>
      /\ lane = LaneFree /\ pending' = Having(pending, file, op)
      /\ \/ /\ onDisk' = pending' /\ flights' = flights \cup {[op |-> op, file |-> file]}
            /\ lane' = [for |-> "import", op |-> op, file |-> file]
         \/ UNCHANGED <<onDisk, flights, lane>>
  BY DEF Confirm
<1>2. file \in Backups
  BY DEF BundlesInv, BundlesTyped
<1>3. file \notin twice => /\ \A o \in DOMAIN prepared : prepared[o] = file => o = op
                           /\ \A o : Pending(o, file) => o = op
  BY <1>2 DEF BundlesInv, OneOperation, RemembersIn, Backups
<1>4. \A k \in DOMAIN files \ twice, o \in DOMAIN prepared : prepared[o] = k =>
        \A p \in DOMAIN prepared : prepared[p] = k => p = o
  BY DEF BundlesInv, OneOperation
<1> HIDE DEF file
<1>5. /\ DOMAIN pending' = DOMAIN pending \cup {file} /\ pending'[file] = op
      /\ \A k \in DOMAIN pending : k # file => pending'[k] = pending[k]
  BY <1>1 DEF Having
<1>6. Backups' = Backups /\ CopiesHaveReceipts' /\ BundlesAreFaithful'
  BY <1>1, OnlyTheShell
<1>7. LaneStands'
  BY <1>1, <1>5 DEF LaneStands, LaneFree
<1>8. \A r \in flights' : r \in flights \/ (r.op = op /\ r.file = file)
  BY <1>1
<1>9. BundlesTyped'
  BY <1>1, <1>2, <1>6, <1>8 DEF BundlesInv, BundlesTyped
<1>10. OneOperation'
  <2>1. \A o, k : Pending(o, k)' => Pending(o, k) \/ (o = op /\ k = file)
    BY <1>1, <1>8 DEF Pending
  <2>2. \A k \in DOMAIN files \ twice : \A o : Pending(o, k) =>
           RemembersIn(pending, k, o) /\ RemembersIn(onDisk, k, o)
    BY DEF BundlesInv, OneOperation
  <2>3. \A k \in DOMAIN files \ twice : \A o : Pending(o, k) => RemembersIn(pending', k, o)
    BY <1>3, <1>5, <2>2 DEF RemembersIn
  <2>4. RemembersIn(pending', file, op)
    BY <1>5 DEF RemembersIn
  <2>5. \A k \in DOMAIN files \ twice : \A o : Pending(o, k)' =>
           RemembersIn(pending', k, o) /\ RemembersIn(onDisk', k, o)
    <3>1. CASE onDisk' = pending'
      BY <2>1, <2>3, <2>4, <3>1
    <3>2. CASE UNCHANGED <<onDisk, flights, lane>>
      <4>1. \A o, k : Pending(o, k)' = Pending(o, k)
        BY <1>1, <3>2 DEF Pending
      <4> QED BY <2>2, <2>3, <3>2, <4>1
    <3> QED BY <1>1, <3>1, <3>2
  <2>6. \A k \in DOMAIN files \ twice, o \in DOMAIN prepared :
           prepared[o] = k /\ k \in DOMAIN pending' => pending'[k] = o
    BY <1>3, <1>5 DEF BundlesInv, OneOperation
  <2>7. \A k, o : RemembersIn(pending', k, o) = RemembersIn(pending, k, o)'
                  /\ RemembersIn(onDisk', k, o) = RemembersIn(onDisk, k, o)'
    BY DEF RemembersIn
  <2> QED BY <1>1, <1>4, <2>5, <2>6, <2>7 DEF OneOperation
<1> QED BY <1>6, <1>7, <1>9, <1>10 DEF BundlesInv

LEMMA ServeKeeps ==
  ASSUME BundlesInv, NEW r \in flights, ServeImport(r.op, r.file)
  PROVE  BundlesInv'
<1> DEFINE op == r.op
           file == r.file
<1>1. UNCHANGED <<files, prepared, pending, onDisk, lane, told, twice>> /\ flights' \subseteq flights
  BY DEF ServeImport
<1>2. file \in Backups
  BY DEF BundlesInv, BundlesTyped
<1>3. LaneStands' \/ ~UNCHANGED worlds
  BY <1>1 DEF BundlesInv, LaneStands
<1>4. CASE UNCHANGED <<worlds, receipts>>
  <2>1. Backups' = Backups /\ CopiesHaveReceipts' /\ BundlesAreFaithful'
    BY <1>1, <1>4, OnlyTheShell
  <2>2. BundlesTyped'
    BY <1>1, <1>4, <2>1 DEF BundlesInv, BundlesTyped
  <2>3. \A o, k : Pending(o, k)' => Pending(o, k)
    BY <1>1, <1>4 DEF Pending
  <2>4. OneOperation'
    BY <1>1, <2>3 DEF BundlesInv, OneOperation, RemembersIn
  <2> QED BY <1>3, <1>4, <2>1, <2>2, <2>4 DEF BundlesInv
<1>5. CASE /\ op \notin DOMAIN receipts
           /\ worlds' = Append(worlds, Imported(file))
           /\ receipts' = Having(receipts, op, [digest |-> file, world |-> Len(worlds) + 1])
  <2> DEFINE n == Len(worlds)
             it == Imported(file)
  <2>0. n \in Nat /\ DOMAIN worlds = 1..n /\ worlds \in Seq(World)
    BY DEF BundlesInv, BundlesTyped
  <2>1. files[file] \in Bundle /\ file \in DOMAIN files /\ file \in Nat \ {0}
    BY <1>2 DEF BundlesInv, BundlesTyped, Backups
  <2>2. /\ it.from = file /\ it.tale = files[file].tale /\ it.rev = FirstRevision
        /\ it.fight = IF files[file].fight THEN <<n + 1, FirstRevision>> ELSE <<>>
    BY DEF Imported, FirstRevision
  <2>3. it \in World
    <3>1. files[file].tale \in Tale /\ files[file].sheet \in Sheets
      BY <2>1 DEF Bundle
    <3>2. <<n + 1, 0 + 1>> \in Seq(Nat) /\ <<>> \in Seq(Nat) /\ FirstRevision \in Nat
      BY <2>0 DEF FirstRevision
    <3> QED BY <2>1, <3>1, <3>2 DEF Imported, World
  <2> HIDE DEF it
  <2>4. /\ worlds' \in Seq(World) /\ DOMAIN worlds' = 1..(n + 1) /\ worlds'[n + 1] = it
        /\ \A w \in DOMAIN worlds : w \in DOMAIN worlds' /\ worlds'[w] = worlds[w]
    BY <1>5, <2>0, <2>3 DEF it
  <2>5. \A w \in DOMAIN worlds' : w \in DOMAIN worlds \/ w = n + 1
    BY <2>0, <2>4
  <2>6. n + 1 \in DOMAIN worlds'
    BY <2>0, <2>4
  <2>7. /\ DOMAIN receipts' = DOMAIN receipts \cup {op}
        /\ receipts'[op] = [digest |-> file, world |-> n + 1]
        /\ \A o \in DOMAIN receipts : o # op => receipts'[o] = receipts[o]
    BY <1>5 DEF Having
  <2>8. /\ receipts'[op].digest = file /\ receipts'[op].world = n + 1
        /\ \A o \in DOMAIN receipts : receipts'[o] = receipts[o]
    BY <1>5, <2>7
  <2> HIDE DEF n
  <2>9. Backups' = Backups
    BY <1>1 DEF Backups
  <2>10. BundlesTyped'
    BY <1>1, <2>1, <2>4, <2>6, <2>7, <2>8, <2>9 DEF BundlesInv, BundlesTyped
  <2>11. LaneStands'
    BY <1>1, <2>4 DEF BundlesInv, LaneStands
  <2>12. OneOperation'
    <3>1. \A o, k : Pending(o, k)' => Pending(o, k)
      <4> TAKE o, k
      <4>1. CASE o = op
        BY <1>1, <1>5, <2>7, <2>8, <4>1 DEF Pending
      <4>2. CASE o # op
        BY <1>1, <2>7, <2>8, <4>2 DEF Pending
      <4> QED BY <4>1, <4>2
    <3> QED BY <1>1, <3>1 DEF BundlesInv, OneOperation, RemembersIn
  <2>13. CopiesHaveReceipts'
    <3>1. \A w \in DOMAIN worlds : worlds'[w].from # 0 =>
             \E o \in DOMAIN receipts' :
                receipts'[o].digest = worlds'[w].from /\ receipts'[o].world = w
      BY <2>4, <2>7, <2>8 DEF BundlesInv, CopiesHaveReceipts
    <3>2. worlds'[n + 1].from = file /\ op \in DOMAIN receipts'
      BY <2>2, <2>4, <2>7
    <3> QED BY <2>5, <2>8, <3>1, <3>2 DEF CopiesHaveReceipts
  <2>14. BundlesAreFaithful'
    <3>1. \A k \in DOMAIN files : FileIsFaithful(files[k])'
      <4> TAKE k \in DOMAIN files
      <4>1. files[k].of \in DOMAIN worlds /\ FileIsFaithful(files[k])
        BY DEF BundlesInv, BundlesTyped, BundlesAreFaithful
      <4>2. worlds'[files[k].of] = worlds[files[k].of]
        BY <2>4, <4>1
      <4> QED BY <1>1, <4>1, <4>2 DEF FileIsFaithful
    <3>2. \A w \in DOMAIN worlds : worlds[w].from # 0 => CopyIsFaithful(w)'
      BY <1>1, <2>4 DEF BundlesInv, BundlesAreFaithful, CopyIsFaithful
    <3>3. files[file].kind = "backup"
      BY <1>2 DEF Backups
    <3>4. \A w : w = n + 1 => CopyIsFaithful(w)'
      BY <1>1, <2>2, <2>4, <3>3 DEF CopyIsFaithful
    <3> QED BY <1>1, <2>4, <2>5, <3>1, <3>2, <3>4 DEF BundlesAreFaithful
  <2> QED BY <2>10, <2>11, <2>12, <2>13, <2>14 DEF BundlesInv
<1> QED BY <1>4, <1>5 DEF ServeImport

LEMMA ConfirmEndsKeeps ==
  ASSUME BundlesInv, ConfirmEnds
  PROVE  BundlesInv'
<1>1. /\ UNCHANGED <<worlds, files, receipts, flights, twice>>
      /\ lane.for = "import" /\ lane' = LaneFree
  BY DEF ConfirmEnds
<1>2. LaneStands'
  BY <1>1 DEF LaneStands, LaneFree
<1>3. Backups' = Backups /\ CopiesHaveReceipts' /\ BundlesAreFaithful'
  BY <1>1, OnlyTheShell
<1>4. CASE UNCHANGED <<prepared, pending, onDisk, told>>
  <2>1. BundlesTyped' /\ OneOperation'
    BY <1>1, <1>3, <1>4 DEF BundlesInv, BundlesTyped, OneOperation, Pending, RemembersIn
  <2> QED BY <1>2, <1>3, <2>1 DEF BundlesInv
<1>5. CASE /\ lane.op \in DOMAIN receipts /\ receipts[lane.op].digest = lane.file
           /\ pending' = Without(pending, lane.file)
           /\ told' = told \cup {receipts[lane.op].world}
           /\ \/ onDisk' = pending' /\ prepared' = Without(prepared, lane.op)
              \/ UNCHANGED <<onDisk, prepared>>
  <2>1. lane.file \in DOMAIN pending /\ pending[lane.file] = lane.op
    BY <1>1 DEF BundlesInv, LaneStands
  <2>2. /\ DOMAIN pending' = DOMAIN pending \ {lane.file}
        /\ \A k \in DOMAIN pending : k # lane.file => pending'[k] = pending[k]
    BY <1>5 DEF Without, Restrict
  <2>3. /\ DOMAIN prepared' \subseteq DOMAIN prepared
        /\ \A o \in DOMAIN prepared' : prepared'[o] = prepared[o]
    BY <1>5 DEF Without, Restrict
  <2>4. BundlesTyped'
    BY <1>1, <1>3, <2>3 DEF BundlesInv, BundlesTyped
  <2>5. \A o, k : Pending(o, k)' => Pending(o, k)
    BY <1>1, <1>5 DEF Pending
  <2>6. \A o, k : o = lane.op /\ k = lane.file => ~Pending(o, k)'
    BY <1>1, <1>5 DEF Pending
  <2>7. \A k \in DOMAIN files \ twice : \A o : Pending(o, k) =>
           RemembersIn(pending, k, o) /\ RemembersIn(onDisk, k, o)
    BY DEF BundlesInv, OneOperation
  <2>8. \A k \in DOMAIN files \ twice : \A o : Pending(o, k)' => k # lane.file
    BY <2>1, <2>5, <2>6, <2>7 DEF RemembersIn
  <2>9. \A k \in DOMAIN files \ twice : \A o : Pending(o, k)' =>
           RemembersIn(pending', k, o) /\ RemembersIn(onDisk', k, o)
    BY <1>5, <2>2, <2>5, <2>7, <2>8 DEF RemembersIn
  <2>10. \A k \in DOMAIN files \ twice, o \in DOMAIN prepared' : prepared'[o] = k =>
           /\ \A p \in DOMAIN prepared' : prepared'[p] = k => p = o
           /\ k \in DOMAIN pending' => pending'[k] = o
    BY <2>2, <2>3 DEF BundlesInv, OneOperation
  <2>11. \A k, o : RemembersIn(pending', k, o) = RemembersIn(pending, k, o)'
                   /\ RemembersIn(onDisk', k, o) = RemembersIn(onDisk, k, o)'
    BY DEF RemembersIn
  <2>12. OneOperation'
    BY <1>1, <2>9, <2>10, <2>11 DEF OneOperation
  <2> QED BY <1>2, <1>3, <2>4, <2>12 DEF BundlesInv
<1> QED BY <1>4, <1>5 DEF ConfirmEnds

LEMMA CancelKeeps ==
  ASSUME BundlesInv, NEW op \in DOMAIN prepared, CancelPreview(op)
  PROVE  BundlesInv'
<1>1. /\ UNCHANGED <<worlds, files, receipts, flights, pending, onDisk, lane, told, twice>>
      /\ prepared' = Without(prepared, op)
  BY DEF CancelPreview
<1>2. /\ DOMAIN prepared' \subseteq DOMAIN prepared
      /\ \A o \in DOMAIN prepared' : prepared'[o] = prepared[o]
  BY <1>1 DEF Without, Restrict
<1>3. Backups' = Backups /\ CopiesHaveReceipts' /\ BundlesAreFaithful' /\ LaneStands'
  BY <1>1, OnlyTheShell DEF BundlesInv, LaneStands
<1>4. BundlesTyped'
  BY <1>1, <1>2, <1>3 DEF BundlesInv, BundlesTyped
<1>5. OneOperation'
  BY <1>1, <1>2 DEF BundlesInv, OneOperation, Pending, RemembersIn
<1> QED BY <1>3, <1>4, <1>5 DEF BundlesInv

LEMMA QuitKeeps ==
  ASSUME BundlesInv, Quit
  PROVE  BundlesInv'
<1>1. /\ UNCHANGED <<worlds, files, receipts, onDisk, told, twice>>
      /\ lane' = LaneFree /\ DOMAIN prepared' = {} /\ pending' = onDisk /\ flights' = {}
  BY DEF Quit, Nothing
<1>2. Backups' = Backups /\ CopiesHaveReceipts' /\ BundlesAreFaithful' /\ LaneStands'
  BY <1>1, OnlyTheShell DEF LaneStands, LaneFree
<1>3. BundlesTyped'
  BY <1>1, <1>2 DEF BundlesInv, BundlesTyped
<1>4. \A o, k : Pending(o, k)' => Pending(o, k)
  BY <1>1 DEF Pending
<1>5. OneOperation'
  BY <1>1, <1>4 DEF BundlesInv, OneOperation, RemembersIn
<1> QED BY <1>2, <1>3, <1>5 DEF BundlesInv

LEMMA NewHeroKeeps ==
  ASSUME BundlesInv, NEW w \in DOMAIN worlds, NEW sheet \in Sheets, NewHero(w, sheet)
  PROVE  BundlesInv'
<1>1. /\ UNCHANGED <<files, receipts, flights, prepared, pending, onDisk, lane, told, twice>>
      /\ worlds' = [worlds EXCEPT ![w].sheet = sheet]
  BY DEF NewHero
<1>2. /\ worlds' \in Seq(World) /\ DOMAIN worlds' = DOMAIN worlds
      /\ \A v \in DOMAIN worlds : /\ worlds'[v].from = worlds[v].from
                                  /\ worlds'[v].tale = worlds[v].tale
                                  /\ worlds'[v].rev = worlds[v].rev
                                  /\ worlds'[v].fight = worlds[v].fight
  <2>1. worlds \in Seq(World)
    BY DEF BundlesInv, BundlesTyped
  <2>2. worlds[w] \in World
    BY <2>1
  <2> DEFINE new == [worlds[w] EXCEPT !.sheet = sheet]
  <2>3. /\ new.from = worlds[w].from /\ new.tale = worlds[w].tale /\ new.rev = worlds[w].rev
        /\ new.fight = worlds[w].fight /\ new \in World
    BY <2>2 DEF World
  <2>4. worlds' = [worlds EXCEPT ![w] = new]
    BY <1>1
  <2> HIDE DEF new
  <2> QED BY <2>1, <2>3, <2>4
<1>3. Backups' = Backups /\ LaneStands' /\ BundlesTyped' /\ OneOperation' /\ CopiesHaveReceipts'
  BY <1>1, <1>2 DEF BundlesInv, Backups, LaneStands, BundlesTyped, OneOperation, Pending,
     RemembersIn, CopiesHaveReceipts
<1>4. \A k \in DOMAIN files : FileIsFaithful(files[k])'
  <2> TAKE k \in DOMAIN files
  <2>1. files[k].of \in DOMAIN worlds /\ FileIsFaithful(files[k])
    BY DEF BundlesInv, BundlesTyped, BundlesAreFaithful
  <2>2. worlds'[files[k].of].tale = worlds[files[k].of].tale
    BY <1>2, <2>1
  <2> QED BY <1>1, <2>1, <2>2 DEF FileIsFaithful
<1>5. \A v \in DOMAIN worlds : worlds[v].from # 0 => CopyIsFaithful(v)'
  BY <1>1, <1>2 DEF BundlesInv, BundlesAreFaithful, CopyIsFaithful
<1> QED BY <1>1, <1>2, <1>3, <1>4, <1>5 DEF BundlesInv, BundlesAreFaithful

LEMMA BundlesInvStep ==
  ASSUME BundlesInv, [BundlesNext]_bundleVars
  PROVE  BundlesInv'
<1>1. ASSUME NEW w \in DOMAIN worlds, NEW kind \in {"backup", "dossier"}, BeginExport(w, kind)
      PROVE  BundlesInv'
  BY <1>1, BeginExportKeeps
<1>2. ASSUME NEW file \in DOMAIN files, Pick(file) PROVE BundlesInv'
  BY <1>2, PickKeeps
<1>3. ASSUME NEW op \in DOMAIN prepared, Confirm(op) \/ CancelPreview(op) PROVE BundlesInv'
  BY <1>3, ConfirmKeeps, CancelKeeps
<1>4. ASSUME NEW r \in flights, ServeImport(r.op, r.file) PROVE BundlesInv'
  BY <1>4, ServeKeeps
<1>5. ASSUME NEW w \in DOMAIN worlds, NEW sheet \in Sheets, NewHero(w, sheet) PROVE BundlesInv'
  BY <1>5, NewHeroKeeps
<1>6. CASE EndExport \/ ConfirmEnds \/ Quit
  BY <1>6, EndExportKeeps, ConfirmEndsKeeps, QuitKeeps
<1>7. CASE UNCHANGED bundleVars
  <2>1. UNCHANGED <<worlds, files, receipts, flights, prepared, pending, onDisk, lane, told, twice>>
    BY <1>7 DEF bundleVars
  <2>2. Backups' = Backups /\ CopiesHaveReceipts' /\ BundlesAreFaithful'
    BY <2>1, OnlyTheShell
  <2> QED BY <2>1, <2>2 DEF BundlesInv, BundlesTyped, LaneStands, OneOperation, Pending, RemembersIn
<1> QED BY <1>1, <1>2, <1>3, <1>4, <1>5, <1>6, <1>7 DEF BundlesNext

(* A story moves to another machine once, as it was told: for any stories, *)
(* any number of files, attempts and campaigns, and whatever answer is     *)
(* lost, whichever write fails and whenever the application is closed      *)
(* (portable_history, desktop_bundle_pick_import, import_new).             *)
THEOREM StoriesMoveOnce == BundlesSpec => []StoryMovesOnce
<1>1. BundlesInv => StoryMovesOnce
  <2> SUFFICES ASSUME BundlesInv, NEW file \in DOMAIN files \ twice
               PROVE  Cardinality(Copies(file) \ told) <= 1
    BY DEF BundlesInv, StoryMovesOnce, ImportedOnce
  <2> DEFINE here == Copies(file) \ told
  <2>1. file # 0
    BY DEF BundlesInv, BundlesTyped
  <2>2. ASSUME NEW v \in here, NEW w \in here PROVE v = w
    <3>1. PICK o \in DOMAIN receipts : receipts[o].digest = file /\ receipts[o].world = v
      BY <2>1 DEF BundlesInv, CopiesHaveReceipts, Copies
    <3>2. PICK p \in DOMAIN receipts : receipts[p].digest = file /\ receipts[p].world = w
      BY <2>1 DEF BundlesInv, CopiesHaveReceipts, Copies
    <3>3. Pending(o, file) /\ Pending(p, file)
      BY <3>1, <3>2 DEF Pending
    <3>4. pending[file] = o /\ pending[file] = p
      BY <3>3 DEF BundlesInv, OneOperation, RemembersIn
    <3> QED BY <3>1, <3>2, <3>4
  <2> HIDE DEF here
  <2>3. here = {} \/ \E w : here = {w}
    BY <2>2
  <2>4. Cardinality({}) = 0 /\ \A w : Cardinality({w}) = 1
    BY FS_EmptySet, FS_Singleton
  <2>5. Cardinality(here) = 0 \/ Cardinality(here) = 1
    BY <2>3, <2>4
  <2> QED BY <2>5 DEF here
<1> QED BY <1>1, BundlesInvInit, BundlesInvStep, PTL DEF BundlesSpec

-----------------------------------------------------------------------------
(* CommandLedger.                                                          *)
Condition == [on : Nat, that : {"always", "succeeded", "failed", "refused", "because"},
              code : Codes \cup {0}]
Command == [goal : Goals, when : Condition]
Rolls == {"none", "success", "failure"}
Deeds == {"none", "performed"} \cup Codes
Bound == [terminal : BOOLEAN, outcome : Rolls \cup Deeds]

LedgerTyped ==
  /\ manifest \in Seq(Command) /\ ValidManifest(manifest)
  /\ bindings \in Seq(Seq(Bound)) /\ Len(bindings) = Len(manifest)
  /\ questions \in Seq([about : DOMAIN manifest, answered : BOOLEAN]) /\ narrated \in BOOLEAN

(* What is decided on is decided: a check by its roll, a deed by its end.  *)
OutcomesFit ==
  \A i \in DOMAIN manifest : \A k \in DOMAIN bindings[i] :
     bindings[i][k].outcome \in (IF manifest[i].goal = "check" THEN Rolls ELSE Deeds)

(* progress, one command after the other.                                  *)
Active(i, st) ==
  IF manifest[i].when = Always THEN "yes"
  ELSE IF st[manifest[i].when.on] = "not triggered" THEN "no"
  ELSE TriggeredBy(manifest[i].when)
StatusOf(i, st) ==
  IF \E j \in 1..(i - 1) : st[j] \notin Dealt THEN "waiting for previous"
  ELSE CASE Active(i, st) = "unknown" -> "waiting for condition"
         [] Active(i, st) = "no" -> "not triggered"
         [] OTHER -> OwnProgress(i)
Statuses(st, n) == st = [i \in 1..n |-> StatusOf(i, st)]

(* A condition is on an earlier command; on a roll only that of a check.   *)
LEMMA ConditionsAre ==
  ASSUME LedgerTyped, NEW i \in DOMAIN manifest
  PROVE  LET when == manifest[i].when
         IN  \/ when = Always
             \/ /\ when # Always /\ when.on \in 1..(i - 1) /\ when.on \in DOMAIN manifest
                /\ \/ when.that \in {"succeeded", "failed"} /\ manifest[when.on].goal = "check"
                   \/ when.that = "refused"
                   \/ when.that = "because" /\ when.code \in Codes
<1>1. i \in 1..Len(manifest) /\ DOMAIN manifest = 1..Len(manifest) /\ Len(manifest) \in Nat
  BY DEF LedgerTyped
<1>2. manifest[i].when \in Conditions(manifest, i)
  BY DEF LedgerTyped, ValidManifest
<1>3. 1..(i - 1) \subseteq DOMAIN manifest
  BY <1>1
<1> QED BY <1>2, <1>3 DEF Conditions, Always

LEMMA StatusesExist ==
  ASSUME LedgerTyped, NEW n \in Nat, n <= Len(manifest)
  PROVE  \E st : Statuses(st, n)
<1> DEFINE Failing == {k \in Nat : k <= Len(manifest) /\ ~\E st : Statuses(st, k)}
<1> SUFFICES ASSUME Failing # {} PROVE FALSE
  OBVIOUS
<1>1. PICK k \in Failing : \A y \in Failing : k <= y
  <2>1. Failing \in SUBSET Nat
    OBVIOUS
  <2> HIDE DEF Failing
  <2> QED BY <2>1, SmallestOf
<1>0. Len(manifest) \in Nat /\ DOMAIN manifest = 1..Len(manifest)
  BY DEF LedgerTyped
<1>2. k # 0
  <2> DEFINE st == [i \in 1..0 |-> "none"]
  <2>1. st = [i \in 1..0 |-> StatusOf(i, st)]
    <3>1. 1..0 = {}
      OBVIOUS
    <3> QED BY <3>1
  <2>2. Statuses(st, 0)
    BY <2>1 DEF Statuses
  <2> QED BY <2>2
<1>3. k - 1 \in Nat /\ k - 1 <= Len(manifest) /\ ~(k <= k - 1) /\ k \in 1..k /\ k \in DOMAIN manifest
  BY <1>0, <1>1, <1>2
<1>4. PICK f : Statuses(f, k - 1)
  <2>1. k - 1 \notin Failing
    <3> HIDE DEF Failing
    <3> QED BY <1>1, <1>3
  <2> QED BY <1>3, <2>1
<1> DEFINE g == [i \in 1..k |-> IF i = k THEN StatusOf(k, f) ELSE f[i]]
<1>5. \A i \in 1..k : \A j \in 1..(i - 1) : g[j] = f[j]
  BY <1>3
<1>6. \A i \in 1..k : StatusOf(i, g) = StatusOf(i, f)
  <2> HIDE DEF g
  <2> TAKE i \in 1..k
  <2>1. i \in DOMAIN manifest
    BY <1>0, <1>1
  <2>2. Active(i, g) = Active(i, f)
    BY <1>5, <2>1, ConditionsAre DEF Active
  <2>3. (\E j \in 1..(i - 1) : g[j] \notin Dealt) <=> (\E j \in 1..(i - 1) : f[j] \notin Dealt)
    BY <1>5
  <2> QED BY <2>2, <2>3 DEF StatusOf
<1>7. \A i \in 1..k : g[i] = StatusOf(i, g)
  <2>1. g[k] = StatusOf(k, f)
    BY <1>3
  <2>2. \A i \in 1..k : i # k => i \in 1..(k - 1) /\ g[i] = f[i]
    BY <1>3
  <2>3. \A i \in 1..(k - 1) : f[i] = StatusOf(i, f)
    BY <1>4 DEF Statuses
  <2> HIDE DEF g
  <2> QED BY <1>6, <2>1, <2>2, <2>3
<1>8. Statuses(g, k)
  <2>1. g = [i \in 1..k |-> g[i]]
    OBVIOUS
  <2> HIDE DEF g
  <2> QED BY <2>1, <1>7, Zenon DEF Statuses
<1> QED BY <1>1, <1>8

LEMMA ProgressIs ==
  LedgerTyped => \A i \in DOMAIN manifest : Progress[i] = StatusOf(i, Progress)
<1> SUFFICES ASSUME LedgerTyped
             PROVE  \A i \in DOMAIN manifest : Progress[i] = StatusOf(i, Progress)
  OBVIOUS
<1> DEFINE st == CHOOSE f : Statuses(f, Len(manifest))
<1>1. DOMAIN manifest = 1..Len(manifest) /\ Len(manifest) \in Nat
  BY DEF LedgerTyped
<1>2. Statuses(st, Len(manifest))
  BY <1>1, StatusesExist
<1>3. Progress = CHOOSE f : f = [i \in DOMAIN manifest |-> StatusOf(i, f)]
  BY DEF Progress, StatusOf, Active
<1>4. Progress = st
  BY <1>1, <1>3 DEF Statuses
<1> HIDE DEF st
<1> QED BY <1>1, <1>2, <1>4 DEF Statuses

LEMMA ProgressIsNext ==
  LedgerTyped' => (\A i \in DOMAIN manifest : Progress[i] = StatusOf(i, Progress))'
BY ProgressIs, PTL

LedgerInv ==
  /\ LedgerTyped /\ OutcomesFit /\ Consistent /\ Orderly /\ RunsAsMeant
  /\ manifest = <<>> => questions = <<>> /\ narrated = FALSE

LEMMA LedgerFacts ==
  LedgerTyped => /\ Len(manifest) \in Nat /\ DOMAIN manifest = 1..Len(manifest)
                 /\ DOMAIN bindings = DOMAIN manifest
                 /\ \A i \in DOMAIN manifest :
                       /\ manifest[i] \in Command /\ bindings[i] \in Seq(Bound)
                       /\ DOMAIN bindings[i] = 1..Len(bindings[i]) /\ Len(bindings[i]) \in Nat
                       /\ \A k \in DOMAIN bindings[i] : bindings[i][k] \in Bound
                       /\ bindings[i] # <<>> => /\ Len(bindings[i]) \in DOMAIN bindings[i]
                                                /\ Last(bindings[i]) = bindings[i][Len(bindings[i])]
<1> SUFFICES ASSUME LedgerTyped PROVE LedgerFacts!2
  OBVIOUS
<1>1. /\ Len(manifest) \in Nat /\ DOMAIN manifest = 1..Len(manifest)
      /\ DOMAIN bindings = DOMAIN manifest
  BY DEF LedgerTyped
<1>2. \A i \in DOMAIN manifest : manifest[i] \in Command /\ bindings[i] \in Seq(Bound)
  BY <1>1 DEF LedgerTyped
<1>3. \A s \in Seq(Bound) : /\ DOMAIN s = 1..Len(s) /\ Len(s) \in Nat
                            /\ \A k \in DOMAIN s : s[k] \in Bound
                            /\ s # <<>> => Len(s) \in DOMAIN s /\ Last(s) = s[Len(s)]
  BY DEF Last
<1> QED BY <1>1, <1>2, <1>3

(* Only the last call of a command decides on it.                          *)
LEMMA LastDecides ==
  ASSUME LedgerTyped, Consistent, NEW i \in DOMAIN manifest
  PROVE  \A k \in Deciding(i) : /\ k = Len(bindings[i]) /\ Happened(i)
                                /\ bindings[i][k] = Last(bindings[i])
                                /\ Answered(bindings[i][k])
<1> TAKE k \in Deciding(i)
<1>1. k \in DOMAIN bindings[i] /\ (bindings[i][k].terminal \/ IsRefusal(bindings[i][k]))
      /\ Answered(bindings[i][k])
  BY DEF Deciding
<1>2. ~(k < Len(bindings[i]))
  BY <1>1 DEF Consistent
<1>3. DOMAIN bindings[i] = 1..Len(bindings[i]) /\ Len(bindings[i]) \in Nat
  BY LedgerFacts
<1>4. k = Len(bindings[i]) /\ bindings[i] # <<>>
  BY <1>1, <1>2, <1>3
<1> QED BY <1>1, <1>4, LedgerFacts DEF Happened

(* What the status of a command says.                                      *)
Owned == {"finished", "prepared", "needs resolution", "ready"}

LEMMA StatusIs ==
  LedgerTyped => \A i \in DOMAIN manifest :
    /\ Progress[i] \in Owned \cup {"waiting for previous", "waiting for condition", "not triggered"}
    /\ Progress[i] # "waiting for previous" <=> \A j \in 1..(i - 1) : Progress[j] \in Dealt
    /\ Progress[i] = "waiting for condition" => Active(i, Progress) = "unknown"
    /\ Progress[i] = "not triggered" => Active(i, Progress) = "no"
    /\ Progress[i] \in Owned =>
         Progress[i] = OwnProgress(i) /\ Active(i, Progress) \notin {"unknown", "no"}
    /\ Progress[i] # "waiting for previous" /\ Active(i, Progress) = "yes" =>
         Progress[i] = OwnProgress(i)
<1> SUFFICES ASSUME LedgerTyped, NEW i \in DOMAIN manifest PROVE StatusIs!2!(i)
  OBVIOUS
<1>1. Progress[i] = StatusOf(i, Progress)
  BY ProgressIs
<1>2. OwnProgress(i) \in Owned
  BY DEF OwnProgress, Owned
<1> HIDE DEF Progress
<1> QED BY <1>1, <1>2 DEF StatusOf, Dealt, Owned

LEMMA ActiveIs ==
  ASSUME LedgerTyped, NEW i \in DOMAIN manifest
  PROVE  Active(i, Progress) \in {"yes", "no", "unknown"}
<1>1. TriggeredBy(manifest[i].when) \in {"yes", "no", "unknown"} \/ manifest[i].when = Always
  BY ConditionsAre DEF TriggeredBy
<1> QED BY <1>1 DEF Active

(* A command that is over: its last call was the end of it.                *)
LEMMA FinishedIs ==
  ASSUME LedgerTyped, Consistent, NEW i \in DOMAIN manifest, OwnProgress(i) = "finished"
  PROVE  /\ Happened(i) /\ Answered(Last(bindings[i]))
         /\ Last(bindings[i]).terminal \/ IsRefusal(Last(bindings[i]))
         /\ Deciding(i) # {}
<1>1. DOMAIN bindings[i] = 1..Len(bindings[i]) /\ Len(bindings[i]) \in Nat
  BY LedgerFacts
<1>2. CASE \E k \in DOMAIN bindings[i] : IsRefusal(bindings[i][k])
  <2>1. PICK k \in DOMAIN bindings[i] : IsRefusal(bindings[i][k])
    BY <1>2
  <2>2. Answered(bindings[i][k])
    BY <2>1, LedgerAssumption DEF IsRefusal, Answered
  <2>3. k \in Deciding(i)
    BY <2>1, <2>2 DEF Deciding
  <2> QED BY <2>1, <2>2, <2>3, LastDecides
<1>3. CASE ~\E k \in DOMAIN bindings[i] : IsRefusal(bindings[i][k])
  <2>1. /\ \A k \in DOMAIN bindings[i] : Answered(bindings[i][k])
        /\ Len(bindings[i]) > 0 /\ bindings[i][Len(bindings[i])].terminal
    BY <1>3 DEF OwnProgress
  <2>2. Len(bindings[i]) \in Deciding(i)
    BY <1>1, <2>1 DEF Deciding
  <2> QED BY <2>1, <2>2, LastDecides
<1> QED BY <1>2, <1>3

(* What a deciding call says of a condition.                               *)
LEMMA TriggerIs ==
  ASSUME LedgerTyped, OutcomesFit, Consistent, NEW i \in DOMAIN manifest,
         manifest[i].when # Always
  PROVE  LET when == manifest[i].when
             t == TriggeredBy(when)
         IN  /\ Deciding(when.on) # {} => t # "unknown"
             /\ t = "yes" => Meant(i)
             /\ t = "no" => ~Meant(i)
<1> DEFINE when == manifest[i].when
           on == manifest[i].when.on
           end == Last(bindings[on])
<1>1. /\ on \in DOMAIN manifest
      /\ \/ when.that \in {"succeeded", "failed"} /\ manifest[on].goal = "check"
         \/ when.that = "refused"
         \/ when.that = "because" /\ when.code \in Codes
  BY ConditionsAre
<1>2. CASE Deciding(on) = {}
  <2>1. TriggeredBy(when) = "unknown"
    BY <1>2 DEF TriggeredBy
  <2> QED BY <1>2, <2>1
<1>3. CASE Deciding(on) # {}
  <2>1. PICK k \in Deciding(on) : k = CHOOSE x \in Deciding(on) : TRUE
    BY <1>3
  <2>2. bindings[on][k] = end /\ Happened(on) /\ Answered(end) /\ k \in DOMAIN bindings[on]
    BY <1>1, <2>1, LastDecides DEF Deciding
  <2>3. when.that \in {"succeeded", "failed"} => Outcome(end) \in {"success", "failure"}
    <3>1. manifest[on].goal = "check" => Outcome(end) \in Rolls
      BY <1>1, <2>2 DEF OutcomesFit, Outcome
    <3> QED BY <1>1, <2>2, <3>1 DEF Rolls, Answered
  <2>4. bindings[on][CHOOSE x \in Deciding(on) : TRUE] = end
    BY <2>1, <2>2
  <2> DEFINE says(b) == IF b THEN "yes" ELSE "no"
  <2>5. TriggeredBy(when) =
          CASE when.that = "refused" -> says(IsRefusal(end))
            [] when.that = "because" -> says(Outcome(end) = when.code)
            [] when.that = "succeeded" /\ Outcome(end) \in {"success", "failure"} ->
                  says(Outcome(end) = "success")
            [] when.that = "failed" /\ Outcome(end) \in {"success", "failure"} ->
                  says(Outcome(end) = "failure")
            [] OTHER -> "unknown"
    BY <1>3, <2>4 DEF TriggeredBy
  <2>6. Meant(i) <=> CASE when.that = "refused" -> IsRefusal(end)
                       [] when.that = "because" -> Outcome(end) = when.code
                       [] when.that = "succeeded" -> Outcome(end) = "success"
                       [] OTHER -> Outcome(end) = "failure"
    BY <2>2 DEF Meant
  <2> HIDE DEF end, when, on
  <2> QED BY <1>1, <2>3, <2>5, <2>6 DEF when, on
<1> QED BY <1>2, <1>3

LEMMA ActiveMeans ==
  ASSUME LedgerTyped, OutcomesFit, Consistent, NEW i \in DOMAIN manifest
  PROVE  /\ Active(i, Progress) = "yes" => Meant(i)
         /\ Active(i, Progress) = "no" => ~Meant(i)
<1>1. CASE manifest[i].when = Always
  BY <1>1 DEF Active, Meant
<1>2. CASE manifest[i].when # Always
  <2>1. CASE Progress[manifest[i].when.on] = "not triggered"
    <3>1. manifest[i].when.on \in DOMAIN manifest
      BY <1>2, ConditionsAre
    <3>2. ~Happened(manifest[i].when.on)
      BY <2>1, <3>1 DEF Consistent, Happened
    <3> QED BY <1>2, <2>1, <3>2 DEF Active, Meant
  <2>2. CASE Progress[manifest[i].when.on] # "not triggered"
    BY <1>2, <2>2, TriggerIs DEF Active
  <2> QED BY <2>1, <2>2
<1> QED BY <1>1, <1>2

LEMMA NothingWaits ==
  ASSUME LedgerTyped, OutcomesFit, Consistent, NEW i \in DOMAIN manifest
  PROVE  Progress[i] # "waiting for condition"
<1> SUFFICES ASSUME Progress[i] = "waiting for condition" PROVE FALSE
  OBVIOUS
<1> DEFINE on == manifest[i].when.on
<1>1. Active(i, Progress) = "unknown" /\ \A j \in 1..(i - 1) : Progress[j] \in Dealt
  BY StatusIs
<1>2. manifest[i].when # Always /\ Progress[on] # "not triggered"
  BY <1>1 DEF Active
<1>3. on \in 1..(i - 1) /\ on \in DOMAIN manifest
  BY <1>2, ConditionsAre
<1>4. Progress[on] = "finished"
  BY <1>1, <1>2, <1>3 DEF Dealt
<1>5. OwnProgress(on) = "finished"
  BY <1>3, <1>4, StatusIs DEF Owned
<1>6. Deciding(on) # {}
  BY <1>3, <1>5, FinishedIs
<1>7. TriggeredBy(manifest[i].when) # "unknown"
  BY <1>2, <1>6, TriggerIs
<1> QED BY <1>1, <1>2, <1>7 DEF Active

LEMMA SomethingGoesOn ==
  ASSUME LedgerTyped, OutcomesFit, Consistent, ~AllDealt
  PROVE  \E i \in DOMAIN manifest : Progress[i] \in {"ready", "prepared", "needs resolution"}
<1> DEFINE Left == {i \in DOMAIN manifest : Progress[i] \notin Dealt}
<1>0. DOMAIN manifest = 1..Len(manifest) /\ Len(manifest) \in Nat
  BY LedgerFacts
<1>1. PICK i \in Left : \A j \in Left : i <= j
  <2>1. Left \in SUBSET Nat /\ Left # {}
    BY <1>0 DEF AllDealt
  <2> HIDE DEF Left
  <2> QED BY <2>1, SmallestOf
<1>2. \A j \in 1..(i - 1) : j \in DOMAIN manifest /\ ~(i <= j)
  BY <1>0, <1>1
<1>3. \A j \in 1..(i - 1) : Progress[j] \in Dealt
  BY <1>1, <1>2
<1>4. i \in DOMAIN manifest /\ Progress[i] \notin Dealt /\ Progress[i] # "waiting for previous"
      /\ Progress[i] # "waiting for condition"
  BY <1>1, <1>3, StatusIs, NothingWaits
<1> QED BY <1>4, StatusIs DEF Dealt, Owned

LEMMA LedgerFactsNext == LedgerTyped' => LedgerFacts!2'
BY LedgerFacts, PTL

LEMMA StatusIsNext ==
  LedgerTyped' => (\A i \in DOMAIN manifest :
    /\ Progress[i] # "waiting for previous" <=> \A j \in 1..(i - 1) : Progress[j] \in Dealt
    /\ Progress[i] # "waiting for previous" /\ Active(i, Progress) = "yes" =>
         Progress[i] = OwnProgress(i))'
<1>1. LedgerTyped => \A i \in DOMAIN manifest :
         /\ Progress[i] # "waiting for previous" <=> \A j \in 1..(i - 1) : Progress[j] \in Dealt
         /\ Progress[i] # "waiting for previous" /\ Active(i, Progress) = "yes" =>
              Progress[i] = OwnProgress(i)
  BY StatusIs
<1> QED BY <1>1, PTL

(* At most one command can go on: those before it are over, those after it *)
(* have not begun.                                                         *)
Going == {"ready", "prepared", "needs resolution"}
IsOver(j) ==
  IF Happened(j) THEN LET end == Last(bindings[j])
                      IN Answered(end) /\ (end.terminal \/ IsRefusal(end))
  ELSE ~Meant(j)

LEMMA FrontierIs ==
  ASSUME LedgerInv, NEW i \in DOMAIN manifest, Progress[i] \in Going
  PROVE  /\ \A j \in 1..(i - 1) : j \in DOMAIN manifest /\ Progress[j] \in Dealt /\ IsOver(j)
         /\ Meant(i) /\ Active(i, Progress) = "yes" /\ Progress[i] = OwnProgress(i)
         /\ \A j \in DOMAIN manifest : j > i => bindings[j] = <<>>
         /\ narrated = FALSE
         /\ Asking => Last(questions).about = i /\ Progress[i] = "needs resolution"
<1>0. DOMAIN manifest = 1..Len(manifest) /\ Len(manifest) \in Nat /\ LedgerTyped
  BY LedgerFacts DEF LedgerInv
<1>1. Progress[i] \in Owned /\ Progress[i] \notin Dealt /\ Progress[i] # "waiting for previous"
  BY DEF Owned, Going, Dealt
<1>2. \A j \in 1..(i - 1) : j \in DOMAIN manifest /\ Progress[j] \in Dealt
  <2>1. \A j \in 1..(i - 1) : j \in DOMAIN manifest
    BY <1>0
  <2>2. \A j \in 1..(i - 1) : Progress[j] \in Dealt
    BY <1>0, <1>1, StatusIs
  <2> QED BY <2>1, <2>2
<1>3. Active(i, Progress) = "yes" /\ Progress[i] = OwnProgress(i) /\ Meant(i)
  BY <1>0, <1>1, StatusIs, ActiveIs, ActiveMeans DEF LedgerInv
<1>4. \A j \in DOMAIN manifest : j > i => Progress[j] = "waiting for previous"
  <2>1. \A j \in DOMAIN manifest : j > i => i \in 1..(j - 1)
    BY <1>0
  <2> QED BY <1>0, <1>1, <2>1, StatusIs
<1>5. \A j \in DOMAIN manifest : j > i => bindings[j] = <<>>
  BY <1>4 DEF LedgerInv, Consistent
<1>6. \A j \in 1..(i - 1) : IsOver(j)
  <2> TAKE j \in 1..(i - 1)
  <2>1. j \in DOMAIN manifest /\ Progress[j] \in Dealt
    BY <1>2
  <2>2. CASE Progress[j] = "finished"
    <3>1. OwnProgress(j) = "finished"
      BY <1>0, <2>1, <2>2, StatusIs DEF Owned
    <3> QED BY <1>0, <2>1, <3>1, FinishedIs DEF LedgerInv, IsOver
  <2>3. CASE Progress[j] = "not triggered"
    <3>1. ~Happened(j)
      BY <2>1, <2>3 DEF LedgerInv, Consistent, Happened
    <3>2. ~Meant(j)
      BY <1>0, <2>1, <2>3, StatusIs, ActiveMeans DEF LedgerInv
    <3> QED BY <3>1, <3>2 DEF IsOver
  <2> QED BY <2>1, <2>2, <2>3 DEF Dealt
<1>7. narrated = FALSE
  BY <1>0, <1>1 DEF LedgerInv, LedgerTyped, Orderly, AllDealt
<1>8. Asking => Last(questions).about = i /\ Progress[i] = "needs resolution"
  <2> SUFFICES ASSUME Asking PROVE Last(questions).about = i /\ Progress[i] = "needs resolution"
    OBVIOUS
  <2>1. PICK q \in DOMAIN manifest : q = Last(questions).about /\ Progress[q] = "needs resolution"
    BY DEF LedgerInv, Orderly, Resolving
  <2>2. q \in 1..Len(manifest) /\ i \in 1..Len(manifest)
    BY <1>0
  <2>3. q \in Nat /\ i \in Nat
    BY <1>0, <2>2
  <2>4. ~(q < i)
    <3>1. q < i => q \in 1..(i - 1)
      BY <1>0, <2>2, <2>3
    <3> QED BY <1>2, <2>1, <3>1 DEF Dealt
  <2>5. ~(q > i)
    BY <1>4, <2>1
  <2>6. q = i
    BY <2>3, <2>4, <2>5
  <2> QED BY <2>1, <2>6
<1> QED BY <1>2, <1>3, <1>5, <1>6, <1>7, <1>8

(* What has not changed up to a command is not read otherwise.             *)
LEMMA TriggerStays ==
  \A w : bindings'[w.on] = bindings[w.on] => TriggeredBy(w)' = TriggeredBy(w)
<1> TAKE w
<1> HAVE bindings'[w.on] = bindings[w.on]
<1>1. Deciding(w.on)' = Deciding(w.on)
  BY DEF Deciding
<1> QED BY <1>1 DEF TriggeredBy

LEMMA ActiveStays ==
  ASSUME LedgerTyped, NEW i \in DOMAIN manifest, manifest'[i].when = manifest[i].when,
         \A k \in 1..(i - 1) : bindings'[k] = bindings[k] /\ Progress'[k] = Progress[k]
  PROVE  Active(i, Progress)' = Active(i, Progress)
<1>1. manifest[i].when = Always \/ manifest[i].when.on \in 1..(i - 1)
  BY ConditionsAre
<1>2. manifest[i].when # Always => TriggeredBy(manifest[i].when)' = TriggeredBy(manifest[i].when)
  <2>1. PICK w : w = manifest[i].when /\ w = manifest'[i].when
    OBVIOUS
  <2>2. w # Always => TriggeredBy(w)' = TriggeredBy(w)
    BY <1>1, <2>1, TriggerStays
  <2> QED BY <2>1, <2>2
<1> QED BY <1>1, <1>2 DEF Active

LEMMA EarlierStay ==
  ASSUME LedgerTyped, LedgerTyped', NEW n \in Nat, n <= Len(manifest), n <= Len(manifest'),
         \A k \in 1..n : manifest'[k] = manifest[k] /\ bindings'[k] = bindings[k]
  PROVE  \A k \in 1..n : Progress'[k] = Progress[k]
<1> DEFINE Differing == {k \in 1..n : Progress'[k] # Progress[k]}
<1> SUFFICES ASSUME Differing # {} PROVE FALSE
  OBVIOUS
<1>0. /\ DOMAIN manifest = 1..Len(manifest) /\ Len(manifest) \in Nat
      /\ DOMAIN manifest' = 1..Len(manifest') /\ Len(manifest') \in Nat
  BY LedgerFacts, LedgerFactsNext
<1>1. PICK k \in Differing : \A y \in Differing : k <= y
  <2>1. Differing \in SUBSET Nat
    OBVIOUS
  <2> HIDE DEF Differing
  <2> QED BY <2>1, SmallestOf
<1>2. k \in 1..n /\ k \in DOMAIN manifest /\ k \in DOMAIN manifest' /\ Progress'[k] # Progress[k]
  BY <1>0, <1>1
<1>3. \A j \in 1..(k - 1) : j \in 1..n /\ ~(k <= j)
  BY <1>2
<1>4. \A j \in 1..(k - 1) : Progress'[j] = Progress[j]
  BY <1>1, <1>3
<1>5. Active(k, Progress)' = Active(k, Progress)
  BY <1>2, <1>3, <1>4, ActiveStays
<1>6. OwnProgress(k)' = OwnProgress(k)
  BY <1>2 DEF OwnProgress
<1>7. Progress'[k] = StatusOf(k, Progress)' /\ Progress[k] = StatusOf(k, Progress)
  BY <1>2, ProgressIs, ProgressIsNext
<1>8. StatusOf(k, Progress)' = StatusOf(k, Progress)
  <2> HIDE DEF Differing
  <2> QED BY <1>4, <1>5, <1>6 DEF StatusOf
<1> QED BY <1>2, <1>7, <1>8

LEMMA OverStays ==
  ASSUME LedgerTyped, NEW i \in DOMAIN manifest, manifest'[i].when = manifest[i].when,
         \A k \in 1..(i - 1) : bindings'[k] = bindings[k]
  PROVE  Meant(i)' = Meant(i) /\ (bindings'[i] = bindings[i] => IsOver(i)' = IsOver(i))
<1>1. manifest[i].when = Always \/ manifest[i].when.on \in 1..(i - 1)
  BY ConditionsAre
<1>2. Meant(i)' = Meant(i)
  BY <1>1 DEF Meant, Happened
<1>3. bindings'[i] = bindings[i] => IsOver(i)' = IsOver(i)
  <2> HAVE bindings'[i] = bindings[i]
  <2> QED BY <1>2 DEF IsOver, Happened
<1> QED BY <1>2, <1>3

(* Progress is made at the frontier: nothing before or after it changes.   *)
OwnConsistent(i) ==
  /\ \A k \in DOMAIN bindings[i] : k < Len(bindings[i]) =>
        ~bindings[i][k].terminal /\ Answered(bindings[i][k]) /\ ~IsRefusal(bindings[i][k])
  /\ bindings[i] # <<>> => manifest[i].goal # "unclear"
  /\ \A k \in DOMAIN bindings[i] : ~bindings[i][k].terminal => manifest[i].goal = "move"

LEMMA FrontierMoves ==
  ASSUME LedgerInv, LedgerTyped', NEW i \in DOMAIN manifest, Progress[i] \in Going,
         Len(manifest') = Len(manifest), manifest'[i].when = manifest[i].when,
         \A k \in DOMAIN manifest : k # i => manifest'[k] = manifest[k] /\ bindings'[k] = bindings[k],
         OwnConsistent(i)'
  PROVE  /\ Consistent' /\ RunsAsMeant' /\ Progress'[i] = OwnProgress(i)'
<1>0. /\ DOMAIN manifest = 1..Len(manifest) /\ Len(manifest) \in Nat /\ LedgerTyped
      /\ DOMAIN manifest' = 1..Len(manifest) /\ i \in 1..Len(manifest)
  BY LedgerFacts, LedgerFactsNext DEF LedgerInv
<1>1. \A k \in 1..(i - 1) : /\ k \in DOMAIN manifest /\ k # i
                            /\ manifest'[k] = manifest[k] /\ bindings'[k] = bindings[k]
  BY <1>0
<1>2. \A k \in 1..(i - 1) : Progress'[k] = Progress[k]
  <2>1. i - 1 \in Nat /\ i - 1 <= Len(manifest)
    BY <1>0
  <2> QED BY <1>0, <1>1, <2>1, EarlierStay
<1>3. /\ \A j \in 1..(i - 1) : j \in DOMAIN manifest /\ Progress[j] \in Dealt /\ IsOver(j)
      /\ Meant(i) /\ Active(i, Progress) = "yes"
      /\ \A j \in DOMAIN manifest : j > i => bindings[j] = <<>>
  BY FrontierIs
<1>4. Active(i, Progress)' = "yes"
  BY <1>0, <1>1, <1>2, <1>3, ActiveStays
<1>5. Progress'[i] = OwnProgress(i)'
  <2>1. i \in DOMAIN manifest' /\ \A j \in 1..(i - 1) : Progress'[j] \in Dealt'
    BY <1>0, <1>2, <1>3 DEF Dealt
  <2>2. Progress'[i] # "waiting for previous"
    BY <2>1, StatusIsNext
  <2> QED BY <1>4, <2>1, <2>2, StatusIsNext
<1>6. \A j \in DOMAIN manifest : j > i => bindings'[j] = <<>>
  BY <1>0, <1>3
<1>7. ASSUME NEW j \in DOMAIN manifest'
      PROVE  j \in DOMAIN manifest /\ (j \in 1..(i - 1) \/ j = i \/ j > i)
  BY <1>0
<1>8. Consistent'
  <2> DEFINE Fine(j) == /\ \A k \in DOMAIN bindings[j] : k < Len(bindings[j]) =>
                              /\ ~bindings[j][k].terminal /\ Answered(bindings[j][k])
                              /\ ~IsRefusal(bindings[j][k])
                        /\ bindings[j] # <<>> =>
                              /\ Progress[j] \in {"finished", "prepared", "ready"}
                              /\ manifest[j].goal # "unclear"
                        /\ \A k \in DOMAIN bindings[j] :
                              ~bindings[j][k].terminal => manifest[j].goal = "move"
  <2>1. ASSUME NEW j \in 1..(i - 1) PROVE Fine(j)'
    <3>1. Fine(j)
      BY <1>1 DEF LedgerInv, Consistent
    <3> QED BY <1>1, <1>2, <3>1 DEF Answered, IsRefusal, Outcome
  <2>2. Fine(i)'
    <3>1. bindings'[i] # <<>> => OwnProgress(i)' \in {"finished", "prepared", "ready"}
      BY DEF OwnConsistent, OwnProgress
    <3> QED BY <1>5, <3>1 DEF OwnConsistent
  <2>3. ASSUME NEW j \in DOMAIN manifest, j > i PROVE Fine(j)'
    <3>1. DOMAIN bindings'[j] = {}
      BY <1>6, <2>3
    <3> QED BY <1>6, <2>3, <3>1
  <2>4. \A j \in DOMAIN manifest' : Fine(j)'
    <3> HIDE DEF Fine
    <3> QED BY <1>7, <2>1, <2>2, <2>3
  <2> QED BY <2>4 DEF Consistent
<1>9. RunsAsMeant'
  <2> DEFINE Right(j) == Happened(j) => Meant(j) /\ \A k \in 1..(j - 1) : IsOver(k)
  <2>0. \A k \in 1..(i - 1) : Meant(k)' = Meant(k) /\ IsOver(k)' = IsOver(k)
    <3> TAKE k \in 1..(i - 1)
    <3>1. 1..(k - 1) \subseteq 1..(i - 1)
      BY <1>0
    <3> QED BY <1>0, <1>1, <3>1, OverStays
  <2>1. ASSUME NEW j \in 1..(i - 1) PROVE Right(j)'
    <3>1. Right(j)
      BY <1>1 DEF LedgerInv, RunsAsMeant, IsOver
    <3>2. 1..(j - 1) \subseteq 1..(i - 1)
      BY <1>0
    <3>3. Happened(j)' = Happened(j)
      BY <1>1 DEF Happened
    <3> QED BY <2>0, <3>1, <3>2, <3>3
  <2>2. Right(i)'
    <3>1. Meant(i)' = Meant(i)
      BY <1>0, <1>1, OverStays
    <3> QED BY <1>3, <2>0, <3>1
  <2>3. ASSUME NEW j \in DOMAIN manifest, j > i PROVE Right(j)'
    BY <1>6, <2>3 DEF Happened
  <2>4. \A j \in DOMAIN manifest' : Right(j)'
    <3> HIDE DEF Right
    <3> QED BY <1>7, <2>1, <2>2, <2>3
  <2> QED BY <2>4 DEF RunsAsMeant, IsOver
<1> QED BY <1>5, <1>8, <1>9

(* A question or a narration changes no command.                           *)
LEMMA CommandsStay ==
  ASSUME LedgerInv, LedgerTyped', UNCHANGED <<manifest, bindings>>
  PROVE  /\ OutcomesFit' /\ Consistent' /\ RunsAsMeant'
         /\ Resolving' = Resolving /\ AllDealt' = AllDealt
<1>0. DOMAIN manifest = 1..Len(manifest) /\ Len(manifest) \in Nat /\ LedgerTyped
  BY LedgerFacts DEF LedgerInv
<1>1. \A k \in DOMAIN manifest : Progress'[k] = Progress[k]
  BY <1>0, EarlierStay
<1> HIDE DEF Progress
<1>2. OutcomesFit'
  BY DEF LedgerInv, OutcomesFit, Rolls, Deeds
<1>3. Consistent'
  BY <1>1 DEF LedgerInv, Consistent, Answered, IsRefusal, Outcome
<1>4. RunsAsMeant'
  BY DEF LedgerInv, RunsAsMeant, Happened, Meant, Answered, IsRefusal, Outcome
<1> QED BY <1>1, <1>2, <1>3, <1>4 DEF Resolving, AllDealt, Dealt

(* Nothing is asked or narrated about while a command is worked on.        *)
LEMMA Quiet ==
  ASSUME LedgerInv, NEW i \in DOMAIN manifest, Progress[i] \in Going,
         Progress[i] = "needs resolution" => ~Asking, UNCHANGED <<questions, narrated>>
  PROVE  Orderly' /\ ~Asking
<1>1. narrated = FALSE /\ ~Asking
  BY FrontierIs
<1>2. ~Asking'
  BY <1>1 DEF Asking
<1> QED BY <1>1, <1>2 DEF LedgerInv, Orderly

LEMMA PrepareCallKeeps ==
  ASSUME LedgerInv, NEW i \in DOMAIN manifest, NEW terminal \in BOOLEAN, PrepareCall(i, terminal)
  PROVE  LedgerInv'
<1> DEFINE call == [terminal |-> terminal, outcome |-> "none"]
<1>0. /\ LedgerTyped /\ i \in DOMAIN bindings /\ bindings[i] \in Seq(Bound)
      /\ Progress[i] = "ready" /\ bindings' = [bindings EXCEPT ![i] = Append(bindings[i], call)]
      /\ UNCHANGED <<manifest, questions, narrated>>
  BY LedgerFacts DEF LedgerInv, PrepareCall
<1>1. call \in Bound
  BY DEF Bound, Rolls
<1>2. /\ bindings'[i] = Append(bindings[i], call) /\ Append(bindings[i], call) \in Seq(Bound)
      /\ \A k \in DOMAIN bindings : k # i => bindings'[k] = bindings[k]
      /\ Len(bindings') = Len(bindings) /\ bindings' \in Seq(Seq(Bound))
  BY <1>0, <1>1 DEF LedgerTyped
<1>3. LedgerTyped'
  BY <1>0, <1>2 DEF LedgerTyped, ValidManifest, Conditions
<1>4. Progress[i] \in Going /\ Progress[i] # "needs resolution" /\ OwnProgress(i) = "ready"
  BY <1>0, FrontierIs DEF Going
<1>5. /\ DOMAIN bindings[i] = 1..Len(bindings[i]) /\ Len(bindings[i]) \in Nat
      /\ Len(bindings'[i]) = Len(bindings[i]) + 1 /\ DOMAIN bindings'[i] = 1..(Len(bindings[i]) + 1)
      /\ \A k \in DOMAIN bindings[i] : bindings'[i][k] = bindings[i][k]
      /\ bindings'[i][Len(bindings[i]) + 1] = call
  <2> HIDE DEF call
  <2> QED BY <1>0, <1>1, <1>2
<1>6. /\ \A k \in DOMAIN bindings[i] : ~IsRefusal(bindings[i][k]) /\ Answered(bindings[i][k])
      /\ Len(bindings[i]) > 0 => ~bindings[i][Len(bindings[i])].terminal
      /\ manifest[i].goal # "unclear"
  BY <1>4 DEF OwnProgress
<1>8. \A k \in DOMAIN bindings[i] : ~bindings[i][k].terminal
  BY <1>5, <1>6 DEF LedgerInv, Consistent
<1>9. OwnConsistent(i)'
  <2>1. \A k \in DOMAIN bindings'[i] : k < Len(bindings'[i]) => k \in DOMAIN bindings[i]
    BY <1>5
  <2>2. \A k \in DOMAIN bindings'[i] : k \in DOMAIN bindings[i] \/ k = Len(bindings[i]) + 1
    BY <1>5
  <2>3. \A k \in DOMAIN bindings'[i] : ~bindings'[i][k].terminal => manifest[i].goal = "move"
    <3>1. ~terminal => manifest[i].goal = "move"
      BY DEF PrepareCall
    <3>2. call.terminal = terminal
      OBVIOUS
    <3> HIDE DEF call
    <3>3. \A k \in DOMAIN bindings[i] : ~bindings[i][k].terminal => manifest[i].goal = "move"
      BY DEF LedgerInv, Consistent
    <3> QED BY <1>5, <2>2, <3>1, <3>2, <3>3
  <2> HIDE DEF call
  <2> QED BY <1>0, <1>5, <1>6, <1>8, <2>1, <2>3 DEF OwnConsistent, Answered, IsRefusal, Outcome
<1>10. Consistent' /\ RunsAsMeant'
  BY <1>0, <1>2, <1>3, <1>4, <1>9, FrontierMoves, LedgerFacts
<1>11. OutcomesFit'
  <2>1. "none" \in Rolls /\ "none" \in Deeds
    BY DEF Rolls, Deeds
  <2>2. \A k \in DOMAIN bindings'[i] : k \in DOMAIN bindings[i] \/ k = Len(bindings[i]) + 1
    BY <1>5
  <2>3. call.outcome = "none"
    OBVIOUS
  <2> HIDE DEF call
  <2>4. DOMAIN bindings = DOMAIN manifest
    BY <1>0, LedgerFacts
  <2>5. \A k \in DOMAIN bindings'[i] :
           bindings'[i][k].outcome \in (IF manifest[i].goal = "check" THEN Rolls ELSE Deeds)
    BY <1>5, <2>1, <2>2, <2>3 DEF LedgerInv, OutcomesFit
  <2> QED BY <1>0, <1>2, <2>4, <2>5 DEF LedgerInv, OutcomesFit, Rolls, Deeds
<1>12. Orderly'
  BY <1>0, <1>4, Quiet
<1> QED BY <1>0, <1>3, <1>10, <1>11, <1>12 DEF LedgerInv

LEMMA ConcludeKeeps ==
  ASSUME LedgerInv, NEW i \in DOMAIN manifest,
         NEW result \in {"success", "failure", "performed"} \cup Codes, Conclude(i, result)
  PROVE  LedgerInv'
<1> DEFINE n == Len(bindings[i])
<1>0. /\ LedgerTyped /\ i \in DOMAIN bindings /\ bindings[i] \in Seq(Bound) /\ bindings[i] # <<>>
      /\ DOMAIN bindings[i] = 1..n /\ n \in Nat /\ n \in DOMAIN bindings[i] /\ ~Answered(bindings[i][n])
      /\ bindings[i][n] \in Bound /\ Last(bindings[i]) = bindings[i][n]
      /\ bindings' = [bindings EXCEPT ![i][n].outcome = result]
      /\ UNCHANGED <<manifest, questions, narrated>>
  BY LedgerFacts DEF LedgerInv, Conclude, BindingOpen
<1>1. PICK call : call = [bindings[i][n] EXCEPT !.outcome = result]
  OBVIOUS
<1>2. PICK mine : mine = [bindings[i] EXCEPT ![n] = call]
  OBVIOUS
<1>3. bindings' = [bindings EXCEPT ![i] = mine]
  BY <1>0, <1>1, <1>2
<1>4. call \in Bound /\ call.outcome = result /\ call.terminal = bindings[i][n].terminal
  BY <1>0, <1>1 DEF Bound, Rolls, Deeds
<1>5. /\ mine \in Seq(Bound) /\ Len(mine) = n /\ DOMAIN mine = DOMAIN bindings[i] /\ mine[n] = call
      /\ \A k \in DOMAIN mine : k # n => mine[k] = bindings[i][k]
  <2> HIDE DEF n
  <2>1. mine \in Seq(Bound) /\ DOMAIN mine = DOMAIN bindings[i] /\ mine[n] = call
        /\ \A k \in DOMAIN mine : k # n => mine[k] = bindings[i][k]
    BY <1>0, <1>2, <1>4
  <2>2. Len(mine) = n
    BY <1>0, <2>1
  <2> QED BY <2>1, <2>2
<1>6. /\ bindings'[i] = mine /\ \A k \in DOMAIN bindings : k # i => bindings'[k] = bindings[k]
      /\ Len(bindings') = Len(bindings) /\ bindings' \in Seq(Seq(Bound))
  <2>1. bindings \in Seq(Seq(Bound)) /\ mine \in Seq(Bound) /\ i \in DOMAIN bindings
    BY <1>0, <1>5 DEF LedgerTyped
  <2> QED BY <1>3, <2>1
<1>7. LedgerTyped'
  BY <1>0, <1>6 DEF LedgerTyped, ValidManifest, Conditions
<1>8. Progress[i] \in Going /\ Progress[i] # "needs resolution" /\ manifest[i].goal # "unclear"
  <2>1. Progress[i] \in {"finished", "prepared", "ready"} /\ manifest[i].goal # "unclear"
    BY <1>0 DEF LedgerInv, Consistent
  <2>2. Progress[i] = OwnProgress(i)
    BY <1>0, <2>1, StatusIs DEF Owned
  <2>3. OwnProgress(i) # "finished"
    BY <1>0, FinishedIs DEF LedgerInv
  <2> QED BY <2>1, <2>2, <2>3 DEF Going
<1>9. OwnConsistent(i)'
  <2>1. \A k \in DOMAIN mine : k < n =>
           ~mine[k].terminal /\ Answered(mine[k]) /\ ~IsRefusal(mine[k])
    <3>1. \A k \in DOMAIN bindings[i] : k < n =>
           ~bindings[i][k].terminal /\ Answered(bindings[i][k]) /\ ~IsRefusal(bindings[i][k])
      BY DEF LedgerInv, Consistent
    <3> HIDE DEF n
    <3> QED BY <1>0, <1>5, <3>1
  <2>2. \A k \in DOMAIN mine : ~mine[k].terminal => manifest[i].goal = "move"
    <3>1. \A k \in DOMAIN bindings[i] : ~bindings[i][k].terminal => manifest[i].goal = "move"
      BY DEF LedgerInv, Consistent
    <3> HIDE DEF n
    <3> QED BY <1>0, <1>4, <1>5, <3>1
  <2> QED BY <1>0, <1>5, <1>6, <1>8, <2>1, <2>2 DEF OwnConsistent, Answered, IsRefusal, Outcome
<1>10. Consistent' /\ RunsAsMeant'
  BY <1>0, <1>6, <1>7, <1>8, <1>9, FrontierMoves, LedgerFacts
<1>11. OutcomesFit'
  <2>1. result \in (IF manifest[i].goal = "check" THEN Rolls ELSE Deeds)
    BY DEF Conclude, Rolls, Deeds
  <2>2. DOMAIN bindings = DOMAIN manifest
    BY <1>0, LedgerFacts
  <2>3. \A k \in DOMAIN mine :
           mine[k].outcome \in (IF manifest[i].goal = "check" THEN Rolls ELSE Deeds)
    <3> HIDE DEF n
    <3> QED BY <1>4, <1>5, <2>1 DEF LedgerInv, OutcomesFit
  <2> QED BY <1>0, <1>6, <2>2, <2>3 DEF LedgerInv, OutcomesFit, Rolls, Deeds
<1>12. Orderly'
  BY <1>0, <1>8, Quiet
<1> QED BY <1>0, <1>7, <1>10, <1>11, <1>12 DEF LedgerInv

LEMMA ResolveGoalKeeps ==
  ASSUME LedgerInv, NEW i \in DOMAIN manifest, NEW goal \in Exact, ResolveGoal(i, goal)
  PROVE  LedgerInv'
<1>0. /\ LedgerTyped /\ DOMAIN bindings = DOMAIN manifest /\ manifest[i] \in Command
      /\ Progress[i] = "needs resolution" /\ bindings[i] = <<>> /\ ~Asking
      /\ manifest' = [manifest EXCEPT ![i].goal = goal] /\ ValidManifest(manifest')
      /\ UNCHANGED <<bindings, questions, narrated>>
  BY LedgerFacts DEF LedgerInv, ResolveGoal, MayResolve, Resolving
<1>1. PICK cmd : cmd = [manifest[i] EXCEPT !.goal = goal]
  OBVIOUS
<1>2. cmd \in Command /\ cmd.when = manifest[i].when
  BY <1>0, <1>1 DEF Command, Exact
<1>3. /\ manifest' = [manifest EXCEPT ![i] = cmd] /\ manifest' \in Seq(Command)
      /\ Len(manifest') = Len(manifest) /\ manifest'[i] = cmd /\ DOMAIN manifest' = DOMAIN manifest
      /\ \A k \in DOMAIN manifest : k # i => manifest'[k] = manifest[k]
  <2>1. manifest \in Seq(Command) /\ manifest' = [manifest EXCEPT ![i] = cmd]
    BY <1>0, <1>1 DEF LedgerTyped
  <2> QED BY <1>2, <2>1
<1>4. LedgerTyped'
  BY <1>0, <1>3 DEF LedgerTyped, ValidManifest, Conditions
<1>5. OwnConsistent(i)'
  <2>1. bindings'[i] = <<>>
    BY <1>0
  <2>2. DOMAIN bindings'[i] = {}
    BY <2>1
  <2> QED BY <2>1, <2>2 DEF OwnConsistent
<1>6. Progress[i] \in Going
  BY <1>0 DEF Going
<1>7. Consistent' /\ RunsAsMeant'
  BY <1>0, <1>2, <1>3, <1>4, <1>5, <1>6, FrontierMoves
<1>8. OutcomesFit'
  <2>0. bindings'[i] = <<>>
    BY <1>0
  <2>1. DOMAIN bindings'[i] = {}
    BY <2>0
  <2> QED BY <1>0, <1>3, <2>1 DEF LedgerInv, OutcomesFit, Rolls, Deeds
<1>9. Orderly'
  BY <1>0, <1>6, Quiet
<1>10. manifest' # <<>>
  BY <1>3
<1> QED BY <1>4, <1>7, <1>8, <1>9, <1>10 DEF LedgerInv

LEMMA TalkKeeps ==
  ASSUME LedgerInv, manifest # <<>>,
         Reply \/ NarrateFinal \/ (\E i \in DOMAIN manifest : Question(i))
  PROVE  LedgerInv'
<1> DEFINE Word == [about : DOMAIN manifest, answered : BOOLEAN]
<1>0. /\ LedgerTyped /\ DOMAIN manifest = 1..Len(manifest) /\ Len(manifest) \in Nat
      /\ questions \in Seq(Word) /\ Len(questions) \in Nat /\ DOMAIN questions = 1..Len(questions)
      /\ questions # <<>> => /\ Len(questions) \in DOMAIN questions
                             /\ Last(questions) = questions[Len(questions)]
                             /\ Last(questions) \in Word
      /\ \A q \in 1..(Len(questions) - 1) : questions[q].answered
  <2>1. LedgerTyped /\ questions \in Seq(Word)
    BY DEF LedgerInv, LedgerTyped
  <2> HIDE DEF Word
  <2> QED BY <2>1, LedgerFacts DEF Last, LedgerInv, Orderly
<1>1. CASE Reply
  <2>1. PICK word : word = [questions[Len(questions)] EXCEPT !.answered = TRUE]
    OBVIOUS
  <2>2. /\ questions # <<>> /\ questions' = [questions EXCEPT ![Len(questions)] = word]
        /\ UNCHANGED <<manifest, bindings, narrated>>
    BY <1>1, <2>1 DEF Reply, Asking
  <2>3. word \in Word /\ word.answered
    BY <1>0, <2>1, <2>2
  <2> HIDE DEF Word
  <2>4. /\ questions' \in Seq(Word) /\ Len(questions') = Len(questions)
        /\ questions'[Len(questions)] = word
        /\ \A q \in 1..(Len(questions) - 1) : questions'[q] = questions[q]
    <3>1. questions \in Seq(Word) /\ Len(questions) \in DOMAIN questions /\ word \in Word
      BY <1>0, <2>2, <2>3
    <3> QED BY <2>2, <3>1
  <2>5. LedgerTyped'
    BY <1>0, <2>2, <2>4 DEF LedgerTyped, Word, ValidManifest, Conditions
  <2>6. ~Asking'
    BY <1>0, <2>2, <2>3, <2>4 DEF Asking, Last
  <2>7. Orderly'
    <3>1. AllDealt' = AllDealt
      BY <2>2, <2>5, CommandsStay
    <3> QED BY <1>0, <2>2, <2>4, <2>6, <3>1 DEF LedgerInv, Orderly
  <2>8. manifest' # <<>>
    BY <1>0, <2>2 DEF LedgerInv
  <2> QED BY <2>2, <2>5, <2>7, <2>8, CommandsStay DEF LedgerInv
<1>2. CASE NarrateFinal
  <2>1. AllDealt /\ narrated' = TRUE /\ UNCHANGED <<manifest, bindings, questions>>
    BY <1>2 DEF NarrateFinal
  <2>2. LedgerTyped'
    BY <1>0, <2>1 DEF LedgerTyped, ValidManifest, Conditions
  <2>3. Asking' = Asking
    BY <2>1 DEF Asking
  <2>4. AllDealt' = AllDealt /\ Resolving' = Resolving
    BY <2>1, <2>2, CommandsStay
  <2>5. Orderly'
    BY <2>1, <2>3, <2>4 DEF LedgerInv, Orderly
  <2>6. manifest' # <<>>
    BY <2>1
  <2> QED BY <2>1, <2>2, <2>5, <2>6, CommandsStay DEF LedgerInv
<1>3. ASSUME NEW i \in DOMAIN manifest, Question(i) PROVE LedgerInv'
  <2> DEFINE word == [about |-> i, answered |-> FALSE]
  <2>1. /\ i \in Resolving /\ ~Asking /\ questions' = Append(questions, word)
        /\ UNCHANGED <<manifest, bindings, narrated>>
    BY <1>3 DEF Question
  <2>2. word \in Word /\ word.about = i
    OBVIOUS
  <2> HIDE DEF Word, word
  <2>3. /\ questions' \in Seq(Word) /\ Len(questions') = Len(questions) + 1
        /\ questions'[Len(questions) + 1] = word
        /\ \A q \in 1..Len(questions) : questions'[q] = questions[q]
    BY <1>0, <2>1, <2>2
  <2>4. LedgerTyped'
    BY <1>0, <2>1, <2>3 DEF LedgerTyped, Word, ValidManifest, Conditions
  <2>5. Resolving' = Resolving
    BY <2>1, <2>4, CommandsStay
  <2>6. Last(questions') = word
    BY <2>3 DEF Last
  <2>7. \A q \in 1..Len(questions) : questions[q].answered
    <3>1. questions # <<>> => questions[Len(questions)].answered
      BY <1>0, <2>1 DEF Asking
    <3> DEFINE n == Len(questions)
    <3>2. \A q \in 1..n : (q \in 1..(n - 1) \/ q = n) /\ questions # <<>>
      <4>1. n \in Nat /\ (questions = <<>> => n = 0)
        BY <1>0
      <4> HIDE DEF n
      <4> QED BY <4>1
    <3> QED BY <1>0, <3>1, <3>2
  <2>8. narrated = FALSE
    <3>1. Progress[i] \in Going
      BY <2>1 DEF Resolving, Going
    <3> QED BY <3>1, FrontierIs
  <2>9. Orderly'
    <3>1. 1..(Len(questions') - 1) = 1..Len(questions)
      BY <1>0, <2>3
    <3>2. \A q \in 1..(Len(questions') - 1) : questions'[q].answered
      BY <2>3, <2>7, <3>1
    <3>3. Last(questions').about \in Resolving'
      BY <2>1, <2>2, <2>5, <2>6
    <3> QED BY <2>1, <2>8, <3>2, <3>3 DEF Orderly
  <2>10. manifest' # <<>>
    BY <2>1
  <2> QED BY <2>1, <2>4, <2>9, <2>10, CommandsStay DEF LedgerInv
<1> QED BY <1>1, <1>2, <1>3

LEMMA SaveManifestKeeps ==
  ASSUME LedgerInv, SaveManifest
  PROVE  LedgerInv'
<1>1. /\ manifest' \in Manifests /\ bindings' = [i \in DOMAIN manifest' |-> <<>>]
      /\ questions' = <<>> /\ narrated' = FALSE
  BY DEF LedgerInv, SaveManifest
<1>2. PICK n \in 1..MaxManifest :
        /\ manifest' \in [1..n -> [goal : Goals,
                            when : Conditions([k \in 1..n |-> [goal |-> "check"]], n)]]
        /\ ValidManifest(manifest')
  BY <1>1 DEF Manifests
<1>3. n \in Nat /\ n >= 1
  BY LedgerAssumption
<1>4. Conditions([k \in 1..n |-> [goal |-> "check"]], n) \subseteq Condition
  BY <1>3 DEF Conditions, Condition, Always
<1>5. manifest' \in [1..n -> Command] /\ DOMAIN manifest' = 1..n
  BY <1>2, <1>4 DEF Command
<1>6. manifest' \in Seq(Command) /\ Len(manifest') = n
  BY <1>3, <1>5
<1>7. bindings' \in [1..n -> Seq(Bound)] /\ \A i \in DOMAIN manifest' : bindings'[i] = <<>>
  BY <1>1, <1>5
<1>8. bindings' \in Seq(Seq(Bound)) /\ Len(bindings') = n
  BY <1>3, <1>7
<1>9. LedgerTyped'
  <2>1. ValidManifest(manifest)'
    BY <1>2 DEF ValidManifest, Conditions
  <2>2. questions' \in Seq([about : DOMAIN manifest', answered : BOOLEAN]) /\ narrated' \in BOOLEAN
    <3>1. \A S : <<>> \in Seq(S)
      OBVIOUS
    <3> QED BY <1>1, <3>1
  <2> QED BY <1>6, <1>8, <2>1, <2>2 DEF LedgerTyped
<1>10. \A i \in DOMAIN manifest' : DOMAIN bindings'[i] = {} /\ bindings'[i] = <<>>
  BY <1>7
<1>11. OutcomesFit' /\ Consistent' /\ RunsAsMeant'
  BY <1>10 DEF OutcomesFit, Consistent, RunsAsMeant, Happened
<1>12. Orderly'
  BY <1>1 DEF Orderly, Asking
<1> QED BY <1>1, <1>9, <1>11, <1>12 DEF LedgerInv

LEMMA LedgerInvInit == LedgerInit => LedgerInv
<1> SUFFICES ASSUME LedgerInit PROVE LedgerInv
  OBVIOUS
<1>1. manifest = <<>> /\ bindings = <<>> /\ questions = <<>> /\ narrated = FALSE /\ DOMAIN manifest = {}
  BY DEF LedgerInit
<1>2. LedgerTyped
  <2>1. questions \in Seq([about : DOMAIN manifest, answered : BOOLEAN])
    BY <1>1
  <2>2. manifest \in Seq(Command) /\ bindings \in Seq(Seq(Bound)) /\ Len(bindings) = Len(manifest)
    BY <1>1
  <2>3. ValidManifest(manifest)
    BY <1>1 DEF ValidManifest
  <2> QED BY <1>1, <2>1, <2>2, <2>3 DEF LedgerTyped
<1>3. OutcomesFit /\ Consistent /\ RunsAsMeant
  BY <1>1 DEF OutcomesFit, Consistent, RunsAsMeant
<1>4. Orderly
  BY <1>1 DEF Orderly, Asking
<1> QED BY <1>1, <1>2, <1>3, <1>4 DEF LedgerInv

LEMMA LedgerInvStep == LedgerInv /\ [LedgerNext]_ledgerVars => LedgerInv'
<1> SUFFICES ASSUME LedgerInv, [LedgerNext]_ledgerVars PROVE LedgerInv'
  OBVIOUS
<1>1. CASE SaveManifest
  BY <1>1, SaveManifestKeeps
<1>2. CASE Loaded /\ Transaction
  <2>1. CASE Reply \/ NarrateFinal \/ \E i \in DOMAIN manifest : Question(i)
    BY <1>2, <2>1, TalkKeeps DEF Loaded
  <2>2. ASSUME NEW i \in DOMAIN manifest, NEW terminal \in BOOLEAN, PrepareCall(i, terminal)
        PROVE  LedgerInv'
    BY <2>2, PrepareCallKeeps
  <2>3. ASSUME NEW i \in DOMAIN manifest,
               NEW result \in {"success", "failure", "performed"} \cup Codes,
               Conclude(i, result)
        PROVE  LedgerInv'
    BY <2>3, ConcludeKeeps
  <2>4. ASSUME NEW i \in DOMAIN manifest, NEW goal \in Exact, ResolveGoal(i, goal)
        PROVE  LedgerInv'
    BY <2>4, ResolveGoalKeeps
  <2> QED BY <1>2, <2>1, <2>2, <2>3, <2>4 DEF Transaction
<1>3. CASE UNCHANGED ledgerVars
  <2>1. UNCHANGED <<manifest, bindings, questions, narrated>>
    BY <1>3 DEF ledgerVars
  <2>2. LedgerTyped'
    BY <2>1 DEF LedgerInv, LedgerTyped, ValidManifest, Conditions
  <2>3. Orderly'
    BY <2>1, <2>2, CommandsStay DEF LedgerInv, Orderly, Asking
  <2> QED BY <2>1, <2>2, <2>3, CommandsStay DEF LedgerInv
<1> QED BY <1>1, <1>2, <1>3 DEF LedgerNext

(* The commands of a player's request are carried out as they were given,  *)
(* whatever their number, their conditions and the refusals of the code.   *)
THEOREM CommandsRunAsGiven == LedgerSpec => []CommandsAsGiven
<1>1. LedgerInv => CommandsAsGiven
  <2> SUFFICES ASSUME LedgerInv PROVE CommandsAsGiven
    OBVIOUS
  <2>1. LedgerTyped /\ OutcomesFit /\ Consistent /\ Orderly /\ RunsAsMeant
    BY DEF LedgerInv
  <2>2. \A i \in DOMAIN manifest : Progress[i] # "waiting for condition"
    BY <2>1, NothingWaits
  <2>3. AllDealt \/ \E i \in DOMAIN manifest :
                       Progress[i] \in {"ready", "prepared", "needs resolution"}
    BY <2>1, SomethingGoesOn
  <2> QED BY <2>1, <2>2, <2>3 DEF CommandsAsGiven, LedgerGoesOn
<1> QED BY <1>1, LedgerInvInit, LedgerInvStep, PTL DEF LedgerSpec
=============================================================================

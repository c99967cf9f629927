----------------------------- MODULE Encounters -----------------------------
(***************************************************************************)
(* The table outside and inside of combat: the character sheets, the       *)
(* adventuring clock, the authored defense and the one open encounter of a *)
(* session, as adapter-sqlite keeps them.  Solo play computes a combat     *)
(* action on a projection it read outside of the writing transaction       *)
(* (ResolveCombatAction::execute); a room computes it inside               *)
(* (room_combat::act).  Time is counted in combat rounds of six seconds.   *)
(***************************************************************************)
EXTENDS CombatRules

CONSTANTS
    Root,         \* the hero of the campaign's owner
    Requests,     \* combat requests in flight
    Callers,      \* concurrent calls of the solo route or tool
    Orders,       \* initiative orders the dice can give to those bound
    Posts,        \* where combatants stand when an encounter opens
    Seeds,        \* dice of one engine call
    Streaks,      \* dice of the death saves rolled while time passes
    Naps,         \* hours a stable hero may need to wake up (1..4)
    Scene, Hour, LongRest, RestGap,  \* rounds
    MaxSaves,     \* death saves rolled for one passage of time (6)
    MaxClock, MaxFights, MaxRev,  \* bounds of the model
    None

ASSUME EncountersAssumption ==
    /\ Root \in Heroes
    /\ Scene \in Nat \ {0} /\ Hour \in Nat \ {0} /\ LongRest \in Nat \ {0}
    /\ Naps \subseteq Nat \ {0}
    /\ Orders \subseteq {o \in Seq(Combatants) : IsInjective(o)}
    /\ Posts \subseteq [Combatants -> Cells]
    /\ MaxSaves \in Nat
    /\ None \notin [rev : Nat, dice : Seeds]

VARIABLES
    roomed, present,   \* an open room and the heroes whose player is in it
    sheet,             \* the character documents of the party
    clock, place,      \* adventuring_states, the adventure's location
    defense,           \* the adventure's DefenseOutcome
    fight, frev, fno,  \* the last encounter, its revision and its number
    asked,             \* request -> the combat command it carries
    held,              \* solo call -> the outcome it has computed
    receipt, answers   \* combat_action_receipts, what callers were told

party == <<roomed, present>>
calls == <<asked, held, receipt, answers>>
vars == <<party, sheet, clock, place, defense, fight, frev, fno, calls>>

NoFight == [acts |-> <<>>, order |-> <<>>, cur |-> 1, round |-> 1, active |-> FALSE,
            authored |-> FALSE, outcome |-> NoOutcome]
NoTimer == 0
NoRest == 0 - 1

Init ==
    /\ roomed = FALSE /\ present = {Root}
    /\ sheet = [h \in Heroes |-> [hp |-> MaxHp, dead |-> FALSE, succs |-> 0, fails |-> 0,
                                  stable |-> FALSE, arrows |-> 1, slots |-> 1,
                                  dice |-> 1, timer |-> NoTimer, rested |-> NoRest]]
    /\ clock = 0 /\ place = "town" /\ defense = "none"
    /\ fight = NoFight /\ frev = 0 /\ fno = 0
    /\ asked = [r \in Requests |-> None] /\ held = [c \in Callers |-> None]
    /\ receipt = [r \in Requests |-> None] /\ answers = [r \in Requests |-> {}]

-----------------------------------------------------------------------------
(* vitality::store_actor and the timer apply_hero_resources adds for a     *)
(* hero who has just become stable.                                        *)
Asleep(s) == s.hp = 0 /\ s.stable /\ ~s.dead
StoreVitalsOnly(s, a, now, nap) ==   \* the resources spent are not written
    [s EXCEPT !.hp = a.hp, !.dead = a.dead, !.succs = a.succs, !.fails = a.fails,
              !.stable = a.stable,
              !.timer = IF a.hp = 0 /\ a.stable THEN now + nap * Hour ELSE NoTimer]
Store(s, a, now, nap) ==
    LET t == [s EXCEPT !.hp = a.hp, !.dead = a.dead, !.succs = a.succs, !.fails = a.fails,
                       !.stable = a.stable, !.arrows = a.arrows, !.slots = a.slots]
    IN  [t EXCEPT !.timer = IF ~Asleep(t) THEN NoTimer
                            ELSE IF @ = NoTimer THEN now + nap * Hour ELSE @]

(* RecoveryEngine::passage: a downed hero rolls at most MaxSaves death     *)
(* saves; one who is stable wakes up when the timer has run out.           *)
PassageKeepsTimer(s, now, rolls, nap) ==   \* a woken hero keeps its timer
    IF Asleep(s) /\ now >= s.timer THEN Heal(s, 1) ELSE s
Saved(st, i, rolls) ==
    IF ~Dying(st.s) THEN st
    ELSE LET b == DeathSave(st.s, rolls[i])
         IN  [s |-> b, at |-> IF b.stable THEN clock + i ELSE st.at]
Passage(s, now, rolls, nap) ==
    LET ticks == IF now - clock < MaxSaves THEN now - clock ELSE MaxSaves
        saved[i \in 0..ticks] ==
            IF i = 0 THEN [s |-> s, at |-> clock] ELSE Saved(saved[i - 1], i, rolls)
        run == saved[ticks]
        timer == IF s.timer = NoTimer THEN run.at + nap * Hour ELSE s.timer
        woken == IF Asleep(run.s) /\ now >= timer THEN Heal(run.s, 1) ELSE run.s
    IN  IF s.hp > 0 \/ s.dead THEN s
        ELSE [woken EXCEPT !.timer = IF Asleep(woken) THEN timer ELSE NoTimer]

(* persist_clock, and write_clock: outside of combat time also passes for  *)
(* the heroes who are at the table.                                        *)
PersistClock(now) == now <= MaxClock /\ clock' = now
Elapse(sheets, now) ==
    /\ PersistClock(now)
    /\ \E rolls \in Streaks, nap \in Naps :
          sheet' = [h \in Heroes |-> IF h \in present THEN Passage(sheets[h], now, rolls, nap)
                                     ELSE sheets[h]]

(* persist_projection: the authored outcome moves the adventure on, the    *)
(* rounds played pass the clock, the heroes at the table get their sheets. *)
Commit(f, rounds, under) ==
    LET g == Finalize(f, FALSE)
        decided == g.outcome # NoOutcome /\ under = "active"
        beaten == decided /\ g.outcome = "defeated"
        h == IF beaten THEN RecoverDefeated(g) ELSE g
        now == clock + rounds + (IF beaten THEN Hour ELSE 0)
    IN  /\ PersistClock(now) /\ fight' = h
        /\ defense' = IF decided THEN g.outcome ELSE under
        /\ place' = CASE beaten -> "town"
                      [] decided /\ g.outcome = "retreated" -> "away"
                      [] OTHER -> place
        /\ \E nap \in Naps :
              sheet' = [x \in Heroes |->
                  IF x \in DOMAIN h.acts /\ ~h.acts[x].out
                  THEN Store(sheet[x], h.acts[x], now, nap) ELSE sheet[x]]

Rounds(f) == IF f.round > fight.round THEN f.round - fight.round
             ELSE IF f.active THEN 0 ELSE 1
Persist(f) ==
    /\ Commit(f, Rounds(Finalize(f, FALSE)), defense)
    /\ frev < MaxRev /\ frev' = frev + 1 /\ UNCHANGED fno

-----------------------------------------------------------------------------
(* Opening an encounter: bind_start takes the heroes at the table, the     *)
(* opponents that come first have moved before it is stored.               *)
Unhurt == [hp |-> MaxHp, dead |-> FALSE, succs |-> 0, fails |-> 0, stable |-> FALSE,
           arrows |-> 0, slots |-> 0]
Entering(s, cell) ==
    [hp |-> s.hp, dead |-> s.dead, succs |-> s.succs, fails |-> s.fails,
     stable |-> s.stable, arrows |-> s.arrows, slots |-> s.slots, out |-> FALSE,
     action |-> TRUE, bonus |-> TRUE, cast |-> FALSE, move |-> Speed, at |-> cell]
Open(authored, under) ==
    /\ ~fight.active /\ fno < MaxFights
    /\ \E order \in Orders, post \in Posts, seed \in Seeds :
          LET bound == present \cup Npcs
              actor(x) == Entering(IF x \in Heroes THEN sheet[x] ELSE Unhurt, post[x])
              st == Opening([x \in bound |-> actor(x)], order, authored, seed)
          IN  ToSet(order) = bound /\ st.ok /\ Commit(st.f, 0, under)
    /\ frev' = 0 /\ fno' = fno + 1
    /\ UNCHANGED <<party, calls>>

StartCombat == Open(FALSE, defense)

(* Action::StartDefense, in the transaction that persists the adventure:   *)
(* from the archive, not while a defense goes on or after one was held.    *)
StartDefense ==
    /\ place = "away" /\ defense \notin {"active", "held"}
    /\ \E h \in present : sheet[h].hp > 0
    /\ Open(TRUE, "active")

-----------------------------------------------------------------------------
(* Combat commands.  A request names the encounter and the revision its    *)
(* sender saw; sent again it is the same request.                          *)
Commands ==
    [kind : {"melee", "shoot", "missile"}, by : Heroes, on : Npcs, to : {0}]
    \cup [kind : {"heal"}, by : Heroes, on : Heroes, to : {0}]
    \cup [kind : {"move"}, by : Heroes, on : {Root}, to : Cells]
    \cup [kind : {"retreat", "end"}, by : Heroes, on : {Root}, to : {0}]
Sensible(f, c) == /\ {c.by, c.on} \subseteq DOMAIN f.acts /\ c.by \in present
                  /\ c.kind = "heal" => f.acts[c.on].hp < MaxHp
                  /\ c.kind = "move" => c.to # f.acts[c.by].at
                  /\ Allowed(f, c)

Ask(r) ==
    /\ asked[r] = None /\ fight.active
    /\ \E c \in Commands :
          /\ Sensible(fight, c)
          /\ asked' = [asked EXCEPT ![r] = [cmd |-> c, exp |-> frev, no |-> fno,
                                                   room |-> roomed]]
    /\ UNCHANGED <<party, sheet, clock, place, defense, fight, frev, fno, held,
                   receipt, answers>>

Answer(r, said) == answers' = [answers EXCEPT ![r] = @ \cup {said}]

(* A recorded request is answered from its receipt, on every path.         *)
Replay(r) ==
    /\ asked[r] # None /\ receipt[r] # None
    /\ Answer(r, receipt[r])
    /\ UNCHANGED <<party, sheet, clock, place, defense, fight, frev, fno, asked, held,
                   receipt>>

Fits(r) == asked[r].no = fno /\ asked[r].exp = frev /\ fight.active

(* execute: find_action finds nothing, get reads the projection and the    *)
(* outcome is computed with the dice of this call.                         *)
SoloCompute(c, r) ==
    /\ held[c] = None /\ asked[r] # None /\ receipt[r] = None
    /\ ~asked[r].room /\ Fits(r)
    /\ \E seed \in Seeds :
          LET st == Prepare(fight, asked[r].cmd, seed)
          IN  st.ok /\ held' = [held EXCEPT ![c] = [r |-> r, f |-> st.f, dice |-> seed]]
    /\ UNCHANGED <<party, sheet, clock, place, defense, fight, frev, fno, asked,
                   receipt, answers>>

(* commit_action: the receipt first, then the compare-and-set on the       *)
(* revision of an encounter that has not ended.                            *)
SoloCommitUnchecked(c) ==   \* trusts what was read before the transaction
    /\ held[c] # None /\ fight.active
    /\ held' = [held EXCEPT ![c] = None]
    /\ Persist(held[c].f)
    /\ receipt' = [receipt EXCEPT ![held[c].r] = [rev |-> frev + 1, dice |-> held[c].dice]]
    /\ Answer(held[c].r, receipt'[held[c].r])
    /\ UNCHANGED <<party, asked>>
SoloCommit(c) ==
    /\ held[c] # None
    /\ held' = [held EXCEPT ![c] = None]
    /\ LET r == held[c].r IN
       \/ /\ receipt[r] # None
          /\ Answer(r, receipt[r])
          /\ UNCHANGED <<sheet, clock, place, defense, fight, frev, fno, receipt>>
       \/ /\ receipt[r] = None /\ ~Fits(r)
          /\ UNCHANGED <<sheet, clock, place, defense, fight, frev, fno, receipt, answers>>
       \/ /\ receipt[r] = None /\ Fits(r)
          /\ Persist(held[c].f)
          /\ receipt' = [receipt EXCEPT ![r] = [rev |-> frev + 1, dice |-> held[c].dice]]
          /\ Answer(r, receipt'[r])
    /\ UNCHANGED <<party, asked>>

(* room_combat::act: lease, receipt, revision, dice and write in one       *)
(* transaction.                                                            *)
RoomAct(r) ==
    /\ roomed /\ asked[r] # None /\ receipt[r] = None /\ asked[r].room /\ Fits(r)
    /\ asked[r].cmd.by \in present
    /\ \E seed \in Seeds :
          LET st == Prepare(fight, asked[r].cmd, seed)
          IN  /\ st.ok /\ Persist(st.f)
              /\ receipt' = [receipt EXCEPT ![r] = [rev |-> frev + 1, dice |-> seed]]
    /\ Answer(r, receipt'[r])
    /\ UNCHANGED <<party, asked, held>>

(* The client drops a request and uses a new identity for its next one.    *)
Forget(r) ==
    /\ asked[r] # None /\ ~\E c \in Callers : held[c] # None /\ held[c].r = r
    /\ receipt[r] # None \/ ~Fits(r)
    /\ asked' = [asked EXCEPT ![r] = None]
    /\ receipt' = [receipt EXCEPT ![r] = None]
    /\ answers' = [answers EXCEPT ![r] = {}]
    /\ UNCHANGED <<party, sheet, clock, place, defense, fight, frev, fno, held>>

(* CombatRepository::end, the end_combat tool and route.                   *)
End ==
    /\ fight.active /\ MayEnd(fight)
    /\ Persist([fight EXCEPT !.active = FALSE])
    /\ UNCHANGED <<party, calls>>

-----------------------------------------------------------------------------
(* Membership: coming and going takes part in the encounter's transaction. *)
Seat(room, members) ==
    /\ roomed' = room /\ present' = members
    /\ \/ /\ ~fight.active \/ ~Changed(fight, members)
          /\ UNCHANGED <<sheet, clock, place, defense, fight, frev, fno>>
       \/ /\ fight.active /\ Changed(fight, members)
          /\ \E seed \in Seeds :
                LET st == Reconcile(fight, members, seed)
                IN  st.ok /\ Persist(st.f)
    /\ UNCHANGED calls

OpenRoom == ~roomed /\ Seat(TRUE, {Root})
CloseRoom == roomed /\ Seat(FALSE, {Root})
Return(h) == roomed /\ h \notin present /\ Seat(TRUE, present \cup {h})
Leave(h) == roomed /\ h \in present \ {Root} /\ Seat(TRUE, present \ {h})

-----------------------------------------------------------------------------
(* The world outside of combat.                                            *)
CalmAnyway == UNCHANGED <<party, fight, frev, fno, calls>>   \* combat is not asked for
Calm == ~fight.active /\ UNCHANGED <<party, fight, frev, fno, calls>>

(* An adventure action of a conscious hero, one scene long.                *)
AdventureAction(h, to) ==
    /\ Calm /\ h \in present /\ sheet[h].hp > 0 /\ defense # "active"
    /\ place' = to
    /\ Elapse(sheet, clock + Scene)
    /\ UNCHANGED defense

(* resolve_rest for one sheet: a long rest, a short one with or without a  *)
(* hit die, or a wait (of minutes, here a scene).                          *)
Rests == {"long", "dice", "short", "wait"}
Lasts(kind) == CASE kind = "long" -> LongRest [] kind = "wait" -> Scene [] OTHER -> Hour
Rested(s, kind, now) ==
    CASE kind = "long" -> [s EXCEPT !.hp = MaxHp, !.dice = 1, !.slots = 1, !.rested = now]
      [] kind = "dice" -> [s EXCEPT !.hp = IF @ < MaxHp THEN @ + 1 ELSE @, !.dice = @ - 1]
      [] OTHER -> s
MayRest(s, kind) ==
    /\ place = "town" /\ s.hp > 0
    /\ kind = "long" => s.rested = NoRest \/ clock - s.rested >= RestGap
    /\ kind = "dice" => s.dice > 0

(* A short rest is one hero's own, a long one in a room the whole party's; *)
(* both that and a wait are for the host to call.                          *)
Resters(h, kind) == IF kind = "long" THEN present ELSE {h}
Rest(h, kind) ==
    /\ Calm /\ h \in present
    /\ kind \in {"long", "wait"} => h = Root
    /\ LET now == clock + Lasts(kind)
           who == Resters(h, kind)
       IN  /\ \A x \in who : MayRest(sheet[x], kind)
           /\ Elapse([x \in Heroes |-> IF x \in who THEN Rested(sheet[x], kind, now)
                                       ELSE sheet[x]], now)
    /\ UNCHANGED <<place, defense>>

(* Recovery of a downed hero at the table: its own death save, another     *)
(* hero's aid, or waiting in safety until it wakes up.                     *)
RollDeathSave(h) ==
    /\ Calm /\ h \in present /\ sheet[h].hp = 0 /\ ~sheet[h].dead /\ ~sheet[h].stable
    /\ Elapse(sheet, clock + 1)
    /\ UNCHANGED <<place, defense>>

Aid(h, t) ==
    /\ Calm /\ roomed /\ {h, t} \subseteq present /\ h # t
    /\ Conscious(sheet[h]) /\ sheet[t].hp = 0 /\ ~sheet[t].dead /\ ~sheet[t].stable
    /\ \E helped \in BOOLEAN, nap \in Naps :
          Elapse(IF helped /\ Dying(sheet[t])
                 THEN [sheet EXCEPT ![t] = [NoSaves(sheet[t]) EXCEPT !.stable = TRUE,
                                              !.timer = clock + 1 + nap * Hour]]
                 ELSE sheet, clock + 1)
    /\ UNCHANGED <<place, defense>>

Wait(h, t) ==
    /\ Calm /\ {h, t} \subseteq present /\ place = "town" /\ Asleep(sheet[t])
    /\ h = t \/ Conscious(sheet[h])
    /\ \E nap \in Naps :
          LET timer == IF sheet[t].timer = NoTimer THEN clock + nap * Hour ELSE sheet[t].timer
          IN  Elapse([sheet EXCEPT ![t].timer = timer], IF timer > clock THEN timer ELSE clock)
    /\ UNCHANGED <<place, defense>>

-----------------------------------------------------------------------------
Next ==
    \/ StartCombat \/ StartDefense \/ End
    \/ \E r \in Requests : \/ Ask(r) \/ Replay(r) \/ RoomAct(r) \/ Forget(r)
                           \/ \E c \in Callers : SoloCompute(c, r)
    \/ \E c \in Callers : SoloCommit(c)
    \/ OpenRoom \/ CloseRoom
    \/ \E h \in Heroes : \/ Return(h) \/ Leave(h) \/ RollDeathSave(h)
                         \/ \E to \in {"town", "away"} : AdventureAction(h, to)
                         \/ \E kind \in Rests : Rest(h, kind)
                         \/ \E t \in Heroes : Aid(h, t) \/ Wait(h, t)

Spec == Init /\ [][Next]_vars

-----------------------------------------------------------------------------
(* While an encounter is open, the sheets of every hero bound to it say    *)
(* what the encounter says, for those whose player has left as well.       *)
Vitals(a) == <<a.hp, a.dead, a.succs, a.fails, a.stable, a.arrows, a.slots>>
SheetsFollowCombat ==
    fight.active => \A h \in Heroes \cap DOMAIN fight.acts :
        Vitals(sheet[h]) = Vitals(fight.acts[h])

(* vitality::read accepts every stored sheet: a combination it refuses     *)
(* would make the campaign unreadable.                                     *)
VitalityReadable ==
    \A h \in Heroes : LET s == sheet[h] IN
        /\ s.hp \in 0..MaxHp /\ s.succs \in 0..2 /\ s.fails \in 0..3
        /\ s.fails = 3 => s.dead
        /\ s.dead => s.hp = 0 /\ ~s.stable
        /\ s.stable => s.hp = 0 /\ s.succs = 0 /\ s.fails = 0
        /\ s.hp > 0 => s.succs = 0 /\ s.fails = 0
        /\ s.timer # NoTimer => s.stable
        /\ Asleep(s) => s.timer # NoTimer

(* A hero's wounds are one story, in the sheet as on the battle map.        *)
WoundsAgree == SheetsFollowCombat /\ VitalityReadable

(* An open encounter waits for a hero whose player is there and who can    *)
(* act, and whatever the dice, that hero can end its turn.                 *)
HeroToAct ==
    fight.active =>
        /\ Current(fight) \in Heroes \cap present
        /\ Standing(fight.acts[Current(fight)]) /\ AnyFoe(fight)
        /\ \A seed \in Seeds :
              Prepare(fight, [kind |-> "end", by |-> Current(fight), on |-> Root, to |-> 0],
                      seed).ok

(* The adventure is in its defense exactly while the authored encounter is *)
(* open; one that is over has told the adventure its outcome.              *)
DefenseHasItsFight ==
    /\ defense = "active" <=> fight.active /\ fight.authored
    /\ fight.authored /\ ~fight.active => defense = fight.outcome

(* A fight can go on, and when it is over the adventure knows.              *)
FightGoesOn == HeroToAct /\ DefenseHasItsFight

(* A request is answered with one outcome and one set of dice, however     *)
(* often it is sent and on whatever path.                                  *)
AnswersAgree ==
    \A r \in Requests : Cardinality(answers[r]) <= 1 /\ answers[r] \subseteq {receipt[r]}

(* Nobody comes back from the dead, the clock never goes back, and while   *)
(* an encounter stays open only its rounds pass it.                        *)
TimeAndDeath ==
    [][/\ \A h \in Heroes : sheet[h].dead => sheet'[h].dead
       /\ clock' >= clock
       /\ fight.active /\ fight'.active => clock' - clock = fight'.round - fight.round]_vars
=============================================================================

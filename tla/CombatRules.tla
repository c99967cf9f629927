---------------------------- MODULE CombatRules ----------------------------
(***************************************************************************)
(* The combat engine of app-domain/src/combat and app-application/src/     *)
(* combat as operators on a fight, a record                                *)
(*   [acts |-> Combatant -> actor, order |-> initiative, cur |-> index,    *)
(*    round, active, authored, outcome]                                    *)
(* The engine is pure: its dice come from a seed, here a function giving   *)
(* every combatant the one roll it makes in a call (1 fumble, 2 low,       *)
(* 3 high, 4 natural twenty).  The battle map is a corridor of cells with  *)
(* the exit at cell 0: paths, lines and reach become distances, and        *)
(* combatants in the way block it.  Temporary hit points, resistances and  *)
(* conditions other than Unconscious are never set by the program outside  *)
(* of tests and are left out; Unconscious is "no hit points".              *)
(***************************************************************************)
EXTENDS Integers, Sequences, FiniteSets, SequencesExt

CONSTANTS
    Heroes, Npcs,   \* bound party heroes; opponents the program plays
    MaxHp,          \* hit points of a fresh combatant
    Cells,          \* corridor cells 0..n, the exit is 0
    Speed,          \* cells a combatant may move in a turn
    StopRound       \* an authored encounter is held from this round on (4)

ASSUME RulesAssumption ==
    /\ Heroes \cap Npcs = {}
    /\ MaxHp \in Nat \ {0} /\ Speed \in Nat
    /\ StopRound \in Nat \ {0, 1}
    /\ Cells \subseteq Nat /\ IsFiniteSet(Cells)
    /\ IsFiniteSet(Heroes) /\ IsFiniteSet(Npcs)
    /\ Cardinality(Cells) >= Cardinality(Heroes \cup Npcs)  \* room for everybody

Combatants == Heroes \cup Npcs
NoOutcome == "none"

Conscious(a) == a.hp > 0 /\ ~a.dead
Standing(a) == Conscious(a) /\ ~a.out
Dying(a) == a.hp = 0 /\ ~a.dead /\ ~a.stable /\ a.fails < 3 /\ a.succs < 3

NoSaves(a) == [a EXCEPT !.succs = 0, !.fails = 0, !.stable = FALSE]

Failed(a, n) ==
    LET f == IF a.fails + n > 3 THEN 3 ELSE a.fails + n
    IN  [a EXCEPT !.fails = f, !.dead = @ \/ f = 3]

(* Damage with no temporary hit points in front of it: at zero it costs    *)
(* death saves, dropping to zero restarts them, overflow kills outright.   *)
Harm(a, n, crit) ==
    IF n = 0 \/ a.dead THEN a
    ELSE IF a.hp = 0
    THEN LET b == Failed([a EXCEPT !.stable = FALSE], IF crit THEN 2 ELSE 1)
         IN  [b EXCEPT !.dead = @ \/ n >= MaxHp]
    ELSE IF n >= a.hp
    THEN [NoSaves(a) EXCEPT !.hp = 0, !.dead = n - a.hp >= MaxHp]
    ELSE [a EXCEPT !.hp = @ - n]

Heal(a, n) ==
    IF a.dead \/ a.hp + n = 0 THEN a
    ELSE [NoSaves(a) EXCEPT !.hp = IF a.hp + n > MaxHp THEN MaxHp ELSE a.hp + n]

Succeeded(a) ==
    IF a.succs = 2 THEN [a EXCEPT !.succs = 0, !.fails = 0, !.stable = TRUE]
    ELSE [a EXCEPT !.succs = @ + 1]

DeathSave(a, roll) ==
    IF ~Dying(a) THEN a
    ELSE CASE roll = 4 -> Heal(a, 1)
           [] roll = 3 -> Succeeded(a)
           [] roll = 2 -> Failed(a, 1)
           [] OTHER    -> Failed(a, 2)

Refreshed(a) == [a EXCEPT !.action = TRUE, !.bonus = TRUE, !.cast = FALSE,
                          !.move = Speed]

Current(f) == f.order[f.cur]
AnyHero(f) == \E h \in DOMAIN f.acts : h \in Heroes /\ Standing(f.acts[h])
AnyFoe(f) == \E n \in DOMAIN f.acts : n \in Npcs /\ Conscious(f.acts[n])

Advance(f) ==
    IF f.cur = Len(f.order)
    THEN [f EXCEPT !.cur = 1, !.round = @ + 1]
    ELSE [f EXCEPT !.cur = @ + 1]

(* An authored encounter stops before a turn of its last round begins, or  *)
(* when nobody of the party is left standing.                              *)
AtBoundary(f) == f.authored /\ (f.round >= StopRound \/ ~AnyHero(f))

(* begin_current_turn: pass the absent, roll one death save for the downed *)
(* and stop at the first combatant able to act.                            *)
Visit(st, seed) ==
    IF st.found \/ AtBoundary(st.f) THEN [st EXCEPT !.found = TRUE]
    ELSE LET id == Current(st.f)
             a == st.f.acts[id]
             b == IF id \in Heroes /\ ~a.out THEN DeathSave(a, seed[id]) ELSE a
             g == [st.f EXCEPT !.acts[id] = IF Standing(b) THEN Refreshed(b) ELSE b]
         IN  IF Standing(b) THEN [f |-> g, found |-> TRUE]
             ELSE [f |-> Advance(g), found |-> FALSE]
BeginTurn(f, seed) ==
    LET begun[i \in 0..Len(f.order)] ==
            IF i = 0 THEN [f |-> f, found |-> FALSE] ELSE Visit(begun[i - 1], seed)
    IN  begun[Len(f.order)].f

EndTurn(f, seed) == BeginTurn(Advance(f), seed)

Apart(a, b) == IF a.at > b.at THEN a.at - b.at ELSE b.at - a.at
Taken(f, id) == {f.acts[o].at : o \in {o \in DOMAIN f.acts \ {id} : Standing(f.acts[o])}}
Path(from, to) == IF from < to THEN (from + 1)..to ELSE to..(from - 1)

(* resolve_attack: the roll decides between a miss, one point and, on a    *)
(* natural twenty or against a downed target next to the attacker, a       *)
(* critical hit.  A foe without hit points is dead.                        *)
Blow(f, by, on, roll) ==
    LET victim == f.acts[on]
        crit == roll = 4 \/ (roll = 3 /\ victim.hp = 0 /\ Apart(f.acts[by], victim) <= 1)
        hurt == IF roll <= 2 THEN victim ELSE Harm(victim, IF crit THEN 2 ELSE 1, crit)
        fate == IF on \in Npcs /\ hurt.hp = 0 THEN [hurt EXCEPT !.dead = TRUE] ELSE hurt
    IN  [f EXCEPT !.acts = [f.acts EXCEPT ![on] = fate, ![by].action = FALSE]]

(* resolve_weapon_attack: the blow costs its arrow.                        *)
Strike(f, by, on, roll, arrow) ==
    LET g == Blow(f, by, on, roll)
    IN  IF arrow THEN [g EXCEPT !.acts[by].arrows = @ - 1] ELSE g

(* resolve_npc_turn: walk to the nearest standing hero while the way is    *)
(* free, strike it if it is next to the opponent, end the turn.            *)
Prey(f) == {h \in Heroes \cap DOMAIN f.acts : Standing(f.acts[h])}
Nearest(f, id) == CHOOSE h \in Prey(f) : \A o \in Prey(f) :
                      Apart(f.acts[id], f.acts[h]) <= Apart(f.acts[id], f.acts[o])
StepTowards(f, id, aim) ==
    LET me == f.acts[id]
        next == IF me.at < f.acts[aim].at THEN me.at + 1 ELSE me.at - 1
    IN  IF Apart(me, f.acts[aim]) <= 1 \/ me.move = 0 \/ next \in Taken(f, id)
        THEN f
        ELSE [f EXCEPT !.acts[id] = [me EXCEPT !.at = next, !.move = me.move - 1]]
NpcTurn(f, id, seed) ==
    LET aim == Nearest(f, id)
        walked[i \in 0..Speed] ==
            IF i = 0 THEN f ELSE StepTowards(walked[i - 1], id, aim)
        near == walked[Speed]
        hit == IF Apart(near.acts[id], near.acts[aim]) <= 1 /\ near.acts[id].action
               THEN Strike(near, id, aim, seed[id], FALSE) ELSE near
    IN  EndTurn(IF Conscious(f.acts[id]) /\ Prey(f) # {} THEN hit ELSE f, seed)

(* settle_npcs_until plays every opponent up to the next hero's turn; it   *)
(* gives up (ok = FALSE) after one pass more than the order is long.       *)
SettleDone(f) ==
    \/ f.authored /\ f.round >= StopRound
    \/ ~AnyHero(f) \/ ~AnyFoe(f) \/ Current(f) \in Heroes
PlayNpc(st, seed) ==
    IF st.ok \/ SettleDone(st.f) THEN [st EXCEPT !.ok = TRUE]
    ELSE [st EXCEPT !.f = NpcTurn(st.f, Current(st.f), seed)]
Settle(f, seed) ==
    LET played[i \in 0..Len(f.order) + 1] ==
            IF i = 0 THEN [f |-> f, ok |-> FALSE] ELSE PlayNpc(played[i - 1], seed)
    IN  played[Len(f.order) + 1]

FinishIfResolved(f) == [f EXCEPT !.active = @ /\ AnyHero(f) /\ AnyFoe(f)]

(* authored::finalize: an authored encounter that is over gets its outcome *)
(* exactly once and stops.                                                 *)
FinalizeOpenOnly(f, retreat) ==   \* an encounter that has just stopped is skipped
    IF f.authored /\ f.active /\ (~AnyHero(f) \/ retreat)
    THEN [f EXCEPT !.outcome = IF AnyHero(f) THEN "retreated" ELSE "defeated", !.active = FALSE]
    ELSE f
Finalize(f, retreat) ==
    LET outcome == CASE ~AnyHero(f) -> "defeated"
                     [] AnyHero(f) /\ retreat -> "retreated"
                     [] AnyHero(f) /\ ~retreat /\ (~AnyFoe(f) \/ f.round >= StopRound) -> "held"
                     [] AnyHero(f) /\ ~retreat /\ AnyFoe(f) /\ f.round < StopRound
                            /\ ~f.active -> "retreated"
                     [] OTHER -> NoOutcome
    IN  IF ~f.authored \/ f.outcome # NoOutcome \/ outcome = NoOutcome THEN f
        ELSE [f EXCEPT !.outcome = outcome, !.active = FALSE]

Closed(st, retreat) == [st EXCEPT !.f = Finalize(FinishIfResolved(@), retreat)]
Refused(f) == [f |-> f, ok |-> FALSE]

(* What the current actor may do: guards of resolve and its helpers.       *)
Allowed(f, c) ==
    LET me == f.acts[c.by]
    IN  /\ ~me.out /\ Current(f) = c.by
        /\ c.kind # "end" => Conscious(me)
        /\ CASE c.kind \in {"melee", "shoot"} ->
                  LET it == f.acts[c.on]
                  IN  /\ c.on \in Npcs /\ ~it.out /\ ~it.dead /\ it.hp > 0 /\ me.action
                      /\ c.kind = "melee" => Apart(me, it) <= 1
                      /\ c.kind = "shoot" => me.arrows > 0
             [] c.kind = "heal" ->
                  LET it == f.acts[c.on]
                  IN  ~it.out /\ ~it.dead /\ me.bonus /\ ~me.cast /\ me.slots > 0
             [] c.kind = "missile" ->
                  LET it == f.acts[c.on]
                  IN  /\ c.on \in Npcs /\ ~it.out /\ ~it.dead /\ it.hp > 0
                      /\ me.action /\ ~me.cast /\ me.slots > 0
             [] c.kind = "move" ->
                  /\ Path(me.at, c.to) \cap Taken(f, c.by) = {}
                  /\ Cardinality(Path(me.at, c.to)) <= me.move
             [] c.kind = "retreat" -> f.authored /\ me.at = 0 /\ me.action
             [] OTHER -> TRUE

Perform(f, c, seed) ==
    LET me == f.acts[c.by]
        slot == [me EXCEPT !.slots = @ - 1, !.cast = TRUE]
    IN  CASE c.kind \in {"melee", "shoot"} -> Strike(f, c.by, c.on, seed[c.by], c.kind = "shoot")
          [] c.kind = "heal" ->
               LET g == [f EXCEPT !.acts[c.by] = [slot EXCEPT !.bonus = FALSE]]
               IN  [g EXCEPT !.acts[c.on] = Heal(@, 2)]
          [] c.kind = "missile" ->
               LET g == [f EXCEPT !.acts[c.by] = [slot EXCEPT !.action = FALSE]]
                   hurt == Harm(g.acts[c.on], 1, FALSE)
               IN  [g EXCEPT !.acts[c.on] = [hurt EXCEPT !.dead = hurt.dead \/ hurt.hp = 0]]
          [] c.kind = "move" ->
               LET cost == Cardinality(Path(me.at, c.to))
               IN  [f EXCEPT !.acts[c.by] = [me EXCEPT !.at = c.to, !.move = me.move - cost]]
          [] c.kind = "retreat" -> [f EXCEPT !.acts[c.by].action = FALSE]
          [] OTHER -> EndTurn(f, seed)

(* prepare_action: resolve, play the opponents, close what is over.        *)
Prepare(f, c, seed) ==
    IF ~f.active \/ ~Allowed(f, c) THEN Refused(f)
    ELSE Closed(Settle(Perform(f, c, seed), seed), c.kind = "retreat")

(* reconcile_participants: heroes whose player left stay withdrawn, a      *)
(* returning one is put on a free cell; if the turn belonged to somebody   *)
(* who left, it passes on.                                                 *)
Free(f, at) == LET free == Cells \ Taken(f, "nobody")
               IN  IF at \in free THEN at
                   ELSE CHOOSE c \in free : \A d \in free :
                       (IF c > at THEN c - at ELSE at - c) <= (IF d > at THEN d - at ELSE at - d)
ReconcileInPlace(f, present, seed) ==   \* the turn stays with whoever left
    [f |-> [f EXCEPT !.acts = [c \in DOMAIN f.acts |->
                IF c \in Heroes THEN [f.acts[c] EXCEPT !.out = c \notin present]
                ELSE f.acts[c]]], ok |-> TRUE]
Seated(f, id, present) ==
    LET it == f.acts[id]
        back == id \in present /\ it.out /\ Conscious(it)
        cell == IF back THEN Free(f, it.at) ELSE it.at
    IN  IF id \in Npcs THEN f
        ELSE [f EXCEPT !.acts[id] = [it EXCEPT !.out = id \notin present, !.at = cell]]
Reconcile(f, present, seed) ==
    LET reseated[i \in 0..Len(f.order)] ==
            IF i = 0 THEN f ELSE Seated(reseated[i - 1], f.order[i], present)
        seated == reseated[Len(f.order)]
    IN  IF seated.acts[Current(f)].out
        THEN Closed(Settle(BeginTurn(seated, seed), seed), FALSE)
        ELSE Closed([f |-> seated, ok |-> TRUE], FALSE)
Changed(f, present) ==
    \E h \in Heroes \cap DOMAIN f.acts : f.acts[h].out # (h \notin present)

(* bind_party: the first turn is begun and the opponents ahead of the      *)
(* first hero have played before anybody sees the encounter.               *)
Opening(acts, order, authored, seed) ==
    Closed(Settle(BeginTurn([acts |-> acts, order |-> order, cur |-> 1, round |-> 1,
                             active |-> TRUE, authored |-> authored, outcome |-> NoOutcome],
                            seed), seed), FALSE)

(* prepare_end: leaving an undecided authored encounter takes the exit and *)
(* the action of the hero whose turn it is.                                *)
MayEnd(f) ==
    \/ ~f.authored \/ f.outcome # NoOutcome \/ f.round >= StopRound
    \/ ~AnyFoe(f) \/ ~AnyHero(f)
    \/ LET me == f.acts[Current(f)]
       IN  Current(f) \in Heroes /\ me.at = 0 /\ me.action

RecoverDefeated(f) ==
    [f EXCEPT !.acts = [c \in DOMAIN f.acts |->
        IF c \in Heroes /\ ~f.acts[c].out /\ f.acts[c].hp = 0 THEN Heal(f.acts[c], 1)
        ELSE f.acts[c]]]
=============================================================================

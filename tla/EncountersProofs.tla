--------------------------- MODULE EncountersProofs ---------------------------
(***************************************************************************)
(* Proofs about Encounters and the rules of combat it rests on             *)
(* (CombatRules), for every number of heroes, opponents, requests and      *)
(* callers: a combatant's wounds in the fight and on its sheet are one     *)
(* and the same (WoundsAgree), a fight never waits for somebody who        *)
(* cannot act (FightGoesOn), and nobody comes back from the dead while     *)
(* the clock of the campaign counts the rounds (TimeAndDeath).             *)
(***************************************************************************)
EXTENDS Encounters, FiniteSetTheorems, WellFoundedInduction, SequenceTheorems, TLAPS

-----------------------------------------------------------------------------
(* Facts about numbers, and one combatant: vitality and its writers.       *)

(* Some number of a set of numbers is its smallest.                        *)
LEMMA Smallest ==
  ASSUME NEW S \in SUBSET Nat, S # {}
  PROVE  \E x \in S : \A y \in S : x <= y
<1>1. PICK x \in S : \A y \in S : <<y, x>> \notin OpToRel(<, Nat)
  BY WFMin, NatLessThanWellFounded
<1>2. \A y \in S : ~(y < x)
  BY <1>1 DEF OpToRel
<1> QED BY <1>2

(* Induction over the numbers up to n, with the property as a set.         *)
LEMMA UpTo ==
  ASSUME NEW n \in Nat, NEW P, 0 \in P, \A i \in 1..n : i - 1 \in P => i \in P
  PROVE  \A i \in 0..n : i \in P
<1> DEFINE Failing == {i \in 0..n : i \notin P}
<1> SUFFICES ASSUME Failing # {} PROVE FALSE
  OBVIOUS
<1>1. PICK i \in Failing : \A j \in Failing : i <= j
  <2>1. Failing \in SUBSET Nat
    OBVIOUS
  <2> HIDE DEF Failing
  <2> QED BY <2>1, Smallest
<1>2. i \in 0..n /\ i \notin P /\ i # 0
  BY <1>1
<1>3. i \in 1..n /\ i - 1 \in 0..n /\ ~(i <= i - 1)
  BY <1>2
<1>4. i - 1 \in P
  BY <1>1, <1>3
<1> QED BY <1>2, <1>3, <1>4

(* What is computed step after step has a value after each.                *)
LEMMA Iterates ==
  ASSUME NEW S, NEW x \in S, NEW n \in Nat, NEW next \in [1..n -> [S -> S]]
  PROVE  \E g \in [0..n -> S] : g[0] = x /\ \A i \in 1..n : g[i] = next[i][g[i - 1]]
<1> DEFINE Reaches(g, k) == g[0] = x /\ \A i \in 1..k : g[i] = next[i][g[i - 1]]
           Good == {k \in 0..n : \E g \in [0..k -> S] : Reaches(g, k)}
<1>1. 0 \in Good
  <2> DEFINE g == [i \in 0..0 |-> x]
  <2>1. Reaches(g, 0) /\ g \in [0..0 -> S] /\ 0 \in 0..n
    OBVIOUS
  <2> HIDE DEF g, Reaches
  <2> QED BY <2>1
<1>2. ASSUME NEW k \in 1..n, k - 1 \in Good PROVE k \in Good
  <2>1. PICK f \in [0..(k - 1) -> S] : Reaches(f, k - 1)
    BY <1>2
  <2>2. PICK v \in S : v = next[k][f[k - 1]]
    OBVIOUS
  <2> DEFINE g == [i \in 0..k |-> IF i = k THEN v ELSE f[i]]
  <2>3. g \in [0..k -> S]
    <3>1. \A i \in 0..k : i # k => i \in 0..(k - 1)
      OBVIOUS
    <3> QED BY <2>1, <2>2, <3>1
  <2>4. g[0] = x /\ g[k] = next[k][g[k - 1]]
    BY <2>1, <2>2
  <2>5. \A i \in 1..k : i # k => g[i] = f[i] /\ g[i - 1] = f[i - 1] /\ i \in 1..(k - 1)
    OBVIOUS
  <2>6. Reaches(g, k)
    <3> HIDE DEF g
    <3> QED BY <2>1, <2>4, <2>5
  <2> HIDE DEF g, Reaches
  <2> QED BY <2>3, <2>6
<1>3. n \in Good
  <2> HIDE DEF Good
  <2>1. \A k \in 1..n : k - 1 \in Good => k \in Good
    BY <1>2
  <2>2. \A k \in 0..n : k \in Good
    BY <1>1, <2>1, UpTo
  <2> QED BY <2>2
<1> QED BY <1>3

-----------------------------------------------------------------------------
(* One combatant.  Its wounds are readable (vitality::read) at every moment *)
(* of a fight.                                                              *)
Readable(a) ==
  /\ a.fails = 3 => a.dead
  /\ a.dead => a.hp = 0 /\ ~a.stable
  /\ a.stable => a.hp = 0 /\ a.succs = 0 /\ a.fails = 0
  /\ a.hp > 0 => a.succs = 0 /\ a.fails = 0
(* The values the fields of a combatant can have.                          *)
Actors == [hp : 0..MaxHp, dead : BOOLEAN, succs : 0..2, fails : 0..3, stable : BOOLEAN,
           arrows : Int, slots : Int, out : BOOLEAN, action : BOOLEAN, bonus : BOOLEAN,
           cast : BOOLEAN, move : Int, at : Int]
(* A combatant whose wounds are readable.                                  *)
Actor == {a \in Actors : Readable(a)}

(* What nothing in a fight does to a combatant: raise it from the dead,     *)
(* call it to the table or away, touch it while it is away.                 *)
Fate(a, b) ==
  /\ b.out = a.out /\ (a.dead => b.dead)
  /\ a.out => Vitals(b) = Vitals(a)

(* One field at a time.                                                    *)
LEMMA Updates ==
  ASSUME NEW a \in Actors
  PROVE  /\ \A v \in 0..MaxHp : [a EXCEPT !.hp = v] \in Actors
         /\ \A v \in BOOLEAN : [a EXCEPT !.dead = v] \in Actors
         /\ \A v \in 0..2 : [a EXCEPT !.succs = v] \in Actors
         /\ \A v \in 0..3 : [a EXCEPT !.fails = v] \in Actors
         /\ \A v \in BOOLEAN : [a EXCEPT !.stable = v] \in Actors
         /\ \A v \in BOOLEAN : [a EXCEPT !.out = v] \in Actors
<1>1. ASSUME NEW v \in 0..MaxHp PROVE [a EXCEPT !.hp = v] \in Actors
  BY DEF Actors
<1>2. ASSUME NEW v \in BOOLEAN PROVE [a EXCEPT !.dead = v] \in Actors
  BY DEF Actors
<1>3. ASSUME NEW v \in 0..2 PROVE [a EXCEPT !.succs = v] \in Actors
  BY DEF Actors
<1>4. ASSUME NEW v \in 0..3 PROVE [a EXCEPT !.fails = v] \in Actors
  BY DEF Actors
<1>5. ASSUME NEW v \in BOOLEAN PROVE [a EXCEPT !.stable = v] \in Actors
  BY DEF Actors
<1>6. ASSUME NEW v \in BOOLEAN PROVE [a EXCEPT !.out = v] \in Actors
  BY DEF Actors
<1> QED BY <1>1, <1>2, <1>3, <1>4, <1>5, <1>6

(* What is spent and where one stands are fields like the others.          *)
LEMMA Spends ==
  ASSUME NEW a \in Actors
  PROVE  /\ \A v \in Int : [a EXCEPT !.arrows = v] \in Actors
         /\ \A v \in Int : [a EXCEPT !.slots = v] \in Actors
         /\ \A v \in BOOLEAN : [a EXCEPT !.action = v] \in Actors
         /\ \A v \in BOOLEAN : [a EXCEPT !.bonus = v] \in Actors
         /\ \A v \in BOOLEAN : [a EXCEPT !.cast = v] \in Actors
         /\ \A v \in Int : [a EXCEPT !.move = v] \in Actors
         /\ \A v \in Int : [a EXCEPT !.at = v] \in Actors
<1>1. ASSUME NEW v \in Int PROVE [a EXCEPT !.arrows = v] \in Actors
  BY DEF Actors
<1>2. ASSUME NEW v \in Int PROVE [a EXCEPT !.slots = v] \in Actors
  BY DEF Actors
<1>3. ASSUME NEW v \in BOOLEAN PROVE [a EXCEPT !.action = v] \in Actors
  BY DEF Actors
<1>4. ASSUME NEW v \in BOOLEAN PROVE [a EXCEPT !.bonus = v] \in Actors
  BY DEF Actors
<1>5. ASSUME NEW v \in BOOLEAN PROVE [a EXCEPT !.cast = v] \in Actors
  BY DEF Actors
<1>6. ASSUME NEW v \in Int PROVE [a EXCEPT !.move = v] \in Actors
  BY DEF Actors
<1>7. ASSUME NEW v \in Int PROVE [a EXCEPT !.at = v] \in Actors
  BY DEF Actors
<1> QED BY <1>1, <1>2, <1>3, <1>4, <1>5, <1>6, <1>7

(* vitality::clear_death_saves takes the saves away, and nothing else.     *)
LEMMA NoSavesSet ==
  ASSUME NEW a \in Actors
  PROVE  LET b == NoSaves(a) IN
         /\ b \in Actors /\ b.succs = 0 /\ b.fails = 0 /\ b.stable = FALSE /\ b.out = a.out
         /\ b.hp = a.hp /\ b.dead = a.dead
<1>0. 0 \in 0..2 /\ 0 \in 0..3
  OBVIOUS
<1>1. PICK b \in Actors : b = [a EXCEPT !.succs = 0]
  BY <1>0, Updates, Zenon
<1>2. PICK c \in Actors : c = [b EXCEPT !.fails = 0]
  BY <1>0, Updates, Zenon
<1>3. [c EXCEPT !.stable = FALSE] \in Actors
  BY Updates
<1>4. NoSaves(a) = [c EXCEPT !.stable = FALSE]
  BY <1>1, <1>2 DEF NoSaves
<1>5. LET d == NoSaves(a) IN
      /\ d.succs = 0 /\ d.fails = 0 /\ d.stable = FALSE /\ d.out = a.out
      /\ d.hp = a.hp /\ d.dead = a.dead
  BY DEF Actors, NoSaves
<1> QED BY <1>3, <1>4, <1>5

(* A failed save counts up to three, and the third one kills.              *)
LEMMA FailedSet ==
  ASSUME NEW a \in Actors, NEW n \in 1..2
  PROVE  LET b == Failed(a, n) IN
         /\ b \in Actors /\ b.fails \in 1..3 /\ (b.dead <=> a.dead \/ b.fails = 3)
         /\ b.out = a.out /\ b.hp = a.hp /\ b.succs = a.succs /\ b.stable = a.stable
<1>1. PICK f \in 1..3 : f = IF a.fails + n > 3 THEN 3 ELSE a.fails + n
  BY DEF Actors
<1>2. PICK d \in BOOLEAN : d = (a.dead \/ f = 3)
  OBVIOUS
<1>3. Failed(a, n) = [a EXCEPT !.fails = f, !.dead = d]
  BY <1>1, <1>2 DEF Failed
<1>4. PICK b \in Actors : b = [a EXCEPT !.fails = f]
  <2>1. f \in 0..3
    OBVIOUS
  <2> QED BY <2>1, Updates, Zenon
<1>5. [b EXCEPT !.dead = d] \in Actors
  BY Updates
<1>6. [a EXCEPT !.fails = f, !.dead = d] = [b EXCEPT !.dead = d]
  BY <1>4
<1>7. LET c == [a EXCEPT !.fails = f, !.dead = d] IN
      /\ c.fails = f /\ c.dead = d
      /\ c.out = a.out /\ c.hp = a.hp /\ c.succs = a.succs /\ c.stable = a.stable
  BY DEF Actors
<1> QED BY <1>2, <1>3, <1>5, <1>6, <1>7

(* Blows, healing and death saves keep a combatant's wounds readable, and  *)
(* nobody comes back from the dead.                                        *)
LEMMA HarmHurts ==
  ASSUME NEW a \in Actor, NEW n \in 1..2, NEW crit \in BOOLEAN
  PROVE  /\ Harm(a, n, crit) \in Actor /\ Harm(a, n, crit).out = a.out
         /\ a.dead => Harm(a, n, crit).dead
         /\ a.hp > 0 => ~Harm(a, n, crit).stable
         /\ a.hp = 0 => Harm(a, n, crit).hp = 0
<1>0. a \in Actors /\ Readable(a) /\ a.hp \in 0..MaxHp /\ MaxHp \in Nat \ {0} /\ a.dead \in BOOLEAN
  BY RulesAssumption DEF Actor, Actors
<1> DEFINE h == Harm(a, n, crit)
<1>1. CASE a.dead
  <2>1. Harm(a, n, crit) = a /\ a.hp = 0
    BY <1>0, <1>1 DEF Harm, Readable
  <2> QED BY <1>1, <2>1
<1>2. CASE ~a.dead /\ a.hp = 0
  <2>1. PICK u \in Actors : u = [a EXCEPT !.stable = FALSE]
    BY <1>0, Updates
  <2>2. u.stable = FALSE /\ u.hp = 0 /\ u.out = a.out
    BY <1>0, <1>2, <2>1 DEF Actors
  <2>3. PICK m \in 1..2 : m = IF crit THEN 2 ELSE 1
    OBVIOUS
  <2>4. PICK b : b = Failed(u, m)
    OBVIOUS
  <2>5. /\ b \in Actors /\ b.fails \in 1..3 /\ (b.dead <=> u.dead \/ b.fails = 3)
        /\ b.out = u.out /\ b.hp = u.hp /\ b.stable = u.stable
    <3>1. LET c == Failed(u, m) IN
          /\ c \in Actors /\ c.fails \in 1..3 /\ (c.dead <=> u.dead \/ c.fails = 3)
          /\ c.out = u.out /\ c.hp = u.hp /\ c.succs = u.succs /\ c.stable = u.stable
      BY <2>1, <2>3, FailedSet, Zenon
    <3> QED BY <2>4, <3>1
  <2>6. PICK d \in BOOLEAN : d = (b.dead \/ n >= MaxHp)
    OBVIOUS
  <2>7. h = [b EXCEPT !.dead = d]
    BY <1>2, <2>1, <2>3, <2>4, <2>6 DEF Harm
  <2>8. h \in Actors
    <3>1. \A v \in BOOLEAN : [b EXCEPT !.dead = v] \in Actors
      BY <2>5, Updates, Zenon
    <3> QED BY <2>6, <2>7, <3>1, Zenon
  <2>9. h.dead = d /\ h.out = b.out /\ h.hp = b.hp /\ h.fails = b.fails /\ h.stable = b.stable
    BY <2>5, <2>7 DEF Actors
  <2> HIDE DEF h
  <2>10. h.hp = 0 /\ h.stable = FALSE /\ h.out = a.out /\ (h.fails = 3 => h.dead)
    BY <2>2, <2>5, <2>6, <2>9
  <2>11. Readable(h)
    BY <2>10 DEF Readable
  <2>12. h \in Actor /\ h.out = a.out /\ h.hp = 0
    BY <2>8, <2>10, <2>11 DEF Actor
  <2> QED BY <1>2, <2>12 DEF h
<1>3. CASE ~a.dead /\ a.hp > 0 /\ n >= a.hp
  <2>1. PICK u : u = NoSaves(a)
    OBVIOUS
  <2>2. u \in Actors /\ u.succs = 0 /\ u.fails = 0 /\ u.stable = FALSE /\ u.out = a.out
    BY <1>0, <2>1, NoSavesSet
  <2>3. PICK d \in BOOLEAN : d = (n - a.hp >= MaxHp /\ TRUE)
    OBVIOUS
  <2>4. PICK b \in Actors : b = [u EXCEPT !.hp = 0]
    <3>1. 0 \in 0..MaxHp
      BY <1>0
    <3> QED BY <2>2, <3>1, Updates, Zenon
  <2>5. h = [u EXCEPT !.hp = 0, !.dead = d]
    BY <1>0, <1>3, <2>1, <2>3 DEF Harm
  <2>6. h = [b EXCEPT !.dead = d]
    BY <2>4, <2>5
  <2>7. h \in Actors
    BY <2>4, <2>6, Updates
  <2>8. h.hp = 0 /\ h.out = u.out /\ h.fails = u.fails /\ h.succs = u.succs /\ h.stable = u.stable
    BY <2>2, <2>5 DEF Actors
  <2> HIDE DEF h
  <2>9. Readable(h)
    BY <2>2, <2>8 DEF Readable
  <2>10. h \in Actor /\ h.out = a.out /\ ~h.stable
    BY <2>2, <2>7, <2>8, <2>9 DEF Actor
  <2> QED BY <1>3, <2>10 DEF h
<1>4. CASE ~a.dead /\ a.hp > 0 /\ ~(n >= a.hp)
  <2>1. a.hp - n \in 1..MaxHp
    BY <1>0, <1>4
  <2>2. h = [a EXCEPT !.hp = a.hp - n]
    BY <1>0, <1>4 DEF Harm
  <2>3. h \in Actors
    <3>1. a.hp - n \in 0..MaxHp
      BY <1>0, <2>1
    <3> QED BY <1>0, <2>2, <3>1, Updates, Zenon
  <2>4. /\ h.hp = a.hp - n /\ h.out = a.out
        /\ h.dead = a.dead /\ h.succs = a.succs /\ h.fails = a.fails /\ h.stable = a.stable
    BY <1>0, <2>2 DEF Actors
  <2> HIDE DEF h
  <2>5. Readable(h)
    BY <1>0, <1>4, <2>1, <2>4 DEF Readable
  <2>6. h \in Actor /\ h.out = a.out /\ ~h.stable
    BY <1>0, <1>4, <2>3, <2>4, <2>5 DEF Actor, Readable
  <2> QED BY <1>4, <2>6 DEF h
<1> QED BY <1>0, <1>1, <1>2, <1>3, <1>4

(* Healing gives hit points to whoever lives, and raises nobody.           *)
LEMMA HealHeals ==
  ASSUME NEW a \in Actor, NEW n \in 1..2
  PROVE  /\ Heal(a, n) \in Actor /\ Heal(a, n).out = a.out /\ (Heal(a, n).dead <=> a.dead)
         /\ ~a.dead => Heal(a, n).hp > 0
<1>0. a \in Actors /\ Readable(a) /\ a.hp \in 0..MaxHp /\ MaxHp \in Nat \ {0} /\ a.dead \in BOOLEAN
  BY RulesAssumption DEF Actor, Actors
<1>1. CASE a.dead
  BY <1>1 DEF Heal
<1>2. CASE ~a.dead
  <2> DEFINE h == Heal(a, n)
  <2>1. PICK u : u = NoSaves(a)
    OBVIOUS
  <2>2. /\ u \in Actors /\ u.succs = 0 /\ u.fails = 0 /\ u.stable = FALSE /\ u.out = a.out
        /\ u.dead = a.dead
    BY <1>0, <2>1, NoSavesSet
  <2>3. PICK v \in 1..MaxHp : v = IF a.hp + n > MaxHp THEN MaxHp ELSE a.hp + n
    BY <1>0
  <2>4. h = [u EXCEPT !.hp = v]
    BY <1>0, <1>2, <2>1, <2>3 DEF Heal
  <2>5. h \in Actors
    <3>1. v \in 0..MaxHp
      BY <1>0
    <3> QED BY <2>2, <2>4, <3>1, Updates, Zenon
  <2>6. /\ h.hp = v /\ h.out = u.out
        /\ h.dead = u.dead /\ h.succs = u.succs /\ h.fails = u.fails /\ h.stable = u.stable
    BY <2>2, <2>4 DEF Actors
  <2> HIDE DEF h
  <2>7. Readable(h)
    BY <1>2, <2>2, <2>6 DEF Readable
  <2>8. h \in Actor
    BY <2>5, <2>7 DEF Actor
  <2> QED BY <1>2, <2>2, <2>3, <2>6, <2>8 DEF h
<1> QED BY <1>0, <1>1, <1>2

(* A death save leaves the wounds readable and does nothing to those who   *)
(* stand.                                                                  *)
LEMMA SavesCount ==
  ASSUME NEW a \in Actor, NEW roll
  PROVE  /\ DeathSave(a, roll) \in Actor /\ DeathSave(a, roll).out = a.out
         /\ a.dead => DeathSave(a, roll).dead
         /\ Standing(a) => DeathSave(a, roll) = a
<1>1. CASE Dying(a)
  <2>0. a \in Actors /\ Readable(a) /\ a.hp = 0 /\ ~a.dead /\ ~a.stable /\ a.succs \in 0..2
    BY <1>1 DEF Actor, Actors, Dying
  <2>1. Heal(a, 1) \in Actor /\ Heal(a, 1).out = a.out
    BY HealHeals
  <2>2. Succeeded(a) \in Actor /\ Succeeded(a).out = a.out
    <3> DEFINE h == Succeeded(a)
    <3>1. CASE a.succs = 2
      <4>1. h = [a EXCEPT !.succs = 0, !.fails = 0, !.stable = TRUE]
        BY <3>1 DEF Succeeded
      <4>0. 0 \in 0..2 /\ 0 \in 0..3
        OBVIOUS
      <4>2. PICK b \in Actors : b = [a EXCEPT !.succs = 0]
        BY <2>0, <4>0, Updates, Zenon
      <4>3. PICK c \in Actors : c = [b EXCEPT !.fails = 0]
        BY <4>0, Updates, Zenon
      <4>4. h = [c EXCEPT !.stable = TRUE]
        BY <4>1, <4>2, <4>3
      <4>5. h \in Actors
        BY <4>4, Updates
      <4>6. /\ h.succs = 0 /\ h.fails = 0 /\ h.stable = TRUE
            /\ h.hp = a.hp /\ h.dead = a.dead /\ h.out = a.out
        BY <2>0, <4>1 DEF Actors
      <4> HIDE DEF h
      <4>7. Readable(h)
        BY <2>0, <4>6 DEF Readable
      <4> QED BY <4>5, <4>6, <4>7 DEF Actor, h
    <3>2. CASE a.succs # 2
      <4>1. a.succs + 1 \in 0..2
        BY <2>0, <3>2
      <4>2. h = [a EXCEPT !.succs = a.succs + 1]
        BY <3>2 DEF Succeeded
      <4>3. h \in Actors
        BY <2>0, <4>1, <4>2, Updates
      <4>4. h.fails = a.fails /\ h.stable = a.stable /\ h.hp = a.hp /\ h.dead = a.dead /\ h.out = a.out
        BY <2>0, <4>2 DEF Actors
      <4> HIDE DEF h
      <4>5. Readable(h)
        BY <2>0, <4>4 DEF Readable
      <4> QED BY <4>3, <4>4, <4>5 DEF Actor, h
    <3> QED BY <3>1, <3>2
  <2>3. \A n \in 1..2 : Failed(a, n) \in Actor /\ Failed(a, n).out = a.out
    <3> SUFFICES ASSUME NEW n \in 1..2 PROVE Failed(a, n) \in Actor /\ Failed(a, n).out = a.out
      OBVIOUS
    <3> DEFINE b == Failed(a, n)
    <3>1. /\ b \in Actors /\ b.fails \in 1..3 /\ (b.dead <=> a.dead \/ b.fails = 3)
          /\ b.out = a.out /\ b.hp = a.hp /\ b.stable = a.stable
      BY <2>0, FailedSet
    <3> HIDE DEF b
    <3>2. Readable(b)
      BY <2>0, <3>1 DEF Readable
    <3> QED BY <3>1, <3>2 DEF Actor, b
  <2> QED BY <1>1, <2>1, <2>2, <2>3 DEF DeathSave, Dying, Standing, Conscious
<1>2. CASE ~Dying(a)
  BY <1>2 DEF DeathSave
<1> QED BY <1>1, <1>2

(* A turn's new resources change nobody's wounds.                          *)
LEMMA RefreshedStays ==
  ASSUME NEW a \in Actor
  PROVE  /\ Refreshed(a) \in Actor /\ Refreshed(a).out = a.out /\ Vitals(Refreshed(a)) = Vitals(a)
         /\ (Standing(Refreshed(a)) <=> Standing(a)) /\ (Refreshed(a).dead <=> a.dead)
<1> DEFINE h == Refreshed(a)
<1>0. a \in Actors /\ Readable(a) /\ Speed \in Nat
  BY RulesAssumption DEF Actor
<1>1. PICK b \in Actors : b = [a EXCEPT !.action = TRUE]
  BY <1>0, Spends
<1>2. PICK c \in Actors : c = [b EXCEPT !.bonus = TRUE]
  BY Spends
<1>3. PICK d \in Actors : d = [c EXCEPT !.cast = FALSE]
  BY Spends
<1>4. h = [d EXCEPT !.move = Speed]
  BY <1>1, <1>2, <1>3 DEF Refreshed
<1>5. h \in Actors
  BY <1>0, <1>4, Spends
<1>6. /\ h.hp = a.hp /\ h.dead = a.dead /\ h.succs = a.succs /\ h.fails = a.fails
      /\ h.stable = a.stable /\ h.arrows = a.arrows /\ h.slots = a.slots /\ h.out = a.out
  BY <1>0 DEF Actors, Refreshed
<1> HIDE DEF h
<1>7. Readable(h)
  BY <1>0, <1>6 DEF Readable
<1> QED BY <1>5, <1>6, <1>7 DEF Actor, Vitals, Standing, Conscious, h

-----------------------------------------------------------------------------
(* Fights, their orders, and how far ahead in the order somebody is.       *)

(* A fight between the combatants of an initiative order.                  *)
Turns == {o \in Seq(Combatants) : o # <<>>}
(* A fight between the combatants of one order.                            *)
Fights(o) ==
  [acts : [ToSet(o) -> Actor], order : {o}, cur : 1..Len(o), round : Nat,
   active : BOOLEAN, authored : BOOLEAN,
   outcome : {"none", "retreated", "defeated", "held"}]

(* What the engine does to a fight until somebody closes it.               *)
Ran(f, g) ==
  /\ g.round >= f.round
  /\ (g.active <=> f.active) /\ (g.authored <=> f.authored) /\ g.outcome = f.outcome
  /\ \A x \in DOMAIN f.acts : Fate(f.acts[x], g.acts[x])

(* Nothing that is allowed once is forbidden twice.                        *)
LEMMA FateHolds ==
  /\ \A a : Fate(a, a)
  /\ \A a, b, c : Fate(a, b) /\ Fate(b, c) => Fate(a, c)
BY DEF Fate

(* What the engine does, done again, is something the engine does.         *)
LEMMA RanHolds ==
  ASSUME NEW o \in Turns
  PROVE  /\ \A f \in Fights(o) : Ran(f, f)
         /\ \A f, g, h \in Fights(o) : Ran(f, g) /\ Ran(g, h) => Ran(f, h)
<1>1. ASSUME NEW f \in Fights(o) PROVE Ran(f, f)
  BY FateHolds DEF Fights, Ran
<1>2. ASSUME NEW f \in Fights(o), NEW g \in Fights(o), NEW h \in Fights(o),
             Ran(f, g), Ran(g, h)
      PROVE  Ran(f, h)
  <2>1. f.round \in Nat /\ g.round \in Nat /\ h.round \in Nat
        /\ DOMAIN f.acts = ToSet(o) /\ DOMAIN g.acts = ToSet(o)
    BY DEF Fights
  <2>2. \A x \in ToSet(o) : Fate(f.acts[x], h.acts[x])
    BY <1>2, <2>1, FateHolds DEF Ran
  <2>3. h.round >= f.round
    BY <1>2, <2>1 DEF Ran
  <2> QED BY <1>2, <2>1, <2>2, <2>3 DEF Ran
<1> QED BY <1>1, <1>2

(* The turn of an order is one of its combatants.                          *)
LEMMA OnTurn ==
  ASSUME NEW o \in Turns, NEW f \in Fights(o)
  PROVE  /\ Len(o) \in Nat \ {0} /\ f.order = o /\ f.cur \in 1..Len(o)
         /\ Current(f) = o[f.cur] /\ Current(f) \in ToSet(o)
         /\ ToSet(o) \subseteq Combatants /\ DOMAIN f.acts = ToSet(o)
         /\ \A x \in ToSet(o) : f.acts[x] \in Actor
         /\ \A p \in 1..Len(o) : o[p] \in ToSet(o)
         /\ \A x \in ToSet(o) : \E p \in 1..Len(o) : o[p] = x
<1>1. Len(o) \in Nat \ {0} /\ DOMAIN o = 1..Len(o) /\ \A p \in 1..Len(o) : o[p] \in Combatants
  BY DEF Turns
<1>2. \A p \in 1..Len(o) : o[p] \in ToSet(o)
  BY <1>1 DEF ToSet
<1>3. \A x \in ToSet(o) : \E p \in 1..Len(o) : o[p] = x
  BY <1>1 DEF ToSet
<1>4. f.order = o /\ f.cur \in 1..Len(o) /\ DOMAIN f.acts = ToSet(o)
      /\ \A x \in ToSet(o) : f.acts[x] \in Actor
  BY DEF Fights
<1> QED BY <1>1, <1>2, <1>3, <1>4 DEF Current

(* One combatant is touched.                                               *)
With(f, id, b) == [f EXCEPT !.acts[id] = b]

(* One combatant is put in the place of its former self.                   *)
LEMMA Touched ==
  ASSUME NEW o \in Turns, NEW f \in Fights(o), NEW id \in ToSet(o), NEW b \in Actor
  PROVE  LET g == With(f, id, b) IN
         /\ g \in Fights(o)
         /\ g.cur = f.cur /\ g.round = f.round /\ g.order = o
         /\ (g.active <=> f.active) /\ (g.authored <=> f.authored) /\ g.outcome = f.outcome
         /\ g.acts[id] = b
         /\ \A x \in ToSet(o) : x # id => g.acts[x] = f.acts[x]
         /\ Fate(f.acts[id], b) => Ran(f, g)
<1>0. PICK g : g = With(f, id, b)
  OBVIOUS
<1>1. PICK acts \in [ToSet(o) -> Actor] : acts = [f.acts EXCEPT ![id] = b]
  BY DEF Fights
<1>2. g = [f EXCEPT !.acts = acts]
  BY <1>0, <1>1 DEF Fights, With
<1>3. g \in Fights(o)
  BY <1>2 DEF Fights
<1>4. /\ g.cur = f.cur /\ g.round = f.round /\ g.order = o
      /\ (g.active <=> f.active) /\ (g.authored <=> f.authored) /\ g.outcome = f.outcome
      /\ g.acts = acts
  BY <1>2 DEF Fights
<1>5. acts[id] = b /\ \A x \in ToSet(o) : x # id => acts[x] = f.acts[x]
  BY <1>1 DEF Fights
<1>6. ASSUME Fate(f.acts[id], b) PROVE Ran(f, g)
  <2>1. \A x \in ToSet(o) : Fate(f.acts[x], acts[x])
    BY <1>5, <1>6, FateHolds
  <2>2. DOMAIN f.acts = ToSet(o) /\ f.round \in Nat
    BY DEF Fights
  <2> QED BY <1>4, <2>1, <2>2 DEF Ran
<1>7. g \in Fights(o) /\ g.cur = f.cur /\ g.round = f.round /\ g.order = o
      /\ (g.active <=> f.active) /\ (g.authored <=> f.authored) /\ g.outcome = f.outcome
      /\ g.acts[id] = b /\ (\A x \in ToSet(o) : x # id => g.acts[x] = f.acts[x])
  BY <1>3, <1>4, <1>5
<1> QED BY <1>0, <1>6, <1>7

(* A combatant is put in the place of its former self, and its fate is     *)
(* kept.                                                                   *)
LEMMA FateTouch ==
  ASSUME NEW o \in Turns, NEW f \in Fights(o), NEW id \in ToSet(o), NEW b \in Actor,
         Fate(f.acts[id], b), NEW g, g = With(f, id, b)
  PROVE  /\ g \in Fights(o) /\ g.cur = f.cur /\ Ran(f, g) /\ g.acts[id] = b
         /\ \A x \in ToSet(o) : x # id => g.acts[x] = f.acts[x]
BY Touched

(* How many turns pass before it is the turn at a place of the order.      *)
Ahead(o, c, p) == IF p >= c THEN p - c ELSE p - c + Len(o)

(* advance_turn comes one step nearer to everybody but the one on turn.    *)
LEMMA Advances ==
  ASSUME NEW o \in Turns, NEW f \in Fights(o)
  PROVE  /\ Advance(f) \in Fights(o) /\ Ran(f, Advance(f)) /\ Advance(f).acts = f.acts
         /\ \A p \in 1..Len(o) : p # f.cur =>
               Ahead(o, Advance(f).cur, p) = Ahead(o, f.cur, p) - 1
<1> DEFINE g == Advance(f)
<1>0. Len(o) \in Nat \ {0} /\ f.order = o /\ f.cur \in 1..Len(o) /\ f.round \in Nat
  BY OnTurn DEF Fights
<1>1. CASE f.cur = Len(o)
  <2>1. g = [f EXCEPT !.cur = 1, !.round = f.round + 1]
    BY <1>0, <1>1 DEF Advance
  <2>2. PICK h : h = [f EXCEPT !.cur = 1]
    OBVIOUS
  <2>3. h \in Fights(o) /\ h.round = f.round
    BY <1>0, <2>2 DEF Fights
  <2>4. g = [h EXCEPT !.round = f.round + 1]
    BY <2>1, <2>2
  <2>5. g \in Fights(o)
    BY <1>0, <2>3, <2>4 DEF Fights
  <2>6. /\ g.cur = 1 /\ g.round = f.round + 1 /\ (g.active <=> f.active)
        /\ (g.authored <=> f.authored) /\ g.outcome = f.outcome /\ g.acts = f.acts
    BY <2>1 DEF Fights
  <2> HIDE DEF g
  <2>7. Ran(f, g)
    BY <1>0, <2>6, FateHolds DEF Ran
  <2>8. \A p \in 1..Len(o) : p # f.cur => Ahead(o, g.cur, p) = Ahead(o, f.cur, p) - 1
    BY <1>0, <1>1, <2>6 DEF Ahead
  <2> QED BY <2>5, <2>6, <2>7, <2>8 DEF g
<1>2. CASE f.cur # Len(o)
  <2>1. g = [f EXCEPT !.cur = f.cur + 1] /\ f.cur + 1 \in 1..Len(o)
    BY <1>0, <1>2 DEF Advance
  <2>5. g \in Fights(o)
    BY <2>1 DEF Fights
  <2>6. /\ g.cur = f.cur + 1 /\ g.round = f.round /\ (g.active <=> f.active)
        /\ (g.authored <=> f.authored) /\ g.outcome = f.outcome /\ g.acts = f.acts
    BY <2>1 DEF Fights
  <2> HIDE DEF g
  <2>7. Ran(f, g)
    BY <1>0, <2>6, FateHolds DEF Ran
  <2>8. \A p \in 1..Len(o) : p # f.cur => Ahead(o, g.cur, p) = Ahead(o, f.cur, p) - 1
    BY <1>0, <1>2, <2>6 DEF Ahead
  <2> QED BY <2>5, <2>6, <2>7, <2>8 DEF g
<1> QED BY <1>1, <1>2

-----------------------------------------------------------------------------
(* begin_current_turn: the visits of one pass over the order.              *)

(* The turn is with somebody able to act, or the engine has stopped.        *)
Ready(f) ==
  \/ AtBoundary(f)
  \/ \A x \in DOMAIN f.acts : ~Standing(f.acts[x])
  \/ Standing(f.acts[Current(f)])

(* Nobody has fallen, nobody but the one on turn has risen, and the        *)
(* opponents are as they were.                                             *)
Waked(f, g) ==
  \A x \in DOMAIN f.acts :
    /\ Standing(f.acts[x]) => Standing(g.acts[x])
    /\ x # Current(g) => (Standing(g.acts[x]) => Standing(f.acts[x]))
    /\ x \in Npcs => (Conscious(g.acts[x]) <=> Conscious(f.acts[x]))
(* Nobody has risen or fallen at all.                                      *)
Sleeps(f, g) ==
  \A x \in DOMAIN f.acts :
    /\ Standing(g.acts[x]) <=> Standing(f.acts[x])
    /\ x \in Npcs => (Conscious(g.acts[x]) <=> Conscious(f.acts[x]))

(* After i visits of begin_current_turn.                                   *)
States(o) == [f : Fights(o), found : BOOLEAN]
(* After i visits of begin_current_turn: somebody able to act has been     *)
(* found and nobody able to act was passed over, or nobody visited could   *)
(* act and each of those who can is i steps nearer.                        *)
Stage(o, f, st, i) ==
  /\ st \in States(o) /\ Ran(f, st.f)
  /\ st.found => Ready(st.f) /\ Waked(f, st.f)
                 /\ \A p \in 1..Len(o) : Standing(f.acts[o[p]])
                      => Ahead(o, st.f.cur, p) <= Ahead(o, f.cur, p)
  /\ ~st.found => Sleeps(f, st.f)
                  /\ \A p \in 1..Len(o) : Standing(f.acts[o[p]])
                       => Ahead(o, st.f.cur, p) + i = Ahead(o, f.cur, p)

(* Who stands and who is conscious is decided.                             *)
LEMMA StandingIs ==
  ASSUME NEW a \in Actor
  PROVE  Standing(a) \in BOOLEAN /\ Conscious(a) \in BOOLEAN
BY DEF Standing, Conscious

(* One visit: what happens to the one on turn.                             *)
LEMMA Visits ==
  ASSUME NEW o \in Turns, NEW f \in Fights(o), NEW seed,
         ~AtBoundary(f)
  PROVE  LET v == Visit([f |-> f, found |-> FALSE], seed) IN
         /\ v \in States(o) /\ Ran(f, v.f)
         /\ \A x \in ToSet(o) : x # Current(f) => v.f.acts[x] = f.acts[x]
         /\ Standing(f.acts[Current(f)]) => v.found
         /\ Current(f) \in Npcs =>
              (Conscious(v.f.acts[Current(f)]) <=> Conscious(f.acts[Current(f)]))
         /\ v.found => v.f.cur = f.cur /\ Standing(v.f.acts[Current(f)])
         /\ ~v.found => /\ ~Standing(v.f.acts[Current(f)])
                        /\ \A p \in 1..Len(o) : p # f.cur =>
                             Ahead(o, v.f.cur, p) = Ahead(o, f.cur, p) - 1
<1>0. PICK v : v = Visit([f |-> f, found |-> FALSE], seed)
  OBVIOUS
<1>1. PICK id \in ToSet(o) : id = Current(f)
  BY OnTurn
<1>2. PICK a \in Actor : a = f.acts[id]
  BY OnTurn
<1>3. PICK b : b = IF id \in Heroes /\ ~a.out THEN DeathSave(a, seed[id]) ELSE a
  OBVIOUS
<1>4. /\ b \in Actor /\ b.out = a.out /\ (a.dead => b.dead)
      /\ (a.out => b = a) /\ (Standing(a) => b = a) /\ (id \in Npcs => b = a)
  <2>1. CASE id \in Heroes /\ ~a.out
    BY <1>3, <2>1, SavesCount, RulesAssumption
  <2>2. CASE ~(id \in Heroes /\ ~a.out)
    BY <1>3, <2>2
  <2> QED BY <2>1, <2>2
<1>5. PICK c : c = IF Standing(b) THEN Refreshed(b) ELSE b
  OBVIOUS
<1>6. /\ c \in Actor /\ c.out = b.out /\ (b.dead => c.dead) /\ Vitals(c) = Vitals(b)
      /\ (Standing(c) <=> Standing(b))
  BY <1>4, <1>5, RefreshedStays
<1>6a. id \in Npcs => (Conscious(c) <=> Conscious(a))
  <2>1. c.hp = b.hp /\ (c.dead <=> b.dead)
    BY <1>4, <1>5, RefreshedStays DEF Vitals
  <2> QED BY <1>4, <2>1 DEF Conscious
<1>7. Fate(a, c)
  <2>1. c.out = a.out /\ (a.dead => c.dead)
    BY <1>4, <1>6
  <2>2. a.out => Vitals(c) = Vitals(a)
    BY <1>4, <1>6
  <2> QED BY <2>1, <2>2 DEF Fate
<1>8. PICK g \in Fights(o) :
         /\ g = With(f, id, c)
         /\ g.cur = f.cur /\ Ran(f, g) /\ g.acts[id] = c
         /\ \A x \in ToSet(o) : x # id => g.acts[x] = f.acts[x]
  <2>1. Fate(f.acts[id], c) /\ c \in Actor
    BY <1>2, <1>6, <1>7
  <2>2. PICK g : g = With(f, id, c)
    OBVIOUS
  <2>3. /\ g \in Fights(o) /\ g.cur = f.cur /\ Ran(f, g) /\ g.acts[id] = c
        /\ \A x \in ToSet(o) : x # id => g.acts[x] = f.acts[x]
    BY <2>1, <2>2, Touched
  <2> QED BY <2>2, <2>3
<1>9. v = IF Standing(b) THEN [f |-> g, found |-> TRUE]
          ELSE [f |-> Advance(g), found |-> FALSE]
  BY <1>0, <1>1, <1>2, <1>3, <1>5, <1>8 DEF Visit, With
<1>10. CASE Standing(b)
  <2>1. v.f = g /\ v.found = TRUE /\ v \in States(o)
    BY <1>9, <1>10 DEF States
  <2>2. /\ v.f.cur = f.cur /\ Standing(v.f.acts[id]) /\ Ran(f, v.f)
        /\ \A x \in ToSet(o) : x # id => v.f.acts[x] = f.acts[x]
        /\ id \in Npcs => (Conscious(v.f.acts[id]) <=> Conscious(f.acts[id]))
    BY <1>2, <1>6, <1>6a, <1>8, <1>10, <2>1
  <2> QED BY <1>0, <1>1, <2>1, <2>2
<1>11. CASE ~Standing(b)
  <2>0. /\ Advance(g) \in Fights(o) /\ Ran(g, Advance(g)) /\ Advance(g).acts = g.acts
        /\ \A p \in 1..Len(o) : p # f.cur =>
               Ahead(o, Advance(g).cur, p) = Ahead(o, f.cur, p) - 1
    BY <1>8, Advances
  <2>1. v.f = Advance(g) /\ v.found = FALSE /\ v \in States(o)
    BY <1>9, <1>11, <2>0 DEF States
  <2>2. Ran(f, Advance(g))
    BY <1>8, <2>0, RanHolds
  <2>3. ~Standing(a) /\ ~Standing(c)
    BY <1>4, <1>6, <1>11
  <2>4. /\ v \in States(o) /\ v.found = FALSE /\ Ran(f, v.f)
        /\ \A x \in ToSet(o) : x # id => v.f.acts[x] = f.acts[x]
        /\ ~Standing(v.f.acts[id]) /\ ~Standing(f.acts[id])
        /\ id \in Npcs => (Conscious(v.f.acts[id]) <=> Conscious(f.acts[id]))
        /\ \A p \in 1..Len(o) : p # f.cur => Ahead(o, v.f.cur, p) = Ahead(o, f.cur, p) - 1
    BY <1>2, <1>6a, <1>8, <2>0, <2>1, <2>2, <2>3
  <2> QED BY <1>0, <1>1, <2>4
<1> QED BY <1>10, <1>11

(* A visit leads from one stage to the next.                               *)
LEMMA Stages ==
  ASSUME NEW o \in Turns, NEW f \in Fights(o), NEW seed, NEW i \in Nat \ {0},
         NEW st, Stage(o, f, st, i - 1)
  PROVE  Stage(o, f, Visit(st, seed), i)
<1>0. st \in States(o) /\ st.f \in Fights(o) /\ st.found \in BOOLEAN /\ Ran(f, st.f)
      /\ DOMAIN f.acts = ToSet(o) /\ DOMAIN st.f.acts = ToSet(o)
  BY OnTurn DEF Stage, States
<1>1. CASE st.found
  <2>1. Visit(st, seed) = [st EXCEPT !.found = TRUE]
    BY <1>1 DEF Visit
  <2>2. PICK v : v = Visit(st, seed)
    OBVIOUS
  <2>3. v \in States(o) /\ v.f = st.f /\ v.found = TRUE
    BY <1>0, <2>1, <2>2 DEF States
  <2> QED BY <1>0, <1>1, <2>2, <2>3 DEF Stage
<1>2. CASE ~st.found /\ AtBoundary(st.f)
  <2>1. Visit(st, seed) = [st EXCEPT !.found = TRUE]
    BY <1>2 DEF Visit
  <2>2. PICK v : v = Visit(st, seed)
    OBVIOUS
  <2>3. v \in States(o) /\ v.f = st.f /\ v.found = TRUE
    BY <1>0, <2>1, <2>2 DEF States
  <2>4. Ready(v.f)
    BY <1>2, <2>3 DEF Ready
  <2>5. Waked(f, v.f)
    BY <1>2, <2>3 DEF Waked, Sleeps, Stage
  <2>6. ASSUME NEW p \in 1..Len(o), Standing(f.acts[o[p]])
        PROVE  Ahead(o, v.f.cur, p) <= Ahead(o, f.cur, p)
    <3>1. Ahead(o, v.f.cur, p) + (i - 1) = Ahead(o, f.cur, p)
      BY <1>2, <2>3, <2>6 DEF Stage
    <3>2. Ahead(o, v.f.cur, p) \in Int /\ Ahead(o, f.cur, p) \in Int
      <4>1. f.cur \in Nat /\ v.f.cur \in Nat /\ Len(o) \in Nat
        BY <1>0, <2>3, OnTurn
      <4> QED BY <4>1 DEF Ahead
    <3> QED BY <3>1, <3>2
  <2> QED BY <1>0, <2>2, <2>3, <2>4, <2>5, <2>6 DEF Stage
<1>3. CASE ~st.found /\ ~AtBoundary(st.f)
  <2>1. PICK e \in Fights(o) : e = st.f
    BY <1>0
  <2>2. st = [f |-> e, found |-> FALSE]
    BY <1>0, <1>3, <2>1 DEF States
  <2>3. PICK v : v = Visit([f |-> e, found |-> FALSE], seed)
    OBVIOUS
  <2>4. /\ v \in States(o) /\ Ran(e, v.f)
        /\ \A x \in ToSet(o) : x # Current(e) => v.f.acts[x] = e.acts[x]
        /\ Standing(e.acts[Current(e)]) => v.found
        /\ Current(e) \in Npcs =>
             (Conscious(v.f.acts[Current(e)]) <=> Conscious(e.acts[Current(e)]))
        /\ v.found => v.f.cur = e.cur /\ Standing(v.f.acts[Current(e)])
        /\ ~v.found => /\ ~Standing(v.f.acts[Current(e)])
                       /\ \A p \in 1..Len(o) : p # e.cur =>
                            Ahead(o, v.f.cur, p) = Ahead(o, e.cur, p) - 1
    BY <1>3, <2>1, <2>3, Visits
  <2>5. v.f \in Fights(o) /\ v.found \in BOOLEAN
    BY <2>4 DEF States
  <2>6. Sleeps(f, e) /\ Ran(f, e)
        /\ \A p \in 1..Len(o) : Standing(f.acts[o[p]])
              => Ahead(o, e.cur, p) + (i - 1) = Ahead(o, f.cur, p)
    BY <1>0, <1>3, <2>1 DEF Stage
  <2>7. Ran(f, v.f)
    BY <2>4, <2>5, <2>6, RanHolds
  <2>8. Len(o) \in Nat /\ f.cur \in 1..Len(o) /\ e.cur \in 1..Len(o) /\ v.f.cur \in 1..Len(o)
        /\ Current(e) = o[e.cur] /\ Current(v.f) = o[v.f.cur]
        /\ \A p \in 1..Len(o) : o[p] \in ToSet(o)
    BY <2>5, OnTurn
  <2>9. \A p \in 1..Len(o) : Ahead(o, e.cur, p) \in Int /\ Ahead(o, f.cur, p) \in Int
    BY <2>8 DEF Ahead
  <2>10. CASE v.found
    <3>1. Ready(v.f)
      BY <2>4, <2>8, <2>10 DEF Ready
    <3>2. Waked(f, v.f)
      BY <1>0, <2>4, <2>6, <2>8, <2>10 DEF Waked, Sleeps
    <3>3. \A p \in 1..Len(o) : Standing(f.acts[o[p]])
              => Ahead(o, v.f.cur, p) <= Ahead(o, f.cur, p)
      BY <2>4, <2>6, <2>9, <2>10
    <3> QED BY <2>2, <2>3, <2>4, <2>7, <2>10, <3>1, <3>2, <3>3 DEF Stage
  <2>11. CASE ~v.found
    <3>1. Sleeps(f, v.f)
      BY <1>0, <2>4, <2>6, <2>11 DEF Sleeps
    <3>2. ASSUME NEW p \in 1..Len(o), Standing(f.acts[o[p]])
          PROVE  Ahead(o, v.f.cur, p) + i = Ahead(o, f.cur, p)
      <4>1. Standing(e.acts[o[p]])
        BY <1>0, <2>6, <2>8, <3>2 DEF Sleeps
      <4>2. p # e.cur
        BY <2>4, <2>8, <2>11, <4>1
      <4>3. Ahead(o, v.f.cur, p) = Ahead(o, e.cur, p) - 1
        BY <2>4, <2>11, <4>2
      <4> QED BY <2>6, <2>9, <3>2, <4>3
    <3> QED BY <2>2, <2>3, <2>4, <2>7, <2>11, <3>1, <3>2 DEF Stage
  <2> QED BY <2>5, <2>10, <2>11
<1> QED BY <1>0, <1>1, <1>2, <1>3

(* A visit gives a fight.                                                  *)
LEMMA VisitTyped ==
  ASSUME NEW o \in Turns, NEW st \in States(o), NEW seed
  PROVE  Visit(st, seed) \in States(o)
<1>1. CASE st.found \/ AtBoundary(st.f)
  <2>1. Visit(st, seed) = [st EXCEPT !.found = TRUE]
    BY <1>1 DEF Visit
  <2> QED BY <2>1 DEF States
<1>2. CASE ~st.found /\ ~AtBoundary(st.f)
  <2>1. PICK e \in Fights(o) : e = st.f
    BY DEF States
  <2>2. st = [f |-> e, found |-> FALSE]
    BY <1>2, <2>1 DEF States
  <2> QED BY <1>2, <2>1, <2>2, Visits
<1> QED BY <1>1, <1>2

(* begin_current_turn is its last visit.                                   *)
LEMMA TurnBegins ==
  ASSUME NEW o \in Turns, NEW f \in Fights(o), NEW seed
  PROVE  \E st : Stage(o, f, st, Len(o)) /\ BeginTurn(f, seed) = st.f
<1> DEFINE n == Len(o)
           x == [f |-> f, found |-> FALSE]
           Def(h) == h = [i \in 0..n |-> IF i = 0 THEN x ELSE Visit(h[i - 1], seed)]
           next == [i \in 1..n |-> [st \in States(o) |-> Visit(st, seed)]]
<1>0. n \in Nat \ {0} /\ f.order = o /\ x \in States(o)
  BY OnTurn DEF States
<1>1. next \in [1..n -> [States(o) -> States(o)]]
  BY VisitTyped
<1>2. PICK g \in [0..n -> States(o)] : g[0] = x /\ \A i \in 1..n : g[i] = next[i][g[i - 1]]
  <2> HIDE DEF next, n, x
  <2>1. PICK m \in Nat : m = n
    BY <1>0
  <2>2. PICK y \in States(o) : y = x
    BY <1>0
  <2>3. PICK then \in [1..m -> [States(o) -> States(o)]] : then = next
    BY <1>1, <2>1
  <2>4. \E g \in [0..m -> States(o)] : g[0] = y /\ \A i \in 1..m : g[i] = then[i][g[i - 1]]
    BY Iterates
  <2> QED BY <2>1, <2>2, <2>3, <2>4
<1>3. \A i \in 1..n : g[i] = Visit(g[i - 1], seed)
  <2> HIDE DEF x
  <2>1. \A i \in 1..n : i - 1 \in 0..n
    BY <1>0
  <2>2. \A i \in 1..n : g[i - 1] \in States(o)
    BY <1>2, <2>1
  <2> QED BY <1>2, <2>2
<1>4. Def(g)
  <2> HIDE DEF x, next, n
  <2>1. g = [i \in 0..n |-> g[i]]
    BY <1>2
  <2>2. \A i \in 0..n : i = 0 \/ i \in 1..n
    BY <1>0
  <2> QED BY <1>2, <1>3, <2>1, <2>2
<1>5. PICK h : h = CHOOSE k : Def(k)
  OBVIOUS
<1>6. Def(h)
  <2> HIDE DEF Def
  <2> QED BY <1>4, <1>5
<1>7. BeginTurn(f, seed) = h[n].f
  BY <1>0, <1>5 DEF BeginTurn
<1>8. h[0] = x /\ \A i \in 1..n : h[i] = Visit(h[i - 1], seed)
  <2> HIDE DEF x
  <2>1. 0 \in 0..n /\ \A i \in 1..n : i \in 0..n /\ i # 0
    BY <1>0
  <2> QED BY <1>6, <2>1
<1>9. Stage(o, f, x, 0)
  <2>1. Ran(f, f)
    BY RanHolds
  <2>2. x.f = f /\ x.found = FALSE
    OBVIOUS
  <2>3. Sleeps(f, f)
    BY DEF Sleeps
  <2>4. \A p \in 1..Len(o) : Ahead(o, f.cur, p) + 0 = Ahead(o, f.cur, p)
    <3>1. f.cur \in 1..Len(o) /\ Len(o) \in Nat
      BY OnTurn
    <3> QED BY <3>1 DEF Ahead
  <2> HIDE DEF x
  <2> QED BY <1>0, <2>1, <2>2, <2>3, <2>4 DEF Stage
<1>10. \A i \in 0..n : Stage(o, f, h[i], i)
  <2> DEFINE P == {i \in 0..n : Stage(o, f, h[i], i)}
  <2> HIDE DEF x
  <2>1. 0 \in P
    BY <1>0, <1>8, <1>9
  <2>2. ASSUME NEW i \in 1..n, i - 1 \in P PROVE i \in P
    <3>1. Stage(o, f, h[i - 1], i - 1) /\ i \in Nat \ {0} /\ i \in 0..n
      BY <1>0, <2>2
    <3>2. Stage(o, f, Visit(h[i - 1], seed), i)
      BY <3>1, Stages
    <3> QED BY <1>8, <3>1, <3>2
  <2>3. \A i \in 0..n : i \in P
    <3> HIDE DEF P, n
    <3> QED BY <1>0, <2>1, <2>2, UpTo
  <2> QED BY <2>3
<1>11. n \in 0..n
  BY <1>0
<1> QED BY <1>7, <1>10, <1>11

(* begin_current_turn ends with somebody able to act, or with nobody left  *)
(* to act; nobody has been passed over.                                    *)
LEMMA TurnBegun ==
  ASSUME NEW o \in Turns, NEW f \in Fights(o), NEW seed
  PROVE  LET g == BeginTurn(f, seed) IN
         /\ g \in Fights(o) /\ Ran(f, g) /\ Ready(g) /\ Waked(f, g)
         /\ \A p \in 1..Len(o) : Standing(f.acts[o[p]])
              => Ahead(o, g.cur, p) <= Ahead(o, f.cur, p)
<1>1. PICK st : Stage(o, f, st, Len(o)) /\ BeginTurn(f, seed) = st.f
  BY TurnBegins
<1>2. PICK g : g = st.f
  OBVIOUS
<1>3. g \in Fights(o) /\ Ran(f, g)
  BY <1>1, <1>2 DEF Stage, States
<1>4. CASE st.found
  BY <1>1, <1>2, <1>3, <1>4 DEF Stage
<1>5. CASE ~st.found
  <2>1. Sleeps(f, g)
    BY <1>1, <1>2, <1>5 DEF Stage
  <2>2. \A p \in 1..Len(o) : ~Standing(f.acts[o[p]])
    <3> SUFFICES ASSUME NEW p \in 1..Len(o), Standing(f.acts[o[p]]) PROVE FALSE
      OBVIOUS
    <3>1. Ahead(o, g.cur, p) + Len(o) = Ahead(o, f.cur, p)
      BY <1>1, <1>2, <1>5 DEF Stage
    <3>2. g.cur \in 1..Len(o) /\ f.cur \in 1..Len(o) /\ Len(o) \in Nat
      BY <1>3, OnTurn
    <3> QED BY <3>1, <3>2 DEF Ahead
  <2>3. \A x \in ToSet(o) : ~Standing(f.acts[x])
    BY <2>2, OnTurn
  <2>4. DOMAIN f.acts = ToSet(o) /\ DOMAIN g.acts = ToSet(o)
    BY <1>3, OnTurn
  <2>5. Ready(g)
    BY <2>1, <2>3, <2>4 DEF Ready, Sleeps
  <2>6. Waked(f, g)
    BY <2>1, <2>4 DEF Waked, Sleeps
  <2> QED BY <1>1, <1>2, <1>3, <2>2, <2>5, <2>6
<1> QED BY <1>4, <1>5

(* The end of a turn brings those who can act at least one step nearer, but*)
(* for the one whose turn it was.                                          *)
LEMMA TurnEnded ==
  ASSUME NEW o \in Turns, NEW f \in Fights(o), NEW seed
  PROVE  LET g == EndTurn(f, seed) IN
         /\ g \in Fights(o) /\ Ran(f, g) /\ Ready(g) /\ Waked(f, g)
         /\ \A p \in 1..Len(o) : p # f.cur /\ Standing(f.acts[o[p]])
              => Ahead(o, g.cur, p) <= Ahead(o, f.cur, p) - 1
<1>1. PICK e \in Fights(o) : e = Advance(f)
  BY Advances
<1>2. Ran(f, e) /\ e.acts = f.acts
        /\ \A p \in 1..Len(o) : p # f.cur => Ahead(o, e.cur, p) = Ahead(o, f.cur, p) - 1
  BY <1>1, Advances
<1>3. PICK g : g = BeginTurn(e, seed)
  OBVIOUS
<1>4. /\ g \in Fights(o) /\ Ran(e, g) /\ Ready(g) /\ Waked(e, g)
      /\ \A p \in 1..Len(o) : Standing(e.acts[o[p]])
              => Ahead(o, g.cur, p) <= Ahead(o, e.cur, p)
  BY <1>3, TurnBegun
<1>5. Ran(f, g)
  BY <1>2, <1>4, RanHolds
<1>6. Waked(f, g)
  BY <1>2, <1>4 DEF Waked
<1>7. \A p \in 1..Len(o) : p # f.cur /\ Standing(f.acts[o[p]])
              => Ahead(o, g.cur, p) <= Ahead(o, f.cur, p) - 1
  BY <1>2, <1>4
<1>8. g = EndTurn(f, seed)
  BY <1>1, <1>3 DEF EndTurn
<1> QED BY <1>4, <1>5, <1>6, <1>7, <1>8

-----------------------------------------------------------------------------
(* resolve_npc_turn: an opponent walks to its prey ...                     *)

(* The distance of two combatants is a number.                             *)
LEMMA ApartIs ==
  ASSUME NEW a \in Actor, NEW b \in Actor
  PROVE  Apart(a, b) \in Nat
BY DEF Apart, Actor, Actors

(* Only where a combatant stands has changed, and what it may still do.     *)
Untouched(a, b) == b.out = a.out /\ b.hp = a.hp /\ (b.dead <=> a.dead) /\ Vitals(b) = Vitals(a)

(* Who is untouched lives, stands and is conscious as before.              *)
LEMMA UntouchedIs ==
  ASSUME NEW a, NEW b, Untouched(a, b)
  PROVE  Fate(a, b) /\ (Standing(b) <=> Standing(a)) /\ (Conscious(b) <=> Conscious(a))
BY DEF Untouched, Fate, Standing, Conscious

(* A move touches nobody's wounds.                                         *)
LEMMA Moves ==
  ASSUME NEW a \in Actor, NEW at \in Int, NEW move \in Int, NEW b,
         b = [a EXCEPT !.at = at, !.move = move]
  PROVE  b \in Actor /\ Untouched(a, b)
<1>0. a \in Actors /\ Readable(a)
  BY DEF Actor
<1>1. PICK c \in Actors : c = [a EXCEPT !.at = at]
  BY <1>0, Spends
<1>2. b = [c EXCEPT !.move = move]
  BY <1>1
<1>3. b \in Actors
  BY <1>2, Spends
<1>4. /\ b.hp = a.hp /\ b.dead = a.dead /\ b.succs = a.succs /\ b.fails = a.fails
      /\ b.stable = a.stable /\ b.arrows = a.arrows /\ b.slots = a.slots /\ b.out = a.out
  BY <1>0 DEF Actors
<1> QED BY <1>0, <1>3, <1>4 DEF Actor, Readable, Untouched, Vitals

(* Nor does it to have used an action.                                     *)
LEMMA Acts ==
  ASSUME NEW a \in Actor, NEW b, b = [a EXCEPT !.action = FALSE]
  PROVE  b \in Actor /\ Untouched(a, b) /\ b.arrows = a.arrows /\ b.slots = a.slots
<1>0. a \in Actors /\ Readable(a)
  BY DEF Actor
<1>3. b \in Actors
  BY <1>0, Spends
<1>4. /\ b.hp = a.hp /\ b.dead = a.dead /\ b.succs = a.succs /\ b.fails = a.fails
      /\ b.stable = a.stable /\ b.arrows = a.arrows /\ b.slots = a.slots /\ b.out = a.out
  BY <1>0 DEF Actors
<1> QED BY <1>0, <1>3, <1>4 DEF Actor, Readable, Untouched, Vitals

(* A step of a fight that hurts nobody and leaves the turn where it is.     *)
Quiet(o, f, g) == g \in Fights(o) /\ g.cur = f.cur /\ Ran(f, g) /\ Sleeps(f, g)

(* Steps during which nothing but places changes add up.                   *)
LEMMA QuietHolds ==
  ASSUME NEW o \in Turns
  PROVE  /\ \A f \in Fights(o) : Quiet(o, f, f)
         /\ \A f \in Fights(o) : \A g, h : Quiet(o, f, g) /\ Quiet(o, g, h) => Quiet(o, f, h)
<1>1. ASSUME NEW f \in Fights(o) PROVE Quiet(o, f, f)
  <2>1. Ran(f, f)
    BY RanHolds
  <2>2. Sleeps(f, f)
    BY DEF Sleeps
  <2> QED BY <2>1, <2>2 DEF Quiet
<1>2. ASSUME NEW f \in Fights(o), NEW g, NEW h, Quiet(o, f, g), Quiet(o, g, h)
      PROVE  Quiet(o, f, h)
  <2>1. g \in Fights(o) /\ h \in Fights(o) /\ h.cur = f.cur
    BY <1>2 DEF Quiet
  <2>2. DOMAIN f.acts = ToSet(o) /\ DOMAIN g.acts = ToSet(o)
    BY <2>1, OnTurn
  <2>3. Ran(f, h)
    BY <1>2, <2>1, RanHolds DEF Quiet
  <2>4. Sleeps(f, h)
    BY <1>2, <2>2 DEF Quiet, Sleeps
  <2> QED BY <2>1, <2>3, <2>4 DEF Quiet
<1> QED BY <1>1, <1>2

(* A combatant that is put somewhere else is such a step.                  *)
LEMMA QuietTouch ==
  ASSUME NEW o \in Turns, NEW f \in Fights(o), NEW id \in ToSet(o), NEW b \in Actor,
         Untouched(f.acts[id], b), NEW g, g = With(f, id, b)
  PROVE  Quiet(o, f, g) /\ g.acts[id] = b /\ \A x \in ToSet(o) : x # id => g.acts[x] = f.acts[x]
<1>1. Fate(f.acts[id], b) /\ (Standing(b) <=> Standing(f.acts[id]))
      /\ (Conscious(b) <=> Conscious(f.acts[id]))
  BY UntouchedIs
<1>2. /\ g \in Fights(o) /\ g.cur = f.cur /\ g.acts[id] = b
      /\ \A x \in ToSet(o) : x # id => g.acts[x] = f.acts[x]
      /\ Ran(f, g)
  BY <1>1, Touched
<1>3. DOMAIN f.acts = ToSet(o)
  BY OnTurn
<1>4. Sleeps(f, g)
  BY <1>1, <1>2, <1>3 DEF Sleeps
<1> QED BY <1>2, <1>4 DEF Quiet

(* A step towards the prey is such a step.                                 *)
LEMMA Steps ==
  ASSUME NEW o \in Turns, NEW f \in Fights(o), NEW id \in ToSet(o), NEW aim \in ToSet(o)
  PROVE  Quiet(o, f, StepTowards(f, id, aim))
<1>0. PICK me \in Actor : me = f.acts[id]
  BY OnTurn
<1>1. PICK other \in Actor : other = f.acts[aim]
  BY OnTurn
<1>2. PICK next \in Int : next = IF me.at < other.at THEN me.at + 1 ELSE me.at - 1
  BY DEF Actor, Actors
<1>3. CASE Apart(me, other) <= 1 \/ me.move = 0 \/ next \in Taken(f, id)
  <2>1. StepTowards(f, id, aim) = f
    BY <1>0, <1>1, <1>2, <1>3 DEF StepTowards
  <2> QED BY <2>1, QuietHolds
<1>4. CASE ~(Apart(me, other) <= 1 \/ me.move = 0 \/ next \in Taken(f, id))
  <2>1. PICK b : b = [me EXCEPT !.at = next, !.move = me.move - 1]
    OBVIOUS
  <2>2. me.move - 1 \in Int
    BY DEF Actor, Actors
  <2>3. b \in Actor /\ Untouched(me, b)
    BY <2>1, <2>2, Moves
  <2>4. PICK g : g = With(f, id, b)
    OBVIOUS
  <2>5. Quiet(o, f, g)
    BY <1>0, <2>3, <2>4, QuietTouch
  <2>6. StepTowards(f, id, aim) = g
    BY <1>0, <1>1, <1>2, <1>4, <2>1, <2>4 DEF StepTowards, With
  <2> QED BY <2>5, <2>6
<1> QED BY <1>3, <1>4

(* An opponent goes for a hero who stands.                                  *)
LEMMA NearestStands ==
  ASSUME NEW o \in Turns, NEW f \in Fights(o), NEW id \in ToSet(o), Prey(f) # {}
  PROVE  Nearest(f, id) \in Prey(f)
<1> DEFINE D(h) == Apart(f.acts[id], f.acts[h])
           S == {D(h) : h \in Prey(f)}
<1>1. \A h \in Prey(f) : D(h) \in Nat
  <2>1. \A h \in Prey(f) : h \in ToSet(o)
    BY OnTurn DEF Prey
  <2>2. f.acts[id] \in Actor /\ \A h \in Prey(f) : f.acts[h] \in Actor
    BY <2>1, OnTurn
  <2> QED BY <2>2, ApartIs
<1>2. PICK s \in S : \A t \in S : s <= t
  <2>1. S \in SUBSET Nat /\ S # {}
    BY <1>1
  <2> HIDE DEF S
  <2> QED BY <2>1, Smallest
<1>3. \E h \in Prey(f) : \A k \in Prey(f) : D(h) <= D(k)
  BY <1>2
<1> QED BY <1>3 DEF Nearest

-----------------------------------------------------------------------------
(* ... and strikes it.                                                     *)

(* Somebody was hurt, and nobody helped up.                                 *)
Hurts(f, g) ==
  \A x \in DOMAIN f.acts :
    /\ Standing(g.acts[x]) => Standing(f.acts[x])
    /\ Conscious(g.acts[x]) => Conscious(f.acts[x])

(* A combatant that is down may be dead as well.                            *)
Buried(a) == [a EXCEPT !.dead = a.dead \/ a.hp = 0]

(* Who is dead at zero is no worse than dying.                             *)
LEMMA Slain ==
  ASSUME NEW a \in Actor, ~a.stable, NEW b, b = Buried(a)
  PROVE  b \in Actor /\ b.out = a.out /\ b.hp = a.hp /\ (a.dead => b.dead)
<1>0. a \in Actors /\ Readable(a)
  BY DEF Actor
<1>1. PICK d \in BOOLEAN : d = (a.dead \/ a.hp = 0)
  OBVIOUS
<1>2. b = [a EXCEPT !.dead = d]
  BY <1>1 DEF Buried
<1>3. b \in Actors
  BY <1>0, <1>2, Updates
<1>4. /\ b.hp = a.hp /\ b.dead = d /\ b.succs = a.succs /\ b.fails = a.fails
      /\ b.stable = a.stable /\ b.out = a.out
  BY <1>0, <1>2 DEF Actors
<1>5. Readable(b)
  BY <1>0, <1>1, <1>4 DEF Readable
<1> QED BY <1>1, <1>3, <1>4, <1>5 DEF Actor

(* What a blow makes of its victim.                                         *)
Fallen(a, mortal) == IF mortal /\ a.hp = 0 THEN [a EXCEPT !.dead = TRUE] ELSE a

(* Whoever is hit is hurt, and an opponent at zero is dead.                *)
LEMMA Wounded ==
  ASSUME NEW a \in Actor, NEW n \in 1..2, NEW crit \in BOOLEAN, NEW mortal \in BOOLEAN,
         mortal => a.hp > 0,
         NEW hurt, hurt = Harm(a, n, crit) \/ hurt = a,
         NEW b, b = Fallen(hurt, mortal)
  PROVE  /\ b \in Actor /\ b.out = a.out /\ (a.dead => b.dead)
         /\ Conscious(b) => Conscious(a)
<1>1. /\ hurt \in Actor /\ hurt.out = a.out /\ (a.dead => hurt.dead)
      /\ (a.hp > 0 => ~hurt.stable) /\ (a.hp = 0 => hurt.hp = 0)
  BY HarmHurts DEF Actor, Readable, Actors
<1>2. CASE mortal /\ hurt.hp = 0
  <2>1. b = Buried(hurt) /\ ~hurt.stable
    <3>1. (hurt.dead \/ hurt.hp = 0) = TRUE
      BY <1>2
    <3> QED BY <1>1, <1>2, <3>1 DEF Fallen, Buried
  <2>2. b \in Actor /\ b.out = hurt.out /\ b.hp = hurt.hp /\ (hurt.dead => b.dead)
    BY <1>1, <2>1, Slain
  <2> QED BY <1>1, <1>2, <2>2 DEF Conscious
<1>3. CASE ~(mortal /\ hurt.hp = 0)
  <2>1. b = hurt
    BY <1>3 DEF Fallen
  <2>2. a.hp \in Nat
    BY DEF Actor, Actors
  <2>3. Conscious(hurt) => Conscious(a)
    BY <1>1, <2>2 DEF Conscious
  <2> QED BY <1>1, <2>1, <2>3
<1> QED BY <1>2, <1>3

(* A blow changes the wounds of the one it lands on, and of nobody else.   *)
LEMMA BlowLands ==
  ASSUME NEW o \in Turns, NEW f \in Fights(o), NEW by \in ToSet(o), NEW on \in ToSet(o),
         by # on, ~f.acts[on].out, on \in Npcs => f.acts[on].hp > 0, NEW roll,
         NEW g, g = Blow(f, by, on, roll)
  PROVE  /\ g \in Fights(o) /\ g.cur = f.cur /\ Ran(f, g) /\ Hurts(f, g)
         /\ g.acts[by].arrows = f.acts[by].arrows
         /\ \A x \in ToSet(o) \ {on} : Untouched(f.acts[x], g.acts[x])
<1>1. PICK victim \in Actor : victim = f.acts[on]
  BY OnTurn
<1>2. PICK me \in Actor : me = f.acts[by]
  BY OnTurn
<1>3. PICK crit \in BOOLEAN : crit = (roll = 4 \/ (roll = 3 /\ victim.hp = 0 /\ Apart(me, victim) <= 1))
  OBVIOUS
<1>4. PICK n \in 1..2 : n = IF crit THEN 2 ELSE 1
  OBVIOUS
<1>5. PICK hurt : hurt = IF roll <= 2 THEN victim ELSE Harm(victim, n, crit)
  OBVIOUS
<1>6. PICK mortal \in BOOLEAN : mortal = (on \in Npcs /\ TRUE)
  OBVIOUS
<1>7. PICK fate : fate = Fallen(hurt, mortal)
  OBVIOUS
<1>8. fate \in Actor /\ fate.out = victim.out /\ (victim.dead => fate.dead)
      /\ (Conscious(fate) => Conscious(victim))
  <2>1. (hurt = Harm(victim, n, crit) \/ hurt = victim) /\ (mortal => victim.hp > 0)
    BY <1>1, <1>5, <1>6
  <2> QED BY <1>7, <2>1, Wounded
<1>9. PICK idle : idle = [me EXCEPT !.action = FALSE]
  OBVIOUS
<1>10. idle \in Actor /\ Untouched(me, idle) /\ idle.arrows = me.arrows
  BY <1>9, Acts
<1>11. Fate(victim, fate)
  BY <1>1, <1>8 DEF Fate
<1>12. PICK e : e = With(f, on, fate)
  OBVIOUS
<1>13. /\ e \in Fights(o) /\ e.cur = f.cur /\ Ran(f, e) /\ e.acts[on] = fate
       /\ \A x \in ToSet(o) : x # on => e.acts[x] = f.acts[x]
  BY <1>1, <1>8, <1>11, <1>12, FateTouch
<1>14. PICK h : h = With(e, by, idle)
  OBVIOUS
<1>15. /\ Quiet(o, e, h) /\ h.acts[by] = idle
       /\ \A x \in ToSet(o) : x # by => h.acts[x] = e.acts[x]
  <2>1. e \in Fights(o) /\ Untouched(e.acts[by], idle)
    BY <1>2, <1>10, <1>13
  <2> QED BY <1>10, <1>14, <2>1, QuietTouch
<1>16. g = h
  <2>1. g = [f EXCEPT !.acts = [f.acts EXCEPT ![on] = fate, ![by].action = FALSE]]
    BY <1>1, <1>2, <1>3, <1>4, <1>5, <1>6, <1>7 DEF Blow, Fallen
  <2>2. [f.acts EXCEPT ![on] = fate, ![by].action = FALSE] =
          [[f.acts EXCEPT ![on] = fate] EXCEPT ![by] = idle]
    <3>1. [f.acts EXCEPT ![on] = fate][by] = me
      BY <1>2, OnTurn
    <3> QED BY <1>9, <3>1
  <2>3. e.acts = [f.acts EXCEPT ![on] = fate]
    BY <1>12 DEF Fights, With
  <2> QED BY <1>12, <1>14, <2>1, <2>2, <2>3 DEF With
<1>17. h \in Fights(o) /\ h.cur = f.cur /\ Ran(f, h)
  BY <1>13, <1>15, RanHolds DEF Quiet
<1>18. \A x \in ToSet(o) \ {on} : Untouched(f.acts[x], h.acts[x])
  <2>1. \A a : Untouched(a, a)
    BY DEF Untouched
  <2> QED BY <1>2, <1>10, <1>13, <1>15, <2>1
<1>19. Hurts(f, h)
  <2>1. \A x \in ToSet(o) \ {on} : (Standing(h.acts[x]) <=> Standing(f.acts[x]))
          /\ (Conscious(h.acts[x]) <=> Conscious(f.acts[x]))
    BY <1>18, UntouchedIs
  <2>2. h.acts[on] = fate
    BY <1>13, <1>15
  <2>3. (Standing(fate) => Standing(victim)) /\ (Conscious(fate) => Conscious(victim))
    BY <1>8 DEF Standing
  <2>4. DOMAIN f.acts = ToSet(o)
    BY OnTurn
  <2> QED BY <1>1, <2>1, <2>2, <2>3, <2>4 DEF Hurts
<1> QED BY <1>2, <1>10, <1>15, <1>16, <1>17, <1>18, <1>19

(* A strike is a blow, paid for with an action and an arrow.               *)
LEMMA Strikes ==
  ASSUME NEW o \in Turns, NEW f \in Fights(o), NEW by \in ToSet(o), NEW on \in ToSet(o),
         by # on, ~f.acts[on].out, on \in Npcs => f.acts[on].hp > 0, NEW roll,
         NEW arrow \in BOOLEAN, arrow => ~f.acts[by].out,
         NEW g, g = Strike(f, by, on, roll, arrow)
  PROVE  /\ g \in Fights(o) /\ g.cur = f.cur /\ Ran(f, g) /\ Hurts(f, g)
         /\ Standing(g.acts[by]) <=> Standing(f.acts[by])
<1>1. PICK e : e = Blow(f, by, on, roll)
  OBVIOUS
<1>2. /\ e \in Fights(o) /\ e.cur = f.cur /\ Ran(f, e) /\ Hurts(f, e)
      /\ Untouched(f.acts[by], e.acts[by])
  BY <1>1, BlowLands
<1>3. Standing(e.acts[by]) <=> Standing(f.acts[by])
  BY <1>2, UntouchedIs
<1>4. CASE ~arrow
  <2>1. g = e
    BY <1>1, <1>4 DEF Strike
  <2> QED BY <1>2, <1>3, <2>1
<1>5. CASE arrow
  <2>1. PICK a \in Actor : a = e.acts[by]
    BY <1>2, OnTurn
  <2>2. a \in Actors /\ Readable(a) /\ a.arrows - 1 \in Int /\ ~a.out
    BY <1>2, <1>5, <2>1 DEF Actor, Actors, Untouched
  <2>3. PICK b : b = [a EXCEPT !.arrows = a.arrows - 1]
    OBVIOUS
  <2>4. b \in Actors
    BY <2>2, <2>3, Spends
  <2>5. /\ b.hp = a.hp /\ b.dead = a.dead /\ b.succs = a.succs /\ b.fails = a.fails
        /\ b.stable = a.stable /\ b.out = a.out
    BY <2>2, <2>3 DEF Actors
  <2>6. b \in Actor /\ Fate(a, b) /\ (Standing(b) <=> Standing(a))
        /\ (Conscious(b) <=> Conscious(a))
    BY <2>2, <2>4, <2>5 DEF Actor, Readable, Fate, Standing, Conscious
  <2>7. g = With(e, by, b)
    BY <1>1, <1>5, <2>1, <2>3 DEF Strike, With
  <2>8. /\ g \in Fights(o) /\ g.cur = e.cur /\ Ran(e, g) /\ g.acts[by] = b
        /\ \A x \in ToSet(o) : x # by => g.acts[x] = e.acts[x]
    BY <1>2, <2>1, <2>6, <2>7, Touched
  <2>9. Ran(f, g)
    BY <1>2, <2>8, RanHolds
  <2>10. DOMAIN f.acts = ToSet(o)
    BY OnTurn
  <2>11. Hurts(f, g)
    BY <1>2, <2>1, <2>6, <2>8, <2>10 DEF Hurts
  <2> QED BY <1>2, <1>3, <2>1, <2>6, <2>8, <2>9, <2>11
<1> QED BY <1>4, <1>5

-----------------------------------------------------------------------------
(* settle_npcs_until: the opponents play until a hero is on turn. Each of  *)
(* their turns comes nearer to every hero who can act, so that a pass and  *)
(* one more turn are enough.                                               *)

(* Walking up to a hero hurts nobody.                                       *)
LEMMA Walks ==
  ASSUME NEW o \in Turns, NEW f \in Fights(o), NEW id \in ToSet(o), NEW aim \in ToSet(o),
         NEW h, h = CHOOSE w : w = [i \in 0..Speed |->
                       IF i = 0 THEN f ELSE StepTowards(w[i - 1], id, aim)]
  PROVE  Quiet(o, f, h[Speed])
<1> DEFINE n == Speed
           Def(w) == w = [i \in 0..n |-> IF i = 0 THEN f ELSE StepTowards(w[i - 1], id, aim)]
           next == [i \in 1..n |-> [g \in Fights(o) |-> StepTowards(g, id, aim)]]
<1>0. n \in Nat
  BY RulesAssumption
<1>1. next \in [1..n -> [Fights(o) -> Fights(o)]]
  <2>1. \A g \in Fights(o) : StepTowards(g, id, aim) \in Fights(o)
    BY Steps DEF Quiet
  <2> QED BY <2>1
<1>2. PICK g \in [0..n -> Fights(o)] : g[0] = f /\ \A i \in 1..n : g[i] = next[i][g[i - 1]]
  <2> HIDE DEF next, n
  <2>1. PICK m \in Nat : m = n
    BY <1>0
  <2>3. PICK later \in [1..m -> [Fights(o) -> Fights(o)]] : later = next
    BY <1>1, <2>1
  <2>4. \E g \in [0..m -> Fights(o)] : g[0] = f /\ \A i \in 1..m : g[i] = later[i][g[i - 1]]
    BY Iterates
  <2> QED BY <2>1, <2>3, <2>4
<1>3. \A i \in 1..n : g[i] = StepTowards(g[i - 1], id, aim)
  <2>1. \A i \in 1..n : i - 1 \in 0..n
    BY <1>0
  <2>2. \A i \in 1..n : g[i - 1] \in Fights(o)
    BY <1>2, <2>1
  <2> QED BY <1>2, <2>2
<1>4. Def(g)
  <2> HIDE DEF next, n
  <2>1. g = [i \in 0..n |-> g[i]]
    BY <1>2
  <2>2. \A i \in 0..n : i = 0 \/ i \in 1..n
    BY <1>0
  <2> QED BY <1>2, <1>3, <2>1, <2>2
<1>5. h = CHOOSE w : Def(w)
  OBVIOUS
<1>6. Def(h)
  <2> HIDE DEF Def
  <2> QED BY <1>4, <1>5
<1>8. h[0] = f /\ \A i \in 1..n : h[i] = StepTowards(h[i - 1], id, aim)
  <2>1. 0 \in 0..n /\ \A i \in 1..n : i \in 0..n /\ i # 0
    BY <1>0
  <2> QED BY <1>6, <2>1
<1>10. \A i \in 0..n : Quiet(o, f, h[i])
  <2> DEFINE P == {i \in 0..n : Quiet(o, f, h[i])}
  <2>1. 0 \in P
    BY <1>0, <1>8, QuietHolds
  <2>2. ASSUME NEW i \in 1..n, i - 1 \in P PROVE i \in P
    <3>1. Quiet(o, f, h[i - 1]) /\ i \in 0..n
      BY <1>0, <2>2
    <3>2. h[i - 1] \in Fights(o)
      BY <3>1 DEF Quiet
    <3>3. Quiet(o, h[i - 1], StepTowards(h[i - 1], id, aim))
      BY <3>2, Steps
    <3> QED BY <1>8, <3>1, <3>3, QuietHolds
  <2>3. \A i \in 0..n : i \in P
    <3> HIDE DEF P, n
    <3> QED BY <1>0, <2>1, <2>2, UpTo
  <2> QED BY <2>3
<1>11. n \in 0..n
  BY <1>0
<1> QED BY <1>10, <1>11

(* An opponent's turn: it is over afterwards, a hero may have been hurt,     *)
(* and only the one whose turn it is now may have got up.                   *)
LEMMA NpcActs ==
  ASSUME NEW o \in Turns, NEW f \in Fights(o), Current(f) \in Npcs, NEW seed
  PROVE  LET g == NpcTurn(f, Current(f), seed) IN
         /\ g \in Fights(o) /\ Ran(f, g) /\ Ready(g)
         /\ \A x \in ToSet(o) : x # Current(g) =>
               (Standing(g.acts[x]) => Standing(f.acts[x]))
         /\ \A p \in 1..Len(o) : p # f.cur /\ Standing(g.acts[o[p]]) /\ o[p] # Current(g)
              => Ahead(o, g.cur, p) <= Ahead(o, f.cur, p) - 1
<1>0. PICK id \in ToSet(o) : id = Current(f)
  BY OnTurn
<1>1. PICK aim : aim = Nearest(f, id)
  OBVIOUS
<1>2. PICK w : w = CHOOSE h : h = [i \in 0..Speed |->
                       IF i = 0 THEN f ELSE StepTowards(h[i - 1], id, aim)]
  OBVIOUS
<1>3. PICK near : near = w[Speed]
  OBVIOUS
<1>4. PICK hit : hit = IF Apart(near.acts[id], near.acts[aim]) <= 1 /\ near.acts[id].action
               THEN Strike(near, id, aim, seed[id], FALSE) ELSE near
  OBVIOUS
<1>5. PICK e : e = IF Conscious(f.acts[id]) /\ Prey(f) # {} THEN hit ELSE f
  OBVIOUS
<1>6. NpcTurn(f, Current(f), seed) = EndTurn(e, seed)
  BY <1>0, <1>1, <1>2, <1>3, <1>4, <1>5 DEF NpcTurn
<1>7. e \in Fights(o) /\ e.cur = f.cur /\ Ran(f, e)
      /\ \A x \in ToSet(o) : Standing(e.acts[x]) => Standing(f.acts[x])
  <2>1. CASE Prey(f) = {} \/ ~Conscious(f.acts[id])
    BY <1>5, <2>1, RanHolds
  <2>2. CASE Prey(f) # {} /\ Conscious(f.acts[id])
    <3>1. aim \in Prey(f)
      BY <1>1, <2>2, NearestStands
    <3>2. aim \in ToSet(o) /\ aim \in Heroes /\ Standing(f.acts[aim]) /\ DOMAIN f.acts = ToSet(o)
      BY <3>1, OnTurn DEF Prey
    <3>3. Quiet(o, f, near)
      BY <1>2, <1>3, <3>2, Walks
    <3>4. near \in Fights(o) /\ near.cur = f.cur /\ Ran(f, near)
          /\ \A x \in ToSet(o) : Standing(near.acts[x]) <=> Standing(f.acts[x])
      BY <3>2, <3>3 DEF Quiet, Sleeps
    <3>5. e = hit
      BY <1>5, <2>2
    <3>6. CASE hit = near
      BY <3>4, <3>5, <3>6
    <3>7. CASE hit = Strike(near, id, aim, seed[id], FALSE)
      <4>1. id # aim /\ ~near.acts[aim].out /\ aim \notin Npcs
        <5>1. Standing(near.acts[aim])
          BY <3>2, <3>4
        <5> QED BY <1>0, <3>2, <5>1, RulesAssumption DEF Standing
      <4>2. /\ hit \in Fights(o) /\ hit.cur = near.cur /\ Ran(near, hit) /\ Hurts(near, hit)
        <5>1. PICK roll : roll = seed[id]
          OBVIOUS
        <5>2. PICK arrow \in BOOLEAN : arrow = FALSE
          OBVIOUS
        <5>3. hit = Strike(near, id, aim, roll, arrow)
          BY <3>7, <5>1, <5>2
        <5>4. (aim \in Npcs => near.acts[aim].hp > 0) /\ (arrow => ~near.acts[id].out)
          BY <4>1, <5>2
        <5> QED BY <3>2, <3>4, <4>1, <5>3, <5>4, Strikes
      <4>3. DOMAIN near.acts = ToSet(o)
        BY <3>4, OnTurn
      <4>4. Ran(f, hit)
        BY <3>4, <4>2, RanHolds
      <4> QED BY <3>4, <3>5, <4>2, <4>3, <4>4 DEF Hurts
    <3> QED BY <1>4, <3>6, <3>7
  <2> QED BY <2>1, <2>2
<1>8. PICK g : g = EndTurn(e, seed)
  OBVIOUS
<1>9. /\ g \in Fights(o) /\ Ran(e, g) /\ Ready(g) /\ Waked(e, g)
      /\ \A p \in 1..Len(o) : p # e.cur /\ Standing(e.acts[o[p]])
              => Ahead(o, g.cur, p) <= Ahead(o, e.cur, p) - 1
  BY <1>7, <1>8, TurnEnded
<1>10. Ran(f, g)
  BY <1>7, <1>9, RanHolds
<1>11. DOMAIN e.acts = ToSet(o)
  BY <1>7, OnTurn
<1>12. \A x \in ToSet(o) : x # Current(g) => (Standing(g.acts[x]) => Standing(e.acts[x]))
  BY <1>9, <1>11 DEF Waked
<1>13. \A x \in ToSet(o) : x # Current(g) => (Standing(g.acts[x]) => Standing(f.acts[x]))
  BY <1>7, <1>12
<1>14. \A p \in 1..Len(o) : o[p] \in ToSet(o)
  BY OnTurn
<1>15. \A p \in 1..Len(o) : p # f.cur /\ Standing(g.acts[o[p]]) /\ o[p] # Current(g)
              => Ahead(o, g.cur, p) <= Ahead(o, f.cur, p) - 1
  BY <1>7, <1>9, <1>12, <1>14
<1> QED BY <1>6, <1>8, <1>9, <1>10, <1>13, <1>15

-----------------------------------------------------------------------------
(* What settle_npcs_until has from one turn to the next.                   *)
Rounding(o) == [f : Fights(o), ok : BOOLEAN]
(* After i turns that settle_npcs_until gave to opponents: a hero is on    *)
(* turn or nobody can act, or i steps have been made towards every hero who*)
(* can act.                                                                *)
Turned(o, f, st, i) ==
  /\ st \in Rounding(o) /\ Ran(f, st.f) /\ (Ready(f) => Ready(st.f))
  /\ st.ok => SettleDone(st.f)
  /\ ~st.ok => \A p \in 1..Len(o) :
        o[p] \in Heroes /\ Standing(st.f.acts[o[p]]) /\ o[p] # Current(st.f)
          => Ahead(o, st.f.cur, p) + i <= Ahead(o, f.cur, p)

(* An opponent's turn gives a fight.                                       *)
LEMMA PlayTyped ==
  ASSUME NEW o \in Turns, NEW st \in Rounding(o), NEW seed
  PROVE  PlayNpc(st, seed) \in Rounding(o)
<1>0. PICK e \in Fights(o) : e = st.f
  BY DEF Rounding
<1>1. CASE st.ok \/ SettleDone(e)
  <2>1. PlayNpc(st, seed) = [st EXCEPT !.ok = TRUE]
    BY <1>0, <1>1 DEF PlayNpc
  <2> QED BY <2>1 DEF Rounding
<1>2. CASE ~st.ok /\ ~SettleDone(e)
  <2>1. Current(e) \in Npcs
    BY <1>2, OnTurn DEF SettleDone, Combatants
  <2>2. PICK g \in Fights(o) : g = NpcTurn(e, Current(e), seed)
    BY <2>1, NpcActs
  <2>3. PlayNpc(st, seed) = [st EXCEPT !.f = g]
    BY <1>0, <1>2, <2>2 DEF PlayNpc
  <2> QED BY <2>3 DEF Rounding
<1> QED BY <1>0, <1>1, <1>2

(* One more opponent's turn is one step more.                              *)
LEMMA PlaysOn ==
  ASSUME NEW o \in Turns, NEW f \in Fights(o), NEW seed, NEW i \in Nat \ {0},
         NEW st, Turned(o, f, st, i - 1)
  PROVE  Turned(o, f, PlayNpc(st, seed), i)
<1>0. PICK e \in Fights(o) : e = st.f
  BY DEF Turned, Rounding
<1>1. st \in Rounding(o) /\ Ran(f, e) /\ (Ready(f) => Ready(e)) /\ st.ok \in BOOLEAN
  BY <1>0 DEF Turned, Rounding
<1>2. PICK v : v = PlayNpc(st, seed)
  OBVIOUS
<1>3. CASE st.ok \/ SettleDone(e)
  <2>1. v = [st EXCEPT !.ok = TRUE]
    BY <1>0, <1>2, <1>3 DEF PlayNpc
  <2>2. v \in Rounding(o) /\ v.f = e /\ v.ok = TRUE
    BY <1>0, <1>1, <2>1 DEF Rounding
  <2>3. SettleDone(e)
    BY <1>0, <1>3 DEF Turned
  <2> QED BY <1>1, <1>2, <2>2, <2>3 DEF Turned
<1>4. CASE ~st.ok /\ ~SettleDone(e)
  <2>1. Current(e) \in Npcs /\ Current(e) \notin Heroes
    BY <1>4, OnTurn DEF SettleDone, Combatants
  <2>2. PICK g : g = NpcTurn(e, Current(e), seed)
    OBVIOUS
  <2>3. /\ g \in Fights(o) /\ Ran(e, g) /\ Ready(g)
        /\ \A x \in ToSet(o) : x # Current(g) =>
               (Standing(g.acts[x]) => Standing(e.acts[x]))
        /\ \A p \in 1..Len(o) : p # e.cur /\ Standing(g.acts[o[p]]) /\ o[p] # Current(g)
              => Ahead(o, g.cur, p) <= Ahead(o, e.cur, p) - 1
    BY <2>1, <2>2, NpcActs
  <2>4. v = [st EXCEPT !.f = g]
    BY <1>0, <1>2, <1>4, <2>2 DEF PlayNpc
  <2>5. v \in Rounding(o) /\ v.f = g /\ v.ok = FALSE
    BY <1>1, <1>4, <2>3, <2>4 DEF Rounding
  <2>6. Ran(f, g)
    BY <1>1, <2>3, RanHolds
  <2>7. ASSUME NEW p \in 1..Len(o), o[p] \in Heroes, Standing(g.acts[o[p]]), o[p] # Current(g)
        PROVE  Ahead(o, g.cur, p) + i <= Ahead(o, f.cur, p)
    <3>1. o[p] \in ToSet(o) /\ Current(e) = o[e.cur] /\ e.cur \in 1..Len(o) /\ Len(o) \in Nat
          /\ f.cur \in 1..Len(o) /\ g.cur \in 1..Len(o)
      BY <2>3, OnTurn
    <3>2. Standing(e.acts[o[p]]) /\ o[p] # Current(e) /\ p # e.cur
      BY <2>1, <2>3, <2>7, <3>1
    <3>3. Ahead(o, e.cur, p) + (i - 1) <= Ahead(o, f.cur, p)
      BY <1>0, <1>4, <2>7, <3>2 DEF Turned
    <3>4. Ahead(o, g.cur, p) <= Ahead(o, e.cur, p) - 1
      BY <2>3, <2>7, <3>2
    <3>5. \A c \in 1..Len(o) : Ahead(o, c, p) \in Int
      BY <3>1 DEF Ahead
    <3> QED BY <3>1, <3>3, <3>4, <3>5
  <2> QED BY <1>2, <2>3, <2>5, <2>6, <2>7 DEF Turned
<1> QED BY <1>1, <1>3, <1>4

(* settle_npcs_until is its last turn.                                      *)
LEMMA SettleTurns ==
  ASSUME NEW o \in Turns, NEW f \in Fights(o), NEW seed
  PROVE  \E h : /\ \A i \in 0..(Len(o) + 1) : Turned(o, f, h[i], i)
                /\ \A i \in 1..(Len(o) + 1) : h[i] = PlayNpc(h[i - 1], seed)
                /\ Settle(f, seed) = h[Len(o) + 1]
<1> DEFINE n == Len(o) + 1
           x == [f |-> f, ok |-> FALSE]
           Def(h) == h = [i \in 0..n |-> IF i = 0 THEN x ELSE PlayNpc(h[i - 1], seed)]
           next == [i \in 1..n |-> [st \in Rounding(o) |-> PlayNpc(st, seed)]]
<1>0. n \in Nat /\ f.order = o /\ x \in Rounding(o)
  BY OnTurn DEF Rounding
<1>1. next \in [1..n -> [Rounding(o) -> Rounding(o)]]
  BY PlayTyped
<1>2. PICK g \in [0..n -> Rounding(o)] : g[0] = x /\ \A i \in 1..n : g[i] = next[i][g[i - 1]]
  <2> HIDE DEF next, n, x
  <2>1. PICK m \in Nat : m = n
    BY <1>0
  <2>2. PICK y \in Rounding(o) : y = x
    BY <1>0
  <2>3. PICK later \in [1..m -> [Rounding(o) -> Rounding(o)]] : later = next
    BY <1>1, <2>1
  <2>4. \E g \in [0..m -> Rounding(o)] : g[0] = y /\ \A i \in 1..m : g[i] = later[i][g[i - 1]]
    BY Iterates
  <2> QED BY <2>1, <2>2, <2>3, <2>4
<1>3. \A i \in 1..n : g[i] = PlayNpc(g[i - 1], seed)
  <2> HIDE DEF x
  <2>1. \A i \in 1..n : i - 1 \in 0..n
    BY <1>0
  <2>2. \A i \in 1..n : g[i - 1] \in Rounding(o)
    BY <1>2, <2>1
  <2> QED BY <1>2, <2>2
<1>4. Def(g)
  <2> HIDE DEF x, next, n
  <2>1. g = [i \in 0..n |-> g[i]]
    BY <1>2
  <2>2. \A i \in 0..n : i = 0 \/ i \in 1..n
    BY <1>0
  <2> QED BY <1>2, <1>3, <2>1, <2>2
<1>5. PICK h : h = CHOOSE k : Def(k)
  OBVIOUS
<1>6. Def(h)
  <2> HIDE DEF Def
  <2> QED BY <1>4, <1>5
<1>7. Settle(f, seed) = h[n]
  BY <1>0, <1>5 DEF Settle
<1>8. h[0] = x /\ \A i \in 1..n : h[i] = PlayNpc(h[i - 1], seed)
  <2> HIDE DEF x
  <2>1. 0 \in 0..n /\ \A i \in 1..n : i \in 0..n /\ i # 0
    BY <1>0
  <2> QED BY <1>6, <2>1
<1>9. Turned(o, f, x, 0)
  <2>1. Ran(f, f)
    BY RanHolds
  <2>2. x.f = f /\ x.ok = FALSE
    OBVIOUS
  <2>3. \A p \in 1..Len(o) : Ahead(o, f.cur, p) + 0 <= Ahead(o, f.cur, p)
    <3>1. f.cur \in 1..Len(o) /\ Len(o) \in Nat
      BY OnTurn
    <3> QED BY <3>1 DEF Ahead
  <2> HIDE DEF x
  <2> QED BY <1>0, <2>1, <2>2, <2>3 DEF Turned
<1>10. \A i \in 0..n : Turned(o, f, h[i], i)
  <2> DEFINE P == {i \in 0..n : Turned(o, f, h[i], i)}
  <2> HIDE DEF x
  <2>1. 0 \in P
    BY <1>0, <1>8, <1>9
  <2>2. ASSUME NEW i \in 1..n, i - 1 \in P PROVE i \in P
    <3>1. Turned(o, f, h[i - 1], i - 1) /\ i \in Nat \ {0} /\ i \in 0..n
      BY <1>0, <2>2
    <3>2. Turned(o, f, PlayNpc(h[i - 1], seed), i)
      BY <3>1, PlaysOn
    <3> QED BY <1>8, <3>1, <3>2
  <2>3. \A i \in 0..n : i \in P
    <3> HIDE DEF P, n
    <3> QED BY <1>0, <2>1, <2>2, UpTo
  <2> QED BY <2>3
<1> HIDE DEF x, Def, next
<1> QED BY <1>7, <1>8, <1>10

(* The opponents' turns always come to an end within their bound.           *)
LEMMA Settled ==
  ASSUME NEW o \in Turns, NEW f \in Fights(o), NEW seed
  PROVE  LET st == Settle(f, seed) IN
         /\ st \in Rounding(o) /\ st.ok = TRUE /\ SettleDone(st.f)
         /\ Ran(f, st.f) /\ (Ready(f) => Ready(st.f))
<1> DEFINE n == Len(o)
<1>1. PICK h : /\ \A i \in 0..(n + 1) : Turned(o, f, h[i], i)
               /\ \A i \in 1..(n + 1) : h[i] = PlayNpc(h[i - 1], seed)
               /\ Settle(f, seed) = h[n + 1]
  BY SettleTurns
<1>2. n \in Nat \ {0} /\ n \in 0..(n + 1) /\ n + 1 \in 0..(n + 1) /\ n + 1 \in 1..(n + 1)
      /\ (n + 1) - 1 = n
  BY OnTurn
<1>3. Turned(o, f, h[n], n) /\ Turned(o, f, h[n + 1], n + 1) /\ h[n + 1] = PlayNpc(h[n], seed)
  BY <1>1, <1>2
<1>4. PICK e \in Fights(o) : e = h[n].f
  BY <1>3 DEF Turned, Rounding
<1>5. h[n].ok \/ SettleDone(e)
  <2> SUFFICES ASSUME ~h[n].ok, ~SettleDone(e) PROVE FALSE
    OBVIOUS
  <2>1. PICK x \in ToSet(o) : x \in Heroes /\ Standing(e.acts[x]) /\ Current(e) \notin Heroes
    BY OnTurn DEF SettleDone, AnyHero
  <2>2. PICK p \in 1..Len(o) : o[p] = x
    BY OnTurn
  <2>3. Ahead(o, e.cur, p) + n <= Ahead(o, f.cur, p)
    BY <1>3, <1>4, <2>1, <2>2 DEF Turned
  <2>4. e.cur \in 1..Len(o) /\ f.cur \in 1..Len(o)
    BY OnTurn
  <2> QED BY <1>2, <2>3, <2>4 DEF Ahead
<1>6. h[n] \in Rounding(o)
  BY <1>3 DEF Turned
<1>7. h[n + 1] = [h[n] EXCEPT !.ok = TRUE]
  BY <1>3, <1>4, <1>5 DEF PlayNpc
<1>8. h[n + 1].ok = TRUE
  BY <1>6, <1>7 DEF Rounding
<1>9. PICK st : st = h[n + 1]
  OBVIOUS
<1>10. st \in Rounding(o) /\ SettleDone(st.f) /\ Ran(f, st.f) /\ (Ready(f) => Ready(st.f))
  BY <1>3, <1>8, <1>9 DEF Turned
<1> QED BY <1>1, <1>8, <1>9, <1>10

-----------------------------------------------------------------------------
(* What closing a fight that is over leaves of it.                          *)
Stays(f, g) ==
  /\ g.acts = f.acts /\ g.cur = f.cur /\ g.round = f.round /\ (g.authored <=> f.authored)

(* finalize_authored_encounter closes a fight that somebody has won, once, *)
(* and changes nobody in it.                                               *)
LEMMA Finalizes ==
  ASSUME NEW o \in Turns, NEW f \in Fights(o), NEW retreat \in BOOLEAN
  PROVE  LET g == Finalize(f, retreat) IN
         /\ g \in Fights(o) /\ Stays(f, g)
         /\ g.active => f.active
         /\ ~f.authored => (g.active <=> f.active) /\ g.outcome = f.outcome
         /\ f.outcome # NoOutcome => (g.active <=> f.active) /\ g.outcome = f.outcome
         /\ f.outcome = NoOutcome /\ f.authored =>
              /\ g.active <=> g.outcome = NoOutcome
              /\ g.active => AnyHero(f) /\ AnyFoe(f) /\ f.round < StopRound /\ ~retreat
<1>0. /\ AnyHero(f) \in BOOLEAN /\ AnyFoe(f) \in BOOLEAN /\ f.round \in Nat /\ StopRound \in Nat
      /\ f.active \in BOOLEAN /\ f.authored \in BOOLEAN
      /\ f.outcome \in {"none", "retreated", "defeated", "held"}
  BY RulesAssumption DEF AnyHero, AnyFoe, Fights
<1>1. PICK v : v = CASE ~AnyHero(f) -> "defeated"
                     [] AnyHero(f) /\ retreat -> "retreated"
                     [] AnyHero(f) /\ ~retreat /\ (~AnyFoe(f) \/ f.round >= StopRound) -> "held"
                     [] AnyHero(f) /\ ~retreat /\ AnyFoe(f) /\ f.round < StopRound
                            /\ ~f.active -> "retreated"
                     [] OTHER -> NoOutcome
  OBVIOUS
<1>2. PICK g : g = Finalize(f, retreat)
  OBVIOUS
<1>3. g = IF ~f.authored \/ f.outcome # NoOutcome \/ v = NoOutcome THEN f
          ELSE [f EXCEPT !.outcome = v, !.active = FALSE]
  BY <1>1, <1>2 DEF Finalize
<1>4. v \in {"none", "retreated", "defeated", "held"}
      /\ (v = "none" => AnyHero(f) /\ AnyFoe(f) /\ f.round < StopRound /\ ~retreat /\ f.active)
  BY <1>0, <1>1 DEF NoOutcome
<1>5. CASE ~f.authored \/ f.outcome # NoOutcome \/ v = NoOutcome
  <2>1. g = f
    BY <1>3, <1>5
  <2>2. f.authored /\ f.outcome = NoOutcome => v = "none"
    BY <1>5 DEF NoOutcome
  <2> QED BY <1>0, <1>2, <1>4, <2>1, <2>2 DEF Stays, NoOutcome
<1>6. CASE ~(~f.authored \/ f.outcome # NoOutcome \/ v = NoOutcome)
  <2>1. g = [f EXCEPT !.outcome = v, !.active = FALSE]
    BY <1>3, <1>6
  <2>2. PICK h : h = [f EXCEPT !.outcome = v]
    OBVIOUS
  <2>3. h \in Fights(o)
    BY <1>4, <2>2 DEF Fights
  <2>4. g = [h EXCEPT !.active = FALSE]
    BY <2>1, <2>2
  <2>5. g \in Fights(o)
    BY <2>3, <2>4 DEF Fights
  <2>6. /\ g.acts = f.acts /\ g.cur = f.cur /\ g.round = f.round /\ g.authored = f.authored
        /\ g.outcome = v /\ g.active = FALSE
    BY <2>1 DEF Fights
  <2> QED BY <1>2, <1>6, <2>5, <2>6 DEF Stays
<1> QED BY <1>5, <1>6

(* finish_if_resolved closes a fight that nobody can win or lose.          *)
LEMMA Finishes ==
  ASSUME NEW o \in Turns, NEW f \in Fights(o)
  PROVE  LET g == FinishIfResolved(f) IN
         /\ g \in Fights(o) /\ Stays(f, g) /\ g.outcome = f.outcome
         /\ g.active <=> f.active /\ AnyHero(f) /\ AnyFoe(f)
<1>1. PICK d \in BOOLEAN : d = (f.active /\ AnyHero(f) /\ AnyFoe(f))
  OBVIOUS
<1>2. PICK g : g = FinishIfResolved(f)
  OBVIOUS
<1>3. g = [f EXCEPT !.active = d]
  BY <1>1, <1>2 DEF FinishIfResolved
<1>4. g \in Fights(o)
  BY <1>3 DEF Fights
<1>5. /\ g.acts = f.acts /\ g.cur = f.cur /\ g.round = f.round /\ g.authored = f.authored
      /\ g.outcome = f.outcome /\ g.active = d
  BY <1>3 DEF Fights
<1> QED BY <1>1, <1>2, <1>4, <1>5 DEF Stays

(* An open fight waits for a hero who can act, against somebody.            *)
Waits(f) ==
  /\ f.active => /\ Current(f) \in Heroes /\ Standing(f.acts[Current(f)]) /\ AnyFoe(f)
                 /\ f.outcome = NoOutcome
  /\ ~f.authored => f.outcome = NoOutcome
  /\ f.authored /\ ~f.active => f.outcome # NoOutcome

(* Where the same heroes and the same opponents are left, the same may     *)
(* happen.                                                                 *)
LEMMA StaysHolds ==
  ASSUME NEW o \in Turns, NEW f \in Fights(o), NEW g \in Fights(o), Stays(f, g)
  PROVE  /\ Current(g) = Current(f) /\ (AnyHero(g) <=> AnyHero(f)) /\ (AnyFoe(g) <=> AnyFoe(f))
         /\ \A x \in ToSet(o) : g.acts[x] = f.acts[x]
         /\ g.round >= f.round
<1>1. f.order = o /\ g.order = o /\ f.round \in Nat
  BY DEF Fights
<1> QED BY <1>1 DEF Stays, Current, AnyHero, AnyFoe

(* resolve_current closes a fight whose opponents have played.              *)
LEMMA Closes ==
  ASSUME NEW o \in Turns, NEW st \in Rounding(o), NEW retreat \in BOOLEAN
  PROVE  LET c == Closed(st, retreat) IN
         /\ c \in Rounding(o) /\ c.ok = st.ok /\ Stays(st.f, c.f)
         /\ c.f.active => st.f.active
         /\ SettleDone(st.f) /\ Ready(st.f) /\ st.f.outcome = NoOutcome => Waits(c.f)
<1>1. PICK f \in Fights(o) : f = st.f
  BY DEF Rounding
<1>2. PICK e : e = FinishIfResolved(f)
  OBVIOUS
<1>3. /\ e \in Fights(o) /\ Stays(f, e) /\ e.outcome = f.outcome
      /\ e.active <=> f.active /\ AnyHero(f) /\ AnyFoe(f)
  BY <1>2, Finishes
<1>4. PICK g : g = Finalize(e, retreat)
  OBVIOUS
<1>5. /\ g \in Fights(o) /\ Stays(e, g)
      /\ g.active => e.active
      /\ ~e.authored => (g.active <=> e.active) /\ g.outcome = e.outcome
      /\ e.outcome # NoOutcome => (g.active <=> e.active) /\ g.outcome = e.outcome
      /\ e.outcome = NoOutcome /\ e.authored =>
              /\ g.active <=> g.outcome = NoOutcome
              /\ g.active => AnyHero(e) /\ AnyFoe(e) /\ e.round < StopRound /\ ~retreat
  BY <1>3, <1>4, Finalizes
<1>6. PICK c : c = Closed(st, retreat)
  OBVIOUS
<1>7. c = [st EXCEPT !.f = g]
  BY <1>1, <1>2, <1>4, <1>6 DEF Closed
<1>8. c \in Rounding(o) /\ c.ok = st.ok /\ c.f = g
  BY <1>5, <1>7 DEF Rounding
<1>9. Stays(f, g)
  BY <1>3, <1>5 DEF Stays
<1>10. g.active => f.active
  BY <1>3, <1>5
<1>11. ASSUME SettleDone(f), Ready(f), f.outcome = NoOutcome PROVE Waits(g)
  <2>1. Current(g) = Current(f) /\ (AnyFoe(g) <=> AnyFoe(f)) /\ \A x \in ToSet(o) : g.acts[x] = f.acts[x]
    BY <1>5, <1>9, StaysHolds
  <2>2. Current(f) \in ToSet(o) /\ DOMAIN f.acts = ToSet(o) /\ f.round \in Nat /\ StopRound \in Nat
    BY OnTurn, RulesAssumption DEF Fights
  <2>3. (e.authored <=> f.authored) /\ e.round = f.round /\ (g.authored <=> e.authored)
    BY <1>3, <1>5 DEF Stays
  <2>4. ASSUME g.active
        PROVE  Current(g) \in Heroes /\ Standing(g.acts[Current(g)]) /\ AnyFoe(g)
    <3>1. AnyHero(f) /\ AnyFoe(f)
      BY <1>3, <1>5, <2>4
    <3>2. ~(f.authored /\ f.round >= StopRound)
      BY <1>3, <1>5, <1>11, <2>2, <2>3, <2>4
    <3>3. Current(f) \in Heroes
      BY <1>11, <3>1, <3>2 DEF SettleDone
    <3>4. Standing(f.acts[Current(f)])
      BY <1>11, <2>2, <3>1, <3>2 DEF Ready, AtBoundary, AnyHero
    <3> QED BY <2>1, <2>2, <3>1, <3>3, <3>4
  <2>5. g.active => g.outcome = NoOutcome
    BY <1>3, <1>5, <1>11, <2>3
  <2>6. (~g.authored => g.outcome = NoOutcome) /\ (g.authored /\ ~g.active => g.outcome # NoOutcome)
    BY <1>3, <1>5, <1>11, <2>3
  <2> QED BY <2>4, <2>5, <2>6 DEF Waits
<1> QED BY <1>1, <1>6, <1>8, <1>9, <1>10, <1>11

-----------------------------------------------------------------------------
(* What a hero's command does to a fight.                                  *)

(* Whoever casts pays with a slot and an action.                           *)
LEMMA Casts ==
  ASSUME NEW a \in Actor, ~a.out, NEW b,
         \/ b = [[a EXCEPT !.slots = a.slots - 1, !.cast = TRUE] EXCEPT !.bonus = FALSE]
         \/ b = [[a EXCEPT !.slots = a.slots - 1, !.cast = TRUE] EXCEPT !.action = FALSE]
  PROVE  /\ b \in Actor /\ Fate(a, b) /\ (Standing(b) <=> Standing(a))
         /\ b.hp = a.hp /\ b.dead = a.dead /\ b.out = a.out
<1>0. a \in Actors /\ Readable(a) /\ a.slots - 1 \in Int
  BY DEF Actor, Actors
<1>1. PICK c \in Actors : c = [a EXCEPT !.slots = a.slots - 1]
  BY <1>0, Spends
<1>2. PICK d \in Actors : d = [c EXCEPT !.cast = TRUE]
  BY Spends
<1>3. b = [d EXCEPT !.bonus = FALSE] \/ b = [d EXCEPT !.action = FALSE]
  BY <1>1, <1>2
<1>4. b \in Actors
  <2>1. FALSE \in BOOLEAN
    OBVIOUS
  <2>2. [d EXCEPT !.bonus = FALSE] \in Actors /\ [d EXCEPT !.action = FALSE] \in Actors
    BY <2>1, Spends, Zenon
  <2> QED BY <1>3, <2>2, Zenon
<1>5. /\ d.hp = a.hp /\ d.dead = a.dead /\ d.succs = a.succs /\ d.fails = a.fails
      /\ d.stable = a.stable /\ d.out = a.out
  BY <1>0, <1>1, <1>2 DEF Actors
<1>6. /\ b.hp = d.hp /\ b.dead = d.dead /\ b.succs = d.succs /\ b.fails = d.fails
      /\ b.stable = d.stable /\ b.out = d.out
  <2>1. CASE b = [d EXCEPT !.bonus = FALSE]
    BY <2>1 DEF Actors
  <2>2. CASE b = [d EXCEPT !.action = FALSE]
    BY <2>2 DEF Actors
  <2> QED BY <1>3, <2>1, <2>2
<1>7. Readable(b)
  BY <1>0, <1>5, <1>6 DEF Readable
<1> QED BY <1>4, <1>5, <1>6, <1>7 DEF Actor, Fate, Standing, Conscious

(* The length of a way is a number.                                        *)
LEMMA WayIs ==
  ASSUME NEW from \in Int, NEW to \in Int
  PROVE  Cardinality(Path(from, to)) \in Nat
<1>1. from + 1 \in Int /\ from - 1 \in Int
  OBVIOUS
<1>2. Cardinality((from + 1)..to) \in Nat
  BY <1>1, FS_Interval, FS_CardinalityType
<1>3. Cardinality(to..(from - 1)) \in Nat
  BY <1>1, FS_Interval, FS_CardinalityType
<1> QED BY <1>2, <1>3 DEF Path

(* The current hero does something it may do.                               *)
Kinds == {"melee", "shoot", "heal", "missile", "move", "retreat", "end"}
(* A command of one of the heroes in the fight on somebody in the fight.   *)
Given(o, c) == /\ c.by \in ToSet(o) \cap Heroes /\ c.on \in ToSet(o)
               /\ c.kind \in Kinds /\ c.to \in Cells \cup {0}

(* The place a command names is a number.                                  *)
LEMMA GoesTo ==
  ASSUME NEW o, NEW c, Given(o, c)
  PROVE  c.to \in Int
<1>1. PICK to \in Cells \cup {0} : to = c.to
  BY DEF Given
<1>2. Cells \subseteq Nat
  BY RulesAssumption
<1>3. to \in Int
  BY <1>2
<1> QED BY <1>1, <1>3

(* Every action a hero is allowed leaves a fight in which somebody can act,*)
(* or nobody is left to.                                                   *)
LEMMA Performs ==
  ASSUME NEW o \in Turns, NEW f \in Fights(o), NEW c, Given(o, c), Allowed(f, c),
         Ready(f), NEW seed
  PROVE  LET g == Perform(f, c, seed) IN
         g \in Fights(o) /\ Ran(f, g) /\ Ready(g)
<1>1. PICK by \in ToSet(o) : by = c.by
  BY DEF Given
<1>2. PICK on \in ToSet(o) : on = c.on
  BY DEF Given
<1>3. PICK me \in Actor : me = f.acts[by]
  BY OnTurn
<1>4. PICK it \in Actor : it = f.acts[on]
  BY OnTurn
<1>5. by \in Heroes /\ by \notin Npcs /\ ~me.out /\ Current(f) = by /\ (c.kind # "end" => Standing(me))
  BY <1>1, <1>3, RulesAssumption DEF Given, Allowed, Standing
<1>6. PICK g : g = Perform(f, c, seed)
  OBVIOUS
<1>7. SUFFICES g \in Fights(o) /\ Ran(f, g) /\ Ready(g)
  BY <1>6
<1>9. ASSUME NEW h \in Fights(o), h.cur = f.cur, Standing(h.acts[by]) PROVE Ready(h)
  <2>1. Current(h) = by
    BY <1>5, <1>9, OnTurn
  <2> QED BY <1>9, <2>1 DEF Ready
<1>10. CASE c.kind \in {"melee", "shoot"}
  <2>1. on \in Npcs /\ ~it.out /\ it.hp > 0 /\ by # on
    BY <1>2, <1>4, <1>5, <1>10 DEF Allowed
  <2>2. PICK roll : roll = seed[by]
    OBVIOUS
  <2>3. PICK arrow \in BOOLEAN : arrow = (c.kind = "shoot")
    OBVIOUS
  <2>4. g = Strike(f, by, on, roll, arrow)
    BY <1>1, <1>2, <1>6, <1>10, <2>2, <2>3 DEF Perform
  <2>5. /\ g \in Fights(o) /\ g.cur = f.cur /\ Ran(f, g)
        /\ Standing(g.acts[by]) <=> Standing(f.acts[by])
    BY <1>3, <1>4, <1>5, <2>1, <2>4, Strikes
  <2> QED BY <1>3, <1>5, <1>9, <1>10, <2>5
<1>11. CASE c.kind = "heal"
  <2>1. ~it.out /\ Standing(me)
    BY <1>2, <1>4, <1>5, <1>11 DEF Allowed
  <2>2. PICK b : b = [[me EXCEPT !.slots = me.slots - 1, !.cast = TRUE] EXCEPT !.bonus = FALSE]
    OBVIOUS
  <2>3. b \in Actor /\ Fate(me, b) /\ (Standing(b) <=> Standing(me)) /\ b.out = me.out
    BY <1>5, <2>2, Casts
  <2>4. PICK e : e = With(f, by, b)
    OBVIOUS
  <2>5. /\ e \in Fights(o) /\ e.cur = f.cur /\ Ran(f, e) /\ e.acts[by] = b
        /\ \A x \in ToSet(o) : x # by => e.acts[x] = f.acts[x]
    BY <1>3, <2>3, <2>4, FateTouch
  <2>6. PICK a \in Actor : a = e.acts[on]
    BY <2>5, OnTurn
  <2>7. ~a.out /\ (on = by => Standing(a))
    BY <1>4, <1>5, <2>1, <2>3, <2>5, <2>6
  <2>8. PICK w : w = Heal(a, 2)
    OBVIOUS
  <2>9. w \in Actor /\ w.out = a.out /\ (w.dead <=> a.dead) /\ (~a.dead => w.hp > 0)
    BY <2>8, HealHeals
  <2>10. Fate(a, w) /\ (Standing(a) => Standing(w))
    BY <2>7, <2>9 DEF Fate, Standing, Conscious
  <2>11. PICK h : h = With(e, on, w)
    OBVIOUS
  <2>12. /\ h \in Fights(o) /\ h.cur = e.cur /\ Ran(e, h) /\ h.acts[on] = w
        /\ \A x \in ToSet(o) : x # on => h.acts[x] = e.acts[x]
    <3>1. Fate(e.acts[on], w)
      BY <2>6, <2>10
    <3>2. e \in Fights(o)
      BY <2>5
    <3> QED BY <2>9, <2>11, <3>1, <3>2, FateTouch
  <2>13. g = h
    BY <1>1, <1>2, <1>3, <1>6, <1>11, <2>2, <2>4, <2>6, <2>8, <2>11 DEF Perform, With
  <2>14. Ran(f, h)
    BY <2>5, <2>12, RanHolds
  <2>15. Standing(h.acts[by])
    BY <2>1, <2>3, <2>5, <2>7, <2>10, <2>12
  <2> QED BY <1>9, <2>5, <2>12, <2>13, <2>14, <2>15
<1>12. CASE c.kind = "missile"
  <2>1. on \in Npcs /\ ~it.out /\ it.hp > 0 /\ by # on /\ Standing(me)
    BY <1>2, <1>4, <1>5, <1>12 DEF Allowed
  <2>2. PICK b : b = [[me EXCEPT !.slots = me.slots - 1, !.cast = TRUE] EXCEPT !.action = FALSE]
    OBVIOUS
  <2>3. b \in Actor /\ Fate(me, b) /\ (Standing(b) <=> Standing(me)) /\ b.out = me.out
    BY <1>5, <2>2, Casts
  <2>4. PICK e : e = With(f, by, b)
    OBVIOUS
  <2>5. /\ e \in Fights(o) /\ e.cur = f.cur /\ Ran(f, e) /\ e.acts[by] = b
        /\ \A x \in ToSet(o) : x # by => e.acts[x] = f.acts[x]
    BY <1>3, <2>3, <2>4, FateTouch
  <2>6. e.acts[on] = it
    BY <1>4, <2>1, <2>5
  <2>7. PICK hurt : hurt = Harm(it, 1, FALSE)
    OBVIOUS
  <2>8. hurt \in Actor /\ hurt.out = it.out /\ (it.dead => hurt.dead) /\ ~hurt.stable
    <3>1. PICK n \in 1..2 : n = 1
      OBVIOUS
    <3>2. PICK crit \in BOOLEAN : crit = FALSE
      OBVIOUS
    <3>3. hurt = Harm(it, n, crit)
      BY <2>7, <3>1, <3>2
    <3>4. /\ Harm(it, n, crit) \in Actor /\ Harm(it, n, crit).out = it.out
          /\ it.dead => Harm(it, n, crit).dead
          /\ it.hp > 0 => ~Harm(it, n, crit).stable
      BY HarmHurts
    <3> QED BY <2>1, <3>3, <3>4
  <2>9. PICK w : w = Buried(hurt)
    OBVIOUS
  <2>10. w \in Actor /\ w.out = it.out /\ (it.dead => w.dead)
    <3>1. w \in Actor /\ w.out = hurt.out /\ (hurt.dead => w.dead)
      BY <2>8, <2>9, Slain
    <3> QED BY <2>8, <3>1
  <2>11. Fate(it, w)
    BY <2>1, <2>10 DEF Fate
  <2>12. PICK h : h = With(e, on, w)
    OBVIOUS
  <2>13. /\ h \in Fights(o) /\ h.cur = e.cur /\ Ran(e, h)
        /\ \A x \in ToSet(o) : x # on => h.acts[x] = e.acts[x]
    <3>1. Fate(e.acts[on], w)
      BY <2>6, <2>11
    <3>2. e \in Fights(o)
      BY <2>5
    <3> QED BY <2>10, <2>12, <3>1, <3>2, FateTouch
  <2>14. g = h
    BY <1>1, <1>2, <1>3, <1>6, <1>12, <2>2, <2>4, <2>6, <2>7, <2>9, <2>12 DEF Perform, With, Buried
  <2>15. Ran(f, h)
    BY <2>5, <2>13, RanHolds
  <2>16. Standing(h.acts[by])
    BY <2>1, <2>3, <2>5, <2>13
  <2> QED BY <1>9, <2>5, <2>13, <2>14, <2>15, <2>16
<1>13. CASE c.kind = "move"
  <2>1. PICK to \in Int : to = c.to
    BY GoesTo
  <2>2. PICK cost \in Nat : cost = Cardinality(Path(me.at, to))
    BY WayIs DEF Actor, Actors
  <2>3. PICK left \in Int : left = me.move - cost
    BY DEF Actor, Actors
  <2>4. PICK b : b = [me EXCEPT !.at = to, !.move = left]
    OBVIOUS
  <2>5. b \in Actor /\ Untouched(me, b)
    BY <2>4, Moves
  <2>6. PICK h : h = With(f, by, b)
    OBVIOUS
  <2>7. Quiet(o, f, h) /\ h.acts[by] = b
    BY <1>3, <2>5, <2>6, QuietTouch
  <2>8. g = h
    BY <1>1, <1>3, <1>6, <1>13, <2>1, <2>2, <2>3, <2>4, <2>6 DEF Perform, With
  <2>9. Standing(b)
    BY <1>5, <1>13, <2>5, UntouchedIs
  <2> QED BY <1>9, <2>7, <2>8, <2>9 DEF Quiet
<1>14. CASE c.kind = "retreat"
  <2>4. PICK b : b = [me EXCEPT !.action = FALSE]
    OBVIOUS
  <2>5. b \in Actor /\ Untouched(me, b)
    BY <2>4, Acts
  <2>6. PICK h : h = With(f, by, b)
    OBVIOUS
  <2>7. Quiet(o, f, h) /\ h.acts[by] = b
    BY <1>3, <2>5, <2>6, QuietTouch
  <2>8. g = h
    BY <1>1, <1>3, <1>6, <1>14, <2>4, <2>6 DEF Perform, With
  <2>9. Standing(b)
    BY <1>5, <1>14, <2>5, UntouchedIs
  <2> QED BY <1>9, <2>7, <2>8, <2>9 DEF Quiet
<1>15. CASE c.kind = "end"
  <2>1. g = EndTurn(f, seed)
    BY <1>6, <1>15 DEF Perform
  <2> QED BY <2>1, TurnEnded
<1> QED BY <1>10, <1>11, <1>12, <1>13, <1>14, <1>15 DEF Given, Kinds

(* prepare_action: what the engine makes of a fight in one call.            *)
LEMMA Prepares ==
  ASSUME NEW o \in Turns, NEW f \in Fights(o), NEW c, Given(o, c), Waits(f), NEW seed
  PROVE  LET st == Prepare(f, c, seed) IN
         /\ f.active /\ Allowed(f, c) => st.ok
         /\ st.ok => /\ st.f \in Fights(o) /\ Waits(st.f)
                     /\ st.f.round >= f.round
                     /\ (st.f.authored <=> f.authored)
                     /\ \A x \in ToSet(o) : Fate(f.acts[x], st.f.acts[x])
<1>1. CASE ~f.active \/ ~Allowed(f, c)
  BY <1>1 DEF Prepare, Refused
<1>2. CASE f.active /\ Allowed(f, c)
  <2>1. Ready(f) /\ f.outcome = NoOutcome
    BY <1>2 DEF Waits, Ready
  <2>2. PICK g \in Fights(o) : g = Perform(f, c, seed)
    BY <1>2, <2>1, Performs
  <2>3. Ran(f, g) /\ Ready(g)
    BY <1>2, <2>1, <2>2, Performs
  <2>4. PICK st \in Rounding(o) : st = Settle(g, seed)
    BY Settled
  <2>5. st.ok = TRUE /\ SettleDone(st.f) /\ Ran(g, st.f) /\ Ready(st.f) /\ st.f \in Fights(o)
    BY <2>3, <2>4, Settled DEF Rounding
  <2>6. PICK retreat \in BOOLEAN : retreat = (c.kind = "retreat")
    OBVIOUS
  <2>7. PICK d : d = Closed(st, retreat)
    OBVIOUS
  <2>8. Ran(f, st.f)
    BY <2>3, <2>5, RanHolds
  <2>9. st.f.outcome = NoOutcome
    BY <2>1, <2>8 DEF Ran
  <2>10. d \in Rounding(o) /\ d.ok = st.ok /\ Stays(st.f, d.f) /\ Waits(d.f) /\ d.f \in Fights(o)
    BY <2>5, <2>7, <2>9, Closes DEF Rounding
  <2>11. d = Prepare(f, c, seed)
    BY <1>2, <2>2, <2>4, <2>6, <2>7 DEF Prepare
  <2>12. DOMAIN f.acts = ToSet(o) /\ d.f.acts = st.f.acts /\ d.f.round = st.f.round
         /\ (d.f.authored <=> st.f.authored)
    BY <2>10, OnTurn DEF Stays
  <2> QED BY <1>2, <2>5, <2>8, <2>10, <2>11, <2>12 DEF Ran
<1> QED BY <1>1, <1>2

-----------------------------------------------------------------------------
(* reconcile_participants: heroes come to the table and leave it.          *)

(* There is a free cell for a combatant who does not stand.                 *)
LEMMA RoomLeft ==
  ASSUME NEW o \in Turns, NEW f \in Fights(o), NEW id \in ToSet(o), ~Standing(f.acts[id])
  PROVE  \E c \in Cells : c \notin Taken(f, "nobody")
<1> DEFINE S == {x \in DOMAIN f.acts \ {"nobody"} : Standing(f.acts[x])}
           T == Taken(f, "nobody")
           m == [x \in S |-> f.acts[x].at]
<1>0. IsFiniteSet(Combatants) /\ IsFiniteSet(Cells) /\ Cardinality(Cells) >= Cardinality(Combatants)
  <2>1. IsFiniteSet(Heroes) /\ IsFiniteSet(Npcs) /\ IsFiniteSet(Cells)
        /\ Cardinality(Cells) >= Cardinality(Heroes \cup Npcs)
    BY RulesAssumption
  <2>2. IsFiniteSet(Heroes \cup Npcs)
    BY <2>1, FS_Union
  <2> QED BY <2>1, <2>2 DEF Combatants
<1>1. id \in Combatants /\ S \subseteq Combatants \ {id}
  BY OnTurn
<1>2. /\ IsFiniteSet(Combatants \ {id})
      /\ Cardinality(Combatants \ {id}) = Cardinality(Combatants) - 1
  BY <1>0, <1>1, FS_RemoveElement
<1>3. IsFiniteSet(S) /\ Cardinality(S) <= Cardinality(Combatants \ {id})
  <2> HIDE DEF S
  <2> QED BY <1>1, <1>2, FS_Subset
<1>4. m \in Surjection(S, T)
  <2>1. T = {f.acts[x].at : x \in S}
    BY DEF Taken
  <2> HIDE DEF T, S
  <2>2. m \in [S -> T]
    BY <2>1
  <2>3. \A t \in T : \E x \in S : m[x] = t
    BY <2>1
  <2> QED BY <2>2, <2>3 DEF Surjection
<1>5. IsFiniteSet(T) /\ Cardinality(T) <= Cardinality(S)
  <2> HIDE DEF m, T, S
  <2> QED BY <1>3, <1>4, FS_Surjection
<1>6. ~(Cells \subseteq T)
  <2> SUFFICES ASSUME Cells \subseteq T PROVE FALSE
    OBVIOUS
  <2>1. Cardinality(Cells) <= Cardinality(T)
    <3> HIDE DEF T
    <3> QED BY <1>5, FS_Subset
  <2>2. Cardinality(T) \in Nat /\ Cardinality(S) \in Nat /\ Cardinality(Cells) \in Nat
        /\ Cardinality(Combatants) \in Nat
    <3> HIDE DEF T, S
    <3> QED BY <1>0, <1>3, <1>5, FS_CardinalityType
  <2> HIDE DEF T, S
  <2> QED BY <1>0, <1>2, <1>3, <1>5, <2>1, <2>2
<1> QED BY <1>6

(* There is a cell for whoever comes back, since there are as many cells as*)
(* combatants.                                                             *)
LEMMA FreeCell ==
  ASSUME NEW o \in Turns, NEW f \in Fights(o), NEW id \in ToSet(o), ~Standing(f.acts[id]),
         NEW at \in Int
  PROVE  Free(f, at) \in Int
<1> DEFINE free == Cells \ Taken(f, "nobody")
           D(c) == IF c > at THEN c - at ELSE at - c
           S == {D(c) : c \in free}
<1>0. free # {} /\ free \subseteq Nat
  <2>1. Cells \subseteq Nat
    BY RulesAssumption
  <2> QED BY <2>1, RoomLeft
<1>1. \A c \in free : D(c) \in Nat
  <2> HIDE DEF free
  <2> QED BY <1>0
<1>2. PICK s \in S : \A t \in S : s <= t
  <2>1. S \in SUBSET Nat /\ S # {}
    BY <1>0, <1>1
  <2> HIDE DEF S
  <2> QED BY <2>1, Smallest
<1>3. \E c \in free : \A d \in free : D(c) <= D(d)
  <2> HIDE DEF D
  <2> QED BY <1>2
<1>4. PICK h : h = CHOOSE c \in free : \A d \in free : D(c) <= D(d)
  OBVIOUS
<1>5. h \in free
  <2> HIDE DEF D, free
  <2> QED BY <1>3, <1>4
<1>6. Free(f, at) = IF at \in free THEN at ELSE h
  BY <1>4 DEF Free
<1> QED BY <1>0, <1>5, <1>6

(* A hero of the fight comes or goes: nothing else about it changes.        *)
Moved(f, g) ==
  /\ g.cur = f.cur /\ g.round = f.round /\ (g.active <=> f.active)
  /\ (g.authored <=> f.authored) /\ g.outcome = f.outcome
  /\ \A x \in DOMAIN f.acts : /\ Vitals(g.acts[x]) = Vitals(f.acts[x])
                              /\ g.acts[x].dead <=> f.acts[x].dead
                              /\ Conscious(g.acts[x]) <=> Conscious(f.acts[x])

(* A hero is called to the table or away, and nothing else about it changes*)
(* but its place.                                                          *)
LEMMA Seats ==
  ASSUME NEW o \in Turns, NEW f \in Fights(o), NEW id \in ToSet(o), NEW there
  PROVE  LET g == Seated(f, id, there) IN
         /\ g \in Fights(o) /\ Moved(f, g)
         /\ \A x \in ToSet(o) : x # id => g.acts[x] = f.acts[x]
         /\ id \in Heroes => (g.acts[id].out <=> id \notin there)
<1>0. PICK it \in Actor : it = f.acts[id]
  BY OnTurn
<1>1. PICK g : g = Seated(f, id, there)
  OBVIOUS
<1>2. DOMAIN f.acts = ToSet(o)
  BY OnTurn
<1>3. CASE id \in Npcs
  <2>1. g = f
    BY <1>1, <1>3 DEF Seated
  <2>2. id \notin Heroes
    BY <1>3, RulesAssumption
  <2> QED BY <1>1, <2>1, <2>2 DEF Moved
<1>4. CASE id \notin Npcs
  <2>1. PICK cell : cell = IF id \in there /\ it.out /\ Conscious(it) THEN Free(f, it.at) ELSE it.at
    OBVIOUS
  <2>2. cell \in Int
    <3>1. it.at \in Int
      BY DEF Actor, Actors
    <3>2. it.out => ~Standing(f.acts[id])
      BY <1>0 DEF Standing
    <3> QED BY <2>1, <3>1, <3>2, FreeCell
  <2>3. PICK away \in BOOLEAN : away = (id \notin there)
    OBVIOUS
  <2>4. PICK b : b = [it EXCEPT !.out = away, !.at = cell]
    OBVIOUS
  <2>5. it \in Actors /\ Readable(it)
    BY DEF Actor
  <2>6. PICK c \in Actors : c = [it EXCEPT !.out = away]
    BY <2>5, Updates
  <2>7. b = [c EXCEPT !.at = cell]
    BY <2>4, <2>6
  <2>8. b \in Actors
    BY <2>2, <2>7, Spends
  <2>9. /\ b.hp = it.hp /\ b.dead = it.dead /\ b.succs = it.succs /\ b.fails = it.fails
        /\ b.stable = it.stable /\ b.arrows = it.arrows /\ b.slots = it.slots /\ b.out = away
    BY <2>4, <2>5 DEF Actors
  <2>10. b \in Actor /\ Vitals(b) = Vitals(it) /\ (b.dead <=> it.dead)
         /\ (Conscious(b) <=> Conscious(it))
    BY <2>5, <2>8, <2>9 DEF Actor, Readable, Vitals, Conscious
  <2>11. PICK h : h = With(f, id, b)
    OBVIOUS
  <2>12. /\ h \in Fights(o)
         /\ h.cur = f.cur /\ h.round = f.round
         /\ (h.active <=> f.active) /\ (h.authored <=> f.authored) /\ h.outcome = f.outcome
         /\ h.acts[id] = b
         /\ \A x \in ToSet(o) : x # id => h.acts[x] = f.acts[x]
    BY <2>10, <2>11, Touched
  <2>13. g = h
    BY <1>0, <1>1, <1>4, <2>1, <2>3, <2>4, <2>11 DEF Seated, With
  <2>14. Moved(f, h)
    BY <1>0, <1>2, <2>10, <2>12 DEF Moved
  <2>15. h.acts[id].out <=> id \notin there
    BY <2>3, <2>9, <2>12
  <2> QED BY <1>1, <2>12, <2>13, <2>14, <2>15
<1> QED BY <1>3, <1>4

(* Calls to the table add up.                                              *)
LEMMA MovedHolds ==
  ASSUME NEW o \in Turns
  PROVE  /\ \A f \in Fights(o) : Moved(f, f)
         /\ \A f, g, h \in Fights(o) : Moved(f, g) /\ Moved(g, h) => Moved(f, h)
<1>1. \A f \in Fights(o) : Moved(f, f)
  BY DEF Moved
<1>2. \A f \in Fights(o) : DOMAIN f.acts = ToSet(o)
  BY OnTurn
<1>3. ASSUME NEW f \in Fights(o), NEW g \in Fights(o), NEW h \in Fights(o),
             Moved(f, g), Moved(g, h)
      PROVE  Moved(f, h)
  <2>1. DOMAIN f.acts = ToSet(o) /\ DOMAIN g.acts = ToSet(o)
    BY <1>2
  <2> QED BY <1>3, <2>1 DEF Moved
<1> QED BY <1>1, <1>3

(* The heroes of the first i places have been seated.                       *)
Placed(o, f, g, i, there) ==
  /\ g \in Fights(o) /\ Moved(f, g)
  /\ \A p \in 1..i : o[p] \in Heroes => (g.acts[o[p]].out <=> o[p] \notin there)

(* One hero more is in its place.                                          *)
LEMMA Places ==
  ASSUME NEW o \in Turns, NEW f \in Fights(o), NEW there, NEW i \in 1..Len(o),
         NEW g, Placed(o, f, g, i - 1, there)
  PROVE  Placed(o, f, Seated(g, o[i], there), i, there)
<1>0. g \in Fights(o) /\ Moved(f, g)
  BY DEF Placed
<1>1. PICK id \in ToSet(o) : id = o[i]
  BY OnTurn
<1>2. PICK h : h = Seated(g, id, there)
  OBVIOUS
<1>3. /\ h \in Fights(o) /\ Moved(g, h)
      /\ \A x \in ToSet(o) : x # id => h.acts[x] = g.acts[x]
      /\ id \in Heroes => (h.acts[id].out <=> id \notin there)
  BY <1>0, <1>2, Seats
<1>4. Moved(f, h)
  BY <1>0, <1>3, MovedHolds
<1>5. ASSUME NEW p \in 1..i, o[p] \in Heroes PROVE h.acts[o[p]].out <=> o[p] \notin there
  <2>1. CASE o[p] = id
    BY <1>3, <1>5, <2>1
  <2>2. CASE o[p] # id
    <3>1. Len(o) \in Nat
      BY OnTurn
    <3>2. p \in 1..(i - 1) /\ p \in 1..Len(o)
      BY <1>1, <2>2, <3>1
    <3>3. o[p] \in ToSet(o)
      BY <3>2, OnTurn
    <3>4. g.acts[o[p]].out <=> o[p] \notin there
      BY <1>5, <3>2 DEF Placed
    <3> QED BY <1>3, <2>2, <3>3, <3>4
  <2> QED BY <2>1, <2>2
<1> QED BY <1>1, <1>2, <1>3, <1>4, <1>5 DEF Placed

(* The fights on the way.                                                   *)
Seating(o, f, there, g) ==
  /\ g \in [0..Len(o) -> Fights(o)] /\ g[0] = f
  /\ \A i \in 1..Len(o) : g[i] = Seated(g[i - 1], o[i], there)

(* The calls to the table have a result.                                   *)
LEMMA PlacesInTurn ==
  ASSUME NEW o \in Turns, NEW f \in Fights(o), NEW there
  PROVE  \E g : Seating(o, f, there, g)
<1> DEFINE n == Len(o)
           next == [i \in 1..n |-> [g \in Fights(o) |-> Seated(g, o[i], there)]]
<1>0. n \in Nat
  BY OnTurn
<1>1. next \in [1..n -> [Fights(o) -> Fights(o)]]
  <2>1. \A i \in 1..n : o[i] \in ToSet(o)
    BY OnTurn
  <2>2. \A i \in 1..n : \A g \in Fights(o) : Seated(g, o[i], there) \in Fights(o)
    BY <2>1, Seats
  <2> QED BY <2>2
<1>2. PICK g \in [0..n -> Fights(o)] : g[0] = f /\ \A i \in 1..n : g[i] = next[i][g[i - 1]]
  <2> HIDE DEF next, n
  <2>1. PICK m \in Nat : m = n
    BY <1>0
  <2>3. PICK later \in [1..m -> [Fights(o) -> Fights(o)]] : later = next
    BY <1>1, <2>1
  <2>4. \E g \in [0..m -> Fights(o)] : g[0] = f /\ \A i \in 1..m : g[i] = later[i][g[i - 1]]
    BY Iterates
  <2> QED BY <2>1, <2>3, <2>4
<1>3. \A i \in 1..n : g[i] = Seated(g[i - 1], o[i], there)
  <2>1. \A i \in 1..n : i - 1 \in 0..n
    BY <1>0
  <2>2. \A i \in 1..n : g[i - 1] \in Fights(o)
    BY <1>2, <2>1
  <2> QED BY <1>2, <2>2
<1> HIDE DEF next
<1>4. Seating(o, f, there, g)
  BY <1>2, <1>3 DEF Seating
<1> QED BY <1>4

(* Such a sequence of fights is the function the seating is computed by.    *)
LEMMA PlacesExist ==
  ASSUME NEW o \in Turns, NEW f \in Fights(o), NEW there
  PROVE  \E w : w = [i \in 0..Len(f.order) |->
                       IF i = 0 THEN f ELSE Seated(w[i - 1], f.order[i], there)]
<1>0. Len(o) \in Nat /\ f.order = o
  BY OnTurn
<1>9. PICK g : Seating(o, f, there, g)
  BY PlacesInTurn
<1>1. /\ g \in [0..Len(o) -> Fights(o)] /\ g[0] = f
      /\ \A i \in 1..Len(o) : g[i] = Seated(g[i - 1], o[i], there)
  BY <1>9 DEF Seating
<1>2. g = [i \in 0..Len(o) |-> g[i]]
  BY <1>1
<1>3. \A i \in 0..Len(o) : i = 0 \/ i \in 1..Len(o)
  BY <1>0
<1>4. g = [i \in 0..Len(o) |-> IF i = 0 THEN f ELSE Seated(g[i - 1], o[i], there)]
  BY <1>1, <1>2, <1>3
<1> QED BY <1>0, <1>4

(* It has every hero in its place.                                         *)
LEMMA PlacedAll ==
  ASSUME NEW o \in Turns, NEW f \in Fights(o), NEW there,
         NEW h, h = CHOOSE w : w = [i \in 0..Len(f.order) |->
                       IF i = 0 THEN f ELSE Seated(w[i - 1], f.order[i], there)]
  PROVE  Placed(o, f, h[Len(o)], Len(o), there)
<1> DEFINE n == Len(o)
           Def(w) == w = [i \in 0..n |-> IF i = 0 THEN f ELSE Seated(w[i - 1], o[i], there)]
<1>0. n \in Nat /\ f.order = o
  BY OnTurn
<1>6. Def(h)
  <2> DEFINE Raw(w) == w = [i \in 0..Len(f.order) |->
                         IF i = 0 THEN f ELSE Seated(w[i - 1], f.order[i], there)]
  <2>1. \E w : Raw(w)
    BY PlacesExist
  <2>2. h = CHOOSE w : Raw(w)
    OBVIOUS
  <2>3. Raw(h)
    <3> HIDE DEF Raw
    <3> QED BY <2>1, <2>2, Zenon
  <2> QED BY <1>0, <2>3
<1>8. h[0] = f /\ \A i \in 1..n : h[i] = Seated(h[i - 1], o[i], there)
  <2>1. 0 \in 0..n /\ \A i \in 1..n : i \in 0..n /\ i # 0
    BY <1>0
  <2> QED BY <1>6, <2>1
<1>10. \A i \in 0..n : Placed(o, f, h[i], i, there)
  <2> DEFINE P == {i \in 0..n : Placed(o, f, h[i], i, there)}
  <2>1. 0 \in P
    <3>1. Moved(f, f)
      BY MovedHolds
    <3>2. \A p \in 1..0 : o[p] \in Heroes => (f.acts[o[p]].out <=> o[p] \notin there)
      OBVIOUS
    <3> QED BY <1>0, <1>8, <3>1, <3>2 DEF Placed
  <2>2. ASSUME NEW i \in 1..n, i - 1 \in P PROVE i \in P
    <3>1. Placed(o, f, h[i - 1], i - 1, there) /\ i \in 0..n /\ i \in 1..Len(o)
      BY <1>0, <2>2
    <3>2. Placed(o, f, Seated(h[i - 1], o[i], there), i, there)
      BY <3>1, Places
    <3> QED BY <1>8, <3>1, <3>2
  <2>3. \A i \in 0..n : i \in P
    <3> HIDE DEF P, n
    <3> QED BY <1>0, <2>1, <2>2, UpTo
  <2> QED BY <2>3
<1>11. n \in 0..n
  BY <1>0
<1> QED BY <1>10, <1>11

(* What the stored fight becomes: everybody whose player is away keeps its  *)
(* wounds, and nobody comes back from the dead.                             *)
Follows(o, f, g) ==
  /\ g.round >= f.round /\ (g.authored <=> f.authored)
  /\ \A x \in ToSet(o) : /\ f.acts[x].dead => g.acts[x].dead
                         /\ g.acts[x].out => Vitals(g.acts[x]) = Vitals(f.acts[x])

(* reconcile_participants.                                                  *)
LEMMA Reconciles ==
  ASSUME NEW o \in Turns, NEW f \in Fights(o), f.active, Waits(f), NEW there, NEW seed
  PROVE  LET st == Reconcile(f, there, seed) IN
         /\ st.ok = TRUE /\ st.f \in Fights(o) /\ Waits(st.f) /\ Follows(o, f, st.f)
         /\ \A x \in ToSet(o) \cap Heroes : st.f.acts[x].out <=> x \notin there
<1>1. PICK w : w = CHOOSE w1 : w1 = [i \in 0..Len(f.order) |->
                       IF i = 0 THEN f ELSE Seated(w1[i - 1], f.order[i], there)]
  OBVIOUS
<1>2. PICK g \in Fights(o) : g = w[Len(o)] /\ Moved(f, g) /\
           \A p \in 1..Len(o) : o[p] \in Heroes => (g.acts[o[p]].out <=> o[p] \notin there)
  <2>1. Placed(o, f, w[Len(o)], Len(o), there)
    BY <1>1, PlacedAll
  <2> QED BY <2>1 DEF Placed
<1>3. f.order = o /\ Current(f) \in ToSet(o) /\ Current(g) = Current(f) /\ f.round \in Nat
      /\ DOMAIN f.acts = ToSet(o) /\ DOMAIN g.acts = ToSet(o)
  BY <1>2, OnTurn DEF Moved, Fights
<1>4. f.outcome = NoOutcome /\ Current(f) \in Heroes /\ Standing(f.acts[Current(f)])
  BY DEF Waits
<1>5. \A x \in ToSet(o) \cap Heroes : g.acts[x].out <=> x \notin there
  <2>1. \A x \in ToSet(o) : \E p \in 1..Len(o) : o[p] = x
    BY OnTurn
  <2> QED BY <1>2, <2>1
<1>6. \A x \in ToSet(o) : Vitals(g.acts[x]) = Vitals(f.acts[x]) /\ (g.acts[x].dead <=> f.acts[x].dead)
        /\ (Conscious(g.acts[x]) <=> Conscious(f.acts[x]))
  BY <1>2, <1>3 DEF Moved
<1>7. PICK st : st \in Rounding(o) /\ st.ok = TRUE /\ SettleDone(st.f) /\ Ready(st.f) /\ Ran(g, st.f)
          /\ Reconcile(f, there, seed) = Closed(st, FALSE)
  <2>1. CASE g.acts[Current(f)].out
    <3>1. PICK b \in Fights(o) : b = BeginTurn(g, seed) /\ Ran(g, b) /\ Ready(b)
      BY TurnBegun
    <3>2. PICK st : st = Settle(b, seed)
      OBVIOUS
    <3>3. /\ st \in Rounding(o) /\ st.ok = TRUE /\ SettleDone(st.f) /\ Ran(b, st.f) /\ Ready(st.f)
      BY <3>1, <3>2, Settled
    <3>4. st.f \in Fights(o)
      BY <3>3 DEF Rounding
    <3>5. Ran(g, st.f)
      BY <3>1, <3>3, <3>4, RanHolds
    <3>6. Reconcile(f, there, seed) = Closed(st, FALSE)
      BY <1>1, <1>2, <1>3, <2>1, <3>1, <3>2 DEF Reconcile
    <3> QED BY <3>3, <3>5, <3>6
  <2>2. CASE ~g.acts[Current(f)].out
    <3>1. PICK st : st = [f |-> g, ok |-> TRUE]
      OBVIOUS
    <3>2. st \in Rounding(o) /\ st.ok = TRUE /\ st.f = g
      BY <3>1 DEF Rounding
    <3>3. SettleDone(g)
      BY <1>3, <1>4 DEF SettleDone
    <3>4. Standing(g.acts[Current(g)])
      BY <1>3, <1>4, <1>6, <2>2 DEF Standing
    <3>5. Ready(g)
      BY <3>4 DEF Ready
    <3>6. Ran(g, g)
      BY RanHolds
    <3>7. Reconcile(f, there, seed) = Closed(st, FALSE)
      BY <1>1, <1>2, <1>3, <2>2, <3>1 DEF Reconcile
    <3> QED BY <3>2, <3>3, <3>5, <3>6, <3>7
  <2> QED BY <2>1, <2>2
<1>8. st.f.outcome = NoOutcome /\ st.f \in Fights(o)
  BY <1>2, <1>4, <1>7 DEF Ran, Moved, Rounding
<1>9. PICK c : c = Closed(st, FALSE)
  OBVIOUS
<1>10. PICK retreat \in BOOLEAN : retreat = FALSE
  OBVIOUS
<1>11. c \in Rounding(o) /\ c.ok = TRUE /\ Stays(st.f, c.f) /\ Waits(c.f)
  BY <1>7, <1>8, <1>9, <1>10, Closes
<1>12. c.f \in Fights(o)
  BY <1>11 DEF Rounding
<1>13. \A x \in ToSet(o) : c.f.acts[x] = st.f.acts[x] /\ Fate(g.acts[x], st.f.acts[x])
  BY <1>3, <1>7, <1>11 DEF Stays, Ran
<1>14. \A x \in ToSet(o) : /\ c.f.acts[x].out = g.acts[x].out
                           /\ g.acts[x].dead => c.f.acts[x].dead
                           /\ c.f.acts[x].out => Vitals(c.f.acts[x]) = Vitals(g.acts[x])
  BY <1>13 DEF Fate
<1>15. c.f.round >= f.round /\ (c.f.authored <=> f.authored)
  BY <1>2, <1>7, <1>11 DEF Stays, Ran, Moved
<1>16. Follows(o, f, c.f)
  BY <1>6, <1>14, <1>15 DEF Follows
<1>17. \A x \in ToSet(o) \cap Heroes : c.f.acts[x].out <=> x \notin there
  BY <1>5, <1>14
<1> QED BY <1>7, <1>9, <1>11, <1>12, <1>16, <1>17

(* bind_party: the first turns of a new fight.                              *)
LEMMA Opens ==
  ASSUME NEW o \in Turns, NEW acts \in [ToSet(o) -> Actor], NEW authored \in BOOLEAN, NEW seed
  PROVE  LET st == Opening(acts, o, authored, seed) IN
         /\ st.ok = TRUE /\ st.f \in Fights(o) /\ Waits(st.f)
         /\ (st.f.authored <=> authored)
         /\ \A x \in ToSet(o) : Fate(acts[x], st.f.acts[x])
<1>1. PICK f : f = [acts |-> acts, order |-> o, cur |-> 1, round |-> 1,
                    active |-> TRUE, authored |-> authored, outcome |-> NoOutcome]
  OBVIOUS
<1>2. f \in Fights(o)
  <2>1. 1 \in 1..Len(o)
    <3>1. Len(o) \in Nat \ {0}
      BY DEF Turns
    <3> QED BY <3>1
  <2> QED BY <1>1, <2>1 DEF Fights, NoOutcome
<1>3. f.acts = acts /\ (f.authored <=> authored) /\ f.outcome = NoOutcome
  BY <1>1
<1>4. PICK b \in Fights(o) : b = BeginTurn(f, seed) /\ Ran(f, b) /\ Ready(b)
  BY <1>2, TurnBegun
<1>5. PICK st : st = Settle(b, seed)
  OBVIOUS
<1>6. /\ st \in Rounding(o) /\ st.ok = TRUE /\ SettleDone(st.f) /\ Ran(b, st.f) /\ Ready(st.f)
  BY <1>4, <1>5, Settled
<1>7. st.f \in Fights(o)
  BY <1>6 DEF Rounding
<1>8. Ran(f, st.f)
  BY <1>2, <1>4, <1>6, <1>7, RanHolds
<1>9. st.f.outcome = NoOutcome
  BY <1>3, <1>8 DEF Ran
<1>10. PICK c : c = Closed(st, FALSE)
  OBVIOUS
<1>11. PICK retreat \in BOOLEAN : retreat = FALSE
  OBVIOUS
<1>12. c \in Rounding(o) /\ c.ok = TRUE /\ Stays(st.f, c.f) /\ Waits(c.f)
  BY <1>6, <1>9, <1>10, <1>11, Closes
<1>13. c.f \in Fights(o)
  BY <1>12 DEF Rounding
<1>14. DOMAIN f.acts = ToSet(o)
  BY <1>2, OnTurn
<1>15. \A x \in ToSet(o) : Fate(acts[x], c.f.acts[x])
  BY <1>3, <1>8, <1>12, <1>14 DEF Stays, Ran
<1>16. c.f.authored <=> authored
  BY <1>3, <1>8, <1>12 DEF Stays, Ran
<1>17. c = Opening(acts, o, authored, seed)
  BY <1>1, <1>4, <1>5, <1>10 DEF Opening
<1> QED BY <1>12, <1>13, <1>15, <1>16, <1>17

(* The defeated of a lost defense wake up again.                            *)
LEMMA Recovers ==
  ASSUME NEW o \in Turns, NEW f \in Fights(o)
  PROVE  LET g == RecoverDefeated(f) IN
         /\ g \in Fights(o) /\ g.cur = f.cur /\ g.round = f.round
         /\ (g.active <=> f.active) /\ (g.authored <=> f.authored) /\ g.outcome = f.outcome
         /\ \A x \in ToSet(o) : Fate(f.acts[x], g.acts[x])
<1>1. PICK acts : acts = [c \in DOMAIN f.acts |->
            IF c \in Heroes /\ ~f.acts[c].out /\ f.acts[c].hp = 0 THEN Heal(f.acts[c], 1)
            ELSE f.acts[c]]
  OBVIOUS
<1>2. PICK g : g = RecoverDefeated(f)
  OBVIOUS
<1>3. g = [f EXCEPT !.acts = acts]
  BY <1>1, <1>2 DEF RecoverDefeated
<1>4. DOMAIN f.acts = ToSet(o) /\ \A x \in ToSet(o) : f.acts[x] \in Actor
  BY OnTurn
<1>5. ASSUME NEW x \in ToSet(o) PROVE acts[x] \in Actor /\ Fate(f.acts[x], acts[x])
  <2>1. PICK a \in Actor : a = f.acts[x]
    BY <1>4
  <2>2. CASE acts[x] = a
    BY <2>1, <2>2, FateHolds
  <2>3. CASE ~a.out /\ acts[x] = Heal(a, 1)
    <3>1. PICK n \in 1..2 : n = 1
      OBVIOUS
    <3>2. Heal(a, n) \in Actor /\ Heal(a, n).out = a.out /\ (Heal(a, n).dead <=> a.dead)
      BY HealHeals
    <3> QED BY <2>1, <2>3, <3>1, <3>2 DEF Fate
  <2> QED BY <1>1, <1>4, <2>1, <2>2, <2>3
<1>6. acts \in [ToSet(o) -> Actor]
  BY <1>1, <1>4, <1>5
<1>7. g \in Fights(o)
  BY <1>3, <1>6 DEF Fights
<1>8. g.acts = acts /\ g.cur = f.cur /\ g.round = f.round /\ g.active = f.active
      /\ g.authored = f.authored /\ g.outcome = f.outcome
  BY <1>3 DEF Fights
<1> QED BY <1>2, <1>5, <1>7, <1>8

-----------------------------------------------------------------------------
(* A hero's sheet between fights.                                          *)

(* A character sheet that vitality::read accepts.                           *)
Sheets == [hp : 0..MaxHp, dead : BOOLEAN, succs : 0..2, fails : 0..3, stable : BOOLEAN,
           arrows : Int, slots : Int, dice : Int, timer : Nat, rested : Int]
(* A sheet whose wounds are readable.                                      *)
Worn == {s \in Sheets : Readable(s)}
(* A sheet at rest: only the stable have a wake time, and the stable have  *)
(* one.                                                                    *)
Sheet == {s \in Worn : /\ s.timer # NoTimer => s.stable
                       /\ Asleep(s) => s.timer # NoTimer}

(* One field of a sheet at a time: wounds.                                 *)
LEMMA SheetUpdates ==
  ASSUME NEW a \in Sheets
  PROVE  /\ \A v \in 0..MaxHp : [a EXCEPT !.hp = v] \in Sheets
         /\ \A v \in BOOLEAN : [a EXCEPT !.dead = v] \in Sheets
         /\ \A v \in 0..2 : [a EXCEPT !.succs = v] \in Sheets
         /\ \A v \in 0..3 : [a EXCEPT !.fails = v] \in Sheets
         /\ \A v \in BOOLEAN : [a EXCEPT !.stable = v] \in Sheets
<1>1. ASSUME NEW v \in 0..MaxHp PROVE [a EXCEPT !.hp = v] \in Sheets
  BY DEF Sheets
<1>2. ASSUME NEW v \in BOOLEAN PROVE [a EXCEPT !.dead = v] \in Sheets
  BY DEF Sheets
<1>3. ASSUME NEW v \in 0..2 PROVE [a EXCEPT !.succs = v] \in Sheets
  BY DEF Sheets
<1>4. ASSUME NEW v \in 0..3 PROVE [a EXCEPT !.fails = v] \in Sheets
  BY DEF Sheets
<1>5. ASSUME NEW v \in BOOLEAN PROVE [a EXCEPT !.stable = v] \in Sheets
  BY DEF Sheets
<1> QED BY <1>1, <1>2, <1>3, <1>4, <1>5

(* One field of a sheet at a time: what is spent, the wake time and the    *)
(* last rest.                                                              *)
LEMMA SheetSpends ==
  ASSUME NEW a \in Sheets
  PROVE  /\ \A v \in Int : [a EXCEPT !.arrows = v] \in Sheets
         /\ \A v \in Int : [a EXCEPT !.slots = v] \in Sheets
         /\ \A v \in Int : [a EXCEPT !.dice = v] \in Sheets
         /\ \A v \in Nat : [a EXCEPT !.timer = v] \in Sheets
         /\ \A v \in Int : [a EXCEPT !.rested = v] \in Sheets
<1>1. ASSUME NEW v \in Int PROVE [a EXCEPT !.arrows = v] \in Sheets
  BY DEF Sheets
<1>2. ASSUME NEW v \in Int PROVE [a EXCEPT !.slots = v] \in Sheets
  BY DEF Sheets
<1>3. ASSUME NEW v \in Int PROVE [a EXCEPT !.dice = v] \in Sheets
  BY DEF Sheets
<1>4. ASSUME NEW v \in Nat PROVE [a EXCEPT !.timer = v] \in Sheets
  BY DEF Sheets
<1>5. ASSUME NEW v \in Int PROVE [a EXCEPT !.rested = v] \in Sheets
  BY DEF Sheets
<1> QED BY <1>1, <1>2, <1>3, <1>4, <1>5

(* The timer of a sheet is set last.                                        *)
Timed(s, v) == [s EXCEPT !.timer = v]

(* A wake time for exactly those who sleep is a sheet at rest.             *)
LEMMA TimedSheet ==
  ASSUME NEW s \in Worn, NEW v \in Nat, v # NoTimer <=> Asleep(s)
  PROVE  Timed(s, v) \in Sheet /\ Timed(s, v).dead = s.dead /\ Vitals(Timed(s, v)) = Vitals(s)
<1>0. s \in Sheets /\ Readable(s)
  BY DEF Worn
<1>1. PICK t : t = Timed(s, v)
  OBVIOUS
<1>2. t = [s EXCEPT !.timer = v]
  BY <1>1 DEF Timed
<1>3. t \in Sheets
  BY <1>0, <1>2, SheetSpends
<1>4. /\ t.hp = s.hp /\ t.dead = s.dead /\ t.succs = s.succs /\ t.fails = s.fails
      /\ t.stable = s.stable /\ t.arrows = s.arrows /\ t.slots = s.slots /\ t.timer = v
  BY <1>0, <1>2 DEF Sheets
<1>5. Readable(t) /\ (Asleep(t) <=> Asleep(s)) /\ Vitals(t) = Vitals(s)
  BY <1>0, <1>4 DEF Readable, Asleep, Vitals
<1>6. t.timer # NoTimer => t.stable
  BY <1>4 DEF Asleep
<1>7. t \in Sheet
  BY <1>3, <1>4, <1>5, <1>6 DEF Sheet, Worn
<1> QED BY <1>1, <1>4, <1>5, <1>7

(* vitality::clear_death_saves on a sheet.                                 *)
LEMMA SheetNoSaves ==
  ASSUME NEW a \in Sheets
  PROVE  LET b == NoSaves(a) IN
         /\ b \in Sheets /\ b.succs = 0 /\ b.fails = 0 /\ b.stable = FALSE
         /\ b.hp = a.hp /\ b.dead = a.dead
<1>0. 0 \in 0..2 /\ 0 \in 0..3
  OBVIOUS
<1>1. PICK b \in Sheets : b = [a EXCEPT !.succs = 0]
  BY <1>0, SheetUpdates, Zenon
<1>2. PICK c \in Sheets : c = [b EXCEPT !.fails = 0]
  BY <1>0, SheetUpdates, Zenon
<1>3. [c EXCEPT !.stable = FALSE] \in Sheets
  BY SheetUpdates
<1>4. NoSaves(a) = [c EXCEPT !.stable = FALSE]
  BY <1>1, <1>2 DEF NoSaves
<1>5. LET d == NoSaves(a) IN
      /\ d.succs = 0 /\ d.fails = 0 /\ d.stable = FALSE
      /\ d.hp = a.hp /\ d.dead = a.dead
  BY DEF Sheets, NoSaves
<1> QED BY <1>3, <1>4, <1>5

(* A failed death save on a sheet.                                         *)
LEMMA SheetFailed ==
  ASSUME NEW a \in Sheets, NEW n \in 1..2
  PROVE  LET b == Failed(a, n) IN
         /\ b \in Sheets /\ b.fails \in 1..3 /\ (b.dead <=> a.dead \/ b.fails = 3)
         /\ b.hp = a.hp /\ b.succs = a.succs /\ b.stable = a.stable
<1>1. PICK f \in 1..3 : f = IF a.fails + n > 3 THEN 3 ELSE a.fails + n
  BY DEF Sheets
<1>2. PICK d \in BOOLEAN : d = (a.dead \/ f = 3)
  OBVIOUS
<1>3. Failed(a, n) = [a EXCEPT !.fails = f, !.dead = d]
  BY <1>1, <1>2 DEF Failed
<1>4. PICK b \in Sheets : b = [a EXCEPT !.fails = f]
  <2>1. f \in 0..3
    OBVIOUS
  <2> QED BY <2>1, SheetUpdates, Zenon
<1>5. [b EXCEPT !.dead = d] \in Sheets
  BY SheetUpdates
<1>6. [a EXCEPT !.fails = f, !.dead = d] = [b EXCEPT !.dead = d]
  BY <1>4
<1>7. LET c == [a EXCEPT !.fails = f, !.dead = d] IN
      /\ c.fails = f /\ c.dead = d
      /\ c.hp = a.hp /\ c.succs = a.succs /\ c.stable = a.stable
  BY DEF Sheets
<1> QED BY <1>2, <1>3, <1>5, <1>6, <1>7

(* Healing on a sheet.                                                     *)
LEMMA SheetHeal ==
  ASSUME NEW a \in Worn
  PROVE  Heal(a, 1) \in Worn /\ (~a.dead => Heal(a, 1).hp > 0)
<1>0. a \in Sheets /\ Readable(a) /\ a.hp \in 0..MaxHp /\ MaxHp \in Nat \ {0} /\ a.dead \in BOOLEAN
  BY RulesAssumption DEF Worn, Sheets
<1>1. CASE a.dead
  BY <1>1 DEF Heal
<1>2. CASE ~a.dead
  <2> DEFINE h == Heal(a, 1)
  <2>1. PICK u : u = NoSaves(a)
    OBVIOUS
  <2>2. /\ u \in Sheets /\ u.succs = 0 /\ u.fails = 0 /\ u.stable = FALSE
        /\ u.dead = a.dead
    BY <1>0, <2>1, SheetNoSaves
  <2>3. PICK v \in 1..MaxHp : v = IF a.hp + 1 > MaxHp THEN MaxHp ELSE a.hp + 1
    BY <1>0
  <2>4. h = [u EXCEPT !.hp = v]
    BY <1>0, <1>2, <2>1, <2>3 DEF Heal
  <2>5. h \in Sheets
    <3>1. v \in 0..MaxHp
      BY <1>0
    <3> QED BY <2>2, <2>4, <3>1, SheetUpdates, Zenon
  <2>6. /\ h.hp = v
        /\ h.dead = u.dead /\ h.succs = u.succs /\ h.fails = u.fails /\ h.stable = u.stable
    BY <2>2, <2>4 DEF Sheets
  <2> HIDE DEF h
  <2>7. Readable(h)
    BY <1>2, <2>2, <2>6 DEF Readable
  <2>8. h \in Worn
    BY <2>5, <2>7 DEF Worn
  <2> QED BY <1>2, <2>2, <2>3, <2>6, <2>8 DEF h
<1> QED BY <1>0, <1>1, <1>2

(* A death save leaves a sheet readable.                                   *)
LEMMA SheetSaves ==
  ASSUME NEW a \in Worn, NEW roll
  PROVE  DeathSave(a, roll) \in Worn
<1>1. CASE Dying(a)
  <2>0. a \in Sheets /\ Readable(a) /\ a.hp = 0 /\ ~a.dead /\ ~a.stable /\ a.succs \in 0..2
    BY <1>1 DEF Worn, Sheets, Dying
  <2>1. Heal(a, 1) \in Worn
    BY SheetHeal
  <2>2. Succeeded(a) \in Worn
    <3> DEFINE h == Succeeded(a)
    <3>1. CASE a.succs = 2
      <4>1. h = [a EXCEPT !.succs = 0, !.fails = 0, !.stable = TRUE]
        BY <3>1 DEF Succeeded
      <4>0. 0 \in 0..2 /\ 0 \in 0..3
        OBVIOUS
      <4>2. PICK b \in Sheets : b = [a EXCEPT !.succs = 0]
        BY <2>0, <4>0, SheetUpdates, Zenon
      <4>3. PICK c \in Sheets : c = [b EXCEPT !.fails = 0]
        BY <4>0, SheetUpdates, Zenon
      <4>4. h = [c EXCEPT !.stable = TRUE]
        BY <4>1, <4>2, <4>3
      <4>5. h \in Sheets
        BY <4>4, SheetUpdates
      <4>6. h.succs = 0 /\ h.fails = 0 /\ h.stable = TRUE /\ h.hp = a.hp /\ h.dead = a.dead
        BY <2>0, <4>1 DEF Sheets
      <4> HIDE DEF h
      <4>7. Readable(h)
        BY <2>0, <4>6 DEF Readable
      <4> QED BY <4>5, <4>6, <4>7 DEF Worn, h
    <3>2. CASE a.succs # 2
      <4>1. a.succs + 1 \in 0..2
        BY <2>0, <3>2
      <4>2. h = [a EXCEPT !.succs = a.succs + 1]
        BY <3>2 DEF Succeeded
      <4>3. h \in Sheets
        BY <2>0, <4>1, <4>2, SheetUpdates
      <4>4. h.fails = a.fails /\ h.stable = a.stable /\ h.hp = a.hp /\ h.dead = a.dead
        BY <2>0, <4>2 DEF Sheets
      <4> HIDE DEF h
      <4>5. Readable(h)
        BY <2>0, <4>4 DEF Readable
      <4> QED BY <4>3, <4>4, <4>5 DEF Worn, h
    <3> QED BY <3>1, <3>2
  <2>3. \A n \in 1..2 : Failed(a, n) \in Worn
    <3> SUFFICES ASSUME NEW n \in 1..2 PROVE Failed(a, n) \in Worn
      OBVIOUS
    <3> DEFINE b == Failed(a, n)
    <3>1. /\ b \in Sheets /\ b.fails \in 1..3 /\ (b.dead <=> a.dead \/ b.fails = 3)
          /\ b.hp = a.hp /\ b.stable = a.stable
      BY <2>0, SheetFailed
    <3> HIDE DEF b
    <3>2. Readable(b)
      BY <2>0, <3>1 DEF Readable
    <3> QED BY <3>1, <3>2 DEF Worn, b
  <2> QED BY <1>1, <2>1, <2>2, <2>3 DEF DeathSave
<1>2. CASE ~Dying(a)
  BY <1>2 DEF DeathSave
<1> QED BY <1>1, <1>2

(* Sleeping takes time.                                                    *)
LEMMA NapsLast ==
  ASSUME NEW nap \in Naps
  PROVE  nap * Hour \in Nat \ {0}
<1>1. nap \in Nat \ {0} /\ Hour \in Nat \ {0}
  BY EncountersAssumption
<1>2. \A m, n \in Nat \ {0} : m * n \in Nat \ {0}
  OBVIOUS
<1> QED BY <1>1, <1>2

-----------------------------------------------------------------------------
(* The time that passes for a sheet.                                       *)

(* Who enters a fight has the wounds of its sheet.                          *)
LEMMA Enters ==
  ASSUME NEW s, NEW cell \in Int, s \in Sheet \/ s = Unhurt
  PROVE  /\ Entering(s, cell) \in Actor /\ ~Entering(s, cell).out
         /\ (Entering(s, cell).dead <=> s.dead) /\ Vitals(Entering(s, cell)) = Vitals(s)
<1>1. PICK a : a = Entering(s, cell)
  OBVIOUS
<1>2. /\ a.hp = s.hp /\ a.dead = s.dead /\ a.succs = s.succs /\ a.fails = s.fails
      /\ a.stable = s.stable /\ a.arrows = s.arrows /\ a.slots = s.slots /\ a.out = FALSE
  BY <1>1 DEF Entering
<1>3. /\ s.hp \in 0..MaxHp /\ s.dead \in BOOLEAN /\ s.succs \in 0..2 /\ s.fails \in 0..3
      /\ s.stable \in BOOLEAN /\ s.arrows \in Int /\ s.slots \in Int /\ Readable(s)
  <2>1. CASE s \in Sheet
    BY <2>1 DEF Sheet, Worn, Sheets
  <2>2. CASE s = Unhurt
    <3>1. /\ s.hp = MaxHp /\ s.dead = FALSE /\ s.succs = 0 /\ s.fails = 0
          /\ s.stable = FALSE /\ s.arrows = 0 /\ s.slots = 0
      BY <2>2 DEF Unhurt
    <3>2. MaxHp \in Nat \ {0}
      BY RulesAssumption
    <3>3. Readable(s)
      BY <3>1, <3>2 DEF Readable
    <3>4. MaxHp \in 0..MaxHp /\ 0 \in 0..2 /\ 0 \in 0..3 /\ 0 \in Int
      BY <3>2
    <3> QED BY <3>1, <3>3, <3>4, Zenon
  <2> QED BY <2>1, <2>2
<1>4. Speed \in Int
  BY RulesAssumption
<1>5. a \in Actors
  BY <1>1, <1>3, <1>4 DEF Entering, Actors
<1>6. Readable(a)
  BY <1>2, <1>3 DEF Readable
<1>7. a \in Actor
  BY <1>5, <1>6 DEF Actor
<1> QED BY <1>1, <1>2, <1>7 DEF Vitals

(* vitality::store_actor: the sheet says what the fight says.               *)
LEMMA Stores ==
  ASSUME NEW s \in Sheet, NEW a \in Actor, NEW now \in Nat, NEW nap \in Naps
  PROVE  /\ Store(s, a, now, nap) \in Sheet
         /\ Vitals(Store(s, a, now, nap)) = Vitals(a)
         /\ Store(s, a, now, nap).dead = a.dead
<1>1. PICK t : t = [s EXCEPT !.hp = a.hp, !.dead = a.dead, !.succs = a.succs, !.fails = a.fails,
                       !.stable = a.stable, !.arrows = a.arrows, !.slots = a.slots]
  OBVIOUS
<1>2. s \in Sheets /\ s.timer \in Nat
  BY DEF Sheet, Worn, Sheets
<1>3. /\ a.hp \in 0..MaxHp /\ a.dead \in BOOLEAN /\ a.succs \in 0..2 /\ a.fails \in 0..3
      /\ a.stable \in BOOLEAN /\ a.arrows \in Int /\ a.slots \in Int /\ Readable(a)
  BY DEF Actor, Actors
<1>4. t \in Sheets
  <2>1. PICK t1 \in Sheets : t1 = [s EXCEPT !.hp = a.hp]
    BY <1>2, <1>3, SheetUpdates
  <2>2. PICK t2 \in Sheets : t2 = [t1 EXCEPT !.dead = a.dead]
    BY <1>3, SheetUpdates
  <2>3. PICK t3 \in Sheets : t3 = [t2 EXCEPT !.succs = a.succs]
    BY <1>3, SheetUpdates
  <2>4. PICK t4 \in Sheets : t4 = [t3 EXCEPT !.fails = a.fails]
    BY <1>3, SheetUpdates
  <2>5. PICK t5 \in Sheets : t5 = [t4 EXCEPT !.stable = a.stable]
    BY <1>3, SheetUpdates
  <2>6. PICK t6 \in Sheets : t6 = [t5 EXCEPT !.arrows = a.arrows]
    BY <1>3, SheetSpends
  <2>7. PICK t7 \in Sheets : t7 = [t6 EXCEPT !.slots = a.slots]
    BY <1>3, SheetSpends
  <2>8. t = t7
    BY <1>1, <2>1, <2>2, <2>3, <2>4, <2>5, <2>6, <2>7
  <2> QED BY <2>8
<1>5. /\ t.hp = a.hp /\ t.dead = a.dead /\ t.succs = a.succs /\ t.fails = a.fails
      /\ t.stable = a.stable /\ t.arrows = a.arrows /\ t.slots = a.slots /\ t.timer = s.timer
  BY <1>1, <1>2 DEF Sheets
<1>6. Readable(t) /\ Vitals(t) = Vitals(a) /\ t \in Worn
  BY <1>3, <1>4, <1>5 DEF Readable, Vitals, Worn
<1>7. PICK v : v = IF ~Asleep(t) THEN NoTimer
                   ELSE IF t.timer = NoTimer THEN now + nap * Hour ELSE t.timer
  OBVIOUS
<1>8. v \in Nat /\ (v # NoTimer <=> Asleep(t))
  <2>1. PICK long \in Nat \ {0} : long = nap * Hour
    BY NapsLast
  <2>2. now + long \in Nat /\ now + long # 0
    OBVIOUS
  <2> QED BY <1>2, <1>5, <1>7, <2>1, <2>2 DEF NoTimer
<1>9. Store(s, a, now, nap) = Timed(t, v)
  BY <1>1, <1>7 DEF Store, Timed
<1> QED BY <1>5, <1>6, <1>8, <1>9, TimedSheet

-----------------------------------------------------------------------------
(* RecoveryEngine::passage keeps a sheet readable, and the dead dead.       *)
Nights == [s : Worn, at : Nat]

(* One save of the time that passes.                                       *)
LEMMA SavedTyped ==
  ASSUME NEW st \in Nights, NEW i \in Nat, NEW rolls, clock \in Nat
  PROVE  Saved(st, i, rolls) \in Nights
<1>1. PICK s \in Worn : s = st.s
  BY DEF Nights
<1>2. PICK roll : roll = rolls[i]
  OBVIOUS
<1>3. PICK b \in Worn : b = DeathSave(s, roll)
  BY SheetSaves
<1>4. clock + i \in Nat /\ st.at \in Nat
  BY DEF Nights
<1> QED BY <1>1, <1>2, <1>3, <1>4 DEF Saved, Nights

(* The saves of the time that passes can be counted up.                    *)
LEMMA NightsExist ==
  ASSUME NEW s \in Worn, NEW n \in Nat, NEW rolls, clock \in Nat
  PROVE  \E w : w = [i \in 0..n |->
                       IF i = 0 THEN [s |-> s, at |-> clock] ELSE Saved(w[i - 1], i, rolls)]
<1> DEFINE x == [s |-> s, at |-> clock]
           next == [i \in 1..n |-> [st \in Nights |-> Saved(st, i, rolls)]]
<1>0. x \in Nights
  BY DEF Nights
<1>1. next \in [1..n -> [Nights -> Nights]]
  <2>1. \A i \in 1..n : \A st \in Nights : Saved(st, i, rolls) \in Nights
    BY SavedTyped
  <2> QED BY <2>1
<1>2. PICK g \in [0..n -> Nights] : g[0] = x /\ \A i \in 1..n : g[i] = next[i][g[i - 1]]
  <2> HIDE DEF next, x
  <2>1. PICK y \in Nights : y = x
    BY <1>0
  <2>4. PICK m \in Nat : m = n
    OBVIOUS
  <2>5. PICK nights : nights = Nights
    OBVIOUS
  <2>2. PICK later \in [1..m -> [nights -> nights]] : later = next
    BY <1>1, <2>4, <2>5
  <2>3. \E g \in [0..m -> nights] : g[0] = y /\ \A i \in 1..m : g[i] = later[i][g[i - 1]]
    BY <2>1, <2>5, Iterates
  <2> QED BY <2>1, <2>2, <2>3, <2>4, <2>5
<1>3. \A i \in 1..n : g[i] = Saved(g[i - 1], i, rolls)
  <2> HIDE DEF x
  <2>1. \A i \in 1..n : i - 1 \in 0..n
    OBVIOUS
  <2>2. \A i \in 1..n : g[i - 1] \in Nights
    BY <1>2, <2>1
  <2> QED BY <1>2, <2>2
<1>4. g = [i \in 0..n |-> IF i = 0 THEN x ELSE Saved(g[i - 1], i, rolls)]
  <2> HIDE DEF x, next
  <2>1. g = [i \in 0..n |-> g[i]]
    BY <1>2
  <2>2. \A i \in 0..n : i = 0 \/ i \in 1..n
    OBVIOUS
  <2> QED BY <1>2, <1>3, <2>1, <2>2
<1> HIDE DEF next
<1> QED BY <1>4

(* After all of them the sheet is readable.                                *)
LEMMA NightPasses ==
  ASSUME NEW s \in Worn, NEW n \in Nat, NEW rolls, clock \in Nat,
         NEW w, w = [i \in 0..n |->
                       IF i = 0 THEN [s |-> s, at |-> clock] ELSE Saved(w[i - 1], i, rolls)]
  PROVE  w[n] \in Nights
<1> DEFINE P == {i \in 0..n : w[i] \in Nights}
<1>1. 0 \in P
  BY DEF Nights
<1>2. ASSUME NEW i \in 1..n, i - 1 \in P PROVE i \in P
  <2>1. w[i] = Saved(w[i - 1], i, rolls) /\ i \in 0..n
    OBVIOUS
  <2>2. w[i - 1] \in Nights
    BY <1>2
  <2> QED BY <2>1, <2>2, SavedTyped
<1>3. \A i \in 0..n : i \in P
  <2> HIDE DEF P
  <2> QED BY <1>1, <1>2, UpTo
<1> QED BY <1>3

(* Time that passes leaves a sheet at rest, and leaves the dead dead.      *)
LEMMA Passes ==
  ASSUME NEW s \in Sheet, NEW now \in Nat, NEW rolls, NEW nap \in Naps,
         clock \in Nat, now >= clock
  PROVE  Passage(s, now, rolls, nap) \in Sheet /\ (s.dead => Passage(s, now, rolls, nap).dead)
<1>1. CASE s.hp > 0 \/ s.dead
  BY <1>1 DEF Passage
<1>2. CASE ~(s.hp > 0 \/ s.dead)
  <2>1. PICK n \in Nat : n = IF now - clock < MaxSaves THEN now - clock ELSE MaxSaves
    <3>1. PICK most \in Nat : most = MaxSaves
      BY EncountersAssumption
    <3>2. PICK c \in Nat : c = clock
      OBVIOUS
    <3>3. now - c \in Nat
      BY <3>2
    <3> QED BY <3>1, <3>2, <3>3
  <2>2. s \in Worn /\ s.timer \in Nat
    BY DEF Sheet, Worn, Sheets
  <2>3. PICK w : w = CHOOSE w1 : w1 = [i \in 0..n |->
                IF i = 0 THEN [s |-> s, at |-> clock] ELSE Saved(w1[i - 1], i, rolls)]
    OBVIOUS
  <2>4. w = [i \in 0..n |->
                IF i = 0 THEN [s |-> s, at |-> clock] ELSE Saved(w[i - 1], i, rolls)]
    BY <2>2, <2>3, NightsExist, ZenonT(40)
  <2>5. PICK run \in Nights : run = w[n]
    BY <2>2, <2>4, NightPasses
  <2>6. PICK later \in Nat \ {0} : later = IF s.timer = NoTimer THEN run.at + nap * Hour ELSE s.timer
    <3>1. PICK long \in Nat \ {0} : long = nap * Hour
      BY NapsLast
    <3>2. run.at \in Nat
      BY DEF Nights
    <3>3. run.at + long \in Nat \ {0}
      BY <3>2
    <3> QED BY <2>2, <3>1, <3>3 DEF NoTimer
  <2>7. PICK e \in Worn : e = run.s
    BY DEF Nights
  <2>8. PICK woken \in Worn : woken = IF Asleep(e) /\ now >= later THEN Heal(e, 1) ELSE e
    BY SheetHeal
  <2>9. PICK v : v = IF Asleep(woken) THEN later ELSE NoTimer
    OBVIOUS
  <2>10. v \in Nat /\ (v # NoTimer <=> Asleep(woken))
    BY <2>9 DEF NoTimer
  <2>11. Passage(s, now, rolls, nap) = Timed(woken, v)
    BY <1>2, <2>1, <2>3, <2>5, <2>6, <2>7, <2>8, <2>9 DEF Passage, Timed
  <2>12. Passage(s, now, rolls, nap) \in Sheet
    BY <2>10, <2>11, TimedSheet
  <2> QED BY <1>2, <2>12
<1> QED BY <1>1, <1>2

(* Time passes for the party.                                              *)
LEMMA Elapses ==
  ASSUME NEW sheets \in [Heroes -> Sheet], NEW now \in Nat, clock \in Nat, now >= clock,
         Elapse(sheets, now)
  PROVE  /\ sheet' \in [Heroes -> Sheet] /\ clock' = now
         /\ \A h \in Heroes : sheets[h].dead => sheet'[h].dead
<1>1. PICK rolls \in Streaks, nap \in Naps :
          sheet' = [h \in Heroes |-> IF h \in present THEN Passage(sheets[h], now, rolls, nap)
                                     ELSE sheets[h]]
  BY DEF Elapse
<1>2. \A h \in Heroes : /\ sheet'[h] \in Sheet
                        /\ sheets[h].dead => sheet'[h].dead
  <2> SUFFICES ASSUME NEW h \in Heroes
               PROVE  sheet'[h] \in Sheet /\ (sheets[h].dead => sheet'[h].dead)
    OBVIOUS
  <2>1. PICK s \in Sheet : s = sheets[h]
    OBVIOUS
  <2>2. sheet'[h] = IF h \in present THEN Passage(s, now, rolls, nap) ELSE s
    BY <1>1, <2>1
  <2>3. Passage(s, now, rolls, nap) \in Sheet /\ (s.dead => Passage(s, now, rolls, nap).dead)
    BY Passes
  <2> QED BY <2>1, <2>2, <2>3
<1>3. clock' = now
  BY DEF Elapse, PersistClock
<1>4. sheet' \in [Heroes -> Sheet]
  BY <1>1, <1>2
<1> QED BY <1>2, <1>3, <1>4

-----------------------------------------------------------------------------
(* What is stored after a fight has moved on.                              *)

(* A fight somebody is about to store.                                      *)
Pending(f) ==
  /\ f.active => /\ Current(f) \in Heroes /\ Standing(f.acts[Current(f)]) /\ AnyFoe(f)
                 /\ f.outcome = NoOutcome
  /\ ~f.authored => f.outcome = NoOutcome

(* finalize_authored_encounter on what is about to be stored: the fight    *)
(* waits for a hero, or is closed.                                         *)
LEMMA Finalized ==
  ASSUME NEW o \in Turns, NEW f \in Fights(o), Pending(f)
  PROVE  LET g == Finalize(f, FALSE) IN
         /\ g \in Fights(o) /\ Waits(g) /\ g.acts = f.acts /\ g.round = f.round
         /\ (g.authored <=> f.authored) /\ (g.active => f.active)
<1>1. PICK retreat \in BOOLEAN : retreat = FALSE
  OBVIOUS
<1>2. PICK g : g = Finalize(f, retreat)
  OBVIOUS
<1>3. /\ g \in Fights(o) /\ Stays(f, g)
      /\ g.active => f.active
      /\ ~f.authored => (g.active <=> f.active) /\ g.outcome = f.outcome
      /\ f.outcome # NoOutcome => (g.active <=> f.active) /\ g.outcome = f.outcome
      /\ f.outcome = NoOutcome /\ f.authored => (g.active <=> g.outcome = NoOutcome)
  BY <1>2, Finalizes
<1>4. /\ Current(g) = Current(f) /\ (AnyFoe(g) <=> AnyFoe(f)) /\ g.acts = f.acts
      /\ g.round = f.round /\ (g.authored <=> f.authored)
  BY <1>3, StaysHolds DEF Stays
<1>5. ASSUME g.active
      PROVE  /\ Current(g) \in Heroes /\ Standing(g.acts[Current(g)]) /\ AnyFoe(g)
             /\ g.outcome = NoOutcome
  BY <1>3, <1>4, <1>5 DEF Pending
<1>6. ~g.authored => g.outcome = NoOutcome
  BY <1>3, <1>4 DEF Pending
<1>7. g.authored /\ ~g.active => g.outcome # NoOutcome
  BY <1>3, <1>4
<1>8. Waits(g)
  BY <1>5, <1>6, <1>7 DEF Waits
<1> QED BY <1>1, <1>2, <1>3, <1>4, <1>8

(* Waiting is about the fight's turn and its outcome.                       *)
LEMMA Recovered ==
  ASSUME NEW o \in Turns, NEW f \in Fights(o), Waits(f), ~f.active
  PROVE  LET g == RecoverDefeated(f) IN
         /\ g \in Fights(o) /\ Waits(g) /\ ~g.active /\ g.round = f.round
         /\ (g.authored <=> f.authored) /\ g.outcome = f.outcome
         /\ \A x \in ToSet(o) : Fate(f.acts[x], g.acts[x])
<1>1. PICK g : g = RecoverDefeated(f)
  OBVIOUS
<1>2. /\ g \in Fights(o) /\ g.cur = f.cur /\ g.round = f.round
      /\ (g.active <=> f.active) /\ (g.authored <=> f.authored) /\ g.outcome = f.outcome
      /\ \A x \in ToSet(o) : Fate(f.acts[x], g.acts[x])
  BY <1>1, Recovers
<1>3. Waits(g)
  BY <1>2 DEF Waits
<1> QED BY <1>1, <1>2, <1>3

(* The sheets before a fight is stored say of its heroes what it is to      *)
(* leave alone.                                                             *)
FollowsSheets(o, f) ==
  \A x \in Heroes \cap ToSet(o) : /\ sheet[x].dead => f.acts[x].dead
                                  /\ f.acts[x].out => Vitals(f.acts[x]) = Vitals(sheet[x])

(* persist_projection.                                                      *)
LEMMA Commits ==
  ASSUME NEW o \in Turns, NEW f \in Fights(o), Pending(f), sheet \in [Heroes -> Sheet],
         clock \in Nat, NEW rounds \in Nat, NEW under, under = "active" <=> f.authored,
         FollowsSheets(o, f), Commit(f, rounds, under)
  PROVE  /\ fight' \in Fights(o) /\ Waits(fight') /\ fight'.round = f.round
         /\ fight'.active => f.active /\ Finalize(f, FALSE).active
         /\ sheet' \in [Heroes -> Sheet]
         /\ \A x \in Heroes : sheet[x].dead => sheet'[x].dead
         /\ \A x \in ToSet(o) : fight'.acts[x].out = f.acts[x].out
         /\ SheetsFollowCombat' /\ DefenseHasItsFight'
         /\ clock' \in Nat /\ clock' >= clock
         /\ fight'.active => clock' = clock + rounds
<1>1. PICK g \in Fights(o) : g = Finalize(f, FALSE)
  BY Finalized
<1>2. /\ Waits(g) /\ g.acts = f.acts /\ g.round = f.round
      /\ (g.authored <=> f.authored) /\ (g.active => f.active)
  BY <1>1, Finalized
<1>3. PICK decided \in BOOLEAN : decided = (g.outcome # NoOutcome /\ under = "active")
  OBVIOUS
<1>4. PICK beaten \in BOOLEAN : beaten = (decided /\ g.outcome = "defeated")
  OBVIOUS
<1>5. decided <=> g.outcome # NoOutcome
  BY <1>2, <1>3 DEF Waits
<1>6. PICK h : h = IF beaten THEN RecoverDefeated(g) ELSE g
  OBVIOUS
<1>7. /\ h \in Fights(o) /\ Waits(h) /\ (h.active <=> g.active) /\ h.round = f.round
      /\ (h.authored <=> f.authored) /\ h.outcome = g.outcome
      /\ \A x \in ToSet(o) : Fate(f.acts[x], h.acts[x])
  <2>1. CASE beaten
    <3>1. ~g.active
      BY <1>2, <1>4, <1>5, <2>1 DEF Waits
    <3>2. h = RecoverDefeated(g)
      BY <1>6, <2>1
    <3> QED BY <1>2, <3>1, <3>2, Recovered
  <2>2. CASE ~beaten
    <3>1. h = g
      BY <1>6, <2>2
    <3> QED BY <1>2, <3>1, FateHolds
  <2> QED BY <2>1, <2>2
<1>8. PICK now : now = clock + rounds + (IF beaten THEN Hour ELSE 0)
  OBVIOUS
<1>9. now \in Nat /\ now >= clock /\ (h.active => now = clock + rounds)
  <2>1. Hour \in Nat
    BY EncountersAssumption
  <2>2. h.active => ~beaten
    BY <1>4, <1>5, <1>7 DEF Waits
  <2>3. PICK c \in Nat : c = clock
    OBVIOUS
  <2> QED BY <1>8, <2>1, <2>2, <2>3
<1>10. clock' = now /\ fight' = h /\ defense' = IF decided THEN g.outcome ELSE under
  BY <1>1, <1>3, <1>4, <1>6, <1>8 DEF Commit, PersistClock
<1>11. PICK nap \in Naps :
           sheet' = [x \in Heroes |->
                  IF x \in DOMAIN h.acts /\ ~h.acts[x].out
                  THEN Store(sheet[x], h.acts[x], now, nap) ELSE sheet[x]]
  BY <1>1, <1>3, <1>4, <1>6, <1>8 DEF Commit
<1>12. DOMAIN h.acts = ToSet(o) /\ \A x \in ToSet(o) : h.acts[x] \in Actor
  BY <1>7, OnTurn
<1>13. ASSUME NEW x \in Heroes
       PROVE  /\ sheet'[x] \in Sheet /\ (sheet[x].dead => sheet'[x].dead)
              /\ x \in ToSet(o) => Vitals(sheet'[x]) = Vitals(h.acts[x])
  <2>1. PICK s \in Sheet : s = sheet[x]
    OBVIOUS
  <2>2. CASE x \in ToSet(o) /\ ~h.acts[x].out
    <3>1. PICK a \in Actor : a = h.acts[x]
      BY <1>12, <2>2
    <3>2. PICK t : t = Store(s, a, now, nap)
      OBVIOUS
    <3>3. sheet'[x] = t
      BY <1>11, <1>12, <2>1, <2>2, <3>1, <3>2
    <3>4. t \in Sheet /\ Vitals(t) = Vitals(a) /\ t.dead = a.dead
      BY <1>9, <3>2, Stores
    <3>5. sheet[x].dead => a.dead
      BY <1>7, <2>2, <3>1 DEF FollowsSheets, Fate
    <3> QED BY <3>1, <3>3, <3>4, <3>5
  <2>3. CASE x \in ToSet(o) /\ h.acts[x].out
    <3>1. sheet'[x] = s
      BY <1>11, <1>12, <2>1, <2>3
    <3>2. f.acts[x].out /\ Vitals(h.acts[x]) = Vitals(f.acts[x])
      BY <1>7, <2>3 DEF Fate
    <3>3. Vitals(f.acts[x]) = Vitals(s)
      BY <2>1, <2>3, <3>2 DEF FollowsSheets
    <3> QED BY <2>1, <3>1, <3>2, <3>3
  <2>4. CASE x \notin ToSet(o)
    BY <1>11, <1>12, <2>1, <2>4
  <2> QED BY <2>2, <2>3, <2>4
<1>14. sheet' \in [Heroes -> Sheet]
  BY <1>11, <1>13
<1>15. SheetsFollowCombat'
  <2>1. \A x \in Heroes \cap DOMAIN fight'.acts : Vitals(sheet'[x]) = Vitals(fight'.acts[x])
    BY <1>10, <1>12, <1>13
  <2> QED BY <2>1 DEF SheetsFollowCombat, Vitals
<1>16. DefenseHasItsFight'
  <2>0. h.outcome \in {"none", "retreated", "defeated", "held"} /\ h.authored \in BOOLEAN
        /\ h.active \in BOOLEAN
    BY <1>7 DEF Fights
  <2>1. CASE decided
    BY <1>5, <1>7, <1>10, <2>0, <2>1 DEF DefenseHasItsFight, Waits, NoOutcome
  <2>2. CASE ~decided
    BY <1>5, <1>7, <1>10, <2>0, <2>2 DEF DefenseHasItsFight, Waits, NoOutcome
  <2> QED BY <2>1, <2>2
<1>17. \A x \in ToSet(o) : fight'.acts[x].out = f.acts[x].out
  BY <1>7, <1>10 DEF Fate
<1> QED BY <1>1, <1>2, <1>7, <1>9, <1>10, <1>13, <1>14, <1>15, <1>16, <1>17

(* What persisting a fight over the open one does to the table.             *)
LEMMA Persists ==
  ASSUME NEW o \in Turns, NEW f \in Fights(o), Pending(f), fight \in Fights(o), fight.active,
         sheet \in [Heroes -> Sheet], clock \in Nat, SheetsFollowCombat, DefenseHasItsFight,
         Follows(o, fight, f), Persist(f)
  PROVE  /\ fight' \in Fights(o) /\ Waits(fight')
         /\ sheet' \in [Heroes -> Sheet]
         /\ \A x \in Heroes : sheet[x].dead => sheet'[x].dead
         /\ \A x \in ToSet(o) : fight'.acts[x].out = f.acts[x].out
         /\ SheetsFollowCombat' /\ DefenseHasItsFight'
         /\ clock' \in Nat /\ clock' >= clock
         /\ fight'.active => clock' - clock = fight'.round - fight.round
         /\ frev' = frev + 1 /\ fno' = fno
<1>1. PICK g \in Fights(o) : g = Finalize(f, FALSE)
  BY Finalized
<1>2. g.round = f.round /\ f.round \in Nat /\ fight.round \in Nat /\ f.round >= fight.round
  BY <1>1, Finalized DEF Fights, Follows
<1>3. PICK rounds \in Nat : rounds = Rounds(g)
  BY <1>2 DEF Rounds
<1>4. g.active => rounds = f.round - fight.round
  BY <1>2, <1>3 DEF Rounds
<1>5. PICK under : under = defense
  OBVIOUS
<1>6. under = "active" <=> f.authored
  BY <1>5 DEF DefenseHasItsFight, Follows
<1>7. FollowsSheets(o, f)
  <2>1. \A x \in Heroes \cap ToSet(o) : Vitals(sheet[x]) = Vitals(fight.acts[x])
    BY OnTurn DEF SheetsFollowCombat
  <2>2. \A x \in Heroes \cap ToSet(o) : sheet[x].dead = fight.acts[x].dead
    BY <2>1 DEF Vitals
  <2> QED BY <2>1, <2>2 DEF FollowsSheets, Follows
<1>8. Commit(f, rounds, under)
  BY <1>1, <1>3, <1>5 DEF Persist
<1>9. /\ fight' \in Fights(o) /\ Waits(fight') /\ fight'.round = f.round
      /\ fight'.active => f.active /\ Finalize(f, FALSE).active
      /\ sheet' \in [Heroes -> Sheet]
      /\ \A x \in Heroes : sheet[x].dead => sheet'[x].dead
      /\ \A x \in ToSet(o) : fight'.acts[x].out = f.acts[x].out
      /\ SheetsFollowCombat' /\ DefenseHasItsFight'
      /\ clock' \in Nat /\ clock' >= clock
      /\ fight'.active => clock' = clock + rounds
  BY <1>6, <1>7, <1>8, Commits
<1>10. fight'.active => clock' - clock = fight'.round - fight.round
  <2> SUFFICES ASSUME fight'.active PROVE clock' - clock = fight'.round - fight.round
    OBVIOUS
  <2>1. rounds = f.round - fight.round
    BY <1>1, <1>4, <1>9
  <2>2. clock' = clock + rounds
    BY <1>9
  <2>3. clock' - clock = rounds
    <3>1. PICK c \in Nat : c = clock
      OBVIOUS
    <3>2. (c + rounds) - c = rounds
      OBVIOUS
    <3> QED BY <2>2, <3>1, <3>2
  <2> QED BY <1>9, <2>1, <2>3
<1>11. frev' = frev + 1 /\ fno' = fno
  BY DEF Persist
<1> QED BY <1>9, <1>10, <1>11

-----------------------------------------------------------------------------
(* The inductive invariant of the table.                                   *)

(* The fight as it was last stored.                                         *)
FightWaits ==
  \/ fight = NoFight
  \/ \E o \in Turns : fight \in Fights(o) /\ Waits(fight) /\ Root \in ToSet(o)

(* Who is in the fight but not at the table is out of it.                   *)
AtTheTable(there) ==
  fight.active => \A h \in Heroes \cap DOMAIN fight.acts : fight.acts[h].out <=> h \notin there

(* What is stored between two transactions.                                 *)
Stored ==
  /\ sheet \in [Heroes -> Sheet] /\ clock \in Nat /\ frev \in Nat /\ fno \in Nat
  /\ roomed \in BOOLEAN /\ Root \in present /\ present \subseteq Heroes
  /\ FightWaits /\ SheetsFollowCombat /\ DefenseHasItsFight /\ AtTheTable(present)

(* What a request and a solo call in flight know of it: a request is about  *)
(* a fight and a revision there have been, and what a call has computed for *)
(* the revision that is stored now follows from it.                         *)
Asked == [cmd : Commands, exp : Nat, no : Nat, room : BOOLEAN]
(* A fight of whatever order.                                              *)
AnyFight == UNION {Fights(o) : o \in Turns}
(* What a solo call holds between computing and committing.                *)
Held == [r : Requests, f : AnyFight, dice : Seeds]
(* A request is about a fight there has been; when it is about the present *)
(* one, it names a revision there has been and combatants there are.       *)
Known(q) ==
  /\ q.no <= fno
  /\ q.no = fno => q.exp <= frev /\ fight # NoFight /\ Given(fight.order, q.cmd)
(* What prepare_action may return for a fight: the same fight further on,  *)
(* waiting for a hero, with nobody called to the table or away.            *)
Offers(o, f, g) ==
  /\ f \in Fights(o) /\ g \in Fights(o) /\ Waits(g) /\ Follows(o, f, g)
  /\ \A x \in ToSet(o) : g.acts[x].out = f.acts[x].out
(* A request about the fight and the revision that are stored.             *)
Seen(q) == q.no = fno /\ q.exp = frev
(* What is known of every request.                                         *)
AskedKnown ==
  /\ asked \in [Requests -> Asked \cup {None}]
  /\ \A r \in Requests : asked[r] # None => Known(asked[r])
(* What a solo call has computed for the revision that is stored follows   *)
(* from what is stored.                                                    *)
HeldFollows ==
  /\ held \in [Callers -> Held \cup {None}]
  /\ \A c \in Callers : held[c] # None =>
        /\ asked[held[c].r] # None
        /\ Seen(asked[held[c].r]) => Offers(fight.order, fight, held[c].f)

(* The inductive invariant.                                                *)
TableInv == Stored /\ AskedKnown /\ HeldFollows

(* A step of the table's clock and of its heroes' lives.                    *)
Onwards ==
  /\ \A h \in Heroes : sheet[h].dead => sheet'[h].dead
  /\ clock' >= clock
  /\ fight.active /\ fight'.active => clock' - clock = fight'.round - fight.round

(* Where the sheets, the clock and the fight stay, everything stays.       *)
LEMMA StillOnwards ==
  ASSUME Stored, sheet' = sheet, clock' = clock, fight' = fight
  PROVE  Onwards
<1>1. clock \in Nat
  BY DEF Stored
<1>2. fight.active => fight.round \in Nat
  BY DEF Stored, FightWaits, NoFight, Fights
<1> QED BY <1>1, <1>2 DEF Onwards

(* The open fight and its order.                                            *)
LEMMA OpenFight ==
  ASSUME Stored, fight # NoFight
  PROVE  \E o \in Turns : o = fight.order /\ fight \in Fights(o) /\ Waits(fight) /\ Root \in ToSet(o)
<1>1. PICK o \in Turns : fight \in Fights(o) /\ Waits(fight) /\ Root \in ToSet(o)
  BY DEF Stored, FightWaits
<1>2. o = fight.order
  BY <1>1 DEF Fights
<1> QED BY <1>1, <1>2

(* A fight that goes on is a fight.                                        *)
LEMMA ActiveIsOpen ==
  ASSUME fight.active
  PROVE  fight # NoFight
BY DEF NoFight

(* What somebody wants to store over the open fight, and what becomes of    *)
(* the table.                                                               *)
LEMMA PersistKeeps ==
  ASSUME Stored, fight.active, NEW o, o = fight.order, NEW f \in Fights(o), Pending(f),
         Follows(o, fight, f), NEW there \in SUBSET Heroes, Root \in there, present' = there,
         roomed' \in BOOLEAN,
         f.active => \A x \in Heroes \cap ToSet(o) : f.acts[x].out <=> x \notin there,
         Persist(f)
  PROVE  Stored' /\ Onwards /\ frev' = frev + 1 /\ fno' = fno /\ fight'.order = o
         /\ fight' # NoFight
<1>1. o \in Turns /\ fight \in Fights(o) /\ Root \in ToSet(o)
  BY ActiveIsOpen, OpenFight
<1>2. /\ fight' \in Fights(o) /\ Waits(fight')
      /\ sheet' \in [Heroes -> Sheet]
      /\ \A x \in Heroes : sheet[x].dead => sheet'[x].dead
      /\ \A x \in ToSet(o) : fight'.acts[x].out = f.acts[x].out
      /\ SheetsFollowCombat' /\ DefenseHasItsFight'
      /\ clock' \in Nat /\ clock' >= clock
      /\ fight'.active => clock' - clock = fight'.round - fight.round
      /\ frev' = frev + 1 /\ fno' = fno
  BY <1>1, Persists DEF Stored
<1>3. fight'.active => f.active
  <2>1. PICK g : g = Finalize(f, FALSE)
    OBVIOUS
  <2>2. Commit(f, Rounds(g), defense)
    BY <2>1 DEF Persist
  <2>3. g.active => f.active
    BY <1>1, <2>1, Finalized
  <2>4. fight'.active => g.active
    <3>1. fight' = RecoverDefeated(g) \/ fight' = g
      BY <2>1, <2>2 DEF Commit
    <3>2. g \in Fights(o)
      BY <1>1, <2>1, Finalized
    <3> QED BY <1>1, <3>1, <3>2, Recovers
  <2> QED BY <2>3, <2>4
<1>4. AtTheTable(present)'
  <2>1. DOMAIN fight'.acts = ToSet(o)
    BY <1>1, <1>2, OnTurn
  <2>2. fight'.active => \A h \in Heroes \cap DOMAIN fight'.acts :
            fight'.acts[h].out <=> h \notin there
    BY <1>2, <1>3, <2>1
  <2> QED BY <2>2 DEF AtTheTable
<1>5. FightWaits'
  BY <1>1, <1>2 DEF FightWaits
<1>6. frev' \in Nat /\ fno' \in Nat
  BY <1>2 DEF Stored
<1>7. Stored'
  BY <1>2, <1>4, <1>5, <1>6 DEF Stored
<1>8. Onwards
  BY <1>2 DEF Onwards
<1>9. fight'.order = o /\ fight' # NoFight
  <2>1. fight'.order = o
    BY <1>2 DEF Fights
  <2>2. o # <<>>
    BY <1>1 DEF Turns
  <2>3. NoFight.order = <<>>
    BY DEF NoFight
  <2> QED BY <2>1, <2>2, <2>3
<1> QED BY <1>2, <1>7, <1>8, <1>9

(* What a call offers may be stored.                                        *)
LEMMA OfferKeeps ==
  ASSUME Stored, fight.active, NEW f, Offers(fight.order, fight, f),
         roomed' = roomed, present' = present, Persist(f)
  PROVE  Stored' /\ Onwards /\ frev' = frev + 1 /\ fno' = fno /\ fight'.order = fight.order
         /\ fight' # NoFight
<1>1. PICK o \in Turns : o = fight.order /\ fight \in Fights(o)
  BY ActiveIsOpen, OpenFight
<1>2. /\ f \in Fights(o) /\ Waits(f) /\ Follows(o, fight, f)
      /\ \A x \in ToSet(o) : f.acts[x].out = fight.acts[x].out
  BY <1>1 DEF Offers
<1>3. Pending(f)
  BY <1>2 DEF Waits, Pending
<1>4. \A x \in Heroes \cap ToSet(o) : f.acts[x].out <=> x \notin present
  <2>1. DOMAIN fight.acts = ToSet(o)
    BY <1>1, OnTurn
  <2> QED BY <1>2, <2>1 DEF Stored, AtTheTable
<1>5. PICK there \in SUBSET Heroes : there = present
  BY DEF Stored
<1>6. Root \in there /\ roomed' \in BOOLEAN
  BY <1>5 DEF Stored
<1> QED BY <1>1, <1>2, <1>3, <1>4, <1>5, <1>6, PersistKeeps

(* What prepare_action returns is such an offer.                            *)
LEMMA PreparedOffers ==
  ASSUME Stored, fight.active, NEW c, Given(fight.order, c), NEW seed, NEW st,
         st = Prepare(fight, c, seed), st.ok
  PROVE  Offers(fight.order, fight, st.f)
<1>1. PICK o \in Turns : o = fight.order /\ fight \in Fights(o) /\ Waits(fight)
  BY ActiveIsOpen, OpenFight
<1>2. PICK f \in Fights(o) : f = fight
  BY <1>1
<1>3. /\ st.f \in Fights(o) /\ Waits(st.f)
      /\ st.f.round >= f.round
      /\ (st.f.authored <=> f.authored)
      /\ \A x \in ToSet(o) : Fate(f.acts[x], st.f.acts[x])
  BY <1>1, <1>2, Prepares
<1>4. \A x \in ToSet(o) : st.f.acts[x].out = f.acts[x].out
  BY <1>3 DEF Fate
<1>5. Follows(o, f, st.f)
  BY <1>3 DEF Fate, Follows
<1>6. Offers(o, f, st.f)
  BY <1>3, <1>4, <1>5 DEF Offers
<1> QED BY <1>1, <1>2, <1>6

-----------------------------------------------------------------------------
(* The steps of requests and of solo calls that store nothing.             *)

(* Another request or call leaves what is known of the others.              *)
LEMMA CallsKept ==
  ASSUME AskedKnown, HeldFollows, UNCHANGED <<fight, frev, fno, asked, held>>
  PROVE  AskedKnown' /\ HeldFollows'
BY DEF AskedKnown, HeldFollows, Known, Seen

(* Requests are known as long as neither the fight nor its revision        *)
(* changes.                                                                *)
LEMMA AskedKept ==
  ASSUME AskedKnown, UNCHANGED <<fight, frev, fno, asked>>
  PROVE  AskedKnown'
BY DEF AskedKnown, Known

(* A solo call may let go of what it holds.                                *)
LEMMA HeldDropped ==
  ASSUME HeldFollows, NEW c \in Callers, held' = [held EXCEPT ![c] = None],
         UNCHANGED <<fight, frev, fno, asked>>
  PROVE  HeldFollows'
<1>1. held' \in [Callers -> Held \cup {None}]
  BY DEF HeldFollows
<1>2. ASSUME NEW d \in Callers, held'[d] # None PROVE d # c /\ held'[d] = held[d]
  BY <1>2 DEF HeldFollows
<1> QED BY <1>1, <1>2 DEF HeldFollows, Seen

(* When another revision is stored, what was computed before is not for it. *)
LEMMA CallsAged ==
  ASSUME AskedKnown, HeldFollows, asked' = asked, frev \in Nat, fno \in Nat,
         held' = held \/ \E c \in Callers : held' = [held EXCEPT ![c] = None],
         \/ /\ fno' = fno /\ frev' = frev + 1 /\ fight'.order = fight.order /\ fight' # NoFight
         \/ fno' = fno + 1 /\ frev' = 0
  PROVE  AskedKnown' /\ HeldFollows'
<1>1. \A r \in Requests : asked[r] # None =>
         asked[r].no \in Nat /\ asked[r].exp \in Nat /\ Known(asked[r])
  BY DEF AskedKnown, Asked
<1>2. ASSUME NEW r \in Requests, asked'[r] # None
      PROVE  Known(asked[r])' /\ ~Seen(asked[r])'
  <2>1. PICK q : q = asked[r]
    OBVIOUS
  <2>2. q.no \in Nat /\ q.exp \in Nat /\ Known(q)
    BY <1>1, <1>2, <2>1
  <2>3. q = asked'[r]
    BY <2>1
  <2>4. q.no <= fno' /\ ~(q.no = fno' /\ q.exp = frev')
    BY <2>2 DEF Known
  <2>5. q.no = fno' => q.exp <= frev' /\ fight' # NoFight /\ Given(fight'.order, q.cmd)
    BY <2>2 DEF Known
  <2> QED BY <2>1, <2>3, <2>4, <2>5 DEF Known, Seen
<1>3. AskedKnown'
  BY <1>2 DEF AskedKnown
<1>4. held' \in [Callers -> Held \cup {None}]
  BY DEF HeldFollows
<1>5. ASSUME NEW c \in Callers, held'[c] # None
      PROVE  asked'[held'[c].r] # None /\ ~Seen(asked[held[c].r])' /\ held'[c] = held[c]
  <2>1. held'[c] = held[c]
    BY <1>5 DEF HeldFollows
  <2>2. PICK r \in Requests : r = held[c].r
    BY <1>5, <2>1 DEF HeldFollows, Held
  <2>3. asked[r] # None
    BY <1>5, <2>1, <2>2 DEF HeldFollows
  <2> QED BY <1>2, <2>1, <2>2, <2>3
<1>6. HeldFollows'
  BY <1>4, <1>5 DEF HeldFollows, Seen
<1> QED BY <1>3, <1>6

-----------------------------------------------------------------------------
(* One lemma for every action.                                              *)
LEMMA AskSteps ==
  ASSUME TableInv, NEW r \in Requests, Ask(r)
  PROVE  TableInv' /\ Onwards
<1>1. PICK c \in Commands :
          /\ Sensible(fight, c)
          /\ asked' = [asked EXCEPT ![r] = [cmd |-> c, exp |-> frev, no |-> fno,
                                                   room |-> roomed]]
  BY DEF Ask
<1>2. /\ UNCHANGED <<party, sheet, clock, place, defense, fight, frev, fno, held>>
      /\ asked[r] = None /\ fight.active
  BY DEF Ask
<1>3. PICK o \in Turns : o = fight.order /\ fight \in Fights(o)
  BY <1>2, ActiveIsOpen, OpenFight DEF TableInv
<1>4. Given(o, c)
  <2>1. DOMAIN fight.acts = ToSet(o)
    BY <1>3, OnTurn
  <2>2. c.by \in ToSet(o) /\ c.on \in ToSet(o)
    BY <1>1, <2>1 DEF Sensible
  <2>3. c.by \in Heroes /\ c.kind \in Kinds /\ c.to \in Cells \cup {0}
    BY DEF Commands, Kinds
  <2> QED BY <2>2, <2>3 DEF Given
<1>5. PICK q : q = [cmd |-> c, exp |-> frev, no |-> fno, room |-> roomed]
  OBVIOUS
<1>6. q.no = fno /\ q.exp = frev /\ q.cmd = c
  BY <1>5
<1>7. Known(q)
  BY <1>2, <1>3, <1>4, <1>6, ActiveIsOpen DEF Known, TableInv, Stored
<1>8. AskedKnown'
  <2>1. roomed \in BOOLEAN
    BY DEF TableInv, Stored
  <2>2. q \in Asked
    BY <1>5, <2>1 DEF Asked, TableInv, Stored
  <2>3. asked' \in [Requests -> Asked \cup {None}]
    BY <1>1, <1>5, <2>2 DEF TableInv, AskedKnown
  <2>4. ASSUME NEW s \in Requests, asked'[s] # None PROVE Known(asked'[s])
    BY <1>1, <1>5, <1>7, <2>4 DEF TableInv, AskedKnown
  <2>5. \A s \in Requests : asked'[s] # None => Known(asked[s])'
    BY <1>2, <2>4 DEF Known
  <2> QED BY <2>3, <2>5 DEF AskedKnown
<1>9. HeldFollows'
  <2>1. \A d \in Callers : held[d] # None => held[d].r # r
    BY <1>2 DEF TableInv, HeldFollows
  <2>2. \A d \in Callers : held[d] # None => held[d].r \in Requests
    BY DEF TableInv, HeldFollows, Held
  <2>3. \A d \in Callers : held[d] # None => asked'[held[d].r] = asked[held[d].r]
    BY <1>1, <2>1, <2>2 DEF TableInv, AskedKnown
  <2> QED BY <1>2, <2>3 DEF TableInv, HeldFollows, Seen
<1>10. Stored'
  BY <1>2 DEF TableInv, Stored, FightWaits, SheetsFollowCombat, DefenseHasItsFight, AtTheTable, party, Vitals
<1>11. Onwards
  BY <1>2, StillOnwards DEF TableInv
<1> QED BY <1>8, <1>9, <1>10, <1>11 DEF TableInv

(* Nothing of what is stored changes.                                       *)
LEMMA StoredKept ==
  ASSUME Stored, UNCHANGED <<party, sheet, clock, place, defense, fight, frev, fno>>
  PROVE  Stored' /\ Onwards
<1>1. Stored'
  BY DEF Stored, FightWaits, SheetsFollowCombat, DefenseHasItsFight, AtTheTable, party, Vitals
<1>2. Onwards
  BY StillOnwards
<1> QED BY <1>1, <1>2

(* A request that has its receipt gets the stored answer.                  *)
LEMMA ReplaySteps ==
  ASSUME TableInv, NEW r \in Requests, Replay(r)
  PROVE  TableInv' /\ Onwards
<1>1. UNCHANGED <<party, sheet, clock, place, defense, fight, frev, fno, asked, held>>
  BY DEF Replay
<1>2. Stored' /\ Onwards
  BY <1>1, StoredKept DEF TableInv
<1>3. AskedKnown' /\ HeldFollows'
  BY <1>1, CallsKept DEF TableInv
<1> QED BY <1>2, <1>3 DEF TableInv

(* A request that nobody waits for is forgotten.                           *)
LEMMA ForgetSteps ==
  ASSUME TableInv, NEW r \in Requests, Forget(r)
  PROVE  TableInv' /\ Onwards
<1>1. /\ UNCHANGED <<party, sheet, clock, place, defense, fight, frev, fno, held>>
      /\ asked' = [asked EXCEPT ![r] = None]
      /\ ~\E c \in Callers : held[c] # None /\ held[c].r = r
  BY DEF Forget
<1>2. Stored' /\ Onwards
  BY <1>1, StoredKept DEF TableInv
<1>3. AskedKnown'
  <2>1. asked' \in [Requests -> Asked \cup {None}]
    BY <1>1 DEF TableInv, AskedKnown
  <2>2. \A s \in Requests : asked'[s] # None => asked'[s] = asked[s]
    BY <1>1 DEF TableInv, AskedKnown
  <2> QED BY <1>1, <2>1, <2>2 DEF TableInv, AskedKnown, Known
<1>4. HeldFollows'
  <2>2. \A d \in Callers : held[d] # None => held[d].r \in Requests /\ held[d].r # r
    BY <1>1 DEF TableInv, HeldFollows, Held
  <2>3. \A d \in Callers : held[d] # None => asked'[held[d].r] = asked[held[d].r]
    BY <1>1, <2>2 DEF TableInv, AskedKnown
  <2> QED BY <1>1, <2>3 DEF TableInv, HeldFollows, Seen
<1> QED BY <1>2, <1>3, <1>4 DEF TableInv

(* A solo call computes its fight outside of any transaction.              *)
LEMMA ComputeSteps ==
  ASSUME TableInv, NEW c \in Callers, NEW r \in Requests, SoloCompute(c, r)
  PROVE  TableInv' /\ Onwards
<1>1. PICK seed \in Seeds :
         LET st == Prepare(fight, asked[r].cmd, seed)
         IN  st.ok /\ held' = [held EXCEPT ![c] = [r |-> r, f |-> st.f, dice |-> seed]]
  BY DEF SoloCompute
<1>2. /\ UNCHANGED <<party, sheet, clock, place, defense, fight, frev, fno, asked>>
      /\ asked[r] # None /\ Fits(r)
  BY DEF SoloCompute
<1>3. Stored' /\ Onwards
  BY <1>2, StoredKept DEF TableInv
<1>4. AskedKnown'
  BY <1>2, AskedKept DEF TableInv
<1>5. PICK st : st = Prepare(fight, asked[r].cmd, seed)
  OBVIOUS
<1>6. PICK cmd : cmd = asked[r].cmd
  OBVIOUS
<1>7. Given(fight.order, cmd) /\ fight.active
  BY <1>2, <1>6 DEF Fits, TableInv, AskedKnown, Known
<1>8. Offers(fight.order, fight, st.f)
  BY <1>1, <1>5, <1>6, <1>7, PreparedOffers DEF TableInv
<1>9. HeldFollows'
  <2>1. PICK h : h = [r |-> r, f |-> st.f, dice |-> seed]
    OBVIOUS
  <2>2. h.r = r /\ h.f = st.f /\ h \in Held
    <3>1. \E o \in Turns : o = fight.order
      BY <1>7, ActiveIsOpen, OpenFight DEF TableInv
    <3>2. st.f \in AnyFight
      BY <1>8, <3>1 DEF Offers, AnyFight
    <3> QED BY <2>1, <3>2 DEF Held
  <2>3. held' = [held EXCEPT ![c] = h]
    BY <1>1, <1>5, <2>1
  <2>4. held' \in [Callers -> Held \cup {None}]
    BY <2>2, <2>3 DEF TableInv, HeldFollows
  <2>5. ASSUME NEW d \in Callers, held'[d] # None
        PROVE  /\ asked'[held'[d].r] # None
               /\ Seen(asked[held'[d].r]) => Offers(fight.order, fight, held'[d].f)
    <3>1. CASE d = c
      <4>1. held'[d] = h
        BY <2>3, <3>1 DEF TableInv, HeldFollows
      <4> QED BY <1>2, <1>8, <2>2, <4>1
    <3>2. CASE d # c
      <4>1. held'[d] = held[d]
        BY <2>3, <3>2 DEF TableInv, HeldFollows
      <4> QED BY <1>2, <2>5, <4>1 DEF TableInv, HeldFollows
    <3> QED BY <3>1, <3>2
  <2> QED BY <1>2, <2>4, <2>5 DEF HeldFollows, Seen
<1> QED BY <1>3, <1>4, <1>9 DEF TableInv

-----------------------------------------------------------------------------
(* The steps that store a fight.                                           *)

(* A solo call commits what it computed, if the revision is still the one  *)
(* it read.                                                                *)
LEMMA SoloCommitSteps ==
  ASSUME TableInv, NEW c \in Callers, SoloCommit(c)
  PROVE  TableInv' /\ Onwards
<1>1. PICK r : r = held[c].r
  OBVIOUS
<1>2. /\ held[c] # None /\ held' = [held EXCEPT ![c] = None]
      /\ UNCHANGED party /\ asked' = asked
  BY DEF SoloCommit
<1>3. \/ UNCHANGED <<sheet, clock, place, defense, fight, frev, fno>>
      \/ Fits(r) /\ Persist(held[c].f)
  BY <1>1 DEF SoloCommit
<1>4. CASE UNCHANGED <<sheet, clock, place, defense, fight, frev, fno>>
  <2>1. Stored' /\ Onwards
    BY <1>2, <1>4, StoredKept DEF TableInv
  <2>2. AskedKnown'
    BY <1>2, <1>4, AskedKept DEF TableInv
  <2>3. HeldFollows'
    BY <1>2, <1>4, HeldDropped DEF TableInv
  <2> QED BY <2>1, <2>2, <2>3 DEF TableInv
<1>5. CASE Fits(r) /\ Persist(held[c].f)
  <2>1. PICK f : f = held[c].f
    OBVIOUS
  <2>2. Offers(fight.order, fight, f) /\ fight.active
    BY <1>1, <1>2, <1>5, <2>1 DEF TableInv, HeldFollows, Seen, Fits
  <2>3. roomed' = roomed /\ present' = present
    BY <1>2 DEF party
  <2>4. Stored' /\ Onwards /\ frev' = frev + 1 /\ fno' = fno /\ fight'.order = fight.order
        /\ fight' # NoFight
    BY <1>5, <2>1, <2>2, <2>3, OfferKeeps DEF TableInv
  <2>5. AskedKnown' /\ HeldFollows'
    BY <1>2, <2>4, CallsAged DEF TableInv, Stored
  <2> QED BY <2>4, <2>5 DEF TableInv
<1> QED BY <1>3, <1>4, <1>5

(* A player of the room acts, in one transaction.                          *)
LEMMA RoomActSteps ==
  ASSUME TableInv, NEW r \in Requests, RoomAct(r)
  PROVE  TableInv' /\ Onwards
<1>1. PICK seed \in Seeds : LET st == Prepare(fight, asked[r].cmd, seed)
                            IN  st.ok /\ Persist(st.f)
  BY DEF RoomAct
<1>2. PICK cmd : cmd = asked[r].cmd
  OBVIOUS
<1>3. PICK st : st = Prepare(fight, cmd, seed)
  OBVIOUS
<1>4. Given(fight.order, cmd) /\ fight.active
  BY <1>2 DEF RoomAct, Fits, TableInv, AskedKnown, Known
<1>5. Offers(fight.order, fight, st.f)
  BY <1>1, <1>2, <1>3, <1>4, PreparedOffers DEF TableInv
<1>6. PICK f : f = st.f
  OBVIOUS
<1>7. roomed' = roomed /\ present' = present /\ asked' = asked /\ held' = held
  BY DEF RoomAct, party
<1>8. Persist(f)
  BY <1>1, <1>2, <1>3, <1>6
<1>9. Stored' /\ Onwards /\ frev' = frev + 1 /\ fno' = fno /\ fight'.order = fight.order
      /\ fight' # NoFight
  BY <1>4, <1>5, <1>6, <1>7, <1>8, OfferKeeps DEF TableInv
<1>10. AskedKnown' /\ HeldFollows'
  BY <1>7, <1>9, CallsAged DEF TableInv, Stored
<1> QED BY <1>9, <1>10 DEF TableInv

(* A fight that is called off.                                              *)
Stopped(f) == [f EXCEPT !.active = FALSE]

(* A fight that is ended from outside is closed as it is.                  *)
LEMMA Stops ==
  ASSUME NEW o \in Turns, NEW f \in Fights(o), Waits(f)
  PROVE  Stopped(f) \in Fights(o) /\ Pending(Stopped(f)) /\ Follows(o, f, Stopped(f))
         /\ ~Stopped(f).active
<1>1. PICK g : g = Stopped(f)
  OBVIOUS
<1>2. g = [f EXCEPT !.active = FALSE]
  BY <1>1 DEF Stopped
<1>3. g \in Fights(o) /\ f.round \in Nat
  BY <1>2 DEF Fights
<1>4. /\ g.acts = f.acts /\ g.round = f.round /\ g.authored = f.authored
      /\ g.outcome = f.outcome /\ g.active = FALSE
  BY <1>2 DEF Fights
<1>5. Pending(g)
  BY <1>4 DEF Pending, Waits
<1>6. Follows(o, f, g)
  BY <1>3, <1>4 DEF Follows
<1> QED BY <1>1, <1>3, <1>4, <1>5, <1>6

(* end_combat closes the fight.                                            *)
LEMMA EndSteps ==
  ASSUME TableInv, End
  PROVE  TableInv' /\ Onwards
<1>1. /\ fight.active /\ Persist(Stopped(fight)) /\ roomed' = roomed /\ present' = present
      /\ asked' = asked /\ held' = held
  BY DEF End, party, calls, Stopped
<1>2. PICK o \in Turns : o = fight.order /\ fight \in Fights(o) /\ Waits(fight)
  BY <1>1, ActiveIsOpen, OpenFight DEF TableInv
<1>3. PICK f \in Fights(o) : f = Stopped(fight)
  BY <1>2, Stops
<1>4. Pending(f) /\ Follows(o, fight, f) /\ ~f.active
  BY <1>2, <1>3, Stops
<1>5. PICK there \in SUBSET Heroes : there = present
  BY DEF TableInv, Stored
<1>6. Root \in there /\ roomed' \in BOOLEAN /\ present' = there
  BY <1>1, <1>5 DEF TableInv, Stored
<1>7. Stored' /\ Onwards /\ frev' = frev + 1 /\ fno' = fno /\ fight'.order = o
      /\ fight' # NoFight
  BY <1>1, <1>2, <1>3, <1>4, <1>6, PersistKeeps DEF TableInv
<1>8. AskedKnown' /\ HeldFollows'
  BY <1>1, <1>2, <1>7, CallsAged DEF TableInv, Stored
<1> QED BY <1>7, <1>8 DEF TableInv

(* What reconciling the open fight with those at the table returns.         *)
Reseats(o, f, there, st) ==
  /\ st.f \in Fights(o) /\ Waits(st.f) /\ Follows(o, f, st.f)
  /\ \A x \in ToSet(o) \cap Heroes : st.f.acts[x].out <=> x \notin there

(* reconcile_participants as one result.                                   *)
LEMMA Reseating ==
  ASSUME NEW o \in Turns, NEW f \in Fights(o), f.active, Waits(f), NEW there, NEW seed,
         NEW st, st = Reconcile(f, there, seed)
  PROVE  Reseats(o, f, there, st)
BY Reconciles DEF Reseats

(* Heroes join the table or leave it, and the fight with it.               *)
LEMMA SeatSteps ==
  ASSUME TableInv, NEW room \in BOOLEAN, NEW members \in SUBSET Heroes, Root \in members,
         Seat(room, members)
  PROVE  TableInv' /\ Onwards
<1>1. roomed' = room /\ present' = members /\ asked' = asked /\ held' = held
  BY DEF Seat, calls
<1>2. CASE /\ ~fight.active \/ ~Changed(fight, members)
           /\ UNCHANGED <<sheet, clock, place, defense, fight, frev, fno>>
  <2>1. AtTheTable(present)'
    <3>1. ASSUME fight.active, NEW h \in Heroes \cap DOMAIN fight.acts
          PROVE  fight.acts[h].out <=> h \notin members
      <4>1. PICK o \in Turns : fight \in Fights(o)
        BY <3>1, ActiveIsOpen, OpenFight DEF TableInv
      <4>2. fight.acts[h].out \in BOOLEAN
        BY <3>1, <4>1, OnTurn DEF Actor, Actors
      <4>3. ~Changed(fight, members)
        BY <1>2, <3>1
      <4> QED BY <3>1, <4>2, <4>3 DEF Changed
    <3> QED BY <1>1, <1>2, <3>1 DEF AtTheTable
  <2>2. Stored'
    BY <1>1, <1>2, <2>1
       DEF TableInv, Stored, FightWaits, SheetsFollowCombat, DefenseHasItsFight, Vitals
  <2>3. Onwards
    BY <1>2, StillOnwards DEF TableInv
  <2>4. AskedKnown' /\ HeldFollows'
    BY <1>1, <1>2, CallsKept DEF TableInv
  <2> QED BY <2>2, <2>3, <2>4 DEF TableInv
<1>3. ASSUME fight.active, NEW seed \in Seeds,
             LET st == Reconcile(fight, members, seed) IN st.ok /\ Persist(st.f)
      PROVE  TableInv' /\ Onwards
  <2>1. PICK o \in Turns : o = fight.order /\ fight \in Fights(o) /\ Waits(fight)
    BY <1>3, ActiveIsOpen, OpenFight DEF TableInv
  <2>2. PICK st : st = Reconcile(fight, members, seed)
    OBVIOUS
  <2>3. /\ st.f \in Fights(o) /\ Waits(st.f) /\ Follows(o, fight, st.f)
        /\ \A x \in ToSet(o) \cap Heroes : st.f.acts[x].out <=> x \notin members
    <3>1. PICK g \in Fights(o) : g = fight
      BY <2>1
    <3>2. g.active /\ Waits(g)
      BY <1>3, <2>1, <3>1
    <3>3. Reseats(o, g, members, st)
      BY <2>2, <3>1, <3>2, Reseating
    <3> QED BY <3>1, <3>3 DEF Reseats
  <2>4. PICK f \in Fights(o) : f = st.f
    BY <2>3
  <2>5. Pending(f) /\ Persist(f)
    BY <1>3, <2>2, <2>3, <2>4 DEF Waits, Pending
  <2>6. \A x \in Heroes \cap ToSet(o) : f.acts[x].out <=> x \notin members
    BY <2>3, <2>4
  <2>7. Stored' /\ Onwards /\ frev' = frev + 1 /\ fno' = fno /\ fight'.order = o
        /\ fight' # NoFight
    BY <1>1, <1>3, <2>1, <2>3, <2>4, <2>5, <2>6, PersistKeeps DEF TableInv
  <2>8. AskedKnown' /\ HeldFollows'
    BY <1>1, <2>1, <2>7, CallsAged DEF TableInv, Stored
  <2> QED BY <2>7, <2>8 DEF TableInv
<1> QED BY <1>2, <1>3 DEF Seat

-----------------------------------------------------------------------------
(* Opening an encounter.                                                    *)
LEMMA OpenSteps ==
  ASSUME TableInv, NEW authored \in BOOLEAN, NEW under, under = "active" <=> authored,
         Open(authored, under)
  PROVE  TableInv' /\ Onwards
<1>1. /\ ~fight.active /\ frev' = 0 /\ fno' = fno + 1 /\ roomed' = roomed /\ present' = present
      /\ asked' = asked /\ held' = held
  BY DEF Open, party, calls
<1>2. PICK order \in Orders, post \in Posts, seed \in Seeds :
         LET bound == present \cup Npcs
             actor(x) == Entering(IF x \in Heroes THEN sheet[x] ELSE Unhurt, post[x])
             st == Opening([x \in bound |-> actor(x)], order, authored, seed)
         IN  ToSet(order) = bound /\ st.ok /\ Commit(st.f, 0, under)
  BY DEF Open
<1>3. PICK acts : acts = [x \in present \cup Npcs |->
            Entering(IF x \in Heroes THEN sheet[x] ELSE Unhurt, post[x])]
  OBVIOUS
<1>4. PICK st : st = Opening(acts, order, authored, seed)
  OBVIOUS
<1>5. ToSet(order) = present \cup Npcs /\ Commit(st.f, 0, under)
  BY <1>2, <1>3, <1>4
<1>6. Root \in present /\ present \subseteq Heroes /\ sheet \in [Heroes -> Sheet] /\ clock \in Nat
  BY DEF TableInv, Stored
<1>7. order \in Turns
  <2>1. order \in Seq(Combatants)
    BY EncountersAssumption
  <2>2. Root \in ToSet(order)
    BY <1>5, <1>6
  <2>3. ToSet(<<>>) = {}
    BY DEF ToSet
  <2>4. order # <<>>
    BY <2>2, <2>3
  <2> QED BY <2>1, <2>4 DEF Turns
<1>8. ASSUME NEW x \in ToSet(order)
      PROVE  /\ acts[x] \in Actor /\ ~acts[x].out
             /\ x \in Heroes => (acts[x].dead <=> sheet[x].dead)
  <2>1. x \in Combatants /\ post \in [Combatants -> Cells] /\ Cells \subseteq Int
    <3>1. x \in Combatants
      BY <1>5, <1>6 DEF Combatants
    <3> QED BY <3>1, EncountersAssumption, RulesAssumption
  <2>2. PICK cell \in Int : cell = post[x]
    BY <2>1
  <2>3. PICK s : s = IF x \in Heroes THEN sheet[x] ELSE Unhurt
    OBVIOUS
  <2>4. s \in Sheet \/ s = Unhurt
    BY <1>6, <2>3
  <2>5. acts[x] = Entering(s, cell)
    BY <1>3, <1>5, <2>2, <2>3
  <2> QED BY <2>3, <2>4, <2>5, Enters
<1>9. acts \in [ToSet(order) -> Actor]
  BY <1>3, <1>5, <1>8
<1>10. /\ st.f \in Fights(order) /\ Waits(st.f) /\ (st.f.authored <=> authored)
       /\ \A x \in ToSet(order) : Fate(acts[x], st.f.acts[x])
  BY <1>4, <1>7, <1>9, Opens
<1>11. PICK f \in Fights(order) : f = st.f
  BY <1>10
<1>12. Pending(f)
  BY <1>10, <1>11 DEF Waits, Pending
<1>13. \A x \in ToSet(order) : f.acts[x].out = acts[x].out
  BY <1>10, <1>11 DEF Fate
<1>14. FollowsSheets(order, f)
  <2>1. \A x \in Heroes \cap ToSet(order) : sheet[x].dead => f.acts[x].dead
    BY <1>8, <1>10, <1>11 DEF Fate
  <2> QED BY <1>8, <1>13, <2>1 DEF FollowsSheets
<1>15. under = "active" <=> f.authored
  BY <1>10, <1>11
<1>16. PICK rounds \in Nat : rounds = 0
  OBVIOUS
<1>17. Commit(f, rounds, under)
  BY <1>5, <1>11, <1>16
<1>18. /\ fight' \in Fights(order) /\ Waits(fight')
       /\ sheet' \in [Heroes -> Sheet]
       /\ \A x \in Heroes : sheet[x].dead => sheet'[x].dead
       /\ \A x \in ToSet(order) : fight'.acts[x].out = f.acts[x].out
       /\ SheetsFollowCombat' /\ DefenseHasItsFight'
       /\ clock' \in Nat /\ clock' >= clock
  BY <1>6, <1>7, <1>12, <1>14, <1>15, <1>17, Commits
<1>19. AtTheTable(present)'
  <2>1. DOMAIN fight'.acts = ToSet(order)
    BY <1>7, <1>18, OnTurn
  <2>2. ASSUME NEW h \in Heroes \cap DOMAIN fight'.acts
        PROVE  fight'.acts[h].out <=> h \notin present
    <3>1. h \in ToSet(order) /\ h \in present
      BY <1>5, <2>1, RulesAssumption
    <3> QED BY <1>8, <1>13, <1>18, <3>1
  <2> QED BY <1>1, <2>2 DEF AtTheTable
<1>20. FightWaits'
  BY <1>5, <1>6, <1>7, <1>18 DEF FightWaits
<1>21. frev' \in Nat /\ fno' \in Nat /\ roomed' \in BOOLEAN
  BY <1>1 DEF TableInv, Stored
<1>22. Stored'
  BY <1>1, <1>6, <1>18, <1>19, <1>20, <1>21 DEF Stored
<1>23. Onwards
  BY <1>1, <1>18 DEF Onwards
<1>24. AskedKnown' /\ HeldFollows'
  BY <1>1, CallsAged DEF TableInv, Stored
<1> QED BY <1>22, <1>23, <1>24 DEF TableInv

(* A fight starts, of its own or as part of the adventure.                 *)
LEMMA StartSteps ==
  ASSUME TableInv, StartCombat \/ StartDefense
  PROVE  TableInv' /\ Onwards
<1>1. CASE StartCombat
  <2>1. PICK authored \in BOOLEAN : authored = FALSE
    OBVIOUS
  <2>2. PICK under : under = defense
    OBVIOUS
  <2>3. Open(authored, under)
    BY <1>1, <2>1, <2>2 DEF StartCombat
  <2>4. ~fight.active
    BY <2>3 DEF Open
  <2>5. under # "active"
    BY <2>2, <2>4 DEF TableInv, Stored, DefenseHasItsFight
  <2> QED BY <2>1, <2>3, <2>5, OpenSteps
<1>2. CASE StartDefense
  <2>1. PICK authored \in BOOLEAN : authored = TRUE
    OBVIOUS
  <2>2. PICK under : under = "active"
    OBVIOUS
  <2>3. Open(authored, under)
    BY <1>2, <2>1, <2>2 DEF StartDefense
  <2> QED BY <2>1, <2>2, <2>3, OpenSteps
<1> QED BY <1>1, <1>2

-----------------------------------------------------------------------------
(* The steps outside of combat, and the theorems.                          *)

(* Outside of combat the heroes' sheets change, and no fight.               *)
LEMMA CalmSteps ==
  ASSUME TableInv, Calm, defense' = defense, NEW sheets \in [Heroes -> Sheet],
         \A x \in Heroes : sheet[x].dead => sheets[x].dead,
         NEW now \in Nat, now >= clock, Elapse(sheets, now)
  PROVE  TableInv' /\ Onwards
<1>1. /\ ~fight.active /\ roomed' = roomed /\ present' = present /\ fight' = fight
      /\ frev' = frev /\ fno' = fno /\ asked' = asked /\ held' = held
  BY DEF Calm, party, calls
<1>2. /\ sheet' \in [Heroes -> Sheet] /\ clock' = now
      /\ \A h \in Heroes : sheets[h].dead => sheet'[h].dead
  BY Elapses DEF TableInv, Stored
<1>3. Stored'
  BY <1>1, <1>2
     DEF TableInv, Stored, FightWaits, SheetsFollowCombat, DefenseHasItsFight, AtTheTable
<1>4. Onwards
  BY <1>1, <1>2 DEF Onwards
<1>5. AskedKnown' /\ HeldFollows'
  BY <1>1, CallsKept DEF TableInv
<1> QED BY <1>3, <1>4, <1>5 DEF TableInv

(* The heroes take a way of the adventure.                                 *)
LEMMA AdventureSteps ==
  ASSUME TableInv, NEW h, NEW to, AdventureAction(h, to)
  PROVE  TableInv' /\ Onwards
<1>1. Calm /\ defense' = defense /\ Elapse(sheet, clock + Scene)
  BY DEF AdventureAction
<1>2. PICK sheets \in [Heroes -> Sheet] : sheets = sheet
  BY DEF TableInv, Stored
<1>3. clock \in Nat /\ Scene \in Nat
  BY EncountersAssumption DEF TableInv, Stored
<1>4. PICK now \in Nat : now = clock + Scene /\ now >= clock
  BY <1>3
<1> QED BY <1>1, <1>2, <1>4, CalmSteps

(* A dying hero rolls a death save outside of combat.                      *)
LEMMA RollSteps ==
  ASSUME TableInv, NEW h, RollDeathSave(h)
  PROVE  TableInv' /\ Onwards
<1>1. Calm /\ defense' = defense /\ Elapse(sheet, clock + 1)
  BY DEF RollDeathSave
<1>2. PICK sheets \in [Heroes -> Sheet] : sheets = sheet
  BY DEF TableInv, Stored
<1>3. clock \in Nat
  BY DEF TableInv, Stored
<1>4. PICK now \in Nat : now = clock + 1 /\ now >= clock
  BY <1>3
<1> QED BY <1>1, <1>2, <1>4, CalmSteps

(* resolve_rest.                                                            *)
LEMMA RestedSheet ==
  ASSUME NEW s \in Sheet, s.hp > 0, NEW kind \in Rests, NEW now \in Nat
  PROVE  Rested(s, kind, now) \in Sheet
<1>1. PICK t : t = Rested(s, kind, now)
  OBVIOUS
<1>2. /\ s \in Sheets /\ Readable(s) /\ s.hp \in 0..MaxHp /\ s.dice \in Int /\ MaxHp \in Nat \ {0}
      /\ s.timer # NoTimer => s.stable
  BY RulesAssumption DEF Sheet, Worn, Sheets
<1>3. CASE kind = "long"
  <2>1. MaxHp \in 0..MaxHp /\ 1 \in Int /\ now \in Int
    BY <1>2
  <2>2. PICK t1 \in Sheets : t1 = [s EXCEPT !.hp = MaxHp]
    BY <1>2, <2>1, SheetUpdates, Zenon
  <2>3. PICK t2 \in Sheets : t2 = [t1 EXCEPT !.dice = 1]
    BY <2>1, SheetSpends, Zenon
  <2>4. PICK t3 \in Sheets : t3 = [t2 EXCEPT !.slots = 1]
    BY <2>1, SheetSpends, Zenon
  <2>5. PICK t4 \in Sheets : t4 = [t3 EXCEPT !.rested = now]
    BY <2>1, SheetSpends, Zenon
  <2>6. t = [s EXCEPT !.hp = MaxHp, !.dice = 1, !.slots = 1, !.rested = now]
    BY <1>1, <1>3 DEF Rested
  <2>7. t = t4
    BY <2>2, <2>3, <2>4, <2>5, <2>6
  <2>8. /\ t.hp = MaxHp /\ t.dead = s.dead /\ t.succs = s.succs /\ t.fails = s.fails
        /\ t.stable = s.stable /\ t.timer = s.timer
    BY <1>2, <2>6 DEF Sheets
  <2>9. Readable(t) /\ ~Asleep(t) /\ t.timer = NoTimer
    BY <1>2, <2>8 DEF Readable, Asleep
  <2> QED BY <1>1, <2>7, <2>9 DEF Sheet, Worn
<1>4. CASE kind = "dice"
  <2>1. PICK v \in 1..MaxHp : v = IF s.hp < MaxHp THEN s.hp + 1 ELSE s.hp
    BY <1>2
  <2>2. PICK d \in Int : d = s.dice - 1
    BY <1>2
  <2>3. t = [s EXCEPT !.hp = v, !.dice = d]
    BY <1>1, <1>4, <2>1, <2>2 DEF Rested
  <2>4. v \in 0..MaxHp
    BY <1>2
  <2>5. PICK t1 \in Sheets : t1 = [s EXCEPT !.hp = v]
    BY <1>2, <2>4, SheetUpdates, Zenon
  <2>6. PICK t2 \in Sheets : t2 = [t1 EXCEPT !.dice = d]
    BY SheetSpends, Zenon
  <2>7. t = t2
    BY <2>3, <2>5, <2>6
  <2>8. /\ t.hp = v /\ t.dead = s.dead /\ t.succs = s.succs /\ t.fails = s.fails
        /\ t.stable = s.stable /\ t.timer = s.timer
    BY <1>2, <2>3 DEF Sheets
  <2>9. Readable(t) /\ ~Asleep(t) /\ t.timer = NoTimer
    BY <1>2, <2>1, <2>8 DEF Readable, Asleep
  <2> QED BY <1>1, <2>7, <2>9 DEF Sheet, Worn
<1>5. CASE kind \notin {"long", "dice"}
  BY <1>1, <1>5 DEF Rested
<1> QED BY <1>3, <1>4, <1>5

(* The party rests.                                                        *)
LEMMA RestSteps ==
  ASSUME TableInv, NEW h \in Heroes, NEW kind \in Rests, Rest(h, kind)
  PROVE  TableInv' /\ Onwards
<1>1. Calm /\ defense' = defense
  BY DEF Rest
<1>2. clock \in Nat /\ sheet \in [Heroes -> Sheet] /\ Lasts(kind) \in Nat
  BY EncountersAssumption DEF TableInv, Stored, Lasts
<1>3. PICK now : now = clock + Lasts(kind)
  OBVIOUS
<1>4. now \in Nat /\ now >= clock
  BY <1>2, <1>3
<1>5. PICK who : who = Resters(h, kind)
  OBVIOUS
<1>6. PICK sheets : sheets = [x \in Heroes |-> IF x \in who THEN Rested(sheet[x], kind, now)
                                               ELSE sheet[x]]
  OBVIOUS
<1>7. (\A x \in who : MayRest(sheet[x], kind)) /\ Elapse(sheets, now)
  BY <1>3, <1>5, <1>6 DEF Rest
<1>8. ASSUME NEW x \in Heroes
      PROVE  sheets[x] \in Sheet /\ (sheet[x].dead => sheets[x].dead)
  <2>1. PICK s \in Sheet : s = sheet[x]
    BY <1>2
  <2>2. CASE x \in who
    <3>1. s.hp > 0
      BY <1>7, <2>1, <2>2 DEF MayRest
    <3>2. ~s.dead
      BY <3>1 DEF Sheet, Worn, Readable
    <3>3. sheets[x] = Rested(s, kind, now)
      BY <1>6, <2>1, <2>2
    <3> QED BY <1>4, <2>1, <3>1, <3>2, <3>3, RestedSheet
  <2>3. CASE x \notin who
    BY <1>6, <2>1, <2>3
  <2> QED BY <2>2, <2>3
<1>9. sheets \in [Heroes -> Sheet]
  BY <1>6, <1>8
<1> QED BY <1>1, <1>4, <1>7, <1>8, <1>9, CalmSteps

(* First aid makes the dying stable.                                        *)
Helped(s, until) == [NoSaves(s) EXCEPT !.stable = TRUE, !.timer = until]

(* First aid makes the dying stable, with a wake time.                     *)
LEMMA HelpedSheet ==
  ASSUME NEW s \in Sheet, Dying(s), NEW until \in Nat \ {0}
  PROVE  Helped(s, until) \in Sheet
<1>1. s \in Sheets /\ s.hp = 0 /\ ~s.dead
  BY DEF Sheet, Worn, Dying
<1>2. PICK u : u = NoSaves(s)
  OBVIOUS
<1>3. u \in Sheets /\ u.succs = 0 /\ u.fails = 0 /\ u.hp = 0 /\ ~u.dead
  BY <1>1, <1>2, SheetNoSaves
<1>4. PICK e \in Sheets : e = [u EXCEPT !.stable = TRUE]
  BY <1>3, SheetUpdates
<1>5. e.succs = 0 /\ e.fails = 0 /\ e.hp = 0 /\ ~e.dead /\ e.stable
  BY <1>3, <1>4 DEF Sheets
<1>6. e \in Worn /\ Asleep(e)
  BY <1>5 DEF Worn, Readable, Asleep
<1>7. Helped(s, until) = Timed(e, until)
  BY <1>2, <1>4 DEF Helped, Timed
<1>8. until \in Nat /\ until # NoTimer
  BY DEF NoTimer
<1> QED BY <1>6, <1>7, <1>8, TimedSheet

(* A hero gives first aid to another.                                      *)
LEMMA AidSteps ==
  ASSUME TableInv, NEW h \in Heroes, NEW t \in Heroes, Aid(h, t)
  PROVE  TableInv' /\ Onwards
<1>1. Calm /\ defense' = defense
  BY DEF Aid
<1>2. clock \in Nat /\ sheet \in [Heroes -> Sheet]
  BY DEF TableInv, Stored
<1>3. PICK helped \in BOOLEAN, nap \in Naps :
          Elapse(IF helped /\ Dying(sheet[t])
                 THEN [sheet EXCEPT ![t] = [NoSaves(sheet[t]) EXCEPT !.stable = TRUE,
                                              !.timer = clock + 1 + nap * Hour]]
                 ELSE sheet, clock + 1)
  BY DEF Aid
<1>4. PICK until \in Nat \ {0} : until = clock + 1 + nap * Hour
  <2>1. PICK long \in Nat \ {0} : long = nap * Hour
    BY NapsLast
  <2>2. clock + 1 + long \in Nat \ {0}
    BY <1>2
  <2> QED BY <2>1, <2>2
<1>5. PICK now \in Nat : now = clock + 1 /\ now >= clock
  BY <1>2
<1>6. PICK s \in Sheet : s = sheet[t]
  BY <1>2
<1>7. CASE helped /\ Dying(s)
  <2>1. PICK e \in Sheet : e = Helped(s, until)
    BY <1>7, HelpedSheet
  <2>2. PICK sheets \in [Heroes -> Sheet] : sheets = [sheet EXCEPT ![t] = e]
    BY <1>2
  <2>3. Elapse(sheets, now)
    BY <1>3, <1>4, <1>5, <1>6, <1>7, <2>1, <2>2 DEF Helped
  <2>4. \A x \in Heroes : sheet[x].dead => sheets[x].dead
    BY <1>2, <1>6, <1>7, <2>2 DEF Dying
  <2> QED BY <1>1, <1>5, <2>3, <2>4, CalmSteps
<1>8. CASE ~(helped /\ Dying(s))
  <2>1. PICK sheets \in [Heroes -> Sheet] : sheets = sheet
    BY <1>2
  <2>2. Elapse(sheets, now)
    BY <1>3, <1>5, <1>6, <1>8, <2>1
  <2> QED BY <1>1, <1>5, <2>1, <2>2, CalmSteps
<1> QED BY <1>7, <1>8

(* A hero waits for another to wake.                                       *)
LEMMA WaitSteps ==
  ASSUME TableInv, NEW h \in Heroes, NEW t \in Heroes, Wait(h, t)
  PROVE  TableInv' /\ Onwards
<1>1. Calm /\ defense' = defense /\ Asleep(sheet[t])
  BY DEF Wait
<1>2. clock \in Nat /\ sheet \in [Heroes -> Sheet]
  BY DEF TableInv, Stored
<1>3. PICK s \in Sheet : s = sheet[t]
  BY <1>2
<1>4. s \in Worn /\ s.timer \in Nat
  BY DEF Sheet, Worn, Sheets
<1>5. PICK nap \in Naps :
          LET timer == IF sheet[t].timer = NoTimer THEN clock + nap * Hour ELSE sheet[t].timer
          IN  Elapse([sheet EXCEPT ![t].timer = timer], IF timer > clock THEN timer ELSE clock)
  BY DEF Wait
<1>6. PICK timer \in Nat \ {0} : timer = IF s.timer = NoTimer THEN clock + nap * Hour ELSE s.timer
  <2>1. PICK long \in Nat \ {0} : long = nap * Hour
    BY NapsLast
  <2>2. clock + long \in Nat \ {0}
    BY <1>2
  <2> QED BY <1>4, <2>1, <2>2 DEF NoTimer
<1>7. PICK now : now = IF timer > clock THEN timer ELSE clock
  OBVIOUS
<1>8. now \in Nat /\ now >= clock
  BY <1>2, <1>7
<1>9. PICK e : e = Timed(s, timer)
  OBVIOUS
<1>10. e \in Sheet /\ e.dead = s.dead
  BY <1>1, <1>3, <1>4, <1>9, TimedSheet DEF NoTimer
<1>11. PICK sheets \in [Heroes -> Sheet] : sheets = [sheet EXCEPT ![t] = e]
  BY <1>2, <1>10
<1>12. Elapse(sheets, now)
  BY <1>3, <1>5, <1>6, <1>7, <1>9, <1>11 DEF Timed
<1>13. \A x \in Heroes : sheet[x].dead => sheets[x].dead
  BY <1>2, <1>3, <1>10, <1>11
<1> QED BY <1>1, <1>8, <1>12, <1>13, CalmSteps

-----------------------------------------------------------------------------
(* A new campaign's table.                                                 *)
LEMMA TableInit ==
  ASSUME Init
  PROVE  TableInv
<1>1. MaxHp \in Nat \ {0} /\ Root \in Heroes
  BY RulesAssumption, EncountersAssumption
<1>2. PICK s : s = [hp |-> MaxHp, dead |-> FALSE, succs |-> 0, fails |-> 0,
                    stable |-> FALSE, arrows |-> 1, slots |-> 1,
                    dice |-> 1, timer |-> NoTimer, rested |-> NoRest]
  OBVIOUS
<1>3. s \in Sheet
  <2>1. MaxHp \in 0..MaxHp /\ 0 \in 0..2 /\ 0 \in 0..3 /\ 1 \in Int /\ NoTimer \in Nat /\ NoRest \in Int
    BY <1>1 DEF NoTimer, NoRest
  <2>2. s \in Sheets
    BY <1>2, <2>1 DEF Sheets
  <2>3. s.hp = MaxHp /\ s.dead = FALSE /\ s.succs = 0 /\ s.fails = 0 /\ s.stable = FALSE
        /\ s.timer = NoTimer
    BY <1>2
  <2>4. Readable(s) /\ ~Asleep(s)
    BY <1>1, <2>3 DEF Readable, Asleep
  <2> QED BY <2>2, <2>3, <2>4 DEF Sheet, Worn
<1>4. sheet \in [Heroes -> Sheet]
  BY <1>2, <1>3 DEF Init
<1>5. fight = NoFight /\ fight.active = FALSE /\ fight.authored = FALSE
  BY DEF Init, NoFight
<1>6. Stored
  BY <1>1, <1>4, <1>5
     DEF Init, Stored, FightWaits, SheetsFollowCombat, DefenseHasItsFight, AtTheTable
<1>7. AskedKnown /\ HeldFollows
  BY DEF Init, AskedKnown, HeldFollows
<1> QED BY <1>6, <1>7 DEF TableInv

(* Every step of the table keeps the invariant and goes onwards.           *)
LEMMA TableNext ==
  ASSUME TableInv, Next
  PROVE  TableInv' /\ Onwards
<1>1. CASE StartCombat \/ StartDefense
  BY <1>1, StartSteps
<1>2. CASE End
  BY <1>2, EndSteps
<1>3. CASE \E r \in Requests : \/ Ask(r) \/ Replay(r) \/ RoomAct(r) \/ Forget(r)
                               \/ \E c \in Callers : SoloCompute(c, r)
  BY <1>3, AskSteps, ReplaySteps, RoomActSteps, ForgetSteps, ComputeSteps
<1>4. CASE \E c \in Callers : SoloCommit(c)
  BY <1>4, SoloCommitSteps
<1>5. Root \in present /\ present \subseteq Heroes /\ Root \in Heroes
  BY EncountersAssumption DEF TableInv, Stored
<1>6. CASE OpenRoom \/ CloseRoom
  <2>1. PICK members \in SUBSET Heroes : members = {Root}
    BY <1>5
  <2>2. PICK room \in BOOLEAN : Seat(room, members)
    BY <1>6, <2>1 DEF OpenRoom, CloseRoom
  <2> QED BY <2>1, <2>2, SeatSteps
<1>7. ASSUME NEW h \in Heroes, Return(h) \/ Leave(h) PROVE TableInv' /\ Onwards
  <2>1. PICK members \in SUBSET Heroes :
            /\ members = present \cup {h} \/ (members = present \ {h} /\ h # Root)
            /\ Seat(TRUE, members)
    BY <1>5, <1>7 DEF Return, Leave
  <2>2. Root \in members
    BY <1>5, <2>1
  <2>3. PICK room \in BOOLEAN : room = TRUE
    OBVIOUS
  <2> QED BY <2>1, <2>2, <2>3, SeatSteps
<1>8. ASSUME NEW h \in Heroes,
             \/ RollDeathSave(h)
             \/ \E to \in {"town", "away"} : AdventureAction(h, to)
             \/ \E kind \in Rests : Rest(h, kind)
             \/ \E t \in Heroes : Aid(h, t) \/ Wait(h, t)
      PROVE  TableInv' /\ Onwards
  BY <1>8, RollSteps, AdventureSteps, RestSteps, AidSteps, WaitSteps
<1> QED BY <1>1, <1>2, <1>3, <1>4, <1>6, <1>7, <1>8 DEF Next

(* So does a step in which nothing happens at the table.                   *)
LEMMA TableStutters ==
  ASSUME TableInv, UNCHANGED vars
  PROVE  TableInv'
<1>1. UNCHANGED <<party, sheet, clock, place, defense, fight, frev, fno, asked, held>>
  BY DEF vars, calls
<1>2. Stored'
  BY <1>1, StoredKept DEF TableInv
<1>3. AskedKnown' /\ HeldFollows'
  BY <1>1, CallsKept DEF TableInv
<1> QED BY <1>2, <1>3 DEF TableInv

(* The inductive invariant holds at every moment of every campaign, for    *)
(* every set of heroes, opponents, requests and callers, and every length  *)
(* of fight.                                                               *)
THEOREM TableHolds == Spec => []TableInv
<1>1. Init => TableInv
  BY TableInit
<1>2. TableInv /\ [Next]_vars => TableInv'
  BY TableNext, TableStutters
<1> QED BY <1>1, <1>2, PTL DEF Spec

(* A hero's wounds are one story.                                           *)
THEOREM WoundsAreOne == Spec => []WoundsAgree
<1>1. TableInv => WoundsAgree
  <2> SUFFICES ASSUME TableInv PROVE WoundsAgree
    OBVIOUS
  <2>1. ASSUME NEW h \in Heroes
        PROVE  LET s == sheet[h] IN
               /\ s.hp \in 0..MaxHp /\ s.succs \in 0..2 /\ s.fails \in 0..3
               /\ s.fails = 3 => s.dead
               /\ s.dead => s.hp = 0 /\ ~s.stable
               /\ s.stable => s.hp = 0 /\ s.succs = 0 /\ s.fails = 0
               /\ s.hp > 0 => s.succs = 0 /\ s.fails = 0
               /\ s.timer # NoTimer => s.stable
               /\ Asleep(s) => s.timer # NoTimer
    <3>1. PICK s \in Sheet : s = sheet[h]
      BY DEF TableInv, Stored
    <3>2. s \in Sheets /\ Readable(s)
      BY DEF Sheet, Worn
    <3>3. s.hp \in 0..MaxHp /\ s.succs \in 0..2 /\ s.fails \in 0..3
      BY <3>2 DEF Sheets
    <3>4. (s.timer # NoTimer => s.stable) /\ (Asleep(s) => s.timer # NoTimer)
      BY DEF Sheet
    <3> QED BY <3>1, <3>2, <3>3, <3>4 DEF Readable
  <2> QED BY <2>1 DEF TableInv, Stored, WoundsAgree, VitalityReadable
<1> QED BY <1>1, TableHolds, PTL

(* An open encounter waits for a hero who can end its turn, and the         *)
(* adventure knows of it.                                                   *)
THEOREM TheFightGoesOn == Spec => []FightGoesOn
<1>1. TableInv => FightGoesOn
  <2> SUFFICES ASSUME TableInv PROVE FightGoesOn
    OBVIOUS
  <2>1. ASSUME fight.active
        PROVE  /\ Current(fight) \in Heroes \cap present
               /\ Standing(fight.acts[Current(fight)]) /\ AnyFoe(fight)
               /\ \A seed \in Seeds :
                     Prepare(fight, [kind |-> "end", by |-> Current(fight), on |-> Root,
                                     to |-> 0], seed).ok
    <3>1. PICK o \in Turns : o = fight.order /\ fight \in Fights(o) /\ Waits(fight) /\ Root \in ToSet(o)
      BY <2>1, ActiveIsOpen, OpenFight DEF TableInv
    <3>2. Current(fight) \in Heroes /\ Standing(fight.acts[Current(fight)]) /\ AnyFoe(fight)
      BY <2>1, <3>1 DEF Waits
    <3>3. Current(fight) \in ToSet(o) /\ DOMAIN fight.acts = ToSet(o)
      BY <3>1, OnTurn
    <3>4. ~fight.acts[Current(fight)].out
      BY <3>2 DEF Standing
    <3>5. Current(fight) \in present
      BY <2>1, <3>2, <3>3, <3>4 DEF TableInv, Stored, AtTheTable
    <3>6. PICK c : c = [kind |-> "end", by |-> Current(fight), on |-> Root, to |-> 0]
      OBVIOUS
    <3>7. c.kind = "end" /\ c.by = Current(fight) /\ c.on = Root /\ c.to = 0
      BY <3>6
    <3>8. Given(o, c)
      BY <3>1, <3>2, <3>3, <3>7 DEF Given, Kinds
    <3>9. Allowed(fight, c)
      BY <3>4, <3>7 DEF Allowed
    <3>10. PICK f \in Fights(o) : f = fight
      BY <3>1
    <3>11. ASSUME NEW seed \in Seeds PROVE Prepare(fight, c, seed).ok
      <4>1. Prepare(f, c, seed).ok
        BY <2>1, <3>1, <3>8, <3>9, <3>10, Prepares
      <4> QED BY <3>10, <4>1
    <3> QED BY <3>2, <3>5, <3>6, <3>11
  <2>2. HeroToAct
    BY <2>1 DEF HeroToAct
  <2> QED BY <2>2 DEF TableInv, Stored, FightGoesOn
<1> QED BY <1>1, TableHolds, PTL

(* Death is final and time goes on.                                         *)
THEOREM DeathIsFinal == Spec => TimeAndDeath
<1>1. TableInv /\ Next => Onwards
  BY TableNext
<1>2. TableInv /\ [Next]_vars
      => [/\ \A h \in Heroes : sheet[h].dead => sheet'[h].dead
          /\ clock' >= clock
          /\ fight.active /\ fight'.active => clock' - clock = fight'.round - fight.round]_vars
  BY <1>1 DEF Onwards
<1> QED BY <1>2, TableHolds, PTL DEF Spec, TimeAndDeath
=============================================================================

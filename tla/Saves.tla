-------------------------------- MODULE Saves --------------------------------
(***************************************************************************)
(* One campaign, its saves and the requests of its clients.  A client      *)
(* reads a revision and writes a letter that expects it; the letter may be *)
(* delivered late, more than once or never.  Every delivery is one         *)
(* immediate transaction: the receipt of its causation is asked first,     *)
(* then the expected revision.  A restore puts the whole projection of a   *)
(* save back and starts a new generation of the session.                   *)
(*                                                                         *)
(* A sheet is named by the letter that wrote it, the body of a fight is    *)
(* the set of actions in it, and everything else a snapshot captures       *)
(* (messages, scene, map, journal, npcs, adventure, clock) is the tale.    *)
(***************************************************************************)
EXTENDS Naturals, Sequences, FiniteSets, SequencesExt

CONSTANTS
    MaxLetters,         \* bound of the model: requests of the clients
    Fights, Guests,
    MaxTale, MaxRevision     \* bounds of the model

ASSUME SavesAssumption ==
    MaxLetters \in Nat /\ MaxTale \in Nat /\ MaxRevision \in Nat /\ "host" \notin Guests

(* A letter is numbered as it is written; it names the save it creates.    *)
Letters == 1..MaxLetters

VARIABLES
    camp,               \* revision, restore_generation, tale, sheets
    fights,             \* combat_encounters
    letter,             \* what each letter asks and what its writer had read
    recorded,           \* letters whose receipt is stored
    saves,              \* saves with their snapshots
    effects             \* generations in which a letter had its effect (history)

saveVars == <<camp, fights, letter, recorded, saves, effects>>

NoSave == [rev |-> 0, tale |-> 0, sheets |-> <<>>, fight |-> <<>>]
Blank == [ask |-> "nothing", about |-> "none", exp |-> 0, gen |-> 0]
NoRow == [st |-> "none", rev |-> 0, body |-> {}, scoped |-> FALSE]

SavesInit ==
    /\ camp = [rev |-> 0, gen |-> 0, tale |-> 0, sheets |-> <<>>]
    /\ fights = [f \in Fights |-> NoRow]
    /\ letter = [r \in Letters |-> Blank]
    /\ recorded = {} /\ saves = [r \in Letters |-> NoSave]
    /\ effects = [r \in Letters |-> <<>>]

-----------------------------------------------------------------------------
OpenFights == {f \in Fights : fights[f].st = "open"}
InScopedCombat == \E f \in OpenFights : fights[f].scoped
Enrolled == DOMAIN camp.sheets
GuestsOf(sheets) == DOMAIN sheets \ {"host"}
With(sheets, m, sheet) == [k \in DOMAIN sheets \cup {m} |-> IF k = m THEN sheet ELSE sheets[k]]

(* A client writes down what it wants and the revision it looks at.        *)
Compose(r, ask, about) ==
    /\ letter[r] = Blank /\ \A l \in 1..(r - 1) : letter[l] # Blank
    /\ letter' = [letter EXCEPT ![r] =
           [ask |-> ask, about |-> about, gen |-> camp.gen,
            exp |-> IF ask = "act" THEN fights[about].rev ELSE camp.rev]]
    /\ UNCHANGED <<camp, fights, recorded, saves, effects>>

Written(r) ==
    \/ \E ask \in {"commit", "create"} : Compose(r, ask, "none")
    \/ \E g \in Guests : Compose(r, "enroll", g)
    \/ \E f \in OpenFights : Compose(r, "act", f)
    \/ \E s \in {l \in Letters : saves[l] # NoSave} : Compose(r, "restore", s)

(* The transaction of a letter: no receipt yet, the revision it expects.   *)
CurrentRevision(r) == IF letter[r].ask = "act" THEN fights[letter[r].about].rev ELSE camp.rev
Due(r, ask) ==
    /\ letter[r].ask = ask /\ r \notin recorded /\ letter[r].exp = CurrentRevision(r)
    /\ effects' = [effects EXCEPT ![r] = Append(@, camp.gen)]
    /\ UNCHANGED letter

-----------------------------------------------------------------------------
(* commit_character: never while a bound combat runs.                      *)
CommitCharacter(r) ==
    /\ Due(r, "commit") /\ ~InScopedCombat
    /\ camp' = [camp EXCEPT !.sheets = With(@, "host", r), !.rev = @ + 1]
    /\ recorded' = recorded \cup {r} /\ UNCHANGED <<fights, saves>>

(* enroll_in_transaction: the party has a host, nobody fights.             *)
Enroll(r) ==
    /\ Due(r, "enroll") /\ OpenFights = {} /\ "host" \in Enrolled
    /\ letter[r].about \notin Enrolled
    /\ camp' = [camp EXCEPT !.sheets = With(@, letter[r].about, r), !.rev = @ + 1]
    /\ recorded' = recorded \cup {r} /\ UNCHANGED <<fights, saves>>

(* create_in_transaction; heroes bind a fight to the campaign's revision.  *)
StartFight(f, scoped) ==
    /\ fights[f].st = "none" /\ OpenFights = {} /\ (scoped => "host" \in Enrolled)
    /\ camp.rev < MaxRevision
    /\ fights' = [fights EXCEPT ![f] = [NoRow EXCEPT !.st = "open", !.scoped = scoped]]
    /\ camp' = [camp EXCEPT !.rev = IF scoped THEN @ + 1 ELSE @]
    /\ UNCHANGED <<letter, recorded, saves, effects>>

(* commit_action: the projection was computed from the revision read.      *)
ActInFight(r, ends) ==
    LET f == letter[r].about IN
    /\ Due(r, "act") /\ fights[f].st = "open"
    /\ fights' = [fights EXCEPT ![f].rev = @ + 1, ![f].body = @ \cup {r},
                                ![f].st = IF ends THEN "ended" ELSE @]
    /\ camp' = [camp EXCEPT !.rev = IF fights[f].scoped THEN @ + 1 ELSE @]
    /\ recorded' = recorded \cup {r} /\ UNCHANGED saves

(* Rest, recovery and adventure move the revision; a message, an entry or  *)
(* a scene of the turn at work does not.                                   *)
Play(moves) ==
    /\ camp.tale < MaxTale /\ camp.rev < MaxRevision
    /\ camp' = [camp EXCEPT !.tale = @ + 1, !.rev = IF moves THEN @ + 1 ELSE @]
    /\ UNCHANGED <<fights, letter, recorded, saves, effects>>

-----------------------------------------------------------------------------
(* create_snapshot: the character of the client counts only when the       *)
(* campaign has none, and is then stored with the save.                    *)
CreateSnapshot(r, supplied) ==
    LET sheets == IF "host" \in Enrolled \/ ~supplied THEN camp.sheets
                  ELSE With(camp.sheets, "host", 0)
    IN /\ Due(r, "create") /\ (supplied => "host" \notin Enrolled)
       /\ camp' = [camp EXCEPT !.sheets = sheets, !.rev = @ + 1]
       /\ saves' = [saves EXCEPT ![r] =
              [rev |-> camp.rev + 1, tale |-> camp.tale, sheets |-> sheets,
               fight |-> [f \in OpenFights |-> fights[f]]]]
       /\ recorded' = recorded \cup {r} /\ UNCHANGED fights

(* restore_combat: every encounter of the session is over, its receipts    *)
(* are gone; the one of the snapshot opens again at a fresh revision.      *)
FreshFromSave(now, saved) == saved + 1   \* mutant: the revision of the save decides
Fresh(now, saved) == (IF now > saved THEN now ELSE saved) + 1

Reopened(snap, joined) ==
    [f \in Fights |->
        IF f \in DOMAIN snap.fight
        THEN [snap.fight[f] EXCEPT
                 !.rev = Fresh(fights[f].rev, @) + (IF joined THEN 1 ELSE 0)]
        ELSE IF fights[f].st = "open" THEN [fights[f] EXCEPT !.st = "ended"]
        ELSE fights[f]]

(* restore_snapshot; party::restore_snapshot demands the roster of the     *)
(* save.  reconcile_membership moves a bound fight once more when the      *)
(* members of the room are not the ones of the save.                       *)
RestoreSnapshot(r, joined) ==
    LET snap == saves[letter[r].about] IN
    /\ Due(r, "restore") /\ snap # NoSave /\ snap.rev <= camp.rev
    /\ GuestsOf(snap.sheets) = GuestsOf(camp.sheets)
    /\ joined => \E f \in DOMAIN snap.fight : snap.fight[f].scoped
    /\ camp' = [rev |-> camp.rev + (IF joined THEN 2 ELSE 1), gen |-> camp.gen + 1,
                tale |-> snap.tale, sheets |-> snap.sheets]
    /\ fights' = Reopened(snap, joined)
    /\ recorded' = {l \in recorded : letter[l].ask # "act"} \cup {r}
    /\ UNCHANGED saves

(* delete_snapshot; the receipts of its restores go with it.               *)
DeleteSave(s) ==
    /\ saves[s] # NoSave /\ saves' = [saves EXCEPT ![s] = NoSave]
    /\ recorded' = recorded \ ({s} \cup {l \in Letters : letter[l].ask = "restore"
                                                         /\ letter[l].about = s})
    /\ UNCHANGED <<camp, fights, letter, effects>>

SavesNext ==
    \/ \E r \in Letters :
          \/ Written(r) \/ CommitCharacter(r) \/ Enroll(r) \/ DeleteSave(r)
          \/ \E b \in BOOLEAN : ActInFight(r, b) \/ CreateSnapshot(r, b) \/ RestoreSnapshot(r, b)
    \/ \E f \in Fights, scoped \in BOOLEAN : StartFight(f, scoped)
    \/ \E moves \in BOOLEAN : Play(moves)

SavesSpec == SavesInit /\ [][SavesNext]_saveVars

-----------------------------------------------------------------------------
(* A letter has its effect at most once, and only in the generation it was *)
(* written in: nothing asked before a restore is done to the world after   *)
(* it, though the restore takes back receipts and revisions of the fight.  *)
OnceInItsTime ==
    \A r \in Letters : effects[r] \in {<<>>, <<letter[r].gen>>}
=============================================================================

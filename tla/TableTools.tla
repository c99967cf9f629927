------------------------------ MODULE TableTools ------------------------------
(***************************************************************************)
(* The tools a Dungeon Master's turn has for the table itself: tokens,     *)
(* fights, the memory of characters met.  TableTurns of several campaigns run   *)
(* at once, one per campaign (its lane); what they share is the database,  *)
(* where a token is found by its name alone.  The combat screen acts on    *)
(* the same fights and takes no lane to act or to end.                     *)
(*                                                                         *)
(* A fight of a campaign with a durable hero is bound: its projection is   *)
(* the truth and the token rows follow it.  A fight without is a sandbox   *)
(* where the token tools write the rows alone.                             *)
(*                                                                         *)
(* Each campaign has one session, named like it.  Left out: positions,     *)
(* names, conditions and armour of a token, authored encounters, tools     *)
(* that answer without writing (dice, rules, recall, pictures), the scene, *)
(* the journal and the quick save, which only insert a row of their own.   *)
(***************************************************************************)
EXTENDS Naturals, Sequences, FiniteSets

CONSTANTS
    TableCampaigns,
    TableTurns,              \* workers of Dungeon Master turns
    Tokens,             \* names a model gives its tokens, or a screen its foes
    FullHp, MaxBouts    \* bounds of the model

ASSUME TableAssumption == FullHp \in Nat \ {0} /\ MaxBouts \in Nat

VARIABLES
    heroed,             \* campaigns with a durable hero
    bouts,              \* combat_encounters, in the order they began
    rows,               \* combat_tokens, by name
    call                \* the tool each turn is executing

tableVars == <<heroed, bouts, rows, call>>

NoCall == [tool |-> "none", campaign |-> "none", session |-> "none",
           targets |-> <<>>, at |-> "over", seen |-> 0]

TableInit ==
    /\ heroed = {} /\ bouts = <<>> /\ rows = <<>>
    /\ call = [w \in TableTurns |-> NoCall]

-----------------------------------------------------------------------------
(* What the store knows of fights and tokens.                              *)
Bouts == DOMAIN bouts
OpenBouts == {b \in Bouts : bouts[b].open}
OpenIn(session) == {b \in OpenBouts : bouts[b].session = session}
Newest(S) == CHOOSE b \in S : \A other \in S : other <= b

Exists(t) == t \in DOMAIN rows
EnsureUnbound(t) == Exists(t) => ~bouts[rows[t].bout].bound
Set(t, row) == rows' = [k \in DOMAIN rows \cup {t} |-> IF k = t THEN row ELSE rows[k]]

Living(hp) == [hp |-> hp, dead |-> FALSE]

(* persist_projection writes the rows of this fight from its projection.   *)
Follow(b, bodies) ==
    [t \in DOMAIN rows |->
        IF rows[t].bout = b /\ t \in DOMAIN bodies
        THEN [rows[t] EXCEPT !.hp = bodies[t].hp, !.dead = bodies[t].dead]
        ELSE rows[t]]

-----------------------------------------------------------------------------
(* Fights.                                                                 *)
Hero(b) == <<b, "hero">>
Foe(b) == <<b, "foe">>
Struck(b, t, hp) == [hp |-> hp, dead |-> hp = 0 /\ t # Hero(b)]

(* bind_start: a durable hero joins, and its session fights once at a time.*)
Binds(session) == session \in heroed
MayStart(session) == Binds(session) => OpenIn(session) = {}

CreateFight(session, foe) ==
    LET b == Len(bouts) + 1
        cast == {foe} \cup (IF Binds(session) THEN {Hero(b)} ELSE {})
    IN /\ b <= MaxBouts /\ MayStart(session)
       /\ cast \cap DOMAIN rows = {}
       /\ bouts' = Append(bouts, [session |-> session, bound |-> Binds(session), open |-> TRUE,
                                  body |-> [t \in cast |-> Living(FullHp)]])
       /\ rows' = [t \in DOMAIN rows \cup cast |->
                      IF t \in cast THEN [bout |-> b, hp |-> FullHp, dead |-> FALSE]
                      ELSE rows[t]]

EndFight(b) ==
    /\ bouts[b].open
    /\ bouts' = [bouts EXCEPT ![b].open = FALSE]
    /\ rows' = Follow(b, bouts[b].body)

(* A resolved action changes one body; its revision is checked again in    *)
(* the transaction.                                                        *)
ActIn(b, t, hp) ==
    LET bodies == [bouts[b].body EXCEPT ![t] = Struck(b, t, hp)] IN
    /\ bouts[b].open /\ ~bouts[b].body[t].dead
    /\ bouts' = [bouts EXCEPT ![b].body = bodies]
    /\ rows' = Follow(b, bodies)

-----------------------------------------------------------------------------
(* The combat screen, and the character form.                              *)
LaneFree(c) == \A w \in TableTurns : call[w].campaign # c

ScreenStarts(c, foe) ==
    LaneFree(c) /\ CreateFight(c, foe) /\ UNCHANGED <<heroed, call>>
ScreenActs(b, t, hp) == ActIn(b, t, hp) /\ UNCHANGED <<heroed, call>>
ScreenEnds(b) == EndFight(b) /\ UNCHANGED <<heroed, call>>

CommitHero(c) ==
    /\ LaneFree(c) /\ c \notin heroed /\ heroed' = heroed \cup {c}
    /\ UNCHANGED <<bouts, rows, call>>

-----------------------------------------------------------------------------
(* A tool call: decoded, its session checked, dispatched.  A tool of one    *)
(* transaction is one step; the others are taken, and go on by statements. *)
(* "strike" is apply_damage, apply_healing and cast_spell.                 *)
CombatTools == {"strike", "end_combat", "start_combat", "combat_action", "add_token",
                "update_token", "remove_token"}
Decodes(tool, targets) == tool = "strike" <=> targets # <<>>
Owns(c, session) == c = session
MayExecute(tool, c, session) == LaneFree(c) /\ (tool \in CombatTools => Owns(c, session))

Takes(w, c, session, tool, targets) ==
    /\ call[w] = NoCall
    /\ Decodes(tool, targets) /\ MayExecute(tool, c, session)
    /\ call' = [call EXCEPT ![w] = [tool |-> tool, campaign |-> c, session |-> session,
                                    targets |-> targets, at |-> "read", seen |-> 0]]
    /\ UNCHANGED <<heroed, bouts, rows>>

Runs(w, tool, at) == call[w].tool = tool /\ call[w].at = at
Answers(w) == call' = [call EXCEPT ![w] = NoCall]
Saw(w, seen) == call' = [call EXCEPT ![w].at = "write", ![w].seen = seen]
NextTarget(w) ==
    LET rest == Tail(call[w].targets) IN
    call' = [call EXCEPT ![w] = IF rest = <<>> THEN NoCall
                                ELSE [@ EXCEPT !.targets = rest, !.at = "read", !.seen = 0]]

(* apply_damage, apply_healing, cast_spell: each target is read, then      *)
(* written in a transaction of its own; a failure is told and the spell    *)
(* goes on with the next.  A resistance, or a save, takes the damage away. *)
Damaged(hp, effective) == IF hp <= effective THEN 0 ELSE hp - effective
Healed(hp) == IF hp + 1 > FullHp THEN FullHp ELSE hp + 1

ReadTarget(w, effective, heals) ==
    LET t == Head(call[w].targets) IN
    /\ Runs(w, "strike", "read")
    /\ IF Exists(t)
       THEN Saw(w, IF heals THEN Healed(rows[t].hp) ELSE Damaged(rows[t].hp, effective))
       ELSE NextTarget(w)
    /\ UNCHANGED <<heroed, bouts, rows>>

(* set_token_hp.                                                           *)
MaySetHp(t) == EnsureUnbound(t)
WriteTarget(w) ==
    LET t == Head(call[w].targets) IN
    /\ Runs(w, "strike", "write")
    /\ IF MaySetHp(t) THEN Set(t, [rows[t] EXCEPT !.hp = call[w].seen]) ELSE UNCHANGED rows
    /\ NextTarget(w) /\ UNCHANGED <<heroed, bouts>>

-----------------------------------------------------------------------------
StartTool(c, session) ==
    /\ MayExecute("start_combat", c, session) /\ CreateFight(session, Foe(Len(bouts) + 1))
    /\ UNCHANGED <<heroed, call>>

(* end_combat looks its fight up first, and ends it if it still runs.      *)
FightsToEnd(w) == OpenIn(call[w].session)
LookForFight(w) ==
    /\ Runs(w, "end_combat", "read")
    /\ IF FightsToEnd(w) = {} THEN Answers(w) ELSE Saw(w, Newest(FightsToEnd(w)))
    /\ UNCHANGED <<heroed, bouts, rows>>
EndTool(w) ==
    /\ Runs(w, "end_combat", "write") /\ Answers(w)
    /\ EndFight(call[w].seen) \/ (~bouts[call[w].seen].open /\ UNCHANGED <<bouts, rows>>)
    /\ UNCHANGED <<heroed>>

(* combat_action: the intention of the bound hero, in its own fight.       *)
IntentionTool(c, b, t, hp) ==
    /\ MayExecute("combat_action", c, bouts[b].session) /\ bouts[b].bound /\ ActIn(b, t, hp)
    /\ UNCHANGED <<heroed, call>>

(* add_token joins the newest open fight of any session, and replaces a    *)
(* token of that name wherever it was.                                     *)
MayAddAnywhere(t, b) == EnsureUnbound(t)     \* mutant
MayAdd(t, b) == EnsureUnbound(t) /\ ~bouts[b].bound
AddTool(c, t, hp) ==
    /\ MayExecute("add_token", c, c) /\ OpenBouts # {} /\ MayAdd(t, Newest(OpenBouts))
    /\ Set(t, [bout |-> Newest(OpenBouts), hp |-> hp, dead |-> FALSE])
    /\ UNCHANGED <<heroed, bouts, call>>

MayPatch(t) == Exists(t) /\ EnsureUnbound(t)
UpdateTool(c, t, hp) ==
    /\ MayExecute("update_token", c, c) /\ MayPatch(t)
    /\ Set(t, [rows[t] EXCEPT !.hp = hp])
    /\ UNCHANGED <<heroed, bouts, call>>
RemoveTool(c, t) ==
    /\ MayExecute("remove_token", c, c) /\ MayPatch(t)
    /\ Set(t, [rows[t] EXCEPT !.dead = TRUE])
    /\ UNCHANGED <<heroed, bouts, call>>

(* The process ends between two statements of a call.                      *)
Dropped(w) ==
    /\ call[w] # NoCall /\ Answers(w) /\ UNCHANGED <<heroed, bouts, rows>>

-----------------------------------------------------------------------------
Named == Tokens \cup DOMAIN rows
TableNext ==
    \/ \E c \in TableCampaigns :
          \/ CommitHero(c) \/ \E t \in Tokens : ScreenStarts(c, t)
          \/ \E s \in TableCampaigns : StartTool(c, s)
          \/ \E t \in Named : RemoveTool(c, t)
          \/ \E t \in Named, hp \in 0..FullHp :
                (t \in Tokens /\ AddTool(c, t, hp)) \/ UpdateTool(c, t, hp)
    \/ \E b \in Bouts :
          \/ ScreenEnds(b)
          \/ \E t \in DOMAIN bouts[b].body, hp \in 0..FullHp :
                ScreenActs(b, t, hp) \/ \E c \in TableCampaigns : IntentionTool(c, b, t, hp)
    \/ \E w \in TableTurns :
          \/ \E c, s \in TableCampaigns :
                \/ Takes(w, c, s, "end_combat", <<>>)
                \/ \E t \in Named : Takes(w, c, s, "strike", <<t>>)
                \/ \E t, u \in Tokens : Takes(w, c, s, "strike", <<u, t>>)
          \/ LookForFight(w) \/ EndTool(w)
          \/ Dropped(w) \/ WriteTarget(w) \/ \E effective \in 0..1, heals \in BOOLEAN : ReadTarget(w, effective, heals)

TableSpec == TableInit /\ [][TableNext]_tableVars

-----------------------------------------------------------------------------
(* The rows of a bound fight are its projection, whatever tools, screens,  *)
(* starts and ends of the sessions do in between: no token tool reaches    *)
(* them, and no token joins or leaves.                                     *)
BoundTokensFollow ==
    \A b \in Bouts : bouts[b].bound =>
        /\ {t \in DOMAIN rows : rows[t].bout = b} = DOMAIN bouts[b].body
        /\ \A t \in DOMAIN bouts[b].body :
              [hp |-> rows[t].hp, dead |-> rows[t].dead] = bouts[b].body[t]

(* The end tool is about to end a fight of its own campaign's session.     *)
EndsOwnFight ==
    \A w \in TableTurns : Runs(w, "end_combat", "write") =>
        Owns(call[w].campaign, bouts[call[w].seen].session)

(* A fight a durable hero joined is the only open one of its session.      *)
BoundFightAlone == \A b \in OpenBouts : bouts[b].bound => OpenIn(bouts[b].session) = {b}

TableHolds == BoundTokensFollow /\ EndsOwnFight /\ BoundFightAlone
=============================================================================

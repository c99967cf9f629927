------------------------------ MODULE HeroDrafts ------------------------------
(***************************************************************************)
(* How a player who joined a room gets a hero.  The player submits drafts, *)
(* the host approves one; requests are sent again when an answer is lost,  *)
(* and arrive in any order.  The approval is one immediate transaction:    *)
(* the hero enters the party, the campaign's revision moves, the draft is  *)
(* accepted and two receipts are written.  Members leave and return, fights *)
(* begin and end, other commits move the revision in between.              *)
(*                                                                         *)
(* A draft's sheet is named by the draft.  Whether a lease is still good   *)
(* is the business of Rooms: here a member who is present may act.         *)
(***************************************************************************)
EXTENDS Naturals, FiniteSets

CONSTANTS
    Joiners,            \* players of the room
    Drafts,             \* proposal_id
    Heroes,             \* character_id a player may choose
    Approvals,          \* causation_id of the host
    MaxDrafts,          \* drafts of one member in one room (16)
    PartyLimit,         \* MAX_PARTY_MEMBERS, the host included
    NoDraft,
    MaxCampaign         \* bounds the model: revisions of the campaign

ASSUME DraftsAssumption ==
    /\ MaxDrafts \in Nat /\ PartyLimit \in Nat \ {0} /\ MaxCampaign \in Nat
    /\ NoDraft \notin Joiners \cup Drafts

VARIABLES
    draft,              \* room_character_proposals
    approval,           \* room_character_approvals
    party,              \* party_characters: the hero, and the draft it was, of a member
    present,            \* active members of the room
    campaignRev, fighting,
    shown               \* drafts the host was told are accepted (history)

draftVars == <<draft, approval, party, present, campaignRev, fighting, shown>>

Unwritten == [by |-> NoDraft, hero |-> NoDraft, st |-> "none"]

DraftsInit ==
    /\ draft = [d \in Drafts |-> Unwritten] /\ approval = [c \in Approvals |-> NoDraft]
    /\ party = <<>> /\ present = Joiners /\ campaignRev = 0 /\ fighting = FALSE /\ shown = {}

Of(m) == {d \in Drafts : draft[d].by = m}
HeroesTaken == {party[m].hero : m \in DOMAIN party}
Undecided(m) == {d \in Of(m) : draft[d].st = "pending"}

-----------------------------------------------------------------------------
(* submit: an unchanged draft answers as it stands; a new one replaces the *)
(* pending one, and is refused to whoever has a hero.                      *)
MaySubmit(m, h) == m \notin DOMAIN party /\ h \notin HeroesTaken

(* mutant: the older draft stays pending.                                  *)
ReplacesNothing(m, d) == {}
Replaces(m, d) == Undecided(m) \ {d}

Submit(m, d, h) ==
    /\ m \in present /\ draft[d] = Unwritten
    /\ MaySubmit(m, h) /\ Cardinality(Of(m)) < MaxDrafts
    /\ draft' = [e \in Drafts |->
           CASE e = d -> [by |-> m, hero |-> h, st |-> "pending"]
             [] e \in Replaces(m, d) -> [draft[e] EXCEPT !.st = "superseded"]
             [] OTHER -> draft[e]]
    /\ UNCHANGED <<approval, party, present, campaignRev, fighting, shown>>

(* approve: the exact request again answers from its receipt; else the     *)
(* draft is pending, its player present, the revision the expected one.    *)
MayEnroll(m, h) ==
    /\ ~fighting /\ m \notin DOMAIN party /\ h \notin HeroesTaken
    /\ Cardinality(DOMAIN party) + 1 < PartyLimit

Approve(c, d, expected) ==
    LET m == draft[d].by IN
    /\ m \in present /\ approval[c] = NoDraft /\ draft[d].st = "pending"
    /\ expected = campaignRev /\ campaignRev < MaxCampaign /\ MayEnroll(m, draft[d].hero)
    /\ party' = [k \in DOMAIN party \cup {m} |->
                    IF k = m THEN [hero |-> draft[d].hero, from |-> d] ELSE party[k]]
    /\ campaignRev' = campaignRev + 1
    /\ draft' = [draft EXCEPT ![d].st = "accepted"]
    /\ approval' = [approval EXCEPT ![c] = d]
    /\ \/ shown' = shown \cup {d}           \* answered,
       \/ UNCHANGED shown                   \* or the answer is lost
    /\ UNCHANGED <<present, fighting>>
ApproveAgain(c, d) ==
    /\ approval[c] = d /\ draft[d].st = "accepted" /\ draft[d].by \in present
    /\ shown' = shown \cup {d}
    /\ UNCHANGED <<draft, approval, party, present, campaignRev, fighting>>

-----------------------------------------------------------------------------
(* Around it: the room, the campaign, its fights.                          *)
ComesOrGoes(m) ==
    /\ present' = IF m \in present THEN present \ {m} ELSE present \cup {m}
    /\ UNCHANGED <<draft, approval, party, campaignRev, fighting, shown>>
CampaignMoves ==
    /\ campaignRev < MaxCampaign /\ campaignRev' = campaignRev + 1
    /\ fighting' \in BOOLEAN
    /\ UNCHANGED <<draft, approval, party, present, shown>>

DraftsNext ==
    \/ \E m \in Joiners, d \in Drafts, h \in Heroes : Submit(m, d, h)
    \/ \E c \in Approvals, d \in Drafts, expected \in 0..MaxCampaign : Approve(c, d, expected)
    \/ \E c \in Approvals, d \in Drafts : ApproveAgain(c, d)
    \/ \E m \in Joiners : ComesOrGoes(m)
    \/ CampaignMoves

DraftsSpec == DraftsInit /\ [][DraftsNext]_draftVars

-----------------------------------------------------------------------------
(* A member has one undecided draft at most, and none once in the party;   *)
(* the heroes of the party are the accepted drafts, each of its own player;*)
(* what the host was told is accepted has its hero for good.               *)
HeroesWereApproved ==
    /\ \A m \in Joiners :
          /\ Cardinality(Undecided(m)) <= 1
          /\ m \in DOMAIN party =>
                /\ Undecided(m) = {}
                /\ {d \in Of(m) : draft[d].st = "accepted"} = {party[m].from}
                /\ draft[party[m].from].hero = party[m].hero
    /\ \A d \in Drafts :
          draft[d].st = "accepted" =>
              /\ draft[d].by \in DOMAIN party
              /\ \E c \in Approvals : approval[c] = d
    /\ \A m, n \in DOMAIN party : party[m].hero = party[n].hero => m = n
    /\ \A d \in shown : draft[d].st = "accepted"
    /\ Cardinality(DOMAIN party) < PartyLimit
=============================================================================

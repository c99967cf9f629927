------------------------------ MODULE NpcMemory ------------------------------
(***************************************************************************)
(* What the Dungeon Master remembers of one character of one campaign.     *)
(* remember_npc reads the facts and writes them back with one more, in two *)
(* statements; a save captures them, a restore puts those of the save back.*)
(* Turns and saves of a campaign wait for its lane.                        *)
(*                                                                         *)
(* Left out: the disposition and the role, which the last call sets.       *)
(***************************************************************************)
EXTENDS Naturals, FiniteSets

CONSTANTS MemoryTurns, MaxFacts       \* MaxFacts bounds the model

ASSUME MemoryAssumption == MaxFacts \in Nat

VARIABLES
    said,               \* facts the models have named so far, as numbers
    npc,                \* npc_memory: the facts of the row, {} before there is one
    hand,               \* what each turn's tool holds between its statements
    saved,              \* the facts a save captured, in a set of none or one
    remembered          \* confirmed to a turn in the current timeline (history)

memoryVars == <<said, npc, hand, saved, remembered>>

Empty == [at |-> "out", fact |-> 0, seen |-> {}]

MemoryInit ==
    /\ said = 0 /\ npc = {} /\ saved = {} /\ remembered = {}
    /\ hand = [w \in MemoryTurns |-> Empty]

-----------------------------------------------------------------------------
(* The lane of the campaign is held from the first tool to the last.       *)
Lane == {w \in MemoryTurns : hand[w].at # "out"}
NobodysTurnUnchecked == TRUE     \* mutant
NobodysTurn == Lane = {}

StartsTurn(w) ==
    /\ hand[w].at = "out" /\ NobodysTurn /\ hand' = [hand EXCEPT ![w].at = "thinks"]
    /\ UNCHANGED <<said, npc, saved, remembered>>
(* The turn is over, cancelled between two tools, or its process ended.    *)
EndsTurn(w) ==
    /\ hand[w].at # "out" /\ hand' = [hand EXCEPT ![w] = Empty]
    /\ UNCHANGED <<said, npc, saved, remembered>>

(* npc_upsert_fact.                                                        *)
ReadFacts(w) ==
    /\ hand[w].at = "thinks" /\ said < MaxFacts /\ said' = said + 1
    /\ hand' = [hand EXCEPT ![w] = [at |-> "writes", fact |-> said + 1, seen |-> npc]]
    /\ UNCHANGED <<npc, saved, remembered>>
WriteFacts(w) ==
    /\ hand[w].at = "writes"
    /\ npc' = hand[w].seen \cup {hand[w].fact}
    /\ remembered' = remembered \cup {hand[w].fact}
    /\ hand' = [hand EXCEPT ![w] = [Empty EXCEPT !.at = "thinks"]]
    /\ UNCHANGED <<said, saved>>

KeepSave ==
    /\ NobodysTurn /\ saved' = {npc} /\ UNCHANGED <<said, npc, hand, remembered>>
RestoreFacts ==
    /\ NobodysTurn /\ \E facts \in saved : npc' = facts /\ remembered' = facts
    /\ UNCHANGED <<said, hand, saved>>

MemoryNext ==
    \/ \E w \in MemoryTurns : StartsTurn(w) \/ EndsTurn(w) \/ ReadFacts(w) \/ WriteFacts(w)
    \/ KeepSave \/ RestoreFacts

MemorySpec == MemoryInit /\ [][MemoryNext]_memoryVars

-----------------------------------------------------------------------------
(* Nothing a turn was told is remembered is lost to another turn, and      *)
(* nothing of a timeline that was restored away comes back.                *)
MemoryOfTimeline == npc = remembered
=============================================================================

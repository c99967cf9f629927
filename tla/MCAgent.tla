------------------------------- MODULE MCAgent -------------------------------
(* What the tools of a Dungeon Master's turn write, in one run: the calls of *)
(* one turn and their records, the table they change, the characters they    *)
(* remember.  `focus` says which one moves while the others stay as they     *)
(* began.                                                                    *)
EXTENDS MCToolCheckpoints, TableTools, NpcMemory

CONSTANTS n1, n2, p, q
VARIABLE focus

AgentInit ==
    /\ focus \in {"calls", "table", "memory"}
    /\ Init /\ TableInit /\ MemoryInit

Moves(service, step) == focus = service /\ step /\ UNCHANGED focus

AgentNext ==
    \/ Moves("calls", Next) /\ UNCHANGED <<tableVars, memoryVars>>
    \/ Moves("table", TableNext) /\ UNCHANGED <<vars, memoryVars>>
    \/ Moves("memory", MemoryNext) /\ UNCHANGED <<vars, tableVars>>

Agent == AgentInit /\ [][AgentNext]_<<focus, vars, tableVars, memoryVars>>

Alike == Permutations(TableCampaigns)
=============================================================================

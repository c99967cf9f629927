------------------------------ MODULE MCOutbox ------------------------------
(* The outbox of a guest, in one run: with two calls, two operations and no   *)
(* departure let go, or with three calls, every departure and no operation.  *)
(* The two kinds of slots meet in the file and in the lane only.             *)
EXTENDS RoomOutbox, FiniteSets, TLC

VARIABLE focus

AtMostTwo == Cardinality({c \in Callers : ~At(c, "off")}) <= 2
Uses == {call[c].does : c \in Callers}
Moves(kind, step) == focus = kind /\ step /\ UNCHANGED focus

Outbox ==
    /\ focus \in {"operations", "departures"} /\ OutInit
    /\ [][\/ Moves("operations", OutNext) /\ AtMostTwo' /\ Uses' \cap {"leave"} = {}
          \/ Moves("departures", OutNext) /\ Uses' \cap {"act"} = {}
         ]_<<focus, outVars>>

(* The calls are alike, and so are the operations.                           *)
Alike == Permutations(Callers) \cup Permutations(GuestOps)
=============================================================================

----------------------------- MODULE Membership -----------------------------
(***************************************************************************)
(* What a room promises about who sits in it, without invitations, leases, *)
(* secrets, receipts or interrupted handlers.  A member holds a key; every *)
(* change of who may act under a key already handed out moves the room to  *)
(* a new epoch, a key is dealt to one member once, and a member who left   *)
(* comes back only under the key it left with.                             *)
(***************************************************************************)
EXTENDS Naturals

CONSTANTS Host, Saved, Joins, None

Ids == {Host} \cup Saved \cup Joins

VARIABLES
  standing,   \* of each id: "unknown", "absent", "in" or "left"
  key,        \* the key a member acts under, None for an unknown id
  dealt,      \* keys that were ever dealt
  epoch,
  open

vars == <<standing, key, dealt, epoch, open>>

Init ==
  /\ standing = [m \in Ids |-> IF m = Host THEN "in"
                               ELSE IF m \in Saved THEN "absent" ELSE "unknown"]
  /\ key = [m \in Ids |-> IF m \in Joins THEN None ELSE m]
  /\ dealt = {Host} \cup Saved
  /\ epoch = 1
  /\ open = TRUE

(* A member m comes to its seat under a key nobody had.                     *)
Seat(m, k) ==
  /\ open /\ k \notin dealt
  /\ dealt' = dealt \cup {k}
  /\ standing' = [standing EXCEPT ![m] = "in"]
  /\ key' = [key EXCEPT ![m] = k]
  /\ UNCHANGED open

(* A newcomer takes nothing away from anybody: the epoch stays.             *)
Enter(m, k) == UNCHANGED epoch /\ Seat(m, k) /\ standing[m] = "unknown"

(* A saved player's seat changes hands: the former key dies with the epoch. *)
Replace(m, k) ==
  /\ epoch' = epoch + 1
  /\ m # Host /\ standing[m] \in {"absent", "in"}
  /\ Seat(m, k)

Move(m, from, to) ==
  /\ epoch' = epoch + 1
  /\ open /\ m # Host /\ standing[m] \in from
  /\ standing' = [standing EXCEPT ![m] = to]
  /\ UNCHANGED <<key, dealt, open>>

Leave(m) == Move(m, {"in"}, "left")
Return(m) == Move(m, {"left"}, "in")
Ban(m) == Move(m, {"in", "left"}, "absent")

Close == open /\ open' = FALSE /\ epoch' = epoch + 1 /\ UNCHANGED <<standing, key, dealt>>

(* Whoever is seated is seated under the key this step deals.               *)
Next ==
  \/ \E m \in Ids :
       \/ Leave(m) \/ Return(m) \/ Ban(m)
       \/ \E k \in Joins \cap (dealt' \ dealt) : Enter(m, k) \/ Replace(m, k)
  \/ Close

Spec == Init /\ [][Next]_vars
=============================================================================

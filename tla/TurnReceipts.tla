---------------------------- MODULE TurnReceipts ----------------------------
(***************************************************************************)
(* What the delivery of AI turns promises its clients, without processes,  *)
(* lanes, logs or failures: a request id gets at most one answer, the      *)
(* answer never changes, and whoever is told that a turn is done is told   *)
(* that answer, in full.                                                   *)
(***************************************************************************)
EXTENDS Sequences

CONSTANTS Requests, Attempts

VARIABLES
  receipt,   \* the answer of a request, <<>> while there is none
  asked,     \* the request a client's attempt is about
  told       \* the answer a client was told to be complete, <<>> before that

vars == <<receipt, asked, told>>

IsAnswer(ans) == ans # <<>> /\ ans[Len(ans)] = "done"

Init ==
  /\ receipt = [r \in Requests |-> <<>>]
  /\ asked \in [Attempts -> Requests]
  /\ told = [a \in Attempts |-> <<>>]

(* A request is answered, once.                                             *)
Answer(r) ==
  /\ receipt[r] = <<>>
  /\ IsAnswer(receipt'[r])
  /\ receipt' = [receipt EXCEPT ![r] = receipt'[r]]
  /\ UNCHANGED <<asked, told>>

(* A client asks about a request; what it was told before is history.       *)
Ask(a, r) ==
  /\ asked' = [asked EXCEPT ![a] = r]
  /\ told' = [told EXCEPT ![a] = <<>>]
  /\ UNCHANGED receipt

(* A client is told that its turn is done.                                  *)
Tell(a) ==
  /\ told[a] = <<>>
  /\ IsAnswer(receipt[asked[a]])
  /\ told' = [told EXCEPT ![a] = receipt[asked[a]]]
  /\ UNCHANGED <<receipt, asked>>

Next ==
  \/ \E r \in Requests : Answer(r)
  \/ \E a \in Attempts : Tell(a) \/ \E r \in Requests : Ask(a, r)

Spec == Init /\ [][Next]_vars
=============================================================================

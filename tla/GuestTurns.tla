------------------------------ MODULE GuestTurns ------------------------------
(***************************************************************************)
(* A guest's turn of the Dungeon Master as the guest's own machine keeps   *)
(* it: one secret, the slot, holds the turn from before it is sent until   *)
(* its fate is known, together with the question it waits for and the      *)
(* reply given to it.  The host decides; its answers, and the stream of    *)
(* events they open, may be lost at any point, and either side may be      *)
(* restarted.                                                              *)
(*                                                                         *)
(* One stream is open at a time (ACTIVE).  A request whose sender is gone  *)
(* is either claimed at once or never: its connection is closed, and the   *)
(* host drops the handler of a closed connection.                          *)
(***************************************************************************)
EXTENDS Naturals

CONSTANTS
    GuestTurns,         \* requests of the guest, each with its message
    NoGuestTurn,
    MaxQuestions,       \* bounds: questions of the host in one turn,
    MaxUpsets           \* epochs or timelines that end what is pending

ASSUME GuestAssumption ==
    NoGuestTurn \notin GuestTurns /\ MaxQuestions \in Nat /\ MaxUpsets \in Nat

VARIABLES
    hosted,             \* room_dm_turns of this member, by request
    slotMem, slotDisk,  \* the outbox secret in memory and in the snapshot file
    stream,             \* the stream the shell has asked for
    toldDone,           \* turns the guest was told are done (history)
    upsets,
    fault               \* of the slot's file: written, unwritten, or lost (history)

guestVars == <<hosted, slotMem, slotDisk, stream, toldDone, upsets, fault>>

Vacant == [t |-> NoGuestTurn, reply |-> 0, waiting |-> 0]
NoStream == [at |-> "off", t |-> NoGuestTurn, resume |-> FALSE, reply |-> 0]

GuestInit ==
    /\ hosted = [t \in GuestTurns |-> [st |-> "none", asked |-> 0, answered |-> 0]]
    /\ slotMem = Vacant /\ slotDisk = Vacant /\ stream = NoStream
    /\ toldDone = {} /\ upsets = 0 /\ fault = "none"

Unsettled(t) == hosted[t].st \in {"running", "interrupted"}
Streaming(at) == stream.at = at
Advance(at) == stream' = [stream EXCEPT !.at = at]
Hangs == stream' = NoStream

(* The slot is changed in memory, then written with all other secrets.  A  *)
(* write that fails fails the call, and the change stays in memory.        *)
KeepSlot(with, done) ==
    /\ slotMem' = with
    /\ \/ slotDisk' = with /\ done /\ fault' = IF fault = "lost" THEN fault ELSE "none"
       \/ UNCHANGED slotDisk /\ Hangs /\ fault' = IF fault = "lost" THEN fault ELSE "unwritten"

-----------------------------------------------------------------------------
(* The shell asks for a turn, new or again, perhaps with a reply.          *)
OpenTurn(t, resume, reply) ==
    /\ Streaming("off") /\ (reply > 0 => resume)
    /\ stream' = [at |-> "lane", t |-> t, resume |-> resume, reply |-> reply]
    /\ UNCHANGED <<hosted, slotMem, slotDisk, toldDone, upsets, fault>>

(* What the slot holds may be sent again, or be extended by the reply to   *)
(* the question it waits for.                                              *)
SameTurn == slotMem.t = stream.t /\ slotMem.reply = stream.reply
Extends == slotMem.t = stream.t /\ stream.reply > 0 /\ slotMem.waiting = stream.reply

EnterSlot ==
    /\ Streaming("lane")
    /\ \/ slotMem.t = NoGuestTurn /\ stream.reply = 0
       \/ Extends /\ ~SameTurn
    /\ KeepSlot([t |-> stream.t, reply |-> stream.reply, waiting |-> 0],
                Advance("post"))
    /\ UNCHANGED <<hosted, toldDone, upsets>>
ReuseSlot ==
    /\ Streaming("lane") /\ SameTurn /\ Advance("post")
    /\ UNCHANGED <<hosted, slotMem, slotDisk, toldDone, upsets, fault>>
SlotTaken ==
    /\ Streaming("lane") /\ ~SameTurn /\ ~Extends
    /\ slotMem.t # NoGuestTurn \/ stream.reply > 0
    /\ Hangs /\ UNCHANGED <<hosted, slotMem, slotDisk, toldDone, upsets, fault>>

-----------------------------------------------------------------------------
(* The host: refusals, the claim, and the run of the engine.               *)
Claimable ==
    LET h == hosted[stream.t] IN
    \/ h.st = "none" /\ \A u \in GuestTurns : ~Unsettled(u)
    \/ h.st = "interrupted" /\ stream.resume
    \/ h.st = "complete"

(* A reply is accepted for the last question only; after that the engine   *)
(* runs, and a reply that does not fit interrupts it again.                *)
Claimed(h) ==
    IF h.st = "complete" THEN h
    ELSE IF stream.reply = 0 \/ stream.reply <= h.answered THEN [h EXCEPT !.st = "running"]
    ELSE [h EXCEPT !.st = "running", !.answered = stream.reply]

HostClaims ==
    /\ Streaming("post") /\ Claimable
    /\ hosted' = [hosted EXCEPT ![stream.t] = Claimed(@)]
    /\ (Advance("read") \/ Hangs)           \* answered, or the answer is lost
    /\ UNCHANGED <<slotMem, slotDisk, toldDone, upsets, fault>>

(* Answers that settle the fate: the turn, or the member, is no more.      *)
DefinitiveOnConflict(code) == code # "unavailable"      \* mutant
Definitive(code) == code \in {"denied", "superseded"}
Codes4xx ==
    LET h == hosted[stream.t] IN
    CASE h.st = "superseded" -> {"superseded", "denied"}
      [] h.st = "running" -> {"running"}
      [] h.st = "interrupted" /\ ~stream.resume -> {"interrupted"}
      [] h.st = "none" /\ ~Claimable -> {"running"}
      [] h.st = "none" /\ Claimable -> {"denied"}        \* the epoch changed under the claim
      [] OTHER -> {}

HostRefuses ==
    /\ Streaming("post")
    /\ \E code \in Codes4xx \cup {"unavailable"} :
          IF Definitive(code) THEN Advance("give up") ELSE Hangs
    /\ UNCHANGED <<hosted, slotMem, slotDisk, toldDone, upsets, fault>>

GiveUp ==
    /\ Streaming("give up") /\ KeepSlot(Vacant, Hangs)
    /\ UNCHANGED <<hosted, toldDone, upsets>>

HostWorks(t) ==
    LET h == hosted[t] IN
    /\ h.st = "running"
    /\ \/ h.asked = h.answered /\ hosted' = [hosted EXCEPT ![t].st = "complete"]
       \/ hosted' = [hosted EXCEPT ![t].st = "interrupted"]
       \/ /\ h.asked = h.answered /\ h.asked < MaxQuestions
          /\ hosted' = [hosted EXCEPT ![t].st = "interrupted", ![t].asked = @ + 1]
    /\ UNCHANGED <<slotMem, slotDisk, stream, toldDone, upsets, fault>>

(* A member comes or goes, or a save is restored: what is pending ends.    *)
HostUpset ==
    /\ upsets < MaxUpsets /\ upsets' = upsets + 1
    /\ hosted' = [t \in GuestTurns |->
                     IF hosted[t].st = "none" THEN hosted[t]
                     ELSE [hosted[t] EXCEPT !.st = "superseded"]]
    /\ UNCHANGED <<slotMem, slotDisk, stream, toldDone, fault>>

-----------------------------------------------------------------------------
(* The end of the stream is written before it is told.                     *)
HearDone ==
    /\ Streaming("read") /\ hosted[stream.t].st = "complete"
    /\ KeepSlot(Vacant, Advance("tell"))
    /\ UNCHANGED <<hosted, toldDone, upsets>>
TellDone ==
    /\ Streaming("tell") /\ toldDone' = toldDone \cup {stream.t} /\ Hangs
    /\ UNCHANGED <<hosted, slotMem, slotDisk, upsets, fault>>
HearQuestion ==
    LET h == hosted[stream.t] IN
    /\ Streaming("read") /\ h.st = "interrupted" /\ h.asked > h.answered
    /\ KeepSlot([t |-> stream.t, reply |-> stream.reply, waiting |-> h.asked], Hangs)
    /\ UNCHANGED <<hosted, toldDone, upsets>>

(* The shell cancels, a deadline passes, a connection breaks; the guest's  *)
(* backend dies and reads its secrets again.                               *)
HangUp ==
    /\ stream.at \in {"lane", "post", "give up", "read", "tell"} /\ Hangs
    /\ UNCHANGED <<hosted, slotMem, slotDisk, toldDone, upsets, fault>>
GuestRestarts ==
    /\ slotMem' = slotDisk /\ Hangs
    /\ fault' = IF fault = "unwritten" THEN "lost" ELSE fault
    /\ UNCHANGED <<hosted, slotDisk, toldDone, upsets>>

GuestNext ==
    \/ \E t \in GuestTurns, resume \in BOOLEAN, reply \in 0..MaxQuestions :
          OpenTurn(t, resume, reply)
    \/ \E t \in GuestTurns : HostWorks(t)
    \/ EnterSlot \/ ReuseSlot \/ SlotTaken \/ HostClaims \/ HostRefuses \/ GiveUp
    \/ HostUpset \/ HearDone \/ TellDone \/ HearQuestion \/ HangUp \/ GuestRestarts

GuestSpec == GuestInit /\ [][GuestNext]_guestVars

-----------------------------------------------------------------------------
(* While the host goes on with a turn, or waits to, the guest can find it, *)
(* now and after a restart: unless its file could not be written.          *)
SlotRemembers ==
    \A t \in GuestTurns : Unsettled(t) =>
        /\ fault # "lost" => slotMem.t = t
        /\ fault = "none" => slotDisk.t = t

(* The guest waits for the question that was asked, and has a reply ready  *)
(* only for a question of this turn.                                       *)
QuestionsAgree ==
    \A s \in {slotMem, slotDisk} :
        s.t # NoGuestTurn /\ Unsettled(s.t) =>
            s.waiting <= hosted[s.t].asked /\ s.reply <= hosted[s.t].asked

(* What was told as done is done, unless a restore took it back.           *)
DoneIsDone == \A t \in toldDone : hosted[t].st \in {"complete", "superseded"}

TurnRemembered == SlotRemembers /\ QuestionsAgree /\ DoneIsDone
=============================================================================

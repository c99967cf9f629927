-------------------------- MODULE SharedTableProofs --------------------------
(***************************************************************************)
(* Proofs about what players share, for every number of them: the turn of  *)
(* a guest (GuestTurns), the heroes of a party (HeroDrafts), the turns of  *)
(* the shared Dungeon Master (RoomDmTurns).                                *)
(***************************************************************************)
EXTENDS GuestTurns, HeroDrafts, RoomDmTurns, FiniteSetTheorems, TLAPS

-----------------------------------------------------------------------------
(* The guest's turn: what the two machines and the file keep, by type.     *)
Slot == [t : GuestTurns \cup {NoGuestTurn}, reply : Nat, waiting : Nat]
HostedTurn == [st : {"none", "running", "interrupted", "complete", "superseded"},
               asked : Nat, answered : Nat]
Open == [at : {"off", "lane", "post", "give up", "read", "tell"},
         t : GuestTurns \cup {NoGuestTurn}, resume : BOOLEAN, reply : Nat]

GuestTyped ==
  /\ hosted \in [GuestTurns -> HostedTurn] /\ slotMem \in Slot /\ slotDisk \in Slot
  /\ stream \in Open /\ (stream.at # "off" => stream.t \in GuestTurns)
  /\ toldDone \subseteq GuestTurns /\ fault \in {"none", "unwritten", "lost"}

(* From the moment a turn is sent, the slot holds it with its reply; and   *)
(* what the guest is about to conclude is so at the host.                  *)
StreamBacked ==
  /\ stream.at \in {"post", "give up", "read"} =>
        slotMem.t = stream.t /\ slotMem.reply = stream.reply
  /\ stream.at = "give up" => hosted[stream.t].st \in {"none", "superseded"}
  /\ stream.at = "tell" => hosted[stream.t].st \in {"complete", "superseded"}

(* The slot and its file agree unless a write failed; while none was lost, *)
(* what is unsettled is in the slot.                                       *)
SlotBacked ==
  /\ fault = "none" => slotMem = slotDisk
  /\ fault # "lost" => \A t \in GuestTurns : Unsettled(t) => slotMem.t = t

(* No reply, and no question waited for, is ahead of what the host asked.  *)
NotAhead(s) ==
  s.t # NoGuestTurn => s.waiting <= hosted[s.t].asked /\ s.reply <= hosted[s.t].asked

GuestInv ==
  /\ GuestTyped /\ StreamBacked /\ SlotBacked /\ NotAhead(slotMem) /\ NotAhead(slotDisk)
  /\ DoneIsDone

LEMMA GuestInvInit == GuestInit => GuestInv
BY DEF GuestInit, GuestInv, GuestTyped, StreamBacked, SlotBacked, NotAhead, DoneIsDone, Slot,
   HostedTurn, Open, Vacant, NoStream, Unsettled

(* A slot is written, or stays only in memory and the call fails.          *)
Writes(with) ==
  /\ slotMem' = with /\ slotDisk' \in {with, slotDisk}
  /\ fault' \in {"none", "unwritten", "lost"}
  /\ fault' = "none" => slotDisk' = with
  /\ fault' # "lost" => fault # "lost"

(* Nothing the slot is compared with goes back.                            *)
HostGoesOn ==
  \A t \in GuestTurns :
    /\ hosted'[t].asked >= hosted[t].asked
    /\ Unsettled(t)' => Unsettled(t)
    /\ hosted[t].st \in {"complete", "superseded"} =>
          hosted'[t].st \in {"complete", "superseded"}

LEMMA StreamClosed == NoStream \in Open /\ NoStream.at = "off"
BY DEF NoStream, Open

LEMMA StreamAdvances ==
  ASSUME stream \in Open, NEW at \in {"post", "give up", "read", "tell"}, Advance(at)
  PROVE  /\ stream' \in Open /\ stream'.at = at /\ stream'.t = stream.t
         /\ stream'.reply = stream.reply
BY DEF Advance, Open

LEMMA HostWorksOn ==
  ASSUME NEW t \in GuestTurns, HostWorks(t), hosted \in [GuestTurns -> HostedTurn]
  PROVE  /\ hosted' \in [GuestTurns -> HostedTurn]
         /\ \A u \in GuestTurns : u # t => hosted'[u] = hosted[u]
         /\ hosted'[t].asked >= hosted[t].asked
         /\ hosted'[t].st \in {"complete", "interrupted"}
<1> DEFINE works(k) == hosted' = [hosted EXCEPT ![t] = k]
<1>1. hosted[t] \in HostedTurn
  OBVIOUS
<1>2. ASSUME NEW k \in HostedTurn, works(k), k.asked >= hosted[t].asked,
             k.st \in {"complete", "interrupted"}
      PROVE  /\ hosted' \in [GuestTurns -> HostedTurn]
             /\ \A u \in GuestTurns : u # t => hosted'[u] = hosted[u]
             /\ hosted'[t].asked >= hosted[t].asked
             /\ hosted'[t].st \in {"complete", "interrupted"}
  BY <1>2
<1>3. ASSUME NEW st \in {"complete", "interrupted"}, hosted' = [hosted EXCEPT ![t].st = st]
      PROVE  \E k \in HostedTurn : works(k) /\ k.asked >= hosted[t].asked /\ k.st = st
  <2> DEFINE k == [hosted[t] EXCEPT !.st = st]
  <2>1. k \in HostedTurn /\ k.asked = hosted[t].asked /\ k.st = st /\ hosted[t].asked \in Nat
    BY <1>1 DEF HostedTurn
  <2>2. works(k)
    BY <1>3
  <2> HIDE DEF k, works
  <2> QED BY <2>1, <2>2
<1>4. ASSUME hosted' = [hosted EXCEPT ![t].st = "interrupted", ![t].asked = @ + 1]
      PROVE  \E k \in HostedTurn :
               works(k) /\ k.asked >= hosted[t].asked /\ k.st = "interrupted"
  <2> DEFINE k == [hosted[t] EXCEPT !.st = "interrupted", !.asked = hosted[t].asked + 1]
  <2>1. hosted[t].asked \in Nat
    BY <1>1 DEF HostedTurn
  <2>2. k \in HostedTurn /\ k.asked = hosted[t].asked + 1 /\ k.st = "interrupted"
    <3> DEFINE more == hosted[t].asked + 1
    <3>1. more \in Nat
      BY <2>1
    <3> HIDE DEF more
    <3>2. k = [hosted[t] EXCEPT !.st = "interrupted", !.asked = more]
      BY DEF more
    <3> HIDE DEF k
    <3>3. k \in HostedTurn /\ k.asked = more /\ k.st = "interrupted"
      BY <1>1, <3>1, <3>2 DEF HostedTurn
    <3> QED BY <3>3 DEF more
  <2>3. works(k)
    BY <1>4
  <2> HIDE DEF k, works
  <2> QED BY <2>1, <2>2, <2>3
<1> HIDE DEF works
<1> QED BY <1>2, <1>3, <1>4 DEF HostWorks

(* What the guest does with its slot.                                      *)
LEMMA GuestSlotStep ==
  ASSUME GuestInv, EnterSlot \/ GiveUp \/ HearDone \/ HearQuestion
  PROVE  GuestInv'
<1> USE GuestAssumption DEF GuestInv, GuestTyped
<1> DEFINE entered == [t |-> stream.t, reply |-> stream.reply, waiting |-> 0]
           questioned == [t |-> stream.t, reply |-> stream.reply,
                          waiting |-> hosted[stream.t].asked]
           with == IF EnterSlot THEN entered ELSE IF HearQuestion THEN questioned ELSE Vacant
<1>1. UNCHANGED <<hosted, toldDone>>
  BY DEF EnterSlot, GiveUp, HearDone, HearQuestion
<1>2. CASE EnterSlot
  <2>1. Writes(entered) /\ stream.at = "lane" /\ (stream' = NoStream \/ Advance("post"))
    BY <1>2 DEF EnterSlot, KeepSlot, Writes, Hangs, Streaming
  <2>2. entered \in Slot /\ entered.t = stream.t /\ entered.reply = stream.reply
        /\ entered.waiting = 0
    BY <2>1 DEF Slot, Open
  <2> HIDE DEF entered
  <2>3. stream.reply = 0 \/ (slotMem.t = stream.t /\ slotMem.waiting = stream.reply)
    BY <1>2 DEF EnterSlot, Extends
  <2>4. stream.t \in GuestTurns /\ hosted[stream.t] \in HostedTurn
    BY <2>1
  <2>5. NotAhead(entered)
    BY <2>2, <2>3, <2>4 DEF NotAhead, HostedTurn, Slot
  <2>6. slotMem.t = NoGuestTurn \/ slotMem.t = stream.t
    BY <1>2 DEF EnterSlot, Extends
  <2>7. /\ stream' \in Open /\ (stream'.at # "off" => stream'.t \in GuestTurns)
        /\ stream'.at \in {"off", "post"} /\ (stream'.at = "post" => stream'.t = stream.t)
        /\ (stream'.at = "post" => stream'.reply = stream.reply)
    BY <2>1, <2>4, StreamClosed, StreamAdvances
  <2>8. GuestTyped' /\ StreamBacked'
    BY <1>1, <2>1, <2>2, <2>7 DEF Writes, StreamBacked
  <2>9. SlotBacked'
    BY <1>1, <2>1, <2>2, <2>6 DEF Writes, SlotBacked, Unsettled
  <2>10. NotAhead(slotMem)' /\ NotAhead(slotDisk)' /\ DoneIsDone'
    BY <1>1, <2>1, <2>5 DEF Writes, NotAhead, DoneIsDone
  <2> QED BY <2>8, <2>9, <2>10
<1>3. CASE GiveUp \/ HearDone
  <2>1. /\ Writes(Vacant) /\ stream.at \in {"give up", "read"}
        /\ stream' = NoStream \/ (Advance("tell") /\ hosted[stream.t].st = "complete")
    BY <1>3 DEF GiveUp, HearDone, KeepSlot, Writes, Hangs, Streaming
  <2>2. Vacant \in Slot /\ Vacant.t = NoGuestTurn
    BY DEF Vacant, Slot
  <2>3. stream.t \in GuestTurns /\ ~Unsettled(stream.t) /\ slotMem.t = stream.t
    BY <1>3, <2>1 DEF StreamBacked, GiveUp, HearDone, Streaming, Unsettled
  <2>4. /\ stream' \in Open /\ (stream'.at # "off" => stream'.t \in GuestTurns)
        /\ stream'.at \in {"off", "tell"}
        /\ (stream'.at = "tell" => stream'.t = stream.t /\ hosted[stream.t].st = "complete")
    BY <2>1, <2>3, StreamClosed, StreamAdvances
  <2>5. GuestTyped' /\ StreamBacked'
    BY <1>1, <2>1, <2>2, <2>4 DEF Writes, StreamBacked
  <2>6. SlotBacked'
    BY <1>1, <2>1, <2>3 DEF Writes, SlotBacked, Unsettled
  <2>7. NotAhead(slotMem)' /\ NotAhead(slotDisk)' /\ DoneIsDone'
    BY <1>1, <2>1, <2>2 DEF Writes, NotAhead, DoneIsDone
  <2> QED BY <2>5, <2>6, <2>7
<1>4. CASE HearQuestion
  <2>1. Writes(questioned) /\ stream.at = "read" /\ stream' = NoStream
    BY <1>4 DEF HearQuestion, KeepSlot, Writes, Hangs, Streaming
  <2>2. stream.t \in GuestTurns /\ hosted[stream.t] \in HostedTurn
        /\ slotMem.t = stream.t /\ slotMem.reply = stream.reply
    BY <2>1 DEF StreamBacked
  <2>3. questioned \in Slot /\ questioned.t = stream.t /\ NotAhead(questioned)
    <3>1. stream.reply \in Nat /\ hosted[stream.t].asked \in Nat
      BY <2>2 DEF Open, HostedTurn
    <3>2. questioned \in Slot
      BY <2>2, <3>1 DEF Slot
    <3>3. stream.t # NoGuestTurn
      BY <2>2
    <3> QED BY <2>2, <3>1, <3>2, <3>3 DEF NotAhead
  <2> HIDE DEF questioned
  <2>4. GuestTyped' /\ StreamBacked'
    BY <1>1, <2>1, <2>3 DEF Writes, StreamBacked, NoStream, Open
  <2>5. SlotBacked'
    BY <1>1, <2>1, <2>2, <2>3 DEF Writes, SlotBacked, Unsettled
  <2>6. NotAhead(slotMem)' /\ NotAhead(slotDisk)' /\ DoneIsDone'
    BY <1>1, <2>1, <2>3 DEF Writes, NotAhead, DoneIsDone
  <2> QED BY <2>4, <2>5, <2>6
<1> QED BY <1>2, <1>3, <1>4

(* What the host does with the turn.                                       *)
LEMMA GuestHostStep ==
  ASSUME GuestInv, HostClaims \/ HostUpset \/ \E t \in GuestTurns : HostWorks(t)
  PROVE  GuestInv'
<1> USE GuestAssumption DEF GuestInv, GuestTyped
<1>1. UNCHANGED <<slotMem, slotDisk, toldDone, fault>>
  BY DEF HostClaims, HostUpset, HostWorks
<1>2. ASSUME hosted' \in [GuestTurns -> HostedTurn], HostGoesOn, stream' = stream,
             \A t \in GuestTurns : hosted[t].st \in {"none", "superseded"} =>
                hosted'[t].st \in {"none", "superseded"}
      PROVE  GuestInv'
  <2>1. GuestTyped'
    BY <1>1, <1>2
  <2>2. StreamBacked' /\ SlotBacked' /\ DoneIsDone'
    BY <1>1, <1>2 DEF StreamBacked, SlotBacked, DoneIsDone, HostGoesOn
  <2>3. NotAhead(slotMem)' /\ NotAhead(slotDisk)'
    BY <1>1, <1>2 DEF NotAhead, HostGoesOn, HostedTurn, Slot
  <2> QED BY <2>1, <2>2, <2>3
<1>3. CASE HostUpset
  <2>1. \A t \in GuestTurns : /\ hosted'[t] \in HostedTurn /\ hosted'[t].asked = hosted[t].asked
                              /\ hosted'[t].st = IF hosted[t].st = "none" THEN "none"
                                                 ELSE "superseded"
    BY <1>3 DEF HostUpset, HostedTurn
  <2>2. hosted' \in [GuestTurns -> HostedTurn]
    BY <1>3, <2>1 DEF HostUpset
  <2>3. HostGoesOn
    BY <2>1 DEF HostGoesOn, Unsettled, HostedTurn
  <2> QED BY <1>2, <1>3, <2>1, <2>2, <2>3 DEF HostUpset
<1>4. ASSUME NEW t \in GuestTurns, HostWorks(t) PROVE GuestInv'
  <2>2. hosted[t].st = "running" /\ stream' = stream
    BY <1>4 DEF HostWorks
  <2>3. HostGoesOn
    BY <1>4, <2>2, HostWorksOn DEF HostGoesOn, Unsettled, HostedTurn
  <2> QED BY <1>2, <1>4, <2>2, <2>3, HostWorksOn
<1>5. CASE HostClaims
  <2> DEFINE t == stream.t
  <2>1. t \in GuestTurns /\ slotMem.t = t /\ stream.at = "post"
    BY <1>5 DEF HostClaims, Streaming, StreamBacked
  <2>2. hosted[t] \in HostedTurn /\ stream.reply \in Nat
    BY <2>1 DEF Open
  <2>3. /\ Claimed(hosted[t]) \in HostedTurn /\ Claimed(hosted[t]).asked = hosted[t].asked
        /\ (hosted[t].st = "complete" => Claimed(hosted[t]).st = "complete")
        /\ (hosted[t].st # "complete" => Claimed(hosted[t]).st = "running")
    BY <2>2 DEF Claimed, HostedTurn
  <2>4. hosted' = [hosted EXCEPT ![t] = Claimed(hosted[t])] /\ Claimable
    BY <1>5 DEF HostClaims
  <2>5. hosted' \in [GuestTurns -> HostedTurn] /\ \A u \in GuestTurns :
          hosted'[u] = IF u = t THEN Claimed(hosted[t]) ELSE hosted[u]
    BY <2>1, <2>3, <2>4
  <2>6. /\ stream' \in Open /\ (stream'.at # "off" => stream'.t = t)
        /\ (stream'.at # "off" => stream'.reply = stream.reply) /\ stream'.at \in {"off", "read"}
    BY <1>5, StreamClosed, StreamAdvances DEF HostClaims, Hangs
  <2>7. GuestTyped' /\ StreamBacked'
    BY <1>1, <2>1, <2>5, <2>6 DEF StreamBacked
  <2>8. DoneIsDone' /\ NotAhead(slotMem)' /\ NotAhead(slotDisk)'
    <3>1. hosted[t].st # "superseded"
      BY <2>4 DEF Claimable
    <3>2. hosted[t].st = "complete" => hosted'[t].st = "complete"
      BY <2>1, <2>3, <2>5
    <3>3. DoneIsDone'
      BY <1>1, <2>5, <3>1, <3>2 DEF DoneIsDone
    <3>4. \A u \in GuestTurns : hosted'[u].asked = hosted[u].asked
      BY <2>3, <2>5
    <3>5. NotAhead(slotMem)' /\ NotAhead(slotDisk)'
      BY <1>1, <3>4 DEF NotAhead, Slot
    <3> QED BY <3>3, <3>5
  <2>9. SlotBacked'
    <3>1. \A u \in GuestTurns : Unsettled(u)' => u = t \/ Unsettled(u)
      BY <2>5 DEF Unsettled
    <3> QED BY <1>1, <2>1, <3>1 DEF SlotBacked
  <2> QED BY <2>7, <2>8, <2>9
<1> QED BY <1>3, <1>4, <1>5

(* The rest moves the stream alone, or reads the file again.               *)
LEMMA GuestStreamStep ==
  ASSUME GuestInv,
         \/ ReuseSlot \/ SlotTaken \/ HostRefuses \/ TellDone \/ HangUp \/ GuestRestarts
         \/ \E t \in GuestTurns, resume \in BOOLEAN, reply \in 0..MaxQuestions :
               OpenTurn(t, resume, reply)
  PROVE  GuestInv'
<1> USE GuestAssumption DEF GuestInv, GuestTyped
<1>1. UNCHANGED hosted
  BY DEF ReuseSlot, SlotTaken, HostRefuses, TellDone, HangUp, GuestRestarts, OpenTurn
<1>2. CASE GuestRestarts
  <2>1. stream' = NoStream /\ slotMem' = slotDisk /\ slotDisk' = slotDisk /\ toldDone' = toldDone
        /\ fault' = IF fault = "unwritten" THEN "lost" ELSE fault
    BY <1>2 DEF GuestRestarts, Hangs
  <2>2. GuestTyped' /\ StreamBacked'
    BY <1>1, <2>1 DEF StreamBacked, NoStream, Open
  <2>3. SlotBacked' /\ NotAhead(slotMem)' /\ NotAhead(slotDisk)' /\ DoneIsDone'
    BY <1>1, <2>1 DEF SlotBacked, NotAhead, DoneIsDone, Unsettled
  <2> QED BY <2>2, <2>3
<1>3. ASSUME UNCHANGED <<slotMem, slotDisk, fault>>, stream' \in Open,
             stream'.at # "off" => stream'.t \in GuestTurns, StreamBacked',
             toldDone' \in {toldDone, toldDone \cup {stream.t}}, toldDone' # toldDone =>
                stream.t \in GuestTurns /\ hosted[stream.t].st \in {"complete", "superseded"}
      PROVE  GuestInv'
  BY <1>1, <1>3 DEF SlotBacked, NotAhead, DoneIsDone, Unsettled
<1>4. CASE SlotTaken \/ HangUp \/ TellDone
  <2>1. stream' = NoStream /\ UNCHANGED <<slotMem, slotDisk, fault>>
    BY <1>4 DEF SlotTaken, HangUp, TellDone, Hangs
  <2>2. NoStream \in Open /\ NoStream.at = "off"
    BY DEF NoStream, Open
  <2>3. StreamBacked'
    BY <2>1, <2>2 DEF StreamBacked
  <2> QED BY <1>3, <1>4, <2>1, <2>2, <2>3
          DEF SlotTaken, HangUp, TellDone, Streaming, StreamBacked
<1>5. CASE ReuseSlot
  <2>1. /\ stream.at = "lane" /\ stream' = [stream EXCEPT !.at = "post"] /\ SameTurn
        /\ UNCHANGED <<slotMem, slotDisk, fault, toldDone>>
    BY <1>5 DEF ReuseSlot, Streaming, Advance
  <2>2. stream' \in Open /\ stream'.t = stream.t /\ stream'.reply = stream.reply
        /\ stream'.at = "post" /\ stream.t \in GuestTurns
    BY <2>1 DEF Open
  <2> QED BY <1>3, <2>1, <2>2 DEF StreamBacked, SameTurn
<1>6. CASE HostRefuses
  <2>1. /\ stream.at = "post" /\ UNCHANGED <<slotMem, slotDisk, fault, toldDone>>
        /\ stream' = NoStream \/ stream' = [stream EXCEPT !.at = "give up"]
    BY <1>6 DEF HostRefuses, Streaming, Advance, Hangs
  <2>2. CASE stream' = NoStream
    BY <1>3, <2>1, <2>2 DEF NoStream, Open, StreamBacked
  <2>3. CASE stream' = [stream EXCEPT !.at = "give up"]
    <3>1. stream' \in Open /\ stream'.t = stream.t /\ stream'.reply = stream.reply
          /\ stream'.at = "give up" /\ stream.t \in GuestTurns
      BY <2>1, <2>3 DEF Open
    <3>2. hosted[stream.t].st \in {"none", "superseded"}
      <4>1. PICK code \in Codes4xx \cup {"unavailable"} : Definitive(code)
        BY <1>6, <3>1, StreamClosed DEF HostRefuses, Hangs
      <4>2. code \in Codes4xx /\ code \in {"denied", "superseded"}
        BY <4>1 DEF Definitive
      <4>3. hosted[stream.t].st \in {"none", "running", "interrupted", "complete", "superseded"}
        BY <3>1 DEF HostedTurn
      <4> QED BY <4>2, <4>3 DEF Codes4xx
    <3> QED BY <1>1, <1>3, <2>1, <3>1, <3>2 DEF StreamBacked
  <2> QED BY <2>1, <2>2, <2>3
<1>7. ASSUME NEW t \in GuestTurns, NEW resume \in BOOLEAN, NEW reply \in 0..MaxQuestions,
             OpenTurn(t, resume, reply)
      PROVE  GuestInv'
  <2>1. /\ stream' = [at |-> "lane", t |-> t, resume |-> resume, reply |-> reply]
        /\ UNCHANGED <<slotMem, slotDisk, fault, toldDone>>
    BY <1>7 DEF OpenTurn
  <2>2. reply \in Nat
    OBVIOUS
  <2>3. [at |-> "lane", t |-> t, resume |-> resume, reply |-> reply] \in Open
    BY <2>2 DEF Open
  <2>4. stream' \in Open /\ stream'.t = t /\ stream'.at = "lane"
    BY <2>1, <2>3
  <2> QED BY <1>3, <2>1, <2>4 DEF StreamBacked
<1> QED BY <1>2, <1>4, <1>5, <1>6, <1>7

LEMMA GuestInvStep ==
  ASSUME GuestInv, [GuestNext]_guestVars
  PROVE  GuestInv'
<1>1. CASE UNCHANGED guestVars
  BY <1>1 DEF guestVars, GuestInv, GuestTyped, StreamBacked, SlotBacked, NotAhead, DoneIsDone,
     Unsettled
<1> QED BY <1>1, GuestSlotStep, GuestHostStep, GuestStreamStep DEF GuestNext

(* A guest that lost no file finds the turn its host goes on with, waits   *)
(* for no question that was not asked, and was told the truth about its    *)
(* end, whatever answer was lost and whoever was restarted.                *)
THEOREM TurnsAreRemembered == GuestSpec => []TurnRemembered
<1>1. GuestInv => SlotRemembers
  BY DEF GuestInv, SlotBacked, SlotRemembers
<1>2. GuestInv => QuestionsAgree
  BY DEF GuestInv, NotAhead, QuestionsAgree
<1>3. GuestInv => DoneIsDone
  BY DEF GuestInv
<1> QED BY <1>1, <1>2, <1>3, GuestInvInit, GuestInvStep, PTL DEF GuestSpec, TurnRemembered

-----------------------------------------------------------------------------
(* The shared Dungeon Master, by type.                                     *)
DmTool == [exp : Nat, said : {"nothing", "performed", "refused"}, refusal : BOOLEAN]
DmRow == [st : {"none", "running", "interrupted", "complete", "superseded"}, epoch : Nat,
          reset : Nat, owner : Nat, tools : Seq(DmTool), reply : BOOLEAN, log : Nat,
          done : BOOLEAN]
DmRunner == [t : DmTurns \cup {NoTurn}, at : {"off", "claim", "bind", "run", "complete", "fail"},
             epoch : Nat, resume : BOOLEAN]
DmEar == [t : DmTurns \cup {NoTurn}, epoch : Nat, got : Nat, done : BOOLEAN]

DmTyped ==
  /\ roomEpoch \in Nat /\ resets \in Nat /\ worldRev \in Nat /\ process \in Nat
  /\ seated \subseteq DmMembers
  /\ dmTurn \in [DmTurns -> DmRow] /\ runner \in DmRunner
  /\ ear \in [DmMembers -> DmEar] /\ dmApplied \in [DmTurns -> [1..Manifest -> Nat]]

(* A runner that has claimed its turn finds it running, or superseded by a *)
(* later epoch, in which its lease is worth nothing.                       *)
RunnerBacked ==
  /\ runner.at # "off" => runner.t \in DmTurns /\ runner.epoch <= roomEpoch
  /\ runner.at \in {"bind", "run", "complete", "fail"} =>
        /\ Row.st \in {"running", "superseded"}
        /\ Row.st = "superseded" => runner.epoch < roomEpoch

(* What is known of a call that had its effect n times.                    *)
ToolHolds(c, n) ==
  /\ c.refusal => n = 0
  /\ c.said = "performed" => n = 1
  /\ c.said = "refused" => c.refusal

(* Of a turn, whose calls had their effect as often as effects says.       *)
RowHolds(r, effects) ==
  /\ Len(r.tools) <= Manifest
  /\ \A k \in 1..Manifest : effects[k] <= 1 /\ (effects[k] > 0 => k <= Len(r.tools))
  /\ \A k \in DOMAIN r.tools : ToolHolds(r.tools[k], effects[k])
  /\ r.st = "none" => Len(r.tools) = 0
  /\ r.reply => Len(r.tools) = Manifest /\ \A k \in DOMAIN r.tools : r.tools[k].said # "nothing"
  /\ r.done => r.reply /\ r.log = Manifest
  /\ r.st = "complete" => r.done

EarHolds(e) ==
  e.t # NoTurn /\ e.done => dmTurn[e.t].st = "complete" /\ e.got = Manifest

DmInv ==
  /\ DmTyped /\ RunnerBacked
  /\ \A t \in DmTurns : RowHolds(dmTurn[t], dmApplied[t])
  /\ \A m \in DmMembers : EarHolds(ear[m])

LEMMA DmInvInit == DmInit => DmInv
<1> SUFFICES ASSUME DmInit PROVE DmInv
  OBVIOUS
<1>1. <<>> \in Seq(DmTool) /\ Manifest \in Nat \ {0}
  BY RoomDmAssumption
<1>2. Unclaimed \in DmRow /\ Unclaimed.st = "none" /\ ~Unclaimed.reply /\ ~Unclaimed.done
      /\ Unclaimed.tools = <<>>
  BY <1>1 DEF Unclaimed, DmRow
<1>3. RowHolds(Unclaimed, [k \in 1..Manifest |-> 0])
  BY <1>1, <1>2 DEF RowHolds
<1>4. NoRunner \in DmRunner /\ NoRunner.at = "off" /\ Deaf \in DmEar /\ Deaf.t = NoTurn
  BY DEF NoRunner, DmRunner, Deaf, DmEar
<1>5. \A t \in DmTurns : dmTurn[t] = Unclaimed /\ dmApplied[t] = [k \in 1..Manifest |-> 0]
  BY DEF DmInit
<1>6. \A m \in DmMembers : ear[m] = Deaf
  BY DEF DmInit
<1>7. DmTyped
  BY <1>2, <1>4 DEF DmInit, DmTyped
<1> QED BY <1>3, <1>4, <1>5, <1>6, <1>7 DEF DmInit, DmInv, RunnerBacked, EarHolds

(* The number of answers tells whether all were given.                     *)
LEMMA ToldAll ==
  ASSUME NEW r \in DmRow, Len(r.tools) <= Manifest, Told(r) = Manifest
  PROVE  Len(r.tools) = Manifest /\ \A k \in DOMAIN r.tools : r.tools[k].said # "nothing"
<1> DEFINE T == {k \in DOMAIN r.tools : r.tools[k].said # "nothing"}
<1>1. r.tools \in Seq(DmTool) /\ Manifest \in Nat
  BY RoomDmAssumption DEF DmRow
<1>2. DOMAIN r.tools = 1..Len(r.tools) /\ Len(r.tools) \in Nat
  BY <1>1
<1>3. IsFiniteSet(1..Len(r.tools)) /\ Cardinality(1..Len(r.tools)) = Len(r.tools)
  BY <1>2, FS_Interval
<1>4. T \subseteq 1..Len(r.tools)
  BY <1>2
<1>5. Cardinality(T) = Manifest
  BY DEF Told
<1> HIDE DEF T
<1>6. /\ Cardinality(T) <= Len(r.tools)
      /\ Cardinality(T) = Len(r.tools) => T = 1..Len(r.tools)
  BY <1>3, <1>4, FS_Subset
<1>7. Len(r.tools) = Manifest /\ T = 1..Len(r.tools)
  BY <1>1, <1>2, <1>5, <1>6
<1> QED BY <1>2, <1>7 DEF T

LEMMA AllTold ==
  ASSUME NEW r \in DmRow, Len(r.tools) = Manifest,
         \A k \in DOMAIN r.tools : r.tools[k].said # "nothing"
  PROVE  Told(r) = Manifest
<1>1. r.tools \in Seq(DmTool) /\ Manifest \in Nat
  BY RoomDmAssumption DEF DmRow
<1>2. {k \in DOMAIN r.tools : r.tools[k].said # "nothing"} = 1..Manifest
  BY <1>1
<1>3. Cardinality(1..Manifest) = Manifest
  BY <1>1, FS_Interval
<1> QED BY <1>2, <1>3 DEF Told

-----------------------------------------------------------------------------
(* Steps of the shared Dungeon Master.  What is over does not move.        *)
Rows == \A t \in DmTurns : RowHolds(dmTurn[t], dmApplied[t])

LEMMA EarsStay ==
  ASSUME DmInv, WhatIsOverIsKept, UNCHANGED ear
  PROVE  (\A m \in DmMembers : EarHolds(ear[m])) /\ (\A m \in DmMembers : EarHolds(ear[m]))'
BY DEF DmInv, DmTyped, DmEar, EarHolds, WhatIsOverIsKept, TurnOver

(* A lease that holds is that of a running turn.                           *)
LEMMA LeaseIsLive ==
  ASSUME DmInv, runner.at \in {"bind", "run", "complete", "fail"}
  PROVE  /\ runner.t \in DmTurns /\ Row \in DmRow /\ dmApplied[runner.t] \in [1..Manifest -> Nat]
         /\ RowHolds(Row, dmApplied[runner.t]) /\ Row = dmTurn[runner.t]
         /\ Leased => Row.st = "running" /\ ~TurnOver(runner.t)
BY DEF DmInv, DmTyped, RunnerBacked, Leased, Guard, Row, TurnOver

(* The turn of the runner moves; the others do not.                        *)
LEMMA RowMoves ==
  ASSUME DmInv, runner.t \in DmTurns, ~TurnOver(runner.t),
         NEW r \in DmRow, NEW effects \in [1..Manifest -> Nat], RowHolds(r, effects),
         dmTurn' = [dmTurn EXCEPT ![runner.t] = r],
         dmApplied' = [dmApplied EXCEPT ![runner.t] = effects]
  PROVE  /\ dmTurn' \in [DmTurns -> DmRow] /\ dmApplied' \in [DmTurns -> [1..Manifest -> Nat]]
         /\ Rows' /\ WhatIsOverIsKept /\ dmTurn'[runner.t] = r
<1>1. dmTurn \in [DmTurns -> DmRow] /\ dmApplied \in [DmTurns -> [1..Manifest -> Nat]] /\ Rows
  BY DEF DmInv, DmTyped, Rows
<1>2. \A t \in DmTurns : /\ dmTurn'[t] = IF t = runner.t THEN r ELSE dmTurn[t]
                         /\ dmApplied'[t] = IF t = runner.t THEN effects ELSE dmApplied[t]
  BY <1>1
<1>3. Rows'
  BY <1>1, <1>2 DEF Rows
<1> QED BY <1>1, <1>2, <1>3 DEF WhatIsOverIsKept

(* The engine goes on with its turn, stops, or frees the lane.             *)
LEMMA RunnerGoesOn ==
  ASSUME DmInv, UNCHANGED roomEpoch, runner.at \in {"bind", "run", "complete", "fail"},
         dmTurn'[runner.t].st = dmTurn[runner.t].st,
         \/ runner' \in {runner, NoRunner}
         \/ \E where \in {"run", "complete", "fail"} : Step(where)
  PROVE  RunnerBacked' /\ runner' \in DmRunner
<1>1. runner \in DmRunner
  BY DEF DmInv, DmTyped
<1>2. CASE runner' = NoRunner
  BY <1>2 DEF RunnerBacked, NoRunner, DmRunner
<1>3. CASE runner' = runner
  BY <1>1, <1>3 DEF DmInv, RunnerBacked, Row
<1>4. ASSUME NEW where \in {"run", "complete", "fail"}, Step(where)
      PROVE  RunnerBacked' /\ runner' \in DmRunner
  <2>1. runner' \in DmRunner /\ runner'.t = runner.t /\ runner'.epoch = runner.epoch
        /\ runner'.at = where
    BY <1>1, <1>4 DEF Step, DmRunner
  <2> QED BY <2>1 DEF DmInv, RunnerBacked, Row
<1> QED BY <1>2, <1>3, <1>4

(* So an engine's step is one of a record that holds again.                *)
LEMMA EngineMoves ==
  ASSUME DmInv, runner.at \in {"bind", "run", "complete", "fail"}, ~TurnOver(runner.t),
         NEW r \in DmRow, NEW effects \in [1..Manifest -> Nat], RowHolds(r, effects),
         r.st = Row.st,
         dmTurn' = [dmTurn EXCEPT ![runner.t] = r],
         dmApplied' = [dmApplied EXCEPT ![runner.t] = effects],
         \/ runner' \in {runner, NoRunner}
         \/ \E where \in {"run", "complete", "fail"} : Step(where),
         UNCHANGED <<roomEpoch, seated, resets, process, ear>>, worldRev' \in Nat
  PROVE  DmInv' /\ WhatIsOverIsKept
<1>1. runner.t \in DmTurns /\ Row = dmTurn[runner.t]
  BY LeaseIsLive
<1>2. /\ dmTurn' \in [DmTurns -> DmRow] /\ dmApplied' \in [DmTurns -> [1..Manifest -> Nat]]
      /\ Rows' /\ WhatIsOverIsKept /\ dmTurn'[runner.t] = r
  BY <1>1, RowMoves
<1>3. RunnerBacked' /\ runner' \in DmRunner
  BY <1>1, <1>2, RunnerGoesOn
<1>4. (\A m \in DmMembers : EarHolds(ear[m]))'
  BY <1>2, EarsStay
<1>5. DmTyped'
  BY <1>2, <1>3 DEF DmInv, DmTyped
<1> QED BY <1>2, <1>3, <1>4, <1>5 DEF DmInv, Rows

(* A record of the turn without its status: what the engine writes there.  *)
LEMMA EngineWrites ==
  ASSUME DmInv, RunnerAt("run"), Leased, NEW r \in DmRow, RowHolds(r, dmApplied[runner.t]),
         r.st = Row.st, dmTurn' = [dmTurn EXCEPT ![runner.t] = r],
         runner' = runner \/ Step("complete"),
         UNCHANGED <<roomEpoch, seated, resets, worldRev, process, ear, dmApplied>>
  PROVE  DmInv' /\ WhatIsOverIsKept
<1>1. runner.at = "run" /\ ~TurnOver(runner.t) /\ dmApplied[runner.t] \in [1..Manifest -> Nat]
  BY LeaseIsLive DEF RunnerAt
<1>2. dmApplied' = [dmApplied EXCEPT ![runner.t] = dmApplied[runner.t]] /\ worldRev' \in Nat
  BY DEF DmInv, DmTyped
<1> QED BY <1>1, <1>2, EngineMoves

LEMMA PrepareStep ==
  ASSUME DmInv, Prepare
  PROVE  DmInv' /\ WhatIsOverIsKept
<1> DEFINE tools == Append(Row.tools, NewCall)
           r == [Row EXCEPT !.tools = tools]
           effects == dmApplied[runner.t]
<1>1. RunnerAt("run") /\ Leased /\ Len(Row.tools) < Manifest
  BY DEF Prepare, Scoped
<1>2. Row \in DmRow /\ RowHolds(Row, effects) /\ Row = dmTurn[runner.t]
  BY <1>1, LeaseIsLive DEF RunnerAt
<1>3. NewCall \in DmTool /\ NewCall.said = "nothing" /\ NewCall.refusal = FALSE
  BY DEF NewCall, DmTool, DmInv, DmTyped
<1>4. /\ tools \in Seq(DmTool) /\ Len(tools) = Len(Row.tools) + 1 /\ Len(Row.tools) \in Nat
      /\ DOMAIN Row.tools = 1..Len(Row.tools)
      /\ \A k \in DOMAIN Row.tools : tools[k] = Row.tools[k]
      /\ DOMAIN tools = 1..Len(tools) /\ tools[Len(tools)] = NewCall
  <2>1. Row.tools \in Seq(DmTool)
    BY <1>2 DEF DmRow
  <2>2. /\ tools \in Seq(DmTool) /\ Len(tools) = Len(Row.tools) + 1
        /\ \A k \in 1..Len(Row.tools) : tools[k] = Row.tools[k]
        /\ tools[Len(Row.tools) + 1] = NewCall
    BY <1>3, <2>1
  <2> HIDE DEF tools
  <2> QED BY <2>1, <2>2
<1> HIDE DEF tools
<1>5. r \in DmRow /\ r.st = Row.st /\ r.tools = tools /\ r.reply = Row.reply /\ r.done = Row.done
      /\ r.log = Row.log
  BY <1>2, <1>4 DEF DmRow
<1>6. dmTurn' = [dmTurn EXCEPT ![runner.t] = r]
  BY <1>2 DEF Prepare, Set, tools
<1> HIDE DEF r
<1>7. RowHolds(r, effects)
  <2>1. Manifest \in Nat /\ effects \in [1..Manifest -> Nat]
    BY RoomDmAssumption, <1>1, LeaseIsLive DEF RunnerAt
  <2>2. Len(r.tools) <= Manifest /\ \A k \in 1..Manifest :
          effects[k] <= 1 /\ (effects[k] > 0 => k <= Len(r.tools))
    BY <1>1, <1>2, <1>4, <1>5, <2>1 DEF RowHolds
  <2>3. ~Row.reply /\ ~Row.done /\ Row.st = "running"
    BY <1>1, <1>2, LeaseIsLive DEF RowHolds, RunnerAt
  <2>4. ASSUME NEW k \in DOMAIN r.tools PROVE ToolHolds(r.tools[k], effects[k])
    <3>1. CASE k \in DOMAIN Row.tools
      BY <1>2, <1>4, <1>5, <3>1 DEF RowHolds
    <3>2. CASE k = Len(tools)
      BY <1>3, <1>4, <1>5, <3>2 DEF ToolHolds
    <3> QED BY <1>4, <1>5, <2>4, <3>1, <3>2
  <2> QED BY <1>5, <2>2, <2>3, <2>4 DEF RowHolds
<1> QED BY <1>1, <1>5, <1>6, <1>7, EngineWrites DEF Prepare, World

(* A call whose row is at work has not been answered, and its turn has no  *)
(* reply yet.                                                              *)
LEMMA AtWork ==
  ASSUME DmInv, RunnerAt("run"), Leased, NEW k, Working(k)
  PROVE  /\ Row \in DmRow /\ k \in 1..Manifest /\ k \in DOMAIN Row.tools
         /\ Row.tools[k] \in DmTool /\ Row.tools[k].said = "nothing"
         /\ ~Row.reply /\ ~Row.done /\ Row.st = "running"
         /\ dmApplied[runner.t][k] \in {0, 1}
         /\ ToolHolds(Row.tools[k], dmApplied[runner.t][k])
<1>1. /\ Row \in DmRow /\ RowHolds(Row, dmApplied[runner.t]) /\ Row.st = "running"
      /\ dmApplied[runner.t] \in [1..Manifest -> Nat]
  BY LeaseIsLive DEF RunnerAt
<1>2. k \in DOMAIN Row.tools /\ Row.tools[k].said = "nothing"
  BY DEF Working, Calls
<1>3. Row.tools \in Seq(DmTool)
  BY <1>1 DEF DmRow
<1>4. k \in 1..Manifest
  BY <1>1, <1>2, <1>3, RoomDmAssumption DEF RowHolds
<1>5. ~Row.reply /\ ~Row.done /\ ToolHolds(Row.tools[k], dmApplied[runner.t][k])
  BY <1>1, <1>2 DEF RowHolds
<1>6. dmApplied[runner.t][k] \in Nat /\ dmApplied[runner.t][k] <= 1
  BY <1>1, <1>4 DEF RowHolds
<1> QED BY <1>1, <1>2, <1>3, <1>4, <1>5, <1>6

(* The call at work is changed in its row.                                 *)
LEMMA ToolMoves ==
  ASSUME DmInv, RunnerAt("run"), Leased, NEW k, Working(k), NEW c \in DmTool,
         ToolHolds(c, dmApplied[runner.t][k]),
         dmTurn' = [dmTurn EXCEPT ![runner.t] =
                       [Row EXCEPT !.tools = [Row.tools EXCEPT ![k] = c]]],
         UNCHANGED <<World, runner, ear, dmApplied>>
  PROVE  DmInv' /\ WhatIsOverIsKept
<1> DEFINE tools == [Row.tools EXCEPT ![k] = c]
           r == [Row EXCEPT !.tools = tools]
<1>1. Row \in DmRow /\ RowHolds(Row, dmApplied[runner.t])
  BY LeaseIsLive DEF RunnerAt
<1>2. k \in DOMAIN Row.tools /\ ~Row.reply /\ ~Row.done /\ Row.st = "running"
  BY AtWork
<1>3. /\ tools \in Seq(DmTool) /\ Len(tools) = Len(Row.tools) /\ DOMAIN tools = DOMAIN Row.tools
      /\ tools[k] = c /\ \A j \in DOMAIN Row.tools : j # k => tools[j] = Row.tools[j]
  BY <1>1, <1>2 DEF DmRow
<1> HIDE DEF tools
<1>4. r \in DmRow /\ r.tools = tools /\ r.st = Row.st /\ r.reply = Row.reply /\ r.done = Row.done
  BY <1>1, <1>3 DEF DmRow
<1>5. dmTurn' = [dmTurn EXCEPT ![runner.t] = r]
  BY DEF tools
<1> HIDE DEF r
<1>6. RowHolds(r, dmApplied[runner.t])
  BY <1>1, <1>2, <1>3, <1>4 DEF RowHolds
<1> QED BY <1>4, <1>5, <1>6, EngineWrites DEF World

LEMMA RefuseStep ==
  ASSUME DmInv, NEW k \in 1..Manifest, Refuse(k)
  PROVE  DmInv' /\ WhatIsOverIsKept
<1> DEFINE c == [Row.tools[k] EXCEPT !.refusal = TRUE]
<1>1. RunnerAt("run") /\ Leased /\ Working(k) /\ ~Resolved(runner.t, k)
  BY DEF Refuse, Scoped
<1>2. /\ Row \in DmRow /\ Row.tools[k] \in DmTool /\ Row.tools[k].said = "nothing"
      /\ dmApplied[runner.t][k] \in {0, 1} /\ runner.t \in DmTurns /\ Row = dmTurn[runner.t]
  BY <1>1, AtWork, LeaseIsLive DEF RunnerAt
<1>3. c \in DmTool /\ c.said = "nothing" /\ c.refusal = TRUE
  BY <1>2 DEF DmTool
<1>4. dmApplied[runner.t][k] = 0
  BY <1>1, <1>2 DEF Resolved, Receipted
<1>5. dmTurn' = [dmTurn EXCEPT ![runner.t] =
                    [Row EXCEPT !.tools = [Row.tools EXCEPT ![k] = c]]]
  BY <1>2 DEF Refuse
<1> HIDE DEF c
<1>6. ToolHolds(c, dmApplied[runner.t][k])
  BY <1>3, <1>4 DEF ToolHolds
<1>7. UNCHANGED <<World, runner, ear, dmApplied>>
  BY DEF Refuse
<1> QED BY <1>1, <1>3, <1>5, <1>6, <1>7, ToolMoves

LEMMA TellStep ==
  ASSUME DmInv, NEW k \in 1..Manifest, Tell(k)
  PROVE  DmInv' /\ WhatIsOverIsKept
<1> DEFINE word == IF Row.tools[k].refusal THEN "refused" ELSE "performed"
           c == [Row.tools[k] EXCEPT !.said = word]
<1>1. RunnerAt("run") /\ Leased /\ Working(k) /\ Resolved(runner.t, k)
  BY DEF Tell
<1>2. /\ Row \in DmRow /\ Row.tools[k] \in DmTool /\ Row = dmTurn[runner.t]
      /\ dmApplied[runner.t][k] \in {0, 1} /\ ToolHolds(Row.tools[k], dmApplied[runner.t][k])
  BY <1>1, AtWork, LeaseIsLive DEF RunnerAt
<1>3. dmTurn' = [dmTurn EXCEPT ![runner.t] =
                    [Row EXCEPT !.tools = [Row.tools EXCEPT ![k] = c]]]
  BY <1>2 DEF Tell
<1>4. c \in DmTool /\ c.said = word /\ c.refusal = Row.tools[k].refusal
  BY <1>2 DEF DmTool
<1> HIDE DEF c
<1>5. Row.tools[k].refusal \in BOOLEAN
  BY <1>2 DEF DmTool
<1>6. Row.tools[k].refusal \/ dmApplied[runner.t][k] = 1
  BY <1>1, <1>2 DEF Resolved, Receipted
<1>7. ToolHolds(c, dmApplied[runner.t][k])
  BY <1>2, <1>4, <1>5, <1>6 DEF ToolHolds
<1>8. UNCHANGED <<World, runner, ear, dmApplied>>
  BY DEF Tell
<1> QED BY <1>1, <1>3, <1>4, <1>7, <1>8, ToolMoves

(* The effect, once: a receipt or a refusal would have stopped it.         *)
LEMMA EffectStep ==
  ASSUME DmInv, NEW k \in 1..Manifest, Effect(k)
  PROVE  DmInv' /\ WhatIsOverIsKept
<1> DEFINE effects == [dmApplied[runner.t] EXCEPT ![k] = dmApplied[runner.t][k] + 1]
<1>1. RunnerAt("run") /\ Leased /\ Working(k) /\ ~Resolved(runner.t, k)
  BY DEF Effect, BindingStands, Scoped
<1>2. /\ Row \in DmRow /\ RowHolds(Row, dmApplied[runner.t]) /\ Row = dmTurn[runner.t]
      /\ runner.t \in DmTurns /\ ~TurnOver(runner.t) /\ runner.at = "run"
      /\ dmApplied[runner.t] \in [1..Manifest -> Nat]
  BY <1>1, LeaseIsLive DEF RunnerAt
<1>3. /\ k \in DOMAIN Row.tools /\ Row.tools[k].said = "nothing"
      /\ dmApplied[runner.t][k] \in {0, 1} /\ Row.tools[k] \in DmTool
  BY <1>1, AtWork
<1>4. dmApplied[runner.t][k] = 0 /\ Row.tools[k].refusal = FALSE
  BY <1>1, <1>2, <1>3 DEF Resolved, Receipted, DmTool
<1>5. /\ effects \in [1..Manifest -> Nat] /\ effects[k] = 1
      /\ \A j \in 1..Manifest : j # k => effects[j] = dmApplied[runner.t][j]
  <2>1. effects = [dmApplied[runner.t] EXCEPT ![k] = 1]
    BY <1>4
  <2> HIDE DEF effects
  <2> QED BY <1>2, <2>1
<1>6. dmApplied' = [dmApplied EXCEPT ![runner.t] = effects]
  BY DEF Effect
<1> HIDE DEF effects
<1>7. Len(Row.tools) \in Nat /\ DOMAIN Row.tools = 1..Len(Row.tools)
  BY <1>2 DEF DmRow
<1>8. RowHolds(Row, effects)
  <2>1. \A j \in 1..Manifest : effects[j] <= 1 /\ (effects[j] > 0 => j <= Len(Row.tools))
    BY <1>2, <1>3, <1>5, <1>7 DEF RowHolds
  <2>2. \A j \in DOMAIN Row.tools : ToolHolds(Row.tools[j], effects[j])
    <3>1. Len(Row.tools) <= Manifest /\ Manifest \in Nat
      BY <1>2, RoomDmAssumption DEF RowHolds
    <3>2. DOMAIN Row.tools \subseteq 1..Manifest
      BY <1>7, <3>1
    <3> QED BY <1>2, <1>3, <1>4, <1>5, <3>2 DEF RowHolds, ToolHolds
  <2> QED BY <1>2, <2>1, <2>2 DEF RowHolds
<1>9. dmTurn' = [dmTurn EXCEPT ![runner.t] = Row] /\ worldRev' \in Nat
      /\ UNCHANGED <<roomEpoch, seated, resets, process, ear>>
  BY <1>2 DEF Effect, DmInv, DmTyped
<1>10. runner' = runner \/ Step("fail")
  BY DEF Effect
<1> QED BY <1>2, <1>5, <1>6, <1>8, <1>9, <1>10, EngineMoves

LEMMA LogStep ==
  ASSUME DmInv, Log
  PROVE  DmInv' /\ WhatIsOverIsKept
<1> DEFINE r == [Row EXCEPT !.log = Row.log + 1]
<1>1. RunnerAt("run") /\ Leased /\ Row.log < Told(Row)
  BY DEF Log, Owned, Scoped
<1>2. Row \in DmRow /\ RowHolds(Row, dmApplied[runner.t]) /\ Row = dmTurn[runner.t]
      /\ Row.st = "running"
  BY <1>1, LeaseIsLive DEF RunnerAt
<1>3. Row.log + 1 \in Nat
  BY <1>2 DEF DmRow
<1>4. r \in DmRow /\ r.st = Row.st /\ r.tools = Row.tools /\ r.reply = Row.reply
      /\ r.done = Row.done
  BY <1>2, <1>3 DEF DmRow
<1>5. dmTurn' = [dmTurn EXCEPT ![runner.t] = r]
  BY <1>2 DEF Log, Set
<1> HIDE DEF r
<1>6. ~Row.done
  <2>1. Row.done => Told(Row) = Manifest /\ Row.log = Manifest
    BY <1>2, AllTold DEF RowHolds
  <2> QED BY <1>1, <2>1, RoomDmAssumption
<1>7. RowHolds(r, dmApplied[runner.t])
  BY <1>2, <1>4, <1>6 DEF RowHolds
<1> QED BY <1>1, <1>4, <1>5, <1>7, EngineWrites DEF Log, World

LEMMA NarrateStep ==
  ASSUME DmInv, Narrate
  PROVE  DmInv' /\ WhatIsOverIsKept
<1> DEFINE r == [Row EXCEPT !.reply = TRUE]
<1>1. RunnerAt("run") /\ Leased /\ ~Row.reply /\ Told(Row) = Manifest
  BY DEF Narrate
<1>2. Row \in DmRow /\ RowHolds(Row, dmApplied[runner.t]) /\ Row = dmTurn[runner.t]
      /\ Row.st = "running"
  BY <1>1, LeaseIsLive DEF RunnerAt
<1>3. r \in DmRow /\ r.st = Row.st /\ r.tools = Row.tools /\ r.reply = TRUE
      /\ r.done = Row.done /\ r.log = Row.log
  BY <1>2 DEF DmRow
<1>4. dmTurn' = [dmTurn EXCEPT ![runner.t] = r]
  BY <1>2 DEF Narrate, Set
<1> HIDE DEF r
<1>5. Len(Row.tools) = Manifest /\ \A k \in DOMAIN Row.tools : Row.tools[k].said # "nothing"
  BY <1>1, <1>2, ToldAll DEF RowHolds
<1>6. RowHolds(r, dmApplied[runner.t])
  BY <1>1, <1>2, <1>3, <1>5 DEF RowHolds
<1> QED BY <1>1, <1>3, <1>4, <1>6, EngineWrites DEF Narrate, World

LEMMA DoneStep ==
  ASSUME DmInv, Done
  PROVE  DmInv' /\ WhatIsOverIsKept
<1> DEFINE r == [Row EXCEPT !.done = TRUE]
<1>1. RunnerAt("run") /\ Leased /\ Row.reply /\ Row.log = Told(Row)
  BY DEF Done, Owned, Scoped
<1>2. Row \in DmRow /\ RowHolds(Row, dmApplied[runner.t]) /\ Row = dmTurn[runner.t]
      /\ Row.st = "running"
  BY <1>1, LeaseIsLive DEF RunnerAt
<1>3. r \in DmRow /\ r.st = Row.st /\ r.tools = Row.tools /\ r.reply = Row.reply
      /\ r.log = Row.log
  BY <1>2 DEF DmRow
<1>4. dmTurn' = [dmTurn EXCEPT ![runner.t] = r]
  BY <1>2 DEF Done, Set
<1> HIDE DEF r
<1>5. Row.log = Manifest
  BY <1>1, <1>2, AllTold DEF RowHolds
<1>6. RowHolds(r, dmApplied[runner.t])
  BY <1>1, <1>2, <1>3, <1>5 DEF RowHolds
<1> QED BY <1>1, <1>3, <1>4, <1>6, EngineWrites DEF Done, World

-----------------------------------------------------------------------------
(* Steps that leave the turns alone.                                       *)
LEMMA TurnsStay ==
  ASSUME DmInv, UNCHANGED <<roomEpoch, dmTurn, dmApplied>>,
         seated' \subseteq DmMembers, resets' \in Nat, worldRev' \in Nat, process' \in Nat,
         runner' \in DmRunner, RunnerBacked', ear' \in [DmMembers -> DmEar],
         \A m \in DmMembers : EarHolds(ear'[m])
  PROVE  DmInv' /\ WhatIsOverIsKept
BY DEF DmInv, DmTyped, WhatIsOverIsKept, EarHolds

LEMMA ListenHolds ==
  ASSUME DmInv, NEW t \in DmTurns, Listen(t)
  PROVE  ear' \in [DmMembers -> DmEar] /\ \A m \in DmMembers : EarHolds(ear'[m])
<1> DEFINE e == [t |-> t, epoch |-> runner.epoch, got |-> 0, done |-> FALSE]
<1>1. e \in DmEar /\ e.done = FALSE
  BY DEF DmEar, DmInv, DmTyped, DmRunner
<1>2. ear' = [ear EXCEPT ![Author[t]] = e] /\ Author[t] \in DmMembers
  BY RoomDmAssumption DEF Listen
<1> HIDE DEF e
<1>3. ear \in [DmMembers -> DmEar] /\ \A m \in DmMembers : EarHolds(ear[m])
  BY DEF DmInv, DmTyped
<1>4. ear' \in [DmMembers -> DmEar] /\ \A m \in DmMembers : ear'[m] \in {e, ear[m]}
  BY <1>1, <1>2, <1>3
<1>5. EarHolds(e)
  BY <1>1 DEF EarHolds
<1> QED BY <1>3, <1>4, <1>5

LEMMA TakeLaneStep ==
  ASSUME DmInv, NEW t \in DmTurns, NEW resume \in BOOLEAN, TakeLane(t, resume)
  PROVE  DmInv' /\ WhatIsOverIsKept
<1> DEFINE n == [t |-> t, at |-> "claim", epoch |-> roomEpoch, resume |-> resume]
<1>1. n \in DmRunner /\ n.t = t /\ n.at = "claim" /\ n.epoch = roomEpoch /\ roomEpoch \in Nat
  BY DEF DmRunner, DmInv, DmTyped
<1>2. runner' = n /\ UNCHANGED <<World, dmTurn, ear, dmApplied>>
  BY DEF TakeLane
<1> HIDE DEF n
<1>3. RunnerBacked'
  BY <1>1, <1>2 DEF RunnerBacked, World
<1> QED BY <1>1, <1>2, <1>3, TurnsStay DEF DmInv, DmTyped, World

LEMMA BindStep ==
  ASSUME DmInv, Bind
  PROVE  DmInv' /\ WhatIsOverIsKept
<1>1. runner.at = "bind" /\ UNCHANGED <<World, dmTurn, dmApplied>>
  BY DEF Bind, RunnerAt
<1>2. RunnerBacked' /\ runner' \in DmRunner
  BY <1>1, RunnerGoesOn DEF Bind, World
<1>3. ear' \in [DmMembers -> DmEar] /\ \A m \in DmMembers : EarHolds(ear'[m])
  <2>1. CASE UNCHANGED ear
    BY <2>1 DEF DmInv, DmTyped
  <2>2. CASE Listen(runner.t)
    BY <1>1, <2>2, ListenHolds, LeaseIsLive
  <2> QED BY <2>1, <2>2 DEF Bind
<1> QED BY <1>1, <1>2, <1>3, TurnsStay DEF DmInv, DmTyped, World

LEMMA StopStep ==
  ASSUME DmInv, Fail \/ Dropped \/ ActByHand \/ \E m \in DmMembers : Deliver(m)
  PROVE  DmInv' /\ WhatIsOverIsKept
<1>1. CASE Fail
  <2>1. runner.at = "run" /\ UNCHANGED <<World, dmTurn, ear, dmApplied>> /\ Step("fail")
    BY <1>1 DEF Fail, RunnerAt
  <2>2. RunnerBacked' /\ runner' \in DmRunner
    BY <2>1, RunnerGoesOn DEF World
  <2> QED BY <2>1, <2>2, TurnsStay DEF DmInv, DmTyped, World
<1>2. CASE Dropped
  <2>1. runner' = NoRunner /\ UNCHANGED <<World, dmTurn, ear, dmApplied>>
    BY <1>2 DEF Dropped
  <2>2. RunnerBacked' /\ runner' \in DmRunner
    BY <2>1 DEF RunnerBacked, NoRunner, DmRunner
  <2> QED BY <2>1, <2>2, TurnsStay DEF DmInv, DmTyped, World
<1>3. CASE ActByHand
  <2>1. /\ UNCHANGED <<roomEpoch, seated, resets, process, dmTurn, runner, ear, dmApplied>>
        /\ worldRev' \in Nat
    BY <1>3 DEF ActByHand, DmInv, DmTyped
  <2>2. RunnerBacked'
    BY <2>1 DEF DmInv, RunnerBacked, Row
  <2> QED BY <2>1, <2>2, TurnsStay DEF DmInv, DmTyped
<1>4. ASSUME NEW m \in DmMembers, Deliver(m) PROVE DmInv' /\ WhatIsOverIsKept
  <2> DEFINE e == ear[m]
  <2>1. UNCHANGED <<World, dmTurn, runner, dmApplied>> /\ e.t # NoTurn /\ e \in DmEar
        /\ e.t \in DmTurns
    BY <1>4 DEF Deliver, DmInv, DmTyped, DmEar
  <2>2. RunnerBacked'
    BY <2>1 DEF DmInv, RunnerBacked, Row, World
  <2>3. dmTurn[e.t] \in DmRow /\ RowHolds(dmTurn[e.t], dmApplied[e.t]) /\ EarHolds(e)
    BY <2>1 DEF DmInv, DmTyped
  <2>4. PICK h \in DmEar : ear' = [ear EXCEPT ![m] = h] /\ EarHolds(h)
    <3>1. CASE e.got < dmTurn[e.t].log /\ ear' = [ear EXCEPT ![m].got = @ + 1]
      <4> DEFINE more == e.got + 1
                 h == [e EXCEPT !.got = more]
      <4>1. more \in Nat
        BY <2>1 DEF DmEar
      <4>2. h \in DmEar /\ h.t = e.t /\ h.done = e.done
        BY <2>1, <4>1 DEF DmEar
      <4>3. ear' = [ear EXCEPT ![m] = h]
        BY <3>1
      <4>4. ~e.done
        BY <2>1, <2>3, <3>1, RoomDmAssumption DEF EarHolds, RowHolds
      <4> HIDE DEF h
      <4>5. EarHolds(h)
        BY <4>2, <4>4 DEF EarHolds
      <4> QED BY <4>2, <4>3, <4>5
    <3>2. CASE /\ e.got = dmTurn[e.t].log /\ dmTurn[e.t].st = "complete"
               /\ ear' = [ear EXCEPT ![m].done = TRUE]
      <4> DEFINE h == [e EXCEPT !.done = TRUE]
      <4>1. h \in DmEar /\ h.t = e.t /\ h.got = e.got
        BY <2>1 DEF DmEar
      <4>2. ear' = [ear EXCEPT ![m] = h]
        BY <3>2
      <4> HIDE DEF h
      <4>3. EarHolds(h)
        BY <2>3, <3>2, <4>1 DEF EarHolds, RowHolds
      <4> QED BY <4>1, <4>2, <4>3
    <3> QED BY <1>4, <3>1, <3>2 DEF Deliver
  <2>5. ear' \in [DmMembers -> DmEar] /\ \A n \in DmMembers : EarHolds(ear'[n])
    BY <2>4 DEF DmInv, DmTyped
  <2> QED BY <2>1, <2>2, <2>5, TurnsStay DEF DmInv, DmTyped, World
<1> QED BY <1>1, <1>2, <1>3, <1>4

-----------------------------------------------------------------------------
(* What takes or gives away a turn's status.                               *)
RowStatus(r, st) == [r EXCEPT !.st = st]

LEMMA StatusHolds ==
  ASSUME NEW r \in DmRow, NEW n, RowHolds(r, n), r.st # "none",
         NEW st \in {"running", "interrupted", "superseded", "complete"},
         st = "complete" => r.done
  PROVE  /\ RowStatus(r, st) \in DmRow /\ RowStatus(r, st).st = st
         /\ RowHolds(RowStatus(r, st), n)
<1> DEFINE q == RowStatus(r, st)
<1>1. q \in DmRow /\ q.st = st /\ q.tools = r.tools /\ q.reply = r.reply /\ q.done = r.done
      /\ q.log = r.log
  BY DEF RowStatus, DmRow
<1> HIDE DEF q
<1>2. RowHolds(q, n)
  BY <1>1 DEF RowHolds
<1> QED BY <1>1, <1>2 DEF q

LEMMA StatusMoves ==
  ASSUME DmInv, NEW st \in {"interrupted", "superseded"}, NEW T \in SUBSET DmTurns,
         \A t \in T : Pending(dmTurn[t]),
         dmTurn' = [t \in DmTurns |-> IF t \in T THEN [dmTurn[t] EXCEPT !.st = st] ELSE dmTurn[t]],
         UNCHANGED dmApplied
  PROVE  dmTurn' \in [DmTurns -> DmRow] /\ Rows' /\ WhatIsOverIsKept
<1>1. \A t \in DmTurns : dmTurn[t] \in DmRow /\ RowHolds(dmTurn[t], dmApplied[t])
  BY DEF DmInv, DmTyped
<1>2. \A t \in T : dmTurn[t].st # "none" /\ ~TurnOver(t)
  BY DEF Pending, TurnOver
<1>3. \A t \in T : dmTurn'[t] = RowStatus(dmTurn[t], st)
  BY DEF RowStatus
<1>4. \A t \in DmTurns : dmTurn'[t] \in DmRow /\ RowHolds(dmTurn'[t], dmApplied[t])
  <2> TAKE t \in DmTurns
  <2>1. CASE t \in T
    <3>1. dmTurn[t] \in DmRow /\ RowHolds(dmTurn[t], dmApplied[t]) /\ dmTurn[t].st # "none"
      BY <1>1, <1>2, <2>1
    <3>2. st \in {"running", "interrupted", "superseded", "complete"} /\ st # "complete"
      OBVIOUS
    <3>3. RowStatus(dmTurn[t], st) \in DmRow
          /\ RowHolds(RowStatus(dmTurn[t], st), dmApplied[t])
      BY <3>1, <3>2, StatusHolds
    <3> QED BY <1>3, <2>1, <3>3
  <2>2. CASE t \notin T
    BY <1>1, <2>2
  <2> QED BY <2>1, <2>2
<1>5. dmTurn' \in [DmTurns -> DmRow]
  BY <1>4
<1>6. WhatIsOverIsKept
  BY <1>2 DEF WhatIsOverIsKept
<1> QED BY <1>4, <1>5, <1>6 DEF Rows

LEMMA SupersedeMoves ==
  ASSUME DmInv, NEW kept, dmTurn' = Superseded(kept), UNCHANGED dmApplied
  PROVE  dmTurn' \in [DmTurns -> DmRow] /\ Rows' /\ WhatIsOverIsKept
<1> DEFINE T == {t \in DmTurns : Pending(dmTurn[t]) /\ t \notin kept}
<1>1. dmTurn' = [t \in DmTurns |-> IF t \in T THEN [dmTurn[t] EXCEPT !.st = "superseded"]
                                  ELSE dmTurn[t]]
  BY DEF Superseded
<1>2. T \subseteq DmTurns /\ \A t \in T : Pending(dmTurn[t])
  OBVIOUS
<1> HIDE DEF T
<1> QED BY <1>1, <1>2, StatusMoves

LEMMA ChangeSeatsStep ==
  ASSUME DmInv, NEW members \in SUBSET DmMembers, ChangeSeats(members)
  PROVE  DmInv' /\ WhatIsOverIsKept
<1>1. /\ roomEpoch' = roomEpoch + 1 /\ roomEpoch \in Nat /\ seated' \subseteq DmMembers
      /\ UNCHANGED <<resets, worldRev, process, runner, ear, dmApplied>>
  BY DEF ChangeSeats, DmInv, DmTyped
<1>2. dmTurn' \in [DmTurns -> DmRow] /\ Rows' /\ WhatIsOverIsKept
  BY SupersedeMoves DEF ChangeSeats
<1>3. RunnerBacked'
  <2>1. runner.at # "off" => runner.t \in DmTurns /\ runner.epoch <= roomEpoch
        /\ runner.epoch \in Nat
    BY DEF DmInv, RunnerBacked, DmTyped, DmRunner
  <2>2. ASSUME NEW t \in DmTurns, dmTurn[t].st \in {"running", "superseded"}
        PROVE  dmTurn'[t].st \in {"running", "superseded"}
    <3>1. dmTurn'[t] = dmTurn[t] \/ dmTurn'[t] = [dmTurn[t] EXCEPT !.st = "superseded"]
      BY DEF ChangeSeats, Superseded
    <3> QED BY <2>2, <3>1 DEF DmInv, DmTyped, DmRow
  <2> QED BY <1>1, <2>1, <2>2 DEF DmInv, RunnerBacked, Row
<1>4. (\A m \in DmMembers : EarHolds(ear[m]))'
  BY <1>1, <1>2, EarsStay
<1>5. DmTyped'
  BY <1>1, <1>2 DEF DmInv, DmTyped
<1> QED BY <1>2, <1>3, <1>4, <1>5 DEF DmInv, Rows

LEMMA RestoreRoomStep ==
  ASSUME DmInv, RestoreRoom
  PROVE  DmInv' /\ WhatIsOverIsKept
<1>1. /\ runner.at = "off" /\ resets' \in Nat /\ worldRev' \in Nat
      /\ UNCHANGED <<roomEpoch, seated, process, runner, ear, dmApplied>>
  BY DEF RestoreRoom, RunnerAt, DmInv, DmTyped
<1>2. dmTurn' \in [DmTurns -> DmRow] /\ Rows' /\ WhatIsOverIsKept
  BY SupersedeMoves DEF RestoreRoom
<1>3. (\A m \in DmMembers : EarHolds(ear[m]))'
  BY <1>1, <1>2, EarsStay
<1>4. DmTyped' /\ RunnerBacked'
  BY <1>1, <1>2 DEF DmInv, DmTyped, RunnerBacked
<1> QED BY <1>2, <1>3, <1>4 DEF DmInv, Rows

LEMMA RestartStep ==
  ASSUME DmInv, Restart
  PROVE  DmInv' /\ WhatIsOverIsKept
<1> DEFINE T == {t \in DmTurns : Pending(dmTurn[t])}
<1>1. /\ runner' = NoRunner /\ process' \in Nat /\ ear' = [m \in DmMembers |-> Deaf]
      /\ UNCHANGED <<roomEpoch, seated, resets, worldRev, dmApplied>>
  BY DEF Restart, DmInv, DmTyped
<1>2. dmTurn' = [t \in DmTurns |-> IF t \in T THEN [dmTurn[t] EXCEPT !.st = "interrupted"]
                                  ELSE dmTurn[t]]
  BY DEF Restart
<1>3. T \subseteq DmTurns /\ \A t \in T : Pending(dmTurn[t])
  OBVIOUS
<1> HIDE DEF T
<1>4. dmTurn' \in [DmTurns -> DmRow] /\ Rows' /\ WhatIsOverIsKept
  BY <1>1, <1>2, <1>3, StatusMoves
<1>5. Deaf \in DmEar /\ Deaf.t = NoTurn /\ NoRunner \in DmRunner /\ NoRunner.at = "off"
  BY DEF Deaf, DmEar, NoRunner, DmRunner
<1>6. DmTyped' /\ RunnerBacked' /\ \A m \in DmMembers : EarHolds(ear'[m])
  BY <1>1, <1>4, <1>5 DEF DmInv, DmTyped, RunnerBacked, EarHolds
<1>7. (\A m \in DmMembers : EarHolds(ear[m]))'
  BY <1>1, <1>5 DEF EarHolds
<1> QED BY <1>4, <1>6, <1>7 DEF DmInv, Rows

LEMMA FinishStep ==
  ASSUME DmInv, Finish
  PROVE  DmInv' /\ WhatIsOverIsKept
<1>1. /\ runner.at \in {"complete", "fail"} /\ runner' = NoRunner
      /\ UNCHANGED <<World, ear, dmApplied>>
  BY DEF Finish
<1>2. NoRunner \in DmRunner /\ NoRunner.at = "off"
  BY DEF NoRunner, DmRunner
<1>3. dmTurn' \in [DmTurns -> DmRow] /\ Rows' /\ WhatIsOverIsKept
  <2>1. CASE UNCHANGED dmTurn
    BY <1>1, <2>1 DEF DmInv, DmTyped, Rows, WhatIsOverIsKept
  <2>2. CASE Owned
    <3> DEFINE whole == RunnerAt("complete") /\ Row.reply /\ Row.done
               st == IF whole THEN "complete" ELSE "interrupted"
    <3>1. /\ runner.t \in DmTurns /\ ~TurnOver(runner.t) /\ Row \in DmRow
          /\ RowHolds(Row, dmApplied[runner.t]) /\ Row = dmTurn[runner.t] /\ Row.st = "running"
          /\ dmApplied[runner.t] \in [1..Manifest -> Nat]
      BY <1>1, <2>2, LeaseIsLive DEF Owned, Scoped
    <3>2. dmTurn' = [dmTurn EXCEPT ![runner.t] = RowStatus(Row, st)]
      BY <2>2, <3>1 DEF Finish, Set, RowStatus
    <3>3. st \in {"complete", "interrupted"} /\ (st = "complete" => Row.done)
      OBVIOUS
    <3> HIDE DEF st
    <3>4. RowStatus(Row, st) \in DmRow /\ RowHolds(RowStatus(Row, st), dmApplied[runner.t])
      BY <3>1, <3>3, StatusHolds
    <3>5. dmApplied' = [dmApplied EXCEPT ![runner.t] = dmApplied[runner.t]]
      BY <1>1 DEF DmInv, DmTyped
    <3> QED BY <3>1, <3>2, <3>4, <3>5, RowMoves
  <2> QED BY <2>1, <2>2 DEF Finish
<1>4. (\A m \in DmMembers : EarHolds(ear[m]))'
  BY <1>1, <1>3, EarsStay
<1>5. DmTyped' /\ RunnerBacked'
  BY <1>1, <1>2, <1>3 DEF DmInv, DmTyped, RunnerBacked, World
<1> QED BY <1>3, <1>4, <1>5 DEF DmInv, Rows

(* claim: a turn begins, goes on, or is answered from its record.          *)
LEMMA ClaimStep ==
  ASSUME DmInv, Claim
  PROVE  DmInv' /\ WhatIsOverIsKept
<1>1. /\ runner.at = "claim" /\ runner.t \in DmTurns /\ Row = dmTurn[runner.t]
      /\ UNCHANGED <<World, dmApplied>> /\ Row \in DmRow /\ RowHolds(Row, dmApplied[runner.t])
      /\ dmApplied[runner.t] \in [1..Manifest -> Nat] /\ runner \in DmRunner
  BY DEF Claim, RunnerAt, DmInv, DmTyped, RunnerBacked, Row
<1>2. NoRunner \in DmRunner /\ NoRunner.at = "off"
  BY DEF NoRunner, DmRunner
<1>3. CASE runner' = NoRunner /\ UNCHANGED dmTurn /\ (UNCHANGED ear \/ Listen(runner.t))
  <2>1. ear' \in [DmMembers -> DmEar] /\ \A m \in DmMembers : EarHolds(ear'[m])
    BY <1>1, <1>3, ListenHolds DEF DmInv, DmTyped
  <2>2. RunnerBacked' /\ runner' \in DmRunner
    BY <1>2, <1>3 DEF RunnerBacked
  <2> QED BY <1>1, <1>3, <2>1, <2>2, TurnsStay DEF DmInv, DmTyped, World
<1>4. ASSUME NEW r \in DmRow, RowHolds(r, dmApplied[runner.t]), r.st = "running",
             ~TurnOver(runner.t), dmTurn' = [dmTurn EXCEPT ![runner.t] = r], Step("bind"),
             UNCHANGED ear
      PROVE  DmInv' /\ WhatIsOverIsKept
  <2>1. dmApplied' = [dmApplied EXCEPT ![runner.t] = dmApplied[runner.t]]
    BY <1>1 DEF DmInv, DmTyped
  <2>2. dmTurn' \in [DmTurns -> DmRow] /\ Rows' /\ WhatIsOverIsKept /\ dmTurn'[runner.t] = r
    BY <1>1, <1>4, <2>1, RowMoves
  <2>3. runner' \in DmRunner /\ runner'.t = runner.t /\ runner'.epoch = runner.epoch
    BY <1>1, <1>4 DEF Step, DmRunner
  <2>4. RunnerBacked'
    BY <1>1, <1>4, <2>2, <2>3 DEF DmInv, RunnerBacked, Row, World
  <2>5. (\A m \in DmMembers : EarHolds(ear[m]))'
    BY <1>4, <2>2, EarsStay
  <2>6. DmTyped'
    BY <1>1, <1>4, <2>2, <2>3 DEF DmInv, DmTyped, World
  <2> QED BY <2>2, <2>4, <2>5, <2>6 DEF DmInv, Rows
<1>5. CASE /\ Row.st = "none" /\ Step("bind") /\ UNCHANGED ear
           /\ dmTurn' = [dmTurn EXCEPT ![runner.t] =
                   [Unclaimed EXCEPT !.st = "running", !.epoch = roomEpoch, !.reset = resets,
                                 !.owner = process]]
  <2> DEFINE r == [Unclaimed EXCEPT !.st = "running", !.epoch = roomEpoch, !.reset = resets,
                                    !.owner = process]
  <2>1. <<>> \in Seq(DmTool) /\ roomEpoch \in Nat /\ resets \in Nat /\ process \in Nat
    BY DEF DmInv, DmTyped
  <2>2. /\ r \in DmRow /\ r.st = "running" /\ r.tools = <<>> /\ r.reply = FALSE
        /\ r.done = FALSE
    BY <2>1 DEF Unclaimed, DmRow
  <2>3. dmTurn' = [dmTurn EXCEPT ![runner.t] = r]
    BY <1>5
  <2> HIDE DEF r
  <2>4. \A k \in 1..Manifest : dmApplied[runner.t][k] = 0
    BY <1>1, <1>5, RoomDmAssumption DEF RowHolds
  <2>5. RowHolds(r, dmApplied[runner.t])
    BY <2>2, <2>4, RoomDmAssumption DEF RowHolds
  <2> QED BY <1>1, <1>4, <1>5, <2>2, <2>3, <2>5 DEF TurnOver
<1>6. CASE /\ Row.st = "interrupted" /\ Step("bind") /\ UNCHANGED ear
           /\ dmTurn' = [dmTurn EXCEPT ![runner.t] =
                   [Row EXCEPT !.st = "running", !.owner = process, !.log = Told(Row),
                               !.done = FALSE]]
  <2> DEFINE r == [Row EXCEPT !.st = "running", !.owner = process, !.log = Told(Row),
                              !.done = FALSE]
  <2>1. Told(Row) \in Nat /\ process \in Nat
    <3>1. IsFiniteSet(DOMAIN Row.tools)
      <4>1. DOMAIN Row.tools = 1..Len(Row.tools) /\ Len(Row.tools) \in Nat
        BY <1>1 DEF DmRow
      <4> DEFINE m == Len(Row.tools)
      <4>2. m \in Nat
        BY <4>1
      <4> HIDE DEF m
      <4>3. IsFiniteSet(1..m)
        BY <4>2, FS_Interval
      <4> QED BY <4>1, <4>3 DEF m
    <3>2. IsFiniteSet({k \in DOMAIN Row.tools : Row.tools[k].said # "nothing"})
      BY <3>1, FS_Subset
    <3> QED BY <3>2, FS_CardinalityType DEF Told, DmInv, DmTyped
  <2>2. /\ r \in DmRow /\ r.st = "running" /\ r.tools = Row.tools /\ r.reply = Row.reply
        /\ r.done = FALSE
    BY <1>1, <2>1 DEF DmRow
  <2>3. dmTurn' = [dmTurn EXCEPT ![runner.t] = r]
    BY <1>6
  <2> HIDE DEF r
  <2>4. RowHolds(r, dmApplied[runner.t])
    BY <1>1, <2>2 DEF RowHolds
  <2> QED BY <1>1, <1>4, <1>6, <2>2, <2>3, <2>4 DEF TurnOver
<1> QED BY <1>3, <1>5, <1>6 DEF Claim

LEMMA DmStep ==
  ASSUME DmInv, [DmNext]_dmVars
  PROVE  DmInv' /\ WhatIsOverIsKept
<1>1. CASE UNCHANGED dmVars
  <2>1. ear' \in [DmMembers -> DmEar] /\ \A m \in DmMembers : EarHolds(ear'[m])
    BY <1>1 DEF dmVars, DmInv, DmTyped
  <2>2. RunnerBacked' /\ runner' \in DmRunner
    BY <1>1 DEF dmVars, DmInv, DmTyped, RunnerBacked, Row
  <2> QED BY <1>1, <2>1, <2>2, TurnsStay DEF dmVars, DmInv, DmTyped
<1> QED
  BY <1>1, TakeLaneStep, ClaimStep, BindStep, StopStep, PrepareStep, LogStep, NarrateStep,
     DoneStep, FinishStep, EffectStep, RefuseStep, TellStep, ChangeSeatsStep, RestoreRoomStep,
     RestartStep DEF DmNext

(* What the transcript of a turn tells of its calls is what happened, once *)
(* and for all; whoever heard the end of a turn heard all of it.           *)
THEOREM TurnsAreToldTruly == DmSpec => []TurnsToldTruly
<1>1. DmInv => TurnsToldTruly
  <2> SUFFICES ASSUME DmInv PROVE TurnsToldTruly
    OBVIOUS
  <2>1. ASSUME NEW t \in DmTurns, NEW k \in DOMAIN dmTurn[t].tools
        PROVE  /\ dmApplied[t][k] <= 1
               /\ dmTurn[t].tools[k].said = "performed" => dmApplied[t][k] = 1
               /\ dmTurn[t].tools[k].said = "refused" => dmApplied[t][k] = 0
    <3>1. RowHolds(dmTurn[t], dmApplied[t]) /\ dmTurn[t].tools \in Seq(DmTool)
      BY DEF DmInv, DmTyped, DmRow
    <3>2. k \in 1..Manifest
      BY <3>1, RoomDmAssumption DEF RowHolds
    <3> QED BY <3>1, <3>2 DEF RowHolds, ToolHolds
  <2>2. \A m \in DmMembers : EarHolds(ear[m])
    BY DEF DmInv
  <2> QED BY <2>1, <2>2 DEF TurnsToldTruly, EarHolds
<1>2. DmInv /\ [DmNext]_dmVars => DmInv'
  BY DmStep
<1> QED BY <1>1, <1>2, DmInvInit, PTL DEF DmSpec

(* A turn that is complete or superseded stays as it is, whatever an       *)
(* engine still does on a lease of an earlier epoch or timeline.           *)
THEOREM WhatIsOverStays == DmSpec => OverIsOver
<1>1. DmInv /\ [DmNext]_dmVars => DmInv' /\ WhatIsOverIsKept
  BY DmStep
<1>2. DmInv /\ [DmNext]_dmVars => DmInv' /\ [WhatIsOverIsKept]_dmVars
  BY <1>1
<1> QED BY <1>2, DmInvInit, PTL DEF DmSpec, OverIsOver

-----------------------------------------------------------------------------
(* The heroes of a party, by type.                                         *)
Draft == [by : Joiners \cup {NoDraft}, hero : Heroes \cup {NoDraft},
          st : {"none", "pending", "superseded", "accepted"}]
Member == [hero : Heroes, from : Drafts]

DraftsTyped ==
  /\ draft \in [Drafts -> Draft] /\ approval \in [Approvals -> Drafts \cup {NoDraft}]
  /\ party \in [DOMAIN party -> Member] /\ DOMAIN party \subseteq Joiners
  /\ IsFiniteSet(DOMAIN party) /\ shown \subseteq Drafts

(* A draft that was written has its player and hero.  A player has one     *)
(* undecided draft at most, and none in the party.                         *)
DraftsBacked ==
  \A d \in Drafts :
    /\ draft[d].st = "none" => draft[d].by = NoDraft
    /\ draft[d].st # "none" => draft[d].by \in Joiners /\ draft[d].hero \in Heroes
    /\ draft[d].st = "pending" =>
          /\ draft[d].by \notin DOMAIN party
          /\ \A e \in Drafts : draft[e].st = "pending" /\ draft[e].by = draft[d].by => d = e

(* The party is made of the accepted drafts, each with an approval.        *)
PartyBacked ==
  /\ \A d \in Drafts : draft[d].st = "accepted" =>
        /\ draft[d].by \in DOMAIN party /\ party[draft[d].by].from = d
        /\ \E c \in Approvals : approval[c] = d
  /\ \A m \in DOMAIN party :
        LET d == party[m].from IN
        draft[d].st = "accepted" /\ draft[d].by = m /\ draft[d].hero = party[m].hero
  /\ \A m, n \in DOMAIN party : party[m].hero = party[n].hero => m = n
  /\ \A d \in shown : draft[d].st = "accepted"
  /\ Cardinality(DOMAIN party) < PartyLimit

DraftsInv == DraftsTyped /\ DraftsBacked /\ PartyBacked

LEMMA DraftsInvInit == DraftsInit => DraftsInv
<1> SUFFICES ASSUME DraftsInit PROVE DraftsInv
  OBVIOUS
<1>1. Unwritten \in Draft /\ Unwritten.by = NoDraft /\ Unwritten.st = "none"
  BY DEF Unwritten, Draft
<1>2. DOMAIN party = {} /\ party \in [DOMAIN party -> Member]
  BY DEF DraftsInit
<1>3. IsFiniteSet({}) /\ Cardinality({}) = 0
  BY FS_EmptySet
<1>4. DraftsTyped
  BY <1>1, <1>2, <1>3 DEF DraftsInit, DraftsTyped
<1>5. DraftsBacked /\ PartyBacked
  BY <1>1, <1>2, <1>3, DraftsAssumption DEF DraftsInit, DraftsBacked, PartyBacked
<1> QED BY <1>4, <1>5 DEF DraftsInv

LEMMA SubmitStep ==
  ASSUME DraftsInv, NEW m \in Joiners, NEW d \in Drafts, NEW h \in Heroes, Submit(m, d, h)
  PROVE  DraftsInv'
<1> USE DEF DraftsInv
<1> DEFINE new == [by |-> m, hero |-> h, st |-> "pending"]
<1>1. new \in Draft /\ new.by = m /\ new.hero = h /\ new.st = "pending"
  BY DEF Draft
<1>2. draft[d].st = "none" /\ m \notin DOMAIN party
      /\ UNCHANGED <<approval, party, present, campaignRev, fighting, shown>>
  BY DEF Submit, Unwritten, MaySubmit
<1>3. draft' = [e \in Drafts |-> CASE e = d -> new
                                   [] e \in Replaces(m, d) -> [draft[e] EXCEPT !.st = "superseded"]
                                   [] OTHER -> draft[e]]
  BY DEF Submit
<1> HIDE DEF new
<1>4. draft'[d] = new
  <2>1. d \notin Replaces(m, d)
    BY DEF Replaces
  <2> QED BY <1>3, <2>1
<1>5. \A e \in Drafts : e # d =>
         \/ draft'[e] = draft[e] /\ ~(draft[e].by = m /\ draft[e].st = "pending")
         \/ /\ draft'[e] \in Draft /\ draft[e].st = "pending" /\ draft'[e].st = "superseded"
            /\ draft'[e].by = draft[e].by /\ draft'[e].hero = draft[e].hero
  BY <1>3 DEF Replaces, Undecided, Of, DraftsTyped, Draft
<1>6. DraftsTyped'
  BY <1>1, <1>2, <1>3, <1>4, <1>5 DEF DraftsTyped
<1>7. DraftsBacked'
  BY <1>1, <1>2, <1>4, <1>5 DEF DraftsBacked
<1>8. PartyBacked'
  <2>1. draft[d].st # "accepted" /\ draft'[d].st # "accepted"
    BY <1>1, <1>2, <1>4
  <2>2. \A e \in Drafts : draft[e].st = "accepted" <=> draft'[e].st = "accepted"
    BY <1>5, <2>1
  <2>3. \A e \in Drafts : draft[e].st = "accepted" => draft'[e] = draft[e]
    BY <1>5, <2>1
  <2>4. \A k \in DOMAIN party : party[k].from \in Drafts
    BY DEF DraftsTyped, Member
  <2>5. shown \subseteq Drafts
    BY DEF DraftsTyped
  <2> QED BY <1>2, <2>2, <2>3, <2>4, <2>5 DEF PartyBacked
<1> QED BY <1>6, <1>7, <1>8

LEMMA ApproveStep ==
  ASSUME DraftsInv, NEW c \in Approvals, NEW d \in Drafts, NEW expected, Approve(c, d, expected)
  PROVE  DraftsInv'
<1> USE DEF DraftsInv
<1> DEFINE m == draft[d].by
           n == [hero |-> draft[d].hero, from |-> d]
           done == [draft[d] EXCEPT !.st = "accepted"]
<1>1. /\ draft[d] \in Draft /\ draft[d].st = "pending" /\ approval[c] = NoDraft
      /\ m \in Joiners /\ draft[d].hero \in Heroes /\ MayEnroll(m, draft[d].hero)
  BY DEF Approve, DraftsBacked, DraftsTyped
<1>2. m \notin DOMAIN party /\ draft[d].hero \notin HeroesTaken
      /\ Cardinality(DOMAIN party) + 1 < PartyLimit
  BY <1>1 DEF MayEnroll
<1>3. n \in Member /\ n.hero = draft[d].hero /\ n.from = d
  BY <1>1 DEF Member
<1>4. done \in Draft /\ done.st = "accepted" /\ done.by = m /\ done.hero = draft[d].hero
  BY <1>1 DEF Draft
<1>5. party' = [k \in DOMAIN party \cup {m} |-> IF k = m THEN n ELSE party[k]]
  BY DEF Approve
<1>6. draft' = [draft EXCEPT ![d] = done]
  BY DEF Approve
<1>7. approval' = [approval EXCEPT ![c] = d] /\ shown' \in {shown, shown \cup {d}}
  BY DEF Approve
<1> HIDE DEF n, done
<1>8. draft'[d] = done /\ \A e \in Drafts : e # d => draft'[e] = draft[e]
  BY <1>6 DEF DraftsTyped
<1>9. /\ DOMAIN party' = DOMAIN party \cup {m} /\ party'[m] = n
      /\ \A k \in DOMAIN party : party'[k] = party[k]
      /\ \A k \in DOMAIN party : party[k] \in Member
  BY <1>2, <1>5 DEF DraftsTyped
<1>10. IsFiniteSet(DOMAIN party') /\ Cardinality(DOMAIN party') = Cardinality(DOMAIN party) + 1
  BY <1>2, <1>9, FS_AddElement DEF DraftsTyped
<1>11. DraftsTyped'
  <2>1. party' \in [DOMAIN party' -> Member]
    BY <1>3, <1>5, <1>9
  <2>2. draft' \in [Drafts -> Draft] /\ approval' \in [Approvals -> Drafts \cup {NoDraft}]
    BY <1>4, <1>6, <1>7 DEF DraftsTyped
  <2> QED BY <1>1, <1>7, <1>9, <1>10, <2>1, <2>2 DEF DraftsTyped
<1>12. DraftsBacked'
  BY <1>1, <1>4, <1>8, <1>9 DEF DraftsBacked
<1>13. PartyBacked'
  <2>1. \A e \in Drafts : e # d /\ draft[e].st = "accepted" => draft[e].by # m
    BY <1>2 DEF PartyBacked
  <2>2. /\ approval'[c] = d
        /\ \A e \in Drafts, b \in Approvals : approval[b] = e => approval'[b] = e
    BY <1>1, <1>7, DraftsAssumption DEF DraftsTyped
  <2>3. \A e \in Drafts : draft'[e].st = "accepted" =>
          /\ draft'[e].by \in DOMAIN party' /\ party'[draft'[e].by].from = e
          /\ \E b \in Approvals : approval'[b] = e
    <3> TAKE e \in Drafts
    <3>1. CASE e = d
      BY <1>3, <1>4, <1>8, <1>9, <2>2, <3>1
    <3>2. CASE e # d
      BY <1>8, <1>9, <2>1, <2>2, <3>2 DEF PartyBacked
    <3> QED BY <3>1, <3>2
  <2>4. \A k \in DOMAIN party' : /\ draft'[party'[k].from].st = "accepted"
                                 /\ draft'[party'[k].from].by = k
                                 /\ draft'[party'[k].from].hero = party'[k].hero
    <3> TAKE k \in DOMAIN party'
    <3>1. CASE k = m
      BY <1>3, <1>4, <1>8, <1>9, <3>1
    <3>2. CASE k \in DOMAIN party
      <4>1. party[k].from \in Drafts /\ party[k].from # d
        BY <1>1, <1>9, <3>2 DEF PartyBacked, Member
      <4> QED BY <1>8, <1>9, <3>2, <4>1 DEF PartyBacked
    <3> QED BY <1>9, <3>1, <3>2
  <2>5. \A k \in DOMAIN party : party[k].hero # draft[d].hero
    BY <1>2 DEF HeroesTaken
  <2>6. \A k, l \in DOMAIN party' : party'[k].hero = party'[l].hero => k = l
    BY <1>3, <1>9, <2>5 DEF PartyBacked
  <2>7. \A e \in shown' : draft'[e].st = "accepted"
    BY <1>4, <1>7, <1>8 DEF PartyBacked, DraftsTyped
  <2>8. Cardinality(DOMAIN party') < PartyLimit
    BY <1>2, <1>10
  <2> QED BY <2>3, <2>4, <2>6, <2>7, <2>8 DEF PartyBacked
<1> QED BY <1>11, <1>12, <1>13

LEMMA DraftsInvStep ==
  ASSUME DraftsInv, [DraftsNext]_draftVars
  PROVE  DraftsInv'
<1>1. ASSUME UNCHANGED <<draft, approval, party>>, shown' \subseteq Drafts,
             \A d \in shown' : draft[d].st = "accepted"
      PROVE  DraftsInv'
  BY <1>1 DEF DraftsInv, DraftsTyped, DraftsBacked, PartyBacked
<1>2. \A d \in shown : draft[d].st = "accepted" /\ d \in Drafts
  BY DEF DraftsInv, DraftsTyped, PartyBacked
<1>3. CASE UNCHANGED draftVars
  BY <1>1, <1>2, <1>3 DEF draftVars
<1>4. ASSUME NEW c \in Approvals, NEW d \in Drafts, ApproveAgain(c, d) PROVE DraftsInv'
  BY <1>1, <1>2, <1>4 DEF ApproveAgain
<1>5. ASSUME NEW m \in Joiners, ComesOrGoes(m) PROVE DraftsInv'
  BY <1>1, <1>2, <1>5 DEF ComesOrGoes
<1>6. CASE CampaignMoves
  BY <1>1, <1>2, <1>6 DEF CampaignMoves
<1> QED BY <1>3, <1>4, <1>5, <1>6, SubmitStep, ApproveStep DEF DraftsNext

(* The heroes of a party are the accepted drafts, each its own player's    *)
(* and each once; nobody in the party has an undecided draft, nobody has   *)
(* two; what the host was told is accepted has its hero for good.          *)
THEOREM HeroesAreApproved == DraftsSpec => []HeroesWereApproved
<1>1. DraftsInv => HeroesWereApproved
  <2> SUFFICES ASSUME DraftsInv PROVE HeroesWereApproved
    OBVIOUS
  <2> USE DEF DraftsInv
  <2>1. ASSUME NEW m \in Joiners PROVE Cardinality(Undecided(m)) <= 1
    <3>1. CASE Undecided(m) = {}
      BY <3>1, FS_EmptySet
    <3>2. CASE Undecided(m) # {}
      <4>1. PICK d : d \in Undecided(m)
        BY <3>2
      <4>2. Undecided(m) = {d}
        BY <4>1 DEF DraftsBacked, Undecided, Of
      <4> QED BY <4>2, FS_Singleton
    <3> QED BY <3>1, <3>2
  <2>2. ASSUME NEW m \in DOMAIN party
        PROVE  /\ Undecided(m) = {}
               /\ {d \in Of(m) : draft[d].st = "accepted"} = {party[m].from}
               /\ draft[party[m].from].hero = party[m].hero
    <3>1. party[m].from \in Drafts
      BY DEF DraftsTyped, Member
    <3> QED BY <3>1 DEF DraftsBacked, PartyBacked, Undecided, Of
  <2> QED BY <2>1, <2>2 DEF PartyBacked, HeroesWereApproved
<1> QED BY <1>1, DraftsInvInit, DraftsInvStep, PTL DEF DraftsSpec
=============================================================================

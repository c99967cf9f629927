---------------------------- MODULE Notifications ----------------------------
(***************************************************************************)
(* What the desktop tells a player who looks elsewhere.  The screens offer *)
(* an event of a series (an actor's turns of an encounter by round, the    *)
(* failures of a connection by cursor, a receipt); the shell consumes it   *)
(* in a ledger it saves first, and shows it only when nobody is looking.   *)
(* A shown notification carries a single-use token, kept in an outbox; the *)
(* system may deliver a click at any time, and more than once.             *)
(*                                                                         *)
(* Commands and clicks run one after the other on the main thread; a crash *)
(* may come between two steps, and any save of the store may fail.  What   *)
(* is in memory reaches the disk with the next save, or by itself.  This   *)
(* is the Windows adapter: elsewhere nothing is ever shown.                *)
(***************************************************************************)
EXTENDS Naturals, Sequences, FiniteSets, Functions

CONSTANTS
    Series,             \* turn:scope:encounter:actor, connection:..., runtime:...
    ScopeOf,            \* the campaign or room of each series; "app" for receipts
    Scopes,             \* campaigns and rooms on the screen
    MaxSeries,          \* MAX_SERIES: 4096 in the code
    MaxOutbox,          \* what show leaves in the outbox: 32 in the code
    MaxRounds, MaxToasts    \* bound the model

ASSUME NotificationsAssumption ==
    /\ ScopeOf \in [Series -> Scopes \cup {"app"}]
    /\ MaxSeries \in Nat /\ MaxOutbox \in Nat \ {0} /\ MaxRounds \in Nat /\ MaxToasts \in Nat

VARIABLES
    kept, keptDisk,     \* notifications.json: the ledger and the outbox
    offer,              \* desktop_offer_notification, from consume on
    gameScope,          \* NotificationState.game_scope
    reports,            \* offers answered sent, suppressed or denied, in order (history)
    toasts, clicks      \* notifications shown, by token; activations that reached
                        \* the screen, with the scope of that moment (history)

noteVars == <<kept, keptDisk, offer, gameScope, reports, toasts, clicks>>

Silent == [at |-> "none"]
NotesInit ==
    /\ kept = [ledger |-> [s \in Series |-> 0], outbox |-> {}] /\ keptDisk = kept
    /\ offer = Silent /\ gameScope \in Scopes
    /\ reports = <<>> /\ toasts = <<>> /\ clicks = <<>>

-----------------------------------------------------------------------------
ScopeCurrent(s) == ScopeOf[s] \in {"app", gameScope}
Seen(s, round) == kept.ledger[s] >= round
LedgerFull == Cardinality({s \in Series : kept.ledger[s] > 0}) >= MaxSeries
Reported(how) == reports' = Append(reports, [series |-> offer.series, round |-> offer.round, how |-> how])

(* A stale, duplicate or refused offer changes nothing.  A new one is      *)
(* consumed, whatever becomes of it.                                       *)
Offer(s, round) ==
    /\ offer = Silent
    /\ ScopeOf[s] = "app" => round = 1                       \* a receipt happens once
    /\ ScopeCurrent(s) /\ ~Seen(s, round) /\ (kept.ledger[s] > 0 \/ ~LedgerFull)
    /\ kept' = [kept EXCEPT !.ledger[s] = round]
    /\ \/ keptDisk' = kept' /\ offer' = [at |-> "consumed", series |-> s, round |-> round]
       \/ UNCHANGED <<keptDisk, offer>>                      \* save() failed
    /\ UNCHANGED <<gameScope, reports, toasts, clicks>>
(* A window has the focus, or the player or the system does not want it.   *)
Suppress ==
    /\ offer.at = "consumed" /\ offer' = Silent
    /\ \E how \in {"suppressed", "denied"} : Reported(how)
    /\ UNCHANGED <<kept, keptDisk, gameScope, toasts, clicks>>
(* show: room in the outbox, a new token, saved before it is shown.        *)
NewToken == Len(toasts) + 1
Outbox ==
    LET more == Cardinality(kept.outbox) - (MaxOutbox - 1) IN
    IF more <= 0 THEN {kept.outbox} ELSE {S \in SUBSET kept.outbox : Cardinality(S) = MaxOutbox - 1}
PostOut ==
    /\ offer.at = "consumed" /\ NewToken <= MaxToasts
    /\ \E left \in Outbox : kept' = [kept EXCEPT !.outbox = left \cup {NewToken}]
    /\ \/ keptDisk' = kept' /\ offer' = [offer EXCEPT !.at = "posted"]
       \/ offer' = Silent /\ UNCHANGED keptDisk              \* save() failed
    /\ UNCHANGED <<gameScope, reports, toasts, clicks>>
Show ==
    /\ offer.at = "posted" /\ offer' = [offer EXCEPT !.at = "shown"]
    /\ toasts' = Append(toasts, [series |-> offer.series, round |-> offer.round])
    /\ UNCHANGED <<kept, keptDisk, gameScope, reports, clicks>>
Sent ==
    /\ offer.at = "shown" /\ offer' = Silent /\ Reported("sent")
    /\ UNCHANGED <<kept, keptDisk, gameScope, toasts, clicks>>
NotShown ==
    /\ offer.at = "posted" /\ offer' = Silent
    /\ kept' = [kept EXCEPT !.outbox = @ \ {NewToken}]
    /\ keptDisk' \in {kept', keptDisk}
    /\ UNCHANGED <<gameScope, reports, toasts, clicks>>

-----------------------------------------------------------------------------
(* Activate: the token is spent first, and saved as spent.                 *)
UnspentOutbox(token) == kept.outbox             \* mutant: the token stays
SpentOutbox(token) == kept.outbox \ {token}
Click(token) ==
    /\ offer = Silent
    /\ kept' = [kept EXCEPT !.outbox = SpentOutbox(token)]
    /\ \/ UNCHANGED <<keptDisk, clicks>>                     \* save() failed
       \/ /\ keptDisk' = kept'
          /\ clicks' = IF token \in kept.outbox /\ ScopeCurrent(toasts[token].series)
                       THEN Append(clicks, [token |-> token, scope |-> gameScope]) ELSE clicks
    /\ UNCHANGED <<offer, gameScope, reports, toasts>>
(* desktop_notification_context: another campaign or room, or none.        *)
Turn(scope) ==
    /\ offer = Silent /\ gameScope # scope /\ gameScope' = scope
    /\ UNCHANGED <<kept, keptDisk, offer, reports, toasts, clicks>>
(* The store saves itself sooner or later, and when the application exits. *)
SavesItself ==
    /\ keptDisk # kept /\ keptDisk' = kept
    /\ UNCHANGED <<kept, offer, gameScope, reports, toasts, clicks>>
Crash ==
    /\ kept' = keptDisk /\ offer' = Silent /\ gameScope' = "none"
    /\ UNCHANGED <<keptDisk, reports, toasts, clicks>>

NotesNext ==
    \/ \E s \in Series, round \in 1..MaxRounds : Offer(s, round)
    \/ Suppress \/ PostOut \/ Show \/ Sent \/ NotShown \/ SavesItself \/ Crash
    \/ \E token \in DOMAIN toasts : Len(clicks) < MaxToasts /\ Click(token)
    \/ \E scope \in Scopes \cup {"none"} : Turn(scope)

NotesSpec == NotesInit /\ [][NotesNext]_noteVars

-----------------------------------------------------------------------------
(* Whatever failed, crashed or was replayed: in each series an event is    *)
(* answered, and shown, once, and never after a later one; what was kept   *)
(* back while the player looked is not shown afterwards; and a shown       *)
(* notification opens the screen once, that of its own campaign or room.   *)
InOrder(events) ==
    \A i, j \in DOMAIN events :
        i < j /\ events[i].series = events[j].series => events[i].round < events[j].round
NotifiedOnce ==
    /\ InOrder(reports) /\ InOrder(toasts)
    /\ \A i \in DOMAIN reports : reports[i].how # "sent" =>
          \A j \in DOMAIN toasts : ~(toasts[j].series = reports[i].series /\ toasts[j].round = reports[i].round)
    /\ IsInjective([i \in DOMAIN clicks |-> clicks[i].token])
    /\ \A i \in DOMAIN clicks :
          ScopeOf[toasts[clicks[i].token].series] \in {"app", clicks[i].scope}
=============================================================================

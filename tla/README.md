# Verification of the dungeon-master backend

TLA+ specifications of the parts of this repository where the order of steps,
a crash, a lost answer or a retry decides what a campaign's record says. TLC
checks them on small instances, TLAPS proves for every value of the constants what
most of them promise (see Proofs). Source paths below are relative to the repository;
`crates/` stands for `src/crates/` and `shell/` for `src/src-tauri/src/`.

## The system

A desktop shell (Tauri) starts one backend process (Rust, `axum`) over one SQLite
database and one encrypted vault of secrets. The player's renderer posts a message;
an *agent turn* then runs rounds of a language model, which answers with text or
with tool calls, and the backend executes the tools: combat and adventure actions of
the player's hero, dice, tokens, memory, pictures. What a turn does is recorded so
that it can be delivered again, or continued, after a crash or a lost connection.
A campaign may also be opened as a *room* in which several players act, by hand or
through a shared Dungeon Master, through leases their host grants; a guest's own
backend keeps what it sent until it knows what became of it. The shell also runs
local model processes, downloads their files, moves campaigns between machines as
files and notifies the player.

| Component | State it keeps | Operations | Hard behaviour | What makes it correct |
| --- | --- | --- | --- | --- |
| Durable agent turns (`app-application/src/agent/operations.rs`, `adapter-sqlite/src/agent_operations.rs`) | operation records, event log, one worker per turn | claim, resume, bind, append, finish, replay, boot recovery | client vanishes, handler dropped, transaction fails, process dies, restore in between | one immutable answer per request; nobody is told "done" without it; the worker acts only in the scope it claimed |
| Tool checkpoints (`agent/turn.rs`, `agent_replay.rs`, `checkpoint_tools.rs`) | transcript, steps, receipts | save calls, claim step, execute, finish, tell, emit, resume | crash between effect, step, transcript and event | no effect twice, no invented success, one verdict per call |
| Human commands (`agent/human_commands.rs`, `command_planning.rs`, `narration.rs`) | manifest, bindings, outcomes, questions, narration | plan, prepare, settle, refuse, ask, reply, resolve, tell | conditions on outcomes not yet known; a question or an answer lost or sent again | commands are neither exceeded nor skipped; the story told is the verified one |
| Campaign lane (`app-server/src/state.rs`) | one mutex per campaign | acquire, release | a holder that never ends; paths that take no lane | whoever waits is served |
| Agent tools over the table (`tool_executor.rs`, `tool_support.rs`, `db.rs`) | token rows, fights, memories of characters | add, update, damage, heal, start, end, remember | read-modify-write of shared rows beside the combat screen and other campaigns | rows follow their fight, memories their timeline |
| Combat, rest, recovery, adventure (`app-domain/src/combat`, `rest.rs`, `recovery_clock.rs`, `combat_binding.rs`, `authored_combat.rs`) | encounter projection, sheets, clock, receipts, defense | start, act, end, rest, wait, death save, join, leave | a command computed from a stale projection; heroes who come, go or fall on their turn | sheet and combatant agree; the fight never stops at a turn nobody can take |
| Saves and restore (`saves.rs`, `sessions.rs`) | snapshots, generation, campaign and session revisions | save, autosave, restore, commit | a letter of the old timeline arrives after the restore took its revision back | every letter acts once, in its own time |
| Rooms (`app-application/src/rooms.rs`, `adapter-sqlite/src/rooms.rs`) | epoch, members, invitations, leases, secrets | create, join, leave, return, ban, rotate, close | two members at once; handlers cut short between vault and database | only current leases act, keys are neither lost nor used twice |
| Room DM turns (`rooms/dm_turns.rs`, `room_dm_turns.rs`, `room_agent.rs`, `room_human_commands.rs`) | operation, tool and binding records | claim, append, execute, finish, resume, supersede (triggers) | epoch or timeline change under a running engine | what is over stays over, what is told is true |
| Room projections (`room_state.rs`, `room_characters.rs`, `RoomController.ts`) | change log, drafts, approvals | page, stream, submit, approve | updates from two sources overtake each other | nothing skipped, nothing older shown; heroes are those approved |
| Native room client (`native_room_client.rs`, `native_room_transport`) | departure, return, outbox and turn slots | send, retry, reconnect, leave, archive | answers lost, calls dropped, concurrent resumes | what was begun can be finished |
| Hosted room (`http_services.rs`, `room_owner.rs`) | room, binding, address, listener | start, recover, stop | any step of a creation fails or dies | one room per request, found again; stopped means closed |
| Downloads (`adapter-media/src/models`) | partial files, jobs | start, resume, cancel, remove | transfers nobody stops still write | "completed" means the published file |
| Bundles (`campaign_bundles.rs`, `shell/commands/bundles.rs`) | receipts, pending imports | export, pick, confirm, retry | lost answer, restart, failing store | a story moves once, as told |
| Media assets (`media_assets.rs`) | assets, bindings, portraits, selected map | register, bind, migrate, select, import | pictures of another timeline or owner | what is shown can be read by who sees it |
| Settings and secrets (`settings/update.rs`, `adapter-secrets`) | vault, runtime snapshot | update, roll back, restart | one of two stores fails | they agree again |
| Desktop processes (`shell/processes`) | children, profile lock, password | start, stop, exit, launch twice | exit against start; two launches create the password | no orphan, one key |
| Notifications (`shell/commands/notifications.rs`) | ledger, outbox | offer, show, click, restart | crash between consume and show | once, and in order |
| LLM adapters, prompts, image sidecar | none of their own | requests | anything can come back | environment of the models |

How they meet: the HTTP handler takes the campaign lane and hands it to the turn
worker; the worker's engine writes transcript, steps and receipts, and the worker
writes the event log; a restore, a save and a hero change take the same lane and
change the scope every operation record is pinned to; the combat screen changes the
world without the lane; triggers of the database turn every shared write into a room
change and every new epoch into superseded room turns; a guest's slots hold what it
sent over the network; the vault's commit is shared by every secret.

## Modules

| Module | What it is |
| --- | --- |
| `TurnReceipts` | abstract promise: a request gets at most one answer, it never changes, a client told "done" holds exactly it |
| `DurableTurns` | delivery of solo turns |
| `ToolCheckpoints` | the tool calls of one turn |
| `CommandLedger` | manifest, conditions, bindings and outcomes of one request |
| `RequestDialogue` | planning, questions, answers and the narration of one request, with client and engine |
| `TableTools`, `NpcMemory` | the tools that write tokens, fights and memories |
| `Membership` | abstract promise of a room: who sits under which key, authority is only taken away by a new epoch |
| `Rooms` | one room on its host |
| `RoomDmTurns` | the shared Dungeon Master of a room |
| `RoomOutbox`, `GuestTurns` | what a guest keeps of what it sent: departures and mutations, turns |
| `HostedRoom` | the host's room over restarts |
| `RoomFeed`, `HeroDrafts` | the updates a member reads, the heroes players propose |
| `CombatRules` | the combat engine as operators on a fight |
| `Encounters` | the table: sheets, clock, defense, the open fight and its concurrent commands |
| `Saves` | one campaign, its saves and late letters |
| `MediaLibrary` | pictures and what refers to them |
| `LocalRuntime`, `BackendStart`, `Downloads`, `Bundles`, `Settings`, `Notifications` | the services of the player's machine |
| `DurableTurnsProofs`, `RoomsProofs` | theorems about the module of that name |
| `AgentToolsProofs` | theorems about `ToolCheckpoints`, `TableTools`, `NpcMemory` |
| `EncountersProofs` | theorems about `CombatRules` and `Encounters` |
| `SharedTableProofs` | theorems about `GuestTurns`, `HeroDrafts`, `RoomDmTurns` |
| `HostingProofs` | theorems about `HostedRoom`, `RoomFeed`, `RoomOutbox` |
| `CampaignProofs` | theorems about `LocalRuntime`, `Notifications`, `Saves`, `Settings`, `Downloads`, `MediaLibrary` and the answers of `Encounters` |
| `BackendStartProofs` | theorems about `BackendStart`, `RequestDialogue`, `Bundles`, `CommandLedger` |
| `MCDurableTurns`, `MCToolCheckpoints` | symmetry and tool kinds of their runs |
| `MCAgent`, `MCRooms`, `MCCampaign` | several services in one run (see Runs) |
| `MCOutbox` | the two ways in which `RoomOutbox` is run, symmetry of its calls |

In every module a definition with `\* mutant` in its comment, or placed right before
its unmutated form, is that form with a plausible bug; it is used nowhere. Bounds are
the constants beginning with `Max`, unless the code has the same limit, which the
comment then says.

### DurableTurns

`status owner generation actor environment log` are the columns of
`agent_turn_operations` and the rows of `agent_turn_events`; `timeline` and `hero`
are the campaign's generation and accepted character; `up boot lane` the process and
the campaign mutex; the rest is one record per HTTP attempt and per worker. Actions
follow `execute_mode` line by line: `Post`, `Acquire`, the four outcomes of the claim,
`Bind` and `Rebind` (which spawn the worker), `BindRefused`; the recorder (`Record`,
`RecordFails`, `NoticeDisconnect`), `Settle` and `SettleFails`, `Deliver`, `Replay`; the
engine as environment; the client (`Drop` of a handler, `Disconnect` of a stream);
`RestoreSnapshot`, `ReplaceHero`, `Crash`, `Boot`.

An event is `tool`, `text`, `done` or `input`. A repaired log is any log that keeps the
tool events of the old one and may gain some; how single events are repaired is in
`ToolCheckpoints`. Bounds: two attempts give every race over the lane (one holds it,
one waits or replays), two boots one crash and resume, two events let a log lose a
text, keep a tool event and gain one.

### ToolCheckpoints

The four records that survive a crash: transcript (`users asked answers finals`), tool
steps, command bindings (`bound terminal`) and receipts; the event log; the world's
`revision`; the engine's local state. `applied` is history. One action per step of
`turn.rs` for one call, `StopEarly` and `StopFinal` for the gate on the narration;
`EngineStops`, `RecordFails` and `Crash` strike between any two; `OtherCommit` is the
combat screen; `Resume` repairs the log with `RepairDelivery`, confirmed call by confirmed
call (`RepairedLog`). `RepairedLog` and `Those`, which selects what of a sequence is in a
set, are recursive functions, so that they can be reasoned about.

Scope: one operation in a campaign with an authored adventure; unconditional exact
commands; provider call ids unique within an operation; permission dialogues are
"given" or "denied". Two calls of different kinds give every order of an answered and
an unanswered one; two resumes let a repair be repaired. `Plans` bounds which calls a
turn may name together: the run about media plays a combat action with a picture, or a
die alone, over one foreign commit (`MaxRevision` 1).

### CommandLedger and RequestDialogue

`CommandLedger` is `HumanCommandManifest::progress` and every operation that reads it:
`bindings` of the calls prepared for each command, outcomes by receipts, conditions,
questions, refusals, the final narration. `BindingOpen` is `require_prepared_context`,
whose stamp of the world's revision lives in `ToolCheckpoints`. Spans and quotes of the
request are left out; a goal is the kind of its action. Manifests of up to three
commands (`MAX_COMMANDS` is 32) with every condition between them.

`RequestDialogue` runs the same request as a talk between screen, server and engine:
the plan, `AskPlayer`, the reply of `useAgentTurn` and the resume of `useRecovery`, the
drafts of a narration and their verifier, `RecordTale` before `TellPlayer`. A lost wire,
a crash and the recovery of the turn may come at every step. The two parallel reads of
`useRecovery` are taken as one; a question whose text was lost with the connection can
be answered once the recovery shows it again. A newer request that supersedes an
interrupted one is in `DurableTurns`.

### TableTools and NpcMemory

Turns of two campaigns run at once; a token is found by its name alone, whoever's fight
it is in. `bouts` are `combat_encounters`, `rows` `token_states`, `call` what a worker has
read and not yet written. `heroed` campaigns have a durable hero, so their fights are
bound and the rows follow the projection. The combat screen (`ScreenActs`, `ScreenEnds`)
takes no lane. `NpcMemory` is the read-modify-write of `remember_npc` against saves and
restores; `hand` is the worker's copy. Left out: positions, names, conditions and
armour; the disposition and role of a character; tools that insert one row or only
read (journal, scene, quick save, rules, dice). A strike names one or two tokens, which
is the least that lets one of them end what the other still needs.

### Rooms

`room` is the `coop_rooms` record; `invitationSecrets` and `credentialSecrets` the
vault's entries, `pending` a join's private `PendingJoin`; `receipts departures returns`
the receipt tables; `leases` what handlers in flight hold, `task` the one handler inside
the `ROOM_MUTATION` lock between two writes. `Authenticate` takes no lock, so a lease may
be used any number of steps later. A join is `BeginJoin`, `SavePending`,
`SaveCredential`, `CommitJoin`; an invitation `BeginIssue` and `RotateInvitation` or
`RotateFails`; `Abandon` ends either after any of its writes. `Write` refuses what
`RoomRecord::valid` rejects. A uuid drawn by a join is named by the join, a leave nonce by
the epoch its player saw. `MaxEpoch` 5 lets a player leave, return and meet an old
intent; two leases, two joins, two invitations and two intents give every pair a race.

### RoomDmTurns

Lane, claim, environment, engine, events, finish and `Superseded` as the triggers of
`0014_room_dm_turns.sql` do it. Every write of the engine checks lease, timeline, row and
owner again (`Leased`, `Scoped`, `Owned`, in the places where the code does). `ActByHand`
is what a member does by hand, `RestoreRoom` a restore, `Restart` a restart. How the engine
talks to its provider is `ToolCheckpoints`.

### RoomOutbox, GuestTurns, HostedRoom

`RoomOutbox` follows one join of a guest: pointers that find it, the slots of a mutation
and of a departure, the calls of the shell with their two fair lanes; the host is the
seat as `Rooms` moves it, its receipts and its routes (`adapter-http/src/rooms.rs`). The
encrypted store is changed in memory (`store`) before it is written (`filed`): a write
that fails ends its call with an error, and a retry then finds the slot as it should be
and sends without writing. The host may so be told what the file does not know
(`unbacked`), and a process that dies like that loses it (`astray`). A write that a
dropped call had begun is taken to be over before the next call reads.
`GuestTurns` is the slot of a turn of the shared Dungeon Master with its question and
reply; a request whose sender is gone is either claimed at once or never, because the
host drops the handler of a closed connection. `HostedRoom` is creation, recovery and
stop with a vault that changes memory first and disk after, one call of the shell at a
time, a handler that fails or is dropped at every await; the lane, the invitations a
repeated start renews and the `closed` and `transport_stopped` marks are left out.

### RoomFeed and HeroDrafts

`RoomFeed`: `changes` is `room_changes`; a page reads changes and state in one
transaction; the screen merges the feed with the answers to its own requests. A state is
named by the last change it contains. Revision guards of single widgets are left out.
`HeroDrafts`: drafts, approvals, party, revision; whether a lease is good is the business
of `Rooms`, portraits that of `MediaLibrary`.

### CombatRules, Encounters, Saves

`CombatRules` are pure operators (initiative, budgets, attacks, missiles, movement,
retreat, death saves, opponents, reconciliation of members). Dice are a function from
combatants to one of four outcomes; the map is a corridor with the exit at one end, so
paths and reach become distances; temporary hit points, resistances and conditions the
program never sets, and further spells, are left out. Its loops (the visits of
`begin_current_turn`, the turns of `settle_npcs_until`, the walk of an opponent, the calls
to the table) are recursive functions over one step each (`Visit`, `PlayNpc`,
`StepTowards`, `Seated`), so that they can be reasoned about; so is the sleep of a sheet
(`Saved` in `Encounters`).

`Encounters` keeps sheets, clock, defense and the one open fight. Solo play computes a
combat action on a projection read before its transaction (`SoloCompute`, `SoloCommit`), a
room inside it (`RoomAct`). Rests, death saves and aid are one transaction each; a rest is
long, short with or without hit dice, or a wait, which is counted as one scene of the
clock. Their session revision check and receipts are those of a single transaction and are left
out, as are story facts, gold and changes of maximal hit points.

`Saves`: a client writes a letter that expects a revision; it may be delivered late,
twice or never; a restore puts back a whole projection and starts a new generation. The
content of a snapshot other than sheets and fights is one value, `tale`.

### The player's machine

`MediaLibrary`: assets are immutable and never deleted; bindings, portraits and maps
refer to them. A campaign may have no hero yet: a save then takes the one of the sheet the
client sends (`SaveSupplied`) and binds nothing, and the restore of a save without a hero
removes it again; only a save of the same party is restored. What came to a hero that way
is remembered in `supplied`. The local player's heroes of a campaign, one after the other,
count as one actor. Campaign 2 is the import of campaign 1, and once it exists the game goes
on there alone (a bound). `LocalRuntime`: one executor thread runs tasks from await to
await, the exit of the application comes from another thread at any moment. `BackendStart`:
launches choose a profile, lock it, find or create its password; explicit paths and a
player who edits the credential store are left out. `Downloads`: two files in a row, or a
folder fetched at once; the server honours ranges; a resumed pinned file is hashed by
what this transfer brought, as the code does. Models the runtime fetches itself
(`AutoIsq`) have no file here. `Bundles`: the shell's pending imports in memory and on
disk, the backend's receipts; pictures, renamed identities, size limits and the dossier a
guest fetches from a host are left out. `Settings`: keys and runtime snapshot; prompts,
temperature and models are one choice. `Notifications`: the Windows adapter; a corrupted
file is left out.

## Runs

| Run | Config | Shows |
| --- | --- | --- |
| `delivery` | `MCDurableTurns.cfg` | safety of delivery with two attempts, two environments, two heroes, a crash and a restore; `DurableTurns` implements `TurnReceipts` |
| `delivery_live` | `MCDurableTurnsLive.cfg` | lanes are freed and waiting attempts served, under fairness |
| `checkpoints` | `MCAgent.cfg` | a story action and a die: verdicts agree, records are frozen, commands are not exceeded; the table and the memory under tools, screen and restores |
| `checkpoints_media` | `MCToolCheckpointsMedia.cfg` | a combat action and a picture: effects once, nothing invented, complete and ordered delivery, the turn ends |
| `rooms` | `MCRooms.cfg` | six services players share: the room, its turns, a guest's turn, the host's room, the feed, the heroes; `Rooms` implements `Membership` |
| `outbox` | `MCOutbox.cfg` | two operations of a guest over two calls: what was carried out and not answered stays in its slot; three calls that join, leave, resume and recover: the guest's record and its host agree |
| `campaign` | `MCCampaign.cfg` | eleven services of the player's machine: table, ledger, saves, runtimes, downloads, bundles, settings, start, notifications, dialogue, pictures |
| `running_is_delivered`, `interrupted_keeps_origin`, `refused_not_applied`, `room_reinvite`, `room_turn_resumable` | see PROJECT.json | the divergences below |

`MCAgent`, `MCRooms` and `MCCampaign` check several services in one run. The services
share no state, so their interleavings say nothing: `focus` chooses in the initial state
which one moves, and every behaviour is a behaviour of that one alone. Their properties
are conjunctions of named parts (`KeysHold` is `SecretsBackRoom` and `InvitationUsedOnce`)
where the parts speak of one thing. In `campaign` the two refusal codes of the ledger
are alike, so the first one named is always `k1` (`FirstRefusal`).

All configs switch deadlock checking off: the bounds stop the system, and a campaign
nobody plays does nothing. Each property has a mutant under which TLC finds it violated.

What the main properties say:

- `TerminalAfterReceipt`, `EngineWhereClaimed`, `HistoryFrozen` (delivery): who saw "done"
  holds the durable log; an engine acts under the lane, for its record, on its timeline,
  hero and environment; receipts and what a restore left behind never change.
- `EffectsAsConfirmed`, `CompleteAndInOrder`, `ToldOneWay`, `ResumeConfirms`: effects happen
  once and a confirmed one happened; a complete delivery answers every call in order,
  and what its client was told before stays true; no two verdicts; a result the records cannot confirm never makes a resume fail.
- `TableHolds`, `MemoryOfTimeline`: rows follow their bound fight and a campaign ends only
  its own, and one that a durable hero joined is alone in its session; a memory holds
  what its timeline learned, all of it.
- `CommandsAsGiven`, `DialogueFaithful`: a command runs in order, once, if its condition
  held; what is told is what the verifier accepted, a question asked once is answered once.
- `LeaseAuthority`, `KeysHold`, `DeparturesAsMeant`: a lease that verifies speaks for the
  seat as it is; the vault backs the record; departures and returns are meant.
- `OverIsOver`, `TurnsToldTruly`: a superseded or complete room turn is not written again;
  its transcript is what happened.
- `FateKept` (half of `IntentsKept`), `TurnRemembered`, `HostAccountable`: what a guest or host began is found
  again after any lost answer and restart; what the host did for a guest while the
  guest's file lagged behind is found until the process dies.
- `GuestComesBack` (the other half): a membership can be found again, and a guest at rest names the
  departure its host knows, unless a death as above or the late answer of an earlier
  departure came between (see Divergences).
- `FeedFaithful`, `HeroesWereApproved`: a view skips nothing and catches up; the heroes of
  the party are accepted drafts.
- `WoundsAgree`, `FightGoesOn`, `AnswersAgree`, `TimeAndDeath`: sheet and combatant agree and
  are readable; somebody can always act, and the defense lasts as long as its fight; an
  answer is the receipt of its own request; nobody rests inside a fight or dies twice.
- `OnceInItsTime`: a letter acts at most once in a timeline that outlives it, and only at
  the revision of the timeline it was written in.
- `PicturesStay`: every hero shows the picture it was given, readable in its campaign and
  portable with it, and the map is one of this timeline. A picture that came to the hero
  with the sheet of a save, and was not committed since, is only promised to be one a later
  commit may bind (see Divergences).
- `StoryMovesOnce`, `CompletedMeansPublished`, `ChildrenOwned`,
  `UpdatesAreWhole`, `OneKey`, `NotifiedOnce`: one for each service of the machine.

Bounds. Each service has two of whatever races (attempts, calls, callers, launches,
screens) and lets every fault happen at least once, most twice. Because the shared runs
must end within minutes some were made smaller than what was tried once by itself with
the same outcome: `RoomDmTurns` (2.4 million states), `LocalRuntime`
(1.3), `GuestTurns` (0.6), `RoomFeed` (2.0), `Downloads` (5.1), `Bundles` (8.1), `Settings`
(2.2), `MediaLibrary` (1.8; in the shared run a picture kept inside the guest's sheet takes
the place of an asset, `GuestKeepsOne`). `RoomOutbox` with two calls, an operation and four
epochs together has 9 million states; `MCOutbox` separates the operations from the
departures, which meet in the file and in the lane only, and gives the latter a third call.

### Divergences between documents and code

1. `running_is_delivered`. `docs/AI_TURN_RECOVERY.md` describes `running` as "the current
   process still owns delivery: wait". When the handler is dropped between claim and
   spawn, or `finish` fails, the record stays `running` with no worker, and every attempt
   answers `agent_turn_running` until the backend restarts.
2. `interrupted_keeps_origin`. The same document lets only legacy records lack an
   environment. Claim and `bind_environment` are two transactions; between them a crash
   or a failure leaves a new record that no resume will accept.
3. `refused_not_applied`. `docs/HUMAN_COMMAND_LEDGER.md` says that receipts repair missing
   results. A combat action that ended its encounter, interrupted before its transcript
   entry, is answered as unavailable on resume while other commands are open.
4. `room_reinvite`. `docs/ROOM_AUTH.md` says that a host can invite a saved player. For a
   player who left, the commit of the join sets `active` and keeps `left`; the record is
   not valid, the write is refused, and the join can never succeed.
5. `room_turn_resumable`. `docs/ROOM_AUTH.md` says that interrupted room turns remain
   resumable. One interrupted between the preparation of a call and its effect is not,
   once any member acts by hand: reading its ledger fails from then on, and nobody in the
   room can start another turn until members or timeline change.

Three more that documents and code disagree about have no run of their own, because what
the code does is in the models and in what their properties leave out:

- `docs/AI_TURN_RECOVERY.md` says that missing tool starts are repaired. The repair skips a
  saved call that had no result yet, and its execution after the resume announces none
  (`agent_operations.rs:144-146`, `turn.rs:439-459`). `CompleteAndInOrder` speaks of results.
- `docs/ROOM_AUTH.md` (401) says that mutations persist their exact input before remote
  delivery. The store changes its memory first; when writing its file fails, the retry finds
  the slot equal in memory and sends it without another write (`SaveIntent`, `Records`).
  `FateKept` and `GuestComesBack` leave out what a process that ended like that forgot.
- `docs/visual/MEDIA_REFERENCES.md` (11) says that a character commit binds its portrait to
  the campaign and actor. A save of a campaign without a hero commits the sheet the client
  sends and binds nothing (`SaveSupplied`): a draft it names cannot be read in the campaign
  and stops its export until the sheet is confirmed again. `PicturesStay` leaves out that
  one picture (`UnboundSupplied`), and promises that the commit may bind it.

Seen while modelling, stated in no document, and left as notes of hazards: two updates of
the settings that overlap may leave vault and runtime with parts of each; one file
previewed twice at the same moment can be imported twice; a connected client that stops
reading blocks the worker behind a channel of 64 events; of three overlapping calls at
one guest seat, a leave or a settle that still waits in the outbox lane may refill the
departure slot another call has emptied, get the receipt of the earlier departure and
record that one, because the reply to the return between them was dropped
(`native_room_client.rs:79-95`, `176-191`, `native_room_transport.rs:262-290`). The next
resume of that seat is refused. `GuestComesBack` leaves out a seat once a departure was
answered with a receipt older than the seat's own, and nothing else of it; without that
exception two calls satisfy it and three do not.

## Fairness

`DurableTurns` assumes weak fairness of each handler and recorder (tokio polls them,
transactions end), strong fairness of `Acquire` (tokio's mutex is first come, first
served), and that a cancelled engine stops (`ensure_not_cancelled` and the `select!`
around provider streams). It assumes nothing of clients, crashes and restores, and
nothing of a provider except in `WaitingIsServed`, whose premise is that it answers.
Fairness of the recorder for a connected client assumes that the client reads or leaves.

`ToolCheckpoints` assumes weak fairness of the engine and of the recorder: provider and
database calls end, by an answer, an error or a timeout. `TurnEnds` rests on `max_rounds`,
not on a model that behaves. A crash is not required. The other modules state safety
only; where something must remain possible (`IntentsKept`, `TurnRemembered`) they state
that what is needed to finish is still there.

## Proofs

`DurableTurnsProofs`, under `ConstantsOK` alone:

- `TypeCorrect`, and `DeliveryCorrect`: `Spec => [](TypeOK /\ DeliveryInv)`.
  `TerminalAfterReceipt` is not inductive: that a client told "done" has exactly the log
  needs that the stream equalled the log while the terminal event was withheld
  (`StreamInv`), that a terminal event is the last of the channel (`ChannelInv`), that
  nobody else writes the record meanwhile (`ClaimInv`, from the lane, `LaneInv`) and that a
  complete record ends in its marker (`RecordInv`). Each part has a lemma with one step
  per action.
- `ReceiptBeforeTerminal`, `EngineInScope`, `EngineEnvironment` and their conjunction
  `EngineStaysWhereClaimed`, from `DeliveryInv`; `ReceiptIsFrozen`, `OldTimelineIsFrozen` and
  their conjunction `HistoryIsFrozen`, action properties.
- `DeliveryImplementsReceipts`: the refinement of `TurnReceipts`; `RefinementStep` maps each
  step to `Answer`, `Ask`, `Tell` or a stutter.

`RoomsProofs`, under `RoomsAssumption` alone:

- `RoomTypeCorrect`, which includes that the stored record is valid, and `RoomCorrect`:
  `Spec => [](TypeOK /\ RoomInv)`. `verify_lease` compares epochs and never credentials, so
  `LeaseAuthority` rests on `LeaseInv`: while a lease is of the current epoch, nothing that
  keeps the epoch touches its member's credential or departure. That needs that an
  untargeted join only takes an empty seat (`JoinSeat`) and that a lease's credential was
  granted. `SecretInv` and `TaskInv` say how far the handler inside the lock has come and
  what it has stored; `SpentInv` that a spent invitation stays spent while it is current;
  `SeatInv` that only members act.
- `LeasesAreCurrent`, `KeysAreKept` (from `SecretsAreKept` and `InvitationsAreSpentOnce`),
  `DeparturesAreMeant`, from `RoomInv`.
- `RoomImplementsMembership`: the refinement; `StepMaps` has one step per action, and a
  join that commits is `Enter` or `Replace` (`MapsSeat`), where `Write` excludes the player
  who left.

`BackendStartProofs`, under `StartAssumption` alone:

- `LaunchesCorrect`: `StartSpec => [](StartType /\ StartInv)`. That a profile has one
  password needs who is alone (`LockInv`: a launch between its look and its write holds the
  lock), what it saw (`EmptyInv`: what it did not find is not there, even when a write was
  misreported) and what it uses (`KeyInv`: a key in use is the key in the store).
- `OneKeyForever`: `OneKey`, from it.

and under `DialogueAssumption` alone:

- `TalkIsFaithful`: `DialogueFaithful`. Its invariant `DialogueInv` says that a client about
  to send has read the records its words will meet, that the engine tells only what is on
  record, and that a question is open as long as neither answer nor resume took it up.

under `BundlesAssumption` alone:

- `StoriesMoveOnce`: `StoryMovesOnce`. A file is imported, or about to be, only under the one
  operation that the shell's memory and disk remember for it (`OneOperation` in
  `BundlesInv`), so a repeated import meets its receipt. What travels is what was told, in
  its order: `HistoryIs`, by induction over the messages of the campaign, as a smallest
  counterexample (`WFMin`).

and under `LedgerAssumption` alone:

- `CommandsRunAsGiven`: `CommandsAsGiven`. What `progress` computes is first shown to be the
  status of each command given those before it (`ProgressIs`, from `StatusesExist` by
  induction over the commands) and not to depend on what comes later (`EarlierStay`). Then
  at most one command can go on: those before it are over, those after it have not begun,
  and only about it may a question be open (`FrontierIs`), so every operation works at that
  frontier (`FrontierMoves`). `LedgerInv` also says that a check is answered by a roll and a
  deed by what became of it (`OutcomesFit`): that is why no condition is left without an
  answer.

`AgentToolsProofs`, under `CheckpointConstants` alone:

- `CheckpointsCorrect`: `Spec => []CheckpointInv`. `EffectsAsConfirmed` says nothing of the
  moment between an effect and its receipt, so the invariant also says what the engine
  holds there (`HeldBacked`), that answers rest on steps, receipts or refusals
  (`AnswersBacked`), that at most one call is prepared and only for an open command
  (`OnePreparation`), that effects are counted by receipts, and a picture's by its step
  (`EffectsCounted`), that answers report effects that happened (`AnswersApplied`) and that
  the narration comes last (`NarrationLast`).
- `EffectsAreConfirmed`, `ResumesAreConfirmed`, `NarrationAfterCommands` from it;
  `CommandsAreNotExceeded` and `RecordsAreFrozen`, action properties.
- `DeliveryCorrect`: `Spec => []DeliveryInv`, which adds to `CheckpointInv` how the four
  tellings of a turn keep step. The answers are the first of the saved calls, in their
  order, each call saved once; the engine's queue is the rest of them, so a narration
  finds none unanswered (`AnswersFollow`). A result that is held, recorded as a step or
  replayed is the one the call is answered with (`OneOutcome`). What the recorder has
  written and what waits in the channel are, together, the answers in their order, all of
  them but the one not yet published while the recorder lives, and the first few of them
  when it does not (`StreamFollows`). That a repair gives exactly the answers back,
  wherever the crash cut the log, is `RepairedTells`.
- `TheStoryIsOne` (`ToldOneWay`) and `DeliveryIsComplete` (`CompleteAndInOrder`) from it;
  `TypesAreKept`: `TypeOK`.
- The lemmas about `Those`, `RepairedLog` and the flattened transcript go by induction over
  positions, as a smallest counterexample (`WFMin`), because an induction theorem with an
  operator parameter cannot be cited.

and under the assumptions of `TableTools` and `NpcMemory`:

- `MemoryIsKept`: `MemoryOfTimeline`. While a turn holds the memory it read nobody else
  holds one, because of the lane, and nobody writes it (`MemoryInv`).
- `TableIsKept`: `TableHolds`. `TheFights` (a bound fight has the rows of its projection and
  no others, and is alone in its session) needs that every bound fight belongs to a
  campaign with a hero; `TheCalls` says that what a tool read before it writes still
  stands, whatever the screen and the other campaign did since.

`SharedTableProofs`, under `GuestAssumption`, `RoomDmAssumption` and `DraftsAssumption`:

- `TurnsAreRemembered`: `TurnRemembered`, from `GuestInv`: a turn under way is in the slot
  with its reply, the slot is its file unless a write failed, and no reply is ahead of the
  host's questions.
- `TurnsAreToldTruly` (`TurnsToldTruly`) from `DmInv`, and `WhatIsOverStays` (`OverIsOver`), an
  action property. A runner that goes on under a superseded row has a lease of an older
  epoch (`RunnerBacked`); that is why its writes are refused.
- `HeroesAreApproved`: `HeroesWereApproved`, from `DraftsInv`: the party is the accepted
  drafts, each approved, and its members have no undecided one.

`HostingProofs`, under `HostAssumption`, `FeedAssumption` and `RoomOutboxAssumption`:

- `HostIsAccountable`: `HostAccountable`. `HostInv` finds the open room again from the request
  on disk (`OpenIsFound`), says of every stage of a handler what it has done
  (`StagesStand`) and that what was granted is the address that is served
  (`AddressStands`).
- `FeedIsFaithful`: `FeedFaithful`. In `FeedInv` the updates on the wire follow each other and
  what was told last (`WireStands`, `ToldStands`), each with the timeline of the state it
  carries.
- `OperationsAreKept`: `FateKept`, for any number of calls and operations. `OutboxInv` adds
  that one call at a time is past the lane (`OneInOutbox`) and that what it has sent is what
  the slot holds (`SlotHolds`).

`CampaignProofs`, one part for each service. The invariants in brackets are what makes the
property inductive:

- `ChildrenAreOwned`: `ChildrenOwned` (`RuntimeInv`: a spawned child is in a slot of the current
  generation or with the one task that has the executor).
- `NotifiedAtMostOnce`: `NotifiedOnce` (`NotesInv`: everything reported lies before the event on
  offer, a clicked token is in no outbox, in memory or on disk).
- `EffectsInTheirTime`: `OnceInItsTime` (`SavesInv`: a letter that acted, or is of an older
  generation, expects a revision that is gone or a fight that is over, and a restore does
  not bring either back).
- `AloneIsWhole`: `UpdatesAreWhole` (`SettingsInv`: how much of an update that nobody overlaps
  is written, saved and put back at each stage).
- `CompletedIsPublished`: `CompletedMeansPublished` (`LoadInv`, under `DownloadsAssumption`, which
  asks that every model has files: while nobody meddles one job works, what is on disk is
  clean, and a transfer knows how much of it there is).
- `OneAnswer`: `AnswersAgree` of `Encounters` (`AnswersInv`: an answer is the receipt on
  record until the client gives the request up). It holds whatever `CombatRules` computes.
- `PicturesInUse`: `PicturesStay` (`MediaInv`: what heroes, saves and proposals refer to is
  bound where it is used, or came with a save and may be bound there; a draft never to a guest's hero, and the map of a turn under
  way is one of its timeline).

`EncountersProofs`, under `RulesAssumption` and `EncountersAssumption`: any finite
number of heroes and opponents, any requests and callers, any initiative order without repetition, any dice. The
assumptions ask for a map with at least as many cells as there are combatants. That is
why a hero who comes back finds a cell: outside of an authored encounter the code looks
further and further out and always finds one, and the one authored map is far larger
than its party and its opponents.

- `TableHolds`: `Spec => []TableInv`, from which the three below follow. None of them is
  inductive by itself: a solo call commits a fight it computed earlier, a fight starts
  from the sheets, a departure changes who may act, and each asks the engine to find
  somebody who can. `Stored` says what is stored between two transactions: sheets with wounds `vitality::read` accepts and a wake time for exactly those
  who sleep, a fight that is closed or waits for a hero who stands (`Waits`), heroes out
  of it exactly when they are not at the table. `AskedKnown` and `HeldFollows` speak of the
  two halves of a solo command: what it computed before its transaction, if the stored
  revision is still the one it read, is a continuation of the stored fight (`Offers`);
  when the revision is another, its commit is refused.
- That the engine leaves such a fight is proved along its loops. How far ahead in the
  order somebody is (`Ahead`) gets smaller with every `advance_turn`. So one pass of
  `begin_current_turn` ends with somebody able to act, or with nobody left to (`TurnBegun`,
  by its `Stage` after i visits), and no hero who can act is passed over. An opponent's
  turn brings every such hero one step nearer, so `settle_npcs_until`, which tries one
  turn more than the order is long, never ends in `combat_npc_cycle_invalid` (`Turned`).
- What the engine may do to a combatant (`Fate`: never raise the dead, never touch who is
  away) and to a fight (`Ran`) is kept by every operator of `CombatRules`: blows, missiles,
  healing, death saves, moves, opponents' turns. `Readable`, the combinations of wounds
  that `vitality::read` accepts, is kept by every one of them at every moment, not only
  where a fight is stored.
- `WoundsAreOne`: `WoundsAgree`. `TheFightGoesOn`: `FightGoesOn`, including that ending the turn
  succeeds for every outcome of the dice. `DeathIsFinal`: `TimeAndDeath`, from `Onwards`, which
  every action is shown to satisfy.

Only model-checked, and why:

- `DisconnectFreesLane`, `WaitingIsServed`, `TurnEnds`: liveness; fairness and ENABLED are
  beyond the prover.
- `GuestComesBack`: checked for three overlapping calls; its invariant would have to
  follow every call's place in the selection lane.


## Not modelled

- LLM adapters, prompts, context assembly and the compendium: no state of their own; what
  a provider may answer is the environment of `ToolCheckpoints` and `RequestDialogue`.
- The image sidecar and the image and video providers: stateless services behind HTTP;
  their failures are failures of a tool call, their process that of `LocalRuntime`.
- Journal, scenes, messages, character creation, rules lookup: one insert or read each.
- Cryptography of the vault and of room credentials, TLS pinning, addresses.
- Validation of settings fields, provider catalogues, window placement, layout and the
  renderer apart from the parts named above.
- What a member may see of another's sheet: a projection without state.

Most components are marked `partly` in PROJECT.json for such remainders; the notes there
say which.

## Running

    tlc -workers 2 -config MCDurableTurns.cfg MCDurableTurns
    tlc -workers 2 -config MCCampaign.cfg MCCampaign
    tlapm DurableTurnsProofs.tla

and so for every other config (of the module it is named after) and every module whose
name ends in `Proofs`. From nothing `CampaignProofs` takes about eight minutes,
`EncountersProofs` and `AgentToolsProofs` about five each, the others a few at most.

------------------------------- MODULE Bundles -------------------------------
(***************************************************************************)
(* Campaigns that travel as files.  The backend captures a campaign in one *)
(* read transaction and imports a file into a new campaign in one write    *)
(* transaction, under an operation it keeps a receipt of.  The desktop     *)
(* shell picks files, shows a preview, remembers (in memory, then on disk) *)
(* under which operation it sends which file, and has one lane for it all. *)
(* An answer may be lost, a request that timed out may still be carried    *)
(* out, a write of the shell's own store may fail, and the application may *)
(* be closed at any time.                                                  *)
(*                                                                         *)
(* A message is [who, text]; pictures, portraits, the renaming of          *)
(* identities in the sheets and the limits on sizes are left out, as is    *)
(* the guest whose dossier comes from the host of his room.                *)
(***************************************************************************)
EXTENDS Naturals, Sequences, FiniteSets, Functions

CONSTANTS
    Tales,              \* [story, shared]: what the first campaign may tell
    Sheets,             \* characters the local player may have
    SourceRevision,     \* the first campaign's session revision
    MaxPending,         \* pending_imports: 16 in the code
    MaxFiles, MaxOps, MaxWorlds     \* bound the model

ASSUME BundlesAssumption ==
    /\ Tales \subseteq [story : Seq([who : STRING, text : Nat]), shared : SUBSET Nat]
    /\ SourceRevision \in Nat /\ MaxPending \in Nat \ {0}
    /\ MaxFiles \in Nat /\ MaxOps \in Nat /\ MaxWorlds \in Nat \ {0}

VARIABLES
    worlds,             \* campaigns, by their number
    files,              \* *.dmai on disk; the digest is the file's number
    receipts,           \* campaign_bundle_imports: operation -> [digest, world]
    flights,            \* import requests on their way to the backend
    prepared,           \* BundleFileState.prepared: operation -> file
    pending, onDisk,    \* pending_imports_v1, in memory and saved: digest -> operation
    lane,               \* BundleFileState.lane and what the holder waits for
    told, twice         \* campaigns the shell heard of; files previewed twice at once (history)

bundleVars == <<worlds, files, receipts, flights, prepared, pending, onDisk, lane, told, twice>>

LaneFree == [for |-> "nothing"]
Nothing == [x \in {} |-> 0]
Without(f, x) == Restrict(f, DOMAIN f \ {x})
Having(f, x, y) == [z \in DOMAIN f \cup {x} |-> IF z = x THEN y ELSE f[z]]

BundlesInit ==
    /\ \E tale \in Tales, sheet \in Sheets, fighting \in BOOLEAN :
          worlds = <<[from |-> 0, tale |-> tale, sheet |-> sheet, rev |-> SourceRevision,
                      fight |-> IF fighting THEN <<1, SourceRevision>> ELSE <<>>]>>
    /\ files = <<>> /\ receipts = Nothing /\ flights = {} /\ prepared = Nothing
    /\ pending = Nothing /\ onDisk = Nothing /\ lane = LaneFree
    /\ told = {} /\ twice = {}

-----------------------------------------------------------------------------
(* portable_history: only what players and the Dungeon Master said goes    *)
(* along; what was published is named by position, before and after.       *)
Spoken(m) == m.who \in {"user", "assistant"}
PlaceBefore(history) == Len(history)        \* mutant: the index before the push
Place(history) == Len(history) + 1
PortableHistory(tale, sharedOnly) ==
    LET goes(i) == Spoken(tale.story[i]) /\ (sharedOnly => i \in tale.shared)
        upTo[i \in 0..Len(tale.story)] ==
            IF i = 0 THEN [story |-> <<>>, shared |-> {}]
            ELSE LET so == upTo[i - 1] IN
                 IF ~goes(i) THEN so
                 ELSE [story |-> Append(so.story, tale.story[i]),
                       shared |-> so.shared \cup
                           (IF i \in tale.shared THEN {Place(so.story)} ELSE {})]
    IN upTo[Len(tale.story)]

(* desktop_bundle_export, the first half: who the local player is.         *)
BeginExport(w, kind) ==
    /\ lane = LaneFree /\ Len(files) < MaxFiles
    /\ lane' = [for |-> "export", kind |-> kind, world |-> w, actor |-> worlds[w].sheet]
    /\ UNCHANGED <<worlds, files, receipts, flights, prepared, pending, onDisk, told, twice>>
(* capture, authorize_export and the file that is written; or no file.     *)
Captured(w, kind) ==
    LET tale == PortableHistory(worlds[w].tale, kind = "dossier") IN
    [kind |-> kind, tale |-> IF kind = "dossier" THEN [tale EXCEPT !.shared = {}] ELSE tale,
     of |-> w, actor |-> lane.actor, sheet |-> worlds[w].sheet, fight |-> kind = "backup" /\ worlds[w].fight # <<>>]
EndExport ==
    /\ lane.for = "export" /\ lane' = LaneFree
    /\ \/ /\ lane.kind = "dossier" => worlds[lane.world].sheet = lane.actor
          /\ files' = Append(files, Captured(lane.world, lane.kind))
       \/ UNCHANGED files
    /\ UNCHANGED <<worlds, receipts, flights, prepared, pending, onDisk, told, twice>>

-----------------------------------------------------------------------------
(* desktop_bundle_pick_import: a preview, under the operation by which     *)
(* this very file may already be on its way.                               *)
Drawn == DOMAIN receipts \cup {r.op : r \in flights} \cup DOMAIN prepared \cup Range(pending) \cup Range(onDisk)
FreshOp == CHOOSE o \in 1..MaxOps : o \notin Drawn
OperationNew(file) == FreshOp               \* mutant: every preview is a new import
OperationFor(file) == IF file \in DOMAIN pending THEN pending[file] ELSE FreshOp
Pick(file) ==
    /\ lane = LaneFree /\ files[file].kind = "backup" /\ Cardinality(DOMAIN prepared) < 2
    /\ (1..MaxOps) \ Drawn # {}
    /\ LET op == OperationFor(file) IN
       /\ prepared' = Having(prepared, op, file)
       /\ twice' = IF \E o \in DOMAIN prepared : prepared[o] = file /\ o # op
                   THEN twice \cup {file} ELSE twice
    /\ UNCHANGED <<worlds, files, receipts, flights, pending, onDisk, lane, told>>

(* desktop_bundle_confirm_import: what is sent is remembered first.        *)
Confirm(op) ==
    LET file == prepared[op] IN
    /\ lane = LaneFree
    /\ Cardinality(DOMAIN pending) < MaxPending \/ file \in DOMAIN pending
    /\ pending' = Having(pending, file, op)
    /\ \/ /\ onDisk' = pending' /\ flights' = flights \cup {[op |-> op, file |-> file]}
          /\ lane' = [for |-> "import", op |-> op, file |-> file]
       \/ UNCHANGED <<onDisk, flights, lane>>              \* save() failed
    /\ UNCHANGED <<worlds, files, receipts, prepared, told, twice>>

(* import_new: one transaction; the fight of the backup continues in the   *)
(* new session, whose first revision is that of the restored fight.        *)
FirstRevision == 1
Imported(file) ==
    LET b == files[file] IN
    [from |-> file, tale |-> b.tale, sheet |-> b.sheet, rev |-> FirstRevision,
     fight |-> IF b.fight THEN <<Len(worlds) + 1, 0 + 1>> ELSE <<>>]
ServeImport(op, file) ==
    /\ \/ /\ op \notin DOMAIN receipts /\ Len(worlds) < MaxWorlds
          /\ worlds' = Append(worlds, Imported(file))
          /\ receipts' = Having(receipts, op, [digest |-> file, world |-> Len(worlds) + 1])
       \/ UNCHANGED <<worlds, receipts>>    \* a receipt, a conflict, or a roll-back
    /\ flights' = flights \ {[op |-> op, file |-> file]}
    /\ UNCHANGED <<files, prepared, pending, onDisk, lane, told, twice>>
(* The answer: a campaign, an error, or nothing within a minute.           *)
ConfirmEnds ==
    /\ lane.for = "import" /\ lane' = LaneFree
    /\ \/ UNCHANGED <<prepared, pending, onDisk, told>>
       \/ /\ lane.op \in DOMAIN receipts
          /\ receipts[lane.op].digest = lane.file
          /\ pending' = Without(pending, lane.file)
          /\ told' = told \cup {receipts[lane.op].world}
          /\ \/ onDisk' = pending' /\ prepared' = Without(prepared, lane.op)
             \/ UNCHANGED <<onDisk, prepared>>             \* save() failed
    /\ UNCHANGED <<worlds, files, receipts, flights, twice>>
CancelPreview(op) ==
    /\ lane = LaneFree /\ prepared' = Without(prepared, op)
    /\ UNCHANGED <<worlds, files, receipts, flights, pending, onDisk, lane, told, twice>>

-----------------------------------------------------------------------------
(* The application is closed; what the backend was asked dies with it.     *)
Quit ==
    /\ lane' = LaneFree /\ prepared' = Nothing /\ pending' = onDisk /\ flights' = {}
    /\ UNCHANGED <<worlds, files, receipts, onDisk, told, twice>>
(* Meanwhile the local player commits another hero.                        *)
NewHero(w, sheet) ==
    /\ worlds[w].from = 0 /\ worlds[w].sheet # sheet
    /\ worlds' = [worlds EXCEPT ![w].sheet = sheet]
    /\ UNCHANGED <<files, receipts, flights, prepared, pending, onDisk, lane, told, twice>>

BundlesNext ==
    \/ \E w \in DOMAIN worlds, kind \in {"backup", "dossier"} : BeginExport(w, kind)
    \/ \E file \in DOMAIN files : Pick(file)
    \/ \E op \in DOMAIN prepared : Confirm(op) \/ CancelPreview(op)
    \/ \E r \in flights : ServeImport(r.op, r.file)
    \/ \E w \in DOMAIN worlds, sheet \in Sheets : NewHero(w, sheet)
    \/ EndExport \/ ConfirmEnds \/ Quit

BundlesSpec == BundlesInit /\ [][BundlesNext]_bundleVars
-----------------------------------------------------------------------------
(* An import whose answer was lost is found again, not repeated: a file    *)
(* has at most one campaign the shell never heard of, unless it was        *)
(* previewed twice at the same time.                                       *)
Copies(file) == {w \in DOMAIN worlds : worlds[w].from = file}
ImportedOnce ==
    \A file \in DOMAIN files \ twice : Cardinality(Copies(file) \ told) <= 1

(* What a file holds and what becomes of it: a backup tells in their order *)
(* the messages that were said in the source, and marks as published those *)
(* that were published there; a dossier is its owner's and holds only what *)
(* was published; the campaign imported from a backup tells what the file  *)
(* does and continues its fight as its own, at the session's revision.     *)
Travels(tale, sharedOnly) ==
    {i \in DOMAIN tale.story : Spoken(tale.story[i]) /\ (sharedOnly => i \in tale.shared)}
PlaceOf(i, goes) == Cardinality({j \in goes : j <= i})
Tells(tale, source, goes) ==
    /\ Len(tale.story) = Cardinality(goes)
    /\ \A i \in goes : tale.story[PlaceOf(i, goes)] = source.story[i]
Marks(tale, source, goes) ==
    tale.shared = {PlaceOf(i, goes) : i \in goes \cap source.shared}
FileIsFaithful(b) ==
    LET source == worlds[b.of].tale
        goes == Travels(source, b.kind = "dossier")
    IN /\ Tells(b.tale, source, goes)
       /\ IF b.kind = "backup" THEN Marks(b.tale, source, goes) ELSE b.sheet = b.actor
CopyIsFaithful(w) ==
    LET b == files[worlds[w].from] IN
    /\ b.kind = "backup" /\ worlds[w].tale = b.tale
    /\ worlds[w].fight = IF b.fight THEN <<w, worlds[w].rev>> ELSE <<>>
BundlesAreFaithful ==
    /\ \A k \in DOMAIN files : FileIsFaithful(files[k])
    /\ \A w \in DOMAIN worlds : worlds[w].from # 0 => CopyIsFaithful(w)

(* A story moves to another machine once, and as it was told.               *)
StoryMovesOnce == ImportedOnce /\ BundlesAreFaithful
=============================================================================

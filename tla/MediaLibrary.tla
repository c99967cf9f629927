---------------------------- MODULE MediaLibrary ----------------------------
(***************************************************************************)
(* The pictures of the application: immutable assets with an owner, the     *)
(* mediaBindings that let a campaign show them on a hero, and the map on the     *)
(* table.  The local player, a guest of the room, a turn that draws a map,  *)
(* the migration of a picture kept inside a sheet, a restored save and an   *)
(* imported bundle put pictures in and refer to them.                       *)
(*                                                                         *)
(* Campaign 1 is played, campaign 2 is its import.  Campaign 1 may have no  *)
(* hero yet, and then takes the one of the client's sheet at its next save. *)
(* A picture stands for its bytes and their descriptor, whose inspection is *)
(* left out with bundled art and illustrations, which nothing refers to;    *)
(* the local player's heroes of a campaign count as one actor.  Leases and  *)
(* approvals are the business of Rooms and HeroDrafts, revisions that of    *)
(* Saves; an asset is never deleted.                                        *)
(***************************************************************************)
EXTENDS Naturals, FiniteSets

CONSTANTS
    Pictures, NoPicture,
    MaxAssets,       \* bound: assets ever registered
    MaxRestores      \* bound: how often the save is restored

ASSUME MediaAssumption == NoPicture \notin Pictures /\ MaxAssets \in Nat /\ MaxRestores \in Nat

VARIABLES
    library,         \* media_assets and media_content
    mediaBindings,   \* media_bindings: asset, campaign, actor
    hero,            \* campaign 1 has a hero: its row of campaign_characters
    portraits,       \* the portrait of each hero: an asset, inline or none
    maps,            \* current_map_media, 0: none
    saved,           \* a snapshot of campaign 1: the hero, the map, the party
    timeline,        \* sessions.restore_generation
    drawing,         \* a turn of campaign 1 that draws a map
    migrating,       \* migrate_portrait between its two transactions
    seat,            \* the guest: "away", "seated", "proposing", "playing"
    proposal,        \* the portrait of the pending proposal
    imported,        \* campaign 2 exists
    ours,            \* maps of this timeline: the restored one, those drawn since
    supplied         \* pictures that came to the hero with a save

mediaVars == <<library, mediaBindings, hero, portraits, maps, saved, timeline, drawing, migrating,
               seat, proposal, imported, ours, supplied>>
guestVars == <<seat, proposal>>
heroVars == <<hero, portraits, supplied>>
lineVars == <<saved, timeline, drawing, ours>>

HeroSeats == {"host", "guest"}
Campaigns == {1} \cup (IF imported THEN {2} ELSE {})
Asset(k, c, r, p) == [kind |-> k, of |-> c, who |-> r, pic |-> p]
NoPortrait == [id |-> 0, pic |-> NoPicture]
Inline(p) == [id |-> 0, pic |-> p]
RefTo(id) == [id |-> id, pic |-> library[id].pic]
NoDrawing == [step |-> "idle", line |-> 0, map |-> 0]

MediaInit ==
    /\ library = <<>> /\ mediaBindings = {} /\ maps = [c \in 1..2 |-> 0]
    /\ hero \in BOOLEAN /\ supplied = {}
    /\ portraits \in {[a \in (1..2) \X HeroSeats |->
                      IF a = <<1, "host">> THEN s ELSE NoPortrait]
                   : s \in {NoPortrait} \cup {Inline(p) : p \in {q \in Pictures : hero}}}
    /\ saved = [hero |-> hero, portrait |-> portraits[<<1, "host">>], map |-> 0, guest |-> FALSE]
    /\ timeline = 0
    /\ drawing = NoDrawing /\ migrating = 0 /\ seat = "away" /\ proposal = NoPortrait
    /\ imported = FALSE /\ ours = {}

-----------------------------------------------------------------------------
(* Storing.  A registered id is answered again only for the same asset.     *)
Ids == DOMAIN library
NextId == Cardinality(Ids) + 1
Accepts(id, a) == IF id \in Ids THEN library[id] = a ELSE id = NextId /\ NextId <= MaxAssets
WithAsset(id, a) == [i \in Ids \cup {id} |-> IF i = id THEN a ELSE library[i]]

(* bind_portrait: the actor's already, a draft of the local player, made    *)
(* for this actor, or the guest's own upload.                               *)
MayBindAny(ref, c, role) ==   \* mutant: a draft, whoever asks
    /\ ref.id \in Ids /\ ref = RefTo(ref.id)
    /\ LET a == library[ref.id] IN
       \/ <<ref.id, c, role>> \in mediaBindings
       \/ a.kind = "draft"
       \/ a.kind = "campaign" /\ a.of = c /\ a.who = role
       \/ a.kind = "room_member" /\ a.of = c /\ role = "guest"
MayBind(ref, c, role) ==
    /\ ref.id \in Ids /\ ref = RefTo(ref.id)
    /\ LET a == library[ref.id] IN
       \/ <<ref.id, c, role>> \in mediaBindings
       \/ a.kind = "draft" /\ role = "host"
       \/ a.kind = "campaign" /\ a.of = c /\ a.who = role
       \/ a.kind = "room_member" /\ a.of = c /\ role = "guest"
MapBound(c, map) == IF map = 0 THEN {} ELSE {<<map, c, "map">>}   \* select_map
Bound(ref, c, role) == IF ref.id = 0 THEN mediaBindings ELSE mediaBindings \cup {<<ref.id, c, role>>}

(* What each scope may read.                                                *)
DraftReads == {i \in Ids : library[i].kind = "draft"}
CampaignReads(c) == {i \in Ids : \/ \E r \in HeroSeats : <<i, c, r>> \in mediaBindings
                                 \/ <<i, c, "map">> \in mediaBindings
                                 \/ library[i].kind = "campaign" /\ library[i].of = c}
ActiveSeats == {"host"} \cup (IF seat = "playing" THEN {"guest"} ELSE {})
GuestReads == IF seat = "away" \/ ~hero THEN {}   \* party::load asks for the hero
              ELSE {i \in Ids : \/ library[i].kind = "room_member"
                                \/ i = maps[1] /\ library[i].kind = "campaign"
                                \/ \E r \in ActiveSeats : portraits[<<1, r>>].id = i}
(* capture: what a bundle may carry.                                        *)
Portable(c) == {i \in Ids : \/ library[i].kind # "draft" /\ library[i].of = c
                            \/ \E b \in mediaBindings : b[1] = i /\ b[2] = c}

-----------------------------------------------------------------------------
(* The local player.  The lane of the campaign is free unless a turn runs   *)
(* or a migration is under way.                                             *)
MediaLane == drawing.step \in {"idle", "interrupted"} /\ migrating = 0

RegisterAsset ==
    /\ \E p \in Pictures :
          \E a \in {Asset("draft", 0, "none", p), Asset("campaign", 1, "host", p)} :
             Accepts(NextId, a) /\ library' = WithAsset(NextId, a)
    /\ UNCHANGED <<mediaBindings, heroVars, maps, lineVars, migrating, guestVars, imported>>

(* A committed sheet makes its hero, with the picture it names, or none.    *)
CommitPortrait(c, ref) ==
    /\ MediaLane /\ (ref.id # 0 => MayBind(ref, c, "host"))
    /\ portraits' = [portraits EXCEPT ![<<c, "host">>] = ref] /\ hero' = (hero \/ c = 1)
    /\ mediaBindings' = Bound(ref, c, "host")
    /\ UNCHANGED <<library, supplied, maps, lineVars, migrating, guestVars, imported>>

(* migrate_portrait: no room, no pending turn; the request names the asset, *)
(* so that a retry after a crash finds it.                                  *)
MigratePortrait(id) ==
    LET old == portraits[<<1, "host">>]
        a == Asset("campaign", 1, "host", old.pic) IN
    /\ MediaLane /\ drawing = NoDrawing /\ seat = "away"
    /\ old.id = 0 /\ old # NoPortrait /\ Accepts(id, a)
    /\ library' = WithAsset(id, a) /\ migrating' = id
    /\ UNCHANGED <<mediaBindings, heroVars, maps, lineVars, guestVars, imported>>
CommitMigration ==
    /\ migrating # 0 /\ migrating' = 0
    /\ MayBind(RefTo(migrating), 1, "host")
    /\ portraits' = [portraits EXCEPT ![<<1, "host">>] = RefTo(migrating)]
    /\ mediaBindings' = Bound(RefTo(migrating), 1, "host")
    /\ UNCHANGED <<library, hero, supplied, maps, lineVars, guestVars, imported>>

-----------------------------------------------------------------------------
(* A turn draws a map: the picture is registered when the tool answers and  *)
(* selected when its step is finished, in the timeline the turn began in.   *)
BeginDrawing ==
    /\ MediaLane
    /\ drawing.step = "interrupted" => drawing.line = timeline
    /\ drawing' = [step |-> "running", line |-> timeline, map |-> 0]
    /\ UNCHANGED <<library, mediaBindings, heroVars, maps, saved, timeline, migrating, guestVars,
                   imported, ours>>
DrawMap ==
    /\ drawing.step = "running" /\ drawing.map = 0
    /\ \E p \in Pictures :
          /\ Accepts(NextId, Asset("campaign", 1, "none", p))
          /\ library' = WithAsset(NextId, Asset("campaign", 1, "none", p))
    /\ drawing' = [drawing EXCEPT !.map = NextId] /\ ours' = ours \cup {NextId}
    /\ UNCHANGED <<mediaBindings, heroVars, maps, saved, timeline, migrating, guestVars, imported>>
FinishStep ==
    /\ drawing.step = "running" /\ drawing.map # 0 /\ drawing.line = timeline
    /\ drawing' = NoDrawing
    /\ maps' = [maps EXCEPT ![1] = drawing.map]
    /\ mediaBindings' = mediaBindings \cup MapBound(1, drawing.map)
    /\ UNCHANGED <<library, heroVars, saved, timeline, migrating, guestVars, imported,
                   ours>>

(* create_snapshot: the hero of the campaign; without one, the sheet the    *)
(* client sends along, if it is a character, becomes the hero with the      *)
(* picture it names, and nothing is bound.                                  *)
OwnPictures == {i \in Ids : \/ library[i].kind = "draft"
                            \/ library[i].kind = "campaign" /\ library[i].of = 1 /\ library[i].who = "host"}
GuestEnrolled == portraits[<<1, "guest">>] # NoPortrait
Snapshot(given, portrait) ==
    [hero |-> given, portrait |-> portrait, map |-> maps[1], guest |-> GuestEnrolled]
SaveGame ==
    /\ MediaLane
    /\ saved' = Snapshot(hero, portraits[<<1, "host">>])
    /\ UNCHANGED <<library, mediaBindings, heroVars, maps, timeline, drawing, migrating, guestVars,
                   imported, ours>>
SaveSupplied(brought) ==
    /\ MediaLane /\ ~hero /\ (brought.id # 0 => brought.id \in OwnPictures)
    /\ hero' = TRUE /\ portraits' = [portraits EXCEPT ![<<1, "host">>] = brought]
    /\ supplied' = IF brought.id = 0 THEN supplied ELSE supplied \cup {brought.id}
    /\ saved' = Snapshot(TRUE, brought)
    /\ UNCHANGED <<library, mediaBindings, maps, timeline, drawing, migrating, guestVars, imported,
                   ours>>
(* apply_projection: a snapshot without a map clears the table; one without *)
(* a hero removes the hero's row.  The party must be the same.              *)
RestoreSave ==
    /\ MediaLane /\ timeline < MaxRestores /\ timeline' = timeline + 1
    /\ saved.guest = GuestEnrolled /\ hero' = saved.hero
    /\ portraits' = [portraits EXCEPT ![<<1, "host">>] = saved.portrait]
    /\ maps' = [maps EXCEPT ![1] = saved.map]
    /\ mediaBindings' = mediaBindings \cup MapBound(1, saved.map)
    /\ ours' = {saved.map}
    /\ UNCHANGED <<library, supplied, saved, drawing, migrating, guestVars, imported>>

-----------------------------------------------------------------------------
(* The guest.  Ids are the guest's own choice: an upload may be repeated.   *)
(* A room is opened around a hero, and its party is read with the hero.     *)
Member(p) == Asset("room_member", 1, "guest", p)
SitDown ==
    /\ seat = "away" /\ migrating = 0 /\ hero
    /\ seat' = IF portraits[<<1, "guest">>] = NoPortrait THEN "seated" ELSE "playing"
    /\ UNCHANGED <<library, mediaBindings, heroVars, maps, lineVars, migrating, proposal, imported>>
StandUp ==
    /\ seat # "away" /\ seat' = "away" /\ proposal' = NoPortrait
    /\ UNCHANGED <<library, mediaBindings, heroVars, maps, lineVars, migrating, imported>>
UploadPortrait(id, p) ==
    /\ seat # "away" /\ Accepts(id, Member(p)) /\ library' = WithAsset(id, Member(p))
    /\ UNCHANGED <<mediaBindings, heroVars, maps, lineVars, migrating, guestVars, imported>>

(* submit_character: a picture inside the sheet is first registered under   *)
(* the id of the proposal (UploadPortrait, if that is all that happens); it *)
(* stays inside when that is refused.                                       *)
SubmitCharacter(ref) ==
    /\ seat \in {"seated", "proposing"} /\ hero /\ ref # NoPortrait
    /\ ref.id # 0 => MayBind(ref, 1, "guest")
    /\ seat' = "proposing" /\ proposal' = ref /\ mediaBindings' = Bound(ref, 1, "guest")
    /\ UNCHANGED <<library, heroVars, maps, lineVars, migrating, imported>>
EnrollGuest ==
    /\ seat = "proposing" /\ hero
    /\ proposal.id # 0 => MayBind(proposal, 1, "guest")
    /\ portraits' = [portraits EXCEPT ![<<1, "guest">>] = proposal]
    /\ mediaBindings' = Bound(proposal, 1, "guest")
    /\ seat' = "playing" /\ proposal' = NoPortrait
    /\ UNCHANGED <<library, hero, supplied, maps, lineVars, migrating, imported>>

-----------------------------------------------------------------------------
(* A bundle of campaign 1 is imported: every picture it refers to comes     *)
(* along under a new id, owned by the new campaign and bound to its heroes. *)
Referred == ({portraits[<<1, r>>].id : r \in HeroSeats} \cup {maps[1]}) \ {0}
ImportMedia ==
    LET copyOf == CHOOSE f \in [Referred -> NextId..(NextId + Cardinality(Referred) - 1)] :
                     \A i, j \in Referred : i # j => f[i] # f[j]
        copies == {copyOf[i] : i \in Referred}
        moved(ref) == IF ref.id = 0 THEN ref ELSE [ref EXCEPT !.id = copyOf[ref.id]] IN
    /\ ~imported /\ Referred \subseteq Portable(1) /\ NextId + Cardinality(Referred) <= MaxAssets + 1
    /\ library' = [i \in Ids \cup copies |->
                     IF i \in Ids THEN library[i]
                     ELSE Asset("campaign", 2, "none",
                                library[CHOOSE o \in Referred : copyOf[o] = i].pic)]
    /\ portraits' = [a \in DOMAIN portraits |-> IF a[1] = 2 THEN moved(portraits[<<1, a[2]>>])
                                          ELSE portraits[a]]
    /\ maps' = [maps EXCEPT ![2] = IF maps[1] = 0 THEN 0 ELSE copyOf[maps[1]]]
    /\ mediaBindings' = mediaBindings
         \cup {<<portraits'[<<2, r>>].id, 2, r>> : r \in {s \in HeroSeats : portraits[<<1, s>>].id # 0}}
         \cup MapBound(2, maps'[2])
    /\ imported' = TRUE
    /\ UNCHANGED <<hero, supplied, lineVars, migrating, guestVars>>

(* The process dies: a turn is interrupted, a migration is repeated.        *)
RestartMedia ==
    /\ ~MediaLane /\ migrating' = 0
    /\ drawing' = IF drawing.step = "running" THEN [drawing EXCEPT !.step = "interrupted"]
                  ELSE drawing
    /\ UNCHANGED <<library, mediaBindings, heroVars, maps, saved, timeline, guestVars, imported, ours>>

Portraits == {NoPortrait} \cup {Inline(p) : p \in Pictures} \cup {RefTo(i) : i \in Ids}
PlayOn ==
    \/ \E ref \in Portraits : CommitPortrait(1, ref)
    \/ \E id \in Ids \cup {NextId} : MigratePortrait(id)
    \/ CommitMigration
    \/ BeginDrawing \/ DrawMap \/ FinishStep
    \/ SaveGame \/ RestoreSave
    \/ \E brought \in Portraits : SaveSupplied(brought)
    \/ SitDown \/ StandUp \/ EnrollGuest
    \/ \E id \in Ids \cup {NextId}, p \in Pictures : UploadPortrait(id, p)
    \/ \E ref \in Portraits : SubmitCharacter(ref)
    \/ ImportMedia \/ RestartMedia
(* Bound: once imported, the game goes on in campaign 2 alone.              *)
MediaNext ==
    \/ ~imported /\ PlayOn
    \/ imported /\ \E ref \in Portraits : CommitPortrait(2, ref)
    \/ RegisterAsset

MediaSpec == MediaInit /\ [][MediaNext]_mediaVars
-----------------------------------------------------------------------------
(* Whatever was saved, restored, migrated, uploaded twice or imported: the  *)
(* portrait of every hero is the picture it was given, can be read in its   *)
(* campaign, be saved with its sheet again and leave in a bundle, but for   *)
(* one that came with a save alone, which a later commit can still bind;    *)
(* the map on the table is one of this timeline; and a guest sees of the    *)
(* local player's drafts only what the player has put on a hero.            *)
UnboundSupplied == {i \in supplied : <<i, 1, "host">> \notin mediaBindings}
PicturesStay ==
    /\ \A c \in Campaigns, r \in HeroSeats :
          LET ref == portraits[<<c, r>>] IN
          ref.id # 0 => /\ MayBind(ref, c, r)
                        /\ \/ ref.id \in CampaignReads(c) \cap Portable(c)
                           \/ c = 1 /\ r = "host" /\ ref.id \in UnboundSupplied
    /\ \A c \in Campaigns : maps[c] # 0 => maps[c] \in CampaignReads(c) \cap Portable(c)
    /\ maps[1] # 0 => maps[1] \in ours
    /\ \A i \in GuestReads \cap DraftReads :
          i \in UnboundSupplied \/ \E c \in Campaigns : <<i, c, "host">> \in mediaBindings
=============================================================================

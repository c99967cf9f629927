----------------------------- MODULE MCCampaign -----------------------------
(* What runs on the player's own machine, in one run: the table (two heroes  *)
(* against one opponent), the ledger of a request, the saves, the model      *)
(* runtimes and their downloads, campaigns exported and imported, the        *)
(* settings, the start of the backend, the notifications, the talk around a   *)
(* request, the pictures.  They share no                                     *)
(* state: `focus` says which one moves while the others stay as they began.  *)
EXTENDS Encounters, CommandLedger, Saves, LocalRuntime, Downloads, Bundles, Settings,
        BackendStart, Notifications, RequestDialogue, MediaLibrary, TLC

CONSTANTS h1, h2, n1, k1, Leon
VARIABLE focus

CampaignInit ==
    /\ focus \in {"table", "ledger", "saves", "runtime", "downloads", "bundles", "settings",
                 "start", "notes", "dialogue", "media"}
    /\ Init /\ LedgerInit /\ SavesInit /\ RuntimeInit /\ LoadInit /\ BundlesInit /\ SettingsInit
    /\ StartInit /\ (focus # "start" => data = {})
    /\ DialogueInit /\ MediaInit /\ (focus # "media" => ~hero)
    /\ NotesInit /\ (focus # "notes" => gameScope = "camp")
    /\ focus # "downloads" => model = "pair"
    /\ focus # "bundles" => worlds[1].fight = <<>> /\ worlds[1].sheet = Leon

(* Bound: a picture kept inside the guest's sheet takes the place of an asset.  *)
GuestKeepsOne ==
    (\E ref \in {proposal, portraits[<<1, "guest">>]} : ref.id = 0 /\ ref # NoPortrait)
        => Cardinality(Ids) < MaxAssets

(* The refusals are alike, so the first one a request speaks of, in its       *)
(* conditions or else by an outcome, is k1: the others are the same behaviour. *)
FirstRefusal ==
    LET said == [i \in DOMAIN manifest |-> manifest[i].when.code]
                \o [i \in DOMAIN bindings |-> IF bindings[i] = <<>> THEN "none"
                                              ELSE Last(bindings[i]).outcome]
        refusals == SelectSeq(said, LAMBDA code : code \in Codes)
    IN  refusals = <<>> \/ Head(refusals) = k1

Moves(service, step) == focus = service /\ step /\ UNCHANGED focus

CampaignNext ==
    \/ Moves("table", Next)
          /\ UNCHANGED <<ledgerVars, saveVars, runtimeVars, loadVars, bundleVars, settingsVars, startVars, noteVars, dialogueVars, mediaVars>>
    \/ Moves("ledger", LedgerNext) /\ FirstRefusal'
          /\ UNCHANGED <<vars, saveVars, runtimeVars, loadVars, bundleVars, settingsVars, startVars, noteVars, dialogueVars, mediaVars>>
    \/ Moves("saves", SavesNext)
          /\ UNCHANGED <<vars, ledgerVars, runtimeVars, loadVars, bundleVars, settingsVars, startVars, noteVars, dialogueVars, mediaVars>>
    \/ Moves("runtime", RuntimeNext)
          /\ UNCHANGED <<vars, ledgerVars, saveVars, loadVars, bundleVars, settingsVars, startVars, noteVars, dialogueVars, mediaVars>>
    \/ Moves("downloads", LoadNext)
          /\ UNCHANGED <<vars, ledgerVars, saveVars, runtimeVars, bundleVars, settingsVars, startVars, noteVars, dialogueVars, mediaVars>>
    \/ Moves("bundles", BundlesNext)
          /\ UNCHANGED <<vars, ledgerVars, saveVars, runtimeVars, loadVars, settingsVars, startVars, noteVars, dialogueVars, mediaVars>>
    \/ Moves("settings", SettingsNext)
          /\ UNCHANGED <<vars, ledgerVars, saveVars, runtimeVars, loadVars, bundleVars, startVars, noteVars, dialogueVars, mediaVars>>
    \/ Moves("start", StartNext)
          /\ UNCHANGED <<vars, ledgerVars, saveVars, runtimeVars, loadVars, bundleVars, settingsVars, noteVars, dialogueVars, mediaVars>>
    \/ Moves("notes", NotesNext)
          /\ UNCHANGED <<vars, ledgerVars, saveVars, runtimeVars, loadVars, bundleVars, settingsVars, startVars, dialogueVars, mediaVars>>
    \/ Moves("dialogue", DialogueNext)
          /\ UNCHANGED <<vars, ledgerVars, saveVars, runtimeVars, loadVars, bundleVars, settingsVars, startVars, noteVars, mediaVars>>
    \/ Moves("media", MediaNext) /\ GuestKeepsOne'
          /\ UNCHANGED <<vars, ledgerVars, saveVars, runtimeVars, loadVars, bundleVars, settingsVars, startVars, noteVars, dialogueVars>>

Campaign ==
    CampaignInit
    /\ [][CampaignNext]_<<focus, vars, ledgerVars, saveVars, runtimeVars, loadVars, bundleVars,
                          settingsVars, startVars, noteVars, dialogueVars, mediaVars>>

HeroFirst == {<<h1, n1, h2>>, <<h1, n1>>}
Apart3 == {h1 :> 0 @@ h2 :> 1 @@ n1 :> 2}
(* Everybody rolls well, badly, or the opponent alone has luck.             *)
Dice == {[x \in Combatants |-> 3], [x \in Combatants |-> IF x = n1 THEN 4 ELSE 2]}
SaveDice == {[i \in 1..6 |-> 3], [i \in 1..6 |-> 2], [i \in 1..6 |-> IF i = 1 THEN 4 ELSE 1]}

(* A picture model of two files, the first with a published digest, and a    *)
(* folder of two files without.                                              *)
OnOffer == [pair |-> <<"weights", "lens">>, folder |-> <<"config", "index">>]
Sizes == [f \in Published |-> IF f \in {"weights", "config"} THEN 2 ELSE 1]

(* A question, a die and its answer, which alone was published.              *)
Evening == {[story |-> <<[who |-> "user", text |-> 1], [who |-> "tool", text |-> 2],
                         [who |-> "assistant", text |-> 3]>>, shared |-> {3}]}

(* A provider in the cloud with a key, or a local one without restricted     *)
(* pictures.                                                                 *)
Tastes == {[chat |-> "compat", key |-> "k1", image |-> "local", imageKey |-> NoKey,
             video |-> FALSE, restricted |-> FALSE],
           [chat |-> "native", key |-> NoKey, image |-> "turbo", imageKey |-> NoKey,
             video |-> TRUE, restricted |-> TRUE]}
(* Two commands of which the first, the last or both need a word, or one.    *)
Talks == {<<"vague", "vague">>, <<"exact", "vague">>, <<"exact">>}
(* The turns of an actor in a campaign, and a model that is ready.           *)
TopicScope == [turn |-> "camp", ready |-> "app"]
=============================================================================

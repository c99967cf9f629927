------------------------------ MODULE Settings ------------------------------
(***************************************************************************)
(* One POST of the settings changes two stores: the vault of secrets, key  *)
(* by key, and the runtime snapshot that turns read.  The update prepares  *)
(* the providers first, reads the keys it will change, changes them, swaps *)
(* the snapshot, and puts the keys back when a write fails.  A write which *)
(* fails may have changed the vault in memory without reaching its disk.   *)
(* Posts may overlap; the handler of a closed connection stops where it    *)
(* waits, while the write it waited for still happens.                     *)
(*                                                                         *)
(* Prompts, temperature, reasoning and models are one `chat` choice; the   *)
(* checks of validate_settings_v2 on them are left out.                    *)
(***************************************************************************)
EXTENDS Naturals, Sequences

CONSTANTS
    Wishes,             \* configurations that are posted
    Screens,            \* who posts
    NoKey,              \* an absent or empty secret
    MaxSettings         \* bounds the revisions

ASSUME SettingsAssumption ==
    /\ MaxSettings \in Nat
    /\ \A w \in Wishes : w.chat \in {"compat", "native", "odd"}
                         /\ w.image \in {"off", "replicate", "local", "turbo"}
                         /\ w.video \in BOOLEAN /\ w.restricted \in BOOLEAN

VARIABLES
    vault, vaultDisk,   \* the secrets in memory and in the snapshot file
    runtime,            \* RuntimeSettingsSnapshot
    posts               \* UpdateSettings::execute, by screen

settingsVars == <<vault, vaultDisk, runtime, posts>>

Keys == {"anthropic", "openai_compat", "replicate"}
Quiet == [at |-> "none", alone |-> FALSE, left |-> FALSE]

SettingsInit ==
    /\ vault = [k \in Keys |-> IF k = "anthropic" THEN "legacy" ELSE NoKey] /\ vaultDisk = vault
    /\ runtime = [chat |-> "default", key |-> NoKey, image |-> "none", imageKey |-> NoKey,
                  video |-> FALSE, rev |-> 0]
    /\ posts = [s \in Screens |-> Quiet]

-----------------------------------------------------------------------------
(* The factory: what is built from a configuration, or why nothing is.     *)
(* Restricted mode refuses the chat provider, replaces pictures by bundled *)
(* ones and leaves video out.                                              *)
Oss == {"native", "local"}                  \* licences that restricted mode accepts
Buildable(w) ==
    /\ w.chat # "odd" /\ (w.restricted => w.chat \in Oss)
    /\ w.image = "replicate" /\ ~w.restricted => w.imageKey # NoKey
Picture(w, hasSidecar) ==
    IF w.image = "off" THEN "none"
    ELSE IF w.restricted /\ w.image \notin Oss THEN "bundled"
    ELSE IF w.image = "replicate" \/ hasSidecar THEN w.image ELSE "bundled"
Built(w, hasSidecar) ==
    [chat |-> w.chat, key |-> IF w.chat = "compat" THEN w.key ELSE NoKey,
     image |-> Picture(w, hasSidecar),
     imageKey |-> IF Picture(w, hasSidecar) = "replicate" THEN w.imageKey ELSE NoKey,
     video |-> w.video /\ ~w.restricted /\ hasSidecar]
(* The keys of the providers that are used; the one of a provider that is  *)
(* gone is deleted.                                                        *)
Mutations(w) ==
    (IF w.chat # "compat" THEN <<>> ELSE <<[key |-> "anthropic", to |-> NoKey]>>)
    \o (IF w.chat = "compat" /\ w.key # NoKey
        THEN <<[key |-> "openai_compat", to |-> w.key]>> ELSE <<>>)
    \o (IF Picture(w, TRUE) = "replicate" THEN <<[key |-> "replicate", to |-> w.imageKey]>> ELSE <<>>)

InFlight(s) == posts[s].at \in {"capture", "write", "restore", "stray"}
Now(s, p) == posts' = [posts EXCEPT ![s] = p]

(* execute: validate, prepare; whether the native runtime serves the model *)
(* that is asked for is its own affair.                                    *)
(* Snapshots of both stores are kept (history) while nobody else posts.    *)
Post(s, w) ==
    LET lonely == \A o \in Screens \ {s} : ~InFlight(o) IN
    /\ ~InFlight(s) /\ Buildable(w) /\ runtime.rev < MaxSettings
    /\ \E hasSidecar \in BOOLEAN : posts' = [r \in Screens |->
           IF r = s THEN [at |-> "capture", alone |-> lonely, left |-> FALSE,
                          built |-> Built(w, hasSidecar), muts |-> Mutations(w), old |-> <<>>,
                          i |-> 0, before |-> IF lonely THEN <<vault, runtime>> ELSE <<>>]
           ELSE IF InFlight(r) THEN [posts[r] EXCEPT !.alone = FALSE, !.before = <<>>]
           ELSE Quiet]
    /\ UNCHANGED <<vault, vaultDisk, runtime>>
Declined(s, w) ==
    /\ ~InFlight(s) /\ (~Buildable(w) \/ w.chat = "native")
    /\ Now(s, Quiet) /\ UNCHANGED <<vault, vaultDisk, runtime>>

-----------------------------------------------------------------------------
(* capture_originals: a key that cannot be read ends the update.           *)
Capture(s) ==
    LET p == posts[s] IN
    /\ p.at = "capture"
    /\ \/ IF p.i = Len(p.muts) THEN Now(s, [p EXCEPT !.at = "write", !.i = 1])
          ELSE Now(s, [p EXCEPT !.i = @ + 1, !.old = Append(@, vault[p.muts[p.i + 1].key])])
       \/ p.i < Len(p.muts) /\ Now(s, [p EXCEPT !.at = "failed"])
    /\ UNCHANGED <<vault, vaultDisk, runtime>>

(* A write of the vault: in memory, then the whole memory to its snapshot. *)
Stored(key, value) == vault' = [vault EXCEPT ![key] = value] /\ vaultDisk' = vault'
NotStored(key, value) ==
    vault' \in {vault, [vault EXCEPT ![key] = value]} /\ UNCHANGED vaultDisk

(* What has to be put back after the write of mutation i failed.           *)
UndoFromBefore(p) == p.i - 1                \* mutant: only what was reported as written
UndoFrom(p) == Len(p.muts)
Write(s) ==
    LET p == posts[s]  m == p.muts[p.i] IN
    /\ p.at = "write" /\ p.i <= Len(p.muts)
    /\ \/ Stored(m.key, m.to) /\ Now(s, [p EXCEPT !.i = @ + 1])
       \/ NotStored(m.key, m.to) /\ Now(s, [p EXCEPT !.at = "restore", !.i = UndoFrom(p)])
    /\ UNCHANGED <<runtime>>
Swap(s) ==
    LET p == posts[s] IN
    /\ p.at = "write" /\ p.i > Len(p.muts)
    /\ runtime' = [chat |-> p.built.chat, key |-> p.built.key, image |-> p.built.image,
                   imageKey |-> p.built.imageKey, video |-> p.built.video, rev |-> runtime.rev + 1]
    /\ Now(s, [p EXCEPT !.at = "done"])
    /\ UNCHANGED <<vault, vaultDisk>>
(* restore_originals: backwards, past errors, which the answer mentions.   *)
RestoreKey(s) ==
    LET p == posts[s]  key == p.muts[p.i].key IN
    /\ p.at = "restore" /\ p.i > 0
    /\ \/ Stored(key, p.old[p.i]) /\ Now(s, [p EXCEPT !.i = @ - 1])
       \/ NotStored(key, p.old[p.i]) /\ Now(s, [p EXCEPT !.i = @ - 1, !.left = TRUE])
    /\ UNCHANGED <<runtime>>
Restored(s) ==
    /\ posts[s].at = "restore" /\ posts[s].i = 0
    /\ Now(s, [posts[s] EXCEPT !.at = "failed"])
    /\ UNCHANGED <<vault, vaultDisk, runtime>>

-----------------------------------------------------------------------------
(* The connection closes: the write on its way happens, and nothing after. *)
Hangup(s) ==
    /\ posts[s].at \in {"capture", "write", "restore"}
    /\ Now(s, IF posts[s].at # "capture" /\ posts[s].i \in 1..Len(posts[s].muts)
              THEN [posts[s] EXCEPT !.at = "stray"] ELSE Quiet)
    /\ UNCHANGED <<vault, vaultDisk, runtime>>
StrayWrite(s) ==
    LET p == posts[s]  m == p.muts[p.i] IN
    /\ p.at = "stray" /\ Now(s, Quiet)
    /\ \E value \in {m.to, p.old[p.i]} : Stored(m.key, value) \/ NotStored(m.key, value)
    /\ UNCHANGED <<runtime>>
(* The backend starts anew: settings are posted again, secrets are read.   *)
BackendRestarts ==
    /\ vault' = vaultDisk /\ runtime' = [chat |-> "default", key |-> NoKey, image |-> "none",
                                         imageKey |-> NoKey, video |-> FALSE, rev |-> 0]
    /\ posts' = [s \in Screens |-> Quiet] /\ UNCHANGED <<vaultDisk>>

SettingsNext ==
    \/ \E s \in Screens : \/ \E w \in Wishes : Post(s, w) \/ Declined(s, w)
                          \/ Capture(s) \/ Write(s) \/ Swap(s) \/ RestoreKey(s)
                          \/ Restored(s) \/ Hangup(s) \/ StrayWrite(s)
    \/ BackendRestarts

SettingsSpec == SettingsInit /\ [][SettingsNext]_settingsVars

-----------------------------------------------------------------------------
(* An update is all or nothing, unless another one ran at the same time:   *)
(* one that succeeded left its snapshot and its keys, on disk as well; one *)
(* that failed and does not say that the rollback failed left both stores  *)
(* as they were.                                                           *)
UpdatesAreWhole ==
    \A s \in Screens : LET p == posts[s] IN p.alone =>
        /\ p.at = "done" =>
              /\ \A i \in 1..Len(p.muts) : vault[p.muts[i].key] = p.muts[i].to
              /\ \A k \in Keys \ {p.muts[i].key : i \in 1..Len(p.muts)} : vault[k] = p.before[1][k]
              /\ p.muts # <<>> => vaultDisk = vault
              /\ runtime.chat = p.built.chat /\ runtime.rev = p.before[2].rev + 1
              /\ runtime.key # NoKey => vaultDisk["openai_compat"] = runtime.key
              /\ runtime.imageKey # NoKey => vaultDisk["replicate"] = runtime.imageKey
        /\ p.at = "failed" /\ ~p.left =>
              /\ vault = p.before[1] /\ runtime = p.before[2]
              /\ p.old # <<>> /\ Len(p.old) = Len(p.muts) /\ p.i = 0 => vaultDisk = vault
=============================================================================

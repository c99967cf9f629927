---------------------------- MODULE BackendStart ----------------------------
(***************************************************************************)
(* The desktop application starts its backend: it finds the profile with   *)
(* the player's data, finds or creates the password of the profile's vault *)
(* in the credential store of the system, and starts a server that seals   *)
(* its secrets with it.  Several launches may do so at once; a lock file   *)
(* makes the creation exclusive.  A launch may die anywhere, and a write   *)
(* the store reports as failed may have happened.                          *)
(*                                                                         *)
(* On Windows a mutex and the single-instance plugin make overlapping      *)
(* launches rare; the property does not lean on them.  Left out are        *)
(* explicit DATABASE_URL and DMAI_VAULT_PATH, unreadable files, and a      *)
(* player who edits the credential store.                                  *)
(***************************************************************************)
EXTENDS Naturals

CONSTANTS
    Launches,           \* launches of the application
    MaxKeys             \* bounds the passwords that are generated

ASSUME StartAssumption == MaxKeys \in Nat /\ "free" \notin Launches

VARIABLES
    data,               \* profile directories with a database or a vault
    keyring,            \* the credential store, by profile: a password, or 0
    snapshot,           \* dmai-vault.hold: what it is sealed with, or 0
    holder,             \* who holds the profile's lock file
    launch,             \* where each launch is
    made,               \* passwords generated
    override            \* DMAI_VAULT_PASSPHRASE was used (history)

startVars == <<data, keyring, snapshot, holder, launch, made, override>>

Dirs == {"legacy", "managed"}
FromEnvironment == MaxKeys + 1              \* the operator's password
Gone == [at |-> "gone", dir |-> "managed", key |-> 0]
Unheld == "free"

StartInit ==
    /\ data \in {{}, {"legacy"}, {"managed"}}
    /\ keyring = [d \in Dirs |-> 0] /\ snapshot = [d \in Dirs |-> 0]
    /\ holder = [d \in Dirs |-> Unheld] /\ launch = [l \in Launches |-> Gone]
    /\ made = 0 /\ override = FALSE

-----------------------------------------------------------------------------
Step(l, at) == launch' = [launch EXCEPT ![l].at = at]
Unlocked(l) == [d \in Dirs |-> IF holder[d] = l THEN Unheld ELSE holder[d]]
(* An error ends the launch: the lock is released, nothing was spawned.    *)
Fails(l) == /\ launch' = [launch EXCEPT ![l] = Gone] /\ holder' = Unlocked(l)
            /\ UNCHANGED <<data, keyring, snapshot, made, override>>

(* BackendProfile::resolve: data beside the executable stay where they     *)
(* are; two profiles with data are ambiguous.                              *)
Resolved == IF "legacy" \in data THEN "legacy" ELSE "managed"
Launch(l) ==
    /\ launch[l].at = "gone" /\ data # Dirs
    /\ launch' = [launch EXCEPT ![l] = [at |-> "read", dir |-> Resolved, key |-> 0]]
    /\ UNCHANGED <<data, keyring, snapshot, holder, made, override>>
LaunchWithPassword(l) ==
    /\ launch[l].at = "gone" /\ data # Dirs /\ override' = TRUE
    /\ launch' = [launch EXCEPT ![l] = [at |-> "have", dir |-> Resolved, key |-> FromEnvironment]]
    /\ UNCHANGED <<data, keyring, snapshot, holder, made>>

-----------------------------------------------------------------------------
(* resolve_with: read, look for a snapshot, lock, read and look again.     *)
Has(l, key) == launch' = [launch EXCEPT ![l].at = "have", ![l].key = key]
Read(l) ==
    LET found == keyring[launch[l].dir] IN
    /\ launch[l].at = "read"
    /\ IF found # 0 THEN Has(l, found) ELSE Step(l, "look")
    /\ UNCHANGED <<data, keyring, snapshot, holder, made, override>>
SealedAlready(l) == snapshot[launch[l].dir] # 0        \* backend_vault_unlock_required
Look(l) ==
    /\ launch[l].at = "look" /\ ~SealedAlready(l) /\ Step(l, "lock")
    /\ UNCHANGED <<data, keyring, snapshot, holder, made, override>>
Lock(l) ==
    /\ launch[l].at = "lock" /\ holder[launch[l].dir] = Unheld
    /\ holder' = [holder EXCEPT ![launch[l].dir] = l] /\ Step(l, "again")
    /\ UNCHANGED <<data, keyring, snapshot, made, override>>
FoundBefore(l) == 0                     \* mutant: what the first read found
FoundAgain(l) == keyring[launch[l].dir]
ReadAgain(l) ==
    /\ launch[l].at = "again"
    /\ IF FoundAgain(l) # 0 THEN Has(l, FoundAgain(l)) /\ holder' = Unlocked(l)
       ELSE Step(l, "lookAgain") /\ UNCHANGED holder
    /\ UNCHANGED <<data, keyring, snapshot, made, override>>
LookAgain(l) ==
    /\ launch[l].at = "lookAgain" /\ ~SealedAlready(l) /\ Step(l, "write")
    /\ UNCHANGED <<data, keyring, snapshot, holder, made, override>>
(* A new password is written and read back.                                *)
WritesPassword(l) ==
    /\ launch[l].at = "write" /\ made < MaxKeys /\ made' = made + 1
    /\ \/ /\ keyring' = [keyring EXCEPT ![launch[l].dir] = made + 1]
          /\ launch' = [launch EXCEPT ![l] = [at |-> "readback", dir |-> @.dir, key |-> made + 1]]
          /\ UNCHANGED holder
       \/ /\ keyring' \in {keyring, [keyring EXCEPT ![launch[l].dir] = made + 1]}
          /\ launch' = [launch EXCEPT ![l] = Gone] /\ holder' = Unlocked(l)
    /\ UNCHANGED <<data, snapshot, override>>
ReadBack(l) ==
    /\ launch[l].at = "readback" /\ keyring[launch[l].dir] = launch[l].key
    /\ Step(l, "have") /\ holder' = Unlocked(l)
    /\ UNCHANGED <<data, keyring, snapshot, made, override>>

-----------------------------------------------------------------------------
(* The server: it opens the vault, and the database beside it.             *)
MatchesVault(l) == snapshot[launch[l].dir] \in {0, launch[l].key}
OpensVault(l) ==
    /\ launch[l].at = "have" /\ MatchesVault(l) /\ Step(l, "open")
    /\ data' = data \cup {launch[l].dir}
    /\ UNCHANGED <<keyring, snapshot, holder, made, override>>
(* Every write of a secret seals the whole vault with the server's own.    *)
Seal(l) ==
    /\ launch[l].at = "open"
    /\ snapshot' = [snapshot EXCEPT ![launch[l].dir] = launch[l].key]
    /\ UNCHANGED <<data, keyring, holder, launch, made, override>>
(* Refusals, time-outs, an unavailable store, and crashes end a launch.    *)
LaunchEnds(l) == launch[l].at # "gone" /\ Fails(l)

StartNext ==
    \E l \in Launches :
       Launch(l) \/ LaunchWithPassword(l) \/ Read(l) \/ Look(l) \/ Lock(l) \/ ReadAgain(l)
       \/ LookAgain(l) \/ WritesPassword(l) \/ ReadBack(l) \/ OpensVault(l) \/ Seal(l) \/ LaunchEnds(l)

StartSpec == StartInit /\ [][StartNext]_startVars

-----------------------------------------------------------------------------
(* Unless the operator brought a password of his own, a profile has one    *)
(* password: whoever got one holds that of the credential store, no vault  *)
(* is sealed with another, so nobody is ever locked out of his secrets.    *)
Holds(l) == launch[l].at \in {"readback", "have", "open"}
OneKey ==
    ~override =>
        /\ \A l \in Launches : Holds(l) =>
              /\ launch[l].key = keyring[launch[l].dir] /\ launch[l].key # 0
              /\ MatchesVault(l)
        /\ \A d \in Dirs : snapshot[d] \in {0, keyring[d]}
=============================================================================

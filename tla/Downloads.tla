------------------------------ MODULE Downloads ------------------------------
(***************************************************************************)
(* A model on its way to the player's disk: one file, two files in a row,  *)
(* or a folder whose files are fetched at once.  A transfer goes on where  *)
(* the file on disk ends; a file with a published digest is verified by    *)
(* the bytes this transfer brought.  Starts and cancellations overlap with *)
(* transfers that are still alive: a second start does not stop the first, *)
(* a cancelled task runs on to its next suspension, and the transfers of a *)
(* folder belong to nobody.  The application may be closed at any time.    *)
(*                                                                         *)
(* A file is clean while it is a prefix of what is published.  Models      *)
(* which the runtime fetches itself (AutoIsq) have no file here and are    *)
(* left out, as are progress events.                                       *)
(***************************************************************************)
EXTENDS Naturals, Sequences

CONSTANTS
    ModelFiles,         \* the files of each kind of model, in order
    Pinned,             \* files with a sha256 in the manifest
    Folder,             \* the model that is a folder
    Chunks,             \* of each file, in chunks
    MaxTransfers           \* bounds the model

Published == UNION {{ModelFiles[m][i] : i \in DOMAIN ModelFiles[m]} : m \in DOMAIN ModelFiles}
ASSUME DownloadsAssumption ==
    /\ Chunks \in [Published -> Nat \ {0}] /\ MaxTransfers \in Nat
    /\ \A m \in DOMAIN ModelFiles : ModelFiles[m] \in Seq(Published) \ {<<>>}

VARIABLES
    model,              \* the model this is about
    shelf,              \* base_dir: what is on disk of each file
    jobs,               \* spawned tasks, by start
    handle,             \* DownloadManager.handles: a job, or 0
    status,             \* DownloadManager.state
    meddled             \* a start or a cancellation met living transfers (history)

loadVars == <<model, shelf, jobs, handle, status, meddled>>

Absent == [len |-> 0, there |-> FALSE, clean |-> TRUE]
Idle == [at |-> "idle", from |-> 0, got |-> 0, lost |-> FALSE]
Files == {ModelFiles[model][i] : i \in 1..Len(ModelFiles[model])}

LoadInit ==
    /\ model \in DOMAIN ModelFiles /\ shelf = [f \in Files |-> Absent]
    /\ jobs = <<>> /\ handle = 0 /\ status = "idle" /\ meddled = FALSE

-----------------------------------------------------------------------------
AtFile(j) == ModelFiles[model][jobs[j].next]
Moving(j, f) == jobs[j].tr[f].at \in {"ask", "sent", "write"}
(* Who still runs: the files of a folder are tasks of their own.           *)
Alive(j, f) == Moving(j, f) /\ (model = Folder \/ jobs[j].live)
SomethingAlive == \E j \in DOMAIN jobs : jobs[j].live \/ \E f \in Files : Alive(j, f)
OtherWriter(j, f) == \E k \in DOMAIN jobs \ {j} : Alive(k, f) /\ jobs[k].tr[f].at = "write"
                                                   /\ ~jobs[k].tr[f].lost

Result(j, how) == IF jobs[j].live THEN [Idle EXCEPT !.at = how] ELSE Idle
To(j, f, with) == jobs' = [jobs EXCEPT ![j].tr[f] = with]
Over(job) ==
    [job EXCEPT !.live = FALSE,
                !.tr = [f \in Files |-> IF job.tr[f].at \in {"ok", "bad"} \/ model # Folder
                                        THEN Idle ELSE job.tr[f]]]
(* A removed file is written on by those who have it open, out of sight.   *)
Orphaned(js, fs) ==
    [k \in DOMAIN js |-> [js[k] EXCEPT !.tr =
        [f \in Files |-> IF f \in fs /\ js[k].tr[f].at = "write"
                         THEN [js[k].tr[f] EXCEPT !.lost = TRUE] ELSE js[k].tr[f]]]]

-----------------------------------------------------------------------------
(* start: the previous task of the model is forgotten, not stopped.        *)
Start ==
    /\ Len(jobs) < MaxTransfers
    /\ jobs' = Append(jobs,
           [live |-> TRUE, listed |-> model # Folder, next |-> 1,
            tr |-> [f \in Files |-> IF model # Folder /\ f = ModelFiles[model][1]
                                    THEN [Idle EXCEPT !.at = "ask"] ELSE Idle]])
    /\ handle' = Len(jobs) + 1 /\ status' = "downloading"
    /\ meddled' = IF SomethingAlive THEN TRUE
                  ELSE meddled /\ \E f \in Files : shelf[f].there
    /\ UNCHANGED <<model, shelf>>

Finish(j, how) ==
    /\ status' = how
    /\ jobs' = [jobs EXCEPT ![j] = Over(@)]
    /\ UNCHANGED <<model, shelf, handle, meddled>>

ListFolder(j) ==
    /\ jobs[j].live /\ ~jobs[j].listed
    /\ \/ /\ jobs' = [jobs EXCEPT ![j].listed = TRUE,
                                  ![j].tr = [f \in Files |-> [Idle EXCEPT !.at = "ask"]]]
          /\ UNCHANGED <<model, shelf, handle, status, meddled>>
       \/ Finish(j, "failed")

(* download_to: the length on disk, the request, the answer, the bytes.    *)
Probe(j, f) ==
    /\ Alive(j, f) /\ jobs[j].tr[f].at = "ask"
    /\ To(j, f, [Idle EXCEPT !.at = "sent", !.from = shelf[f].len])
    /\ UNCHANGED <<model, shelf, handle, status, meddled>>
Opens(j, f) ==
    LET t == jobs[j].tr[f] IN
    /\ Alive(j, f) /\ t.at = "sent" /\ t.from < Chunks[f]    \* a whole file has no rest: 416
    /\ To(j, f, [t EXCEPT !.at = "write"])
    /\ shelf' = [shelf EXCEPT ![f] =
           IF t.from = 0 THEN [len |-> 0, there |-> TRUE, clean |-> ~OtherWriter(j, f)]
           ELSE [len |-> @.len, there |-> TRUE, clean |-> @.clean /\ @.len = t.from]]
    /\ UNCHANGED <<model, handle, status, meddled>>
Chunk(j, f) ==
    LET t == jobs[j].tr[f] IN
    /\ Alive(j, f) /\ t.at = "write" /\ t.from + t.got < Chunks[f]
    /\ To(j, f, [t EXCEPT !.got = @ + 1])
    /\ shelf' = IF t.lost THEN shelf
                ELSE [shelf EXCEPT ![f] =
                         [len |-> IF @.len < Chunks[f] THEN @.len + 1 ELSE @.len, there |-> @.there,
                          clean |-> @.clean /\ ~OtherWriter(j, f) /\ @.len < Chunks[f]]]
    /\ UNCHANGED <<model, handle, status, meddled>>
Breaks(j, f) ==
    /\ Alive(j, f) /\ jobs[j].tr[f].at \in {"sent", "write"}
    /\ To(j, f, Result(j, "bad"))
    /\ UNCHANGED <<model, shelf, handle, status, meddled>>

(* The stream is over: the digest is that of the bytes of this transfer.   *)
WholeAnyway(f, t) == TRUE          \* mutant: a stream cut short counts as ended
Whole(f, t) == t.from + t.got = Chunks[f]
Verified(f, t) == f \in Pinned => t.from = 0 /\ t.got = Chunks[f]
StreamEnds(j, f) ==
    LET t == jobs[j].tr[f] IN
    /\ Alive(j, f) /\ t.at = "write" /\ Whole(f, t)
    /\ IF Verified(f, t)
       THEN To(j, f, Result(j, "ok")) /\ UNCHANGED shelf
       ELSE /\ shelf' = [shelf EXCEPT ![f] = Absent]
            /\ jobs' = Orphaned([jobs EXCEPT ![j].tr[f] = Result(j, "bad")], {f})
    /\ UNCHANGED <<model, handle, status, meddled>>

(* The task goes on to the next file, reports success, or the first error. *)
GoesOn(j) ==
    /\ jobs[j].live /\ jobs[j].listed /\ jobs[j].tr[AtFile(j)].at = "ok"
    /\ IF jobs[j].next = Len(ModelFiles[model]) THEN Finish(j, "completed")
       ELSE LET f == ModelFiles[model][jobs[j].next + 1] IN
            /\ jobs' = [jobs EXCEPT ![j].next = @ + 1,
                                    ![j].tr[f] = IF model = Folder THEN @
                                                 ELSE [Idle EXCEPT !.at = "ask"]]
            /\ UNCHANGED <<model, shelf, handle, status, meddled>>
Reports(j) ==
    /\ jobs[j].live /\ jobs[j].listed /\ jobs[j].tr[AtFile(j)].at = "bad"
    /\ Finish(j, "failed")

-----------------------------------------------------------------------------
(* cancel: the last task is aborted, at its next suspension; the files go. *)
Cancel ==
    /\ jobs' = Orphaned(jobs, Files) /\ shelf' = [f \in Files |-> Absent]
    /\ handle' = 0 /\ status' = "idle" /\ meddled' = (meddled \/ SomethingAlive)
    /\ UNCHANGED model
(* What was aborted stops now, or a few lines later.                       *)
AbortEnds(j) ==
    /\ jobs[j].live /\ handle = 0 /\ jobs' = [jobs EXCEPT ![j] = Over(@)]
    /\ UNCHANGED <<model, shelf, handle, status, meddled>>
AppCloses ==
    /\ jobs' = [k \in DOMAIN jobs |-> [jobs[k] EXCEPT !.live = FALSE, !.tr = [f \in Files |-> Idle]]]
    /\ handle' = 0 /\ status' = "idle" /\ UNCHANGED <<model, shelf, meddled>>

LoadNext ==
    \/ Start \/ Cancel \/ AppCloses
    \/ \E j \in DOMAIN jobs : ListFolder(j) \/ GoesOn(j) \/ Reports(j) \/ AbortEnds(j)
    \/ \E j \in DOMAIN jobs, f \in Files :
          Probe(j, f) \/ Opens(j, f) \/ Chunk(j, f) \/ Breaks(j, f) \/ StreamEnds(j, f)

LoadSpec == LoadInit /\ [][LoadNext]_loadVars

-----------------------------------------------------------------------------
(* A model reported as complete is on disk as it was published, whatever   *)
(* broke, was retried or resumed: unless somebody meddled with a download  *)
(* that was still alive.                                                   *)
CompletedMeansPublished ==
    status = "completed" /\ ~meddled =>
        \A f \in Files : shelf[f] = [len |-> Chunks[f], there |-> TRUE, clean |-> TRUE]
=============================================================================

---------------------------- MODULE LocalRuntime ----------------------------
(***************************************************************************)
(* RuntimeProcesses of the desktop shell: the model server and the media   *)
(* sidecar, started and stopped by requests to the control server, which   *)
(* serves them on one thread.  Tasks of that executor run from one await   *)
(* to the next without another task between, but the exit of the           *)
(* application calls shutdown from the main thread at any moment.  A       *)
(* generation names a start; its children are named by it.                 *)
(*                                                                         *)
(* Left out: ports, arguments and the notification of the user.  A child   *)
(* is killed where the code calls kill; that the call reports an error is  *)
(* ignored there and here.                                                 *)
(***************************************************************************)
EXTENDS Naturals, FiniteSets

CONSTANTS
    MaxStarts,          \* bounds of the model: start requests, and stops; the
    MaxGeneration       \* generation never wraps

ASSUME LocalRuntimeAssumption == MaxStarts \in Nat /\ MaxGeneration \in Nat

Starts == 1..MaxStarts      \* in the order of their requests
Nobody == 0

VARIABLES
    inner,              \* RuntimeInner
    start,              \* the start tasks
    executor,           \* the task between two awaits, or Nobody
    live,               \* children that run: [gen, role]
    exited,             \* children whose end the monitor has not seen
    closing             \* the control server takes no more requests

runtimeVars == <<inner, start, executor, live, exited, closing>>

Roles == {"model", "media"}
NoChild == 0
Unborn == [at |-> "none", role |-> "model", gen |-> 0, media |-> FALSE]

RuntimeInit ==
    /\ inner = [shut |-> FALSE, gen |-> 0, model |-> NoChild, media |-> NoChild,
                status |-> "stopped"]
    /\ start = [s \in Starts |-> Unborn]
    /\ executor = Nobody /\ live = {} /\ exited = {} /\ closing = FALSE

-----------------------------------------------------------------------------
Child(gen, role) == [gen |-> gen, role |-> role]
Retained == {Child(inner[role], role) : role \in {r \in Roles : inner[r] # NoChild}}

IsCurrent(gen) == ~inner.shut /\ inner.gen = gen
StatusIfCurrent(gen, status) == IF IsCurrent(gen) THEN [inner EXCEPT !.status = status] ELSE inner

(* The children are taken out of their slots and killed.                   *)
Kill(children) == live' = live \ children /\ exited' = exited \cup (children \cap live)

Ends(s) == start' = [start EXCEPT ![s].at = "over"]
Goes(s, at, role) == start' = [start EXCEPT ![s].at = at, ![s].role = role]
IsAt(s, at, role) == start[s].at = at /\ start[s].role = role

(* stop_generation.                                                        *)
Stopped(permanently) ==
    [shut |-> inner.shut \/ permanently, gen |-> inner.gen + 1, model |-> NoChild,
     media |-> NoChild, status |-> "stopped"]

-----------------------------------------------------------------------------
(* reserve_start acknowledges, the task is queued.                         *)
Reserve(s, media) ==
    /\ executor = Nobody /\ ~closing /\ start[s].at = "none"
    /\ \A r \in 1..(s - 1) : start[r].at # "none"
    /\ ~inner.shut /\ inner.status \notin {"starting", "running", "degraded"}
    /\ inner' = [inner EXCEPT !.status = "starting"]
    /\ start' = [start EXCEPT ![s] = [Unborn EXCEPT !.at = "queued", !.media = media]]
    /\ UNCHANGED <<executor, live, exited, closing>>

(* start: what an earlier generation left is disposed of.                  *)
EnterStart(s) ==
    /\ executor = Nobody /\ start[s].at = "queued"
    /\ \/ /\ inner.shut /\ Ends(s) /\ UNCHANGED <<inner, executor, live, exited>>
       \/ /\ ~inner.shut /\ inner.gen < MaxGeneration
          /\ inner' = [Stopped(FALSE) EXCEPT !.status = "starting"]
          /\ Kill(Retained)
          /\ start' = [start EXCEPT ![s].at = "spawn", ![s].gen = inner.gen + 1]
          /\ executor' = s
    /\ UNCHANGED closing

Failure(role) == IF role = "model" THEN "failed" ELSE "degraded"

Spawn(s, role) ==
    LET gen == start[s].gen IN
    /\ IsAt(s, "spawn", role)
    /\ \/ /\ live' = live \cup {Child(gen, role)} /\ Goes(s, "retain", role)
          /\ UNCHANGED <<inner, executor>>
       \/ /\ inner' = StatusIfCurrent(gen, Failure(role)) /\ Ends(s)
          /\ executor' = Nobody /\ UNCHANGED live
    /\ UNCHANGED <<exited, closing>>

(* retain_child: a late child of an obsolete generation is killed.         *)
(* A mutant: the exit of the application is not looked at.                *)
MayRetainLate(s) == inner.gen = start[s].gen \/ inner.shut
MayRetain(s) == IsCurrent(start[s].gen)

Retain(s, role) ==
    LET gen == start[s].gen IN
    /\ IsAt(s, "retain", role)
    /\ \/ /\ MayRetain(s) /\ inner' = [inner EXCEPT ![role] = gen]
          /\ Goes(s, "probe", role) /\ UNCHANGED <<live, exited>>
       \/ /\ ~MayRetain(s) /\ Kill({Child(gen, role)})
          /\ Ends(s) /\ UNCHANGED inner
    /\ executor' = Nobody /\ UNCHANGED closing

(* The probe of the model server answers, or never does.                   *)
ModelHealthy(s) ==
    LET gen == start[s].gen IN
    /\ executor = Nobody /\ IsAt(s, "probe", "model") /\ Child(gen, "model") \in live
    /\ \/ /\ ~IsCurrent(gen) /\ Ends(s) /\ UNCHANGED <<inner, executor>>
       \/ /\ IsCurrent(gen) /\ start[s].media
          /\ Goes(s, "spawn", "media") /\ executor' = s /\ UNCHANGED inner
       \/ /\ IsCurrent(gen) /\ ~start[s].media /\ Ends(s)
          /\ inner' = StatusIfCurrent(gen, "running") /\ UNCHANGED executor
    /\ UNCHANGED <<live, exited, closing>>

ModelUnhealthy(s) ==
    LET gen == start[s].gen IN
    /\ executor = Nobody /\ IsAt(s, "probe", "model") /\ Ends(s)
    /\ \/ ~IsCurrent(gen) /\ UNCHANGED <<inner, live, exited>>
       \/ /\ IsCurrent(gen) /\ inner' = [Stopped(FALSE) EXCEPT !.status = "failed"]
          /\ Kill(Retained)
    /\ UNCHANGED <<executor, closing>>

MediaProbed(s, healthy) ==
    LET gen == start[s].gen IN
    /\ executor = Nobody /\ IsAt(s, "probe", "media") /\ Ends(s)
    /\ healthy => Child(gen, "media") \in live
    /\ inner' = StatusIfCurrent(gen, IF healthy THEN "running" ELSE "degraded")
    /\ UNCHANGED <<executor, live, exited, closing>>

-----------------------------------------------------------------------------
(* A child ends by itself; its monitor hears of every end, once.           *)
Dies(c) ==
    /\ c \in live /\ live' = live \ {c} /\ exited' = exited \cup {c}
    /\ UNCHANGED <<inner, start, executor, closing>>

Monitor(c) ==
    /\ executor = Nobody /\ c \in exited /\ exited' = exited \ {c}
    /\ inner' = StatusIfCurrent(c.gen, "failed")
    /\ UNCHANGED <<start, executor, live, closing>>

Stop ==
    /\ executor = Nobody /\ ~closing /\ inner.gen < MaxGeneration
    /\ inner' = Stopped(FALSE) /\ Kill(Retained)
    /\ UNCHANGED <<start, executor, closing>>

(* lifecycle::shutdown, once: the control server first, then the children. *)
CloseControl ==
    /\ ~closing /\ closing' = TRUE
    /\ UNCHANGED <<inner, start, executor, live, exited>>

Shutdown ==
    /\ closing /\ ~inner.shut /\ inner' = Stopped(TRUE) /\ Kill(Retained)
    /\ UNCHANGED <<start, executor, closing>>

(* The executor's thread ends with the server and drops the tasks at their *)
(* awaits.                                                                 *)
ExecutorEnds ==
    /\ closing /\ executor = Nobody /\ \E s \in Starts : start[s].at \notin {"none", "over"}
    /\ start' = [s \in Starts |-> IF start[s].at = "none" THEN Unborn
                                  ELSE [start[s] EXCEPT !.at = "over"]]
    /\ exited' = {} /\ UNCHANGED <<inner, executor, live, closing>>

RuntimeNext ==
    \/ \E s \in Starts :
          \/ EnterStart(s) \/ ModelHealthy(s) \/ ModelUnhealthy(s)
          \/ \E b \in BOOLEAN : Reserve(s, b) \/ MediaProbed(s, b)
          \/ \E role \in Roles : Spawn(s, role) \/ Retain(s, role)
    \/ \E c \in live : Dies(c)
    \/ \E c \in exited : Monitor(c)
    \/ Stop \/ CloseControl \/ Shutdown \/ ExecutorEnds

RuntimeSpec == RuntimeInit /\ [][RuntimeNext]_runtimeVars

-----------------------------------------------------------------------------
(* No child runs on its own: it is in the slot of the current generation,  *)
(* where the next stop finds it, or in the hands of the task that has just *)
(* spawned it; and after the shutdown no slot is filled again.             *)
InHand == {Child(start[s].gen, role) : s \in {t \in Starts : t = executor}, role \in Roles}
ChildrenOwned ==
    /\ \A c \in live : c \in Retained \cup InHand
    /\ \A c \in Retained : c.gen = inner.gen
    /\ inner.shut => Retained = {}
=============================================================================

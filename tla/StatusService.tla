---------------------------- MODULE StatusService ----------------------------
(***************************************************************************)
(* engine/status_service.go: the goroutine that keeps the status snapshot  *)
(* and publishes its changes on a channel of capacity one.                 *)
(*                                                                         *)
(* Three parties interleave here:                                          *)
(*   - the caller of Start and Stop (Engine.Start and Engine.Stop), which  *)
(*     hands a stopCh and a doneCh to every run goroutine it spawns;       *)
(*   - the run goroutines (one per Start): subscribe, refresh, then wait   *)
(*     in a select for a stop, a tick or an event;                         *)
(*   - the reader of Updates() (the tray goroutine), which may receive     *)
(*     between any two of the three selects of publish.                    *)
(*                                                                         *)
(* A snapshot is abstracted to the part snapshotEqualIgnoringUpdatedAt     *)
(* compares (key), the part it ignores (paths, the NeedPaths of the code)  *)
(* and UpdatedAt (at).  What computeSnapshot reads is left open: it may    *)
(* return any key, paths and clock reading.                                *)
(***************************************************************************)
EXTENDS Naturals

CONSTANTS Keys,         \* values of the compared fields
          Paths,        \* values of NeedPaths
          StartingKey,  \* the key of the snapshot newStatusService stores
          NoPaths,      \* NeedPaths of that snapshot
          Clock,        \* readings of s.now()
          MaxAt,        \* bound: no Start, tick or event at UpdatedAt = MaxAt
          MaxRuns       \* bound: number of calls of Start that spawn a run

ASSUME ConstantsAssumption ==
    /\ StartingKey \in Keys
    /\ NoPaths \in Paths
    /\ MaxAt \in Nat
    /\ Clock \subseteq 0..MaxAt
    /\ MaxRuns \in Nat

Snapshot == [key : Keys, paths : Paths, at : 0..MaxAt]

Runs == 1..MaxRuns

InitialSnapshot == [key |-> StartingKey, paths |-> NoPaths, at |-> 0]

VARIABLES
    running,    \* s.running
    run,        \* which run s.stopCh and s.doneCh belong to; 0 before any Start
    caller,     \* where the caller of Stop is: "idle", "closing", "waiting"
    stopCh,     \* stopCh[r]: stopCh of run r is closed
    doneCh,     \* doneCh[r]: doneCh of run r is closed
    pc,         \* pc[r]: where run r is
    sub,        \* sub[r]: "none", "open", "closed" (by the logger), "nil" (eventCh)
    next,       \* next[r]: the snapshot run r is storing or publishing
    drained,    \* drained[r]: what the second select of publish threw away
                \* (nothing reads it: it is there for the refinement mapping)
    snapshot,   \* s.snapshot
    published,  \* s.published
    updates,    \* content of the channel s.updates, of capacity one
    shown       \* the snapshot the reader received last

callerVars == <<running, run, caller, stopCh>>
runVars    == <<doneCh, pc, sub, next, drained>>
storeVars  == <<snapshot, published>>
vars == <<callerVars, runVars, storeVars, updates, shown>>

Stages == {"none", "subscribe", "compute", "set", "offer", "drain", "retry",
           "select", "unsubscribe", "close", "done"}

\* The goroutine exists and has not been told to return yet.
Working == {"subscribe", "compute", "set", "offer", "drain", "retry", "select"}

Publishing == {"offer", "drain", "retry"}

Live == Working \cup {"unsubscribe", "close"}

Goto(r, stage) == pc' = [pc EXCEPT ![r] = stage]

Init ==
    /\ running = FALSE /\ run = 0 /\ caller = "idle"
    /\ stopCh = [r \in Runs |-> FALSE]
    /\ doneCh = [r \in Runs |-> FALSE]
    /\ pc = [r \in Runs |-> "none"]
    /\ sub = [r \in Runs |-> "none"]
    /\ next = [r \in Runs |-> InitialSnapshot]
    /\ drained = [r \in Runs |-> {}]
    /\ snapshot = InitialSnapshot /\ published = FALSE
    /\ updates = {} /\ shown = InitialSnapshot

-----------------------------------------------------------------------------
(* The caller.  Start of a running service and Stop of a stopped one       *)
(* return without changing anything.                                       *)

Start ==
    /\ caller = "idle" /\ ~running
    /\ run < MaxRuns /\ snapshot.at < MaxAt
    /\ running' = TRUE
    /\ run' = run + 1
    /\ Goto(run + 1, "subscribe")
    /\ UNCHANGED <<caller, stopCh, doneCh, sub, next, drained, storeVars, updates, shown>>

\* Stop up to the unlock: it keeps its channels in locals and forgets them in s.
StopForget ==
    /\ caller = "idle" /\ running
    /\ running' = FALSE
    /\ caller' = "closing"
    /\ UNCHANGED <<run, stopCh, runVars, storeVars, updates, shown>>

StopClose ==
    /\ caller = "closing"
    /\ stopCh' = [stopCh EXCEPT ![run] = TRUE]
    /\ caller' = "waiting"
    /\ UNCHANGED <<running, run, runVars, storeVars, updates, shown>>

StopReturn ==
    /\ caller = "waiting"
    /\ doneCh[run]
    /\ caller' = "idle"
    /\ UNCHANGED <<running, run, stopCh, runVars, storeVars, updates, shown>>

-----------------------------------------------------------------------------
(* The run goroutine.                                                      *)

Subscribe(r) ==
    /\ pc[r] = "subscribe"
    /\ sub' = [sub EXCEPT ![r] = "open"]
    /\ Goto(r, "compute")
    /\ UNCHANGED <<callerVars, doneCh, next, drained, storeVars, updates, shown>>

\* computeSnapshot, started by run itself or by a tick or an event.
Compute(r) ==
    /\ pc[r] = "compute"
    /\ \E k \in Keys, p \in Paths, t \in Clock :
         next' = [next EXCEPT ![r] = [key |-> k, paths |-> p, at |-> t]]
    /\ Goto(r, "set")
    /\ UNCHANGED <<callerVars, doneCh, sub, drained, storeVars, updates, shown>>

\* Wrong on purpose (as is every definition ending in Mut, which only serves
\* to show that a property can fail): the clock is trusted.
StampMut(s) == s

\* UpdatedAt moves forward whatever the clock says.
Stamp(s) ==
    [key |-> s.key, paths |-> s.paths,
     at |-> IF s.at > snapshot.at THEN s.at ELSE snapshot.at + 1]

Changed(s) == ~published \/ s.key # snapshot.key

\* The stored snapshot misses the stamp that the published one gets.
SetSnapshotMut(r) ==
    /\ pc[r] = "set"
    /\ snapshot' = next[r]
    /\ published' = TRUE
    /\ next' = [next EXCEPT ![r] = Stamp(next[r])]
    /\ Goto(r, IF Changed(next[r]) THEN "offer" ELSE "select")
    /\ UNCHANGED <<callerVars, doneCh, sub, drained, updates, shown>>

\* setSnapshot, one critical section of s.mu.
SetSnapshot(r) ==
    /\ pc[r] = "set"
    /\ snapshot' = Stamp(next[r])
    /\ published' = TRUE
    /\ next' = [next EXCEPT ![r] = Stamp(next[r])]
    /\ Goto(r, IF Changed(next[r]) THEN "offer" ELSE "select")
    /\ UNCHANGED <<callerVars, doneCh, sub, drained, updates, shown>>

\* A publish that gives up when the channel is full.
OfferMut(r) ==
    /\ pc[r] = "offer"
    /\ updates' = IF updates = {} THEN {next[r]} ELSE updates
    /\ Goto(r, "select")
    /\ UNCHANGED <<callerVars, doneCh, sub, next, drained, storeVars, shown>>

\* First select of publish: send if there is room.
Offer(r) ==
    /\ pc[r] = "offer"
    /\ IF updates = {}
       THEN updates' = {next[r]} /\ Goto(r, "select")
       ELSE Goto(r, "drain") /\ UNCHANGED updates
    /\ UNCHANGED <<callerVars, doneCh, sub, next, drained, storeVars, shown>>

\* A drain that leaves the old snapshot where it is.
DrainMut(r) ==
    /\ pc[r] = "drain"
    /\ drained' = [drained EXCEPT ![r] = updates]
    /\ Goto(r, "retry")
    /\ UNCHANGED <<callerVars, doneCh, sub, next, storeVars, updates, shown>>

\* Second select: throw away what is in the channel, if it is still there.
Drain(r) ==
    /\ pc[r] = "drain"
    /\ updates' = {}
    /\ drained' = [drained EXCEPT ![r] = updates]
    /\ Goto(r, "retry")
    /\ UNCHANGED <<callerVars, doneCh, sub, next, storeVars, shown>>

\* Third select: send if there is room, and give up otherwise.
Retry(r) ==
    /\ pc[r] = "retry"
    /\ updates' = IF updates = {} THEN {next[r]} ELSE updates
    /\ Goto(r, "select")
    /\ UNCHANGED <<callerVars, doneCh, sub, next, drained, storeVars, shown>>

\* The stop branch leaves without the deferred Unsubscribe.
SelectStopMut(r) ==
    /\ pc[r] = "select" /\ stopCh[r]
    /\ Goto(r, "close")
    /\ UNCHANGED <<callerVars, doneCh, sub, next, drained, storeVars, updates, shown>>

\* The select of run.
SelectStop(r) ==
    /\ pc[r] = "select" /\ stopCh[r]
    /\ Goto(r, "unsubscribe")
    /\ UNCHANGED <<callerVars, doneCh, sub, next, drained, storeVars, updates, shown>>

SelectTick(r) ==
    /\ pc[r] = "select"
    /\ snapshot.at < MaxAt
    /\ Goto(r, "compute")
    /\ UNCHANGED <<callerVars, doneCh, sub, next, drained, storeVars, updates, shown>>

SelectEvent(r) ==
    /\ pc[r] = "select"
    /\ \/ sub[r] = "open" /\ snapshot.at < MaxAt /\ Goto(r, "compute") /\ UNCHANGED sub
       \/ sub[r] = "closed" /\ sub' = [sub EXCEPT ![r] = "nil"] /\ UNCHANGED pc
    /\ UNCHANGED <<callerVars, doneCh, next, drained, storeVars, updates, shown>>

\* The deferred calls, last deferred first.
Unsubscribe(r) ==
    /\ pc[r] = "unsubscribe"
    /\ sub' = [sub EXCEPT ![r] = "none"]
    /\ Goto(r, "close")
    /\ UNCHANGED <<callerVars, doneCh, next, drained, storeVars, updates, shown>>

CloseDone(r) ==
    /\ pc[r] = "close"
    /\ doneCh' = [doneCh EXCEPT ![r] = TRUE]
    /\ Goto(r, "done")
    /\ UNCHANGED <<callerVars, sub, next, drained, storeVars, updates, shown>>

-----------------------------------------------------------------------------
(* The environment.                                                        *)

\* The reader of Updates() takes what the channel holds.
Receive ==
    /\ updates # {}
    /\ shown' \in updates
    /\ updates' = {}
    /\ UNCHANGED <<callerVars, runVars, storeVars>>

\* Syncthing's event logger stops and closes the channels of its subscribers.
LoggerClose ==
    /\ \E r \in Runs : sub[r] = "open"
    /\ sub' = [r \in Runs |-> IF sub[r] = "open" THEN "closed" ELSE sub[r]]
    /\ UNCHANGED <<callerVars, doneCh, pc, next, drained, storeVars, updates, shown>>

Caller == Start \/ StopForget \/ StopClose \/ StopReturn

Run(r) ==
    \/ Subscribe(r) \/ Compute(r) \/ SetSnapshot(r)
    \/ Offer(r) \/ Drain(r) \/ Retry(r)
    \/ SelectStop(r) \/ SelectTick(r) \/ SelectEvent(r)
    \/ Unsubscribe(r) \/ CloseDone(r)

\* The service stays stopped.
Rest == caller = "idle" /\ ~running /\ UNCHANGED vars

Next == Caller \/ Receive \/ LoggerClose \/ Rest \/ \E r \in Runs : Run(r)

Spec == Init /\ [][Next]_vars

-----------------------------------------------------------------------------
TypeOK ==
    /\ running \in BOOLEAN
    /\ run \in 0..MaxRuns
    /\ caller \in {"idle", "closing", "waiting"}
    /\ stopCh \in [Runs -> BOOLEAN]
    /\ doneCh \in [Runs -> BOOLEAN]
    /\ pc \in [Runs -> Stages]
    /\ sub \in [Runs -> {"none", "open", "closed", "nil"}]
    /\ next \in [Runs -> Snapshot]
    /\ drained \in [Runs -> SUBSET Snapshot]
    /\ snapshot \in Snapshot
    /\ published \in BOOLEAN
    /\ updates \in SUBSET Snapshot
    /\ shown \in Snapshot

(***************************************************************************)
(* One producer.  A new run goroutine never exists beside an older one, so *)
(* publish never competes with itself and loggedStuck (read and written by *)
(* refresh without s.mu) is not shared between goroutines.                 *)
(***************************************************************************)
OneRun == \A r, q \in Runs : pc[r] \in Live /\ pc[q] \in Live => r = q

(***************************************************************************)
(* No update is lost.  Whenever no run is inside publish, the reader shows *)
(* what Snapshot() returns, or will once it has emptied the channel; up to *)
(* UpdatedAt and NeedPaths, which are not worth an update.                 *)
(***************************************************************************)
NoLostUpdate ==
    (published /\ \A r \in Runs : pc[r] \notin Publishing) =>
        /\ updates = {} => shown.key = snapshot.key
        /\ \A u \in updates : u.key = snapshot.key

(***************************************************************************)
(* The store comes before the publication: neither what the reader holds   *)
(* nor what waits in the channel is newer than what Snapshot() returns, so *)
(* `plop status` never lags behind the tray.                               *)
(***************************************************************************)
NeverAhead == \A u \in updates \cup {shown} : u.at <= snapshot.at

(***************************************************************************)
(* When Stop has returned nothing of the service is left: every run has    *)
(* closed its doneCh, which it does after releasing its subscription       *)
(* (Unsubscribe needs the logger, which Engine.Stop stops afterwards).     *)
(***************************************************************************)
StoppedMeansReleased ==
    (caller = "idle" /\ ~running) =>
        \A r \in Runs : pc[r] \in {"none", "done"} /\ sub[r] = "none"

(***************************************************************************)
(* The reader sees UpdatedAt grow with every receive, whatever the clock   *)
(* does and however receives fall between the selects of publish.          *)
(***************************************************************************)
DeliveredInOrder == [][shown' # shown => shown'.at > shown.at]_vars

(***************************************************************************)
(* The refinement: between its second and third select publish has taken   *)
(* the old snapshot out of the channel and not yet put the new one in; to  *)
(* the reader that is as if the old one still lay there.                   *)
(***************************************************************************)
offered == IF run > 0 /\ pc[run] = "retry" THEN drained[run] ELSE updates

M == INSTANCE Mailbox WITH box <- offered, shown <- shown

\* The channel with its three selects implements the one-step mailbox.
ImplementsMailbox == M!Spec

-----------------------------------------------------------------------------
(* The inductive invariant behind the properties above.                    *)

\* How far the newest run is follows from where its caller is, every older
\* run is over and every later one has not been spawned.
Handshake ==
    /\ running => caller = "idle" /\ run > 0 /\ ~stopCh[run] /\ pc[run] \in Working
    /\ (~running /\ caller = "idle") => (run = 0 \/ pc[run] = "done")
    /\ caller = "closing" => ~running /\ run > 0 /\ ~stopCh[run] /\ pc[run] \in Working
    /\ caller = "waiting" => ~running /\ run > 0 /\ stopCh[run] /\ pc[run] # "none"
    /\ \A r \in Runs :
         /\ r < run => pc[r] = "done"
         /\ r > run => pc[r] = "none" /\ ~stopCh[r]
         /\ doneCh[r] <=> pc[r] = "done"
         /\ pc[r] \in {"none", "subscribe", "close", "done"} => sub[r] = "none"

\* The snapshots in flight: shown is older than the one in the channel, which
\* is no newer than the stored one; a publishing run is publishing the stored
\* one, and all others are older.
InFlight ==
    /\ \A u \in updates : shown.at < u.at /\ u.at <= snapshot.at
    /\ \A u, v \in updates : u = v
    /\ shown.at <= snapshot.at
    /\ ~published => updates = {} /\ shown = InitialSnapshot
    /\ \A r \in Runs :
         /\ pc[r] \in {"subscribe", "compute", "set"} => snapshot.at < MaxAt
         /\ pc[r] \in Publishing =>
              /\ published /\ next[r] = snapshot
              /\ \A u \in updates \cup {shown} : u.at < snapshot.at
         /\ pc[r] = "retry" =>
              /\ updates = {}
              /\ \A u \in drained[r] : shown.at < u.at /\ u.at < snapshot.at
              /\ \A u, v \in drained[r] : u = v

\* What the proofs carry from step to step.
IInv == TypeOK /\ Handshake /\ InFlight /\ NoLostUpdate
==============================================================================

------------------------------ MODULE PeerWatch ------------------------------
(***************************************************************************)
(* engine/engine.go: watchPeers and syncPeers, which carry edits of        *)
(* peers.txt into the running configuration.                               *)
(*                                                                         *)
(* The path of an edit is long: the file system reports it to the notify   *)
(* library, which offers it to a channel of capacity one and drops it if   *)
(* the channel is full; the watcher goroutine arms a timer of 500 ms; the  *)
(* timer starts a goroutine that reads the file and then asks Syncthing to *)
(* modify the configuration.  Other files of the directory (status.json    *)
(* every three seconds, log.txt) use the same channel.  A configuration is *)
(* abstracted to the set of peers it lists.                                *)
(*                                                                         *)
(* The path is not safe.  What can go wrong on it is recorded in upset, so *)
(* that the properties can say that nothing else does.                     *)
(***************************************************************************)
EXTENDS Naturals

CONSTANTS PeerSets,    \* what peers.txt can list
          NoPeers,     \* an empty file lists nobody
          Missing,     \* the file does not exist
          Syncs,       \* how many goroutines may run syncPeers at a time, as a set
          MaxEdits     \* bound: edits of peers.txt by the user or `plop pair`

ASSUME ConstantsAssumption ==
    /\ NoPeers \in PeerSets
    /\ Missing \notin PeerSets
    /\ MaxEdits \in Nat

VARIABLES
    file,       \* peers.txt: a set of peers, or Missing
    config,     \* the peers of the running configuration
    watching,   \* notify.Watch has returned
    reported,   \* names the file system has yet to report to notify
    c,          \* content of the channel c, of capacity one
    timer,      \* the debounce timer is armed
    pc,         \* pc[s]: where the goroutine s of syncPeers is
    desired,    \* desired[s]: the peers it has read
    missing,    \* missing[s]: it found no file
    cancelled,  \* peerWatchStop has been called
    exited,     \* watchPeers has returned
    edits,      \* edits so far
    upset       \* accidents so far (nothing reads it: see Accidents)

fileVars  == <<file, edits>>
watchVars == <<watching, reported, c, timer, cancelled, exited>>
syncVars  == <<pc, desired, missing>>
vars == <<fileVars, config, watchVars, syncVars, upset>>

Names == {"peers", "other"}

(***************************************************************************)
(* "unwatched": the watch could not be set up;                             *)
(* "early": peers.txt changed after New had read it, before the watch;     *)
(* "dropped": an event for it found the channel full with another one;     *)
(* "overlap": a sync read it while an older reading was yet to be applied; *)
(* "error": it could not be read, applied or written;                      *)
(* "unread": New could not read it, and took it for an empty one.          *)
(***************************************************************************)
Accidents == {"unwatched", "early", "dropped", "overlap", "error", "unread"}

\* The peers a file stands for.
Content(f) == IF f = Missing THEN NoPeers ELSE f

\* New has read peers.txt into the configuration, or ignored the error of its
\* reading and so removed every peer; Start has begun.
Init ==
    /\ file \in PeerSets /\ edits = 0
    /\ \/ config = Content(file) /\ upset = {}
       \/ config = NoPeers /\ upset = {"unread"}
    /\ watching = FALSE /\ reported = {} /\ c = {} /\ timer = FALSE
    /\ cancelled = FALSE /\ exited = FALSE
    /\ pc = [s \in Syncs |-> "idle"]
    /\ desired = [s \in Syncs |-> NoPeers]
    /\ missing = [s \in Syncs |-> FALSE]

\* A change in the directory is reported only if it is being watched.
Report(name) == reported' = IF watching /\ ~exited THEN reported \cup {name} ELSE reported

-----------------------------------------------------------------------------
(* The environment.                                                        *)

\* Saving a file that lists the same peers is reported like any other edit.
Edit ==
    /\ edits < MaxEdits
    /\ edits' = edits + 1
    /\ file' \in PeerSets \cup {Missing}
    /\ upset' = IF watching THEN upset ELSE upset \cup {"early"}
    /\ Report("peers")
    /\ UNCHANGED <<config, watching, c, timer, cancelled, exited, syncVars>>

OtherWrite ==
    /\ Report("other")
    /\ UNCHANGED <<fileVars, config, watching, c, timer, cancelled, exited, syncVars, upset>>

\* notify hands an event to the channel if there is room and drops it otherwise.
Dispatch(name) ==
    /\ name \in reported
    /\ reported' = reported \ {name}
    /\ c' = IF c = {} THEN {name} ELSE c
    /\ upset' = IF name = "peers" /\ c = {"other"} THEN upset \cup {"dropped"} ELSE upset
    /\ UNCHANGED <<fileVars, config, watching, timer, cancelled, exited, syncVars>>

\* Engine.Stop.
Cancel ==
    /\ ~cancelled
    /\ cancelled' = TRUE
    /\ UNCHANGED <<fileVars, config, watching, reported, c, timer, exited, syncVars, upset>>

-----------------------------------------------------------------------------
(* watchPeers.                                                             *)

Watch ==
    /\ ~watching /\ ~exited
    /\ watching' = TRUE
    /\ UNCHANGED <<fileVars, config, reported, c, timer, cancelled, exited, syncVars, upset>>

WatchFails ==
    /\ ~watching /\ ~exited
    /\ exited' = TRUE
    /\ upset' = upset \cup {"unwatched"}
    /\ UNCHANGED <<fileVars, config, watching, reported, c, timer, cancelled, syncVars>>

\* Wrong on purpose, like every definition ending in Mut: an event only stops
\* the timer that runs, and sets a new one if there was none.
ReceiveMut ==
    /\ watching /\ ~exited /\ c # {}
    /\ c' = {}
    /\ timer' = (timer # ("peers" \in c))
    /\ UNCHANGED <<fileVars, config, watching, reported, cancelled, exited, syncVars, upset>>

\* An event for peers.txt stops the timer and sets a new one.
Receive ==
    /\ watching /\ ~exited /\ c # {}
    /\ c' = {}
    /\ timer' = (timer \/ "peers" \in c)
    /\ UNCHANGED <<fileVars, config, watching, reported, cancelled, exited, syncVars, upset>>

\* The timer is left running.
ExitMut ==
    /\ watching /\ ~exited /\ cancelled
    /\ exited' = TRUE
    /\ UNCHANGED <<fileVars, config, watching, reported, c, timer, cancelled, syncVars, upset>>

\* ctx.Done: the timer is stopped, a goroutine it has started is not.
Exit ==
    /\ watching /\ ~exited /\ cancelled
    /\ exited' = TRUE
    /\ timer' = FALSE
    /\ UNCHANGED <<fileVars, config, watching, reported, c, cancelled, syncVars, upset>>

-----------------------------------------------------------------------------
(* syncPeers, in a goroutine of its own.                                   *)

Fire(s) ==
    /\ timer /\ pc[s] = "idle"
    /\ timer' = FALSE
    /\ pc' = [pc EXCEPT ![s] = "read"]
    /\ UNCHANGED <<fileVars, config, watching, reported, c, cancelled, exited, desired, missing, upset>>

\* Some sync has yet to apply what is no longer in the file.
StaleReading == \E t \in Syncs : pc[t] = "modify" /\ desired[t] # Content(file)

\* A file that does not exist is an error like any other: nothing is changed.
ReadMut(s) ==
    /\ pc[s] = "read"
    /\ desired' = [desired EXCEPT ![s] = Content(file)]
    /\ missing' = [missing EXCEPT ![s] = FALSE]
    /\ pc' = [pc EXCEPT ![s] = IF file = Missing THEN "idle" ELSE "modify"]
    /\ upset' = IF StaleReading THEN upset \cup {"overlap"} ELSE upset
    /\ UNCHANGED <<fileVars, config, watchVars>>

\* loadPeersFileOrEmpty
Read(s) ==
    /\ pc[s] = "read"
    /\ desired' = [desired EXCEPT ![s] = Content(file)]
    /\ missing' = [missing EXCEPT ![s] = (file = Missing)]
    /\ pc' = [pc EXCEPT ![s] = "modify"]
    /\ upset' = IF StaleReading THEN upset \cup {"overlap"} ELSE upset
    /\ UNCHANGED <<fileVars, config, watchVars>>

\* Any error, but a missing file, is logged and ends the sync.
SyncFails(s) ==
    /\ pc[s] # "idle" /\ (pc[s] = "read" => file # Missing)
    /\ upset' = upset \cup {"error"}
    /\ pc' = [pc EXCEPT ![s] = "idle"]
    /\ UNCHANGED <<fileVars, config, watchVars, desired, missing>>

\* cfgWrapper.Modify runs the modifications it is given one by one.
Modify(s) ==
    /\ pc[s] = "modify"
    /\ config' = desired[s]
    /\ pc' = [pc EXCEPT ![s] = IF missing[s] THEN "stat" ELSE "idle"]
    /\ UNCHANGED <<fileVars, watchVars, desired, missing, upset>>

\* ensurePeersFile looks for the file ...
Stat(s) ==
    /\ pc[s] = "stat"
    /\ pc' = [pc EXCEPT ![s] = IF file = Missing THEN "write" ELSE "idle"]
    /\ UNCHANGED <<fileVars, config, watchVars, desired, missing, upset>>

\* ... and writes an empty one, over whatever is there by now.
Recreate(s) ==
    /\ pc[s] = "write"
    /\ file' = NoPeers
    /\ Report("peers")
    /\ pc' = [pc EXCEPT ![s] = "idle"]
    /\ UNCHANGED <<edits, config, watching, c, timer, cancelled, exited, desired, missing, upset>>

Sync(s) == Fire(s) \/ Read(s) \/ SyncFails(s) \/ Modify(s) \/ Stat(s) \/ Recreate(s)

\* The engine has stopped: nothing more has to happen.
Rest == exited /\ UNCHANGED vars

Next ==
    \/ Edit \/ OtherWrite \/ Cancel
    \/ \E name \in Names : Dispatch(name)
    \/ Watch \/ WatchFails \/ Receive \/ Exit \/ Rest
    \/ \E s \in Syncs : Sync(s)

Spec == Init /\ [][Next]_vars

\* Goroutines that can move do, notify delivers, and the timer goes off.
Fairness ==
    /\ WF_vars(Watch \/ WatchFails) /\ WF_vars(Receive)
    /\ \A name \in Names : WF_vars(Dispatch(name))
    /\ \A s \in Syncs : WF_vars(Sync(s))

FairSpec == Spec /\ Fairness

-----------------------------------------------------------------------------
TypeOK ==
    /\ file \in PeerSets \cup {Missing} /\ edits \in 0..MaxEdits
    /\ config \in PeerSets
    /\ watching \in BOOLEAN /\ timer \in BOOLEAN
    /\ cancelled \in BOOLEAN /\ exited \in BOOLEAN
    /\ reported \in SUBSET Names /\ c \in SUBSET Names
    /\ pc \in [Syncs -> {"idle", "read", "modify", "stat", "write"}]
    /\ desired \in [Syncs -> PeerSets]
    /\ missing \in [Syncs -> BOOLEAN]
    /\ upset \in SUBSET Accidents

\* An event for peers.txt is on its way, or a sync that has yet to read it.
Announced ==
    \/ "peers" \in reported \cup c
    \/ timer
    \/ \E s \in Syncs : pc[s] = "read"

(***************************************************************************)
(* "watchPeers watches peers.txt for changes and re-syncs the config"      *)
(* (engine.go): the file and the running configuration list the same       *)
(* peers, unless the engine is starting or being stopped, an event is on   *)
(* its way or a reading is about to be applied.                            *)
(***************************************************************************)
Applied ==
    \/ ~watching \/ cancelled \/ Announced
    \/ \E s \in Syncs : pc[s] = "modify"
    \/ config = Content(file)

(***************************************************************************)
(* Of all the ways in which edits, events, timers and syncs interleave,    *)
(* these accidents are the only ones that let an edit go unnoticed.        *)
(***************************************************************************)
OnlyAccidents == upset = {} => Applied

(***************************************************************************)
(* Why OnlyAccidents holds: what the syncs are about to apply is what the  *)
(* file lists, and so is what they have applied, unless the change is on   *)
(* its way to one that will read it.                                       *)
(***************************************************************************)
Caught ==
    \/ ~watching \/ cancelled \/ Announced
    \/ /\ \A s \in Syncs : pc[s] = "modify" => desired[s] = Content(file)
       /\ (\E s \in Syncs : pc[s] = "modify") \/ config = Content(file)

\* Before the watch nothing happens; behind it no timer is armed.
Quiet ==
    /\ ~watching => /\ reported = {} /\ c = {} /\ ~timer
                    /\ \A s \in Syncs : pc[s] = "idle"
                    /\ upset \cap {"early", "unread"} # {} \/ config = Content(file)
    /\ exited => ~timer /\ (cancelled \/ ~watching)

IInv == TypeOK /\ Quiet /\ (upset = {} => Caught)

(***************************************************************************)
(* Live reload: once peers.txt stays as it is, the configuration follows,  *)
(* if there has been no accident.                                          *)
(***************************************************************************)
LiveReload ==
    \A f \in PeerSets \cup {Missing} :
        <>[](file = f /\ ~cancelled /\ upset = {}) => <>[](config = Content(f))

(***************************************************************************)
(* A deleted peers.txt comes back ("so the tray action always has a file   *)
(* to open"), unless there is an accident or the engine is being stopped.  *)
(***************************************************************************)
Recreated == []<>(file # Missing \/ cancelled \/ upset # {})

(***************************************************************************)
(* Once watchPeers has returned no sync starts any more: the pending timer *)
(* is stopped with it, and no later event arms a new one.                  *)
(***************************************************************************)
NoSyncAfterExit == [][\A s \in Syncs : Fire(s) => ~exited]_vars
==============================================================================

---------------------------- MODULE StatusDisplay ----------------------------
(***************************************************************************)
(* From Syncthing to the tray: engine/status_service.go computes a status  *)
(* from several reads, tray/status_monitor.go shows it.                    *)
(*                                                                         *)
(* computeSnapshot takes no lock: the folder state, the number of needed   *)
(* items and two facts about every peer are read one after the other while *)
(* Syncthing goes on working, so a snapshot can mix several moments.  The  *)
(* event that announces a change can come before, between or after these   *)
(* reads.  What is sure is only that the next tick reads everything again. *)
(*                                                                         *)
(* publish is taken as one step that replaces the content of the channel;  *)
(* StatusService shows that it amounts to that.  A peer stands for its     *)
(* rank in the order of the labels, by which the rows are sorted.          *)
(***************************************************************************)
EXTENDS Naturals, FiniteSets, Sequences, SequencesExt

CONSTANTS Peers,       \* the peers there may be, numbered by label
          Slots,       \* menu items for peers
          MaxChanges   \* bound: changes in Syncthing

ASSUME DisplayAssumption == Peers \subseteq Nat /\ Slots \in Nat /\ MaxChanges \in Nat

\* "" before Syncthing has a state; "fail" if asking for it fails.
FolderStates == {"", "idle", "busy", "error", "fail"}

\* Two items needed or none; asking may fail here too.
Fails == 2
Needs == {0, 1, Fails}

VARIABLES
    folder, need,       \* the folder's state, how many items it needs
    devices,            \* the peers that are configured
    connected, pending, \* those connected, those that need something from us
    changes,            \* how often any of these has changed
    stage,              \* refresh: "wait", "folder", "need", "peers", "store", "publish"
    todo,               \* devices of this refresh that are not read yet
    half,               \* the one IsConnectedTo was asked about last: {} or {row}
    next,               \* the snapshot being computed
    since,              \* changes as it was begun (nothing reads it: see Untorn)
    snapshot,           \* s.snapshot
    published,          \* s.published
    updates,            \* content of s.updates
    monitor,            \* the tray goroutine: "select", "peers" or "stopped"
    received,           \* the snapshot it is showing
    label, rows         \* the status item (and icon), the peer items

world == <<folder, need, devices, connected, pending, changes>>
readVars == <<stage, todo, half, next, since>>
storeVars == <<snapshot, published>>
trayVars == <<monitor, received, label, rows>>
displayVars == <<world, readVars, storeVars, updates, trayVars>>

Row == [peer : Peers, connected : BOOLEAN, pending : BOOLEAN]

Empty == [state |-> "starting", folder |-> "", need |-> 0, peers |-> <<>>,
          connected |-> 0, total |-> 0]

-----------------------------------------------------------------------------
(* The pure part.                                                          *)

Unavailable(s) == [s EXCEPT !.state = "unavailable"]

deriveStatusState(f, n, up, total) ==
    CASE f = "" -> "starting"
      [] f = "error" -> "error"
      [] f = "idle" /\ n = 0 /\ total > 0 /\ up = 0 -> "waiting_peers"
      [] f = "idle" /\ n = 0 /\ (total = 0 \/ up > 0) -> "synced"
      [] OTHER -> "syncing"

countPeers(peers) == Cardinality({i \in DOMAIN peers : peers[i].connected})

\* Wrong on purpose, like every definition ending in Mut: the peers are counted
\* by asking again.
FinishedMut(s) ==
    LET up == Cardinality(connected \cap {r.peer : r \in ToSet(s.peers)})
    IN  [s EXCEPT !.connected = up, !.total = Len(s.peers),
                  !.state = deriveStatusState(s.folder, s.need, up, Len(s.peers))]

\* The end of computeSnapshot.
Finished(s) ==
    LET up == countPeers(s.peers)
    IN  [s EXCEPT !.connected = up, !.total = Len(s.peers),
                  !.state = deriveStatusState(s.folder, s.need, up, Len(s.peers))]

peerStatusLabel(r) ==
    CASE r.connected /\ r.pending   -> "Syncing"
      [] r.connected /\ ~r.pending  -> "Up to Date"
      [] ~r.connected /\ r.pending  -> "Disconnected, pending"
      [] ~r.connected /\ ~r.pending -> "Disconnected"

\* What the status item says: the peers are counted in three of the states.
trayStatusFromSnapshot(s) ==
    [state |-> s.state,
     peers |-> IF s.state \in {"waiting_peers", "synced", "syncing"}
               THEN <<s.connected, s.total>> ELSE <<>>]

Least(n, m) == IF n < m THEN n ELSE m

\* The menu has Slots items; peers beyond these are not shown.
applyPeers(peers) ==
    [i \in 1..Least(Len(peers), Slots) |->
        [peer |-> peers[i].peer, says |-> peerStatusLabel(peers[i])]]

-----------------------------------------------------------------------------
DisplayInit ==
    /\ folder \in {"", "idle"} /\ need = 0 /\ connected = {} /\ pending = {}
    /\ devices \in SUBSET Peers /\ changes = 0
    /\ stage = "wait" /\ todo = {} /\ half = {} /\ next = Empty /\ since = 0
    /\ snapshot = Empty /\ published = FALSE
    /\ updates = {}
    /\ monitor = "select" /\ received = Empty
    /\ label = trayStatusFromSnapshot(Empty) /\ rows = <<>>

(* Syncthing.                                                              *)

Change ==
    /\ changes < MaxChanges
    /\ changes' = changes + 1
    /\ UNCHANGED <<readVars, storeVars, updates, trayVars>>

FolderChanges ==
    /\ folder' \in FolderStates \ {folder}
    /\ Change
    /\ UNCHANGED <<need, devices, connected, pending>>

NeedChanges ==
    /\ need' \in Needs \ {need}
    /\ Change
    /\ UNCHANGED <<folder, devices, connected, pending>>

ConnectionChanges ==
    /\ \E p \in devices :
         connected' = IF p \in connected THEN connected \ {p} ELSE connected \cup {p}
    /\ Change
    /\ UNCHANGED <<folder, need, devices, pending>>

PendingChanges ==
    /\ \E p \in devices :
         pending' = IF p \in pending THEN pending \ {p} ELSE pending \cup {p}
    /\ Change
    /\ UNCHANGED <<folder, need, devices, connected>>

\* peers.txt was applied: who is no longer listed is disconnected.
DevicesChange ==
    /\ devices' \in SUBSET Peers \ {devices}
    /\ connected' = connected \cap devices' /\ pending' = pending \cap devices'
    /\ Change
    /\ UNCHANGED <<folder, need>>

-----------------------------------------------------------------------------
(* computeSnapshot.                                                        *)

\* A tick or an event; the configuration is copied.
Begin ==
    /\ stage = "wait"
    /\ stage' = "folder"
    /\ todo' = devices /\ next' = Empty /\ since' = changes
    /\ UNCHANGED <<world, half, storeVars, updates, trayVars>>

ReadFolder ==
    /\ stage = "folder"
    /\ IF folder = "fail"
       THEN stage' = "store" /\ next' = Unavailable(next)
       ELSE stage' = "need" /\ next' = [next EXCEPT !.folder = folder]
    /\ UNCHANGED <<world, todo, half, since, storeVars, updates, trayVars>>

\* A failing NeedTotalItems is taken for "nothing needed".
ReadNeedMut ==
    /\ stage = "need"
    /\ stage' = "peers"
    /\ next' = [next EXCEPT !.need = IF need = Fails THEN 0 ELSE need]
    /\ UNCHANGED <<world, todo, half, since, storeVars, updates, trayVars>>

ReadNeed ==
    /\ stage = "need"
    /\ IF need = Fails
       THEN stage' = "store" /\ next' = Unavailable(next)
       ELSE stage' = "peers" /\ next' = [next EXCEPT !.need = need]
    /\ UNCHANGED <<world, todo, half, since, storeVars, updates, trayVars>>

ReadConnected ==
    /\ stage = "peers" /\ half = {}
    /\ \E p \in todo :
         /\ half' = {[peer |-> p, connected |-> p \in connected, pending |-> FALSE]}
         /\ todo' = todo \ {p}
    /\ UNCHANGED <<world, stage, next, since, storeVars, updates, trayVars>>

\* The rows are kept sorted.
Inserted(peers, row) ==
    InsertAt(peers, SelectLastInSeq(peers, LAMBDA r : r.peer < row.peer) + 1, row)

ReadPending ==
    /\ stage = "peers" /\ half # {}
    /\ \E r \in half :
         LET row == [r EXCEPT !.pending = r.peer \in pending]
         IN  next' = [next EXCEPT !.peers = Inserted(@, row)]
    /\ half' = {}
    /\ UNCHANGED <<world, stage, todo, since, storeVars, updates, trayVars>>

Finish ==
    /\ stage = "peers" /\ half = {} /\ todo = {}
    /\ next' = Finished(next)
    /\ stage' = "store"
    /\ UNCHANGED <<world, todo, half, since, storeVars, updates, trayVars>>

(* refresh.                                                                *)

\* Only the state and the counts are compared, not the peers.
StoreCountsMut ==
    /\ stage = "store"
    /\ snapshot' = next /\ published' = TRUE
    /\ stage' = IF published /\ [snapshot EXCEPT !.peers = next.peers] = next
             THEN "wait" ELSE "publish"
    /\ UNCHANGED <<world, todo, half, next, since, updates, trayVars>>

\* setSnapshot
Store ==
    /\ stage = "store"
    /\ snapshot' = next /\ published' = TRUE
    /\ stage' = IF published /\ snapshot = next THEN "wait" ELSE "publish"
    /\ UNCHANGED <<world, todo, half, next, since, updates, trayVars>>

Publish ==
    /\ stage = "publish"
    /\ updates' = {next}
    /\ stage' = "wait"
    /\ UNCHANGED <<world, todo, half, next, since, storeVars, trayVars>>

(* The tray.                                                               *)

Receive ==
    /\ monitor = "select"
    /\ updates # {} /\ received' \in updates /\ updates' = {}
    /\ label' = trayStatusFromSnapshot(received')
    /\ monitor' = "peers"
    /\ UNCHANGED <<world, readVars, storeVars, rows>>

ShowPeers ==
    /\ monitor = "peers"
    /\ rows' = applyPeers(received.peers)
    /\ monitor' = "select"
    /\ UNCHANGED <<world, readVars, storeVars, updates, received, label>>

\* The tray is left: the select of the monitor takes its stop branch.
StopMonitor ==
    /\ monitor = "select"
    /\ monitor' = "stopped"
    /\ UNCHANGED <<world, readVars, storeVars, updates, received, label, rows>>

World ==
    FolderChanges \/ NeedChanges \/ ConnectionChanges \/ PendingChanges \/ DevicesChange

Reading ==
    \/ Begin \/ ReadFolder \/ ReadNeed \/ ReadConnected \/ ReadPending
    \/ Finish \/ Store \/ Publish

Monitor == Receive \/ ShowPeers

DisplayNext == World \/ Reading \/ Monitor \/ StopMonitor

\* The ticker ticks and both goroutines get to run.
Fairness == WF_displayVars(Reading) /\ WF_displayVars(Monitor)

DisplaySpec == DisplayInit /\ [][DisplayNext]_displayVars /\ Fairness

-----------------------------------------------------------------------------
(***************************************************************************)
(* What the status item counts is what the peer items show: both come from *)
(* the same list of rows, though the world has moved on while it was read. *)
(***************************************************************************)
CountsMatchRows ==
    monitor = "select" /\ label.peers # <<>> /\ label.peers[2] <= Slots =>
        /\ Len(rows) = label.peers[2]
        /\ label.peers[1] =
             Cardinality({i \in DOMAIN rows : rows[i].says \in {"Syncing", "Up to Date"}})

\* What the tray should show, asked all at once.
RowNow(p) == [peer |-> p, connected |-> p \in connected, pending |-> p \in pending]

Ranked(i) == CHOOSE p \in devices : Cardinality({q \in devices : q <= p}) = i

WorldSnapshot ==
    LET peers == [i \in 1..Cardinality(devices) |-> RowNow(Ranked(i))]
        read  == [Empty EXCEPT !.folder = folder, !.need = need, !.peers = peers]
    IN  CASE folder = "fail" -> Unavailable(Empty)
          [] folder # "fail" /\ need = Fails -> Unavailable([Empty EXCEPT !.folder = folder])
          [] OTHER -> Finished(read)

(***************************************************************************)
(* A refresh that nothing interrupted describes Syncthing as it is: the    *)
(* early returns, the order of the rows and the counts are right for every *)
(* state of the folder and every outcome of asking.                        *)
(***************************************************************************)
Untorn == stage = "store" /\ since = changes => next = WorldSnapshot

ShowsWorld ==
    /\ label = trayStatusFromSnapshot(WorldSnapshot)
    /\ rows = applyPeers(WorldSnapshot.peers)

(***************************************************************************)
(* Torn reads do not last: when Syncthing stays as it is (as it does once  *)
(* MaxChanges is reached), the tray ends up showing just that, peer by     *)
(* peer, and stays with it, unless it is stopped.                          *)
(***************************************************************************)
EndsUpRight == <>[](ShowsWorld \/ monitor = "stopped")
==============================================================================

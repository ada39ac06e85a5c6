------------------------------ MODULE PeerConfig ------------------------------
(***************************************************************************)
(* engine/config.go and engine.go: how the device list of the Syncthing    *)
(* configuration and the list of devices the folder is shared with are     *)
(* made to agree with peers.txt.                                           *)
(*                                                                         *)
(* Both lists are sequences, edited in place by loops that look for the    *)
(* first match, so an entry that is there twice, a peer that is only in    *)
(* one of the two lists, or the own ID in peers.txt could each leave them  *)
(* apart.                                                                  *)
(***************************************************************************)
EXTENDS PeersText

CONSTANTS Self,       \* the own device ID
          MaxDesired  \* bound: entries of peers.txt

ASSUME SelfAssumption == Self \in Ids /\ MaxDesired \in Nat

Device == [id : Ids, name : Names]

VARIABLES devices,   \* cfg.Devices, as the code last handed it to Syncthing
          shared,    \* the IDs of cfg.Folders[0].Devices, likewise
          desired    \* the peers.txt that was applied last

configVars == <<devices, shared, desired>>

IdsOf(devs) == {d.id : d \in ToSet(devs)}

\* Where the device list has a device first; 0 if nowhere.
FirstAt(devs, id) == SelectInSeq(devs, LAMBDA d : d.id = id)

PeersTexts == BoundedSeq(Device, MaxDesired)

-----------------------------------------------------------------------------
(* The algorithms, on a record of the two lists.                           *)

\* Wrong on purpose, like every definition ending in Mut: an empty name is
\* taken for a name.
RenamedMut(devs, p) ==
    [i \in DOMAIN devs |-> IF devs[i].id = p.id THEN [devs[i] EXCEPT !.name = p.name]
                                                ELSE devs[i]]

\* AddPeer gives the first entry of a peer its new name, if there is one.
Renamed(devs, p) ==
    IF p.name = NoName THEN devs ELSE [devs EXCEPT ![FirstAt(devs, p.id)].name = p.name]

\* The folder's list is not searched.
AddPeerMut(cfg, p) ==
    [devices |-> IF p.id \in IdsOf(cfg.devices) THEN Renamed(cfg.devices, p)
                                                ELSE Append(cfg.devices, p),
     shared  |-> Append(cfg.shared, p.id)]

AddPeer(cfg, p) ==
    [devices |-> IF p.id \in IdsOf(cfg.devices) THEN Renamed(cfg.devices, p)
                                                ELSE Append(cfg.devices, p),
     shared  |-> IF Contains(cfg.shared, p.id) THEN cfg.shared
                                               ELSE Append(cfg.shared, p.id)]

\* Only the device list is pruned.
RemovePeerMut(cfg, id) ==
    [cfg EXCEPT !.devices = RemoveFirstMatch(@, LAMBDA d : d.id = id)]

RemovePeer(cfg, id) ==
    [devices |-> RemoveFirstMatch(cfg.devices, LAMBDA d : d.id = id),
     shared  |-> RemoveFirst(cfg.shared, id)]

\* An ID is listed as often as cfg.Devices has it.
ToRemove(cfg, want) ==
    Without([i \in DOMAIN cfg.devices |-> cfg.devices[i].id], want \cup {Self})

syncPeersConfig(cfg, peers) ==
    FoldLeft(AddPeer, FoldLeft(RemovePeer, cfg, ToRemove(cfg, IdsOf(peers))), peers)

\* NewConfig: the own device, then one entry per line of peers.txt.
NewConfig(peers) ==
    [devices |-> <<[id |-> Self, name |-> NoName]>> \o peers,
     shared  |-> <<Self>> \o [i \in DOMAIN peers |-> peers[i].id]]

\* Syncthing prepares every configuration it loads or modifies: no device twice
\* (the first entry stays), sorted by ID, the own device everywhere, and a folder
\* shared with known devices only.
Prepared(cfg) ==
    LET devs == {cfg.devices[FirstAt(cfg.devices, id)] : id \in IdsOf(cfg.devices)}
        own  == IF Self \in IdsOf(cfg.devices) THEN {} ELSE {[id |-> Self, name |-> NoName]}
        ids  == (ToSet(cfg.shared) \cap IdsOf(cfg.devices)) \cup {Self}
    IN  [devices |-> SetToSeq(devs \cup own), shared |-> SetToSeq(ids)]

Current == [devices |-> devices, shared |-> shared]

Become(cfg) == devices' = cfg.devices /\ shared' = cfg.shared

-----------------------------------------------------------------------------
\* New without a config.xml: NewConfig, then syncPeersConfig on top of it.
ConfigInit ==
    /\ desired \in PeersTexts
    /\ LET cfg == syncPeersConfig(NewConfig(desired), desired)
       IN  devices = cfg.devices /\ shared = cfg.shared

\* syncPeers while the daemon runs, or New with the config.xml of an earlier run.
SyncPeers ==
    /\ desired' \in PeersTexts
    /\ Become(syncPeersConfig(Prepared(Current), desired'))

\* Syncthing names a nameless device as its peer announces itself.
LearnName ==
    \E i \in DOMAIN devices, n \in Names \ {NoName} :
        /\ devices[i].id # Self /\ devices[i].name = NoName
        /\ Become(Prepared([Current EXCEPT !.devices[i].name = n]))
        /\ UNCHANGED desired

ConfigNext == SyncPeers \/ LearnName

ConfigSpec == ConfigInit /\ [][ConfigNext]_configVars

-----------------------------------------------------------------------------
(***************************************************************************)
(* "reconciles cfg to have exactly the desired set of peers": the devices  *)
(* are the own one and those of peers.txt, and the folder is shared with   *)
(* exactly these, whatever was configured before and however often         *)
(* peers.txt lists a device, the own one included.                         *)
(***************************************************************************)
ExactlyDesired ==
    /\ IdsOf(devices) = {Self} \cup IdsOf(desired)
    /\ ToSet(shared) = IdsOf(devices)

\* The name the file gives a device: that of its last named entry.
GivenName(peers, id) ==
    LET i == SelectLastInSeq(peers, LAMBDA p : p.id = id /\ p.name # NoName)
    IN  IF i = 0 THEN NoName ELSE peers[i].name

NameOf(devs, id) ==
    IF FirstAt(devs, id) = 0 THEN NoName ELSE devs[FirstAt(devs, id)].name

(***************************************************************************)
(* A name in peers.txt becomes the name of the device; a device that has   *)
(* none there keeps the name it had (one that Syncthing learned, say).     *)
(***************************************************************************)
NamesApplied ==
    [][SyncPeers =>
         \A id \in IdsOf(desired') :
            NameOf(devices', id) = IF GivenName(desired', id) # NoName
                                   THEN GivenName(desired', id)
                                   ELSE NameOf(devices, id)]_configVars

(***************************************************************************)
(* Applying the same peers.txt again changes nothing, so the reconciling   *)
(* that New does at every start and the repeated syncs of the watcher do   *)
(* not disturb a configuration that is already right.                      *)
(***************************************************************************)
Idempotent ==
    LET cfg == Prepared(Current)
    IN  syncPeersConfig(cfg, desired) = cfg
==============================================================================

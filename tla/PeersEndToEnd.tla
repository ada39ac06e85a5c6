---------------------------- MODULE PeersEndToEnd ----------------------------
(***************************************************************************)
(* From `plop pair` to the running configuration: the command (cmd_pair.go)*)
(* appends an ID to peers.txt, and the daemon of the same home, another    *)
(* process, carries it into its configuration (PeerWatch).  They share     *)
(* the file and nothing else.                                              *)
(*                                                                         *)
(* The command and the recreation of a deleted file each look first and    *)
(* write later.  The daemon recreates an empty file, which is done when it *)
(* is opened.  A file is the set of peers it lists, and an append is one   *)
(* step: what it does to the text, what becomes of it if the user replaces *)
(* the file just then, and what starting daemons do, is PairCommand's.     *)
(***************************************************************************)
EXTENDS PeerWatch

CONSTANTS Peers,     \* peers one may pair with
          MaxPairs   \* bound: `plop pair` commands

ASSUME PeersAssumption ==
    /\ PeerSets = SUBSET Peers /\ NoPeers = {}
    /\ MaxPairs \in Nat

VARIABLES
    pairing,    \* the IDs that commands have looked for and are to append
    pairs,      \* commands so far
    paired,     \* the IDs appended since the user last touched the file
    clobbered   \* the daemon has since recreated the file over another one

pairVars == <<pairing, pairs, paired, clobbered>>
allVars  == <<vars, pairVars>>

PairInit ==
    /\ Init
    /\ pairing = {} /\ pairs = 0 /\ paired = {} /\ clobbered = FALSE

-----------------------------------------------------------------------------
\* pairPeer: is the peer listed already?  A file that cannot be opened lists
\* nobody.
PairLook(d) ==
    /\ pairs < MaxPairs
    /\ d \notin Content(file)
    /\ pairing' = pairing \cup {d}
    /\ pairs' = pairs + 1
    /\ UNCHANGED <<vars, paired, clobbered>>

\* Wrong on purpose: the file as it was when the command looked is written back.
PairAppendMut(d) ==
    /\ d \in pairing
    /\ file' = {d}
    /\ upset' = IF watching THEN upset ELSE upset \cup {"early"}
    /\ Report("peers")
    /\ pairing' = pairing \ {d}
    /\ paired' = paired \cup {d}
    /\ UNCHANGED <<edits, config, watching, c, timer, cancelled, exited, syncVars, pairs, clobbered>>

\* It is appended to the file as it is now; one that is missing is created.
PairAppend(d) ==
    /\ d \in pairing
    /\ file' = Content(file) \cup {d}
    /\ upset' = IF watching THEN upset ELSE upset \cup {"early"}
    /\ Report("peers")
    /\ pairing' = pairing \ {d}
    /\ paired' = paired \cup {d}
    /\ UNCHANGED <<edits, config, watching, c, timer, cancelled, exited, syncVars, pairs, clobbered>>

\* The user knows what is in the file from then on.
UserEdits ==
    /\ Edit
    /\ paired' = {} /\ clobbered' = FALSE
    /\ UNCHANGED <<pairing, pairs>>

Recreates(s) ==
    /\ Recreate(s)
    /\ clobbered' = (clobbered \/ file # Missing)
    /\ UNCHANGED <<pairing, pairs, paired>>

\* The rest of PeerWatch.
Watches ==
    /\ \/ OtherWrite \/ Cancel
       \/ \E name \in Names : Dispatch(name)
       \/ Watch \/ WatchFails \/ Receive \/ Exit \/ Rest
       \/ \E s \in Syncs : Fire(s) \/ Read(s) \/ SyncFails(s) \/ Modify(s) \/ Stat(s)
    /\ UNCHANGED pairVars

PairNext ==
    \/ \E d \in Peers : PairLook(d) \/ PairAppend(d)
    \/ UserEdits \/ Watches
    \/ \E s \in Syncs : Recreates(s)

PairSpec == PairInit /\ [][PairNext]_allVars

\* The daemon's; a command may be killed before it appends.
FairPairSpec == PairSpec /\ Fairness

-----------------------------------------------------------------------------
(***************************************************************************)
(* A peer for which "Paired with" has been printed stays listed for as     *)
(* long as the user does not touch peers.txt (during the append or after), *)
(* whatever the daemon does to it, unless it recreates a deleted file just *)
(* as the command creates one.                                             *)
(***************************************************************************)
PairedListed == ~clobbered => paired \subseteq Content(file)

(***************************************************************************)
(* What pairing is for: without an accident on the way, every peer that    *)
(* stays paired is in the running configuration in the end, and stays      *)
(* there, though syncs overlap, the file comes and goes, and other         *)
(* commands append to it meanwhile.                                        *)
(***************************************************************************)
PairedReaches ==
    \A d \in Peers :
        <>[](d \in paired /\ ~clobbered /\ ~cancelled /\ upset = {}) => <>[](d \in config)
==============================================================================

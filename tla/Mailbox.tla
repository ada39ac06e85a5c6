------------------------------- MODULE Mailbox -------------------------------
(***************************************************************************)
(* What engine/status_service.go promises its reader: Updates() is a box   *)
(* that holds at most one snapshot.  Put replaces whatever is in the box   *)
(* in a single step, Take hands the content to the reader.  Every put      *)
(* carries a later UpdatedAt than anything put before it.                  *)
(*                                                                         *)
(* The code has no such atomic replace: publish does it with three         *)
(* selects on a buffered channel that the reader drains at the same time.  *)
(* StatusService shows that this is nevertheless what the reader sees.     *)
(***************************************************************************)
EXTENDS Naturals

CONSTANTS Snapshot,          \* the snapshots that can be published
          InitialSnapshot    \* what the reader shows before it receives any

VARIABLES box,     \* the snapshots on offer: none or one
          shown    \* the snapshot the reader took last

vars == <<box, shown>>

Init == box = {} /\ shown = InitialSnapshot

Put(s) ==
    /\ \A t \in box \cup {shown} : t.at < s.at
    /\ box' = {s}
    /\ UNCHANGED shown

Take ==
    /\ box # {}
    /\ shown' \in box
    /\ box' = {}

Next == Take \/ \E s \in Snapshot : Put(s)

Spec == Init /\ [][Next]_vars
==============================================================================

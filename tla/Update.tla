-------------------------------- MODULE Update --------------------------------
(***************************************************************************)
(* What update_windows.go and update_darwin.go promise to whoever launches *)
(* plop: the installed release is replaced in a single step, by a complete *)
(* one that came out later.  "The new version takes effect on next launch" *)
(* (update_windows.go).                                                    *)
(*                                                                         *)
(* Neither platform has such a step: each renames twice, rolls back, and   *)
(* may be killed in between.  UpdateWindows and UpdateMac show that it     *)
(* looks like one, as long as instances keep out of each other's way.      *)
(***************************************************************************)
EXTENDS Release

VARIABLES installed,  \* the version one gets: launched, or found under .old
          void        \* instances have got in each other's way

vars == <<installed, void>>

Init == installed \in {Tags[1], Dev} /\ void = FALSE

Upgrade ==
    /\ UNCHANGED void
    /\ \E r, s \in Releases : s < r /\ installed = Tags[s] /\ installed' = Tags[r]

\* From then on nothing is promised.
Forfeit == void' = TRUE

Next == Upgrade \/ Forfeit

Spec == Init /\ [][Next]_vars
==============================================================================

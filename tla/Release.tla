------------------------------- MODULE Release -------------------------------
(***************************************************************************)
(* update_shared.go: which release is newer.                               *)
(*                                                                         *)
(* A version is a sequence of the numbers between its dots; Dev stands for *)
(* a version that does not parse ("", "dev", "1.x.3", "1.2").              *)
(***************************************************************************)
EXTENDS Naturals, Sequences

CONSTANTS Dev,    \* a version that is no release
          Tags    \* the releases, in the order in which they come out

ASSUME TagsAssumption ==
    /\ Tags \in Seq(Nat \X Nat \X Nat) /\ Len(Tags) > 0
    /\ Dev \notin Nat \X Nat \X Nat

Releases == DOMAIN Tags

\* A later release has a greater version.
Precedes(v, w) ==
    \/ v[1] < w[1]
    \/ v[1] = w[1] /\ v[2] < w[2]
    \/ v[1] = w[1] /\ v[2] = w[2] /\ v[3] < w[3]

ASSUME OrderAssumption == \A r, s \in Releases : r < s => Precedes(Tags[r], Tags[s])

Version == {Tags[i] : i \in Releases} \cup {Dev}

\* Wrong on purpose, like every definition ending in Mut: a smaller number does
\* not end the comparison.
isNewerMut(latest, current) ==
    /\ latest # Dev /\ current # Dev
    /\ \E i \in 1..3 : latest[i] > current[i]

\* The first number that differs decides.
isNewer(latest, current) ==
    /\ latest # Dev /\ current # Dev
    /\ \E i \in 1..3 :
         /\ latest[i] > current[i]
         /\ \A j \in 1..(i - 1) : latest[j] = current[j]
==============================================================================

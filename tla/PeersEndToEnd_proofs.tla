------------------------ MODULE PeersEndToEnd_proofs ------------------------
(***************************************************************************)
(* Proofs about PeerWatch and about PeersEndToEnd, for any peers, any      *)
(* number of syncs that overlap, any other files in the directory, any     *)
(* failures, and any number of `plop pair` commands.                       *)
(*                                                                         *)
(* The watcher comes first, alone: Spec.  With commands beside it, an      *)
(* append is one more step that disturbs its invariant; all others are     *)
(* PeerWatch's, whose lemmas are used as they stand: PairSpec.             *)
(***************************************************************************)
EXTENDS PeersEndToEnd, TLAPS

\* A file that exists or not lists some set of peers.
LEMMA ContentType == \A f \in PeerSets \cup {Missing} : Content(f) \in PeerSets
  BY ConstantsAssumption DEF Content

\* The types of the initial state.
LEMMA InitTypeOK == Init => TypeOK
<1> SUFFICES ASSUME Init PROVE TypeOK
  OBVIOUS
<1> USE ConstantsAssumption DEF Init
<1>1. file \in PeerSets \cup {Missing} /\ edits \in 0..MaxEdits
  OBVIOUS
<1>2. config \in PeerSets
  BY ContentType
<1>3. /\ watching \in BOOLEAN /\ timer \in BOOLEAN
      /\ cancelled \in BOOLEAN /\ exited \in BOOLEAN
  OBVIOUS
<1>4. reported \in SUBSET Names /\ c \in SUBSET Names /\ upset \in SUBSET Accidents
  BY DEF Accidents
<1>5. /\ pc \in [Syncs -> {"idle", "read", "modify", "stat", "write"}]
      /\ desired \in [Syncs -> PeerSets]
      /\ missing \in [Syncs -> BOOLEAN]
  OBVIOUS
<1> QED
  BY <1>1, <1>2, <1>3, <1>4, <1>5 DEF TypeOK

\* Every step of watchPeers, of a sync or of the environment keeps the types.
LEMMA NextTypeOK == TypeOK /\ [Next]_vars => TypeOK'
<1> SUFFICES ASSUME TypeOK, [Next]_vars PROVE TypeOK'
  OBVIOUS
<1> USE ConstantsAssumption DEF TypeOK, fileVars, watchVars, syncVars, Names, Accidents
<1>1. CASE Edit
  BY <1>1 DEF Edit, Report
<1>2. CASE OtherWrite
  BY <1>2 DEF OtherWrite, Report
<1>3. ASSUME NEW name \in Names, Dispatch(name) PROVE TypeOK'
  BY <1>3 DEF Dispatch
<1>4. CASE Cancel \/ Watch \/ WatchFails
  BY <1>4 DEF Cancel, Watch, WatchFails
<1>5. CASE Receive
  BY <1>5 DEF Receive
<1>6. CASE Exit
  BY <1>6 DEF Exit
<1>7. ASSUME NEW s \in Syncs, Sync(s) PROVE TypeOK'
  <2>1. CASE Fire(s)
    BY <2>1 DEF Fire
  <2>2. CASE Read(s)
    BY <2>2, ContentType DEF Read
  <2>3. CASE SyncFails(s)
    BY <2>3 DEF SyncFails
  <2>4. CASE Modify(s)
    BY <2>4 DEF Modify
  <2>5. CASE Stat(s)
    BY <2>5 DEF Stat
  <2>6. CASE Recreate(s)
    BY <2>6 DEF Recreate, Report
  <2> QED
    BY <1>7, <2>1, <2>2, <2>3, <2>4, <2>5, <2>6 DEF Sync
<1>8. CASE Rest \/ UNCHANGED vars
  BY <1>8 DEF Rest, vars
<1> QED
  BY <1>1, <1>2, <1>3, <1>4, <1>5, <1>6, <1>7, <1>8 DEF Next

\* Every variable of the watcher keeps its type.
THEOREM TypeCorrect == Spec => []TypeOK
<1> QED
  BY InitTypeOK, NextTypeOK, PTL DEF Spec

-----------------------------------------------------------------------------
\* Syncs and events come after the watch, and no timer after the end.
LEMMA NextQuiet == TypeOK /\ Quiet /\ [Next]_vars => Quiet'
<1> SUFFICES ASSUME TypeOK, Quiet, [Next]_vars PROVE Quiet'
  OBVIOUS
<1> USE DEF Quiet, TypeOK, fileVars, watchVars, syncVars
<1>1. CASE Edit
  BY <1>1 DEF Edit, Report
<1>2. CASE OtherWrite
  BY <1>2 DEF OtherWrite, Report
<1>3. ASSUME NEW name \in Names, Dispatch(name) PROVE Quiet'
  BY <1>3 DEF Dispatch
<1>4. CASE Cancel
  BY <1>4 DEF Cancel
<1>5. CASE Watch \/ WatchFails
  BY <1>5 DEF Watch, WatchFails
<1>6. CASE Receive
  BY <1>6 DEF Receive
<1>7. CASE Exit
  BY <1>7 DEF Exit
<1>8. ASSUME NEW s \in Syncs, Sync(s) PROVE Quiet'
  <2>1. watching
    BY <1>8 DEF Sync, Fire, Read, SyncFails, Modify, Stat, Recreate
  <2>2. watching' /\ cancelled' = cancelled /\ exited' = exited
    BY <1>8, <2>1 DEF Sync, Fire, Read, SyncFails, Modify, Stat, Recreate
  <2>3. timer' => timer
    BY <1>8 DEF Sync, Fire, Read, SyncFails, Modify, Stat, Recreate
  <2> QED
    BY <2>1, <2>2, <2>3
<1>9. CASE Rest \/ UNCHANGED vars
  <2>1. UNCHANGED <<file, config, watching, reported, c, timer, cancelled, exited, pc, upset>>
    BY <1>9 DEF Rest, vars
  <2> QED
    BY <2>1
<1> QED
  BY <1>1, <1>2, <1>3, <1>4, <1>5, <1>6, <1>7, <1>8, <1>9 DEF Next

\* An accident is never forgotten.
LEMMA UpsetStays == TypeOK /\ [Next]_vars /\ upset' = {} => upset = {}
<1> SUFFICES ASSUME TypeOK, [Next]_vars, upset' = {} PROVE upset = {}
  OBVIOUS
<1>1. CASE Edit \/ OtherWrite \/ Cancel \/ (\E name \in Names : Dispatch(name))
  BY <1>1 DEF Edit, OtherWrite, Cancel, Dispatch
<1>2. CASE Watch \/ WatchFails \/ Receive \/ Exit
  BY <1>2 DEF Watch, WatchFails, Receive, Exit
<1>3. ASSUME NEW s \in Syncs, Sync(s) PROVE upset = {}
  BY <1>3 DEF Sync, Fire, Read, SyncFails, Modify, Stat, Recreate
<1>4. CASE Rest \/ UNCHANGED vars
  BY <1>4 DEF Rest, vars
<1> QED
  BY <1>1, <1>2, <1>3, <1>4 DEF Next

\* No step loses the trace of an edit without an accident.
LEMMA NextCaught == IInv /\ [Next]_vars /\ upset' = {} => Caught'
<1> SUFFICES ASSUME IInv, [Next]_vars, upset' = {} PROVE Caught'
  OBVIOUS
<1>0. TypeOK /\ Quiet /\ upset = {} /\ Caught
  BY UpsetStays DEF IInv
<1> USE <1>0 DEF fileVars, watchVars, syncVars
<1>1. CASE Edit
  BY <1>1 DEF Edit, Report, Quiet, Caught, Announced
<1>2. CASE OtherWrite
  BY <1>2 DEF OtherWrite, Report, Caught, Announced
<1>3. ASSUME NEW name \in Names, Dispatch(name) PROVE Caught'
  <2>1. "peers" \in reported \cup c => "peers" \in (reported \cup c)'
    BY <1>3 DEF Dispatch, TypeOK, Names
  <2> QED
    BY <1>3, <2>1 DEF Dispatch, Caught, Announced
<1>4. CASE Cancel
  BY <1>4 DEF Cancel, Caught
<1>5. CASE Watch
  BY <1>5 DEF Watch, Quiet, Caught
<1>6. CASE WatchFails
  BY <1>6 DEF WatchFails
<1>7. CASE Receive
  BY <1>7 DEF Receive, Caught, Announced
<1>8. CASE Exit
  BY <1>8 DEF Exit, Caught, Quiet
<1>9. ASSUME NEW s \in Syncs, Sync(s) PROVE Caught'
  <2>1. CASE Fire(s)
    BY <2>1 DEF Fire, Caught, Announced, TypeOK
  <2>2. CASE Read(s)
    <3>1. \A t \in Syncs : pc[t] = "modify" => desired[t] = Content(file)
      BY <2>2 DEF Read, StaleReading
    <3>2. pc'[s] = "modify" /\ desired'[s] = Content(file)
      BY <2>2 DEF Read, TypeOK
    <3>3. \A t \in Syncs : pc'[t] = "modify" => desired'[t] = Content(file)
      BY <2>2, <3>1, <3>2 DEF Read, TypeOK
    <3> QED
      BY <2>2, <3>2, <3>3 DEF Read, Caught
  <2>3. CASE SyncFails(s)
    BY <2>3 DEF SyncFails
  <2>4. CASE Modify(s)
    BY <2>4 DEF Modify, Caught, Announced, TypeOK
  <2>5. CASE Stat(s)
    BY <2>5 DEF Stat, Caught, Announced, TypeOK
  <2>6. CASE Recreate(s)
    BY <2>6 DEF Recreate, Report, Quiet, Caught, Announced, TypeOK
  <2> QED
    BY <1>9, <2>1, <2>2, <2>3, <2>4, <2>5, <2>6 DEF Sync
<1>10. CASE Rest \/ UNCHANGED vars
  BY <1>10 DEF Rest, vars, Caught, Announced
<1> QED
  BY <1>1, <1>2, <1>3, <1>4, <1>5, <1>6, <1>7, <1>8, <1>9, <1>10 DEF Next

\* IInv is an inductive invariant of the watcher.
THEOREM Invariance == Spec => []IInv
<1>1. Init => IInv
  <2>1. Init => Quiet /\ Caught
    BY DEF Init, Quiet, Caught
  <2> QED
    BY <2>1, InitTypeOK DEF IInv
<1>2. IInv /\ [Next]_vars => IInv'
  BY NextTypeOK, NextQuiet, NextCaught DEF IInv
<1> QED
  BY <1>1, <1>2, PTL DEF Spec

\* Without one of the accidents no edit of peers.txt goes unnoticed.
THEOREM NoEditUnnoticed == Spec => []OnlyAccidents
<1>1. IInv => OnlyAccidents
  BY DEF IInv, Caught, OnlyAccidents, Applied
<1> QED
  BY <1>1, Invariance, PTL

\* No sync starts once watchPeers has returned.
THEOREM SyncsEnd == Spec => NoSyncAfterExit
<1>1. IInv /\ [Next]_vars => [\A s \in Syncs : Fire(s) => ~exited]_vars
  BY DEF IInv, Quiet, Fire
<1> QED
  BY <1>1, Invariance, PTL DEF Spec, NoSyncAfterExit

-----------------------------------------------------------------------------
(* With `plop pair`.                                                       *)

\* A file to which a peer has been appended is a file again.
LEMMA AppendType ==
    ASSUME TypeOK, NEW d \in Peers
    PROVE  /\ Content(file) \cup {d} \in PeerSets
           /\ Content(Content(file) \cup {d}) = Content(file) \cup {d}
<1>1. Content(file) \in SUBSET Peers
  BY ContentType, PeersAssumption DEF TypeOK
<1>2. Content(file) \cup {d} \in PeerSets
  BY <1>1, PeersAssumption
<1>3. Content(file) \cup {d} # Missing
  BY <1>2, ConstantsAssumption
<1> QED
  BY <1>2, <1>3 DEF Content

\* An append leaves a trace that the watcher follows.
LEMMA AppendKeepsIInv ==
    ASSUME IInv, NEW d \in Peers, PairAppend(d)
    PROVE  IInv'
<1> USE DEF IInv, PairAppend, syncVars
<1>1. TypeOK'
  BY AppendType DEF TypeOK, Report, Names, Accidents
<1>2. Quiet'
  BY DEF Quiet, Report
<1>3. upset' = {} => Caught'
  BY DEF Report, Quiet, Caught, Announced
<1> QED
  BY <1>1, <1>2, <1>3

\* Every other step is one of the watcher, or changes nothing it knows of.
LEMMA StepOfWatch ==
    ASSUME [PairNext]_allVars, ~\E d \in Peers : PairAppend(d)
    PROVE  [Next]_vars
<1>1. CASE \E d \in Peers : PairLook(d)
  BY <1>1 DEF PairLook
<1>2. CASE UserEdits
  BY <1>2 DEF UserEdits, Next
<1>3. CASE Watches
  BY <1>3 DEF Watches, Next, Sync
<1>4. CASE \E s \in Syncs : Recreates(s)
  BY <1>4 DEF Recreates, Next, Sync
<1>5. CASE UNCHANGED allVars
  BY <1>5 DEF allVars
<1> QED
  BY <1>1, <1>2, <1>3, <1>4, <1>5 DEF PairNext

\* The watcher's invariant holds with commands that append beside it.
THEOREM PairInvariance == PairSpec => []IInv
<1>1. PairInit => IInv
  <2>1. Init => Quiet /\ Caught
    BY DEF Init, Quiet, Caught
  <2> QED
    BY <2>1, InitTypeOK DEF IInv, PairInit
<1>2. IInv /\ [PairNext]_allVars => IInv'
  <2>1. [Next]_vars /\ IInv => IInv'
    BY NextTypeOK, NextQuiet, NextCaught DEF IInv
  <2> QED
    BY <2>1, AppendKeepsIInv, StepOfWatch
<1> QED
  BY <1>1, <1>2, PTL DEF PairSpec

\* Without an accident no append goes unnoticed, either.
THEOREM NoAppendUnnoticed == PairSpec => []OnlyAccidents
<1>1. IInv => OnlyAccidents
  BY DEF IInv, Caught, OnlyAccidents, Applied
<1> QED
  BY <1>1, PairInvariance, PTL

-----------------------------------------------------------------------------
\* No step but a recreation unlists a paired peer behind the user's back.
LEMMA NextPairedListed == TypeOK /\ PairedListed /\ [PairNext]_allVars => PairedListed'
<1> SUFFICES ASSUME TypeOK, PairedListed, [PairNext]_allVars PROVE PairedListed'
  OBVIOUS
<1> USE DEF PairedListed
<1>1. ASSUME NEW d \in Peers, PairLook(d) PROVE PairedListed'
  BY <1>1 DEF PairLook, vars, fileVars, Content
<1>2. ASSUME NEW d \in Peers, PairAppend(d) PROVE PairedListed'
  <2>1. Content(file') = Content(file) \cup {d}
    BY <1>2, AppendType DEF PairAppend
  <2>2. paired' = paired \cup {d} /\ clobbered' = clobbered
    BY <1>2 DEF PairAppend
  <2> QED
    BY <2>1, <2>2 DEF Content
<1>3. CASE UserEdits
  BY <1>3 DEF UserEdits
<1>4. CASE Watches
  <2>1. file' = file /\ paired' = paired /\ clobbered' = clobbered
    BY <1>4 DEF Watches, OtherWrite, Cancel, Dispatch, Watch, WatchFails, Receive, Exit,
                Rest, Fire, Read, SyncFails, Modify, Stat, vars, fileVars, pairVars
  <2> QED
    BY <2>1 DEF Content
<1>5. ASSUME NEW s \in Syncs, Recreates(s) PROVE PairedListed'
  <2>1. CASE file = Missing
    <3>1. paired' = paired /\ (clobbered' <=> clobbered)
      BY <1>5, <2>1 DEF Recreates
    <3>2. ~clobbered => paired = {}
      BY <2>1, PeersAssumption DEF Content
    <3> QED
      BY <3>1, <3>2
  <2>2. CASE file # Missing
    BY <1>5, <2>2 DEF Recreates
  <2> QED
    BY <2>1, <2>2
<1>6. CASE UNCHANGED allVars
  BY <1>6 DEF allVars, vars, fileVars, pairVars, Content
<1> QED
  BY <1>1, <1>2, <1>3, <1>4, <1>5, <1>6 DEF PairNext

\* A paired peer stays listed for as long as the user does not touch the file,
\* unless the daemon recreates it just as a command creates it.
THEOREM StaysListed == PairSpec => []PairedListed
<1>1. PairInit => PairedListed
  BY DEF PairInit, PairedListed
<1>2. PairSpec => []TypeOK
  <2>1. IInv => TypeOK
    BY DEF IInv
  <2> QED
    BY <2>1, PairInvariance, PTL
<1> QED
  BY <1>1, <1>2, NextPairedListed, PTL DEF PairSpec

\* No sync starts once watchPeers has returned, with commands running as well.
THEOREM PairSyncsEnd == PairSpec => NoSyncAfterExit
<1>1. IInv /\ [PairNext]_allVars => [\A s \in Syncs : Fire(s) => ~exited]_vars
  <2> SUFFICES ASSUME IInv, [PairNext]_allVars, NEW s \in Syncs, Fire(s) PROVE ~exited
    OBVIOUS
  <2> QED
    BY DEF IInv, Quiet, Fire
<1> QED
  BY <1>1, PairInvariance, PTL DEF PairSpec, NoSyncAfterExit
=============================================================================

------------------------ MODULE StatusService_proofs ------------------------
(***************************************************************************)
(* Proofs about StatusService for every MaxRuns, every clock and every     *)
(* set of snapshots.  The inductive invariant is IInv; each of its parts   *)
(* (TypeOK, Handshake, InFlight, NoLostUpdate) has a lemma that says no    *)
(* step breaks it.                                                         *)
(***************************************************************************)
EXTENDS StatusService, TLAPS

\* The initial state satisfies the inductive invariant.
LEMMA InitIInv == Init => IInv
<1> SUFFICES ASSUME Init PROVE IInv
  OBVIOUS
<1> USE ConstantsAssumption DEF Init, Runs
<1>1. InitialSnapshot \in Snapshot
  BY DEF InitialSnapshot, Snapshot
<1>2. TypeOK
  <2>1. /\ run \in 0..MaxRuns
        /\ pc \in [Runs -> Stages]
        /\ sub \in [Runs -> {"none", "open", "closed", "nil"}]
    BY DEF Stages
  <2>2. /\ next \in [Runs -> Snapshot]
        /\ drained \in [Runs -> SUBSET Snapshot]
        /\ snapshot \in Snapshot /\ shown \in Snapshot /\ updates \in SUBSET Snapshot
    BY <1>1
  <2>3. /\ running \in BOOLEAN /\ published \in BOOLEAN
        /\ stopCh \in [Runs -> BOOLEAN] /\ doneCh \in [Runs -> BOOLEAN]
        /\ caller \in {"idle", "closing", "waiting"}
    OBVIOUS
  <2> QED
    BY <2>1, <2>2, <2>3 DEF TypeOK
<1>3. Handshake
  BY DEF Handshake, Working
<1>4. InFlight
  BY <1>1 DEF InFlight, Publishing, InitialSnapshot
<1>5. NoLostUpdate
  BY DEF NoLostUpdate
<1> QED
  BY <1>2, <1>3, <1>4, <1>5 DEF IInv

\* The stamp setSnapshot gives a refresh is later than the stored one.
LEMMA StampLater ==
    ASSUME snapshot \in Snapshot, snapshot.at < MaxAt, NEW s \in Snapshot
    PROVE  /\ Stamp(s) \in Snapshot
           /\ Stamp(s).at > snapshot.at
           /\ Stamp(s).key = s.key
BY ConstantsAssumption DEF Stamp, Snapshot

-----------------------------------------------------------------------------
\* No step takes a variable out of its type.
LEMMA NextTypeOK == IInv /\ [Next]_vars => TypeOK'
<1> SUFFICES ASSUME IInv, [Next]_vars PROVE TypeOK'
  OBVIOUS
<1> USE ConstantsAssumption DEF IInv, TypeOK, Runs, Goto, callerVars, runVars, storeVars
<1>1. CASE Start
  BY <1>1 DEF Start, Stages
<1>2. CASE StopForget
  BY <1>2 DEF StopForget
<1>3. CASE StopClose
  BY <1>3 DEF StopClose
<1>4. CASE StopReturn
  BY <1>4 DEF StopReturn
<1>5. CASE Receive
  BY <1>5 DEF Receive
<1>6. CASE LoggerClose
  BY <1>6 DEF LoggerClose
<1>7. CASE Rest
  BY <1>7 DEF Rest, vars
<1>8. ASSUME NEW r \in Runs, Run(r) PROVE TypeOK'
  <2>1. CASE Subscribe(r)
    BY <2>1 DEF Subscribe, Stages
  <2>2. CASE Compute(r)
    BY <2>2 DEF Compute, Stages, Snapshot
  <2>3. CASE SetSnapshot(r)
    <3>1. Stamp(next[r]) \in Snapshot
      BY <2>3, StampLater DEF SetSnapshot, InFlight
    <3> QED
      BY <2>3, <3>1 DEF SetSnapshot, Stages
  <2>4. CASE Offer(r)
    BY <2>4 DEF Offer, Stages
  <2>5. CASE Drain(r)
    BY <2>5 DEF Drain, Stages
  <2>6. CASE Retry(r)
    BY <2>6 DEF Retry, Stages
  <2>7. CASE SelectStop(r)
    BY <2>7 DEF SelectStop, Stages
  <2>8. CASE SelectTick(r)
    BY <2>8 DEF SelectTick, Stages
  <2>9. CASE SelectEvent(r)
    BY <2>9 DEF SelectEvent, Stages
  <2>10. CASE Unsubscribe(r)
    BY <2>10 DEF Unsubscribe, Stages
  <2>11. CASE CloseDone(r)
    BY <2>11 DEF CloseDone, Stages
  <2> QED
    BY <1>8, <2>1, <2>2, <2>3, <2>4, <2>5, <2>6, <2>7, <2>8, <2>9, <2>10, <2>11 DEF Run
<1>9. CASE UNCHANGED vars
  BY <1>9 DEF vars
<1> QED
  BY <1>1, <1>2, <1>3, <1>4, <1>5, <1>6, <1>7, <1>8, <1>9 DEF Next, Caller

-----------------------------------------------------------------------------
\* No step breaks the handshake between Start, Stop and the run goroutines.
LEMMA NextHandshake == IInv /\ [Next]_vars => Handshake'
<1> SUFFICES ASSUME IInv, [Next]_vars PROVE Handshake'
  OBVIOUS
<1> USE ConstantsAssumption
    DEF IInv, TypeOK, Handshake, Runs, Working, Goto, callerVars, runVars, storeVars
<1>1. CASE Start
  BY <1>1 DEF Start
<1>2. CASE StopForget
  BY <1>2 DEF StopForget
<1>3. CASE StopClose
  BY <1>3 DEF StopClose
<1>4. CASE StopReturn
  BY <1>4 DEF StopReturn
<1>5. CASE Receive
  BY <1>5 DEF Receive
<1>6. CASE LoggerClose
  BY <1>6 DEF LoggerClose
<1>7. CASE Rest
  BY <1>7 DEF Rest, vars
<1>8. ASSUME NEW r \in Runs, Run(r) PROVE Handshake'
  <2>1. CASE Subscribe(r)
    BY <2>1 DEF Subscribe
  <2>2. CASE Compute(r)
    BY <2>2 DEF Compute
  <2>3. CASE SetSnapshot(r)
    BY <2>3 DEF SetSnapshot
  <2>4. CASE Offer(r)
    BY <2>4 DEF Offer
  <2>5. CASE Drain(r)
    BY <2>5 DEF Drain
  <2>6. CASE Retry(r)
    BY <2>6 DEF Retry
  <2>7. CASE SelectStop(r)
    BY <2>7 DEF SelectStop
  <2>8. CASE SelectTick(r)
    BY <2>8 DEF SelectTick
  <2>9. CASE SelectEvent(r)
    BY <2>9 DEF SelectEvent
  <2>10. CASE Unsubscribe(r)
    BY <2>10 DEF Unsubscribe
  <2>11. CASE CloseDone(r)
    BY <2>11 DEF CloseDone
  <2> QED
    BY <1>8, <2>1, <2>2, <2>3, <2>4, <2>5, <2>6, <2>7, <2>8, <2>9, <2>10, <2>11 DEF Run
<1>9. CASE UNCHANGED vars
  BY <1>9 DEF vars
<1> QED
  BY <1>1, <1>2, <1>3, <1>4, <1>5, <1>6, <1>7, <1>8, <1>9 DEF Next, Caller

-----------------------------------------------------------------------------
\* At most one run has been spawned and has not returned: the one s.stopCh
\* and s.doneCh belong to, or belonged to when Stop was called.
LEMMA OnlyTheLastRunIsLive ==
    ASSUME TypeOK, Handshake, NEW r \in Runs, pc[r] \in Live
    PROVE  r = run
BY DEF TypeOK, Handshake, Runs, Live, Working

\* No step breaks what is known of the snapshots in flight.
LEMMA NextInFlight == IInv /\ [Next]_vars => InFlight'
<1> SUFFICES ASSUME IInv, [Next]_vars PROVE InFlight'
  OBVIOUS
<1> USE ConstantsAssumption
    DEF IInv, TypeOK, InFlight, Runs, Publishing, Goto, callerVars, runVars, storeVars
<1>1. CASE Start
  BY <1>1 DEF Start
<1>2. CASE StopForget
  BY <1>2 DEF StopForget
<1>3. CASE StopClose
  BY <1>3 DEF StopClose
<1>4. CASE StopReturn
  BY <1>4 DEF StopReturn
<1>5. CASE Receive
  BY <1>5 DEF Receive, Snapshot
<1>6. CASE LoggerClose
  BY <1>6 DEF LoggerClose
<1>7. CASE Rest
  BY <1>7 DEF Rest, vars
<1>8. ASSUME NEW r \in Runs, Run(r) PROVE InFlight'
  <2>0. \A q \in Runs : pc[r] \in Live /\ pc[q] \in Live => q = r
    BY OnlyTheLastRunIsLive
  <2>1. CASE Subscribe(r)
    BY <2>1 DEF Subscribe
  <2>2. CASE Compute(r)
    BY <2>2 DEF Compute
  <2>3. CASE SetSnapshot(r)
    BY <2>0, <2>3, StampLater DEF SetSnapshot, Snapshot, Live, Working
  <2>4. CASE Offer(r)
    BY <2>0, <2>4 DEF Offer, Snapshot, Live, Working
  <2>5. CASE Drain(r)
    BY <2>0, <2>5 DEF Drain, Snapshot, Live, Working
  <2>6. CASE Retry(r)
    BY <2>0, <2>6 DEF Retry, Snapshot, Live, Working
  <2>7. CASE SelectStop(r)
    BY <2>7 DEF SelectStop
  <2>8. CASE SelectTick(r)
    BY <2>8 DEF SelectTick
  <2>9. CASE SelectEvent(r)
    BY <2>9 DEF SelectEvent
  <2>10. CASE Unsubscribe(r)
    BY <2>10 DEF Unsubscribe
  <2>11. CASE CloseDone(r)
    BY <2>11 DEF CloseDone
  <2> QED
    BY <1>8, <2>1, <2>2, <2>3, <2>4, <2>5, <2>6, <2>7, <2>8, <2>9, <2>10, <2>11 DEF Run
<1>9. CASE UNCHANGED vars
  BY <1>9 DEF vars
<1> QED
  BY <1>1, <1>2, <1>3, <1>4, <1>5, <1>6, <1>7, <1>8, <1>9 DEF Next, Caller

-----------------------------------------------------------------------------
\* No step loses an update.
LEMMA NextNoLostUpdate == IInv /\ [Next]_vars => NoLostUpdate'
<1> SUFFICES ASSUME IInv, [Next]_vars PROVE NoLostUpdate'
  OBVIOUS
<1> USE ConstantsAssumption
    DEF IInv, TypeOK, NoLostUpdate, Runs, Publishing, Goto, callerVars, runVars, storeVars
<1>1. CASE Start
  BY <1>1 DEF Start, Handshake
<1>2. CASE StopForget
  BY <1>2 DEF StopForget
<1>3. CASE StopClose
  BY <1>3 DEF StopClose
<1>4. CASE StopReturn
  BY <1>4 DEF StopReturn
<1>5. CASE Receive
  BY <1>5 DEF Receive
<1>6. CASE LoggerClose
  BY <1>6 DEF LoggerClose
<1>7. CASE Rest
  BY <1>7 DEF Rest, vars
<1>8. ASSUME NEW r \in Runs, Run(r) PROVE NoLostUpdate'
  <2>0. \A q \in Runs : pc[r] \in Live /\ pc[q] \in Live => q = r
    BY OnlyTheLastRunIsLive
  <2>1. CASE Subscribe(r)
    BY <2>1 DEF Subscribe
  <2>2. CASE Compute(r)
    BY <2>2 DEF Compute
  <2>3. CASE SetSnapshot(r)
    BY <2>0, <2>3, StampLater DEF SetSnapshot, Changed, InFlight, Live, Working
  <2>4. CASE Offer(r)
    <3>1. CASE updates = {}
      <4>1. next[r] = snapshot /\ updates' = {next[r]} /\ snapshot' = snapshot
        BY <2>4, <3>1 DEF Offer, InFlight
      <4> QED
        BY <4>1
    <3>2. CASE updates # {}
      <4>1. pc'[r] \in Publishing
        BY <2>4, <3>2 DEF Offer
      <4> QED
        BY <4>1
    <3> QED
      BY <3>1, <3>2
  <2>5. CASE Drain(r)
    BY <2>5 DEF Drain
  <2>6. CASE Retry(r)
    BY <2>0, <2>6 DEF Retry, InFlight, Live, Working
  <2>7. CASE SelectStop(r)
    BY <2>7 DEF SelectStop
  <2>8. CASE SelectTick(r)
    BY <2>8 DEF SelectTick
  <2>9. CASE SelectEvent(r)
    BY <2>9 DEF SelectEvent
  <2>10. CASE Unsubscribe(r)
    BY <2>10 DEF Unsubscribe
  <2>11. CASE CloseDone(r)
    BY <2>11 DEF CloseDone
  <2> QED
    BY <1>8, <2>1, <2>2, <2>3, <2>4, <2>5, <2>6, <2>7, <2>8, <2>9, <2>10, <2>11 DEF Run
<1>9. CASE UNCHANGED vars
  BY <1>9 DEF vars
<1> QED
  BY <1>1, <1>2, <1>3, <1>4, <1>5, <1>6, <1>7, <1>8, <1>9 DEF Next, Caller

-----------------------------------------------------------------------------
\* IInv is an invariant: it holds initially and every step preserves it.
THEOREM Invariance == Spec => []IInv
<1>1. IInv /\ [Next]_vars => IInv'
  BY NextTypeOK, NextHandshake, NextInFlight, NextNoLostUpdate DEF IInv
<1> QED
  BY InitIInv, <1>1, PTL DEF Spec

\* Every variable keeps its type.
THEOREM TypeCorrect == Spec => []TypeOK
BY Invariance, PTL DEF IInv

\* There is never more than one run goroutine, however often the service is
\* started and stopped.
THEOREM SingleRun == Spec => []OneRun
<1>1. IInv => OneRun
  BY OnlyTheLastRunIsLive DEF IInv, OneRun
<1> QED
  BY Invariance, <1>1, PTL

\* No schedule of publish and the reader loses the latest change.
THEOREM LatestDelivered == Spec => []NoLostUpdate
BY Invariance, PTL DEF IInv

\* The reader is never ahead of Snapshot().
THEOREM StoreBeforePublish == Spec => []NeverAhead
<1>1. IInv => NeverAhead
  BY DEF IInv, InFlight, NeverAhead
<1> QED
  BY Invariance, <1>1, PTL

\* Stop returns only after the run has given back its subscription.
THEOREM StopReleases == Spec => []StoppedMeansReleased
<1>1. IInv => StoppedMeansReleased
  BY DEF IInv, TypeOK, Handshake, StoppedMeansReleased, Runs
<1> QED
  BY Invariance, <1>1, PTL

-----------------------------------------------------------------------------
\* Only Receive changes what the reader shows.
LEMMA OnlyReceiveShows == [Next]_vars => (Receive \/ UNCHANGED shown)
BY DEF Next, Caller, Run, vars, Start, StopForget, StopClose, StopReturn, LoggerClose,
       Rest, Subscribe, Compute, SetSnapshot, Offer, Drain, Retry, SelectStop,
       SelectTick, SelectEvent, Unsubscribe, CloseDone

\* The reader receives snapshots in the order of UpdatedAt.
THEOREM OrderedDelivery == Spec => DeliveredInOrder
<1>1. IInv /\ [Next]_vars => (shown' # shown => shown'.at > shown.at)
  <2> SUFFICES ASSUME IInv, [Next]_vars, shown' # shown PROVE shown'.at > shown.at
    OBVIOUS
  <2>1. shown' \in updates
    BY OnlyReceiveShows DEF Receive
  <2> QED
    BY <2>1 DEF IInv, TypeOK, InFlight, Snapshot
<1> QED
  BY Invariance, <1>1, PTL DEF Spec, DeliveredInOrder

-----------------------------------------------------------------------------
\* A step of a run is a Put of the mailbox (when it sends) or leaves offered and
\* shown as they are.
LEMMA RunStepIsMailboxStep ==
    ASSUME IInv, NEW r \in Runs, Run(r)
    PROVE  [M!Next]_<<offered, shown>>
<1> USE DEF IInv, TypeOK, Runs, Goto, callerVars, runVars, storeVars
<1>0. run \in Nat
  BY ConstantsAssumption
<1>1. pc[r] \in Live => r = run
  BY OnlyTheLastRunIsLive
<1>2. CASE Offer(r) /\ updates = {}
  <2>1. updates' = {next[r]} /\ shown' = shown /\ pc'[r] = "select" /\ r = run
    BY <1>1, <1>2 DEF Offer, Live, Working
  <2>2. offered = {} /\ offered' = {next[r]}
    BY <1>2, <2>1 DEF offered, Offer
  <2>3. shown.at < next[r].at /\ next[r] \in Snapshot
    BY <1>2 DEF Offer, InFlight, Publishing
  <2> QED
    BY <2>1, <2>2, <2>3 DEF M!Next, M!Put
<1>3. CASE Retry(r)
  <2>1. updates' = {next[r]} /\ shown' = shown /\ pc'[r] = "select" /\ r = run
    BY <1>1, <1>3 DEF Retry, Live, Working, InFlight
  <2>2. offered = drained[r] /\ offered' = {next[r]}
    BY <1>0, <1>3, <2>1 DEF offered, Retry
  <2>3. \A t \in drained[r] \cup {shown} : t.at < next[r].at
    BY <1>3 DEF Retry, InFlight, Publishing
  <2>4. next[r] \in Snapshot
    OBVIOUS
  <2> QED
    BY <2>1, <2>2, <2>3, <2>4 DEF M!Next, M!Put
<1>4. CASE Drain(r)
  <2>1. r = run /\ pc[r] = "drain" /\ pc'[r] = "retry" /\ run' = run
    BY <1>1, <1>4 DEF Drain, Live, Working
  <2>2. drained'[r] = updates /\ shown' = shown
    BY <1>4 DEF Drain
  <2>3. offered' = offered
    BY <1>0, <2>1, <2>2 DEF offered
  <2> QED
    BY <2>2, <2>3
<1>5. CASE ~Retry(r) /\ ~Drain(r) /\ ~(Offer(r) /\ updates = {})
  <2>1. UNCHANGED <<updates, shown, run, drained>>
    BY <1>5 DEF Run, Subscribe, Compute, SetSnapshot, Offer, SelectStop, SelectTick,
                SelectEvent, Unsubscribe, CloseDone
  <2>2. \A q \in Runs : pc'[q] = "retry" <=> pc[q] = "retry"
    BY <1>5 DEF Run, Subscribe, Compute, SetSnapshot, Offer, SelectStop, SelectTick,
                SelectEvent, Unsubscribe, CloseDone
  <2>3. offered' = offered
    BY <1>0, <2>1, <2>2 DEF offered
  <2> QED
    BY <2>1, <2>3
<1> QED
  BY <1>2, <1>3, <1>4, <1>5

\* The service with its channel and three selects implements the mailbox: to
\* the reader, publish replaces the content of the box in one step.
THEOREM Refinement == Spec => ImplementsMailbox
<1>1. Init => M!Init
  BY DEF Init, M!Init, offered
<1>2. IInv /\ [Next]_vars => [M!Next]_<<offered, shown>>
  <2> SUFFICES ASSUME IInv, [Next]_vars PROVE [M!Next]_<<offered, shown>>
    OBVIOUS
  <2> USE DEF IInv, TypeOK, Runs, Goto, callerVars, runVars, storeVars
  <2>0. run \in 0..MaxRuns
    OBVIOUS
  <2>1. CASE Receive
    <3>1. offered = updates /\ offered' = updates'
      BY <2>0, <2>1, ConstantsAssumption DEF Receive, InFlight, offered
    <3> QED
      BY <2>1, <3>1 DEF Receive, M!Next, M!Take
  <2>2. CASE Start
    <3>1. run' = run + 1 /\ pc'[run + 1] = "subscribe"
      BY <2>0, <2>2, ConstantsAssumption DEF Start
    <3>2. run > 0 => pc[run] # "retry"
      BY <2>0, <2>2, ConstantsAssumption DEF Start, Handshake
    <3>3. offered' = offered /\ shown' = shown
      BY <2>2, <3>1, <3>2 DEF Start, offered
    <3> QED
      BY <3>3
  <2>3. CASE StopForget \/ StopClose \/ StopReturn \/ LoggerClose \/ Rest \/ UNCHANGED vars
    BY <2>3 DEF StopForget, StopClose, StopReturn, LoggerClose, Rest, vars, offered
  <2>4. ASSUME NEW r \in Runs, Run(r) PROVE [M!Next]_<<offered, shown>>
    BY <2>4, RunStepIsMailboxStep
  <2> QED
    BY <2>1, <2>2, <2>3, <2>4 DEF Next, Caller
<1> QED
  BY Invariance, <1>1, <1>2, PTL DEF Spec, ImplementsMailbox, M!Spec, M!vars
==============================================================================

-------------------------- MODULE UpdateMac_proofs --------------------------
(***************************************************************************)
(* Proofs about UpdateMac, for any number of instances and releases, any   *)
(* failures and kills: there is something to launch, what is installed is  *)
(* whole, and the two renames implement the one-step upgrade.              *)
(*                                                                         *)
(* Nothing locks the bundle or the archive, so most of what Windows rules  *)
(* out holds here only as long as no accident has happened (Apart).        *)
(***************************************************************************)
EXTENDS UpdateMac, TLAPS

\* A release is three numbers, and the other version is none.
LEMMA ReleaseTypes ==
    /\ \A r \in Releases : Tags[r] \in Nat \X Nat \X Nat /\ Tags[r] # Dev
    /\ Releases \subseteq Nat /\ 1 \in Releases
    /\ Version = {Tags[r] : r \in Releases} \cup {Dev}
  BY TagsAssumption DEF Releases, Version

\* A version that precedes another is not newer.
LEMMA PrecedesIsNotNewer ==
    ASSUME NEW v \in Nat \X Nat \X Nat, NEW w \in Nat \X Nat \X Nat,
           v = w \/ Precedes(v, w)
    PROVE  ~isNewer(v, w)
<1>1. /\ v[1] \in Nat /\ v[2] \in Nat /\ v[3] \in Nat
      /\ w[1] \in Nat /\ w[2] \in Nat /\ w[3] \in Nat
  OBVIOUS
<1>2. ASSUME isNewer(v, w) PROVE FALSE
  <2>1. PICK i \in 1..3 : v[i] > w[i] /\ \A j \in 1..(i - 1) : v[j] = w[j]
    BY <1>2 DEF isNewer
  <2>2. CASE i = 1
    BY <1>1, <2>1, <2>2 DEF Precedes
  <2>3. CASE i = 2
    <3>1. v[1] = w[1] /\ v[2] > w[2]
      BY <2>1, <2>3
    <3> QED
      BY <1>1, <3>1 DEF Precedes
  <2>4. CASE i = 3
    <3>1. v[1] = w[1] /\ v[2] = w[2] /\ v[3] > w[3]
      BY <2>1, <2>4
    <3> QED
      BY <1>1, <3>1 DEF Precedes
  <2> QED
    BY <2>2, <2>3, <2>4
<1> QED
  BY <1>2

\* An instance only ever goes on to a release that came out after its own: the
\* comparison of versions agrees with the order of the releases.
THEOREM NewerIsLater ==
    ASSUME NEW r \in Releases, NEW v \in Version, isNewer(Tags[r], v)
    PROVE  \E s \in Releases : s < r /\ v = Tags[s]
<1>1. PICK s \in Releases : v = Tags[s]
  BY ReleaseTypes DEF isNewer
<1>2. r \in Nat /\ s \in Nat
  BY ReleaseTypes
<1>3. ASSUME r < s \/ r = s PROVE FALSE
  BY <1>1, <1>3, OrderAssumption, ReleaseTypes, PrecedesIsNotNewer
<1> QED
  BY <1>1, <1>2, <1>3

-----------------------------------------------------------------------------
\* A file is not the absence of one.
LEMMA FileTypes ==
    /\ None \notin File /\ Part \in File /\ ~Part.whole
    /\ \A f \in File : f.ver \in Version /\ f.whole \in BOOLEAN
    /\ \A v \in Version : [ver |-> v, whole |-> TRUE] \in File
    /\ \A f \in File : [f EXCEPT !.whole = FALSE] \in File
  BY NoneAssumption, ReleaseTypes DEF File, Part

\* Every action keeps the types.
LEMMA TypeStep == IInv /\ [Next]_vars => TypeOK'
<1> SUFFICES ASSUME IInv, [Next]_vars PROVE TypeOK'
  OBVIOUS
<1>0. TypeOK
  BY DEF IInv
<1> USE <1>0 DEF TypeOK, files, download, Goto
<1>1. CASE Publish
  BY <1>1 DEF Publish
<1>2. ASSUME NEW i \in Instances, Launch(i) PROVE TypeOK'
  BY <1>2, FileTypes DEF Launch
<1>3. ASSUME NEW i \in Instances, End(i) PROVE TypeOK'
  BY <1>3, ReleaseTypes DEF End, Leave
<1>4. ASSUME NEW i \in Instances, Resolve(i) PROVE TypeOK'
  BY <1>4 DEF Resolve
<1>5. ASSUME NEW i \in Instances, Clean(i) PROVE TypeOK'
  <2>1. old' \in File \cup {None}
    BY <1>5, FileTypes DEF Clean, RemoveOld
  <2>2. upset' \in SUBSET Accidents
    BY <1>5 DEF Clean, RemoveOld, Accidents
  <2> QED
    BY <1>5, <2>1, <2>2 DEF Clean
<1>6. ASSUME NEW i \in Instances, Check(i) PROVE TypeOK'
  BY <1>6, ReleaseTypes DEF Check
<1>7. ASSUME NEW i \in Instances, OpenFails(i) PROVE TypeOK'
  BY <1>7, ReleaseTypes DEF OpenFails, Leave
<1>8. ASSUME NEW i \in Instances, Open(i) PROVE TypeOK'
  <2>1. spoilt' \in [Instances -> BOOLEAN] /\ upset' \in SUBSET Accidents
    BY <1>8 DEF Open, Accidents
  <2> QED
    BY <1>8, <2>1, FileTypes DEF Open
<1>9. ASSUME NEW i \in Instances, DownloadFails(i) PROVE TypeOK'
  BY <1>9, ReleaseTypes DEF DownloadFails, RemoveZip, Leave
<1>10. ASSUME NEW i \in Instances, Downloaded(i) PROVE TypeOK'
  <2>1. zip' \in File \cup {None}
    BY <1>10, FileTypes DEF Downloaded
  <2> QED
    BY <1>10, <2>1 DEF Downloaded
<1>11. ASSUME NEW i \in Instances, Extract(i) PROVE TypeOK'
  BY <1>11 DEF Extract, Extractable
<1>12. ASSUME NEW i \in Instances, Swap(i) PROVE TypeOK'
  BY <1>12 DEF Swap, Accidents
<1>13. ASSUME NEW i \in Instances, Install(i) PROVE TypeOK'
  BY <1>13 DEF Install
<1>14. ASSUME NEW i \in Instances, Rollback(i) PROVE TypeOK'
  BY <1>14 DEF Rollback
<1>15. ASSUME NEW i \in Instances, Discard(i) PROVE TypeOK'
  <2>1. old' \in File \cup {None}
    BY <1>15, FileTypes DEF Discard, RemoveOld
  <2>2. upset' \in SUBSET Accidents
    BY <1>15 DEF Discard, RemoveOld, Accidents
  <2> QED
    BY <1>15, <2>1, <2>2 DEF Discard
<1>16. ASSUME NEW i \in Instances, Tidy(i) PROVE TypeOK'
  BY <1>16, ReleaseTypes DEF Tidy, RemoveZip, Leave
<1>17. CASE UNCHANGED vars
  BY <1>17 DEF vars
<1> QED
  BY <1>1, <1>2, <1>3, <1>4, <1>5, <1>6, <1>7, <1>8,
     <1>9, <1>10, <1>11, <1>12, <1>13, <1>14, <1>15, <1>16, <1>17 DEF Next

\* Every action leaves a bundle to launch, or an instance swapping.
LEMMA LaunchableStep == IInv /\ [Next]_vars => Launchable'
<1> SUFFICES ASSUME IInv, [Next]_vars PROVE Launchable'
  OBVIOUS
<1>0. TypeOK /\ Launchable
  BY DEF IInv
<1> USE <1>0 DEF TypeOK, Launchable, Swapping, files, download, Goto
<1>1. CASE Publish
  BY <1>1 DEF Publish
<1>2. ASSUME NEW i \in Instances, Launch(i) PROVE Launchable'
  BY <1>2 DEF Launch
<1>3. ASSUME NEW i \in Instances, End(i) PROVE Launchable'
  BY <1>3 DEF End, Leave
<1>4. ASSUME NEW i \in Instances, Resolve(i) PROVE Launchable'
  BY <1>4 DEF Resolve
<1>5. ASSUME NEW i \in Instances, Clean(i) PROVE Launchable'
  BY <1>5 DEF Clean, RemoveOld
<1>6. ASSUME NEW i \in Instances, Check(i) PROVE Launchable'
  BY <1>6 DEF Check
<1>7. ASSUME NEW i \in Instances, OpenFails(i) PROVE Launchable'
  BY <1>7 DEF OpenFails, Leave
<1>8. ASSUME NEW i \in Instances, Open(i) PROVE Launchable'
  BY <1>8 DEF Open, Part
<1>9. ASSUME NEW i \in Instances, DownloadFails(i) PROVE Launchable'
  BY <1>9 DEF DownloadFails, RemoveZip, Leave
<1>10. ASSUME NEW i \in Instances, Downloaded(i) PROVE Launchable'
  BY <1>10 DEF Downloaded, Part
<1>11. ASSUME NEW i \in Instances, Extract(i) PROVE Launchable'
  BY <1>11 DEF Extract, Extractable
<1>12. ASSUME NEW i \in Instances, Swap(i) PROVE Launchable'
  BY <1>12 DEF Swap
<1>13. ASSUME NEW i \in Instances, Install(i) PROVE Launchable'
  BY <1>13 DEF Install
<1>14. ASSUME NEW i \in Instances, Rollback(i) PROVE Launchable'
  BY <1>14 DEF Rollback
<1>15. ASSUME NEW i \in Instances, Discard(i) PROVE Launchable'
  BY <1>15 DEF Discard, RemoveOld
<1>16. ASSUME NEW i \in Instances, Tidy(i) PROVE Launchable'
  BY <1>16 DEF Tidy, RemoveZip, Leave
<1>17. CASE UNCHANGED vars
  BY <1>17 DEF vars
<1> QED
  BY <1>1, <1>2, <1>3, <1>4, <1>5, <1>6, <1>7, <1>8,
     <1>9, <1>10, <1>11, <1>12, <1>13, <1>14, <1>15, <1>16, <1>17 DEF Next

\* Every action leaves whole bundles.
LEMMA WholeStep == IInv /\ [Next]_vars => Whole'
<1> SUFFICES ASSUME IInv, [Next]_vars PROVE Whole'
  OBVIOUS
<1>0. TypeOK /\ Whole
  BY DEF IInv
<1> USE <1>0 DEF TypeOK, Whole, files, download, Goto
<1>1. CASE Publish
  BY <1>1 DEF Publish
<1>2. ASSUME NEW i \in Instances, Launch(i) PROVE Whole'
  BY <1>2 DEF Launch
<1>3. ASSUME NEW i \in Instances, End(i) PROVE Whole'
  BY <1>3 DEF End, Leave
<1>4. ASSUME NEW i \in Instances, Resolve(i) PROVE Whole'
  BY <1>4 DEF Resolve
<1>5. ASSUME NEW i \in Instances, Clean(i) PROVE Whole'
  <2>1. app' = app /\ extracted' = extracted /\ upset \subseteq upset'
    BY <1>5 DEF Clean, RemoveOld
  <2>2. old # None /\ app = None => "cleaned" \in upset'
    BY <1>5 DEF Clean, RemoveOld
  <2>3. old = None => old' = None
    BY <1>5 DEF Clean, RemoveOld
  <2> QED
    BY <2>1, <2>2, <2>3
<1>6. ASSUME NEW i \in Instances, Check(i) PROVE Whole'
  BY <1>6 DEF Check
<1>7. ASSUME NEW i \in Instances, OpenFails(i) PROVE Whole'
  BY <1>7 DEF OpenFails, Leave
<1>8. ASSUME NEW i \in Instances, Open(i) PROVE Whole'
  BY <1>8 DEF Open, Part
<1>9. ASSUME NEW i \in Instances, DownloadFails(i) PROVE Whole'
  BY <1>9 DEF DownloadFails, RemoveZip, Leave
<1>10. ASSUME NEW i \in Instances, Downloaded(i) PROVE Whole'
  BY <1>10 DEF Downloaded, Part
<1>11. ASSUME NEW i \in Instances, Extract(i) PROVE Whole'
  BY <1>11 DEF Extract, Extractable
<1>12. ASSUME NEW i \in Instances, Swap(i) PROVE Whole'
  BY <1>12 DEF Swap
<1>13. ASSUME NEW i \in Instances, Install(i) PROVE Whole'
  BY <1>13 DEF Install
<1>14. ASSUME NEW i \in Instances, Rollback(i) PROVE Whole'
  BY <1>14 DEF Rollback
<1>15. ASSUME NEW i \in Instances, Discard(i) PROVE Whole'
  <2>1. app' = app /\ extracted' = extracted /\ upset \subseteq upset'
    BY <1>15 DEF Discard, RemoveOld
  <2>2. old # None /\ app = None => "cleaned" \in upset'
    BY <1>15 DEF Discard, RemoveOld
  <2>3. old = None => old' = None
    BY <1>15 DEF Discard, RemoveOld
  <2> QED
    BY <2>1, <2>2, <2>3
<1>16. ASSUME NEW i \in Instances, Tidy(i) PROVE Whole'
  BY <1>16 DEF Tidy, RemoveZip, Leave
<1>17. CASE UNCHANGED vars
  BY <1>17 DEF vars
<1> QED
  BY <1>1, <1>2, <1>3, <1>4, <1>5, <1>6, <1>7, <1>8,
     <1>9, <1>10, <1>11, <1>12, <1>13, <1>14, <1>15, <1>16, <1>17 DEF Next

\* Every action keeps an instance on its way to a later release.
LEMMA OnwardStep == IInv /\ [Next]_vars => Onward'
<1> SUFFICES ASSUME IInv, [Next]_vars PROVE Onward'
  OBVIOUS
<1>0. TypeOK /\ Onward
  BY DEF IInv
<1> USE <1>0 DEF TypeOK, Onward, files, download, Goto
<1>1. CASE Publish
  BY <1>1 DEF Publish
<1>2. ASSUME NEW i \in Instances, Launch(i) PROVE Onward'
  BY <1>2 DEF Launch
<1>3. ASSUME NEW i \in Instances, End(i) PROVE Onward'
  BY <1>3 DEF End, Leave
<1>4. ASSUME NEW i \in Instances, Resolve(i) PROVE Onward'
  BY <1>4 DEF Resolve
<1>5. ASSUME NEW i \in Instances, Clean(i) PROVE Onward'
  BY <1>5 DEF Clean, RemoveOld
<1>6. ASSUME NEW i \in Instances, Check(i) PROVE Onward'
  <2>1. CASE isNewer(Tags[latest], ver[i]) /\ target' = [target EXCEPT ![i] = Tags[latest]]
    <3>1. \E s \in Releases : s < latest /\ ver[i] = Tags[s]
      BY <2>1, NewerIsLater
    <3> QED
      BY <1>6, <2>1, <3>1 DEF Check
  <2>2. CASE pc' = [pc EXCEPT ![i] = "idle"]
    BY <1>6, <2>2 DEF Check
  <2> QED
    BY <1>6, <2>1, <2>2 DEF Check
<1>7. ASSUME NEW i \in Instances, OpenFails(i) PROVE Onward'
  BY <1>7 DEF OpenFails, Leave
<1>8. ASSUME NEW i \in Instances, Open(i) PROVE Onward'
  BY <1>8 DEF Open, Part
<1>9. ASSUME NEW i \in Instances, DownloadFails(i) PROVE Onward'
  BY <1>9 DEF DownloadFails, RemoveZip, Leave
<1>10. ASSUME NEW i \in Instances, Downloaded(i) PROVE Onward'
  BY <1>10 DEF Downloaded, Part
<1>11. ASSUME NEW i \in Instances, Extract(i) PROVE Onward'
  BY <1>11 DEF Extract, Extractable
<1>12. ASSUME NEW i \in Instances, Swap(i) PROVE Onward'
  BY <1>12 DEF Swap
<1>13. ASSUME NEW i \in Instances, Install(i) PROVE Onward'
  BY <1>13 DEF Install
<1>14. ASSUME NEW i \in Instances, Rollback(i) PROVE Onward'
  BY <1>14 DEF Rollback
<1>15. ASSUME NEW i \in Instances, Discard(i) PROVE Onward'
  BY <1>15 DEF Discard, RemoveOld
<1>16. ASSUME NEW i \in Instances, Tidy(i) PROVE Onward'
  BY <1>16 DEF Tidy, RemoveZip, Leave
<1>17. CASE UNCHANGED vars
  BY <1>17 DEF vars
<1> QED
  BY <1>1, <1>2, <1>3, <1>4, <1>5, <1>6, <1>7, <1>8,
     <1>9, <1>10, <1>11, <1>12, <1>13, <1>14, <1>15, <1>16, <1>17 DEF Next

\* Accidents are not forgotten.
LEMMA UpsetGrows == [Next]_vars => upset \subseteq upset'
  BY DEF Next, vars, files, download, Publish, Launch, End, Resolve, Clean, Check, OpenFails, Open,
         DownloadFails, Downloaded, Extract, Swap, Install, Rollback, Discard, Tidy, RemoveOld

\* As long as there is no accident, every action keeps instances apart.
LEMMA ApartStep == IInv /\ [Next]_vars /\ upset' = {} => Apart'
<1> SUFFICES ASSUME IInv, [Next]_vars, upset' = {} PROVE Apart'
  OBVIOUS
<1>0. TypeOK /\ Whole /\ Apart
  <2>1. upset = {}
    BY UpsetGrows
  <2> QED
    BY <2>1 DEF IInv
<1> USE <1>0 DEF TypeOK, Apart, Working, Swapping, Extractable, files, download, Goto
<1>1. CASE Publish
  BY <1>1 DEF Publish
<1>2. ASSUME NEW i \in Instances, Launch(i) PROVE Apart'
  BY <1>2 DEF Launch
<1>3. ASSUME NEW i \in Instances, End(i) PROVE Apart'
  BY <1>3 DEF End, Leave
<1>4. ASSUME NEW i \in Instances, Resolve(i) PROVE Apart'
  BY <1>4 DEF Resolve
<1>5. ASSUME NEW i \in Instances, Clean(i) PROVE Apart'
  <2>1. upset = {} /\ (old # None => app # None)
    BY <1>5 DEF Clean, RemoveOld
  <2> QED
    BY <1>5, <2>1 DEF Clean, RemoveOld
<1>6. ASSUME NEW i \in Instances, Check(i) PROVE Apart'
  BY <1>6 DEF Check
<1>7. ASSUME NEW i \in Instances, OpenFails(i) PROVE Apart'
  BY <1>7 DEF OpenFails, Leave
<1>8. ASSUME NEW i \in Instances, Open(i) PROVE Apart'
  BY <1>8 DEF Open, Part
<1>9. ASSUME NEW i \in Instances, DownloadFails(i) PROVE Apart'
  BY <1>9 DEF DownloadFails, RemoveZip, Leave
<1>10. ASSUME NEW i \in Instances, Downloaded(i) PROVE Apart'
  <2>1. linked[i] => zip' = [ver |-> target[i], whole |-> TRUE] \/ ~zip'.whole
    BY <1>10, FileTypes DEF Downloaded
  <2>2. ~linked[i] => zip' = None
    BY <1>10 DEF Downloaded
  <2> QED
    BY <1>10, <2>1, <2>2 DEF Downloaded
<1>11. ASSUME NEW i \in Instances, Extract(i) PROVE Apart'
  BY <1>11 DEF Extract, Extractable
<1>12. ASSUME NEW i \in Instances, Swap(i) PROVE Apart'
  <2>1. CASE app # None /\ old = None /\ old' = app /\ app' = None /\ app.ver = ver[i]
             /\ pc' = [pc EXCEPT ![i] = "install"]
    <3>1. \A j \in Instances : ~Swapping(j)
      BY <2>1
    <3>2. /\ pc' = [pc EXCEPT ![i] = "install"] /\ pc[i] = "swap"
          /\ UNCHANGED <<zip, ver, linked, target, extracted>>
      BY <1>12, <2>1 DEF Swap
    <3> QED
      BY <2>1, <3>1, <3>2
  <2>2. CASE UNCHANGED <<app, old>> /\ pc' = [pc EXCEPT ![i] = "tidy"]
    BY <1>12, <2>2 DEF Swap
  <2>3. app.ver = ver[i] \/ ~(app # None /\ old = None /\ old' = app)
        \/ pc' = [pc EXCEPT ![i] = "tidy"]
    BY <1>12 DEF Swap
  <2> QED
    BY <1>12, <2>1, <2>2, <2>3 DEF Swap
<1>13. ASSUME NEW i \in Instances, Install(i) PROVE Apart'
  BY <1>13 DEF Install
<1>14. ASSUME NEW i \in Instances, Rollback(i) PROVE Apart'
  BY <1>14 DEF Rollback
<1>15. ASSUME NEW i \in Instances, Discard(i) PROVE Apart'
  <2>1. upset = {} /\ (old # None => app # None)
    BY <1>15 DEF Discard, RemoveOld
  <2> QED
    BY <1>15, <2>1 DEF Discard, RemoveOld
<1>16. ASSUME NEW i \in Instances, Tidy(i) PROVE Apart'
  BY <1>16 DEF Tidy, RemoveZip, Leave
<1>17. CASE UNCHANGED vars
  BY <1>17 DEF vars
<1> QED
  BY <1>1, <1>2, <1>3, <1>4, <1>5, <1>6, <1>7, <1>8,
     <1>9, <1>10, <1>11, <1>12, <1>13, <1>14, <1>15, <1>16, <1>17 DEF Next

-----------------------------------------------------------------------------
\* IInv is an inductive invariant of the update.
THEOREM Invariance == Spec => []IInv
<1>1. Init => IInv
  <2> SUFFICES ASSUME Init PROVE IInv
    OBVIOUS
  <2>1. app \in File /\ app.whole
    BY ReleaseTypes DEF Init, File
  <2>2. TypeOK
    BY <2>1, ReleaseTypes DEF Init, TypeOK
  <2>3. app # None
    BY <2>1, FileTypes
  <2> QED
    BY <2>1, <2>2, <2>3 DEF Init, IInv, Launchable, Whole, Onward, Apart, Working, Swapping
<1>2. IInv /\ [Next]_vars => IInv'
  BY TypeStep, LaunchableStep, WholeStep, OnwardStep, ApartStep DEF IInv
<1> QED
  BY <1>1, <1>2, PTL DEF Spec

\* There is a Plop.app to launch but between the two renames, or after a kill or
\* a failed rollback in that moment.
THEOREM SomethingToLaunch == Spec => []Launchable
<1>1. IInv => Launchable
  BY DEF IInv
<1> QED
  BY <1>1, Invariance, PTL

\* What is in its place is whole, unless an instance has removed the .old bundle
\* while there was no other.
THEOREM InstalledIsWhole == Spec => []InstalledWhole
<1>1. IInv => InstalledWhole
  BY DEF IInv, Whole, InstalledWhole
<1> QED
  BY <1>1, Invariance, PTL

\* Without an accident, only the second rename changes what is installed, and only
\* to a later release.
LEMMA StepIsUpgrade == IInv /\ [Next]_vars => [U!Next]_<<installed, upset # {}>>
<1> SUFFICES ASSUME IInv, [Next]_vars PROVE [U!Next]_<<installed, upset # {}>>
  OBVIOUS
<1>1. CASE upset' # {}
  BY <1>1 DEF U!Next, U!Forfeit
<1>2. CASE upset' = {}
  <2>0. upset = {} /\ TypeOK /\ Whole /\ Onward /\ Apart
    BY <1>2, UpsetGrows DEF IInv
  <2> USE <2>0 DEF TypeOK, files, download, Goto
  <2>1. ASSUME UNCHANGED <<app, old>> PROVE UNCHANGED installed
    BY <2>1 DEF installed
  <2> DEFINE Step == [U!Next]_<<installed, upset # {}>>
  <2>2. UNCHANGED installed \/ U!Upgrade => Step
    BY <1>2 DEF U!Next
  <2> HIDE DEF Step
  <2>3. ASSUME Publish PROVE Step
    BY <2>1, <2>2, <2>3 DEF Publish
  <2>4. ASSUME NEW i \in Instances,
               Launch(i) \/ End(i) \/ Resolve(i) \/ Check(i) \/ OpenFails(i) \/ Open(i)
                 \/ DownloadFails(i) \/ Downloaded(i) \/ Extract(i) \/ Tidy(i)
        PROVE  Step
    BY <2>1, <2>2, <2>4 DEF Launch, End, Resolve, Check, OpenFails, Open,
                            DownloadFails, Downloaded, Extract, Tidy
  <2>5. ASSUME NEW i \in Instances, Clean(i) \/ Discard(i) PROVE Step
    <3>1. app' = app /\ (old # None => app # None)
      BY <1>2, <2>5 DEF Clean, Discard, RemoveOld
    <3>2. old = None => old' = None
      BY <2>5 DEF Clean, Discard, RemoveOld
    <3> QED
      BY <2>2, <3>1, <3>2 DEF installed
  <2>6. ASSUME NEW i \in Instances, Swap(i) PROVE Step
    BY <2>1, <2>2, <2>6 DEF Swap, installed
  <2>7. ASSUME NEW i \in Instances, Rollback(i) PROVE Step
    BY <2>1, <2>2, <2>7 DEF Rollback, installed
  <2>8. ASSUME NEW i \in Instances, Install(i) PROVE Step
    <3>1. CASE UNCHANGED app
      BY <2>1, <2>2, <2>8, <3>1 DEF Install
    <3>2. CASE app' = extracted[i]
      <4>1. pc[i] = "install" /\ app = None /\ old # None /\ old.ver = ver[i] /\ old.whole
        BY <2>8 DEF Install, Apart, Swapping, Whole
      <4>2. installed = ver[i]
        BY <4>1 DEF installed
      <4>3. extracted[i] # None /\ extracted[i].whole /\ extracted[i].ver = target[i]
        BY <4>1 DEF Whole, Apart
      <4>4. installed' = target[i]
        BY <3>2, <4>3 DEF installed
      <4>5. \E r, s \in Releases : s < r /\ ver[i] = Tags[s] /\ target[i] = Tags[r]
        BY <4>1 DEF Onward
      <4> QED
        BY <1>2, <2>2, <4>2, <4>4, <4>5 DEF U!Upgrade, U!Releases, Releases
    <3> QED
      BY <2>8, <3>1, <3>2 DEF Install
  <2>9. ASSUME UNCHANGED vars PROVE Step
    BY <2>1, <2>2, <2>9 DEF vars
  <2> QED
    BY <2>3, <2>4, <2>5, <2>6, <2>7, <2>8, <2>9 DEF Next, Step
<1> QED
  BY <1>1, <1>2

\* Two renames with a rollback implement the one-step upgrade, until an instance
\* opens the archive of another, overtakes it or removes its .old bundle.
THEOREM Refinement == Spec => ImplementsUpdate
<1>1. Init => U!Init
  <2> SUFFICES ASSUME Init PROVE U!Init
    OBVIOUS
  <2>1. app \in File /\ app.whole /\ app.ver \in {Tags[1], Dev}
    BY ReleaseTypes DEF Init, File
  <2>2. app # None
    BY <2>1, FileTypes
  <2> QED
    BY <2>1, <2>2 DEF Init, U!Init, installed
<1>2. IInv /\ [Next]_vars => [U!Next]_<<installed, upset # {}>>
  BY StepIsUpgrade
<1> QED
  BY Invariance, <1>1, <1>2, PTL DEF Spec, ImplementsUpdate, U!Spec, U!vars
=============================================================================

------------------------ MODULE UpdateWindows_proofs ------------------------
(***************************************************************************)
(* Proofs about UpdateWindows, for any number of instances and releases,   *)
(* any failures and kills: there is something to launch, the old           *)
(* executable is kept, and the two renames implement the one-step upgrade. *)
(*                                                                         *)
(* Windows keeps the image of a running process, so what an instance moves *)
(* out of the way is its own executable, and it alone is swapping then.    *)
(***************************************************************************)
EXTENDS UpdateWindows, TLAPS

\* A release is three numbers, and the other version is none.
LEMMA ReleaseTypes ==
    /\ \A r \in Releases : Tags[r] \in Nat \X Nat \X Nat /\ Tags[r] # Dev
    /\ Releases \subseteq Nat /\ 1 \in Releases
    /\ Version = {Tags[r] : r \in Releases} \cup {Dev}
  BY TagsAssumption DEF Releases, Version

\* A version that precedes another is not newer.
LEMMA PrecedesIsNotNewer ==
    ASSUME NEW v \in Nat \X Nat \X Nat, NEW w \in Nat \X Nat \X Nat,
           v = w \/ Precedes(v, w)
    PROVE  ~isNewer(v, w)
<1>1. /\ v[1] \in Nat /\ v[2] \in Nat /\ v[3] \in Nat
      /\ w[1] \in Nat /\ w[2] \in Nat /\ w[3] \in Nat
  OBVIOUS
<1>2. ASSUME isNewer(v, w) PROVE FALSE
  <2>1. PICK i \in 1..3 : v[i] > w[i] /\ \A j \in 1..(i - 1) : v[j] = w[j]
    BY <1>2 DEF isNewer
  <2>2. CASE i = 1
    BY <1>1, <2>1, <2>2 DEF Precedes
  <2>3. CASE i = 2
    <3>1. v[1] = w[1] /\ v[2] > w[2]
      BY <2>1, <2>3
    <3> QED
      BY <1>1, <3>1 DEF Precedes
  <2>4. CASE i = 3
    <3>1. v[1] = w[1] /\ v[2] = w[2] /\ v[3] > w[3]
      BY <2>1, <2>4
    <3> QED
      BY <1>1, <3>1 DEF Precedes
  <2> QED
    BY <2>2, <2>3, <2>4
<1> QED
  BY <1>2

\* An instance only ever goes on to a release that came out after its own: the
\* comparison of versions agrees with the order of the releases.
THEOREM NewerIsLater ==
    ASSUME NEW r \in Releases, NEW v \in Version, isNewer(Tags[r], v)
    PROVE  \E s \in Releases : s < r /\ v = Tags[s]
<1>1. PICK s \in Releases : v = Tags[s]
  BY ReleaseTypes DEF isNewer
<1>2. r \in Nat /\ s \in Nat
  BY ReleaseTypes
<1>3. ASSUME r < s \/ r = s PROVE FALSE
  BY <1>1, <1>3, OrderAssumption, ReleaseTypes, PrecedesIsNotNewer
<1> QED
  BY <1>1, <1>2, <1>3

-----------------------------------------------------------------------------
\* A file is not the absence of one.
LEMMA FileTypes == None \notin File /\ \A f \in File : f.ver \in Version /\ f.whole \in BOOLEAN
  BY NoneAssumption DEF File

\* Every action keeps the types.
LEMMA TypeStep == IInv /\ [Next]_vars => TypeOK'
<1> SUFFICES ASSUME IInv, [Next]_vars PROVE TypeOK'
  OBVIOUS
<1>0. TypeOK /\ InUse
  BY DEF IInv
<1> USE <1>0 DEF TypeOK, files, procs, Goto
<1>1. CASE Publish
  BY <1>1 DEF Publish
<1>2. ASSUME NEW i \in Instances, Launch(i) PROVE TypeOK'
  BY <1>2, FileTypes DEF Launch
<1>3. ASSUME NEW i \in Instances, End(i) PROVE TypeOK'
  BY <1>3 DEF End
<1>4. ASSUME NEW i \in Instances, Clean(i) PROVE TypeOK'
  BY <1>4 DEF Clean, RunsFrom
<1>5. ASSUME NEW i \in Instances, Check(i) PROVE TypeOK'
  BY <1>5, ReleaseTypes DEF Check
<1>6. ASSUME NEW i \in Instances, OpenFails(i) PROVE TypeOK'
  BY <1>6 DEF OpenFails
<1>7. ASSUME NEW i \in Instances, Open(i) PROVE TypeOK'
  <2>1. tmp' \in File
    BY <1>7 DEF Open, File
  <2>2. spoilt' \in [Instances -> BOOLEAN]
    BY <1>7 DEF Open
  <2> QED
    BY <1>7, <2>1, <2>2 DEF Open
<1>8. ASSUME NEW i \in Instances, DownloadFails(i) PROVE TypeOK'
  BY <1>8 DEF DownloadFails, Writing
<1>9. ASSUME NEW i \in Instances, Downloaded(i) PROVE TypeOK'
  <2>1. tmp \in File
    BY <1>9 DEF Downloaded, InUse
  <2>2. (tmp.whole \/ ~spoilt[i]) \in BOOLEAN
    BY <2>1, FileTypes
  <2>3. tmp' \in File
    BY <1>9, <2>2 DEF Downloaded, File
  <2> QED
    BY <1>9, <2>3 DEF Downloaded
<1>10. ASSUME NEW i \in Instances, Swap(i) PROVE TypeOK'
  BY <1>10 DEF Swap, RunsFrom, Moved
<1>11. ASSUME NEW i \in Instances, Install(i) PROVE TypeOK'
  BY <1>11 DEF Install, CanInstall, RunsFrom, Writing
<1>12. ASSUME NEW i \in Instances, Rollback(i) PROVE TypeOK'
  BY <1>12 DEF Rollback, RunsFrom, Moved
<1>13. CASE UNCHANGED vars
  BY <1>13 DEF vars
<1> QED
  BY <1>1, <1>2, <1>3, <1>4, <1>5, <1>6, <1>7, <1>8,
     <1>9, <1>10, <1>11, <1>12, <1>13 DEF Next

\* Every action leaves the files that are in use.
LEMMA InUseStep == IInv /\ [Next]_vars => InUse'
<1> SUFFICES ASSUME IInv, [Next]_vars PROVE InUse'
  OBVIOUS
<1>0. TypeOK /\ InUse /\ OneSwap
  BY DEF IInv
<1> USE <1>0 DEF TypeOK, InUse, files, procs, Goto
<1>1. CASE Publish
  BY <1>1 DEF Publish
<1>2. ASSUME NEW i \in Instances, Launch(i) PROVE InUse'
  BY <1>2 DEF Launch
<1>3. ASSUME NEW i \in Instances, End(i) PROVE InUse'
  BY <1>3 DEF End
<1>4. ASSUME NEW i \in Instances, Clean(i) PROVE InUse'
  BY <1>4 DEF Clean, RunsFrom
<1>5. ASSUME NEW i \in Instances, Check(i) PROVE InUse'
  BY <1>5 DEF Check
<1>6. ASSUME NEW i \in Instances, OpenFails(i) PROVE InUse'
  BY <1>6 DEF OpenFails
<1>7. ASSUME NEW i \in Instances, Open(i) PROVE InUse'
  <2>1. tmp' # None
    BY <1>7, FileTypes DEF Open, File
  <2> QED
    BY <1>7, <2>1 DEF Open
<1>8. ASSUME NEW i \in Instances, DownloadFails(i) PROVE InUse'
  BY <1>8 DEF DownloadFails, Writing
<1>9. ASSUME NEW i \in Instances, Downloaded(i) PROVE InUse'
  <2>1. (tmp.whole \/ ~spoilt[i]) \in BOOLEAN
    OBVIOUS
  <2>2. tmp' # None
    BY <1>9, <2>1, FileTypes DEF Downloaded, File
  <2> QED
    BY <1>9, <2>2 DEF Downloaded
<1>10. ASSUME NEW i \in Instances, Swap(i) PROVE InUse'
  BY <1>10 DEF Swap, RunsFrom, Moved
<1>11. ASSUME NEW i \in Instances, Install(i) PROVE InUse'
  BY <1>11 DEF Install, CanInstall, RunsFrom, Writing
<1>12. ASSUME NEW i \in Instances, Rollback(i) PROVE InUse'
  BY <1>12 DEF Rollback, RunsFrom, Moved
<1>13. CASE UNCHANGED vars
  BY <1>13 DEF vars
<1> QED
  BY <1>1, <1>2, <1>3, <1>4, <1>5, <1>6, <1>7, <1>8,
     <1>9, <1>10, <1>11, <1>12, <1>13 DEF Next

\* Every action leaves one instance swapping, or none.
LEMMA OneSwapStep == IInv /\ [Next]_vars => OneSwap'
<1> SUFFICES ASSUME IInv, [Next]_vars PROVE OneSwap'
  OBVIOUS
<1>0. TypeOK /\ InUse /\ OneSwap
  BY DEF IInv
<1> USE <1>0 DEF TypeOK, OneSwap, Swapping, files, procs, Goto
<1>1. CASE Publish
  BY <1>1 DEF Publish
<1>2. ASSUME NEW i \in Instances, Launch(i) PROVE OneSwap'
  BY <1>2 DEF Launch
<1>3. ASSUME NEW i \in Instances, End(i) PROVE OneSwap'
  BY <1>3 DEF End
<1>4. ASSUME NEW i \in Instances, Clean(i) PROVE OneSwap'
  BY <1>4 DEF Clean, RunsFrom
<1>5. ASSUME NEW i \in Instances, Check(i) PROVE OneSwap'
  BY <1>5 DEF Check
<1>6. ASSUME NEW i \in Instances, OpenFails(i) PROVE OneSwap'
  BY <1>6 DEF OpenFails
<1>7. ASSUME NEW i \in Instances, Open(i) PROVE OneSwap'
  BY <1>7 DEF Open, Writing
<1>8. ASSUME NEW i \in Instances, DownloadFails(i) PROVE OneSwap'
  BY <1>8 DEF DownloadFails, Writing
<1>9. ASSUME NEW i \in Instances, Downloaded(i) PROVE OneSwap'
  BY <1>9 DEF Downloaded
<1>10. ASSUME NEW i \in Instances, Swap(i) PROVE OneSwap'
  BY <1>10 DEF Swap, RunsFrom, Moved
<1>11. ASSUME NEW i \in Instances, Install(i) PROVE OneSwap'
  BY <1>11 DEF Install, CanInstall, RunsFrom, Writing
<1>12. ASSUME NEW i \in Instances, Rollback(i) PROVE OneSwap'
  BY <1>12 DEF Rollback, RunsFrom, Moved
<1>13. CASE UNCHANGED vars
  BY <1>13 DEF vars
<1> QED
  BY <1>1, <1>2, <1>3, <1>4, <1>5, <1>6, <1>7, <1>8,
     <1>9, <1>10, <1>11, <1>12, <1>13 DEF Next

\* Every action keeps an instance on its way to a later release.
LEMMA OnwardStep == IInv /\ [Next]_vars => Onward'
<1> SUFFICES ASSUME IInv, [Next]_vars PROVE Onward'
  OBVIOUS
<1>0. TypeOK /\ Onward
  BY DEF IInv
<1> USE <1>0 DEF TypeOK, Onward, files, procs, Goto
<1>1. CASE Publish
  BY <1>1 DEF Publish
<1>2. ASSUME NEW i \in Instances, Launch(i) PROVE Onward'
  BY <1>2 DEF Launch
<1>3. ASSUME NEW i \in Instances, End(i) PROVE Onward'
  BY <1>3 DEF End
<1>4. ASSUME NEW i \in Instances, Clean(i) PROVE Onward'
  BY <1>4 DEF Clean, RunsFrom
<1>5. ASSUME NEW i \in Instances, Check(i) PROVE Onward'
  <2>1. CASE isNewer(Tags[latest], ver[i]) /\ target' = [target EXCEPT ![i] = Tags[latest]]
    <3>1. \E s \in Releases : s < latest /\ ver[i] = Tags[s]
      BY <2>1, NewerIsLater
    <3> QED
      BY <1>5, <2>1, <3>1 DEF Check
  <2>2. CASE pc' = [pc EXCEPT ![i] = "idle"]
    BY <1>5, <2>2 DEF Check
  <2> QED
    BY <1>5, <2>1, <2>2 DEF Check
<1>6. ASSUME NEW i \in Instances, OpenFails(i) PROVE Onward'
  BY <1>6 DEF OpenFails
<1>7. ASSUME NEW i \in Instances, Open(i) PROVE Onward'
  BY <1>7 DEF Open, Writing
<1>8. ASSUME NEW i \in Instances, DownloadFails(i) PROVE Onward'
  BY <1>8 DEF DownloadFails, Writing
<1>9. ASSUME NEW i \in Instances, Downloaded(i) PROVE Onward'
  BY <1>9 DEF Downloaded
<1>10. ASSUME NEW i \in Instances, Swap(i) PROVE Onward'
  BY <1>10 DEF Swap, RunsFrom, Moved
<1>11. ASSUME NEW i \in Instances, Install(i) PROVE Onward'
  BY <1>11 DEF Install, CanInstall, RunsFrom, Writing
<1>12. ASSUME NEW i \in Instances, Rollback(i) PROVE Onward'
  BY <1>12 DEF Rollback, RunsFrom, Moved
<1>13. CASE UNCHANGED vars
  BY <1>13 DEF vars
<1> QED
  BY <1>1, <1>2, <1>3, <1>4, <1>5, <1>6, <1>7, <1>8,
     <1>9, <1>10, <1>11, <1>12, <1>13 DEF Next

\* Every action leaves an executable to launch, or an instance swapping.
LEMMA LaunchableStep == IInv /\ [Next]_vars => Launchable'
<1> SUFFICES ASSUME IInv, [Next]_vars PROVE Launchable'
  OBVIOUS
<1>0. TypeOK /\ Launchable /\ OneSwap
  BY DEF IInv
<1> USE <1>0 DEF TypeOK, Launchable, Swapping, OneSwap, files, procs, Goto
<1>1. CASE Publish
  BY <1>1 DEF Publish
<1>2. ASSUME NEW i \in Instances, Launch(i) PROVE Launchable'
  BY <1>2 DEF Launch
<1>3. ASSUME NEW i \in Instances, End(i) PROVE Launchable'
  BY <1>3 DEF End
<1>4. ASSUME NEW i \in Instances, Clean(i) PROVE Launchable'
  BY <1>4 DEF Clean, RunsFrom
<1>5. ASSUME NEW i \in Instances, Check(i) PROVE Launchable'
  BY <1>5 DEF Check
<1>6. ASSUME NEW i \in Instances, OpenFails(i) PROVE Launchable'
  BY <1>6 DEF OpenFails
<1>7. ASSUME NEW i \in Instances, Open(i) PROVE Launchable'
  BY <1>7 DEF Open, Writing
<1>8. ASSUME NEW i \in Instances, DownloadFails(i) PROVE Launchable'
  BY <1>8 DEF DownloadFails, Writing
<1>9. ASSUME NEW i \in Instances, Downloaded(i) PROVE Launchable'
  BY <1>9 DEF Downloaded
<1>10. ASSUME NEW i \in Instances, Swap(i) PROVE Launchable'
  BY <1>10 DEF Swap, RunsFrom, Moved
<1>11. ASSUME NEW i \in Instances, Install(i) PROVE Launchable'
  BY <1>11 DEF Install, CanInstall, RunsFrom, Writing
<1>12. ASSUME NEW i \in Instances, Rollback(i) PROVE Launchable'
  BY <1>12 DEF Rollback, RunsFrom, Moved
<1>13. CASE UNCHANGED vars
  BY <1>13 DEF vars
<1> QED
  BY <1>1, <1>2, <1>3, <1>4, <1>5, <1>6, <1>7, <1>8,
     <1>9, <1>10, <1>11, <1>12, <1>13 DEF Next

\* Every action leaves the old executable if there is no other: it still runs.
LEMMA OldKeptStep == IInv /\ [Next]_vars => OldKept'
<1> SUFFICES ASSUME IInv, [Next]_vars PROVE OldKept'
  OBVIOUS
<1>0. TypeOK /\ OldKept /\ InUse
  BY DEF IInv
<1> USE <1>0 DEF TypeOK, OldKept, InUse, files, procs, Goto
<1>1. CASE Publish
  BY <1>1 DEF Publish
<1>2. ASSUME NEW i \in Instances, Launch(i) PROVE OldKept'
  BY <1>2 DEF Launch
<1>3. ASSUME NEW i \in Instances, End(i) PROVE OldKept'
  BY <1>3 DEF End
<1>4. ASSUME NEW i \in Instances, Clean(i) PROVE OldKept'
  BY <1>4 DEF Clean, RunsFrom
<1>5. ASSUME NEW i \in Instances, Check(i) PROVE OldKept'
  BY <1>5 DEF Check
<1>6. ASSUME NEW i \in Instances, OpenFails(i) PROVE OldKept'
  BY <1>6 DEF OpenFails
<1>7. ASSUME NEW i \in Instances, Open(i) PROVE OldKept'
  BY <1>7 DEF Open, Writing
<1>8. ASSUME NEW i \in Instances, DownloadFails(i) PROVE OldKept'
  BY <1>8 DEF DownloadFails, Writing
<1>9. ASSUME NEW i \in Instances, Downloaded(i) PROVE OldKept'
  BY <1>9 DEF Downloaded
<1>10. ASSUME NEW i \in Instances, Swap(i) PROVE OldKept'
  BY <1>10 DEF Swap, RunsFrom, Moved
<1>11. ASSUME NEW i \in Instances, Install(i) PROVE OldKept'
  BY <1>11 DEF Install, CanInstall, RunsFrom, Writing
<1>12. ASSUME NEW i \in Instances, Rollback(i) PROVE OldKept'
  BY <1>12 DEF Rollback, RunsFrom, Moved
<1>13. CASE UNCHANGED vars
  BY <1>13 DEF vars
<1> QED
  BY <1>1, <1>2, <1>3, <1>4, <1>5, <1>6, <1>7, <1>8,
     <1>9, <1>10, <1>11, <1>12, <1>13 DEF Next

\* As long as no instance tramples on the download of another, every action
\* leaves it to the one that uses it.
LEMMA ApartStep == IInv /\ [Next]_vars /\ ~trampled' => Apart'
<1> SUFFICES ASSUME IInv, [Next]_vars, ~trampled' PROVE Apart'
  OBVIOUS
<1>0. TypeOK /\ OneSwap /\ InUse /\ OldKept /\ Apart
  <2>1. ~trampled
    BY DEF IInv, Next, vars, files, procs, Publish, Launch, End, Clean, Check, OpenFails, Open,
           DownloadFails, Downloaded, Swap, Install, Rollback
  <2> QED
    BY <2>1 DEF IInv
<1> USE <1>0 DEF TypeOK, Apart, Using, files, procs, Goto
<1>1. CASE Publish
  BY <1>1 DEF Publish
<1>2. ASSUME NEW i \in Instances, Launch(i) PROVE Apart'
  BY <1>2 DEF Launch
<1>3. ASSUME NEW i \in Instances, End(i) PROVE Apart'
  BY <1>3 DEF End
<1>4. ASSUME NEW i \in Instances, Clean(i) PROVE Apart'
  <2>1. exe' = exe /\ (exe = None => old' = old)
    BY <1>4 DEF Clean, RunsFrom, InUse
  <2> QED
    BY <1>4, <2>1 DEF Clean
<1>5. ASSUME NEW i \in Instances, Check(i) PROVE Apart'
  BY <1>5 DEF Check
<1>6. ASSUME NEW i \in Instances, OpenFails(i) PROVE Apart'
  BY <1>6 DEF OpenFails
<1>7. ASSUME NEW i \in Instances, Open(i) PROVE Apart'
  BY <1>7 DEF Open, Writing
<1>8. ASSUME NEW i \in Instances, DownloadFails(i) PROVE Apart'
  BY <1>8 DEF DownloadFails, Writing
<1>9. ASSUME NEW i \in Instances, Downloaded(i) PROVE Apart'
  BY <1>9 DEF Downloaded
<1>10. ASSUME NEW i \in Instances, Swap(i) PROVE Apart'
  BY <1>10 DEF Swap, RunsFrom, Moved
<1>11. ASSUME NEW i \in Instances, Install(i) PROVE Apart'
  BY <1>11 DEF Install, CanInstall, RunsFrom, Writing
<1>12. ASSUME NEW i \in Instances, Rollback(i) PROVE Apart'
  <2>1. exe = None
    BY <1>12 DEF Rollback, OneSwap, Swapping
  <2> QED
    BY <1>12, <2>1 DEF Rollback
<1>13. CASE UNCHANGED vars
  BY <1>13 DEF vars
<1> QED
  BY <1>1, <1>2, <1>3, <1>4, <1>5, <1>6, <1>7, <1>8,
     <1>9, <1>10, <1>11, <1>12, <1>13 DEF Next

-----------------------------------------------------------------------------
\* IInv is an inductive invariant of the update.
THEOREM Invariance == Spec => []IInv
<1>1. Init => IInv
  <2> SUFFICES ASSUME Init PROVE IInv
    OBVIOUS
  <2>1. TypeOK
    BY ReleaseTypes DEF Init, TypeOK, File
  <2>2. exe # None
    BY <2>1, FileTypes, ReleaseTypes DEF Init, File
  <2> QED
    BY <2>1, <2>2 DEF Init, IInv, InUse, OneSwap, Onward, Launchable, OldKept, Apart, Using, Swapping
<1>2. IInv /\ [Next]_vars => IInv'
  BY TypeStep, InUseStep, OneSwapStep, OnwardStep, LaunchableStep, OldKeptStep, ApartStep DEF IInv
<1> QED
  BY <1>1, <1>2, PTL DEF Spec

\* There is a Plop.exe to launch but between the two renames, or after a kill or
\* a failed rollback in that moment.
THEOREM SomethingToLaunch == Spec => []Launchable
<1>1. IInv => Launchable
  BY DEF IInv
<1> QED
  BY <1>1, Invariance, PTL

\* Even then the old executable is still there.
THEOREM NothingLost == Spec => []OldKept
<1>1. IInv => OldKept
  BY DEF IInv
<1> QED
  BY <1>1, Invariance, PTL

\* Only the second rename changes what is installed, and only to a later release.
LEMMA StepIsUpgrade == IInv /\ [Next]_vars => [U!Next]_<<installed, trampled>>
<1> SUFFICES ASSUME IInv, [Next]_vars PROVE [U!Next]_<<installed, trampled>>
  OBVIOUS
<1>0. TypeOK /\ InUse /\ OneSwap /\ Onward /\ OldKept
  BY DEF IInv
<1> USE <1>0 DEF TypeOK, files, procs, Goto
<1>1. ASSUME UNCHANGED <<exe, old, trampled>> PROVE [U!Next]_<<installed, trampled>>
  BY <1>1 DEF installed
<1>2. CASE Publish
  BY <1>1, <1>2 DEF Publish
<1>3. ASSUME NEW i \in Instances,
             Launch(i) \/ End(i) \/ Check(i) \/ OpenFails(i) \/ DownloadFails(i) \/ Downloaded(i)
      PROVE  [U!Next]_<<installed, trampled>>
  BY <1>1, <1>3 DEF Launch, End, Check, OpenFails, DownloadFails, Downloaded
<1>4. ASSUME NEW i \in Instances, Clean(i) PROVE [U!Next]_<<installed, trampled>>
  <2>1. exe' = exe /\ trampled' = trampled /\ (exe = None => old' = old)
    BY <1>4 DEF Clean, RunsFrom, InUse
  <2> QED
    BY <2>1 DEF installed
<1>5. ASSUME NEW i \in Instances, Open(i) PROVE [U!Next]_<<installed, trampled>>
  <2>1. exe' = exe /\ old' = old /\ (trampled' = trampled \/ trampled' = TRUE)
    BY <1>5 DEF Open
  <2> QED
    BY <2>1 DEF installed, U!Next, U!Forfeit
<1>6. ASSUME NEW i \in Instances, Swap(i) PROVE [U!Next]_<<installed, trampled>>
  BY <1>1, <1>6 DEF Swap, installed
<1>7. ASSUME NEW i \in Instances, Install(i) PROVE [U!Next]_<<installed, trampled>>
  <2>1. CASE UNCHANGED exe
    BY <1>1, <1>7, <2>1 DEF Install
  <2>2. CASE exe' = tmp /\ trampled
    BY <1>7, <2>2 DEF Install, U!Next, U!Forfeit
  <2>3. CASE exe' = tmp /\ ~trampled
    <3>1. exe = None /\ old # None
      BY <1>7 DEF Install, OneSwap, Swapping, OldKept
    <3>2. pc[i] # "down" /\ image[i] = "old"
      BY <1>7, <3>1 DEF Install, InUse
    <3>3. old.ver = ver[i]
      BY <3>2 DEF InUse
    <3>4. old.whole /\ tmp = [ver |-> target[i], whole |-> TRUE]
      BY <1>7, <2>3, <3>1 DEF Install, IInv, Apart
    <3>5. installed = ver[i]
      BY <3>1, <3>3, <3>4 DEF installed
    <3>6. exe' # None /\ exe'.whole /\ exe'.ver = target[i]
      BY <2>3, <3>4, FileTypes, NoneAssumption DEF File
    <3>7. installed' = target[i]
      BY <3>6 DEF installed
    <3>8. PICK r, s \in Releases : s < r /\ ver[i] = Tags[s] /\ target[i] = Tags[r]
      BY <1>7 DEF Install, Onward
    <3>9. UNCHANGED trampled
      BY <1>7 DEF Install
    <3> QED
      BY <3>5, <3>7, <3>8, <3>9 DEF U!Next, U!Upgrade, U!Releases, Releases
  <2> QED
    BY <1>7, <2>1, <2>2, <2>3 DEF Install
<1>8. ASSUME NEW i \in Instances, Rollback(i) PROVE [U!Next]_<<installed, trampled>>
  <2>1. exe = None
    BY <1>8 DEF Rollback, OneSwap, Swapping
  <2> QED
    BY <1>1, <1>8, <2>1 DEF Rollback, installed
<1>9. CASE UNCHANGED vars
  BY <1>1, <1>9 DEF vars
<1> QED
  BY <1>2, <1>3, <1>4, <1>5, <1>6, <1>7, <1>8, <1>9 DEF Next

\* Two renames with a rollback implement the one-step upgrade, as long as no
\* instance downloads into the file of another.
THEOREM Refinement == Spec => ImplementsUpdate
<1>1. Init => U!Init
  <2> SUFFICES ASSUME Init PROVE U!Init
    OBVIOUS
  <2>1. exe \in File
    BY ReleaseTypes DEF Init, File
  <2>2. exe # None /\ exe.whole /\ exe.ver \in {Tags[1], Dev}
    BY <2>1, FileTypes DEF Init
  <2> QED
    BY <2>2 DEF Init, U!Init, installed
<1>2. IInv /\ [Next]_vars => [U!Next]_<<installed, trampled>>
  BY StepIsUpgrade
<1> QED
  BY Invariance, <1>1, <1>2, PTL DEF Spec, ImplementsUpdate, U!Spec, U!vars
=============================================================================

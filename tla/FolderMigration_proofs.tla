------------------------ MODULE FolderMigration_proofs ------------------------
(***************************************************************************)
(* Theorems about FolderMigration, for any number of processes.            *)
(*                                                                         *)
(* IInv is inductive.  What carries the proof is the difference between    *)
(* Leads and Safe: config.xml may name the folder's old name for good (the *)
(* wrapper puts it back), which is harmless because New looks for the      *)
(* folder before it creates one; from that look on only Safe names are     *)
(* carried, and the rename that could make one unsafe is the accident      *)
(* "crossed".                                                              *)
(***************************************************************************)
EXTENDS FolderMigration, TLAPS

\* IInv holds at first.
LEMMA InitInvariant == Init => IInv
<1> SUFFICES ASSUME Init PROVE IInv
  OBVIOUS
<1> USE ValuesAssumption DEF Init, Names
<1>1. TypeOK
  BY DEF TypeOK
<1>2. NeverBeside
  BY DEF NeverBeside
<1>3. (xml \in Names => Leads(xml)) /\ (xml = None => Safe("Plop"))
  BY DEF Leads, Safe, At
<1>4. LeadsHome
  BY <1>2, <1>3 DEF LeadsHome, Stopping
<1>5. ConfigWhole
  BY DEF ConfigWhole
<1>6. fold => \E n \in Names : dirs[n] = None
  OBVIOUS
<1> QED
  BY <1>1, <1>4, <1>5, <1>6 DEF IInv, Bookkeeping, Stopping

-----------------------------------------------------------------------------
\* Every action keeps the types.
LEMMA TypeStep == IInv /\ [Next]_vars => TypeOK'
<1> SUFFICES ASSUME IInv, [Next]_vars PROVE TypeOK'
  OBVIOUS
<1>0. TypeOK
  BY DEF IInv, TypeOK
<1> USE <1>0, ValuesAssumption DEF TypeOK, Names, Accidents, Goto, Leave, Migrate, Stopping
<1>1. CASE Unplug
  BY <1>1 DEF Unplug
<1>2. ASSUME NEW p \in Procs, Launch(p) PROVE TypeOK'
  BY <1>2 DEF Launch
<1>3. ASSUME NEW p \in Procs, Load(p) PROVE TypeOK'
  BY <1>3 DEF Load
<1>4. ASSUME NEW p \in Procs, LoadFails(p) PROVE TypeOK'
  BY <1>4 DEF LoadFails
<1>5. ASSUME NEW p \in Procs, Stat(p) PROVE TypeOK'
  BY <1>5 DEF Stat
<1>6. ASSUME NEW p \in Procs, StatFails(p) PROVE TypeOK'
  BY <1>6 DEF StatFails
<1>7. ASSUME NEW p \in Procs, Rename(p) PROVE TypeOK'
  BY <1>7 DEF Rename, At, Exists
<1>8. ASSUME NEW p \in Procs, RenameFails(p) PROVE TypeOK'
  BY <1>8 DEF RenameFails
<1>9. ASSUME NEW p \in Procs, SaveCreate(p) PROVE TypeOK'
  BY <1>9 DEF SaveCreate, Writers
<1>10. ASSUME NEW p \in Procs, SaveWrite(p) PROVE TypeOK'
  BY <1>10 DEF SaveWrite
<1>11. ASSUME NEW p \in Procs, Mkdir(p) PROVE TypeOK'
  BY <1>11 DEF Mkdir
<1>12. ASSUME NEW p \in Procs, Wrap(p) PROVE TypeOK'
  BY <1>12 DEF Wrap
<1>13. ASSUME NEW p \in Procs, WrapperSave(p) PROVE TypeOK'
  BY <1>13 DEF WrapperSave, Replace, IInv, Bookkeeping
<1>14. ASSUME NEW p \in Procs, Stop(p) PROVE TypeOK'
  BY <1>14 DEF Stop, IInv, Bookkeeping
<1>15. ASSUME NEW p \in Procs, LastSave(p) PROVE TypeOK'
  BY <1>15 DEF LastSave, Replace, IInv, Bookkeeping
<1>16. ASSUME NEW p \in Procs, Kill(p) PROVE TypeOK'
  BY <1>16 DEF Kill
<1>17. CASE UNCHANGED vars
  BY <1>17 DEF vars
<1> QED
  BY <1>1, <1>2, <1>3, <1>4, <1>5, <1>6, <1>7, <1>8, <1>9, <1>10, <1>11, <1>12, <1>13,
     <1>14, <1>15, <1>16, <1>17 DEF Next

\* Every action keeps the books.
LEMMA BookkeepingStep == IInv /\ [Next]_vars => Bookkeeping'
<1> SUFFICES ASSUME IInv, [Next]_vars PROVE Bookkeeping'
  OBVIOUS
<1>0. TypeOK /\ Bookkeeping
  BY DEF IInv
<1> USE <1>0, ValuesAssumption DEF TypeOK, Bookkeeping, Names, Accidents, Goto, Leave, Migrate, Stopping
<1>1. CASE Unplug
  BY <1>1 DEF Unplug
<1>2. ASSUME NEW p \in Procs, Launch(p) PROVE Bookkeeping'
  BY <1>2 DEF Launch
<1>3. ASSUME NEW p \in Procs, Load(p) PROVE Bookkeeping'
  BY <1>3 DEF Load
<1>4. ASSUME NEW p \in Procs, LoadFails(p) PROVE Bookkeeping'
  BY <1>4 DEF LoadFails
<1>5. ASSUME NEW p \in Procs, Stat(p) PROVE Bookkeeping'
  BY <1>5 DEF Stat, Exists, At
<1>6. ASSUME NEW p \in Procs, StatFails(p) PROVE Bookkeeping'
  BY <1>6 DEF StatFails
<1>7. ASSUME NEW p \in Procs, Rename(p) PROVE Bookkeeping'
  BY <1>7 DEF Rename, At, Exists
<1>8. ASSUME NEW p \in Procs, RenameFails(p) PROVE Bookkeeping'
  BY <1>8 DEF RenameFails
<1>9. ASSUME NEW p \in Procs, SaveCreate(p) PROVE Bookkeeping'
  BY <1>9 DEF SaveCreate, Writers
<1>10. ASSUME NEW p \in Procs, SaveWrite(p) PROVE Bookkeeping'
  BY <1>10 DEF SaveWrite
<1>11. ASSUME NEW p \in Procs, Mkdir(p) PROVE Bookkeeping'
  BY <1>11 DEF Mkdir, Exists, At
<1>12. ASSUME NEW p \in Procs, Wrap(p) PROVE Bookkeeping'
  <2>1. CASE xml \in Names
    BY <1>12, <2>1 DEF Wrap
  <2>2. CASE xml \notin Names
    BY <1>12, <2>2 DEF Wrap
  <2> QED
    BY <2>1, <2>2
<1>13. ASSUME NEW p \in Procs, WrapperSave(p) PROVE Bookkeeping'
  BY <1>13 DEF WrapperSave, Replace
<1>14. ASSUME NEW p \in Procs, Stop(p) PROVE Bookkeeping'
  BY <1>14 DEF Stop
<1>15. ASSUME NEW p \in Procs, LastSave(p) PROVE Bookkeeping'
  BY <1>15 DEF LastSave, Replace
<1>16. ASSUME NEW p \in Procs, Kill(p) PROVE Bookkeeping'
  BY <1>16 DEF Kill
<1>17. CASE UNCHANGED vars
  BY <1>17 DEF vars
<1> QED
  BY <1>1, <1>2, <1>3, <1>4, <1>5, <1>6, <1>7, <1>8, <1>9, <1>10, <1>11, <1>12, <1>13,
     <1>14, <1>15, <1>16, <1>17 DEF Next

\* A torn config.xml is being written, or an accident has happened.
LEMMA WholeStep == IInv /\ [Next]_vars => ConfigWhole'
<1> SUFFICES ASSUME IInv, [Next]_vars PROVE ConfigWhole'
  OBVIOUS
<1>0. TypeOK /\ Bookkeeping /\ ConfigWhole
  BY DEF IInv
<1> USE <1>0, ValuesAssumption DEF TypeOK, Bookkeeping, ConfigWhole, Names, Goto, Leave, Migrate, Stopping
<1>1. CASE Unplug
  BY <1>1 DEF Unplug
<1>2. ASSUME NEW p \in Procs, Launch(p) PROVE ConfigWhole'
  BY <1>2 DEF Launch
<1>3. ASSUME NEW p \in Procs, Load(p) PROVE ConfigWhole'
  BY <1>3 DEF Load
<1>4. ASSUME NEW p \in Procs, LoadFails(p) PROVE ConfigWhole'
  BY <1>4 DEF LoadFails
<1>5. ASSUME NEW p \in Procs, Stat(p) PROVE ConfigWhole'
  BY <1>5 DEF Stat, Exists, At
<1>6. ASSUME NEW p \in Procs, StatFails(p) PROVE ConfigWhole'
  BY <1>6 DEF StatFails
<1>7. ASSUME NEW p \in Procs, Rename(p) PROVE ConfigWhole'
  BY <1>7 DEF Rename, At, Exists
<1>8. ASSUME NEW p \in Procs, RenameFails(p) PROVE ConfigWhole'
  BY <1>8 DEF RenameFails
<1>9. ASSUME NEW p \in Procs, SaveCreate(p) PROVE ConfigWhole'
  BY <1>9 DEF SaveCreate, Writers
<1>10. ASSUME NEW p \in Procs, SaveWrite(p) PROVE ConfigWhole'
  BY <1>10 DEF SaveWrite
<1>11. ASSUME NEW p \in Procs, Mkdir(p) PROVE ConfigWhole'
  BY <1>11 DEF Mkdir, Exists, At
<1>12. ASSUME NEW p \in Procs, Wrap(p) PROVE ConfigWhole'
  BY <1>12 DEF Wrap
<1>13. ASSUME NEW p \in Procs, WrapperSave(p) PROVE ConfigWhole'
  BY <1>13 DEF WrapperSave, Replace
<1>14. ASSUME NEW p \in Procs, Stop(p) PROVE ConfigWhole'
  BY <1>14 DEF Stop
<1>15. ASSUME NEW p \in Procs, LastSave(p) PROVE ConfigWhole'
  BY <1>15 DEF LastSave, Replace
<1>16. ASSUME NEW p \in Procs, Kill(p) PROVE ConfigWhole'
  BY <1>16 DEF Kill
<1>17. CASE UNCHANGED vars
  BY <1>17 DEF vars
<1> QED
  BY <1>1, <1>2, <1>3, <1>4, <1>5, <1>6, <1>7, <1>8, <1>9, <1>10, <1>11, <1>12, <1>13,
     <1>14, <1>15, <1>16, <1>17 DEF Next

-----------------------------------------------------------------------------
\* LeadsHome, of other values of the variables than those of the directories.
Followed(x, c, d, w) ==
    /\ x \in Names => Leads(x)
    /\ x = None => Safe("Plop")
    /\ \A p \in Procs :
         /\ w[p] # None => Leads(w[p])
         /\ c[p] = "stat" => d[p] = "plop" /\ Leads("plop")
         /\ c[p] = "rename" =>
              d[p] = "plop" /\ Leads("plop") /\ (w[p] # None \/ Safe("plop"))
         /\ c[p] \in {"create", "write", "mkdir"} =>
              Safe(d[p]) /\ (w[p] # None => d[p] = "Plop")

LEMMA Unmoved ==
    ASSUME LeadsHome, ~Lost, UNCHANGED <<fold, dirs>>, Followed(xml', pc', path', wrapped')
    PROVE  LeadsHome'
BY DEF LeadsHome, NeverBeside, Followed, Leads, Safe, At, Stopping

\* Accidents are not forgotten.
LEMMA LostStays == IInv /\ [Next]_vars /\ Lost => Lost'
<1> SUFFICES ASSUME IInv, [Next]_vars PROVE upset \subseteq upset'
  BY DEF Lost
<1> QED
  BY DEF Next, vars, Unplug, Launch, Load, LoadFails, Stat, StatFails, Rename, RenameFails, SaveCreate, SaveWrite, Mkdir, Wrap, WrapperSave, Stop, LastSave, Kill

\* Every action leaves config.xml and the processes leading to the folder.
LEMMA HomeStep == IInv /\ [Next]_vars => LeadsHome'
<1> SUFFICES ASSUME IInv, [Next]_vars, ~Lost' PROVE LeadsHome'
  BY DEF LeadsHome, NeverBeside
<1>1. TypeOK /\ TypeOK' /\ Bookkeeping /\ LeadsHome /\ ~Lost
  BY TypeStep, LostStays DEF IInv
<1>2. Followed(xml, pc, path, wrapped)
  BY <1>1 DEF LeadsHome, Followed, Stopping
<1>3. \A n \in Names : Safe(n) => Leads(n)
  BY DEF Leads
<1>4. ASSUME UNCHANGED <<fold, dirs>>, Followed(xml', pc', path', wrapped') PROVE LeadsHome'
  BY <1>1, <1>4, Unmoved
<1> USE ValuesAssumption DEF Names, Goto, Leave, Migrate, Stopping, TypeOK, Followed
<1>5. CASE Unplug
  BY <1>1, <1>5 DEF Unplug, Lost
<1>6. ASSUME NEW p \in Procs, Launch(p) PROVE LeadsHome'
  BY <1>1, <1>2, <1>3, <1>4, <1>6 DEF Launch
<1>7. ASSUME NEW p \in Procs, Load(p) PROVE LeadsHome'
  <2>1. CASE xml = Torn
    BY <1>1, <1>2, <1>4, <1>7, <2>1 DEF Load
  <2>2. CASE xml = "plop"
    BY <1>1, <1>2, <1>4, <1>7, <2>2 DEF Load
  <2>3. CASE xml = "Plop" \/ xml = None
    <3>1. Safe("Plop")
      BY <1>2, <2>3 DEF Leads
    <3> QED
      BY <1>1, <1>2, <1>4, <1>7, <2>3, <3>1 DEF Load, Bookkeeping
  <2> QED
    BY <1>1, <2>1, <2>2, <2>3
<1>8. ASSUME NEW p \in Procs, LoadFails(p) PROVE LeadsHome'
  BY <1>1, <1>2, <1>3, <1>4, <1>8 DEF LoadFails, Lost
<1>9. ASSUME NEW p \in Procs, Stat(p) PROVE LeadsHome'
  <2>1. CASE Exists("plop")
    <3>1. ~Stopping(p) => Safe("plop")
      BY <1>1, <1>2, <1>9, <2>1 DEF Stat, Exists, At, Safe, Leads
    <3> QED
      BY <1>1, <1>2, <1>4, <1>9, <2>1, <3>1 DEF Stat
  <2>2. CASE ~Exists("plop")
    <3>1. Safe("Plop")
      BY <1>1, <1>2, <1>9, <2>2 DEF Stat, Exists, At, Safe, Leads
    <3> QED
      BY <1>1, <1>2, <1>4, <1>9, <2>2, <3>1 DEF Stat
  <2> QED
    BY <2>1, <2>2
<1>10. ASSUME NEW p \in Procs, StatFails(p) PROVE LeadsHome'
  BY <1>1, <1>2, <1>3, <1>4, <1>10 DEF StatFails, Lost
<1>11. ASSUME NEW p \in Procs, Rename(p) PROVE LeadsHome'
  <2>1. dirs["plop"] = "ours" \/ dirs["Plop"] = "ours"
    BY <1>1, <1>2, <1>11 DEF Rename, Safe, Leads, At, Exists
  <2>2. dirs'["plop"] = None /\ dirs'["Plop"] = "ours"
    BY <1>1, <1>2, <1>11, <2>1 DEF Rename, Safe, Leads, At, Exists, Bookkeeping
  <2>3. /\ Leads("plop")' /\ Safe("Plop")' /\ Leads("Plop")'
        /\ \A n \in Names : dirs'[n] # "bare"
    BY <2>2 DEF Safe, Leads, At
  <2>4. \A q \in Procs : pc'[q] \in {"create", "write", "mkdir"} => path'[q] = "Plop"
    BY <1>1, <1>2, <1>11 DEF Rename, Crossing, Lost, Bookkeeping
  <2>5. \A q \in Procs : pc'[q] = "rename" => path'[q] = "plop" /\ wrapped'[q] # None
    BY <1>1, <1>2, <1>11 DEF Rename, Crossing, Lost
  <2> QED
    BY <1>1, <1>2, <1>11, <2>3, <2>4, <2>5 DEF Rename, LeadsHome, NeverBeside
<1>12. ASSUME NEW p \in Procs, RenameFails(p) PROVE LeadsHome'
  BY <1>1, <1>2, <1>3, <1>4, <1>12 DEF RenameFails
<1>13. ASSUME NEW p \in Procs, SaveCreate(p) PROVE LeadsHome'
  BY <1>1, <1>2, <1>3, <1>4, <1>13 DEF SaveCreate
<1>14. ASSUME NEW p \in Procs, SaveWrite(p) PROVE LeadsHome'
  <2>1. Leads(path[p]) /\ path[p] # None
    BY <1>1, <1>2, <1>14 DEF SaveWrite, Leads
  <2>2. xml' \in {xml, path[p], Torn}
    BY <1>14 DEF SaveWrite
  <2>3. (xml' \in Names => Leads(xml')) /\ (xml' = None => Safe("Plop"))
    BY <1>2, <2>1, <2>2
  <2> QED
    BY <1>1, <1>2, <1>4, <1>14, <2>3 DEF SaveWrite
<1>15. ASSUME NEW p \in Procs, Mkdir(p) PROVE LeadsHome'
  <2>1. CASE Exists(path[p])
    BY <1>2, <1>4, <1>15, <2>1 DEF Mkdir
  <2>2. CASE ~Exists(path[p])
    <3>1. path[p] = "Plop" /\ ~gone /\ \A n \in Names : dirs[n] # "ours"
      BY <1>1, <1>2, <1>15, <2>2 DEF Mkdir, Exists, Safe, Bookkeeping, Lost
    <3>2. dirs' = [dirs EXCEPT !["Plop"] = "ours"] /\ UNCHANGED fold
      BY <1>15, <2>2, <3>1 DEF Mkdir
    <3>3. dirs'["Plop"] = "ours" /\ \A n \in Names : dirs'[n] # "bare"
      BY <1>1, <3>2 DEF LeadsHome, NeverBeside
    <3>4. Safe("Plop")' /\ Leads("Plop")'
      BY <3>3 DEF Safe, Leads, At
    <3>5. ~Safe("plop") /\ ~Leads("plop")
      BY <1>1, <3>1 DEF Safe, Leads, At
    <3> QED
      BY <1>1, <1>2, <1>15, <3>3, <3>4, <3>5 DEF Mkdir, LeadsHome, NeverBeside
  <2> QED
    BY <2>1, <2>2
<1>16. ASSUME NEW p \in Procs, Wrap(p) PROVE LeadsHome'
  <2>1. CASE xml \in Names
    BY <1>1, <1>2, <1>4, <1>16, <2>1 DEF Wrap
  <2>2. CASE xml \notin Names
    <3>1. /\ pc' = [pc EXCEPT ![p] = "down"] /\ path' = [path EXCEPT ![p] = "Plop"]
          /\ wrapped' = [wrapped EXCEPT ![p] = None]
          /\ UNCHANGED <<fold, dirs, xml>>
      BY <1>16, <2>2 DEF Wrap
    <3> QED
      BY <1>1, <1>2, <1>4, <3>1
  <2> QED
    BY <2>1, <2>2
<1>17. ASSUME NEW p \in Procs, WrapperSave(p) PROVE LeadsHome'
  <2>1. Leads(wrapped[p]) /\ wrapped[p] # None
    BY <1>1, <1>2, <1>17 DEF WrapperSave, Bookkeeping
  <2> QED
    BY <1>1, <1>2, <1>4, <1>17, <2>1 DEF WrapperSave, Replace
<1>18. ASSUME NEW p \in Procs, Stop(p) PROVE LeadsHome'
  BY <1>1, <1>2, <1>3, <1>4, <1>18 DEF Stop, Bookkeeping
<1>19. ASSUME NEW p \in Procs, LastSave(p) PROVE LeadsHome'
  <2>1. Leads(wrapped[p]) /\ wrapped[p] # None
    BY <1>1, <1>2, <1>19 DEF LastSave, Bookkeeping
  <2>2. xml' \in {xml, wrapped[p]}
    BY <1>19 DEF LastSave, Replace
  <2>3. (xml' \in Names => Leads(xml')) /\ (xml' = None => Safe("Plop"))
    BY <1>2, <2>1, <2>2
  <2> QED
    BY <1>1, <1>2, <1>4, <1>19, <2>3 DEF LastSave
<1>20. ASSUME NEW p \in Procs, Kill(p) PROVE LeadsHome'
  BY <1>1, <1>2, <1>3, <1>4, <1>20 DEF Kill
<1>21. CASE UNCHANGED vars
  BY <1>2, <1>4, <1>21 DEF vars
<1> QED
  BY <1>5, <1>6, <1>7, <1>8, <1>9, <1>10, <1>11, <1>12, <1>13, <1>14, <1>15, <1>16, <1>17, <1>18, <1>19, <1>20, <1>21 DEF Next

-----------------------------------------------------------------------------
(***************************************************************************)
(* New and Stop, run by any number of processes on one home, killed at any *)
(* step, keep config.xml and the folder together as IInv says.             *)
(***************************************************************************)
THEOREM Invariance == Spec => []IInv
<1>1. IInv /\ [Next]_vars => IInv'
  BY TypeStep, BookkeepingStep, WholeStep, HomeStep DEF IInv
<1> QED
  BY <1>1, InitInvariant, PTL DEF Spec

(***************************************************************************)
(* No start creates an empty folder beside the user's, but for a folder or *)
(* config.xml out of reach or a folder renamed under another process.      *)
(***************************************************************************)
THEOREM NoEmptyFolder == Spec => []NeverBeside
<1>1. IInv => NeverBeside
  BY DEF IInv, LeadsHome
<1> QED
  BY <1>1, Invariance, PTL

(***************************************************************************)
(* Only a kill during the write of config.xml, or two processes writing at *)
(* once, leave a file that New refuses.                                    *)
(***************************************************************************)
THEOREM NoTornConfig == Spec => []ConfigWhole
<1>1. IInv => ConfigWhole
  BY DEF IInv
<1> QED
  BY <1>1, Invariance, PTL
==============================================================================

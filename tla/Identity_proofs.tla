--------------------------- MODULE Identity_proofs ---------------------------
(***************************************************************************)
(* Proofs about Identity, for any number of commands at the same time: an  *)
(* ID that has been shown stays, and files are refused only if they cannot *)
(* be read, or after a kill, a failing write or a race.                    *)
(***************************************************************************)
EXTENDS Identity, TLAPS

\* What the lemmas below say of a step, in terms of the directory in use.
Same ==
    /\ dirs' = dirs /\ Home' = Home /\ Current' = Current
    /\ Exists("Plop")' <=> Exists("Plop")
    /\ Exists("plop")' <=> Exists("plop")
    /\ Contents("cert")' = Contents("cert") /\ Contents("key")' = Contents("key")
    /\ OneName' <=> OneName

LEMMA NothingMoves == UNCHANGED <<fold, dirs>> => Same
  BY DEF Same, Home, Current, Exists, At, Contents, OneName

\* A directory is two files.
LEMMA DirectoryTypes ==
    /\ None \notin Directory
    /\ \A d \in Directory : d.cert \in File /\ d.key \in File /\ d = [cert |-> d.cert, key |-> d.key]
    /\ \A f, g \in File : [cert |-> f, key |-> g] \in Directory
  BY ValuesAssumption DEF Directory

\* Where a name leads to.
LEMMA Places ==
    /\ Home \in Names /\ At("plop") \in Names
    /\ ~fold => Home = "Plop" /\ At("plop") = "plop"
    /\ Exists("Plop") <=> dirs[Home] # None
    /\ Exists("plop") <=> dirs[At("plop")] # None
    /\ fold /\ OneName => \A n \in Names \ {Home} : dirs[n] = None
    /\ fold => (Exists("plop") <=> Exists("Plop"))
    /\ fold /\ OneName /\ Exists("Plop") => At("plop") = Home
  BY DEF Home, At, Names, Exists, OneName

\* The renaming keeps the files, and leaves no other directory behind.
LEMMA RenameMoves ==
    ASSUME TypeOK, OneName, NEW p \in Procs, Rename(p)
    PROVE  /\ dirs' \in [Names -> Directory \cup {None}] /\ OneName' /\ Exists("Plop")'
           /\ Current' = Current
           /\ Exists("Plop") =>
                Contents("cert")' = Contents("cert") /\ Contents("key")' = Contents("key")
           /\ \A n \in Names \ {Home'} : dirs'[n] = None
           /\ ~Exists("Plop") => /\ dirs["plop"] # None /\ "plop" \in Names \ {Home}
                                /\ Contents("cert")' = dirs["plop"].cert
                                /\ Contents("key")' = dirs["plop"].key
<1> DEFINE d == dirs[At("plop")]
<1>1. /\ d # None /\ fold' = fold /\ (fold \/ ~Exists("Plop"))
      /\ dirs' = [plop |-> None, Plop |-> d]
  BY DEF Rename, Exists
<1>2. d \in Directory
  BY <1>1, Places DEF TypeOK
<1>3. dirs'["Plop"] = d /\ dirs'["plop"] = None
  BY <1>1
<1>4. dirs' \in [Names -> Directory \cup {None}]
  BY <1>1, <1>2 DEF Names
<1>5. Home' = "Plop"
  BY <1>1, <1>3 DEF Home, At
<1>6. Exists("Plop")' /\ Contents("cert")' = d.cert /\ Contents("key")' = d.key /\ Current' = d
  BY <1>1, <1>3, <1>5 DEF Exists, Contents, Current, Home
<1>7. OneName'
  BY <1>3 DEF OneName
<1>8. CASE Exists("Plop")
  <2>1. fold /\ At("plop") = Home
    BY <1>1, <1>8, Places
  <2> QED
    BY <1>3, <1>4, <1>5, <1>6, <1>7, <1>8, <2>1 DEF Contents, Current, Names
<1>9. CASE ~Exists("Plop")
  <2>1. ~fold /\ Home = "Plop" /\ At("plop") = "plop"
    BY <1>1, <1>9, Places
  <2> QED
    BY <1>1, <1>3, <1>4, <1>5, <1>6, <1>7, <1>9, <2>1 DEF Current, Names
<1> QED
  BY <1>8, <1>9

\* Creating the directory changes nothing but that it is there.
LEMMA MkdirMoves ==
    ASSUME TypeOK, OneName, MkdirAll, fold' = fold
    PROVE  /\ dirs' \in [Names -> Directory \cup {None}] /\ OneName' /\ Exists("Plop")'
           /\ Contents("cert")' = Contents("cert") /\ Contents("key")' = Contents("key")
           /\ \A n \in Names \ {Home'} : dirs'[n] # None => n # Home /\ dirs'[n] = dirs[n]
           /\ (Exists("plop") => Exists("Plop")) => Current' = Current \/ Current = None
<1>1. CASE Exists("Plop")
  <2>1. Same
    BY <1>1, NothingMoves DEF MkdirAll
  <2> QED
    BY <1>1, <2>1 DEF Same, TypeOK
<1>2. CASE ~Exists("Plop")
  <2> DEFINE d == [cert |-> None, key |-> None]
  <2>1. d \in Directory /\ d # None
    BY DirectoryTypes DEF File
  <2>2. dirs' = [dirs EXCEPT !["Plop"] = d]
    BY <1>2 DEF MkdirAll
  <2>3. dirs' \in [Names -> Directory \cup {None}] /\ dirs'["Plop"] = d /\ dirs'["plop"] = dirs["plop"]
    BY <2>1, <2>2 DEF TypeOK, Names
  <2>4. Home' = "Plop" /\ Exists("Plop")'
    BY <2>1, <2>3 DEF Home, At, Exists
  <2>5. Contents("cert")' = None /\ Contents("key")' = None
    BY <2>3, <2>4 DEF Contents, Home
  <2>6. Contents("cert") = None /\ Contents("key") = None
    BY <1>2 DEF Contents
  <2>7. fold => dirs["plop"] = None
    BY <1>2 DEF Exists, At
  <2>8. \A n \in Names \ {Home'} : dirs'[n] # None => n # Home /\ dirs'[n] = dirs[n]
    BY <1>2, <2>3, <2>4, <2>7, Places DEF Names
  <2>9. (Exists("plop") => Exists("Plop")) => Current = None
    BY <1>2 DEF Current, Exists, At
  <2> QED
    BY <2>3, <2>4, <2>5, <2>6, <2>7, <2>8, <2>9 DEF OneName
<1> QED
  BY <1>1, <1>2

\* Writing a file changes the files in use and no others.
LEMMA WriteMoves ==
    ASSUME TypeOK, OneName, Exists("Plop"), NEW d \in Directory,
           dirs' = [dirs EXCEPT ![Home] = d], fold' = fold
    PROVE  /\ dirs' \in [Names -> Directory \cup {None}] /\ OneName' /\ Home' = Home
           /\ Exists("Plop")' /\ Current' = d
           /\ Contents("cert")' = d.cert /\ Contents("key")' = d.key
           /\ \A n \in Names \ {Home} : dirs'[n] = dirs[n]
<1>1. /\ dirs' \in [Names -> Directory \cup {None}] /\ dirs'[Home] = d
      /\ \A n \in Names \ {Home} : dirs'[n] = dirs[n]
  BY Places DEF TypeOK
<1>2. d # None /\ dirs[Home] # None
  BY DirectoryTypes, Places
<1>3. \A n \in Names : dirs'[n] = None <=> dirs[n] = None
  BY <1>1, <1>2
<1>4. Home' = Home
  BY <1>3 DEF Home, At, Names
<1>5. Exists("Plop")'
  BY <1>1, <1>2, <1>4 DEF Exists, Home
<1>6. OneName'
  BY <1>3 DEF OneName, Names
<1> QED
  BY <1>1, <1>4, <1>5, <1>6 DEF Current, Contents

\* Deleting a key changes nothing else.
LEMMA DeleteMoves ==
    ASSUME TypeOK, OneName, DeleteKey
    PROVE  /\ dirs' \in [Names -> Directory \cup {None}] /\ OneName' /\ Home' = Home
           /\ Exists("Plop")' <=> Exists("Plop")
           /\ Contents("cert")' = Contents("cert") /\ Contents("key")' \in {None, Contents("key")}
           /\ \A n \in Names : dirs'[n] # None =>
                /\ dirs[n] # None /\ dirs'[n].cert = dirs[n].cert
                /\ dirs'[n].key \in {None, dirs[n].key}
<1>1. PICK n \in Names : dirs[n] # None /\ dirs' = [dirs EXCEPT ![n].key = None]
  BY DEF DeleteKey
<1>2. dirs[n] \in Directory
  BY <1>1 DEF TypeOK
<1> DEFINE d == [cert |-> dirs[n].cert, key |-> None]
<1>3. d \in Directory /\ d # None
  BY <1>2, DirectoryTypes DEF File
<1>4. dirs' = [dirs EXCEPT ![n] = d]
  <2>1. [dirs[n] EXCEPT !.key = None] = d
    BY <1>2 DEF Directory
  <2> QED
    BY <1>1, <2>1
<1>5. /\ dirs' \in [Names -> Directory \cup {None}] /\ dirs'[n] = d
      /\ \A m \in Names \ {n} : dirs'[m] = dirs[m]
  BY <1>3, <1>4 DEF TypeOK
<1>6. \A m \in Names : dirs'[m] = None <=> dirs[m] = None
  BY <1>1, <1>3, <1>5
<1>7. fold' = fold
  BY DEF DeleteKey
<1>8. Home' = Home /\ (Exists("Plop")' <=> Exists("Plop")) /\ OneName'
  BY <1>6, <1>7 DEF Home, At, Exists, OneName, Names
<1>9. dirs'[Home].cert = dirs[Home].cert /\ dirs'[Home].key \in {None, dirs[Home].key}
  BY <1>5, Places
<1>10. Contents("cert")' = Contents("cert") /\ Contents("key")' \in {None, Contents("key")}
  BY <1>8, <1>9 DEF Contents
<1> QED
  BY <1>1, <1>3, <1>5, <1>6, <1>8, <1>10

\* What the steps of NewCertificate write.
LEMMA Writes ==
    ASSUME TypeOK, OneName, InPlace, NEW p \in Procs,
           Create(p) \/ Fill(p) \/ CreateKey(p) \/ FillKey(p)
    PROVE  /\ dirs' \in [Names -> Directory \cup {None}] /\ OneName' /\ Home' = Home
           /\ Exists("Plop") /\ Exists("Plop")'
           /\ \A n \in Names \ {Home} : dirs'[n] = dirs[n]
           /\ Current' = [cert |-> Contents("cert")', key |-> Contents("key")']
           /\ Create(p) => Contents("cert")' = Torn /\ Contents("key")' = Contents("key")
           /\ Fill(p) => Contents("cert")' = own[p] /\ Contents("key")' = Contents("key")
           /\ CreateKey(p) => Contents("cert")' = Contents("cert") /\ Contents("key")' = Torn
           /\ FillKey(p) =>
                /\ Contents("cert")' = Contents("cert")
                /\ Contents("key")' = IF Contents("key") = None THEN None ELSE own[p]
<1>1. Exists("Plop")
  BY DEF InPlace, WritingSteps, Create, Fill, CreateKey, FillKey
<1>2. /\ dirs[Home] \in Directory /\ own[p] \in File /\ Torn \in File /\ None \in File
      /\ Contents("cert") = dirs[Home].cert /\ Contents("key") = dirs[Home].key
  BY <1>1, Places DEF TypeOK, Contents, File
<1> DEFINE c == IF Create(p) THEN Torn ELSE IF Fill(p) THEN own[p] ELSE Contents("cert")
           k == IF CreateKey(p) THEN Torn
                ELSE IF FillKey(p) /\ Contents("key") # None THEN own[p] ELSE Contents("key")
           d == [cert |-> c, key |-> k]
<1>3. /\ Create(p) => ~Fill(p) /\ ~CreateKey(p) /\ ~FillKey(p)
      /\ Fill(p) => ~CreateKey(p) /\ ~FillKey(p)
      /\ CreateKey(p) => ~FillKey(p)
  BY DEF Create, Fill, CreateKey, FillKey
<1>4. c \in File /\ k \in File
  BY <1>2, DirectoryTypes
<1>5. d \in Directory
  BY <1>4, DirectoryTypes
<1>6. dirs' = [dirs EXCEPT ![Home] = d]
  <2>1. ASSUME NEW f \in File
        PROVE  /\ [dirs[Home] EXCEPT !.cert = f] = [cert |-> f, key |-> Contents("key")]
               /\ [dirs[Home] EXCEPT !.key = f] = [cert |-> Contents("cert"), key |-> f]
    BY <1>2 DEF Directory
  <2>2. CASE Create(p)
    BY <1>2, <1>3, <2>1, <2>2 DEF Create
  <2>3. CASE Fill(p)
    BY <1>2, <1>3, <2>1, <2>3 DEF Fill
  <2>4. CASE CreateKey(p)
    BY <1>2, <1>3, <2>1, <2>4 DEF CreateKey
  <2>5. CASE FillKey(p)
    <3>1. k = IF dirs[Home].key = None THEN None ELSE own[p]
      BY <1>2, <1>3, <2>5
    <3>2. dirs' = [dirs EXCEPT ![Home] = [dirs[Home] EXCEPT !.key = k]]
      BY <2>5, <3>1 DEF FillKey
    <3> QED
      BY <1>3, <1>4, <2>1, <2>5, <3>2
  <2> QED
    BY <2>2, <2>3, <2>4, <2>5
<1>7. fold' = fold
  BY DEF Create, Fill, CreateKey, FillKey
<1>8. /\ dirs' \in [Names -> Directory \cup {None}] /\ OneName' /\ Home' = Home
      /\ Exists("Plop")' /\ Current' = d
      /\ Contents("cert")' = c /\ Contents("key")' = k
      /\ \A n \in Names \ {Home} : dirs'[n] = dirs[n]
  <2> HIDE DEF d
  <2>1. Contents("cert")' = d.cert /\ Contents("key")' = d.key /\ Current' = d
    BY <1>1, <1>5, <1>6, <1>7, WriteMoves
  <2>2. d.cert = c /\ d.key = k
    BY DEF d
  <2> QED
    BY <1>1, <1>5, <1>6, <1>7, <2>1, <2>2, WriteMoves
<1> QED
  BY <1>1, <1>3, <1>8

\* Every action keeps the types.
LEMMA TypeStep == IInv /\ [Next]_vars => TypeOK'
<1> SUFFICES ASSUME IInv, [Next]_vars PROVE TypeOK'
  OBVIOUS
<1>0. TypeOK /\ OneName /\ InPlace
  BY DEF IInv
<1> USE <1>0 DEF TypeOK, Goto
<1>1. CASE DeleteKey
  <2>1. upset' \in SUBSET Accidents
    BY <1>1 DEF DeleteKey, Accidents
  <2> QED
    BY <1>1, <2>1, DeleteMoves DEF DeleteKey
<1>2. ASSUME NEW p \in Procs, Launch(p) PROVE TypeOK'
  BY <1>2 DEF Launch, WritingSteps
<1>3. ASSUME NEW p \in Procs, StatOld(p) PROVE TypeOK'
  BY <1>3 DEF StatOld, WritingSteps
<1>4. ASSUME NEW p \in Procs, StatNew(p) PROVE TypeOK'
  BY <1>4 DEF StatNew, WritingSteps
<1>5. ASSUME NEW p \in Procs, Rename(p) PROVE TypeOK'
  BY <1>5, RenameMoves DEF Rename, WritingSteps
<1>6. ASSUME NEW p \in Procs, RenameFails(p) PROVE TypeOK'
  BY <1>6 DEF RenameFails, Accidents, WritingSteps
<1>7. ASSUME NEW p \in Procs, MkHome(p) PROVE TypeOK'
  BY <1>7, MkdirMoves DEF MkHome, WritingSteps
<1>8. ASSUME NEW p \in Procs, InitHome(p) PROVE TypeOK'
  BY <1>8, MkdirMoves DEF InitHome, WritingSteps
<1>9. ASSUME NEW p \in Procs, OpenHome(p) PROVE TypeOK'
  BY <1>9 DEF OpenHome, WritingSteps
<1>10. ASSUME NEW p \in Procs, ReadCert(p) PROVE TypeOK'
  <2>1. Contents("cert") \in File
    BY Places, DirectoryTypes DEF Contents, File
  <2>2. upset' \in SUBSET Accidents
    BY <1>10 DEF ReadCert, Befalls, Accidents
  <2> QED
    BY <1>10, <2>1, <2>2 DEF ReadCert, WritingSteps
<1>11. ASSUME NEW p \in Procs, KeyMissing(p) PROVE TypeOK'
  <2>1. upset' \in SUBSET Accidents
    BY <1>11 DEF KeyMissing, Befalls, Accidents
  <2> QED
    BY <1>11, <2>1 DEF KeyMissing, WritingSteps
<1>12. ASSUME NEW p \in Procs, ReadKey(p) PROVE TypeOK'
  <2>1. upset' \in SUBSET Accidents
    BY <1>12 DEF ReadKey, Befalls, Accidents
  <2>2. CASE pc' = [pc EXCEPT ![p] = "show"] /\ own[p] \in Ids /\ UNCHANGED <<cmd, own, refused>>
    BY <1>12, <2>1, <2>2 DEF ReadKey
  <2>3. CASE Leave(p) /\ refused' = TRUE
    BY <1>12, <2>1, <2>3, DirectoryTypes DEF ReadKey, Leave, WritingSteps, File
  <2> QED
    BY <1>12, <2>2, <2>3 DEF ReadKey
<1>13. ASSUME NEW p \in Procs, Create(p) PROVE TypeOK'
  <2>1. upset' \in SUBSET Accidents
    BY <1>13 DEF Create, Accidents
  <2>2. dirs' \in [Names -> Directory \cup {None}]
    BY <1>13, Writes
  <2>3. PICK id \in Ids \ used : own' = [own EXCEPT ![p] = id] /\ used' = used \cup {id}
    BY <1>13 DEF Create
  <2> QED
    BY <1>13, <2>1, <2>2, <2>3 DEF Create, WritingSteps, File
<1>14. ASSUME NEW p \in Procs, CreateFails(p) PROVE TypeOK'
  <2>1. upset' \in SUBSET Accidents
    BY <1>14 DEF CreateFails, Befalls, Accidents
  <2> QED
    BY <1>14, <2>1 DEF CreateFails, Leave, WritingSteps, File
<1>15. ASSUME NEW p \in Procs, Fill(p) PROVE TypeOK'
  BY <1>15, Writes DEF Fill, WritingSteps
<1>16. ASSUME NEW p \in Procs, CreateKey(p) PROVE TypeOK'
  BY <1>16, Writes DEF CreateKey, WritingSteps
<1>17. ASSUME NEW p \in Procs, FillKey(p) PROVE TypeOK'
  BY <1>17, Writes DEF FillKey, WritingSteps
<1>18. ASSUME NEW p \in Procs, Show(p) PROVE TypeOK'
  BY <1>18 DEF Show, Leave, WritingSteps, File
<1>19. ASSUME NEW p \in Procs, Kill(p) PROVE TypeOK'
  <2>1. upset' \in SUBSET Accidents
    BY <1>19 DEF Kill, Befalls, Accidents
  <2> QED
    BY <1>19, <2>1 DEF Kill, Leave, WritingSteps, File
<1>20. ASSUME NEW p \in Procs, ReadFails(p) PROVE TypeOK'
  <2>1. upset' \in SUBSET Accidents
    BY <1>20 DEF ReadFails, Accidents
  <2> QED
    BY <1>20, <2>1 DEF ReadFails, Leave, WritingSteps, File
<1>21. CASE UNCHANGED vars
  <2>1. Same
    BY <1>21, NothingMoves DEF vars
  <2> QED
    BY <1>21, <2>1 DEF vars, Same
<1> QED
  BY <1>1, <1>2, <1>3, <1>4, <1>5, <1>6, <1>7, <1>8, <1>9, <1>10,
     <1>11, <1>12, <1>13, <1>14, <1>15, <1>16, <1>17, <1>18, <1>19, <1>20,
     <1>21 DEF Next

\* plop and Plop stay one directory where they are one name.
LEMMA OneNameStep == IInv /\ [Next]_vars => OneName'
<1> SUFFICES ASSUME IInv, [Next]_vars PROVE OneName'
  OBVIOUS
<1>0. TypeOK /\ OneName /\ InPlace
  BY DEF IInv
<1> USE <1>0 DEF Goto
<1>1. CASE DeleteKey
  BY <1>1, DeleteMoves DEF DeleteKey
<1>2. ASSUME NEW p \in Procs, Launch(p) \/ StatOld(p) \/ StatNew(p) \/ RenameFails(p) \/ OpenHome(p)
      PROVE  OneName'
  <2>1. Same
    BY <1>2, NothingMoves DEF Launch, StatOld, StatNew, RenameFails, OpenHome
  <2> QED
    BY <1>2, <2>1 DEF Same, Launch, StatOld, StatNew, RenameFails, OpenHome
<1>3. ASSUME NEW p \in Procs, Rename(p) PROVE OneName'
  BY <1>3, RenameMoves DEF Rename
<1>4. ASSUME NEW p \in Procs, MkHome(p) PROVE OneName'
  BY <1>4, MkdirMoves DEF MkHome
<1>5. ASSUME NEW p \in Procs, InitHome(p) PROVE OneName'
  BY <1>5, MkdirMoves DEF InitHome
<1>6. ASSUME NEW p \in Procs, ReadCert(p) PROVE OneName'
  <2>1. Same
    BY <1>6, NothingMoves DEF ReadCert
  <2> QED
    BY <1>6, <2>1 DEF Same, ReadCert, Befalls, Others
<1>7. ASSUME NEW p \in Procs, KeyMissing(p) PROVE OneName'
  <2>1. Same
    BY <1>7, NothingMoves DEF KeyMissing
  <2> QED
    BY <1>7, <2>1 DEF Same, KeyMissing, Befalls, Others
<1>8. ASSUME NEW p \in Procs, ReadKey(p) PROVE OneName'
  <2>1. Same
    BY <1>8, NothingMoves DEF ReadKey
  <2> QED
    BY <1>8, <2>1 DEF Same, ReadKey, Befalls, Others, Leave
<1>9. ASSUME NEW p \in Procs, Create(p) PROVE OneName'
  BY <1>9, Writes DEF Create, Others
<1>10. ASSUME NEW p \in Procs, ReadFails(p) \/ CreateFails(p) \/ Show(p) \/ Kill(p)
      PROVE  OneName'
  <2>1. Same
    BY <1>10, NothingMoves DEF ReadFails, CreateFails, Show, Kill
  <2> QED
    BY <1>10, <2>1 DEF Same, ReadFails, CreateFails, Leave, Show, Kill, Befalls
<1>11. ASSUME NEW p \in Procs, Fill(p) PROVE OneName'
  BY <1>11, Writes DEF Fill
<1>12. ASSUME NEW p \in Procs, CreateKey(p) PROVE OneName'
  BY <1>12, Writes DEF CreateKey
<1>13. ASSUME NEW p \in Procs, FillKey(p) PROVE OneName'
  BY <1>13, Writes DEF FillKey
<1>14. CASE UNCHANGED vars
  <2>1. Same
    BY <1>14, NothingMoves DEF vars
  <2> QED
    BY <1>14, <2>1 DEF vars, Same
<1> QED
  BY <1>1, <1>2, <1>3, <1>4, <1>5, <1>6, <1>7, <1>8, <1>9, <1>10,
     <1>11, <1>12, <1>13, <1>14 DEF Next

\* A directory that is there stays.
LEMMA InPlaceStep == IInv /\ [Next]_vars => InPlace'
<1> SUFFICES ASSUME IInv, [Next]_vars PROVE InPlace'
  OBVIOUS
<1>0. TypeOK /\ OneName /\ InPlace
  BY DEF IInv
<1> USE <1>0 DEF TypeOK, InPlace, WritingSteps, Goto
<1>1. CASE DeleteKey
  BY <1>1, DeleteMoves DEF DeleteKey
<1>2. ASSUME NEW p \in Procs, Launch(p) \/ StatOld(p) \/ StatNew(p) \/ RenameFails(p) \/ OpenHome(p)
      PROVE  InPlace'
  <2>1. Same
    BY <1>2, NothingMoves DEF Launch, StatOld, StatNew, RenameFails, OpenHome
  <2> QED
    BY <1>2, <2>1 DEF Same, Launch, StatOld, StatNew, RenameFails, OpenHome
<1>3. ASSUME NEW p \in Procs, Rename(p) PROVE InPlace'
  BY <1>3, RenameMoves DEF Rename
<1>4. ASSUME NEW p \in Procs, MkHome(p) PROVE InPlace'
  BY <1>4, MkdirMoves DEF MkHome
<1>5. ASSUME NEW p \in Procs, InitHome(p) PROVE InPlace'
  BY <1>5, MkdirMoves DEF InitHome
<1>6. ASSUME NEW p \in Procs, ReadCert(p) PROVE InPlace'
  <2>1. Same /\ (Contents("cert") # None => Exists("Plop"))
    BY <1>6, NothingMoves DEF ReadCert, Contents
  <2> QED
    BY <1>6, <2>1 DEF Same, ReadCert
<1>7. ASSUME NEW p \in Procs, KeyMissing(p) PROVE InPlace'
  <2>1. Same
    BY <1>7, NothingMoves DEF KeyMissing
  <2> QED
    BY <1>7, <2>1 DEF Same, KeyMissing, Befalls, Others
<1>8. ASSUME NEW p \in Procs, ReadKey(p) PROVE InPlace'
  <2>1. Same
    BY <1>8, NothingMoves DEF ReadKey
  <2> QED
    BY <1>8, <2>1 DEF Same, ReadKey, Befalls, Others, Leave
<1>9. ASSUME NEW p \in Procs, Create(p) PROVE InPlace'
  BY <1>9, Writes DEF Create, Others
<1>10. ASSUME NEW p \in Procs, ReadFails(p) \/ CreateFails(p) \/ Show(p) \/ Kill(p)
      PROVE  InPlace'
  <2>1. Same
    BY <1>10, NothingMoves DEF ReadFails, CreateFails, Show, Kill
  <2> QED
    BY <1>10, <2>1 DEF Same, ReadFails, CreateFails, Leave, Show, Kill, Befalls
<1>11. ASSUME NEW p \in Procs, Fill(p) PROVE InPlace'
  BY <1>11, Writes DEF Fill
<1>12. ASSUME NEW p \in Procs, CreateKey(p) PROVE InPlace'
  BY <1>12, Writes DEF CreateKey
<1>13. ASSUME NEW p \in Procs, FillKey(p) PROVE InPlace'
  BY <1>13, Writes DEF FillKey
<1>14. CASE UNCHANGED vars
  <2>1. Same
    BY <1>14, NothingMoves DEF vars
  <2> QED
    BY <1>14, <2>1 DEF vars, Same
<1> QED
  BY <1>1, <1>2, <1>3, <1>4, <1>5, <1>6, <1>7, <1>8, <1>9, <1>10,
     <1>11, <1>12, <1>13, <1>14 DEF Next

\* Accidents are not forgotten.
LEMMA UpsetGrows == [Next]_vars => upset \subseteq upset'
  BY DEF Next, vars, DeleteKey, Launch, StatOld, StatNew, Rename, RenameFails, MkHome, InitHome,
         OpenHome, ReadCert, ReadFails, KeyMissing, ReadKey, Create, CreateFails, Fill, CreateKey, FillKey,
         Show, Kill, Befalls

\* The two files are those of the directory in use.
LEMMA BothFiles ==
    ASSUME TypeOK, Exists("Plop")
    PROVE  Current = [cert |-> Contents("cert"), key |-> Contents("key")]
<1>1. dirs[Home] \in Directory
  BY Places DEF TypeOK
<1> QED
  BY <1>1, DirectoryTypes DEF Current, Contents

-----------------------------------------------------------------------------
\* As long as there is no race, who generates a pair is alone.
LEMMA AloneStep == IInv /\ [Next]_vars /\ "race" \notin upset' => Alone'
<1> SUFFICES ASSUME IInv, [Next]_vars, "race" \notin upset' PROVE Alone'
  OBVIOUS
<1>0. TypeOK /\ OneName /\ InPlace /\ Alone
  <2>1. "race" \notin upset
    BY UpsetGrows
  <2> QED
    BY <2>1 DEF IInv
<1> USE <1>0 DEF TypeOK, Alone, InPlace, WritingSteps, Goto
<1>1. CASE DeleteKey
  BY <1>1, DeleteMoves DEF DeleteKey
<1>2. ASSUME NEW p \in Procs, Launch(p) \/ StatOld(p) \/ StatNew(p) \/ RenameFails(p) \/ OpenHome(p)
      PROVE  Alone'
  <2>1. Same
    BY <1>2, NothingMoves DEF Launch, StatOld, StatNew, RenameFails, OpenHome
  <2> QED
    BY <1>2, <2>1 DEF Same, Launch, StatOld, StatNew, RenameFails, OpenHome
<1>3. ASSUME NEW p \in Procs, Rename(p) PROVE Alone'
  <2>1. pc' = [pc EXCEPT ![p] = "home"] /\ UNCHANGED <<cmd, own>>
    BY <1>3 DEF Rename
  <2>2. ASSUME NEW q \in Procs, pc[q] \in {"key", "createKey", "fillKey", "show"}
        PROVE  Contents("cert")' = own[q]
    BY <1>3, <2>2, RenameMoves
  <2> QED
    BY <2>1, <2>2
<1>4. ASSUME NEW p \in Procs, MkHome(p) PROVE Alone'
  BY <1>4, MkdirMoves DEF MkHome
<1>5. ASSUME NEW p \in Procs, InitHome(p) PROVE Alone'
  BY <1>5, MkdirMoves DEF InitHome
<1>6. ASSUME NEW p \in Procs, ReadCert(p) PROVE Alone'
  <2>1. Same
    BY <1>6, NothingMoves DEF ReadCert
  <2> QED
    BY <1>6, <2>1 DEF Same, ReadCert, Befalls, Others
<1>7. ASSUME NEW p \in Procs, KeyMissing(p) PROVE Alone'
  <2>1. Same
    BY <1>7, NothingMoves DEF KeyMissing
  <2> QED
    BY <1>7, <2>1 DEF Same, KeyMissing, Befalls, Others
<1>8. ASSUME NEW p \in Procs, ReadKey(p) PROVE Alone'
  <2>1. Same
    BY <1>8, NothingMoves DEF ReadKey
  <2> QED
    BY <1>8, <2>1 DEF Same, ReadKey, Befalls, Others, Leave
<1>9. ASSUME NEW p \in Procs, Create(p) PROVE Alone'
  BY <1>9, Writes DEF Create, Others
<1>10. ASSUME NEW p \in Procs, ReadFails(p) \/ CreateFails(p) \/ Show(p) \/ Kill(p)
      PROVE  Alone'
  <2>1. Same
    BY <1>10, NothingMoves DEF ReadFails, CreateFails, Show, Kill
  <2> QED
    BY <1>10, <2>1 DEF Same, ReadFails, CreateFails, Leave, Show, Kill, Befalls
<1>11. ASSUME NEW p \in Procs, Fill(p) PROVE Alone'
  BY <1>11, Writes DEF Fill
<1>12. ASSUME NEW p \in Procs, CreateKey(p) PROVE Alone'
  BY <1>12, Writes DEF CreateKey
<1>13. ASSUME NEW p \in Procs, FillKey(p) PROVE Alone'
  BY <1>13, Writes DEF FillKey
<1>14. CASE UNCHANGED vars
  <2>1. Same
    BY <1>14, NothingMoves DEF vars
  <2> QED
    BY <1>14, <2>1 DEF vars, Same
<1> QED
  BY <1>1, <1>2, <1>3, <1>4, <1>5, <1>6, <1>7, <1>8, <1>9, <1>10,
     <1>11, <1>12, <1>13, <1>14 DEF Next

\* As long as there is no race and no write is cut short, files that nobody writes are whole.
LEMMA WholeStep == IInv /\ [Next]_vars /\ {"cut", "full", "race"} \cap upset' = {} => Whole'
<1> SUFFICES ASSUME IInv, [Next]_vars, {"cut", "full", "race"} \cap upset' = {} PROVE Whole'
  OBVIOUS
<1>0. TypeOK /\ OneName /\ InPlace /\ Alone /\ Whole
  <2>1. {"cut", "full", "race"} \cap upset = {}
    BY UpsetGrows
  <2> QED
    BY <2>1 DEF IInv
<1> USE <1>0 DEF TypeOK, Alone, Whole, Sound, InPlace, WritingSteps, Goto
<1>1. CASE DeleteKey
  BY <1>1, DeleteMoves DEF DeleteKey
<1>2. ASSUME NEW p \in Procs, Launch(p) \/ StatOld(p) \/ StatNew(p) \/ RenameFails(p) \/ OpenHome(p)
      PROVE  Whole'
  <2>1. Same
    BY <1>2, NothingMoves DEF Launch, StatOld, StatNew, RenameFails, OpenHome
  <2> QED
    BY <1>2, <2>1 DEF Same, Launch, StatOld, StatNew, RenameFails, OpenHome
<1>3. ASSUME NEW p \in Procs, Rename(p) PROVE Whole'
  <2>1. pc' = [pc EXCEPT ![p] = "home"] /\ pc[p] = "rename"
    BY <1>3 DEF Rename
  <2>2. (\A q \in Procs : pc'[q] \notin WritingSteps) => \A q \in Procs : pc[q] \notin WritingSteps
    BY <2>1
  <2>3. CASE Exists("Plop")
    BY <1>3, <2>2, <2>3, RenameMoves
  <2>4. CASE ~Exists("Plop")
    <3>1. Sound(dirs["plop"].cert, dirs["plop"].key)
      BY <1>3, <2>4, RenameMoves
    <3> QED
      BY <1>3, <2>4, <3>1, RenameMoves
  <2> QED
    BY <2>3, <2>4
<1>4. ASSUME NEW p \in Procs, MkHome(p) PROVE Whole'
  BY <1>4, MkdirMoves DEF MkHome
<1>5. ASSUME NEW p \in Procs, InitHome(p) PROVE Whole'
  BY <1>5, MkdirMoves DEF InitHome
<1>6. ASSUME NEW p \in Procs, ReadCert(p) PROVE Whole'
  <2>1. Same
    BY <1>6, NothingMoves DEF ReadCert
  <2> QED
    BY <1>6, <2>1 DEF Same, ReadCert, Befalls, Others
<1>7. ASSUME NEW p \in Procs, KeyMissing(p) PROVE Whole'
  <2>1. Same
    BY <1>7, NothingMoves DEF KeyMissing
  <2> QED
    BY <1>7, <2>1 DEF Same, KeyMissing, Befalls, Others
<1>8. ASSUME NEW p \in Procs, ReadKey(p) PROVE Whole'
  <2>1. Same
    BY <1>8, NothingMoves DEF ReadKey
  <2> QED
    BY <1>8, <2>1 DEF Same, ReadKey, Befalls, Others, Leave
<1>9. ASSUME NEW p \in Procs, Create(p) PROVE Whole'
  <2>1. Home' = Home /\ \A n \in Names \ {Home} : dirs'[n] = dirs[n]
    BY <1>9, Writes
  <2>2. pc'[p] = "fill"
    BY <1>9 DEF Create
  <2> QED
    BY <2>1, <2>2
<1>10. ASSUME NEW p \in Procs, ReadFails(p) \/ CreateFails(p) \/ Show(p) \/ Kill(p)
      PROVE  Whole'
  <2>1. Same
    BY <1>10, NothingMoves DEF ReadFails, CreateFails, Show, Kill
  <2> QED
    BY <1>10, <2>1 DEF Same, ReadFails, CreateFails, Leave, Show, Kill, Befalls
<1>11. ASSUME NEW p \in Procs, Fill(p) PROVE Whole'
  BY <1>11, Writes DEF Fill
<1>12. ASSUME NEW p \in Procs, CreateKey(p) PROVE Whole'
  BY <1>12, Writes DEF CreateKey
<1>13. ASSUME NEW p \in Procs, FillKey(p) PROVE Whole'
  <2>1. Home' = Home /\ \A n \in Names \ {Home} : dirs'[n] = dirs[n]
    BY <1>13, Writes
  <2>2. Contents("cert")' = own[p] /\ own[p] \in Ids
    BY <1>13, Writes DEF FillKey
  <2>3. Contents("key")' \in {None, own[p]}
    BY <1>13, Writes
  <2> QED
    BY <2>1, <2>2, <2>3
<1>14. CASE UNCHANGED vars
  <2>1. Same
    BY <1>14, NothingMoves DEF vars
  <2> QED
    BY <1>14, <2>1 DEF vars, Same
<1> QED
  BY <1>1, <1>2, <1>3, <1>4, <1>5, <1>6, <1>7, <1>8, <1>9, <1>10,
     <1>11, <1>12, <1>13, <1>14 DEF Next

\* With no accident but these three, nobody overwrites a pair whose ID has been shown.
LEMMA KnownStep == IInv /\ [Next]_vars /\ upset' \subseteq {"cut", "full", "unreadable"} => Known'
<1> SUFFICES ASSUME IInv, [Next]_vars, upset' \subseteq {"cut", "full", "unreadable"} PROVE Known'
  OBVIOUS
<1>0. TypeOK /\ OneName /\ InPlace /\ Alone /\ Known
  <2>1. upset \subseteq {"cut", "full", "unreadable"}
    BY UpsetGrows
  <2> QED
    BY <2>1 DEF IInv
<1> USE <1>0 DEF TypeOK, Alone, Known, InPlace, WritingSteps, Goto
<1>1. CASE DeleteKey
  BY <1>1, DeleteMoves DEF DeleteKey
<1>2. ASSUME NEW p \in Procs, Launch(p) \/ StatOld(p) \/ StatNew(p) \/ RenameFails(p) \/ OpenHome(p)
      PROVE  Known'
  <2>1. Same
    BY <1>2, NothingMoves DEF Launch, StatOld, StatNew, RenameFails, OpenHome
  <2> QED
    BY <1>2, <2>1 DEF Same, Launch, StatOld, StatNew, RenameFails, OpenHome
<1>3. ASSUME NEW p \in Procs, Rename(p) PROVE Known'
  BY <1>3, RenameMoves DEF Rename
<1>4. ASSUME NEW p \in Procs, MkHome(p) PROVE Known'
  <2>1. shown # {} => Current # None
    BY DirectoryTypes DEF Pair, File
  <2>2. (Exists("plop") => Exists("Plop")) /\ Exists("Plop")'
    BY <1>4, MkdirMoves DEF MkHome
  <2>3. \A id \in shown : Current' = Pair(id)
    BY <1>4, <2>1, <2>2, MkdirMoves DEF MkHome
  <2>4. Contents("cert")' = Contents("cert") /\ Contents("key")' = Contents("key")
    BY <1>4, MkdirMoves DEF MkHome
  <2> QED
    BY <1>4, <2>2, <2>3, <2>4 DEF MkHome
<1>5. ASSUME NEW p \in Procs, InitHome(p) PROVE Known'
  <2>1. shown # {} => Current # None
    BY DirectoryTypes DEF Pair, File
  <2>2. (Exists("plop") => Exists("Plop")) /\ Exists("Plop")'
    BY <1>5, MkdirMoves DEF InitHome
  <2>3. \A id \in shown : Current' = Pair(id)
    BY <1>5, <2>1, <2>2, MkdirMoves DEF InitHome
  <2>4. Contents("cert")' = Contents("cert") /\ Contents("key")' = Contents("key")
    BY <1>5, MkdirMoves DEF InitHome
  <2> QED
    BY <1>5, <2>2, <2>3, <2>4 DEF InitHome
<1>6. ASSUME NEW p \in Procs, ReadCert(p) PROVE Known'
  <2>1. Same
    BY <1>6, NothingMoves DEF ReadCert
  <2> QED
    BY <1>6, <2>1 DEF Same, ReadCert, Befalls, Others
<1>7. ASSUME NEW p \in Procs, KeyMissing(p) PROVE Known'
  <2>1. Same
    BY <1>7, NothingMoves DEF KeyMissing
  <2> QED
    BY <1>7, <2>1 DEF Same, KeyMissing, Befalls, Others
<1>8. ASSUME NEW p \in Procs, ReadKey(p) PROVE Known'
  <2>1. Same
    BY <1>8, NothingMoves DEF ReadKey
  <2> QED
    BY <1>8, <2>1 DEF Same, ReadKey, Befalls, Others, Leave
<1>9. ASSUME NEW p \in Procs, Create(p) PROVE Known'
  <2>1. Exists("Plop") /\ pc[p] = "create"
    BY <1>9 DEF Create
  <2>2. cmd[p] = "init" => shown = {}
    BY <1>9 DEF Create
  <2>3. cmd[p] # "init" => shown = {}
    BY <2>1, BothFiles, ValuesAssumption DEF Pair
  <2>4. pc' = [pc EXCEPT ![p] = "fill"] /\ UNCHANGED <<cmd, shown>>
    BY <1>9 DEF Create
  <2>5. \A q \in Procs \ {p} : pc[q] \notin {"key", "create", "show"} \cup WritingSteps
    BY <1>9 DEF Create, Others
  <2>6. Exists("Plop")'
    BY <1>9, Writes
  <2> QED
    BY <2>2, <2>3, <2>4, <2>5, <2>6
<1>10. ASSUME NEW p \in Procs, ReadFails(p) \/ CreateFails(p) \/ Kill(p)
      PROVE  Known'
  <2>1. Same
    BY <1>10, NothingMoves DEF ReadFails, CreateFails, Kill
  <2> QED
    BY <1>10, <2>1 DEF Same, ReadFails, CreateFails, Leave, Kill, Befalls
<1>11. ASSUME NEW p \in Procs, Fill(p) PROVE Known'
  BY <1>11, Writes DEF Fill
<1>12. ASSUME NEW p \in Procs, CreateKey(p) PROVE Known'
  <2>1. shown = {} /\ UNCHANGED <<cmd, shown, own>> /\ pc[p] = "createKey"
    BY <1>12 DEF CreateKey
  <2>2. pc' = [pc EXCEPT ![p] = "fillKey"]
    BY <1>12 DEF CreateKey
  <2>3. Contents("key")' # None /\ Exists("Plop")'
    BY <1>12, Writes, ValuesAssumption
  <2>4. \A q \in Procs \ {p} : pc[q] \notin {"key", "show"} \cup WritingSteps
    BY <2>1
  <2>5. \A q \in Procs : pc[q] = "create" => cmd[q] = "init"
    BY <2>1
  <2> QED
    BY <2>1, <2>2, <2>3, <2>4, <2>5
<1>13. ASSUME NEW p \in Procs, FillKey(p) PROVE Known'
  BY <1>13, Writes DEF FillKey
<1>14. ASSUME NEW p \in Procs, Show(p) PROVE Known'
  <2>1. Same
    BY <1>14, NothingMoves DEF Show
  <2>2. pc[p] = "show" /\ shown' = shown \cup {own[p]}
    BY <1>14 DEF Show
  <2>3. Current = Pair(own[p])
    BY <2>2, BothFiles DEF Pair
  <2>4. \A id \in shown' : Current' = Pair(id)
    BY <2>1, <2>2, <2>3 DEF Same
  <2>5. \A q \in Procs : pc[q] \notin WritingSteps
    BY <2>2
  <2> QED
    BY <1>14, <2>1, <2>4, <2>5 DEF Same, Show, Leave
<1>15. CASE UNCHANGED vars
  <2>1. Same
    BY <1>15, NothingMoves DEF vars
  <2> QED
    BY <1>15, <2>1 DEF vars, Same
<1> QED
  BY <1>1, <1>2, <1>3, <1>4, <1>5, <1>6, <1>7, <1>8, <1>9, <1>10,
     <1>11, <1>12, <1>13, <1>14, <1>15 DEF Next

\* Only who reads may refuse the files, and not if they can be read and are whole.
LEMMA RefusedStep == IInv /\ [Next]_vars => NeverRefused'
<1> SUFFICES ASSUME IInv, [Next]_vars, {"cut", "full", "unreadable", "race"} \cap upset' = {}
             PROVE  ~refused'
  BY DEF NeverRefused
<1>0. TypeOK /\ Alone /\ Whole /\ ~refused
  <2>1. {"cut", "full", "unreadable", "race"} \cap upset = {}
    BY UpsetGrows
  <2> QED
    BY <2>1 DEF IInv, NeverRefused
<1>1. ASSUME NEW p \in Procs, ReadKey(p) PROVE ~refused'
  <2>1. pc[p] = "key" /\ Contents("key") # None /\ Contents("cert") = own[p]
    BY <1>0, <1>1 DEF ReadKey, Alone
  <2>2. \A q \in Procs : pc[q] \notin WritingSteps
    BY <1>1, <2>1 DEF ReadKey, Befalls, Others, WritingSteps
  <2>3. Sound(Contents("cert"), Contents("key"))
    BY <1>0, <2>2 DEF Whole
  <2> QED
    BY <1>0, <1>1, <2>1, <2>3 DEF ReadKey, Sound
<1>2. ASSUME ~ \E p \in Procs : ReadKey(p) PROVE refused' = refused
  BY <1>2 DEF Next, vars, DeleteKey, Launch, StatOld, StatNew, Rename, RenameFails, MkHome,
              InitHome, OpenHome, ReadCert, ReadFails, KeyMissing, Create, CreateFails, Fill, CreateKey,
              FillKey, Show, Kill
<1> QED
  BY <1>0, <1>1, <1>2

-----------------------------------------------------------------------------
\* IInv is an inductive invariant, however many commands run at the same time.
THEOREM Invariance == Spec => []IInv
<1>1. Init => IInv
  <2> SUFFICES ASSUME Init PROVE IInv
    OBVIOUS
  <2>1. \A id \in Ids : Pair(id) \in Directory
    BY DirectoryTypes DEF Pair, File
  <2>2. TypeOK /\ OneName
    BY <2>1 DEF Init, TypeOK, OneName, Names, WritingSteps, File
  <2>3. \A n \in Names : dirs[n] # None => \E id \in Ids : dirs[n] = Pair(id) /\ shown = {id}
    BY DEF Init
  <2>4. ASSUME NEW id \in shown PROVE Current = Pair(id)
    <3>1. PICK n \in Names : /\ id \in Ids /\ dirs[n] = Pair(id)
                            /\ \A m \in Names \ {n} : dirs[m] = None
      BY <2>4 DEF Init
    <3>2. Pair(id) # None
      BY <2>1, <3>1, DirectoryTypes
    <3>3. CASE n = "Plop"
      BY <3>1, <3>2, <3>3 DEF Current, Exists, At, Home
    <3>4. CASE n = "plop"
      <4>1. dirs["plop"] = Pair(id) /\ dirs["Plop"] = None
        BY <3>1, <3>4 DEF Names
      <4> QED
        BY <3>2, <4>1 DEF Current, Exists, At, Home
    <3> QED
      BY <3>1, <3>3, <3>4 DEF Names
  <2>5. Whole
    <3>1. ASSUME NEW n \in Names, dirs[n] # None PROVE Sound(dirs[n].cert, dirs[n].key)
      <4>1. PICK id \in Ids : dirs[n] = Pair(id)
        BY <2>3, <3>1
      <4>2. dirs[n].cert = id /\ dirs[n].key = id
        BY <4>1 DEF Pair
      <4> QED
        BY <4>2 DEF Sound
    <3>2. Sound(Contents("cert"), Contents("key"))
      <4>1. CASE Exists("Plop")
        BY <3>1, <4>1, Places DEF Contents
      <4>2. CASE ~Exists("Plop")
        BY <4>2 DEF Contents, Sound
      <4> QED
        BY <4>1, <4>2
    <3> QED
      BY <3>1, <3>2 DEF Whole
  <2>6. ~refused /\ \A p \in Procs : pc[p] = "down"
    BY DEF Init
  <2>7. InPlace /\ Alone /\ NeverRefused
    BY <2>6 DEF InPlace, Alone, NeverRefused, WritingSteps
  <2>8. Known
    BY <2>4, <2>6 DEF Known, WritingSteps
  <2> QED
    BY <2>2, <2>5, <2>7, <2>8 DEF IInv
<1>2. IInv /\ [Next]_vars => IInv'
  BY TypeStep, OneNameStep, InPlaceStep, RefusedStep, AloneStep, WholeStep, KnownStep DEF IInv
<1> QED
  BY <1>1, <1>2, PTL DEF Spec

\* A device keeps the ID that has been shown, however commands meet, fail and are
\* killed, unless one of the other accidents costs it its pair.
THEOREM IdentityStays == Spec => []IdentityKept
<1>1. IInv => IdentityKept
  BY DEF IInv, Known, IdentityKept
<1> QED
  BY <1>1, Invariance, PTL

\* Files are refused only if they cannot be read, or after a kill or a failing call in
\* the middle of their writing, or a race.
THEOREM RefusedOnlyBroken == Spec => []NeverRefused
<1>1. IInv => NeverRefused
  BY DEF IInv
<1> QED
  BY <1>1, Invariance, PTL
=============================================================================

------------------------- MODULE StatusViews_proofs -------------------------
(***************************************************************************)
(* Proofs about the two views of a status: status.json (StatusHeartbeat),  *)
(* for every MaxAge and all errors and temporary names, and the tray       *)
(* (StatusDisplay), for every set of peers and every number of menu items  *)
(* and of changes.                                                         *)
(***************************************************************************)
EXTENDS StatusHeartbeat, StatusDisplay, FiniteSetTheorems, SequenceTheorems,
        WellFoundedInduction, TLAPS

-----------------------------------------------------------------------------
(* status.json (StatusHeartbeat).                                          *)

\* Ages grow up to one past MaxAge, and in step.
LEMMA OlderType == \A n \in Ages : Older(n) \in Ages /\ Older(n) >= n
  BY ConstantsAssumption DEF Older, Ages

\* What is older stays older.
LEMMA OlderMonotone == \A m, n \in Ages : m >= n => Older(m) >= Older(n)
  BY ConstantsAssumption DEF Older, Ages

\* A file grows older with everything else and stays what it is.
LEMMA AgedFile ==
  ASSUME NEW f \in Heartbeat \cup {None}
  PROVE  /\ Aged(f) \in Heartbeat \cup {None}
         /\ Aged(f) = None <=> f = None
         /\ f # None => Aged(f).age = Older(f.age) /\ Aged(f).whole = f.whole
<1>1. CASE f = None
  BY <1>1 DEF Aged
<1>2. CASE f # None
  <2>1. f \in Heartbeat /\ f.age \in Ages /\ f.whole \in BOOLEAN
    BY <1>2 DEF Heartbeat
  <2>2. Aged(f) = [age |-> Older(f.age), whole |-> f.whole]
    BY <1>2 DEF Aged
  <2>3. Aged(f) \in Heartbeat
    BY <2>1, <2>2, OlderType DEF Heartbeat
  <2> QED
    BY <1>2, <2>1, <2>2, <2>3, ConstantsAssumption
<1> QED
  BY <1>1, <1>2

-----------------------------------------------------------------------------
LEMMA InitIInv == Init => IInv
<1> SUFFICES ASSUME Init PROVE IInv
  OBVIOUS
<1>1. MaxAge + 1 \in Ages /\ MaxAge + 1 >= MaxAge + 1
  BY ConstantsAssumption DEF Ages
<1>2. TypeOK
  BY <1>1 DEF Init, TypeOK
<1>3. NeverHalf /\ Ordered /\ Through /\ StoppedMeansGone
  BY <1>1 DEF Init, NeverHalf, Ordered, Through, StoppedMeansGone
<1> QED
  BY <1>2, <1>3 DEF IInv

\* The process starts, stops and is killed: what is on disk stays whole.
LEMMA NextLife ==
  IInv /\ (Launch \/ Refresh \/ Stop \/ RemoveFile \/ Exit \/ Crash) => IInv'
<1> SUFFICES ASSUME IInv PROVE Launch \/ Refresh \/ Stop \/ RemoveFile \/ Exit \/ Crash => IInv'
  OBVIOUS
<1> USE ConstantsAssumption
    DEF IInv, TypeOK, NeverHalf, Ordered, Through, StoppedMeansGone,
        lifeVars, diskVars, logVars
<1>0. 0 \in Ages /\ \A n \in Ages : n >= 0 /\ n \in Nat
  BY DEF Ages
<1>1. CASE Launch
  <2>1. [age |-> 0, whole |-> FALSE] \in Heartbeat
    BY <1>0 DEF Heartbeat
  <2>2. TypeOK'
    BY <1>0, <1>1, <2>1 DEF Launch
  <2>3. Ordered'
    BY <1>0, <1>1, <2>1 DEF Launch, Heartbeat
  <2> QED
    BY <1>1, <2>2, <2>3 DEF Launch
<1>2. CASE Refresh
  <2>1. daemon # "down" /\ snapAge' = 0 /\ UNCHANGED <<lifeVars, pc, diskVars, logVars>>
    BY <1>2 DEF Refresh
  <2>2. TypeOK'
    BY <1>0, <2>1
  <2>3. Ordered'
    BY <1>0, <2>1 DEF Heartbeat
  <2> QED
    BY <2>1, <2>2, <2>3
<1>3. CASE Stop
  BY <1>3 DEF Stop
<1>4. CASE RemoveFile
  BY <1>4 DEF RemoveFile
<1>5. CASE Exit
  BY <1>5 DEF Exit
<1>6. CASE Crash
  BY <1>6 DEF Crash
<1> QED
  BY <1>1, <1>2, <1>3, <1>4, <1>5, <1>6

\* Ages keep their order as time passes.
LEMMA NextTime == IInv /\ TimePasses => IInv'
<1> SUFFICES ASSUME IInv, TimePasses PROVE IInv'
  OBVIOUS
<1>1. /\ file \in Heartbeat \cup {None} /\ temp \in Heartbeat \cup {None}
      /\ file' = Aged(file) /\ temp' = Aged(temp)
  BY DEF IInv, TypeOK, TimePasses
<1>2. /\ snapAge \in Ages /\ downAge \in Ages /\ 0 \in Ages
      /\ snapAge' = Older(snapAge) /\ downAge' \in {Older(downAge), 0}
  BY ConstantsAssumption DEF IInv, TypeOK, TimePasses, Ages
<1>3. /\ file' \in Heartbeat \cup {None} /\ temp' \in Heartbeat \cup {None}
      /\ snapAge' \in Ages /\ downAge' \in Ages
  BY <1>1, <1>2, AgedFile, OlderType
<1>4. TypeOK'
  BY <1>3 DEF IInv, TypeOK, TimePasses, diskVars, lifeVars, logVars
<1>5. /\ file' = None <=> file = None
      /\ temp' = None <=> temp = None
      /\ file # None => file'.whole = file.whole /\ file'.age = Older(file.age)
      /\ temp # None => temp'.whole = temp.whole /\ temp'.age = Older(temp.age)
  BY <1>1, AgedFile
<1>6. Ordered'
  <2>1. file' # None => file'.age >= snapAge'
    BY <1>1, <1>2, <1>5, OlderMonotone DEF IInv, Ordered, Heartbeat
  <2>2. temp' # None => temp'.age >= snapAge'
    BY <1>1, <1>2, <1>5, OlderMonotone DEF IInv, Ordered, Heartbeat
  <2>3. snapAge' >= downAge'
    <3>1. Older(snapAge) >= Older(downAge)
      BY <1>2, OlderMonotone DEF IInv, Ordered
    <3>2. Older(snapAge) >= 0
      BY <1>2, <1>3 DEF Ages
    <3> QED
      BY <1>2, <3>1, <3>2
  <2> QED
    BY <1>5, <2>1, <2>2, <2>3 DEF IInv, Ordered, TimePasses
<1> QED
  BY <1>4, <1>5, <1>6
     DEF IInv, NeverHalf, Through, StoppedMeansGone, TimePasses

\* A call fails with one of the errors it may return.
LEMMA ErrorIsText == \A call : Errors(call) \subseteq Text
  BY DEF Errors

\* A failing call leaves status.json alone, whether its temporary file can be taken
\* away or not.
LEMMA NextFails ==
  ASSUME IInv, NEW e \in Text, WriteFails(e), pc \in {"create", "fill", "rename"}
  PROVE  IInv'
<1> USE DEF WriteFails, Cleanup, IInv, TypeOK, lifeVars, Log
<1>1. TypeOK'
  BY DEF NeverHalf
<1>2. NeverHalf' /\ Ordered' /\ Through' /\ StoppedMeansGone'
  BY DEF NeverHalf, Ordered, Through, StoppedMeansGone
<1> QED
  BY <1>1, <1>2

\* The writer's steps.
LEMMA NextWriter == IInv /\ (SelectStop \/ SelectTick \/ Write) => IInv'
<1> SUFFICES ASSUME IInv PROVE SelectStop \/ SelectTick \/ Write => IInv'
  OBVIOUS
<1> USE ConstantsAssumption
    DEF IInv, TypeOK, NeverHalf, Ordered, Through, StoppedMeansGone,
        lifeVars, diskVars, logVars
<1>1. CASE SelectStop
  BY <1>1 DEF SelectStop
<1>2. CASE SelectTick
  <2>1. [age |-> snapAge, whole |-> FALSE] \in Heartbeat
    BY DEF Heartbeat
  <2>2. snapAge >= snapAge
    BY DEF Ages
  <2> QED
    BY <1>2, <2>1, <2>2 DEF SelectTick
<1>3. CASE Create
  <2>1. CASE \E e \in Text : WriteFails(e)
    BY <1>3, <2>1, NextFails DEF Create
  <2>2. CASE pc' = "fill" /\ UNCHANGED <<lifeVars, snapAge, diskVars, logVars>>
    BY <1>3, <2>2 DEF Create
  <2> QED
    BY <1>3, <2>1, <2>2, ErrorIsText DEF Create
<1>4. CASE Fill
  <2>1. CASE \E e \in Text : WriteFails(e)
    BY <1>4, <2>1, NextFails DEF Fill
  <2>2. CASE /\ temp' = [age |-> temp.age, whole |-> TRUE] /\ pc' = "rename"
             /\ UNCHANGED <<lifeVars, snapAge, file, litter, unremoved, logVars>>
    <3>1. temp \in Heartbeat
      BY <1>4 DEF Fill
    <3>2. temp' \in Heartbeat /\ temp'.age = temp.age /\ temp'.whole
      BY <2>2, <3>1 DEF Heartbeat
    <3> QED
      BY <1>4, <2>2, <3>1, <3>2 DEF Fill
  <2> QED
    BY <1>4, <2>1, <2>2, ErrorIsText DEF Fill
<1>5. CASE Rename
  <2>1. CASE \E e \in Text : WriteFails(e)
    BY <1>5, <2>1, NextFails DEF Rename
  <2>2. ASSUME ~ \E e \in Text : WriteFails(e) PROVE IInv'
    <3>1. /\ file' = temp /\ temp' = None /\ pc' = "wait"
          /\ failing' = None
          /\ UNCHANGED <<lifeVars, snapAge, litter, unremoved>>
      BY <1>5, <2>2, ErrorIsText DEF Rename
    <3>2. lastLog' \in Text \cup {None, Recovered} /\ repeated' \in BOOLEAN
      BY <1>5, <2>2, ErrorIsText DEF Rename, Log
    <3> QED
      BY <1>5, <3>1, <3>2 DEF Rename
  <2> QED
    BY <2>1, <2>2
<1> QED
  BY <1>1, <1>2, <1>3, <1>4, <1>5 DEF Write

\* IInv is an inductive invariant of the heartbeat.
THEOREM Invariance == Spec => []IInv
<1>1. IInv /\ UNCHANGED vars => IInv'
  BY DEF IInv, TypeOK, NeverHalf, Ordered, Through, StoppedMeansGone,
         vars, lifeVars, diskVars, logVars
<1>2. IInv /\ [Next]_vars => IInv'
  BY <1>1, NextLife, NextTime, NextWriter DEF Next
<1> QED
  BY <1>2, InitIInv, PTL DEF Spec

\* `plop status` never reads half a snapshot.
THEOREM ReadsWhole == Spec => []NeverHalf
  BY Invariance, PTL DEF IInv

\* No write puts status.json back after Stop has removed it.
THEOREM GoneAfterStop == Spec => []StoppedMeansGone
  BY Invariance, PTL DEF IInv

\* What `plop status` believes was computed recently, by a daemon that was up
\* recently.
THEOREM RecentlyComputed == Spec => []BelievedIsRecent
<1>1. IInv => BelievedIsRecent
  BY ConstantsAssumption
     DEF IInv, TypeOK, Ordered, BelievedIsRecent, readInternalStatus, Heartbeat, Ages
<1> QED
  BY <1>1, Invariance, PTL

\* No temporary file stays behind unless a process was killed or a removal failed.
THEOREM WritesTidyUp == Spec => []NoLitter
<1>1. Init => NoLitter
  BY DEF Init, NoLitter
<1>2. NoLitter /\ [Next]_vars => NoLitter'
  BY DEF NoLitter, Next, Launch, Refresh, Stop, RemoveFile, Exit, Crash, TimePasses, SelectStop,
         SelectTick, Write, Create, Fill, Rename, WriteFails, Cleanup, vars, lifeVars, diskVars, logVars
<1> QED
  BY <1>1, <1>2, PTL DEF Spec

\* The line that tells of the recovery is not an error.
LEMMA RecoveredIsNoError == Recovered \notin Text
<1>1. Recovered.call = "recovered"
  BY DEF Recovered
<1>2. \A e \in Text : e.call \in Calls
  BY DEF Text
<1> QED
  BY <1>1, <1>2 DEF Calls

\* A failing call logs an error only if it is not the last line.
LEMMA FailureIsNews ==
  ASSUME IInv, LogSaysOnce, NEW e \in Text, WriteFails(e), pc \in {"create", "fill", "rename"}
  PROVE  LogSaysOnce'
<1>1. daemon # "down"
  BY DEF IInv, Through
<1>2. failing = None => lastLog # e
  BY <1>1, ConstantsAssumption, RecoveredIsNoError DEF LogSaysOnce
<1>3. failing # None /\ failing # e => lastLog # e
  BY <1>1 DEF LogSaysOnce
<1>4. e # None
  BY ConstantsAssumption
<1>5. CASE failing = e
  BY <1>1, <1>4, <1>5 DEF WriteFails, LogSaysOnce, lifeVars
<1>6. CASE failing # e
  BY <1>1, <1>2, <1>3, <1>4, <1>6 DEF WriteFails, Log, LogSaysOnce, lifeVars
<1> QED
  BY <1>5, <1>6

\* The log tells how the last write ended, and no text is logged twice in a row,
\* however failures and successes alternate.
THEOREM LastLineTells == Spec => []LogSaysOnce
<1>1. Init => LogSaysOnce
  BY DEF Init, LogSaysOnce
<1>2. ASSUME IInv, LogSaysOnce, [Next]_vars PROVE LogSaysOnce'
  <2>1. CASE Launch \/ Refresh \/ Stop \/ RemoveFile \/ Exit \/ Crash \/ TimePasses
             \/ SelectStop \/ SelectTick \/ UNCHANGED vars
    BY <1>2, <2>1 DEF LogSaysOnce, Launch, Refresh, Stop, RemoveFile, Exit, Crash, TimePasses,
                      SelectStop, SelectTick, vars, lifeVars, logVars
  <2>2. CASE Create
    BY <1>2, <2>2, FailureIsNews, ErrorIsText DEF Create, LogSaysOnce, lifeVars, logVars
  <2>3. CASE Fill
    BY <1>2, <2>3, FailureIsNews, ErrorIsText DEF Fill, LogSaysOnce, lifeVars, logVars
  <2>4. CASE Rename
    <3>1. CASE \E e \in Text : WriteFails(e)
      BY <1>2, <2>4, <3>1, FailureIsNews DEF Rename
    <3>2. CASE failing = None /\ UNCHANGED <<lifeVars, logVars>>
      BY <1>2, <3>2 DEF LogSaysOnce, lifeVars, logVars
    <3>3. CASE failing # None /\ failing' = None /\ Log(Recovered) /\ UNCHANGED lifeVars
      <4>1. daemon # "down" /\ lastLog = failing /\ failing \in Text
        BY <1>2, <2>4, <3>3 DEF Rename, IInv, Through, TypeOK, LogSaysOnce
      <4> QED
        BY <1>2, <3>3, <4>1, RecoveredIsNoError DEF Log, LogSaysOnce, lifeVars
    <3> QED
      BY <1>2, <2>4, <3>1, <3>2, <3>3, ErrorIsText DEF Rename, logVars
  <2> QED
    BY <1>2, <2>1, <2>2, <2>3, <2>4 DEF Next, Write
<1> QED
  BY <1>1, <1>2, Invariance, PTL DEF Spec

-----------------------------------------------------------------------------
(* The tray (StatusDisplay): the rows of a snapshot.                       *)

\* A set of positions that is not empty has a last one.
LEMMA LastPosition ==
    ASSUME NEW n \in Nat, NEW S, S \subseteq 1..n, S # {}
    PROVE  Max(S) \in S /\ \A i \in S : i <= Max(S)
<1> DEFINE Less == OpToRel(<, Nat)
           Above == {m \in Nat : \A i \in S : i <= m}
<1>1. IsWellFoundedOn(Less, Nat)
  BY NatLessThanWellFounded
<1>2. n \in Above /\ Above \subseteq Nat
  OBVIOUS
<1>3. PICK m \in Above : \A k \in Above : <<k, m>> \notin Less
  <2> HIDE DEF Less, Above
  <2> QED
    BY <1>1, <1>2, WFMin
<1>4. \A k \in Above : ~(k < m)
  BY <1>3 DEF OpToRel
<1>5. ASSUME m \notin S PROVE FALSE
  <2>1. PICK i \in S : i \in 1..n
    OBVIOUS
  <2>2. m - 1 \in Nat
    BY <2>1
  <2>3. \A j \in S : j <= m - 1
    BY <1>5
  <2>4. m - 1 \in Above /\ m - 1 < m
    BY <2>2, <2>3
  <2> QED
    BY <1>4, <2>4
<1>6. \E x \in S : \A y \in S : x >= y
  BY <1>5
<1> QED
  BY <1>6 DEF Max

\* The rows are in the order of the peers, no peer twice.
InOrder(peers) == \A i, j \in 1..Len(peers) : i < j => peers[i].peer < peers[j].peer

PeersOf(peers) == {peers[i].peer : i \in 1..Len(peers)}

\* A row is inserted where it belongs.
LEMMA InsertedIs ==
    ASSUME NEW peers \in Seq(Row), NEW row \in Row, InOrder(peers),
           row.peer \notin PeersOf(peers)
    PROVE  /\ Inserted(peers, row) \in Seq(Row)
           /\ Len(Inserted(peers, row)) = Len(peers) + 1
           /\ InOrder(Inserted(peers, row))
           /\ PeersOf(Inserted(peers, row)) = PeersOf(peers) \cup {row.peer}
           /\ \A i \in 1..(Len(peers) + 1) :
                 \/ Inserted(peers, row)[i] = row
                 \/ \E j \in 1..Len(peers) : Inserted(peers, row)[i] = peers[j]
<1> DEFINE n == Len(peers)
           I == {i \in 1..n : peers[i].peer < row.peer}
           k == SelectLastInSeq(peers, LAMBDA r : r.peer < row.peer)
           new == Inserted(peers, row)
           a == SubSeq(peers, 1, k)
           b == SubSeq(peers, k + 1, n)
<1>1. n \in Nat /\ \A i \in 1..n : peers[i] \in Row
  BY LenProperties, ElementOfSeq
<1>2. row.peer \in Nat /\ \A i \in 1..n : peers[i].peer \in Nat
  BY <1>1, DisplayAssumption DEF Row
<1>3. k = IF I # {} THEN Max(I) ELSE 0
  BY DEF SelectLastInSeq
<1> HIDE DEF k
<1>4. k \in 0..n /\ (k # 0 => peers[k].peer < row.peer)
      /\ \A i \in 1..n : peers[i].peer < row.peer => i <= k
  <2>1. CASE I = {}
    BY <1>1, <1>3, <2>1
  <2>2. CASE I # {}
    <3>1. I \subseteq 1..n
      OBVIOUS
    <3>2. Max(I) \in I /\ \A i \in I : i <= Max(I)
      <4> HIDE DEF I
      <4> QED
        BY <1>1, <2>2, <3>1, LastPosition
    <3> QED
      BY <1>1, <1>3, <2>2, <3>2
  <2> QED
    BY <2>1, <2>2
<1>5. \A i \in 1..n : i <= k => peers[i].peer < row.peer
  <2> SUFFICES ASSUME NEW i \in 1..n, i <= k PROVE peers[i].peer < row.peer
    OBVIOUS
  <2>1. k \in 1..n /\ peers[k].peer < row.peer
    BY <1>1, <1>4
  <2>2. i = k \/ peers[i].peer < peers[k].peer
    BY <1>1, <2>1 DEF InOrder
  <2> QED
    BY <1>2, <2>1, <2>2
<1>6. \A i \in 1..n : i > k => row.peer < peers[i].peer
  <2> SUFFICES ASSUME NEW i \in 1..n, i > k PROVE row.peer < peers[i].peer
    OBVIOUS
  <2>1. ~(peers[i].peer < row.peer)
    BY <1>1, <1>4
  <2>2. peers[i].peer # row.peer
    BY DEF PeersOf
  <2> QED
    BY <1>2, <2>1, <2>2
<1>7. a \in Seq(Row) /\ Len(a) = k /\ \A i \in 1..k : a[i] = peers[i]
  <2>1. k \in Nat /\ \A i \in 1..k : peers[i] \in Row
    BY <1>1, <1>4
  <2>2. /\ SubSeq(peers, 1, k) \in Seq(Row)
        /\ Len(SubSeq(peers, 1, k)) = k
        /\ \A i \in 1..k : SubSeq(peers, 1, k)[i] = peers[i]
    BY <2>1, SubSeqProperties
  <2> QED
    BY <2>2
<1>8. b \in Seq(Row) /\ Len(b) = n - k /\ \A i \in 1..(n - k) : b[i] = peers[k + i]
  <2> DEFINE m == k + 1
  <2>1. m \in 1..(n + 1) /\ m \in Int /\ n \in Int /\ \A i \in m..n : peers[i] \in Row
    BY <1>1, <1>4
  <2> HIDE DEF m, n
  <2>2. /\ SubSeq(peers, m, n) \in Seq(Row)
        /\ Len(SubSeq(peers, m, n)) = IF m <= n THEN n - m + 1 ELSE 0
        /\ \A i \in 1..(n - m + 1) : SubSeq(peers, m, n)[i] = peers[m + i - 1]
    BY <2>1, SubSeqProperties
  <2>3. Len(SubSeq(peers, m, n)) = n - m + 1
    BY <2>1, <2>2
  <2>4. n - m + 1 = n - k /\ \A i \in 1..(n - k) : m + i - 1 = k + i
    BY <1>1, <1>4, <2>1 DEF m
  <2> QED
    BY <2>2, <2>3, <2>4 DEF m, n
<1>9. new = a \o <<row>> \o b
  <2>1. new = SubSeq(peers, 1, (k + 1) - 1) \o <<row>> \o SubSeq(peers, k + 1, n)
    BY DEF Inserted, InsertAt, k
  <2>2. (k + 1) - 1 = k
    BY <1>1, <1>4
  <2> QED
    BY <2>1, <2>2
<1> HIDE DEF a, b, new
<1>10. /\ a \o <<row>> \in Seq(Row) /\ Len(a \o <<row>>) = k + 1
       /\ \A i \in 1..(k + 1) : (a \o <<row>>)[i] = IF i <= k THEN peers[i] ELSE row
  <2>1. <<row>> \in Seq(Row) /\ Len(<<row>>) = 1 /\ <<row>>[1] = row
    OBVIOUS
  <2> DEFINE one == <<row>>
  <2> HIDE DEF one
  <2>2. /\ a \o one \in Seq(Row)
        /\ Len(a \o one) = Len(a) + Len(one)
        /\ \A i \in 1..(Len(a) + Len(one)) : (a \o one)[i] =
              IF i <= Len(a) THEN a[i] ELSE one[i - Len(a)]
    BY <1>7, <2>1, ConcatProperties DEF one
  <2>3. \A i \in 1..(k + 1) : i <= k \/ i - k = 1
    BY <1>4
  <2> QED
    BY <1>4, <1>7, <2>1, <2>2, <2>3 DEF one
<1>11. /\ new \in Seq(Row) /\ Len(new) = n + 1
       /\ \A i \in 1..(n + 1) : new[i] = IF i <= k THEN peers[i]
                                      ELSE IF i = k + 1 THEN row ELSE peers[i - 1]
  <2> DEFINE head == a \o <<row>>
  <2>0. new = head \o b
    BY <1>9
  <2>1. head \in Seq(Row) /\ Len(head) = k + 1
        /\ \A i \in 1..(k + 1) : head[i] = IF i <= k THEN peers[i] ELSE row
    BY <1>10
  <2> HIDE DEF head
  <2>2. /\ head \o b \in Seq(Row)
        /\ Len(head \o b) = Len(head) + Len(b)
        /\ \A i \in 1..(Len(head) + Len(b)) : (head \o b)[i] =
              IF i <= Len(head) THEN head[i] ELSE b[i - Len(head)]
    BY <1>8, <2>1, ConcatProperties
  <2>3. Len(head) + Len(b) = n + 1
    BY <1>1, <1>4, <1>8, <2>1
  <2>4. ASSUME NEW i \in 1..(n + 1)
        PROVE  new[i] = IF i <= k THEN peers[i] ELSE IF i = k + 1 THEN row ELSE peers[i - 1]
    <3>1. new[i] = IF i <= k + 1 THEN head[i] ELSE b[i - (k + 1)]
      BY <2>0, <2>1, <2>2, <2>3
    <3>2. CASE i <= k + 1
      <4>1. i \in 1..(k + 1)
        BY <1>4, <3>2
      <4> QED
        BY <1>4, <2>1, <3>1, <4>1
    <3>3. CASE i > k + 1
      <4>1. i - (k + 1) \in 1..(n - k) /\ k + (i - (k + 1)) = i - 1 /\ ~(i <= k) /\ i # k + 1
            /\ ~(i <= k + 1)
        BY <1>1, <1>4, <3>3
      <4>2. new[i] = peers[i - 1]
        BY <1>8, <3>1, <4>1
      <4> QED
        BY <3>3, <4>1, <4>2
    <3> QED
      BY <1>4, <3>2, <3>3
  <2> QED
    BY <2>0, <2>2, <2>3, <2>4
<1>12. /\ \A i \in 1..n : i <= k => new[i] = peers[i]
       /\ k + 1 \in 1..(n + 1) /\ new[k + 1] = row
       /\ \A i \in 1..n : i > k => i + 1 \in 1..(n + 1) /\ new[i + 1] = peers[i]
  <2>1. \A i \in 1..n : i <= k => new[i] = peers[i]
    BY <1>1, <1>11
  <2>2. k + 1 \in 1..(n + 1) /\ new[k + 1] = row
    BY <1>1, <1>4, <1>11
  <2>3. ASSUME NEW i \in 1..n, i > k PROVE i + 1 \in 1..(n + 1) /\ new[i + 1] = peers[i]
    <3>1. i + 1 \in 1..(n + 1) /\ ~(i + 1 <= k) /\ i + 1 # k + 1 /\ (i + 1) - 1 = i
      BY <1>1, <1>4, <2>3
    <3> QED
      BY <1>11, <3>1
  <2> QED
    BY <2>1, <2>2, <2>3
<1> DEFINE Origin(i) == \/ i \in 1..n /\ i <= k
                        \/ i = k + 1
                        \/ \E j \in 1..n : j > k /\ i = j + 1
<1>13. \A i \in 1..(n + 1) : Origin(i)
  <2> SUFFICES ASSUME NEW i \in 1..(n + 1), i > k + 1
               PROVE  \E j \in 1..n : j > k /\ i = j + 1
    BY <1>1, <1>4
  <2>1. i - 1 \in 1..n /\ i - 1 > k /\ i = (i - 1) + 1
    BY <1>1, <1>4
  <2> QED
    BY <2>1
<1>14. InOrder(new)
  <2> SUFFICES ASSUME NEW i \in 1..(n + 1), NEW j \in 1..(n + 1), i < j
               PROVE  new[i].peer < new[j].peer
    BY <1>11 DEF InOrder
  <2>0. \A x, y \in 1..n : x < y => peers[x].peer < peers[y].peer
    BY DEF InOrder
  <2>1. CASE j \in 1..n /\ j <= k
    <3>1. i <= k /\ i \in 1..n
      BY <1>1, <1>4, <2>1
    <3> QED
      BY <1>12, <2>0, <2>1, <3>1
  <2>2. CASE j = k + 1
    <3>1. i <= k /\ i \in 1..n
      BY <1>1, <1>4, <2>2
    <3> QED
      BY <1>5, <1>12, <2>2, <3>1
  <2>3. ASSUME NEW y \in 1..n, y > k, j = y + 1 PROVE new[i].peer < new[j].peer
    <3>1. new[j] = peers[y]
      BY <1>12, <2>3
    <3>2. CASE i \in 1..n /\ i <= k
      <4>1. new[i] = peers[i] /\ i < y
        BY <1>4, <1>12, <2>3, <3>2
      <4> QED
        BY <2>0, <3>1, <3>2, <4>1
    <3>3. CASE i = k + 1
      BY <1>6, <1>12, <2>3, <3>1, <3>3
    <3>4. ASSUME NEW x \in 1..n, x > k, i = x + 1 PROVE new[i].peer < new[j].peer
      <4>1. new[i] = peers[x] /\ x < y
        BY <1>12, <2>3, <3>4
      <4> QED
        BY <2>0, <3>1, <4>1
    <3> QED
      BY <1>13, <3>2, <3>3, <3>4
  <2> QED
    BY <1>13, <2>1, <2>2, <2>3
<1>15. \A i \in 1..(n + 1) : new[i] = row \/ \E j \in 1..n : new[i] = peers[j]
  BY <1>12, <1>13
<1>16. PeersOf(new) = PeersOf(peers) \cup {row.peer}
  <2>1. PeersOf(new) = {new[i].peer : i \in 1..(n + 1)} /\ PeersOf(peers) = {peers[i].peer : i \in 1..n}
    BY <1>11 DEF PeersOf
  <2>2. \A j \in 1..n : \E i \in 1..(n + 1) : new[i] = peers[j]
    <3> SUFFICES ASSUME NEW j \in 1..n PROVE \E i \in 1..(n + 1) : new[i] = peers[j]
      OBVIOUS
    <3>1. CASE j <= k
      BY <1>1, <1>12, <3>1
    <3>2. CASE j > k
      BY <1>12, <3>2
    <3> QED
      BY <1>4, <3>1, <3>2
  <2>3. ASSUME NEW i \in 1..(n + 1) PROVE new[i].peer \in PeersOf(peers) \cup {row.peer}
    BY <1>15, <2>1
  <2>4. ASSUME NEW x \in PeersOf(peers) PROVE x \in PeersOf(new)
    <3>1. PICK j \in 1..n : x = peers[j].peer
      BY <2>1
    <3> QED
      BY <2>1, <2>2, <3>1
  <2>5. row.peer \in PeersOf(new)
    BY <1>12, <2>1
  <2> QED
    BY <2>1, <2>3, <2>4, <2>5
<1> QED
  BY <1>11, <1>14, <1>15, <1>16 DEF new

\* Rows in their order: the i-th row is that of the i-th device.
LEMMA RanksAre ==
    ASSUME NEW peers \in Seq(Row), InOrder(peers), PeersOf(peers) = devices
    PROVE  /\ Cardinality(devices) = Len(peers)
           /\ \A i \in 1..Len(peers) : Ranked(i) = peers[i].peer
<1> DEFINE n == Len(peers)
           First(m) == {peers[j].peer : j \in 1..m}
           UpTo(p) == {q \in devices : q <= p}
<1>1. n \in Nat /\ \A i \in 1..n : peers[i] \in Row
  BY LenProperties, ElementOfSeq
<1>2. \A i \in 1..n : peers[i].peer \in Nat
  BY <1>1, DisplayAssumption DEF Row
<1>3. \A i, j \in 1..n : i < j => peers[i].peer < peers[j].peer
  BY DEF InOrder
<1>4. ASSUME NEW m \in 0..n PROVE Cardinality(First(m)) = m
  <2> DEFINE g == [j \in 1..m |-> peers[j].peer]
  <2>1. m \in Nat /\ \A i, j \in 1..m : i # j => peers[i].peer # peers[j].peer
    BY <1>1, <1>2, <1>3
  <2>2. g \in Surjection(1..m, First(m))
    BY DEF Surjection
  <2>3. g \in Injection(1..m, First(m))
    BY <2>1 DEF Injection, IsInjective
  <2>4. IsFiniteSet(1..m) /\ Cardinality(1..m) = m
    BY <2>1, FS_Interval
  <2> HIDE DEF g, First
  <2> QED
    BY <2>2, <2>3, <2>4, FS_Surjection
<1>5. First(n) = devices
  BY DEF PeersOf
<1>6. ASSUME NEW i \in 1..n PROVE UpTo(peers[i].peer) = First(i)
  <2>1. ASSUME NEW j \in 1..n PROVE peers[j].peer <= peers[i].peer <=> j <= i
    <3>1. CASE j < i
      BY <1>2, <1>3, <3>1
    <3>2. CASE j = i
      BY <1>2, <3>2
    <3>3. CASE j > i
      BY <1>2, <1>3, <3>3
    <3> QED
      BY <1>1, <3>1, <3>2, <3>3
  <2>2. \A j \in 1..i : j \in 1..n /\ j <= i
    BY <1>1
  <2>3. \A j \in 1..n : j <= i => j \in 1..i
    BY <1>1
  <2> QED
    BY <1>5, <2>1, <2>2, <2>3
<1>7. \A i \in 1..n : Cardinality(UpTo(peers[i].peer)) = i
  <2> HIDE DEF UpTo, First
  <2> QED
    BY <1>1, <1>4, <1>6
<1> HIDE DEF UpTo
<1>8. ASSUME NEW i \in 1..n PROVE Ranked(i) = peers[i].peer
  <2>1. peers[i].peer \in devices
    BY <1>5
  <2>2. ASSUME NEW p \in devices, Cardinality(UpTo(p)) = i PROVE p = peers[i].peer
    <3>1. PICK j \in 1..n : p = peers[j].peer
      BY <1>5
    <3> QED
      BY <1>7, <2>2, <3>1
  <2>3. Ranked(i) = CHOOSE p \in devices : Cardinality(UpTo(p)) = i
    BY DEF Ranked, UpTo
  <2> QED
    BY <1>7, <2>1, <2>2, <2>3
<1>9. Cardinality(devices) = n
  <2> HIDE DEF First
  <2>1. n \in 0..n
    BY <1>1
  <2> QED
    BY <1>4, <1>5, <2>1
<1> QED
  BY <1>8, <1>9

\* How many rows are connected.
LEMMA CountType == ASSUME NEW peers \in Seq(Row) PROVE countPeers(peers) \in Nat /\ Len(peers) \in Nat
<1> DEFINE n == Len(peers)
           S == {i \in DOMAIN peers : peers[i].connected}
<1>1. n \in Nat /\ DOMAIN peers = 1..n
  BY LenProperties
<1>2. IsFiniteSet(1..n) /\ S \in SUBSET (1..n)
  BY <1>1, FS_Interval
<1>3. IsFiniteSet(S)
  <2> HIDE DEF S
  <2> QED
    BY <1>2, FS_Subset
<1> HIDE DEF S
<1>4. Cardinality(S) \in Nat
  BY <1>3, FS_CardinalityType
<1> QED
  BY <1>1, <1>4 DEF countPeers, S

\* If there is an item for every row, they show every row, and as many of them as
\* connected as are.
LEMMA AllRowsShown ==
    ASSUME NEW peers \in Seq(Row), Len(peers) <= Slots
    PROVE  LET items == applyPeers(peers)
           IN  /\ Len(items) = Len(peers)
               /\ {i \in DOMAIN items : items[i].says \in {"Syncing", "Up to Date"}} =
                    {i \in DOMAIN peers : peers[i].connected}
<1> DEFINE n == Len(peers)
           items == applyPeers(peers)
<1>1. n \in Nat /\ DOMAIN peers = 1..n /\ \A i \in 1..n : peers[i] \in Row
  BY LenProperties, ElementOfSeq
<1>2. Least(n, Slots) = n
  <2>1. n <= Slots /\ Slots \in Nat
    BY DisplayAssumption
  <2> HIDE DEF n
  <2> QED
    BY <1>1, <2>1 DEF Least
<1>3. items = [i \in 1..n |-> [peer |-> peers[i].peer, says |-> peerStatusLabel(peers[i])]]
  BY <1>2 DEF applyPeers
<1>4. ASSUME NEW r \in Row PROVE peerStatusLabel(r) \in {"Syncing", "Up to Date"} <=> r.connected
  <2>1. r.connected \in BOOLEAN /\ r.pending \in BOOLEAN
    BY DEF Row
  <2> QED
    BY <2>1 DEF peerStatusLabel
<1>5. items \in Seq([peer : Nat, says : {peerStatusLabel(r) : r \in Row}]) /\ DOMAIN items = 1..n
  <2>1. \A i \in 1..n : peers[i].peer \in Nat
    BY <1>1, DisplayAssumption DEF Row
  <2>2. items \in [1..n -> [peer : Nat, says : {peerStatusLabel(r) : r \in Row}]]
    BY <1>1, <1>3, <2>1
  <2> QED
    BY <1>1, <1>3, <2>2, SeqDef
<1>6. Len(items) = n
  BY <1>1, <1>3, <1>5, LenProperties
<1>7. ASSUME NEW i \in 1..n
      PROVE  items[i].says \in {"Syncing", "Up to Date"} <=> peers[i].connected
  <2>1. items[i].says = peerStatusLabel(peers[i]) /\ peers[i] \in Row
    BY <1>1, <1>3
  <2> HIDE DEF items
  <2> QED
    BY <1>4, <2>1
<1> HIDE DEF items
<1> QED
  BY <1>1, <1>5, <1>6, <1>7 DEF items

-----------------------------------------------------------------------------
(* The invariant.                                                          *)

Computed == [state : {"starting", "error", "waiting_peers", "synced", "syncing", "unavailable"},
             folder : FolderStates, need : Needs, peers : Seq(Row),
             connected : Nat, total : Nat]

Counting == {"waiting_peers", "synced", "syncing"}

Counted(s) ==
    s.state \in Counting => s.connected = countPeers(s.peers) /\ s.total = Len(s.peers)

Kinds ==
    /\ folder \in FolderStates /\ need \in Needs /\ devices \subseteq Peers
    /\ changes \in Nat /\ since \in Nat /\ since <= changes
    /\ stage \in {"wait", "folder", "need", "peers", "store", "publish"}
    /\ todo \subseteq Peers /\ half \subseteq Row /\ next \in Computed
    /\ updates \subseteq Computed /\ received \in Computed

Shown ==
    /\ stage \in {"folder", "need", "peers"} => next.state = "starting"
    /\ Counted(next) /\ Counted(received) /\ \A s \in updates : Counted(s)
    /\ label = trayStatusFromSnapshot(received)
    /\ monitor = "select" => rows = applyPeers(received.peers)

Reads ==
    /\ stage # "peers" => half = {}
    /\ \A r, q \in half : r = q
    /\ \A r \in half : r.peer \notin todo \cup PeersOf(next.peers)
    /\ todo \cap PeersOf(next.peers) = {}
    /\ InOrder(next.peers)

HalfNow(r) == r = [peer |-> r.peer, connected |-> r.peer \in connected, pending |-> FALSE]

Fresh ==
    since = changes =>
        /\ stage = "folder" => next = Empty /\ todo = devices
        /\ stage = "need" =>
             /\ next = [Empty EXCEPT !.folder = folder] /\ folder # "fail"
             /\ todo = devices
        /\ stage = "peers" =>
             /\ next = [Empty EXCEPT !.folder = folder, !.need = need, !.peers = next.peers]
             /\ folder # "fail" /\ need # Fails
             /\ devices = todo \cup {r.peer : r \in half} \cup PeersOf(next.peers)
             /\ \A i \in 1..Len(next.peers) : next.peers[i] = RowNow(next.peers[i].peer)
             /\ \A r \in half : HalfNow(r)
        /\ stage = "store" => next = WorldSnapshot

DisplayInv == Kinds /\ Shown /\ Reads /\ Fresh

\* The end of computeSnapshot makes a snapshot whose counts are those of its rows.
LEMMA FinishedIs ==
    ASSUME NEW s \in Computed
    PROVE  /\ Finished(s) \in Computed /\ Counted(Finished(s))
           /\ Finished(s).peers = s.peers
<1> DEFINE up == countPeers(s.peers)
           total == Len(s.peers)
           state == deriveStatusState(s.folder, s.need, up, total)
<1>1. s.peers \in Seq(Row) /\ s.folder \in FolderStates /\ s.need \in Needs
  BY DEF Computed
<1>2. up \in Nat /\ total \in Nat
  BY <1>1, CountType
<1>3. Finished(s) = [s EXCEPT !.connected = up, !.total = total, !.state = state]
  BY DEF Finished
<1> HIDE DEF up, total
<1>4. state \in {"starting", "error", "waiting_peers", "synced", "syncing"}
  BY <1>1, <1>2 DEF deriveStatusState
<1> HIDE DEF state
<1>5. /\ Finished(s) \in Computed /\ Finished(s).peers = s.peers
      /\ Finished(s).connected = up /\ Finished(s).total = total
  BY <1>2, <1>3, <1>4 DEF Computed
<1> QED
  BY <1>5 DEF Counted, up, total

\* The snapshot a refresh begins with.
LEMMA EmptyIs == Empty \in Computed /\ Empty.state = "starting" /\ Empty.peers = <<>>
<1>1. <<>> \in Seq(Row)
  BY EmptySeq
<1> QED
  BY <1>1 DEF Empty, Computed, FolderStates, Needs

\* A snapshot that says Syncthing cannot be asked counts nothing.
LEMMA UnavailableIs ==
    ASSUME NEW s \in Computed
    PROVE  /\ Unavailable(s) \in Computed /\ Counted(Unavailable(s))
           /\ Unavailable(s).peers = s.peers
  BY DEF Unavailable, Computed, Counted, Counting

\* A row read in two halves.
LEMMA RowRead ==
    ASSUME Kinds, Reads, stage = "peers", NEW r \in half
    PROVE  LET row == [r EXCEPT !.pending = r.peer \in pending]
           IN  row \in Row /\ row.peer = r.peer /\ next.peers \in Seq(Row)
               /\ row.peer \notin PeersOf(next.peers)
<1> DEFINE now == r.peer \in pending
<1>1. r \in Row /\ now \in BOOLEAN
  BY DEF Kinds
<1> HIDE DEF now
<1>2. [r EXCEPT !.pending = now] \in Row /\ [r EXCEPT !.pending = now].peer = r.peer
  BY <1>1 DEF Row
<1>3. next.peers \in Seq(Row) /\ r.peer \notin PeersOf(next.peers)
  BY DEF Kinds, Reads, Computed
<1> QED
  BY <1>2, <1>3 DEF now

\* The invariant holds at the start.
LEMMA DisplayStarts == DisplayInit => DisplayInv
<1> SUFFICES ASSUME DisplayInit PROVE DisplayInv
  OBVIOUS
<1>1. Kinds
  <2>1. folder \in FolderStates /\ need \in Needs
    BY DEF DisplayInit, FolderStates, Needs
  <2>2. devices \subseteq Peers /\ todo \subseteq Peers /\ half \subseteq Row
    BY DEF DisplayInit
  <2>3. next \in Computed /\ received \in Computed /\ updates \subseteq Computed
    BY EmptyIs DEF DisplayInit
  <2>4. changes = 0 /\ since = 0 /\ stage = "wait"
    BY DEF DisplayInit
  <2> QED
    BY <2>1, <2>2, <2>3, <2>4 DEF Kinds
<1>2. applyPeers(<<>>) = <<>>
  <2>1. Least(Len(<<>>), Slots) = 0
    BY DisplayAssumption DEF Least
  <2> QED
    BY <2>1 DEF applyPeers
<1>3. Shown
  BY <1>2, EmptyIs DEF DisplayInit, Shown, Counted, Counting
<1>4. Reads
  <2>1. next.peers = <<>> /\ stage = "wait" /\ half = {} /\ todo = {}
    BY EmptyIs DEF DisplayInit
  <2>2. Len(next.peers) = 0
    BY <2>1
  <2> QED
    BY <2>1, <2>2 DEF Reads, InOrder, PeersOf
<1>5. Fresh
  BY DEF DisplayInit, Fresh
<1> QED
  BY <1>1, <1>3, <1>4, <1>5 DEF DisplayInv

\* Every step keeps the values of their kinds.
LEMMA KindsStep == DisplayInv /\ [DisplayNext]_displayVars => Kinds'
<1> SUFFICES ASSUME DisplayInv, [DisplayNext]_displayVars PROVE Kinds'
  OBVIOUS
<1>0. Kinds /\ Reads
  BY DEF DisplayInv
<1> USE <1>0 DEF Kinds
<1>1. CASE FolderChanges
  BY <1>1 DEF FolderChanges, Change, readVars, trayVars
<1>2. CASE NeedChanges
  BY <1>2 DEF NeedChanges, Change, readVars, trayVars
<1>3. CASE ConnectionChanges
  BY <1>3 DEF ConnectionChanges, Change, readVars, trayVars
<1>4. CASE PendingChanges
  BY <1>4 DEF PendingChanges, Change, readVars, trayVars
<1>5. CASE DevicesChange
  BY <1>5 DEF DevicesChange, Change, readVars, trayVars
<1>6. CASE Begin
  BY <1>6, EmptyIs DEF Begin, world, trayVars
<1>7. CASE ReadFolder
  <2>1. next' \in Computed
    <3>1. folder = "fail" => next' = Unavailable(next)
      BY <1>7 DEF ReadFolder
    <3>2. folder # "fail" => next' = [next EXCEPT !.folder = folder]
      BY <1>7 DEF ReadFolder
    <3> QED
      BY <3>1, <3>2, UnavailableIs DEF Computed
  <2> QED
    BY <1>7, <2>1 DEF ReadFolder, world, trayVars
<1>8. CASE ReadNeed
  <2>1. next' \in Computed
    <3>1. need = Fails => next' = Unavailable(next)
      BY <1>8 DEF ReadNeed
    <3>2. need # Fails => next' = [next EXCEPT !.need = need]
      BY <1>8 DEF ReadNeed
    <3> QED
      BY <3>1, <3>2, UnavailableIs DEF Computed
  <2> QED
    BY <1>8, <2>1 DEF ReadNeed, world, trayVars
<1>9. CASE ReadConnected
  <2>1. half' \subseteq Row
    BY <1>9 DEF ReadConnected, Row
  <2> QED
    BY <1>9, <2>1 DEF ReadConnected, world, trayVars
<1>10. CASE ReadPending
  <2>1. PICK r \in half :
           next' = [next EXCEPT !.peers = Inserted(@, [r EXCEPT !.pending = r.peer \in pending])]
    BY <1>10 DEF ReadPending
  <2> DEFINE row == [r EXCEPT !.pending = r.peer \in pending]
  <2>2. row \in Row /\ next.peers \in Seq(Row) /\ row.peer \notin PeersOf(next.peers)
    BY <1>10, RowRead DEF ReadPending
  <2>3. Inserted(next.peers, row) \in Seq(Row)
    <3> HIDE DEF row
    <3> QED
      BY <2>2, InsertedIs DEF Reads
  <2>4. next' \in Computed
    <3> HIDE DEF row
    <3> QED
      BY <2>1, <2>3 DEF Computed, row
  <2> QED
    BY <1>10, <2>4 DEF ReadPending, world, trayVars
<1>11. CASE Finish
  <2>1. next' \in Computed
    BY <1>11, FinishedIs DEF Finish
  <2> QED
    BY <1>11, <2>1 DEF Finish, world, trayVars
<1>12. CASE Store
  BY <1>12 DEF Store, world, trayVars
<1>13. CASE Publish
  BY <1>13 DEF Publish, world, trayVars
<1>14. CASE Receive
  BY <1>14 DEF Receive, world, readVars
<1>15. CASE ShowPeers
  BY <1>15 DEF ShowPeers, world, readVars
<1>16. CASE StopMonitor
  BY <1>16 DEF StopMonitor, world, readVars
<1>17. CASE UNCHANGED displayVars
  BY <1>17 DEF displayVars, world, readVars, trayVars
<1> QED
  BY <1>1, <1>2, <1>3, <1>4, <1>5, <1>6, <1>7, <1>8, <1>9, <1>10, <1>11, <1>12, <1>13, <1>14,
     <1>15, <1>16, <1>17 DEF DisplayNext, World, Reading, Monitor

\* Every step keeps the tray in agreement with the snapshot it received.
LEMMA ShownStep == DisplayInv /\ [DisplayNext]_displayVars => Shown'
<1> SUFFICES ASSUME DisplayInv, [DisplayNext]_displayVars PROVE Shown'
  OBVIOUS
<1>0. Kinds /\ Shown
  BY DEF DisplayInv
<1> USE <1>0 DEF Shown
<1>1. CASE World
  <2>1. UNCHANGED <<readVars, updates, trayVars>>
    BY <1>1 DEF World, FolderChanges, NeedChanges, ConnectionChanges, PendingChanges,
                DevicesChange, Change
  <2> QED
    BY <2>1 DEF readVars, trayVars
<1>2. CASE Begin
  BY <1>2, EmptyIs DEF Begin, trayVars, Counted, Counting
<1>3. CASE ReadFolder
  <2>1. Counted(next') /\ (stage' = "need" => next'.state = "starting")
    <3>1. folder = "fail" => next' = Unavailable(next) /\ stage' = "store"
      BY <1>3 DEF ReadFolder
    <3>2. folder # "fail" => next' = [next EXCEPT !.folder = folder] /\ next.state = "starting"
      BY <1>3 DEF ReadFolder
    <3> QED
      BY <3>1, <3>2, UnavailableIs DEF Kinds, Computed, Counted, Counting
  <2> QED
    BY <1>3, <2>1 DEF ReadFolder, trayVars
<1>4. CASE ReadNeed
  <2>1. Counted(next') /\ (stage' = "peers" => next'.state = "starting")
    <3>1. need = Fails => next' = Unavailable(next) /\ stage' = "store"
      BY <1>4 DEF ReadNeed
    <3>2. need # Fails => next' = [next EXCEPT !.need = need] /\ next.state = "starting"
      BY <1>4 DEF ReadNeed
    <3> QED
      BY <3>1, <3>2, UnavailableIs DEF Kinds, Computed, Counted, Counting
  <2> QED
    BY <1>4, <2>1 DEF ReadNeed, trayVars
<1>5. CASE ReadConnected
  BY <1>5 DEF ReadConnected, trayVars
<1>6. CASE ReadPending
  <2>1. PICK r \in half :
           next' = [next EXCEPT !.peers = Inserted(@, [r EXCEPT !.pending = r.peer \in pending])]
    BY <1>6 DEF ReadPending
  <2>2. next'.state = "starting"
    BY <1>6, <2>1 DEF ReadPending, Kinds, Computed
  <2>3. Counted(next')
    BY <2>2 DEF Counted, Counting
  <2> QED
    BY <1>6, <2>2, <2>3 DEF ReadPending, trayVars
<1>7. CASE Finish
  <2>1. Counted(next')
    BY <1>7, FinishedIs DEF Finish, Kinds
  <2> QED
    BY <1>7, <2>1 DEF Finish, trayVars
<1>8. CASE Store
  BY <1>8 DEF Store, trayVars
<1>9. CASE Publish
  BY <1>9 DEF Publish, trayVars
<1>10. CASE Receive
  BY <1>10 DEF Receive, readVars
<1>11. CASE ShowPeers
  BY <1>11 DEF ShowPeers, readVars
<1>12. CASE StopMonitor
  BY <1>12 DEF StopMonitor, readVars
<1>13. CASE UNCHANGED displayVars
  BY <1>13 DEF displayVars, readVars, trayVars
<1> QED
  BY <1>1, <1>2, <1>3, <1>4, <1>5, <1>6, <1>7, <1>8, <1>9, <1>10, <1>11, <1>12, <1>13
  DEF DisplayNext, Reading, Monitor

\* Every step keeps the rows in order, one for each peer read.
LEMMA ReadsStep == DisplayInv /\ [DisplayNext]_displayVars => Reads'
<1> SUFFICES ASSUME DisplayInv, [DisplayNext]_displayVars PROVE Reads'
  OBVIOUS
<1>0. Kinds /\ Reads
  BY DEF DisplayInv
<1> USE DEF Reads
<1>1. CASE UNCHANGED readVars
  BY <1>0, <1>1 DEF readVars
<1>2. CASE Begin
  <2>1. next' = Empty /\ next'.peers = <<>> /\ half' = {}
    BY <1>0, <1>2, EmptyIs DEF Begin
  <2>2. InOrder(next'.peers) /\ PeersOf(next'.peers) = {}
    BY <2>1 DEF InOrder, PeersOf
  <2> QED
    BY <2>1, <2>2
<1>3. CASE ReadFolder
  <2>1. next'.peers = next.peers
    BY <1>0, <1>3, UnavailableIs DEF ReadFolder, Kinds, Computed
  <2> QED
    BY <1>0, <1>3, <2>1 DEF ReadFolder
<1>4. CASE ReadNeed
  <2>1. next'.peers = next.peers
    BY <1>0, <1>4, UnavailableIs DEF ReadNeed, Kinds, Computed
  <2> QED
    BY <1>0, <1>4, <2>1 DEF ReadNeed
<1>5. CASE ReadConnected
  BY <1>0, <1>5 DEF ReadConnected
<1>6. CASE ReadPending
  <2>1. PICK r \in half :
           next' = [next EXCEPT !.peers = Inserted(@, [r EXCEPT !.pending = r.peer \in pending])]
    BY <1>6 DEF ReadPending
  <2> DEFINE row == [r EXCEPT !.pending = r.peer \in pending]
  <2>2. row \in Row /\ row.peer = r.peer /\ next.peers \in Seq(Row)
        /\ row.peer \notin PeersOf(next.peers)
    BY <1>0, <1>6, RowRead DEF ReadPending
  <2>3. next'.peers = Inserted(next.peers, row)
    BY <1>0, <2>1 DEF Kinds, Computed
  <2> HIDE DEF row
  <2>4. InOrder(next'.peers) /\ PeersOf(next'.peers) = PeersOf(next.peers) \cup {r.peer}
    BY <1>0, <2>2, <2>3, InsertedIs
  <2>5. half' = {} /\ todo' = todo
    BY <1>6 DEF ReadPending
  <2> QED
    BY <1>0, <2>4, <2>5
<1>7. CASE Finish
  <2>1. next'.peers = next.peers
    BY <1>0, <1>7, FinishedIs DEF Finish, Kinds
  <2> QED
    BY <1>0, <1>7, <2>1 DEF Finish
<1>8. CASE Store
  BY <1>0, <1>8 DEF Store
<1>9. CASE Publish
  BY <1>0, <1>9 DEF Publish
<1>10. World \/ Monitor \/ StopMonitor \/ UNCHANGED displayVars => UNCHANGED readVars
  BY DEF World, FolderChanges, NeedChanges, ConnectionChanges, PendingChanges, DevicesChange,
         Change, Monitor, Receive, ShowPeers, StopMonitor, displayVars
<1> QED
  BY <1>1, <1>2, <1>3, <1>4, <1>5, <1>6, <1>7, <1>8, <1>9, <1>10 DEF DisplayNext, Reading

\* What the world is said to be depends on the world alone.
LEMMA SameWorld ==
    UNCHANGED world => /\ WorldSnapshot' = WorldSnapshot
                       /\ \A p : (RowNow(p))' = RowNow(p)
                       /\ \A r : (HalfNow(r))' = HalfNow(r)
<1> SUFFICES ASSUME UNCHANGED world
             PROVE  /\ WorldSnapshot' = WorldSnapshot
                    /\ \A p : (RowNow(p))' = RowNow(p)
                    /\ \A r : (HalfNow(r))' = HalfNow(r)
  OBVIOUS
<1>1. folder' = folder /\ need' = need /\ devices' = devices /\ connected' = connected
      /\ pending' = pending
  BY DEF world
<1>2. \A p : (RowNow(p))' = RowNow(p)
  BY <1>1 DEF RowNow
<1>3. \A r : (HalfNow(r))' = HalfNow(r)
  BY <1>1 DEF HalfNow
<1>4. WorldSnapshot' = WorldSnapshot
  BY <1>1 DEF WorldSnapshot, RowNow, Ranked
<1> QED
  BY <1>2, <1>3, <1>4

\* When every device has been read, and as it is now, the rows are those of the world.
LEMMA AllRead ==
    ASSUME Kinds, Reads, Fresh, since = changes, stage = "peers", half = {}, todo = {}
    PROVE  Finished(next) = WorldSnapshot
<1> DEFINE peers == next.peers
           now == [i \in 1..Cardinality(devices) |-> RowNow(Ranked(i))]
<1>1. peers \in Seq(Row) /\ InOrder(peers)
  BY DEF Kinds, Reads, Computed
<1>2. devices = PeersOf(peers)
  BY DEF Fresh
<1>3. Cardinality(devices) = Len(peers) /\ \A i \in 1..Len(peers) : Ranked(i) = peers[i].peer
  <2> HIDE DEF peers
  <2> QED
    BY <1>1, <1>2, RanksAre
<1>4. \A i \in 1..Len(peers) : peers[i] = RowNow(peers[i].peer)
  BY DEF Fresh
<1>5. Len(peers) \in Nat /\ peers = [i \in 1..Len(peers) |-> peers[i]]
  BY <1>1, LenProperties
<1>6. now = peers
  <2> HIDE DEF peers
  <2>1. now = [i \in 1..Len(peers) |-> RowNow(Ranked(i))]
    BY <1>3
  <2>2. \A i \in 1..Len(peers) : RowNow(Ranked(i)) = peers[i]
    BY <1>3, <1>4
  <2>3. now = [i \in 1..Len(peers) |-> peers[i]]
    BY <2>1, <2>2
  <2> QED
    BY <1>5, <2>3
<1>7. next = [Empty EXCEPT !.folder = folder, !.need = need, !.peers = peers]
      /\ folder # "fail" /\ need # Fails
  BY DEF Fresh
<1>8. WorldSnapshot = Finished([Empty EXCEPT !.folder = folder, !.need = need, !.peers = now])
  BY <1>7 DEF WorldSnapshot
<1> HIDE DEF peers, now
<1> QED
  BY <1>6, <1>7, <1>8

\* Every step keeps what was read true, as long as the world does not change.
LEMMA FreshStep == DisplayInv /\ [DisplayNext]_displayVars => Fresh'
<1> SUFFICES ASSUME DisplayInv, [DisplayNext]_displayVars PROVE Fresh'
  OBVIOUS
<1>0. Kinds /\ Reads /\ Fresh
  BY DEF DisplayInv
<1>1. CASE World
  <2>1. changes' = changes + 1 /\ since' = since
    BY <1>1 DEF World, FolderChanges, NeedChanges, ConnectionChanges, PendingChanges,
                DevicesChange, Change, readVars
  <2>2. since' # changes'
    BY <1>0, <2>1 DEF Kinds
  <2> QED
    BY <2>2 DEF Fresh
<1>2. CASE Begin
  BY <1>2 DEF Begin, Fresh, world
<1>3. CASE ReadFolder
  <2> SUFFICES ASSUME since' = changes' PROVE Fresh'
    BY DEF Fresh
  <2>1. stage = "folder" /\ UNCHANGED world /\ since' = since /\ todo' = todo /\ half' = half
    BY <1>3 DEF ReadFolder
  <2>2. since = changes /\ next = Empty /\ todo = devices
    BY <1>0, <2>1 DEF world, Fresh
  <2>3. CASE folder = "fail"
    <3>1. stage' = "store" /\ next' = Unavailable(Empty)
      BY <1>3, <2>2, <2>3 DEF ReadFolder
    <3>2. WorldSnapshot' = Unavailable(Empty)
      BY <2>1, <2>3, SameWorld DEF WorldSnapshot
    <3> QED
      BY <3>1, <3>2 DEF Fresh
  <2>4. CASE folder # "fail"
    <3>1. stage' = "need" /\ next' = [Empty EXCEPT !.folder = folder]
      BY <1>3, <2>2, <2>4 DEF ReadFolder
    <3> QED
      BY <2>1, <2>2, <2>4, <3>1 DEF Fresh, world
  <2> QED
    BY <2>3, <2>4
<1>4. CASE ReadNeed
  <2> SUFFICES ASSUME since' = changes' PROVE Fresh'
    BY DEF Fresh
  <2>1. stage = "need" /\ UNCHANGED world /\ since' = since /\ todo' = todo /\ half' = half
    BY <1>4 DEF ReadNeed
  <2>2. since = changes /\ next = [Empty EXCEPT !.folder = folder] /\ todo = devices
        /\ folder # "fail"
    BY <1>0, <2>1 DEF world, Fresh
  <2>3. CASE need = Fails
    <3>1. stage' = "store" /\ next' = Unavailable([Empty EXCEPT !.folder = folder])
      BY <1>4, <2>2, <2>3 DEF ReadNeed
    <3>2. WorldSnapshot' = Unavailable([Empty EXCEPT !.folder = folder])
      BY <2>1, <2>2, <2>3, SameWorld DEF WorldSnapshot
    <3> QED
      BY <3>1, <3>2 DEF Fresh
  <2>4. CASE need # Fails
    <3>1. stage' = "peers" /\ next' = [next EXCEPT !.need = need] /\ half = {}
      BY <1>0, <1>4, <2>1, <2>4 DEF ReadNeed, Reads
    <3>2. next'.peers = <<>>
      BY <2>2, <3>1 DEF Empty
    <3>3. next' = [Empty EXCEPT !.folder = folder, !.need = need, !.peers = next'.peers]
      BY <2>2, <3>1 DEF Empty
    <3>4. Len(next'.peers) = 0 /\ PeersOf(next'.peers) = {}
      BY <3>2 DEF PeersOf
    <3>5. devices' = todo' \cup {r.peer : r \in half'} \cup PeersOf(next'.peers)
      BY <2>1, <2>2, <3>1, <3>4 DEF world
    <3> QED
      BY <2>1, <2>2, <2>4, <3>1, <3>3, <3>4, <3>5 DEF Fresh, world
  <2> QED
    BY <2>3, <2>4
<1>5. CASE ReadConnected
  <2> SUFFICES ASSUME since' = changes' PROVE Fresh'
    BY DEF Fresh
  <2>1. stage = "peers" /\ half = {} /\ UNCHANGED <<world, stage, next, since>>
    BY <1>5 DEF ReadConnected
  <2>2. PICK p \in todo :
           /\ half' = {[peer |-> p, connected |-> p \in connected, pending |-> FALSE]}
           /\ todo' = todo \ {p}
    BY <1>5 DEF ReadConnected
  <2> DEFINE now == p \in connected
             row == [peer |-> p, connected |-> now, pending |-> FALSE]
  <2>3. half' = {row} /\ row.peer = p
    BY <2>2
  <2>4. HalfNow(row)
    BY DEF HalfNow
  <2> HIDE DEF now, row
  <2>5. {r.peer : r \in half'} = {p} /\ {r.peer : r \in half} = {}
    BY <2>1, <2>3
  <2>6. devices' = todo' \cup {r.peer : r \in half'} \cup PeersOf(next'.peers)
    <3>1. devices = todo \cup PeersOf(next.peers)
      BY <1>0, <2>1, <2>5 DEF Fresh, world
    <3> QED
      BY <2>1, <2>2, <2>5, <3>1 DEF world
  <2>7. \A r \in half' : (HalfNow(r))'
    BY <2>1, <2>3, <2>4, SameWorld
  <2>8. \A i \in 1..Len(next'.peers) : next'.peers[i] = (RowNow(next.peers[i].peer))'
    BY <1>0, <2>1, SameWorld DEF Fresh, world
  <2> QED
    BY <1>0, <2>1, <2>6, <2>7, <2>8 DEF Fresh, world
<1>6. CASE ReadPending
  <2> SUFFICES ASSUME since' = changes' PROVE Fresh'
    BY DEF Fresh
  <2>1. stage = "peers" /\ half' = {} /\ UNCHANGED <<world, stage, todo, since>>
        /\ since = changes
    BY <1>6 DEF ReadPending, world
  <2>2. PICK r \in half :
           next' = [next EXCEPT !.peers = Inserted(@, [r EXCEPT !.pending = r.peer \in pending])]
    BY <1>6 DEF ReadPending
  <2> DEFINE later == r.peer \in pending
             row == [r EXCEPT !.pending = later]
  <2>3. row \in Row /\ row.peer = r.peer /\ next.peers \in Seq(Row)
        /\ row.peer \notin PeersOf(next.peers)
    BY <1>0, <2>1, RowRead
  <2>4. row = RowNow(row.peer)
    <3> DEFINE now == r.peer \in connected
    <3>1. RowNow(r.peer) = [peer |-> r.peer, connected |-> now, pending |-> later]
      BY DEF RowNow
    <3>2. r = [peer |-> r.peer, connected |-> now, pending |-> FALSE]
      BY <1>0, <2>1 DEF Fresh, HalfNow
    <3> HIDE DEF now, later
    <3>3. row = [peer |-> r.peer, connected |-> now, pending |-> later]
      BY <3>1, <3>2
    <3> QED
      BY <2>3, <3>1, <3>3
  <2>5. next' = [next EXCEPT !.peers = Inserted(next.peers, row)]
        /\ next'.peers = Inserted(next.peers, row)
    BY <1>0, <2>2 DEF Kinds, Computed
  <2> HIDE DEF row
  <2>6. /\ next'.peers \in Seq(Row)
        /\ Len(next'.peers) = Len(next.peers) + 1
        /\ PeersOf(next'.peers) = PeersOf(next.peers) \cup {row.peer}
        /\ \A i \in 1..(Len(next.peers) + 1) :
              \/ next'.peers[i] = row
              \/ \E j \in 1..Len(next.peers) : next'.peers[i] = next.peers[j]
    BY <1>0, <2>3, <2>5, InsertedIs DEF Reads
  <2>7. \A i \in 1..Len(next'.peers) : next'.peers[i] = RowNow(next'.peers[i].peer)
    <3>1. \A j \in 1..Len(next.peers) : next.peers[j] = RowNow(next.peers[j].peer)
      BY <1>0, <2>1 DEF Fresh
    <3>2. ASSUME NEW i \in 1..Len(next'.peers) PROVE next'.peers[i] = RowNow(next'.peers[i].peer)
      <4>1. CASE next'.peers[i] = row
        BY <2>4, <4>1
      <4>2. ASSUME NEW j \in 1..Len(next.peers), next'.peers[i] = next.peers[j]
            PROVE  next'.peers[i] = RowNow(next'.peers[i].peer)
        BY <3>1, <4>2
      <4> QED
        BY <2>6, <4>1, <4>2
    <3> QED
      BY <3>2
  <2>8. devices' = todo' \cup {q.peer : q \in half'} \cup PeersOf(next'.peers)
    <3>1. half = {r}
      BY <1>0 DEF Reads
    <3>2. devices = todo \cup {q.peer : q \in half} \cup PeersOf(next.peers)
      BY <1>0, <2>1 DEF Fresh
    <3> QED
      BY <2>1, <2>3, <2>6, <3>1, <3>2 DEF world
  <2>9. next' = [Empty EXCEPT !.folder = folder, !.need = need, !.peers = next'.peers]
        /\ folder # "fail" /\ need # Fails
    <3>1. next = [Empty EXCEPT !.folder = folder, !.need = need, !.peers = next.peers]
          /\ folder # "fail" /\ need # Fails
      BY <1>0, <2>1 DEF Fresh
    <3>2. next' = [next EXCEPT !.peers = next'.peers]
      BY <2>5
    <3> QED
      BY <3>1, <3>2 DEF Empty
  <2>10. \A i \in 1..Len(next'.peers) : next'.peers[i] = (RowNow(next.peers[i].peer))'
    BY <2>1, <2>7, SameWorld
  <2> QED
    BY <2>1, <2>8, <2>9, <2>10 DEF Fresh, world
<1>7. CASE Finish
  <2> SUFFICES ASSUME since' = changes' PROVE Fresh'
    BY DEF Fresh
  <2>1. /\ stage = "peers" /\ half = {} /\ todo = {} /\ next' = Finished(next)
        /\ stage' = "store" /\ UNCHANGED world /\ since = changes
    BY <1>7 DEF Finish, world
  <2>2. next' = WorldSnapshot
    BY <1>0, <2>1, AllRead
  <2>3. WorldSnapshot' = WorldSnapshot
    BY <2>1, SameWorld
  <2> QED
    BY <2>1, <2>2, <2>3 DEF Fresh
<1>8. CASE Store
  BY <1>8 DEF Store, Fresh, world
<1>9. CASE Publish
  BY <1>9 DEF Publish, Fresh, world
<1>10. CASE Monitor \/ StopMonitor \/ UNCHANGED displayVars
  <2>1. UNCHANGED <<world, readVars>>
    BY <1>10 DEF Monitor, Receive, ShowPeers, StopMonitor, displayVars
  <2>2. UNCHANGED <<stage, todo, half, next, since, changes, folder, need, devices>>
    BY <2>1 DEF world, readVars
  <2>3. \A i \in 1..Len(next.peers) :
           next.peers[i] = RowNow(next.peers[i].peer)
             => next.peers[i] = (RowNow(next.peers[i].peer))'
    BY <2>1, <2>2, SameWorld
  <2>4. WorldSnapshot' = WorldSnapshot /\ \A r \in half : (HalfNow(r))' = HalfNow(r)
    BY <2>1, SameWorld
  <2> QED
    BY <1>0, <2>2, <2>3, <2>4 DEF Fresh
<1> QED
  BY <1>1, <1>2, <1>3, <1>4, <1>5, <1>6, <1>7, <1>8, <1>9, <1>10 DEF DisplayNext, Reading

\* However refreshes, changes in Syncthing and the tray interleave, the snapshot under
\* way and the one shown keep the invariant.
THEOREM DisplayInvariance == DisplaySpec => []DisplayInv
<1>1. DisplayInv /\ [DisplayNext]_displayVars => DisplayInv'
  BY KindsStep, ShownStep, ReadsStep, FreshStep DEF DisplayInv
<1> QED
  BY <1>1, DisplayStarts, PTL DEF DisplaySpec

\* The status item counts the peers that the peer items show (statusLabel and
\* applyPeers of the monitor are given the same snapshot).
THEOREM CountsMatchRowsAlways == DisplaySpec => []CountsMatchRows
<1>1. DisplayInv => CountsMatchRows
  <2> SUFFICES ASSUME DisplayInv, monitor = "select", label.peers # <<>>, label.peers[2] <= Slots
               PROVE  /\ Len(rows) = label.peers[2]
                      /\ label.peers[1] =
                           Cardinality({i \in DOMAIN rows : rows[i].says \in {"Syncing", "Up to Date"}})
    BY DEF CountsMatchRows
  <2>1. /\ received \in Computed /\ Counted(received)
        /\ label = trayStatusFromSnapshot(received) /\ rows = applyPeers(received.peers)
    BY DEF DisplayInv, Kinds, Shown
  <2>2. /\ received.state \in Counting
        /\ label.peers = <<received.connected, received.total>>
    BY <2>1 DEF trayStatusFromSnapshot, Counting
  <2>3. label.peers[1] = countPeers(received.peers) /\ label.peers[2] = Len(received.peers)
    BY <2>1, <2>2 DEF Counted
  <2>4. received.peers \in Seq(Row) /\ Len(received.peers) <= Slots
    BY <2>1, <2>3 DEF Computed
  <2>5. /\ Len(rows) = Len(received.peers)
        /\ {i \in DOMAIN rows : rows[i].says \in {"Syncing", "Up to Date"}} =
             {i \in DOMAIN received.peers : received.peers[i].connected}
    BY <2>1, <2>4, AllRowsShown
  <2> QED
    BY <2>3, <2>5 DEF countPeers
<1> QED
  BY <1>1, DisplayInvariance, PTL

\* computeSnapshot, when nothing changes while it reads, finds what asking everything
\* at once would find.
THEOREM UntornAlways == DisplaySpec => []Untorn
<1>1. DisplayInv => Untorn
  BY DEF DisplayInv, Fresh, Untorn
<1> QED
  BY <1>1, DisplayInvariance, PTL
=============================================================================

---------------------------- MODULE Peers_proofs ----------------------------
(***************************************************************************)
(* What is proved of peers.txt (PairCommand) and of the configuration that *)
(* is made to agree with it (PeerConfig), for every set of devices, names  *)
(* and processes, files and lists of any length.                           *)
(*                                                                         *)
(* The loops of the code are folds over sequences.  A fold is reasoned     *)
(* about as the function that gives its value after each element; what     *)
(* holds after every element is the set of numbers that Induction asks for.*)
(***************************************************************************)
EXTENDS PairCommand, PeerConfig, FiniteSetTheorems, SequenceTheorems, TLAPS

-----------------------------------------------------------------------------
(* Induction and folds.                                                    *)

\* A set with 0 and with the successor of each of its numbers has every number.
LEMMA Induction ==
    ASSUME NEW S, 0 \in S, \A n \in Nat : n \in S => n + 1 \in S
    PROVE  \A n \in Nat : n \in S
<1> DEFINE Less == OpToRel(<, Nat)
           T == Nat \ S
<1>1. IsWellFoundedOn(Less, Nat)
  BY NatLessThanWellFounded
<1>2. ASSUME T # {} PROVE FALSE
  <2>1. PICK n \in T : \A m \in T : <<m, n>> \notin Less
    <3> HIDE DEF Less
    <3> QED
      BY <1>1, <1>2, WFMin
  <2>2. \A m \in T : ~(m < n)
    BY <2>1 DEF OpToRel
  <2>3. n # 0 /\ n - 1 \in Nat /\ n - 1 < n
    OBVIOUS
  <2> QED
    BY <2>2, <2>3
<1> QED
  BY <1>2

\* The same up to a bound.
LEMMA BoundedInduction ==
    ASSUME NEW n \in Nat, NEW S, 0 \in S, \A i \in 1..n : i - 1 \in S => i \in S
    PROVE  \A i \in 0..n : i \in S
<1> DEFINE T == {i \in Nat : i <= n => i \in S}
<1>1. 0 \in T
  OBVIOUS
<1>2. ASSUME NEW i \in Nat, i \in T PROVE i + 1 \in T
  <2> SUFFICES ASSUME i + 1 <= n PROVE i + 1 \in S
    OBVIOUS
  <2>1. i \in S /\ i + 1 \in 1..n /\ (i + 1) - 1 = i
    BY <1>2
  <2> QED
    BY <2>1
<1> HIDE DEF T
<1>3. \A i \in Nat : i \in T
  BY <1>1, <1>2, Induction
<1> QED
  BY <1>3 DEF T

\* A set of positions that is not empty has a first and a last one.
LEMMA FirstAndLast ==
    ASSUME NEW n \in Nat, NEW S, S \subseteq 1..n, S # {}
    PROVE  /\ Min(S) \in S /\ \A i \in S : Min(S) <= i
           /\ Max(S) \in S /\ \A i \in S : i <= Max(S)
<1>1. \E a \in S : \A i \in S : a <= i
  <2> DEFINE T == {k \in 0..n : S \cap (1..k) # {} => \E a \in S : \A i \in S : a <= i}
  <2>1. 0 \in T
    OBVIOUS
  <2>2. ASSUME NEW k \in 1..n, k - 1 \in T PROVE k \in T
    <3> SUFFICES ASSUME k \in S, S \cap (1..(k - 1)) = {}
                 PROVE  \E a \in S : \A i \in S : a <= i
      BY <2>2
    <3> QED
      OBVIOUS
  <2> HIDE DEF T
  <2>3. n \in T
    BY <2>1, <2>2, BoundedInduction
  <2> QED
    BY <2>3 DEF T
<1>2. \E a \in S : \A i \in S : i <= a
  <2> DEFINE T == {k \in 0..n : S \subseteq 1..k => \E a \in S : \A i \in S : i <= a}
  <2>1. 0 \in T
    <3>1. PICK i \in S : i \in 1..n
      OBVIOUS
    <3>2. i \notin 1..0
      OBVIOUS
    <3> QED
      BY <3>2
  <2>2. ASSUME NEW k \in 1..n, k - 1 \in T PROVE k \in T
    <3>1. CASE k \in S
      BY <3>1
    <3>2. CASE k \notin S
      <4>1. S \subseteq 1..k => S \subseteq 1..(k - 1)
        BY <3>2
      <4> QED
        BY <2>2, <4>1
    <3> QED
      BY <3>1, <3>2
  <2> HIDE DEF T
  <2>3. n \in T
    BY <2>1, <2>2, BoundedInduction
  <2> QED
    BY <2>3 DEF T
<1> QED
  BY <1>1, <1>2 DEF Min, Max

\* f gives the value of folding step over the elements of s at each set of
\* positions, the last position last: this is how FoldLeft is defined.
FoldsSets(f, a0, step, s, n) ==
    \A S \in SUBSET (1..n) :
        f[S] = IF S = {} THEN a0 ELSE step[<<f[S \ {Max(S)}], s[Max(S)]>>]

\* There is such a function.
LEMMA FoldExists ==
    ASSUME NEW A, NEW a0 \in A, NEW T, NEW step \in [A \X T -> A], NEW s \in Seq(T)
    PROVE  \E f \in [SUBSET (1..Len(s)) -> A] : FoldsSets(f, a0, step, s, Len(s))
<1> USE DEF FoldsSets
<1> DEFINE Folds(f, k) == FoldsSets(f, a0, step, s, k)
           K == {k \in 0..Len(s) : \E f \in [SUBSET (1..k) -> A] : Folds(f, k)}
<1>0. Len(s) \in Nat /\ \A i \in 1..Len(s) : s[i] \in T
  BY LenProperties, ElementOfSeq
<1>1. 0 \in K
  <2>1. SUBSET (1..0) = {{}}
    OBVIOUS
  <2> DEFINE f == [S \in SUBSET (1..0) |-> a0]
  <2>2. f \in [SUBSET (1..0) -> A] /\ Folds(f, 0)
    BY <2>1
  <2>3. 0 \in 0..Len(s)
    BY <1>0
  <2> HIDE DEF f, Folds
  <2> QED
    BY <2>2, <2>3
<1>2. ASSUME NEW k \in 1..Len(s), k - 1 \in K PROVE k \in K
  <2>1. PICK f \in [SUBSET (1..(k - 1)) -> A] : Folds(f, k - 1)
    BY <1>2
  <2> DEFINE g == [S \in SUBSET (1..k) |-> IF k \in S THEN step[<<f[S \ {k}], s[k]>>] ELSE f[S]]
  <2>2. \A S \in SUBSET (1..k) : /\ k \notin S => S \in SUBSET (1..(k - 1))
                                 /\ S \ {k} \in SUBSET (1..(k - 1))
    OBVIOUS
  <2>3. \A S \in SUBSET (1..k) : S # {} => Max(S) \in S /\ \A i \in S : i <= Max(S)
    <3>1. k \in Nat
      BY <1>0
    <3> QED
      BY <3>1, FirstAndLast
  <2>4. g \in [SUBSET (1..k) -> A]
    BY <2>2, <1>0
  <2>5. ASSUME NEW S \in SUBSET (1..k)
        PROVE  g[S] = IF S = {} THEN a0 ELSE step[<<g[S \ {Max(S)}], s[Max(S)]>>]
    <3>1. CASE k \in S
      <4>1. Max(S) = k
        <5>1. Max(S) \in 1..k /\ k <= Max(S)
          BY <2>3, <3>1
        <5> QED
          BY <5>1, <1>0
      <4>2. g[S] = step[<<f[S \ {k}], s[k]>>] /\ g[S \ {k}] = f[S \ {k}]
        BY <3>1
      <4> QED
        BY <4>1, <4>2, <3>1
    <3>2. CASE k \notin S
      <4>1. S \in SUBSET (1..(k - 1)) /\ g[S] = f[S]
        BY <2>2, <3>2
      <4>2. f[S] = IF S = {} THEN a0 ELSE step[<<f[S \ {Max(S)}], s[Max(S)]>>]
        BY <2>1, <4>1
      <4>3. S # {} => g[S \ {Max(S)}] = f[S \ {Max(S)}]
        BY <3>2
      <4> QED
        BY <4>1, <4>2, <4>3
    <3> QED
      BY <3>1, <3>2
  <2> HIDE DEF g
  <2>6. Folds(g, k)
    BY <2>5
  <2> HIDE DEF Folds
  <2> QED
    BY <2>4, <2>6
<1> HIDE DEF K
<1>3. Len(s) \in K
  <2>1. \A i \in 0..Len(s) : i \in K
    BY <1>0, <1>1, <1>2, BoundedInduction
  <2> QED
    BY <1>0, <2>1
<1> QED
  BY <1>3 DEF K

\* The positions up to one.
LEMMA Prefix ==
    ASSUME NEW k \in Nat, k > 0
    PROVE  1..k # {} /\ Max(1..k) = k /\ (1..k) \ {k} = 1..(k - 1)
<1>1. k \in 1..k
  OBVIOUS
<1>2. Max(1..k) \in 1..k /\ k <= Max(1..k)
  BY <1>1, FirstAndLast
<1> QED
  BY <1>1, <1>2

-----------------------------------------------------------------------------
(* peers.txt.                                                              *)

\* What the scanner loop carries.
Scan == [entries : Seq(Device), pending : Names]

Start == [entries |-> <<>>, pending |-> NoName]

\* A round of the scanner loop, and what each kind of line does in it.
LEMMA ReadLineType ==
    ASSUME NEW acc \in Scan, NEW line \in Line
    PROVE  /\ ReadLine(acc, line) \in Scan
           /\ line.kind # "id" => ReadLine(acc, line).entries = acc.entries
           /\ line.kind = "id" =>
                /\ ReadLine(acc, line).entries =
                       Append(acc.entries, [id |-> line.id,
                          name |-> IF line.name = NoName THEN acc.pending ELSE line.name])
                /\ line.id \in Ids /\ line.name \in Names
           /\ ReadLine(acc, line).pending =
                  IF line.kind = "comment" THEN line.name ELSE NoName
<1>1. NoName \in Names
  BY NamesAssumption
<1> USE DEF Scan, Device
<1>2. CASE line \in {Blank, Junk}
  BY <1>1, <1>2 DEF ReadLine, Blank, Junk
<1>3. CASE \E n \in Names : line = Comment(n)
  <2>1. PICK n \in Names : line = Comment(n)
    BY <1>3
  <2> QED
    BY <1>1, <2>1 DEF ReadLine, Comment
<1>4. CASE \E d \in Ids, n \in Names : line = IdLine(d, n)
  <2>1. PICK d \in Ids, n \in Names : line = IdLine(d, n)
    BY <1>4
  <2> DEFINE e == [id |-> d, name |-> IF n = NoName THEN acc.pending ELSE n]
  <2>2. e \in Device /\ acc.entries \in Seq(Device)
    OBVIOUS
  <2>3. Append(acc.entries, e) \in Seq(Device)
    BY <2>2
  <2> QED
    BY <1>1, <2>1, <2>3 DEF ReadLine, IdLine
<1> QED
  BY <1>2, <1>3, <1>4 DEF Line

\* ParsePeersFile goes through the lines one by one.
LEMMA ParseRuns ==
    ASSUME NEW lines \in Seq(Line)
    PROVE  \E acc \in [0..Len(lines) -> Scan] :
              /\ acc[0] = Start
              /\ \A i \in 1..Len(lines) : acc[i] = ReadLine(acc[i - 1], lines[i])
              /\ ParsePeersFile(lines) = acc[Len(lines)].entries
<1> DEFINE n == Len(lines)
           Rec(f) == [s \in SUBSET (1..n) |->
                        IF s = {} THEN Start ELSE ReadLine(f[s \ {Max(s)}], lines[Max(s)])]
           iter == CHOOSE f : f = Rec(f)
           acc == [i \in 0..n |-> iter[1..i]]
<1>1. n \in Nat /\ DOMAIN lines = 1..n /\ \A i \in 1..n : lines[i] \in Line
  BY LenProperties, ElementOfSeq
<1>2. FoldLeft(ReadLine, Start, lines) = iter[1..n]
  BY <1>1 DEF FoldLeft, MapThenFoldSet
<1>3. Start \in Scan
  BY NamesAssumption, EmptySeq DEF Start, Scan
<1>4. iter = Rec(iter)
  <2> DEFINE step == [al \in Scan \X Line |-> ReadLine(al[1], al[2])]
  <2>1. step \in [Scan \X Line -> Scan]
    BY ReadLineType
  <2>2. PICK f \in [SUBSET (1..n) -> Scan] : FoldsSets(f, Start, step, lines, n)
    <3> HIDE DEF step
    <3> QED
      BY <1>3, <2>1, FoldExists
  <2>3. ASSUME NEW S \in SUBSET (1..n), S # {}
        PROVE  f[S] = ReadLine(f[S \ {Max(S)}], lines[Max(S)])
    <3>1. Max(S) \in 1..n
      BY <1>1, <2>3, FirstAndLast
    <3>2. f[S \ {Max(S)}] \in Scan /\ lines[Max(S)] \in Line
      BY <1>1, <3>1
    <3> QED
      BY <2>2, <2>3, <3>2 DEF FoldsSets
  <2>4. f = Rec(f)
    BY <2>2, <2>3 DEF FoldsSets
  <2> HIDE DEF Rec
  <2> QED
    BY <2>4
<1> HIDE DEF iter
<1>5. acc[0] = Start
  BY <1>1, <1>4
<1>6. ASSUME NEW i \in 1..n PROVE acc[i] = ReadLine(acc[i - 1], lines[i])
  <2>1. i \in Nat /\ i > 0 /\ 1..i \in SUBSET (1..n) /\ i - 1 \in 0..n /\ i \in 0..n
    BY <1>1
  <2>2. iter[1..i] = Rec(iter)[1..i]
    BY <1>4
  <2>3. 1..i # {} /\ Max(1..i) = i /\ (1..i) \ {i} = 1..(i - 1)
    BY <2>1, Prefix
  <2>4. iter[1..i] = ReadLine(iter[1..(i - 1)], lines[i])
    BY <2>1, <2>2, <2>3
  <2> QED
    BY <2>1, <2>4
<1>7. \A i \in 0..n : acc[i] \in Scan
  <2> HIDE DEF acc
  <2> DEFINE S == {i \in 0..n : acc[i] \in Scan}
  <2>1. 0 \in S
    BY <1>1, <1>3, <1>5
  <2>2. ASSUME NEW i \in 1..n, i - 1 \in S PROVE i \in S
    <3>1. acc[i - 1] \in Scan /\ lines[i] \in Line /\ i \in 0..n
      BY <1>1, <2>2
    <3>2. acc[i] \in Scan
      BY <1>6, <3>1, ReadLineType
    <3> QED
      BY <3>1, <3>2
  <2> HIDE DEF S
  <2>3. \A i \in 0..n : i \in S
    BY <1>1, <2>1, <2>2, BoundedInduction
  <2> QED
    BY <2>3 DEF S
<1>8. acc \in [0..n -> Scan] /\ FoldLeft(ReadLine, Start, lines) = acc[n]
  BY <1>1, <1>2, <1>7
<1> HIDE DEF acc
<1> QED
  BY <1>5, <1>6, <1>8 DEF ParsePeersFile, Start

\* How many ID lines there are up to a line.
IdsUpTo(lines, i) == Cardinality(IdLines(lines) \cap (1..i))

\* The count goes up by one at each ID line, and only there.
LEMMA CountsIdLines ==
    ASSUME NEW lines \in Seq(Line)
    PROVE  /\ IdsUpTo(lines, 0) = 0
           /\ IdsUpTo(lines, Len(lines)) = Cardinality(IdLines(lines))
           /\ \A i \in 0..Len(lines) : IdsUpTo(lines, i) \in Nat
           /\ \A i \in 1..Len(lines) :
                IdsUpTo(lines, i) = IF i \in IdLines(lines) THEN IdsUpTo(lines, i - 1) + 1
                                                            ELSE IdsUpTo(lines, i - 1)
           /\ \A i \in 0..Len(lines) : \A j \in IdLines(lines) :
                j <= i => IdsUpTo(lines, j) \in 1..IdsUpTo(lines, i)
<1> DEFINE n == Len(lines)
           Upto(i) == IdLines(lines) \cap (1..i)
<1>1. n \in Nat /\ IdLines(lines) \subseteq 1..n
  BY LenProperties DEF IdLines
<1>2. ASSUME NEW i \in 0..n
      PROVE  IsFiniteSet(Upto(i)) /\ Cardinality(Upto(i)) \in Nat
  <2>1. IsFiniteSet(1..i)
    BY <1>1, FS_Interval
  <2> QED
    BY <2>1, FS_Subset, FS_CardinalityType
<1>3. IdsUpTo(lines, 0) = 0
  <2>1. Upto(0) = {}
    OBVIOUS
  <2> QED
    BY <2>1, FS_EmptySet DEF IdsUpTo
<1>4. IdsUpTo(lines, n) = Cardinality(IdLines(lines))
  <2>1. Upto(n) = IdLines(lines)
    BY <1>1
  <2> QED
    BY <2>1 DEF IdsUpTo
<1>5. \A i \in 0..n : IdsUpTo(lines, i) \in Nat
  BY <1>2 DEF IdsUpTo
<1>6. ASSUME NEW i \in 1..n
      PROVE  IdsUpTo(lines, i) = IF i \in IdLines(lines) THEN IdsUpTo(lines, i - 1) + 1
                                                         ELSE IdsUpTo(lines, i - 1)
  <2>1. i - 1 \in 0..n
    BY <1>1
  <2>2. CASE i \in IdLines(lines)
    <3>1. Upto(i) = Upto(i - 1) \cup {i} /\ i \notin Upto(i - 1)
      BY <1>1, <2>2
    <3> HIDE DEF Upto
    <3>2. Cardinality(Upto(i)) = Cardinality(Upto(i - 1)) + 1
      BY <1>2, <2>1, <3>1, FS_AddElement
    <3> QED
      BY <2>2, <3>2 DEF IdsUpTo, Upto
  <2>3. CASE i \notin IdLines(lines)
    <3>1. Upto(i) = Upto(i - 1)
      BY <1>1, <2>3
    <3> QED
      BY <2>3, <3>1 DEF IdsUpTo
  <2> QED
    BY <2>2, <2>3
<1>7. ASSUME NEW i \in 0..n, NEW j \in IdLines(lines), j <= i
      PROVE  IdsUpTo(lines, j) \in 1..IdsUpTo(lines, i)
  <2>1. j \in 0..n /\ j \in Upto(j) /\ Upto(j) \subseteq Upto(i)
    BY <1>1, <1>7
  <2> HIDE DEF Upto
  <2>2. Cardinality(Upto(j)) # 0
    BY <1>2, <2>1, FS_EmptySet
  <2>3. Cardinality(Upto(j)) <= Cardinality(Upto(i))
    BY <1>2, <2>1, FS_Subset
  <2>4. Cardinality(Upto(j)) \in 1..Cardinality(Upto(i))
    BY <1>2, <2>1, <2>2, <2>3
  <2> QED
    BY <2>4 DEF IdsUpTo, Upto
<1> QED
  BY <1>3, <1>4, <1>5, <1>6, <1>7

\* The scanner loop names every peer as the comment above ParsePeersFile says, in
\* a file of any length.
THEOREM ParsedIsDocumented ==
    ASSUME NEW lines \in Seq(Line)
    PROVE  Documented(lines, ParsePeersFile(lines))
<1> DEFINE n == Len(lines)
           C(i) == IdsUpTo(lines, i)
           peer(i) == [id |-> lines[i].id, name |-> NameAt(lines, i)]
<1>1. n \in Nat /\ DOMAIN lines = 1..n /\ \A i \in 1..n : lines[i] \in Line
  BY LenProperties, ElementOfSeq
<1>2. PICK acc \in [0..n -> Scan] :
              /\ acc[0] = Start
              /\ \A i \in 1..n : acc[i] = ReadLine(acc[i - 1], lines[i])
              /\ ParsePeersFile(lines) = acc[n].entries
  BY ParseRuns
<1> DEFINE Good(i) ==
             /\ Len(acc[i].entries) = C(i)
             /\ \A j \in IdLines(lines) : j <= i => acc[i].entries[C(j)] = peer(j)
             /\ acc[i].pending = IF i > 0 /\ lines[i].kind = "comment" THEN lines[i].name
                                                                       ELSE NoName
           S == {i \in 0..n : Good(i)}
<1>3. \A i \in 0..n : acc[i].entries \in Seq(Device) /\ acc[i].pending \in Names
  BY DEF Scan
<1>4. 0 \in S
  <2>1. acc[0].entries = <<>> /\ acc[0].pending = NoName
    BY <1>2 DEF Start
  <2>2. Len(acc[0].entries) = 0 /\ C(0) = 0
    BY <2>1, CountsIdLines
  <2>3. \A j \in IdLines(lines) : ~(j <= 0)
    BY <1>1 DEF IdLines
  <2> QED
    BY <1>1, <2>1, <2>2, <2>3
<1>5. ASSUME NEW i \in 1..n, i - 1 \in S PROVE i \in S
  <2> DEFINE old == acc[i - 1].entries
             new == acc[i].entries
  <2>1. i - 1 \in 0..n /\ i \in 0..n /\ lines[i] \in Line /\ Good(i - 1)
    BY <1>1, <1>5
  <2>2. acc[i] = ReadLine(acc[i - 1], lines[i]) /\ acc[i - 1] \in Scan
    BY <1>2, <2>1
  <2>3. acc[i].pending = IF i > 0 /\ lines[i].kind = "comment" THEN lines[i].name ELSE NoName
    <3>1. acc[i].pending = IF lines[i].kind = "comment" THEN lines[i].name ELSE NoName
      <4> HIDE DEF Good
      <4> QED
        BY <2>1, <2>2, ReadLineType
    <3> QED
      BY <1>1, <3>1
  <2>4. CASE lines[i].kind = "id"
    <3> DEFINE e == [id |-> lines[i].id,
                     name |-> IF lines[i].name = NoName THEN acc[i - 1].pending
                                                        ELSE lines[i].name]
    <3>1. new = Append(old, e) /\ e \in Device
      BY <1>3, <2>1, <2>2, <2>4, ReadLineType DEF Device
    <3>2. e = peer(i)
      BY <1>1, <2>1 DEF NameAt
    <3>3. i \in IdLines(lines) /\ C(i) = C(i - 1) + 1
      BY <1>1, <2>4, CountsIdLines DEF IdLines
    <3>4. /\ Len(new) = Len(old) + 1 /\ new[Len(old) + 1] = e
          /\ \A k \in 1..Len(old) : new[k] = old[k]
      <4> HIDE DEF e, old, new
      <4>1. old \in Seq(Device)
        BY <1>3, <2>1 DEF old
      <4> QED
        BY <3>1, <4>1, AppendProperties
    <3>5. \A j \in IdLines(lines) : j <= i => new[C(j)] = peer(j)
      <4> SUFFICES ASSUME NEW j \in IdLines(lines), j <= i PROVE new[C(j)] = peer(j)
        OBVIOUS
      <4>1. CASE j = i
        BY <2>1, <3>2, <3>3, <3>4, <4>1
      <4>2. CASE j # i
        <5>1. j <= i - 1
          BY <1>1, <4>2 DEF IdLines
        <5>2. C(j) \in 1..C(i - 1)
          BY <2>1, <5>1, CountsIdLines
        <5> QED
          BY <2>1, <3>4, <5>1, <5>2
      <4> QED
        BY <4>1, <4>2
    <3>6. Len(new) = C(i)
      BY <2>1, <3>3, <3>4
    <3> QED
      BY <2>1, <2>3, <3>5, <3>6
  <2>5. CASE lines[i].kind # "id"
    <3>1. new = old
      BY <2>1, <2>2, <2>5, ReadLineType
    <3>2. i \notin IdLines(lines) /\ C(i) = C(i - 1)
      BY <1>1, <2>5, CountsIdLines DEF IdLines
    <3>3. \A j \in IdLines(lines) : j <= i => j <= i - 1
      BY <1>1, <3>2 DEF IdLines
    <3> QED
      BY <2>1, <2>3, <3>1, <3>2, <3>3
  <2> QED
    BY <2>4, <2>5
<1> HIDE DEF S
<1>6. n \in S
  <2>1. \A i \in 0..n : i \in S
    BY <1>1, <1>4, <1>5, BoundedInduction
  <2> QED
    BY <1>1, <2>1
<1>7. Good(n)
  BY <1>6 DEF S
<1>8. \A i \in IdLines(lines) : i <= n
  BY <1>1 DEF IdLines
<1> QED
  BY <1>2, <1>7, <1>8, CountsIdLines DEF Documented, IdsUpTo

\* One more line is one more round of the scanner loop.
LEMMA ParseAppend ==
    ASSUME NEW lines \in Seq(Line), NEW line \in Line
    PROVE  \E acc \in Scan : /\ ParsePeersFile(lines) = acc.entries
                             /\ ParsePeersFile(Append(lines, line)) = ReadLine(acc, line).entries
<1> DEFINE n == Len(lines)
           longer == Append(lines, line)
<1>1. n \in Nat /\ longer \in Seq(Line) /\ Len(longer) = n + 1
  BY LenProperties, AppendProperties
<1>2. longer[n + 1] = line /\ \A i \in 1..n : longer[i] = lines[i]
  BY AppendProperties
<1>3. PICK f \in [0..n -> Scan] :
              /\ f[0] = Start
              /\ \A i \in 1..n : f[i] = ReadLine(f[i - 1], lines[i])
              /\ ParsePeersFile(lines) = f[n].entries
  BY ParseRuns
<1> HIDE DEF longer
<1>4. PICK g \in [0..(n + 1) -> Scan] :
              /\ g[0] = Start
              /\ \A i \in 1..(n + 1) : g[i] = ReadLine(g[i - 1], longer[i])
              /\ ParsePeersFile(longer) = g[n + 1].entries
  BY <1>1, ParseRuns
<1>5. \A i \in 1..n : f[i - 1] = g[i - 1] => f[i] = g[i]
  BY <1>1, <1>2, <1>3, <1>4
<1>6. \A i \in 0..n : f[i] = g[i]
  <2> DEFINE S == {i \in 0..n : f[i] = g[i]}
  <2>1. 0 \in S
    BY <1>1, <1>3, <1>4
  <2>2. ASSUME NEW i \in 1..n, i - 1 \in S PROVE i \in S
    BY <1>5, <2>2
  <2> HIDE DEF S
  <2>3. \A i \in 0..n : i \in S
    BY <1>1, <2>1, <2>2, BoundedInduction
  <2> QED
    BY <2>3 DEF S
<1>7. f[n] = g[n] /\ f[n] \in Scan
  BY <1>1, <1>6
<1>8. n + 1 \in 1..(n + 1) /\ (n + 1) - 1 = n
  BY <1>1
<1>9. g[n + 1] = ReadLine(g[n], line)
  BY <1>2, <1>4, <1>8
<1> QED
  BY <1>3, <1>4, <1>7, <1>9 DEF longer

\* ParsePeersFile returns entries.
LEMMA ParseType ==
    ASSUME NEW lines \in Seq(Line)
    PROVE  ParsePeersFile(lines) \in Seq(Device)
<1> DEFINE n == Len(lines)
<1>1. n \in Nat
  BY LenProperties
<1>2. PICK acc \in [0..n -> Scan] : ParsePeersFile(lines) = acc[n].entries
  BY ParseRuns
<1> QED
  BY <1>1, <1>2 DEF Scan

\* An ID line adds one entry behind the others; any other line adds none.
LEMMA AppendedLine ==
    ASSUME NEW lines \in Seq(Line), NEW line \in Line
    PROVE  /\ line.kind # "id" => ParsePeersFile(Append(lines, line)) = ParsePeersFile(lines)
           /\ line.kind = "id" =>
                \E e \in Device : /\ e.id = line.id
                                 /\ ParsePeersFile(Append(lines, line)) =
                                        Append(ParsePeersFile(lines), e)
<1>1. PICK acc \in Scan : /\ ParsePeersFile(lines) = acc.entries
                          /\ ParsePeersFile(Append(lines, line)) = ReadLine(acc, line).entries
  BY ParseAppend
<1>2. CASE line.kind # "id"
  BY <1>1, <1>2, ReadLineType
<1>3. CASE line.kind = "id"
  <2> DEFINE e == [id |-> line.id,
                   name |-> IF line.name = NoName THEN acc.pending ELSE line.name]
  <2>1. ReadLine(acc, line).entries = Append(acc.entries, e)
        /\ line.id \in Ids /\ line.name \in Names
    BY <1>3, ReadLineType
  <2>2. e \in Device /\ e.id = line.id
    BY <2>1 DEF Device, Scan
  <2> HIDE DEF e
  <2> QED
    BY <1>1, <1>3, <2>1, <2>2
<1> QED
  BY <1>2, <1>3

\* What is listed once an ID line was added.
LEMMA AppendedId ==
    ASSUME NEW lines \in Seq(Line), NEW d \in Ids
    PROVE  /\ Listed(Append(lines, IdLine(d, NoName))) = Listed(lines) \cup {d}
           /\ Front(ParsePeersFile(Append(lines, IdLine(d, NoName)))) = ParsePeersFile(lines)
<1> DEFINE line == IdLine(d, NoName)
           old == ParsePeersFile(lines)
           new == ParsePeersFile(Append(lines, line))
<1>1. line \in Line /\ line.kind = "id" /\ line.id = d
  BY NamesAssumption DEF Line, IdLine
<1>2. PICK e \in Device : e.id = d /\ new = Append(old, e)
  BY <1>1, AppendedLine
<1>3. old \in Seq(Device)
  BY ParseType
<1> HIDE DEF old, new
<1>4. ToSet(new) = ToSet(old) \cup {e}
  <2>1. Len(old) \in Nat /\ DOMAIN old = 1..Len(old) /\ DOMAIN new = 1..(Len(old) + 1)
    BY <1>2, <1>3, LenProperties, AppendProperties
  <2>2. new[Len(old) + 1] = e /\ \A i \in 1..Len(old) : new[i] = old[i]
    BY <1>2, <1>3, AppendProperties
  <2> QED
    BY <2>1, <2>2 DEF ToSet
<1>5. Listed(Append(lines, line)) = Listed(lines) \cup {d}
  BY <1>2, <1>4 DEF Listed, old, new
<1>6. Front(new) = old
  <2>1. Len(new) - 1 = Len(old) /\ Len(old) \in Nat
    BY <1>2, <1>3, LenProperties, AppendProperties
  <2>2. \A i \in 1..Len(old) : new[i] = old[i] /\ new[i] \in Device
    BY <1>2, <1>3, AppendProperties, ElementOfSeq
  <2>3. /\ SubSeq(new, 1, Len(old)) \in Seq(Device)
        /\ Len(SubSeq(new, 1, Len(old))) = Len(old)
        /\ \A i \in 1..Len(old) : SubSeq(new, 1, Len(old))[i] = old[i]
    BY <2>1, <2>2, SubSeqProperties
  <2> QED
    BY <1>3, <2>1, <2>3, SeqEqual DEF Front
<1> QED
  BY <1>5, <1>6 DEF old, new

\* A line that is not ended becomes a line again.
LEMMA GlueType ==
    ASSUME NEW line \in Line, NEW d \in Ids
    PROVE  Glue(line, d) \in Line /\ Glue(Blank, d) = IdLine(d, NoName)
<1>1. {NoName, Garbled} \subseteq Names
  BY NamesAssumption
<1>2. CASE line \in {Blank, Junk}
  BY <1>1, <1>2 DEF Glue, Line, Blank, Junk
<1>3. CASE \E n \in Names : line = Comment(n)
  BY <1>1, <1>3 DEF Glue, Line, Comment, Blank
<1>4. CASE \E e \in Ids, n \in Names : line = IdLine(e, n)
  BY <1>1, <1>4 DEF Glue, Line, IdLine, Blank
<1> QED
  BY <1>2, <1>3, <1>4 DEF Line

\* A sequence is its front and its last element.
LEMMA FrontAndLast ==
    ASSUME NEW T, NEW s \in Seq(T), s # <<>>
    PROVE  Front(s) \in Seq(T) /\ Last(s) \in T /\ s = Append(Front(s), Last(s))
<1> DEFINE n == Len(s)
<1>1. n \in Nat /\ n > 0 /\ \A i \in 1..n : s[i] \in T
  BY EmptySeq, LenProperties, ElementOfSeq
<1>2. Front(s) \in Seq(T) /\ Len(Front(s)) = n - 1 /\ \A i \in 1..(n - 1) : Front(s)[i] = s[i]
  <2> DEFINE k == n - 1
  <2>1. k \in Nat /\ \A i \in 1..k : s[i] \in T
    BY <1>1
  <2> HIDE DEF k
  <2>2. /\ SubSeq(s, 1, k) \in Seq(T)
        /\ Len(SubSeq(s, 1, k)) = k
        /\ \A i \in 1..k : SubSeq(s, 1, k)[i] = s[i]
    BY <2>1, SubSeqProperties
  <2> QED
    BY <2>2 DEF Front, k
<1>3. Last(s) \in T
  BY <1>1 DEF Last
<1>4. s = Append(Front(s), Last(s))
  <2> DEFINE t == Append(Front(s), Last(s))
  <2>1. t \in Seq(T) /\ Len(t) = n
    BY <1>1, <1>2, <1>3, AppendProperties
  <2>2. ASSUME NEW i \in 1..n PROVE s[i] = t[i]
    <3>1. CASE i = n
      BY <1>1, <1>2, <1>3, <3>1, AppendProperties DEF Last
    <3>2. CASE i # n
      <4>1. i \in 1..Len(Front(s))
        BY <1>1, <1>2, <3>2
      <4> QED
        BY <1>2, <1>3, <4>1, AppendProperties
    <3> QED
      BY <3>1, <3>2
  <2>3. s = t
    <3> HIDE DEF t
    <3> QED
      BY <2>1, <2>2, SeqEqual
  <2> QED
    BY <2>3
<1> QED
  BY <1>2, <1>3, <1>4

\* What AppendPeersFile does to a file: unless it ends in the middle of a line with
\* text, every entry stays and the new ID is listed behind them.
LEMMA AppendToFile ==
    ASSUME NEW f \in TextFile, NEW d \in Ids
    PROVE  /\ AppendPeersFile(f, d) \in TextFile
           /\ f.ended \/ Last(f.lines) = Blank =>
                LET g == AppendPeersFile(f, d)
                IN  /\ Listed(g.lines) = Listed(f.lines) \cup {d}
                    /\ Front(ParsePeersFile(g.lines)) = ParsePeersFile(f.lines)
<1>1. f \in [lines : Seq(Line), ended : BOOLEAN] /\ f.lines \in Seq(Line)
      /\ (f.lines = <<>> => f.ended)
  BY DEF TextFile
<1>2. IdLine(d, NoName) \in Line /\ Blank \in Line /\ Blank.kind # "id"
  BY NamesAssumption DEF Line, IdLine, Blank
<1> DEFINE added == Append(f.lines, IdLine(d, NoName))
           front == Front(f.lines)
           glued == Append(front, Glue(Last(f.lines), d))
<1>3. CASE f.ended
  <2>1. AppendPeersFile(f, d) = [lines |-> added, ended |-> TRUE]
    BY <1>3 DEF AppendPeersFile
  <2>2. added \in Seq(Line) /\ added # <<>>
    BY <1>1, <1>2, AppendProperties
  <2>3. AppendPeersFile(f, d) \in TextFile
    <3> HIDE DEF added
    <3> QED
      BY <2>1, <2>2 DEF TextFile
  <2> QED
    BY <1>1, <2>1, <2>3, AppendedId
<1>4. CASE ~f.ended
  <2>1. AppendPeersFile(f, d) = [lines |-> glued, ended |-> TRUE]
    BY <1>4 DEF AppendPeersFile
  <2>2. front \in Seq(Line) /\ Last(f.lines) \in Line /\ f.lines = Append(front, Last(f.lines))
    BY <1>1, <1>4, FrontAndLast
  <2>3. glued \in Seq(Line) /\ glued # <<>>
    BY <2>2, GlueType, AppendProperties
  <2>4. AppendPeersFile(f, d) \in TextFile
    <3> HIDE DEF glued
    <3> QED
      BY <2>1, <2>3 DEF TextFile
  <2>5. ASSUME Last(f.lines) = Blank
        PROVE  /\ Listed(glued) = Listed(f.lines) \cup {d}
               /\ Front(ParsePeersFile(glued)) = ParsePeersFile(f.lines)
    <3>1. glued = Append(front, IdLine(d, NoName))
      BY <1>2, <2>5, GlueType
    <3>2. ParsePeersFile(f.lines) = ParsePeersFile(front)
      BY <1>2, <2>2, <2>5, AppendedLine
    <3>3. Listed(f.lines) = Listed(front)
      BY <3>2 DEF Listed
    <3> HIDE DEF front
    <3>4. /\ Listed(glued) = Listed(front) \cup {d}
          /\ Front(ParsePeersFile(glued)) = ParsePeersFile(front)
      BY <2>2, <3>1, AppendedId
    <3> QED
      BY <3>2, <3>3, <3>4
  <2> QED
    BY <1>4, <2>1, <2>4, <2>5
<1> QED
  BY <1>1, <1>3, <1>4

\* Without goes through the IDs one by one.
LEMMA WithoutRuns ==
    ASSUME NEW ids \in Seq(Ids), NEW known
    PROVE  \E acc \in [0..Len(ids) -> Seq(Ids)] :
              /\ acc[0] = <<>>
              /\ \A i \in 1..Len(ids) : acc[i] = IF ids[i] \in known THEN acc[i - 1]
                                                 ELSE Append(acc[i - 1], ids[i])
              /\ Without(ids, known) = acc[Len(ids)]
<1> DEFINE n == Len(ids)
           Op(out, d) == IF d \in known THEN out ELSE Append(out, d)
           Rec(f) == [s \in SUBSET (1..n) |->
                        IF s = {} THEN <<>> ELSE Op(f[s \ {Max(s)}], ids[Max(s)])]
           iter == CHOOSE f : f = Rec(f)
           acc == [i \in 0..n |-> iter[1..i]]
<1>1. n \in Nat /\ DOMAIN ids = 1..n /\ \A i \in 1..n : ids[i] \in Ids
  BY LenProperties, ElementOfSeq
<1>2. Without(ids, known) = iter[1..n]
  BY <1>1 DEF Without, FoldLeft, MapThenFoldSet
<1>3. <<>> \in Seq(Ids) /\ \A out \in Seq(Ids), d \in Ids : Op(out, d) \in Seq(Ids)
  BY EmptySeq, AppendProperties
<1>4. iter = Rec(iter)
  <2> DEFINE step == [al \in Seq(Ids) \X Ids |-> Op(al[1], al[2])]
  <2>1. step \in [Seq(Ids) \X Ids -> Seq(Ids)]
    BY <1>3
  <2>2. PICK f \in [SUBSET (1..n) -> Seq(Ids)] : FoldsSets(f, <<>>, step, ids, n)
    <3> HIDE DEF step
    <3> QED
      BY <1>3, <2>1, FoldExists
  <2>3. ASSUME NEW S \in SUBSET (1..n), S # {}
        PROVE  f[S] = Op(f[S \ {Max(S)}], ids[Max(S)])
    <3>1. Max(S) \in 1..n
      BY <1>1, <2>3, FirstAndLast
    <3>2. f[S \ {Max(S)}] \in Seq(Ids) /\ ids[Max(S)] \in Ids
      BY <1>1, <3>1
    <3> QED
      BY <2>2, <2>3, <3>2 DEF FoldsSets
  <2>4. f = Rec(f)
    <3> HIDE DEF Op
    <3> QED
      BY <2>2, <2>3 DEF FoldsSets
  <2> HIDE DEF Rec
  <2> QED
    BY <2>4
<1> HIDE DEF iter, Op
<1>5. acc[0] = <<>>
  BY <1>1, <1>4
<1>6. ASSUME NEW i \in 1..n PROVE acc[i] = Op(acc[i - 1], ids[i])
  <2>1. i \in Nat /\ i > 0 /\ 1..i \in SUBSET (1..n) /\ i - 1 \in 0..n /\ i \in 0..n
    BY <1>1
  <2>2. iter[1..i] = Rec(iter)[1..i]
    BY <1>4
  <2>3. 1..i # {} /\ Max(1..i) = i /\ (1..i) \ {i} = 1..(i - 1)
    BY <2>1, Prefix
  <2>4. iter[1..i] = Op(iter[1..(i - 1)], ids[i])
    BY <2>1, <2>2, <2>3
  <2> QED
    BY <2>1, <2>4
<1>7. \A i \in 0..n : acc[i] \in Seq(Ids)
  <2> HIDE DEF acc
  <2> DEFINE S == {i \in 0..n : acc[i] \in Seq(Ids)}
  <2>1. 0 \in S
    <3>1. acc[0] \in Seq(Ids)
      BY <1>5, EmptySeq
    <3>2. 0 \in 0..n
      BY <1>1
    <3> QED
      BY <3>1, <3>2
  <2>2. ASSUME NEW i \in 1..n, i - 1 \in S PROVE i \in S
    <3>1. acc[i - 1] \in Seq(Ids) /\ ids[i] \in Ids /\ i \in 0..n
      BY <1>1, <2>2
    <3>2. acc[i] \in Seq(Ids)
      BY <1>3, <1>6, <3>1
    <3> QED
      BY <3>1, <3>2
  <2> HIDE DEF S
  <2>3. \A i \in 0..n : i \in S
    BY <1>1, <2>1, <2>2, BoundedInduction
  <2> QED
    BY <2>3 DEF S
<1>8. acc \in [0..n -> Seq(Ids)] /\ Without(ids, known) = acc[n]
  BY <1>1, <1>2, <1>7
<1> HIDE DEF acc
<1> QED
  BY <1>5, <1>6, <1>8 DEF Op

\* One more element in a sequence, one more in its set.
LEMMA ToSetAppend ==
    ASSUME NEW T, NEW s \in Seq(T), NEW e \in T
    PROVE  ToSet(Append(s, e)) = ToSet(s) \cup {e}
<1> DEFINE t == Append(s, e)
<1>1. Len(s) \in Nat /\ DOMAIN s = 1..Len(s) /\ DOMAIN t = 1..(Len(s) + 1)
  BY LenProperties, AppendProperties
<1>2. t[Len(s) + 1] = e /\ \A i \in 1..Len(s) : t[i] = s[i]
  BY AppendProperties
<1> HIDE DEF t
<1>3. ToSet(t) = ToSet(s) \cup {e}
  BY <1>1, <1>2 DEF ToSet
<1> QED
  BY <1>3 DEF t

\* Without keeps exactly the IDs that are not known.
LEMMA WithoutKeeps ==
    ASSUME NEW ids \in Seq(Ids), NEW known
    PROVE  Without(ids, known) \in Seq(Ids) /\ ToSet(Without(ids, known)) = ToSet(ids) \ known
<1> DEFINE n == Len(ids)
<1>1. n \in Nat /\ DOMAIN ids = 1..n /\ \A i \in 1..n : ids[i] \in Ids
  BY LenProperties, ElementOfSeq
<1>2. PICK acc \in [0..n -> Seq(Ids)] :
              /\ acc[0] = <<>>
              /\ \A i \in 1..n : acc[i] = IF ids[i] \in known THEN acc[i - 1]
                                          ELSE Append(acc[i - 1], ids[i])
              /\ Without(ids, known) = acc[n]
  BY WithoutRuns
<1> DEFINE Seen(i) == {ids[j] : j \in 1..i}
<1>3. Seen(0) = {} /\ Seen(n) = ToSet(ids)
      /\ \A i \in 1..n : Seen(i) = Seen(i - 1) \cup {ids[i]}
  BY <1>1 DEF ToSet
<1> HIDE DEF Seen
<1> DEFINE S == {i \in 0..n : ToSet(acc[i]) = Seen(i) \ known}
<1>4. 0 \in S
  <2>1. acc[0] = <<>> /\ ToSet(<<>>) = {}
    BY <1>2 DEF ToSet
  <2>2. ToSet(acc[0]) = Seen(0) \ known
    BY <1>3, <2>1
  <2>3. 0 \in 0..n
    BY <1>1
  <2> QED
    BY <2>2, <2>3
<1>5. ASSUME NEW i \in 1..n, i - 1 \in S PROVE i \in S
  <2>1. i \in 0..n /\ i - 1 \in 0..n /\ ids[i] \in Ids
        /\ ToSet(acc[i - 1]) = Seen(i - 1) \ known
    BY <1>1, <1>5
  <2>2. ToSet(acc[i]) = Seen(i) \ known
    <3>1. CASE ids[i] \in known
      BY <1>2, <1>3, <2>1, <3>1
    <3>2. CASE ids[i] \notin known
      <4>1. acc[i] = Append(acc[i - 1], ids[i]) /\ acc[i - 1] \in Seq(Ids)
        BY <1>2, <2>1, <3>2
      <4>2. ToSet(acc[i]) = ToSet(acc[i - 1]) \cup {ids[i]}
        BY <2>1, <4>1, ToSetAppend
      <4> QED
        BY <1>3, <2>1, <3>2, <4>2
    <3> QED
      BY <3>1, <3>2
  <2> QED
    BY <2>1, <2>2
<1> HIDE DEF S
<1>6. n \in S
  <2>1. \A i \in 0..n : i \in S
    BY <1>1, <1>4, <1>5, BoundedInduction
  <2> QED
    BY <1>1, <2>1
<1> QED
  BY <1>1, <1>2, <1>3, <1>6 DEF S

-----------------------------------------------------------------------------
(* plop pair, the starting daemon and the editor.                          *)

Stages == {"idle", "append", "line", "stat", "create", "template"}

TypeOK ==
    /\ file \in TextFile \cup {NoFile}
    /\ pc \in [Procs -> Stages] /\ unlinked \subseteq Procs
    /\ starter \in [Procs -> BOOLEAN]
    /\ todo \in [Procs -> Seq(Ids)]
    /\ paired \subseteq Ids /\ upset \subseteq Accidents

\* Who is about to append has something to append, and who has peers.txt open has a
\* peers.txt.
HasWork ==
    \A p \in Procs :
        /\ pc[p] \in {"append", "line"} => todo[p] # <<>>
        /\ pc[p] \in {"line", "template"} /\ p \notin unlinked => file # NoFile

PairInv == TypeOK /\ HasWork /\ OnlyAccidents

\* The write of an ID, an accident or not.
LEMMA AppendLineStep ==
    ASSUME TypeOK, HasWork, NEW p \in Procs, AppendLine(p)
    PROVE  /\ TypeOK' /\ HasWork'
           /\ p \notin unlinked /\ ~Unended =>
                /\ Listed(Lines(file')) = Listed(Lines(file)) \cup {Head(todo[p])}
                /\ Front(ParsePeersFile(Lines(file'))) = ParsePeersFile(Lines(file))
<1> DEFINE d == Head(todo[p])
<1>1. d \in Ids /\ Tail(todo[p]) \in Seq(Ids)
  BY HeadTailProperties DEF TypeOK, HasWork, AppendLine
<1>2. pc' \in [Procs -> Stages] /\ todo' \in [Procs -> Seq(Ids)]
      /\ starter' = starter /\ paired' \subseteq Ids /\ unlinked' \subseteq Procs
      /\ upset' \subseteq Accidents
  BY <1>1 DEF AppendLine, TypeOK, Stages, Accidents
<1>3. \A q \in Procs : pc'[q] \in {"append", "line"} => todo'[q] # <<>>
  BY DEF AppendLine, TypeOK, HasWork
<1>4. CASE p \in unlinked
  <2>1. file' = file
    BY <1>4 DEF AppendLine
  <2>2. HasWork'
    BY <1>3, <2>1 DEF AppendLine, TypeOK, HasWork
  <2> QED
    BY <1>2, <1>4, <2>1, <2>2 DEF TypeOK
<1>5. CASE p \notin unlinked
  <2>1. file \in TextFile /\ file # NoFile /\ Lines(file) = file.lines
    BY <1>5 DEF TypeOK, HasWork, AppendLine, Lines
  <2>2. file' = AppendPeersFile(file, d)
    BY <1>5 DEF AppendLine
  <2>3. file' \in TextFile /\ file' # NoFile /\ Lines(file') = AppendPeersFile(file, d).lines
    BY <1>1, <2>1, <2>2, AppendToFile, FilesAssumption DEF Lines
  <2>4. HasWork'
    BY <1>3, <2>3 DEF AppendLine, TypeOK, HasWork
  <2>5. ASSUME ~Unended PROVE file.ended \/ Last(file.lines) = Blank
    BY <2>1, <2>5 DEF Unended
  <2> QED
    BY <1>1, <1>2, <2>1, <2>3, <2>4, <2>5, AppendToFile DEF TypeOK
<1> QED
  BY <1>4, <1>5

\* What is left below the template is lines.
LEMMA OverlaidType ==
    ASSUME NEW f \in TextFile, NEW g \in Overlaid(f)
    PROVE  g \in TextFile
<1> DEFINE lines == f.lines
           n == Len(lines)
<1>1. lines \in Seq(Line) /\ f.ended \in BOOLEAN /\ n \in Nat /\ \A i \in 1..n : lines[i] \in Line
  BY LenProperties, ElementOfSeq DEF TextFile
<1>2. Comment(Example) \in Line /\ Junk \in Line
  BY NamesAssumption DEF Line
<1>3. ASSUME NEW i \in 1..(n + 1) PROVE SubSeq(lines, i, n) \in Seq(Line)
  <2> HIDE DEF lines, n
  <2>1. i \in Int /\ n \in Int /\ \A j \in i..n : lines[j] \in Line
    BY <1>1
  <2> QED
    BY <2>1, SubSeqProperties
<1> HIDE DEF n
<1>4. ASSUME NEW rest \in Rests(lines) PROVE rest \in Seq(Line)
  <2>1. CASE \E i \in 2..n : rest = SubSeq(lines, i, n)
    BY <1>1, <1>3, <2>1
  <2>2. ASSUME NEW i \in 1..n, rest = <<Junk>> \o SubSeq(lines, i + 1, n) PROVE rest \in Seq(Line)
    <3>1. i + 1 \in 1..(n + 1)
      BY <1>1
    <3>2. SubSeq(lines, i + 1, n) \in Seq(Line) /\ <<Junk>> \in Seq(Line)
      BY <1>2, <1>3, <3>1
    <3> QED
      BY <2>2, <3>2, ConcatProperties
  <2> QED
    BY <2>1, <2>2 DEF Rests, n
<1>5. CASE g = PeersFileTemplate
  BY <1>2, <1>5 DEF PeersFileTemplate, TextFile
<1>6. ASSUME NEW rest \in Rests(lines), g = [lines |-> <<Comment(Example)>> \o rest, ended |-> f.ended]
      PROVE  g \in TextFile
  <2> DEFINE all == <<Comment(Example)>> \o rest
  <2>1. rest \in Seq(Line) /\ <<Comment(Example)>> \in Seq(Line) /\ Len(<<Comment(Example)>>) = 1
    BY <1>2, <1>4
  <2>2. all \in Seq(Line) /\ Len(all) = 1 + Len(rest) /\ Len(rest) \in Nat
    BY <2>1, ConcatProperties, LenProperties
  <2> HIDE DEF all
  <2>3. all # <<>>
    BY <2>2
  <2>4. g.lines = all /\ g = [lines |-> all, ended |-> f.ended]
    BY <1>6 DEF all
  <2> QED
    BY <1>1, <2>2, <2>3, <2>4 DEF TextFile
<1> QED
  BY <1>5, <1>6 DEF Overlaid

\* The flags of a daemon are IDs.
LEMMA FlagsType == \A flags \in Flags : flags \in Seq(Ids)
<1>1. <<>> \in Seq(Ids) /\ \A d \in Ids : <<d>> \in Seq(Ids)
  BY EmptySeq
<1>2. \A d, e \in Ids : <<d, e>> \in Seq(Ids)
  OBVIOUS
<1> SUFFICES ASSUME NEW flags \in Flags PROVE flags \in Seq(Ids)
  OBVIOUS
<1>3. CASE flags = <<>>
  BY <1>1, <1>3
<1>4. CASE \E d \in Ids : flags = <<d>>
  BY <1>1, <1>4
<1>5. CASE \E d, e \in Ids : flags = <<d, e>>
  BY <1>2, <1>5
<1> QED
  BY <1>3, <1>4, <1>5 DEF Flags

\* Nobody is listed where there are no lines, nor by the template.
LEMMA NobodyListed == Listed(<<>>) = {} /\ Listed(PeersFileTemplate.lines) = {}
<1>1. <<>> \in Seq(Line) /\ Len(<<>>) = 0
  BY EmptySeq
<1>2. ParsePeersFile(<<>>) = <<>>
  <2>1. PICK acc \in [0..Len(<<>>) -> Scan] :
              acc[0] = Start /\ ParsePeersFile(<<>>) = acc[Len(<<>>)].entries
    BY <1>1, ParseRuns
  <2> QED
    BY <1>1, <2>1 DEF Start
<1>3. ParsePeersFile(PeersFileTemplate.lines) = <<>>
  <2>1. Comment(Example) \in Line /\ Comment(Example).kind # "id"
    BY NamesAssumption DEF Line, Comment
  <2>2. PeersFileTemplate.lines = Append(<<>>, Comment(Example))
    BY DEF PeersFileTemplate
  <2> QED
    BY <1>1, <1>2, <2>1, <2>2, AppendedLine
<1> QED
  BY <1>2, <1>3 DEF Listed, ToSet

\* A file that has just been created is a text.
LEMMA EmptyFileIs == EmptyFile \in TextFile /\ EmptyFile.lines = <<>>
  BY EmptySeq DEF EmptyFile, TextFile

\* Every step of a process, of the user and of the editor keeps the invariant.
LEMMA PairStep == PairInv /\ [Next]_vars => PairInv'
<1> SUFFICES ASSUME TypeOK, HasWork, OnlyAccidents, [Next]_vars
             PROVE  TypeOK' /\ HasWork' /\ OnlyAccidents'
  BY DEF PairInv
<1>1. CASE UNCHANGED vars
  BY <1>1 DEF vars, TypeOK, HasWork, OnlyAccidents, PairedIsListed
<1>2. CASE Save
  BY <1>2, FilesAssumption DEF Save, Opened, TypeOK, HasWork, OnlyAccidents, PairedIsListed
<1>3. CASE Delete
  BY <1>3 DEF Delete, Opened, TypeOK, HasWork, OnlyAccidents, PairedIsListed
<1>4. ASSUME NEW p \in Procs, NEW d \in Ids, Pair(p, d)
      PROVE  TypeOK' /\ HasWork' /\ OnlyAccidents'
  <2>1. <<d>> \in Seq(Ids) /\ <<d>> # <<>>
    OBVIOUS
  <2>2. TypeOK' /\ HasWork'
    BY <1>4, <2>1 DEF Pair, TypeOK, Stages, HasWork
  <2> QED
    BY <1>4, <2>2 DEF Pair, OnlyAccidents, PairedIsListed
<1>5. ASSUME NEW p \in Procs, NEW flags \in Flags, StartDaemon(p, flags)
      PROVE  TypeOK' /\ HasWork' /\ OnlyAccidents'
  <2>1. PICK new \in Seq(Ids) : todo' = [todo EXCEPT ![p] = new] /\ todo'[p] = new
    BY <1>5, FlagsType, WithoutKeeps DEF StartDaemon, TypeOK
  <2>2. TypeOK' /\ HasWork'
    BY <1>5, <2>1 DEF StartDaemon, TypeOK, Stages, HasWork
  <2> QED
    BY <1>5, <2>2 DEF StartDaemon, OnlyAccidents, PairedIsListed
<1>6. ASSUME NEW p \in Procs, AppendOpen(p)
      PROVE  TypeOK' /\ HasWork' /\ OnlyAccidents'
  <2>1. /\ file' \in TextFile /\ file' # NoFile /\ Lines(file') = Lines(file)
        /\ UNCHANGED <<unlinked, starter, todo, paired, upset>>
    BY <1>6, EmptyFileIs, FilesAssumption DEF AppendOpen, TypeOK, Lines, EmptyFile
  <2>2. pc' \in [Procs -> Stages]
    BY <1>6 DEF AppendOpen, TypeOK, Stages
  <2>3. HasWork'
    BY <1>6, <2>1 DEF AppendOpen, TypeOK, HasWork
  <2> QED
    BY <2>1, <2>2, <2>3 DEF TypeOK, OnlyAccidents, PairedIsListed
<1>7. ASSUME NEW p \in Procs, AppendLine(p)
      PROVE  TypeOK' /\ HasWork' /\ OnlyAccidents'
  <2>1. TypeOK' /\ HasWork'
    BY <1>7, AppendLineStep
  <2>2. ASSUME upset' = {} PROVE PairedIsListed'
    <3>1. p \notin unlinked /\ ~Unended /\ upset = {}
      BY <1>7, <2>2 DEF AppendLine
    <3> QED
      BY <1>7, <3>1, AppendLineStep DEF AppendLine, OnlyAccidents, PairedIsListed
  <2> QED
    BY <2>1, <2>2 DEF OnlyAccidents
<1>8. ASSUME NEW p \in Procs, EnsureStat(p)
      PROVE  TypeOK' /\ HasWork' /\ OnlyAccidents'
  BY <1>8 DEF EnsureStat, TypeOK, Stages, HasWork, OnlyAccidents, PairedIsListed
<1>9. ASSUME NEW p \in Procs, EnsureCreate(p)
      PROVE  TypeOK' /\ HasWork' /\ OnlyAccidents'
  <2>1. /\ file' \in TextFile /\ file' # NoFile /\ Lines(file') = <<>>
        /\ UNCHANGED <<unlinked, starter, todo, paired>> /\ upset' \in {upset, upset \cup {"overwritten"}}
    BY <1>9, EmptyFileIs, FilesAssumption DEF EnsureCreate, Lines, EmptyFile
  <2>2. pc' \in [Procs -> Stages] /\ HasWork'
    BY <1>9, <2>1 DEF EnsureCreate, TypeOK, Stages, HasWork
  <2>3. ASSUME upset' = {} PROVE PairedIsListed'
    <3>1. Lines(file) = <<>> /\ upset = {}
      BY <1>9, <2>3 DEF EnsureCreate
    <3> QED
      BY <2>1, <3>1 DEF OnlyAccidents, PairedIsListed
  <2> QED
    BY <2>1, <2>2, <2>3 DEF TypeOK, OnlyAccidents, Accidents
<1>10. ASSUME NEW p \in Procs, EnsureTemplate(p)
       PROVE  TypeOK' /\ HasWork' /\ OnlyAccidents'
  <2>0. /\ UNCHANGED <<starter, todo, paired>> /\ unlinked' = unlinked \ {p}
        /\ pc' = [pc EXCEPT ![p] = "idle"] /\ pc[p] = "template"
    BY <1>10 DEF EnsureTemplate
  <2>1. CASE p \in unlinked
    <3>1. file' = file /\ upset' = upset
      BY <1>10, <2>1 DEF EnsureTemplate
    <3> QED
      BY <2>0, <3>1 DEF TypeOK, Stages, HasWork, OnlyAccidents, PairedIsListed
  <2>2. CASE p \notin unlinked
    <3>0. file \in TextFile /\ Lines(file) = file.lines
      BY <2>0, <2>2 DEF TypeOK, HasWork, Lines
    <3>1. CASE BeginsWithTemplate(file)
      <4>1. file' = file /\ upset' = upset
        BY <1>10, <2>2, <3>1 DEF EnsureTemplate, BeginsWithTemplate
      <4> QED
        BY <2>0, <4>1 DEF TypeOK, Stages, HasWork, OnlyAccidents, PairedIsListed
    <3>2. CASE file.lines = <<>>
      <4>1. file' = PeersFileTemplate /\ upset' = upset
        BY <1>10, <2>2, <3>2 DEF EnsureTemplate, BeginsWithTemplate
      <4>2. PeersFileTemplate \in TextFile /\ PeersFileTemplate # NoFile
        <5>1. PeersFileTemplate \in TextFile
          BY NamesAssumption DEF PeersFileTemplate, TextFile, Line
        <5> QED
          BY <5>1, FilesAssumption
      <4>3. TypeOK' /\ HasWork'
        BY <2>0, <4>1, <4>2 DEF TypeOK, Stages, HasWork
      <4>4. upset = {} => paired = {}
        BY <3>0, <3>2, NobodyListed DEF OnlyAccidents, PairedIsListed
      <4> QED
        BY <2>0, <4>1, <4>3, <4>4 DEF OnlyAccidents, PairedIsListed
    <3>3. CASE file.lines # <<>> /\ ~BeginsWithTemplate(file)
      <4>1. file' \in Overlaid(file) /\ upset' = upset \cup {"overwritten"}
        BY <1>10, <2>2, <3>3 DEF EnsureTemplate
      <4>2. file' \in TextFile /\ file' # NoFile
        BY <3>0, <4>1, OverlaidType, FilesAssumption
      <4> QED
        BY <2>0, <4>1, <4>2 DEF TypeOK, Stages, HasWork, OnlyAccidents, Accidents
    <3> QED
      BY <3>1, <3>2, <3>3
  <2> QED
    BY <2>1, <2>2
<1> QED
  BY <1>1, <1>2, <1>3, <1>4, <1>5, <1>6, <1>7, <1>8, <1>9, <1>10 DEF Next

\* The file, the steps of the processes and what they have decided have their types,
\* and accidents are the only way to lose a peer.
THEOREM PairInvariance == Spec => []PairInv
<1>1. Init => PairInv
  BY EmptySeq DEF Init, PairInv, TypeOK, Stages, HasWork, OnlyAccidents, PairedIsListed
<1> QED
  BY <1>1, PairStep, PTL DEF Spec

\* The scanner loop, which carries a pending name from line to line, names every peer
\* as the comment above ParsePeersFile says, whatever has happened to the file.
THEOREM ParsesAsDocumentedAlways == Spec => []ParsesAsDocumented
<1>1. PairInv => ParsesAsDocumented
  <2>1. PairInv => Lines(file) \in Seq(Line)
    BY EmptySeq DEF PairInv, TypeOK, TextFile, Lines
  <2> QED
    BY <2>1, ParsedIsDocumented DEF ParsesAsDocumented
<1> QED
  BY <1>1, PairInvariance, PTL

\* However any number of commands, starting daemons and saves of the editor
\* interleave, a peer that was announced as paired is only lost to a line that was
\* not ended, to the template opened or written over a text that had just appeared,
\* or with a file that the user deleted or replaced while a command had it open.
THEOREM OnlyAccidentsAlways == Spec => []OnlyAccidents
<1>1. PairInv => OnlyAccidents
  BY DEF PairInv
<1> QED
  BY <1>1, PairInvariance, PTL

\* Appending a peer to ended lines leaves every entry as it was, names included, and
\* adds one behind them.
THEOREM AppendKeepsEntriesAlways == Spec => AppendKeepsEntries
<1>1. PairInv /\ [Next]_vars =>
        [\A p \in Procs : AppendLine(p) /\ p \notin unlinked /\ ~Unended =>
            Front(ParsePeersFile(Lines(file'))) = ParsePeersFile(Lines(file))]_vars
  BY AppendLineStep DEF PairInv
<1> QED
  BY <1>1, PairInvariance, PTL DEF Spec, AppendKeepsEntries

-----------------------------------------------------------------------------
(* The configuration: sequences and their sets.                            *)

Config == [devices : Seq(Device), shared : Seq(Ids)]

\* The IDs of the devices are those at its positions.
LEMMA IdsOfIs ==
    ASSUME NEW devs \in Seq(Device)
    PROVE  /\ IdsOf(devs) = {devs[i].id : i \in 1..Len(devs)}
           /\ IdsOf(devs) \subseteq Ids
<1>1. DOMAIN devs = 1..Len(devs) /\ \A i \in 1..Len(devs) : devs[i] \in Device
  BY LenProperties, ElementOfSeq
<1>2. \A i \in 1..Len(devs) : devs[i].id \in Ids
  BY <1>1 DEF Device
<1> QED
  BY <1>1, <1>2 DEF IdsOf, ToSet

\* FirstAt finds the first device of an ID that is there.
LEMMA FirstAtIs ==
    ASSUME NEW devs \in Seq(Device), NEW id
    PROVE  /\ id \in IdsOf(devs) =>
                /\ FirstAt(devs, id) \in 1..Len(devs)
                /\ devs[FirstAt(devs, id)].id = id
                /\ \A j \in 1..Len(devs) : devs[j].id = id => FirstAt(devs, id) <= j
           /\ id \notin IdsOf(devs) => FirstAt(devs, id) = 0
<1> DEFINE n == Len(devs)
           I == {i \in 1..n : devs[i].id = id}
<1>1. n \in Nat
  BY LenProperties
<1>2. FirstAt(devs, id) = IF I # {} THEN Min(I) ELSE 0
  BY DEF FirstAt, SelectInSeq
<1>3. id \in IdsOf(devs) <=> I # {}
  BY IdsOfIs
<1>4. ASSUME I # {} PROVE Min(I) \in I /\ \A j \in I : Min(I) <= j
  <2>1. I \subseteq 1..n
    OBVIOUS
  <2> HIDE DEF I
  <2> QED
    BY <1>1, <1>4, <2>1, FirstAndLast
<1>5. ASSUME I # {}
      PROVE  /\ Min(I) \in 1..n /\ devs[Min(I)].id = id
             /\ \A j \in 1..n : devs[j].id = id => Min(I) <= j
  BY <1>4, <1>5
<1> HIDE DEF I
<1> QED
  BY <1>2, <1>3, <1>5

\* The name of a device is that at its first position.
LEMMA NameOfIs ==
    ASSUME NEW devs \in Seq(Device), NEW id
    PROVE  /\ id \notin IdsOf(devs) => NameOf(devs, id) = NoName
           /\ \A i \in 1..Len(devs) :
                devs[i].id = id /\ (\A j \in 1..Len(devs) : devs[j].id = id => i <= j)
                   => NameOf(devs, id) = devs[i].name
<1>1. Len(devs) \in Nat
  BY LenProperties
<1>2. ASSUME NEW i \in 1..Len(devs), devs[i].id = id,
             \A j \in 1..Len(devs) : devs[j].id = id => i <= j
      PROVE  NameOf(devs, id) = devs[i].name
  <2>1. id \in IdsOf(devs)
    BY <1>2, IdsOfIs
  <2>2. FirstAt(devs, id) = i
    BY <1>1, <1>2, <2>1, FirstAtIs
  <2> QED
    BY <1>1, <2>2 DEF NameOf
<1>3. id \notin IdsOf(devs) => NameOf(devs, id) = NoName
  BY FirstAtIs DEF NameOf
<1> QED
  BY <1>2, <1>3

\* No device is there twice.
Distinct(devs) == \A i, j \in 1..Len(devs) : devs[i].id = devs[j].id => i = j

\* Then each device has the name that the list has for it.
LEMMA DistinctNames ==
    ASSUME NEW devs \in Seq(Device), Distinct(devs)
    PROVE  /\ \A i \in 1..Len(devs) : NameOf(devs, devs[i].id) = devs[i].name
           /\ \A d \in ToSet(devs) : NameOf(devs, d.id) = d.name
<1>1. Len(devs) \in Nat /\ DOMAIN devs = 1..Len(devs)
  BY LenProperties
<1>2. ASSUME NEW i \in 1..Len(devs) PROVE NameOf(devs, devs[i].id) = devs[i].name
  <2>1. \A j \in 1..Len(devs) : devs[j].id = devs[i].id => i <= j
    BY <1>1 DEF Distinct
  <2> QED
    BY <2>1, NameOfIs
<1> QED
  BY <1>1, <1>2 DEF ToSet

\* A sequence without one of its elements.
LEMMA RemoveAtIs ==
    ASSUME NEW T, NEW s \in Seq(T), NEW k \in 1..Len(s)
    PROVE  /\ RemoveAt(s, k) \in Seq(T)
           /\ Len(RemoveAt(s, k)) = Len(s) - 1
           /\ \A i \in 1..(Len(s) - 1) : RemoveAt(s, k)[i] = IF i < k THEN s[i] ELSE s[i + 1]
<1> DEFINE n == Len(s)
           a == SubSeq(s, 1, k - 1)
           b == SubSeq(s, k + 1, n)
<1>1. n \in Nat /\ \A i \in 1..n : s[i] \in T
  BY LenProperties, ElementOfSeq
<1>2. a \in Seq(T) /\ Len(a) = k - 1 /\ \A i \in 1..(k - 1) : a[i] = s[i]
  <2> DEFINE m == k - 1
  <2>1. m \in Nat /\ \A i \in 1..m : s[i] \in T
    BY <1>1
  <2> HIDE DEF m
  <2>2. /\ SubSeq(s, 1, m) \in Seq(T)
        /\ Len(SubSeq(s, 1, m)) = m
        /\ \A i \in 1..m : SubSeq(s, 1, m)[i] = s[i]
    BY <2>1, SubSeqProperties
  <2> QED
    BY <2>2 DEF m
<1>3. b \in Seq(T) /\ Len(b) = n - k /\ \A i \in 1..(n - k) : b[i] = s[k + i]
  <2> DEFINE m == k + 1
  <2>1. m \in 1..(n + 1) /\ m \in Int /\ n \in Int /\ \A i \in m..n : s[i] \in T
    BY <1>1
  <2> HIDE DEF m, n
  <2>2. /\ SubSeq(s, m, n) \in Seq(T)
        /\ Len(SubSeq(s, m, n)) = IF m <= n THEN n - m + 1 ELSE 0
        /\ \A i \in 1..(n - m + 1) : SubSeq(s, m, n)[i] = s[m + i - 1]
    BY <2>1, SubSeqProperties
  <2>3. Len(SubSeq(s, m, n)) = n - m + 1
    BY <2>1, <2>2
  <2>4. n - m + 1 = n - k /\ \A i \in 1..(n - k) : m + i - 1 = k + i
    BY <2>1 DEF m
  <2> QED
    BY <2>2, <2>3, <2>4 DEF m, n
<1> HIDE DEF a, b
<1>4. /\ a \o b \in Seq(T)
      /\ Len(a \o b) = Len(a) + Len(b)
      /\ \A i \in 1..(Len(a) + Len(b)) : (a \o b)[i] = IF i <= Len(a) THEN a[i]
                                                       ELSE b[i - Len(a)]
  BY <1>2, <1>3, ConcatProperties
<1>5. RemoveAt(s, k) = a \o b
  BY DEF RemoveAt, a, b
<1>6. Len(a) + Len(b) = n - 1
  BY <1>1, <1>2, <1>3
<1>7. ASSUME NEW i \in 1..(n - 1) PROVE (a \o b)[i] = IF i < k THEN s[i] ELSE s[i + 1]
  <2>1. (a \o b)[i] = IF i <= k - 1 THEN a[i] ELSE b[i - (k - 1)]
    BY <1>2, <1>4, <1>6
  <2>2. CASE i < k
    BY <1>1, <1>2, <2>1, <2>2
  <2>3. CASE ~(i < k)
    <3>1. i - (k - 1) \in 1..(n - k) /\ k + (i - (k - 1)) = i + 1 /\ ~(i <= k - 1)
      BY <1>1, <2>3
    <3> QED
      BY <1>3, <2>1, <2>3, <3>1
  <2> QED
    BY <2>2, <2>3
<1> QED
  BY <1>4, <1>5, <1>6, <1>7

\* Removing from a sequence without repetition removes from its set, and nothing else.
LEMMA RemoveAtSet ==
    ASSUME NEW T, NEW s \in Seq(T), NEW k \in 1..Len(s),
           \A i \in 1..Len(s) : s[i] = s[k] => i = k
    PROVE  ToSet(RemoveAt(s, k)) = ToSet(s) \ {s[k]}
<1> DEFINE n == Len(s)
           t == RemoveAt(s, k)
<1>1. n \in Nat /\ DOMAIN s = 1..n
  BY LenProperties
<1>2. /\ DOMAIN t = 1..(n - 1)
      /\ \A i \in 1..(n - 1) : t[i] = IF i < k THEN s[i] ELSE s[i + 1]
  BY RemoveAtIs, LenProperties
<1> HIDE DEF t
<1>3. ASSUME NEW i \in 1..(n - 1) PROVE t[i] \in {s[j] : j \in 1..n} /\ t[i] # s[k]
  <2>1. CASE i < k
    BY <1>1, <1>2, <2>1
  <2>2. CASE ~(i < k)
    <3>1. i + 1 \in 1..n /\ i + 1 # k
      BY <1>1, <2>2
    <3> QED
      BY <1>2, <2>2, <3>1
  <2> QED
    BY <2>1, <2>2
<1>4. ASSUME NEW j \in 1..n, j # k PROVE \E i \in 1..(n - 1) : t[i] = s[j]
  <2>1. CASE j < k
    <3>1. j \in 1..(n - 1)
      BY <1>1, <2>1
    <3> QED
      BY <1>2, <2>1, <3>1
  <2>2. CASE j > k
    <3>1. j - 1 \in 1..(n - 1) /\ ~(j - 1 < k) /\ (j - 1) + 1 = j
      BY <1>1, <2>2
    <3> QED
      BY <1>2, <3>1
  <2> QED
    BY <1>1, <1>4, <2>1, <2>2
<1>5. ToSet(t) = ToSet(s) \ {s[k]}
  <2>1. ToSet(t) = {t[i] : i \in 1..(n - 1)} /\ ToSet(s) = {s[j] : j \in 1..n}
    BY <1>1, <1>2 DEF ToSet
  <2>2. \A j \in 1..n : s[j] # s[k] => j # k
    OBVIOUS
  <2>3. ASSUME NEW x \in ToSet(t) PROVE x \in ToSet(s) \ {s[k]}
    BY <1>3, <2>1
  <2>4. ASSUME NEW x \in ToSet(s), x # s[k] PROVE x \in ToSet(t)
    <3>1. PICK j \in 1..n : x = s[j]
      BY <2>1
    <3>2. j # k
      BY <2>2, <2>4, <3>1
    <3> QED
      BY <1>4, <2>1, <3>1, <3>2
  <2> QED
    BY <2>3, <2>4
<1> QED
  BY <1>5 DEF t

\* No device and no share is there twice.
Clean(cfg) == cfg \in Config /\ Distinct(cfg.devices) /\ IsInjective(cfg.shared)

\* RemovePeer takes an ID out of both lists.
LEMMA RemovePeerIs ==
    ASSUME NEW cfg, Clean(cfg), NEW id \in Ids
    PROVE  /\ Clean(RemovePeer(cfg, id))
           /\ ToSet(RemovePeer(cfg, id).devices) = {d \in ToSet(cfg.devices) : d.id # id}
           /\ ToSet(RemovePeer(cfg, id).shared) = ToSet(cfg.shared) \ {id}
<1> DEFINE devs == cfg.devices
           n == Len(devs)
           newDevs == RemovePeer(cfg, id).devices
           shr == cfg.shared
           m == Len(shr)
           newShr == RemovePeer(cfg, id).shared
<1>1. /\ devs \in Seq(Device) /\ n \in Nat /\ DOMAIN devs = 1..n
      /\ \A i \in 1..n : devs[i] \in Device
      /\ shr \in Seq(Ids) /\ m \in Nat /\ DOMAIN shr = 1..m
      /\ \A i \in 1..m : shr[i] \in Ids
  <2>1. devs \in Seq(Device) /\ shr \in Seq(Ids)
    BY DEF Clean, Config
  <2> HIDE DEF devs, shr
  <2> QED
    BY <2>1, LenProperties, ElementOfSeq
<1>2. Distinct(devs) /\ IsInjective(shr)
  BY DEF Clean
<1>3. RemovePeer(cfg, id) = [devices |-> newDevs, shared |-> newShr]
  BY DEF RemovePeer
<1>4. /\ newDevs \in Seq(Device) /\ Distinct(newDevs)
      /\ ToSet(newDevs) = {d \in ToSet(devs) : d.id # id}
  <2>1. CASE id \in IdsOf(devs)
    <3> DEFINE k == FirstAt(devs, id)
    <3>1. k \in 1..n /\ devs[k].id = id
      BY <1>1, <2>1, FirstAtIs
    <3>2. newDevs = RemoveAt(devs, k)
      BY <3>1 DEF RemovePeer, RemoveFirstMatch, FirstAt
    <3> HIDE DEF k, devs, newDevs
    <3>3. /\ newDevs \in Seq(Device) /\ Len(newDevs) = n - 1
          /\ \A i \in 1..(n - 1) : newDevs[i] = IF i < k THEN devs[i] ELSE devs[i + 1]
      BY <1>1, <3>1, <3>2, RemoveAtIs
    <3>4. Distinct(newDevs)
      BY <1>1, <1>2, <3>1, <3>3 DEF Distinct
    <3>5. \A i \in 1..n : devs[i] = devs[k] => i = k
      BY <1>2, <3>1 DEF Distinct
    <3>6. ToSet(newDevs) = ToSet(devs) \ {devs[k]}
      BY <1>1, <3>1, <3>2, <3>5, RemoveAtSet
    <3>7. \A d \in ToSet(devs) : d.id = id <=> d = devs[k]
      BY <1>1, <1>2, <3>1 DEF Distinct, ToSet
    <3> QED
      BY <3>3, <3>4, <3>6, <3>7
  <2>2. CASE id \notin IdsOf(devs)
    <3>1. ~\E i \in 1..n : devs[i].id = id
      BY <1>1, <2>2, IdsOfIs
    <3>2. newDevs = devs
      BY <3>1 DEF RemovePeer, RemoveFirstMatch
    <3>3. \A d \in ToSet(devs) : d.id # id
      BY <1>1, <3>1 DEF ToSet
    <3> HIDE DEF devs, newDevs
    <3> QED
      BY <1>1, <1>2, <3>2, <3>3
  <2> QED
    BY <2>1, <2>2
<1>5. newShr \in Seq(Ids) /\ IsInjective(newShr) /\ ToSet(newShr) = ToSet(shr) \ {id}
  <2>1. CASE \E i \in 1..m : shr[i] = id
    <3> DEFINE I == {i \in 1..m : shr[i] = id}
               k == Min(I)
    <3>1. k \in 1..m /\ shr[k] = id
      <4>1. I \subseteq 1..m /\ I # {}
        BY <2>1
      <4>2. k \in I
        <5> HIDE DEF I
        <5> QED
          BY <1>1, <4>1, FirstAndLast
      <4> QED
        BY <4>2
    <3>2. newShr = RemoveAt(shr, k)
      BY <2>1 DEF RemovePeer, RemoveFirst, SelectInSeq
    <3> HIDE DEF k, shr, newShr
    <3>3. /\ newShr \in Seq(Ids) /\ Len(newShr) = m - 1
          /\ \A i \in 1..(m - 1) : newShr[i] = IF i < k THEN shr[i] ELSE shr[i + 1]
      BY <1>1, <3>1, <3>2, RemoveAtIs
    <3>4. IsInjective(newShr)
      <4>1. DOMAIN newShr = 1..(m - 1)
        BY <3>3, LenProperties
      <4>2. \A i, j \in 1..m : shr[i] = shr[j] => i = j
        BY <1>1, <1>2 DEF IsInjective
      <4>3. ASSUME NEW i \in 1..(m - 1), NEW j \in 1..(m - 1), newShr[i] = newShr[j]
            PROVE  i = j
        <5> DEFINE at(x) == IF x < k THEN x ELSE x + 1
        <5>1. at(i) \in 1..m /\ at(j) \in 1..m
          BY <1>1, <3>1
        <5>2. shr[at(i)] = shr[at(j)]
          BY <3>3, <4>3
        <5>3. at(i) = at(j)
          BY <4>2, <5>1, <5>2
        <5> QED
          BY <1>1, <3>1, <5>3
      <4> QED
        BY <4>1, <4>3 DEF IsInjective
    <3>5. \A i \in 1..m : shr[i] = shr[k] => i = k
      BY <1>1, <1>2, <3>1 DEF IsInjective
    <3>6. ToSet(newShr) = ToSet(shr) \ {shr[k]}
      BY <1>1, <3>1, <3>2, <3>5, RemoveAtSet
    <3> QED
      BY <3>1, <3>3, <3>4, <3>6
  <2>2. CASE ~\E i \in 1..m : shr[i] = id
    <3>1. newShr = shr
      BY <2>2 DEF RemovePeer, RemoveFirst
    <3>2. id \notin ToSet(shr)
      BY <1>1, <2>2 DEF ToSet
    <3> HIDE DEF shr, newShr
    <3> QED
      BY <1>1, <1>2, <3>1, <3>2
  <2> QED
    BY <2>1, <2>2
<1> HIDE DEF newDevs, newShr
<1> QED
  BY <1>3, <1>4, <1>5 DEF Clean, Config

\* What AddPeer makes of the device list.
Added(devs, p) == IF p.id \in IdsOf(devs) THEN Renamed(devs, p) ELSE Append(devs, p)

\* AddPeer on the device list: the ID is there afterwards, the first device with it
\* has the name, if there is one, and everything else is as it was.
LEMMA AddDevice ==
    ASSUME NEW devs \in Seq(Device), NEW p \in Device
    PROVE  /\ Added(devs, p) \in Seq(Device)
           /\ IdsOf(Added(devs, p)) = IdsOf(devs) \cup {p.id}
           /\ \A id \in Ids : NameOf(Added(devs, p), id) =
                 IF id = p.id /\ p.name # NoName THEN p.name ELSE NameOf(devs, id)
           /\ p.id \in IdsOf(devs) =>
                /\ Len(Added(devs, p)) = Len(devs)
                /\ \A i \in 1..Len(devs) : Added(devs, p)[i].id = devs[i].id
<1> DEFINE n == Len(devs)
           new == Added(devs, p)
           k == FirstAt(devs, p.id)
<1>1. n \in Nat /\ \A i \in 1..n : devs[i] \in Device
  BY LenProperties, ElementOfSeq
<1>2. p.id \in Ids /\ p.name \in Names
  BY DEF Device
<1>3. CASE p.id \in IdsOf(devs) /\ p.name = NoName
  <2>1. new = devs
    BY <1>3 DEF Added, Renamed
  <2> HIDE DEF new
  <2> QED
    BY <1>3, <2>1 DEF new
<1>4. CASE p.id \in IdsOf(devs) /\ p.name # NoName
  <2>1. k \in 1..n /\ devs[k].id = p.id /\ \A j \in 1..n : devs[j].id = p.id => k <= j
    BY <1>4, FirstAtIs
  <2> DEFINE e == [devs[k] EXCEPT !.name = p.name]
  <2>2. e \in Device /\ e.id = p.id /\ e.name = p.name
    BY <1>1, <1>2, <2>1 DEF Device
  <2>3. new = [devs EXCEPT ![k] = e]
    BY <1>4 DEF Added, Renamed
  <2> HIDE DEF k, e, new
  <2>4. /\ new \in Seq(Device) /\ Len(new) = n
        /\ \A j \in 1..n : new[j] = IF j = k THEN e ELSE devs[j]
    BY <2>1, <2>2, <2>3, ExceptSeq
  <2>5. \A j \in 1..n : new[j].id = devs[j].id
    BY <2>1, <2>2, <2>4
  <2>6. IdsOf(new) = IdsOf(devs)
    <3>1. {new[i].id : i \in 1..n} = {devs[i].id : i \in 1..n}
      BY <2>5
    <3> QED
      BY <2>4, <3>1, IdsOfIs
  <2>7. ASSUME NEW id \in Ids
        PROVE  NameOf(new, id) = IF id = p.id /\ p.name # NoName THEN p.name ELSE NameOf(devs, id)
    <3>1. CASE id = p.id
      <4>1. new[k].id = id /\ \A j \in 1..n : new[j].id = id => k <= j
        BY <2>1, <2>5, <3>1
      <4>2. NameOf(new, id) = new[k].name
        BY <2>1, <2>4, <4>1, NameOfIs
      <4> QED
        BY <1>4, <2>1, <2>2, <2>4, <3>1, <4>2
    <3>2. CASE id # p.id /\ id \in IdsOf(devs)
      <4> DEFINE i == FirstAt(devs, id)
      <4>1. i \in 1..n /\ devs[i].id = id /\ \A j \in 1..n : devs[j].id = id => i <= j
        BY <3>2, FirstAtIs
      <4> HIDE DEF i
      <4>2. NameOf(devs, id) = devs[i].name
        BY <4>1, NameOfIs
      <4>3. new[i].id = id /\ \A j \in 1..n : new[j].id = id => i <= j
        BY <2>5, <4>1
      <4>4. NameOf(new, id) = new[i].name
        BY <2>4, <4>1, <4>3, NameOfIs
      <4>5. new[i] = devs[i]
        BY <2>1, <2>4, <3>2, <4>1
      <4> QED
        BY <3>2, <4>2, <4>4, <4>5
    <3>3. CASE id # p.id /\ id \notin IdsOf(devs)
      <4>1. NameOf(devs, id) = NoName /\ NameOf(new, id) = NoName
        BY <2>4, <2>6, <3>3, NameOfIs
      <4> QED
        BY <3>3, <4>1
    <3> QED
      BY <3>1, <3>2, <3>3
  <2> QED
    BY <1>4, <2>4, <2>5, <2>6, <2>7 DEF new
<1>5. CASE p.id \notin IdsOf(devs)
  <2>0. new = Append(devs, p)
    BY <1>5 DEF Added
  <2> HIDE DEF new
  <2>1. /\ new \in Seq(Device) /\ Len(new) = n + 1 /\ new[n + 1] = p
        /\ \A j \in 1..n : new[j] = devs[j]
    BY <2>0, AppendProperties
  <2>2. IdsOf(new) = IdsOf(devs) \cup {p.id}
    <3>1. {new[i].id : i \in 1..(n + 1)} = {devs[i].id : i \in 1..n} \cup {p.id}
      BY <1>1, <2>1
    <3> QED
      BY <2>1, <3>1, IdsOfIs
  <2>3. \A j \in 1..n : devs[j].id # p.id
    BY <1>5, IdsOfIs
  <2>4. ASSUME NEW id \in Ids
        PROVE  NameOf(new, id) = IF id = p.id /\ p.name # NoName THEN p.name ELSE NameOf(devs, id)
    <3>1. CASE id = p.id
      <4>1. NameOf(devs, id) = NoName
        BY <1>5, <3>1, NameOfIs
      <4>2. n + 1 \in 1..(n + 1) /\ new[n + 1].id = id
            /\ \A j \in 1..(n + 1) : new[j].id = id => n + 1 <= j
        BY <1>1, <2>1, <2>3, <3>1
      <4>3. n + 1 \in 1..Len(new) /\ \A j \in 1..Len(new) : new[j].id = id => n + 1 <= j
        BY <2>1, <4>2
      <4>4. NameOf(new, id) = new[n + 1].name
        BY <2>1, <4>2, <4>3, NameOfIs
      <4> QED
        BY <2>1, <3>1, <4>1, <4>4
    <3>2. CASE id # p.id /\ id \in IdsOf(devs)
      <4> DEFINE i == FirstAt(devs, id)
      <4>1. i \in 1..n /\ devs[i].id = id /\ \A j \in 1..n : devs[j].id = id => i <= j
        BY <3>2, FirstAtIs
      <4> HIDE DEF i
      <4>2. NameOf(devs, id) = devs[i].name
        BY <4>1, NameOfIs
      <4>3. i \in 1..(n + 1) /\ new[i].id = id
            /\ \A j \in 1..(n + 1) : new[j].id = id => i <= j
        BY <1>1, <2>1, <4>1
      <4>4. i \in 1..Len(new) /\ \A j \in 1..Len(new) : new[j].id = id => i <= j
        BY <2>1, <4>3
      <4>5. NameOf(new, id) = new[i].name
        BY <2>1, <4>3, <4>4, NameOfIs
      <4> QED
        BY <2>1, <3>2, <4>1, <4>2, <4>5
    <3>3. CASE id # p.id /\ id \notin IdsOf(devs)
      <4>1. NameOf(devs, id) = NoName /\ NameOf(new, id) = NoName
        BY <2>1, <2>2, <3>3, NameOfIs
      <4> QED
        BY <3>3, <4>1
    <3> QED
      BY <3>1, <3>2, <3>3
  <2> QED
    BY <1>5, <2>1, <2>2, <2>4 DEF new
<1> QED
  BY <1>3, <1>4, <1>5

\* What adding p to a configuration changes: its ID is in both lists afterwards, the
\* device has the name if there is one, and a known device stays where it is.
AddsTo(cfg, p, new) ==
    /\ IdsOf(new.devices) = IdsOf(cfg.devices) \cup {p.id}
    /\ ToSet(new.shared) = ToSet(cfg.shared) \cup {p.id}
    /\ \A id \in Ids : NameOf(new.devices, id) =
          IF id = p.id /\ p.name # NoName THEN p.name ELSE NameOf(cfg.devices, id)
    /\ p.id \in IdsOf(cfg.devices) =>
         /\ Len(new.devices) = Len(cfg.devices)
         /\ \A i \in 1..Len(cfg.devices) : new.devices[i].id = cfg.devices[i].id
    /\ p.id \in ToSet(cfg.shared) => new.shared = cfg.shared

\* AddPeer on both lists.
LEMMA AddPeerIs ==
    ASSUME NEW cfg \in Config, NEW p \in Device
    PROVE  AddPeer(cfg, p) \in Config /\ AddsTo(cfg, p, AddPeer(cfg, p))
<1> DEFINE devs == AddPeer(cfg, p).devices
           shr == AddPeer(cfg, p).shared
<1>1. cfg.devices \in Seq(Device) /\ cfg.shared \in Seq(Ids) /\ p.id \in Ids
  BY DEF Config, Device
<1>2. devs = Added(cfg.devices, p)
  BY DEF AddPeer, Added
<1>3. /\ devs \in Seq(Device)
      /\ IdsOf(devs) = IdsOf(cfg.devices) \cup {p.id}
      /\ \A id \in Ids : NameOf(devs, id) =
            IF id = p.id /\ p.name # NoName THEN p.name ELSE NameOf(cfg.devices, id)
      /\ p.id \in IdsOf(cfg.devices) =>
           /\ Len(devs) = Len(cfg.devices)
           /\ \A i \in 1..Len(cfg.devices) : devs[i].id = cfg.devices[i].id
  <2> HIDE DEF devs
  <2> QED
    BY <1>1, <1>2, AddDevice
<1>4. /\ shr \in Seq(Ids) /\ ToSet(shr) = ToSet(cfg.shared) \cup {p.id}
      /\ p.id \in ToSet(cfg.shared) => shr = cfg.shared
  <2>1. Contains(cfg.shared, p.id) <=> p.id \in ToSet(cfg.shared)
    BY <1>1, LenProperties DEF Contains, ToSet
  <2>2. CASE p.id \in ToSet(cfg.shared)
    <3>1. shr = cfg.shared
      BY <2>1, <2>2 DEF AddPeer
    <3> QED
      BY <1>1, <2>2, <3>1
  <2>3. CASE p.id \notin ToSet(cfg.shared)
    <3>1. shr = Append(cfg.shared, p.id)
      BY <2>1, <2>3 DEF AddPeer
    <3> HIDE DEF shr
    <3> QED
      BY <1>1, <2>3, <3>1, AppendProperties, ToSetAppend
  <2> QED
    BY <2>2, <2>3
<1>5. AddPeer(cfg, p) = [devices |-> devs, shared |-> shr]
  BY DEF AddPeer
<1>6. AddPeer(cfg, p) \in Config
  <2> HIDE DEF devs, shr
  <2> QED
    BY <1>3, <1>4, <1>5 DEF Config
<1> HIDE DEF devs, shr
<1> QED
  BY <1>3, <1>4, <1>5, <1>6 DEF AddsTo

\* The loop over the entries of peers.txt.
LEMMA AddRuns ==
    ASSUME NEW cfg \in Config, NEW peers \in Seq(Device)
    PROVE  \E acc \in [0..Len(peers) -> Config] :
              /\ acc[0] = cfg
              /\ \A i \in 1..Len(peers) : acc[i] = AddPeer(acc[i - 1], peers[i])
              /\ FoldLeft(AddPeer, cfg, peers) = acc[Len(peers)]
<1> DEFINE n == Len(peers)
           Rec(f) == [s \in SUBSET (1..n) |->
                        IF s = {} THEN cfg ELSE AddPeer(f[s \ {Max(s)}], peers[Max(s)])]
           iter == CHOOSE f : f = Rec(f)
           acc == [i \in 0..n |-> iter[1..i]]
<1>1. n \in Nat /\ DOMAIN peers = 1..n /\ \A i \in 1..n : peers[i] \in Device
  BY LenProperties, ElementOfSeq
<1>2. FoldLeft(AddPeer, cfg, peers) = iter[1..n]
  BY <1>1 DEF FoldLeft, MapThenFoldSet
<1>3. \A c \in Config, x \in Device : AddPeer(c, x) \in Config
  BY AddPeerIs
<1>4. iter = Rec(iter)
  <2> DEFINE step == [al \in Config \X Device |-> AddPeer(al[1], al[2])]
  <2>1. step \in [Config \X Device -> Config]
    BY <1>3
  <2>2. PICK f \in [SUBSET (1..n) -> Config] : FoldsSets(f, cfg, step, peers, n)
    <3> HIDE DEF step
    <3> QED
      BY <2>1, FoldExists
  <2>3. ASSUME NEW S \in SUBSET (1..n), S # {}
        PROVE  f[S] = AddPeer(f[S \ {Max(S)}], peers[Max(S)])
    <3>1. Max(S) \in 1..n
      BY <1>1, <2>3, FirstAndLast
    <3>2. f[S \ {Max(S)}] \in Config /\ peers[Max(S)] \in Device
      BY <1>1, <3>1
    <3> QED
      BY <2>2, <2>3, <3>2 DEF FoldsSets
  <2>4. f = Rec(f)
    BY <2>2, <2>3 DEF FoldsSets
  <2> HIDE DEF Rec
  <2> QED
    BY <2>4
<1> HIDE DEF iter
<1>5. acc[0] = cfg
  BY <1>1, <1>4
<1>6. ASSUME NEW i \in 1..n PROVE acc[i] = AddPeer(acc[i - 1], peers[i])
  <2>1. i \in Nat /\ i > 0 /\ 1..i \in SUBSET (1..n) /\ i - 1 \in 0..n /\ i \in 0..n
    BY <1>1
  <2>2. iter[1..i] = Rec(iter)[1..i]
    BY <1>4
  <2>3. 1..i # {} /\ Max(1..i) = i /\ (1..i) \ {i} = 1..(i - 1)
    BY <2>1, Prefix
  <2>4. iter[1..i] = AddPeer(iter[1..(i - 1)], peers[i])
    BY <2>1, <2>2, <2>3
  <2> QED
    BY <2>1, <2>4
<1>7. \A i \in 0..n : acc[i] \in Config
  <2> HIDE DEF acc
  <2> DEFINE S == {i \in 0..n : acc[i] \in Config}
  <2>1. 0 \in S
    BY <1>1, <1>5
  <2>2. ASSUME NEW i \in 1..n, i - 1 \in S PROVE i \in S
    <3>1. acc[i - 1] \in Config /\ peers[i] \in Device /\ i \in 0..n
      BY <1>1, <2>2
    <3>2. acc[i] \in Config
      BY <1>3, <1>6, <3>1
    <3> QED
      BY <3>1, <3>2
  <2> HIDE DEF S
  <2>3. \A i \in 0..n : i \in S
    BY <1>1, <2>1, <2>2, BoundedInduction
  <2> QED
    BY <2>3 DEF S
<1>8. acc \in [0..n -> Config] /\ FoldLeft(AddPeer, cfg, peers) = acc[n]
  BY <1>1, <1>2, <1>7
<1> HIDE DEF acc
<1> QED
  BY <1>5, <1>6, <1>8

CleanConfig == {cfg \in Config : Clean(cfg)}

\* The loop over the devices to remove.
LEMMA RemoveRuns ==
    ASSUME NEW cfg \in CleanConfig, NEW ids \in Seq(Ids)
    PROVE  \E acc \in [0..Len(ids) -> CleanConfig] :
              /\ acc[0] = cfg
              /\ \A i \in 1..Len(ids) : acc[i] = RemovePeer(acc[i - 1], ids[i])
              /\ FoldLeft(RemovePeer, cfg, ids) = acc[Len(ids)]
<1> DEFINE n == Len(ids)
           Rec(f) == [s \in SUBSET (1..n) |->
                        IF s = {} THEN cfg ELSE RemovePeer(f[s \ {Max(s)}], ids[Max(s)])]
           iter == CHOOSE f : f = Rec(f)
           acc == [i \in 0..n |-> iter[1..i]]
<1>1. n \in Nat /\ DOMAIN ids = 1..n /\ \A i \in 1..n : ids[i] \in Ids
  BY LenProperties, ElementOfSeq
<1>2. FoldLeft(RemovePeer, cfg, ids) = iter[1..n]
  BY <1>1 DEF FoldLeft, MapThenFoldSet
<1>3. \A c \in CleanConfig, x \in Ids : RemovePeer(c, x) \in CleanConfig
  BY RemovePeerIs DEF CleanConfig, Clean
<1>4. iter = Rec(iter)
  <2> DEFINE step == [al \in CleanConfig \X Ids |-> RemovePeer(al[1], al[2])]
  <2>1. step \in [CleanConfig \X Ids -> CleanConfig]
    BY <1>3
  <2>2. PICK f \in [SUBSET (1..n) -> CleanConfig] : FoldsSets(f, cfg, step, ids, n)
    <3> HIDE DEF step
    <3> QED
      BY <2>1, FoldExists
  <2>3. ASSUME NEW S \in SUBSET (1..n), S # {}
        PROVE  f[S] = RemovePeer(f[S \ {Max(S)}], ids[Max(S)])
    <3>1. Max(S) \in 1..n
      BY <1>1, <2>3, FirstAndLast
    <3>2. f[S \ {Max(S)}] \in CleanConfig /\ ids[Max(S)] \in Ids
      BY <1>1, <3>1
    <3> QED
      BY <2>2, <2>3, <3>2 DEF FoldsSets
  <2>4. f = Rec(f)
    BY <2>2, <2>3 DEF FoldsSets
  <2> HIDE DEF Rec
  <2> QED
    BY <2>4
<1> HIDE DEF iter
<1>5. acc[0] = cfg
  BY <1>1, <1>4
<1>6. ASSUME NEW i \in 1..n PROVE acc[i] = RemovePeer(acc[i - 1], ids[i])
  <2>1. i \in Nat /\ i > 0 /\ 1..i \in SUBSET (1..n) /\ i - 1 \in 0..n /\ i \in 0..n
    BY <1>1
  <2>2. iter[1..i] = Rec(iter)[1..i]
    BY <1>4
  <2>3. 1..i # {} /\ Max(1..i) = i /\ (1..i) \ {i} = 1..(i - 1)
    BY <2>1, Prefix
  <2>4. iter[1..i] = RemovePeer(iter[1..(i - 1)], ids[i])
    BY <2>1, <2>2, <2>3
  <2> QED
    BY <2>1, <2>4
<1>7. \A i \in 0..n : acc[i] \in CleanConfig
  <2> HIDE DEF acc
  <2> DEFINE S == {i \in 0..n : acc[i] \in CleanConfig}
  <2>1. 0 \in S
    BY <1>1, <1>5
  <2>2. ASSUME NEW i \in 1..n, i - 1 \in S PROVE i \in S
    <3>1. acc[i - 1] \in CleanConfig /\ ids[i] \in Ids /\ i \in 0..n
      BY <1>1, <2>2
    <3>2. acc[i] \in CleanConfig
      BY <1>3, <1>6, <3>1
    <3> QED
      BY <3>1, <3>2
  <2> HIDE DEF S
  <2>3. \A i \in 0..n : i \in S
    BY <1>1, <2>1, <2>2, BoundedInduction
  <2> QED
    BY <2>3 DEF S
<1>8. acc \in [0..n -> CleanConfig] /\ FoldLeft(RemovePeer, cfg, ids) = acc[n]
  BY <1>1, <1>2, <1>7
<1> HIDE DEF acc
<1> QED
  BY <1>5, <1>6, <1>8

\* Where there is nothing to remove, nothing changes.
LEMMA RemoveNothing == ASSUME NEW cfg PROVE FoldLeft(RemovePeer, cfg, <<>>) = cfg
<1> DEFINE Rec(f) == [s \in SUBSET (DOMAIN <<>>) |->
                        IF s = {} THEN cfg ELSE RemovePeer(f[s \ {Max(s)}], <<>>[Max(s)])]
           iter == CHOOSE f : f = Rec(f)
           only == [s \in SUBSET (DOMAIN <<>>) |-> cfg]
<1>1. FoldLeft(RemovePeer, cfg, <<>>) = iter[DOMAIN <<>>]
  BY DEF FoldLeft, MapThenFoldSet
<1>2. DOMAIN <<>> = {}
  OBVIOUS
<1>3. only = Rec(only)
  BY <1>2
<1>4. iter = Rec(iter)
  <2> HIDE DEF Rec, only
  <2> QED
    BY <1>3
<1> HIDE DEF iter
<1>5. iter[{}] = cfg
  BY <1>2, <1>4
<1> QED
  BY <1>1, <1>2, <1>5

-----------------------------------------------------------------------------
(* What Syncthing prepares.                                                *)

\* The set of a sequence is finite.
LEMMA FiniteToSet == ASSUME NEW T, NEW s \in Seq(T) PROVE IsFiniteSet(ToSet(s))
<1> DEFINE n == Len(s)
<1>1. n \in Nat /\ DOMAIN s = 1..n /\ s \in [1..n -> T]
  BY LenProperties
<1>2. s \in Surjection(1..n, ToSet(s))
  BY <1>1 DEF Surjection, ToSet
<1>3. IsFiniteSet(1..n)
  BY <1>1, FS_Interval
<1> QED
  BY <1>2, <1>3, FS_Surjection

\* A finite set as a sequence: every element once.
LEMMA SetToSeqIs ==
    ASSUME NEW S, IsFiniteSet(S)
    PROVE  /\ SetToSeq(S) \in Seq(S) /\ IsInjective(SetToSeq(S))
           /\ ToSet(SetToSeq(S)) = S
<1> DEFINE n == Cardinality(S)
           s == SetToSeq(S)
<1>1. n \in Nat /\ ExistsBijection(1..n, S)
  BY FS_CardinalityType
<1>2. \E f \in [1..n -> S] : IsInjective(f)
  BY <1>1 DEF ExistsBijection, Bijection, Injection
<1>3. s \in [1..n -> S] /\ IsInjective(s)
  BY <1>2 DEF SetToSeq
<1> HIDE DEF s
<1>4. s \in Seq(S) /\ DOMAIN s = 1..n
  BY <1>1, <1>3, SeqDef
<1>5. s \in Surjection(1..n, S)
  <2>1. s \in Injection(1..n, S)
    BY <1>3 DEF Injection
  <2>2. IsFiniteSet(1..n) /\ Cardinality(1..n) = n
    <3> HIDE DEF n
    <3> QED
      BY <1>1, FS_Interval
  <2> QED
    BY <2>1, <2>2, FS_Injection
<1>6. ToSet(s) = S
  BY <1>3, <1>4, <1>5 DEF ToSet, Surjection
<1> QED
  BY <1>3, <1>4, <1>6 DEF s

\* A prepared configuration has every device once, under the name it had, and the own
\* one; its folder is shared with devices it has.
LEMMA PreparedIs ==
    ASSUME NEW cfg \in Config
    PROVE  /\ Clean(Prepared(cfg))
           /\ IdsOf(Prepared(cfg).devices) = IdsOf(cfg.devices) \cup {Self}
           /\ ToSet(Prepared(cfg).shared) = (ToSet(cfg.shared) \cap IdsOf(cfg.devices)) \cup {Self}
           /\ \A id \in Ids : NameOf(Prepared(cfg).devices, id) = NameOf(cfg.devices, id)
<1> DEFINE old == cfg.devices
           devs == {old[FirstAt(old, id)] : id \in IdsOf(old)}
           own  == IF Self \in IdsOf(old) THEN {} ELSE {[id |-> Self, name |-> NoName]}
           ids  == (ToSet(cfg.shared) \cap IdsOf(old)) \cup {Self}
           new  == SetToSeq(devs \cup own)
           shr  == SetToSeq(ids)
<1>1. old \in Seq(Device) /\ cfg.shared \in Seq(Ids) /\ Self \in Ids /\ NoName \in Names
  BY SelfAssumption, NamesAssumption DEF Config
<1>2. Prepared(cfg) = [devices |-> new, shared |-> shr]
  BY DEF Prepared
<1> HIDE DEF old
<1>3. IdsOf(old) \subseteq Ids /\ DOMAIN old = 1..Len(old)
      /\ \A i \in 1..Len(old) : old[i] \in Device
  BY <1>1, IdsOfIs, LenProperties, ElementOfSeq
<1>4. \A id \in IdsOf(old) : /\ FirstAt(old, id) \in 1..Len(old)
                             /\ old[FirstAt(old, id)].id = id
                             /\ NameOf(old, id) = old[FirstAt(old, id)].name
  BY <1>1, FirstAtIs, NameOfIs
<1>5. IsFiniteSet(devs \cup own) /\ devs \cup own \subseteq Device
  <2>1. devs \subseteq ToSet(old)
    BY <1>3, <1>4 DEF ToSet
  <2>2. IsFiniteSet(ToSet(old))
    BY <1>1, FiniteToSet
  <2>3. IsFiniteSet(devs)
    <3> HIDE DEF devs
    <3> QED
      BY <2>1, <2>2, FS_Subset
  <2>4. devs \subseteq Device
    BY <1>3, <1>4
  <2>5. own \subseteq Device /\ IsFiniteSet(own)
    <3>1. [id |-> Self, name |-> NoName] \in Device
      BY <1>1 DEF Device
    <3> QED
      BY <3>1, FS_EmptySet, FS_Singleton
  <2> HIDE DEF devs, own
  <2> QED
    BY <2>3, <2>4, <2>5, FS_Union
<1>6. IsFiniteSet(ids) /\ ids \subseteq Ids
  <2>1. IsFiniteSet(ToSet(cfg.shared))
    BY <1>1, FiniteToSet
  <2>2. IsFiniteSet(ToSet(cfg.shared) \cap IdsOf(old))
    BY <2>1, FS_Intersection
  <2>3. IsFiniteSet(ids)
    BY <2>2, FS_AddElement
  <2> QED
    BY <1>1, <1>3, <2>3
<1>7. \A d, e \in devs \cup own : d.id = e.id => d = e
  BY <1>4
<1>8. {d.id : d \in devs \cup own} = IdsOf(old) \cup {Self}
  <2>1. \A d \in devs : d.id \in IdsOf(old)
    BY <1>4
  <2>2. \A id \in IdsOf(old) : \E d \in devs : d.id = id
    BY <1>4
  <2>3. \A d \in own : d.id = Self
    OBVIOUS
  <2>4. Self \notin IdsOf(old) => \E d \in own : d.id = Self
    OBVIOUS
  <2> HIDE DEF devs, own
  <2> QED
    BY <2>1, <2>2, <2>3, <2>4
<1>9. \A d \in devs \cup own : NameOf(old, d.id) = d.name
  <2>1. \A d \in devs : NameOf(old, d.id) = d.name
    BY <1>4
  <2>2. \A d \in own : NameOf(old, d.id) = d.name
    BY <1>1, NameOfIs
  <2> QED
    BY <2>1, <2>2
<1>10. \A id \in IdsOf(old) : \E d \in devs \cup own : d.id = id
  BY <1>4
<1> DEFINE all == devs \cup own
<1>11. /\ new \in Seq(all) /\ IsInjective(new) /\ ToSet(new) = all
       /\ shr \in Seq(ids) /\ IsInjective(shr) /\ ToSet(shr) = ids
  <2>0. IsFiniteSet(all)
    BY <1>5
  <2> HIDE DEF all, ids
  <2>1. SetToSeq(all) \in Seq(all) /\ IsInjective(SetToSeq(all)) /\ ToSet(SetToSeq(all)) = all
    BY <2>0, SetToSeqIs
  <2>2. shr \in Seq(ids) /\ IsInjective(shr) /\ ToSet(shr) = ids
    BY <1>6, SetToSeqIs
  <2> QED
    BY <2>1, <2>2 DEF all
<1> HIDE DEF new, shr, all
<1>12. new \in Seq(Device) /\ shr \in Seq(Ids)
  BY <1>5, <1>6, <1>11, SeqMonotonic DEF all
<1>13. Distinct(new)
  <2>1. DOMAIN new = 1..Len(new) /\ \A i \in 1..Len(new) : new[i] \in all
    BY <1>11, LenProperties, ElementOfSeq
  <2> QED
    BY <1>7, <1>11, <2>1 DEF Distinct, IsInjective, all
<1>14. IdsOf(new) = IdsOf(old) \cup {Self}
  BY <1>8, <1>11 DEF IdsOf, all
<1>15. ASSUME NEW id \in Ids PROVE NameOf(new, id) = NameOf(old, id)
  <2>1. CASE \E d \in all : d.id = id
    <3>1. PICK d \in all : d.id = id
      BY <2>1
    <3>2. NameOf(new, id) = d.name
      BY <1>11, <1>12, <1>13, <3>1, DistinctNames
    <3> QED
      BY <1>9, <3>1, <3>2 DEF all
  <2>2. CASE ~\E d \in all : d.id = id
    <3>1. id \notin IdsOf(old)
      BY <1>10, <2>2 DEF all
    <3>2. id \notin IdsOf(new)
      BY <1>11, <2>2 DEF IdsOf
    <3> QED
      BY <1>1, <1>12, <3>1, <3>2, NameOfIs
  <2> QED
    BY <2>1, <2>2
<1>16. Clean(Prepared(cfg))
  BY <1>2, <1>11, <1>12, <1>13 DEF Clean, Config
<1> QED
  BY <1>2, <1>11, <1>14, <1>15, <1>16 DEF old

-----------------------------------------------------------------------------
(* syncPeersConfig.                                                        *)

\* The name that the first k entries of peers.txt give a device.
NamedAt(peers, k, id) == {j \in 1..k : peers[j].id = id /\ peers[j].name # NoName}

GivenUpTo(peers, k, id) ==
    IF NamedAt(peers, k, id) = {} THEN NoName ELSE peers[Max(NamedAt(peers, k, id))].name

\* It is that of the last named entry: each named entry overrides those before it.
LEMMA GivenSteps ==
    ASSUME NEW peers \in Seq(Device), NEW id
    PROVE  /\ GivenUpTo(peers, 0, id) = NoName
           /\ GivenUpTo(peers, Len(peers), id) = GivenName(peers, id)
           /\ \A k \in 1..Len(peers) : GivenUpTo(peers, k, id) =
                 IF peers[k].id = id /\ peers[k].name # NoName
                 THEN peers[k].name ELSE GivenUpTo(peers, k - 1, id)
<1> DEFINE n == Len(peers)
           At(k) == NamedAt(peers, k, id)
<1>1. n \in Nat
  BY LenProperties
<1>2. \A k \in 0..n : At(k) # {} => Max(At(k)) \in At(k) /\ \A i \in At(k) : i <= Max(At(k))
  <2> SUFFICES ASSUME NEW k \in 0..n, At(k) # {}
               PROVE  Max(At(k)) \in At(k) /\ \A i \in At(k) : i <= Max(At(k))
    OBVIOUS
  <2>1. At(k) \subseteq 1..k /\ k \in Nat
    BY <1>1 DEF NamedAt
  <2> HIDE DEF At
  <2> QED
    BY <2>1, FirstAndLast
<1>3. GivenUpTo(peers, 0, id) = NoName
  <2>1. At(0) = {}
    BY DEF NamedAt
  <2> QED
    BY <2>1 DEF GivenUpTo
<1>4. GivenUpTo(peers, n, id) = GivenName(peers, id)
  <2>1. GivenName(peers, id) = LET i == IF At(n) # {} THEN Max(At(n)) ELSE 0
                               IN  IF i = 0 THEN NoName ELSE peers[i].name
    BY DEF GivenName, SelectLastInSeq, NamedAt
  <2>2. At(n) # {} => Max(At(n)) \in 1..n
    <3>1. At(n) \subseteq 1..n
      BY DEF NamedAt
    <3>2. n \in 0..n
      BY <1>1
    <3> HIDE DEF At
    <3> QED
      BY <1>2, <3>1, <3>2
  <2> QED
    BY <1>1, <2>1, <2>2 DEF GivenUpTo
<1>5. ASSUME NEW k \in 1..n
      PROVE  GivenUpTo(peers, k, id) = IF peers[k].id = id /\ peers[k].name # NoName
                                       THEN peers[k].name ELSE GivenUpTo(peers, k - 1, id)
  <2>1. CASE peers[k].id = id /\ peers[k].name # NoName
    <3>1. k \in At(k) /\ \A i \in At(k) : i <= k
      BY <1>1, <2>1 DEF NamedAt
    <3>2. Max(At(k)) \in At(k) /\ k <= Max(At(k))
      <4>1. k \in 0..n
        BY <1>1
      <4> QED
        BY <1>2, <3>1, <4>1
    <3>3. Max(At(k)) = k
      BY <1>1, <3>1, <3>2 DEF NamedAt
    <3> QED
      BY <2>1, <3>1, <3>3 DEF GivenUpTo
  <2>2. CASE ~(peers[k].id = id /\ peers[k].name # NoName)
    <3>1. At(k) = At(k - 1)
      BY <1>1, <2>2 DEF NamedAt
    <3> QED
      BY <2>2, <3>1 DEF GivenUpTo
  <2> QED
    BY <2>1, <2>2
<1> QED
  BY <1>3, <1>4, <1>5

\* What adding all entries of peers.txt changes: their IDs are in both lists, each
\* device has the name of its last named entry, known devices stay where they are.
AddsAllTo(cfg, peers, new) ==
    /\ IdsOf(new.devices) = IdsOf(cfg.devices) \cup IdsOf(peers)
    /\ ToSet(new.shared) = ToSet(cfg.shared) \cup IdsOf(peers)
    /\ \A id \in Ids : NameOf(new.devices, id) =
          IF GivenName(peers, id) # NoName THEN GivenName(peers, id)
                                           ELSE NameOf(cfg.devices, id)
    /\ IdsOf(peers) \subseteq IdsOf(cfg.devices) =>
         /\ Len(new.devices) = Len(cfg.devices)
         /\ \A i \in 1..Len(cfg.devices) : new.devices[i].id = cfg.devices[i].id
    /\ IdsOf(peers) \subseteq ToSet(cfg.shared) => new.shared = cfg.shared

LEMMA AddAll ==
    ASSUME NEW cfg \in Config, NEW peers \in Seq(Device)
    PROVE  /\ FoldLeft(AddPeer, cfg, peers) \in Config
           /\ AddsAllTo(cfg, peers, FoldLeft(AddPeer, cfg, peers))
<1> DEFINE n == Len(peers)
           Seen(k) == {peers[j].id : j \in 1..k}
           Same(a, b) == Len(a) = Len(b) /\ \A i \in 1..Len(b) : a[i].id = b[i].id
<1>1. n \in Nat /\ \A i \in 1..n : peers[i] \in Device /\ peers[i].id \in IdsOf(peers)
  BY LenProperties, ElementOfSeq, IdsOfIs
<1>2. PICK acc \in [0..n -> Config] :
              /\ acc[0] = cfg
              /\ \A i \in 1..n : acc[i] = AddPeer(acc[i - 1], peers[i])
              /\ FoldLeft(AddPeer, cfg, peers) = acc[n]
  BY AddRuns
<1>3. Seen(0) = {} /\ Seen(n) = IdsOf(peers)
      /\ \A i \in 1..n : Seen(i) = Seen(i - 1) \cup {peers[i].id}
  BY <1>1, IdsOfIs
<1> HIDE DEF Seen
<1> DEFINE Good(k) ==
             /\ IdsOf(acc[k].devices) = IdsOf(cfg.devices) \cup Seen(k)
             /\ ToSet(acc[k].shared) = ToSet(cfg.shared) \cup Seen(k)
             /\ \A id \in Ids : NameOf(acc[k].devices, id) =
                   IF GivenUpTo(peers, k, id) # NoName THEN GivenUpTo(peers, k, id)
                                                       ELSE NameOf(cfg.devices, id)
             /\ IdsOf(peers) \subseteq IdsOf(cfg.devices) => Same(acc[k].devices, cfg.devices)
             /\ IdsOf(peers) \subseteq ToSet(cfg.shared) => acc[k].shared = cfg.shared
           S == {k \in 0..n : Good(k)}
<1>4. 0 \in S
  <2>1. Good(0)
    BY <1>2, <1>3, GivenSteps
  <2> HIDE DEF Good
  <2> QED
    BY <1>1, <2>1
<1>5. ASSUME NEW k \in 1..n, k - 1 \in S PROVE k \in S
  <2> DEFINE old == acc[k - 1]
             p == peers[k]
  <2>1. k \in 0..n /\ k - 1 \in 0..n /\ Good(k - 1)
    <3> HIDE DEF Good
    <3> QED
      BY <1>1, <1>5
  <2> DEFINE new == acc[k]
  <2>2. old \in Config /\ p \in Device /\ new = AddPeer(old, p)
    BY <1>1, <1>2, <2>1
  <2>3. AddsTo(old, p, new)
    <3> HIDE DEF old, p, new
    <3> QED
      BY <2>2, AddPeerIs
  <2>4. IdsOf(new.devices) = IdsOf(cfg.devices) \cup Seen(k)
        /\ ToSet(new.shared) = ToSet(cfg.shared) \cup Seen(k)
    BY <1>3, <2>1, <2>3 DEF AddsTo
  <2>5. ASSUME NEW id \in Ids
        PROVE  NameOf(new.devices, id) =
                  IF GivenUpTo(peers, k, id) # NoName THEN GivenUpTo(peers, k, id)
                                                      ELSE NameOf(cfg.devices, id)
    <3>1. GivenUpTo(peers, k, id) = IF p.id = id /\ p.name # NoName
                                    THEN p.name ELSE GivenUpTo(peers, k - 1, id)
      BY GivenSteps
    <3>2. NameOf(old.devices, id) =
             IF GivenUpTo(peers, k - 1, id) # NoName THEN GivenUpTo(peers, k - 1, id)
                                                     ELSE NameOf(cfg.devices, id)
      BY <2>1
    <3>3. NameOf(new.devices, id) =
             IF id = p.id /\ p.name # NoName THEN p.name ELSE NameOf(old.devices, id)
      BY <2>3 DEF AddsTo
    <3> HIDE DEF old, new, p
    <3> QED
      BY <3>1, <3>2, <3>3
  <2>6. ASSUME IdsOf(peers) \subseteq IdsOf(cfg.devices) PROVE Same(new.devices, cfg.devices)
    <3>1. p.id \in IdsOf(old.devices) /\ Same(old.devices, cfg.devices)
      BY <1>1, <2>1, <2>6
    <3> QED
      BY <2>3, <3>1 DEF AddsTo
  <2>7. ASSUME IdsOf(peers) \subseteq ToSet(cfg.shared) PROVE new.shared = cfg.shared
    <3>1. p.id \in ToSet(old.shared) /\ old.shared = cfg.shared
      BY <1>1, <2>1, <2>7
    <3> QED
      BY <2>3, <3>1 DEF AddsTo
  <2>8. Good(k)
    <3> HIDE DEF Same
    <3> QED
      BY <2>4, <2>5, <2>6, <2>7
  <2> HIDE DEF Good
  <2> QED
    BY <2>1, <2>8
<1> HIDE DEF S
<1>6. n \in S
  <2>1. \A i \in 0..n : i \in S
    BY <1>1, <1>4, <1>5, BoundedInduction
  <2> QED
    BY <1>1, <2>1
<1>7. Good(n) /\ acc[n] \in Config
  BY <1>1, <1>6 DEF S
<1>8. \A id \in Ids : GivenUpTo(peers, n, id) = GivenName(peers, id)
  BY GivenSteps
<1> QED
  BY <1>2, <1>3, <1>7, <1>8 DEF AddsAllTo

\* What taking a set of devices out of a configuration changes.
RemovesFrom(cfg, gone, new) ==
    /\ ToSet(new.devices) = {d \in ToSet(cfg.devices) : d.id \notin gone}
    /\ ToSet(new.shared) = ToSet(cfg.shared) \ gone

\* The loop takes all the IDs out of both lists.
LEMMA RemoveAll ==
    ASSUME NEW cfg \in CleanConfig, NEW ids \in Seq(Ids)
    PROVE  /\ FoldLeft(RemovePeer, cfg, ids) \in CleanConfig
           /\ RemovesFrom(cfg, ToSet(ids), FoldLeft(RemovePeer, cfg, ids))
<1> DEFINE n == Len(ids)
           Seen(k) == {ids[j] : j \in 1..k}
<1>1. n \in Nat /\ DOMAIN ids = 1..n /\ \A i \in 1..n : ids[i] \in Ids
  BY LenProperties, ElementOfSeq
<1>2. PICK acc \in [0..n -> CleanConfig] :
              /\ acc[0] = cfg
              /\ \A i \in 1..n : acc[i] = RemovePeer(acc[i - 1], ids[i])
              /\ FoldLeft(RemovePeer, cfg, ids) = acc[n]
  BY RemoveRuns
<1>3. Seen(0) = {} /\ Seen(n) = ToSet(ids)
      /\ \A i \in 1..n : Seen(i) = Seen(i - 1) \cup {ids[i]}
  BY <1>1 DEF ToSet
<1> HIDE DEF Seen
<1> DEFINE S == {k \in 0..n : RemovesFrom(cfg, Seen(k), acc[k])}
<1>4. 0 \in S
  <2>1. RemovesFrom(cfg, Seen(0), acc[0])
    BY <1>2, <1>3 DEF RemovesFrom
  <2> QED
    BY <1>1, <2>1
<1>5. ASSUME NEW k \in 1..n, k - 1 \in S PROVE k \in S
  <2> DEFINE old == acc[k - 1]
             new == acc[k]
             id == ids[k]
  <2>1. k \in 0..n /\ k - 1 \in 0..n /\ RemovesFrom(cfg, Seen(k - 1), old)
    BY <1>1, <1>5
  <2>2. Clean(old) /\ id \in Ids /\ new = RemovePeer(old, id)
    BY <1>1, <1>2, <2>1 DEF CleanConfig
  <2>3. /\ ToSet(new.devices) = {d \in ToSet(old.devices) : d.id # id}
        /\ ToSet(new.shared) = ToSet(old.shared) \ {id}
    <3> HIDE DEF old, new, id
    <3> QED
      BY <2>2, RemovePeerIs
  <2>4. RemovesFrom(cfg, Seen(k), new)
    BY <1>3, <2>1, <2>3 DEF RemovesFrom
  <2> QED
    BY <2>1, <2>4
<1> HIDE DEF S
<1>6. n \in S
  <2>1. \A i \in 0..n : i \in S
    BY <1>1, <1>4, <1>5, BoundedInduction
  <2> QED
    BY <1>1, <2>1
<1> QED
  BY <1>1, <1>2, <1>3, <1>6 DEF S

\* The devices to remove are those that are neither wanted nor the own one.
LEMMA ToRemoveIs ==
    ASSUME NEW cfg \in Config, NEW want
    PROVE  /\ ToRemove(cfg, want) \in Seq(Ids)
           /\ ToSet(ToRemove(cfg, want)) = IdsOf(cfg.devices) \ (want \cup {Self})
           /\ IdsOf(cfg.devices) \subseteq want \cup {Self} => ToRemove(cfg, want) = <<>>
<1> DEFINE devs == cfg.devices
           n == Len(devs)
           ids == [i \in DOMAIN devs |-> devs[i].id]
           gone == ToRemove(cfg, want)
<1>1. devs \in Seq(Device) /\ n \in Nat /\ DOMAIN devs = 1..n
      /\ \A i \in 1..n : devs[i].id \in Ids
  <2>1. devs \in Seq(Device)
    BY DEF Config
  <2> HIDE DEF devs
  <2>2. n \in Nat /\ DOMAIN devs = 1..n /\ \A i \in 1..n : devs[i] \in Device
    BY <2>1, LenProperties, ElementOfSeq
  <2> QED
    BY <2>1, <2>2 DEF Device
<1>2. ids \in Seq(Ids) /\ ToSet(ids) = IdsOf(devs)
  <2>1. ids \in [1..n -> Ids]
    BY <1>1
  <2>2. ids \in Seq(Ids)
    BY <1>1, <2>1, SeqDef
  <2>3. ToSet(ids) = {devs[i].id : i \in 1..n}
    BY <1>1 DEF ToSet
  <2> QED
    BY <1>1, <2>2, <2>3, IdsOfIs
<1>3. gone = Without(ids, want \cup {Self})
  BY DEF ToRemove
<1> HIDE DEF ids, gone
<1>4. gone \in Seq(Ids) /\ ToSet(gone) = IdsOf(devs) \ (want \cup {Self})
  BY <1>2, <1>3, WithoutKeeps
<1>5. ToSet(gone) = {} => gone = <<>>
  <2>1. Len(gone) \in Nat /\ DOMAIN gone = 1..Len(gone)
    BY <1>4, LenProperties
  <2>2. ASSUME ToSet(gone) = {} PROVE Len(gone) = 0
    <3>1. 1..Len(gone) = {}
      BY <2>1, <2>2 DEF ToSet
    <3> QED
      BY <2>1, <3>1
  <2> QED
    BY <1>4, <2>2, EmptySeq
<1> QED
  BY <1>4, <1>5 DEF gone

\* The devices that have a name in peers.txt have it in the configuration.
NamesAgree(devs, peers) ==
    \A id \in Ids : GivenName(peers, id) # NoName => NameOf(devs, id) = GivenName(peers, id)

\* What reconciling a configuration with peers.txt makes of it.
Reconciled(cfg, peers, new) ==
    /\ new \in Config
    /\ IdsOf(new.devices) = {Self} \cup IdsOf(peers)
    /\ ToSet(new.shared) = IdsOf(new.devices)
    /\ NamesAgree(new.devices, peers)
    /\ \A id \in IdsOf(peers) : NameOf(new.devices, id) =
          IF GivenName(peers, id) # NoName THEN GivenName(peers, id)
                                           ELSE NameOf(cfg.devices, id)

\* syncPeersConfig on a configuration that Syncthing has prepared: what is not wanted
\* goes, what is wanted comes, and names are kept unless the file has another.
THEOREM SyncIs ==
    ASSUME NEW cfg \in CleanConfig, NEW peers \in Seq(Device),
           Self \in ToSet(cfg.shared), Self \in IdsOf(cfg.devices),
           ToSet(cfg.shared) \subseteq IdsOf(cfg.devices)
    PROVE  Reconciled(cfg, peers, syncPeersConfig(cfg, peers))
<1> DEFINE gone == ToRemove(cfg, IdsOf(peers))
           mid == FoldLeft(RemovePeer, cfg, gone)
           new == syncPeersConfig(cfg, peers)
<1>0. new = FoldLeft(AddPeer, mid, peers)
  BY DEF syncPeersConfig
<1> HIDE DEF gone, new
<1>1. cfg \in Config /\ IdsOf(peers) \subseteq Ids
  BY IdsOfIs DEF CleanConfig
<1>2. gone \in Seq(Ids) /\ ToSet(gone) = IdsOf(cfg.devices) \ (IdsOf(peers) \cup {Self})
  BY <1>1, ToRemoveIs DEF gone
<1>3. mid \in CleanConfig /\ RemovesFrom(cfg, ToSet(gone), mid)
  BY <1>2, RemoveAll
<1> HIDE DEF mid
<1>4. new \in Config /\ AddsAllTo(mid, peers, new)
  BY <1>0, <1>3, AddAll DEF CleanConfig
<1>5. IdsOf(mid.devices) = IdsOf(cfg.devices) \cap (IdsOf(peers) \cup {Self})
  BY <1>2, <1>3 DEF RemovesFrom, IdsOf
<1>6. ToSet(mid.shared) = ToSet(cfg.shared) \ ToSet(gone)
  BY <1>3 DEF RemovesFrom
<1>7. ASSUME NEW id \in IdsOf(peers)
      PROVE  NameOf(mid.devices, id) = NameOf(cfg.devices, id)
  <2>1. /\ cfg.devices \in Seq(Device) /\ Distinct(cfg.devices)
        /\ mid.devices \in Seq(Device) /\ Distinct(mid.devices)
    BY <1>3 DEF CleanConfig, Clean, Config
  <2>2. CASE id \in IdsOf(cfg.devices)
    <3>1. PICK d \in ToSet(cfg.devices) : d.id = id
      BY <2>2 DEF IdsOf
    <3>2. d \in ToSet(mid.devices)
      BY <1>2, <1>3, <3>1 DEF RemovesFrom
    <3> QED
      BY <2>1, <3>1, <3>2, DistinctNames
  <2>3. CASE id \notin IdsOf(cfg.devices)
    <3>1. id \notin IdsOf(mid.devices)
      BY <1>5, <2>3
    <3> QED
      BY <2>1, <2>3, <3>1, NameOfIs
  <2> QED
    BY <2>2, <2>3
<1>8. IdsOf(new.devices) = {Self} \cup IdsOf(peers)
  BY <1>4, <1>5 DEF AddsAllTo
<1>9. ToSet(new.shared) = {Self} \cup IdsOf(peers)
  BY <1>2, <1>4, <1>6 DEF AddsAllTo
<1>10. NamesAgree(new.devices, peers)
  BY <1>4 DEF AddsAllTo, NamesAgree
<1>11. ASSUME NEW id \in IdsOf(peers)
       PROVE  NameOf(new.devices, id) =
                 IF GivenName(peers, id) # NoName THEN GivenName(peers, id)
                                                  ELSE NameOf(cfg.devices, id)
  BY <1>1, <1>4, <1>7 DEF AddsAllTo
<1> QED
  BY <1>4, <1>8, <1>9, <1>10, <1>11 DEF Reconciled, new

\* A configuration with exactly the desired devices loses none.
LEMMA NothingToRemove ==
    ASSUME NEW cfg \in Config, NEW peers \in Seq(Device),
           IdsOf(cfg.devices) = {Self} \cup IdsOf(peers)
    PROVE  syncPeersConfig(cfg, peers) = FoldLeft(AddPeer, cfg, peers)
<1>1. ToRemove(cfg, IdsOf(peers)) = <<>>
  BY ToRemoveIs
<1>2. FoldLeft(RemovePeer, cfg, ToRemove(cfg, IdsOf(peers))) = cfg
  BY <1>1, RemoveNothing
<1> QED
  BY <1>2 DEF syncPeersConfig

\* The configuration of a first start: it has the own device and those of peers.txt,
\* each as often as it is there.
LEMMA NewConfigIs ==
    ASSUME NEW peers \in Seq(Device)
    PROVE  /\ NewConfig(peers) \in Config
           /\ IdsOf(NewConfig(peers).devices) = {Self} \cup IdsOf(peers)
           /\ ToSet(NewConfig(peers).shared) = {Self} \cup IdsOf(peers)
<1> DEFINE n == Len(peers)
           own == [id |-> Self, name |-> NoName]
           ids == [i \in DOMAIN peers |-> peers[i].id]
           devs == <<own>> \o peers
           shr == <<Self>> \o ids
<1>1. n \in Nat /\ DOMAIN peers = 1..n /\ \A i \in 1..n : peers[i] \in Device
  BY LenProperties, ElementOfSeq
<1>2. \A i \in 1..n : peers[i].id \in Ids
  BY <1>1 DEF Device
<1>3. Self \in Ids /\ own \in Device
  BY SelfAssumption, NamesAssumption DEF Device
<1>4. /\ ids \in Seq(Ids) /\ Len(ids) = n
      /\ \A i \in 1..n : ids[i] = peers[i].id
  <2>1. ids \in [1..n -> Ids]
    BY <1>1, <1>2
  <2> QED
    BY <1>1, <2>1, SeqDef, LenProperties
<1> HIDE DEF own, ids
<1>5. /\ devs \in Seq(Device) /\ Len(devs) = n + 1 /\ devs[1] = own
      /\ \A i \in 1..n : devs[i + 1] = peers[i]
  <2>1. <<own>> \in Seq(Device) /\ Len(<<own>>) = 1 /\ <<own>>[1] = own
    BY <1>3
  <2> DEFINE one == <<own>>
  <2> HIDE DEF one
  <2>2. /\ one \o peers \in Seq(Device)
        /\ Len(one \o peers) = Len(one) + Len(peers)
        /\ \A i \in 1..(Len(one) + Len(peers)) : (one \o peers)[i] =
              IF i <= Len(one) THEN one[i] ELSE peers[i - Len(one)]
    BY <2>1, ConcatProperties DEF one
  <2> QED
    BY <1>1, <2>1, <2>2 DEF one
<1>6. /\ shr \in Seq(Ids) /\ Len(shr) = n + 1 /\ shr[1] = Self
      /\ \A i \in 1..n : shr[i + 1] = ids[i]
  <2>1. <<Self>> \in Seq(Ids) /\ Len(<<Self>>) = 1 /\ <<Self>>[1] = Self
    BY <1>3
  <2> DEFINE one == <<Self>>
  <2> HIDE DEF one
  <2>2. /\ one \o ids \in Seq(Ids)
        /\ Len(one \o ids) = Len(one) + Len(ids)
        /\ \A i \in 1..(Len(one) + Len(ids)) : (one \o ids)[i] =
              IF i <= Len(one) THEN one[i] ELSE ids[i - Len(one)]
    BY <1>4, <2>1, ConcatProperties DEF one
  <2> QED
    BY <1>1, <1>4, <2>1, <2>2 DEF one
<1>7. NewConfig(peers) = [devices |-> devs, shared |-> shr]
  BY DEF NewConfig, own, ids
<1> HIDE DEF devs, shr
<1>8. \A i \in 1..(n + 1) : i = 1 \/ (i - 1 \in 1..n /\ i = (i - 1) + 1)
  BY <1>1
<1>9. IdsOf(peers) = {peers[i].id : i \in 1..n}
  BY IdsOfIs
<1>10. IdsOf(devs) = {Self} \cup IdsOf(peers)
  <2>1. IdsOf(devs) = {devs[i].id : i \in 1..(n + 1)}
    BY <1>5, IdsOfIs
  <2>2. devs[1].id = Self /\ 1 \in 1..(n + 1)
        /\ \A i \in 1..n : i + 1 \in 1..(n + 1) /\ devs[i + 1].id = peers[i].id
    BY <1>1, <1>5 DEF own
  <2>3. ASSUME NEW x \in {Self} \cup IdsOf(peers) PROVE x \in IdsOf(devs)
    BY <1>9, <2>1, <2>2
  <2>4. ASSUME NEW i \in 1..(n + 1) PROVE devs[i].id \in {Self} \cup IdsOf(peers)
    <3>1. CASE i = 1
      BY <2>2, <3>1
    <3>2. CASE i # 1
      <4>1. PICK j \in 1..n : i = j + 1
        BY <1>8, <3>2
      <4> QED
        BY <1>9, <2>2, <4>1
    <3> QED
      BY <3>1, <3>2
  <2> QED
    BY <2>1, <2>3, <2>4
<1>11. ToSet(shr) = {Self} \cup IdsOf(peers)
  <2>1. ToSet(shr) = {shr[i] : i \in 1..(n + 1)}
    BY <1>6, LenProperties DEF ToSet
  <2>2. shr[1] = Self /\ 1 \in 1..(n + 1)
        /\ \A i \in 1..n : i + 1 \in 1..(n + 1) /\ shr[i + 1] = peers[i].id
    BY <1>1, <1>4, <1>6
  <2>3. ASSUME NEW x \in {Self} \cup IdsOf(peers) PROVE x \in ToSet(shr)
    BY <1>9, <2>1, <2>2
  <2>4. ASSUME NEW i \in 1..(n + 1) PROVE shr[i] \in {Self} \cup IdsOf(peers)
    <3>1. CASE i = 1
      BY <2>2, <3>1
    <3>2. CASE i # 1
      <4>1. PICK j \in 1..n : i = j + 1
        BY <1>8, <3>2
      <4> QED
        BY <1>9, <2>2, <4>1
    <3> QED
      BY <3>1, <3>2
  <2> QED
    BY <2>1, <2>3, <2>4
<1> QED
  BY <1>5, <1>6, <1>7, <1>10, <1>11 DEF Config

\* Reconciling a configuration that is already right changes nothing.
LEMMA SyncAgain ==
    ASSUME NEW cfg \in CleanConfig, NEW peers \in Seq(Device),
           IdsOf(cfg.devices) = {Self} \cup IdsOf(peers),
           ToSet(cfg.shared) = IdsOf(cfg.devices), NamesAgree(cfg.devices, peers)
    PROVE  syncPeersConfig(cfg, peers) = cfg
<1> DEFINE old == cfg.devices
           new == FoldLeft(AddPeer, cfg, peers)
           n == Len(old)
<1>1. cfg \in Config /\ Distinct(old) /\ old \in Seq(Device)
  BY DEF CleanConfig, Clean, Config
<1>2. syncPeersConfig(cfg, peers) = new
  BY <1>1, NothingToRemove
<1>3. new \in Config /\ AddsAllTo(cfg, peers, new)
  BY <1>1, AddAll
<1> HIDE DEF new
<1>4. /\ new.shared = cfg.shared /\ Len(new.devices) = n
      /\ \A i \in 1..n : new.devices[i].id = old[i].id
      /\ \A id \in Ids : NameOf(new.devices, id) =
            IF GivenName(peers, id) # NoName THEN GivenName(peers, id) ELSE NameOf(old, id)
  BY <1>3 DEF AddsAllTo
<1>5. new.devices \in Seq(Device)
  BY <1>3 DEF Config
<1>6. \A i \in 1..n : old[i] \in Device /\ new.devices[i] \in Device
  BY <1>1, <1>4, <1>5, ElementOfSeq
<1>7. Distinct(new.devices)
  BY <1>1, <1>4 DEF Distinct
<1>8. ASSUME NEW i \in 1..n PROVE new.devices[i] = old[i]
  <2> DEFINE id == old[i].id
  <2>1. id \in Ids /\ new.devices[i].id = id
    BY <1>4, <1>6 DEF Device
  <2>2. NameOf(old, id) = old[i].name
    BY <1>1, DistinctNames
  <2>3. NameOf(new.devices, id) = new.devices[i].name
    BY <1>4, <1>5, <1>7, <2>1, DistinctNames
  <2>4. NameOf(new.devices, id) = NameOf(old, id)
    BY <1>4, <2>1 DEF NamesAgree
  <2>5. new.devices[i].id = old[i].id /\ new.devices[i].name = old[i].name
    BY <2>1, <2>2, <2>3, <2>4
  <2>6. \A d, x \in Device : d.id = x.id /\ d.name = x.name => d = x
    BY DEF Device
  <2> HIDE DEF old
  <2> QED
    BY <1>6, <2>5, <2>6
<1>9. new.devices = old
  <2> HIDE DEF old
  <2> QED
    BY <1>1, <1>4, <1>5, <1>8, SeqEqual
<1> QED
  BY <1>1, <1>2, <1>3, <1>4, <1>9 DEF Config

\* Naming a nameless device takes no device away, and no other name.
LEMMA NameLearned ==
    ASSUME NEW devs \in Seq(Device), NEW k \in 1..Len(devs), NEW n \in Names,
           devs[k].name = NoName
    PROVE  LET new == [devs EXCEPT ![k].name = n]
           IN  /\ new \in Seq(Device)
               /\ IdsOf(new) = IdsOf(devs)
               /\ \A id : NameOf(devs, id) # NoName => NameOf(new, id) = NameOf(devs, id)
<1> DEFINE e == [devs[k] EXCEPT !.name = n]
           new == [devs EXCEPT ![k].name = n]
<1>1. Len(devs) \in Nat /\ \A i \in 1..Len(devs) : devs[i] \in Device
  BY LenProperties, ElementOfSeq
<1>2. e \in Device /\ e.id = devs[k].id
  BY <1>1 DEF Device
<1>3. new = [devs EXCEPT ![k] = e]
  OBVIOUS
<1> HIDE DEF e, new
<1>4. /\ new \in Seq(Device) /\ Len(new) = Len(devs)
      /\ \A j \in 1..Len(devs) : new[j] = IF j = k THEN e ELSE devs[j]
  BY <1>2, <1>3, ExceptSeq
<1>5. \A j \in 1..Len(devs) : new[j].id = devs[j].id
  BY <1>2, <1>4
<1>6. IdsOf(new) = IdsOf(devs)
  <2>1. {new[i].id : i \in 1..Len(devs)} = {devs[i].id : i \in 1..Len(devs)}
    BY <1>5
  <2> QED
    BY <1>4, <2>1, IdsOfIs
<1>7. ASSUME NEW id, NameOf(devs, id) # NoName PROVE NameOf(new, id) = NameOf(devs, id)
  <2> DEFINE i == FirstAt(devs, id)
  <2>1. id \in IdsOf(devs)
    BY <1>7, NameOfIs
  <2>2. i \in 1..Len(devs) /\ devs[i].id = id
        /\ \A j \in 1..Len(devs) : devs[j].id = id => i <= j
    BY <2>1, FirstAtIs
  <2> HIDE DEF i
  <2>3. NameOf(devs, id) = devs[i].name
    BY <2>2, NameOfIs
  <2>4. i \in 1..Len(new) /\ new[i].id = id /\ \A j \in 1..Len(new) : new[j].id = id => i <= j
    BY <1>4, <1>5, <2>2
  <2>5. NameOf(new, id) = new[i].name
    BY <1>4, <2>4, NameOfIs
  <2>6. i # k
    BY <1>7, <2>3
  <2> QED
    BY <1>4, <2>2, <2>3, <2>5, <2>6
<1> QED
  BY <1>4, <1>6, <1>7 DEF new

-----------------------------------------------------------------------------
(* The reconciled configuration, in every reachable state.                 *)

\* The two lists are exactly what peers.txt wants, and the names it gives are the names
\* of the devices.  Without the names reconciling again could change one.
ConfigInv ==
    /\ Current \in Config /\ desired \in Seq(Device)
    /\ ExactlyDesired
    /\ NamesAgree(devices, desired)

\* A peers.txt is a list of devices.
LEMMA PeersTextsType == PeersTexts \subseteq Seq(Device)
<1>1. ASSUME NEW m \in 0..MaxDesired, NEW t \in [1..m -> Device] PROVE t \in Seq(Device)
  BY SelfAssumption, SeqDef
<1> QED
  BY <1>1 DEF PeersTexts, BoundedSeq, SeqOf

\* What Syncthing has prepared is fit for reconciling, and has the same devices, shares
\* and names as the lists the code handed to it.
LEMMA PreparedInv ==
    ASSUME ConfigInv
    PROVE  /\ Prepared(Current) \in CleanConfig
           /\ IdsOf(Prepared(Current).devices) = IdsOf(devices)
           /\ ToSet(Prepared(Current).shared) = IdsOf(devices)
           /\ \A id \in Ids : NameOf(Prepared(Current).devices, id) = NameOf(devices, id)
<1>1. Current \in Config /\ Current.devices = devices /\ Current.shared = shared
  BY DEF ConfigInv, Current
<1>2. IdsOf(devices) = {Self} \cup IdsOf(desired) /\ ToSet(shared) = IdsOf(devices)
  BY DEF ConfigInv, ExactlyDesired
<1>3. /\ Clean(Prepared(Current))
      /\ IdsOf(Prepared(Current).devices) = IdsOf(devices) \cup {Self}
      /\ ToSet(Prepared(Current).shared) = (ToSet(shared) \cap IdsOf(devices)) \cup {Self}
      /\ \A id \in Ids : NameOf(Prepared(Current).devices, id) = NameOf(devices, id)
  BY <1>1, PreparedIs
<1> QED
  BY <1>2, <1>3 DEF CleanConfig, Clean

\* A configuration that is reconciled with the peers.txt of the next state.
LEMMA ReconciledInv ==
    ASSUME NEW cfg, NEW new, NEW peers \in Seq(Device), Reconciled(cfg, peers, new)
    PROVE  /\ desired' = peers /\ Become(new) => ConfigInv'
           /\ desired = peers /\ devices = new.devices /\ shared = new.shared => ConfigInv
  BY DEF Reconciled, Become, ConfigInv, Config, Current, ExactlyDesired

\* The first start: nothing has to be removed, and adding the peers again changes no more
\* than their names.
LEMMA ConfigStarts == ConfigInit => ConfigInv
<1> SUFFICES ASSUME ConfigInit PROVE ConfigInv
  OBVIOUS
<1> DEFINE cfg == NewConfig(desired)
           new == syncPeersConfig(cfg, desired)
<1>1. desired \in Seq(Device)
  BY PeersTextsType DEF ConfigInit
<1>2. cfg \in Config /\ IdsOf(cfg.devices) = {Self} \cup IdsOf(desired)
      /\ ToSet(cfg.shared) = {Self} \cup IdsOf(desired)
  BY <1>1, NewConfigIs
<1>3. devices = new.devices /\ shared = new.shared
  BY DEF ConfigInit
<1> HIDE DEF cfg, new
<1>4. new = FoldLeft(AddPeer, cfg, desired)
  BY <1>1, <1>2, NothingToRemove DEF new
<1>5. new \in Config /\ AddsAllTo(cfg, desired, new)
  BY <1>1, <1>2, <1>4, AddAll
<1>6. IdsOf(desired) \subseteq Ids
  BY <1>1, IdsOfIs
<1>7. Reconciled(cfg, desired, new)
  BY <1>2, <1>5, <1>6 DEF Reconciled, AddsAllTo, NamesAgree
<1> QED
  BY <1>1, <1>3, <1>7, ReconciledInv

\* One reconciling of the running daemon.
LEMMA SyncStep ==
    ASSUME ConfigInv, SyncPeers
    PROVE  ConfigInv' /\ Reconciled(Prepared(Current), desired', Current')
<1> DEFINE cfg == Prepared(Current)
           new == syncPeersConfig(cfg, desired')
<1>1. desired' \in Seq(Device) /\ Become(new)
  BY PeersTextsType DEF SyncPeers
<1>2. cfg \in CleanConfig /\ Self \in ToSet(cfg.shared) /\ Self \in IdsOf(cfg.devices)
      /\ ToSet(cfg.shared) \subseteq IdsOf(cfg.devices)
  BY PreparedInv DEF ConfigInv, ExactlyDesired
<1> HIDE DEF cfg
<1>3. Reconciled(cfg, desired', new)
  BY <1>1, <1>2, SyncIs
<1> HIDE DEF new
<1>4. Current' = new
  BY <1>1, <1>3 DEF Reconciled, Become, Current, Config
<1>5. ConfigInv'
  BY <1>1, <1>3, ReconciledInv
<1> QED
  BY <1>3, <1>4, <1>5 DEF cfg

\* Syncthing learning a name: what it prepares has the devices it had.
LEMMA LearnStep == ASSUME ConfigInv, LearnName PROVE ConfigInv'
<1>1. PICK k \in DOMAIN devices, n \in Names \ {NoName} :
         /\ devices[k].id # Self /\ devices[k].name = NoName
         /\ Become(Prepared([Current EXCEPT !.devices[k].name = n]))
         /\ UNCHANGED desired
  BY DEF LearnName
<1> DEFINE devs == [devices EXCEPT ![k].name = n]
           cfg == [devices |-> devs, shared |-> shared]
           new == Prepared(cfg)
<1>2. devices \in Seq(Device) /\ shared \in Seq(Ids) /\ desired \in Seq(Device)
  BY DEF ConfigInv, Current, Config
<1>3. /\ devs \in Seq(Device) /\ IdsOf(devs) = IdsOf(devices)
      /\ \A id : NameOf(devices, id) # NoName => NameOf(devs, id) = NameOf(devices, id)
  <2>1. k \in 1..Len(devices)
    BY <1>2, LenProperties
  <2> QED
    BY <1>1, <1>2, <2>1, NameLearned
<1>4. [Current EXCEPT !.devices[k].name = n] = cfg
  BY DEF Current
<1> HIDE DEF devs
<1>5. cfg \in Config /\ Become(new)
  BY <1>1, <1>2, <1>3, <1>4 DEF Config
<1>6. /\ Clean(new)
      /\ IdsOf(new.devices) = IdsOf(devices) \cup {Self}
      /\ ToSet(new.shared) = (ToSet(shared) \cap IdsOf(devices)) \cup {Self}
      /\ \A id \in Ids : NameOf(new.devices, id) = NameOf(devs, id)
  <2> HIDE DEF new, cfg
  <2>1. /\ Clean(new)
        /\ IdsOf(new.devices) = IdsOf(cfg.devices) \cup {Self}
        /\ ToSet(new.shared) = (ToSet(cfg.shared) \cap IdsOf(cfg.devices)) \cup {Self}
        /\ \A id \in Ids : NameOf(new.devices, id) = NameOf(cfg.devices, id)
    BY <1>5, PreparedIs DEF new
  <2> QED
    BY <1>3, <2>1 DEF cfg
<1> HIDE DEF new
<1>7. IdsOf(devices) = {Self} \cup IdsOf(desired) /\ ToSet(shared) = IdsOf(devices)
      /\ NamesAgree(devices, desired)
  BY DEF ConfigInv, ExactlyDesired
<1>8. /\ IdsOf(new.devices) = {Self} \cup IdsOf(desired)
      /\ ToSet(new.shared) = IdsOf(new.devices)
      /\ NamesAgree(new.devices, desired)
  BY <1>3, <1>6, <1>7 DEF NamesAgree
<1> QED
  BY <1>1, <1>2, <1>5, <1>6, <1>8
  DEF ConfigInv, Become, Current, Clean, Config, ExactlyDesired

\* New, every later sync and every name that Syncthing learns keep the two lists in
\* agreement with the peers.txt that was applied last.
THEOREM ConfigInvariance == ConfigSpec => []ConfigInv
<1>1. ConfigInv /\ [ConfigNext]_configVars => ConfigInv'
  <2> SUFFICES ASSUME ConfigInv, [ConfigNext]_configVars PROVE ConfigInv'
    OBVIOUS
  <2>1. CASE SyncPeers
    BY <2>1, SyncStep
  <2>2. CASE LearnName
    BY <2>2, LearnStep
  <2>3. CASE UNCHANGED configVars
    BY <2>3 DEF configVars, ConfigInv, Current, ExactlyDesired
  <2> QED
    BY <2>1, <2>2, <2>3 DEF ConfigNext
<1> QED
  BY <1>1, ConfigStarts, PTL DEF ConfigSpec

\* The devices are the own one and those of peers.txt, and the folder is shared with
\* exactly these, however long peers.txt is and whatever it lists twice.
THEOREM ExactlyDesiredAlways == ConfigSpec => []ExactlyDesired
<1>1. ConfigInv => ExactlyDesired
  BY DEF ConfigInv
<1> QED
  BY <1>1, ConfigInvariance, PTL

\* A daemon that is restarted, or told of a peers.txt that says what it said before,
\* leaves Syncthing's configuration alone.
THEOREM IdempotentAlways == ConfigSpec => []Idempotent
<1>1. ASSUME ConfigInv PROVE Idempotent
  <2> DEFINE cfg == Prepared(Current)
  <2>1. desired \in Seq(Device) /\ IdsOf(devices) = {Self} \cup IdsOf(desired)
        /\ NamesAgree(devices, desired)
    BY <1>1 DEF ConfigInv, ExactlyDesired
  <2>2. /\ cfg \in CleanConfig /\ IdsOf(cfg.devices) = {Self} \cup IdsOf(desired)
        /\ ToSet(cfg.shared) = IdsOf(cfg.devices) /\ NamesAgree(cfg.devices, desired)
    BY <1>1, <2>1, PreparedInv DEF NamesAgree
  <2> HIDE DEF cfg
  <2>3. syncPeersConfig(cfg, desired) = cfg
    BY <2>1, <2>2, SyncAgain
  <2> QED
    BY <2>3 DEF Idempotent, cfg
<1> QED
  BY <1>1, ConfigInvariance, PTL

\* A name given in peers.txt wins, and a device without one keeps the name it has, one
\* that Syncthing learned included.
THEOREM NamesAppliedAlways == ConfigSpec => NamesApplied
<1>1. ASSUME ConfigInv, SyncPeers, NEW id \in IdsOf(desired')
      PROVE  NameOf(devices', id) = IF GivenName(desired', id) # NoName
                                    THEN GivenName(desired', id)
                                    ELSE NameOf(devices, id)
  <2>1. desired' \in Seq(Device) /\ Reconciled(Prepared(Current), desired', Current')
    BY <1>1, SyncStep DEF ConfigInv
  <2>2. id \in Ids
    BY <1>1, <2>1, IdsOfIs
  <2>3. NameOf(Prepared(Current).devices, id) = NameOf(devices, id)
    BY <1>1, <2>2, PreparedInv
  <2>4. Current'.devices = devices'
    BY DEF Current
  <2> QED
    BY <1>1, <2>1, <2>3, <2>4 DEF Reconciled
<1>2. ConfigInv /\ [ConfigNext]_configVars =>
        [SyncPeers =>
           \A id \in IdsOf(desired') :
              NameOf(devices', id) = IF GivenName(desired', id) # NoName
                                     THEN GivenName(desired', id)
                                     ELSE NameOf(devices, id)]_configVars
  BY <1>1
<1> QED
  BY <1>2, ConfigInvariance, PTL DEF ConfigSpec, NamesApplied
=============================================================================

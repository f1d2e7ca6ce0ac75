---------------------------- MODULE ReportsProofs ----------------------------
(***************************************************************************)
(* Theorems about Reports, for transcripts and answers of every length,    *)
(* and about Dashboard, for every set of reports and users, every length   *)
(* of a day and every size of a page.                                      *)
(*                                                                         *)
(* The argument for Reports: every detector reports findings at places of  *)
(* its steps, and what a transcript proves among them; the merges keep     *)
(* what they are given, or something worth as much; the later stages       *)
(* rewrite fields that decide neither.  ReportInv says so of each stage.   *)
(***************************************************************************)
EXTENDS Reports, Dashboard, FiniteSetTheorems, WellFoundedInduction, TLAPS

-----------------------------------------------------------------------------
(* Lists.                                                                  *)

(* A sequence over any set is a list, and holds what its places hold.       *)
LEMMA ListOf ==
  ASSUME NEW S, NEW s \in Seq(S)
  PROVE  /\ IsList(s) /\ Len(s) \in Nat /\ DOMAIN s = 1..Len(s)
         /\ ToSet(s) = {s[i] : i \in 1..Len(s)} /\ ToSet(s) \subseteq S
<1>1. Len(s) \in Nat /\ DOMAIN s = 1..Len(s) /\ \A i \in 1..Len(s) : s[i] \in S
  OBVIOUS
<1>2. ToSet(s) = {s[i] : i \in 1..Len(s)}
  BY <1>1 DEF ToSet
<1>3. s \in [1..Len(s) -> ToSet(s)]
  BY <1>1, <1>2
<1>4. ToSet(s) \subseteq S
  BY <1>1, <1>2
<1>. DEFINE T == ToSet(s)
<1>5. IsList(s)
  <2>. SUFFICES s \in Seq(T)
    BY DEF IsList
  <2>. HIDE DEF T
  <2>. QED
    BY <1>1, <1>3 DEF T
<1>. QED
  BY <1>1, <1>2, <1>4, <1>5

(* The same, of a list.                                                     *)
LEMMA ListIs ==
  ASSUME NEW s, IsList(s)
  PROVE  /\ Len(s) \in Nat /\ DOMAIN s = 1..Len(s)
         /\ ToSet(s) = {s[i] : i \in 1..Len(s)}
<1>. DEFINE S == ToSet(s)
<1>1. s \in Seq(S)
  BY DEF IsList
<1>. HIDE DEF S
<1>. QED
  BY <1>1, ListOf

(* A function on the first n numbers is a list.                             *)
LEMMA Indexed ==
  ASSUME NEW n \in Nat, NEW F, F = [i \in 1..n |-> F[i]]
  PROVE  IsList(F) /\ Len(F) = n
<1>. DEFINE S == {F[i] : i \in 1..n}
<1>1. F \in [1..n -> S]
  OBVIOUS
<1>2. F \in Seq(S) /\ Len(F) = n
  BY <1>1
<1>. QED
  BY <1>2, ListOf

(* Two lists in a row.                                                      *)
LEMMA Joined ==
  ASSUME NEW a, NEW b, IsList(a), IsList(b)
  PROVE  /\ IsList(a \o b) /\ ToSet(a \o b) = ToSet(a) \cup ToSet(b)
         /\ Len(a \o b) = Len(a) + Len(b)
<1>. DEFINE S == ToSet(a) \cup ToSet(b)
            A == ToSet(a)
            B == ToSet(b)
<1>1. a \in Seq(A) /\ b \in Seq(B)
  BY DEF IsList
<1>2. a \in Seq(S) /\ b \in Seq(S)
  <2>1. A \subseteq S /\ B \subseteq S
    OBVIOUS
  <2>. HIDE DEF A, B, S
  <2>. QED
    BY <1>1, <2>1
<1>3. /\ A = {a[i] : i \in 1..Len(a)} /\ B = {b[i] : i \in 1..Len(b)}
      /\ Len(a) \in Nat /\ Len(b) \in Nat
  BY <1>1, ListOf
<1>. HIDE DEF A, B, S
<1>4. /\ a \o b \in Seq(S) /\ Len(a \o b) = Len(a) + Len(b)
      /\ \A i \in 1..Len(a) : (a \o b)[i] = a[i]
      /\ \A i \in 1..Len(b) : (a \o b)[Len(a) + i] = b[i]
      /\ \A i \in 1..Len(a) + Len(b) : i > Len(a) => (a \o b)[i] = b[i - Len(a)]
  BY <1>2
<1>5. IsList(a \o b) /\ ToSet(a \o b) = {(a \o b)[i] : i \in 1..Len(a) + Len(b)}
  BY <1>4, ListOf
<1>6. ASSUME NEW x \in A PROVE x \in ToSet(a \o b)
  <2>1. PICK i \in 1..Len(a) : x = a[i]
    BY <1>3, <1>6
  <2>2. i \in 1..Len(a) + Len(b) /\ (a \o b)[i] = x
    BY <1>3, <1>4, <2>1
  <2>. QED
    BY <1>5, <2>2
<1>7. ASSUME NEW x \in B PROVE x \in ToSet(a \o b)
  <2>1. PICK i \in 1..Len(b) : x = b[i]
    BY <1>3, <1>7
  <2>2. Len(a) + i \in 1..Len(a) + Len(b) /\ (a \o b)[Len(a) + i] = x
    BY <1>3, <1>4, <2>1
  <2>. QED
    BY <1>5, <2>2
<1>8. ASSUME NEW x \in ToSet(a \o b) PROVE x \in A \cup B
  <2>1. PICK i \in 1..Len(a) + Len(b) : x = (a \o b)[i]
    BY <1>5, <1>8
  <2>2. CASE i <= Len(a)
    BY <1>3, <1>4, <2>1, <2>2
  <2>3. CASE i > Len(a)
    <3>1. i - Len(a) \in 1..Len(b) /\ x = b[i - Len(a)]
      BY <1>3, <1>4, <2>1, <2>3
    <3>. QED
      BY <1>3, <3>1
  <2>. QED
    BY <1>3, <2>2, <2>3
<1>. QED
  BY <1>4, <1>5, <1>6, <1>7, <1>8 DEF A, B

(* The empty list.                                                          *)
LEMMA Singles == IsList(<< >>) /\ ToSet(<< >>) = {} /\ Len(<< >>) = 0
BY DEF IsList, ToSet

(* A list of one.                                                           *)
LEMMA Single ==
  ASSUME NEW x
  PROVE  IsList(<<x>>) /\ ToSet(<<x>>) = {x} /\ Len(<<x>>) = 1
<1>1. <<x>> \in Seq({x}) /\ Len(<<x>>) = 1 /\ <<x>>[1] = x
  OBVIOUS
<1>2. IsList(<<x>>) /\ ToSet(<<x>>) = {<<x>>[i] : i \in 1..1}
  BY <1>1, ListOf
<1>. QED
  BY <1>1, <1>2

(* A set of numbers that is not empty has a least one.                     *)
LEMMA LeastOf ==
  ASSUME NEW B \in SUBSET Nat, B # {}
  PROVE  \E m \in B : \A k \in Nat : k < m => k \notin B
<1>1. PICK m \in B : \A k \in B : ~ (<<k, m>> \in OpToRel(<, Nat))
  BY NatLessThanWellFounded, WFMin
<1>2. ASSUME NEW k \in Nat, k < m PROVE k \notin B
  BY <1>1, <1>2, Zenon DEF OpToRel
<1>. QED
  BY <1>2

(* The recursive function inside FlattenSeq exists.                         *)
LEMMA Flattens ==
  ASSUME NEW seqs, NEW n \in Nat, n = Len(seqs), n # 0
  PROVE  \E g : /\ \A i \in 1..n : g[i] = IF i = 1 THEN seqs[i] ELSE g[i - 1] \o seqs[i]
                /\ FlattenSeq(seqs) = g[n]
<1>. DEFINE Next1(g, i) == IF i = 1 THEN seqs[i] ELSE g[i - 1] \o seqs[i]
            Fine(m, g) == g = [i \in 1..m |-> g[i]] /\ \A i \in 1..m : g[i] = Next1(g, i)
            Bad == {m \in Nat : m # 0 /\ ~ \E g : Fine(m, g)}
<1>1. ASSUME NEW m \in Nat, m # 0, NEW g, m # 1 => Fine(m - 1, g)
      PROVE  \E h : Fine(m, h)
  <2>. DEFINE h == [i \in 1..m |-> IF i = m THEN Next1(g, m) ELSE g[i]]
  <2>1. h = [i \in 1..m |-> h[i]]
    OBVIOUS
  <2>2. \A i \in 1..m : h[i] = IF i = m THEN Next1(g, m) ELSE g[i]
    OBVIOUS
  <2>3. ASSUME NEW i \in 1..m PROVE Next1(h, i) = Next1(g, i)
    <3>1. CASE i = 1
      BY <3>1
    <3>2. CASE i # 1
      <4>1. i - 1 \in 1..m /\ i - 1 # m
        BY <3>2
      <4>2. h[i - 1] = g[i - 1]
        BY <2>2, <4>1
      <4>. QED
        BY <4>2
    <3>. QED
      BY <3>1, <3>2
  <2>. HIDE DEF h, Next1
  <2>4. ASSUME NEW i \in 1..m PROVE h[i] = Next1(h, i)
    <3>1. CASE i = m
      BY <2>2, <2>3, <3>1
    <3>2. CASE i # m
      <4>1. i \in 1..m - 1 /\ m # 1
        BY <3>2
      <4>2. g[i] = Next1(g, i)
        BY <1>1, <4>1
      <4>. QED
        BY <2>2, <2>3, <3>2, <4>2
    <3>. QED
      BY <3>1, <3>2
  <2>5. Fine(m, h)
    BY <2>1, <2>4
  <2>. HIDE DEF Fine
  <2>. QED
    BY <2>5
<1>2. Bad = {}
  <2>. SUFFICES ASSUME Bad # {} PROVE FALSE
    OBVIOUS
  <2>1. Bad \in SUBSET Nat
    OBVIOUS
  <2>2. PICK m \in Bad : \A k \in Nat : k < m => k \notin Bad
    <3>. HIDE DEF Bad
    <3>. QED
      BY <2>1, LeastOf
  <2>. HIDE DEF Fine
  <2>3. m \in Nat /\ m # 0 /\ ~ \E g : Fine(m, g)
    OBVIOUS
  <2>4. m # 1 => m - 1 \in Nat /\ m - 1 # 0 /\ m - 1 < m
    BY <2>3
  <2>5. m # 1 => \E g : Fine(m - 1, g)
    BY <2>2, <2>4
  <2>. QED
    BY <1>1, <2>3, <2>5
<1>3. PICK h : Fine(n, h)
  <2>. HIDE DEF Fine
  <2>. QED
    BY <1>2
<1>. DEFINE Whole(g) == g = [i \in 1..n |-> IF i = 1 THEN seqs[i] ELSE g[i - 1] \o seqs[i]]
            Chosen == CHOOSE g : Whole(g)
<1>4. Whole(h)
  BY <1>3
<1>5. Whole(Chosen)
  <2>. HIDE DEF Whole
  <2>. QED
    BY <1>4
<1>6. FlattenSeq(seqs) = Chosen[n]
  BY DEF FlattenSeq
<1>7. \A i \in 1..n : Chosen[i] = IF i = 1 THEN seqs[i] ELSE Chosen[i - 1] \o seqs[i]
  <2>. HIDE DEF Chosen
  <2>. QED
    BY <1>5
<1>. HIDE DEF Chosen
<1>. QED
  BY <1>6, <1>7

(* What is in a list of lists, flattened.                                   *)
LEMMA Flattened ==
  ASSUME NEW n \in Nat, NEW F, F = [i \in 1..n |-> F[i]], \A i \in 1..n : IsList(F[i])
  PROVE  /\ IsList(FlattenSeq(F))
         /\ ToSet(FlattenSeq(F)) = UNION {ToSet(F[i]) : i \in 1..n}
<1>1. Len(F) = n /\ IsList(F)
  BY Indexed
<1>2. CASE n = 0
  <2>1. FlattenSeq(F) = F
    BY <1>1, <1>2 DEF FlattenSeq
  <2>2. ToSet(F) = {}
    <3>1. DOMAIN F = {}
      BY <1>2
    <3>. QED
      BY <3>1 DEF ToSet
  <2>. QED
    BY <1>1, <1>2, <2>1, <2>2
<1>3. CASE n # 0
  <2>1. PICK g : /\ \A i \in 1..n : g[i] = IF i = 1 THEN F[i] ELSE g[i - 1] \o F[i]
                 /\ FlattenSeq(F) = g[n]
    BY <1>1, <1>3, Flattens
  <2>. DEFINE Upto(i) == UNION {ToSet(F[j]) : j \in 1..i}
              Fine(i) == IsList(g[i]) /\ ToSet(g[i]) = Upto(i)
              Bad == {i \in 1..n : ~ Fine(i)}
  <2>2. ASSUME NEW i \in 1..n, i # 1 => Fine(i - 1) PROVE Fine(i)
    <3>1. CASE i = 1
      <4>1. 1..1 = {1} /\ g[1] = F[1] /\ IsList(F[1])
        BY <2>1, <3>1
      <4>2. Upto(1) = ToSet(F[1])
        BY <4>1
      <4>. QED
        BY <3>1, <4>1, <4>2
    <3>2. CASE i # 1
      <4>1. IsList(F[i]) /\ g[i] = g[i - 1] \o F[i]
        BY <2>1, <3>2
      <4>2. Upto(i) = Upto(i - 1) \cup ToSet(F[i])
        <5>1. \A j : j \in 1..i <=> j \in 1..(i - 1) \/ j = i
          OBVIOUS
        <5>. QED
          BY <5>1, Zenon
      <4>. HIDE DEF Upto
      <4>3. IsList(g[i - 1]) /\ ToSet(g[i - 1]) = Upto(i - 1)
        BY <2>2, <3>2
      <4>. QED
        BY <4>1, <4>2, <4>3, Joined
    <3>. QED
      BY <3>1, <3>2
  <2>. HIDE DEF Fine
  <2>3. Bad = {}
    <3>. SUFFICES ASSUME Bad # {} PROVE FALSE
      OBVIOUS
    <3>1. Bad \in SUBSET Nat
      OBVIOUS
    <3>2. PICK m \in Bad : \A k \in Nat : k < m => k \notin Bad
      <4>. HIDE DEF Bad
      <4>. QED
        BY <3>1, LeastOf
    <3>3. m \in 1..n /\ ~ Fine(m)
      OBVIOUS
    <3>4. m # 1 => m - 1 \in Nat /\ m - 1 < m /\ m - 1 \in 1..n
      BY <3>3
    <3>5. m # 1 => Fine(m - 1)
      BY <3>2, <3>4
    <3>. QED
      BY <2>2, <3>3, <3>5
  <2>4. Fine(n)
    BY <1>3, <2>3
  <2>. QED
    BY <2>1, <2>4 DEF Fine
<1>. QED
  BY <1>2, <1>3

(* What a loop collects of a list.                                          *)
LEMMA Collected ==
  ASSUME NEW seq, IsList(seq), NEW P, P \subseteq 1..Len(seq),
         NEW F, F = [i \in 1..Len(seq) |-> F[i]],
         \A i \in 1..Len(seq) : F[i] = IF i \in P THEN <<seq[i]>> ELSE <<>>
  PROVE  /\ IsList(FlattenSeq(F))
         /\ \A x : x \in ToSet(FlattenSeq(F)) <=> \E i \in P : x = seq[i]
<1>. DEFINE n == Len(seq)
<1>1. n \in Nat
  BY ListOf DEF IsList
<1>2. \A i \in 1..n : F[i] = IF i \in P THEN <<seq[i]>> ELSE <<>>
  OBVIOUS
<1>3. \A i \in 1..n : /\ IsList(F[i])
                      /\ ToSet(F[i]) = IF i \in P THEN {seq[i]} ELSE {}
  BY <1>2, Single, Singles
<1>4. F = [i \in 1..n |-> F[i]]
  OBVIOUS
<1>5. /\ IsList(FlattenSeq(F))
      /\ ToSet(FlattenSeq(F)) = UNION {ToSet(F[i]) : i \in 1..n}
  BY <1>1, <1>3, <1>4, Flattened
<1>6. UNION {ToSet(F[i]) : i \in 1..n} = {seq[i] : i \in P}
  BY <1>3
<1>. QED
  BY <1>5, <1>6

(* A list that is not empty has a first and a last member.                  *)
LEMMA FirstOf ==
  ASSUME NEW s, IsList(s), s # <<>>
  PROVE  Head(s) \in ToSet(s) /\ Len(s) > 0 /\ s[Len(s)] \in ToSet(s)
<1>. DEFINE S == ToSet(s)
<1>1. s \in Seq(S)
  BY DEF IsList
<1>2. S = {s[i] : i \in 1..Len(s)}
  BY <1>1, ListOf
<1>. HIDE DEF S
<1>3. Len(s) \in Nat /\ Len(s) # 0 /\ Head(s) = s[1]
  BY <1>1
<1>. QED
  BY <1>2, <1>3 DEF S

-----------------------------------------------------------------------------
(* The merge of a dynamic scan.                                            *)

(* The worth of a finding can be compared.                                  *)
LEMMA ScoresAreNumbers ==
  ASSUME NEW f
  PROVE  VulnScore(f) \in Int
<1>1. SeverityOrder(f.severity) \in Int
  <2>. DEFINE s == f.severity
  <2>1. CASE s \in Severities
    BY <2>1 DEF SeverityOrder, Severities
  <2>2. CASE s \notin Severities
    BY <2>2 DEF SeverityOrder
  <2>. QED
    BY <2>1, <2>2
<1>. DEFINE a == IF f.verified THEN 100 ELSE 0
            b == IF f.poc THEN 5 ELSE 0
            c == IF f.impact THEN 2 ELSE 0
            o == SeverityOrder(f.severity)
<1>2. a \in Int /\ b \in Int /\ c \in Int
  OBVIOUS
<1>3. VulnScore(f) = (((o * 10) + a) + b) + c
  BY DEF VulnScore
<1>. HIDE DEF a, b, c, o
<1>. QED
  BY <1>1, <1>2, <1>3 DEF o

Unique(list) == \A i, j \in 1..Len(list) : MergeKey(list[i]) = MergeKey(list[j]) => i = j

(* A finding of the list is as good as f.                                   *)
Covers(list, f) ==
  \E g \in ToSet(list) : MergeKey(g) = MergeKey(f) /\ VulnScore(g) >= VulnScore(f)

(* One finding added: the list stays free of doubles and loses nothing it   *)
(* covered.                                                                 *)
LEMMA AddFindingKeeps ==
  ASSUME NEW list, IsList(list), Unique(list), NEW f
  PROVE  /\ IsList(AddFinding(list, f)) /\ Unique(AddFinding(list, f))
         /\ ToSet(AddFinding(list, f)) \subseteq ToSet(list) \cup {f}
         /\ Covers(AddFinding(list, f), f)
         /\ \A x : Covers(list, x) => Covers(AddFinding(list, f), x)
<1>. DEFINE n == Len(list)
            S == ToSet(list) \cup {f}
            T == ToSet(list)
            same == {i \in 1..n : MergeKey(list[i]) = MergeKey(f)}
            new == AddFinding(list, f)
<1>1. list \in Seq(T) /\ n \in Nat /\ T = {list[i] : i \in 1..n}
  BY ListOf DEF IsList
<1>2. T \subseteq S /\ f \in S
  OBVIOUS
<1>3. CASE same = {}
  <2>1. new = Append(list, f)
    BY <1>3 DEF AddFinding
  <2>. HIDE DEF S, T, new
  <2>2. list \in Seq(S)
    BY <1>1, <1>2
  <2>3. /\ new \in Seq(S) /\ Len(new) = n + 1
        /\ \A i \in 1..n : new[i] = list[i]
        /\ new[n + 1] = f
    BY <1>2, <2>1, <2>2
  <2>4. IsList(new) /\ ToSet(new) = {new[i] : i \in 1..n + 1} /\ ToSet(new) \subseteq S
    BY <2>3, ListOf
  <2>5. Unique(new)
    <3>. SUFFICES ASSUME NEW i \in 1..n + 1, NEW j \in 1..n + 1,
                         MergeKey(new[i]) = MergeKey(new[j])
                  PROVE  i = j
      BY <2>3 DEF Unique
    <3>1. \A k \in 1..n : MergeKey(list[k]) # MergeKey(f)
      BY <1>3
    <3>2. \A k \in 1..n + 1 : k = n + 1 \/ k \in 1..n
      BY <1>1
    <3>. QED
      BY <2>3, <3>1, <3>2 DEF Unique
  <2>6. T \subseteq ToSet(new) /\ f \in ToSet(new)
    <3>1. n + 1 \in 1..n + 1 /\ \A i \in 1..n : i \in 1..n + 1
      BY <1>1
    <3>. QED
      BY <1>1, <2>3, <2>4, <3>1
  <2>7. Covers(new, f) /\ \A x : Covers(list, x) => Covers(new, x)
    BY <2>6, ScoresAreNumbers DEF Covers, T
  <2>. QED
    BY <2>4, <2>5, <2>7 DEF S, T, new
<1>4. CASE same # {}
  <2>. DEFINE k == CHOOSE j \in same : TRUE
  <2>1. k \in 1..n /\ MergeKey(list[k]) = MergeKey(f)
    BY <1>4
  <2>2. new = IF VulnScore(f) > VulnScore(list[k]) THEN [list EXCEPT ![k] = f] ELSE list
    BY <1>4 DEF AddFinding
  <2>. HIDE DEF k, new, S, T
  <2>3. CASE VulnScore(f) > VulnScore(list[k])
    <3>1. new = [list EXCEPT ![k] = f] /\ list \in Seq(S)
      BY <1>1, <1>2, <2>2, <2>3
    <3>2. /\ new \in Seq(S) /\ Len(new) = n
          /\ \A i \in 1..n : new[i] = IF i = k THEN f ELSE list[i]
      BY <1>1, <1>2, <2>1, <3>1
    <3>3. IsList(new) /\ ToSet(new) = {new[i] : i \in 1..n} /\ ToSet(new) \subseteq S
      BY <3>2, ListOf
    <3>4. \A i \in 1..n : MergeKey(new[i]) = MergeKey(list[i])
      BY <2>1, <3>2
    <3>5. Unique(new)
      BY <3>2, <3>4 DEF Unique
    <3>6. ASSUME NEW x, Covers(list, x) PROVE Covers(new, x)
      <4>1. PICK i \in 1..n : /\ MergeKey(list[i]) = MergeKey(x)
                              /\ VulnScore(list[i]) >= VulnScore(x)
        BY <1>1, <3>6 DEF Covers, T
      <4>2. VulnScore(new[i]) >= VulnScore(x)
        BY <2>3, <3>2, <4>1, ScoresAreNumbers
      <4>. QED
        BY <3>3, <3>4, <4>1, <4>2 DEF Covers
    <3>7. Covers(new, f)
      <4>1. new[k] \in ToSet(new) /\ new[k] = f /\ VulnScore(f) >= VulnScore(f)
        BY <2>1, <3>2, <3>3, ScoresAreNumbers
      <4>. QED
        BY <4>1 DEF Covers
    <3>. QED
      BY <3>3, <3>5, <3>6, <3>7 DEF S, T, new
  <2>4. CASE ~ (VulnScore(f) > VulnScore(list[k]))
    <3>1. new = list
      BY <2>2, <2>4
    <3>2. VulnScore(list[k]) >= VulnScore(f)
      BY <2>4, ScoresAreNumbers
    <3>3. list[k] \in T
      BY <1>1, <2>1
    <3>4. Covers(list, f)
      BY <2>1, <3>2, <3>3 DEF Covers, T
    <3>5. ToSet(new) \subseteq S
      BY <1>2, <3>1 DEF T
    <3>. QED
      BY <3>1, <3>4, <3>5 DEF S, T, new
  <2>. QED
    BY <2>3, <2>4
<1>. QED
  BY <1>3, <1>4

(* mergeDynamicVulns.                                                       *)
LEMMA DynamicMerge ==
  ASSUME NEW detector, NEW agent, IsList(detector), IsList(agent)
  PROVE  LET list == MergeDynamic(detector, agent) IN
         /\ IsList(list) /\ Unique(list)
         /\ ToSet(list) \subseteq ToSet(detector) \cup ToSet(agent)
         /\ \A f \in ToSet(detector) \cup ToSet(agent) : Covers(list, f)
<1>. DEFINE all == detector \o agent
            N == Len(all)
            Next1(g, i) == IF i = 0 THEN <<>> ELSE AddFinding(g[i - 1], all[i])
            Fine(m, g) == g = [i \in 0..m |-> g[i]] /\ \A i \in 0..m : g[i] = Next1(g, i)
            Bad == {m \in Nat : ~ \E g : Fine(m, g)}
<1>1. /\ IsList(all) /\ N \in Nat /\ ToSet(all) = ToSet(detector) \cup ToSet(agent)
      /\ ToSet(all) = {all[i] : i \in 1..N}
  <2>1. IsList(all) /\ ToSet(all) = ToSet(detector) \cup ToSet(agent)
    BY Joined
  <2>. HIDE DEF all
  <2>. QED
    BY <2>1, ListIs
<1>. HIDE DEF all, N
<1>2. ASSUME NEW m \in Nat, NEW g, m # 0 => Fine(m - 1, g)
      PROVE  \E h : Fine(m, h)
  <2>. DEFINE h == [i \in 0..m |-> IF i = m THEN Next1(g, m) ELSE g[i]]
  <2>1. h = [i \in 0..m |-> h[i]]
    OBVIOUS
  <2>2. \A i \in 0..m : h[i] = IF i = m THEN Next1(g, m) ELSE g[i]
    OBVIOUS
  <2>3. ASSUME NEW i \in 0..m PROVE Next1(h, i) = Next1(g, i)
    <3>1. CASE i = 0
      BY <3>1
    <3>2. CASE i # 0
      <4>1. i - 1 \in 0..m /\ i - 1 # m
        BY <3>2
      <4>2. h[i - 1] = g[i - 1]
        BY <2>2, <4>1
      <4>. QED
        BY <4>2
    <3>. QED
      BY <3>1, <3>2
  <2>. HIDE DEF h, Next1
  <2>4. ASSUME NEW i \in 0..m PROVE h[i] = Next1(h, i)
    <3>1. CASE i = m
      BY <2>2, <2>3, <3>1
    <3>2. CASE i # m
      <4>1. i \in 0..m - 1 /\ m # 0
        BY <3>2
      <4>2. g[i] = Next1(g, i)
        BY <1>2, <4>1
      <4>. QED
        BY <2>2, <2>3, <3>2, <4>2
    <3>. QED
      BY <3>1, <3>2
  <2>5. Fine(m, h)
    BY <2>1, <2>4
  <2>. HIDE DEF Fine
  <2>. QED
    BY <2>5
<1>3. Bad = {}
  <2>. SUFFICES ASSUME Bad # {} PROVE FALSE
    OBVIOUS
  <2>1. Bad \in SUBSET Nat
    OBVIOUS
  <2>2. PICK m \in Bad : \A k \in Nat : k < m => k \notin Bad
    <3>. HIDE DEF Bad
    <3>. QED
      BY <2>1, LeastOf
  <2>. HIDE DEF Fine
  <2>3. m \in Nat /\ ~ \E g : Fine(m, g)
    OBVIOUS
  <2>4. m # 0 => m - 1 \in Nat /\ m - 1 < m
    BY <2>3
  <2>5. m # 0 => \E g : Fine(m - 1, g)
    BY <2>2, <2>4
  <2>. QED
    BY <1>2, <2>3, <2>5
<1>4. PICK h : Fine(N, h)
  <2>. HIDE DEF Fine
  <2>. QED
    BY <1>1, <1>3
<1>. DEFINE Whole(g) == g = [n \in 0..N |-> IF n = 0 THEN <<>> ELSE AddFinding(g[n - 1], all[n])]
            Chosen == CHOOSE g : Whole(g)
<1>5. Whole(h)
  BY <1>4
<1>6. Whole(Chosen)
  <2>. HIDE DEF Whole
  <2>. QED
    BY <1>5
<1>7. MergeDynamic(detector, agent) = Chosen[N]
  BY DEF MergeDynamic, all, N
<1>8. \A i \in 0..N : Chosen[i] = IF i = 0 THEN <<>> ELSE AddFinding(Chosen[i - 1], all[i])
  <2>. HIDE DEF Chosen
  <2>. QED
    BY <1>6
<1>. HIDE DEF Chosen
<1>. DEFINE Right(i) == /\ IsList(Chosen[i]) /\ Unique(Chosen[i])
                        /\ ToSet(Chosen[i]) \subseteq {all[j] : j \in 1..i}
                        /\ \A j \in 1..i : Covers(Chosen[i], all[j])
            Wrong == {i \in 0..N : ~ Right(i)}
<1>9. ASSUME NEW i \in 0..N, i # 0 => Right(i - 1) PROVE Right(i)
  <2>1. CASE i = 0
    <3>1. Chosen[i] = <<>> /\ 1..i = {}
      BY <1>1, <1>8, <2>1
    <3>. QED
      BY <3>1, Singles DEF Unique
  <2>2. CASE i # 0
    <3>1. i \in Nat /\ Chosen[i] = AddFinding(Chosen[i - 1], all[i])
      BY <1>1, <1>8, <2>2
    <3>2. Right(i - 1)
      BY <1>9, <2>2
    <3>3. \A j : j \in 1..i <=> j \in 1..(i - 1) \/ j = i
      BY <2>2, <3>1
    <3>4. /\ IsList(Chosen[i]) /\ Unique(Chosen[i])
          /\ ToSet(Chosen[i]) \subseteq ToSet(Chosen[i - 1]) \cup {all[i]}
          /\ Covers(Chosen[i], all[i])
          /\ \A x : Covers(Chosen[i - 1], x) => Covers(Chosen[i], x)
      BY <3>1, <3>2, AddFindingKeeps
    <3>. QED
      BY <3>2, <3>3, <3>4
  <2>. QED
    BY <2>1, <2>2
<1>. HIDE DEF Right
<1>10. Wrong = {}
  <2>. SUFFICES ASSUME Wrong # {} PROVE FALSE
    OBVIOUS
  <2>1. Wrong \in SUBSET Nat
    BY <1>1
  <2>2. PICK m \in Wrong : \A k \in Nat : k < m => k \notin Wrong
    <3>. HIDE DEF Wrong
    <3>. QED
      BY <2>1, LeastOf
  <2>3. m \in 0..N /\ ~ Right(m)
    OBVIOUS
  <2>4. m # 0 => m - 1 \in Nat /\ m - 1 < m /\ m - 1 \in 0..N
    BY <1>1, <2>3
  <2>5. m # 0 => Right(m - 1)
    BY <2>2, <2>4
  <2>. QED
    BY <1>9, <2>3, <2>5
<1>11. Right(N)
  BY <1>1, <1>10
<1>12. /\ ToSet(Chosen[N]) \subseteq ToSet(all)
       /\ \A f \in ToSet(all) : Covers(Chosen[N], f)
  BY <1>1, <1>11 DEF Right
<1>. QED
  BY <1>1, <1>7, <1>11, <1>12 DEF Right

(* The class of the first rule that knows a word of a label.                *)
LEMMA FirstHit ==
  ASSUME NEW rules, NEW label, NEW otherwise, NEW k \in DOMAIN rules, DOMAIN rules \subseteq Nat,
         Has(label, rules[k].words),
         \A j \in DOMAIN rules : j < k => ~ Has(label, rules[j].words)
  PROVE  FirstRule(rules, label, otherwise) = rules[k].class
<1>. DEFINE hits == {i \in DOMAIN rules : Has(label, rules[i].words)}
<1>1. k \in hits /\ \A j \in hits : k <= j /\ j \in Nat
  <2>. HIDE DEF Has
  <2>. QED
    OBVIOUS
<1>2. Min(hits) = k
  <2>. HIDE DEF hits
  <2>. QED
    BY <1>1 DEF Min
<1>3. FirstRule(rules, label, otherwise) = rules[Min(hits)].class
  BY <1>1 DEF FirstRule
<1>. QED
  BY <1>2, <1>3

(* The class of a label is one of a rule, or the default.                   *)
LEMMA SomeClass ==
  ASSUME NEW rules, NEW label, NEW otherwise, DOMAIN rules \subseteq Nat
  PROVE  \/ FirstRule(rules, label, otherwise) = otherwise
         \/ \E k \in DOMAIN rules : FirstRule(rules, label, otherwise) = rules[k].class
<1>. DEFINE hits == {i \in DOMAIN rules : Has(label, rules[i].words)}
<1>1. CASE hits = {}
  BY <1>1 DEF FirstRule
<1>2. CASE hits # {}
  <2>1. PICK m \in hits : \A j \in Nat : j < m => j \notin hits
    <3>1. hits \in SUBSET Nat
      OBVIOUS
    <3>. HIDE DEF hits
    <3>. QED
      BY <1>2, <3>1, LeastOf
  <2>2. m \in DOMAIN rules /\ Has(label, rules[m].words)
        /\ \A j \in DOMAIN rules : j < m => ~ Has(label, rules[j].words)
    BY <2>1
  <2>. QED
    BY <2>2, FirstHit
<1>. QED
  BY <1>1, <1>2

(* The classes of what a transcript can prove.                              *)
LEMMA ProofClasses ==
  /\ CanonicalVulnType("SQL_Injection") = "sql_injection"
  /\ CanonicalVulnType("Remote_Code_Execution") = "rce"
  /\ CanonicalVulnType("Unrestricted_File_Upload") = "rce"
  /\ CanonicalVulnType("Default_Credentials") = "default_credentials"
  /\ CanonicalVulnType("Insecure_Direct_Object_Reference") = "broken_access_control"
<1>. DEFINE R == CanonicalRules
<1>1. /\ DOMAIN R = 1..11
      /\ R[1].words = {"sql"} /\ R[1].class = "sql_injection"
      /\ R[2].words = {"xss", "cross-site_script"}
      /\ R[3].words = {"ssrf", "server-side_request"}
      /\ R[4].words = {"ssti", "template_inj"}
      /\ R[5].words = {"upload", "rce", "remote_code", "command_inj", "web_shell", "webshell"}
      /\ R[5].class = "rce"
      /\ R[6].words = {"idor", "insecure_direct_object", "access_control", "broken_access"}
      /\ R[6].class = "broken_access_control"
      /\ R[7].words = {"redirect"}
      /\ R[8].words = {"default_cred", "default_login", "default_admin"}
      /\ R[8].class = "default_credentials"
  BY DEF CanonicalRules
<1>2. /\ Words["SQL_Injection"] = {"sql", "sql_injection"}
      /\ Words["Remote_Code_Execution"]
           = {"remote_code", "remote_code_execution", "code_execution"}
      /\ Words["Unrestricted_File_Upload"] = {"upload", "file_upload"}
      /\ Words["Default_Credentials"] = {"default_cred", "default_credential", "credential"}
      /\ Words["Insecure_Direct_Object_Reference"] = {"insecure_direct_object"}
  <2>1. /\ Blank # "SQL_Injection" /\ Blank # "Remote_Code_Execution"
        /\ Blank # "Unrestricted_File_Upload" /\ Blank # "Default_Credentials"
        /\ Blank # "Insecure_Direct_Object_Reference"
    BY Zenon DEF Blank
  <2>. QED
    BY <2>1 DEF Words, OwnWords, OwnLabels
<1>. HIDE DEF R
<1>3. \A j \in 1..11 : /\ j < 5 => j \in {1, 2, 3, 4}
                       /\ j < 6 => j \in {1, 2, 3, 4, 5}
                       /\ j < 8 => j \in {1, 2, 3, 4, 5, 6, 7}
  OBVIOUS
<1>4. FirstRule(R, "SQL_Injection", "SQL_Injection") = "sql_injection"
  <2>1. Has("SQL_Injection", R[1].words)
    BY <1>1, <1>2 DEF Has
  <2>2. 1 \in DOMAIN R /\ DOMAIN R \subseteq Nat
    BY <1>1
  <2>3. \A j \in DOMAIN R : j < 1 => ~ Has("SQL_Injection", R[j].words)
    BY <1>1, <1>3, <2>1
  <2>4. FirstRule(R, "SQL_Injection", "SQL_Injection") = R[1].class
    BY <2>1, <2>2, <2>3, FirstHit
  <2>. QED
    BY <1>1, <2>4
<1>5. FirstRule(R, "Remote_Code_Execution", "Remote_Code_Execution") = "rce"
  <2>1. /\ Has("Remote_Code_Execution", R[5].words)
        /\ \A j \in {1, 2, 3, 4} : ~ Has("Remote_Code_Execution", R[j].words)
    BY <1>1, <1>2 DEF Has
  <2>2. 5 \in DOMAIN R /\ DOMAIN R \subseteq Nat
    BY <1>1
  <2>3. \A j \in DOMAIN R : j < 5 => ~ Has("Remote_Code_Execution", R[j].words)
    BY <1>1, <1>3, <2>1
  <2>4. FirstRule(R, "Remote_Code_Execution", "Remote_Code_Execution") = R[5].class
    BY <2>1, <2>2, <2>3, FirstHit
  <2>. QED
    BY <1>1, <2>4
<1>6. FirstRule(R, "Unrestricted_File_Upload", "Unrestricted_File_Upload") = "rce"
  <2>1. /\ Has("Unrestricted_File_Upload", R[5].words)
        /\ \A j \in {1, 2, 3, 4} : ~ Has("Unrestricted_File_Upload", R[j].words)
    BY <1>1, <1>2 DEF Has
  <2>2. 5 \in DOMAIN R /\ DOMAIN R \subseteq Nat
    BY <1>1
  <2>3. \A j \in DOMAIN R : j < 5 => ~ Has("Unrestricted_File_Upload", R[j].words)
    BY <1>1, <1>3, <2>1
  <2>4. FirstRule(R, "Unrestricted_File_Upload", "Unrestricted_File_Upload") = R[5].class
    BY <2>1, <2>2, <2>3, FirstHit
  <2>. QED
    BY <1>1, <2>4
<1>7. FirstRule(R, "Default_Credentials", "Default_Credentials") = "default_credentials"
  <2>1. /\ Has("Default_Credentials", R[8].words)
        /\ \A j \in {1, 2, 3, 4, 5, 6, 7} : ~ Has("Default_Credentials", R[j].words)
    BY <1>1, <1>2 DEF Has
  <2>2. 8 \in DOMAIN R /\ DOMAIN R \subseteq Nat
    BY <1>1
  <2>3. \A j \in DOMAIN R : j < 8 => ~ Has("Default_Credentials", R[j].words)
    BY <1>1, <1>3, <2>1
  <2>4. FirstRule(R, "Default_Credentials", "Default_Credentials") = R[8].class
    BY <2>1, <2>2, <2>3, FirstHit
  <2>. QED
    BY <1>1, <2>4
<1>8. FirstRule(R, "Insecure_Direct_Object_Reference", "Insecure_Direct_Object_Reference")
        = "broken_access_control"
  <2>1. /\ Has("Insecure_Direct_Object_Reference", R[6].words)
        /\ \A j \in {1, 2, 3, 4, 5} : ~ Has("Insecure_Direct_Object_Reference", R[j].words)
    BY <1>1, <1>2 DEF Has
  <2>2. 6 \in DOMAIN R /\ DOMAIN R \subseteq Nat
    BY <1>1
  <2>3. \A j \in DOMAIN R : j < 6 => ~ Has("Insecure_Direct_Object_Reference", R[j].words)
    BY <1>1, <1>3, <2>1
  <2>4. FirstRule(R, "Insecure_Direct_Object_Reference", "Insecure_Direct_Object_Reference") = R[6].class
    BY <2>1, <2>2, <2>3, FirstHit
  <2>. QED
    BY <1>1, <2>4
<1>. QED
  BY <1>4, <1>5, <1>6, <1>7, <1>8 DEF CanonicalVulnType, R

(* The categories are labels, and none is the marker.                       *)
LEMMA CategoriesAreLabels ==
  ASSUME NEW title
  PROVE  VulnCategory(title) \in Labels \ {"SAST"} /\ VulnCategory(title) # "DAST"
<1>. DEFINE R == CategoryRules
<1>1. /\ DOMAIN R = 1..15
      /\ R[1].class = "SQL_Injection"
      /\ R[2].class = "Cross-Site_Scripting"
      /\ R[3].class = "Server-Side_Request_Forgery"
      /\ R[4].class = "Open_Redirect"
      /\ R[5].class = "Cross-Site_Request_Forgery"
      /\ R[6].class = "Unrestricted_File_Upload"
      /\ R[7].class = "Command_Injection"
      /\ R[8].class = "Code_Injection"
      /\ R[9].class = "Insecure_Deserialization"
      /\ R[10].class = "Path_Traversal"
      /\ R[11].class = "Secret_Exposure"
      /\ R[12].class = "Security_Misconfiguration"
      /\ R[13].class = "Information_Disclosure"
      /\ R[14].class = "Broken_Access_Control"
      /\ R[15].class = "Sensitive_Data_Exposure"
  BY DEF CategoryRules
<1>. DEFINE Good(c) == c \in OwnLabels \ {"SAST"}
<1>2. \A k \in 1..15 : Good(R[k].class)
  <2>. HIDE DEF R
  <2>. SUFFICES ASSUME NEW k \in 1..15 PROVE Good(R[k].class)
    OBVIOUS
  <2>1. k \in {1, 2, 3, 4, 5, 6, 7, 8, 9, 10, 11, 12, 13, 14, 15}
    OBVIOUS
  <2>2. /\ Good("SQL_Injection")
        /\ Good("Cross-Site_Scripting")
        /\ Good("Server-Side_Request_Forgery")
        /\ Good("Open_Redirect")
        /\ Good("Cross-Site_Request_Forgery")
        /\ Good("Unrestricted_File_Upload")
        /\ Good("Command_Injection")
        /\ Good("Code_Injection")
        /\ Good("Insecure_Deserialization")
        /\ Good("Path_Traversal")
        /\ Good("Secret_Exposure")
        /\ Good("Security_Misconfiguration")
        /\ Good("Information_Disclosure")
        /\ Good("Broken_Access_Control")
        /\ Good("Sensitive_Data_Exposure")
    BY DEF OwnLabels
  <2>. HIDE DEF Good
  <2>. QED
    BY <1>1, <2>1, <2>2
<1>3. Good("Other")
  BY DEF OwnLabels
<1>. HIDE DEF R, Good
<1>4. Good(FirstRule(R, title, "Other"))
  BY <1>1, <1>2, <1>3, SomeClass
<1>5. OwnLabels \subseteq Labels
  BY DEF Labels, Words
<1>6. "DAST" \notin OwnLabels
  <2>1. "DAST" # Blank
    BY Zenon DEF Blank
  <2>. QED
    BY <2>1 DEF OwnLabels
<1>7. FirstRule(R, title, "Other") \in OwnLabels \ {"SAST"}
  BY <1>4 DEF Good
<1>8. VulnCategory(title) = FirstRule(R, title, "Other")
  BY DEF VulnCategory, R
<1>9. VulnCategory(title) # "DAST"
  BY <1>6, <1>7, <1>8
<1>10. VulnCategory(title) \in Labels \ {"SAST"}
  BY <1>5, <1>7, <1>8
<1>. QED
  BY <1>9, <1>10

-----------------------------------------------------------------------------
(* Findings.                                                               *)

FindingFields ==
  {"type", "title", "at", "line", "start", "severity", "verified", "status",
   "poc", "impact", "said", "cvss", "advice", "code"}

Fine(f) ==
  /\ DOMAIN f = FindingFields
  /\ f.type \in Labels /\ f.title \in Labels
  /\ f.line \in Int /\ f.verified \in BOOLEAN
  /\ f.severity \in Severities /\ f.cvss \in 0..100
  /\ f.status \in {"none", "validated", "candidate"}
  /\ f.advice \in {"own", "generic", "template", "model"}

(* The blank finding.                                                       *)
LEMMA FindingIs ==
  /\ DOMAIN Finding = FindingFields /\ Finding.line = -1 /\ Finding.severity = "medium"
  /\ Finding.status = "none" /\ Finding.cvss = 0 /\ Finding.advice = "own"
  /\ Finding.type = Blank /\ Finding.title = Blank
BY DEF Finding, FindingFields

(* What a detector builds is a finding.                                     *)
LEMMA DetectedIs ==
  ASSUME NEW type \in Labels, NEW at, NEW severity \in Severities,
         NEW verified \in BOOLEAN
  PROVE  LET f == Detected(type, at, severity, verified) IN
         /\ Fine(f) /\ f.status = "none" /\ f.type = type /\ f.at = at
         /\ f.verified = verified /\ f.advice = "own"
<1>. DEFINE f == Detected(type, at, severity, verified)
<1>1. /\ DOMAIN f = FindingFields /\ f.line = -1 /\ f.severity = severity
      /\ f.status = "none" /\ f.cvss = 0 /\ f.advice = "own"
      /\ f.type = type /\ f.title = type /\ f.at = at 
  BY FindingIs DEF Detected, FindingFields
<1>2. f.verified = verified
  BY FindingIs DEF Detected, FindingFields
<1>. HIDE DEF f
<1>. QED
  BY <1>1, <1>2 DEF Fine, f

(* A request added as a proof of concept changes nothing else.              *)
LEMMA WithPoCIs ==
  ASSUME NEW f, Fine(f)
  PROVE  LET g == WithPoC(f) IN
         /\ Fine(g) /\ g.status = f.status /\ g.type = f.type /\ g.at = f.at
         /\ g.verified = f.verified /\ g.advice = f.advice
<1>. DEFINE g == WithPoC(f)
<1>1. DOMAIN g = DOMAIN f /\ \A x \in DOMAIN f \ {"poc"} : g[x] = f[x]
  BY DEF WithPoC
<1>. HIDE DEF g
<1>2. \A x \in {"type", "title", "at", "line", "severity", "verified", "status", "cvss",
                "advice"} : g[x] = f[x]
  BY <1>1 DEF Fine, FindingFields
<1>. QED
  BY <1>1, <1>2 DEF Fine, g

(* Neither does a title.                                                    *)
LEMMA TitledIs ==
  ASSUME NEW f, Fine(f), NEW title \in Labels
  PROVE  LET g == Titled(f, title) IN
         /\ Fine(g) /\ g.status = f.status /\ g.type = f.type /\ g.at = f.at
         /\ g.verified = f.verified /\ g.advice = f.advice
<1>. DEFINE g == Titled(f, title)
<1>1. DOMAIN g = DOMAIN f /\ \A x \in DOMAIN f \ {"title"} : g[x] = f[x]
  BY DEF Titled
<1>2. g.title = title
  BY DEF Titled, Fine, FindingFields
<1>. HIDE DEF g
<1>3. \A x \in {"type", "at", "line", "severity", "verified", "status", "cvss",
                "advice"} : g[x] = f[x]
  BY <1>1 DEF Fine, FindingFields
<1>. QED
  BY <1>1, <1>2, <1>3 DEF Fine, g

(* A finding of what a step of the transcript, or a line of its output,     *)
(* says.                                                                    *)
Places(s) == {s.at} \cup {l.at : l \in ToSet(s.lines)}

FromStep(steps, f) ==
  /\ Fine(f) /\ f.status = "none" /\ f.advice = "own"
  /\ \E s \in ToSet(steps) : f.at \in Places(s)

Detects(steps, list) == IsList(list) /\ \A f \in ToSet(list) : FromStep(steps, f)

Transcript(steps) == IsList(steps) /\ \A s \in ToSet(steps) : StepAssumption(s)

(* The detectors' labels are known labels.                                  *)
LEMMA OwnLabelsKnown ==
  ASSUME NEW l \in OwnLabels
  PROVE  l \in Labels
BY DEF Labels, Words

(* Both keep a finding at the step it comes from.                           *)
LEMMA FromPoC ==
  ASSUME NEW steps, NEW f, FromStep(steps, f)
  PROVE  FromStep(steps, WithPoC(f))
BY WithPoCIs DEF FromStep

(* As above, of the title.                                                  *)
LEMMA FromTitled ==
  ASSUME NEW steps, NEW f, FromStep(steps, f), NEW title \in Labels
  PROVE  FromStep(steps, Titled(f, title))
BY TitledIs DEF FromStep

(* A finding at a place of a step comes from the step.                      *)
LEMMA FromDetected ==
  ASSUME NEW steps, NEW s \in ToSet(steps), NEW at \in Places(s),
         NEW type \in Labels, NEW severity \in Severities, NEW verified \in BOOLEAN
  PROVE  FromStep(steps, Detected(type, at, severity, verified))
BY DetectedIs DEF FromStep

(* The filters of the detectors.                                            *)
LEMMA Kept ==
  ASSUME NEW seq, IsList(seq), NEW Q,
         NEW F, F = [i \in 1..Len(seq) |-> F[i]],
         \A i \in 1..Len(seq) : F[i] = IF seq[i] \in Q THEN <<seq[i]>> ELSE <<>>
  PROVE  /\ IsList(FlattenSeq(F))
         /\ ToSet(FlattenSeq(F)) = ToSet(seq) \cap Q
<1>0. PICK P : P = {i \in 1..Len(seq) : seq[i] \in Q}
  OBVIOUS
<1>1. /\ F = [i \in 1..Len(seq) |-> F[i]]
      /\ \A i \in 1..Len(seq) : F[i] = IF i \in P THEN <<seq[i]>> ELSE <<>>
  BY <1>0
<1>2. P \subseteq 1..Len(seq)
  BY <1>0
<1>3. ToSet(seq) = {seq[i] : i \in 1..Len(seq)}
  BY ListIs
<1>4. \A x : (\E i \in P : x = seq[i]) <=> x \in ToSet(seq) \cap Q
  BY <1>0, <1>3
<1>5. IsList(FlattenSeq(F)) /\ \A x : x \in ToSet(FlattenSeq(F)) <=> \E i \in P : x = seq[i]
  BY <1>1, <1>2, Collected
<1>. QED
  BY <1>4, <1>5

(* Lists of findings of steps: none, one, and two lists in a row.           *)
LEMMA NoneDetected ==
  ASSUME NEW steps
  PROVE  Detects(steps, <<>>)
BY Singles DEF Detects

(* A single one.                                                            *)
LEMMA OneDetected ==
  ASSUME NEW steps, NEW f, FromStep(steps, f)
  PROVE  Detects(steps, <<f>>)
BY Single DEF Detects

(* Two lists.                                                               *)
LEMMA BothDetected ==
  ASSUME NEW steps, NEW a, NEW b, Detects(steps, a), Detects(steps, b)
  PROVE  Detects(steps, a \o b)
BY Joined DEF Detects

(* What a loop picks of a list, and the first of it.                        *)
LEMMA Picks ==
  ASSUME NEW seq, IsList(seq), NEW F, F = [i \in 1..Len(seq) |-> F[i]],
         \A i \in 1..Len(seq) : F[i] \in {<<>>, <<seq[i]>>}
  PROVE  LET hits == FlattenSeq(F) IN
         /\ IsList(hits) /\ ToSet(hits) \subseteq ToSet(seq)
         /\ hits # <<>> => /\ Head(hits) \in ToSet(seq) /\ Len(hits) > 0
                           /\ hits[Len(hits)] \in ToSet(seq)
         /\ \A i \in 1..Len(seq) : F[i] = <<seq[i]>> => seq[i] \in ToSet(hits) /\ hits # <<>>
<1>. DEFINE n == Len(seq)
            hits == FlattenSeq(F)
<1>1. n \in Nat /\ ToSet(seq) = {seq[i] : i \in 1..n}
  BY ListIs
<1>2. \A i \in 1..n : IsList(F[i]) /\ ToSet(F[i]) \subseteq {seq[i]}
  BY Single, Singles
<1>3. F = [i \in 1..n |-> F[i]]
  OBVIOUS
<1>4. IsList(hits) /\ ToSet(hits) = UNION {ToSet(F[i]) : i \in 1..n}
  BY <1>1, <1>2, <1>3, Flattened
<1>5. ToSet(hits) \subseteq ToSet(seq)
  <2>1. \A i \in 1..n : ToSet(F[i]) \subseteq ToSet(seq)
    BY <1>1, <1>2
  <2>. HIDE DEF hits, n
  <2>. QED
    BY <1>4, <2>1, Zenon
<1>6. ASSUME NEW i \in 1..n, F[i] = <<seq[i]>> PROVE seq[i] \in ToSet(hits)
  <2>1. ToSet(F[i]) = {seq[i]}
    BY <1>6, Single
  <2>. HIDE DEF hits, n
  <2>. QED
    BY <1>4, <2>1
<1>. HIDE DEF hits
<1>7. hits # <<>> => /\ Head(hits) \in ToSet(hits) /\ Len(hits) > 0
                     /\ hits[Len(hits)] \in ToSet(hits)
  BY <1>4, FirstOf
<1>. QED
  BY <1>4, <1>5, <1>6, <1>7, Singles DEF hits

(* The same for the steps of a transcript.                                  *)
LEMMA FirstFit ==
  ASSUME NEW steps, Transcript(steps), NEW F, F = [i \in 1..Len(steps) |-> F[i]],
         \A i \in 1..Len(steps) : F[i] \in {<<>>, <<steps[i]>>},
         FlattenSeq(F) # <<>>,
         NEW type \in OwnLabels, NEW severity \in Severities, NEW verified \in BOOLEAN
  PROVE  FromStep(steps, Detected(type, Head(FlattenSeq(F)).at, severity, verified))
<1>. DEFINE s == Head(FlattenSeq(F))
<1>1. s \in ToSet(steps)
  BY Picks DEF Transcript
<1>. HIDE DEF s
<1>2. s.at \in Places(s) /\ type \in Labels
  BY OwnLabelsKnown DEF Places
<1>3. FromStep(steps, Detected(type, s.at, severity, verified))
  BY <1>1, <1>2, FromDetected
<1>. QED
  BY <1>3 DEF s

(* The detectors, one by one: each reports findings at places of its steps. *)
LEMMA SSRFDetected ==
  ASSUME NEW steps, Transcript(steps)
  PROVE  Detects(steps, DetectSSRF(steps))
<1>. DEFINE Fits(s) == Succeeded(s) /\ "internal_fetch" \in s.sent
            F == [i \in 1..Len(steps) |-> IF Fits(steps[i]) THEN <<steps[i]>> ELSE <<>>]
            hits == FlattenSeq(F)
            found == Detected("Server-Side_Request_Forgery", Head(hits).at, "high", FALSE)
<1>1. DetectSSRF(steps) = IF hits = <<>> THEN <<>> ELSE <<WithPoC(found)>>
  BY DEF DetectSSRF, OnFirst, Where
<1>2. ASSUME hits # <<>> PROVE FromStep(steps, found)
  <2>1. /\ F = [i \in 1..Len(steps) |-> F[i]]
        /\ \A i \in 1..Len(steps) : F[i] \in {<<>>, <<steps[i]>>}
    OBVIOUS
  <2>. HIDE DEF F
  <2>2. "Server-Side_Request_Forgery" \in OwnLabels
    BY DEF OwnLabels
  <2>. QED
    BY <1>2, <2>1, <2>2, FirstFit DEF Severities
<1>. HIDE DEF hits, found
<1>. QED
  BY <1>1, <1>2, NoneDetected, OneDetected, FromPoC

(* detectCSRF.                                                              *)
LEMMA CSRFDetected ==
  ASSUME NEW steps, Transcript(steps)
  PROVE  Detects(steps, DetectCSRF(steps))
<1>. DEFINE Fits(s) == /\ Accepted(s)
                       /\ ToSet(s.at) \cap CSRFExcluded = {}
                       /\ "csrf_token" \notin s.sent
            F == [i \in 1..Len(steps) |-> IF Fits(steps[i]) THEN <<steps[i]>> ELSE <<>>]
            hits == FlattenSeq(F)
            found == Detected("Cross-Site_Request_Forgery", Head(hits).at, "medium", FALSE)
<1>1. DetectCSRF(steps) = IF hits = <<>> THEN <<>> ELSE <<WithPoC(found)>>
  BY DEF DetectCSRF, OnFirst, Where
<1>2. ASSUME hits # <<>> PROVE FromStep(steps, found)
  <2>1. /\ F = [i \in 1..Len(steps) |-> F[i]]
        /\ \A i \in 1..Len(steps) : F[i] \in {<<>>, <<steps[i]>>}
    OBVIOUS
  <2>. HIDE DEF F
  <2>2. "Cross-Site_Request_Forgery" \in OwnLabels
    BY DEF OwnLabels
  <2>. QED
    BY <1>2, <2>1, <2>2, FirstFit DEF Severities
<1>. HIDE DEF hits, found
<1>. QED
  BY <1>1, <1>2, NoneDetected, OneDetected, FromPoC

(* detectUnrestrictedUpload.                                                *)
LEMMA UploadDetected ==
  ASSUME NEW steps, Transcript(steps)
  PROVE  Detects(steps, DetectUnrestrictedUpload(steps))
<1>. DEFINE Fits(s) == Accepted(s) /\ "script_upload" \in s.sent
            F == [i \in 1..Len(steps) |-> IF Fits(steps[i]) THEN <<steps[i]>> ELSE <<>>]
            hits == FlattenSeq(F)
            found == Detected("Unrestricted_File_Upload", Head(hits).at, "high", FALSE)
<1>1. DetectUnrestrictedUpload(steps) = IF hits = <<>> THEN <<>> ELSE <<WithPoC(found)>>
  BY DEF DetectUnrestrictedUpload, OnFirst, Where
<1>2. ASSUME hits # <<>> PROVE FromStep(steps, found)
  <2>1. /\ F = [i \in 1..Len(steps) |-> F[i]]
        /\ \A i \in 1..Len(steps) : F[i] \in {<<>>, <<steps[i]>>}
    OBVIOUS
  <2>. HIDE DEF F
  <2>2. "Unrestricted_File_Upload" \in OwnLabels
    BY DEF OwnLabels
  <2>. QED
    BY <1>2, <2>1, <2>2, FirstFit DEF Severities
<1>. HIDE DEF hits, found
<1>. QED
  BY <1>1, <1>2, NoneDetected, OneDetected, FromPoC

(* detectDefaultCredentials.                                                *)
LEMMA LoginDetected ==
  ASSUME NEW steps, Transcript(steps)
  PROVE  Detects(steps, DetectDefaultCredentials(steps))
<1>. DEFINE Fits(s) == s.tool = "default_cred_login" /\ s.ran /\ s.accepted
            F == [i \in 1..Len(steps) |-> IF Fits(steps[i]) THEN <<steps[i]>> ELSE <<>>]
            hits == FlattenSeq(F)
            found == Detected("Default_Credentials", Head(hits).at, "critical", TRUE)
<1>1. DetectDefaultCredentials(steps) = IF hits = <<>> THEN <<>> ELSE <<found>>
  BY DEF DetectDefaultCredentials, OnFirst, Where
<1>2. ASSUME hits # <<>> PROVE FromStep(steps, found)
  <2>1. /\ F = [i \in 1..Len(steps) |-> F[i]]
        /\ \A i \in 1..Len(steps) : F[i] \in {<<>>, <<steps[i]>>}
    OBVIOUS
  <2>. HIDE DEF F
  <2>2. "Default_Credentials" \in OwnLabels
    BY DEF OwnLabels
  <2>. QED
    BY <1>2, <2>1, <2>2, FirstFit DEF Severities
<1>. HIDE DEF hits, found
<1>. QED
  BY <1>1, <1>2, NoneDetected, OneDetected

(* detectMissingSecurityHeaders.                                            *)
LEMMA HeadersDetected ==
  ASSUME NEW steps, Transcript(steps)
  PROVE  Detects(steps, DetectMissingSecurityHeaders(steps))
<1>. DEFINE Fits(s) == Succeeded(s) /\ {"Content-Type", "Server"} \cap s.headers # {}
            F == [i \in 1..Len(steps) |-> IF Fits(steps[i]) THEN <<steps[i]>> ELSE <<>>]
            hits == FlattenSeq(F)
            found == Detected("Security_Misconfiguration", Head(hits).at, "low", FALSE)
<1>1. \/ DetectMissingSecurityHeaders(steps) = <<>>
      \/ /\ hits # <<>>
         /\ DetectMissingSecurityHeaders(steps) = <<Titled(found, "Missing_Security_Headers")>>
  <2>. HIDE DEF Fits, found
  <2>. QED
    BY DEF DetectMissingSecurityHeaders, OnFirst, Where, Fits, found
<1>2. ASSUME hits # <<>> PROVE FromStep(steps, found)
  <2>1. /\ F = [i \in 1..Len(steps) |-> F[i]]
        /\ \A i \in 1..Len(steps) : F[i] \in {<<>>, <<steps[i]>>}
    OBVIOUS
  <2>. HIDE DEF F
  <2>2. "Security_Misconfiguration" \in OwnLabels
    BY DEF OwnLabels
  <2>. QED
    BY <1>2, <2>1, <2>2, FirstFit DEF Severities
<1>3. "Missing_Security_Headers" \in Labels
  BY OwnLabelsKnown DEF OwnLabels
<1>. HIDE DEF hits, found
<1>. QED
  BY <1>1, <1>2, <1>3, NoneDetected, OneDetected, FromTitled

(* detectServerBanner.                                                      *)
LEMMA BannerDetected ==
  ASSUME NEW steps, Transcript(steps)
  PROVE  Detects(steps, DetectServerBanner(steps))
<1>. DEFINE Fits(s) == /\ s.tool = "httpx_probe" /\ s.ran
                       /\ s.lines # <<>> /\ Head(s.lines).banner # "unparsable"
            F == [i \in 1..Len(steps) |-> IF Fits(steps[i]) THEN <<steps[i]>> ELSE <<>>]
            hits == FlattenSeq(F)
            line == Head(Head(hits).lines)
            found == Detected("Information_Disclosure", line.at, "informational", TRUE)
<1>1. \/ DetectServerBanner(steps) = <<>>
      \/ hits # <<>> /\ DetectServerBanner(steps) = <<found>>
  <2>. HIDE DEF Fits, found
  <2>. QED
    BY DEF DetectServerBanner, OnFirst, Where, Fits, found
<1>2. ASSUME hits # <<>> PROVE FromStep(steps, found)
  <2>. DEFINE Q == {s \in ToSet(steps) : Fits(s)}
  <2>1. IsList(steps) /\ \A i \in 1..Len(steps) : steps[i] \in ToSet(steps)
    BY ListIs DEF Transcript
  <2>2. /\ F = [i \in 1..Len(steps) |-> F[i]]
        /\ \A i \in 1..Len(steps) : F[i] = IF steps[i] \in Q THEN <<steps[i]>> ELSE <<>>
    <3>. HIDE DEF Fits
    <3>. QED
      BY <2>1
  <2>. HIDE DEF F, Q
  <2>3. ToSet(hits) = ToSet(steps) \cap Q /\ IsList(hits)
    BY <2>1, <2>2, Kept
  <2>. HIDE DEF hits
  <2>4. Head(hits) \in ToSet(steps) /\ Head(hits).lines # <<>>
    BY <1>2, <2>3, FirstOf DEF Q
  <2>5. IsList(Head(hits).lines)
    BY <2>4 DEF Transcript, StepAssumption
  <2>6. line.at \in Places(Head(hits))
    BY <2>4, <2>5, FirstOf DEF Places
  <2>7. "Information_Disclosure" \in Labels
    BY OwnLabelsKnown DEF OwnLabels
  <2>. HIDE DEF line
  <2>. QED
    BY <2>4, <2>6, <2>7, FromDetected DEF Severities
<1>. HIDE DEF hits, found
<1>. QED
  BY <1>1, <1>2, NoneDetected, OneDetected

(* A list with one finding per element of another.                          *)
LEMMA EachDetected ==
  ASSUME NEW steps, NEW n \in Nat, NEW F, F = [i \in 1..n |-> F[i]],
         \A i \in 1..n : FromStep(steps, F[i])
  PROVE  Detects(steps, F)
<1>1. IsList(F) /\ Len(F) = n
  BY Indexed
<1>2. ToSet(F) = {F[i] : i \in 1..n}
  BY <1>1, ListIs
<1>. QED
  BY <1>1, <1>2 DEF Detects

(* detectRCE, which also reports every output of a command as verified.     *)
LEMMA RCEDetected ==
  ASSUME NEW steps, Transcript(steps)
  PROVE  /\ Detects(steps, DetectRCE(steps))
         /\ \A s \in ToSet(steps) :
              s.ran /\ "command_output" \in s.shown =>
                \E f \in ToSet(DetectRCE(steps)) :
                  /\ f.verified
                  /\ f.type \in {"Unrestricted_File_Upload", "Remote_Code_Execution"}
<1>. DEFINE Fits(s) == s.ran /\ "command_output" \in s.shown
            F == [i \in 1..Len(steps) |-> IF Fits(steps[i]) THEN <<steps[i]>> ELSE <<>>]
            hits == FlattenSeq(F)
            G == [i \in 1..Len(hits) |->
                    IF \E j \in 1..(i - 1) : hits[j].at = hits[i].at THEN <<>> ELSE <<hits[i]>>]
            distinct == FlattenSeq(G)
            type(s) == IF "upload" \in ToSet(s.at) THEN "Unrestricted_File_Upload"
                       ELSE "Remote_Code_Execution"
            found(s) == WithPoC(Detected(type(s), s.at, "critical", TRUE))
            list == [i \in 1..Len(distinct) |->
                       Titled(found(distinct[i]), "Remote_Code_Execution")]
<1>1. DetectRCE(steps) = list
  BY DEF DetectRCE, FirstPer, Where
<1>2. IsList(steps) /\ ToSet(steps) = {steps[i] : i \in 1..Len(steps)}
  BY ListIs DEF Transcript
<1>3. /\ F = [i \in 1..Len(steps) |-> F[i]]
      /\ \A i \in 1..Len(steps) : F[i] = IF Fits(steps[i]) THEN <<steps[i]>> ELSE <<>>
  <2>. HIDE DEF Fits
  <2>. QED
    OBVIOUS
<1>4. /\ IsList(hits) /\ ToSet(hits) \subseteq ToSet(steps)
      /\ \A s \in ToSet(steps) : Fits(s) => hits # <<>>
  <2>. HIDE DEF F, Fits
  <2>. QED
    BY <1>2, <1>3, Picks
<1>5. /\ G = [i \in 1..Len(hits) |-> G[i]]
      /\ \A i \in 1..Len(hits) : G[i] \in {<<>>, <<hits[i]>>}
      /\ 1 \in 1..Len(hits) => G[1] = <<hits[1]>>
  <2>. HIDE DEF hits
  <2>. QED
    OBVIOUS
<1>6. hits # <<>> => 1 \in 1..Len(hits)
  <2>. HIDE DEF hits
  <2>. QED
    BY <1>4, FirstOf, ListIs
<1>7. /\ IsList(distinct) /\ ToSet(distinct) \subseteq ToSet(hits)
      /\ hits # <<>> => distinct # <<>>
  <2>. HIDE DEF G, hits
  <2>. QED
    BY <1>4, <1>5, <1>6, Picks
<1>. HIDE DEF hits, distinct
<1>8. /\ Len(distinct) \in Nat /\ \A i \in 1..Len(distinct) : distinct[i] \in ToSet(steps)
      /\ distinct # <<>> => 1 \in 1..Len(distinct)
  BY <1>4, <1>7, ListIs, FirstOf
<1>9. ASSUME NEW s \in ToSet(steps)
      PROVE  LET f == Titled(found(s), "Remote_Code_Execution") IN
             FromStep(steps, f) /\ f.verified /\ f.type = type(s)
  <2>1. /\ "Unrestricted_File_Upload" \in Labels
        /\ "Remote_Code_Execution" \in Labels
    BY OwnLabelsKnown DEF OwnLabels
  <2>2. type(s) \in Labels /\ "critical" \in Severities /\ s.at \in Places(s)
    BY <2>1 DEF Severities, Places
  <2>. HIDE DEF type
  <2>. DEFINE d == Detected(type(s), s.at, "critical", TRUE)
  <2>3. FromStep(steps, d) /\ Fine(d) /\ d.verified /\ d.type = type(s)
    <3>1. FromStep(steps, d)
      BY <2>2, FromDetected
    <3>2. Fine(d)
      BY <3>1 DEF FromStep
    <3>3. d.verified /\ d.type = type(s)
      BY FindingIs DEF Detected, FindingFields, d
    <3>. QED
      BY <3>1, <3>2, <3>3
  <2>. HIDE DEF d
  <2>4. FromStep(steps, WithPoC(d)) /\ Fine(WithPoC(d))
        /\ WithPoC(d).verified = d.verified /\ WithPoC(d).type = d.type
    BY <2>3, FromPoC, WithPoCIs
  <2>5. FromStep(steps, Titled(WithPoC(d), "Remote_Code_Execution"))
        /\ Titled(WithPoC(d), "Remote_Code_Execution").verified = WithPoC(d).verified
        /\ Titled(WithPoC(d), "Remote_Code_Execution").type = WithPoC(d).type
    BY <2>1, <2>4, FromTitled, TitledIs
  <2>. QED
    BY <2>3, <2>4, <2>5 DEF d
<1>. HIDE DEF found, type
<1>10. /\ list = [i \in 1..Len(distinct) |-> list[i]]
       /\ \A i \in 1..Len(distinct) : FromStep(steps, list[i])
  BY <1>8, <1>9
<1>11. Detects(steps, list) /\ Len(list) = Len(distinct)
  <2>. HIDE DEF list
  <2>. QED
    BY <1>8, <1>10, EachDetected, Indexed
<1>12. ASSUME NEW s \in ToSet(steps), Fits(s)
       PROVE  \E f \in ToSet(list) :
                /\ f.verified
                /\ f.type \in {"Unrestricted_File_Upload", "Remote_Code_Execution"}
  <2>1. 1 \in 1..Len(distinct) /\ distinct[1] \in ToSet(steps)
    BY <1>4, <1>7, <1>8, <1>12
  <2>2. list[1] = Titled(found(distinct[1]), "Remote_Code_Execution")
    BY <2>1
  <2>3. list[1].verified /\ list[1].type = type(distinct[1])
    BY <1>9, <2>1, <2>2
  <2>. HIDE DEF list
  <2>4. list[1] \in ToSet(list)
    BY <1>11, <2>1, ListIs DEF Detects
  <2>5. type(distinct[1]) \in {"Unrestricted_File_Upload", "Remote_Code_Execution"}
    BY DEF type
  <2>. QED
    BY <2>3, <2>4, <2>5
<1>. QED
  BY <1>1, <1>11, <1>12

(* detectOutdatedComponent.                                                 *)
LEMMA ComponentDetected ==
  ASSUME NEW steps, Transcript(steps)
  PROVE  Detects(steps, DetectOutdatedComponent(steps))
<1>. DEFINE Probes(s) == s.tool = "httpx_probe" /\ s.ran
            F == [i \in 1..Len(steps) |-> IF Probes(steps[i]) THEN <<steps[i]>> ELSE <<>>]
            probes == FlattenSeq(F)
            L == [i \in 1..Len(probes) |-> probes[i].lines]
            lines == FlattenSeq(L)
            G == [i \in 1..Len(lines) |-> IF lines[i].jquery # 0 THEN <<lines[i]>> ELSE <<>>]
            tech == FlattenSeq(G)
            Shows(s) == s.ran /\ {"jquery_1", "jquery_3"} \cap s.shown # {}
            H == [i \in 1..Len(steps) |-> IF Shows(steps[i]) THEN <<steps[i]>> ELSE <<>>]
            bodies == FlattenSeq(H)
            found(at) == Titled(Detected("Vulnerable_Component", at, "low", TRUE),
                                "Outdated_JavaScript_Library")
<1>1. \/ DetectOutdatedComponent(steps) = <<>>
      \/ tech # <<>> /\ DetectOutdatedComponent(steps) = <<found(Head(tech).at)>>
      \/ bodies # <<>> /\ DetectOutdatedComponent(steps) = <<found(Head(bodies).at)>>
  <2>. DEFINE major == IF "jquery_1" \in Head(bodies).shown THEN 1 ELSE 3
              first == IF tech # <<>> THEN [major |-> Head(tech).jquery, at |-> Head(tech).at]
                       ELSE IF bodies # <<>> THEN [major |-> major, at |-> Head(bodies).at]
                       ELSE [major |-> 3, at |-> Root]
  <2>1. DetectOutdatedComponent(steps) = IF first.major >= 3 THEN <<>> ELSE <<found(first.at)>>
    BY DEF DetectOutdatedComponent, Where
  <2>. HIDE DEF tech, bodies, found, major
  <2>2. /\ tech # <<>> => first.at = Head(tech).at
        /\ tech = <<>> /\ bodies # <<>> => first.at = Head(bodies).at
        /\ tech = <<>> /\ bodies = <<>> => first.major = 3
    OBVIOUS
  <2>. HIDE DEF first
  <2>. QED
    BY <2>1, <2>2
<1>2. IsList(steps) /\ \A s \in ToSet(steps) : IsList(s.lines)
  BY DEF Transcript, StepAssumption
<1>3. IsList(probes) /\ ToSet(probes) \subseteq ToSet(steps)
  <2>1. F = [i \in 1..Len(steps) |-> F[i]]
        /\ \A i \in 1..Len(steps) : F[i] \in {<<>>, <<steps[i]>>}
    <3>. HIDE DEF Probes
    <3>. QED
      OBVIOUS
  <2>. HIDE DEF F
  <2>. QED
    BY <1>2, <2>1, Picks
<1>4. bodies # <<>> => Head(bodies) \in ToSet(steps)
  <2>1. H = [i \in 1..Len(steps) |-> H[i]]
        /\ \A i \in 1..Len(steps) : H[i] \in {<<>>, <<steps[i]>>}
    <3>. HIDE DEF Shows
    <3>. QED
      OBVIOUS
  <2>. HIDE DEF H
  <2>. QED
    BY <1>2, <2>1, Picks
<1>. HIDE DEF probes, bodies
<1>5. IsList(lines) /\ \A l \in ToSet(lines) : \E s \in ToSet(steps) : l \in ToSet(s.lines)
  <2>1. /\ Len(probes) \in Nat /\ L = [i \in 1..Len(probes) |-> L[i]]
        /\ \A i \in 1..Len(probes) : probes[i] \in ToSet(steps) /\ L[i] = probes[i].lines
    BY <1>3, ListIs
  <2>2. \A i \in 1..Len(probes) : IsList(L[i])
    BY <1>2, <2>1
  <2>. HIDE DEF L
  <2>3. IsList(lines) /\ ToSet(lines) = UNION {ToSet(L[i]) : i \in 1..Len(probes)}
    BY <2>1, <2>2, Flattened
  <2>. HIDE DEF lines
  <2>. QED
    BY <2>1, <2>3
<1>. HIDE DEF lines
<1>6. tech # <<>> => Head(tech) \in ToSet(lines)
  <2>1. G = [i \in 1..Len(lines) |-> G[i]]
        /\ \A i \in 1..Len(lines) : G[i] \in {<<>>, <<lines[i]>>}
    OBVIOUS
  <2>. HIDE DEF G
  <2>. QED
    BY <1>5, <2>1, Picks
<1>. HIDE DEF tech
<1>7. ASSUME NEW s \in ToSet(steps), NEW at \in Places(s) PROVE FromStep(steps, found(at))
  <2>1. /\ "Vulnerable_Component" \in Labels
        /\ "Outdated_JavaScript_Library" \in Labels
    BY OwnLabelsKnown DEF OwnLabels
  <2>. QED
    BY <2>1, FromDetected, FromTitled DEF Severities
<1>. HIDE DEF found
<1>8. tech # <<>> => FromStep(steps, found(Head(tech).at))
  <2>. SUFFICES ASSUME tech # <<>> PROVE FromStep(steps, found(Head(tech).at))
    OBVIOUS
  <2>1. PICK s \in ToSet(steps) : Head(tech) \in ToSet(s.lines)
    BY <1>5, <1>6
  <2>2. Head(tech).at \in Places(s)
    BY <2>1 DEF Places
  <2>. QED
    BY <1>7, <2>2
<1>9. bodies # <<>> => FromStep(steps, found(Head(bodies).at))
  BY <1>4, <1>7 DEF Places
<1>. QED
  BY <1>1, <1>8, <1>9, NoneDetected, OneDetected

(* detectExposedFiles.                                                      *)
LEMMA FilesDetected ==
  ASSUME NEW steps, Transcript(steps)
  PROVE  Detects(steps, DetectExposedFiles(steps))
<1>. DEFINE Fits(s) == Succeeded(s) /\ s.shown # {} /\ ExposedKind(s) # "none"
            F == [i \in 1..Len(steps) |-> IF Fits(steps[i]) THEN <<steps[i]>> ELSE <<>>]
            exposed == FlattenSeq(F)
            G == [i \in 1..Len(exposed) |->
                    IF \E j \in 1..(i - 1) : ExposedKind(exposed[j]) = ExposedKind(exposed[i])
                    THEN <<>> ELSE <<exposed[i]>>]
            hits == FlattenSeq(G)
            Secret(s) == "env_secret" \in s.shown /\ ExposedKind(s) # "git"
            found(s) == WithPoC(Detected("Sensitive_Data_Exposure", s.at,
                                         IF Secret(s) /\ ExposedKind(s) = "env"
                                         THEN "critical" ELSE "high",
                                         Secret(s)))
            list == [i \in 1..Len(hits) |-> found(hits[i])]
<1>1. DetectExposedFiles(steps) = list
  BY DEF DetectExposedFiles, FirstPer, Where
<1>2. IsList(steps)
  BY DEF Transcript
<1>3. IsList(exposed) /\ ToSet(exposed) \subseteq ToSet(steps)
  <2>1. F = [i \in 1..Len(steps) |-> F[i]]
        /\ \A i \in 1..Len(steps) : F[i] \in {<<>>, <<steps[i]>>}
    <3>. HIDE DEF Fits
    <3>. QED
      OBVIOUS
  <2>. HIDE DEF F
  <2>. QED
    BY <1>2, <2>1, Picks
<1>. HIDE DEF exposed
<1>4. IsList(hits) /\ ToSet(hits) \subseteq ToSet(exposed)
  <2>1. G = [i \in 1..Len(exposed) |-> G[i]]
        /\ \A i \in 1..Len(exposed) : G[i] \in {<<>>, <<exposed[i]>>}
    OBVIOUS
  <2>. HIDE DEF G
  <2>. QED
    BY <1>3, <2>1, Picks
<1>. HIDE DEF hits
<1>5. Len(hits) \in Nat /\ \A i \in 1..Len(hits) : hits[i] \in ToSet(steps)
  BY <1>3, <1>4, ListIs
<1>6. ASSUME NEW s \in ToSet(steps) PROVE FromStep(steps, found(s))
  <2>. DEFINE severity == IF Secret(s) /\ ExposedKind(s) = "env" THEN "critical" ELSE "high"
  <2>1. "Sensitive_Data_Exposure" \in Labels
    BY OwnLabelsKnown DEF OwnLabels
  <2>2. severity \in Severities /\ Secret(s) \in BOOLEAN /\ s.at \in Places(s)
    BY DEF Severities, Places
  <2>. HIDE DEF severity, Secret
  <2>. QED
    BY <2>1, <2>2, FromDetected, FromPoC DEF severity
<1>. HIDE DEF found
<1>7. list = [i \in 1..Len(hits) |-> list[i]] /\ \A i \in 1..Len(hits) : FromStep(steps, list[i])
  BY <1>5, <1>6
<1>. HIDE DEF list
<1>. QED
  BY <1>1, <1>5, <1>7, EachDetected

(* The last element a loop picks is the one of the greatest index.          *)
LEMMA LastPicked ==
  ASSUME NEW seq, IsList(seq), NEW F, F = [i \in 1..Len(seq) |-> F[i]],
         NEW k \in 1..Len(seq), F[k] = <<seq[k]>>,
         \A i \in 1..Len(seq) : F[i] \in {<<>>, <<seq[i]>>},
         \A i \in 1..Len(seq) : i > k => F[i] = <<>>
  PROVE  Last(FlattenSeq(F)) = seq[k]
<1>. DEFINE n == Len(seq)
<1>1. n \in Nat /\ n # 0 /\ Len(F) = n
  BY ListIs, Indexed
<1>2. PICK g : /\ \A i \in 1..n : g[i] = IF i = 1 THEN F[i] ELSE g[i - 1] \o F[i]
               /\ FlattenSeq(F) = g[n]
  BY <1>1, Flattens
<1>3. \A i \in 1..n : IsList(F[i])
  BY Single, Singles
<1>. DEFINE Listed(i) == IsList(g[i])
            Ends(i) == i >= k => Len(g[i]) > 0 /\ g[i][Len(g[i])] = seq[k]
            Fits(i) == Listed(i) /\ Ends(i)
            Bad == {i \in 1..n : ~ Fits(i)}
<1>4. ASSUME NEW i \in 1..n, i # 1 => Fits(i - 1) PROVE Fits(i)
  <2>1. CASE i = 1
    <3>1. g[i] = F[i]
      BY <1>2, <2>1
    <3>2. Listed(i)
      BY <1>3, <3>1
    <3>3. Ends(i)
      <4>. SUFFICES ASSUME i >= k PROVE Len(g[i]) > 0 /\ g[i][Len(g[i])] = seq[k]
        OBVIOUS
      <4>1. i = k
        BY <2>1
      <4>2. g[i] = <<seq[k]>>
        BY <3>1, <4>1
      <4>3. Len(g[i]) = 1 /\ g[i][1] = seq[k]
        BY <4>2
      <4>. QED
        BY <4>3
    <3>. QED
      BY <3>2, <3>3
  <2>2. CASE i # 1
    <3>1. g[i] = g[i - 1] \o F[i] /\ IsList(g[i - 1]) /\ IsList(F[i]) /\ i - 1 \in 1..n
      <4>1. i - 1 \in 1..n
        BY <2>2
      <4>2. g[i] = g[i - 1] \o F[i]
        BY <1>2, <2>2
      <4>3. IsList(g[i - 1])
        BY <1>4, <2>2
      <4>4. IsList(F[i])
        BY <1>3
      <4>. QED
        BY <4>1, <4>2, <4>3, <4>4
    <3>2. Listed(i)
      BY <3>1, Joined
    <3>3. CASE i < k
      BY <3>2, <3>3
    <3>4. CASE i = k
      <4>1. g[i] = g[i - 1] \o <<seq[k]>>
        BY <3>1, <3>4
      <4>. DEFINE S == ToSet(g[i - 1])
      <4>2. g[i - 1] \in Seq(S)
        BY <3>1 DEF IsList
      <4>. HIDE DEF S
      <4>3. g[i - 1] \in Seq(S \cup {seq[k]}) /\ <<seq[k]>> \in Seq(S \cup {seq[k]})
        BY <4>2
      <4>4. Len(g[i]) = Len(g[i - 1]) + 1 /\ g[i][Len(g[i - 1]) + 1] = seq[k]
            /\ Len(g[i - 1]) \in Nat
        BY <4>1, <4>3
      <4>. QED
        BY <3>2, <4>4
    <3>5. CASE i > k
      <4>1. F[i] = <<>> /\ i - 1 >= k
        BY <3>5
      <4>. DEFINE S == ToSet(g[i - 1])
      <4>2. g[i - 1] \in Seq(S)
        BY <3>1 DEF IsList
      <4>. HIDE DEF S
      <4>3. g[i] = g[i - 1]
        BY <3>1, <4>1, <4>2
      <4>. QED
        BY <1>4, <2>2, <4>1, <4>3
    <3>. QED
      BY <3>3, <3>4, <3>5
  <2>. QED
    BY <2>1, <2>2
<1>. HIDE DEF Fits
<1>5. Bad = {}
  <2>. SUFFICES ASSUME Bad # {} PROVE FALSE
    OBVIOUS
  <2>1. Bad \in SUBSET Nat
    OBVIOUS
  <2>2. PICK m \in Bad : \A j \in Nat : j < m => j \notin Bad
    <3>. HIDE DEF Bad
    <3>. QED
      BY <2>1, LeastOf
  <2>3. m \in 1..n /\ ~ Fits(m)
    OBVIOUS
  <2>4. m # 1 => m - 1 \in Nat /\ m - 1 < m /\ m - 1 \in 1..n
    BY <2>3
  <2>5. m # 1 => Fits(m - 1)
    BY <2>2, <2>4
  <2>. QED
    BY <1>4, <2>3, <2>5
<1>6. Fits(n)
  BY <1>1, <1>5
<1>. QED
  BY <1>1, <1>2, <1>6 DEF Last, Fits

(* The property and the detector mean the same answers.                     *)
LEMMA ReadsAgree ==
  ASSUME NEW s, StepAssumption(s)
  PROVE  ReadsOwner(s) <=> NamesOwner(s)
<1>1. s.numbers \in {"int", "float"}
  BY DEF StepAssumption
<1>2. GetStatusCode(s) = IF s.ran THEN s.status ELSE 0
  BY <1>1 DEF GetStatusCode, NumField
<1>. QED
  BY <1>2 DEF ReadsOwner, NamesOwner, Succeeded, Answered

(* What the code keeps for an object is its last answer.                    *)
LEMMA LatestRead ==
  ASSUME NEW steps, Transcript(steps), NEW k \in LastReads(steps),
         NEW F, F = [i \in 1..Len(steps) |-> F[i]],
         \A i \in 1..Len(steps) :
           F[i] = IF NamesOwner(steps[i]) /\ SameObject(steps[k], steps[i])
                  THEN <<steps[i]>> ELSE <<>>
  PROVE  Last(FlattenSeq(F)).owners = steps[k].owners
<1>1. IsList(steps) /\ Len(steps) \in Nat /\ \A i \in 1..Len(steps) : StepAssumption(steps[i])
  BY ListIs DEF Transcript
<1>2. /\ k \in 1..Len(steps) /\ ReadsOwner(steps[k])
      /\ \A j \in (k + 1)..Len(steps) :
           ReadsOwner(steps[j]) => ~ SameObject(steps[k], steps[j])
  BY DEF LastReads
<1>3. NamesOwner(steps[k]) /\ SameObject(steps[k], steps[k])
  BY <1>1, <1>2, ReadsAgree DEF SameObject
<1>4. F[k] = <<steps[k]>>
  BY <1>2, <1>3
<1>5. ASSUME NEW i \in 1..Len(steps), i > k PROVE F[i] = <<>>
  <2>1. i \in (k + 1)..Len(steps)
    BY <1>1, <1>2, <1>5
  <2>2. ~ (NamesOwner(steps[i]) /\ SameObject(steps[k], steps[i]))
    BY <1>1, <1>2, <2>1, ReadsAgree
  <2>. QED
    BY <2>2
<1>6. \A i \in 1..Len(steps) : F[i] \in {<<>>, <<steps[i]>>}
  OBVIOUS
<1>7. Last(FlattenSeq(F)) = steps[k]
  BY <1>1, <1>2, <1>4, <1>5, <1>6, LastPicked
<1>. QED
  BY <1>7

(* detectIDORDiff, which verifies two owners of one endpoint's objects.     *)
LEMMA OwnersDetected ==
  ASSUME NEW steps, Transcript(steps), NEW list \in DetectIDORDiff(steps)
  PROVE  /\ Detects(steps, list)
         /\ (\E i, j \in LastReads(steps) : OtherOwner(steps[i], steps[j])) =>
              \E f \in ToSet(list) :
                f.verified /\ f.type = "Insecure_Direct_Object_Reference"
<1>. DEFINE reads == {s \in ToSet(steps) : NamesOwner(s)}
            FO(b) == [i \in 1..Len(steps) |->
                        IF NamesOwner(steps[i]) /\ IdorKey(steps[i]).base = b
                        THEN <<steps[i]>> ELSE <<>>]
            FL(b, v) == [i \in 1..Len(steps) |->
                           IF /\ NamesOwner(steps[i])
                              /\ IdorKey(steps[i]).base = b
                              /\ IdorKey(steps[i]).val = v
                           THEN <<steps[i]>> ELSE <<>>]
            Of(b) == FlattenSeq(FO(b))
            Latest(b, v) == Last(FlattenSeq(FL(b, v))).owners
            Vals(b) == {IdorKey(s).val : s \in {r \in reads : IdorKey(r).base = b}}
            proved == {b \in {IdorKey(s).base : s \in reads} :
                         \E v, w \in Vals(b) : Latest(b, v) # Latest(b, w)}
            found(b) == Detected("Insecure_Direct_Object_Reference", Head(Of(b)).at,
                                 "high", TRUE)
            Report(b) == <<WithPoC(found(b))>>
<1>1. DetectIDORDiff(steps) = IF proved = {} THEN {<<>>} ELSE {Report(b) : b \in proved}
  BY DEF DetectIDORDiff, Where
<1>2. /\ IsList(steps) /\ ToSet(steps) = {steps[i] : i \in 1..Len(steps)}
      /\ \A s \in ToSet(steps) : StepAssumption(s)
  BY ListIs DEF Transcript
<1>3. ASSUME NEW b \in proved
      PROVE  /\ FromStep(steps, WithPoC(found(b))) /\ WithPoC(found(b)).verified
             /\ WithPoC(found(b)).type = "Insecure_Direct_Object_Reference"
  <2>1. PICK s \in reads : b = IdorKey(s).base
    OBVIOUS
  <2>2. PICK i \in 1..Len(steps) : s = steps[i]
    BY <1>2, <2>1
  <2>3. FO(b)[i] = <<steps[i]>>
    BY <2>1, <2>2
  <2>4. /\ FO(b) = [j \in 1..Len(steps) |-> FO(b)[j]]
        /\ \A j \in 1..Len(steps) : FO(b)[j] \in {<<>>, <<steps[j]>>}
    OBVIOUS
  <2>. HIDE DEF FO, proved
  <2>5. Of(b) # <<>>
    BY <1>2, <2>2, <2>3, <2>4, Picks
  <2>6. "Insecure_Direct_Object_Reference" \in OwnLabels
    BY DEF OwnLabels
  <2>7. FromStep(steps, found(b))
    BY <2>4, <2>5, <2>6, FirstFit DEF Severities
  <2>8. found(b).verified /\ found(b).type = "Insecure_Direct_Object_Reference"
    BY FindingIs DEF Detected, FindingFields
  <2>. HIDE DEF found
  <2>9. Fine(found(b))
    BY <2>7 DEF FromStep
  <2>. QED
    BY <2>7, <2>8, <2>9, FromPoC, WithPoCIs
<1>4. ASSUME NEW i \in LastReads(steps), NEW j \in LastReads(steps),
             OtherOwner(steps[i], steps[j])
      PROVE  proved # {}
  <2>. DEFINE b == IdorKey(steps[i]).base
              v == IdorKey(steps[i]).val
              w == IdorKey(steps[j]).val
  <2>1. /\ i \in 1..Len(steps) /\ j \in 1..Len(steps)
        /\ ReadsOwner(steps[i]) /\ ReadsOwner(steps[j])
    BY DEF LastReads
  <2>2. steps[i] \in reads /\ steps[j] \in reads
    BY <1>2, <2>1, ReadsAgree
  <2>3. b = IdorKey(steps[j]).base /\ steps[i].owners # steps[j].owners
    BY <1>4 DEF OtherOwner
  <2>4. v \in Vals(b) /\ w \in Vals(b) /\ b \in {IdorKey(s).base : s \in reads}
    BY <2>2, <2>3
  <2>5. Latest(b, v) = steps[i].owners
    <3>1. /\ FL(b, v) = [k \in 1..Len(steps) |-> FL(b, v)[k]]
          /\ \A k \in 1..Len(steps) :
               FL(b, v)[k] = IF NamesOwner(steps[k]) /\ SameObject(steps[i], steps[k])
                             THEN <<steps[k]>> ELSE <<>>
      BY DEF SameObject
    <3>. HIDE DEF FL
    <3>. QED
      BY <3>1, LatestRead
  <2>6. Latest(b, w) = steps[j].owners
    <3>1. /\ FL(b, w) = [k \in 1..Len(steps) |-> FL(b, w)[k]]
          /\ \A k \in 1..Len(steps) :
               FL(b, w)[k] = IF NamesOwner(steps[k]) /\ SameObject(steps[j], steps[k])
                             THEN <<steps[k]>> ELSE <<>>
      BY <2>3 DEF SameObject
    <3>. HIDE DEF FL
    <3>. QED
      BY <3>1, LatestRead
  <2>. HIDE DEF Latest, Vals, b, v, w, reads
  <2>7. b \in proved
    BY <2>3, <2>4, <2>5, <2>6 DEF reads
  <2>. QED
    BY <2>7
<1>. HIDE DEF proved, found
<1>5. CASE proved = {}
  BY <1>1, <1>4, <1>5, NoneDetected
<1>6. CASE proved # {}
  <2>1. PICK b \in proved : list = <<WithPoC(found(b))>>
    BY <1>1, <1>6
  <2>2. ToSet(list) = {WithPoC(found(b))}
    BY <2>1, Single
  <2>. QED
    BY <1>3, <2>1, <2>2, OneDetected
<1>. QED
  BY <1>5, <1>6

(* parseNuclei.                                                             *)
LEMMA NucleiDetected ==
  ASSUME NEW steps, Transcript(steps), NEW s \in ToSet(steps), s.tool = "nuclei_scan"
  PROVE  Detects(steps, ParseNuclei(s))
<1>. DEFINE lines == s.lines
            F == [i \in 1..Len(lines) |-> IF lines[i].json THEN <<lines[i]>> ELSE <<>>]
            json == FlattenSeq(F)
            G == [i \in 1..Len(json) |->
                    IF \E j \in 1..(i - 1) : json[j].key = json[i].key
                    THEN <<>> ELSE <<json[i]>>]
            firsts == FlattenSeq(G)
            H == [i \in 1..Len(firsts) |-> IF ~ firsts[i].noise THEN <<firsts[i]>> ELSE <<>>]
            kept == FlattenSeq(H)
            severity(l) == MapNarrativeSeverity(l.severity)
            found(l) == WithPoC(Detected(l.type, l.at, severity(l), FALSE))
            list == [i \in 1..Len(kept) |-> found(kept[i])]
            counted == Detected("Misconfiguration", s.at, "high", FALSE)
<1>1. ParseNuclei(s) \in {<<>>, <<[counted EXCEPT !.impact = FALSE]>>, list}
  <2>. HIDE DEF counted, found
  <2>1. ParseNuclei(s) = IF json = <<>> THEN IF s.count > 0
                                            THEN <<[counted EXCEPT !.impact = FALSE]>>
                                            ELSE <<>>
                         ELSE list
    BY DEF ParseNuclei, FirstPer, Where, counted, found
  <2>. HIDE DEF list, json
  <2>. QED
    BY <2>1
<1>2. IsList(lines) /\ \A l \in ToSet(lines) : l.json => l.type \in Labels
  BY DEF Transcript, StepAssumption
<1>3. IsList(json) /\ \A l \in ToSet(json) : l \in ToSet(lines) /\ l.json
  <2>. DEFINE Q == {l \in ToSet(lines) : l.json}
  <2>1. \A i \in 1..Len(lines) : lines[i] \in ToSet(lines)
    BY <1>2, ListIs
  <2>2. /\ F = [i \in 1..Len(lines) |-> F[i]]
        /\ \A i \in 1..Len(lines) : F[i] = IF lines[i] \in Q THEN <<lines[i]>> ELSE <<>>
    <3>. HIDE DEF lines
    <3>. QED
      BY <2>1
  <2>. HIDE DEF F, Q
  <2>3. IsList(json) /\ ToSet(json) = ToSet(lines) \cap Q
    BY <1>2, <2>2, Kept
  <2>. QED
    BY <2>3 DEF Q
<1>. HIDE DEF json
<1>4. IsList(firsts) /\ ToSet(firsts) \subseteq ToSet(json)
  <2>1. G = [i \in 1..Len(json) |-> G[i]]
        /\ \A i \in 1..Len(json) : G[i] \in {<<>>, <<json[i]>>}
    OBVIOUS
  <2>. HIDE DEF G
  <2>. QED
    BY <1>3, <2>1, Picks
<1>. HIDE DEF firsts
<1>5. IsList(kept) /\ ToSet(kept) \subseteq ToSet(firsts)
  <2>1. H = [i \in 1..Len(firsts) |-> H[i]]
        /\ \A i \in 1..Len(firsts) : H[i] \in {<<>>, <<firsts[i]>>}
    OBVIOUS
  <2>. HIDE DEF H
  <2>. QED
    BY <1>4, <2>1, Picks
<1>. HIDE DEF kept
<1>6. Len(kept) \in Nat
      /\ \A i \in 1..Len(kept) : kept[i] \in ToSet(lines) /\ kept[i].type \in Labels
  BY <1>2, <1>3, <1>4, <1>5, ListIs
<1>7. ASSUME NEW l \in ToSet(lines), l.type \in Labels PROVE FromStep(steps, found(l))
  <2>1. severity(l) \in Severities /\ l.at \in Places(s)
    BY DEF MapNarrativeSeverity, Severities, Places
  <2>. HIDE DEF severity
  <2>. QED
    BY <1>7, <2>1, FromDetected, FromPoC
<1>. HIDE DEF found
<1>8. list = [i \in 1..Len(kept) |-> list[i]] /\ \A i \in 1..Len(kept) : FromStep(steps, list[i])
  BY <1>6, <1>7
<1>9. FromStep(steps, [counted EXCEPT !.impact = FALSE])
  <2>1. FromStep(steps, counted)
    <3>1. "Misconfiguration" \in Labels
      BY OwnLabelsKnown DEF OwnLabels
    <3>. QED
      BY <3>1, FromDetected DEF Severities, Places
  <2>. HIDE DEF counted
  <2>. DEFINE g == [counted EXCEPT !.impact = FALSE]
  <2>2. DOMAIN g = DOMAIN counted /\ \A x \in DOMAIN counted \ {"impact"} : g[x] = counted[x]
    OBVIOUS
  <2>. HIDE DEF g
  <2>3. \A x \in {"type", "title", "at", "line", "severity", "verified", "status", "cvss",
                  "advice"} : g[x] = counted[x]
    BY <2>1, <2>2 DEF FromStep, Fine, FindingFields
  <2>4. FromStep(steps, g)
    BY <2>1, <2>2, <2>3 DEF FromStep, Fine
  <2>. QED
    BY <2>4 DEF g
<1>. HIDE DEF list, counted
<1>10. Detects(steps, list)
  BY <1>6, <1>8, EachDetected
<1>. QED
  BY <1>1, <1>9, <1>10, NoneDetected, OneDetected

(* parseDalfox.                                                             *)
LEMMA DalfoxDetected ==
  ASSUME NEW steps, Transcript(steps), NEW s \in ToSet(steps)
  PROVE  Detects(steps, ParseDalfox(s))
<1>. DEFINE lines == s.lines
            F == [i \in 1..Len(lines) |-> IF lines[i].json THEN <<lines[i]>> ELSE <<>>]
            json == FlattenSeq(F)
            H == [i \in 1..Len(json) |-> IF json[i].kind \in {"V", "R"} THEN <<json[i]>> ELSE <<>>]
            told == FlattenSeq(H)
            G == [i \in 1..Len(told) |->
                    IF \E j \in 1..(i - 1) : told[j].key = told[i].key
                    THEN <<>> ELSE <<told[i]>>]
            kept == FlattenSeq(G)
            severity(l) == IF l.kind = "V" THEN "high" ELSE "medium"
            found(l) == WithPoC(Detected("Cross-Site_Scripting", l.at, severity(l),
                                         l.kind = "V"))
            list == [i \in 1..Len(kept) |-> found(kept[i])]
            counted == Detected("Cross-Site_Scripting", s.at, "medium", FALSE)
<1>1. ParseDalfox(s) \in {<<>>, <<counted>>, list}
  <2>. HIDE DEF counted, found
  <2>1. ParseDalfox(s) = IF json = <<>> THEN IF s.count > 0 THEN <<counted>> ELSE <<>> ELSE list
    BY DEF ParseDalfox, FirstPer, Where, counted, found
  <2>. HIDE DEF list, json
  <2>. QED
    BY <2>1
<1>2. IsList(lines)
  BY DEF Transcript, StepAssumption
<1>3. IsList(json) /\ ToSet(json) \subseteq ToSet(lines)
  <2>1. F = [i \in 1..Len(lines) |-> F[i]]
        /\ \A i \in 1..Len(lines) : F[i] \in {<<>>, <<lines[i]>>}
    <3>. HIDE DEF lines
    <3>. QED
      OBVIOUS
  <2>. HIDE DEF F
  <2>. QED
    BY <1>2, <2>1, Picks
<1>. HIDE DEF json
<1>4. IsList(told) /\ ToSet(told) \subseteq ToSet(json)
  <2>1. H = [i \in 1..Len(json) |-> H[i]]
        /\ \A i \in 1..Len(json) : H[i] \in {<<>>, <<json[i]>>}
    OBVIOUS
  <2>. HIDE DEF H
  <2>. QED
    BY <1>3, <2>1, Picks
<1>. HIDE DEF told
<1>5. IsList(kept) /\ ToSet(kept) \subseteq ToSet(told)
  <2>1. G = [i \in 1..Len(told) |-> G[i]]
        /\ \A i \in 1..Len(told) : G[i] \in {<<>>, <<told[i]>>}
    OBVIOUS
  <2>. HIDE DEF G
  <2>. QED
    BY <1>4, <2>1, Picks
<1>. HIDE DEF kept
<1>6. Len(kept) \in Nat /\ \A i \in 1..Len(kept) : kept[i] \in ToSet(lines)
  BY <1>3, <1>4, <1>5, ListIs
<1>7. "Cross-Site_Scripting" \in Labels
  BY OwnLabelsKnown DEF OwnLabels
<1>8. ASSUME NEW l \in ToSet(lines) PROVE FromStep(steps, found(l))
  <2>. DEFINE executed == l.kind = "V"
  <2>1. severity(l) \in Severities /\ l.at \in Places(s) /\ executed \in BOOLEAN
    BY DEF Severities, Places
  <2>. HIDE DEF severity, executed
  <2>2. FromStep(steps, Detected("Cross-Site_Scripting", l.at, severity(l), executed))
    BY <1>7, <2>1, FromDetected
  <2>. QED
    BY <2>2, FromPoC DEF executed
<1>. HIDE DEF found
<1>9. list = [i \in 1..Len(kept) |-> list[i]] /\ \A i \in 1..Len(kept) : FromStep(steps, list[i])
  BY <1>6, <1>8
<1>10. FromStep(steps, counted)
  BY <1>7, FromDetected DEF Severities, Places
<1>. HIDE DEF list, counted
<1>11. Detects(steps, list)
  BY <1>6, <1>9, EachDetected
<1>. QED
  BY <1>1, <1>10, <1>11, NoneDetected, OneDetected

(* An injection is reported at its step.                                    *)
LEMMA SQLiDetected ==
  ASSUME NEW steps, NEW s \in ToSet(steps), NEW severity \in Severities, NEW verified \in BOOLEAN
  PROVE  LET f == SQLi(s.at, severity, verified) IN
         /\ FromStep(steps, f) /\ FromStep(steps, WithPoC(f))
         /\ WithPoC(f).type = "SQL_Injection" /\ WithPoC(f).at = s.at
         /\ WithPoC(f).verified = verified
<1>. DEFINE f == SQLi(s.at, severity, verified)
<1>1. "SQL_Injection" \in Labels /\ s.at \in Places(s)
  BY OwnLabelsKnown DEF OwnLabels, Places
<1>2. FromStep(steps, f)
  BY <1>1, FromDetected DEF SQLi
<1>3. f.type = "SQL_Injection" /\ f.at = s.at
  BY FindingIs DEF Detected, FindingFields, SQLi
<1>4. f.verified = verified
  BY FindingIs DEF Detected, FindingFields, SQLi
<1>. HIDE DEF f
<1>5. Fine(f)
  BY <1>2 DEF FromStep
<1>6. /\ FromStep(steps, WithPoC(f)) /\ WithPoC(f).type = f.type /\ WithPoC(f).at = f.at
      /\ WithPoC(f).verified = f.verified
  BY <1>2, <1>5, FromPoC, WithPoCIs
<1>. QED
  BY <1>2, <1>3, <1>4, <1>6 DEF f

(* Each step's own findings; a verified injection is among them.            *)
LEMMA StepDetected ==
  ASSUME NEW steps, Transcript(steps), NEW s \in ToSet(steps)
  PROVE  /\ Detects(steps, StepFindings(s))
         /\ s.tool = "http_request" /\ s.ran /\ s.proved =>
              \E f \in ToSet(StepFindings(s)) :
                f.verified /\ f.type = "SQL_Injection" /\ f.at = s.at
<1>. DEFINE f == SQLi(s.at, "critical", TRUE)
<1>1. /\ FromStep(steps, f) /\ FromStep(steps, WithPoC(f))
      /\ WithPoC(f).type = "SQL_Injection" /\ WithPoC(f).at = s.at
      /\ WithPoC(f).verified = TRUE
  <2>1. "critical" \in Severities /\ TRUE \in BOOLEAN
    BY DEF Severities
  <2>. QED
    BY <2>1, SQLiDetected
<1>. HIDE DEF f
<1>2. \/ StepFindings(s) \in {<<>>, <<f>>, <<WithPoC(f)>>}
      \/ s.tool = "nuclei_scan" /\ StepFindings(s) = ParseNuclei(s)
      \/ s.tool = "dalfox_xss" /\ StepFindings(s) = ParseDalfox(s)
  BY DEF StepFindings, f
<1>3. Detects(steps, StepFindings(s))
  BY <1>1, <1>2, NoneDetected, OneDetected, NucleiDetected, DalfoxDetected
<1>4. ASSUME s.tool = "http_request", s.ran, s.proved
      PROVE  \E g \in ToSet(StepFindings(s)) :
               g.verified /\ g.type = "SQL_Injection" /\ g.at = s.at
  <2>1. StepFindings(s) = <<WithPoC(f)>>
    BY <1>4 DEF StepFindings, f
  <2>2. WithPoC(f) \in ToSet(StepFindings(s))
    BY <2>1, Single
  <2>. QED
    BY <1>1, <2>2
<1>. QED
  BY <1>3, <1>4

(* The evidence of an injection.                                            *)
LEMMA EvidenceDetected ==
  ASSUME NEW steps, NEW s \in ToSet(steps)
  PROVE  Detects(steps, Evidence(steps, SQLiBase(s)))
<1>. DEFINE b == SQLiBase(s)
            proof == WithPoC(SQLi(b.at, "critical", TRUE))
            sign == WithPoC(SQLi(b.at, "high", FALSE))
<1>1. Evidence(steps, b) \in {<<>>, <<proof>>, <<sign>>}
  <2>. HIDE DEF b, proof, sign
  <2>. QED
    BY DEF Evidence, proof, sign
<1>2. b.at = s.at
  BY DEF SQLiBase
<1>. HIDE DEF b
<1>3. FromStep(steps, proof) /\ FromStep(steps, sign)
  <2>1. "critical" \in Severities /\ "high" \in Severities
    BY DEF Severities
  <2>. QED
    BY <1>2, <2>1, SQLiDetected
<1>. HIDE DEF proof, sign
<1>. QED
  BY <1>1, <1>3, NoneDetected, OneDetected DEF b

(* What a list is made of is finite, and so are the parts of it.            *)
LEMMA ImageOfListIsFinite ==
  ASSUME NEW seq, IsList(seq), NEW n, n = Len(seq),
         NEW F, F = [i \in 1..n |-> F[i]],
         NEW T, \A x \in T : \E i \in 1..n : x = F[i]
  PROVE  IsFiniteSet(T)
<1>. DEFINE S == {F[i] : i \in 1..n}
<1>1. n \in Nat
  BY ListIs
<1>2. F \in Surjection(1..n, S)
  <2>1. F \in [1..n -> S] /\ \A t \in S : \E i \in 1..n : F[i] = t
    OBVIOUS
  <2>. HIDE DEF S
  <2>2. F \in {M \in [1..n -> S] : \A t \in S : \E i \in 1..n : M[i] = t}
    BY <2>1, Zenon
  <2>. QED
    BY <2>2, Zenon DEF Surjection
<1>3. IsFiniteSet(1..n)
  <2>1. n \in Int /\ 1 \in Int
    BY <1>1
  <2>. QED
    BY <2>1, FS_Interval, Zenon
<1>. HIDE DEF S
<1>4. IsFiniteSet(S)
  BY <1>2, <1>3, FS_Surjection
<1>5. T \in SUBSET S
  BY DEF S
<1>. QED
  BY <1>4, <1>5, FS_Subset

(* Two parts of a list of findings.                                         *)
LEMMA ManyDetected ==
  ASSUME NEW steps, NEW n \in Nat, NEW F, F = [i \in 1..n |-> F[i]],
         \A i \in 1..n : Detects(steps, F[i])
  PROVE  /\ Detects(steps, FlattenSeq(F))
         /\ \A i \in 1..n : ToSet(F[i]) \subseteq ToSet(FlattenSeq(F))
<1>1. \A i \in 1..n : IsList(F[i])
  BY DEF Detects
<1>2. /\ IsList(FlattenSeq(F))
      /\ ToSet(FlattenSeq(F)) = UNION {ToSet(F[i]) : i \in 1..n}
  BY <1>1, Flattened
<1>. QED
  BY <1>2 DEF Detects

(* extractVulns: all steps' findings, every verified injection among them.  *)
LEMMA ExtractDetected ==
  ASSUME NEW steps, Transcript(steps), NEW list \in ExtractVulns(steps)
  PROVE  /\ Detects(steps, list)
         /\ \A s \in ToSet(steps) :
              s.tool = "http_request" /\ s.ran /\ s.proved =>
                \E f \in ToSet(list) :
                  f.verified /\ f.type = "SQL_Injection" /\ f.at = s.at
<1>. DEFINE F == [i \in 1..Len(steps) |-> StepFindings(steps[i])]
            perStep == FlattenSeq(F)
            bases == {SQLiBase(s) : s \in {t \in ToSet(steps) : Answered(t)}}
            shown == {b \in bases : Evidence(steps, b) # <<>>}
            G(order) == [i \in 1..Len(order) |-> Evidence(steps, order[i])]
<1>1. PICK order \in SetToSeqs(shown) : list = perStep \o FlattenSeq(G(order))
  BY DEF ExtractVulns
<1>2. /\ Len(steps) \in Nat /\ IsList(steps)
      /\ ToSet(steps) = {steps[i] : i \in 1..Len(steps)}
  BY ListIs DEF Transcript
<1>3. /\ F = [i \in 1..Len(steps) |-> F[i]]
      /\ \A i \in 1..Len(steps) : F[i] = StepFindings(steps[i])
  OBVIOUS
<1>4. \A i \in 1..Len(steps) : Detects(steps, F[i])
  BY <1>2, <1>3, StepDetected
<1>. HIDE DEF F
<1>5. /\ Detects(steps, perStep)
      /\ \A i \in 1..Len(steps) : ToSet(F[i]) \subseteq ToSet(perStep)
  BY <1>2, <1>3, <1>4, ManyDetected
<1>. HIDE DEF perStep
<1>6. IsFiniteSet(shown)
  <2>. DEFINE B == [i \in 1..Len(steps) |-> SQLiBase(steps[i])]
  <2>1. B = [i \in 1..Len(steps) |-> B[i]] /\ \A i \in 1..Len(steps) : B[i] = SQLiBase(steps[i])
    OBVIOUS
  <2>. HIDE DEF B
  <2>2. \A b \in shown : \E i \in 1..Len(steps) : b = B[i]
    BY <1>2, <2>1
  <2>. HIDE DEF shown
  <2>. QED
    BY <1>2, <2>1, <2>2, ImageOfListIsFinite
<1>7. \A b \in shown : Detects(steps, Evidence(steps, b))
  BY EvidenceDetected
<1>8. Cardinality(shown) \in Nat
  <2>. HIDE DEF shown
  <2>. QED
    BY <1>6, FS_CardinalityType
<1>. HIDE DEF shown
<1>9. Len(order) \in Nat /\ \A i \in 1..Len(order) : order[i] \in shown
  <2>1. order \in [1..Cardinality(shown) -> shown]
    BY DEF SetToSeqs
  <2>. QED
    BY <1>8, <2>1
<1>10. Detects(steps, FlattenSeq(G(order)))
  <2>1. /\ G(order) = [i \in 1..Len(order) |-> G(order)[i]]
        /\ \A i \in 1..Len(order) : G(order)[i] = Evidence(steps, order[i])
    OBVIOUS
  <2>2. \A i \in 1..Len(order) : Detects(steps, G(order)[i])
    BY <1>7, <1>9, <2>1
  <2>. HIDE DEF G
  <2>. QED
    BY <1>9, <2>1, <2>2, ManyDetected
<1>11. Detects(steps, list)
  BY <1>1, <1>5, <1>10, BothDetected
<1>12. ToSet(perStep) \subseteq ToSet(list)
  <2>1. IsList(perStep) /\ IsList(FlattenSeq(G(order)))
    BY <1>5, <1>10 DEF Detects
  <2>. HIDE DEF G
  <2>. QED
    BY <1>1, <2>1, Joined
<1>13. ASSUME NEW s \in ToSet(steps), s.tool = "http_request", s.ran, s.proved
       PROVE  \E f \in ToSet(list) : f.verified /\ f.type = "SQL_Injection" /\ f.at = s.at
  <2>1. PICK i \in 1..Len(steps) : s = steps[i]
    BY <1>2
  <2>2. PICK f \in ToSet(StepFindings(s)) :
          f.verified /\ f.type = "SQL_Injection" /\ f.at = s.at
    BY <1>13, StepDetected
  <2>3. f \in ToSet(list)
    BY <1>3, <1>5, <1>12, <2>1, <2>2
  <2>. QED
    BY <2>2, <2>3
<1>. QED
  BY <1>11, <1>13

(* The accepted default login.                                              *)
LEMMA LoginProved ==
  ASSUME NEW steps, Transcript(steps), NEW s \in ToSet(steps),
         s.tool = "default_cred_login", s.ran, s.accepted
  PROVE  \E f \in ToSet(DetectDefaultCredentials(steps)), t \in ToSet(steps) :
           /\ f.verified /\ f.type = "Default_Credentials"
           /\ t.tool = "default_cred_login" /\ f.at = t.at
<1>. DEFINE Fits(t) == t.tool = "default_cred_login" /\ t.ran /\ t.accepted
            F == [i \in 1..Len(steps) |-> IF Fits(steps[i]) THEN <<steps[i]>> ELSE <<>>]
            hits == FlattenSeq(F)
            found == Detected("Default_Credentials", Head(hits).at, "critical", TRUE)
            Q == {t \in ToSet(steps) : Fits(t)}
<1>1. DetectDefaultCredentials(steps) = IF hits = <<>> THEN <<>> ELSE <<found>>
  BY DEF DetectDefaultCredentials, OnFirst, Where
<1>2. /\ IsList(steps) /\ s \in Q
      /\ \A i \in 1..Len(steps) : steps[i] \in ToSet(steps)
  BY ListIs DEF Transcript
<1>3. /\ F = [i \in 1..Len(steps) |-> F[i]]
      /\ \A i \in 1..Len(steps) : F[i] = IF steps[i] \in Q THEN <<steps[i]>> ELSE <<>>
  <2>. HIDE DEF Fits
  <2>. QED
    BY <1>2
<1>. HIDE DEF F, Q
<1>4. IsList(hits) /\ ToSet(hits) = ToSet(steps) \cap Q
  BY <1>2, <1>3, Kept
<1>5. hits # <<>>
  BY <1>2, <1>4, Singles
<1>6. Head(hits) \in ToSet(steps) /\ Head(hits) \in Q
  <2>. HIDE DEF hits
  <2>. QED
    BY <1>4, <1>5, FirstOf
<1>7. found.verified /\ found.type = "Default_Credentials" /\ found.at = Head(hits).at
  BY FindingIs DEF Detected, FindingFields
<1>. HIDE DEF found, hits
<1>8. found \in ToSet(DetectDefaultCredentials(steps))
  BY <1>1, <1>5, Single
<1>. QED
  BY <1>6, <1>7, <1>8 DEF Q

(* A place the scan went to, or the whole application.                      *)
Exercised(steps, at) ==
  \/ AppWide(NormalizeLocation(at))
  \/ \E s \in ToSet(steps) : \E p \in Places(s) :
       SameFamily(NormalizeLocation(at), NormalizeLocation(p))

(* A finding that is judged: validated at a place the scan went to, or a    *)
(* candidate.                                                               *)
Credible(steps, f) ==
  /\ Fine(f) /\ f.status \in {"validated", "candidate"}
  /\ f.verified <=> f.status = "validated"
  /\ f.verified => Exercised(steps, f.at)

Credits(steps, list) == IsList(list) /\ \A f \in ToSet(list) : Credible(steps, f)

(* What a transcript proves is in a list of findings.                       *)
Proven(list, types, at) ==
  \E f \in ToSet(list) : f.verified /\ f.type \in types /\ f.at = at

Proves(steps, list) ==
  /\ \A s \in ToSet(steps) :
       s.tool = "http_request" /\ s.ran /\ s.proved => Proven(list, {"SQL_Injection"}, s.at)
  /\ \A s \in ToSet(steps) :
       s.ran /\ "command_output" \in s.shown =>
         \E at : Proven(list, {"Unrestricted_File_Upload", "Remote_Code_Execution"}, at)
  /\ \A s \in ToSet(steps) :
       s.tool = "default_cred_login" /\ s.ran /\ s.accepted =>
         Proven(list, {"Default_Credentials"}, s.at)
  /\ (\E i, j \in LastReads(steps) : OtherOwner(steps[i], steps[j])) =>
       \E at : Proven(list, {"Insecure_Direct_Object_Reference"}, at)

OneLogin(steps) ==
  \A s, t \in ToSet(steps) :
    s.tool = "default_cred_login" /\ t.tool = "default_cred_login" => s.at = t.at

(* Findings of two detectors.                                               *)
LEMMA JoinedDetected ==
  ASSUME NEW steps, NEW a, NEW b, Detects(steps, a), Detects(steps, b)
  PROVE  /\ Detects(steps, a \o b)
         /\ ToSet(a) \subseteq ToSet(a \o b) /\ ToSet(b) \subseteq ToSet(a \o b)
BY Joined DEF Detects

(* setDeterministicStatus.                                                  *)
LEMMA Settles ==
  ASSUME NEW steps, NEW list, Detects(steps, list)
  PROVE  /\ Credits(steps, SetStatus(list))
         /\ \A types, at : Proven(list, types, at) => Proven(SetStatus(list), types, at)
<1>. DEFINE new == SetStatus(list)
            n == Len(list)
<1>1. n \in Nat /\ ToSet(list) = {list[i] : i \in 1..n}
  BY ListIs DEF Detects
<1>2. new = [i \in 1..n |-> new[i]]
      /\ \A i \in 1..n : new[i] = [list[i] EXCEPT !.status = StatusForVerified(list[i].verified)]
  <2>1. \A i \in 1..n : list[i].status = "none"
    BY <1>1 DEF Detects, FromStep
  <2>. QED
    BY <2>1 DEF SetStatus
<1>. HIDE DEF new, n
<1>3. IsList(new) /\ Len(new) = n /\ ToSet(new) = {new[i] : i \in 1..n}
  BY <1>1, <1>2, Indexed, ListIs
<1>4. ASSUME NEW i \in 1..n
      PROVE  /\ Credible(steps, new[i]) /\ new[i].verified = list[i].verified
             /\ new[i].type = list[i].type /\ new[i].at = list[i].at
  <2>. DEFINE f == list[i]
              g == new[i]
  <2>1. FromStep(steps, f)
    BY <1>1 DEF Detects
  <2>2. g = [f EXCEPT !.status = StatusForVerified(f.verified)]
    BY <1>2
  <2>. HIDE DEF f, g
  <2>3. DOMAIN g = DOMAIN f /\ \A x \in DOMAIN f \ {"status"} : g[x] = f[x]
    BY <2>2
  <2>4. g.status = StatusForVerified(f.verified)
    BY <2>1, <2>2 DEF FromStep, Fine, FindingFields
  <2>5. \A x \in {"type", "title", "at", "line", "severity", "verified", "cvss",
                  "advice"} : g[x] = f[x]
    BY <2>1, <2>3 DEF FromStep, Fine, FindingFields
  <2>6. Fine(g)
    BY <2>1, <2>3, <2>4, <2>5 DEF FromStep, Fine, StatusForVerified
  <2>7. Exercised(steps, f.at)
    <3>1. PICK s \in ToSet(steps) : f.at \in Places(s)
      BY <2>1 DEF FromStep
    <3>2. SameFamily(NormalizeLocation(f.at), NormalizeLocation(f.at))
      BY DEF SameFamily
    <3>. QED
      BY <3>1, <3>2 DEF Exercised
  <2>8. /\ g.status \in {"validated", "candidate"}
        /\ g.verified <=> g.status = "validated"
    BY <2>1, <2>4, <2>5 DEF FromStep, Fine, StatusForVerified
  <2>9. Credible(steps, g)
    BY <2>5, <2>6, <2>7, <2>8 DEF Credible
  <2>. QED
    BY <2>5, <2>9 DEF f, g
<1>5. Credits(steps, new)
  BY <1>3, <1>4 DEF Credits
<1>6. ASSUME NEW types, NEW at, Proven(list, types, at) PROVE Proven(new, types, at)
  BY <1>1, <1>3, <1>4, <1>6 DEF Proven
<1>. QED
  BY <1>5, <1>6 DEF new

(* GenerateReport before the model is asked.                                *)
LEMMA DetectorsDetected ==
  ASSUME NEW steps, Transcript(steps), OneLogin(steps), NEW found \in DetectorFindings(steps)
  PROVE  Credits(steps, found) /\ Proves(steps, found)
<1>. PICK vulns \in ExtractVulns(steps), idor \in DetectIDORDiff(steps) :
       found = SetStatus(vulns
             \o DetectServerBanner(steps) \o DetectRCE(steps)
             \o DetectOutdatedComponent(steps) \o DetectExposedFiles(steps)
             \o DetectUnrestrictedUpload(steps) \o DetectMissingSecurityHeaders(steps)
             \o DetectDefaultCredentials(steps) \o idor
             \o DetectCSRF(steps) \o DetectSSRF(steps))
  BY DEF DetectorFindings
<1>. DEFINE l1 == vulns \o DetectServerBanner(steps)
            l2 == l1 \o DetectRCE(steps)
            l3 == l2 \o DetectOutdatedComponent(steps)
            l4 == l3 \o DetectExposedFiles(steps)
            l5 == l4 \o DetectUnrestrictedUpload(steps)
            l6 == l5 \o DetectMissingSecurityHeaders(steps)
            l7 == l6 \o DetectDefaultCredentials(steps)
            l8 == l7 \o idor
            l9 == l8 \o DetectCSRF(steps)
            list == l9 \o DetectSSRF(steps)
<1>0. found = SetStatus(list)
  OBVIOUS
<1>1. /\ Detects(steps, l1) /\ ToSet(vulns) \subseteq ToSet(l1)
  BY ExtractDetected, BannerDetected, JoinedDetected
<1>. HIDE DEF l1
<1>2. /\ Detects(steps, l2) /\ ToSet(l1) \subseteq ToSet(l2)
      /\ ToSet(DetectRCE(steps)) \subseteq ToSet(l2)
  <2>1. Detects(steps, DetectRCE(steps))
    BY RCEDetected
  <2>. QED
    BY <1>1, <2>1, JoinedDetected
<1>. HIDE DEF l2
<1>3. /\ Detects(steps, l3) /\ ToSet(l2) \subseteq ToSet(l3)
  <2>1. Detects(steps, DetectOutdatedComponent(steps))
    BY ComponentDetected
  <2>. QED
    BY <1>2, <2>1, JoinedDetected
<1>. HIDE DEF l3
<1>4. /\ Detects(steps, l4) /\ ToSet(l3) \subseteq ToSet(l4)
  <2>1. Detects(steps, DetectExposedFiles(steps))
    BY FilesDetected
  <2>. QED
    BY <1>3, <2>1, JoinedDetected
<1>. HIDE DEF l4
<1>5. /\ Detects(steps, l5) /\ ToSet(l4) \subseteq ToSet(l5)
  <2>1. Detects(steps, DetectUnrestrictedUpload(steps))
    BY UploadDetected
  <2>. QED
    BY <1>4, <2>1, JoinedDetected
<1>. HIDE DEF l5
<1>6. /\ Detects(steps, l6) /\ ToSet(l5) \subseteq ToSet(l6)
  <2>1. Detects(steps, DetectMissingSecurityHeaders(steps))
    BY HeadersDetected
  <2>. QED
    BY <1>5, <2>1, JoinedDetected
<1>. HIDE DEF l6
<1>7. /\ Detects(steps, l7) /\ ToSet(l6) \subseteq ToSet(l7)
      /\ ToSet(DetectDefaultCredentials(steps)) \subseteq ToSet(l7)
  <2>1. Detects(steps, DetectDefaultCredentials(steps))
    BY LoginDetected
  <2>. QED
    BY <1>6, <2>1, JoinedDetected
<1>. HIDE DEF l7
<1>8. /\ Detects(steps, l8) /\ ToSet(l7) \subseteq ToSet(l8)
      /\ ToSet(idor) \subseteq ToSet(l8)
  <2>1. Detects(steps, idor)
    BY OwnersDetected
  <2>. QED
    BY <1>7, <2>1, JoinedDetected
<1>. HIDE DEF l8
<1>9. /\ Detects(steps, l9) /\ ToSet(l8) \subseteq ToSet(l9)
  <2>1. Detects(steps, DetectCSRF(steps))
    BY CSRFDetected
  <2>. QED
    BY <1>8, <2>1, JoinedDetected
<1>. HIDE DEF l9
<1>10. /\ Detects(steps, list) /\ ToSet(l9) \subseteq ToSet(list)
  <2>1. Detects(steps, DetectSSRF(steps))
    BY SSRFDetected
  <2>. QED
    BY <1>9, <2>1, JoinedDetected
<1>. HIDE DEF list
<1>11. /\ ToSet(vulns) \subseteq ToSet(list)
       /\ ToSet(DetectRCE(steps)) \subseteq ToSet(list)
       /\ ToSet(DetectDefaultCredentials(steps)) \subseteq ToSet(list)
       /\ ToSet(idor) \subseteq ToSet(list)
  BY <1>1, <1>2, <1>3, <1>4, <1>5, <1>6, <1>7, <1>8, <1>9, <1>10, Zenon
<1>12. /\ Credits(steps, found)
       /\ \A types, at : Proven(list, types, at) => Proven(found, types, at)
  BY <1>0, <1>10, Settles
<1>13. ASSUME NEW s \in ToSet(steps), s.tool = "http_request", s.ran, s.proved
       PROVE  Proven(list, {"SQL_Injection"}, s.at)
  <2>1. PICK f \in ToSet(vulns) : f.verified /\ f.type = "SQL_Injection" /\ f.at = s.at
    BY <1>13, ExtractDetected
  <2>. QED
    BY <1>11, <2>1 DEF Proven
<1>14. ASSUME NEW s \in ToSet(steps), s.ran, "command_output" \in s.shown
       PROVE  \E at : Proven(list, {"Unrestricted_File_Upload", "Remote_Code_Execution"}, at)
  <2>1. PICK f \in ToSet(DetectRCE(steps)) :
          /\ f.verified /\ f.type \in {"Unrestricted_File_Upload", "Remote_Code_Execution"}
    BY <1>14, RCEDetected
  <2>. QED
    BY <1>11, <2>1 DEF Proven
<1>15. ASSUME NEW s \in ToSet(steps), s.tool = "default_cred_login", s.ran, s.accepted
       PROVE  Proven(list, {"Default_Credentials"}, s.at)
  <2>1. PICK f \in ToSet(DetectDefaultCredentials(steps)), t \in ToSet(steps) :
          /\ f.verified /\ f.type = "Default_Credentials"
          /\ t.tool = "default_cred_login" /\ f.at = t.at
    BY <1>15, LoginProved
  <2>2. f.at = s.at
    BY <1>15, <2>1 DEF OneLogin
  <2>. QED
    BY <1>11, <2>1, <2>2 DEF Proven
<1>16. ASSUME \E i, j \in LastReads(steps) : OtherOwner(steps[i], steps[j])
       PROVE  \E at : Proven(list, {"Insecure_Direct_Object_Reference"}, at)
  <2>1. PICK f \in ToSet(idor) : f.verified /\ f.type = "Insecure_Direct_Object_Reference"
    BY <1>16, OwnersDetected
  <2>. QED
    BY <1>11, <2>1 DEF Proven
<1>. QED
  BY <1>12, <1>13, <1>14, <1>15, <1>16 DEF Proves

-----------------------------------------------------------------------------
(* What a model reads in the final answer.                                 *)

Answer(claims) ==
  /\ IsList(claims)
  /\ \A c \in ToSet(claims) :
       /\ c.type \in Labels /\ c.title \in Labels
       /\ c.line \in Int /\ c.verified \in BOOLEAN

(* A severity the model names is mapped to a known one.                     *)
LEMMA SeverityIs ==
  ASSUME NEW s
  PROVE  MapNarrativeSeverity(s) \in Severities
BY DEF MapNarrativeSeverity, Severities

(* extractAgentDynamicFindings.                                             *)
LEMMA ClaimsAreFine ==
  ASSUME NEW claims, Answer(claims)
  PROVE  /\ IsList(ClaimedFindings(claims))
         /\ \A f \in ToSet(ClaimedFindings(claims)) : Fine(f)
<1>. DEFINE or(a, b) == IF a = Blank THEN b ELSE a
            Fits(c) == c.title # Blank \/ c.type # Blank
            F == [i \in 1..Len(claims) |-> IF Fits(claims[i]) THEN <<claims[i]>> ELSE <<>>]
            named == FlattenSeq(F)
            made(c) == [Finding EXCEPT !.type = or(c.type, "Web"), !.title = or(c.title, c.type),
                        !.at = c.at, !.severity = MapNarrativeSeverity(c.severity),
                        !.verified = c.verified, !.impact = c.impact, !.said = c.said,
                        !.poc = c.at # NoLocation \/ c.payload]
            list == [i \in 1..Len(named) |-> made(named[i])]
<1>1. ClaimedFindings(claims) = list
  BY DEF ClaimedFindings, Where
<1>2. IsList(named) /\ ToSet(named) \subseteq ToSet(claims)
  <2>1. F = [i \in 1..Len(claims) |-> F[i]]
        /\ \A i \in 1..Len(claims) : F[i] \in {<<>>, <<claims[i]>>}
    <3>. HIDE DEF Fits
    <3>. QED
      OBVIOUS
  <2>. HIDE DEF F
  <2>. QED
    BY <2>1, Picks DEF Answer
<1>. HIDE DEF named
<1>3. Len(named) \in Nat /\ \A i \in 1..Len(named) : named[i] \in ToSet(claims)
  BY <1>2, ListIs
<1>4. ASSUME NEW c \in ToSet(claims) PROVE Fine(made(c))
  <2>1. or(c.type, "Web") \in Labels /\ or(c.title, c.type) \in Labels
    <3>1. "Web" \in Labels
      BY OwnLabelsKnown DEF OwnLabels
    <3>. QED
      BY <3>1 DEF Answer
  <2>. HIDE DEF or
  <2>2. MapNarrativeSeverity(c.severity) \in Severities /\ c.verified \in BOOLEAN
    BY SeverityIs DEF Answer
  <2>. DEFINE f == made(c)
  <2>3. /\ DOMAIN f = FindingFields /\ f.line = -1
        /\ f.severity = MapNarrativeSeverity(c.severity)
        /\ f.status = "none" /\ f.cvss = 0 /\ f.advice = "own"
        /\ f.type = or(c.type, "Web") /\ f.title = or(c.title, c.type)
    BY FindingIs DEF FindingFields
  <2>4. f.verified = c.verified
    BY FindingIs DEF FindingFields
  <2>. HIDE DEF f
  <2>. QED
    BY <2>1, <2>2, <2>3, <2>4 DEF Fine, f
<1>. HIDE DEF made
<1>5. list = [i \in 1..Len(named) |-> list[i]] /\ \A i \in 1..Len(named) : Fine(list[i])
  BY <1>3, <1>4
<1>. HIDE DEF list
<1>6. IsList(list) /\ Len(list) = Len(named)
  BY <1>3, <1>5, Indexed
<1>7. ToSet(list) = {list[i] : i \in 1..Len(named)}
  BY <1>6, ListIs
<1>. QED
  BY <1>1, <1>5, <1>6, <1>7

(* A supporting step exercised the place.                                   *)
LEMMA SupportIsExercise ==
  ASSUME NEW steps, NEW at, HasSupportingStep(at, steps)
  PROVE  Exercised(steps, at)
<1>. DEFINE loc == NormalizeLocation(at)
<1>1. \/ AppWide(loc)
      \/ \E s \in ToSet(steps) : SameFamily(loc, NormalizeLocation(s.at))
  BY DEF HasSupportingStep
<1>2. \A s : s.at \in Places(s)
  BY DEF Places
<1>. HIDE DEF loc
<1>. QED
  BY <1>1, <1>2 DEF Exercised, loc

(* validateAgentFindings.                                                   *)
LEMMA ValidatedIsCredible ==
  ASSUME NEW steps, NEW list, IsList(list), \A f \in ToSet(list) : Fine(f)
  PROVE  Credits(steps, ValidateAgentFindings(list, steps))
<1>. DEFINE new == ValidateAgentFindings(list, steps)
            n == Len(list)
            Sound(f) == f.verified /\ HasSupportingStep(f.at, steps)
<1>1. n \in Nat /\ ToSet(list) = {list[i] : i \in 1..n}
  BY ListIs
<1>2. new = [i \in 1..n |-> new[i]]
      /\ \A i \in 1..n : new[i] = IF Sound(list[i])
                                  THEN [list[i] EXCEPT !.status = "validated"]
                                  ELSE [list[i] EXCEPT !.status = "candidate", !.verified = FALSE]
  BY DEF ValidateAgentFindings
<1>. HIDE DEF new, n, Sound
<1>3. IsList(new) /\ ToSet(new) = {new[i] : i \in 1..n}
  BY <1>1, <1>2, Indexed, ListIs
<1>4. ASSUME NEW i \in 1..n PROVE Credible(steps, new[i])
  <2>. DEFINE f == list[i]
              g == new[i]
  <2>1. Fine(f)
    BY <1>1
  <2>2. CASE Sound(f)
    <3>1. g = [f EXCEPT !.status = "validated"]
      BY <1>2, <2>2
    <3>. HIDE DEF f, g
    <3>2. DOMAIN g = DOMAIN f /\ \A x \in DOMAIN f \ {"status"} : g[x] = f[x]
      BY <3>1
    <3>3. g.status = "validated"
      BY <2>1, <3>1 DEF Fine, FindingFields
    <3>4. \A x \in {"type", "title", "at", "line", "severity", "verified", "cvss",
                    "advice"} : g[x] = f[x]
      BY <2>1, <3>2 DEF Fine, FindingFields
    <3>5. Fine(g)
      BY <2>1, <3>2, <3>3, <3>4 DEF Fine
    <3>6. f.verified /\ Exercised(steps, f.at)
      BY <2>2, SupportIsExercise DEF Sound
    <3>. QED
      BY <3>3, <3>4, <3>5, <3>6 DEF Credible, g
  <2>3. CASE ~ Sound(f)
    <3>1. g = [f EXCEPT !.status = "candidate", !.verified = FALSE]
      BY <1>2, <2>3
    <3>. HIDE DEF f, g
    <3>2. DOMAIN g = DOMAIN f /\ \A x \in DOMAIN f \ {"status", "verified"} : g[x] = f[x]
      BY <3>1
    <3>3. g.status = "candidate" /\ g.verified = FALSE
      BY <2>1, <3>1 DEF Fine, FindingFields
    <3>4. \A x \in {"type", "title", "at", "line", "severity", "cvss", "advice"} : g[x] = f[x]
      BY <2>1, <3>2 DEF Fine, FindingFields
    <3>5. Fine(g)
      BY <2>1, <3>2, <3>3, <3>4 DEF Fine
    <3>. QED
      BY <3>3, <3>5 DEF Credible, g
  <2>. QED
    BY <2>2, <2>3
<1>. QED
  BY <1>3, <1>4 DEF Credits, new

-----------------------------------------------------------------------------
(* Ratings.                                                                *)

(* A rating is a score and a known severity, or none.                       *)
LEMMA RatingIs ==
  ASSUME NEW f
  PROVE  LET r == ClassifyFinding(f) IN
         /\ r.cvss \in 0..100
         /\ r = Unrated \/ r.severity \in Severities
<1>. DEFINE good(r) == r.cvss \in 0..100 /\ (r = Unrated \/ r.severity \in Severities)
<1>1. good(Unrated)
  BY DEF Unrated
<1>2. \A s \in Severities, n \in 0..100 : good(Rate(s, n))
  BY DEF Rate
<1>. HIDE DEF good
<1>3. /\ good(Rate("critical", 98)) /\ good(Rate("critical", 91)) /\ good(Rate("high", 88))
      /\ good(Rate("high", 86)) /\ good(Rate("high", 81)) /\ good(Rate("high", 75))
      /\ good(Rate("medium", 65)) /\ good(Rate("medium", 61)) /\ good(Rate("low", 37))
      /\ good(Rate("low", 31)) /\ good(Rate("high", 71)) /\ good(Rate("informational", 0))
  BY <1>2 DEF Severities
<1>. DEFINE has(subs) == Has(f.type, subs) \/ Has(f.title, subs)
            hasFull(subs) == has(subs) \/ f.said \cap subs # {}
<1>. HIDE DEF has, hasFull
<1>4. good(ClassifyFinding(f))
  BY <1>1, <1>3, Zenon DEF ClassifyFinding, has, hasFull
<1>. QED
  BY <1>4 DEF good

(* Severities are ordered by numbers.                                       *)
LEMMA OrderIs ==
  ASSUME NEW s \in Severities
  PROVE  SeverityOrder(s) \in 1..5
BY DEF SeverityOrder, Severities

(* A proof is worth more than any claim without one.                        *)
LEMMA ProofsOutweigh ==
  ASSUME NEW f, Fine(f), NEW g, Fine(g), f.verified, VulnScore(g) >= VulnScore(f)
  PROVE  g.verified
<1>. DEFINE o(h) == SeverityOrder(h.severity)
            v(h) == IF h.verified THEN 100 ELSE 0
            p(h) == IF h.poc THEN 5 ELSE 0
            q(h) == IF h.impact THEN 2 ELSE 0
<1>1. o(f) \in 1..5 /\ o(g) \in 1..5
  BY OrderIs DEF Fine
<1>2. v(f) = 100 /\ (~ g.verified => v(g) = 0)
  OBVIOUS
<1>3. p(f) \in 0..5 /\ p(g) \in 0..5 /\ q(f) \in 0..2 /\ q(g) \in 0..2 
      /\ v(f) \in Int /\ v(g) \in Int
  OBVIOUS
<1>4. /\ VulnScore(f) = ((o(f) * 10 + v(f)) + p(f)) + q(f)
      /\ VulnScore(g) = ((o(g) * 10 + v(g)) + p(g)) + q(g)
  BY DEF VulnScore
<1>. HIDE DEF o, v, p, q
<1>. SUFFICES ASSUME ~ g.verified PROVE FALSE
  OBVIOUS
<1>5. VulnScore(f) >= 110 /\ VulnScore(g) <= 57
  BY <1>1, <1>2, <1>3, <1>4
<1>. QED
  BY <1>4, <1>5, ScoresAreNumbers

(* enrichCVSSAndCWE.                                                        *)
LEMMA EnrichKeeps ==
  ASSUME NEW list, IsList(list), \A f \in ToSet(list) : Fine(f)
  PROVE  LET new == EnrichCVSS(list) IN
         /\ IsList(new) /\ Len(new) = Len(list)
         /\ \A i \in 1..Len(list) :
              /\ Fine(new[i])
              /\ \A x \in FindingFields \ {"cvss"} : new[i][x] = list[i][x]
<1>. DEFINE new == EnrichCVSS(list)
            n == Len(list)
<1>1. n \in Nat /\ ToSet(list) = {list[i] : i \in 1..n}
  BY ListIs
<1>2. new = [i \in 1..n |-> new[i]]
      /\ \A i \in 1..n : new[i] = IF list[i].cvss = 0
                                  THEN [list[i] EXCEPT !.cvss = ClassifyFinding(list[i]).cvss]
                                  ELSE list[i]
  BY DEF EnrichCVSS
<1>. HIDE DEF new, n
<1>3. IsList(new) /\ Len(new) = n
  BY <1>1, <1>2, Indexed
<1>4. ASSUME NEW i \in 1..n
      PROVE  Fine(new[i]) /\ \A x \in FindingFields \ {"cvss"} : new[i][x] = list[i][x]
  <2>. DEFINE f == list[i]
              g == new[i]
              c == ClassifyFinding(f).cvss
  <2>1. Fine(f) /\ c \in 0..100
    BY <1>1, RatingIs
  <2>2. g = IF f.cvss = 0 THEN [f EXCEPT !.cvss = c] ELSE f
    BY <1>2
  <2>. HIDE DEF f, g, c
  <2>3. CASE f.cvss = 0
    <3>1. g = [f EXCEPT !.cvss = c]
      BY <2>2, <2>3
    <3>2. DOMAIN g = FindingFields /\ \A x \in FindingFields \ {"cvss"} : g[x] = f[x]
      BY <2>1, <3>1 DEF Fine
    <3>3. g.cvss = c
      BY <2>1, <3>1 DEF Fine, FindingFields
    <3>4. \A x \in {"type", "title", "at", "line", "severity", "verified", "status",
                    "advice"} : g[x] = f[x]
      BY <3>2 DEF FindingFields
    <3>5. Fine(g)
      BY <2>1, <3>2, <3>3, <3>4 DEF Fine
    <3>. QED
      BY <3>2, <3>5 DEF f, g
  <2>4. CASE f.cvss # 0
    BY <2>1, <2>2, <2>4 DEF f, g
  <2>. QED
    BY <2>3, <2>4
<1>. QED
  BY <1>3, <1>4 DEF new, n

(* Steps read back from the database are as good as live ones.              *)
LEMMA StoredIsTranscript ==
  ASSUME NEW steps, Transcript(steps), OneLogin(steps)
  PROVE  Transcript(Stored(steps)) /\ OneLogin(Stored(steps))
<1>. DEFINE new == Stored(steps)
            n == Len(steps)
<1>1. n \in Nat /\ ToSet(steps) = {steps[i] : i \in 1..n}
  BY ListIs DEF Transcript
<1>2. new = [i \in 1..n |-> new[i]]
      /\ \A i \in 1..n : new[i] = [steps[i] EXCEPT !.numbers = "float"]
  BY DEF Stored
<1>. HIDE DEF new, n
<1>3. IsList(new) /\ ToSet(new) = {new[i] : i \in 1..n}
  BY <1>1, <1>2, Indexed, ListIs
<1>4. ASSUME NEW i \in 1..n
      PROVE  /\ StepAssumption(new[i])
             /\ new[i].tool = steps[i].tool /\ new[i].at = steps[i].at
  <2>. DEFINE s == steps[i]
              t == new[i]
  <2>1. StepAssumption(s)
    BY <1>1 DEF Transcript
  <2>2. t = [s EXCEPT !.numbers = "float"]
    BY <1>2
  <2>. HIDE DEF s, t
  <2>3. DOMAIN s = {"tool", "ran", "at", "qid", "method", "sent", "status", "numbers", "length",
                    "proved", "shown", "owners", "headers", "lands", "accepted", "lines",
                    "count", "raw"}
    BY <2>1 DEF StepAssumption, PlainStep
  <2>4. DOMAIN t = DOMAIN s /\ \A x \in DOMAIN s \ {"numbers"} : t[x] = s[x]
    BY <2>2
  <2>5. t.numbers = "float"
    BY <2>2, <2>3
  <2>6. \A x \in {"tool", "ran", "at", "status", "proved", "accepted", "lines", "raw"} :
          t[x] = s[x]
    BY <2>3, <2>4
  <2>7. /\ t.tool = s.tool /\ t.ran = s.ran /\ t.at = s.at /\ t.status = s.status
        /\ t.proved = s.proved /\ t.accepted = s.accepted /\ t.lines = s.lines
        /\ t.raw = s.raw
    BY <2>6
  <2>. QED
    BY <2>1, <2>4, <2>5, <2>7 DEF StepAssumption, s, t
<1>5. Transcript(new)
  BY <1>3, <1>4 DEF Transcript
<1>6. OneLogin(new)
  BY <1>1, <1>3, <1>4 DEF OneLogin
<1>. QED
  BY <1>5, <1>6 DEF new

(* The merged list of a dynamic scan.                                       *)
LEMMA DynamicRead ==
  ASSUME NEW steps, NEW found, Credits(steps, found), NEW claims, Answer(claims)
  PROVE  LET claimed == ValidateAgentFindings(ClaimedFindings(claims), steps)
             list == MergeDynamic(found, claimed)
         IN /\ Credits(steps, claimed) /\ Credits(steps, list) /\ Unique(list)
            /\ \A f \in ToSet(found) \cup ToSet(claimed) : Covers(list, f)
<1>. DEFINE claimed == ValidateAgentFindings(ClaimedFindings(claims), steps)
            list == MergeDynamic(found, claimed)
<1>1. Credits(steps, claimed)
  BY ClaimsAreFine, ValidatedIsCredible
<1>. HIDE DEF claimed
<1>2. IsList(found) /\ IsList(claimed)
  BY <1>1 DEF Credits
<1>3. /\ IsList(list) /\ Unique(list)
      /\ ToSet(list) \subseteq ToSet(found) \cup ToSet(claimed)
      /\ \A f \in ToSet(found) \cup ToSet(claimed) : Covers(list, f)
  BY <1>2, DynamicMerge
<1>4. Credits(steps, list)
  BY <1>1, <1>3 DEF Credits
<1>. QED
  BY <1>1, <1>3, <1>4 DEF claimed

(* enrichCVSS moves no finding to another class and makes none worth less.  *)
LEMMA DynamicRated ==
  ASSUME NEW steps, NEW list, Credits(steps, list)
  PROVE  LET new == EnrichCVSS(list) IN
         /\ Credits(steps, new) /\ Len(new) = Len(list)
         /\ Unique(list) => Unique(new)
         /\ \A f : Covers(list, f) => Covers(new, f)
<1>. DEFINE new == EnrichCVSS(list)
            n == Len(list)
<1>1. IsList(list) /\ \A f \in ToSet(list) : Credible(steps, f) /\ Fine(f)
  BY DEF Credits, Credible
<1>2. /\ IsList(new) /\ Len(new) = n
      /\ \A i \in 1..n : /\ Fine(new[i])
                         /\ \A x \in FindingFields \ {"cvss"} : new[i][x] = list[i][x]
  BY <1>1, EnrichKeeps
<1>. HIDE DEF new
<1>3. /\ n \in Nat /\ ToSet(list) = {list[i] : i \in 1..n} /\ ToSet(new) = {new[i] : i \in 1..n}
  BY <1>1, <1>2, ListIs
<1>. HIDE DEF n
<1>4. \A i \in 1..n : /\ new[i].type = list[i].type /\ new[i].at = list[i].at
                      /\ new[i].severity = list[i].severity /\ new[i].status = list[i].status
                      /\ new[i].verified = list[i].verified /\ new[i].poc = list[i].poc
                      /\ new[i].impact = list[i].impact
  BY <1>2 DEF FindingFields
<1>5. \A i \in 1..n : MergeKey(new[i]) = MergeKey(list[i])
  BY <1>4 DEF MergeKey
<1>6. \A i \in 1..n : VulnScore(new[i]) = VulnScore(list[i])
  BY <1>4 DEF VulnScore
<1>7. Credits(steps, new)
  BY <1>1, <1>2, <1>3, <1>4 DEF Credits, Credible
<1>8. Unique(list) => Unique(new)
  BY <1>2, <1>5 DEF Unique, n
<1>9. ASSUME NEW f, Covers(list, f) PROVE Covers(new, f)
  BY <1>3, <1>5, <1>6, <1>9 DEF Covers
<1>. QED
  BY <1>2, <1>7, <1>8, <1>9 DEF new, n

(* What a proof is listed as.                                               *)
LEMMA KeysOfProofs ==
  ASSUME NEW f
  PROVE  /\ f.type = "SQL_Injection" =>
              MergeKey(f) = <<"sql_injection", NormalizeLocation(f.at)>>
         /\ f.type \in {"Unrestricted_File_Upload", "Remote_Code_Execution"} =>
              MergeKey(f) = <<"rce", NoLocation>>
         /\ f.type = "Default_Credentials" =>
              MergeKey(f) = <<"default_credentials", NormalizeLocation(f.at)>>
         /\ f.type = "Insecure_Direct_Object_Reference" =>
              MergeKey(f)[1] = "broken_access_control"
BY ProofClasses DEF MergeKey

(* What is proved among the detectors' findings is validated in a list      *)
(* that covers them.                                                        *)
LEMMA ProvenIsValidated ==
  ASSUME NEW steps, NEW found, NEW list, Credits(steps, found), Credits(steps, list),
         \A f \in ToSet(found) : Covers(list, f),
         NEW types, NEW at, Proven(found, types, at)
  PROVE  \E f \in ToSet(found), g \in ToSet(list) :
           /\ f.type \in types /\ f.at = at
           /\ g.status = "validated" /\ MergeKey(g) = MergeKey(f)
<1>1. PICK f \in ToSet(found) : f.verified /\ f.type \in types /\ f.at = at
  BY DEF Proven
<1>2. PICK g \in ToSet(list) : MergeKey(g) = MergeKey(f) /\ VulnScore(g) >= VulnScore(f)
  BY <1>1 DEF Covers
<1>3. Fine(f) /\ Fine(g) /\ Credible(steps, g)
  BY DEF Credits, Credible
<1>4. g.verified
  BY <1>1, <1>2, <1>3, ProofsOutweigh
<1>5. g.status = "validated"
  BY <1>3, <1>4 DEF Credible
<1>. QED
  BY <1>1, <1>2, <1>5

(* ProofReachesTheReport of a list.                                         *)
LEMMA ProofsAreListed ==
  ASSUME NEW steps, NEW found, NEW list, Credits(steps, found), Credits(steps, list),
         Proves(steps, found), \A f \in ToSet(found) : Covers(list, f)
  PROVE  /\ \A p \in ProofsIn(steps) :
              \E f \in ToSet(list) : /\ f.status = "validated"
                                     /\ MergeKey(f) = <<p.class, p.at>>
         /\ (\E i, j \in LastReads(steps) : OtherOwner(steps[i], steps[j])) =>
              \E f \in ToSet(list) :
                f.status = "validated" /\ MergeKey(f)[1] = "broken_access_control"
<1>1. ASSUME NEW p \in ProofsIn(steps)
      PROVE  \E g \in ToSet(list) : g.status = "validated" /\ MergeKey(g) = <<p.class, p.at>>
  <2>1. CASE \E s \in ToSet(steps) : /\ s.tool = "http_request" /\ s.ran /\ s.proved
                                     /\ p = Proof("sql_injection", NormalizeLocation(s.at))
    <3>1. PICK s \in ToSet(steps) : /\ s.tool = "http_request" /\ s.ran /\ s.proved
                                    /\ p = Proof("sql_injection", NormalizeLocation(s.at))
      BY <2>1
    <3>2. Proven(found, {"SQL_Injection"}, s.at)
      BY <3>1 DEF Proves
    <3>3. PICK f \in ToSet(found), g \in ToSet(list) :
            /\ f.type \in {"SQL_Injection"} /\ f.at = s.at
            /\ g.status = "validated" /\ MergeKey(g) = MergeKey(f)
      BY <3>2, ProvenIsValidated
    <3>4. MergeKey(f) = <<"sql_injection", NormalizeLocation(s.at)>>
      BY <3>3, KeysOfProofs
    <3>. QED
      BY <3>1, <3>3, <3>4 DEF Proof
  <2>2. CASE \E s \in ToSet(steps) : /\ s.ran /\ "command_output" \in s.shown
                                     /\ p = Proof("rce", NoLocation)
    <3>1. PICK at : Proven(found, {"Unrestricted_File_Upload", "Remote_Code_Execution"}, at)
      BY <2>2 DEF Proves
    <3>2. PICK f \in ToSet(found), g \in ToSet(list) :
            /\ f.type \in {"Unrestricted_File_Upload", "Remote_Code_Execution"}
            /\ g.status = "validated" /\ MergeKey(g) = MergeKey(f)
      BY <3>1, ProvenIsValidated
    <3>3. MergeKey(f) = <<"rce", NoLocation>>
      BY <3>2, KeysOfProofs
    <3>. QED
      BY <2>2, <3>2, <3>3 DEF Proof
  <2>3. CASE \E s \in ToSet(steps) :
               /\ s.tool = "default_cred_login" /\ s.ran /\ s.accepted
               /\ p = Proof("default_credentials", NormalizeLocation(s.at))
    <3>1. PICK s \in ToSet(steps) :
            /\ s.tool = "default_cred_login" /\ s.ran /\ s.accepted
            /\ p = Proof("default_credentials", NormalizeLocation(s.at))
      BY <2>3
    <3>2. Proven(found, {"Default_Credentials"}, s.at)
      BY <3>1 DEF Proves
    <3>3. PICK f \in ToSet(found), g \in ToSet(list) :
            /\ f.type \in {"Default_Credentials"} /\ f.at = s.at
            /\ g.status = "validated" /\ MergeKey(g) = MergeKey(f)
      BY <3>2, ProvenIsValidated
    <3>4. MergeKey(f) = <<"default_credentials", NormalizeLocation(s.at)>>
      BY <3>3, KeysOfProofs
    <3>. QED
      BY <3>1, <3>3, <3>4 DEF Proof
  <2>. QED
    BY <2>1, <2>2, <2>3 DEF ProofsIn
<1>2. ASSUME \E i, j \in LastReads(steps) : OtherOwner(steps[i], steps[j])
      PROVE  \E g \in ToSet(list) :
               g.status = "validated" /\ MergeKey(g)[1] = "broken_access_control"
  <2>1. PICK at : Proven(found, {"Insecure_Direct_Object_Reference"}, at)
    BY <1>2 DEF Proves
  <2>2. PICK f \in ToSet(found), g \in ToSet(list) :
          /\ f.type \in {"Insecure_Direct_Object_Reference"}
          /\ g.status = "validated" /\ MergeKey(g) = MergeKey(f)
    BY <2>1, ProvenIsValidated
  <2>3. MergeKey(f)[1] = "broken_access_control"
    BY <2>2, KeysOfProofs
  <2>. QED
    BY <2>2, <2>3
<1>. QED
  BY <1>1, <1>2

-----------------------------------------------------------------------------
(* The findings of a static scan.                                          *)

RawFinding(f) == Fine(f) /\ f.type # Blank /\ f.advice \in {"own", "generic"}

RawFindings(list) == IsList(list) /\ \A f \in ToSet(list) : RawFinding(f)

(* The blank finding carries a truth value.                                 *)
LEMMA NotVerified == Finding.verified \in BOOLEAN
BY Zenon DEF Finding

(* The title of a static rule is a known label.                             *)
LEMMA TitlesAreLabels ==
  ASSUME NEW rule \in Labels
  PROVE  StaticFindingTitle(rule) \in Labels
<1>. DEFINE R == StaticTitleRules
            Good(c) == c \in Labels
            rest == IF rule = Blank THEN "Static_Analysis_Finding" ELSE rule
<1>1. /\ DOMAIN R = 1..15
      /\ R[1].class = "Possible_SQL_Injection"
      /\ R[2].class = "Possible_Cross-Site_Scripting"
      /\ R[3].class = "Possible_Server-Side_Request_Forgery"
      /\ R[4].class = "Possible_Open_Redirect"
      /\ R[5].class = "Missing_CSRF_Protection"
      /\ R[6].class = "Unrestricted_File_Upload"
      /\ R[7].class = "Possible_Command_Injection"
      /\ R[8].class = "Insecure_Deserialization"
      /\ R[9].class = "Possible_Code_Injection"
      /\ R[10].class = "Possible_Path_Traversal"
      /\ R[11].class = "Hardcoded_Secret"
      /\ R[12].class = "Debug_Mode_Enabled"
      /\ R[13].class = "Verbose_Error_Reporting_Enabled"
      /\ R[14].class = "Information_Disclosure"
      /\ R[15].class = "Insecure_Cookie_Configuration"
  BY DEF StaticTitleRules
<1>2. /\ Good("Possible_SQL_Injection")
      /\ Good("Possible_Cross-Site_Scripting")
      /\ Good("Possible_Server-Side_Request_Forgery")
      /\ Good("Possible_Open_Redirect")
      /\ Good("Missing_CSRF_Protection")
      /\ Good("Unrestricted_File_Upload")
      /\ Good("Possible_Command_Injection")
      /\ Good("Insecure_Deserialization")
      /\ Good("Possible_Code_Injection")
      /\ Good("Possible_Path_Traversal")
      /\ Good("Hardcoded_Secret")
      /\ Good("Debug_Mode_Enabled")
      /\ Good("Verbose_Error_Reporting_Enabled")
      /\ Good("Information_Disclosure")
      /\ Good("Insecure_Cookie_Configuration")
      /\ Good("Static_Analysis_Finding")
  BY OwnLabelsKnown DEF OwnLabels
<1>3. Good(rest)
  BY <1>2
<1>. HIDE DEF R, Good, rest
<1>4. ASSUME NEW k \in 1..15 PROVE Good(R[k].class)
  <2>1. k \in {1, 2, 3, 4, 5, 6, 7, 8, 9, 10, 11, 12, 13, 14, 15}
    OBVIOUS
  <2>. QED
    BY <1>1, <1>2, <2>1
<1>5. Good(FirstRule(R, rule, rest))
  BY <1>1, <1>3, <1>4, SomeClass
<1>. QED
  BY <1>5 DEF StaticFindingTitle, R, Good, rest

(* Each scanner's record becomes a finding of a known type.                 *)
LEMMA StaticFindingIsRaw ==
  ASSUME NEW s, StepAssumption(s), NEW r \in ToSet(s.raw), s.tool \in StaticDetectors
  PROVE  RawFinding(StaticFinding(s.tool, r))
<1>0. /\ s.tool = "semgrep_scan" => r.line \in Int /\ r.rule \in Labels
      /\ s.tool = "gitleaks_scan" => r.line \in Int /\ r.exposure \in BOOLEAN
      /\ s.tool = "osv_scan" => r.score \in -1..100
  BY DEF StepAssumption
<1>. DEFINE f == StaticFinding(s.tool, r)
            yes == TRUE
<1>1. /\ "SAST" # Blank /\ "Sensitive_Data_Exposure" # Blank /\ "Secret_Exposure" # Blank
      /\ "Vulnerable_Dependency" # Blank
  BY Zenon DEF Blank
<1>2. /\ "SAST" \in Labels /\ "Sensitive_Data_Exposure" \in Labels
      /\ "Secret_Exposure" \in Labels /\ "Vulnerable_Dependency" \in Labels
      /\ "Hardcoded_Secret" \in Labels /\ "Exposed_Sensitive_File" \in Labels
  BY OwnLabelsKnown DEF OwnLabels
<1>3. CASE s.tool = "semgrep_scan"
  <2>. DEFINE t == StaticFindingTitle(r.rule)
              v == MapSemgrepSeverity(r.level)
  <2>1. f = [Finding EXCEPT !.type = "SAST", !.title = t,
                         !.at = r.file, !.line = r.line, !.start = r.line,
                         !.severity = v, !.said = r.said, !.advice = "generic"]
    BY <1>3 DEF StaticFinding
  <2>2. t \in Labels /\ v \in Severities /\ r.line \in Int
    BY <1>0, <1>3, TitlesAreLabels DEF MapSemgrepSeverity, Severities
  <2>. HIDE DEF f, t, v
  <2>3. /\ DOMAIN f = FindingFields /\ f.type = "SAST" /\ f.title = t /\ f.line = r.line
        /\ f.severity = v /\ f.status = "none" /\ f.cvss = 0 /\ f.advice = "generic"
    BY <2>1, FindingIs DEF FindingFields
  <2>4. f.verified \in BOOLEAN
    <3>1. f.verified = Finding.verified
      BY <2>1, FindingIs DEF FindingFields
    <3>. QED
      BY <3>1, NotVerified
  <2>. QED
    BY <1>1, <1>2, <2>2, <2>3, <2>4 DEF RawFinding, Fine, f
<1>4. CASE s.tool = "gitleaks_scan" /\ r.exposure
  <2>1. f = [Finding EXCEPT !.type = "Sensitive_Data_Exposure",
                         !.title = "Exposed_Sensitive_File", !.at = r.file,
                         !.start = r.line, !.severity = "critical", !.verified = yes, !.said = r.said]
    BY <1>4 DEF StaticFinding
  <2>. HIDE DEF f, yes
  <2>3. /\ DOMAIN f = FindingFields /\ f.type = "Sensitive_Data_Exposure"
        /\ f.title = "Exposed_Sensitive_File" /\ f.line = -1
        /\ f.severity = "critical" /\ f.status = "none" /\ f.cvss = 0 /\ f.advice = "own"
    BY <2>1, FindingIs DEF FindingFields
  <2>4. f.verified \in BOOLEAN
    <3>1. f.verified = yes
      BY <2>1, FindingIs DEF FindingFields
    <3>. QED
      BY <3>1 DEF yes
  <2>. QED
    BY <1>1, <1>2, <2>3, <2>4 DEF RawFinding, Fine, f, Severities
<1>5. CASE s.tool = "gitleaks_scan" /\ ~ r.exposure
  <2>1. f = [Finding EXCEPT !.type = "Secret_Exposure", !.title = "Hardcoded_Secret",
                         !.at = r.file, !.line = r.line, !.start = r.line,
                         !.severity = "high", !.verified = yes, !.said = r.said]
    BY <1>5 DEF StaticFinding
  <2>2. r.line \in Int
    BY <1>0, <1>5
  <2>. HIDE DEF f, yes
  <2>3. /\ DOMAIN f = FindingFields /\ f.type = "Secret_Exposure"
        /\ f.title = "Hardcoded_Secret" /\ f.line = r.line
        /\ f.severity = "high" /\ f.status = "none" /\ f.cvss = 0 /\ f.advice = "own"
    BY <2>1, FindingIs DEF FindingFields
  <2>4. f.verified \in BOOLEAN
    <3>1. f.verified = yes
      BY <2>1, FindingIs DEF FindingFields
    <3>. QED
      BY <3>1 DEF yes
  <2>. QED
    BY <1>1, <1>2, <2>2, <2>3, <2>4 DEF RawFinding, Fine, f, Severities
<1>6. CASE s.tool = "osv_scan"
  <2>. DEFINE v == MapOSVSeverity(r.score)
              c == IF r.score > 0 THEN r.score ELSE 0
  <2>1. f = [Finding EXCEPT !.type = "Vulnerable_Dependency",
                         !.title = "Vulnerable_Dependency", !.at = r.file,
                         !.severity = v, !.cvss = c]
    BY <1>6 DEF StaticFinding
  <2>2. v \in Severities /\ c \in 0..100
    BY <1>0, <1>6 DEF MapOSVSeverity, Severities
  <2>. HIDE DEF f, v, c
  <2>3. /\ DOMAIN f = FindingFields /\ f.type = "Vulnerable_Dependency"
        /\ f.title = "Vulnerable_Dependency" /\ f.line = -1
        /\ f.severity = v /\ f.status = "none" /\ f.cvss = c /\ f.advice = "own"
    BY <2>1, FindingIs DEF FindingFields
  <2>4. f.verified \in BOOLEAN
    <3>1. f.verified = Finding.verified
      BY <2>1, FindingIs DEF FindingFields
    <3>. QED
      BY <3>1, NotVerified
  <2>. QED
    BY <1>1, <1>2, <2>2, <2>3, <2>4 DEF RawFinding, Fine, f
<1>. QED
  BY <1>0, <1>3, <1>4, <1>5, <1>6 DEF StaticDetectors

(* extractStaticVulnsFromSteps.                                             *)
LEMMA ExtractedAreRaw ==
  ASSUME NEW steps, Transcript(steps)
  PROVE  RawFindings(ExtractStatic(steps))
<1>. DEFINE findings(s) == IF s.tool \in StaticDetectors /\ s.ran
                           THEN [i \in 1..Len(s.raw) |-> StaticFinding(s.tool, s.raw[i])]
                           ELSE <<>>
            F == [i \in 1..Len(steps) |-> findings(steps[i])]
<1>1. ExtractStatic(steps) = FlattenSeq(F)
  BY DEF ExtractStatic
<1>2. /\ IsList(steps) /\ Len(steps) \in Nat
      /\ \A i \in 1..Len(steps) : steps[i] \in ToSet(steps)
      /\ \A s \in ToSet(steps) : StepAssumption(s)
  BY ListIs DEF Transcript
<1>3. ASSUME NEW s \in ToSet(steps) PROVE RawFindings(findings(s))
  <2>1. CASE s.tool \in StaticDetectors /\ s.ran
    <3>. DEFINE L == [i \in 1..Len(s.raw) |-> StaticFinding(s.tool, s.raw[i])]
    <3>1. findings(s) = L
      BY <2>1
    <3>2. StepAssumption(s) /\ IsList(s.raw)
      BY <1>2 DEF StepAssumption
    <3>3. Len(s.raw) \in Nat /\ \A i \in 1..Len(s.raw) : s.raw[i] \in ToSet(s.raw)
      BY <3>2, ListIs
    <3>4. L = [i \in 1..Len(s.raw) |-> L[i]]
          /\ \A i \in 1..Len(s.raw) : RawFinding(L[i])
      BY <2>1, <3>2, <3>3, StaticFindingIsRaw
    <3>. HIDE DEF L
    <3>5. IsList(L) /\ ToSet(L) = {L[i] : i \in 1..Len(s.raw)}
      BY <3>3, <3>4, Indexed, ListIs
    <3>. QED
      BY <3>1, <3>4, <3>5 DEF RawFindings
  <2>2. CASE ~ (s.tool \in StaticDetectors /\ s.ran)
    BY <2>2, Singles DEF RawFindings
  <2>. QED
    BY <2>1, <2>2
<1>. HIDE DEF findings
<1>4. F = [i \in 1..Len(steps) |-> F[i]] /\ \A i \in 1..Len(steps) : RawFindings(F[i])
  BY <1>2, <1>3
<1>. HIDE DEF F
<1>5. \A i \in 1..Len(steps) : IsList(F[i])
  BY <1>4 DEF RawFindings
<1>6. /\ IsList(FlattenSeq(F))
      /\ ToSet(FlattenSeq(F)) = UNION {ToSet(F[i]) : i \in 1..Len(steps)}
  BY <1>2, <1>4, <1>5, Flattened
<1>7. RawFindings(FlattenSeq(F))
  BY <1>4, <1>6 DEF RawFindings
<1>. QED
  BY <1>1, <1>7

(* extractAgentStaticFindings.                                              *)
LEMMA ReadAreRaw ==
  ASSUME NEW claims, Answer(claims)
  PROVE  /\ RawFindings(ReadFindings(claims))
         /\ \A f \in ToSet(ReadFindings(claims)) : f.advice = "own"
<1>. DEFINE or(a, b) == IF a = Blank THEN b ELSE a
            Fits(c) == c.title # Blank \/ c.type # Blank
            yes == TRUE
            F == [i \in 1..Len(claims) |-> IF Fits(claims[i]) THEN <<claims[i]>> ELSE <<>>]
            named == FlattenSeq(F)
            line(c) == IF c.line > 0 THEN c.line ELSE NoLine
            made(c) == [Finding EXCEPT !.type = or(c.type, "SAST"), !.title = or(c.title, c.type),
                        !.at = c.at, !.line = line(c),
                        !.start = IF c.at = NoLocation THEN 0 ELSE c.line,
                        !.severity = MapNarrativeSeverity(c.severity),
                        !.verified = yes, !.impact = c.impact, !.said = c.said]
            list == [i \in 1..Len(named) |-> made(named[i])]
<1>1. ReadFindings(claims) = list
  BY DEF ReadFindings, Where
<1>2. IsList(named) /\ ToSet(named) \subseteq ToSet(claims)
  <2>1. F = [i \in 1..Len(claims) |-> F[i]]
        /\ \A i \in 1..Len(claims) : F[i] \in {<<>>, <<claims[i]>>}
    <3>. HIDE DEF Fits
    <3>. QED
      OBVIOUS
  <2>. HIDE DEF F
  <2>. QED
    BY <2>1, Picks DEF Answer
<1>. HIDE DEF named
<1>3. Len(named) \in Nat /\ \A i \in 1..Len(named) : named[i] \in ToSet(claims)
  BY <1>2, ListIs
<1>4. ASSUME NEW c \in ToSet(claims) PROVE RawFinding(made(c)) /\ made(c).advice = "own"
  <2>1. /\ or(c.type, "SAST") \in Labels /\ or(c.title, c.type) \in Labels
        /\ or(c.type, "SAST") # Blank
    <3>1. "SAST" \in Labels
      BY OwnLabelsKnown DEF OwnLabels
    <3>2. "SAST" # Blank
      BY Zenon DEF Blank
    <3>. QED
      BY <3>1, <3>2 DEF Answer
  <2>2. line(c) \in Int
    BY DEF Answer, NoLine
  <2>. HIDE DEF or, line, yes
  <2>3. MapNarrativeSeverity(c.severity) \in Severities
    BY SeverityIs
  <2>. DEFINE f == made(c)
  <2>4. /\ DOMAIN f = FindingFields /\ f.line = line(c)
        /\ f.severity = MapNarrativeSeverity(c.severity)
        /\ f.status = "none" /\ f.cvss = 0 /\ f.advice = "own"
        /\ f.type = or(c.type, "SAST") /\ f.title = or(c.title, c.type)
    BY FindingIs DEF FindingFields
  <2>5. f.verified \in BOOLEAN
    <3>1. f.verified = yes
      BY FindingIs DEF FindingFields
    <3>. QED
      BY <3>1 DEF yes
  <2>. HIDE DEF f
  <2>6. RawFinding(f) /\ f.advice = "own"
    BY <2>1, <2>2, <2>3, <2>4, <2>5 DEF RawFinding, Fine
  <2>. QED
    BY <2>6 DEF f
<1>. HIDE DEF made
<1>5. list = [i \in 1..Len(named) |-> list[i]]
      /\ \A i \in 1..Len(named) : RawFinding(list[i]) /\ list[i].advice = "own"
  BY <1>3, <1>4
<1>. HIDE DEF list
<1>6. IsList(list) /\ Len(list) = Len(named)
  BY <1>3, <1>5, Indexed
<1>7. ToSet(list) = {list[i] : i \in 1..Len(named)}
  BY <1>6, ListIs
<1>. QED
  BY <1>1, <1>5, <1>6, <1>7 DEF RawFindings

(* The list stands for f: StaticFindingsSurvive of one finding.             *)
Listed(list, f) == \E g \in ToSet(list) : StaticKey(g) = StaticKey(f)

Survives(list, all, f) ==
  ~ FileLevel(f) =>
    IF IsGeneric(f)
    THEN \/ \E g \in ToSet(list) : Near(f, g)
         \/ \E g \in all : FileLevel(g) /\ g.at = f.at
    ELSE Listed(list, f)

(* What a merge has made of the findings seen so far.                       *)
Handled(acc, classified, f) ==
  ~ FileLevel(f) =>
    \/ Listed(acc.list, f)
    \/ IsGeneric(f) /\ \E g \in classified : Near(f, g)
    \/ IsGeneric(f) /\ \E g \in ToSet(acc.list) : Near(f, g)

Merging(acc, classified, seen) ==
  /\ DOMAIN acc = {"list", "files", "generic"}
  /\ IsList(acc.list) /\ ToSet(acc.list) \subseteq seen
  /\ \A g \in acc.generic : Listed(acc.list, g)
  /\ \A f \in seen : Handled(acc, classified, f)

(* A finding that is kept, alone at its line or with one it replaces.       *)
LEMMA MergesKept ==
  ASSUME NEW acc, NEW classified, NEW seen, NEW f,
         DOMAIN acc = {"list", "files", "generic"}, IsList(acc.list),
         ToSet(acc.list) \subseteq seen,
         \A g \in acc.generic : g = f \/ Listed(acc.list, g),
         \A h \in seen : Handled(acc, classified, h)
  PROVE  Merging(AddKept(acc, f), classified, seen \cup {f})
<1>. DEFINE new == AddKept(acc, f)
<1>1. CASE Listed(acc.list, f)
  <2>1. new = acc
    BY <1>1 DEF AddKept, Listed
  <2>2. Handled(acc, classified, f)
    BY <1>1 DEF Handled
  <2>. QED
    BY <1>1, <2>1, <2>2 DEF Merging
<1>2. CASE ~ Listed(acc.list, f)
  <2>. DEFINE l == Append(acc.list, f)
  <2>1. new = [acc EXCEPT !.list = l]
    BY <1>2 DEF AddKept, Listed
  <2>2. l = acc.list \o <<f>>
    <3>. DEFINE S == ToSet(acc.list)
    <3>1. acc.list \in Seq(S)
      BY DEF IsList
    <3>. HIDE DEF S
    <3>2. acc.list \in Seq(S \cup {f}) /\ f \in S \cup {f}
      BY <3>1
    <3>. QED
      BY <3>2
  <2>. HIDE DEF l
  <2>3. IsList(l) /\ ToSet(l) = ToSet(acc.list) \cup {f}
    BY <2>2, Joined, Single
  <2>4. /\ DOMAIN new = {"list", "files", "generic"} /\ new.list = l
        /\ new.generic = acc.generic
    BY <2>1
  <2>. HIDE DEF new
  <2>5. \A h : Listed(acc.list, h) => Listed(l, h)
    BY <2>3 DEF Listed
  <2>6. Listed(l, f)
    BY <2>3 DEF Listed
  <2>7. \A h \in seen : Handled(new, classified, h)
    BY <2>3, <2>4, <2>5 DEF Handled
  <2>8. Handled(new, classified, f)
    BY <2>4, <2>6 DEF Handled
  <2>9. \A g \in new.generic : Listed(new.list, g)
    BY <2>4, <2>5, <2>6
  <2>10. Merging(new, classified, seen \cup {f})
    BY <2>3, <2>4, <2>7, <2>8, <2>9 DEF Merging
  <2>. QED
    BY <2>10 DEF new
<1>. QED
  BY <1>1, <1>2

(* A finding brought to its file, unless a classified one is near.          *)
LEMMA MergesToFile ==
  ASSUME NEW acc, NEW classified, NEW seen, NEW f, Merging(acc, classified, seen)
  PROVE  Merging(AddToFile(acc, f, classified), classified, seen \cup {f})
<1>. DEFINE new == AddToFile(acc, f, classified)
<1>1. CASE Superseded(f, classified \cup acc.generic)
  <2>1. new = acc
    BY <1>1 DEF AddToFile
  <2>2. PICK g \in classified \cup acc.generic : IsGeneric(f) /\ Near(f, g)
    BY <1>1 DEF Superseded
  <2>3. Handled(acc, classified, f)
    <3>1. CASE g \in classified
      BY <2>2, <3>1 DEF Handled
    <3>2. CASE g \in acc.generic
      <4>1. PICK h \in ToSet(acc.list) : StaticKey(h) = StaticKey(g)
        BY <3>2 DEF Merging, Listed
      <4>2. h.at = g.at /\ h.line = g.line
        BY <4>1 DEF StaticKey
      <4>3. Near(f, h)
        BY <2>2, <4>2 DEF Near
      <4>. QED
        BY <2>2, <4>1, <4>3 DEF Handled
    <3>. QED
      BY <3>1, <3>2
  <2>. QED
    BY <2>1, <2>3 DEF Merging
<1>2. CASE ~ Superseded(f, classified \cup acc.generic)
  <2>. DEFINE more == acc.generic \cup {g \in {f} : IsGeneric(g) /\ HasLine(g)}
              mid == [acc EXCEPT !.generic = more]
  <2>1. new = AddKept(mid, f)
    BY <1>2 DEF AddToFile
  <2>2. \A g \in more : g = f \/ g \in acc.generic
    OBVIOUS
  <2>. HIDE DEF more
  <2>3. /\ DOMAIN mid = {"list", "files", "generic"} /\ mid.list = acc.list
        /\ mid.generic = more
    BY DEF Merging
  <2>. HIDE DEF mid
  <2>4. \A h \in seen : Handled(mid, classified, h)
    BY <2>3 DEF Merging, Handled
  <2>5. \A g \in mid.generic : g = f \/ Listed(mid.list, g)
    BY <2>2, <2>3 DEF Merging
  <2>6. IsList(mid.list) /\ ToSet(mid.list) \subseteq seen
    BY <2>3 DEF Merging
  <2>. QED
    BY <2>1, <2>3, <2>4, <2>5, <2>6, MergesKept
<1>. QED
  BY <1>1, <1>2

(* Any finding; one of a whole file stands for the others in it.            *)
LEMMA MergesStatic ==
  ASSUME NEW acc, NEW classified, NEW seen, NEW f, Merging(acc, classified, seen)
  PROVE  Merging(AddStatic(acc, f, classified), classified, seen \cup {f})
<1>1. CASE ~ FileLevel(f)
  BY <1>1, MergesToFile DEF AddStatic
<1>2. CASE FileLevel(f) /\ f.at \in acc.files
  <2>1. AddStatic(acc, f, classified) = acc /\ Handled(acc, classified, f)
    BY <1>2 DEF AddStatic, Handled
  <2>. QED
    BY <2>1 DEF Merging
<1>3. CASE FileLevel(f) /\ f.at \notin acc.files
  <2>. DEFINE more == acc.files \cup {f.at}
              mid == [acc EXCEPT !.files = more]
  <2>1. AddStatic(acc, f, classified) = AddToFile(mid, f, classified)
    BY <1>3 DEF AddStatic
  <2>. HIDE DEF more
  <2>2. /\ DOMAIN mid = {"list", "files", "generic"} /\ mid.list = acc.list
        /\ mid.generic = acc.generic
    BY DEF Merging
  <2>. HIDE DEF mid
  <2>3. Merging(mid, classified, seen)
    BY <2>2 DEF Merging, Handled
  <2>. QED
    BY <2>1, <2>3, MergesToFile
<1>. QED
  BY <1>1, <1>2, <1>3

(* mergeStaticVulns.                                                        *)
LEMMA StaticMerge ==
  ASSUME NEW detector, NEW agent, RawFindings(detector), RawFindings(agent)
  PROVE  LET list == MergeStatic(detector, agent)
             both == ToSet(detector) \cup ToSet(agent)
         IN /\ IsList(list) /\ ToSet(list) \subseteq both
            /\ \A f \in both : Survives(list, both, f)
<1>. DEFINE all == detector \o agent
            N == Len(all)
            both == ToSet(detector) \cup ToSet(agent)
            classified == {f \in ToSet(all) : ~ IsGeneric(f) /\ HasLine(f)}
            Next1(g, i) == IF i = 0 THEN EmptyMerge ELSE AddStatic(g[i - 1], all[i], classified)
            IsFun(m, g) == g = [i \in 0..m |-> g[i]] /\ \A i \in 0..m : g[i] = Next1(g, i)
            Bad == {m \in Nat : ~ \E g : IsFun(m, g)}
<1>1. /\ N \in Nat /\ ToSet(all) = both /\ ToSet(all) = {all[i] : i \in 1..N}
      /\ \A f \in both : Fine(f)
  <2>1. IsList(all) /\ ToSet(all) = both
    BY Joined DEF RawFindings
  <2>2. \A f \in both : Fine(f)
    BY DEF RawFindings, RawFinding
  <2>. HIDE DEF all
  <2>. QED
    BY <2>1, <2>2, ListIs
<1>0. \A g \in classified : g \in both /\ ~ IsGeneric(g)
  BY <1>1
<1>. HIDE DEF all, N, both, classified
<1>2. ASSUME NEW m \in Nat, NEW g, m # 0 => IsFun(m - 1, g)
      PROVE  \E h : IsFun(m, h)
  <2>. DEFINE h == [i \in 0..m |-> IF i = m THEN Next1(g, m) ELSE g[i]]
  <2>1. h = [i \in 0..m |-> h[i]]
    OBVIOUS
  <2>2. \A i \in 0..m : h[i] = IF i = m THEN Next1(g, m) ELSE g[i]
    OBVIOUS
  <2>3. ASSUME NEW i \in 0..m PROVE Next1(h, i) = Next1(g, i)
    <3>1. CASE i = 0
      BY <3>1
    <3>2. CASE i # 0
      <4>1. i - 1 \in 0..m /\ i - 1 # m
        BY <3>2
      <4>2. h[i - 1] = g[i - 1]
        BY <2>2, <4>1
      <4>. QED
        BY <4>2
    <3>. QED
      BY <3>1, <3>2
  <2>. HIDE DEF h, Next1
  <2>4. ASSUME NEW i \in 0..m PROVE h[i] = Next1(h, i)
    <3>1. CASE i = m
      BY <2>2, <2>3, <3>1
    <3>2. CASE i # m
      <4>1. i \in 0..m - 1 /\ m # 0
        BY <3>2
      <4>2. g[i] = Next1(g, i)
        BY <1>2, <4>1
      <4>. QED
        BY <2>2, <2>3, <3>2, <4>2
    <3>. QED
      BY <3>1, <3>2
  <2>5. IsFun(m, h)
    BY <2>1, <2>4
  <2>. HIDE DEF IsFun
  <2>. QED
    BY <2>5
<1>3. Bad = {}
  <2>. SUFFICES ASSUME Bad # {} PROVE FALSE
    OBVIOUS
  <2>1. Bad \in SUBSET Nat
    OBVIOUS
  <2>2. PICK m \in Bad : \A k \in Nat : k < m => k \notin Bad
    <3>. HIDE DEF Bad
    <3>. QED
      BY <2>1, LeastOf
  <2>. HIDE DEF IsFun
  <2>3. m \in Nat /\ ~ \E g : IsFun(m, g)
    OBVIOUS
  <2>4. m # 0 => m - 1 \in Nat /\ m - 1 < m
    BY <2>3
  <2>5. m # 0 => \E g : IsFun(m - 1, g)
    BY <2>2, <2>4
  <2>. QED
    BY <1>2, <2>3, <2>5
<1>4. PICK h : IsFun(N, h)
  <2>. HIDE DEF IsFun
  <2>. QED
    BY <1>1, <1>3
<1>. DEFINE Whole(g) == g = [n \in 0..N |-> IF n = 0 THEN EmptyMerge
                                            ELSE AddStatic(g[n - 1], all[n], classified)]
            Chosen == CHOOSE g : Whole(g)
<1>5. Whole(h)
  BY <1>4
<1>6. Whole(Chosen)
  <2>. HIDE DEF Whole
  <2>. QED
    BY <1>5
<1>7. MergeStatic(detector, agent) = Chosen[N].list
  BY DEF MergeStatic, all, N, classified
<1>8. \A i \in 0..N : Chosen[i] = IF i = 0 THEN EmptyMerge
                                  ELSE AddStatic(Chosen[i - 1], all[i], classified)
  <2>. HIDE DEF Chosen
  <2>. QED
    BY <1>6
<1>. HIDE DEF Chosen
<1>. DEFINE Right(i) == Merging(Chosen[i], classified, {all[j] : j \in 1..i})
            Wrong == {i \in 0..N : ~ Right(i)}
<1>9. ASSUME NEW i \in 0..N, i # 0 => Right(i - 1) PROVE Right(i)
  <2>1. CASE i = 0
    <3>1. Chosen[i] = EmptyMerge /\ {all[j] : j \in 1..i} = {}
      BY <1>1, <1>8, <2>1
    <3>2. Merging(EmptyMerge, classified, {})
      BY Singles DEF Merging, EmptyMerge
    <3>. QED
      BY <3>1, <3>2
  <2>2. CASE i # 0
    <3>1. i \in Nat /\ Chosen[i] = AddStatic(Chosen[i - 1], all[i], classified)
      BY <1>1, <1>8, <2>2
    <3>2. Right(i - 1)
      BY <1>9, <2>2
    <3>3. {all[j] : j \in 1..i} = {all[j] : j \in 1..(i - 1)} \cup {all[i]}
      <4>1. \A j : j \in 1..i <=> j \in 1..(i - 1) \/ j = i
        BY <2>2, <3>1
      <4>. QED
        BY <4>1, Zenon
    <3>4. Merging(Chosen[i], classified, {all[j] : j \in 1..(i - 1)} \cup {all[i]})
      BY <3>1, <3>2, MergesStatic
    <3>. QED
      BY <3>3, <3>4
  <2>. QED
    BY <2>1, <2>2
<1>. HIDE DEF Right
<1>10. Wrong = {}
  <2>. SUFFICES ASSUME Wrong # {} PROVE FALSE
    OBVIOUS
  <2>1. Wrong \in SUBSET Nat
    BY <1>1
  <2>2. PICK m \in Wrong : \A k \in Nat : k < m => k \notin Wrong
    <3>. HIDE DEF Wrong
    <3>. QED
      BY <2>1, LeastOf
  <2>3. m \in 0..N /\ ~ Right(m)
    OBVIOUS
  <2>4. m # 0 => m - 1 \in Nat /\ m - 1 < m /\ m - 1 \in 0..N
    BY <1>1, <2>3
  <2>5. m # 0 => Right(m - 1)
    BY <2>2, <2>4
  <2>. QED
    BY <1>9, <2>3, <2>5
<1>11. Merging(Chosen[N], classified, both)
  <2>1. Right(N)
    BY <1>1, <1>10
  <2>. QED
    BY <1>1, <2>1 DEF Right
<1>. DEFINE list == Chosen[N].list
<1>12. IsList(list) /\ ToSet(list) \subseteq both
  BY <1>11 DEF Merging
<1>13. ASSUME NEW f \in both PROVE Survives(list, both, f)
  <2>. SUFFICES ASSUME ~ FileLevel(f)
                PROVE  IF IsGeneric(f)
                       THEN \/ \E g \in ToSet(list) : Near(f, g)
                            \/ \E g \in both : FileLevel(g) /\ g.at = f.at
                       ELSE Listed(list, f)
    BY DEF Survives
  <2>1. \/ Listed(list, f)
        \/ IsGeneric(f) /\ \E g \in classified : Near(f, g)
        \/ IsGeneric(f) /\ \E g \in ToSet(list) : Near(f, g)
    BY <1>11 DEF Merging, Handled
  <2>2. CASE Listed(list, f)
    <3>1. PICK g \in ToSet(list) : StaticKey(g) = StaticKey(f)
      BY <2>2 DEF Listed
    <3>2. g.at = f.at /\ g.line = f.line /\ f.line \in Int
      BY <1>1, <3>1 DEF StaticKey, Fine
    <3>3. Near(f, g)
      BY <3>2 DEF Near
    <3>. QED
      BY <2>2, <3>1, <3>3
  <2>3. CASE IsGeneric(f) /\ \E g \in classified : Near(f, g)
    <3>1. PICK g \in classified : Near(f, g)
      BY <2>3
    <3>2. g \in both /\ ~ IsGeneric(g) /\ g.at = f.at
      BY <1>0, <3>1 DEF Near
    <3>3. CASE FileLevel(g)
      BY <2>3, <3>2, <3>3
    <3>4. CASE ~ FileLevel(g)
      <4>1. Listed(list, g)
        BY <1>11, <3>2, <3>4 DEF Merging, Handled
      <4>2. PICK k \in ToSet(list) : StaticKey(k) = StaticKey(g)
        BY <4>1 DEF Listed
      <4>3. k.at = g.at /\ k.line = g.line
        BY <4>2 DEF StaticKey
      <4>4. Near(f, k)
        BY <3>1, <4>3 DEF Near
      <4>. QED
        BY <2>3, <4>2, <4>4
    <3>. QED
      BY <3>3, <3>4
  <2>4. CASE IsGeneric(f) /\ \E g \in ToSet(list) : Near(f, g)
    BY <2>4
  <2>. QED
    BY <2>1, <2>2, <2>3, <2>4
<1>. QED
  BY <1>7, <1>12, <1>13 DEF both

(* A pass over a list that rewrites some fields of its findings.            *)
FineList(list) == IsList(list) /\ \A i \in 1..Len(list) : Fine(list[i])

Rewritten(new, list, fields) ==
  /\ FineList(new) /\ Len(new) = Len(list)
  /\ \A i \in 1..Len(list) : \A x \in FindingFields \ fields : new[i][x] = list[i][x]

(* normalizeSeverities writes severities and scores alone.                  *)
LEMMA SeveritiesRewritten ==
  ASSUME NEW list, FineList(list)
  PROVE  Rewritten(NormalizeSeverities(list), list, {"severity", "cvss"})
<1>. DEFINE new == NormalizeSeverities(list)
            n == Len(list)
            r(f) == ClassifyFinding(f)
            c(f) == IF f.cvss = 0 THEN r(f).cvss ELSE f.cvss
<1>1. n \in Nat
  BY ListIs DEF FineList
<1>2. new = [i \in 1..n |-> new[i]]
      /\ \A i \in 1..n : new[i] = IF r(list[i]) = Unrated THEN list[i]
                                  ELSE [list[i] EXCEPT !.severity = r(list[i]).severity,
                                                       !.cvss = IF @ = 0 THEN r(list[i]).cvss ELSE @]
  BY DEF NormalizeSeverities
<1>. HIDE DEF new, n
<1>3. IsList(new) /\ Len(new) = n
  BY <1>1, <1>2, Indexed
<1>4. ASSUME NEW i \in 1..n
      PROVE  Fine(new[i]) /\ \A x \in FindingFields \ {"severity", "cvss"} : new[i][x] = list[i][x]
  <2>. DEFINE f == list[i]
              g == new[i]
  <2>1. Fine(f)
    BY DEF FineList, n
  <2>2. CASE r(f) = Unrated
    BY <1>2, <2>1, <2>2
  <2>3. CASE r(f) # Unrated
    <3>. DEFINE s == r(f).severity
                d == IF f.cvss = 0 THEN r(f).cvss ELSE f.cvss
    <3>1. g = [f EXCEPT !.severity = s, !.cvss = IF @ = 0 THEN r(f).cvss ELSE @]
      BY <1>2, <2>3
    <3>2. s \in Severities /\ d \in 0..100
      BY <2>1, <2>3, RatingIs DEF Fine
    <3>. HIDE DEF f, g, s, r
    <3>3. g = [f EXCEPT !.severity = s, !.cvss = d]
      BY <2>1, <3>1 DEF Fine, FindingFields
    <3>. HIDE DEF d
    <3>4. /\ DOMAIN g = FindingFields
          /\ \A x \in FindingFields \ {"severity", "cvss"} : g[x] = f[x]
      BY <2>1, <3>3 DEF Fine
    <3>5. g.severity = s /\ g.cvss = d
      BY <2>1, <3>3 DEF Fine, FindingFields
    <3>6. \A x \in {"type", "title", "at", "line", "verified", "status", "advice"} : g[x] = f[x]
      BY <3>4 DEF FindingFields
    <3>7. Fine(g)
      BY <2>1, <3>2, <3>4, <3>5, <3>6 DEF Fine
    <3>. QED
      BY <3>4, <3>7 DEF f, g
  <2>. QED
    BY <2>2, <2>3
<1>. QED
  BY <1>3, <1>4 DEF Rewritten, FineList, new, n

(* No category is the marker, and a class of its own is kept.               *)
LEMMA CategoriesRewritten ==
  ASSUME NEW list, FineList(list)
  PROVE  LET new == ApplyCategories(list) IN
         /\ Rewritten(new, list, {"type"})
         /\ \A i \in 1..Len(list) :
              /\ new[i].type # "SAST"
              /\ list[i].type \notin {Blank, "SAST"} => new[i].type = list[i].type
<1>. DEFINE new == ApplyCategories(list)
            n == Len(list)
<1>1. n \in Nat
  BY ListIs DEF FineList
<1>2. new = [i \in 1..n |-> new[i]]
      /\ \A i \in 1..n : new[i] = IF list[i].type \in {Blank, "SAST"}
                                  THEN [list[i] EXCEPT !.type = VulnCategory(list[i].title)]
                                  ELSE list[i]
  BY DEF ApplyCategories
<1>. HIDE DEF new, n
<1>3. IsList(new) /\ Len(new) = n
  BY <1>1, <1>2, Indexed
<1>4. ASSUME NEW i \in 1..n
      PROVE  /\ Fine(new[i]) /\ \A x \in FindingFields \ {"type"} : new[i][x] = list[i][x]
             /\ new[i].type # "SAST"
             /\ list[i].type \notin {Blank, "SAST"} => new[i].type = list[i].type
  <2>. DEFINE f == list[i]
              g == new[i]
              c == VulnCategory(f.title)
  <2>1. Fine(f) /\ c \in Labels /\ c # "SAST"
    BY CategoriesAreLabels DEF FineList, n
  <2>2. g = IF f.type \in {Blank, "SAST"} THEN [f EXCEPT !.type = c] ELSE f
    BY <1>2
  <2>. HIDE DEF f, g, c
  <2>3. CASE f.type \in {Blank, "SAST"}
    <3>1. g = [f EXCEPT !.type = c]
      BY <2>2, <2>3
    <3>2. DOMAIN g = FindingFields /\ \A x \in FindingFields \ {"type"} : g[x] = f[x]
      BY <2>1, <3>1 DEF Fine
    <3>3. g.type = c
      BY <2>1, <3>1 DEF Fine, FindingFields
    <3>4. \A x \in {"title", "at", "line", "verified", "status", "advice", "severity", "cvss"} :
            g[x] = f[x]
      BY <3>2 DEF FindingFields
    <3>5. Fine(g)
      BY <2>1, <3>2, <3>3, <3>4 DEF Fine
    <3>. QED
      BY <2>1, <2>3, <3>2, <3>3, <3>5 DEF f, g
  <2>4. CASE f.type \notin {Blank, "SAST"}
    BY <2>1, <2>2, <2>4 DEF f, g
  <2>. QED
    BY <2>3, <2>4
<1>. QED
  BY <1>3, <1>4 DEF Rewritten, FineList, new, n

(* enrichSnippets writes the code alone.                                    *)
LEMMA SnippetsRewritten ==
  ASSUME NEW list, FineList(list)
  PROVE  Rewritten(EnrichSnippets(list), list, {"code"})
<1>. DEFINE new == EnrichSnippets(list)
            n == Len(list)
<1>1. n \in Nat
  BY ListIs DEF FineList
<1>2. new = [i \in 1..n |-> new[i]]
      /\ \A i \in 1..n : new[i] = list[i] \/ new[i] = [list[i] EXCEPT !.code = TRUE]
  BY DEF EnrichSnippets
<1>. HIDE DEF new, n
<1>3. IsList(new) /\ Len(new) = n
  BY <1>1, <1>2, Indexed
<1>4. ASSUME NEW i \in 1..n
      PROVE  Fine(new[i]) /\ \A x \in FindingFields \ {"code"} : new[i][x] = list[i][x]
  <2>. DEFINE f == list[i]
              g == new[i]
  <2>1. Fine(f)
    BY DEF FineList, n
  <2>2. g = f \/ g = [f EXCEPT !.code = TRUE]
    BY <1>2
  <2>. HIDE DEF f, g
  <2>3. CASE g = [f EXCEPT !.code = TRUE]
    <3>2. DOMAIN g = FindingFields /\ \A x \in FindingFields \ {"code"} : g[x] = f[x]
      BY <2>1, <2>3 DEF Fine
    <3>4. \A x \in {"type", "title", "at", "line", "verified", "status", "advice", "severity",
                    "cvss"} : g[x] = f[x]
      BY <3>2 DEF FindingFields
    <3>5. Fine(g)
      BY <2>1, <3>2, <3>4 DEF Fine
    <3>. QED
      BY <3>2, <3>5 DEF f, g
  <2>. QED
    BY <2>1, <2>2, <2>3 DEF f, g
<1>. QED
  BY <1>3, <1>4 DEF Rewritten, FineList, new, n

(* The advice of a finding is replaced by one of the pass.                  *)
LEMMA AdviceRewritten ==
  ASSUME NEW list, FineList(list), NEW advice \in {"template", "model"},
         NEW new, new = [i \in 1..Len(list) |-> new[i]],
         \A i \in 1..Len(list) : new[i] = list[i] \/ new[i] = [list[i] EXCEPT !.advice = advice]
  PROVE  /\ Rewritten(new, list, {"advice"})
         /\ \A i \in 1..Len(list) :
              new[i] = [list[i] EXCEPT !.advice = advice] => new[i].advice = advice
<1>. DEFINE n == Len(list)
<1>1. n \in Nat
  BY ListIs DEF FineList
<1>3. IsList(new) /\ Len(new) = n
  BY <1>1, Indexed
<1>4. ASSUME NEW i \in 1..n
      PROVE  /\ Fine(new[i]) /\ \A x \in FindingFields \ {"advice"} : new[i][x] = list[i][x]
             /\ new[i] = [list[i] EXCEPT !.advice = advice] => new[i].advice = advice
  <2>. DEFINE f == list[i]
              g == new[i]
  <2>1. Fine(f)
    BY DEF FineList
  <2>2. g = f \/ g = [f EXCEPT !.advice = advice]
    OBVIOUS
  <2>. HIDE DEF f, g
  <2>3. CASE g = [f EXCEPT !.advice = advice]
    <3>2. DOMAIN g = FindingFields /\ \A x \in FindingFields \ {"advice"} : g[x] = f[x]
      BY <2>1, <2>3 DEF Fine
    <3>3. g.advice = advice
      BY <2>1, <2>3 DEF Fine, FindingFields
    <3>4. \A x \in {"type", "title", "at", "line", "verified", "status", "severity", "cvss"} :
            g[x] = f[x]
      BY <3>2 DEF FindingFields
    <3>5. Fine(g)
      BY <2>1, <3>2, <3>3, <3>4 DEF Fine
    <3>. QED
      BY <3>2, <3>3, <3>5 DEF f, g
  <2>4. CASE g # [f EXCEPT !.advice = advice]
    BY <2>1, <2>2, <2>4 DEF f, g
  <2>. QED
    BY <2>3, <2>4
<1>. QED
  BY <1>3, <1>4 DEF Rewritten, FineList

(* The placeholder advice comes from a finding of the detectors.            *)
Sourced(found, f) ==
  \E g \in ToSet(found) : /\ g.advice = "generic"
                          /\ g.at = f.at /\ g.line = f.line /\ g.title = f.title

Unadvised(found, list) ==
  /\ FineList(list)
  /\ \A i \in 1..Len(list) : /\ list[i].advice \in {"own", "generic"}
                             /\ list[i].advice # "own" => Sourced(found, list[i])

Templates(found, list, templated) ==
  /\ FineList(list) /\ templated \subseteq 1..Len(list)
  /\ \A i \in 1..Len(list) : /\ list[i].advice \in {"own", "template"}
                             /\ list[i].advice # "own" => Sourced(found, list[i])
                             /\ list[i].type # "SAST"
  /\ \A i \in templated : list[i].advice = "template"

Advised(found, list) ==
  /\ FineList(list)
  /\ \A i \in 1..Len(list) : /\ list[i].advice \in {"own", "template", "model"}
                             /\ list[i].advice # "own" => Sourced(found, list[i])
                             /\ list[i].advice = "model" => list[i].code
                             /\ list[i].type # "SAST"

(* Each finding stays where it is, and a classified one what it is.         *)
SamePlaces(new, list) ==
  /\ IsList(new) /\ IsList(list) /\ Len(new) = Len(list)
  /\ \A i \in 1..Len(list) :
       /\ new[i].at = list[i].at /\ new[i].line = list[i].line
       /\ list[i].type \notin {Blank, "SAST"} => new[i].type = list[i].type

(* What survives does so in a list rewritten in place.                      *)
LEMMA SurvivesInPlace ==
  ASSUME NEW list, NEW new, SamePlaces(new, list),
         NEW all, NEW f, f.type # Blank, Survives(list, all, f)
  PROVE  Survives(new, all, f)
<1>1. /\ ToSet(list) = {list[i] : i \in 1..Len(list)}
      /\ ToSet(new) = {new[i] : i \in 1..Len(list)}
  BY ListIs DEF SamePlaces
<1>2. ASSUME NEW g \in ToSet(list), Near(f, g) PROVE \E h \in ToSet(new) : Near(f, h)
  <2>1. PICK i \in 1..Len(list) : g = list[i]
    BY <1>1
  <2>2. Near(f, new[i])
    BY <1>2, <2>1 DEF Near, SamePlaces
  <2>. QED
    BY <1>1, <2>2
<1>3. ASSUME ~ IsGeneric(f), Listed(list, f) PROVE Listed(new, f)
  <2>1. PICK i \in 1..Len(list) : StaticKey(list[i]) = StaticKey(f)
    BY <1>1, <1>3 DEF Listed
  <2>2. list[i].type = f.type
    BY <2>1 DEF StaticKey
  <2>3. list[i].type \notin {Blank, "SAST"}
    BY <1>3, <2>2 DEF IsGeneric
  <2>4. StaticKey(new[i]) = StaticKey(f)
    BY <2>1, <2>3 DEF StaticKey, SamePlaces
  <2>. QED
    BY <1>1, <2>4 DEF Listed
<1>. QED
  BY <1>2, <1>3 DEF Survives

(* A finding with the same place, title and advice has the same source.     *)
LEMMA SourceKept ==
  ASSUME NEW found, NEW f, NEW g, Sourced(found, f),
         g.at = f.at, g.line = f.line, g.title = f.title
  PROVE  Sourced(found, g)
BY DEF Sourced

(* GenerateStaticReport after the merge.                                    *)
LEMMA StaticRated ==
  ASSUME NEW found, NEW list, Unadvised(found, list), NEW workspace
  PROVE  LET rated == ApplyCategories(NormalizeSeverities(list))
             shown == IF workspace THEN EnrichSnippets(rated) ELSE rated
         IN /\ Templates(found, ApplyTemplates(shown), Templated(shown))
            /\ SamePlaces(ApplyTemplates(shown), list)
<1>. DEFINE l1 == NormalizeSeverities(list)
            l2 == ApplyCategories(l1)
            l3 == IF workspace THEN EnrichSnippets(l2) ELSE l2
            l4 == ApplyTemplates(l3)
            n == Len(list)
<1>0. FineList(list) /\ IsList(list)
  BY DEF Unadvised, FineList
<1>1. Rewritten(l1, list, {"severity", "cvss"})
  BY <1>0, SeveritiesRewritten
<1>. HIDE DEF l1
<1>2. /\ FineList(l1) /\ Len(l1) = n
      /\ \A i \in 1..n : /\ l1[i].at = list[i].at /\ l1[i].line = list[i].line
                         /\ l1[i].title = list[i].title /\ l1[i].advice = list[i].advice
                         /\ l1[i].type = list[i].type
  BY <1>1 DEF Rewritten, FindingFields
<1>3. /\ Rewritten(l2, l1, {"type"})
      /\ \A i \in 1..Len(l1) :
              /\ l2[i].type # "SAST"
              /\ l1[i].type \notin {Blank, "SAST"} => l2[i].type = l1[i].type
  BY <1>2, CategoriesRewritten
<1>. HIDE DEF l2
<1>4. /\ FineList(l2) /\ Len(l2) = n
      /\ \A i \in 1..n : /\ l2[i].at = list[i].at /\ l2[i].line = list[i].line
                         /\ l2[i].title = list[i].title /\ l2[i].advice = list[i].advice
                         /\ l2[i].type # "SAST"
                         /\ list[i].type \notin {Blank, "SAST"} => l2[i].type = list[i].type
  BY <1>2, <1>3 DEF Rewritten, FindingFields
<1>5. l3 = l2 \/ Rewritten(l3, l2, {"code"})
  BY <1>4, SnippetsRewritten
<1>. HIDE DEF l3
<1>6. /\ FineList(l3) /\ Len(l3) = n
      /\ \A i \in 1..n : /\ l3[i].at = list[i].at /\ l3[i].line = list[i].line
                         /\ l3[i].title = list[i].title /\ l3[i].advice = list[i].advice
                         /\ l3[i].type # "SAST"
                         /\ list[i].type \notin {Blank, "SAST"} => l3[i].type = list[i].type
  <2>1. CASE l3 = l2
    BY <1>4, <2>1
  <2>2. CASE Rewritten(l3, l2, {"code"})
    BY <1>4, <2>2 DEF Rewritten, FindingFields
  <2>. QED
    BY <1>5, <2>1, <2>2
<1>7. /\ l4 = [i \in 1..Len(l3) |-> l4[i]]
      /\ \A i \in 1..Len(l3) : l4[i] = IF l3[i].advice = "generic"
                                       THEN [l3[i] EXCEPT !.advice = "template"] ELSE l3[i]
  BY DEF ApplyTemplates
<1>. HIDE DEF l4
<1>8. /\ Rewritten(l4, l3, {"advice"})
      /\ \A i \in 1..Len(l3) :
           l4[i] = [l3[i] EXCEPT !.advice = "template"] => l4[i].advice = "template"
  <2>1. "template" \in {"template", "model"}
        /\ \A i \in 1..Len(l3) : l4[i] = l3[i] \/ l4[i] = [l3[i] EXCEPT !.advice = "template"]
    BY <1>7
  <2>2. FineList(l3) /\ l4 = [i \in 1..Len(l3) |-> l4[i]]
    BY <1>6, <1>7
  <2>. QED
    BY <2>1, <2>2, AdviceRewritten
<1>9. /\ FineList(l4) /\ IsList(l4) /\ Len(l4) = n
      /\ \A i \in 1..n : /\ l4[i].at = list[i].at /\ l4[i].line = list[i].line
                         /\ l4[i].title = list[i].title /\ l4[i].type # "SAST"
                         /\ list[i].type \notin {Blank, "SAST"} => l4[i].type = list[i].type
  BY <1>6, <1>8 DEF Rewritten, FindingFields, FineList
<1>10. \A i \in 1..n : l4[i].advice = IF list[i].advice = "generic" THEN "template"
                                      ELSE list[i].advice
  BY <1>6, <1>7, <1>8
<1>11. SamePlaces(l4, list)
  BY <1>0, <1>9 DEF SamePlaces
<1>12. ASSUME NEW i \in 1..n
       PROVE  /\ l4[i].advice \in {"own", "template"}
              /\ l4[i].advice # "own" => Sourced(found, l4[i])
  <2>1. /\ list[i].advice \in {"own", "generic"}
        /\ list[i].advice # "own" => Sourced(found, list[i])
    BY DEF Unadvised
  <2>2. Sourced(found, list[i]) => Sourced(found, l4[i])
    BY <1>9, SourceKept
  <2>. QED
    BY <1>10, <2>1, <2>2
<1>13. \A i \in Templated(l3) : i \in 1..n /\ l4[i].advice = "template"
  BY <1>6, <1>10 DEF Templated
<1>14. Templates(found, l4, Templated(l3))
  BY <1>9, <1>12, <1>13 DEF Templates
<1>. QED
  BY <1>11, <1>14 DEF l1, l2, l3, l4

(* The examples of the model.                                               *)
LEMMA StaticSpliced ==
  ASSUME NEW found, NEW list, NEW templated, Templates(found, list, templated), NEW answered
  PROVE  LET new == Splice(list, Asked(list, templated), answered) IN
         Advised(found, new) /\ SamePlaces(new, list)
<1>. DEFINE new == Splice(list, Asked(list, templated), answered)
            n == Len(list)
<1>0. FineList(list) /\ IsList(list)
  BY DEF Templates, FineList
<1>1. /\ new = [i \in 1..Len(list) |-> new[i]]
      /\ \A i \in 1..Len(list) :
           new[i] = IF i \in Asked(list, templated) \cap answered
                    THEN [list[i] EXCEPT !.advice = "model"] ELSE list[i]
  BY DEF Splice
<1>. HIDE DEF new
<1>2. /\ Rewritten(new, list, {"advice"})
      /\ \A i \in 1..Len(list) :
           new[i] = [list[i] EXCEPT !.advice = "model"] => new[i].advice = "model"
  <2>1. "model" \in {"template", "model"}
        /\ \A i \in 1..Len(list) : new[i] = list[i] \/ new[i] = [list[i] EXCEPT !.advice = "model"]
    BY <1>1
  <2>. QED
    BY <1>0, <1>1, <2>1, AdviceRewritten
<1>3. /\ FineList(new) /\ IsList(new) /\ Len(new) = n
      /\ \A i \in 1..n : /\ new[i].at = list[i].at /\ new[i].line = list[i].line
                         /\ new[i].title = list[i].title /\ new[i].type = list[i].type
                         /\ new[i].code = list[i].code
  BY <1>2 DEF Rewritten, FindingFields, FineList
<1>4. SamePlaces(new, list)
  BY <1>0, <1>3 DEF SamePlaces
<1>5. ASSUME NEW i \in 1..n
      PROVE  /\ new[i].advice \in {"own", "template", "model"}
             /\ new[i].advice # "own" => Sourced(found, new[i])
             /\ new[i].advice = "model" => new[i].code
             /\ new[i].type # "SAST"
  <2>1. /\ list[i].advice \in {"own", "template"} /\ list[i].type # "SAST"
        /\ list[i].advice # "own" => Sourced(found, list[i])
    BY DEF Templates
  <2>2. Sourced(found, list[i]) => Sourced(found, new[i])
    BY <1>3, SourceKept
  <2>3. CASE i \in Asked(list, templated) \cap answered
    <3>1. new[i].advice = "model"
      BY <1>1, <1>2, <2>3
    <3>2. list[i].code /\ list[i].advice = "template"
      BY <2>3 DEF Asked, Templates
    <3>. QED
      BY <1>3, <2>1, <2>2, <3>1, <3>2
  <2>4. CASE i \notin Asked(list, templated) \cap answered
    <3>1. new[i] = list[i]
      BY <1>1, <2>4
    <3>. QED
      BY <2>1, <2>2, <3>1
  <2>. QED
    BY <2>3, <2>4
<1>6. Advised(found, new)
  BY <1>3, <1>5 DEF Advised
<1>. QED
  BY <1>4, <1>6 DEF new

(* A list with templates is advised, also when no model answers.            *)
LEMMA StaticKeptTemplates ==
  ASSUME NEW found, NEW list, NEW templated, Templates(found, list, templated)
  PROVE  Advised(found, list)
BY DEF Templates, Advised

(* The list before it is rated.                                             *)
LEMMA StaticDetected ==
  ASSUME NEW steps, Transcript(steps)
  PROVE  LET found == ExtractStatic(steps) IN
         RawFindings(found) /\ Unadvised(found, found)
<1>. DEFINE found == ExtractStatic(steps)
<1>1. RawFindings(found)
  BY ExtractedAreRaw
<1>. HIDE DEF found
<1>2. IsList(found) /\ \A i \in 1..Len(found) : found[i] \in ToSet(found)
  BY <1>1, ListIs DEF RawFindings
<1>3. \A i \in 1..Len(found) : RawFinding(found[i])
  BY <1>1, <1>2 DEF RawFindings
<1>4. Unadvised(found, found)
  BY <1>2, <1>3 DEF Unadvised, FineList, RawFinding, Sourced
<1>. QED
  BY <1>1, <1>4 DEF found

(* The answer read and merged: both generators' findings survive.           *)
LEMMA StaticRead ==
  ASSUME NEW found, RawFindings(found), NEW claims, Answer(claims)
  PROVE  LET claimed == ReadFindings(claims)
             list == MergeStatic(found, claimed)
             both == ToSet(found) \cup ToSet(claimed)
         IN /\ RawFindings(claimed) /\ Unadvised(found, list)
            /\ \A f \in both : Survives(list, both, f)
<1>. DEFINE claimed == ReadFindings(claims)
            list == MergeStatic(found, claimed)
            both == ToSet(found) \cup ToSet(claimed)
<1>1. RawFindings(claimed) /\ \A f \in ToSet(claimed) : f.advice = "own"
  BY ReadAreRaw
<1>. HIDE DEF claimed
<1>2. /\ IsList(list) /\ ToSet(list) \subseteq both
      /\ \A f \in both : Survives(list, both, f)
  BY <1>1, StaticMerge
<1>. HIDE DEF list
<1>3. \A i \in 1..Len(list) : list[i] \in both
  BY <1>2, ListIs
<1>4. ASSUME NEW f \in both
      PROVE  RawFinding(f) /\ (f.advice # "own" => Sourced(found, f))
  BY <1>1 DEF RawFindings, RawFinding, Sourced
<1>5. Unadvised(found, list)
  BY <1>2, <1>3, <1>4 DEF Unadvised, FineList, RawFinding
<1>. QED
  BY <1>1, <1>2, <1>5 DEF claimed, list

-----------------------------------------------------------------------------
(* The generation of a report.                                             *)

JobFields == {"pc", "generator", "workspace", "live", "steps", "found", "claimed", "read",
              "list", "templated"}

JobShape(j) ==
  /\ DOMAIN j = JobFields
  /\ j.pc \in {"idle", "detect", "read", "rate", "advise", "narrate", "save", "done"}
  /\ j.generator \in {"none", "dynamic", "sast"}
  /\ j.pc = "idle" <=> j.generator = "none"
  /\ j.pc = "advise" => j.generator = "sast"
  /\ j.pc \in {"idle", "detect", "read"} => ~ j.read
  /\ j.pc \in {"idle", "detect"} => j.list = <<>>
  /\ j.generator # "sast" \/ j.pc \in {"detect", "read", "rate"} => j.templated = {}

(* The job of the dynamic generator.                                        *)
DynamicJob(j) ==
  j.generator = "dynamic" =>
    /\ Transcript(j.steps) /\ OneLogin(j.steps)
    /\ j.pc # "detect" =>
         /\ Credits(j.steps, j.found) /\ Proves(j.steps, j.found)
         /\ Credits(j.steps, j.list)
         /\ \A f \in ToSet(j.found) : Covers(j.list, f)
         /\ j.read => /\ Credits(j.steps, j.claimed) /\ Unique(j.list)
                      /\ \A f \in ToSet(j.claimed) : Covers(j.list, f)

(* The job of the static generator.                                         *)
StaticJob(j) ==
  j.generator = "sast" =>
    /\ Transcript(j.steps)
    /\ j.pc # "detect" => RawFindings(j.found)
    /\ j.pc \in {"read", "rate"} => Unadvised(j.found, j.list)
    /\ j.pc = "advise" => Templates(j.found, j.list, j.templated)
    /\ j.pc \in {"narrate", "save", "done"} =>
         Advised(j.found, j.list) /\ j.templated \subseteq 1..Len(j.list)
    /\ j.read => /\ RawFindings(j.claimed)
                 /\ \A f \in ToSet(j.found) \cup ToSet(j.claimed) :
                      Survives(j.list, ToSet(j.found) \cup ToSet(j.claimed), f)

(* The row saved is the report of the job.                                  *)
SavedRow(j, row) ==
  row.saved =>
    /\ j.pc = "done"
    /\ row.listed = j.list /\ row.statistics.total = Len(j.list)
    /\ row.overall \in Severities

ReportInv ==
  /\ scan \in Scans
  /\ JobShape(job) /\ DynamicJob(job) /\ StaticJob(job)
  /\ SavedRow(job, report)

(* What is assumed of a scan.                                               *)
LEMMA ScanIs ==
  ASSUME NEW sc \in Scans
  PROVE  /\ sc.kind \in {"dynamic", "sast"}
         /\ Transcript(sc.steps) /\ OneLogin(sc.steps) /\ Answer(sc.claims)
BY ReportsAssumption DEF Transcript, OneLogin, Answer

(* A job that has not begun.                                                *)
LEMMA IdleIs ==
  /\ DOMAIN Idle = JobFields /\ Idle.pc = "idle" /\ Idle.generator = "none"
  /\ Idle.list = <<>> /\ Idle.templated = {}
  /\ ~ Idle.read
  /\ ~ NoReport.saved
<1>1. /\ DOMAIN Idle = JobFields /\ Idle.pc = "idle" /\ Idle.generator = "none"
      /\ Idle.list = <<>> /\ Idle.templated = {}
  BY DEF Idle, JobFields
<1>2. ~ Idle.read
  BY DEF Idle
<1>3. ~ NoReport.saved
  BY DEF NoReport
<1>. QED
  BY <1>1, <1>2, <1>3

(* A step that only moves on, or loses its context.                         *)
OnlyMoves(new, j) ==
  /\ DOMAIN new = JobFields
  /\ \A x \in {"generator", "steps", "found", "claimed", "read", "list", "templated"} :
       new[x] = j[x]

(* A change of pc alone.                                                    *)
LEMMA Moves ==
  ASSUME NEW j, DOMAIN j = JobFields, NEW pc
  PROVE  LET new == [j EXCEPT !.pc = pc] IN OnlyMoves(new, j) /\ new.pc = pc
<1>. DEFINE new == [j EXCEPT !.pc = pc]
<1>1. DOMAIN new = JobFields /\ \A x \in JobFields \ {"pc"} : new[x] = j[x]
  OBVIOUS
<1>2. new.pc = pc
  BY DEF JobFields
<1>. HIDE DEF new
<1>3. OnlyMoves(new, j)
  BY <1>1 DEF OnlyMoves, JobFields
<1>. QED
  BY <1>2, <1>3 DEF new

(* Such a step keeps what is known of the job.                              *)
LEMMA MovesOn ==
  ASSUME NEW j, NEW new, OnlyMoves(new, j), JobShape(j), DynamicJob(j), StaticJob(j),
         \/ new.pc = j.pc
         \/ j.pc = "read" /\ new.pc = "rate"
         \/ j.pc = "advise" /\ new.pc = "narrate"
         \/ j.pc = "narrate" /\ new.pc = "save"
         \/ j.pc = "save" /\ new.pc = "done"
  PROVE  JobShape(new) /\ DynamicJob(new) /\ StaticJob(new)
<1>1. /\ new.generator = j.generator /\ new.steps = j.steps /\ new.found = j.found
      /\ new.claimed = j.claimed /\ new.read = j.read /\ new.list = j.list
      /\ new.templated = j.templated /\ DOMAIN new = JobFields
  BY DEF OnlyMoves
<1>2. JobShape(new)
  BY <1>1 DEF JobShape
<1>3. DynamicJob(new)
  BY <1>1 DEF DynamicJob, JobShape
<1>4. StaticJob(new)
  <2>. SUFFICES ASSUME j.generator = "sast" PROVE StaticJob(new)
    BY <1>1 DEF StaticJob
  <2>1. CASE j.pc = "advise" /\ new.pc = "narrate"
    <3>1. Templates(j.found, j.list, j.templated) /\ j.templated \subseteq 1..Len(j.list)
      BY <2>1 DEF StaticJob, Templates
    <3>2. Advised(j.found, j.list)
      BY <3>1, StaticKeptTemplates
    <3>. QED
      BY <1>1, <2>1, <3>1, <3>2 DEF StaticJob
  <2>2. CASE ~ (j.pc = "advise" /\ new.pc = "narrate")
    BY <1>1, <2>2 DEF StaticJob, JobShape
  <2>. QED
    BY <2>1, <2>2
<1>. QED
  BY <1>2, <1>3, <1>4

(* A new job of a generator.                                                *)
LEMMA Begins ==
  ASSUME NEW new, DOMAIN new = JobFields, new.pc = "detect",
         new.generator \in {"dynamic", "sast"},
         Transcript(new.steps), OneLogin(new.steps),
         ~ new.read, new.list = <<>>, new.templated = {}
  PROVE  JobShape(new) /\ DynamicJob(new) /\ StaticJob(new)
BY DEF JobShape, DynamicJob, StaticJob

(* The steps that change the list, each for one generator.                  *)
LEMMA DynamicDetects ==
  ASSUME NEW j, JobShape(j), DynamicJob(j), j.pc = "detect", j.generator = "dynamic",
         NEW found \in DetectorFindings(j.steps),
         NEW new, new = [j EXCEPT !.pc = "read", !.found = found, !.list = found]
  PROVE  JobShape(new) /\ DynamicJob(new) /\ StaticJob(new)
<1>1. /\ DOMAIN new = JobFields /\ new.pc = "read" /\ new.found = found /\ new.list = found
      /\ new.generator = j.generator /\ new.steps = j.steps /\ new.read = j.read
      /\ new.templated = j.templated
  BY DEF JobShape, JobFields
<1>2. Credits(j.steps, found) /\ Proves(j.steps, found)
  BY DetectorsDetected DEF DynamicJob
<1>3. \A f \in ToSet(found) : Covers(found, f)
  BY ScoresAreNumbers DEF Covers
<1>. QED
  BY <1>1, <1>2, <1>3 DEF JobShape, DynamicJob, StaticJob

(* Detection in a static scan.                                              *)
LEMMA StaticDetects ==
  ASSUME NEW j, JobShape(j), StaticJob(j), j.pc = "detect", j.generator = "sast",
         NEW found, found = ExtractStatic(j.steps),
         NEW new, new = [j EXCEPT !.pc = "read", !.found = found, !.list = found]
  PROVE  JobShape(new) /\ DynamicJob(new) /\ StaticJob(new)
<1>1. /\ DOMAIN new = JobFields /\ new.pc = "read" /\ new.found = found /\ new.list = found
      /\ new.generator = j.generator /\ new.steps = j.steps /\ new.read = j.read
      /\ new.templated = j.templated
  BY DEF JobShape, JobFields
<1>2. RawFindings(found) /\ Unadvised(found, found)
  BY StaticDetected DEF StaticJob
<1>. HIDE DEF RawFindings
<1>. QED
  BY <1>1, <1>2 DEF JobShape, DynamicJob, StaticJob

(* The agent's answer joins the detectors' findings.                        *)
LEMMA DynamicReads ==
  ASSUME NEW j, JobShape(j), DynamicJob(j), j.pc = "read", j.generator = "dynamic",
         NEW claims, Answer(claims), NEW claimed, NEW list,
         claimed = ValidateAgentFindings(ClaimedFindings(claims), j.steps),
         list = MergeDynamic(j.found, claimed),
         NEW new, DOMAIN new = JobFields, new.pc = "rate",
         new.claimed = claimed, new.list = list,
         \A x \in {"generator", "steps", "found", "templated"} : new[x] = j[x]
  PROVE  JobShape(new) /\ DynamicJob(new) /\ StaticJob(new)
<1>1. /\ new.generator = j.generator /\ new.steps = j.steps
      /\ new.found = j.found /\ new.templated = j.templated
  OBVIOUS
<1>2. Credits(j.steps, j.found)
  BY DEF DynamicJob
<1>3. /\ Credits(j.steps, new.claimed) /\ Credits(j.steps, new.list) /\ Unique(new.list)
      /\ \A f \in ToSet(j.found) \cup ToSet(new.claimed) : Covers(new.list, f)
  BY <1>2, DynamicRead
<1>4. JobShape(new)
  BY <1>1 DEF JobShape
<1>5. DynamicJob(new)
  BY <1>1, <1>3 DEF DynamicJob
<1>. QED
  BY <1>1, <1>4, <1>5 DEF StaticJob

(* The same in a static scan.                                               *)
LEMMA StaticReads ==
  ASSUME NEW j, JobShape(j), StaticJob(j), j.pc = "read", j.generator = "sast",
         NEW claims, Answer(claims), NEW claimed, NEW list,
         claimed = ReadFindings(claims), list = MergeStatic(j.found, claimed),
         NEW new, DOMAIN new = JobFields, new.pc = "rate",
         new.claimed = claimed, new.list = list,
         \A x \in {"generator", "steps", "found", "templated"} : new[x] = j[x]
  PROVE  JobShape(new) /\ DynamicJob(new) /\ StaticJob(new)
<1>1. /\ new.generator = j.generator /\ new.steps = j.steps
      /\ new.found = j.found /\ new.templated = j.templated
  OBVIOUS
<1>2. RawFindings(j.found)
  BY DEF StaticJob
<1>3. /\ RawFindings(new.claimed) /\ Unadvised(j.found, new.list)
      /\ \A f \in ToSet(j.found) \cup ToSet(new.claimed) :
           Survives(new.list, ToSet(j.found) \cup ToSet(new.claimed), f)
  BY <1>2, StaticRead
<1>4. JobShape(new)
  BY <1>1 DEF JobShape
<1>5. StaticJob(new)
  BY <1>1, <1>2, <1>3 DEF StaticJob
<1>. QED
  BY <1>1, <1>4, <1>5 DEF DynamicJob

(* The ratings of a dynamic scan.                                           *)
LEMMA DynamicRates ==
  ASSUME NEW j, JobShape(j), DynamicJob(j), j.pc = "rate", j.generator = "dynamic",
         NEW new, new = [j EXCEPT !.pc = "narrate", !.list = EnrichCVSS(@)]
  PROVE  JobShape(new) /\ DynamicJob(new) /\ StaticJob(new)
<1>. DEFINE l == EnrichCVSS(j.list)
<1>0. new = [j EXCEPT !.pc = "narrate", !.list = l]
  BY DEF JobShape, JobFields
<1>. HIDE DEF l
<1>1. /\ DOMAIN new = JobFields /\ new.pc = "narrate" /\ new.list = l
      /\ new.generator = j.generator /\ new.steps = j.steps /\ new.read = j.read
      /\ new.found = j.found /\ new.claimed = j.claimed /\ new.templated = j.templated
  BY <1>0 DEF JobShape, JobFields
<1>2. /\ Credits(j.steps, l) /\ (Unique(j.list) => Unique(l))
      /\ \A f : Covers(j.list, f) => Covers(l, f)
  BY DynamicRated DEF DynamicJob, l
<1>3. JobShape(new)
  BY <1>1 DEF JobShape
<1>4. DynamicJob(new)
  BY <1>1, <1>2 DEF DynamicJob
<1>. QED
  BY <1>1, <1>3, <1>4 DEF StaticJob

(* What was merged stays in place.                                          *)
LEMMA PlacesKept ==
  ASSUME NEW found, NEW claimed, RawFindings(found), RawFindings(claimed),
         NEW list, NEW new, SamePlaces(new, list),
         \A f \in ToSet(found) \cup ToSet(claimed) :
           Survives(list, ToSet(found) \cup ToSet(claimed), f)
  PROVE  \A f \in ToSet(found) \cup ToSet(claimed) :
           Survives(new, ToSet(found) \cup ToSet(claimed), f)
<1>. SUFFICES ASSUME NEW f \in ToSet(found) \cup ToSet(claimed)
              PROVE  Survives(new, ToSet(found) \cup ToSet(claimed), f)
  OBVIOUS
<1>1. f.type # Blank
  BY DEF RawFindings, RawFinding
<1>2. Survives(list, ToSet(found) \cup ToSet(claimed), f)
  OBVIOUS
<1>. QED
  BY <1>1, <1>2, SurvivesInPlace

(* The ratings and templates of a static scan.                              *)
LEMMA StaticRates ==
  ASSUME NEW j, JobShape(j), StaticJob(j), j.pc = "rate", j.generator = "sast",
         NEW l, NEW t, Templates(j.found, l, t), SamePlaces(l, j.list),
         NEW new, new = [j EXCEPT !.pc = "advise", !.list = l, !.templated = t]
  PROVE  JobShape(new) /\ DynamicJob(new) /\ StaticJob(new)
<1>1. /\ DOMAIN new = JobFields /\ new.pc = "advise" /\ new.list = l /\ new.templated = t
      /\ new.generator = j.generator /\ new.steps = j.steps /\ new.read = j.read
      /\ new.found = j.found /\ new.claimed = j.claimed
  BY DEF JobShape, JobFields
<1>2. JobShape(new)
  BY <1>1 DEF JobShape
<1>3. j.read => \A f \in ToSet(j.found) \cup ToSet(j.claimed) :
                  Survives(l, ToSet(j.found) \cup ToSet(j.claimed), f)
  BY PlacesKept DEF StaticJob
<1>4. StaticJob(new)
  BY <1>1, <1>3 DEF StaticJob
<1>. QED
  BY <1>1, <1>2, <1>4 DEF DynamicJob

(* The model's examples.                                                    *)
LEMMA StaticAdvises ==
  ASSUME NEW j, JobShape(j), StaticJob(j), j.pc = "advise", NEW answered,
         NEW l, l = Splice(j.list, Asked(j.list, j.templated), answered),
         NEW new, new = [j EXCEPT !.pc = "narrate", !.list = l]
  PROVE  JobShape(new) /\ DynamicJob(new) /\ StaticJob(new)
<1>1. /\ DOMAIN new = JobFields /\ new.pc = "narrate" /\ new.list = l
      /\ new.templated = j.templated
      /\ new.generator = j.generator /\ new.steps = j.steps /\ new.read = j.read
      /\ new.found = j.found /\ new.claimed = j.claimed
  BY DEF JobShape, JobFields
<1>2. JobShape(new) /\ j.generator = "sast"
  BY <1>1 DEF JobShape
<1>3. Templates(j.found, j.list, j.templated)
  BY <1>2 DEF StaticJob
<1>4. Advised(j.found, new.list) /\ SamePlaces(new.list, j.list)
  <2>1. Advised(j.found, l) /\ SamePlaces(l, j.list)
    BY <1>3, StaticSpliced
  <2>. QED
    BY <1>1, <2>1
<1>5. j.read => \A f \in ToSet(j.found) \cup ToSet(j.claimed) :
                  Survives(new.list, ToSet(j.found) \cup ToSet(j.claimed), f)
  BY <1>2, <1>4, PlacesKept DEF StaticJob
<1>6. j.templated \subseteq 1..Len(new.list)
  BY <1>3, <1>4 DEF Templates, SamePlaces
<1>7. StaticJob(new)
  BY <1>1, <1>2, <1>4, <1>5, <1>6 DEF StaticJob
<1>. QED
  BY <1>1, <1>2, <1>7 DEF DynamicJob

(* The overall severity of a list is one of its severities.                 *)
LEMMA OverallIs ==
  ASSUME NEW list, FineList(list)
  PROVE  CalculateOverallSeverity(list) \in Severities
<1>. DEFINE S == ToSet(list)
            o(f) == SeverityOrder(f.severity)
            ranks == {5 - o(f) : f \in S}
<1>1. IsList(list) /\ S = {list[i] : i \in 1..Len(list)}
  BY ListIs DEF FineList
<1>2. \A f \in S : Fine(f)
  BY <1>1 DEF FineList
<1>3. \A f \in S : o(f) \in 1..5 /\ f.severity \in Severities
  BY <1>2, OrderIs DEF Fine
<1>4. CASE list = <<>>
  BY <1>4 DEF CalculateOverallSeverity, Severities
<1>5. CASE list # <<>>
  <2>1. S # {}
    <3>. HIDE DEF S
    <3>1. Head(list) \in ToSet(list)
      BY <1>1, <1>5, FirstOf
    <3>. QED
      BY <3>1 DEF S
  <2>. HIDE DEF S, o
  <2>2. ranks \in SUBSET Nat /\ ranks # {}
    BY <1>3, <2>1
  <2>3. PICK m \in ranks : \A k \in Nat : k < m => k \notin ranks
    <3>. HIDE DEF ranks
    <3>. QED
      BY <2>2, LeastOf
  <2>4. PICK g \in S : m = 5 - o(g)
    OBVIOUS
  <2>5. ASSUME NEW h \in S PROVE o(h) <= o(g)
    <3>1. 5 - o(h) \in ranks /\ 5 - o(h) \in Nat
      BY <1>3
    <3>2. ~ (5 - o(h) < 5 - o(g))
      BY <2>3, <2>4, <3>1
    <3>. QED
      BY <1>3, <3>2
  <2>6. g.severity \in Highest(S)
    BY <2>4, <2>5 DEF Highest, o
  <2>7. Highest(S) \subseteq Severities
    BY <1>3 DEF Highest
  <2>8. (CHOOSE s \in Highest(S) : TRUE) \in Highest(S)
    BY <2>6
  <2>9. CalculateOverallSeverity(list) = CHOOSE s \in Highest(S) : TRUE
    BY <1>5 DEF CalculateOverallSeverity, S
  <2>. QED
    BY <2>7, <2>8, <2>9
<1>. QED
  BY <1>4, <1>5

(* Every list of a job holds findings.                                      *)
LEMMA JobListIsFine ==
  ASSUME NEW j, JobShape(j), DynamicJob(j), StaticJob(j)
  PROVE  FineList(j.list)
<1>1. CASE j.pc \in {"idle", "detect"}
  <2>1. j.list = <<>>
    BY <1>1 DEF JobShape
  <2>. QED
    BY <2>1, Singles DEF FineList
<1>2. CASE j.pc \notin {"idle", "detect"} /\ j.generator = "dynamic"
  <2>1. IsList(j.list) /\ \A f \in ToSet(j.list) : Fine(f)
    BY <1>2 DEF DynamicJob, Credits, Credible
  <2>. QED
    BY <2>1, ListIs DEF FineList
<1>3. CASE j.pc \notin {"idle", "detect"} /\ j.generator = "sast"
  BY <1>3 DEF StaticJob, JobShape, Unadvised, Templates, Advised
<1>. QED
  BY <1>1, <1>2, <1>3 DEF JobShape

(* The invariant holds at first,                                            *)
LEMMA InvInit == Init => ReportInv
<1>. SUFFICES ASSUME Init PROVE ReportInv
  OBVIOUS
<1>1. scan \in Scans /\ job = Idle /\ report = NoReport
  BY DEF Init
<1>2. JobShape(Idle) /\ DynamicJob(Idle) /\ StaticJob(Idle)
  BY IdleIs DEF JobShape, DynamicJob, StaticJob
<1>3. SavedRow(Idle, NoReport)
  BY IdleIs DEF SavedRow
<1>. QED
  BY <1>1, <1>2, <1>3 DEF ReportInv

(* The row of a job that is not done is not saved.                          *)
LEMMA Unsaved ==
  ASSUME NEW j, NEW row, SavedRow(j, row), j.pc # "done", NEW new
  PROVE  SavedRow(new, row)
BY DEF SavedRow

(* and every step keeps it.                                                 *)
LEMMA InvNext == ReportInv /\ [Next]_vars => ReportInv'
<1>. SUFFICES ASSUME ReportInv, [Next]_vars PROVE ReportInv'
  OBVIOUS
<1>. USE DEF ReportInv
<1>0. /\ scan \in Scans /\ JobShape(job) /\ DynamicJob(job) /\ StaticJob(job)
      /\ SavedRow(job, report) /\ DOMAIN job = JobFields
  BY DEF JobShape
<1>1. CASE GenerateAfterRun
  <2>. DEFINE w == scan.kind = "sast"
              new == [Idle EXCEPT !.pc = "detect", !.steps = scan.steps,
                         !.generator = scan.kind, !.workspace = w]
  <2>1. job.pc = "idle" /\ job' = new /\ scan' = scan /\ report' = report
    BY <1>1 DEF GenerateAfterRun
  <2>. HIDE DEF w
  <2>2. /\ DOMAIN new = JobFields /\ new.pc = "detect" /\ new.generator = scan.kind
        /\ new.steps = scan.steps /\ new.read = Idle.read /\ new.list = <<>>
        /\ new.templated = {}
    BY IdleIs DEF JobFields
  <2>. HIDE DEF new
  <2>3. JobShape(new) /\ DynamicJob(new) /\ StaticJob(new)
    BY <1>0, <2>2, ScanIs, IdleIs, Begins
  <2>4. SavedRow(new, report)
    BY <1>0, <2>1, Unsaved
  <2>. QED
    BY <1>0, <2>1, <2>3, <2>4
<1>2. CASE Regenerate
  <2>. DEFINE steps == Stored(scan.steps)
              new == [Idle EXCEPT !.pc = "detect", !.steps = steps,
                         !.generator = "dynamic"]
  <2>1. job' = new /\ scan' = scan /\ report' = NoReport
    BY <1>2 DEF Regenerate
  <2>2. Transcript(steps) /\ OneLogin(steps)
    BY <1>0, ScanIs, StoredIsTranscript
  <2>. HIDE DEF steps
  <2>3. /\ DOMAIN new = JobFields /\ new.pc = "detect" /\ new.generator = "dynamic"
        /\ new.steps = steps /\ new.read = Idle.read /\ new.list = <<>>
        /\ new.templated = {}
    BY IdleIs DEF JobFields
  <2>. HIDE DEF new
  <2>4. JobShape(new) /\ DynamicJob(new) /\ StaticJob(new)
    BY <2>2, <2>3, IdleIs, Begins
  <2>5. SavedRow(new, NoReport)
    BY IdleIs DEF SavedRow
  <2>. QED
    BY <1>0, <2>1, <2>4, <2>5
<1>3. CASE Detect
  <2>1. job.pc = "detect" /\ scan' = scan /\ report' = report
    BY <1>3 DEF Detect
  <2>2. PICK found : /\ job' = [job EXCEPT !.pc = "read", !.found = found, !.list = found]
                     /\ job.generator = "sast" => found = ExtractStatic(job.steps)
                     /\ job.generator # "sast" => found \in DetectorFindings(job.steps)
    BY <1>3 DEF Detect
  <2>3. job.generator \in {"dynamic", "sast"}
    BY <1>0, <2>1 DEF JobShape
  <2>4. JobShape(job') /\ DynamicJob(job') /\ StaticJob(job')
    <3>1. CASE job.generator = "dynamic"
      BY <1>0, <2>1, <2>2, <3>1, DynamicDetects
    <3>2. CASE job.generator = "sast"
      BY <1>0, <2>1, <2>2, <3>2, StaticDetects
    <3>. QED
      BY <2>3, <3>1, <3>2
  <2>5. SavedRow(job', report)
    BY <1>0, <2>1, Unsaved
  <2>. QED
    BY <1>0, <2>1, <2>4, <2>5
<1>4. CASE ReadAnswer
  <2>. DEFINE claimed == IF job.generator = "sast" THEN ReadFindings(scan.claims)
                         ELSE ValidateAgentFindings(ClaimedFindings(scan.claims), job.steps)
              list == IF job.generator = "sast" THEN MergeStatic(job.found, claimed)
                      ELSE MergeDynamic(job.found, claimed)
              yes == TRUE
              new == [job EXCEPT !.pc = "rate", !.claimed = claimed, !.read = yes, !.list = list]
  <2>1. job.pc = "read" /\ scan' = scan /\ report' = report /\ job' = new
    BY <1>4 DEF ReadAnswer
  <2>2. job.generator \in {"dynamic", "sast"} /\ Answer(scan.claims)
    BY <1>0, <2>1, ScanIs DEF JobShape
  <2>3. /\ DOMAIN new = JobFields /\ new.pc = "rate" /\ new.claimed = claimed
        /\ new.list = list
        /\ \A x \in {"generator", "steps", "found", "templated"} : new[x] = job[x]
    <3>. HIDE DEF claimed, list, yes
    <3>. QED
      BY <1>0 DEF JobFields
  <2>. HIDE DEF new
  <2>4. JobShape(new) /\ DynamicJob(new) /\ StaticJob(new)
    <3>1. CASE job.generator = "dynamic"
      BY <1>0, <2>1, <2>2, <2>3, <3>1, DynamicReads
    <3>2. CASE job.generator = "sast"
      BY <1>0, <2>1, <2>2, <2>3, <3>2, StaticReads
    <3>. QED
      BY <2>2, <3>1, <3>2
  <2>5. SavedRow(new, report)
    BY <1>0, <2>1, Unsaved
  <2>. QED
    BY <1>0, <2>1, <2>4, <2>5
<1>5. CASE AnswerUnread
  <2>. DEFINE new == [job EXCEPT !.pc = "rate"]
  <2>1. job.pc = "read" /\ scan' = scan /\ report' = report /\ job' = new
    BY <1>5 DEF AnswerUnread
  <2>2. OnlyMoves(new, job) /\ new.pc = "rate"
    BY <1>0, Moves
  <2>. HIDE DEF new
  <2>3. JobShape(new) /\ DynamicJob(new) /\ StaticJob(new)
    BY <1>0, <2>1, <2>2, MovesOn
  <2>4. SavedRow(new, report)
    BY <1>0, <2>1, Unsaved
  <2>. QED
    BY <1>0, <2>1, <2>3, <2>4
<1>6. CASE RateDynamic
  <2>1. /\ job.pc = "rate" /\ job.generator = "dynamic" /\ scan' = scan /\ report' = report
        /\ job' = [job EXCEPT !.pc = "narrate", !.list = EnrichCVSS(@)]
    BY <1>6 DEF RateDynamic
  <2>2. JobShape(job') /\ DynamicJob(job') /\ StaticJob(job')
    BY <1>0, <2>1, DynamicRates
  <2>. QED
    BY <1>0, <2>1, <2>2, Unsaved
<1>7. CASE RateStatic
  <2>. DEFINE rated == ApplyCategories(NormalizeSeverities(job.list))
              shown == IF job.workspace THEN EnrichSnippets(rated) ELSE rated
              l == ApplyTemplates(shown)
              t == Templated(shown)
  <2>1. /\ job.pc = "rate" /\ job.generator = "sast" /\ scan' = scan /\ report' = report
        /\ job' = [job EXCEPT !.pc = "advise", !.list = l, !.templated = t]
    BY <1>7 DEF RateStatic
  <2>2. Templates(job.found, l, t) /\ SamePlaces(l, job.list)
    BY <1>0, <2>1, StaticRated DEF StaticJob
  <2>. HIDE DEF l, t
  <2>3. JobShape(job') /\ DynamicJob(job') /\ StaticJob(job')
    BY <1>0, <2>1, <2>2, StaticRates
  <2>. QED
    BY <1>0, <2>1, <2>3, Unsaved
<1>8. CASE Remediate
  <2>1. PICK answered : job' = [job EXCEPT !.pc = "narrate",
                                  !.list = Splice(@, Asked(@, job.templated), answered)]
    BY <1>8 DEF Remediate
  <2>. DEFINE l == Splice(job.list, Asked(job.list, job.templated), answered)
  <2>2. job.pc = "advise" /\ scan' = scan /\ report' = report
    BY <1>8 DEF Remediate
  <2>3. job' = [job EXCEPT !.pc = "narrate", !.list = l]
    BY <1>0, <2>1 DEF JobFields
  <2>4. JobShape(job') /\ DynamicJob(job') /\ StaticJob(job')
    BY <1>0, <2>2, <2>3, StaticAdvises
  <2>. QED
    BY <1>0, <2>2, <2>4, Unsaved
<1>9. CASE KeepTemplates
  <2>. DEFINE new == [job EXCEPT !.pc = "narrate"]
  <2>1. job.pc = "advise" /\ scan' = scan /\ report' = report
        /\ job' = new
    BY <1>9 DEF KeepTemplates
  <2>2. OnlyMoves(new, job) /\ new.pc = "narrate"
    BY <1>0, Moves
  <2>. HIDE DEF new
  <2>3. JobShape(new) /\ DynamicJob(new) /\ StaticJob(new)
    BY <1>0, <2>1, <2>2, MovesOn
  <2>4. SavedRow(new, report)
    BY <1>0, <2>1, Unsaved
  <2>. QED
    BY <1>0, <2>1, <2>3, <2>4
<1>10. CASE Narrate
  <2>. DEFINE new == [job EXCEPT !.pc = "save"]
  <2>1. job.pc = "narrate" /\ scan' = scan /\ report' = report
        /\ job' = new
    BY <1>10 DEF Narrate
  <2>2. OnlyMoves(new, job) /\ new.pc = "save"
    BY <1>0, Moves
  <2>. HIDE DEF new
  <2>3. JobShape(new) /\ DynamicJob(new) /\ StaticJob(new)
    BY <1>0, <2>1, <2>2, MovesOn
  <2>4. SavedRow(new, report)
    BY <1>0, <2>1, Unsaved
  <2>. QED
    BY <1>0, <2>1, <2>3, <2>4
<1>11. CASE Save
  <2>. DEFINE new == [job EXCEPT !.pc = "done"]
              row == [saved |-> TRUE, listed |-> job.list,
                      statistics |-> CalculateStatistics(job.list, Successes(job.steps)),
                      overall |-> CalculateOverallSeverity(job.list)]
  <2>1. job.pc = "save" /\ scan' = scan /\ report' = row /\ job' = new
    BY <1>11 DEF Save
  <2>2. OnlyMoves(new, job) /\ new.pc = "done"
    BY <1>0, Moves
  <2>. HIDE DEF new
  <2>3. JobShape(new) /\ DynamicJob(new) /\ StaticJob(new)
    BY <1>0, <2>1, <2>2, MovesOn
  <2>4. new.list = job.list
    BY <2>2 DEF OnlyMoves
  <2>5. CalculateOverallSeverity(job.list) \in Severities
    BY <1>0, JobListIsFine, OverallIs
  <2>6. CalculateStatistics(job.list, Successes(job.steps)).total = Len(job.list)
    BY DEF CalculateStatistics
  <2>7. row.listed = job.list /\ row.overall \in Severities /\ row.statistics.total = Len(job.list)
    BY <2>5, <2>6
  <2>. HIDE DEF row
  <2>8. SavedRow(new, row)
    BY <2>2, <2>4, <2>7 DEF SavedRow
  <2>. QED
    BY <1>0, <2>1, <2>3, <2>8
<1>12. CASE SaveFails
  <2>. DEFINE new == [job EXCEPT !.pc = "done"]
  <2>1. job.pc = "save" /\ scan' = scan /\ report' = report
        /\ job' = new
    BY <1>12 DEF SaveFails
  <2>2. OnlyMoves(new, job) /\ new.pc = "done"
    BY <1>0, Moves
  <2>. HIDE DEF new
  <2>3. JobShape(new) /\ DynamicJob(new) /\ StaticJob(new)
    BY <1>0, <2>1, <2>2, MovesOn
  <2>4. SavedRow(new, report)
    BY <1>0, <2>1, Unsaved
  <2>. QED
    BY <1>0, <2>1, <2>3, <2>4
<1>13. CASE ContextEnds
  <2>. DEFINE no == FALSE
  <2>. HIDE DEF no
  <2>. DEFINE new == [job EXCEPT !.live = no]
  <2>1. job.pc # "done" /\ scan' = scan /\ report' = report /\ job' = new
    BY <1>13 DEF ContextEnds, no
  <2>2. OnlyMoves(new, job) /\ new.pc = job.pc
    BY <1>0 DEF OnlyMoves, JobFields
  <2>. HIDE DEF new
  <2>3. JobShape(new) /\ DynamicJob(new) /\ StaticJob(new)
    BY <1>0, <2>1, <2>2, MovesOn
  <2>4. SavedRow(new, report)
    BY <1>0, <2>1, Unsaved
  <2>. QED
    BY <1>0, <2>1, <2>3, <2>4
<1>14. CASE UNCHANGED vars
  BY <1>14 DEF vars
<1>. QED
  BY <1>1, <1>2, <1>3, <1>4, <1>5, <1>6, <1>7, <1>8, <1>9, <1>10, <1>11, <1>12, <1>13, <1>14
     DEF Next

(* What the properties of a report need of the invariant.                   *)
LEMMA InvTyped == ReportInv => TypeOK
<1>. SUFFICES ASSUME ReportInv PROVE TypeOK
  OBVIOUS
<1>1. scan \in Scans /\ JobShape(job) /\ DynamicJob(job) /\ StaticJob(job) /\ SavedRow(job, report)
  BY DEF ReportInv
<1>2. FineList(job.list)
  BY <1>1, JobListIsFine
<1>3. ToSet(job.list) = {job.list[i] : i \in 1..Len(job.list)}
  BY <1>2, ListIs DEF FineList
<1>4. \A f \in ToSet(job.list) : Fine(f)
  BY <1>2, <1>3 DEF FineList
<1>5. job.templated \subseteq 1..Len(job.list)
  <2>1. CASE job.generator = "sast" /\ job.pc \notin {"detect", "read", "rate"}
    BY <1>1, <2>1 DEF JobShape, StaticJob, Templates
  <2>2. CASE job.generator # "sast" \/ job.pc \in {"detect", "read", "rate"}
    BY <1>1, <2>2 DEF JobShape
  <2>. QED
    BY <2>1, <2>2
<1>6. ASSUME report.saved
      PROVE  /\ report.listed = job.list
             /\ report.statistics.total = Len(report.listed)
             /\ report.overall \in Severities
             /\ job.generator = "sast" => \A f \in ToSet(report.listed) : ~ IsGeneric(f)
  <2>1. /\ job.pc = "done" /\ report.listed = job.list
        /\ report.statistics.total = Len(job.list) /\ report.overall \in Severities
    BY <1>1, <1>6 DEF SavedRow
  <2>2. ASSUME job.generator = "sast", NEW f \in ToSet(report.listed)
        PROVE  ~ IsGeneric(f)
    <3>1. PICK i \in 1..Len(job.list) : f = job.list[i]
      BY <1>3, <2>1, <2>2
    <3>2. job.list[i].type # "SAST"
      BY <1>1, <2>1, <2>2 DEF StaticJob, Advised
    <3>. QED
      BY <3>1, <3>2 DEF IsGeneric
  <2>. QED
    BY <2>1, <2>2
<1>7. job.pc \in {"idle", "detect", "read", "rate", "advise", "narrate", "save", "done"}
  BY <1>1 DEF JobShape
<1>. QED
  BY <1>1, <1>4, <1>5, <1>6, <1>7 DEF TypeOK, Fine

(* The other properties.                                                    *)
LEMMA InvListsProofs == ReportInv => ProofReachesTheReport
<1>. SUFFICES ASSUME ReportInv, report.saved, job.generator = "dynamic"
              PROVE  /\ \A p \in ProofsIn(job.steps) :
                          \E f \in ToSet(report.listed) : /\ f.status = "validated"
                                                          /\ MergeKey(f) = <<p.class, p.at>>
                     /\ (\E i, j \in LastReads(job.steps) : OtherOwner(job.steps[i], job.steps[j])) =>
                          \E f \in ToSet(report.listed) :
                            f.status = "validated" /\ MergeKey(f)[1] = "broken_access_control"
  BY DEF ProofReachesTheReport
<1>1. DynamicJob(job) /\ job.pc = "done" /\ report.listed = job.list
  BY DEF ReportInv, SavedRow
<1>2. /\ Credits(job.steps, job.found) /\ Proves(job.steps, job.found)
      /\ Credits(job.steps, job.list) /\ \A f \in ToSet(job.found) : Covers(job.list, f)
  BY <1>1 DEF DynamicJob
<1>. QED
  BY <1>1, <1>2, ProofsAreListed

(* ValidatedWasExercised.                                                   *)
LEMMA InvValidatesExercised == ReportInv => ValidatedWasExercised
<1>. SUFFICES ASSUME ReportInv, report.saved, job.generator = "dynamic",
                     NEW f \in ToSet(report.listed)
              PROVE  /\ f.verified <=> f.status = "validated"
                     /\ f.status = "validated" =>
                          \/ AppWide(NormalizeLocation(f.at))
                          \/ \E s \in ToSet(job.steps) :
                               \E at \in {s.at} \cup {l.at : l \in ToSet(s.lines)} :
                                 SameFamily(NormalizeLocation(f.at), NormalizeLocation(at))
  BY DEF ValidatedWasExercised
<1>1. DynamicJob(job) /\ job.pc = "done" /\ report.listed = job.list
  BY DEF ReportInv, SavedRow
<1>2. Credible(job.steps, f)
  BY <1>1 DEF DynamicJob, Credits
<1>. QED
  BY <1>2 DEF Credible, Exercised, Places

(* MergeKeepsTheBest.                                                       *)
LEMMA InvMergesBest == ReportInv => MergeKeepsTheBest
<1>. SUFFICES ASSUME ReportInv, job.generator = "dynamic", job.read
              PROVE  /\ \A i, j \in 1..Len(job.list) :
                          MergeKey(job.list[i]) = MergeKey(job.list[j]) => i = j
                     /\ \A f \in ToSet(job.found \o job.claimed) :
                          \E g \in ToSet(job.list) :
                            MergeKey(g) = MergeKey(f) /\ VulnScore(g) >= VulnScore(f)
  BY DEF MergeKeepsTheBest
<1>1. JobShape(job) /\ DynamicJob(job)
  BY DEF ReportInv
<1>2. /\ Credits(job.steps, job.found) /\ Credits(job.steps, job.claimed) /\ Unique(job.list)
      /\ \A f \in ToSet(job.found) : Covers(job.list, f)
      /\ \A f \in ToSet(job.claimed) : Covers(job.list, f)
  BY <1>1 DEF JobShape, DynamicJob
<1>3. ToSet(job.found \o job.claimed) = ToSet(job.found) \cup ToSet(job.claimed)
  BY <1>2, Joined DEF Credits
<1>. QED
  BY <1>2, <1>3 DEF Unique, Covers

(* StaticFindingsSurvive.                                                   *)
LEMMA InvKeepsFindings == ReportInv => StaticFindingsSurvive
<1>. SUFFICES ASSUME ReportInv, job.generator = "sast", job.read,
                     NEW f \in ToSet(job.found \o job.claimed), ~ FileLevel(f)
              PROVE  IF IsGeneric(f)
                     THEN \/ \E g \in ToSet(job.list) : Near(f, g)
                          \/ \E g \in ToSet(job.found \o job.claimed) :
                               FileLevel(g) /\ g.at = f.at
                     ELSE \E g \in ToSet(job.list) : StaticKey(g) = StaticKey(f)
  BY DEF StaticFindingsSurvive
<1>1. JobShape(job) /\ StaticJob(job)
  BY DEF ReportInv
<1>2. /\ RawFindings(job.found) /\ RawFindings(job.claimed)
      /\ \A h \in ToSet(job.found) \cup ToSet(job.claimed) :
           Survives(job.list, ToSet(job.found) \cup ToSet(job.claimed), h)
  BY <1>1 DEF JobShape, StaticJob
<1>3. ToSet(job.found \o job.claimed) = ToSet(job.found) \cup ToSet(job.claimed)
  BY <1>2, Joined DEF RawFindings
<1>4. Survives(job.list, ToSet(job.found \o job.claimed), f)
  BY <1>2, <1>3
<1>. QED
  BY <1>4 DEF Survives, Listed

(* AdviceIsPerSource.                                                       *)
LEMMA InvAdvises == ReportInv => AdviceIsPerSource
<1>. SUFFICES ASSUME ReportInv, report.saved, job.generator = "sast",
                     NEW f \in ToSet(report.listed)
              PROVE  /\ f.advice # "generic"
                     /\ f.advice = "model" => f.code
                     /\ f.advice # "own" => Sourced(job.found, f)
  BY DEF AdviceIsPerSource, Sourced
<1>1. StaticJob(job) /\ job.pc = "done" /\ report.listed = job.list
  BY DEF ReportInv, SavedRow
<1>2. Advised(job.found, job.list)
  BY <1>1 DEF StaticJob
<1>3. PICK i \in 1..Len(job.list) : f = job.list[i]
  BY <1>1, <1>2, ListIs DEF Advised, FineList
<1>. QED
  BY <1>2, <1>3 DEF Advised

-----------------------------------------------------------------------------
(* Theorems.                                                               *)

(* Every generation keeps the invariant: what its findings are, which of    *)
(* them it may credit, and what of them each stage has kept.                *)
THEOREM ReportSafe == Spec => []ReportInv
<1>1. Init => ReportInv
  BY InvInit
<1>2. ReportInv /\ [Next]_vars => ReportInv'
  BY InvNext
<1>. QED
  BY <1>1, <1>2, PTL DEF Spec

(* Every listed finding has a known severity, status and advice, a saved    *)
(* report counts and rates its own list, and no marker type of a static     *)
(* scan reaches it (GenerateReport, GenerateStaticReport).                  *)
THEOREM ReportsAreTyped == Spec => []TypeOK
BY ReportSafe, InvTyped, PTL

(* What the transcript of a dynamic scan proves is listed as validated,     *)
(* whatever the agent claims and whichever call fails (report.go 38-160).   *)
THEOREM ProofsReachTheReport == Spec => []ProofReachesTheReport
BY ReportSafe, InvListsProofs, PTL

(* No place is credited that the scan never went to                         *)
(* (validateAgentFindings, setDeterministicStatus).                         *)
THEOREM OnlyExercisedIsValidated == Spec => []ValidatedWasExercised
BY ReportSafe, InvValidatesExercised, PTL

(* The merge lists each vulnerability once, by a finding worth at least as  *)
(* much as every one merged into it (mergeDynamicVulns, vulnScore).         *)
THEOREM TheBestIsListed == Spec => []MergeKeepsTheBest
BY ReportSafe, InvMergesBest, PTL

(* A finding of a static scan with a line of its own outlives the merge     *)
(* (mergeStaticVulns).                                                      *)
THEOREM OwnLinesSurvive == Spec => []StaticFindingsSurvive
BY ReportSafe, InvKeepsFindings, PTL

(* Advice is the finding's own, or replaces a placeholder of the detectors  *)
(* at the same line; only where code was shown is it the model's            *)
(* (applyRemediationTemplates, enrichRemediationExamples).                  *)
THEOREM AdviceReplacesPlaceholders == Spec => []AdviceIsPerSource
BY ReportSafe, InvAdvises, PTL

-----------------------------------------------------------------------------
(* Dashboard.                                                              *)

USE DashboardAssumption

-----------------------------------------------------------------------------
(* Windows.                                                                *)

(* A day starts at a multiple of its length, and days only pass.           *)
LEMMA DayStarts ==
  ASSUME NEW now \in Nat
  PROVE  /\ now \div PerDay \in Nat /\ StartOfDay(now) = PerDay * (now \div PerDay)
         /\ now \div PerDay <= (now + 1) \div PerDay
<1>. DEFINE d == now \div PerDay
            m == now % PerDay
            e == (now + 1) \div PerDay
            n == (now + 1) % PerDay
<1>1. d \in Int /\ m \in 0 .. PerDay - 1 /\ now = (PerDay * d) + m
  OBVIOUS
<1>2. e \in Int /\ n \in 0 .. PerDay - 1 /\ now + 1 = (PerDay * e) + n
  OBVIOUS
<1>3. StartOfDay(now) = now - m
  BY DEF StartOfDay
<1>. HIDE DEF d, m, e, n
<1>4. d >= 0
  BY <1>1
<1>5. d <= e
  BY <1>1, <1>2
<1>. QED
  BY <1>1, <1>3, <1>4, <1>5 DEF d, e

(* A later time falls on no earlier day.                                   *)
LEMMA DivGrows ==
  ASSUME NEW a \in Nat, NEW b \in Nat, a <= b
  PROVE  a \div PerDay <= b \div PerDay
<1>. DEFINE d == a \div PerDay
            m == a % PerDay
            e == b \div PerDay
            n == b % PerDay
<1>1. d \in Int /\ m \in 0 .. PerDay - 1 /\ a = (PerDay * d) + m
  OBVIOUS
<1>2. e \in Int /\ n \in 0 .. PerDay - 1 /\ b = (PerDay * e) + n
  OBVIOUS
<1>. HIDE DEF d, m, e, n
<1>3. d <= e
  BY <1>1, <1>2
<1>. QED
  BY <1>3 DEF d, e

(* A window's beginning never moves back.                                   *)
LEMMA WindowMoves ==
  ASSUME NEW now \in Nat, now + 1 \in 0 .. MaxClock, NEW q,
         ~ Explicit(q), q.range \in Shorthands
  PROVE  /\ ResolveDateRange(q, now).from \in Int
         /\ ResolveDateRange(q, now + 1).from \in Int
         /\ ResolveDateRange(q, now).from <= ResolveDateRange(q, now + 1).from
         /\ ResolveDateRange(q, now).to = now
         /\ ResolveDateRange(q, now + 1).to = now + 1
<1>. DEFINE d == now \div PerDay
            e == (now + 1) \div PerDay
<1>1. d \in Nat /\ e \in Nat /\ d <= e
  BY DayStarts, now + 1 \in Nat
<1>2. StartOfDay(now) = PerDay * d /\ StartOfDay(now + 1) = PerDay * e
  BY DayStarts, now + 1 \in Nat
<1>3. Weekday(now) = d % 7 /\ Weekday(now + 1) = e % 7
  BY DEF Weekday
<1>. DEFINE first == MonthStart[d]
            second == MonthStart[e]
<1>0. first \in Int /\ second \in Int /\ first <= second
  <2>1. e <= MaxClock \div PerDay
    <3>1. now + 1 \in Nat /\ MaxClock \in Nat /\ now + 1 <= MaxClock
      OBVIOUS
    <3>2. \A a, b \in Nat : a <= b => a \div PerDay <= b \div PerDay
      BY DivGrows
    <3>. QED
      BY <3>1, <3>2
  <2>2. MaxClock \div PerDay \in Int
    OBVIOUS
  <2>. HIDE DEF d, e
  <2>3. d \in Days /\ e \in Days
    BY <1>1, <2>1, <2>2 DEF Days
  <2>4. MonthStart[d] \in Int /\ MonthStart[e] \in Int /\ (d <= e => MonthStart[d] <= MonthStart[e])
    BY <2>3, Zenon
  <2>. QED
    BY <1>1, <2>4
<1>9. /\ ResolveDateRange(q, now).to = now
      /\ ResolveDateRange(q, now + 1).to = now + 1
  BY DEF ResolveDateRange
<1>10. /\ q.range = "this_month" => /\ ResolveDateRange(q, now).from = first * PerDay
                                    /\ ResolveDateRange(q, now + 1).from = second * PerDay
       /\ q.range = "today" => /\ ResolveDateRange(q, now).from = PerDay * d
                               /\ ResolveDateRange(q, now + 1).from = PerDay * e
       /\ q.range = "7d" => /\ ResolveDateRange(q, now).from = (PerDay * d) - (6 * PerDay)
                            /\ ResolveDateRange(q, now + 1).from = (PerDay * e) - (6 * PerDay)
       /\ q.range = "30d" => /\ ResolveDateRange(q, now).from = (PerDay * d) - (29 * PerDay)
                             /\ ResolveDateRange(q, now + 1).from = (PerDay * e) - (29 * PerDay)
       /\ q.range = "this_week" =>
            /\ ResolveDateRange(q, now).from = (PerDay * d) - ((d % 7) * PerDay)
            /\ ResolveDateRange(q, now + 1).from = (PerDay * e) - ((e % 7) * PerDay)
  BY <1>2, <1>3 DEF ResolveDateRange, DaysBack
<1>. HIDE DEF d, e, first, second
<1>4. PerDay * d \in Int /\ PerDay * e \in Int /\ PerDay * d <= PerDay * e
  BY <1>1
<1>5. d % 7 \in 0 .. 6 /\ e % 7 \in 0 .. 6 /\ d - (d % 7) <= e - (e % 7)
  BY <1>1
<1>6. \A a, b \in Int : (PerDay * a) - (b * PerDay) = PerDay * (a - b)
  OBVIOUS
<1>7. /\ PerDay * (d - (d % 7)) \in Int /\ PerDay * (e - (e % 7)) \in Int
      /\ PerDay * (d - (d % 7)) <= PerDay * (e - (e % 7))
  BY <1>1, <1>5
<1>8. first * PerDay \in Int /\ second * PerDay \in Int /\ first * PerDay <= second * PerDay
  BY <1>0
<1>11. CASE q.range = "today"
  BY <1>4, <1>9, <1>10, <1>11
<1>12. CASE q.range = "7d"
  BY <1>4, <1>9, <1>10, <1>12
<1>13. CASE q.range = "30d"
  BY <1>4, <1>9, <1>10, <1>13
<1>14. CASE q.range = "this_month"
  BY <1>8, <1>9, <1>10, <1>14
<1>15. CASE q.range = "this_week"
  <2>2. d \in Int /\ e \in Int /\ d % 7 \in Int /\ e % 7 \in Int
    BY <1>1, <1>5
  <2>. DEFINE w == d % 7
              v == e % 7
  <2>3. /\ (PerDay * d) - (w * PerDay) = PerDay * (d - w)
        /\ (PerDay * e) - (v * PerDay) = PerDay * (e - v)
    <3>. HIDE DEF w, v
    <3>. QED
      BY <1>6, <2>2 DEF w, v
  <2>4. /\ ResolveDateRange(q, now).from = PerDay * (d - (d % 7))
        /\ ResolveDateRange(q, now + 1).from = PerDay * (e - (e % 7))
    BY <1>10, <1>15, <2>3
  <2>. QED
    BY <1>7, <1>9, <2>4
<1>. QED
  BY <1>11, <1>12, <1>13, <1>14, <1>15 DEF Shorthands

(* Any other window stands still.                                           *)
LEMMA WindowStands ==
  ASSUME NEW q, Explicit(q) \/ q.range \notin Shorthands, NEW now, NEW later
  PROVE  ResolveDateRange(q, now) = ResolveDateRange(q, later)
BY DEF ResolveDateRange

(* Whatever limit is asked for, the one used is a number of reports.       *)
LEMMA LimitIsNumber == \A q \in Queries : NormalizeLimit(q.limit) \in Nat
BY DEF NormalizeLimit

-----------------------------------------------------------------------------
(* Ranks: where a report stands in a list, newest first.                   *)

Newer(M, r) == {s \in M : s.created > r.created}
Rank(M, r) == Cardinality(Newer(M, r))

(* Finitely many reports, each filed under a time.                          *)
Filed(M) == IsFiniteSet(M) /\ \A r \in M : r.created \in Nat

(* A set without one of the members of another is smaller.                 *)
LEMMA FewerMembers ==
  ASSUME NEW S, NEW T, IsFiniteSet(S), T \subseteq S, NEW x \in S, x \notin T
  PROVE  /\ IsFiniteSet(T) /\ Cardinality(T) \in Nat /\ Cardinality(S) \in Nat
         /\ Cardinality(T) < Cardinality(S)
<1>1. /\ IsFiniteSet(T) /\ Cardinality(T) <= Cardinality(S)
      /\ Cardinality(S) = Cardinality(T) => S = T
  BY FS_Subset
<1>2. Cardinality(T) \in Nat /\ Cardinality(S) \in Nat
  BY <1>1, FS_CardinalityType
<1>3. S # T
  OBVIOUS
<1>. QED
  BY <1>1, <1>2, <1>3

(* A report of a list of n has a rank below n.                             *)
LEMMA RankIsNumber ==
  ASSUME NEW M, Filed(M), NEW r \in M
  PROVE  /\ Rank(M, r) \in Nat /\ Cardinality(M) \in Nat
         /\ Rank(M, r) < Cardinality(M)
<1>1. IsFiniteSet(M) /\ Newer(M, r) \subseteq M /\ r \notin Newer(M, r)
  BY DEF Filed, Newer
<1>. QED
  BY <1>1, FewerMembers DEF Rank

(* The first numbers are as many as the last of them says.                 *)
LEMMA FirstNumbers ==
  ASSUME NEW n \in Nat
  PROVE  IsFiniteSet(1..n) /\ Cardinality(1..n) = n
<1>1. 1 \in Int /\ n \in Int
  OBVIOUS
<1>2. IsFiniteSet(1..n) /\ Cardinality(1..n) = IF 1 > n THEN 0 ELSE n - 1 + 1
  BY <1>1, FS_Interval, Zenon
<1>. QED
  BY <1>2

(* An order of a set holds each of its reports once, newest first.          *)
LEMMA OrderHolds ==
  ASSUME NEW M, Filed(M), NEW list \in Orders(M)
  PROVE  /\ Cardinality(M) \in Nat /\ Len(list) = Cardinality(M)
         /\ DOMAIN list = 1..Len(list)
         /\ \A i \in 1..Len(list) : list[i] \in M
         /\ \A i, j \in 1..Len(list) : list[i] = list[j] => i = j
         /\ \A r \in M : \E i \in 1..Len(list) : list[i] = r
         /\ \A i, j \in 1..Len(list) : i < j => list[i].created >= list[j].created
         /\ ToSet(list) = M
<1>. DEFINE n == Cardinality(M)
<1>1. n \in Nat /\ IsFiniteSet(M)
  BY FS_CardinalityType DEF Filed
<1>2. /\ list \in [1..n -> M]
      /\ \A i, j \in 1..n : i # j => list[i] # list[j]
      /\ \A i, j \in DOMAIN list : i < j => list[i].created >= list[j].created
  BY DEF Orders, SetToSeqs
<1>3. IsFiniteSet(1..n) /\ Cardinality(1..n) = n
  BY <1>1, FirstNumbers
<1>4. list \in Injection(1..n, M)
  BY <1>2 DEF Injection, IsInjective
<1>5. list \in Surjection(1..n, M)
  <2>1. Cardinality(1..n) = Cardinality(M)
    BY <1>3
  <2>. HIDE DEF n
  <2>. QED
    BY <1>1, <1>4, <2>1, FS_Injection
<1>. HIDE DEF n
<1>6. DOMAIN list = 1..n /\ Len(list) = n
  BY <1>1, <1>2
<1>7. \A r \in M : \E i \in 1..n : list[i] = r
  BY <1>5 DEF Surjection
<1>8. ToSet(list) = M
  <2>1. ToSet(list) = {list[i] : i \in 1..n}
    BY <1>6 DEF ToSet
  <2>. QED
    BY <1>2, <1>7, <2>1
<1>. QED
  BY <1>1, <1>2, <1>6, <1>7, <1>8 DEF n

(* Whatever the order, a report alone in its time stands where its rank     *)
(* says: before it are those newer than it, and only those.                 *)
LEMMA ListedAtRank ==
  ASSUME NEW M, Filed(M), NEW list \in Orders(M), NEW r \in M, Alone(M, r)
  PROVE  Rank(M, r) + 1 \in 1..Len(list) /\ list[Rank(M, r) + 1] = r
<1>1. /\ Len(list) \in Nat
      /\ \A i \in 1..Len(list) : list[i] \in M
      /\ \A i, j \in 1..Len(list) : list[i] = list[j] => i = j
      /\ \A s \in M : \E i \in 1..Len(list) : list[i] = s
      /\ \A i, j \in 1..Len(list) : i < j => list[i].created >= list[j].created
  BY OrderHolds
<1>2. PICK k \in 1..Len(list) : list[k] = r
  BY <1>1
<1>3. \A s \in M : s.created \in Nat /\ (s.created = r.created => s = r)
  BY DEF Filed, Alone
<1>4. \A i \in 1..Len(list) : i < k => list[i].created > r.created
  BY <1>1, <1>2, <1>3
<1>5. \A i \in 1..Len(list) : ~ (i < k) => ~ (list[i].created > r.created)
  BY <1>1, <1>2, <1>3
<1>. DEFINE before == [i \in 1..(k - 1) |-> list[i]]
<1>6. k - 1 \in Nat /\ \A i \in 1..(k - 1) : i \in 1..Len(list) /\ i < k
  BY <1>1, <1>2
<1>7. before \in [1..(k - 1) -> Newer(M, r)]
  BY <1>1, <1>4, <1>6 DEF Newer
<1>8. \A i, j \in 1..(k - 1) : before[i] = before[j] => i = j
  BY <1>1, <1>6
<1>9. \A s \in Newer(M, r) : \E i \in 1..(k - 1) : before[i] = s
  <2>. SUFFICES ASSUME NEW s \in Newer(M, r) PROVE \E i \in 1..(k - 1) : before[i] = s
    OBVIOUS
  <2>1. s \in M /\ s.created > r.created
    BY DEF Newer
  <2>2. PICK i \in 1..Len(list) : list[i] = s
    BY <1>1, <2>1
  <2>3. i < k
    BY <1>5, <2>1, <2>2
  <2>4. i \in 1..(k - 1)
    BY <1>6, <2>2, <2>3
  <2>. QED
    BY <2>2, <2>4
<1>. HIDE DEF before
<1>10. before \in Bijection(1..(k - 1), Newer(M, r))
  BY <1>7, <1>8, <1>9 DEF Bijection, Injection, Surjection, IsInjective
<1>11. ExistsBijection(1..(k - 1), Newer(M, r))
  BY <1>10 DEF ExistsBijection
<1>12. IsFiniteSet(1..(k - 1)) /\ Cardinality(1..(k - 1)) = k - 1
  BY <1>6, FirstNumbers
<1>13. Rank(M, r) = k - 1
  BY <1>11, <1>12, FS_Bijection DEF Rank
<1>. QED
  BY <1>1, <1>2, <1>13

(* More reports move a report back, if at all.                              *)
LEMMA RankGrows ==
  ASSUME NEW M, NEW N, Filed(N), M \subseteq N, NEW r \in M
  PROVE  Rank(M, r) <= Rank(N, r) /\ Rank(M, r) \in Nat /\ Rank(N, r) \in Nat
<1>1. Newer(M, r) \subseteq Newer(N, r)
  BY DEF Newer
<1>2. IsFiniteSet(Newer(N, r))
  BY FS_Subset DEF Filed, Newer
<1>. QED
  BY <1>1, <1>2, FS_Subset, FS_CardinalityType DEF Rank

(* A set may lose only the oldest without moving those that stay.           *)
LEMMA RankStays ==
  ASSUME NEW M, NEW from \in Int, NEW r, r.created >= from, r.created \in Int,
         \A s \in M : s.created \in Int
  PROVE  Rank({s \in M : s.created >= from}, r) = Rank(M, r)
<1>1. Newer({s \in M : s.created >= from}, r) = Newer(M, r)
  BY DEF Newer
<1>. QED
  BY <1>1 DEF Rank

-----------------------------------------------------------------------------
(* The table.                                                              *)

(* Reports are filed under times none later than now, and carry the numbers *)
(* given out so far; what is not saved yet has a number of its own.         *)
TableFine ==
  /\ clock \in 0 .. MaxClock /\ begun \in Nat
  /\ IsFiniteSet(rows)
  /\ \A r \in rows \cup pending : r.created \in 0 .. clock /\ r.id \in 1 .. begun
  /\ \A p, o \in pending : p.id = o.id => p = o
  /\ \A r \in rows, p \in pending : r.id # p.id

(* The reports of T a query finds at a time.                                *)
Found(T, q, now) ==
  {r \in T : /\ q.user \in {All, r.user}
             /\ r.created >= ResolveDateRange(q, now).from
             /\ r.created <= ResolveDateRange(q, now).to}

(* A list of a filed table is filed itself.                                *)
LEMMA FoundFiled ==
  ASSUME NEW T, Filed(T), NEW q, NEW now
  PROVE  Filed(Found(T, q, now))
<1>1. Found(T, q, now) \subseteq T
  BY DEF Found
<1>2. IsFiniteSet(Found(T, q, now))
  BY <1>1, FS_Subset DEF Filed
<1>. QED
  BY <1>1, <1>2 DEF Filed

(* The table is filed.                                                     *)
LEMMA TableFiled == TableFine => Filed(rows)
BY DEF TableFine, Filed

(* When the clock moves a list loses its oldest reports, if any, and all of *)
(* one time together.                                                       *)
LEMMA FoundLater ==
  ASSUME TableFine, clock + 1 \in 0 .. MaxClock, NEW q
  PROVE  \A r \in Found(rows, q, clock + 1) :
           /\ r \in Found(rows, q, clock)
           /\ Rank(Found(rows, q, clock + 1), r) = Rank(Found(rows, q, clock), r)
           /\ Alone(Found(rows, q, clock + 1), r) => Alone(Found(rows, q, clock), r)
<1>. DEFINE M == Found(rows, q, clock)
            N == Found(rows, q, clock + 1)
            from == ResolveDateRange(q, clock).from
            later == ResolveDateRange(q, clock + 1).from
<1>1. CASE Explicit(q) \/ q.range \notin Shorthands
  <2>1. N = M
    BY <1>1, WindowStands, Zenon DEF Found
  <2>. HIDE DEF M, N
  <2>. QED
    BY <2>1 DEF M, N
<1>2. CASE ~ Explicit(q) /\ q.range \in Shorthands
  <2>1. clock \in Nat /\ \A r \in rows : r.created \in 0 .. clock
    BY DEF TableFine
  <2>2. /\ from \in Int /\ later \in Int /\ from <= later
        /\ ResolveDateRange(q, clock).to = clock
        /\ ResolveDateRange(q, clock + 1).to = clock + 1
    BY <1>2, <2>1, WindowMoves
  <2>3. /\ M = {r \in rows : q.user \in {All, r.user} /\ r.created >= from /\ r.created <= clock}
        /\ N = {r \in rows : /\ q.user \in {All, r.user}
                             /\ r.created >= later /\ r.created <= clock + 1}
    BY <2>2 DEF Found
  <2>. HIDE DEF M, N, from, later
  <2>4. \A r \in rows : r.created \in Int /\ r.created <= clock /\ r.created <= clock + 1
    BY <2>1
  <2>5. N = {r \in M : r.created >= later}
    BY <2>2, <2>3, <2>4
  <2>6. \A r \in N : r \in M /\ r.created >= later /\ r.created \in Int
    BY <2>3, <2>4, <2>5
  <2>7. \A s \in M : s.created \in Int
    BY <2>3, <2>4
  <2>8. \A r \in N : Rank(N, r) = Rank(M, r)
    BY <2>2, <2>5, <2>6, <2>7, RankStays
  <2>9. \A r \in N : Alone(N, r) => Alone(M, r)
    BY <2>5, <2>6 DEF Alone
  <2>. QED
    BY <2>6, <2>8, <2>9 DEF M, N
<1>. QED
  BY <1>1, <1>2

-----------------------------------------------------------------------------
(* The reader.                                                             *)

Fields == {"open", "done", "query", "page", "seen", "began", "lost"}
Reading(x) ==
  /\ x = [field \in Fields |-> x[field]] /\ x.open
  /\ x.query \in Queries /\ x.page \in Nat \ {0}

Limit(q) == NormalizeLimit(q.limit)

(* Of the reports the reading began with, those alone in their time and on  *)
(* the pages behind it have been seen: the list moves them back only.  What *)
(* is not saved yet was not among them.                                     *)
ReaderFine ==
  reader # Closed =>
    /\ Reading(reader)
    /\ reader.began \subseteq 1 .. begun
    /\ \A p \in pending : p.id \notin reader.began
    /\ ~ reader.lost =>
         \A r \in Found(rows, reader.query, clock) :
           /\ r.id \in reader.began
           /\ Alone(Found(rows, reader.query, clock), r)
           /\ reader.done
              \/ Rank(Found(rows, reader.query, clock), r)
                   < (reader.page - 1) * Limit(reader.query)
           => r.id \in reader.seen

PagingInv == TableFine /\ ReaderFine

(* What is found is what the code selects.                                 *)
LEMMA FoundIsMatching ==
  ASSUME NEW q
  PROVE  Matching(q.user, ResolveDateRange(q, clock)) = Found(rows, q, clock)
BY DEF Matching, Found

(* The board starts empty and unread.                                      *)
LEMMA PagingInit == BoardInit => PagingInv
<1>. SUFFICES ASSUME BoardInit PROVE PagingInv
  OBVIOUS
<1>1. IsFiniteSet({})
  BY FS_EmptySet
<1>. QED
  BY <1>1 DEF BoardInit, PagingInv, TableFine, ReaderFine

(* The clock may take the oldest from the list: nobody loses his place.    *)
LEMMA TickStep ==
  ASSUME PagingInv, Tick
  PROVE  PagingInv'
<1>1. /\ clock' = clock + 1 /\ clock + 1 \in 0 .. MaxClock
      /\ begun' = begun /\ pending' = pending /\ rows' = rows /\ reader' = reader
  BY DEF Tick, PagingInv, TableFine
<1>2. TableFine'
  BY <1>1 DEF PagingInv, TableFine
<1>3. ReaderFine'
  <2>. SUFFICES ASSUME reader # Closed, ~ reader.lost,
                       NEW r \in Found(rows, reader.query, clock + 1),
                       r.id \in reader.began,
                       Alone(Found(rows, reader.query, clock + 1), r),
                       \/ reader.done
                       \/ Rank(Found(rows, reader.query, clock + 1), r)
                            < (reader.page - 1) * Limit(reader.query)
                PROVE  r.id \in reader.seen
    BY <1>1 DEF PagingInv, ReaderFine
  <2>1. /\ r \in Found(rows, reader.query, clock)
        /\ Rank(Found(rows, reader.query, clock + 1), r)
             = Rank(Found(rows, reader.query, clock), r)
        /\ Alone(Found(rows, reader.query, clock), r)
    BY <1>1, FoundLater DEF PagingInv
  <2>. QED
    BY <2>1 DEF PagingInv, ReaderFine
<1>. QED
  BY <1>2, <1>3 DEF PagingInv

(* A generation that begins takes a number nobody has.                     *)
LEMMA BeginStep ==
  ASSUME PagingInv, NEW u \in Users, Begin(u)
  PROVE  PagingInv'
<1>. DEFINE p == [id |-> begun + 1, user |-> u, created |-> clock]
<1>1. /\ begun' = begun + 1 /\ pending' = pending \cup {p}
      /\ clock' = clock /\ rows' = rows /\ reader' = reader
  BY DEF Begin
<1>2. p.id = begun + 1 /\ p.created = clock
  OBVIOUS
<1>. HIDE DEF p
<1>3. begun \in Nat /\ clock \in Nat /\ \A o \in pending \cup rows : o.id \in 1 .. begun
  BY DEF PagingInv, TableFine
<1>4. \A o \in pending \cup rows : o.id # p.id /\ o.id \in 1 .. begun'
  BY <1>1, <1>2, <1>3
<1>5. p.created \in 0 .. clock /\ p.id \in 1 .. begun' /\ begun' \in Nat
  BY <1>1, <1>2, <1>3
<1>6. TableFine'
  BY <1>1, <1>4, <1>5 DEF PagingInv, TableFine
<1>7. ReaderFine'
  <2>. SUFFICES ASSUME reader # Closed
                PROVE  /\ reader.began \subseteq 1 .. begun + 1
                       /\ p.id \notin reader.began
    BY <1>1 DEF PagingInv, ReaderFine
  <2>1. reader.began \subseteq 1 .. begun
    BY DEF PagingInv, ReaderFine
  <2>. QED
    BY <2>1, <1>2, <1>3
<1>. QED
  BY <1>6, <1>7 DEF PagingInv

(* A report saved only moves others back.                                  *)
LEMMA SaveStep ==
  ASSUME PagingInv, NEW p \in pending, SaveReport(p)
  PROVE  PagingInv'
<1>1. PICK c \in Contents :
        rows' = rows \cup {[id |-> p.id, user |-> p.user, created |-> p.created,
                            overall |-> c.overall, list |-> c.list]}
  BY DEF SaveReport
<1>. DEFINE row == [id |-> p.id, user |-> p.user, created |-> p.created,
                    overall |-> c.overall, list |-> c.list]
<1>2. /\ rows' = rows \cup {row} /\ pending' = pending \ {p}
      /\ clock' = clock /\ begun' = begun /\ reader' = reader
  BY <1>1 DEF SaveReport
<1>3. row.id = p.id /\ row.created = p.created
  OBVIOUS
<1>. HIDE DEF row
<1>4. IsFiniteSet(rows')
  BY <1>2, FS_AddElement DEF PagingInv, TableFine
<1>5. /\ p.created \in 0 .. clock /\ p.id \in 1 .. begun
      /\ \A o \in pending \ {p} : o.id # p.id
  BY DEF PagingInv, TableFine
<1>6. TableFine'
  BY <1>2, <1>3, <1>4, <1>5 DEF PagingInv, TableFine
<1>7. ReaderFine'
  <2>. DEFINE q == reader.query
              M == Found(rows, q, clock)
              N == Found(rows', q, clock)
  <2>. SUFFICES ASSUME reader # Closed, ~ reader.lost, NEW r \in N, r.id \in reader.began,
                       Alone(N, r),
                       \/ reader.done
                       \/ Rank(N, r) < (reader.page - 1) * Limit(q)
                PROVE  r.id \in reader.seen
    BY <1>2 DEF PagingInv, ReaderFine
  <2>1. p.id \notin reader.began
    BY DEF PagingInv, ReaderFine
  <2>2. r \in M
    BY <1>2, <1>3, <2>1 DEF Found
  <2>3. Filed(N)
    <3>1. Filed(rows')
      BY <1>6 DEF TableFine, Filed
    <3>. QED
      BY <3>1, FoundFiled
  <2>4. M \subseteq N
    BY <1>2 DEF Found
  <2>5. Rank(M, r) <= Rank(N, r) /\ Rank(M, r) \in Nat /\ Rank(N, r) \in Nat
    BY <2>2, <2>3, <2>4, RankGrows
  <2>6. (reader.page - 1) * Limit(q) \in Int
    <3>1. reader.page - 1 \in Int /\ Limit(q) \in Int
      BY LimitIsNumber DEF PagingInv, ReaderFine, Reading, Limit
    <3>. QED
      BY <3>1
  <2>7. reader.done \/ Rank(M, r) < (reader.page - 1) * Limit(q)
    BY <2>5, <2>6
  <2>8. Alone(M, r)
    BY <2>4 DEF Alone
  <2>. QED
    BY <2>2, <2>7, <2>8 DEF PagingInv, ReaderFine
<1>. QED
  BY <1>6, <1>7 DEF PagingInv

(* A deletion is noted by the reader and leaves a filed table.             *)
LEMMA DeleteStep ==
  ASSUME PagingInv, NEW r \in rows, DeleteReport(r)
  PROVE  PagingInv'
<1>1. /\ rows' = rows \ {r} /\ pending' = pending /\ clock' = clock /\ begun' = begun
      /\ reader' = IF reader.open THEN [reader EXCEPT !.lost = TRUE] ELSE reader
  BY DEF DeleteReport
<1>2. IsFiniteSet(rows')
  BY <1>1, FS_RemoveElement DEF PagingInv, TableFine
<1>3. TableFine'
  BY <1>1, <1>2 DEF PagingInv, TableFine
<1>4. ReaderFine'
  <2>1. CASE reader = Closed
    BY <1>1, <2>1 DEF Closed, ReaderFine
  <2>2. CASE reader # Closed
    <3>. DEFINE next == [reader EXCEPT !.lost = TRUE]
    <3>1. Reading(reader) /\ reader.open
      BY <2>2 DEF PagingInv, ReaderFine, Reading
    <3>2. Reading(next) /\ next.lost /\ next.began = reader.began
      BY <3>1 DEF Reading, Fields
    <3>3. reader' = next
      BY <1>1, <3>1
    <3>. HIDE DEF next
    <3>. QED
      BY <1>1, <2>2, <3>2, <3>3 DEF PagingInv, ReaderFine
  <2>. QED
    BY <2>1, <2>2
<1>. QED
  BY <1>3, <1>4 DEF PagingInv

(* A reader begins with nothing seen and every report ahead.               *)
LEMMA OpenStep ==
  ASSUME PagingInv, NEW q \in Queries, Open(q)
  PROVE  PagingInv'
<1>. DEFINE M == Found(rows, q, clock)
            ids == {r.id : r \in M}
            next == [open |-> TRUE, done |-> FALSE, query |-> q, page |-> 1, seen |-> {},
                     began |-> ids, lost |-> FALSE]
<1>1. /\ reader' = next
      /\ clock' = clock /\ begun' = begun /\ pending' = pending /\ rows' = rows
  BY FoundIsMatching DEF Open
<1>2. TableFine'
  BY <1>1 DEF PagingInv, TableFine
<1>3. Filed(M) /\ M \subseteq rows
  <2>1. Filed(rows)
    BY TableFiled DEF PagingInv
  <2>2. Filed(Found(rows, q, clock))
    BY <2>1, FoundFiled
  <2>. QED
    BY <2>2 DEF Found
<1>4. ids \subseteq 1 .. begun /\ \A p \in pending : p.id \notin ids
  BY <1>3 DEF PagingInv, TableFine
<1>. HIDE DEF ids
<1>5. /\ Reading(next) /\ next.began = ids /\ next.query = q
      /\ ~ next.done /\ next.page = 1
  <2>1. next = [field \in Fields |-> next[field]]
    BY DEF Fields
  <2>. QED
    BY <2>1 DEF Reading
<1>6. \A r \in M : ~ (Rank(M, r) < (next.page - 1) * Limit(q))
  <2>1. (1 - 1) * Limit(q) = 0
    BY LimitIsNumber DEF Limit
  <2>. QED
    BY <1>3, <1>5, <2>1, RankIsNumber
<1>. HIDE DEF next
<1>7. ReaderFine'
  BY <1>1, <1>4, <1>5, <1>6 DEF ReaderFine
<1>. QED
  BY <1>2, <1>7 DEF PagingInv

(* What a query finds is a page of an order of the reports it selects.      *)
LEMMA PageIsFound ==
  ASSUME NEW user, NEW window, NEW p, NEW limit,
         NEW found \in FindByUserIDFiltered(user, window, p, limit)
  PROVE  \E order \in Orders(Matching(user, window)) :
           found.page = PageOf(order, p, limit) /\ found.total = Len(order)
<1>1. PICK order \in Orders(Matching(user, window)) :
        found = [total |-> Len(order), page |-> PageOf(order, p, limit)]
  BY Zenon DEF FindByUserIDFiltered
<1>. QED
  BY <1>1

(* A page read shows the reports whose ranks fall on it, those alone in     *)
(* their time; when it is not full, no rank falls behind it.                *)
LEMMA PageShows ==
  ASSUME NEW M, Filed(M), NEW r \in M, Alone(M, r), NEW p \in Nat \ {0}, NEW limit \in Nat,
         limit # 0 => ~ (Rank(M, r) < (p - 1) * limit),
         NEW matched \in Orders(M), NEW page, page = PageOf(matched, p, limit),
         limit = 0 \/ Len(page) < limit \/ Rank(M, r) < p * limit
  PROVE  r \in ToSet(page)
<1>. DEFINE n == Cardinality(M)
            k == Rank(M, r)
            off == (p - 1) * limit
<1>1. k \in Nat /\ n \in Nat /\ k < n
  BY RankIsNumber
<1>3. Len(matched) = n /\ DOMAIN matched = 1..Len(matched)
  BY OrderHolds
<1>2. matched[k + 1] = r /\ k + 1 \in DOMAIN matched
  BY <1>3, ListedAtRank
<1>4. CASE limit = 0
  BY <1>2, <1>4 DEF ToSet, PageOf
<1>5. CASE limit # 0
  <2>1. off \in Nat /\ Offset(p, limit) = off
    BY DEF Offset
  <2>0. p * limit = off + limit
    OBVIOUS
  <2>. DEFINE rest == n - off
              size == IF rest < limit THEN rest ELSE limit
              i == k + 1 - off
  <2>2. page = [j \in 1 .. size |-> matched[off + j]]
    BY <1>3, <1>5, <2>1 DEF PageOf
  <2>. HIDE DEF n, k, off
  <2>3. ~ (k < off)
    BY <1>5 DEF k, off
  <2>4. i \in 1 .. rest /\ off + i = k + 1 /\ rest \in Nat /\ size \in Nat
    <3>. HIDE DEF size
    <3>1. i \in 1 .. rest /\ off + i = k + 1 /\ rest \in Nat
      BY <1>1, <2>1, <2>3
    <3>2. size \in Nat
      BY <3>1 DEF size
    <3>. QED
      BY <3>1, <3>2
  <2>5. Len(page) = size
    BY <2>2, <2>4
  <2>6. i <= limit \/ size = rest
    <3>1. CASE Len(page) < limit
      BY <2>4, <2>5, <3>1
    <3>2. CASE k < p * limit
      BY <1>1, <2>0, <2>1, <3>2
    <3>. QED
      BY <1>5, <3>1, <3>2 DEF k
  <2>7. i \in 1 .. size
    BY <2>4, <2>6
  <2>. HIDE DEF i, size
  <2>8. page[i] = r /\ i \in DOMAIN page
    BY <1>2, <2>2, <2>4, <2>7
  <2>. QED
    BY <2>8 DEF ToSet
<1>. QED
  BY <1>4, <1>5

(* A page read shows the next ranks, and the last page all that are left.  *)
LEMMA ListStep ==
  ASSUME PagingInv, ListReports
  PROVE  PagingInv'
<1>. DEFINE q == reader.query
            limit == Limit(q)
            M == Found(rows, q, clock)
            window == ResolveDateRange(q, clock)
            Read(found) == reader' = [reader EXCEPT
                             !.seen = @ \cup {r.id : r \in ToSet(found.page)},
                             !.page = @ + 1,
                             !.done = limit = 0 \/ Len(found.page) < limit]
<1>0. PICK found \in FindByUserIDFiltered(q.user, window, reader.page, limit) : Read(found)
  BY Zenon DEF ListReports, Limit
<1>. DEFINE page == found.page
            more == {r.id : r \in ToSet(page)}
            last == limit = 0 \/ Len(page) < limit
            next == [reader EXCEPT !.seen = @ \cup more, !.page = @ + 1, !.done = last]
<1>1. /\ reader' = next /\ reader.open /\ ~ reader.done
      /\ clock' = clock /\ begun' = begun /\ pending' = pending /\ rows' = rows
  BY <1>0 DEF ListReports
<1>2. TableFine'
  BY <1>1 DEF PagingInv, TableFine
<1>3. reader # Closed
  BY <1>1 DEF Closed
<1>4. Reading(reader) /\ limit \in Nat /\ reader.page \in Nat \ {0}
  BY <1>3, LimitIsNumber DEF PagingInv, ReaderFine, Reading, Limit
<1>5. Filed(M)
  BY TableFiled, FoundFiled DEF PagingInv
<1>6. PICK order \in Orders(M) : page = PageOf(order, reader.page, limit)
  <2>1. Matching(q.user, window) = M
    BY FoundIsMatching
  <2>. HIDE DEF limit, M, window
  <2>. QED
    BY <1>0, <2>1, PageIsFound
<1>. HIDE DEF page
<1>7. /\ Reading(next) /\ next.query = q /\ next.began = reader.began
      /\ next.lost = reader.lost /\ next.seen = reader.seen \cup more
      /\ next.page = reader.page + 1 /\ (next.done <=> last)
  <2>. DEFINE all == reader.seen \cup more
              number == reader.page + 1
  <2>1. next = [reader EXCEPT !.seen = all, !.page = number, !.done = last]
    BY Zenon
  <2>2. number \in Nat \ {0}
    BY <1>4
  <2>. HIDE DEF more, last, limit, next, all, number
  <2>3. /\ Reading(next) /\ next.query = reader.query /\ next.began = reader.began
        /\ next.lost = reader.lost /\ next.seen = all /\ next.page = number
    BY <1>4, <2>1, <2>2 DEF Reading, Fields
  <2>4. next.done = last
    <3>1. "done" \in DOMAIN [reader EXCEPT !.seen = all, !.page = number]
      BY <1>4 DEF Reading, Fields
    <3>. QED
      BY <2>1, <3>1, Zenon
  <2>. QED
    BY <2>3, <2>4, Zenon DEF all, number
<1>8. ASSUME ~ reader.lost, NEW r \in M, r.id \in reader.began, Alone(M, r),
             last \/ Rank(M, r) < reader.page * limit
      PROVE  r.id \in reader.seen \cup more
  <2>1. CASE Rank(M, r) < (reader.page - 1) * limit
    BY <1>3, <1>8, <2>1 DEF PagingInv, ReaderFine
  <2>2. CASE ~ (Rank(M, r) < (reader.page - 1) * limit)
    <3>. HIDE DEF M, limit
    <3>1. r \in ToSet(page)
      BY <1>4, <1>5, <1>6, <1>8, <2>2, PageShows
    <3>. QED
      BY <3>1
  <2>. QED
    BY <2>1, <2>2
<1>9. next.page - 1 = reader.page
  BY <1>4, <1>7
<1>. HIDE DEF next, more, last
<1>10. ReaderFine'
  <2>1. /\ next.began \subseteq 1 .. begun /\ \A p \in pending : p.id \notin next.began
    BY <1>3, <1>7 DEF PagingInv, ReaderFine
  <2>2. ~ next.lost =>
          \A r \in Found(rows, next.query, clock) :
            /\ r.id \in next.began
            /\ Alone(Found(rows, next.query, clock), r)
            /\ next.done \/ Rank(Found(rows, next.query, clock), r)
                              < (next.page - 1) * Limit(next.query)
            => r.id \in next.seen
    BY <1>7, <1>8, <1>9
  <2>. QED
    BY <1>1, <1>7, <2>1, <2>2 DEF ReaderFine
<1>. QED
  BY <1>2, <1>10 DEF PagingInv

(* Every step keeps the reader's place.                                    *)
LEMMA PagingStep == PagingInv /\ [BoardNext]_boardVars => PagingInv'
<1>. SUFFICES ASSUME PagingInv, [BoardNext]_boardVars PROVE PagingInv'
  OBVIOUS
<1>1. CASE Close
  BY <1>1 DEF Close, PagingInv, TableFine, ReaderFine
<1>2. CASE UNCHANGED boardVars
  BY <1>2 DEF boardVars, PagingInv, TableFine, ReaderFine
<1>. QED
  BY <1>1, <1>2, TickStep, BeginStep, SaveStep, DeleteStep, OpenStep, ListStep DEF BoardNext

(* Whoever reads a list has seen the reports ranked before the next page,   *)
(* of those it began with that share their time with no other.              *)
THEOREM PagingInvariant == BoardSpec => []PagingInv
BY PagingInit, PagingStep, PTL DEF BoardSpec

(* FindByUserIDFiltered: who reads a list to its end has seen every report  *)
(* that was in it when the reading began and still is, whatever is saved    *)
(* meanwhile, under whatever time, however often midnight moves the window  *)
(* and however each query orders the reports of one time, if the report     *)
(* shares its own with no other.                                            *)
THEOREM ReadersMissNothing == BoardSpec => []PagingMissesNothing
<1>1. PagingInv => PagingMissesNothing
  <2>. DEFINE listed == Matching(reader.query.user, ResolveDateRange(reader.query, clock))
  <2>. SUFFICES ASSUME PagingInv, reader.done, ~ reader.lost,
                       NEW r \in listed, Alone(listed, r), r.id \in reader.began
                PROVE  r.id \in reader.seen
    BY DEF PagingMissesNothing
  <2>1. reader # Closed
    BY DEF Closed
  <2>2. r \in Found(rows, reader.query, clock) /\ Alone(Found(rows, reader.query, clock), r)
    BY FoundIsMatching
  <2>. QED
    BY <2>1, <2>2 DEF PagingInv, ReaderFine
<1>. QED
  BY <1>1, PagingInvariant, PTL

-----------------------------------------------------------------------------
(* The charts.                                                             *)

(* A list without doubles of the members of a finite set.                   *)
LEMMA Enumerated ==
  ASSUME NEW K, IsFiniteSet(K)
  PROVE  LET keys == SetToSeq(K) IN
         /\ Len(keys) \in Nat /\ DOMAIN keys = 1..Len(keys)
         /\ \A i \in 1..Len(keys) : keys[i] \in K
         /\ \A i, j \in 1..Len(keys) : keys[i] = keys[j] => i = j
         /\ \A k \in K : \E i \in 1..Len(keys) : keys[i] = k
<1>. DEFINE n == Cardinality(K)
            keys == SetToSeq(K)
<1>1. n \in Nat /\ ExistsBijection(1..n, K)
  BY FS_CardinalityType
<1>2. PICK b \in [1..n -> K] : IsInjective(b)
  BY <1>1 DEF ExistsBijection, Bijection, Injection
<1>3. keys \in [1..n -> K] /\ IsInjective(keys)
  BY <1>2 DEF SetToSeq
<1>4. keys \in Injection(1..n, K)
  BY <1>3 DEF Injection
<1>5. Cardinality(1..n) = n
  <2>1. 1 \in Int /\ n \in Int
    BY <1>1
  <2>2. Cardinality(1..n) = IF 1 > n THEN 0 ELSE n - 1 + 1
    BY <2>1, FS_Interval, Zenon
  <2>. QED
    BY <1>1, <2>2
<1>6. keys \in Surjection(1..n, K)
  BY <1>4, <1>5, FS_Injection
<1>. HIDE DEF keys, n
<1>7. Len(keys) = n /\ DOMAIN keys = 1..n
  BY <1>1, <1>3
<1>8. \A i, j \in 1..n : keys[i] = keys[j] => i = j
  BY <1>3, <1>7 DEF IsInjective
<1>9. \A k \in K : \E i \in 1..n : keys[i] = k
  BY <1>6 DEF Surjection
<1>. QED
  BY <1>1, <1>3, <1>7, <1>8, <1>9 DEF keys

(* Counters, one for each key, count together every member of P once.       *)
LEMMA Totals ==
  ASSUME NEW K, IsFiniteSet(K), NEW P, IsFiniteSet(P),
         NEW label, \A p \in P : label[p] \in K,
         NEW f, DOMAIN f = K,
         \A k \in K : f[k].count = Cardinality({p \in P : label[p] = k})
  PROVE  Sum(f) = Cardinality(P)
<1>. DEFINE keys == SetToSeq(K)
            n == Len(keys)
            Upto(i) == {p \in P : \E j \in 1..i : label[p] = keys[j]}
            At(i) == {p \in P : label[p] = keys[i]}
            Whole(g) == g = [i \in 0..n |-> IF i = 0 THEN 0 ELSE g[i - 1] + f[keys[i]].count]
            Chosen == CHOOSE g : Whole(g)
            t == [i \in 0..n |-> Cardinality(Upto(i))]
<1>1. /\ n \in Nat
      /\ \A i \in 1..n : keys[i] \in K
      /\ \A i, j \in 1..n : keys[i] = keys[j] => i = j
      /\ \A k \in K : \E i \in 1..n : keys[i] = k
  BY Enumerated
<1>. HIDE DEF keys, n
<1>2. \A i \in 0..n : IsFiniteSet(Upto(i)) /\ Cardinality(Upto(i)) \in Nat
  BY FS_Subset, FS_CardinalityType
<1>3. ASSUME NEW i \in 1..n
      PROVE  Cardinality(Upto(i)) = Cardinality(Upto(i - 1)) + f[keys[i]].count
  <2>1. \A j : j \in 1..i <=> j \in 1..(i - 1) \/ j = i
    BY <1>1
  <2>2. Upto(i) = Upto(i - 1) \cup At(i)
    BY <2>1, Zenon
  <2>3. Upto(i - 1) \cap At(i) = {}
    <3>1. \A j \in 1..(i - 1) : j \in 1..n /\ j # i
      BY <1>1
    <3>. QED
      BY <1>1, <3>1
  <2>4. IsFiniteSet(At(i)) /\ IsFiniteSet(Upto(i - 1)) /\ Cardinality(Upto(i - 1)) \in Nat
    <3>1. i - 1 \in 0..n
      BY <1>1
    <3>2. At(i) \in SUBSET P
      OBVIOUS
    <3>. HIDE DEF At, Upto
    <3>. QED
      BY <1>2, <3>1, <3>2, FS_Subset
  <2>5. f[keys[i]].count = Cardinality(At(i))
    BY <1>1
  <2>. HIDE DEF Upto, At
  <2>6. Cardinality(Upto(i) ) = Cardinality(Upto(i - 1)) + Cardinality(At(i)) - Cardinality({})
    BY <2>2, <2>3, <2>4, FS_Union
  <2>7. Cardinality({}) = 0 /\ Cardinality(At(i)) \in Nat
    BY <2>4, FS_EmptySet, FS_CardinalityType
  <2>. QED
    BY <2>4, <2>5, <2>6, <2>7
<1>4. Cardinality(Upto(0)) = 0
  <2>1. Upto(0) = {}
    OBVIOUS
  <2>. HIDE DEF Upto
  <2>. QED
    BY <2>1, FS_EmptySet
<1>5. Upto(n) = P
  BY <1>1
<1>. HIDE DEF Upto, At
<1>6. Whole(t)
  <2>1. \A i \in 0..n : t[i] = IF i = 0 THEN 0 ELSE t[i - 1] + f[keys[i]].count
    <3>. SUFFICES ASSUME NEW i \in 0..n
                  PROVE  t[i] = IF i = 0 THEN 0 ELSE t[i - 1] + f[keys[i]].count
      OBVIOUS
    <3>1. CASE i = 0
      BY <1>1, <1>4, <3>1
    <3>2. CASE i # 0
      <4>1. i \in 1..n /\ i - 1 \in 0..n
        BY <1>1, <3>2
      <4>. QED
        BY <1>3, <3>2, <4>1
    <3>. QED
      BY <3>1, <3>2
  <2>2. t = [i \in 0..n |-> t[i]]
    OBVIOUS
  <2>. HIDE DEF t
  <2>. QED
    BY <2>1, <2>2
<1>7. Whole(Chosen)
  <2>. HIDE DEF Whole, t
  <2>. QED
    BY <1>6
<1>8. Sum(f) = Chosen[n]
  BY DEF Sum, keys, n
<1>9. \A i \in 0..n : Chosen[i] = IF i = 0 THEN 0 ELSE Chosen[i - 1] + f[keys[i]].count
  <2>. HIDE DEF Chosen, t
  <2>. QED
    BY <1>7
<1>10. \A i \in 0..n : t[i] = IF i = 0 THEN 0 ELSE t[i - 1] + f[keys[i]].count
  <2>. HIDE DEF Chosen, t
  <2>. QED
    BY <1>6
<1>11. t[n] = Cardinality(P)
  BY <1>1, <1>5
<1>. HIDE DEF Chosen, t, Whole
<1>. DEFINE Bad == {i \in 0..n : Chosen[i] # t[i]}
<1>12. Bad = {}
  <2>. SUFFICES ASSUME Bad # {} PROVE FALSE
    OBVIOUS
  <2>1. Bad \in SUBSET Nat
    BY <1>1
  <2>2. PICK m \in Bad : \A k \in Nat : k < m => k \notin Bad
    <3>. HIDE DEF Bad
    <3>. QED
      BY <2>1, LeastOf
  <2>3. m \in 0..n /\ Chosen[m] # t[m]
    OBVIOUS
  <2>4. m # 0 => m - 1 \in Nat /\ m - 1 < m /\ m - 1 \in 0..n
    BY <1>1, <2>3
  <2>5. m # 0 => Chosen[m - 1] = t[m - 1]
    BY <2>2, <2>4
  <2>. QED
    BY <1>9, <1>10, <2>3, <2>5
<1>. QED
  BY <1>1, <1>8, <1>11, <1>12

(* Finitely many reports have finitely many findings.                       *)
LEMMA EntriesAreFinite ==
  ASSUME NEW M, IsFiniteSet(M), \A r \in M : Len(r.list) \in Nat
  PROVE  IsFiniteSet(Entries(M))
<1>. DEFINE of == [r \in M |-> {r} \X (1..Len(r.list))]
            S == {{r} \X (1..Len(r.list)) : r \in M}
<1>1. of \in Surjection(M, S)
  BY DEF Surjection
<1>2. IsFiniteSet(S)
  <2>. HIDE DEF of, S
  <2>. QED
    BY <1>1, FS_Surjection
<1>3. ASSUME NEW r \in M PROVE IsFiniteSet({r} \X (1..Len(r.list)))
  <2>1. 1 \in Int /\ Len(r.list) \in Int
    BY <1>3
  <2>2. IsFiniteSet(1..Len(r.list))
    BY <2>1, FS_Interval, Zenon
  <2>3. IsFiniteSet({r})
    BY FS_Singleton
  <2>. QED
    BY <2>2, <2>3, FS_Product
<1>4. \A T \in S : IsFiniteSet(T)
  BY <1>3
<1>5. Entries(M) = UNION S
  BY DEF Entries
<1>. HIDE DEF S
<1>. QED
  BY <1>2, <1>4, <1>5, FS_UNION

(* There are finitely many severities.                                     *)
LEMMA SeveritiesAreFinite == IsFiniteSet(Severities)
<1>. DEFINE order == [s \in Severities |-> SeverityOrder(s)]
<1>1. \A s \in Severities : SeverityOrder(s) \in 1..5
  BY OrderIs
<1>2. \A s, t \in Severities : SeverityOrder(s) = SeverityOrder(t) => s = t
  BY DEF Severities, SeverityOrder
<1>3. order \in Injection(Severities, 1..5)
  BY <1>1, <1>2 DEF Injection, IsInjective
<1>4. IsFiniteSet(1..5)
  <2>1. 1 \in Int /\ 5 \in Int
    OBVIOUS
  <2>. QED
    BY <2>1, FS_Interval, Zenon
<1>. QED
  BY <1>3, <1>4, FS_Injection

(* What the table holds is what a generation saved.                         *)
Filled(r) == r.overall \in Severities /\ Len(r.list) \in Nat

TableHolds == \A r \in rows : Filled(r)

(* Both charts count what the list of the same window has.                  *)
LEMMA RankingCounts ==
  ASSUME NEW M, Filed(M), \A r \in M : Filled(r), NEW list \in Orders(M)
  PROVE  Sum(AggregateScanRanking(list)) = Cardinality(M)
<1>. DEFINE P == 1..Len(list)
            label == [i \in P |-> list[i].overall]
            f == AggregateScanRanking(list)
<1>1. /\ Len(list) = Cardinality(M) /\ Cardinality(M) \in Nat
      /\ \A i \in P : list[i] \in M
  BY OrderHolds
<1>2. DOMAIN f = Severities
  BY DEF AggregateScanRanking
<1>3. \A i \in P : label[i] \in Severities
  BY <1>1 DEF Filled
<1>4. ASSUME NEW s \in Severities
      PROVE  f[s].count = Cardinality({i \in P : label[i] = s})
  <2>1. {i \in P : label[i] = s} = {i \in 1..Len(list) : list[i].overall = s}
    OBVIOUS
  <2>2. f[s].count = Cardinality({i \in 1..Len(list) : list[i].overall = s})
    BY DEF AggregateScanRanking
  <2>. QED
    BY <2>1, <2>2, Zenon
<1>5. IsFiniteSet(P) /\ Cardinality(P) = Cardinality(M)
  <2>1. 1 \in Int /\ Len(list) \in Int
    BY <1>1
  <2>2. IsFiniteSet(P) /\ Cardinality(P) = IF 1 > Len(list) THEN 0 ELSE Len(list) - 1 + 1
    BY <2>1, FS_Interval, Zenon
  <2>. QED
    BY <1>1, <2>2
<1>. HIDE DEF f, label, P
<1>6. Sum(f) = Cardinality(P)
  BY <1>2, <1>3, <1>4, <1>5, SeveritiesAreFinite, Totals
<1>. QED
  BY <1>5, <1>6 DEF f

(* The categories count every finding of the list, under no marker type.    *)
LEMMA CategoriesCount ==
  ASSUME NEW M, Filed(M), \A r \in M : Filled(r), NEW list \in Orders(M)
  PROVE  LET f == AggregateTopCategories(list) IN
         /\ Sum(f) = Cardinality(Entries(M))
         /\ DOMAIN f \cap {"SAST", "DAST"} = {}
<1>. DEFINE P == Entries(M)
            K == {CategoryLabel(Entry(p)) : p \in P}
            label == [p \in P |-> CategoryLabel(Entry(p))]
            f == AggregateTopCategories(list)
<1>1. ToSet(list) = M
  BY OrderHolds
<1>2. IsFiniteSet(P)
  BY EntriesAreFinite DEF Filed, Filled
<1>. HIDE DEF P
<1>3. label \in Surjection(P, K)
  BY DEF Surjection
<1>4. IsFiniteSet(K)
  <2>. HIDE DEF K, label
  <2>. QED
    BY <1>2, <1>3, FS_Surjection
<1>5. DOMAIN f = K
  BY <1>1 DEF AggregateTopCategories, P
<1>6. ASSUME NEW c \in K PROVE f[c].count = Cardinality({p \in P : label[p] = c})
  <2>1. {p \in P : label[p] = c} = {p \in P : CategoryLabel(Entry(p)) = c}
    OBVIOUS
  <2>2. f[c].count = Cardinality({p \in P : CategoryLabel(Entry(p)) = c})
    BY <1>1 DEF AggregateTopCategories, P
  <2>. QED
    BY <2>1, <2>2, Zenon
<1>7. \A p \in P : label[p] \in K
  OBVIOUS
<1>8. ASSUME NEW p PROVE CategoryLabel(Entry(p)) \notin {"SAST", "DAST"}
  <2>. DEFINE v == Entry(p)
  <2>. HIDE DEF v
  <2>1. VulnCategory(v.title) \notin {"SAST", "DAST"}
    BY CategoriesAreLabels
  <2>. QED
    BY <2>1, Zenon DEF CategoryLabel, v
<1>9. K \cap {"SAST", "DAST"} = {}
  BY <1>8
<1>. HIDE DEF f, K, label
<1>10. Sum(f) = Cardinality(P)
  BY <1>2, <1>4, <1>5, <1>6, <1>7, Totals
<1>. QED
  BY <1>5, <1>9, <1>10 DEF f, P

(* Only whole reports are saved.                                           *)
LEMMA TableStep == TableHolds /\ [BoardNext]_boardVars => TableHolds'
<1>. SUFFICES ASSUME TableHolds, [BoardNext]_boardVars PROVE TableHolds'
  OBVIOUS
<1>1. ASSUME NEW p \in pending, SaveReport(p) PROVE TableHolds'
  <2>1. PICK c \in Contents :
          rows' = rows \cup {[id |-> p.id, user |-> p.user, created |-> p.created,
                              overall |-> c.overall, list |-> c.list]}
    BY <1>1 DEF SaveReport
  <2>. DEFINE row == [id |-> p.id, user |-> p.user, created |-> p.created,
                      overall |-> c.overall, list |-> c.list]
  <2>2. rows' = rows \cup {row} /\ row.overall = c.overall /\ row.list = c.list
    BY <2>1
  <2>. HIDE DEF row
  <2>3. c.overall \in Severities /\ Len(c.list) \in Nat
    <3>1. c.overall \in Severities /\ c.list \in Seq(ToSet(c.list))
      OBVIOUS
    <3>. QED
      BY <3>1, ListOf
  <2>. QED
    BY <2>2, <2>3 DEF TableHolds, Filled
<1>2. ASSUME rows' \subseteq rows PROVE TableHolds'
  BY <1>2 DEF TableHolds
<1>3. ASSUME NEW r \in rows, DeleteReport(r) PROVE TableHolds'
  <2>1. rows' \subseteq rows
    BY <1>3 DEF DeleteReport
  <2>. QED
    BY <1>2, <2>1
<1>4. ASSUME \/ Tick \/ (\E u \in Users : Begin(u)) \/ (\E q \in Queries : Open(q))
             \/ ListReports \/ Close \/ UNCHANGED boardVars
      PROVE  TableHolds'
  <2>1. ListReports => rows' = rows
    BY Zenon DEF ListReports
  <2>2. ~ ListReports => rows' = rows
    BY <1>4 DEF Tick, Begin, Open, Close, boardVars
  <2>. QED
    BY <1>2, <2>1, <2>2
<1>. QED
  BY <1>1, <1>3, <1>4 DEF BoardNext

(* The ranking points at a report of each severity that none is newer than: *)
(* of those with the latest time, the first in the list.                    *)
LEMMA NewestIsShown ==
  ASSUME NEW M, Filed(M), \A s \in M : Filled(s), NEW list \in Orders(M), NEW r \in M
  PROVE  \E n \in M : /\ n.id = AggregateScanRanking(list)[r.overall].id
                      /\ n.overall = r.overall /\ n.created >= r.created
<1>. DEFINE of == {i \in 1..Len(list) : list[i].overall = r.overall}
            Newest(i) == \A j \in of : \/ list[j].created < list[i].created
                                       \/ list[j].created = list[i].created /\ i <= j
            newest == CHOOSE i \in of : Newest(i)
<1>1. /\ Len(list) \in Nat
      /\ \A i \in 1..Len(list) : list[i] \in M
      /\ \E i \in 1..Len(list) : list[i] = r
      /\ \A i, j \in 1..Len(list) : i < j => list[i].created >= list[j].created
  BY OrderHolds
<1>2. \A s \in M : s.created \in Nat /\ s.overall \in Severities
  BY DEF Filed, Filled
<1>3. PICK k \in of : list[k] = r
  BY <1>1
<1>4. of \in SUBSET Nat /\ of # {}
  BY <1>1, <1>3
<1>5. PICK m \in of : \A a \in Nat : a < m => a \notin of
  <2>. HIDE DEF of
  <2>. QED
    BY <1>4, LeastOf
<1>6. \A j \in of : /\ j \in 1..Len(list) /\ list[j] \in M /\ list[j].created \in Nat
                    /\ list[j].overall = r.overall
  BY <1>1, <1>2
<1>7. \A j \in of : m <= j /\ (m = j \/ m < j)
  BY <1>4, <1>5
<1>8. Newest(m)
  <2>. SUFFICES ASSUME NEW j \in of
                PROVE  \/ list[j].created < list[m].created
                       \/ list[j].created = list[m].created /\ m <= j
    OBVIOUS
  <2>1. list[m].created >= list[j].created
    BY <1>1, <1>6, <1>7
  <2>. QED
    BY <1>6, <1>7, <2>1
<1>9. newest \in of /\ Newest(newest)
  <2>. HIDE DEF of, Newest
  <2>. QED
    BY <1>8
<1>. HIDE DEF newest
<1>10. list[newest] \in M /\ list[newest].overall = r.overall
  BY <1>6, <1>9
<1>11. list[newest].created >= r.created
  <2>. HIDE DEF of
  <2>1. \/ list[k].created < list[newest].created
        \/ list[k].created = list[newest].created
    BY <1>9
  <2>. QED
    BY <1>3, <1>6, <1>9, <2>1
<1>12. AggregateScanRanking(list)[r.overall].id = list[newest].id
  <2>1. r.overall \in Severities /\ of # {}
    BY <1>2, <1>3
  <2>2. AggregateScanRanking(list)[r.overall].id = IF of = {} THEN 0 ELSE list[newest].id
    BY <2>1 DEF AggregateScanRanking, newest
  <2>. QED
    BY <2>1, <2>2
<1>. QED
  BY <1>10, <1>11, <1>12

(* Put together, for each query and whatever orders it is answered in.      *)
LEMMA ChartsAgree == PagingInv /\ TableHolds => ChartsAgreeWithTheList
<1>. SUFFICES ASSUME PagingInv, TableHolds, NEW q \in Queries,
                     NEW loaded \in Loaded(q.user, ResolveDateRange(q, clock)),
                     NEW listed \in FindByUserIDFiltered(q.user, ResolveDateRange(q, clock), 1, 1)
              PROVE  LET M == Matching(q.user, ResolveDateRange(q, clock))
                         ranking == AggregateScanRanking(loaded)
                         categories == AggregateTopCategories(loaded)
                     IN /\ Sum(ranking) = listed.total
                        /\ \A r \in M : \E n \in M :
                             /\ n.id = ranking[r.overall].id
                             /\ n.overall = r.overall /\ n.created >= r.created
                        /\ Sum(categories) = Cardinality(Entries(M))
                        /\ DOMAIN categories \cap {"SAST", "DAST"} = {}
  BY Zenon DEF ChartsAgreeWithTheList
<1>. DEFINE M == Matching(q.user, ResolveDateRange(q, clock))
<1>1. M = Found(rows, q, clock)
  BY FoundIsMatching
<1>2. Filed(M) /\ M \subseteq rows
  <2>1. Filed(rows)
    BY TableFiled DEF PagingInv
  <2>2. Filed(Found(rows, q, clock))
    BY <2>1, FoundFiled
  <2>3. Found(rows, q, clock) \subseteq rows
    BY DEF Found
  <2>. QED
    BY <1>1, <2>2, <2>3
<1>3. \A r \in M : Filled(r)
  BY <1>2 DEF TableHolds
<1>4. loaded \in Orders(M)
  <2>1. PICK a \in FindByUserIDFiltered(q.user, ResolveDateRange(q, clock), 1, 0) :
          loaded = a.page
    BY DEF Loaded
  <2>2. PICK order \in Orders(Found(rows, q, clock)) : a.page = PageOf(order, 1, 0)
    BY <1>1, <2>1, PageIsFound
  <2>3. PageOf(order, 1, 0) = order
    BY DEF PageOf
  <2>. QED
    BY <1>1, <2>1, <2>2, <2>3
<1>5. PICK order \in Orders(M) : listed.total = Len(order)
  <2>. HIDE DEF M
  <2>. QED
    BY PageIsFound DEF M
<1>. HIDE DEF M
<1>6. Len(order) = Cardinality(M)
  BY <1>2, OrderHolds
<1>7. Sum(AggregateScanRanking(loaded)) = Cardinality(M)
  BY <1>2, <1>3, <1>4, RankingCounts
<1>8. \A r \in M : \E n \in M : /\ n.id = AggregateScanRanking(loaded)[r.overall].id
                                /\ n.overall = r.overall /\ n.created >= r.created
  BY <1>2, <1>3, <1>4, NewestIsShown
<1>9. /\ Sum(AggregateTopCategories(loaded)) = Cardinality(Entries(M))
      /\ DOMAIN AggregateTopCategories(loaded) \cap {"SAST", "DAST"} = {}
  BY <1>2, <1>3, <1>4, CategoriesCount
<1>. QED
  BY <1>5, <1>6, <1>7, <1>8, <1>9 DEF M

(* The table holds whole reports only.                                     *)
THEOREM TableInvariant == BoardSpec => []TableHolds
<1>1. BoardInit => TableHolds
  BY DEF BoardInit, TableHolds
<1>. QED
  BY <1>1, TableStep, PTL DEF BoardSpec

(* TopCategories, ScanRanking and ListReports tell of the same reports,     *)
(* however each query orders those of one time: the ranking counts as many  *)
(* as the list has and points at a report of each severity that none is     *)
(* newer than, the categories count every finding once and none under a     *)
(* marker type.                                                             *)
THEOREM ChartsTellOfTheList == BoardSpec => []ChartsAgreeWithTheList
BY PagingInvariant, TableInvariant, ChartsAgree, PTL

=============================================================================

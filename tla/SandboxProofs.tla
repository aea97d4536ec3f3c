--------------------------- MODULE SandboxProofs ---------------------------
(***************************************************************************)
(* Proofs about the sandbox, for names of any length: what a check grants  *)
(* is never withdrawn by the cut of BASE_PATH, and no plain name below the *)
(* base is refused.  Both are about folds over the components of a name,   *)
(* so the first section derives induction over numbers, for sets, from the *)
(* library's theorem that < is well founded.                               *)
(***************************************************************************)
EXTENDS Sandbox, SequenceTheorems, WellFoundedInduction, TLAPS

-----------------------------------------------------------------------------
(* Induction and recursion.                                                *)

Less == {d \in Nat \X Nat : d[1] < d[2]}

LEMMA LeastNumber ==
    ASSUME NEW T \in SUBSET Nat, T # {}
    PROVE  \E x \in T : \A y \in T : x <= y
<1>1. IsWellFoundedOn(Less, Nat)
  BY NatLessThanWellFounded DEF Less, OpToRel
<1>2. PICK x \in T : \A y \in T : <<y, x>> \notin Less
  BY <1>1, WFMin
<1>3. ASSUME NEW y \in T PROVE x <= y
  <2>1. <<y, x>> \in Nat \X Nat /\ <<y, x>> \notin Less
    BY <1>2
  <2>2. ~(y < x)
    BY <2>1 DEF Less
  <2>3. QED BY <2>2
<1>4. QED BY <1>3

\* Induction: what holds of 0 and goes from each i < n to i + 1 holds up to n.
LEMMA UpTo ==
    ASSUME NEW n \in Nat, NEW T, 0 \in T, \A i \in 0..(n - 1) : i \in T => i + 1 \in T
    PROVE  0..n \subseteq T
<1> SUFFICES ASSUME ~(0..n \subseteq T) PROVE FALSE
  OBVIOUS
<1> DEFINE Bad == (0..n) \ T
<1>1. PICK x \in Bad : \A y \in Bad : x <= y
  <2>1. Bad \in SUBSET Nat /\ Bad # {}
    OBVIOUS
  <2> HIDE DEF Bad
  <2>2. QED BY <2>1, LeastNumber
<1>2. x - 1 \in 0..(n - 1) /\ x - 1 \notin Bad
  BY <1>1
<1>3. x - 1 \in T /\ (x - 1) + 1 = x
  BY <1>2
<1>4. QED BY <1>1, <1>2, <1>3

\* h is the value of a recursion at each number up to n.
Solves(h, n, V, z, F) ==
    /\ h \in [0..n -> V]
    /\ h[0] = z /\ \A i \in 1..n : h[i] = F[i][h[i - 1]]

\* A recursion whose steps stay in a set has a solution.
LEMMA Recursion ==
    ASSUME NEW n \in Nat, NEW V, NEW z \in V, NEW F \in [1..n -> [V -> V]]
    PROVE  \E h : Solves(h, n, V, z, F)
<1> DEFINE T == {m \in 0..n : \E h : Solves(h, m, V, z, F)}
<1>1. 0 \in T
  <2>1. Solves([i \in 0..0 |-> z], 0, V, z, F)
    BY DEF Solves
  <2>2. QED BY <2>1
<1>2. ASSUME NEW m \in 0..(n - 1), m \in T PROVE m + 1 \in T
  <2>1. PICK h : Solves(h, m, V, z, F)
    BY <1>2
  <2> DEFINE g == [i \in 0..(m + 1) |-> IF i <= m THEN h[i] ELSE F[m + 1][h[m]]]
  <2>2. g \in [0..(m + 1) -> V]
    BY <2>1 DEF Solves
  <2>3. g[0] = z
    BY <2>1 DEF Solves
  <2>4. ASSUME NEW i \in 1..(m + 1) PROVE g[i] = F[i][g[i - 1]]
    <3>1. g[i - 1] = h[i - 1]
      OBVIOUS
    <3>2. CASE i <= m
      BY <2>1, <3>1, <3>2 DEF Solves
    <3>3. CASE i = m + 1
      BY <3>1, <3>3
    <3>4. QED BY <3>2, <3>3
  <2> HIDE DEF g
  <2>5. Solves(g, m + 1, V, z, F)
    BY <2>2, <2>3, <2>4 DEF Solves
  <2>6. QED BY <2>5
<1>3. 0..n \subseteq T
  <2> HIDE DEF T
  <2>1. QED BY <1>1, <1>2, UpTo
<1>4. n \in T
  BY <1>3
<1>5. QED BY <1>4

-----------------------------------------------------------------------------
(* The two folds over a name.                                              *)

Component == Name \cup Special

\* What a text is made of.
Letter == Name \cup {Blank}

LEMMA MeaningOf ==
    /\ Meaning(".") = Text(Pwd) /\ Meaning("..") = Parent /\ Meaning("~") = Text(Home)
    /\ \A c : c \notin Special => Meaning(c) = <<c>>
<1>1. Meaning(".") = Text(Pwd)
  BY Zenon DEF Meaning
<1>2. Meaning("..") = Parent
  BY Zenon DEF Meaning
<1>3. Meaning("~") = Text(Home)
  BY Zenon DEF Meaning
<1>4. ASSUME NEW c, c \notin Special PROVE Meaning(c) = <<c>>
  <2>1. c # "." /\ c # ".." /\ c # "~"
    BY <1>4 DEF Special
  <2>2. QED BY <2>1, Zenon DEF Meaning
<1>5. QED BY <1>1, <1>2, <1>3, <1>4

LEMMA ParentType == Parent \in Seq(Name)
<1>1. \A i \in 1..(Len(Pwd) - 1) : Pwd[i] \in Name
  BY SandboxAssumption
<1>2. QED BY <1>1, SandboxAssumption, SubSeqProperties DEF Parent

LEMMA MeaningType == \A c \in Component : Meaning(c) \in Seq(Letter)
<1>1. Parent \in Seq(Letter) /\ Pwd \in Seq(Letter) /\ Home \in Seq(Letter)
  BY SandboxAssumption, ParentType DEF Letter
<1>2. Text(Pwd) \in Seq(Letter) /\ Text(Home) \in Seq(Letter)
  <2>1. <<Blank>> \in Seq(Letter)
    BY DEF Letter
  <2>2. QED BY <1>1, <2>1 DEF Text
<1>3. \A c \in Component \ Special : <<c>> \in Seq(Letter)
  BY DEF Component, Letter
<1>4. QED BY <1>1, <1>2, <1>3, MeaningOf DEF Special

\* Absolute is built up by one meaning after another.
LEMMA AbsoluteFold ==
    ASSUME NEW parts \in Seq(Component), parts # <<>>
    PROVE  \E h \in [0..Len(parts) -> Seq(Letter)] :
              /\ h[0] = <<>>
              /\ \A i \in 1..Len(parts) : h[i] = h[i - 1] \o Meaning(parts[i])
              /\ Absolute(parts) = h[Len(parts)]
<1> DEFINE n == Len(parts)
           V == Seq(Letter)
           z == <<>>
           More(v, i) == v \o Meaning(parts[i])
           Eq(f) == f = [i \in 0..n |-> IF i = 0 THEN z ELSE More(f[i - 1], i)]
           F == [i \in 1..n |-> [v \in V |-> More(v, i)]]
<1>1. n \in Nat /\ z \in V
  OBVIOUS
<1>2. \A i \in 1..n, v \in V : More(v, i) \in V
  BY MeaningType
<1> HIDE DEF n, V, z, More
<1>3. PICK h : Solves(h, n, V, z, F)
  <2>1. F \in [1..n -> [V -> V]]
    BY <1>2
  <2> HIDE DEF F
  <2>2. QED BY <1>1, <2>1, Recursion
<1>4. /\ h \in [0..n -> V] /\ h[0] = z
      /\ \A i \in 1..n : h[i] = F[i][h[i - 1]]
  BY <1>3 DEF Solves
<1>5. ASSUME NEW i \in 1..n PROVE h[i] = More(h[i - 1], i)
  <2>1. h[i - 1] \in V
    BY <1>1, <1>4
  <2>2. F[i] = [v \in V |-> More(v, i)]
    OBVIOUS
  <2> HIDE DEF F
  <2>3. QED BY <1>4, <2>1, <2>2
<1>6. Eq(h)
  BY <1>1, <1>4, <1>5
<1>7. ASSUME NEW f, Eq(f) PROVE f = h
  <2>1. f[0] = z /\ \A i \in 1..n : f[i] = More(f[i - 1], i)
    BY <1>1, <1>7
  <2> DEFINE T == {i \in 0..n : f[i] = h[i]}
  <2>2. 0 \in T
    BY <1>1, <1>4, <2>1
  <2>3. ASSUME NEW i \in 0..(n - 1), i \in T PROVE i + 1 \in T
    <3>1. i + 1 \in 1..n /\ (i + 1) - 1 = i
      BY <1>1
    <3>2. f[i + 1] = More(f[i], i + 1)
      BY <2>1, <3>1
    <3>3. h[i + 1] = More(h[i], i + 1)
      BY <1>5, <3>1
    <3>4. QED BY <1>1, <2>3, <3>1, <3>2, <3>3
  <2>4. 0..n \subseteq T
    <3> HIDE DEF T
    <3>1. QED BY <1>1, <2>2, <2>3, UpTo
  <2>5. QED BY <1>4, <1>7, <2>4
<1>8. (CHOOSE f : Eq(f)) = h
  <2> HIDE DEF Eq
  <2>1. QED BY <1>6, <1>7
<1>9. Absolute(parts) = h[n]
  BY <1>8 DEF Absolute, n, z, More
<1>10. QED BY <1>4, <1>5, <1>9 DEF n, V, z, More

LEMMA AbsoluteNone == Absolute(<<>>) = <<Blank>>
BY DEF Absolute, Text

\* The parts of a directory: the kernel knows no "~".
Place == Name \cup {"~"}

LEMMA StepOf ==
    /\ \A d : Step(d, ".") = d /\ Step(d, "..") = SubSeq(d, 1, Len(d) - 1)
    /\ \A d, c : c # "." /\ c # ".." => Step(d, c) = Append(d, c)
BY Zenon DEF Step

LEMMA StepType == \A d \in Seq(Place), c \in Component : Step(d, c) \in Seq(Place)
<1> SUFFICES ASSUME NEW d \in Seq(Place), NEW c \in Component PROVE Step(d, c) \in Seq(Place)
  OBVIOUS
<1>1. CASE c = "."
  BY <1>1, StepOf
<1>2. CASE c = ".."
  <2>1. Step(d, c) = SubSeq(d, 1, Len(d) - 1)
    BY <1>2, StepOf
  <2>2. \A i \in 1..(Len(d) - 1) : d[i] \in Place
    OBVIOUS
  <2>3. QED BY <2>1, <2>2, SubSeqProperties
<1>3. CASE c # "." /\ c # ".."
  <2>1. c \in Place
    BY <1>3 DEF Component, Special, Place
  <2>2. Step(d, c) = Append(d, c)
    BY <1>3, StepOf
  <2>3. QED BY <2>1, <2>2, AppendProperties
<1>4. QED BY <1>1, <1>2, <1>3

\* So is what a name leads to, one component after another.
LEMMA ResolveFold ==
    ASSUME NEW dir \in Seq(Place), NEW p \in Path
    PROVE  \E h \in [0..Len(p.parts) -> Seq(Place)] :
              /\ h[0] = IF p.abs THEN <<>> ELSE dir
              /\ \A i \in 1..Len(p.parts) : h[i] = Step(h[i - 1], p.parts[i])
              /\ Resolve(dir, p) = h[Len(p.parts)]
<1> DEFINE n == Len(p.parts)
           V == Seq(Place)
           start == IF p.abs THEN <<>> ELSE dir
           To(v, i) == Step(v, p.parts[i])
           Eq(f) == f = [i \in 0..n |-> IF i = 0 THEN start ELSE To(f[i - 1], i)]
           F == [i \in 1..n |-> [v \in V |-> To(v, i)]]
<1>1. n \in Nat /\ start \in V
  BY DEF Path
<1>2. \A i \in 1..n, v \in V : To(v, i) \in V
  BY StepType DEF Path, Component
<1> HIDE DEF n, V, start, To
<1>3. PICK h : Solves(h, n, V, start, F)
  <2>1. F \in [1..n -> [V -> V]]
    BY <1>2
  <2> HIDE DEF F
  <2>2. QED BY <1>1, <2>1, Recursion
<1>4. /\ h \in [0..n -> V] /\ h[0] = start
      /\ \A i \in 1..n : h[i] = F[i][h[i - 1]]
  BY <1>3 DEF Solves
<1>5. ASSUME NEW i \in 1..n PROVE h[i] = To(h[i - 1], i)
  <2>1. h[i - 1] \in V
    BY <1>1, <1>4
  <2>2. F[i] = [v \in V |-> To(v, i)]
    OBVIOUS
  <2> HIDE DEF F
  <2>3. QED BY <1>4, <2>1, <2>2
<1>6. Eq(h)
  BY <1>1, <1>4, <1>5
<1>7. ASSUME NEW f, Eq(f) PROVE f = h
  <2>1. f[0] = start /\ \A i \in 1..n : f[i] = To(f[i - 1], i)
    BY <1>1, <1>7
  <2> DEFINE T == {i \in 0..n : f[i] = h[i]}
  <2>2. 0 \in T
    BY <1>1, <1>4, <2>1
  <2>3. ASSUME NEW i \in 0..(n - 1), i \in T PROVE i + 1 \in T
    <3>1. i + 1 \in 1..n /\ (i + 1) - 1 = i
      BY <1>1
    <3>2. f[i + 1] = To(f[i], i + 1)
      BY <2>1, <3>1
    <3>3. h[i + 1] = To(h[i], i + 1)
      BY <1>5, <3>1
    <3>4. QED BY <1>1, <2>3, <3>1, <3>2, <3>3
  <2>4. 0..n \subseteq T
    <3> HIDE DEF T
    <3>1. QED BY <1>1, <2>2, <2>3, UpTo
  <2>5. QED BY <1>4, <1>7, <2>4
<1>8. (CHOOSE f : Eq(f)) = h
  <2> HIDE DEF Eq
  <2>1. QED BY <1>6, <1>7
<1>9. Resolve(dir, p) = h[n]
  BY <1>8 DEF Resolve, n, start, To
<1>10. QED BY <1>4, <1>5, <1>9 DEF n, V, start, To

-----------------------------------------------------------------------------
(* What the folds amount to for a plain name.                              *)

\* t is m followed by all of s but its first element.
IsJoin(t, m, s) ==
    /\ Len(t) = Len(m) + Len(s) - 1
    /\ \A j \in 1..Len(m) : t[j] = m[j]
    /\ \A j \in 2..Len(s) : t[Len(m) + j - 1] = s[j]

\* A fold that appends every component after the first.
LEMMA Appended ==
    ASSUME NEW S, NEW s, NEW n \in Nat \ {0}, Len(s) = n, NEW h \in [0..n -> Seq(S)],
           \A i \in 2..n : s[i] \in S /\ h[i] = Append(h[i - 1], s[i])
    PROVE  IsJoin(h[n], h[1], s)
<1> DEFINE P(i) == /\ Len(h[i]) = Len(h[1]) + i - 1
                   /\ \A j \in 1..Len(h[1]) : h[i][j] = h[1][j]
                   /\ \A j \in 2..i : h[i][Len(h[1]) + j - 1] = s[j]
           T == {i \in 0..(n - 1) : P(i + 1)}
<1>1. Len(h[1]) \in Nat
  OBVIOUS
<1>2. P(1)
  BY <1>1
<1>3. ASSUME NEW i \in 1..(n - 1), P(i) PROVE P(i + 1)
  <2>1. h[i] \in Seq(S) /\ s[i + 1] \in S /\ h[i + 1] = Append(h[i], s[i + 1])
    <3>1. i + 1 \in 2..n /\ (i + 1) - 1 = i /\ i \in 0..n
      OBVIOUS
    <3>2. QED BY <3>1
  <2> DEFINE a == h[i]
             b == h[i + 1]
             m == h[1]
  <2>2. /\ Len(b) = Len(a) + 1 /\ \A j \in 1..Len(a) : b[j] = a[j]
        /\ b[Len(a) + 1] = s[i + 1]
    BY <2>1, AppendProperties
  <2>3. /\ Len(a) = Len(m) + i - 1 /\ Len(m) \in Nat
        /\ \A j \in 1..Len(m) : a[j] = m[j]
        /\ \A j \in 2..i : a[Len(m) + j - 1] = s[j]
    BY <1>1, <1>3
  <2> HIDE DEF a, b, m
  <2>4. Len(b) = Len(m) + (i + 1) - 1 /\ \A j \in 1..Len(m) : b[j] = m[j]
    BY <2>2, <2>3
  <2>5. ASSUME NEW j \in 2..(i + 1) PROVE b[Len(m) + j - 1] = s[j]
    <3>1. CASE j = i + 1
      BY <2>2, <2>3, <3>1
    <3>2. CASE j \in 2..i
      <4>1. Len(m) + j - 1 \in 1..Len(a)
        BY <2>3, <3>2
      <4>2. QED BY <2>2, <2>3, <3>2, <4>1
    <3>3. QED BY <3>1, <3>2
  <2>6. QED BY <2>4, <2>5 DEF a, b, m
<1> HIDE DEF P
<1>4. 0 \in T
  BY <1>2
<1>5. ASSUME NEW i \in 0..((n - 1) - 1), i \in T PROVE i + 1 \in T
  BY <1>3, <1>5
<1>6. 0..(n - 1) \subseteq T
  <2>1. n - 1 \in Nat
    OBVIOUS
  <2> HIDE DEF T
  <2>2. QED BY <1>4, <1>5, <2>1, UpTo
<1>7. P(n)
  <2>1. n - 1 \in 0..(n - 1) /\ (n - 1) + 1 = n
    OBVIOUS
  <2>2. QED BY <1>6, <2>1
<1>8. QED BY <1>7 DEF P, IsJoin

\* Every component after the first is a name.
PlainTail(parts) == \A i \in 2..Len(parts) : parts[i] \in Name

LEMMA PlainAbsolute ==
    ASSUME NEW parts \in Seq(Component), parts # <<>>, PlainTail(parts)
    PROVE  IsJoin(Absolute(parts), Meaning(parts[1]), parts)
<1> DEFINE n == Len(parts)
           More(v, i) == v \o Meaning(parts[i])
<1>1. PICK h \in [0..n -> Seq(Letter)] :
         /\ h[0] = <<>>
         /\ \A i \in 1..n : h[i] = More(h[i - 1], i)
         /\ Absolute(parts) = h[n]
  BY AbsoluteFold
<1>2. n \in Nat \ {0} /\ parts[1] \in Component
  OBVIOUS
<1>3. h[1] = Meaning(parts[1])
  <2> HIDE DEF More
  <2>1. h[1] = More(<<>>, 1)
    <3>1. 1 \in 1..n /\ 1 - 1 = 0
      BY <1>2
    <3>2. h[1] = More(h[1 - 1], 1)
      BY <1>1, <3>1
    <3>3. QED BY <1>1, <3>1, <3>2
  <2> USE DEF More
  <2>2. QED BY <1>2, <2>1, MeaningType, ConcatEmptySeq
<1>4. ASSUME NEW i \in 2..n PROVE parts[i] \in Letter /\ h[i] = Append(h[i - 1], parts[i])
  <2>1. parts[i] \in Letter /\ parts[i] \notin Special
    BY SandboxAssumption DEF PlainTail, Letter
  <2>2. h[i] = More(h[i - 1], i) /\ h[i - 1] \in Seq(Letter)
    <3> HIDE DEF More
    <3>1. i \in 1..n /\ i - 1 \in 0..n
      BY <1>2
    <3>2. QED BY <1>1, <3>1
  <2>3. h[i] = h[i - 1] \o <<parts[i]>>
    BY <2>1, <2>2, MeaningOf
  <2>4. QED BY <2>1, <2>2, <2>3, AppendIsConcat
<1>5. IsJoin(h[n], h[1], parts)
  <2> HIDE DEF n
  <2>1. QED BY <1>2, <1>4, Appended DEF n
<1>6. QED BY <1>1, <1>3, <1>5

LEMMA PlainResolve ==
    ASSUME NEW p \in Path, p.parts # <<>>, PlainTail(p.parts)
    PROVE  IsJoin(Resolve(Pwd, p), Step(IF p.abs THEN <<>> ELSE Pwd, p.parts[1]), p.parts)
<1> DEFINE n == Len(p.parts)
           start == IF p.abs THEN <<>> ELSE Pwd
<1>1. Pwd \in Seq(Place)
  BY SandboxAssumption DEF Place
<1>2. PICK h \in [0..n -> Seq(Place)] :
         /\ h[0] = start
         /\ \A i \in 1..n : h[i] = Step(h[i - 1], p.parts[i])
         /\ Resolve(Pwd, p) = h[n]
  BY <1>1, ResolveFold
<1>3. n \in Nat \ {0}
  BY DEF Path
<1>4. h[1] = Step(start, p.parts[1])
  BY <1>2, <1>3
<1>5. ASSUME NEW i \in 2..n
      PROVE  p.parts[i] \in Place /\ h[i] = Append(h[i - 1], p.parts[i])
  <2>1. p.parts[i] \in Name /\ p.parts[i] # "." /\ p.parts[i] # ".."
    BY SandboxAssumption DEF PlainTail, Special
  <2>2. h[i] = Step(h[i - 1], p.parts[i])
    BY <1>2, <1>3
  <2>3. QED BY <2>1, <2>2, StepOf DEF Place
<1>6. IsJoin(h[n], h[1], p.parts)
  <2> HIDE DEF n
  <2>1. QED BY <1>3, <1>5, Appended DEF n
<1>7. QED BY <1>2, <1>4, <1>6

-----------------------------------------------------------------------------
(* Contains.                                                               *)

\* b is the end of a, after k elements.
Suffix(a, b, k) ==
    k \in Nat /\ Len(a) = k + Len(b) /\ \A j \in 1..Len(b) : a[k + j] = b[j]

LEMMA JoinSuffix ==
    ASSUME NEW S, NEW t \in Seq(S), NEW m \in Seq(S), NEW r \in Seq(S), NEW l \in Seq(S),
           NEW s \in Seq(Component), s # <<>>, NEW k,
           IsJoin(t, m, s), IsJoin(r, l, s), Suffix(m, l, k)
    PROVE  Suffix(t, r, k)
<1>1. /\ Len(m) \in Nat /\ Len(l) \in Nat /\ Len(s) \in Nat \ {0} /\ k \in Nat
      /\ Len(m) = k + Len(l)
  BY DEF Suffix
<1>2. Len(t) = k + Len(r)
  BY <1>1 DEF IsJoin
<1>3. ASSUME NEW j \in 1..Len(r) PROVE t[k + j] = r[j]
  <2>1. CASE j <= Len(l)
    BY <1>1, <2>1 DEF IsJoin, Suffix
  <2>2. CASE j > Len(l)
    <3> DEFINE i == j - Len(l) + 1
    <3>1. i \in 2..Len(s) /\ Len(l) + i - 1 = j /\ Len(m) + i - 1 = k + j
      BY <1>1, <2>2 DEF IsJoin
    <3> HIDE DEF i
    <3>2. QED BY <3>1 DEF IsJoin
  <2>3. QED BY <1>1, <2>1, <2>2
<1>4. QED BY <1>1, <1>2, <1>3 DEF Suffix

LEMMA BelowContains ==
    ASSUME NEW S, NEW a \in Seq(S), NEW b \in Seq(S), NEW r \in Seq(S), NEW w \in Seq(S),
           NEW k, NEW q, Suffix(a, r, k), Suffix(w, b, q), Below(r, w)
    PROVE  Contains(a, b)
<1>1. Len(a) \in Nat /\ Len(b) \in Nat /\ Len(r) \in Nat /\ Len(w) \in Nat
  OBVIOUS
<1>2. \A j \in 1..Len(w) : r[j] = w[j]
  <2>1. w = SubSeq(r, 1, Len(w)) /\ Len(w) <= Len(r)
    BY DEF Below
  <2> DEFINE n == Len(w)
  <2>2. \A j \in 1..n : SubSeq(r, 1, n)[j] = r[j]
    <3>1. n \in Nat /\ n <= Len(r)
      BY <2>1
    <3> HIDE DEF n
    <3>2. QED BY <1>1, <3>1
  <2>3. QED BY <2>1, <2>2
<1>3. /\ k \in Nat /\ q \in Nat /\ Len(a) = k + Len(r) /\ Len(w) = q + Len(b)
      /\ Len(w) <= Len(r)
  BY DEF Suffix, Below
<1>4. ASSUME NEW j \in 1..Len(b) PROVE a[k + q + j] = b[j]
  <2>1. q + j \in 1..Len(w) /\ q + j \in 1..Len(r) /\ k + (q + j) = k + q + j
    BY <1>1, <1>3
  <2>2. a[k + (q + j)] = r[q + j] /\ w[q + j] = b[j]
    BY <2>1 DEF Suffix
  <2>3. QED BY <1>2, <2>1, <2>2
<1>5. k + q \in 0..(Len(a) - Len(b))
  BY <1>1, <1>3
<1>6. QED BY <1>4, <1>5 DEF Contains, Begins

LEMMA ContainsNothing ==
    ASSUME NEW S, NEW a \in Seq(S) PROVE Contains(a, <<>>)
<1>1. 0 \in 0..(Len(a) - Len(<<>>)) /\ 1..Len(<<>>) = {}
  OBVIOUS
<1>2. QED BY <1>1 DEF Contains

\* What contains b contains every beginning of b.
LEMMA ContainsBeginning ==
    ASSUME NEW S, NEW a \in Seq(S), NEW b \in Seq(S), NEW m \in Seq(S),
           Len(m) <= Len(b), \A j \in 1..Len(m) : b[j] = m[j], Contains(a, b)
    PROVE  Contains(a, m)
<1>1. PICK i \in 0..(Len(a) - Len(b)) :
         \A j \in 1..Len(b) : IF j < Len(b) THEN a[i + j] = b[j]
                                            ELSE Begins(a[i + j], b[j])
  BY DEF Contains
<1>2. Len(a) \in Nat /\ Len(b) \in Nat /\ Len(m) \in Nat
  OBVIOUS
<1>3. i \in 0..(Len(a) - Len(m))
  BY <1>2
<1>4. ASSUME NEW j \in 1..Len(m)
      PROVE  IF j < Len(m) THEN a[i + j] = m[j] ELSE Begins(a[i + j], m[j])
  <2>1. j \in 1..Len(b) /\ b[j] = m[j] /\ (j < Len(m) => j < Len(b))
    BY <1>2
  <2>2. IF j < Len(b) THEN a[i + j] = m[j] ELSE Begins(a[i + j], m[j])
    BY <1>1, <2>1
  <2>3. QED BY <2>1, <2>2 DEF Begins
<1>5. QED BY <1>3, <1>4 DEF Contains

-----------------------------------------------------------------------------
(* The cut of BASE_PATH.                                                   *)

LEMMA ComponentsType == \A p \in Path : Components(p) \in Seq(Component)
<1> SUFFICES ASSUME NEW p \in Path PROVE Components(p) \in Seq(Component)
  OBVIOUS
<1>1. p.parts \in Seq(Component) /\ <<".">> \in Seq(Component)
  BY DEF Path, Component, Special
<1>2. <<".">> \o p.parts \in Seq(Component)
  BY <1>1, ConcatProperties
<1>3. QED BY <1>1, <1>2 DEF Components

LEMMA AbsoluteType == \A parts \in Seq(Component) : Absolute(parts) \in Seq(Letter)
<1> SUFFICES ASSUME NEW parts \in Seq(Component) PROVE Absolute(parts) \in Seq(Letter)
  OBVIOUS
<1>1. CASE parts # <<>>
  <2>1. PICK h \in [0..Len(parts) -> Seq(Letter)] : Absolute(parts) = h[Len(parts)]
    BY <1>1, AbsoluteFold
  <2>2. Len(parts) \in 0..Len(parts)
    OBVIOUS
  <2>3. QED BY <2>1, <2>2
<1>2. <<Blank>> \in Seq(Letter)
  BY DEF Letter
<1>3. QED BY <1>1, <1>2, AbsoluteNone

LEMMA CutType == \A b \in Path : Cut(b) \in Path
<1> SUFFICES ASSUME NEW b \in Path PROVE Cut(b) \in Path
  OBVIOUS
<1>1. b.parts \in Seq(Component)
  BY DEF Path, Component
<1>2. Len(b.parts) > 1 => <<b.parts[1]>> \in Seq(Component)
  BY <1>1
<1>3. QED BY <1>1, <1>2 DEF Cut, Path, Component

LEMMA CutParts ==
    ASSUME NEW b \in Path
    PROVE  Cut(b).parts = IF Len(b.parts) > 1 THEN <<b.parts[1]>> ELSE b.parts
BY DEF Cut, Path

\* What is built up begins with the meaning of the first component.
LEMMA AbsoluteBegins ==
    ASSUME NEW parts \in Seq(Component), parts # <<>>
    PROVE  /\ Len(Meaning(parts[1])) <= Len(Absolute(parts))
           /\ \A j \in 1..Len(Meaning(parts[1])) : Absolute(parts)[j] = Meaning(parts[1])[j]
<1> DEFINE n == Len(parts)
           More(v, i) == v \o Meaning(parts[i])
           m == Meaning(parts[1])
<1>1. PICK h \in [0..n -> Seq(Letter)] :
         /\ h[0] = <<>>
         /\ \A i \in 1..n : h[i] = More(h[i - 1], i)
         /\ Absolute(parts) = h[n]
  BY AbsoluteFold
<1>2. n \in Nat \ {0} /\ \A i \in 1..n : parts[i] \in Component
  OBVIOUS
<1>3. m \in Seq(Letter) /\ m = More(<<>>, 1)
  BY <1>2, MeaningType, ConcatEmptySeq
<1>4. \A v \in Seq(Letter), i \in 1..n :
         /\ More(v, i) \in Seq(Letter) /\ Len(v) <= Len(More(v, i))
         /\ \A j \in 1..Len(v) : More(v, i)[j] = v[j]
  <2>1. \A i \in 1..n : Meaning(parts[i]) \in Seq(Letter)
    BY <1>2, MeaningType
  <2>2. QED BY <2>1, ConcatProperties
<1> HIDE DEF n, More, m
<1> DEFINE P(i) == Len(m) <= Len(h[i]) /\ \A j \in 1..Len(m) : h[i][j] = m[j]
           T == {i \in 0..(n - 1) : P(i + 1)}
<1>5. h[1] = m
  <2>1. 1 \in 1..n /\ 1 - 1 = 0
    BY <1>2
  <2>2. h[1] = More(h[1 - 1], 1)
    BY <1>1, <2>1
  <2>3. QED BY <1>1, <1>3, <2>1, <2>2
<1>6. 0 \in T
  BY <1>2, <1>3, <1>5
<1>7. ASSUME NEW i \in 0..((n - 1) - 1), i \in T PROVE i + 1 \in T
  <2>1. /\ i + 1 \in 0..(n - 1) /\ i + 1 \in 0..n
        /\ (i + 1) + 1 \in 1..n /\ ((i + 1) + 1) - 1 = i + 1
    BY <1>2
  <2>2. h[(i + 1) + 1] = More(h[i + 1], (i + 1) + 1) /\ h[i + 1] \in Seq(Letter)
    BY <1>1, <2>1
  <2>3. /\ Len(h[i + 1]) <= Len(h[(i + 1) + 1])
        /\ \A j \in 1..Len(h[i + 1]) : h[(i + 1) + 1][j] = h[i + 1][j]
        /\ h[(i + 1) + 1] \in Seq(Letter)
    BY <1>4, <2>1, <2>2
  <2>4. P(i + 1)
    BY <1>7
  <2>5. P((i + 1) + 1)
    BY <1>3, <2>2, <2>3, <2>4
  <2>6. QED BY <2>1, <2>5
<1>8. 0..(n - 1) \subseteq T
  <2>1. n - 1 \in Nat
    BY <1>2
  <2> HIDE DEF T
  <2>2. QED BY <1>6, <1>7, <2>1, UpTo
<1>9. P(n)
  <2>1. n - 1 \in 0..(n - 1) /\ (n - 1) + 1 = n
    BY <1>2
  <2>2. QED BY <1>8, <2>1
<1>10. QED BY <1>1, <1>9 DEF m

LEMMA AbsoluteOne == \A c \in Component : Absolute(<<c>>) = Meaning(c)
<1> SUFFICES ASSUME NEW c \in Component PROVE Absolute(<<c>>) = Meaning(c)
  OBVIOUS
<1> DEFINE s == <<c>>
           More(v, i) == v \o Meaning(s[i])
<1>1. s \in Seq(Component) /\ s # <<>> /\ Len(s) = 1 /\ s[1] = c
  OBVIOUS
<1>2. PICK h \in [0..1 -> Seq(Letter)] :
         h[0] = <<>> /\ h[1] = More(h[1 - 1], 1) /\ Absolute(s) = h[1]
  <2> HIDE DEF s
  <2>1. PICK h \in [0..Len(s) -> Seq(Letter)] :
           /\ h[0] = <<>>
           /\ \A i \in 1..Len(s) : h[i] = More(h[i - 1], i)
           /\ Absolute(s) = h[Len(s)]
    BY <1>1, AbsoluteFold
  <2> HIDE DEF More
  <2>2. h[1] = More(h[1 - 1], 1) /\ h \in [0..1 -> Seq(Letter)] /\ Absolute(s) = h[1]
    BY <1>1, <2>1
  <2>3. QED BY <2>1, <2>2
<1>3. More(<<>>, 1) = Meaning(c)
  BY <1>1, MeaningType, ConcatEmptySeq
<1>4. 1 - 1 = 0
  OBVIOUS
<1> HIDE DEF s, More
<1>5. Absolute(s) = Meaning(c)
  BY <1>2, <1>3, <1>4
<1>6. QED BY <1>5 DEF s

\* A name accepted before the cut is accepted after it.
LEMMA AcceptsCut ==
    ASSUME NEW b \in Path, NEW p \in Path, Accepts(b, p)
    PROVE  Accepts(Cut(b), p)
<1>1. CASE ~(Len(b.parts) > 1)
  <2>1. Cut(b).parts = b.parts
    BY <1>1, CutParts
  <2>2. QED BY <2>1 DEF Accepts
<1>2. CASE Len(b.parts) > 1
  <2>1. b.parts \in Seq(Component) /\ b.parts # <<>> /\ b.parts[1] \in Component
    <3>1. b.parts \in Seq(Component)
      BY DEF Path, Component
    <3>2. QED BY <1>2, <3>1
  <2>2. Absolute(Cut(b).parts) = Meaning(b.parts[1])
    BY <1>2, <2>1, CutParts, AbsoluteOne
  <2> DEFINE a == Absolute(Components(p))
             w == Absolute(b.parts)
             m == Meaning(b.parts[1])
  <2>3. a \in Seq(Letter) /\ w \in Seq(Letter) /\ m \in Seq(Letter)
    BY <2>1, ComponentsType, AbsoluteType, MeaningType
  <2>4. Len(m) <= Len(w) /\ \A j \in 1..Len(m) : w[j] = m[j]
    BY <2>1, AbsoluteBegins
  <2>5. Contains(a, w)
    BY DEF Accepts
  <2> HIDE DEF a, w, m
  <2>6. Contains(a, m)
    BY <2>3, <2>4, <2>5, ContainsBeginning
  <2>7. QED BY <2>2, <2>6 DEF Accepts, a, m
<1>3. QED BY <1>1, <1>2

-----------------------------------------------------------------------------
(* A plain name below the base is accepted.                                *)

\* Where the first component leads.
Start(p) == Step(IF p.abs THEN <<>> ELSE Pwd, p.parts[1])

LEMMA ResolveType == \A d \in Seq(Place), p \in Path : Resolve(d, p) \in Seq(Place)
<1> SUFFICES ASSUME NEW d \in Seq(Place), NEW p \in Path PROVE Resolve(d, p) \in Seq(Place)
  OBVIOUS
<1>1. PICK h \in [0..Len(p.parts) -> Seq(Place)] : Resolve(d, p) = h[Len(p.parts)]
  BY ResolveFold
<1>2. Len(p.parts) \in 0..Len(p.parts)
  BY DEF Path
<1>3. QED BY <1>1, <1>2

LEMMA PlainParts ==
    ASSUME NEW p \in Path, Plain(p), p.parts # <<>>
    PROVE  /\ p.parts \in Seq(Component) /\ p.parts[1] \in Component
           /\ PlainTail(p.parts) /\ p.abs \in BOOLEAN
           /\ p.abs \/ p.parts[1] \notin Hidden \cup {"~"}
<1>1. p.parts \in Seq(Component) /\ p.abs \in BOOLEAN
  BY DEF Path, Component
<1>2. \A i \in 1..Len(p.parts) : p.parts[i] \in Component
  BY <1>1
<1>3. PlainTail(p.parts)
  BY <1>2 DEF Plain, PlainTail, Component
<1>4. QED BY <1>1, <1>2, <1>3 DEF Plain

LEMMA Directories ==
    /\ Pwd \in Seq(Name) /\ Pwd \in Seq(Place) /\ Parent \in Seq(Name)
    /\ Home \in Seq(Place) /\ Parent \in Seq(Place) /\ <<>> \in Seq(Place)
    /\ Len(Pwd) \in Nat /\ Len(Parent) \in Nat
BY SandboxAssumption, ParentType DEF Place

\* Texts and places are sequences over one set.
Whole == Name \cup {"~", Blank}

LEMMA SeqWhole ==
    /\ \A d \in Seq(Name) : d \in Seq(Whole)
    /\ \A d \in Seq(Letter) : d \in Seq(Whole)
    /\ \A d \in Seq(Place) : d \in Seq(Whole)
BY DEF Letter, Place, Whole

\* Where . and .. lead.
LEMMA StartDots ==
    ASSUME NEW p \in Path
    PROVE  /\ p.parts[1] = "." => Start(p) = IF p.abs THEN <<>> ELSE Pwd
           /\ p.parts[1] = ".." => Start(p) = IF p.abs THEN <<>> ELSE Parent
<1>1. SubSeq(<<>>, 1, Len(<<>>) - 1) = <<>>
  OBVIOUS
<1>2. QED BY <1>1, StepOf DEF Start, Parent

LEMMA StartName ==
    ASSUME NEW p \in Path, p.parts[1] \in Name
    PROVE  Start(p) = Append(IF p.abs THEN <<>> ELSE Pwd, p.parts[1])
BY SandboxAssumption, StepOf DEF Start, Special

\* A component's meaning is the text of the directory it leads to.
LEMMA AcceptedText ==
    ASSUME NEW p \in Path, p # Empty, Plain(p), Pwd # <<>>,
           ~(p.abs /\ p.parts # <<>> /\ p.parts[1] = "~")
    PROVE  \E k : Suffix(Absolute(Components(p)), Resolve(Pwd, p), k)
<1> DEFINE a == Absolute(Components(p))
           r == Resolve(Pwd, p)
<1>1. a \in Seq(Whole) /\ r \in Seq(Whole)
  BY ComponentsType, AbsoluteType, SeqWhole, Directories, ResolveType
<1>2. CASE p.parts = <<>>
  <2>1. p.abs
    BY <1>2 DEF Empty, Path
  <2>2. Components(p) = <<>>
    BY <1>2, <2>1 DEF Components
  <2>3. a = <<Blank>>
    BY <2>2, AbsoluteNone
  <2>4. r = <<>>
    <3>1. Len(p.parts) = 0
      BY <1>2
    <3>2. QED BY <2>1, <3>1, ResolveFold, Directories
  <2>5. Suffix(<<Blank>>, <<>>, 1)
    BY DEF Suffix
  <2>6. QED BY <2>3, <2>4, <2>5
<1>3. CASE p.parts # <<>>
  <2> DEFINE c == p.parts[1]
             s == p.parts
             m == Meaning(c)
             l == Start(p)
  <2>1. /\ s \in Seq(Component) /\ s # <<>> /\ c \in Component /\ PlainTail(s)
        /\ p.abs \/ c \notin Hidden \cup {"~"}
    BY <1>3, PlainParts
  <2>2. m \in Seq(Whole) /\ l \in Seq(Whole)
    BY <2>1, MeaningType, SeqWhole, StepType, Directories DEF Start
  <2>3. IsJoin(r, l, s)
    BY <1>3, <2>1, PlainResolve DEF Start
  <2>4. ASSUME NEW k, Suffix(m, l, k), Components(p) = s PROVE Suffix(a, r, k)
    <3>1. IsJoin(a, m, s)
      BY <2>1, <2>4, PlainAbsolute
    <3> HIDE DEF a, r, s, m, l
    <3>2. QED BY <1>1, <2>1, <2>2, <2>3, <2>4, <3>1, JoinSuffix
  <2>5. CASE c \in {".", ".."}
    <3>1. Components(p) = s
      BY <2>5 DEF Components, Special
    <3>2. \A x \in Seq(Whole) : Suffix(x, x, 0) /\ Suffix(x, <<>>, Len(x))
      BY DEF Suffix
    <3>3. (m = l) \/ (l = <<>>)
      BY <2>5, MeaningOf, StartDots DEF Text
    <3>4. \E k : Suffix(m, l, k)
      <4> HIDE DEF m, l
      <4>1. QED BY <2>2, <3>2, <3>3
    <3>5. QED BY <2>4, <3>1, <3>4
  <2>6. CASE c \in Name /\ p.abs
    <3>1. Components(p) = s
      BY <2>6 DEF Components
    <3>2. m = <<c>> /\ l = <<c>>
      <4>1. c \notin Special
        BY <2>6, SandboxAssumption
      <4>2. Append(<<>>, c) = <<c>>
        OBVIOUS
      <4>3. QED BY <2>6, <4>1, <4>2, MeaningOf, StartName
    <3>3. Suffix(<<c>>, <<c>>, 0)
      BY DEF Suffix
    <3>4. QED BY <2>4, <3>1, <3>2, <3>3
  <2>7. CASE c \in Name /\ ~p.abs
    <3> DEFINE t == <<".">> \o s
    <3>1. Components(p) = t
      BY <2>1, <2>7, SandboxAssumption DEF Components
    <3>2. /\ t \in Seq(Component) /\ t # <<>> /\ t[1] = "." /\ Len(t) = Len(s) + 1
          /\ \A j \in 2..Len(t) : t[j] = s[j - 1]
      <4>1. <<".">> \in Seq(Component) /\ Len(<<".">>) = 1
        BY DEF Component, Special
      <4>2. QED BY <2>1, <4>1, ConcatProperties
    <3>3. \A j \in 1..Len(s) : s[j] \in Name
      BY <2>1, <2>7 DEF PlainTail
    <3> HIDE DEF t, s
    <3>4. Len(s) \in Nat /\ Len(s) # 0
      BY <2>1
    <3>5. PlainTail(t)
      BY <3>2, <3>3, <3>4 DEF PlainTail
    <3>6. IsJoin(a, Pwd, t)
      BY <3>1, <3>2, <3>5, PlainAbsolute, MeaningOf DEF Text
    <3>7. l = Append(Pwd, s[1])
      BY <2>7, StartName DEF s
    <3>8. /\ Len(l) = Len(Pwd) + 1 /\ \A j \in 1..Len(Pwd) : l[j] = Pwd[j]
          /\ l[Len(Pwd) + 1] = s[1]
      BY <3>7, <3>3, <3>4, Directories, AppendProperties
    <3> HIDE DEF a, r, l
    <3>9. Len(a) = 0 + Len(r)
      BY <2>3, <3>2, <3>4, <3>6, <3>8, Directories DEF IsJoin
    <3>10. ASSUME NEW j \in 1..Len(r) PROVE a[0 + j] = r[j]
      <4>1. Len(r) = Len(Pwd) + Len(s)
        BY <2>3, <3>4, <3>8, Directories DEF IsJoin
      <4>2. CASE j <= Len(Pwd)
        BY <2>3, <3>6, <3>8, <4>2, Directories DEF IsJoin
      <4>3. CASE j = Len(Pwd) + 1
        <5>1. 2 \in 2..Len(t) /\ Len(Pwd) + 2 - 1 = j /\ 2 - 1 = 1 /\ j \in 1..Len(l) /\ 0 + j = j
          BY <3>2, <3>4, <3>8, <4>3, Directories
        <5>2. a[j] = s[1] /\ r[j] = l[j]
          BY <2>3, <3>2, <3>6, <5>1 DEF IsJoin
        <5>3. QED BY <3>8, <4>3, <5>1, <5>2
      <4>4. CASE j > Len(Pwd) + 1
        <5> DEFINE i == j - Len(Pwd)
        <5>1. /\ i \in 2..Len(s) /\ i + 1 \in 2..Len(t) /\ (i + 1) - 1 = i
              /\ Len(Pwd) + (i + 1) - 1 = j /\ Len(l) + i - 1 = j /\ 0 + j = j
          BY <3>2, <3>4, <3>8, <4>1, <4>4, Directories
        <5> HIDE DEF i
        <5> DEFINE i1 == i + 1
        <5>2. a[j] = t[i1]
          <6>1. i1 \in 2..Len(t) /\ Len(Pwd) + i1 - 1 = j
            BY <5>1
          <6> HIDE DEF i1
          <6>2. QED BY <3>6, <6>1 DEF IsJoin
        <5>3. t[i1] = s[i]
          BY <3>2, <5>1
        <5>4. r[j] = s[i]
          BY <2>3, <5>1 DEF IsJoin
        <5>5. QED BY <5>1, <5>2, <5>3, <5>4
      <4>5. QED BY <4>2, <4>3, <4>4, Directories
    <3>11. Suffix(a, r, 0)
      BY <3>9, <3>10 DEF Suffix
    <3>12. QED BY <3>11 DEF a, r
  <2>8. c \in Name \/ c \in {".", ".."}
    BY <1>3, <2>1 DEF Component, Special
  <2>9. QED BY <2>1, <2>5, <2>6, <2>7, <2>8
<1>4. QED BY <1>2, <1>3

\* The text of a plain base is the end of the directory it names.
LEMMA BaseText ==
    ASSUME NEW b \in Path, PlainBase(b), Pwd # <<>>
    PROVE  \/ Absolute(b.parts) = <<Blank>>
           \/ /\ \E q : Suffix(Resolve(Pwd, b), Absolute(b.parts), q)
              /\ b.parts # <<>> /\ PlainTail(b.parts) /\ b.parts[1] # "~"
<1> DEFINE a == Absolute(b.parts)
           w == Resolve(Pwd, b)
<1>1. CASE b.parts = <<>>
  BY <1>1, AbsoluteNone
<1>2. CASE b.parts # <<>>
  <2> DEFINE c == b.parts[1]
             s == b.parts
             m == Meaning(c)
             l == Start(b)
  <2>1. /\ s \in Seq(Component) /\ s # <<>> /\ c \in Component /\ PlainTail(s)
        /\ b.abs \/ c \notin Hidden \cup {"~"}
        /\ b.abs => c \notin Special
    BY <1>2, PlainParts DEF PlainBase
  <2>2. m \in Seq(Whole) /\ l \in Seq(Whole)
    BY <2>1, MeaningType, SeqWhole, StepType, Directories DEF Start
  <2>3. a \in Seq(Whole) /\ w \in Seq(Whole) /\ IsJoin(w, l, s) /\ IsJoin(a, m, s)
    BY <1>2, <2>1, AbsoluteType, SeqWhole, Directories, ResolveType, PlainResolve, PlainAbsolute
       DEF Start
  <2>4. \E q : Suffix(l, m, q)
    <3>1. CASE c \in Name
      <4>1. m = <<c>> /\ l = Append(IF b.abs THEN <<>> ELSE Pwd, c)
        BY <3>1, SandboxAssumption, MeaningOf, StartName
      <4>2. \A d \in Seq(Whole) : Suffix(Append(d, c), <<c>>, Len(d))
        BY <3>1 DEF Suffix
      <4>3. (IF b.abs THEN <<>> ELSE Pwd) \in Seq(Whole)
        BY Directories, SeqWhole
      <4>4. QED BY <4>1, <4>2, <4>3
    <3>2. CASE c \in {".", ".."}
      <4>1. ~b.abs
        BY <2>1, <3>2 DEF Special
      <4>2. m = l
        BY <3>2, <4>1, MeaningOf, StartDots DEF Text
      <4>3. Suffix(l, l, 0)
        <5> HIDE DEF l
        <5>1. QED BY <2>2 DEF Suffix
      <4>4. QED BY <4>2, <4>3
    <3>3. QED BY <2>1, <3>1, <3>2 DEF Component, Special
  <2>5. \E q : Suffix(w, a, q)
    <3> HIDE DEF a, w, s, m, l
    <3>1. QED BY <2>1, <2>2, <2>3, <2>4, JoinSuffix
  <2>6. c # "~"
    BY <2>1 DEF Special
  <2>7. QED BY <1>2, <2>1, <2>5, <2>6
<1>3. QED BY <1>1, <1>2

\* What a name that begins with "~" after a slash leads to begins with "~".
LEMMA TildeFirst ==
    ASSUME NEW p \in Path, Plain(p), p.abs, p.parts # <<>>, p.parts[1] = "~"
    PROVE  Len(Resolve(Pwd, p)) >= 1 /\ Resolve(Pwd, p)[1] = "~"
<1>1. Step(<<>>, "~") = <<"~">>
  <2>1. Append(<<>>, "~") = <<"~">>
    OBVIOUS
  <2>2. QED BY <2>1, StepOf
<1>2. IsJoin(Resolve(Pwd, p), <<"~">>, p.parts)
  BY <1>1, PlainParts, PlainResolve
<1>3. Len(p.parts) \in Nat \ {0}
  BY DEF Path
<1>4. QED BY <1>2, <1>3 DEF IsJoin

\* What a plain base leads to has no "~" in it.
LEMMA BaseNames ==
    ASSUME NEW b \in Path, b.parts # <<>>, PlainTail(b.parts), b.parts[1] # "~"
    PROVE  \A j \in 1..Len(Resolve(Pwd, b)) : Resolve(Pwd, b)[j] \in Name
<1> DEFINE w == Resolve(Pwd, b)
           l == Start(b)
           s == b.parts
<1>1. s \in Seq(Component) /\ s[1] \in Component
  BY DEF Path, Component
<1>2. IsJoin(w, l, s)
  BY PlainResolve DEF Start
<1>3. l \in Seq(Name)
  <2>1. CASE s[1] \in Name
    <3>1. Append(IF b.abs THEN <<>> ELSE Pwd, s[1]) \in Seq(Name)
      BY <2>1, Directories
    <3>2. QED BY <2>1, <3>1, StartName
  <2>2. CASE s[1] \in {".", ".."}
    <3>1. <<>> \in Seq(Name)
      OBVIOUS
    <3>2. QED BY <2>2, <3>1, StartDots, Directories
  <2>3. QED BY <1>1, <2>1, <2>2 DEF Component, Special
<1>4. w \in Seq(Place)
  BY ResolveType, Directories
<1> HIDE DEF w, l, s
<1>5. Len(l) \in Nat /\ Len(s) \in Nat /\ Len(w) \in Nat /\ Len(w) = Len(l) + Len(s) - 1
  BY <1>1, <1>2, <1>3, <1>4 DEF IsJoin
<1>6. ASSUME NEW j \in 1..Len(w) PROVE w[j] \in Name
  <2>1. CASE j <= Len(l)
    BY <1>2, <1>3, <1>5, <2>1 DEF IsJoin
  <2>2. CASE j > Len(l)
    <3> DEFINE i == j - Len(l) + 1
    <3>1. i \in 2..Len(s) /\ Len(l) + i - 1 = j
      BY <1>5, <2>2
    <3>2. s[i] \in Name
      BY <3>1 DEF PlainTail, s
    <3> HIDE DEF i
    <3>3. QED BY <1>2, <3>1, <3>2 DEF IsJoin
  <2>3. QED BY <1>5, <2>1, <2>2
<1>7. QED BY <1>6 DEF w

\* The text of a plain name is not empty but for .. just below /.
LEMMA TextNotEmpty ==
    ASSUME NEW p \in Path, p # Empty, Plain(p), Pwd # <<>>,
           ~(p.parts = <<"..">> /\ Len(Pwd) = 1)
    PROVE  Absolute(Components(p)) # <<>>
<1> DEFINE s == Components(p)
<1>1. s \in Seq(Component) /\ Absolute(s) \in Seq(Letter)
  BY ComponentsType, AbsoluteType
<1>2. CASE s = <<>>
  BY <1>2, AbsoluteNone
<1>3. CASE s # <<>> /\ Meaning(s[1]) # <<>>
  <2>1. s[1] \in Component
    BY <1>1, <1>3
  <2> HIDE DEF s
  <2>2. Meaning(s[1]) \in Seq(Letter) /\ Len(Meaning(s[1])) <= Len(Absolute(s))
    BY <1>1, <1>3, <2>1, MeaningType, AbsoluteBegins
  <2> DEFINE m == Meaning(s[1])
             a == Absolute(s)
  <2>3. m \in Seq(Letter) /\ m # <<>> /\ a \in Seq(Letter) /\ Len(m) <= Len(a)
    BY <1>1, <1>3, <2>2
  <2> HIDE DEF m, a
  <2>4. a # <<>>
    BY <2>3
  <2>5. QED BY <2>4 DEF a, s
<1>4. CASE s # <<>> /\ Meaning(s[1]) = <<>>
  <2>1. s[1] = ".." /\ Len(Pwd) = 1
    <3>1. s[1] \in Component
      BY <1>1, <1>4
    <3>2. Text(Pwd) # <<>> /\ Text(Home) # <<>>
      BY DEF Text
    <3>3. <<s[1]>> # <<>>
      OBVIOUS
    <3> HIDE DEF s
    <3>4. s[1] = ".."
      BY <1>4, <3>1, <3>2, <3>3, MeaningOf DEF Special
    <3>5. Parent = <<>>
      BY <1>4, <3>4, MeaningOf
    <3>6. Len(Parent) = Len(Pwd) - 1
      <4>1. Len(Pwd) \in Nat \ {0} /\ Pwd \in Seq(Name)
        BY SandboxAssumption
      <4>2. Len(SubSeq(Pwd, 1, Len(Pwd) - 1)) = Len(Pwd) - 1
        <5> DEFINE n == Len(Pwd) - 1
        <5>1. n \in Nat /\ \A i \in 1..n : Pwd[i] \in Name
          <6>1. \A i \in 1..(Len(Pwd) - 1) : i \in 1..Len(Pwd)
            BY <4>1
          <6>2. \A i \in 1..Len(Pwd) : Pwd[i] \in Name
            BY <4>1
          <6>3. QED BY <4>1, <6>1, <6>2
        <5> HIDE DEF n
        <5>2. 1 \in Int /\ n - 1 + 1 = n /\ (1 <= n \/ n = 0)
          BY <5>1
        <5>3. Len(SubSeq(Pwd, 1, n)) = n
          BY <5>1, <5>2, SubSeqProperties
        <5>4. QED BY <5>3 DEF n
      <4>3. QED BY <4>2 DEF Parent
    <3>7. Len(<<>>) = 0 /\ Len(Pwd) \in Nat
      BY SandboxAssumption
    <3>8. QED BY <3>4, <3>5, <3>6, <3>7
  <2>2. s = p.parts /\ p.parts # <<>>
    <3>1. (<<".">> \o p.parts)[1] = "."
      BY DEF Path
    <3>2. QED BY <1>4, <2>1, <3>1 DEF Components
  <2>3. PlainTail(s)
    BY <2>2, PlainParts
  <2> HIDE DEF s
  <2>4. IsJoin(Absolute(s), <<>>, s)
    BY <1>1, <1>4, <2>3, PlainAbsolute
  <2>5. Len(s) \in Nat /\ Len(s) # 1 /\ Len(s) # 0
    <3>1. ASSUME Len(s) = 1 PROVE s = <<"..">>
      BY <1>1, <2>1, <3>1
    <3>2. QED BY <1>1, <1>4, <2>1, <2>2, <3>1
  <2>6. Len(Absolute(s)) = Len(s) - 1
    BY <2>4, <2>5 DEF IsJoin
  <2>7. QED BY <2>5, <2>6 DEF s
<1>5. QED BY <1>2, <1>3, <1>4

LEMMA ContainsRoot ==
    ASSUME NEW S, NEW a \in Seq(S), a # <<>> PROVE Contains(a, <<Blank>>)
<1>1. Len(a) \in Nat \ {0} /\ Len(<<Blank>>) = 1 /\ <<Blank>>[1] = Blank
  OBVIOUS
<1>2. QED BY <1>1 DEF Contains, Begins

\* is_sub_directory finds every plain name below a plain base.
LEMMA PlainAccepted ==
    ASSUME NEW b \in Path, NEW p \in Path, p # Empty, Plain(p), PlainBase(b),
           Pwd # <<>>, ~(p.parts = <<"..">> /\ Len(Pwd) = 1),
           Below(Resolve(Pwd, p), Resolve(Pwd, b))
    PROVE  Accepts(b, p)
<1> DEFINE a == Absolute(Components(p))
           t == Absolute(b.parts)
           r == Resolve(Pwd, p)
           w == Resolve(Pwd, b)
<1>1. a \in Seq(Whole) /\ t \in Seq(Whole) /\ r \in Seq(Whole) /\ w \in Seq(Whole)
  <2>1. b.parts \in Seq(Component)
    BY DEF Path, Component
  <2>2. QED BY <2>1, ComponentsType, AbsoluteType, SeqWhole, Directories, ResolveType
<1>2. CASE t = <<>>
  BY <1>1, <1>2, ContainsNothing DEF Accepts
<1>3. CASE t = <<Blank>>
  BY <1>1, <1>3, TextNotEmpty, ContainsRoot DEF Accepts
<1>4. CASE t # <<>> /\ t # <<Blank>>
  <2>1. /\ \E q : Suffix(w, t, q)
        /\ b.parts # <<>> /\ PlainTail(b.parts) /\ b.parts[1] # "~"
    BY <1>4, BaseText
  <2>2. ~(p.abs /\ p.parts # <<>> /\ p.parts[1] = "~")
    <3> SUFFICES ASSUME p.abs, p.parts # <<>>, p.parts[1] = "~" PROVE FALSE
      OBVIOUS
    <3>1. r[1] = "~" /\ Len(r) >= 1
      BY TildeFirst
    <3>2. \A j \in 1..Len(w) : w[j] \in Name
      BY <2>1, BaseNames
    <3>3. w = SubSeq(r, 1, Len(w)) /\ Len(w) <= Len(r)
      BY DEF Below
    <3> HIDE DEF r, w, t
    <3>4. Len(w) >= 1
      BY <1>1, <1>4, <2>1 DEF Suffix
    <3>5. SubSeq(r, 1, Len(w))[1] = r[1]
      BY <1>1, <3>3, <3>4
    <3>6. "~" \in Name
      BY <1>1, <3>1, <3>2, <3>3, <3>4, <3>5
    <3>7. QED BY <3>6, SandboxAssumption DEF Special
  <2>3. \E k : Suffix(a, r, k)
    BY <2>2, AcceptedText
  <2> HIDE DEF a, t, r, w
  <2>4. Contains(a, t)
    BY <1>1, <2>1, <2>3, BelowContains DEF r, w
  <2>5. QED BY <2>4 DEF Accepts, a, t
<1>5. QED BY <1>2, <1>3, <1>4

-----------------------------------------------------------------------------
(* The invariants.                                                         *)

\* The state is well formed whatever the options, the names the program uses
\* and what the kernel answers: what chdir leaves is a directory.
THEOREM TypeCorrect == Spec => []TypeOK
<1>1. Init => TypeOK
  <2> SUFFICES ASSUME Init PROVE TypeOK
    OBVIOUS
  <2>1. Here \in Path
    BY DEF Here, Path, Special
  <2>2. Pwd \in Seq(Name \cup {"~"}) /\ MaxOptions \in Nat /\ MaxCalls \in Nat
    BY Directories, SandboxAssumption DEF Place
  <2>3. <<>> \in Seq(Path)
    OBVIOUS
  <2> HIDE DEF Init
  <2>4. /\ pc = "options" /\ nopt = 0 /\ wanted = Here /\ base = Here
        /\ heap = "fresh" /\ ncall = 0 /\ op = "none" /\ todo = <<>> /\ refused \in BOOLEAN
        /\ judged = {} /\ granted = {} /\ denied = {} /\ cwd = Pwd /\ outcome = "none"
    BY DEF Init
  <2>5. QED BY <2>1, <2>2, <2>3, <2>4 DEF TypeOK
<1>2. TypeOK /\ [Next]_vars => TypeOK'
  <2> SUFFICES ASSUME TypeOK, [Next]_vars PROVE TypeOK'
    OBVIOUS
  <2> USE DEF TypeOK, envVars, callVars
  <2>1. ASSUME NEW b \in Bases, Option(b) PROVE TypeOK'
    <3>1. b \in Path
      BY SandboxAssumption
    <3>2. QED BY <2>1, <3>1, SandboxAssumption DEF Option, SetBase
  <2>2. CASE Usage
    BY <2>2 DEF Usage
  <2>3. CASE Launch
    BY <2>3 DEF Launch
  <2>4. ASSUME NEW o \in Op, NEW names \in Seq(Path), Ask(o, names) PROVE TypeOK'
    <3>1. ncall' \in 0..MaxCalls /\ heap' \in {"fresh", "used"}
      BY <2>4, SandboxAssumption DEF Ask
    <3>2. /\ pc' = "check" /\ op' = o /\ todo' = names /\ refused' \in BOOLEAN
          /\ judged' = {} /\ outcome' = "none"
          /\ UNCHANGED <<wanted, base, nopt, granted, denied, cwd>>
      BY <2>4 DEF Ask
    <3>3. QED BY <3>1, <3>2
  <2>5. CASE AskAny
    <3>1. \A p, q \in Paths : <<p>> \in Seq(Path) /\ <<p, q>> \in Seq(Path)
      BY SandboxAssumption
    <3>2. <<>> \in Seq(Path)
      OBVIOUS
    <3>3. OneName \cup {"exec"} \subseteq Op /\ TwoNames \subseteq Op /\ "system" \in Op
      BY DEF Op, OneName, TwoNames, Rejected
    <3>4. QED BY <2>4, <2>5, <3>1, <3>2, <3>3 DEF AskAny
  <2>6. CASE NameMissing
    BY <2>6 DEF NameMissing
  <2>7. CASE Ends
    BY <2>7 DEF Ends
  <2>8. CASE Check
    <3>1. Head(todo) \in Path /\ Tail(todo) \in Seq(Path) /\ Cut(base) \in Path
      BY <2>8, CutType DEF Check
    <3>2. QED BY <2>8, <3>1 DEF Check
  <2>9. CASE CheckEmpty
    BY <2>9 DEF CheckEmpty
  <2>10. CASE Refuse
    BY <2>10 DEF Refuse, Denied
  <2>11. CASE Call
    <3>1. \A p \in judged : Resolve(cwd, p) \in Seq(Name \cup {"~"})
      BY ResolveType DEF Place
    <3>2. QED BY <2>11, <3>1 DEF Call
  <2>12. CASE NotFound
    BY <2>12 DEF NotFound
  <2>13. CASE Over \/ UNCHANGED vars
    BY <2>13 DEF Over, vars
  <2>14. QED
    BY <2>1, <2>2, <2>3, <2>5, <2>6, <2>7, <2>8, <2>9, <2>10, <2>11, <2>12, <2>13
       DEF Next, Launcher, Program, Library
<1>3. QED BY <1>1, <1>2, PTL DEF Spec

\* Until the launcher is done nothing was granted or refused and nothing is judged.
NothingYet ==
    pc = "options" => granted = {} /\ denied = {} /\ judged = {} /\ ~refused

LEMMA NothingYetHolds == Spec => []NothingYet
<1>1. Init => NothingYet
  BY DEF Init, NothingYet
<1>2. NothingYet /\ [Next]_vars => NothingYet'
  BY DEF NothingYet, Next, Launcher, Program, Library, Over, Option, Usage, Launch, AskAny, Ask,
         NameMissing, Ends, Check, CheckEmpty, Refuse, Call, NotFound, vars, envVars, callVars
<1>3. QED BY <1>1, <1>2, PTL DEF Spec

\* After the launcher BASE_PATH changes only where a check cuts it.
LEMMA BaseSteps ==
    ASSUME TypeOK, [Next]_vars, pc # "options"
    PROVE  pc' # "options" /\ wanted' = wanted /\ base' \in {base, Cut(base)}
BY DEF Next, Launcher, Program, Library, Over, Option, Usage, Launch, AskAny, Ask, NameMissing,
       Ends, Check, CheckEmpty, Refuse, Call, NotFound, vars, envVars, callVars

\* A name is granted only by a check that found it below BASE_PATH.
LEMMA GrantSteps ==
    ASSUME TypeOK, [Next]_vars
    PROVE  \/ granted' = granted
           \/ \E p \in Path : Accepts(base, p) /\ granted' = granted \cup {p}
<1>1. CASE Check
  <2>1. Head(todo) \in Path
    BY <1>1 DEF Check, TypeOK
  <2>2. CASE heap = "fresh"
    <3>1. Verdicts(Head(todo)) = {Accepts(base, Head(todo))}
      BY <2>2 DEF Verdicts
    <3>2. QED BY <1>1, <2>1, <3>1 DEF Check
  <2>3. CASE heap # "fresh"
    BY <1>1, <2>3 DEF Check
  <2>4. QED BY <2>2, <2>3
<1>2. CASE ~Check
  BY <1>2 DEF Next, Launcher, Program, Library, Over, Option, Usage, Launch, AskAny, Ask,
         NameMissing, Ends, CheckEmpty, Refuse, Call, NotFound, vars, envVars, callVars
<1>3. QED BY <1>1, <1>2

\* What is left of BASE_PATH accepts every name that was granted.
GrantsStand == pc # "options" => \A p \in granted : Accepts(base, p)

LEMMA GrantsHold == Spec => []GrantsStand
<1>1. Init => GrantsStand
  BY DEF Init, GrantsStand
<1>2. TypeOK /\ TypeOK' /\ NothingYet /\ GrantsStand /\ [Next]_vars => GrantsStand'
  <2> SUFFICES ASSUME TypeOK, TypeOK', NothingYet, GrantsStand, [Next]_vars, pc' # "options",
                      NEW p \in granted'
               PROVE  Accepts(base, p)'
    BY DEF GrantsStand
  <2>1. CASE pc = "options"
    <3>1. granted' = {}
      BY <2>1 DEF NothingYet, Next, Launcher, Program, Library, Over, Option, Usage, Launch,
             AskAny, Ask, NameMissing, Ends, Check, CheckEmpty, Refuse, Call, NotFound, vars,
             envVars, callVars
    <3>2. QED BY <3>1
  <2>2. CASE pc # "options"
    <3>1. p \in Path /\ base \in Path
      BY DEF TypeOK
    <3>2. Accepts(base, p)
      BY <2>2, GrantSteps DEF GrantsStand
    <3>3. Accepts(Cut(base), p)
      BY <3>1, <3>2, AcceptsCut
    <3>4. base' \in {base, Cut(base)}
      BY <2>2, BaseSteps
    <3>5. CASE base' = base
      BY <3>2, <3>5 DEF Accepts
    <3>6. CASE base' = Cut(base)
      BY <3>3, <3>6 DEF Accepts
    <3>7. QED BY <3>4, <3>5, <3>6
  <2>3. QED BY <2>1, <2>2
<1>3. QED BY <1>1, <1>2, TypeCorrect, NothingYetHolds, PTL DEF Spec

\* No check on a fresh heap refuses a name that an earlier one granted, however
\* often BASE_PATH was cut in between.
THEOREM NothingWithdrawn == Spec => []NeverWithdrawn
<1>1. Init => NeverWithdrawn
  BY DEF Init, NeverWithdrawn
<1>2. TypeOK /\ NothingYet /\ GrantsStand /\ NeverWithdrawn /\ [Next]_vars => NeverWithdrawn'
  <2> SUFFICES ASSUME TypeOK, NothingYet, GrantsStand, NeverWithdrawn, [Next]_vars
               PROVE  NeverWithdrawn'
    OBVIOUS
  <2>1. CASE Check
    <3> SUFFICES ASSUME heap = "fresh", Head(todo) \in granted, Check PROVE ~refused'
      <4>1. heap' = heap /\ judged' = {Head(todo)}
        BY <2>1 DEF Check
      <4>2. ASSUME refused', heap = "fresh"
            PROVE  granted' = granted /\ Head(todo) \notin granted
        <5>1. granted' = granted
          BY <2>1, <4>2 DEF Check
        <5>2. QED BY <2>1, <4>2, <5>1
      <4>3. QED BY <4>1, <4>2 DEF NeverWithdrawn
    <3>1. pc # "options"
      BY DEF Check
    <3>2. Accepts(base, Head(todo))
      BY <3>1 DEF GrantsStand
    <3>3. Verdicts(Head(todo)) = {Accepts(base, Head(todo))}
      BY DEF Verdicts
    <3>4. QED BY <3>2, <3>3 DEF Check
  <2>2. CASE ~Check
    BY <2>2 DEF NeverWithdrawn, Next, Launcher, Program, Library, Over, Option, Usage, Launch,
           AskAny, Ask, NameMissing, Ends, CheckEmpty, Refuse, Call, NotFound, vars, envVars,
           callVars
  <2>3. QED BY <2>1, <2>2
<1>3. QED BY <1>1, <1>2, TypeCorrect, NothingYetHolds, GrantsHold, PTL DEF Spec

\* BASE_PATH is what -d named or its first component, and a name was refused
\* only if one of the two does not accept it.
CheckedAgainst ==
    /\ base \in {wanted, Cut(wanted)}
    /\ \A p \in judged :
          /\ p # Empty
          /\ refused /\ heap = "fresh" => ~Accepts(wanted, p) \/ ~Accepts(Cut(wanted), p)

LEMMA CutOnce == \A b \in Path : Cut(Cut(b)) = Cut(b)
<1> SUFFICES ASSUME NEW b \in Path PROVE Cut(Cut(b)) = Cut(b)
  OBVIOUS
<1>1. ~(Len(Cut(b).parts) > 1)
  <2>1. Len(<<b.parts[1]>>) = 1 /\ Len(b.parts) \in Nat
    BY DEF Path
  <2>2. CASE Len(b.parts) > 1
    <3>1. Cut(b).parts = <<b.parts[1]>>
      BY <2>2, CutParts
    <3>2. QED BY <2>1, <3>1
  <2>3. CASE ~(Len(b.parts) > 1)
    <3>1. Cut(b).parts = b.parts
      BY <2>3, CutParts
    <3>2. QED BY <2>3, <3>1
  <2>4. QED BY <2>2, <2>3
<1>2. \A c \in Path : ~(Len(c.parts) > 1) => Cut(c) = c
  BY DEF Cut, Path
<1>3. QED BY <1>1, <1>2, CutType

LEMMA CheckedHolds == Spec => []CheckedAgainst
<1>1. Init => CheckedAgainst
  BY DEF Init, CheckedAgainst
<1>2. TypeOK /\ NothingYet /\ CheckedAgainst /\ [Next]_vars => CheckedAgainst'
  <2> SUFFICES ASSUME TypeOK, NothingYet, CheckedAgainst, [Next]_vars PROVE CheckedAgainst'
    OBVIOUS
  <2> USE DEF CheckedAgainst, envVars, callVars
  <2>1. ASSUME NEW b \in Bases, Option(b) PROVE CheckedAgainst'
    BY <2>1 DEF Option, SetBase, NothingYet
  <2>2. CASE Usage \/ Launch \/ NameMissing \/ Ends \/ CheckEmpty \/ NotFound \/ Over \/ UNCHANGED vars
    BY <2>2 DEF Usage, Launch, NameMissing, Ends, CheckEmpty, NotFound, Over, vars
  <2>3. CASE AskAny
    BY <2>3 DEF AskAny, Ask
  <2>4. CASE Check
    <3>1. base' \in {wanted', Cut(wanted')}
      BY <2>4, CutOnce DEF Check, TypeOK
    <3>2. judged' = {Head(todo)} /\ Head(todo) # Empty /\ heap' = heap /\ wanted' = wanted
      BY <2>4 DEF Check
    <3>3. ASSUME refused', heap = "fresh" PROVE ~Accepts(base, Head(todo))
      <4>1. Verdicts(Head(todo)) = {Accepts(base, Head(todo))}
        BY <3>3 DEF Verdicts
      <4>2. QED BY <2>4, <3>3, <4>1 DEF Check
    <3>4. QED BY <3>1, <3>2, <3>3
  <2>5. CASE Refuse \/ Call
    BY <2>5 DEF Refuse, Call
  <2>6. QED BY <2>1, <2>2, <2>3, <2>4, <2>5 DEF Next, Launcher, Program, Library
<1>3. QED BY <1>1, <1>2, TypeCorrect, NothingYetHolds, PTL DEF Spec

\* With a base of one component, which strtok leaves as it is, no name that was
\* refused is accepted.
DenialsStand ==
    ~(Len(wanted.parts) > 1) =>
        \A p \in denied : ~Accepts(wanted, p)

LEMMA BaseUncut ==
    ASSUME TypeOK, CheckedAgainst, ~(Len(wanted.parts) > 1)
    PROVE  base = wanted
<1>1. wanted \in Path
  BY DEF TypeOK
<1>2. Cut(wanted) = wanted
  BY <1>1 DEF Cut, Path
<1>3. QED BY <1>2 DEF CheckedAgainst

LEMMA DenialsHold == Spec => []DenialsStand
<1>1. Init => DenialsStand
  BY DEF Init, DenialsStand
<1>2. TypeOK /\ NothingYet /\ CheckedAgainst /\ DenialsStand /\ [Next]_vars => DenialsStand'
  <2> SUFFICES ASSUME TypeOK, NothingYet, CheckedAgainst, DenialsStand, [Next]_vars,
                      ~(Len(wanted'.parts) > 1)
               PROVE  \A p \in denied' : ~Accepts(wanted', p)
    BY DEF DenialsStand
  <2>1. CASE pc = "options"
    <3>1. denied' = {}
      BY <2>1 DEF NothingYet, Next, Launcher, Program, Library, Over, Option, Usage, Launch,
             AskAny, Ask, NameMissing, Ends, Check, CheckEmpty, Refuse, Call, NotFound, vars,
             envVars, callVars
    <3>2. QED BY <3>1
  <2>2. CASE pc # "options"
    <3>1. pc' # "options" /\ wanted' = wanted
      BY <2>2, BaseSteps
    <3>2. base = wanted /\ \A p \in denied : ~Accepts(wanted, p)
      BY <3>1, BaseUncut DEF DenialsStand
    <3>3. \A p \in denied' : p \in denied \/ ~Accepts(base, p)
      <4>1. CASE Check
        <5>1. CASE heap = "fresh"
          <6>1. Verdicts(Head(todo)) = {Accepts(base, Head(todo))}
            BY <5>1 DEF Verdicts
          <6>2. QED BY <4>1, <6>1 DEF Check
        <5>2. CASE heap # "fresh"
          BY <4>1, <5>2 DEF Check
        <5>3. QED BY <5>1, <5>2
      <4>2. CASE ~Check
        BY <4>2 DEF Next, Launcher, Program, Library, Over, Option, Usage, Launch, AskAny,
               Ask, NameMissing, Ends, CheckEmpty, Refuse, Call, NotFound, vars, envVars,
               callVars
      <4>3. QED BY <4>1, <4>2
    <3>4. \A p \in denied' : ~Accepts(wanted, p)
      BY <3>2, <3>3
    <3>5. QED BY <3>1, <3>4 DEF Accepts
  <2>3. QED BY <2>1, <2>2
<1>3. QED BY <1>1, <1>2, TypeCorrect, NothingYetHolds, CheckedHolds, PTL DEF Spec

\* No check on a fresh heap grants a name that an earlier one refused, unless
\* -d named a base of several components, of which strtok leaves the first.
THEOREM NothingConceded == Spec => []RefusalStands
<1>1. Init => RefusalStands
  BY DEF Init, RefusalStands
<1>2. TypeOK /\ NothingYet /\ CheckedAgainst /\ DenialsStand /\ RefusalStands /\ [Next]_vars
         => RefusalStands'
  <2> SUFFICES ASSUME TypeOK, NothingYet, CheckedAgainst, DenialsStand, RefusalStands,
                      [Next]_vars
               PROVE  RefusalStands'
    OBVIOUS
  <2>1. CASE Check
    <3> SUFFICES ASSUME heap = "fresh", ~(Len(wanted.parts) > 1), ~refused',
                        Head(todo) \in denied
                 PROVE  FALSE
      <4>1. heap' = heap /\ judged' = {Head(todo)} /\ wanted' = wanted
        BY <2>1 DEF Check
      <4>2. ASSUME ~refused', heap = "fresh" PROVE denied' = denied
        BY <2>1, <4>2 DEF Check
      <4>3. QED BY <4>1, <4>2 DEF RefusalStands
    <3>1. base = wanted /\ ~Accepts(wanted, Head(todo))
      BY BaseUncut DEF DenialsStand
    <3>2. Verdicts(Head(todo)) = {Accepts(base, Head(todo))}
      BY DEF Verdicts
    <3>3. QED BY <2>1, <3>1, <3>2 DEF Check
  <2>2. CASE ~Check
    <3>1. CASE pc = "options"
      BY <2>2, <3>1 DEF RefusalStands, NothingYet, Next, Launcher, Program, Library, Over,
             Option, Usage, Launch, AskAny, Ask, NameMissing, Ends, CheckEmpty, Refuse, Call,
             NotFound, vars, envVars, callVars
    <3>2. CASE pc # "options"
      BY <2>2, <3>2 DEF RefusalStands, Next, Launcher, Program, Library, Over, Option, Usage,
             Launch, AskAny, Ask, NameMissing, Ends, CheckEmpty, Refuse, Call, NotFound, vars,
             envVars, callVars
    <3>3. QED BY <3>1, <3>2
  <2>3. QED BY <2>1, <2>2
<1>3. QED BY <1>1, <1>2, TypeCorrect, NothingYetHolds, CheckedHolds, DenialsHold, PTL DEF Spec

\* Sandboxed programs work as usual below the base: while the program has not
\* moved, no plain name at or below what -d named is refused, by whichever
\* check of the call, for names and directories of any length, but for the two
\* directories that GrantedWorks leaves out.
THEOREM PlainNamesGranted == Spec => []GrantedWorks
<1>1. TypeOK /\ CheckedAgainst => GrantedWorks
  <2> SUFFICES ASSUME TypeOK, CheckedAgainst, cwd = Pwd, Pwd # <<>>, NEW p \in judged, refused,
                      heap = "fresh", Plain(p), PlainBase(wanted),
                      Below(Resolve(Pwd, p), Resolve(Pwd, wanted)),
                      ~(p.parts = <<"..">> /\ Len(Pwd) = 1)
               PROVE  FALSE
    BY DEF GrantedWorks, Wronged
  <2>1. p \in Path /\ wanted \in Path /\ p # Empty
    BY DEF TypeOK, CheckedAgainst
  <2>2. Accepts(wanted, p)
    BY <2>1, PlainAccepted
  <2>3. Accepts(Cut(wanted), p)
    BY <2>1, <2>2, AcceptsCut
  <2>4. QED BY <2>2, <2>3 DEF CheckedAgainst
<1>2. QED BY <1>1, TypeCorrect, CheckedHolds, PTL
=============================================================================

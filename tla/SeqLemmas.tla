------------------------------ MODULE SeqLemmas ------------------------------
(***************************************************************************)
(* What the operators on sequences that the models use return: Picked and  *)
(* FlattenSeq, which are recursive functions.  The value of a recursive    *)
(* function is the one solution of its equation; that there is a solution  *)
(* and that there is no other is shown here once (RecursionHasSolution,    *)
(* SolutionsAgree).  IsSeq and what follows it are about sequences of      *)
(* anything at all.                                                        *)
(***************************************************************************)
EXTENDS Picking, SequencesExt, SequenceTheorems, WellFoundedInduction, TLAPS

-----------------------------------------------------------------------------
(* Induction over a set of natural numbers.                                *)
LEMMA NatInduct ==
  ASSUME NEW S, 0 \in S, \A n \in Nat : n \in S => n + 1 \in S
  PROVE  Nat \subseteq S
<1> DEFINE T == Nat \ S
           R == {ss \in Nat \X Nat : ss[1] < ss[2]}
<1> SUFFICES ASSUME T # {}  PROVE FALSE
  OBVIOUS
<1>1. IsWellFoundedOn(R, Nat)
  BY NatLessThanWellFounded, Zenon DEF OpToRel
<1>2. PICK n \in T : \A m \in T : ~ (<<m, n>> \in R)
  <2> HIDE DEF R
  <2> QED
    BY <1>1, WFMin
<1>3. n # 0 /\ n - 1 \in Nat
  OBVIOUS
<1>4. n - 1 \in T
  BY <1>3, n = (n - 1) + 1
<1>5. <<n - 1, n>> \in R
  BY <1>3
<1> QED
  BY <1>2, <1>4, <1>5

-----------------------------------------------------------------------------
(* A function on 0..N that starts with v0 and goes on with g.              *)
Solves(f, N, v0, g) == f[0] = v0 /\ \A i \in 1..N : f[i] = g[i][f[i - 1]]

LEMMA RecursionHasSolution ==
  ASSUME NEW N \in Nat, NEW V, NEW v0 \in V, NEW g, \A i \in 1..N : g[i] \in [V -> V]
  PROVE  \E f \in [0..N -> V] : Solves(f, N, v0, g)
<1> DEFINE Upto == {n \in Nat : n <= N => \E f \in [0..n -> V] : Solves(f, n, v0, g)}
<1>1. 0 \in Upto
  <2> DEFINE f == [i \in 0..0 |-> v0]
  <2>1. f \in [0..0 -> V] /\ Solves(f, 0, v0, g)
    BY DEF Solves
  <2> HIDE DEF f
  <2> QED
    BY <2>1
<1>2. ASSUME NEW n \in Nat, n \in Upto  PROVE n + 1 \in Upto
  <2> SUFFICES ASSUME n + 1 <= N
               PROVE  \E f \in [0..(n + 1) -> V] : Solves(f, n + 1, v0, g)
    OBVIOUS
  <2>1. PICK h \in [0..n -> V] : Solves(h, n, v0, g)
    BY <1>2
  <2> DEFINE f == [i \in 0..(n + 1) |-> IF i = n + 1 THEN g[n + 1][h[n]] ELSE h[i]]
  <2>2. n + 1 \in 1..N /\ n \in 0..n /\ g[n + 1][h[n]] \in V
    <3>1. n + 1 \in 1..N /\ n \in 0..n
      OBVIOUS
    <3> QED
      BY <3>1, <2>1
  <2>3. f \in [0..(n + 1) -> V]
    BY <2>1, <2>2
  <2>4. Solves(f, n + 1, v0, g)
    <3>1. f[0] = v0
      BY <2>1 DEF Solves
    <3>2. ASSUME NEW i \in 1..(n + 1)  PROVE f[i] = g[i][f[i - 1]]
      <4>1. CASE i = n + 1
        BY <4>1
      <4>2. CASE i # n + 1
        <5>1. i \in 1..n /\ i \in 0..(n + 1) /\ i - 1 \in 0..(n + 1) /\ i - 1 # n + 1
          BY <4>2
        <5>2. f[i] = h[i] /\ f[i - 1] = h[i - 1]
          BY <5>1, <4>2
        <5> QED
          BY <5>1, <5>2, <2>1 DEF Solves
      <4> QED
        BY <4>1, <4>2
    <3> QED
      BY <3>1, <3>2 DEF Solves
  <2> HIDE DEF f
  <2> QED
    BY <2>3, <2>4
<1> HIDE DEF Upto
<1>3. Nat \subseteq Upto
  BY <1>1, <1>2, NatInduct
<1> QED
  BY <1>3 DEF Upto

LEMMA SolutionsAgree ==
  ASSUME NEW N \in Nat, NEW v0, NEW g,
         NEW e, Solves(e, N, v0, g), NEW f, Solves(f, N, v0, g)
  PROVE  \A i \in 0..N : e[i] = f[i]
<1> DEFINE Equal == {i \in Nat : i <= N => e[i] = f[i]}
<1>1. 0 \in Equal
  BY DEF Solves
<1>2. ASSUME NEW i \in Nat, i \in Equal  PROVE i + 1 \in Equal
  <2> SUFFICES ASSUME i + 1 <= N  PROVE e[i + 1] = f[i + 1]
    OBVIOUS
  <2>1. i + 1 \in 1..N /\ (i + 1) - 1 = i /\ e[i] = f[i]
    BY <1>2
  <2> QED
    BY <2>1 DEF Solves
<1> HIDE DEF Equal
<1>3. Nat \subseteq Equal
  BY <1>1, <1>2, NatInduct
<1> QED
  BY <1>3 DEF Equal

-----------------------------------------------------------------------------
(* Picked.                                                                 *)
PickStep(s, S, T) ==
  [i \in 1..Len(s) |-> [v \in Seq(T) |-> IF s[i] \in S THEN Append(v, s[i]) ELSE v]]

LEMMA PickedSolves ==
  ASSUME NEW T, NEW s \in Seq(T), NEW S
  PROVE  \E f \in [0..Len(s) -> Seq(T \cap S)] :
           Solves(f, Len(s), <<>>, PickStep(s, S, T \cap S)) /\ Picked(s, S) = f[Len(s)]
<1> DEFINE N == Len(s)
           V == Seq(T \cap S)
           g == PickStep(s, S, T \cap S)
           F == CHOOSE f : f = [i \in 0..N |-> IF i = 0 THEN <<>>
                                               ELSE IF s[i] \in S THEN Append(f[i - 1], s[i])
                                                                  ELSE f[i - 1]]
<1>1. N \in Nat /\ <<>> \in V
  OBVIOUS
<1>2. \A i \in 1..N : g[i] \in [V -> V]
  <2> SUFFICES ASSUME NEW i \in 1..N  PROVE g[i] \in [V -> V]
    OBVIOUS
  <2>1. s[i] \in T
    OBVIOUS
  <2>2. \A v \in V : s[i] \in S => Append(v, s[i]) \in V
    BY <2>1
  <2> QED
    BY <2>2 DEF PickStep
<1> HIDE DEF V, g
<1>3. PICK f \in [0..N -> V] : Solves(f, N, <<>>, g)
  BY <1>1, <1>2, RecursionHasSolution
<1>4. f = [i \in 0..N |-> IF i = 0 THEN <<>>
                          ELSE IF s[i] \in S THEN Append(f[i - 1], s[i]) ELSE f[i - 1]]
  <2> DEFINE h == [i \in 0..N |-> IF i = 0 THEN <<>>
                                  ELSE IF s[i] \in S THEN Append(f[i - 1], s[i]) ELSE f[i - 1]]
  <2>1. ASSUME NEW i \in 0..N  PROVE f[i] = h[i]
    <3>1. CASE i = 0
      BY <1>3, <3>1 DEF Solves
    <3>2. CASE i # 0
      <4>1. i \in 1..N /\ i - 1 \in 0..N
        BY <3>2
      <4>2. f[i] = g[i][f[i - 1]] /\ f[i - 1] \in V
        BY <4>1, <1>3 DEF Solves
      <4> QED
        BY <3>2, <4>1, <4>2 DEF g, V, PickStep
    <3> QED
      BY <3>1, <3>2
  <2> QED
    BY <2>1, <1>3
<1>5. F = [i \in 0..N |-> IF i = 0 THEN <<>>
                          ELSE IF s[i] \in S THEN Append(F[i - 1], s[i]) ELSE F[i - 1]]
  BY <1>4
<1>6. Picked(s, S) = F[N]
  BY DEF Picked
<1> HIDE DEF F
<1>7. F \in [0..N -> V] /\ Solves(F, N, <<>>, g)
  <2> DEFINE In == {i \in Nat : i <= N => F[i] \in V}
  <2>1. 0 \in In
    BY <1>1, <1>5
  <2>2. ASSUME NEW i \in Nat, i \in In  PROVE i + 1 \in In
    <3> SUFFICES ASSUME i + 1 <= N  PROVE F[i + 1] \in V
      OBVIOUS
    <3>1. i + 1 \in 0..N /\ (i + 1) - 1 = i /\ i + 1 # 0 /\ i + 1 \in 1..Len(s) /\ F[i] \in V
      BY <2>2
    <3>2. F[i + 1] = IF s[i + 1] \in S THEN Append(F[i], s[i + 1]) ELSE F[i]
      BY <3>1, <1>5
    <3>3. s[i + 1] \in T
      BY <3>1
    <3> QED
      BY <3>1, <3>2, <3>3 DEF V
  <2> HIDE DEF In
  <2>3. Nat \subseteq In
    BY <2>1, <2>2, NatInduct
  <2>4. \A i \in 0..N : F[i] \in V
    BY <2>3 DEF In
  <2>5. F[0] = <<>>
    BY <1>1, <1>5
  <2>6. ASSUME NEW i \in 1..N  PROVE F[i] = g[i][F[i - 1]]
    <3>1. i \in 0..N /\ i - 1 \in 0..N /\ i # 0
      OBVIOUS
    <3>2. F[i] = IF s[i] \in S THEN Append(F[i - 1], s[i]) ELSE F[i - 1]
      BY <3>1, <1>5
    <3> QED
      BY <2>4, <3>1, <3>2 DEF g, V, PickStep
  <2> QED
    BY <1>5, <2>4, <2>5, <2>6 DEF Solves
<1> QED
  BY <1>6, <1>7 DEF g, V

LEMMA PickedEmpty == \A S : Picked(<<>>, S) = <<>>
<1> SUFFICES ASSUME NEW S  PROVE Picked(<<>>, S) = <<>>
  OBVIOUS
<1>1. <<>> \in Seq({}) /\ Len(<<>>) = 0
  OBVIOUS
<1>2. \E f : Solves(f, Len(<<>>), <<>>, PickStep(<<>>, S, {} \cap S))
             /\ Picked(<<>>, S) = f[Len(<<>>)]
  BY <1>1, PickedSolves, Zenon
<1> QED
  BY <1>1, <1>2 DEF Solves

(* Everything picked is an element of the sequence and of the set.         *)
LEMMA PickedElements ==
  ASSUME NEW T, NEW s \in Seq(T), NEW S
  PROVE  Picked(s, S) \in Seq(T \cap S)
<1>1. Len(s) \in 0..Len(s)
  OBVIOUS
<1>2. \E f \in [0..Len(s) -> Seq(T \cap S)] : Picked(s, S) = f[Len(s)]
  BY PickedSolves, Zenon
<1> QED
  BY <1>1, <1>2

LEMMA PickedAppend ==
  ASSUME NEW T, NEW s \in Seq(T), NEW e \in T, NEW S
  PROVE  Picked(Append(s, e), S) = IF e \in S THEN Append(Picked(s, S), e) ELSE Picked(s, S)
<1> DEFINE N == Len(s)
           gs == PickStep(s, S, T \cap S)
<1>1. PICK t : t = Append(s, e)
  OBVIOUS
<1> DEFINE gt == PickStep(t, S, T \cap S)
<1>2. /\ t \in Seq(T) /\ N \in Nat /\ Len(t) = N + 1 /\ t[N + 1] = e
      /\ \A i \in 1..N : t[i] = s[i]
  BY <1>1
<1>3. PICK f \in [0..N -> Seq(T \cap S)] : Solves(f, N, <<>>, gs) /\ Picked(s, S) = f[N]
  BY PickedSolves, Zenon
<1>4. PICK h : /\ h \in [0..Len(t) -> Seq(T \cap S)]
               /\ Solves(h, Len(t), <<>>, gt) /\ Picked(t, S) = h[Len(t)]
  BY <1>2, PickedSolves, Zenon
<1>5. \A i \in 1..N : gs[i] = gt[i]
  <2> SUFFICES ASSUME NEW i \in 1..N  PROVE gs[i] = gt[i]
    OBVIOUS
  <2>1. i \in 1..Len(s) /\ i \in 1..Len(t) /\ s[i] = t[i]
    BY <1>2
  <2> QED
    BY <2>1 DEF PickStep
<1>6. Solves(h, N, <<>>, gt)
  <2> HIDE DEF gt
  <2> QED
    BY <1>2, <1>4 DEF Solves
<1>7. h[N] = f[N]
  <2>1. N \in 0..N /\ N \in Nat
    BY <1>2
  <2> HIDE DEF gs, gt, N
  <2>3. Solves(f, N, <<>>, gt)
    BY <1>3, <1>5 DEF Solves
  <2>2. \A i \in 0..N : f[i] = h[i]
    BY <2>1, <2>3, <1>6, SolutionsAgree
  <2> QED
    BY <2>1, <2>2
<1>8. h[N + 1] = gt[N + 1][h[N]]
  <2> HIDE DEF gt
  <2> QED
    BY <1>2, <1>4 DEF Solves
<1>9. gt[N + 1][h[N]] = IF e \in S THEN Append(h[N], e) ELSE h[N]
  <2>1. N + 1 \in 1..Len(t) /\ h[N] \in Seq(T \cap S)
    BY <1>2, <1>4
  <2> QED
    BY <1>2, <2>1 DEF PickStep
<1> QED
  BY <1>1, <1>2, <1>3, <1>4, <1>7, <1>8, <1>9

-----------------------------------------------------------------------------
(* FlattenSeq.                                                             *)
FlattenStep(s, T) == [i \in 1..Len(s) |-> [v \in Seq(T) |-> v \o s[i]]]

LEMMA FlattenSolves ==
  ASSUME NEW T, NEW s \in Seq(Seq(T))
  PROVE  \E f : /\ f \in [0..Len(s) -> Seq(T)]
                /\ Solves(f, Len(s), <<>>, FlattenStep(s, T)) /\ FlattenSeq(s) = f[Len(s)]
<1> DEFINE N == Len(s)
           V == Seq(T)
           g == FlattenStep(s, T)
           F == CHOOSE f : f = [i \in 1..N |-> IF i = 1 THEN s[i] ELSE f[i - 1] \o s[i]]
<1>1. N \in Nat /\ <<>> \in V /\ \A i \in 1..N : s[i] \in V
  OBVIOUS
<1>2. \A i \in 1..N : g[i] \in [V -> V]
  BY <1>1 DEF FlattenStep
<1> HIDE DEF V, g
<1>3. PICK f \in [0..N -> V] : Solves(f, N, <<>>, g)
  BY <1>1, <1>2, RecursionHasSolution
<1>4. \A i \in 1..N : f[i] = f[i - 1] \o s[i] /\ f[i - 1] \in V
  <2> SUFFICES ASSUME NEW i \in 1..N  PROVE f[i] = f[i - 1] \o s[i] /\ f[i - 1] \in V
    OBVIOUS
  <2>1. f[i] = g[i][f[i - 1]] /\ i - 1 \in 0..N
    BY <1>3 DEF Solves
  <2>2. f[i - 1] \in V
    BY <2>1
  <2> QED
    BY <2>1, <2>2 DEF g, V, FlattenStep
<1>5. f[0] = <<>> /\ (N # 0 => f[1] = s[1])
  <2>1. f[0] = <<>>
    BY <1>3 DEF Solves
  <2>2. N # 0 => 1 \in 1..N /\ 1 - 1 = 0
    BY <1>1
  <2>3. ASSUME N # 0  PROVE f[1] = s[1]
    <3>1. f[1] = f[0] \o s[1] /\ s[1] \in V
      BY <1>1, <1>4, <2>2, <2>3
    <3> QED
      BY <2>1, <3>1 DEF V
  <2> QED
    BY <2>1, <2>3
<1>6. CASE N = 0
  <2>1. FlattenSeq(s) = s /\ s = <<>>
    BY <1>6 DEF FlattenSeq
  <2> QED
    BY <1>3, <1>5, <1>6, <2>1 DEF V, g
<1>7. CASE N # 0
  <2> DEFINE h == [i \in 1..N |-> f[i]]
  <2>1. h = [i \in 1..N |-> IF i = 1 THEN s[i] ELSE h[i - 1] \o s[i]]
    <3>1. ASSUME NEW i \in 1..N
          PROVE  h[i] = IF i = 1 THEN s[i] ELSE h[i - 1] \o s[i]
      <4>1. CASE i = 1
        BY <1>5, <1>7, <4>1
      <4>2. CASE i # 1
        <5>1. i - 1 \in 1..N
          BY <4>2
        <5> QED
          BY <1>4, <4>2, <5>1
      <4> QED
        BY <4>1, <4>2
    <3> QED
      BY <3>1
  <2>2. F = [i \in 1..N |-> IF i = 1 THEN s[i] ELSE F[i - 1] \o s[i]]
    <3> HIDE DEF h
    <3> QED
      BY <2>1
  <2>3. FlattenSeq(s) = F[N]
    BY <1>7 DEF FlattenSeq
  <2> HIDE DEF F, h
  <2>4. \A i \in 1..N : F[i] = f[i]
    <3> DEFINE Equal == {i \in Nat : i + 1 <= N => F[i + 1] = f[i + 1]}
    <3>1. 0 \in Equal
      BY <1>5, <1>7, <2>2
    <3>2. ASSUME NEW i \in Nat, i \in Equal  PROVE i + 1 \in Equal
      <4> SUFFICES ASSUME i + 1 + 1 <= N  PROVE F[i + 1 + 1] = f[i + 1 + 1]
        OBVIOUS
      <4>1. /\ i + 1 + 1 \in 1..N /\ i + 1 \in 1..N
            /\ (i + 1 + 1) - 1 = i + 1 /\ i + 1 + 1 # 1
            /\ F[i + 1] = f[i + 1]
        BY <1>1, <3>2
      <4>2. F[i + 1 + 1] = F[i + 1] \o s[i + 1 + 1]
        BY <2>2, <4>1
      <4> QED
        BY <1>4, <4>1, <4>2
    <3> HIDE DEF Equal
    <3>3. Nat \subseteq Equal
      BY <3>1, <3>2, NatInduct
    <3>4. ASSUME NEW i \in 1..N  PROVE F[i] = f[i]
      <4>1. i - 1 \in Equal /\ (i - 1) + 1 = i /\ i <= N
        BY <3>3
      <4> QED
        BY <4>1 DEF Equal
    <3> QED
      BY <3>4
  <2>5. N \in 1..N /\ N \in 0..N
    BY <1>1, <1>7
  <2>6. FlattenSeq(s) = f[N]
    BY <2>3, <2>4, <2>5
  <2> QED
    BY <1>3, <2>5, <2>6 DEF V, g
<1> QED
  BY <1>6, <1>7

LEMMA FlattenEmpty == FlattenSeq(<<>>) = <<>>
BY DEF FlattenSeq

LEMMA FlattenElements ==
  ASSUME NEW T, NEW s \in Seq(Seq(T))
  PROVE  FlattenSeq(s) \in Seq(T)
<1>1. Len(s) \in 0..Len(s)
  OBVIOUS
<1> QED
  BY <1>1, FlattenSolves

LEMMA FlattenAppend ==
  ASSUME NEW T, NEW s \in Seq(Seq(T)), NEW e \in Seq(T)
  PROVE  FlattenSeq(Append(s, e)) = FlattenSeq(s) \o e
<1> DEFINE N == Len(s)
           gs == FlattenStep(s, T)
<1>1. PICK t : t = Append(s, e)
  OBVIOUS
<1> DEFINE gt == FlattenStep(t, T)
<1>2. /\ t \in Seq(Seq(T)) /\ N \in Nat /\ Len(t) = N + 1 /\ t[N + 1] = e
      /\ \A i \in 1..N : t[i] = s[i]
  BY <1>1
<1>3. PICK f : f \in [0..N -> Seq(T)] /\ Solves(f, N, <<>>, gs) /\ FlattenSeq(s) = f[N]
  BY FlattenSolves, Zenon
<1>4. PICK h : /\ h \in [0..Len(t) -> Seq(T)]
               /\ Solves(h, Len(t), <<>>, gt) /\ FlattenSeq(t) = h[Len(t)]
  BY <1>2, FlattenSolves, Zenon
<1>5. \A i \in 1..N : gs[i] = gt[i]
  <2> SUFFICES ASSUME NEW i \in 1..N  PROVE gs[i] = gt[i]
    OBVIOUS
  <2>1. i \in 1..Len(s) /\ i \in 1..Len(t) /\ s[i] = t[i]
    BY <1>2
  <2> QED
    BY <2>1 DEF FlattenStep
<1>6. Solves(h, N, <<>>, gt)
  <2> HIDE DEF gt
  <2> QED
    BY <1>2, <1>4 DEF Solves
<1>7. h[N] = f[N]
  <2>1. N \in 0..N /\ N \in Nat
    BY <1>2
  <2> HIDE DEF gs, gt, N
  <2>2. Solves(f, N, <<>>, gt)
    BY <1>3, <1>5 DEF Solves
  <2>3. \A i \in 0..N : f[i] = h[i]
    BY <2>1, <2>2, <1>6, SolutionsAgree
  <2> QED
    BY <2>1, <2>3
<1>8. h[N + 1] = gt[N + 1][h[N]]
  <2> HIDE DEF gt
  <2> QED
    BY <1>2, <1>4 DEF Solves
<1>9. gt[N + 1][h[N]] = h[N] \o e
  <2>1. N + 1 \in 1..Len(t) /\ h[N] \in Seq(T)
    BY <1>2, <1>4
  <2> QED
    BY <1>2, <2>1 DEF FlattenStep
<1> QED
  BY <1>1, <1>2, <1>3, <1>4, <1>7, <1>8, <1>9

-----------------------------------------------------------------------------
(* A sequence is one over any set that its elements belong to.             *)
LEMMA SeqOfElements ==
  ASSUME NEW S, NEW s \in Seq(S), NEW T, \A i \in 1..Len(s) : s[i] \in T
  PROVE  s \in Seq(T)
<1>1. Len(s) \in Nat /\ s = [i \in 1..Len(s) |-> s[i]]
  OBVIOUS
<1>2. s \in [1..Len(s) -> T]
  BY <1>1
<1> QED
  BY <1>1, <1>2, SeqDef

-----------------------------------------------------------------------------
(* Sequences, whatever their elements are.                                 *)
IsSeq(s) == s \in Seq(ToSet(s))

LEMMA SeqIsSeq == ASSUME NEW S, NEW s \in Seq(S)  PROVE IsSeq(s)
<1>1. DOMAIN s = 1..Len(s)
  OBVIOUS
<1>2. \A i \in 1..Len(s) : s[i] \in ToSet(s)
  BY <1>1 DEF ToSet
<1> QED
  BY <1>2, SeqOfElements DEF IsSeq

LEMMA EmptyIsSeq == IsSeq(<<>>) /\ \A e : IsSeq(<<e>>)
<1>1. <<>> \in Seq({}) /\ \A e : <<e>> \in Seq({e})
  OBVIOUS
<1> QED
  BY <1>1, SeqIsSeq

LEMMA AppendIsSeq ==
  ASSUME NEW s, IsSeq(s), NEW e
  PROVE  /\ IsSeq(Append(s, e)) /\ Len(s) \in Nat /\ Len(Append(s, e)) = Len(s) + 1
         /\ Append(s, e)[Len(s) + 1] = e
         /\ \A i \in 1..Len(s) : Append(s, e)[i] = s[i]
<1> DEFINE T == ToSet(s) \cup {e}
<1>1. s \in Seq(ToSet(s)) /\ ToSet(s) \subseteq T
  BY DEF IsSeq
<1> HIDE DEF T
<1>2. s \in Seq(T) /\ e \in T
  BY <1>1, SeqMonotonic DEF T
<1>3. /\ Append(s, e) \in Seq(T) /\ Len(Append(s, e)) = Len(s) + 1
      /\ Append(s, e)[Len(s) + 1] = e
      /\ \A i \in 1..Len(s) : Append(s, e)[i] = s[i]
  BY <1>2, AppendProperties
<1>4. IsSeq(Append(s, e)) /\ Len(s) \in Nat
  BY <1>2, <1>3, SeqIsSeq, LenProperties
<1> QED
  BY <1>3, <1>4

LEMMA ConcatIsSeq ==
  ASSUME NEW s, IsSeq(s), NEW t, IsSeq(t)
  PROVE  IsSeq(s \o t) /\ Len(s \o t) \in Nat
<1> DEFINE T == ToSet(s) \cup ToSet(t)
<1>1. s \in Seq(ToSet(s)) /\ t \in Seq(ToSet(t)) /\ ToSet(s) \subseteq T /\ ToSet(t) \subseteq T
  BY DEF IsSeq
<1> HIDE DEF T
<1>2. s \in Seq(T) /\ t \in Seq(T)
  BY <1>1, SeqMonotonic
<1>3. s \o t \in Seq(T)
  BY <1>2, ConcatProperties
<1>4. IsSeq(s \o t)
  BY <1>3, SeqIsSeq
<1>5. Len(s \o t) \in Nat
  BY <1>3, LenProperties
<1> QED
  BY <1>4, <1>5

LEMMA FrontOf ==
  ASSUME NEW S, NEW s \in Seq(S), s # <<>>
  PROVE  /\ Front(s) \in Seq(S) /\ Len(s) \in Nat \ {0} /\ Len(Front(s)) = Len(s) - 1
         /\ Last(s) \in S
<1>1. Len(s) \in Nat \ {0} /\ \A i \in 1..Len(s) : s[i] \in S
  OBVIOUS
<1>2. PICK m : m \in Nat /\ m = Len(s) - 1
  BY <1>1
<1>3. /\ SubSeq(s, 1, m) \in Seq(S)
      /\ Len(SubSeq(s, 1, m)) = IF 1 <= m THEN m - 1 + 1 ELSE 0
  BY <1>1, <1>2, SubSeqProperties
<1>4. Front(s) = SubSeq(s, 1, m)
  BY <1>2 DEF Front
<1> QED
  BY <1>1, <1>2, <1>3, <1>4 DEF Last
=============================================================================

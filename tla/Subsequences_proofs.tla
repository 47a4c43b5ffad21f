------------------------ MODULE Subsequences_proofs -------------------------
(***************************************************************************)
(* What the proofs of several components need.  The library's induction     *)
(* theorems take an operator; Least and Greatest need none, and Inductive   *)
(* restates induction for a set of numbers.  With them, what Kept, the list *)
(* comprehension of Subsequences, returns and preserves.                    *)
(***************************************************************************)
EXTENDS Subsequences, TLAPS, SequenceTheorems, WellFoundedInduction

LEMMA Least ==
    ASSUME NEW T \in SUBSET Nat, T # {}
    PROVE  \E x \in T : \A y \in T : x <= y
<1> DEFINE R == {ss \in Nat \X Nat : ss[1] < ss[2]}
<1>1. IsWellFoundedOn(R, Nat)
  BY NatLessThanWellFounded DEF OpToRel
<1>2. PICK x \in T : \A y \in T : ~ (<<y, x>> \in R)
  BY <1>1, WFMin
<1>3. ASSUME NEW y \in T
      PROVE  x <= y
  <2>1. x \in Nat /\ y \in Nat
    OBVIOUS
  <2>2. ~(y < x)
    BY <1>2, <2>1
  <2> QED
    BY <2>1, <2>2
<1> QED
  BY <1>3

LEMMA Greatest ==
    ASSUME NEW T \in SUBSET Nat, T # {}, NEW n \in Nat, \A y \in T : y <= n
    PROVE  \E x \in T : \A y \in T : x >= y
<1> DEFINE U == {u \in Nat : \A y \in T : y <= u}
<1>1. U \in SUBSET Nat /\ U # {}
  OBVIOUS
<1>2. PICK u \in U : \A v \in U : u <= v
  <2> HIDE DEF U
  <2> QED
    BY <1>1, Least
<1>3. u \in T
  <2> SUFFICES ASSUME u \notin T
               PROVE  FALSE
    OBVIOUS
  <2>1. \A y \in T : y <= u - 1
    OBVIOUS
  <2>2. u - 1 \in Nat
    <3>1. PICK y \in T : TRUE
      OBVIOUS
    <3> QED
      BY <2>1, <3>1
  <2>3. u - 1 \in U /\ u \in Nat
    BY <2>1, <2>2
  <2> HIDE DEF U
  <2> QED
    BY <1>2, <2>3
<1> QED
  BY <1>3

LEMMA Inductive ==
    ASSUME NEW n \in Nat, NEW G,
           0 \in G,
           \A i \in 0..n : (i \in G /\ i < n) => i + 1 \in G
    PROVE  0..n \subseteq G
<1> SUFFICES ASSUME ~(0..n \subseteq G)
             PROVE  FALSE
  OBVIOUS
<1> DEFINE T == {i \in 0..n : i \notin G}
<1>1. T \in SUBSET Nat /\ T # {}
  OBVIOUS
<1> HIDE DEF T
<1>2. PICK x \in T : \A y \in T : x <= y
  BY <1>1, Least
<1>3. x \in 0..n /\ x \notin G
  BY <1>2 DEF T
<1>4. x - 1 \in 0..n /\ x - 1 < n /\ x = (x - 1) + 1
  BY <1>3
<1>5. x - 1 \in G
  BY <1>1, <1>2, <1>4 DEF T
<1> QED
  BY <1>3, <1>4, <1>5

-----------------------------------------------------------------------------
(* Kept.  Keepings are computations of Kept(s, S) for its prefixes. *)

Keeps(s, S, f, i) ==
    f[i] = IF s[i] \in S THEN Append(f[i - 1], s[i]) ELSE f[i - 1]

Keepings(D, s, S, n) ==
    {f \in [0..n -> Seq(D)] : f[0] = <<>> /\ \A i \in 1..n : Keeps(s, S, f, i)}

LEMMA KeepingsExist ==
    ASSUME NEW D, NEW s \in Seq(D), NEW S
    PROVE  Keepings(D, s, S, Len(s)) # {}
<1> DEFINE G == {n \in Nat : Keepings(D, s, S, n) # {}}
<1>1. 0 \in G
  <2>1. [i \in 0..0 |-> <<>>] \in Keepings(D, s, S, 0)
    BY DEF Keepings
  <2> QED
    BY <2>1
<1>2. ASSUME NEW n \in 0..Len(s), n \in G, n < Len(s)
      PROVE  n + 1 \in G
  <2>1. PICK f : f \in Keepings(D, s, S, n)
    BY <1>2
  <2> DEFINE g == [i \in 0..(n + 1) |->
                     IF i = n + 1
                     THEN IF s[n + 1] \in S THEN Append(f[n], s[n + 1]) ELSE f[n]
                     ELSE f[i]]
  <2>2. n + 1 \in 1..Len(s) /\ s[n + 1] \in D
    BY <1>2
  <2>3. g \in [0..(n + 1) -> Seq(D)]
    BY <2>1, <2>2 DEF Keepings
  <2>4. g[0] = <<>>
    BY <2>1 DEF Keepings
  <2>5. ASSUME NEW i \in 1..(n + 1)
        PROVE  Keeps(s, S, g, i)
    <3>1. CASE i = n + 1
      <4>1. n \in 0..(n + 1) /\ n + 1 \in 0..(n + 1) /\ n # n + 1 /\ (n + 1) - 1 = n
        BY <1>2
      <4>2. /\ g[n] = f[n]
            /\ g[n + 1] = IF s[n + 1] \in S THEN Append(f[n], s[n + 1]) ELSE f[n]
        BY <4>1
      <4> QED
        BY <3>1, <4>1, <4>2 DEF Keeps
    <3>2. CASE i \in 1..n
      <4>1. /\ i \in 0..(n + 1) /\ i - 1 \in 0..(n + 1) /\ i # n + 1 /\ i - 1 # n + 1
        BY <1>2, <3>2
      <4>2. g[i] = f[i] /\ g[i - 1] = f[i - 1] /\ Keeps(s, S, f, i)
        BY <3>2, <4>1, <2>1 DEF Keepings
      <4> QED
        BY <4>2 DEF Keeps
    <3> QED
      BY <3>1, <3>2
  <2>6. g \in Keepings(D, s, S, n + 1)
    BY <2>3, <2>4, <2>5 DEF Keepings
  <2> QED
    BY <2>6
<1>3. 0..Len(s) \subseteq G
  <2>1. Len(s) \in Nat
    OBVIOUS
  <2> HIDE DEF G
  <2>2. \A n \in 0..Len(s) : (n \in G /\ n < Len(s)) => n + 1 \in G
    BY <1>2
  <2> QED
    BY <1>1, <2>1, <2>2, Inductive
<1> QED
  BY <1>3

LEMMA KeptKeeping ==
    ASSUME NEW D, NEW s \in Seq(D), NEW S
    PROVE  \E f \in Keepings(D, s, S, Len(s)) : Kept(s, S) = f[Len(s)]
<1> DEFINE Def(f) == [i \in 0..Len(s) |->
                        IF i = 0 THEN <<>>
                        ELSE IF s[i] \in S THEN Append(f[i - 1], s[i]) ELSE f[i - 1]]
           k == CHOOSE f : f = Def(f)
<1>1. PICK f : f \in Keepings(D, s, S, Len(s))
  BY KeepingsExist
<1>2. f = Def(f)
  <2>1. f \in [0..Len(s) -> Seq(D)] /\ DOMAIN Def(f) = 0..Len(s)
    BY <1>1 DEF Keepings
  <2>2. ASSUME NEW i \in 0..Len(s)
        PROVE  f[i] = Def(f)[i]
    <3>1. CASE i = 0
      BY <3>1, <1>1 DEF Keepings
    <3>2. CASE i \in 1..Len(s)
      BY <3>2, <1>1 DEF Keepings, Keeps
    <3> QED
      BY <3>1, <3>2
  <2> HIDE DEF Def
  <2> QED
    BY <2>1, <2>2
<1>3. k = Def(k)
  <2> HIDE DEF Def
  <2> QED
    BY <1>2
<1>4. Kept(s, S) = k[Len(s)]
  BY DEF Kept
<1>5. /\ k[0] = <<>>
      /\ \A i \in 1..Len(s) : Keeps(s, S, k, i)
      /\ k = [i \in 0..Len(s) |-> k[i]]
  <2>1. \A i \in 0..Len(s) :
           k[i] = IF i = 0 THEN <<>>
                  ELSE IF s[i] \in S THEN Append(k[i - 1], s[i]) ELSE k[i - 1]
    BY <1>3
  <2>2. DOMAIN k = 0..Len(s) /\ k = [i \in DOMAIN k |-> k[i]]
    BY <1>3
  <2> HIDE DEF k
  <2>3. k[0] = <<>>
    BY <2>1
  <2>4. ASSUME NEW i \in 1..Len(s)
        PROVE  Keeps(s, S, k, i)
    BY <2>1 DEF Keeps
  <2> QED
    BY <2>2, <2>3, <2>4
<1> HIDE DEF k
<1> DEFINE G == {n \in 0..Len(s) : k[n] \in Seq(D)}
<1>6. 0..Len(s) \subseteq G
  <2>1. 0 \in G
    <3>1. <<>> \in Seq(D) /\ 0 \in 0..Len(s)
      OBVIOUS
    <3> QED
      BY <1>5, <3>1
  <2>2. ASSUME NEW n \in 0..Len(s), n \in G, n < Len(s)
        PROVE  n + 1 \in G
    <3>1. n + 1 \in 1..Len(s) /\ (n + 1) - 1 = n /\ s[n + 1] \in D
      BY <2>2
    <3>2. k[n] \in Seq(D)
      BY <2>2
    <3>3. k[n + 1] = IF s[n + 1] \in S THEN Append(k[n], s[n + 1]) ELSE k[n]
      BY <1>5, <3>1 DEF Keeps
    <3>4. k[n + 1] \in Seq(D)
      BY <3>1, <3>2, <3>3
    <3> QED
      BY <3>1, <3>4
  <2>3. Len(s) \in Nat
    OBVIOUS
  <2> HIDE DEF G
  <2>4. \A n \in 0..Len(s) : (n \in G /\ n < Len(s)) => n + 1 \in G
    BY <2>2
  <2> QED
    BY <2>1, <2>3, <2>4, Inductive
<1>7. k \in Keepings(D, s, S, Len(s))
  <2>1. k \in [0..Len(s) -> Seq(D)]
    BY <1>5, <1>6
  <2> QED
    BY <1>5, <2>1 DEF Keepings
<1> QED
  BY <1>4, <1>7

LEMMA KeepingsAgree ==
    ASSUME NEW D, NEW s \in Seq(D), NEW t \in Seq(D), NEW S,
           NEW n \in Nat, n <= Len(s), n <= Len(t),
           \A i \in 1..n : s[i] = t[i],
           NEW f \in Keepings(D, s, S, Len(s)), NEW g \in Keepings(D, t, S, Len(t))
    PROVE  f[n] = g[n]
<1> DEFINE G == {i \in 0..n : f[i] = g[i]}
<1>1. 0 \in G
  BY DEF Keepings
<1>2. ASSUME NEW i \in 0..n, i \in G, i < n
      PROVE  i + 1 \in G
  <2>1. i + 1 \in 1..n /\ i + 1 \in 1..Len(s) /\ i + 1 \in 1..Len(t) /\ (i + 1) - 1 = i
    BY <1>2
  <2>2. Keeps(s, S, f, i + 1) /\ Keeps(t, S, g, i + 1)
    BY <2>1 DEF Keepings
  <2> QED
    BY <1>2, <2>1, <2>2 DEF Keeps
<1>3. 0..n \subseteq G
  <2> HIDE DEF G
  <2>1. \A i \in 0..n : (i \in G /\ i < n) => i + 1 \in G
    BY <1>2
  <2> QED
    BY <1>1, <2>1, Inductive
<1> QED
  BY <1>3

LEMMA KeptType ==
    ASSUME NEW D, NEW s \in Seq(D), NEW S
    PROVE  Kept(s, S) \in Seq(D) /\ Len(Kept(s, S)) <= Len(s)
<1>1. PICK f \in Keepings(D, s, S, Len(s)) : Kept(s, S) = f[Len(s)]
  BY KeptKeeping
<1> DEFINE G == {i \in 0..Len(s) : f[i] \in Seq(D) /\ Len(f[i]) <= i}
<1>2. 0 \in G
  BY DEF Keepings
<1>3. ASSUME NEW i \in 0..Len(s), i \in G, i < Len(s)
      PROVE  i + 1 \in G
  <2>1. i + 1 \in 1..Len(s) /\ (i + 1) - 1 = i /\ s[i + 1] \in D
    BY <1>3
  <2>2. Keeps(s, S, f, i + 1) /\ f[i] \in Seq(D) /\ Len(f[i]) <= i
    BY <1>3, <2>1 DEF Keepings
  <2>3. Len(Append(f[i], s[i + 1])) = Len(f[i]) + 1 /\ Append(f[i], s[i + 1]) \in Seq(D)
    BY <2>1, <2>2
  <2>4. Len(f[i]) \in Nat
    BY <2>2
  <2>5. f[i + 1] \in Seq(D) /\ Len(f[i + 1]) <= i + 1
    <3>1. CASE s[i + 1] \in S
      BY <3>1, <2>1, <2>2, <2>3, <2>4 DEF Keeps
    <3>2. CASE s[i + 1] \notin S
      BY <3>2, <2>1, <2>2, <2>4 DEF Keeps
    <3> QED
      BY <3>1, <3>2
  <2> QED
    BY <2>1, <2>5
<1>4. 0..Len(s) \subseteq G
  <2>1. Len(s) \in Nat
    OBVIOUS
  <2> HIDE DEF G
  <2>2. \A i \in 0..Len(s) : (i \in G /\ i < Len(s)) => i + 1 \in G
    BY <1>3
  <2> QED
    BY <1>2, <2>1, <2>2, Inductive
<1> QED
  BY <1>1, <1>4

LEMMA KeptEmpty ==
    ASSUME NEW S
    PROVE  Kept(<<>>, S) = <<>>
<1>1. <<>> \in Seq({}) /\ Len(<<>>) = 0
  OBVIOUS
<1>2. PICK f \in Keepings({}, <<>>, S, 0) : Kept(<<>>, S) = f[0]
  BY <1>1, KeptKeeping
<1> QED
  BY <1>2 DEF Keepings

LEMMA KeptAppend ==
    ASSUME NEW D, NEW s \in Seq(D), NEW S, NEW e \in D
    PROVE  Kept(Append(s, e), S) =
              IF e \in S THEN Append(Kept(s, S), e) ELSE Kept(s, S)
<1> DEFINE t == Append(s, e)
           n == Len(s)
<1>1. /\ t \in Seq(D) /\ Len(t) = n + 1 /\ n \in Nat
      /\ t[n + 1] = e
      /\ \A i \in 1..n : s[i] = t[i]
  OBVIOUS
<1> HIDE DEF t
<1>2. PICK f \in Keepings(D, s, S, n) : Kept(s, S) = f[n]
  BY KeptKeeping
<1>3. PICK g \in Keepings(D, t, S, n + 1) : Kept(t, S) = g[n + 1]
  BY <1>1, KeptKeeping
<1>4. f[n] = g[n]
  BY <1>1, KeepingsAgree
<1>5. Keeps(t, S, g, n + 1) /\ n + 1 \in 1..(n + 1) /\ (n + 1) - 1 = n
  BY <1>1 DEF Keepings
<1>6. Kept(t, S) = IF e \in S THEN Append(Kept(s, S), e) ELSE Kept(s, S)
  BY <1>1, <1>2, <1>3, <1>4, <1>5 DEF Keeps
<1> QED
  BY <1>6 DEF t

LEMMA KeptKept ==
    ASSUME NEW D, NEW s \in Seq(D), NEW A, NEW B, A \subseteq B
    PROVE  Kept(Kept(s, B), A) = Kept(s, A)
<1>1. PICK f \in Keepings(D, s, B, Len(s)) : Kept(s, B) = f[Len(s)]
  BY KeptKeeping
<1>2. PICK g \in Keepings(D, s, A, Len(s)) : Kept(s, A) = g[Len(s)]
  BY KeptKeeping
<1> DEFINE G == {i \in 0..Len(s) : Kept(f[i], A) = g[i]}
<1>3. 0 \in G
  BY KeptEmpty DEF Keepings
<1>4. ASSUME NEW i \in 0..Len(s), i \in G, i < Len(s)
      PROVE  i + 1 \in G
  <2>1. i + 1 \in 1..Len(s) /\ (i + 1) - 1 = i /\ s[i + 1] \in D
    BY <1>4
  <2>2. Keeps(s, B, f, i + 1) /\ Keeps(s, A, g, i + 1) /\ f[i] \in Seq(D)
    BY <2>1 DEF Keepings
  <2>3. Kept(Append(f[i], s[i + 1]), A) =
           IF s[i + 1] \in A THEN Append(Kept(f[i], A), s[i + 1]) ELSE Kept(f[i], A)
    <3>1. ASSUME NEW x \in Seq(D), NEW e \in D
          PROVE  Kept(Append(x, e), A) =
                    IF e \in A THEN Append(Kept(x, A), e) ELSE Kept(x, A)
      BY KeptAppend
    <3>2. f[i] \in Seq(D) /\ s[i + 1] \in D
      BY <2>1, <2>2
    <3> QED
      BY <3>1, <3>2
  <2>4. Kept(f[i], A) = g[i]
    BY <1>4
  <2>5. Kept(f[i + 1], A) = g[i + 1]
    BY <2>1, <2>2, <2>3, <2>4 DEF Keeps
  <2> QED
    BY <2>1, <2>5
<1>5. 0..Len(s) \subseteq G
  <2>1. Len(s) \in Nat
    OBVIOUS
  <2> HIDE DEF G
  <2>2. \A i \in 0..Len(s) : (i \in G /\ i < Len(s)) => i + 1 \in G
    BY <1>4
  <2> QED
    BY <1>3, <2>1, <2>2, Inductive
<1> QED
  BY <1>1, <1>2, <1>5

\* What t has of the first n elements of s: all that pass the test, and nothing twice.
Distinct(s) == \A i, j \in 1..Len(s) : s[i] = s[j] => i = j
Picks(s, S, t, n) ==
    /\ \A i \in 1..Len(t) : t[i] \in S /\ \E k \in 1..n : s[k] = t[i]
    /\ \A k \in 1..n : s[k] \in S => \E i \in 1..Len(t) : t[i] = s[k]
    /\ Distinct(s) => Distinct(t)

LEMMA KeptElements ==
    ASSUME NEW D, NEW s \in Seq(D), NEW S
    PROVE  Picks(s, S, Kept(s, S), Len(s))
<1>1. PICK f \in Keepings(D, s, S, Len(s)) : Kept(s, S) = f[Len(s)]
  BY KeptKeeping
<1> DEFINE G == {n \in 0..Len(s) : f[n] \in Seq(D) /\ Picks(s, S, f[n], n)}
<1>2. 0 \in G
  <2>1. f[0] = <<>> /\ f[0] \in Seq(D) /\ Len(f[0]) = 0
    BY DEF Keepings
  <2>2. Picks(s, S, f[0], 0)
    BY <2>1 DEF Picks, Distinct
  <2>3. 0 \in 0..Len(s)
    OBVIOUS
  <2> QED
    BY ONLY <2>1, <2>2, <2>3
<1>3. ASSUME NEW n \in 0..Len(s), n \in G, n < Len(s)
      PROVE  n + 1 \in G
  <2>1. n + 1 \in 1..Len(s) /\ (n + 1) - 1 = n /\ s[n + 1] \in D /\ n \in Nat
    BY <1>3
  <2>2. Keeps(s, S, f, n + 1) /\ f[n] \in Seq(D) /\ Picks(s, S, f[n], n)
    BY <1>3, <2>1 DEF Keepings
  <2>3. CASE s[n + 1] \notin S
    <3>1. f[n + 1] = f[n]
      BY <2>1, <2>2, <2>3 DEF Keeps
    <3>2. \A k \in 1..(n + 1) : k \in 1..n \/ k = n + 1
      BY <2>1
    <3>3. \A k \in 1..n : k \in 1..(n + 1)
      BY <2>1
    <3>4. Picks(s, S, f[n], n + 1)
      BY <2>2, <2>3, <3>2, <3>3 DEF Picks
    <3> QED
      BY <2>1, <2>2, <3>1, <3>4
  <2>4. CASE s[n + 1] \in S
    <3> DEFINE t == f[n]
               u == Append(f[n], s[n + 1])
    <3>1. f[n + 1] = u
      BY <2>1, <2>2, <2>4 DEF Keeps
    <3>2. /\ u \in Seq(D) /\ Len(t) \in Nat /\ Len(u) = Len(t) + 1 /\ u[Len(t) + 1] = s[n + 1]
          /\ \A i \in 1..Len(t) : u[i] = t[i]
      BY <2>1, <2>2
    <3>3. Picks(s, S, t, n)
      BY <2>2
    <3> HIDE DEF t, u
    <3>4. \A i \in 1..Len(u) : i \in 1..Len(t) \/ i = Len(t) + 1
      BY <3>2
    <3>5. \A i \in 1..Len(t) : i \in 1..Len(u)
      BY <3>2
    <3>6. Len(t) + 1 \in 1..Len(u)
      BY <3>2
    <3>7. \A k \in 1..(n + 1) : k \in 1..n \/ k = n + 1
      BY <2>1
    <3>8. n + 1 \in 1..(n + 1) /\ \A k \in 1..n : k \in 1..(n + 1)
      BY <2>1
    <3>9. \A i \in 1..Len(u) : u[i] \in S /\ \E k \in 1..(n + 1) : s[k] = u[i]
      BY <2>4, <3>2, <3>3, <3>4, <3>8 DEF Picks
    <3>10. \A k \in 1..(n + 1) : s[k] \in S => \E i \in 1..Len(u) : u[i] = s[k]
      BY <3>2, <3>3, <3>5, <3>6, <3>7 DEF Picks
    <3>11. ASSUME Distinct(s), NEW i \in 1..Len(u), NEW j \in 1..Len(u), u[i] = u[j]
           PROVE  i = j
      <4>1. \A l \in 1..Len(t) : t[l] # s[n + 1]
        <5> SUFFICES ASSUME NEW l \in 1..Len(t), t[l] = s[n + 1]
                     PROVE  FALSE
          OBVIOUS
        <5>1. PICK k \in 1..n : s[k] = t[l]
          BY <3>3 DEF Picks
        <5>2. k \in 1..Len(s) /\ k # n + 1
          BY <1>3, <2>1
        <5> QED
          BY <2>1, <3>11, <5>1, <5>2 DEF Distinct
      <4>2. CASE i \in 1..Len(t) /\ j \in 1..Len(t)
        BY <3>2, <3>3, <3>11, <4>2 DEF Picks, Distinct
      <4>3. CASE i = Len(t) + 1 \/ j = Len(t) + 1
        BY <3>2, <3>4, <3>11, <4>1, <4>3
      <4> QED
        BY <3>4, <4>2, <4>3
    <3>12. Picks(s, S, u, n + 1)
      BY <3>9, <3>10, <3>11 DEF Picks, Distinct
    <3> QED
      BY <2>1, <3>1, <3>2, <3>12
  <2> QED
    BY <2>3, <2>4
<1>4. 0..Len(s) \subseteq G
  <2>1. Len(s) \in Nat
    OBVIOUS
  <2> HIDE DEF G
  <2>2. \A i \in 0..Len(s) : (i \in G /\ i < Len(s)) => i + 1 \in G
    BY <1>3
  <2> QED
    BY <1>2, <2>1, <2>2, Inductive
<1>5. Len(s) \in 0..Len(s)
  OBVIOUS
<1>6. Picks(s, S, f[Len(s)], Len(s))
  BY <1>4, <1>5
<1> QED
  BY <1>1, <1>6

(* Sets that agree on the elements of a sequence keep the same of it.       *)
LEMMA KeptSame ==
    ASSUME NEW D, NEW s \in Seq(D), NEW A, NEW B,
           \A i \in 1..Len(s) : s[i] \in A <=> s[i] \in B
    PROVE  Kept(s, A) = Kept(s, B)
<1>1. PICK f \in Keepings(D, s, A, Len(s)) : Kept(s, A) = f[Len(s)]
  BY KeptKeeping
<1>2. PICK g \in Keepings(D, s, B, Len(s)) : Kept(s, B) = g[Len(s)]
  BY KeptKeeping
<1>3. f \in Keepings(D, s, B, Len(s))
  BY DEF Keepings, Keeps
<1>4. f[Len(s)] = g[Len(s)]
  BY <1>3, KeepingsAgree
<1> QED
  BY <1>1, <1>2, <1>4

(* The head of the second of two sequences moves to the end of the first.   *)
LEMMA HeadMoves ==
    ASSUME NEW D, NEW s \in Seq(D), NEW q \in Seq(D), q # <<>>
    PROVE  Append(s, Head(q)) \o Tail(q) = s \o q
<1>1. Head(q) \in D /\ Tail(q) \in Seq(D) /\ <<Head(q)>> \in Seq(D)
  BY HeadTailProperties
<1>2. q = <<Head(q)>> \o Tail(q)
  BY <1>1
<1>3. Append(s, Head(q)) = s \o <<Head(q)>>
  BY <1>1, AppendIsConcat
<1>4. (s \o <<Head(q)>>) \o Tail(q) = s \o (<<Head(q)>> \o Tail(q))
  BY <1>1, ConcatAssociative
<1> QED
  BY <1>2, <1>3, <1>4

(* What follows place k of a sequence, and of the sequence with one more.   *)
LEMMA SubSeqAppend ==
    ASSUME NEW D, NEW s \in Seq(D), NEW k \in 0..Len(s), NEW x \in D
    PROVE  /\ SubSeq(s, k + 1, Len(s)) \in Seq(D)
           /\ Len(SubSeq(s, k + 1, Len(s))) = Len(s) - k
           /\ \A i \in 1..(Len(s) - k) : SubSeq(s, k + 1, Len(s))[i] = s[i + k]
           /\ SubSeq(Append(s, x), k + 1, Len(s) + 1) =
                 Append(SubSeq(s, k + 1, Len(s)), x)
<1> DEFINE n == Len(s)
           t == Append(s, x)
           old == SubSeq(s, k + 1, n)
           new == SubSeq(t, k + 1, n + 1)
<1>1. n \in Nat /\ k \in Nat /\ k <= n /\ \A i \in 1..n : s[i] \in D
  OBVIOUS
<1>2. /\ t \in Seq(D) /\ Len(t) = n + 1
      /\ \A i \in 1..n : t[i] = s[i]
      /\ t[n + 1] = x
  BY AppendProperties
<1> HIDE DEF n, t
<1>3. /\ old \in Seq(D) /\ Len(old) = n - k
      /\ \A i \in 1..(n - k) : old[i] = s[i + k]
  <2>1. \A i \in (k + 1)..n : s[i] \in D
    BY <1>1
  <2>2. /\ old \in Seq(D) /\ Len(old) = IF k + 1 <= n THEN n - (k + 1) + 1 ELSE 0
        /\ \A i \in 1..(n - (k + 1) + 1) : old[i] = s[(k + 1) + i - 1]
    BY <1>1, <2>1, SubSeqProperties
  <2> QED
    BY <1>1, <2>2
<1>4. /\ new \in Seq(D) /\ Len(new) = n - k + 1
      /\ \A i \in 1..(n - k + 1) : new[i] = t[i + k]
  <2>1. \A i \in (k + 1)..(n + 1) : t[i] \in D
    BY <1>1, <1>2
  <2>2. /\ new \in Seq(D)
        /\ Len(new) = IF k + 1 <= n + 1 THEN (n + 1) - (k + 1) + 1 ELSE 0
        /\ \A i \in 1..((n + 1) - (k + 1) + 1) : new[i] = t[(k + 1) + i - 1]
    BY <1>1, <2>1, SubSeqProperties
  <2>3. Len(new) = n - k + 1 /\ (n + 1) - (k + 1) + 1 = n - k + 1
    BY <1>1, <2>2
  <2>4. ASSUME NEW i \in 1..(n - k + 1)
        PROVE  new[i] = t[i + k]
    <3>1. new[i] = t[(k + 1) + i - 1] /\ (k + 1) + i - 1 = i + k
      BY <1>1, <2>2, <2>3
    <3> QED
      BY <3>1
  <2> QED
    BY <2>2, <2>3, <2>4
<1> HIDE DEF old, new
<1>5. /\ Append(old, x) \in Seq(D) /\ Len(Append(old, x)) = n - k + 1
      /\ \A i \in 1..(n - k) : Append(old, x)[i] = old[i]
      /\ Append(old, x)[n - k + 1] = x
  BY <1>1, <1>3, AppendProperties
<1>6. ASSUME NEW i \in 1..(n - k + 1)
      PROVE  new[i] = Append(old, x)[i]
  <2>1. CASE i \in 1..(n - k)
    <3>1. i + k \in 1..n /\ t[i + k] = s[i + k] /\ new[i] = t[i + k]
      BY <1>1, <1>2, <1>4, <2>1
    <3> QED
      BY <1>3, <1>5, <2>1, <3>1
  <2>2. CASE i = n - k + 1
    <3>1. i + k = n + 1 /\ new[i] = t[i + k]
      BY <1>1, <1>4, <2>2
    <3>2. new[i] = x
      BY <1>2, <3>1
    <3>3. Append(old, x)[i] = x
      BY <1>5, <2>2
    <3> QED
      BY <3>2, <3>3
  <2>3. i \in 1..(n - k) \/ i = n - k + 1
    BY <1>1
  <2> QED
    BY <2>1, <2>2, <2>3
<1>7. new = Append(old, x)
  BY <1>4, <1>5, <1>6, SeqEqual
<1> QED
  BY <1>3, <1>7 DEF old, new, n, t
=============================================================================

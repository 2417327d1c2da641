-------------------------- MODULE ParseGroupsProofs --------------------------
(***************************************************************************)
(* The parser gives every text, of any length, the groups it stands for.   *)
(***************************************************************************)
EXTENDS ParseGroups, SequenceTheorems, FiniteSetTheorems, TLAPS

-----------------------------------------------------------------------------
(* Least and greatest positions.  Induction is an argument about the least *)
(* counterexample.                                                         *)

LEMMA LeastNat ==
    ASSUME NEW T, T \subseteq Nat, T # {}
    PROVE  \E m \in T : \A n \in T : m <= n
  <1>1. PICK R : R = {ss \in Nat \X Nat : ss[1] < ss[2]}
    OBVIOUS
  <1>2. IsWellFoundedOn({ss \in Nat \X Nat : ss[1] < ss[2]}, Nat)
    BY NatLessThanWellFounded DEF OpToRel
  <1>3. IsWellFoundedOn(R, Nat)
    BY <1>1, <1>2
  <1>4. \E m \in T : \A n \in T : ~(<<n, m>> \in R)
    BY <1>3, WFMin
  <1>5. \A m \in T, n \in T : n < m => <<n, m>> \in R
    BY <1>1
  <1>6. \A m \in T, n \in T : m <= n \/ n < m
    OBVIOUS
  <1> QED BY <1>4, <1>5, <1>6

LEMMA MinOf ==
    ASSUME NEW T, T \subseteq Int, T # {}, NEW a \in Int, \A n \in T : a <= n
    PROVE  /\ Min(T) \in T
           /\ \A n \in T : Min(T) <= n
  <1>1. PICK U : U = {n - a : n \in T}
    OBVIOUS
  <1>2. U \subseteq Nat /\ U # {}
    <2>1. \A n \in T : n - a \in Nat
      OBVIOUS
    <2> QED BY <2>1, <1>1
  <1>3. PICK m \in U : \A n \in U : m <= n
    BY <1>2, LeastNat
  <1>4. PICK x \in T : m = x - a
    BY <1>1
  <1>5. \A n \in T : x <= n
    <2> SUFFICES ASSUME NEW n \in T PROVE x <= n
      OBVIOUS
    <2>1. n - a \in U
      BY <1>1
    <2>2. x - a <= n - a
      BY <2>1, <1>3, <1>4
    <2> QED BY <2>2
  <1> QED BY <1>5 DEF Min

LEMMA MaxOf ==
    ASSUME NEW T, T \subseteq Int, T # {}, NEW b \in Int, \A n \in T : n <= b
    PROVE  /\ Max(T) \in T
           /\ \A n \in T : n <= Max(T)
  <1>1. PICK U : U = {b - n : n \in T}
    OBVIOUS
  <1>2. U \subseteq Nat /\ U # {}
    <2>1. \A n \in T : b - n \in Nat
      OBVIOUS
    <2> QED BY <2>1, <1>1
  <1>3. PICK m \in U : \A n \in U : m <= n
    BY <1>2, LeastNat
  <1>4. PICK x \in T : m = b - x
    BY <1>1
  <1>5. \A n \in T : x >= n
    <2> SUFFICES ASSUME NEW n \in T PROVE x >= n
      OBVIOUS
    <2>1. b - n \in U
      BY <1>1
    <2>2. b - x <= b - n
      BY <2>1, <1>3, <1>4
    <2> QED BY <2>2
  <1>6. Max(T) \in T /\ \A n \in T : Max(T) >= n
    BY <1>5 DEF Max
  <1> QED BY <1>6

LEMMA MinIs ==
    ASSUME NEW T, T \subseteq Int, NEW x \in T, \A n \in T : x <= n
    PROVE  Min(T) = x
  <1>1. PICK m : m = Min(T)
    OBVIOUS
  <1>2. m \in T /\ m <= x
    BY <1>1, MinOf
  <1>3. x <= m /\ x \in Int /\ m \in Int
    BY <1>2
  <1> QED BY <1>1, <1>2, <1>3

-----------------------------------------------------------------------------
(* Listings.                                                               *)

Increasing(q) == \A m, n \in DOMAIN q : m < n => q[m] < q[n]

LEMMA IncreasingOnto ==
    ASSUME NEW S, S \subseteq Int, IsFiniteSet(S),
           NEW q \in [1 .. Cardinality(S) -> S], Increasing(q)
    PROVE  \A p \in S : \E n \in 1 .. Cardinality(S) : q[n] = p
  <1>1. Cardinality(S) \in Nat
    BY FS_CardinalityType
  <1>2. IsFiniteSet(1 .. Cardinality(S)) /\ Cardinality(1 .. Cardinality(S)) = Cardinality(S)
    BY <1>1, FS_Interval
  <1>3. \A m, n \in 1 .. Cardinality(S) : q[m] = q[n] => m = n
    <2> SUFFICES ASSUME NEW m \in 1 .. Cardinality(S), NEW n \in 1 .. Cardinality(S), m # n
                 PROVE  q[m] # q[n]
      OBVIOUS
    <2>1. m < n \/ n < m
      BY <1>1
    <2>2. q[m] \in Int /\ q[n] \in Int
      OBVIOUS
    <2>3. q[m] < q[n] \/ q[n] < q[m]
      BY <2>1 DEF Increasing
    <2> QED BY <2>2, <2>3
  <1>4. q \in Injection(1 .. Cardinality(S), S)
    BY <1>3 DEF Injection, IsInjective
  <1>5. q \in Surjection(1 .. Cardinality(S), S)
    BY <1>2, <1>4, FS_Injection
  <1> QED BY <1>5 DEF Surjection

\* A finite set of positions has a listing.
LEMMA ListingOf ==
    ASSUME NEW S, S \subseteq Int, IsFiniteSet(S)
    PROVE  /\ Cardinality(S) \in Nat
           /\ Listing(S) \in [1 .. Cardinality(S) -> S]
           /\ Increasing(Listing(S))
           /\ \A p \in S : \E n \in 1 .. Cardinality(S) : Listing(S)[n] = p
  <1>1. Cardinality(S) \in Nat
    BY FS_CardinalityType
  <1>2. PICK N \in Nat : N = Cardinality(S)
    BY <1>1
  <1>3. PICK rank : rank = [p \in S |-> Cardinality({x \in S : x <= p})]
    OBVIOUS
  <1>4. \A p \in S : /\ IsFiniteSet({x \in S : x <= p})
                     /\ rank[p] \in 1 .. N
    <2> SUFFICES ASSUME NEW p \in S
                 PROVE  IsFiniteSet({x \in S : x <= p}) /\ rank[p] \in 1 .. N
      OBVIOUS
    <2>1. {x \in S : x <= p} \in SUBSET S /\ p \in {x \in S : x <= p}
      OBVIOUS
    <2>2. /\ IsFiniteSet({x \in S : x <= p})
          /\ Cardinality({x \in S : x <= p}) <= Cardinality(S)
      BY <2>1, FS_Subset
    <2>3. Cardinality({x \in S : x <= p}) \in Nat
      BY <2>2, FS_CardinalityType
    <2>4. Cardinality({x \in S : x <= p}) # 0
      BY <2>1, <2>2, FS_EmptySet
    <2>5. rank[p] = Cardinality({x \in S : x <= p})
      BY <1>3
    <2> QED BY <2>2, <2>3, <2>4, <2>5, <1>2
  <1>14. \A p \in S : rank[p] \in Int
    <2> SUFFICES ASSUME NEW p \in S PROVE rank[p] \in Int
      OBVIOUS
    <2>1. rank[p] \in 1 .. N
      BY <1>4
    <2> QED BY <2>1
  <1>5. \A p, x \in S : p < x => rank[p] < rank[x]
    <2> SUFFICES ASSUME NEW p \in S, NEW x \in S, p < x
                 PROVE  rank[p] < rank[x]
      OBVIOUS
    <2>1. PICK A : A = {y \in S : y <= p}
      OBVIOUS
    <2>2. PICK B : B = {y \in S : y <= x}
      OBVIOUS
    <2>3. A \in SUBSET B
      <3>1. \A y \in S : y <= p => y <= x
        OBVIOUS
      <3> QED BY <3>1, <2>1, <2>2
    <2>4. A # B
      BY <2>1, <2>2
    <2>5. IsFiniteSet(B)
      BY <1>4, <2>2
    <2>6. Cardinality(A) <= Cardinality(B) /\ (Cardinality(A) = Cardinality(B) => A = B)
      BY <2>3, <2>5, FS_Subset
    <2>7. rank[p] = Cardinality(A) /\ rank[x] = Cardinality(B)
      BY <1>3, <2>1, <2>2
    <2>8. rank[p] \in Int /\ rank[x] \in Int
      BY <1>14
    <2> QED BY <2>4, <2>6, <2>7, <2>8
  <1>6. rank \in Injection(S, 1 .. N)
    <2>1. rank \in [S -> 1 .. N]
      BY <1>3, <1>4
    <2>2. \A p, x \in S : rank[p] = rank[x] => p = x
      <3> SUFFICES ASSUME NEW p \in S, NEW x \in S, p # x
                   PROVE  rank[p] # rank[x]
        OBVIOUS
      <3>1. p < x \/ x < p
        OBVIOUS
      <3>2. rank[p] < rank[x] \/ rank[x] < rank[p]
        BY <3>1, <1>5
      <3> QED BY <3>2, <1>14
    <2> QED BY <2>1, <2>2 DEF Injection, IsInjective
  <1>7. rank \in Surjection(S, 1 .. N)
    <2>1. IsFiniteSet(1 .. N) /\ Cardinality(1 .. N) = N
      BY FS_Interval
    <2> QED BY <2>1, <1>2, <1>6, FS_Injection
  <1>8. PICK q : q = [n \in 1 .. N |-> CHOOSE p \in S : rank[p] = n]
    OBVIOUS
  <1>9. \A n \in 1 .. N : q[n] \in S /\ rank[q[n]] = n
    <2> SUFFICES ASSUME NEW n \in 1 .. N PROVE q[n] \in S /\ rank[q[n]] = n
      OBVIOUS
    <2>1. \E p \in S : rank[p] = n
      BY <1>7 DEF Surjection
    <2>2. q[n] = CHOOSE p \in S : rank[p] = n
      BY <1>8
    <2> QED BY <2>1, <2>2
  <1>10. q \in [1 .. N -> S]
    BY <1>8, <1>9
  <1>11. \A m, n \in 1 .. N : m < n => q[m] < q[n]
    <2> SUFFICES ASSUME NEW m \in 1 .. N, NEW n \in 1 .. N, m < n, ~(q[m] < q[n])
                 PROVE  FALSE
      OBVIOUS
    <2>1. q[m] \in Int /\ q[n] \in Int /\ q[m] \in S /\ q[n] \in S
      BY <1>9
    <2>2. q[n] < q[m] \/ q[n] = q[m]
      BY <2>1
    <2>3. rank[q[n]] < rank[q[m]] \/ rank[q[n]] = rank[q[m]]
      BY <2>1, <2>2, <1>5
    <2> QED BY <2>3, <1>9
  <1>12. /\ q \in [1 .. Cardinality(S) -> S]
         /\ \A m, n \in DOMAIN q : m < n => q[m] < q[n]
    BY <1>2, <1>10, <1>11
  <1>13. /\ Listing(S) \in [1 .. Cardinality(S) -> S]
         /\ Increasing(Listing(S))
    BY <1>12 DEF Listing, Increasing
  <1> QED BY <1>1, <1>13, IncreasingOnto

\* It is the only one.
LEMMA ListingIs ==
    ASSUME NEW S, S \subseteq Int, IsFiniteSet(S),
           NEW q \in [1 .. Cardinality(S) -> S], Increasing(q)
    PROVE  Listing(S) = q
  <1>1. PICK N \in Nat : N = Cardinality(S)
    BY ListingOf
  <1>2. PICK f : f = Listing(S)
    OBVIOUS
  <1>3. /\ f \in [1 .. N -> S] /\ q \in [1 .. N -> S]
        /\ \A m, n \in 1 .. N : m < n => f[m] < f[n] /\ q[m] < q[n]
    BY <1>1, <1>2, ListingOf DEF Increasing
  <1>4. \A p \in S : (\E n \in 1 .. N : f[n] = p) /\ (\E n \in 1 .. N : q[n] = p)
    <2>1. \A p \in S : \E n \in 1 .. N : f[n] = p
      BY <1>1, <1>2, ListingOf
    <2>2. \A p \in S : \E n \in 1 .. N : q[n] = p
      BY <1>1, IncreasingOnto
    <2> QED BY <2>1, <2>2
  <1>5. ASSUME NEW T, T = {n \in 1 .. N : f[n] # q[n]}, T # {}
        PROVE  FALSE
    <2>1. PICK m \in T : \A n \in T : m <= n
      BY <1>5, LeastNat
    <2>2. m \in 1 .. N /\ f[m] # q[m] /\ f[m] \in S /\ q[m] \in S
      BY <1>3, <1>5
    <2>3. \A n \in 1 .. m - 1 : n \in 1 .. N /\ f[n] = q[n]
      <3> SUFFICES ASSUME NEW n \in 1 .. m - 1 PROVE n \in 1 .. N /\ f[n] = q[n]
        OBVIOUS
      <3>1. n \in 1 .. N /\ n < m
        BY <2>2
      <3>2. n \notin T
        BY <3>1, <2>1, <2>2
      <3> QED BY <3>1, <3>2, <1>5
    <2>4. CASE f[m] < q[m]
      <3>1. PICK k \in 1 .. N : q[k] = f[m]
        BY <1>4, <2>2
      <3>2. k < m \/ k = m \/ m < k
        BY <2>2
      <3>3. CASE k < m
        <4>1. f[k] = q[k]
          BY <3>3, <2>2, <2>3
        <4>2. f[k] < f[m] /\ q[k] < q[m]
          BY <3>3, <2>2, <1>3
        <4>3. f[k] \in Int /\ q[k] \in Int
          BY <1>3
        <4> QED BY <4>1, <4>2, <4>3, <3>1
      <3>4. CASE m < k
        <4>1. q[m] < q[k] /\ q[k] < q[m]
          BY <3>1, <3>4, <2>2, <2>4, <1>3
        <4>2. q[m] \in Int /\ q[k] \in Int
          BY <1>3, <2>2
        <4> QED BY <4>1, <4>2
      <3> QED BY <3>1, <3>2, <3>3, <3>4, <2>2
    <2>5. CASE q[m] < f[m]
      <3>1. PICK k \in 1 .. N : f[k] = q[m]
        BY <1>4, <2>2
      <3>2. k < m \/ k = m \/ m < k
        BY <2>2
      <3>3. CASE k < m
        <4>1. f[k] = q[k]
          BY <3>3, <2>2, <2>3
        <4>2. f[k] < f[m] /\ q[k] < q[m]
          BY <3>3, <2>2, <1>3
        <4>3. f[k] \in Int /\ q[k] \in Int
          BY <1>3
        <4> QED BY <4>1, <4>2, <4>3, <3>1
      <3>4. CASE m < k
        <4>1. f[m] < f[k] /\ f[k] < f[m]
          BY <3>1, <3>4, <2>2, <2>5, <1>3
        <4>2. f[m] \in Int /\ f[k] \in Int
          BY <1>3, <2>2
        <4> QED BY <4>1, <4>2
      <3> QED BY <3>1, <3>2, <3>3, <3>4, <2>2
    <2>6. f[m] \in Int /\ q[m] \in Int
      BY <2>2
    <2>7. f[m] < q[m] \/ q[m] < f[m]
      BY <2>2, <2>6
    <2> QED BY <2>4, <2>5, <2>7
  <1>6. \A n \in 1 .. N : f[n] = q[n]
    <2>1. PICK T : T = {n \in 1 .. N : f[n] # q[n]}
      OBVIOUS
    <2>2. T = {}
      BY <2>1, <1>5
    <2> QED BY <2>1, <2>2
  <1>7. f = q
    <2>1. f = [n \in 1 .. N |-> f[n]] /\ q = [n \in 1 .. N |-> q[n]]
      BY <1>3
    <2>2. [n \in 1 .. N |-> f[n]] = [n \in 1 .. N |-> q[n]]
      BY <1>6
    <2> QED BY <2>1, <2>2
  <1> QED BY <1>2, <1>7

\* A position after all others comes last.
LEMMA ListingWith ==
    ASSUME NEW S, S \subseteq Int, IsFiniteSet(S), NEW x \in Int, \A p \in S : p < x
    PROVE  /\ Cardinality(S \cup {x}) = Cardinality(S) + 1
           /\ IsFiniteSet(S \cup {x})
           /\ Listing(S \cup {x}) =
                [n \in 1 .. Cardinality(S) + 1 |->
                    IF n = Cardinality(S) + 1 THEN x ELSE Listing(S)[n]]
  <1>1. PICK N \in Nat : N = Cardinality(S)
    BY ListingOf
  <1>2. x \notin S
    OBVIOUS
  <1>3. IsFiniteSet(S \cup {x}) /\ Cardinality(S \cup {x}) = N + 1
    BY <1>1, <1>2, FS_AddElement
  <1>4. PICK f : f = Listing(S)
    OBVIOUS
  <1>5. f \in [1 .. N -> S] /\ \A m, n \in 1 .. N : m < n => f[m] < f[n]
    BY <1>1, <1>4, ListingOf DEF Increasing
  <1>6. PICK q : q = [n \in 1 .. N + 1 |-> IF n = N + 1 THEN x ELSE f[n]]
    OBVIOUS
  <1>7. q \in [1 .. N + 1 -> S \cup {x}]
    <2>1. \A n \in 1 .. N + 1 : n # N + 1 => n \in 1 .. N
      OBVIOUS
    <2> QED BY <2>1, <1>5, <1>6
  <1>8. \A m, n \in 1 .. N + 1 : m < n => q[m] < q[n]
    <2> SUFFICES ASSUME NEW m \in 1 .. N + 1, NEW n \in 1 .. N + 1, m < n
                 PROVE  q[m] < q[n]
      OBVIOUS
    <2>1. m \in 1 .. N /\ q[m] = f[m] /\ f[m] \in S
      BY <1>5, <1>6
    <2>2. CASE n = N + 1
      BY <2>1, <2>2, <1>6
    <2>3. CASE n # N + 1
      BY <2>1, <2>3, <1>5, <1>6
    <2> QED BY <2>2, <2>3
  <1>9. Listing(S \cup {x}) = q
    BY <1>3, <1>7, <1>8, ListingIs DEF Increasing
  <1> QED BY <1>1, <1>3, <1>4, <1>6, <1>9

-----------------------------------------------------------------------------
(* Openers, names and groups.                                              *)

Open(t, p) == {q \in 1 .. p - 1 : t[q] = "[" /\ \A r \in q + 1 .. p - 1 : t[r] # "]"}

LEMMA OpenerIs ==
    ASSUME NEW t, NEW p
    PROVE  /\ Opener(t, p) = {} <=> Open(t, p) = {}
           /\ Open(t, p) # {} => Opener(t, p) = {Min(Open(t, p))}
  BY DEF Opener, Open

\* Without an opening bracket between them, none is open later.
LEMMA StaysClosed ==
    ASSUME NEW t, NEW a \in Nat, NEW b \in Nat, a <= b,
           Opener(t, a) = {}, \A m \in a .. b - 1 : t[m] # "["
    PROVE  Opener(t, b) = {}
  <1> SUFFICES ASSUME NEW q \in Open(t, b) PROVE FALSE
    BY OpenerIs
  <1>1. /\ q \in 1 .. b - 1 /\ t[q] = "["
        /\ \A r \in q + 1 .. b - 1 : t[r] # "]"
    BY DEF Open
  <1>2. q \notin a .. b - 1
    BY <1>1
  <1>3. q \in 1 .. a - 1
    BY <1>1, <1>2
  <1>4. \A r \in q + 1 .. a - 1 : r \in q + 1 .. b - 1
    BY <1>1
  <1>5. q \in Open(t, a)
    BY <1>1, <1>3, <1>4 DEF Open
  <1> QED BY <1>5, OpenerIs

\* What follows an opening bracket is in it, up to a closing one.
LEMMA Opened ==
    ASSUME NEW t, NEW a \in Nat \ {0}, NEW b \in Nat, a < b,
           Opener(t, a) = {}, t[a] = "[", \A m \in a + 1 .. b - 1 : t[m] # "]"
    PROVE  Opener(t, b) = {a}
  <1>1. a \in Open(t, b)
    BY DEF Open
  <1>2. \A q \in Open(t, b) : a <= q
    <2> SUFFICES ASSUME NEW q \in Open(t, b), q < a PROVE FALSE
      BY DEF Open
    <2>1. /\ q \in 1 .. b - 1 /\ t[q] = "["
          /\ \A r \in q + 1 .. b - 1 : t[r] # "]"
      BY DEF Open
    <2>2. q \in 1 .. a - 1 /\ \A r \in q + 1 .. a - 1 : r \in q + 1 .. b - 1
      BY <2>1
    <2>3. q \in Open(t, a)
      BY <2>1, <2>2 DEF Open
    <2> QED BY <2>3, OpenerIs
  <1>3. Open(t, b) \subseteq Int
    BY DEF Open
  <1>4. Min(Open(t, b)) = a
    BY <1>1, <1>2, <1>3, MinIs
  <1> QED BY <1>1, <1>4, OpenerIs

\* A closing bracket closes.
LEMMA Closed ==
    ASSUME NEW t, NEW a \in Nat \ {0}, t[a] = "]"
    PROVE  Opener(t, a + 1) = {}
  <1> SUFFICES ASSUME NEW q \in Open(t, a + 1) PROVE FALSE
    BY OpenerIs
  <1>1. /\ q \in 1 .. a /\ t[q] = "["
        /\ \A r \in q + 1 .. a : t[r] # "]"
    BY DEF Open
  <1>2. q # a
    BY <1>1
  <1>3. a \in q + 1 .. a
    BY <1>1, <1>2
  <1> QED BY <1>1, <1>3

LEMMA GroupOfType ==
    ASSUME NEW t, NEW p \in Nat \ {0}
    PROVE  GroupOf(t, p) \in 1 .. p
  <1>1. CASE Open(t, p) = {}
    BY <1>1, OpenerIs DEF GroupOf
  <1>2. CASE Open(t, p) # {}
    <2>1. Open(t, p) \subseteq 1 .. p - 1
      BY DEF Open
    <2>2. PICK O : O = Open(t, p)
      OBVIOUS
    <2>3. O \subseteq Int /\ O # {} /\ \A n \in O : 1 <= n
      BY <1>2, <2>1, <2>2
    <2>4. Min(O) \in O
      <3>1. PICK a \in Int : a = 1
        OBVIOUS
      <3>2. \A n \in O : a <= n
        BY <2>3, <3>1
      <3> QED BY <2>3, <3>2, MinOf
    <2>5. Opener(t, p) = {Min(O)}
      BY <1>2, <2>2, OpenerIs
    <2>6. Min(Opener(t, p)) = Min(O)
      <3>1. PICK m : m = Min(O)
        OBVIOUS
      <3>2. m \in Int
        BY <2>3, <2>4, <3>1
      <3>3. {m} \subseteq Int /\ m \in {m} /\ \A n \in {m} : m <= n
        BY <3>2
      <3>4. Min({m}) = m
        BY <3>3, MinIs
      <3> QED BY <2>5, <3>1, <3>4
    <2>7. GroupOf(t, p) = Min(O)
      BY <2>5, <2>6 DEF GroupOf
    <2> QED BY <2>1, <2>2, <2>4, <2>7
  <1> QED BY <1>1, <1>2

\* The names that start in a set of positions are a sequence, in which each
\* has its place.
LEMMA NamesOfIs ==
    ASSUME NEW t, NEW S \in SUBSET Int, IsFiniteSet(S)
    PROVE  /\ Cardinality(S) \in Nat
           /\ NamesOf(t, S) =
                [n \in 1 .. Cardinality(S) |-> trim(NameAt(t, Listing(S)[n]))]
           /\ \A n \in 1 .. Cardinality(S) : Listing(S)[n] \in S
           /\ \A p \in S : \E n \in 1 .. Cardinality(S) :
                NamesOf(t, S)[n] = trim(NameAt(t, p))
           /\ NamesOf(t, S) = <<>> <=> S = {}
  <1>1. PICK N \in Nat : N = Cardinality(S)
    BY ListingOf
  <1>2. PICK f : f = Listing(S)
    OBVIOUS
  <1>3. f \in [1 .. N -> S] /\ \A p \in S : \E n \in 1 .. N : f[n] = p
    BY <1>1, <1>2, ListingOf
  <1>4. NamesOf(t, S) = [n \in 1 .. N |-> trim(NameAt(t, f[n]))]
    BY <1>2, <1>3 DEF NamesOf
  <1>5. \A p \in S : \E n \in 1 .. N : NamesOf(t, S)[n] = trim(NameAt(t, p))
    BY <1>3, <1>4
  <1>6. NamesOf(t, S) = <<>> <=> S = {}
    <2>1. CASE S = {}
      <3>1. N = 0
        BY <1>1, <2>1, FS_EmptySet
      <3>2. 1 .. N = {}
        BY <3>1
      <3> QED BY <2>1, <3>2, <1>4
    <2>2. CASE S # {}
      <3>1. \E n \in 1 .. N : TRUE
        BY <2>2, <1>3
      <3>2. DOMAIN NamesOf(t, S) # {}
        BY <3>1, <1>4
      <3>3. DOMAIN <<>> = {}
        OBVIOUS
      <3> QED BY <2>2, <3>2, <3>3
    <2> QED BY <2>1, <2>2
  <1>7. \A n \in 1 .. N : f[n] \in S
    BY <1>3
  <1> QED BY <1>1, <1>2, <1>4, <1>5, <1>6, <1>7

\* Names of a later group come after all groups.
LEMMA GroupsWith ==
    ASSUME NEW t, NEW N \in Nat, NEW P \in SUBSET (1 .. N), NEW Q \in SUBSET (1 .. N),
           NEW k \in Nat, Q # {}, \A p \in Q : GroupOf(t, p) = k,
           \A p \in P : GroupOf(t, p) < k
    PROVE  GroupsOf(t, P \cup Q) = GroupsOf(t, P) \o <<NamesOf(t, Q)>>
  <1>1. PICK K : K = {GroupOf(t, p) : p \in P}
    OBVIOUS
  <1>2. \A p \in P \cup Q : GroupOf(t, p) \in 1 .. N
    <2> SUFFICES ASSUME NEW p \in P \cup Q PROVE GroupOf(t, p) \in 1 .. N
      OBVIOUS
    <2>1. p \in 1 .. N
      OBVIOUS
    <2>2. GroupOf(t, p) \in 1 .. p
      BY <2>1, GroupOfType
    <2> QED BY <2>1, <2>2
  <1>3. K \in SUBSET (1 .. N) /\ k \in Int /\ \A x \in K : x < k
    <2>1. PICK p \in Q : TRUE
      OBVIOUS
    <2>2. k \in 1 .. N
      BY <1>2
    <2> QED BY <2>2, <1>1, <1>2
  <1>4. K \subseteq Int /\ IsFiniteSet(K)
    <2>1. IsFiniteSet(1 .. N)
      BY FS_Interval
    <2>2. IsFiniteSet(K)
      BY <1>3, <2>1, FS_Subset
    <2>3. K \subseteq Int
      BY <1>3
    <2> QED BY <2>2, <2>3
  <1>5. PICK M \in Nat : M = Cardinality(K)
    BY <1>4, ListingOf
  <1>6. PICK f : f = Listing(K)
    OBVIOUS
  <1>7. f \in [1 .. M -> K]
    BY <1>4, <1>5, <1>6, ListingOf
  <1>8. {GroupOf(t, p) : p \in P \cup Q} = K \cup {k}
    BY <1>1
  <1>9. PICK h : h = [n \in 1 .. M + 1 |-> IF n = M + 1 THEN k ELSE f[n]]
    OBVIOUS
  <1>10. Listing(K \cup {k}) = h
    <2>1. Listing(K \cup {k}) =
            [n \in 1 .. Cardinality(K) + 1 |->
                IF n = Cardinality(K) + 1 THEN k ELSE Listing(K)[n]]
      BY <1>3, <1>4, ListingWith
    <2> QED BY <2>1, <1>5, <1>6, <1>9
  <1>11. PICK X : X = {NamesOf(t, R) : R \in SUBSET (1 .. N)}
    OBVIOUS
  <1>12. PICK G : G = [g \in 1 .. M |-> NamesOf(t, {p \in P : GroupOf(t, p) = f[g]})]
    OBVIOUS
  <1>13. GroupsOf(t, P) = G
    BY <1>1, <1>6, <1>7, <1>12 DEF GroupsOf
  <1>14. PICK H : H = [g \in 1 .. M + 1 |->
                        NamesOf(t, {p \in P \cup Q : GroupOf(t, p) = h[g]})]
    OBVIOUS
  <1>15. GroupsOf(t, P \cup Q) = H
    <2>1. Listing({GroupOf(t, p) : p \in P \cup Q}) = h
      BY <1>8, <1>10
    <2>2. DOMAIN h = 1 .. M + 1
      BY <1>9
    <2> QED BY <2>1, <2>2, <1>14 DEF GroupsOf
  <1>16. \A g \in 1 .. M : H[g] = G[g]
    <2> SUFFICES ASSUME NEW g \in 1 .. M PROVE H[g] = G[g]
      OBVIOUS
    <2>1. g \in 1 .. M + 1 /\ g # M + 1 /\ h[g] = f[g] /\ f[g] \in K
      BY <1>7, <1>9
    <2>2. f[g] # k
      BY <2>1, <1>3
    <2>3. {p \in P \cup Q : GroupOf(t, p) = f[g]} = {p \in P : GroupOf(t, p) = f[g]}
      BY <2>2
    <2> QED BY <2>1, <2>3, <1>12, <1>14
  <1>17. H[M + 1] = NamesOf(t, Q)
    <2>1. M + 1 \in 1 .. M + 1 /\ h[M + 1] = k
      BY <1>9
    <2>2. \A p \in P : GroupOf(t, p) # k
      BY <1>2
    <2>3. {p \in P \cup Q : GroupOf(t, p) = k} = Q
      BY <2>2
    <2> QED BY <2>1, <2>3, <1>14
  <1>18. G \in Seq(X) /\ Len(G) = M
    <2>1. \A g \in 1 .. M : {p \in P : GroupOf(t, p) = f[g]} \in SUBSET (1 .. N)
      OBVIOUS
    <2>2. G \in [1 .. M -> X]
      BY <2>1, <1>11, <1>12
    <2> QED BY <2>2
  <1>19. <<NamesOf(t, Q)>> \in Seq(X) /\ Len(<<NamesOf(t, Q)>>) = 1
    <2>1. NamesOf(t, Q) \in X
      BY <1>11
    <2> QED BY <2>1
  <1>20. PICK C : C = G \o <<NamesOf(t, Q)>>
    OBVIOUS
  <1>21. /\ C \in Seq(X) /\ Len(C) = M + 1
         /\ \A n \in 1 .. M + 1 : C[n] = IF n <= M THEN G[n] ELSE <<NamesOf(t, Q)>>[n - M]
    BY <1>18, <1>19, <1>20, ConcatProperties
  <1>22. \A n \in 1 .. M + 1 : C[n] = H[n]
    <2> SUFFICES ASSUME NEW n \in 1 .. M + 1 PROVE C[n] = H[n]
      OBVIOUS
    <2>1. CASE n \in 1 .. M
      BY <2>1, <1>16, <1>21
    <2>2. CASE n = M + 1
      BY <2>2, <1>17, <1>21
    <2> QED BY <2>1, <2>2
  <1>23. C = H
    <2>1. C \in [1 .. M + 1 -> X]
      BY <1>21, LenProperties
    <2>2. C = [n \in 1 .. M + 1 |-> C[n]]
      BY <2>1
    <2>3. H = [n \in 1 .. M + 1 |-> H[n]]
      BY <1>14
    <2>4. [n \in 1 .. M + 1 |-> C[n]] = [n \in 1 .. M + 1 |-> H[n]]
      BY <1>22
    <2> QED BY <2>2, <2>3, <2>4
  <1> QED BY <1>13, <1>15, <1>20, <1>23

\* Groups are a sequence.
LEMMA GroupsOfSeq ==
    ASSUME NEW t, NEW N \in Nat, NEW P, P \subseteq 1 .. N
    PROVE  \E X : GroupsOf(t, P) \in Seq(X)
  <1>1. PICK K : K = {GroupOf(t, p) : p \in P}
    OBVIOUS
  <1>2. K \in SUBSET (1 .. N)
    <2> SUFFICES ASSUME NEW p \in P PROVE GroupOf(t, p) \in 1 .. N
      BY <1>1
    <2>1. p \in 1 .. N
      OBVIOUS
    <2>2. GroupOf(t, p) \in 1 .. p
      BY <2>1, GroupOfType
    <2> QED BY <2>1, <2>2
  <1>3. K \subseteq Int /\ IsFiniteSet(K)
    <2>1. IsFiniteSet(1 .. N)
      BY FS_Interval
    <2>2. IsFiniteSet(K)
      BY <1>2, <2>1, FS_Subset
    <2>3. K \subseteq Int
      BY <1>2
    <2> QED BY <2>2, <2>3
  <1>4. PICK M \in Nat : M = Cardinality(K)
    BY <1>3, ListingOf
  <1>5. PICK f : f = Listing(K)
    OBVIOUS
  <1>6. f \in [1 .. M -> K]
    BY <1>3, <1>4, <1>5, ListingOf
  <1>7. PICK X : X = {NamesOf(t, R) : R \in SUBSET (1 .. N)}
    OBVIOUS
  <1>8. PICK G : G = [g \in 1 .. M |-> NamesOf(t, {p \in P : GroupOf(t, p) = f[g]})]
    OBVIOUS
  <1>9. GroupsOf(t, P) = G
    BY <1>1, <1>5, <1>6, <1>8 DEF GroupsOf
  <1>10. \A g \in 1 .. M : {p \in P : GroupOf(t, p) = f[g]} \in SUBSET (1 .. N)
    OBVIOUS
  <1>11. G \in [1 .. M -> X]
    BY <1>7, <1>8, <1>10
  <1>12. G \in Seq(X)
    BY <1>11
  <1> QED BY <1>9, <1>12

-----------------------------------------------------------------------------
(* Scanning and trimming.                                                  *)

LEMMA ScanStops ==
    ASSUME NEW n \in Nat, NEW e \in Nat, n <= e, NEW C
    PROVE  /\ ScanTo(n, e, C) \in n .. e
           /\ ScanTo(n, e, C) = e \/ s[ScanTo(n, e, C)] \in C
           /\ \A m \in n .. ScanTo(n, e, C) - 1 : s[m] \notin C
  <1>1. PICK T : T = {m \in n .. e : m = e \/ s[m] \in C}
    OBVIOUS
  <1>2. T \subseteq Int /\ T # {} /\ \A m \in T : n <= m
    BY <1>1
  <1>3. Min(T) \in T /\ \A m \in T : Min(T) <= m
    <2>1. n \in Int
      OBVIOUS
    <2> QED BY <2>1, <1>2, MinOf
  <1>4. PICK x : x = Min(T)
    OBVIOUS
  <1>5. x \in n .. e /\ (x = e \/ s[x] \in C) /\ \A m \in T : x <= m
    BY <1>1, <1>3, <1>4
  <1>6. ScanTo(n, e, C) = x
    BY <1>1, <1>4 DEF ScanTo
  <1>7. \A m \in n .. x - 1 : s[m] \notin C
    <2> SUFFICES ASSUME NEW m \in n .. x - 1, s[m] \in C PROVE FALSE
      OBVIOUS
    <2>1. m \in n .. e /\ m < x
      BY <1>5
    <2>2. m \in T
      BY <2>1, <1>1
    <2> QED BY <2>1, <2>2, <1>5
  <1> QED BY <1>5, <1>6, <1>7

\* A scan stops at the first position that stops it.
LEMMA ScanIs ==
    ASSUME NEW n \in Nat, NEW e \in Nat, NEW C, NEW x \in n .. e,
           x = e \/ s[x] \in C, \A m \in n .. x - 1 : s[m] \notin C
    PROVE  ScanTo(n, e, C) = x
  <1>1. PICK T : T = {m \in n .. e : m = e \/ s[m] \in C}
    OBVIOUS
  <1>2. T \subseteq Int /\ x \in T
    BY <1>1
  <1>3. \A m \in T : x <= m
    <2> SUFFICES ASSUME NEW m \in T, m < x PROVE FALSE
      BY <1>2
    <2>1. m \in n .. x - 1 /\ m # e /\ s[m] \in C
      BY <1>1
    <2> QED BY <2>1
  <1>4. Min(T) = x
    BY <1>2, <1>3, MinIs
  <1> QED BY <1>1, <1>4 DEF ScanTo

\* What is kept of a piece of a text: from its first to its last character
\* that is not blank.
Kept(t, p, e) == {n \in p .. e : t[n] # " "}

LEMMA TrimOf ==
    ASSUME NEW S, NEW t \in Seq(S), NEW p \in Nat \ {0}, NEW e \in Nat,
           p <= e + 1, e <= Len(t)
    PROVE  /\ Kept(t, p, e) = {} => trim(SubSeq(t, p, e)) = <<>>
           /\ Kept(t, p, e) # {} =>
                /\ trim(SubSeq(t, p, e)) = SubSeq(t, Min(Kept(t, p, e)), Max(Kept(t, p, e)))
                /\ trim(SubSeq(t, p, e)) # <<>>
  <1>0. PICK K : K = Kept(t, p, e)
    OBVIOUS
  <1>. p \in Int /\ e \in Int /\ p >= 1 /\ Len(t) \in Nat
    BY LenProperties
  <1>15. \A n \in K : n \in p .. e
    BY <1>0 DEF Kept
  <1>1. PICK w : w = SubSeq(t, p, e)
    OBVIOUS
  <1>2. PICK c \in Int : c = p - 1
    OBVIOUS
  <1>3. /\ w \in Seq(S) /\ Len(w) = e - c /\ DOMAIN w = 1 .. e - c
        /\ \A n \in 1 .. e - c : w[n] = t[n + c]
    <2>1. \A n \in p .. e : t[n] \in S
      <3> SUFFICES ASSUME NEW n \in p .. e PROVE t[n] \in S
        OBVIOUS
      <3>1. n \in 1 .. Len(t)
        OBVIOUS
      <3> QED BY <3>1, ElementOfSeq
    <2>2. /\ w \in Seq(S) /\ Len(w) = IF p <= e THEN e - p + 1 ELSE 0
          /\ \A n \in 1 .. e - p + 1 : w[n] = t[p + n - 1]
      BY <2>1, <1>1, SubSeqProperties
    <2>3. Len(w) = e - c
      BY <2>2, <1>2
    <2>4. \A n \in 1 .. e - c : n \in 1 .. e - p + 1 /\ p + n - 1 = n + c
      BY <1>2
    <2>5. \A n \in 1 .. e - c : w[n] = t[n + c]
      BY <2>2, <2>4
    <2>6. DOMAIN w = 1 .. e - c
      BY <2>2, <2>3, LenProperties
    <2> QED BY <2>2, <2>3, <2>5, <2>6
  <1>4. PICK kept : kept = {n \in DOMAIN w : w[n] # " "}
    OBVIOUS
  <1>5. trim(w) = IF kept = {} THEN <<>> ELSE SubSeq(w, Min(kept), Max(kept))
    BY <1>4 DEF trim
  <1>6. \A n \in kept : n \in 1 .. e - c /\ n + c \in K
    <2> SUFFICES ASSUME NEW n \in kept PROVE n \in 1 .. e - c /\ n + c \in K
      OBVIOUS
    <2>1. t[n + c] # " "
      BY <1>3, <1>4
    <2>2. n \in 1 .. e - c
      BY <1>3, <1>4
    <2>3. n + c \in p .. e
      BY <2>2, <1>2
    <2> QED BY <2>1, <2>2, <2>3, <1>0 DEF Kept
  <1>7. \A n \in K : n - c \in kept
    <2> SUFFICES ASSUME NEW n \in K PROVE n - c \in kept
      OBVIOUS
    <2>1. n \in p .. e
      BY <1>0 DEF Kept
    <2>2. n - c \in 1 .. e - c /\ (n - c) + c = n
      BY <2>1, <1>2
    <2>3. w[n - c] = t[n]
      BY <2>2, <1>3
    <2>4. t[n] # " "
      BY <1>0 DEF Kept
    <2> QED BY <2>2, <2>3, <2>4, <1>3, <1>4
  <1>8. CASE K = {}
    BY <1>0, <1>1, <1>5, <1>6, <1>8
  <1>9. CASE K # {}
    <2>1. kept # {} /\ kept \subseteq Int /\ K \subseteq Int
      <3>1. \A n \in kept : n \in Int
        BY <1>6
      <3>2. \A n \in K : n \in Int
        BY <1>15
      <3> QED BY <3>1, <3>2, <1>7, <1>9
    <2>2. PICK a : a = Min(K)
      OBVIOUS
    <2>3. PICK b : b = Max(K)
      OBVIOUS
    <2>4. a \in K /\ b \in K /\ \A n \in K : a <= n /\ n <= b
      <3>1. \A n \in K : p <= n /\ n <= e
        BY <1>15
      <3>2. Min(K) \in K /\ \A n \in K : Min(K) <= n
        BY <3>1, <2>1, <1>9, MinOf
      <3>3. Max(K) \in K /\ \A n \in K : n <= Max(K)
        BY <3>1, <2>1, <1>9, MaxOf
      <3> QED BY <3>2, <3>3, <2>2, <2>3
    <2>5. a - c \in kept /\ b - c \in kept /\ a \in p .. e /\ b \in p .. e
      BY <2>4, <1>7, <1>15
    <2>6. \A n \in kept : a - c <= n /\ n <= b - c
      <3> SUFFICES ASSUME NEW n \in kept PROVE a - c <= n /\ n <= b - c
        OBVIOUS
      <3>1. a <= n + c /\ n + c <= b
        BY <1>6, <2>4
      <3> QED BY <3>1, <2>1, <2>5
    <2>7. Min(kept) = a - c
      BY <2>1, <2>5, <2>6, MinIs
    <2>8. Max(kept) = b - c
      <3>1. Max(kept) \in kept /\ \A n \in kept : n <= Max(kept)
        <4>1. b - c \in Int
          BY <2>5
        <4> QED BY <4>1, <2>1, <2>6, MaxOf
      <3>2. Max(kept) <= b - c /\ b - c <= Max(kept)
        BY <3>1, <2>5, <2>6
      <3>3. Max(kept) \in Int /\ b - c \in Int
        BY <3>1, <2>1, <2>5
      <3> QED BY <3>2, <3>3
    <2>9. a <= b /\ p + (a - c) - 1 = a /\ p + (b - c) - 1 = b
      BY <2>4, <2>5, <1>2
    <2>10. SubSeq(w, a - c, b - c) = SubSeq(t, a, b)
      <3>1. PICK m \in 1 .. e - p + 1 : m = a - c
        BY <2>5, <1>2
      <3>2. PICK n \in 1 .. e - p + 1 : n = b - c
        BY <2>5, <1>2
      <3>3. p \in 1 .. Len(t) /\ e \in 1 .. Len(t)
        BY <2>5
      <3>4. SubSeq(SubSeq(t, p, e), m, n) = SubSeq(t, p + m - 1, p + n - 1)
        BY <3>3, SubSeqOfSubSeq
      <3>5. p + m - 1 = a /\ p + n - 1 = b
        BY <3>1, <3>2, <2>9
      <3> QED BY <3>1, <3>2, <3>4, <3>5, <1>1
    <2>11. trim(w) = SubSeq(t, a, b)
      BY <2>1, <2>7, <2>8, <2>10, <1>5
    <2>12. SubSeq(t, a, b) # <<>>
      <3>1. \A n \in a .. b : t[n] \in S
        <4> SUFFICES ASSUME NEW n \in a .. b PROVE t[n] \in S
          OBVIOUS
        <4>1. n \in 1 .. Len(t)
          BY <2>5
        <4> QED BY <4>1, ElementOfSeq
      <3>2. Len(SubSeq(t, a, b)) = b - a + 1
        BY <3>1, <2>5, <2>9, SubSeqProperties
      <3>3. b - a + 1 # 0
        BY <2>5, <2>9
      <3>4. Len(<<>>) = 0
        OBVIOUS
      <3> QED BY <3>2, <3>3, <3>4
    <2> QED BY <2>2, <2>3, <2>11, <2>12, <1>0, <1>1, <1>9
  <1> QED BY <1>8, <1>9

\* Leading blanks make no difference.
Blank(t, a, b) == \A n \in a .. b : t[n] = " "

LEMMA TrimAfter ==
    ASSUME NEW S, NEW t \in Seq(S), NEW p \in Nat \ {0}, NEW b \in Nat, NEW e \in Nat,
           p <= b, b <= e + 1, e <= Len(t), Blank(t, p, b - 1)
    PROVE  trim(SubSeq(t, p, e)) = trim(SubSeq(t, b, e))
  <1>. p \in Int /\ b \in Nat \ {0} /\ e \in Int /\ Len(t) \in Nat
    BY LenProperties
  <1>1. Kept(t, p, e) = Kept(t, b, e)
    <2>1. \A n \in p .. e : n \in b .. e \/ n \in p .. b - 1
      OBVIOUS
    <2>2. \A n \in p .. e : t[n] # " " => n \in b .. e
      BY <2>1 DEF Blank
    <2>3. \A n \in b .. e : n \in p .. e
      OBVIOUS
    <2> QED BY <2>2, <2>3 DEF Kept
  <1>2. p <= e + 1
    OBVIOUS
  <1>3. PICK K : K = Kept(t, p, e)
    OBVIOUS
  <1>4. /\ K = {} => trim(SubSeq(t, p, e)) = <<>>
        /\ K # {} => trim(SubSeq(t, p, e)) = SubSeq(t, Min(K), Max(K))
    BY <1>2, <1>3, TrimOf
  <1>5. /\ K = {} => trim(SubSeq(t, b, e)) = <<>>
        /\ K # {} => trim(SubSeq(t, b, e)) = SubSeq(t, Min(K), Max(K))
    BY <1>1, <1>3, TrimOf
  <1> QED BY <1>4, <1>5

\* A name ends before the first structural character after its start.
LEMMA NameEnds ==
    ASSUME NEW t, Len(t) \in Nat, NEW p \in 1 .. Len(t)
    PROVE  \E e \in p .. Len(t) :
                /\ NameAt(t, p) = SubSeq(t, p, e)
                /\ e = Len(t) \/ Structural(t, e + 1)
                /\ \A r \in p + 1 .. e : ~Structural(t, r)
  <1>1. PICK T : T = {q \in p .. Len(t) : q = Len(t) \/ Structural(t, q + 1)}
    OBVIOUS
  <1>2. T \subseteq Int /\ T # {} /\ \A m \in T : p <= m
    BY <1>1
  <1>3. Min(T) \in T /\ \A m \in T : Min(T) <= m
    <2>1. p \in Int
      OBVIOUS
    <2> QED BY <2>1, <1>2, MinOf
  <1>4. PICK e : e = Min(T)
    OBVIOUS
  <1>5. /\ e \in p .. Len(t) /\ (e = Len(t) \/ Structural(t, e + 1))
        /\ \A m \in T : e <= m
    BY <1>1, <1>3, <1>4
  <1>6. NameAt(t, p) = SubSeq(t, p, e)
    BY <1>1, <1>4 DEF NameAt
  <1>7. \A r \in p + 1 .. e : ~Structural(t, r)
    <2> SUFFICES ASSUME NEW r \in p + 1 .. e, Structural(t, r) PROVE FALSE
      OBVIOUS
    <2>1. r - 1 \in p .. Len(t) /\ (r - 1) + 1 = r /\ r - 1 < e
      BY <1>5
    <2>2. r - 1 \in T
      BY <2>1, <1>1
    <2> QED BY <2>1, <2>2, <1>5
  <1> QED BY <1>5, <1>6, <1>7

LEMMA NameIs ==
    ASSUME NEW t, Len(t) \in Nat, NEW p \in 1 .. Len(t), NEW e \in p .. Len(t),
           e = Len(t) \/ Structural(t, e + 1),
           \A r \in p + 1 .. e : ~Structural(t, r)
    PROVE  NameAt(t, p) = SubSeq(t, p, e)
  <1>1. PICK x \in p .. Len(t) : /\ NameAt(t, p) = SubSeq(t, p, x)
                                 /\ x = Len(t) \/ Structural(t, x + 1)
                                 /\ \A r \in p + 1 .. x : ~Structural(t, r)
    BY NameEnds
  <1>2. ~(x < e)
    <2>1. x < e => x + 1 \in p + 1 .. e
      OBVIOUS
    <2> QED BY <2>1, <1>1
  <1>3. ~(e < x)
    <2>1. e < x => e + 1 \in p + 1 .. x
      OBVIOUS
    <2> QED BY <2>1, <1>1
  <1>4. x = e
    BY <1>2, <1>3
  <1> QED BY <1>1, <1>4

-----------------------------------------------------------------------------
(* The inductive invariant: between two turns the parser is at the end of  *)
(* the text, or outside brackets where a name ends, and the groups so far  *)
(* are those of the names that start before it.                            *)

TypeOK ==
    /\ s \in Seq(Chars)
    /\ i \in 1 .. Len(s) + 1
    /\ result \in {"parsing", "ok", "error"}

AtBoundary ==
    \/ i > Len(s)
    \/ /\ Opener(s, i) = {}
       /\ i = 1 \/ Structural(s, i - 1) \/ Structural(s, i)

Seen == {p \in Starts(s) : p < i}

Unknown(P) == \E p \in P : ~Encodes(trim(NameAt(s, p)))

ParsedSoFar ==
    result = "parsing" => groups = GroupsOf(s, Seen) /\ ~Unknown(Seen)

IInv == TypeOK /\ AtBoundary /\ ParsedSoFar /\ ParsesAsGrouped

Separator(m) == s[m] = "," \/ s[m] = " "

LEMMA SLength ==
    ASSUME TypeOK
    PROVE  /\ s \in Seq(Chars) /\ Len(s) \in Nat /\ DOMAIN s = 1 .. Len(s)
           /\ i \in Nat \ {0} /\ i \in 1 .. Len(s) + 1
  <1>1. s \in Seq(Chars) /\ i \in 1 .. Len(s) + 1
    BY DEF TypeOK
  <1>2. Len(s) \in Nat /\ DOMAIN s = 1 .. Len(s)
    BY <1>1, LenProperties
  <1> QED BY <1>1, <1>2

LEMMA StartsIn ==
    ASSUME TypeOK, NEW p \in Starts(s)
    PROVE  /\ p \in 1 .. Len(s) /\ ~Structural(s, p)
           /\ p = 1 \/ Structural(s, p - 1)
           /\ trim(NameAt(s, p)) # <<>>
  BY SLength DEF Starts

\* A turn starts at the first character that is not skipped.
LEMMA StartFacts ==
    ASSUME TypeOK, AtBoundary
    PROVE  /\ Start \in i .. Len(s) + 1
           /\ Start \in Nat \ {0}
           /\ \A m \in i .. Start - 1 : Separator(m)
           /\ Start <= Len(s) => /\ ~Separator(Start)
                                 /\ \A m \in i .. Start : Opener(s, m) = {}
  <1>0. /\ s \in Seq(Chars) /\ Len(s) \in Nat
        /\ i \in Nat \ {0} /\ i \in 1 .. Len(s) + 1
    BY SLength
  <1>1. PICK e \in Nat : e = Len(s) + 1
    BY <1>0
  <1>2. PICK C : C = Chars \ {",", " "}
    OBVIOUS
  <1>3. Start = ScanTo(i, e, C)
    BY <1>1, <1>2 DEF Start
  <1>4. i <= e
    BY <1>0, <1>1
  <1>5. /\ Start \in i .. e
        /\ Start = e \/ s[Start] \in C
        /\ \A m \in i .. Start - 1 : s[m] \notin C
    BY <1>0, <1>3, <1>4, ScanStops
  <1>6. Start \in Nat \ {0}
    BY <1>0, <1>5
  <1>7. \A m \in i .. Start - 1 : Separator(m)
    <2> SUFFICES ASSUME NEW m \in i .. Start - 1 PROVE Separator(m)
      OBVIOUS
    <2>1. m \in 1 .. Len(s)
      BY <1>0, <1>1, <1>5
    <2>2. s[m] \in Chars
      BY <2>1, <1>0, ElementOfSeq
    <2> QED BY <2>2, <1>2, <1>5 DEF Separator
  <1>8. ASSUME Start <= Len(s)
        PROVE  /\ ~Separator(Start)
               /\ \A m \in i .. Start : Opener(s, m) = {}
    <2>1. Start # e
      BY <1>0, <1>1, <1>8
    <2>2. ~Separator(Start)
      BY <2>1, <1>2, <1>5 DEF Separator
    <2>3. ~(i > Len(s))
      BY <1>0, <1>1, <1>5, <1>8
    <2>4. Opener(s, i) = {}
      BY <2>3 DEF AtBoundary
    <2>5. ASSUME NEW m \in i .. Start
          PROVE  Opener(s, m) = {}
      <3>1. m \in Nat /\ i \in Nat /\ i <= m
        BY <1>0, <1>6
      <3>2. \A x \in i .. m - 1 : x \in i .. Start - 1
        BY <3>1, <1>6
      <3>3. \A x \in i .. m - 1 : s[x] # "["
        BY <3>2, <1>7 DEF Separator
      <3> QED BY <3>1, <3>3, <2>4, StaysClosed
    <2> QED BY <2>2, <2>5
  <1> QED BY <1>1, <1>5, <1>6, <1>7, <1>8

\* No name lies in what is skipped.
LEMMA NotSkipped ==
    ASSUME TypeOK, AtBoundary, NEW p \in Starts(s), i <= p,
           NEW z \in p + 1 .. Start, z = Len(s) + 1 \/ Structural(s, z)
    PROVE  FALSE
  <1>0. s \in Seq(Chars) /\ Len(s) \in Nat /\ i \in Nat \ {0}
    BY SLength
  <1>1. /\ p \in 1 .. Len(s) /\ ~Structural(s, p)
        /\ trim(NameAt(s, p)) # <<>>
    BY StartsIn
  <1>2. Start \in Nat /\ \A m \in i .. Start - 1 : Separator(m)
    BY StartFacts
  <1>3. PICK e \in p .. Len(s) : /\ NameAt(s, p) = SubSeq(s, p, e)
                                 /\ \A r \in p + 1 .. e : ~Structural(s, r)
    BY <1>0, <1>1, NameEnds
  <1>4. e < z
    <2>1. z = Len(s) + 1 => e < z
      BY <1>0, <1>3
    <2>2. z <= e => z \in p + 1 .. e
      BY <1>0, <1>1, <1>2, <1>3
    <2>3. z <= e \/ e < z
      BY <1>0, <1>1, <1>2, <1>3
    <2> QED BY <2>1, <2>2, <2>3, <1>3
  <1>5. \A r \in p .. e : r \in i .. Start - 1 /\ (r = p \/ r \in p + 1 .. e)
    BY <1>0, <1>1, <1>2, <1>4
  <1>6. \A r \in p .. e : ~Structural(s, r) /\ Separator(r)
    BY <1>1, <1>2, <1>3, <1>5
  <1>7. Kept(s, p, e) = {}
    BY <1>6 DEF Kept, Separator, Structural
  <1>8. p \in Nat \ {0} /\ e \in Nat /\ p <= e + 1 /\ e <= Len(s)
    BY <1>0, <1>1
  <1>9. trim(SubSeq(s, p, e)) = <<>>
    BY <1>0, <1>7, <1>8, TrimOf
  <1> QED BY <1>1, <1>3, <1>9

\* At the end of the text every name was seen.
LEMMA EndSeen ==
    ASSUME TypeOK, AtBoundary, Start > Len(s)
    PROVE  Seen = Starts(s)
  <1> SUFFICES ASSUME NEW p \in Starts(s), ~(p < i) PROVE FALSE
    BY DEF Seen
  <1>1. Len(s) \in Nat /\ i \in Nat \ {0}
    BY SLength
  <1>2. p \in 1 .. Len(s)
    BY StartsIn
  <1>3. Start \in i .. Len(s) + 1
    BY StartFacts
  <1>4. i <= p /\ Start \in p + 1 .. Start /\ Start = Len(s) + 1
    BY <1>1, <1>2, <1>3
  <1> QED BY <1>4, NotSkipped

-----------------------------------------------------------------------------
(* A turn reads the names that start in what it consumes, and they are of  *)
(* one group.                                                              *)

Comma(m) == s[m] = ","
Bracket(m) == s[m] = "["

Ahead(next) == {p \in Starts(s) : i <= p /\ p < next}

LEMMA BracketedTurn ==
    ASSUME TypeOK, AtBoundary, Start <= Len(s), s[Start] = "[",
           NEW close, close = ScanTo(Start + 1, Len(s) + 1, {"]"}),
           NEW next, next = IF close <= Len(s) THEN close + 1 ELSE close
    PROVE  /\ next \in Start + 1 .. Len(s) + 1
           /\ next > Len(s) \/ (Opener(s, next) = {} /\ Structural(s, next - 1))
           /\ \A p \in Ahead(next) : GroupOf(s, p) = Start
           /\ SplitEvents(Start + 1, close) = NamesOf(s, Ahead(next))
  <1>0. s \in Seq(Chars) /\ Len(s) \in Nat /\ DOMAIN s = 1 .. Len(s) /\ i \in Nat \ {0}
    BY SLength
  <1>1. /\ Start \in Nat \ {0} /\ Start \in i .. Len(s) /\ Opener(s, Start) = {}
        /\ \A m \in i .. Start - 1 : Separator(m)
    <2>1. Start \in i .. Start
      BY <1>0, StartFacts
    <2> QED BY <2>1, <1>0, StartFacts
  <1>2. PICK a \in Nat : a = Start + 1
    BY <1>1
  <1>3. PICK L \in Nat : L = Len(s) + 1
    BY <1>0
  <1>4. /\ close \in a .. L
        /\ close = L \/ s[close] = "]"
        /\ \A m \in a .. close - 1 : s[m] # "]"
    <2>1. a <= L
      BY <1>0, <1>1, <1>2, <1>3
    <2>2. close = ScanTo(a, L, {"]"})
      BY <1>2, <1>3
    <2> QED BY <2>1, <2>2, ScanStops
  <1>5. close \in Nat /\ a > 1 /\ a - 1 = Start
    BY <1>1, <1>2, <1>4
  <1>6. \A p \in a .. close : Opener(s, p) = {Start}
    <2> SUFFICES ASSUME NEW p \in a .. close PROVE Opener(s, p) = {Start}
      OBVIOUS
    <2>1. p \in Nat /\ Start < p
      BY <1>1, <1>2, <1>5
    <2>2. \A m \in Start + 1 .. p - 1 : m \in a .. close - 1
      BY <1>1, <1>2, <1>5
    <2>3. \A m \in Start + 1 .. p - 1 : s[m] # "]"
      BY <2>2, <1>4
    <2> QED BY <2>1, <2>3, <1>1, Opened
  <1>7. Structural(s, Start)
    BY <1>1 DEF Structural
  <1>8. \A p \in a .. close - 1 : p \in a .. close /\ p \in 1 .. Len(s)
    BY <1>0, <1>3, <1>4, <1>5
  <1>9. \A p \in a .. close - 1 : Structural(s, p) <=> Comma(p)
    <2> SUFFICES ASSUME NEW p \in a .. close - 1 PROVE Structural(s, p) <=> Comma(p)
      OBVIOUS
    <2>1. Opener(s, p) # {} /\ s[p] # "]"
      BY <1>4, <1>6, <1>8
    <2> QED BY <2>1 DEF Structural, Comma
  <1>10. close # L => Structural(s, close)
    <2>1. close \in a .. close
      BY <1>4, <1>5
    <2> QED BY <2>1, <1>4, <1>6 DEF Structural
  <1>11. next = (IF close # L THEN close + 1 ELSE close) /\ (close = L <=> ~(close <= Len(s)))
    BY <1>0, <1>3, <1>4
  <1>12. next \in Start + 1 .. Len(s) + 1
    BY <1>2, <1>3, <1>4, <1>5, <1>11, <1>1
  <1>13. next > Len(s) \/ (Opener(s, next) = {} /\ Structural(s, next - 1))
    <2>1. CASE close = L
      BY <2>1, <1>0, <1>3, <1>11
    <2>2. CASE close # L
      <3>1. next = close + 1 /\ next - 1 = close /\ close \in Nat \ {0}
        BY <2>2, <1>5, <1>11, <1>4
      <3>2. Opener(s, close + 1) = {}
        BY <2>2, <3>1, <1>4, Closed
      <3> QED BY <3>1, <3>2, <2>2, <1>10
    <2> QED BY <2>1, <2>2
  <1>14. \A p \in Ahead(next) : p \in a .. close - 1
    <2> SUFFICES ASSUME NEW p \in Ahead(next) PROVE p \in a .. close - 1
      OBVIOUS
    <2>1. p \in Starts(s) /\ i <= p /\ p < next
      BY DEF Ahead
    <2>2. p \in 1 .. Len(s) /\ ~Structural(s, p)
      BY <2>1, StartsIn
    <2>3. ~(p < Start)
      <3>1. p < Start => Start \in p + 1 .. Start
        BY <2>2, <1>1
      <3> QED BY <3>1, <2>1, <1>7, NotSkipped
    <2>4. p # Start
      BY <2>2, <1>7
    <2>5. p # close \/ close = L
      BY <2>2, <1>10
    <2>6. p # L
      BY <2>2, <1>0, <1>3
    <2>7. p \in Int /\ p > Start
      BY <2>2, <2>3, <2>4, <1>1
    <2>8. p < close
      BY <2>1, <2>5, <2>6, <2>7, <1>5, <1>11
    <2> QED BY <2>7, <2>8, <1>1, <1>2, <1>5
  <1>15. \A p \in Ahead(next) : GroupOf(s, p) = Start
    <2> SUFFICES ASSUME NEW p \in Ahead(next) PROVE GroupOf(s, p) = Start
      OBVIOUS
    <2>1. Opener(s, p) = {Start}
      BY <1>6, <1>8, <1>14
    <2>2. GroupOf(s, p) = Min({Start})
      BY <2>1 DEF GroupOf
    <2>3. PICK x \in Int : x = Start
      BY <1>1
    <2>4. {x} \subseteq Int /\ x \in {x} /\ \A n \in {x} : x <= n
      OBVIOUS
    <2>5. Min({x}) = x
      BY <2>4, MinIs
    <2> QED BY <2>2, <2>3, <2>5
  <1>16. ASSUME NEW p \in a .. close - 1, ~Comma(p)
         PROVE  PieceAt(p, close) = trim(NameAt(s, p))
    <2>1. p \in Nat /\ p <= close /\ p \in 1 .. Len(s)
      BY <1>5, <1>8
    <2>2. PICK x : x = ScanTo(p, close, {","})
      OBVIOUS
    <2>3. /\ x \in p .. close
          /\ x = close \/ Comma(x)
          /\ \A m \in p .. x - 1 : ~Comma(m)
      <3>1. PICK C : C = {","}
        OBVIOUS
      <3>2. /\ x \in p .. close
            /\ x = close \/ s[x] \in C
            /\ \A m \in p .. x - 1 : s[m] \notin C
        <4>1. x = ScanTo(p, close, C)
          BY <3>1, <2>2
        <4> QED BY <4>1, <2>1, <1>5, ScanStops
      <3> QED BY <3>1, <3>2 DEF Comma
    <2>4. x # p
      BY <2>3, <1>5, <1>16
    <2>5. PICK e \in p .. Len(s) : e = x - 1
      BY <2>1, <2>3, <2>4, <1>0, <1>3, <1>4
    <2>6. x = e + 1 /\ e \in Int /\ (x = L => e = Len(s))
      BY <2>3, <2>5, <1>3, <1>0
    <2>7. e = Len(s) \/ Structural(s, e + 1)
      <3>1. x = close => x = L \/ Structural(s, x)
        BY <1>10
      <3>2. x # close => x \in a .. close - 1
        BY <2>1, <2>3, <1>5
      <3>3. x # close => Structural(s, x)
        BY <3>2, <2>3, <1>9
      <3> QED BY <3>1, <3>3, <2>6
    <2>8. \A r \in p + 1 .. e : r \in p .. x - 1 /\ r \in a .. close - 1
      BY <2>1, <2>3, <2>5, <1>5
    <2>9. \A r \in p + 1 .. e : ~Structural(s, r)
      BY <2>8, <2>3, <1>9
    <2>10. NameAt(s, p) = SubSeq(s, p, e)
      BY <2>1, <2>7, <2>9, <1>0, NameIs
    <2> QED BY <2>2, <2>5, <2>10 DEF PieceAt
  <1>17. ASSUME NEW p \in a .. close - 1, Comma(p)
         PROVE  PieceAt(p, close) = <<>>
    <2>1. p \in Nat \ {0} /\ p \in p .. close /\ p - 1 \in Nat /\ p \in 1 .. Len(s)
      BY <1>5, <1>8
    <2>2. \A m \in p .. p - 1 : FALSE
      BY <2>1
    <2>3. ScanTo(p, close, {","}) = p
      <3>1. PICK C : C = {","}
        OBVIOUS
      <3>2. s[p] \in C
        BY <3>1, <1>17 DEF Comma
      <3>3. ScanTo(p, close, C) = p
        BY <3>2, <2>1, <2>2, <1>5, ScanIs
      <3> QED BY <3>1, <3>3
    <2>4. Kept(s, p, p - 1) = {}
      BY <2>2 DEF Kept
    <2>5. p <= (p - 1) + 1 /\ p - 1 <= Len(s)
      BY <2>1, <1>0
    <2>6. trim(SubSeq(s, p, p - 1)) = <<>>
      BY <2>1, <2>4, <2>5, <1>0, TrimOf
    <2> QED BY <2>3, <2>6 DEF PieceAt
  <1>18. Ahead(next) = {p \in a .. close - 1 :
                            /\ p = a \/ Comma(p - 1)
                            /\ PieceAt(p, close) # <<>>}
    <2>1. ASSUME NEW p \in Ahead(next)
          PROVE  /\ p \in a .. close - 1
                 /\ p = a \/ Comma(p - 1)
                 /\ PieceAt(p, close) # <<>>
      <3>1. p \in a .. close - 1
        BY <1>14
      <3>2. /\ ~Structural(s, p) /\ (p = 1 \/ Structural(s, p - 1))
            /\ trim(NameAt(s, p)) # <<>>
        BY StartsIn DEF Ahead
      <3>3. PieceAt(p, close) # <<>>
        BY <3>1, <3>2, <1>9, <1>16
      <3>4. p # 1 /\ (p = a \/ p - 1 \in a .. close - 1)
        BY <3>1, <1>5
      <3> QED BY <3>1, <3>2, <3>3, <3>4, <1>9
    <2>2. ASSUME NEW p \in a .. close - 1,
                 p = a \/ Comma(p - 1), PieceAt(p, close) # <<>>
          PROVE  p \in Ahead(next)
      <3>1. ~Structural(s, p) /\ trim(NameAt(s, p)) # <<>>
        BY <2>2, <1>9, <1>16, <1>17
      <3>2. p = a \/ p - 1 \in a .. close - 1
        BY <1>5
      <3>3. Structural(s, p - 1)
        BY <3>2, <2>2, <1>5, <1>7, <1>9
      <3>4. i <= p /\ p < next
        <4>1. p > Start /\ p < close
          BY <1>1, <1>2, <1>5
        <4>2. close <= next
          BY <1>5, <1>11
        <4> QED BY <4>1, <4>2, <1>0, <1>1, <1>5, <1>12
      <3>5. p \in DOMAIN s
        BY <1>0, <1>8
      <3> QED BY <3>1, <3>3, <3>4, <3>5 DEF Ahead, Starts
    <2> QED BY <2>1, <2>2
  <1>19. PICK f : f = Listing(Ahead(next))
    OBVIOUS
  <1>20. SplitEvents(a, close) = [n \in DOMAIN f |-> PieceAt(f[n], close)]
    BY <1>18, <1>19 DEF SplitEvents, Comma
  <1>21. NamesOf(s, Ahead(next)) = [n \in DOMAIN f |-> trim(NameAt(s, f[n]))]
    BY <1>19 DEF NamesOf
  <1>22. \A n \in DOMAIN f : f[n] \in Ahead(next)
    <2>1. Ahead(next) \in SUBSET (1 .. Len(s))
      BY <1>8, <1>14
    <2>2. IsFiniteSet(1 .. Len(s)) /\ 1 .. Len(s) \subseteq Int
      BY <1>0, FS_Interval
    <2>3. IsFiniteSet(Ahead(next))
      BY <2>1, <2>2, FS_Subset
    <2>4. Ahead(next) \subseteq Int
      BY <2>1
    <2>5. f \in [1 .. Cardinality(Ahead(next)) -> Ahead(next)]
      BY <2>3, <2>4, <1>19, ListingOf
    <2> QED BY <2>5
  <1>23. \A p \in Ahead(next) : PieceAt(p, close) = trim(NameAt(s, p))
    BY <1>14, <1>16, <1>17, <1>18
  <1>24. SplitEvents(a, close) = NamesOf(s, Ahead(next))
    <2>1. [n \in DOMAIN f |-> PieceAt(f[n], close)] = [n \in DOMAIN f |-> trim(NameAt(s, f[n]))]
      BY <1>22, <1>23
    <2> QED BY <2>1, <1>20, <1>21
  <1> QED BY <1>2, <1>12, <1>13, <1>15, <1>24

\* The last separator but blanks before the start of a turn, or its beginning.
LEMMA NameBegins ==
    ASSUME TypeOK, AtBoundary
    PROVE  \E b \in i .. Start :
                /\ b = i \/ (b - 1 \in i .. Start /\ Comma(b - 1))
                /\ Blank(s, b, Start - 1)
  <1>0. i \in Nat \ {0}
    BY SLength
  <1>1. /\ Start \in Nat \ {0} /\ i <= Start
        /\ \A m \in i .. Start - 1 : Separator(m)
    BY <1>0, StartFacts
  <1>2. PICK T : T = {c \in i .. Start - 1 : Comma(c)}
    OBVIOUS
  <1>3. CASE T = {}
    <2>1. i \in i .. Start
      BY <1>0, <1>1
    <2>2. \A m \in i .. Start - 1 : ~Comma(m)
      BY <1>2, <1>3
    <2>3. Blank(s, i, Start - 1)
      BY <2>2, <1>1 DEF Blank, Comma, Separator
    <2> QED BY <2>1, <2>3
  <1>4. CASE T # {}
    <2>1. T \subseteq Int /\ \A c \in T : c <= Start
      BY <1>0, <1>1, <1>2
    <2>2. PICK c \in T : \A n \in T : n <= c
      <3>1. Start \in Int
        BY <1>1
      <3>2. Max(T) \in T /\ \A n \in T : n <= Max(T)
        BY <3>1, <2>1, <1>4, MaxOf
      <3> QED BY <3>2
    <2>3. c \in i .. Start - 1 /\ Comma(c)
      BY <2>2, <1>2
    <2>4. PICK b \in i .. Start : b = c + 1
      BY <2>3, <1>0, <1>1
    <2>5. b - 1 = c /\ b - 1 \in i .. Start
      BY <2>3, <2>4, <1>0, <1>1
    <2>6. \A m \in b .. Start - 1 : m \in i .. Start - 1 /\ ~(m <= c)
      BY <2>3, <2>4, <1>0, <1>1
    <2>7. \A m \in b .. Start - 1 : ~Comma(m)
      BY <2>2, <2>6, <1>2
    <2>8. Blank(s, b, Start - 1)
      BY <2>6, <2>7, <1>1 DEF Blank, Comma, Separator
    <2> QED BY <2>3, <2>5, <2>8
  <1> QED BY <1>3, <1>4

NameStops == {",", "["}

LEMMA SingleTurn ==
    ASSUME TypeOK, AtBoundary, Start <= Len(s), ~Bracket(Start),
           NEW e, e = ScanTo(Start, Len(s) + 1, NameStops)
    PROVE  /\ e \in Start + 1 .. Len(s) + 1
           /\ e > Len(s) \/ (Opener(s, e) = {} /\ Structural(s, e))
           /\ \E b \in i .. Start :
                /\ Ahead(e) = {b} /\ GroupOf(s, b) = b
                /\ trim(SubSeq(s, Start, e - 1)) = trim(NameAt(s, b))
                /\ trim(NameAt(s, b)) # <<>>
  <1>0. s \in Seq(Chars) /\ Len(s) \in Nat /\ DOMAIN s = 1 .. Len(s) /\ i \in Nat \ {0}
    BY SLength
  <1>1. /\ Start \in Nat \ {0} /\ Start \in i .. Len(s)
        /\ \A m \in i .. Start - 1 : Separator(m)
        /\ ~Separator(Start)
        /\ \A m \in i .. Start : Opener(s, m) = {}
    BY <1>0, StartFacts
  <1>2. PICK L \in Nat : L = Len(s) + 1
    BY <1>0
  <1>3. PICK C : C = NameStops
    OBVIOUS
  <1>4. /\ e \in Start .. L
        /\ e = L \/ s[e] \in C
        /\ \A m \in Start .. e - 1 : s[m] \notin C
    <2>1. Start <= L
      BY <1>0, <1>1, <1>2
    <2>2. e = ScanTo(Start, L, C)
      BY <1>2, <1>3
    <2> QED BY <2>1, <2>2, <1>1, ScanStops
  <1>5. e # Start
    <2>1. s[Start] \notin C
      BY <1>1, <1>3 DEF Separator, Bracket, NameStops
    <2> QED BY <2>1, <1>0, <1>1, <1>2, <1>4
  <1>6. /\ e \in Nat /\ Start < e /\ e <= L /\ e \in Start + 1 .. Len(s) + 1
        /\ e - 1 \in Nat /\ e - 1 <= Len(s) /\ Start <= (e - 1) + 1
        /\ e - 1 \in Start .. Len(s)
    BY <1>0, <1>1, <1>2, <1>4, <1>5
  <1>7. \A m \in Start .. e : Opener(s, m) = {}
    <2> SUFFICES ASSUME NEW m \in Start .. e PROVE Opener(s, m) = {}
      OBVIOUS
    <2>1. m \in Nat /\ Start <= m /\ Start \in i .. Start
      BY <1>0, <1>1, <1>6
    <2>2. \A x \in Start .. m - 1 : x \in Start .. e - 1
      BY <2>1, <1>1, <1>6
    <2>3. \A x \in Start .. m - 1 : s[x] # "["
      BY <2>2, <1>3, <1>4 DEF NameStops
    <2> QED BY <2>1, <2>3, <1>1, StaysClosed
  <1>8. \A m \in Start .. e - 1 : m \in Start .. e
    BY <1>1, <1>6
  <1>9. \A m \in Start .. e - 1 : ~Structural(s, m)
    BY <1>3, <1>4, <1>7, <1>8 DEF Structural, NameStops
  <1>10. e = L \/ (Opener(s, e) = {} /\ Structural(s, e))
    <2>1. e \in Start .. e
      BY <1>1, <1>6
    <2> QED BY <2>1, <1>3, <1>4, <1>7 DEF Structural, NameStops
  <1>11. PICK b \in i .. Start :
            /\ b = i \/ (b - 1 \in i .. Start /\ Comma(b - 1))
            /\ Blank(s, b, Start - 1)
    BY NameBegins
  <1>12. b \in Nat \ {0} /\ b \in 1 .. Len(s) /\ b <= Start /\ i <= b /\ b < e
    BY <1>0, <1>1, <1>6, <1>11
  <1>13. \A m \in b .. e - 1 : ~Structural(s, m)
    <2>1. \A m \in b .. e - 1 : m \in b .. Start - 1 \/ m \in Start .. e - 1
      BY <1>1, <1>6, <1>12
    <2>2. \A m \in b .. Start - 1 : ~Structural(s, m)
      BY <1>11 DEF Blank, Structural
    <2> QED BY <2>1, <2>2, <1>9
  <1>14. b = 1 \/ Structural(s, b - 1)
    <2>1. CASE b = i
      <3>1. b \in b .. e - 1
        BY <1>6, <1>12
      <3>2. ~Structural(s, i)
        BY <3>1, <2>1, <1>13
      <3>3. ~(i > Len(s))
        BY <2>1, <1>0, <1>12
      <3> QED BY <3>2, <3>3, <2>1 DEF AtBoundary
    <2>2. CASE Comma(b - 1)
      BY <2>2 DEF Comma, Structural
    <2> QED BY <2>1, <2>2, <1>11
  <1>15. NameAt(s, b) = SubSeq(s, b, e - 1)
    <2>1. e - 1 \in b .. Len(s)
      BY <1>0, <1>6, <1>12
    <2>2. e - 1 = Len(s) \/ Structural(s, (e - 1) + 1)
      <3>1. (e - 1) + 1 = e /\ (e = L => e - 1 = Len(s))
        BY <1>0, <1>2, <1>6
      <3> QED BY <3>1, <1>10
    <2>3. \A r \in b + 1 .. e - 1 : r \in b .. e - 1
      BY <1>6, <1>12
    <2>4. \A r \in b + 1 .. e - 1 : ~Structural(s, r)
      BY <2>3, <1>13
    <2> QED BY <2>1, <2>2, <2>4, <1>0, <1>12, NameIs
  <1>16. trim(NameAt(s, b)) = trim(SubSeq(s, Start, e - 1))
    <2>1. trim(SubSeq(s, b, e - 1)) = trim(SubSeq(s, Start, e - 1))
      BY <1>0, <1>1, <1>6, <1>11, <1>12, TrimAfter
    <2> QED BY <2>1, <1>15
  <1>17. trim(SubSeq(s, Start, e - 1)) # <<>>
    <2>1. Start \in Start .. e - 1
      BY <1>1, <1>6
    <2>2. Start \in Kept(s, Start, e - 1)
      BY <2>1, <1>1 DEF Kept, Separator
    <2>3. Kept(s, Start, e - 1) # {}
      BY <2>2
    <2> QED BY <2>3, <1>0, <1>1, <1>6, TrimOf
  <1>18. b \in Ahead(e)
    <2>1. b \in b .. e - 1
      BY <1>6, <1>12
    <2>2. ~Structural(s, b)
      BY <2>1, <1>13
    <2>3. b \in DOMAIN s
      BY <1>0, <1>12
    <2>4. b \in Starts(s)
      BY <2>2, <2>3, <1>14, <1>16, <1>17 DEF Starts
    <2> QED BY <2>4, <1>12 DEF Ahead
  <1>19. ASSUME NEW p \in Ahead(e)
         PROVE  p = b
    <2>1. p \in Starts(s) /\ i <= p /\ p < e
      BY DEF Ahead
    <2>2. p \in 1 .. Len(s) /\ ~Structural(s, p) /\ (p = 1 \/ Structural(s, p - 1))
      BY <2>1, StartsIn
    <2>3. ~(p < b)
      <3> SUFFICES ASSUME p < b PROVE FALSE
        OBVIOUS
      <3>1. b # i
        BY <2>1, <2>2, <1>0, <1>12
      <3>2. Structural(s, b - 1)
        BY <3>1, <1>11 DEF Comma, Structural
      <3>3. p # b - 1
        BY <3>2, <2>2
      <3>4. b - 1 \in p + 1 .. Start
        BY <3>3, <2>2, <1>1, <1>12
      <3> QED BY <3>2, <3>4, <2>1, NotSkipped
    <2>4. ~(b < p)
      <3> SUFFICES ASSUME b < p PROVE FALSE
        OBVIOUS
      <3>1. p # 1 /\ p - 1 \in b .. e - 1
        BY <2>1, <2>2, <1>6, <1>12
      <3> QED BY <3>1, <2>2, <1>13
    <2> QED BY <2>2, <2>3, <2>4, <1>12
  <1>20. GroupOf(s, b) = b
    BY <1>1, <1>11 DEF GroupOf
  <1>21. Ahead(e) = {b}
    BY <1>18, <1>19
  <1>22. e > Len(s) \/ (Opener(s, e) = {} /\ Structural(s, e))
    BY <1>0, <1>2, <1>10
  <1> QED BY <1>6, <1>16, <1>17, <1>20, <1>21, <1>22

-----------------------------------------------------------------------------
(* A turn that reads the names ahead as events keeps the invariant.        *)

LEMMA SeenGrows ==
    ASSUME TypeOK, NEW next \in i .. Len(s) + 1
    PROVE  /\ {p \in Starts(s) : p < next} = Seen \cup Ahead(next)
           /\ Seen \subseteq 1 .. Len(s)
           /\ Ahead(next) \subseteq 1 .. Len(s)
  <1>1. Len(s) \in Nat /\ i \in Nat \ {0}
    BY SLength
  <1>2. \A p \in Starts(s) : p \in 1 .. Len(s)
    BY StartsIn
  <1>3. \A p \in Starts(s) : p < next <=> (p < i \/ (i <= p /\ p < next))
    BY <1>1, <1>2
  <1>4. {p \in Starts(s) : p < next} = Seen \cup Ahead(next)
    BY <1>3 DEF Seen, Ahead
  <1>5. Seen \subseteq 1 .. Len(s) /\ Ahead(next) \subseteq 1 .. Len(s)
    BY <1>2 DEF Seen, Ahead
  <1> QED BY <1>4, <1>5

LEMMA AheadFinite ==
    ASSUME TypeOK, NEW next \in i .. Len(s) + 1
    PROVE  IsFiniteSet(Ahead(next)) /\ Ahead(next) \in SUBSET Int
  <1>1. PICK N \in Nat : N = Len(s)
    BY SLength
  <1>2. IsFiniteSet(1 .. N)
    BY FS_Interval
  <1>3. Ahead(next) \in SUBSET (1 .. N)
    BY <1>1, SeenGrows
  <1>4. IsFiniteSet(Ahead(next))
    BY <1>2, <1>3, FS_Subset
  <1>5. Ahead(next) \in SUBSET Int
    BY <1>3
  <1> QED BY <1>4, <1>5

LEMMA NamesAhead ==
    ASSUME TypeOK, NEW next \in i .. Len(s) + 1
    PROVE  \E N :
            /\ NamesOf(s, Ahead(next)) =
                    [n \in 1 .. N |-> trim(NameAt(s, Listing(Ahead(next))[n]))]
            /\ \A n \in 1 .. N : Listing(Ahead(next))[n] \in Ahead(next)
            /\ \A p \in Ahead(next) : \E n \in 1 .. N :
                    NamesOf(s, Ahead(next))[n] = trim(NameAt(s, p))
            /\ NamesOf(s, Ahead(next)) = <<>> <=> Ahead(next) = {}
  <1>1. IsFiniteSet(Ahead(next)) /\ Ahead(next) \in SUBSET Int
    BY AheadFinite
  <1> QED BY <1>1, NamesOfIs

LEMMA GroupsGrow ==
    ASSUME TypeOK, NEW next \in i .. Len(s) + 1,
           NEW k \in Nat, i <= k, \A p \in Ahead(next) : GroupOf(s, p) = k
    PROVE  GroupsOf(s, Seen \cup Ahead(next)) =
                GroupsOf(s, Seen) \o into_option(NamesOf(s, Ahead(next)))
  <1>1. PICK N \in Nat : N = Len(s)
    BY SLength
  <1>2. Seen \subseteq 1 .. N /\ Ahead(next) \subseteq 1 .. N
    BY <1>1, SeenGrows
  <1>3. IsFiniteSet(Ahead(next)) /\ Ahead(next) \in SUBSET Int
    BY AheadFinite
  <1>4. CASE Ahead(next) = {}
    <2>1. into_option(NamesOf(s, Ahead(next))) = <<>>
      BY <1>3, <1>4, NamesOfIs DEF into_option
    <2>2. PICK X : GroupsOf(s, Seen) \in Seq(X)
      BY <1>2, GroupsOfSeq
    <2>3. GroupsOf(s, Seen) \o <<>> = GroupsOf(s, Seen)
      BY <2>2, ConcatEmptySeq
    <2>4. Seen \cup Ahead(next) = Seen
      BY <1>4
    <2> QED BY <2>1, <2>3, <2>4
  <1>5. CASE Ahead(next) # {}
    <2>1. into_option(NamesOf(s, Ahead(next))) = <<NamesOf(s, Ahead(next))>>
      BY <1>3, <1>5, NamesOfIs DEF into_option
    <2>2. \A p \in Seen : GroupOf(s, p) < k
      <3> SUFFICES ASSUME NEW p \in Seen PROVE GroupOf(s, p) < k
        OBVIOUS
      <3>1. p \in 1 .. N /\ p < i
        BY <1>2 DEF Seen
      <3>2. GroupOf(s, p) \in 1 .. p
        BY <3>1, GroupOfType
      <3>3. i \in Nat
        BY SLength
      <3> QED BY <3>1, <3>2, <3>3
    <2>3. PICK P : P = Seen
      OBVIOUS
    <2>4. PICK Q : Q = Ahead(next)
      OBVIOUS
    <2>5. /\ P \in SUBSET (1 .. N) /\ Q \in SUBSET (1 .. N) /\ Q # {}
          /\ \A p \in Q : GroupOf(s, p) = k
          /\ \A p \in P : GroupOf(s, p) < k
      BY <2>2, <2>3, <2>4, <1>2, <1>5
    <2>6. GroupsOf(s, P \cup Q) = GroupsOf(s, P) \o <<NamesOf(s, Q)>>
      BY <2>5, <1>1, GroupsWith
    <2> QED BY <2>1, <2>3, <2>4, <2>6
  <1> QED BY <1>4, <1>5

Parsing == result = "parsing"

LEMMA Turn ==
    ASSUME IInv, Parsing, NEW next \in i .. Len(s) + 1,
           \/ next > Len(s)
           \/ Opener(s, next) = {} /\ (Structural(s, next - 1) \/ Structural(s, next)),
           NEW k \in Nat, i <= k, \A p \in Ahead(next) : GroupOf(s, p) = k,
           from_pfm_string(NamesOf(s, Ahead(next))), s' = s, i' = next
    PROVE  IInv'
  <1>0. TypeOK
    BY DEF IInv
  <1>1. Len(s) \in Nat /\ i \in Nat \ {0} /\ s \in Seq(Chars)
    BY <1>0, SLength
  <1>2. PICK Q : Q = Ahead(next)
    OBVIOUS
  <1>3. PICK events : events = NamesOf(s, Q)
    OBVIOUS
  <1>4. Q \subseteq Starts(s)
    BY <1>2 DEF Ahead
  <1>5. PICK N : /\ events = [n \in 1 .. N |-> trim(NameAt(s, Listing(Q)[n]))]
                 /\ \A n \in 1 .. N : Listing(Q)[n] \in Q
                 /\ \A p \in Q : \E n \in 1 .. N : events[n] = trim(NameAt(s, p))
                 /\ events = <<>> <=> Q = {}
    BY <1>0, <1>2, <1>3, NamesAhead
  <1>6. (\E n \in DOMAIN events : ~Encodes(events[n])) <=> Unknown(Q)
    <2>1. ASSUME NEW n \in DOMAIN events, ~Encodes(events[n])
          PROVE  Unknown(Q)
      <3>1. n \in 1 .. N /\ events[n] = trim(NameAt(s, Listing(Q)[n])) /\ Listing(Q)[n] \in Q
        BY <1>5
      <3> QED BY <3>1, <2>1 DEF Unknown
    <2>2. ASSUME Unknown(Q)
          PROVE  \E n \in DOMAIN events : ~Encodes(events[n])
      <3>1. PICK p \in Q : ~Encodes(trim(NameAt(s, p)))
        BY <2>2 DEF Unknown
      <3>2. PICK n \in 1 .. N : events[n] = trim(NameAt(s, p))
        BY <1>5
      <3>3. DOMAIN events = 1 .. N
        BY <1>5
      <3> QED BY <3>1, <3>2, <3>3
    <2> QED BY <2>1, <2>2
  <1>7. from_pfm_string(events)
    BY <1>2, <1>3
  <1>8. Seen' = Seen \cup Q
    <2>1. {p \in Starts(s) : p < next} = Seen \cup Ahead(next)
      BY <1>0, SeenGrows
    <2> QED BY <2>1, <1>2 DEF Seen
  <1>9. \A P : Unknown(P)' <=> \E p \in P : ~Encodes(trim(NameAt(s, p)))
    BY DEF Unknown
  <1>10. TypeOK' /\ AtBoundary'
    <2>1. i' \in 1 .. Len(s') + 1
      BY <1>1
    <2>2. result' \in {"parsing", "ok", "error"}
      BY <1>7 DEF from_pfm_string, Parsing
    <2>3. AtBoundary'
      BY DEF AtBoundary
    <2> QED BY <2>1, <2>2, <2>3, <1>1 DEF TypeOK
  <1>11. CASE events # <<>> /\ (pfm' = "broken" \/ \E n \in DOMAIN events : ~Encodes(events[n]))
    <2>1. result' = "error"
      BY <1>7, <1>11 DEF from_pfm_string
    <2>2. pfm' = "broken" \/ \E p \in Starts(s) : ~Encodes(trim(NameAt(s, p)))
      BY <1>4, <1>6, <1>11 DEF Unknown
    <2>3. ParsesAsGrouped'
      BY <2>1, <2>2 DEF ParsesAsGrouped
    <2>4. ParsedSoFar'
      BY <2>1 DEF ParsedSoFar
    <2> QED BY <2>3, <2>4, <1>10 DEF IInv
  <1>12. CASE ~(events # <<>> /\ (pfm' = "broken" \/ \E n \in DOMAIN events : ~Encodes(events[n])))
    <2>1. result' = "parsing" /\ groups' = groups \o into_option(events)
      BY <1>7, <1>12 DEF from_pfm_string, Parsing
    <2>2. ~Unknown(Q)
      <3>1. CASE events = <<>>
        BY <3>1, <1>5 DEF Unknown
      <3>2. CASE events # <<>>
        BY <3>2, <1>6, <1>12
      <3> QED BY <3>1, <3>2
    <2>3. groups = GroupsOf(s, Seen) /\ ~Unknown(Seen)
      BY DEF IInv, ParsedSoFar, Parsing
    <2>4. groups' = GroupsOf(s, Seen \cup Q)
      BY <2>1, <2>3, <1>0, <1>2, <1>3, GroupsGrow
    <2>5. groups' = GroupsOf(s', Seen')
      BY <2>4, <1>8
    <2>6. ~Unknown(Seen)'
      <3>1. ~\E p \in Seen \cup Q : ~Encodes(trim(NameAt(s, p)))
        BY <2>2, <2>3 DEF Unknown
      <3> QED BY <3>1, <1>8 DEF Unknown
    <2>7. ParsedSoFar'
      BY <2>5, <2>6 DEF ParsedSoFar
    <2>8. ParsesAsGrouped'
      BY <2>1 DEF ParsesAsGrouped
    <2> QED BY <2>7, <2>8, <1>10 DEF IInv
  <1> QED BY <1>11, <1>12

-----------------------------------------------------------------------------
(* The theorems.                                                           *)

LEMMA InitIInv ==
    ASSUME Init
    PROVE  IInv
  <1>1. PICK n \in 0 .. MaxLen : s \in [1 .. n -> Chars]
    BY DEF Init, Texts
  <1>2. s \in Seq(Chars) /\ i = 1 /\ groups = <<>>
    BY <1>1, ParseAssumption DEF Init
  <1>3. Len(s) \in Nat
    BY <1>2, LenProperties
  <1>4. TypeOK
    <2>1. i \in 1 .. Len(s) + 1
      BY <1>2, <1>3
    <2> QED BY <2>1, <1>2 DEF TypeOK, Init
  <1>5. AtBoundary
    <2>1. Open(s, 1) = {}
      BY DEF Open
    <2> QED BY <2>1, <1>2, OpenerIs DEF AtBoundary
  <1>6. Seen = {}
    <2>1. \A p \in Starts(s) : p \in 1 .. Len(s)
      BY <1>4, StartsIn
    <2>2. \A p \in Starts(s) : ~(p < 1)
      BY <2>1, <1>3
    <2> QED BY <2>2, <1>2 DEF Seen
  <1>7. GroupsOf(s, {}) = <<>>
    <2>1. {GroupOf(s, p) : p \in {}} = {}
      OBVIOUS
    <2>2. Cardinality({}) = 0 /\ IsFiniteSet({}) /\ {} \subseteq Int
      BY FS_EmptySet
    <2>3. PICK f : f = Listing({})
      OBVIOUS
    <2>4. f \in [1 .. 0 -> {}]
      BY <2>2, <2>3, ListingOf
    <2>5. DOMAIN f = {}
      BY <2>4
    <2>6. GroupsOf(s, {}) = [g \in DOMAIN f |-> NamesOf(s, {p \in {} : GroupOf(s, p) = f[g]})]
      BY <2>1, <2>3 DEF GroupsOf
    <2>7. [g \in {} |-> NamesOf(s, {p \in {} : GroupOf(s, p) = f[g]})] = <<>>
      OBVIOUS
    <2> QED BY <2>5, <2>6, <2>7
  <1>8. ParsedSoFar
    BY <1>2, <1>6, <1>7 DEF ParsedSoFar, Unknown
  <1>9. ParsesAsGrouped
    BY DEF ParsesAsGrouped, Init
  <1> QED BY <1>4, <1>5, <1>8, <1>9 DEF IInv

LEMMA BracketedStep ==
    ASSUME IInv, Bracketed
    PROVE  IInv' /\ i < i' /\ i' <= Len(s) + 1
  <1>1. TypeOK /\ AtBoundary
    BY DEF IInv
  <1>2. Parsing /\ Start <= Len(s) /\ s[Start] = "[" /\ s' = s
    BY DEF Bracketed, Parsing
  <1>3. PICK close : /\ close = ScanTo(Start + 1, Len(s) + 1, {"]"})
                     /\ i' = IF close <= Len(s) THEN close + 1 ELSE close
                     /\ from_pfm_string(SplitEvents(Start + 1, close))
    BY DEF Bracketed
  <1>4. PICK next : next = IF close <= Len(s) THEN close + 1 ELSE close
    OBVIOUS
  <1>5. /\ next \in Start + 1 .. Len(s) + 1
        /\ next > Len(s) \/ (Opener(s, next) = {} /\ Structural(s, next - 1))
        /\ \A p \in Ahead(next) : GroupOf(s, p) = Start
        /\ SplitEvents(Start + 1, close) = NamesOf(s, Ahead(next))
    BY <1>1, <1>2, <1>3, <1>4, BracketedTurn
  <1>6. Start \in Nat /\ i <= Start /\ Len(s) \in Nat /\ i \in Nat
    BY <1>1, SLength, StartFacts
  <1>7. next \in i .. Len(s) + 1 /\ i < next /\ next <= Len(s) + 1
    BY <1>5, <1>6
  <1>8. i' = next /\ from_pfm_string(NamesOf(s, Ahead(next)))
    BY <1>3, <1>4, <1>5
  <1>9. IInv'
    BY <1>2, <1>5, <1>6, <1>7, <1>8, Turn
  <1> QED BY <1>7, <1>8, <1>9

LEMMA SingleStep ==
    ASSUME IInv, Single
    PROVE  IInv' /\ i < i' /\ i' <= Len(s) + 1
  <1>1. TypeOK /\ AtBoundary
    BY DEF IInv
  <1>2. Parsing /\ Start <= Len(s) /\ ~Bracket(Start) /\ s' = s
    BY DEF Single, Parsing, Bracket
  <1>3. PICK e : e = ScanTo(Start, Len(s) + 1, NameStops)
    OBVIOUS
  <1>4. PICK name : name = trim(SubSeq(s, Start, e - 1))
    OBVIOUS
  <1>5. i' = e /\ from_pfm_string(IF name = <<>> THEN <<>> ELSE <<name>>)
    BY <1>3, <1>4 DEF Single, NameStops
  <1>6. /\ e \in Start + 1 .. Len(s) + 1
        /\ e > Len(s) \/ (Opener(s, e) = {} /\ Structural(s, e))
    BY <1>1, <1>2, <1>3, SingleTurn
  <1>7. PICK b \in i .. Start :
            /\ Ahead(e) = {b} /\ GroupOf(s, b) = b
            /\ name = trim(NameAt(s, b))
            /\ name # <<>>
    BY <1>1, <1>2, <1>3, <1>4, SingleTurn
  <1>8. Start \in Nat /\ i <= Start /\ Len(s) \in Nat /\ i \in Nat
    BY <1>1, SLength, StartFacts
  <1>9. e \in i .. Len(s) + 1 /\ i < e /\ e <= Len(s) + 1 /\ b \in Nat /\ i <= b /\ b \in Int
    BY <1>6, <1>7, <1>8
  <1>10. NamesOf(s, {b}) = <<name>>
    <2>1. {b} \subseteq Int /\ IsFiniteSet({b}) /\ Cardinality({b}) = 1
      BY <1>9, FS_Singleton
    <2>2. PICK f : f = Listing({b})
      OBVIOUS
    <2>3. f \in [1 .. 1 -> {b}]
      BY <2>1, <2>2, ListingOf
    <2>4. DOMAIN f = 1 .. 1 /\ f[1] = b
      BY <2>3
    <2>5. NamesOf(s, {b}) = [n \in 1 .. 1 |-> trim(NameAt(s, f[n]))]
      BY <2>2, <2>4 DEF NamesOf
    <2>6. \A n \in 1 .. 1 : trim(NameAt(s, f[n])) = name
      BY <2>4, <1>7
    <2>7. NamesOf(s, {b}) = [n \in 1 .. 1 |-> name]
      BY <2>5, <2>6
    <2>8. <<name>> = [n \in 1 .. 1 |-> name]
      OBVIOUS
    <2> QED BY <2>7, <2>8
  <1>11. from_pfm_string(NamesOf(s, Ahead(e)))
    BY <1>5, <1>7, <1>10
  <1>12. \A p \in Ahead(e) : GroupOf(s, p) = b
    BY <1>7
  <1>13. IInv'
    BY <1>2, <1>5, <1>6, <1>9, <1>11, <1>12, Turn
  <1> QED BY <1>5, <1>9, <1>13

LEMMA EndStep ==
    ASSUME IInv, End
    PROVE  IInv' /\ result' = "ok"
  <1>1. TypeOK /\ AtBoundary
    BY DEF IInv
  <1>2. Start > Len(s) /\ result' = "ok" /\ UNCHANGED <<s, i, groups, pfm>>
    BY DEF End
  <1>3. Seen = Starts(s)
    BY <1>1, <1>2, EndSeen
  <1>4. groups = Grouped(s) /\ ~Unknown(Starts(s))
    BY <1>3 DEF IInv, ParsedSoFar, End, Grouped
  <1>5. ParsesAsGrouped'
    BY <1>2, <1>4 DEF ParsesAsGrouped, Unknown
  <1>6. TypeOK' /\ AtBoundary' /\ ParsedSoFar'
    BY <1>1, <1>2 DEF TypeOK, AtBoundary, ParsedSoFar
  <1> QED BY <1>2, <1>5, <1>6 DEF IInv

LEMMA NextIInv ==
    ASSUME IInv, [Next]_vars
    PROVE  IInv'
  <1>1. CASE Bracketed
    BY <1>1, BracketedStep
  <1>2. CASE Single
    BY <1>2, SingleStep
  <1>3. CASE End
    BY <1>3, EndStep
  <1>4. CASE UNCHANGED vars
    <2>1. s' = s /\ i' = i /\ groups' = groups /\ pfm' = pfm /\ result' = result
      BY <1>4 DEF vars
    <2>2. TypeOK' /\ AtBoundary'
      BY <2>1 DEF IInv, TypeOK, AtBoundary
    <2>3. ParsedSoFar'
      BY <2>1 DEF IInv, ParsedSoFar, Seen, Unknown
    <2>4. ParsesAsGrouped'
      BY <2>1 DEF IInv, ParsesAsGrouped
    <2> QED BY <2>2, <2>3, <2>4 DEF IInv
  <1> QED BY <1>1, <1>2, <1>3, <1>4 DEF Next

\* What is parsed is what the text stands for, and a text is refused only for
\* an event that cannot be encoded, whatever its length (parse_perf.rs:38-93).
THEOREM TextParsesAsGrouped == Spec => []ParsesAsGrouped
  <1>1. Init => IInv
    BY InitIInv
  <1>2. IInv /\ [Next]_vars => IInv'
    BY NextIInv
  <1>3. IInv => ParsesAsGrouped
    BY DEF IInv
  <1> QED BY <1>1, <1>2, <1>3, PTL DEF Spec

\* Until then the groups so far are those of the names before the parser, and
\* it never reads past the end of the text (parse_perf.rs:45-89).
THEOREM ParsedPrefix == Spec => [](TypeOK /\ ParsedSoFar)
  <1>1. Init => IInv
    BY InitIInv
  <1>2. IInv /\ [Next]_vars => IInv'
    BY NextIInv
  <1>3. IInv => TypeOK /\ ParsedSoFar
    BY DEF IInv
  <1> QED BY <1>1, <1>2, <1>3, PTL DEF Spec

\* Every turn moves on in the text or ends the parsing: there are at most
\* as many turns as characters, and one (parse_perf.rs:45-89).
THEOREM TurnsMoveOn ==
    Spec => [][(i < i' /\ i' <= Len(s) + 1) \/ result' = "ok"]_vars
  <1>1. Init => IInv
    BY InitIInv
  <1>2. IInv /\ [Next]_vars => IInv'
    BY NextIInv
  <1>3. IInv /\ [Next]_vars => [(i < i' /\ i' <= Len(s) + 1) \/ result' = "ok"]_vars
    BY BracketedStep, SingleStep, EndStep DEF Next
  <1> QED BY <1>1, <1>2, <1>3, PTL DEF Spec
=============================================================================

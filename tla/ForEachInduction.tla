-------------------------- MODULE ForEachInduction --------------------------
(***************************************************************************)
(* Loop invariants for ForEach (VlrRepair): a loop over a finite set of     *)
(* numbers in ascending order.  The body Op is a parameter, with the local *)
(* variables a .. e of the handler it stands in; so is the invariant Inv,   *)
(* which also knows the set of numbers done.                               *)
(***************************************************************************)
EXTENDS Integers, FiniteSetsExt, FiniteSetTheorems, WellFoundedInduction, TLAPS

CONSTANTS Op(_, _, _, _, _, _, _), Inv(_, _, _, _, _, _, _)

Loop(a, b, c, d, e, s, ps) ==
  LET do[T \in SUBSET ps] ==
        IF T = {} THEN s ELSE Op(a, b, c, d, e, do[T \ {Max(T)}], Max(T))
  IN  do[ps]

-----------------------------------------------------------------------------
LEMMA NatMin ==
  ASSUME NEW S \in SUBSET Nat, S # {}
  PROVE  \E x \in S : \A y \in S : x <= y
<1>1. PICK x \in S : \A y \in S : ~(<<y, x>> \in OpToRel(<, Nat))
  BY NatLessThanWellFounded, WFMin
<1>2. ASSUME NEW y \in S, y < x
      PROVE  FALSE
  <2> DEFINE ss == <<y, x>>
  <2>1. ss \in Nat \X Nat /\ ss[1] < ss[2]
    BY <1>2
  <2>2. ss \in OpToRel(<, Nat)
    BY <2>1, Zenon DEF OpToRel
  <2> QED BY <1>1, <2>2
<1> QED BY <1>2

\* what holds of 0 and is handed on holds of all numbers
LEMMA NatInd ==
  ASSUME NEW S \in SUBSET Nat, 0 \in S, \A k \in S : k + 1 \in S
  PROVE  S = Nat
<1> SUFFICES ASSUME Nat \ S # {} PROVE FALSE
  OBVIOUS
<1>1. PICK x \in Nat \ S : \A y \in Nat \ S : x <= y
  BY NatMin
<1>2. x - 1 \in Nat /\ x - 1 \in S
  BY <1>1
<1> QED BY <1>1, <1>2

\* A finite set of numbers has a greatest one.
LEMMA MaxOfFinite ==
  ASSUME NEW ps \in SUBSET Nat, IsFiniteSet(ps), ps # {}
  PROVE  Max(ps) \in ps /\ \A y \in ps : Max(ps) >= y
<1> DEFINE Has(T) == \E x \in T : \A y \in T : x >= y
           K == {k \in Nat : \A T \in SUBSET Nat :
                   IsFiniteSet(T) /\ T # {} /\ Cardinality(T) <= k => Has(T)}
<1>1. 0 \in K
  BY FS_EmptySet, FS_CardinalityType
<1>2. ASSUME NEW k \in K
      PROVE  k + 1 \in K
  <2> SUFFICES ASSUME NEW T \in SUBSET Nat, IsFiniteSet(T), T # {}, Cardinality(T) <= k + 1
               PROVE  Has(T)
    OBVIOUS
  <2>1. PICK x \in T : TRUE
    OBVIOUS
  <2>2. IsFiniteSet(T \ {x}) /\ Cardinality(T \ {x}) <= k
    <3>1. IsFiniteSet(T \ {x}) /\ Cardinality(T \ {x}) = Cardinality(T) - 1
      BY <2>1, FS_RemoveElement
    <3>2. Cardinality(T) \in Nat
      BY FS_CardinalityType
    <3> QED BY <3>1, <3>2
  <2>3. CASE T \ {x} = {}
    BY <2>1, <2>3
  <2>4. CASE T \ {x} # {}
    <3>1. PICK z \in T \ {x} : \A y \in T \ {x} : z >= y
      BY <2>2, <2>4
    <3>2. CASE z >= x
      BY <3>1, <3>2
    <3>3. CASE ~(z >= x)
      <4>1. \A y \in T : x >= y
        BY <2>1, <3>1, <3>3
      <4> QED BY <2>1, <4>1
    <3> QED BY <3>2, <3>3
  <2> QED BY <2>3, <2>4
<1>3. K = Nat
  <2> HIDE DEF K
  <2> QED BY <1>1, <1>2, NatInd, K \subseteq Nat DEF K
<1>4. Cardinality(ps) \in Nat
  BY FS_CardinalityType
<1>5. Has(ps)
  BY <1>3, <1>4
<1> QED BY <1>5 DEF Max

-----------------------------------------------------------------------------
(* An invariant that holds before the loop, and that each round keeps, holds *)
(* after it.                                                               *)
THEOREM LoopKeeps ==
  ASSUME NEW a, NEW b, NEW c, NEW d, NEW e, NEW s,
         NEW ps \in SUBSET Nat, IsFiniteSet(ps),
         Inv(a, b, c, d, e, {}, s),
         \A T \in SUBSET ps : \A p \in ps \ T : \A t :
           Inv(a, b, c, d, e, T, t) => Inv(a, b, c, d, e, T \cup {p}, Op(a, b, c, d, e, t, p))
  PROVE  Inv(a, b, c, d, e, ps, Loop(a, b, c, d, e, s, ps))
<1> DEFINE Body(f, T) == IF T = {} THEN s ELSE Op(a, b, c, d, e, f[T \ {Max(T)}], Max(T))
           Of(k)  == {T \in SUBSET ps : Cardinality(T) <= k}
           Is(f, A) == f = [T \in A |-> Body(f, T)]
           do     == CHOOSE f : f = [T \in SUBSET ps |->
                       IF T = {} THEN s ELSE Op(a, b, c, d, e, f[T \ {Max(T)}], Max(T))]
<1>1. \A T \in SUBSET ps : /\ IsFiniteSet(T) /\ Cardinality(T) \in Nat
                           /\ Cardinality(T) <= Cardinality(ps)
                           /\ T # {} => /\ Max(T) \in T
                                        /\ T \ {Max(T)} \in SUBSET ps
                                        /\ Cardinality(T \ {Max(T)}) = Cardinality(T) - 1
  <2> SUFFICES ASSUME NEW T \in SUBSET ps
               PROVE  /\ IsFiniteSet(T) /\ Cardinality(T) \in Nat
                      /\ Cardinality(T) <= Cardinality(ps)
                      /\ T # {} => /\ Max(T) \in T
                                   /\ T \ {Max(T)} \in SUBSET ps
                                   /\ Cardinality(T \ {Max(T)}) = Cardinality(T) - 1
    OBVIOUS
  <2>1. IsFiniteSet(T) /\ Cardinality(T) \in Nat /\ Cardinality(T) <= Cardinality(ps)
    BY FS_Subset, FS_CardinalityType
  <2>2. T # {} => Max(T) \in T
    BY <2>1, MaxOfFinite
  <2> QED BY <2>1, <2>2, FS_RemoveElement
<1>a. Of(0) = {{}}
  <2>1. \A T \in SUBSET ps : IsFiniteSet(T) => (Cardinality(T) = 0 <=> T = {})
    BY FS_EmptySet
  <2>3. \A T \in SUBSET ps : IsFiniteSet(T) /\ Cardinality(T) \in Nat
    BY <1>1
  <2>2. \A T \in SUBSET ps : Cardinality(T) <= 0 <=> T = {}
    BY <2>3, <2>1
  <2> QED BY <2>2
<1>b. Of(Cardinality(ps)) = SUBSET ps /\ Cardinality(ps) \in Nat
  BY <1>1
<1>c. \A k \in Nat : \A T \in Of(k + 1) :
        T \in SUBSET ps /\ (T # {} => T \ {Max(T)} \in Of(k) /\ T \ {Max(T)} \in Of(k + 1))
  <2> SUFFICES ASSUME NEW k \in Nat, NEW T \in Of(k + 1), T # {}
               PROVE  T \ {Max(T)} \in Of(k) /\ T \ {Max(T)} \in Of(k + 1)
    OBVIOUS
  <2>1. T \in SUBSET ps /\ Cardinality(T) <= k + 1
    OBVIOUS
  <2>2. /\ Cardinality(T) \in Nat /\ T \ {Max(T)} \in SUBSET ps
        /\ Cardinality(T \ {Max(T)}) = Cardinality(T) - 1
    BY <1>1, <2>1
  <2> QED BY <2>1, <2>2
<1> HIDE DEF Of
<1>2. \E f : Is(f, SUBSET ps)
  <2> DEFINE K == {k \in Nat : \E f : Is(f, Of(k))}
  <2>1. 0 \in K
    <3> DEFINE g == [T \in Of(0) |-> s]
    <3>2. Is(g, Of(0))
      BY <1>a
    <3> QED BY <3>2
  <2>2. ASSUME NEW k \in K
        PROVE  k + 1 \in K
    <3>1. PICK f : Is(f, Of(k))
      OBVIOUS
    <3> DEFINE g == [T \in Of(k + 1) |-> IF T \in Of(k) THEN f[T] ELSE Body(f, T)]
    <3>2. \A T \in Of(k + 1) : T # {} => T \ {Max(T)} \in Of(k) /\ T \ {Max(T)} \in Of(k + 1)
      BY <1>c
    <3>3. ASSUME NEW T \in Of(k + 1)
          PROVE  g[T] = Body(g, T)
      <4>1. g[T] = Body(f, T)
        BY <3>1
      <4>2. T # {} => g[T \ {Max(T)}] = f[T \ {Max(T)}]
        BY <3>2
      <4> QED BY <4>1, <4>2
    <3>4. Is(g, Of(k + 1))
      BY <3>3
    <3> HIDE DEF g
    <3>5. k + 1 \in Nat
      OBVIOUS
    <3> QED BY <3>4, <3>5
  <2>3. K = Nat
    <3> HIDE DEF K
    <3> QED BY <2>1, <2>2, NatInd, K \subseteq Nat DEF K
  <2>4. Cardinality(ps) \in K
    BY <1>b, <2>3
  <2>5. PICK f : Is(f, Of(Cardinality(ps)))
    BY <2>4
  <2> QED BY <1>b, <2>5
<1>3. do = [T \in SUBSET ps |-> Body(do, T)]
  BY <1>2
<1>4. Loop(a, b, c, d, e, s, ps) = do[ps]
  BY DEF Loop
<1> HIDE DEF do
<1>5. \A T \in SUBSET ps : Inv(a, b, c, d, e, T, do[T])
  <2> DEFINE K == {k \in Nat : \A T \in Of(k) : Inv(a, b, c, d, e, T, do[T])}
  <2>1. 0 \in K
    <3>1. do[{}] = s
      BY <1>3
    <3> QED BY <1>a, <3>1
  <2>2. ASSUME NEW k \in K
        PROVE  k + 1 \in K
    <3> SUFFICES ASSUME NEW T \in Of(k + 1)
                 PROVE  Inv(a, b, c, d, e, T, do[T])
      OBVIOUS
    <3>1. CASE T = {}
      <4>1. do[T] = s
        BY <1>3, <3>1
      <4> QED BY <3>1, <4>1
    <3>2. CASE T # {}
      <4> DEFINE p == Max(T)
                 U == T \ {p}
      <4>1. p \in ps /\ p \notin U /\ T = U \cup {p} /\ U \in Of(k) /\ U \in SUBSET ps
        <5>1. T \in SUBSET ps /\ k \in Nat
          BY <1>c
        <5>2. p \in T
          BY <1>1, <3>2, <5>1
        <5>3. U \in Of(k)
          BY <1>c, <3>2
        <5> QED BY <5>1, <5>2, <5>3
      <4>2. do[T] = Op(a, b, c, d, e, do[U], p)
        BY <1>3, <1>c, <3>2
      <4>3. Inv(a, b, c, d, e, U, do[U])
        BY <4>1
      <4> HIDE DEF p, U
      <4>4. Inv(a, b, c, d, e, U \cup {p}, Op(a, b, c, d, e, do[U], p))
        BY <4>1, <4>3
      <4> QED BY <4>1, <4>2, <4>4
    <3> QED BY <3>1, <3>2
  <2>3. K = Nat
    <3> HIDE DEF K
    <3> QED BY <2>1, <2>2, NatInd, K \subseteq Nat DEF K
  <2>4. SUBSET ps = Of(Cardinality(ps)) /\ Cardinality(ps) \in K
    BY <1>b, <2>3
  <2> QED BY <2>4
<1> QED BY <1>4, <1>5
============================================================================

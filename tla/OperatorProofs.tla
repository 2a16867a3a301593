--------------------------- MODULE OperatorProofs ---------------------------
(***************************************************************************)
(* Lemmas about the operators of modules Schema, BlsHelpers and Verifier:  *)
(* sums over finite sets; what the loops of the container take from a set  *)
(* of keys, and that the lists they build have what the rule asks for,     *)
(* for every finite set of trusted keys and every rule; and what the loops *)
(* over keys and pieces add up to.                                         *)
(***************************************************************************)
EXTENDS Verifier, SequenceTheorems, FiniteSetTheorems, WellFoundedInduction, TLAPS

LEMMA MinOfTwo ==
    ASSUME NEW a \in Int, NEW b \in Int
    PROVE  Min({a, b}) = IF a <= b THEN a ELSE b
  BY DEF Min

(***************************************************************************)
(* What getAvailableSigners returns are trusted keys that are not cached   *)
(* as unavailable.                                                         *)
(***************************************************************************)
LEMMA AvailableSignersAreAvailable ==
    ASSUME NEW schema, NEW gone
    PROVE  GetAvailableSigners(schema, gone) \in SUBSET (TrustedIds \ gone)
  BY DEF GetAvailableSigners, First, GetMatchedKeys, Matching

(***************************************************************************)
(* findANewKeyForPattern returns a trusted key that is neither cached as   *)
(* unavailable nor in the set already.                                     *)
(***************************************************************************)
LEMMA NewKeyIsNew ==
    ASSUME NEW existing, NEW pattern, NEW gone
    PROVE  NewKeyForPattern(existing, pattern, gone)
               \in SUBSET (TrustedIds \ (gone \cup existing))
  BY DEF NewKeyForPattern, First, GetMatchedKeys, Matching

(***************************************************************************)
(* What replaceSigner returns: nothing, or the old list without the lost   *)
(* key and with new keys, none of which was in it or is unavailable.       *)
(***************************************************************************)
Substitutes(r, list, key, gone) ==
    /\ r.diff \in SUBSET (TrustedIds \ (gone \cup (list \ {key})))
    /\ r.signers \in SUBSET TrustedIds
    /\ r.signers # {} => r.signers = (list \ {key}) \cup r.diff

LEMMA ReplacementIsFresh ==
    ASSUME NEW list \in SUBSET TrustedIds, NEW key, NEW schema, NEW gone,
           NEW r \in ReplaceSigner(list, key, schema, gone)
    PROVE  Substitutes(r, list, key, gone)
  <1> DEFINE kept == list \ {key}
  <1>1. PICK added \in Additions(schema.required) :
           /\ RequiredLoop(kept, added, key, schema.required, gone)
           /\ r = Replacement(kept, added, key, schema, gone)
    BY DEF ReplaceSigner
  <1> DEFINE required == UNION {added[i] : i \in DOMAIN schema.required}
             optional == OptionalReplacement(kept \cup required, schema.optional, gone)
  <1>2. required \in SUBSET (TrustedIds \ (gone \cup kept))
    <2> SUFFICES ASSUME NEW i \in DOMAIN schema.required, NEW k \in added[i]
                 PROVE  k \in TrustedIds \ (gone \cup kept)
      OBVIOUS
    <2>1. k \in NewKeyForPattern(Before(kept, added, i), schema.required[i], gone)
      BY <1>1 DEF RequiredLoop
    <2>2. k \in TrustedIds \ (gone \cup Before(kept, added, i))
      BY <2>1, NewKeyIsNew
    <2> QED  BY <2>2 DEF Before
  <1>3. optional \in SUBSET (TrustedIds \ (gone \cup kept \cup required))
    BY NewKeyIsNew DEF OptionalReplacement
  <1>4. r = NoReplacement \/ r = [signers |-> kept \cup required \cup optional,
                                  diff    |-> required \cup optional]
    BY <1>1 DEF Replacement
  <1>5. CASE r = NoReplacement
    BY <1>5 DEF NoReplacement, Substitutes
  <1>6. CASE r = [signers |-> kept \cup required \cup optional,
                  diff    |-> required \cup optional]
    <2> HIDE DEF required, optional
    <2>1. r.signers = kept \cup required \cup optional /\ r.diff = required \cup optional
      BY <1>6
    <2> QED  BY <2>1, <1>2, <1>3 DEF Substitutes
  <1> QED  BY <1>4, <1>5, <1>6

-----------------------------------------------------------------------------
(***************************************************************************)
(* Sums over finite sets.  An induction over a finite set is a search for  *)
(* a smallest subset that is not Good.                                     *)
(***************************************************************************)
LEMMA SubsetInduction ==
    ASSUME NEW S, IsFiniteSet(S), NEW Good,
           \A T \in SUBSET S :
               (\A U \in SUBSET T : U # T => U \in Good) => T \in Good
    PROVE  SUBSET S \subseteq Good
  <1> DEFINE Bad == (SUBSET S) \ Good
  <1> SUFFICES ASSUME Bad # {} PROVE FALSE
    OBVIOUS
  <1>1. Bad \subseteq FiniteSubsetsOf(S)
    BY FS_Subset DEF FiniteSubsetsOf
  <1>2. PICK T \in Bad : \A U \in Bad : <<U, T>> \notin StrictSubsetOrdering(S)
    <2> HIDE DEF Bad
    <2> QED  BY <1>1, FS_StrictSubsetOrderingWellFounded, WFMin
  <1>3. ASSUME NEW U \in SUBSET T, U # T PROVE U \in Good
    BY <1>2, <1>3 DEF StrictSubsetOrdering
  <1> QED  BY <1>3

LEMMA IntervalInduction ==
    ASSUME NEW m \in Nat, NEW Good, 0 \in Good,
           \A n \in 1..m : n - 1 \in Good => n \in Good
    PROVE  0..m \subseteq Good
  <1> DEFINE I == 1..m
             Sets == {T \in SUBSET (1..m) : \A n \in 0..m : T = 1..n => n \in Good}
  <1>1. IsFiniteSet(1..m)
    BY FS_Interval
  <1>2. ASSUME NEW T \in SUBSET (1..m), \A U \in SUBSET T : U # T => U \in Sets
        PROVE  T \in Sets
    <2> SUFFICES ASSUME NEW n \in 0..m, T = 1..n PROVE n \in Good
      OBVIOUS
    <2>1. CASE n = 0
      BY <2>1
    <2>2. CASE n # 0
      <3>1. 1..(n - 1) \in SUBSET T /\ n \in T /\ n \notin 1..(n - 1) /\ n - 1 \in 0..m
        BY <2>2
      <3>2. 1..(n - 1) \in Sets
        <4> HIDE DEF Sets
        <4> QED  BY <1>2, <3>1
      <3>3. n - 1 \in Good
        BY <3>1, <3>2
      <3> QED  BY <2>2, <3>3
    <2> QED  BY <2>1, <2>2
  <1>3. SUBSET (1..m) \subseteq Sets
    <2>1. IsFiniteSet(I) /\ \A T \in SUBSET I : (\A U \in SUBSET T : U # T => U \in Sets) => T \in Sets
      <3> HIDE DEF Sets
      <3> QED  BY <1>1, <1>2
    <2>2. SUBSET I \subseteq Sets
      <3> HIDE DEF Sets, I
      <3> QED  BY <2>1, SubsetInduction
    <2> QED  BY <2>2
  <1> SUFFICES ASSUME NEW n \in 0..m PROVE n \in Good
    OBVIOUS
  <1>4. 1..n \in Sets
    <2>1. 1..n \in SUBSET (1..m)
      OBVIOUS
    <2> HIDE DEF Sets
    <2> QED  BY <1>3, <2>1
  <1> QED  BY <1>4

LEMMA LeastExists ==
    ASSUME NEW S \in SUBSET Nat, S # {}
    PROVE  \E x \in S : \A y \in S : x <= y
  <1> SUFFICES ASSUME \A x \in S : \E y \in S : y < x
               PROVE  FALSE
    OBVIOUS
  <1>1. PICK m \in Nat : m \in S
    OBVIOUS
  <1> DEFINE Good == {n \in 0..m : \A k \in 0..n : k \notin S}
  <1>2. 0 \in Good
    OBVIOUS
  <1>3. ASSUME NEW n \in 1..m, n - 1 \in Good PROVE n \in Good
    <2>1. \A k \in 0..(n - 1) : k \notin S
      BY <1>3
    <2>2. n \notin S
      BY <2>1
    <2>3. \A k \in 0..n : k \notin S
      BY <2>1, <2>2
    <2> QED  BY <2>3
  <1>4. 0..m \subseteq Good
    <2> HIDE DEF Good
    <2> QED  BY <1>2, <1>3, IntervalInduction
  <1> QED  BY <1>1, <1>4

Chosen(S) == CHOOSE x \in S : TRUE

LEMMA ChosenIsMember == \A S : S # {} => Chosen(S) \in S
  BY DEF Chosen

(* h gives for every subset of S the sum of g over it. *)
SumsUp(h, g, S) ==
    h = [T \in SUBSET S |-> IF T = {} THEN 0 ELSE g[Chosen(T)] + h[T \ {Chosen(T)}]]

Total(g, S) == MapThenSumSet(LAMBDA i : g[i], S)

LEMMA TotalUnfolded ==
    ASSUME NEW g, NEW S
    PROVE  Total(g, S) = (CHOOSE h : SumsUp(h, g, S))[S]
  BY DEF Total, MapThenSumSet, MapThenFoldSet, SumsUp, Chosen

LEMMA SumsUpAtSubset ==
    ASSUME NEW h, NEW g, NEW S, SumsUp(h, g, S), NEW T \in SUBSET S
    PROVE  /\ h[T] = IF T = {} THEN 0 ELSE g[Chosen(T)] + h[T \ {Chosen(T)}]
           /\ SumsUp([U \in SUBSET T |-> h[U]], g, T)
  <1>1. \A U \in SUBSET S :
            h[U] = IF U = {} THEN 0 ELSE g[Chosen(U)] + h[U \ {Chosen(U)}]
    <2> DEFINE e(U) == IF U = {} THEN 0 ELSE g[Chosen(U)] + h[U \ {Chosen(U)}]
    <2>1. h = [U \in SUBSET S |-> e(U)]
      BY DEF SumsUp
    <2> HIDE DEF e
    <2>2. \A U \in SUBSET S : h[U] = e(U)
      BY <2>1
    <2> QED  BY <2>2 DEF e
  <1>2. SumsUp([U \in SUBSET T |-> h[U]], g, T)
    <2> DEFINE k == [U \in SUBSET T |-> h[U]]
               f == [U \in SUBSET T |-> IF U = {} THEN 0 ELSE g[Chosen(U)] + k[U \ {Chosen(U)}]]
    <2>1. ASSUME NEW U \in SUBSET T PROVE k[U] = f[U]
      <3>1. k[U] = h[U] /\ k[U \ {Chosen(U)}] = h[U \ {Chosen(U)}]
        OBVIOUS
      <3>2. h[U] = IF U = {} THEN 0 ELSE g[Chosen(U)] + h[U \ {Chosen(U)}]
        BY <1>1
      <3>3. f[U] = IF U = {} THEN 0 ELSE g[Chosen(U)] + k[U \ {Chosen(U)}]
        OBVIOUS
      <3> HIDE DEF k, f
      <3> QED  BY <3>1, <3>2, <3>3
    <2>2. k = f
      <3>1. k = [U \in SUBSET T |-> k[U]] /\ f = [U \in SUBSET T |-> f[U]]
        OBVIOUS
      <3> HIDE DEF k, f
      <3> QED  BY <2>1, <3>1
    <2> QED  BY <2>2 DEF SumsUp
  <1> QED  BY <1>1, <1>2

LEMMA SumsUpHere ==
    ASSUME NEW h, NEW g, NEW S, SumsUp(h, g, S)
    PROVE  /\ S = {} => h[S] = 0
           /\ S # {} => h[S] = g[Chosen(S)] + h[S \ {Chosen(S)}]
  <1>1. S \in SUBSET S
    OBVIOUS
  <1>2. h[S] = IF S = {} THEN 0 ELSE g[Chosen(S)] + h[S \ {Chosen(S)}]
    BY <1>1, SumsUpAtSubset
  <1> QED  BY <1>2

LEMMA SumsUpUnique ==
    ASSUME NEW S, IsFiniteSet(S), NEW g, NEW h, NEW k, SumsUp(h, g, S), SumsUp(k, g, S)
    PROVE  h = k
  <1> DEFINE Good == {T \in SUBSET S : h[T] = k[T]}
  <1>1. ASSUME NEW T \in SUBSET S, \A U \in SUBSET T : U # T => U \in Good
        PROVE  T \in Good
    <2>1. h[T] = IF T = {} THEN 0 ELSE g[Chosen(T)] + h[T \ {Chosen(T)}]
      BY SumsUpAtSubset
    <2>4. k[T] = IF T = {} THEN 0 ELSE g[Chosen(T)] + k[T \ {Chosen(T)}]
      BY SumsUpAtSubset
    <2>2. T # {} => T \ {Chosen(T)} \in Good
      BY <1>1, ChosenIsMember
    <2>3. T # {} => h[T \ {Chosen(T)}] = k[T \ {Chosen(T)}]
      BY <2>2
    <2> QED  BY <2>1, <2>4, <2>3
  <1>2. SUBSET S \subseteq Good
    <2> HIDE DEF Good
    <2> QED  BY <1>1, SubsetInduction
  <1>3. \A T \in SUBSET S : h[T] = k[T]
    BY <1>2
  <1>4. h = [T \in SUBSET S |-> h[T]] /\ k = [T \in SUBSET S |-> k[T]]
    BY DEF SumsUp
  <1> QED  BY <1>3, <1>4

LEMMA SumsUpExists ==
    ASSUME NEW S, IsFiniteSet(S), NEW g
    PROVE  \E h : SumsUp(h, g, S)
  <1> DEFINE Good == {T \in SUBSET S : \E h : SumsUp(h, g, T)}
  <1>1. ASSUME NEW T \in SUBSET S, \A U \in SUBSET T : U # T => U \in Good
        PROVE  T \in Good
    <2> DEFINE of(U) == CHOOSE h : SumsUp(h, g, U)
               next(U) == IF U = {} THEN 0 ELSE g[Chosen(U)] + of(U \ {Chosen(U)})[U \ {Chosen(U)}]
               all == [U \in SUBSET T |-> next(U)]
    <2>1. ASSUME NEW U \in SUBSET T, U # T PROVE SumsUp(of(U), g, U)
      BY <1>1, <2>1
    <2>2. ASSUME NEW U \in SUBSET T, U # T PROVE of(U)[U] = next(U)
      <3>1. CASE U = {}
        BY <2>1, <2>2, <3>1, SumsUpHere
      <3>2. CASE U # {}
        <4> DEFINE V == U \ {Chosen(U)}
        <4>1. V \in SUBSET U /\ V \in SUBSET T /\ V # T /\ IsFiniteSet(V)
          BY <2>2, <3>2, ChosenIsMember, FS_Subset
        <4>2. SumsUp([W \in SUBSET V |-> of(U)[W]], g, V)
          <5> HIDE DEF of, V
          <5> QED  BY <2>1, <2>2, <4>1, SumsUpAtSubset
        <4>3. SumsUp(of(V), g, V)
          <5> HIDE DEF V, of
          <5> QED  BY <2>1, <4>1
        <4>4. of(V) = [W \in SUBSET V |-> of(U)[W]]
          <5> HIDE DEF V, of
          <5> QED  BY <4>1, <4>2, <4>3, SumsUpUnique
        <4>5. of(V)[V] = of(U)[V]
          <5> HIDE DEF V, of
          <5> QED  BY <4>4
        <4>6. of(U)[U] = IF U = {} THEN 0 ELSE g[Chosen(U)] + of(U)[V]
          <5> HIDE DEF of
          <5>1. SumsUp(of(U), g, U)
            BY <2>1, <2>2
          <5> QED  BY <5>1, SumsUpHere
        <4> HIDE DEF of
        <4> QED  BY <3>2, <4>5, <4>6
      <3> QED  BY <3>1, <3>2
    <2>3. ASSUME NEW U \in SUBSET T, U # {}
          PROVE  all[U \ {Chosen(U)}] = of(U \ {Chosen(U)})[U \ {Chosen(U)}]
      <3> DEFINE V == U \ {Chosen(U)}
      <3>1. V \in SUBSET T /\ V # T
        BY <2>3, ChosenIsMember
      <3> HIDE DEF V, next, of
      <3>2. all[V] = of(V)[V]
        BY <2>2, <3>1
      <3> QED  BY <3>2 DEF V
    <2>4. SumsUp(all, g, T)
      <3> DEFINE f == [U \in SUBSET T |->
                          IF U = {} THEN 0 ELSE g[Chosen(U)] + all[U \ {Chosen(U)}]]
      <3>1. ASSUME NEW U \in SUBSET T PROVE all[U] = f[U]
        <4>1. all[U] = next(U)
          <5> HIDE DEF next
          <5> QED  OBVIOUS
        <4>2. f[U] = IF U = {} THEN 0 ELSE g[Chosen(U)] + all[U \ {Chosen(U)}]
          <5> HIDE DEF all
          <5> QED  OBVIOUS
        <4> HIDE DEF all, f, of
        <4> QED  BY <2>3, <4>1, <4>2
      <3>2. all = f
        <4>1. all = [U \in SUBSET T |-> all[U]] /\ f = [U \in SUBSET T |-> f[U]]
          <5> HIDE DEF next
          <5> QED  OBVIOUS
        <4> HIDE DEF all, f
        <4> QED  BY <3>1, <4>1
      <3> HIDE DEF all
      <3> QED  BY <3>2 DEF SumsUp
    <2> HIDE DEF all
    <2> QED  BY <2>4
  <1>2. SUBSET S \subseteq Good
    <2> HIDE DEF Good
    <2> QED  BY <1>1, SubsetInduction
  <1> QED  BY <1>2

(***************************************************************************)
(* A sum that is written with another expression than g[i] is Total of the *)
(* function with its values; h is the recursive function it is made of.    *)
(***************************************************************************)
LEMMA TotalIsTheSum ==
    ASSUME NEW S, IsFiniteSet(S), NEW g, NEW h, SumsUp(h, g, S), NEW T \in SUBSET S
    PROVE  Total(g, T) = h[T]
  <1> DEFINE k == CHOOSE f : SumsUp(f, g, T)
             r == [U \in SUBSET T |-> h[U]]
  <1>1. IsFiniteSet(T) /\ SumsUp(r, g, T)
    BY FS_Subset, SumsUpAtSubset
  <1>2. SumsUp(k, g, T)
    <2> HIDE DEF r
    <2> QED  BY <1>1
  <1>3. Total(g, T) = k[T]
    BY TotalUnfolded
  <1>4. k = r
    <2> HIDE DEF k, r
    <2> QED  BY <1>1, <1>2, SumsUpUnique
  <1> HIDE DEF k
  <1> QED  BY <1>3, <1>4

LEMMA TotalStep ==
    ASSUME NEW S, IsFiniteSet(S), NEW g
    PROVE  Total(g, S) = IF S = {} THEN 0 ELSE g[Chosen(S)] + Total(g, S \ {Chosen(S)})
  <1>1. PICK h : SumsUp(h, g, S)
    BY SumsUpExists
  <1>2. Total(g, S) = h[S] /\ Total(g, S \ {Chosen(S)}) = h[S \ {Chosen(S)}]
    BY <1>1, TotalIsTheSum
  <1>3. h[S] = IF S = {} THEN 0 ELSE g[Chosen(S)] + h[S \ {Chosen(S)}]
    BY <1>1, SumsUpAtSubset
  <1> QED  BY <1>2, <1>3

LEMMA TotalOfNaturals ==
    ASSUME NEW S, IsFiniteSet(S), NEW g, \A x \in S : g[x] \in Nat
    PROVE  Total(g, S) \in Nat
  <1> DEFINE Good == {T \in SUBSET S : Total(g, T) \in Nat}
  <1>1. ASSUME NEW T \in SUBSET S, \A U \in SUBSET T : U # T => U \in Good
        PROVE  T \in Good
    <2>1. IsFiniteSet(T)
      BY FS_Subset
    <2>2. T # {} => Chosen(T) \in S /\ Total(g, T \ {Chosen(T)}) \in Nat
      BY <1>1, ChosenIsMember
    <2>3. Total(g, T) = IF T = {} THEN 0 ELSE g[Chosen(T)] + Total(g, T \ {Chosen(T)})
      BY <2>1, TotalStep
    <2> QED  BY <2>2, <2>3
  <1>2. SUBSET S \subseteq Good
    <2> HIDE DEF Good
    <2> QED  BY <1>1, SubsetInduction
  <1> QED  BY <1>2

(* The members can be taken in any order. *)
LEMMA TotalRemove ==
    ASSUME NEW S, IsFiniteSet(S), NEW g, \A x \in S : g[x] \in Nat, NEW y \in S
    PROVE  Total(g, S) = g[y] + Total(g, S \ {y})
  <1> DEFINE Good == {T \in SUBSET S : \A x \in T : Total(g, T) = g[x] + Total(g, T \ {x})}
  <1>1. ASSUME NEW T \in SUBSET S, \A U \in SUBSET T : U # T => U \in Good,
               NEW x \in T
        PROVE  Total(g, T) = g[x] + Total(g, T \ {x})
    <2> DEFINE a == Chosen(T)
               U == T \ {a}
               V == T \ {x}
    <2>1. a \in T
      BY ChosenIsMember
    <2>2. IsFiniteSet(T) /\ IsFiniteSet(U) /\ IsFiniteSet(V) /\ IsFiniteSet(U \ {x})
      BY FS_Subset
    <2>3. Total(g, T) = g[a] + Total(g, U)
      BY <2>2, TotalStep
    <2>4. CASE x = a
      BY <2>3, <2>4
    <2>5. CASE x # a
      <3>1. x \in U /\ a \in V /\ U \in Good /\ V \in Good /\ U \ {x} = V \ {a}
        BY <1>1, <2>1, <2>5
      <3>2. Total(g, U) = g[x] + Total(g, U \ {x}) /\ Total(g, V) = g[a] + Total(g, V \ {a})
        BY <3>1
      <3>3. Total(g, U \ {x}) \in Nat
        <4> HIDE DEF U
        <4>1. \A z \in U \ {x} : g[z] \in Nat
          BY DEF U
        <4> QED  BY <2>2, <4>1, TotalOfNaturals
      <3>4. g[x] \in Nat /\ g[a] \in Nat
        BY <2>1
      <3> HIDE DEF U, V, a
      <3>5. Total(g, T) = g[a] + (g[x] + Total(g, U \ {x}))
        BY <2>3, <3>2
      <3>6. Total(g, V) = g[a] + Total(g, U \ {x})
        BY <3>1, <3>2
      <3>7. Total(g, T) = g[x] + Total(g, V)
        BY <3>3, <3>4, <3>5, <3>6
      <3> QED  BY <3>7 DEF V
    <2> QED  BY <2>4, <2>5
  <1>2. SUBSET S \subseteq Good
    <2>1. ASSUME NEW T \in SUBSET S, \A U \in SUBSET T : U # T => U \in Good
          PROVE  T \in Good
      BY <1>1, <2>1
    <2> HIDE DEF Good
    <2> QED  BY <2>1, SubsetInduction
  <1> QED  BY <1>2

LEMMA TotalMonotone ==
    ASSUME NEW S, IsFiniteSet(S), NEW g, NEW h,
           \A x \in S : g[x] \in Nat /\ h[x] \in Nat /\ g[x] <= h[x]
    PROVE  Total(g, S) <= Total(h, S)
  <1> DEFINE Good == {T \in SUBSET S : Total(g, T) <= Total(h, T)}
  <1>1. ASSUME NEW T \in SUBSET S, \A U \in SUBSET T : U # T => U \in Good
        PROVE  T \in Good
    <2>1. IsFiniteSet(T)
      BY FS_Subset
    <2>2. CASE T = {}
      <3>1. Total(g, T) = 0 /\ Total(h, T) = 0
        BY <2>1, <2>2, TotalStep
      <3> QED  BY <3>1
    <2>3. CASE T # {}
      <3> DEFINE U == T \ {Chosen(T)}
      <3>1. Chosen(T) \in S /\ U \in SUBSET S /\ IsFiniteSet(U) /\ Total(g, U) <= Total(h, U)
        BY <1>1, <2>1, <2>3, ChosenIsMember, FS_Subset
      <3>2. Total(g, U) \in Nat /\ Total(h, U) \in Nat
        <4> HIDE DEF U
        <4> QED  BY <3>1, TotalOfNaturals
      <3>3. Total(g, T) = g[Chosen(T)] + Total(g, U) /\ Total(h, T) = h[Chosen(T)] + Total(h, U)
        BY <2>1, <2>3, TotalStep
      <3> HIDE DEF U
      <3>4. Total(g, T) <= Total(h, T)
        BY <3>1, <3>2, <3>3
      <3> QED  BY <3>4
    <2> QED  BY <2>2, <2>3
  <1>2. SUBSET S \subseteq Good
    <2> HIDE DEF Good
    <2> QED  BY <1>1, SubsetInduction
  <1> QED  BY <1>2

(* A union has at most as many members as its parts together. *)
LEMMA UnionBound ==
    ASSUME NEW S, IsFiniteSet(S), NEW g, NEW F,
           \A x \in S : g[x] \in Nat /\ IsFiniteSet(F[x]) /\ Cardinality(F[x]) <= g[x]
    PROVE  /\ IsFiniteSet(UNION {F[x] : x \in S})
           /\ Cardinality(UNION {F[x] : x \in S}) <= Total(g, S)
  <1> DEFINE All(T) == UNION {F[x] : x \in T}
             Good == {T \in SUBSET S : /\ IsFiniteSet(All(T))
                                       /\ Cardinality(All(T)) <= Total(g, T)}
  <1>1. ASSUME NEW T \in SUBSET S, \A U \in SUBSET T : U # T => U \in Good
        PROVE  T \in Good
    <2>1. IsFiniteSet(T)
      BY FS_Subset
    <2>2. CASE T = {}
      <3>1. All(T) = {} /\ Total(g, T) = 0
        BY <2>1, <2>2, TotalStep
      <3>2. IsFiniteSet(All(T)) /\ Cardinality(All(T)) <= Total(g, T)
        <4> HIDE DEF All
        <4> QED  BY <3>1, FS_EmptySet
      <3> QED  BY <3>2
    <2>3. CASE T # {}
      <3> DEFINE a == Chosen(T)
                 U == T \ {a}
      <3>1. a \in S /\ a \in T
        BY <2>3, ChosenIsMember
      <3>2. U \in SUBSET S /\ IsFiniteSet(U) /\ IsFiniteSet(All(U))
            /\ Cardinality(All(U)) <= Total(g, U)
        BY <1>1, <2>1, <3>1, FS_Subset
      <3>3. Total(g, T) = g[a] + Total(g, U) /\ Total(g, U) \in Nat
        <4>1. \A x \in U : g[x] \in Nat
          OBVIOUS
        <4>2. Total(g, U) \in Nat
          <5> HIDE DEF U
          <5> QED  BY <3>2, <4>1, TotalOfNaturals
        <4>3. Total(g, T) = g[a] + Total(g, U)
          BY <2>1, <2>3, TotalStep
        <4> QED  BY <4>2, <4>3
      <3>4. All(T) = F[a] \cup All(U)
        BY <3>1
      <3> HIDE DEF a, U, All
      <3>5. /\ IsFiniteSet(F[a] \cup All(U))
            /\ Cardinality(F[a] \cup All(U)) =
                  Cardinality(F[a]) + Cardinality(All(U)) - Cardinality(F[a] \cap All(U))
        BY <3>1, <3>2, FS_Union
      <3>6. /\ Cardinality(F[a]) \in Nat /\ Cardinality(All(U)) \in Nat
            /\ Cardinality(F[a] \cap All(U)) \in Nat
        BY <3>1, <3>2, FS_CardinalityType, FS_Intersection
      <3>7. Cardinality(F[a]) <= g[a] /\ g[a] \in Nat
        BY <3>1
      <3>8. Cardinality(All(T)) <= Total(g, T)
        BY <3>2, <3>3, <3>4, <3>5, <3>6, <3>7
      <3> QED  BY <3>4, <3>5, <3>8
    <2> QED  BY <2>2, <2>3
  <1>2. SUBSET S \subseteq Good
    <2> HIDE DEF Good
    <2> QED  BY <1>1, SubsetInduction
  <1> QED  BY <1>2

(***************************************************************************)
(* The three sums of module Schema and its users: the places of a list of  *)
(* patterns, what a list of names is worth to the optional patterns, and   *)
(* the keys there are for them.                                            *)
(***************************************************************************)
Times(patterns) == [i \in DOMAIN patterns |-> patterns[i].times]

LEMMA TimesTotal ==
    ASSUME NEW patterns, IsFiniteSet(DOMAIN patterns)
    PROVE  MapThenSumSet(LAMBDA i : patterns[i].times, DOMAIN patterns)
               = Total(Times(patterns), DOMAIN patterns)
  <1> DEFINE D == DOMAIN patterns
             g == Times(patterns)
             P(h) == h = [T \in SUBSET D |-> IF T = {} THEN 0
                             ELSE patterns[Chosen(T)].times + h[T \ {Chosen(T)}]]
             c == CHOOSE h : P(h)
  <1>0. IsFiniteSet(D)
    OBVIOUS
  <1>1. MapThenSumSet(LAMBDA i : patterns[i].times, DOMAIN patterns) = c[D]
    BY DEF MapThenSumSet, MapThenFoldSet, Chosen
  <1>2. ASSUME NEW h PROVE P(h) <=> SumsUp(h, g, D)
    <2>1. \A T \in SUBSET D : T # {} => patterns[Chosen(T)].times = g[Chosen(T)]
      BY ChosenIsMember DEF Times
    <2>2. [T \in SUBSET D |-> IF T = {} THEN 0
                             ELSE patterns[Chosen(T)].times + h[T \ {Chosen(T)}]]
          = [T \in SUBSET D |-> IF T = {} THEN 0 ELSE g[Chosen(T)] + h[T \ {Chosen(T)}]]
      <3> HIDE DEF g
      <3> QED  BY <2>1
    <2> QED  BY <2>2 DEF SumsUp
  <1>3. \E h : P(h)
    <2> HIDE DEF P, g, D
    <2>1. PICK h : SumsUp(h, g, D)
      BY <1>0, SumsUpExists
    <2> QED  BY <1>2, <2>1
  <1>4. P(c)
    <2> HIDE DEF P
    <2> QED  BY <1>3
  <1>5. SumsUp(c, g, D)
    <2> HIDE DEF P, c, g, D
    <2> QED  BY <1>2, <1>4
  <1>6. Total(g, D) = c[D]
    <2> HIDE DEF c, g, P, D
    <2> QED  BY <1>0, <1>5, TotalIsTheSum
  <1> HIDE DEF c, g, P
  <1> QED  BY <1>1, <1>6 DEF g

Worth(patterns, list) ==
    [i \in DOMAIN patterns |-> Min({EntriesMatching(patterns[i], list), patterns[i].times})]

LEMMA WorthTotal ==
    ASSUME NEW patterns, NEW list, IsFiniteSet(DOMAIN patterns)
    PROVE  MapThenSumSet(LAMBDA i : Min({EntriesMatching(patterns[i], list), patterns[i].times}),
                         DOMAIN patterns)
               = Total(Worth(patterns, list), DOMAIN patterns)
  <1> DEFINE D == DOMAIN patterns
             g == Worth(patterns, list)
             P(h) == h = [T \in SUBSET D |-> IF T = {} THEN 0
                             ELSE Min({EntriesMatching(patterns[Chosen(T)], list), patterns[Chosen(T)].times}) + h[T \ {Chosen(T)}]]
             c == CHOOSE h : P(h)
  <1>0. IsFiniteSet(D)
    OBVIOUS
  <1>1. MapThenSumSet(LAMBDA i : Min({EntriesMatching(patterns[i], list), patterns[i].times}),
                         DOMAIN patterns) = c[D]
    BY DEF MapThenSumSet, MapThenFoldSet, Chosen
  <1>2. ASSUME NEW h PROVE P(h) <=> SumsUp(h, g, D)
    <2>1. \A T \in SUBSET D : T # {} => Min({EntriesMatching(patterns[Chosen(T)], list), patterns[Chosen(T)].times}) = g[Chosen(T)]
      BY ChosenIsMember DEF Worth
    <2>2. [T \in SUBSET D |-> IF T = {} THEN 0
                             ELSE Min({EntriesMatching(patterns[Chosen(T)], list), patterns[Chosen(T)].times}) + h[T \ {Chosen(T)}]]
          = [T \in SUBSET D |-> IF T = {} THEN 0 ELSE g[Chosen(T)] + h[T \ {Chosen(T)}]]
      <3> HIDE DEF g
      <3> QED  BY <2>1
    <2> QED  BY <2>2 DEF SumsUp
  <1>3. \E h : P(h)
    <2> HIDE DEF P, g, D
    <2>1. PICK h : SumsUp(h, g, D)
      BY <1>0, SumsUpExists
    <2> QED  BY <1>2, <2>1
  <1>4. P(c)
    <2> HIDE DEF P
    <2> QED  BY <1>3
  <1>5. SumsUp(c, g, D)
    <2> HIDE DEF P, c, g, D
    <2> QED  BY <1>2, <1>4
  <1>6. Total(g, D) = c[D]
    <2> HIDE DEF c, g, P, D
    <2> QED  BY <1>0, <1>5, TotalIsTheSum
  <1> HIDE DEF c, g, P
  <1> QED  BY <1>1, <1>6 DEF g

Slots(schema, gone) ==
    [i \in DOMAIN schema.optional |-> OptionalSlots(schema, i, gone)]

LEMMA SlotsTotal ==
    ASSUME NEW schema, NEW gone, NEW n \in Int,
           1..(n - 1) \subseteq DOMAIN schema.optional
    PROVE  SlotsBefore(schema, n, gone)
               = Total(Slots(schema, gone), 1..(n - 1))
  <1> DEFINE D == 1..(n - 1)
             g == Slots(schema, gone)
             P(h) == h = [T \in SUBSET D |-> IF T = {} THEN 0
                             ELSE OptionalSlots(schema, Chosen(T), gone) + h[T \ {Chosen(T)}]]
             c == CHOOSE h : P(h)
  <1>0. IsFiniteSet(D)
    BY FS_Interval
  <1>1. SlotsBefore(schema, n, gone) = c[D]
    BY DEF SlotsBefore, MapThenSumSet, MapThenFoldSet, Chosen
  <1>2. ASSUME NEW h PROVE P(h) <=> SumsUp(h, g, D)
    <2>1. \A T \in SUBSET D : T # {} => OptionalSlots(schema, Chosen(T), gone) = g[Chosen(T)]
      BY ChosenIsMember DEF Slots
    <2>2. [T \in SUBSET D |-> IF T = {} THEN 0
                             ELSE OptionalSlots(schema, Chosen(T), gone) + h[T \ {Chosen(T)}]]
          = [T \in SUBSET D |-> IF T = {} THEN 0 ELSE g[Chosen(T)] + h[T \ {Chosen(T)}]]
      <3> HIDE DEF g
      <3> QED  BY <2>1
    <2> QED  BY <2>2 DEF SumsUp
  <1>3. \E h : P(h)
    <2> HIDE DEF P, g, D
    <2>1. PICK h : SumsUp(h, g, D)
      BY <1>0, SumsUpExists
    <2> QED  BY <1>2, <2>1
  <1>4. P(c)
    <2> HIDE DEF P
    <2> QED  BY <1>3
  <1>5. SumsUp(c, g, D)
    <2> HIDE DEF P, c, g, D
    <2> QED  BY <1>2, <1>4
  <1>6. Total(g, D) = c[D]
    <2> HIDE DEF c, g, P, D
    <2> QED  BY <1>0, <1>5, TotalIsTheSum
  <1> HIDE DEF c, g, P
  <1> QED  BY <1>1, <1>6 DEF g

-----------------------------------------------------------------------------
LEMMA SubsetsFinite ==
    ASSUME NEW S \in SUBSET TrustedIds
    PROVE  IsFiniteSet(S) /\ Cardinality(S) \in Nat
  BY TrustedIdsFinite, FS_Subset, FS_CardinalityType

LEMMA LargerIsLarger ==
    ASSUME NEW S \in SUBSET TrustedIds, NEW T \in SUBSET S
    PROVE  Cardinality(T) <= Cardinality(S)
  BY SubsetsFinite, FS_Subset

(***************************************************************************)
(* A set of keys that is not empty has a first key: the one below which    *)
(* there are the fewest keys.                                              *)
(***************************************************************************)
LEMMA FirstKeyExists ==
    ASSUME NEW T \in SUBSET TrustedIds, T # {}
    PROVE  \E k \in T : \A j \in T : ~NameLess(j, k)
  <1> DEFINE Below(k) == {j \in TrustedIds : NameLess(j, k)}
             Sets == {Below(k) : k \in T}
  <1>1. Sets \subseteq FiniteSubsetsOf(TrustedIds) /\ Sets # {}
    BY SubsetsFinite DEF FiniteSubsetsOf
  <1>2. IsWellFoundedOn(StrictSubsetOrdering(TrustedIds), FiniteSubsetsOf(TrustedIds))
    BY FS_StrictSubsetOrderingWellFounded
  <1>3. PICK D \in Sets : \A E \in Sets : <<E, D>> \notin StrictSubsetOrdering(TrustedIds)
    <2> HIDE DEF Sets
    <2> QED  BY <1>1, <1>2, WFMin
  <1>4. PICK k \in T : D = Below(k)
    BY <1>3
  <1>5. ASSUME NEW j \in T, NameLess(j, k) PROVE FALSE
    <2>1. Below(j) \subseteq Below(k)
      BY <1>5, NamesOrdered
    <2>2. j \in Below(k) /\ j \notin Below(j)
      BY <1>5, NamesOrdered
    <2>3. <<Below(j), Below(k)>> \in StrictSubsetOrdering(TrustedIds)
      BY <2>1, <2>2 DEF StrictSubsetOrdering
    <2> QED  BY <1>3, <1>4, <2>3
  <1> QED  BY <1>5

(***************************************************************************)
(* The loop that takes the first n keys of a set finds n if there are n.   *)
(***************************************************************************)
LEMMA FirstIsEnough ==
    ASSUME NEW S \in SUBSET TrustedIds, NEW n \in Nat, Cardinality(S) >= n
    PROVE  Cardinality(First(n, S)) >= n
  <1> DEFINE F == First(n, S)
  <1>1. F \in SUBSET S /\ F \in SUBSET TrustedIds
    BY DEF First
  <1>2. Cardinality(F) \in Nat
    BY <1>1, SubsetsFinite
  <1> SUFFICES ASSUME Cardinality(F) < n PROVE FALSE
    BY <1>2
  <1>3. S \ F # {}
    <2> SUFFICES ASSUME S \ F = {} PROVE FALSE
      OBVIOUS
    <2>1. S = F
      BY <1>1
    <2> QED  BY <2>1, <1>2
  <1>4. PICK k \in S \ F : \A j \in S \ F : ~NameLess(j, k)
    BY <1>3, FirstKeyExists
  <1>5. {j \in S : NameLess(j, k)} \in SUBSET F
    BY <1>4
  <1>6. Cardinality({j \in S : NameLess(j, k)}) <= Cardinality(F)
    BY <1>1, <1>5, LargerIsLarger
  <1>7. Cardinality({j \in S : NameLess(j, k)}) \in Nat
    <2>1. {j \in S : NameLess(j, k)} \in SUBSET TrustedIds
      OBVIOUS
    <2> QED  BY <2>1, SubsetsFinite
  <1>8. Cardinality({j \in S : NameLess(j, k)}) < n
    BY <1>2, <1>6, <1>7
  <1> QED  BY <1>4, <1>8 DEF First

LEMMA FirstOfSome ==
    ASSUME NEW S \in SUBSET TrustedIds, S # {}
    PROVE  First(1, S) # {}
  <1>1. Cardinality(S) \in Nat /\ Cardinality(S) # 0
    BY SubsetsFinite, FS_EmptySet
  <1>2. Cardinality(First(1, S)) >= 1
    BY <1>1, FirstIsEnough
  <1> QED  BY <1>2, FS_EmptySet

-----------------------------------------------------------------------------
(* The keys cover the all-of patterns of a rule. *)
Covered(keys, required) == \A i \in DOMAIN required : Filled(keys, required[i])

LEMMA FilledByMore ==
    ASSUME NEW keys \in SUBSET TrustedIds, NEW more \in SUBSET TrustedIds,
           keys \subseteq more, NEW pattern, pattern.times \in Nat,
           Filled(keys, pattern)
    PROVE  Filled(more, pattern)
  <1>1. Matching(pattern, keys) \in SUBSET Matching(pattern, more)
    BY DEF Matching
  <1>2. Matching(pattern, more) \in SUBSET TrustedIds
    BY DEF Matching
  <1>3. Cardinality(Matching(pattern, keys)) <= Cardinality(Matching(pattern, more))
    BY <1>1, <1>2, LargerIsLarger
  <1>4. /\ Cardinality(Matching(pattern, keys)) \in Nat
        /\ Cardinality(Matching(pattern, more)) \in Nat
    BY <1>1, <1>2, SubsetsFinite
  <1> QED  BY <1>3, <1>4 DEF Filled

(***************************************************************************)
(* When getAvailableSigners does not throw, its list has enough keys for   *)
(* every all-of pattern.                                                   *)
(***************************************************************************)
LEMMA AvailableCover ==
    ASSUME NEW schema \in Schemas, NEW gone, SufficientKeys(schema, gone)
    PROVE  Covered(GetAvailableSigners(schema, gone), schema.required)
  <1> SUFFICES ASSUME NEW i \in DOMAIN schema.required
               PROVE  Filled(GetAvailableSigners(schema, gone), schema.required[i])
    BY DEF Covered
  <1> DEFINE p == schema.required[i]
             keys == First(p.times, GetMatchedKeys(p, gone))
             list == GetAvailableSigners(schema, gone)
  <1>1. p.times \in Nat
    <2>1. p \in Patterns
      BY LenProperties DEF Schemas
    <2> QED  BY <2>1 DEF Patterns
  <1>2. GetMatchedKeys(p, gone) \in SUBSET TrustedIds
    BY DEF GetMatchedKeys, Matching
  <1>3. Cardinality(keys) >= p.times
    BY <1>1, <1>2, FirstIsEnough DEF SufficientKeys
  <1>4. keys \in SUBSET TrustedIds /\ Matching(p, keys) = keys
    BY DEF First, GetMatchedKeys, Matching
  <1>5. Filled(keys, p)
    BY <1>3, <1>4 DEF Filled
  <1>6. keys \subseteq list
    BY DEF GetAvailableSigners
  <1>7. list \in SUBSET TrustedIds
    BY AvailableSignersAreAvailable
  <1>8. Filled(list, p)
    <2> HIDE DEF keys, list, p
    <2> QED  BY <1>1, <1>4, <1>5, <1>6, <1>7, FilledByMore
  <1> QED  BY <1>8

(***************************************************************************)
(* One key less, and one matching key more: the pattern has its keys again.*)
(***************************************************************************)
LEMMA OneForOne ==
    ASSUME NEW list \in SUBSET TrustedIds, NEW key, NEW pattern,
           pattern.times \in Nat, Filled(list, pattern),
           NEW before \in SUBSET TrustedIds, list \ {key} \subseteq before,
           NEW new \in TrustedIds \ before, Match(pattern, new)
    PROVE  Filled(before \cup {new}, pattern)
  <1> DEFINE old == Matching(pattern, list)
             kept == Matching(pattern, before)
  <1>1. old \in SUBSET TrustedIds /\ kept \in SUBSET TrustedIds /\ old \ {key} \in SUBSET kept
    BY DEF Matching
  <1>2. /\ IsFiniteSet(old) /\ Cardinality(old) \in Nat
        /\ IsFiniteSet(kept) /\ Cardinality(kept) \in Nat
    BY <1>1, SubsetsFinite
  <1>3. Cardinality(old \ {key}) \in Nat /\ Cardinality(old \ {key}) >= Cardinality(old) - 1
    <2>1. Cardinality(old \ {key}) = IF key \in old THEN Cardinality(old) - 1
                                                    ELSE Cardinality(old)
      BY <1>2, FS_RemoveElement
    <2>2. Cardinality(old \ {key}) \in Nat
      BY <1>2, FS_RemoveElement, FS_CardinalityType
    <2> QED  BY <1>2, <2>1, <2>2
  <1>4. Cardinality(old \ {key}) <= Cardinality(kept)
    BY <1>1, LargerIsLarger
  <1>5. Matching(pattern, before \cup {new}) = kept \cup {new}
    BY DEF Matching
  <1>6. Cardinality(kept \cup {new}) = Cardinality(kept) + 1
    <2>1. new \notin kept
      BY DEF Matching
    <2> QED  BY <1>2, <2>1, FS_AddElement
  <1>7. Cardinality(old) >= pattern.times
    BY DEF Filled
  <1>8. Cardinality(kept) + 1 >= pattern.times
    <2> HIDE DEF old, kept
    <2> QED  BY <1>2, <1>3, <1>4, <1>7
  <1> QED  BY <1>5, <1>6, <1>8 DEF Filled

(***************************************************************************)
(* A list that replaceSigner returns covers what the old one covered.      *)
(***************************************************************************)
LEMMA ReplacementCovers ==
    ASSUME NEW list \in SUBSET TrustedIds, NEW key, NEW schema \in Schemas, NEW gone,
           Covered(list, schema.required),
           NEW r \in ReplaceSigner(list, key, schema, gone), r.signers # {}
    PROVE  Covered(r.signers, schema.required)
  <1> DEFINE kept == list \ {key}
  <1>1. PICK added \in Additions(schema.required) :
           /\ RequiredLoop(kept, added, key, schema.required, gone)
           /\ r = Replacement(kept, added, key, schema, gone)
    BY DEF ReplaceSigner
  <1> DEFINE new == UNION {added[i] : i \in DOMAIN schema.required}
             optional == OptionalReplacement(kept \cup new, schema.optional, gone)
  <1>2. /\ ~RequiredLoopFails(kept, added, key, schema.required, gone)
        /\ r.signers = kept \cup new \cup optional
    <2> HIDE DEF new, optional
    <2> QED  BY <1>1 DEF Replacement, NoReplacement, new, optional
  <1>3. r.signers \in SUBSET TrustedIds
    BY ReplacementIsFresh DEF Substitutes
  <1> SUFFICES ASSUME NEW i \in DOMAIN schema.required
               PROVE  Filled(r.signers, schema.required[i])
    BY DEF Covered
  <1> DEFINE p == schema.required[i]
             before == Before(kept, added, i)
  <1>4. p.times \in Nat /\ Filled(list, p)
    <2>1. p \in Patterns
      BY LenProperties DEF Schemas
    <2> QED  BY <2>1 DEF Patterns, Covered
  <1>5. i \in Nat /\ DOMAIN schema.required = 1..Len(schema.required)
    BY LenProperties DEF Schemas
  <1>6. before \subseteq r.signers /\ added[i] \subseteq r.signers
    <2>1. \A j \in 1..(i - 1) : j \in DOMAIN schema.required
      BY <1>5, LenProperties DEF Schemas
    <2> HIDE DEF optional
    <2> QED  BY <1>2, <2>1 DEF Before
  <1>7. before \in SUBSET TrustedIds /\ kept \subseteq before
    BY <1>3, <1>6 DEF Before
  <1>8. CASE Match(p, key)
    <2>1. CASE Filled(before, p)
      BY <1>3, <1>4, <1>6, <1>7, <2>1, FilledByMore
    <2>2. CASE ~Filled(before, p)
      <3>1. GetMatchedKeys(p, gone) \ before # {}
        BY <1>2, <1>8, <2>2 DEF RequiredLoopFails, FoundKeyForPattern
      <3>2. added[i] = First(1, GetMatchedKeys(p, gone) \ before)
        BY <1>1, <1>8, <2>2 DEF RequiredLoop, NewKeyForPattern
      <3>3. GetMatchedKeys(p, gone) \ before \in SUBSET TrustedIds
        BY DEF GetMatchedKeys, Matching
      <3>4. PICK k : k \in added[i]
        BY <3>1, <3>2, <3>3, FirstOfSome
      <3>5. k \in TrustedIds \ before /\ Match(p, k)
        BY <3>2, <3>4 DEF First, GetMatchedKeys, Matching
      <3>6. Filled(before \cup {k}, p)
        <4> HIDE DEF p, before
        <4> QED  BY <1>4, <1>7, <3>5, OneForOne
      <3>7. before \cup {k} \subseteq r.signers
        BY <1>6, <3>4
      <3>8. before \cup {k} \in SUBSET TrustedIds
        BY <1>7, <3>5
      <3> DEFINE more == before \cup {k}
      <3>9. more \in SUBSET TrustedIds /\ more \subseteq r.signers /\ Filled(more, p)
        BY <3>6, <3>7, <3>8
      <3> HIDE DEF p, before, more
      <3>10. Filled(r.signers, p)
        BY <1>3, <1>4, <3>9, FilledByMore
      <3> QED  BY <3>10 DEF p
    <2> QED  BY <2>1, <2>2
  <1>9. CASE ~Match(p, key)
    <2>1. Matching(p, kept) = Matching(p, list)
      BY <1>9 DEF Matching
    <2>2. Filled(kept, p)
      BY <1>4, <2>1 DEF Filled
    <2>3. kept \in SUBSET TrustedIds /\ kept \subseteq r.signers
      BY <1>2
    <2> QED  BY <1>3, <1>4, <2>2, <2>3, FilledByMore
  <1> QED  BY <1>8, <1>9

-----------------------------------------------------------------------------
(***************************************************************************)
(* A loop over m elements has the states a function of the number of       *)
(* iterations gives; step[i] is what iteration i does to a state.          *)
(***************************************************************************)
IsRun(h, m, States, base, step) ==
    /\ h \in [0..m -> States]
    /\ h[0] = base
    /\ \A i \in 1..m : h[i] = step[i][h[i - 1]]

LEMMA LoopRuns ==
    ASSUME NEW m \in Nat, NEW States, NEW base \in States,
           NEW step \in [1..m -> [States -> States]]
    PROVE  \E h : IsRun(h, m, States, base, step)
  <1> DEFINE Runs(n, h) == h[0] = base /\ \A i \in 1..n : h[i] = step[i][h[i - 1]]
             Good == {n \in 0..m : \E h \in [0..n -> States] : Runs(n, h)}
  <1>1. 0 \in Good
    <2> DEFINE h == [i \in 0..0 |-> base]
    <2>1. h \in [0..0 -> States] /\ h[0] = base /\ 1..0 = {}
      OBVIOUS
    <2> HIDE DEF h
    <2> QED  BY <2>1
  <1>2. ASSUME NEW n \in 1..m, n - 1 \in Good PROVE n \in Good
    <2>1. PICK h \in [0..(n - 1) -> States] : Runs(n - 1, h)
      BY <1>2
    <2> DEFINE last == step[n][h[n - 1]]
               k == [i \in 0..n |-> IF i = n THEN last ELSE h[i]]
    <2>2. n \in Nat /\ n - 1 \in 0..(n - 1) /\ n # 0 /\ n \in 0..m
      OBVIOUS
    <2>3. last \in States
      BY <2>2
    <2>4. k \in [0..n -> States] /\ k[n] = last /\ \A i \in 0..(n - 1) : k[i] = h[i]
      BY <2>2, <2>3
    <2>5. k[0] = base
      BY <2>1, <2>2, <2>4
    <2>6. ASSUME NEW i \in 1..n PROVE k[i] = step[i][k[i - 1]]
      <3>1. CASE i = n
        BY <2>2, <2>4, <3>1
      <3>2. CASE i # n
        <4>1. i \in 1..(n - 1) /\ i \in 0..(n - 1) /\ i - 1 \in 0..(n - 1)
          BY <3>2
        <4> HIDE DEF k
        <4> QED  BY <2>1, <2>4, <4>1
      <3> QED  BY <3>1, <3>2
    <2> HIDE DEF k
    <2> QED  BY <2>2, <2>4, <2>5, <2>6
  <1>3. 0..m \subseteq Good
    <2> HIDE DEF Good
    <2> QED  BY <1>1, <1>2, IntervalInduction
  <1>4. m \in Good
    BY <1>3
  <1> QED  BY <1>4 DEF IsRun

-----------------------------------------------------------------------------
(***************************************************************************)
(* The last key, and that a loop takes no more keys than it is told to.    *)
(***************************************************************************)
LEMMA LastKeyExists ==
    ASSUME NEW T \in SUBSET TrustedIds, T # {}
    PROVE  \E k \in T : \A j \in T : j = k \/ NameLess(j, k)
  <1> DEFINE Above(k) == {j \in TrustedIds : NameLess(k, j)}
             Sets == {Above(k) : k \in T}
  <1>1. Sets \subseteq FiniteSubsetsOf(TrustedIds) /\ Sets # {}
    BY SubsetsFinite DEF FiniteSubsetsOf
  <1>2. PICK D \in Sets : \A E \in Sets : <<E, D>> \notin StrictSubsetOrdering(TrustedIds)
    <2> HIDE DEF Sets
    <2> QED  BY <1>1, FS_StrictSubsetOrderingWellFounded, WFMin
  <1>3. PICK k \in T : D = Above(k)
    BY <1>2
  <1>4. ASSUME NEW j \in T, NameLess(k, j) PROVE FALSE
    <2>1. Above(j) \subseteq Above(k)
      BY <1>4, NamesOrdered
    <2>2. j \in Above(k) /\ j \notin Above(j)
      BY <1>4, NamesOrdered
    <2>3. <<Above(j), Above(k)>> \in StrictSubsetOrdering(TrustedIds)
      BY <2>1, <2>2 DEF StrictSubsetOrdering
    <2> QED  BY <1>2, <1>3, <2>3
  <1> QED  BY <1>4, NamesOrdered

LEMMA FirstIsBounded ==
    ASSUME NEW S \in SUBSET TrustedIds, NEW n \in Nat
    PROVE  /\ First(n, S) \in SUBSET S
           /\ IsFiniteSet(First(n, S))
           /\ Cardinality(First(n, S)) \in Nat
           /\ Cardinality(First(n, S)) <= n
  <1> DEFINE F == First(n, S)
  <1>1. F \in SUBSET S /\ F \in SUBSET TrustedIds
    BY DEF First
  <1>2. IsFiniteSet(F) /\ Cardinality(F) \in Nat
    BY <1>1, SubsetsFinite
  <1>3. CASE F = {}
    <2> HIDE DEF F
    <2> QED  BY <1>1, <1>2, <1>3, FS_EmptySet DEF F
  <1>4. CASE F # {}
    <2>1. PICK k \in F : \A j \in F : j = k \/ NameLess(j, k)
      BY <1>1, <1>4, LastKeyExists
    <2> DEFINE below == {j \in S : NameLess(j, k)}
    <2>2. Cardinality(below) < n
      BY <2>1 DEF First
    <2>3. below \in SUBSET TrustedIds /\ F \ {k} \in SUBSET below
      BY <1>1, <2>1
    <2>4. Cardinality(F \ {k}) <= Cardinality(below) /\ Cardinality(below) \in Nat
      <3> HIDE DEF below, F
      <3> QED  BY <2>3, LargerIsLarger, SubsetsFinite
    <2>5. Cardinality(F \ {k}) = Cardinality(F) - 1
      <3> HIDE DEF F
      <3> QED  BY <1>2, <2>1, FS_RemoveElement
    <2> HIDE DEF F, below
    <2>6. Cardinality(F) <= n
      BY <1>2, <2>2, <2>4, <2>5
    <2> QED  BY <1>1, <1>2, <2>6 DEF F
  <1> QED  BY <1>3, <1>4

(***************************************************************************)
(* The vector of a set of keys holds each of them once: exactly one key    *)
(* has i - 1 keys before it.                                               *)
(***************************************************************************)
LEMMA InOrderLists ==
    ASSUME NEW S \in SUBSET TrustedIds
    PROVE  LET n == Cardinality(S)
               list == InOrder(S)
           IN  /\ n \in Nat
               /\ list \in [1..n -> S] /\ list \in Seq(S) /\ Len(list) = n
               /\ \A i \in 1..n : Cardinality({j \in S : NameLess(j, list[i])}) = i - 1
               /\ \A i, j \in 1..n : i # j => list[i] # list[j]
               /\ \A k \in S : \E i \in 1..n : list[i] = k
               /\ ToSet(list) = S
  <1> DEFINE n == Cardinality(S)
             list == InOrder(S)
             rank(k) == Cardinality({j \in S : NameLess(j, k)})
  <1>1. IsFiniteSet(S) /\ n \in Nat
    BY SubsetsFinite
  <1>2. \A k \in S : rank(k) \in Nat
    <2> TAKE k \in S
    <2>1. {j \in S : NameLess(j, k)} \in SUBSET TrustedIds
      OBVIOUS
    <2> QED  BY <2>1, SubsetsFinite
  <1>3. ASSUME NEW i \in 1..n PROVE \E k \in S : rank(k) = i - 1
    <2> DEFINE some == First(i, S)
               fewer == First(i - 1, S)
    <2>1. i \in Nat /\ i - 1 \in Nat /\ n >= i
      BY <1>1
    <2> HIDE DEF n
    <2>2. Cardinality(some) >= i
      BY <2>1, FirstIsEnough DEF n
    <2>3. Cardinality(fewer) <= i - 1 /\ Cardinality(fewer) \in Nat /\ fewer \in SUBSET S
      BY <2>1, FirstIsBounded
    <2>4. Cardinality(some) \in Nat /\ some \in SUBSET S
      BY <2>1, FirstIsBounded
    <2>5. ~(some \subseteq fewer)
      <3> HIDE DEF some, fewer
      <3>1. some \subseteq fewer => Cardinality(some) <= Cardinality(fewer)
        BY <2>3, LargerIsLarger
      <3> QED  BY <2>1, <2>2, <2>3, <2>4, <3>1
    <2>6. PICK k \in S : rank(k) < i /\ ~(rank(k) < i - 1)
      <3>1. \A k \in S : /\ k \in some <=> rank(k) < i
                         /\ k \in fewer <=> rank(k) < i - 1
        BY DEF First
      <3> HIDE DEF some, fewer, rank
      <3> QED  BY <2>4, <2>5, <3>1
    <2>7. rank(k) \in Nat
      BY <1>2
    <2> HIDE DEF rank
    <2> QED  BY <2>1, <2>6, <2>7
  <1>4. \A i \in 1..n : list[i] \in S /\ rank(list[i]) = i - 1
    <2> TAKE i \in 1..n
    <2>1. list[i] = CHOOSE k \in S : rank(k) = i - 1
      BY DEF InOrder
    <2>2. \E k \in S : rank(k) = i - 1
      BY <1>3
    <2> HIDE DEF list, rank, n
    <2> QED  BY <2>1, <2>2
  <1>5. list \in [1..n -> S]
    <2> DEFINE key(i) == CHOOSE k \in S : rank(k) = i - 1
    <2>1. list = [i \in 1..n |-> key(i)]
      BY DEF InOrder
    <2> HIDE DEF list, n, key
    <2> QED  BY <1>4, <2>1
  <1>6. ASSUME NEW i \in 1..n, NEW j \in 1..n, i # j PROVE list[i] # list[j]
    <2>1. rank(list[i]) = i - 1 /\ rank(list[j]) = j - 1 /\ i \in Int /\ j \in Int
      BY <1>1, <1>4
    <2> HIDE DEF rank, list, n
    <2> QED  BY <1>6, <2>1
  <1>7. \A k \in S : \E i \in 1..n : list[i] = k
    <2> DEFINE D == 1..n
    <2>1. IsFiniteSet(D) /\ Cardinality(D) = Cardinality(S)
      BY <1>1, FS_Interval
    <2>2. list \in Injection(D, S)
      <3> HIDE DEF list, n
      <3> QED  BY <1>5, <1>6 DEF Injection, IsInjective
    <2>3. list \in Surjection(D, S)
      <3> HIDE DEF D, list
      <3> QED  BY <1>1, <2>1, <2>2, FS_Injection
    <2> HIDE DEF list
    <2> QED  BY <2>3 DEF Surjection
  <1>8. ToSet(list) = S
    <2>1. DOMAIN list = 1..n
      BY <1>5
    <2> HIDE DEF list, n
    <2> QED  BY <1>5, <1>7, <2>1 DEF ToSet
  <1>9. list \in Seq(S) /\ Len(list) = n
    <2> HIDE DEF list, n
    <2> QED  BY <1>1, <1>5
  <1>10. \A i \in 1..n : Cardinality({j \in S : NameLess(j, list[i])}) = i - 1
    BY <1>4
  <1> HIDE DEF list, n, rank
  <1>11. /\ n \in Nat
         /\ list \in [1..n -> S] /\ list \in Seq(S) /\ Len(list) = n
         /\ \A i \in 1..n : Cardinality({j \in S : NameLess(j, list[i])}) = i - 1
         /\ \A i, j \in 1..n : i # j => list[i] # list[j]
         /\ \A k \in S : \E i \in 1..n : list[i] = k
         /\ ToSet(list) = S
    BY <1>1, <1>5, <1>6, <1>7, <1>8, <1>9, <1>10
  <1> QED  BY <1>11 DEF list, n

(* A later key of the vector is a greater one. *)
LEMMA InOrderSorted ==
    ASSUME NEW S \in SUBSET TrustedIds,
           NEW i \in 1..Cardinality(S), NEW j \in 1..Cardinality(S), i < j
    PROVE  NameLess(InOrder(S)[i], InOrder(S)[j])
  <1> DEFINE a == InOrder(S)[i]
             b == InOrder(S)[j]
             below(k) == {l \in S : NameLess(l, k)}
  <1>1. /\ a \in S /\ b \in S /\ a # b /\ Cardinality(S) \in Nat
        /\ Cardinality(below(a)) = i - 1 /\ Cardinality(below(b)) = j - 1
    <2>1. /\ Cardinality(S) \in Nat
          /\ InOrder(S) \in [1..Cardinality(S) -> S]
          /\ \A p \in 1..Cardinality(S) : Cardinality(below(InOrder(S)[p])) = p - 1
          /\ \A p, q \in 1..Cardinality(S) : p # q => InOrder(S)[p] # InOrder(S)[q]
      BY InOrderLists
    <2>2. i \in Int /\ j \in Int /\ i # j
      BY <2>1
    <2> HIDE DEF below
    <2> QED  BY <2>1, <2>2
  <1> SUFFICES ASSUME ~NameLess(a, b) PROVE FALSE
    OBVIOUS
  <1> HIDE DEF a, b
  <1>2. NameLess(b, a)
    BY <1>1, NamesOrdered
  <1>3. below(b) \in SUBSET below(a) /\ below(a) \in SUBSET TrustedIds
    BY <1>1, <1>2, NamesOrdered
  <1>4. Cardinality(below(b)) <= Cardinality(below(a))
    <2> HIDE DEF below
    <2> QED  BY <1>3, LargerIsLarger
  <1> HIDE DEF below
  <1> QED  BY <1>1, <1>4

(* The first n keys of a set are the first n of its vector. *)
LEMMA FirstInOrder ==
    ASSUME NEW S \in SUBSET TrustedIds, NEW n \in Nat
    PROVE  First(n, S) = {InOrder(S)[j] : j \in 1..Min({Cardinality(S), n})}
  <1> DEFINE c == Cardinality(S)
             list == InOrder(S)
             rank(k) == Cardinality({j \in S : NameLess(j, k)})
             some == {list[j] : j \in 1..Min({c, n})}
  <1>1. /\ c \in Nat
        /\ \A i \in 1..c : list[i] \in S /\ rank(list[i]) = i - 1
        /\ \A k \in S : \E i \in 1..c : list[i] = k
    BY InOrderLists
  <1>2. Min({c, n}) = IF c <= n THEN c ELSE n
    BY <1>1, MinOfTwo
  <1>3. \A k : k \in First(n, S) <=> k \in S /\ rank(k) < n
    BY DEF First
  <1> HIDE DEF c, list, rank
  <1>4. ASSUME NEW k \in First(n, S) PROVE k \in some
    <2>1. PICK i \in 1..c : list[i] = k
      BY <1>1, <1>3
    <2>2. rank(k) = i - 1 /\ rank(k) < n
      BY <1>1, <1>3, <2>1
    <2>3. i \in 1..Min({c, n})
      BY <1>1, <1>2, <2>2
    <2> QED  BY <2>1, <2>3
  <1>5. ASSUME NEW k \in some PROVE k \in First(n, S)
    <2>1. PICK j \in 1..Min({c, n}) : k = list[j]
      OBVIOUS
    <2>2. j \in 1..c /\ j <= n
      BY <1>1, <1>2
    <2>3. k \in S /\ rank(k) = j - 1
      BY <1>1, <2>1, <2>2
    <2>4. rank(k) < n
      BY <1>1, <2>2, <2>3
    <2> QED  BY <1>3, <2>3, <2>4
  <1>6. First(n, S) = some
    BY <1>4, <1>5
  <1> QED  BY <1>6 DEF some, c, list

(***************************************************************************)
(* The first key of a vector that is not in a set is the first of the keys *)
(* that are not in it.                                                     *)
(***************************************************************************)
UnusedPlaces(S, set) == {j \in 1..Cardinality(S) : InOrder(S)[j] \notin set}

LEMMA FirstUnused ==
    ASSUME NEW S \in SUBSET TrustedIds, NEW set
    PROVE  /\ UnusedPlaces(S, set) = {} <=> S \ set = {}
           /\ UnusedPlaces(S, set) # {} =>
                  First(1, S \ set) = {InOrder(S)[Min(UnusedPlaces(S, set))]}
  <1> DEFINE unused == UnusedPlaces(S, set)
             c == Cardinality(S)
             list == InOrder(S)
             left == S \ set
  <1>1. /\ c \in Nat
        /\ \A i \in 1..c : list[i] \in S
        /\ \A k \in S : \E i \in 1..c : list[i] = k
    BY InOrderLists
  <1>2. \A i, j \in 1..c : i < j => NameLess(list[i], list[j])
    BY InOrderSorted
  <1>0. unused = {j \in 1..c : list[j] \notin set}
    BY DEF UnusedPlaces
  <1> HIDE DEF unused
  <1>3. \A i \in unused : i \in 1..c /\ list[i] \in left
    BY <1>0, <1>1
  <1>4. \A k \in left : \E i \in unused : list[i] = k
    <2> TAKE k \in left
    <2>1. PICK i \in 1..c : list[i] = k
      BY <1>1
    <2> QED  BY <1>0, <2>1
  <1>5. unused = {} <=> left = {}
    <2> HIDE DEF list, left
    <2> QED  BY <1>3, <1>4
  <1>6. ASSUME unused # {} PROVE First(1, left) = {list[Min(unused)]}
    <2> DEFINE m == Min(unused)
               k == list[m]
               below(j) == {l \in left : NameLess(l, j)}
    <2>1. m \in unused /\ \A i \in unused : m <= i
      <3>1. unused \in SUBSET Nat
        BY <1>1, <1>3
      <3>2. \E x \in unused : \A y \in unused : x <= y
        BY <1>6, <3>1, LeastExists
      <3> QED  BY <3>2 DEF Min
    <2>2. k \in left /\ m \in 1..c
      BY <1>3, <2>1
    <2>3. \A j \in left : j # k => NameLess(k, j)
      <3> SUFFICES ASSUME NEW j \in left, j # k PROVE NameLess(k, j)
        OBVIOUS
      <3>1. PICK i \in unused : list[i] = j
        BY <1>4
      <3>2. i \in 1..c /\ m <= i /\ i # m
        BY <1>3, <2>1, <3>1
      <3>3. m < i
        BY <1>1, <2>2, <3>2
      <3> HIDE DEF m, list
      <3> QED  BY <1>2, <2>2, <3>1, <3>2, <3>3
    <2>4. left \in SUBSET TrustedIds
      OBVIOUS
    <2> HIDE DEF list, left, m, k
    <2>5. below(k) = {}
      BY <2>2, <2>3, <2>4, NamesOrdered
    <2>6. k \in First(1, left)
      <3>1. Cardinality(below(k)) = 0
        BY <2>5, FS_EmptySet
      <3>2. Cardinality(below(k)) < 1
        BY <3>1
      <3> QED  BY <2>2, <3>2 DEF First
    <2>7. ASSUME NEW j \in First(1, left) PROVE j = k
      <3> SUFFICES ASSUME j # k PROVE FALSE
        OBVIOUS
      <3>1. j \in left /\ Cardinality(below(j)) < 1
        BY DEF First
      <3>2. k \in below(j)
        BY <2>2, <2>3, <3>1
      <3>3. below(j) \in SUBSET TrustedIds
        BY <2>4
      <3>4. IsFiniteSet(below(j)) /\ Cardinality(below(j)) \in Nat
        <4> HIDE DEF below
        <4> QED  BY <3>3, SubsetsFinite
      <3>5. Cardinality(below(j)) = 0
        <4> HIDE DEF below
        <4> QED  BY <3>1, <3>4
      <3>6. below(j) = {}
        <4> HIDE DEF below
        <4> QED  BY <3>4, <3>5, FS_EmptySet
      <3> QED  BY <3>2, <3>6
    <2>8. First(1, left) = {k}
      BY <2>6, <2>7
    <2> QED  BY <2>8 DEF k, m
  <1> QED  BY <1>5, <1>6 DEF left, list, unused

LEMMA RuleTypes ==
    ASSUME NEW schema \in Schemas
    PROVE  /\ DOMAIN schema.required = 1..Len(schema.required)
           /\ DOMAIN schema.optional = 1..Len(schema.optional)
           /\ Len(schema.required) \in Nat /\ Len(schema.optional) \in Nat
           /\ IsFiniteSet(DOMAIN schema.required) /\ IsFiniteSet(DOMAIN schema.optional)
           /\ \A i \in DOMAIN schema.required : schema.required[i].times \in Nat
           /\ \A i \in DOMAIN schema.optional : schema.optional[i].times \in Nat
           /\ schema.minOptional \in Nat
  <1>1. /\ schema.required \in Seq(Patterns) /\ schema.optional \in Seq(Patterns)
        /\ schema.minOptional \in Nat
    BY DEF Schemas
  <1>2. ASSUME NEW patterns \in Seq(Patterns)
        PROVE  /\ DOMAIN patterns = 1..Len(patterns) /\ Len(patterns) \in Nat
               /\ IsFiniteSet(DOMAIN patterns)
               /\ \A i \in DOMAIN patterns : patterns[i].times \in Nat
    <2>1. DOMAIN patterns = 1..Len(patterns) /\ Len(patterns) \in Nat
      BY LenProperties
    <2>2. IsFiniteSet(DOMAIN patterns)
      BY <2>1, FS_Interval
    <2>3. \A i \in DOMAIN patterns : patterns[i] \in Patterns
      BY LenProperties
    <2> QED  BY <2>1, <2>2, <2>3 DEF Patterns
  <1> QED  BY <1>1, <1>2

-----------------------------------------------------------------------------
(***************************************************************************)
(* The optional loop of getAvailableSigners.                               *)
(***************************************************************************)
LEMMA SlotsType ==
    ASSUME NEW schema \in Schemas, NEW gone, NEW i \in DOMAIN schema.optional
    PROVE  /\ OptionalSlots(schema, i, gone) \in Nat
           /\ OptionalSlots(schema, i, gone) <= schema.optional[i].times
           /\ OptionalSlots(schema, i, gone)
                  <= Cardinality(GetMatchedKeys(schema.optional[i], gone))
           /\ Cardinality(GetMatchedKeys(schema.optional[i], gone)) \in Nat
           /\ Slots(schema, gone)[i] = OptionalSlots(schema, i, gone)
  <1>1. GetMatchedKeys(schema.optional[i], gone) \in SUBSET TrustedIds
    BY DEF GetMatchedKeys, Matching
  <1>2. Cardinality(GetMatchedKeys(schema.optional[i], gone)) \in Nat
    BY <1>1, SubsetsFinite
  <1>3. schema.optional[i].times \in Nat
    BY RuleTypes
  <1> QED  BY <1>2, <1>3, MinOfTwo DEF OptionalSlots, Slots

LEMMA SlotsBeforeType ==
    ASSUME NEW schema \in Schemas, NEW gone, NEW n \in 1..(Len(schema.optional) + 1)
    PROVE  /\ SlotsBefore(schema, n, gone) = Total(Slots(schema, gone), 1..(n - 1))
           /\ SlotsBefore(schema, n, gone) \in Nat
           /\ IsFiniteSet(1..(n - 1)) /\ 1..(n - 1) \subseteq DOMAIN schema.optional
  <1>0. /\ DOMAIN schema.optional = 1..Len(schema.optional)
        /\ Len(schema.optional) \in Nat /\ n - 1 \in Int
    BY RuleTypes
  <1>1. IsFiniteSet(1..(n - 1)) /\ 1..(n - 1) \subseteq DOMAIN schema.optional
    <2>1. IsFiniteSet(1..(n - 1))
      <3> DEFINE k == n - 1
      <3>1. k \in Int
        BY <1>0
      <3> HIDE DEF k
      <3>2. IsFiniteSet(1..k)
        BY <3>1, FS_Interval
      <3> QED  BY <3>2 DEF k
    <2> QED  BY <1>0, <2>1
  <1>2. SlotsBefore(schema, n, gone) = Total(Slots(schema, gone), 1..(n - 1))
    BY <1>1, RuleTypes, SlotsTotal
  <1>3. \A i \in 1..(n - 1) : Slots(schema, gone)[i] \in Nat
    BY <1>1, SlotsType
  <1>4. Total(Slots(schema, gone), 1..(n - 1)) \in Nat
    BY <1>1, <1>3, TotalOfNaturals
  <1> QED  BY <1>1, <1>2, <1>4

LEMMA TakeType ==
    ASSUME NEW schema \in Schemas, NEW gone, NEW i \in DOMAIN schema.optional
    PROVE  /\ OptionalTake(schema, i, gone) \in Nat
           /\ OptionalTake(schema, i, gone) <= OptionalSlots(schema, i, gone)
           /\ \/ OptionalTake(schema, i, gone) = OptionalSlots(schema, i, gone)
              \/ OptionalTake(schema, i, gone)
                     >= schema.minOptional - SlotsBefore(schema, i, gone)
  <1> DEFINE missing == schema.minOptional - SlotsBefore(schema, i, gone)
             slots == OptionalSlots(schema, i, gone)
  <1>1. missing \in Int /\ slots \in Nat /\ i \in Nat
    BY RuleTypes, SlotsBeforeType, SlotsType
  <1>2. OptionalTake(schema, i, gone)
            = IF i > 1 /\ missing <= 0 THEN 0 ELSE Min({slots, Max({1, missing})})
    BY DEF OptionalTake
  <1> HIDE DEF missing, slots
  <1>3. Max({1, missing}) = IF 1 >= missing THEN 1 ELSE missing
    BY <1>1 DEF Max
  <1>4. Min({slots, Max({1, missing})})
            = IF slots <= Max({1, missing}) THEN slots ELSE Max({1, missing})
    <2>1. Max({1, missing}) \in Int
      BY <1>1, <1>3
    <2> QED  BY <1>1, <2>1, MinOfTwo
  <1>5. /\ OptionalTake(schema, i, gone) \in Nat
        /\ OptionalTake(schema, i, gone) <= slots
        /\ OptionalTake(schema, i, gone) = slots \/ OptionalTake(schema, i, gone) >= missing
    BY <1>1, <1>2, <1>3, <1>4
  <1> QED  BY <1>5 DEF missing, slots

Takes(schema, gone) == [i \in DOMAIN schema.optional |-> OptionalTake(schema, i, gone)]

(***************************************************************************)
(* The loop stops when it has enough keys, or goes through all of them.    *)
(***************************************************************************)
LEMMA TakesEnough ==
    ASSUME NEW schema \in Schemas, NEW gone, SufficientKeys(schema, gone)
    PROVE  Total(Takes(schema, gone), DOMAIN schema.optional) >= schema.minOptional
  <1> DEFINE m == Len(schema.optional)
             taken(n) == Total(Takes(schema, gone), 1..n)
             there(n) == Total(Slots(schema, gone), 1..n)
             Good == {n \in 0..m : taken(n) >= schema.minOptional \/ taken(n) = there(n)}
  <1>1. m \in Nat /\ DOMAIN schema.optional = 1..m /\ schema.minOptional \in Nat
    BY RuleTypes
  <1>2. 0 \in Good
    <2>1. 1..0 = {} /\ IsFiniteSet({})
      BY FS_EmptySet
    <2>2. taken(0) = 0 /\ there(0) = 0
      BY <2>1, TotalStep
    <2> QED  BY <1>1, <2>2
  <1>3. ASSUME NEW n \in 1..m, n - 1 \in Good PROVE n \in Good
    <2> DEFINE take == OptionalTake(schema, n, gone)
               slots == OptionalSlots(schema, n, gone)
    <2>1. n \in DOMAIN schema.optional /\ 1..n \subseteq DOMAIN schema.optional
      BY <1>1
    <2>2. IsFiniteSet(1..n) /\ IsFiniteSet(1..(n - 1)) /\ (1..n) \ {n} = 1..(n - 1) /\ n \in 1..n
      <3>1. IsFiniteSet(1..n) /\ IsFiniteSet(1..(n - 1))
        BY FS_Interval
      <3> QED  BY <3>1
    <2>3. /\ \A i \in 1..n : Takes(schema, gone)[i] \in Nat /\ Slots(schema, gone)[i] \in Nat
          /\ Takes(schema, gone)[n] = take /\ Slots(schema, gone)[n] = slots
      BY <2>1, TakeType, SlotsType DEF Takes
    <2>4. taken(n) = take + taken(n - 1) /\ there(n) = slots + there(n - 1)
      <3> DEFINE I == 1..n
                 J == 1..(n - 1)
                 g == Takes(schema, gone)
                 h == Slots(schema, gone)
      <3>1. /\ IsFiniteSet(I) /\ I \ {n} = J /\ n \in I
            /\ \A i \in I : g[i] \in Nat /\ h[i] \in Nat
            /\ g[n] = take /\ h[n] = slots
        BY <2>2, <2>3
      <3>2. Total(g, I) = take + Total(g, J) /\ Total(h, I) = slots + Total(h, J)
        <4> HIDE DEF I, J, g, h, take, slots
        <4> QED  BY <3>1, TotalRemove
      <3> QED  BY <3>2
    <2>5. taken(n - 1) \in Nat /\ there(n - 1) \in Nat
      BY <2>2, <2>3, TotalOfNaturals
    <2>6. SlotsBefore(schema, n, gone) = there(n - 1)
      BY <1>1, SlotsBeforeType
    <2>7. /\ take \in Nat /\ slots \in Nat
          /\ take = slots \/ take >= schema.minOptional - there(n - 1)
      BY <2>1, <2>6, TakeType, SlotsType
    <2>8. taken(n - 1) >= schema.minOptional \/ taken(n - 1) = there(n - 1)
      BY <1>3
    <2> HIDE DEF taken, there, take, slots
    <2>9. taken(n) >= schema.minOptional \/ taken(n) = there(n)
      BY <1>1, <2>4, <2>5, <2>7, <2>8
    <2> QED  BY <1>1, <2>9
  <1>4. 0..m \subseteq Good
    <2> HIDE DEF Good, m
    <2> QED  BY <1>1, <1>2, <1>3, IntervalInduction
  <1>5. taken(m) >= schema.minOptional \/ taken(m) = there(m)
    BY <1>1, <1>4
  <1>6. there(m) >= schema.minOptional
    <2>1. m + 1 \in 1..(m + 1) /\ (m + 1) - 1 = m
      BY <1>1
    <2>2. SlotsBefore(schema, m + 1, gone) = there(m)
      BY <1>1, <2>1, SlotsBeforeType
    <2>3. SlotsBefore(schema, m + 1, gone) >= schema.minOptional
      BY DEF SufficientKeys
    <2> QED  BY <2>2, <2>3
  <1> HIDE DEF taken, there
  <1>7. taken(m) >= schema.minOptional
    BY <1>5, <1>6
  <1> QED  BY <1>1, <1>7 DEF taken

(***************************************************************************)
(* A list that has the keys of a set once each has as many entries for a   *)
(* pattern as the set has keys for it.                                     *)
(***************************************************************************)
LEMMA EntriesOfSet ==
    ASSUME NEW keys \in SUBSET TrustedIds, NEW pattern,
           NEW list \in [1..Cardinality(keys) -> keys],
           \A i, j \in 1..Cardinality(keys) : i # j => list[i] # list[j]
    PROVE  /\ EntriesMatching(pattern, list) \in Nat
           /\ EntriesMatching(pattern, list) >= Cardinality(Matching(pattern, keys))
  <1> DEFINE D == 1..Cardinality(keys)
             entries == {i \in D : Match(pattern, list[i])}
             names == Matching(pattern, keys)
             f == [i \in entries |-> list[i]]
  <1>1. IsFiniteSet(keys) /\ Cardinality(keys) \in Nat
    BY SubsetsFinite
  <1>2. IsFiniteSet(D) /\ Cardinality(D) = Cardinality(keys)
    BY <1>1, FS_Interval
  <1>3. list \in Injection(D, keys)
    BY DEF Injection, IsInjective
  <1>4. list \in Surjection(D, keys)
    <2> HIDE DEF D
    <2> QED  BY <1>1, <1>2, <1>3, FS_Injection
  <1>5. f \in Surjection(entries, names)
    <2>1. f \in [entries -> names]
      BY DEF Matching
    <2>2. \A k \in names : \E i \in entries : f[i] = k
      BY <1>4 DEF Surjection, Matching
    <2> HIDE DEF f, entries, names
    <2> QED  BY <2>1, <2>2 DEF Surjection
  <1>6. IsFiniteSet(entries) /\ Cardinality(entries) \in Nat
    BY <1>2, FS_Subset, FS_CardinalityType
  <1>7. Cardinality(names) <= Cardinality(entries) /\ Cardinality(names) \in Nat
    <2>1. IsFiniteSet(names) /\ Cardinality(names) <= Cardinality(entries)
      <3> HIDE DEF f, entries, names
      <3> QED  BY <1>5, <1>6, FS_Surjection
    <2> HIDE DEF entries, names
    <2> QED  BY <2>1, FS_CardinalityType
  <1>8. EntriesMatching(pattern, list) = Cardinality(entries)
    BY DEF EntriesMatching
  <1> HIDE DEF entries, names
  <1> QED  BY <1>6, <1>7, <1>8 DEF names

(***************************************************************************)
(* The list getAvailableSigners returns passes the rule.                   *)
(***************************************************************************)
LEMMA AvailablePasses ==
    ASSUME NEW schema \in Schemas, NEW gone, SufficientKeys(schema, gone),
           NEW keys, keys = GetAvailableSigners(schema, gone),
           NEW list \in [1..Cardinality(keys) -> keys],
           \A i, j \in 1..Cardinality(keys) : i # j => list[i] # list[j]
    PROVE  PassSchema(schema, list)
  <1> DEFINE D == DOMAIN schema.optional
             take == Takes(schema, gone)
             worth == Worth(schema.optional, list)
  <1>1. keys \in SUBSET TrustedIds
    BY AvailableSignersAreAvailable
  <1>2. \A pattern : /\ EntriesMatching(pattern, list) \in Nat
                     /\ EntriesMatching(pattern, list) >= Cardinality(Matching(pattern, keys))
    BY <1>1, EntriesOfSet
  <1>3. ASSUME NEW i \in DOMAIN schema.required
        PROVE  EntriesMatching(schema.required[i], list) >= schema.required[i].times
    <2>1. Cardinality(Matching(schema.required[i], keys)) >= schema.required[i].times
      BY AvailableCover DEF Covered, Filled
    <2>2. Cardinality(Matching(schema.required[i], keys)) \in Nat
      <3>1. Matching(schema.required[i], keys) \in SUBSET TrustedIds
        BY <1>1 DEF Matching
      <3> QED  BY <3>1, SubsetsFinite
    <2>3. schema.required[i].times \in Nat
      BY RuleTypes
    <2> QED  BY <1>2, <2>1, <2>2, <2>3
  <1>4. ASSUME NEW i \in D PROVE take[i] \in Nat /\ worth[i] \in Nat /\ take[i] <= worth[i]
    <2> DEFINE p == schema.optional[i]
               some == First(take[i], GetMatchedKeys(p, gone))
               E == EntriesMatching(p, list)
    <2>1. /\ take[i] = OptionalTake(schema, i, gone)
          /\ worth[i] = Min({E, p.times})
      BY DEF Takes, Worth
    <2>2. /\ take[i] \in Nat /\ take[i] <= p.times /\ p.times \in Nat
          /\ take[i] <= Cardinality(GetMatchedKeys(p, gone))
      BY <2>1, TakeType, SlotsType, RuleTypes
    <2>3. GetMatchedKeys(p, gone) \in SUBSET TrustedIds
      BY DEF GetMatchedKeys, Matching
    <2>4. Cardinality(some) >= take[i]
      BY <2>2, <2>3, FirstIsEnough, SubsetsFinite
    <2>5. some \in SUBSET Matching(p, keys)
      <3>1. some \subseteq GetAvailableSigners(schema, gone)
        BY <2>1 DEF GetAvailableSigners
      <3>2. some \subseteq GetMatchedKeys(p, gone)
        BY DEF First
      <3>3. \A k \in GetMatchedKeys(p, gone) : Match(p, k)
        BY DEF GetMatchedKeys, Matching
      <3> HIDE DEF some, p
      <3> QED  BY <3>1, <3>2, <3>3 DEF Matching
    <2>6. Matching(p, keys) \in SUBSET TrustedIds
      BY <1>1 DEF Matching
    <2>7. /\ Cardinality(some) <= Cardinality(Matching(p, keys))
          /\ Cardinality(some) \in Nat /\ Cardinality(Matching(p, keys)) \in Nat
      <3>1. some \in SUBSET TrustedIds
        BY <2>5, <2>6
      <3> HIDE DEF some, p
      <3> QED  BY <2>5, <2>6, <3>1, LargerIsLarger, SubsetsFinite
    <2>8. E \in Nat /\ E >= Cardinality(Matching(p, keys))
      BY <1>2
    <2>9. Min({E, p.times}) = IF E <= p.times THEN E ELSE p.times
      BY <2>2, <2>8, MinOfTwo
    <2> HIDE DEF p, some, E, take, worth
    <2> QED  BY <2>1, <2>2, <2>4, <2>7, <2>8, <2>9
  <1>5. IsFiniteSet(D)
    BY RuleTypes
  <1>6. Total(take, D) <= Total(worth, D) /\ Total(take, D) \in Nat /\ Total(worth, D) \in Nat
    <2> HIDE DEF take, worth, D
    <2> QED  BY <1>4, <1>5, TotalMonotone, TotalOfNaturals
  <1>7. Total(take, D) >= schema.minOptional /\ schema.minOptional \in Nat
    BY TakesEnough, RuleTypes
  <1>8. MapThenSumSet(LAMBDA i : Min({EntriesMatching(schema.optional[i], list),
                                      schema.optional[i].times}), D)
            = Total(worth, D)
    BY <1>5, WorthTotal
  <1>9. MapThenSumSet(LAMBDA i : Min({EntriesMatching(schema.optional[i], list),
                                      schema.optional[i].times}), D)
            >= schema.minOptional
    <2> HIDE DEF take, worth, D
    <2> QED  BY <1>6, <1>7, <1>8
  <1> QED  BY <1>3, <1>9 DEF PassSchema

-----------------------------------------------------------------------------
(***************************************************************************)
(* What has been added up to a key or a signature: every element, as often *)
(* as it was added.                                                        *)
(***************************************************************************)
Tally(f, S) == [x \in {f[i] : i \in S} |-> Cardinality({i \in S : f[i] = x})]

LEMMA GreatestExists ==
    ASSUME NEW m \in Nat, NEW S \in SUBSET (1..m), S # {}
    PROVE  /\ \E x \in S : \A y \in S : x >= y
           /\ Max(S) \in S
  <1> DEFINE T == {n \in 0..m : \A y \in S : y <= n}
  <1>1. T \in SUBSET Nat /\ m \in T
    OBVIOUS
  <1>2. PICK x \in T : \A y \in T : x <= y
    <2> HIDE DEF T
    <2> QED  BY <1>1, LeastExists
  <1>3. x \in S
    <2> SUFFICES ASSUME x \notin S PROVE FALSE
      OBVIOUS
    <2>0. x \in 0..m /\ \A y \in S : y \in 1..m /\ y <= x /\ y # x
      BY <1>2
    <2>1. \A y \in S : y <= x - 1
      BY <2>0
    <2>2. PICK y \in S : TRUE
      OBVIOUS
    <2>3. x - 1 \in 0..m
      BY <2>0, <2>1, <2>2
    <2>4. x - 1 \in T /\ x \in Int
      BY <2>0, <2>1, <2>3
    <2> HIDE DEF T
    <2>5. x <= x - 1
      BY <1>2, <2>4
    <2> QED  BY <2>4, <2>5
  <1>4. \E z \in S : \A y \in S : z >= y
    BY <1>2, <1>3
  <1> QED  BY <1>4 DEF Max

(***************************************************************************)
(* One more element.                                                       *)
(***************************************************************************)
LEMMA TallyMore ==
    ASSUME NEW f, NEW S, IsFiniteSet(S), NEW j, j \notin S
    PROVE  Tally(f, S \cup {j}) = Tally(f, S) (+) SetToBag({f[j]})
  <1> DEFINE with(x) == {i \in S \cup {j} : f[i] = x}
             without(x) == {i \in S : f[i] = x}
             D == {f[i] : i \in S \cup {j}}
             T == {f[i] : i \in S}
  <1>1. \A x : IsFiniteSet(without(x)) /\ Cardinality(without(x)) \in Nat
    <2> TAKE x
    <2>1. IsFiniteSet(without(x))
      BY FS_Subset
    <2> QED  BY <2>1, FS_CardinalityType
  <1>2. ASSUME NEW x
        PROVE  Cardinality(with(x)) = Cardinality(without(x)) + (IF x = f[j] THEN 1 ELSE 0)
    <2>1. CASE x = f[j]
      <3>1. with(x) = without(x) \cup {j} /\ j \notin without(x)
        BY <2>1
      <3>2. Cardinality(without(x) \cup {j}) = Cardinality(without(x)) + 1
        <4> HIDE DEF without, with
        <4> QED  BY <1>1, <3>1, FS_AddElement
      <3> HIDE DEF with, without
      <3> QED  BY <2>1, <3>1, <3>2
    <2>2. CASE x # f[j]
      <3>1. with(x) = without(x)
        BY <2>2
      <3> HIDE DEF with, without
      <3> QED  BY <1>1, <2>2, <3>1
    <2> QED  BY <2>1, <2>2
  <1>3. \A x : x \notin T => Cardinality(without(x)) = 0
    <2> TAKE x
    <2>1. x \notin T => without(x) = {}
      OBVIOUS
    <2> HIDE DEF without, T
    <2> QED  BY <2>1, FS_EmptySet
  <1>4. D = T \cup {f[j]}
    OBVIOUS
  <1> DEFINE left == Tally(f, S)
             right == SetToBag({f[j]})
  <1>5. /\ DOMAIN left = T /\ \A x \in T : left[x] = Cardinality(without(x))
        /\ DOMAIN right = {f[j]} /\ right[f[j]] = 1
    BY DEF Tally, SetToBag
  <1>6. left (+) right = [x \in D |-> Cardinality(with(x))]
    <2>1. left (+) right = [x \in T \cup {f[j]} |->
                               (IF x \in T THEN left[x] ELSE 0)
                                   + (IF x \in {f[j]} THEN right[x] ELSE 0)]
      <3> HIDE DEF left, right, T
      <3> QED  BY <1>5 DEF (+)
    <2>2. ASSUME NEW x \in T \cup {f[j]}
          PROVE  (IF x \in T THEN left[x] ELSE 0) + (IF x \in {f[j]} THEN right[x] ELSE 0)
                     = Cardinality(with(x))
      <3>1. Cardinality(with(x)) = Cardinality(without(x)) + (IF x = f[j] THEN 1 ELSE 0)
        BY <1>2
      <3>2. Cardinality(without(x)) \in Nat /\ (x \notin T => Cardinality(without(x)) = 0)
        BY <1>1, <1>3
      <3> HIDE DEF left, right, T, with, without
      <3> QED  BY <1>5, <3>1, <3>2
    <2> HIDE DEF left, right, T, D, with
    <2> QED  BY <1>4, <2>1, <2>2
  <1>7. Tally(f, S \cup {j}) = [x \in D |-> Cardinality(with(x))]
    BY DEF Tally
  <1> QED  BY <1>6, <1>7

(***************************************************************************)
(* The loops of bls-helpers.cpp add up all elements of a vector that is    *)
(* not empty.                                                              *)
(***************************************************************************)
LEMMA AddUpTallies ==
    ASSUME NEW n \in Nat, n > 0, NEW f, NEW bags,
           bags = [i \in 1..n |-> SetToBag({f[i]})]
    PROVE  AddUp(bags) = Tally(f, 1..n)
  <1> DEFINE D == 1..(n - 1)
             Upto(T) == {1} \cup {i + 1 : i \in T}
             h == [T \in SUBSET D |-> Tally(f, Upto(T))]
             P(iter) == iter = [T \in SUBSET D |->
                                   IF T = {} THEN bags[1]
                                   ELSE iter[T \ {Max(T)}] (+) Tail(bags)[Max(T)]]
             c == CHOOSE iter : P(iter)
  <1>0. /\ Tail(bags) = [i \in 1..(n - 1) |-> SetToBag({f[i + 1]})]
        /\ DOMAIN Tail(bags) = D /\ n - 1 \in Nat
        /\ bags[1] = SetToBag({f[1]})
    <2>1. Len(bags) = n /\ \A i \in 1..n : bags[i] = SetToBag({f[i]})
      OBVIOUS
    <2>2. Tail(bags) = [i \in 1..(n - 1) |-> bags[i + 1]]
      BY <2>1
    <2> QED  BY <2>1, <2>2
  <1>1. AddUp(bags) = c[D]
    BY <1>0 DEF AddUp, FoldLeft, MapThenFoldSet
  <1>2. IsFiniteSet(D) /\ \A T \in SUBSET D : IsFiniteSet(Upto(T))
    <2>1. IsFiniteSet(D) /\ IsFiniteSet(1..n)
      BY <1>0, FS_Interval
    <2>2. \A T \in SUBSET D : Upto(T) \in SUBSET (1..n)
      BY <1>0
    <2> HIDE DEF Upto
    <2> QED  BY <2>1, <2>2, FS_Subset
  <1>3. ASSUME NEW T \in SUBSET D, T # {}
        PROVE  /\ Max(T) \in T
               /\ Tally(f, Upto(T)) = Tally(f, Upto(T \ {Max(T)})) (+) Tail(bags)[Max(T)]
    <2>1. Max(T) \in T
      BY <1>0, <1>3, GreatestExists
    <2> DEFINE x == Max(T)
               S == Upto(T \ {x})
    <2>2. x \in D /\ x + 1 \notin S /\ Upto(T) = S \cup {x + 1} /\ IsFiniteSet(S)
      <3>1. x \in D
        BY <2>1
      <3>2. IsFiniteSet(S)
        BY <1>2
      <3>3. \A i \in T : i \in Nat /\ i >= 1
        BY <1>0
      <3>4. x \in T
        BY <2>1
      <3> HIDE DEF x
      <3>5. x + 1 \notin S
        BY <3>3, <3>4
      <3>6. Upto(T) = S \cup {x + 1}
        BY <3>4
      <3> QED  BY <3>1, <3>2, <3>5, <3>6
    <2>3. Tail(bags)[x] = SetToBag({f[x + 1]})
      BY <1>0, <2>2
    <2>4. Tally(f, S \cup {x + 1}) = Tally(f, S) (+) SetToBag({f[x + 1]})
      <3> HIDE DEF S, x
      <3> QED  BY <2>2, TallyMore
    <2> HIDE DEF Upto
    <2> QED  BY <2>1, <2>2, <2>3, <2>4
  <1>4. Tally(f, Upto({})) = bags[1]
    <2>1. Upto({}) = {1}
      OBVIOUS
    <2>2. Cardinality({1}) = 1
      BY FS_Singleton
    <2>3. Tally(f, {1}) = [x \in {f[1]} |-> 1]
      BY <2>2 DEF Tally
    <2> QED  BY <1>0, <2>1, <2>3 DEF SetToBag
  <1>5. P(h)
    <2>1. \A T \in SUBSET D : h[T] = IF T = {} THEN bags[1]
                                     ELSE h[T \ {Max(T)}] (+) Tail(bags)[Max(T)]
      <3> TAKE T \in SUBSET D
      <3>1. h[T] = Tally(f, Upto(T)) /\ h[T \ {Max(T)}] = Tally(f, Upto(T \ {Max(T)}))
        <4> HIDE DEF Upto
        <4> QED  OBVIOUS
      <3> HIDE DEF h, Upto, D
      <3> QED  BY <1>3, <1>4, <3>1
    <2>2. h = [T \in SUBSET D |-> h[T]]
      OBVIOUS
    <2> HIDE DEF h, D
    <2> QED  BY <2>1, <2>2
  <1>6. P(c)
    <2> HIDE DEF P, h
    <2> QED  BY <1>5
  <1>7. c[D] = h[D]
    <2> DEFINE Good == {T \in SUBSET D : c[T] = h[T]}
    <2>1. ASSUME NEW T \in SUBSET D, \A U \in SUBSET T : U # T => U \in Good
          PROVE  T \in Good
      <3>1. /\ c[T] = IF T = {} THEN bags[1] ELSE c[T \ {Max(T)}] (+) Tail(bags)[Max(T)]
            /\ h[T] = IF T = {} THEN bags[1] ELSE h[T \ {Max(T)}] (+) Tail(bags)[Max(T)]
        <4> HIDE DEF c, h, D
        <4> QED  BY <1>5, <1>6
      <3>2. CASE T = {}
        <4> HIDE DEF c, h, D
        <4> QED  BY <3>1, <3>2
      <3>3. CASE T # {}
        <4>1. T \ {Max(T)} \in SUBSET T /\ T \ {Max(T)} # T
          BY <1>3, <3>3
        <4>2. T \ {Max(T)} \in Good
          <5> HIDE DEF Good
          <5> QED  BY <2>1, <4>1
        <4> HIDE DEF c, h, D
        <4> QED  BY <3>1, <3>3, <4>2
      <3> QED  BY <3>2, <3>3
    <2>2. SUBSET D \subseteq Good
      <3> HIDE DEF Good, D
      <3> QED  BY <1>2, <2>1, SubsetInduction
    <2> HIDE DEF c, h, D
    <2> QED  BY <2>2
  <1>8. Upto(D) = 1..n
    <2>1. \A i \in 1..n : i = 1 \/ (i - 1 \in D /\ i = (i - 1) + 1)
      BY <1>0
    <2>2. \A i \in D : i + 1 \in 1..n
      BY <1>0
    <2>3. 1 \in 1..n
      OBVIOUS
    <2> HIDE DEF D
    <2> QED  BY <2>1, <2>2, <2>3
  <1>9. h[D] = Tally(f, Upto(D))
    <2> HIDE DEF Upto, D
    <2> QED  OBVIOUS
  <1> HIDE DEF c, h, D
  <1> QED  BY <1>1, <1>7, <1>8, <1>9

(***************************************************************************)
(* A signature verifies with the key of a signer list exactly when it is   *)
(* the sum of the pieces of the enrolled key pairs, as often as they are   *)
(* in the list.                                                            *)
(***************************************************************************)
AllPieces(list, portion) ==
    [part \in (ToSet(list) \X {0}) \X {portion} |->
        Cardinality({i \in DOMAIN list : list[i] = part[1][1]})]

LEMMA VerifiedIsSigned ==
    ASSUME NEW S, NEW list \in Seq(S), list # <<>>, NEW portion, NEW signature
    PROVE  BLSVerify(AggregateKey(list), portion, signature)
               <=> signature = AllPieces(list, portion)
  <1> DEFINE n == Len(list)
             f == [i \in 1..n |-> <<list[i], 0>>]
             bags == [i \in 1..n |-> SetToBag({f[i]})]
             key == AggregateKey(list)
             expected == AllPieces(list, portion)
             found == [part \in (DOMAIN key) \X {portion} |-> key[part[1]]]
  <1>1. n \in Nat /\ n > 0 /\ DOMAIN list = 1..n
    BY EmptySeq
  <1>2. key = AddUp(bags)
    <2>1. [i \in DOMAIN list |-> PublicKey(<<list[i], 0>>)] = bags
      BY <1>1 DEF PublicKey
    <2> HIDE DEF bags
    <2> QED  BY <2>1 DEF AggregateKey, AggregatePublicKey
  <1>3. AddUp(bags) = Tally(f, 1..n)
    <2> HIDE DEF f, n
    <2> QED  BY <1>1, AddUpTallies
  <1>4. /\ DOMAIN key = ToSet(list) \X {0}
        /\ \A x \in DOMAIN key : key[x] = Cardinality({i \in 1..n : f[i] = x})
    <2>1. key = [x \in {f[i] : i \in 1..n} |-> Cardinality({i \in 1..n : f[i] = x})]
      BY <1>2, <1>3 DEF Tally
    <2>2. {f[i] : i \in 1..n} = ToSet(list) \X {0}
      <3>1. ToSet(list) = {list[i] : i \in 1..n}
        BY <1>1 DEF ToSet
      <3> HIDE DEF n
      <3> QED  BY <3>1
    <2> HIDE DEF key, f, n
    <2> QED  BY <2>1, <2>2
  <1>5. ASSUME NEW part \in (ToSet(list) \X {0}) \X {portion}
        PROVE  key[part[1]] = Cardinality({i \in DOMAIN list : list[i] = part[1][1]})
    <2>1. part[1] \in DOMAIN key /\ part[1] = <<part[1][1], 0>>
      BY <1>4
    <2>2. {i \in 1..n : f[i] = part[1]} = {i \in DOMAIN list : list[i] = part[1][1]}
      BY <1>1, <2>1
    <2> HIDE DEF f, key, n
    <2> QED  BY <1>4, <2>1, <2>2
  <1>6. found = expected
    <2> HIDE DEF key
    <2> QED  BY <1>4, <1>5 DEF AllPieces
  <1>7. BLSVerify(key, portion, signature) <=> signature = found
    BY DEF BLSVerify
  <1> HIDE DEF found, expected, key
  <1> QED  BY <1>6, <1>7 DEF expected, key

(***************************************************************************)
(* The pieces of n different keys for one packet verify with a list of     *)
(* these keys exactly when every piece is from the enrolled key pair.      *)
(***************************************************************************)
SumOfPieces(n, names, gens, portion) ==
    AggregateSignature([i \in 1..n |-> GenBLSSignature(<<names[i], gens[i]>>, portion)])

LEMMA PiecesVerify ==
    ASSUME NEW n \in Nat, n > 0, NEW names, NEW gens, NEW portion,
           \A i, j \in 1..n : i # j => names[i] # names[j],
           NEW S, NEW list \in Seq(S), list # <<>>,
           \A i, j \in DOMAIN list : i # j => list[i] # list[j],
           ToSet(list) = {names[i] : i \in 1..n},
           NEW signature, signature = SumOfPieces(n, names, gens, portion)
    PROVE  BLSVerify(AggregateKey(list), portion, signature)
               <=> \A i \in 1..n : gens[i] = 0
  <1> DEFINE part(i) == <<<<names[i], gens[i]>>, portion>>
             f == [i \in 1..n |-> part(i)]
             bags == [i \in 1..n |-> SetToBag({f[i]})]
             expected == AllPieces(list, portion)
             tally == Tally(f, 1..n)
  <1>1. signature = tally
    <2>1. [i \in 1..n |-> GenBLSSignature(<<names[i], gens[i]>>, portion)] = bags
      BY DEF GenBLSSignature
    <2> HIDE DEF f
    <2>2. AddUp(bags) = Tally(f, 1..n)
      BY AddUpTallies
    <2> HIDE DEF bags
    <2> QED  BY <2>1, <2>2 DEF SumOfPieces, AggregateSignature
  <1>2. BLSVerify(AggregateKey(list), portion, signature) <=> signature = expected
    BY VerifiedIsSigned
  <1>3. /\ DOMAIN tally = {f[i] : i \in 1..n}
        /\ DOMAIN expected = (ToSet(list) \X {0}) \X {portion}
    BY DEF Tally, AllPieces
  <1>4. ASSUME tally = expected, NEW i \in 1..n PROVE gens[i] = 0
    <2>1. f[i] \in (ToSet(list) \X {0}) \X {portion}
      <3> HIDE DEF f, tally, expected
      <3> QED  BY <1>3, <1>4
    <2>2. f[i] = <<<<names[i], gens[i]>>, portion>>
      OBVIOUS
    <2> HIDE DEF f
    <2> QED  BY <2>1, <2>2
  <1>5. ASSUME \A i \in 1..n : gens[i] = 0 PROVE tally = expected
    <2>1. {f[i] : i \in 1..n} = (ToSet(list) \X {0}) \X {portion}
      <3>1. \A i \in 1..n : f[i] = <<<<names[i], 0>>, portion>>
        BY <1>5
      <3>2. \A i \in 1..n : f[i] \in (ToSet(list) \X {0}) \X {portion}
        <4> TAKE i \in 1..n
        <4>1. f[i] = <<<<names[i], 0>>, portion>>
          BY <3>1
        <4>2. names[i] \in ToSet(list)
          OBVIOUS
        <4>3. <<names[i], 0>> \in ToSet(list) \X {0}
          BY <4>2
        <4> HIDE DEF f
        <4> QED  BY <4>1, <4>3
      <3>3. ASSUME NEW x \in (ToSet(list) \X {0}) \X {portion}
            PROVE  \E i \in 1..n : f[i] = x
        <4>1. x = <<<<x[1][1], 0>>, portion>> /\ x[1][1] \in ToSet(list)
          OBVIOUS
        <4>2. PICK i \in 1..n : x[1][1] = names[i]
          BY <4>1
        <4>3. f[i] = <<<<names[i], 0>>, portion>>
          BY <3>1
        <4>4. f[i] = x
          <5> HIDE DEF f
          <5> QED  BY <4>1, <4>2, <4>3
        <4> HIDE DEF f
        <4> QED  BY <4>4
      <3> DEFINE product == (ToSet(list) \X {0}) \X {portion}
      <3>4. \A x \in product : \E i \in 1..n : f[i] = x
        BY <3>3
      <3> HIDE DEF f, product
      <3>5. {f[i] : i \in 1..n} = product
        BY <3>2, <3>4 DEF product
      <3> QED  BY <3>5 DEF product
    <2>2. ASSUME NEW i \in 1..n
          PROVE  Cardinality({j \in 1..n : f[j] = f[i]}) = 1
      <3>1. {j \in 1..n : f[j] = f[i]} = {i}
        OBVIOUS
      <3> HIDE DEF f
      <3> QED  BY <3>1, FS_Singleton
    <2>3. ASSUME NEW i \in 1..n
          PROVE  Cardinality({j \in DOMAIN list : list[j] = f[i][1][1]}) = 1
      <3> DEFINE name == f[i][1][1]
      <3>1. name = names[i]
        OBVIOUS
      <3>2. names[i] \in ToSet(list)
        OBVIOUS
      <3>3. PICK k \in DOMAIN list : list[k] = names[i]
        BY <3>2 DEF ToSet
      <3> HIDE DEF name
      <3>4. {j \in DOMAIN list : list[j] = name} = {k}
        BY <3>1, <3>3
      <3>5. Cardinality({j \in DOMAIN list : list[j] = name}) = 1
        BY <3>4, FS_Singleton
      <3> QED  BY <3>5 DEF name
    <2>4. tally = [x \in {f[i] : i \in 1..n} |-> Cardinality({j \in 1..n : f[j] = x})]
      BY DEF Tally
    <2>5. expected = [x \in {f[i] : i \in 1..n} |->
                         Cardinality({j \in DOMAIN list : list[j] = x[1][1]})]
      <3> HIDE DEF f
      <3> QED  BY <2>1 DEF AllPieces
    <2> HIDE DEF f, tally, expected
    <2>6. \A x \in {f[i] : i \in 1..n} :
             Cardinality({j \in 1..n : f[j] = x})
                 = Cardinality({j \in DOMAIN list : list[j] = x[1][1]})
      BY <2>2, <2>3
    <2> QED  BY <2>4, <2>5, <2>6
  <1> HIDE DEF tally, expected
  <1> QED  BY <1>1, <1>2, <1>4, <1>5

=============================================================================

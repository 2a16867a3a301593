-------------------------- MODULE ContainerProofs ---------------------------
(***************************************************************************)
(* Proofs about the container of module SchemaContainer, for every finite  *)
(* set of trusted keys, every rule that can be read, and any number of     *)
(* replacements: the list stays bounded, the first one passes, a saved     *)
(* rule is not weaker, and getAvailableSigners and replaceSigner, which    *)
(* Schema defines without iterating, do what their loops do.               *)
(***************************************************************************)
EXTENDS SchemaContainer, OperatorProofs

(***************************************************************************)
(* Why the list stays bounded: its keys can be dealt out to the places of  *)
(* the rule, each place taking at most m_times keys that match it.  A      *)
(* replacement deals the new key to the pattern it was looked up for,      *)
(* which had a place left.                                                 *)
(***************************************************************************)
Deals(patterns) == [DOMAIN patterns -> SUBSET TrustedIds]

FitsIn(deal, patterns) ==
    \A i \in DOMAIN patterns :
        /\ \A k \in deal[i] : Match(patterns[i], k)
        /\ Cardinality(deal[i]) <= patterns[i].times

Dealt(keys, schema, R, O) ==
    /\ keys = (UNION {R[i] : i \in DOMAIN schema.required})
                  \cup (UNION {O[i] : i \in DOMAIN schema.optional})
    /\ FitsIn(R, schema.required)
    /\ FitsIn(O, schema.optional)

Fits(keys, schema) ==
    \E R \in Deals(schema.required), O \in Deals(schema.optional) :
        Dealt(keys, schema, R, O)

Inv ==
    /\ input \in Inputs
    /\ rule \in Schemas
    /\ state \in {"unread", "new", "listed", "threw", "failed"}
    /\ state \in {"unread", "new", "threw"} => list = {}
    /\ list \in SUBSET TrustedIds
    /\ Fits(list, rule)

-----------------------------------------------------------------------------
LEMMA EmptyFits ==
    ASSUME NEW schema \in Schemas
    PROVE  Fits({}, schema)
  <1> DEFINE R == [i \in DOMAIN schema.required |-> {}]
             O == [i \in DOMAIN schema.optional |-> {}]
  <1>1. R \in Deals(schema.required) /\ O \in Deals(schema.optional)
    BY DEF Deals
  <1>2. Cardinality({}) = 0
    BY FS_EmptySet
  <1>3. FitsIn(R, schema.required) /\ FitsIn(O, schema.optional)
    BY <1>2, RuleTypes DEF FitsIn
  <1>4. {} = (UNION {R[i] : i \in DOMAIN schema.required})
                 \cup (UNION {O[i] : i \in DOMAIN schema.optional})
    OBVIOUS
  <1>5. Dealt({}, schema, R, O)
    BY <1>3, <1>4 DEF Dealt
  <1> HIDE DEF R, O
  <1> QED  BY <1>1, <1>5 DEF Fits

(***************************************************************************)
(* getAvailableSigners deals its keys out as it goes.                      *)
(***************************************************************************)
LEMMA AvailableFits ==
    ASSUME NEW schema \in Schemas, NEW gone
    PROVE  Fits(GetAvailableSigners(schema, gone), schema)
  <1> DEFINE R == [i \in DOMAIN schema.required |->
                      First(schema.required[i].times, GetMatchedKeys(schema.required[i], gone))]
             O == [i \in DOMAIN schema.optional |->
                      First(OptionalTake(schema, i, gone), GetMatchedKeys(schema.optional[i], gone))]
  <1>1. \A pattern : /\ GetMatchedKeys(pattern, gone) \in SUBSET TrustedIds
                     /\ \A k \in GetMatchedKeys(pattern, gone) : Match(pattern, k)
    BY DEF GetMatchedKeys, Matching
  <1>2. ASSUME NEW i \in DOMAIN schema.required
        PROVE  /\ R[i] \in SUBSET TrustedIds
               /\ \A k \in R[i] : Match(schema.required[i], k)
               /\ Cardinality(R[i]) <= schema.required[i].times
    BY <1>1, RuleTypes, FirstIsBounded
  <1>3. ASSUME NEW i \in DOMAIN schema.optional
        PROVE  /\ O[i] \in SUBSET TrustedIds
               /\ \A k \in O[i] : Match(schema.optional[i], k)
               /\ Cardinality(O[i]) <= schema.optional[i].times
    <2> DEFINE n == OptionalTake(schema, i, gone)
               S == GetMatchedKeys(schema.optional[i], gone)
    <2>1. /\ n \in Nat /\ n <= schema.optional[i].times
          /\ schema.optional[i].times \in Nat
      BY TakeType, SlotsType, RuleTypes
    <2>2. S \in SUBSET TrustedIds /\ \A k \in S : Match(schema.optional[i], k)
      BY <1>1
    <2>3. O[i] = First(n, S)
      OBVIOUS
    <2> HIDE DEF n, S, O
    <2>4. O[i] \in SUBSET S /\ Cardinality(O[i]) \in Nat /\ Cardinality(O[i]) <= n
      BY <2>1, <2>2, <2>3, FirstIsBounded
    <2> QED  BY <2>1, <2>2, <2>4
  <1>4. R \in Deals(schema.required) /\ O \in Deals(schema.optional)
    BY <1>2, <1>3 DEF Deals
  <1>5. FitsIn(R, schema.required) /\ FitsIn(O, schema.optional)
    <2> HIDE DEF R, O
    <2> QED  BY <1>2, <1>3 DEF FitsIn
  <1>6. GetAvailableSigners(schema, gone)
            = (UNION {R[i] : i \in DOMAIN schema.required})
                  \cup (UNION {O[i] : i \in DOMAIN schema.optional})
    BY DEF GetAvailableSigners
  <1> HIDE DEF R, O
  <1> QED  BY <1>4, <1>5, <1>6 DEF Fits, Dealt

(***************************************************************************)
(* A key found for a pattern fits beside the ones the pattern has.         *)
(***************************************************************************)
LEMMA NewKeyFits ==
    ASSUME NEW pattern, pattern.times \in Nat, NEW gone,
           NEW existing \in SUBSET TrustedIds, NEW mine \in SUBSET existing,
           \A k \in mine : Match(pattern, k), Cardinality(mine) <= pattern.times,
           NEW new, new = NewKeyForPattern(existing, pattern, gone)
    PROVE  /\ new \in SUBSET TrustedIds
           /\ \A k \in new : Match(pattern, k)
           /\ Cardinality(mine \cup new) <= pattern.times
  <1>1. CASE Filled(existing, pattern)
    BY <1>1 DEF NewKeyForPattern
  <1>2. CASE ~Filled(existing, pattern)
    <2> DEFINE S == GetMatchedKeys(pattern, gone) \ existing
               M == Matching(pattern, existing)
    <2>1. new = First(1, S) /\ S \in SUBSET TrustedIds /\ \A k \in S : Match(pattern, k)
      BY <1>2 DEF NewKeyForPattern, GetMatchedKeys, Matching
    <2>2. /\ new \in SUBSET S /\ IsFiniteSet(new)
          /\ Cardinality(new) \in Nat /\ Cardinality(new) <= 1
      <3> HIDE DEF S
      <3> QED  BY <2>1, FirstIsBounded
    <2>3. M \in SUBSET TrustedIds /\ mine \in SUBSET M /\ mine \in SUBSET TrustedIds
      BY DEF Matching
    <2>4. Cardinality(M) < pattern.times /\ Cardinality(M) \in Nat
      <3>1. Cardinality(M) \in Nat
        BY <2>3, SubsetsFinite
      <3> QED  BY <1>2, <3>1 DEF Filled
    <2>5. /\ IsFiniteSet(mine) /\ Cardinality(mine) \in Nat
          /\ Cardinality(mine) <= Cardinality(M)
      <3> HIDE DEF M
      <3> QED  BY <2>3, SubsetsFinite, LargerIsLarger
    <2>6. /\ Cardinality(mine \cup new) <= Cardinality(mine) + Cardinality(new)
          /\ Cardinality(mine \cup new) \in Nat
      <3>1. IsFiniteSet(mine \cap new)
        BY <2>5, FS_Subset
      <3>2. Cardinality(mine \cap new) \in Nat
        BY <3>1, FS_CardinalityType
      <3>3. Cardinality(mine \cup new)
                = Cardinality(mine) + Cardinality(new) - Cardinality(mine \cap new)
        BY <2>2, <2>5, FS_Union
      <3>4. IsFiniteSet(mine \cup new)
        BY <2>2, <2>5, FS_Union
      <3>5. Cardinality(mine \cup new) \in Nat
        BY <3>4, FS_CardinalityType
      <3> QED  BY <2>2, <2>5, <3>2, <3>3, <3>5
    <2> HIDE DEF S, M
    <2> QED  BY <2>1, <2>2, <2>4, <2>5, <2>6
  <1> QED  BY <1>1, <1>2

LEMMA FewerFits ==
    ASSUME NEW S \in SUBSET TrustedIds, NEW n \in Nat, Cardinality(S) <= n, NEW T \in SUBSET S
    PROVE  Cardinality(T) <= n
  <1>1. Cardinality(T) <= Cardinality(S) /\ Cardinality(T) \in Nat /\ Cardinality(S) \in Nat
    BY SubsetsFinite, LargerIsLarger
  <1> QED  BY <1>1

(***************************************************************************)
(* replaceSigner keeps the deal, but for the lost key, and deals each new  *)
(* key to the pattern it was found for.                                    *)
(***************************************************************************)
LEMMA ReplacementFits ==
    ASSUME NEW schema \in Schemas, NEW gone, NEW key,
           NEW keys \in SUBSET TrustedIds, Fits(keys, schema),
           NEW r \in ReplaceSigner(keys, key, schema, gone), r.signers # {}
    PROVE  Fits(r.signers, schema)
  <1> DEFINE kept == keys \ {key}
  <1>1. PICK R \in Deals(schema.required), O \in Deals(schema.optional) :
            Dealt(keys, schema, R, O)
    BY DEF Fits
  <1>2. PICK added \in Additions(schema.required) :
            /\ RequiredLoop(kept, added, key, schema.required, gone)
            /\ r = Replacement(kept, added, key, schema, gone)
    BY DEF ReplaceSigner
  <1> DEFINE required == UNION {added[i] : i \in DOMAIN schema.required}
             optional == OptionalReplacement(kept \cup required, schema.optional, gone)
             fills == {i \in DOMAIN schema.optional :
                          NewKeyForPattern(kept \cup required, schema.optional[i], gone) # {}}
             R2 == [i \in DOMAIN schema.required |-> (R[i] \ {key}) \cup added[i]]
             O2 == [i \in DOMAIN schema.optional |->
                       (O[i] \ {key})
                           \cup (IF fills # {} /\ i = Min(fills) THEN optional ELSE {})]
  <1>3. r.signers = kept \cup required \cup optional
    <2>1. r = NoReplacement \/ r = [signers |-> kept \cup required \cup optional,
                                    diff    |-> required \cup optional]
      BY <1>2 DEF Replacement
    <2> HIDE DEF required, optional
    <2> QED  BY <2>1 DEF NoReplacement
  <1>4. \A i \in DOMAIN schema.required : added[i] \in SUBSET TrustedIds
    BY <1>2 DEF Additions
  <1>5. ASSUME NEW i \in DOMAIN schema.required
        PROVE  /\ R2[i] \in SUBSET TrustedIds
               /\ \A k \in R2[i] : Match(schema.required[i], k)
               /\ Cardinality(R2[i]) <= schema.required[i].times
    <2> DEFINE p == schema.required[i]
               mine == R[i] \ {key}
               existing == Before(kept, added, i)
               new == added[i]
    <2>0. Len(schema.required) \in Nat /\ DOMAIN schema.required = 1..Len(schema.required)
      BY RuleTypes
    <2>1. existing \in SUBSET TrustedIds
      BY <1>4, <2>0 DEF Before
    <2>2. /\ mine \in SUBSET kept /\ mine \in SUBSET existing
          /\ R[i] \in SUBSET TrustedIds
          /\ \A k \in R[i] : Match(p, k)
          /\ Cardinality(R[i]) <= p.times
          /\ p.times \in Nat
      BY <1>1, RuleTypes DEF Dealt, FitsIn, Deals, Before
    <2>3. Cardinality(mine) <= p.times
      <3> HIDE DEF p
      <3> QED  BY <2>2, FewerFits
    <2>4. CASE Match(p, key)
      <3>1. new = NewKeyForPattern(existing, p, gone)
        BY <1>2, <2>4 DEF RequiredLoop
      <3>2. /\ \A k \in new : Match(p, k)
            /\ Cardinality(mine \cup new) <= p.times
        <4>1. \A k \in mine : Match(p, k)
          BY <2>2
        <4> HIDE DEF p, mine, existing, new
        <4> QED  BY <2>1, <2>2, <2>3, <3>1, <4>1, NewKeyFits
      <3> QED  BY <1>4, <2>2, <3>2
    <2>5. CASE ~Match(p, key)
      <3>1. added[i] = {}
        BY <1>2, <2>5 DEF RequiredLoop
      <3> QED  BY <2>2, <2>3, <3>1
    <2> QED  BY <2>4, <2>5
  <1>6. kept \cup required \in SUBSET TrustedIds
    BY <1>4
  <1>7. fills # {} => /\ Min(fills) \in fills
                      /\ optional = NewKeyForPattern(kept \cup required,
                                                     schema.optional[Min(fills)], gone)
    <2>1. optional = IF fills = {} THEN {}
                     ELSE NewKeyForPattern(kept \cup required,
                                           schema.optional[Min(fills)], gone)
      BY DEF OptionalReplacement
    <2>2. fills \in SUBSET Nat
      BY RuleTypes
    <2> HIDE DEF fills, optional, required
    <2> QED  BY <2>1, <2>2, LeastExists DEF Min
  <1>8. fills = {} => optional = {}
    BY DEF OptionalReplacement
  <1>9. ASSUME NEW i \in DOMAIN schema.optional
        PROVE  /\ O2[i] \in SUBSET TrustedIds
               /\ \A k \in O2[i] : Match(schema.optional[i], k)
               /\ Cardinality(O2[i]) <= schema.optional[i].times
    <2> DEFINE p == schema.optional[i]
               mine == O[i] \ {key}
               existing == kept \cup required
    <2>2. /\ mine \in SUBSET existing
          /\ O[i] \in SUBSET TrustedIds
          /\ \A k \in O[i] : Match(p, k)
          /\ Cardinality(O[i]) <= p.times
          /\ p.times \in Nat
      BY <1>1, RuleTypes DEF Dealt, FitsIn, Deals
    <2>3. Cardinality(mine) <= p.times
      <3> HIDE DEF p
      <3> QED  BY <2>2, FewerFits
    <2>4. CASE fills # {} /\ i = Min(fills)
      <3>1. optional = NewKeyForPattern(existing, p, gone)
        BY <1>7, <2>4
      <3>2. O2[i] = mine \cup optional
        BY <2>4
      <3>3. /\ optional \in SUBSET TrustedIds
            /\ \A k \in optional : Match(p, k)
            /\ Cardinality(mine \cup optional) <= p.times
        <4>1. \A k \in mine : Match(p, k)
          BY <2>2
        <4>2. existing \in SUBSET TrustedIds
          BY <1>6
        <4> HIDE DEF p, mine, existing, optional
        <4> QED  BY <2>2, <2>3, <3>1, <4>1, <4>2, NewKeyFits
      <3> HIDE DEF O2, optional
      <3> QED  BY <2>2, <3>2, <3>3
    <2>5. CASE ~(fills # {} /\ i = Min(fills))
      <3>1. O2[i] = mine
        BY <2>5
      <3> HIDE DEF O2
      <3> QED  BY <2>2, <2>3, <3>1
    <2> QED  BY <2>4, <2>5
  <1>10. r.signers = (UNION {R2[i] : i \in DOMAIN schema.required})
                         \cup (UNION {O2[i] : i \in DOMAIN schema.optional})
    <2>1. \A k : k \in r.signers <=> \/ k \in keys /\ k # key
                                     \/ k \in required
                                     \/ k \in optional
      BY <1>3
    <2>2. \A k \in keys : \/ \E i \in DOMAIN schema.required : k \in R[i]
                          \/ \E i \in DOMAIN schema.optional : k \in O[i]
      BY <1>1 DEF Dealt
    <2>3. /\ \A i \in DOMAIN schema.required : R[i] \subseteq keys
          /\ \A i \in DOMAIN schema.optional : O[i] \subseteq keys
      BY <1>1 DEF Dealt
    <2>4. \A k : k \in required <=> \E i \in DOMAIN schema.required : k \in added[i]
      OBVIOUS
    <2>5. \A k : k \in optional <=> \E i \in DOMAIN schema.optional :
                                       fills # {} /\ i = Min(fills) /\ k \in optional
      <3>1. fills # {} => Min(fills) \in DOMAIN schema.optional
        BY <1>7
      <3> HIDE DEF fills, optional
      <3> QED  BY <1>8, <3>1
    <2>6. /\ \A i \in DOMAIN schema.required : \A k :
                 k \in R2[i] <=> (k \in R[i] /\ k # key) \/ k \in added[i]
          /\ \A i \in DOMAIN schema.optional : \A k :
                 k \in O2[i] <=> \/ k \in O[i] /\ k # key
                                 \/ fills # {} /\ i = Min(fills) /\ k \in optional
      <3> HIDE DEF fills, optional
      <3> QED  OBVIOUS
    <2> HIDE DEF R2, O2, required, optional, fills
    <2>7. \A k : k \in r.signers <=> \/ \E i \in DOMAIN schema.required : k \in R2[i]
                                     \/ \E i \in DOMAIN schema.optional : k \in O2[i]
      BY <2>1, <2>2, <2>3, <2>4, <2>5, <2>6
    <2> QED  BY <2>7
  <1>11. R2 \in Deals(schema.required) /\ O2 \in Deals(schema.optional)
    <2>1. /\ R2 = [i \in DOMAIN schema.required |-> R2[i]]
          /\ O2 = [i \in DOMAIN schema.optional |-> O2[i]]
      OBVIOUS
    <2> HIDE DEF R2, O2
    <2> QED  BY <1>5, <1>9, <2>1 DEF Deals
  <1>12. FitsIn(R2, schema.required) /\ FitsIn(O2, schema.optional)
    <2> HIDE DEF R2, O2
    <2> QED  BY <1>5, <1>9 DEF FitsIn
  <1> HIDE DEF R2, O2
  <1> QED  BY <1>10, <1>11, <1>12 DEF Fits, Dealt

(***************************************************************************)
(* What fits in the places of a rule is at most as much as it has places.  *)
(***************************************************************************)
LEMMA DealBounded ==
    ASSUME NEW patterns, IsFiniteSet(DOMAIN patterns),
           \A i \in DOMAIN patterns : patterns[i].times \in Nat,
           NEW deal \in Deals(patterns), FitsIn(deal, patterns)
    PROVE  LET keys == UNION {deal[i] : i \in DOMAIN patterns}
               places == MapThenSumSet(LAMBDA i : patterns[i].times, DOMAIN patterns)
           IN  /\ IsFiniteSet(keys) /\ Cardinality(keys) \in Nat
               /\ places \in Nat
               /\ Cardinality(keys) <= places
  <1> DEFINE D == DOMAIN patterns
             keys == UNION {deal[i] : i \in D}
             g == Times(patterns)
  <1>1. \A i \in D : /\ g[i] \in Nat /\ IsFiniteSet(deal[i])
                     /\ Cardinality(deal[i]) <= g[i]
    BY SubsetsFinite DEF Deals, FitsIn, Times
  <1>2. /\ IsFiniteSet(keys) /\ Cardinality(keys) <= Total(g, D)
        /\ Total(g, D) \in Nat
    <2> HIDE DEF g, D
    <2>1. IsFiniteSet(D)
      BY DEF D
    <2>2. IsFiniteSet(keys) /\ Cardinality(keys) <= Total(g, D)
      BY <1>1, <2>1, UnionBound
    <2>3. Total(g, D) \in Nat
      BY <1>1, <2>1, TotalOfNaturals
    <2> QED  BY <2>2, <2>3
  <1>3. Cardinality(keys) \in Nat
    BY <1>2, FS_CardinalityType
  <1>4. MapThenSumSet(LAMBDA i : patterns[i].times, DOMAIN patterns) = Total(g, D)
    BY TimesTotal
  <1> HIDE DEF keys, g
  <1> QED  BY <1>2, <1>3, <1>4 DEF keys

LEMMA FitsBounded ==
    ASSUME Inv
    PROVE  ListBounded
  <1>0. rule \in Schemas
    BY DEF Inv
  <1> DEFINE places(patterns) == MapThenSumSet(LAMBDA i : patterns[i].times, DOMAIN patterns)
  <1>1. PICK R \in Deals(rule.required), O \in Deals(rule.optional) :
            Dealt(list, rule, R, O)
    BY DEF Inv, Fits
  <1> DEFINE r == UNION {R[i] : i \in DOMAIN rule.required}
             o == UNION {O[i] : i \in DOMAIN rule.optional}
  <1>2. /\ IsFiniteSet(r) /\ Cardinality(r) \in Nat
        /\ places(rule.required) \in Nat /\ Cardinality(r) <= places(rule.required)
    BY <1>0, <1>1, RuleTypes, DealBounded DEF Dealt
  <1>3. /\ IsFiniteSet(o) /\ Cardinality(o) \in Nat
        /\ places(rule.optional) \in Nat /\ Cardinality(o) <= places(rule.optional)
    BY <1>0, <1>1, RuleTypes, DealBounded DEF Dealt
  <1>4. list = r \cup o
    BY <1>1 DEF Dealt
  <1>5. ListBounded <=> Cardinality(list) <= places(rule.required) + places(rule.optional)
    BY DEF ListBounded
  <1> HIDE DEF r, o, places
  <1>6. Cardinality(r \cup o) <= Cardinality(r) + Cardinality(o)
    <2>1. IsFiniteSet(r \cap o) /\ IsFiniteSet(r \cup o)
      BY <1>2, <1>3, FS_Subset, FS_Union
    <2>2. Cardinality(r \cap o) \in Nat
      BY <2>1, FS_CardinalityType
    <2>3. Cardinality(r \cup o) = Cardinality(r) + Cardinality(o) - Cardinality(r \cap o)
      BY <1>2, <1>3, FS_Union
    <2> QED  BY <1>2, <1>3, <2>2, <2>3
  <1>7. Cardinality(r \cup o) \in Nat
    <2>1. IsFiniteSet(r \cup o)
      BY <1>2, <1>3, FS_Union
    <2> QED  BY <2>1, FS_CardinalityType
  <1> QED  BY <1>2, <1>3, <1>4, <1>5, <1>6, <1>7

-----------------------------------------------------------------------------
(* What is read from a text is a rule, and what is written is a text.      *)
LEMMA FunctionsAreSequences ==
    ASSUME NEW T, NEW n \in Nat, NEW f \in [1..n -> T]
    PROVE  f \in Seq(T)
  BY SeqDef

LEMMA SizesAreNatural == \A n \in Ints : ToSize(n) \in Nat
  BY NumbersAssumption DEF Ints, ToSize

LEMMA NumberRead ==
    ASSUME NEW n \in Int
    PROVE  /\ ReadNumber(n) \in Nat
           /\ n \in Nat /\ n <= IntMax => ReadNumber(n) = n
           /\ n > IntMax => ReadNumber(n) = 0
  <1>1. n \in Ints => ToSize(n) \in Nat
    BY SizesAreNatural
  <1>2. n \in Nat /\ n <= IntMax => n \in Ints /\ ToSize(n) = n
    BY NumbersAssumption DEF Ints, ToSize
  <1>3. n > IntMax => n \notin Ints
    BY NumbersAssumption DEF Ints
  <1> QED  BY <1>1, <1>2, <1>3 DEF ReadNumber

LEMMA PatternRead ==
    ASSUME NEW text \in PatternTexts
    PROVE  ReadPattern(text) \in Patterns
  <1> DEFINE n == Len(text.comps)
             name == [i \in DOMAIN text.comps |->
                         IF text.comps[i] = STAR THEN WILDCARD ELSE text.comps[i]]
             times == IF text.prefix = {} THEN 1 ELSE ToSize(CHOOSE k \in text.prefix : TRUE)
  <1>1. text.comps \in Seq(Nat \cup {STAR}) /\ text.prefix \in SUBSET Ints
    BY DEF PatternTexts
  <1>2. /\ n \in Nat /\ DOMAIN text.comps = 1..n
        /\ \A i \in DOMAIN text.comps : text.comps[i] \in Nat \cup {STAR}
    BY <1>1
  <1>3. name \in [1..n -> Nat \cup {WILDCARD}]
    BY <1>2
  <1>4. name \in Seq(Nat \cup {WILDCARD})
    <2> HIDE DEF name, n
    <2> QED  BY <1>2, <1>3, FunctionsAreSequences
  <1>5. times \in Nat
    BY <1>1, SizesAreNatural
  <1>6. ReadPattern(text) = [name |-> name, times |-> times]
    BY DEF ReadPattern
  <1> HIDE DEF name, times
  <1> QED  BY <1>4, <1>5, <1>6 DEF Patterns

LEMMA ComponentPrinted ==
    ASSUME NEW c \in Nat \cup {WILDCARD}
    PROVE  /\ PrintComponent(c) \in Nat
           /\ PrintComponent(c) # c => PrintComponent(c) >= PrintedWildcard
  BY NumbersAssumption, WildcardAssumption DEF PrintComponent

LEMMA PatternPrinted ==
    ASSUME NEW pattern \in Patterns
    PROVE  /\ PrintPattern(pattern) \in PatternTexts
           /\ PrintPattern(pattern).prefix = {}
           /\ PrintPattern(pattern).comps
                  = [i \in DOMAIN pattern.name |-> PrintComponent(pattern.name[i])]
           /\ DOMAIN pattern.name = 1..Len(pattern.name) /\ Len(pattern.name) \in Nat
           /\ \A i \in DOMAIN pattern.name : pattern.name[i] \in Nat \cup {WILDCARD}
  <1> DEFINE n == Len(pattern.name)
             comps == [i \in DOMAIN pattern.name |-> PrintComponent(pattern.name[i])]
  <1>1. pattern.name \in Seq(Nat \cup {WILDCARD})
    BY DEF Patterns
  <1>2. /\ n \in Nat /\ DOMAIN pattern.name = 1..n
        /\ \A i \in DOMAIN pattern.name : pattern.name[i] \in Nat \cup {WILDCARD}
    BY <1>1
  <1>3. comps \in [1..n -> Nat \cup {STAR}]
    BY <1>2, ComponentPrinted
  <1>4. comps \in Seq(Nat \cup {STAR})
    <2> HIDE DEF comps, n
    <2> QED  BY <1>2, <1>3, FunctionsAreSequences
  <1>5. PrintPattern(pattern) = [prefix |-> {}, slash |-> TRUE, comps |-> comps]
    BY DEF PrintPattern, PatternText
  <1>6. PrintPattern(pattern).comps = comps /\ PrintPattern(pattern).prefix = {}
    <2> HIDE DEF comps
    <2> QED  BY <1>5
  <1>7. PrintPattern(pattern) \in PatternTexts
    <2> HIDE DEF comps
    <2> QED  BY <1>4, <1>5 DEF PatternTexts
  <1> QED  BY <1>2, <1>6, <1>7

LEMMA SectionRead ==
    ASSUME NEW section \in SchemaSections
    PROVE  FromSection(section) \in Schemas
  <1> DEFINE required == [i \in DOMAIN section.allOf |-> ReadPattern(section.allOf[i])]
             optional == [i \in DOMAIN section.atLeast |-> ReadPattern(section.atLeast[i])]
  <1>1. /\ section.allOf \in Seq(PatternTexts) /\ section.atLeast \in Seq(PatternTexts)
        /\ section.pktName \in PatternTexts /\ section.atLeastNum \in Int
    BY DEF SchemaSections
  <1>2. /\ Len(section.allOf) \in Nat /\ DOMAIN section.allOf = 1..Len(section.allOf)
        /\ \A i \in DOMAIN section.allOf : section.allOf[i] \in PatternTexts
        /\ Len(section.atLeast) \in Nat /\ DOMAIN section.atLeast = 1..Len(section.atLeast)
        /\ \A i \in DOMAIN section.atLeast : section.atLeast[i] \in PatternTexts
    BY <1>1
  <1>3. /\ required \in [1..Len(section.allOf) -> Patterns]
        /\ optional \in [1..Len(section.atLeast) -> Patterns]
    BY <1>2, PatternRead
  <1>4. required \in Seq(Patterns) /\ optional \in Seq(Patterns)
    <2> HIDE DEF required, optional
    <2> QED  BY <1>2, <1>3, FunctionsAreSequences
  <1>5. ReadPattern(section.pktName) \in Patterns
    BY <1>1, PatternRead
  <1>6. FromSection(section) = [pktName  |-> ReadPattern(section.pktName),
                                required |-> required, optional |-> optional,
                                minOptional |-> ReadNumber(section.atLeastNum)]
    BY DEF FromSection
  <1>7. ReadNumber(section.atLeastNum) \in Nat
    BY <1>1, NumberRead
  <1> HIDE DEF required, optional
  <1> QED  BY <1>4, <1>5, <1>6, <1>7 DEF Schemas

LEMMA RuleWritten ==
    ASSUME NEW schema \in Schemas
    PROVE  ToSection(schema) \in SchemaSections
  <1> DEFINE allOf == [i \in DOMAIN schema.required |-> PrintPattern(schema.required[i])]
             atLeast == [i \in DOMAIN schema.optional |-> PrintPattern(schema.optional[i])]
  <1>1. /\ schema.required \in Seq(Patterns) /\ schema.optional \in Seq(Patterns)
        /\ schema.pktName \in Patterns /\ schema.minOptional \in Nat
    BY DEF Schemas
  <1>2. /\ Len(schema.required) \in Nat /\ DOMAIN schema.required = 1..Len(schema.required)
        /\ \A i \in DOMAIN schema.required : schema.required[i] \in Patterns
        /\ Len(schema.optional) \in Nat /\ DOMAIN schema.optional = 1..Len(schema.optional)
        /\ \A i \in DOMAIN schema.optional : schema.optional[i] \in Patterns
    BY <1>1
  <1>3. /\ allOf \in [1..Len(schema.required) -> PatternTexts]
        /\ atLeast \in [1..Len(schema.optional) -> PatternTexts]
    BY <1>2, PatternPrinted
  <1>4. allOf \in Seq(PatternTexts) /\ atLeast \in Seq(PatternTexts)
    <2> HIDE DEF allOf, atLeast
    <2> QED  BY <1>2, <1>3, FunctionsAreSequences
  <1>5. PrintPattern(schema.pktName) \in PatternTexts
    BY <1>1, PatternPrinted
  <1>6. ToSection(schema) = [pktName |-> PrintPattern(schema.pktName), ruleId |-> TRUE,
                             atLeastNum |-> schema.minOptional,
                             allOf |-> allOf, atLeast |-> atLeast]
    BY DEF ToSection
  <1> HIDE DEF allOf, atLeast
  <1> QED  BY <1>1, <1>4, <1>5, <1>6 DEF SchemaSections

-----------------------------------------------------------------------------
LEMMA InitInv == Init => Inv
  <1> SUFFICES ASSUME Init PROVE Inv
    OBVIOUS
  <1>1. EmptyRule \in Schemas
    <2>1. \A S : <<>> \in Seq(S)
      OBVIOUS
    <2> QED  BY <2>1 DEF EmptyRule, Schemas, Patterns
  <1>2. Fits({}, EmptyRule)
    BY <1>1, EmptyFits
  <1> QED  BY <1>1, <1>2 DEF Init, Inv

LEMMA InvInductive == Inv /\ [Next]_vars => Inv'
  <1> SUFFICES ASSUME Inv, [Next]_vars PROVE Inv'
    OBVIOUS
  <1>1. CASE Read
    <2>1. /\ list = {} /\ list' = list /\ input' = input /\ input \in Inputs
          /\ rule \in Schemas
      BY <1>1 DEF Inv, Read
    <2>2. input \in [file : SchemaSections, text : SchemaSections]
      BY <2>1, InputsAssumption
    <2>3. Parse(input) \in SchemaSections
      BY <2>2 DEF Parse
    <2>4. rule' \in Schemas
      BY <1>1, <2>1, <2>3, SectionRead DEF Read
    <2>5. Fits({}, rule')
      BY <2>4, EmptyFits
    <2>6. state' \in {"new", "threw"}
      BY <1>1 DEF Read
    <2> QED  BY <2>1, <2>4, <2>5, <2>6 DEF Inv
  <1>2. CASE Reload
    <2>1. /\ list = {} /\ list' = list /\ input' = input /\ input \in Inputs
          /\ rule \in Schemas /\ state' = "new"
      BY <1>2 DEF Inv, Reload
    <2>2. rule' \in Schemas
      BY <1>2, <2>1, RuleWritten, SectionRead DEF Reload
    <2>3. Fits({}, rule')
      BY <2>2, EmptyFits
    <2> QED  BY <2>1, <2>2, <2>3 DEF Inv
  <1>3. CASE Choose
    <2>1. /\ rule' = rule /\ rule \in Schemas /\ input' = input /\ input \in Inputs
          /\ list = {} /\ Fits(list, rule)
      BY <1>3 DEF Inv, Choose
    <2>2. \/ state' = "threw" /\ list' = list
          \/ state' = "listed" /\ list' = GetAvailableSigners(rule, unavailable)
      BY <1>3 DEF Choose
    <2>3. Fits(GetAvailableSigners(rule, unavailable), rule)
      BY <2>1, AvailableFits
    <2>4. GetAvailableSigners(rule, unavailable) \in SUBSET TrustedIds
      BY AvailableSignersAreAvailable
    <2>5. Fits(list', rule') /\ list' \in SUBSET TrustedIds
      BY <2>1, <2>2, <2>3, <2>4
    <2> QED  BY <2>1, <2>2, <2>5 DEF Inv
  <1>4. ASSUME NEW key \in list, Replace(key) PROVE Inv'
    <2>1. /\ rule' = rule /\ rule \in Schemas /\ input' = input /\ input \in Inputs
          /\ Fits(list, rule) /\ list \in SUBSET TrustedIds
      BY <1>4 DEF Inv, Replace
    <2>2. PICK r \in ReplaceSigner(list, key, rule, unavailable') :
              \/ r.signers = {} /\ state' = "failed" /\ list' = list
              \/ r.signers # {} /\ state' = state /\ list' = r.signers
      BY <1>4 DEF Replace
    <2>3. r.signers # {} => Fits(r.signers, rule)
      BY <2>1, ReplacementFits
    <2>4. r.signers \in SUBSET TrustedIds
      <3>1. Substitutes(r, list, key, unavailable')
        BY <2>1, ReplacementIsFresh
      <3> QED  BY <3>1 DEF Substitutes
    <2>5. Fits(list', rule') /\ list' \in SUBSET TrustedIds
      BY <2>1, <2>2, <2>3, <2>4
    <2>6. state' \in {"listed", "failed"}
      BY <1>4, <2>2 DEF Replace
    <2> QED  BY <2>1, <2>5, <2>6 DEF Inv
  <1>5. CASE Reset
    BY <1>5 DEF Inv, Reset
  <1>6. CASE UNCHANGED vars
    BY <1>6 DEF Inv, vars
  <1> QED  BY <1>1, <1>2, <1>3, <1>4, <1>5, <1>6 DEF Next

(***************************************************************************)
(* The list never outgrows the rule, however many of its signers are       *)
(* replaced and however often the cache is emptied in between.             *)
(***************************************************************************)
THEOREM ListStaysBounded == Spec => []ListBounded
  <1>1. Inv => ListBounded
    BY FitsBounded
  <1> QED  BY <1>1, InitInv, InvInductive, PTL DEF Spec

(***************************************************************************)
(* The list a session starts with passes its rule: the keys the optional   *)
(* loop counts are enough although it may count a key that was in the set  *)
(* already, because the verifier counts it for every pattern too.          *)
(***************************************************************************)
THEOREM FirstListIsAccepted == Spec => FirstListPasses
  <1>1. ASSUME Inv, [Next]_vars, state = "new", state' = "listed",
               NEW signers \in SetToSeqs(list')
        PROVE  PassSchema(rule, signers)
    <2>1. Choose
      BY <1>1 DEF Next, Read, Reload, Replace, Reset, vars
    <2>2. /\ SufficientKeys(rule, unavailable)
          /\ list' = GetAvailableSigners(rule, unavailable)
          /\ rule \in Schemas
      BY <1>1, <2>1 DEF Choose, Inv
    <2>3. /\ signers \in [1..Cardinality(list') -> list']
          /\ \A i, j \in 1..Cardinality(list') : i # j => signers[i] # signers[j]
      BY <1>1 DEF SetToSeqs
    <2> QED  BY <2>2, <2>3, AvailablePasses
  <1>2. Inv /\ [Next]_vars =>
            [state = "new" /\ state' = "listed" =>
                \A signers \in SetToSeqs(list') : PassSchema(rule, signers)]_vars
    BY <1>1
  <1> QED  BY <1>2, InitInv, InvInductive, PTL DEF Spec, FirstListPasses

-----------------------------------------------------------------------------
(***************************************************************************)
(* What a saved pattern is read as.                                        *)
(***************************************************************************)
Saved(pattern) == ReadPattern(PrintPattern(pattern))

LEMMA SavedPattern ==
    ASSUME NEW pattern \in Patterns
    PROVE  /\ Saved(pattern).times = 1
           /\ Saved(pattern).name
                  = [i \in DOMAIN pattern.name |-> PrintComponent(pattern.name[i])]
           /\ Saved(pattern) = [name |-> Saved(pattern).name, times |-> Saved(pattern).times]
  <1> DEFINE comps == [i \in DOMAIN pattern.name |-> PrintComponent(pattern.name[i])]
             text == PrintPattern(pattern)
  <1>1. /\ text.comps = comps /\ text.prefix = {}
        /\ \A i \in DOMAIN pattern.name : pattern.name[i] \in Nat \cup {WILDCARD}
    BY PatternPrinted
  <1>2. \A i \in DOMAIN comps : comps[i] # STAR
    BY <1>1, ComponentPrinted, WildcardAssumption
  <1>3. [i \in DOMAIN text.comps |-> IF text.comps[i] = STAR THEN WILDCARD
                                                             ELSE text.comps[i]] = comps
    <2>1. comps = [i \in DOMAIN comps |-> comps[i]]
      OBVIOUS
    <2> HIDE DEF comps, text
    <2> QED  BY <1>1, <1>2, <2>1
  <1>4. Saved(pattern) = [name |-> comps, times |-> 1]
    <2> HIDE DEF comps
    <2> QED  BY <1>1, <1>3 DEF Saved, ReadPattern
  <1> HIDE DEF comps
  <1> QED  BY <1>4 DEF comps

(***************************************************************************)
(* A pattern without a prefix that survives printing is saved as it is;    *)
(* one that does not survive it matches no key any more.                   *)
(***************************************************************************)
LEMMA PlainIsKept ==
    ASSUME NEW pattern \in Patterns, SurvivesPrinting(pattern), pattern.times = 1
    PROVE  Saved(pattern) = pattern
  <1>1. /\ pattern.name \in Seq(Nat \cup {WILDCARD})
        /\ pattern = [name |-> pattern.name, times |-> pattern.times]
    BY DEF Patterns
  <1>2. pattern.name = [i \in DOMAIN pattern.name |-> pattern.name[i]]
    BY <1>1
  <1>3. Saved(pattern).name = pattern.name
    BY <1>2, SavedPattern DEF SurvivesPrinting
  <1> QED  BY <1>1, <1>3, SavedPattern

LEMMA SpoiltMatchesNothing ==
    ASSUME NEW pattern \in Patterns, ~SurvivesPrinting(pattern), NoPrintedKey,
           NEW key \in TrustedIds
    PROVE  ~Match(Saved(pattern), key)
  <1>1. PICK i \in DOMAIN pattern.name : PrintComponent(pattern.name[i]) # pattern.name[i]
    BY DEF SurvivesPrinting
  <1> DEFINE c == PrintComponent(pattern.name[i])
  <1>2. /\ Saved(pattern).name[i] = c
        /\ DOMAIN pattern.name = 1..Len(pattern.name) /\ Len(pattern.name) \in Nat
        /\ DOMAIN Saved(pattern).name = DOMAIN pattern.name
    BY <1>1, SavedPattern, PatternPrinted
  <1>3. Len(Saved(pattern).name) = Len(pattern.name)
    <2>1. Saved(pattern) \in Patterns
      BY PatternPrinted, PatternRead DEF Saved
    <2>2. Saved(pattern).name \in Seq(Nat \cup {WILDCARD})
      BY <2>1 DEF Patterns
    <2>3. /\ DOMAIN Saved(pattern).name = 1..Len(Saved(pattern).name)
          /\ Len(Saved(pattern).name) \in Nat
      BY <2>2
    <2> HIDE DEF Saved
    <2> QED  BY <1>2, <2>3
  <1>4. c \in Nat /\ c >= PrintedWildcard /\ c # WILDCARD
    BY <1>1, PatternPrinted, ComponentPrinted, WildcardAssumption
  <1>5. SUFFICES ASSUME Match(Saved(pattern), key) PROVE FALSE
    OBVIOUS
  <1>6. Len(key) = Len(pattern.name)
    BY <1>3, <1>5 DEF Match
  <1>7. c \in {WILDCARD, key[i]} /\ key[i] < PrintedWildcard
    BY <1>1, <1>2, <1>5, <1>6 DEF Match, NoPrintedKey
  <1> HIDE DEF c
  <1>8. key[i] = c
    BY <1>4, <1>7
  <1> QED  BY <1>4, <1>7, <1>8, NumbersAssumption

LEMMA SavedRule ==
    ASSUME NEW schema \in Schemas
    PROVE  FromSection(ToSection(schema))
               = [pktName     |-> Saved(schema.pktName),
                  required    |-> [i \in DOMAIN schema.required |-> Saved(schema.required[i])],
                  optional    |-> [i \in DOMAIN schema.optional |-> Saved(schema.optional[i])],
                  minOptional |-> ReadNumber(schema.minOptional)]
  BY DEF FromSection, ToSection, Saved

LEMMA EntriesAreCounted ==
    ASSUME NEW signers \in BoundedSeq(TrustedIds, MaxEntries), NEW pattern
    PROVE  /\ EntriesMatching(pattern, signers) \in Nat
           /\ (\A key \in TrustedIds : ~Match(pattern, key)) =>
                  EntriesMatching(pattern, signers) = 0
  <1> DEFINE entries == {i \in DOMAIN signers : Match(pattern, signers[i])}
  <1>1. PICK m \in Nat : signers \in [1..m -> TrustedIds]
    BY InputsAssumption DEF BoundedSeq, SeqOf
  <1>2. IsFiniteSet(1..m)
    BY <1>1, FS_Interval
  <1>3. IsFiniteSet(entries)
    BY <1>1, <1>2, FS_Subset
  <1>4. Cardinality(entries) \in Nat
    BY <1>3, FS_CardinalityType
  <1>5. (\A key \in TrustedIds : ~Match(pattern, key)) => Cardinality(entries) = 0
    <2>1. (\A key \in TrustedIds : ~Match(pattern, key)) => entries = {}
      BY <1>1
    <2> HIDE DEF entries
    <2> QED  BY <2>1, FS_EmptySet
  <1> QED  BY <1>4, <1>5 DEF EntriesMatching

LEMMA PatternsListed ==
    ASSUME NEW schema
    PROVE  /\ \A i \in DOMAIN schema.required : schema.required[i] \in SignerPatterns(schema)
           /\ \A i \in DOMAIN schema.optional : schema.optional[i] \in SignerPatterns(schema)
  BY DEF SignerPatterns, ToSet

(***************************************************************************)
(* A rule that is saved and read again is the same, or stricter: the       *)
(* patterns that printing changes, which alone have prefixes to lose,      *)
(* match nothing any more.                                                 *)
(***************************************************************************)
LEMMA SavedIsStricter ==
    ASSUME NEW schema \in Schemas, schema.minOptional <= IntMax,
           NoPrintedKey, TimesOnlySpoilt(schema),
           NEW signers \in BoundedSeq(TrustedIds, MaxEntries),
           PassSchema(FromSection(ToSection(schema)), signers)
    PROVE  PassSchema(schema, signers)
  <1> DEFINE saved == FromSection(ToSection(schema))
             D == DOMAIN schema.optional
  <1>1. /\ saved.required = [i \in DOMAIN schema.required |-> Saved(schema.required[i])]
        /\ saved.optional = [i \in DOMAIN schema.optional |-> Saved(schema.optional[i])]
        /\ saved.minOptional = schema.minOptional
    <2> HIDE DEF saved
    <2>1. saved = [pktName     |-> Saved(schema.pktName),
                   required    |-> [i \in DOMAIN schema.required |-> Saved(schema.required[i])],
                   optional    |-> [i \in DOMAIN schema.optional |-> Saved(schema.optional[i])],
                   minOptional |-> ReadNumber(schema.minOptional)]
      BY SavedRule DEF saved
    <2>2. ReadNumber(schema.minOptional) = schema.minOptional
      BY NumberRead, RuleTypes
    <2> QED  BY <2>1, <2>2
  <1>2. /\ \A i \in DOMAIN schema.required : schema.required[i] \in Patterns
        /\ \A i \in DOMAIN schema.optional : schema.optional[i] \in Patterns
    <2>1. schema.required \in Seq(Patterns) /\ schema.optional \in Seq(Patterns)
      BY DEF Schemas
    <2> QED  BY <2>1
  <1>3. ASSUME NEW pattern \in Patterns, pattern \in SignerPatterns(schema)
        PROVE  \/ Saved(pattern) = pattern
               \/ /\ EntriesMatching(Saved(pattern), signers) = 0
                  /\ Saved(pattern).times = 1
    <2>1. CASE ~SurvivesPrinting(pattern)
      BY <2>1, SpoiltMatchesNothing, EntriesAreCounted, SavedPattern
    <2>2. CASE SurvivesPrinting(pattern)
      BY <1>3, <2>2, PlainIsKept DEF TimesOnlySpoilt
    <2> QED  BY <2>1, <2>2
  <1>4. ASSUME NEW i \in DOMAIN schema.required
        PROVE  EntriesMatching(schema.required[i], signers) >= schema.required[i].times
    <2> DEFINE p == schema.required[i]
    <2>1. EntriesMatching(Saved(p), signers) >= Saved(p).times
      BY <1>1 DEF PassSchema
    <2>2. \/ Saved(p) = p
          \/ EntriesMatching(Saved(p), signers) = 0 /\ Saved(p).times = 1
      BY <1>2, <1>3, PatternsListed
    <2> HIDE DEF p
    <2>3. Saved(p) = p
      BY <2>1, <2>2
    <2> QED  BY <2>1, <2>3 DEF p
  <1>5. IsFiniteSet(D) /\ DOMAIN saved.optional = D
    BY <1>1, RuleTypes
  <1> DEFINE old == Worth(saved.optional, signers)
             new == Worth(schema.optional, signers)
  <1>6. ASSUME NEW i \in D
        PROVE  old[i] \in Nat /\ new[i] \in Nat /\ old[i] <= new[i]
    <2> DEFINE p == schema.optional[i]
               E == EntriesMatching(p, signers)
               F == EntriesMatching(Saved(p), signers)
    <2>1. /\ old[i] = Min({F, Saved(p).times})
          /\ new[i] = Min({E, p.times})
      BY <1>1, <1>5 DEF Worth
    <2>2. E \in Nat /\ F \in Nat /\ p.times \in Nat /\ Saved(p).times = 1
      BY <1>2, EntriesAreCounted, RuleTypes, SavedPattern
    <2>3. Saved(p) = p \/ F = 0
      BY <1>2, <1>3, PatternsListed
    <2>4. /\ Min({F, Saved(p).times}) = IF F <= Saved(p).times THEN F ELSE Saved(p).times
          /\ Min({E, p.times}) = IF E <= p.times THEN E ELSE p.times
      <3> HIDE DEF E, F, p
      <3> QED  BY <2>2, MinOfTwo
    <2>5. Saved(p) = p => F = E
      OBVIOUS
    <2> HIDE DEF E, F, p, old, new
    <2> QED  BY <2>1, <2>2, <2>3, <2>4, <2>5
  <1>7. Total(old, D) <= Total(new, D) /\ Total(old, D) \in Nat /\ Total(new, D) \in Nat
    <2> HIDE DEF old, new, D
    <2>1. Total(old, D) <= Total(new, D)
      BY <1>5, <1>6, TotalMonotone
    <2>2. Total(old, D) \in Nat /\ Total(new, D) \in Nat
      BY <1>5, <1>6, TotalOfNaturals
    <2> QED  BY <2>1, <2>2
  <1>8. Total(old, D) >= schema.minOptional
    <2>1. MapThenSumSet(LAMBDA i : Min({EntriesMatching(saved.optional[i], signers),
                                        saved.optional[i].times}),
                        DOMAIN saved.optional) >= saved.minOptional
      BY DEF PassSchema
    <2>2. MapThenSumSet(LAMBDA i : Min({EntriesMatching(saved.optional[i], signers),
                                        saved.optional[i].times}),
                        DOMAIN saved.optional) = Total(old, DOMAIN saved.optional)
      <3> HIDE DEF saved
      <3> QED  BY <1>5, WorthTotal
    <2> HIDE DEF saved, old, D
    <2> QED  BY <1>1, <1>5, <2>1, <2>2
  <1>9. MapThenSumSet(LAMBDA i : Min({EntriesMatching(schema.optional[i], signers),
                                      schema.optional[i].times}), D) = Total(new, D)
    BY <1>5, WorthTotal
  <1>10. schema.minOptional \in Nat
    BY RuleTypes
  <1>11. MapThenSumSet(LAMBDA i : Min({EntriesMatching(schema.optional[i], signers),
                                       schema.optional[i].times}), D)
             >= schema.minOptional
    <2> HIDE DEF D, old, new
    <2> QED  BY <1>7, <1>8, <1>9, <1>10
  <1> QED  BY <1>4, <1>11 DEF PassSchema

LEMMA SavedIsSame ==
    ASSUME NEW schema \in Schemas, schema.minOptional <= IntMax, Plain(schema)
    PROVE  FromSection(ToSection(schema)) = schema
  <1>1. /\ schema.required \in Seq(Patterns) /\ schema.optional \in Seq(Patterns)
        /\ schema.pktName \in Patterns /\ schema.minOptional \in Nat
        /\ schema = [pktName |-> schema.pktName, required |-> schema.required,
                     optional |-> schema.optional, minOptional |-> schema.minOptional]
    BY DEF Schemas
  <1>2. \A p \in SignerPatterns(schema) \cup {schema.pktName} :
           SurvivesPrinting(p) /\ p.times = 1
    BY DEF Plain
  <1>3. Saved(schema.pktName) = schema.pktName
    BY <1>1, <1>2, PlainIsKept
  <1>4. \A i \in DOMAIN schema.required : Saved(schema.required[i]) = schema.required[i]
    BY <1>1, <1>2, PatternsListed, PlainIsKept
  <1>5. \A i \in DOMAIN schema.optional : Saved(schema.optional[i]) = schema.optional[i]
    BY <1>1, <1>2, PatternsListed, PlainIsKept
  <1>6. /\ schema.required = [i \in DOMAIN schema.required |-> schema.required[i]]
        /\ schema.optional = [i \in DOMAIN schema.optional |-> schema.optional[i]]
    BY <1>1
  <1>7. /\ [i \in DOMAIN schema.required |-> Saved(schema.required[i])] = schema.required
        /\ [i \in DOMAIN schema.optional |-> Saved(schema.optional[i])] = schema.optional
    BY <1>4, <1>5, <1>6
  <1>8. ReadNumber(schema.minOptional) = schema.minOptional
    BY <1>1, NumberRead
  <1> QED  BY <1>1, <1>3, <1>7, <1>8, SavedRule

(* A rule that was saved has no prefixes left. *)
LEMMA SavedHasNoTimes ==
    ASSUME NEW schema \in Schemas, schema.minOptional <= IntMax
    PROVE  /\ TimesOnlySpoilt(FromSection(ToSection(schema)))
           /\ FromSection(ToSection(schema)).minOptional = schema.minOptional
  <1> DEFINE saved == FromSection(ToSection(schema))
  <1>1. /\ saved.required = [i \in DOMAIN schema.required |-> Saved(schema.required[i])]
        /\ saved.optional = [i \in DOMAIN schema.optional |-> Saved(schema.optional[i])]
        /\ saved.minOptional = ReadNumber(schema.minOptional)
    BY SavedRule
  <1>2. /\ \A i \in DOMAIN schema.required : schema.required[i] \in Patterns
        /\ \A i \in DOMAIN schema.optional : schema.optional[i] \in Patterns
        /\ schema.minOptional \in Nat
    <2>1. schema.required \in Seq(Patterns) /\ schema.optional \in Seq(Patterns)
      BY DEF Schemas
    <2> QED  BY <2>1, RuleTypes
  <1> HIDE DEF saved
  <1>3. /\ \A i \in DOMAIN saved.required : saved.required[i].times = 1
        /\ \A i \in DOMAIN saved.optional : saved.optional[i].times = 1
    <2>1. \A p \in Patterns : Saved(p).times = 1
      BY SavedPattern
    <2> QED  BY <1>1, <1>2, <2>1
  <1>4. TimesOnlySpoilt(saved)
    BY <1>3 DEF TimesOnlySpoilt, SignerPatterns, ToSet
  <1>5. saved.minOptional = schema.minOptional
    BY <1>1, <1>2, NumberRead
  <1> QED  BY <1>4, <1>5 DEF saved

(***************************************************************************)
(* The invariant for any number of printings: the rule is never weaker     *)
(* than the one that was given, and printing it once more will not make it *)
(* weaker.                                                                 *)
(***************************************************************************)
NeverWeaker ==
    \A signers \in BoundedSeq(TrustedIds, MaxEntries) :
        PassSchema(rule, signers) => PassSchema(GivenRule, signers)

SavedInv ==
    state = "new" /\ GivenRule.minOptional <= IntMax =>
        /\ rule.minOptional = GivenRule.minOptional
        /\ Plain(GivenRule) => rule = GivenRule
        /\ NoPrintedKey /\ TimesOnlySpoilt(GivenRule) => TimesOnlySpoilt(rule) /\ NeverWeaker

LEMMA SavedInvStep == Inv /\ SavedInv /\ [Next]_vars => SavedInv'
  <1> SUFFICES ASSUME Inv, SavedInv, [Next]_vars,
                      state' = "new", GivenRule'.minOptional <= IntMax
               PROVE  /\ rule'.minOptional = GivenRule'.minOptional
                      /\ Plain(GivenRule') => rule' = GivenRule'
                      /\ NoPrintedKey /\ TimesOnlySpoilt(GivenRule') =>
                             TimesOnlySpoilt(rule') /\ NeverWeaker'
    BY DEF SavedInv
  <1>1. CASE Read
    BY <1>1 DEF Read, GivenRule, NeverWeaker
  <1>2. CASE Reload
    <2> DEFINE given == GivenRule
               saved == FromSection(ToSection(rule))
    <2>1. /\ GivenRule' = given /\ rule' = saved
          /\ state = "new" /\ rule \in Schemas
      BY <1>2 DEF Reload, GivenRule, Inv
    <2>2. /\ rule.minOptional = given.minOptional
          /\ Plain(given) => rule = given
          /\ NoPrintedKey /\ TimesOnlySpoilt(given) => TimesOnlySpoilt(rule) /\ NeverWeaker
      BY <2>1 DEF SavedInv
    <2>3. rule.minOptional <= IntMax
      BY <2>1, <2>2
    <2>4. TimesOnlySpoilt(saved) /\ saved.minOptional = rule.minOptional
      BY <2>1, <2>3, SavedHasNoTimes
    <2>5. Plain(rule) => saved = rule
      BY <2>1, <2>3, SavedIsSame
    <2>6. ASSUME NoPrintedKey, TimesOnlySpoilt(given),
                 NEW signers \in BoundedSeq(TrustedIds, MaxEntries),
                 PassSchema(saved, signers)
          PROVE  PassSchema(given, signers)
      <3>1. PassSchema(rule, signers)
        BY <2>1, <2>2, <2>3, <2>6, SavedIsStricter
      <3> QED  BY <2>2, <2>6, <3>1 DEF NeverWeaker
    <2>7. NeverWeaker' <=> \A signers \in BoundedSeq(TrustedIds, MaxEntries) :
                              PassSchema(saved, signers) => PassSchema(given, signers)
      BY <2>1 DEF NeverWeaker
    <2> HIDE DEF given, saved
    <2> QED  BY <2>1, <2>2, <2>4, <2>5, <2>6, <2>7
  <1>3. CASE state = "new" /\ UNCHANGED <<rule, input>>
    <2>1. GivenRule' = GivenRule /\ rule' = rule /\ (NeverWeaker' <=> NeverWeaker)
      BY <1>3 DEF GivenRule, NeverWeaker
    <2> QED  BY <1>3, <2>1 DEF SavedInv
  <1>4. Read \/ Reload \/ (state = "new" /\ UNCHANGED <<rule, input>>)
    BY DEF Next, Choose, Replace, Reset, vars
  <1> QED  BY <1>1, <1>2, <1>3, <1>4

(***************************************************************************)
(* However often a rule is written with toString and read again, it is     *)
(* never weaker than the one that was given, and the same if no wildcard   *)
(* or prefix is lost.                                                      *)
(***************************************************************************)
THEOREM SavedRuleIsNeverWeaker == Spec => []SavedRuleIsStricter
  <1>1. Init => SavedInv
    BY DEF Init, SavedInv
  <1>2. SavedInv => SavedRuleIsStricter
    BY DEF SavedInv, SavedRuleIsStricter, NeverWeaker
  <1> QED  BY <1>1, <1>2, SavedInvStep, InitInv, InvInductive, PTL DEF Spec

-----------------------------------------------------------------------------
(***************************************************************************)
(* The loops of getAvailableSigners.  A loop is the only function of the   *)
(* number of iterations that runs as it does; an induction on that number  *)
(* then says what it has done.                                             *)
(***************************************************************************)
LEMMA KeysVector ==
    ASSUME NEW pattern, NEW gone
    PROVE  /\ GetMatchedKeys(pattern, gone) \in SUBSET TrustedIds
           /\ Cardinality(GetMatchedKeys(pattern, gone)) \in Nat
           /\ SortedKeys(pattern, gone) = InOrder(GetMatchedKeys(pattern, gone))
           /\ SortedKeys(pattern, gone) \in Seq(GetMatchedKeys(pattern, gone))
           /\ Len(SortedKeys(pattern, gone)) = Cardinality(GetMatchedKeys(pattern, gone))
           /\ DOMAIN SortedKeys(pattern, gone)
                  = 1..Cardinality(GetMatchedKeys(pattern, gone))
           /\ \A j \in 1..Cardinality(GetMatchedKeys(pattern, gone)) :
                  SortedKeys(pattern, gone)[j] \in GetMatchedKeys(pattern, gone)
  <1> DEFINE S == GetMatchedKeys(pattern, gone)
  <1>1. S \in SUBSET TrustedIds
    BY DEF GetMatchedKeys, Matching
  <1> HIDE DEF S
  <1>2. /\ Cardinality(S) \in Nat
        /\ InOrder(S) \in [1..Cardinality(S) -> S]
        /\ InOrder(S) \in Seq(S) /\ Len(InOrder(S)) = Cardinality(S)
    BY <1>1, InOrderLists
  <1> QED  BY <1>1, <1>2 DEF SortedKeys, S

(* What the loop takes of the keys of a pattern. *)
LEMMA FirstOfVector ==
    ASSUME NEW pattern, NEW gone, NEW n \in Nat,
           Len(SortedKeys(pattern, gone)) >= n
    PROVE  ToSet(SubSeq(SortedKeys(pattern, gone), 1, n))
               = First(n, GetMatchedKeys(pattern, gone))
  <1> DEFINE S == GetMatchedKeys(pattern, gone)
             keys == SortedKeys(pattern, gone)
             part == SubSeq(keys, 1, n)
  <1>1. /\ S \in SUBSET TrustedIds /\ Cardinality(S) \in Nat /\ keys = InOrder(S)
        /\ keys \in Seq(S) /\ Len(keys) = Cardinality(S)
    BY KeysVector
  <1> HIDE DEF S, keys
  <1>2. Len(keys) >= n
    BY DEF keys
  <1>3. /\ part \in Seq(S) /\ Len(part) = n
        /\ \A j \in 1..n : part[j] = keys[j]
    <2>1. 1 \in 1..(Len(keys) + 1) /\ n \in (1 - 1)..Len(keys)
      BY <1>1, <1>2
    <2>2. /\ part \in Seq(S) /\ Len(part) = n
      BY <1>1, <2>1
    <2>3. \A j \in 1..n : part[j] = keys[j]
      BY <1>1, <1>2
    <2> QED  BY <2>2, <2>3
  <1> HIDE DEF part
  <1>4. ToSet(part) = {keys[j] : j \in 1..n}
    BY <1>3 DEF ToSet
  <1>5. Min({Cardinality(S), n}) = n
    BY <1>1, <1>2, MinOfTwo
  <1>6. First(n, S) = {keys[j] : j \in 1..n}
    BY <1>1, <1>5, FirstInOrder
  <1> QED  BY <1>4, <1>6 DEF part, keys, S

EnoughRequired ==
    \A i \in DOMAIN rule.required :
        Len(SortedKeys(rule.required[i], unavailable)) >= rule.required[i].times

(* The keys of required pattern i. *)
RequiredKeys(i) ==
    First(rule.required[i].times, GetMatchedKeys(rule.required[i], unavailable))

LEMMA ListedRequiredRuns ==
    ASSUME rule \in Schemas, EnoughRequired
    PROVE  /\ ListedRequired[0] = {}
           /\ \A i \in 1..Len(rule.required) :
                  ListedRequired[i] = ListedRequired[i - 1] \cup RequiredKeys(i)
  <1> DEFINE m == Len(rule.required)
             taken(i) == ToSet(SubSeq(SortedKeys(rule.required[i], unavailable), 1,
                                      rule.required[i].times))
             P(h) == h = [i \in 0..m |-> IF i = 0 THEN {} ELSE h[i - 1] \cup taken(i)]
             step == [i \in 1..m |-> [S \in SUBSET TrustedIds |-> S \cup RequiredKeys(i)]]
             c == CHOOSE h : P(h)
  <1>1. /\ m \in Nat /\ DOMAIN rule.required = 1..m
        /\ \A i \in 1..m : rule.required[i].times \in Nat
    BY RuleTypes
  <1>2. \A i \in 1..m : taken(i) = RequiredKeys(i)
    BY <1>1, FirstOfVector DEF EnoughRequired, RequiredKeys
  <1>3. \A i \in 1..m : RequiredKeys(i) \in SUBSET TrustedIds
    BY DEF RequiredKeys, First, GetMatchedKeys, Matching
  <1>4. ListedRequired = c
    BY DEF ListedRequired
  <1> HIDE DEF m, taken
  <1>5. step \in [1..m -> [SUBSET TrustedIds -> SUBSET TrustedIds]]
    BY <1>3
  <1>6. PICK h : IsRun(h, m, SUBSET TrustedIds, {}, step)
    <2>1. {} \in SUBSET TrustedIds
      OBVIOUS
    <2> HIDE DEF step
    <2> QED  BY <1>1, <1>5, <2>1, LoopRuns
  <1>7. h[0] = {} /\ \A i \in 1..m : h[i] = h[i - 1] \cup taken(i)
    <2>1. /\ h \in [0..m -> SUBSET TrustedIds] /\ h[0] = {}
          /\ \A i \in 1..m : h[i] = step[i][h[i - 1]]
      BY <1>6 DEF IsRun
    <2>2. ASSUME NEW i \in 1..m PROVE h[i] = h[i - 1] \cup taken(i)
      <3>1. i - 1 \in 0..m
        BY <1>1
      <3> QED  BY <1>2, <2>1, <3>1
    <2> QED  BY <2>1, <2>2
  <1>8. P(h)
    <2>1. h = [i \in 0..m |-> h[i]]
      BY <1>6 DEF IsRun
    <2>2. ASSUME NEW i \in 0..m
          PROVE  h[i] = IF i = 0 THEN {} ELSE h[i - 1] \cup taken(i)
      <3>1. i = 0 \/ i \in 1..m
        BY <1>1
      <3> QED  BY <1>7, <3>1
    <2> HIDE DEF step
    <2> QED  BY <2>1, <2>2
  <1>9. P(c)
    <2> HIDE DEF P
    <2> QED  BY <1>8
  <1>10. \A i \in 0..m : c[i] = IF i = 0 THEN {} ELSE c[i - 1] \cup taken(i)
    <2> HIDE DEF c
    <2> QED  BY <1>9
  <1> HIDE DEF c
  <1>11. c[0] = {}
    <2>1. 0 \in 0..m
      BY <1>1
    <2> QED  BY <1>10, <2>1
  <1>12. ASSUME NEW i \in 1..m PROVE c[i] = c[i - 1] \cup RequiredKeys(i)
    <2>1. i \in 0..m /\ i # 0
      BY <1>1
    <2>2. c[i] = c[i - 1] \cup taken(i)
      BY <1>10, <2>1
    <2> QED  BY <1>2, <2>2
  <1> QED  BY <1>4, <1>11, <1>12 DEF m

-----------------------------------------------------------------------------
LoopStates == [set : SUBSET TrustedIds, count : Nat, stop : BOOLEAN]

LEMMA InsertType ==
    ASSUME NEW loop \in LoopStates, NEW key \in TrustedIds
    PROVE  Insert(loop, key) \in LoopStates
  <1>1. loop.set \in SUBSET TrustedIds /\ loop.count \in Nat
    BY DEF LoopStates
  <1>2. loop.set \cup {key} \in SUBSET TrustedIds /\ loop.count + 1 \in Nat
    BY <1>1
  <1>3. (loop.count + 1 >= rule.minOptional) \in BOOLEAN
    OBVIOUS
  <1> QED  BY <1>2, <1>3 DEF Insert, LoopStates

LEMMA ListedKeysRuns ==
    ASSUME NEW loop \in LoopStates, NEW pattern, pattern.times \in Nat
    PROVE  LET keys == SortedKeys(pattern, unavailable)
               last == Min({Len(keys), pattern.times})
               inner == ListedKeys(loop, pattern)
           IN  /\ inner[0] = loop
               /\ \A j \in 1..last : inner[j] = Insert(inner[j - 1], keys[j])
               /\ \A j \in 0..last : inner[j] \in LoopStates
  <1> DEFINE keys == SortedKeys(pattern, unavailable)
             last == Min({Len(keys), pattern.times})
             P(h) == h = [j \in 0..last |->
                             IF j = 0 THEN loop ELSE Insert(h[j - 1], keys[j])]
             step == [j \in 1..last |-> [l \in LoopStates |-> Insert(l, keys[j])]]
             c == CHOOSE h : P(h)
  <1>1. /\ last \in Nat
        /\ \A j \in 1..last : keys[j] \in TrustedIds
    <2>1. /\ Len(keys) \in Nat
          /\ \A j \in 1..Len(keys) : keys[j] \in TrustedIds
      BY KeysVector
    <2>2. last = IF Len(keys) <= pattern.times THEN Len(keys) ELSE pattern.times
      BY <2>1, MinOfTwo
    <2> HIDE DEF keys, last
    <2> QED  BY <2>1, <2>2
  <1>2. ListedKeys(loop, pattern) = c
    BY DEF ListedKeys
  <1> HIDE DEF keys, last
  <1>3. step \in [1..last -> [LoopStates -> LoopStates]]
    BY <1>1, InsertType
  <1>4. PICK h : IsRun(h, last, LoopStates, loop, step)
    <2> HIDE DEF step
    <2> QED  BY <1>1, <1>3, LoopRuns
  <1>5. /\ h \in [0..last -> LoopStates] /\ h[0] = loop
        /\ \A j \in 1..last : h[j] = Insert(h[j - 1], keys[j])
    <2>1. /\ h \in [0..last -> LoopStates] /\ h[0] = loop
          /\ \A j \in 1..last : h[j] = step[j][h[j - 1]]
      BY <1>4 DEF IsRun
    <2>2. ASSUME NEW j \in 1..last PROVE h[j] = Insert(h[j - 1], keys[j])
      <3>1. h[j - 1] \in LoopStates
        <4>1. j - 1 \in 0..last
          BY <1>1
        <4> QED  BY <2>1, <4>1
      <3> QED  BY <2>1, <3>1
    <2> QED  BY <2>1, <2>2
  <1>6. P(h)
    <2>1. h = [j \in 0..last |-> h[j]]
      BY <1>5
    <2>2. ASSUME NEW j \in 0..last
          PROVE  h[j] = IF j = 0 THEN loop ELSE Insert(h[j - 1], keys[j])
      <3>1. j = 0 \/ j \in 1..last
        BY <1>1
      <3> QED  BY <1>5, <3>1
    <2> HIDE DEF step
    <2> QED  BY <2>1, <2>2
  <1>7. P(c)
    <2> HIDE DEF P
    <2> QED  BY <1>6
  <1>8. \A j \in 0..last : c[j] = IF j = 0 THEN loop ELSE Insert(c[j - 1], keys[j])
    <2> HIDE DEF c
    <2> QED  BY <1>7
  <1> HIDE DEF c
  <1>9. c[0] = loop
    <2>1. 0 \in 0..last
      BY <1>1
    <2> QED  BY <1>8, <2>1
  <1>10. ASSUME NEW j \in 1..last PROVE c[j] = Insert(c[j - 1], keys[j])
    <2>1. j \in 0..last /\ j # 0
      BY <1>1
    <2> QED  BY <1>8, <2>1
  <1>11. \A j \in 0..last : c[j] \in LoopStates
    <2> DEFINE Good == {j \in 0..last : c[j] \in LoopStates}
    <2>1. 0 \in Good
      BY <1>1, <1>9
    <2>2. ASSUME NEW j \in 1..last, j - 1 \in Good PROVE j \in Good
      <3>1. j \in 0..last /\ keys[j] \in TrustedIds
        BY <1>1
      <3> QED  BY <1>10, <2>2, <3>1, InsertType
    <2>3. 0..last \subseteq Good
      <3> HIDE DEF Good
      <3> QED  BY <1>1, <2>1, <2>2, IntervalInduction
    <2> QED  BY <2>3
  <1> QED  BY <1>2, <1>9, <1>10, <1>11 DEF keys, last

(***************************************************************************)
(* The inner loop inserts keys until there are enough of them, but one in  *)
(* any case.                                                               *)
(***************************************************************************)
Wanted(loop) ==
    IF 1 >= rule.minOptional - loop.count THEN 1 ELSE rule.minOptional - loop.count

LEMMA InnerLoop ==
    ASSUME rule \in Schemas, NEW loop \in LoopStates, ~loop.stop,
           NEW pattern, pattern.times \in Nat
    PROVE  LET keys == SortedKeys(pattern, unavailable)
               last == Min({Len(keys), pattern.times})
               after == ListedKeys(loop, pattern)[last]
               taken == Min({last, Wanted(loop)})
           IN  /\ after \in LoopStates
               /\ after.set = loop.set \cup {keys[p] : p \in 1..taken}
               /\ after.count = loop.count + taken
  <1> DEFINE keys == SortedKeys(pattern, unavailable)
             last == Min({Len(keys), pattern.times})
             inner == ListedKeys(loop, pattern)
             wanted == Wanted(loop)
             taken(j) == IF j <= wanted THEN j ELSE wanted
             first(n) == {keys[p] : p \in 1..n}
             Good == {j \in 0..last :
                        /\ inner[j].set = loop.set \cup first(taken(j))
                        /\ inner[j].count = loop.count + taken(j)
                        /\ inner[j].stop <=> j >= wanted}
  <1>1. /\ rule.minOptional \in Nat /\ loop.count \in Nat
        /\ wanted \in Nat /\ wanted >= 1 /\ wanted >= rule.minOptional - loop.count
        /\ wanted = 1 \/ wanted = rule.minOptional - loop.count
    <2>1. rule.minOptional \in Nat /\ loop.count \in Nat
      BY RuleTypes DEF LoopStates
    <2> QED  BY <2>1 DEF Wanted
  <1>2. last \in Nat
    <2>1. Len(keys) \in Nat
      BY KeysVector
    <2> HIDE DEF keys
    <2> QED  BY <2>1, MinOfTwo
  <1>3. /\ inner[0] = loop
        /\ \A j \in 1..last : inner[j] = Insert(inner[j - 1], keys[j])
        /\ \A j \in 0..last : inner[j] \in LoopStates
    BY ListedKeysRuns
  <1> HIDE DEF keys, last, inner, wanted
  <1>4. 0 \in Good
    <2>1. first(0) = {} /\ taken(0) = 0 /\ 0 \in 0..last /\ ~(0 >= wanted)
      BY <1>1, <1>2
    <2> QED  BY <1>1, <1>3, <2>1
  <1>5. ASSUME NEW j \in 1..last, j - 1 \in Good PROVE j \in Good
    <2> DEFINE before == inner[j - 1]
    <2>1. /\ j \in Nat /\ j >= 1 /\ j \in 0..last /\ j - 1 \in Nat
          /\ before.set = loop.set \cup first(taken(j - 1))
          /\ before.count = loop.count + taken(j - 1)
          /\ before.stop <=> j - 1 >= wanted
          /\ inner[j] = Insert(before, keys[j])
      BY <1>2, <1>3, <1>5
    <2> HIDE DEF before
    <2>2. CASE j - 1 >= wanted
      <3>1. inner[j] = before /\ taken(j) = taken(j - 1) /\ j >= wanted
        BY <1>1, <2>1, <2>2 DEF Insert
      <3>2. before.stop
        BY <2>1, <2>2
      <3> HIDE DEF first, taken
      <3> QED  BY <2>1, <3>1, <3>2
    <2>3. CASE j - 1 < wanted
      <3>1. taken(j) = j /\ taken(j - 1) = j - 1 /\ ~(j - 1 >= wanted)
        BY <1>1, <2>1, <2>3
      <3>2. inner[j] = [set |-> before.set \cup {keys[j]}, count |-> before.count + 1,
                        stop |-> before.count + 1 >= rule.minOptional]
        BY <2>1, <3>1 DEF Insert
      <3>3. first(j) = first(j - 1) \cup {keys[j]}
        <4>1. 1..j = 1..(j - 1) \cup {j}
          BY <2>1
        <4> QED  BY <4>1
      <3>4. before.count + 1 = loop.count + j
        BY <1>1, <2>1, <3>1
      <3>5. (before.count + 1 >= rule.minOptional) <=> j >= wanted
        BY <1>1, <2>1, <3>4
      <3>6. before.set = loop.set \cup first(j - 1)
        BY <2>1, <3>1
      <3> HIDE DEF first, taken
      <3>7. inner[j].set = loop.set \cup first(j)
        BY <3>2, <3>3, <3>6
      <3>8. inner[j].count = loop.count + j /\ (inner[j].stop <=> j >= wanted)
        <4>1. /\ inner[j].count = before.count + 1
              /\ inner[j].stop = (before.count + 1 >= rule.minOptional)
          BY <3>2
        <4> DEFINE full == before.count + 1 >= rule.minOptional
        <4>2. inner[j].stop <=> full
          BY <4>1, Zenon
        <4> QED  BY <3>4, <3>5, <4>1, <4>2
      <3> QED  BY <2>1, <3>1, <3>7, <3>8
    <2> QED  BY <1>1, <2>1, <2>2, <2>3
  <1>6. 0..last \subseteq Good
    <2> HIDE DEF Good
    <2> QED  BY <1>2, <1>4, <1>5, IntervalInduction
  <1>7. last \in Good
    BY <1>2, <1>6
  <1>8. taken(last) = Min({last, wanted})
    BY <1>1, <1>2, MinOfTwo
  <1> HIDE DEF taken, first
  <1>9. /\ inner[last] \in LoopStates
        /\ inner[last].set = loop.set \cup first(taken(last))
        /\ inner[last].count = loop.count + taken(last)
    BY <1>2, <1>3, <1>7
  <1> QED  BY <1>8, <1>9 DEF keys, last, inner, wanted, first

(* The keys of optional pattern i. *)
OptionalKeys(i) ==
    First(OptionalTake(rule, i, unavailable),
          GetMatchedKeys(rule.optional[i], unavailable))

LEMMA ListOptionalType ==
    ASSUME rule \in Schemas, NEW i \in DOMAIN rule.optional, NEW loop \in LoopStates
    PROVE  ListOptional(loop, rule.optional[i]) \in LoopStates
  <1> DEFINE pattern == rule.optional[i]
             last == Min({Len(SortedKeys(pattern, unavailable)), pattern.times})
             inner == ListedKeys(loop, pattern)[last]
  <1>1. pattern.times \in Nat
    BY RuleTypes
  <1>2. last \in 0..last
    <2>1. Len(SortedKeys(pattern, unavailable)) \in Nat
      BY KeysVector
    <2>2. last \in Nat
      <3> HIDE DEF pattern
      <3> QED  BY <1>1, <2>1, MinOfTwo
    <2> QED  BY <2>2
  <1> HIDE DEF pattern
  <1>3. inner \in LoopStates
    BY <1>1, <1>2, ListedKeysRuns
  <1> HIDE DEF inner
  <1>4. [inner EXCEPT !.stop = inner.count >= rule.minOptional] \in LoopStates
    <2> DEFINE full == inner.count >= rule.minOptional
    <2>1. full \in BOOLEAN
      OBVIOUS
    <2>2. [inner EXCEPT !.stop = full] \in LoopStates
      <3> HIDE DEF full
      <3> QED  BY <1>3, <2>1 DEF LoopStates
    <2> QED  BY <2>2
  <1> QED  BY <1>4 DEF ListOptional, inner, last, pattern

LEMMA ListOptionalRound ==
    ASSUME rule \in Schemas, NEW i \in DOMAIN rule.optional, NEW loop \in LoopStates,
           ~loop.stop, loop.count = SlotsBefore(rule, i, unavailable),
           i > 1 => loop.count < rule.minOptional
    PROVE  LET next == ListOptional(loop, rule.optional[i])
           IN  /\ next.set = loop.set \cup OptionalKeys(i)
               /\ next.count = loop.count + OptionalTake(rule, i, unavailable)
               /\ next.stop <=> next.count >= rule.minOptional
  <1> DEFINE pattern == rule.optional[i]
             S == GetMatchedKeys(pattern, unavailable)
             keys == SortedKeys(pattern, unavailable)
             last == Min({Len(keys), pattern.times})
             inner == ListedKeys(loop, pattern)[last]
             take == OptionalTake(rule, i, unavailable)
  <1>1. /\ pattern.times \in Nat /\ rule.minOptional \in Nat /\ loop.count \in Nat
        /\ i \in Nat
    BY RuleTypes DEF LoopStates
  <1>2. /\ S \in SUBSET TrustedIds /\ keys = InOrder(S) /\ Len(keys) = Cardinality(S)
        /\ Cardinality(S) \in Nat
    BY KeysVector
  <1>3. OptionalSlots(rule, i, unavailable) = last
    <2> HIDE DEF keys
    <2> QED  BY <1>2 DEF OptionalSlots
  <1>4. /\ take \in Nat /\ take <= Cardinality(S)
    BY TakeType, SlotsType
  <1>5. take = Min({last, Wanted(loop)})
    <2> DEFINE missing == rule.minOptional - loop.count
    <2>1. missing \in Int /\ last \in Nat
      BY <1>1, <1>3, SlotsType
    <2>2. take = IF i > 1 /\ missing <= 0 THEN 0 ELSE Min({last, Max({1, missing})})
      <3> HIDE DEF last
      <3> QED  BY <1>3 DEF OptionalTake
    <2>3. ~(i > 1 /\ missing <= 0)
      BY <1>1
    <2>4. Max({1, missing}) = IF 1 >= missing THEN 1 ELSE missing
      <3> HIDE DEF missing
      <3> QED  BY <2>1 DEF Max
    <2>5. Max({1, missing}) = Wanted(loop)
      BY <2>4 DEF Wanted
    <2> HIDE DEF take, last, missing
    <2> QED  BY <2>2, <2>3, <2>5
  <1>6. First(take, S) = {keys[p] : p \in 1..take}
    <2>1. Min({Cardinality(S), take}) = take
      <3> HIDE DEF S, take
      <3> QED  BY <1>2, <1>4, MinOfTwo
    <2> HIDE DEF S, take, keys
    <2> QED  BY <1>2, <1>4, <2>1, FirstInOrder
  <1>7. /\ inner \in LoopStates
        /\ inner.set = loop.set \cup {keys[p] : p \in 1..take}
        /\ inner.count = loop.count + take
    <2> HIDE DEF pattern, take
    <2>1. /\ inner \in LoopStates
          /\ inner.set = loop.set \cup {keys[p] : p \in 1..Min({last, Wanted(loop)})}
          /\ inner.count = loop.count + Min({last, Wanted(loop)})
      BY <1>1, InnerLoop
    <2> HIDE DEF inner, keys, last
    <2> QED  BY <1>5, <2>1
  <1>8. ListOptional(loop, pattern)
            = [inner EXCEPT !.stop = inner.count >= rule.minOptional]
    BY DEF ListOptional
  <1>9. OptionalKeys(i) = First(take, S)
    BY DEF OptionalKeys
  <1> DEFINE next == ListOptional(loop, pattern)
             full == inner.count >= rule.minOptional
  <1> HIDE DEF inner, take, keys, S
  <1>10. /\ next.set = inner.set /\ next.count = inner.count /\ next.stop = full
    <2>1. next = [inner EXCEPT !.stop = full]
      BY <1>8
    <2> HIDE DEF next, full
    <2> QED  BY <1>7, <2>1 DEF LoopStates
  <1>11. next.stop <=> next.count >= rule.minOptional
    <2>1. full <=> next.count >= rule.minOptional
      BY <1>10
    <2> HIDE DEF next, full
    <2> QED  BY <1>10, <2>1, Zenon
  <1> HIDE DEF next, full
  <1>12. next.set = loop.set \cup OptionalKeys(i) /\ next.count = loop.count + take
    BY <1>6, <1>7, <1>9, <1>10
  <1> QED  BY <1>11, <1>12 DEF next, pattern, take

LEMMA ListedRequiredIs ==
    ASSUME rule \in Schemas, EnoughRequired
    PROVE  ListedRequired[Len(rule.required)]
               = (UNION {RequiredKeys(i) : i \in DOMAIN rule.required})
  <1> DEFINE m == Len(rule.required)
             upTo(n) == UNION {RequiredKeys(i) : i \in 1..n}
             Good == {n \in 0..m : ListedRequired[n] = upTo(n)}
  <1>1. m \in Nat /\ DOMAIN rule.required = 1..m
    BY RuleTypes
  <1>2. /\ ListedRequired[0] = {}
        /\ \A n \in 1..m : ListedRequired[n] = ListedRequired[n - 1] \cup RequiredKeys(n)
    BY ListedRequiredRuns
  <1> HIDE DEF m
  <1>3. 0 \in Good
    <2>1. upTo(0) = {}
      OBVIOUS
    <2>2. 0 \in 0..m
      BY <1>1
    <2>3. ListedRequired[0] = upTo(0)
      BY <1>2, <2>1
    <2> QED  BY <2>2, <2>3
  <1>4. ASSUME NEW n \in 1..m, n - 1 \in Good PROVE n \in Good
    <2>1. n \in 0..m /\ 1..n = 1..(n - 1) \cup {n}
      BY <1>1
    <2>2. upTo(n) = upTo(n - 1) \cup RequiredKeys(n)
      BY <2>1
    <2> HIDE DEF upTo
    <2> QED  BY <1>2, <1>4, <2>1, <2>2
  <1>5. 0..m \subseteq Good
    <2> HIDE DEF Good
    <2> QED  BY <1>1, <1>3, <1>4, IntervalInduction
  <1>6. m \in Good
    BY <1>1, <1>5
  <1> QED  BY <1>1, <1>6 DEF m

OptionalStart ==
    [set |-> ListedRequired[Len(rule.required)], count |-> 0, stop |-> FALSE]

LEMMA ListedOptionalRuns ==
    ASSUME rule \in Schemas, EnoughRequired
    PROVE  /\ ListedOptional[0] = OptionalStart
           /\ \A i \in 1..Len(rule.optional) :
                  ListedOptional[i] = ListOptional(ListedOptional[i - 1], rule.optional[i])
           /\ \A i \in 0..Len(rule.optional) : ListedOptional[i] \in LoopStates
  <1> DEFINE m == Len(rule.optional)
             body(loop, i) == ListOptional(loop, rule.optional[i])
             P(h) == h = [i \in 0..m |-> IF i = 0 THEN OptionalStart ELSE body(h[i - 1], i)]
             step == [i \in 1..m |-> [l \in LoopStates |-> body(l, i)]]
             c == CHOOSE h : P(h)
  <1>1. m \in Nat /\ DOMAIN rule.optional = 1..m
    BY RuleTypes
  <1>2. \A i \in 1..m : \A l \in LoopStates : body(l, i) \in LoopStates
    BY <1>1, ListOptionalType
  <1>3. OptionalStart \in LoopStates
    <2>1. \A i : RequiredKeys(i) \in SUBSET TrustedIds
      BY DEF RequiredKeys, First, GetMatchedKeys, Matching
    <2>2. ListedRequired[Len(rule.required)] \in SUBSET TrustedIds
      BY <2>1, ListedRequiredIs
    <2> QED  BY <2>2 DEF OptionalStart, LoopStates
  <1>4. ListedOptional = c
    BY DEF ListedOptional, OptionalStart
  <1> HIDE DEF m, body
  <1>5. step \in [1..m -> [LoopStates -> LoopStates]]
    BY <1>2
  <1>6. PICK h : IsRun(h, m, LoopStates, OptionalStart, step)
    <2> HIDE DEF step
    <2> QED  BY <1>1, <1>3, <1>5, LoopRuns
  <1>7. /\ h \in [0..m -> LoopStates] /\ h[0] = OptionalStart
        /\ \A i \in 1..m : h[i] = body(h[i - 1], i)
    <2>1. /\ h \in [0..m -> LoopStates] /\ h[0] = OptionalStart
          /\ \A i \in 1..m : h[i] = step[i][h[i - 1]]
      BY <1>6 DEF IsRun
    <2>2. ASSUME NEW i \in 1..m PROVE h[i] = body(h[i - 1], i)
      <3>1. h[i - 1] \in LoopStates
        <4>1. i - 1 \in 0..m
          BY <1>1
        <4> QED  BY <2>1, <4>1
      <3> QED  BY <2>1, <3>1
    <2> QED  BY <2>1, <2>2
  <1>8. P(h)
    <2>1. h = [i \in 0..m |-> h[i]]
      BY <1>7
    <2>2. ASSUME NEW i \in 0..m
          PROVE  h[i] = IF i = 0 THEN OptionalStart ELSE body(h[i - 1], i)
      <3>1. i = 0 \/ i \in 1..m
        BY <1>1
      <3> QED  BY <1>7, <3>1
    <2> HIDE DEF step
    <2> QED  BY <2>1, <2>2
  <1>9. P(c)
    <2> HIDE DEF P
    <2> QED  BY <1>8
  <1>10. \A i \in 0..m : c[i] = IF i = 0 THEN OptionalStart ELSE body(c[i - 1], i)
    <2> HIDE DEF c
    <2> QED  BY <1>9
  <1> HIDE DEF c
  <1>11. c[0] = OptionalStart
    <2>1. 0 \in 0..m
      BY <1>1
    <2> QED  BY <1>10, <2>1
  <1>12. ASSUME NEW i \in 1..m PROVE c[i] = body(c[i - 1], i)
    <2>1. i \in 0..m /\ i # 0
      BY <1>1
    <2> QED  BY <1>10, <2>1
  <1>13. \A i \in 0..m : c[i] \in LoopStates
    <2> DEFINE Good == {i \in 0..m : c[i] \in LoopStates}
    <2>1. 0 \in Good
      BY <1>1, <1>3, <1>11
    <2>2. ASSUME NEW i \in 1..m, i - 1 \in Good PROVE i \in Good
      <3>1. i \in 0..m
        BY <1>1
      <3> QED  BY <1>2, <1>12, <2>2, <3>1
    <2>3. 0..m \subseteq Good
      <3> HIDE DEF Good
      <3> QED  BY <1>1, <2>1, <2>2, IntervalInduction
    <2> QED  BY <2>3
  <1> QED  BY <1>4, <1>11, <1>12, <1>13 DEF m, body

(***************************************************************************)
(* After i optional patterns the loop has either gone through all their    *)
(* keys and has not got enough, or it has enough.                          *)
(***************************************************************************)
OptionalUpTo(i) == UNION {OptionalKeys(j) : j \in 1..i}

SlotsUpTo(i) == SlotsBefore(rule, i + 1, unavailable)

OptionalLoopInv(i) ==
    LET loop == ListedOptional[i]
    IN  /\ loop.set = ListedRequired[Len(rule.required)] \cup OptionalUpTo(i)
        /\ loop.stop => loop.count >= rule.minOptional /\ SlotsUpTo(i) >= rule.minOptional
                        /\ i > 0
        /\ ~loop.stop => loop.count = SlotsUpTo(i)
                         /\ (i > 0 => loop.count < rule.minOptional)

LEMMA NoSlots ==
    ASSUME rule \in Schemas
    PROVE  SlotsUpTo(0) = 0
  <1>1. 1 \in 1..(Len(rule.optional) + 1)
    BY RuleTypes
  <1>2. /\ SlotsBefore(rule, 1, unavailable)
               = Total(Slots(rule, unavailable), 1..(1 - 1))
        /\ 1..(1 - 1) = {}
    BY <1>1, SlotsBeforeType
  <1>3. Total(Slots(rule, unavailable), {}) = 0
    BY FS_EmptySet, TotalStep
  <1> QED  BY <1>2, <1>3 DEF SlotsUpTo

LEMMA SlotsUpToStep ==
    ASSUME rule \in Schemas, NEW n \in 1..Len(rule.optional)
    PROVE  /\ SlotsUpTo(n - 1) = SlotsBefore(rule, n, unavailable)
           /\ SlotsUpTo(n - 1) \in Nat
           /\ SlotsUpTo(n) = SlotsUpTo(n - 1) + OptionalSlots(rule, n, unavailable)
  <1> DEFINE g == Slots(rule, unavailable)
             I == 1..n
             J == 1..(n - 1)
  <1>1. /\ Len(rule.optional) \in Nat /\ DOMAIN rule.optional = 1..Len(rule.optional)
        /\ n \in Nat /\ (n - 1) + 1 = n /\ (n + 1) - 1 = n
        /\ n \in 1..(Len(rule.optional) + 1) /\ n + 1 \in 1..(Len(rule.optional) + 1)
    BY RuleTypes
  <1>2. /\ SlotsBefore(rule, n, unavailable) = Total(g, J)
        /\ SlotsBefore(rule, n, unavailable) \in Nat
    BY <1>1, SlotsBeforeType
  <1>3. SlotsBefore(rule, n + 1, unavailable) = Total(g, I) /\ IsFiniteSet(I)
    <2> DEFINE k == n + 1
    <2>1. k \in 1..(Len(rule.optional) + 1) /\ k - 1 = n
      BY <1>1
    <2>2. /\ SlotsBefore(rule, k, unavailable) = Total(g, 1..(k - 1))
          /\ IsFiniteSet(1..(k - 1))
      <3> HIDE DEF k
      <3> QED  BY <2>1, SlotsBeforeType
    <2> QED  BY <2>1, <2>2
  <1>4. Total(g, I) = g[n] + Total(g, J)
    <2>1. I \ {n} = J /\ n \in I /\ \A i \in I : i \in DOMAIN rule.optional
      BY <1>1
    <2>2. \A i \in I : g[i] \in Nat
      BY <2>1, SlotsType
    <2> HIDE DEF I, J, g
    <2> QED  BY <1>3, <2>1, <2>2, TotalRemove
  <1>5. g[n] = OptionalSlots(rule, n, unavailable) /\ g[n] \in Nat
    BY <1>1, SlotsType
  <1> HIDE DEF g, I, J
  <1>6. /\ SlotsUpTo(n - 1) = SlotsBefore(rule, n, unavailable)
        /\ SlotsUpTo(n) = SlotsBefore(rule, n + 1, unavailable)
    BY <1>1 DEF SlotsUpTo
  <1> QED  BY <1>2, <1>3, <1>4, <1>5, <1>6

LEMMA OptionalLoopRound ==
    ASSUME rule \in Schemas, EnoughRequired, NEW n \in 1..Len(rule.optional),
           OptionalLoopInv(n - 1)
    PROVE  OptionalLoopInv(n)
  <1> DEFINE before == ListedOptional[n - 1]
             after == ListedOptional[n]
             take == OptionalTake(rule, n, unavailable)
             slots == OptionalSlots(rule, n, unavailable)
             R == ListedRequired[Len(rule.required)]
             was == SlotsUpTo(n - 1)
             is == SlotsUpTo(n)
             min == rule.minOptional
  <1>1. /\ Len(rule.optional) \in Nat /\ n \in DOMAIN rule.optional /\ min \in Nat
        /\ n \in Nat /\ n >= 1 /\ n - 1 \in 0..Len(rule.optional)
    BY RuleTypes
  <1>2. /\ after = ListOptional(before, rule.optional[n])
        /\ before \in LoopStates /\ before.count \in Nat
    BY <1>1, ListedOptionalRuns DEF LoopStates
  <1>3. /\ before.set = R \cup OptionalUpTo(n - 1)
        /\ before.stop => before.count >= min /\ was >= min /\ n - 1 > 0
        /\ ~before.stop => before.count = was /\ (n - 1 > 0 => before.count < min)
    BY DEF OptionalLoopInv
  <1>4. /\ was = SlotsBefore(rule, n, unavailable) /\ was \in Nat
        /\ is = was + slots
    BY SlotsUpToStep
  <1>5. /\ take \in Nat /\ slots \in Nat /\ take <= slots
        /\ take = slots \/ take >= min - was
    BY <1>1, <1>4, TakeType, SlotsType
  <1>6. OptionalUpTo(n) = OptionalUpTo(n - 1) \cup OptionalKeys(n)
    <2>1. 1..n = 1..(n - 1) \cup {n}
      BY <1>1
    <2> QED  BY <2>1 DEF OptionalUpTo
  <1>7. CASE before.stop
    <2>1. after = before
      BY <1>2, <1>7 DEF ListOptional
    <2>2. was >= min /\ n > 1 /\ before.count >= min
      BY <1>1, <1>3, <1>7
    <2>3. take = 0
      BY <1>1, <1>4, <2>2 DEF OptionalTake
    <2>4. OptionalKeys(n) = {}
      <3>1. GetMatchedKeys(rule.optional[n], unavailable) \in SUBSET TrustedIds
        BY KeysVector
      <3>2. \A k \in TrustedIds : Cardinality({j \in GetMatchedKeys(rule.optional[n], unavailable) :
                                                 NameLess(j, k)}) >= 0
        <4> TAKE k \in TrustedIds
        <4>1. {j \in GetMatchedKeys(rule.optional[n], unavailable) : NameLess(j, k)}
                  \in SUBSET TrustedIds
          BY <3>1
        <4> QED  BY <4>1, SubsetsFinite
      <3>3. OptionalKeys(n) = First(0, GetMatchedKeys(rule.optional[n], unavailable))
        BY <2>3 DEF OptionalKeys
      <3> QED  BY <3>1, <3>3, FirstIsBounded, FS_EmptySet
    <2> HIDE DEF before, after, take, slots, R, was, is, min
    <2>5. after.set = R \cup OptionalUpTo(n)
      BY <1>3, <1>6, <2>1, <2>4
    <2>6. after.stop /\ after.count >= min /\ is >= min /\ n > 0
      BY <1>1, <1>4, <1>5, <1>7, <2>1, <2>2
    <2> QED  BY <2>5, <2>6 DEF OptionalLoopInv, after, R, is, min
  <1>8. CASE ~before.stop
    <2>1. before.count = was /\ (n > 1 => before.count < min)
      BY <1>1, <1>3, <1>8
    <2>2. /\ after.set = before.set \cup OptionalKeys(n)
          /\ after.count = before.count + take
          /\ after.stop <=> after.count >= min
      <3> HIDE DEF before, min
      <3>1. n > 1 => before.count < rule.minOptional
        BY <2>1 DEF min
      <3> QED  BY <1>1, <1>2, <1>4, <1>8, <2>1, <3>1, ListOptionalRound DEF min
    <2> HIDE DEF before, after, take, slots, R, was, is, min
    <2>3. after.set = R \cup OptionalUpTo(n)
      BY <1>3, <1>6, <2>2
    <2>4. after.count >= min => is >= min
      BY <1>1, <1>4, <1>5, <2>1, <2>2
    <2>5. ~(after.count >= min) => after.count = is /\ after.count < min
      BY <1>1, <1>4, <1>5, <2>1, <2>2
    <2>6. n > 0
      BY <1>1
    <2> QED  BY <2>2, <2>3, <2>4, <2>5, <2>6 DEF OptionalLoopInv, after, R, is, min
  <1> QED  BY <1>7, <1>8

(***************************************************************************)
(* What getAvailableSigners is said to return is what its loops collect,   *)
(* and it throws when they say so: with the break in two places, the count *)
(* that includes keys the set had already, and an at-least-num of 0.       *)
(***************************************************************************)
LEMMA AvailableAsLoop ==
    ASSUME rule \in Schemas
    PROVE  /\ SufficientKeys(rule, unavailable)
                  <=> EnoughRequired /\ LoopAvailable.count >= rule.minOptional
           /\ SufficientKeys(rule, unavailable) =>
                  GetAvailableSigners(rule, unavailable) = LoopAvailable.set
  <1> DEFINE m == Len(rule.optional)
             loop == ListedOptional[m]
             min == rule.minOptional
  <1>1. m \in Nat /\ min \in Nat /\ DOMAIN rule.optional = 1..m
    BY RuleTypes
  <1>2. EnoughRequired <=>
            \A i \in DOMAIN rule.required :
                Cardinality(GetMatchedKeys(rule.required[i], unavailable))
                    >= rule.required[i].times
    <2>1. \A i \in DOMAIN rule.required :
             Len(SortedKeys(rule.required[i], unavailable))
                 = Cardinality(GetMatchedKeys(rule.required[i], unavailable))
      BY KeysVector
    <2> QED  BY <2>1 DEF EnoughRequired
  <1>3. SufficientKeys(rule, unavailable) <=> EnoughRequired /\ SlotsUpTo(m) >= min
    BY <1>2 DEF SufficientKeys, SlotsUpTo
  <1>4. ASSUME EnoughRequired
        PROVE  /\ SlotsUpTo(m) >= min <=> loop.count >= min
               /\ GetAvailableSigners(rule, unavailable) = loop.set
    <2> DEFINE Good == {n \in 0..m : OptionalLoopInv(n)}
    <2>1. 0 \in Good
      <3>1. ListedOptional[0] = OptionalStart
        BY <1>4, ListedOptionalRuns
      <3>2. OptionalUpTo(0) = {}
        BY DEF OptionalUpTo
      <3>3. SlotsUpTo(0) = 0
        BY NoSlots
      <3>4. OptionalLoopInv(0)
        BY <3>1, <3>2, <3>3 DEF OptionalLoopInv, OptionalStart
      <3>5. 0 \in 0..m
        BY <1>1
      <3> QED  BY <3>4, <3>5
    <2>2. ASSUME NEW n \in 1..m, n - 1 \in Good PROVE n \in Good
      <3>1. n \in 0..m /\ OptionalLoopInv(n - 1)
        BY <1>1, <2>2
      <3> QED  BY <1>4, <3>1, OptionalLoopRound
    <2>3. 0..m \subseteq Good
      <3> HIDE DEF Good, m
      <3> QED  BY <1>1, <2>1, <2>2, IntervalInduction
    <2>4. OptionalLoopInv(m)
      <3>1. m \in 0..m
        BY <1>1
      <3> QED  BY <2>3, <3>1
    <2>5. SlotsUpTo(m) >= min <=> loop.count >= min
      <3> HIDE DEF m, min
      <3> QED  BY <2>4 DEF OptionalLoopInv, min
    <2>6. loop.set = (UNION {RequiredKeys(i) : i \in DOMAIN rule.required})
                        \cup (UNION {OptionalKeys(j) : j \in DOMAIN rule.optional})
      BY <1>1, <1>4, <2>4, ListedRequiredIs DEF OptionalLoopInv, OptionalUpTo
    <2>7. GetAvailableSigners(rule, unavailable)
             = (UNION {RequiredKeys(i) : i \in DOMAIN rule.required})
                   \cup (UNION {OptionalKeys(j) : j \in DOMAIN rule.optional})
      BY DEF GetAvailableSigners, RequiredKeys, OptionalKeys
    <2> QED  BY <2>5, <2>6, <2>7
  <1>5. LoopAvailable = loop
    BY DEF LoopAvailable
  <1> HIDE DEF m, loop, min
  <1>6. SufficientKeys(rule, unavailable) <=> EnoughRequired /\ loop.count >= min
    BY <1>3, <1>4
  <1> QED  BY <1>3, <1>4, <1>5, <1>6 DEF min

(***************************************************************************)
(* For every rule that was read and every cache of unavailable keys,       *)
(* getAvailableSigners throws when one of its loops runs out of keys, and  *)
(* otherwise returns what they collect.                                    *)
(***************************************************************************)
THEOREM AvailableIsItsLoop == Spec => []AvailableIsLoop
  <1>1. Inv => AvailableIsLoop
    BY AvailableAsLoop DEF Inv, AvailableIsLoop, EnoughRequired
  <1> QED  BY <1>1, InitInv, InvInductive, PTL DEF Spec

-----------------------------------------------------------------------------
(***************************************************************************)
(* The loops of replaceSigner.                                             *)
(***************************************************************************)
ReplaceStates == [set : SUBSET TrustedIds, diff : SUBSET TrustedIds,
                  failed : BOOLEAN, stop : BOOLEAN]

LEMMA UnusedIsNew ==
    ASSUME NEW set, NEW pattern, NEW gone
    PROVE  /\ NewKeyForPattern(set, pattern, gone) = {}
                 <=> Filled(set, pattern) \/ Unused(set, pattern, gone) = {}
           /\ FoundKeyForPattern(set, pattern, gone)
                 <=> Filled(set, pattern) \/ Unused(set, pattern, gone) # {}
           /\ NewKeyForPattern(set, pattern, gone) # {} =>
                 NewKeyForPattern(set, pattern, gone)
                     = {SortedKeys(pattern, gone)[Min(Unused(set, pattern, gone))]}
  <1> DEFINE S == GetMatchedKeys(pattern, gone)
             unused == Unused(set, pattern, gone)
             new == InOrder(S)[Min(unused)]
  <1>1. /\ S \in SUBSET TrustedIds /\ SortedKeys(pattern, gone) = InOrder(S)
        /\ DOMAIN SortedKeys(pattern, gone) = 1..Cardinality(S)
    BY KeysVector
  <1>2. unused = UnusedPlaces(S, set)
    <2> HIDE DEF S
    <2> QED  BY <1>1 DEF Unused, UnusedPlaces
  <1>3. /\ unused = {} <=> S \ set = {}
        /\ unused # {} => First(1, S \ set) = {new}
    <2> HIDE DEF S, unused
    <2> QED  BY <1>1, <1>2, FirstUnused
  <1>4. NewKeyForPattern(set, pattern, gone)
            = IF Filled(set, pattern) THEN {} ELSE First(1, S \ set)
    BY DEF NewKeyForPattern
  <1>5. First(1, {}) = {}
    BY DEF First
  <1>6. FoundKeyForPattern(set, pattern, gone) <=> Filled(set, pattern) \/ S \ set # {}
    BY DEF FoundKeyForPattern
  <1> HIDE DEF S, unused, new
  <1>7. /\ NewKeyForPattern(set, pattern, gone) = {} <=> Filled(set, pattern) \/ unused = {}
        /\ FoundKeyForPattern(set, pattern, gone) <=> Filled(set, pattern) \/ unused # {}
        /\ NewKeyForPattern(set, pattern, gone) # {} =>
              NewKeyForPattern(set, pattern, gone) = {new}
    BY <1>3, <1>4, <1>5, <1>6
  <1> QED  BY <1>1, <1>7 DEF unused, new

(* A state with a key that was found, if there is one. *)
With(loop, new) == [loop EXCEPT !.set = @ \cup new, !.diff = @ \cup new]

(* The same state after the break. *)
Stopped(loop, new) == [With(loop, new) EXCEPT !.stop = TRUE]

LEMMA WithType ==
    ASSUME NEW loop \in ReplaceStates, NEW new \in SUBSET TrustedIds
    PROVE  /\ With(loop, new) \in ReplaceStates
           /\ With(loop, new).set = loop.set \cup new
           /\ With(loop, new).diff = loop.diff \cup new
           /\ With(loop, new).failed = loop.failed /\ With(loop, new).stop = loop.stop
           /\ new = {} => With(loop, new) = loop
  <1>1. /\ loop.set \cup new \in SUBSET TrustedIds
        /\ loop.diff \cup new \in SUBSET TrustedIds
    BY DEF ReplaceStates
  <1>2. new = {} => loop.set \cup new = loop.set /\ loop.diff \cup new = loop.diff
    OBVIOUS
  <1> QED  BY <1>1, <1>2 DEF With, ReplaceStates

LEMMA FillIsWith ==
    ASSUME NEW loop \in ReplaceStates, NEW pattern, NEW gone,
           ~Filled(loop.set, pattern), Unused(loop.set, pattern, gone) # {}
    PROVE  Fill(loop, pattern, gone) = With(loop, NewKeyForPattern(loop.set, pattern, gone))
  <1> DEFINE key == SortedKeys(pattern, gone)[Min(Unused(loop.set, pattern, gone))]
             new == NewKeyForPattern(loop.set, pattern, gone)
  <1>1. new = {key}
    BY UnusedIsNew
  <1>2. Fill(loop, pattern, gone)
            = [loop EXCEPT !.set = @ \cup {key}, !.diff = @ \cup {key}]
    BY DEF Fill
  <1> HIDE DEF key, new
  <1>3. Fill(loop, pattern, gone) = With(loop, new)
    BY <1>1, <1>2 DEF With
  <1> QED  BY <1>3 DEF new

LEMMA NewKeyType ==
    ASSUME NEW set, NEW pattern, NEW gone
    PROVE  NewKeyForPattern(set, pattern, gone) \in SUBSET TrustedIds
  BY NewKeyIsNew

LEMMA ReplaceRequiredDoes ==
    ASSUME NEW loop \in ReplaceStates, NEW pattern, NEW key, NEW gone
    PROVE  LET next == ReplaceRequired(loop, pattern, key, gone)
               found == FoundKeyForPattern(loop.set, pattern, gone)
               new == IF Match(pattern, key)
                      THEN NewKeyForPattern(loop.set, pattern, gone) ELSE {}
           IN  /\ next \in ReplaceStates
               /\ loop.failed => next = loop
               /\ ~loop.failed /\ Match(pattern, key) /\ ~found =>
                      next = [loop EXCEPT !.failed = TRUE]
               /\ ~loop.failed /\ (~Match(pattern, key) \/ found) => next = With(loop, new)
  <1> DEFINE next == ReplaceRequired(loop, pattern, key, gone)
             found == FoundKeyForPattern(loop.set, pattern, gone)
             new == IF Match(pattern, key) THEN NewKeyForPattern(loop.set, pattern, gone) ELSE {}
  <1>1. /\ With(loop, new) \in ReplaceStates
        /\ new = {} => With(loop, new) = loop
    <2>1. new \in SUBSET TrustedIds
      BY NewKeyType
    <2> HIDE DEF new
    <2> QED  BY <2>1, WithType
  <1>2. [loop EXCEPT !.failed = TRUE] \in ReplaceStates
    BY DEF ReplaceStates
  <1>3. CASE loop.failed
    BY <1>3 DEF ReplaceRequired
  <1>4. CASE ~loop.failed /\ ~Match(pattern, key)
    BY <1>1, <1>4 DEF ReplaceRequired
  <1>5. CASE ~loop.failed /\ Match(pattern, key) /\ Filled(loop.set, pattern)
    BY <1>1, <1>5, UnusedIsNew DEF ReplaceRequired
  <1>6. CASE /\ ~loop.failed /\ Match(pattern, key) /\ ~Filled(loop.set, pattern)
             /\ Unused(loop.set, pattern, gone) = {}
    BY <1>2, <1>6, UnusedIsNew DEF ReplaceRequired
  <1>7. CASE /\ ~loop.failed /\ Match(pattern, key) /\ ~Filled(loop.set, pattern)
             /\ Unused(loop.set, pattern, gone) # {}
    <2>1. next = Fill(loop, pattern, gone)
      BY <1>7 DEF ReplaceRequired
    <2>2. next = With(loop, new) /\ found
      BY <1>7, <2>1, FillIsWith, UnusedIsNew
    <2> QED  BY <1>1, <1>7, <2>2
  <1> QED  BY <1>3, <1>4, <1>5, <1>6, <1>7

LEMMA ReplaceOptionalDoes ==
    ASSUME NEW loop \in ReplaceStates, NEW pattern, NEW gone
    PROVE  LET next == ReplaceOptional(loop, pattern, gone)
               new == NewKeyForPattern(loop.set, pattern, gone)
           IN  /\ next \in ReplaceStates
               /\ loop.stop \/ new = {} => next = loop
               /\ ~loop.stop /\ new # {} => next = Stopped(loop, new)
  <1> DEFINE next == ReplaceOptional(loop, pattern, gone)
             new == NewKeyForPattern(loop.set, pattern, gone)
  <1>1. With(loop, new) \in ReplaceStates
    BY NewKeyType, WithType
  <1>2. Stopped(loop, new) \in ReplaceStates
    <2> HIDE DEF new
    <2> QED  BY <1>1 DEF ReplaceStates, Stopped
  <1>3. CASE loop.stop \/ new = {}
    BY <1>3, UnusedIsNew DEF ReplaceOptional
  <1>4. CASE ~loop.stop /\ new # {}
    <2>1. ~Filled(loop.set, pattern) /\ Unused(loop.set, pattern, gone) # {}
      BY <1>4, UnusedIsNew
    <2>2. next = [Fill(loop, pattern, gone) EXCEPT !.stop = TRUE]
      BY <1>4, <2>1 DEF ReplaceOptional
    <2>3. Fill(loop, pattern, gone) = With(loop, new)
      BY <2>1, FillIsWith
    <2> QED  BY <1>2, <1>4, <2>2, <2>3 DEF Stopped
  <1> QED  BY <1>3, <1>4

(***************************************************************************)
(* What the loop over the required patterns would build if it never        *)
(* failed: g[i] after i patterns.  Its pieces are the only ones that the   *)
(* trace of the loop can have.                                             *)
(***************************************************************************)
Piece(g, i, key, gone) ==
    IF Match(rule.required[i], key)
    THEN NewKeyForPattern(g[i - 1], rule.required[i], gone)
    ELSE {}

Grows(g, key, gone) ==
    /\ g \in [0..Len(rule.required) -> SUBSET TrustedIds]
    /\ g[0] = list \ {key}
    /\ \A i \in 1..Len(rule.required) : g[i] = g[i - 1] \cup Piece(g, i, key, gone)

Pieces(g, key, gone) == [i \in DOMAIN rule.required |-> Piece(g, i, key, gone)]

PiecesUpTo(a, i) == UNION {a[j] : j \in 1..i}

LEMMA GrowsExists ==
    ASSUME rule \in Schemas, list \in SUBSET TrustedIds, NEW key, NEW gone
    PROVE  \E g : Grows(g, key, gone)
  <1> DEFINE m == Len(rule.required)
             new(S, i) == IF Match(rule.required[i], key)
                          THEN NewKeyForPattern(S, rule.required[i], gone) ELSE {}
             step == [i \in 1..m |-> [S \in SUBSET TrustedIds |-> S \cup new(S, i)]]
             kept == list \ {key}
  <1>1. m \in Nat /\ kept \in SUBSET TrustedIds
    BY RuleTypes
  <1>2. \A S \in SUBSET TrustedIds, i \in 1..m : S \cup new(S, i) \in SUBSET TrustedIds
    BY NewKeyType
  <1> HIDE DEF m, new, kept
  <1>3. step \in [1..m -> [SUBSET TrustedIds -> SUBSET TrustedIds]]
    BY <1>2
  <1>4. PICK g : IsRun(g, m, SUBSET TrustedIds, kept, step)
    <2> HIDE DEF step
    <2> QED  BY <1>1, <1>3, LoopRuns
  <1>5. /\ g \in [0..m -> SUBSET TrustedIds] /\ g[0] = kept
        /\ \A i \in 1..m : g[i] = step[i][g[i - 1]]
    BY <1>4 DEF IsRun
  <1>6. ASSUME NEW i \in 1..m PROVE g[i] = g[i - 1] \cup new(g[i - 1], i)
    <2>1. g[i - 1] \in SUBSET TrustedIds
      <3>1. i - 1 \in 0..m
        BY <1>1
      <3> QED  BY <1>5, <3>1
    <2> QED  BY <1>5, <2>1
  <1> HIDE DEF step
  <1> QED  BY <1>5, <1>6 DEF Grows, Piece, m, new, kept

LEMMA PieceType ==
    ASSUME NEW g, NEW i, NEW key, NEW gone
    PROVE  Piece(g, i, key, gone) \in {{}} \cup {{k} : k \in TrustedIds}
  <1> DEFINE new == NewKeyForPattern(g[i - 1], rule.required[i], gone)
  <1>1. new \in SUBSET TrustedIds
    BY NewKeyType
  <1>2. new = {} \/ \E k : new = {k}
    BY UnusedIsNew
  <1>3. Piece(g, i, key, gone) = {} \/ Piece(g, i, key, gone) = new
    BY DEF Piece
  <1> HIDE DEF new
  <1>4. new = {} \/ \E k \in TrustedIds : new = {k}
    BY <1>1, <1>2
  <1> QED  BY <1>3, <1>4

LEMMA PiecesStep ==
    ASSUME NEW a, NEW m \in Nat, NEW i \in 1..m
    PROVE  PiecesUpTo(a, i) = PiecesUpTo(a, i - 1) \cup a[i]
  <1>1. 1..i = 1..(i - 1) \cup {i}
    OBVIOUS
  <1> QED  BY <1>1 DEF PiecesUpTo

(* A trace that has the right pieces after right pieces has what g has. *)
Follows(a, g, key, gone) ==
    \A i \in 1..Len(rule.required) :
        g[i - 1] = (list \ {key}) \cup PiecesUpTo(a, i - 1)
            => a[i] = Piece(g, i, key, gone)

LEMMA PiecesAddUp ==
    ASSUME rule \in Schemas, NEW key, NEW gone, NEW g, Grows(g, key, gone), NEW a,
           Follows(a, g, key, gone)
    PROVE  \A i \in 0..Len(rule.required) :
               g[i] = (list \ {key}) \cup PiecesUpTo(a, i)
  <1> DEFINE n == Len(rule.required)
             kept == list \ {key}
             Good == {i \in 0..n : g[i] = kept \cup PiecesUpTo(a, i)}
  <1>1. n \in Nat /\ \A i \in 1..n : i \in 0..n
    <2>1. n \in Nat
      BY RuleTypes
    <2> HIDE DEF n
    <2> QED  BY <2>1
  <1>2. /\ g[0] = kept
        /\ \A i \in 1..n : g[i] = g[i - 1] \cup Piece(g, i, key, gone)
    BY DEF Grows
  <1>3. \A i \in 1..n : g[i - 1] = kept \cup PiecesUpTo(a, i - 1)
                         => a[i] = Piece(g, i, key, gone)
    BY DEF Follows
  <1> HIDE DEF kept, n
  <1>4. 0 \in Good
    <2>1. PiecesUpTo(a, 0) = {} /\ 0 \in 0..n
      BY <1>1 DEF PiecesUpTo
    <2> QED  BY <1>2, <2>1
  <1>5. ASSUME NEW i \in 1..n, i - 1 \in Good PROVE i \in Good
    <2>1. g[i - 1] = kept \cup PiecesUpTo(a, i - 1)
      BY <1>5
    <2>2. a[i] = Piece(g, i, key, gone)
      BY <1>3, <2>1
    <2>3. PiecesUpTo(a, i) = PiecesUpTo(a, i - 1) \cup a[i]
      BY <1>1, PiecesStep
    <2>4. g[i] = g[i - 1] \cup Piece(g, i, key, gone)
      BY <1>2
    <2> QED  BY <1>1, <2>1, <2>2, <2>3, <2>4
  <1>6. 0..n \subseteq Good
    <2> HIDE DEF Good
    <2> QED  BY <1>1, <1>4, <1>5, IntervalInduction
  <1> QED  BY <1>6 DEF kept, n

LEMMA OneTrace ==
    ASSUME rule \in Schemas, NEW key, NEW gone, NEW g, Grows(g, key, gone)
    PROVE  {a \in Additions(rule.required) :
               RequiredLoop(list \ {key}, a, key, rule.required, gone)}
               = {Pieces(g, key, gone)}
  <1> DEFINE kept == list \ {key}
             m == Len(rule.required)
             p == Pieces(g, key, gone)
  <1>1. /\ m \in Nat /\ DOMAIN rule.required = 1..m /\ m \in 0..m
        /\ \A i \in 1..m : i - 1 \in 0..m
    <2>1. m \in Nat /\ DOMAIN rule.required = 1..m
      BY RuleTypes
    <2> HIDE DEF m
    <2> QED  BY <2>1
  <1>2. \A a, i : Before(kept, a, i) = kept \cup PiecesUpTo(a, i - 1)
    BY DEF Before, PiecesUpTo
  <1>3. p \in Additions(rule.required) /\ \A i \in 1..m : p[i] = Piece(g, i, key, gone)
    BY <1>1, PieceType DEF Additions, Pieces
  <1> HIDE DEF m, kept, p
  <1>4. RequiredLoop(kept, p, key, rule.required, gone)
    <2>1. \A i \in 0..m : g[i] = kept \cup PiecesUpTo(p, i)
      <3>1. Follows(p, g, key, gone)
        BY <1>3 DEF Follows, m
      <3> QED  BY <3>1, PiecesAddUp DEF m, kept
    <2>2. \A i \in 1..m : Before(kept, p, i) = g[i - 1]
      BY <1>1, <1>2, <2>1
    <2> QED  BY <1>1, <1>3, <2>2 DEF RequiredLoop, Piece
  <1>5. ASSUME NEW a \in Additions(rule.required),
               RequiredLoop(kept, a, key, rule.required, gone)
        PROVE  a = p
    <2>1. \A i \in 1..m : g[i - 1] = kept \cup PiecesUpTo(a, i - 1)
                           => a[i] = Piece(g, i, key, gone)
      <3> SUFFICES ASSUME NEW i \in 1..m, g[i - 1] = kept \cup PiecesUpTo(a, i - 1)
                   PROVE  a[i] = Piece(g, i, key, gone)
        OBVIOUS
      <3>1. Before(kept, a, i) = g[i - 1]
        BY <1>2
      <3> QED  BY <1>1, <1>5, <3>1 DEF RequiredLoop, Piece
    <2>2. \A i \in 0..m : g[i] = kept \cup PiecesUpTo(a, i)
      <3>1. Follows(a, g, key, gone)
        BY <2>1 DEF Follows, m, kept
      <3> QED  BY <3>1, PiecesAddUp DEF m, kept
    <2>3. \A i \in 1..m : a[i] = p[i]
      BY <1>1, <1>3, <2>1, <2>2
    <2>4. a = [i \in 1..m |-> a[i]] /\ p = [i \in 1..m |-> p[i]]
      BY <1>1, <1>3 DEF Additions
    <2> QED  BY <2>3, <2>4
  <1> QED  BY <1>3, <1>4, <1>5 DEF kept, p

ReplaceStart(key) ==
    [set |-> list \ {key}, diff |-> {}, failed |-> FALSE, stop |-> FALSE]

LEMMA ReplacedRequiredRuns ==
    ASSUME rule \in Schemas, list \in SUBSET TrustedIds, NEW key, NEW gone
    PROVE  \E h : /\ h[0] = ReplaceStart(key)
                  /\ \A i \in 1..Len(rule.required) :
                        h[i] = ReplaceRequired(h[i - 1], rule.required[i], key, gone)
                  /\ ReplacedRequired(key, gone) = h[Len(rule.required)]
  <1> DEFINE m == Len(rule.required)
             start == ReplaceStart(key)
             body(loop, i) == ReplaceRequired(loop, rule.required[i], key, gone)
             P(h) == h = [i \in 0..m |-> IF i = 0 THEN start ELSE body(h[i - 1], i)]
             step == [i \in 1..m |-> [l \in ReplaceStates |-> body(l, i)]]
             c == CHOOSE h : P(h)
  <1>1. m \in Nat /\ start \in ReplaceStates
    BY RuleTypes DEF ReplaceStart, ReplaceStates
  <1>2. \A i \in 1..m : \A l \in ReplaceStates : body(l, i) \in ReplaceStates
    BY ReplaceRequiredDoes
  <1>3. ReplacedRequired(key, gone) = c[m]
    BY DEF ReplacedRequired, ReplaceStart
  <1> HIDE DEF m, body, start
  <1>4. step \in [1..m -> [ReplaceStates -> ReplaceStates]]
    BY <1>2
  <1>5. PICK h : IsRun(h, m, ReplaceStates, start, step)
    <2> HIDE DEF step
    <2> QED  BY <1>1, <1>4, LoopRuns
  <1>6. /\ h \in [0..m -> ReplaceStates] /\ h[0] = start
        /\ \A i \in 1..m : h[i] = body(h[i - 1], i)
    <2>1. /\ h \in [0..m -> ReplaceStates] /\ h[0] = start
          /\ \A i \in 1..m : h[i] = step[i][h[i - 1]]
      BY <1>5 DEF IsRun
    <2>2. ASSUME NEW i \in 1..m PROVE h[i] = body(h[i - 1], i)
      <3>1. h[i - 1] \in ReplaceStates
        <4>1. i - 1 \in 0..m
          BY <1>1
        <4> QED  BY <2>1, <4>1
      <3> QED  BY <2>1, <3>1
    <2> QED  BY <2>1, <2>2
  <1>7. P(h)
    <2>1. h = [i \in 0..m |-> h[i]]
      BY <1>6
    <2>2. ASSUME NEW i \in 0..m PROVE h[i] = IF i = 0 THEN start ELSE body(h[i - 1], i)
      <3>1. i = 0 \/ i \in 1..m
        BY <1>1
      <3> QED  BY <1>6, <3>1
    <2> HIDE DEF step
    <2> QED  BY <2>1, <2>2
  <1>8. P(c)
    <2> HIDE DEF P
    <2> QED  BY <1>7
  <1>9. \A i \in 0..m : c[i] = IF i = 0 THEN start ELSE body(c[i - 1], i)
    <2> HIDE DEF c
    <2> QED  BY <1>8
  <1> HIDE DEF c
  <1>10. c[0] = start
    <2>1. 0 \in 0..m
      BY <1>1
    <2> QED  BY <1>9, <2>1
  <1>11. ASSUME NEW i \in 1..m PROVE c[i] = body(c[i - 1], i)
    <2>1. i \in 0..m /\ i # 0
      BY <1>1
    <2> QED  BY <1>9, <2>1
  <1> QED  BY <1>3, <1>10, <1>11 DEF m, start, body

LEMMA ReplacedOptionalRuns ==
    ASSUME rule \in Schemas, NEW loop \in ReplaceStates, NEW gone
    PROVE  \E h : /\ h[0] = loop
                  /\ \A i \in 1..Len(rule.optional) :
                        h[i] = ReplaceOptional(h[i - 1], rule.optional[i], gone)
                  /\ ReplacedOptional(loop, gone) = h[Len(rule.optional)]
  <1> DEFINE m == Len(rule.optional)
             body(l, i) == ReplaceOptional(l, rule.optional[i], gone)
             P(h) == h = [i \in 0..m |-> IF i = 0 THEN loop ELSE body(h[i - 1], i)]
             step == [i \in 1..m |-> [l \in ReplaceStates |-> body(l, i)]]
             c == CHOOSE h : P(h)
  <1>1. m \in Nat
    BY RuleTypes
  <1>2. \A i \in 1..m : \A l \in ReplaceStates : body(l, i) \in ReplaceStates
    BY ReplaceOptionalDoes
  <1>3. ReplacedOptional(loop, gone) = c[m]
    BY DEF ReplacedOptional
  <1> HIDE DEF m, body
  <1>4. step \in [1..m -> [ReplaceStates -> ReplaceStates]]
    BY <1>2
  <1>5. PICK h : IsRun(h, m, ReplaceStates, loop, step)
    <2> HIDE DEF step
    <2> QED  BY <1>1, <1>4, LoopRuns
  <1>6. /\ h \in [0..m -> ReplaceStates] /\ h[0] = loop
        /\ \A i \in 1..m : h[i] = body(h[i - 1], i)
    <2>1. /\ h \in [0..m -> ReplaceStates] /\ h[0] = loop
          /\ \A i \in 1..m : h[i] = step[i][h[i - 1]]
      BY <1>5 DEF IsRun
    <2>2. ASSUME NEW i \in 1..m PROVE h[i] = body(h[i - 1], i)
      <3>1. h[i - 1] \in ReplaceStates
        <4>1. i - 1 \in 0..m
          BY <1>1
        <4> QED  BY <2>1, <4>1
      <3> QED  BY <2>1, <3>1
    <2> QED  BY <2>1, <2>2
  <1>7. P(h)
    <2>1. h = [i \in 0..m |-> h[i]]
      BY <1>6
    <2>2. ASSUME NEW i \in 0..m PROVE h[i] = IF i = 0 THEN loop ELSE body(h[i - 1], i)
      <3>1. i = 0 \/ i \in 1..m
        BY <1>1
      <3> QED  BY <1>6, <3>1
    <2> HIDE DEF step
    <2> QED  BY <2>1, <2>2
  <1>8. P(c)
    <2> HIDE DEF P
    <2> QED  BY <1>7
  <1>9. \A i \in 0..m : c[i] = IF i = 0 THEN loop ELSE body(c[i - 1], i)
    <2> HIDE DEF c
    <2> QED  BY <1>8
  <1> HIDE DEF c
  <1>10. c[0] = loop
    <2>1. 0 \in 0..m
      BY <1>1
    <2> QED  BY <1>9, <2>1
  <1>11. ASSUME NEW i \in 1..m PROVE c[i] = body(c[i - 1], i)
    <2>1. i \in 0..m /\ i # 0
      BY <1>1
    <2> QED  BY <1>9, <2>1
  <1> QED  BY <1>3, <1>10, <1>11 DEF m, body

(* The loop has met a pattern that nobody can be found for. *)
Fails(g, i, key, gone) ==
    \E j \in 1..i : /\ Match(rule.required[j], key)
                    /\ ~FoundKeyForPattern(g[j - 1], rule.required[j], gone)

RequiredInv(loop, g, i, key, gone) ==
    /\ loop \in ReplaceStates /\ ~loop.stop
    /\ loop.failed => Fails(g, i, key, gone)
    /\ ~loop.failed => /\ ~Fails(g, i, key, gone)
                       /\ loop.set = g[i]
                       /\ loop.diff = PiecesUpTo(Pieces(g, key, gone), i)

LEMMA RequiredRound ==
    ASSUME rule \in Schemas, NEW key, NEW gone, NEW g, Grows(g, key, gone),
           NEW i \in 1..Len(rule.required), NEW loop, RequiredInv(loop, g, i - 1, key, gone)
    PROVE  RequiredInv(ReplaceRequired(loop, rule.required[i], key, gone), g, i, key, gone)
  <1> DEFINE pattern == rule.required[i]
             next == ReplaceRequired(loop, pattern, key, gone)
             piece == Piece(g, i, key, gone)
             p == Pieces(g, key, gone)
             found == FoundKeyForPattern(g[i - 1], pattern, gone)
  <1>1. /\ Len(rule.required) \in Nat /\ i \in DOMAIN rule.required
        /\ 1..i = 1..(i - 1) \cup {i}
    BY RuleTypes
  <1>2. /\ p[i] = piece /\ g[i] = g[i - 1] \cup piece /\ piece \in SUBSET TrustedIds
        /\ PiecesUpTo(p, i) = PiecesUpTo(p, i - 1) \cup piece
    <2>1. p[i] = piece /\ g[i] = g[i - 1] \cup piece
      BY <1>1 DEF Pieces, Grows
    <2>2. piece \in SUBSET TrustedIds
      BY PieceType
    <2>3. PiecesUpTo(p, i) = PiecesUpTo(p, i - 1) \cup p[i]
      BY <1>1, PiecesStep
    <2> QED  BY <2>1, <2>2, <2>3
  <1>3. Fails(g, i, key, gone)
            <=> Fails(g, i - 1, key, gone) \/ (Match(pattern, key) /\ ~found)
    BY <1>1 DEF Fails
  <1>4. /\ loop \in ReplaceStates /\ ~loop.stop
        /\ loop.failed => Fails(g, i - 1, key, gone)
        /\ ~loop.failed => /\ ~Fails(g, i - 1, key, gone)
                           /\ loop.set = g[i - 1] /\ loop.diff = PiecesUpTo(p, i - 1)
    BY DEF RequiredInv
  <1>5. /\ next \in ReplaceStates
        /\ loop.failed => next = loop
    BY <1>4, ReplaceRequiredDoes
  <1>6. CASE loop.failed
    <2> HIDE DEF next
    <2> QED  BY <1>3, <1>4, <1>5, <1>6 DEF RequiredInv, next
  <1>7. CASE ~loop.failed /\ Match(pattern, key) /\ ~found
    <2>1. next = [loop EXCEPT !.failed = TRUE]
      BY <1>4, <1>7, ReplaceRequiredDoes
    <2>2. next.failed /\ next.stop = loop.stop
      <3> HIDE DEF next
      <3> QED  BY <1>4, <2>1 DEF ReplaceStates
    <2>3. ~next.stop
      BY <1>4, <2>2
    <2> HIDE DEF next
    <2> QED  BY <1>3, <1>5, <1>7, <2>2, <2>3 DEF RequiredInv, next
  <1>8. CASE ~loop.failed /\ (~Match(pattern, key) \/ found)
    <2>1. next = With(loop, piece)
      BY <1>4, <1>8, ReplaceRequiredDoes DEF Piece
    <2>2. /\ next.set = loop.set \cup piece /\ next.diff = loop.diff \cup piece
          /\ next.failed = loop.failed /\ next.stop = loop.stop
      <3> HIDE DEF next, piece
      <3> QED  BY <1>2, <1>4, <2>1, WithType
    <2>3. ~next.stop /\ ~next.failed /\ ~Fails(g, i, key, gone)
      BY <1>3, <1>4, <1>8, <2>2
    <2> HIDE DEF next, piece, p
    <2>4. next.set = g[i] /\ next.diff = PiecesUpTo(p, i)
      BY <1>2, <1>4, <1>8, <2>2
    <2> QED  BY <1>5, <2>3, <2>4 DEF RequiredInv, next, p
  <1> QED  BY <1>6, <1>7, <1>8

LEMMA ReplacedRequiredIs ==
    ASSUME rule \in Schemas, list \in SUBSET TrustedIds, NEW key, NEW gone, NEW g,
           Grows(g, key, gone)
    PROVE  RequiredInv(ReplacedRequired(key, gone), g, Len(rule.required), key, gone)
  <1> DEFINE m == Len(rule.required)
  <1>1. m \in Nat
    BY RuleTypes
  <1>2. PICK h : /\ h[0] = ReplaceStart(key)
                 /\ \A i \in 1..m :
                       h[i] = ReplaceRequired(h[i - 1], rule.required[i], key, gone)
                 /\ ReplacedRequired(key, gone) = h[m]
    BY ReplacedRequiredRuns
  <1> DEFINE Good == {i \in 0..m : RequiredInv(h[i], g, i, key, gone)}
  <1>3. 0 \in Good
    <2>1. /\ ReplaceStart(key) \in ReplaceStates /\ ~ReplaceStart(key).stop
          /\ ~ReplaceStart(key).failed
          /\ ReplaceStart(key).set = list \ {key} /\ ReplaceStart(key).diff = {}
      BY DEF ReplaceStart, ReplaceStates
    <2>2. /\ g[0] = list \ {key} /\ PiecesUpTo(Pieces(g, key, gone), 0) = {}
          /\ ~Fails(g, 0, key, gone)
      BY DEF Grows, PiecesUpTo, Fails
    <2>3. RequiredInv(h[0], g, 0, key, gone)
      BY <1>2, <2>1, <2>2 DEF RequiredInv
    <2>4. 0 \in 0..m
      BY <1>1
    <2> QED  BY <2>3, <2>4
  <1>4. ASSUME NEW i \in 1..m, i - 1 \in Good PROVE i \in Good
    <2>1. i \in 0..m
      BY <1>1
    <2>2. RequiredInv(ReplaceRequired(h[i - 1], rule.required[i], key, gone),
                      g, i, key, gone)
      BY <1>4, RequiredRound
    <2> QED  BY <1>2, <2>1, <2>2
  <1>5. 0..m \subseteq Good
    <2> HIDE DEF Good, m
    <2> QED  BY <1>1, <1>3, <1>4, IntervalInduction
  <1>6. m \in 0..m
    BY <1>1
  <1> QED  BY <1>2, <1>5, <1>6

(***************************************************************************)
(* The loop over the optional patterns adds the key of the first pattern   *)
(* that one is found for, and breaks.                                      *)
(***************************************************************************)
FirstFound(set, j, gone) ==
    /\ NewKeyForPattern(set, rule.optional[j], gone) # {}
    /\ \A k \in 1..(j - 1) : NewKeyForPattern(set, rule.optional[k], gone) = {}

OptionalInv(loop, start, i, gone) ==
    /\ loop \in ReplaceStates
    /\ loop.stop => \E j \in 1..i :
                       /\ FirstFound(start.set, j, gone)
                       /\ loop = Stopped(start,
                                    NewKeyForPattern(start.set, rule.optional[j], gone))
    /\ ~loop.stop => /\ loop = start
                     /\ \A k \in 1..i : NewKeyForPattern(start.set, rule.optional[k], gone) = {}

LEMMA OptionalRound ==
    ASSUME rule \in Schemas, NEW gone, NEW start \in ReplaceStates,
           NEW i \in 1..Len(rule.optional), NEW loop, OptionalInv(loop, start, i - 1, gone)
    PROVE  OptionalInv(ReplaceOptional(loop, rule.optional[i], gone), start, i, gone)
  <1> DEFINE next == ReplaceOptional(loop, rule.optional[i], gone)
             new(j) == NewKeyForPattern(start.set, rule.optional[j], gone)
             stopped(j) == Stopped(start, new(j))
  <1>1. Len(rule.optional) \in Nat /\ 1..i = 1..(i - 1) \cup {i} /\ i \in 1..i
    BY RuleTypes
  <1>2. /\ loop \in ReplaceStates
        /\ loop.stop => \E j \in 1..(i - 1) : FirstFound(start.set, j, gone) /\ loop = stopped(j)
        /\ ~loop.stop => loop = start /\ \A k \in 1..(i - 1) : new(k) = {}
    BY DEF OptionalInv
  <1>3. /\ next \in ReplaceStates
        /\ loop.stop => next = loop
        /\ ~loop.stop /\ new(i) = {} => next = loop
        /\ ~loop.stop /\ new(i) # {} => next = stopped(i)
    <2> DEFINE found == NewKeyForPattern(loop.set, rule.optional[i], gone)
    <2>1. /\ next \in ReplaceStates
          /\ loop.stop \/ found = {} => next = loop
          /\ ~loop.stop /\ found # {} => next = Stopped(loop, found)
      BY <1>2, ReplaceOptionalDoes
    <2>2. ~loop.stop => loop = start
      BY <1>2
    <2> HIDE DEF next
    <2> QED  BY <2>1, <2>2
  <1>4. CASE loop.stop
    <2>1. \E j \in 1..i : FirstFound(start.set, j, gone) /\ next = stopped(j)
      <3> HIDE DEF next, stopped
      <3> QED  BY <1>1, <1>2, <1>3, <1>4
    <2>2. next \in ReplaceStates /\ next.stop
      BY <1>3, <1>4
    <2> HIDE DEF next
    <2> QED  BY <2>1, <2>2 DEF OptionalInv, next
  <1>5. CASE ~loop.stop /\ new(i) = {}
    <2>1. next = start /\ ~next.stop
      BY <1>2, <1>3, <1>5
    <2>2. \A k \in 1..i : new(k) = {}
      <3> HIDE DEF new
      <3> QED  BY <1>1, <1>2, <1>5
    <2> HIDE DEF next
    <2> QED  BY <1>3, <2>1, <2>2 DEF OptionalInv, next
  <1>6. CASE ~loop.stop /\ new(i) # {}
    <2>1. next = stopped(i)
      BY <1>3, <1>6
    <2>2. FirstFound(start.set, i, gone)
      BY <1>2, <1>6 DEF FirstFound
    <2>3. next.stop
      <3>1. With(start, new(i)) \in ReplaceStates
        BY NewKeyType, WithType
      <3> HIDE DEF new, next
      <3> QED  BY <2>1, <3>1 DEF ReplaceStates, Stopped
    <2> HIDE DEF next
    <2> QED  BY <1>1, <1>3, <2>1, <2>2, <2>3 DEF OptionalInv, next
  <1> QED  BY <1>4, <1>5, <1>6

LEMMA ReplacedOptionalIs ==
    ASSUME rule \in Schemas, NEW gone, NEW start \in ReplaceStates, ~start.stop
    PROVE  LET end == ReplacedOptional(start, gone)
               new == OptionalReplacement(start.set, rule.optional, gone)
           IN  end.set = start.set \cup new /\ end.diff = start.diff \cup new
  <1> DEFINE m == Len(rule.optional)
             end == ReplacedOptional(start, gone)
             new(j) == NewKeyForPattern(start.set, rule.optional[j], gone)
             fills == {j \in DOMAIN rule.optional : new(j) # {}}
  <1>1. m \in Nat /\ DOMAIN rule.optional = 1..m
    BY RuleTypes
  <1>2. PICK h : /\ h[0] = start
                 /\ \A i \in 1..m : h[i] = ReplaceOptional(h[i - 1], rule.optional[i], gone)
                 /\ end = h[m]
    BY ReplacedOptionalRuns
  <1>3. OptionalInv(end, start, m, gone)
    <2> DEFINE Good == {i \in 0..m : OptionalInv(h[i], start, i, gone)}
    <2>1. 0 \in Good
      <3>1. OptionalInv(h[0], start, 0, gone)
        BY <1>2 DEF OptionalInv
      <3>2. 0 \in 0..m
        BY <1>1
      <3> QED  BY <3>1, <3>2
    <2>2. ASSUME NEW i \in 1..m, i - 1 \in Good PROVE i \in Good
      <3>1. i \in 0..m
        BY <1>1
      <3>2. OptionalInv(ReplaceOptional(h[i - 1], rule.optional[i], gone), start, i, gone)
        BY <2>2, OptionalRound
      <3> QED  BY <1>2, <3>1, <3>2
    <2>3. 0..m \subseteq Good
      <3> HIDE DEF Good, m
      <3> QED  BY <1>1, <2>1, <2>2, IntervalInduction
    <2>4. m \in 0..m
      BY <1>1
    <2> QED  BY <1>2, <2>3, <2>4
  <1>4. OptionalReplacement(start.set, rule.optional, gone)
            = IF fills = {} THEN {} ELSE new(Min(fills))
    BY DEF OptionalReplacement
  <1>5. CASE ~end.stop
    <2>1. end = start /\ \A k \in 1..m : new(k) = {}
      BY <1>3, <1>5 DEF OptionalInv
    <2>2. fills = {}
      BY <1>1, <2>1
    <2> HIDE DEF fills, end, new
    <2> QED  BY <1>4, <2>1, <2>2 DEF end
  <1>6. CASE end.stop
    <2>1. PICK j \in 1..m : /\ FirstFound(start.set, j, gone)
                            /\ end = Stopped(start, new(j))
      BY <1>3, <1>6 DEF OptionalInv
    <2>2. j \in fills /\ \A k \in fills : j <= k
      <3>1. j \in fills
        BY <1>1, <2>1 DEF FirstFound
      <3>2. ASSUME NEW k \in fills PROVE j <= k
        <4>1. k \in 1..m /\ k \notin 1..(j - 1)
          BY <1>1, <2>1 DEF FirstFound
        <4> HIDE DEF m, fills
        <4> QED  BY <1>1, <4>1
      <3> QED  BY <3>1, <3>2
    <2>3. Min(fills) = j
      <3>1. \A k \in fills : k \in Int
        BY <1>1
      <3> HIDE DEF fills
      <3>2. Min(fills) \in fills /\ Min(fills) <= j
        BY <2>2 DEF Min
      <3> DEFINE least == Min(fills)
      <3>3. least <= j /\ j <= least
        BY <2>2, <3>2
      <3>4. least \in Int /\ j \in Int
        BY <2>2, <3>1, <3>2
      <3> HIDE DEF least
      <3>5. least = j
        BY <3>3, <3>4
      <3> QED  BY <3>5 DEF least
    <2>4. OptionalReplacement(start.set, rule.optional, gone) = new(j)
      <3> HIDE DEF fills, new
      <3> QED  BY <1>4, <2>2, <2>3
    <2>5. /\ With(start, new(j)) \in ReplaceStates
          /\ With(start, new(j)).set = start.set \cup new(j)
          /\ With(start, new(j)).diff = start.diff \cup new(j)
      BY NewKeyType, WithType
    <2>6. end.set = start.set \cup new(j) /\ end.diff = start.diff \cup new(j)
      <3> HIDE DEF end, new
      <3> QED  BY <2>1, <2>5 DEF ReplaceStates, Stopped
    <2> QED  BY <2>4, <2>6
  <1> QED  BY <1>5, <1>6

(***************************************************************************)
(* replaceSigner has one outcome, which is what its two loops leave: also  *)
(* where a key found for one pattern counts for the next, and where the    *)
(* first loop gives up half-way.                                           *)
(***************************************************************************)
LEMMA ReplaceAsLoop ==
    ASSUME rule \in Schemas, list \in SUBSET TrustedIds, NEW key, NEW gone
    PROVE  ReplaceSigner(list, key, rule, gone) = {LoopReplace(key, gone)}
  <1> DEFINE m == Len(rule.required)
             kept == list \ {key}
             loop == ReplacedRequired(key, gone)
             end == ReplacedOptional(loop, gone)
  <1>1. m \in Nat /\ DOMAIN rule.required = 1..m
    BY RuleTypes
  <1>2. PICK g : Grows(g, key, gone)
    BY GrowsExists
  <1> DEFINE p == Pieces(g, key, gone)
             required == UNION {p[i] : i \in DOMAIN rule.required}
             new == OptionalReplacement(kept \cup required, rule.optional, gone)
  <1>3. ReplaceSigner(list, key, rule, gone) = {Replacement(kept, p, key, rule, gone)}
    <2> DEFINE traces == {a \in Additions(rule.required) :
                             RequiredLoop(kept, a, key, rule.required, gone)}
    <2>1. traces = {p}
      BY <1>2, OneTrace
    <2>2. ReplaceSigner(list, key, rule, gone)
              = {Replacement(kept, added, key, rule, gone) : added \in traces}
      BY DEF ReplaceSigner
    <2> HIDE DEF traces, p, kept
    <2> QED  BY <2>1, <2>2
  <1>4. /\ \A i \in 1..m : p[i] = Piece(g, i, key, gone)
        /\ \A i \in 0..m : g[i] = kept \cup PiecesUpTo(p, i)
    <2>1. \A i \in 1..m : p[i] = Piece(g, i, key, gone)
      BY <1>1 DEF Pieces
    <2>2. Follows(p, g, key, gone)
      BY <2>1 DEF Follows
    <2> QED  BY <1>2, <2>1, <2>2, PiecesAddUp
  <1>5. RequiredLoopFails(kept, p, key, rule.required, gone) <=> Fails(g, m, key, gone)
    <2>1. \A i \in 1..m : Before(kept, p, i) = g[i - 1]
      <3> TAKE i \in 1..m
      <3>1. i - 1 \in 0..m
        BY <1>1
      <3> QED  BY <1>4, <3>1 DEF Before, PiecesUpTo
    <2> HIDE DEF p, m, kept
    <2> QED  BY <1>1, <2>1 DEF RequiredLoopFails, Fails
  <1>6. RequiredInv(loop, g, m, key, gone)
    BY <1>2, ReplacedRequiredIs
  <1>7. required = PiecesUpTo(p, m) /\ g[m] = kept \cup required
    <2>1. m \in 0..m
      BY <1>1
    <2>2. required = PiecesUpTo(p, m)
      BY <1>1 DEF PiecesUpTo
    <2> QED  BY <1>4, <2>1, <2>2
  <1>8. Replacement(kept, p, key, rule, gone)
            = IF RequiredLoopFails(kept, p, key, rule.required, gone) THEN NoReplacement
              ELSE [signers |-> kept \cup required \cup new, diff |-> required \cup new]
    BY DEF Replacement
  <1>9. LoopReplace(key, gone) = IF loop.failed THEN NoReplacement
                                 ELSE [signers |-> end.set, diff |-> end.diff]
    BY DEF LoopReplace
  <1>10. loop.failed <=> RequiredLoopFails(kept, p, key, rule.required, gone)
    BY <1>5, <1>6 DEF RequiredInv
  <1>11. ASSUME ~loop.failed
         PROVE  end.set = kept \cup required \cup new /\ end.diff = required \cup new
    <2>1. /\ loop \in ReplaceStates /\ ~loop.stop
          /\ loop.set = kept \cup required /\ loop.diff = required
      BY <1>6, <1>7, <1>11 DEF RequiredInv
    <2> HIDE DEF loop, kept, required
    <2>2. /\ end.set = loop.set \cup OptionalReplacement(loop.set, rule.optional, gone)
          /\ end.diff = loop.diff \cup OptionalReplacement(loop.set, rule.optional, gone)
      BY <2>1, ReplacedOptionalIs
    <2> QED  BY <2>1, <2>2
  <1> HIDE DEF loop, end, kept, p, required, new
  <1>12. LoopReplace(key, gone) = Replacement(kept, p, key, rule, gone)
    BY <1>8, <1>9, <1>10, <1>11
  <1> QED  BY <1>3, <1>12

(***************************************************************************)
(* For every rule that was read, every list that a session can come to     *)
(* and each of its keys, replaceSigner has one outcome, that of its loops. *)
(***************************************************************************)
THEOREM ReplaceIsItsLoop == Spec => []ReplaceIsLoop
  <1>1. Inv => ReplaceIsLoop
    BY ReplaceAsLoop DEF Inv, ReplaceIsLoop
  <1> QED  BY <1>1, InitInv, InvInductive, PTL DEF Spec

=============================================================================

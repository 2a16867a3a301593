------------------------------- MODULE Schema -------------------------------
(***************************************************************************)
(* The trust schema: wildcard key-name patterns, one signing rule          *)
(* (MultipartySchema) and the container of rules and trusted keys          *)
(* (MultipartySchemaContainer), as pure operators.  The one piece of       *)
(* mutable state of the container, m_unavailableSigners, is a parameter    *)
(* here and a variable of module Initiator.                                *)
(*                                                                         *)
(* A name is a sequence of components.  A component is a number: it stands *)
(* for the bytes of the component, and numbers compare the way components  *)
(* do, so that NameLess is the order in which std::set<Name> and           *)
(* std::map<Name, ...> iterate.                                            *)
(***************************************************************************)
EXTENDS Integers, Sequences, FiniteSets, FiniteSetsExt

CONSTANTS
    TrustedIds,   \* the key names of m_trustedIds
    WILDCARD      \* the component whose type is WILDCARD_NAME_TYPE

(***************************************************************************)
(* Name::compare: the first component that differs decides; a proper       *)
(* prefix comes first.                                                     *)
(***************************************************************************)
NameLess(n, m) ==
    \E i \in 1..Len(m) :
        /\ i <= Len(n) + 1
        /\ \A j \in 1..(i - 1) : n[j] = m[j]
        /\ i <= Len(n) => n[i] < m[i]

ASSUME TrustedIdsFinite == IsFiniteSet(TrustedIds)

(* std::set needs a strict total order on the names it holds. *)
ASSUME NamesOrdered ==
    /\ \A a, b \in TrustedIds : a # b => NameLess(a, b) \/ NameLess(b, a)
    /\ \A a, b \in TrustedIds : ~(NameLess(a, b) /\ NameLess(b, a))
    /\ \A a, b, c \in TrustedIds :
           NameLess(a, b) /\ NameLess(b, c) => NameLess(a, c)

-----------------------------------------------------------------------------
(***************************************************************************)
(* Patterns.  A pattern is [name, times]: a name that may hold WILDCARD    *)
(* components, and the n of its "nx" prefix (1 without one).               *)
(***************************************************************************)
Patterns == [name : Seq(Nat \cup {WILDCARD}), times : Nat]

(* A rule: the packets it is for, the all-of patterns, the at-least        *)
(* patterns and at-least-num.                                              *)
Schemas == [pktName : Patterns, required : Seq(Patterns),
            optional : Seq(Patterns), minOptional : Nat]

Match(pattern, name) ==
    /\ Len(pattern.name) = Len(name)
    /\ \A i \in 1..Len(name) : pattern.name[i] \in {WILDCARD, name[i]}

(* The members of a set of keys that a pattern matches. *)
Matching(pattern, keys) == {k \in keys : Match(pattern, k)}

(* The first n elements of the set S in the order of names. *)
First(n, S) == {k \in S : Cardinality({j \in S : NameLess(j, k)}) < n}

(* The vector a std::set of names is copied to: the i-th name has i - 1    *)
(* names before it.                                                        *)
InOrder(S) ==
    [i \in 1..Cardinality(S) |->
        CHOOSE k \in S : Cardinality({j \in S : NameLess(j, k)}) = i - 1]

-----------------------------------------------------------------------------
(***************************************************************************)
(* MultipartySchema::passSchema on a list of names, which may repeat a     *)
(* name: each required pattern matches at least m_times entries, and the   *)
(* entries the optional patterns match, at most m_times for each, reach    *)
(* m_minOptionalSigners.                                                   *)
(***************************************************************************)
EntriesMatching(pattern, list) ==
    Cardinality({i \in DOMAIN list : Match(pattern, list[i])})

PassSchema(schema, list) ==
    /\ \A i \in DOMAIN schema.required :
           EntriesMatching(schema.required[i], list) >= schema.required[i].times
    /\ MapThenSumSet(LAMBDA i : Min({EntriesMatching(schema.optional[i], list),
                                     schema.optional[i].times}),
                     DOMAIN schema.optional)
           >= schema.minOptional

(***************************************************************************)
(* MultipartySchemaContainer::passSchema: every entry is a trusted key and *)
(* the FIRST rule of m_schemas for the packet name accepts the list.       *)
(***************************************************************************)
ContainerPassSchema(schemas, pktName, list) ==
    LET rules == {i \in DOMAIN schemas : Match(schemas[i].pktName, pktName)}
    IN  /\ \A i \in DOMAIN list : list[i] \in TrustedIds
        /\ rules # {}
        /\ PassSchema(schemas[Min(rules)], list)

-----------------------------------------------------------------------------
(* mutant: the cache of unavailable keys is not looked at *)
GetMatchedKeysUncached(pattern, unavailable) == Matching(pattern, TrustedIds)

(* getMatchedKeys *)
GetMatchedKeys(pattern, unavailable) ==
    Matching(pattern, TrustedIds \ unavailable)

(***************************************************************************)
(* getAvailableSigners.  Every required pattern contributes its first      *)
(* m_times keys.  The optional loop counts the keys it inserts, the ones   *)
(* that were in the set already included, and stops AFTER the insertion    *)
(* that reaches m_minOptionalSigners: the first pattern always gets one    *)
(* key if it has one, even when no optional key is asked for.              *)
(***************************************************************************)
OptionalSlots(schema, i, unavailable) ==
    Min({Cardinality(GetMatchedKeys(schema.optional[i], unavailable)),
         schema.optional[i].times})

SlotsBefore(schema, i, unavailable) ==
    MapThenSumSet(LAMBDA j : OptionalSlots(schema, j, unavailable), 1..(i - 1))

OptionalTakeExact(schema, i, unavailable) ==   \* mutant: stop before inserting
    Min({OptionalSlots(schema, i, unavailable),
         Max({0, schema.minOptional - SlotsBefore(schema, i, unavailable)})})

OptionalTake(schema, i, unavailable) ==
    LET missing == schema.minOptional - SlotsBefore(schema, i, unavailable)
    IN  IF i > 1 /\ missing <= 0
        THEN 0
        ELSE Min({OptionalSlots(schema, i, unavailable), Max({1, missing})})

SufficientRequiredKeys(schema, unavailable) ==   \* mutant: count is not checked
    \A i \in DOMAIN schema.required :
        Cardinality(GetMatchedKeys(schema.required[i], unavailable))
            >= schema.required[i].times

(* The call returns: otherwise it throws. *)
SufficientKeys(schema, unavailable) ==
    /\ \A i \in DOMAIN schema.required :
           Cardinality(GetMatchedKeys(schema.required[i], unavailable))
               >= schema.required[i].times
    /\ SlotsBefore(schema, Len(schema.optional) + 1, unavailable)
           >= schema.minOptional

GetAvailableSigners(schema, unavailable) ==
    LET required == UNION {First(schema.required[i].times,
                                 GetMatchedKeys(schema.required[i], unavailable)) :
                               i \in DOMAIN schema.required}
        optional == UNION {First(OptionalTake(schema, i, unavailable),
                                 GetMatchedKeys(schema.optional[i], unavailable)) :
                               i \in DOMAIN schema.optional}
    IN  required \cup optional

-----------------------------------------------------------------------------
(***************************************************************************)
(* findANewKeyForPattern, as three operators: whether the pattern has its  *)
(* keys already, the key it returns (a set of at most one), and whether it *)
(* returns true.                                                           *)
(***************************************************************************)
FilledBeyond(existing, pattern) ==   \* mutant: > for >=
    Cardinality(Matching(pattern, existing)) > pattern.times

Filled(existing, pattern) ==
    Cardinality(Matching(pattern, existing)) >= pattern.times

NewKeyForPattern(existing, pattern, unavailable) ==
    IF Filled(existing, pattern)
    THEN {}
    ELSE First(1, GetMatchedKeys(pattern, unavailable) \ existing)

FoundAlways(existing, pattern, unavailable) ==   \* mutant: true with an empty name
    TRUE

FoundKeyForPattern(existing, pattern, unavailable) ==
    \/ Filled(existing, pattern)
    \/ GetMatchedKeys(pattern, unavailable) \ existing # {}

(***************************************************************************)
(* replaceSigner.  The loop over the required patterns is described by the *)
(* keys each of its iterations adds: added[i] depends on the set the       *)
(* earlier iterations built.  It is a set of outcomes because a loop is    *)
(* described by its trace; there is exactly one (ReplaceIsLoop of module   *)
(* SchemaContainer).                                                       *)
(* The second loop looks at all optional patterns, adds at most one key    *)
(* and never fails.  The caller passes the set of unavailable keys with    *)
(* unavailableKey already inserted.                                        *)
(***************************************************************************)
NoReplacement == [signers |-> {}, diff |-> {}]

Before(kept, added, i) == kept \cup (UNION {added[j] : j \in 1..(i - 1)})

RequiredLoop(kept, added, key, required, unavailable) ==
    \A i \in DOMAIN required :
        added[i] = IF Match(required[i], key)
                   THEN NewKeyForPattern(Before(kept, added, i), required[i],
                                         unavailable)
                   ELSE {}

RequiredLoopFails(kept, added, key, required, unavailable) ==
    \E i \in DOMAIN required :
        /\ Match(required[i], key)
        /\ ~FoundKeyForPattern(Before(kept, added, i), required[i], unavailable)

OptionalNoBreak(existing, optional, unavailable) ==   \* mutant: the break is missing
    UNION {NewKeyForPattern(existing, optional[i], unavailable) : i \in DOMAIN optional}

OptionalReplacement(existing, optional, unavailable) ==
    LET fills == {i \in DOMAIN optional :
                    NewKeyForPattern(existing, optional[i], unavailable) # {}}
    IN  IF fills = {}
        THEN {}
        ELSE NewKeyForPattern(existing, optional[Min(fills)], unavailable)

Additions(required) ==
    [DOMAIN required -> {{}} \cup {{k} : k \in TrustedIds}]

ReplacementOptionalDiff(kept, added, key, schema, unavailable) ==
    \* mutant: diffSet does not get the required replacements
    LET required == UNION {added[i] : i \in DOMAIN schema.required}
        optional == OptionalReplacement(kept \cup required, schema.optional,
                                        unavailable)
    IN  IF RequiredLoopFails(kept, added, key, schema.required, unavailable)
        THEN NoReplacement
        ELSE [signers |-> kept \cup required \cup optional, diff |-> optional]

Replacement(kept, added, key, schema, unavailable) ==
    LET required == UNION {added[i] : i \in DOMAIN schema.required}
        optional == OptionalReplacement(kept \cup required, schema.optional,
                                        unavailable)
    IN  IF RequiredLoopFails(kept, added, key, schema.required, unavailable)
        THEN NoReplacement
        ELSE [signers |-> kept \cup required \cup optional,
              diff    |-> required \cup optional]

ReplaceSigner(signers, key, schema, unavailable) ==
    LET kept == signers \ {key}
    IN  {Replacement(kept, added, key, schema, unavailable) :
            added \in {a \in Additions(schema.required) :
                         RequiredLoop(kept, a, key, schema.required, unavailable)}}

=============================================================================

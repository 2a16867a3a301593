-------------------------- MODULE SchemaContainer ---------------------------
(***************************************************************************)
(* MultipartySchemaContainer as a sequential object, used the way one      *)
(* signing session uses it: getAvailableSigners once, then replaceSigner   *)
(* for keys of the list, in any number and order, with the cache of        *)
(* unavailable keys emptied in between.  The session's rule is read from   *)
(* its text; the application may also write it out and read it again.      *)
(*                                                                         *)
(* The operators of module Schema describe the results of the code's loops *)
(* without iterating; the loops themselves are written here as functions   *)
(* of the number of iterations, for the two to be compared.                *)
(***************************************************************************)
EXTENDS RuleText, SequencesExt

CONSTANTS
    Inputs,      \* the texts, or names of files, a rule is read from
    MaxResets,   \* bound on resetCachedUnavailableSigners
    MaxPrints,   \* bound on writing out a rule whose wildcards were printed
    MaxEntries   \* bound on the lists of signers a saved rule is tried with

ASSUME InputsAssumption ==
    /\ \A input \in Inputs : input \in [file : SchemaSections, text : SchemaSections]
    /\ MaxResets \in Nat /\ MaxEntries \in Nat /\ MaxPrints \in Nat

VARIABLES
    rule,          \* the rule of the session
    state,         \* "unread", "new", "listed", "threw", "failed"
    input,         \* what fromINFO or fromJSON is given
    list,          \* the session's signer list
    unavailable,   \* m_unavailableSigners
    resets         \* how often it was emptied

vars == <<rule, state, input, list, unavailable, resets>>

(* MultipartySchema() *)
EmptyRule == [pktName |-> [name |-> <<>>, times |-> 1], required |-> <<>>,
              optional |-> <<>>, minOptional |-> 0]

Init ==
    /\ rule = EmptyRule
    /\ state = "unread"
    /\ input \in Inputs
    /\ list = {}
    /\ unavailable \in SUBSET TrustedIds   \* left by earlier sessions
    /\ resets = 0

Read ==
    /\ state = "unread"
    /\ IF Readable(Parse(input))
       THEN state' = "new" /\ rule' = FromSection(Parse(input))
       ELSE state' = "threw" /\ UNCHANGED rule
    /\ UNCHANGED <<input, list, unavailable, resets>>

SignerPatterns(schema) == ToSet(schema.required) \cup ToSet(schema.optional)

(***************************************************************************)
(* The rule is stored with toString and read again with fromINFO, which    *)
(* may happen again and again: MaxPrints bounds how often a component that *)
(* was a wildcard is printed after the first time.                         *)
(***************************************************************************)
Reload ==
    /\ state = "new"
    /\ \A p \in SignerPatterns(rule) \cup {rule.pktName} :
          PrintedWildcard + MaxPrints \notin ToSet(p.name)
    /\ rule' = FromSection(ToSection(rule))
    /\ UNCHANGED <<state, input, list, unavailable, resets>>

Choose ==
    /\ state = "new"
    /\ IF SufficientKeys(rule, unavailable)
       THEN /\ state' = "listed"
            /\ list' = GetAvailableSigners(rule, unavailable)
       ELSE state' = "threw" /\ UNCHANGED list
    /\ UNCHANGED <<rule, input, unavailable, resets>>

Replace(key) ==
    /\ state = "listed"
    /\ unavailable' = unavailable \cup {key}
    /\ \E r \in ReplaceSigner(list, key, rule, unavailable') :
          IF r.signers = {}
          THEN state' = "failed" /\ UNCHANGED list
          ELSE list' = r.signers /\ UNCHANGED state
    /\ UNCHANGED <<rule, input, resets>>

Reset ==
    /\ unavailable # {}
    /\ resets < MaxResets
    /\ resets' = resets + 1
    /\ unavailable' = {}
    /\ UNCHANGED <<rule, state, input, list>>

Next == Read \/ Reload \/ Choose \/ Reset \/ \E key \in list : Replace(key)

Spec == Init /\ [][Next]_vars

-----------------------------------------------------------------------------
(* getMatchedKeys as the vector it returns. *)
SortedKeys(pattern, gone) == InOrder(GetMatchedKeys(pattern, gone))

(* getAvailableSigners: the set after i required patterns. *)
ListedRequired[i \in 0..Len(rule.required)] ==
    IF i = 0 THEN {}
    ELSE LET pattern == rule.required[i]
         IN  ListedRequired[i - 1]
                 \cup ToSet(SubSeq(SortedKeys(pattern, unavailable), 1, pattern.times))

(* The body of its inner loop, which breaks after the key that is enough. *)
Insert(loop, key) ==
    IF loop.stop THEN loop
    ELSE [set |-> loop.set \cup {key}, count |-> loop.count + 1,
          stop |-> loop.count + 1 >= rule.minOptional]

(* Its inner loop after j keys of an optional pattern. *)
ListedKeys(loop, pattern) ==
    LET keys == SortedKeys(pattern, unavailable)
        inner[j \in 0..Min({Len(keys), pattern.times})] ==
            IF j = 0 THEN loop ELSE Insert(inner[j - 1], keys[j])
    IN  inner

ListOptional(loop, pattern) ==
    LET last == Min({Len(SortedKeys(pattern, unavailable)), pattern.times})
        inner == ListedKeys(loop, pattern)[last]
    IN  IF loop.stop THEN loop
        ELSE [inner EXCEPT !.stop = inner.count >= rule.minOptional]

(* Its loop after i optional patterns. *)
ListedOptional[i \in 0..Len(rule.optional)] ==
    IF i = 0
    THEN [set |-> ListedRequired[Len(rule.required)], count |-> 0, stop |-> FALSE]
    ELSE ListOptional(ListedOptional[i - 1], rule.optional[i])

LoopAvailable == ListedOptional[Len(rule.optional)]

(***************************************************************************)
(* getAvailableSigners throws exactly when a loop runs out of keys, and    *)
(* otherwise returns what its loops collect.                               *)
(***************************************************************************)
AvailableIsLoop ==
    LET enough == \A i \in DOMAIN rule.required :
                     Len(SortedKeys(rule.required[i], unavailable))
                         >= rule.required[i].times
    IN  state = "new" =>
            /\ SufficientKeys(rule, unavailable)
                   <=> enough /\ LoopAvailable.count >= rule.minOptional
            /\ SufficientKeys(rule, unavailable) =>
                   GetAvailableSigners(rule, unavailable) = LoopAvailable.set

(* findANewKeyForPattern looks through the vector for keys not in the set. *)
Unused(set, pattern, gone) ==
    LET keys == SortedKeys(pattern, gone)
    IN  {j \in DOMAIN keys : keys[j] \notin set}

Fill(loop, pattern, gone) ==
    LET new == SortedKeys(pattern, gone)[Min(Unused(loop.set, pattern, gone))]
    IN  [loop EXCEPT !.set = @ \cup {new}, !.diff = @ \cup {new}]

(* replaceSigner: the body of its loop over the required patterns. *)
ReplaceRequired(loop, pattern, key, gone) ==
    IF loop.failed \/ ~Match(pattern, key) \/ Filled(loop.set, pattern) THEN loop
    ELSE IF Unused(loop.set, pattern, gone) = {} THEN [loop EXCEPT !.failed = TRUE]
    ELSE Fill(loop, pattern, gone)

(* The body of its loop over the optional patterns, which breaks after the *)
(* first key it finds.                                                     *)
ReplaceOptional(loop, pattern, gone) ==
    IF loop.stop \/ Filled(loop.set, pattern) \/ Unused(loop.set, pattern, gone) = {}
    THEN loop
    ELSE [Fill(loop, pattern, gone) EXCEPT !.stop = TRUE]

ReplacedRequired(key, gone) ==
    LET after[i \in 0..Len(rule.required)] ==
            IF i = 0
            THEN [set |-> list \ {key}, diff |-> {}, failed |-> FALSE, stop |-> FALSE]
            ELSE ReplaceRequired(after[i - 1], rule.required[i], key, gone)
    IN  after[Len(rule.required)]

ReplacedOptional(loop, gone) ==
    LET after[i \in 0..Len(rule.optional)] ==
            IF i = 0 THEN loop ELSE ReplaceOptional(after[i - 1], rule.optional[i], gone)
    IN  after[Len(rule.optional)]

(* Its two loops, for the cache with the key inserted. *)
LoopReplace(key, gone) ==
    LET afterRequired == ReplacedRequired(key, gone)
        end == ReplacedOptional(afterRequired, gone)
    IN  IF afterRequired.failed THEN NoReplacement
        ELSE [signers |-> end.set, diff |-> end.diff]

(***************************************************************************)
(* replaceSigner has one outcome, which is that of its loops.              *)
(***************************************************************************)
ReplaceIsLoop ==
    state = "listed" =>
        \A key \in list :
            LET gone == unavailable \cup {key}
            IN  ReplaceSigner(list, key, rule, gone) = {LoopReplace(key, gone)}

-----------------------------------------------------------------------------
(***************************************************************************)
(* The list getAvailableSigners returns passes the rule it was made for,   *)
(* in whatever order its keys are, also with overlapping patterns and keys *)
(* cached as unavailable.                                                  *)
(***************************************************************************)
FirstListPasses ==
    [][state = "new" /\ state' = "listed" =>
          \A signers \in SetToSeqs(list') : PassSchema(rule, signers)]_vars

(***************************************************************************)
(* However often signers are replaced, the list has at most as many keys   *)
(* as the rule has places: replaceSigner, which may add an optional key    *)
(* for a required one that was lost, does not let it grow for ever.        *)
(***************************************************************************)
ListBounded ==
    Cardinality(list) <= MapThenSumSet(LAMBDA i : rule.required[i].times,
                                       DOMAIN rule.required)
                         + MapThenSumSet(LAMBDA i : rule.optional[i].times,
                                         DOMAIN rule.optional)

(***************************************************************************)
(* toString forgets the nx prefixes and spoils the wildcards, each time it *)
(* is called in another way.  However often the rule was written out and   *)
(* read again, it is the one the application has given if that uses        *)
(* neither (tests SchemaWrite, 2 and 3), and not a weaker one if that has  *)
(* nx prefixes only where it has wildcards: no list of signers passes it   *)
(* that would not have passed the rule as it was given.  This needs that   *)
(* no trusted key is named like a printed wildcard and that at-least-num   *)
(* was not negative.                                                       *)
(***************************************************************************)
GivenRule == FromSection(Parse(input))

SurvivesPrinting(pattern) ==
    \A i \in DOMAIN pattern.name : PrintComponent(pattern.name[i]) = pattern.name[i]

Plain(schema) ==
    \A p \in SignerPatterns(schema) \cup {schema.pktName} :
        SurvivesPrinting(p) /\ p.times = 1

TimesOnlySpoilt(schema) ==
    \A p \in SignerPatterns(schema) : p.times # 1 => ~SurvivesPrinting(p)

NoPrintedKey == \A key \in TrustedIds : \A i \in 1..Len(key) : key[i] < PrintedWildcard

SavedRuleIsStricter ==
    state = "new" /\ GivenRule.minOptional <= IntMax =>
        /\ Plain(GivenRule) => rule = GivenRule
        /\ NoPrintedKey /\ TimesOnlySpoilt(GivenRule) =>
               \A signers \in BoundedSeq(TrustedIds, MaxEntries) :
                   PassSchema(rule, signers) => PassSchema(GivenRule, signers)

=============================================================================

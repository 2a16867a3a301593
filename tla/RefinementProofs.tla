-------------------------- MODULE RefinementProofs --------------------------
(***************************************************************************)
(* Proof that the signing protocol implements SigningService: the signer   *)
(* list covers the all-of patterns of its rule from the start and through  *)
(* every replacement; the initial states map to initial states, and every  *)
(* step maps to a step of the service or changes nothing the application   *)
(* sees.  And that what the application gets passes verification.          *)
(***************************************************************************)
EXTENDS OutcomeProofs, EndToEnd

(***************************************************************************)
(* The list of a session changes only in these two ways.                   *)
(***************************************************************************)
LEMMA ListChanges ==
    ASSUME TypeOK, [Next]_vars, NEW s \in Sessions
    PROVE  \/ /\ signers'[s] = signers[s]
              /\ session'[s] = "running" => session[s] = "running"
           \/ /\ SufficientKeys(SchemaOf[s], unavailable)
              /\ signers'[s] = GetAvailableSigners(SchemaOf[s], unavailable)
           \/ /\ session'[s] = session[s]
              /\ \E key, gone : \E r \in ReplaceSigner(signers[s], key, SchemaOf[s], gone) :
                    r.signers # {} /\ signers'[s] = r.signers
  <1> DEFINE Goal ==
          \/ /\ signers'[s] = signers[s]
             /\ session'[s] = "running" => session[s] = "running"
          \/ /\ SufficientKeys(SchemaOf[s], unavailable)
             /\ signers'[s] = GetAvailableSigners(SchemaOf[s], unavailable)
          \/ /\ session'[s] = session[s]
             /\ \E key, gone : \E r \in ReplaceSigner(signers[s], key, SchemaOf[s], gone) :
                   r.signers # {} /\ signers'[s] = r.signers
  <1> SUFFICES Goal
    OBVIOUS
  <1> HIDE DEF Goal
  <1>1. ASSUME NEW q \in Sessions, MultiPartySign(q) PROVE Goal
    <2>1. CASE q = s
      BY <1>1, <2>1 DEF MultiPartySign, TypeOK, Goal
    <2>2. CASE q # s
      BY <1>1, <2>2 DEF MultiPartySign, TypeOK, Goal
    <2> QED  BY <2>1, <2>2
  <1>2. ASSUME NEW c \in Calls, NEW newPara, NEW rest, OnUnavailableSigner(c, newPara, rest)
        PROVE  Goal
    <2> DEFINE gone == unavailable \cup {KeyOf(c)}
    <2>1. PICK r \in ReplaceSigner(signers[SessionOf(c)], KeyOf(c), SchemaOf[SessionOf(c)],
                                   gone) :
             IF r.signers = {}
             THEN UNCHANGED signers
             ELSE signers' = [signers EXCEPT ![SessionOf(c)] = r.signers]
      BY <1>2 DEF OnUnavailableSigner, ReportFailure, InstallList
    <2>2. session' = session
      BY <1>2 DEF OnUnavailableSigner
    <2>3. CASE r.signers = {} \/ SessionOf(c) # s
      BY <2>1, <2>2, <2>3 DEF TypeOK, Goal
    <2>4. CASE r.signers # {} /\ SessionOf(c) = s
      <3>1. signers'[s] = r.signers
        BY <2>1, <2>4 DEF TypeOK
      <3>2. r \in ReplaceSigner(signers[s], KeyOf(c), SchemaOf[s], gone)
        BY <2>1, <2>4
      <3> QED  BY <2>2, <2>4, <3>1, <3>2 DEF Goal
    <2> QED  BY <2>3, <2>4
  <1>3. ASSUME UNCHANGED <<session, signers>> PROVE Goal
    BY <1>3 DEF Goal
  <1>4. ASSUME NEW c \in Calls, InitiatorStep(c) PROVE Goal
    <2>1. ASSUME NEW keyed \in BOOLEAN, NEW intact \in BOOLEAN, OnAck(c, keyed, intact)
          PROVE  Goal
      BY <1>3, <2>1 DEF OnAck
    <2>2. CASE SignRequestFails(c)
      BY <1>2, <2>2 DEF SignRequestFails
    <2>3. CASE OnParamInterest(c) \/ FetchResult(c)
      BY <1>3, <2>3 DEF OnParamInterest, FetchResult
    <2>4. ASSUME NEW v \in Codes, NEW g \in Generations, NEW intact \in BOOLEAN,
                 OnResult(c, v, g, intact)
          PROVE  Goal
      BY <1>2, <1>3, <2>4 DEF OnResult, AddPiece
    <2>5. CASE ResultFetchFails(c, ResultUnserved(c))
      BY <1>2, <2>5 DEF ResultFetchFails
    <2> QED  BY <1>4, <2>1, <2>2, <2>3, <2>4, <2>5 DEF InitiatorStep
  <1>5. CASE ResetCachedUnavailableSigners
    BY <1>3, <1>5 DEF ResetCachedUnavailableSigners
  <1>6. CASE UNCHANGED initiatorVars
    BY <1>3, <1>6 DEF initiatorVars
  <1>7. CASE UNCHANGED vars
    BY <1>6, <1>7 DEF vars
  <1> QED  BY <1>1, <1>4, <1>5, <1>6, <1>7 DEF Next

LEMMA CoverageStep == TypeOK /\ RequiredCovered /\ [Next]_vars => RequiredCovered'
  <1> SUFFICES ASSUME TypeOK, RequiredCovered, [Next]_vars,
                      NEW s \in Sessions, session'[s] = "running"
               PROVE  Covered(signers'[s], SchemaOf[s].required)
    BY DEF RequiredCovered, Covered, Filled, Matching
  <1>1. SchemaOf[s] \in Schemas /\ signers[s] \in SUBSET TrustedIds
    BY SchemasAssumption DEF TypeOK
  <1>2. session[s] = "running" => Covered(signers[s], SchemaOf[s].required)
    BY DEF RequiredCovered, Covered
  <1>3. CASE signers'[s] = signers[s] /\ session[s] = "running"
    BY <1>2, <1>3
  <1>4. CASE /\ SufficientKeys(SchemaOf[s], unavailable)
             /\ signers'[s] = GetAvailableSigners(SchemaOf[s], unavailable)
    BY <1>1, <1>4, AvailableCover
  <1>5. ASSUME session[s] = "running", NEW key, NEW gone,
               NEW r \in ReplaceSigner(signers[s], key, SchemaOf[s], gone),
               r.signers # {}, signers'[s] = r.signers
        PROVE  Covered(signers'[s], SchemaOf[s].required)
    BY <1>1, <1>2, <1>5, ReplacementCovers
  <1> QED  BY <1>3, <1>4, <1>5, ListChanges

(***************************************************************************)
(* A session's signer list covers the all-of patterns of its rule from     *)
(* multiPartySign on, however many signers are replaced, whatever the rule *)
(* is and however its patterns overlap.                                    *)
(***************************************************************************)
THEOREM RequiredAlwaysCovered == Spec => []RequiredCovered
  <1>1. Init => RequiredCovered
    BY DEF Init, InitiatorInit, RequiredCovered
  <1> QED  BY <1>1, CoverageStep, TypeCorrect, PTL DEF Spec

-----------------------------------------------------------------------------
(* The refinement mapping for one session. *)
Status(state, successful, failed) ==
    IF state # "running" THEN state
    ELSE IF successful > 0 THEN "signed" ELSE IF failed > 0 THEN "failed" ELSE "open"

KeysOfPieces(list) == {KeyOf(list[i].call) : i \in DOMAIN list}

LEMMA MappingPointwise ==
    /\ statusOf = [s \in Sessions |-> Status(session[s], successes[s], failures[s])]
    /\ resultOf = [s \in Sessions |-> IF successes[s] > 0 THEN KeysOfPieces(fetched[s])
                                                          ELSE {}]
  <1>1. statusOf = [s \in Sessions |-> Status(session[s], successes[s], failures[s])]
    BY DEF statusOf, Status
  <1>2. resultOf = [s \in Sessions |-> IF successes[s] > 0 THEN KeysOfPieces(fetched[s])
                                                           ELSE {}]
    BY DEF resultOf, KeysOfPieces
  <1> QED  BY <1>1, <1>2

LEMMA MappingPointwisePrimed ==
    /\ statusOf' = [s \in Sessions |-> Status(session'[s], successes'[s], failures'[s])]
    /\ resultOf' = [s \in Sessions |-> IF successes'[s] > 0 THEN KeysOfPieces(fetched'[s])
                                                            ELSE {}]
  <1>1. statusOf' = [s \in Sessions |-> Status(session'[s], successes'[s], failures'[s])]
    BY DEF statusOf, Status
  <1>2. resultOf' = [s \in Sessions |-> IF successes'[s] > 0 THEN KeysOfPieces(fetched'[s])
                                                             ELSE {}]
    BY DEF resultOf, KeysOfPieces
  <1> QED  BY <1>1, <1>2

(***************************************************************************)
(* A step that changes one session, in the application's eyes, from one    *)
(* status to another.                                                      *)
(***************************************************************************)
LEMMA OneSessionStep ==
    ASSUME NEW s \in Sessions,
           \A q \in Sessions : q # s => /\ session'[q] = session[q]
                                        /\ successes'[q] = successes[q]
                                        /\ failures'[q] = failures[q]
                                        /\ fetched'[q] = fetched[q]
    PROVE  /\ statusOf' = [statusOf EXCEPT ![s] =
                              Status(session'[s], successes'[s], failures'[s])]
           /\ resultOf' = [resultOf EXCEPT ![s] =
                              IF successes'[s] > 0 THEN KeysOfPieces(fetched'[s]) ELSE {}]
           /\ statusOf[s] = Status(session[s], successes[s], failures[s])
           /\ resultOf[s] = IF successes[s] > 0 THEN KeysOfPieces(fetched[s]) ELSE {}
           /\ statusOf = [statusOf EXCEPT ![s] = statusOf[s]]
           /\ resultOf = [resultOf EXCEPT ![s] = resultOf[s]]
  BY MappingPointwise, MappingPointwisePrimed

-----------------------------------------------------------------------------
LEMMA RefinementInit == Init => Service!Init
  <1> SUFFICES ASSUME Init PROVE Service!Init
    OBVIOUS
  <1>1. statusOf = [s \in Sessions |-> "idle"] /\ resultOf = [s \in Sessions |-> {}]
    BY MappingPointwise DEF Init, InitiatorInit, Status
  <1> QED  BY <1>1 DEF Service!Init

(***************************************************************************)
(* One step of the protocol, by its kind.                                  *)
(***************************************************************************)
LEMMA RefinementStep ==
    ASSUME IInv, IInv', RequiredCovered', [Next]_vars
    PROVE  Service!Next \/ UNCHANGED <<statusOf, resultOf>>
  <1> DEFINE Hidden == UNCHANGED <<statusOf, resultOf>>
             Goal == Service!Next \/ Hidden
  <1> SUFFICES Goal
    OBVIOUS
  <1>1. \A s \in Sessions : /\ successes[s] \in Nat /\ successes'[s] \in Nat
                            /\ failures[s] \in Nat /\ failures'[s] \in Nat
    BY DEF IInv, TypeOK
  (* Only the list, the phases or the cache change. *)
  <1>2. ASSUME UNCHANGED <<session, fetched, successes, failures>> PROVE Goal
    BY <1>2, MappingPointwise, MappingPointwisePrimed
  <1>3. ASSUME NEW s \in Sessions, NEW list \in SUBSET TrustedIds, Starts(s, list)
        PROVE  Goal
    <2>1. StartsEffect(s, list)
      BY <1>3, StartsPointwise DEF IInv
    <2>2. successes[s] = 0 /\ successes'[s] = 0
      BY <2>1 DEF StartsEffect, IInv, Bookkeeping, NothingBeforeStart
    <2>3. Service!Open(s)
      <3>1. /\ statusOf' = [statusOf EXCEPT ![s] =
                               Status(session'[s], successes'[s], failures'[s])]
            /\ resultOf' = [resultOf EXCEPT ![s] = {}]
            /\ statusOf[s] = "idle" /\ resultOf[s] = {}
            /\ resultOf = [resultOf EXCEPT ![s] = resultOf[s]]
        BY <2>1, <2>2, OneSessionStep DEF StartsEffect, Status
      <3>2. Status(session'[s], successes'[s], failures'[s]) \in {"failed", "open"}
        BY <2>1, <2>2 DEF StartsEffect, Status
      <3> QED  BY <3>1, <3>2 DEF Service!Open
    <2> QED  BY <2>3 DEF Service!Next
  <1>4. ASSUME NEW s \in Sessions, Throws(s) PROVE Goal
    <2>1. /\ session[s] = "idle" /\ session'[s] = "threw"
          /\ \A q \in Sessions : q # s => session'[q] = session[q]
          /\ UNCHANGED <<fetched, successes, failures>>
      BY <1>4 DEF Throws, IInv, TypeOK
    <2>2. successes[s] = 0
      BY <2>1 DEF IInv, Bookkeeping, NothingBeforeStart
    <2>3. /\ statusOf' = [statusOf EXCEPT ![s] = "threw"]
          /\ resultOf' = [resultOf EXCEPT ![s] = {}]
          /\ statusOf[s] = "idle" /\ resultOf[s] = {}
          /\ resultOf = [resultOf EXCEPT ![s] = resultOf[s]]
      BY <2>1, <2>2, OneSessionStep DEF Status
    <2>4. Service!Open(s)
      BY <2>3 DEF Service!Open
    <2> QED  BY <2>4 DEF Service!Next
  (* A call that is going on belongs to a session that is open or failed.  *)
  <1>5. ASSUME NEW c \in Calls, phase[c] \in {"requested", "fetching"}
        PROVE  /\ SessionOf(c) \in Sessions
               /\ session[SessionOf(c)] = "running"
               /\ successes[SessionOf(c)] = 0
    <2>1. SessionOf(c) \in Sessions
      BY CallParts
    <2>2. ~(successes[SessionOf(c)] > 0)
      BY <1>5, SessionSettled
    <2>3. session[SessionOf(c)] = "running"
      BY <1>5 DEF IInv, Bookkeeping, StartedCalls
    <2> QED  BY <1>1, <2>1, <2>2, <2>3
  <1>6. ASSUME NEW c \in Calls, GivesUp(c) PROVE Goal
    <2> DEFINE s == SessionOf(c)
    <2>1. s \in Sessions /\ session[s] = "running" /\ successes[s] = 0
      BY <1>5, <1>6 DEF GivesUp, Pending
    <2>2. /\ UNCHANGED <<session, fetched, successes>>
          /\ failures'[s] = failures[s] + 1
          /\ \A q \in Sessions : q # s => failures'[q] = failures[q]
      BY <1>6, <2>1 DEF GivesUp, IInv, TypeOK
    <2> HIDE DEF s
    <2>3. /\ statusOf' = [statusOf EXCEPT ![s] = "failed"]
          /\ resultOf' = [resultOf EXCEPT ![s] = {}]
          /\ statusOf[s] = IF failures[s] > 0 THEN "failed" ELSE "open"
          /\ resultOf[s] = {}
          /\ statusOf = [statusOf EXCEPT ![s] = statusOf[s]]
          /\ resultOf = [resultOf EXCEPT ![s] = resultOf[s]]
      BY <1>1, <2>1, <2>2, OneSessionStep DEF Status
    <2>4. CASE failures[s] > 0
      BY <2>3, <2>4
    <2>5. CASE ~(failures[s] > 0)
      <3>1. Service!Fail(s)
        BY <2>3, <2>5 DEF Service!Fail
      <3> QED  BY <2>1, <3>1 DEF Service!Next
    <2> QED  BY <2>4, <2>5
  <1>7. ASSUME NEW c \in Calls, NEW new \in SUBSET TrustedIds, Replaces(c, new)
        PROVE  Goal
    BY <1>2, <1>7 DEF Replaces
  <1>8. ASSUME NEW c \in Calls, NEW gen \in Generations, Adds(c, gen) PROVE Goal
    <2> DEFINE s == SessionOf(c)
               keys == KeysOfPieces(fetched'[s])
    <2>1. s \in Sessions /\ session[s] = "running" /\ successes[s] = 0
      BY <1>5, <1>8 DEF Adds
    <2>2. AddsEffect(c, gen)
      BY <1>8, AddsPointwise DEF IInv
    <2>3. /\ UNCHANGED <<session, failures, signers>>
          /\ \A q \in Sessions : q # s => /\ successes'[q] = successes[q]
                                          /\ fetched'[q] = fetched[q]
      BY <2>2 DEF AddsEffect
    <2> HIDE DEF s
    <2>4. /\ statusOf' = [statusOf EXCEPT ![s] =
                             IF successes'[s] > 0 THEN "signed"
                             ELSE IF failures[s] > 0 THEN "failed" ELSE "open"]
          /\ resultOf' = [resultOf EXCEPT ![s] = IF successes'[s] > 0 THEN keys ELSE {}]
          /\ statusOf[s] = IF failures[s] > 0 THEN "failed" ELSE "open"
          /\ resultOf[s] = {}
          /\ statusOf = [statusOf EXCEPT ![s] = statusOf[s]]
          /\ resultOf = [resultOf EXCEPT ![s] = resultOf[s]]
      BY <2>1, <2>3, OneSessionStep DEF Status
    <2>5. CASE ~(successes'[s] > 0)
      BY <2>4, <2>5
    <2>6. CASE successes'[s] > 0
      <3>1. keys = signers'[s] /\ failures[s] = 0
        BY <1>1, <2>1, <2>3, <2>6 DEF IInv, AggregateMatchesList, OneOutcome, KeysOfPieces
      <3>2. keys \in SUBSET TrustedIds
        BY <2>1, <3>1 DEF IInv, TypeOK
      <3>3. keys # {}
        <4>1. phase'[c] = "signed"
          BY <2>2 DEF AddsEffect
        <4>2. KeyOf(c) \in signers'[s]
          BY <4>1 DEF IInv, Bookkeeping, LiveIsListed, Live, s
        <4> QED  BY <3>1, <4>2
      <3>4. Service!Covers(s, keys)
        BY <2>1, <2>3, <2>6, <3>1 DEF RequiredCovered, Service!Covers
      <3>5. Service!Sign(s)
        <4> HIDE DEF keys
        <4>1. keys \in (SUBSET TrustedIds) \ {{}}
          BY <3>2, <3>3
        <4>2. /\ statusOf[s] = "open"
              /\ statusOf' = [statusOf EXCEPT ![s] = "signed"]
              /\ resultOf' = [resultOf EXCEPT ![s] = keys]
          <5>1. ~(failures[s] > 0)
            BY <3>1
          <5> HIDE <3>1
          <5> QED  BY <2>4, <2>6, <5>1
        <4> QED  BY <3>4, <4>1, <4>2 DEF Service!Sign
      <3> QED  BY <2>1, <3>5 DEF Service!Next
    <2> QED  BY <2>5, <2>6
  <1>9. ASSUME NEW c \in Calls, Moves(c) PROVE Goal
    BY <1>2, <1>9 DEF Moves
  <1>10. CASE Forgets
    BY <1>2, <1>10 DEF Forgets
  <1>11. CASE UNCHANGED bookVars
    BY <1>2, <1>11 DEF bookVars
  <1>12. StepOfKind
    BY StepKinds DEF IInv
  <1> HIDE DEF Goal
  <1> QED  BY <1>3, <1>4, <1>6, <1>7, <1>8, <1>9, <1>10, <1>11, <1>12 DEF StepOfKind

(***************************************************************************)
(* For every rule, every set of keys and every fault the application sees  *)
(* a run of SigningService: one verdict for each session, for ever, and a  *)
(* signature only by keys that cover the all-of patterns.                  *)
(***************************************************************************)
THEOREM ServiceImplemented == Spec => ImplementsService
  <1>1. IInv /\ IInv' /\ RequiredCovered' /\ [Next]_vars
            => [Service!Next]_(Service!vars)
    BY RefinementStep DEF Service!vars
  <1> QED  BY <1>1, RefinementInit, InvHolds, RequiredAlwaysCovered, PTL
           DEF Spec, ImplementsService, Service!Spec

-----------------------------------------------------------------------------
(***************************************************************************)
(* End to end.  The verifier finds the rule of the session first.          *)
(***************************************************************************)
RuleIsFirst(s) ==
    LET rules == {i \in DOMAIN RuleList : Match(RuleList[i].pktName, PacketName(s))}
    IN  rules # {} /\ RuleList[Min(rules)] = SchemaOf[s]

(* A list that covers the all-of patterns passes a rule without others. *)
LEMMA CoveredPasses ==
    ASSUME NEW schema \in Schemas, schema.minOptional = 0,
           NEW keys \in SUBSET TrustedIds, Covered(keys, schema.required)
    PROVE  PassSchema(schema, InOrder(keys))
  <1> DEFINE list == InOrder(keys)
             D == DOMAIN schema.optional
             worth == Worth(schema.optional, list)
  <1>1. /\ list \in [1..Cardinality(keys) -> keys]
        /\ \A i, j \in 1..Cardinality(keys) : i # j => list[i] # list[j]
    BY InOrderLists
  <1> HIDE DEF list
  <1>2. \A pattern : /\ EntriesMatching(pattern, list) \in Nat
                     /\ EntriesMatching(pattern, list) >= Cardinality(Matching(pattern, keys))
    BY <1>1, EntriesOfSet
  <1>3. ASSUME NEW i \in DOMAIN schema.required
        PROVE  EntriesMatching(schema.required[i], list) >= schema.required[i].times
    <2> DEFINE p == schema.required[i]
    <2>1. Cardinality(Matching(p, keys)) >= p.times
      BY DEF Covered, Filled
    <2>2. Cardinality(Matching(p, keys)) \in Nat /\ p.times \in Nat
      <3>1. Matching(p, keys) \in SUBSET TrustedIds
        BY DEF Matching
      <3> QED  BY <3>1, SubsetsFinite, RuleTypes
    <2>3. EntriesMatching(p, list) \in Nat /\ EntriesMatching(p, list) >= Cardinality(Matching(p, keys))
      BY <1>2
    <2> HIDE DEF p
    <2>4. EntriesMatching(p, list) >= p.times
      BY <2>1, <2>2, <2>3
    <2> QED  BY <2>4 DEF p
  <1>4. IsFiniteSet(D) /\ \A i \in D : worth[i] \in Nat
    <2>1. ASSUME NEW i \in D PROVE worth[i] \in Nat
      <3> DEFINE E == EntriesMatching(schema.optional[i], list)
                 t == schema.optional[i].times
      <3>1. E \in Nat /\ t \in Nat
        BY <1>2, RuleTypes
      <3>2. Min({E, t}) = IF E <= t THEN E ELSE t
        BY <3>1, MinOfTwo
      <3>3. worth[i] = Min({E, t})
        BY DEF Worth
      <3> HIDE DEF E, t, worth
      <3> QED  BY <3>1, <3>2, <3>3
    <2> QED  BY <2>1, RuleTypes
  <1>5. MapThenSumSet(LAMBDA i : Min({EntriesMatching(schema.optional[i], list),
                                      schema.optional[i].times}), D)
            = Total(worth, D)
    BY <1>4, WorthTotal
  <1>6. Total(worth, D) \in Nat
    <2> HIDE DEF worth, D
    <2> QED  BY <1>4, TotalOfNaturals
  <1>7. MapThenSumSet(LAMBDA i : Min({EntriesMatching(schema.optional[i], list),
                                      schema.optional[i].times}), D)
            >= schema.minOptional
    <2> HIDE DEF worth, D
    <2> QED  BY <1>5, <1>6
  <1> QED  BY <1>3, <1>7 DEF PassSchema, list

(***************************************************************************)
(* A result that is handed over has at least one piece: the sizes are      *)
(* compared after a piece was added.                                       *)
(***************************************************************************)
HasPieces == \A s \in Sessions : successes[s] > 0 => Len(fetched[s]) > 0

LEMMA HasPiecesStep == IInv /\ HasPieces /\ [Next]_vars => HasPieces'
  <1> SUFFICES ASSUME IInv, HasPieces, [Next]_vars PROVE HasPieces'
    OBVIOUS
  <1>1. CASE UNCHANGED <<fetched, successes>>
    BY <1>1 DEF HasPieces
  <1>2. ASSUME NEW c \in Calls, NEW gen \in Generations, Adds(c, gen)
        PROVE  HasPieces'
    <2>1. AddsEffect(c, gen)
      BY <1>2, AddsPointwise DEF IInv
    <2>2. Len(fetched'[SessionOf(c)]) > 0
      BY <2>1 DEF AddsEffect
    <2>3. \A q \in Sessions : q # SessionOf(c) =>
             fetched'[q] = fetched[q] /\ successes'[q] = successes[q]
      BY <2>1 DEF AddsEffect
    <2> QED  BY <2>2, <2>3 DEF HasPieces
  <1>3. StepOfKind
    BY StepKinds DEF IInv
  <1> QED  BY <1>1, <1>2, <1>3 DEF StepOfKind, Starts, Throws, GivesUp, Replaces, Moves,
                                   Forgets, bookVars

(***************************************************************************)
(* The aggregate of a session verifies, with the signer list in the info   *)
(* packet, unless a signer has lost its enrolled key pair.                 *)
(***************************************************************************)
LEMMA AggregateVerifies ==
    ASSUME IInv, HasPieces, NEW s \in Sessions, successes[s] > 0
    PROVE  LET list == InOrder(signers[s])
               data == SignedData(s)
           IN  /\ list # <<>>
               /\ BLSVerify(AggregateKey(list), Portion(data.name, data.locator),
                            data.signature)
                      <=> \A i \in DOMAIN fetched[s] : fetched[s][i].gen = 0
  <1> DEFINE S == signers[s]
             n == Len(fetched[s])
             list == InOrder(S)
             names == [i \in 1..n |-> KeyOf(fetched[s][i].call)]
             gens == [i \in 1..n |-> fetched[s][i].gen]
             portion == Portion(PacketName(s), Locator(s))
             signature == SumOfPieces(n, names, gens, portion)
  <1>1. /\ n \in Nat /\ n > 0 /\ DOMAIN fetched[s] = 1..n
        /\ \A i \in 1..n : fetched[s][i].call \in Calls
    <2>1. fetched[s] \in Seq(Pieces)
      BY DEF IInv, TypeOK
    <2>2. \A p \in Pieces : p.call \in Calls
      BY DEF Pieces
    <2> QED  BY <2>1, <2>2 DEF HasPieces
  <1>2. S \in SUBSET TrustedIds
    BY DEF IInv, TypeOK
  <1>3. {names[i] : i \in 1..n} = S /\ n = Cardinality(S)
    <2>1. /\ {KeyOf(fetched[s][i].call) : i \in DOMAIN fetched[s]} = S
          /\ n = Cardinality(S)
      BY DEF IInv, AggregateMatchesList
    <2> QED  BY <1>1, <2>1
  <1>4. ASSUME NEW i \in 1..n, NEW j \in 1..n, names[i] = names[j] PROVE i = j
    <2> DEFINE c == fetched[s][i].call
               d == fetched[s][j].call
    <2>1. c \in Calls /\ d \in Calls /\ KeyOf(c) = KeyOf(d)
      BY <1>1, <1>4
    <2>2. /\ SessionOf(c) = s /\ SessionOf(d) = s
          /\ phase[c] = "signed" /\ phase[d] = "signed"
      BY <1>1 DEF IInv, Bookkeeping, PiecesAreSigned
    <2>3. c = d
      BY <2>1, <2>2 DEF IInv, Bookkeeping, OneLiveCall, Live
    <2> QED  BY <1>1, <2>3 DEF IInv, Bookkeeping, PiecesAreSigned
  <1>5. /\ list \in Seq(S) /\ Len(list) = n /\ DOMAIN list = 1..n
        /\ \A i, j \in DOMAIN list : i # j => list[i] # list[j]
        /\ ToSet(list) = S
    <2> HIDE DEF S, n, list
    <2> QED  BY <1>2, <1>3, InOrderLists DEF list
  <1>6. list # <<>>
    <2> HIDE DEF list, n
    <2> QED  BY <1>1, <1>5
  <1>7. BLSVerify(AggregateKey(list), portion, signature)
            <=> \A i \in 1..n : gens[i] = 0
    <2> DEFINE sum == signature
    <2> HIDE DEF S, list, names, gens, portion, n
    <2>1. sum = SumOfPieces(n, names, gens, portion)
      OBVIOUS
    <2> HIDE DEF sum
    <2>2. \A i, j \in 1..n : i # j => names[i] # names[j]
      BY <1>4
    <2>3. ToSet(list) = {names[i] : i \in 1..n}
      BY <1>3, <1>5
    <2>4. /\ n \in Nat /\ n > 0 /\ list \in Seq(S) /\ list # <<>>
          /\ \A i, j \in DOMAIN list : i # j => list[i] # list[j]
      BY <1>1, <1>5, <1>6
    <2>5. BLSVerify(AggregateKey(list), portion, sum) <=> \A i \in 1..n : gens[i] = 0
      BY <2>1, <2>2, <2>3, <2>4, PiecesVerify
    <2> QED  BY <2>5 DEF sum
  <1>8. SignedData(s) = [name |-> PacketName(s), locator |-> Locator(s),
                         signature |-> signature]
    <2>1. \A i \in 1..n : PieceSignature(s, fetched[s][i])
                              = GenBLSSignature(<<names[i], gens[i]>>, portion)
      BY DEF PieceSignature
    <2>2. [i \in DOMAIN fetched[s] |-> PieceSignature(s, fetched[s][i])]
              = [i \in 1..n |-> GenBLSSignature(<<names[i], gens[i]>>, portion)]
      <3> HIDE DEF n, names, gens, portion
      <3> QED  BY <1>1, <2>1
    <2> HIDE DEF n, names, gens, portion
    <2> QED  BY <2>2 DEF SignedData, SumOfPieces
  <1>9. (\A i \in 1..n : gens[i] = 0) <=> \A i \in DOMAIN fetched[s] : fetched[s][i].gen = 0
    BY <1>1
  <1> DEFINE data == SignedData(s)
  <1>10. /\ Portion(data.name, data.locator) = portion /\ data.signature = signature
    <2> HIDE DEF signature
    <2> QED  BY <1>8
  <1> HIDE DEF data, signature, portion, gens, n, list
  <1>11. /\ list # <<>>
         /\ BLSVerify(AggregateKey(list), Portion(data.name, data.locator), data.signature)
                <=> \A i \in DOMAIN fetched[s] : fetched[s][i].gen = 0
    BY <1>6, <1>7, <1>9, <1>10
  <1> QED  BY <1>11 DEF data, list

(* What verify says of a session's result: whether every piece is of an    *)
(* enrolled key pair.                                                      *)
Verified(s) ==
    VerifyOutcomes(RuleList, TrustedIds, SignedData(s), InfoData(s))
        = {Verdict(\A i \in DOMAIN fetched[s] : fetched[s][i].gen = 0)}

(***************************************************************************)
(* If the list of a session passes its rule, the verifier's answer depends *)
(* on the pieces alone.                                                    *)
(***************************************************************************)
LEMMA DeliveredVerifies ==
    ASSUME IInv, HasPieces, NEW s \in Sessions, successes[s] > 0, RuleIsFirst(s),
           PassSchema(SchemaOf[s], InOrder(signers[s]))
    PROVE  Verified(s)
  <1> DEFINE list == InOrder(signers[s])
             data == SignedData(s)
             info == InfoData(s)
             intact == \A i \in DOMAIN fetched[s] : fetched[s][i].gen = 0
  <1>1. /\ list \in Seq(signers[s]) /\ signers[s] \in SUBSET TrustedIds
        /\ \A i \in DOMAIN list : list[i] \in TrustedIds
    <2>1. signers[s] \in SUBSET TrustedIds
      BY DEF IInv, TypeOK
    <2>2. list \in Seq(signers[s])
      BY <2>1, InOrderLists
    <2> HIDE DEF list
    <2> QED  BY <2>1, <2>2
  <1>2. data.name = PacketName(s) /\ data.locator = <<s>>
    BY DEF SignedData, Locator
  <1>3. info.name = <<s>> /\ info.content = <<WireEncode(list)>>
    BY DEF InfoData, Locator
  <1>4. data.locator # NoLocator /\ IsPrefix(data.locator, info.name)
    BY <1>2, <1>3 DEF NoLocator, IsPrefix
  <1>5. HasSignerList(info.content) /\ WireDecode(info.content) = list
    <2> DEFINE content == info.content
               places == {i \in DOMAIN content : content[i].type = "MpsSignerList"}
    <2>1. /\ DOMAIN content = {1} /\ content[1].type = "MpsSignerList"
          /\ content[1].elements = list
      <3> HIDE DEF list
      <3> QED  BY <1>3 DEF WireEncode
    <2> HIDE DEF content, list
    <2>2. places = {1}
      BY <2>1
    <2>3. Min({1}) = 1
      BY DEF Min
    <2>4. HasSignerList(content) /\ WireDecode(content) = list
      BY <2>1, <2>2, <2>3 DEF HasSignerList, WireDecode
    <2> QED  BY <2>4 DEF content
  <1>6. SchemaPassed(RuleList, TrustedIds, data.name, list)
    <2> HIDE DEF list, data
    <2> QED  BY <1>1, <1>2 DEF SchemaPassed, ContainerPassSchema, RuleIsFirst, list
  <1>7. /\ list # <<>>
        /\ BLSVerify(AggregateKey(list), Portion(data.name, data.locator), data.signature)
               <=> intact
    BY AggregateVerifies
  <1>8. SignatureVerdicts(list, data) = {Verdict(intact)}
    <2> HIDE DEF list, data, intact
    <2> QED  BY <1>7 DEF SignatureVerdicts, Verdict
  <1> HIDE DEF list, data, info
  <1>9. VerifyOutcomes(RuleList, TrustedIds, data, info) = {Verdict(intact)}
    BY <1>4, <1>5, <1>6, <1>8 DEF VerifyOutcomes
  <1> QED  BY <1>9 DEF Verified, data, info

(***************************************************************************)
(* Every result the application gets passes verification if the signers    *)
(* still had their enrolled key pairs, the verifier finds the rules of the *)
(* sessions first and they ask for no optional signers.  For the first and *)
(* the last of these see the runs unverified_piece and optional_shortage;  *)
(* the second is needed since only the first matching rule is tried        *)
(* (schema.cpp:231).                                                       *)
(***************************************************************************)
THEOREM SuccessIsVerified ==
    ASSUME \A s \in Sessions : RuleIsFirst(s) /\ SchemaOf[s].minOptional = 0
    PROVE  Spec => []SuccessVerifies
  <1>1. Init => HasPieces
    BY DEF Init, InitiatorInit, HasPieces
  <1>2. IInv /\ HasPieces /\ RequiredCovered => SuccessVerifies
    <2> SUFFICES ASSUME IInv, HasPieces, RequiredCovered,
                        NEW s \in Sessions, successes[s] > 0,
                        \A i \in DOMAIN fetched[s] : fetched[s][i].gen = 0
                 PROVE  VerifyOutcomes(RuleList, TrustedIds, SignedData(s), InfoData(s))
                            = {Verdict(TRUE)}
      BY DEF SuccessVerifies
    <2>1. session[s] = "running"
      BY DEF IInv, Bookkeeping, NothingBeforeStart, TypeOK
    <2>2. SchemaOf[s] \in Schemas /\ signers[s] \in SUBSET TrustedIds
      BY SchemasAssumption DEF IInv, TypeOK
    <2>3. Covered(signers[s], SchemaOf[s].required)
      BY <2>1 DEF RequiredCovered, Covered
    <2>4. PassSchema(SchemaOf[s], InOrder(signers[s]))
      BY <2>2, <2>3, CoveredPasses
    <2>5. Verified(s)
      BY <2>4, DeliveredVerifies
    <2> QED  BY <2>5 DEF Verified, Verdict
  <1> QED  BY <1>1, <1>2, HasPiecesStep, InvHolds, RequiredAlwaysCovered, PTL DEF Spec

-----------------------------------------------------------------------------
(***************************************************************************)
(* A session in which no signer was found unavailable.                     *)
(***************************************************************************)
Undisturbed(s) == \A c \in Calls : SessionOf(c) = s => phase[c] # "unavailable"

FirstListKept ==
    \A s \in Sessions :
        session[s] = "running" /\ Undisturbed(s) => PassSchema(SchemaOf[s], InOrder(signers[s]))

LEMMA UnavailableStays ==
    ASSUME IInv, StepOfKind, NEW c \in Calls, phase[c] = "unavailable"
    PROVE  phase'[c] = "unavailable"
  <1>1. /\ SessionOf(c) \in Sessions
        /\ session[SessionOf(c)] = "running"
        /\ EpochOf(c) = epoch => KeyOf(c) \in unavailable
    BY CallParts DEF IInv, Bookkeeping, StartedCalls
  <1>2. ASSUME NEW s \in Sessions, NEW list \in SUBSET TrustedIds, Starts(s, list)
        PROVE  phase'[c] = "unavailable"
    <2>1. StartsEffect(s, list)
      BY <1>2, StartsPointwise DEF IInv
    <2> QED  BY <1>1, <2>1 DEF StartsEffect
  <1>3. ASSUME NEW d \in Calls, GivesUp(d) PROVE phase'[c] = "unavailable"
    BY <1>3 DEF GivesUp, IInv, TypeOK
  <1>4. ASSUME NEW d \in Calls, NEW new \in SUBSET TrustedIds, Replaces(d, new)
        PROVE  phase'[c] = "unavailable"
    <2>1. ReplacesEffect(d, new)
      BY <1>4, ReplacesPointwise DEF IInv
    <2> QED  BY <1>1, <2>1 DEF ReplacesEffect
  <1>5. ASSUME NEW d \in Calls, NEW gen \in Generations, Adds(d, gen)
        PROVE  phase'[c] = "unavailable"
    <2>1. AddsEffect(d, gen)
      BY <1>5, AddsPointwise DEF IInv
    <2> QED  BY <2>1 DEF AddsEffect
  <1>6. ASSUME NEW d \in Calls, Moves(d) PROVE phase'[c] = "unavailable"
    BY <1>6 DEF Moves, IInv, TypeOK
  <1>7. CASE UNCHANGED phase
    BY <1>7
  <1> QED  BY <1>2, <1>3, <1>4, <1>5, <1>6, <1>7 DEF StepOfKind, Throws, Forgets, bookVars

LEMMA FirstListKeptStep == IInv /\ FirstListKept /\ [Next]_vars => FirstListKept'
  <1> SUFFICES ASSUME IInv, FirstListKept, [Next]_vars, NEW s \in Sessions,
                      session'[s] = "running", Undisturbed(s)'
               PROVE  PassSchema(SchemaOf[s], InOrder(signers'[s]))
    BY DEF FirstListKept
  <1>1. StepOfKind
    BY StepKinds DEF IInv
  <1>2. Undisturbed(s)
    BY <1>1, UnavailableStays DEF Undisturbed
  <1>3. CASE signers'[s] = signers[s] /\ session[s] = "running"
    BY <1>2, <1>3 DEF FirstListKept
  <1>4. CASE /\ SufficientKeys(SchemaOf[s], unavailable)
             /\ signers'[s] = GetAvailableSigners(SchemaOf[s], unavailable)
    <2> DEFINE keys == GetAvailableSigners(SchemaOf[s], unavailable)
               list == InOrder(keys)
    <2>1. keys \in SUBSET TrustedIds
      BY AvailableSignersAreAvailable
    <2>2. /\ list \in [1..Cardinality(keys) -> keys]
          /\ \A i, j \in 1..Cardinality(keys) : i # j => list[i] # list[j]
      <3> HIDE DEF keys
      <3> QED  BY <2>1, InOrderLists
    <2>3. SchemaOf[s] \in Schemas
      BY SchemasAssumption
    <2> HIDE DEF list
    <2>4. PassSchema(SchemaOf[s], list)
      BY <1>4, <2>2, <2>3, AvailablePasses
    <2> QED  BY <1>4, <2>4 DEF list
  <1>5. CASE session'[s] = session[s] /\ signers'[s] # signers[s]
    <2>1. ASSUME NEW q \in Sessions, NEW list \in SUBSET TrustedIds, Starts(q, list)
          PROVE  FALSE
      <3>1. StartsEffect(q, list)
        BY <2>1, StartsPointwise DEF IInv
      <3> QED  BY <1>5, <3>1 DEF StartsEffect
    <2>2. ASSUME NEW c \in Calls, NEW new \in SUBSET TrustedIds, Replaces(c, new)
          PROVE  FALSE
      <3>1. ReplacesEffect(c, new)
        BY <2>2, ReplacesPointwise DEF IInv
      <3>2. SessionOf(c) = s
        BY <1>5, <3>1 DEF ReplacesEffect
      <3>3. phase'[c] = "unavailable"
        BY <3>1 DEF ReplacesEffect
      <3> QED  BY <3>2, <3>3 DEF Undisturbed
    <2> QED  BY <1>1, <1>5, <2>1, <2>2 DEF StepOfKind, Throws, GivesUp, Adds, AddPiece,
                                           Moves, Forgets, bookVars
  <1>6. \/ signers'[s] = signers[s] /\ session[s] = "running"
        \/ /\ SufficientKeys(SchemaOf[s], unavailable)
           /\ signers'[s] = GetAvailableSigners(SchemaOf[s], unavailable)
        \/ session'[s] = session[s]
    BY ListChanges DEF IInv
  <1> QED  BY <1>3, <1>4, <1>5, <1>6

(***************************************************************************)
(* With optional signers too: as long as nobody was found unavailable in   *)
(* the session, its result verifies exactly when every piece is of an      *)
(* enrolled key pair.                                                      *)
(***************************************************************************)
THEOREM UndisturbedIsVerified ==
    ASSUME \A s \in Sessions : RuleIsFirst(s)
    PROVE  Spec => [](\A s \in Sessions : successes[s] > 0 /\ Undisturbed(s) => Verified(s))
  <1> DEFINE Good == \A s \in Sessions : successes[s] > 0 /\ Undisturbed(s) => Verified(s)
  <1>1. Init => HasPieces /\ FirstListKept
    BY DEF Init, InitiatorInit, HasPieces, FirstListKept
  <1>2. IInv /\ HasPieces /\ FirstListKept => Good
    <2> SUFFICES ASSUME IInv, HasPieces, FirstListKept,
                        NEW s \in Sessions, successes[s] > 0, Undisturbed(s)
                 PROVE  Verified(s)
      OBVIOUS
    <2>1. session[s] = "running"
      BY DEF IInv, Bookkeeping, NothingBeforeStart, TypeOK
    <2>2. PassSchema(SchemaOf[s], InOrder(signers[s]))
      BY <2>1 DEF FirstListKept
    <2> QED  BY <2>2, DeliveredVerifies
  <1> HIDE DEF Good
  <1>3. Spec => []Good
    BY <1>1, <1>2, HasPiecesStep, FirstListKeptStep, InvHolds, PTL DEF Spec
  <1> QED  BY <1>3 DEF Good

=============================================================================

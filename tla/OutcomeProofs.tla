--------------------------- MODULE OutcomeProofs ----------------------------
(***************************************************************************)
(* Proof that what a session hands over is consistent and final, for every *)
(* set of keys, sessions and rules, every bound and every set of faults.   *)
(***************************************************************************)
EXTENDS TypeProofs

(***************************************************************************)
(* What the steps do to the state the bookkeeping is about.  Every action  *)
(* of the protocol is of one of these kinds.                               *)
(***************************************************************************)
bookVars == <<session, signers, fetched, successes, failures, phase, unavailable,
              epoch>>

(* multiPartySign with the list it starts with, or its exception. *)
Starts(s, list) ==
    /\ session[s] = "idle"
    /\ list \cap unavailable = {}
    /\ session' = [session EXCEPT ![s] = "running"]
    /\ signers' = [signers EXCEPT ![s] = list]
    /\ failures' = [failures EXCEPT ![s] = IF list = {} THEN @ + 1 ELSE @]
    /\ phase' = [d \in Calls |-> IF d \in CallsTo(s, list) THEN "requested"
                                                           ELSE phase[d]]
    /\ UNCHANGED <<fetched, successes, unavailable, epoch>>

Throws(s) ==
    /\ session[s] = "idle"
    /\ session' = [session EXCEPT ![s] = "threw"]
    /\ UNCHANGED <<signers, fetched, successes, failures, phase, unavailable, epoch>>

(* onUnavailableSigner without, and with, a replacement. *)
Pending(c) == phase[c] \in {"requested", "fetching"}

GivesUp(c) ==
    /\ Pending(c)
    /\ failures' = [failures EXCEPT ![SessionOf(c)] = @ + 1]
    /\ phase' = [phase EXCEPT ![c] = "unavailable"]
    /\ unavailable' = unavailable \cup {KeyOf(c)}
    /\ UNCHANGED <<session, signers, fetched, successes, epoch>>

Replaces(c, new) ==
    /\ Pending(c)
    /\ new \cap (unavailable \cup {KeyOf(c)} \cup signers[SessionOf(c)]) = {}
    /\ signers' = [signers EXCEPT ![SessionOf(c)] = (@ \ {KeyOf(c)}) \cup new]
    /\ phase' = [d \in Calls |-> IF d \in CallsTo(SessionOf(c), new) THEN "requested"
                                 ELSE IF d = c THEN "unavailable" ELSE phase[d]]
    /\ unavailable' = unavailable \cup {KeyOf(c)}
    /\ UNCHANGED <<session, fetched, successes, failures, epoch>>

(* A result with a piece. *)
Adds(c, gen) ==
    /\ phase[c] = "fetching"
    /\ AddPiece(c, gen)
    /\ UNCHANGED <<session, epoch>>

(* The other callbacks of an RPC. *)
Moves(c) ==
    /\ phase[c] \in {"requested", "waiting", "fetching"}
    /\ \E p \in {"waiting", "fetching", "dropped"} : phase' = [phase EXCEPT ![c] = p]
    /\ UNCHANGED <<session, signers, fetched, successes, failures, unavailable, epoch>>

Forgets ==
    /\ epoch' = epoch + 1
    /\ UNCHANGED <<session, signers, fetched, successes, failures, phase>>

StepOfKind ==
    \/ \E s \in Sessions, list \in SUBSET TrustedIds : Starts(s, list)
    \/ \E s \in Sessions : Throws(s)
    \/ \E c \in Calls : GivesUp(c)
    \/ \E c \in Calls, new \in SUBSET TrustedIds : Replaces(c, new)
    \/ \E c \in Calls, gen \in Generations : Adds(c, gen)
    \/ \E c \in Calls : Moves(c)
    \/ Forgets
    \/ UNCHANGED bookVars

LEMMA OnUnavailableSignerKind ==
    ASSUME TypeOK, NEW c \in Calls, NEW newPara, NEW rest, Pending(c),
           OnUnavailableSigner(c, newPara, rest)
    PROVE  GivesUp(c) \/ \E new \in SUBSET TrustedIds : Replaces(c, new)
  <1> DEFINE s == SessionOf(c)
             gone == unavailable \cup {KeyOf(c)}
             ended == [phase EXCEPT ![c] = "unavailable"]
  <1>1. s \in Sessions /\ KeyOf(c) \in TrustedIds /\ epoch \in Epochs
    BY CallParts DEF TypeOK
  <1>2. PICK r \in ReplaceSigner(signers[s], KeyOf(c), SchemaOf[s], gone) :
           IF r.signers = {}
           THEN /\ failures' = [failures EXCEPT ![s] = @ + 1]
                /\ UNCHANGED signers
                /\ PerformRPC(s, {}, ended, newPara, rest)
           ELSE /\ signers' = [signers EXCEPT ![s] = r.signers]
                /\ UNCHANGED failures
                /\ PerformRPC(s, r.diff, ended, newPara, rest)
    BY DEF OnUnavailableSigner, ReportFailure, InstallList
  <1>3. UNCHANGED <<session, fetched, successes, epoch>> /\ unavailable' = gone
    BY DEF OnUnavailableSigner
  <1>4. CASE r.signers = {}
    <2>1. phase' = [d \in Calls |-> IF d \in CallsTo(s, {}) THEN "requested" ELSE ended[d]]
      BY <1>2, <1>4 DEF PerformRPC
    <2>2. CallsTo(s, {}) = {}
      BY DEF CallsTo
    <2>3. phase' = ended
      BY <2>1, <2>2 DEF TypeOK
    <2> QED  BY <1>2, <1>3, <1>4, <2>3 DEF GivesUp
  <1>5. CASE r.signers # {}
    <2>1. signers[s] \in SUBSET TrustedIds
      BY <1>1 DEF TypeOK
    <2>2. Substitutes(r, signers[s], KeyOf(c), gone)
      <3> HIDE DEF s, gone
      <3> QED  BY <1>2, <2>1, ReplacementIsFresh
    <2>3. phase' = [d \in Calls |-> IF d \in CallsTo(s, r.diff) THEN "requested"
                                    ELSE ended[d]]
      BY <1>2, <1>5 DEF PerformRPC
    <2>4. phase' = [d \in Calls |-> IF d \in CallsTo(s, r.diff) THEN "requested"
                                    ELSE IF d = c THEN "unavailable" ELSE phase[d]]
      BY <2>3 DEF TypeOK
    <2>5. signers' = [signers EXCEPT ![s] = (signers[s] \ {KeyOf(c)}) \cup r.diff]
      <3>1. r.signers = (signers[s] \ {KeyOf(c)}) \cup r.diff
        BY <1>5, <2>2 DEF Substitutes
      <3> QED  BY <1>2, <1>5, <3>1
    <2>6. r.diff \cap (unavailable \cup {KeyOf(c)} \cup signers[s]) = {}
      BY <2>2 DEF Substitutes
    <2>7. Replaces(c, r.diff)
      BY <1>2, <1>3, <1>5, <2>4, <2>5, <2>6 DEF Replaces
    <2>8. r.diff \in SUBSET TrustedIds
      BY <2>2 DEF Substitutes
    <2> QED  BY <2>7, <2>8
  <1> QED  BY <1>4, <1>5

LEMMA StepKinds == TypeOK /\ [Next]_vars => StepOfKind
  <1> SUFFICES ASSUME TypeOK, [Next]_vars PROVE StepOfKind
    OBVIOUS
  <1>1. ASSUME NEW s \in Sessions, MultiPartySign(s) PROVE StepOfKind
    <2> DEFINE list == GetAvailableSigners(SchemaOf[s], unavailable)
    <2>1. list \in SUBSET TrustedIds /\ list \cap unavailable = {}
      BY AvailableSignersAreAvailable
    <2>2. CASE SufficientKeys(SchemaOf[s], unavailable)
      <3> HIDE DEF list
      <3>1. Starts(s, list)
        BY <1>1, <2>1, <2>2 DEF MultiPartySign, PerformRPC, Starts, list
      <3> QED  BY <2>1, <3>1 DEF StepOfKind
    <2>3. CASE ~SufficientKeys(SchemaOf[s], unavailable)
      <3>1. Throws(s)
        BY <1>1, <2>3 DEF MultiPartySign, Throws
      <3> QED  BY <3>1 DEF StepOfKind
    <2> QED  BY <2>2, <2>3
  <1>2. ASSUME NEW c \in Calls, NEW newPara, NEW rest, Pending(c),
               OnUnavailableSigner(c, newPara, rest)
        PROVE  StepOfKind
    BY <1>2, OnUnavailableSignerKind DEF StepOfKind
  <1>3. ASSUME NEW c \in Calls, InitiatorStep(c) PROVE StepOfKind
    <2>1. ASSUME NEW keyed \in BOOLEAN, NEW intact \in BOOLEAN, OnAck(c, keyed, intact)
          PROVE  Moves(c)
      BY <2>1 DEF OnAck, Moves
    <2>2. CASE SignRequestFails(c)
      BY <2>2, <1>2 DEF SignRequestFails, Pending
    <2>3. CASE OnParamInterest(c)
      BY <2>3 DEF OnParamInterest, StepOfKind, bookVars
    <2>4. CASE FetchResult(c)
      <3>1. Moves(c)
        BY <2>4 DEF FetchResult, Moves
      <3> QED  BY <3>1 DEF StepOfKind
    <2>5. ASSUME NEW v \in Codes, NEW g \in Generations, NEW intact \in BOOLEAN,
                 OnResult(c, v, g, intact)
          PROVE  StepOfKind
      <3>1. phase[c] = "fetching"
        BY <2>5 DEF OnResult
      <3>2. \/ Moves(c)
            \/ Adds(c, g)
            \/ OnUnavailableSigner(c, para, net \ {ResultData(c, v, g)})
        BY <2>5, <3>1 DEF OnResult, Moves, Adds
      <3>3. CASE Moves(c) \/ Adds(c, g)
        BY <3>3 DEF StepOfKind
      <3>4. CASE OnUnavailableSigner(c, para, net \ {ResultData(c, v, g)})
        BY <3>1, <3>4, <1>2 DEF Pending
      <3> QED  BY <3>2, <3>3, <3>4
    <2>6. CASE ResultFetchFails(c, ResultUnserved(c))
      BY <2>6, <1>2 DEF ResultFetchFails, Pending
    <2> QED  BY <1>3, <2>1, <2>2, <2>3, <2>4, <2>5, <2>6 DEF InitiatorStep, StepOfKind
  <1>4. CASE ResetCachedUnavailableSigners
    BY <1>4 DEF ResetCachedUnavailableSigners, StepOfKind, Forgets
  <1>5. CASE UNCHANGED initiatorVars
    BY <1>5 DEF StepOfKind, initiatorVars, bookVars
  <1>6. CASE UNCHANGED vars
    BY <1>5, <1>6 DEF vars
  <1> QED  BY <1>1, <1>3, <1>4, <1>5, <1>6 DEF Next

-----------------------------------------------------------------------------
(***************************************************************************)
(* The inductive invariant: the properties to be proved and the            *)
(* bookkeeping of the RPCs that carries them from step to step.            *)
(***************************************************************************)
IInv ==
    /\ TypeOK
    /\ StateKept
    /\ Bookkeeping
    /\ AggregateMatchesList
    /\ OneOutcome
    /\ ListIsWorkedOn

(***************************************************************************)
(* Pieces of different keys of a list are at most as many as the list has  *)
(* keys, and all its keys when they are as many: what the comparison of    *)
(* two sizes in the result callback relies on.                             *)
(***************************************************************************)
LEMMA PieceCount ==
    ASSUME NEW pieces \in Seq(Pieces), NEW list \in SUBSET TrustedIds,
           \A i \in DOMAIN pieces : KeyOf(pieces[i].call) \in list,
           \A i, j \in DOMAIN pieces :
               KeyOf(pieces[i].call) = KeyOf(pieces[j].call) => i = j,
           Len(pieces) = Cardinality(list)
    PROVE  {KeyOf(pieces[i].call) : i \in DOMAIN pieces} = list
  <1> DEFINE f == [i \in DOMAIN pieces |-> KeyOf(pieces[i].call)]
  <1>1. IsFiniteSet(list)
    BY TrustedIdsFinite, FS_Subset
  <1>2. DOMAIN pieces = 1..Len(pieces) /\ Len(pieces) \in Nat
    BY LenProperties
  <1>3. Cardinality(DOMAIN pieces) = Len(pieces)
    BY <1>2, FS_Interval
  <1>4. f \in Injection(DOMAIN pieces, list)
    BY DEF Injection, IsInjective
  <1>5. f \in Surjection(DOMAIN pieces, list)
    <2> HIDE DEF f
    <2> QED  BY <1>1, <1>3, <1>4, FS_Injection
  <1>6. \A k \in list : \E i \in DOMAIN pieces : f[i] = k
    <2> HIDE DEF f
    <2> QED  BY <1>5 DEF Surjection
  <1>7. \A k \in list : \E i \in DOMAIN pieces : KeyOf(pieces[i].call) = k
    BY <1>6
  <1> QED  BY <1>7

(* The new state, call by call and session by session. *)
StartsEffect(s, list) ==
    /\ session[s] = "idle" /\ session'[s] = "running" /\ signers'[s] = list
    /\ \A k \in list : k \notin unavailable
    /\ failures'[s] = IF list = {} THEN failures[s] + 1 ELSE failures[s]
    /\ \A d \in Calls :
          phase'[d] = IF SessionOf(d) = s /\ KeyOf(d) \in list /\ EpochOf(d) = epoch
                      THEN "requested" ELSE phase[d]
    /\ \A q \in Sessions : q # s => /\ session'[q] = session[q]
                                    /\ signers'[q] = signers[q]
                                    /\ failures'[q] = failures[q]
    /\ UNCHANGED <<fetched, successes, unavailable, epoch>>

LEMMA StartsPointwise ==
    ASSUME TypeOK, NEW s \in Sessions, NEW list \in SUBSET TrustedIds, Starts(s, list)
    PROVE  StartsEffect(s, list)
  <1>1. \A d \in Calls : d \in CallsTo(s, list)
           <=> SessionOf(d) = s /\ KeyOf(d) \in list /\ EpochOf(d) = epoch
    BY CallsToType DEF TypeOK
  <1> QED  BY <1>1 DEF Starts, StartsEffect, TypeOK

ReplacesEffect(c, new) ==
    /\ phase[c] \in {"requested", "fetching"}
    /\ \A d \in Calls :
          phase'[d] = IF SessionOf(d) = SessionOf(c) /\ KeyOf(d) \in new /\ EpochOf(d) = epoch
                      THEN "requested"
                      ELSE IF d = c THEN "unavailable" ELSE phase[d]
    /\ \A k : k \in signers'[SessionOf(c)]
                 <=> (k \in signers[SessionOf(c)] /\ k # KeyOf(c)) \/ k \in new
    /\ \A k \in new : /\ k # KeyOf(c) /\ k \notin unavailable
                      /\ k \notin signers[SessionOf(c)]
    /\ \A q \in Sessions : q # SessionOf(c) => signers'[q] = signers[q]
    /\ unavailable' = unavailable \cup {KeyOf(c)}
    /\ UNCHANGED <<session, fetched, successes, failures, epoch>>

LEMMA ReplacesPointwise ==
    ASSUME TypeOK, NEW c \in Calls, NEW new \in SUBSET TrustedIds, Replaces(c, new)
    PROVE  ReplacesEffect(c, new)
  <1>1. \A d \in Calls : d \in CallsTo(SessionOf(c), new)
           <=> SessionOf(d) = SessionOf(c) /\ KeyOf(d) \in new /\ EpochOf(d) = epoch
    BY CallParts, CallsToType DEF TypeOK
  <1>2. SessionOf(c) \in Sessions
    BY CallParts
  <1> QED  BY <1>1, <1>2 DEF Replaces, Pending, ReplacesEffect, TypeOK

(***************************************************************************)
(* No RPC of a session that was signed is going on.                        *)
(***************************************************************************)
LEMMA SessionSettled ==
    ASSUME IInv, NEW c \in Calls, successes[SessionOf(c)] > 0
    PROVE  phase[c] \in {"none", "unavailable", "signed"}
  <1> DEFINE s == SessionOf(c)
  <1> SUFFICES ASSUME Live(c) PROVE phase[c] = "signed"
    BY DEF Live
  <1>1. s \in Sessions
    BY CallParts
  <1>2. KeyOf(c) \in signers[s]
    BY DEF IInv, Bookkeeping, LiveIsListed
  <1>3. PICK i \in DOMAIN fetched[s] : KeyOf(c) = KeyOf(fetched[s][i].call)
    BY <1>1, <1>2 DEF IInv, AggregateMatchesList
  <1>4. fetched[s][i].call \in Calls
    <2>1. fetched[s] \in Seq(Pieces)
      BY <1>1 DEF IInv, TypeOK
    <2>2. fetched[s][i] \in Pieces
      BY <2>1, <1>3, LenProperties
    <2> QED  BY <2>2 DEF Pieces
  <1>5. SessionOf(fetched[s][i].call) = s /\ phase[fetched[s][i].call] = "signed"
    BY <1>1, <1>3 DEF IInv, Bookkeeping, PiecesAreSigned
  <1>6. c = fetched[s][i].call
    BY <1>3, <1>4, <1>5 DEF IInv, Bookkeeping, OneLiveCall, Live
  <1> QED  BY <1>5, <1>6

-----------------------------------------------------------------------------
LEMMA StartedCallsStep ==
    ASSUME IInv, TypeOK', StepOfKind
    PROVE  StartedCalls' /\ NothingBeforeStart'
  <1> USE DEF IInv, Bookkeeping, StartedCalls, NothingBeforeStart
  <1>1. \A d \in Calls : SessionOf(d) \in Sessions /\ EpochOf(d) \in Nat
    BY CallParts, BoundsAssumption DEF Epochs
  <1>2. epoch \in Epochs /\ epoch \in Nat
    BY BoundsAssumption DEF TypeOK, Epochs
  <1>3. ASSUME NEW s \in Sessions, NEW list \in SUBSET TrustedIds, Starts(s, list)
        PROVE  StartedCalls' /\ NothingBeforeStart'
    <2>1. StartsEffect(s, list)
      BY <1>3, StartsPointwise
    <2> QED  BY <1>1, <1>2, <2>1 DEF StartsEffect
  <1>4. ASSUME NEW s \in Sessions, Throws(s)
        PROVE  StartedCalls' /\ NothingBeforeStart'
    BY <1>1, <1>4 DEF Throws, TypeOK
  <1>5. ASSUME NEW c \in Calls, GivesUp(c)
        PROVE  StartedCalls' /\ NothingBeforeStart'
    BY <1>1, <1>5 DEF GivesUp, TypeOK, Pending
  <1>6. ASSUME NEW c \in Calls, NEW new \in SUBSET TrustedIds, Replaces(c, new)
        PROVE  StartedCalls' /\ NothingBeforeStart'
    <2>1. ReplacesEffect(c, new)
      BY <1>6, ReplacesPointwise
    <2> QED  BY <1>1, <1>2, <2>1 DEF ReplacesEffect
  <1>7. ASSUME NEW c \in Calls, NEW gen \in Generations, Adds(c, gen)
        PROVE  StartedCalls' /\ NothingBeforeStart'
    BY <1>1, <1>7 DEF Adds, AddPiece, TypeOK
  <1>8. ASSUME NEW c \in Calls, Moves(c)
        PROVE  StartedCalls' /\ NothingBeforeStart'
    BY <1>1, <1>8 DEF Moves, TypeOK
  <1>9. CASE Forgets
    BY <1>1, <1>2, <1>9 DEF Forgets
  <1>10. CASE UNCHANGED bookVars
    BY <1>10 DEF bookVars
  <1> QED  BY <1>3, <1>4, <1>5, <1>6, <1>7, <1>8, <1>9, <1>10 DEF StepOfKind

LEMMA LiveCallsStep ==
    ASSUME IInv, StepOfKind
    PROVE  LiveIsListed' /\ OneLiveCall'
  <1> USE DEF IInv, Bookkeeping, LiveIsListed, OneLiveCall, Live
  <1>1. \A d \in Calls : /\ SessionOf(d) \in Sessions
                         /\ d = <<SessionOf(d), KeyOf(d), EpochOf(d)>>
    BY CallParts
  <1>2. epoch \in Epochs
    BY DEF TypeOK
  <1>3. ASSUME NEW s \in Sessions, NEW list \in SUBSET TrustedIds, Starts(s, list)
        PROVE  LiveIsListed' /\ OneLiveCall'
    <2>1. StartsEffect(s, list)
      BY <1>3, StartsPointwise
    <2> QED  BY <1>1, <1>2, <2>1 DEF StartsEffect, StartedCalls
  <1>4. ASSUME NEW s \in Sessions, Throws(s)
        PROVE  LiveIsListed' /\ OneLiveCall'
    BY <1>4 DEF Throws
  <1>5. ASSUME NEW c \in Calls, GivesUp(c)
        PROVE  LiveIsListed' /\ OneLiveCall'
    BY <1>5 DEF GivesUp, TypeOK
  <1>6. ASSUME NEW c \in Calls, NEW new \in SUBSET TrustedIds, Replaces(c, new)
        PROVE  LiveIsListed' /\ OneLiveCall'
    <2>1. ReplacesEffect(c, new)
      BY <1>6, ReplacesPointwise
    <2> QED  BY <1>1, <1>2, <2>1 DEF ReplacesEffect
  <1>7. ASSUME NEW c \in Calls, NEW gen \in Generations, Adds(c, gen)
        PROVE  LiveIsListed' /\ OneLiveCall'
    BY <1>7 DEF Adds, AddPiece, TypeOK
  <1>8. ASSUME NEW c \in Calls, Moves(c)
        PROVE  LiveIsListed' /\ OneLiveCall'
    BY <1>8 DEF Moves, TypeOK
  <1>9. CASE Forgets
    BY <1>9 DEF Forgets
  <1>10. CASE UNCHANGED bookVars
    BY <1>10 DEF bookVars
  <1> QED  BY <1>3, <1>4, <1>5, <1>6, <1>7, <1>8, <1>9, <1>10 DEF StepOfKind

(***************************************************************************)
(* What a piece adds to the session's state.                               *)
(***************************************************************************)
AddsEffect(c, gen) ==
    LET s == SessionOf(c)
        n == Len(fetched[s])
    IN  /\ phase[c] = "fetching"
        /\ \A d \in Calls : phase'[d] = IF d = c THEN "signed" ELSE phase[d]
        /\ n \in Nat /\ DOMAIN fetched[s] = 1..n
        /\ Len(fetched'[s]) = n + 1 /\ DOMAIN fetched'[s] = 1..(n + 1)
        /\ \A i \in 1..n : fetched'[s][i] = fetched[s][i]
        /\ fetched'[s][n + 1] = [call |-> c, gen |-> gen]
        /\ successes'[s] = IF n + 1 = Cardinality(signers[s]) THEN successes[s] + 1
                                                              ELSE successes[s]
        /\ \A q \in Sessions : q # s => /\ fetched'[q] = fetched[q]
                                        /\ successes'[q] = successes[q]
        /\ UNCHANGED <<session, signers, failures, unavailable, epoch>>

LEMMA AddsPointwise ==
    ASSUME TypeOK, NEW c \in Calls, NEW gen \in Generations, Adds(c, gen)
    PROVE  AddsEffect(c, gen)
  <1> DEFINE s == SessionOf(c)
             piece == [call |-> c, gen |-> gen]
  <1>1. s \in Sessions /\ fetched[s] \in Seq(Pieces) /\ piece \in Pieces
    BY CallParts DEF TypeOK, Pieces
  <1>2. fetched'[s] = Append(fetched[s], piece)
    BY <1>1 DEF Adds, AddPiece, TypeOK
  <1>3. /\ Len(fetched[s]) \in Nat /\ DOMAIN fetched[s] = 1..Len(fetched[s])
        /\ fetched'[s] \in Seq(Pieces) /\ Len(fetched'[s]) = Len(fetched[s]) + 1
        /\ \A i \in 1..Len(fetched[s]) : fetched'[s][i] = fetched[s][i]
        /\ fetched'[s][Len(fetched[s]) + 1] = piece
    BY <1>1, <1>2, AppendProperties, LenProperties
  <1>4. DOMAIN fetched'[s] = 1..(Len(fetched[s]) + 1)
    BY <1>3, LenProperties
  <1>5. successes'[s] = IF Len(fetched[s]) + 1 = Cardinality(signers[s])
                        THEN successes[s] + 1 ELSE successes[s]
    BY <1>1, <1>2, <1>3 DEF Adds, AddPiece, AllFetched, TypeOK
  <1>6. /\ phase[c] = "fetching"
        /\ \A d \in Calls : phase'[d] = IF d = c THEN "signed" ELSE phase[d]
        /\ \A q \in Sessions : q # s => fetched'[q] = fetched[q] /\ successes'[q] = successes[q]
        /\ UNCHANGED <<session, signers, failures, unavailable, epoch>>
    BY DEF Adds, AddPiece, TypeOK
  <1> QED  BY <1>3, <1>4, <1>5, <1>6 DEF AddsEffect

LEMMA PiecesStep ==
    ASSUME IInv, StepOfKind
    PROVE  PiecesAreSigned'
  <1> USE DEF IInv, Bookkeeping, PiecesAreSigned
  <1>1. \A s \in Sessions : \A i \in DOMAIN fetched[s] : fetched[s][i].call \in Calls
    <2> SUFFICES ASSUME NEW s \in Sessions, NEW i \in DOMAIN fetched[s]
                 PROVE  fetched[s][i].call \in Calls
      OBVIOUS
    <2>1. fetched[s] \in Seq(Pieces)
      BY DEF TypeOK
    <2>2. fetched[s][i] \in Pieces
      BY <2>1, LenProperties
    <2> QED  BY <2>2 DEF Pieces
  <1>2. ASSUME UNCHANGED fetched,
               \A d \in Calls : phase[d] = "signed" => phase'[d] = "signed"
        PROVE  PiecesAreSigned'
    BY <1>1, <1>2
  <1>3. ASSUME NEW s \in Sessions, NEW list \in SUBSET TrustedIds, Starts(s, list)
        PROVE  PiecesAreSigned'
    <2>1. StartsEffect(s, list)
      BY <1>3, StartsPointwise
    <2> QED  BY <1>2, <2>1 DEF StartsEffect, StartedCalls
  <1>4. ASSUME NEW s \in Sessions, Throws(s) PROVE PiecesAreSigned'
    BY <1>2, <1>4 DEF Throws
  <1>5. ASSUME NEW c \in Calls, GivesUp(c) PROVE PiecesAreSigned'
    BY <1>2, <1>5 DEF GivesUp, Pending, TypeOK
  <1>6. ASSUME NEW c \in Calls, NEW new \in SUBSET TrustedIds, Replaces(c, new)
        PROVE  PiecesAreSigned'
    <2>1. ReplacesEffect(c, new)
      BY <1>6, ReplacesPointwise
    <2> QED  BY <1>2, <2>1 DEF ReplacesEffect, LiveIsListed, Live
  <1>7. ASSUME NEW c \in Calls, NEW gen \in Generations, Adds(c, gen)
        PROVE  PiecesAreSigned'
    <2>1. AddsEffect(c, gen)
      BY <1>7, AddsPointwise
    <2>2. SessionOf(c) \in Sessions
      BY CallParts
    <2> DEFINE n == Len(fetched[SessionOf(c)])
    <2>3. ASSUME NEW q \in Sessions, q # SessionOf(c)
          PROVE  /\ \A i \in DOMAIN fetched'[q] :
                       SessionOf(fetched'[q][i].call) = q /\ phase'[fetched'[q][i].call] = "signed"
                 /\ \A i, j \in DOMAIN fetched'[q] :
                       fetched'[q][i].call = fetched'[q][j].call => i = j
      BY <1>1, <2>1, <2>3 DEF AddsEffect
    <2>4. ASSUME NEW q \in Sessions, q = SessionOf(c)
          PROVE  /\ \A i \in DOMAIN fetched'[q] :
                       SessionOf(fetched'[q][i].call) = q /\ phase'[fetched'[q][i].call] = "signed"
                 /\ \A i, j \in DOMAIN fetched'[q] :
                       fetched'[q][i].call = fetched'[q][j].call => i = j
      <3>1. \A i \in 1..n : /\ fetched'[q][i].call = fetched[q][i].call
                            /\ fetched[q][i].call \in Calls
                            /\ SessionOf(fetched[q][i].call) = q
                            /\ phase[fetched[q][i].call] = "signed"
                            /\ fetched[q][i].call # c
        BY <1>1, <2>1, <2>4 DEF AddsEffect
      <3>2. fetched'[q][n + 1].call = c /\ phase'[c] = "signed"
        BY <2>1, <2>4 DEF AddsEffect
      <3>3. n \in Nat /\ DOMAIN fetched'[q] = 1..(n + 1) /\ DOMAIN fetched[q] = 1..n
        BY <2>1, <2>4 DEF AddsEffect
      <3>4. \A i \in 1..n : phase'[fetched[q][i].call] = "signed"
        BY <2>1, <3>1 DEF AddsEffect
      <3>5. \A i, j \in 1..n : fetched[q][i].call = fetched[q][j].call => i = j
        BY <3>3
      <3>6. \A i \in 1..(n + 1) : i \in 1..n \/ i = n + 1
        BY <3>3
      <3> HIDE DEF n
      <3> DEFINE call(i) == fetched'[q][i].call
      <3>7. ASSUME NEW i \in 1..(n + 1)
            PROVE  SessionOf(call(i)) = q /\ phase'[call(i)] = "signed"
        <4>1. CASE i \in 1..n
          BY <4>1, <3>1, <3>4
        <4>2. CASE i = n + 1
          BY <4>2, <3>2, <2>4
        <4> QED  BY <4>1, <4>2, <3>6
      <3>8. ASSUME NEW i \in 1..(n + 1), NEW j \in 1..(n + 1), call(i) = call(j)
            PROVE  i = j
        <4>1. CASE i \in 1..n /\ j \in 1..n
          BY <4>1, <3>1, <3>5, <3>8
        <4>2. CASE i = n + 1 \/ j = n + 1
          BY <4>2, <3>1, <3>2, <3>6, <3>8
        <4> QED  BY <4>1, <4>2, <3>6
      <3> QED  BY <3>3, <3>7, <3>8
    <2> QED  BY <2>3, <2>4
  <1>8. ASSUME NEW c \in Calls, Moves(c) PROVE PiecesAreSigned'
    BY <1>2, <1>8 DEF Moves, TypeOK
  <1>9. CASE Forgets
    BY <1>2, <1>9 DEF Forgets
  <1>10. CASE UNCHANGED bookVars
    BY <1>2, <1>10 DEF bookVars
  <1> QED  BY <1>3, <1>4, <1>5, <1>6, <1>7, <1>8, <1>9, <1>10 DEF StepOfKind

(* A key of the session that no RPC works on any more. *)
Orphan(s, k) ==
    /\ k \in signers[s]
    /\ \A d \in Calls : SessionOf(d) = s /\ KeyOf(d) = k => ~Live(d)

LEMMA FailureStep ==
    ASSUME IInv, StepOfKind
    PROVE  FailureIsFinal'
  <1> USE DEF IInv, Bookkeeping, FailureIsFinal, Live
  <1>1. \A d \in Calls : SessionOf(d) \in Sessions
    BY CallParts
  <1>2. ASSUME UNCHANGED <<signers, failures>>,
               \A d \in Calls : Live(d)' => Live(d)
        PROVE  FailureIsFinal'
    BY <1>2
  <1>3. ASSUME NEW s \in Sessions, NEW list \in SUBSET TrustedIds, Starts(s, list)
        PROVE  FailureIsFinal'
    <2>1. StartsEffect(s, list)
      BY <1>3, StartsPointwise
    <2>2. failures[s] = 0
      BY <2>1 DEF StartsEffect, NothingBeforeStart
    <2> QED  BY <2>1, <2>2 DEF StartsEffect
  <1>4. ASSUME NEW s \in Sessions, Throws(s) PROVE FailureIsFinal'
    BY <1>2, <1>4 DEF Throws
  <1>5. ASSUME NEW c \in Calls, GivesUp(c) PROVE FailureIsFinal'
    <2>1. Orphan(SessionOf(c), KeyOf(c))'
      BY <1>5 DEF GivesUp, Pending, Orphan, TypeOK, OneLiveCall, LiveIsListed
    <2>2. /\ \A d \in Calls : Live(d)' => Live(d)
          /\ signers' = signers
          /\ \A q \in Sessions : q # SessionOf(c) => failures'[q] = failures[q]
      BY <1>5 DEF GivesUp, TypeOK
    <2> QED  BY <2>1, <2>2 DEF Orphan
  <1>6. ASSUME NEW c \in Calls, NEW new \in SUBSET TrustedIds, Replaces(c, new)
        PROVE  FailureIsFinal'
    <2>1. ReplacesEffect(c, new)
      BY <1>6, ReplacesPointwise
    <2>2. Live(c) /\ KeyOf(c) \in signers[SessionOf(c)]
      BY <2>1 DEF ReplacesEffect, LiveIsListed
    <2>3. ASSUME failures[SessionOf(c)] > 0
          PROVE  \E k \in signers'[SessionOf(c)] : Orphan(SessionOf(c), k)'
      <3>1. PICK k \in signers[SessionOf(c)] :
               \A d \in Calls : SessionOf(d) = SessionOf(c) /\ KeyOf(d) = k => ~Live(d)
        BY <1>1, <2>2, <2>3
      <3>2. k # KeyOf(c) /\ k \notin new
        BY <2>1, <2>2, <3>1 DEF ReplacesEffect
      <3>3. Orphan(SessionOf(c), k)'
        BY <2>1, <3>1, <3>2 DEF ReplacesEffect, Orphan
      <3> QED  BY <3>3 DEF Orphan
    <2>4. ASSUME NEW q \in Sessions, q # SessionOf(c), failures[q] > 0
          PROVE  signers'[q] = {} \/ \E k \in signers'[q] : Orphan(q, k)'
      BY <2>1, <2>4 DEF ReplacesEffect, Orphan
    <2> QED  BY <2>1, <2>3, <2>4 DEF ReplacesEffect, Orphan
  <1>7. ASSUME NEW c \in Calls, NEW gen \in Generations, Adds(c, gen)
        PROVE  FailureIsFinal'
    BY <1>2, <1>7 DEF Adds, AddPiece, TypeOK
  <1>8. ASSUME NEW c \in Calls, Moves(c) PROVE FailureIsFinal'
    BY <1>2, <1>8 DEF Moves, TypeOK
  <1>9. CASE Forgets
    BY <1>2, <1>9 DEF Forgets
  <1>10. CASE UNCHANGED bookVars
    BY <1>2, <1>10 DEF bookVars
  <1> QED  BY <1>3, <1>4, <1>5, <1>6, <1>7, <1>8, <1>9, <1>10 DEF StepOfKind

LEMMA ListStep ==
    ASSUME IInv, StepOfKind
    PROVE  ListIsWorkedOn'
  <1> USE DEF IInv, Bookkeeping, ListIsWorkedOn, Live
  <1>1. \A s \in Sessions, k \in TrustedIds, e \in Epochs :
           /\ <<s, k, e>> \in Calls
           /\ SessionOf(<<s, k, e>>) = s
           /\ KeyOf(<<s, k, e>>) = k
           /\ EpochOf(<<s, k, e>>) = e
    BY DEF Calls, SessionOf, KeyOf, EpochOf
  <1>2. epoch \in Epochs /\ \A s \in Sessions : signers[s] \in SUBSET TrustedIds
    BY DEF TypeOK
  <1>3. ASSUME UNCHANGED <<signers, failures>>,
               \A d \in Calls : Live(d) => Live(d)'
        PROVE  ListIsWorkedOn'
    BY <1>1, <1>2, <1>3
  <1>4. ASSUME NEW s \in Sessions, NEW list \in SUBSET TrustedIds, Starts(s, list)
        PROVE  ListIsWorkedOn'
    <2>1. StartsEffect(s, list)
      BY <1>4, StartsPointwise
    <2>2. ASSUME NEW k \in list PROVE Live(<<s, k, epoch>>)'
      BY <1>1, <1>2, <2>1 DEF StartsEffect
    <2>3. ASSUME NEW q \in Sessions, NEW k \in signers[q], NEW e \in Epochs, q # s,
                 Live(<<q, k, e>>)
          PROVE  Live(<<q, k, e>>)'
      BY <1>1, <1>2, <2>1, <2>3 DEF StartsEffect
    <2> QED  BY <1>2, <2>1, <2>2, <2>3 DEF StartsEffect
  <1>5. ASSUME NEW s \in Sessions, Throws(s) PROVE ListIsWorkedOn'
    BY <1>3, <1>5 DEF Throws
  <1>6. ASSUME NEW c \in Calls, GivesUp(c) PROVE ListIsWorkedOn'
    <2>1. SessionOf(c) \in Sessions /\ failures'[SessionOf(c)] > 0
      BY <1>6, CallParts DEF GivesUp, TypeOK
    <2>2. ASSUME NEW q \in Sessions, NEW k \in signers[q], NEW e \in Epochs,
                 q # SessionOf(c), Live(<<q, k, e>>)
          PROVE  Live(<<q, k, e>>)'
      BY <1>1, <1>2, <1>6, <2>2 DEF GivesUp, TypeOK
    <2>3. /\ signers' = signers
          /\ \A q \in Sessions : q # SessionOf(c) => failures'[q] = failures[q]
      BY <1>6 DEF GivesUp, TypeOK
    <2> QED  BY <2>1, <2>2, <2>3
  <1>7. ASSUME NEW c \in Calls, NEW new \in SUBSET TrustedIds, Replaces(c, new)
        PROVE  ListIsWorkedOn'
    <2>1. ReplacesEffect(c, new)
      BY <1>7, ReplacesPointwise
    <2>2. SessionOf(c) \in Sessions
      BY CallParts
    <2>3. ASSUME NEW k \in new PROVE Live(<<SessionOf(c), k, epoch>>)'
      BY <1>1, <1>2, <2>1, <2>2 DEF ReplacesEffect
    <2>4. ASSUME NEW q \in Sessions, NEW k \in signers[q], NEW e \in Epochs,
                 q # SessionOf(c) \/ k # KeyOf(c), Live(<<q, k, e>>)
          PROVE  Live(<<q, k, e>>)'
      BY <1>1, <1>2, <2>1, <2>4 DEF ReplacesEffect
    <2> QED  BY <1>2, <2>1, <2>2, <2>3, <2>4 DEF ReplacesEffect
  <1>8. ASSUME NEW c \in Calls, NEW gen \in Generations, Adds(c, gen)
        PROVE  ListIsWorkedOn'
    BY <1>3, <1>8 DEF Adds, AddPiece, TypeOK
  <1>9. ASSUME NEW c \in Calls, Moves(c) PROVE ListIsWorkedOn'
    BY <1>3, <1>9 DEF Moves, TypeOK
  <1>10. CASE Forgets
    BY <1>3, <1>10 DEF Forgets
  <1>11. CASE UNCHANGED bookVars
    BY <1>3, <1>11 DEF bookVars
  <1> QED  BY <1>4, <1>5, <1>6, <1>7, <1>8, <1>9, <1>10, <1>11 DEF StepOfKind

(***************************************************************************)
(* The last piece of a session: its keys are then those of the list, and   *)
(* nobody has reported a failure.                                          *)
(***************************************************************************)
LEMMA LastPiece ==
    ASSUME IInv, TypeOK', LiveIsListed', OneLiveCall', PiecesAreSigned', FailureIsFinal',
           NEW c \in Calls, NEW gen \in Generations, AddsEffect(c, gen),
           successes'[SessionOf(c)] > successes[SessionOf(c)]
    PROVE  /\ {KeyOf(fetched'[SessionOf(c)][i].call) : i \in DOMAIN fetched'[SessionOf(c)]}
                  = signers'[SessionOf(c)]
           /\ Len(fetched'[SessionOf(c)]) = Cardinality(signers'[SessionOf(c)])
           /\ failures'[SessionOf(c)] = 0
  <1> DEFINE s == SessionOf(c)
             pieces == fetched'[s]
             list == signers'[s]
  <1>1. s \in Sessions
    BY CallParts
  <1>2. pieces \in Seq(Pieces) /\ list \in SUBSET TrustedIds /\ failures'[s] \in Nat
    BY <1>1 DEF TypeOK
  <1>3. Len(pieces) = Cardinality(list)
    <2>1. successes[s] \in Nat
      BY <1>1 DEF IInv, TypeOK
    <2> QED  BY <2>1 DEF AddsEffect
  <1>4. \A i \in DOMAIN pieces : /\ pieces[i].call \in Calls
                                 /\ SessionOf(pieces[i].call) = s
                                 /\ phase'[pieces[i].call] = "signed"
    <2> SUFFICES ASSUME NEW i \in DOMAIN pieces
                 PROVE  /\ pieces[i].call \in Calls
                        /\ SessionOf(pieces[i].call) = s
                        /\ phase'[pieces[i].call] = "signed"
      OBVIOUS
    <2>1. pieces[i] \in Pieces
      BY <1>2, LenProperties
    <2>2. pieces[i].call \in Calls
      BY <2>1 DEF Pieces
    <2> QED  BY <1>1, <2>2 DEF PiecesAreSigned
  <1>5. \A i \in DOMAIN pieces : KeyOf(pieces[i].call) \in list
    BY <1>4 DEF LiveIsListed, Live
  <1>6. \A i, j \in DOMAIN pieces : KeyOf(pieces[i].call) = KeyOf(pieces[j].call) => i = j
    <2> SUFFICES ASSUME NEW i \in DOMAIN pieces, NEW j \in DOMAIN pieces,
                        KeyOf(pieces[i].call) = KeyOf(pieces[j].call)
                 PROVE  i = j
      OBVIOUS
    <2>1. pieces[i].call = pieces[j].call
      BY <1>4 DEF OneLiveCall, Live
    <2> QED  BY <1>1, <2>1 DEF PiecesAreSigned
  <1>7. {KeyOf(pieces[i].call) : i \in DOMAIN pieces} = list
    <2> HIDE DEF pieces, list
    <2> QED  BY <1>2, <1>3, <1>5, <1>6, PieceCount
  <1>8. failures'[s] = 0
    <2> SUFFICES ASSUME failures'[s] > 0 PROVE FALSE
      BY <1>2
    <2>1. KeyOf(c) \in list
      <3>1. phase'[c] = "signed"
        BY DEF AddsEffect
      <3> QED  BY <3>1 DEF LiveIsListed, Live
    <2>2. PICK k \in list :
             \A d \in Calls : SessionOf(d) = s /\ KeyOf(d) = k => ~Live(d)'
      BY <1>1, <2>1 DEF FailureIsFinal
    <2>3. PICK i \in DOMAIN pieces : KeyOf(pieces[i].call) = k
      BY <1>7
    <2> QED  BY <1>4, <2>2, <2>3 DEF Live
  <1> QED  BY <1>3, <1>7, <1>8

LEMMA VerdictStep ==
    ASSUME IInv, StepOfKind, TypeOK', LiveIsListed', OneLiveCall', PiecesAreSigned',
           FailureIsFinal'
    PROVE  /\ AggregateMatchesList' /\ OneOutcome'
           /\ \A s \in Sessions : successes[s] > 0 =>
                 /\ signers'[s] = signers[s] /\ fetched'[s] = fetched[s]
                 /\ successes'[s] = successes[s] /\ failures'[s] = failures[s]
  <1> DEFINE Kept(s) == /\ signers'[s] = signers[s] /\ fetched'[s] = fetched[s]
                        /\ successes'[s] = successes[s] /\ failures'[s] = failures[s]
             Preserved == /\ AggregateMatchesList' /\ OneOutcome'
                        /\ \A s \in Sessions : successes[s] > 0 => Kept(s)
  <1>1. \A s \in Sessions : successes[s] \in Nat
    BY DEF IInv, TypeOK
  (* A step that leaves signed sessions alone and signs none. *)
  <1>2. ASSUME \A s \in Sessions : successes'[s] = successes[s],
               \A s \in Sessions : successes[s] > 0 => Kept(s)
        PROVE  Preserved
    <2>1. AggregateMatchesList'
      BY <1>2 DEF IInv, AggregateMatchesList
    <2>2. OneOutcome'
      BY <1>1, <1>2 DEF IInv, OneOutcome
    <2> QED  BY <1>2, <2>1, <2>2
  <1>3. ASSUME NEW s \in Sessions, NEW list \in SUBSET TrustedIds, Starts(s, list)
        PROVE  Preserved
    <2>1. StartsEffect(s, list)
      BY <1>3, StartsPointwise DEF IInv
    <2>2. successes[s] = 0
      BY <2>1 DEF StartsEffect, IInv, Bookkeeping, NothingBeforeStart
    <2> QED  BY <1>2, <2>1, <2>2 DEF StartsEffect
  <1>4. ASSUME NEW s \in Sessions, Throws(s) PROVE Preserved
    BY <1>2, <1>4 DEF Throws
  <1>5. ASSUME NEW c \in Calls, phase[c] \in {"requested", "fetching"}
        PROVE  SessionOf(c) \in Sessions /\ successes[SessionOf(c)] = 0
    <2>1. SessionOf(c) \in Sessions
      BY CallParts
    <2>2. ~(successes[SessionOf(c)] > 0)
      BY <1>5, SessionSettled
    <2> QED  BY <1>1, <2>1, <2>2
  <1>6. ASSUME NEW c \in Calls, GivesUp(c) PROVE Preserved
    <2>1. successes[SessionOf(c)] = 0
      BY <1>5, <1>6 DEF GivesUp, Pending
    <2>2. /\ UNCHANGED <<signers, fetched, successes>>
          /\ \A q \in Sessions : q # SessionOf(c) => failures'[q] = failures[q]
      BY <1>6 DEF GivesUp, IInv, TypeOK
    <2> QED  BY <1>2, <2>1, <2>2
  <1>7. ASSUME NEW c \in Calls, NEW new \in SUBSET TrustedIds, Replaces(c, new)
        PROVE  Preserved
    <2>1. ReplacesEffect(c, new)
      BY <1>7, ReplacesPointwise DEF IInv
    <2>2. successes[SessionOf(c)] = 0
      BY <1>5, <2>1 DEF ReplacesEffect
    <2> QED  BY <1>2, <2>1, <2>2 DEF ReplacesEffect
  <1>8. ASSUME NEW c \in Calls, NEW gen \in Generations, Adds(c, gen) PROVE Preserved
    <2>1. AddsEffect(c, gen)
      BY <1>8, AddsPointwise DEF IInv
    <2>2. SessionOf(c) \in Sessions /\ successes[SessionOf(c)] = 0
      BY <1>5, <2>1 DEF AddsEffect
    <2>3. ASSUME NEW s \in Sessions, s # SessionOf(c) PROVE Kept(s)
      BY <2>1, <2>3 DEF AddsEffect
    <2>4. CASE successes'[SessionOf(c)] > successes[SessionOf(c)]
      <3>1. /\ {KeyOf(fetched'[SessionOf(c)][i].call) : i \in DOMAIN fetched'[SessionOf(c)]}
                   = signers'[SessionOf(c)]
            /\ Len(fetched'[SessionOf(c)]) = Cardinality(signers'[SessionOf(c)])
            /\ failures'[SessionOf(c)] = 0
        BY <2>1, <2>4, LastPiece
      <3>2. successes'[SessionOf(c)] = 1
        BY <2>1, <2>2, <2>4 DEF AddsEffect
      <3>3. AggregateMatchesList'
        BY <2>3, <3>1 DEF IInv, AggregateMatchesList
      <3>4. OneOutcome'
        BY <2>3, <3>1, <3>2 DEF IInv, OneOutcome
      <3> QED  BY <2>2, <2>3, <3>3, <3>4
    <2>5. CASE ~(successes'[SessionOf(c)] > successes[SessionOf(c)])
      <3>1. successes'[SessionOf(c)] = 0
        BY <2>1, <2>2, <2>5 DEF AddsEffect
      <3> QED  BY <1>2, <2>2, <2>3, <3>1
    <2> QED  BY <2>4, <2>5
  <1>9. ASSUME NEW c \in Calls, Moves(c) PROVE Preserved
    BY <1>2, <1>9 DEF Moves
  <1>10. CASE Forgets
    BY <1>2, <1>10 DEF Forgets
  <1>11. CASE UNCHANGED bookVars
    BY <1>2, <1>11 DEF bookVars
  <1> QED  BY <1>3, <1>4, <1>6, <1>7, <1>8, <1>9, <1>10, <1>11 DEF StepOfKind

-----------------------------------------------------------------------------
(***************************************************************************)
(* The invariant holds at the start and is kept by every step.             *)
(***************************************************************************)
LEMMA InvInit == Init => IInv
  <1> SUFFICES ASSUME Init PROVE IInv
    OBVIOUS
  <1>1. TypeOK /\ StateKept
    BY TypeInit
  <1>2. \A c \in Calls : SessionOf(c) \in Sessions
    BY CallParts
  <1>3. \A s \in Sessions : fetched[s] = <<>> /\ DOMAIN fetched[s] = {}
    BY DEF Init, InitiatorInit
  <1>4. Bookkeeping
    BY <1>2, <1>3 DEF Init, InitiatorInit, Bookkeeping, StartedCalls, NothingBeforeStart,
                      LiveIsListed, OneLiveCall, PiecesAreSigned, FailureIsFinal, Live
  <1>5. AggregateMatchesList /\ OneOutcome /\ ListIsWorkedOn
    BY DEF Init, InitiatorInit, AggregateMatchesList, OneOutcome, ListIsWorkedOn
  <1> QED  BY <1>1, <1>4, <1>5 DEF IInv

LEMMA InvStep == IInv /\ [Next]_vars => IInv'
  <1> SUFFICES ASSUME IInv, [Next]_vars PROVE IInv'
    OBVIOUS
  <1>1. TypeOK' /\ StateKept'
    BY TypeStep, StateKeptStep DEF IInv
  <1>2. StepOfKind
    BY StepKinds DEF IInv
  <1>3. StartedCalls' /\ NothingBeforeStart'
    BY <1>1, <1>2, StartedCallsStep
  <1>4. LiveIsListed' /\ OneLiveCall'
    BY <1>2, LiveCallsStep
  <1>5. PiecesAreSigned' /\ FailureIsFinal'
    BY <1>2, PiecesStep, FailureStep
  <1>6. ListIsWorkedOn'
    BY <1>2, ListStep
  <1>7. AggregateMatchesList' /\ OneOutcome'
    BY <1>1, <1>2, <1>4, <1>5, VerdictStep
  <1> QED  BY <1>1, <1>3, <1>4, <1>5, <1>6, <1>7 DEF IInv, Bookkeeping

LEMMA InvHolds == Spec => []IInv
  BY InvInit, InvStep, PTL DEF Spec

(***************************************************************************)
(* The bookkeeping of the RPCs is consistent at all times.                 *)
(***************************************************************************)
THEOREM BookkeepingHolds == Spec => []Bookkeeping
  <1>1. IInv => Bookkeeping
    BY DEF IInv
  <1> QED  BY <1>1, InvHolds, PTL

(***************************************************************************)
(* m_successCb hands over an aggregate of exactly one piece of each key of *)
(* the signer list, although the code compares sizes only.                 *)
(***************************************************************************)
THEOREM AggregateCorrect == Spec => []AggregateMatchesList
  <1>1. IInv => AggregateMatchesList
    BY DEF IInv
  <1> QED  BY <1>1, InvHolds, PTL

(***************************************************************************)
(* m_successCb is called at most once, and never together with             *)
(* m_failureCb.                                                            *)
(***************************************************************************)
THEOREM OutcomeUnique == Spec => []OneOutcome
  <1>1. IInv => OneOutcome
    BY DEF IInv
  <1> QED  BY <1>1, InvHolds, PTL

(***************************************************************************)
(* No key stays on a list without an RPC unless m_failureCb was called.    *)
(***************************************************************************)
THEOREM NobodyForgotten == Spec => []ListIsWorkedOn
  <1>1. IInv => ListIsWorkedOn
    BY DEF IInv
  <1> QED  BY <1>1, InvHolds, PTL

(***************************************************************************)
(* A signed session never changes any more.                                *)
(***************************************************************************)
THEOREM ResultIsFrozen == Spec => ResultFrozen
  <1> DEFINE Frozen == \A s \in Sessions :
                          successes[s] > 0 =>
                              /\ signers'[s] = signers[s] /\ fetched'[s] = fetched[s]
                              /\ successes'[s] = successes[s] /\ failures'[s] = failures[s]
  <1>1. IInv /\ IInv' /\ [Next]_vars => Frozen
    <2> SUFFICES ASSUME IInv, IInv', [Next]_vars PROVE Frozen
      OBVIOUS
    <2>1. StepOfKind
      BY StepKinds DEF IInv
    <2>2. TypeOK' /\ LiveIsListed' /\ OneLiveCall' /\ PiecesAreSigned' /\ FailureIsFinal'
      BY DEF IInv, Bookkeeping
    <2> QED  BY <2>1, <2>2, VerdictStep
  <1>2. IInv /\ IInv' /\ [Next]_vars => [Frozen]_vars
    BY <1>1
  <1>3. ResultFrozen <=> [][Frozen]_vars
    BY DEF ResultFrozen
  <1> QED  BY <1>2, <1>3, InvHolds, PTL DEF Spec

(***************************************************************************)
(* The calls a step starts are fresh.                                      *)
(***************************************************************************)
Fresh(c) ==
    /\ phase[c] = "none"
    /\ KeyOf(c) \in signers'[SessionOf(c)]
    /\ KeyOf(c) \notin unavailable'
    /\ \A d \in Calls : SessionOf(d) = SessionOf(c) /\ KeyOf(d) = KeyOf(c) => ~Live(d)

LEMMA RecruitStep ==
    ASSUME IInv, [Next]_vars, NEW c \in Calls,
           phase[c] # "requested", phase'[c] = "requested"
    PROVE  Fresh(c)
  <1>1. StepOfKind
    BY StepKinds DEF IInv
  <1>2. SessionOf(c) \in Sessions
    BY CallParts
  <1>3. ASSUME NEW s \in Sessions, NEW list \in SUBSET TrustedIds, Starts(s, list)
        PROVE  Fresh(c)
    <2>1. StartsEffect(s, list)
      BY <1>3, StartsPointwise DEF IInv
    <2>2. SessionOf(c) = s /\ KeyOf(c) \in list
      BY <2>1 DEF StartsEffect
    <2> QED  BY <2>1, <2>2 DEF StartsEffect, IInv, Bookkeeping, StartedCalls, Live, Fresh
  <1>4. ASSUME NEW b \in Calls, NEW new \in SUBSET TrustedIds, Replaces(b, new)
        PROVE  Fresh(c)
    <2>1. ReplacesEffect(b, new)
      BY <1>4, ReplacesPointwise DEF IInv
    <2>2. SessionOf(c) = SessionOf(b) /\ KeyOf(c) \in new /\ EpochOf(c) = epoch
      BY <2>1 DEF ReplacesEffect
    <2>3. \A d \in Calls : SessionOf(d) = SessionOf(c) /\ KeyOf(d) = KeyOf(c) => ~Live(d)
      BY <2>1, <2>2 DEF ReplacesEffect, IInv, Bookkeeping, LiveIsListed
    <2>4. phase[c] = "none"
      BY <2>1, <2>2, <2>3 DEF ReplacesEffect, IInv, Bookkeeping, StartedCalls, Live
    <2> QED  BY <2>1, <2>2, <2>3, <2>4 DEF ReplacesEffect, Fresh
  <1>5. ASSUME NEW s \in Sessions, Throws(s) PROVE FALSE
    BY <1>5 DEF Throws
  <1>6. ASSUME NEW b \in Calls, GivesUp(b) PROVE FALSE
    BY <1>6 DEF GivesUp, IInv, TypeOK
  <1>7. ASSUME NEW b \in Calls, NEW gen \in Generations, Adds(b, gen) PROVE FALSE
    BY <1>7 DEF Adds, AddPiece, IInv, TypeOK
  <1>8. ASSUME NEW b \in Calls, Moves(b) PROVE FALSE
    BY <1>8 DEF Moves, IInv, TypeOK
  <1>9. ~Forgets /\ ~UNCHANGED bookVars
    BY DEF Forgets, bookVars
  <1> QED  BY <1>1, <1>3, <1>4, <1>5, <1>6, <1>7, <1>8, <1>9 DEF StepOfKind

(***************************************************************************)
(* performRPC is called only for keys of the new list that are neither     *)
(* cached as unavailable nor being worked on already.                      *)
(***************************************************************************)
THEOREM RecruitsFresh == Spec => RecruitsAreFresh
  <1> DEFINE AllFresh == \A c \in Calls :
                            phase[c] # "requested" /\ phase'[c] = "requested" => Fresh(c)
  <1>1. IInv /\ [Next]_vars => [AllFresh]_vars
    BY RecruitStep
  <1>2. RecruitsAreFresh <=> [][AllFresh]_vars
    BY DEF RecruitsAreFresh, Fresh
  <1> QED  BY <1>1, <1>2, InvHolds, PTL DEF Spec

=============================================================================

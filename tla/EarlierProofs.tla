--------------------------- MODULE EarlierProofs ----------------------------
(***************************************************************************)
(* Proof that the earlier implementation calls back once, and only with    *)
(* what is genuine and sufficient, for every set of sessions, keys, faulty *)
(* signers and rules.                                                      *)
(***************************************************************************)
EXTENDS EarlierSigning, TLAPS

TypeOK ==
    /\ known \subseteq Keys
    /\ record \in [Sessions -> {"new", "open", "over"}]
    /\ available \in [Sessions -> SUBSET Keys]
    /\ pieces \in [Sessions -> SUBSET (Keys \X Sessions)]
    /\ stage \in [Calls -> Stages]
    /\ successes \in [Sessions -> Nat]
    /\ failures \in [Sessions -> Nat]

Delivered(s) == {p[1] : p \in pieces[s]}
Live(c) == stage[c] \in {"requested", "asked"}

(***************************************************************************)
(* A key is asked once, so one that is lost has not delivered a piece and  *)
(* one that delivers has not been lost: that is why the chain of callbacks *)
(* of a call has to be part of the invariant.                              *)
(***************************************************************************)
NotStarted(s) ==
    record[s] = "new" => pieces[s] = {} /\ \A k \in Keys : stage[<<s, k>>] = "none"
OneVerdict(s) ==
    successes[s] + failures[s] = IF record[s] = "over" THEN 1 ELSE 0
OwnPieces(s) ==
    \A p \in pieces[s] : p[2] = s /\ stage[<<s, p[1]>>] = "ended"
CanSucceed(s) ==
    record[s] = "open" => Enough(s, available[s]) /\ Delivered(s) \subseteq available[s]
AskedIsAvailable(s) ==
    record[s] = "open" => \A k \in Keys : Live(<<s, k>>) => k \in available[s]
SignedIsEnough(s) ==
    successes[s] > 0 => Enough(s, Delivered(s))

SessionInv(s) ==
    /\ NotStarted(s)
    /\ OneVerdict(s)
    /\ OwnPieces(s)
    /\ CanSucceed(s)
    /\ AskedIsAvailable(s)
    /\ SignedIsEnough(s)

IInv == TypeOK /\ \A s \in Sessions : SessionInv(s)

-----------------------------------------------------------------------------
LEMMA CallParts ==
    /\ \A c \in Calls : /\ SessionOf(c) \in Sessions /\ KeyOf(c) \in Keys
                        /\ c = <<SessionOf(c), KeyOf(c)>>
    /\ \A s \in Sessions, k \in Keys : /\ <<s, k>> \in Calls
                                       /\ SessionOf(<<s, k>>) = s
                                       /\ KeyOf(<<s, k>>) = k
  BY DEF Calls, SessionOf, KeyOf

(***************************************************************************)
(* What the steps do to the sessions.  Every action is of one of these     *)
(* kinds.                                                                  *)
(***************************************************************************)
bookVars == <<record, available, pieces, stage, successes, failures>>

(* multiPartySign with the keys that will be asked. *)
Starts(s, keys) ==
    /\ record[s] = "new"
    /\ Enough(s, keys)
    /\ record' = [record EXCEPT ![s] = "open"]
    /\ available' = [available EXCEPT ![s] = keys]
    /\ stage' = [c \in Calls |-> IF c \in {s} \X keys THEN "requested" ELSE stage[c]]
    /\ UNCHANGED <<pieces, successes, failures>>

(* multiPartySign without enough keys, and the timer without enough pieces. *)
Fails(s) ==
    /\ record[s] \in {"new", "open"}
    /\ record' = [record EXCEPT ![s] = "over"]
    /\ failures' = [failures EXCEPT ![s] = @ + 1]
    /\ UNCHANGED <<available, pieces, stage, successes>>

(* A call goes on or ends without consequences. *)
Moves(c, st) ==
    /\ Live(c)
    /\ st \in {"asked", "ended"}
    /\ stage' = [stage EXCEPT ![c] = st]
    /\ UNCHANGED <<record, available, pieces, successes, failures>>

Loses(c) ==
    /\ Live(c)
    /\ stage' = [stage EXCEPT ![c] = "ended"]
    /\ Lose(SessionOf(c), KeyOf(c))
    /\ UNCHANGED <<pieces, successes>>

Delivers(c) ==
    /\ Live(c)
    /\ record[SessionOf(c)] = "open"
    /\ stage' = [stage EXCEPT ![c] = "ended"]
    /\ AddPiece(c, SessionOf(c))

(* The timer with enough pieces. *)
Succeeds(s) ==
    /\ record[s] = "open"
    /\ Enough(s, Delivered(s))
    /\ record' = [record EXCEPT ![s] = "over"]
    /\ successes' = [successes EXCEPT ![s] = @ + 1]
    /\ UNCHANGED <<available, pieces, stage, failures>>

StepOfKind ==
    \/ \E s \in Sessions, keys \in SUBSET Keys : Starts(s, keys)
    \/ \E s \in Sessions : Fails(s)
    \/ \E c \in Calls, st \in Stages : Moves(c, st)
    \/ \E c \in Calls : Loses(c)
    \/ \E c \in Calls : Delivers(c)
    \/ \E s \in Sessions : Succeeds(s)
    \/ UNCHANGED bookVars

LEMMA StepKinds ==
    ASSUME TypeOK, [Next]_vars
    PROVE  /\ StepOfKind
           /\ known' \subseteq Keys
  <1> USE DEF TypeOK
  <1> DEFINE Goal == StepOfKind /\ known' \subseteq Keys
  <1> SUFFICES Goal
    OBVIOUS
  <1>1. ASSUME NEW k \in Keys, AddSigner(k) PROVE Goal
    BY <1>1 DEF AddSigner, StepOfKind, bookVars
  <1>2. ASSUME NEW s \in Sessions, MultiPartySign(s) PROVE Goal
    <2> DEFINE keys == {k \in known : KeyMatches(s, k)}
    <2>1. keys \in SUBSET Keys
      OBVIOUS
    <2>2. CASE Enough(s, keys)
      <3>1. Starts(s, keys)
        BY <1>2, <2>2 DEF MultiPartySign, Starts
      <3> HIDE DEF keys
      <3> QED  BY <1>2, <2>1, <3>1 DEF MultiPartySign, StepOfKind
    <2>3. CASE ~Enough(s, keys)
      <3>1. Fails(s)
        BY <1>2, <2>3 DEF MultiPartySign, Fails
      <3> QED  BY <1>2, <3>1 DEF MultiPartySign, StepOfKind
    <2> QED  BY <2>2, <2>3
  <1>3. ASSUME NEW c \in Calls, NEW named \in BOOLEAN, OnAck(c, named) PROVE Goal
    <2>1. Moves(c, "asked") \/ Moves(c, "ended")
      BY <1>3 DEF OnAck, SchedulePull, EndChain, Unchanged, Moves, Live
    <2> QED  BY <1>3, <2>1 DEF OnAck, SchedulePull, Unchanged, StepOfKind, Stages
  <1>4. ASSUME NEW c \in Calls, NEW result, OnAnswer(c, result) PROVE Goal
    <2>1. known' = known
      BY <1>4 DEF OnAnswer, SchedulePull, Unchanged, AddPiece, KeyLossTimeout
    <2>2. Moves(c, "asked") \/ Moves(c, "ended") \/ Loses(c) \/ Delivers(c)
      BY <1>4 DEF OnAnswer, SchedulePull, EndChain, Unchanged, KeyLossTimeout,
                  VerifySignaturePiece, Moves, Loses, Delivers, Live
    <2> QED  BY <2>1, <2>2 DEF StepOfKind, Stages
  <1>5. ASSUME NEW c \in Calls, InterestFails(c) PROVE Goal
    <2>1. Loses(c) /\ known' = known
      BY <1>5 DEF InterestFails, KeyLossTimeout, Loses, Live
    <2> QED  BY <2>1 DEF StepOfKind
  <1>6. ASSUME NEW s \in Sessions, OnSignTimeout(s) PROVE Goal
    <2>1. Fails(s) \/ Succeeds(s) \/ UNCHANGED bookVars
      BY <1>6 DEF OnSignTimeout, SuccessCleanup, FailAtTimeout, Fails, Succeeds,
                  Delivered, bookVars
    <2> QED  BY <1>6, <2>1 DEF OnSignTimeout, StepOfKind
  <1>7. ASSUME UNCHANGED initiatorVars PROVE Goal
    BY <1>7 DEF initiatorVars, StepOfKind, bookVars
  <1>8. CASE InitiatorStep
    <2> HIDE DEF Goal
    <2>1. ASSUME NEW c \in Calls, OnWrapperFetch(c) PROVE Goal
      BY <1>7, <2>1 DEF OnWrapperFetch
    <2> QED  BY <1>1, <1>2, <1>3, <1>4, <1>5, <1>8, <2>1 DEF InitiatorStep
  <1>9. CASE SignerStep
    BY <1>7, <1>9 DEF SignerStep
  <1>10. CASE UNCHANGED vars
    BY <1>7, <1>10 DEF vars
  <1> HIDE DEF Goal
  <1> QED  BY <1>6, <1>8, <1>9, <1>10 DEF Next

-----------------------------------------------------------------------------
LEMMA TypeStep ==
    ASSUME TypeOK, [Next]_vars
    PROVE  TypeOK'
  <1> USE DEF TypeOK
  <1>1. StepOfKind /\ known' \subseteq Keys
    BY StepKinds
  <1>2. ASSUME NEW s \in Sessions, NEW keys \in SUBSET Keys, Starts(s, keys) PROVE TypeOK'
    BY <1>1, <1>2 DEF Starts, Stages
  <1>3. ASSUME NEW s \in Sessions, Fails(s) PROVE TypeOK'
    BY <1>1, <1>3 DEF Fails
  <1>4. ASSUME NEW c \in Calls, NEW st \in Stages, Moves(c, st) PROVE TypeOK'
    BY <1>1, <1>4 DEF Moves
  <1>5. ASSUME NEW c \in Calls, Loses(c) PROVE TypeOK'
    <2>1. /\ SessionOf(c) \in Sessions
          /\ stage' \in [Calls -> Stages]
      BY <1>5, CallParts DEF Loses, Stages
    <2>2. /\ record' \in [Sessions -> {"new", "open", "over"}]
          /\ available' \in [Sessions -> SUBSET Keys]
          /\ failures' \in [Sessions -> Nat]
      BY <1>5, <2>1 DEF Loses, Lose
    <2> QED  BY <1>1, <1>5, <2>1, <2>2 DEF Loses
  <1>6. ASSUME NEW c \in Calls, Delivers(c) PROVE TypeOK'
    <2> DEFINE s == SessionOf(c)
    <2>1. s \in Sessions /\ KeyOf(c) \in Keys
      BY CallParts
    <2>2. /\ record' \in [Sessions -> {"new", "open", "over"}]
          /\ successes' \in [Sessions -> Nat]
      BY <1>6, <2>1 DEF Delivers, AddPiece, SuccessCleanup
    <2>3. pieces' \in [Sessions -> SUBSET (Keys \X Sessions)]
      <3>1. pieces' = [pieces EXCEPT ![s] = pieces[s] \cup {<<KeyOf(c), s>>}]
        BY <1>6 DEF Delivers, AddPiece
      <3> QED  BY <2>1, <3>1
    <2> QED  BY <1>1, <1>6, <2>2, <2>3 DEF Delivers, AddPiece, Stages
  <1>7. ASSUME NEW s \in Sessions, Succeeds(s) PROVE TypeOK'
    BY <1>1, <1>7 DEF Succeeds
  <1>8. CASE UNCHANGED bookVars
    BY <1>1, <1>8 DEF bookVars
  <1> QED  BY <1>1, <1>2, <1>3, <1>4, <1>5, <1>6, <1>7, <1>8 DEF StepOfKind

(***************************************************************************)
(* A session whose record, pieces and calls a step leaves alone.           *)
(***************************************************************************)
Untouched(s) ==
    /\ record'[s] = record[s]
    /\ available'[s] = available[s]
    /\ pieces'[s] = pieces[s]
    /\ \A k \in Keys : stage'[<<s, k>>] = stage[<<s, k>>]
    /\ successes'[s] = successes[s]
    /\ failures'[s] = failures[s]

LEMMA UntouchedKeeps ==
    ASSUME TypeOK, NEW s \in Sessions, SessionInv(s), Untouched(s)
    PROVE  SessionInv(s)'
  <1>1. Delivered(s)' = Delivered(s)
    BY DEF Untouched, Delivered
  <1>2. \A p \in pieces[s] : p[1] \in Keys
    BY DEF TypeOK
  <1>3. NotStarted(s)' /\ OneVerdict(s)'
    BY DEF SessionInv, NotStarted, OneVerdict, Untouched
  <1>4. OwnPieces(s)'
    BY <1>2 DEF SessionInv, OwnPieces, Untouched
  <1>5. CanSucceed(s)' /\ SignedIsEnough(s)'
    BY <1>1 DEF SessionInv, CanSucceed, SignedIsEnough, Untouched, Enough
  <1>6. AskedIsAvailable(s)'
    BY DEF SessionInv, AskedIsAvailable, Untouched, Live
  <1> QED  BY <1>3, <1>4, <1>5, <1>6 DEF SessionInv

LEMMA OthersUntouched ==
    ASSUME TypeOK, NEW s \in Sessions, NEW q \in Sessions, q # s,
           \/ \E keys \in SUBSET Keys : Starts(s, keys)
           \/ Fails(s)
           \/ Succeeds(s)
           \/ \E c \in Calls : /\ SessionOf(c) = s
                               /\ \/ \E st \in Stages : Moves(c, st)
                                  \/ Loses(c)
                                  \/ Delivers(c)
    PROVE  Untouched(q)
  <1>1. ASSUME NEW keys \in SUBSET Keys, Starts(s, keys) PROVE Untouched(q)
    BY <1>1, CallParts DEF Starts, TypeOK, Untouched
  <1>2. CASE Fails(s) \/ Succeeds(s)
    BY <1>2 DEF Fails, Succeeds, TypeOK, Untouched
  <1>3. ASSUME NEW c \in Calls, SessionOf(c) = s,
               (\E st \in Stages : Moves(c, st)) \/ Loses(c) \/ Delivers(c)
        PROVE  Untouched(q)
    <2>1. \A k \in Keys : <<q, k>> \in Calls /\ <<q, k>> # c
      BY <1>3, CallParts
    <2>2. \A k \in Keys : stage'[<<q, k>>] = stage[<<q, k>>]
      BY <1>3, <2>1 DEF Moves, Loses, Delivers, TypeOK
    <2>3. CASE \E st \in Stages : Moves(c, st)
      BY <2>2, <2>3 DEF Moves, Untouched
    <2>4. CASE Loses(c)
      BY <1>3, <2>2, <2>4 DEF Loses, Lose, TypeOK, Untouched
    <2>5. CASE Delivers(c)
      BY <1>3, <2>2, <2>5 DEF Delivers, AddPiece, SuccessCleanup, TypeOK, Untouched
    <2> QED  BY <1>3, <2>3, <2>4, <2>5
  <1> QED  BY <1>1, <1>2, <1>3

-----------------------------------------------------------------------------
(* The session that a step is about, by the kind of the step. *)

LEMMA StartsKeeps ==
    ASSUME TypeOK, NEW s \in Sessions, NEW keys \in SUBSET Keys, SessionInv(s),
           Starts(s, keys)
    PROVE  SessionInv(s)'
  <1>1. /\ record[s] = "new" /\ record'[s] = "open"
        /\ available'[s] = keys
        /\ pieces'[s] = {} /\ pieces[s] = {}
        /\ successes'[s] = successes[s] /\ failures'[s] = failures[s]
    BY DEF Starts, TypeOK, SessionInv, NotStarted
  <1>2. \A k \in Keys : stage'[<<s, k>>] = IF k \in keys THEN "requested" ELSE "none"
    BY CallParts DEF Starts, SessionInv, NotStarted
  <1>3. OneVerdict(s)'
    BY <1>1 DEF SessionInv, OneVerdict
  <1>4. CanSucceed(s)'
    BY <1>1 DEF CanSucceed, Delivered, Enough, Starts
  <1>5. AskedIsAvailable(s)'
    BY <1>1, <1>2 DEF AskedIsAvailable, Live
  <1>6. SignedIsEnough(s)'
    BY <1>1 DEF SessionInv, OneVerdict, SignedIsEnough, TypeOK
  <1> QED  BY <1>1, <1>3, <1>4, <1>5, <1>6 DEF SessionInv, NotStarted, OwnPieces

LEMMA FailsKeeps ==
    ASSUME TypeOK, NEW s \in Sessions, SessionInv(s), Fails(s)
    PROVE  SessionInv(s)'
  <1>1. /\ record[s] # "over" /\ record'[s] = "over"
        /\ successes'[s] = successes[s] /\ failures'[s] = failures[s] + 1
        /\ pieces' = pieces /\ stage' = stage
    BY DEF Fails, TypeOK
  <1>2. OneVerdict(s)' /\ successes[s] = 0
    BY <1>1 DEF SessionInv, OneVerdict, TypeOK
  <1> QED  BY <1>1, <1>2 DEF SessionInv, NotStarted, OwnPieces, CanSucceed,
              AskedIsAvailable, SignedIsEnough

LEMMA SucceedsKeeps ==
    ASSUME TypeOK, NEW s \in Sessions, SessionInv(s), Succeeds(s)
    PROVE  SessionInv(s)'
  <1>1. /\ record[s] # "over" /\ record'[s] = "over"
        /\ successes'[s] = successes[s] + 1 /\ failures'[s] = failures[s]
        /\ pieces' = pieces /\ stage' = stage
    BY DEF Succeeds, TypeOK
  <1>2. OneVerdict(s)'
    BY <1>1 DEF SessionInv, OneVerdict, TypeOK
  <1>3. SignedIsEnough(s)'
    BY <1>1 DEF Succeeds, SignedIsEnough, Delivered, Enough
  <1> QED  BY <1>1, <1>2, <1>3 DEF SessionInv, NotStarted, OwnPieces, CanSucceed,
              AskedIsAvailable

(***************************************************************************)
(* What a step that takes the call of the key k to st does to the calls of *)
(* the session: the others stay where they are, and those with a piece     *)
(* were not among the calls that could move.                               *)
(***************************************************************************)
CallMoved(s, k, st) ==
    /\ record[s] # "new"
    /\ stage'[<<s, k>>] = st
    /\ k \notin Delivered(s)
    /\ \A p \in pieces[s] : p[2] = s /\ stage'[<<s, p[1]>>] = "ended"
    /\ \A j \in Keys :
          stage'[<<s, j>>] \in {"requested", "asked"} =>
              Live(<<s, j>>) /\ (j # k \/ st = "asked")
    /\ record[s] = "open" => k \in available[s]

LEMMA StageChanges ==
    ASSUME TypeOK, NEW c \in Calls, NEW st \in {"asked", "ended"}, Live(c),
           stage' = [stage EXCEPT ![c] = st], SessionInv(SessionOf(c))
    PROVE  CallMoved(SessionOf(c), KeyOf(c), st)
  <1> DEFINE s == SessionOf(c)
  <1>1. /\ s \in Sessions /\ KeyOf(c) \in Keys /\ c = <<s, KeyOf(c)>>
        /\ \A k \in Keys : <<s, k>> \in Calls /\ (k # KeyOf(c) => <<s, k>> # c)
    BY CallParts
  <1>2. stage'[<<s, KeyOf(c)>>] = st
    BY <1>1 DEF TypeOK
  <1>3. \A k \in Keys : k # KeyOf(c) => stage'[<<s, k>>] = stage[<<s, k>>]
    BY <1>1 DEF TypeOK
  <1>4. record[s] # "new"
    BY <1>1 DEF SessionInv, NotStarted, Live
  <1>5. \A p \in pieces[s] : p[1] \in Keys /\ p[2] = s /\ p[1] # KeyOf(c)
                             /\ stage[<<s, p[1]>>] = "ended"
    BY <1>1 DEF SessionInv, OwnPieces, Live, TypeOK
  <1>6. KeyOf(c) \notin Delivered(s)
    BY <1>5 DEF Delivered
  <1>7. \A p \in pieces[s] : p[2] = s /\ stage'[<<s, p[1]>>] = "ended"
    BY <1>3, <1>5
  <1>8. \A k \in Keys : stage'[<<s, k>>] \in {"requested", "asked"} =>
                            Live(<<s, k>>) /\ (k # KeyOf(c) \/ st = "asked")
    BY <1>1, <1>2, <1>3 DEF Live
  <1>9. record[s] = "open" => KeyOf(c) \in available[s]
    BY <1>1 DEF SessionInv, AskedIsAvailable, Live
  <1> QED  BY <1>2, <1>4, <1>6, <1>7, <1>8, <1>9 DEF CallMoved

LEMMA MovesKeeps ==
    ASSUME TypeOK, NEW c \in Calls, NEW st, SessionInv(SessionOf(c)), Moves(c, st)
    PROVE  SessionInv(SessionOf(c))'
  <1> DEFINE s == SessionOf(c)
             k == KeyOf(c)
  <1>1. CallMoved(s, k, st)
    BY StageChanges DEF Moves
  <1>2. UNCHANGED <<record, available, pieces, successes, failures>> /\ SessionInv(s)
    BY DEF Moves
  <1> SUFFICES SessionInv(s)'
    OBVIOUS
  <1> HIDE DEF s, k
  <1>3. Delivered(s)' = Delivered(s)
    BY <1>2 DEF Delivered
  <1>4. NotStarted(s)' /\ OneVerdict(s)' /\ OwnPieces(s)'
    BY <1>1, <1>2 DEF CallMoved, SessionInv, NotStarted, OneVerdict, OwnPieces
  <1>5. CanSucceed(s)' /\ SignedIsEnough(s)'
    BY <1>2, <1>3 DEF SessionInv, CanSucceed, SignedIsEnough, Enough
  <1>6. AskedIsAvailable(s)'
    BY <1>1, <1>2 DEF CallMoved, SessionInv, AskedIsAvailable, Live
  <1> QED  BY <1>4, <1>5, <1>6 DEF SessionInv

(***************************************************************************)
(* The key that is lost has no piece, so the pieces are still of keys that *)
(* are available; and either those suffice or the session fails.           *)
(***************************************************************************)
LEMMA LosesKeeps ==
    ASSUME TypeOK, NEW c \in Calls, SessionInv(SessionOf(c)), Loses(c)
    PROVE  SessionInv(SessionOf(c))'
  <1> DEFINE s == SessionOf(c)
             k == KeyOf(c)
  <1>1. CallMoved(s, k, "ended")
    BY StageChanges DEF Loses
  <1>2. /\ s \in Sessions /\ k \in Keys /\ SessionInv(s) /\ Lose(s, k)
        /\ UNCHANGED <<pieces, successes>>
    BY CallParts DEF Loses
  <1> SUFFICES SessionInv(s)'
    OBVIOUS
  <1> HIDE DEF s, k
  <1>3. Delivered(s)' = Delivered(s)
    BY <1>2 DEF Delivered
  <1>4. CASE record[s] # "open"
    <2>1. UNCHANGED <<record, available, failures>>
      BY <1>2, <1>4 DEF Lose
    <2> QED  BY <1>1, <1>2, <1>3, <1>4, <2>1 DEF SessionInv, NotStarted, OneVerdict,
                OwnPieces, CanSucceed, AskedIsAvailable, SignedIsEnough, CallMoved, Enough
  <1>5. CASE record[s] = "open"
    <2>1. /\ available'[s] = available[s] \ {k}
          /\ IF Enough(s, available'[s])
             THEN UNCHANGED <<record, failures>>
             ELSE record'[s] = "over" /\ failures'[s] = failures[s] + 1
      BY <1>1, <1>2, <1>5 DEF Lose, CallMoved, TypeOK
    <2>2. successes[s] = 0 /\ failures[s] = 0
      BY <1>2, <1>5 DEF SessionInv, OneVerdict, TypeOK
    <2>3. OneVerdict(s)' /\ SignedIsEnough(s)'
      BY <1>2, <1>5, <2>1, <2>2 DEF OneVerdict, SignedIsEnough
    <2>4. NotStarted(s)' /\ OwnPieces(s)'
      BY <1>1, <1>2, <1>5, <2>1 DEF CallMoved, NotStarted, OwnPieces
    <2>5. CanSucceed(s)'
      BY <1>1, <1>2, <1>3, <1>5, <2>1 DEF CallMoved, SessionInv, CanSucceed, Enough
    <2>6. AskedIsAvailable(s)'
      BY <1>1, <1>2, <1>5, <2>1 DEF CallMoved, SessionInv, AskedIsAvailable, Live
    <2> QED  BY <2>3, <2>4, <2>5, <2>6 DEF SessionInv
  <1> QED  BY <1>4, <1>5

LEMMA DeliversKeeps ==
    ASSUME TypeOK, NEW c \in Calls, SessionInv(SessionOf(c)), Delivers(c)
    PROVE  SessionInv(SessionOf(c))'
  <1> DEFINE s == SessionOf(c)
             k == KeyOf(c)
  <1>1. CallMoved(s, k, "ended")
    BY StageChanges DEF Delivers
  <1>2. /\ s \in Sessions /\ k \in Keys /\ SessionInv(s) /\ record[s] = "open"
        /\ UNCHANGED <<available, failures>>
    BY CallParts DEF Delivers, AddPiece
  <1>3. /\ pieces'[s] = pieces[s] \cup {<<k, s>>}
        /\ IF Enough(s, {p[1] : p \in pieces[s] \cup {<<k, s>>}})
           THEN record'[s] = "over" /\ successes'[s] = successes[s] + 1
           ELSE UNCHANGED <<record, successes>>
    BY <1>2 DEF Delivers, AddPiece, SuccessCleanup, TypeOK
  <1> SUFFICES SessionInv(s)'
    OBVIOUS
  <1> HIDE DEF s, k
  <1>4. Delivered(s)' = {p[1] : p \in pieces[s] \cup {<<k, s>>}}
    BY <1>3 DEF Delivered
  <1>5. Delivered(s)' = Delivered(s) \cup {k}
    <2> DEFINE now == pieces[s] \cup {<<k, s>>}
    <2>1. {p[1] : p \in now} = {p[1] : p \in pieces[s]} \cup {k}
      <3>1. \A p \in now : p \in pieces[s] \/ p[1] = k
        OBVIOUS
      <3>2. <<k, s>> \in now /\ <<k, s>>[1] = k /\ pieces[s] \subseteq now
        OBVIOUS
      <3> HIDE DEF now
      <3> QED  BY <3>1, <3>2
    <2> QED  BY <1>4, <2>1 DEF Delivered
  <1>6. successes[s] = 0 /\ failures[s] = 0
    BY <1>2 DEF SessionInv, OneVerdict, TypeOK
  <1>7. NotStarted(s)' /\ OneVerdict(s)'
    BY <1>2, <1>3, <1>6 DEF NotStarted, OneVerdict
  <1>8. OwnPieces(s)'
    BY <1>1, <1>3 DEF CallMoved, OwnPieces
  <1>9. CanSucceed(s)'
    BY <1>1, <1>2, <1>3, <1>4, <1>5 DEF CallMoved, SessionInv, CanSucceed, Enough
  <1>10. AskedIsAvailable(s)'
    BY <1>1, <1>2 DEF CallMoved, SessionInv, AskedIsAvailable, Live
  <1>11. SignedIsEnough(s)'
    BY <1>3, <1>4, <1>6 DEF SignedIsEnough, Enough
  <1> QED  BY <1>7, <1>8, <1>9, <1>10, <1>11 DEF SessionInv

-----------------------------------------------------------------------------
LEMMA InvInit == Init => IInv
  <1> SUFFICES ASSUME Init PROVE IInv
    OBVIOUS
  <1>1. TypeOK
    BY DEF Init, TypeOK, Stages
  <1>2. ASSUME NEW s \in Sessions PROVE SessionInv(s)
    BY CallParts DEF Init, SessionInv, NotStarted, OneVerdict, OwnPieces, CanSucceed,
                     AskedIsAvailable, SignedIsEnough
  <1> QED  BY <1>1, <1>2 DEF IInv

LEMMA InvStep == IInv /\ [Next]_vars => IInv'
  <1> SUFFICES ASSUME IInv, [Next]_vars PROVE IInv'
    OBVIOUS
  <1>1. TypeOK /\ TypeOK' /\ StepOfKind
    BY TypeStep, StepKinds DEF IInv
  <1>2. SUFFICES ASSUME NEW q \in Sessions PROVE SessionInv(q)'
    BY <1>1 DEF IInv
  <1>3. SessionInv(q)
    BY DEF IInv
  <1>4. ASSUME NEW s \in Sessions, NEW keys \in SUBSET Keys, Starts(s, keys)
        PROVE  SessionInv(q)'
    BY <1>1, <1>3, <1>4, StartsKeeps, OthersUntouched, UntouchedKeeps
  <1>5. ASSUME NEW s \in Sessions, Fails(s) \/ Succeeds(s) PROVE SessionInv(q)'
    BY <1>1, <1>3, <1>5, FailsKeeps, SucceedsKeeps, OthersUntouched, UntouchedKeeps
  <1>6. ASSUME NEW c \in Calls,
               (\E st \in Stages : Moves(c, st)) \/ Loses(c) \/ Delivers(c)
        PROVE  SessionInv(q)'
    <2>1. SessionOf(c) \in Sessions
      BY CallParts
    <2>2. CASE q = SessionOf(c)
      BY <1>1, <1>3, <1>6, <2>2, MovesKeeps, LosesKeeps, DeliversKeeps
    <2>3. CASE q # SessionOf(c)
      <3>1. Untouched(q)
        BY <1>1, <1>6, <2>1, <2>3, OthersUntouched
      <3> QED  BY <1>1, <1>3, <3>1, UntouchedKeeps
    <2> QED  BY <2>2, <2>3
  <1>7. CASE UNCHANGED bookVars
    <2>1. Untouched(q)
      BY <1>7 DEF bookVars, Untouched
    <2> QED  BY <1>1, <1>3, <2>1, UntouchedKeeps
  <1> QED  BY <1>1, <1>4, <1>5, <1>6, <1>7 DEF StepOfKind

LEMMA InvHolds == Spec => []IInv
  BY InvInit, InvStep, PTL DEF Spec

(***************************************************************************)
(* onSuccess and onFailure are called once for a session between them.     *)
(***************************************************************************)
THEOREM EarlierCallsBackOnce == Spec => []OneCallback
  <1>1. IInv => OneCallback
    BY DEF IInv, SessionInv, OneVerdict, OneCallback
  <1> QED  BY <1>1, InvHolds, PTL

(***************************************************************************)
(* The signature onSuccess is given has verified pieces of the session's   *)
(* own packet, of keys that suffice for its rule.                          *)
(***************************************************************************)
THEOREM EarlierSuccessIsGenuine == Spec => []SuccessIsGenuine
  <1>1. IInv => SuccessIsGenuine
    BY DEF IInv, SessionInv, SignedIsEnough, OwnPieces, Delivered, SuccessIsGenuine
  <1> QED  BY <1>1, InvHolds, PTL

(***************************************************************************)
(* A session with a record can still succeed, and keyLossTimeout never     *)
(* takes a key that has delivered its piece.                               *)
(***************************************************************************)
THEOREM EarlierOpenCanSucceed == Spec => []OpenCanSucceed
  <1>1. IInv => OpenCanSucceed
    BY DEF IInv, SessionInv, CanSucceed, Delivered, OpenCanSucceed
  <1> QED  BY <1>1, InvHolds, PTL

=============================================================================

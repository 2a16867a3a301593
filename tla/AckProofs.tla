------------------------------ MODULE AckProofs ------------------------------
(***************************************************************************)
(* Proof that nothing is signed that was not released: the signer has the  *)
(* parameter packet only if the initiator has accepted its ack.            *)
(***************************************************************************)
EXTENDS OutcomeProofs

(* The ack of the call was accepted: the promise got its value. *)
Accepted(c) == para[c] \in {"ready", "cancelled"}

(***************************************************************************)
(* The inductive invariant of this module, next to IInv: a call that has   *)
(* not got that far has no value in its promise, and the encrypted packet  *)
(* is on its way only after the value was set.                             *)
(***************************************************************************)
NotYetAccepted == \A c \in Calls : phase[c] \in {"none", "requested"} => ~Accepted(c)

ReleasedIsAccepted == \A c \in Calls : ParamData(c) \in net => Accepted(c)

AckInv == NotYetAccepted /\ ReleasedIsAccepted /\ SignedAfterAck

-----------------------------------------------------------------------------
(***************************************************************************)
(* What a step can do to the promise of a call: nothing; create it; give   *)
(* it its value, or destroy it, when the sign request ends; remove its     *)
(* filter.                                                                 *)
(***************************************************************************)
ParaEffect(c) ==
    /\ phase'[c] = "none" => phase[c] = "none"
    /\ \/ para'[c] = para[c]
       \/ phase'[c] = "requested" /\ para'[c] = "pending"
       \/ phase[c] = "requested" /\ phase'[c] # "requested"
       \/ phase[c] = "waiting" /\ phase'[c] # "requested" /\ para'[c] = "cancelled"

LEMMA PerformRPCEffect ==
    ASSUME NEW s, NEW keys, NEW ended \in [Calls -> Phases], NEW newPara, NEW rest,
           PerformRPC(s, keys, ended, newPara, rest), NEW c \in Calls
    PROVE  \/ phase'[c] = "requested" /\ para'[c] = "pending"
           \/ phase'[c] = ended[c] /\ para'[c] = newPara[c]
  BY DEF PerformRPC

LEMMA OnUnavailableSignerEffect ==
    ASSUME TypeOK, NEW b \in Calls, NEW newPara, NEW rest,
           OnUnavailableSigner(b, newPara, rest), NEW c \in Calls
    PROVE  \/ phase'[c] = "requested" /\ para'[c] = "pending"
           \/ /\ phase'[c] = IF c = b THEN "unavailable" ELSE phase[c]
              /\ para'[c] = newPara[c]
  <1> DEFINE ended == [phase EXCEPT ![b] = "unavailable"]
  <1>1. PICK keys : PerformRPC(SessionOf(b), keys, ended, newPara, rest)
    BY DEF OnUnavailableSigner
  <1>2. ended \in [Calls -> Phases]
    BY DEF TypeOK, Phases
  <1>3. ended[c] = IF c = b THEN "unavailable" ELSE phase[c]
    BY DEF TypeOK
  <1> HIDE DEF ended
  <1> QED  BY <1>1, <1>2, <1>3, PerformRPCEffect

LEMMA ParaStep ==
    ASSUME TypeOK, [Next]_vars, NEW c \in Calls
    PROVE  ParaEffect(c)
  <1>1. ASSUME NEW s \in Sessions, MultiPartySign(s) PROVE ParaEffect(c)
    <2>1. CASE SufficientKeys(SchemaOf[s], unavailable)
      <3>1. PerformRPC(s, GetAvailableSigners(SchemaOf[s], unavailable), phase, para, net)
        BY <1>1, <2>1 DEF MultiPartySign
      <3>2. phase \in [Calls -> Phases]
        BY DEF TypeOK
      <3> QED  BY <3>1, <3>2, PerformRPCEffect DEF ParaEffect
    <2>2. CASE ~SufficientKeys(SchemaOf[s], unavailable)
      BY <1>1, <2>2 DEF MultiPartySign, ParaEffect
    <2> QED  BY <2>1, <2>2
  <1>2. ASSUME NEW b \in Calls, InitiatorStep(b) PROVE ParaEffect(c)
    <2>1. ASSUME NEW keyed \in BOOLEAN, NEW intact \in BOOLEAN, OnAck(b, keyed, intact)
          PROVE  ParaEffect(c)
      BY <2>1 DEF OnAck, ParaEffect, TypeOK
    <2>2. CASE SignRequestFails(b)
      <3> DEFINE newPara == [para EXCEPT ![b] = "broken"]
      <3>1. phase[b] = "requested" /\ \E rest : OnUnavailableSigner(b, newPara, rest)
        BY <2>2 DEF SignRequestFails
      <3>2. c # b => newPara[c] = para[c]
        BY DEF TypeOK
      <3> HIDE DEF newPara
      <3> QED  BY <3>1, <3>2, OnUnavailableSignerEffect DEF ParaEffect
    <2>3. CASE OnParamInterest(b)
      BY <2>3 DEF OnParamInterest, ParaEffect
    <2>4. CASE FetchResult(b)
      BY <2>4 DEF FetchResult, ParaEffect, TypeOK
    <2>5. ASSUME NEW rest, OnUnavailableSigner(b, para, rest) PROVE ParaEffect(c)
      BY <2>5, OnUnavailableSignerEffect DEF ParaEffect
    <2>6. ASSUME NEW v \in Codes, NEW g \in Generations, NEW intact \in BOOLEAN,
                 OnResult(b, v, g, intact)
          PROVE  ParaEffect(c)
      BY <2>5, <2>6 DEF OnResult, AddPiece, ParaEffect, TypeOK
    <2>7. CASE ResultFetchFails(b, ResultUnserved(b))
      BY <2>5, <2>7 DEF ResultFetchFails
    <2> QED  BY <1>2, <2>1, <2>2, <2>3, <2>4, <2>6, <2>7 DEF InitiatorStep
  <1>3. CASE ResetCachedUnavailableSigners
    BY <1>3 DEF ResetCachedUnavailableSigners, ParaEffect
  <1>4. CASE UNCHANGED initiatorVars
    BY <1>4 DEF initiatorVars, ParaEffect
  <1>5. CASE UNCHANGED vars
    BY <1>4, <1>5 DEF vars
  <1> QED  BY <1>1, <1>2, <1>3, <1>4, <1>5 DEF Next

(***************************************************************************)
(* Once accepted, for ever accepted: no later callback, and no other RPC   *)
(* of the key, creates or destroys the promise again.                      *)
(***************************************************************************)
LEMMA AcceptedStays ==
    ASSUME IInv, NotYetAccepted, [Next]_vars, NEW c \in Calls
    PROVE  /\ Accepted(c) => Accepted(c)'
           /\ phase'[c] \in {"none", "requested"} => ~Accepted(c)'
  <1>1. ParaEffect(c)
    BY ParaStep DEF IInv
  <1>2. phase'[c] = "requested" => phase[c] \in {"none", "requested"}
    BY RecruitStep DEF Fresh
  <1> QED  BY <1>1, <1>2 DEF ParaEffect, NotYetAccepted, Accepted

-----------------------------------------------------------------------------
(***************************************************************************)
(* The parameter packet of a call is put into the network only by its      *)
(* filter, from a promise that has its value.                              *)
(***************************************************************************)
LEMMA ParamDataIsReleased ==
    ASSUME [Next]_vars, NEW c \in Calls, ParamData(c) \in net'
    PROVE  ParamData(c) \in net \/ para[c] = "ready"
  <1>1. \A b : /\ ParamData(c) # SignRequest(b) /\ ParamData(c) # ParamInterest(b)
               /\ \A keyed : ParamData(c) # Ack(b, keyed)
               /\ \A v : ParamData(c) # ResultInterest(b, v)
               /\ \A v, g : ParamData(c) # ResultData(b, v, g)
               /\ ParamData(c) = ParamData(b) => c = b
    BY DEF ParamData, SignRequest, ParamInterest, Ack, ResultInterest, ResultData
  <1>2. ASSUME NEW s, NEW keys, NEW ended, NEW newPara, NEW rest \in SUBSET net,
               PerformRPC(s, keys, ended, newPara, rest)
        PROVE  ParamData(c) \in net
    BY <1>1, <1>2 DEF PerformRPC
  <1>3. ASSUME NEW s \in Sessions, MultiPartySign(s) PROVE ParamData(c) \in net
    BY <1>2, <1>3 DEF MultiPartySign
  <1>4. ASSUME NEW b, NEW newPara, NEW rest \in SUBSET net,
               OnUnavailableSigner(b, newPara, rest)
        PROVE  ParamData(c) \in net
    BY <1>2, <1>4 DEF OnUnavailableSigner
  <1>5. ASSUME NEW b \in Calls, InitiatorStep(b)
        PROVE  ParamData(c) \in net \/ para[c] = "ready"
    <2>1. ASSUME NEW keyed \in BOOLEAN, NEW intact \in BOOLEAN, OnAck(b, keyed, intact)
          PROVE  ParamData(c) \in net
      BY <2>1 DEF OnAck
    <2>2. CASE SignRequestFails(b)
      BY <1>4, <2>2 DEF SignRequestFails
    <2>3. CASE OnParamInterest(b)
      BY <1>1, <2>3 DEF OnParamInterest
    <2>4. CASE FetchResult(b)
      BY <1>1, <2>4 DEF FetchResult
    <2>5. ASSUME NEW v \in Codes, NEW g \in Generations, NEW intact \in BOOLEAN,
                 OnResult(b, v, g, intact)
          PROVE  ParamData(c) \in net
      BY <1>4, <2>5 DEF OnResult
    <2>6. CASE ResultFetchFails(b, ResultUnserved(b))
      BY <1>4, <2>6 DEF ResultFetchFails
    <2> QED  BY <1>5, <2>1, <2>2, <2>3, <2>4, <2>5, <2>6 DEF InitiatorStep
  <1>6. ASSUME NEW b \in Calls, SignerStep(b) PROVE ParamData(c) \in net
    <2>1. ASSUME NEW accepted \in BOOLEAN, OnSignRequest(b, accepted)
          PROVE  ParamData(c) \in net
      BY <1>1, <2>1 DEF OnSignRequest
    <2>2. ASSUME NEW outcome \in Codes, OnParamData(b, outcome) PROVE ParamData(c) \in net
      BY <2>2 DEF OnParamData
    <2>3. CASE ParamFetchFails(b, ParamUnserved(b))
      BY <2>3 DEF ParamFetchFails
    <2>4. ASSUME NEW v \in 0..MaxVersion, OnResultInterest(b, v)
          PROVE  ParamData(c) \in net
      BY <1>1, <2>4 DEF OnResultInterest
    <2> QED  BY <1>6, <2>1, <2>2, <2>3, <2>4 DEF SignerStep
  <1>7. CASE \/ ResetCachedUnavailableSigners
             \/ \E k \in TrustedIds : Restart(k)
             \/ UNCHANGED vars
    BY <1>7 DEF ResetCachedUnavailableSigners, Restart, vars
  <1> QED  BY <1>3, <1>5, <1>6, <1>7 DEF Next

(***************************************************************************)
(* A signer gets to code 200 only with the parameter packet in hand.       *)
(***************************************************************************)
LEMMA SignedWithParameter ==
    ASSUME TypeOK, [Next]_vars, NEW c \in Calls, code'[c] = "200"
    PROVE  code[c] = "200" \/ ParamData(c) \in net
  <1>1. CASE UNCHANGED signerVars
    BY <1>1 DEF signerVars
  <1>2. ASSUME NEW b \in Calls, SignerStep(b)
        PROVE  code[c] = "200" \/ ParamData(c) \in net
    <2>1. ASSUME NEW accepted \in BOOLEAN, OnSignRequest(b, accepted)
          PROVE  code[c] = "200"
      BY <2>1 DEF OnSignRequest, TypeOK
    <2>2. ASSUME NEW outcome \in Codes, OnParamData(b, outcome)
          PROVE  code[c] = "200" \/ ParamData(c) \in net
      BY <2>2 DEF OnParamData, TypeOK
    <2>3. CASE ParamFetchFails(b, ParamUnserved(b))
      BY <2>3 DEF ParamFetchFails, TypeOK
    <2>4. ASSUME NEW v \in 0..MaxVersion, OnResultInterest(b, v) PROVE code[c] = "200"
      BY <2>4 DEF OnResultInterest
    <2> QED  BY <1>2, <2>1, <2>2, <2>3, <2>4 DEF SignerStep
  <1>3. ASSUME NEW k \in TrustedIds, Restart(k) PROVE code[c] = "200"
    BY <1>3 DEF Restart
  <1>4. CASE UNCHANGED vars
    BY <1>1, <1>4 DEF vars
  <1> QED  BY <1>1, <1>2, <1>3, <1>4 DEF Next

-----------------------------------------------------------------------------
LEMMA AckInit == Init => AckInv
  BY DEF Init, InitiatorInit, SignerInit, AckInv, NotYetAccepted, ReleasedIsAccepted,
         SignedAfterAck, Accepted

LEMMA AckStep == IInv /\ AckInv /\ [Next]_vars => AckInv'
  <1> SUFFICES ASSUME IInv, AckInv, [Next]_vars PROVE AckInv'
    OBVIOUS
  <1>1. NotYetAccepted'
    BY AcceptedStays DEF AckInv, NotYetAccepted
  <1>2. ReleasedIsAccepted'
    <2> SUFFICES ASSUME NEW c \in Calls, ParamData(c) \in net' PROVE Accepted(c)'
      BY DEF ReleasedIsAccepted, ParamData
    <2>1. Accepted(c)
      BY ParamDataIsReleased DEF AckInv, ReleasedIsAccepted, Accepted
    <2> QED  BY <2>1, AcceptedStays DEF AckInv
  <1>3. SignedAfterAck'
    <2> SUFFICES ASSUME NEW c \in Calls, code'[c] = "200" PROVE Accepted(c)'
      BY DEF SignedAfterAck, Accepted
    <2>1. Accepted(c)
      BY SignedWithParameter DEF IInv, AckInv, ReleasedIsAccepted, SignedAfterAck, Accepted
    <2> QED  BY <2>1, AcceptedStays DEF AckInv
  <1> QED  BY <1>1, <1>2, <1>3 DEF AckInv

(***************************************************************************)
(* A signer has signed for a call only if the initiator accepted the ack   *)
(* of that call, although the two exchanges run side by side.              *)
(***************************************************************************)
THEOREM SignedWasReleased == Spec => []SignedAfterAck
  <1>1. Spec => []AckInv
    BY AckInit, AckStep, InvHolds, PTL DEF Spec
  <1>2. AckInv => SignedAfterAck
    BY DEF AckInv
  <1> QED  BY <1>1, <1>2, PTL

=============================================================================

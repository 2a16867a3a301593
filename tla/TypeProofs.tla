----------------------------- MODULE TypeProofs ------------------------------
(***************************************************************************)
(* Proofs about MultiPartySign for every set of keys, sessions and rules,  *)
(* every bound and every set of faults.                                    *)
(***************************************************************************)
EXTENDS MultiPartySign, OperatorProofs

LEMMA CallParts ==
    ASSUME NEW c \in Calls
    PROVE  /\ SessionOf(c) \in Sessions
           /\ KeyOf(c) \in TrustedIds
           /\ EpochOf(c) \in Epochs
           /\ c = <<SessionOf(c), KeyOf(c), EpochOf(c)>>
  BY DEF Calls, SessionOf, KeyOf, EpochOf

LEMMA CallsToType ==
    ASSUME NEW s \in Sessions, NEW keys \in SUBSET TrustedIds, epoch \in Epochs
    PROVE  /\ CallsTo(s, keys) \in SUBSET Calls
           /\ \A c \in Calls : c \in CallsTo(s, keys)
                 <=> SessionOf(c) = s /\ KeyOf(c) \in keys /\ EpochOf(c) = epoch
  BY DEF CallsTo, Calls, SessionOf, KeyOf, EpochOf

LEMMA PacketTypes ==
    ASSUME NEW c \in Calls
    PROVE  /\ SignRequest(c) \in PacketSet
           /\ ParamInterest(c) \in PacketSet
           /\ ParamData(c) \in PacketSet
           /\ Ack(c, TRUE) \in PacketSet /\ Ack(c, FALSE) \in PacketSet
           /\ \A v \in 0..MaxVersion : ResultInterest(c, v) \in PacketSet
           /\ \A reply \in Codes, gen \in Generations :
                 ResultData(c, reply, gen) \in PacketSet
  BY DEF PacketSet, SignRequest, ParamInterest, ParamData, Ack, ResultInterest,
         ResultData

(***************************************************************************)
(* performRPC and onUnavailableSigner keep the types.                      *)
(***************************************************************************)
LEMMA PerformRPCType ==
    ASSUME epoch \in Epochs, NEW s \in Sessions, NEW keys \in SUBSET TrustedIds,
           NEW ended \in [Calls -> Phases], NEW newPara \in [Calls -> ParaStates],
           NEW rest \in SUBSET PacketSet,
           PerformRPC(s, keys, ended, newPara, rest)
    PROVE  /\ phase' \in [Calls -> Phases]
           /\ para' \in [Calls -> ParaStates]
           /\ net' \subseteq PacketSet
  <1>1. phase' \in [Calls -> Phases] /\ para' \in [Calls -> ParaStates]
    BY DEF PerformRPC, Phases, ParaStates
  <1>2. net' \subseteq PacketSet
    BY CallsToType, PacketTypes DEF PerformRPC
  <1> QED  BY <1>1, <1>2

LEMMA OnUnavailableSignerType ==
    ASSUME TypeOK, NEW c \in Calls, NEW newPara \in [Calls -> ParaStates],
           NEW rest \in SUBSET PacketSet, UNCHANGED signerVars,
           OnUnavailableSigner(c, newPara, rest)
    PROVE  TypeOK'
  <1> DEFINE s == SessionOf(c)
             gone == unavailable \cup {KeyOf(c)}
             ended == [phase EXCEPT ![c] = "unavailable"]
  <1>1. s \in Sessions /\ KeyOf(c) \in TrustedIds
    BY CallParts
  <1>2. ended \in [Calls -> Phases] /\ epoch \in Epochs
    BY DEF TypeOK, Phases
  <1>3. PICK r \in ReplaceSigner(signers[s], KeyOf(c), SchemaOf[s], gone) :
           IF r.signers = {}
           THEN /\ failures' = [failures EXCEPT ![s] = @ + 1]
                /\ UNCHANGED signers
                /\ PerformRPC(s, {}, ended, newPara, rest)
           ELSE /\ signers' = [signers EXCEPT ![s] = r.signers]
                /\ UNCHANGED failures
                /\ PerformRPC(s, r.diff, ended, newPara, rest)
    BY DEF OnUnavailableSigner, ReportFailure, InstallList
  <1>4. r.signers \in SUBSET TrustedIds /\ r.diff \in SUBSET TrustedIds
    <2>1. signers[s] \in SUBSET TrustedIds
      BY <1>1 DEF TypeOK
    <2>2. Substitutes(r, signers[s], KeyOf(c), gone)
      <3> HIDE DEF s, gone
      <3> QED  BY <1>3, <2>1, ReplacementIsFresh
    <2> QED  BY <2>2 DEF Substitutes
  <1>5. /\ phase' \in [Calls -> Phases]
        /\ para' \in [Calls -> ParaStates]
        /\ net' \subseteq PacketSet
    BY <1>1, <1>2, <1>3, <1>4, PerformRPCType
  <1>6. /\ signers' \in [Sessions -> SUBSET TrustedIds]
        /\ failures' \in [Sessions -> Nat]
    <2> HIDE DEF s, gone, ended
    <2>1. CASE r.signers = {}
      BY <2>1, <1>1, <1>3 DEF TypeOK
    <2>2. CASE r.signers # {}
      BY <2>2, <1>1, <1>3, <1>4 DEF TypeOK
    <2> QED  BY <2>1, <2>2
  <1>7. unavailable' \subseteq TrustedIds
    BY <1>1 DEF OnUnavailableSigner, TypeOK
  <1>8. UNCHANGED <<session, fetched, successes, epoch, loop, signerVars>>
    BY DEF OnUnavailableSigner
  <1> QED  BY <1>5, <1>6, <1>7, <1>8 DEF TypeOK, signerVars

(***************************************************************************)
(* The type invariant, one step per action.                                *)
(***************************************************************************)
LEMMA TypeStep == TypeOK /\ StateKept /\ [Next]_vars => TypeOK'
  <1> SUFFICES ASSUME TypeOK, StateKept, [Next]_vars PROVE TypeOK'
    OBVIOUS
  <1>1. ASSUME NEW s \in Sessions, MultiPartySign(s), UNCHANGED signerVars
        PROVE  TypeOK'
    <2> DEFINE list == GetAvailableSigners(SchemaOf[s], unavailable)
    <2>1. list \in SUBSET TrustedIds
      BY AvailableSignersAreAvailable
    <2>2. CASE SufficientKeys(SchemaOf[s], unavailable)
      <3> HIDE DEF list
      <3>1. /\ session' = [session EXCEPT ![s] = "running"]
            /\ signers' = [signers EXCEPT ![s] = list]
            /\ failures' = [failures EXCEPT ![s] = IF list = {} THEN @ + 1 ELSE @]
            /\ PerformRPC(s, list, phase, para, net)
            /\ UNCHANGED <<fetched, successes, unavailable, epoch, loop>>
        BY <1>1, <2>2 DEF MultiPartySign, list
      <3>2. /\ phase' \in [Calls -> Phases]
            /\ para' \in [Calls -> ParaStates]
            /\ net' \subseteq PacketSet
        BY <2>1, <3>1, PerformRPCType DEF TypeOK
      <3> QED  BY <1>1, <2>1, <3>1, <3>2 DEF TypeOK, signerVars
    <2>3. CASE ~SufficientKeys(SchemaOf[s], unavailable)
      BY <1>1, <2>3 DEF MultiPartySign, TypeOK, signerVars
    <2> QED  BY <2>2, <2>3
  <1>2. ASSUME NEW c \in Calls, NEW keyed \in BOOLEAN, NEW intact \in BOOLEAN,
               OnAck(c, keyed, intact), UNCHANGED signerVars
        PROVE  TypeOK'
    BY <1>2 DEF OnAck, TypeOK, signerVars, Phases, ParaStates
  <1>3. ASSUME NEW c \in Calls, SignRequestFails(c), UNCHANGED signerVars
        PROVE  TypeOK'
    <2>1. PICK rest \in {net, net \ {SignRequest(c)}} :
             OnUnavailableSigner(c, [para EXCEPT ![c] = "broken"], rest)
      BY <1>3 DEF SignRequestFails
    <2>2. rest \in SUBSET PacketSet /\ [para EXCEPT ![c] = "broken"] \in [Calls -> ParaStates]
      BY DEF TypeOK, ParaStates
    <2> QED  BY <1>3, <2>1, <2>2, OnUnavailableSignerType
  <1>4. ASSUME NEW c \in Calls, OnParamInterest(c), UNCHANGED signerVars
        PROVE  TypeOK'
    BY <1>4, PacketTypes DEF OnParamInterest, TypeOK, signerVars
  <1>5. ASSUME NEW c \in Calls, FetchResult(c), UNCHANGED signerVars
        PROVE  TypeOK'
    <2>1. 0 \in 0..MaxVersion
      BY BoundsAssumption
    <2>2. ResultInterest(c, 0) \in PacketSet
      BY <2>1, PacketTypes
    <2> QED  BY <1>5, <2>2 DEF FetchResult, TypeOK, signerVars, Phases, ParaStates
  <1>6. ASSUME NEW c \in Calls, NEW reply \in Codes, NEW gen \in Generations,
               NEW intact \in BOOLEAN, OnResult(c, reply, gen, intact),
               UNCHANGED signerVars
        PROVE  TypeOK'
    <2> DEFINE rest == net \ {ResultData(c, reply, gen)}
    <2>1. CASE OnUnavailableSigner(c, para, rest)
      BY <1>6, <2>1, OnUnavailableSignerType DEF TypeOK
    <2>2. CASE AddPiece(c, gen) /\ net' = rest /\ UNCHANGED <<session, epoch, loop>>
      <3>1. [call |-> c, gen |-> gen] \in Pieces
        BY DEF Pieces
      <3>2. Append(fetched[SessionOf(c)], [call |-> c, gen |-> gen]) \in Seq(Pieces)
        BY <3>1, CallParts, AppendProperties DEF TypeOK
      <3>3. /\ fetched' \in [Sessions -> Seq(Pieces)]
            /\ successes' \in [Sessions -> Nat]
            /\ phase' \in [Calls -> Phases]
        BY <2>2, <3>2, CallParts DEF AddPiece, TypeOK, Phases
      <3> QED  BY <1>6, <2>2, <3>3 DEF AddPiece, TypeOK, signerVars
    <2>3. CASE /\ net' = rest
               /\ \E p \in {"dropped", "waiting"} : phase' = [phase EXCEPT ![c] = p]
               /\ UNCHANGED <<session, signers, fetched, successes, failures, para,
                              unavailable, epoch, loop>>
      BY <1>6, <2>3 DEF TypeOK, signerVars, Phases
    <2> QED  BY <1>6, <2>1, <2>2, <2>3 DEF OnResult
  <1>7. ASSUME NEW c \in Calls, NEW unserved, ResultFetchFails(c, unserved),
               UNCHANGED signerVars
        PROVE  TypeOK'
    BY <1>7, OnUnavailableSignerType DEF ResultFetchFails, TypeOK
  <1>8. ASSUME ResetCachedUnavailableSigners, UNCHANGED signerVars PROVE TypeOK'
    BY <1>8, BoundsAssumption
    DEF ResetCachedUnavailableSigners, TypeOK, signerVars, Epochs
  <1>9. ASSUME NEW c \in Calls, SignerStep(c), UNCHANGED initiatorVars
        PROVE  TypeOK'
    <2> USE <1>9 DEF initiatorVars
    <2>1. ASSUME NEW accepted \in BOOLEAN, OnSignRequest(c, accepted) PROVE TypeOK'
      <3>1. CASE accepted
        <4>1. 0 \in 0..MaxVersion /\ "102" \in Codes
          BY BoundsAssumption DEF Codes
        <4>2. /\ code' = [code EXCEPT ![c] = "102"]
              /\ version' = [version EXCEPT ![c] = 0]
              /\ listening' = [listening EXCEPT ![c] = TRUE]
              /\ fetching' = [fetching EXCEPT ![c] = TRUE]
              /\ net' = (net \ {SignRequest(c)}) \cup {Ack(c, TRUE), ParamInterest(c)}
              /\ UNCHANGED generation
          BY <2>1, <3>1 DEF OnSignRequest
        <4>3. net' \subseteq PacketSet
          BY <4>2, PacketTypes DEF TypeOK
        <4>4. /\ code' \in [Calls -> Codes \cup {"none"}]
              /\ version' \in [Calls -> 0..MaxVersion]
              /\ listening' \in [Calls -> BOOLEAN]
              /\ fetching' \in [Calls -> BOOLEAN]
          BY <4>1, <4>2 DEF TypeOK
        <4> QED  BY <4>2, <4>3, <4>4 DEF TypeOK
      <3>2. CASE ~accepted
        BY <2>1, <3>2, PacketTypes DEF OnSignRequest, TypeOK
      <3> QED  BY <3>1, <3>2
    <2>2. ASSUME NEW outcome \in Codes, OnParamData(c, outcome) PROVE TypeOK'
      BY <2>2 DEF OnParamData, TypeOK
    <2>3. ASSUME ParamFetchFails(c, ParamUnserved(c)) PROVE TypeOK'
      BY <2>3 DEF ParamFetchFails, TypeOK, Codes
    <2>4. ASSUME NEW v \in 0..MaxVersion, OnResultInterest(c, v) PROVE TypeOK'
      <3>1. ResultData(c, code[c], generation[KeyOf(c)]) \in PacketSet
        <4>1. code[c] \in Codes /\ generation[KeyOf(c)] \in Generations
          BY <2>4, CallParts DEF OnResultInterest, TypeOK, StateKept
        <4> QED  BY <4>1, PacketTypes
      <3>2. version' \in [Calls -> 0..MaxVersion]
        <4>1. version[c] \in 0..MaxVersion
          BY DEF TypeOK
        <4>2. Min({version[c] + 1, MaxVersion}) \in 0..MaxVersion
          BY <4>1, BoundsAssumption, MinOfTwo
        <4> QED  BY <2>4, <4>2 DEF OnResultInterest, TypeOK
      <3> QED  BY <2>4, <3>1, <3>2 DEF OnResultInterest, TypeOK
    <2> QED  BY <2>1, <2>2, <2>3, <2>4 DEF SignerStep
  <1>10. ASSUME NEW k \in TrustedIds, Restart(k), UNCHANGED initiatorVars
         PROVE  TypeOK'
    <2>1. generation' \in [TrustedIds -> Generations]
      BY <1>10, BoundsAssumption DEF Restart, TypeOK, Generations
    <2> QED  BY <1>10, <2>1, BoundsAssumption DEF Restart, TypeOK, initiatorVars
  <1>11. ASSUME NEW c \in Calls, InitiatorStep(c), UNCHANGED signerVars
         PROVE  TypeOK'
    BY <1>11, <1>2, <1>3, <1>4, <1>5, <1>6, <1>7 DEF InitiatorStep
  <1>12. CASE UNCHANGED vars
    BY <1>12 DEF TypeOK, vars, initiatorVars, signerVars
  <1> QED  BY <1>1, <1>8, <1>9, <1>10, <1>11, <1>12 DEF Next

(***************************************************************************)
(* A signer that has the result filter or the parameter Interest of a      *)
(* request has its state.                                                  *)
(***************************************************************************)
LEMMA StateKeptStep == TypeOK /\ StateKept /\ [Next]_vars => StateKept'
  <1> SUFFICES ASSUME TypeOK, StateKept, [Next]_vars PROVE StateKept'
    OBVIOUS
  <1>1. CASE UNCHANGED signerVars
    BY <1>1 DEF StateKept, signerVars
  <1>2. ASSUME NEW c \in Calls, SignerStep(c) PROVE StateKept'
    <2>1. ASSUME NEW accepted \in BOOLEAN, OnSignRequest(c, accepted) PROVE StateKept'
      <3>1. CASE accepted
        BY <2>1, <3>1 DEF OnSignRequest, TypeOK, StateKept
      <3>2. CASE ~accepted
        BY <2>1, <3>2 DEF OnSignRequest, StateKept
      <3> QED  BY <3>1, <3>2
    <2>2. ASSUME NEW outcome \in Codes, OnParamData(c, outcome) PROVE StateKept'
      BY <2>2 DEF OnParamData, TypeOK, StateKept, Codes
    <2>3. ASSUME ParamFetchFails(c, ParamUnserved(c)) PROVE StateKept'
      BY <2>3 DEF ParamFetchFails, TypeOK, StateKept
    <2>4. ASSUME NEW v \in 0..MaxVersion, OnResultInterest(c, v) PROVE StateKept'
      BY <2>4 DEF OnResultInterest, TypeOK, StateKept
    <2> QED  BY <1>2, <2>1, <2>2, <2>3, <2>4 DEF SignerStep
  <1>3. ASSUME NEW k \in TrustedIds, Restart(k) PROVE StateKept'
    BY <1>3 DEF Restart, TypeOK, StateKept
  <1>4. CASE UNCHANGED vars
    BY <1>4, <1>1 DEF vars
  <1> QED  BY <1>1, <1>2, <1>3, <1>4 DEF Next

LEMMA TypeInit == Init => TypeOK /\ StateKept
  <1> SUFFICES ASSUME Init PROVE TypeOK /\ StateKept
    OBVIOUS
  <1>1. /\ 1 \in Epochs /\ 0 \in 0..MaxVersion /\ 0 \in Generations
        /\ <<>> \in Seq(Pieces)
    BY BoundsAssumption, EmptySeq DEF Epochs, Generations
  <1> QED  BY <1>1 DEF Init, InitiatorInit, SignerInit, TypeOK, StateKept, Phases, ParaStates

(***************************************************************************)
(* Every variable keeps its type; in particular every packet a signer      *)
(* answers with carries the code of a request it has accepted.             *)
(***************************************************************************)
THEOREM TypeCorrect == Spec => []TypeOK
  <1>1. Init => TypeOK /\ StateKept
    BY TypeInit
  <1>2. TypeOK /\ StateKept /\ [Next]_vars => TypeOK' /\ StateKept'
    BY TypeStep, StateKeptStep
  <1> QED  BY <1>1, <1>2, PTL DEF Spec

=============================================================================

--------------------------- MODULE VerifierProofs ---------------------------
(***************************************************************************)
(* Proofs about BLSVerifier::asyncVerify, for every set of packets, rules  *)
(* and keys: what is accepted has been signed by those the governing rule  *)
(* asks for, and stays acceptable.                                         *)
(***************************************************************************)
EXTENDS AsyncVerify, OperatorProofs

-----------------------------------------------------------------------------
(***************************************************************************)
(* The rule that verify uses is the first one for the name.                *)
(***************************************************************************)
RulesFor(rules, name) == {i \in DOMAIN rules : Match(rules[i].pktName, name)}

LEMMA FirstRule ==
    ASSUME NEW S, NEW rules \in Seq(S), NEW name, RulesFor(rules, name) # {}
    PROVE  /\ Min(RulesFor(rules, name)) \in RulesFor(rules, name)
           /\ \A j \in RulesFor(rules, name) : Min(RulesFor(rules, name)) <= j
  <1> DEFINE R == RulesFor(rules, name)
  <1>1. R \in SUBSET Nat /\ R # {}
    BY DEF RulesFor
  <1>2. \E i \in R : \A j \in R : i <= j
    <2> HIDE DEF R
    <2> QED  BY <1>1, LeastExists
  <1> HIDE DEF R
  <1>3. Min(R) \in R /\ \A j \in R : Min(R) <= j
    BY <1>2 DEF Min
  <1> QED  BY <1>3 DEF R

(* A rule that is added at the end does not displace another. *)
LEMMA AppendedIsLast ==
    ASSUME NEW S, NEW rules \in Seq(S), NEW rule \in S, NEW name,
           RulesFor(rules, name) # {}
    PROVE  LET more == Append(rules, rule)
           IN  /\ RulesFor(more, name) # {}
               /\ more[Min(RulesFor(more, name))] = rules[Min(RulesFor(rules, name))]
  <1> DEFINE more == Append(rules, rule)
             i == Min(RulesFor(rules, name))
             j == Min(RulesFor(more, name))
  <1>1. /\ more \in Seq(S) /\ DOMAIN rules = 1..Len(rules) /\ Len(rules) \in Nat
        /\ DOMAIN more = 1..(Len(rules) + 1)
        /\ \A k \in DOMAIN rules : more[k] = rules[k]
    OBVIOUS
  <1>2. /\ i \in RulesFor(rules, name)
        /\ \A k \in RulesFor(rules, name) : i <= k
    BY FirstRule
  <1>3. RulesFor(rules, name) \subseteq RulesFor(more, name)
    BY <1>1 DEF RulesFor
  <1>4. /\ j \in RulesFor(more, name)
        /\ \A k \in RulesFor(more, name) : j <= k
    <2> HIDE DEF more
    <2> QED  BY <1>1, <1>2, <1>3, FirstRule
  <1>5. i \in 1..Len(rules) /\ j \in 1..(Len(rules) + 1) /\ j <= i
    <2> HIDE DEF i, j, more
    <2> QED  BY <1>1, <1>2, <1>3, <1>4 DEF RulesFor
  <1>6. j \in RulesFor(rules, name)
    <2> HIDE DEF i, j, more
    <2> QED  BY <1>1, <1>4, <1>5 DEF RulesFor
  <1>7. i = j
    <2> HIDE DEF i, j, more
    <2> QED  BY <1>2, <1>5, <1>6
  <1> HIDE DEF i, j, more
  <1>8. more[j] = rules[i]
    BY <1>1, <1>5, <1>7
  <1> QED  BY <1>2, <1>3, <1>8 DEF i, j, more

(***************************************************************************)
(* A list that passes goes on passing when a rule is added at the end or a *)
(* key is added.                                                           *)
(***************************************************************************)
LEMMA PassesWithMore ==
    ASSUME NEW S, NEW rules \in Seq(S), NEW keys, NEW name, NEW list,
           SchemaPassed(rules, keys, name, list)
    PROVE  /\ \A key : SchemaPassed(rules, keys \cup {key}, name, list)
           /\ \A rule \in S : SchemaPassed(Append(rules, rule), keys, name, list)
  <1>1. /\ RulesFor(rules, name) # {}
        /\ PassSchema(rules[Min(RulesFor(rules, name))], list)
        /\ \A i \in DOMAIN list : list[i] \in keys /\ list[i] \in TrustedIds
    BY DEF SchemaPassed, ContainerPassSchema, RulesFor
  <1>2. ASSUME NEW key PROVE SchemaPassed(rules, keys \cup {key}, name, list)
    BY DEF SchemaPassed
  <1>3. ASSUME NEW rule \in S PROVE SchemaPassed(Append(rules, rule), keys, name, list)
    <2> DEFINE more == Append(rules, rule)
    <2>1. /\ RulesFor(more, name) # {}
          /\ more[Min(RulesFor(more, name))] = rules[Min(RulesFor(rules, name))]
      BY <1>1, AppendedIsLast
    <2> HIDE DEF more
    <2>2. ContainerPassSchema(more, name, list)
      BY <1>1, <2>1 DEF ContainerPassSchema, RulesFor
    <2>3. SchemaPassed(more, keys, name, list)
      BY <1>1, <2>2 DEF SchemaPassed
    <2> QED  BY <2>3 DEF more
  <1> QED  BY <1>2, <1>3

LEMMA AcceptedWithMore ==
    ASSUME NEW rules, NEW keys, NEW rules2, NEW keys2, NEW data, NEW info,
           VerifyOutcomes(rules, keys, data, info) = {"valid"},
           \A list : SchemaPassed(rules, keys, data.name, list)
                         => SchemaPassed(rules2, keys2, data.name, list)
    PROVE  VerifyOutcomes(rules2, keys2, data, info) = {"valid"}
  <1>1. "invalid" # "valid" /\ "throws" # "valid"
    OBVIOUS
  <1>2. /\ data.locator # NoLocator /\ IsPrefix(data.locator, info.name)
        /\ HasSignerList(info.content)
        /\ SchemaPassed(rules, keys, data.name, WireDecode(info.content))
        /\ SignatureVerdicts(WireDecode(info.content), data) = {"valid"}
    BY <1>1 DEF VerifyOutcomes
  <1> QED  BY <1>2 DEF VerifyOutcomes

-----------------------------------------------------------------------------
(***************************************************************************)
(* The invariant is the property itself, with what the variables hold: a   *)
(* request that is not done has no verdict, so that an exception leaves    *)
(* none.                                                                   *)
(***************************************************************************)
Inv ==
    /\ schemas \in Seq(Rules)
    /\ trusted \in SUBSET TrustedIds
    /\ request \in [Requests -> {"idle", "pending", "done"}]
    /\ DOMAIN object = Requests
    /\ kept \in [Requests -> BOOLEAN]
    /\ verdict \in [Requests -> {"none", "valid", "invalid"}]
    /\ \A r \in Requests : request[r] # "done" => verdict[r] = "none"
    /\ AcceptedIsSigned

(* What AcceptedIsSigned asks for of one packet. *)
Genuine(rule, keys, data) ==
    \/ PassSchema(rule, <<>>)
    \/ \E list \in SignerLists \ {<<>>} :
           /\ ToSet(list) \subseteq keys
           /\ SignedBy(list, data)
           /\ PassSchema(rule, list)

LEMMA InitInv == Init => Inv
  <1> SUFFICES ASSUME Init PROVE Inv
    OBVIOUS
  <1>1. schemas \in Seq(Rules)
    BY DEF Init
  <1>2. AcceptedIsSigned
    BY DEF Init, AcceptedIsSigned
  <1> QED  BY <1>1, <1>2 DEF Init, Inv

(***************************************************************************)
(* Whenever verify may return true, the packet is genuine.                 *)
(***************************************************************************)
LEMMA ListIsDecoded ==
    ASSUME NEW info \in InfoPackets, HasSignerList(info.content)
    PROVE  /\ WireDecode(info.content) \in Seq(Seq(Nat))
           /\ WireDecode(info.content) \in SignerLists
  <1> DEFINE content == info.content
             S == {i \in DOMAIN content : content[i].type = "MpsSignerList"}
  <1>1. content \in Seq([type : STRING, elements : Seq(Seq(Nat))])
    BY AsyncAssumption
  <1>2. /\ DOMAIN content = 1..Len(content) /\ Len(content) \in Nat
        /\ \A i \in DOMAIN content : content[i].elements \in Seq(Seq(Nat))
    <2> DEFINE E == [type : STRING, elements : Seq(Seq(Nat))]
    <2>1. \A e \in E : e.elements \in Seq(Seq(Nat))
      OBVIOUS
    <2>2. content \in Seq(E)
      BY <1>1
    <2> HIDE DEF content, E
    <2>3. /\ DOMAIN content = 1..Len(content) /\ Len(content) \in Nat
          /\ \A i \in DOMAIN content : content[i] \in E
      BY <2>2
    <2> QED  BY <2>1, <2>3
  <1>3. S \in SUBSET Nat /\ S # {}
    BY <1>2 DEF HasSignerList
  <1>4. \E i \in S : \A j \in S : i <= j
    <2> HIDE DEF S
    <2> QED  BY <1>3, LeastExists
  <1>5. Min(S) \in S
    <2> HIDE DEF S
    <2> QED  BY <1>4 DEF Min
  <1>6. WireDecode(info.content) = content[Min(S)].elements
    BY DEF WireDecode
  <1>7. WireDecode(info.content) \in Seq(Seq(Nat))
    BY <1>2, <1>5, <1>6
  <1> QED  BY <1>7 DEF SignerLists

LEMMA ValidIsGenuine ==
    ASSUME schemas \in Seq(Rules), NEW data, NEW info \in InfoPackets,
           "valid" \in VerifyOutcomes(schemas, trusted, data, info)
    PROVE  \E rule \in Rules : Governs(rule, data.name) /\ Genuine(rule, trusted, data)
  <1> DEFINE list == WireDecode(info.content)
             R == RulesFor(schemas, data.name)
             rule == schemas[Min(R)]
  <1>1. /\ HasSignerList(info.content)
        /\ SchemaPassed(schemas, trusted, data.name, list)
        /\ "valid" \in SignatureVerdicts(list, data)
    BY DEF VerifyOutcomes
  <1>2. list \in Seq(Seq(Nat)) /\ list \in SignerLists
    BY <1>1, ListIsDecoded
  <1>3. /\ R # {} /\ PassSchema(rule, list)
        /\ \A i \in DOMAIN list : list[i] \in trusted
    BY <1>1 DEF SchemaPassed, ContainerPassSchema, RulesFor
  <1>4. Min(R) \in R /\ \A j \in R : Min(R) <= j
    BY <1>3, FirstRule
  <1>5. rule \in Rules /\ Governs(rule, data.name)
    <2>1. DOMAIN schemas = 1..Len(schemas) /\ Len(schemas) \in Nat
      OBVIOUS
    <2>2. Min(R) \in 1..Len(schemas) /\ Match(rule.pktName, data.name)
      BY <1>4, <2>1 DEF RulesFor
    <2>3. \A j \in 1..(Min(R) - 1) : j \in DOMAIN schemas /\ ~(Min(R) <= j)
      <3> DEFINE m == Min(R)
      <3> HIDE DEF m
      <3> QED  BY <2>1, <2>2 DEF m
    <2>4. \A j \in 1..(Min(R) - 1) : ~Match(schemas[j].pktName, data.name)
      BY <1>4, <2>3 DEF RulesFor
    <2>5. rule \in Rules
      BY <2>2
    <2> QED  BY <2>1, <2>2, <2>4, <2>5 DEF Governs
  <1>6. Genuine(rule, trusted, data)
    <2>1. CASE list = <<>>
      BY <1>3, <2>1 DEF Genuine
    <2>2. CASE list # <<>>
      <3>1. BLSVerify(AggregateKey(list), Portion(data.name, data.locator), data.signature)
        BY <1>1, <2>2 DEF SignatureVerdicts, Verdict
      <3>2. SignedBy(list, data)
        <4> DEFINE portion == Portion(data.name, data.locator)
                   signature == data.signature
        <4> HIDE DEF list
        <4>1. signature = AllPieces(list, portion)
          <5> DEFINE names == Seq(Nat)
          <5>1. BLSVerify(AggregateKey(list), portion, signature)
            BY <3>1
          <5>2. list \in Seq(names)
            BY <1>2
          <5> HIDE DEF portion, signature, names
          <5> QED  BY <2>2, <5>1, <5>2, VerifiedIsSigned
        <4> QED  BY <4>1 DEF SignedBy, AllPieces
      <3>3. ToSet(list) \subseteq trusted
        BY <1>3 DEF ToSet
      <3> HIDE DEF list, rule
      <3> QED  BY <1>2, <1>3, <2>2, <3>2, <3>3 DEF Genuine
    <2> QED  BY <2>1, <2>2
  <1> QED  BY <1>5, <1>6

(***************************************************************************)
(* Rules are added at the end and keys are not removed, so that a rule     *)
(* goes on governing a name and a genuine packet stays genuine.            *)
(***************************************************************************)
LEMMA GovernsOn ==
    ASSUME schemas \in Seq(Rules), NEW new \in Rules, schemas' = Append(schemas, new),
           NEW rule, NEW name, Governs(rule, name)
    PROVE  Governs(rule, name)'
  <1>1. /\ DOMAIN schemas = 1..Len(schemas) /\ Len(schemas) \in Nat
        /\ DOMAIN schemas' = 1..(Len(schemas) + 1)
        /\ \A k \in DOMAIN schemas : schemas'[k] = schemas[k]
    OBVIOUS
  <1>2. PICK i \in DOMAIN schemas :
            /\ schemas[i] = rule
            /\ Match(rule.pktName, name)
            /\ \A j \in 1..(i - 1) : ~Match(schemas[j].pktName, name)
    BY DEF Governs
  <1>3. i \in DOMAIN schemas' /\ schemas'[i] = rule
    BY <1>1, <1>2
  <1>4. \A j \in 1..(i - 1) : j \in DOMAIN schemas
    BY <1>1
  <1>5. \A j \in 1..(i - 1) : ~Match(schemas'[j].pktName, name)
    BY <1>1, <1>2, <1>4
  <1> QED  BY <1>2, <1>3, <1>5 DEF Governs

Reported(r) == request[r] = "done" /\ kept[r] /\ verdict[r] = "valid"

Justified(r) ==
    \E rule \in Rules :
        Governs(rule, object[r].name) /\ Genuine(rule, trusted, object[r])

LEMMA AcceptedIsJustified ==
    /\ AcceptedIsSigned <=> \A r \in Requests : Reported(r) => Justified(r)
    /\ AcceptedIsSigned' <=> \A r \in Requests : Reported(r)' => Justified(r)'
  BY DEF AcceptedIsSigned, Reported, Justified, Genuine

(***************************************************************************)
(* A request that keeps its packet, in a step that only adds.              *)
(***************************************************************************)
LEMMA JustifiedOn ==
    ASSUME schemas \in Seq(Rules), trusted \subseteq trusted',
           \/ schemas' = schemas
           \/ \E rule \in Rules : schemas' = Append(schemas, rule),
           NEW r \in Requests, object'[r] = object[r], Justified(r)
    PROVE  Justified(r)'
  <1>1. PICK rule \in Rules :
            Governs(rule, object[r].name) /\ Genuine(rule, trusted, object[r])
    BY DEF Justified
  <1>2. Governs(rule, object[r].name)'
    <2> DEFINE name == object[r].name
    <2>1. name' = name
      OBVIOUS
    <2>2. \A n : Governs(rule, n) => Governs(rule, n)'
      <3>1. CASE schemas' = schemas
        BY <3>1 DEF Governs
      <3>2. CASE \E new \in Rules : schemas' = Append(schemas, new)
        BY <3>2, GovernsOn
      <3> QED  BY <3>1, <3>2
    <2> QED  BY <1>1, <2>1, <2>2 DEF Governs
  <1>3. Genuine(rule, trusted', object'[r])
    BY <1>1 DEF Genuine
  <1> QED  BY <1>2, <1>3 DEF Justified, Genuine, SignedBy

LEMMA FinishKeepsInv ==
    ASSUME Inv, NEW r \in Requests, NEW outcomes \in SUBSET Anything, Finish(r, outcomes),
           "valid" \in outcomes => Justified(r)
    PROVE  Inv'
  <1>1. /\ schemas' = schemas /\ trusted' = trusted /\ object' = object /\ kept' = kept
        /\ request' = [request EXCEPT ![r] = "done"]
        /\ request[r] = "pending" /\ verdict[r] = "none"
    BY DEF Finish, Inv
  <1>2. PICK outcome \in IF kept[r] THEN outcomes ELSE Anything :
            verdict' = IF outcome = "throws" THEN verdict
                                             ELSE [verdict EXCEPT ![r] = outcome]
    BY DEF Finish
  <1>3. ASSUME NEW q \in Requests, Reported(q)' PROVE Justified(q)'
    <2>1. CASE q = r
      <3>1. kept[r] /\ verdict'[r] = "valid"
        BY <1>1, <1>3, <2>1 DEF Reported
      <3>2. "valid" \in outcomes
        BY <1>1, <1>2, <3>1 DEF Inv
      <3> QED  BY <1>1, <2>1, <3>2, JustifiedOn DEF Inv
    <2>2. CASE q # r
      <3>1. Reported(q)
        BY <1>1, <1>2, <1>3, <2>2 DEF Reported, Inv
      <3>2. Justified(q)
        BY <3>1, AcceptedIsJustified DEF Inv
      <3> QED  BY <1>1, <3>2, JustifiedOn DEF Inv
    <2> QED  BY <2>1, <2>2
  <1>4. AcceptedIsSigned'
    BY <1>3, AcceptedIsJustified
  <1>5. /\ request' \in [Requests -> {"idle", "pending", "done"}]
        /\ \A q \in Requests : request'[q] # "done" => verdict'[q] = "none"
    <2>1. request' \in [Requests -> {"idle", "pending", "done"}]
      BY <1>1 DEF Inv
    <2>2. ASSUME NEW q \in Requests, request'[q] # "done" PROVE verdict'[q] = "none"
      <3>1. q # r /\ request[q] # "done"
        BY <1>1, <2>2 DEF Inv
      <3>2. verdict[q] = "none"
        BY <3>1 DEF Inv
      <3>3. verdict'[q] = verdict[q]
        BY <1>2, <3>1 DEF Inv
      <3> QED  BY <3>2, <3>3
    <2> QED  BY <2>1, <2>2
  <1>6. verdict' \in [Requests -> {"none", "valid", "invalid"}]
    <2>1. outcome \in {"valid", "invalid", "throws"}
      BY <1>2 DEF Anything
    <2> QED  BY <1>2, <2>1 DEF Inv
  <1> QED  BY <1>1, <1>4, <1>5, <1>6 DEF Inv

LEMMA InvInductive == Inv /\ [Next]_vars => Inv'
  <1> SUFFICES ASSUME Inv, [Next]_vars PROVE Inv'
    OBVIOUS
  <1>1. ASSUME NEW rule \in Rules, AddRule(rule) PROVE Inv'
    <2>1. /\ schemas' = Append(schemas, rule) /\ schemas' \in Seq(Rules)
          /\ UNCHANGED <<trusted, request, object, kept, verdict>>
      BY <1>1 DEF AddRule, Inv
    <2>2. ASSUME NEW r \in Requests, Reported(r)' PROVE Justified(r)'
      <3>1. Justified(r)
        BY <2>1, <2>2, AcceptedIsJustified DEF Inv, Reported
      <3> QED  BY <2>1, <3>1, JustifiedOn DEF Inv
    <2>3. AcceptedIsSigned'
      BY <2>2, AcceptedIsJustified
    <2> QED  BY <2>1, <2>3 DEF Inv
  <1>2. ASSUME NEW key \in TrustedIds, AddTrusted(key) PROVE Inv'
    <2>1. /\ trusted' = trusted \cup {key} /\ trusted' \in SUBSET TrustedIds
          /\ UNCHANGED <<schemas, request, object, kept, verdict>>
      BY <1>2 DEF AddTrusted, Inv
    <2>2. ASSUME NEW r \in Requests, Reported(r)' PROVE Justified(r)'
      <3>1. Justified(r)
        BY <2>1, <2>2, AcceptedIsJustified DEF Inv, Reported
      <3> QED  BY <2>1, <3>1, JustifiedOn DEF Inv
    <2>3. AcceptedIsSigned'
      BY <2>2, AcceptedIsJustified
    <2> QED  BY <2>1, <2>3 DEF Inv
  <1>3. ASSUME NEW r \in Requests, NEW data \in DataPackets, NEW keep \in BOOLEAN,
               Ask(r, data, keep)
        PROVE  Inv'
    <2>1. /\ UNCHANGED <<schemas, trusted>>
          /\ request[r] = "idle"
          /\ object' = [object EXCEPT ![r] = data]
          /\ kept' = [kept EXCEPT ![r] = keep]
          /\ \/ /\ request' = [request EXCEPT ![r] = "done"]
                /\ verdict' = [verdict EXCEPT ![r] = "invalid"]
             \/ /\ request' = [request EXCEPT ![r] = "pending"]
                /\ verdict' = verdict
      BY <1>3 DEF Ask
    <2>2. ASSUME NEW q \in Requests, Reported(q)' PROVE Justified(q)'
      <3>1. q # r
        BY <2>1, <2>2 DEF Reported, Inv
      <3>2. Reported(q) /\ object'[q] = object[q]
        BY <2>1, <2>2, <3>1 DEF Reported, Inv
      <3>3. Justified(q)
        BY <3>2, AcceptedIsJustified DEF Inv
      <3> QED  BY <2>1, <3>2, <3>3, JustifiedOn DEF Inv
    <2>3. AcceptedIsSigned'
      BY <2>2, AcceptedIsJustified
    <2>4. /\ request' \in [Requests -> {"idle", "pending", "done"}]
          /\ DOMAIN object' = Requests /\ kept' \in [Requests -> BOOLEAN]
          /\ verdict' \in [Requests -> {"none", "valid", "invalid"}]
          /\ \A q \in Requests : request'[q] # "done" => verdict'[q] = "none"
      BY <2>1 DEF Inv
    <2> QED  BY <2>1, <2>3, <2>4 DEF Inv
  <1>4. ASSUME NEW r \in Requests, NEW data \in DataPackets, Reuse(r, data) PROVE Inv'
    <2>1. /\ UNCHANGED <<schemas, trusted, request, kept, verdict>>
          /\ request[r] = "pending"
          /\ object' = [object EXCEPT ![r] = data]
      BY <1>4 DEF Reuse
    <2>2. ASSUME NEW q \in Requests, Reported(q)' PROVE Justified(q)'
      <3>1. Reported(q) /\ q # r
        BY <2>1, <2>2 DEF Reported
      <3>2. object'[q] = object[q]
        BY <2>1, <3>1 DEF Inv
      <3>3. Justified(q)
        BY <3>1, AcceptedIsJustified DEF Inv
      <3> QED  BY <2>1, <3>2, <3>3, JustifiedOn DEF Inv
    <2>3. AcceptedIsSigned'
      BY <2>2, AcceptedIsJustified
    <2> QED  BY <2>1, <2>3 DEF Inv
  <1>5. ASSUME NEW r \in Requests, Outcome(r) PROVE Inv'
    <2>1. CASE OnInfoFails(r)
      BY <2>1, FinishKeepsInv DEF OnInfoFails, Anything
    <2>2. ASSUME NEW info \in InfoPackets, OnInfo(r, info) PROVE Inv'
      <3> DEFINE outcomes == VerifyOutcomes(schemas, trusted, object[r], info)
      <3>1. Finish(r, outcomes)
        BY <2>2 DEF OnInfo
      <3>2. "valid" \in outcomes => Justified(r)
        BY ValidIsGenuine DEF Justified, Inv
      <3>3. outcomes \in SUBSET Anything
        BY DEF VerifyOutcomes, SignatureVerdicts, Verdict, Anything
      <3> HIDE DEF outcomes
      <3> QED  BY <3>1, <3>2, <3>3, FinishKeepsInv
    <2> QED  BY <1>5, <2>1, <2>2 DEF Outcome
  <1>6. CASE UNCHANGED vars
    <2>1. UNCHANGED <<schemas, trusted, request, object, kept, verdict>>
      BY <1>6 DEF vars
    <2>2. ASSUME NEW r \in Requests, Reported(r)' PROVE Justified(r)'
      <3>1. Justified(r)
        BY <2>1, <2>2, AcceptedIsJustified DEF Inv, Reported
      <3> QED  BY <2>1, <3>1, JustifiedOn DEF Inv
    <2>3. AcceptedIsSigned'
      BY <2>2, AcceptedIsJustified
    <2> QED  BY <2>1, <2>3 DEF Inv
  <1> QED  BY <1>1, <1>2, <1>3, <1>4, <1>5, <1>6 DEF Next

(***************************************************************************)
(* What is reported as valid has been signed by whom the governing rule    *)
(* asks for.                                                               *)
(***************************************************************************)
THEOREM AcceptedWasSigned == Spec => []AcceptedIsSigned
  <1>1. Inv => AcceptedIsSigned
    BY DEF Inv
  <1> QED  BY <1>1, InitInv, InvInductive, PTL DEF Spec

(***************************************************************************)
(* What verify accepts it goes on accepting.                               *)
(***************************************************************************)
THEOREM AcceptedForGood == Spec => AcceptanceStable
  <1>1. ASSUME Inv, [Next]_vars, NEW r \in Requests, NEW info \in InfoPackets,
               VerifyOutcomes(schemas, trusted, object[r], info) = {"valid"}
        PROVE  VerifyOutcomes(schemas', trusted', object[r], info) = {"valid"}
    <2> DEFINE data == object[r]
    <2>1. \/ schemas' = schemas /\ trusted' = trusted
          \/ trusted' = trusted /\ \E rule \in Rules : schemas' = Append(schemas, rule)
          \/ schemas' = schemas /\ \E key \in TrustedIds : trusted' = trusted \cup {key}
      BY <1>1 DEF Next, AddRule, AddTrusted, Ask, Reuse, Outcome, OnInfo, OnInfoFails,
                  Finish, vars
    <2>2. ASSUME NEW list, SchemaPassed(schemas, trusted, data.name, list)
          PROVE  SchemaPassed(schemas', trusted', data.name, list)
      <3>1. schemas \in Seq(Rules)
        BY <1>1 DEF Inv
      <3> HIDE DEF data
      <3>2. /\ \A key : SchemaPassed(schemas, trusted \cup {key}, data.name, list)
            /\ \A rule \in Rules :
                   SchemaPassed(Append(schemas, rule), trusted, data.name, list)
        BY <2>2, <3>1, PassesWithMore
      <3> QED  BY <2>1, <2>2, <3>2
    <2> QED  BY <1>1, <2>2, AcceptedWithMore
  <1>2. Inv /\ [Next]_vars =>
            [\A r \in Requests, info \in InfoPackets :
                VerifyOutcomes(schemas, trusted, object[r], info) = {"valid"}
                    => VerifyOutcomes(schemas', trusted', object[r], info) = {"valid"}
            ]_<<schemas, trusted>>
    BY <1>1
  <1> QED  BY <1>2, InitInv, InvInductive, PTL DEF Spec, AcceptanceStable

=============================================================================

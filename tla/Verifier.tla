------------------------------ MODULE Verifier ------------------------------
(***************************************************************************)
(* BLSVerifier::verify, the acceptance test of a multi-party signature,    *)
(* with the signer list that the info packet carries.                      *)
(*                                                                         *)
(* A data packet is [name, locator, signature]; its signed portion is the  *)
(* name (which stands for name and content) and the key locator.  A packet *)
(* without a key locator has NoLocator.  An info packet is [name, content],*)
(* its content a sequence of blocks [type, elements].                      *)
(***************************************************************************)
EXTENDS Schema, BlsHelpers

NoLocator == << >>

Portion(name, locator) == <<name, locator>>

-----------------------------------------------------------------------------
(* MpsSignerList::wireEncode and wireDecode, and Block::get (external),    *)
(* which throws when there is no element of the type: HasSignerList.       *)
WireEncode(list) == [type |-> "MpsSignerList", elements |-> list]

HasSignerList(content) == \E i \in DOMAIN content : content[i].type = "MpsSignerList"

WireDecode(content) ==
    content[Min({i \in DOMAIN content : content[i].type = "MpsSignerList"})].elements

(***************************************************************************)
(* MultipartySchemaContainer::aggregateKey, for the trusted keys of a      *)
(* list; of the empty list it returns an uninitialized key, and BLSVerify  *)
(* may say anything.                                                       *)
(***************************************************************************)
AggregateKey(list) == AggregatePublicKey([i \in DOMAIN list |-> PublicKey(<<list[i], 0>>)])

Verdict(valid) == IF valid THEN "valid" ELSE "invalid"

SignatureVerdicts(list, data) ==
    IF list = <<>>
    THEN {"valid", "invalid"}
    ELSE {Verdict(BLSVerify(AggregateKey(list), Portion(data.name, data.locator),
                            data.signature))}

SchemaUnchecked(schemas, trusted, name, list) ==   \* mutant: passSchema is not called
    \A i \in DOMAIN list : list[i] \in trusted

(* trusted is m_trustedIds, a part of the keys that may ever be trusted. *)
SchemaPassed(schemas, trusted, name, list) ==
    /\ \A i \in DOMAIN list : list[i] \in trusted
    /\ ContainerPassSchema(schemas, name, list)

(* What verify may do: return true, return false, or throw. *)
VerifyOutcomes(schemas, trusted, data, info) ==
    IF data.locator = NoLocator \/ ~IsPrefix(data.locator, info.name)
    THEN {"invalid"}
    ELSE IF ~HasSignerList(info.content) THEN {"throws"}
    ELSE IF ~SchemaPassed(schemas, trusted, data.name, WireDecode(info.content))
    THEN {"invalid"}
    ELSE SignatureVerdicts(WireDecode(info.content), data)

=============================================================================

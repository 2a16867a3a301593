------------------------------ MODULE EndToEnd ------------------------------
(***************************************************************************)
(* What an initiator hands to m_successCb, given to a verifier that trusts *)
(* the same keys and has the sessions' rules, in the order of RuleList.    *)
(***************************************************************************)
EXTENDS SigningRefinement, Verifier

CONSTANT RuleList   \* the verifier's m_schemas

PacketName(s) == <<SchemaOf[s].pktName.name[1]>>

(* prepareUnfinishedDataAndInfoData draws one random locator name for the  *)
(* session's data packet and its info packet; the session stands for it.   *)
Locator(s) == <<s>>

(* The piece a signer made of the session's unfinished packet. *)
PieceSignature(s, piece) ==
    GenBLSSignature(<<KeyOf(piece.call), piece.gen>>, Portion(PacketName(s), Locator(s)))

SignedData(s) ==
    [name |-> PacketName(s), locator |-> Locator(s),
     signature |-> AggregateSignature([i \in DOMAIN fetched[s] |->
                                          PieceSignature(s, fetched[s][i])])]

InfoData(s) == [name |-> Locator(s),
                content |-> <<WireEncode(InOrder(signers[s]))>>]

(***************************************************************************)
(* initiator.hpp:42 calls the rule given to multiPartySign "the schema to  *)
(* satisfy with the signature", and players.t.cpp:198 expects, after a     *)
(* signer was replaced, verifier.verify(signedData, infoData): a result    *)
(* the application gets passes verification if every signer that took part *)
(* still had its enrolled key pair.  (Of the others see PiecesVerified.)   *)
(***************************************************************************)
SuccessVerifies ==
    \A s \in Sessions :
        successes[s] > 0 /\ (\A i \in DOMAIN fetched[s] : fetched[s][i].gen = 0) =>
            VerifyOutcomes(RuleList, TrustedIds, SignedData(s), InfoData(s))
                = {Verdict(TRUE)}

(***************************************************************************)
(* multiparty-signing-protocol.md:30: "The initiator verifies each         *)
(* returned signature and aggregates them with the original data into one  *)
(* signed data object."  Every piece kept for the aggregate verifies with  *)
(* the enrolled public key of the signer it came from.                     *)
(***************************************************************************)
PiecesVerified ==
    \A s \in Sessions : \A i \in DOMAIN fetched[s] :
        LET piece == fetched[s][i]
        IN  BLSVerify(PublicKey(<<KeyOf(piece.call), 0>>),
                      Portion(PacketName(s), Locator(s)), PieceSignature(s, piece))

=============================================================================

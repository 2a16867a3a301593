------------------------------- MODULE Signer -------------------------------
(***************************************************************************)
(* BLSSigner: one signer for each key name, with one SignRequestState for  *)
(* each sign request it accepted.  The applications' two callbacks         *)
(* (verifySignRequest and verifyToBeSigned) are choices.                   *)
(***************************************************************************)
EXTENDS Packets

VARIABLES
    code,        \* code[c]: m_code, "none" when there is no SignRequestState
    version,     \* version[c]: m_version
    listening,   \* listening[c]: is the result filter registered
    fetching,    \* fetching[c]: is the Interest for the parameter outstanding
    generation   \* generation[k]: counts the key pairs the constructor made

signerVars == <<code, version, listening, fetching, generation>>

SignerInit ==
    /\ code = [c \in Calls |-> "none"]
    /\ version = [c \in Calls |-> 0]
    /\ listening = [c \in Calls |-> FALSE]
    /\ fetching = [c \in Calls |-> FALSE]
    /\ generation = [k \in TrustedIds |-> 0]

(* mutant: m_code is not initialized *)
OnSignRequestNoCode(c, accepted) ==
    /\ SignRequest(c) \in net
    /\ accepted
    /\ listening' = [listening EXCEPT ![c] = TRUE]
    /\ fetching' = [fetching EXCEPT ![c] = TRUE]
    /\ net' = (net \ {SignRequest(c)}) \cup {Ack(c, TRUE), ParamInterest(c)}
    /\ UNCHANGED <<code, version, generation>>

(***************************************************************************)
(* onSignRequest.  A rejected request is answered by an ack without keys.  *)
(* An accepted one gets its state, its result filter, an ack, and the      *)
(* parameter Interest, sent without waiting for anything.                  *)
(***************************************************************************)
OnSignRequest(c, accepted) ==
    /\ SignRequest(c) \in net
    /\ accepted \/ "reject" \in Faults
    /\ IF accepted
       THEN /\ code' = [code EXCEPT ![c] = "102"]
            /\ version' = [version EXCEPT ![c] = 0]
            /\ listening' = [listening EXCEPT ![c] = TRUE]
            /\ fetching' = [fetching EXCEPT ![c] = TRUE]
            /\ net' = (net \ {SignRequest(c)})
                          \cup {Ack(c, TRUE), ParamInterest(c)}
       ELSE /\ net' = (net \ {SignRequest(c)}) \cup {Ack(c, FALSE)}
            /\ UNCHANGED <<code, version, listening, fetching>>
    /\ UNCHANGED generation

(***************************************************************************)
(* What the parameter packet leads to: its HMAC is wrong and the callback  *)
(* returns (the code stays 102); it does not decode; the application       *)
(* refuses it; or it is signed.                                            *)
(***************************************************************************)
ParamOutcomes ==
    {"200"} \cup (IF "corrupt" \in Faults THEN {"102"} ELSE {})
            \cup (IF "undecodable" \in Faults THEN {"424"} ELSE {})
            \cup (IF "refuse" \in Faults THEN {"401"} ELSE {})

OnParamData(c, outcome) ==
    /\ fetching[c]
    /\ ParamData(c) \in net
    /\ outcome \in ParamOutcomes
    /\ code' = [code EXCEPT ![c] = outcome]
    /\ fetching' = [fetching EXCEPT ![c] = FALSE]
    /\ net' = net \ {ParamData(c)}
    /\ UNCHANGED <<version, listening, generation>>

(* mutant: the nack and timeout callbacks do nothing *)
ParamFetchFailsSilently(c, unserved) ==
    /\ fetching[c]
    /\ "loss" \in Faults \/ unserved
    /\ fetching' = [fetching EXCEPT ![c] = FALSE]
    /\ UNCHANGED <<code, version, listening, generation, net>>

(* The parameter Interest is nacked or times out: by a fault, or because   *)
(* the initiator does not serve it (any more).                             *)
ParamFetchFails(c, unserved) ==
    /\ fetching[c]
    /\ "loss" \in Faults \/ unserved
    /\ code' = [code EXCEPT ![c] = "424"]
    /\ fetching' = [fetching EXCEPT ![c] = FALSE]
    /\ UNCHANGED <<version, listening, generation, net>>

(***************************************************************************)
(* The result filter and generateResultData: "processing" announces the    *)
(* next version, any other code removes the filter before the answer is    *)
(* sent.  The version asked for is not looked at.  m_version is counted up *)
(* to MaxVersion: nothing depends on it but the name announced.            *)
(***************************************************************************)
OnResultInterest(c, asked) ==
    /\ listening[c]
    /\ ResultInterest(c, asked) \in net
    /\ IF code[c] = "102"
       THEN /\ version' = [version EXCEPT ![c] = Min({@ + 1, MaxVersion})]
            /\ UNCHANGED listening
       ELSE /\ listening' = [listening EXCEPT ![c] = FALSE]
            /\ UNCHANGED version
    /\ net' = (net \ {ResultInterest(c, asked)})
                  \cup {ResultData(c, code[c], generation[KeyOf(c)])}
    /\ UNCHANGED <<code, fetching, generation>>

(***************************************************************************)
(* The signer's process ends and a new BLSSigner is constructed with the   *)
(* same key name: every SignRequestState is gone, and the constructor has  *)
(* made a new random key pair.                                             *)
(***************************************************************************)
Restart(k) ==
    LET gone(c) == KeyOf(c) = k
    IN  /\ generation[k] < MaxRestarts
        /\ generation' = [generation EXCEPT ![k] = @ + 1]
        /\ code' = [c \in Calls |-> IF gone(c) THEN "none" ELSE code[c]]
        /\ version' = [c \in Calls |-> IF gone(c) THEN 0 ELSE version[c]]
        /\ listening' = [c \in Calls |-> ~gone(c) /\ listening[c]]
        /\ fetching' = [c \in Calls |-> ~gone(c) /\ fetching[c]]
        /\ UNCHANGED net

=============================================================================

------------------------------ MODULE Packets -------------------------------
(***************************************************************************)
(* The packets of the signing protocol and the NDN network that carries    *)
(* them (external: ndn-cxx Face and forwarder).                            *)
(*                                                                         *)
(* An RPC is the exchange of one initiator with one signer for one signing *)
(* session.  It is named by a call <<session, key, epoch>>; the epoch      *)
(* counts the resets of the container's cache of unavailable signers,      *)
(* without which a key is asked at most once in a session.  The random     *)
(* numbers in the parameter and result names make the packets of different *)
(* calls different, which the field "call" stands for.                     *)
(*                                                                         *)
(* net is the set of packets in flight.  Any of them may be delivered      *)
(* next; an Interest is delivered at most once (nonces) and a Data packet  *)
(* only to the Interest that awaits it.  A lost packet is one that is      *)
(* never delivered.                                                        *)
(***************************************************************************)
EXTENDS Schema

CONSTANTS
    Sessions,      \* the calls of multiPartySign
    MaxResets,     \* bound on resetCachedUnavailableSigners
    MaxRestarts,   \* bound on the restarts of each signer
    MaxVersion,    \* m_version is counted up to this number
    Faults         \* what may go wrong, see FaultKinds

(***************************************************************************)
(* "loss"        any Interest may time out or be nacked, whatever became   *)
(*               of it and of its Data                                     *)
(* "offline"     a sign request may be lost before it reaches the signer   *)
(* "reorder"     a parameter Interest may overtake the ack sent before it, *)
(*               and the result timer may fire before the parameter        *)
(*               exchange is over                                          *)
(* "reject"      the signer's application may reject a sign request        *)
(* "refuse"      the signer's application may refuse the data to be signed *)
(* "undecodable" the parameter content may fail to decode                  *)
(* "corrupt"     an ack may fail to decrypt, a Data packet may fail its    *)
(*               HMAC                                                      *)
(***************************************************************************)
FaultKinds == {"loss", "offline", "reorder", "reject", "refuse",
               "undecodable", "corrupt"}

ASSUME BoundsAssumption == MaxResets \in Nat /\ MaxRestarts \in Nat
                           /\ MaxVersion \in Nat
ASSUME FaultsAssumption == Faults \subseteq FaultKinds

Epochs == 1..(MaxResets + 1)
Generations == 0..MaxRestarts
Calls == Sessions \X TrustedIds \X Epochs

SessionOf(c) == c[1]
KeyOf(c) == c[2]
EpochOf(c) == c[3]

Codes == {"102", "200", "401", "424"}     \* ReplyCode

SignRequest(c) == [type |-> "SignRequest", call |-> c]

(* The ack always carries status 102; only that of an accepted request has *)
(* the ECDH key, the salt and the encrypted result name (keyed).           *)
Ack(c, keyed) == [type |-> "Ack", call |-> c, status |-> "102", keyed |-> keyed]

ParamInterest(c) == [type |-> "ParamInterest", call |-> c]
ParamData(c) == [type |-> "ParamData", call |-> c]

(* asked is the version, the last component of the result name.            *)
ResultInterest(c, asked) ==
    [type |-> "ResultInterest", call |-> c, asked |-> asked]

(* gen tells which BLS key pair of the signer made the signature.          *)
ResultData(c, reply, gen) ==
    [type |-> "ResultData", call |-> c, reply |-> reply, gen |-> gen]

PacketSet ==
    [type : {"SignRequest", "ParamInterest", "ParamData"}, call : Calls]
    \cup [type : {"Ack"}, call : Calls, status : {"102"}, keyed : BOOLEAN]
    \cup [type : {"ResultInterest"}, call : Calls, asked : 0..MaxVersion]
    \cup [type : {"ResultData"}, call : Calls, reply : Codes,
          gen : Generations]

VARIABLE net

(* A signer sends the ack before the parameter Interest: unless packets    *)
(* are lost or reordered the Interest does not arrive first.               *)
AckArrivesFirst(c) ==
    \/ Faults \cap {"loss", "reorder"} # {}
    \/ \A keyed \in BOOLEAN : Ack(c, keyed) \notin net

=============================================================================

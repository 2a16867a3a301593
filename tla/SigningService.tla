--------------------------- MODULE SigningService ---------------------------
(***************************************************************************)
(* What MPSInitiator promises the application that calls multiPartySign,   *)
(* without signers, packets or timers: the call throws, or the session is  *)
(* open until it is signed by keys the rule asks for or has failed, and    *)
(* then it stays as it is.  The contract is that of initiator.hpp: the     *)
(* rule is "the schema to satisfy with the signature", and one of the two  *)
(* callbacks tells how it ended.                                           *)
(***************************************************************************)
CONSTANTS
    TrustedIds,     \* the key names of the signers
    Sessions,       \* the calls of multiPartySign
    SchemaOf,       \* the rule each session is called with
    Filled(_, _)    \* whether a set of keys is enough for a pattern

VARIABLES
    status,     \* what the application knows of the session
    result      \* the keys whose pieces are in the signature it was given

vars == <<status, result>>

(* The keys meet every all-of pattern of the session's rule.  (The         *)
(* at-least-num of the optional patterns is not promised: see the run      *)
(* optional_shortage.)                                                     *)
Covers(s, keys) ==
    \A i \in DOMAIN SchemaOf[s].required : Filled(keys, SchemaOf[s].required[i])

Init ==
    /\ status = [s \in Sessions |-> "idle"]
    /\ result = [s \in Sessions |-> {}]

(* multiPartySign throws, reports failure at once or starts. *)
Open(s) ==
    /\ status[s] = "idle"
    /\ \E now \in {"threw", "failed", "open"} : status' = [status EXCEPT ![s] = now]
    /\ UNCHANGED result

Sign(s) ==
    /\ status[s] = "open"
    /\ status' = [status EXCEPT ![s] = "signed"]
    /\ \E keys \in (SUBSET TrustedIds) \ {{}} :
          Covers(s, keys) /\ result' = [result EXCEPT ![s] = keys]

Fail(s) ==
    /\ status[s] = "open"
    /\ status' = [status EXCEPT ![s] = "failed"]
    /\ UNCHANGED result

Next == \E s \in Sessions : Open(s) \/ Sign(s) \/ Fail(s)

Spec == Init /\ [][Next]_vars

=============================================================================

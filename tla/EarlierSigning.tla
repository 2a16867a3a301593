--------------------------- MODULE EarlierSigning ---------------------------
(***************************************************************************)
(* The earlier implementation in src/temp: players.cpp's Initiator and     *)
(* Signer.  The initiator asks every signer it knows that the rule         *)
(* mentions, verifies each piece, and counts on a timer instead of on      *)
(* replacements.                                                           *)
(*                                                                         *)
(* MultipartySchema::getMinSigners and getKeyMatches, which this code      *)
(* calls, are not in the repository any more.  From how it uses them: the  *)
(* first is non-empty exactly when the keys suffice for the rule, the      *)
(* second when the key can contribute.  Quorums[s] are the sets of keys    *)
(* that suffice for session s, none of them empty.                         *)
(***************************************************************************)
EXTENDS Integers, FiniteSets

CONSTANTS
    Sessions,   \* the calls of multiPartySign
    Keys,       \* the key names of the signers
    Quorums,    \* Quorums[s], see above
    Faulty      \* the signers that may refuse, be out of reach, or have been
                \* restarted, and so have another key pair than was enrolled

ASSUME QuorumsAssumption ==
    /\ DOMAIN Quorums = Sessions
    /\ \A s \in Sessions : Quorums[s] \subseteq (SUBSET Keys) \ {{}}
    /\ Faulty \subseteq Keys

KeyMatches(s, k) == k \in UNION Quorums[s]
Enough(s, keys) == \E quorum \in Quorums[s] : quorum \subseteq keys

(* One signer asked in one session; the random ids and names of the code   *)
(* (request id, wrapper name) are the call or its session.                 *)
Calls == Sessions \X Keys
SessionOf(c) == c[1]
KeyOf(c) == c[2]

VARIABLES
    known,      \* the keys in m_keyToPrefix and in the verifier's certs
    record,     \* m_records: "new", "open" (there is one) or "over"
    available,  \* availableKeys of the record
    pieces,     \* signaturePieces of the record: <<key, session it was made for>>
    timer,      \* the scheduled onSignTimeout: "off" or "set"
    wrapped,    \* the sessions with an entry in m_wrapToId
    stage,      \* the chain of callbacks for a call, see Stages
    successes,  \* calls of onSuccess
    failures,   \* calls of onFailure
    loop,       \* the initiator's thread
    results,    \* the signers' m_results
    fetch,      \* a signer's fetch of the wrapper: "none", "waiting", "over"
    net         \* the packets in flight

initiatorVars == <<known, record, available, pieces, timer, wrapped, stage,
                   successes, failures, loop>>
signerVars == <<results, fetch>>
vars == <<initiatorVars, signerVars, net>>

(* The time for which a pull of the result is scheduled is part of the way *)
(* of its Interest.                                                        *)
Stages == {"none", "requested", "asked", "ended"}

Codes == {"102", "200", "4xx"}   \* 401 and 424 are treated alike

(* The signature in a result is that of the enrolled key pair for the       *)
(* packet of session "for", or, with "none", there is none that verifies.   *)
NoResult == [code |-> "none", for |-> "none"]   \* no entry in m_results

Packet(type, c) == [type |-> type, call |-> c]
Ack(c, named) == [type |-> "Ack", call |-> c, named |-> named]
Pull(c, renewed) == [type |-> "Pull", call |-> c, renewed |-> renewed]
Answer(c, result) == [type |-> "Answer", call |-> c, result |-> result]

Init ==
    /\ known = {}
    /\ record = [s \in Sessions |-> "new"]
    /\ available = [s \in Sessions |-> {}]
    /\ pieces = [s \in Sessions |-> {}]
    /\ timer = [s \in Sessions |-> "off"]
    /\ wrapped = {}
    /\ stage = [c \in Calls |-> "none"]
    /\ successes = [s \in Sessions |-> 0]
    /\ failures = [s \in Sessions |-> 0]
    /\ loop = "running"
    /\ results = [c \in Calls |-> NoResult]
    /\ fetch = [c \in Calls |-> "none"]
    /\ net = {}

-----------------------------------------------------------------------------
(* Initiator *)

(* addSigner with a key value.  (Without one it throws, or does the same   *)
(* for a key that has a certificate.)                                      *)
AddSigner(k) ==
    /\ k \notin known
    /\ known' = known \cup {k}
    /\ UNCHANGED <<record, available, pieces, timer, wrapped, stage, successes,
                   failures, loop, net>>

MultiPartySign(s) ==
    LET keys == {k \in known : KeyMatches(s, k)}
        calls == {s} \X keys
    IN  /\ record[s] = "new"
        /\ IF Enough(s, keys)
           THEN /\ record' = [record EXCEPT ![s] = "open"]
                /\ available' = [available EXCEPT ![s] = keys]
                /\ wrapped' = wrapped \cup {s}
                /\ timer' = [timer EXCEPT ![s] = "set"]
                /\ stage' = [c \in Calls |-> IF c \in calls THEN "requested" ELSE stage[c]]
                /\ net' = net \cup {Packet("Request", c) : c \in calls}
                /\ UNCHANGED failures
           ELSE /\ record' = [record EXCEPT ![s] = "over"]
                /\ failures' = [failures EXCEPT ![s] = @ + 1]
                /\ UNCHANGED <<available, wrapped, timer, stage, net>>
        /\ UNCHANGED <<known, pieces, successes, loop>>

(* The calls whose wrapper onWrapperFetch finds. *)
OpenCalls == {c \in Calls : SessionOf(c) \in wrapped /\ record[SessionOf(c)] = "open"}

(* onWrapperFetch: if one of the two maps does not know the session a Nack  *)
(* is sent, which is as good as no answer (OnWrapperFails).                *)
OnWrapperFetch(c) ==
    /\ Packet("WrapperInterest", c) \in net
    /\ net' = (net \ {Packet("WrapperInterest", c)})
                  \cup {Packet("Wrapper", d) : d \in {c} \cap OpenCalls}
    /\ UNCHANGED initiatorVars

LoseForgotten(s, k) ==   \* mutant: the record of the failed session is kept
    IF record[s] # "open" \/ k \notin available[s]
    THEN UNCHANGED <<record, available, failures>>
    ELSE /\ available' = [available EXCEPT ![s] = @ \ {k}]
         /\ failures' = IF Enough(s, available'[s]) THEN failures
                        ELSE [failures EXCEPT ![s] = @ + 1]
         /\ UNCHANGED record

LoseUnchecked(s, k) ==   \* mutant: the keys are counted before one is erased
    IF record[s] # "open" \/ k \notin available[s]
    THEN UNCHANGED <<record, available, failures>>
    ELSE /\ available' = [available EXCEPT ![s] = @ \ {k}]
         /\ UNCHANGED <<record, failures>>

(***************************************************************************)
(* keyLossTimeout, which leaves the timer and m_wrapToId alone when it     *)
(* ends the session.                                                       *)
(***************************************************************************)
Lose(s, k) ==
    IF record[s] # "open" \/ k \notin available[s]
    THEN UNCHANGED <<record, available, failures>>
    ELSE /\ available' = [available EXCEPT ![s] = @ \ {k}]
         /\ IF Enough(s, available'[s])
            THEN UNCHANGED <<record, failures>>
            ELSE /\ record' = [record EXCEPT ![s] = "over"]
                 /\ failures' = [failures EXCEPT ![s] = @ + 1]

KeyLossTimeout(c) ==
    Lose(SessionOf(c), KeyOf(c)) /\ UNCHANGED <<known, pieces, timer, wrapped, successes>>

(* successCleanup *)
SuccessCleanup(s) ==
    /\ successes' = [successes EXCEPT ![s] = @ + 1]
    /\ timer' = [timer EXCEPT ![s] = "off"]
    /\ wrapped' = wrapped \ {s}
    /\ record' = [record EXCEPT ![s] = "over"]

AnyPiece(c, for) == TRUE   \* mutant: the piece is not verified

(* MpsVerifier::verifySignaturePiece, on the session's own packet. *)
VerifySignaturePiece(c, for) == for = SessionOf(c)

(* onData for status 200: add the piece, and finish when it is enough. *)
AddPiece(c, for) ==
    LET s == SessionOf(c)
        now == pieces[s] \cup {<<KeyOf(c), for>>}
    IN  /\ pieces' = [pieces EXCEPT ![s] = now]
        /\ IF Enough(s, {p[1] : p \in now})
           THEN SuccessCleanup(s)
           ELSE UNCHANGED <<successes, timer, wrapped, record>>
        /\ UNCHANGED <<known, available, failures>>

Unchanged == UNCHANGED <<known, record, available, pieces, timer, wrapped,
                         successes, failures>>

(***************************************************************************)
(* onData schedules a pull of the result: under the name in the ack or,    *)
(* after an answer that it is still being processed, under the renewed     *)
(* one, which has a version.  The pull does not look whether the session   *)
(* is still open.                                                          *)
(***************************************************************************)
SchedulePull(c, renewed, packet) ==
    /\ stage' = [stage EXCEPT ![c] = "asked"]
    /\ net' = (net \ {packet}) \cup {Pull(c, renewed)}
    /\ Unchanged /\ UNCHANGED loop

EndChain(c, packet) ==
    stage' = [stage EXCEPT ![c] = "ended"] /\ net' = net \ {packet}

(***************************************************************************)
(* onData with an ack.  The ack of a rejected request says 102, too, but   *)
(* has no ResultAfter block: Block::get throws out of the event loop       *)
(* before the branch that would give the key up is reached.                *)
(***************************************************************************)
OnAck(c, named) ==
    /\ stage[c] = "requested"
    /\ Ack(c, named) \in net
    /\ IF record[SessionOf(c)] = "open" /\ named
       THEN SchedulePull(c, FALSE, Ack(c, named))
       ELSE /\ EndChain(c, Ack(c, named))
            /\ loop' = IF record[SessionOf(c)] = "open" THEN "crashed" ELSE loop
            /\ Unchanged

(* onData with the answer to a pull *)
OnAnswer(c, result) ==
    /\ stage[c] = "asked"
    /\ Answer(c, result) \in net
    /\ IF record[SessionOf(c)] = "open" /\ result.code = "102"
       THEN SchedulePull(c, TRUE, Answer(c, result))
       ELSE /\ EndChain(c, Answer(c, result))
            /\ IF record[SessionOf(c)] # "open" THEN Unchanged
               ELSE IF result.code = "200" /\ VerifySignaturePiece(c, result.for)
               THEN AddPiece(c, result.for)
               ELSE KeyLossTimeout(c)
            /\ UNCHANGED loop

(* The Interest will not be answered: the signer has ignored it. *)
Unanswered(c) ==
    ~\E p \in net : p.call = c /\ p.type \in {"Request", "Ack", "Pull", "Answer"}

(* onNack and onTimeout for a request or a pull, at any time: its Interest *)
(* or the Data was lost, or the Data comes too late and the Face drops it. *)
InterestFails(c) ==
    /\ stage[c] \in {"requested", "asked"}
    /\ KeyOf(c) \in Faulty \/ Unanswered(c)
    /\ net' = {p \in net : p.call # c \/ p.type \notin {"Request", "Ack", "Pull", "Answer"}}
    /\ stage' = [stage EXCEPT ![c] = "ended"]
    /\ KeyLossTimeout(c)
    /\ UNCHANGED loop

FailSilently(s) ==   \* mutant: onFailure is not called
    record' = [record EXCEPT ![s] = "over"] /\ UNCHANGED <<successes, failures>>

FailAtTimeout(s) ==
    /\ record' = [record EXCEPT ![s] = "over"]
    /\ failures' = [failures EXCEPT ![s] = @ + 1]
    /\ UNCHANGED successes

OnSignTimeout(s) ==
    /\ loop = "running"
    /\ timer[s] = "set"
    /\ timer' = [timer EXCEPT ![s] = "off"]
    /\ IF record[s] # "open"
       THEN UNCHANGED <<record, wrapped, successes, failures>>
       ELSE /\ wrapped' = wrapped \ {s}
            /\ IF Enough(s, {p[1] : p \in pieces[s]})
               THEN SuccessCleanup(s) /\ UNCHANGED failures
               ELSE FailAtTimeout(s)
    /\ UNCHANGED <<known, available, pieces, stage, loop, net, signerVars>>

-----------------------------------------------------------------------------
(* Signer *)

(***************************************************************************)
(* onSignRequest: without an application callback, with one that says no,  *)
(* or with a malformed request the ack names no result; otherwise an entry *)
(* of m_results is made and the wrapper is fetched.                        *)
(***************************************************************************)
OnSignRequest(c, accepted) ==
    /\ Packet("Request", c) \in net
    /\ accepted \/ KeyOf(c) \in Faulty
    /\ IF accepted
       THEN /\ results' = [results EXCEPT ![c] = [code |-> "102", for |-> "none"]]
            /\ fetch' = [fetch EXCEPT ![c] = "waiting"]
            /\ net' = (net \ {Packet("Request", c)})
                          \cup {Ack(c, TRUE), Packet("WrapperInterest", c)}
       ELSE /\ net' = (net \ {Packet("Request", c)}) \cup {Ack(c, FALSE)}
            /\ UNCHANGED <<results, fetch>>

(***************************************************************************)
(* The callbacks of that fetch hold the request id by reference, and it is *)
(* gone when they run: they write to the right entry, to that of another   *)
(* request of the signer, or to one that nobody will ask for.              *)
(***************************************************************************)
Write(c, code, for) ==
    /\ fetch' = [fetch EXCEPT ![c] = "over"]
    /\ \/ UNCHANGED results
       \/ \E d \in Calls :
             /\ KeyOf(d) = KeyOf(c)
             /\ fetch[d] # "none"
             /\ results' = [results EXCEPT ![d] =
                   [code |-> code, for |-> for]]

(***************************************************************************)
(* The wrapper arrives: it may fail to decode (424), the application may   *)
(* refuse it (401), and otherwise the packet in it is signed, by a faulty  *)
(* signer possibly with another key pair than the enrolled one.            *)
(***************************************************************************)
OnWrapper(c, code) ==
    /\ fetch[c] = "waiting"
    /\ Packet("Wrapper", c) \in net
    /\ code # "102"
    /\ net' = net \ {Packet("Wrapper", c)}
    /\ \/ code = "200" /\ Write(c, code, SessionOf(c))
       \/ KeyOf(c) \in Faulty /\ Write(c, code, "none")

(* A Nack, or a timeout at any time. *)
OnWrapperFails(c) ==
    /\ fetch[c] = "waiting"
    /\ \/ KeyOf(c) \in Faulty
       \/ net \cap {Packet("WrapperInterest", c), Packet("Wrapper", c)} = {}
    /\ net' = {p \in net : p.call # c
                               \/ p.type \notin {"WrapperInterest", "Wrapper"}}
    /\ Write(c, "4xx", "none")

(* onResultFetch: a name with a version has one component too many.  An    *)
(* answer other than 102 erases the entry before it is sent.               *)
OnResultFetch(c, renewed) ==
    /\ Pull(c, renewed) \in net
    /\ IF renewed \/ results[c] = NoResult
       THEN net' = net \ {Pull(c, renewed)} /\ UNCHANGED results
       ELSE /\ net' = (net \ {Pull(c, renewed)}) \cup {Answer(c, results[c])}
            /\ results' = IF results[c].code = "102" THEN results
                          ELSE [results EXCEPT ![c] = NoResult]
    /\ UNCHANGED fetch

-----------------------------------------------------------------------------
(* Where the model stops: nothing that is left to happen is heard of. *)
Finished == loop = "crashed" \/ \A s \in Sessions : record[s] = "over"

InitiatorStep ==
    /\ ~Finished
    /\ UNCHANGED signerVars
    /\ \/ \E k \in Keys : AddSigner(k)
       \/ \E s \in Sessions : MultiPartySign(s)
       \/ \E c \in Calls :
             \/ OnWrapperFetch(c)
             \/ \E named \in BOOLEAN : OnAck(c, named)
             \/ \E code \in Codes, for \in Sessions \cup {"none"} :
                   OnAnswer(c, [code |-> code, for |-> for])
             \/ InterestFails(c)

SignerStep ==
    /\ ~Finished
    /\ UNCHANGED initiatorVars
    /\ \E c \in Calls :
          \/ \E accepted \in BOOLEAN : OnSignRequest(c, accepted)
          \/ \E code \in Codes : OnWrapper(c, code)
          \/ OnWrapperFails(c)
          \/ \E renewed \in BOOLEAN : OnResultFetch(c, renewed)

Next == InitiatorStep \/ SignerStep \/ \E s \in Sessions : OnSignTimeout(s)

(* The scheduler fires its timers; nothing is assumed of the network. *)
Spec == Init /\ [][Next]_vars /\ \A s \in Sessions : WF_vars(OnSignTimeout(s))

-----------------------------------------------------------------------------
(***************************************************************************)
(* A session calls back once: the timer, the loss of a key and the last    *)
(* piece race for it.                                                      *)
(***************************************************************************)
OneCallback == \A s \in Sessions : successes[s] + failures[s] <= 1

(***************************************************************************)
(* What onSuccess hands over is sufficient and genuine, although a signer  *)
(* may put the signature of one session's packet into the entry of another *)
(* session, or have another key pair than the one the initiator knows.     *)
(***************************************************************************)
SuccessIsGenuine ==
    \A s \in Sessions :
        successes[s] > 0 =>
            /\ Enough(s, {p[1] : p \in pieces[s]})
            /\ \A p \in pieces[s] : p[2] = s

(***************************************************************************)
(* A session is kept open only while it can still succeed: the keys that   *)
(* are left suffice, and no key that has delivered its piece is lost.      *)
(***************************************************************************)
OpenCanSucceed ==
    \A s \in Sessions :
        record[s] = "open" =>
            Enough(s, available[s]) /\ {p[1] : p \in pieces[s]} \subseteq available[s]

(***************************************************************************)
(* players.hpp:250-251: a session that was started calls successCb or      *)
(* failureCb in the end, whatever the network and the signers do, unless   *)
(* an exception has left the initiator's event loop.                       *)
(***************************************************************************)
EarlierSessionsEnd ==
    \A s \in Sessions :
        record[s] = "open" ~> successes[s] + failures[s] > 0 \/ loop = "crashed"

=============================================================================

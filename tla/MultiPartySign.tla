--------------------------- MODULE MultiPartySign ---------------------------
(***************************************************************************)
(* The signing protocol: one initiator, a signer for every trusted key,    *)
(* and the network between them.                                           *)
(***************************************************************************)
EXTENDS Initiator, Signer

vars == <<net, initiatorVars, signerVars>>

Init == net = {} /\ InitiatorInit /\ SignerInit

-----------------------------------------------------------------------------
(***************************************************************************)
(* Timing, which the components cannot see: an Interest nobody serves      *)
(* times out, and, unless packets are slow ("reorder"), the result timer   *)
(* (ESTIMATE_PROCESS_TIME) is long enough for the parameter exchange.      *)
(***************************************************************************)
ParamUnserved(c) ==
    /\ ParamData(c) \notin net
    /\ \/ loop # "running"
       \/ ParamInterest(c) \notin net
       \/ para[c] = "cancelled"

ResultUnserved(c) ==
    /\ ~listening[c]
    /\ \A v \in Codes, g \in Generations : ResultData(c, v, g) \notin net

ParamExchangeOver(c) == "reorder" \in Faults \/ ~fetching[c]

InitiatorStep(c) ==
    \/ \E keyed, intact \in BOOLEAN : OnAck(c, keyed, intact)
    \/ SignRequestFails(c)
    \/ AckArrivesFirst(c) /\ OnParamInterest(c)
    \/ ParamExchangeOver(c) /\ FetchResult(c)
    \/ \E v \in Codes, g \in Generations, intact \in BOOLEAN :
           OnResult(c, v, g, intact)
    \/ ResultFetchFails(c, ResultUnserved(c))

SignerStep(c) ==
    \/ \E accepted \in BOOLEAN : OnSignRequest(c, accepted)
    \/ \E outcome \in Codes : OnParamData(c, outcome)
    \/ ParamFetchFails(c, ParamUnserved(c))
    \/ \E v \in 0..MaxVersion : OnResultInterest(c, v)

Next ==
    \/ (\E s \in Sessions : MultiPartySign(s)) /\ UNCHANGED signerVars
    \/ (\E c \in Calls : InitiatorStep(c)) /\ UNCHANGED signerVars
    \/ ResetCachedUnavailableSigners /\ UNCHANGED signerVars
    \/ (\E c \in Calls : SignerStep(c)) /\ UNCHANGED initiatorVars
    \/ (\E k \in TrustedIds : Restart(k)) /\ UNCHANGED initiatorVars

Spec == Init /\ [][Next]_vars

-----------------------------------------------------------------------------
(***************************************************************************)
(* Fairness.  The Face calls exactly one of the Data, Nack and timeout     *)
(* callbacks of every Interest it expressed, and the scheduler fires its   *)
(* timers.  Where no packet is lost, every packet is also delivered.       *)
(***************************************************************************)
ByInitiator(A) == A /\ UNCHANGED signerVars
BySigner(A) == A /\ UNCHANGED initiatorVars

OutcomeFairness ==
    \A c \in Calls :
        /\ WF_vars(ByInitiator(\/ \E keyed, intact \in BOOLEAN : OnAck(c, keyed, intact)
                             \/ SignRequestFails(c)))
        /\ WF_vars(ByInitiator(ParamExchangeOver(c) /\ FetchResult(c)))
        /\ WF_vars(ByInitiator(\/ \E v \in Codes, g \in Generations, intact \in BOOLEAN :
                                    OnResult(c, v, g, intact)
                             \/ ResultFetchFails(c, ResultUnserved(c))))
        /\ WF_vars(BySigner(\/ \E outcome \in Codes : OnParamData(c, outcome)
                           \/ ParamFetchFails(c, ParamUnserved(c))))

DeliveryFairness ==
    \A c \in Calls :
        /\ WF_vars(BySigner(\E accepted \in BOOLEAN : OnSignRequest(c, accepted)))
        /\ WF_vars(ByInitiator(AckArrivesFirst(c) /\ OnParamInterest(c)))
        /\ WF_vars(BySigner(\E v \in 0..MaxVersion : OnResultInterest(c, v)))

FairSpec == Spec /\ OutcomeFairness
ReliableSpec == FairSpec /\ DeliveryFairness

-----------------------------------------------------------------------------
(***************************************************************************)
(* Every variable keeps its type.                                          *)
(***************************************************************************)
TypeOK ==
    /\ net \subseteq PacketSet
    /\ session \in [Sessions -> {"idle", "running", "threw"}]
    /\ signers \in [Sessions -> SUBSET TrustedIds]
    /\ fetched \in [Sessions -> Seq(Pieces)]
    /\ successes \in [Sessions -> Nat]
    /\ failures \in [Sessions -> Nat]
    /\ phase \in [Calls -> Phases]
    /\ para \in [Calls -> ParaStates]
    /\ unavailable \subseteq TrustedIds
    /\ epoch \in Epochs
    /\ loop \in {"running", "blocked", "crashed"}
    /\ code \in [Calls -> Codes \cup {"none"}]
    /\ version \in [Calls -> 0..MaxVersion]
    /\ listening \in [Calls -> BOOLEAN]
    /\ fetching \in [Calls -> BOOLEAN]
    /\ generation \in [TrustedIds -> Generations]

(* A signer that answers for a request, or waits for its parameter, has    *)
(* the state of the request.                                               *)
StateKept == \A c \in Calls : listening[c] \/ fetching[c] => code[c] # "none"

(***************************************************************************)
(* The calls that hold on to their key: an RPC that has been started and   *)
(* for which onUnavailableSigner was not called.                           *)
(***************************************************************************)
Live(c) == phase[c] \notin {"none", "unavailable"}

(***************************************************************************)
(* What m_successCb hands over is consistent: the keys whose pieces were   *)
(* aggregated are exactly the keys in the signer list of the info packet,  *)
(* one piece for each, whatever was replaced on the way.  The code only    *)
(* compares two sizes (initiator.cpp:243).                                 *)
(***************************************************************************)
AggregateMatchesList ==
    \A s \in Sessions :
        successes[s] > 0 =>
            /\ {KeyOf(fetched[s][i].call) : i \in DOMAIN fetched[s]} = signers[s]
            /\ Len(fetched[s]) = Cardinality(signers[s])

(***************************************************************************)
(* However many signers have been replaced, m_signers covers every all-of  *)
(* pattern of the session's rule.                                          *)
(***************************************************************************)
RequiredCovered ==
    \A s \in Sessions :
        session[s] = "running" =>
            \A i \in DOMAIN SchemaOf[s].required :
                Filled(signers[s], SchemaOf[s].required[i])

(***************************************************************************)
(* The application hears of success at most once, and never of success and *)
(* of failure, although failures are reported by every RPC on its own.     *)
(***************************************************************************)
OneOutcome ==
    \A s \in Sessions :
        /\ successes[s] <= 1
        /\ successes[s] = 0 \/ failures[s] = 0

(***************************************************************************)
(* After m_successCb no late packet, timer or other session changes the    *)
(* list, the pieces or the verdict of the session.                         *)
(***************************************************************************)
ResultFrozen ==
    [][\A s \in Sessions :
          successes[s] > 0 =>
              /\ signers'[s] = signers[s] /\ fetched'[s] = fetched[s]
              /\ successes'[s] = successes[s] /\ failures'[s] = failures[s]]_vars

(***************************************************************************)
(* performRPC is called only for a key that is in the session's new list,  *)
(* that no session has found unavailable since the last reset, and that    *)
(* has no other RPC of the session going on.                               *)
(***************************************************************************)
RecruitsAreFresh ==
    [][\A c \in Calls :
          phase[c] # "requested" /\ phase'[c] = "requested" =>
              /\ phase[c] = "none"
              /\ KeyOf(c) \in signers'[SessionOf(c)]
              /\ KeyOf(c) \notin unavailable'
              /\ \A d \in Calls :
                    SessionOf(d) = SessionOf(c) /\ KeyOf(d) = KeyOf(c) => ~Live(d)]_vars

(***************************************************************************)
(* Nobody on the list is forgotten: a key of m_signers has an RPC that is  *)
(* going on, has delivered or was dropped, unless the application has been *)
(* told of a failure.                                                      *)
(***************************************************************************)
ListIsWorkedOn ==
    \A s \in Sessions : \A k \in signers[s] :
        failures[s] > 0 \/ \E e \in Epochs : Live(<<s, k, e>>)

(***************************************************************************)
(* The initiator's bookkeeping of its RPCs, on which the properties above  *)
(* rest: the code keeps no table of them, only the closures of the         *)
(* callbacks, and relies on the signer list and the cache to agree.        *)
(***************************************************************************)
StartedCalls ==
    \A c \in Calls :
        phase[c] # "none" =>
            /\ session[SessionOf(c)] = "running"
            /\ EpochOf(c) <= epoch
            /\ phase[c] = "unavailable" /\ EpochOf(c) = epoch => KeyOf(c) \in unavailable

NothingBeforeStart ==
    \A s \in Sessions : session[s] # "running" => successes[s] = 0 /\ failures[s] = 0

LiveIsListed == \A c \in Calls : Live(c) => KeyOf(c) \in signers[SessionOf(c)]

OneLiveCall ==
    \A c, d \in Calls :
        /\ SessionOf(c) = SessionOf(d) /\ KeyOf(c) = KeyOf(d)
        /\ Live(c) /\ Live(d)
        => c = d

PiecesAreSigned ==
    \A s \in Sessions :
        /\ \A i \in DOMAIN fetched[s] :
              LET c == fetched[s][i].call
              IN  SessionOf(c) = s /\ phase[c] = "signed"
        /\ \A i, j \in DOMAIN fetched[s] :
              fetched[s][i].call = fetched[s][j].call => i = j

(* After a failure a key without a live RPC stays on the list (or the list *)
(* is empty): the sizes never become equal any more.                       *)
FailureIsFinal ==
    \A s \in Sessions :
        failures[s] > 0 =>
            \/ signers[s] = {}
            \/ \E k \in signers[s] :
                  \A c \in Calls : SessionOf(c) = s /\ KeyOf(c) = k => ~Live(c)

Bookkeeping ==
    /\ StartedCalls
    /\ NothingBeforeStart
    /\ LiveIsListed
    /\ OneLiveCall
    /\ PiecesAreSigned
    /\ FailureIsFinal

(***************************************************************************)
(* A signer has signed only what the initiator released to it after it had *)
(* accepted the ack, encrypted for the two of them: nothing is signed      *)
(* while the promise is pending or after it was broken.                    *)
(***************************************************************************)
SignedAfterAck ==
    \A c \in Calls : code[c] = "200" => para[c] \in {"ready", "cancelled"}

-----------------------------------------------------------------------------
(***************************************************************************)
(* Every RPC comes to an end: a piece, a replacement or a silent drop,     *)
(* unless the initiator's thread has stopped.  "Still processing" is not   *)
(* answered for ever, also when the signer restarts or the filter of the   *)
(* parameter packet was cancelled before the signer asked for it.          *)
(***************************************************************************)
RPCsEnd ==
    \A c \in Calls :
        phase[c] = "requested" ~> \/ phase[c] \in {"signed", "unavailable", "dropped"}
                                 \/ loop # "running"

(***************************************************************************)
(* initiator.hpp documents successCb as called when the data "finished     *)
(* signing" and failureCb when it "failed to be signed": a session that    *)
(* has started calls one of them in the end.                               *)
(***************************************************************************)
SessionsEnd ==
    \A s \in Sessions :
        session[s] = "running" ~> successes[s] + failures[s] > 0

-----------------------------------------------------------------------------
(***************************************************************************)
(* Statements of the repository's documentation that the code does not     *)
(* meet; each is the property of a run of its own.                         *)
(***************************************************************************)

(* docs/multiparty-signing-protocol.md:108: the signer's fetch of the      *)
(* parameter packet and the initiator's making of it may come in either    *)
(* order.  The thread of the initiator never waits for itself.             *)
NeverBlocked == loop # "blocked"

(* initiator.cpp:197, on an ack that cannot be accepted: "should abort and *)
(* change to another signer".                                              *)
RejectionHandled ==
    \A c \in Calls :
        phase[c] = "dropped" ~> \/ KeyOf(c) \notin signers[SessionOf(c)]
                               \/ failures[SessionOf(c)] > 0

=============================================================================

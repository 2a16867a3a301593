----------------------------- MODULE Initiator ------------------------------
(***************************************************************************)
(* MPSInitiator: the party that collects signature pieces.  All its        *)
(* callbacks (Interest filters, Data, Nack and timeout callbacks, timers)  *)
(* run in the one thread of the Face; each is an action.                   *)
(***************************************************************************)
EXTENDS Packets

CONSTANT SchemaOf   \* the rule each session is called with

ASSUME SchemasAssumption ==
    /\ DOMAIN SchemaOf = Sessions
    /\ \A s \in Sessions : SchemaOf[s] \in Schemas

VARIABLES
    session,      \* session[s]: has multiPartySign been called, did it throw
    signers,      \* m_signers of the session's global state
    fetched,      \* m_fetchedSignatures
    successes,    \* how often m_successCb was called
    failures,     \* how often m_failureCb was called
    phase,        \* phase[c]: where performRPC's chain of callbacks stands
    para,         \* para[c]: the parameter promise and the filter serving it
    unavailable,  \* the container's m_unavailableSigners
    epoch,        \* 1 + the number of resets of unavailable so far
    loop          \* the thread that runs the callbacks

initiatorVars == <<session, signers, fetched, successes, failures, phase, para,
                   unavailable, epoch, loop>>

(***************************************************************************)
(* none        performRPC was not called                                   *)
(* requested   the sign request awaits its ack                             *)
(* waiting     the timer m_resultFetchHandle runs                          *)
(* fetching    the result Interest awaits its Data                         *)
(* signed      the piece has been received                                 *)
(* unavailable onUnavailableSigner was called                              *)
(* dropped     a callback returned without doing anything                  *)
(***************************************************************************)
Phases == {"none", "requested", "waiting", "fetching", "signed", "unavailable",
           "dropped"}

(***************************************************************************)
(* none       no filter                                                    *)
(* pending    filter registered, the promise has no value yet              *)
(* ready      filter registered, the promise holds the encrypted packet    *)
(* broken     filter registered, the promise was destroyed without a value *)
(*            (the callbacks that own perSignerState are gone)             *)
(* cancelled  filter removed                                               *)
(***************************************************************************)
ParaStates == {"none", "pending", "ready", "broken", "cancelled"}

Pieces == [call : Calls, gen : Generations]

InitiatorInit ==
    /\ session = [s \in Sessions |-> "idle"]
    /\ signers = [s \in Sessions |-> {}]
    /\ fetched = [s \in Sessions |-> <<>>]
    /\ successes = [s \in Sessions |-> 0]
    /\ failures = [s \in Sessions |-> 0]
    /\ phase = [c \in Calls |-> "none"]
    /\ para = [c \in Calls |-> "none"]
    /\ unavailable = {}
    /\ epoch = 1
    /\ loop = "running"

(***************************************************************************)
(* performRPC for each key of a set: register the filter for the parameter *)
(* packet and express the sign request.  ended is a function that gives    *)
(* the new phase of the calls that the callback ends; newPara that of the  *)
(* promises; rest is the network without the packet being handled.         *)
(***************************************************************************)
CallsTo(s, keys) == {s} \X keys \X {epoch}

PerformRPC(s, keys, ended, newPara, rest) ==
    /\ phase' = [c \in Calls |-> IF c \in CallsTo(s, keys) THEN "requested"
                                                           ELSE ended[c]]
    /\ para' = [c \in Calls |-> IF c \in CallsTo(s, keys) THEN "pending"
                                                          ELSE newPara[c]]
    /\ net' = rest \cup {SignRequest(c) : c \in CallsTo(s, keys)}

(***************************************************************************)
(* multiPartySign, called once for each session.  getAvailableSigners may  *)
(* throw; an empty signer list calls failureCb (and the code goes on, with *)
(* nobody to call).                                                        *)
(***************************************************************************)
MultiPartySign(s) ==
    /\ loop = "running"
    /\ session[s] = "idle"
    /\ IF SufficientKeys(SchemaOf[s], unavailable)
       THEN LET list == GetAvailableSigners(SchemaOf[s], unavailable)
            IN  /\ session' = [session EXCEPT ![s] = "running"]
                /\ signers' = [signers EXCEPT ![s] = list]
                /\ failures' = [failures EXCEPT ![s] =
                                  IF list = {} THEN @ + 1 ELSE @]
                /\ PerformRPC(s, list, phase, para, net)
       ELSE /\ session' = [session EXCEPT ![s] = "threw"]
            /\ UNCHANGED <<signers, failures, phase, para, net>>
    /\ UNCHANGED <<fetched, successes, unavailable, epoch, loop>>

(***************************************************************************)
(* onUnavailableSigner for the call c, with the network, and the promises, *)
(* as the calling callback leaves them.  When no replacement exists        *)
(* m_failureCb is called and m_signers stays as it was, the unavailable    *)
(* key included.                                                           *)
(***************************************************************************)
ReportFailureErasing(c) ==   \* mutant: the key is erased from m_signers first
    /\ failures' = [failures EXCEPT ![SessionOf(c)] = @ + 1]
    /\ signers' = [signers EXCEPT ![SessionOf(c)] = @ \ {KeyOf(c)}]

ReportFailureSilent(c) ==    \* mutant: m_failureCb is not called
    UNCHANGED <<failures, signers>>

ReportFailure(c) ==
    /\ failures' = [failures EXCEPT ![SessionOf(c)] = @ + 1]
    /\ UNCHANGED signers

InstallForgotten(c, list) == \* mutant: m_signers is not assigned
    UNCHANGED <<failures, signers>>

InstallList(c, list) ==
    /\ signers' = [signers EXCEPT ![SessionOf(c)] = list]
    /\ UNCHANGED failures

OnUnavailableSigner(c, newPara, rest) ==
    LET s == SessionOf(c)
        gone == unavailable \cup {KeyOf(c)}
        ended == [phase EXCEPT ![c] = "unavailable"]
    IN  /\ unavailable' = gone
        /\ \E r \in ReplaceSigner(signers[s], KeyOf(c), SchemaOf[s], gone) :
              IF r.signers = {}
              THEN ReportFailure(c) /\ PerformRPC(s, {}, ended, newPara, rest)
              ELSE InstallList(c, r.signers) /\ PerformRPC(s, r.diff, ended, newPara, rest)
        /\ UNCHANGED <<session, fetched, successes, epoch, loop>>

-----------------------------------------------------------------------------
(***************************************************************************)
(* The ack arrives.  If parseAckReply throws (no ECDH key in the ack of a  *)
(* rejected request, or a failed decryption) the callback returns and      *)
(* nobody hears of it; perSignerState dies with the callback.  Otherwise   *)
(* the parameter packet is encrypted, the promise is fulfilled and the     *)
(* timer is set.                                                           *)
(***************************************************************************)
AckAccepted(keyed, intact) == keyed /\ intact     \* parseAckReply returns

OnAck(c, keyed, intact) ==
    /\ loop = "running"
    /\ phase[c] = "requested"
    /\ Ack(c, keyed) \in net
    /\ intact \/ "corrupt" \in Faults
    /\ IF AckAccepted(keyed, intact)
       THEN /\ phase' = [phase EXCEPT ![c] = "waiting"]
            /\ para' = [para EXCEPT ![c] = "ready"]
       ELSE /\ phase' = [phase EXCEPT ![c] = "dropped"]
            /\ para' = [para EXCEPT ![c] = "broken"]
    /\ net' = net \ {Ack(c, keyed)}
    /\ UNCHANGED <<session, signers, fetched, successes, failures, unavailable,
                   epoch, loop>>

(* The sign request is nacked or times out. *)
SignRequestFails(c) ==
    /\ loop = "running"
    /\ phase[c] = "requested"
    /\ \E rest \in {net, net \ {SignRequest(c)}} :
          /\ \/ rest = net /\ "loss" \in Faults
             \/ rest # net /\ "offline" \in Faults
          /\ OnUnavailableSigner(c, [para EXCEPT ![c] = "broken"], rest)

(* mutant: the packet is sent without waiting for the promise *)
OnParamInterestUnready(c) ==
    /\ loop = "running"
    /\ ParamInterest(c) \in net
    /\ para[c] \in {"pending", "ready", "broken"}
    /\ net' = (net \ {ParamInterest(c)}) \cup {ParamData(c)}
    /\ UNCHANGED <<session, signers, fetched, successes, failures, phase, para,
                   unavailable, epoch, loop>>

(***************************************************************************)
(* The signer's Interest for the parameter packet reaches the filter: the  *)
(* handler waits for the promise in the thread that would have to fulfil   *)
(* it, or gets the packet, or gets the exception of a broken promise,      *)
(* which nobody catches.                                                   *)
(***************************************************************************)
OnParamInterest(c) ==
    /\ loop = "running"
    /\ ParamInterest(c) \in net
    /\ \/ /\ para[c] = "pending"
          /\ loop' = "blocked"
          /\ net' = net \ {ParamInterest(c)}
       \/ /\ para[c] = "ready"
          /\ loop' = loop
          /\ net' = (net \ {ParamInterest(c)}) \cup {ParamData(c)}
       \/ /\ para[c] = "broken"
          /\ loop' = "crashed"
          /\ net' = net \ {ParamInterest(c)}
    /\ UNCHANGED <<session, signers, fetched, successes, failures, phase, para,
                   unavailable, epoch>>

(***************************************************************************)
(* m_resultFetchCallback: cancel the filter and express the Interest for   *)
(* the result.  m_nextResultName is only ever set by the ack, so that its  *)
(* version is always 0.                                                    *)
(***************************************************************************)
FetchResult(c) ==
    /\ loop = "running"
    /\ phase[c] = "waiting"
    /\ phase' = [phase EXCEPT ![c] = "fetching"]
    /\ para' = [para EXCEPT ![c] = "cancelled"]
    /\ net' = net \cup {ResultInterest(c, 0)}
    /\ UNCHANGED <<session, signers, fetched, successes, failures, unavailable,
                   epoch, loop>>

(***************************************************************************)
(* The result arrives: dropped when its HMAC is wrong; a piece (the last   *)
(* one when the pieces are as many as the signers: aggregate and call      *)
(* m_successCb); an error; or "still processing", which sets the timer     *)
(* again.                                                                  *)
(***************************************************************************)
AllFetchedEarly(pieces, list) ==   \* mutant: one too few
    Len(pieces) + 1 = Cardinality(list)

AllFetched(pieces, list) == Len(pieces) = Cardinality(list)

AddPiece(c, gen) ==
    LET s == SessionOf(c)
        pieces == Append(fetched[s], [call |-> c, gen |-> gen])
    IN  /\ phase' = [phase EXCEPT ![c] = "signed"]
        /\ fetched' = [fetched EXCEPT ![s] = pieces]
        /\ successes' = [successes EXCEPT ![s] =
                           IF AllFetched(pieces, signers[s]) THEN @ + 1 ELSE @]
        /\ UNCHANGED <<signers, failures, para, unavailable>>

OnResult(c, reply, gen, intact) ==
    LET result == ResultData(c, reply, gen)
    IN  /\ loop = "running"
        /\ phase[c] = "fetching"
        /\ result \in net
        /\ \/ /\ ~intact /\ "corrupt" \in Faults
              /\ phase' = [phase EXCEPT ![c] = "dropped"]
              /\ net' = net \ {result}
              /\ UNCHANGED <<session, signers, fetched, successes, failures, para,
                             unavailable, epoch, loop>>
           \/ /\ intact /\ reply = "200"
              /\ AddPiece(c, gen)
              /\ net' = net \ {result}
              /\ UNCHANGED <<session, epoch, loop>>
           \/ /\ intact /\ reply \notin {"102", "200"}
              /\ OnUnavailableSigner(c, para, net \ {result})
           \/ /\ intact /\ reply = "102"
              /\ phase' = [phase EXCEPT ![c] = "waiting"]
              /\ net' = net \ {result}
              /\ UNCHANGED <<session, signers, fetched, successes, failures, para,
                             unavailable, epoch, loop>>

(* The result Interest is nacked or times out: by a fault, or because no   *)
(* filter of the signer takes it (unserved, see module MultiPartySign).    *)
ResultFetchFails(c, unserved) ==
    /\ loop = "running"
    /\ phase[c] = "fetching"
    /\ "loss" \in Faults \/ unserved
    /\ OnUnavailableSigner(c, para, net)

(* resetCachedUnavailableSigners, called by the application.               *)
ResetCachedUnavailableSigners ==
    /\ loop = "running"
    /\ unavailable # {}
    /\ epoch \in 1..MaxResets
    /\ epoch' = epoch + 1
    /\ unavailable' = {}
    /\ UNCHANGED <<session, signers, fetched, successes, failures, phase, para,
                   loop, net>>

=============================================================================

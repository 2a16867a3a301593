---------------------------- MODULE AsyncVerify -----------------------------
(***************************************************************************)
(* BLSVerifier::asyncVerify: the info packet is fetched under the data     *)
(* packet's key locator, and verify runs when it arrives.  Meanwhile the   *)
(* application goes on: it may add rules and trusted keys, ask for other   *)
(* verifications, and change the packet it passed, because the callbacks   *)
(* capture the packet and the VerifyFinishCallback by reference.           *)
(***************************************************************************)
EXTENDS Verifier

CONSTANTS
    Requests,      \* calls of asyncVerify
    DataPackets,   \* packets the application may ask about
    InfoPackets,   \* packets the network may answer with
    Rules,         \* rules the application may add
    MaxRules       \* bound on the length of m_schemas

ASSUME AsyncAssumption ==
    /\ Rules \subseteq Schemas /\ MaxRules \in Nat
    /\ InfoPackets \subseteq
           [name : Seq(Nat), content : Seq([type : STRING, elements : Seq(Seq(Nat))])]

VARIABLES
    schemas,   \* m_schemas of the verifier's container
    trusted,   \* the keys of m_trustedIds
    request,   \* request[r]: where the call stands
    object,    \* object[r]: what the reference to the data packet refers to
    asked,     \* asked[r]: the name in the Interest, a copy
    kept,      \* kept[r]: the caller keeps both arguments alive
    verdict,   \* verdict[r]: what the callback was called with
    loop       \* the thread that runs the callbacks

vars == <<schemas, trusted, request, object, asked, kept, verdict, loop>>

NoPacket == [name |-> << >>, locator |-> NoLocator, signature |-> EmptyBag]

Init ==
    /\ schemas = <<>>
    /\ trusted = {}
    /\ request = [r \in Requests |-> "idle"]
    /\ object = [r \in Requests |-> NoPacket]
    /\ asked = [r \in Requests |-> NoLocator]
    /\ kept = [r \in Requests |-> FALSE]
    /\ verdict = [r \in Requests |-> "none"]
    /\ loop = "running"

AddRuleFirst(rule) ==   \* mutant: the rule is inserted at the front
    /\ Len(schemas) < MaxRules
    /\ schemas' = <<rule>> \o schemas
    /\ UNCHANGED <<trusted, request, object, asked, kept, verdict, loop>>

(* The application appends a rule to m_schemas. *)
AddRule(rule) ==
    /\ Len(schemas) < MaxRules
    /\ schemas' = Append(schemas, rule)
    /\ UNCHANGED <<trusted, request, object, asked, kept, verdict, loop>>

(* The application inserts a key into m_trustedIds. *)
AddTrusted(key) ==
    /\ key \notin trusted
    /\ trusted' = trusted \cup {key}
    /\ UNCHANGED <<schemas, request, object, asked, kept, verdict, loop>>

(***************************************************************************)
(* asyncVerify: a packet without a key locator name is rejected at once,   *)
(* for any other an Interest is expressed.                                 *)
(***************************************************************************)
Ask(r, data, keep) ==
    /\ loop = "running"
    /\ request[r] = "idle"
    /\ object' = [object EXCEPT ![r] = data]
    /\ kept' = [kept EXCEPT ![r] = keep]
    /\ IF data.locator = NoLocator
       THEN /\ request' = [request EXCEPT ![r] = "done"]
            /\ verdict' = [verdict EXCEPT ![r] = "invalid"]
            /\ UNCHANGED asked
       ELSE /\ request' = [request EXCEPT ![r] = "pending"]
            /\ asked' = [asked EXCEPT ![r] = data.locator]
            /\ UNCHANGED verdict
    /\ UNCHANGED <<schemas, trusted, loop>>

(* The caller changes its packet while the request is pending. *)
Reuse(r, data) ==
    /\ request[r] = "pending"
    /\ kept[r]
    /\ object' = [object EXCEPT ![r] = data]
    /\ UNCHANGED <<schemas, trusted, request, asked, kept, verdict, loop>>

(***************************************************************************)
(* One of the three callbacks of the Interest runs, with the outcome of    *)
(* verify or a failure.  An exception of verify leaves the event loop.  If *)
(* the caller's arguments are gone the callback uses dangling references:  *)
(* anything may be reported, or the process ends.                          *)
(***************************************************************************)
Anything == {"valid", "invalid", "throws"}

Finish(r, outcomes) ==
    /\ loop = "running"
    /\ request[r] = "pending"
    /\ request' = [request EXCEPT ![r] = "done"]
    /\ \E outcome \in IF kept[r] THEN outcomes ELSE Anything :
          IF outcome = "throws"
          THEN loop' = "crashed" /\ UNCHANGED verdict
          ELSE verdict' = [verdict EXCEPT ![r] = outcome] /\ UNCHANGED loop
    /\ UNCHANGED <<schemas, trusted, object, asked, kept>>

(* CanBePrefix: any packet whose name extends the locator answers. *)
OnInfo(r, info) ==
    /\ IsPrefix(asked[r], info.name)
    /\ Finish(r, VerifyOutcomes(schemas, trusted, object[r], info))

OnInfoLost(r) ==   \* mutant: no callback on a timeout
    /\ loop = "running"
    /\ request[r] = "pending"
    /\ request' = [request EXCEPT ![r] = "done"]
    /\ UNCHANGED <<schemas, trusted, object, asked, kept, verdict, loop>>

(* Nack or timeout *)
OnInfoFails(r) == Finish(r, {"invalid"})

Outcome(r) == OnInfoFails(r) \/ \E info \in InfoPackets : OnInfo(r, info)

Next ==
    \/ \E rule \in Rules : AddRule(rule)
    \/ \E key \in TrustedIds : AddTrusted(key)
    \/ \E r \in Requests, data \in DataPackets :
          Reuse(r, data) \/ \E keep \in BOOLEAN : Ask(r, data, keep)
    \/ \E r \in Requests : Outcome(r)

(* The Face calls one of the callbacks of every Interest it expressed. *)
Spec == Init /\ [][Next]_vars /\ \A r \in Requests : WF_vars(Outcome(r))

-----------------------------------------------------------------------------
(* The rule that decides about a packet name. *)
Governs(rule, name) ==
    \E i \in DOMAIN schemas :
        /\ schemas[i] = rule
        /\ Match(rule.pktName, name)
        /\ \A j \in 1..(i - 1) : ~Match(schemas[j].pktName, name)

(***************************************************************************)
(* A packet that is reported as valid was signed, itself and not another,  *)
(* by the enrolled key pairs of a list of trusted keys that satisfies the  *)
(* rule that governs its name, as often as they are in the list (a rule    *)
(* counts the entries); or the rule asks for nobody (verify then accepts   *)
(* or rejects an empty list by chance).  This is so although the packet is *)
(* read when the answer arrives, and not when the call is made, and        *)
(* although rules and keys are added in between and afterwards.            *)
(***************************************************************************)
SignedBy(list, data) ==
    data.signature =
        [part \in (ToSet(list) \X {0}) \X {Portion(data.name, data.locator)} |->
            Cardinality({i \in DOMAIN list : list[i] = part[1][1]})]

SignerLists == {WireDecode(info.content) : info \in {i \in InfoPackets : HasSignerList(i.content)}}

AcceptedIsSigned ==
    \A r \in Requests :
        request[r] = "done" /\ kept[r] /\ verdict[r] = "valid" =>
            \E rule \in Rules :
                /\ Governs(rule, object[r].name)
                /\ \/ PassSchema(rule, <<>>)
                   \/ \E list \in SignerLists \ {<<>>} :
                        /\ ToSet(list) \subseteq trusted
                        /\ SignedBy(list, object[r])
                        /\ PassSchema(rule, list)

(***************************************************************************)
(* What verify accepts it goes on accepting: rules are added at the end    *)
(* and keys are not replaced, so that two requests for the same packet do  *)
(* not contradict each other in the wrong order.                           *)
(***************************************************************************)
AcceptanceStable ==
    [][\A r \in Requests, info \in InfoPackets :
          VerifyOutcomes(schemas, trusted, object[r], info) = {"valid"}
              => VerifyOutcomes(schemas', trusted', object[r], info) = {"valid"}
      ]_<<schemas, trusted>>

(***************************************************************************)
(* Every asyncVerify is answered, unless an exception has left the event   *)
(* loop (an info packet without a signer list is enough for one).          *)
(***************************************************************************)
VerdictComes ==
    \A r \in Requests :
        request[r] = "pending" ~> verdict[r] # "none" \/ loop = "crashed"

=============================================================================

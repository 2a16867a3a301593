# Multi-party signatures over NDN: a TLA+ model

This directory holds a TLA+ model of the library in `src/` and `include/ndnmps/`
of the repository: the protocol by which an initiator collects BLS signature
pieces from several signers, the trust schema that says which signers are needed,
and the verification of the result.  TLC checks the model on small instances,
TLAPS proves part of it for every instance.

Paths are relative to the repository; `initiator.cpp:243` is line 243 of
`src/initiator.cpp`.

## 1. Inventory

| Component | State | Operations | Hard behaviour |
|---|---|---|---|
| `MPSInitiator` (`initiator.cpp`) | per session: `m_signers`, `m_fetchedSignatures`, the two callbacks; per RPC: the parameter promise and its filter, keys, timer, result name, all held only by the closures of the callbacks | `multiPartySign`, `performRPC`, the Data/Nack/timeout callbacks of the sign request and of the result Interest, the parameter filter, the result timer, `onUnavailableSigner` | RPCs run concurrently on one thread; a replacement changes the list between two pieces; the filter *waits* for a promise in the thread that fulfils it; the end of a session is decided by comparing two sizes |
| `BLSSigner` (`signer.cpp`) | per request `SignRequestState` (`m_code`, `m_version`, result filter, keys); one key pair, random in each process | constructor, `onSignRequest`, the result filter with `generateResultData`, the three callbacks of the parameter Interest | it asks for the parameter before the initiator may be ready; the result is given out once; a restart makes a new key pair |
| `MultipartySchema`, `MultipartySchemaContainer` (`schema.cpp`) | rules, trusted keys, `m_unavailableSigners` | `match`, `passSchema`, `getAvailableSigners`, `replaceSigner`, `findANewKeyForPattern`, `aggregateKey`, `resetCachedUnavailableSigners`; parsing and printing | overlapping patterns, "nx" prefixes, at-least counts at their limits; the cache is shared by all sessions of an initiator |
| `BLSVerifier` (`verifier.cpp`) | the container; `asyncVerify` has an outstanding Interest | `verify`, `asyncVerify` | callbacks that capture arguments by reference; rules are tried in order |
| BLS helpers, crypto helpers, `MpsSignerList` | none | calls of the BLS and OpenSSL libraries, a TLV codec | none of their own |
| Earlier implementation (`temp/players.cpp`) | initiator: `m_records`, `m_wrapToId`, one timer per session; signer: `m_results` | `addSigner`, `multiPartySign`, `onWrapperFetch`, `onData`, `onSignTimeout`, `keyLossTimeout`; `onSignRequest`, `onResultFetch` | timer, last piece and loss of a key race; callbacks that hold a local variable by reference; superseded, not built |
| Network (ndn-cxx `Face`, forwarder; external) | Interests and Data in flight | delivery, loss, delay, reordering | an Interest ends in exactly one of Data, Nack, timeout |

How they interact.  `multiPartySign` asks the container for a signer list and calls
`performRPC` for each key.  An RPC is: sign request -> ack; the signer at once
fetches the parameter packet (the data to be signed) that the initiator has
encrypted with the key agreed in the ack; after a delay the initiator asks for the
result, again and again while the answer is 102.  Any nack, timeout or error code
calls `onUnavailableSigner`, which puts the key in the container's cache, asks it
for a replacement and starts RPCs with the keys that are new, or calls the failure
callback.  When there are as many pieces as signers in the list, the pieces are
aggregated and the success callback gets the signed packet and the info packet with
the list.

What makes each component correct:

- initiator: what it hands over is consistent (one piece for each key of the list),
  says one thing (success once, or failure), does not change afterwards, and comes
  in the end; nobody on the list is forgotten, nobody is asked twice;
- signer: it signs only what was released to it after the ack, and every request
  it accepted is answered in the end;
- schema: the first list satisfies its rule, replacements keep the required
  patterns covered, and the list stays bounded;
- verifier: it accepts what the initiator hands over for the same rule and keys.

`PROJECT.json` lists the hazards line by line with the properties that aim at them.

## 2. Modules

    Schema <- Packets <- Initiator --+
       |         ^------ Signer -----+-- MultiPartySign <- SigningRefinement --+-- EndToEnd -- MCEndToEnd
       |                                                   (SigningService)    |
       +---- Verifier (BlsHelpers) --------------------------------------------+
       |        ^------ AsyncVerify -- MCAsyncVerify
       +---- RuleText <- SchemaContainer -- MCSchemaContainer
    EarlierSigning -- MCEarlierSigning

    Verifier <- OperatorProofs
    MultiPartySign, OperatorProofs <- TypeProofs <- OutcomeProofs <- AckProofs
                                      OutcomeProofs, EndToEnd <- RefinementProofs
    SchemaContainer, OperatorProofs <- ContainerProofs
    AsyncVerify, OperatorProofs <- VerifierProofs
    EarlierSigning <- EarlierProofs

- **Schema**: names, patterns, rules and the container's operations as operators.
  A name is a sequence of numbers ordered as `Name::compare` orders names, because
  `std::set` and `std::map` iterate in that order and the code takes the first key
  that fits.  The loops are described by their results: `First(n, S)` is what a loop
  that stops after n keys collects, `InOrder(S)` the vector a set is copied to;
  `replaceSigner`'s first loop, where each
  iteration sees what the earlier ones inserted, is described by the family of sets
  its iterations add.  That this is what the loops do is proved (`ContainerProofs`), and
  run `container` checks it on a small instance.
- **Packets**: the packets, the network as a set of packets in flight, the faults.
  An RPC is a *call* `<<session, key, epoch>>`; the epoch counts the resets of the
  cache, without which a key is asked at most once in a session.
- **Initiator**: one action per callback.  `phase[c]` is where the chain of callbacks
  of a call stands, `para[c]` the state of the promise and its filter.  `broken` is
  the state after the last callback that owns the promise is gone while the filter,
  whose handle is not a scoped one, stays registered; an Interest for it then throws
  `future_error` out of the event loop (`loop = "crashed"`).  An Interest for a pending
  promise blocks the loop.
- **Signer**: one action per handler; the application's two callbacks are choices.
  `Restart(k)` is the end of a signer's process and the construction of a new
  `BLSSigner` with the same key name; `generation` tells its key pairs apart.
- **MultiPartySign**: composes the two, adds what only timing decides (an Interest
  nobody serves times out), the fairness and the properties.
- **SigningService**, **SigningRefinement**: what `multiPartySign` promises the
  application, as a specification of two variables (a session is open, then signed by
  keys that cover the required patterns, or failed), and the refinement mapping under
  which MultiPartySign implements it.  SigningService knows of the keys, of the rule of
  each session and of what it is for a pattern to have its keys, and of nothing else.  The
  at-least-num is left out of the promise
  because the code does not keep it (run `optional_shortage`).
- **RuleText**, **SchemaContainer**: how a rule is read from text and printed, and the
  container as a sequential object.  The loops of `getAvailableSigners` and
  `replaceSigner` are written here as in the code, as functions of the number of
  iterations: `Insert`, `ListOptional`, `ReplaceRequired` and `ReplaceOptional` are
  their bodies, a break is the field `stop`, the early return `failed`.  A text is
  abstracted to what the reader distinguishes: the number before the `x`, the `/`, and
  the components.  Numbers are ints that end in a `size_t`, so that a negative one
  becomes a huge one (`ToSize`); an at-least-num that is too large for an int is written
  out but read back as the default 0 (`ReadNumber`).  `Reload` writes the rule and reads
  it again, any number of times: `toUri` prints a wildcard as `65534=...`, which is read
  back as an ordinary component with these bytes; the next printing escapes the `=`, the
  one after it the `%` of that escape, so that every printing changes the component again
  (`PrintComponent`).
- **BlsHelpers**, **Verifier**: symbolic BLS (a public key is the bag of the key pairs
  added up in it, a signature the bag of pairs and signed portions) and
  `BLSVerifier::verify` on any two packets; it returns true or false, throws for an
  info packet without a list, and says anything for an empty list.
- **AsyncVerify**: `asyncVerify` calls in flight.  The callbacks read `object[r]`, what
  the captured reference refers to *then*; `kept[r]` says that the caller keeps both
  arguments alive, and without it anything may be reported.  The application adds rules
  and keys and changes its packets in between.
- **EndToEnd**: `verify` applied to what the initiator hands out.
- **EarlierSigning**: `Initiator` and `Signer` of `temp/players.cpp` with their network.
  A schema is the set of key sets that suffice (`Quorums`), which is all the code asks
  of the two operations that are gone.  `Write` is the callback that holds the request
  id by reference after `onSignRequest` has returned.
- **MC...**: constants for TLC.
- **OperatorProofs**: lemmas about the operators of Schema, BlsHelpers and Verifier,
  which every other proof module but EarlierProofs rests on.
- **TypeProofs**, **OutcomeProofs**, **AckProofs**, **RefinementProofs**: theorems about
  the signing protocol; the last one also about EndToEnd.
- **ContainerProofs**, **VerifierProofs**, **EarlierProofs**: theorems about the
  container, `asyncVerify` and the earlier implementation.

Definitions with a comment "mutant" are plausible slips in the code.  They are not used
by any specification; substituting one for the definition that follows it makes the
property paired with it in `PROJECT.json` fail, which shows that the property
depends on that line of the code.

### Abstractions

Encryption and HMAC are symbolic: an ack is `keyed` or not, a packet `intact` or not.
ECDH, HKDF and AES-GCM enter in no other way.  The registration-failure callbacks
only log and are left out.  Random numbers in names make packets of different calls
different; collisions are ignored.  Forwarder caches are left out.

## 3. Runs

All sizes are those of TLC with the given `.cfg`.

| Run | Instance | What it shows |
|---|---|---|
| `core` | one session, A required and B optional, 3 keys, all seven faults | types; aggregate, list and verdict agree (`AggregateMatchesList`, `OneOutcome`) and never change after success (`ResultFrozen`); a signer signs only what was released after the ack (`SignedAfterAck`); `Bookkeeping`, the heart of the proofs; the protocol implements SigningService (`ImplementsService`) |
| `replacement` | two of A, one key number 1, optional B; 4 keys; signers offline, one restart | the required patterns stay covered (`RequiredCovered`), everybody listed has an RPC (`ListIsWorkedOn`), a result whose pieces are all of enrolled key pairs passes `verify` when it is handed over (`SuccessVerifies`; for the others see `unverified_piece`) |
| `rpc_ends` | one session, loss, reordering, rejection, refusal, a restart | `RPCsEnd`: no RPC polls or waits for ever |
| `session_ends` | two sessions with different rules, shared signers and cache, one reset | `SessionsEnd`: each calls back; `RecruitsAreFresh` |
| `container` | rules read from text over four keys (overlapping patterns, nx prefixes from `-1x` to `2x`, wildcards also in the packet name, a component that looks like a printed wildcard, at-least-num from -1), any cache contents, one reset | the operators of Schema are the code's loops (`AvailableIsLoop`, `ReplaceIsLoop`); the first list passes in any order of its keys (`FirstListPasses`); `ListBounded`; a rule that was saved and read, once or twice, is the one that was given if that has no wildcards and nx prefixes, and otherwise accepts no list that the given one rejects, if nx prefixes are on wildcard patterns only, no key is named like a printed wildcard and at-least-num is not negative (`SavedRuleIsStricter`) |
| `verification` | two `asyncVerify` calls, 7 packets, 6 info packets, 3 rules of which 2 are added, 2 keys | what is accepted was signed as the governing rule asks (`AcceptedIsSigned`), acceptance is not revoked (`AcceptanceStable`), each call is answered or the event loop has thrown (`VerdictComes`) |
| `earlier` | two sessions of the earlier implementation that share a signer which may be faulty | `OneCallback`, `SuccessIsGenuine`, `OpenCanSucceed`, and each session calls back unless the event loop has thrown (`EarlierSessionsEnd`) |

Deadlock checking is off: a system whose sessions have ended stops.

### Where the code and what is written about it disagree

Each of these is a run that TLC is expected to find violated, with a trace.

| Run | Property | What happens |
|---|---|---|
| `optional_shortage` | `SuccessVerifies` | a signer of an at-least pattern is lost and has no replacement: `replaceSigner` (`schema.cpp:325`) does not check at-least-num, the session succeeds with too few signers and the result does not verify |
| `stall` | `SessionsEnd` | the list shrinks after the last piece has come: the sizes are compared only when a piece arrives (`initiator.cpp:243`), and neither callback is ever called |
| `blocked` | `NeverBlocked` | the parameter Interest overtakes the ack: the filter waits (`initiator.cpp:166`) in the only thread, which would have to take the ack to fulfil the promise; the protocol document allows this order |
| `rejection` | `RejectionHandled` | an ack without keys, or one that does not decrypt, is dropped: nobody is replaced and no callback is called, against the comment at `initiator.cpp:197` |
| `unverified_piece` | `PiecesVerified` | a piece made with another key pair (after a restart) is aggregated without being verified (`initiator.cpp:240`), and the result that is handed over does not verify; the protocol document says "The initiator verifies each returned signature" |

Others are in the model and have no run of their own:

- the schema document says that a packet is valid "if it can pass any one rule"; the first
  rule for its name decides (`schema.cpp:231`).  `AcceptedIsSigned` and
  `AcceptanceStable` are stated for the rule that does (`Governs`);
- when the ack is lost or dropped, the filter for the parameter packet stays registered
  without anyone to fulfil its promise (`initiator.cpp:160`), and the signer's late
  Interest makes `get()` throw out of the event loop (`loop = "crashed"`), so that no
  session of this initiator calls back any more;
- in `temp/`, the ack of a rejected request says 102 without `ResultAfter`, and reading
  that throws out of the event loop (`players.cpp:495`) where the key should have been
  given up;
- in `temp/`, the signer ignores Interests for the versioned result name that it announced
  itself (`players.cpp:143`), so that its key is given up with the signature ready.

Smaller ones: the documents write `_` for the wildcard, the code reads `*`.  `passSchema`
counts the entries of a list, while `schema.hpp:61` speaks of different key names.
`initiator.cpp:273` decodes the renewed result name and drops it, so that version 0 is
asked for again; the signer's filter takes every version.  `getAvailableSigners` is
documented to return a minimum set, but inserts an optional key before it compares the
count (`schema.cpp:256`), so that at-least-num 0 still asks one optional signer; the rule
of run `replacement` has this case.

### Bounds and why they are enough

Two or three keys per pattern make a first choice, one replacement and the end of the
replacements happen; a second pattern makes RPCs run side by side; the overlapping
pattern lets one key serve two patterns.  Two sessions are enough for one to lose a
key between two steps of the other.  In `verification`, `MaxRules = 2` makes one rule
shadow another, and two calls are enough for one to be judged before and one after a
change.  In `earlier` one of two signers is `Faulty`; with both faulty a session only
fails sooner.  `Finished` stops that model when every session is over, since nothing the
rest could do is heard of.  In `container`, `MaxEntries = 4` lets a list name every key, or one of
them twice; `MaxPrints = 1` lets a printed wildcard be printed once more, after which
further printings only go on to further bytes; `PrintedWildcard = 10`, `IntMax = 127` and
`SizeLimit = 256` stand for bytes and numbers beyond those that the texts use.
`MaxResets = 1` lets a key be asked a second time
after it was given up; `MaxRestarts = 1` gives a signer a second key pair;
`MaxVersion` is 1 where restarts and processing answers matter and 0 elsewhere, since
nothing but the announced name depends on it.  Sessions and keys are otherwise
independent, and the theorems of section 4 hold without any bound on them.
No symmetry is used: the order of the keys matters.

### Fairness

`OutcomeFairness` is weak fairness of, for each call, the *disjunction* of the
callbacks of an Interest: ndn-cxx calls exactly one of them, because it schedules the
timeout when the Interest is expressed; and of the timer that the scheduler fires.
Nothing is assumed of the delivery of packets, and `rpc_ends` needs no more.
`DeliveryFairness`, weak fairness of the delivery of each packet, is added only
in the runs about sessions, where the faults allow no loss other than that of a sign
request to an absent signer.  `VerdictComes` needs only that the Face calls
one of the three callbacks of an Interest, `EarlierSessionsEnd` only that the scheduler
fires the session timer.  Applications are never assumed to call anything.
In the runs about sessions and in `rpc_ends` the fault "corrupt" is off: a parameter
packet with a wrong HMAC leaves the signer at 102 and the initiator polling for ever
(`signer.cpp:248`), about which the repository promises nothing.

## 4. Proofs

The theorems hold for every finite set of trusted keys, any set of sessions, rules,
packets and requests, any bounds and any set of faults.  The assumptions are named
where the constants are declared, and TLC evaluates them in every run:
`TrustedIdsFinite`; `NamesOrdered` (names are strictly and totally ordered, which
`std::set` needs); `SchemasAssumption` (each session has a rule); `BoundsAssumption`,
`FaultsAssumption`; for the container `InputsAssumption` (what a text may hold) and
`WildcardAssumption` (a wildcard is not a component a key can have) and
`NumbersAssumption` (a `size_t` holds more than an int); for `asyncVerify`
`AsyncAssumption` (types of the rules and of the info packets); for the earlier
implementation `QuorumsAssumption` and the bounds.

| Module | Theorems (the property each one states for every instance) |
|---|---|
| TypeProofs | `TypeCorrect` (`TypeOK`) |
| OutcomeProofs | `BookkeepingHolds`, `AggregateCorrect` (`AggregateMatchesList`), `OutcomeUnique` (`OneOutcome`), `ResultIsFrozen`, `NobodyForgotten` (`ListIsWorkedOn`), `RecruitsFresh` |
| AckProofs | `SignedWasReleased` (`SignedAfterAck`) |
| RefinementProofs | `RequiredAlwaysCovered` (`RequiredCovered`), `ServiceImplemented` (`ImplementsService`), `SuccessIsVerified` (`SuccessVerifies`), `UndisturbedIsVerified` |
| ContainerProofs | `ListStaysBounded` (`ListBounded`), `FirstListIsAccepted` (`FirstListPasses`), `SavedRuleIsNeverWeaker` (`SavedRuleIsStricter`), `AvailableIsItsLoop` (`AvailableIsLoop`), `ReplaceIsItsLoop` (`ReplaceIsLoop`) |
| VerifierProofs | `AcceptedWasSigned` (`AcceptedIsSigned`), `AcceptedForGood` (`AcceptanceStable`) |
| EarlierProofs | `EarlierCallsBackOnce` (`OneCallback`), `EarlierSuccessIsGenuine` (`SuccessIsGenuine`), `EarlierOpenCanSucceed` (`OpenCanSucceed`) |

**Operators.**  Two ideas carry OperatorProofs.  The order of names is total on a finite
set, so that a set of keys has a first key (the one below which there are fewest keys,
by well-foundedness of strict inclusion) and the first n keys are n (`FirstIsEnough`,
`FirstIsBounded`); from this, what the loops of `getAvailableSigners` and
`replaceSigner` find covers their patterns (`AvailableCover`, `ReplacementCovers`, with
`OneForOne`: a replacement fills the place of the lost key) and a set has its vector
(`InOrderLists`).  Sums and folds of the community modules are recursive functions;
their recursion equations are proved by `SubsetInduction`, also from well-foundedness,
and from them that a sum over patterns is monotone (`TotalMonotone`) and that a sum of
keys or pieces is the tally of what was added (`AddUpTallies`).

**Types.**  Types alone are not inductive: a signer's answer carries `m_code`, which
must not be `none`, so `StateKept` (a signer that listens or fetches has the state of
the request) is carried along.

**Outcomes.**  Every step of the system does one of eight things to
a session's bookkeeping: it starts it, throws, gives up, replaces, adds a piece, moves
a call on, forgets the cache, or nothing; the first part proves this case split, and
the rest of the proof never looks at the actions again.  The code keeps no table of
its RPCs, so the invariant has to reconstruct one, and this is `Bookkeeping`:
a key outside the cache has no ended call of the present epoch (`StartedCalls`), a
live call's key is on the list (`LiveIsListed`), a key has at most one live call
(`OneLiveCall`), every piece is that of a signed call, one for each
(`PiecesAreSigned`), and after a failure some key of the list has no live call, so
that the list can never be completed (`FailureIsFinal`).  Then equal sizes do mean
equal sets: the keys of the pieces are a subset of the list, as many as it has
members (`AggregateCorrect`); all keys of a complete list have delivered, so that no
call is left to fail or to deliver (`OutcomeUnique`, `ResultIsFrozen`).

**Release.**  That a signer has signed says nothing of the initiator unless every
packet on the way does.  `AckInv` says: as long as a call was not started or its sign
request is not answered, its promise has no value; an encrypted parameter packet in
flight means that it has one; and so does a signer that has signed.  A value is never
taken back, because a key is called once in an epoch (`Bookkeeping`), and a signer
that restarts has not signed.

**Coverage, refinement, end to end.**  A session's list changes only by
`getAvailableSigners` and by `replaceSigner` (`ListChanges`), and both keep
`RequiredCovered`.  The refinement follows the eight kinds of steps: only the last
piece, the first failure and the start of a session are steps of SigningService, all
others change nothing the application sees.  `SuccessIsVerified` puts the parts
together: the pieces are of different keys, which are those of the list
(OutcomeProofs); the list covers the rule; the tally of the pieces is the tally the
verifier computes from the list when every piece is of an enrolled pair.  `SuccessVerifies`
speaks of such pieces only, since the initiator does not verify them (run
`unverified_piece`).  The theorem has two hypotheses, that the verifier finds the
session's rule first and that the rule asks for no optional signers.  Both are needed:
`passSchema` tries no rule but the first one for the name, and `optional_shortage` shows
what optional signers lead to; `replacement` meets them.
`UndisturbedIsVerified` drops the second one for sessions in which nobody was found
unavailable, and says "exactly when": the result of such a session is rejected if any
piece is of another pair.

**Container.**  `ListBounded` is not inductive: that a list is short does not make the
next one short.  The invariant is that the keys of the list can be dealt to the places
of the rule, each to a pattern that it matches; a replacement goes to a pattern that
had a place left.  For saved rules it is `SavedInv`: the rule is
not weaker than the one that was given, and still has prefixes only on patterns that the
next printing spoils.  A spoilt pattern matches no key (`SpoiltMatchesNothing`), so that a
required one can no longer be met and an optional one no longer counts; all others are
printed as they are (`PlainIsKept`).

**Loops.**  All the proofs about the container and about the protocol speak of the
operators of Schema, which name the result of a loop and not its steps.
`AvailableIsItsLoop` and `ReplaceIsItsLoop` say that nothing is lost by that, for every
rule, list and cache.  A loop is a recursive function of the number of iterations
(`LoopRuns` gives its equations), and its invariant is proved by induction on that number
(`IntervalInduction`: a set that has 0, and with n also n + 1, is the whole interval).  For the vectors the code copies sets to, OperatorProofs shows that their
first n entries are `First(n, S)` (`FirstInOrder`) and that the first entry outside a set
is the first key of the difference (`FirstUnused`).  In `getAvailableSigners` the
invariant is `OptionalLoopInv`: as long as the loop has not stopped, its count is the
number of places it has gone through, and once it has, the keys of later patterns are
empty.  In `replaceSigner`, Schema's definition chooses *some* family of sets such that
each is what `findANewKeyForPattern` adds to those before it; `GrowsExists` builds one,
`OneTrace` shows that there is no other, and `RequiredInv` and `OptionalInv` that the
loops follow it until they return or break.

**Verification.**  The invariant adds to `AcceptedIsSigned` that a request that is not
done has no verdict, so that an exception leaves none.  What is accepted is decided by
the first rule for the name; rules are added at the end, so that it goes on deciding.

**Earlier implementation.**  The invariant says that a session is open only while the
keys that are not lost suffice, and that a key is asked once, so that a lost key has
no piece; hence the timer, the loss of a key and the last piece exclude each other.

Every invariant and every action property of a passing run is a theorem.  Only
model-checked is liveness (`RPCsEnd`, `SessionsEnd`, `VerdictComes`,
`EarlierSessionsEnd`), which is beyond this prover.

## 5. Not modelled

- the cryptographic helpers: straight-line calls of OpenSSL without state; the Interest
  overloads, serialization and certificates of the BLS helpers;
- the use of a destroyed `BLSSigner` by callbacks that outlive it (`signer.cpp:163`):
  undefined behaviour of the process, which the model ends by `Restart`;
- bytes that a URI would escape in the text of a rule, except those that printing a
  wildcard brings in;
- that a rule with a negative at-least-num, which nobody can satisfy, asks for no optional
  signers once it was saved: the model has it, but the repository does not say what such a
  number means, and `SavedRuleIsStricter` excepts it;
- what is undefined behaviour or said nowhere, and in the model only as "anything may
  happen": a signature by an empty list (`schema.cpp:276`), arguments of `asyncVerify`
  that the caller has destroyed (`verifier.cpp:85`), the exception for an info packet
  without a signer list (`verifier.cpp:38`);
- `loadTrustedIds`, declared and not defined;
- in `temp/`: the `Verifier` of `players.cpp` and `MpsSigner` and the whole-packet
  verification of `crypto-players.cpp`.  What that verifier waits for is decided by
  operations of an earlier `MultipartySchema` that are not in the repository.  It has
  paths on which its callback is never called (`players.cpp:292`).

## 6. Plan

Done, in this order: Schema; Packets, Initiator, Signer and their composition; the
container; end-to-end verification; types and bookkeeping proved; SigningService and
its implementation; asynchronous verification; rules as text; the earlier
implementation; proofs of the signer's release, of coverage, of the refinement, of
end-to-end verification, of the container and its loops, of `asyncVerify` and of the
earlier implementation.

What would come next depends on the code: a test of at-least-num in `replaceSigner`, or a
verdict when the list shrinks to the pieces that are there, would turn the runs
`optional_shortage` and `stall` into passing ones and remove the second hypothesis of
`SuccessIsVerified`.

--------------------------- MODULE MCAsyncVerify ----------------------------
(***************************************************************************)
(* Packets, signer lists and rules for AsyncVerify over the keys /A/1 and  *)
(* /B/1: genuine signatures, a signature by a key pair that was not        *)
(* enrolled, one copied from another packet, a missing locator; lists that *)
(* are too short, foreign, repetitive, empty or missing.                   *)
(***************************************************************************)
EXTENDS AsyncVerify

A1 == <<1, 1>>
B1 == <<2, 1>>
Keys == {A1, B1}

Pattern(name) == [name |-> name, times |-> 1]
Rule(name, required) ==
    [pktName |-> Pattern(name), required |-> required, optional |-> <<>>,
     minOptional |-> 0]
AnyA == Pattern(<<1, WILDCARD>>)
AnyB == Pattern(<<2, WILDCARD>>)

\* /7 needs A, or (as a second rule) B; /* needs B; /8 asks for nobody
AllRules == {Rule(<<7>>, <<AnyA>>), Rule(<<WILDCARD>>, <<AnyB>>), Rule(<<8>>, <<>>)}

Locator == <<9>>
Signed(name, pairs, portionName) ==
    [name |-> name, locator |-> Locator,
     signature |-> AggregateSignature([i \in DOMAIN pairs |->
                       GenBLSSignature(pairs[i], Portion(portionName, Locator))])]

AllData ==
    {Signed(<<7>>, <<<<A1, 0>>>>, <<7>>),
     Signed(<<7>>, <<<<A1, 1>>>>, <<7>>),
     Signed(<<7>>, <<<<A1, 0>>, <<B1, 0>>>>, <<7>>),
     Signed(<<7>>, <<<<A1, 0>>, <<A1, 0>>>>, <<7>>),
     Signed(<<7>>, <<<<B1, 0>>>>, <<8>>),
     Signed(<<8>>, <<<<B1, 0>>>>, <<8>>),
     [name |-> <<7>>, locator |-> NoLocator, signature |-> EmptyBag]}

Info(content) == [name |-> Locator \o <<1>>, content |-> content]

Lists == {<<>>, <<A1>>, <<B1>>, <<A1, B1>>, <<A1, A1>>}

AllInfos == {Info(<<WireEncode(list)>>) : list \in Lists} \cup {Info(<<>>)}
=============================================================================

----------------------------- MODULE MCEndToEnd -----------------------------
(***************************************************************************)
(* Instances of EndToEnd for TLC: key names, rules and their order.        *)
(***************************************************************************)
EXTENDS EndToEnd

\* /A/1, /A/2, /A/3, /B/1
A1 == <<1, 1>>
A2 == <<1, 2>>
A3 == <<1, 3>>
B1 == <<2, 1>>

KeysA1A2 == {A1, A2}
KeysA1A2B1 == {A1, A2, B1}
KeysA1A2A3B1 == {A1, A2, A3, B1}

Pattern(name, n) == [name |-> name, times |-> n]
Rule(required, optional, min) ==
    [pktName |-> Pattern(<<7>>, 1), required |-> required, optional |-> optional,
     minOptional |-> min]

AnyA(n) == Pattern(<<1, WILDCARD>>, n)
AnyB(n) == Pattern(<<2, WILDCARD>>, n)
AnyFirst(n) == Pattern(<<WILDCARD, 1>>, n)

ForAll(rule) == [s \in Sessions |-> rule]

\* one of A, and one of B as an optional signer
AandOptionalB == ForAll(Rule(<<AnyA(1)>>, <<AnyB(1)>>, 1))
\* one of A and one of B, both required
AandB == ForAll(Rule(<<AnyA(1), AnyB(1)>>, <<>>, 0))
\* one session needs A and B, the others only A
AandBbesideA == [s \in Sessions |->
    IF s = CHOOSE t \in Sessions : TRUE THEN Rule(<<AnyA(1), AnyB(1)>>, <<>>, 0)
                                        ELSE Rule(<<AnyA(1)>>, <<>>, 0)]
\* one of A
OneA == ForAll(Rule(<<AnyA(1)>>, <<>>, 0))
\* two of A, and one key number 1 (which may be one of the two); a key of B is
\* asked as well, although at-least-num is 0
Overlapping == ForAll(Rule(<<AnyA(2), AnyFirst(1)>>, <<AnyB(1)>>, 0))
\* two optional signers of A
TwoOptional == ForAll(Rule(<<>>, <<AnyA(2)>>, 2))

OnlyRule == <<SchemaOf[CHOOSE s \in Sessions : TRUE]>>
=============================================================================

------------------------- MODULE MCSchemaContainer --------------------------
(***************************************************************************)
(* Texts of rules for SchemaContainer over the keys /A/1, /A/2, /B/1, /B/2:*)
(* without and with "nx" prefixes ("0x" and "-1x" among them), with        *)
(* patterns that overlap or name a printed wildcard, for a packet name or  *)
(* for several; and texts that cannot be read.                             *)
(***************************************************************************)
EXTENDS SchemaContainer

Keys == {<<1, 1>>, <<1, 2>>, <<2, 1>>, <<2, 2>>}

Times(n) == IF n = 1 THEN {} ELSE {n}
AnyA(n) == PatternText(Times(n), <<1, STAR>>)
AnyB(n) == PatternText(Times(n), <<2, STAR>>)
AnyFirst(n) == PatternText(Times(n), <<STAR, 1>>)
OnlyA1 == PatternText({}, <<1, 1>>)
PrintedB == PatternText({}, <<2, PrintedWildcard>>)

RequiredLists == {<<>>, <<AnyA(1)>>, <<AnyA(2)>>, <<AnyA(1), AnyFirst(1)>>,
                  <<OnlyA1, AnyB(1)>>, <<AnyFirst(2), AnyB(1)>>, <<OnlyA1>>, <<AnyA(-1)>>}
OptionalLists == {<<>>, <<AnyB(1)>>, <<AnyA(1), AnyB(2)>>, <<AnyB(2), AnyFirst(1)>>,
                  <<AnyB(0), AnyFirst(1)>>, <<AnyB(-1), PrintedB>>}

Sections == [pktName : {PatternText({}, <<7>>)}, ruleId : {TRUE}, atLeastNum : -1..2,
             allOf : RequiredLists, atLeast : OptionalLists]

Sample == CHOOSE s \in Sections : TRUE

AllInputs ==
    [file : {NoSection}, text : Sections]
    \cup [file : {Sample, [Sample EXCEPT !.ruleId = FALSE]}, text : {NoSection, Sample}]
    \cup [file : {NoSection},
          text : {NoSection, [Sample EXCEPT !.allOf = <<NoText>>],
                  [Sample EXCEPT !.pktName = PatternText({}, <<7, STAR>>)]}]
=============================================================================

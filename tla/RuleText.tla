------------------------------ MODULE RuleText ------------------------------
(***************************************************************************)
(* How a rule is read from its JSON or INFO text and written to INFO text. *)
(*                                                                         *)
(* The text of a pattern is [prefix, slash, comps]: the number before the  *)
(* 'x' as a set (empty if there is none, or none that std::stoi reads),    *)
(* whether there is a '/', and the components.  The text of a component is *)
(* STAR or the number that stands for its bytes.  Of the bytes that a URI  *)
(* escapes only those that printing itself brings in are modelled.         *)
(*                                                                         *)
(* A section is the property tree of a rule (external: boost).             *)
(***************************************************************************)
EXTENDS Schema

CONSTANTS
    STAR,              \* the component "*"
    PrintedWildcard,   \* the bytes "65534=...", see PrintComponent
    IntMax,            \* the largest int
    SizeLimit          \* 2^w, for the width w of size_t

(* Neither the "*" of a text nor the type of a wildcard component is the   *)
(* bytes of a component.                                                   *)
ASSUME WildcardAssumption == STAR \notin Nat /\ WILDCARD \notin Nat

ASSUME NumbersAssumption ==
    /\ PrintedWildcard \in Nat
    /\ IntMax \in Nat /\ SizeLimit \in Nat /\ SizeLimit > 2 * IntMax + 1

Ints == (-IntMax - 1)..IntMax

PatternTexts == [prefix : SUBSET Ints, slash : BOOLEAN, comps : Seq(Nat \cup {STAR})]

SchemaSections == [pktName : PatternTexts, ruleId : BOOLEAN, atLeastNum : Int,
                   allOf : Seq(PatternTexts), atLeast : Seq(PatternTexts)]

PatternText(prefix, comps) == [prefix |-> prefix, slash |-> TRUE, comps |-> comps]
NoText == [prefix |-> {}, slash |-> FALSE, comps |-> <<>>]

(* An int that is stored in a size_t. *)
ToSize(n) == IF n < 0 THEN SizeLimit + n ELSE n

(* WildCardName(const std::string&); it throws when there is no '/'. *)
ReadPattern(text) ==
    [name  |-> [i \in DOMAIN text.comps |->
                   IF text.comps[i] = STAR THEN WILDCARD ELSE text.comps[i]],
     times |-> IF text.prefix = {} THEN 1
                                  ELSE ToSize(CHOOSE n \in text.prefix : TRUE)]

(***************************************************************************)
(* Name::toUri of one component.  A wildcard is printed as its type number *)
(* and "=...", which is read back as an ordinary component with these      *)
(* bytes: PrintedWildcard.  When that one is printed its "=" is escaped,   *)
(* and later the "%" of the escape, so that each printing gives other      *)
(* bytes, for which the numbers after PrintedWildcard stand.  Those below  *)
(* stand for bytes that are printed as they are.                           *)
(***************************************************************************)
PrintComponent(c) ==
    IF c = WILDCARD THEN PrintedWildcard
    ELSE IF c >= PrintedWildcard THEN c + 1
    ELSE c

PrintPatternStarred(pattern) ==   \* mutant: wildcards are printed as "*"
    PatternText({}, [i \in DOMAIN pattern.name |->
                        IF pattern.name[i] = WILDCARD THEN STAR
                        ELSE PrintComponent(pattern.name[i])])

(* WildCardName::toUri prints the name only. *)
PrintPattern(pattern) ==
    PatternText({}, [i \in DOMAIN pattern.name |-> PrintComponent(pattern.name[i])])

-----------------------------------------------------------------------------
(* A text that does not parse: the parser throws, as parseAssert does for  *)
(* an empty section.                                                       *)
NoSection == [pktName |-> NoText, ruleId |-> FALSE, atLeastNum |-> 0,
              allOf |-> <<>>, atLeast |-> <<>>]

(* fromJSON and fromINFO take a file name or the text itself. *)
Parse(input) == IF input.file # NoSection THEN input.file ELSE input.text

(* fromSchemaSection returns: otherwise it throws. *)
Readable(section) ==
    /\ section.ruleId
    /\ section.pktName.slash
    /\ \A i \in DOMAIN section.allOf : section.allOf[i].slash
    /\ \A i \in DOMAIN section.atLeast : section.atLeast[i].slash

(* config.get(CONFIG_AT_LEAST_NUM, 0): the default for what is not an int. *)
ReadNumber(n) == IF n \in Ints THEN ToSize(n) ELSE 0

FromSection(section) ==
    [pktName     |-> ReadPattern(section.pktName),
     required    |-> [i \in DOMAIN section.allOf |-> ReadPattern(section.allOf[i])],
     optional    |-> [i \in DOMAIN section.atLeast |-> ReadPattern(section.atLeast[i])],
     minOptional |-> ReadNumber(section.atLeastNum)]

(* MultipartySchema::toString; an at-least-num of 0 is left out and read   *)
(* back as the default.                                                    *)
ToSection(rule) ==
    [pktName    |-> PrintPattern(rule.pktName),
     ruleId     |-> TRUE,
     atLeastNum |-> rule.minOptional,
     allOf      |-> [i \in DOMAIN rule.required |-> PrintPattern(rule.required[i])],
     atLeast    |-> [i \in DOMAIN rule.optional |-> PrintPattern(rule.optional[i])]]

=============================================================================

-------------------------- MODULE MCEarlierSigning --------------------------
(***************************************************************************)
(* Two sessions that share a signer: the first needs both keys, the second *)
(* one of them.                                                            *)
(***************************************************************************)
EXTENDS EarlierSigning

CONSTANTS s1, s2, k1, k2

BothOrFirst == [s \in Sessions |-> IF s = s1 THEN {{k1, k2}} ELSE {{k1}}]
=============================================================================

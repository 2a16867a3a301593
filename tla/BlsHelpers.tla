----------------------------- MODULE BlsHelpers -----------------------------
(***************************************************************************)
(* bls-helpers.cpp over a symbolic BLS (external: the mcl/bls library).    *)
(*                                                                         *)
(* A key pair is <<key name, generation>>; generation 0 is the pair that   *)
(* was enrolled, a later one belongs to a signer that was restarted.  A    *)
(* public key is the bag of the pairs added up in it, a signature the bag  *)
(* of the <<pair, signed portion>>s added up in it.  A signature verifies  *)
(* exactly when every pair of the public key has signed the portion, as    *)
(* often as it is in the key, and nothing else was added.                  *)
(***************************************************************************)
EXTENDS SequencesExt

(* ndnGenBLSSignature: the signed portion of a packet by one secret key. *)
GenBLSSignature(pair, portion) == SetToBag({<<pair, portion>>})

PublicKey(pair) == SetToBag({pair})

(* The loops of ndnBLSAggregatePublicKey and ndnBLSAggregateSignature:     *)
(* they start with element 0, so that an empty vector is not allowed.      *)
AddUp(bags) == FoldLeft(LAMBDA sum, bag : sum (+) bag, bags[1], Tail(bags))

AggregatePublicKey(keys) == AddUp(keys)

AggregateSignature(pieces) == AddUp(pieces)

(* ndnBLSVerify *)
BLSVerify(key, portion, signature) ==
    signature = [part \in (DOMAIN key) \X {portion} |-> key[part[1]]]

=============================================================================

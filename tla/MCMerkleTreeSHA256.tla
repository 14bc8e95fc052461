---------------------- MODULE MCMerkleTreeSHA256 ----------------------
(* Small instance of the on-chain tree: two distinct commitments. *)
EXTENDS MerkleTreeSHA256

TwoValues == {Commitment(0), Commitment(1)}
=============================================================================

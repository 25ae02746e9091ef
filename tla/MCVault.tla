------------------------------- MODULE MCVault -------------------------------
(* A small instance of Vault: every asset has the same bytes.              *)
EXTENDS Vault, TLC

SameContent == [a \in Assets |-> "bytes"]

Symmetry == Permutations(Hosts) \cup Permutations(Uploads) \cup Permutations(Commands)
==============================================================================

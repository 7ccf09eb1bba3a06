------------------------------ MODULE MCVault ------------------------------
(* The vault program on small instances.  Keys of one kind are            *)
(* interchangeable: no instruction compares them except for equality.     *)
EXTENDS Vault, TLC

KeySymmetry == Permutations(Agents) \cup Permutations(Wallets)
=============================================================================

----------------------------- MODULE MCKeystore -----------------------------
(* Instances of Keystore for TLC: the constants are in the configurations. *)
EXTENDS Keystore
=============================================================================

--------------------------- MODULE MCCryptoSupport ---------------------------
(* An instance of CryptoSupport for TLC: its constants are in crypto.cfg. *)
EXTENDS CryptoSupport
==============================================================================

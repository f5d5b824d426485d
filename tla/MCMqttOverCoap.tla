--------------------------- MODULE MCMqttOverCoap ---------------------------
EXTENDS MqttOverCoap, TLC

(* Transactions are interchangeable. *)
Symmetry == Permutations(Exchanges)
=============================================================================

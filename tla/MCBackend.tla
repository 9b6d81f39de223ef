----------------------------- MODULE MCBackend ------------------------------
(* Instances of Backend for TLC. *)
EXTENDS Backend

CONSTANT k1

OneKey == {k1}

=============================================================================

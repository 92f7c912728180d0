--------------------------- MODULE MCRegisterSync ---------------------------
(* RegisterSync for TLC. *)
EXTENDS RegisterSync
=============================================================================

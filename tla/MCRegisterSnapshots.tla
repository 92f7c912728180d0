------------------------ MODULE MCRegisterSnapshots ------------------------
(* RegisterSnapshots for TLC; Register.cfg gives the constants their values. *)
EXTENDS RegisterSnapshots
=============================================================================

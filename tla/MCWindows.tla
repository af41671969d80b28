----------------------------- MODULE MCWindows -----------------------------
(* Instance: two windows, one size besides the maximised one, two scales. *)
EXTENDS Windows
=============================================================================

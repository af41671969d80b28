------------------------------ MODULE MCMenus ------------------------------
(* Instance: one folder on the desktop and room for one more. *)
EXTENDS Menus

MCIcons == <<[kind |-> "dir", sel |-> FALSE]>>
=============================================================================

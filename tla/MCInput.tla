------------------------------ MODULE MCInput ------------------------------
(* Instance: one key that takes a character back and, with shift, ends a   *)
(* line; ordinary characters come from the demonstration and the serial    *)
(* port. Rings of three and two slots, so that they fill and wrap.         *)
EXTENDS Input

MCCodes   == {"k"}
MCPlain   == [c \in MCCodes |-> "bs"]
MCShifted == [c \in MCCodes |-> "nl"]
MCDemo    == <<TRUE, FALSE>>
=============================================================================

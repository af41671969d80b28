--------------------------- MODULE MCDescriptors ---------------------------
(* An instance of Descriptors for TLC: two processes, three descriptors. *)
EXTENDS Descriptors

MCNodes == {"stdin", "stdout", "stderr", "a"}
=============================================================================

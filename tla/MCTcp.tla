------------------------------- MODULE MCTcp -------------------------------
(* Instance: socket 0 may try two hosts, socket 1 one of them; sequence     *)
(* numbers wrap.                                                            *)
EXTENDS Tcp

MCTargets == {<<"a", 0>>, <<"b", 0>>, <<"a", 1>>}
MCIsn     == [e \in Hosts \X Socks |-> IF e = <<"a", 0>> THEN 6 ELSE 3]
MCStream  == [e \in Hosts \X Socks |-> IF e = <<"a", 0>> THEN 3 ELSE 0]
MCSent    == [s \in Socks |-> IF s = 0 THEN 2 ELSE 0]
=============================================================================

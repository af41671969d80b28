----------------------------- MODULE MCRestart -----------------------------
(* Instance: room for one icon; a name with a blank; the watched file is    *)
(* one that a restart makes of that name. cfg_buf ends somewhere in the     *)
(* first line.                                                              *)
EXTENDS Restart

MCPlaces   == {<<"30", "30">>}
MCFolders  == {<<"Desktop">>}
MCNames    == {<<"a", "b">>}
MCWatched  == [dir |-> <<"FILE">>, name |-> <<"a">>]
MCGreeted  == {<<"hello.txt">>}
MCDefaults == <<[name |-> <<"hello.txt">>, kind |-> "FILE", path |-> <<"Desktop">>, pos |-> <<"30", "30">>]>>
=============================================================================

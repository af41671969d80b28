----------------------------- MODULE MCOverlay -----------------------------
(* Instance: a disk with a file in its root and a contiguous one in a       *)
(* folder, and a folder of the file manager with two files.                 *)
EXTENDS Overlay

At(t, chain, cont) == [type |-> t, chain |-> chain, contiguous |-> cont]

MCEntry == (<<"disk", "v">> :> At("file", <<1>>, FALSE)) @@ (<<"disk", "D">> :> At("dir", <<3>>, FALSE))
           @@ (<<"disk", "D", "t">> :> At("file", <<2>>, TRUE))
MCBoot  == <<"t">>
MCItems == {<<"D">>, <<"D", "t">>, <<"D", "u">>}
MCFiles == {<<"disk", "v">>, <<"disk", "D", "t">>}
=============================================================================

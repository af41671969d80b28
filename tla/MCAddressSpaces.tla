-------------------------- MODULE MCAddressSpaces --------------------------
(* Instance: a text page, a page for segments and a stack page.  The stack  *)
(* lies below a PDPT of its own, whose lower tables are left out; the other *)
(* pages share a page directory.                                            *)
EXTENDS AddressSpaces

CONSTANT PoolSizes   \* how many frames are free when system calls begin

MCWalk == <<<<"pd", "pt">>, <<"pd", "shmpt">>, <<"hpdpt">>>>

BootPlaces ==
  <<Page(Boot, 1), Page(Boot, 3), Tab(Boot, "pd"), Tab(Boot, "pt"),
    Tab(Boot, "hpdpt"), Stk(1, 1), Stk(1, 2)>>

MCBootLayout ==
  [a \in Places |-> IF \E i \in DOMAIN BootPlaces : BootPlaces[i] = a
                    THEN CHOOSE i \in DOMAIN BootPlaces : BootPlaces[i] = a
                    ELSE None]

MCFrames == 1 .. 7 + CHOOSE n \in PoolSizes : \A m \in PoolSizes : m <= n

MCBootPools == {[i \in 1 .. n |-> 7 + i] : n \in PoolSizes}

=============================================================================

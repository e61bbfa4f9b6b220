--------------------------- MODULE MCTagInventory ---------------------------
(***************************************************************************)
(* Small inventories for TLC: two antennas, two tags, four slots.           *)
(***************************************************************************)
EXTENDS TagInventory, TLC

CONSTANTS t1, t2

TwoTags == {t1, t2}
FourSlots == 0..3
\* An inventory reads no tag, one, both in either order, or one twice.
SomeAnswers == {<<>>, <<t1>>, <<t2>>, <<t1, t2>>, <<t2, t1>>, <<t1, t1>>}

HomesApart == (t1 :> 1) @@ (t2 :> 3)
\* Two tags of one home slot: with them DeletedIsGone fails (ber_test hash.c:111).
HomesCollide == (t1 :> 1) @@ (t2 :> 1)
=============================================================================

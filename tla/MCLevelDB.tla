----------------------------- MODULE MCLevelDB -----------------------------
(***************************************************************************)
(* LevelDB for TLC: chains over one genesis block. Transaction t1 is mined *)
(* at height 1 on one fork and at height 2 on the other; t2 is on one fork *)
(* only.                                                                   *)
(***************************************************************************)
EXTENDS LevelDB

Blk(name, txs) == [hash |-> name, transactions |-> txs]

G == Blk("g", <<>>)
A1 == Blk("a1", <<"t1">>)
A2 == Blk("a2", <<>>)
B1 == Blk("b1", <<"t2">>)
B2 == Blk("b2", <<"t1">>)

\* Two forks of each length.
MCChains == {<<G, A1>>, <<G, B1>>, <<G, A1, A2>>, <<G, B1, B2>>}
=============================================================================

--------------------------- MODULE MCReplChannels ----------------------------
(* Link sets for ReplChannels on three nodes. *)
EXTENDS ReplChannels

\* A chain against the order of the ids, a pair that replicates from each other, and a fan-out one
\* branch of which feeds the other (a chain along the order of the ids, and a replica with two
\* sources): no cycle feeds anybody outside it.
Plain == {{<<3, 2>>, <<2, 1>>}, {<<1, 2>>, <<2, 1>>}, {<<1, 2>>, <<2, 3>>, <<1, 3>>}}

\* mysql01 <-> mysql04 -> mysql07 of the comment in reconcileReplication; mysql07's id sorts first.
BidirThenChain == {{<<2, 3>>, <<3, 2>>, <<3, 1>>}}
=============================================================================

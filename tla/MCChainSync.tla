---------------------------- MODULE MCChainSync -----------------------------
(***************************************************************************)
(* Instances of ChainSync for TLC: a chain and forks of it.                *)
(***************************************************************************)
EXTENDS ChainSync, TLC

CONSTANTS n1, n2, s1

MCGenesis == [height |-> 0, id |-> 1, prev |-> 0, fees |-> 0, total |-> 0, txs |-> FALSE]

\* The block after another one.
NextBlock(b, id, fees, txs) ==
  [height |-> b.height + 1, id |-> id, prev |-> b.id, fees |-> fees,
   total |-> b.total + fees, txs |-> txs]

a1 == NextBlock(MCGenesis, 11, 0, FALSE)
a2 == NextBlock(a1, 12, 0, FALSE)
a3 == NextBlock(a2, 13, 1, TRUE)
b1 == NextBlock(MCGenesis, 21, 1, TRUE)
c2 == NextBlock(a1, 32, 0, FALSE)

MCChains == {<<a1, a2, a3>>}

Forks == {<< >>, <<b1>>, <<a1, c2>>}

\* A connection that synchronises, from a fork, or two that bring blocks...
Separate == {<<c, {s1}>> : c \in Forks} \cup {<< << >>, {n1, n2} >>}

\* ... or a connection that brings blocks next to one that synchronises.
Racing == {<< << >>, {n1, s1} >>}

MCScenarios == Separate \cup Racing

\* A fork of two blocks above b1, whose transactions are in the database.
b2 == NextBlock(b1, 22, 0, FALSE)
b3 == NextBlock(b2, 23, 0, FALSE)
b4 == NextBlock(b3, 24, 0, FALSE)
d2 == NextBlock(b1, 42, 0, FALSE)
d3 == NextBlock(d2, 43, 0, FALSE)
PeerAboveFork == {<<b1, b2, b3, b4>>}
DeepFork == {<<<<b1, d2, d3>>, {s1}>>}
=============================================================================

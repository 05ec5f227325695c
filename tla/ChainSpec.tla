------------------------------ MODULE ChainSpec ------------------------------
(***************************************************************************)
(* What a node promises about its chain: it starts as one of the chains    *)
(* that were applied before, grows by one block that follows the last one, *)
(* or goes back to a prefix.                                               *)
(***************************************************************************)
EXTENDS Integers, Sequences

CONSTANTS Genesis, Blocks, StartChains

VARIABLE chain

LastOf(c) == IF c = << >> THEN Genesis ELSE c[Len(c)]

Init == chain \in StartChains

Extend(b) == b.prev = LastOf(chain).id /\ chain' = Append(chain, b)

GoBack(h) == chain' = SubSeq(chain, 1, h)

Next == (\E b \in Blocks : Extend(b)) \/ (\E h \in 0..Len(chain) : GoBack(h))

Spec == Init /\ [][Next]_chain
=============================================================================

------------------------------ MODULE PoolSpec ------------------------------
(***************************************************************************)
(* What the users of a transaction pool count on (blocks/processBlock.go,  *)
(* services/transactionServices): a set of transactions that is never      *)
(* added to by a refused one and loses exactly what is removed.            *)
(***************************************************************************)
EXTENDS FiniteSets

CONSTANT Hashes

VARIABLES content, refused

Init == content = {} /\ refused = {}

Add(h) == h \notin refused /\ content' = content \cup {h} /\ UNCHANGED refused
Remove(h) == content' = content \ {h} /\ UNCHANGED refused
Ban(h) == refused' = refused \cup {h} /\ UNCHANGED content

Next == \E h \in Hashes : Add(h) \/ Remove(h) \/ Ban(h)

Spec == Init /\ [][Next]_<<content, refused>>
=============================================================================

--------------------------- MODULE TransactionPool ---------------------------
(***************************************************************************)
(* The pool of waiting transactions (transactionsPool/poolTx.go): a map of *)
(* transactions, a priority queue kept as a heap in a slice, and a map     *)
(* from hashes to positions in that slice, behind one mutex.               *)
(*                                                                         *)
(* AddTransaction, RemoveTransactionByHash and PopTransactionByHash change *)
(* the heap in one critical section and refresh the positions in a second  *)
(* one (updateIndices): between the two a goroutine is at "update", and    *)
(* others may run.  Remove and Pop do not release the mutex when the heap  *)
(* panics; the handlers recover, and the pool stays locked ("stuck").      *)
(***************************************************************************)
EXTENDS Integers, Sequences, SequencesExt, FiniteSets

CONSTANTS
  Hashes,             \* transactions, by hash
  Priority,           \* Item.priority: the gas price, in PoolsTx
  Threads,            \* goroutines that call the pool
  MaxTransactions,    \* maxTransactions
  MaxNumberOfTxBans,
  MaxBans,            \* bound: bans of one transaction
  Bannable            \* bound: the transactions that are ever banned

VARIABLES
  transactions,        \* keys of the map of transactions
  priorityQueue,       \* hashes, in heap order
  transactionIndices,  \* positions from 0, NoIndex without an entry
  bannedTransactions,  \* number of bans
  pc,                  \* "idle", or "update" before updateIndices
  stuck                \* the mutex was never released

vars == <<transactions, priorityQueue, transactionIndices, bannedTransactions, pc, stuck>>

NoIndex == -1

Init ==
  /\ transactions = {}
  /\ priorityQueue = << >>
  /\ transactionIndices = [h \in Hashes |-> NoIndex]
  /\ bannedTransactions = [h \in Hashes |-> 0]
  /\ pc = [t \in Threads |-> "idle"]
  /\ stuck = FALSE

-----------------------------------------------------------------------------
\* container/heap on positions 1..Len(q), with PriorityQueue.Less and Swap: the
\* highest priority is at the top.
Less(q, i, j) == Priority[q[i]] > Priority[q[j]]

Swap(q, i, j) == [q EXCEPT ![i] = q[j], ![j] = q[i]]

Up(q, i) ==
  LET up[s \in Seq(Hashes), j \in Nat] ==
        IF j <= 1 \/ ~Less(s, j, j \div 2) THEN s ELSE up[Swap(s, j, j \div 2), j \div 2]
  IN  up[q, i]

\* Sift down among the first n positions.
Down(q, i, n) ==
  LET down[s \in Seq(Hashes), j \in Nat] ==
        LET left == 2 * j
            child == IF left + 1 <= n /\ Less(s, left + 1, left) THEN left + 1 ELSE left
        IN  IF left > n \/ ~Less(s, child, j) THEN s ELSE down[Swap(s, child, j), child]
  IN  down[q, i]

HeapPush(q, h) == Up(Append(q, h), Len(q) + 1)

\* Remove position i: the last item takes its place and moves down, or else up.
HeapRemove(q, i) ==
  LET n == Len(q) - 1
      swapped == Swap(q, i, n + 1)
      lower == Down(swapped, i, n)
  IN  Front(IF i = n + 1 THEN q ELSE IF lower # swapped THEN lower ELSE Up(swapped, i))

\* The item with the highest priority leaves.
HeapPop(q) == HeapRemove(q, 1)

-----------------------------------------------------------------------------
\* Mutant: bans are not looked at.
AddTransaction_IgnoreBan(t, h) ==
  /\ pc[t] = "idle" /\ ~stuck
  /\ h \notin transactions /\ Len(priorityQueue) < MaxTransactions
  /\ transactions' = transactions \cup {h}
  /\ priorityQueue' = HeapPush(priorityQueue, h)
  /\ pc' = [pc EXCEPT ![t] = "update"]
  /\ UNCHANGED <<transactionIndices, bannedTransactions, stuck>>

\* A full pool drops the top of the heap, whose position stays in the map.  A
\* banned transaction is refused and changes nothing.
AddTransaction(t, h) ==
  /\ pc[t] = "idle" /\ ~stuck
  /\ bannedTransactions[h] = 0
  /\ LET pushed == HeapPush(priorityQueue, h)
         evict == Len(pushed) > MaxTransactions
     IN  IF h \in transactions
         THEN UNCHANGED <<priorityQueue, transactions>>
         ELSE /\ priorityQueue' = IF evict THEN HeapPop(pushed) ELSE pushed
              /\ transactions' = (transactions \cup {h}) \ (IF evict THEN {pushed[1]} ELSE {})
  /\ pc' = [pc EXCEPT ![t] = "update"]
  /\ UNCHANGED <<transactionIndices, bannedTransactions, stuck>>

\* Mutant: the slice is cut at the position, without heap.Remove.
Take_Cut(t, h) ==
  /\ pc[t] = "idle" /\ ~stuck
  /\ transactionIndices[h] < Len(priorityQueue)
  /\ IF transactionIndices[h] = NoIndex
     THEN UNCHANGED <<priorityQueue, transactions, transactionIndices>>
     ELSE /\ priorityQueue' = RemoveAt(priorityQueue, transactionIndices[h] + 1)
          /\ transactions' = transactions \ {h}
          /\ transactionIndices' = [transactionIndices EXCEPT ![h] = NoIndex]
  /\ pc' = [pc EXCEPT ![t] = "update"]
  /\ UNCHANGED <<bannedTransactions, stuck>>

\* RemoveTransactionByHash, and PopTransactionByHash, which also returns the
\* transaction: whatever is at the position noted for h leaves the queue.
Take(t, h) ==
  /\ pc[t] = "idle" /\ ~stuck
  /\ transactionIndices[h] < Len(priorityQueue)
  /\ IF transactionIndices[h] = NoIndex
     THEN UNCHANGED <<priorityQueue, transactions, transactionIndices>>
     ELSE /\ priorityQueue' = HeapRemove(priorityQueue, transactionIndices[h] + 1)
          /\ transactions' = transactions \ {h}
          /\ transactionIndices' = [transactionIndices EXCEPT ![h] = NoIndex]
  /\ pc' = [pc EXCEPT ![t] = "update"]
  /\ UNCHANGED <<bannedTransactions, stuck>>

\* The position is past the end of the slice: heap.Remove panics in Swap.
TakePanics(t, h) ==
  /\ pc[t] = "idle" /\ ~stuck
  /\ transactionIndices[h] >= Len(priorityQueue) /\ transactionIndices[h] # NoIndex
  /\ stuck' = TRUE
  /\ UNCHANGED <<transactions, priorityQueue, transactionIndices, bannedTransactions, pc>>

BanTransactionByHash(t, h) ==
  /\ pc[t] = "idle" /\ ~stuck
  /\ h \in Bannable /\ bannedTransactions[h] < MaxBans
  /\ bannedTransactions' = [bannedTransactions EXCEPT ![h] = @ + 1]
  /\ transactionIndices' = IF bannedTransactions[h] + 1 > MaxNumberOfTxBans
                           THEN [transactionIndices EXCEPT ![h] = NoIndex]
                           ELSE transactionIndices
  /\ UNCHANGED <<transactions, priorityQueue, pc, stuck>>

\* Every queued item gets its position; other entries stay as they are.
UpdateIndices(t) ==
  /\ pc[t] = "update" /\ ~stuck
  /\ transactionIndices' =
       [h \in Hashes |-> IF h \in Range(priorityQueue)
                         THEN (CHOOSE i \in DOMAIN priorityQueue :
                                 /\ priorityQueue[i] = h
                                 /\ \A j \in i + 1..Len(priorityQueue) : priorityQueue[j] # h) - 1
                         ELSE transactionIndices[h]]
  /\ pc' = [pc EXCEPT ![t] = "idle"]
  /\ UNCHANGED <<transactions, priorityQueue, bannedTransactions, stuck>>

Next ==
  \E t \in Threads :
    \/ \E h \in Hashes : \/ AddTransaction(t, h) \/ Take(t, h) \/ TakePanics(t, h)
                         \/ BanTransactionByHash(t, h)
    \/ UpdateIndices(t)

Spec == Init /\ [][Next]_vars

-----------------------------------------------------------------------------
\* The queue stays within maxTransactions, whatever stale positions did to it.
QueueBounded == Len(priorityQueue) <= MaxTransactions

\* The slice is a heap: PeekTransactions and the eviction rely on it, also after a
\* removal at a stale position.
HeapOrdered ==
  \A i \in 2..Len(priorityQueue) : ~Less(priorityQueue, i, i \div 2)

\* The queue and the map hold the same transactions, each of them once: what
\* PeekTransactions proposes for a block is what the node knows.
QueueMatches ==
  /\ IsInjective(priorityQueue)
  /\ Range(priorityQueue) = transactions
=============================================================================

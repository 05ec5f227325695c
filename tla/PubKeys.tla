------------------------------- MODULE PubKeys -------------------------------
(***************************************************************************)
(* Public keys and the addresses that belong to a wallet                   *)
(* (pubkeys/pubKeyHelper.go, pubkeys/pubKeysTrie.go,                       *)
(* blocks/processPubKey.go).  An address is the hash of a key, so a key is *)
(* its address, the flag that tells the primary scheme from the secondary  *)
(* one, and the main address of the wallet it is said to belong to.        *)
(*                                                                         *)
(* Nothing here is ever rolled back: keys and trees written for a block    *)
(* that fails, or that is reset away, stay.                                *)
(***************************************************************************)
EXTENDS Merkle, FiniteSets

CONSTANTS
  Addresses,   \* the addresses keys hash to
  TxKeys,      \* the keys transactions carry
  Operator,    \* <<address, address2>>: the wallet that stakes in the genesis block
  MaxTxs       \* bound: transactions of a block

NoAddress == 0
NoKey == [address |-> NoAddress, primary |-> TRUE, main |-> NoAddress]

VARIABLE
  db           \* keys: PubKeyMarshal rows; list, root: the rows of the wallets' trees

vars == db

\* LoadAddresses; a missing row is an empty list to the callers but one.
LoadAddresses(d, main) == d.list[main]

StorePubKey(d, pk) == [d EXCEPT !.keys[pk.address] = pk]

\* StoreTree: the tree, its root, and the addresses with their flags.
StoreTree(d, main, list) ==
  [d EXCEPT !.list[main] = list,
            !.root[main] = NewMerkleTree([i \in DOMAIN list |-> list[i].address])]

Entry(pk) == [address |-> pk.address, primary |-> pk.primary]

\* CreateAddressFromFirstPubKey makes the tree of the key's own address.
CreateAddressFromFirstPubKey(d, pk) ==
  IF LoadAddresses(d, pk.address) # << >>
    THEN [db |-> d, ok |-> FALSE]
    ELSE [db |-> StoreTree(d, pk.address, <<Entry(pk)>>), ok |-> TRUE]

\* Mutant: the tree is made for the address the key names.
StorePubKeyInPatriciaTrie_Named(d, pk) ==
  LET list == LoadAddresses(d, pk.main)
  IN  IF \E i \in DOMAIN list : list[i].address = pk.address
        THEN [db |-> d, ok |-> TRUE]
        ELSE [db |-> StoreTree(d, pk.main, Append(list, Entry(pk))), ok |-> TRUE]

\* The first key of a main address has to hash to it; the tree of the address it
\* does hash to was stored by then.
StorePubKeyInPatriciaTrie(d, pk) ==
  LET list == LoadAddresses(d, pk.main)
      first == CreateAddressFromFirstPubKey(d, pk)
  IN  IF list = << >>
        THEN [db |-> first.db, ok |-> first.ok /\ pk.main = pk.address]
      ELSE IF \E i \in DOMAIN list : list[i].address = pk.address
        THEN [db |-> d, ok |-> TRUE]
        ELSE [db |-> StoreTree(d, pk.main, Append(list, Entry(pk))), ok |-> TRUE]

\* AddPubKeyToAddress, for the secondary key of a staker of the genesis block.
AddPubKeyToAddress(d, pk, main) ==
  StoreTree(d, main, Append(LoadAddresses(d, main), Entry(pk)))

\* storeGenesisPubKey: the key is its own main address.
StoreGenesisPubKey(d, a, primary) ==
  LET pk == [address |-> a, primary |-> primary, main |-> a]
  IN  StorePubKeyInPatriciaTrie(StorePubKey(d, pk), pk).db

\* What ProcessBlockPubKey does for a key, AddNewPubKeyToActiveWallet too.
StoreBoth(d, pk) == StorePubKeyInPatriciaTrie(StorePubKey(d, pk), pk)

\* ProcessBlockPubKey from the i-th transaction on: it stops at an error, and
\* returns without one at the first transaction that carries no key.
RECURSIVE ProcessFrom(_, _, _)
ProcessFrom(d, pks, i) ==
  IF i > Len(pks) \/ pks[i].main = NoAddress
    THEN [db |-> d, ok |-> TRUE]
    ELSE LET stored == StoreBoth(d, pks[i])
         IN  IF stored.ok THEN ProcessFrom(stored.db, pks, i + 1) ELSE stored

ProcessBlockPubKey(pks) == db' = ProcessFrom(db, pks, 1).db

\* AddNewPubKeyToActiveWallet after the encryption scheme changed: the fresh key
\* is made its own main address (AddNewEncryptionToActiveWallet).
AddNewPubKeyToActiveWallet(a, primary) ==
  /\ db.keys[a] = NoKey
  /\ db' = StoreBoth(db, [address |-> a, primary |-> primary, main |-> a]).db

Init ==
  LET none == [keys |-> [a \in Addresses |-> NoKey],
               list |-> [a \in Addresses |-> << >>],
               root |-> [a \in Addresses |-> << >>]]
      both == StoreGenesisPubKey(StoreGenesisPubKey(none, Operator[1], TRUE), Operator[2], FALSE)
  IN  db = AddPubKeyToAddress(both, [address |-> Operator[2], primary |-> FALSE], Operator[1])

Next ==
  \/ \E n \in 1..MaxTxs : \E pks \in [1..n -> TxKeys \cup {NoKey}] : ProcessBlockPubKey(pks)
  \/ \E a \in Addresses, primary \in BOOLEAN : AddNewPubKeyToActiveWallet(a, primary)

Spec == Init /\ [][Next]_vars

-----------------------------------------------------------------------------
\* containsAddress, and containsTxHash, which is the same code.
RECURSIVE Contains(_, _)
Contains(node, hash) ==
  \/ node = hash
  \/ Len(node) = 3 /\ (Contains(node[2], hash) \/ Contains(node[3], hash))

\* The leaves are hashes of addresses, so the address is hashed first.
IsAddressInTree(root, a) == Contains(root[1], HashOf(a))

\* LoadPubKeyWithPrimary: the key of the last address with that flag.
LoadPubKeyWithPrimary(main, primary) ==
  LET list == LoadAddresses(db, main)
      with == {i \in DOMAIN list : list[i].primary = primary}
  IN  IF with = {} THEN NoKey
      ELSE db.keys[list[CHOOSE i \in with : \A j \in with : j <= i].address]

\* Whatever blocks were applied in part, every wallet that has addresses starts with
\* its main address, its tree holds exactly the listed addresses, and the key of
\* each flag that is listed can be loaded: header and transaction checks depend on it.
WalletsResolve ==
  \A m \in Addresses :
    LET list == LoadAddresses(db, m)
    IN  list # << >> =>
          /\ list[1].address = m
          /\ \A a \in Addresses :
               IsAddressInTree(db.root[m], a) <=> \E i \in DOMAIN list : list[i].address = a
          /\ \A i \in DOMAIN list : LoadPubKeyWithPrimary(m, list[i].primary) # NoKey
=============================================================================

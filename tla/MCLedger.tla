------------------------------ MODULE MCLedger ------------------------------
(***************************************************************************)
(* Instances of Ledger: wallets op, a, b, c, delegated account 1 with op   *)
(* as its operator, and sets of transactions chosen for one question each. *)
(***************************************************************************)
EXTENDS Ledger, TLC

CONSTANTS op, a, b, c, dex

MCGenesisBalance ==
  [x \in Address |-> CASE x = op -> 4 [] x = a -> 4 [] x = b -> 2 [] x = c -> 1 [] OTHER -> 0]

MCGenesisStaking ==
  [k \in StakingKeys |->
     IF k = <<1, op>> THEN [NoStakingAccount EXCEPT !.exists = TRUE, !.staked = 4, !.rewards = 1,
                                                    !.operational = TRUE]
     ELSE NoStakingAccount]

\* No account is an escrow or a multi-signature account from the start.
MCGenesisDelay == [x \in Address |-> 0]
MCGenesisMultiSign == [x \in Address |-> [number |-> 0, addrs |-> << >>]]

\* Misread bytes may show a balance below zero.
MCMisread == {-1}

Tx(id, sender, recipient, amount, fee) ==
  [id |-> id, sender |-> sender, recipient |-> recipient, amount |-> amount, fee |-> fee,
   operational |-> FALSE, locked |-> 0, release |-> 0, lockFor |-> dex,
   delay |-> 0, msNumber |-> 0, msAddrs |-> << >>, confirms |-> NoTx, height |-> 0]

\* Stakes, two locks, an unstaking, a withdrawal with a negative fee and a
\* transaction for the exchange, which ProcessTransaction ignores.
LockFor(id, sender, owner) ==
  [Tx(id, sender, owner, 2, 0) EXCEPT !.locked = 2, !.release = 2, !.lockFor = 1]

TxsStaking ==
  { Tx(1, a, 1, 2, 1), Tx(2, a, 1, -2, 0), Tx(3, op, 257, -1, -1),
    LockFor(4, b, a), LockFor(5, op, a), Tx(6, a, 514, 1, 1) }

Confirms(id, sender, main, fee) == [Tx(id, sender, b, 0, fee) EXCEPT !.confirms = main]

\* a becomes an escrow account that holds payments back for two blocks, or an
\* account that needs the signatures of b and op, or both; a payment of a, its
\* confirmations, and a stake that takes the coins away in the meantime.
TxsEscrow ==
  { [Tx(1, op, a, 1, 1) EXCEPT !.delay = 2],
    [Tx(2, a, b, 3, 1) EXCEPT !.height = 2],
    Tx(3, a, 1, 2, 0),
    [Tx(4, op, a, 0, 0) EXCEPT !.msNumber = 2, !.msAddrs = <<b, op>>],
    Confirms(5, b, 2, 0), Confirms(6, op, 2, 0) }
=============================================================================

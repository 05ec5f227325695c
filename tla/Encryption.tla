----------------------------- MODULE Encryption ------------------------------
(***************************************************************************)
(* How the two signature schemes of the network are paused and replaced by *)
(* vote: voting/votingEncryptionSchemes.go, blocks/processEncryption.go,   *)
(* the encryption part of CheckBaseBlock in blocks/processBlock.go, the    *)
(* votes of nonce messages in services/nonceService, and the configuration *)
(* of common/types.go.  Scheme 1 is the primary one.                       *)
(***************************************************************************)
EXTENDS Integers, Sequences, FiniteSets, FiniteSetsExt

CONSTANTS
  Default,                 \* the schemes at the start: <<name, name>>
  Ids, Me,                 \* delegated accounts, and the one of this node
  Staked,                  \* what is staked in every delegated account
  VotingHeightDistance,
  Ballots,                 \* what a nonce message may propose for each scheme
  Headers,                 \* Encryption1 and Encryption2 of blocks
  MaxHeight                \* bound: blocks above the first one of the model

\* A scheme is a name and whether it is paused.
NoVote == [name |-> "", paused |-> FALSE]
Nothing == [value |-> NoVote, height |-> 0, staked |-> 0]
Both == {1, 2}

VARIABLES
  chain,       \* Encryption1 and Encryption2 of the stored blocks, from block 3 on
  config,      \* common.EncryptionConfig
  votes,       \* VotesEncryption1 and VotesEncryption2
  afterReset,  \* voting.AfterReset
  optData,     \* EncryptionOptData: the votes of this node
  changed,     \* the height at which a scheme was changed last, 0 after a reset
  walletFailed \* whether AddNewPubKeyToActiveWallet failed since the last reset

vars == <<chain, config, votes, afterReset, optData, changed, walletFailed>>

height == Len(chain) - 1
Last == chain[Len(chain)]
TotalStaked == MapThenSumSet(LAMBDA i : Staked[i], Ids)
NoVotes == [i \in Ids |-> Nothing]

Init ==
  /\ config = [p \in Both |-> [name |-> Default[p], paused |-> FALSE]]
  /\ chain = <<config>>
  /\ votes = [p \in Both |-> NoVotes]
  /\ afterReset = FALSE /\ optData = [p \in Both |-> NoVote]
  /\ changed = 0 /\ walletFailed = FALSE

-----------------------------------------------------------------------------
\* SaveVotesEncryption1 and SaveVotesEncryption2: an empty vote is no vote, a
\* vote replaces one that is not of a later height.
SaveVotes(id, ballot, h) ==
  [p \in Both |->
     IF ballot[p] = NoVote \/ (votes[p][id] # Nothing /\ votes[p][id].height > h)
     THEN votes[p]
     ELSE [votes[p] EXCEPT ![id] = [value |-> ballot[p], height |-> h, staked |-> Staked[id]]]]

\* The "nn" message of another node, with its votes; its height has to be the next.
ReceiveNonce(id, ballot) ==
  /\ id # Me
  /\ votes' = SaveVotes(id, ballot, height + 1)
  /\ UNCHANGED <<chain, config, afterReset, optData, changed, walletFailed>>

\* SetEncryptionData, by the operator of the node.
SetEncryptionData(ballot) ==
  /\ optData' = ballot
  /\ UNCHANGED <<chain, config, votes, afterReset, changed, walletFailed>>

\* generateNonceMsg, and the message received by the node itself: its votes are
\* dropped after a change.
SendNonce ==
  LET ballot == IF afterReset THEN [p \in Both |-> NoVote] ELSE optData
  IN  /\ optData' = ballot /\ afterReset' = FALSE
      /\ votes' = SaveVotes(Me, ballot, height + 1)
      /\ UNCHANGED <<chain, config, changed, walletFailed>>

-----------------------------------------------------------------------------
\* GenerateEncryption1Data and GenerateEncryption2Data forget votes that are old.
Current(p, h) ==
  {i \in Ids : votes[p][i] # Nothing /\ h <= votes[p][i].height + VotingHeightDistance}
Forget(p, h) == [i \in Ids |-> IF i \in Current(p, h) THEN votes[p][i] ELSE Nothing]

StakeOf(p, S) == MapThenSumSet(LAMBDA i : votes[p][i].staked, S)

\* removeOneDifferent and the comparison after it: of more than two votes one may differ.
Agree(p, S) ==
  /\ S # {}
  /\ \E i \in S :
       Cardinality({j \in S : votes[p][j].value # votes[p][i].value})
         <= (IF Cardinality(S) > 2 THEN 1 ELSE 0)

VerifyEncryptionForPausing(p, h) ==
  LET S == Current(p, h) IN StakeOf(p, S) > TotalStaked \div 3 /\ Agree(p, S)

VerifyEncryptionForReplacing(p, h) ==
  LET S == Current(p, h) IN StakeOf(p, S) > (2 * TotalStaked) \div 3 /\ Agree(p, S)

Votable(p, enc, h, recent) ==
  /\ (recent /\ enc.name # config[p].name) => VerifyEncryptionForReplacing(p, h)
  /\ (recent /\ enc.paused /\ enc.name = config[p].name) => VerifyEncryptionForPausing(p, h)

\* CheckBaseBlock of one scheme.  recent: shouldCheck, the block is not too old
\* for the votes to be known.  The conditions are those of its early returns.
CheckEncryption(p, enc, h, recent) ==
  \/ enc = Last[p]
  \/ enc = config[p]
  \/ /\ config[p].paused \/ config[p].name = enc.name
     /\ enc.name # config[p].name => ~enc.paused
     /\ Votable(p, enc, h, recent)
     /\ enc.name # config[3 - p].name

\* CheckBaseBlock looks at the votes on a scheme, and so forgets the old ones.
Looks(p, enc, recent) ==
  /\ recent /\ enc # Last[p] /\ enc # config[p]
  /\ config[p].paused \/ config[p].name = enc.name
  /\ enc.name # config[p].name => ~enc.paused
  /\ enc.paused \/ enc.name # config[p].name

\* ResetLastVoting leaves the votes of account 255: its loop ends before it.
ResetLastVoting == [p \in Both |-> [i \in Ids |-> IF i = 255 THEN votes[p][i] ELSE Nothing]]

\* Mutant: the votes on the other scheme are kept.
ProcessBlockEncryption_KeepVotes(header, fails) ==
  LET changes == {p \in Both : header[p] # Last[p]}
      reached == IF 1 \in changes /\ fails THEN {1} ELSE changes
  IN  /\ config' = [p \in Both |-> IF p \in reached THEN header[p] ELSE config[p]]
      /\ votes' = [p \in Both |-> IF p \in reached THEN NoVotes ELSE votes[p]]
      /\ afterReset' = (afterReset \/ reached # {})
      /\ changed' = IF reached = {} THEN changed ELSE height + 1
      /\ walletFailed' = (walletFailed \/ (fails /\ 1 \in changes))

\* ProcessBlockEncryption of a block on the last one.  SetVoteEncryption hands the
\* scheme to InitChannelVoting and waits until it is set.  An error in saving the
\* wallet leaves the second scheme alone; the block is kept all the same.
ProcessBlockEncryption(header, fails) ==
  LET changes == {p \in Both : header[p] # Last[p]}
      reached == IF 1 \in changes /\ fails THEN {1} ELSE changes
  IN  /\ config' = [p \in Both |-> IF p \in reached THEN header[p] ELSE config[p]]
      /\ votes' = IF reached = {} THEN votes ELSE ResetLastVoting
      /\ afterReset' = (afterReset \/ reached # {})
      /\ changed' = IF reached = {} THEN changed ELSE height + 1
      /\ walletFailed' = (walletFailed \/ (fails /\ 1 \in changes))

\* A block is applied; while the node syncs its schemes are not checked.
ApplyBlock(header, syncing, recent, fails) ==
  /\ Len(chain) <= MaxHeight
  /\ syncing \/ \A p \in Both : CheckEncryption(p, header[p], height + 1, recent)
  /\ ProcessBlockEncryption(header, fails)
  /\ chain' = Append(chain, header)
  /\ UNCHANGED optData

\* A block is refused: what is left of it is that old votes are forgotten.
RefuseBlock(header, recent) ==
  LET h == height + 1
      first == IF CheckEncryption(1, header[1], h, recent) THEN Both ELSE {1}
  IN  /\ \E p \in Both : ~CheckEncryption(p, header[p], h, recent)
      /\ votes' = [p \in Both |-> IF p \in first /\ Looks(p, header[p], recent)
                                  THEN Forget(p, h) ELSE votes[p]]
      /\ UNCHANGED <<chain, config, afterReset, optData, changed, walletFailed>>

\* Mutant: the node goes back without SetEncryptionFromBlock.
Reset_KeepConfig(h) ==
  /\ h < height
  /\ chain' = SubSeq(chain, 1, h + 1)
  /\ walletFailed' = FALSE /\ changed' = 0
  /\ UNCHANGED <<config, votes, afterReset, optData>>

\* ResetAccountsAndBlocksSync and SetEncryptionFromBlock.
Reset(h) ==
  /\ h < height
  /\ chain' = SubSeq(chain, 1, h + 1)
  /\ config' = chain[h + 1]
  /\ walletFailed' = FALSE /\ changed' = 0
  /\ UNCHANGED <<votes, afterReset, optData>>

Next ==
  \/ \E id \in Ids, ballot \in Ballots : ReceiveNonce(id, ballot)
  \/ \E ballot \in Ballots : SetEncryptionData(ballot)
  \/ SendNonce
  \/ \E header \in Headers, recent \in BOOLEAN :
       \/ \E syncing, fails \in BOOLEAN : ApplyBlock(header, syncing, recent, fails)
       \/ RefuseBlock(header, recent)
  \/ \E h \in 0..MaxHeight : Reset(h)

Spec == Init /\ [][Next]_vars

-----------------------------------------------------------------------------
\* The schemes that the node uses are those of its last block, through blocks
\* that were applied, refused and rolled back: a node that restarts the chain
\* from it agrees.  (After an error in saving the wallet only the primary one.)
ConfigFollowsChain ==
  config[1] = Last[1] /\ (walletFailed \/ config[2] = Last[2])

\* A vote that was cast before a change of a scheme does not count after it.
NoVoteSurvivesAChange ==
  \A p \in Both, i \in Ids \ {255} :
    votes[p][i] # Nothing => votes[p][i].height > changed
=============================================================================

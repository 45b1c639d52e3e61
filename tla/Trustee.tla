------------------------------- MODULE Trustee -------------------------------
(***************************************************************************)
(* Mining rewards and transfers (network/trustee.go), on the tree of       *)
(* blocks of one network: what a producer writes into the world state of   *)
(* its candidate, and what a peer computes when it replays the block.      *)
(*                                                                         *)
(* The world state holds a uint64 per name: the balances of the miners and *)
(* other accounts, and the counters of the application (countrApp/app.go), *)
(* which share the names and the encoding of the balances.                 *)
(***************************************************************************)
EXTENDS Chain, FiniteSets
LOCAL INSTANCE FiniteSetsExt

CONSTANTS
  Miner,        \* the nodes
  Name,         \* keys of the world state: accounts, the miners' too, and counters
  MinerAward,   \* 1000000 in the code
  UncleAward,   \* 200000 in the code
  UInt64,       \* 2^64 in the code
  MaxTxs,       \* bound: application transactions per block
  Bounds        \* bounds, a set of [blocks : how many there are, txs : the
                \* application transactions that are submitted]

ASSUME TrusteeAssumption ==
  /\ MinerAward \in 1 .. UInt64 - 1 /\ UncleAward \in 1 .. UInt64 - 1
  /\ Miner \subseteq Name /\ MaxTxs \in Nat

VARIABLES
  chain,       \* the blocks, main list and tip
  contents,    \* what the blocks of the chain carry, by hash
  candidate,   \* the candidate of each miner, or NoBlock
  bounds       \* the one of Bounds; it does not change

trusteeVars == <<chain, contents, candidate, bounds>>

Ledger == [Name -> 0 .. UInt64 - 1]
Op == [to : Miner, award : {MinerAward, UncleAward}]

\* testTx, the payload of an application transaction; Delta as a uint64.
TestTx == [op : {"incr", "decr", "xfer"}, source : Name, target : Name, delta : 0 .. UInt64 - 1]

ASSUME BoundsAssumption == \A n \in Bounds : n.blocks \in Nat /\ n.txs \subseteq TestTx

\* What a block carries beyond BlockSpec: its miner, the operations of its
\* reward transaction, its application transactions and its STATE.
Content == [miner : Miner, ops : Seq(Op), txs : Seq(TestTx), state : Ledger]

TrusteeTypeOK ==
  /\ \A h \in Known(chain) \ {Genesis} : contents[h] \in Content
  /\ \A m \in Miner : candidate[m] # NoBlock =>
       /\ candidate[m].block \in BlockSpec
       /\ candidate[m].content \in Content /\ candidate[m].content.miner = m

StateOf(h) == IF h = Genesis THEN [a \in Name |-> 0] ELSE contents[h].state

TrusteeInit ==
  /\ chain = NewChain
  /\ contents = [h \in Hash |-> NoBlock]
  /\ candidate = [m \in Miner |-> NoBlock]
  /\ bounds \in Bounds

-----------------------------------------------------------------------------

Credit(ledger, account, delta) ==
  [ledger EXCEPT ![account] = (@ + delta) % UInt64]

\* Mutant of Debits: the balance is not looked at.
DebitsUnchecked(ledger, account, delta) == TRUE

\* Debit goes ahead; else it fails with ERR_LOW_BALANCE and changes nothing.
Debits(ledger, account, delta) == ledger[account] >= delta

Debit(ledger, account, delta) ==
  [ledger EXCEPT ![account] = (@ + UInt64 - delta) % UInt64]

\* The application's transaction processor: the counter operations update any
\* name and never fail, a transfer fails when its debit does.
TxProcessed(ledger, tx) == tx.op = "xfer" => Debits(ledger, tx.source, tx.delta)

Applied(ledger, tx) ==
  CASE tx.op = "incr" -> Credit(ledger, tx.target, tx.delta)
    [] tx.op = "decr" -> Debit(ledger, tx.target, tx.delta)
    [] tx.op = "xfer" -> Credit(Debit(ledger, tx.source, tx.delta), tx.target, tx.delta)

\* The uncle's miners that addUncle and isUncleValid note, in the order of the
\* block's uncles.
UncleMiners(uncles) == [i \in DOMAIN uncles |-> contents[uncles[i]].miner]

\* The operations of NewMiningRewardTx: the miner's award, then one per uncle.
RewardOps(miner, uncleMiners) ==
  <<[to |-> miner, award |-> MinerAward]>> \o
  [i \in DOMAIN uncleMiners |-> [to |-> uncleMiners[i], award |-> UncleAward]]

\* The checks of process: one operation for the miner and one per uncle.
ProcessAccepts(ops, submitter, uncleMiners) ==
  /\ Len(ops) = 1 + Len(uncleMiners)
  /\ ops[1] = [to |-> submitter, award |-> MinerAward]
  /\ \A i \in DOMAIN uncleMiners : ops[i + 1] = [to |-> uncleMiners[i], award |-> UncleAward]

\* The credits of process, when no check fails.
Process(ledger, ops) ==
  LET after[i \in 0 .. Len(ops)] ==
        IF i = 0 THEN ledger ELSE Credit(after[i - 1], ops[i].to, ops[i].award)
  IN  after[Len(ops)]

-----------------------------------------------------------------------------

\* The producer takes a first transaction: NewCandidateBlock, then
\* NewMiningRewardTx, which processes the reward on the candidate.
NewCandidate(m) ==
  /\ candidate[m] = NoBlock
  /\ LET us == CandidateUncles(chain)
         tip == chain.block[chain.tip]
         ops == RewardOps(m, UncleMiners(us))
     IN  candidate' = [candidate EXCEPT ![m] =
           [block |-> [parent |-> chain.tip, depth |-> tip.depth + 1,
                       weight |-> tip.weight + 1 + Len(us), uncles |-> us, txs |-> {}],
            content |-> [miner |-> m, ops |-> ops, txs |-> <<>>,
                         state |-> IF ProcessAccepts(ops, m, UncleMiners(us))
                                   THEN Process(StateOf(chain.tip), ops)
                                   ELSE StateOf(chain.tip)]]]
  /\ UNCHANGED <<chain, contents, bounds>>

\* Mutant of ProcessTx: a transaction the application refused is listed too.
ProcessTxListsRefused(m, tx) ==
  /\ candidate[m] # NoBlock /\ Len(candidate[m].content.txs) < MaxTxs
  /\ LET c == candidate[m].content
         after == IF TxProcessed(c.state, tx) THEN Applied(c.state, tx) ELSE c.state
     IN  candidate' = [candidate EXCEPT ![m].content =
           [c EXCEPT !.state = after, !.txs = Append(@, tx)]]
  /\ UNCHANGED <<chain, contents, bounds>>

\* processTx on a candidate: a transaction that the application refuses is not
\* added to the block.
ProcessTx(m, tx) ==
  /\ candidate[m] # NoBlock /\ Len(candidate[m].content.txs) < MaxTxs
  /\ TxProcessed(candidate[m].content.state, tx)
  /\ candidate' = [candidate EXCEPT
       ![m].content.state = Applied(@, tx), ![m].content.txs = Append(@, tx)]
  /\ UNCHANGED <<chain, contents, bounds>>

\* Which of the unused hashes a block gets makes no difference but for Numeric.
Unused == Hash \ Known(chain)
Fresh == CHOOSE h \in Unused : TRUE

\* mineCandidateBlock of a block with an application transaction.
MineCandidate(m) ==
  /\ candidate[m] # NoBlock /\ candidate[m].content.txs # <<>>
  /\ Unused # {} /\ Cardinality(Known(chain)) <= bounds.blocks
  /\ chain' = Added(chain, Fresh, candidate[m].block)
  /\ contents' = [contents EXCEPT ![Fresh] = candidate[m].content]
  /\ candidate' = [candidate EXCEPT ![m] = NoBlock]
  /\ UNCHANGED bounds

TrusteeNext == \E m \in Miner :
  \/ NewCandidate(m)
  \/ \E tx \in bounds.txs : ProcessTx(m, tx)
  \/ MineCandidate(m)

TrusteeSpec == TrusteeInit /\ [][TrusteeNext]_trusteeVars

-----------------------------------------------------------------------------
(* A peer that receives a block: DecodeNetworkBlock notes the miners of the *)
(* uncles, processBlock replays the transactions, AcceptNetworkBlock        *)
(* compares the state with STATE.                                           *)

\* The world state after the first k application transactions of block h.
Replayed(h, k) ==
  LET after[i \in 0 .. k] ==
        IF i = 0 THEN Process(StateOf(chain.block[h].parent), contents[h].ops)
        ELSE Applied(after[i - 1], contents[h].txs[i])
  IN  after[k]

ProcessBlockAccepts(h) ==
  LET c == contents[h] IN
  /\ c.txs # <<>>
  /\ ProcessAccepts(c.ops, c.miner, UncleMiners(chain.block[h].uncles))
  /\ \A i \in DOMAIN c.txs : TxProcessed(Replayed(h, i - 1), c.txs[i])
  /\ Replayed(h, Len(c.txs)) = c.state

-----------------------------------------------------------------------------
(* Properties *)

\* Every block that a producer mines passes the checks of processBlock on a
\* peer that knows its parent and uncles: the reward transaction names the
\* miners the peer finds, no transfer is refused on replay, and the peer
\* arrives at the block's STATE, whatever the tip was when the candidate began.
PeersAcceptMined == \A h \in Known(chain) \ {Genesis} : ProcessBlockAccepts(h)

\* The blocks on the line of h, and the sum of what Gain says they bring.
LineOf(h) == Line(chain.block, Known(chain), h) \ {Genesis}
OnLine(h, Gain(_)) == MapThenSumSet(Gain, LineOf(h))

\* The names that counter operations on the line of h update, and those of the
\* accounts that are paid or pay there.
Txs(h) == UNION {{contents[g].txs[i] : i \in DOMAIN contents[g].txs} : g \in LineOf(h)}
Counters(h) == {tx.target : tx \in {t \in Txs(h) : t.op # "xfer"}}
Accounts(h) ==
  Miner \cup UNION {{tx.source, tx.target} : tx \in {t \in Txs(h) : t.op = "xfer"}}

\* A balance is explained by the line of blocks up to the one it is read at
\* (MiningRewardBalance) and by no block off that line: the awards of the
\* account's own blocks and of its blocks listed as uncles, its transfers, and,
\* in the arithmetic of uint64, what counter operations did to its name.  Where
\* the counters have names of their own, money is made by mining alone: no
\* balance wraps round, not even under a transfer of an amount that is negative
\* before its conversion to uint64.
BalancesExplained ==
  \A h \in Known(chain), a \in Name :
    LET Listed(g) == {i \in DOMAIN chain.block[g].uncles : contents[chain.block[g].uncles[i]].miner = a}
        Award(g) == (IF contents[g].miner = a THEN MinerAward ELSE 0) + UncleAward * Cardinality(Listed(g))
        Moved(g, Is(_)) ==
          MapThenSumSet(LAMBDA i : IF Is(contents[g].txs[i]) THEN contents[g].txs[i].delta ELSE 0,
                        DOMAIN contents[g].txs)
        In(g) == Moved(g, LAMBDA tx : tx.op \in {"xfer", "incr"} /\ tx.target = a)
        Out(g) == Moved(g, LAMBDA tx : \/ tx.op = "xfer" /\ tx.source = a
                                       \/ tx.op = "decr" /\ tx.target = a)
        left == StateOf(h)[a] + OnLine(h, Out)
        right == OnLine(h, Award) + OnLine(h, In)
    IN  /\ left % UInt64 = right % UInt64
        /\ Counters(h) \cap Accounts(h) = {} /\ a \notin Counters(h) => left = right
==============================================================================

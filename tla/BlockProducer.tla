---------------------------- MODULE BlockProducer ----------------------------
(***************************************************************************)
(* The block producer of a platform node and its life cycle                *)
(* (network/platform.go): the goroutines that call Start, Suspend and      *)
(* Stop, the producers they launch, and the way of a transaction from      *)
(* Submit to a block or to the list of dead transactions.                  *)
(*                                                                         *)
(* isRunning is read and written without a lock, so every access is a step *)
(* of its own.  A send on the unbuffered channel shutdownBlockProducer is  *)
(* one step with the producer whose select receives it.  The timer may     *)
(* fire whenever a producer is in its select.                              *)
(***************************************************************************)
EXTENDS Naturals, Sequences, FiniteSets

CONSTANTS
  Tx,             \* transactions; an id holds the time of Submit, so each is
                  \* submitted once and to one node
  App,            \* the application's goroutine
  Sync,           \* goroutines in syncNode, one for each new peer
  Calls,          \* the life cycle calls the application makes
  Producer,       \* bound: producers that may run at a time
  NoBlock,        \* the nil block
  TxQueueSize,    \* txQueueSize, 10 in the code
  MaxTxCount      \* maxTxCount, 10 in the code

ASSUME ProducerAssumption ==
  /\ App \notin Sync
  /\ Calls \subseteq {"start", "suspend", "stop"}
  /\ \A S \in SUBSET Tx : NoBlock # S
  /\ TxQueueSize \in Nat \ {0} /\ MaxTxCount \in Nat \ {0}

VARIABLES
  isRunning,
  pc,          \* where each calling goroutine is
  producer,    \* the producers: where they are, newBlock and txCount
  txQ,
  deadTxs,
  waiting,     \* transactions whose Submit is at its send on txQ
  submitted,   \* the transactions queued so far
  told,        \* those whose rejection Status has reported
  mined,       \* those in a block that was mined
  \* history:
  wanted,      \* the last life cycle call of the application, or the last sync
               \* that ended well, has switched production on
  overlapped   \* two calls have been past their test of isRunning at a time

queues == <<txQ, deadTxs, waiting, submitted, told, mined>>
producerVars == <<isRunning, pc, producer, queues, wanted, overlapped>>

Stopped == [pc |-> "none", block |-> NoBlock, txCount |-> 0]
Selecting == [Stopped EXCEPT !.pc = "select"]

Alive == {p \in Producer : producer[p].pc # "none"}

AppPoints == {"idle", "start", "go", "set", "suspend", "suspending", "clear",
              "stopping", "closing", "stopped"}
SyncPoints == {"new", "sync", "suspend", "suspending", "clear", "wait", "resume",
               "start", "go", "set", "done", "failed"}

ProducerTypeOK ==
  /\ isRunning \in BOOLEAN
  /\ DOMAIN pc = {App} \cup Sync /\ pc[App] \in AppPoints
  /\ \A s \in Sync : pc[s] \in SyncPoints
  /\ producer \in [Producer -> [pc : {"none", "select", "mine"},
                                block : (SUBSET Tx) \cup {NoBlock}, txCount : 0 .. MaxTxCount]]
  /\ txQ \in Seq(Tx) /\ Len(txQ) <= TxQueueSize
  /\ deadTxs \subseteq Tx /\ waiting \subseteq Tx /\ submitted \subseteq Tx
  /\ told \subseteq Tx /\ mined \subseteq Tx
  /\ wanted \in BOOLEAN /\ overlapped \in BOOLEAN

InitPoints == [g \in {App} \cup Sync |-> IF g = App THEN "idle" ELSE "new"]

\* A new platform manager: nothing is produced before Start.
ProducerInit ==
  /\ isRunning = FALSE
  /\ pc = InitPoints
  /\ producer = [p \in Producer |-> Stopped]
  /\ txQ = <<>>
  /\ deadTxs = {} /\ waiting = {} /\ submitted = {} /\ told = {} /\ mined = {}
  /\ wanted = FALSE /\ overlapped = FALSE

-----------------------------------------------------------------------------
(* Start, Suspend, Stop *)

\* The calls that are past their test of isRunning; Stop makes none.
Calling(points) == {g \in DOMAIN points : points[g] \in {"go", "set", "suspending", "clear",
                                                        "stopping", "closing"}}

\* The steps that move the history variable wanted: Start of the application
\* returns, a sync is done; Suspend or Stop returns.
SwitchesOn(g, point) ==
  IF g = App THEN pc[g] \in {"start", "set"} /\ point = "idle" ELSE point = "done"
SwitchesOff(g) == g = App /\ pc[g] \in {"suspend", "clear", "closing"}

\* A caller goes on to its next point.
Proceed(g, point) ==
  /\ pc' = [pc EXCEPT ![g] = point]
  /\ wanted' = (SwitchesOn(g, point) \/ (wanted /\ ~SwitchesOff(g)))
  /\ overlapped' = (overlapped \/ \E a, b \in Calling(pc') : a # b)

Call == \E op \in Calls :
  /\ pc[App] = "idle"
  /\ Proceed(App, IF op = "stop" THEN "stopping" ELSE op)
  /\ UNCHANGED <<isRunning, producer, queues>>

\* Mutant of StartCheck: a second start is not refused.
StartUnchecked(g) ==
  /\ pc[g] = "start"
  /\ Proceed(g, "go")
  /\ UNCHANGED <<isRunning, producer, queues>>

StartCheck(g) ==
  /\ pc[g] = "start"
  /\ Proceed(g, IF ~isRunning THEN "go" ELSE IF g = App THEN "idle" ELSE "done")
  /\ UNCHANGED <<isRunning, producer, queues>>

StartProducer(g) ==
  /\ pc[g] = "go"
  /\ \E p \in Producer \ Alive : producer' = [producer EXCEPT ![p] = Selecting]
  /\ Proceed(g, "set")
  /\ UNCHANGED <<isRunning, queues>>

StartReturns(g) ==
  /\ pc[g] = "set"
  /\ isRunning' = TRUE
  /\ Proceed(g, IF g = App THEN "idle" ELSE "done")
  /\ UNCHANGED <<producer, queues>>

\* Mutant of SuspendCheck: a suspended platform is suspended again.
SuspendUnchecked(g) ==
  /\ pc[g] = "suspend"
  /\ Proceed(g, "suspending")
  /\ UNCHANGED <<isRunning, producer, queues>>

SuspendCheck(g) ==
  /\ pc[g] = "suspend"
  /\ Proceed(g, IF isRunning THEN "suspending" ELSE IF g = App THEN "idle" ELSE "wait")
  /\ UNCHANGED <<isRunning, producer, queues>>

\* Suspend and Stop: the send on shutdownBlockProducer, received in a producer's
\* select; the producer returns, whatever is in its candidate block.
Shutdown(g, p) ==
  /\ pc[g] \in {"suspending", "stopping"} /\ producer[p].pc = "select"
  /\ producer' = [producer EXCEPT ![p] = Stopped]
  /\ Proceed(g, IF pc[g] = "suspending" THEN "clear" ELSE "closing")
  /\ UNCHANGED <<isRunning, queues>>

\* After Stop the p2p server and the database are closed.
ShutdownReturns(g) ==
  /\ pc[g] \in {"clear", "closing"}
  /\ isRunning' = FALSE
  /\ Proceed(g, IF pc[g] = "closing" THEN "stopped" ELSE IF g = App THEN "idle" ELSE "wait")
  /\ UNCHANGED <<producer, queues>>

-----------------------------------------------------------------------------
(* syncNode, as far as it drives the producer *)

\* A peer that is ahead connects, until the p2p server is stopped.
PeerConnects(s) ==
  /\ pc[s] = "new" /\ pc[App] # "stopped"
  /\ Proceed(s, "sync")
  /\ UNCHANGED <<isRunning, producer, queues>>

SyncLoop(s) ==
  /\ pc[s] = "sync"
  /\ Proceed(s, IF isRunning THEN "suspend" ELSE "wait")
  /\ UNCHANGED <<isRunning, producer, queues>>

\* One round of the protocol: more to sync, all synced, or an error return.
SyncRound(s) ==
  /\ pc[s] = "wait"
  /\ \E next \in {"sync", "resume", "failed"} : Proceed(s, next)
  /\ UNCHANGED <<isRunning, producer, queues>>

\* Mutant of SyncResume: production is resumed only if it runs.
SyncResumeInverted(s) ==
  /\ pc[s] = "resume"
  /\ Proceed(s, IF isRunning THEN "start" ELSE "done")
  /\ UNCHANGED <<isRunning, producer, queues>>

SyncResume(s) ==
  /\ pc[s] = "resume"
  /\ Proceed(s, IF isRunning THEN "done" ELSE "start")
  /\ UNCHANGED <<isRunning, producer, queues>>

-----------------------------------------------------------------------------
(* Submit and Status *)

Submit(tx) ==
  /\ tx \notin waiting \cup submitted
  /\ waiting' = waiting \cup {tx}
  /\ UNCHANGED <<isRunning, pc, producer, txQ, deadTxs, submitted, told, mined, wanted, overlapped>>

\* mgr.txQ <- tx blocks while the queue is full.
SubmitSends(tx) ==
  /\ tx \in waiting /\ Len(txQ) < TxQueueSize
  /\ txQ' = Append(txQ, tx)
  /\ waiting' = waiting \ {tx} /\ submitted' = submitted \cup {tx}
  /\ UNCHANGED <<isRunning, pc, producer, deadTxs, told, mined, wanted, overlapped>>

\* Status reports the rejection of a dead transaction once, then forgets it.
Status(tx) ==
  /\ tx \in deadTxs
  /\ deadTxs' = deadTxs \ {tx} /\ told' = told \cup {tx}
  /\ UNCHANGED <<isRunning, pc, producer, txQ, waiting, submitted, mined, wanted, overlapped>>

-----------------------------------------------------------------------------
(* blockProducer *)

\* Mutant of TakeTx: a transaction the application rejects is not made dead.
TakeTxForgetful(p) ==
  /\ producer[p].pc = "select" /\ txQ # <<>>
  /\ producer' = [producer EXCEPT ![p].block = IF @ = NoBlock THEN {} ELSE @]
  /\ txQ' = Tail(txQ)
  /\ UNCHANGED <<isRunning, pc, deadTxs, waiting, submitted, told, mined, wanted, overlapped>>

\* case tx := <- mgr.txQ: the application accepts the transaction and the block
\* takes it, or the application rejects it.  A new block holds the reward
\* transaction, which is not shown.
TakeTx(p) ==
  /\ producer[p].pc = "select" /\ txQ # <<>>
  /\ LET tx == Head(txQ)
         newBlock == IF producer[p].block = NoBlock THEN {} ELSE producer[p].block
         count == producer[p].txCount + 1
     IN  \/ /\ producer' = [producer EXCEPT ![p] =
                 [pc      |-> IF count = MaxTxCount THEN "mine" ELSE "select",
                  block   |-> newBlock \cup {tx},
                  txCount |-> count]]
            /\ UNCHANGED deadTxs
         \/ /\ producer' = [producer EXCEPT ![p].block = newBlock]
            /\ deadTxs' = deadTxs \cup {tx}
  /\ txQ' = Tail(txQ)
  /\ UNCHANGED <<isRunning, pc, waiting, submitted, told, mined, wanted, overlapped>>

\* Mutant of Timeout: a block is mined though it holds only the reward.
TimeoutGreedy(p) ==
  /\ producer[p].pc = "select"
  /\ producer' = [producer EXCEPT ![p] =
       IF @.block = NoBlock THEN Selecting ELSE [@ EXCEPT !.pc = "mine"]]
  /\ UNCHANGED <<isRunning, pc, queues, wanted, overlapped>>

\* Mutant of Timeout: the producer waits for a full block.
TimeoutWaits(p) ==
  /\ producer[p].pc = "select"
  /\ producer' = [producer EXCEPT ![p] =
       IF @.block \in {NoBlock, {}} THEN Selecting ELSE @]
  /\ UNCHANGED <<isRunning, pc, queues, wanted, overlapped>>

\* case <- wait.C: mine a block that has more than the reward, drop another.
Timeout(p) ==
  /\ producer[p].pc = "select"
  /\ producer' = [producer EXCEPT ![p] =
       IF @.block \in {NoBlock, {}} THEN Selecting ELSE [@ EXCEPT !.pc = "mine"]]
  /\ UNCHANGED <<isRunning, pc, queues, wanted, overlapped>>

\* Mutant of MineCandidateBlock: the count is not reset.
MineKeepsCount(p) ==
  /\ producer[p].pc = "mine"
  /\ mined' = mined \cup producer[p].block
  /\ producer' = [producer EXCEPT ![p].pc = "select", ![p].block = NoBlock]
  /\ UNCHANGED <<isRunning, pc, txQ, deadTxs, waiting, submitted, told, wanted, overlapped>>

\* mineCandidateBlock returns: the block is in the chain, or its transactions
\* are dead.
MineCandidateBlock(p) ==
  /\ producer[p].pc = "mine"
  /\ \/ mined' = mined \cup producer[p].block /\ UNCHANGED deadTxs
     \/ deadTxs' = deadTxs \cup producer[p].block /\ UNCHANGED mined
  /\ producer' = [producer EXCEPT ![p] = Selecting]
  /\ UNCHANGED <<isRunning, pc, txQ, waiting, submitted, told, wanted, overlapped>>

-----------------------------------------------------------------------------

Starting(g) == StartCheck(g) \/ StartProducer(g) \/ StartReturns(g)
Suspending(g) == SuspendCheck(g) \/ ShutdownReturns(g)

ProducerNext ==
  \/ Call
  \/ \E g \in {App} \cup Sync : Starting(g) \/ Suspending(g)
  \/ \E g \in {App} \cup Sync, p \in Producer : Shutdown(g, p)
  \/ \E s \in Sync : PeerConnects(s) \/ SyncLoop(s) \/ SyncRound(s) \/ SyncResume(s)
  \/ \E tx \in Tx : Submit(tx) \/ SubmitSends(tx) \/ Status(tx)
  \/ \E p \in Producer : TakeTx(p) \/ Timeout(p) \/ MineCandidateBlock(p)

ProducerSpec == ProducerInit /\ [][ProducerNext]_producerVars

\* Goroutines are scheduled, a timer fires and mining ends (weak fairness); a
\* select with several cases ready picks one at random, so none of them is
\* passed over for ever (strong fairness).
ProducerFairSpec ==
  /\ ProducerSpec
  /\ \A g \in {App} \cup Sync : WF_producerVars(Starting(g) \/ Suspending(g))
  /\ \A s \in Sync : WF_producerVars(SyncLoop(s) \/ SyncRound(s) \/ SyncResume(s))
  /\ \A g \in {App} \cup Sync : SF_producerVars(\E p \in Producer : Shutdown(g, p))
  /\ \A tx \in Tx : WF_producerVars(SubmitSends(tx))
  /\ \A p \in Producer :
       /\ SF_producerVars(TakeTx(p)) /\ SF_producerVars(Timeout(p))
       /\ WF_producerVars(MineCandidateBlock(p))

-----------------------------------------------------------------------------
(* Properties *)

\* Start refuses with "block production already running": however often the
\* application and any number of syncs switch it on and off, no two producers
\* run, as long as no two calls are past their test of isRunning at a time.
OneProducer == ~overlapped => \A p, q \in Alive : p = q

\* A block is full at maxTxCount transactions.  The code tests its count for
\* equality: the count follows the block, across mining, timeouts and rejected
\* transactions, and the select is never entered with a full block.
CapacityHolds ==
  \A p \in Alive : LET r == producer[p] IN
    /\ r.txCount = IF r.block = NoBlock THEN 0 ELSE Cardinality(r.block)
    /\ r.txCount < (IF r.pc = "mine" THEN MaxTxCount + 1 ELSE MaxTxCount)

\* Where a submitted transaction can be.
Held(tx) ==
  \/ \E i \in DOMAIN txQ : txQ[i] = tx
  \/ \E p \in Producer : producer[p].block # NoBlock /\ tx \in producer[p].block
Settled(tx) == tx \in mined \cup deadTxs \cup told

\* Only the shutdown of a producer loses transactions (those of its candidate
\* block): on every other step each one stays queued, in a block, mined,
\* dead or reported.
LostOnlyByShutdown ==
  [][\A tx \in submitted :
       /\ Held(tx) \/ Settled(tx)
       /\ ~(\E p \in Producer : producer[p].pc # "none" /\ producer'[p].pc = "none")
       => (Held(tx) \/ Settled(tx))']_producerVars

\* "resume block production" (syncNode): when all calls and syncs are over,
\* production that was switched on, by the application or at the end of a sync,
\* runs; only a sync that failed leaves it off, and two calls that overlapped.
KeepsRunning ==
  /\ ~overlapped /\ wanted
  /\ pc[App] \in {"idle", "stopped"} /\ \A s \in Sync : pc[s] \in {"new", "done"}
  => isRunning /\ Alive # {}

\* "make sure there is atleast 1 application transaction" (processBlock): no
\* block is mined that peers refuse as greedy.
NoGreedyBlock == \A p \in Alive : producer[p].pc = "mine" => producer[p].block # {}

\* Suspend returns, and Stop of a running platform: the producer takes the
\* shutdown even while transactions keep coming and blocks are being mined.
\* Stop of a suspended platform has no producer to wait for and does not return,
\* nor does the second of two calls that wait for one producer.
SuspendReturns ==
  pc[App] = "suspend" \/ (pc[App] = "stopping" /\ isRunning)
    ~> pc[App] \in {"idle", "stopped"} \/ overlapped

\* A call of Submit returns and its transaction is settled, or production is
\* suspended meanwhile; a full queue only delays it.
TxSettles ==
  \A tx \in Tx : tx \in waiting \/ Held(tx) ~> Settled(tx) \/ ~isRunning \/ overlapped
==============================================================================

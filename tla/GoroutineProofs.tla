-------------------------- MODULE GoroutineProofs --------------------------
(***************************************************************************)
(* Proofs about the two parts of a node in which goroutines share memory   *)
(* without a lock, for every number of them.                               *)
(*                                                                         *)
(* The block producer, for any number of syncs, transactions and producers *)
(* and any sizes: no two producers run while life cycle calls do not       *)
(* overlap, and no block is overfull or greedy.                            *)
(*                                                                         *)
(* Peer connections, for every number of nodes, connections and messages:  *)
(* RunTimeBound leaves a goroutine behind that goes on to write err and    *)
(* msg, and no peer is registered by mistake; maxPeers is kept by a node   *)
(* that makes its connections one at a time; a message that is flooded     *)
(* over any network of connections comes to rest, and has reached all.     *)
(***************************************************************************)
EXTENDS BlockProducer, Pager, FiniteSetTheorems, FunctionTheorems, TLAPS

-----------------------------------------------------------------------------
(* The block producer *)

Callers == {App} \cup Sync

\* The types the proofs rest on.
PcType ==
  pc \in [Callers -> AppPoints \cup SyncPoints] /\ isRunning \in BOOLEAN /\ overlapped \in BOOLEAN
ProducerType ==
  producer \in [Producer -> [pc : {"none", "select", "mine"},
                             block : (SUBSET Tx) \cup {NoBlock}, txCount : Nat]]
QueueType == txQ \in Seq(Tx) /\ waiting \in SUBSET Tx /\ submitted \in SUBSET Tx

\* Without overlapping calls: between two calls isRunning says whether there is
\* a producer, and the one call that is under way knows where it stands.
LifeInv ==
  ~overlapped =>
    /\ \A p, q \in Alive : p = q
    /\ \A a, b \in Calling(pc) : a = b
    /\ Calling(pc) = {} => (isRunning <=> Alive # {})
    /\ \A g \in Callers :
         /\ pc[g] = "go" => Alive = {} /\ ~isRunning
         /\ pc[g] = "set" => Alive # {} /\ ~isRunning
         /\ pc[g] = "suspending" => Alive # {} /\ isRunning
         /\ pc[g] = "stopping" => (isRunning <=> Alive # {})
         /\ pc[g] \in {"clear", "closing"} => Alive = {}

\* A transaction is queued once and leaves the queue for a block.
QueueInv ==
  /\ waiting \cap submitted = {}
  /\ \A i \in DOMAIN txQ : txQ[i] \in submitted
  /\ \A i, j \in DOMAIN txQ : txQ[i] = txQ[j] => i = j
  /\ \A p \in Producer : producer[p].block # NoBlock =>
       /\ producer[p].block \subseteq submitted
       /\ \A i \in DOMAIN txQ : txQ[i] \notin producer[p].block

\* The count is that of the block, and a full or waiting block is not empty.
BlockInv ==
  \A p \in Producer :
    /\ producer[p].pc = "none" => producer[p].block = NoBlock
    /\ producer[p].block = NoBlock => producer[p].txCount = 0 /\ producer[p].pc # "mine"
    /\ producer[p].block # NoBlock =>
         IsFiniteSet(producer[p].block) /\ producer[p].txCount = Cardinality(producer[p].block)
    /\ producer[p].pc # "mine" => producer[p].txCount < MaxTxCount
    /\ producer[p].pc = "mine" => producer[p].txCount <= MaxTxCount /\ producer[p].block # {}

TypeInv == PcType /\ ProducerType /\ QueueType
ProducerInv == TypeInv /\ LifeInv /\ QueueInv /\ BlockInv

-----------------------------------------------------------------------------

\* A platform that was just configured: no producer, no transaction, no call.
LEMMA ProducerInvInit == ProducerInit => ProducerInv
<1> SUFFICES ASSUME ProducerInit PROVE ProducerInv
  BY Zenon
<1> USE ProducerAssumption DEF ProducerInit, Stopped
<1>1. TypeInv
  <2>1. PcType
    BY Zenon DEF InitPoints, PcType, Callers, AppPoints, SyncPoints
  <2>2. ProducerType /\ QueueType
    BY DEF ProducerType, QueueType
  <2> QED
    BY Zenon, <2>1, <2>2 DEF TypeInv
<1>2. LifeInv
  BY Zenon DEF InitPoints, LifeInv, Alive, Callers, Calling
<1>3. QueueInv
  BY DEF QueueInv
<1>4. BlockInv
  BY DEF BlockInv
<1> QED
  BY Zenon, <1>1, <1>2, <1>3, <1>4 DEF ProducerInv

\* What Proceed leaves: the points of all others, and no overlap that was not there.
LEMMA GotoFact ==
  ASSUME PcType, NEW g \in Callers, NEW point \in AppPoints \cup SyncPoints, Proceed(g, point)
  PROVE  /\ pc' \in [Callers -> AppPoints \cup SyncPoints] /\ overlapped' \in BOOLEAN
         /\ pc'[g] = point /\ \A h \in Callers \ {g} : pc'[h] = pc[h]
         /\ ~overlapped' => ~overlapped /\ \A a, b \in Calling(pc') : a = b
BY Zenon DEF PcType, Proceed

\* Steps that leave producers and queues alone.
LEMMA QuietStep ==
  ASSUME ProducerInv, UNCHANGED <<producer, queues>>
  PROVE  ProducerType' /\ QueueType' /\ QueueInv' /\ BlockInv' /\ Alive' = Alive
BY Zenon DEF ProducerInv, TypeInv, ProducerType, QueueType, QueueInv, BlockInv, Alive, queues

\* Steps that leave the calls and the life of the producers alone.
LEMMA SameLife ==
  ASSUME ProducerInv, UNCHANGED <<isRunning, pc, overlapped>>, Alive' = Alive
  PROVE  PcType' /\ LifeInv'
BY Zenon DEF ProducerInv, TypeInv, PcType, LifeInv

\* The same for a step within a call, without overlap.
LifeFact(g, point) ==
  /\ Alive' = Alive
  /\ pc' \in [Callers -> AppPoints \cup SyncPoints] /\ pc'[g] = point
  /\ \A h \in Callers \ {g} : pc'[h] = pc[h]
  /\ \A a, b \in Calling(pc') : a = b

\* A call that goes on to its next point is the only one, unless calls overlap.
LEMMA LifeStep ==
  ASSUME ProducerInv, NEW g \in Callers, NEW point \in AppPoints \cup SyncPoints,
         Proceed(g, point), UNCHANGED <<producer, queues>>, ~overlapped'
  PROVE  ~overlapped /\ LifeFact(g, point)
BY Zenon, GotoFact, QuietStep DEF ProducerInv, TypeInv, LifeFact

\* A step of a call or a sync that leaves the producers alone.
LEMMA CallStep ==
  ASSUME ProducerInv, NEW g \in Callers,
         \/ Call \/ StartCheck(g) \/ StartReturns(g) \/ SuspendCheck(g) \/ ShutdownReturns(g)
         \/ g \in Sync /\ (PeerConnects(g) \/ SyncLoop(g) \/ SyncRound(g) \/ SyncResume(g))
  PROVE  ProducerInv'
<1> USE DEF Callers, AppPoints, SyncPoints
<1>0. App \in Callers /\ PcType
  BY Zenon DEF ProducerInv, TypeInv
<1>1. CASE Call
  <2>1. PICK point \in {"start", "suspend", "stopping"} :
          pc[App] = "idle" /\ Proceed(App, point) /\ UNCHANGED <<isRunning, producer, queues>>
    BY Zenon, <1>1, ProducerAssumption DEF Call
  <2>2. PcType'
    BY Zenon, <2>1, <1>0, GotoFact DEF PcType
  <2>3. LifeInv'
    <3> SUFFICES ASSUME ~overlapped' PROVE LifeInv'
      BY Zenon DEF LifeInv
    <3>1. isRunning' <=> isRunning
      BY Zenon, <2>1
    <3>2. ~overlapped /\ LifeInv /\ LifeFact(App, point)
      BY Zenon, <2>1, <1>0, LifeStep DEF ProducerInv
    <3> QED
      BY <2>1, <1>0, <3>1, <3>2 DEF LifeFact, LifeInv, Calling, PcType
  <2> QED
    BY Zenon, <2>1, <2>2, <2>3, QuietStep DEF ProducerInv, TypeInv
<1>2. CASE StartCheck(g)
  <2>1. PICK point \in {"go", "idle", "done"} :
          /\ pc[g] = "start" /\ (point = "go" <=> ~isRunning)
          /\ Proceed(g, point) /\ UNCHANGED <<isRunning, producer, queues>>
    BY Zenon, <1>2 DEF StartCheck
  <2>2. PcType'
    BY Zenon, <2>1, <1>0, GotoFact DEF PcType
  <2>3. LifeInv'
    <3> SUFFICES ASSUME ~overlapped' PROVE LifeInv'
      BY Zenon DEF LifeInv
    <3>1. isRunning' <=> isRunning
      BY Zenon, <2>1
    <3>2. ~overlapped /\ LifeInv /\ LifeFact(g, point)
      BY Zenon, <2>1, <1>0, LifeStep DEF ProducerInv
    <3> QED
      BY <2>1, <1>0, <3>1, <3>2 DEF LifeFact, LifeInv, Calling, PcType
  <2> QED
    BY Zenon, <2>1, <2>2, <2>3, QuietStep DEF ProducerInv, TypeInv
<1>3. CASE StartReturns(g)
  <2>1. PICK point \in {"idle", "done"} :
          pc[g] = "set" /\ isRunning' = TRUE /\ Proceed(g, point) /\ UNCHANGED <<producer, queues>>
    BY Zenon, <1>3 DEF StartReturns
  <2>2. PcType'
    BY Zenon, <2>1, <1>0, GotoFact DEF PcType
  <2>3. LifeInv'
    <3> SUFFICES ASSUME ~overlapped' PROVE LifeInv'
      BY Zenon DEF LifeInv
    <3>1. isRunning' <=> TRUE
      BY Zenon, <2>1
    <3>2. ~overlapped /\ LifeInv /\ LifeFact(g, point)
      BY Zenon, <2>1, <1>0, LifeStep DEF ProducerInv
    <3> QED
      BY <2>1, <1>0, <3>1, <3>2 DEF LifeFact, LifeInv, Calling, PcType
  <2> QED
    BY Zenon, <2>1, <2>2, <2>3, QuietStep DEF ProducerInv, TypeInv
<1>4. CASE SuspendCheck(g)
  <2>1. PICK point \in {"suspending", "idle", "wait"} :
          /\ pc[g] = "suspend" /\ (point = "suspending" <=> isRunning)
          /\ Proceed(g, point) /\ UNCHANGED <<isRunning, producer, queues>>
    BY Zenon, <1>4 DEF SuspendCheck
  <2>2. PcType'
    BY Zenon, <2>1, <1>0, GotoFact DEF PcType
  <2>3. LifeInv'
    <3> SUFFICES ASSUME ~overlapped' PROVE LifeInv'
      BY Zenon DEF LifeInv
    <3>1. isRunning' <=> isRunning
      BY Zenon, <2>1
    <3>2. ~overlapped /\ LifeInv /\ LifeFact(g, point)
      BY Zenon, <2>1, <1>0, LifeStep DEF ProducerInv
    <3> QED
      BY <2>1, <1>0, <3>1, <3>2 DEF LifeFact, LifeInv, Calling, PcType
  <2> QED
    BY Zenon, <2>1, <2>2, <2>3, QuietStep DEF ProducerInv, TypeInv
<1>5. CASE ShutdownReturns(g)
  <2>1. PICK point \in {"stopped", "idle", "wait"} :
          /\ pc[g] \in {"clear", "closing"} /\ isRunning' = FALSE
          /\ Proceed(g, point) /\ UNCHANGED <<producer, queues>>
    BY Zenon, <1>5 DEF ShutdownReturns
  <2>2. PcType'
    BY Zenon, <2>1, <1>0, GotoFact DEF PcType
  <2>3. LifeInv'
    <3> SUFFICES ASSUME ~overlapped' PROVE LifeInv'
      BY Zenon DEF LifeInv
    <3>1. isRunning' <=> FALSE
      BY Zenon, <2>1
    <3>2. ~overlapped /\ LifeInv /\ LifeFact(g, point)
      BY Zenon, <2>1, <1>0, LifeStep DEF ProducerInv
    <3> QED
      BY Zenon, <2>1, <1>0, <3>1, <3>2 DEF LifeFact, LifeInv, Calling, PcType
  <2> QED
    BY Zenon, <2>1, <2>2, <2>3, QuietStep DEF ProducerInv, TypeInv
<1>6. CASE PeerConnects(g) \/ SyncLoop(g) \/ SyncRound(g) \/ SyncResume(g)
  <2>1. PICK point \in {"sync", "suspend", "wait", "resume", "failed", "start", "done"} :
          /\ pc[g] \in {"new", "sync", "wait", "resume"}
          /\ Proceed(g, point) /\ UNCHANGED <<isRunning, producer, queues>>
    BY Zenon, <1>6 DEF PeerConnects, SyncLoop, SyncRound, SyncResume
  <2>2. PcType'
    BY Zenon, <2>1, <1>0, GotoFact DEF PcType
  <2>3. LifeInv'
    <3> SUFFICES ASSUME ~overlapped' PROVE LifeInv'
      BY Zenon DEF LifeInv
    <3>1. isRunning' <=> isRunning
      BY Zenon, <2>1
    <3>2. ~overlapped /\ LifeInv /\ LifeFact(g, point)
      BY Zenon, <2>1, <1>0, LifeStep DEF ProducerInv
    <3> QED
      BY <2>1, <1>0, <3>1, <3>2 DEF LifeFact, LifeInv, Calling, PcType
  <2> QED
    BY Zenon, <2>1, <2>2, <2>3, QuietStep DEF ProducerInv, TypeInv
<1> QED
  BY Zenon, <1>1, <1>2, <1>3, <1>4, <1>5, <1>6

\* go mgr.blockProducer(): a new producer with no block.
LEMMA StartProducerStep ==
  ASSUME ProducerInv, NEW g \in Callers, StartProducer(g)
  PROVE  ProducerInv'
<1> USE ProducerAssumption DEF Selecting, Stopped
<1>1. PICK p \in Producer \ Alive : producer' = [producer EXCEPT ![p] = Selecting]
  BY Zenon DEF StartProducer
<1>2. /\ pc[g] = "go" /\ Proceed(g, "set") /\ (isRunning' <=> isRunning)
      /\ UNCHANGED <<isRunning, queues, txQ, waiting, submitted>>
  BY Zenon DEF StartProducer, queues
<1>3. TypeInv'
  <2>1. PcType'
    BY Zenon, <1>2, GotoFact DEF ProducerInv, TypeInv, PcType, AppPoints, SyncPoints
  <2>2. ProducerType' /\ QueueType'
    BY Zenon, <1>1, <1>2 DEF ProducerInv, TypeInv, ProducerType, QueueType
  <2> QED
    BY Zenon, <2>1, <2>2 DEF TypeInv
<1>4. Alive' = Alive \cup {p}
  BY Zenon, <1>1 DEF Alive, ProducerInv, TypeInv, ProducerType
<1>5. LifeInv'
  <2> SUFFICES ASSUME ~overlapped' PROVE LifeInv'
    BY Zenon DEF LifeInv
  <2>1. /\ pc' \in [Callers -> AppPoints \cup SyncPoints] /\ pc'[g] = "set"
        /\ \A h \in Callers \ {g} : pc'[h] = pc[h]
        /\ \A a, b \in Calling(pc') : a = b
    BY Zenon, <1>2, GotoFact DEF ProducerInv, TypeInv, AppPoints, SyncPoints
  <2>2. ~overlapped /\ LifeInv
    BY Zenon, <1>2, GotoFact DEF ProducerInv, TypeInv, AppPoints, SyncPoints
  <2> QED
    BY <1>2, <1>4, <2>1, <2>2 DEF LifeInv, Calling
<1>6. QueueInv' /\ BlockInv'
  BY <1>1, <1>2 DEF ProducerInv, TypeInv, ProducerType, QueueInv, BlockInv
<1> QED
  BY Zenon, <1>3, <1>5, <1>6 DEF ProducerInv

\* The producer takes the shutdown and drops its block.
LEMMA ShutdownStep ==
  ASSUME ProducerInv, NEW g \in Callers, NEW p \in Producer, Shutdown(g, p)
  PROVE  ProducerInv'
<1> USE ProducerAssumption DEF Stopped
<1>1. PICK point \in {"clear", "closing"} :
        /\ pc[g] \in {"suspending", "stopping"} /\ Proceed(g, point)
        /\ producer[p].pc = "select" /\ producer' = [producer EXCEPT ![p] = Stopped]
        /\ UNCHANGED <<isRunning, txQ, waiting, submitted>>
  BY Zenon DEF Shutdown, queues
<1>2. isRunning' <=> isRunning
  BY Zenon, <1>1
<1>3. TypeInv'
  <2>1. PcType'
    BY Zenon, <1>1, GotoFact DEF ProducerInv, TypeInv, PcType, AppPoints, SyncPoints
  <2>2. ProducerType' /\ QueueType'
    BY Zenon, <1>1 DEF ProducerInv, TypeInv, ProducerType, QueueType
  <2> QED
    BY Zenon, <2>1, <2>2 DEF TypeInv
<1>4. Alive' = Alive \ {p} /\ p \in Alive
  BY Zenon, <1>1 DEF Alive, ProducerInv, TypeInv, ProducerType
<1>5. LifeInv'
  <2> SUFFICES ASSUME ~overlapped' PROVE LifeInv'
    BY Zenon DEF LifeInv
  <2>1. /\ pc' \in [Callers -> AppPoints \cup SyncPoints] /\ pc'[g] = point
        /\ \A h \in Callers \ {g} : pc'[h] = pc[h]
        /\ \A a, b \in Calling(pc') : a = b
    BY Zenon, <1>1, GotoFact DEF ProducerInv, TypeInv, AppPoints, SyncPoints
  <2>2. ~overlapped /\ LifeInv
    BY Zenon, <1>1, GotoFact DEF ProducerInv, TypeInv, AppPoints, SyncPoints
  <2> QED
    BY <1>1, <1>2, <1>4, <2>1, <2>2 DEF LifeInv, Calling
<1>6. QueueInv' /\ BlockInv'
  BY <1>1 DEF ProducerInv, TypeInv, ProducerType, QueueInv, BlockInv
<1> QED
  BY Zenon, <1>3, <1>5, <1>6 DEF ProducerInv

\* Submit, its send, and Status.
LEMMA SubmitStep ==
  ASSUME ProducerInv, NEW tx \in Tx, Submit(tx) \/ SubmitSends(tx) \/ Status(tx)
  PROVE  ProducerInv'
<1>1. UNCHANGED <<isRunning, pc, producer, overlapped>>
  BY Zenon DEF Submit, SubmitSends, Status
<1>2. Alive' = Alive /\ ProducerType' /\ BlockInv'
  BY Zenon, <1>1 DEF Alive, ProducerInv, TypeInv, ProducerType, BlockInv
<1>3. QueueType'
  BY DEF Submit, SubmitSends, Status, ProducerInv, TypeInv, QueueType
<1>4. QueueInv'
  <2>1. CASE SubmitSends(tx)
    <3>1. /\ Len(txQ') = Len(txQ) + 1 /\ DOMAIN txQ' = 1 .. Len(txQ) + 1
          /\ \A i \in DOMAIN txQ : txQ'[i] = txQ[i]
          /\ txQ'[Len(txQ) + 1] = tx /\ DOMAIN txQ = 1 .. Len(txQ) /\ Len(txQ) \in Nat
      BY <2>1 DEF SubmitSends, ProducerInv, TypeInv, QueueType
    <3> QED
      BY <2>1, <1>1, <3>1 DEF SubmitSends, ProducerInv, TypeInv, ProducerType, QueueInv
  <2>2. CASE Submit(tx) \/ Status(tx)
    BY Zenon, <2>2, <1>1 DEF Submit, Status, ProducerInv, QueueInv
  <2> QED
    BY Zenon, <2>1, <2>2
<1> QED
  BY Zenon, <1>1, <1>2, <1>3, <1>4, SameLife DEF ProducerInv, TypeInv

\* The three cases of the select, and the end of mining.
LEMMA ProduceStep ==
  ASSUME ProducerInv, NEW p \in Producer, TakeTx(p) \/ Timeout(p) \/ MineCandidateBlock(p)
  PROVE  ProducerInv'
<1> USE ProducerAssumption DEF Selecting, Stopped
<1>1. UNCHANGED <<isRunning, pc, overlapped, waiting, submitted>>
  BY Zenon DEF TakeTx, Timeout, MineCandidateBlock, queues
<1>2. CASE TakeTx(p)
  <2> DEFINE tx == Head(txQ)
             newBlock == IF producer[p].block = NoBlock THEN {} ELSE producer[p].block
  <2>1. /\ producer[p].pc = "select" /\ txQ # <<>> /\ txQ' = Tail(txQ)
    BY Zenon, <1>2 DEF TakeTx
  <2>2. /\ txQ' \in Seq(Tx) /\ tx \in Tx /\ tx = txQ[1] /\ 1 \in DOMAIN txQ
        /\ \A i \in DOMAIN txQ' : i + 1 \in DOMAIN txQ /\ txQ'[i] = txQ[i + 1] /\ i \in Nat \ {0}
    BY <2>1 DEF ProducerInv, TypeInv, QueueType
  <2>3. /\ newBlock \in SUBSET Tx /\ IsFiniteSet(newBlock) /\ tx \notin newBlock
        /\ producer[p].txCount = Cardinality(newBlock) /\ newBlock \subseteq submitted
        /\ tx \in submitted
        /\ \A i \in DOMAIN txQ : txQ[i] \notin newBlock
    BY <2>2, FS_EmptySet DEF ProducerInv, TypeInv, ProducerType, QueueInv, BlockInv
  <2>4. IsFiniteSet(newBlock \cup {tx}) /\ Cardinality(newBlock \cup {tx}) = Cardinality(newBlock) + 1
    BY Zenon, <2>3, FS_AddElement
  <2> DEFINE r == producer'[p]
  <2>5. /\ producer' = [producer EXCEPT ![p] = r] /\ \A q \in Producer \ {p} : producer'[q] = producer[q]
        /\ r \in [pc : {"select", "mine"}, block : SUBSET Tx, txCount : Nat]
        /\ r.block \in {newBlock, newBlock \cup {tx}} /\ r.txCount = Cardinality(r.block)
        /\ r.txCount <= MaxTxCount /\ (r.txCount < MaxTxCount <=> r.pc = "select")
    <3> DEFINE count == producer[p].txCount + 1
    <3>1. /\ producer[p].pc = "select" /\ producer[p].txCount \in Nat
          /\ producer[p].txCount < MaxTxCount /\ DOMAIN producer = Producer
      BY Zenon, <2>1 DEF ProducerInv, TypeInv, ProducerType, BlockInv
    <3>2. CASE producer' = [producer EXCEPT ![p] =
                 [pc |-> IF count = MaxTxCount THEN "mine" ELSE "select",
                  block |-> newBlock \cup {tx}, txCount |-> count]]
      <4>1. r = [pc |-> IF count = MaxTxCount THEN "mine" ELSE "select",
                 block |-> newBlock \cup {tx}, txCount |-> count]
        BY Zenon, <3>1, <3>2
      <4>2. newBlock \cup {tx} \in SUBSET Tx
        BY Zenon, <2>2, <2>3
      <4> HIDE DEF newBlock, tx
      <4> QED
        BY <2>3, <2>4, <3>1, <3>2, <4>1, <4>2
    <3>3. CASE producer' = [producer EXCEPT ![p].block = newBlock]
      <4>1. r = [producer[p] EXCEPT !.block = newBlock]
        BY Zenon, <3>1, <3>3
      <4>2. r = [pc |-> "select", block |-> newBlock, txCount |-> producer[p].txCount]
        BY Zenon, <3>1, <4>1 DEF ProducerInv, TypeInv, ProducerType
      <4> HIDE DEF newBlock, tx
      <4> QED
        BY <2>3, <3>1, <3>3, <4>2
    <3> QED
      BY Zenon, <1>2, <3>2, <3>3 DEF TakeTx
  <2> HIDE DEF r, newBlock, tx
  <2>6. Alive' = Alive /\ ProducerType' /\ QueueType'
    BY Zenon, <1>1, <2>1, <2>2, <2>5 DEF Alive, ProducerInv, TypeInv, ProducerType, QueueType
  <2>7. QueueInv'
    BY SMTT(30), <1>1, <2>2, <2>3, <2>5 DEF ProducerInv, TypeInv, ProducerType, QueueInv
  <2>8. BlockInv'
    <3>1. IsFiniteSet(r.block) /\ r.block # NoBlock
      BY Zenon, <2>3, <2>4, <2>5
    <3>2. r.pc = "mine" => r.block # {}
      <4>1. r.pc = "mine" => r.txCount # 0
        BY <2>5, ProducerAssumption
      <4> QED
        BY Zenon, <2>5, <4>1, FS_EmptySet
    <3>3. \A q \in Producer : producer'[q] = producer[q] \/ producer'[q] = r
      BY Zenon, <2>5 DEF r
    <3> QED
      BY <2>5, <3>1, <3>2, <3>3 DEF ProducerInv, BlockInv
  <2> QED
    BY Zenon, <1>1, <2>6, <2>7, <2>8, SameLife DEF ProducerInv, TypeInv
<1>3. CASE Timeout(p) \/ MineCandidateBlock(p)
  <2>1. /\ txQ' = txQ /\ producer[p].pc # "none"
        /\ \/ producer' = [producer EXCEPT ![p] = Selecting]
           \/ /\ producer[p].block \notin {NoBlock, {}}
              /\ producer' = [producer EXCEPT ![p].pc = "mine"]
    <3>1. CASE Timeout(p)
      BY Zenon, <3>1 DEF Timeout, queues, ProducerInv, TypeInv, ProducerType
    <3>2. CASE MineCandidateBlock(p)
      BY Zenon, <3>2 DEF MineCandidateBlock
    <3> QED
      BY Zenon, <1>3, <3>1, <3>2
  <2>2. Alive' = Alive /\ ProducerType' /\ QueueType'
    <3>1. ProducerType'
      BY SMTT(30), <1>1, <2>1 DEF ProducerInv, TypeInv, ProducerType
    <3>2. \A q \in Producer : producer'[q].pc # "none" <=> producer[q].pc # "none"
      BY SMTT(30), <2>1 DEF ProducerInv, TypeInv, ProducerType, Selecting
    <3>3. Alive' = Alive
      BY Zenon, <3>2 DEF Alive
    <3>4. QueueType'
      BY Zenon, <1>1, <2>1, <3>3 DEF ProducerInv, TypeInv, QueueType
    <3> QED
      BY Zenon, <3>1, <3>3, <3>4
  <2>3. QueueInv' /\ BlockInv'
    BY <1>1, <2>1 DEF ProducerInv, TypeInv, ProducerType, QueueInv, BlockInv
  <2> QED
    BY Zenon, <1>1, <2>2, <2>3, SameLife DEF ProducerInv, TypeInv
<1> QED
  BY Zenon, <1>2, <1>3

\* Every step of Start, Suspend, Stop, Submit, a sync or the producer keeps the
\* invariant.
LEMMA ProducerInvStep == ProducerInv /\ [ProducerNext]_producerVars => ProducerInv'
<1> SUFFICES ASSUME ProducerInv, [ProducerNext]_producerVars PROVE ProducerInv'
  BY Zenon
<1>1. CASE UNCHANGED producerVars
  BY Zenon, <1>1, QuietStep, SameLife DEF producerVars, ProducerInv, TypeInv
<1>2. CASE Call \/ \E s \in Sync : PeerConnects(s) \/ SyncLoop(s) \/ SyncRound(s) \/ SyncResume(s)
  BY Zenon, <1>2, CallStep DEF Callers
<1>3. CASE \E g \in Callers : Starting(g) \/ Suspending(g)
  BY Zenon, <1>3, CallStep, StartProducerStep DEF Starting, Suspending
<1>4. CASE \E g \in Callers, p \in Producer : Shutdown(g, p)
  BY Zenon, <1>4, ShutdownStep
<1>5. CASE \E tx \in Tx : Submit(tx) \/ SubmitSends(tx) \/ Status(tx)
  BY Zenon, <1>5, SubmitStep
<1>6. CASE \E p \in Producer : TakeTx(p) \/ Timeout(p) \/ MineCandidateBlock(p)
  BY Zenon, <1>6, ProduceStep
<1> QED
  BY Zenon, <1>1, <1>2, <1>3, <1>4, <1>5, <1>6 DEF ProducerNext, Callers

\* The invariant holds in every state of the platform, however calls overlap.
LEMMA ProducerInvHolds == ProducerSpec => []ProducerInv
BY ProducerInvInit, ProducerInvStep, PTL DEF ProducerSpec

-----------------------------------------------------------------------------
(* Theorems *)

\* However the application and any number of syncs call Start, Suspend and Stop,
\* there is one producer at most unless two of the calls overlap.
THEOREM OneProducerRuns == ProducerSpec => []OneProducer
<1>1. ProducerInv => OneProducer
  BY Zenon DEF ProducerInv, LifeInv, OneProducer
<1> QED
  BY <1>1, ProducerInvHolds, PTL

\* For any maxTxCount the count of the producer is the size of its block, and it
\* never steps over the limit.
THEOREM BlocksKeepCapacity == ProducerSpec => []CapacityHolds
<1>1. ProducerInv => CapacityHolds
  BY ProducerAssumption DEF ProducerInv, TypeInv, ProducerType, BlockInv, CapacityHolds, Alive
<1> QED
  BY <1>1, ProducerInvHolds, PTL

\* No block is sent to mining with the reward alone.
THEOREM NoBlockIsGreedy == ProducerSpec => []NoGreedyBlock
<1>1. ProducerInv => NoGreedyBlock
  BY Zenon DEF ProducerInv, BlockInv, NoGreedyBlock, Alive
<1> QED
  BY <1>1, ProducerInvHolds, PTL

\* Where a transaction was, it is still or it has moved on, but for a shutdown.
THEOREM OnlyShutdownLoses == ProducerSpec => LostOnlyByShutdown
<1> DEFINE Safe(tx) == Held(tx) \/ Settled(tx)
<1>1. ASSUME ProducerInv, [ProducerNext]_producerVars, NEW tx \in submitted, Safe(tx),
             ~(\E p \in Producer : producer[p].pc # "none" /\ producer'[p].pc = "none")
      PROVE  Safe(tx)'
  <2> USE <1>1, ProducerAssumption DEF Held, Settled
  <2>1. CASE UNCHANGED <<producer, queues>>
    BY Zenon, <2>1 DEF queues
  <2>2. CASE \E g \in Callers : StartProducer(g)
    <3>1. PICK p \in Producer \ Alive : producer' = [producer EXCEPT ![p] = Selecting] /\ UNCHANGED queues
      BY Zenon, <2>2 DEF StartProducer
    <3>2. producer[p].block = NoBlock
      BY Zenon, <3>1 DEF Alive, ProducerInv, BlockInv
    <3> QED
      BY Zenon, <3>1, <3>2 DEF queues, ProducerInv, TypeInv, ProducerType
  <2>3. CASE \E g \in Callers, p \in Producer : Shutdown(g, p)
    BY <2>3 DEF Shutdown, Stopped, ProducerInv, TypeInv, ProducerType
  <2>4. CASE \E t \in Tx : Submit(t) \/ SubmitSends(t) \/ Status(t)
    <3>1. PICK t \in Tx : Submit(t) \/ SubmitSends(t) \/ Status(t)
      BY Zenon, <2>4
    <3>2. CASE SubmitSends(t)
      BY <3>2 DEF SubmitSends, ProducerInv, TypeInv, QueueType
    <3> QED
      BY Zenon, <3>1, <3>2 DEF Submit, Status
  <2>5. CASE \E p \in Producer : TakeTx(p)
    <3>1. PICK p \in Producer : TakeTx(p)
      BY Zenon, <2>5
    <3>2. /\ txQ # <<>> /\ txQ' = Tail(txQ) /\ UNCHANGED <<told, mined>>
          /\ deadTxs \subseteq deadTxs'
          /\ \A q \in Producer : q # p => producer'[q] = producer[q]
          /\ producer'[p].block # NoBlock
          /\ producer[p].block # NoBlock => producer[p].block \subseteq producer'[p].block
          /\ Head(txQ) \in producer'[p].block \cup deadTxs'
      BY <3>1 DEF TakeTx, ProducerInv, TypeInv, ProducerType, QueueType
    <3>3. \A i \in DOMAIN txQ : txQ[i] = Head(txQ) \/ \E j \in DOMAIN txQ' : txQ'[j] = txQ[i]
      <4> SUFFICES ASSUME NEW i \in DOMAIN txQ
                   PROVE  txQ[i] = Head(txQ) \/ \E j \in DOMAIN txQ' : txQ'[j] = txQ[i]
        BY Zenon
      <4>1. i = 1 \/ (i - 1 \in DOMAIN txQ' /\ txQ'[i - 1] = txQ[i])
        BY <3>2 DEF ProducerInv, TypeInv, QueueType
      <4> QED
        BY <3>2, <4>1 DEF ProducerInv, TypeInv, QueueType
    <3> QED
      BY <3>2, <3>3
  <2>6. CASE \E p \in Producer : Timeout(p) \/ MineCandidateBlock(p)
    <3>1. PICK p \in Producer : Timeout(p) \/ MineCandidateBlock(p)
      BY Zenon, <2>6
    <3>2. CASE Timeout(p)
      BY Zenon, <3>2 DEF Timeout, Selecting, Stopped, queues, ProducerInv, TypeInv, ProducerType
    <3>3. CASE MineCandidateBlock(p)
      BY Zenon, <3>3 DEF MineCandidateBlock, Selecting, Stopped, ProducerInv, TypeInv, ProducerType
    <3> QED
      BY Zenon, <3>1, <3>2, <3>3
  <2> QED
    BY Zenon, <2>1, <2>2, <2>3, <2>4, <2>5, <2>6
    DEF ProducerNext, Callers, Call, Starting, Suspending, StartCheck, StartReturns, SuspendCheck,
        ShutdownReturns, PeerConnects, SyncLoop, SyncRound, SyncResume, producerVars
<1>2. ProducerInv /\ [ProducerNext]_producerVars =>
        [\A tx \in submitted :
           /\ Safe(tx)
           /\ ~(\E p \in Producer : producer[p].pc # "none" /\ producer'[p].pc = "none")
           => Safe(tx)']_producerVars
  BY Zenon, <1>1
<1> QED
  BY <1>2, ProducerInvHolds, PTL DEF ProducerSpec, LostOnlyByShutdown

\* All calls and syncs are over, none of them with an error.
AllOver == pc[App] \in {"idle", "stopped"} /\ \A s \in Sync : pc[s] \in {"new", "done"}

\* Whoever switches production on last leaves it running.
WantedInv == ~overlapped /\ wanted /\ AllOver => isRunning

\* Every step keeps isRunning in agreement with the last call that switched
\* production on or off.
LEMMA WantedStep == ProducerInv /\ WantedInv /\ [ProducerNext]_producerVars => WantedInv'
<1> SUFFICES ASSUME ProducerInv, WantedInv, [ProducerNext]_producerVars, ~overlapped', wanted', AllOver'
             PROVE  isRunning'
  BY Zenon DEF WantedInv
<1> USE ProducerAssumption DEF Callers
<1>0. pc \in [Callers -> AppPoints \cup SyncPoints]
  BY Zenon DEF ProducerInv, TypeInv, PcType
<1>1. CASE UNCHANGED <<isRunning, pc, wanted, overlapped>>
  BY Zenon, <1>1 DEF WantedInv, AllOver
<1>2. ASSUME NEW g \in Callers, StartCheck(g) PROVE isRunning'
  BY Zenon, <1>0, <1>2 DEF StartCheck, Proceed, AllOver
<1>3. ASSUME NEW g \in Callers, StartReturns(g) PROVE isRunning'
  BY Zenon, <1>3 DEF StartReturns
<1>4. ASSUME NEW g \in Callers, SuspendCheck(g) \/ ShutdownReturns(g) PROVE FALSE
  BY Zenon, <1>0, <1>4 DEF SuspendCheck, ShutdownReturns, Proceed, SwitchesOn, SwitchesOff, AllOver
<1>5. ASSUME NEW s \in Sync, PeerConnects(s) \/ SyncLoop(s) \/ SyncRound(s) \/ SyncResume(s)
      PROVE  isRunning'
  <2>1. pc'[s] \in {"new", "done"}
    BY Zenon, <1>5 DEF AllOver
  <2>2. SyncResume(s)
    BY Zenon, <1>0, <1>5, <2>1 DEF PeerConnects, SyncLoop, SyncRound, Proceed
  <2> QED
    BY Zenon, <1>0, <2>1, <2>2 DEF SyncResume, Proceed
<1>6. ASSUME Call \/ \E g \in Callers : StartProducer(g) \/ \E p \in Producer : Shutdown(g, p)
      PROVE  FALSE
  BY Zenon, <1>0, <1>6 DEF Call, StartProducer, Shutdown, Proceed, AllOver
<1> QED
  BY Zenon, <1>1, <1>2, <1>3, <1>4, <1>5, <1>6
  DEF ProducerNext, Starting, Suspending, Submit, SubmitSends, Status, TakeTx, Timeout,
      MineCandidateBlock, producerVars

\* Production that was switched on runs when all calls and syncs are over, unless
\* a sync failed or two calls overlapped.
THEOREM ProductionIsKept == ProducerSpec => []KeepsRunning
<1>1. ProducerInit => WantedInv
  BY Zenon DEF ProducerInit, WantedInv
<1>2. ProducerInv /\ WantedInv => KeepsRunning
  BY Zenon, ProducerAssumption
  DEF ProducerInv, TypeInv, PcType, LifeInv, WantedInv, AllOver, KeepsRunning, Calling, Callers
<1> QED
  BY <1>1, <1>2, ProducerInvHolds, WantedStep, PTL DEF ProducerSpec

-----------------------------------------------------------------------------
(* Handshakes: the inductive invariant *)

\* The functions of an end that the handshake writes.
EndType ==
  /\ run = [e \in Ends |-> run[e]] /\ reader = [e \in Ends |-> reader[e]]
  /\ msg = [e \in Ends |-> msg[e]]
  /\ bound = [e \in Ends |-> bound[e]] /\ err = [e \in Ends |-> err[e]]

\* Run has compared the peer's status with its own.
Accepted == {"register", "load", "store", "listen", "unload", "unstore"}

\* The goroutine that reads is started with the timer.
ReaderInv(e) ==
  /\ run[e] \in {"none", "check", "send"} => reader[e] = "none"
  /\ reader[e] = "none" => run[e] \in {"none", "check", "send", "left"}

\* After the timer, err says nil only when the goroutine has read a message.
ErrInv(e) ==
  /\ run[e] = "expired" => reader[e] = "done" \/ bound[e] = "timeout"
  /\ run[e] = "test" /\ reader[e] = "reading" => err[e] # "nil"

\* It has read it for good: msg does not change any more.
AcceptInv(e) ==
  /\ run[e] \in Accepted => reader[e] # "reading" /\ msg[e] = Network[e[1]]
  /\ e \in nodes => run[e] \in {"load", "store", "listen"}

ConnInv ==
  /\ EndType /\ nodes \subseteq Ends
  /\ \A e \in Ends : ReaderInv(e) /\ ErrInv(e) /\ AcceptInv(e)

-----------------------------------------------------------------------------

\* Connections that are up at first are between nodes of one network.
LEMMA ConnInvInit == Init => ConnInv
<1> SUFFICES ASSUME Init PROVE ConnInv
  BY Zenon
<1>1. EndType /\ nodes \subseteq Ends
  BY Zenon DEF Init, EndType
<1>2. ASSUME NEW e \in Ends PROVE ReaderInv(e) /\ ErrInv(e) /\ AcceptInv(e)
  <2>1. CASE Link(e) \in setup.up
    <3>1. Network[e[1]] = Network[e[2]]
      BY SMTT(30), <2>1, PagerAssumption DEF Init, Link
    <3> QED
      BY Zenon, <2>1, <3>1 DEF Init, ReaderInv, ErrInv, AcceptInv, Accepted
  <2>2. CASE Link(e) \notin setup.up
    BY Zenon, <2>2 DEF Init, ReaderInv, ErrInv, AcceptInv, Accepted
  <2> QED
    BY Zenon, <2>1, <2>2
<1> QED
  BY Zenon, <1>1, <1>2 DEF ConnInv

\* A step of one end leaves the others alone.
LEMMA OneEnd ==
  ASSUME ConnInv, NEW e \in Ends, EndType', nodes' \subseteq Ends,
         \A d \in Ends \ {e} :
           /\ run'[d] = run[d] /\ reader'[d] = reader[d] /\ msg'[d] = msg[d]
           /\ bound'[d] = bound[d] /\ err'[d] = err[d]
           /\ d \in nodes' => d \in nodes,
         ReaderInv(e)', ErrInv(e)', AcceptInv(e)'
  PROVE  ConnInv'
BY DEF ConnInv, ReaderInv, ErrInv, AcceptInv

\* Run up to the select: the status is sent and the reader started.
LEMMA StartStep ==
  ASSUME ConnInv, NEW e \in Ends, CheckCapacity(e) \/ SendStatus(e)
  PROVE  ConnInv'
<1>1. EndType' /\ nodes' \subseteq Ends
  BY Zenon DEF ConnInv, EndType, CheckCapacity, SendStatus, Goto, Fail
<1>2. ReaderInv(e)' /\ ErrInv(e)' /\ AcceptInv(e)'
  BY Zenon DEF ConnInv, EndType, ReaderInv, ErrInv, AcceptInv, Accepted,
         CheckCapacity, SendStatus, Goto, Fail
<1>3. \A d \in Ends \ {e} :
        /\ run'[d] = run[d] /\ reader'[d] = reader[d] /\ msg'[d] = msg[d]
        /\ bound'[d] = bound[d] /\ err'[d] = err[d]
        /\ d \in nodes' => d \in nodes
  BY Zenon DEF ConnInv, EndType, CheckCapacity, SendStatus, Goto, Fail
<1> QED
  BY Zenon, <1>1, <1>2, <1>3, OneEnd

\* The reader, wherever Run is by now.
LEMMA ReaderStep ==
  ASSUME ConnInv, NEW e \in Ends, ReadMsg(e) \/ ReaderReturns(e)
  PROVE  ConnInv'
<1>1. EndType' /\ nodes' \subseteq Ends
  BY Zenon DEF ConnInv, EndType, ReadMsg, ReaderReturns
<1>2. ReaderInv(e)' /\ ErrInv(e)' /\ AcceptInv(e)'
  BY Zenon DEF ConnInv, EndType, ReaderInv, ErrInv, AcceptInv, Accepted, ReadMsg, ReaderReturns
<1>3. \A d \in Ends \ {e} :
        /\ run'[d] = run[d] /\ reader'[d] = reader[d] /\ msg'[d] = msg[d]
        /\ bound'[d] = bound[d] /\ err'[d] = err[d]
        /\ d \in nodes' => d \in nodes
  BY Zenon DEF ConnInv, EndType, ReadMsg, ReaderReturns
<1> QED
  BY Zenon, <1>1, <1>2, <1>3, OneEnd

\* The select, its two ways out, and the test of err and the peer's status.
LEMMA SelectStep ==
  ASSUME ConnInv, NEW e \in Ends,
         SelectDone(e) \/ SelectTimeout(e) \/ ReturnBound(e) \/ TestHandshake(e)
  PROVE  ConnInv'
<1>1. EndType' /\ nodes' \subseteq Ends
  BY Zenon DEF ConnInv, EndType, SelectDone, SelectTimeout, ReturnBound, TestHandshake, Goto, Fail
<1>2. ReaderInv(e)' /\ ErrInv(e)' /\ AcceptInv(e)'
  BY Zenon DEF ConnInv, EndType, ReaderInv, ErrInv, AcceptInv, Accepted,
         SelectDone, SelectTimeout, ReturnBound, TestHandshake, Goto, Fail
<1>3. \A d \in Ends \ {e} :
        /\ run'[d] = run[d] /\ reader'[d] = reader[d] /\ msg'[d] = msg[d]
        /\ bound'[d] = bound[d] /\ err'[d] = err[d]
        /\ d \in nodes' => d \in nodes
  BY Zenon DEF ConnInv, EndType, SelectDone, SelectTimeout, ReturnBound, TestHandshake, Goto, Fail
<1> QED
  BY Zenon, <1>1, <1>2, <1>3, OneEnd

\* Registration, the count of peers and the end of the connection.
LEMMA CountStep ==
  ASSUME ConnInv, NEW e \in Ends,
         RegisterPeerNode(e) \/ LoadCount(e) \/ StoreCount(e) \/ UnregisterPeer(e)
  PROVE  ConnInv'
<1>1. EndType' /\ nodes' \subseteq Ends
  BY Zenon DEF ConnInv, EndType, RegisterPeerNode, LoadCount, StoreCount, UnregisterPeer, Goto
<1>2. ReaderInv(e)' /\ ErrInv(e)' /\ AcceptInv(e)'
  BY DEF ConnInv, EndType, ReaderInv, ErrInv, AcceptInv, Accepted,
         RegisterPeerNode, LoadCount, StoreCount, UnregisterPeer, Goto
<1>3. \A d \in Ends \ {e} :
        /\ run'[d] = run[d] /\ reader'[d] = reader[d] /\ msg'[d] = msg[d]
        /\ bound'[d] = bound[d] /\ err'[d] = err[d]
        /\ d \in nodes' => d \in nodes
  BY Zenon DEF ConnInv, EndType, RegisterPeerNode, LoadCount, StoreCount, UnregisterPeer, Goto
<1> QED
  BY Zenon, <1>1, <1>2, <1>3, OneEnd

\* Every step keeps the invariant; pages and broken links do not touch it.
LEMMA ConnInvStep == ConnInv /\ [Next]_vars => ConnInv'
<1> SUFFICES ASSUME ConnInv, [Next]_vars PROVE ConnInv'
  BY Zenon
<1>1. ASSUME NEW e \in Ends, Connect(e) PROVE ConnInv'
  BY Zenon, <1>1, StartStep, ReaderStep, SelectStep, CountStep DEF Connect
<1>2. ASSUME UNCHANGED <<run, reader, msg, bound, err, nodes>> PROVE ConnInv'
  BY Zenon, <1>2 DEF ConnInv, EndType, ReaderInv, ErrInv, AcceptInv
<1>3. ASSUME NEW e \in Ends, HandleBroadcast(e) PROVE ConnInv'
  BY Zenon, <1>2, <1>3 DEF HandleBroadcast, connVars
<1>4. ASSUME NEW n \in Node, NEW p \in Page, SendPage(n, p) PROVE ConnInv'
  BY Zenon, <1>2, <1>4 DEF SendPage, connVars
<1>5. ASSUME NEW g \in Goroutine, Broadcast(g) PROVE ConnInv'
  BY Zenon, <1>2, <1>5 DEF Broadcast, connVars
<1>6. ASSUME NEW l, Drop(l) PROVE ConnInv'
  BY Zenon, <1>2, <1>6 DEF Drop, connVars
<1>7. CASE UNCHANGED vars
  BY Zenon, <1>2, <1>7 DEF vars, connVars
<1> QED
  BY Zenon, <1>1, <1>3, <1>4, <1>5, <1>6, <1>7 DEF Next

\* In any network, however the timer, the answer and the two goroutines of a
\* handshake interleave: a registered peer has shown the status of our network,
\* and the goroutine left behind by RunTimeBound reads none of the listener's
\* messages.
THEOREM HandshakesAreSound == Spec => []HandshakeSound
<1>1. ConnInv => HandshakeSound
  BY Zenon DEF ConnInv, AcceptInv, Accepted, HandshakeSound
<1> QED
  BY <1>1, ConnInvInit, ConnInvStep, PTL DEF Spec

-----------------------------------------------------------------------------
(* Pages: the inductive invariant *)

Messages == Page \cup {NoMsg} \cup {Network[n] : n \in Node}

PageType ==
  /\ nodes \subseteq Ends
  /\ sent \in [Ends -> Seq(Messages)]
  /\ myHistory = [n \in Node |-> myHistory[n]]
  /\ page \in [Goroutine -> Messages] /\ todo \in [Goroutine -> SUBSET Ends]
  /\ paged \in [Node -> Seq(Messages)] /\ crossed \in [Ends -> Seq(Messages)]
  /\ origin \in [Page -> Node \cup {NoMsg}]

\* A goroutine broadcasts to peers of its own node.  What a listener broadcasts
\* is in the node's history, and no other listener of the node broadcasts it;
\* what an application broadcasts is its own.
TodoInv ==
  /\ \A n \in Node : \A e \in todo[n] : e[1] = n
  /\ \A d \in Ends : \A e \in todo[d] : e[1] = d[1]
  /\ \A d \in Ends : page[d] # NoMsg => page[d] \in myHistory[d[1]]
  /\ \A n \in Node : page[n] \in Page => origin[page[n]] = n
  /\ \A c, d \in Ends : c[1] = d[1] /\ page[c] = page[d] /\ page[c] # NoMsg => c = d

\* A listener, or the application, of e[1] has still to send p to e.
ByListener(e, p) == \E d \in Ends : d[1] = e[1] /\ page[d] = p /\ e \in todo[d]
ByApplication(e, p) == page[e[1]] = p /\ e \in todo[e[1]]

One(A) == IF A THEN 1 ELSE 0
Owed(e, p) == One(ByListener(e, p)) + One(ByApplication(e, p))

\* A node broadcasts a page once because it is new, and once because it is its own.
Budget(e, p) == One(p \in myHistory[e[1]]) + One(origin[p] = e[1])

SentInv == \A e \in Ends, p \in Page : Count(crossed[e], p) + Owed(e, p) <= Budget(e, p)
PagedInv == \A n \in Node, p \in Page : Count(paged[n], p) <= One(p \in myHistory[n])

PageInv == PageType /\ TodoInv /\ SentInv /\ PagedInv

-----------------------------------------------------------------------------

\* Counting in a list.
LEMMA CountType ==
  ASSUME NEW S, NEW s \in Seq(S), NEW p
  PROVE  Count(s, p) \in Nat /\ IsFiniteSet({i \in DOMAIN s : s[i] = p})
<1>1. IsFiniteSet(1 .. Len(s)) /\ DOMAIN s = 1 .. Len(s)
  BY FS_Interval
<1>2. IsFiniteSet({i \in DOMAIN s : s[i] = p})
  BY Zenon, <1>1, FS_Subset
<1> QED
  BY Zenon, <1>2, FS_CardinalityType DEF Count

\* One message more.
LEMMA CountAppend ==
  ASSUME NEW S, NEW s \in Seq(S), NEW x \in S, NEW p
  PROVE  Count(Append(s, x), p) = Count(s, p) + One(x = p)
<1> DEFINE I == {i \in DOMAIN s : s[i] = p}
           J == {i \in DOMAIN Append(s, x) : Append(s, x)[i] = p}
<1>1. IsFiniteSet(I) /\ Cardinality(I) \in Nat
  BY Zenon, CountType, FS_CardinalityType
<1>2. Count(s, p) = Cardinality(I) /\ Count(Append(s, x), p) = Cardinality(J)
  BY Zenon DEF Count
<1>3. CASE x = p
  <2>1. J = I \cup {Len(s) + 1} /\ Len(s) + 1 \notin I
    BY <1>3
  <2>2. Cardinality(J) = Cardinality(I) + 1
    BY Zenon, <1>1, <2>1, FS_AddElement
  <2> QED
    BY Zenon, <1>2, <1>3, <2>2 DEF One
<1>4. CASE x # p
  <2>1. J = I
    BY <1>4
  <2> HIDE DEF I, J
  <2> QED
    BY <1>1, <1>2, <1>4, <2>1 DEF One
<1> QED
  BY Zenon, <1>3, <1>4

\* Nothing has been sent in an empty list.
LEMMA CountEmpty == ASSUME NEW p PROVE Count(<<>>, p) = 0
<1>1. {i \in DOMAIN <<>> : <<>>[i] = p} = {}
  OBVIOUS
<1> QED
  BY Zenon, <1>1, FS_EmptySet DEF Count

\* The ends of connections.
LEMMA EndFact ==
  /\ \A e \in Ends : e[1] \in Node /\ e \in Goroutine /\ e \notin Node /\ Other(e) \in Ends
  /\ \A n \in Node : n \in Goroutine /\ n \notin Ends
<1>1. \A e \in Ends : e = <<e[1], e[2]>> /\ e \in Node \X Node /\ e[1] \in Node /\ e[2] \in Node
  BY DEF Ends
<1>2. \A e \in Ends : Other(e) \in Node \X Node /\ Link(Other(e)) = Link(e)
  BY Zenon, <1>1 DEF Other, Link
<1>3. \A e \in Ends : Other(e) \in Ends
  BY Zenon, <1>2 DEF Ends
<1> QED
  BY Zenon, <1>1, <1>3, PagerAssumption DEF Goroutine

\* No page has been sent yet.
LEMMA PageInvInit == Init => PageInv
<1> SUFFICES ASSUME Init PROVE PageInv
  BY Zenon
<1>1. PageType
  BY DEF Init, PageType, Messages
<1>2. TodoInv
  BY Zenon, EndFact, PagerAssumption DEF Init, TodoInv, Goroutine
<1>3. SentInv
  BY SMTT(30), EndFact, PagerAssumption, CountEmpty
  DEF Init, SentInv, Owed, Budget, ByListener, ByApplication, One, Goroutine
<1>4. PagedInv
  BY CountEmpty DEF Init, PagedInv, One
<1> QED
  BY Zenon, <1>1, <1>2, <1>3, <1>4 DEF PageInv

\* Connections are made and broken without a change to what was sent.
LEMMA PageInvConnect ==
  ASSUME PageInv, UNCHANGED pageVars, nodes' \subseteq Ends, sent' \in [Ends -> Seq(Messages)]
  PROVE  PageInv'
<1>1. PageType' /\ TodoInv'
  BY Zenon DEF PageInv, PageType, TodoInv, pageVars
<1>2. SentInv' /\ PagedInv'
  BY Zenon DEF PageInv, SentInv, PagedInv, Owed, Budget, ByListener, ByApplication, pageVars
<1> QED
  BY Zenon, <1>1, <1>2 DEF PageInv

\* The application sends a page of its own, for the first time.
LEMMA PageInvSend ==
  ASSUME PageInv, NEW n \in Node, NEW p \in Page, SendPage(n, p)
  PROVE  PageInv'
<1> DEFINE peers == {e \in nodes : e[1] = n /\ p \notin knownTxs[e]}
<1>1. /\ origin[p] = NoMsg /\ page[n] = NoMsg
      /\ todo' = [todo EXCEPT ![n] = peers]
      /\ page' = [page EXCEPT ![n] = IF peers = {} THEN NoMsg ELSE p]
      /\ origin' = [origin EXCEPT ![p] = n]
      /\ UNCHANGED <<nodes, sent, myHistory, paged, crossed>>
  BY Zenon DEF SendPage, BeginBroadcast, connVars
<1>2. peers \subseteq Ends /\ \A e \in peers : e[1] = n
  BY Zenon DEF PageInv, PageType
<1> HIDE DEF peers
<1>3. PageType'
  BY Zenon, <1>1, <1>2, EndFact DEF PageInv, PageType, Messages
<1>4. \A d \in Ends : page'[d] = page[d] /\ todo'[d] = todo[d]
  BY Zenon, <1>1, EndFact DEF PageInv, PageType
<1>5. \A m \in Node \ {n} : page'[m] = page[m] /\ todo'[m] = todo[m]
  BY Zenon, <1>1, EndFact DEF PageInv, PageType
<1>6. page'[n] \in {NoMsg, p} /\ todo'[n] = peers
  BY Zenon, <1>1, EndFact DEF PageInv, PageType
<1>7. origin'[p] = n /\ \A q \in Page \ {p} : origin'[q] = origin[q]
  BY Zenon, <1>1 DEF PageInv, PageType
<1>8. TodoInv'
  <2>1. \A m \in Node : page'[m] \in Page => origin'[page'[m]] = m
    <3>1. \A m \in Node \ {n} : page'[m] # p
      BY <1>1, <1>5, PagerAssumption DEF PageInv, TodoInv
    <3> QED
      BY SMTT(30), <1>5, <1>6, <1>7, <3>1, PagerAssumption DEF PageInv, TodoInv
  <2>2. \A m \in Node : \A e \in todo'[m] : e[1] = m
    BY Zenon, <1>2, <1>5, <1>6 DEF PageInv, TodoInv
  <2>3. /\ \A d \in Ends : \A e \in todo'[d] : e[1] = d[1]
        /\ \A d \in Ends : page'[d] # NoMsg => page'[d] \in myHistory'[d[1]]
        /\ \A c, d \in Ends : c[1] = d[1] /\ page'[c] = page'[d] /\ page'[c] # NoMsg => c = d
    BY <1>1, <1>4 DEF PageInv, TodoInv
  <2> QED
    BY Zenon, <2>1, <2>2, <2>3 DEF TodoInv
<1>9. SentInv'
  <2> SUFFICES ASSUME NEW e \in Ends, NEW q \in Page
               PROVE  Count(crossed'[e], q) + Owed(e, q)' <= Budget(e, q)'
    BY Zenon DEF SentInv
  <2>1. /\ crossed'[e] = crossed[e] /\ Count(crossed[e], q) \in Nat
        /\ Count(crossed[e], q) + Owed(e, q) <= Budget(e, q)
    BY Zenon, <1>1, CountType DEF PageInv, PageType, SentInv
  <2>2. ByListener(e, q)' <=> ByListener(e, q)
    BY Zenon, <1>4 DEF ByListener
  <2>3. CASE q # p \/ e[1] # n
    <3>1. ByApplication(e, q)' <=> ByApplication(e, q)
      BY ZenonT(40), <1>1, <1>5, <1>6, <2>3, EndFact, PagerAssumption DEF ByApplication
    <3>2. origin'[q] = e[1] <=> origin[q] = e[1]
      BY <1>1, <1>7, <2>3, EndFact, PagerAssumption
    <3> QED
      BY Zenon, <1>1, <2>1, <2>2, <3>1, <3>2 DEF Owed, Budget, One
  <2>4. CASE q = p /\ e[1] = n
    <3>1. ~ByApplication(e, q) /\ origin[q] # e[1] /\ origin'[q] = e[1]
      BY <1>1, <1>7, <2>4, EndFact, PagerAssumption DEF ByApplication
    <3> QED
      BY <1>1, <2>1, <2>2, <3>1 DEF Owed, Budget, One
  <2> QED
    BY Zenon, <2>3, <2>4
<1>10. PagedInv'
  BY Zenon, <1>1 DEF PageInv, PagedInv
<1> QED
  BY Zenon, <1>3, <1>8, <1>9, <1>10 DEF PageInv

\* A page that comes again is dropped.
LEMMA PageInvResend ==
  ASSUME PageInv, NEW e \in Ends, sent[Other(e)] # <<>>,
         sent' = [sent EXCEPT ![Other(e)] = Tail(@)],
         UNCHANGED <<connVars, knownTxs, myHistory, paged, page, todo, crossed, origin, since>>
  PROVE  PageInv'
<1>1. sent' \in [Ends -> Seq(Messages)]
  BY EndFact DEF PageInv, PageType
<1>2. nodes' \subseteq Ends /\ UNCHANGED pageVars
  BY Zenon DEF PageInv, PageType, connVars, pageVars
<1> QED
  BY Zenon, <1>1, <1>2, PageInvConnect

\* A page that is new goes to the callback, and the listener broadcasts it.
LEMMA PageInvNew ==
  ASSUME PageInv, NEW e \in Ends, NEW p, NEW peers \in SUBSET nodes,
         page[e] = NoMsg, sent[Other(e)] # <<>>, p = Head(sent[Other(e)]),
         p \notin myHistory[e[1]], \A d \in peers : d[1] = e[1],
         sent' = [sent EXCEPT ![Other(e)] = Tail(@)],
         myHistory' = [myHistory EXCEPT ![e[1]] = @ \cup {p}],
         paged' = [paged EXCEPT ![e[1]] = Append(@, p)],
         todo' = [todo EXCEPT ![e] = peers],
         page' = [page EXCEPT ![e] = IF peers = {} THEN NoMsg ELSE p],
         UNCHANGED <<nodes, crossed, origin>>
  PROVE  PageInv'
<1> DEFINE n == e[1]
<1>1. /\ n \in Node /\ e \in Goroutine /\ Other(e) \in Ends
      /\ \A m \in Node : m \in Goroutine /\ m # e
  BY Zenon, EndFact
<1>2. p \in Messages /\ sent' \in [Ends -> Seq(Messages)]
  BY <1>1 DEF PageInv, PageType
<1>3. PageType'
  <2>1. paged' \in [Node -> Seq(Messages)]
    BY <1>1, <1>2 DEF PageInv, PageType
  <2>2. page' \in [Goroutine -> Messages]
    BY Zenon, <1>1, <1>2 DEF PageInv, PageType, Messages
  <2> QED
    BY Zenon, <1>1, <1>2, <2>1, <2>2 DEF PageInv, PageType
<1>4. /\ page'[e] \in {NoMsg, p} /\ todo'[e] = peers
      /\ \A g \in Goroutine \ {e} : page'[g] = page[g] /\ todo'[g] = todo[g]
  BY Zenon, <1>1 DEF PageInv, PageType
<1>5. /\ myHistory'[n] = myHistory[n] \cup {p}
      /\ \A m \in Node \ {n} : myHistory'[m] = myHistory[m]
  BY Zenon, <1>1 DEF PageInv, PageType
<1>6. \A d \in Ends : d[1] = n /\ page[d] # NoMsg => page[d] # p
  BY Zenon DEF PageInv, TodoInv
<1>7. TodoInv'
  <2>1. \A m \in Node : /\ \A d \in todo'[m] : d[1] = m
                        /\ page'[m] \in Page => origin'[page'[m]] = m
    BY Zenon, <1>1, <1>4 DEF PageInv, TodoInv
  <2>2. \A d \in Ends : \A c \in todo'[d] : c[1] = d[1]
    BY ZenonT(60), <1>4, EndFact DEF PageInv, TodoInv
  <2>3. \A d \in Ends : page'[d] # NoMsg => page'[d] \in myHistory'[d[1]]
    BY SMTT(30), <1>4, <1>5, EndFact DEF PageInv, TodoInv
  <2>4. \A c, d \in Ends : c[1] = d[1] /\ page'[c] = page'[d] /\ page'[c] # NoMsg => c = d
    BY <1>4, <1>6, EndFact DEF PageInv, TodoInv
  <2> QED
    BY Zenon, <2>1, <2>2, <2>3, <2>4 DEF TodoInv
<1>8. SentInv'
  <2> SUFFICES ASSUME NEW d \in Ends, NEW q \in Page
               PROVE  Count(crossed'[d], q) + Owed(d, q)' <= Budget(d, q)'
    BY Zenon DEF SentInv
  <2>1. /\ Count(crossed[d], q) \in Nat
        /\ Count(crossed[d], q) + Owed(d, q) <= Budget(d, q)
    BY Zenon, CountType DEF PageInv, PageType, SentInv
  <2>2. ByApplication(d, q)' <=> ByApplication(d, q)
    BY <1>1, <1>4, EndFact DEF ByApplication
  <2>3. CASE q # p \/ d[1] # n
    <3>1. ByListener(d, q)' <=> ByListener(d, q)
      BY ZenonT(60), <1>1, <1>4, <2>3, EndFact, PagerAssumption DEF ByListener
    <3>2. q \in myHistory'[d[1]] <=> q \in myHistory[d[1]]
      BY Zenon, <1>5, <2>3, EndFact
    <3> QED
      BY Zenon, <2>1, <2>2, <3>1, <3>2 DEF Owed, Budget, One
  <2>4. CASE q = p /\ d[1] = n
    <3>1. ~ByListener(d, q)
      BY <1>6, <2>4, PagerAssumption DEF ByListener
    <3>2. q \notin myHistory[d[1]] /\ q \in myHistory'[d[1]]
      BY Zenon, <1>5, <2>4
    <3> QED
      BY SMTT(30), <2>1, <2>2, <3>1, <3>2 DEF Owed, Budget, One
  <2> QED
    BY Zenon, <2>3, <2>4
<1>9. PagedInv'
  <2> SUFFICES ASSUME NEW m \in Node, NEW q \in Page
               PROVE  Count(paged'[m], q) <= One(q \in myHistory'[m])
    BY Zenon DEF PagedInv
  <2>1. /\ paged[m] \in Seq(Messages) /\ Count(paged[m], q) \in Nat
        /\ Count(paged[m], q) <= One(q \in myHistory[m])
    BY Zenon, CountType DEF PageInv, PageType, PagedInv
  <2>2. CASE m # n
    BY Zenon, <1>1, <1>5, <2>1, <2>2 DEF PageInv, PageType, One
  <2>3. CASE m = n
    <3>1. paged'[m] = Append(paged[m], p)
      BY Zenon, <1>1, <2>3 DEF PageInv, PageType
    <3>2. Count(paged'[m], q) = Count(paged[m], q) + One(p = q)
      BY SMTT(30), <1>2, <2>1, <3>1, CountAppend
    <3> QED
      BY SMTT(30), <1>5, <2>1, <2>3, <3>2 DEF One
  <2> QED
    BY Zenon, <2>2, <2>3
<1> QED
  BY Zenon, <1>3, <1>7, <1>8, <1>9 DEF PageInv

\* One turn of Broadcast: a page that was owed has been sent.
LEMMA PageInvBroadcast ==
  ASSUME PageInv, NEW g \in Goroutine, Broadcast(g)
  PROVE  PageInv'
<1>1. PICK e \in todo[g] :
        /\ sent' = IF Connected(e) THEN [sent EXCEPT ![e] = Append(@, page[g])] ELSE sent
        /\ crossed' = [crossed EXCEPT ![e] = Append(@, page[g])]
        /\ todo' = [todo EXCEPT ![g] = @ \ {e}]
  BY Zenon DEF Broadcast
<1>2. /\ page[g] # NoMsg
      /\ page' = [page EXCEPT ![g] = IF todo'[g] = {} THEN NoMsg ELSE @]
      /\ UNCHANGED <<nodes, myHistory, paged, origin>>
  BY Zenon DEF Broadcast, connVars
<1>3. e \in Ends /\ page[g] \in Messages
  BY Zenon DEF PageInv, PageType
<1>4. PageType'
  <2>1. sent' \in [Ends -> Seq(Messages)] /\ crossed' \in [Ends -> Seq(Messages)]
    BY <1>1, <1>3 DEF PageInv, PageType
  <2>2. todo' \in [Goroutine -> SUBSET Ends] /\ page' \in [Goroutine -> Messages]
    BY Zenon, <1>1, <1>2 DEF PageInv, PageType, Messages
  <2> QED
    BY Zenon, <1>2, <2>1, <2>2 DEF PageInv, PageType
<1>5. /\ page'[g] \in {NoMsg, page[g]} /\ todo'[g] = todo[g] \ {e}
      /\ page'[g] = NoMsg => todo'[g] = {}
      /\ \A f \in Goroutine \ {g} : page'[f] = page[f] /\ todo'[f] = todo[f]
  BY Zenon, <1>1, <1>2 DEF PageInv, PageType
<1>6. \A f \in Goroutine : page'[f] \in {NoMsg, page[f]} /\ todo'[f] \subseteq todo[f]
  BY Zenon, <1>5
<1>7. TodoInv'
  BY <1>2, <1>6, EndFact, PagerAssumption DEF PageInv, TodoInv
<1>8. SentInv'
  <2> SUFFICES ASSUME NEW d \in Ends, NEW q \in Page
               PROVE  Count(crossed'[d], q) + Owed(d, q)' <= Budget(d, q)'
    BY Zenon DEF SentInv
  <2>1. /\ crossed[d] \in Seq(Messages) /\ Count(crossed[d], q) \in Nat
        /\ Count(crossed[d], q) + Owed(d, q) <= Budget(d, q)
    BY Zenon, CountType DEF PageInv, PageType, SentInv
  <2>2. Budget(d, q)' = Budget(d, q) /\ Budget(d, q) \in Nat
    BY <1>2 DEF Budget, One
  <2>3. /\ ByListener(d, q)' => ByListener(d, q)
        /\ ByApplication(d, q)' => ByApplication(d, q)
    BY SMTT(30), <1>6, EndFact, PagerAssumption DEF ByListener, ByApplication
  <2>4. CASE d # e \/ q # page[g]
    <3>1. Count(crossed'[d], q) = Count(crossed[d], q)
      <4>1. CASE d # e
        BY Zenon, <1>1, <4>1 DEF PageInv, PageType
      <4>2. CASE d = e
        <5>1. crossed'[d] = Append(crossed[d], page[g])
          BY Zenon, <1>1, <4>2 DEF PageInv, PageType
        <5>2. Count(crossed'[d], q) = Count(crossed[d], q) + One(page[g] = q)
          BY SMTT(30), <1>3, <2>1, <5>1, CountAppend
        <5> QED
          BY <2>1, <2>4, <4>2, <5>2 DEF One
      <4> QED
        BY Zenon, <4>1, <4>2
    <3> QED
      BY SMTT(30), <2>1, <2>2, <2>3, <3>1 DEF Owed, One
  <2>5. CASE d = e /\ q = page[g]
    <3>1. Count(crossed'[d], q) = Count(crossed[d], q) + 1
      <4>1. crossed'[d] = Append(crossed[d], page[g])
        BY ZenonT(40), <1>1, <2>5 DEF PageInv, PageType
      <4>2. Count(crossed'[d], q) = Count(crossed[d], q) + One(page[g] = q)
        BY <1>3, <2>1, <4>1, CountAppend
      <4> QED
        BY Zenon, <2>5, <4>2 DEF One
    <3>2. CASE g \in Ends
      <4>1. ByListener(d, q) /\ ~ByListener(d, q)'
        BY SMTT(60), <1>1, <1>2, <1>5, <1>6, <2>5, <3>2, EndFact DEF PageInv, TodoInv, ByListener
      <4> QED
        BY SMTT(30), <2>1, <2>2, <2>3, <3>1, <4>1 DEF Owed, One
    <3>3. CASE g \in Node
      <4>1. ByApplication(d, q) /\ ~ByApplication(d, q)'
        BY Zenon, <1>1, <1>5, <2>5, <3>3 DEF PageInv, TodoInv, ByApplication
      <4> QED
        BY SMTT(30), <2>1, <2>2, <2>3, <3>1, <4>1 DEF Owed, One
    <3> QED
      BY Zenon, <3>2, <3>3 DEF Goroutine
  <2> QED
    BY Zenon, <2>4, <2>5
<1>9. PagedInv'
  BY Zenon, <1>2 DEF PageInv, PagedInv
<1> QED
  BY Zenon, <1>4, <1>7, <1>8, <1>9 DEF PageInv

\* Every step keeps the invariant.
LEMMA PageInvStep == PageInv /\ [Next]_vars => PageInv'
<1> SUFFICES ASSUME PageInv, [Next]_vars PROVE PageInv'
  BY Zenon
<1>1. ASSUME NEW e \in Ends, Connect(e) PROVE PageInv'
  <2>1. UNCHANGED pageVars /\ nodes' \subseteq Ends
    BY Zenon, <1>1 DEF PageInv, PageType, Connect, CheckCapacity, SendStatus, ReadMsg, ReaderReturns,
       SelectDone, SelectTimeout, ReturnBound, TestHandshake, RegisterPeerNode, LoadCount,
       StoreCount, UnregisterPeer
  <2>2. CASE SendStatus(e)
    <3>1. Network[e[1]] \in Messages
      BY Zenon, EndFact DEF Messages
    <3>2. sent' = sent \/ sent' = [sent EXCEPT ![e] = Append(@, Network[e[1]])]
      BY Zenon, <2>2 DEF SendStatus
    <3>3. sent' \in [Ends -> Seq(Messages)]
      <4>1. CASE sent' = [sent EXCEPT ![e] = Append(@, Network[e[1]])]
        BY <3>1, <4>1 DEF PageInv, PageType
      <4>2. CASE sent' = sent
        BY Zenon, <4>2 DEF PageInv, PageType
      <4> QED
        BY Zenon, <3>2, <4>1, <4>2
    <3> QED
      BY Zenon, <2>1, <3>3, PageInvConnect
  <2>3. CASE ReadMsg(e)
    <3>1. \/ sent' = sent
          \/ sent[Other(e)] # <<>> /\ sent' = [sent EXCEPT ![Other(e)] = Tail(@)]
      BY Zenon, <2>3 DEF ReadMsg
    <3>2. sent' \in [Ends -> Seq(Messages)]
      <4>1. CASE sent[Other(e)] # <<>> /\ sent' = [sent EXCEPT ![Other(e)] = Tail(@)]
        BY SMTT(30), <4>1, EndFact DEF PageInv, PageType
      <4>2. CASE sent' = sent
        BY Zenon, <4>2 DEF PageInv, PageType
      <4> QED
        BY Zenon, <3>1, <4>1, <4>2
    <3> QED
      BY Zenon, <2>1, <3>2, PageInvConnect
  <2>4. CASE UNCHANGED sent
    BY Zenon, <2>1, <2>4, PageInvConnect DEF PageInv, PageType
  <2> QED
    BY Zenon, <1>1, <2>2, <2>3, <2>4
    DEF Connect, CheckCapacity, ReaderReturns, SelectDone, SelectTimeout, ReturnBound,
        TestHandshake, RegisterPeerNode, LoadCount, StoreCount, UnregisterPeer
<1>2. ASSUME NEW e \in Ends, HandleBroadcast(e) PROVE PageInv'
  <2> DEFINE p == Head(sent[Other(e)])
             peers == {d \in nodes : d[1] = e[1] /\ p \notin knownTxs'[d]}
  <2>1. CASE p \in myHistory[e[1]]
    BY Zenon, <1>2, <2>1, PageInvResend DEF HandleBroadcast
  <2>2. CASE p \notin myHistory[e[1]]
    <3>1. /\ page[e] = NoMsg /\ sent[Other(e)] # <<>>
          /\ sent' = [sent EXCEPT ![Other(e)] = Tail(@)]
          /\ myHistory' = [myHistory EXCEPT ![e[1]] = @ \cup {p}]
          /\ paged' = [paged EXCEPT ![e[1]] = Append(@, p)]
          /\ todo' = [todo EXCEPT ![e] = peers]
          /\ page' = [page EXCEPT ![e] = IF peers = {} THEN NoMsg ELSE p]
          /\ UNCHANGED <<nodes, crossed, origin>>
      BY Zenon, <1>2, <2>2 DEF HandleBroadcast, BeginBroadcast, connVars
    <3>2. peers \in SUBSET nodes /\ \A d \in peers : d[1] = e[1]
      BY Zenon
    <3> HIDE DEF peers
    <3> QED
      BY Zenon, <2>2, <3>1, <3>2, PageInvNew
  <2> QED
    BY Zenon, <2>1, <2>2
<1>3. ASSUME NEW n \in Node, NEW p \in Page, SendPage(n, p) PROVE PageInv'
  BY Zenon, <1>3, PageInvSend
<1>4. ASSUME NEW g \in Goroutine, Broadcast(g) PROVE PageInv'
  BY Zenon, <1>4, PageInvBroadcast
<1>5. ASSUME NEW l, Drop(l) PROVE PageInv'
  BY Zenon, <1>5, PageInvConnect DEF Drop, connVars, PageInv, PageType
<1>6. CASE UNCHANGED vars
  BY Zenon, <1>6, PageInvConnect DEF vars, connVars, PageInv, PageType
<1> QED
  BY Zenon, <1>1, <1>2, <1>3, <1>4, <1>5, <1>6 DEF Next

\* In any network of connections, with cycles, connections that come and go and
\* sets of known messages that forget: Broadcast pages a node once with a
\* message, and sends it over a connection once, or twice if the node sent it
\* first.  A message comes to rest.
THEOREM PagesComeToRest == Spec => []PagedOnce
<1>1. PageInv => PagedOnce
  <2> SUFFICES ASSUME PageInv, NEW p \in Page
               PROVE  /\ \A n \in Node : Count(paged[n], p) <= 1
                      /\ \A e \in Ends : Count(crossed[e], p) <= (IF origin[p] = e[1] THEN 2 ELSE 1)
    BY Zenon DEF PagedOnce
  <2>1. ASSUME NEW n \in Node PROVE Count(paged[n], p) <= 1
    <3>1. Count(paged[n], p) \in Nat
      BY Zenon, CountType DEF PageInv, PageType
    <3> QED
      BY <3>1 DEF PageInv, PagedInv, One
  <2>2. ASSUME NEW e \in Ends PROVE Count(crossed[e], p) <= (IF origin[p] = e[1] THEN 2 ELSE 1)
    <3>1. Count(crossed[e], p) \in Nat
      BY Zenon, CountType DEF PageInv, PageType
    <3>2. Count(crossed[e], p) + Owed(e, p) <= Budget(e, p)
      BY Zenon DEF PageInv, SentInv
    <3> QED
      BY <3>1, <3>2 DEF Owed, Budget, One
  <2> QED
    BY Zenon, <2>1, <2>2
<1> QED
  BY <1>1, PageInvInit, PageInvStep, PTL DEF Spec

-----------------------------------------------------------------------------
(* The count of peers *)

\* The ends that peerCount stands for.
CountedPoint == {"listen", "unload", "unstore"}
Counted(n) == {e \in Ends : e[1] = n /\ run[e] \in CountedPoint}

\* The end was let in and is not counted yet.
Entering(point) == Counting(point) /\ point \notin CountedPoint

\* While a node makes or ends one connection at a time: the count is right and
\* leaves room for the end that was let in, and what that end has read of the
\* count is still true when it writes.
CountOf(n) ==
  /\ \A c, d \in Ends : c[1] = n /\ d[1] = n /\ Counting(run[c]) /\ Counting(run[d]) => c = d
  /\ IsFiniteSet(Counted(n)) /\ peerCount[n] = Cardinality(Counted(n))
  /\ peerCount[n] <= MaxPeers
  /\ \A e \in Ends : e[1] = n =>
       /\ Entering(run[e]) => peerCount[n] < MaxPeers
       /\ run[e] \in {"store", "unstore"} => loaded[e] = peerCount[n]

CountInv ==
  /\ peerCount = [n \in Node |-> peerCount[n]] /\ loaded = [e \in Ends |-> loaded[e]]
  /\ \A n \in Node \ overlap : CountOf(n)

\* What Goto does to the places of the ends.
LEMMA GotoEnds ==
  ASSUME ConnInv, NEW e \in Ends, NEW point, Goto(e, point)
  PROVE  /\ run'[e] = point /\ \A d \in Ends \ {e} : run'[d] = run[d]
         /\ overlap \subseteq overlap'
         /\ Counting(point) /\ e[1] \notin overlap' =>
              \A d \in Ends \ {e} : d[1] = e[1] => ~Counting(run[d])
<1>1. run = [d \in Ends |-> run[d]] /\ run' = [run EXCEPT ![e] = point]
  BY Zenon DEF ConnInv, EndType, Goto
<1>2. run'[e] = point /\ \A d \in Ends \ {e} : run'[d] = run[d]
  BY Zenon, <1>1
<1>3. overlap' = IF Counting(point) /\ \E d \in Ends \ {e} : d[1] = e[1] /\ Counting(run[d])
                 THEN overlap \cup {e[1]} ELSE overlap
  BY Zenon DEF Goto
<1>4. overlap \subseteq overlap'
  BY Zenon, <1>3
<1>5. Counting(point) /\ e[1] \notin overlap' =>
        \A d \in Ends \ {e} : d[1] = e[1] => ~Counting(run[d])
  BY Zenon, <1>3
<1> QED
  BY Zenon, <1>2, <1>4, <1>5

\* A step of e that leaves the count alone.
LEMMA CountKept ==
  ASSUME ConnInv, CountInv, NEW e \in Ends, NEW point, Goto(e, point),
         peerCount' = peerCount, loaded' = [d \in Ends |-> loaded'[d]],
         \A d \in Ends \ {e} : loaded'[d] = loaded[d],
         run[e] \in CountedPoint <=> point \in CountedPoint,
         Entering(point) => Entering(run[e]) \/ peerCount[e[1]] < MaxPeers,
         point \in {"store", "unstore"} => loaded'[e] = peerCount[e[1]]
  PROVE  CountInv'
<1>1. /\ run'[e] = point /\ \A d \in Ends \ {e} : run'[d] = run[d]
      /\ overlap \subseteq overlap'
      /\ Counting(point) /\ e[1] \notin overlap' =>
           \A d \in Ends \ {e} : d[1] = e[1] => ~Counting(run[d])
  BY Zenon, GotoEnds
<1>2. ASSUME NEW n \in Node \ overlap' PROVE CountOf(n)'
  <2>1. CountOf(n)
    BY Zenon, <1>1 DEF CountInv
  <2>2. (\A c, d \in Ends : c[1] = n /\ d[1] = n /\ Counting(run[c]) /\ Counting(run[d]) => c = d)'
    BY ZenonT(40), <1>1, <2>1 DEF CountOf
  <2>3. Counted(n)' = Counted(n)
    BY Zenon, <1>1 DEF Counted
  <2>4. (IsFiniteSet(Counted(n)) /\ peerCount[n] = Cardinality(Counted(n)) /\ peerCount[n] <= MaxPeers)'
    BY Zenon, <2>1, <2>3 DEF CountOf
  <2>5. ASSUME NEW d \in Ends, d[1] = n
        PROVE  /\ Entering(run'[d]) => peerCount'[n] < MaxPeers
               /\ run'[d] \in {"store", "unstore"} => loaded'[d] = peerCount'[n]
    <3>1. CASE d = e
      BY Zenon, <1>1, <2>1, <2>5, <3>1 DEF CountOf
    <3>2. CASE d # e
      BY Zenon, <1>1, <2>1, <2>5, <3>2 DEF CountOf
    <3> QED
      BY Zenon, <3>1, <3>2
  <2> QED
    BY Zenon, <2>2, <2>4, <2>5 DEF CountOf
<1>3. peerCount' = [n \in Node |-> peerCount'[n]]
  BY Zenon DEF CountInv
<1> QED
  BY Zenon, <1>2, <1>3 DEF CountInv

\* The second access of peerCount++ or peerCount--.
LEMMA CountStored ==
  ASSUME ConnInv, CountInv, NEW e \in Ends, StoreCount(e)
  PROVE  CountInv'
<1> DEFINE n == e[1]
           up == run[e] = "store"
           next == IF up THEN "listen" ELSE "left"
<1>1. /\ run[e] \in {"store", "unstore"} /\ loaded' = loaded /\ Goto(e, next)
      /\ peerCount' = [peerCount EXCEPT ![n] = IF up THEN loaded[e] + 1 ELSE loaded[e] - 1]
  BY Zenon DEF StoreCount
<1>2. n \in Node
  BY Zenon, EndFact
<1>3. /\ run'[e] = next /\ \A d \in Ends \ {e} : run'[d] = run[d]
      /\ overlap \subseteq overlap'
  BY Zenon, <1>1, GotoEnds
<1>4. /\ peerCount'[n] = (IF up THEN loaded[e] + 1 ELSE loaded[e] - 1)
      /\ \A m \in Node \ {n} : peerCount'[m] = peerCount[m]
      /\ peerCount' = [m \in Node |-> peerCount'[m]] /\ loaded' = [d \in Ends |-> loaded'[d]]
  <2>1. peerCount = [m \in Node |-> peerCount[m]] /\ loaded = [d \in Ends |-> loaded[d]]
    BY Zenon DEF CountInv
  <2> HIDE DEF n, up
  <2> QED
    BY Zenon, <1>1, <1>2, <2>1
<1>5. ASSUME NEW m \in Node \ overlap', m # n PROVE CountOf(m)'
  <2>1. CountOf(m)
    BY Zenon, <1>3 DEF CountInv
  <2>2. Counted(m)' = Counted(m)
    BY Zenon, <1>3, <1>5 DEF Counted
  <2>3. \A d \in Ends : d[1] = m => run'[d] = run[d] /\ loaded'[d] = loaded[d]
    BY Zenon, <1>1, <1>3, <1>5
  <2>4. peerCount'[m] = peerCount[m]
    BY Zenon, <1>4, <1>5
  <2> HIDE DEF n, next
  <2> QED
    BY Zenon, <2>1, <2>2, <2>3, <2>4 DEF CountOf
<1>6. ASSUME n \notin overlap' PROVE CountOf(n)'
  <2>1. CountOf(n)
    BY Zenon, <1>2, <1>3, <1>6 DEF CountInv
  <2>2. \A d \in Ends : d[1] = n => ~Counting(run'[d])
    <3>1. Counting(run[e]) /\ ~Counting(next)
      BY Zenon, <1>1 DEF Counting
    <3> QED
      BY Zenon, <1>3, <2>1, <3>1 DEF CountOf
  <2>3. /\ IsFiniteSet(Counted(n)) /\ Cardinality(Counted(n)) \in Nat
        /\ loaded[e] = Cardinality(Counted(n)) /\ loaded[e] <= MaxPeers
        /\ up => loaded[e] < MaxPeers
    <3>1. IsFiniteSet(Counted(n)) /\ loaded[e] = Cardinality(Counted(n)) /\ loaded[e] <= MaxPeers
      BY Zenon, <1>1, <2>1 DEF CountOf
    <3>2. up => Entering(run[e])
      BY Zenon DEF Entering, Counting, CountedPoint
    <3>3. up => loaded[e] < MaxPeers
      BY Zenon, <1>1, <2>1, <3>2 DEF CountOf
    <3> QED
      BY Zenon, <3>1, <3>3, FS_CardinalityType
  <2>4. /\ IsFiniteSet(Counted(n)')
        /\ peerCount'[n] = Cardinality(Counted(n)') /\ peerCount'[n] <= MaxPeers
    <3>1. CASE up
      <4>1. Counted(n)' = Counted(n) \cup {e} /\ e \notin Counted(n)
        BY Zenon, <1>3, <3>1 DEF Counted, CountedPoint
      <4>2. IsFiniteSet(Counted(n) \cup {e}) /\ Cardinality(Counted(n) \cup {e}) = Cardinality(Counted(n)) + 1
        BY Zenon, <2>3, <4>1, FS_AddElement
      <4>3. peerCount'[n] = loaded[e] + 1
        BY Zenon, <1>4, <3>1
      <4>4. loaded[e] + 1 <= MaxPeers
        BY <2>3, <3>1, PagerAssumption
      <4> HIDE DEF n
      <4> QED
        BY Zenon, <2>3, <4>1, <4>2, <4>3, <4>4
    <3>2. CASE ~up
      <4>1. Counted(n)' = Counted(n) \ {e} /\ e \in Counted(n)
        BY Zenon, <1>1, <1>3, <3>2 DEF Counted, CountedPoint
      <4>2. IsFiniteSet(Counted(n) \ {e}) /\ Cardinality(Counted(n) \ {e}) = Cardinality(Counted(n)) - 1
        BY Zenon, <2>3, <4>1, FS_RemoveElement
      <4>3. peerCount'[n] = loaded[e] - 1
        BY Zenon, <1>4, <3>2
      <4>4. loaded[e] - 1 <= MaxPeers
        BY <2>3, PagerAssumption
      <4> HIDE DEF n
      <4> QED
        BY Zenon, <2>3, <4>1, <4>2, <4>3, <4>4
    <3> QED
      BY Zenon, <3>1, <3>2
  <2>5. \A d \in Ends : d[1] = n => ~Entering(run'[d]) /\ run'[d] \notin {"store", "unstore"}
    BY Zenon, <2>2 DEF Entering, Counting
  <2> HIDE DEF n
  <2> QED
    BY Zenon, <2>2, <2>4, <2>5 DEF CountOf
<1> QED
  BY Zenon, <1>4, <1>5, <1>6 DEF CountInv

\* The connections that are up at first are counted.
LEMMA CountInvInit == Init => CountInv
<1> SUFFICES ASSUME Init PROVE CountInv
  BY Zenon
<1>1. /\ setup \in Setups /\ overlap = {}
      /\ peerCount = [n \in Node |-> Cardinality({l \in setup.up : n \in l})]
      /\ loaded = [e \in Ends |-> 0]
      /\ \A e \in Ends : run[e] = IF Link(e) \in setup.up THEN "listen"
                                  ELSE IF Link(e) \in setup.dial THEN "check" ELSE "none"
  BY Zenon DEF Init
<1>2. \A e \in Ends : /\ ~Counting(run[e]) /\ ~Entering(run[e]) /\ run[e] \notin {"store", "unstore"}
                      /\ run[e] \in CountedPoint <=> Link(e) \in setup.up
  BY Zenon, <1>1 DEF Counting, Entering, CountedPoint
<1>3. ASSUME NEW n \in Node
      PROVE  /\ IsFiniteSet(Counted(n)) /\ peerCount[n] = Cardinality(Counted(n))
             /\ peerCount[n] <= MaxPeers
  <2> DEFINE S == {l \in setup.up : n \in l}
             T == {e \in Ends : e[1] = n /\ Link(e) \in setup.up}
             F == [e \in T |-> Link(e)]
  <2>1. IsFiniteSet(S) /\ Cardinality(S) <= MaxPeers /\ peerCount[n] = Cardinality(S)
    <3>1. peerCount[n] = Cardinality(S)
      BY Zenon, <1>1
    <3>2. setup \in Setups
      BY Zenon, <1>1
    <3>3. IsFiniteSet(S) /\ Cardinality(S) <= MaxPeers
      BY ONLY SMTT(30), n \in Node, <3>2, PagerAssumption
    <3> QED
      BY Zenon, <3>1, <3>3
  <2>2. Counted(n) = T
    BY Zenon, <1>2 DEF Counted
  <2>3. \A e \in Ends : e = <<e[1], e[2]>>
    BY DEF Ends
  <2>4. F \in [T -> S]
    BY Zenon DEF Link
  <2>5. ASSUME NEW a \in T, NEW b \in T, F[a] = F[b] PROVE a = b
    <3>1. Link(a) = Link(b) /\ a[1] = n /\ b[1] = n
      BY Zenon, <2>5
    <3>2. a[2] = b[2]
      BY Zenon, <3>1 DEF Link
    <3> QED
      BY Zenon, <2>3, <3>1, <3>2
  <2>6. ASSUME NEW l \in S PROVE \E e \in T : F[e] = l
    <3>1. PICK x \in Node, y \in Node : x # y /\ l = {x, y}
      <4>1. setup \in Setups /\ l \in setup.up \cup setup.dial
        BY Zenon, <1>1
      <4> QED
        BY ONLY <4>1, PagerAssumption
    <3>2. ASSUME NEW m \in Node, l = {n, m} PROVE \E e \in T : F[e] = l
      <4>1. <<n, m>> \in Node \X Node /\ <<n, m>>[1] = n /\ Link(<<n, m>>) = l
        BY Zenon, <3>2 DEF Link
      <4>2. <<n, m>> \in T
        BY Zenon, <1>1, <4>1 DEF Ends
      <4> QED
        BY Zenon, <4>1, <4>2
    <3>3. n = x \/ n = y
      BY Zenon, <3>1
    <3>4. l = {y, x}
      BY Zenon, <3>1
    <3> QED
      BY Zenon, <3>1, <3>2, <3>3, <3>4
  <2> HIDE DEF S, T, F
  <2>7. F \in Injection(T, S) /\ F \in Surjection(T, S)
    BY Zenon, <2>4, <2>5, <2>6, Fun_IsInj, Fun_IsSurj
  <2>8. ExistsBijection(S, T)
    <3>1. ExistsBijection(T, S)
      BY Zenon, <2>7 DEF ExistsBijection, Bijection
    <3> QED
      BY Zenon, <3>1, Fun_ExistsBijSymmetric
  <2>9. IsFiniteSet(T) /\ Cardinality(T) = Cardinality(S)
    BY Zenon, <2>1, <2>8, FS_Bijection
  <2> QED
    BY Zenon, <2>1, <2>2, <2>9
<1>4. \A n \in Node : CountOf(n)
  BY Zenon, <1>2, <1>3 DEF CountOf
<1>5. peerCount = [n \in Node |-> peerCount[n]] /\ loaded = [e \in Ends |-> loaded[e]]
  BY Zenon, <1>1
<1> QED
  BY Zenon, <1>4, <1>5 DEF CountInv

\* Every step keeps the count.
LEMMA CountInvStep == ConnInv /\ CountInv /\ [Next]_vars => CountInv'
<1> SUFFICES ASSUME ConnInv, CountInv, [Next]_vars PROVE CountInv'
  BY Zenon
<1>0. peerCount = [n \in Node |-> peerCount[n]] /\ loaded = [d \in Ends |-> loaded[d]]
  BY Zenon DEF CountInv
<1>1. ASSUME NEW e \in Ends, NEW point, Goto(e, point), UNCHANGED <<peerCount, loaded>>,
             run[e] \in CountedPoint <=> point \in CountedPoint,
             Entering(point) => Entering(run[e]) \/ peerCount[e[1]] < MaxPeers,
             point \notin {"store", "unstore"}
      PROVE  CountInv'
  BY Zenon, <1>0, <1>1, CountKept
<1>2. ASSUME NEW e \in Ends, Connect(e) PROVE CountInv'
  <2> USE DEF Entering, Counting, CountedPoint
  <2>1. CASE CheckCapacity(e)
    <3>1. CASE Goto(e, "left")
      <4>1. run[e] = "check" /\ UNCHANGED <<peerCount, loaded>>
        BY Zenon, <2>1 DEF CheckCapacity
      <4>2. /\ run[e] \in CountedPoint <=> "left" \in CountedPoint
            /\ ~Entering("left") /\ "left" \notin {"store", "unstore"}
        BY Zenon, <4>1
      <4> HIDE DEF Entering, Counting, CountedPoint
      <4> QED
        BY Zenon, <1>1, <3>1, <4>1, <4>2
    <3>2. CASE PeerCount(e[1]) < MaxPeers /\ Goto(e, "send")
      <4>1. run[e] = "check" /\ UNCHANGED <<peerCount, loaded>> /\ peerCount[e[1]] < MaxPeers
        BY Zenon, <2>1, <3>2 DEF CheckCapacity, PeerCount
      <4>2. /\ run[e] \in CountedPoint <=> "send" \in CountedPoint
            /\ "send" \notin {"store", "unstore"}
        BY Zenon, <4>1
      <4> HIDE DEF Entering, Counting, CountedPoint
      <4> QED
        BY Zenon, <1>1, <3>2, <4>1, <4>2
    <3> QED
      BY Zenon, <2>1, <3>1, <3>2 DEF CheckCapacity, Fail
  <2>2. CASE \/ SendStatus(e) \/ SelectDone(e) \/ SelectTimeout(e) \/ ReturnBound(e)
             \/ TestHandshake(e) \/ RegisterPeerNode(e)
    <3>1. \E point \in {"select", "expired", "test", "register", "load", "left"} : Goto(e, point)
      BY Zenon, <2>2 DEF SendStatus, SelectDone, SelectTimeout, ReturnBound, TestHandshake,
         RegisterPeerNode, Fail
    <3>2. PICK point \in {"select", "expired", "test", "register", "load", "left"} : Goto(e, point)
      BY Zenon, <3>1
    <3>3. /\ run[e] \in {"send", "select", "expired", "test", "register"}
          /\ UNCHANGED <<peerCount, loaded>>
      BY Zenon, <2>2 DEF SendStatus, SelectDone, SelectTimeout, ReturnBound, TestHandshake,
         RegisterPeerNode
    <3>4. /\ run[e] \in CountedPoint <=> point \in CountedPoint
          /\ Entering(run[e]) /\ point \notin {"store", "unstore"}
      BY Zenon, <3>2, <3>3
    <3> HIDE DEF Entering, Counting, CountedPoint
    <3> QED
      BY Zenon, <1>1, <3>2, <3>3, <3>4
  <2>3. CASE LoadCount(e)
    <3> DEFINE point == IF run[e] = "load" THEN "store" ELSE "unstore"
    <3>1. /\ run[e] \in {"load", "unload"} /\ peerCount' = peerCount /\ Goto(e, point)
          /\ loaded' = [loaded EXCEPT ![e] = peerCount[e[1]]]
      BY Zenon, <2>3 DEF LoadCount
    <3>2. /\ loaded' = [d \in Ends |-> loaded'[d]] /\ loaded'[e] = peerCount[e[1]]
          /\ \A d \in Ends \ {e} : loaded'[d] = loaded[d]
      BY Zenon, <1>0, <3>1
    <3>3. /\ run[e] \in CountedPoint <=> point \in CountedPoint
          /\ Entering(point) => Entering(run[e])
      BY Zenon, <3>1
    <3> HIDE DEF Entering, Counting, CountedPoint, point
    <3> QED
      BY Zenon, <3>1, <3>2, <3>3, CountKept
  <2>4. CASE StoreCount(e)
    BY Zenon, <2>4, CountStored
  <2>5. CASE UnregisterPeer(e)
    <3>1. run[e] = "listen" /\ Goto(e, "unload") /\ UNCHANGED <<peerCount, loaded>>
      BY Zenon, <2>5 DEF UnregisterPeer
    <3>2. /\ run[e] \in CountedPoint <=> "unload" \in CountedPoint
          /\ ~Entering("unload") /\ "unload" \notin {"store", "unstore"}
      BY Zenon, <3>1
    <3> HIDE DEF Entering, Counting, CountedPoint
    <3> QED
      BY Zenon, <1>1, <3>1, <3>2
  <2>6. CASE ReadMsg(e) \/ ReaderReturns(e)
    <3>1. UNCHANGED <<run, peerCount, loaded, overlap>>
      BY Zenon, <2>6 DEF ReadMsg, ReaderReturns
    <3> HIDE DEF Entering, Counting, CountedPoint
    <3> QED
      BY ZenonT(40), <3>1 DEF CountInv, CountOf, Counted
  <2> QED
    BY Zenon, <1>2, <2>1, <2>2, <2>3, <2>4, <2>5, <2>6 DEF Connect
<1>3. ASSUME UNCHANGED <<run, peerCount, loaded, overlap>> PROVE CountInv'
  BY ZenonT(40), <1>3 DEF CountInv, CountOf, Counted
<1>4. ASSUME NEW e \in Ends, HandleBroadcast(e) PROVE CountInv'
  BY Zenon, <1>3, <1>4 DEF HandleBroadcast, connVars
<1>5. ASSUME NEW n \in Node, NEW p \in Page, SendPage(n, p) PROVE CountInv'
  BY Zenon, <1>3, <1>5 DEF SendPage, connVars
<1>6. ASSUME NEW g \in Goroutine, Broadcast(g) PROVE CountInv'
  BY Zenon, <1>3, <1>6 DEF Broadcast, connVars
<1>7. ASSUME NEW l, Drop(l) PROVE CountInv'
  BY Zenon, <1>3, <1>7 DEF Drop, connVars
<1>8. CASE UNCHANGED vars
  BY Zenon, <1>3, <1>8 DEF vars, connVars
<1> QED
  BY Zenon, <1>2, <1>4, <1>5, <1>6, <1>7, <1>8 DEF Next

\* For any capacity and any connections that come and go: a node that makes and
\* ends its connections one at a time has at most maxPeers registered peers and
\* counts them right.  Only the steps between the look at PeerCount in Run and
\* the end of AddPeer, or within DecrPeer, have to be apart.
THEOREM CapacityIsKept == Spec => []CapacityUnlessOverlap
<1>1. ASSUME ConnInv, CountInv, NEW n \in Node \ overlap
      PROVE  /\ Cardinality({e \in nodes : e[1] = n}) <= MaxPeers
             /\ peerCount[n] = Cardinality(Counted(n))
  <2> DEFINE P == {e \in nodes : e[1] = n}
  <2>1. CountOf(n)
    BY Zenon, <1>1 DEF CountInv
  <2>2. \A e \in P : e \in Ends /\ e[1] = n /\ run[e] \in {"load", "store", "listen"}
    BY Zenon, <1>1 DEF ConnInv, AcceptInv
  <2>3. /\ IsFiniteSet(Counted(n)) /\ Cardinality(Counted(n)) \in Nat
        /\ peerCount[n] = Cardinality(Counted(n)) /\ peerCount[n] <= MaxPeers
    BY Zenon, <2>1, FS_CardinalityType DEF CountOf
  <2>4. CASE \E e \in P : run[e] \in {"load", "store"}
    <3>1. PICK e \in P : run[e] \in {"load", "store"}
      BY Zenon, <2>4
    <3>2. Entering(run[e]) /\ Counting(run[e])
      BY Zenon, <3>1 DEF Entering, Counting, CountedPoint
    <3>3. peerCount[n] < MaxPeers
      BY Zenon, <2>1, <2>2, <3>2 DEF CountOf
    <3>4. \A d \in P \ {e} : run[d] = "listen"
      <4>1. \A d \in P : run[d] \in {"load", "store"} => Counting(run[d])
        BY Zenon DEF Counting
      <4> QED
        BY Zenon, <2>1, <2>2, <3>2, <4>1 DEF CountOf
    <3>5. P \in SUBSET (Counted(n) \cup {e})
      BY Zenon, <2>2, <3>4 DEF Counted, CountedPoint
    <3>6. /\ IsFiniteSet(Counted(n) \cup {e})
          /\ Cardinality(Counted(n) \cup {e}) =
               IF e \in Counted(n) THEN Cardinality(Counted(n)) ELSE Cardinality(Counted(n)) + 1
      BY Zenon, <2>3, FS_AddElement
    <3>7. Cardinality(P) <= Cardinality(Counted(n) \cup {e}) /\ Cardinality(P) \in Nat
      BY Zenon, <3>5, <3>6, FS_Subset, FS_CardinalityType
    <3> HIDE DEF P
    <3>8. Cardinality(P) <= MaxPeers
      BY SMTT(30), <2>3, <3>3, <3>6, <3>7, PagerAssumption
    <3> QED
      BY Zenon, <2>3, <3>8 DEF P
  <2>5. CASE ~ \E e \in P : run[e] \in {"load", "store"}
    <3>1. P \in SUBSET Counted(n)
      BY Zenon, <2>2, <2>5 DEF Counted, CountedPoint
    <3>2. Cardinality(P) <= Cardinality(Counted(n)) /\ Cardinality(P) \in Nat
      BY Zenon, <2>3, <3>1, FS_Subset, FS_CardinalityType
    <3> HIDE DEF P
    <3>3. Cardinality(P) <= MaxPeers
      BY SMTT(30), <2>3, <3>2, PagerAssumption
    <3> QED
      BY Zenon, <2>3, <3>3 DEF P
  <2> QED
    BY Zenon, <2>4, <2>5
<1>2. ConnInv /\ CountInv => CapacityUnlessOverlap
  BY Zenon, <1>1 DEF CapacityUnlessOverlap, Counted, CountedPoint
<1> QED
  BY <1>2, ConnInvInit, ConnInvStep, CountInvInit, CountInvStep, PTL DEF Spec
-----------------------------------------------------------------------------
(* The spread of pages *)

\* p is in a list of messages.
Within(list, p) == \E i \in DOMAIN list : list[i] = p

\* A node has a page, or sent it first; it is on its way over a connection; a
\* goroutine has still to send it; the connection counts for PagesSpread.
Got(n, p) == p \in myHistory[n] \/ origin[p] = n
InFlight(e, p) == Within(sent[e], p)
Sending(e, p) == \E g \in Goroutine : page[g] = p /\ e \in todo[g]
Watched(e, p) == Link(e) \in since[p] \ down

\* Nothing is sent by a node that has not got it.  What a node has got it has
\* passed on, or is about to, over the connections that count; and so it has
\* when it marked the peer, although the mark may be forgotten later.
SpreadOf(e, p) ==
  /\ InFlight(e, p) => Got(e[1], p)
  /\ Watched(e, p) => e \in nodes
  /\ Watched(e, p) /\ p \in knownTxs[e] => Got(e[2], p) \/ InFlight(e, p)
  /\ Watched(e, p) /\ Got(e[1], p) => Got(e[2], p) \/ InFlight(e, p) \/ Sending(e, p)
  /\ p \in knownTxs[e] => origin[p] # NoMsg

SpreadType ==
  /\ knownTxs = [e \in Ends |-> knownTxs[e]] /\ since = [p \in Page |-> since[p]]
  /\ \A p \in Page : since[p] \subseteq {Link(e) : e \in Ends}
  /\ \A n \in Node, p \in Page : p \in myHistory[n] => origin[p] # NoMsg

SpreadInv == SpreadType /\ \A e \in Ends, p \in Page : SpreadOf(e, p)

-----------------------------------------------------------------------------

\* A message more, or one less, in a list.
LEMMA WithinAppend ==
  ASSUME NEW S, NEW s \in Seq(S), NEW x \in S, NEW p
  PROVE  Within(Append(s, x), p) <=> Within(s, p) \/ x = p
<1>1. DOMAIN Append(s, x) = DOMAIN s \cup {Len(s) + 1} /\ Append(s, x)[Len(s) + 1] = x
  OBVIOUS
<1>2. \A i \in DOMAIN s : Append(s, x)[i] = s[i]
  OBVIOUS
<1> QED
  BY Zenon, <1>1, <1>2 DEF Within

\* The first message is taken from a list.
LEMMA WithinTail ==
  ASSUME NEW S, NEW s \in Seq(S), s # <<>>, NEW p
  PROVE  Within(s, p) <=> Head(s) = p \/ Within(Tail(s), p)
<1>1. ASSUME Within(s, p) PROVE Head(s) = p \/ Within(Tail(s), p)
  <2>1. PICK i \in DOMAIN s : s[i] = p
    BY Zenon, <1>1 DEF Within
  <2>2. CASE i = 1
    BY <2>1, <2>2
  <2>3. CASE i # 1
    <3>1. i - 1 \in DOMAIN Tail(s) /\ Tail(s)[i - 1] = p
      BY <2>1, <2>3
    <3> QED
      BY Zenon, <3>1 DEF Within
  <2> QED
    BY Zenon, <2>2, <2>3
<1>2. ASSUME Head(s) = p PROVE Within(s, p)
  <2>1. 1 \in DOMAIN s /\ s[1] = p
    BY <1>2
  <2> QED
    BY Zenon, <2>1 DEF Within
<1>3. ASSUME Within(Tail(s), p) PROVE Within(s, p)
  <2>1. PICK i \in DOMAIN Tail(s) : Tail(s)[i] = p
    BY Zenon, <1>3 DEF Within
  <2>2. i + 1 \in DOMAIN s /\ s[i + 1] = p
    BY <2>1
  <2> QED
    BY Zenon, <2>2 DEF Within
<1> QED
  BY Zenon, <1>1, <1>2, <1>3

\* A connection has two ends.
LEMMA LinkFact ==
  /\ \A e \in Ends : /\ e[2] \in Node /\ Other(e)[1] = e[2] /\ Other(e)[2] = e[1]
                     /\ Link(Other(e)) = Link(e)
  /\ \A d, e \in Ends : Link(d) = Link(e) => d = e \/ d = Other(e)
<1>1. \A e \in Ends : e = <<e[1], e[2]>> /\ e[1] \in Node /\ e[2] \in Node
  BY DEF Ends
<1>2. \A e \in Ends : Other(e)[1] = e[2] /\ Other(e)[2] = e[1]
  BY Zenon DEF Other
<1>3. \A e \in Ends : Link(Other(e)) = Link(e)
  BY Zenon, <1>2 DEF Link
<1>4. ASSUME NEW d \in Ends, NEW e \in Ends, Link(d) = Link(e) PROVE d = e \/ d = Other(e)
  <2>1. (d[1] = e[1] /\ d[2] = e[2]) \/ (d[1] = e[2] /\ d[2] = e[1])
    BY Zenon, <1>4 DEF Link
  <2> QED
    BY Zenon, <1>1, <2>1 DEF Other
<1> QED
  BY Zenon, <1>1, <1>2, <1>3, <1>4

\* AddTx marks the message, and may forget others.
LEMMA AddTxFact ==
  ASSUME NEW K, NEW p, NEW known \in AddTx(K, p)
  PROVE  p \in known /\ known \subseteq K \cup {p}
BY Zenon DEF AddTx

\* Connections are made, broken and closed, and statuses exchanged.
LEMMA SpreadConnect ==
  ASSUME SpreadInv, UNCHANGED pageVars, down \subseteq down',
         \A e \in Ends, p \in Page :
           /\ InFlight(e, p)' => InFlight(e, p)
           /\ Watched(e, p)' => (InFlight(e, p) => InFlight(e, p)') /\ e \in nodes'
  PROVE  SpreadInv'
<1>1. SpreadType'
  BY Zenon DEF SpreadInv, SpreadType, pageVars
<1>2. ASSUME NEW e \in Ends, NEW p \in Page PROVE SpreadOf(e, p)'
  <2>1. SpreadOf(e, p)
    BY Zenon DEF SpreadInv
  <2>2. /\ Got(e[1], p)' <=> Got(e[1], p)
        /\ Got(e[2], p)' <=> Got(e[2], p)
        /\ Sending(e, p)' <=> Sending(e, p)
        /\ Watched(e, p)' => Watched(e, p)
    BY Zenon DEF Got, Sending, Watched, pageVars
  <2>3. UNCHANGED <<knownTxs, origin>>
    BY Zenon DEF pageVars
  <2> QED
    BY Zenon, <2>1, <2>2, <2>3 DEF SpreadOf
<1> QED
  BY Zenon, <1>1, <1>2 DEF SpreadInv
\* No page has been sent, so nothing is watched.
LEMMA SpreadInvInit == Init => SpreadInv
<1> SUFFICES ASSUME Init PROVE SpreadInv
  BY Zenon
<1>1. SpreadType
  BY Zenon DEF Init, SpreadType
<1>2. ASSUME NEW e \in Ends, NEW p \in Page PROVE SpreadOf(e, p)
  <2>1. sent[e] = <<>> /\ since[p] = {} /\ knownTxs[e] = {}
    BY Zenon DEF Init
  <2>2. ~InFlight(e, p)
    BY <2>1 DEF InFlight, Within
  <2>3. ~Watched(e, p) /\ p \notin knownTxs[e]
    BY Zenon, <2>1 DEF Watched
  <2> QED
    BY Zenon, <2>2, <2>3 DEF SpreadOf
<1> QED
  BY Zenon, <1>1, <1>2 DEF SpreadInv

\* The steps of Run and of the reader.  The reader takes no message from a
\* connection that counts: both its sides are registered.
LEMMA SpreadInvConnect ==
  ASSUME ConnInv, PageInv, SpreadInv, NEW c \in Ends, Connect(c)
  PROVE  SpreadInv'
<1>1. UNCHANGED pageVars /\ down \subseteq down'
  BY Zenon DEF Connect, CheckCapacity, SendStatus, ReadMsg, ReaderReturns, SelectDone, SelectTimeout,
     ReturnBound, TestHandshake, RegisterPeerNode, LoadCount, StoreCount, UnregisterPeer, Fail
<1>2. ASSUME NEW e \in Ends, NEW p \in Page, Watched(e, p)' PROVE Watched(e, p) /\ e \in nodes
  <2>1. Watched(e, p)
    BY Zenon, <1>1, <1>2 DEF Watched, pageVars
  <2> QED
    BY Zenon, <2>1 DEF SpreadInv, SpreadOf
<1>3. ASSUME NEW e \in Ends, NEW p \in Page, Watched(e, p)' PROVE e \in nodes'
  <2>1. CASE UnregisterPeer(c)
    <3>1. nodes' = nodes \ {c} /\ Link(c) \in down /\ down' = down
      BY Zenon, <2>1 DEF UnregisterPeer, Connected
    <3>2. e # c
      BY Zenon, <1>3, <3>1 DEF Watched
    <3> QED
      BY Zenon, <1>2, <1>3, <3>1, <3>2
  <2>2. CASE ~UnregisterPeer(c)
    <3>1. nodes \subseteq nodes'
      BY Zenon, <2>2 DEF Connect, CheckCapacity, SendStatus, ReadMsg, ReaderReturns, SelectDone,
         SelectTimeout, ReturnBound, TestHandshake, RegisterPeerNode, LoadCount, StoreCount
    <3> QED
      BY Zenon, <1>2, <1>3, <3>1
  <2> QED
    BY Zenon, <2>1, <2>2
<1>4. ASSUME NEW e \in Ends, NEW p \in Page
      PROVE  /\ InFlight(e, p)' => InFlight(e, p)
             /\ Watched(e, p)' => (InFlight(e, p) => InFlight(e, p)')
  <2>0. sent[e] \in Seq(Messages)
    BY Zenon DEF PageInv, PageType
  <2>1. CASE sent'[e] = sent[e]
    BY Zenon, <2>1 DEF InFlight
  <2>2. CASE SendStatus(c) /\ sent'[e] # sent[e]
    <3>1. sent'[e] = Append(sent[e], Network[c[1]])
      BY Zenon, <2>2 DEF SendStatus, PageInv, PageType
    <3>2. c[1] \in Node /\ Network[c[1]] \in Messages
      BY Zenon, EndFact DEF Messages
    <3>3. Network[c[1]] # p
      BY <3>2, PagerAssumption
    <3> QED
      BY SMTT(30), <2>0, <3>1, <3>2, <3>3, WithinAppend DEF InFlight
  <2>3. CASE ReadMsg(c) /\ sent'[e] # sent[e]
    <3>1. e = Other(c) /\ sent[e] # <<>> /\ sent'[e] = Tail(sent[e]) /\ reader[c] = "reading"
      BY Zenon, <2>3, EndFact DEF ReadMsg, PageInv, PageType
    <3>2. InFlight(e, p)' => InFlight(e, p)
      BY Zenon, <2>0, <3>1, WithinTail DEF InFlight
    <3>3. ~Watched(e, p)'
      <4>1. SUFFICES ASSUME Watched(e, p)' PROVE FALSE
        BY Zenon
      <4>2. Watched(c, p)'
        BY Zenon, <3>1, <4>1, LinkFact DEF Watched
      <4>3. c \in nodes
        BY Zenon, <1>2, <4>2
      <4> QED
        BY Zenon, <3>1, <4>3 DEF ConnInv, AcceptInv, Accepted
    <3> QED
      BY Zenon, <3>2, <3>3
  <2>4. SendStatus(c) \/ ReadMsg(c) \/ sent' = sent
    BY Zenon DEF Connect, CheckCapacity, ReaderReturns, SelectDone, SelectTimeout,
       ReturnBound, TestHandshake, RegisterPeerNode, LoadCount, StoreCount, UnregisterPeer
  <2> QED
    BY Zenon, <2>1, <2>2, <2>3, <2>4
<1> QED
  BY Zenon, <1>1, <1>3, <1>4, SpreadConnect

\* The application sends a page of its own: no peer is marked with it yet, so
\* all its peers are to get it.
LEMMA SpreadInvSend ==
  ASSUME PageInv, SpreadInv, NEW n \in Node, NEW q \in Page, SendPage(n, q)
  PROVE  SpreadInv'
<1> DEFINE peers == {e \in nodes : e[1] = n /\ q \notin knownTxs[e]}
           L == {Link(e) : e \in {d \in nodes : Other(d) \in nodes}} \ down
<1>1. /\ origin[q] = NoMsg /\ page[n] = NoMsg
      /\ todo' = [todo EXCEPT ![n] = peers]
      /\ page' = [page EXCEPT ![n] = IF peers = {} THEN NoMsg ELSE q]
      /\ origin' = [origin EXCEPT ![q] = n] /\ since' = [since EXCEPT ![q] = L]
      /\ UNCHANGED <<nodes, sent, down, knownTxs, myHistory>>
  BY Zenon DEF SendPage, BeginBroadcast, connVars
<1>2. nodes \subseteq Ends
  BY Zenon DEF PageInv, PageType
<1>3. \A l \in L : \A e \in Ends : Link(e) = l => e \in nodes
  BY <1>2, LinkFact
<1>4. L \subseteq {Link(e) : e \in Ends} \ down
  BY Zenon, <1>2
<1>5. \A e \in nodes : e[1] = n /\ q \notin knownTxs[e] => e \in peers
  BY Zenon
<1> HIDE DEF peers, L
<1>6. /\ since'[q] = L /\ \A p \in Page \ {q} : since'[p] = since[p]
      /\ since' = [p \in Page |-> since'[p]]
  BY Zenon, <1>1 DEF SpreadInv, SpreadType
<1>7. origin'[q] = n /\ \A p \in Page \ {q} : origin'[p] = origin[p]
  BY Zenon, <1>1 DEF PageInv, PageType
<1>8. /\ todo'[n] = peers /\ page'[n] = IF peers = {} THEN NoMsg ELSE q
      /\ \A g \in Goroutine \ {n} : todo'[g] = todo[g] /\ page'[g] = page[g]
  BY Zenon, <1>1, EndFact DEF PageInv, PageType
<1>9. SpreadType'
  BY Zenon, <1>1, <1>4, <1>6, <1>7, PagerAssumption DEF SpreadInv, SpreadType
<1>10. ASSUME NEW e \in Ends, NEW p \in Page PROVE SpreadOf(e, p)'
  <2>1. SpreadOf(e, p) /\ (InFlight(e, p)' <=> InFlight(e, p)) /\ e[1] \in Node /\ e[2] \in Node
    BY Zenon, <1>1, EndFact, LinkFact DEF SpreadInv, InFlight
  <2>2. CASE p # q
    <3>1. /\ Got(e[1], p)' <=> Got(e[1], p)
          /\ Got(e[2], p)' <=> Got(e[2], p)
          /\ Watched(e, p)' <=> Watched(e, p)
      BY Zenon, <1>1, <1>6, <1>7, <2>2 DEF Got, Watched
    <3>2. Sending(e, p) => Sending(e, p)'
      BY Zenon, <1>1, <1>8, PagerAssumption DEF Sending
    <3> QED
      BY Zenon, <1>1, <1>7, <2>1, <2>2, <3>1, <3>2 DEF SpreadOf
  <2>3. CASE p = q
    <3>1. \A m \in Node : ~Got(m, p) /\ (Got(m, p)' => m = n)
      BY Zenon, <1>1, <1>7, <2>3, PagerAssumption DEF Got, SpreadInv, SpreadType
    <3>2. ~InFlight(e, p)' /\ p \notin knownTxs'[e]
      BY Zenon, <1>1, <2>1, <2>3, <3>1 DEF SpreadOf
    <3>3. Watched(e, p)' => e \in nodes
      BY Zenon, <1>3, <1>6, <2>3 DEF Watched
    <3>4. ASSUME Watched(e, p)', Got(e[1], p)' PROVE Sending(e, p)'
      <4>1. e \in peers
        BY Zenon, <1>1, <1>5, <2>1, <2>3, <3>1, <3>2, <3>3, <3>4
      <4> QED
        BY Zenon, <1>8, <2>3, <4>1, EndFact DEF Sending
    <3> QED
      BY Zenon, <1>1, <3>2, <3>3, <3>4 DEF SpreadOf
  <2> QED
    BY Zenon, <2>2, <2>3
<1> QED
  BY Zenon, <1>9, <1>10 DEF SpreadInv
\* A page that comes, again or for the first time: its sender has it, and every
\* other peer has it, is marked, or is to get it.
LEMMA SpreadInvReceive ==
  ASSUME PageInv, SpreadInv, NEW c \in Ends, HandleBroadcast(c)
  PROVE  SpreadInv'
<1>0. PICK q : q = Head(sent[Other(c)])
  BY Zenon
<1> DEFINE n == c[1]
           peers == {d \in nodes : d[1] = n /\ q \notin knownTxs'[d]}
<1>1. /\ page[c] = NoMsg /\ sent[Other(c)] # <<>>
      /\ sent' = [sent EXCEPT ![Other(c)] = Tail(@)]
      /\ UNCHANGED <<down, nodes, origin, since>>
  BY Zenon DEF HandleBroadcast, connVars
<1>2. /\ n \in Node /\ c \in Goroutine /\ Other(c) \in Ends
      /\ Other(c)[1] = c[2] /\ Other(c)[2] = n /\ c[2] \in Node
  BY Zenon, EndFact, LinkFact
<1>3. /\ sent'[Other(c)] = Tail(sent[Other(c)])
      /\ \A e \in Ends \ {Other(c)} : sent'[e] = sent[e]
      /\ sent[Other(c)] \in Seq(Messages)
  BY Zenon, <1>1, <1>2 DEF PageInv, PageType
<1>4. ASSUME NEW e \in Ends, NEW p \in Page
      PROVE  /\ InFlight(e, p)' => InFlight(e, p)
             /\ InFlight(e, p) => InFlight(e, p)' \/ (e = Other(c) /\ p = q)
  <2>1. CASE e # Other(c)
    BY Zenon, <1>3, <2>1 DEF InFlight
  <2>2. CASE e = Other(c)
    <3>1. Within(sent[e], p) <=> Head(sent[e]) = p \/ Within(Tail(sent[e]), p)
      BY Zenon, <1>1, <1>3, <2>2, WithinTail
    <3> QED
      BY Zenon, <1>0, <1>3, <2>2, <3>1 DEF InFlight
  <2> QED
    BY Zenon, <2>1, <2>2
<1>5. q \in Page => Got(c[2], q)
  <2>1. InFlight(Other(c), q)
    BY Zenon, <1>0, <1>1, <1>3, WithinTail DEF InFlight
  <2> QED
    BY Zenon, <1>2, <2>1 DEF SpreadInv, SpreadOf
<1>6. q \in Page => origin[q] # NoMsg
  BY Zenon, <1>2, <1>5, PagerAssumption DEF SpreadInv, SpreadType, Got
<1>7. CASE q \in myHistory[n]
  <2>1. UNCHANGED <<knownTxs, myHistory, page, todo>>
    BY Zenon, <1>0, <1>7 DEF HandleBroadcast
  <2>2. SpreadType'
    BY Zenon, <1>1, <2>1 DEF SpreadInv, SpreadType
  <2>3. ASSUME NEW e \in Ends, NEW p \in Page PROVE SpreadOf(e, p)'
    <3>1. SpreadOf(e, p)
      BY Zenon DEF SpreadInv
    <3>2. /\ Got(e[1], p)' <=> Got(e[1], p)
          /\ Got(e[2], p)' <=> Got(e[2], p)
          /\ Watched(e, p)' <=> Watched(e, p)
          /\ Sending(e, p)' <=> Sending(e, p)
      BY Zenon, <1>1, <2>1 DEF Got, Watched, Sending
    <3>3. e = Other(c) /\ p = q => Got(e[2], p)
      BY Zenon, <1>2, <1>7 DEF Got
    <3> HIDE DEF n
    <3> QED
      BY Zenon, <1>1, <1>4, <2>1, <3>1, <3>2, <3>3 DEF SpreadOf
  <2> QED
    BY Zenon, <2>2, <2>3 DEF SpreadInv
<1>8. CASE q \notin myHistory[n]
  <2>1. /\ myHistory' = [myHistory EXCEPT ![n] = @ \cup {q}]
        /\ todo' = [todo EXCEPT ![c] = peers]
        /\ page' = [page EXCEPT ![c] = IF peers = {} THEN NoMsg ELSE q]
        /\ \E known \in AddTx(knownTxs[c], q) : knownTxs' = [knownTxs EXCEPT ![c] = known]
    BY Zenon, <1>0, <1>8 DEF HandleBroadcast, BeginBroadcast
  <2>2. \A e \in nodes : e[1] = n /\ q \notin knownTxs'[e] => e \in peers
    BY Zenon
  <2> HIDE DEF n, peers
  <2>3. /\ knownTxs' = [e \in Ends |-> knownTxs'[e]]
        /\ knownTxs'[c] \subseteq knownTxs[c] \cup {q}
        /\ \A e \in Ends \ {c} : knownTxs'[e] = knownTxs[e]
    <3>1. PICK known \in AddTx(knownTxs[c], q) : knownTxs' = [knownTxs EXCEPT ![c] = known]
      BY Zenon, <2>1
    <3>2. known \subseteq knownTxs[c] \cup {q}
      BY Zenon, <3>1, AddTxFact
    <3>3. knownTxs = [e \in Ends |-> knownTxs[e]]
      BY Zenon DEF SpreadInv, SpreadType
    <3> QED
      BY Zenon, <3>1, <3>2, <3>3
  <2>4. /\ myHistory'[n] = myHistory[n] \cup {q}
        /\ \A m \in Node \ {n} : myHistory'[m] = myHistory[m]
    BY Zenon, <1>2, <2>1 DEF PageInv, PageType
  <2>5. /\ todo'[c] = peers /\ page'[c] = IF peers = {} THEN NoMsg ELSE q
        /\ \A g \in Goroutine \ {c} : todo'[g] = todo[g] /\ page'[g] = page[g]
    BY Zenon, <1>2, <2>1 DEF PageInv, PageType
  <2>6. \A m \in Node, p \in Page : /\ Got(m, p) => Got(m, p)'
                                    /\ Got(m, p)' => Got(m, p) \/ (m = n /\ p = q)
    BY Zenon, <1>1, <2>4 DEF Got
  <2>7. Got(n, q)'
    BY Zenon, <2>4 DEF Got
  <2>8. SpreadType'
    <3>1. \A m \in Node, p \in Page : p \in myHistory'[m] => origin[p] # NoMsg
      BY Zenon, <1>6, <2>4 DEF SpreadInv, SpreadType
    <3> QED
      BY Zenon, <1>1, <2>3, <3>1 DEF SpreadInv, SpreadType
  <2>9. ASSUME NEW e \in Ends, NEW p \in Page PROVE SpreadOf(e, p)'
    <3>1. SpreadOf(e, p) /\ e[1] \in Node /\ e[2] \in Node
      BY Zenon, EndFact, LinkFact DEF SpreadInv
    <3>2. Watched(e, p)' <=> Watched(e, p)
      BY Zenon, <1>1 DEF Watched
    <3>3. p \in knownTxs'[e] => p \in knownTxs[e] \/ (e = c /\ p = q)
      BY Zenon, <2>3
    <3>4. Sending(e, p) => Sending(e, p)'
      BY Zenon, <1>1, <2>5, PagerAssumption DEF Sending
    <3>5. Got(e[2], p) \/ InFlight(e, p) => Got(e[2], p)' \/ InFlight(e, p)'
      BY Zenon, <1>2, <1>4, <2>6, <2>7, <3>1
    <3>6. InFlight(e, p)' => Got(e[1], p)'
      BY Zenon, <1>4, <2>6, <3>1 DEF SpreadOf
    <3>7. Watched(e, p)' /\ p \in knownTxs'[e] => Got(e[2], p)' \/ InFlight(e, p)'
      BY Zenon, <1>5, <3>1, <3>2, <3>3, <3>5 DEF SpreadOf
    <3>8. ASSUME Watched(e, p)', Got(e[1], p)'
          PROVE  Got(e[2], p)' \/ InFlight(e, p)' \/ Sending(e, p)'
      <4>1. CASE Got(e[1], p)
        BY Zenon, <3>1, <3>2, <3>4, <3>5, <3>8, <4>1 DEF SpreadOf
      <4>2. CASE ~Got(e[1], p)
        <5>1. e[1] = n /\ p = q /\ e \in nodes
          BY Zenon, <2>6, <3>1, <3>2, <3>8, <4>2 DEF SpreadOf
        <5>2. CASE p \in knownTxs'[e]
          BY Zenon, <3>7, <3>8, <5>2
        <5>3. CASE p \notin knownTxs'[e]
          <6>1. e \in peers
            BY Zenon, <2>2, <5>1, <5>3
          <6> QED
            BY Zenon, <1>2, <2>5, <5>1, <6>1 DEF Sending
        <5> QED
          BY Zenon, <5>2, <5>3
      <4> QED
        BY Zenon, <4>1, <4>2
    <3>9. p \in knownTxs'[e] => origin'[p] # NoMsg
      BY Zenon, <1>1, <1>6, <3>1, <3>3 DEF SpreadOf
    <3> QED
      BY Zenon, <1>1, <3>1, <3>2, <3>6, <3>7, <3>8, <3>9 DEF SpreadOf
  <2> QED
    BY Zenon, <2>8, <2>9 DEF SpreadInv
<1> QED
  BY Zenon, <1>7, <1>8

\* One turn of Broadcast.  The send fails only on a connection that is broken.
LEMMA SpreadInvBroadcast ==
  ASSUME PageInv, SpreadInv, NEW g \in Goroutine, Broadcast(g)
  PROVE  SpreadInv'
<1> DEFINE q == page[g]
<1>1. PICK c \in todo[g] :
        /\ \E known \in AddTx(knownTxs[c], q) : knownTxs' = [knownTxs EXCEPT ![c] = known]
        /\ sent' = IF Connected(c) THEN [sent EXCEPT ![c] = Append(@, q)] ELSE sent
        /\ todo' = [todo EXCEPT ![g] = @ \ {c}]
  BY Zenon DEF Broadcast
<1>2. /\ q # NoMsg /\ page' = [page EXCEPT ![g] = IF todo'[g] = {} THEN NoMsg ELSE @]
      /\ UNCHANGED <<nodes, down, myHistory, origin, since>>
  BY Zenon DEF Broadcast, connVars
<1>3. c \in Ends /\ q \in Messages /\ c[1] \in Node
  BY Zenon, EndFact DEF PageInv, PageType
<1>4. /\ todo'[g] = todo[g] \ {c} /\ page'[g] = IF todo'[g] = {} THEN NoMsg ELSE page[g]
      /\ \A f \in Goroutine \ {g} : todo'[f] = todo[f] /\ page'[f] = page[f]
  BY Zenon, <1>1, <1>2 DEF PageInv, PageType
<1>5. q \in Page => Got(c[1], q)
  BY Zenon, <1>2, EndFact DEF PageInv, TodoInv, Goroutine, Got
<1>6. q \in Page => origin[q] # NoMsg
  BY Zenon, <1>3, <1>5, PagerAssumption DEF SpreadInv, SpreadType, Got
<1> HIDE DEF q
<1>7. /\ knownTxs' = [e \in Ends |-> knownTxs'[e]]
      /\ knownTxs'[c] \subseteq knownTxs[c] \cup {q}
      /\ \A e \in Ends \ {c} : knownTxs'[e] = knownTxs[e]
  <2>1. PICK known \in AddTx(knownTxs[c], q) : knownTxs' = [knownTxs EXCEPT ![c] = known]
    BY Zenon, <1>1
  <2>2. known \subseteq knownTxs[c] \cup {q}
    BY Zenon, <2>1, AddTxFact
  <2>3. knownTxs = [e \in Ends |-> knownTxs[e]]
    BY Zenon DEF SpreadInv, SpreadType
  <2> QED
    BY Zenon, <1>3, <2>1, <2>2, <2>3
<1>8. ASSUME NEW e \in Ends, NEW p \in Page
      PROVE  /\ InFlight(e, p) => InFlight(e, p)'
             /\ InFlight(e, p)' => InFlight(e, p) \/ (e = c /\ p = q)
             /\ e = c /\ p = q /\ Connected(c) => InFlight(e, p)'
  <2>1. CASE e # c \/ ~Connected(c)
    <3>1. sent'[e] = sent[e]
      BY Zenon, <1>1, <2>1 DEF PageInv, PageType
    <3> QED
      BY Zenon, <2>1, <3>1 DEF InFlight
  <2>2. CASE e = c /\ Connected(c)
    <3>1. sent'[e] = Append(sent[e], q) /\ sent[e] \in Seq(Messages)
      BY Zenon, <1>1, <2>2 DEF PageInv, PageType
    <3>2. Within(Append(sent[e], q), p) <=> Within(sent[e], p) \/ q = p
      BY Zenon, <1>3, <3>1, WithinAppend
    <3> QED
      BY Zenon, <2>2, <3>1, <3>2 DEF InFlight
  <2> QED
    BY Zenon, <2>1, <2>2
<1>9. SpreadType'
  BY Zenon, <1>2, <1>7 DEF SpreadInv, SpreadType
<1>10. ASSUME NEW e \in Ends, NEW p \in Page PROVE SpreadOf(e, p)'
  <2>1. SpreadOf(e, p)
    BY Zenon DEF SpreadInv
  <2>2. /\ Got(e[1], p)' <=> Got(e[1], p)
        /\ Got(e[2], p)' <=> Got(e[2], p)
        /\ Watched(e, p)' <=> Watched(e, p)
    BY Zenon, <1>2 DEF Got, Watched
  <2>3. Watched(e, p) => Connected(e)
    BY Zenon DEF Watched, Connected
  <2>4. p \in knownTxs'[e] => p \in knownTxs[e] \/ (e = c /\ p = q)
    BY Zenon, <1>7
  <2>5. Sending(e, p) => Sending(e, p)' \/ (e = c /\ p = q)
    <3>1. SUFFICES ASSUME Sending(e, p) PROVE Sending(e, p)' \/ (e = c /\ p = q)
      BY Zenon
    <3>2. PICK f \in Goroutine : page[f] = p /\ e \in todo[f]
      BY Zenon, <3>1 DEF Sending
    <3>3. CASE f # g
      BY Zenon, <1>4, <3>2, <3>3 DEF Sending
    <3>4. CASE f = g
      <4>1. CASE e # c
        BY Zenon, <1>4, <3>2, <3>4, <4>1 DEF Sending
      <4>2. CASE e = c
        BY Zenon, <3>2, <3>4, <4>2 DEF q
      <4> QED
        BY Zenon, <4>1, <4>2
    <3> QED
      BY Zenon, <3>3, <3>4
  <2>6. InFlight(e, p)' => Got(e[1], p)'
    BY Zenon, <1>5, <1>8, <2>1, <2>2 DEF SpreadOf
  <2>7. Watched(e, p)' /\ p \in knownTxs'[e] => Got(e[2], p)' \/ InFlight(e, p)'
    BY Zenon, <1>8, <2>1, <2>2, <2>3, <2>4 DEF SpreadOf
  <2>8. Watched(e, p)' /\ Got(e[1], p)' => Got(e[2], p)' \/ InFlight(e, p)' \/ Sending(e, p)'
    BY Zenon, <1>8, <2>1, <2>2, <2>3, <2>5 DEF SpreadOf
  <2>9. /\ Watched(e, p)' => e \in nodes'
        /\ p \in knownTxs'[e] => origin'[p] # NoMsg
    BY Zenon, <1>2, <1>6, <2>1, <2>2, <2>4 DEF SpreadOf
  <2> QED
    BY Zenon, <2>6, <2>7, <2>8, <2>9 DEF SpreadOf
<1> QED
  BY Zenon, <1>9, <1>10 DEF SpreadInv

\* Every step keeps the invariant.
LEMMA SpreadInvStep == ConnInv /\ PageInv /\ SpreadInv /\ [Next]_vars => SpreadInv'
<1> SUFFICES ASSUME ConnInv, PageInv, SpreadInv, [Next]_vars PROVE SpreadInv'
  BY Zenon
<1>1. ASSUME NEW e \in Ends, Connect(e) PROVE SpreadInv'
  BY Zenon, <1>1, SpreadInvConnect
<1>2. ASSUME NEW e \in Ends, HandleBroadcast(e) PROVE SpreadInv'
  BY Zenon, <1>2, SpreadInvReceive
<1>3. ASSUME NEW n \in Node, NEW p \in Page, SendPage(n, p) PROVE SpreadInv'
  BY Zenon, <1>3, SpreadInvSend
<1>4. ASSUME NEW g \in Goroutine, Broadcast(g) PROVE SpreadInv'
  BY Zenon, <1>4, SpreadInvBroadcast
<1>5. ASSUME UNCHANGED <<sent, nodes, pageVars>>, down \subseteq down' PROVE SpreadInv'
  <2>1. ASSUME NEW e \in Ends, NEW p \in Page
        PROVE  /\ InFlight(e, p)' <=> InFlight(e, p)
               /\ Watched(e, p)' => e \in nodes'
    BY Zenon, <1>5 DEF InFlight, Watched, pageVars, SpreadInv, SpreadOf
  <2> QED
    BY Zenon, <1>5, <2>1, SpreadConnect
<1>6. ASSUME NEW l, Drop(l) PROVE SpreadInv'
  BY Zenon, <1>5, <1>6 DEF Drop, connVars
<1>7. CASE UNCHANGED vars
  BY Zenon, <1>5, <1>7 DEF vars, connVars
<1> QED
  BY Zenon, <1>1, <1>2, <1>3, <1>4, <1>6, <1>7 DEF Next

\* In any network of connections, whatever breaks on the way and whatever the
\* sets of known messages forget: when all is delivered, Broadcast has brought a
\* page over every connection that was there before it and still is.
THEOREM PagesReachEveryPeer == Spec => []PagesSpread
<1>1. ASSUME PageInv, SpreadInv, Quiet, NEW p \in Page, NEW l \in since[p] \ down,
             NEW n \in l, NEW m \in l, Got(n, p)
      PROVE  Got(m, p)
  <2>1. PICK d \in Ends : l = Link(d)
    BY Zenon, <1>1 DEF SpreadInv, SpreadType
  <2>2. n \in Node /\ m \in Node /\ (n # m => <<n, m>> \in {d, Other(d)})
    <3>1. d = <<d[1], d[2]>> /\ d[1] \in Node /\ d[2] \in Node /\ Other(d) = <<d[2], d[1]>>
      BY DEF Ends, Other
    <3>2. n \in {d[1], d[2]} /\ m \in {d[1], d[2]}
      BY Zenon, <2>1 DEF Link
    <3> QED
      BY Zenon, <3>1, <3>2
  <2>3. CASE n = m
    BY Zenon, <1>1, <2>3
  <2>4. CASE n # m
    <3>1. PICK e \in Ends : e[1] = n /\ e[2] = m /\ Link(e) = l
      <4>1. <<n, m>>[1] = n /\ <<n, m>>[2] = m
        BY Zenon
      <4> QED
        BY Zenon, <2>1, <2>2, <2>4, <4>1, EndFact, LinkFact
    <3>2. SpreadOf(e, p) /\ Watched(e, p) /\ Connected(e)
      BY Zenon, <1>1, <3>1 DEF SpreadInv, Watched, Connected
    <3>3. ~InFlight(e, p)
      <4>1. sent[e] = <<>>
        BY Zenon, <1>1, <3>2 DEF Quiet
      <4> QED
        BY <4>1 DEF InFlight, Within
    <3>4. ~Sending(e, p)
      BY Zenon, <1>1, PagerAssumption DEF Quiet, Sending
    <3> QED
      BY Zenon, <1>1, <3>1, <3>2, <3>3, <3>4 DEF SpreadOf
  <2> QED
    BY Zenon, <2>3, <2>4
<1>2. PageInv /\ SpreadInv => PagesSpread
  BY Zenon, <1>1 DEF PagesSpread, Got
<1> QED
  BY <1>2, ConnInvInit, ConnInvStep, PageInvInit, PageInvStep, SpreadInvInit, SpreadInvStep, PTL
  DEF Spec
=============================================================================

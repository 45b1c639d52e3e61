SPECIFICATION ProducerFairSpec
CONSTANTS
  t1 = t1  t2 = t2  p1 = p1  p2 = p2  s1 = s1
  App = app  NoBlock = NoBlock
  Tx <- MCTx
  Producer <- MCProducer
  Sync <- MCSync
  Calls <- MCAllCalls
  TxQueueSize = 1
  MaxTxCount = 2
INVARIANTS OneProducer CapacityHolds NoGreedyBlock KeepsRunning
PROPERTIES LostOnlyByShutdown SuspendReturns TxSettles
CHECK_DEADLOCK FALSE

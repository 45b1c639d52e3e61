-------------------------------- MODULE Pager --------------------------------
(***************************************************************************)
(* Peer connections and the pager protocol (protocol/manager.go,           *)
(* protocol/pager/manager.go): the check for capacity, the handshake in    *)
(* its time bound (common/util.go), the registration and the count of      *)
(* peers, and text messages that are flooded over all connections          *)
(* (protocol/node.go, common/set.go, db/peerSetDbInMem.go).                *)
(*                                                                         *)
(* An end <<n, m>> is n's side of the connection between n and m, with the *)
(* goroutine that runs its Run and, during the handshake, the one that     *)
(* RunTimeBound starts to read.  These two share the variables err of      *)
(* RunTimeBound and of Handshake without a lock, and all Runs of a node    *)
(* share peerCount; each access is a step.  Stores take effect in program  *)
(* order, so err never says nil before msg is there.                       *)
(***************************************************************************)
EXTENDS Integers, Sequences, FiniteSets, FiniteSetsExt

CONSTANTS
  Node,        \* the nodes
  Page,        \* text messages, by MsgId
  Network,     \* NetworkId, ShardId and Genesis of each node, as one value
  Setups,      \* bounds, a set of [up : links that are up at first, dial : links
               \* that are made, pages : who sends which page, drops : the
               \* links that may break, slow : the ends whose timer may fire]
  MaxPeers,    \* maxPeers, 10 in the code
  MaxKnown,    \* maxKnownTxs, 1024 in the code
  NoMsg        \* a message that is not there, or a message without payload

ASSUME PagerAssumption ==
  /\ \A s \in Setups : \A l \in s.up \cup s.dial : \E n, m \in Node : n # m /\ l = {n, m}
  /\ \A s \in Setups : \A l \in s.up : \A n, m \in l : Network[n] = Network[m]
  /\ \A s \in Setups : \A n \in Node :
       LET peers == {l \in s.up : n \in l} IN IsFiniteSet(peers) /\ Cardinality(peers) <= MaxPeers
  /\ \A n \in Node : Network[n] \notin Page \cup {NoMsg}
  /\ MaxPeers \in Nat /\ MaxKnown \in Nat \ {0}
  /\ NoMsg \notin Page \cup Node /\ Node \cap (Node \X Node) = {}

Other(e) == <<e[2], e[1]>>
Link(e) == {e[1], e[2]}
Ends == {e \in Node \X Node : \E s \in Setups : Link(e) \in s.up \cup s.dial}

VARIABLES
  setup,       \* the one of Setups; it does not change
  down,        \* the links that are not there or broken
  sent,        \* sent[e]: messages on their way from e[1] to e[2]
  run,         \* where Run of each end is
  reader,      \* where the goroutine of RunTimeBound is
  msg,         \* the message it has read, the handshake of the peer
  bound,       \* err of RunTimeBound
  err,         \* err of Handshake
  nodes,       \* the ends that are registered in the peer DB of their node
  peerCount,   \* of each node
  loaded,      \* peerCount as the end read it before it adds or subtracts one
  knownTxs,    \* of each end: pages the peer has been marked with
  myHistory,   \* of each node: pages it has received
  page,        \* page[g]: what goroutine g broadcasts, or NoMsg; an end stands
               \* for its listener, a node for its application
  todo,        \* todo[g]: ends it still has to send it to
  \* history:
  paged,       \* pages handed to the callback of each node, as a list
  crossed,     \* pages sent by each end, as a list
  origin,      \* the node that sent each page first, or NoMsg
  since,       \* the connections that were up on both sides at that time
  overlap      \* nodes where two connections were made or ended at the same time

connVars == <<run, reader, msg, bound, err, nodes, peerCount, loaded>>
pageVars == <<knownTxs, myHistory, page, todo, paged, crossed, origin, since>>
vars == <<setup, down, sent, connVars, pageVars, overlap>>

Goroutine == Ends \cup Node

Points == {"none", "check", "send", "select", "expired", "test", "register", "load", "store",
           "listen", "unload", "unstore", "left"}

TypeOK ==
  /\ run \in [Ends -> Points]
  /\ reader \in [Ends -> {"none", "reading", "return", "done", "gone"}]
  /\ bound \in [Ends -> {"nil", "timeout", "closed"}] /\ err \in [Ends -> {"nil", "timeout", "closed"}]
  /\ nodes \subseteq Ends /\ peerCount \in [Node -> Int]
  /\ \A e \in Ends : knownTxs[e] \subseteq Page /\ Cardinality(knownTxs[e]) <= MaxKnown
  /\ \A n \in Node : myHistory[n] \subseteq Page
  /\ page \in [Goroutine -> Page \cup {NoMsg}] /\ todo \in [Goroutine -> SUBSET Ends]

Init ==
  /\ setup \in Setups
  /\ down = {Link(e) : e \in Ends} \ (setup.up \cup setup.dial)
  /\ sent = [e \in Ends |-> <<>>]
  /\ run = [e \in Ends |-> IF Link(e) \in setup.up THEN "listen"
                           ELSE IF Link(e) \in setup.dial THEN "check" ELSE "none"]
  /\ reader = [e \in Ends |-> IF Link(e) \in setup.up THEN "gone" ELSE "none"]
  /\ msg = [e \in Ends |-> IF Link(e) \in setup.up THEN Network[e[2]] ELSE NoMsg]
  /\ bound = [e \in Ends |-> "nil"] /\ err = [e \in Ends |-> "nil"]
  /\ nodes = {e \in Ends : Link(e) \in setup.up}
  /\ peerCount = [n \in Node |-> Cardinality({l \in setup.up : n \in l})]
  /\ loaded = [e \in Ends |-> 0]
  /\ knownTxs = [e \in Ends |-> {}] /\ myHistory = [n \in Node |-> {}]
  /\ page = [g \in Goroutine |-> NoMsg] /\ todo = [g \in Goroutine |-> {}]
  /\ paged = [n \in Node |-> <<>>] /\ crossed = [e \in Ends |-> <<>>]
  /\ origin = [p \in Page |-> NoMsg] /\ since = [p \in Page |-> {}]
  /\ overlap = {}

-----------------------------------------------------------------------------
(* Run up to the end of the handshake *)

Connected(e) == Link(e) \notin down

\* The end is between its look at peerCount and its count of the peer, or
\* between the two accesses of DecrPeer.
Counting(point) == point \in {"send", "select", "expired", "test", "register", "load", "store",
                              "unload", "unstore"}

\* Run goes on to a point.  An error return closes the connection.
Goto(e, point) ==
  /\ run' = [run EXCEPT ![e] = point]
  /\ overlap' = IF Counting(point) /\ \E d \in Ends \ {e} : d[1] = e[1] /\ Counting(run[d])
                THEN overlap \cup {e[1]} ELSE overlap
Fail(e) == Goto(e, "left") /\ down' = down \cup {Link(e)}

PeerCount(n) == peerCount[n]

CheckCapacity(e) ==
  /\ run[e] = "check"
  /\ \/ PeerCount(e[1]) >= MaxPeers /\ Fail(e)
     \/ PeerCount(e[1]) < MaxPeers /\ Goto(e, "send") /\ UNCHANGED down
  /\ UNCHANGED <<setup, sent, reader, msg, bound, err, nodes, peerCount, loaded, pageVars>>

\* Our status is sent; RunTimeBound starts its goroutine and its timer.
SendStatus(e) ==
  /\ run[e] = "send"
  /\ \/ /\ Connected(e)
        /\ sent' = [sent EXCEPT ![e] = Append(@, Network[e[1]])]
        /\ reader' = [reader EXCEPT ![e] = "reading"]
        /\ Goto(e, "select") /\ UNCHANGED down
     \/ ~Connected(e) /\ Fail(e) /\ UNCHANGED <<sent, reader>>
  /\ UNCHANGED <<setup, msg, bound, err, nodes, peerCount, loaded, pageVars>>

\* msg, err = peer.ReadMsg()
ReadMsg(e) ==
  /\ reader[e] = "reading"
  /\ \/ /\ Connected(e) /\ sent[Other(e)] # <<>>
        /\ msg' = [msg EXCEPT ![e] = Head(sent[Other(e)])]
        /\ err' = [err EXCEPT ![e] = "nil"]
        /\ sent' = [sent EXCEPT ![Other(e)] = Tail(@)]
     \/ /\ ~Connected(e)
        /\ err' = [err EXCEPT ![e] = "closed"] /\ UNCHANGED <<msg, sent>>
  /\ reader' = [reader EXCEPT ![e] = "return"]
  /\ UNCHANGED <<setup, down, run, bound, nodes, peerCount, loaded, pageVars, overlap>>

\* return err; then err = method() in RunTimeBound.
ReaderReturns(e) ==
  /\ reader[e] = "return"
  /\ bound' = [bound EXCEPT ![e] = err[e]]
  /\ reader' = [reader EXCEPT ![e] = "done"]
  /\ UNCHANGED <<setup, down, sent, run, msg, err, nodes, peerCount, loaded, pageVars, overlap>>

\* case <- done: RunTimeBound returns what the goroutine has left.  After a
\* timeout nobody receives, and the goroutine stays at its send for good.
SelectDone(e) ==
  /\ run[e] = "select" /\ reader[e] = "done"
  /\ reader' = [reader EXCEPT ![e] = "gone"]
  /\ err' = [err EXCEPT ![e] = bound[e]]
  /\ Goto(e, "test")
  /\ UNCHANGED <<setup, down, sent, msg, bound, nodes, peerCount, loaded, pageVars>>

\* case <- wait.C; it may fire although done is ready.
SelectTimeout(e) ==
  /\ run[e] = "select" /\ e \in setup.slow
  /\ bound' = [bound EXCEPT ![e] = "timeout"]
  /\ Goto(e, "expired")
  /\ UNCHANGED <<setup, down, sent, reader, msg, err, nodes, peerCount, loaded, pageVars>>

\* return err of RunTimeBound, which the goroutine may have set meanwhile.
ReturnBound(e) ==
  /\ run[e] = "expired"
  /\ err' = [err EXCEPT ![e] = bound[e]]
  /\ Goto(e, "test")
  /\ UNCHANGED <<setup, down, sent, reader, msg, bound, nodes, peerCount, loaded, pageVars>>

\* Mutant of TestHandshake: the peer's status is not compared with ours.
TestErrOnly(e) ==
  /\ run[e] = "test"
  /\ \/ err[e] # "nil" /\ Fail(e)
     \/ err[e] = "nil" /\ Goto(e, "register") /\ UNCHANGED down
  /\ UNCHANGED <<setup, sent, reader, msg, bound, err, nodes, peerCount, loaded, pageVars>>

\* if err != nil, and the checks of the peer's status.
TestHandshake(e) ==
  /\ run[e] = "test"
  /\ \/ (err[e] # "nil" \/ msg[e] # Network[e[1]]) /\ Fail(e)
     \/ err[e] = "nil" /\ msg[e] = Network[e[1]] /\ Goto(e, "register") /\ UNCHANGED down
  /\ UNCHANGED <<setup, sent, reader, msg, bound, err, nodes, peerCount, loaded, pageVars>>

RegisterPeerNode(e) ==
  /\ run[e] = "register"
  /\ nodes' = nodes \cup {e}
  /\ Goto(e, "load")
  /\ UNCHANGED <<setup, down, sent, reader, msg, bound, err, peerCount, loaded, pageVars>>

\* Both accesses of peerCount++ and of peerCount--.
LoadCount(e) ==
  /\ run[e] \in {"load", "unload"}
  /\ loaded' = [loaded EXCEPT ![e] = peerCount[e[1]]]
  /\ Goto(e, IF run[e] = "load" THEN "store" ELSE "unstore")
  /\ UNCHANGED <<setup, down, sent, reader, msg, bound, err, nodes, peerCount, pageVars>>

\* Mutant of StoreCount: a peer that leaves is not counted off.
StoreCountUp(e) ==
  /\ run[e] \in {"store", "unstore"}
  /\ peerCount' = [peerCount EXCEPT ![e[1]] = IF run[e] = "store" THEN loaded[e] + 1 ELSE @]
  /\ Goto(e, IF run[e] = "store" THEN "listen" ELSE "left")
  /\ UNCHANGED <<setup, down, sent, reader, msg, bound, err, nodes, loaded, pageVars>>

StoreCount(e) ==
  /\ run[e] \in {"store", "unstore"}
  /\ peerCount' = [peerCount EXCEPT ![e[1]] =
                     IF run[e] = "store" THEN loaded[e] + 1 ELSE loaded[e] - 1]
  /\ Goto(e, IF run[e] = "store" THEN "listen" ELSE "left")
  /\ UNCHANGED <<setup, down, sent, reader, msg, bound, err, nodes, loaded, pageVars>>

\* ReadMsg of the listener fails; the deferred UnregisterPeer.
UnregisterPeer(e) ==
  /\ run[e] = "listen" /\ ~Connected(e) /\ page[e] = NoMsg
  /\ nodes' = nodes \ {e}
  /\ Goto(e, "unload")
  /\ UNCHANGED <<setup, down, sent, reader, msg, bound, err, peerCount, loaded, pageVars>>

Drop(l) ==
  /\ l \in setup.drops \ down
  /\ down' = down \cup {l}
  /\ UNCHANGED <<setup, sent, connVars, pageVars, overlap>>

-----------------------------------------------------------------------------
(* Pages *)

\* AddTx: a full set of known messages first loses three of them, any three.
AddTx(known, p) ==
  IF Cardinality(known) < MaxKnown THEN {known \cup {p}}
  ELSE {(known \ popped) \cup {p} :
          popped \in kSubset(IF Cardinality(known) < 3 THEN Cardinality(known) ELSE 3, known)}

\* The start of Broadcast: PeerNodesWithMsgNotSeen.
BeginBroadcast(g, n, p, known) ==
  LET peers == {e \in nodes : e[1] = n /\ p \notin known[e]}
  IN  /\ todo' = [todo EXCEPT ![g] = peers]
      /\ page' = [page EXCEPT ![g] = IF peers = {} THEN NoMsg ELSE p]

\* The application pages the network with a new message.
SendPage(n, p) ==
  /\ <<n, p>> \in setup.pages /\ origin[p] = NoMsg /\ page[n] = NoMsg
  /\ BeginBroadcast(n, n, p, knownTxs)
  /\ origin' = [origin EXCEPT ![p] = n]
  /\ since' = [since EXCEPT ![p] = {Link(e) : e \in {d \in nodes : Other(d) \in nodes}} \ down]
  /\ UNCHANGED <<setup, down, sent, connVars, knownTxs, myHistory, paged, crossed, overlap>>

\* Mutant of HandleBroadcast: HaveISeenIt does not remember.
HandleBroadcastAgain(e) ==
  /\ run[e] = "listen" /\ page[e] = NoMsg /\ Connected(e) /\ sent[Other(e)] # <<>>
  /\ LET p == Head(sent[Other(e)])
         n == e[1]
     IN  /\ sent' = [sent EXCEPT ![Other(e)] = Tail(@)]
         /\ \E known \in AddTx(knownTxs[e], p) : knownTxs' = [knownTxs EXCEPT ![e] = known]
         /\ paged' = [paged EXCEPT ![n] = Append(@, p)]
         /\ BeginBroadcast(e, n, p, knownTxs')
  /\ UNCHANGED <<setup, down, connVars, myHistory, crossed, origin, since, overlap>>

\* handleBroadcastMsg up to Broadcast: HaveISeenIt, and for a new message the
\* mark on its sender and the callback.
HandleBroadcast(e) ==
  /\ run[e] = "listen" /\ page[e] = NoMsg /\ Connected(e) /\ sent[Other(e)] # <<>>
  /\ LET p == Head(sent[Other(e)])
         n == e[1]
     IN  /\ sent' = [sent EXCEPT ![Other(e)] = Tail(@)]
         /\ \/ p \in myHistory[n] /\ UNCHANGED <<knownTxs, myHistory, paged, page, todo>>
            \/ /\ p \notin myHistory[n]
               /\ myHistory' = [myHistory EXCEPT ![n] = @ \cup {p}]
               /\ \E known \in AddTx(knownTxs[e], p) : knownTxs' = [knownTxs EXCEPT ![e] = known]
               /\ paged' = [paged EXCEPT ![n] = Append(@, p)]
               /\ BeginBroadcast(e, n, p, knownTxs')
  /\ UNCHANGED <<setup, down, connVars, crossed, origin, since, overlap>>

\* Mutant of Broadcast: a failing send ends the loop.
BroadcastStops(g) ==
  /\ page[g] # NoMsg
  /\ \E e \in todo[g] :
       /\ \E known \in AddTx(knownTxs[e], page[g]) : knownTxs' = [knownTxs EXCEPT ![e] = known]
       /\ sent' = IF Connected(e) THEN [sent EXCEPT ![e] = Append(@, page[g])] ELSE sent
       /\ crossed' = [crossed EXCEPT ![e] = Append(@, page[g])]
       /\ todo' = [todo EXCEPT ![g] = IF Connected(e) THEN @ \ {e} ELSE {}]
  /\ page' = [page EXCEPT ![g] = IF todo'[g] = {} THEN NoMsg ELSE @]
  /\ UNCHANGED <<setup, down, connVars, myHistory, paged, origin, since, overlap>>

\* One turn of the loop in Broadcast, over the peers found before, in any order.
\* A failing send is ignored.
Broadcast(g) ==
  /\ page[g] # NoMsg
  /\ \E e \in todo[g] :
       /\ \E known \in AddTx(knownTxs[e], page[g]) : knownTxs' = [knownTxs EXCEPT ![e] = known]
       /\ sent' = IF Connected(e) THEN [sent EXCEPT ![e] = Append(@, page[g])] ELSE sent
       /\ crossed' = [crossed EXCEPT ![e] = Append(@, page[g])]
       /\ todo' = [todo EXCEPT ![g] = @ \ {e}]
  /\ page' = [page EXCEPT ![g] = IF todo'[g] = {} THEN NoMsg ELSE @]
  /\ UNCHANGED <<setup, down, connVars, myHistory, paged, origin, since, overlap>>

-----------------------------------------------------------------------------

Connect(e) ==
  \/ CheckCapacity(e) \/ SendStatus(e) \/ ReadMsg(e) \/ ReaderReturns(e) \/ SelectDone(e)
  \/ SelectTimeout(e) \/ ReturnBound(e) \/ TestHandshake(e) \/ RegisterPeerNode(e)
  \/ LoadCount(e) \/ StoreCount(e) \/ UnregisterPeer(e)

Next ==
  \/ \E e \in Ends : Connect(e) \/ HandleBroadcast(e)
  \/ \E n \in Node, p \in Page : SendPage(n, p)
  \/ \E g \in Goroutine : Broadcast(g)
  \/ \E l \in {Link(e) : e \in Ends} : Drop(l)

Spec == Init /\ [][Next]_vars

-----------------------------------------------------------------------------
(* Properties *)

\* A peer is registered only when its own matching status has been read
\* (Handshake), also when the timer and the answer come together and the two
\* goroutines set err in any order; and the goroutine that read it takes no
\* message from the listener.
HandshakeSound ==
  \A e \in nodes : msg[e] = Network[e[1]] /\ reader[e] # "reading"

Quiet ==
  /\ \A g \in Goroutine : page[g] = NoMsg
  /\ \A e \in Ends : Connected(e) => sent[e] = <<>>

\* "forward to all other peers" (handleBroadcastMsg): when all is delivered, a
\* page is known at both sides of a connection that was there before it was sent
\* and still is, whatever connections broke on the way and whatever the sets of
\* known messages forgot.
PagesSpread ==
  Quiet => \A p \in Page : \A l \in since[p] \ down : \A n, m \in l :
             p \in myHistory[n] \/ origin[p] = n => p \in myHistory[m] \/ origin[p] = m

Count(list, p) == Cardinality({i \in DOMAIN list : list[i] = p})

\* "stop cyclic receive immediately" (Broadcast) and "first check if this is not
\* a resend" (handleBroadcastMsg): a node is paged at most once with a message,
\* and a message crosses a connection at most once in each direction, or twice
\* from the node that sent it first, which forwards it like any other node when
\* it comes back.
PagedOnce ==
  \A p \in Page :
    /\ \A n \in Node : Count(paged[n], p) <= 1
    /\ \A e \in Ends : Count(crossed[e], p) <= (IF origin[p] = e[1] THEN 2 ELSE 1)

\* "maximum number of peers to connect at any given time" (maxPeers): a node
\* has no more peers than that and counts them right, unless it made or ended
\* two connections at a time; then the look at the count comes before the other
\* connection is counted, or one update of the count is lost.
CapacityUnlessOverlap ==
  \A n \in Node \ overlap :
    /\ Cardinality({e \in nodes : e[1] = n}) <= MaxPeers
    /\ peerCount[n] = Cardinality({e \in Ends : e[1] = n /\ run[e] \in {"listen", "unload", "unstore"}})
==============================================================================

------------------------------- MODULE Client -------------------------------
(***************************************************************************)
(* The life of the handles a xk6-iroh Client caches -- its endpoint, its   *)
(* connection and its gossip topic -- and of the endpoint all clients of   *)
(* scope "shared" get from the RootModule (client.go, gossip.go,           *)
(* module.go).                                                             *)
(*                                                                         *)
(* Callers are goroutines inside a method of a client.  A method is cut at *)
(* every point where the code takes or drops a mutex or blocks in a call   *)
(* to the iroh implementation: what lies between two cuts under a mutex is *)
(* one action.  What a transfer then does with its connection, what a      *)
(* round does with its topic and what a snapshot reads are the subject of  *)
(* other modules: here they are the interval "use", during which the       *)
(* caller holds the handle and no mutex.                                   *)
(***************************************************************************)
CONSTANTS
  Clients,    \* Client objects made by the scripts of all VUs
  Callers,    \* goroutines calling methods of clients
  ClientOf,   \* the client each caller works on
  Script,     \* the kinds of methods each caller calls
  Config,     \* the validated Config of each client
  Endpoints,  \* identities of endpoints: bounds how often Bind succeeds
  Conns,      \* identities of connections: bounds how often Connect succeeds
  Topics,     \* identities of joined topics: bounds SubscribeAndJoin
  None        \* Go's nil

(* Dial, SendStreams, EchoDatagrams, FetchBlob and Request are a "transfer",
   MetricsSnapshot a "snapshot". *)
Ops == {"transfer", "gossip", "snapshot", "close"}

RelayModes == {"default", "disabled", "forced"}

ConfigType == [scope: {"vu", "shared"}, impl: {"go", "ffi"}, relay: RelayModes]

ASSUME ClientAssumption ==
  /\ ClientOf \in [Callers -> Clients]
  /\ Script \in [Callers -> SUBSET Ops]
  /\ Config \in [Clients -> ConfigType]
  /\ None \notin Clients \cup Callers \cup Endpoints \cup Conns \cup Topics
  /\ None \notin RelayModes

VARIABLES
  mu,            \* Client.mu: the caller holding it, or None
  endpoint,      \* Client.endpoint, the vu-scoped endpoint
  conn,          \* Client.conn
  topic,         \* Client.gossipTopic (with gossip and gossipEchoes)
  rootMu,        \* RootModule.mu
  rootEndpoint,  \* RootModule.endpoint
  rootOptsKey,   \* RootModule.epOptsKey
  epState,       \* state of each endpoint
  boundBy,       \* history: the client whose Bind made the endpoint
  connState,     \* state of each connection; Done is closed unless "live"
  connEp,        \* the endpoint the connection was dialled on
  topicState,    \* state of each topic subscription
  topicEp,       \* the endpoint the topic was joined on
  pump,          \* topics whose event-reading goroutine is running
  pc,            \* where each caller is
  op,            \* the method each caller is in
  heldEp, heldConn, heldTopic  \* the handles in each caller's local variables

clientVars == <<mu, endpoint, conn, topic>>
rootVars == <<rootMu, rootEndpoint, rootOptsKey>>
epVars == <<epState, boundBy>>
connVars == <<connState, connEp>>
topicVars == <<topicState, topicEp, pump>>
callVars == <<pc, op, heldEp, heldConn, heldTopic>>
vars == <<clientVars, rootVars, epVars, connVars, topicVars, callVars>>

PCs == {"idle", "lock", "endpoint", "rootbind", "dial", "subscribe",
        "handles", "use", "closeconn", "closetopic", "shutdown"}

-----------------------------------------------------------------------------
Init ==
  /\ mu = [c \in Clients |-> None]
  /\ endpoint = [c \in Clients |-> None]
  /\ conn = [c \in Clients |-> None]
  /\ topic = [c \in Clients |-> None]
  /\ rootMu = None /\ rootEndpoint = None /\ rootOptsKey = None
  /\ epState = [e \in Endpoints |-> "unused"]
  /\ boundBy = [e \in Endpoints |-> None]
  /\ connState = [k \in Conns |-> "unused"]
  /\ connEp = [k \in Conns |-> None]
  /\ topicState = [s \in Topics |-> "unused"]
  /\ topicEp = [s \in Topics |-> None]
  /\ pump = {}
  /\ pc = [t \in Callers |-> "idle"]
  /\ op = [t \in Callers |-> "transfer"]
  /\ heldEp = [t \in Callers |-> None]
  /\ heldConn = [t \in Callers |-> None]
  /\ heldTopic = [t \in Callers |-> None]

(* The endpoint-affecting part of a configuration.  optsKey joins the relay
   mode and URL; with one relay URL the mode alone tells keys apart. *)
optsKey(c) == Config[c].relay

(* ffi refuses relayMode "forced": it cannot turn direct transports off. *)
Bindable(c) == ~(Config[c].impl = "ffi" /\ Config[c].relay = "forced")

(* Capabilities().Gossip, and equally the implementations whose endpoint has
   the endpoint() method goEndpointFor asks for. *)
GossipImpls == {"go"}

Goto(t, l) == pc' = [pc EXCEPT ![t] = l]

Return(t) ==
  /\ Goto(t, "idle")
  /\ heldEp' = [heldEp EXCEPT ![t] = None]
  /\ heldConn' = [heldConn EXCEPT ![t] = None]
  /\ heldTopic' = [heldTopic EXCEPT ![t] = None]
  /\ UNCHANGED op

(* Mutant: connect and joinGossip forget c.mu.Lock. *)
LockForgotten(t) == UNCHANGED mu

Lock(t) == mu' = [mu EXCEPT ![ClientOf[t]] = t]

(* The deferred c.mu.Unlock, a no-op for a snapshot, which does not hold it. *)
Unlock(t) == mu' = [mu EXCEPT ![ClientOf[t]] = IF @ = t THEN None ELSE @]

Free(t) == mu[ClientOf[t]] = None

Shared(t) == Config[ClientOf[t]].scope = "shared"

-----------------------------------------------------------------------------
(* The script calls a method. *)
Call(t, o) ==
  /\ pc[t] = "idle"
  /\ o \in Script[t]
  /\ Goto(t, "lock")
  /\ op' = [op EXCEPT ![t] = o]
  /\ UNCHANGED <<clientVars, rootVars, epVars, connVars, topicVars,
                 heldEp, heldConn, heldTopic>>

Entering(t, o) == pc[t] = "lock" /\ op[t] = o /\ Free(t)

(* connect: the cached connection is returned unless its Done is closed. *)
ConnAlive(c) == conn[c] # None /\ connState[conn[c]] = "live"

ConnectCached(t) ==
  /\ Entering(t, "transfer")
  /\ ConnAlive(ClientOf[t])
  /\ Goto(t, "use")
  /\ heldConn' = [heldConn EXCEPT ![t] = conn[ClientOf[t]]]
  /\ UNCHANGED <<clientVars, rootVars, epVars, connVars, topicVars,
                 op, heldEp, heldTopic>>

ConnectMiss(t) ==
  /\ Entering(t, "transfer")
  /\ ~ConnAlive(ClientOf[t])
  /\ Lock(t)
  /\ conn' = [conn EXCEPT ![ClientOf[t]] = None]
  /\ Goto(t, "endpoint")
  /\ UNCHANGED <<endpoint, topic, rootVars, epVars, connVars, topicVars,
                 op, heldEp, heldConn, heldTopic>>

(* joinGossip: a joined topic is kept whatever name the caller passed. *)
JoinCached(t) ==
  /\ Entering(t, "gossip")
  /\ topic[ClientOf[t]] # None
  /\ Goto(t, "handles")
  /\ UNCHANGED <<clientVars, rootVars, epVars, connVars, topicVars,
                 op, heldEp, heldConn, heldTopic>>

JoinUnsupported(t) ==
  /\ Entering(t, "gossip")
  /\ topic[ClientOf[t]] = None
  /\ Config[ClientOf[t]].impl \notin GossipImpls
  /\ Return(t)
  /\ UNCHANGED <<clientVars, rootVars, epVars, connVars, topicVars>>

JoinMiss(t) ==
  /\ Entering(t, "gossip")
  /\ topic[ClientOf[t]] = None
  /\ Config[ClientOf[t]].impl \in GossipImpls
  /\ Lock(t)
  /\ Goto(t, "endpoint")
  /\ UNCHANGED <<endpoint, conn, topic, rootVars, epVars, connVars, topicVars,
                 op, heldEp, heldConn, heldTopic>>

(* MetricsSnapshot: a vu-scoped client only copies the handle under the
   mutex; a shared one goes to the root, without the mutex. *)
SnapshotUnbound(t) ==
  /\ Entering(t, "snapshot")
  /\ ~Shared(t)
  /\ endpoint[ClientOf[t]] = None
  /\ Return(t)
  /\ UNCHANGED <<clientVars, rootVars, epVars, connVars, topicVars>>

SnapshotOwn(t) ==
  /\ Entering(t, "snapshot")
  /\ ~Shared(t)
  /\ endpoint[ClientOf[t]] # None
  /\ Goto(t, "use")
  /\ heldEp' = [heldEp EXCEPT ![t] = endpoint[ClientOf[t]]]
  /\ UNCHANGED <<clientVars, rootVars, epVars, connVars, topicVars,
                 op, heldConn, heldTopic>>

SnapshotShared(t) ==
  /\ Entering(t, "snapshot")
  /\ Shared(t)
  /\ Goto(t, "endpoint")
  /\ UNCHANGED <<clientVars, rootVars, epVars, connVars, topicVars,
                 op, heldEp, heldConn, heldTopic>>

-----------------------------------------------------------------------------
(* endpointFor *)

AfterEndpoint(t) == IF op[t] = "transfer" THEN "dial"
                    ELSE IF op[t] = "gossip" THEN "subscribe" ELSE "use"

GotEndpoint(t, e) ==
  /\ Goto(t, AfterEndpoint(t))
  /\ heldEp' = [heldEp EXCEPT ![t] = e]
  /\ UNCHANGED <<op, heldConn, heldTopic>>

Bind(t, e) ==
  /\ epState[e] = "unused"
  /\ Bindable(ClientOf[t])
  /\ epState' = [epState EXCEPT ![e] = "open"]
  /\ boundBy' = [boundBy EXCEPT ![e] = ClientOf[t]]

OwnCached(t) ==
  /\ pc[t] = "endpoint"
  /\ ~Shared(t)
  /\ endpoint[ClientOf[t]] # None
  /\ GotEndpoint(t, endpoint[ClientOf[t]])
  /\ UNCHANGED <<clientVars, rootVars, epVars, connVars, topicVars>>

OwnBind(t, e) ==
  /\ pc[t] = "endpoint"
  /\ ~Shared(t)
  /\ endpoint[ClientOf[t]] = None
  /\ Bind(t, e)
  /\ endpoint' = [endpoint EXCEPT ![ClientOf[t]] = e]
  /\ GotEndpoint(t, e)
  /\ UNCHANGED <<mu, conn, topic, rootVars, connVars, topicVars>>

OwnBindFails(t) ==
  /\ pc[t] = "endpoint"
  /\ ~Shared(t)
  /\ endpoint[ClientOf[t]] = None
  /\ Unlock(t)
  /\ Return(t)
  /\ UNCHANGED <<endpoint, conn, topic, rootVars, epVars, connVars, topicVars>>

(* sharedEndpoint: a bound endpoint is handed to callers whose options match
   those it was bound with and refused to the others. *)
(* Mutant: the options of the caller are not compared. *)
AnyOptions(t) == TRUE

SameOptions(t) == rootOptsKey = optsKey(ClientOf[t])

SharedCached(t) ==
  /\ pc[t] = "endpoint"
  /\ Shared(t)
  /\ rootMu = None
  /\ rootEndpoint # None
  /\ SameOptions(t)
  /\ GotEndpoint(t, rootEndpoint)
  /\ UNCHANGED <<clientVars, rootVars, epVars, connVars, topicVars>>

SharedMismatch(t) ==
  /\ pc[t] = "endpoint"
  /\ Shared(t)
  /\ rootMu = None
  /\ rootEndpoint # None
  /\ ~SameOptions(t)
  /\ Unlock(t)
  /\ Return(t)
  /\ UNCHANGED <<endpoint, conn, topic, rootVars, epVars, connVars, topicVars>>

(* Mutant: the bind runs without root.mu. *)
LockRootForgotten(t) == UNCHANGED rootMu

LockRoot(t) == rootMu' = t

SharedMiss(t) ==
  /\ pc[t] = "endpoint"
  /\ Shared(t)
  /\ rootMu = None
  /\ rootEndpoint = None
  /\ LockRoot(t)
  /\ Goto(t, "rootbind")
  /\ UNCHANGED <<clientVars, rootEndpoint, rootOptsKey, epVars, connVars,
                 topicVars, op, heldEp, heldConn, heldTopic>>

RecordKey(t) == rootOptsKey' = optsKey(ClientOf[t])

(* Mutant: root.mu stays locked. *)
UnlockRootForgotten == UNCHANGED rootMu

UnlockRoot == rootMu' = None

SharedBind(t, e) ==
  /\ pc[t] = "rootbind"
  /\ Bind(t, e)
  /\ rootEndpoint' = e
  /\ RecordKey(t)
  /\ UnlockRoot
  /\ GotEndpoint(t, e)
  /\ UNCHANGED <<clientVars, connVars, topicVars>>

SharedBindFails(t) ==
  /\ pc[t] = "rootbind"
  /\ UnlockRoot
  /\ Unlock(t)
  /\ Return(t)
  /\ UNCHANGED <<endpoint, conn, topic, rootEndpoint, rootOptsKey, epVars,
                 connVars, topicVars>>

-----------------------------------------------------------------------------
(* The rest of connect: the dial on the endpoint found, under the mutex. *)
Dial(t, k) ==
  /\ pc[t] = "dial"
  /\ connState[k] = "unused"
  /\ epState[heldEp[t]] = "open"
  /\ connState' = [connState EXCEPT ![k] = "live"]
  /\ connEp' = [connEp EXCEPT ![k] = heldEp[t]]
  /\ conn' = [conn EXCEPT ![ClientOf[t]] = k]
  /\ Unlock(t)
  /\ Goto(t, "use")
  /\ heldConn' = [heldConn EXCEPT ![t] = k]
  /\ UNCHANGED <<endpoint, topic, rootVars, epVars, topicVars,
                 op, heldEp, heldTopic>>

DialFails(t) ==
  /\ pc[t] = "dial"
  /\ Unlock(t)
  /\ Return(t)
  /\ UNCHANGED <<endpoint, conn, topic, rootVars, epVars, connVars, topicVars>>

(* The rest of joinGossip: subscribe, cache the topic, start its pump.  It
   fails on an endpoint of another implementation (goEndpointFor). *)
Subscribe(t, s) ==
  /\ pc[t] = "subscribe"
  /\ topicState[s] = "unused"
  /\ epState[heldEp[t]] = "open"
  /\ Config[boundBy[heldEp[t]]].impl \in GossipImpls
  /\ topicState' = [topicState EXCEPT ![s] = "joined"]
  /\ topicEp' = [topicEp EXCEPT ![s] = heldEp[t]]
  /\ pump' = pump \cup {s}
  /\ topic' = [topic EXCEPT ![ClientOf[t]] = s]
  /\ Unlock(t)
  /\ Goto(t, "handles")
  /\ UNCHANGED <<endpoint, conn, rootVars, epVars, connVars,
                 op, heldEp, heldConn, heldTopic>>

SubscribeFails(t) ==
  /\ pc[t] = "subscribe"
  /\ Unlock(t)
  /\ Return(t)
  /\ UNCHANGED <<endpoint, conn, topic, rootVars, epVars, connVars, topicVars>>

(* Mutant: the topic field is used as it was at the join, unchecked. *)
StillJoinedAssumed(t) == TRUE

(* gossipHandles: the topic is taken again under the mutex, since a Close may
   have come between the join and the round. *)
StillJoined(t) == topic[ClientOf[t]] # None

HandlesClosed(t) ==
  /\ pc[t] = "handles"
  /\ Free(t)
  /\ ~StillJoined(t)
  /\ Return(t)
  /\ UNCHANGED <<clientVars, rootVars, epVars, connVars, topicVars>>

Handles(t) ==
  /\ pc[t] = "handles"
  /\ Free(t)
  /\ StillJoined(t)
  /\ Goto(t, "use")
  /\ heldTopic' = [heldTopic EXCEPT ![t] = topic[ClientOf[t]]]
  /\ UNCHANGED <<clientVars, rootVars, epVars, connVars, topicVars,
                 op, heldEp, heldConn>>

(* The transfer, the round or the snapshot ends, in success or in error. *)
Finish(t) ==
  /\ pc[t] = "use"
  /\ Return(t)
  /\ UNCHANGED <<clientVars, rootVars, epVars, connVars, topicVars>>

-----------------------------------------------------------------------------
(* Mutant: Close forgets to forget the endpoint it is about to shut down, ... *)
ForgetNoEndpoint(c) ==
  /\ conn' = [conn EXCEPT ![c] = None]
  /\ topic' = [topic EXCEPT ![c] = None]
  /\ UNCHANGED endpoint

(* Mutant: ... or the connection it is about to close. *)
ForgetNoConn(c) ==
  /\ endpoint' = [endpoint EXCEPT ![c] = None]
  /\ topic' = [topic EXCEPT ![c] = None]
  /\ UNCHANGED conn

Forget(c) ==
  /\ conn' = [conn EXCEPT ![c] = None]
  /\ endpoint' = [endpoint EXCEPT ![c] = None]
  /\ topic' = [topic EXCEPT ![c] = None]

(* Mutant: a Close that also takes down the endpoint of the other VUs. *)
AnyEndpoint(t) == IF Shared(t) THEN rootEndpoint ELSE endpoint[ClientOf[t]]

OwnEndpoint(t) == endpoint[ClientOf[t]]

(* Close: the handles are taken under the mutex and torn down without it. *)
CloseTake(t) ==
  /\ Entering(t, "close")
  /\ heldConn' = [heldConn EXCEPT ![t] = conn[ClientOf[t]]]
  /\ heldEp' = [heldEp EXCEPT ![t] = OwnEndpoint(t)]
  /\ heldTopic' = [heldTopic EXCEPT ![t] = topic[ClientOf[t]]]
  /\ Forget(ClientOf[t])
  /\ Goto(t, "closeconn")
  /\ UNCHANGED <<mu, rootVars, epVars, connVars, topicVars, op>>

CloseConn(t) ==
  /\ pc[t] = "closeconn"
  /\ connState' = [k \in Conns |->
                     IF k = heldConn[t] THEN "closed" ELSE connState[k]]
  /\ heldConn' = [heldConn EXCEPT ![t] = None]
  /\ Goto(t, "closetopic")
  /\ UNCHANGED <<clientVars, rootVars, epVars, connEp, topicVars,
                 op, heldEp, heldTopic>>

(* Mutant: Close drops the topic without closing it. *)
EndTopicForgotten(t) == UNCHANGED topicState

EndTopic(t) ==
  topicState' = [s \in Topics |->
                   IF s = heldTopic[t] THEN "closed" ELSE topicState[s]]

CloseTopic(t) ==
  /\ pc[t] = "closetopic"
  /\ EndTopic(t)
  /\ heldTopic' = [heldTopic EXCEPT ![t] = None]
  /\ Goto(t, "shutdown")
  /\ UNCHANGED <<clientVars, rootVars, epVars, connVars, topicEp, pump,
                 op, heldEp, heldConn>>

(* Shutdown takes its connections down; past its five seconds Close reports
   an error and the endpoint is abandoned in whatever state it is. *)
CloseShutdown(t) ==
  /\ pc[t] = "shutdown"
  /\ \E s \in {"shutdown", "abandoned"} :
       epState' = [e \in Endpoints |-> IF e = heldEp[t] THEN s ELSE epState[e]]
  /\ connState' = [k \in Conns |->
                     IF /\ connState[k] = "live"
                        /\ connEp[k] = heldEp[t]
                     THEN "dead" ELSE connState[k]]
  /\ Return(t)
  /\ UNCHANGED <<clientVars, rootVars, boundBy, connEp, topicVars>>

-----------------------------------------------------------------------------
(* The peer or the network ends a connection: its Done channel is closed. *)
ConnDies(k) ==
  /\ connState[k] = "live"
  /\ connState' = [connState EXCEPT ![k] = "dead"]
  /\ UNCHANGED <<clientVars, rootVars, epVars, connEp, topicVars, callVars>>

(* The pump returns: Events ended because the topic was closed, ... *)
PumpReturns(s) ==
  /\ s \in pump
  /\ topicState[s] = "closed"
  /\ pump' = pump \ {s}
  /\ UNCHANGED <<clientVars, rootVars, epVars, connVars, topicState, topicEp,
                 callVars>>

(* ... or because it yielded an error; the client keeps the dead topic. *)
TopicFails(s) ==
  /\ s \in pump
  /\ topicState[s] = "joined"
  /\ pump' = pump \ {s}
  /\ UNCHANGED <<clientVars, rootVars, epVars, connVars, topicState, topicEp,
                 callVars>>

-----------------------------------------------------------------------------
ConnectStep(t) ==
  \/ ConnectCached(t) \/ ConnectMiss(t)
  \/ \E k \in Conns : Dial(t, k)
  \/ DialFails(t)

GossipStep(t) ==
  \/ JoinCached(t) \/ JoinUnsupported(t) \/ JoinMiss(t)
  \/ \E s \in Topics : Subscribe(t, s)
  \/ SubscribeFails(t) \/ HandlesClosed(t) \/ Handles(t)

EndpointStep(t) ==
  \/ OwnCached(t)
  \/ \E e \in Endpoints : OwnBind(t, e)
  \/ OwnBindFails(t)
  \/ SharedCached(t) \/ SharedMismatch(t) \/ SharedMiss(t)
  \/ \E e \in Endpoints : SharedBind(t, e)
  \/ SharedBindFails(t)

SnapshotStep(t) == SnapshotUnbound(t) \/ SnapshotOwn(t) \/ SnapshotShared(t)

CloseStep(t) ==
  CloseTake(t) \/ CloseConn(t) \/ CloseTopic(t) \/ CloseShutdown(t)

CallerStep(t) ==
  \/ ConnectStep(t) \/ GossipStep(t) \/ EndpointStep(t)
  \/ SnapshotStep(t) \/ CloseStep(t) \/ Finish(t)

Next ==
  \/ \E t \in Callers : CallerStep(t) \/ \E o \in Ops : Call(t, o)
  \/ \E k \in Conns : ConnDies(k)
  \/ \E s \in Topics : PumpReturns(s) \/ TopicFails(s)

Spec == Init /\ [][Next]_vars

(* The implementation behind a handle is that of the client that bound its
   endpoint, which for a shared endpoint need not be the caller's own. *)
ImplOf(e) == Config[boundBy[e]].impl

OnFFI(t) ==
  \/ heldEp[t] # None /\ ImplOf(heldEp[t]) = "ffi"
  \/ heldConn[t] # None /\ ImplOf(connEp[heldConn[t]]) = "ffi"

(* A call that nothing bounds: the bind of the shared endpoint, whose context
   is context.WithoutCancel (module.go:164), and every call on the ffi
   implementation, which takes no context and may park for ever
   (ffi/README.md:54, 64-80). *)
Unbounded(t) ==
  \/ pc[t] = "rootbind"
  \/ /\ pc[t] = "endpoint" /\ ~Shared(t)
     /\ Config[ClientOf[t]].impl = "ffi"
  \/ pc[t] \in {"dial", "use", "closeconn", "shutdown"} /\ OnFFI(t)

(* The other calls return: on the pure-Go implementation each is given a
   deadline or the VU's context.  Go's mutexes hand over to a waiter within a
   millisecond, hence strong fairness where a mutex is awaited.  A call that
   nothing bounds may hang; scripts owe no calls, the network no failure. *)
Fairness ==
  /\ \A t \in Callers : SF_vars(~Unbounded(t) /\ CallerStep(t))
  /\ \A s \in Topics : WF_vars(PumpReturns(s))

FairSpec == Spec /\ Fairness
-----------------------------------------------------------------------------
(* The endpoint a client's next workload would run on. *)
EndpointOf(c) ==
  IF Config[c].scope = "shared" THEN rootEndpoint ELSE endpoint[c]

Closing(t) == pc[t] \in {"closeconn", "closetopic", "shutdown"}

(* Every variable has its type, and the root's key and endpoint are set
   together (module.go:169). *)
TypeOK ==
  /\ mu \in [Clients -> Callers \cup {None}]
  /\ endpoint \in [Clients -> Endpoints \cup {None}]
  /\ conn \in [Clients -> Conns \cup {None}]
  /\ topic \in [Clients -> Topics \cup {None}]
  /\ rootMu \in Callers \cup {None}
  /\ rootEndpoint \in Endpoints \cup {None}
  /\ rootOptsKey \in RelayModes \cup {None}
  /\ rootEndpoint = None <=> rootOptsKey = None
  /\ epState \in [Endpoints -> {"unused", "open", "shutdown", "abandoned"}]
  /\ boundBy \in [Endpoints -> Clients \cup {None}]
  /\ connState \in [Conns -> {"unused", "live", "dead", "closed"}]
  /\ connEp \in [Conns -> Endpoints \cup {None}]
  /\ topicState \in [Topics -> {"unused", "joined", "closed"}]
  /\ topicEp \in [Topics -> Endpoints \cup {None}]
  /\ pump \in SUBSET Topics
  /\ pc \in [Callers -> PCs]
  /\ op \in [Callers -> Ops]
  /\ heldEp \in [Callers -> Endpoints \cup {None}]
  /\ heldConn \in [Callers -> Conns \cup {None}]
  /\ heldTopic \in [Callers -> Topics \cup {None}]

(* No workload runs on a nil handle, whatever Close does between the calls
   that fetch the handle (gossip.go:86-94: a Close on another goroutine must
   not end in a nil dereference). *)
NoNilHandle ==
  \A t \in Callers : pc[t] = "use" =>
    /\ op[t] = "transfer" => heldConn[t] # None
    /\ op[t] = "gossip" => heldTopic[t] # None
    /\ op[t] = "snapshot" => heldEp[t] # None

(* connect and joinGossip dial on the client's current endpoint, and no Close
   shuts that endpoint down while the dial is under way. *)
DialsOnOpenEndpoint ==
  \A t \in Callers : pc[t] \in {"dial", "subscribe"} =>
    /\ heldEp[t] = EndpointOf(ClientOf[t])
    /\ heldEp[t] # None
    /\ epState[heldEp[t]] = "open"

(* The cached connection and topic run on the endpoint whose counters
   MetricsSnapshot would read now: a snapshot accounts for the traffic of the
   transfers of the same client, across any number of closes and rebinds. *)
HandlesAgree ==
  \A c \in Clients :
    /\ conn[c] # None => connEp[conn[c]] = EndpointOf(c)
    /\ topic[c] # None => topicEp[topic[c]] = EndpointOf(c)

(* Close takes the handles out of the client before it tears them down, so
   that nobody is handed a connection or an endpoint that Close has ended, and
   no two Closes end the same one. *)
ExclusiveTeardown ==
  /\ \A c \in Clients :
       /\ endpoint[c] # None => epState[endpoint[c]] = "open"
       /\ conn[c] # None => connState[conn[c]] # "closed"
       /\ topic[c] # None => topicState[topic[c]] = "joined"
  /\ \A t, u \in Callers : t # u /\ Closing(t) /\ Closing(u) =>
       /\ heldEp[t] # None => heldEp[t] # heldEp[u]
       /\ heldConn[t] # None => heldConn[t] # heldConn[u]
       /\ heldTopic[t] # None => heldTopic[t] # heldTopic[u]

(* Nothing is leaked: an open endpoint, a live connection and a running pump
   on a topic not yet closed are each cached, where a Close can find them, or
   in the hands of a Close that has yet to end them. *)
EndpointOwned ==
  \A e \in Endpoints : epState[e] = "open" =>
    \/ e = rootEndpoint
    \/ \E c \in Clients : endpoint[c] = e
    \/ \E t \in Callers : Closing(t) /\ heldEp[t] = e

ConnOwned ==
  \A k \in Conns : connState[k] = "live" =>
    \/ \E c \in Clients : conn[c] = k
    \/ \E t \in Callers : Closing(t) /\ heldConn[t] = k

PumpOwned ==
  \A s \in pump : topicState[s] = "joined" =>
    \/ \E c \in Clients : topic[c] = s
    \/ \E t \in Callers : Closing(t) /\ heldTopic[t] = s

NoOrphans == EndpointOwned /\ ConnOwned /\ PumpOwned

(* The shared endpoint is open from its bind on: no client's Close, and no
   failed call, ends it for the other VUs (client.go:602-603). *)
SharedStaysOpen == rootEndpoint # None => epState[rootEndpoint] = "open"

(* A client whose workload starts runs it on an endpoint bound with its own
   relay options, never on a "silently wrong endpoint" (module.go:150-153);
   a forced relay was bound by an implementation that can force it. *)
OptionsHonoured ==
  \A t \in Callers : pc[t] \in {"dial", "subscribe"} =>
    LET b == boundBy[heldEp[t]] IN
      /\ b # None
      /\ Config[b].relay = Config[ClientOf[t]].relay
      /\ Bindable(b)

(* The shared endpoint is what SharedCell promises: bound at most once with
   the options of its first caller, and given unchanged to the callers whose
   options are the same and to no other (module.go:150-158). *)
SharedCallers == {t \in Callers : Shared(t)}

Root == INSTANCE SharedCell WITH
          Users <- SharedCallers,
          Values <- Endpoints,
          Key <- [t \in SharedCallers |-> optsKey(ClientOf[t])],
          Empty <- None,
          cell <- rootEndpoint,
          key <- rootOptsKey,
          got <- [t \in SharedCallers |-> heldEp[t]]

ImplementsSharedCell == Root!CellSpec

(* The holder of the mutex a caller waits for. *)
AwaitedBy(t) ==
  IF pc[t] \in {"lock", "handles"} THEN mu[ClientOf[t]]
  ELSE IF pc[t] = "endpoint" /\ Shared(t) THEN rootMu ELSE None

(* The caller, the holder of the mutex it waits for, or the holder of the one
   that holder waits for, is in a call that nothing bounds. *)
HeldUp(t) ==
  LET u == AwaitedBy(t) IN
    \/ Unbounded(t)
    \/ u # None /\ Unbounded(u)
    \/ u # None /\ AwaitedBy(u) # None /\ Unbounded(AwaitedBy(u))

(* Every call returns unless it is held up for ever by a call that nothing
   bounds: callers of one client and of several, contending for c.mu and
   root.mu, never wait for each other in a circle, and no path, failures
   included, leaves either locked. *)
CallsReturn ==
  \A t \in Callers :
    []<>~HeldUp(t) => (pc[t] # "idle" ~> pc[t] = "idle")

(* The goroutine of a topic that Close takes ends, even when the endpoint is
   shared and stays open (client.go:610-613). *)
ClosedPumpEnds ==
  \A s \in Topics :
    (\E t \in Callers : Closing(t) /\ heldTopic[t] = s) ~> s \notin pump

(* What the documentation says of impl: it selects the implementation a client
   runs on.  The code hands a shared client whatever implementation bound the
   shared endpoint first, since optsKey does not cover it. *)
EndpointOfOwnImpl ==
  \A t \in Callers : pc[t] = "dial" =>
    Config[boundBy[heldEp[t]]].impl = Config[ClientOf[t]].impl
=============================================================================

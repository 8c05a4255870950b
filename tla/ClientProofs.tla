--------------------------- MODULE ClientProofs ---------------------------
(***************************************************************************)
(* Proofs about Client for every number of clients, callers, endpoints,    *)
(* connections and topics, and every configuration.                        *)
(*                                                                         *)
(* The inductive invariant says who may hold what: the mutexes follow the  *)
(* program counters, and every endpoint, connection and topic in a cache   *)
(* or in the hands of a Close is usable and in no second place.            *)
(***************************************************************************)
EXTENDS Client, TLAPS

(* Between taking and releasing Client.mu. *)
Locking(t) ==
  \/ pc[t] \in {"dial", "subscribe"}
  \/ pc[t] \in {"endpoint", "rootbind"} /\ op[t] # "snapshot"

LockInv ==
  /\ \A c \in Clients, t \in Callers :
       mu[c] = t <=> ClientOf[t] = c /\ Locking(t)
  /\ \A t \in Callers : rootMu = t <=> pc[t] = "rootbind"
  /\ rootMu # None => rootEndpoint = None

(* Which method can be where, and what a miss in the cache established. *)
CtrlInv ==
  \A t \in Callers :
    /\ pc[t] = "dial" => op[t] = "transfer"
    /\ pc[t] \in {"subscribe", "handles"} => op[t] = "gossip"
    /\ pc[t] \in {"endpoint", "rootbind", "use"} => op[t] # "close"
    /\ pc[t] = "rootbind" => Shared(t)
    /\ pc[t] = "endpoint" /\ op[t] = "snapshot" => Shared(t)

MissInv ==
  \A t \in Callers : Locking(t) =>
    /\ op[t] = "transfer" => conn[ClientOf[t]] = None
    /\ op[t] = "gossip" => topic[ClientOf[t]] = None

(* A shared endpoint in a caller's hands was bound with the caller's key. *)
KeyInv ==
  \A t \in Callers : pc[t] \in {"dial", "subscribe"} /\ Shared(t) =>
    rootEndpoint # None /\ rootOptsKey = optsKey(ClientOf[t])

(* Endpoints: the caches and the closers own theirs exclusively, and open. *)
EpInv ==
  /\ \A c \in Clients : Config[c].scope = "shared" => endpoint[c] = None
  /\ rootEndpoint # None => epState[rootEndpoint] = "open"
  /\ \A c \in Clients : endpoint[c] # None =>
       /\ epState[endpoint[c]] = "open"
       /\ endpoint[c] # rootEndpoint
       /\ \A d \in Clients \ {c} : endpoint[d] # endpoint[c]
  /\ \A t \in Callers : Closing(t) /\ heldEp[t] # None =>
       /\ ~Shared(t)
       /\ epState[heldEp[t]] = "open"
       /\ heldEp[t] # rootEndpoint
       /\ \A c \in Clients : endpoint[c] # heldEp[t]
       /\ \A u \in Callers \ {t} : Closing(u) => heldEp[u] # heldEp[t]

DialInv ==
  \A t \in Callers : pc[t] \in {"dial", "subscribe"} =>
    /\ heldEp[t] # None
    /\ heldEp[t] = EndpointOf(ClientOf[t])

BoundInv ==
  /\ rootEndpoint # None =>
       /\ boundBy[rootEndpoint] # None
       /\ Config[boundBy[rootEndpoint]].relay = rootOptsKey
       /\ Bindable(boundBy[rootEndpoint])
  /\ \A c \in Clients : endpoint[c] # None =>
       boundBy[endpoint[c]] = c /\ Bindable(c)

(* Connections and topics, as endpoints; and they run on the endpoint of the
   client that caches them. *)
ConnInv ==
  /\ \A c \in Clients : conn[c] # None =>
       /\ connState[conn[c]] \in {"live", "dead"}
       /\ connEp[conn[c]] # None
       /\ connEp[conn[c]] = EndpointOf(c)
       /\ \A d \in Clients \ {c} : conn[d] # conn[c]
  /\ \A t \in Callers : Closing(t) /\ heldConn[t] # None =>
       /\ pc[t] = "closeconn"
       /\ connState[heldConn[t]] \in {"live", "dead"}
       /\ \A c \in Clients : conn[c] # heldConn[t]
       /\ \A u \in Callers \ {t} : Closing(u) => heldConn[u] # heldConn[t]

TopicInv ==
  /\ \A c \in Clients : topic[c] # None =>
       /\ topicState[topic[c]] = "joined"
       /\ topicEp[topic[c]] # None
       /\ topicEp[topic[c]] = EndpointOf(c)
       /\ \A d \in Clients \ {c} : topic[d] # topic[c]
  /\ \A t \in Callers : Closing(t) /\ heldTopic[t] # None =>
       /\ pc[t] # "shutdown"
       /\ topicState[heldTopic[t]] = "joined"
       /\ \A c \in Clients : topic[c] # heldTopic[t]
       /\ \A u \in Callers \ {t} : Closing(u) => heldTopic[u] # heldTopic[t]

(* The parts of the inductive invariant, in the order their proofs build on
   one another. *)
ControlInv == LockInv /\ CtrlInv /\ MissInv /\ NoNilHandle
WorkloadInv == KeyInv /\ DialInv /\ BoundInv

IInv ==
  /\ TypeOK /\ ControlInv /\ EpInv /\ WorkloadInv
  /\ ConnInv /\ TopicInv /\ NoOrphans

(* What most steps leave alone: the caches, the resources, and what the Closes
   under way have in hand. *)
Quiet ==
  /\ UNCHANGED <<endpoint, conn, topic, rootEndpoint, epState, connState,
                 connEp, topicState, topicEp, pump>>
  /\ \A u \in Callers :
       /\ Closing(u)' <=> Closing(u)
       /\ Closing(u) =>
            /\ pc'[u] = pc[u]
            /\ heldEp'[u] = heldEp[u]
            /\ heldConn'[u] = heldConn[u]
            /\ heldTopic'[u] = heldTopic[u]

QuietStep(t) ==
  \/ \E o \in Ops : Call(t, o)
  \/ ConnectCached(t) \/ DialFails(t)
  \/ JoinCached(t) \/ JoinUnsupported(t) \/ JoinMiss(t) \/ SubscribeFails(t)
  \/ HandlesClosed(t) \/ Handles(t) \/ Finish(t)
  \/ SnapshotUnbound(t) \/ SnapshotOwn(t) \/ SnapshotShared(t)
  \/ OwnCached(t) \/ OwnBindFails(t) \/ SharedCached(t)
  \/ SharedMismatch(t) \/ SharedMiss(t) \/ SharedBindFails(t)

(* Types, and the root's key set with its endpoint. *)
LEMMA TypePreserved ==
  ASSUME TypeOK, [Next]_vars
  PROVE  TypeOK'
<1> USE ClientAssumption DEF TypeOK, ConfigType, RelayModes, optsKey, PCs,
      Ops, clientVars, rootVars, epVars, connVars, topicVars, callVars
<1>1. ASSUME NEW t \in Callers, NEW o \in Ops, Call(t, o) PROVE TypeOK'
  BY <1>1 DEF Call, Goto
<1>2. ASSUME NEW t \in Callers, ConnectCached(t) PROVE TypeOK'
  BY <1>2 DEF ConnectCached, Entering, ConnAlive, Goto, Free
<1>3. ASSUME NEW t \in Callers, ConnectMiss(t) PROVE TypeOK'
  BY <1>3 DEF ConnectMiss, Entering, ConnAlive, Goto, Lock, Free
<1>4. ASSUME NEW t \in Callers, NEW k \in Conns, Dial(t, k) PROVE TypeOK'
  BY <1>4 DEF Dial, Goto, Unlock
<1>5. ASSUME NEW t \in Callers, DialFails(t) PROVE TypeOK'
  BY <1>5 DEF DialFails, Return, Goto, Unlock
<1>6. ASSUME NEW t \in Callers, JoinCached(t) PROVE TypeOK'
  BY <1>6 DEF JoinCached, Entering, Free, Goto
<1>7. ASSUME NEW t \in Callers, JoinUnsupported(t) PROVE TypeOK'
  BY <1>7 DEF JoinUnsupported, Entering, Free, Return, Goto
<1>8. ASSUME NEW t \in Callers, JoinMiss(t) PROVE TypeOK'
  BY <1>8 DEF JoinMiss, Entering, Free, Lock, Goto
<1>9. ASSUME NEW t \in Callers, NEW s \in Topics, Subscribe(t, s)
      PROVE TypeOK'
  BY <1>9 DEF Subscribe, Goto, Unlock
<1>10. ASSUME NEW t \in Callers, SubscribeFails(t) PROVE TypeOK'
  BY <1>10 DEF SubscribeFails, Return, Goto, Unlock
<1>11. ASSUME NEW t \in Callers, HandlesClosed(t) PROVE TypeOK'
  BY <1>11 DEF HandlesClosed, StillJoined, Free, Return, Goto
<1>12. ASSUME NEW t \in Callers, Handles(t) PROVE TypeOK'
  BY <1>12 DEF Handles, StillJoined, Free, Goto
<1>13. ASSUME NEW t \in Callers, OwnCached(t) PROVE TypeOK'
  BY <1>13 DEF OwnCached, GotEndpoint, AfterEndpoint, Goto
<1>14. ASSUME NEW t \in Callers, NEW e \in Endpoints, OwnBind(t, e)
      PROVE TypeOK'
  BY <1>14 DEF OwnBind, GotEndpoint, AfterEndpoint, Goto, Bind
<1>15. ASSUME NEW t \in Callers, OwnBindFails(t) PROVE TypeOK'
  BY <1>15 DEF OwnBindFails, Unlock, Return, Goto
<1>16. ASSUME NEW t \in Callers, SharedCached(t) PROVE TypeOK'
  BY <1>16 DEF SharedCached, SameOptions, GotEndpoint, AfterEndpoint, Goto
<1>17. ASSUME NEW t \in Callers, SharedMismatch(t) PROVE TypeOK'
  BY <1>17 DEF SharedMismatch, SameOptions, Unlock, Return, Goto
<1>18. ASSUME NEW t \in Callers, SharedMiss(t) PROVE TypeOK'
  BY <1>18 DEF SharedMiss, LockRoot, Goto
<1>19. ASSUME NEW t \in Callers, NEW e \in Endpoints, SharedBind(t, e)
      PROVE TypeOK'
  BY <1>19 DEF SharedBind, RecordKey, UnlockRoot, GotEndpoint, AfterEndpoint,
       Goto, Bind
<1>20. ASSUME NEW t \in Callers, SharedBindFails(t) PROVE TypeOK'
  BY <1>20 DEF SharedBindFails, UnlockRoot, Unlock, Return, Goto
<1>21. ASSUME NEW t \in Callers, SnapshotUnbound(t) PROVE TypeOK'
  BY <1>21 DEF SnapshotUnbound, Entering, Free, Return, Goto
<1>22. ASSUME NEW t \in Callers, SnapshotOwn(t) PROVE TypeOK'
  BY <1>22 DEF SnapshotOwn, Entering, Free, Goto
<1>23. ASSUME NEW t \in Callers, SnapshotShared(t) PROVE TypeOK'
  BY <1>23 DEF SnapshotShared, Entering, Free, Goto
<1>24. ASSUME NEW t \in Callers, CloseTake(t) PROVE TypeOK'
  BY <1>24 DEF CloseTake, Forget, OwnEndpoint, Entering, Free, Goto
<1>25. ASSUME NEW t \in Callers, CloseConn(t) PROVE TypeOK'
  BY <1>25 DEF CloseConn, Goto
<1>26. ASSUME NEW t \in Callers, CloseTopic(t) PROVE TypeOK'
  BY <1>26 DEF CloseTopic, EndTopic, Goto
<1>27. ASSUME NEW t \in Callers, CloseShutdown(t) PROVE TypeOK'
  BY <1>27 DEF CloseShutdown, Return, Goto
<1>28. ASSUME NEW t \in Callers, Finish(t) PROVE TypeOK'
  BY <1>28 DEF Finish, Return, Goto
<1>29. ASSUME NEW k \in Conns, ConnDies(k) PROVE TypeOK'
  BY <1>29 DEF ConnDies
<1>30. ASSUME NEW s \in Topics, PumpReturns(s) PROVE TypeOK'
  BY <1>30 DEF PumpReturns
<1>31. ASSUME NEW s \in Topics, TopicFails(s) PROVE TypeOK'
  BY <1>31 DEF TopicFails
<1>32. CASE UNCHANGED vars
  BY <1>32 DEF vars
<1>33. QED  BY ONLY [Next]_vars, <1>1, <1>2, <1>3, <1>4, <1>5, <1>6, <1>7,
            <1>8, <1>9, <1>10, <1>11, <1>12, <1>13, <1>14, <1>15, <1>16,
            <1>17, <1>18, <1>19, <1>20, <1>21, <1>22, <1>23, <1>24, <1>25,
            <1>26, <1>27, <1>28, <1>29, <1>30, <1>31, <1>32
          DEF Next, CallerStep, ConnectStep, GossipStep, EndpointStep,
              SnapshotStep, CloseStep

(* The mutexes follow the program counters; a lookup that missed still finds
   the cache empty when it fills it. *)
LEMMA ControlPreserved ==
  ASSUME TypeOK, ControlInv, [Next]_vars
  PROVE  ControlInv'
<1> USE ClientAssumption DEF TypeOK, ControlInv, LockInv, CtrlInv, MissInv,
      NoNilHandle, Locking, Shared, PCs, Ops, clientVars, rootVars, epVars,
      connVars, topicVars, callVars
<1>1. ASSUME NEW t \in Callers, NEW o \in Ops, Call(t, o) PROVE ControlInv'
  BY <1>1 DEF Call, Goto
<1>2. ASSUME NEW t \in Callers, ConnectCached(t) PROVE ControlInv'
  BY <1>2 DEF ConnectCached, Entering, ConnAlive, Goto, Free
<1>3. ASSUME NEW t \in Callers, ConnectMiss(t) PROVE ControlInv'
  BY <1>3 DEF ConnectMiss, Entering, ConnAlive, Goto, Lock, Free
<1>4. ASSUME NEW t \in Callers, NEW k \in Conns, Dial(t, k) PROVE ControlInv'
  BY <1>4 DEF Dial, Goto, Unlock
<1>5. ASSUME NEW t \in Callers, DialFails(t) PROVE ControlInv'
  BY <1>5 DEF DialFails, Return, Goto, Unlock
<1>6. ASSUME NEW t \in Callers, JoinCached(t) PROVE ControlInv'
  BY <1>6 DEF JoinCached, Entering, Free, Goto
<1>7. ASSUME NEW t \in Callers, JoinUnsupported(t) PROVE ControlInv'
  BY <1>7 DEF JoinUnsupported, Entering, Free, Return, Goto
<1>8. ASSUME NEW t \in Callers, JoinMiss(t) PROVE ControlInv'
  BY <1>8 DEF JoinMiss, Entering, Free, Lock, Goto
<1>9. ASSUME NEW t \in Callers, NEW s \in Topics, Subscribe(t, s)
      PROVE ControlInv'
  BY <1>9 DEF Subscribe, Goto, Unlock
<1>10. ASSUME NEW t \in Callers, SubscribeFails(t) PROVE ControlInv'
  BY <1>10 DEF SubscribeFails, Return, Goto, Unlock
<1>11. ASSUME NEW t \in Callers, HandlesClosed(t) PROVE ControlInv'
  BY <1>11 DEF HandlesClosed, StillJoined, Free, Return, Goto
<1>12. ASSUME NEW t \in Callers, Handles(t) PROVE ControlInv'
  BY <1>12 DEF Handles, StillJoined, Free, Goto
<1>13. ASSUME NEW t \in Callers, OwnCached(t) PROVE ControlInv'
  BY <1>13 DEF OwnCached, GotEndpoint, AfterEndpoint, Goto
<1>14. ASSUME NEW t \in Callers, NEW e \in Endpoints, OwnBind(t, e)
      PROVE ControlInv'
  BY <1>14 DEF OwnBind, GotEndpoint, AfterEndpoint, Goto, Bind
<1>15. ASSUME NEW t \in Callers, OwnBindFails(t) PROVE ControlInv'
  BY <1>15 DEF OwnBindFails, Unlock, Return, Goto
<1>16. ASSUME NEW t \in Callers, SharedCached(t) PROVE ControlInv'
  BY <1>16 DEF SharedCached, SameOptions, GotEndpoint, AfterEndpoint, Goto
<1>17. ASSUME NEW t \in Callers, SharedMismatch(t) PROVE ControlInv'
  BY <1>17 DEF SharedMismatch, SameOptions, Unlock, Return, Goto
<1>18. ASSUME NEW t \in Callers, SharedMiss(t) PROVE ControlInv'
  BY <1>18 DEF SharedMiss, LockRoot, Goto
<1>19. ASSUME NEW t \in Callers, NEW e \in Endpoints, SharedBind(t, e)
      PROVE ControlInv'
  BY <1>19 DEF SharedBind, RecordKey, UnlockRoot, GotEndpoint, AfterEndpoint,
       Goto, Bind
<1>20. ASSUME NEW t \in Callers, SharedBindFails(t) PROVE ControlInv'
  BY <1>20 DEF SharedBindFails, UnlockRoot, Unlock, Return, Goto
<1>21. ASSUME NEW t \in Callers, SnapshotUnbound(t) PROVE ControlInv'
  BY <1>21 DEF SnapshotUnbound, Entering, Free, Return, Goto
<1>22. ASSUME NEW t \in Callers, SnapshotOwn(t) PROVE ControlInv'
  BY <1>22 DEF SnapshotOwn, Entering, Free, Goto
<1>23. ASSUME NEW t \in Callers, SnapshotShared(t) PROVE ControlInv'
  BY <1>23 DEF SnapshotShared, Entering, Free, Goto
<1>24. ASSUME NEW t \in Callers, CloseTake(t) PROVE ControlInv'
  BY <1>24 DEF CloseTake, Forget, OwnEndpoint, Entering, Free, Goto
<1>25. ASSUME NEW t \in Callers, CloseConn(t) PROVE ControlInv'
  BY <1>25 DEF CloseConn, Goto
<1>26. ASSUME NEW t \in Callers, CloseTopic(t) PROVE ControlInv'
  BY <1>26 DEF CloseTopic, EndTopic, Goto
<1>27. ASSUME NEW t \in Callers, CloseShutdown(t) PROVE ControlInv'
  BY <1>27 DEF CloseShutdown, Return, Goto
<1>28. ASSUME NEW t \in Callers, Finish(t) PROVE ControlInv'
  BY <1>28 DEF Finish, Return, Goto
<1>29. ASSUME NEW k \in Conns, ConnDies(k) PROVE ControlInv'
  BY <1>29 DEF ConnDies
<1>30. ASSUME NEW s \in Topics, PumpReturns(s) PROVE ControlInv'
  BY <1>30 DEF PumpReturns
<1>31. ASSUME NEW s \in Topics, TopicFails(s) PROVE ControlInv'
  BY <1>31 DEF TopicFails
<1>32. CASE UNCHANGED vars
  BY <1>32 DEF vars
<1>33. QED  BY ONLY [Next]_vars, <1>1, <1>2, <1>3, <1>4, <1>5, <1>6, <1>7,
            <1>8, <1>9, <1>10, <1>11, <1>12, <1>13, <1>14, <1>15, <1>16,
            <1>17, <1>18, <1>19, <1>20, <1>21, <1>22, <1>23, <1>24, <1>25,
            <1>26, <1>27, <1>28, <1>29, <1>30, <1>31, <1>32
          DEF Next, CallerStep, ConnectStep, GossipStep, EndpointStep,
              SnapshotStep, CloseStep

(* The quiet steps are quiet. *)
LEMMA QuietSteps ==
  ASSUME TypeOK, NEW t \in Callers, QuietStep(t)
  PROVE  Quiet
<1> USE ClientAssumption DEF TypeOK, Quiet, Closing, PCs, Ops, clientVars,
      rootVars, epVars, connVars, topicVars
<1>1. ASSUME NEW o \in Ops, Call(t, o) PROVE Quiet
  BY <1>1 DEF Call, Goto
<1>2. CASE ConnectCached(t)
  BY <1>2 DEF ConnectCached, Entering, ConnAlive, Goto, Free
<1>3. CASE DialFails(t)
  BY <1>3 DEF DialFails, Return, Goto, Unlock
<1>4. CASE JoinCached(t)
  BY <1>4 DEF JoinCached, Entering, Free, Goto
<1>5. CASE JoinUnsupported(t)
  BY <1>5 DEF JoinUnsupported, Entering, Free, Return, Goto
<1>6. CASE JoinMiss(t)
  BY <1>6 DEF JoinMiss, Entering, Free, Lock, Goto
<1>7. CASE SubscribeFails(t)
  BY <1>7 DEF SubscribeFails, Return, Goto, Unlock
<1>8. CASE HandlesClosed(t)
  BY <1>8 DEF HandlesClosed, StillJoined, Free, Return, Goto
<1>9. CASE Handles(t)
  BY <1>9 DEF Handles, StillJoined, Free, Goto
<1>10. CASE Finish(t)
  BY <1>10 DEF Finish, Return, Goto
<1>11. CASE SnapshotUnbound(t)
  BY <1>11 DEF SnapshotUnbound, Entering, Free, Return, Goto
<1>12. CASE SnapshotOwn(t)
  BY <1>12 DEF SnapshotOwn, Entering, Free, Goto
<1>13. CASE SnapshotShared(t)
  BY <1>13 DEF SnapshotShared, Entering, Free, Goto
<1>14. CASE OwnCached(t)
  BY <1>14 DEF OwnCached, GotEndpoint, AfterEndpoint, Goto
<1>15. CASE OwnBindFails(t)
  BY <1>15 DEF OwnBindFails, Unlock, Return, Goto
<1>16. CASE SharedCached(t)
  BY <1>16 DEF SharedCached, SameOptions, GotEndpoint, AfterEndpoint, Goto
<1>17. CASE SharedMismatch(t)
  BY <1>17 DEF SharedMismatch, SameOptions, Unlock, Return, Goto
<1>18. CASE SharedMiss(t)
  BY <1>18 DEF SharedMiss, LockRoot, Goto
<1>19. CASE SharedBindFails(t)
  BY <1>19 DEF SharedBindFails, UnlockRoot, Unlock, Return, Goto
<1>20. QED  BY ONLY QuietStep(t), <1>1, <1>2, <1>3, <1>4, <1>5, <1>6, <1>7,
            <1>8, <1>9, <1>10, <1>11, <1>12, <1>13, <1>14, <1>15, <1>16,
            <1>17, <1>18, <1>19
          DEF QuietStep

(* Endpoints have one owner each: only a Close shuts one down, and it shuts
   down one that is in no cache. *)
LEMMA EndpointPreserved ==
  ASSUME TypeOK, ControlInv, EpInv, [Next]_vars
  PROVE  EpInv'
<1> USE ClientAssumption DEF TypeOK, ControlInv, LockInv, CtrlInv, EpInv,
      Locking, Closing, Shared, PCs, Ops, clientVars, rootVars, epVars,
      connVars, topicVars, callVars
<1>1. CASE Quiet
  BY <1>1 DEF Quiet
<1>2. ASSUME NEW t \in Callers, QuietStep(t) PROVE EpInv'
  BY ONLY TypeOK, <1>1, <1>2, QuietSteps
<1>3. ASSUME NEW t \in Callers, ConnectMiss(t) PROVE EpInv'
  BY <1>3 DEF ConnectMiss, Entering, ConnAlive, Goto, Lock, Free
<1>4. ASSUME NEW t \in Callers, NEW k \in Conns, Dial(t, k) PROVE EpInv'
  BY <1>4 DEF Dial, Goto, Unlock
<1>5. ASSUME NEW t \in Callers, NEW s \in Topics, Subscribe(t, s) PROVE EpInv'
  BY <1>5 DEF Subscribe, Goto, Unlock
<1>6. ASSUME NEW t \in Callers, NEW e \in Endpoints, OwnBind(t, e)
      PROVE EpInv'
  BY <1>6 DEF OwnBind, GotEndpoint, AfterEndpoint, Goto, Bind
<1>7. ASSUME NEW t \in Callers, NEW e \in Endpoints, SharedBind(t, e)
      PROVE EpInv'
  BY <1>7 DEF SharedBind, RecordKey, UnlockRoot, GotEndpoint, AfterEndpoint,
       Goto, Bind
<1>8. ASSUME NEW t \in Callers, CloseTake(t) PROVE EpInv'
  BY <1>8 DEF CloseTake, Forget, OwnEndpoint, Entering, Free, Goto
<1>9. ASSUME NEW t \in Callers, CloseConn(t) PROVE EpInv'
  BY <1>9 DEF CloseConn, Goto
<1>10. ASSUME NEW t \in Callers, CloseTopic(t) PROVE EpInv'
  BY <1>10 DEF CloseTopic, EndTopic, Goto
<1>11. ASSUME NEW t \in Callers, CloseShutdown(t) PROVE EpInv'
  BY <1>11 DEF CloseShutdown, Return, Goto
<1>12. ASSUME NEW k \in Conns, ConnDies(k) PROVE EpInv'
  BY <1>12 DEF ConnDies
<1>13. ASSUME NEW s \in Topics, PumpReturns(s) PROVE EpInv'
  BY <1>13 DEF PumpReturns
<1>14. ASSUME NEW s \in Topics, TopicFails(s) PROVE EpInv'
  BY <1>14 DEF TopicFails
<1>15. CASE UNCHANGED vars
  <2>1. Quiet  BY <1>15 DEF vars, Quiet
  <2>2. QED  BY ONLY <2>1, <1>1
<1>16. QED  BY ONLY [Next]_vars, <1>2, <1>3, <1>4, <1>5, <1>6, <1>7, <1>8,
            <1>9, <1>10, <1>11, <1>12, <1>13, <1>14, <1>15
          DEF Next, QuietStep, CallerStep, ConnectStep, GossipStep,
              EndpointStep, SnapshotStep, CloseStep

(* The endpoint a workload found is still its client's when it dials. *)
LEMMA WorkloadPreserved ==
  ASSUME TypeOK, ControlInv, EpInv, WorkloadInv, [Next]_vars
  PROVE  WorkloadInv'
<1> USE ClientAssumption DEF TypeOK, ControlInv, LockInv, CtrlInv, EpInv,
      WorkloadInv, KeyInv, DialInv, BoundInv, EndpointOf, Bindable, optsKey,
      Locking, Shared, PCs, Ops, clientVars, rootVars, epVars, connVars,
      topicVars, callVars
<1>1. ASSUME NEW t \in Callers, NEW o \in Ops, Call(t, o) PROVE WorkloadInv'
  BY <1>1 DEF Call, Goto
<1>2. ASSUME NEW t \in Callers, ConnectCached(t) PROVE WorkloadInv'
  BY <1>2 DEF ConnectCached, Entering, ConnAlive, Goto, Free
<1>3. ASSUME NEW t \in Callers, ConnectMiss(t) PROVE WorkloadInv'
  BY <1>3 DEF ConnectMiss, Entering, ConnAlive, Goto, Lock, Free
<1>4. ASSUME NEW t \in Callers, NEW k \in Conns, Dial(t, k) PROVE WorkloadInv'
  BY <1>4 DEF Dial, Goto, Unlock
<1>5. ASSUME NEW t \in Callers, DialFails(t) PROVE WorkloadInv'
  BY <1>5 DEF DialFails, Return, Goto, Unlock
<1>6. ASSUME NEW t \in Callers, JoinCached(t) PROVE WorkloadInv'
  BY <1>6 DEF JoinCached, Entering, Free, Goto
<1>7. ASSUME NEW t \in Callers, JoinUnsupported(t) PROVE WorkloadInv'
  BY <1>7 DEF JoinUnsupported, Entering, Free, Return, Goto
<1>8. ASSUME NEW t \in Callers, JoinMiss(t) PROVE WorkloadInv'
  BY <1>8 DEF JoinMiss, Entering, Free, Lock, Goto
<1>9. ASSUME NEW t \in Callers, NEW s \in Topics, Subscribe(t, s)
      PROVE WorkloadInv'
  BY <1>9 DEF Subscribe, Goto, Unlock
<1>10. ASSUME NEW t \in Callers, SubscribeFails(t) PROVE WorkloadInv'
  BY <1>10 DEF SubscribeFails, Return, Goto, Unlock
<1>11. ASSUME NEW t \in Callers, HandlesClosed(t) PROVE WorkloadInv'
  BY <1>11 DEF HandlesClosed, StillJoined, Free, Return, Goto
<1>12. ASSUME NEW t \in Callers, Handles(t) PROVE WorkloadInv'
  BY <1>12 DEF Handles, StillJoined, Free, Goto
<1>13. ASSUME NEW t \in Callers, OwnCached(t) PROVE WorkloadInv'
  BY <1>13 DEF OwnCached, GotEndpoint, AfterEndpoint, Goto
<1>14. ASSUME NEW t \in Callers, NEW e \in Endpoints, OwnBind(t, e)
      PROVE WorkloadInv'
  BY <1>14 DEF OwnBind, GotEndpoint, AfterEndpoint, Goto, Bind
<1>15. ASSUME NEW t \in Callers, OwnBindFails(t) PROVE WorkloadInv'
  BY <1>15 DEF OwnBindFails, Unlock, Return, Goto
<1>16. ASSUME NEW t \in Callers, SharedCached(t) PROVE WorkloadInv'
  BY <1>16 DEF SharedCached, SameOptions, GotEndpoint, AfterEndpoint, Goto
<1>17. ASSUME NEW t \in Callers, SharedMismatch(t) PROVE WorkloadInv'
  BY <1>17 DEF SharedMismatch, SameOptions, Unlock, Return, Goto
<1>18. ASSUME NEW t \in Callers, SharedMiss(t) PROVE WorkloadInv'
  BY <1>18 DEF SharedMiss, LockRoot, Goto
<1>19. ASSUME NEW t \in Callers, NEW e \in Endpoints, SharedBind(t, e)
      PROVE WorkloadInv'
  BY <1>19 DEF SharedBind, RecordKey, UnlockRoot, GotEndpoint, AfterEndpoint,
       Goto, Bind
<1>20. ASSUME NEW t \in Callers, SharedBindFails(t) PROVE WorkloadInv'
  BY <1>20 DEF SharedBindFails, UnlockRoot, Unlock, Return, Goto
<1>21. ASSUME NEW t \in Callers, SnapshotUnbound(t) PROVE WorkloadInv'
  BY <1>21 DEF SnapshotUnbound, Entering, Free, Return, Goto
<1>22. ASSUME NEW t \in Callers, SnapshotOwn(t) PROVE WorkloadInv'
  BY <1>22 DEF SnapshotOwn, Entering, Free, Goto
<1>23. ASSUME NEW t \in Callers, SnapshotShared(t) PROVE WorkloadInv'
  BY <1>23 DEF SnapshotShared, Entering, Free, Goto
<1>24. ASSUME NEW t \in Callers, CloseTake(t) PROVE WorkloadInv'
  BY <1>24 DEF CloseTake, Forget, OwnEndpoint, Entering, Free, Goto
<1>25. ASSUME NEW t \in Callers, CloseConn(t) PROVE WorkloadInv'
  BY <1>25 DEF CloseConn, Goto
<1>26. ASSUME NEW t \in Callers, CloseTopic(t) PROVE WorkloadInv'
  BY <1>26 DEF CloseTopic, EndTopic, Goto
<1>27. ASSUME NEW t \in Callers, CloseShutdown(t) PROVE WorkloadInv'
  BY <1>27 DEF CloseShutdown, Return, Goto
<1>28. ASSUME NEW t \in Callers, Finish(t) PROVE WorkloadInv'
  BY <1>28 DEF Finish, Return, Goto
<1>29. ASSUME NEW k \in Conns, ConnDies(k) PROVE WorkloadInv'
  BY <1>29 DEF ConnDies
<1>30. ASSUME NEW s \in Topics, PumpReturns(s) PROVE WorkloadInv'
  BY <1>30 DEF PumpReturns
<1>31. ASSUME NEW s \in Topics, TopicFails(s) PROVE WorkloadInv'
  BY <1>31 DEF TopicFails
<1>32. CASE UNCHANGED vars
  BY <1>32 DEF vars
<1>33. QED  BY ONLY [Next]_vars, <1>1, <1>2, <1>3, <1>4, <1>5, <1>6, <1>7,
            <1>8, <1>9, <1>10, <1>11, <1>12, <1>13, <1>14, <1>15, <1>16,
            <1>17, <1>18, <1>19, <1>20, <1>21, <1>22, <1>23, <1>24, <1>25,
            <1>26, <1>27, <1>28, <1>29, <1>30, <1>31, <1>32
          DEF Next, CallerStep, ConnectStep, GossipStep, EndpointStep,
              SnapshotStep, CloseStep

(* Connections have one owner each and run on their client's endpoint. *)
LEMMA ConnPreserved ==
  ASSUME TypeOK, ControlInv, EpInv, DialInv, ConnInv, [Next]_vars
  PROVE  ConnInv'
<1> USE ClientAssumption DEF TypeOK, ControlInv, LockInv, CtrlInv, MissInv,
      EpInv, DialInv, ConnInv, EndpointOf, Locking, Closing, Shared, PCs,
      Ops, clientVars, rootVars, epVars, connVars, topicVars, callVars
<1>1. CASE Quiet
  BY <1>1 DEF Quiet
<1>2. ASSUME NEW t \in Callers, QuietStep(t) PROVE ConnInv'
  BY ONLY TypeOK, <1>1, <1>2, QuietSteps
<1>3. ASSUME NEW t \in Callers, ConnectMiss(t) PROVE ConnInv'
  BY <1>3 DEF ConnectMiss, Entering, ConnAlive, Goto, Lock, Free
<1>4. ASSUME NEW t \in Callers, NEW k \in Conns, Dial(t, k) PROVE ConnInv'
  BY <1>4, SMTT(30) DEF Dial, Goto, Unlock
<1>5. ASSUME NEW t \in Callers, NEW s \in Topics, Subscribe(t, s)
      PROVE ConnInv'
  BY <1>5 DEF Subscribe, Goto, Unlock
<1>6. ASSUME NEW t \in Callers, NEW e \in Endpoints, OwnBind(t, e)
      PROVE ConnInv'
  BY <1>6 DEF OwnBind, GotEndpoint, AfterEndpoint, Goto, Bind
<1>7. ASSUME NEW t \in Callers, NEW e \in Endpoints, SharedBind(t, e)
      PROVE ConnInv'
  BY <1>7 DEF SharedBind, RecordKey, UnlockRoot, GotEndpoint, AfterEndpoint,
       Goto, Bind
<1>8. ASSUME NEW t \in Callers, CloseTake(t) PROVE ConnInv'
  BY <1>8 DEF CloseTake, Forget, OwnEndpoint, Entering, Free, Goto
<1>9. ASSUME NEW t \in Callers, CloseConn(t) PROVE ConnInv'
  BY <1>9 DEF CloseConn, Goto
<1>10. ASSUME NEW t \in Callers, CloseTopic(t) PROVE ConnInv'
  BY <1>10 DEF CloseTopic, EndTopic, Goto
<1>11. ASSUME NEW t \in Callers, CloseShutdown(t) PROVE ConnInv'
  BY <1>11 DEF CloseShutdown, Return, Goto
<1>12. ASSUME NEW k \in Conns, ConnDies(k) PROVE ConnInv'
  BY <1>12 DEF ConnDies
<1>13. ASSUME NEW s \in Topics, PumpReturns(s) PROVE ConnInv'
  BY <1>13 DEF PumpReturns
<1>14. ASSUME NEW s \in Topics, TopicFails(s) PROVE ConnInv'
  BY <1>14 DEF TopicFails
<1>15. CASE UNCHANGED vars
  <2>1. Quiet  BY <1>15 DEF vars, Quiet
  <2>2. QED  BY ONLY <2>1, <1>1
<1>16. QED  BY ONLY [Next]_vars, <1>2, <1>3, <1>4, <1>5, <1>6, <1>7, <1>8,
            <1>9, <1>10, <1>11, <1>12, <1>13, <1>14, <1>15
          DEF Next, QuietStep, CallerStep, ConnectStep, GossipStep,
              EndpointStep, SnapshotStep, CloseStep

(* So do topics. *)
LEMMA TopicPreserved ==
  ASSUME TypeOK, ControlInv, EpInv, DialInv, TopicInv, [Next]_vars
  PROVE  TopicInv'
<1> USE ClientAssumption DEF TypeOK, ControlInv, LockInv, CtrlInv, MissInv,
      EpInv, DialInv, TopicInv, EndpointOf, Locking, Closing, Shared, PCs,
      Ops, clientVars, rootVars, epVars, connVars, topicVars, callVars
<1>1. CASE Quiet
  BY <1>1 DEF Quiet
<1>2. ASSUME NEW t \in Callers, QuietStep(t) PROVE TopicInv'
  BY ONLY TypeOK, <1>1, <1>2, QuietSteps
<1>3. ASSUME NEW t \in Callers, ConnectMiss(t) PROVE TopicInv'
  BY <1>3 DEF ConnectMiss, Entering, ConnAlive, Goto, Lock, Free
<1>4. ASSUME NEW t \in Callers, NEW k \in Conns, Dial(t, k) PROVE TopicInv'
  BY <1>4 DEF Dial, Goto, Unlock
<1>5. ASSUME NEW t \in Callers, NEW s \in Topics, Subscribe(t, s)
      PROVE TopicInv'
  BY <1>5 DEF Subscribe, Goto, Unlock
<1>6. ASSUME NEW t \in Callers, NEW e \in Endpoints, OwnBind(t, e)
      PROVE TopicInv'
  BY <1>6 DEF OwnBind, GotEndpoint, AfterEndpoint, Goto, Bind
<1>7. ASSUME NEW t \in Callers, NEW e \in Endpoints, SharedBind(t, e)
      PROVE TopicInv'
  BY <1>7 DEF SharedBind, RecordKey, UnlockRoot, GotEndpoint, AfterEndpoint,
       Goto, Bind
<1>8. ASSUME NEW t \in Callers, CloseTake(t) PROVE TopicInv'
  BY <1>8 DEF CloseTake, Forget, OwnEndpoint, Entering, Free, Goto
<1>9. ASSUME NEW t \in Callers, CloseConn(t) PROVE TopicInv'
  BY <1>9 DEF CloseConn, Goto
<1>10. ASSUME NEW t \in Callers, CloseTopic(t) PROVE TopicInv'
  BY <1>10 DEF CloseTopic, EndTopic, Goto
<1>11. ASSUME NEW t \in Callers, CloseShutdown(t) PROVE TopicInv'
  BY <1>11 DEF CloseShutdown, Return, Goto
<1>12. ASSUME NEW k \in Conns, ConnDies(k) PROVE TopicInv'
  BY <1>12 DEF ConnDies
<1>13. ASSUME NEW s \in Topics, PumpReturns(s) PROVE TopicInv'
  BY <1>13 DEF PumpReturns
<1>14. ASSUME NEW s \in Topics, TopicFails(s) PROVE TopicInv'
  BY <1>14 DEF TopicFails
<1>15. CASE UNCHANGED vars
  <2>1. Quiet  BY <1>15 DEF vars, Quiet
  <2>2. QED  BY ONLY <2>1, <1>1
<1>16. QED  BY ONLY [Next]_vars, <1>2, <1>3, <1>4, <1>5, <1>6, <1>7, <1>8,
            <1>9, <1>10, <1>11, <1>12, <1>13, <1>14, <1>15
          DEF Next, QuietStep, CallerStep, ConnectStep, GossipStep,
              EndpointStep, SnapshotStep, CloseStep

(* Whatever is open has an owner. *)
LEMMA OwnedPreserved ==
  ASSUME TypeOK, ControlInv, ConnInv, TopicInv, NoOrphans, [Next]_vars
  PROVE  NoOrphans'
<1>1. \A u \in Callers : Closing(u) =>
        /\ heldConn[u] # None => pc[u] = "closeconn"
        /\ heldTopic[u] # None => pc[u] # "shutdown"
  BY DEF ConnInv, TopicInv
<1>2. \A u \in Callers :
        /\ pc[u] = "dial" => conn[ClientOf[u]] = None
        /\ pc[u] = "subscribe" => topic[ClientOf[u]] = None
        /\ pc[u] = "rootbind" => rootEndpoint = None
  BY ClientAssumption DEF TypeOK, ControlInv, CtrlInv, MissInv, LockInv,
       Locking
<1>3. CASE Quiet
  <2>1. \A u \in Callers : Closing(u) =>
          /\ Closing(u)'
          /\ heldEp'[u] = heldEp[u]
          /\ heldConn'[u] = heldConn[u]
          /\ heldTopic'[u] = heldTopic[u]
    BY <1>3 DEF Quiet
  <2>2. UNCHANGED <<endpoint, conn, topic, rootEndpoint, epState, connState,
                    topicState, pump>>
    BY <1>3 DEF Quiet
  <2>3. EndpointOwned /\ ConnOwned /\ PumpOwned  BY DEF NoOrphans
  <2>4. EndpointOwned'  BY ONLY <2>1, <2>2, <2>3 DEF EndpointOwned
  <2>5. ConnOwned'  BY ONLY <2>1, <2>2, <2>3 DEF ConnOwned
  <2>6. PumpOwned'  BY ONLY <2>1, <2>2, <2>3 DEF PumpOwned
  <2>7. QED  BY <2>4, <2>5, <2>6 DEF NoOrphans
<1> USE ClientAssumption DEF TypeOK, NoOrphans, EndpointOwned, ConnOwned,
      PumpOwned, Closing, PCs, Ops, clientVars, rootVars, epVars, connVars,
      topicVars, callVars
<1>4. ASSUME NEW t \in Callers, QuietStep(t) PROVE NoOrphans'
  BY ONLY TypeOK, <1>3, <1>4, QuietSteps
<1>5. ASSUME NEW t \in Callers, ConnectMiss(t) PROVE NoOrphans'
  <2>1. EndpointOwned'
    BY <1>1, <1>2, <1>5 DEF ConnectMiss, Entering, ConnAlive, Goto, Lock, Free
  <2>2. ConnOwned'
    BY <1>1, <1>2, <1>5 DEF ConnectMiss, Entering, ConnAlive, Goto, Lock, Free
  <2>3. PumpOwned'
    BY <1>1, <1>2, <1>5 DEF ConnectMiss, Entering, ConnAlive, Goto, Lock, Free
  <2>4. QED  BY <2>1, <2>2, <2>3
<1>6. ASSUME NEW t \in Callers, NEW k \in Conns, Dial(t, k) PROVE NoOrphans'
  <2>1. EndpointOwned'  BY <1>1, <1>2, <1>6 DEF Dial, Goto, Unlock
  <2>2. ConnOwned'  BY <1>1, <1>2, <1>6 DEF Dial, Goto, Unlock
  <2>3. PumpOwned'  BY <1>1, <1>2, <1>6 DEF Dial, Goto, Unlock
  <2>4. QED  BY <2>1, <2>2, <2>3
<1>7. ASSUME NEW t \in Callers, NEW s \in Topics, Subscribe(t, s)
      PROVE NoOrphans'
  <2>1. EndpointOwned'  BY <1>1, <1>2, <1>7 DEF Subscribe, Goto, Unlock
  <2>2. ConnOwned'  BY <1>1, <1>2, <1>7 DEF Subscribe, Goto, Unlock
  <2>3. PumpOwned'  BY <1>1, <1>2, <1>7 DEF Subscribe, Goto, Unlock
  <2>4. QED  BY <2>1, <2>2, <2>3
<1>8. ASSUME NEW t \in Callers, NEW e \in Endpoints, OwnBind(t, e)
      PROVE NoOrphans'
  <2>1. EndpointOwned'
    BY <1>1, <1>2, <1>8 DEF OwnBind, GotEndpoint, AfterEndpoint, Goto, Bind
  <2>2. ConnOwned'
    BY <1>1, <1>2, <1>8 DEF OwnBind, GotEndpoint, AfterEndpoint, Goto, Bind
  <2>3. PumpOwned'
    BY <1>1, <1>2, <1>8 DEF OwnBind, GotEndpoint, AfterEndpoint, Goto, Bind
  <2>4. QED  BY <2>1, <2>2, <2>3
<1>9. ASSUME NEW t \in Callers, NEW e \in Endpoints, SharedBind(t, e)
      PROVE NoOrphans'
  <2>1. EndpointOwned'
    BY <1>1, <1>2, <1>9 DEF SharedBind, RecordKey, UnlockRoot, GotEndpoint,
         AfterEndpoint, Goto, Bind
  <2>2. ConnOwned'
    BY <1>1, <1>2, <1>9 DEF SharedBind, RecordKey, UnlockRoot, GotEndpoint,
         AfterEndpoint, Goto, Bind
  <2>3. PumpOwned'
    BY <1>1, <1>2, <1>9 DEF SharedBind, RecordKey, UnlockRoot, GotEndpoint,
         AfterEndpoint, Goto, Bind
  <2>4. QED  BY <2>1, <2>2, <2>3
<1>10. ASSUME NEW t \in Callers, CloseTake(t) PROVE NoOrphans'
  <2>1. EndpointOwned'
    BY <1>1, <1>2, <1>10 DEF CloseTake, Forget, OwnEndpoint, Entering, Free,
         Goto
  <2>2. ConnOwned'  BY <1>1, <1>2, <1>10 DEF CloseTake, Forget, OwnEndpoint,
       Entering, Free, Goto
  <2>3. PumpOwned'  BY <1>1, <1>2, <1>10 DEF CloseTake, Forget, OwnEndpoint,
       Entering, Free, Goto
  <2>4. QED  BY <2>1, <2>2, <2>3
<1>11. ASSUME NEW t \in Callers, CloseConn(t) PROVE NoOrphans'
  <2>1. EndpointOwned'  BY <1>1, <1>2, <1>11 DEF CloseConn, Goto
  <2>2. ConnOwned'  BY <1>1, <1>2, <1>11 DEF CloseConn, Goto
  <2>3. PumpOwned'  BY <1>1, <1>2, <1>11 DEF CloseConn, Goto
  <2>4. QED  BY <2>1, <2>2, <2>3
<1>12. ASSUME NEW t \in Callers, CloseTopic(t) PROVE NoOrphans'
  <2>1. EndpointOwned'  BY <1>1, <1>2, <1>12 DEF CloseTopic, EndTopic, Goto
  <2>2. ConnOwned'  BY <1>1, <1>2, <1>12 DEF CloseTopic, EndTopic, Goto
  <2>3. PumpOwned'  BY <1>1, <1>2, <1>12 DEF CloseTopic, EndTopic, Goto
  <2>4. QED  BY <2>1, <2>2, <2>3
<1>13. ASSUME NEW t \in Callers, CloseShutdown(t) PROVE NoOrphans'
  <2>1. EndpointOwned'  BY <1>1, <1>2, <1>13 DEF CloseShutdown, Return, Goto
  <2>2. ConnOwned'  BY <1>1, <1>2, <1>13 DEF CloseShutdown, Return, Goto
  <2>3. PumpOwned'
    <3>1. /\ heldTopic[t] = None
          /\ UNCHANGED <<topic, topicState, pump>>
          /\ \A u \in Callers \ {t} :
               pc'[u] = pc[u] /\ heldTopic'[u] = heldTopic[u]
      BY <1>1, <1>13 DEF CloseShutdown, Return, Goto
    <3>2. QED  BY ONLY <3>1, PumpOwned, ClientAssumption, TypeOK
               DEF PumpOwned, Closing, TypeOK
  <2>4. QED  BY <2>1, <2>2, <2>3
<1>14. ASSUME NEW k \in Conns, ConnDies(k) PROVE NoOrphans'
  <2>1. EndpointOwned'  BY <1>1, <1>2, <1>14 DEF ConnDies
  <2>2. ConnOwned'  BY <1>1, <1>2, <1>14 DEF ConnDies
  <2>3. PumpOwned'  BY <1>1, <1>2, <1>14 DEF ConnDies
  <2>4. QED  BY <2>1, <2>2, <2>3
<1>15. ASSUME NEW s \in Topics, PumpReturns(s) PROVE NoOrphans'
  <2>1. EndpointOwned'  BY <1>1, <1>2, <1>15 DEF PumpReturns
  <2>2. ConnOwned'  BY <1>1, <1>2, <1>15 DEF PumpReturns
  <2>3. PumpOwned'  BY <1>1, <1>2, <1>15 DEF PumpReturns
  <2>4. QED  BY <2>1, <2>2, <2>3
<1>16. ASSUME NEW s \in Topics, TopicFails(s) PROVE NoOrphans'
  <2>1. EndpointOwned'  BY <1>1, <1>2, <1>16 DEF TopicFails
  <2>2. ConnOwned'  BY <1>1, <1>2, <1>16 DEF TopicFails
  <2>3. PumpOwned'  BY <1>1, <1>2, <1>16 DEF TopicFails
  <2>4. QED  BY <2>1, <2>2, <2>3
<1>17. CASE UNCHANGED vars
  <2>1. Quiet  BY <1>17 DEF vars, Quiet
  <2>2. QED  BY ONLY <2>1, <1>3
<1>18. QED  BY ONLY [Next]_vars, <1>4, <1>5, <1>6, <1>7, <1>8, <1>9, <1>10,
            <1>11, <1>12, <1>13, <1>14, <1>15, <1>16, <1>17
          DEF Next, QuietStep, CallerStep, ConnectStep, GossipStep,
              EndpointStep, SnapshotStep, CloseStep
-----------------------------------------------------------------------------
(* The invariant holds before any call. *)
LEMMA IInvInit == Init => IInv
<1> USE ClientAssumption
<1> SUFFICES ASSUME Init PROVE IInv
  OBVIOUS
<1>1. TypeOK
  BY DEF Init, TypeOK, RelayModes, PCs, Ops
<1>2. ControlInv /\ WorkloadInv
  BY DEF Init, ControlInv, LockInv, CtrlInv, MissInv, NoNilHandle, Locking,
         WorkloadInv, KeyInv, DialInv, BoundInv
<1>3. EpInv /\ ConnInv /\ TopicInv
  BY DEF Init, EpInv, ConnInv, TopicInv, Closing
<1>4. NoOrphans
  BY DEF Init, NoOrphans, EndpointOwned, ConnOwned, PumpOwned
<1>5. QED  BY <1>1, <1>2, <1>3, <1>4 DEF IInv

(* Every step keeps it: each part from those before it. *)
LEMMA IInvStep == IInv /\ [Next]_vars => IInv'
<1> SUFFICES ASSUME IInv, [Next]_vars PROVE IInv'
  OBVIOUS
<1>1. TypeOK' /\ ControlInv' /\ EpInv' /\ WorkloadInv'
  BY TypePreserved, ControlPreserved, EndpointPreserved, WorkloadPreserved
     DEF IInv
<1>2. ConnInv' /\ TopicInv' /\ NoOrphans'
  BY ConnPreserved, TopicPreserved, OwnedPreserved DEF IInv, WorkloadInv
<1>3. QED  BY <1>1, <1>2 DEF IInv

(* Every reachable state satisfies the inductive invariant: the mutexes follow
   the callers, and each handle has at most one owner (client.go, module.go). *)
THEOREM Invariance == Spec => []IInv
  BY IInvInit, IInvStep, PTL DEF Spec

-----------------------------------------------------------------------------
(* Types hold in every reachable state. *)
THEOREM TypeCorrect == Spec => []TypeOK
<1>1. IInv => TypeOK
  BY DEF IInv
<1>2. QED  BY <1>1, Invariance, PTL

(* No method of a client dereferences a nil handle, whoever closes when. *)
THEOREM NoNilHandleTheorem == Spec => []NoNilHandle
<1>1. IInv => NoNilHandle
  BY DEF IInv, ControlInv
<1>2. QED  BY <1>1, Invariance, PTL

(* connect and joinGossip dial on the client's own, open endpoint. *)
THEOREM DialsOnOpenEndpointTheorem == Spec => []DialsOnOpenEndpoint
<1>1. IInv => DialsOnOpenEndpoint
  BY ClientAssumption DEF IInv, TypeOK, EpInv, WorkloadInv, DialInv,
     EndpointOf, DialsOnOpenEndpoint
<1>2. QED  BY <1>1, Invariance, PTL

(* A client's cached connection and topic run on the endpoint whose counters
   it would read. *)
THEOREM HandlesAgreeTheorem == Spec => []HandlesAgree
<1>1. IInv => HandlesAgree
  BY DEF IInv, ConnInv, TopicInv, HandlesAgree
<1>2. QED  BY <1>1, Invariance, PTL

(* Close tears down only what it alone holds. *)
THEOREM ExclusiveTeardownTheorem == Spec => []ExclusiveTeardown
<1>1. IInv => ExclusiveTeardown
  BY DEF IInv, EpInv, ConnInv, TopicInv, ExclusiveTeardown
<1>2. QED  BY <1>1, Invariance, PTL

(* No endpoint, connection or pump is leaked. *)
THEOREM NoOrphansTheorem == Spec => []NoOrphans
<1>1. IInv => NoOrphans
  BY DEF IInv
<1>2. QED  BY <1>1, Invariance, PTL

(* No Close ends the shared endpoint. *)
THEOREM SharedStaysOpenTheorem == Spec => []SharedStaysOpen
<1>1. IInv => SharedStaysOpen
  BY DEF IInv, EpInv, SharedStaysOpen
<1>2. QED  BY <1>1, Invariance, PTL

(* Workloads run on an endpoint bound with their client's relay options: a
   shared endpoint is only handed out by key, and keeps its key. *)
THEOREM OptionsHonouredTheorem == Spec => []OptionsHonoured
<1>1. ASSUME IInv PROVE OptionsHonoured
  <2> USE <1>1, ClientAssumption
        DEF IInv, TypeOK, EpInv, WorkloadInv, KeyInv, DialInv, BoundInv
  <2> SUFFICES ASSUME NEW t \in Callers, pc[t] \in {"dial", "subscribe"}
               PROVE  LET b == boundBy[heldEp[t]] IN
                        /\ b # None
                        /\ Config[b].relay = Config[ClientOf[t]].relay
                        /\ Bindable(b)
    BY DEF OptionsHonoured
  <2>1. ClientOf[t] \in Clients /\ ClientOf[t] # None
    OBVIOUS
  <2>2. CASE Shared(t)
    BY <2>1, <2>2 DEF EndpointOf, Shared, optsKey
  <2>3. CASE ~Shared(t)
    BY <2>1, <2>3 DEF EndpointOf, Shared
  <2>4. QED  BY <2>2, <2>3
<1>2. QED  BY <1>1, Invariance, PTL

-----------------------------------------------------------------------------
(* A caller's step changes what that caller holds, and for a shared caller
   only by binding, by finding the endpoint, or by dropping it. *)
Drops(t) ==
  /\ UNCHANGED <<rootEndpoint, rootOptsKey>>
  /\ \A u \in Callers \ {t} : heldEp'[u] = heldEp[u]
  /\ Shared(t) => heldEp'[t] \in {heldEp[t], None}

(* The steps of a caller that fill and get nothing from the root leave the
   endpoints in hand alone, or drop the caller's own. *)
LEMMA DropSteps ==
  ASSUME IInv, NEW t \in Callers, CallerStep(t) \/ \E o \in Ops : Call(t, o)
  PROVE  \/ Drops(t) \/ SharedCached(t)
         \/ \E e \in Endpoints : SharedBind(t, e)
<1> USE ClientAssumption DEF IInv, TypeOK, Drops, rootVars, callVars, Goto
<1>1. ASSUME \/ \E o \in Ops : Call(t, o)
             \/ ConnectCached(t) \/ ConnectMiss(t) \/ JoinCached(t)
             \/ JoinMiss(t) \/ SnapshotShared(t) \/ SharedMiss(t)
             \/ \E k \in Conns : Dial(t, k)
             \/ \E s \in Topics : Subscribe(t, s)
             \/ Handles(t) \/ CloseConn(t) \/ CloseTopic(t)
      PROVE  Drops(t)
  BY <1>1 DEF Call, ConnectCached, ConnectMiss, JoinCached, JoinMiss,
     SnapshotShared, SharedMiss, LockRoot, Dial, Subscribe, Handles,
     StillJoined, CloseConn, CloseTopic, EndTopic
<1>2. ASSUME \/ DialFails(t) \/ JoinUnsupported(t) \/ SubscribeFails(t)
             \/ HandlesClosed(t) \/ SnapshotUnbound(t) \/ OwnBindFails(t)
             \/ SharedMismatch(t) \/ SharedBindFails(t) \/ Finish(t)
             \/ CloseShutdown(t)
      PROVE  Drops(t)
  BY <1>2 DEF DialFails, JoinUnsupported, SubscribeFails, HandlesClosed,
       StillJoined,
     SnapshotUnbound, OwnBindFails, SharedMismatch, SameOptions,
     SharedBindFails, UnlockRoot, Finish,
     CloseShutdown, Return
<1>3. ASSUME \/ SnapshotOwn(t) \/ OwnCached(t)
             \/ \E e \in Endpoints : OwnBind(t, e)
      PROVE  Drops(t)
  BY <1>3 DEF SnapshotOwn, OwnCached, OwnBind, GotEndpoint
<1>4. ASSUME CloseTake(t) PROVE Drops(t)
  BY <1>4 DEF CloseTake, Forget, OwnEndpoint, EpInv, Shared
<1>5. QED  BY ONLY CallerStep(t) \/ \E o \in Ops : Call(t, o),
                   <1>1, <1>2, <1>3, <1>4
           DEF CallerStep, ConnectStep, GossipStep, EndpointStep, SnapshotStep,
               CloseStep

(* Every step of the client is a step of SharedCell or leaves it alone. *)
LEMMA CellStep ==
  ASSUME IInv, [Next]_vars
  PROVE  [Root!CellNext]_(Root!cellVars)
<1> USE ClientAssumption DEF IInv, TypeOK, SharedCallers, Root!cellVars,
      rootVars, callVars
<1>1. ASSUME NEW t \in Callers, NEW e \in Endpoints, SharedBind(t, e)
      PROVE  t \in SharedCallers /\ Root!Fill(t, e)
  <2>1. t \in SharedCallers /\ rootEndpoint = None
    BY <1>1 DEF SharedBind, RecordKey, UnlockRoot, ControlInv, CtrlInv, LockInv
  <2>2. QED  BY <1>1, <2>1 DEF SharedBind, RecordKey, UnlockRoot, Root!Fill,
       GotEndpoint
<1>2. ASSUME NEW t \in Callers, SharedCached(t)
      PROVE  t \in SharedCallers /\ Root!Get(t)
  BY <1>2 DEF SharedCached, SameOptions, Root!Get, GotEndpoint
<1>3. ASSUME NEW t \in Callers, Drops(t)
      PROVE  \/ t \in SharedCallers /\ Root!Drop(t)
             \/ UNCHANGED Root!cellVars
  <2> USE <1>3 DEF Drops, Root!Drop
  <2>1. CASE t \in SharedCallers /\ heldEp'[t] = None
    <3>1. \A u \in SharedCallers :
            heldEp'[u] = IF u = t THEN None ELSE heldEp[u]
      BY <2>1
    <3>2. [u \in SharedCallers |-> heldEp'[u]]
            = [[u \in SharedCallers |-> heldEp[u]] EXCEPT ![t] = None]
      BY ONLY <3>1
    <3>3. QED  BY <2>1, <3>2
  <2>2. CASE t \notin SharedCallers \/ heldEp'[t] = heldEp[t]
    BY <2>2
  <2>3. QED  BY <2>1, <2>2
<1>4. CASE \E t \in Callers : CallerStep(t) \/ \E o \in Ops : Call(t, o)
  BY ONLY IInv, <1>1, <1>2, <1>3, <1>4, DropSteps DEF Root!CellNext
<1>5. ASSUME \/ \E k \in Conns : ConnDies(k)
             \/ \E s \in Topics : PumpReturns(s) \/ TopicFails(s)
             \/ UNCHANGED vars
      PROVE  UNCHANGED Root!cellVars
  BY <1>5 DEF ConnDies, PumpReturns, TopicFails, vars
<1>6. QED  BY ONLY [Next]_vars, <1>4, <1>5 DEF Next

(* RootModule.sharedEndpoint implements SharedCell: binding is Fill, finding
   the endpoint bound with one's own options is Get, and a call that returns
   drops what it held. *)
THEOREM SharedCellRefinement == Spec => ImplementsSharedCell
<1>1. Init => Root!CellInit
  BY DEF Init, Root!CellInit, SharedCallers
<1>2. IInv /\ [Next]_vars => [Root!CellNext]_(Root!cellVars)
  BY CellStep
<1>3. QED  BY <1>1, <1>2, Invariance, PTL
           DEF Spec, ImplementsSharedCell, Root!CellSpec

-----------------------------------------------------------------------------
(* Configurations: what newClient makes of one, for any set of registered
   implementations and relay URLs, ... *)
CONSTANTS Registered, RelayURLs

Cfg == INSTANCE ClientConfig

(* A configuration that is accepted leaves nothing open: it has a known scope,
   relay mode and implementation, and passing it through newClient again would
   change nothing (client.go:76-138). *)
THEOREM Normalised ==
  ASSUME NEW raw, Cfg!Accepted(raw)
  PROVE  LET c == Cfg!newClient(raw) IN
           /\ c.scope \in {"vu", "shared"}
           /\ c.relay \in {"default", "disabled", "forced"}
           /\ c.impl \in Registered
           /\ Cfg!Accepted(c) /\ Cfg!newClient(c) = c
<1> DEFINE c == Cfg!newClient(raw)
<1>1. /\ c.scope \in {"vu", "shared"}
      /\ c.relay \in {"default", "disabled", "forced"}
      /\ c.impl \in Registered
  BY DEF Cfg!Accepted, Cfg!lookupBackend
<1>2. Cfg!newClient(c) = c
  <2>1. /\ Cfg!Default(c.scope, "vu") = c.scope
        /\ Cfg!Default(c.peer, "go") = c.peer
        /\ Cfg!Default(c.impl, "go") = c.impl
        /\ Cfg!Default(c.relay, "default") = c.relay
    BY DEF Cfg!newClient, Cfg!Default
  <2>2. Cfg!ALPN(c) = c.alpn
    BY DEF Cfg!newClient, Cfg!ALPN, Cfg!Default, Cfg!DefaultALPN,
           Cfg!BlobsALPN
  <2> QED
    BY <2>1, <2>2 DEF Cfg!newClient
<1>3. Cfg!Accepted(c)
  BY <1>2 DEF Cfg!Accepted
<1> QED
  BY <1>1, <1>2, <1>3

(* A backend that cannot disable direct transports "must fail rather than bind
   a path that silently goes direct" (backend.go:48-51): under either
   implementation the endpoint of a client with relayMode forced sends on the
   relay only, or is not bound; and a client bound to a relay asked for it. *)
THEOREM ForcedNeverDirect ==
  ASSUME NEW raw, Cfg!Accepted(raw)
  PROVE  LET c == Cfg!newClient(raw) IN
           /\ raw.relay = "forced" => "direct" \notin Cfg!Transports(c)
           /\ "relay" \in Cfg!Transports(c) => raw.relay = "forced"
<1> DEFINE c == Cfg!newClient(raw)
<1>1. /\ raw.relay = "forced" <=> c.relay = "forced"
      /\ c.relay \in {"default", "disabled", "forced"}
  BY Normalised DEF Cfg!newClient, Cfg!Default
<1>2. "direct" \in Cfg!Transports(c) => c.relay # "forced"
  BY <1>1 DEF Cfg!Transports, Cfg!GoTransports, Cfg!FfiTransports
<1>3. "relay" \in Cfg!Transports(c) => c.relay = "forced"
  BY <1>1 DEF Cfg!Transports, Cfg!GoTransports, Cfg!FfiTransports
<1> QED
  BY <1>1, <1>2, <1>3

(* "Two places must agree" on targets (client.go:145-150): the backend dials
   every target newClient accepts, except that the bindings refuse the blobs
   tickets of clients that could not fetch a blob either. *)
THEOREM AcceptedTargetsDialled ==
  ASSUME NEW raw, Cfg!Accepted(raw)
  PROVE  LET c == Cfg!newClient(raw) IN
           /\ c.target = "endpoint ticket" => Cfg!Dialable(c)
           /\ Cfg!CanFetch(c) => Cfg!Dialable(c) /\ c.alpn # Cfg!DefaultALPN
<1> DEFINE c == Cfg!newClient(raw)
<1>1. Cfg!Decodes(c.target)
  BY DEF Cfg!Accepted
<1>2. Cfg!CanFetch(c) => c.impl = "go" /\ c.alpn # Cfg!DefaultALPN
  BY DEF Cfg!CanFetch, Cfg!Blobs, Cfg!newClient, Cfg!ALPN, Cfg!DefaultALPN,
         Cfg!BlobsALPN
<1> QED
  BY <1>1, <1>2 DEF Cfg!Dialable

(* ... and what that comes to for the clients that share an endpoint. *)
Validated(raw) ==
  LET c == Cfg!newClient(raw) IN
    [scope |-> c.scope, impl |-> c.impl, relay |-> c.relay]

FromScripts(raw) ==
  \A c \in Clients :
    Cfg!Accepted(raw[c]) /\ Config[c] = Validated(raw[c])

(* The transports of the endpoint that caller t runs its workload on: those of
   the client that bound it, with whichever implementation that was. *)
TransportsOf(t, raw) ==
  Cfg!Transports(Cfg!newClient(raw[boundBy[heldEp[t]]]))

RelayKept(raw) ==
  \A t \in Callers : pc[t] \in {"dial", "subscribe"} =>
    /\ raw[ClientOf[t]].relay = "forced" => "direct" \notin TransportsOf(t, raw)
    /\ "relay" \in TransportsOf(t, raw) => raw[ClientOf[t]].relay = "forced"

(* A client whose script forces the relay never dials or subscribes on an
   endpoint that may go direct, and one that does not never goes over the
   relay, even when the endpoint is the shared one and was bound by another
   client under another implementation (backend.go:48-51, module.go:150-173). *)
THEOREM RelayKeptTheorem ==
  ASSUME NEW raw, FromScripts(raw)
  PROVE  Spec => []RelayKept(raw)
<1>1. ASSUME OptionsHonoured, IInv
      PROVE  RelayKept(raw)
  <2> SUFFICES ASSUME NEW t \in Callers, pc[t] \in {"dial", "subscribe"}
               PROVE  /\ raw[ClientOf[t]].relay = "forced" =>
                           "direct" \notin TransportsOf(t, raw)
                      /\ "relay" \in TransportsOf(t, raw) =>
                           raw[ClientOf[t]].relay = "forced"
    BY DEF RelayKept
  <2> DEFINE b == boundBy[heldEp[t]]
             own == raw[ClientOf[t]]
  <2>1. /\ ClientOf[t] \in Clients /\ b \in Clients
        /\ Config[b].relay = Config[ClientOf[t]].relay
    <3>1. heldEp[t] \in Endpoints
      BY <1>1 DEF IInv, TypeOK, WorkloadInv, DialInv
    <3>2. b \in Clients \cup {None} /\ ClientOf[t] \in Clients
      BY <1>1, <3>1, ClientAssumption DEF IInv, TypeOK
    <3> QED
      BY <1>1, <3>2 DEF OptionsHonoured
  <2>2. Cfg!Accepted(own) /\ Cfg!Accepted(raw[b])
    BY <2>1 DEF FromScripts
  <2>3. Cfg!newClient(raw[b]).relay = Cfg!newClient(own).relay
    <3>1. /\ Config[b] = Validated(raw[b])
          /\ Config[ClientOf[t]] = Validated(own)
      BY <2>1 DEF FromScripts
    <3> QED
      BY <2>1, <3>1 DEF Validated
  <2>4. own.relay = "forced" <=> raw[b].relay = "forced"
    BY <2>3 DEF Cfg!newClient, Cfg!Default
  <2>5. /\ raw[b].relay = "forced" => "direct" \notin TransportsOf(t, raw)
        /\ "relay" \in TransportsOf(t, raw) => raw[b].relay = "forced"
    BY <2>2, ForcedNeverDirect DEF TransportsOf
  <2> QED
    BY <2>4, <2>5
<1> QED
  BY <1>1, OptionsHonouredTheorem, Invariance, PTL
=============================================================================

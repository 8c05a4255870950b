---------------------------- MODULE GossipRound ----------------------------
(***************************************************************************)
(* Gossip: the rounds a client runs on the topic it has joined.  Queries   *)
(* are broadcast to the swarm, whose members rebroadcast each as a reply;  *)
(* the topic's pump queues the replies it is delivered in a bounded        *)
(* channel, and the round matches them to its own outstanding queries by   *)
(* sequence number alone, which starts at 1 in every round of every        *)
(* client.                                                                 *)
(*                                                                         *)
(* The swarm is as the code uses it: replies may be late, lost, reordered, *)
(* and are delivered to all clients on the topic.                          *)
(***************************************************************************)
EXTENDS Naturals, Sequences, FiniteSets, Functions

CONSTANTS
  Members,    \* gossip-member peers that echo
  MaxCount,   \* bound: the largest opts.Count
  MaxRounds,  \* bound: calls of Gossip
  Cap         \* the capacity of the echo channel, 1024 in the code

ASSUME GossipAssumption ==
  /\ MaxCount \in Nat \ {0} /\ MaxRounds \in Nat \ {0} /\ Cap \in Nat \ {0}
  /\ IsFiniteSet(Members)

VARIABLES
  pc, count, seq, sent, res, expired,  \* the local variables of the round
  rounds,   \* how many rounds have begun
  swarm,    \* replies on their way to the client
  others,   \* the replies to other clients' queries that have been sent
  echoes,   \* Client.gossipEchoes
  pump,     \* whether the goroutine that fills it runs
  credits,  \* history: replies counted, with the query each was counted for
  samples   \* history: the gossipLoss samples of the current round

callVars == <<pc, count, seq, sent, res, expired, rounds>>
topicVars == <<swarm, others, echoes, pump>>
sampleVars == <<credits, samples>>
vars == <<callVars, topicVars, sampleVars>>

(* Round 0 stands for the rounds of other clients. *)
Queries == [round : 0..MaxRounds, seq : 1..MaxCount]

Replies == [query : Queries, by : Members]

NoResult == [sent |-> 0, echoed |-> 0, lost |-> 0, error |-> FALSE]

Init ==
  /\ pc = "idle" /\ count = 0 /\ seq = 0 /\ sent = {}
  /\ res = NoResult /\ expired = FALSE /\ rounds = 0
  /\ swarm = {} /\ others = {} /\ echoes = <<>> /\ pump = TRUE
  /\ credits = {} /\ samples = 0

Current == [round |-> rounds, seq |-> seq]

RepliesTo(q) == {[query |-> q, by |-> m] : m \in Members}

-----------------------------------------------------------------------------
(* The round begins with the topic joined, or fails in the join. *)
Begin(n) ==
  /\ pc = "idle"
  /\ rounds < MaxRounds
  /\ rounds' = rounds + 1
  /\ pc' = "drain" /\ count' = n /\ seq' = 1 /\ sent' = {}
  /\ res' = NoResult /\ expired' = FALSE /\ samples' = 0
  /\ UNCHANGED <<topicVars, credits>>

JoinFails ==
  /\ pc = "idle"
  /\ rounds < MaxRounds
  /\ rounds' = rounds + 1
  /\ sent' = {}
  /\ res' = [NoResult EXCEPT !.error = TRUE] /\ samples' = 0
  /\ UNCHANGED <<pc, count, seq, expired, topicVars, credits>>

(* Replies left in the channel by an earlier round are thrown away. *)
Drain ==
  /\ pc = "drain"
  /\ echoes # <<>>
  /\ echoes' = Tail(echoes)
  /\ UNCHANGED <<callVars, swarm, others, pump, sampleVars>>

Drained ==
  /\ pc = "drain"
  /\ echoes = <<>>
  /\ pc' = "send"
  /\ UNCHANGED <<count, seq, sent, res, expired, rounds, topicVars, sampleVars>>

Broadcast ==
  /\ pc = "send"
  /\ sent' = sent \cup {seq}
  /\ res' = [res EXCEPT !.sent = @ + 1]
  /\ swarm' = swarm \cup RepliesTo(Current)
  /\ pc' = "collect"
  /\ UNCHANGED <<count, seq, expired, rounds, others, echoes, pump, sampleVars>>

(* The round is given up: all that is not echoed is lost, sent or not. *)
BroadcastFails ==
  /\ pc = "send"
  /\ res' = [res EXCEPT !.lost = count - res.echoed, !.error = TRUE]
  /\ pc' = "idle"
  /\ UNCHANGED <<count, seq, sent, expired, rounds, topicVars, sampleVars>>

(* Mutant: the sequence number of the reply is not looked at. *)
AnySeq(r) == IF sent = {} THEN r.query.seq ELSE CHOOSE s \in sent : TRUE

SeqOf(r) == r.query.seq

(* Mutant: the query stays outstanding after its reply. *)
SettleForgotten(s) == UNCHANGED sent

Settle(s) == sent' = sent \ {s}

(* matchEcho *)
Match(r) ==
  IF SeqOf(r) \in sent
  THEN /\ Settle(SeqOf(r))
       /\ res' = [res EXCEPT !.echoed = @ + 1]
       /\ credits' = credits \cup
            {[reply |-> r, query |-> [Current EXCEPT !.seq = SeqOf(r)]]}
  ELSE UNCHANGED <<sent, res, credits>>

(* collectEchoes takes what has arrived without waiting for more. *)
Collect ==
  /\ pc = "collect"
  /\ echoes # <<>>
  /\ Match(Head(echoes))
  /\ echoes' = Tail(echoes)
  /\ UNCHANGED <<pc, count, seq, expired, rounds, swarm, others, pump, samples>>

Collected ==
  /\ pc = "collect"
  /\ echoes = <<>>
  /\ pc' = "gap"
  /\ UNCHANGED <<count, seq, sent, res, expired, rounds, topicVars, sampleVars>>

(* After the interval, or the end of the context, the next query is sent
   unless it is the last or the context is done. *)
NextQuery ==
  /\ pc = "gap"
  /\ seq < count /\ ~expired
  /\ seq' = seq + 1
  /\ pc' = "send"
  /\ UNCHANGED <<count, sent, res, expired, rounds, topicVars, sampleVars>>

LastQuery ==
  /\ pc = "gap"
  /\ seq = count \/ expired
  /\ pc' = "wait"
  /\ UNCHANGED <<count, seq, sent, res, expired, rounds, topicVars, sampleVars>>

(* Mutant: the wait for outstanding echoes does not look at the context. *)
AwaitingForever == sent # {}

Awaiting == sent # {} /\ ~expired

Await ==
  /\ pc = "wait"
  /\ Awaiting
  /\ pc' = "select"
  /\ UNCHANGED <<count, seq, sent, res, expired, rounds, topicVars, sampleVars>>

SelectEcho ==
  /\ pc = "select"
  /\ echoes # <<>>
  /\ Match(Head(echoes))
  /\ echoes' = Tail(echoes)
  /\ pc' = "wait"
  /\ UNCHANGED <<count, seq, expired, rounds, swarm, others, pump, samples>>

SelectDone ==
  /\ pc = "select"
  /\ expired
  /\ pc' = "wait"
  /\ UNCHANGED <<count, seq, sent, res, expired, rounds, topicVars, sampleVars>>

Finish ==
  /\ pc = "wait"
  /\ ~Awaiting
  /\ res' = [res EXCEPT !.lost = Cardinality(sent), !.error = sent # {}]
  /\ samples' = Cardinality(sent)
  /\ pc' = "idle"
  /\ UNCHANGED <<count, seq, sent, expired, rounds, topicVars, credits>>

-----------------------------------------------------------------------------
(* The timeout of the round, or the end of the VU's iteration. *)
Expire ==
  /\ pc # "idle"
  /\ ~expired
  /\ expired' = TRUE
  /\ UNCHANGED <<pc, count, seq, sent, res, rounds, topicVars, sampleVars>>

Room == Len(echoes) < Cap

(* The pump queues a reply, or drops it when the channel is full. *)
Deliver(r) ==
  /\ pump
  /\ r \in swarm
  /\ swarm' = swarm \ {r}
  /\ Room
  /\ echoes' = Append(echoes, r)
  /\ UNCHANGED <<callVars, others, pump, sampleVars>>

Overflow(r) ==
  /\ pump
  /\ r \in swarm
  /\ ~Room
  /\ swarm' = swarm \ {r}
  /\ UNCHANGED <<callVars, others, echoes, pump, sampleVars>>

(* An error event ends the pump for good, while the topic stays cached. *)
PumpEnds ==
  /\ pump
  /\ pump' = FALSE
  /\ UNCHANGED <<callVars, swarm, others, echoes, sampleVars>>

Lose(r) ==
  /\ r \in swarm
  /\ swarm' = swarm \ {r}
  /\ UNCHANGED <<callVars, others, echoes, pump, sampleVars>>

(* A member echoes the query of another client.  Bound: each at most once. *)
Stranger(r) ==
  /\ r.query.round = 0
  /\ r \notin others
  /\ others' = others \cup {r}
  /\ swarm' = swarm \cup {r}
  /\ UNCHANGED <<callVars, echoes, pump, sampleVars>>

-----------------------------------------------------------------------------
RoundStep ==
  \/ Drain \/ Drained \/ Broadcast \/ BroadcastFails
  \/ Collect \/ Collected \/ NextQuery \/ LastQuery
  \/ Await \/ SelectEcho \/ SelectDone \/ Finish

Next ==
  \/ \E n \in 1..MaxCount : Begin(n)
  \/ JoinFails
  \/ RoundStep
  \/ Expire
  \/ \E r \in Replies : Deliver(r) \/ Overflow(r) \/ Lose(r) \/ Stranger(r)
  \/ PumpEnds

Spec == Init /\ [][Next]_vars

(* The goroutine of the round goes on whenever it can, and the timer of its
   context fires.  The swarm and the pump owe nothing. *)
FairSpec == Spec /\ WF_vars(RoundStep) /\ WF_vars(Expire)

-----------------------------------------------------------------------------
(* Every variable has its type, and the channel its capacity. *)
TypeOK ==
  /\ pc \in {"idle", "drain", "send", "collect", "gap", "wait", "select"}
  /\ count \in 0..MaxCount /\ seq \in 0..MaxCount /\ sent \subseteq 1..count
  /\ res \in [sent : 0..MaxCount, echoed : 0..MaxCount, lost : 0..MaxCount,
              error : BOOLEAN]
  /\ expired \in BOOLEAN /\ rounds \in 0..MaxRounds
  /\ swarm \subseteq Replies /\ others \subseteq Replies
  /\ Range(echoes) \subseteq Replies /\ Len(echoes) <= Cap
  /\ pump \in BOOLEAN
  /\ credits \subseteq [reply : Replies, query : Queries]
  /\ samples \in 0..MaxCount

(* The result handed to the script is the account of the round: however many
   replies a query gets it is outstanding or echoed once, and lost, with a
   sample, only when the timeout has passed (gossip.go:43-46).  A round given
   up in its join or in a broadcast has no samples; one that returns without an
   error has lost none and, unless its timeout cut it short, sent them all. *)
OutcomeOf(s) ==
  IF \E a \in credits : a.query = [round |-> rounds, seq |-> s] THEN "echoed"
  ELSE IF s \notin sent THEN "unsent"
  ELSE IF pc # "idle" THEN "outstanding"
  ELSE IF samples > 0 THEN "lost" ELSE "unknown"

AccountState ==
  IF pc # "idle" THEN "open"
  ELSE IF res.error /\ samples = 0 THEN "failed" ELSE "returned"

Outcome == [s \in 1..MaxCount |-> OutcomeOf(s)]

Tally == [sent |-> res.sent, echoed |-> res.echoed, lost |-> res.lost]

Account == INSTANCE EchoAccount WITH
  Sends <- 1..MaxCount,
  state <- AccountState,
  asked <- count,
  late <- pc # "idle" /\ expired,
  outcome <- Outcome,
  tally <- Tally

ImplementsEchoAccount == Account!AccountSpec

(* With one member, a reply counted for a query of another round of this
   client is a late one, and takes an earlier query of the same number to which
   no reply to this client was counted: until a round ends with losses, is given
   up or takes the reply to another client for its own, every round trip
   measured is the query's own. *)
StaleNeedsLoss ==
  Cardinality(Members) = 1 =>
    \A a \in credits : a.reply.query.round \notin {0, a.query.round} =>
      /\ a.reply.query.round < a.query.round
      /\ a.reply.query.seq = a.query.seq
      /\ \E d \in 1..a.reply.query.round :
           ~\E b \in credits :
              b.query = [a.query EXCEPT !.round = d] /\ b.reply.query.round # 0

(* No reply is counted twice and no query has two. *)
OneCreditEach ==
  \A a, b \in credits :
    a.query = b.query \/ a.reply = b.reply => a = b

(* A round ends by its timeout at the latest, whatever became of the replies
   and of the pump (gossip.go:29-30). *)
RoundEnds == pc # "idle" ~> pc = "idle"
=============================================================================

------------------------- MODULE GossipRoundProofs -------------------------
(***************************************************************************)
(* Proofs about GossipRound for any swarm, queries, rounds and channel:    *)
(* how far a reply may be counted for the wrong query, and that each round *)
(* is the account it is specified by.                                      *)
(***************************************************************************)
EXTENDS GossipRound, FiniteSetTheorems, SequenceTheorems, TLAPS

-----------------------------------------------------------------------------
(* The inductive invariant *)

(* The queries of the current round that a reply was counted for. *)
Echoed == {s \in 1..MaxCount :
             \E a \in credits : a.query = [round |-> rounds, seq |-> s]}

(* A query of this client that was broadcast. *)
Issued(q) == q.round \in 1..rounds /\ (q.round = rounds => q.seq <= res.sent)

(* Replies exist to queries that were broadcast, and to those of others. *)
Known(r) == IF r.query.round = 0 THEN r \in others ELSE Issued(r.query)

Counted == {a.reply : a \in credits}

TypeInv == TypeOK /\ echoes \in Seq(Replies)

(* The round: its queries go out in order, and each is outstanding or
   counted. *)
RoundInv ==
  /\ pc # "idle" =>
       /\ rounds >= 1 /\ 1 <= seq /\ seq <= count
       /\ res.lost = 0 /\ samples = 0
       /\ res.sent = IF pc \in {"drain", "send"} THEN seq - 1 ELSE seq
  /\ pc \in {"wait", "select"} => seq = count \/ expired
  /\ sent \cup Echoed = 1..res.sent /\ sent \cap Echoed = {}
  /\ res.echoed + Cardinality(sent) = res.sent
  /\ res.sent <= count

(* A reply is in one place: on its way, once in the channel, or counted. *)
PlaceInv ==
  /\ swarm \cap (Range(echoes) \cup Counted) = {}
  /\ Range(echoes) \cap Counted = {}
  /\ IsInjective(echoes)

KnownInv == \A r \in swarm \cup Range(echoes) \cup Counted : Known(r)

(* A reply is counted for a query of its number, no earlier than its own. *)
CreditInv ==
  \A a \in credits :
    /\ Issued(a.query)
    /\ a.reply.query.seq = a.query.seq
    /\ a.reply.query.round <= a.query.round

(* The numbers of a round that is over. *)
ResultInv ==
  pc = "idle" =>
    \/ samples = Cardinality(sent) /\ res.lost = samples
       /\ res.error = (sent # {})
    \/ samples = 0 /\ res.error

Inv ==
  /\ TypeInv /\ RoundInv /\ PlaceInv /\ KnownInv
  /\ CreditInv /\ OneCreditEach /\ ResultInv

-----------------------------------------------------------------------------
(* Sequences, records and finite sets *)

LEMMA Bounds ==
  /\ MaxCount \in Nat /\ MaxCount > 0 /\ MaxRounds \in Nat
  /\ Cap \in Nat /\ Cap > 0
BY GossipAssumption

LEMMA ReplyFields ==
  /\ \A q \in Queries : q.round \in 0..MaxRounds /\ q.seq \in 1..MaxCount
  /\ \A q \in Queries : \A r, s :
       q = [round |-> r, seq |-> s] <=> q.round = r /\ q.seq = s
  /\ \A r \in Replies : r.query \in Queries /\ r.by \in Members
BY DEF Queries, Replies

LEMMA QueryIs ==
  ASSUME NEW r \in 0..MaxRounds, NEW s \in 1..MaxCount
  PROVE  [round |-> r, seq |-> s] \in Queries
BY DEF Queries

LEMMA RangeAppend ==
  ASSUME NEW q \in Seq(Replies), NEW e \in Replies, e \notin Range(q),
         IsInjective(q)
  PROVE  /\ Append(q, e) \in Seq(Replies) /\ Len(Append(q, e)) = Len(q) + 1
         /\ Range(Append(q, e)) = Range(q) \cup {e}
         /\ IsInjective(Append(q, e))
<1> DEFINE r == Append(q, e)
<1>1. /\ r \in Seq(Replies) /\ Len(r) = Len(q) + 1 /\ Len(q) \in Nat
      /\ \A i \in 1..Len(q) : r[i] = q[i]
      /\ r[Len(q) + 1] = e
  OBVIOUS
<1>2. DOMAIN r = 1..(Len(q) + 1) /\ DOMAIN q = 1..Len(q)
  BY <1>1
<1> HIDE DEF r
<1>3. \A i \in DOMAIN q : i \in DOMAIN r /\ r[i] = q[i]
  BY <1>1, <1>2
<1>4. Len(q) + 1 \in DOMAIN r
  BY <1>1, <1>2
<1>5. \A i \in DOMAIN r : i \in DOMAIN q \/ i = Len(q) + 1
  BY <1>1, <1>2
<1>6. Range(r) = Range(q) \cup {e}
  BY <1>1, <1>3, <1>4, <1>5 DEF Range
<1>7. \A i \in DOMAIN q : r[i] # e
  BY <1>3 DEF Range
<1>8. IsInjective(r)
  BY <1>1, <1>3, <1>5, <1>7 DEF IsInjective
<1> QED
  BY <1>1, <1>6, <1>8 DEF r

LEMMA RangeTail ==
  ASSUME NEW q \in Seq(Replies), q # <<>>, IsInjective(q)
  PROVE  /\ Tail(q) \in Seq(Replies) /\ Len(Tail(q)) = Len(q) - 1
         /\ Head(q) \in Range(q) /\ Head(q) \in Replies
         /\ Range(Tail(q)) = Range(q) \ {Head(q)}
         /\ IsInjective(Tail(q))
<1> DEFINE r == Tail(q)
<1>1. /\ r \in Seq(Replies) /\ Len(r) = Len(q) - 1 /\ Len(q) \in Nat
      /\ Len(q) > 0
      /\ \A i \in 1..Len(r) : r[i] = q[i + 1]
      /\ Head(q) = q[1]
  OBVIOUS
<1>2. DOMAIN r = 1..(Len(q) - 1) /\ DOMAIN q = 1..Len(q)
  BY <1>1
<1> HIDE DEF r
<1>3. 1 \in DOMAIN q /\ Head(q) \in Range(q) /\ Head(q) \in Replies
  BY <1>1, <1>2 DEF Range
<1>4. \A i \in DOMAIN r : i + 1 \in DOMAIN q /\ i + 1 # 1 /\ r[i] = q[i + 1]
  BY <1>1, <1>2
<1>5. \A i \in DOMAIN q : i # 1 => i - 1 \in DOMAIN r /\ r[i - 1] = q[i]
  <2> SUFFICES ASSUME NEW i \in DOMAIN q, i # 1
               PROVE  i - 1 \in DOMAIN r /\ r[i - 1] = q[i]
    OBVIOUS
  <2>1. i - 1 \in DOMAIN r /\ (i - 1) + 1 = i
    BY <1>1, <1>2
  <2> QED
    BY <1>4, <2>1
<1>6. Range(r) = Range(q) \ {Head(q)}
  <2>1. ASSUME NEW x \in Range(r) PROVE x \in Range(q) \ {Head(q)}
    <3>1. PICK i \in DOMAIN r : x = r[i]
      BY DEF Range
    <3>2. i + 1 \in DOMAIN q /\ i + 1 # 1 /\ x = q[i + 1]
      BY <1>4, <3>1
    <3> QED
      BY <1>1, <1>3, <3>2 DEF Range, IsInjective
  <2>2. ASSUME NEW x \in Range(q) \ {Head(q)} PROVE x \in Range(r)
    <3>1. PICK i \in DOMAIN q : x = q[i]
      BY DEF Range
    <3>2. i # 1
      BY <1>1, <3>1
    <3> QED
      BY <1>5, <3>1, <3>2 DEF Range
  <2> QED
    BY <2>1, <2>2
<1>7. IsInjective(r)
  <2> SUFFICES ASSUME NEW i \in DOMAIN r, NEW j \in DOMAIN r, r[i] = r[j]
               PROVE  i = j
    BY DEF IsInjective
  <2>1. i + 1 = j + 1
    BY <1>4 DEF IsInjective
  <2> QED
    BY <1>2, <2>1
<1> QED
  BY <1>1, <1>3, <1>6, <1>7 DEF r

-----------------------------------------------------------------------------
(* Types *)

LocalOK ==
  /\ pc \in {"idle", "drain", "send", "collect", "gap", "wait", "select"}
  /\ count \in 0..MaxCount /\ seq \in 0..MaxCount
  /\ expired \in BOOLEAN /\ rounds \in 0..MaxRounds /\ pump \in BOOLEAN

NetOK ==
  /\ swarm \subseteq Replies /\ others \subseteq Replies
  /\ echoes \in Seq(Replies) /\ Len(echoes) <= Cap

ResultOK ==
  /\ sent \subseteq 1..count
  /\ res \in [sent : 0..MaxCount, echoed : 0..MaxCount, lost : 0..MaxCount,
              error : BOOLEAN]
  /\ samples \in 0..MaxCount

CreditsOK == credits \subseteq [reply : Replies, query : Queries]

LEMMA TypeParts ==
  /\ TypeInv <=> LocalOK /\ NetOK /\ ResultOK /\ CreditsOK
  /\ TypeInv' <=> LocalOK' /\ NetOK' /\ ResultOK' /\ CreditsOK'
<1>1. \A q \in Seq(Replies) : Range(q) \subseteq Replies
  BY DEF Range
<1>2. TypeInv <=> LocalOK /\ NetOK /\ ResultOK /\ CreditsOK
  BY <1>1 DEF TypeInv, TypeOK, LocalOK, NetOK, ResultOK, CreditsOK
<1>3. TypeInv' <=> LocalOK' /\ NetOK' /\ ResultOK' /\ CreditsOK'
  BY <1>1 DEF TypeInv, TypeOK, LocalOK, NetOK, ResultOK, CreditsOK
<1> QED
  BY <1>2, <1>3

LEMMA LocalTypes ==
  ASSUME LocalOK, RoundInv, [Next]_vars
  PROVE  LocalOK'
<1> USE Bounds DEF LocalOK, callVars, topicVars, sampleVars
<1>1. ASSUME NEW n \in 1..MaxCount, Begin(n)
      PROVE  LocalOK'
  <2>1. /\ pc' = "drain" /\ count' = n /\ seq' = 1 /\ expired' = FALSE
        /\ pump' = pump /\ rounds < MaxRounds /\ rounds' = rounds + 1
    BY <1>1 DEF Begin
  <2>2. rounds' \in 0..MaxRounds /\ seq' \in 0..MaxCount /\ n \in 0..MaxCount
    BY <2>1
  <2> QED
    BY <2>1, <2>2
<1>2. CASE JoinFails
  <2>1. /\ rounds < MaxRounds /\ rounds' = rounds + 1
        /\ UNCHANGED <<pc, count, seq, expired, pump>>
    BY <1>2 DEF JoinFails
  <2>2. rounds' \in 0..MaxRounds
    BY <2>1
  <2> QED
    BY <2>1, <2>2
<1>3. CASE NextQuery
  <2>1. seq + 1 \in 0..MaxCount
    BY <1>3 DEF NextQuery, RoundInv
  <2> QED
    BY <1>3, <2>1 DEF NextQuery
<1>4. CASE \/ Drain \/ Drained \/ Broadcast \/ BroadcastFails \/ Collect
           \/ Collected \/ LastQuery \/ Await \/ SelectEcho \/ SelectDone
           \/ Finish
  BY <1>4 DEF Drain, Drained, Broadcast, BroadcastFails, Collect, Collected,
              LastQuery, Await, SelectEcho, SelectDone, Finish
<1>5. CASE Expire \/ PumpEnds \/ UNCHANGED vars
  BY <1>5 DEF Expire, PumpEnds, vars
<1>6. ASSUME NEW r \in Replies,
             Deliver(r) \/ Overflow(r) \/ Lose(r) \/ Stranger(r)
      PROVE  LocalOK'
  BY <1>6 DEF Deliver, Overflow, Lose, Stranger
<1> QED
  BY <1>1, <1>2, <1>3, <1>4, <1>5, <1>6 DEF Next, RoundStep

(* What a reply that is taken out of the channel does. *)
LEMMA Takes ==
  ASSUME TypeInv, PlaceInv, Drain \/ Collect \/ SelectEcho
  PROVE  /\ echoes' = Tail(echoes) /\ echoes' \in Seq(Replies)
         /\ Len(echoes') <= Cap
         /\ Head(echoes) \in Range(echoes) /\ Head(echoes) \in Replies
         /\ Range(echoes') = Range(echoes) \ {Head(echoes)}
         /\ IsInjective(echoes')
         /\ UNCHANGED <<swarm, others, pump>>
<1>1. /\ echoes # <<>> /\ echoes' = Tail(echoes)
      /\ UNCHANGED <<swarm, others, pump>>
  BY DEF Drain, Collect, SelectEcho
<1>2. echoes \in Seq(Replies) /\ IsInjective(echoes)
  BY DEF TypeInv, PlaceInv
<1>3. Len(echoes) <= Cap /\ Len(echoes) \in Nat
  BY <1>2 DEF TypeInv, TypeOK
<1>4. Len(echoes') = Len(echoes) - 1
  BY <1>1, <1>2, RangeTail
<1>5. Len(echoes') <= Cap
  BY <1>3, <1>4, Bounds
<1> QED
  BY <1>1, <1>2, <1>5, RangeTail

LEMMA DeliverAppends ==
  ASSUME TypeInv, PlaceInv, NEW r \in Replies, Deliver(r)
  PROVE  /\ echoes' \in Seq(Replies) /\ Len(echoes') <= Cap
         /\ Range(echoes') = Range(echoes) \cup {r}
         /\ IsInjective(echoes')
         /\ r \in swarm /\ swarm' = swarm \ {r}
         /\ UNCHANGED <<callVars, others, pump, sampleVars>>
<1>1. /\ r \in swarm /\ swarm' = swarm \ {r} /\ Len(echoes) < Cap
      /\ echoes' = Append(echoes, r)
      /\ UNCHANGED <<callVars, others, pump, sampleVars>>
  BY DEF Deliver, Room
<1>2. echoes \in Seq(Replies) /\ IsInjective(echoes) /\ r \notin Range(echoes)
  BY <1>1 DEF TypeInv, PlaceInv
<1>3. Len(echoes') = Len(echoes) + 1 /\ Len(echoes) \in Nat
  BY <1>1, <1>2, RangeAppend
<1>4. Len(echoes') <= Cap
  BY <1>1, <1>3, Bounds
<1> QED
  BY <1>1, <1>2, <1>4, RangeAppend

LEMMA CurrentType ==
  ASSUME LocalOK, RoundInv, pc # "idle"
  PROVE  Current \in Queries /\ Current.round = rounds /\ Current.seq = seq
<1>1. rounds \in 0..MaxRounds /\ seq \in 1..MaxCount
  BY Bounds DEF LocalOK, RoundInv
<1> QED
  BY <1>1, QueryIs DEF Current

LEMMA NetTypes ==
  ASSUME TypeInv, RoundInv, PlaceInv, [Next]_vars
  PROVE  NetOK'
<1>1. NetOK
  BY TypeParts
<1>2. CASE Drain \/ Collect \/ SelectEcho
  BY <1>1, <1>2, Takes DEF NetOK
<1>3. ASSUME NEW r \in Replies, Deliver(r) PROVE NetOK'
  BY <1>1, <1>3, DeliverAppends DEF NetOK
<1>4. ASSUME NEW r \in Replies, Overflow(r) \/ Lose(r) \/ Stranger(r)
      PROVE  NetOK'
  BY <1>1, <1>4 DEF NetOK, Overflow, Lose, Stranger
<1>5. CASE Broadcast
  <2>1. Current \in Queries
    BY <1>5, CurrentType, TypeParts DEF Broadcast
  <2>2. RepliesTo(Current) \subseteq Replies
    BY <2>1 DEF RepliesTo, Replies
  <2> QED
    BY <1>1, <1>5, <2>2 DEF NetOK, Broadcast
<1>6. CASE UNCHANGED <<swarm, others, echoes>>
  BY <1>1, <1>6 DEF NetOK
<1> QED
  BY <1>2, <1>3, <1>4, <1>5, <1>6
     DEF Next, RoundStep, Begin, JoinFails, Drained, BroadcastFails, Collected,
         NextQuery, LastQuery, Await, SelectDone, Finish, Expire, PumpEnds,
         topicVars, vars

-----------------------------------------------------------------------------
(* The round *)

LEMMA SentFinite ==
  ASSUME TypeInv
  PROVE  IsFiniteSet(sent) /\ Cardinality(sent) \in Nat
<1>1. sent \subseteq 1..count /\ count \in Int
  BY Bounds DEF TypeInv, TypeOK
<1>2. IsFiniteSet(1..count)
  BY <1>1, FS_Interval
<1> QED
  BY <1>1, <1>2, FS_Subset, FS_CardinalityType

LEMMA EchoedSame ==
  ASSUME UNCHANGED <<credits, rounds>>
  PROVE  Echoed' = Echoed
BY DEF Echoed

(* A round begins with no reply to its queries. *)
LEMMA EchoedNone ==
  ASSUME LocalOK, CreditInv, rounds' = rounds + 1, credits' = credits
  PROVE  Echoed' = {}
<1>1. ASSUME NEW a \in credits, NEW s \in 1..MaxCount
      PROVE  a.query # [round |-> rounds + 1, seq |-> s]
  <2>1. a.query.round \in 1..rounds /\ rounds \in Nat
    BY Bounds DEF CreditInv, Issued, LocalOK
  <2>2. a.query.round # rounds + 1
    BY <2>1
  <2> QED
    BY <2>2
<1> QED
  BY <1>1 DEF Echoed

(* What Match does: a reply to an outstanding query is counted. *)
LEMMA MatchCounts ==
  ASSUME TypeInv, RoundInv, UNCHANGED rounds,
         NEW r \in Replies, Match(r), r.query.seq \in sent
  PROVE  /\ sent' = sent \ {r.query.seq}
         /\ res' = [res EXCEPT !.echoed = @ + 1]
         /\ Echoed' = Echoed \cup {r.query.seq}
         /\ r.query.seq \in 1..MaxCount
         /\ credits' = credits \cup
              {[reply |-> r,
                query |-> [round |-> rounds, seq |-> r.query.seq]]}
<1> DEFINE q == [round |-> rounds, seq |-> r.query.seq]
           c == [reply |-> r, query |-> q]
<1>1. /\ sent' = sent \ {r.query.seq}
      /\ res' = [res EXCEPT !.echoed = @ + 1]
      /\ credits' = credits \cup {c} /\ c.query = q
  BY DEF Match, SeqOf, Settle, Current
<1>2. r.query.seq \in 1..MaxCount
  BY ReplyFields
<1>3. \A s : q = [round |-> rounds, seq |-> s] <=> s = r.query.seq
  OBVIOUS
<1> HIDE DEF q, c
<1>4. ASSUME NEW s \in 1..MaxCount
      PROVE  s \in Echoed' <=> s \in Echoed \/ s = r.query.seq
  <2>1. s \in Echoed <=> \E a \in credits : a.query = [round |-> rounds, seq |-> s]
    BY DEF Echoed
  <2>2. s \in Echoed' <=> \E a \in credits' : a.query = [round |-> rounds, seq |-> s]
    BY DEF Echoed
  <2> QED
    BY <1>1, <1>3, <2>1, <2>2
<1>5. Echoed \subseteq 1..MaxCount /\ Echoed' \subseteq 1..MaxCount
  BY DEF Echoed
<1>6. Echoed' = Echoed \cup {r.query.seq}
  BY <1>2, <1>4, <1>5
<1> QED
  BY <1>1, <1>2, <1>6 DEF q, c

LEMMA MatchSkips ==
  ASSUME NEW r, Match(r), r.query.seq \notin sent
  PROVE  UNCHANGED <<sent, res, credits>>
BY DEF Match, SeqOf

(* Where the round is, ... *)
PhaseInv ==
  /\ pc # "idle" =>
       /\ rounds >= 1 /\ 1 <= seq /\ seq <= count
       /\ res.lost = 0 /\ samples = 0
       /\ res.sent = IF pc \in {"drain", "send"} THEN seq - 1 ELSE seq
  /\ pc \in {"wait", "select"} => seq = count \/ expired

(* ... and what has become of its queries. *)
SumInv ==
  /\ sent \cup Echoed = 1..res.sent /\ sent \cap Echoed = {}
  /\ res.echoed + Cardinality(sent) = res.sent
  /\ res.sent <= count

LEMMA RoundParts ==
  /\ RoundInv <=> PhaseInv /\ SumInv
  /\ RoundInv' <=> PhaseInv' /\ SumInv'
BY DEF RoundInv, PhaseInv, SumInv

LEMMA ResultTypes ==
  ASSUME ResultOK
  PROVE  /\ res.sent \in Nat /\ res.echoed \in Nat /\ res.lost \in Nat
         /\ res.error \in BOOLEAN
         /\ res = [sent |-> res.sent, echoed |-> res.echoed,
                   lost |-> res.lost, error |-> res.error]
         /\ \A n : [res EXCEPT !.sent = n].sent = n
                   /\ [res EXCEPT !.sent = n].echoed = res.echoed
                   /\ [res EXCEPT !.sent = n].lost = res.lost
                   /\ [res EXCEPT !.sent = n].error = res.error
         /\ \A n : [res EXCEPT !.echoed = n].echoed = n
                   /\ [res EXCEPT !.echoed = n].sent = res.sent
                   /\ [res EXCEPT !.echoed = n].lost = res.lost
                   /\ [res EXCEPT !.echoed = n].error = res.error
         /\ \A n, e : [res EXCEPT !.lost = n, !.error = e].lost = n
                   /\ [res EXCEPT !.lost = n, !.error = e].error = e
                   /\ [res EXCEPT !.lost = n, !.error = e].sent = res.sent
                   /\ [res EXCEPT !.lost = n, !.error = e].echoed = res.echoed
BY Bounds DEF ResultOK

LEMMA PhaseKeeps ==
  ASSUME TypeInv, RoundInv, [Next]_vars
  PROVE  PhaseInv'
<1>1. LocalOK /\ ResultOK /\ PhaseInv /\ res.sent \in Nat
  BY TypeParts, RoundParts, ResultTypes
<1> USE <1>1, Bounds DEF LocalOK, PhaseInv, callVars, topicVars, sampleVars
<1>2. ASSUME NEW n \in 1..MaxCount, Begin(n)
      PROVE  PhaseInv'
  <2>1. /\ pc' = "drain" /\ count' = n /\ seq' = 1 /\ samples' = 0
        /\ rounds' = rounds + 1 /\ res'.lost = 0 /\ res'.sent = 0
    BY <1>2 DEF Begin, NoResult
  <2> QED
    BY <2>1
<1>3. CASE JoinFails \/ BroadcastFails \/ Finish
  BY <1>3 DEF JoinFails, BroadcastFails, Finish
<1>4. CASE Broadcast
  <2>1. /\ pc = "send" /\ pc' = "collect"
        /\ res'.sent = res.sent + 1 /\ res'.lost = res.lost
        /\ UNCHANGED <<count, seq, rounds, samples>>
    BY <1>4, ResultTypes DEF Broadcast
  <2> QED
    BY <2>1
<1>5. CASE Collect \/ SelectEcho
  <2>1. Match(Head(echoes))
    BY <1>5 DEF Collect, SelectEcho
  <2>2. res'.sent = res.sent /\ res'.lost = res.lost
    BY <2>1, ResultTypes DEF Match
  <2>3. /\ \/ pc = "collect" /\ pc' = "collect"
           \/ pc = "select" /\ pc' = "wait"
        /\ UNCHANGED <<count, seq, expired, rounds, samples>>
    BY <1>5 DEF Collect, SelectEcho
  <2> QED
    BY <2>2, <2>3
<1>6. CASE NextQuery
  BY <1>6 DEF NextQuery
<1>7. CASE LastQuery
  BY <1>7 DEF LastQuery
<1>8. CASE Drain \/ Drained \/ Collected \/ Await \/ SelectDone
  BY <1>8 DEF Drain, Drained, Collected, Await, SelectDone
<1>9. CASE Expire
  BY <1>9 DEF Expire
<1>10. CASE UNCHANGED <<callVars, samples>>
  BY <1>10
<1> QED
  BY <1>2, <1>3, <1>4, <1>5, <1>6, <1>7, <1>8, <1>9, <1>10
     DEF Next, RoundStep, PumpEnds, Deliver, Overflow, Lose, Stranger, vars

LEMMA ResultFits ==
  ASSUME LocalOK', SumInv', sent' \subseteq 1..count',
         res' \in [sent : Nat, echoed : Nat, lost : 0..MaxCount, error : BOOLEAN],
         samples' \in 0..MaxCount
  PROVE  ResultOK'
<1>1. count' \in Nat /\ count' <= MaxCount
  BY Bounds DEF LocalOK
<1>2. Cardinality(sent') \in Nat
  <2>1. IsFiniteSet(1..count')
    BY <1>1, FS_Interval
  <2>2. IsFiniteSet(sent')
    BY <2>1, FS_Subset
  <2> QED
    BY <2>2, FS_CardinalityType
<1>3. /\ res'.sent \in Nat /\ res'.echoed \in Nat
      /\ res'.echoed + Cardinality(sent') = res'.sent /\ res'.sent <= count'
  BY DEF SumInv
<1>4. res'.sent \in 0..MaxCount /\ res'.echoed \in 0..MaxCount
  BY <1>1, <1>2, <1>3, Bounds
<1> QED
  BY <1>4 DEF ResultOK

LEMMA SentBounded ==
  ASSUME LocalOK, SumInv, ResultOK, IsFiniteSet(sent)
  PROVE  Cardinality(sent) \in 0..MaxCount
<1>1. Cardinality(sent) \in Nat
  BY FS_CardinalityType
<1>2. /\ res.sent \in Nat /\ res.echoed \in Nat /\ count <= MaxCount
      /\ count \in Nat /\ res.sent <= count
      /\ res.echoed + Cardinality(sent) = res.sent
  BY Bounds, ResultTypes DEF LocalOK, SumInv
<1> QED
  BY <1>1, <1>2, Bounds

(* The sums while nothing is counted, broadcast or begun. *)
LEMMA SumSame ==
  ASSUME SumInv, UNCHANGED <<credits, rounds, sent, count>>,
         res'.sent = res.sent, res'.echoed = res.echoed
  PROVE  SumInv'
BY EchoedSame DEF SumInv

LEMMA SumKeeps ==
  ASSUME TypeInv, RoundInv, CreditInv, LocalOK', [Next]_vars
  PROVE  SumInv' /\ ResultOK'
<1>1. LocalOK /\ ResultOK /\ PhaseInv /\ SumInv
  BY TypeParts, RoundParts
<1>2. /\ IsFiniteSet(sent) /\ Cardinality(sent) \in Nat
      /\ Cardinality(sent) \in 0..MaxCount
  BY <1>1, SentFinite, SentBounded
<1>3. /\ res.sent \in Nat /\ res.echoed \in Nat /\ res.lost \in Nat
      /\ count \in 0..MaxCount /\ sent \subseteq 1..count
  BY <1>1, ResultTypes DEF LocalOK, ResultOK
<1>4. ASSUME \/ \E n \in 1..MaxCount : Begin(n)
             \/ JoinFails
      PROVE  SumInv' /\ ResultOK'
  <2>1. /\ rounds' = rounds + 1 /\ credits' = credits
        /\ sent' = {} /\ samples' = 0
        /\ res'.sent = 0 /\ res'.echoed = 0
        /\ res' \in [sent : Nat, echoed : Nat, lost : 0..MaxCount, error : BOOLEAN]
    <3>1. CASE \E n \in 1..MaxCount : Begin(n)
      BY <3>1, Bounds DEF Begin, NoResult
    <3>2. CASE JoinFails
      <4>1. res' = [sent |-> 0, echoed |-> 0, lost |-> 0, error |-> TRUE]
        BY <3>2 DEF JoinFails, NoResult
      <4>2. res' \in [sent : Nat, echoed : Nat, lost : 0..MaxCount, error : BOOLEAN]
        BY <4>1, Bounds
      <4> QED
        BY <3>2, <4>1, <4>2 DEF JoinFails
    <3> QED
      BY <1>4, <3>1, <3>2
  <2>2. Echoed' = {} /\ Cardinality({}) = 0
    BY <1>1, <2>1, EchoedNone, FS_EmptySet
  <2>3. count' \in Nat
    BY Bounds DEF LocalOK
  <2>4. SumInv'
    BY <2>1, <2>2, <2>3 DEF SumInv
  <2> QED
    BY <2>1, <2>4, Bounds, ResultFits
<1>5. CASE Broadcast
  <2>1. /\ pc = "send" /\ sent' = sent \cup {seq} /\ count' = count
        /\ UNCHANGED <<credits, rounds, samples>>
        /\ res' = [res EXCEPT !.sent = @ + 1]
    BY <1>5 DEF Broadcast, sampleVars
  <2>2. res.sent = seq - 1 /\ seq \in 1..count
    BY <1>1, <1>3, <2>1 DEF PhaseInv, LocalOK
  <2>3. /\ res'.sent = seq /\ res'.echoed = res.echoed
        /\ res' \in [sent : Nat, echoed : Nat, lost : 0..MaxCount, error : BOOLEAN]
    <3>1. res.sent + 1 = seq
      BY <1>3, <2>2
    <3>2. res.sent + 1 \in Nat
      BY <1>3
    <3>3. res' = [sent |-> res.sent + 1, echoed |-> res.echoed,
                  lost |-> res.lost, error |-> res.error]
      BY <1>1, <2>1 DEF ResultOK
    <3>4. res.lost \in 0..MaxCount /\ res.error \in BOOLEAN
      BY <1>1 DEF ResultOK
    <3> QED
      BY <1>3, <3>1, <3>2, <3>3, <3>4
  <2>4. seq \notin sent /\ 1..seq = 1..res.sent \cup {seq} /\ seq \notin Echoed
    <3>1. seq \notin 1..res.sent /\ 1..seq = 1..res.sent \cup {seq}
      BY <1>3, <2>2
    <3> QED
      BY <1>1, <3>1 DEF SumInv
  <2>5. Cardinality(sent') = Cardinality(sent) + 1
    BY <1>2, <2>1, <2>4, FS_AddElement
  <2>6. /\ sent' \cup Echoed' = 1..res'.sent /\ sent' \cap Echoed' = {}
    BY <1>1, <2>1, <2>3, <2>4, EchoedSame DEF SumInv
  <2>7. res'.echoed + Cardinality(sent') = res'.sent /\ res'.sent <= count'
    BY <1>1, <1>2, <1>3, <2>1, <2>2, <2>3, <2>5 DEF SumInv
  <2>8. SumInv'
    BY <2>6, <2>7 DEF SumInv
  <2>9. sent' \subseteq 1..count' /\ samples' \in 0..MaxCount
    BY <1>1, <1>3, <2>1, <2>2 DEF ResultOK
  <2> QED
    BY <2>3, <2>8, <2>9, ResultFits
<1>6. CASE Collect \/ SelectEcho
  <2> DEFINE r == Head(echoes)
             s == r.query.seq
  <2>1. /\ Match(r) /\ UNCHANGED <<rounds, count, samples>>
        /\ r \in Replies
    BY <1>6 DEF Collect, SelectEcho, TypeInv, TypeOK
  <2>2. CASE s \notin sent
    <3>1. UNCHANGED <<sent, res, credits>>
      BY <2>1, <2>2, MatchSkips
    <3>2. SumInv'
      BY <1>1, <2>1, <3>1, SumSame
    <3> QED
      BY <1>1, <2>1, <3>1, <3>2 DEF ResultOK
  <2>3. CASE s \in sent
    <3> HIDE DEF r
    <3>1. /\ sent' = sent \ {s} /\ Echoed' = Echoed \cup {s}
          /\ res' = [res EXCEPT !.echoed = @ + 1]
      BY <2>1, <2>3, MatchCounts
    <3>2. Cardinality(sent') = Cardinality(sent) - 1
      BY <1>2, <2>3, <3>1, FS_RemoveElement
    <3>3. /\ res'.sent = res.sent /\ res'.echoed = res.echoed + 1
          /\ res' \in [sent : Nat, echoed : Nat, lost : 0..MaxCount, error : BOOLEAN]
      <4>1. res.echoed + 1 \in Nat
        BY <1>3
      <4>2. res' = [sent |-> res.sent, echoed |-> res.echoed + 1,
                    lost |-> res.lost, error |-> res.error]
        BY <1>1, <3>1 DEF ResultOK
      <4>3. res.lost \in 0..MaxCount /\ res.error \in BOOLEAN
        BY <1>1 DEF ResultOK
      <4> QED
        BY <1>3, <4>1, <4>2, <4>3
    <3>4. sent' \cup Echoed' = 1..res'.sent /\ sent' \cap Echoed' = {}
      BY <1>1, <2>3, <3>1, <3>3 DEF SumInv
    <3>5. res'.echoed + Cardinality(sent') = res'.sent /\ res'.sent <= count'
      BY <1>1, <1>2, <1>3, <2>1, <3>2, <3>3 DEF SumInv
    <3>6. SumInv'
      BY <3>4, <3>5 DEF SumInv
    <3>7. sent' \subseteq 1..count' /\ samples' \in 0..MaxCount
      BY <1>1, <2>1, <3>1 DEF ResultOK
    <3> QED
      BY <3>3, <3>6, <3>7, ResultFits
  <2> QED
    BY <2>2, <2>3
<1>7. CASE BroadcastFails \/ Finish
  <2>1. UNCHANGED <<credits, rounds, sent, count>>
    BY <1>7 DEF BroadcastFails, Finish, sampleVars
  <2>2. PICK n, e : /\ res' = [res EXCEPT !.lost = n, !.error = e]
                    /\ n \in 0..MaxCount /\ e \in BOOLEAN
    <3>1. CASE BroadcastFails
      <4>1. count - res.echoed \in 0..MaxCount
        BY <1>1, <1>2, <1>3, Bounds DEF SumInv
      <4> QED
        BY <3>1, <4>1 DEF BroadcastFails
    <3>2. CASE Finish
      BY <1>2, <3>2 DEF Finish
    <3> QED
      BY <1>7, <3>1, <3>2
  <2>3. res' = [sent |-> res.sent, echoed |-> res.echoed, lost |-> n, error |-> e]
    BY <1>1, <2>2 DEF ResultOK
  <2>4. SumInv'
    BY <1>1, <2>1, <2>3, SumSame
  <2>5. samples' \in 0..MaxCount
    BY <1>1, <1>2, <1>7 DEF BroadcastFails, Finish, sampleVars, ResultOK
  <2>6. sent' \subseteq 1..count'
    BY <1>3, <2>1
  <2>7. res' \in [sent : Nat, echoed : Nat, lost : 0..MaxCount, error : BOOLEAN]
    BY <1>3, <2>2, <2>3
  <2> QED
    BY <2>4, <2>5, <2>6, <2>7, ResultFits
<1>8. CASE UNCHANGED <<credits, rounds, sent, count, res, samples>>
  BY <1>1, <1>8, SumSame DEF ResultOK
<1> QED
  BY <1>4, <1>5, <1>6, <1>7, <1>8
     DEF Next, RoundStep, Drain, Drained, Collected, NextQuery, LastQuery,
         Await, SelectDone, Expire, PumpEnds, Deliver, Overflow, Lose,
         Stranger, callVars, sampleVars, vars

LEMMA ResultKeeps ==
  ASSUME TypeInv, RoundInv, ResultInv, [Next]_vars
  PROVE  ResultInv'
<1>1. LocalOK /\ ResultOK /\ PhaseInv
  BY TypeParts, RoundParts
<1> USE DEF ResultInv
<1>2. ASSUME NEW n \in 1..MaxCount, Begin(n)
      PROVE  ResultInv'
  BY <1>2 DEF Begin
<1>3. CASE JoinFails
  <2>1. samples' = 0 /\ res' = [NoResult EXCEPT !.error = TRUE]
    BY <1>3 DEF JoinFails
  <2> QED
    BY <2>1 DEF NoResult
<1>4. CASE BroadcastFails
  <2>1. /\ pc = "send" /\ samples' = samples
        /\ res' = [res EXCEPT !.lost = count - res.echoed, !.error = TRUE]
    BY <1>4 DEF BroadcastFails, sampleVars
  <2> QED
    BY <1>1, <2>1, ResultTypes DEF PhaseInv
<1>5. CASE Finish
  <2>1. /\ samples' = Cardinality(sent) /\ sent' = sent
        /\ res' = [res EXCEPT !.lost = Cardinality(sent), !.error = sent # {}]
    BY <1>5 DEF Finish
  <2>2. res'.lost = Cardinality(sent) /\ res'.error = (sent # {})
    BY <1>1, <2>1, ResultTypes
  <2> QED
    BY <2>1, <2>2
<1>6. CASE pc' # "idle"
  BY <1>6
<1>7. CASE UNCHANGED <<pc, sent, res, samples>>
  BY <1>7
<1> QED
  BY <1>2, <1>3, <1>4, <1>5, <1>6, <1>7
     DEF Next, RoundStep, Drain, Drained, Broadcast, Collect, Collected,
         NextQuery, LastQuery, Await, SelectEcho, SelectDone, Expire, PumpEnds,
         Deliver, Overflow, Lose, Stranger, callVars, sampleVars, vars

-----------------------------------------------------------------------------
(* Replies and what they are counted for *)

(* What has been broadcast stays so. *)
LEMMA Grows ==
  ASSUME TypeInv, [Next]_vars
  PROVE  /\ others \subseteq others'
         /\ \/ rounds' = rounds + 1
            \/ /\ rounds' = rounds
               /\ res'.sent \in Nat /\ res'.sent >= res.sent
<1>1. ResultOK /\ res.sent \in Nat
  BY TypeParts, ResultTypes
<1>2. CASE (\E n \in 1..MaxCount : Begin(n)) \/ JoinFails
  BY <1>2 DEF Begin, JoinFails, topicVars
<1>3. CASE Broadcast
  <2>1. res'.sent = res.sent + 1
    BY <1>1, <1>3, ResultTypes DEF Broadcast
  <2> QED
    BY <1>1, <1>3, <2>1 DEF Broadcast
<1>4. CASE Collect \/ SelectEcho
  <2>1. Match(Head(echoes)) /\ UNCHANGED <<rounds, others>>
    BY <1>4 DEF Collect, SelectEcho
  <2>2. res'.sent = res.sent
    BY <1>1, <2>1, ResultTypes DEF Match
  <2> QED
    BY <1>1, <2>1, <2>2
<1>5. CASE BroadcastFails \/ Finish
  <2>1. UNCHANGED <<rounds, others>>
    BY <1>5 DEF BroadcastFails, Finish, topicVars
  <2>2. res'.sent = res.sent
    BY <1>1, <1>5, ResultTypes DEF BroadcastFails, Finish
  <2> QED
    BY <1>1, <2>1, <2>2
<1>6. ASSUME NEW r \in Replies, Stranger(r)
      PROVE  others \subseteq others' /\ UNCHANGED <<rounds, res>>
  BY <1>6 DEF Stranger, callVars
<1>7. CASE UNCHANGED <<rounds, res, others>>
  BY <1>1, <1>7
<1> QED
  BY <1>1, <1>2, <1>3, <1>4, <1>5, <1>6, <1>7
     DEF Next, RoundStep, Drain, Drained, Collected, NextQuery, LastQuery,
         Await, SelectDone, Expire, PumpEnds, Deliver, Overflow, Lose,
         callVars, topicVars, vars

LEMMA IssuedStays ==
  ASSUME TypeInv, [Next]_vars
  PROVE  /\ \A q \in Queries : Issued(q) => Issued(q)'
         /\ \A r \in Replies : Known(r) => Known(r)'
<1>1. rounds \in Nat /\ res.sent \in Nat
  BY Bounds, TypeParts, ResultTypes DEF LocalOK
<1>2. ASSUME NEW q \in Queries, Issued(q) PROVE Issued(q)'
  <2>1. q.round \in Nat /\ q.seq \in Nat
    BY Bounds, ReplyFields
  <2>2. CASE rounds' = rounds + 1
    BY <1>1, <1>2, <2>1, <2>2 DEF Issued
  <2>3. CASE rounds' = rounds /\ res'.sent \in Nat /\ res'.sent >= res.sent
    <3>1. q.seq <= res.sent => q.seq <= res'.sent
      BY <1>1, <2>1, <2>3
    <3> QED
      BY <1>2, <2>3, <3>1 DEF Issued
  <2> QED
    BY <2>2, <2>3, Grows
<1>3. ASSUME NEW r \in Replies, Known(r) PROVE Known(r)'
  BY <1>2, <1>3, Grows, ReplyFields DEF Known
<1> QED
  BY <1>2, <1>3

(* No reply to the query about to be broadcast is known, nor one to a query
   of another client that it has not sent. *)
LEMMA NewReplies ==
  ASSUME LocalOK, PhaseInv, KnownInv,
         NEW r \in swarm \cup Range(echoes) \cup Counted
  PROVE  /\ pc = "send" => r.query # Current
         /\ r.query.round = 0 => r \in others
<1>1. Known(r)
  BY DEF KnownInv
<1>2. ASSUME pc = "send", r.query = Current
      PROVE  FALSE
  <2>1. /\ rounds \in Nat /\ rounds >= 1 /\ seq \in Nat /\ res.sent = seq - 1
    BY <1>2, Bounds DEF LocalOK, PhaseInv
  <2>2. r.query.round = rounds /\ r.query.seq = seq
    BY <1>2 DEF Current
  <2> QED
    BY <1>1, <2>1, <2>2 DEF Known, Issued
<1> QED
  BY <1>1, <1>2 DEF Known

LEMMA CountedIs ==
  /\ UNCHANGED credits => Counted' = Counted
  /\ \A r, q : credits' = credits \cup {[reply |-> r, query |-> q]} =>
       Counted' = Counted \cup {r}
<1>1. UNCHANGED credits => Counted' = Counted
  BY DEF Counted
<1>2. ASSUME NEW r, NEW q,
             credits' = credits \cup {[reply |-> r, query |-> q]}
      PROVE  Counted' = Counted \cup {r}
  <2> DEFINE c == [reply |-> r, query |-> q]
  <2>1. credits' = credits \cup {c} /\ c.reply = r
    BY <1>2
  <2> HIDE DEF c
  <2> QED
    BY <2>1 DEF Counted
<1> QED
  BY <1>1, <1>2

LEMMA RepliesToIs ==
  ASSUME NEW q, NEW r \in RepliesTo(q)
  PROVE  r.query = q
BY DEF RepliesTo

(* Reply by reply, from the swarm through the channel to a credit. *)
LEMMA PlaceKeeps ==
  ASSUME TypeInv, RoundInv, PlaceInv, KnownInv, [Next]_vars
  PROVE  PlaceInv' /\ KnownInv'
<1>1. LocalOK /\ PhaseInv
  BY TypeParts, RoundParts
<1>2. /\ swarm \subseteq Replies /\ Range(echoes) \subseteq Replies
      /\ Counted \subseteq Replies
  BY DEF TypeInv, TypeOK, Counted
<1>3. \A r \in swarm \cup Range(echoes) \cup Counted : Known(r)'
  BY <1>2, IssuedStays DEF KnownInv
<1>4. CASE Drain \/ Collect \/ SelectEcho
  <2>1. /\ Range(echoes') = Range(echoes) \ {Head(echoes)}
        /\ Head(echoes) \in Range(echoes) /\ swarm' = swarm
        /\ IsInjective(echoes')
    BY <1>4, Takes
  <2>2. Counted' \subseteq Counted \cup {Head(echoes)}
    <3>1. Drain => UNCHANGED credits
      BY DEF Drain, sampleVars
    <3>2. Collect \/ SelectEcho => Match(Head(echoes))
      BY DEF Collect, SelectEcho
    <3>3. Match(Head(echoes)) =>
            \/ UNCHANGED credits
            \/ \E q : credits' = credits \cup {[reply |-> Head(echoes), query |-> q]}
      BY DEF Match
    <3> QED
      BY <1>4, <3>1, <3>2, <3>3, CountedIs
  <2> QED
    BY <1>3, <2>1, <2>2 DEF PlaceInv, KnownInv
<1>5. ASSUME NEW r \in Replies, Deliver(r)
      PROVE  PlaceInv' /\ KnownInv'
  <2>1. /\ Range(echoes') = Range(echoes) \cup {r}
        /\ IsInjective(echoes')
        /\ r \in swarm /\ swarm' = swarm \ {r} /\ UNCHANGED credits
    BY <1>5, DeliverAppends DEF sampleVars
  <2>2. Counted' = Counted
    BY <2>1, CountedIs
  <2> QED
    BY <1>3, <2>1, <2>2 DEF PlaceInv, KnownInv
<1>6. ASSUME NEW r \in Replies, Overflow(r) \/ Lose(r)
      PROVE  PlaceInv' /\ KnownInv'
  <2>1. swarm' \subseteq swarm /\ UNCHANGED <<echoes, credits>>
    BY <1>6 DEF Overflow, Lose, sampleVars
  <2>2. Counted' = Counted
    BY <2>1, CountedIs
  <2> QED
    BY <1>3, <2>1, <2>2 DEF PlaceInv, KnownInv
<1>7. ASSUME NEW r \in Replies, Stranger(r)
      PROVE  PlaceInv' /\ KnownInv'
  <2>1. /\ r.query.round = 0 /\ r \notin others /\ others' = others \cup {r}
        /\ swarm' = swarm \cup {r} /\ UNCHANGED <<echoes, credits>>
    BY <1>7 DEF Stranger, sampleVars
  <2>2. Counted' = Counted
    BY <2>1, CountedIs
  <2>3. r \notin swarm \cup Range(echoes) \cup Counted
    BY <1>1, <2>1, NewReplies
  <2>4. Known(r)'
    BY <2>1 DEF Known
  <2> QED
    BY <1>3, <2>1, <2>2, <2>3, <2>4 DEF PlaceInv, KnownInv
<1>8. CASE Broadcast
  <2>1. /\ pc = "send" /\ swarm' = swarm \cup RepliesTo(Current)
        /\ UNCHANGED <<echoes, credits, rounds>>
        /\ res' = [res EXCEPT !.sent = @ + 1]
    BY <1>8 DEF Broadcast, sampleVars
  <2>2. Counted' = Counted
    BY <2>1, CountedIs
  <2>3. RepliesTo(Current) \cap (swarm \cup Range(echoes) \cup Counted) = {}
    BY <1>1, <2>1, NewReplies, RepliesToIs
  <2>4. ASSUME NEW r \in RepliesTo(Current) PROVE Known(r)'
    <3>1. r.query.round = rounds /\ r.query.seq = seq
      BY RepliesToIs DEF Current
    <3>2. rounds \in Nat /\ rounds >= 1 /\ seq \in Nat /\ res.sent = seq - 1
      BY <1>1, <2>1, Bounds DEF LocalOK, PhaseInv
    <3>3. res'.sent = seq
      BY <2>1, <3>2, TypeParts, ResultTypes
    <3> QED
      BY <2>1, <3>1, <3>2, <3>3 DEF Known, Issued
  <2> QED
    BY <1>3, <2>1, <2>2, <2>3, <2>4 DEF PlaceInv, KnownInv
<1>9. CASE UNCHANGED <<swarm, echoes, credits>>
  <2>1. Counted' = Counted
    BY <1>9, CountedIs
  <2> QED
    BY <1>3, <1>9, <2>1 DEF PlaceInv, KnownInv
<1> QED
  BY <1>4, <1>5, <1>6, <1>7, <1>8, <1>9
     DEF Next, RoundStep, Begin, JoinFails, Drained, BroadcastFails, Collected,
         NextQuery, LastQuery, Await, SelectDone, Finish, Expire, PumpEnds,
         topicVars, sampleVars, vars

(* A query that a reply is counted for was outstanding, and the reply taken
   out of the channel has not been counted before. *)
LEMMA CreditsKeep ==
  ASSUME TypeInv, RoundInv, PlaceInv, KnownInv, CreditInv, OneCreditEach,
         [Next]_vars
  PROVE  CreditsOK' /\ CreditInv' /\ OneCreditEach'
<1>1. LocalOK /\ PhaseInv /\ SumInv /\ CreditsOK
  BY TypeParts, RoundParts
<1>2. \A a \in credits : Issued(a.query)'
  <2>1. \A a \in credits : a.query \in Queries /\ Issued(a.query)
    BY <1>1 DEF CreditsOK, CreditInv
  <2> QED
    BY <2>1, IssuedStays
<1>3. CASE UNCHANGED credits
  BY <1>1, <1>2, <1>3 DEF CreditsOK, CreditInv, OneCreditEach
<1>4. ASSUME Collect \/ SelectEcho, Head(echoes).query.seq \in sent
      PROVE  CreditsOK' /\ CreditInv' /\ OneCreditEach'
  <2>1. PICK r : r = Head(echoes)
    OBVIOUS
  <2>2. /\ Match(r) /\ UNCHANGED rounds /\ pc # "idle"
        /\ r \in Replies /\ r \in Range(echoes)
    <3>1. Match(r) /\ UNCHANGED rounds /\ pc # "idle"
      BY <1>4, <2>1 DEF Collect, SelectEcho
    <3> QED
      BY <1>4, <2>1, <3>1, Takes
  <2>3. PICK q : q = [round |-> rounds, seq |-> r.query.seq]
    OBVIOUS
  <2>4. PICK c : c = [reply |-> r, query |-> q]
    OBVIOUS
  <2>5. credits' = credits \cup {c} /\ r.query.seq \in 1..MaxCount
    BY <1>4, <2>1, <2>2, <2>3, <2>4, MatchCounts
  <2>6. /\ rounds \in Nat /\ rounds >= 1 /\ rounds \in 0..MaxRounds
    BY <1>1, <2>2, Bounds DEF LocalOK, PhaseInv
  <2>7. q \in Queries /\ c \in [reply : Replies, query : Queries]
    BY <2>2, <2>3, <2>4, <2>5, <2>6, QueryIs
  <2>8. r.query.round <= rounds
    <3>1. Known(r)
      BY <2>2 DEF KnownInv
    <3> QED
      BY <2>6, <3>1 DEF Known, Issued
  <2>9. Issued(q)'
    <3>1. r.query.seq <= res.sent
      BY <1>1, <1>4, <2>1 DEF SumInv
    <3>2. Issued(q)
      BY <2>3, <2>6, <3>1 DEF Issued
    <3> QED
      BY <2>7, <3>2, IssuedStays
  <2>10. CreditInv'
    <3>1. c.query = q /\ c.reply = r
      BY <2>4
    <3>2. q.seq = r.query.seq /\ q.round = rounds
      BY <2>3
    <3> QED
      BY <1>2, <2>5, <2>8, <2>9, <3>1, <3>2 DEF CreditInv
  <2>11. \A a \in credits : a.query # q /\ a.reply # r
    <3>1. r \notin Counted
      BY <2>2 DEF PlaceInv
    <3>2. r.query.seq \notin Echoed
      BY <1>1, <1>4, <2>1 DEF SumInv
    <3> QED
      BY <2>3, <2>5, <3>1, <3>2 DEF Counted, Echoed
  <2>12. OneCreditEach'
    <3>1. c.query = q /\ c.reply = r
      BY <2>4
    <3> QED
      BY <2>5, <2>11, <3>1 DEF OneCreditEach
  <2> QED
    BY <1>1, <2>5, <2>7, <2>10, <2>12 DEF CreditsOK
<1>5. CASE (Collect \/ SelectEcho) /\ Head(echoes).query.seq \notin sent
  BY <1>3, <1>5, MatchSkips DEF Collect, SelectEcho
<1> QED
  BY <1>3, <1>4, <1>5
     DEF Next, RoundStep, Begin, JoinFails, Drain, Drained, Broadcast,
         BroadcastFails, Collected, NextQuery, LastQuery, Await, SelectDone,
         Finish, Expire, PumpEnds, Deliver, Overflow, Lose, Stranger,
         sampleVars, vars

LEMMA InitInv ==
  ASSUME Init
  PROVE  Inv
<1> USE DEF Init
<1>1. Echoed = {} /\ Counted = {} /\ Range(echoes) = {}
  BY DEF Echoed, Counted, Range
<1>2. res = [sent |-> 0, echoed |-> 0, lost |-> 0, error |-> FALSE]
  BY DEF NoResult
<1>3. TypeInv
  <2>0. 0 \in 0..MaxCount /\ 0 \in 0..MaxRounds
    BY Bounds
  <2>1. LocalOK
    BY <2>0 DEF LocalOK
  <2>2. CreditsOK
    BY DEF CreditsOK
  <2>3. NetOK
    <3>1. <<>> \in Seq(Replies) /\ Len(<<>>) = 0
      OBVIOUS
    <3> QED
      BY <3>1, Bounds DEF NetOK
  <2>4. ResultOK
    <3>1. res \in [sent : 0..MaxCount, echoed : 0..MaxCount, lost : 0..MaxCount,
                  error : BOOLEAN]
      BY <1>2, <2>0
    <3> QED
      BY <2>0, <3>1 DEF ResultOK
  <2> QED
    BY <2>1, <2>2, <2>3, <2>4, TypeParts
<1>4. RoundInv
  <2>1. Cardinality({}) = 0
    BY FS_EmptySet
  <2> QED
    BY <1>1, <1>2, <2>1 DEF RoundInv
<1>5. PlaceInv /\ KnownInv
  BY <1>1 DEF PlaceInv, KnownInv, IsInjective
<1>6. CreditInv /\ OneCreditEach
  BY DEF CreditInv, OneCreditEach
<1>7. ResultInv
  <2>1. Cardinality({}) = 0
    BY FS_EmptySet
  <2>2. sent = {} /\ samples = 0 /\ res.lost = 0 /\ ~res.error
    BY <1>2
  <2> HIDE DEF Init
  <2>3. res.error \in BOOLEAN
    BY <1>2
  <2> QED
    BY <2>1, <2>2, <2>3 DEF ResultInv
<1> QED
  BY <1>3, <1>4, <1>5, <1>6, <1>7 DEF Inv

LEMMA Inductive ==
  ASSUME Inv, [Next]_vars
  PROVE  Inv'
<1>1. LocalOK'
  BY LocalTypes, TypeParts DEF Inv
<1>2. SumInv' /\ ResultOK' /\ PhaseInv'
  BY <1>1, SumKeeps, PhaseKeeps DEF Inv
<1>3. CreditsOK' /\ CreditInv' /\ OneCreditEach'
  BY CreditsKeep DEF Inv
<1>4. TypeInv' /\ RoundInv'
  BY <1>1, <1>2, <1>3, NetTypes, TypeParts, RoundParts DEF Inv
<1>5. PlaceInv' /\ KnownInv' /\ ResultInv'
  BY PlaceKeeps, ResultKeeps DEF Inv
<1> QED
  BY <1>3, <1>4, <1>5 DEF Inv

THEOREM Invariance == Spec => []Inv
BY InitInv, Inductive, PTL DEF Spec

(* Every reachable state is type-correct, for any swarm and any channel. *)
THEOREM TypeCorrect == Spec => []TypeOK
<1>1. Inv => TypeOK
  BY DEF Inv, TypeInv
<1> QED
  BY <1>1, Invariance, PTL

(* No reply is counted twice and no query has two, although every member
   replies to each, replies of earlier rounds and of other clients' come in
   between, and they are matched by number alone (gossip.go:154-178). *)
THEOREM CreditsOnce == Spec => []OneCreditEach
<1>1. Inv => OneCreditEach
  BY DEF Inv
<1> QED
  BY <1>1, Invariance, PTL

(* With one member, replies of this client that were counted for the queries
   of one number in each of rounds 1 to j would be the replies to the queries of
   rounds 1 to j, as many, so that none of round j were left for a later round:
   one of those queries had no reply of this client. *)
LEMMA EarlierUncounted ==
  ASSUME Inv, NEW m, Members = {m}, NEW a \in credits,
         a.reply.query.round \notin {0, a.query.round}
  PROVE  \E d \in 1..a.reply.query.round :
           ~\E b \in credits :
              b.query = [a.query EXCEPT !.round = d] /\ b.reply.query.round # 0
<1> DEFINE j == a.reply.query.round
           Q(d) == [a.query EXCEPT !.round = d]
           B(d) == CHOOSE b \in credits : b.query = Q(d) /\ b.reply.query.round # 0
           f == [d \in 1..j |-> B(d).reply.query.round]
<1>1. /\ \A b \in credits :
           /\ b.reply \in Replies /\ b.query \in Queries
           /\ b.reply.query \in Queries /\ b.reply.by = m
           /\ b.reply.query.seq = b.query.seq
           /\ b.reply.query.round <= b.query.round
           /\ b.reply.query.round \in Nat /\ b.query.round \in Nat
      /\ \A b, c \in credits : b.reply = c.reply => b = c
  <2>1. \A b \in credits : b.reply \in Replies /\ b.query \in Queries
    BY DEF Inv, TypeInv, TypeOK
  <2> QED
    BY <2>1, ReplyFields, Bounds DEF Inv, CreditInv, OneCreditEach
<1>2. j \in Nat /\ j >= 1 /\ j < a.query.round
  BY <1>1
<1>3. \A d : Q(d).round = d /\ Q(d).seq = a.query.seq
  BY <1>1 DEF Queries
<1> SUFFICES ASSUME \A d \in 1..j :
                      \E b \in credits : b.query = Q(d) /\ b.reply.query.round # 0
             PROVE  FALSE
  OBVIOUS
<1>4. \A d \in 1..j :
        B(d) \in credits /\ B(d).query = Q(d) /\ B(d).reply.query.round # 0
  OBVIOUS
<1> HIDE DEF B, Q, j
<1>5. ASSUME NEW d \in 1..j
      PROVE  /\ B(d) \in credits /\ B(d).query.round = d
             /\ B(d).reply.query.seq = a.query.seq
             /\ B(d).reply.query.round \in 1..d /\ f[d] \in 1..j
             /\ f[d] = B(d).reply.query.round
  <2>1. /\ B(d) \in credits /\ B(d).query.round = d
        /\ B(d).query.seq = a.query.seq /\ B(d).reply.query.round # 0
    BY <1>3, <1>4
  <2>2. /\ B(d).reply.query.round \in Nat /\ B(d).reply.query.round <= d
        /\ B(d).reply.query.seq = a.query.seq
    BY <1>1, <2>1
  <2>3. B(d).reply.query.round \in 1..d
    BY <1>2, <2>1, <2>2
  <2> QED
    BY <1>2, <2>1, <2>2, <2>3
<1>6. f \in [1..j -> 1..j]
  BY <1>5
<1> HIDE DEF f
(* Replies of one member to queries of one number differ in their rounds. *)
<1>7. ASSUME NEW b \in credits, NEW c \in credits,
             b.reply.query.round = c.reply.query.round,
             b.reply.query.seq = c.reply.query.seq
      PROVE  b = c
  <2>1. b.reply.query = c.reply.query
    <3>1. b.reply.query \in Queries /\ c.reply.query \in Queries
      BY <1>1
    <3> QED
      BY <1>7, <3>1 DEF Queries
  <2>2. b.reply.by = c.reply.by
    BY <1>1
  <2>3. b.reply = c.reply
    BY <1>1, <2>1, <2>2 DEF Replies
  <2> QED
    BY <1>1, <2>3
<1>8. f \in Injection(1..j, 1..j)
  <2> SUFFICES ASSUME NEW d \in 1..j, NEW e \in 1..j, f[d] = f[e]
               PROVE  d = e
    BY <1>6 DEF Injection, IsInjective
  <2>1. B(d) = B(e)
    BY <1>5, <1>7
  <2> QED
    BY <1>5, <2>1
<1>9. f \in Surjection(1..j, 1..j)
  <2>1. IsFiniteSet(1..j)
    BY <1>2, FS_Interval
  <2> QED
    BY <1>8, <2>1, FS_Injection
<1>10. PICK d \in 1..j : f[d] = j
  <2>1. j \in 1..j
    BY <1>2
  <2> QED
    BY <1>9, <2>1 DEF Surjection
<1>11. B(d) = a
  BY <1>1, <1>5, <1>7, <1>10 DEF j
<1> QED
  BY <1>2, <1>5, <1>10, <1>11

(* With one member, a round trip is measured on the reply to an earlier query
   only where a query of its number had been left without one: lost, given up,
   or answered by the reply to another client (gossip.go:154-178). *)
THEOREM StaleRepliesNeedLoss == Spec => []StaleNeedsLoss
<1>1. ASSUME Inv, Cardinality(Members) = 1, NEW a \in credits,
             a.reply.query.round \notin {0, a.query.round}
      PROVE  /\ a.reply.query.round < a.query.round
             /\ a.reply.query.seq = a.query.seq
             /\ \E d \in 1..a.reply.query.round :
                  ~\E b \in credits :
                     b.query = [a.query EXCEPT !.round = d]
                     /\ b.reply.query.round # 0
  <2>1. PICK m : Members = {m}
    BY <1>1, GossipAssumption, FS_Singleton
  <2>2. /\ a.reply.query.round <= a.query.round
        /\ a.reply.query.seq = a.query.seq
    BY <1>1 DEF Inv, CreditInv
  <2>3. a.reply.query.round \in Nat /\ a.query.round \in Nat
    <3>1. a.reply \in Replies /\ a.query \in Queries
      BY <1>1 DEF Inv, TypeInv, TypeOK
    <3> QED
      BY <3>1, ReplyFields, Bounds
  <2>4. a.reply.query.round < a.query.round
    BY <1>1, <2>2, <2>3
  <2> QED
    BY <1>1, <2>1, <2>2, <2>4, EarlierUncounted
<1>2. Inv => StaleNeedsLoss
  BY <1>1 DEF StaleNeedsLoss
<1> QED
  BY <1>2, Invariance, PTL

-----------------------------------------------------------------------------
(* Each step is one of the account, or none *)

Numbers == 1..MaxCount

LEMMA OutcomeIs ==
  /\ Outcome = [s \in Numbers |-> OutcomeOf(s)]
  /\ \A s \in Numbers : OutcomeOf(s) =
       IF s \in Echoed THEN "echoed"
       ELSE IF s \notin sent THEN "unsent"
       ELSE IF pc # "idle" THEN "outstanding"
       ELSE IF samples > 0 THEN "lost" ELSE "unknown"
BY DEF Outcome, OutcomeOf, Numbers, Echoed

LEMMA NextOutcomeIs ==
  /\ Outcome' = [s \in Numbers |-> OutcomeOf(s)']
  /\ \A s \in Numbers : OutcomeOf(s)' =
       IF s \in Echoed' THEN "echoed"
       ELSE IF s \notin sent' THEN "unsent"
       ELSE IF pc' # "idle" THEN "outstanding"
       ELSE IF samples' > 0 THEN "lost" ELSE "unknown"
BY DEF Outcome, OutcomeOf, Numbers, Echoed

(* EchoAccount's Cardinality, which the instance makes another operator. *)
LEMMA AccountCardinality == \A S : Account!Cardinality(S) = Cardinality(S)
BY DEF Account!Cardinality, Cardinality

LEMMA Becomes ==
  ASSUME NEW S \in SUBSET Numbers, NEW o,
         \A s \in Numbers :
           OutcomeOf(s)' = IF s \in S THEN o ELSE OutcomeOf(s)
  PROVE  Account!Become(S, o)
<1>1. Outcome' = [s \in Numbers |-> OutcomeOf(s)']
  BY NextOutcomeIs
<1>2. \A s \in Numbers : Outcome[s] = OutcomeOf(s)
  BY OutcomeIs
<1> QED
  BY <1>1, <1>2 DEF Account!Become, Numbers

(* The queries of a round, and those of them that are outstanding. *)
LEMMA Queried ==
  ASSUME Inv
  PROVE  /\ sent \subseteq Numbers /\ Echoed \subseteq Numbers
         /\ sent \cap Echoed = {}
         /\ Account!Outstanding = IF pc = "idle" THEN {} ELSE sent
<1>1. /\ sent \subseteq 1..count /\ count \in Nat /\ count <= MaxCount
      /\ sent \cap Echoed = {}
  BY Bounds DEF Inv, TypeInv, TypeOK, RoundInv
<1>2. sent \subseteq Numbers /\ Echoed \subseteq Numbers
  BY <1>1, Bounds DEF Numbers, Echoed
<1>3. Account!Outstanding = {s \in Numbers : Outcome[s] = "outstanding"}
  BY DEF Account!Outstanding, Account!With, Numbers
<1>4. \A s \in Numbers : Outcome[s] = "outstanding" <=>
                          s \notin Echoed /\ s \in sent /\ pc # "idle"
  BY OutcomeIs
<1> QED
  BY <1>1, <1>2, <1>3, <1>4

LEMMA RoundOpens ==
  ASSUME Inv, (\E n \in 1..MaxCount : Begin(n)) \/ JoinFails
  PROVE  Account!Open
<1>1. /\ pc = "idle" /\ rounds' = rounds + 1 /\ credits' = credits
      /\ sent' = {} /\ samples' = 0
      /\ \/ pc' # "idle" /\ expired' = FALSE
         \/ pc' = "idle" /\ res'.error
      /\ Tally' = Account!Zero
  BY DEF Begin, JoinFails, NoResult, Tally, Account!Zero
<1>2. AccountState # "open" /\ AccountState' \in {"open", "failed"}
  BY <1>1 DEF AccountState
<1>3. count' \in 0..Cardinality(Numbers)
  <2>1. Cardinality(Numbers) = MaxCount
    BY Bounds, FS_Interval DEF Numbers
  <2> QED
    BY <2>1, Bounds DEF Begin, JoinFails, Inv, TypeInv, TypeOK
<1>4. Echoed' = {}
  BY <1>1, EchoedNone, TypeParts DEF Inv
<1>5. Account!Become(Numbers, "unsent")
  BY <1>1, <1>4, NextOutcomeIs, Becomes
<1>6. (pc # "idle" /\ expired)' = FALSE
  BY <1>1
<1> QED
  BY <1>1, <1>2, <1>3, <1>5, <1>6, AccountCardinality DEF Account!Open, Numbers

LEMMA BroadcastSends ==
  ASSUME Inv, Broadcast
  PROVE  seq \in Numbers /\ Account!Send(seq)
<1>1. /\ pc = "send" /\ pc' = "collect" /\ sent' = sent \cup {seq}
      /\ UNCHANGED <<count, seq, expired, rounds, credits, samples>>
      /\ res' = [res EXCEPT !.sent = @ + 1]
  BY DEF Broadcast, sampleVars
<1>2. /\ seq \in 1..count /\ count \in Nat /\ count <= MaxCount
      /\ res.sent = seq - 1 /\ sent \cup Echoed = 1..res.sent
  BY <1>1, Bounds DEF Inv, TypeInv, TypeOK, RoundInv
<1>3. seq \in Numbers /\ seq \notin sent \cup Echoed /\ res.sent < count
  <2>1. seq \notin 1..res.sent /\ res.sent < count
    BY <1>2
  <2>2. seq \in Numbers
    BY <1>2, Bounds DEF Numbers
  <2> QED
    BY <1>2, <2>1, <2>2
<1>4. Outcome[seq] = "unsent"
  BY <1>3, OutcomeIs
<1>5. Account!Become({seq}, "outstanding")
  <2>1. Echoed' = Echoed
    BY <1>1, EchoedSame
  <2>2. \A s \in Numbers :
          OutcomeOf(s)' = IF s \in {seq} THEN "outstanding" ELSE OutcomeOf(s)
    BY <1>1, <1>3, <2>1, OutcomeIs, NextOutcomeIs
  <2> QED
    BY <1>3, <2>2, Becomes
<1>6. Tally' = [Tally EXCEPT !.sent = @ + 1]
  BY <1>1 DEF Tally, Inv, TypeInv, TypeOK
<1>7. AccountState = "open" /\ UNCHANGED <<AccountState, count>>
  BY <1>1 DEF AccountState
<1>8. Tally.sent < count
  BY <1>3 DEF Tally
<1>9. (pc # "idle" /\ expired)' = (pc # "idle" /\ expired)
  BY <1>1
<1> QED
  BY <1>3, <1>4, <1>5, <1>6, <1>7, <1>8, <1>9 DEF Account!Send

LEMMA MatchEchoes ==
  ASSUME Inv, Collect \/ SelectEcho
  PROVE  \/ \E s \in Numbers : Account!Echo(s)
         \/ UNCHANGED Account!accountVars
<1>1. PICK r : r = Head(echoes)
  OBVIOUS
<1>2. /\ Match(r) /\ pc # "idle" /\ pc' # "idle"
      /\ UNCHANGED <<count, expired, rounds, samples>>
  BY <1>1 DEF Collect, SelectEcho
<1>3. r \in Replies
  BY <1>1, Takes DEF Inv
<1>4. CASE r.query.seq \in sent
  <2>1. PICK s : s = r.query.seq
    OBVIOUS
  <2>2. /\ sent' = sent \ {s} /\ Echoed' = Echoed \cup {s}
        /\ res' = [res EXCEPT !.echoed = @ + 1]
    BY <1>2, <1>3, <1>4, <2>1, MatchCounts DEF Inv
  <2>3. s \in Numbers /\ s \in sent /\ s \notin Echoed
    BY <1>4, <2>1, Queried
  <2>4. Outcome[s] = "outstanding"
    BY <1>2, <2>3, OutcomeIs
  <2>5. Account!Become({s}, "echoed")
    <3>1. \A t \in Numbers :
            OutcomeOf(t)' = IF t \in {s} THEN "echoed" ELSE OutcomeOf(t)
      BY <1>2, <2>2, <2>3, OutcomeIs, NextOutcomeIs
    <3> QED
      BY <2>3, <3>1, Becomes
  <2>6. Tally' = [Tally EXCEPT !.echoed = @ + 1]
    BY <2>2 DEF Tally, Inv, TypeInv, TypeOK
  <2>7. AccountState = "open" /\ UNCHANGED <<AccountState, count>>
    BY <1>2 DEF AccountState
  <2>8. (pc # "idle" /\ expired)' = (pc # "idle" /\ expired)
    BY <1>2
  <2> QED
    BY <2>3, <2>4, <2>5, <2>6, <2>7, <2>8 DEF Account!Echo
<1>5. CASE r.query.seq \notin sent
  <2>1. UNCHANGED <<sent, res, credits>>
    BY <1>2, <1>5, MatchSkips
  <2>2. Outcome' = Outcome
    BY <1>2, <2>1, EchoedSame, OutcomeIs, NextOutcomeIs
  <2> QED
    BY <1>2, <2>1, <2>2 DEF Account!accountVars, AccountState, Tally
<1> QED
  BY <1>4, <1>5

LEMMA FailureGivesUp ==
  ASSUME Inv, BroadcastFails
  PROVE  Account!GiveUp
<1>1. /\ pc = "send" /\ pc' = "idle"
      /\ res' = [res EXCEPT !.lost = count - res.echoed, !.error = TRUE]
      /\ UNCHANGED <<count, sent, rounds, credits, samples>>
  BY DEF BroadcastFails, sampleVars
<1>2. samples = 0 /\ res.lost = 0
  BY <1>1 DEF Inv, RoundInv
<1>3. ResultOK
  BY TypeParts DEF Inv
<1>4. Account!Become(Account!Outstanding, "unknown")
  <2>1. Account!Outstanding = sent
    BY <1>1, Queried
  <2>2. Echoed' = Echoed
    BY <1>1, EchoedSame
  <2>3. \A s \in Numbers :
          OutcomeOf(s)' = IF s \in sent THEN "unknown" ELSE OutcomeOf(s)
    BY <1>1, <1>2, <2>2, Queried, OutcomeIs, NextOutcomeIs
  <2> QED
    BY <2>1, <2>3, Queried, Becomes
<1>5. \E n \in Tally.lost..(count - Tally.echoed) :
         Tally' = [Tally EXCEPT !.lost = n]
  <2>1. PICK n : n = count - res.echoed
    OBVIOUS
  <2>2. n \in 0..(count - res.echoed)
    <3>1. IsFiniteSet(sent) /\ Cardinality(sent) \in Nat
      BY SentFinite DEF Inv
    <3>2. /\ res.echoed \in Nat /\ count \in Nat /\ res.sent <= count
          /\ res.sent \in Nat /\ res.echoed + Cardinality(sent) = res.sent
      BY <1>3, Bounds, ResultTypes DEF Inv, TypeInv, TypeOK, RoundInv
    <3> QED
      BY <2>1, <3>1, <3>2
  <2>3. Tally' = [Tally EXCEPT !.lost = n]
    BY <1>1, <1>3, <2>1 DEF Tally, ResultOK
  <2>4. Tally.lost = 0 /\ Tally.echoed = res.echoed
    BY <1>2 DEF Tally
  <2> QED
    BY <2>2, <2>3, <2>4
<1>6. AccountState = "open" /\ AccountState' = "failed" /\ UNCHANGED count
  BY <1>1, <1>2, <1>3, ResultTypes DEF AccountState
<1>7. (pc # "idle" /\ expired)' = FALSE
  BY <1>1
<1> QED
  BY <1>4, <1>5, <1>6, <1>7 DEF Account!GiveUp

(* A round ends with all queries sent and none outstanding, or by its
   timeout. *)
LEMMA FinishReturns ==
  ASSUME Inv, Finish
  PROVE  Account!Return
<1>1. /\ pc = "wait" /\ pc' = "idle" /\ (sent = {} \/ expired)
      /\ res' = [res EXCEPT !.lost = Cardinality(sent), !.error = sent # {}]
      /\ samples' = Cardinality(sent)
      /\ UNCHANGED <<count, sent, rounds, credits>>
  BY DEF Finish, Awaiting, Inv, TypeInv, TypeOK
<1>2. /\ IsFiniteSet(sent) /\ Cardinality(sent) \in Nat
      /\ (Cardinality(sent) = 0 <=> sent = {})
  BY SentFinite, FS_EmptySet DEF Inv
<1>3. ResultOK
  BY TypeParts DEF Inv
<1>4. res.lost = 0 /\ (res.sent = count \/ expired)
  BY <1>1 DEF Inv, RoundInv
<1>5. Account!Outstanding = sent
  BY <1>1, Queried
<1>6. Account!Become(sent, "lost")
  <2>1. Echoed' = Echoed
    BY <1>1, EchoedSame
  <2>2. sent # {} => samples' > 0
    BY <1>1, <1>2
  <2>3. \A s \in Numbers :
          OutcomeOf(s)' = IF s \in sent THEN "lost" ELSE OutcomeOf(s)
    BY <1>1, <2>1, <2>2, Queried, OutcomeIs, NextOutcomeIs
  <2> QED
    BY <2>3, Queried, Becomes
<1>7. Tally' = [Tally EXCEPT !.lost = @ + Account!Cardinality(sent)]
  <2>1. Tally' = [Tally EXCEPT !.lost = Cardinality(sent)]
    BY <1>1, <1>3 DEF Tally, ResultOK
  <2>2. Tally.lost + Cardinality(sent) = Cardinality(sent)
    BY <1>2, <1>4 DEF Tally
  <2> QED
    BY <2>1, <2>2, AccountCardinality
<1>8. AccountState = "open" /\ AccountState' = "returned" /\ UNCHANGED count
  <2>1. res'.error = (sent # {})
    BY <1>1, <1>3, ResultTypes
  <2>2. ~(res'.error /\ samples' = 0)
    BY <1>1, <1>2, <2>1
  <2> QED
    BY <1>1, <2>2 DEF AccountState
<1>9. (pc # "idle" /\ expired)' = FALSE
  BY <1>1
<1>10. Tally.sent = count \/ (pc # "idle" /\ expired)
  BY <1>1, <1>4 DEF Tally
<1>11. sent # {} => (pc # "idle" /\ expired)
  BY <1>1
<1> QED
  BY <1>5, <1>6, <1>7, <1>8, <1>9, <1>10, <1>11
     DEF Account!Return, Account!Lost

LEMMA ExpireIsTimeUp ==
  ASSUME Inv, Expire
  PROVE  Account!TimeUp
<1>1. /\ pc # "idle" /\ expired'
      /\ UNCHANGED <<pc, count, sent, res, rounds, credits, samples>>
  BY DEF Expire, sampleVars
<1>2. Outcome' = Outcome
  BY <1>1, EchoedSame, OutcomeIs, NextOutcomeIs
<1>3. (pc # "idle" /\ expired)' = TRUE
  BY <1>1
<1> QED
  BY <1>1, <1>2, <1>3 DEF Account!TimeUp, AccountState, Tally

LEMMA RestStutters ==
  ASSUME UNCHANGED <<count, sent, res, rounds, credits, samples, expired>>,
         pc = "idle" <=> pc' = "idle"
  PROVE  UNCHANGED Account!accountVars
<1>1. Outcome' = Outcome
  BY EchoedSame, OutcomeIs, NextOutcomeIs
<1>2. (pc # "idle" /\ expired)' = (pc # "idle" /\ expired)
  OBVIOUS
<1> QED
  BY <1>1, <1>2 DEF Account!accountVars, AccountState, Tally

LEMMA InitAccount ==
  ASSUME Init
  PROVE  Account!AccountInit
<1>1. Echoed = {}
  BY DEF Init, Echoed
<1>2. Outcome = [s \in Numbers |-> "unsent"]
  BY <1>1, OutcomeIs DEF Init
<1>3. (pc # "idle" /\ expired) = FALSE
  BY DEF Init
<1> QED
  BY <1>2, <1>3
     DEF Init, AccountState, Tally, NoResult, Numbers, Account!AccountInit,
         Account!Zero

LEMMA StepAccount ==
  ASSUME Inv, [Next]_vars
  PROVE  [Account!AccountNext]_(Account!accountVars)
<1> USE DEF Account!AccountNext
<1>1. CASE (\E n \in 1..MaxCount : Begin(n)) \/ JoinFails
  BY <1>1, RoundOpens
<1>2. CASE Broadcast
  BY <1>2, BroadcastSends DEF Numbers
<1>3. CASE Collect \/ SelectEcho
  BY <1>3, MatchEchoes DEF Numbers
<1>4. CASE BroadcastFails
  BY <1>4, FailureGivesUp
<1>5. CASE Finish
  BY <1>5, FinishReturns
<1>6. CASE Expire
  BY <1>6, ExpireIsTimeUp
<1>7. CASE \/ Drain \/ Drained \/ Collected \/ NextQuery \/ LastQuery \/ Await
           \/ SelectDone
  <2>1. /\ UNCHANGED <<count, sent, res, rounds, credits, samples, expired>>
        /\ pc # "idle" /\ pc' # "idle"
    BY <1>7 DEF Drain, Drained, Collected, NextQuery, LastQuery, Await,
                SelectDone, callVars, sampleVars
  <2> QED
    BY <2>1, RestStutters
<1>8. CASE UNCHANGED <<callVars, sampleVars>>
  BY <1>8, RestStutters DEF callVars, sampleVars
<1> QED
  BY <1>1, <1>2, <1>3, <1>4, <1>5, <1>6, <1>7, <1>8
     DEF Next, RoundStep, PumpEnds, Deliver, Overflow, Lose, Stranger, vars

(* A round implements the account of its queries: whatever replies of other
   rounds and clients are taken for its own, and however it ends, each query
   broadcast is echoed or, after the timeout, lost, once, and the numbers
   handed to the script are those (gossip.go:94-152). *)
THEOREM ImplementsAccount == Spec => ImplementsEchoAccount
<1>1. Init => Account!AccountInit
  BY InitAccount
<1>2. Inv /\ [Next]_vars => [Account!AccountNext]_(Account!accountVars)
  BY StepAccount
<1> QED
  BY <1>1, <1>2, Invariance, PTL
     DEF Spec, ImplementsEchoAccount, Account!AccountSpec

(* The numbers of every round add up: the queries broadcast are those echoed,
   lost or outstanding, and a round that returns leaves none out
   (gossip.go:94-152). *)
THEOREM RoundsAddUp == Spec => []Account!AddsUp
<1>1. ASSUME Inv PROVE Account!AddsUp
  <2>1. /\ IsFiniteSet(sent) /\ Cardinality(sent) \in Nat
        /\ (Cardinality(sent) = 0 <=> sent = {})
    BY <1>1, SentFinite, FS_EmptySet DEF Inv
  <2>2. /\ sent \subseteq Numbers /\ Echoed \subseteq Numbers
        /\ sent \cap Echoed = {} /\ sent \cup Echoed = 1..res.sent
    BY <1>1, Queried DEF Inv, RoundInv
  <2>3. /\ res.sent \in Nat /\ res.echoed \in Nat /\ res.error \in BOOLEAN
        /\ samples \in Nat
        /\ res.echoed + Cardinality(sent) = res.sent
    BY <1>1, ResultTypes, TypeParts, Bounds DEF Inv, RoundInv, TypeInv, TypeOK
  <2>4. \A o : Account!With(o) = {s \in Numbers : OutcomeOf(s) = o}
    BY OutcomeIs DEF Account!With, Numbers
  <2>5. Account!With("echoed") = Echoed
    BY <2>2, <2>4, OutcomeIs
  <2>6. Numbers \ Account!With("unsent") = sent \cup Echoed
    BY <2>2, <2>4, OutcomeIs
  <2>7. Cardinality(1..res.sent) = res.sent /\ IsFiniteSet(1..res.sent)
    BY <2>3, FS_Interval
  <2>8. Cardinality(Echoed) = res.echoed
    <3>1. IsFiniteSet(Echoed)
      BY <2>2, <2>7, FS_Subset
    <3>2. Cardinality(sent \cap Echoed) = 0
      BY <2>2, FS_EmptySet
    <3>3. Cardinality(Echoed) \in Nat
      BY <3>1, FS_CardinalityType
    <3>4. Cardinality(1..res.sent) = Cardinality(sent) + Cardinality(Echoed)
                                     - Cardinality(sent \cap Echoed)
      BY <2>1, <2>2, <3>1, FS_Union
    <3> QED
      BY <2>1, <2>3, <2>7, <3>2, <3>3, <3>4
  <2>9. ASSUME AccountState # "failed"
        PROVE  /\ res.lost = Cardinality(Account!With("lost"))
               /\ Account!With("unknown") = {}
    <3>1. CASE pc # "idle"
      <4>1. Account!With("lost") = {} /\ Account!With("unknown") = {}
        BY <2>4, <3>1, OutcomeIs
      <4> QED
        BY <1>1, <3>1, <4>1, FS_EmptySet DEF Inv, RoundInv
    <3>2. CASE pc = "idle"
      <4>1. samples = Cardinality(sent) /\ res.lost = samples
        BY <1>1, <2>9, <3>2 DEF Inv, ResultInv, AccountState
      <4>2. sent # {} => samples > 0
        BY <2>1, <4>1
      <4>3. Account!With("lost") = sent /\ Account!With("unknown") = {}
        BY <2>2, <2>4, <3>2, <4>2, OutcomeIs
      <4> QED
        BY <4>1, <4>3
    <3> QED
      BY <3>1, <3>2
  <2>10. AccountState = "returned" => Account!Outstanding = {}
    BY <1>1, Queried DEF AccountState
  <2> QED
    BY <2>2, <2>5, <2>6, <2>7, <2>8, <2>9, <2>10, AccountCardinality
       DEF Account!AddsUp, Tally, Numbers
<1> QED
  BY <1>1, Invariance, PTL

=============================================================================

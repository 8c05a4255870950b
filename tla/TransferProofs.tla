--------------------------- MODULE TransferProofs ---------------------------
(***************************************************************************)
(* Proofs about Transfer for any fan-out, chunk, window and limit, with or *)
(* without deadlines and short writes: what a stream and the result claim  *)
(* is what the peer has read.                                              *)
(***************************************************************************)
EXTENDS Transfer, FiniteSetTheorems, WellFoundedInduction, TLAPS

-----------------------------------------------------------------------------
(* Sums over the streams.  Total is a recursive function over the subsets of
   Streams; what holds of it is proved for a smallest subset of which it does
   not hold. *)

(* The stream a sum over S takes first, and what it then is. *)
Pick(S) == CHOOSE x \in S : TRUE

Plus(f, sum, S) == IF S = {} THEN 0 ELSE f[Pick(S)] + sum[S \ {Pick(S)}]

(* sum gives the sum of f over each subset of S. *)
SumsUpTo(f, sum, S) == \A U \in SUBSET S : sum[U] = Plus(f, sum, U)

(* A non-empty set of sets of streams has one that includes no other. *)
LEMMA SmallestSet ==
  ASSUME NEW T \in SUBSET SUBSET Streams, T # {}
  PROVE  \E S \in T : \A U \in SUBSET S : U # S => U \notin T
<1>1. IsWellFoundedOn(StrictSubsetOrdering(Streams), SUBSET Streams)
  <2>1. IsFiniteSet(Streams)
    BY TransferAssumption
  <2> QED
    BY <2>1, FS_StrictSubsetOrderingWellFounded, FS_FiniteSubsetsOfFinite
<1>2. PICK S \in T : \A U \in T : <<U, S>> \notin StrictSubsetOrdering(Streams)
  BY <1>1, WFMin
<1>3. ASSUME NEW U \in SUBSET S, U # S, U \in T
      PROVE  FALSE
  BY <1>2, <1>3 DEF StrictSubsetOrdering
<1> QED
  BY <1>2, <1>3

LEMMA PickIn ==
  ASSUME NEW S, S # {}
  PROVE  Pick(S) \in S /\ S \ {Pick(S)} \in SUBSET S /\ S \ {Pick(S)} # S
<1>1. Pick(S) \in S
  BY DEF Pick
<1> QED
  BY <1>1

LEMMA SumUnique ==
  ASSUME NEW f, NEW S \in SUBSET Streams, NEW sum, NEW other,
         SumsUpTo(f, sum, S), SumsUpTo(f, other, S)
  PROVE  sum[S] = other[S]
<1> DEFINE T == {U \in SUBSET S : sum[U] # other[U]}
<1> SUFFICES ASSUME T # {} PROVE FALSE
  OBVIOUS
<1>1. PICK U \in T : \A V \in SUBSET U : V # U => V \notin T
  BY SmallestSet
<1>2. sum[U] = Plus(f, sum, U) /\ other[U] = Plus(f, other, U)
  BY DEF SumsUpTo
<1>3. U # {}
  BY <1>2 DEF Plus
<1>4. U \ {Pick(U)} \notin T /\ U \ {Pick(U)} \in SUBSET S
  BY <1>1, <1>3, PickIn
<1> QED
  BY <1>2, <1>4 DEF Plus

LEMMA SumExists ==
  ASSUME NEW f \in [Streams -> Nat], NEW S \in SUBSET Streams
  PROVE  \E sum \in [SUBSET Streams -> Nat] : SumsUpTo(f, sum, S)
<1> DEFINE Sums == [SUBSET Streams -> Nat]
           T == {U \in SUBSET Streams : \A sum \in Sums : ~SumsUpTo(f, sum, U)}
<1> SUFFICES ASSUME T # {} PROVE FALSE
  OBVIOUS
<1>1. PICK U \in T : \A V \in SUBSET U : V # U => V \notin T
  BY SmallestSet
<1>2. \A V \in SUBSET U : V # U => \E sum \in Sums : SumsUpTo(f, sum, V)
  BY <1>1
<1> DEFINE Part(V) == CHOOSE sum \in Sums : SumsUpTo(f, sum, V)
<1>3. \A V \in SUBSET U : V # U => Part(V) \in Sums /\ SumsUpTo(f, Part(V), V)
  BY <1>2
<1> DEFINE below == [V \in SUBSET Streams |->
                       IF V \in SUBSET U /\ V # U THEN Part(V)[V] ELSE 0]
<1> HIDE DEF Part
<1>4. below \in Sums
  BY <1>3
<1>5. \A V \in SUBSET U : V # U => below[V] = Plus(f, below, V)
  <2> SUFFICES ASSUME NEW V \in SUBSET U, V # U
               PROVE  below[V] = Plus(f, below, V)
    OBVIOUS
  <2>1. below[V] = Plus(f, Part(V), V)
    BY <1>3 DEF SumsUpTo
  <2>2. CASE V = {}
    BY <2>1, <2>2 DEF Plus
  <2>3. CASE V # {}
    <3> DEFINE W == V \ {Pick(V)}
    <3>1. W \in SUBSET V /\ W # V
      BY <2>3, PickIn
    <3>2. W \in SUBSET U /\ W # U
      BY <3>1
    <3>3. SumsUpTo(f, Part(V), W)
      BY <1>3, <3>1 DEF SumsUpTo
    <3>4. Part(V)[W] = Part(W)[W]
      <4>1. SumsUpTo(f, Part(W), W)
        BY <1>3, <3>2
      <4>2. W \in SUBSET Streams
        BY <3>2
      <4> HIDE DEF W
      <4> QED
        BY <3>3, <4>1, <4>2, SumUnique
    <3>5. below[W] = Part(W)[W]
      BY <3>2
    <3> HIDE DEF below
    <3> QED
      BY <2>1, <2>3, <3>4, <3>5 DEF Plus
  <2> QED
    BY <2>2, <2>3
<1> DEFINE sum == [V \in SUBSET Streams |->
                     IF V = U THEN Plus(f, below, U) ELSE below[V]]
<1>6. Plus(f, below, U) \in Nat
  <2>1. CASE U = {}
    BY <2>1 DEF Plus
  <2>2. CASE U # {}
    <3>1. Pick(U) \in Streams /\ U \ {Pick(U)} \in SUBSET Streams
      BY <2>2, PickIn
    <3> HIDE DEF below
    <3> QED
      BY <1>4, <2>2, <3>1 DEF Plus
  <2> QED
    BY <2>1, <2>2
<1>7. sum \in Sums
  BY <1>4, <1>6
<1>8. SumsUpTo(f, sum, U)
  <2> SUFFICES ASSUME NEW V \in SUBSET U
               PROVE  sum[V] = Plus(f, sum, V)
    BY DEF SumsUpTo
  <2>1. sum[V] = Plus(f, below, V)
    BY <1>5
  <2>2. CASE V = {}
    BY <2>1, <2>2 DEF Plus
  <2>3. CASE V # {}
    <3>1. V \ {Pick(V)} \in SUBSET V /\ V \ {Pick(V)} # V
      BY <2>3, PickIn
    <3>2. sum[V \ {Pick(V)}] = below[V \ {Pick(V)}]
      BY <3>1
    <3> HIDE DEF sum
    <3> QED
      BY <2>1, <2>3, <3>2 DEF Plus
  <2> QED
    BY <2>2, <2>3
<1> QED
  BY <1>7, <1>8

LEMMA TotalIsSum ==
  ASSUME NEW f \in [Streams -> Nat]
  PROVE  \E sum \in [SUBSET Streams -> Nat] :
           SumsUpTo(f, sum, Streams) /\ Total(f) = sum[Streams]
<1> DEFINE Sums(g) == g = [S \in SUBSET Streams |-> Plus(f, g, S)]
<1>1. PICK sum \in [SUBSET Streams -> Nat] : SumsUpTo(f, sum, Streams)
  BY SumExists
<1>2. Sums(sum)
  BY <1>1 DEF SumsUpTo
<1>3. Sums(CHOOSE g : Sums(g))
  BY <1>2
<1>4. Total(f) = (CHOOSE g : Sums(g))[Streams]
  BY DEF Total, MapThenSumSet, MapThenFoldSet, Plus, Pick
<1> DEFINE chosen == CHOOSE g : Sums(g)
<1>5. SumsUpTo(f, chosen, Streams)
  BY <1>3 DEF SumsUpTo
<1> HIDE DEF chosen
<1>6. chosen[Streams] = sum[Streams]
  BY <1>1, <1>5, SumUnique
<1> QED
  BY <1>1, <1>4, <1>6 DEF chosen

LEMMA TotalMonotone ==
  ASSUME NEW f \in [Streams -> Nat], NEW g \in [Streams -> Nat],
         \A s \in Streams : f[s] <= g[s]
  PROVE  Total(f) <= Total(g)
<1>1. PICK low \in [SUBSET Streams -> Nat] :
        SumsUpTo(f, low, Streams) /\ Total(f) = low[Streams]
  BY TotalIsSum
<1>2. PICK high \in [SUBSET Streams -> Nat] :
        SumsUpTo(g, high, Streams) /\ Total(g) = high[Streams]
  BY TotalIsSum
<1> DEFINE T == {S \in SUBSET Streams : ~(low[S] <= high[S])}
<1> SUFFICES ASSUME T # {} PROVE FALSE
  BY <1>1, <1>2
<1>3. PICK S \in T : \A U \in SUBSET S : U # S => U \notin T
  BY SmallestSet
<1>4. low[S] = Plus(f, low, S) /\ high[S] = Plus(g, high, S)
  BY <1>1, <1>2 DEF SumsUpTo
<1>5. S # {}
  BY <1>4 DEF Plus
<1>6. /\ Pick(S) \in Streams /\ S \ {Pick(S)} \in SUBSET Streams
      /\ S \ {Pick(S)} \notin T
  BY <1>3, <1>5, PickIn
<1> QED
  BY <1>4, <1>5, <1>6 DEF Plus
-----------------------------------------------------------------------------
(* The inductive invariant *)

(* The peer has read some of what the transport has taken of the stream, which
   is, outside Write, what has been counted. *)
BytesInv(s) ==
  /\ got[s] <= wire[s] /\ sent[s] <= wire[s]
  /\ phase[s] # "write" => wire[s] = sent[s]
  /\ phase[s] \in {"dial", "open"} => wire[s] = 0
  /\ phase[s] \in {"close", "drain"} => sent[s] = Bytes

(* The peer closes its side after the end of the stream, which the client has
   written once all was. *)
CloseInv(s) ==
  /\ s \in finished => phase[s] \in {"drain", "end"} /\ sent[s] = Bytes
  /\ peer[s] = "closed" => s \in finished /\ got[s] = wire[s]
  /\ phase[s] # "end" => stage[s] = "none"
  /\ Ended(s) /\ stage[s] = "none" => peer[s] = "closed"

(* What the result says stays true, as no outcome changes any more. *)
ResultInv ==
  res.returned =>
    \/ \A s \in Streams : phase[s] = "dial"
    \/ (\A s \in Streams : Ended(s)) /\ res = Summary

StreamInv == \A s \in Streams : BytesInv(s) /\ CloseInv(s)

Inv == TypeOK /\ StreamInv /\ ResultInv

-----------------------------------------------------------------------------
(* Types *)

LEMMA Sizes == Bytes \in Nat /\ Bytes > 0 /\ MsgSize \in Nat
BY TransferAssumption

LEMMA CountsStep ==
  ASSUME CountsOK, [Next]_vars
  PROVE  CountsOK'
<1> USE Sizes DEF CountsOK
<1>1. ASSUME NEW s \in Streams, Take(s)
      PROVE  CountsOK'
  <2>1. wire[s] + 1 \in 0..Bytes
    BY <1>1 DEF Take, ChunkEnd, Smaller
  <2> QED
    BY <1>1, <2>1 DEF Take, peerVars
<1>2. ASSUME NEW s \in Streams, WriteReturns(s) \/ WriteFails(s)
      PROVE  CountsOK'
  BY <1>2 DEF WriteReturns, WriteFails, CountWritten, peerVars
<1>3. ASSUME NEW s \in Streams, PeerReads(s)
      PROVE  CountsOK'
  <2>1. got[s] + 1 \in 0..Bytes
    BY <1>3 DEF PeerReads
  <2> QED
    BY <1>3, <2>1 DEF PeerReads, streamVars
<1>4. CASE UNCHANGED <<sent, wire, got>>
  BY <1>4
<1> QED
  BY <1>1, <1>2, <1>3, <1>4
     DEF Next, vars, streamVars, peerVars, CallStep, Dial, DialFails, Aggregate,
         StreamStep, Open, OpenFails, Close, CloseFails, Drain, DrainFails,
         PeerStep, PeerCloses, PeerResets, ConnDies, Expire

LEMMA StagesStep ==
  ASSUME StagesOK, [Next]_vars
  PROVE  StagesOK'
<1> USE DEF StagesOK, Goto, Fail, streamVars, peerVars
<1>1. CASE Dial
  BY <1>1 DEF Dial
<1>2. ASSUME NEW s \in Streams, StreamStep(s)
      PROVE  StagesOK'
  <2>1. CASE Open(s) \/ Take(s) \/ WriteReturns(s)
    BY <2>1 DEF Open, Take, WriteReturns
  <2>2. CASE OpenFails(s) \/ CloseFails(s) \/ DrainFails(s)
    BY <2>2 DEF OpenFails, CloseFails, DrainFails
  <2>3. CASE WriteFails(s)
    BY <2>3 DEF WriteFails, CountWritten, Reset
  <2>4. CASE Close(s) \/ Drain(s)
    BY <2>4 DEF Close, HalfClose, Drain
  <2> QED
    BY <1>2, <2>1, <2>2, <2>3, <2>4 DEF StreamStep
<1>3. ASSUME NEW s \in Streams, PeerStep(s) \/ PeerResets(s)
      PROVE  StagesOK'
  BY <1>3 DEF PeerStep, PeerReads, PeerCloses, PeerResets
<1>4. CASE DialFails \/ Aggregate \/ ConnDies \/ Expire \/ UNCHANGED vars
  BY <1>4 DEF DialFails, Aggregate, ConnDies, Expire, vars
<1> QED
  BY <1>1, <1>2, <1>3, <1>4 DEF Next, CallStep

LEMMA SummaryType ==
  ASSUME CountsOK
  PROVE  Summary \in [returned : BOOLEAN, completed : Nat, bytesSent : Nat,
                      errors : Nat, error : BOOLEAN]
<1>1. IsFiniteSet(Streams)
  BY TransferAssumption
<1>2. Cardinality(Completed) \in Nat /\ Cardinality(Streams \ Completed) \in Nat
  <2>1. IsFiniteSet(Completed) /\ IsFiniteSet(Streams \ Completed)
    BY <1>1, FS_Subset DEF Completed
  <2> QED
    BY <2>1, FS_CardinalityType
<1>3. Total(sent) \in Nat
  <2>1. sent \in [Streams -> Nat]
    BY Sizes DEF CountsOK
  <2> QED
    BY <2>1, TotalIsSum
<1> QED
  BY <1>2, <1>3 DEF Summary

LEMMA ResultStep ==
  ASSUME CountsOK, ResultOK, [Next]_vars
  PROVE  ResultOK'
<1> USE DEF ResultOK
<1>1. CASE DialFails
  BY <1>1 DEF DialFails, NoResult
<1>2. CASE Aggregate
  BY <1>2, SummaryType DEF Aggregate
<1>3. CASE ConnDies \/ Expire
  BY <1>3 DEF ConnDies, Expire
<1>4. CASE UNCHANGED <<dead, expired, res>>
  BY <1>4
<1> QED
  BY <1>1, <1>2, <1>3, <1>4
     DEF Next, vars, CallStep, Dial, StreamStep, Open, OpenFails, Take,
         WriteReturns, WriteFails, Close, CloseFails, Drain, DrainFails,
         PeerStep, PeerReads, PeerCloses, PeerResets

-----------------------------------------------------------------------------
(* Streams *)

(* Nothing of a stream changes. *)
Still(s) ==
  /\ phase'[s] = phase[s] /\ sent'[s] = sent[s] /\ stage'[s] = stage[s]
  /\ wire'[s] = wire[s] /\ got'[s] = got[s] /\ peer'[s] = peer[s]
  /\ s \in finished' <=> s \in finished

LEMMA StillKeeps ==
  ASSUME NEW s \in Streams, BytesInv(s), CloseInv(s), Still(s)
  PROVE  BytesInv(s)' /\ CloseInv(s)'
BY DEF BytesInv, CloseInv, Still, Ended

LEMMA OthersStill ==
  ASSUME CountsOK, StagesOK, NEW s \in Streams, NEW u \in Streams, u # s,
         StreamStep(u) \/ PeerStep(u) \/ PeerResets(u)
  PROVE  Still(s)
<1> USE DEF CountsOK, StagesOK, Still, Goto, Fail, streamVars, peerVars
<1>1. CASE Open(u) \/ OpenFails(u) \/ Take(u) \/ WriteReturns(u)
  BY <1>1 DEF Open, OpenFails, Take, WriteReturns
<1>2. CASE WriteFails(u)
  BY <1>2 DEF WriteFails, CountWritten, Reset
<1>3. CASE Close(u) \/ CloseFails(u) \/ Drain(u) \/ DrainFails(u)
  BY <1>3 DEF Close, HalfClose, CloseFails, Drain, DrainFails
<1>4. CASE PeerReads(u) \/ PeerCloses(u) \/ PeerResets(u)
  BY <1>4 DEF PeerReads, PeerCloses, PeerResets
<1> QED
  BY <1>1, <1>2, <1>3, <1>4 DEF StreamStep, PeerStep

LEMMA OwnStep ==
  ASSUME CountsOK, StagesOK, NEW s \in Streams, BytesInv(s), CloseInv(s),
         StreamStep(s) \/ PeerStep(s) \/ PeerResets(s)
  PROVE  BytesInv(s)' /\ CloseInv(s)'
<1>1. /\ sent[s] \in 0..Bytes /\ wire[s] \in 0..Bytes /\ got[s] \in 0..Bytes
      /\ stage[s] \in {"none", "open", "write", "close", "drain"}
  BY DEF CountsOK, StagesOK
<1> USE <1>1, Sizes
    DEF BytesInv, CloseInv, Ended, Goto, Fail, streamVars, peerVars
<1>2. CASE Open(s)
  BY <1>2 DEF Open, StagesOK
<1>3. CASE OpenFails(s)
  BY <1>3 DEF OpenFails, StagesOK
<1>4. CASE Take(s)
  <2>1. /\ phase[s] = "write" /\ peer[s] = "reading" /\ wire'[s] = wire[s] + 1
        /\ UNCHANGED <<phase, sent, stage, finished, got, peer>>
    BY <1>4 DEF Take, CountsOK
  <2>2. BytesInv(s)'
    BY <2>1 DEF BytesInv
  <2>3. CloseInv(s)'
    BY <2>1 DEF CloseInv, Ended
  <2> QED
    BY <2>2, <2>3
<1>5. CASE WriteReturns(s)
  <2>1. /\ phase[s] = "write" /\ sent'[s] = wire[s]
        /\ phase'[s] = IF wire[s] < Bytes THEN "write" ELSE "close"
        /\ UNCHANGED <<stage, wire, finished, got, peer>>
    BY <1>5 DEF WriteReturns, CountsOK, StagesOK
  <2>2. BytesInv(s)'
    BY <2>1 DEF BytesInv
  <2>3. CloseInv(s)'
    BY <2>1 DEF CloseInv, Ended
  <2> QED
    BY <2>2, <2>3
<1>6. CASE WriteFails(s)
  <2>1. /\ phase[s] = "write" /\ sent'[s] = wire[s]
        /\ phase'[s] = "end" /\ stage'[s] = "write"
        /\ peer'[s] \in {peer[s], "reset"}
        /\ UNCHANGED <<wire, finished, got>>
    BY <1>6 DEF WriteFails, CountWritten, Reset, CountsOK, StagesOK
  <2>2. BytesInv(s)'
    BY <2>1 DEF BytesInv
  <2>3. CloseInv(s)'
    BY <2>1 DEF CloseInv, Ended
  <2> QED
    BY <2>2, <2>3
<1>7. CASE Close(s)
  BY <1>7 DEF Close, HalfClose, StagesOK
<1>8. CASE CloseFails(s)
  BY <1>8 DEF CloseFails, StagesOK
<1>9. CASE Drain(s)
  BY <1>9 DEF Drain, PeerClosed, StagesOK
<1>10. CASE DrainFails(s)
  BY <1>10 DEF DrainFails, StagesOK
<1>11. CASE PeerReads(s)
  <2>1. /\ got'[s] = got[s] + 1 /\ got[s] < wire[s] /\ peer[s] = "reading"
        /\ UNCHANGED <<phase, sent, stage, wire, finished, peer>>
    BY <1>11 DEF PeerReads, CountsOK
  <2>2. BytesInv(s)'
    BY <2>1 DEF BytesInv
  <2>3. CloseInv(s)'
    BY <2>1 DEF CloseInv, Ended
  <2> QED
    BY <2>2, <2>3
<1>12. CASE PeerCloses(s)
  BY <1>12 DEF PeerCloses, StagesOK
<1>13. CASE PeerResets(s)
  BY <1>13 DEF PeerResets, StagesOK
<1> QED
  BY <1>2, <1>3, <1>4, <1>5, <1>6, <1>7, <1>8, <1>9, <1>10, <1>11, <1>12, <1>13
     DEF StreamStep, PeerStep

LEMMA StreamInvStep ==
  ASSUME CountsOK, StagesOK, StreamInv, [Next]_vars
  PROVE  StreamInv'
<1> SUFFICES ASSUME NEW s \in Streams
             PROVE  BytesInv(s)' /\ CloseInv(s)'
  BY DEF StreamInv
<1>1. BytesInv(s) /\ CloseInv(s)
  BY DEF StreamInv
<1>2. ASSUME NEW u \in Streams, StreamStep(u) \/ PeerStep(u) \/ PeerResets(u)
      PROVE  BytesInv(s)' /\ CloseInv(s)'
  BY <1>1, <1>2, OwnStep, OthersStill, StillKeeps
<1>3. CASE Dial
  BY <1>1, <1>3 DEF Dial, BytesInv, CloseInv, Ended, StagesOK, peerVars
<1>4. CASE DialFails \/ Aggregate \/ ConnDies \/ Expire \/ UNCHANGED vars
  <2>1. Still(s)
    BY <1>4 DEF DialFails, Aggregate, ConnDies, Expire, vars, streamVars,
                peerVars, Still
  <2> QED
    BY <1>1, <2>1, StillKeeps
<1> QED
  BY <1>2, <1>3, <1>4 DEF Next, CallStep

-----------------------------------------------------------------------------
(* The result *)

(* A call that has returned does nothing more on a stream. *)
LEMMA ReturnedStaysStill ==
  ASSUME ResultInv, res.returned, [Next]_vars
  PROVE  UNCHANGED <<phase, sent, stage, res>>
<1>1. \A s \in Streams : ~StreamStep(s)
  <2>1. \A s \in Streams : phase[s] \in {"dial", "end"}
    BY DEF ResultInv, Ended
  <2> QED
    BY <2>1 DEF StreamStep, Open, OpenFails, Take, WriteReturns, WriteFails,
                Close, CloseFails, Drain, DrainFails
<1>2. ~CallStep
  BY DEF CallStep, Dial, DialFails, Aggregate
<1> QED
  BY <1>1, <1>2 DEF Next, PeerStep, PeerReads, PeerCloses, PeerResets, ConnDies,
                    Expire, vars, streamVars, peerVars

LEMMA ResultInvStep ==
  ASSUME ResultInv, [Next]_vars
  PROVE  ResultInv'
<1>1. CASE res.returned
  <2>1. UNCHANGED <<phase, sent, stage, res>>
    BY <1>1, ReturnedStaysStill
  <2>2. UNCHANGED Summary
    BY <2>1 DEF Summary, Completed
  <2> QED
    BY <2>1, <2>2 DEF ResultInv, Ended
<1>2. CASE ~res.returned
  <2>1. CASE DialFails
    BY <2>1 DEF DialFails, ResultInv, streamVars
  <2>2. CASE Aggregate
    <3>1. UNCHANGED Summary
      BY <2>2 DEF Aggregate, streamVars, Summary, Completed
    <3> QED
      BY <2>2, <3>1 DEF Aggregate, ResultInv, Ended, streamVars
  <2>3. CASE UNCHANGED res
    BY <1>2, <2>3 DEF ResultInv
  <2> QED
    BY <2>1, <2>2, <2>3
       DEF Next, vars, CallStep, Dial, StreamStep, Open, OpenFails, Take,
           WriteReturns, WriteFails, Close, CloseFails, Drain, DrainFails,
           PeerStep, PeerReads, PeerCloses, PeerResets, ConnDies, Expire
<1> QED
  BY <1>1, <1>2

-----------------------------------------------------------------------------
LEMMA InitInv ==
  ASSUME Init
  PROVE  Inv
<1>1. CountsOK /\ StagesOK
  <2>1. CountsOK
    <3>1. 0 \in 0..Bytes
      BY Sizes
    <3> QED
      BY <3>1 DEF Init, CountsOK
  <2>2. StagesOK
    BY DEF Init, StagesOK
  <2> QED
    BY <2>1, <2>2
<1>2. ResultOK /\ ResultInv
  BY DEF Init, NoResult, ResultOK, ResultInv
<1>3. StreamInv
  <2>1. \A s \in Streams : /\ got[s] = 0 /\ wire[s] = 0 /\ sent[s] = 0
                           /\ phase[s] = "dial" /\ stage[s] = "none"
                           /\ peer[s] = "none" /\ s \notin finished
    BY DEF Init
  <2>2. \A s \in Streams : BytesInv(s)
    BY <2>1 DEF BytesInv
  <2>3. \A s \in Streams : CloseInv(s)
    BY <2>1 DEF CloseInv, Ended
  <2> QED
    BY <2>2, <2>3 DEF StreamInv
<1> QED
  BY <1>1, <1>2, <1>3 DEF Inv, TypeOK

(* The invariant holds throughout: it carries every theorem below. *)
THEOREM Invariance == Spec => []Inv
<1>1. Inv /\ [Next]_vars => Inv'
  BY CountsStep, StagesStep, ResultStep, StreamInvStep, ResultInvStep DEF Inv, TypeOK
<1> QED
  BY <1>1, InitInv, PTL DEF Spec

(* Every reachable state is type-correct. *)
THEOREM TypeCorrect == Spec => []TypeOK
<1>1. Inv => TypeOK
  BY DEF Inv
<1> QED
  BY <1>1, Invariance, PTL

LEMMA InvDelivered ==
  ASSUME Inv
  PROVE  CompletedDelivered /\ SentCoversReceived
BY Sizes DEF Inv, TypeOK, CountsOK, StreamInv, BytesInv, CloseInv,
   CompletedDelivered, SentCoversReceived, Ended

(* A stream that ends without an error was read by the peer to its last byte,
   whatever fails, expires or is written short (client.go:538-540). *)
THEOREM Delivered == Spec => []CompletedDelivered
BY Invariance, InvDelivered, PTL

(* An outcome claims no less than the peer has read, and goes on doing so while
   the peer reads what is on its way (client.go:575-581). *)
THEOREM NothingUnderstated == Spec => []SentCoversReceived
BY Invariance, InvDelivered, PTL

(* The counts, the error and the bytes of a result agree with the peer's, for
   any number of streams (client.go:345-388). *)
THEOREM ResultsAgree == Spec => []ResultAgrees
<1>1. ASSUME Inv, res.returned, \A s \in Streams : Ended(s)
      PROVE  /\ res.completed + res.errors = Cardinality(Streams)
             /\ res.error <=> res.completed < Cardinality(Streams)
             /\ res.completed <= Cardinality({s \in Streams : got[s] = Bytes})
             /\ Total(got) <= res.bytesSent
  <2>1. res = Summary
    BY <1>1, TransferAssumption DEF Inv, ResultInv, Ended
  <2>2. CompletedDelivered /\ SentCoversReceived
    BY <1>1, InvDelivered
  <2>3. IsFiniteSet(Streams)
    BY TransferAssumption
  <2>4. Completed \in SUBSET Streams
    BY DEF Completed
  <2>5. /\ IsFiniteSet(Completed)
        /\ Cardinality(Completed) \in Nat /\ Cardinality(Streams) \in Nat
        /\ Cardinality(Completed) <= Cardinality(Streams)
        /\ Cardinality(Completed) = Cardinality(Streams) => Completed = Streams
    BY <2>3, <2>4, FS_Subset, FS_CardinalityType
  <2>6. Cardinality(Streams \ Completed) = Cardinality(Streams) - Cardinality(Completed)
    <3>1. Streams \cap Completed = Completed
      BY <2>4
    <3> QED
      BY <2>3, <3>1, FS_Difference
  <2>7. \A s \in Streams \ Completed : stage[s] # "none"
    BY <1>1 DEF Inv, StreamInv, CloseInv, Completed, Ended
  <2>8. Cardinality(Completed) <= Cardinality({s \in Streams : got[s] = Bytes})
    <3> DEFINE Read == {s \in Streams : got[s] = Bytes}
    <3>1. Completed \in SUBSET Read
      BY <1>1, <2>2 DEF CompletedDelivered, Completed
    <3>2. IsFiniteSet(Read)
      BY <2>3, FS_Subset
    <3> HIDE DEF Read
    <3>3. Cardinality(Completed) <= Cardinality(Read)
      BY <3>1, <3>2, FS_Subset
    <3> QED
      BY <3>3 DEF Read
  <2>9. Total(got) <= Total(sent)
    <3>1. got \in [Streams -> Nat] /\ sent \in [Streams -> Nat]
      BY <1>1, Sizes DEF Inv, TypeOK, CountsOK
    <3>2. \A s \in Streams : got[s] <= sent[s]
      BY <1>1, <2>2 DEF SentCoversReceived
    <3> QED
      BY <3>1, <3>2, TotalMonotone
  <2>10. (\E s \in Streams \ Completed : stage[s] # "none") <=> Completed # Streams
    BY <2>4, <2>7
  <2> QED
    <3>1. /\ res.completed = Cardinality(Completed)
          /\ res.errors = Cardinality(Streams \ Completed)
          /\ res.bytesSent = Total(sent)
      BY <2>1 DEF Summary
    <3>2. res.error <=> Completed # Streams
      BY <2>1, <2>10 DEF Summary
    <3>3. res.error <=> res.completed < Cardinality(Streams)
      BY <2>5, <3>1, <3>2
    <3> QED
      BY <2>5, <2>6, <2>8, <2>9, <3>1, <3>3
<1>2. Inv => ResultAgrees
  BY <1>1 DEF ResultAgrees
<1> QED
  BY <1>2, Invariance, PTL
=============================================================================

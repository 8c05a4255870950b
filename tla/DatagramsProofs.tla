-------------------------- MODULE DatagramsProofs --------------------------
(***************************************************************************)
(* Proofs about Datagrams for any number of calls and datagrams, with or   *)
(* without deadlines: how far an echo may be counted for the wrong         *)
(* datagram, that loss is never understated, and that each call is the     *)
(* account it is specified by.                                             *)
(***************************************************************************)
EXTENDS Datagrams, FiniteSetTheorems, SequenceTheorems, TLAPS

-----------------------------------------------------------------------------
(* The inductive invariant *)

InFlight == out \cup back \cup Range(inbox)

(* A datagram whose echo may yet be read, or that will never be. *)
Unread == InFlight \cup dropped

Echoes == {a.echo : a \in credits}

Credited == {a.send : a \in credits}

(* The call under way has got as far as the datagram d ... *)
Begun(d) == d.call <= calls /\ (d.call = calls => d.seq <= seq)

(* ... and sent it, or is past it. *)
Issued(d) == Begun(d) /\ (pc = "send" => d # Current)

Decided(d) == Begun(d) /\ (pc # "idle" => d # Current)

TypeInv == TypeOK /\ inbox \in Seq(Sends)

(* The numbers of the result while the call is under way. *)
CallInv ==
  /\ pc # "idle" => calls # 0 /\ ~res.error /\ res.echoed + res.lost = seq
  /\ pc = "send" => res.sent = seq
  /\ pc = "await" => seq < count /\ res.sent = seq + 1

(* A datagram, or its echo, is in one place at a time, and only there. *)
PlaceInv ==
  /\ out \cap back = {} /\ (out \cup back) \cap Range(inbox) = {}
  /\ IsInjective(inbox)
  /\ InFlight \cap dropped = {}
  /\ Unread \cap Echoes = {}

IssuedInv == \A d \in Unread \cup Echoes : Issued(d)

DecidedInv == \A d \in Credited \cup losses \cup failed : Decided(d)

(* A wait for the number of d has timed out, in the call of d or before. *)
LossBy(d) == \E l \in losses : l.seq = d.seq /\ l.call <= d.call

(* What can still arrive and is not awaited has left a loss behind it, or a
   connection that is about to be replaced. *)
StaleInv ==
  \A d \in InFlight :
    \/ pc = "await" /\ d = Current
    \/ LossBy(d)
    \/ pc = "idle" /\ conn # "live"

LossInv ==
  Cardinality(Unread) <= Cardinality(losses) + Cardinality(failed)
                         + (IF pc = "await" THEN 1 ELSE 0)

Inv ==
  /\ TypeInv /\ CallInv /\ PlaceInv /\ IssuedInv /\ DecidedInv
  /\ OneCreditEach /\ LateCreditAfterLoss /\ StaleInv /\ LossInv

-----------------------------------------------------------------------------
(* Sequences, records and finite sets *)

LEMMA Bounds == MaxCount \in Nat /\ MaxCount > 0 /\ MaxCalls \in Nat /\ MaxCalls > 0
BY DatagramsAssumption

LEMMA SendFields ==
  ASSUME NEW d \in Sends
  PROVE  /\ d.call \in 1..MaxCalls /\ d.seq \in 0..(MaxCount - 1)
         /\ \A c, n : d = [call |-> c, seq |-> n] <=> d.call = c /\ d.seq = n
BY DEF Sends

LEMMA RangeAppend ==
  ASSUME NEW S, NEW q \in Seq(S), NEW e \in S, e \notin Range(q), IsInjective(q)
  PROVE  /\ Append(q, e) \in Seq(S)
         /\ Range(Append(q, e)) = Range(q) \cup {e}
         /\ IsInjective(Append(q, e))
<1> DEFINE r == Append(q, e)
<1>1. /\ r \in Seq(S) /\ Len(r) = Len(q) + 1 /\ Len(q) \in Nat
      /\ \A i \in 1..Len(q) : r[i] = q[i]
      /\ r[Len(q) + 1] = e
  OBVIOUS
<1>2. DOMAIN r = 1..(Len(q) + 1) /\ DOMAIN q = 1..Len(q)
  BY <1>1
<1> HIDE DEF r
<1>3. Range(r) = Range(q) \cup {e}
  <2>1. Range(r) \subseteq Range(q) \cup {e}
    BY <1>1, <1>2 DEF Range
  <2>2. \A i \in 1..Len(q) : i \in DOMAIN r
    BY <1>1, <1>2
  <2>3. Len(q) + 1 \in DOMAIN r
    BY <1>1, <1>2
  <2> QED
    BY <1>1, <1>2, <2>1, <2>2, <2>3 DEF Range
<1>4. IsInjective(r)
  <2> SUFFICES ASSUME NEW i \in DOMAIN r, NEW j \in DOMAIN r, r[i] = r[j]
               PROVE  i = j
    BY DEF IsInjective
  <2>1. \A k \in 1..Len(q) : r[k] # e
    BY <1>1, <1>2 DEF Range
  <2>2. CASE i \in 1..Len(q) /\ j \in 1..Len(q)
    BY <1>1, <1>2, <2>2 DEF IsInjective
  <2>3. CASE i = Len(q) + 1 \/ j = Len(q) + 1
    BY <1>1, <1>2, <2>1, <2>3
  <2> QED
    BY <1>1, <1>2, <2>2, <2>3
<1> QED
  BY <1>1, <1>3, <1>4 DEF r

LEMMA RangeTail ==
  ASSUME NEW S, NEW q \in Seq(S), q # <<>>, IsInjective(q)
  PROVE  /\ Tail(q) \in Seq(S)
         /\ Head(q) \in Range(q) /\ Head(q) \in S
         /\ Range(Tail(q)) = Range(q) \ {Head(q)}
         /\ IsInjective(Tail(q))
<1> DEFINE r == Tail(q)
<1>1. /\ r \in Seq(S) /\ Len(r) = Len(q) - 1 /\ Len(q) \in Nat /\ Len(q) > 0
      /\ \A i \in 1..Len(r) : r[i] = q[i + 1]
      /\ Head(q) = q[1]
  OBVIOUS
<1>2. DOMAIN r = 1..(Len(q) - 1) /\ DOMAIN q = 1..Len(q)
  BY <1>1
<1> HIDE DEF r
<1>3. Head(q) \in Range(q) /\ Head(q) \in S
  BY <1>1, <1>2 DEF Range
<1>4. \A i \in DOMAIN r : i + 1 \in DOMAIN q /\ i + 1 # 1 /\ r[i] = q[i + 1]
  BY <1>1, <1>2
<1>5. \A i \in DOMAIN q : i # 1 => i - 1 \in DOMAIN r /\ r[i - 1] = q[i]
  <2> SUFFICES ASSUME NEW i \in DOMAIN q, i # 1
               PROVE  i - 1 \in DOMAIN r /\ r[i - 1] = q[i]
    OBVIOUS
  <2>1. i - 1 \in DOMAIN r /\ (i - 1) + 1 = i
    BY <1>1, <1>2
  <2> QED
    BY <1>4, <2>1
<1>6. Range(r) = Range(q) \ {Head(q)}
  <2>1. ASSUME NEW x \in Range(r) PROVE x \in Range(q) \ {Head(q)}
    <3>1. PICK i \in DOMAIN r : x = r[i]
      BY DEF Range
    <3>2. i + 1 \in DOMAIN q /\ i + 1 # 1 /\ x = q[i + 1] /\ 1 \in DOMAIN q
      BY <1>1, <1>2, <1>4, <3>1
    <3> QED
      BY <1>1, <3>2 DEF Range, IsInjective
  <2>2. ASSUME NEW x \in Range(q) \ {Head(q)} PROVE x \in Range(r)
    <3>1. PICK i \in DOMAIN q : x = q[i]
      BY DEF Range
    <3>2. i # 1
      BY <1>1, <3>1
    <3> QED
      BY <1>5, <3>1, <3>2 DEF Range
  <2> QED
    BY <2>1, <2>2
<1>7. IsInjective(r)
  <2> SUFFICES ASSUME NEW i \in DOMAIN r, NEW j \in DOMAIN r, r[i] = r[j]
               PROVE  i = j
    BY DEF IsInjective
  <2>1. i + 1 = j + 1
    BY <1>4 DEF IsInjective
  <2> QED
    BY <1>2, <2>1
<1> QED
  BY <1>1, <1>3, <1>6, <1>7 DEF r

LEMMA SendsFinite ==
  ASSUME NEW S \in SUBSET Sends
  PROVE  IsFiniteSet(S) /\ Cardinality(S) \in Nat
<1> DEFINE P == (1..MaxCalls) \X (0..(MaxCount - 1))
           f == [p \in P |-> [call |-> p[1], seq |-> p[2]]]
<1>1. IsFiniteSet(P)
  <2>1. IsFiniteSet(1..MaxCalls) /\ IsFiniteSet(0..(MaxCount - 1))
    BY Bounds, FS_Interval
  <2> QED
    BY <2>1, FS_Product
<1>2. f \in Surjection(P, Sends)
  <2>1. \A d \in Sends : <<d.call, d.seq>> \in P /\ d = f[<<d.call, d.seq>>]
    BY DEF Sends
  <2>2. f \in [P -> Sends]
    BY DEF Sends
  <2> HIDE DEF f, P
  <2> QED
    BY <2>1, <2>2 DEF Surjection
<1>3. IsFiniteSet(Sends)
  BY <1>1, <1>2, FS_Surjection
<1> QED
  BY <1>3, FS_Subset, FS_CardinalityType

-----------------------------------------------------------------------------
(* Types *)

LocalOK ==
  /\ pc \in {"idle", "send", "await"} /\ lapsed \in BOOLEAN
  /\ calls \in 0..MaxCalls /\ conn \in {"none", "live", "dead"}
  /\ count \in 0..MaxCount /\ seq \in 0..count

ResultOK ==
  res \in [sent : 0..count, echoed : 0..count, lost : 0..count, error : BOOLEAN]

LEMMA LocalTypes ==
  ASSUME TypeInv, CallInv, [Next]_vars
  PROVE  LocalOK'
<1>0. LocalOK /\ (pc = "await" => seq < count)
  BY DEF TypeInv, TypeOK, CallInv, LocalOK
<1> USE <1>0, Bounds DEF LocalOK, callVars, netVars, sampleVars
<1>1. ASSUME NEW n \in 1..MaxCount, Call(n) \/ CallDials(n)
      PROVE  LocalOK'
  <2>1. /\ pc' = "send" /\ lapsed' = lapsed /\ calls' = calls + 1
        /\ calls < MaxCalls /\ conn' = "live" /\ count' = n /\ seq' = 0
    BY <1>1 DEF Call, CallDials
  <2> QED
    BY <2>1
<1>2. CASE CallDialFails
  BY <1>2 DEF CallDialFails
<1>3. CASE Send \/ SendFails \/ Finish \/ ReadOther \/ ReadFails
  BY <1>3 DEF Send, SendFails, Finish, ReadOther, ReadFails
<1>4. CASE ReadEcho \/ TimeOut
  BY <1>4 DEF ReadEcho, TimeOut, NextLost
<1>5. CASE Lapse \/ ConnDies \/ UNCHANGED vars
  BY <1>5 DEF Lapse, ConnDies, vars
<1>6. ASSUME NEW d \in Sends, PeerEchoes(d) \/ Arrives(d) \/ Lose(d)
      PROVE  LocalOK'
  BY <1>6 DEF PeerEchoes, Arrives, Lose
<1> QED
  BY <1>1, <1>2, <1>3, <1>4, <1>5, <1>6 DEF Next, CallerStep

(* How the result changes, and with it the numbers CallInv speaks of. *)
LEMMA ResultStep ==
  ASSUME TypeInv, CallInv, [Next]_vars
  PROVE  ResultOK' /\ CallInv'
<1>0. LocalOK /\ ResultOK /\ CallInv
  BY DEF TypeInv, TypeOK, LocalOK, ResultOK
<1> USE <1>0, Bounds DEF LocalOK, ResultOK, CallInv, callVars, netVars, sampleVars
<1>1. ASSUME NEW n \in 1..MaxCount, Call(n) \/ CallDials(n)
      PROVE  ResultOK' /\ CallInv'
  <2>1. /\ pc' = "send" /\ calls' # 0 /\ count' = n /\ seq' = 0
        /\ res' = NoResult
    BY <1>1 DEF Call, CallDials
  <2> QED
    BY <2>1 DEF NoResult
<1>2. CASE CallDialFails
  <2>1. /\ UNCHANGED <<pc, count, seq>> /\ pc = "idle"
        /\ res' = [sent |-> 0, echoed |-> 0, lost |-> 0, error |-> TRUE]
    BY <1>2 DEF CallDialFails, NoResult
  <2> QED
    BY <2>1
<1>3. CASE Send
  BY <1>3 DEF Send, More
<1>4. CASE SendFails \/ ReadFails
  BY <1>4 DEF SendFails, ReadFails
<1>5. CASE ReadEcho
  BY <1>5 DEF ReadEcho
<1>6. CASE TimeOut
  BY <1>6 DEF TimeOut, NextLost, CountLoss
<1>7. CASE Finish
  BY <1>7 DEF Finish
<1>8. CASE Lapse \/ ReadOther \/ ConnDies \/ UNCHANGED vars
  BY <1>8 DEF Lapse, ReadOther, ConnDies, vars
<1>9. ASSUME NEW d \in Sends, PeerEchoes(d) \/ Arrives(d) \/ Lose(d)
      PROVE  ResultOK' /\ CallInv'
  BY <1>9 DEF PeerEchoes, Arrives, Lose
<1> QED
  BY <1>1, <1>2, <1>3, <1>4, <1>5, <1>6, <1>7, <1>8, <1>9
     DEF Next, CallerStep

LEMMA CurrentType ==
  ASSUME TypeInv, CallInv, pc = "await" \/ (pc = "send" /\ More)
  PROVE  Current \in Sends
BY Bounds DEF TypeInv, TypeOK, CallInv, More, Current, Sends

LEMMA NetTypes ==
  ASSUME TypeInv, CallInv, PlaceInv, [Next]_vars
  PROVE  /\ out' \subseteq Sends /\ back' \subseteq Sends
         /\ dropped' \subseteq Sends /\ inbox' \in Seq(Sends)
<1>1. /\ out \subseteq Sends /\ back \subseteq Sends /\ dropped \subseteq Sends
      /\ Range(inbox) \subseteq Sends /\ inbox \in Seq(Sends)
      /\ IsInjective(inbox)
  BY DEF TypeInv, TypeOK, PlaceInv
<1>2. inbox # <<>> => Head(inbox) \in Sends /\ Tail(inbox) \in Seq(Sends)
  BY <1>1
<1>3. ASSUME NEW n \in 1..MaxCount, Call(n) \/ CallDials(n)
      PROVE  /\ out' \subseteq Sends /\ back' \subseteq Sends
             /\ dropped' \subseteq Sends /\ inbox' \in Seq(Sends)
  <2>1. CASE Call(n)
    BY <1>1, <2>1 DEF Call, netVars
  <2>2. CASE CallDials(n)
    <3>1. out' = {} /\ back' = {} /\ inbox' = <<>>
      BY <2>2 DEF CallDials
    <3>2. dropped' = dropped \cup out \cup back \cup Range(inbox)
      BY <2>2 DEF CallDials
    <3> QED
      BY <1>1, <3>1, <3>2
  <2> QED
    BY <1>3, <2>1, <2>2
<1>4. CASE Send
  BY <1>1, <1>4, CurrentType DEF Send
<1>5. CASE ReadEcho \/ ReadOther
  BY <1>1, <1>2, <1>5 DEF ReadEcho, Consume, ReadOther
<1>6. CASE UNCHANGED netVars
  BY <1>1, <1>6 DEF netVars
<1>7. ASSUME NEW d \in Sends, PeerEchoes(d) \/ Arrives(d) \/ Lose(d)
      PROVE  /\ out' \subseteq Sends /\ back' \subseteq Sends
             /\ dropped' \subseteq Sends /\ inbox' \in Seq(Sends)
  BY <1>1, <1>7 DEF PeerEchoes, Arrives, Lose
<1> QED
  BY <1>3, <1>4, <1>5, <1>6, <1>7
     DEF Next, CallerStep, CallDialFails, SendFails, Finish, TimeOut, ReadFails,
         Lapse, ConnDies, vars

LEMMA SampleTypes ==
  ASSUME TypeInv, CallInv, [Next]_vars
  PROVE  /\ credits' \subseteq [echo : Sends, send : Sends]
         /\ losses' \subseteq Sends /\ failed' \subseteq Sends
<1>1. /\ credits \subseteq [echo : Sends, send : Sends]
      /\ losses \subseteq Sends /\ failed \subseteq Sends
      /\ inbox # <<>> => Head(inbox) \in Sends
  BY DEF TypeInv, TypeOK
<1>2. CASE ReadEcho
  BY <1>1, <1>2, CurrentType DEF ReadEcho
<1>3. CASE TimeOut
  BY <1>1, <1>3, CurrentType DEF TimeOut, NextLost, CountLoss
<1>4. CASE ReadFails
  BY <1>1, <1>4, CurrentType DEF ReadFails
<1>5. CASE UNCHANGED sampleVars
  BY <1>1, <1>5 DEF sampleVars
<1> QED
  BY <1>2, <1>3, <1>4, <1>5
     DEF Next, Call, CallDials, CallDialFails, CallerStep, Send, SendFails,
         Finish, ReadOther, Lapse, PeerEchoes, Arrives, Lose, ConnDies, vars

LEMMA TypeStep ==
  ASSUME TypeInv, CallInv, PlaceInv, [Next]_vars
  PROVE  TypeInv'
<1>1. inbox' \in Seq(Sends) => Range(inbox') \subseteq Sends
  BY DEF Range
<1> QED
  BY <1>1, LocalTypes, ResultStep, NetTypes, SampleTypes
     DEF TypeInv, TypeOK, LocalOK, ResultOK

-----------------------------------------------------------------------------
(* How far the calls have got *)

LEMMA Progress ==
  ASSUME TypeInv, [Next]_vars
  PROVE  \/ calls' = calls + 1
         \/ calls' = calls /\ seq' = seq + 1 /\ pc = "await" /\ pc' = "send"
         \/ UNCHANGED <<calls, seq>> /\ (pc' # pc => pc # "idle" /\ pc' # "send")
<1> USE DEF callVars
<1>1. ASSUME NEW n \in 1..MaxCount, Call(n) \/ CallDials(n)
      PROVE  calls' = calls + 1
  BY <1>1 DEF Call, CallDials
<1>2. ASSUME NEW d \in Sends, PeerEchoes(d) \/ Arrives(d) \/ Lose(d)
      PROVE  UNCHANGED <<calls, seq, pc>>
  BY <1>2 DEF PeerEchoes, Arrives, Lose
<1>3. CASE CallDialFails \/ Send \/ SendFails \/ Finish
  BY <1>3 DEF CallDialFails, Send, SendFails, Finish
<1>4. CASE ReadEcho \/ TimeOut
  BY <1>4 DEF ReadEcho, TimeOut, NextLost
<1>5. CASE ReadOther \/ ReadFails \/ Lapse \/ ConnDies \/ UNCHANGED vars
  BY <1>5 DEF ReadOther, ReadFails, Lapse, ConnDies, vars
<1> QED
  BY <1>1, <1>2, <1>3, <1>4, <1>5 DEF Next, CallerStep

LEMMA ProgressKeeps ==
  ASSUME TypeInv, [Next]_vars, NEW d \in Sends
  PROVE  (Issued(d) => Issued(d)') /\ (Decided(d) => Decided(d)')
<1>1. /\ d.call \in Nat /\ d.seq \in Nat /\ calls \in Nat /\ seq \in Nat
      /\ d = Current <=> d.call = calls /\ d.seq = seq
      /\ d = Current' <=> d.call = calls' /\ d.seq = seq'
  <2>1. d.call \in Nat /\ d.seq \in Nat
    BY SendFields, Bounds
  <2>2. calls \in Nat /\ seq \in Nat
    BY Bounds DEF TypeInv, TypeOK
  <2>3. \A c, n : d = [call |-> c, seq |-> n] <=> d.call = c /\ d.seq = n
    BY SendFields
  <2> QED
    BY <2>1, <2>2, <2>3 DEF Current
<1>2. CASE calls' = calls + 1
  BY <1>1, <1>2 DEF Issued, Decided, Begun
<1>3. CASE calls' = calls /\ seq' = seq + 1
  BY <1>1, <1>3 DEF Issued, Decided, Begun
<1>4. CASE /\ UNCHANGED <<calls, seq>>
           /\ pc' # pc => pc # "idle" /\ pc' # "send"
  BY <1>1, <1>4 DEF Issued, Decided, Begun
<1> QED
  BY <1>2, <1>3, <1>4, Progress

-----------------------------------------------------------------------------
(* Where the datagrams are *)

(* What ReadEcho does to the sets the invariant speaks of. *)
LEMMA ReadEchoSets ==
  ASSUME TypeInv, CallInv, PlaceInv, ReadEcho
  PROVE  LET e == Head(inbox) IN
           /\ Range(inbox') = Range(inbox) \ {e} /\ IsInjective(inbox')
           /\ e \in Range(inbox) /\ e \in Sends /\ e.seq = seq
           /\ Current \in Sends
           /\ credits' = credits \cup {[echo |-> e, send |-> Current]}
           /\ Echoes' = Echoes \cup {e} /\ Credited' = Credited \cup {Current}
           /\ UNCHANGED <<out, back, dropped, losses, failed, calls, conn>>
           /\ pc = "await" /\ pc' = "send" /\ seq' = seq + 1
           /\ Unread' = Unread \ {e} /\ InFlight' = InFlight \ {e}
<1> DEFINE e == Head(inbox)
<1>1. /\ e \in Range(inbox) /\ e \in Sends
      /\ Range(Tail(inbox)) = Range(inbox) \ {e} /\ IsInjective(Tail(inbox))
  BY RangeTail DEF TypeInv, PlaceInv, ReadEcho
<1>2. /\ inbox' = Tail(inbox) /\ e.seq = seq
      /\ credits' = credits \cup {[echo |-> e, send |-> Current]}
      /\ UNCHANGED <<out, back, dropped, losses, failed, calls, conn>>
      /\ pc = "await" /\ pc' = "send" /\ seq' = seq + 1
  BY DEF ReadEcho, Consume, Matches
<1>3. Current \in Sends
  BY <1>2, CurrentType
<1> HIDE DEF e
<1>4. Echoes' = Echoes \cup {e} /\ Credited' = Credited \cup {Current}
  <2> DEFINE a == [echo |-> e, send |-> Current]
  <2>1. credits' = credits \cup {a} /\ a.echo = e /\ a.send = Current
    BY <1>2
  <2> HIDE DEF a
  <2> QED
    BY <2>1 DEF Echoes, Credited
<1>5. Unread' = Unread \ {e} /\ InFlight' = InFlight \ {e}
  BY <1>1, <1>2 DEF PlaceInv, Unread, InFlight
<1> QED
  BY <1>1, <1>2, <1>3, <1>4, <1>5 DEF e

LEMMA PlaceStep ==
  ASSUME TypeInv, CallInv, PlaceInv, IssuedInv, [Next]_vars
  PROVE  /\ PlaceInv'
         /\ Unread' \subseteq Unread \cup (IF Send THEN {Current} ELSE {})
         /\ Echoes' \subseteq Unread \cup Echoes
<1> USE DEF PlaceInv, Unread, InFlight, Echoes
<1>1. ASSUME NEW n \in 1..MaxCount, CallDials(n)
      PROVE  PlaceInv' /\ Unread' \subseteq Unread /\ UNCHANGED Echoes
  <2>1. /\ out' = {} /\ back' = {} /\ inbox' = <<>>
        /\ dropped' = dropped \cup out \cup back \cup Range(inbox)
        /\ UNCHANGED credits
    BY <1>1 DEF CallDials, sampleVars
  <2>2. Range(inbox') = {} /\ IsInjective(inbox')
    BY <2>1 DEF Range, IsInjective
  <2> QED
    BY <2>1, <2>2
<1>2. CASE Send
  <2>1. Current \notin Unread \cup Echoes
    BY <1>2 DEF IssuedInv, Issued, Send
  <2>2. out' = out \cup {Current} /\ UNCHANGED <<back, inbox, dropped, credits>>
    BY <1>2 DEF Send, sampleVars
  <2> QED
    BY <1>2, <2>1, <2>2
<1>3. CASE ReadEcho
  <2>1. /\ Head(inbox) \in Range(inbox)
        /\ Range(inbox') = Range(inbox) \ {Head(inbox)} /\ IsInjective(inbox')
        /\ Echoes' = Echoes \cup {Head(inbox)}
        /\ UNCHANGED <<out, back, dropped>>
    BY <1>3, ReadEchoSets
  <2> QED
    BY <2>1
<1>4. CASE ReadOther
  <2>1. /\ Head(inbox) \in Range(inbox)
        /\ Range(Tail(inbox)) = Range(inbox) \ {Head(inbox)}
        /\ IsInjective(Tail(inbox))
    BY <1>4, RangeTail DEF TypeInv, ReadOther
  <2>2. /\ inbox' = Tail(inbox) /\ dropped' = dropped \cup {Head(inbox)}
        /\ UNCHANGED <<out, back, credits>>
    BY <1>4 DEF ReadOther, sampleVars
  <2> QED
    BY <2>1, <2>2
<1>5. ASSUME NEW d \in Sends, PeerEchoes(d) \/ Lose(d)
      PROVE  PlaceInv' /\ Unread' \subseteq Unread /\ UNCHANGED Echoes
  BY <1>5 DEF PeerEchoes, Lose, sampleVars
<1>6. ASSUME NEW d \in Sends, Arrives(d)
      PROVE  PlaceInv' /\ Unread' \subseteq Unread /\ UNCHANGED Echoes
  <2>1. /\ d \in back /\ back' = back \ {d} /\ inbox' = Append(inbox, d)
        /\ UNCHANGED <<out, dropped, credits>>
    BY <1>6 DEF Arrives, sampleVars
  <2>2. /\ Range(inbox') = Range(inbox) \cup {d} /\ IsInjective(inbox')
    BY <2>1, RangeAppend DEF TypeInv
  <2> QED
    BY <2>1, <2>2
<1>7. CASE UNCHANGED <<netVars, credits>>
  BY <1>7 DEF netVars
<1>8. \/ \E n \in 1..MaxCount : CallDials(n)
      \/ Send \/ ReadEcho \/ ReadOther
      \/ \E d \in Sends : PeerEchoes(d) \/ Arrives(d) \/ Lose(d)
      \/ UNCHANGED <<netVars, credits>>
  BY DEF Next, Call, CallDialFails, CallerStep, SendFails, Finish, TimeOut,
         ReadFails, Lapse, ConnDies, vars, sampleVars
<1> QED
  BY ONLY <1>1, <1>2, <1>3, <1>4, <1>5, <1>6, <1>7, <1>8

LEMMA IssuedStep ==
  ASSUME TypeInv, CallInv, PlaceInv, IssuedInv, [Next]_vars
  PROVE  IssuedInv'
<1> SUFFICES ASSUME NEW d \in Unread' \cup Echoes'
             PROVE  Issued(d)'
  BY DEF IssuedInv
<1>1. CASE d \in Unread \cup Echoes
  <2>1. d \in Sends /\ Issued(d)
    BY <1>1 DEF IssuedInv, TypeInv, TypeOK, Unread, InFlight, Echoes
  <2> QED
    BY <2>1, ProgressKeeps
<1>2. CASE Send /\ d = Current
  BY <1>2, Bounds DEF Send, Issued, Begun, Current, TypeInv, TypeOK
<1> QED
  BY <1>1, <1>2, PlaceStep

LEMMA DecidedStep ==
  ASSUME TypeInv, CallInv, PlaceInv, DecidedInv, [Next]_vars
  PROVE  DecidedInv'
<1> DEFINE D == Credited \cup losses \cup failed
<1>1. \A d \in D : Decided(d)'
  <2> SUFFICES ASSUME NEW d \in D PROVE Decided(d)'
    OBVIOUS
  <2>1. d \in Sends /\ Decided(d)
    BY DEF DecidedInv, TypeInv, TypeOK, Credited
  <2> QED
    BY <2>1, ProgressKeeps
<1>2. CASE D' \subseteq D
  BY <1>1, <1>2 DEF DecidedInv
<1>3. CASE /\ D' \subseteq D \cup {Current}
           /\ \A d : d = Current => Decided(d)'
  BY <1>1, <1>3 DEF DecidedInv
<1>4. calls \in Nat /\ seq \in Nat
  BY Bounds DEF TypeInv, TypeOK
<1>5. CASE ReadEcho
  <2>1. \A d : d = Current => Decided(d)'
    BY <1>4, <1>5 DEF ReadEcho, Decided, Begun, Current
  <2>2. D' \subseteq D \cup {Current}
    BY <1>5, ReadEchoSets
  <2> QED
    BY <1>3, <2>1, <2>2
<1>6. CASE TimeOut
  <2>1. \A d : d = Current => Decided(d)'
    BY <1>4, <1>6 DEF TimeOut, NextLost, Decided, Begun, Current
  <2>2. D' \subseteq D \cup {Current}
    BY <1>6 DEF TimeOut, NextLost, CountLoss, Credited
  <2> QED
    BY <1>3, <2>1, <2>2
<1>7. CASE ReadFails
  <2>1. \A d : d = Current => Decided(d)'
    BY <1>4, <1>7 DEF ReadFails, Decided, Begun, Current
  <2>2. D' \subseteq D \cup {Current}
    BY <1>7 DEF ReadFails, Credited
  <2> QED
    BY <1>3, <2>1, <2>2
<1>8. CASE UNCHANGED sampleVars
  BY <1>2, <1>8 DEF sampleVars, Credited
<1> QED
  BY <1>5, <1>6, <1>7, <1>8
     DEF Next, Call, CallDials, CallDialFails, CallerStep, Send, SendFails,
         Finish, ReadOther, Lapse, PeerEchoes, Arrives, Lose, ConnDies, vars

-----------------------------------------------------------------------------
(* Which echo is counted for which datagram *)

LEMMA OneCreditStep ==
  ASSUME TypeInv, CallInv, PlaceInv, DecidedInv, OneCreditEach, [Next]_vars
  PROVE  OneCreditEach'
<1>1. CASE UNCHANGED credits
  BY <1>1 DEF OneCreditEach
<1>2. CASE ReadEcho
  <2> DEFINE a == [echo |-> Head(inbox), send |-> Current]
  <2>1. /\ credits' = credits \cup {a}
        /\ a.echo \in Unread /\ a.send = Current /\ pc = "await"
    BY <1>2, ReadEchoSets DEF Unread, InFlight
  <2> HIDE DEF a
  <2>2. \A b \in credits : b.echo # a.echo
    BY <2>1 DEF PlaceInv, Echoes
  <2>3. \A b \in credits : b.send # a.send
    BY <2>1 DEF DecidedInv, Decided, Credited
  <2> QED
    BY <2>1, <2>2, <2>3 DEF OneCreditEach
<1> QED
  BY <1>1, <1>2
     DEF Next, Call, CallDials, CallDialFails, CallerStep, Send, SendFails,
         Finish, ReadOther, TimeOut, ReadFails, Lapse, PeerEchoes, Arrives, Lose,
         ConnDies, vars, sampleVars

LEMMA LossesGrow ==
  ASSUME [Next]_vars
  PROVE  losses \subseteq losses'
BY DEF Next, Call, CallDials, CallDialFails, CallerStep, Send, SendFails,
       Finish, ReadEcho, ReadOther, TimeOut, NextLost, CountLoss, ReadFails,
       Lapse, PeerEchoes, Arrives, Lose, ConnDies, vars, sampleVars

(* An echo that is counted for another datagram is late, and a loss came
   first. *)
LEMMA LateEcho ==
  ASSUME TypeInv, CallInv, PlaceInv, IssuedInv, StaleInv, ReadEcho,
         Head(inbox) # Current
  PROVE  /\ Head(inbox).seq = seq /\ Head(inbox).call < calls
         /\ LossBy(Head(inbox))
<1> DEFINE e == Head(inbox)
<1>1. e \in InFlight /\ e \in Unread /\ e \in Sends /\ e.seq = seq /\ pc = "await"
  BY ReadEchoSets DEF Unread, InFlight
<1> HIDE DEF e
<1>2. LossBy(e)
  BY <1>1 DEF StaleInv, e
<1>3. e.call <= calls /\ e.call # calls
  <2>1. e.call <= calls
    BY <1>1 DEF IssuedInv, Issued, Begun
  <2>2. e = Current <=> e.call = calls /\ e.seq = seq
    BY <1>1, SendFields DEF Current
  <2> QED
    BY <1>1, <2>1, <2>2 DEF e
<1>4. e.call \in Nat /\ calls \in Nat
  BY <1>1, SendFields, Bounds DEF TypeInv, TypeOK
<1>5. e.call < calls
  BY <1>3, <1>4
<1> QED
  BY <1>1, <1>2, <1>5 DEF e

LEMMA LateStep ==
  ASSUME TypeInv, CallInv, PlaceInv, IssuedInv, StaleInv, LateCreditAfterLoss,
         [Next]_vars
  PROVE  LateCreditAfterLoss'
<1>1. losses \subseteq losses'
  BY LossesGrow
<1>2. CASE UNCHANGED credits
  BY <1>1, <1>2 DEF LateCreditAfterLoss
<1>3. CASE ReadEcho
  <2> DEFINE a == [echo |-> Head(inbox), send |-> Current]
  <2>1. credits' = credits \cup {a}
    BY <1>3, ReadEchoSets
  <2>2. a.echo # a.send =>
          /\ a.echo.seq = a.send.seq /\ a.echo.call < a.send.call
          /\ \E d \in losses : d.seq = a.send.seq /\ d.call <= a.echo.call
    BY <1>3, LateEcho DEF LossBy, Current
  <2> HIDE DEF a
  <2> QED
    BY <1>1, <2>1, <2>2 DEF LateCreditAfterLoss
<1> QED
  BY <1>2, <1>3
     DEF Next, Call, CallDials, CallDialFails, CallerStep, Send, SendFails,
         Finish, ReadOther, TimeOut, ReadFails, Lapse, PeerEchoes, Arrives, Lose,
         ConnDies, vars, sampleVars

(* The datagram awaited stays so, or a loss or the end of the call takes its
   place. *)
LEMMA AwaitedStep ==
  ASSUME TypeInv, CallInv, PlaceInv, IssuedInv, StaleInv, [Next]_vars,
         NEW d \in InFlight', pc = "await", d = Current
  PROVE  \/ pc' = "await" /\ d = Current'
         \/ LossBy(d)'
         \/ pc' = "idle" /\ conn' # "live"
<1>1. CASE ReadEcho
  <2>1. Head(inbox) # d
    BY <1>1, ReadEchoSets
  <2>2. LossBy(Head(inbox)) /\ Head(inbox).seq = seq /\ Head(inbox).call < calls
    BY <1>1, <2>1, LateEcho
  <2>3. PICK l \in losses : l.seq = seq /\ l.call <= Head(inbox).call
    BY <2>2 DEF LossBy
  <2>4. l.call \in Nat /\ Head(inbox).call \in Nat /\ calls \in Nat
    <3>1. l \in Sends /\ Head(inbox) \in Sends
      BY <1>1, ReadEchoSets DEF TypeInv, TypeOK
    <3> QED
      BY <3>1, SendFields, Bounds DEF TypeInv, TypeOK
  <2>5. l.seq = d.seq /\ l.call <= d.call
    BY <2>2, <2>3, <2>4 DEF Current
  <2> QED
    BY <1>1, <2>5 DEF LossBy, ReadEcho
<1>2. CASE TimeOut
  <2>1. d \in losses' /\ d.call \in Nat
    BY <1>2, Bounds DEF TimeOut, NextLost, CountLoss, Current, TypeInv, TypeOK
  <2> QED
    BY <2>1 DEF LossBy
<1>3. CASE ReadFails
  BY <1>3 DEF ReadFails
<1>4. CASE UNCHANGED <<pc, calls, seq>>
  BY <1>4 DEF Current
<1> QED
  BY <1>1, <1>2, <1>3, <1>4
     DEF Next, Call, CallDials, CallDialFails, CallerStep, Send, SendFails,
         Finish, ReadOther, Lapse, PeerEchoes, Arrives, Lose, ConnDies, vars,
         callVars

(* With the connection dead between calls, the next call makes another. *)
LEMMA DeadStep ==
  ASSUME [Next]_vars, pc = "idle", conn # "live", NEW d \in InFlight'
  PROVE  pc' = "idle" /\ conn' # "live"
<1>1. ASSUME NEW n \in 1..MaxCount, CallDials(n)
      PROVE  FALSE
  <2>1. out' = {} /\ back' = {} /\ Range(inbox') = {}
    BY <1>1 DEF CallDials, Range
  <2> QED
    BY <2>1 DEF InFlight
<1> QED
  BY <1>1
     DEF Next, Call, CallDialFails, CallerStep, Send, SendFails, Finish,
         ReadEcho, ReadOther, TimeOut, ReadFails, Lapse, PeerEchoes, Arrives,
         Lose, ConnDies, vars, callVars

LEMMA InFlightStep ==
  ASSUME TypeInv, CallInv, PlaceInv, [Next]_vars
  PROVE  InFlight' \subseteq InFlight \cup (IF Send THEN {Current} ELSE {})
<1> USE DEF InFlight
<1>1. ASSUME NEW n \in 1..MaxCount, CallDials(n)
      PROVE  InFlight' \subseteq InFlight
  BY <1>1 DEF CallDials, Range
<1>2. CASE Send
  BY <1>2 DEF Send
<1>3. CASE ReadEcho
  BY <1>3, ReadEchoSets
<1>4. CASE ReadOther
  BY <1>4, RangeTail DEF ReadOther, TypeInv, PlaceInv
<1>5. ASSUME NEW d \in Sends, PeerEchoes(d) \/ Lose(d)
      PROVE  InFlight' \subseteq InFlight
  BY <1>5 DEF PeerEchoes, Lose
<1>6. ASSUME NEW d \in Sends, Arrives(d)
      PROVE  InFlight' \subseteq InFlight
  <2>1. d \in back /\ d \notin Range(inbox) /\ IsInjective(inbox)
    BY <1>6 DEF Arrives, PlaceInv
  <2> QED
    BY <1>6, <2>1, RangeAppend DEF Arrives, TypeInv
<1>7. CASE UNCHANGED netVars
  BY <1>7 DEF netVars
<1> QED
  BY <1>1, <1>2, <1>3, <1>4, <1>5, <1>6, <1>7
     DEF Next, Call, CallDialFails, CallerStep, SendFails, Finish, TimeOut,
         ReadFails, Lapse, ConnDies, vars

LEMMA StaleStep ==
  ASSUME TypeInv, CallInv, PlaceInv, IssuedInv, StaleInv, [Next]_vars
  PROVE  StaleInv'
<1> SUFFICES ASSUME NEW d \in InFlight'
             PROVE  \/ pc' = "await" /\ d = Current'
                    \/ LossBy(d)'
                    \/ pc' = "idle" /\ conn' # "live"
  BY DEF StaleInv
<1>1. CASE Send /\ d = Current
  BY <1>1 DEF Send, Current
<1>2. CASE d \in InFlight
  <2>1. CASE pc = "await" /\ d = Current
    BY <2>1, AwaitedStep
  <2>2. CASE LossBy(d)
    BY <2>2, LossesGrow DEF LossBy
  <2>3. CASE pc = "idle" /\ conn # "live"
    BY <2>3, DeadStep
  <2> QED
    BY <1>2, <2>1, <2>2, <2>3 DEF StaleInv
<1> QED
  BY <1>1, <1>2, InFlightStep

-----------------------------------------------------------------------------
(* What loss is counted *)

LEMMA UnreadFinite ==
  ASSUME TypeInv
  PROVE  /\ Unread \subseteq Sends /\ IsFiniteSet(Unread)
         /\ IsFiniteSet(losses) /\ IsFiniteSet(failed)
         /\ Cardinality(Unread) \in Nat
         /\ Cardinality(losses) \in Nat /\ Cardinality(failed) \in Nat
<1>1. Unread \in SUBSET Sends /\ losses \in SUBSET Sends /\ failed \in SUBSET Sends
  BY DEF TypeInv, TypeOK, Unread, InFlight
<1> QED
  BY <1>1, SendsFinite

LEMMA LossStep ==
  ASSUME TypeInv, TypeInv', CallInv, PlaceInv, IssuedInv, DecidedInv, LossInv,
         [Next]_vars
  PROVE  LossInv'
<1> USE DEF LossInv
<1>1. /\ IsFiniteSet(Unread) /\ IsFiniteSet(losses) /\ IsFiniteSet(failed)
      /\ Cardinality(Unread) \in Nat
      /\ Cardinality(losses) \in Nat /\ Cardinality(failed) \in Nat
  BY UnreadFinite
<1>2. Unread' \subseteq Unread =>
        Cardinality(Unread') <= Cardinality(Unread) /\ Cardinality(Unread') \in Nat
  BY <1>1, FS_Subset, FS_CardinalityType
<1>3. CASE Send
  <2>1. Unread' \subseteq Unread \cup {Current}
    BY <1>3, PlaceStep
  <2>2. /\ IsFiniteSet(Unread \cup {Current})
        /\ Cardinality(Unread \cup {Current}) <= Cardinality(Unread) + 1
    BY <1>1, FS_AddElement
  <2>3. /\ Cardinality(Unread') <= Cardinality(Unread) + 1
        /\ Cardinality(Unread') \in Nat
    <3>1. /\ Cardinality(Unread') <= Cardinality(Unread \cup {Current})
          /\ Cardinality(Unread \cup {Current}) \in Nat
          /\ Cardinality(Unread') \in Nat
      BY <2>1, <2>2, FS_Subset, FS_CardinalityType
    <3> QED
      BY <1>1, <2>2, <3>1
  <2>4. pc = "send" /\ pc' = "await" /\ UNCHANGED <<losses, failed>>
    BY <1>3 DEF Send, sampleVars
  <2> QED
    BY <1>1, <2>3, <2>4
<1>4. CASE ReadEcho
  <2>1. /\ Unread' = Unread \ {Head(inbox)} /\ Head(inbox) \in Unread
        /\ pc = "await" /\ pc' = "send" /\ UNCHANGED <<losses, failed>>
    BY <1>4, ReadEchoSets DEF Unread, InFlight
  <2>2. Cardinality(Unread') = Cardinality(Unread) - 1
    BY <1>1, <2>1, FS_RemoveElement
  <2> QED
    BY <1>1, <2>1, <2>2
<1>5. CASE TimeOut
  <2>1. /\ losses' = losses \cup {Current} /\ UNCHANGED failed
        /\ pc = "await" /\ pc' = "send" /\ UNCHANGED Unread
    BY <1>5 DEF TimeOut, NextLost, CountLoss, netVars, Unread, InFlight
  <2>2. Current \notin losses
    BY <2>1 DEF DecidedInv, Decided
  <2>3. Cardinality(losses') = Cardinality(losses) + 1
    BY <1>1, <2>1, <2>2, FS_AddElement
  <2> QED
    BY <1>1, <2>1, <2>3
<1>6. CASE ReadFails
  <2>1. /\ failed' = failed \cup {Current} /\ UNCHANGED losses
        /\ pc = "await" /\ pc' = "idle" /\ UNCHANGED Unread
    BY <1>6 DEF ReadFails, netVars, Unread, InFlight
  <2>2. Current \notin failed
    BY <2>1 DEF DecidedInv, Decided
  <2>3. Cardinality(failed') = Cardinality(failed) + 1
    BY <1>1, <2>1, <2>2, FS_AddElement
  <2> QED
    BY <1>1, <2>1, <2>3
<1>7. CASE /\ ~Send /\ UNCHANGED <<losses, failed>>
           /\ pc' = "await" <=> pc = "await"
  <2>1. Unread' \subseteq Unread
    BY <1>7, PlaceStep
  <2> QED
    BY <1>1, <1>2, <1>7, <2>1
<1>8. ASSUME NEW n \in 1..MaxCount, Call(n) \/ CallDials(n)
      PROVE  /\ ~Send /\ UNCHANGED <<losses, failed>>
             /\ pc' = "await" <=> pc = "await"
  BY <1>8 DEF Call, CallDials, Send, sampleVars
<1>9. CASE CallDialFails \/ SendFails \/ Finish
  BY <1>7, <1>9 DEF CallDialFails, SendFails, Finish, Send, sampleVars
<1>10. CASE ReadOther \/ Lapse \/ ConnDies \/ UNCHANGED vars
  BY <1>7, <1>10 DEF ReadOther, Lapse, ConnDies, vars, callVars, Send, sampleVars
<1>11. ASSUME NEW d \in Sends, PeerEchoes(d) \/ Arrives(d) \/ Lose(d)
       PROVE  UNCHANGED <<pc, losses, failed>>
  BY <1>11 DEF PeerEchoes, Arrives, Lose, callVars, sampleVars
<1> QED
  BY <1>3, <1>4, <1>5, <1>6, <1>7, <1>8, <1>9, <1>10, <1>11 DEF Next, CallerStep

-----------------------------------------------------------------------------
LEMMA InitInv ==
  ASSUME Init
  PROVE  Inv
<1>1. Range(inbox) = {} /\ IsInjective(inbox) /\ inbox \in Seq(Sends)
  BY DEF Init, Range, IsInjective
<1>2. TypeInv
  <2>1. 0 \in 0..MaxCount /\ 0 \in 0..0 /\ 0 \in 0..MaxCalls
    BY Bounds
  <2>2. LocalOK /\ ResultOK
    BY <2>1 DEF Init, NoResult, LocalOK, ResultOK
  <2> QED
    BY <1>1, <2>2 DEF Init, TypeInv, TypeOK, LocalOK, ResultOK
<1>3. CallInv /\ DecidedInv /\ OneCreditEach /\ LateCreditAfterLoss
  BY DEF Init, CallInv, DecidedInv, Credited, OneCreditEach, LateCreditAfterLoss
<1>4. PlaceInv /\ IssuedInv /\ StaleInv
  BY <1>1 DEF Init, PlaceInv, IssuedInv, StaleInv, InFlight, Unread, Echoes
<1>5. LossInv
  BY <1>1, FS_EmptySet DEF Init, LossInv, Unread, InFlight
<1> QED
  BY <1>2, <1>3, <1>4, <1>5 DEF Inv

LEMMA Inductive ==
  ASSUME Inv, [Next]_vars
  PROVE  Inv'
BY TypeStep, ResultStep, PlaceStep, IssuedStep, DecidedStep, OneCreditStep,
   LateStep, StaleStep, LossStep DEF Inv

(* The invariant holds throughout: it carries every theorem below. *)
THEOREM Invariance == Spec => []Inv
BY InitInv, Inductive, PTL DEF Spec

(* Every reachable state is type-correct. *)
THEOREM TypeCorrect == Spec => []TypeOK
<1>1. Inv => TypeOK
  BY DEF Inv, TypeInv
<1> QED
  BY <1>1, Invariance, PTL

(* No echo is counted twice and no send twice, however the network delays,
   loses and reorders them (client.go:462-472). *)
THEOREM CreditsOnce == Spec => []OneCreditEach
<1>1. Inv => OneCreditEach
  BY DEF Inv
<1> QED
  BY <1>1, Invariance, PTL

(* An echo counted for another datagram than its own is one of an earlier call
   on the same connection, and a loss of its number came first: a client that
   has had no loss measures its own round trips only (client.go:402-404). *)
THEOREM LateCredits == Spec => []LateCreditAfterLoss
<1>1. Inv => LateCreditAfterLoss
  BY DEF Inv
<1> QED
  BY <1>1, Invariance, PTL

(* Over all calls of a client, however many and with whatever echoes counted
   for the wrong datagram, no fewer are reported lost or failed than the
   network dropped (client.go:445-451). *)
THEOREM LossCounted == Spec => []LossNotUnderstated
<1>1. ASSUME Inv, pc = "idle"
      PROVE  Cardinality(dropped) <= Cardinality(losses) + Cardinality(failed)
  <2>1. dropped \in SUBSET Unread
    BY DEF Unread
  <2>2. /\ IsFiniteSet(Unread) /\ Cardinality(Unread) \in Nat
        /\ Cardinality(losses) \in Nat /\ Cardinality(failed) \in Nat
    BY <1>1, UnreadFinite DEF Inv
  <2>3. Cardinality(dropped) <= Cardinality(Unread) /\ Cardinality(dropped) \in Nat
    BY <2>1, <2>2, FS_Subset, FS_CardinalityType
  <2> QED
    BY <1>1, <2>2, <2>3 DEF Inv, LossInv
<1>2. Inv => LossNotUnderstated
  BY <1>1 DEF LossNotUnderstated
<1> QED
  BY <1>2, Invariance, PTL

-----------------------------------------------------------------------------
(* Each step is one of the account, or none *)

Numbers == 0..(MaxCount - 1)

OutcomeAt(s) == OutcomeOf([call |-> calls, seq |-> s])

LEMMA OutcomeIs ==
  /\ Outcome = [s \in Numbers |-> OutcomeAt(s)]
  /\ \A d : OutcomeOf(d) =
       IF d \in Credited THEN "echoed"
       ELSE IF d \in losses THEN "lost"
       ELSE IF d \in failed THEN "unknown"
       ELSE IF pc = "await" /\ d = Current THEN "outstanding" ELSE "unsent"
BY DEF Outcome, OutcomeAt, OutcomeOf, Credited, Numbers

(* While a call is under way nothing is decided of its current datagram. *)
LEMMA CurrentOutcome ==
  ASSUME Inv, pc # "idle", seq \in Numbers
  PROVE  Outcome[seq] = IF pc = "await" THEN "outstanding" ELSE "unsent"
<1>1. Current \notin Credited \cup losses \cup failed
  BY DEF Inv, DecidedInv, Decided
<1>2. OutcomeAt(seq) = OutcomeOf(Current)
  BY DEF OutcomeAt, Current
<1> QED
  BY <1>1, <1>2, OutcomeIs

LEMMA OutstandingIs ==
  ASSUME Inv
  PROVE  Account!Outstanding = IF pc = "await" THEN {seq} ELSE {}
<1>1. pc = "await" => seq \in Numbers
  BY Bounds DEF Inv, CallInv, TypeInv, TypeOK, Numbers
<1>2. \A s \in Numbers : Outcome[s] = "outstanding" => pc = "await" /\ s = seq
  BY OutcomeIs DEF OutcomeAt, Current
<1>3. Account!Outstanding = {s \in Numbers : Outcome[s] = "outstanding"}
  BY DEF Account!Outstanding, Account!With, Numbers
<1> QED
  BY <1>1, <1>2, <1>3, CurrentOutcome

(* EchoAccount's Cardinality, which the instance makes another operator. *)
LEMMA AccountCardinality == \A S : Account!Cardinality(S) = Cardinality(S)
BY DEF Account!Cardinality, Cardinality

LEMMA CallOpens ==
  ASSUME Inv,
         (\E n \in 1..MaxCount : Call(n) \/ CallDials(n)) \/ CallDialFails
  PROVE  Account!Open
<1>1. /\ pc = "idle" /\ calls' = calls + 1 /\ UNCHANGED sampleVars
      /\ pc' # "await"
  BY DEF Call, CallDials, CallDialFails
<1>2. /\ AccountState # "open" /\ AccountState' \in {"open", "failed"}
      /\ Tally' = Account!Zero
  <2>1. ASSUME NEW n \in 1..MaxCount, Call(n) \/ CallDials(n)
        PROVE  pc' = "send" /\ res' = NoResult
    BY <2>1 DEF Call, CallDials
  <2>2. CASE CallDialFails
    BY <1>1, <2>2 DEF CallDialFails, AccountState, Tally, Account!Zero, NoResult
  <2> QED
    BY <1>1, <2>1, <2>2 DEF AccountState, Tally, Account!Zero, NoResult
<1>3. count' \in 0..Cardinality(Numbers)
  <2>1. Cardinality(Numbers) = MaxCount
    BY Bounds, FS_Interval DEF Numbers
  <2> QED
    BY <2>1, Bounds DEF Call, CallDials, CallDialFails, Inv, TypeInv, TypeOK
<1>4. Outcome' = [s \in Numbers |-> "unsent"]
  <2>1. ASSUME NEW s \in Numbers
        PROVE  [call |-> calls + 1, seq |-> s] \notin Credited \cup losses \cup failed
    <3> DEFINE d == [call |-> calls + 1, seq |-> s]
    <3>1. d.call = calls + 1 /\ calls \in Nat
      BY Bounds DEF Inv, TypeInv, TypeOK
    <3>2. ~Begun(d)
      BY <3>1 DEF Begun
    <3> QED
      BY <3>2 DEF Inv, DecidedInv, Decided
  <2>2. UNCHANGED <<Credited, losses, failed>>
    BY <1>1 DEF sampleVars, Credited
  <2>3. ASSUME NEW s \in Numbers PROVE OutcomeAt(s)' = "unsent"
    BY <1>1, <2>1, <2>2 DEF OutcomeAt, OutcomeOf, sampleVars, Credited
  <2> QED
    BY <2>3 DEF Outcome, OutcomeAt, Numbers
<1>5. Account!Become(Numbers, "unsent")
  BY <1>4 DEF Account!Become, Numbers
<1>6. (pc = "await" /\ lapsed)' = FALSE
  BY <1>1
<1> QED
  BY <1>2, <1>3, <1>5, <1>6, AccountCardinality DEF Account!Open, Numbers

LEMMA Becomes ==
  ASSUME NEW S \in SUBSET Numbers, NEW o,
         \A s \in Numbers :
           OutcomeAt(s)' = IF s \in S THEN o ELSE OutcomeAt(s)
  PROVE  Account!Become(S, o)
<1>1. Outcome' = [s \in Numbers |-> OutcomeAt(s)']
  BY DEF Outcome, OutcomeAt, Numbers
<1>2. \A s \in Numbers : Outcome[s] = OutcomeAt(s)
  BY OutcomeIs
<1> QED
  BY <1>1, <1>2 DEF Account!Become, Numbers

(* What is decided of the current datagram is decided of no other. *)
LEMMA OthersKeep ==
  ASSUME Inv, calls' = calls, pc' = "await" => seq' = seq,
         Credited \subseteq Credited', Credited' \subseteq Credited \cup {Current},
         losses \subseteq losses', losses' \subseteq losses \cup {Current},
         failed \subseteq failed', failed' \subseteq failed \cup {Current},
         NEW s \in Numbers, s # seq
  PROVE  OutcomeAt(s)' = OutcomeAt(s)
<1>1. PICK d : d = [call |-> calls, seq |-> s]
  OBVIOUS
<1>2. d # Current /\ (pc' = "await" => d # Current')
  BY <1>1 DEF Current
<1>3. OutcomeOf(d)' =
        IF d \in Credited' THEN "echoed"
        ELSE IF d \in losses' THEN "lost"
        ELSE IF d \in failed' THEN "unknown"
        ELSE IF pc' = "await" /\ d = Current' THEN "outstanding" ELSE "unsent"
  BY DEF OutcomeOf, Credited
<1>4. OutcomeOf(d)' = OutcomeOf(d)
  BY <1>2, <1>3, OutcomeIs
<1> QED
  BY <1>1, <1>4 DEF OutcomeAt, OutcomeOf

LEMMA Undecided ==
  ASSUME Inv, pc # "idle"
  PROVE  Current \notin Credited \cup losses \cup failed
BY DEF Inv, DecidedInv, Decided

LEMMA SendSends ==
  ASSUME Inv, Send
  PROVE  seq \in Numbers /\ Account!Send(seq)
<1>1. /\ pc = "send" /\ pc' = "await" /\ ~lapsed' /\ seq < count
      /\ UNCHANGED <<calls, seq, count, credits, losses, failed>>
      /\ seq \in Numbers /\ res.sent = seq
  BY Bounds DEF Send, More, Inv, CallInv, TypeInv, TypeOK, sampleVars, Numbers
<1>2. Outcome[seq] = "unsent"
  BY <1>1, CurrentOutcome
<1>3. OutcomeAt(seq)' = "outstanding"
  BY <1>1, Undecided DEF OutcomeAt, OutcomeOf, Current, Credited
<1>4. Account!Become({seq}, "outstanding")
  <2>1. UNCHANGED Credited
    BY <1>1 DEF Credited
  <2> QED
    BY <1>1, <1>3, <2>1, OthersKeep, Becomes
<1>5. Tally' = [Tally EXCEPT !.sent = @ + 1]
  BY DEF Send, Tally, Inv, TypeInv, TypeOK
<1>6. AccountState = "open" /\ UNCHANGED <<AccountState, count>>
  BY <1>1 DEF AccountState
<1>7. Tally.sent < count
  BY <1>1 DEF Tally
<1> QED
  BY <1>1, <1>2, <1>4, <1>5, <1>6, <1>7 DEF Account!Send

LEMMA ReadEchoes ==
  ASSUME Inv, ReadEcho
  PROVE  seq \in Numbers /\ Account!Echo(seq)
<1>1. /\ pc = "await" /\ pc' = "send"
      /\ UNCHANGED <<calls, count, losses, failed>>
      /\ seq \in Numbers
  BY Bounds DEF ReadEcho, Inv, CallInv, TypeInv, TypeOK, Numbers
<1>2. Credited' = Credited \cup {Current}
  BY ReadEchoSets DEF Inv
<1>3. Outcome[seq] = "outstanding"
  BY <1>1, CurrentOutcome
<1>4. Account!Become({seq}, "echoed")
  <2>1. ASSUME NEW s \in Numbers, s = seq PROVE OutcomeAt(s)' = "echoed"
    <3>1. [call |-> calls, seq |-> s] \in Credited'
      BY <1>2, <2>1 DEF Current
    <3> QED
      BY <1>1, <3>1 DEF OutcomeAt, OutcomeOf, Credited
  <2> QED
    BY <1>1, <1>2, <2>1, OthersKeep, Becomes
<1>5. Tally' = [Tally EXCEPT !.echoed = @ + 1]
  BY DEF ReadEcho, Tally, Inv, TypeInv, TypeOK
<1>6. AccountState = "open" /\ UNCHANGED <<AccountState, count>>
  BY <1>1 DEF AccountState
<1>7. (pc = "await" /\ lapsed)' = FALSE
  BY <1>1
<1> QED
  BY <1>1, <1>3, <1>4, <1>5, <1>6, <1>7 DEF Account!Echo

LEMMA TimeOutLoses ==
  ASSUME Inv, TimeOut
  PROVE  seq \in Numbers /\ Account!Lose({seq})
<1>1. /\ pc = "await" /\ pc' = "send" /\ lapsed
      /\ losses' = losses \cup {Current}
      /\ UNCHANGED <<calls, count, credits, failed>>
      /\ seq \in Numbers
  BY Bounds DEF TimeOut, NextLost, CountLoss, Inv, CallInv, TypeInv, TypeOK, Numbers
<1>2. UNCHANGED Credited
  BY <1>1 DEF Credited
<1>3. {seq} \subseteq Account!Outstanding
  BY <1>1, OutstandingIs
<1>4. Account!Become({seq}, "lost")
  <2>1. ASSUME NEW s \in Numbers, s = seq PROVE OutcomeAt(s)' = "lost"
    <3>1. /\ [call |-> calls, seq |-> s] \in losses'
          /\ [call |-> calls, seq |-> s] \notin Credited'
      BY <1>1, <1>2, <2>1, Undecided DEF Current
    <3> QED
      BY <1>1, <3>1 DEF OutcomeAt, OutcomeOf, Credited
  <2> QED
    BY <1>1, <1>2, <2>1, OthersKeep, Becomes
<1>5. Tally' = [Tally EXCEPT !.lost = @ + Account!Cardinality({seq})]
  <2>1. Account!Cardinality({seq}) = 1
    BY AccountCardinality, FS_Singleton
  <2>2. res' = [res EXCEPT !.lost = @ + 1]
    BY DEF TimeOut, NextLost, CountLoss
  <2>3. Tally' = [Tally EXCEPT !.lost = @ + 1]
    BY <2>2 DEF Tally, Inv, TypeInv, TypeOK
  <2> QED
    BY <2>1, <2>3
<1>6. AccountState = "open" /\ UNCHANGED <<AccountState, count>>
  BY <1>1 DEF AccountState
<1>7. (pc = "await" /\ lapsed)' = FALSE
  BY <1>1
<1> QED
  BY <1>1, <1>3, <1>4, <1>5, <1>6, <1>7 DEF Account!Lose, Account!Lost

(* A call that has sent all its datagrams returns with none outstanding. *)
LEMMA FinishReturns ==
  ASSUME Inv, Finish
  PROVE  Account!Return
<1>1. /\ pc = "send" /\ pc' = "idle" /\ seq = count /\ res.sent = seq
      /\ ~res.error
      /\ UNCHANGED <<calls, count, res, credits, losses, failed>>
  BY DEF Finish, Inv, CallInv, sampleVars
<1>2. Account!Outstanding = {}
  BY <1>1, OutstandingIs
<1>3. Account!Become({}, "lost")
  <2>1. ASSUME NEW s \in Numbers PROVE OutcomeAt(s)' = OutcomeAt(s)
    BY <1>1 DEF OutcomeAt, OutcomeOf
  <2> QED
    BY <2>1, Becomes
<1>4. Tally' = [Tally EXCEPT !.lost = @ + Account!Cardinality({})]
  <2>1. Account!Cardinality({}) = 0
    BY AccountCardinality, FS_EmptySet
  <2>2. Tally.lost \in Int /\ Tally' = Tally
    BY <1>1, Bounds DEF Tally, Inv, TypeInv, TypeOK
  <2> QED
    BY <2>1, <2>2 DEF Tally
<1>5. AccountState = "open" /\ AccountState' = "returned" /\ UNCHANGED count
  BY <1>1 DEF AccountState
<1>6. (pc = "await" /\ lapsed)' = FALSE
  BY <1>1
<1>7. Tally.sent = count
  BY <1>1 DEF Tally
<1> QED
  BY <1>2, <1>3, <1>4, <1>5, <1>6, <1>7 DEF Account!Return, Account!Lost

(* A call that fails leaves what was outstanding unknown. *)
LEMMA FailureGivesUp ==
  ASSUME Inv, SendFails \/ ReadFails
  PROVE  Account!GiveUp
<1>1. /\ pc \in {"send", "await"} /\ pc' = "idle" /\ res' = [res EXCEPT !.error = TRUE]
      /\ UNCHANGED <<calls, count, credits, losses>>
      /\ failed' = IF pc = "await" THEN failed \cup {Current} ELSE failed
  BY DEF SendFails, ReadFails, sampleVars
<1>2. pc = "await" => seq \in Numbers
  BY Bounds DEF Inv, CallInv, TypeInv, TypeOK, Numbers
<1>3. UNCHANGED Credited
  BY <1>1 DEF Credited
<1>4. Account!Become(Account!Outstanding, "unknown")
  <2>1. CASE pc = "send"
    <3>1. ASSUME NEW s \in Numbers PROVE OutcomeAt(s)' = OutcomeAt(s)
      BY <1>1, <2>1 DEF OutcomeAt, OutcomeOf
    <3>2. Account!Outstanding = {}
      BY <2>1, OutstandingIs
    <3> QED
      BY <3>1, <3>2, Becomes
  <2>2. CASE pc = "await"
    <3>1. ASSUME NEW s \in Numbers, s = seq PROVE OutcomeAt(s)' = "unknown"
      <4>1. /\ [call |-> calls, seq |-> s] \in failed'
            /\ [call |-> calls, seq |-> s] \notin Credited' \cup losses'
        BY <1>1, <1>3, <2>2, <3>1, Undecided DEF Current
      <4> QED
        BY <1>1, <4>1 DEF OutcomeAt, OutcomeOf, Credited
    <3>2. ASSUME NEW s \in Numbers, s # seq PROVE OutcomeAt(s)' = OutcomeAt(s)
      BY <1>1, <1>3, <3>2, OthersKeep
    <3>3. Account!Outstanding = {seq}
      BY <2>2, OutstandingIs
    <3> QED
      BY <1>2, <2>2, <3>1, <3>2, <3>3, Becomes
  <2> QED
    BY <1>1, <2>1, <2>2
<1>5. \E n \in Tally.lost..(count - Tally.echoed) :
         Tally' = [Tally EXCEPT !.lost = n]
  <2>1. /\ Tally.lost \in Nat /\ Tally.echoed \in Nat /\ count \in Nat
        /\ Tally.lost <= count - Tally.echoed
    BY <1>1, Bounds DEF Tally, Inv, CallInv, TypeInv, TypeOK
  <2>2. Tally' = [Tally EXCEPT !.lost = Tally.lost]
    BY <1>1 DEF Tally, Inv, TypeInv, TypeOK
  <2> QED
    BY <2>1, <2>2
<1>6. AccountState = "open" /\ AccountState' = "failed" /\ UNCHANGED count
  BY <1>1 DEF AccountState, Inv, TypeInv, TypeOK
<1>7. (pc = "await" /\ lapsed)' = FALSE
  BY <1>1
<1> QED
  BY <1>4, <1>5, <1>6, <1>7 DEF Account!GiveUp

(* Reading past an echo, and the network, are no steps of the account. *)
LEMMA RestStutters ==
  ASSUME Inv, UNCHANGED <<callVars, calls, sampleVars>>
  PROVE  UNCHANGED Account!accountVars
<1>1. UNCHANGED <<pc, count, seq, res, lapsed, calls, credits, losses, failed>>
  BY DEF callVars, sampleVars
<1>2. ASSUME NEW s \in Numbers PROVE OutcomeAt(s)' = OutcomeAt(s)
  BY <1>1 DEF OutcomeAt, OutcomeOf, Current
<1>3. Outcome' = Outcome
  BY <1>1, <1>2 DEF Outcome, OutcomeAt, Numbers
<1> QED
  BY <1>1, <1>3 DEF Account!accountVars, AccountState, Tally

LEMMA LapseIsTimeUp ==
  ASSUME Inv, Lapse
  PROVE  Account!TimeUp
<1>1. /\ pc = "await" /\ lapsed'
      /\ UNCHANGED <<pc, count, seq, res, calls, credits, losses, failed>>
  BY DEF Lapse, sampleVars
<1>2. ASSUME NEW s \in Numbers PROVE OutcomeAt(s)' = OutcomeAt(s)
  BY <1>1 DEF OutcomeAt, OutcomeOf, Current
<1>3. Outcome' = Outcome
  BY <1>1, <1>2 DEF Outcome, OutcomeAt, Numbers
<1>4. (pc = "await" /\ lapsed)' = TRUE
  BY <1>1
<1> QED
  BY <1>1, <1>3, <1>4 DEF Account!TimeUp, AccountState, Tally

LEMMA InitAccount ==
  ASSUME Init
  PROVE  Account!AccountInit
<1>1. Outcome = [s \in Numbers |-> "unsent"]
  BY DEF Init, Outcome, OutcomeOf, Numbers
<1>2. (pc = "await" /\ lapsed) = FALSE
  BY DEF Init
<1> QED
  BY <1>1, <1>2
     DEF Init, AccountState, Tally, NoResult, Numbers, Account!AccountInit,
         Account!Zero

LEMMA StepAccount ==
  ASSUME Inv, [Next]_vars
  PROVE  [Account!AccountNext]_(Account!accountVars)
<1> USE DEF Account!AccountNext
<1>1. CASE (\E n \in 1..MaxCount : Call(n) \/ CallDials(n)) \/ CallDialFails
  BY <1>1, CallOpens
<1>2. CASE Send
  BY <1>2, SendSends DEF Numbers
<1>3. CASE ReadEcho
  BY <1>3, ReadEchoes DEF Numbers
<1>4. CASE TimeOut
  BY <1>4, TimeOutLoses DEF Numbers
<1>5. CASE Finish
  BY <1>5, FinishReturns
<1>6. CASE SendFails \/ ReadFails
  BY <1>6, FailureGivesUp
<1>7. CASE Lapse
  BY <1>7, LapseIsTimeUp
<1>8. CASE UNCHANGED <<callVars, calls, sampleVars>>
  BY <1>8, RestStutters
<1> QED
  BY <1>1, <1>2, <1>3, <1>4, <1>5, <1>6, <1>7, <1>8
     DEF Next, CallerStep, ReadOther, PeerEchoes, Arrives, Lose, ConnDies, vars

(* EchoDatagrams implements the account of its sends: whatever the network and
   earlier calls leave on the connection, each datagram is echoed or, after its
   time, lost, once, and the numbers handed to the script are those
   (client.go:430-453). *)
THEOREM ImplementsAccount == Spec => ImplementsEchoAccount
<1>1. Init => Account!AccountInit
  BY InitAccount
<1>2. Inv /\ [Next]_vars => [Account!AccountNext]_(Account!accountVars)
  BY StepAccount
<1> QED
  BY <1>1, <1>2, Invariance, PTL DEF Spec, ImplementsEchoAccount, Account!AccountSpec

-----------------------------------------------------------------------------
(* What the account says of the numbers of EchoDatagrams.  That they add up is
   shown of the account alone, and holds of a call as it implements it. *)

Outcomes == {"unsent", "outstanding", "echoed", "lost", "unknown"}

(* The datagrams of the call with an outcome. *)
Of(o) == {s \in Numbers : Outcome[s] = o}

AccountTypeOK ==
  /\ AccountState \in {"open", "returned", "failed"}
  /\ count \in Nat
  /\ Outcome \in [Numbers -> Outcomes]
  /\ Tally \in [sent : Nat, echoed : Nat, lost : Nat]

AddsUp ==
  /\ Tally.sent = Cardinality(Numbers \ Of("unsent"))
  /\ Tally.echoed = Cardinality(Of("echoed"))
  /\ AccountState # "failed" =>
       /\ Tally.lost = Cardinality(Of("lost"))
       /\ Of("unknown") = {}
  /\ AccountState = "returned" => Of("outstanding") = {}

AccountInv == AccountTypeOK /\ AddsUp

LEMMA NumbersFinite == IsFiniteSet(Numbers)
BY Bounds, FS_Interval DEF Numbers

LEMMA SameSums ==
  /\ Account!Outstanding = Of("outstanding")
  /\ Account!AddsUp <=> AddsUp
BY AccountCardinality
   DEF Account!AddsUp, Account!Outstanding, Account!With, AddsUp, Of, Numbers

(* A set of sends that gains some it did not have. *)
LEMMA Gains ==
  ASSUME NEW A \in SUBSET Numbers, NEW S \in SUBSET Numbers, A \cap S = {}
  PROVE  /\ Cardinality(A \cup S) = Cardinality(A) + Cardinality(S)
         /\ Cardinality(A) \in Nat /\ Cardinality(S) \in Nat
<1>1. IsFiniteSet(A) /\ IsFiniteSet(S)
  BY NumbersFinite, FS_Subset
<1>2. Cardinality(A \cap S) = 0
  BY FS_EmptySet
<1>3. Cardinality(A) \in Nat /\ Cardinality(S) \in Nat
  BY <1>1, FS_CardinalityType
<1>4. Cardinality(A \cup S)
        = Cardinality(A) + Cardinality(S) - Cardinality(A \cap S)
  BY <1>1, FS_Union
<1> QED
  BY <1>2, <1>3, <1>4

(* What Become does to the datagrams with each outcome. *)
LEMMA BecomeWith ==
  ASSUME Outcome \in [Numbers -> Outcomes], NEW S \in SUBSET Numbers,
         NEW o \in Outcomes, Account!Become(S, o)
  PROVE  /\ Outcome' \in [Numbers -> Outcomes]
         /\ Of(o)' = Of(o) \cup S
         /\ \A q \in Outcomes \ {o} : Of(q)' = Of(q) \ S
<1>1. Outcome' = [s \in Numbers |-> IF s \in S THEN o ELSE Outcome[s]]
  BY DEF Account!Become, Numbers
<1>2. Outcome' \in [Numbers -> Outcomes]
  BY <1>1
<1>3. Of(o)' = Of(o) \cup S
  BY <1>1 DEF Of
<1>4. \A q \in Outcomes \ {o} : Of(q)' = Of(q) \ S
  BY <1>1 DEF Of
<1> QED
  BY <1>2, <1>3, <1>4

LEMMA InitSums ==
  ASSUME Account!AccountInit
  PROVE  AccountInv
<1>1. AccountTypeOK
  BY DEF Account!AccountInit, AccountTypeOK, Account!Zero, Outcomes, Numbers
<1>2. /\ Of("unsent") = Numbers
      /\ \A o \in Outcomes \ {"unsent"} : Of(o) = {}
  BY DEF Account!AccountInit, Of, Numbers
<1>3. AddsUp
  BY <1>2, FS_EmptySet DEF AddsUp, Account!AccountInit, Account!Zero, Outcomes
<1> QED
  BY <1>1, <1>3 DEF AccountInv

(* The numbers of a result are those of the outcomes. *)
OutcomeSums ==
  /\ Tally.sent = Cardinality(Numbers \ Of("unsent"))
  /\ Tally.echoed = Cardinality(Of("echoed"))
  /\ Tally.lost = Cardinality(Of("lost"))
  /\ Of("unknown") = {}

LEMMA OpenKeeps ==
  ASSUME AccountInv, Account!Open
  PROVE  AccountInv'
<1>1. "unsent" \in Outcomes /\ Numbers \in SUBSET Numbers
  BY DEF Outcomes
<1>2. /\ Outcome' \in [Numbers -> Outcomes]
      /\ Of("unsent")' = Of("unsent") \cup Numbers
      /\ \A q \in Outcomes \ {"unsent"} : Of(q)' = Of(q) \ Numbers
  BY <1>1, BecomeWith DEF Account!Open, AccountInv, AccountTypeOK, Numbers
<1>3. \A q : Of(q) \subseteq Numbers
  BY DEF Of
<1>4. /\ Of("unsent")' = Numbers
      /\ \A q \in Outcomes \ {"unsent"} : Of(q)' = {}
  BY <1>2, <1>3
<1>5. count' \in Nat
  BY NumbersFinite, AccountCardinality, FS_CardinalityType
     DEF Account!Open, Numbers
<1>6. AccountTypeOK'
  BY <1>2, <1>5 DEF Account!Open, AccountTypeOK, Account!Zero
<1>7. AddsUp'
  BY <1>4, FS_EmptySet DEF AddsUp, Account!Open, Account!Zero, Outcomes
<1> QED
  BY <1>6, <1>7 DEF AccountInv

LEMMA SendKeeps ==
  ASSUME AccountInv, NEW s \in Numbers, Account!Send(s)
  PROVE  AccountInv'
<1>1. "outstanding" \in Outcomes /\ {s} \in SUBSET Numbers
  BY DEF Outcomes
<1>2. /\ Outcome' \in [Numbers -> Outcomes]
      /\ \A q \in Outcomes \ {"outstanding"} : Of(q)' = Of(q) \ {s}
  BY <1>1, BecomeWith DEF Account!Send, AccountInv, AccountTypeOK
<1>3. /\ s \in Of("unsent")
      /\ \A q \in Outcomes \ {"unsent"} : s \notin Of(q)
  BY DEF Account!Send, Of
<1>4. /\ Numbers \ Of("unsent")' = (Numbers \ Of("unsent")) \cup {s}
      /\ Of("echoed")' = Of("echoed") /\ Of("lost")' = Of("lost")
      /\ Of("unknown")' = Of("unknown")
  BY <1>2, <1>3 DEF Outcomes
<1>5. Cardinality(Numbers \ Of("unsent")') = Tally.sent + 1
  <2> DEFINE A == Numbers \ Of("unsent")
  <2>1. A \in SUBSET Numbers /\ A \cap {s} = {}
    BY <1>3
  <2>2. Cardinality(A \cup {s}) = Cardinality(A) + Cardinality({s})
    BY <1>1, <2>1, Gains
  <2> QED
    BY <1>4, <2>2, FS_Singleton DEF AccountInv, AddsUp
<1>6. AccountTypeOK' /\ AccountState' = "open"
  <2>1. Tally' \in [sent : Nat, echoed : Nat, lost : Nat]
    BY DEF AccountInv, AccountTypeOK, Account!Send
  <2>2. count' \in Nat /\ AccountState' = "open"
    BY DEF AccountInv, AccountTypeOK, Account!Send
  <2> QED
    BY <1>2, <2>1, <2>2 DEF AccountTypeOK
<1>7. AddsUp'
  BY <1>4, <1>5, <1>6 DEF AccountInv, AccountTypeOK, AddsUp, Account!Send
<1> QED
  BY <1>6, <1>7 DEF AccountInv

LEMMA EchoKeeps ==
  ASSUME AccountInv, NEW s \in Numbers, Account!Echo(s)
  PROVE  AccountInv'
<1>1. "echoed" \in Outcomes /\ {s} \in SUBSET Numbers
  BY DEF Outcomes
<1>2. /\ Outcome' \in [Numbers -> Outcomes]
      /\ Of("echoed")' = Of("echoed") \cup {s}
      /\ \A q \in Outcomes \ {"echoed"} : Of(q)' = Of(q) \ {s}
  BY <1>1, BecomeWith DEF Account!Echo, AccountInv, AccountTypeOK
<1>3. \A q \in Outcomes \ {"outstanding"} : s \notin Of(q)
  BY DEF Account!Echo, Of
<1>4. /\ Of("unsent")' = Of("unsent") /\ Of("lost")' = Of("lost")
      /\ Of("unknown")' = Of("unknown")
  BY <1>2, <1>3 DEF Outcomes
<1>5. Of("echoed") \in SUBSET Numbers
  BY DEF Of
<1>6. Cardinality(Of("echoed")') = Tally.echoed + 1
  <2>1. Of("echoed") \cap {s} = {}
    BY <1>3 DEF Outcomes
  <2>2. Cardinality(Of("echoed") \cup {s})
          = Cardinality(Of("echoed")) + Cardinality({s})
    BY <1>1, <1>5, <2>1, Gains
  <2> QED
    BY <1>2, <2>2, FS_Singleton DEF AccountInv, AddsUp
<1>7. AccountTypeOK' /\ AccountState' = "open"
  <2>1. Tally' \in [sent : Nat, echoed : Nat, lost : Nat]
    BY DEF AccountInv, AccountTypeOK, Account!Echo
  <2>2. count' \in Nat /\ AccountState' = "open"
    BY DEF AccountInv, AccountTypeOK, Account!Echo
  <2> QED
    BY <1>2, <2>1, <2>2 DEF AccountTypeOK
<1>8. AddsUp'
  BY <1>4, <1>6, <1>7 DEF AccountInv, AccountTypeOK, AddsUp, Account!Echo
<1> QED
  BY <1>7, <1>8 DEF AccountInv

LEMMA LostKeeps ==
  ASSUME AccountInv, NEW S \in SUBSET Numbers, Account!Lost(S),
         AccountState' \in {"open", "returned"}
  PROVE  /\ AccountTypeOK' /\ OutcomeSums'
         /\ Of("outstanding")' = Of("outstanding") \ S
<1>1. "lost" \in Outcomes
  BY DEF Outcomes
<1>2. /\ Outcome' \in [Numbers -> Outcomes]
      /\ Of("lost")' = Of("lost") \cup S
      /\ \A q \in Outcomes \ {"lost"} : Of(q)' = Of(q) \ S
  BY <1>1, BecomeWith DEF Account!Lost, AccountInv, AccountTypeOK
<1>3. \A q \in Outcomes \ {"outstanding"} : Of(q) \cap S = {}
  BY SameSums DEF Account!Lost, Of
<1>4. /\ Of("unsent")' = Of("unsent") /\ Of("echoed")' = Of("echoed")
      /\ Of("unknown")' = Of("unknown") /\ Of("outstanding")' = Of("outstanding") \ S
  BY <1>2, <1>3 DEF Outcomes
<1>5. Of("lost") \in SUBSET Numbers /\ Of("lost") \cap S = {}
  BY <1>1, <1>3 DEF Of
<1>6. /\ Cardinality(Of("lost")') = Tally.lost + Cardinality(S)
      /\ Cardinality(S) \in Nat
  BY <1>2, <1>5, Gains, AccountCardinality DEF AccountInv, AddsUp, Account!Lost
<1>7. AccountTypeOK'
  <2>1. Tally' \in [sent : Nat, echoed : Nat, lost : Nat]
    BY <1>6, AccountCardinality DEF AccountInv, AccountTypeOK, Account!Lost
  <2>2. count' \in Nat
    BY DEF AccountInv, AccountTypeOK, Account!Lost
  <2> QED
    BY <1>2, <2>1, <2>2 DEF AccountTypeOK
<1>8. OutcomeSums'
  BY <1>4, <1>6, AccountCardinality
     DEF AccountInv, AccountTypeOK, AddsUp, OutcomeSums, Account!Lost
<1> QED
  BY <1>4, <1>7, <1>8

LEMMA GiveUpKeeps ==
  ASSUME AccountInv, Account!GiveUp
  PROVE  AccountInv'
<1>1. "unknown" \in Outcomes /\ Of("outstanding") \in SUBSET Numbers
  BY DEF Outcomes, Of
<1>2. /\ Outcome' \in [Numbers -> Outcomes]
      /\ \A q \in Outcomes \ {"unknown"} : Of(q)' = Of(q) \ Of("outstanding")
  BY <1>1, BecomeWith, SameSums DEF Account!GiveUp, AccountInv, AccountTypeOK
<1>3. \A q \in Outcomes \ {"outstanding"} : Of(q) \cap Of("outstanding") = {}
  BY DEF Of
<1>4. Of("unsent")' = Of("unsent") /\ Of("echoed")' = Of("echoed")
  BY <1>2, <1>3 DEF Outcomes
<1>5. PICK n \in Tally.lost..(count - Tally.echoed) :
        Tally' = [Tally EXCEPT !.lost = n]
  BY DEF Account!GiveUp
<1>6. n \in Nat
  BY <1>5 DEF AccountInv, AccountTypeOK
<1>7. AccountTypeOK' /\ AccountState' = "failed"
  BY <1>2, <1>5, <1>6 DEF AccountInv, AccountTypeOK, Account!GiveUp
<1>8. AddsUp'
  BY <1>4, <1>5, <1>7 DEF AccountInv, AccountTypeOK, AddsUp
<1> QED
  BY <1>7, <1>8 DEF AccountInv

LEMMA StepSums ==
  ASSUME AccountInv, [Account!AccountNext]_(Account!accountVars)
  PROVE  AccountInv'
<1>1. ASSUME NEW s \in Numbers, Account!Lose({s}) PROVE AccountInv'
  <2>1. AccountTypeOK' /\ OutcomeSums' /\ AccountState' = "open"
    BY <1>1, LostKeeps DEF Account!Lose, Account!Lost
  <2> QED
    BY <2>1 DEF AccountInv, AddsUp, OutcomeSums
<1>2. CASE Account!Return
  <2>1. Of("outstanding") \in SUBSET Numbers
    BY DEF Of
  <2>2. /\ AccountTypeOK' /\ OutcomeSums'
        /\ Of("outstanding")' = Of("outstanding") \ Of("outstanding")
    BY <1>2, <2>1, LostKeeps, SameSums DEF Account!Return
  <2> QED
    BY <2>2 DEF AccountInv, AddsUp, OutcomeSums
<1>3. CASE Account!TimeUp
  BY <1>3 DEF Account!TimeUp, AccountInv, AccountTypeOK, AddsUp, Of
<1>4. CASE UNCHANGED Account!accountVars
  BY <1>4 DEF Account!accountVars, AccountInv, AccountTypeOK, AddsUp, Of
<1> QED
  BY <1>1, <1>2, <1>3, <1>4, OpenKeeps, SendKeeps, EchoKeeps, GiveUpKeeps
     DEF Account!AccountNext, Numbers

(* The numbers of an account are those of its outcomes, and an account that is
   closed by a return has none outstanding, whatever its number of sends: what
   EchoAccount is worth to those that implement it (client.go:430-453). *)
THEOREM AccountAddsUp == Account!AccountSpec => []Account!AddsUp
<1>1. AccountInv => Account!AddsUp
  BY SameSums DEF AccountInv
<1> QED
  BY <1>1, InitSums, StepSums, PTL DEF Account!AccountSpec

(* The numbers handed to the script add up in every call: the sends are those
   echoed, lost or outstanding, and a call that returns leaves none out
   (client.go:430-453). *)
THEOREM ResultsAddUp == Spec => []Account!AddsUp
BY AccountAddsUp, ImplementsAccount DEF ImplementsEchoAccount
=============================================================================

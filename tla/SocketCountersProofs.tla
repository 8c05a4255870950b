------------------------ MODULE SocketCountersProofs ------------------------
(***************************************************************************)
(* Proofs about SocketCounters for every modulus, number of callers, and   *)
(* bound.                                                                  *)
(***************************************************************************)
EXTENDS SocketCounters, TLAPS

(* The deltas exceed the baseline by whole wraps of the counter. *)
Congruent == \E n \in Nat : deltas = baseline + n * W

(* While nothing overlaps on the first endpoint, no read is older than the
   baseline and none is ahead of the counter. *)
SequentialInv ==
  /\ ~overlapped => \A t, u \in Callers :
       pc[t] = "swap" /\ pc[u] = "swap" => t = u
  /\ ~overlapped /\ bound = 0 => deltas = 0 /\ baseline = 0
  /\ ~overlapped /\ bound = 1 =>
       /\ deltas = baseline
       /\ baseline <= count[1]
       /\ \A t \in Callers : pc[t] = "swap" =>
            baseline <= read[t] /\ read[t] <= count[1]

Inv == TypeOK /\ Congruent /\ SequentialInv

LEMMA TypeStep ==
  ASSUME TypeOK, [Next]_vars
  PROVE  TypeOK'
<1> USE CountersAssumption DEF TypeOK, envVars, sumVars, vars
<1>1. CASE Bind
  BY <1>1 DEF Bind
<1>2. CASE Traffic
  BY <1>2 DEF Traffic
<1>3. CASE Close
  BY <1>3 DEF Close
<1>4. ASSUME NEW t \in Callers, EndVU(t) PROVE TypeOK'
  BY <1>4 DEF EndVU
<1>5. ASSUME NEW t \in Callers, Take(t) PROVE TypeOK'
  BY <1>5 DEF Take
<1>6. ASSUME NEW t \in Callers, ReadCounters(t) PROVE TypeOK'
  BY <1>6 DEF ReadCounters
<1>7. ASSUME NEW t \in Callers, Swap(t) PROVE TypeOK'
  <2>1. Minus(read[t], baseline) \in 0..(W - 1)
    BY DEF Minus
  <2>2. QED  BY <1>7, <2>1, SMTT(30) DEF Swap, Rebase
<1>8. ASSUME NEW t \in Callers, Push(t) PROVE TypeOK'
  BY <1>8, SMTT(30) DEF Push, Sample
<1>9. CASE UNCHANGED vars
  BY <1>9
<1>10. QED  BY ONLY [Next]_vars, <1>1, <1>2, <1>3, <1>4, <1>5, <1>6, <1>7,
                <1>8, <1>9 DEF Next

(* Only Swap touches the sum and the baseline, and it adds their difference,
   or that and one wrap. *)
LEMMA CongruentStep ==
  ASSUME TypeOK, Congruent, [Next]_vars
  PROVE  Congruent'
<1> USE CountersAssumption DEF TypeOK, envVars, sumVars, vars
<1>1. ASSUME NEW t \in Callers, Swap(t) PROVE Congruent'
  <2>1. PICK n \in Nat : deltas = baseline + n * W
    BY DEF Congruent
  <2>2. CASE read[t] >= baseline
    <3>1. deltas' = baseline' + n * W
      BY <1>1, <2>1, <2>2 DEF Swap, Rebase, Minus
    <3>2. QED  BY <3>1 DEF Congruent
  <2>3. CASE read[t] < baseline
    <3>1. deltas' = baseline' + n * W + W
      BY <1>1, <2>1, <2>3, SMTT(30) DEF Swap, Rebase, Minus
    <3>2. n + 1 \in Nat /\ (n + 1) * W = n * W + W
      OBVIOUS
    <3>3. n * W \in Int /\ baseline' \in Int
      BY <1>1 DEF Swap, Rebase
    <3>4. deltas' = baseline' + (n + 1) * W
      BY ONLY <3>1, <3>2, <3>3, CountersAssumption
    <3>5. QED  BY ONLY <3>2, <3>4 DEF Congruent
  <2>4. QED  BY <2>2, <2>3
<1>2. CASE UNCHANGED <<deltas, baseline>>
  BY <1>2 DEF Congruent
<1>3. UNCHANGED <<deltas, baseline>> \/ \E t \in Callers : Swap(t)
  BY DEF Next, Bind, Traffic, Close, EndVU, Take, ReadCounters, Push, Sample
<1>4. QED  BY <1>1, <1>2, <1>3

LEMMA SequentialStep ==
  ASSUME TypeOK, SequentialInv, [Next]_vars
  PROVE  SequentialInv'
<1> USE CountersAssumption DEF TypeOK, SequentialInv, envVars, sumVars, vars
<1>1. CASE Bind
  <2>1. bound = 0 => count[1] >= 0 /\ \A t \in Callers : pc[t] = "idle"
    OBVIOUS
  <2>2. bound' = bound + 1
    BY <1>1 DEF Bind
  <2>3. QED  BY <1>1, <2>1, <2>2 DEF Bind
<1>2. CASE Traffic
  BY <1>2 DEF Traffic
<1>3. CASE Close
  BY <1>3 DEF Close
<1>4. ASSUME NEW t \in Callers, EndVU(t) PROVE SequentialInv'
  BY <1>4 DEF EndVU
<1>5. ASSUME NEW t \in Callers, Take(t) PROVE SequentialInv'
  BY <1>5 DEF Take
<1>6. ASSUME NEW t \in Callers, ReadCounters(t) PROVE SequentialInv'
  <2>1. ep[t] \in 1..bound
    BY <1>6 DEF ReadCounters
  <2>2. (\A u \in Callers \ {t} : pc[u] # "swap") \/ overlapped'
    BY <1>6 DEF ReadCounters, Swapping
  <2>3. CASE overlapped'
    BY <2>3, <1>6 DEF ReadCounters
  <2>4. CASE ~overlapped' /\ \A u \in Callers \ {t} : pc[u] # "swap"
    <3>1. bound = 1 => read'[t] = count[1] /\ baseline <= read'[t]
      BY <1>6, <2>1, <2>4 DEF ReadCounters
    <3>2. QED  BY <1>6, <2>1, <2>4, <3>1, SMTT(30) DEF ReadCounters
  <2>5. QED  BY <2>2, <2>3, <2>4
<1>7. ASSUME NEW t \in Callers, Swap(t) PROVE SequentialInv'
  <2>1. bound # 0
    BY <1>7 DEF Swap, Rebase
  <2>2. ~overlapped /\ bound = 1 => deltas' = read[t]
    BY <1>7 DEF Swap, Rebase, Minus
  <2>3. ~overlapped => \A u \in Callers : pc'[u] # "swap"
    BY <1>7 DEF Swap, Rebase
  <2>4. QED  BY <1>7, <2>1, <2>2, <2>3 DEF Swap, Rebase
<1>8. ASSUME NEW t \in Callers, Push(t) PROVE SequentialInv'
  BY <1>8 DEF Push, Sample
<1>9. CASE UNCHANGED vars
  BY <1>9
<1>10. QED  BY ONLY [Next]_vars, <1>1, <1>2, <1>3, <1>4, <1>5, <1>6, <1>7,
                <1>8, <1>9 DEF Next

(* The invariant holds throughout: it carries every theorem below. *)
THEOREM Invariance == Spec => []Inv
<1>1. Init => Inv
  <2> SUFFICES ASSUME Init PROVE Inv
    OBVIOUS
  <2>1. 0 \in 0..(W - 1) /\ 0 \in 0..MaxTraffic /\ 0 \in 0..MaxBinds
    BY CountersAssumption
  <2>2. /\ bound \in 0..MaxBinds /\ current \in 0..bound
        /\ baseline \in 0..MaxTraffic
        /\ ep \in [Callers -> 0..bound]
        /\ deltas \in Nat /\ emitted \in Nat /\ dropped \in Nat
    BY <2>1 DEF Init
  <2>3. /\ count \in [1..MaxBinds -> 0..MaxTraffic]
        /\ read \in [Callers -> 0..MaxTraffic]
        /\ delta \in [Callers -> 0..(W - 1)]
    BY ONLY <2>1, Init, Zenon DEF Init
  <2>4. /\ pc \in [Callers -> {"idle", "read", "swap", "push"}]
        /\ \A t \in Callers : pc[t] # "idle" => ep[t] # 0
        /\ ended \in SUBSET Callers /\ overlapped \in BOOLEAN
    BY DEF Init
  <2>5. TypeOK
    BY <2>2, <2>3, <2>4, Zenon DEF TypeOK
  <2>6. SequentialInv
    BY DEF Init, SequentialInv
  <2>7. deltas = baseline + 0 * W
    BY CountersAssumption DEF Init
  <2>8. QED  BY <2>5, <2>6, <2>7 DEF Inv, Congruent
<1>2. Inv /\ [Next]_vars => Inv'
  BY TypeStep, CongruentStep, SequentialStep DEF Inv
<1>3. QED  BY <1>1, <1>2, PTL DEF Spec

(* A sum of the samples kept modulo W always ends at the last baseline. *)
THEOREM Telescoping == Spec => []DeltasTelescope
<1>1. ASSUME Inv PROVE DeltasTelescope
  <2>1. PICK n \in Nat : deltas = baseline + n * W
    BY <1>1 DEF Inv, Congruent
  <2>2. baseline \in 0..(W - 1)
    BY <1>1, CountersAssumption DEF Inv, TypeOK
  <2>3. (baseline + n * W) % W = baseline
    BY <2>2, CountersAssumption
  <2>4. QED  BY <2>1, <2>3 DEF DeltasTelescope
<1>2. QED  BY <1>1, Invariance, PTL

(* Snapshots that never overlap on an endpoint never rebound are exact. *)
THEOREM SequentialExact == Spec => []SequentialSnapshotsExact
<1>1. ASSUME Inv PROVE SequentialSnapshotsExact
  BY <1>1, CountersAssumption
     DEF Inv, TypeOK, SequentialInv, SequentialSnapshotsExact
<1>2. QED  BY <1>1, Invariance, PTL

-----------------------------------------------------------------------------
(* What is computed but not pushed yet: its sum is the value, on the set of
   all these callers, of a function that grows by the delta of each. *)
Pending == {t \in Callers : pc[t] = "push"}

SumsOf(f, S) ==
  {g \in [SUBSET S -> Nat] :
     /\ g[{}] = 0
     /\ \A T \in SUBSET S : \A t \in T : g[T] = g[T \ {t}] + f[t]}

PushInv ==
  /\ \E g \in SumsOf(delta, Pending) : emitted + dropped + g[Pending] = deltas
  /\ ended = {} => dropped = 0

(* One caller more. *)
LEMMA SumGrows ==
  ASSUME NEW f, NEW S, NEW g \in SumsOf(f, S), NEW t, t \notin S,
         NEW h, h[t] \in Nat, \A u \in S : f[u] \in Nat /\ h[u] = f[u]
  PROVE  \E k \in SumsOf(h, S \cup {t}) : k[S \cup {t}] = g[S] + h[t]
<1> DEFINE R == S \cup {t}
           k == [T \in SUBSET R |-> IF t \in T THEN g[T \ {t}] + h[t] ELSE g[T]]
<1>1. /\ g \in [SUBSET S -> Nat] /\ g[{}] = 0
      /\ \A T \in SUBSET S : \A u \in T : g[T] = g[T \ {u}] + f[u]
  BY DEF SumsOf
<1>2. k \in [SUBSET R -> Nat]
  <2> SUFFICES ASSUME NEW T \in SUBSET R
               PROVE  (IF t \in T THEN g[T \ {t}] + h[t] ELSE g[T]) \in Nat
    OBVIOUS
  <2>1. T \ {t} \in SUBSET S /\ (t \notin T => T \in SUBSET S)
    OBVIOUS
  <2> QED
    BY <1>1, <2>1
<1>3. k[{}] = 0
  BY <1>1
<1>4. ASSUME NEW T \in SUBSET R, NEW u \in T
      PROVE  k[T] = k[T \ {u}] + h[u]
  <2>1. T \ {u} \in SUBSET R
    OBVIOUS
  <2>2. CASE u = t
    BY <2>1, <2>2
  <2>3. CASE u # t /\ t \notin T
    <3>1. T \in SUBSET S /\ u \in S
      BY <2>3
    <3> QED
      BY <1>1, <2>1, <2>3, <3>1
  <2>4. CASE u # t /\ t \in T
    <3>1. T \ {t} \in SUBSET S /\ u \in T \ {t} /\ u \in S
      BY <2>4
    <3>2. (T \ {u}) \ {t} = (T \ {t}) \ {u}
      OBVIOUS
    <3>3. g[T \ {t}] = g[(T \ {t}) \ {u}] + f[u]
      BY <1>1, <3>1
    <3>4. k[T] = g[T \ {t}] + h[t]
      BY <2>4
    <3>5. k[T \ {u}] = g[(T \ {t}) \ {u}] + h[t]
      BY <2>1, <2>4, <3>2
    <3>6. g[(T \ {t}) \ {u}] \in Nat /\ f[u] = h[u] /\ f[u] \in Nat
      BY <1>1, <3>1
    <3>7. g[T \ {t}] \in Nat
      BY <1>1, <3>1
    <3> QED
      BY <3>3, <3>4, <3>5, <3>6, <3>7
  <2> QED
    BY <2>2, <2>3, <2>4
<1>5. k \in SumsOf(h, R)
  BY <1>2, <1>3, <1>4 DEF SumsOf
<1>6. k[R] = g[S] + h[t]
  <2>1. R \ {t} = S
    OBVIOUS
  <2> QED
    BY <2>1
<1> HIDE DEF k
<1> QED
  BY <1>5, <1>6

(* One caller less. *)
LEMMA SumShrinks ==
  ASSUME NEW f, NEW S, NEW g \in SumsOf(f, S), NEW t \in S
  PROVE  \E k \in SumsOf(f, S \ {t}) : g[S] = k[S \ {t}] + f[t]
<1> DEFINE R == S \ {t}
           k == [T \in SUBSET R |-> g[T]]
<1>1. /\ g \in [SUBSET S -> Nat] /\ g[{}] = 0
      /\ \A T \in SUBSET S : \A u \in T : g[T] = g[T \ {u}] + f[u]
  BY DEF SumsOf
<1>2. \A T \in SUBSET R : T \in SUBSET S
  OBVIOUS
<1>3. k \in [SUBSET R -> Nat] /\ k[{}] = 0
  BY <1>1, <1>2
<1>4. \A T \in SUBSET R : \A u \in T : k[T] = k[T \ {u}] + f[u]
  BY <1>1, <1>2
<1>5. k \in SumsOf(f, R)
  BY <1>3, <1>4 DEF SumsOf
<1>6. g[S] = k[R] + f[t]
  BY <1>1
<1> HIDE DEF k
<1> QED
  BY <1>5, <1>6

LEMMA PushStep ==
  ASSUME TypeOK, PushInv, [Next]_vars
  PROVE  PushInv'
<1>1. PICK g \in SumsOf(delta, Pending) : emitted + dropped + g[Pending] = deltas
  BY DEF PushInv
<1>2. /\ g[Pending] \in Nat /\ deltas \in Nat /\ emitted \in Nat
      /\ dropped \in Nat
  BY DEF SumsOf, TypeOK
<1>3. ASSUME NEW t \in Callers, Swap(t) PROVE PushInv'
  <2>1. Minus(read[t], baseline) \in Nat
    BY CountersAssumption DEF TypeOK, Minus
  <2>2. /\ t \notin Pending /\ Pending' = Pending \cup {t}
        /\ delta'[t] = Minus(read[t], baseline)
        /\ \A u \in Pending : delta[u] \in Nat /\ delta'[u] = delta[u]
        /\ deltas' = deltas + Minus(read[t], baseline)
        /\ UNCHANGED <<emitted, dropped, ended>>
    BY <1>3, CountersAssumption DEF Swap, Pending, TypeOK
  <2>3. PICK k \in SumsOf(delta', Pending \cup {t}) :
          k[Pending \cup {t}] = g[Pending] + delta'[t]
    BY <2>1, <2>2, SumGrows
  <2>4. emitted' + dropped' + k[Pending'] = deltas'
    BY <1>1, <1>2, <2>1, <2>2, <2>3
  <2> QED
    BY <2>2, <2>3, <2>4 DEF PushInv
<1>4. ASSUME NEW t \in Callers, Push(t) PROVE PushInv'
  <2>1. /\ t \in Pending /\ Pending' = Pending \ {t}
        /\ delta' = delta /\ deltas' = deltas
        /\ \/ emitted' = emitted + delta[t] /\ dropped' = dropped
           \/ emitted' = emitted /\ dropped' = dropped + delta[t]
        /\ ended' = ended /\ (ended = {} => dropped' = dropped)
    BY <1>4 DEF Push, Sample, Pending, TypeOK
  <2>2. PICK k \in SumsOf(delta, Pending \ {t}) :
          g[Pending] = k[Pending \ {t}] + delta[t]
    BY <2>1, SumShrinks
  <2>3. k[Pending \ {t}] \in Nat /\ delta[t] \in Nat
    BY <2>1, CountersAssumption DEF SumsOf, TypeOK, Pending
  <2>4. emitted' + dropped' + k[Pending'] = deltas'
    BY <1>1, <1>2, <2>1, <2>2, <2>3
  <2> QED
    BY <2>1, <2>2, <2>4 DEF PushInv
<1>5. ASSUME UNCHANGED <<Pending, delta, deltas, emitted, dropped>>,
             ended' = {} => ended = {}
      PROVE  PushInv'
  BY <1>1, <1>5 DEF PushInv
<1>6. CASE Bind \/ Traffic \/ Close \/ UNCHANGED vars
  BY <1>5, <1>6 DEF Bind, Traffic, Close, Pending, vars, sumVars
<1>7. ASSUME NEW t \in Callers, EndVU(t) \/ Take(t) \/ ReadCounters(t)
      PROVE  PushInv'
  <2>1. Pending' = Pending
    BY <1>7 DEF EndVU, Take, ReadCounters, Pending, TypeOK
  <2> QED
    BY <1>5, <1>7, <2>1 DEF EndVU, Take, ReadCounters, sumVars
<1> QED
  BY <1>3, <1>4, <1>6, <1>7 DEF Next

(* The samples pushed, those lost with their VU and those on their way are, to
   the unit, what the snapshots have computed, for any number of callers and
   whichever VUs end; and none is lost while no VU has ended
   (client.go:499-516). *)
THEOREM PushesAreDeltas == Spec => []SamplesAccounted
<1>1. Init => PushInv
  <2> SUFFICES ASSUME Init PROVE PushInv
    OBVIOUS
  <2>1. Pending = {}
    BY DEF Init, Pending
  <2> DEFINE g == [T \in SUBSET {} |-> 0]
  <2>2. g \in SumsOf(delta, {}) /\ g[{}] = 0
    BY DEF SumsOf
  <2> QED
    BY <2>1, <2>2 DEF PushInv, Init
<1>2. Inv /\ PushInv /\ [Next]_vars => PushInv'
  BY PushStep DEF Inv
<1>3. ASSUME Inv, PushInv PROVE SamplesAccounted
  <2>1. PICK g \in SumsOf(delta, Pending) : emitted + dropped + g[Pending] = deltas
    BY <1>3 DEF PushInv
  <2>2. ASSUME \A t \in Callers : pc[t] # "push"
        PROVE  emitted + dropped = deltas
    <3>1. Pending = {}
      BY <2>2 DEF Pending
    <3>2. g[Pending] = 0
      BY <3>1 DEF SumsOf
    <3> QED
      BY <1>3, <2>1, <3>2 DEF Inv, TypeOK
  <2> QED
    BY <1>3, <2>2 DEF PushInv, SamplesAccounted
<1> QED
  BY <1>1, <1>2, <1>3, Invariance, PTL DEF Spec
=============================================================================

--------------------------- MODULE SocketCounters ---------------------------
(***************************************************************************)
(* MetricsSnapshot: the socket counters of an endpoint become samples by   *)
(* subtracting, in uint64, the counters the previous snapshot left as a    *)
(* baseline.  A shared endpoint has one baseline for all VUs, in the       *)
(* RootModule; a vu-scoped one has its client's.  In both the counters are *)
(* read with no mutex held and the baseline swapped later under one.       *)
(*                                                                         *)
(* One counter stands for them all: they are subtracted name by name.      *)
(***************************************************************************)
EXTENDS Integers, Functions

CONSTANTS
  Callers,     \* goroutines that take snapshots of the one endpoint
  Shared,      \* whether the endpoint's scope is "shared"
  W,           \* 2^64: counters and deltas are taken modulo W
  MaxTraffic,  \* bound: datagrams counted by one endpoint
  MaxBinds,    \* bound: endpoints ever bound
  MaxDeltas    \* bound: no snapshot starts once the deltas add up to this

ASSUME CountersAssumption ==
  /\ Shared \in BOOLEAN
  /\ MaxTraffic \in Nat /\ MaxDeltas \in Nat
  /\ MaxBinds \in Nat \ {0}
  /\ W \in Nat /\ W > MaxTraffic
  /\ Shared => MaxBinds = 1

VARIABLES
  bound,       \* how many endpoints have been bound; the last is the current
  current,     \* the endpoint in the client or the root, 0 for nil
  count,       \* the counter of each endpoint
  baseline,    \* Client.lastSocket or RootModule.lastShared
  pc, ep, read, delta,  \* the local variables of each snapshot
  ended,       \* callers whose VU context is done: their samples are dropped
  deltas,      \* history: the sum of all deltas computed
  emitted,     \* history: the sum of the samples pushed
  dropped,     \* history: the sum of those lost with their VU
  overlapped   \* history: a snapshot read while another had yet to swap

envVars == <<bound, current, count>>
sumVars == <<deltas, emitted, dropped, overlapped>>
vars == <<envVars, baseline, pc, ep, read, delta, ended, sumVars>>

Init ==
  /\ bound = 0 /\ current = 0
  /\ count = [e \in 1..MaxBinds |-> 0]
  /\ baseline = 0
  /\ pc = [t \in Callers |-> "idle"]
  /\ ep = [t \in Callers |-> 0]
  /\ read = [t \in Callers |-> 0]
  /\ delta = [t \in Callers |-> 0]
  /\ ended = {}
  /\ deltas = 0 /\ emitted = 0 /\ dropped = 0 /\ overlapped = FALSE

(* uint64 subtraction. *)
Minus(v, last) == IF v >= last THEN v - last ELSE v - last + W

-----------------------------------------------------------------------------
(* A dial, or a shared snapshot, binds the endpoint where there is none. *)
Bind ==
  /\ current = 0
  /\ bound < MaxBinds
  /\ bound' = bound + 1
  /\ current' = bound + 1
  /\ UNCHANGED <<count, baseline, pc, ep, read, delta, ended, sumVars>>

(* Transfers make the endpoint count. *)
Traffic ==
  /\ current # 0
  /\ count[current] < MaxTraffic
  /\ count' = [count EXCEPT ![current] = @ + 1]
  /\ UNCHANGED <<bound, current, baseline, pc, ep, read, delta, ended, sumVars>>

(* Close drops a vu-scoped endpoint.  The baseline stays. *)
Close ==
  /\ ~Shared
  /\ current # 0
  /\ current' = 0
  /\ UNCHANGED <<bound, count, baseline, pc, ep, read, delta, ended, sumVars>>

(* The VU's iteration is over or interrupted, whatever the snapshot is at. *)
EndVU(t) ==
  /\ t \notin ended
  /\ ended' = ended \cup {t}
  /\ UNCHANGED <<envVars, baseline, pc, ep, read, delta, sumVars>>

-----------------------------------------------------------------------------
Take(t) ==
  /\ pc[t] = "idle"
  /\ current # 0
  /\ deltas < MaxDeltas
  /\ pc' = [pc EXCEPT ![t] = "read"]
  /\ ep' = [ep EXCEPT ![t] = current]
  /\ UNCHANGED <<envVars, baseline, read, delta, ended, sumVars>>

Swapping == {u \in Callers : pc[u] = "swap"}

ReadCounters(t) ==
  /\ pc[t] = "read"
  /\ pc' = [pc EXCEPT ![t] = "swap"]
  /\ read' = [read EXCEPT ![t] = count[ep[t]]]
  /\ overlapped' = (overlapped \/ Swapping # {})
  /\ UNCHANGED <<envVars, baseline, ep, delta, ended, deltas, emitted, dropped>>

(* Mutant: the delta is computed but the baseline is left where it was. *)
RebaseForgotten(t) == UNCHANGED baseline

(* Mutant: the baseline is read from the endpoint afresh. *)
RebaseAfresh(t) == baseline' = count[ep[t]]

Rebase(t) == baseline' = read[t]

(* Under c.mu or root.mu: subtract, and leave what was read as the baseline,
   older though it may be than the one it replaces. *)
Swap(t) ==
  /\ pc[t] = "swap"
  /\ pc' = [pc EXCEPT ![t] = "push"]
  /\ delta' = [delta EXCEPT ![t] = Minus(read[t], baseline)]
  /\ deltas' = deltas + Minus(read[t], baseline)
  /\ Rebase(t)
  /\ UNCHANGED <<envVars, ep, read, ended, emitted, dropped, overlapped>>

(* Mutant: the sample carries the counter, not its change. *)
SampleCounter(t) == read[t]

Sample(t) == delta[t]

(* A zero delta is not pushed; a push from a VU that has ended is lost. *)
Push(t) ==
  /\ pc[t] = "push"
  /\ pc' = [pc EXCEPT ![t] = "idle"]
  /\ IF t \in ended
     THEN dropped' = dropped + delta[t] /\ UNCHANGED emitted
     ELSE emitted' = emitted + Sample(t) /\ UNCHANGED dropped
  /\ UNCHANGED <<envVars, baseline, ep, read, delta, ended, deltas, overlapped>>

-----------------------------------------------------------------------------
Next ==
  \/ Bind \/ Traffic \/ Close
  \/ \E t \in Callers :
       EndVU(t) \/ Take(t) \/ ReadCounters(t) \/ Swap(t) \/ Push(t)

Spec == Init /\ [][Next]_vars

-----------------------------------------------------------------------------
(* Every variable has its type, and handles name endpoints that exist. *)
TypeOK ==
  /\ bound \in 0..MaxBinds
  /\ current \in 0..bound
  /\ count \in [1..MaxBinds -> 0..MaxTraffic]
  /\ baseline \in 0..MaxTraffic
  /\ pc \in [Callers -> {"idle", "read", "swap", "push"}]
  /\ ep \in [Callers -> 0..bound]
  /\ \A t \in Callers : pc[t] # "idle" => ep[t] # 0
  /\ read \in [Callers -> 0..MaxTraffic]
  /\ delta \in [Callers -> 0..(W - 1)]
  /\ ended \in SUBSET Callers
  /\ deltas \in Nat
  /\ emitted \in Nat /\ dropped \in Nat
  /\ overlapped \in BOOLEAN

(* Whatever the interleaving of snapshots, closes and rebinds, the deltas add
   up modulo W to what the last swap read, of the endpoint it read: a sum kept
   in uint64 heals of the snapshots that overtook one another.  It does not
   remember the endpoints before a rebind, as Close keeps the baseline: with 3
   counted by the first and 2 by the second, the deltas add up to 2 modulo W
   (client.go:499-512, module.go:179-188). *)
DeltasTelescope == deltas % W = baseline

(* Snapshots that do not overlap, of one endpoint, are exact: their deltas add
   up to what the last of them read, and that is traffic that took place. *)
SequentialSnapshotsExact ==
  ~overlapped /\ bound <= 1 =>
    /\ deltas = baseline
    /\ bound = 1 => baseline <= count[1]

(* Every delta that is computed is pushed, once, unless its VU has ended, and
   then it is lost for good: the baseline has moved past it, and no other VU's
   snapshot brings it back (client.go:499-516). *)
SamplesAccounted ==
  /\ (\A t \in Callers : pc[t] # "push") => emitted + dropped = deltas
  /\ ended = {} => dropped = 0

(* What the samples claim is traffic that took place: "concurrent VUs do not
   each re-emit the same global delta" (module.go:176-178), and a sample is
   "the delta since the previous call" (client.go:476-478). *)
EmittedWithinTraffic ==
  emitted <= FoldFunctionOnSet(+, 0, count, 1..MaxBinds)
=============================================================================

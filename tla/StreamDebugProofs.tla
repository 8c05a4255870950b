------------------------- MODULE StreamDebugProofs -------------------------
(***************************************************************************)
(* Proofs about StreamDebug for any number of streams, operations and      *)
(* ticks: a dumped line is never ahead of itself and is exact for a stream *)
(* that is blocked, and the final dump leaves out no stream that goes on.  *)
(***************************************************************************)
EXTENDS StreamDebug, TLAPS

(* Where a stream is tells what its probe holds. *)
ProbeOK(s) ==
  LET p == probe[s] IN
    /\ p.phase = ops[s]
    /\ p.start = IF at[s] \in {"running", "counted"} THEN ops[s] ELSE 0
    /\ at[s] \in {"labelled", "running", "counted", "stopped"} =>
         ops[s] = p.last + 1
    /\ at[s] \in {"new", "idle", "done"} => ops[s] = p.last
    /\ p.bytes = IF at[s] \in {"labelled", "running"} THEN p.last ELSE ops[s]

(* A probe's phase, last operation and offset only grow. *)
Grows(s) ==
  /\ probe'[s].phase >= probe[s].phase
  /\ probe'[s].last >= probe[s].last
  /\ probe'[s].bytes >= probe[s].bytes

(* What has been loaded bounds what will be, the fields yet to be loaded being
   those that grow. *)
LoadOK(d) ==
  LET l == line[d]  p == probe[Current(d)] IN
    /\ loaded[d] # 0 => dpc[d] = "dump" /\ todo[d] # <<>>
    /\ loaded[d] >= 1 => l.start <= p.phase /\ l.start <= p.last + 1
    /\ loaded[d] >= 2 =>
         l.start <= l.last + 1 /\ l.last <= p.phase /\ l.last <= p.bytes
    /\ loaded[d] >= 3 => l.start <= l.phase /\ l.last <= l.phase
    /\ loaded[d] = 4 => l.last <= l.bytes

ProbeInv == \A s \in Streams : ProbeOK(s)

LoadInv == \A d \in Dumpers : LoadOK(d)

Inv == TypeOK /\ ProbeInv /\ LoadInv

-----------------------------------------------------------------------------
LEMMA OrderIs ==
  /\ Len(Order) = 4
  /\ Order[1] = "start" /\ Order[2] = "last"
  /\ Order[3] = "phase" /\ Order[4] = "bytes"
BY DEF Order

(* The streams: their stores keep the types, what the probe says, and every
   line that is being made. *)
LEMMA StreamTypes ==
  ASSUME TypeOK, NEW s \in Streams, StreamStep(s)
  PROVE  TypeOK'
<1>1. ops[s] \in Nat /\ ops[s] + 1 \in Nat
  BY DEF TypeOK
<1>2. ops' \in [Streams -> Nat]
  <2>1. CASE SetPhase(s)
    BY <1>1, <2>1 DEF SetPhase, TypeOK
  <2>2. CASE ~SetPhase(s)
    BY <2>2 DEF StreamStep, Register, BeginOp, EndOpBytes, EndOpStart,
                EndOpLast, Done, TypeOK
  <2> QED
    BY <2>1, <2>2
<1>3. probes' \in Seq(Streams)
  <2>1. CASE Register(s)
    BY <2>1 DEF Register, TypeOK
  <2>2. CASE ~Register(s)
    BY <2>2 DEF StreamStep, SetPhase, BeginOp, EndOpBytes, EndOpStart,
                EndOpLast, Done, Store, TypeOK
  <2> QED
    BY <2>1, <2>2
<1>4. probe' \in [Streams -> [phase : Nat, start : Nat, last : Nat, bytes : Nat,
                            closed : BOOLEAN]]
  <2> USE <1>1 DEF TypeOK
  <2>1. CASE Register(s)
    BY <2>1 DEF Register
  <2>2. CASE SetPhase(s)
    BY <2>2 DEF SetPhase
  <2>3. CASE BeginOp(s)
    BY <2>3 DEF BeginOp
  <2>4. CASE EndOpBytes(s)
    <3>1. probe[s].bytes + 1 \in Nat
      OBVIOUS
    <3> QED
      BY <2>4, <3>1 DEF EndOpBytes
  <2>5. CASE EndOpStart(s)
    BY <2>5 DEF EndOpStart
  <2>6. CASE EndOpLast(s)
    BY <2>6 DEF EndOpLast
  <2>7. CASE Done(s)
    BY <2>7 DEF Done
  <2> QED
    BY <2>1, <2>2, <2>3, <2>4, <2>5, <2>6, <2>7 DEF StreamStep
<1>5. at' \in [Streams -> {"new", "idle", "labelled", "running", "counted",
                         "stopped", "done"}]
  BY DEF TypeOK, StreamStep, Register, SetPhase, BeginOp, EndOpBytes,
         EndOpStart, EndOpLast, Done, Store
<1>6. UNCHANGED <<fileVars, dumpVars, done, ticks>>
  BY DEF StreamStep, Register, SetPhase, BeginOp, EndOpBytes, EndOpStart,
         EndOpLast, Done, Store
<1> QED
  BY <1>2, <1>3, <1>4, <1>5, <1>6 DEF TypeOK, fileVars, dumpVars

LEMMA StreamStepKeeps ==
  ASSUME TypeOK, ProbeInv, NEW s \in Streams, StreamStep(s), NEW r \in Streams
  PROVE  ProbeOK(r)' /\ Grows(r)
<1>1. ProbeOK(r)
  BY DEF ProbeInv
<1>2. /\ ops[r] \in Nat /\ probe[r].phase \in Nat /\ probe[r].start \in Nat
      /\ probe[r].last \in Nat /\ probe[r].bytes \in Nat
  BY DEF TypeOK
<1>3. CASE r # s
  <2>1. at'[r] = at[r] /\ ops'[r] = ops[r] /\ probe'[r] = probe[r]
    BY <1>3 DEF TypeOK, StreamStep, Register, SetPhase, BeginOp, EndOpBytes,
                EndOpStart, EndOpLast, Done, Store
  <2> QED
    BY <1>1, <1>2, <2>1 DEF ProbeOK, Grows
<1>4. CASE r = s
  <2> USE <1>1, <1>2, <1>4 DEF TypeOK, ProbeOK, Grows
  <2>1. CASE Register(s)
    BY <2>1 DEF Register
  <2>2. CASE SetPhase(s)
    BY <2>2 DEF SetPhase, Store
  <2>3. CASE BeginOp(s)
    BY <2>3 DEF BeginOp, Store
  <2>4. CASE EndOpBytes(s)
    BY <2>4 DEF EndOpBytes, Store
  <2>5. CASE EndOpStart(s)
    BY <2>5 DEF EndOpStart, Store
  <2>6. CASE EndOpLast(s)
    BY <2>6 DEF EndOpLast, Store
  <2>7. CASE Done(s)
    BY <2>7 DEF Done, Store
  <2> QED
    BY <2>1, <2>2, <2>3, <2>4, <2>5, <2>6, <2>7 DEF StreamStep
<1> QED
  BY <1>3, <1>4

LEMMA GrowthKeepsLines ==
  ASSUME TypeOK, TypeOK', \A s \in Streams : Grows(s), UNCHANGED dumpVars,
         NEW d \in Dumpers, LoadOK(d)
  PROVE  LoadOK(d)'
<1> USE DEF dumpVars
<1>1. CASE loaded[d] = 0
  BY <1>1 DEF LoadOK, TypeOK
<1>2. CASE loaded[d] # 0
  <2>1. Current(d) \in Streams /\ Current(d)' = Current(d)
    BY <1>2 DEF LoadOK, Current, TypeOK
  <2>2. /\ line[d] \in Fields
        /\ probe[Current(d)].phase \in Nat /\ probe'[Current(d)].phase \in Nat
        /\ probe[Current(d)].last \in Nat /\ probe'[Current(d)].last \in Nat
        /\ probe[Current(d)].bytes \in Nat /\ probe'[Current(d)].bytes \in Nat
    BY <2>1 DEF TypeOK
  <2>3. Grows(Current(d))
    BY <2>1
  <2>4. /\ line[d].start \in Nat /\ line[d].last \in Nat
        /\ line[d].phase \in Nat /\ line[d].bytes \in Nat
    BY <2>2 DEF Fields
  <2>5. loaded' = loaded /\ line' = line /\ todo' = todo /\ dpc' = dpc
    OBVIOUS
  <2>6. /\ \A n \in Nat : n <= probe[Current(d)].phase =>
                          n <= probe'[Current(d)].phase
        /\ \A n \in Nat : n <= probe[Current(d)].last + 1 =>
                          n <= probe'[Current(d)].last + 1
        /\ \A n \in Nat : n <= probe[Current(d)].bytes =>
                          n <= probe'[Current(d)].bytes
    BY <2>2, <2>3 DEF Grows
  <2> QED
    BY <2>1, <2>4, <2>5, <2>6, SMTT(30) DEF LoadOK
<1> QED
  BY <1>1, <1>2

(* Dumpers: what is loaded from a probe is as the probe's invariant has it. *)
LEMMA LoadFieldKeeps ==
  ASSUME Inv, NEW d \in Dumpers, LoadField(d)
  PROVE  TypeOK' /\ LoadInv'
<1> DEFINE p == probe[Current(d)]
           f == Order[loaded[d] + 1]
<1>1. /\ todo[d] # <<>> /\ Current(d) \in Streams
      /\ loaded[d] \in {0, 1, 2, 3} /\ loaded'[d] = loaded[d] + 1
      /\ UNCHANGED <<todo, probeVars, fileVars, dpc, done, ticks>>
  BY OrderIs DEF Inv, TypeOK, LoadField, Dumping, Current
<1>2. /\ p.phase \in Nat /\ p.start \in Nat /\ p.last \in Nat /\ p.bytes \in Nat
      /\ p.start <= p.phase /\ p.start <= p.last + 1
      /\ p.last <= p.phase /\ p.last <= p.bytes
  <2>1. /\ p \in [phase : Nat, start : Nat, last : Nat, bytes : Nat,
                 closed : BOOLEAN]
        /\ ops[Current(d)] \in Nat
    BY <1>1 DEF Inv, TypeOK
  <2>2. /\ at[Current(d)] \in {"new", "idle", "labelled", "running", "counted",
                              "stopped", "done"}
        /\ ProbeOK(Current(d))
    BY <1>1 DEF Inv, TypeOK, ProbeInv
  <2> QED
    BY <2>1, <2>2 DEF ProbeOK
<1>3. f \in {"start", "last", "phase", "bytes"}
  BY <1>1, OrderIs
<1>4. line' = [line EXCEPT ![d][f] = p[f]]
  BY DEF LoadField
<1>5. p[f] \in Nat
  BY <1>2, <1>3
<1>6. line[d] \in Fields
  BY DEF Inv, TypeOK
<1>7. line'[d] = [line[d] EXCEPT ![f] = p[f]]
  BY <1>4 DEF Inv, TypeOK
<1>8. line'[d] \in Fields
  BY <1>3, <1>5, <1>6, <1>7 DEF Fields
<1>9. TypeOK'
  <2>1. line' \in [Dumpers -> Fields]
    BY <1>4, <1>7, <1>8 DEF Inv, TypeOK
  <2>2. loaded' \in [Dumpers -> 0..4]
    <3>1. loaded \in [Dumpers -> 0..4]
      BY DEF Inv, TypeOK
    <3>2. loaded[d] + 1 \in 0..4
      BY <1>1
    <3>3. loaded' = [loaded EXCEPT ![d] = loaded[d] + 1]
      BY DEF LoadField
    <3> QED
      BY <3>1, <3>2, <3>3
  <2>3. UNCHANGED <<at, ops, probes, probe, done, fileOpen, final, ticks, dpc,
                    todo>>
    BY <1>1 DEF probeVars, fileVars
  <2> QED
    BY <2>1, <2>2, <2>3 DEF Inv, TypeOK
<1>10. LoadOK(d)'
  <2>1. /\ UNCHANGED <<Current(d), probe, todo, dpc>>
        /\ dpc[d] = "dump" /\ LoadOK(d)
    BY <1>1 DEF Current, probeVars, LoadField, Dumping, Inv, LoadInv
  <2>2. CASE loaded[d] = 0
    <3>1. line'[d].start = p.start
      BY <1>6, <1>7, <2>2, OrderIs DEF Fields
    <3> QED
      BY <1>1, <1>2, <2>1, <2>2, <3>1 DEF LoadOK
  <2>3. CASE loaded[d] = 1
    <3>1. line'[d].last = p.last /\ line'[d].start = line[d].start
      BY <1>6, <1>7, <2>3, OrderIs DEF Fields
    <3> QED
      BY <1>1, <1>2, <2>1, <2>3, <3>1 DEF LoadOK
  <2>4. CASE loaded[d] = 2
    <3>1. /\ line'[d].phase = p.phase
          /\ line'[d].start = line[d].start /\ line'[d].last = line[d].last
      BY <1>6, <1>7, <2>4, OrderIs DEF Fields
    <3> QED
      BY <1>1, <1>2, <2>1, <2>4, <3>1 DEF LoadOK
  <2>5. CASE loaded[d] = 3
    <3>1. /\ line'[d].bytes = p.bytes /\ line'[d].phase = line[d].phase
          /\ line'[d].start = line[d].start /\ line'[d].last = line[d].last
      BY <1>6, <1>7, <2>5, OrderIs DEF Fields
    <3> QED
      BY <1>1, <1>2, <2>1, <2>5, <3>1 DEF LoadOK
  <2> QED
    BY <1>1, <2>2, <2>3, <2>4, <2>5
<1>11. ASSUME NEW e \in Dumpers, e # d PROVE LoadOK(e)'
  <2>1. /\ loaded'[e] = loaded[e] /\ line'[e] = line[e]
        /\ UNCHANGED <<todo, probe, dpc>>
    BY <1>1, <1>4, <1>11 DEF LoadField, Inv, TypeOK, probeVars
  <2> QED
    BY <2>1 DEF Inv, LoadInv, LoadOK, Current
<1> QED
  BY <1>9, <1>10, <1>11 DEF LoadInv

LEMMA DumperKeeps ==
  ASSUME Inv, NEW d \in Dumpers, TakeList(d) \/ SkipDone(d) \/ WriteLine(d)
  PROVE  TypeOK' /\ LoadInv'
<1>1. UNCHANGED probeVars /\ loaded'[d] = 0
  BY DEF Inv, TypeOK, LoadInv, LoadOK, TakeList, SkipDone, WriteLine, Dumping
<1>2. TypeOK'
  <2>1. CASE TakeList(d)
    BY <2>1 DEF Inv, TypeOK, TakeList, Goto, probeVars, fileVars
  <2>2. CASE SkipDone(d)
    <3>1. todo'[d] \in Seq(Streams)
      BY <2>2 DEF Inv, TypeOK, SkipDone, Dumping
    <3> QED
      BY <2>2, <3>1 DEF Inv, TypeOK, SkipDone, probeVars, fileVars
  <2>3. CASE WriteLine(d)
    <3>1. todo'[d] \in Seq(Streams) /\ Current(d) \in Streams
      BY <2>3 DEF Inv, TypeOK, WriteLine, Dumping, Current
    <3>2. line[d].bytes \in Nat /\ NoLine \in Fields
      BY DEF Inv, TypeOK, Fields, NoLine
    <3>3. final' \subseteq Streams \X Nat
      <4>1. final \subseteq Streams \X Nat
        BY DEF Inv, TypeOK
      <4>2. final' \subseteq final \cup {<<Current(d), line[d].bytes>>}
        BY <2>3 DEF WriteLine
      <4> QED
        BY <3>1, <3>2, <4>1, <4>2
    <3>4. line' \in [Dumpers -> Fields] /\ loaded' \in [Dumpers -> 0..4]
      BY <2>3, <3>2 DEF Inv, TypeOK, WriteLine
    <3>5. todo' \in [Dumpers -> Seq(Streams)]
      BY <2>3, <3>1 DEF Inv, TypeOK, WriteLine
    <3> QED
      BY <2>3, <3>3, <3>4, <3>5 DEF Inv, TypeOK, WriteLine, probeVars
  <2> QED
    BY <2>1, <2>2, <2>3
<1>3. LoadOK(d)'
  BY <1>1 DEF LoadOK
<1>4. ASSUME NEW e \in Dumpers, e # d PROVE LoadOK(e)'
  <2>1. /\ loaded'[e] = loaded[e] /\ line'[e] = line[e] /\ todo'[e] = todo[e]
        /\ dpc'[e] = dpc[e] /\ UNCHANGED probe
    BY <1>4 DEF Inv, TypeOK, TakeList, SkipDone, WriteLine, Goto, probeVars
  <2> QED
    BY <2>1 DEF Inv, LoadInv, LoadOK, Current
<1> QED
  BY <1>2, <1>3, <1>4 DEF LoadInv

(* The loop and Close move on with nothing loaded. *)
LEMMA MoveKeeps ==
  ASSUME Inv, Tick \/ LoopAgain \/ LoopReturns \/ Close \/ CloseReturns
  PROVE  TypeOK' /\ LoadInv'
<1>1. PICK d \in Dumpers, l \in {"wait", "take", "end"} :
        Goto(d, l) /\ loaded[d] = 0
  BY DEF Inv, TypeOK, LoadInv, LoadOK, Tick, LoopAgain, LoopReturns, Close,
         CloseReturns, Dumped, Dumpers
<1>2. UNCHANGED <<loaded, todo, line, probeVars>>
  BY DEF Tick, LoopAgain, LoopReturns, Close, CloseReturns
<1>3. TypeOK'
  <2>1. dpc' \in [Dumpers -> {"wait", "take", "dump", "end"}]
    BY <1>1 DEF Goto, Inv, TypeOK
  <2>2. ticks' \in 0..MaxTicks
    BY StreamDebugAssumption
       DEF Inv, TypeOK, Tick, LoopAgain, LoopReturns, Close, CloseReturns
  <2>3. done' \in BOOLEAN /\ fileOpen' \in BOOLEAN /\ UNCHANGED final
    BY DEF Inv, TypeOK, Tick, LoopAgain, LoopReturns, Close, CloseReturns,
           TellLoop, FileKept, fileVars
  <2> QED
    BY <1>2, <2>1, <2>2, <2>3 DEF Inv, TypeOK, probeVars
<1>4. LoadInv'
  BY <1>1, <1>2 DEF Inv, TypeOK, LoadInv, LoadOK, Goto, Current, probeVars
<1> QED
  BY <1>3, <1>4

LEMMA InitInv ==
  ASSUME Init
  PROVE  Inv
<1>1. TypeOK
  <2>1. /\ NewProbe \in [phase : Nat, start : Nat, last : Nat, bytes : Nat,
                        closed : BOOLEAN]
        /\ NoLine \in Fields
    BY DEF NewProbe, NoLine, Fields
  <2>2. <<>> \in Seq(Streams) /\ 0 \in 0..MaxTicks /\ 0 \in 0..4
    BY StreamDebugAssumption
  <2> QED
    BY <2>1, <2>2 DEF Init, TypeOK
<1>2. ProbeInv
  BY DEF Init, ProbeInv, ProbeOK, NewProbe
<1>3. LoadInv
  BY DEF Init, LoadInv, LoadOK
<1> QED
  BY <1>1, <1>2, <1>3 DEF Inv

LEMMA Inductive ==
  ASSUME Inv, [Next]_vars
  PROVE  Inv'
<1>1. ASSUME NEW s \in Streams, StreamStep(s) PROVE Inv'
  <2>1. TypeOK'
    BY <1>1, StreamTypes DEF Inv
  <2>2. \A r \in Streams : ProbeOK(r)' /\ Grows(r)
    BY <1>1, StreamStepKeeps DEF Inv
  <2>3. UNCHANGED dumpVars
    BY <1>1 DEF StreamStep, Register, SetPhase, BeginOp, EndOpBytes, EndOpStart,
                EndOpLast, Done, Store
  <2>4. LoadInv'
    BY <2>1, <2>2, <2>3, GrowthKeepsLines DEF Inv, LoadInv
  <2> QED
    BY <2>1, <2>2, <2>4 DEF Inv, ProbeInv
<1>2. ASSUME NEW d \in Dumpers, DumpStep(d) PROVE Inv'
  <2>1. TypeOK' /\ LoadInv'
    BY <1>2, LoadFieldKeeps, DumperKeeps DEF DumpStep
  <2>2. UNCHANGED probeVars
    BY <1>2 DEF DumpStep, TakeList, SkipDone, LoadField, WriteLine
  <2> QED
    BY <2>1, <2>2 DEF Inv, ProbeInv, ProbeOK, probeVars
<1>3. ASSUME Tick \/ LoopAgain \/ LoopReturns \/ Close \/ CloseReturns
      PROVE  Inv'
  <2>1. UNCHANGED probeVars
    BY <1>3 DEF Tick, LoopAgain, LoopReturns, Close, CloseReturns
  <2> QED
    BY <1>3, <2>1, MoveKeeps DEF Inv, ProbeInv, ProbeOK, probeVars
<1>4. CASE UNCHANGED vars
  BY <1>4 DEF Inv, TypeOK, ProbeInv, ProbeOK, LoadInv, LoadOK, Current,
              vars, probeVars, fileVars, dumpVars
<1> QED
  BY <1>1, <1>2, <1>3, <1>4 DEF Next, LoopStep, Dumpers

(* Every reachable state of any number of streams is type-correct. *)
THEOREM TypeCorrect == Spec => []TypeOK
<1>1. Inv => TypeOK
  BY DEF Inv
<1> QED
  BY <1>1, InitInv, Inductive, PTL DEF Spec

-----------------------------------------------------------------------------
(* A stream that has not moved since its start was loaded: what is loaded later
   is of the same operation.  One that has only been labelled cannot be taken
   for it, as no line shows it blocked in that operation yet. *)
BlockedOK(d, s) ==
  LET l == line[d] IN
    loaded[d] >= 1 =>
      /\ at[s] = "labelled" => l.start < ops[s]
      /\ at[s] = "running" /\ l.start = ops[s] =>
           /\ loaded[d] >= 2 => l.last + 1 = ops[s]
           /\ loaded[d] >= 3 => l.phase = ops[s]
           /\ loaded[d] = 4 => l.bytes + 1 = ops[s]

BlockedInv ==
  \A d \in Dumpers, s \in Streams :
    todo[d] # <<>> /\ s = Current(d) => BlockedOK(d, s)

LEMMA StreamsKeepBlocked ==
  ASSUME Inv, BlockedInv, NEW s \in Streams, StreamStep(s)
  PROVE  BlockedInv'
<1>1. UNCHANGED dumpVars
  BY DEF StreamStep, Register, SetPhase, BeginOp, EndOpBytes, EndOpStart,
         EndOpLast, Done, Store
<1> SUFFICES ASSUME NEW d \in Dumpers, NEW r \in Streams,
                    todo[d] # <<>>, r = Current(d)
             PROVE  BlockedOK(d, r)'
  BY <1>1 DEF BlockedInv, Current, dumpVars
<1>2. BlockedOK(d, r)
  BY DEF BlockedInv
<1>3. loaded' = loaded /\ line' = line
  BY <1>1 DEF dumpVars
<1>4. CASE r # s
  <2>1. at'[r] = at[r] /\ ops'[r] = ops[r]
    BY <1>4 DEF Inv, TypeOK, StreamStep, Register, SetPhase, BeginOp,
                EndOpBytes, EndOpStart, EndOpLast, Done, Store
  <2> QED
    BY <1>2, <1>3, <2>1 DEF BlockedOK
<1>5. CASE r = s
  <2>1. CASE SetPhase(s)
    <3>1. /\ at'[s] = "labelled" /\ at[s] = "idle"
          /\ ops'[s] = ops[s] + 1 /\ ops[s] \in Nat
      BY <2>1 DEF SetPhase, Store, Inv, TypeOK
    <3>2. line[d].start \in Nat
      BY DEF Inv, TypeOK, Fields
    <3>3. loaded[d] >= 1 => line[d].start <= ops[s]
      BY <1>5 DEF Inv, LoadInv, LoadOK, ProbeInv, ProbeOK
    <3> QED
      BY <1>3, <1>5, <3>1, <3>2, <3>3 DEF BlockedOK
  <2>2. CASE BeginOp(s)
    <3>1. at[s] = "labelled" /\ at'[s] = "running" /\ ops' = ops
      BY <2>2 DEF BeginOp, Store, Inv, TypeOK
    <3>2. line[d].start \in Nat /\ ops[s] \in Nat
      BY DEF Inv, TypeOK, Fields
    <3> QED
      BY <1>2, <1>3, <1>5, <3>1, <3>2 DEF BlockedOK
  <2>3. CASE ~SetPhase(s) /\ ~BeginOp(s)
    <3>1. at'[s] \notin {"labelled", "running"}
      BY <2>3 DEF Inv, TypeOK, StreamStep, Register, EndOpBytes, EndOpStart,
                  EndOpLast, Done, Store
    <3> QED
      BY <1>5, <3>1 DEF BlockedOK
  <2> QED
    BY <2>1, <2>2, <2>3
<1> QED
  BY <1>4, <1>5

LEMMA LoadKeepsBlocked ==
  ASSUME Inv, BlockedInv, NEW d \in Dumpers, LoadField(d)
  PROVE  BlockedInv'
<1>1. /\ loaded[d] \in {0, 1, 2, 3} /\ loaded'[d] = loaded[d] + 1
      /\ todo[d] # <<>> /\ UNCHANGED <<todo, at, ops>>
  BY OrderIs DEF Inv, TypeOK, LoadField, Dumping, probeVars
<1> SUFFICES ASSUME NEW e \in Dumpers, NEW s \in Streams,
                    todo[e] # <<>>, s = Current(e)
             PROVE  BlockedOK(e, s)'
  BY <1>1 DEF BlockedInv, Current
<1>2. BlockedOK(e, s)
  BY DEF BlockedInv
<1>3. CASE e # d
  <2>1. loaded'[e] = loaded[e] /\ line'[e] = line[e]
    BY <1>3 DEF LoadField, Inv, TypeOK
  <2> QED
    BY <1>1, <1>2, <2>1 DEF BlockedOK
<1>4. CASE e = d
  <2>1. line'[d] = [line[d] EXCEPT ![Order[loaded[d] + 1]] =
                      probe[s][Order[loaded[d] + 1]]]
    BY <1>4 DEF LoadField, Inv, TypeOK
  <2>2. line[d] \in Fields /\ ops[s] \in Nat
    BY DEF Inv, TypeOK
  <2>3. /\ probe[s].phase = ops[s]
        /\ at[s] = "labelled" => probe[s].start = 0 /\ ops[s] > 0
        /\ at[s] = "running" =>
             probe[s].last + 1 = ops[s] /\ probe[s].bytes + 1 = ops[s]
    BY <2>2 DEF Inv, TypeOK, ProbeInv, ProbeOK
  <2>4. CASE loaded[d] = 0
    <3>1. line'[d].start = probe[s].start
      BY <2>1, <2>2, <2>4, OrderIs DEF Fields
    <3> QED
      BY <1>1, <1>4, <2>2, <2>3, <2>4, <3>1 DEF BlockedOK
  <2>5. CASE loaded[d] = 1
    <3>1. line'[d].last = probe[s].last /\ line'[d].start = line[d].start
      BY <2>1, <2>2, <2>5, OrderIs DEF Fields
    <3> QED
      BY <1>1, <1>2, <1>4, <2>3, <2>5, <3>1 DEF BlockedOK
  <2>6. CASE loaded[d] = 2
    <3>1. /\ line'[d].phase = probe[s].phase
          /\ line'[d].start = line[d].start /\ line'[d].last = line[d].last
      BY <2>1, <2>2, <2>6, OrderIs DEF Fields
    <3> QED
      BY <1>1, <1>2, <1>4, <2>3, <2>6, <3>1 DEF BlockedOK
  <2>7. CASE loaded[d] = 3
    <3>1. /\ line'[d].bytes = probe[s].bytes /\ line'[d].phase = line[d].phase
          /\ line'[d].start = line[d].start /\ line'[d].last = line[d].last
      BY <2>1, <2>2, <2>7, OrderIs DEF Fields
    <3> QED
      BY <1>1, <1>2, <1>4, <2>3, <2>7, <3>1 DEF BlockedOK
  <2> QED
    BY <1>1, <2>4, <2>5, <2>6, <2>7
<1> QED
  BY <1>3, <1>4

(* With nothing loaded there is nothing to keep. *)
LEMMA OthersKeepBlocked ==
  ASSUME Inv, BlockedInv, NEW d \in Dumpers,
         \/ TakeList(d) \/ SkipDone(d) \/ WriteLine(d)
         \/ Tick \/ LoopAgain \/ LoopReturns \/ Close \/ CloseReturns
  PROVE  BlockedInv'
<1>1. UNCHANGED <<at, ops>>
  BY DEF TakeList, SkipDone, WriteLine, Tick, LoopAgain, LoopReturns, Close,
         CloseReturns, probeVars
<1> SUFFICES ASSUME NEW e \in Dumpers, NEW s \in Streams,
                    todo'[e] # <<>>, s = Current(e)'
             PROVE  BlockedOK(e, s)'
  BY DEF BlockedInv
<1>2. CASE loaded'[e] = 0
  BY <1>2 DEF BlockedOK
<1>3. CASE loaded'[e] # 0
  <2>1. /\ todo'[e] = todo[e] /\ loaded'[e] = loaded[e]
        /\ line'[e] = line[e]
    BY <1>3 DEF Inv, TypeOK, LoadInv, LoadOK, TakeList, SkipDone, WriteLine,
                Tick, LoopAgain, LoopReturns, Close, CloseReturns
  <2>2. BlockedOK(e, s)
    BY <2>1 DEF BlockedInv, Current
  <2> QED
    BY <1>1, <2>1, <2>2 DEF BlockedOK
<1> QED
  BY <1>2, <1>3

(* A line is never ahead of itself, and one of a stream blocked throughout is
   exact, however loads and stores interleave: the order of the loads in dump
   against that of the stores in SetPhase, BeginOp and EndOp is enough, without
   a lock (streamdebug.go:92-103, 118-142). *)
THEOREM LinesConsistent == Spec => []LineConsistent
<1>1. Init => BlockedInv
  BY DEF Init, BlockedInv
<1>2. Inv /\ BlockedInv /\ [Next]_vars => BlockedInv'
  <2> SUFFICES ASSUME Inv, BlockedInv, [Next]_vars PROVE BlockedInv'
    OBVIOUS
  <2>1. CASE \E s \in Streams : StreamStep(s)
    BY <2>1, StreamsKeepBlocked
  <2>2. ASSUME NEW d \in Dumpers, DumpStep(d) PROVE BlockedInv'
    BY <2>2, LoadKeepsBlocked, OthersKeepBlocked DEF DumpStep
  <2>3. CASE Tick \/ LoopAgain \/ LoopReturns \/ Close \/ CloseReturns
    BY <2>3, OthersKeepBlocked DEF Dumpers
  <2>4. CASE UNCHANGED vars
    BY <2>4 DEF BlockedInv, BlockedOK, Current, vars, probeVars, dumpVars
  <2> QED
    BY <2>1, <2>2, <2>3, <2>4 DEF Next, LoopStep, Dumpers
<1>3. ASSUME Inv, BlockedInv PROVE LineConsistent
  <2> SUFFICES ASSUME NEW d \in Dumpers, loaded[d] = 4
               PROVE  /\ line[d].start <= line[d].phase
                      /\ line[d].start <= line[d].last + 1
                      /\ line[d].last <= line[d].phase
                      /\ line[d].last <= line[d].bytes
                      /\ /\ at[Current(d)] = "running"
                         /\ line[d].start = ops[Current(d)]
                         => /\ line[d].phase = ops[Current(d)]
                            /\ line[d].last + 1 = ops[Current(d)]
                            /\ line[d].bytes + 1 = ops[Current(d)]
    BY OrderIs DEF LineConsistent
  <2>1. LoadOK(d) /\ todo[d] # <<>> /\ Current(d) \in Streams
    BY <1>3 DEF Inv, TypeOK, LoadInv, LoadOK, Current
  <2>2. BlockedOK(d, Current(d))
    BY <1>3, <2>1 DEF BlockedInv
  <2> QED
    BY <2>1, <2>2 DEF LoadOK, BlockedOK
<1> QED
  BY <1>1, <1>2, <1>3, InitInv, Inductive, PTL DEF Spec

-----------------------------------------------------------------------------
(* The final dump: the file is open for it, and every stream on its list is
   yet to come, has ended, or has a line with no fewer bytes than it had. *)
Covered(s) == \E w \in final : w[1] = s /\ w[2] >= taken[s]

CoverInv ==
  /\ dpc["close"] # "end" => fileOpen
  /\ dpc["close"] \in {"dump", "end"} =>
       \A s \in DOMAIN taken :
         /\ s \in Streams /\ taken[s] \in Nat /\ taken[s] <= probe[s].bytes
         /\ s \in Range(todo["close"]) \/ probe[s].closed \/ Covered(s)
         /\ loaded["close"] = 4 /\ s = Current("close") =>
              line["close"].bytes >= taken[s]
  /\ dpc["close"] = "end" => todo["close"] = <<>>

LEMMA HeadOrTail ==
  ASSUME NEW q \in Seq(Streams), q # <<>>, NEW s \in Range(q)
  PROVE  s = Head(q) \/ s \in Range(Tail(q))
<1>1. PICK i \in 1..Len(q) : s = q[i]
  BY DEF Range
<1>2. CASE i = 1
  BY <1>1, <1>2
<1>3. CASE i # 1
  <2>1. /\ i - 1 \in 1..Len(Tail(q)) /\ Tail(q)[i - 1] = q[i]
        /\ DOMAIN Tail(q) = 1..Len(Tail(q))
    BY <1>1, <1>3
  <2> QED
    BY <1>1, <2>1 DEF Range
<1> QED
  BY <1>2, <1>3

LEMMA ClosedStays ==
  ASSUME TypeOK, NEW s \in Streams, StreamStep(s), NEW r \in Streams,
         probe[r].closed
  PROVE  probe'[r].closed
<1> USE DEF TypeOK
<1>1. CASE Register(s)
  BY <1>1 DEF Register
<1>2. CASE SetPhase(s)
  BY <1>2 DEF SetPhase
<1>3. CASE BeginOp(s)
  BY <1>3 DEF BeginOp
<1>4. CASE EndOpBytes(s)
  BY <1>4 DEF EndOpBytes
<1>5. CASE EndOpStart(s)
  BY <1>5 DEF EndOpStart
<1>6. CASE EndOpLast(s)
  BY <1>6 DEF EndOpLast
<1>7. CASE Done(s)
  BY <1>7 DEF Done
<1> QED
  BY <1>1, <1>2, <1>3, <1>4, <1>5, <1>6, <1>7 DEF StreamStep

(* Streams go on during the final dump: they move more bytes, or end. *)
LEMMA StreamsKeepCover ==
  ASSUME Inv, CoverInv, NEW s \in Streams, StreamStep(s)
  PROVE  CoverInv'
<1>1. UNCHANGED <<dumpVars, fileVars, taken>>
  BY DEF StreamStep, Register, SetPhase, BeginOp, EndOpBytes, EndOpStart,
         EndOpLast, Done, Store
<1>2. ASSUME NEW r \in Streams
      PROVE  /\ probe[r].bytes \in Nat /\ probe'[r].bytes \in Nat
             /\ probe[r].bytes <= probe'[r].bytes
             /\ probe[r].closed => probe'[r].closed
  <2>1. Grows(r) /\ TypeOK'
    BY StreamStepKeeps, StreamTypes DEF Inv
  <2>2. probe[r].bytes \in Nat /\ probe'[r].bytes \in Nat
    BY <2>1 DEF Inv, TypeOK
  <2> QED
    BY <2>1, <2>2, ClosedStays DEF Inv, Grows
<1>3. ASSUME NEW r \in DOMAIN taken, dpc["close"] \in {"dump", "end"}
      PROVE  /\ taken[r] <= probe'[r].bytes
             /\ r \in Range(todo["close"]) \/ probe'[r].closed \/ Covered(r)
  BY <1>2, <1>3 DEF CoverInv
<1> QED
  BY <1>1, <1>3 DEF CoverInv, Covered, Current, dumpVars, fileVars

(* The loop leaves alone what Close has, in the file and in hand. *)
LEMMA LoopKeepsCover ==
  ASSUME Inv, CoverInv, LoopStep \/ Tick \/ LoopReturns
  PROVE  CoverInv'
<1>1. /\ dpc'["close"] = dpc["close"] /\ todo'["close"] = todo["close"]
      /\ loaded'["close"] = loaded["close"] /\ line'["close"] = line["close"]
      /\ UNCHANGED <<fileOpen, final, probe, taken>>
  <2>1. CASE TakeList("loop") \/ SkipDone("loop")
    BY <2>1 DEF TakeList, SkipDone, Goto, Inv, TypeOK, Dumpers, probeVars,
                fileVars
  <2>2. CASE LoadField("loop") \/ WriteLine("loop")
    BY <2>2 DEF LoadField, WriteLine, Inv, TypeOK, Dumpers, probeVars, fileVars
  <2>3. CASE Tick \/ LoopAgain \/ LoopReturns
    BY <2>3 DEF Tick, LoopAgain, LoopReturns, Goto, Inv, TypeOK, Dumpers,
                probeVars, fileVars
  <2> QED
    BY <2>1, <2>2, <2>3 DEF LoopStep, DumpStep
<1> QED
  BY <1>1 DEF CoverInv, Covered, Current

LEMMA CloseKeepsCover ==
  ASSUME Inv, CoverInv, DumpStep("close") \/ Close \/ CloseReturns
  PROVE  CoverInv'
<1>0. "close" \in Dumpers
  BY DEF Dumpers
<1> DEFINE c == Current("close")
           q == todo["close"]
<1>1. CASE TakeList("close")
  <2>1. /\ dpc["close"] = "take" /\ dpc'["close"] = "dump"
        /\ todo'["close"] = probes /\ loaded' = loaded
        /\ taken' = [s \in Range(probes) |-> probe[s].bytes]
        /\ UNCHANGED <<probe, fileOpen>>
    BY <1>0, <1>1 DEF TakeList, Goto, Inv, TypeOK, probeVars, fileVars
  <2>2. loaded["close"] = 0
    BY <1>0, <2>1 DEF Inv, TypeOK, LoadInv, LoadOK
  <2>3. \A s \in Range(probes) : s \in Streams
    BY DEF Inv, TypeOK, Range
  <2>4. \A s \in Streams : probe[s].bytes \in Nat
    BY DEF Inv, TypeOK
  <2> QED
    BY <2>1, <2>2, <2>3, <2>4 DEF CoverInv
<1>2. CASE SkipDone("close")
  <2>1. /\ dpc["close"] = "dump" /\ q # <<>> /\ probe[c].closed
        /\ loaded["close"] = 0 /\ todo'["close"] = Tail(q)
        /\ UNCHANGED <<dpc, loaded, probe, fileOpen, final, taken>>
    BY <1>0, <1>2 DEF SkipDone, Dumping, Inv, TypeOK, probeVars, fileVars
  <2>2. q \in Seq(Streams) /\ c = Head(q)
    BY <1>0 DEF Inv, TypeOK, Current
  <2>3. \A s \in DOMAIN taken :
          s \in Range(q) => s \in Range(Tail(q)) \/ probe[s].closed
    BY <2>1, <2>2, HeadOrTail
  <2> HIDE DEF c, q
  <2> QED
    BY <2>1, <2>3 DEF CoverInv, Covered, q
<1>3. CASE LoadField("close")
  <2>1. /\ dpc["close"] = "dump" /\ q # <<>> /\ loaded["close"] \in {0, 1, 2, 3}
        /\ loaded'["close"] = loaded["close"] + 1
        /\ line'["close"] =
             [line["close"] EXCEPT ![Order[loaded["close"] + 1]] =
                probe[c][Order[loaded["close"] + 1]]]
        /\ UNCHANGED <<dpc, todo, probe, fileOpen, final, taken>>
    BY <1>0, <1>3, OrderIs
    DEF LoadField, Dumping, Inv, TypeOK, probeVars, fileVars
  <2>2. loaded["close"] = 3 => line'["close"].bytes = probe[c].bytes
    BY <1>0, <2>1, OrderIs DEF Inv, TypeOK, Fields
  <2>3. loaded'["close"] = 4 => loaded["close"] = 3
    BY <2>1
  <2>4. c' = c
    BY <2>1 DEF Current
  <2> HIDE DEF c, q
  <2>5. \A s \in DOMAIN taken : loaded'["close"] = 4 /\ s = c =>
          line'["close"].bytes >= taken[s]
    BY <2>1, <2>2, <2>3 DEF CoverInv, Inv, TypeOK
  <2> QED
    BY <2>1, <2>4, <2>5 DEF CoverInv, Covered, c
<1>4. CASE WriteLine("close")
  <2>1. /\ dpc["close"] = "dump" /\ q # <<>> /\ loaded["close"] = 4
        /\ loaded'["close"] = 0 /\ todo'["close"] = Tail(q)
        /\ final' = IF fileOpen THEN final \cup {<<c, line["close"].bytes>>}
                    ELSE final
        /\ UNCHANGED <<dpc, probe, fileOpen, taken>>
    BY <1>0, <1>4, OrderIs DEF WriteLine, Dumping, Inv, TypeOK, probeVars
  <2>2. q \in Seq(Streams) /\ c = Head(q)
    BY <1>0 DEF Inv, TypeOK, Current
  <2>3. /\ fileOpen /\ final \subseteq final'
        /\ <<c, line["close"].bytes>> \in final'
    BY <2>1 DEF CoverInv
  <2>4. \A s \in DOMAIN taken : s = c => Covered(s)'
    BY <2>1, <2>3 DEF CoverInv, Covered
  <2>5. \A s \in DOMAIN taken : Covered(s) => Covered(s)'
    BY <2>1, <2>3 DEF Covered
  <2>6. \A s \in DOMAIN taken :
          s \in Range(q) => s \in Range(Tail(q)) \/ Covered(s)'
    BY <2>2, <2>1, <2>4, HeadOrTail
  <2> HIDE DEF c, q
  <2>7. \A s \in DOMAIN taken' :
          s \in Range(todo'["close"]) \/ probe'[s].closed \/ Covered(s)'
    BY <2>1, <2>5, <2>6 DEF CoverInv, q
  <2> QED
    BY <2>1, <2>7 DEF CoverInv
<1>5. CASE Close
  BY <1>0, <1>5 DEF Close, FileKept, Goto, Inv, TypeOK, CoverInv
<1>6. CASE CloseReturns
  <2>1. /\ dpc["close"] = "dump" /\ q = <<>> /\ dpc'["close"] = "end"
        /\ UNCHANGED <<loaded, todo, line, probe, final, taken>>
    BY <1>0, <1>6
    DEF CloseReturns, Dumped, Goto, Inv, TypeOK, probeVars
  <2>2. Range(q) = {}
    BY <2>1 DEF Range
  <2> QED
    BY <2>1, <2>2 DEF CoverInv, Covered, Current
<1> QED
  BY <1>1, <1>2, <1>3, <1>4, <1>5, <1>6 DEF DumpStep

(* The dump that Close writes covers every stream under way: whatever streams
   and loop do meanwhile, each has ended or has a line that says no less than
   it had moved when Close took the list (streamdebug.go:60-81). *)
THEOREM FinalDumpComplete == Spec => []FinalDumpCovers
<1>1. Init => CoverInv
  BY DEF Init, CoverInv, Dumpers
<1>2. Inv /\ CoverInv /\ [Next]_vars => CoverInv'
  <2> SUFFICES ASSUME Inv, CoverInv, [Next]_vars PROVE CoverInv'
    OBVIOUS
  <2>1. CASE UNCHANGED vars
    BY <2>1 DEF CoverInv, Covered, Current, vars, probeVars, fileVars, dumpVars
  <2> QED
    BY <2>1, StreamsKeepCover, LoopKeepsCover, CloseKeepsCover DEF Next
<1>3. CoverInv => FinalDumpCovers
  <2>1. todo["close"] = <<>> => Range(todo["close"]) = {}
    BY DEF Range
  <2> QED
    BY <2>1 DEF CoverInv, Covered, FinalDumpCovers
<1> QED
  BY <1>1, <1>2, <1>3, InitInv, Inductive, PTL DEF Spec
=============================================================================

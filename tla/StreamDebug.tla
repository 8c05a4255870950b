---------------------------- MODULE StreamDebug ----------------------------
(***************************************************************************)
(* The diagnostic dumps of per-stream offsets (irohpeer/streamdebug.go).   *)
(* Streams label, begin and end their reads and writes by stores to atomic *)
(* fields of a probe, as sendOneStream does; a loop and, at the end, Close *)
(* load these fields one after the other and append a line per stream to a *)
(* file.  Nothing makes the loads of a line one step.                      *)
(*                                                                         *)
(* The n-th operation of a stream has the n-th phase and time and moves    *)
(* one byte, so that the fields of a line can be compared; one that keeps  *)
(* the label of the operation before is taken to set it again.             *)
(***************************************************************************)
EXTENDS Naturals, Sequences, FiniteSets, Functions

CONSTANTS
  Streams,  \* goroutines, each with a stream and its probe
  MaxOps,   \* bound: reads and writes of all streams
  MaxTicks  \* bound: ticks of the dump loop

ASSUME StreamDebugAssumption ==
  IsFiniteSet(Streams) /\ MaxOps \in Nat /\ MaxTicks \in Nat

Dumpers == {"loop", "close"}

VARIABLES
  at,       \* where each stream is in its current operation
  ops,      \* how many operations each stream has begun
  probes,   \* StreamDebug.probes
  probe,    \* the fields of each probe
  done,     \* the done channel is closed
  fileOpen, \* the file is open
  final,    \* history: stream and offset of the lines Close got into the file
  ticks,    \* how many ticks the loop has taken
  dpc,      \* where each dumper is
  loaded,   \* how many fields of its line each dumper has loaded
  todo,     \* the probes each dumper has yet to dump
  line,     \* the line each dumper is making
  taken     \* history: the offsets of the probes when Close took their list

probeVars == <<at, ops, probes, probe>>
fileVars == <<fileOpen, final>>
dumpVars == <<dpc, loaded, todo, line>>
vars == <<probeVars, fileVars, dumpVars, done, ticks, taken>>

NewProbe == [phase |-> 0, start |-> 0, last |-> 0, bytes |-> 0, closed |-> FALSE]

NoLine == [phase |-> 0, start |-> 0, last |-> 0, bytes |-> 0]

Init ==
  /\ at = [s \in Streams |-> "new"]
  /\ ops = [s \in Streams |-> 0]
  /\ probes = <<>>
  /\ probe = [s \in Streams |-> NewProbe]
  /\ done = FALSE
  /\ fileOpen = TRUE /\ final = {}
  /\ ticks = 0
  /\ dpc = [d \in Dumpers |-> "wait"]
  /\ loaded = [d \in Dumpers |-> 0]
  /\ todo = [d \in Dumpers |-> <<>>]
  /\ line = [d \in Dumpers |-> NoLine]
  /\ taken = <<>>

-----------------------------------------------------------------------------
(* The streams *)

Store(s, from, to) ==
  /\ at[s] = from
  /\ at' = [at EXCEPT ![s] = to]
  /\ UNCHANGED <<probes, fileVars, dumpVars, done, ticks, taken>>

(* The list is appended to under d.mu. *)
Register(s) ==
  /\ at[s] = "new"
  /\ at' = [at EXCEPT ![s] = "idle"]
  /\ probes' = Append(probes, s)
  /\ UNCHANGED <<ops, probe, fileVars, dumpVars, done, ticks, taken>>

OpsBegun == FoldFunction(+, 0, ops)

SetPhase(s) ==
  /\ OpsBegun < MaxOps
  /\ Store(s, "idle", "labelled")
  /\ ops' = [ops EXCEPT ![s] = @ + 1]
  /\ probe' = [probe EXCEPT ![s].phase = ops[s] + 1]

BeginOp(s) ==
  /\ Store(s, "labelled", "running")
  /\ probe' = [probe EXCEPT ![s].start = ops[s]]
  /\ UNCHANGED ops

(* EndOp: three stores, the bytes first. *)
EndOpBytes(s) ==
  /\ Store(s, "running", "counted")
  /\ probe' = [probe EXCEPT ![s].bytes = @ + 1]
  /\ UNCHANGED ops

EndOpStart(s) ==
  /\ Store(s, "counted", "stopped")
  /\ probe' = [probe EXCEPT ![s].start = 0]
  /\ UNCHANGED ops

EndOpLast(s) ==
  /\ Store(s, "stopped", "idle")
  /\ probe' = [probe EXCEPT ![s].last = ops[s]]
  /\ UNCHANGED ops

Done(s) ==
  /\ Store(s, "idle", "done")
  /\ probe' = [probe EXCEPT ![s].closed = TRUE]
  /\ UNCHANGED ops

-----------------------------------------------------------------------------
(* dump, by the loop or by Close *)

Goto(d, l) == dpc' = [dpc EXCEPT ![d] = l]

Current(d) == Head(todo[d])

(* The list is copied under d.mu; what is registered later is not in it. *)
TakeList(d) ==
  /\ dpc[d] = "take"
  /\ Goto(d, "dump")
  /\ todo' = [todo EXCEPT ![d] = probes]
  /\ taken' = IF d = "close"
              THEN [s \in Range(probes) |-> probe[s].bytes] ELSE taken
  /\ UNCHANGED <<loaded, line, probeVars, fileVars, done, ticks>>

Dumping(d) == dpc[d] = "dump" /\ todo[d] # <<>>

SkipDone(d) ==
  /\ Dumping(d)
  /\ loaded[d] = 0
  /\ probe[Current(d)].closed
  /\ todo' = [todo EXCEPT ![d] = Tail(@)]
  /\ UNCHANGED <<dpc, loaded, line, probeVars, fileVars, done, ticks, taken>>

(* Mutant: the bytes are loaded before the rest. *)
BytesFirst == <<"bytes", "start", "last", "phase">>

Order == <<"start", "last", "phase", "bytes">>

LoadField(d) ==
  /\ Dumping(d)
  /\ loaded[d] < Len(Order)
  /\ loaded[d] = 0 => ~probe[Current(d)].closed
  /\ LET f == Order[loaded[d] + 1] IN
       line' = [line EXCEPT ![d][f] = probe[Current(d)][f]]
  /\ loaded' = [loaded EXCEPT ![d] = @ + 1]
  /\ UNCHANGED <<dpc, todo, probeVars, fileVars, done, ticks, taken>>

(* What is written to a closed file is lost, and nobody looks at the error. *)
WriteLine(d) ==
  /\ Dumping(d)
  /\ loaded[d] = Len(Order)
  /\ final' = IF fileOpen /\ d = "close"
              THEN final \cup {<<Current(d), line[d].bytes>>} ELSE final
  /\ todo' = [todo EXCEPT ![d] = Tail(@)]
  /\ loaded' = [loaded EXCEPT ![d] = 0]
  /\ line' = [line EXCEPT ![d] = NoLine]
  /\ UNCHANGED <<dpc, probeVars, fileOpen, done, ticks, taken>>

Dumped(d) == dpc[d] = "dump" /\ todo[d] = <<>>

DumpStep(d) == TakeList(d) \/ SkipDone(d) \/ LoadField(d) \/ WriteLine(d)

-----------------------------------------------------------------------------
(* The loop: select takes either case when both are ready. *)
Tick ==
  /\ dpc["loop"] = "wait"
  /\ ticks < MaxTicks
  /\ ticks' = ticks + 1
  /\ Goto("loop", "take")
  /\ UNCHANGED <<loaded, todo, line, probeVars, fileVars, done, taken>>

LoopAgain ==
  /\ Dumped("loop")
  /\ Goto("loop", "wait")
  /\ UNCHANGED <<loaded, todo, line, probeVars, fileVars, done, ticks, taken>>

LoopReturns ==
  /\ dpc["loop"] = "wait"
  /\ done
  /\ Goto("loop", "end")
  /\ UNCHANGED <<loaded, todo, line, probeVars, fileVars, done, ticks, taken>>

(* Mutant: the file is closed before the final dump. *)
FileClosedFirst == fileOpen' = FALSE

FileKept == UNCHANGED fileOpen

(* Mutant: the loop is not told. *)
LoopNotTold == UNCHANGED done

TellLoop == done' = TRUE

(* Close does not wait for the loop, which may be in a dump of its own. *)
Close ==
  /\ dpc["close"] = "wait"
  /\ TellLoop
  /\ FileKept
  /\ Goto("close", "take")
  /\ UNCHANGED <<loaded, todo, line, probeVars, final, ticks, taken>>

CloseReturns ==
  /\ Dumped("close")
  /\ fileOpen' = FALSE
  /\ Goto("close", "end")
  /\ UNCHANGED <<loaded, todo, line, probeVars, final, done, ticks, taken>>

-----------------------------------------------------------------------------
StreamStep(s) ==
  \/ Register(s) \/ SetPhase(s) \/ BeginOp(s)
  \/ EndOpBytes(s) \/ EndOpStart(s) \/ EndOpLast(s) \/ Done(s)

LoopStep == DumpStep("loop") \/ LoopAgain

Next ==
  \/ \E s \in Streams : StreamStep(s)
  \/ LoopStep \/ Tick \/ LoopReturns
  \/ DumpStep("close") \/ Close \/ CloseReturns

Spec == Init /\ [][Next]_vars

(* A dump goes on, and select, choosing at random among the cases ready, does
   not pick the tick forever.  Streams may block in an operation, and nobody
   need call Close. *)
FairSpec ==
  Spec /\ WF_vars(LoopStep) /\ SF_vars(LoopReturns)

-----------------------------------------------------------------------------
(* Every variable has its type. *)
Fields == [phase : Nat, start : Nat, last : Nat, bytes : Nat]

TypeOK ==
  /\ at \in [Streams -> {"new", "idle", "labelled", "running", "counted",
                        "stopped", "done"}]
  /\ ops \in [Streams -> Nat]
  /\ probes \in Seq(Streams)
  /\ probe \in [Streams -> [phase : Nat, start : Nat, last : Nat, bytes : Nat,
                           closed : BOOLEAN]]
  /\ done \in BOOLEAN /\ fileOpen \in BOOLEAN /\ ticks \in 0..MaxTicks
  /\ final \subseteq Streams \X Nat
  /\ dpc \in [Dumpers -> {"wait", "take", "dump", "end"}]
  /\ loaded \in [Dumpers -> 0..4]
  /\ todo \in [Dumpers -> Seq(Streams)]
  /\ line \in [Dumpers -> Fields]

(* A line is never ahead of itself: the operation it shows its stream blocked
   in has been labelled and is the first not shown as returned, and the bytes of
   every operation it shows as returned are in its offset.  And a stream that
   was blocked throughout, whose dump is the one that matters, is shown with its
   own phase, the operation before as its latest and the exact offset.  (One
   that moves on meanwhile may be shown with the next phase, or as blocked in an
   operation whose bytes and return are counted.)  This takes the order of the
   loads against that of the stores, without which a stall would be blamed on
   the wrong side (streamdebug.go:12-17, 92-107, 118-140). *)
LineConsistent ==
  \A d \in Dumpers : loaded[d] = Len(Order) =>
    LET l == line[d]  s == Current(d) IN
      /\ l.start <= l.phase /\ l.start <= l.last + 1
      /\ l.last <= l.phase /\ l.last <= l.bytes
      /\ at[s] = "running" /\ l.start = ops[s] =>
           /\ l.phase = ops[s]
           /\ l.last + 1 = ops[s] /\ l.bytes + 1 = ops[s]

(* The final dump has a line for every stream that was under way when it took
   the list and has not ended since, with no fewer bytes than it had moved by
   then, whatever the loop is doing (streamdebug.go:60-68). *)
FinalDumpCovers ==
  dpc["close"] = "end" =>
    \A s \in DOMAIN taken :
      \/ probe[s].closed
      \/ \E w \in final : w[1] = s /\ w[2] >= taken[s]

(* The goroutine of the loop does not outlive a Close (streamdebug.go:70-81). *)
LoopEnds == dpc["close"] # "wait" ~> dpc["loop"] = "end"
=============================================================================

----------------------------- MODULE ResultLog -----------------------------
(***************************************************************************)
(* The JSONL file that all VUs append their results to.  It is opened when *)
(* the first result is recorded, a failure to open it being remembered for *)
(* the run; every record takes the next sample number of its cell and      *)
(* writes one line, which may fail with nothing or part of it written.     *)
(***************************************************************************)
EXTENDS Naturals, Sequences, FiniteSets, Functions

CONSTANTS
  Writers,  \* goroutines that record results
  Cells,    \* the pairs of rung and lang that samples are numbered by
  Nobody    \* no writer

VARIABLES
  logMu,    \* resultLog.mu: the writer holding it, or Nobody
  opened,   \* resultLog.opened
  hasFile,  \* resultLog.f is not nil
  samples,  \* resultLog.samples
  file,     \* the lines written, in order; a torn one has no newline
  at,       \* where each writer is: not recording, at the lock, or writing
  line,     \* the line each writer is making
  failures  \* history: writes that failed

logVars == <<logMu, opened, hasFile, samples, file, at, line, failures>>

NoLine == [cell |-> Nobody, bytes |-> 0, sample |-> 0, by |-> Nobody,
           torn |-> FALSE]

LogInit ==
  /\ logMu = Nobody /\ opened = FALSE /\ hasFile = FALSE
  /\ samples = [c \in Cells |-> 0]
  /\ file = <<>>
  /\ at = [w \in Writers |-> "out"]
  /\ line = [w \in Writers |-> NoLine]
  /\ failures = 0

(* recordTransfer or recordRequest is called. *)
Record(w, c, n) ==
  /\ at[w] = "out"
  /\ at' = [at EXCEPT ![w] = "lock"]
  /\ line' = [line EXCEPT ![w] = [NoLine EXCEPT !.cell = c, !.bytes = n, !.by = w]]
  /\ UNCHANGED <<logMu, opened, hasFile, samples, file, failures>>

AtLock(w) == at[w] = "lock" /\ logMu = Nobody

Leave(w) ==
  /\ at' = [at EXCEPT ![w] = "out"]
  /\ line' = [line EXCEPT ![w] = NoLine]

(* PERFLAB_JSONL is not set or cannot be opened: nothing is recorded ... *)
NoFile(w) ==
  /\ AtLock(w)
  /\ ~opened
  /\ opened' = TRUE
  /\ Leave(w)
  /\ UNCHANGED <<logMu, hasFile, samples, file, failures>>

(* ... from then on. *)
SkipRecord(w) ==
  /\ AtLock(w)
  /\ opened /\ ~hasFile
  /\ Leave(w)
  /\ UNCHANGED <<logMu, opened, hasFile, samples, file, failures>>

(* Mutant: the record runs without l.mu. *)
LogLockForgotten(w) == UNCHANGED logMu

LogLock(w) == logMu' = w

OpenFile ==
  /\ opened => hasFile
  /\ opened' = TRUE /\ hasFile' = TRUE

(* newLine: the sample number is taken before the line is written. *)
NewLine(w) ==
  LET c == line[w].cell IN
  /\ AtLock(w)
  /\ OpenFile
  /\ LogLock(w)
  /\ samples' = [samples EXCEPT ![c] = @ + 1]
  /\ line' = [line EXCEPT ![w].sample = samples[c] + 1]
  /\ at' = [at EXCEPT ![w] = "write"]
  /\ UNCHANGED <<file, failures>>

Torn(l) == [l EXCEPT !.torn = TRUE]

(* Mutant: the line is written without its newline. *)
NewlineForgotten(w) == file' = Append(file, Torn(line[w]))

AppendLine(w) == file' = Append(file, line[w])

WriteLine(w) ==
  /\ at[w] = "write"
  /\ AppendLine(w)
  /\ logMu' = Nobody
  /\ Leave(w)
  /\ UNCHANGED <<opened, hasFile, samples, failures>>

(* A failed write, of which some part may be in the file, is only reported. *)
LineFails(w) ==
  /\ at[w] = "write"
  /\ file' \in {file, Append(file, Torn(line[w]))}
  /\ failures' = failures + 1
  /\ logMu' = Nobody
  /\ Leave(w)
  /\ UNCHANGED <<opened, hasFile, samples>>

LogStep(w) ==
  \/ NoFile(w) \/ SkipRecord(w) \/ NewLine(w) \/ WriteLine(w) \/ LineFails(w)

-----------------------------------------------------------------------------
(* The reader of the file splits it at newlines, so that a line appended to a
   torn one is lost with it. *)
Readable(i) == ~file[i].torn /\ (i > 1 => ~file[i - 1].torn)

(* Sample numbers of a cell grow along the file without repeating, whoever
   recorded them, and the last one given out exceeds the lines of the cell by
   at most the writes that failed: a gap is a failed write, never a result
   numbered twice (results.go:266-269). *)
SamplesInOrder ==
  /\ \A i, j \in DOMAIN file :
       i < j /\ file[i].cell = file[j].cell => file[i].sample < file[j].sample
  /\ \A c \in Cells :
       samples[c] <= Cardinality({i \in DOMAIN file : file[i].cell = c})
                     + failures + Cardinality({w \in Writers : at[w] = "write"})

(* A write that fails costs its own line and at most the one that is appended
   to what it left, in the file that lives for the whole run
   (results.go:272-281). *)
TornLinesBounded ==
  Cardinality({i \in DOMAIN file : ~Readable(i)}) <= 2 * failures
=============================================================================

--------------------------- MODULE RequestsProofs ---------------------------
(***************************************************************************)
(* Proofs about Requests and the ResultLog it records in, for any number   *)
(* of writers, requests and connections, any payload and any cut of the    *)
(* reads: what the lines of the result log say, and who announces the end  *)
(* of a connection.                                                        *)
(***************************************************************************)
EXTENDS Requests, FiniteSetTheorems, TLAPS

-----------------------------------------------------------------------------
(* The inductive invariant: the result log *)

Lines == [cell : Cells \cup {Nobody}, bytes : Nat, sample : Nat,
          by : Writers \cup {Nobody}, torn : BOOLEAN]

LogTypeOK ==
  /\ logMu \in Writers \cup {Nobody}
  /\ opened \in BOOLEAN /\ hasFile \in BOOLEAN
  /\ samples \in [Cells -> Nat]
  /\ file \in Seq(Lines)
  /\ at \in [Writers -> {"out", "lock", "write"}]
  /\ line \in [Writers -> Lines]
  /\ failures \in Nat

(* A line is written by the one writer that holds l.mu, and carries the last
   sample number of its cell, which no line of the file has. *)
WriterInv ==
  \A w \in Writers :
    /\ at[w] # "out" =>
         line[w].cell \in Cells /\ line[w].by = w /\ ~line[w].torn
    /\ at[w] = "write" =>
         /\ logMu = w
         /\ line[w].sample = samples[line[w].cell]
         /\ \A i \in DOMAIN file : file[i].cell = line[w].cell =>
              file[i].sample < line[w].sample

(* Sample numbers grow along the file, none beyond the last given out. *)
FileInv ==
  /\ \A i \in DOMAIN file : file[i].cell \in Cells
                            /\ file[i].sample <= samples[file[i].cell]
  /\ \A i, j \in DOMAIN file :
       i < j /\ file[i].cell = file[j].cell => file[i].sample < file[j].sample

LinesOf(c) == {i \in DOMAIN file : file[i].cell = c}

Writing(c) == \E w \in Writers : at[w] = "write" /\ line[w].cell = c

TornLines == {i \in DOMAIN file : file[i].torn}

(* The sample numbers given out are in the file, in a line that is being
   written, or were lost to a write that failed; so are the torn lines. *)
CountInv ==
  /\ \A c \in Cells :
       samples[c] <= Cardinality(LinesOf(c)) + failures
                     + (IF Writing(c) THEN 1 ELSE 0)
  /\ Cardinality(TornLines) <= failures

LogInv == LogTypeOK /\ WriterInv /\ FileInv /\ CountInv

-----------------------------------------------------------------------------
(* The inductive invariant: requests and connections *)

RequestTypeOK ==
  /\ impl \in {"go", "ffi"}
  /\ pc \in {"idle", "open", "write", "close", "drain", "record"}
  /\ sent \in Nat /\ received \in Nat /\ echoed \in Nat /\ buf \in Nat
  /\ on \in Nat /\ cur \in Nat /\ closing \in Nat /\ dials \in 0..MaxConns
  /\ closes \in [ConnIds -> Nat]

(* The bytes of the stream: taken from the payload, echoed, handed on by the
   bindings, and read. *)
BytesInv ==
  /\ pc \in {"close", "drain", "record"} => sent \in Taken
  /\ pc \in {"idle", "open", "write"} => received = 0 /\ echoed = 0 /\ buf = 0
  /\ received + buf <= echoed
  /\ pc \in {"close", "drain", "record"} => echoed <= sent
  /\ pc = "record" => received = sent /\ echoed = sent /\ buf = 0

(* The VU is at the log only between the end of its stream and its return. *)
RecordInv ==
  /\ pc # "record" => at[VU] = "out"
  /\ at[VU] # "out" => line[VU].bytes = sent
  /\ \A i \in DOMAIN file : file[i].by = VU => file[i].bytes \in Taken

(* Who is to announce the end of a connection is there until it is done, and
   nobody announces what has not ended. *)
EndInv ==
  /\ \A k \in ConnIds :
       /\ closes[k] <= 1
       /\ Done(k) => k \in dead
       /\ impl = "ffi" /\ k <= dials => k \in parked \/ Done(k)
       /\ impl = "go" /\ k \in dead => Done(k)
  /\ closing # 0 => closing \in dead
  /\ cur <= dials

Inv == LogInv /\ RequestTypeOK /\ BytesInv /\ RecordInv /\ EndInv

-----------------------------------------------------------------------------
(* The result log *)

LogNext ==
  \/ \E w \in Writers, c \in Cells, n \in Nat : Record(w, c, n)
  \/ \E w \in Writers : LogStep(w)
  \/ UNCHANGED logVars

LEMMA FileDomain ==
  ASSUME LogTypeOK
  PROVE  /\ IsFiniteSet(DOMAIN file)
         /\ \A i \in DOMAIN file : i \in Nat /\ file[i] \in Lines
<1>1. DOMAIN file = 1..Len(file) /\ Len(file) \in Nat
  BY DEF LogTypeOK
<1>2. IsFiniteSet(1..Len(file))
  BY <1>1, FS_Interval
<1>3. \A i \in DOMAIN file : i \in Nat /\ file[i] \in Lines
  BY <1>1 DEF LogTypeOK
<1> QED
  BY <1>1, <1>2, <1>3

LEMMA Appended ==
  ASSUME LogTypeOK, NEW l \in Lines, file' = Append(file, l)
  PROVE  /\ file' \in Seq(Lines)
         /\ \E n \in Nat :
              /\ n \notin DOMAIN file /\ DOMAIN file' = DOMAIN file \cup {n}
              /\ \A i \in DOMAIN file : i < n /\ file'[i] = file[i]
              /\ file'[n] = l
<1> DEFINE n == Len(file) + 1
<1>1. DOMAIN file = 1..Len(file) /\ Len(file) \in Nat /\ n \in Nat
  BY DEF LogTypeOK
<1>2. /\ file' \in Seq(Lines) /\ Len(file') = n
      /\ \A i \in 1..Len(file) : file'[i] = file[i]
      /\ file'[n] = l
  BY DEF LogTypeOK
<1>3. DOMAIN file' = 1..n
  BY <1>2
<1>4. 1..n = (1..Len(file)) \cup {n} /\ n \notin 1..Len(file)
      /\ \A i \in 1..Len(file) : i < n
  BY <1>1
<1> HIDE DEF n
<1> QED
  BY <1>1, <1>2, <1>3, <1>4

(* A line joins those of its cell, and the torn ones if it is. *)
LEMMA AppendedSets ==
  ASSUME LogTypeOK, NEW l \in Lines, file' = Append(file, l)
  PROVE  /\ \A c : /\ IsFiniteSet(LinesOf(c)) /\ IsFiniteSet(LinesOf(c)')
                   /\ Cardinality(LinesOf(c)) \in Nat
                   /\ Cardinality(LinesOf(c)') =
                        Cardinality(LinesOf(c)) + (IF l.cell = c THEN 1 ELSE 0)
         /\ Cardinality(TornLines) \in Nat
         /\ Cardinality(TornLines') =
              Cardinality(TornLines) + (IF l.torn THEN 1 ELSE 0)
<1>1. PICK n \in Nat :
        /\ n \notin DOMAIN file /\ DOMAIN file' = DOMAIN file \cup {n}
        /\ \A i \in DOMAIN file : i < n /\ file'[i] = file[i]
        /\ file'[n] = l
  BY Appended
<1>2. IsFiniteSet(DOMAIN file)
  BY FileDomain
<1>3. ASSUME NEW c
      PROVE  /\ IsFiniteSet(LinesOf(c)) /\ IsFiniteSet(LinesOf(c)')
             /\ Cardinality(LinesOf(c)) \in Nat
             /\ Cardinality(LinesOf(c)') =
                  Cardinality(LinesOf(c)) + (IF l.cell = c THEN 1 ELSE 0)
  <2>1. IsFiniteSet(LinesOf(c)) /\ n \notin LinesOf(c)
    BY <1>1, <1>2, FS_Subset DEF LinesOf
  <2>2. LinesOf(c)' = IF l.cell = c THEN LinesOf(c) \cup {n} ELSE LinesOf(c)
    BY <1>1 DEF LinesOf
  <2>3. /\ IsFiniteSet(LinesOf(c) \cup {n}) /\ Cardinality(LinesOf(c)) \in Nat
        /\ Cardinality(LinesOf(c) \cup {n}) = Cardinality(LinesOf(c)) + 1
    BY <2>1, FS_AddElement, FS_CardinalityType
  <2> QED
    BY <2>1, <2>2, <2>3
<1>4. /\ Cardinality(TornLines) \in Nat
      /\ Cardinality(TornLines') =
           Cardinality(TornLines) + (IF l.torn THEN 1 ELSE 0)
  <2>1. IsFiniteSet(TornLines) /\ n \notin TornLines
    BY <1>1, <1>2, FS_Subset DEF TornLines
  <2>2. TornLines' = IF l.torn THEN TornLines \cup {n} ELSE TornLines
    BY <1>1 DEF TornLines
  <2>3. /\ Cardinality(TornLines) \in Nat
        /\ Cardinality(TornLines \cup {n}) = Cardinality(TornLines) + 1
    BY <2>1, FS_AddElement, FS_CardinalityType
  <2> QED
    BY <2>2, <2>3
<1> QED
  BY <1>3, <1>4

LEMMA TornIs ==
  ASSUME NEW l \in Lines
  PROVE  /\ Torn(l) \in Lines /\ Torn(l).torn /\ Torn(l).cell = l.cell
         /\ Torn(l).sample = l.sample /\ Torn(l).by = l.by
         /\ Torn(l).bytes = l.bytes
BY DEF Torn, Lines

LEMMA NoLineType == NoLine \in Lines
BY DEF NoLine, Lines

LEMMA LogTypeStep ==
  ASSUME LogTypeOK, WriterInv, LogNext
  PROVE  LogTypeOK'
<1> USE DEF LogTypeOK
<1>1. ASSUME NEW w \in Writers, NEW c \in Cells, NEW n \in Nat, Record(w, c, n)
      PROVE  LogTypeOK'
  <2>1. [NoLine EXCEPT !.cell = c, !.bytes = n, !.by = w] \in Lines
    BY DEF NoLine, Lines
  <2> QED
    BY <1>1, <2>1 DEF Record
<1>2. ASSUME NEW w \in Writers, LogStep(w)
      PROVE  LogTypeOK'
  <2>1. CASE NoFile(w) \/ SkipRecord(w)
    BY <2>1, NoLineType DEF NoFile, SkipRecord, Leave
  <2>2. CASE NewLine(w)
    <3>1. line[w].cell \in Cells
      BY <2>2 DEF NewLine, AtLock, WriterInv
    <3>2. samples[line[w].cell] + 1 \in Nat /\ samples' \in [Cells -> Nat]
      BY <2>2, <3>1 DEF NewLine
    <3>3. line' \in [Writers -> Lines]
      <4> DEFINE new == [line[w] EXCEPT !.sample = samples[line[w].cell] + 1]
      <4>1. line' = [line EXCEPT ![w] = new]
        BY <2>2 DEF NewLine
      <4>2. new \in Lines
        BY <3>2 DEF Lines
      <4> HIDE DEF new
      <4> QED
        BY <4>1, <4>2
    <3> QED
      BY <2>2, <3>2, <3>3 DEF NewLine, OpenFile, LogLock
  <2>3. CASE WriteLine(w)
    <3>1. file' \in Seq(Lines)
      BY <2>3 DEF WriteLine, AppendLine
    <3> QED
      BY <2>3, <3>1, NoLineType DEF WriteLine, Leave
  <2>4. CASE LineFails(w)
    <3>1. file' \in Seq(Lines)
      <4>1. Torn(line[w]) \in Lines
        BY TornIs
      <4> QED
        BY <2>4, <4>1 DEF LineFails
    <3> QED
      BY <2>4, <3>1, NoLineType DEF LineFails, Leave
  <2> QED
    BY <1>2, <2>1, <2>2, <2>3, <2>4 DEF LogStep
<1>3. CASE UNCHANGED logVars
  BY <1>3 DEF logVars
<1> QED
  BY <1>1, <1>2, <1>3 DEF LogNext

(* The line of a writer that has l.mu is the only one being written. *)
LEMMA OneWrites ==
  ASSUME WriterInv, NEW w \in Writers, AtLock(w) \/ at[w] = "write"
  PROVE  \A u \in Writers \ {w} : at[u] # "write"
BY RequestsAssumption DEF WriterInv, AtLock

LEMMA WriterStep ==
  ASSUME LogTypeOK, WriterInv, FileInv, LogNext
  PROVE  WriterInv'
<1>1. ASSUME NEW w \in Writers, NEW c \in Cells, NEW n \in Nat, Record(w, c, n)
      PROVE  WriterInv'
  <2>1. /\ at'[w] = "lock" /\ line'[w].cell = c /\ line'[w].by = w
        /\ ~line'[w].torn
    BY <1>1 DEF Record, LogTypeOK, NoLine
  <2>2. \A u \in Writers \ {w} : at'[u] = at[u] /\ line'[u] = line[u]
    BY <1>1 DEF Record, LogTypeOK
  <2> QED
    BY <1>1, <2>1, <2>2 DEF Record, WriterInv
<1>2. ASSUME NEW w \in Writers, LogStep(w)
      PROVE  WriterInv'
  <2>1. CASE NoFile(w) \/ SkipRecord(w)
    <3>1. /\ at'[w] = "out"
          /\ \A u \in Writers \ {w} : at'[u] = at[u] /\ line'[u] = line[u]
          /\ UNCHANGED <<logMu, samples, file>>
      BY <2>1 DEF NoFile, SkipRecord, Leave, LogTypeOK
    <3> QED
      BY <3>1 DEF WriterInv
  <2>2. CASE NewLine(w)
    <3> DEFINE c == line[w].cell
    <3>1. /\ c \in Cells /\ line[w].by = w /\ ~line[w].torn
          /\ AtLock(w) /\ \A u \in Writers \ {w} : at[u] # "write"
      BY <2>2, OneWrites DEF NewLine, AtLock, WriterInv
    <3>2. /\ at'[w] = "write" /\ logMu' = w /\ file' = file
          /\ samples'[c] = samples[c] + 1
          /\ line'[w].sample = samples[c] + 1
          /\ line'[w].cell = c /\ line'[w].by = w /\ ~line'[w].torn
          /\ \A u \in Writers \ {w} : at'[u] = at[u] /\ line'[u] = line[u]
      BY <2>2, <3>1 DEF NewLine, LogLock, LogTypeOK, Lines
    <3>3. \A i \in DOMAIN file : file[i].cell = c => file[i].sample < samples[c] + 1
      <4>1. \A i \in DOMAIN file : file[i].sample \in Nat
        BY FileDomain DEF Lines
      <4>2. samples[c] \in Nat
        BY <3>1 DEF LogTypeOK
      <4> QED
        BY <4>1, <4>2 DEF FileInv
    <3> HIDE DEF c
    <3> QED
      BY <3>1, <3>2, <3>3 DEF WriterInv
  <2>3. CASE WriteLine(w) \/ LineFails(w)
    <3>1. at[w] = "write" /\ \A u \in Writers \ {w} : at[u] # "write"
      BY <2>3, OneWrites DEF WriteLine, LineFails
    <3>2. /\ at'[w] = "out"
          /\ \A u \in Writers \ {w} : at'[u] = at[u] /\ line'[u] = line[u]
      BY <2>3 DEF WriteLine, LineFails, Leave, LogTypeOK
    <3> QED
      BY <3>1, <3>2 DEF WriterInv
  <2> QED
    BY <1>2, <2>1, <2>2, <2>3 DEF LogStep
<1>3. CASE UNCHANGED logVars
  BY <1>3 DEF logVars, WriterInv
<1> QED
  BY <1>1, <1>2, <1>3 DEF LogNext

(* The line a writer appends, torn or not, carries the highest sample number
   of its cell. *)
LEMMA FileInvAppend ==
  ASSUME LogTypeOK, WriterInv, FileInv, NEW w \in Writers, at[w] = "write",
         NEW l \in Lines, l.cell = line[w].cell, l.sample = line[w].sample,
         file' = Append(file, l), samples' = samples
  PROVE  FileInv'
<1>1. PICK n \in Nat :
        /\ n \notin DOMAIN file /\ DOMAIN file' = DOMAIN file \cup {n}
        /\ \A i \in DOMAIN file : i < n /\ file'[i] = file[i]
        /\ file'[n] = l
  BY Appended
<1>2. \A i \in DOMAIN file : i \in Nat
  BY FileDomain
<1>3. /\ l.cell \in Cells /\ l.sample = samples[l.cell]
      /\ samples[l.cell] \in Nat
      /\ \A i \in DOMAIN file : file[i].cell = l.cell => file[i].sample < l.sample
  BY DEF WriterInv, LogTypeOK
<1>4. ASSUME NEW i \in DOMAIN file'
      PROVE  file'[i].cell \in Cells /\ file'[i].sample <= samples'[file'[i].cell]
  <2>1. CASE i = n
    BY <2>1, <1>1, <1>3
  <2>2. CASE i \in DOMAIN file
    BY <2>2, <1>1 DEF FileInv
  <2> QED
    BY <1>1, <2>1, <2>2
<1>5. ASSUME NEW i \in DOMAIN file', NEW j \in DOMAIN file',
             i < j, file'[i].cell = file'[j].cell
      PROVE  file'[i].sample < file'[j].sample
  <2>1. i \in DOMAIN file
    BY <1>1, <1>2, <1>5
  <2>2. CASE j = n
    BY <2>1, <2>2, <1>1, <1>3, <1>5
  <2>3. CASE j \in DOMAIN file
    BY <2>1, <2>3, <1>1, <1>5 DEF FileInv
  <2> QED
    BY <1>1, <2>2, <2>3
<1> QED
  BY <1>4, <1>5 DEF FileInv

LEMMA FileStep ==
  ASSUME LogTypeOK, WriterInv, FileInv, LogNext
  PROVE  FileInv'
<1>1. ASSUME NEW w \in Writers, NEW c \in Cells, NEW n \in Nat, Record(w, c, n)
      PROVE  FileInv'
  BY <1>1 DEF Record, FileInv
<1>2. ASSUME NEW w \in Writers, LogStep(w)
      PROVE  FileInv'
  <2>1. CASE NoFile(w) \/ SkipRecord(w)
    BY <2>1 DEF NoFile, SkipRecord, FileInv
  <2>2. CASE NewLine(w)
    <3>1. file' = file /\ \A c \in Cells : samples[c] <= samples'[c]
                                        /\ samples'[c] \in Nat /\ samples[c] \in Nat
      BY <2>2 DEF NewLine, LogTypeOK
    <3>2. \A i \in DOMAIN file : file[i].sample \in Nat
      BY FileDomain DEF Lines
    <3>3. \A i \in DOMAIN file : file[i].cell \in Cells
                                /\ file[i].sample <= samples'[file[i].cell]
      BY <3>1, <3>2 DEF FileInv
    <3> QED
      BY <3>1, <3>3 DEF FileInv
  <2>3. CASE WriteLine(w)
    <3>1. line[w] \in Lines
      BY DEF LogTypeOK
    <3> QED
      BY <2>3, <3>1, FileInvAppend DEF WriteLine, AppendLine
  <2>4. CASE LineFails(w)
    <3>1. line[w] \in Lines
      BY DEF LogTypeOK
    <3>2. CASE file' = file
      BY <2>4, <3>2 DEF LineFails, FileInv
    <3>3. CASE file' = Append(file, Torn(line[w]))
      BY <2>4, <3>1, <3>3, TornIs, FileInvAppend DEF LineFails
    <3> QED
      BY <2>4, <3>2, <3>3 DEF LineFails
  <2> QED
    BY <1>2, <2>1, <2>2, <2>3, <2>4 DEF LogStep
<1>3. CASE UNCHANGED logVars
  BY <1>3 DEF logVars, FileInv
<1> QED
  BY <1>1, <1>2, <1>3 DEF LogNext

LEMMA CountStep ==
  ASSUME LogTypeOK, WriterInv, CountInv, LogNext
  PROVE  CountInv'
<1>1. /\ failures \in Nat /\ Cardinality(TornLines) \in Nat
      /\ \A c \in Cells : samples[c] \in Nat /\ Cardinality(LinesOf(c)) \in Nat
  BY FileDomain, FS_Subset, FS_CardinalityType DEF LogTypeOK, LinesOf, TornLines
<1>2. ASSUME NEW w \in Writers, at[w] # "write", at'[w] # "write",
             \A u \in Writers \ {w} : at'[u] = at[u] /\ line'[u] = line[u],
             UNCHANGED <<samples, file, failures>>
      PROVE  CountInv'
  <2>1. \A c \in Cells : Writing(c)' <=> Writing(c)
    BY <1>2 DEF Writing
  <2> QED
    BY <2>1, <1>2 DEF CountInv, LinesOf, TornLines
<1>3. ASSUME NEW w \in Writers, NEW c \in Cells, NEW n \in Nat, Record(w, c, n)
      PROVE  CountInv'
  BY <1>2, <1>3 DEF Record, LogTypeOK
<1>4. ASSUME NEW w \in Writers, NoFile(w) \/ SkipRecord(w)
      PROVE  CountInv'
  BY <1>2, <1>4 DEF NoFile, SkipRecord, AtLock, Leave, LogTypeOK
<1>5. ASSUME NEW w \in Writers, NewLine(w)
      PROVE  CountInv'
  <2> DEFINE d == line[w].cell
  <2>1. d \in Cells /\ at[w] # "write" /\ \A u \in Writers \ {w} : at[u] # "write"
    BY <1>5, OneWrites DEF NewLine, AtLock, WriterInv
  <2>2. /\ at'[w] = "write" /\ line'[w].cell = d
        /\ \A u \in Writers \ {w} : at'[u] = at[u] /\ line'[u] = line[u]
        /\ UNCHANGED <<file, failures>>
    BY <1>5 DEF NewLine, LogTypeOK, Lines
  <2>3. \A c \in Cells :
          samples'[c] = IF c = d THEN samples[c] + 1 ELSE samples[c]
    BY <1>5 DEF NewLine, LogTypeOK
  <2> HIDE DEF d
  <2>4. \A c \in Cells : ~Writing(c) /\ (Writing(c)' <=> c = d)
    BY <2>1, <2>2 DEF Writing
  <2>5. \A c \in Cells : Cardinality(LinesOf(c))' = Cardinality(LinesOf(c))
    BY <2>2 DEF LinesOf
  <2>6. Cardinality(TornLines)' <= failures'
    BY <2>2 DEF CountInv, TornLines
  <2>7. \A c \in Cells : samples'[c] <= Cardinality(LinesOf(c))' + failures'
                                        + (IF Writing(c)' THEN 1 ELSE 0)
    BY <1>1, <2>2, <2>3, <2>4, <2>5 DEF CountInv
  <2> QED
    BY <2>6, <2>7 DEF CountInv
<1>6. ASSUME NEW w \in Writers, WriteLine(w) \/ LineFails(w)
      PROVE  CountInv'
  <2> DEFINE d == line[w].cell
  <2>1. /\ d \in Cells /\ at[w] = "write" /\ line[w] \in Lines /\ ~line[w].torn
        /\ \A u \in Writers \ {w} : at[u] # "write"
    BY <1>6, OneWrites DEF WriteLine, LineFails, WriterInv, LogTypeOK
  <2>2. /\ at'[w] = "out" /\ samples' = samples
        /\ \A u \in Writers \ {w} : at'[u] = at[u]
    BY <1>6 DEF WriteLine, LineFails, Leave, LogTypeOK
  <2> HIDE DEF d
  <2>3. \A c \in Cells : ~Writing(c)' /\ (Writing(c) => c = d)
    BY <2>1, <2>2 DEF Writing, d
  <2>4. \A c \in Cells : samples[c] <= Cardinality(LinesOf(c)) + failures
                                       + (IF c = d THEN 1 ELSE 0)
    BY <1>1, <2>3 DEF CountInv
  <2>5. CASE WriteLine(w)
    <3>1. file' = Append(file, line[w]) /\ failures' = failures
      BY <2>5 DEF WriteLine, AppendLine
    <3>2. \A c \in Cells : Cardinality(LinesOf(c)') =
                             Cardinality(LinesOf(c)) + (IF c = d THEN 1 ELSE 0)
      BY <2>1, <3>1, AppendedSets DEF d
    <3>3. Cardinality(TornLines') = Cardinality(TornLines)
      BY <1>1, <2>1, <3>1, AppendedSets
    <3>4. \A c \in Cells : samples'[c] <= Cardinality(LinesOf(c)') + failures'
      BY <1>1, <2>2, <2>4, <3>1, <3>2
    <3> QED
      BY <1>1, <2>3, <3>1, <3>2, <3>3, <3>4 DEF CountInv
  <2>6. CASE LineFails(w)
    <3>1. failures' = failures + 1
          /\ (file' = file \/ file' = Append(file, Torn(line[w])))
      BY <2>6 DEF LineFails
    <3>2. /\ \A c \in Cells : /\ Cardinality(LinesOf(c)') \in Nat
                              /\ Cardinality(LinesOf(c)) <= Cardinality(LinesOf(c)')
          /\ Cardinality(TornLines') \in Nat
          /\ Cardinality(TornLines') <= Cardinality(TornLines) + 1
      <4>1. CASE file' = file
        <5>1. TornLines' = TornLines /\ \A c \in Cells : LinesOf(c)' = LinesOf(c)
          BY <4>1 DEF LinesOf, TornLines
        <5> QED
          BY <1>1, <5>1
      <4>2. CASE file' = Append(file, Torn(line[w]))
        BY <1>1, <2>1, <4>2, TornIs, AppendedSets
      <4> QED
        BY <3>1, <4>1, <4>2
    <3>3. \A c \in Cells : samples'[c] <= Cardinality(LinesOf(c)') + failures'
      BY <1>1, <2>2, <2>4, <3>1, <3>2
    <3>4. Cardinality(TornLines') <= failures'
      BY <1>1, <3>1, <3>2 DEF CountInv
    <3> QED
      BY <1>1, <2>3, <3>1, <3>2, <3>3, <3>4 DEF CountInv
  <2> QED
    BY <1>6, <2>5, <2>6
<1>7. CASE UNCHANGED logVars
  <2>1. \A c \in Cells : Writing(c)' <=> Writing(c)
    BY <1>7 DEF Writing, logVars
  <2> QED
    BY <1>7, <2>1 DEF CountInv, LinesOf, TornLines, logVars
<1> QED
  BY <1>3, <1>4, <1>5, <1>6, <1>7 DEF LogNext, LogStep

(* Of two writers only one is writing. *)
LEMMA SamplesInOrderHolds ==
  ASSUME LogInv
  PROVE  SamplesInOrder
<1> DEFINE W == {w \in Writers : at[w] = "write"}
<1>1. W \subseteq {logMu}
  BY DEF LogInv, WriterInv
<1>2. IsFiniteSet(W) /\ Cardinality(W) \in Nat
  BY <1>1, FS_Singleton, FS_Subset, FS_CardinalityType
<1>3. W # {} => Cardinality(W) >= 1
  BY <1>2, FS_EmptySet
<1>4. ASSUME NEW c \in Cells
      PROVE  samples[c] <= Cardinality(LinesOf(c)) + failures + Cardinality(W)
  <2>1. /\ failures \in Nat /\ samples[c] \in Nat /\ Cardinality(LinesOf(c)) \in Nat
    BY FileDomain, FS_Subset, FS_CardinalityType DEF LogInv, LogTypeOK, LinesOf
  <2>2. samples[c] <= Cardinality(LinesOf(c)) + failures
                      + (IF Writing(c) THEN 1 ELSE 0)
    BY DEF LogInv, CountInv
  <2>3. Writing(c) => W # {}
    BY DEF Writing
  <2> HIDE DEF W
  <2> QED
    BY <1>2, <1>3, <2>1, <2>2, <2>3
<1> QED
  BY <1>4 DEF SamplesInOrder, LogInv, FileInv, LinesOf

(* Which lines are lost: the torn ones and those that follow one. *)
LEMMA TornLinesBoundedHolds ==
  ASSUME LogInv
  PROVE  TornLinesBounded
<1> DEFINE After == {i \in DOMAIN file : i > 1 /\ file[i - 1].torn}
           Lost == {i \in DOMAIN file : ~Readable(i)}
           Before == [i \in After |-> i - 1]
<1>1. /\ DOMAIN file = 1..Len(file) /\ Len(file) \in Nat
      /\ IsFiniteSet(DOMAIN file)
  BY FileDomain DEF LogInv, LogTypeOK
<1>2. IsFiniteSet(TornLines)
  BY <1>1, FS_Subset DEF TornLines
<1>3. Before \in Injection(After, TornLines)
  <2>1. \A i \in After : i - 1 \in TornLines
    BY <1>1 DEF TornLines
  <2>2. \A i, j \in After : i - 1 = j - 1 => i = j
    BY <1>1
  <2> QED
    BY <2>1, <2>2 DEF Injection, IsInjective
<1>4. IsFiniteSet(After) /\ Cardinality(After) <= Cardinality(TornLines)
  BY <1>2, <1>3, FS_Injection
<1>5. Lost \subseteq TornLines \cup After
  BY DEF Readable, TornLines
<1> HIDE DEF After, Lost
<1>6. /\ IsFiniteSet(TornLines \cup After)
      /\ Cardinality(TornLines \cup After) =
           Cardinality(TornLines) + Cardinality(After)
           - Cardinality(TornLines \cap After)
  BY <1>2, <1>4, FS_Union
<1>7. IsFiniteSet(Lost) /\ Cardinality(Lost) <= Cardinality(TornLines \cup After)
  BY <1>5, <1>6, FS_Subset
<1>8. IsFiniteSet(TornLines \cap After)
  BY <1>2, FS_Subset
<1>9. /\ Cardinality(TornLines) \in Nat /\ Cardinality(After) \in Nat
      /\ Cardinality(TornLines \cap After) \in Nat /\ Cardinality(Lost) \in Nat
  BY <1>2, <1>4, <1>7, <1>8, FS_CardinalityType
<1>10. failures \in Nat /\ Cardinality(TornLines) <= failures
  BY DEF LogInv, LogTypeOK, CountInv
<1>11. Cardinality(Lost) <= 2 * failures
  BY <1>4, <1>6, <1>7, <1>9, <1>10
<1> QED
  BY <1>11 DEF TornLinesBounded, Lost

LEMMA LogInvInit ==
  ASSUME LogInit
  PROVE  LogInv
<1>1. DOMAIN file = {} /\ file \in Seq(Lines)
  BY DEF LogInit
<1>2. LogTypeOK
  BY <1>1, NoLineType DEF LogInit, LogTypeOK
<1>3. WriterInv /\ FileInv
  BY <1>1 DEF LogInit, WriterInv, FileInv
<1>4. CountInv
  <2>1. TornLines = {} /\ \A c \in Cells : LinesOf(c) = {} /\ samples[c] = 0
    BY <1>1 DEF TornLines, LinesOf, LogInit
  <2>2. failures = 0
    BY DEF LogInit
  <2> QED
    BY <2>1, <2>2, FS_EmptySet DEF CountInv
<1> QED
  BY <1>2, <1>3, <1>4 DEF LogInv

LEMMA LogInvStep == LogInv /\ LogNext => LogInv'
BY LogTypeStep, WriterStep, FileStep, CountStep DEF LogInv

-----------------------------------------------------------------------------
(* Requests and connections *)

(* Whatever a request or a connection does, the log takes one of its steps. *)
LEMMA StepsOfTheLog ==
  ASSUME RequestTypeOK, Next
  PROVE  LogNext
<1>1. CASE ReadEnd
  <2>1. Record(VU, "request", sent)
    BY <1>1 DEF ReadEnd
  <2>2. VU \in Writers /\ "request" \in Cells /\ sent \in Nat
    BY RequestsAssumption DEF RequestTypeOK
  <2> QED
    BY <2>1, <2>2 DEF LogNext
<1>2. CASE \E w \in Writers \ {VU}, c \in Cells : OtherRecords(w, c)
  BY <1>2, RequestsAssumption DEF OtherRecords, LogNext
<1>3. CASE \E w \in Writers : Log(w)
  BY <1>3 DEF Log, LogNext
<1>4. CASE \/ Reuse \/ Dial \/ DialFails \/ Open \/ Write \/ Expire
           \/ ClientCloses \/ CloserCloses \/ PeerEchoes \/ PeerResets
           \/ \E k \in ConnIds : ConnDies(k) \/ ConnHangs(k) \/ WaiterCloses(k)
  <2>1. UNCHANGED logVars
    BY <1>4 DEF Reuse, Dial, DialFails, Begin, Open, Write, Expire, ClientCloses,
                CloserCloses, PeerEchoes, PeerResets, ConnDies, ConnHangs,
                WaiterCloses
  <2> QED
    BY <2>1 DEF LogNext
<1>5. CASE RequestGoesOn
  <2>1. UNCHANGED logVars
    BY <1>5 DEF RequestGoesOn, OpenFails, WriteFails, CloseWrite, CloseFails,
                Read, ReadBuffered, ReadFails, Recorded
  <2> QED
    BY <2>1 DEF LogNext
<1> QED
  BY <1>1, <1>2, <1>3, <1>4, <1>5 DEF Next

LEMMA LeastIs ==
  ASSUME NEW m \in Nat, NEW n \in Nat
  PROVE  Least(m, n) \in Nat /\ Least(m, n) <= m /\ Least(m, n) <= n
BY DEF Least

LEMMA TakenIs == \A n \in Taken : n \in Nat
BY RequestsAssumption DEF Taken

LEMMA SameImpl ==
  ASSUME Next
  PROVE  impl' = impl /\ Taken' = Taken
<1>1. impl' = impl
  <2>1. CASE \/ Reuse \/ Dial \/ DialFails \/ Open \/ Write \/ Expire
             \/ ReadEnd
    BY <2>1 DEF Reuse, Dial, DialFails, Begin, Open, Write, Expire, ReadEnd,
                restVars
  <2>2. CASE RequestGoesOn
    BY <2>2 DEF RequestGoesOn, OpenFails, WriteFails, CloseWrite, CloseFails,
                Read, ReadBuffered, ReadFails, Recorded, restVars
  <2>3. CASE \/ ClientCloses \/ CloserCloses \/ PeerEchoes \/ PeerResets
             \/ \E k \in ConnIds : ConnDies(k) \/ ConnHangs(k) \/ WaiterCloses(k)
             \/ \E w \in Writers \ {VU}, c \in Cells : OtherRecords(w, c)
             \/ \E w \in Writers : Log(w)
    BY <2>3 DEF ClientCloses, CloserCloses, PeerEchoes, PeerResets, ConnDies,
                ConnHangs, WaiterCloses, OtherRecords, Log, restVars
  <2> QED
    BY <2>1, <2>2, <2>3 DEF Next
<1> QED
  BY <1>1 DEF Taken

(* What a Read hands on, of what has arrived or is in the buffer. *)
LEMMA ReadAmounts ==
  ASSUME RequestTypeOK, BytesInv, Read \/ ReadBuffered
  PROVE  /\ received' \in Nat /\ buf' \in Nat
         /\ received' + buf' <= echoed
<1>1. CASE Read
  <2>1. PICK n \in 1..Least(Arrived, IF impl = "go" THEN CopyBuf ELSE ReadLimit) :
          /\ received' = received + Least(n, CopyBuf)
          /\ buf' = n - Least(n, CopyBuf)
    BY <1>1 DEF Read
  <2>2. Arrived \in Nat /\ Arrived = echoed - received /\ buf = 0
    BY <1>1 DEF Arrived, RequestTypeOK, BytesInv, Read
  <2>3. n \in Nat /\ n <= Arrived
    <3> DEFINE most == IF impl = "go" THEN CopyBuf ELSE ReadLimit
    <3>1. most \in Nat
      BY RequestsAssumption
    <3> HIDE DEF most
    <3>2. Least(Arrived, most) \in Nat /\ Least(Arrived, most) <= Arrived
      BY <2>2, <3>1, LeastIs
    <3>3. n \in 1..Least(Arrived, most)
      BY <2>1 DEF most
    <3> QED
      BY <2>2, <3>2, <3>3
  <2>4. Least(n, CopyBuf) \in Nat /\ Least(n, CopyBuf) <= n
    BY <2>3, RequestsAssumption, LeastIs
  <2> QED
    BY <2>1, <2>2, <2>3, <2>4 DEF RequestTypeOK
<1>2. CASE ReadBuffered
  <2>1. Least(buf, CopyBuf) \in Nat /\ Least(buf, CopyBuf) <= buf
    BY RequestsAssumption, LeastIs DEF RequestTypeOK
  <2> QED
    BY <1>2, <2>1 DEF ReadBuffered, RequestTypeOK, BytesInv
<1> QED
  BY <1>1, <1>2

LEMMA ClosesType ==
  ASSUME closes \in [ConnIds -> Nat], NEW k, CloseOnce(k) \/ UNCHANGED closes
  PROVE  closes' \in [ConnIds -> Nat]
BY DEF CloseOnce

LEMMA RequestTypeStep ==
  ASSUME RequestTypeOK, BytesInv, Next
  PROVE  RequestTypeOK'
<1> USE DEF RequestTypeOK
<1>1. CASE Reuse \/ Dial \/ DialFails
  BY <1>1, RequestsAssumption
  DEF Reuse, Dial, DialFails, Begin, Cached, streamVars, doneVars
<1>2. CASE Open \/ Write \/ ReadEnd \/ Expire
  BY <1>2, TakenIs DEF Open, Write, ReadEnd, Expire, Goto, callVars, streamVars,
                       doneVars, restVars
<1>3. CASE OpenFails \/ WriteFails \/ CloseWrite \/ CloseFails \/ ReadFails
           \/ Recorded
  BY <1>3 DEF OpenFails, WriteFails, CloseWrite, CloseFails, ReadFails, Recorded,
              Return, Goto, streamVars, doneVars, restVars
<1>4. CASE Read \/ ReadBuffered
  <2>1. received' \in Nat /\ buf' \in Nat
    BY <1>4, ReadAmounts
  <2> QED
    BY <1>4, <2>1 DEF Read, ReadBuffered, doneVars, restVars
<1>5. CASE \/ ClientCloses \/ CloserCloses
           \/ \E k \in ConnIds : ConnDies(k) \/ ConnHangs(k) \/ WaiterCloses(k)
  <2>1. closes' \in [ConnIds -> Nat]
    BY <1>5, ClosesType
    DEF ClientCloses, CloserCloses, ConnDies, ConnHangs, WaiterCloses, Announce, Ends
  <2> QED
    BY <1>5, <2>1 DEF ClientCloses, CloserCloses, ConnDies, ConnHangs,
                      WaiterCloses, Ends, callVars, streamVars, restVars
<1>6. CASE \/ PeerEchoes \/ PeerResets
           \/ \E w \in Writers \ {VU}, c \in Cells : OtherRecords(w, c)
           \/ \E w \in Writers : Log(w)
  BY <1>6 DEF PeerEchoes, PeerResets, OtherRecords, Log, callVars, streamVars,
              doneVars, restVars
<1> QED
  BY <1>1, <1>2, <1>3, <1>4, <1>5, <1>6 DEF Next, RequestGoesOn

LEMMA BytesStep ==
  ASSUME RequestTypeOK, BytesInv, Next
  PROVE  BytesInv'
<1>0. Taken' = Taken
  BY SameImpl
<1> USE DEF RequestTypeOK, BytesInv
<1>1. CASE Reuse \/ Dial \/ DialFails
  BY <1>0, <1>1 DEF Reuse, Dial, DialFails, Begin, streamVars
<1>2. CASE Open \/ Expire \/ CloseWrite
  BY <1>0, <1>2 DEF Open, Expire, CloseWrite, Goto, streamVars
<1>3. CASE Write
  BY <1>0, <1>3, TakenIs DEF Write, Goto, streamVars
<1>4. CASE ReadEnd
  BY <1>0, <1>4 DEF ReadEnd, EndOfStream, Arrived, Goto, streamVars
<1>5. CASE OpenFails \/ WriteFails \/ CloseFails \/ ReadFails \/ Recorded
  BY <1>0, <1>5 DEF OpenFails, WriteFails, CloseFails, ReadFails, Recorded, Return
<1>6. CASE Read \/ ReadBuffered
  <2>1. received' + buf' <= echoed
    BY <1>6, ReadAmounts
  <2> QED
    BY <1>0, <1>6, <2>1 DEF Read, ReadBuffered
<1>7. CASE PeerEchoes
  BY <1>0, <1>7 DEF PeerEchoes, InStream, callVars
<1>8. CASE \/ ClientCloses \/ CloserCloses \/ PeerResets
           \/ \E k \in ConnIds : ConnDies(k) \/ ConnHangs(k) \/ WaiterCloses(k)
           \/ \E w \in Writers \ {VU}, c \in Cells : OtherRecords(w, c)
           \/ \E w \in Writers : Log(w)
  BY <1>0, <1>8 DEF ClientCloses, CloserCloses, PeerResets, ConnDies, ConnHangs,
                    WaiterCloses, OtherRecords, Log, callVars, streamVars
<1> QED
  BY <1>1, <1>2, <1>3, <1>4, <1>5, <1>6, <1>7, <1>8 DEF Next, RequestGoesOn

(* Everyone else's records leave the VU's and its lines alone; the VU's line
   says what its request sent, from ReadEnd to the file. *)
LEMMA RecordStep ==
  ASSUME LogTypeOK, WriterInv, RequestTypeOK, BytesInv, RecordInv, Next
  PROVE  RecordInv'
<1>0. Taken' = Taken /\ VU \in Writers
  BY SameImpl, RequestsAssumption
<1>1. CASE ReadEnd
  <2>1. /\ pc' = "record" /\ sent' = sent /\ file' = file
        /\ line'[VU].bytes = sent
    BY <1>0, <1>1 DEF ReadEnd, Goto, Record, LogTypeOK, NoLine
  <2> QED
    BY <1>0, <2>1 DEF RecordInv
<1>2. ASSUME NEW w \in Writers \ {VU}, NEW c \in Cells, OtherRecords(w, c)
      PROVE  RecordInv'
  <2>1. /\ pc' = pc /\ sent' = sent /\ file' = file
        /\ at'[VU] = at[VU] /\ line'[VU] = line[VU]
    BY <1>0, <1>2 DEF OtherRecords, Record, callVars, LogTypeOK
  <2> QED
    BY <1>0, <2>1 DEF RecordInv
<1>3. ASSUME NEW w \in Writers, Log(w)
      PROVE  RecordInv'
  <2>1. pc' = pc /\ sent' = sent /\ LogStep(w)
    BY <1>3 DEF Log, callVars
  <2>2. /\ at[w] = "out" => at'[w] = "out"
        /\ at'[w] # "out" => line'[w].bytes = line[w].bytes
        /\ \A u \in Writers \ {w} : at'[u] = at[u] /\ line'[u] = line[u]
    <3>1. CASE NoFile(w) \/ SkipRecord(w) \/ WriteLine(w) \/ LineFails(w)
      BY <3>1 DEF NoFile, SkipRecord, WriteLine, LineFails, Leave, LogTypeOK
    <3>2. CASE NewLine(w)
      BY <3>2 DEF NewLine, AtLock, LogTypeOK, Lines
    <3> QED
      BY <2>1, <3>1, <3>2 DEF LogStep
  <2>3. /\ pc' # "record" => at'[VU] = "out"
        /\ at'[VU] # "out" => line'[VU].bytes = sent'
    BY <1>0, <2>1, <2>2 DEF RecordInv
  <2>4. ASSUME NEW l \in Lines, file' = Append(file, l),
               l.by = VU => l.bytes \in Taken
        PROVE  \A i \in DOMAIN file' : file'[i].by = VU => file'[i].bytes \in Taken
    <3>1. PICK n \in Nat :
            /\ n \notin DOMAIN file /\ DOMAIN file' = DOMAIN file \cup {n}
            /\ \A i \in DOMAIN file : i < n /\ file'[i] = file[i]
            /\ file'[n] = l
      BY <2>4, Appended
    <3> QED
      BY <2>4, <3>1 DEF RecordInv
  <2>5. at[w] # "out" => (line[w].by = VU => line[w].bytes \in Taken)
    <3>1. at[w] # "out" => line[w].by = w
      BY DEF WriterInv
    <3> QED
      BY <3>1 DEF RecordInv, BytesInv
  <2>6. \A i \in DOMAIN file' : file'[i].by = VU => file'[i].bytes \in Taken
    <3>1. CASE file' = file
      BY <3>1 DEF RecordInv
    <3>2. CASE file' # file
      <4>1. /\ at[w] = "write" /\ line[w] \in Lines
            /\ file' = Append(file, line[w]) \/ file' = Append(file, Torn(line[w]))
        BY <2>1, <3>2 DEF LogStep, NoFile, SkipRecord, NewLine, WriteLine,
                          AppendLine, LineFails, LogTypeOK
      <4> QED
        BY <2>4, <2>5, <4>1, TornIs
    <3> QED
      BY <3>1, <3>2
  <2> QED
    BY <1>0, <2>3, <2>6 DEF RecordInv
<1>4. CASE Recorded
  <2>1. pc' = "idle" /\ at[VU] = "out" /\ at' = at /\ line' = line /\ file' = file
    BY <1>4 DEF Recorded, Return, logVars
  <2> QED
    BY <1>0, <2>1 DEF RecordInv
<1>5. CASE \/ Reuse \/ Dial \/ DialFails \/ Open \/ Write
           \/ OpenFails \/ WriteFails \/ CloseWrite \/ CloseFails \/ ReadFails
  <2>1. /\ pc # "record" /\ at' = at /\ line' = line /\ file' = file
    BY <1>5 DEF Reuse, Dial, DialFails, Begin, Open, Write, OpenFails, WriteFails,
                CloseWrite, CloseFails, ReadFails, logVars
  <2> QED
    BY <1>0, <2>1 DEF RecordInv
<1>6. CASE \/ Expire \/ Read \/ ReadBuffered
           \/ ClientCloses \/ CloserCloses \/ PeerEchoes \/ PeerResets
           \/ \E k \in ConnIds : ConnDies(k) \/ ConnHangs(k) \/ WaiterCloses(k)
  <2>1. /\ pc' = pc /\ sent' = sent
        /\ at' = at /\ line' = line /\ file' = file
    BY <1>6 DEF Expire, Read, ReadBuffered, ClientCloses, CloserCloses, PeerEchoes,
                PeerResets, ConnDies, ConnHangs, WaiterCloses, callVars, logVars
  <2> QED
    BY <1>0, <2>1 DEF RecordInv
<1> QED
  BY <1>1, <1>2, <1>3, <1>4, <1>5, <1>6 DEF Next, RequestGoesOn

LEMMA CloseOnceIs ==
  ASSUME RequestTypeOK, NEW k, CloseOnce(k)
  PROVE  \A j \in ConnIds :
           closes'[j] = IF j = k /\ closes[j] = 0 THEN 1 ELSE closes[j]
BY DEF CloseOnce, RequestTypeOK

(* The connection k ends. *)
LEMMA EndsIs ==
  ASSUME RequestTypeOK, EndInv, NEW k, Ends(k), UNCHANGED <<impl, parked, dials>>
  PROVE  /\ k \in dead' /\ dead \subseteq dead'
         /\ \A j \in ConnIds :
              /\ closes'[j] <= 1
              /\ Done(j)' => j \in dead'
              /\ impl' = "ffi" /\ j <= dials' => j \in parked' \/ Done(j)'
              /\ impl' = "go" /\ j \in dead' => Done(j)'
<1>1. dead' = dead \cup {k}
  BY DEF Ends
<1>2. CASE impl = "go"
  <2>1. \A j \in ConnIds :
           closes'[j] = IF j = k /\ closes[j] = 0 THEN 1 ELSE closes[j]
    BY <1>2, CloseOnceIs DEF Ends
  <2>2. \A j \in ConnIds : closes[j] \in Nat
    BY DEF RequestTypeOK
  <2> QED
    BY <1>1, <1>2, <2>1, <2>2 DEF EndInv, Done
<1>3. CASE impl # "go"
  <2>1. closes' = closes
    BY <1>3 DEF Ends
  <2> QED
    BY <1>1, <1>3, <2>1 DEF EndInv, Done, RequestTypeOK
<1> QED
  BY <1>2, <1>3

LEMMA EndStep ==
  ASSUME RequestTypeOK, EndInv, Next
  PROVE  EndInv'
<1>0. impl' = impl
  BY SameImpl
<1>1. CASE Reuse \/ DialFails
  BY <1>0, <1>1 DEF Reuse, DialFails, Begin, doneVars, EndInv, Done, RequestTypeOK
<1>2. CASE Dial
  <2>1. /\ UNCHANGED <<dead, closes, closing>>
        /\ dials' = dials + 1 /\ cur' = dials + 1
        /\ parked' = IF impl = "ffi" THEN parked \cup {dials + 1} ELSE parked
    BY <1>2 DEF Dial, Park
  <2>2. dials \in Nat /\ \A k \in ConnIds : k <= dials + 1 => k <= dials \/ k = dials + 1
    BY RequestsAssumption DEF RequestTypeOK, ConnIds
  <2> QED
    BY <1>0, <2>1, <2>2 DEF EndInv, Done
<1>3. ASSUME NEW k \in ConnIds, ConnDies(k)
      PROVE  EndInv'
  <2>1. Ends(k) /\ UNCHANGED <<impl, parked, dials, closing, cur>>
    BY <1>3 DEF ConnDies, restVars
  <2> QED
    BY <2>1, EndsIs DEF EndInv
<1>4. ASSUME NEW k \in ConnIds, WaiterCloses(k)
      PROVE  EndInv'
  <2>1. /\ k \in dead /\ parked' = parked \ {k}
        /\ UNCHANGED <<dead, closing, impl, dials, cur>>
        /\ \A j \in ConnIds :
             closes'[j] = IF j = k /\ closes[j] = 0 THEN 1 ELSE closes[j]
    BY <1>4, CloseOnceIs DEF WaiterCloses, Announce, restVars
  <2>2. \A j \in ConnIds : closes[j] \in Nat
    BY DEF RequestTypeOK
  <2> QED
    BY <2>1, <2>2 DEF EndInv, Done
<1>5. CASE ClientCloses
  <2>1. /\ Ends(cur) /\ cur' = 0 /\ closing' \in {0, cur}
        /\ UNCHANGED <<impl, parked, dials>>
    BY <1>5 DEF ClientCloses
  <2>2. 0 <= dials
    BY RequestsAssumption DEF RequestTypeOK
  <2> QED
    BY <2>1, <2>2, EndsIs DEF EndInv
<1>6. CASE CloserCloses
  <2>1. /\ closing \in dead /\ closing' = 0
        /\ UNCHANGED <<dead, parked, impl, dials, cur>>
        /\ \A j \in ConnIds :
             closes'[j] = IF j = closing /\ closes[j] = 0 THEN 1 ELSE closes[j]
    BY <1>6, CloseOnceIs DEF CloserCloses, restVars, EndInv
  <2>2. \A j \in ConnIds : closes[j] \in Nat
    BY DEF RequestTypeOK
  <2> QED
    BY <2>1, <2>2 DEF EndInv, Done
<1>7. CASE \/ Open \/ Write \/ ReadEnd \/ Expire \/ PeerEchoes \/ PeerResets
           \/ \E w \in Writers \ {VU}, c \in Cells : OtherRecords(w, c)
           \/ \E w \in Writers : Log(w)
  <2>1. UNCHANGED <<doneVars, impl, dials, cur>>
    BY <1>7 DEF Open, Write, ReadEnd, Expire, PeerEchoes, PeerResets, OtherRecords,
                Log, restVars
  <2> QED
    BY <2>1 DEF doneVars, EndInv, Done
<1>8. ASSUME NEW k \in ConnIds, ConnHangs(k)
      PROVE  EndInv'
  <2>1. UNCHANGED <<dead, parked, closes, closing, impl, dials, cur>>
    BY <1>8 DEF ConnHangs, restVars
  <2> QED
    BY <2>1 DEF EndInv, Done
<1>9. CASE RequestGoesOn
  <2>1. UNCHANGED <<doneVars, impl, dials, cur>>
    BY <1>9 DEF RequestGoesOn, OpenFails, WriteFails, CloseWrite, CloseFails, Read,
                ReadBuffered, ReadFails, Recorded, restVars
  <2> QED
    BY <2>1 DEF doneVars, EndInv, Done
<1> QED
  BY <1>1, <1>2, <1>3, <1>4, <1>5, <1>6, <1>7, <1>8, <1>9 DEF Next

-----------------------------------------------------------------------------
(* The theorems *)

(* The inductive invariant: who writes which line, which sample numbers are
   accounted for, where the bytes of the stream are, and who is still to
   announce the end of a connection. *)
THEOREM Invariance == Spec => []Inv
<1>1. Init => Inv
  <2> SUFFICES ASSUME Init PROVE Inv
    OBVIOUS
  <2>1. LogInv
    BY LogInvInit DEF Init
  <2>2. RequestTypeOK
    BY RequestsAssumption DEF Init, RequestTypeOK
  <2>3. BytesInv
    BY DEF Init, BytesInv
  <2>4. RecordInv
    BY RequestsAssumption DEF Init, LogInit, RecordInv
  <2>5. EndInv
    BY RequestsAssumption DEF Init, EndInv, Done, ConnIds
  <2> QED
    BY <2>1, <2>2, <2>3, <2>4, <2>5 DEF Inv
<1>2. Inv /\ [Next]_vars => Inv'
  <2> SUFFICES ASSUME Inv, [Next]_vars PROVE Inv'
    OBVIOUS
  <2>1. CASE Next
    <3>1. LogInv'
      BY <2>1, StepsOfTheLog, LogInvStep DEF Inv
    <3>2. RequestTypeOK' /\ BytesInv' /\ EndInv'
      BY <2>1, RequestTypeStep, BytesStep, EndStep DEF Inv
    <3>3. RecordInv'
      BY <2>1, RecordStep DEF Inv, LogInv
    <3> QED
      BY <3>1, <3>2, <3>3 DEF Inv
  <2>2. CASE UNCHANGED vars
    <3>1. LogInv'
      BY <2>2, LogInvStep DEF Inv, LogNext, vars
    <3>2. RequestTypeOK' /\ BytesInv' /\ RecordInv' /\ EndInv'
      BY <2>2 DEF Inv, vars, callVars, streamVars, doneVars, restVars, logVars,
                  RequestTypeOK, BytesInv, RecordInv, EndInv, Taken, Done
    <3> QED
      BY <3>1, <3>2 DEF Inv
  <2> QED
    BY <2>1, <2>2
<1> QED
  BY <1>1, <1>2, PTL DEF Spec

(* Every variable stays within its type: no line of the file is anything but a
   result of a known cell, and the streams count no negative bytes. *)
THEOREM TypeCorrect == Spec => [](LogTypeOK /\ RequestTypeOK)
<1>1. Inv => LogTypeOK /\ RequestTypeOK
  BY DEF Inv, LogInv
<1> QED
  BY <1>1, Invariance, PTL

(* A request that succeeds has read its whole response, under either
   implementation and however its reads are cut, and every line of a Go client
   is about the whole payload (client.go:816-870, backend_ffi.go:214-276). *)
THEOREM RoundTripRecorded == Spec => []LineMeansRoundTrip
<1>1. Inv => LineMeansRoundTrip
  BY DEF Inv, BytesInv, RecordInv, LineMeansRoundTrip, Taken
<1> QED
  BY <1>1, Invariance, PTL

(* Sample numbers of a cell grow along the file whichever VUs record in it, and
   every number given out is in the file, being written, or lost to a write
   that failed (results.go:229-284). *)
THEOREM SamplesNumbered == Spec => []SamplesInOrder
<1>1. Inv => SamplesInOrder
  BY SamplesInOrderHolds DEF Inv
<1> QED
  BY <1>1, Invariance, PTL

(* No write that fails costs more than its own line and the one after it
   (results.go:272-281). *)
THEOREM FailedWritesCost == Spec => []TornLinesBounded
<1>1. Inv => TornLinesBounded
  BY TornLinesBoundedHolds DEF Inv
<1> QED
  BY <1>1, Invariance, PTL

(* No healthy connection is taken for a dead one, and of a dead one the client
   will know: what the liveness of DeadIsNoticed rests on
   (backend_ffi.go:160-171, client.go:221-227). *)
THEOREM EndsAnnounced == Spec => []EndAnnounced
<1>1. Inv => EndAnnounced
  BY DEF Inv, RequestTypeOK, EndInv, EndAnnounced
<1> QED
  BY <1>1, Invariance, PTL
=============================================================================

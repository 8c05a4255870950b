-------------------------- MODULE FetchBlobProofs --------------------------
(***************************************************************************)
(* Proofs about FetchBlob for any timeout, stall time, tick, blob and      *)
(* delay of the watchdog: what is called a stall is one up to that delay,  *)
(* is noticed in time and is reported.                                     *)
(***************************************************************************)
EXTENDS FetchBlob, TLAPS

(* A time d is within the longest silence so far, that which may be going on
   included. *)
Silence(d) == d <= longest \/ d + last <= now

(* Before the stream is open there is nothing to watch, and no time passes. *)
DialInv ==
  pc = "dial" =>
    /\ now = 0 /\ last = 0 /\ longest = 0
    /\ dog = "off" /\ ~stalled /\ ~res.stalled

(* The channel is closed before the context is cancelled for a stall. *)
ReportInv ==
  /\ cause = "stall" \/ dog = "cancel" => stalled
  /\ pc \in {"dial", "fetch"} => blame = "none"
  /\ blame = "stall" => stalled /\ err
  /\ CancelReported

(* When the watchdog loads the time of the latest byte, the silence is what it
   will see less its delay until the comparison; more bytes may arrive in the
   meantime. *)
StallInv ==
  /\ dog = "compare" =>
       /\ seen <= woke /\ woke <= now /\ now <= woke + Lag
       /\ Silence(woke - seen)
  /\ stalled => \E d \in Nat : d + Lag > Stall /\ Silence(d)
  /\ res.stalled => stalled

(* How late the watchdog can be for its next step, counted from the latest
   byte: that it waits for a tick, or was not satisfied with a comparison, says
   that the bytes it has seen were recent enough. *)
WatchInv ==
  pc = "fetch" /\ ~hashSeq /\ ~cancelled =>
    /\ dog \in {"wait", "compare", "cancel"}
    /\ dog = "wait" =>
         /\ due <= last + Stall + Period /\ woke <= last + Stall + Period
         /\ now <= due + Lag \/ now <= woke + Lag
    /\ dog = "compare" =>
         /\ woke <= last + Stall + Period + Lag /\ now <= woke + Lag
         /\ due <= woke + Period /\ seen <= last
    /\ dog = "cancel" =>
         woke <= last + Stall + Period + 2 * Lag /\ now <= woke + Lag

Inv == TypeOK /\ DialInv /\ ReportInv /\ StallInv /\ WatchInv

-----------------------------------------------------------------------------
LEMMA TimesStep ==
  ASSUME TimesOK, DialInv, [Next]_vars
  PROVE  TimesOK'
<1> USE FetchAssumption DEF TimesOK, progressVars, dogVars
<1>1. CASE Open
  BY <1>1 DEF Open
<1>2. CASE Progress
  BY <1>2 DEF Progress, Longer
<1>3. CASE Tick
  BY <1>3 DEF Tick
<1>4. CASE DogLoads
  BY <1>4 DEF DogLoads, NextTicks
<1>5. CASE UNCHANGED <<now, progressVars, due, seen>> /\ woke' \in {woke, now}
  BY <1>5
<1> QED
  BY <1>1, <1>2, <1>3, <1>4, <1>5
     DEF Next, vars, OpenFails, WrongImpl, Fetched, FetchCancelled, FetchFails,
         StopWatchdog, Settle, Watchdog, DogStops, DogSatisfied, DogFires,
         DogCancels, TimeOut

LEMMA FlagsStep ==
  ASSUME FlagsOK, [Next]_vars
  PROVE  FlagsOK'
<1> USE DEF FlagsOK, ctxVars
<1>1. CASE OpenFails \/ Open \/ WrongImpl \/ Progress \/ Fetched
  BY <1>1 DEF OpenFails, Open, WrongImpl, Progress, Fetched, Cancel
<1>2. CASE \/ FetchCancelled \/ FetchFails \/ StopWatchdog \/ Settle
           \/ TimeOut \/ Tick \/ UNCHANGED vars
  BY <1>2 DEF FetchCancelled, FetchFails, StopWatchdog, Settle,
              TimeOut, Tick, Cancel, vars
<1>3. CASE Watchdog
  BY <1>3 DEF Watchdog, DogStops, DogLoads, DogSatisfied, DogFires, DogCancels,
              Announce, Cancel
<1> QED
  BY <1>1, <1>2, <1>3 DEF Next

LEMMA StagesStep ==
  ASSUME StagesOK, [Next]_vars
  PROVE  StagesOK'
<1> USE DEF StagesOK, dogVars, ctxVars
<1>1. CASE OpenFails \/ Open \/ WrongImpl \/ Progress \/ Fetched
  BY <1>1 DEF OpenFails, Open, WrongImpl, Progress, Fetched, Cancel
<1>2. CASE \/ FetchCancelled \/ FetchFails \/ StopWatchdog \/ Settle
           \/ TimeOut \/ Tick \/ UNCHANGED vars
  BY <1>2 DEF FetchCancelled, FetchFails, StopWatchdog, Settle,
              TimeOut, Tick, Cancel, vars
<1>3. CASE Watchdog
  BY <1>3 DEF Watchdog, DogStops, DogLoads, DogSatisfied, DogFires, DogCancels,
              Announce, Cancel
<1> QED
  BY <1>1, <1>2, <1>3 DEF Next

LEMMA ResultStep ==
  ASSUME FlagsOK, ResultOK, [Next]_vars
  PROVE  ResultOK'
<1> USE DEF ResultOK
<1>1. CASE OpenFails
  BY <1>1 DEF OpenFails, NoResult
<1>2. CASE Settle
  BY <1>2 DEF Settle, Stage, FlagsOK
<1>3. CASE UNCHANGED res
  BY <1>3
<1> QED
  BY <1>1, <1>2, <1>3
     DEF Next, vars, Open, WrongImpl, Progress, Fetched, FetchCancelled,
         FetchFails, StopWatchdog, Watchdog, DogStops, DogLoads, DogSatisfied,
         DogFires, DogCancels, TimeOut, Tick

LEMMA TypeStep ==
  ASSUME TypeOK, DialInv, [Next]_vars
  PROVE  TypeOK'
BY TimesStep, FlagsStep, StagesStep, ResultStep DEF TypeOK

LEMMA DialStep ==
  ASSUME DialInv, [Next]_vars
  PROVE  DialInv'
<1> USE DEF DialInv, vars, progressVars, dogVars, ctxVars
<1>1. CASE pc # "dial"
  BY <1>1 DEF Next, OpenFails, Open, WrongImpl, Progress, Fetched,
              FetchCancelled, FetchFails, StopWatchdog, Settle, Watchdog,
              DogStops, DogLoads, DogSatisfied, DogFires, DogCancels, TimeOut,
              Tick
<1>2. CASE pc = "dial"
  BY <1>2 DEF Next, OpenFails, Open, WrongImpl, Progress, Fetched,
              FetchCancelled, FetchFails, StopWatchdog, Settle, Watchdog,
              DogStops, DogLoads, DogSatisfied, DogFires, DogCancels, TimeOut,
              Tick
<1> QED
  BY <1>1, <1>2

LEMMA ReportStep ==
  ASSUME FlagsOK, DialInv, ReportInv, [Next]_vars
  PROVE  ReportInv'
<1> USE DEF FlagsOK, ReportInv, CancelReported, progressVars, dogVars, ctxVars
<1>1. CASE OpenFails \/ Open
  BY <1>1 DEF OpenFails, Open
<1>2. CASE WrongImpl
  BY <1>2 DEF WrongImpl, Cancel
<1>3. CASE Progress \/ Tick
  BY <1>3 DEF Progress, Tick
<1>4. CASE Fetched \/ FetchCancelled \/ FetchFails
  BY <1>4 DEF Fetched, FetchCancelled, FetchFails
<1>5. CASE StopWatchdog
  BY <1>5 DEF StopWatchdog, Cancel
<1>6. CASE Settle
  BY <1>6 DEF Settle, Stage, Cancel
<1>7. CASE Watchdog
  BY <1>7 DEF Watchdog, DogStops, DogLoads, DogSatisfied, DogFires, DogCancels,
              Announce, Cancel
<1>8. CASE TimeOut
  BY <1>8 DEF TimeOut, Cancel
<1>9. CASE UNCHANGED vars
  BY <1>9 DEF vars
<1> QED
  BY <1>1, <1>2, <1>3, <1>4, <1>5, <1>6, <1>7, <1>8, <1>9 DEF Next

(* No silence is forgotten. *)
LEMMA SilenceGrows ==
  ASSUME TimesOK, DialInv, [Next]_vars,
         NEW d \in Nat, Silence(d)
  PROVE  Silence(d)'
<1> USE FetchAssumption DEF TimesOK, DialInv, Silence, progressVars
<1>1. CASE Open
  BY <1>1 DEF Open
<1>2. CASE Progress
  BY <1>2 DEF Progress, Longer
<1>3. CASE Tick
  BY <1>3 DEF Tick
<1>4. CASE UNCHANGED <<now, progressVars>>
  BY <1>4
<1> QED
  BY <1>1, <1>2, <1>3, <1>4
     DEF Next, vars, OpenFails, WrongImpl, Fetched, FetchCancelled, FetchFails,
         StopWatchdog, Settle, Watchdog, DogStops, DogLoads, DogSatisfied,
         DogFires, DogCancels, TimeOut

LEMMA StallStep ==
  ASSUME TypeOK, DialInv, StallInv, ReportInv, [Next]_vars
  PROVE  StallInv'
<1> DEFINE Compares ==
             dog = "compare" =>
               /\ seen <= woke /\ woke <= now /\ now <= woke + Lag
               /\ Silence(woke - seen)
           Fired == stalled => \E d \in Nat : d + Lag > Stall /\ Silence(d)
<1>1. /\ now \in Nat /\ seen \in Nat /\ woke \in Nat /\ last \in Nat
      /\ longest \in Nat /\ Lag \in Nat /\ Stall \in Nat /\ last <= now
      /\ now' \in Nat
  BY TimesStep, FetchAssumption DEF TypeOK, TimesOK
<1>2. ASSUME UNCHANGED <<woke, seen>>, dog = "compare", dog' = "compare",
             now' <= woke + Lag, now <= now'
      PROVE  Compares'
  <2>1. seen <= woke /\ woke <= now /\ Silence(woke - seen)
    BY <1>2 DEF StallInv
  <2>2. woke - seen \in Nat
    BY <1>1, <2>1
  <2>3. PICK d \in Nat : d = woke - seen
    BY <2>2
  <2>4. Silence(d)'
    BY <2>1, <2>3, SilenceGrows DEF TypeOK
  <2>5. woke' - seen' = d
    BY <1>2, <2>3
  <2>6. woke <= now'
    BY <1>1, <1>2, <2>1
  <2> QED
    BY <1>2, <2>1, <2>4, <2>5, <2>6 DEF Silence
<1>3. ASSUME stalled' = stalled
      PROVE  Fired'
  <2>1. CASE ~stalled
    BY <1>3, <2>1
  <2>2. CASE stalled
    <3>1. PICK d \in Nat : d + Lag > Stall /\ Silence(d)
      BY <2>2 DEF StallInv
    <3>2. Silence(d)'
      BY <3>1, SilenceGrows DEF TypeOK
    <3> QED
      BY <3>1, <3>2
  <2> QED
    BY <2>1, <2>2
<1> HIDE DEF Compares, Fired
<1>4. Compares' /\ Fired' /\ (res'.stalled => stalled') => StallInv'
  BY DEF StallInv, Compares, Fired
<1>5. CASE OpenFails \/ Open
  <2>1. ~stalled' /\ dog' # "compare"
    BY <1>5 DEF OpenFails, Open, DialInv, ctxVars, dogVars
  <2>2. ~res'.stalled
    <3>1. CASE OpenFails
      BY <3>1 DEF OpenFails, NoResult
    <3>2. CASE Open
      BY <3>2 DEF Open, DialInv
    <3> QED
      BY <1>5, <3>1, <3>2
  <2> QED
    BY <1>4, <2>1, <2>2 DEF Compares, Fired
<1>6. CASE DogLoads
  <2>1. /\ UNCHANGED <<now, last, longest, stalled, res>>
        /\ woke' = now /\ seen' = last
    BY <1>6 DEF DogLoads, ctxVars, progressVars
  <2>2. now - last + last <= now /\ now <= now + Lag /\ now <= now
    BY <1>1
  <2>3. Compares'
    BY <1>1, <2>1, <2>2 DEF Compares, Silence
  <2>4. res'.stalled => stalled'
    BY <2>1 DEF StallInv
  <2> QED
    BY <1>3, <1>4, <2>1, <2>3, <2>4
<1>7. CASE DogFires
  <2>1. /\ now > seen + Stall /\ seen <= woke /\ now <= woke + Lag
        /\ Silence(woke - seen)
    BY <1>1, <1>7 DEF DogFires, Silent, StallInv
  <2>2. PICK d \in Nat : d = woke - seen
    BY <1>1, <2>1
  <2>3. d + Lag > Stall
    BY <1>1, <2>1, <2>2
  <2>4. Silence(d)'
    BY <2>1, <2>2, SilenceGrows DEF TypeOK
  <2>5. Fired'
    BY <2>3, <2>4 DEF Fired
  <2>6. dog' # "compare" /\ stalled'
    BY <1>7 DEF DogFires, Announce
  <2> QED
    BY <1>4, <2>5, <2>6 DEF Compares
<1>8. CASE Tick
  <2>1. /\ UNCHANGED <<dog, seen, woke, stalled, res>>
        /\ dog = "compare" => now' <= woke + Lag
        /\ now <= now'
    BY <1>1, <1>8 DEF Tick, DogInTime, Ready, dogVars, ctxVars
  <2>2. Compares'
    BY <1>2, <2>1 DEF Compares
  <2>3. res'.stalled => stalled'
    BY <2>1 DEF StallInv
  <2> QED
    BY <1>3, <1>4, <2>1, <2>2, <2>3
<1>9. CASE \/ WrongImpl \/ Progress \/ Fetched \/ FetchCancelled \/ FetchFails
           \/ StopWatchdog \/ Settle \/ DogStops \/ DogSatisfied \/ DogCancels
           \/ TimeOut \/ UNCHANGED vars
  <2>1. /\ UNCHANGED <<now, seen>>
        /\ dog' = "compare" => dog = "compare" /\ woke' = woke
    BY <1>9 DEF WrongImpl, Progress, Fetched, FetchCancelled, FetchFails,
                StopWatchdog, Settle, DogStops, DogSatisfied, DogCancels,
                TimeOut, vars, dogVars
  <2>2. stalled' = stalled
    BY <1>9 DEF WrongImpl, Progress, Fetched, FetchCancelled, FetchFails,
                StopWatchdog, Settle, DogStops, DogSatisfied, DogCancels,
                TimeOut, vars, ctxVars, ReportInv, TypeOK, FlagsOK
  <2>3. res'.stalled => stalled
    <3>1. CASE Settle
      BY <3>1 DEF Settle
    <3>2. CASE ~Settle
      <4>1. res' = res
        BY <1>9, <3>2
           DEF WrongImpl, Progress, Fetched, FetchCancelled, FetchFails,
               StopWatchdog, DogStops, DogSatisfied, DogCancels, TimeOut, vars
      <4> QED
        BY <4>1 DEF StallInv
    <3> QED
      BY <3>1, <3>2
  <2>4. now <= now' /\ (dog = "compare" => now' <= woke + Lag)
    BY <1>1, <2>1 DEF StallInv
  <2>5. Compares'
    BY <1>2, <2>1, <2>4 DEF Compares
  <2> QED
    BY <1>3, <1>4, <2>2, <2>3, <2>5
<1> QED
  BY <1>5, <1>6, <1>7, <1>8, <1>9 DEF Next, Watchdog

LEMMA WatchStep ==
  ASSUME TimesOK, DialInv, WatchInv, [Next]_vars
  PROVE  WatchInv'
<1> USE FetchAssumption DEF TimesOK, WatchInv
<1>1. CASE Open
  BY <1>1 DEF Open, DialInv, ctxVars
<1>2. CASE Progress
  BY <1>2 DEF Progress, dogVars, ctxVars
<1>3. CASE Tick
  BY <1>3 DEF Tick, DogInTime, Ready, Longer, dogVars, ctxVars, progressVars
<1>4. CASE DogLoads
  BY <1>4 DEF DogLoads, NextTicks, ctxVars, progressVars
<1>5. CASE DogSatisfied
  BY <1>5 DEF DogSatisfied, Silent, ctxVars, progressVars
<1>6. CASE DogStops \/ DogFires \/ DogCancels
  BY <1>6 DEF DogStops, DogFires, DogCancels, Announce, Cancel, ctxVars,
              progressVars
<1>7. CASE \/ OpenFails \/ WrongImpl \/ Fetched \/ FetchCancelled \/ FetchFails
           \/ StopWatchdog \/ Settle \/ TimeOut
  BY <1>7 DEF OpenFails, WrongImpl, Fetched, FetchCancelled, FetchFails,
              StopWatchdog, Settle, TimeOut, Cancel
<1>8. CASE UNCHANGED vars
  BY <1>8 DEF vars, dogVars, ctxVars, progressVars
<1> QED
  BY <1>1, <1>2, <1>3, <1>4, <1>5, <1>6, <1>7, <1>8 DEF Next, Watchdog

LEMMA InitInv ==
  ASSUME Init
  PROVE  Inv
<1> USE DEF Init
<1>1. TimesOK
  BY FetchAssumption DEF TimesOK
<1>2. FlagsOK /\ StagesOK /\ ResultOK
  BY DEF FlagsOK, StagesOK, ResultOK, NoResult
<1>3. DialInv /\ ReportInv /\ StallInv /\ WatchInv
  <2>1. ~res.stalled
    BY DEF NoResult
  <2> QED
    BY <2>1 DEF DialInv, ReportInv, CancelReported, StallInv, WatchInv
<1> QED
  BY <1>1, <1>2, <1>3 DEF Inv, TypeOK

LEMMA Inductive ==
  ASSUME Inv, [Next]_vars
  PROVE  Inv'
BY TypeStep, DialStep, ReportStep, StallStep, WatchStep DEF Inv, TypeOK

(* Every reachable state is type-correct, whatever the times and the blob. *)
THEOREM TypeCorrect == Spec => []TypeOK
<1>1. Inv => TypeOK
  BY DEF Inv
<1> QED
  BY <1>1, InitInv, Inductive, PTL DEF Spec

(* A fetch cancelled by the watchdog is reported as stalled, however its two
   goroutines interleave (client.go:737-740, 769-784). *)
THEOREM CancelsReported == Spec => []CancelReported
<1>1. Inv => CancelReported
  BY DEF Inv, ReportInv
<1> QED
  BY <1>1, InitInv, Inductive, PTL DEF Spec

(* A fetch called stalled was without a byte for longer than StallMs less the
   time that the watchdog was held up between its load and its comparison, for
   any bound of that time, whatever arrives in between (client.go:735-738). *)
THEOREM StallsAreSilence == Spec => []StallAfterSilence
<1>1. Inv => StallAfterSilence
  BY FetchAssumption
     DEF Inv, StallInv, StallAfterSilence, Silence, Longer, TypeOK, TimesOK
<1> QED
  BY <1>1, InitInv, Inductive, PTL DEF Spec

(* No silence of a raw fetch outlasts StallMs, one period and three delays of
   the watchdog, whenever its bytes arrive (client.go:729-743). *)
THEOREM SilenceIsBounded == Spec => []SilenceBounded
<1>1. Inv => SilenceBounded
  BY FetchAssumption DEF Inv, WatchInv, SilenceBounded, TypeOK, TimesOK
<1> QED
  BY <1>1, InitInv, Inductive, PTL DEF Spec
=============================================================================

----------------------------- MODULE FetchBlob -----------------------------
(***************************************************************************)
(* FetchBlob: a download and the watchdog that ends it when no byte has    *)
(* arrived for a while.  They share the time of the last byte, the channel *)
(* by which the watchdog says that it fired, and the context it cancels.   *)
(*                                                                         *)
(* Time is a counter that nothing stops: it runs, and bytes arrive, between *)
(* any two steps of the watchdog.  The scheduler may hold the watchdog up  *)
(* at each of its steps, for as long as Lag and no longer.  What           *)
(* DownloadBlob does with the stream is external: bytes arrive, or do not, *)
(* and it returns once it has all, or when its context is done or the      *)
(* stream fails.                                                           *)
(***************************************************************************)
EXTENDS Naturals

CONSTANTS
  Stall,     \* opts.StallMs
  Period,    \* a quarter of it, the period of the watchdog's ticker
  Timeout,   \* opts.TimeoutMs
  Lag,       \* the longest that a step of the watchdog is held up
  BlobSize,  \* bytes of the blob
  MaxTime    \* bound on the clock

ASSUME FetchAssumption ==
  /\ Stall \in Nat \ {0} /\ Period \in 1..Stall /\ Timeout \in Nat \ {0}
  /\ Lag \in Nat /\ BlobSize \in Nat \ {0} /\ MaxTime \in Nat

VARIABLES
  hashSeq,   \* whether the target is a collection, fetched without watchdog
  now,       \* the clock
  pc,        \* where FetchBlob is
  n, last,   \* progressWriter: bytes, and the time of the latest
  dog,       \* where the watchdog is
  due,       \* the time of its next tick
  seen,      \* the time of the latest byte as it has loaded it
  woke,      \* the time of its latest step
  stalled,   \* the channel stalled is closed
  cancelled, \* stallCtx is done, by any of its cancel functions
  cause,     \* history: who cancelled first, or "none"
  longest,   \* history: the longest time without a byte
  err,       \* DownloadBlob returned an error
  blame,     \* history: the reason of that error
  res        \* FetchResult, with the stage of the error sample

dogVars == <<dog, due, seen, woke>>
ctxVars == <<stalled, cancelled, cause>>
progressVars == <<n, last, longest>>
vars == <<hashSeq, now, pc, progressVars, dogVars, ctxVars, err, blame, res>>

NoResult == [completed |-> FALSE, stalled |-> FALSE, stage |-> ""]

Init ==
  /\ hashSeq \in BOOLEAN
  /\ now = 0
  /\ pc = "dial"
  /\ n = 0 /\ last = 0 /\ longest = 0
  /\ dog = "off" /\ due = 0 /\ seen = 0 /\ woke = 0
  /\ stalled = FALSE /\ cancelled = FALSE /\ cause = "none"
  /\ err = FALSE /\ blame = "none"
  /\ res = NoResult

Cancel(who) ==
  /\ cancelled' = TRUE
  /\ cause' = IF cancelled THEN cause ELSE who

-----------------------------------------------------------------------------
(* FetchBlob *)

(* The dial, or the opening of the stream, fails. *)
OpenFails ==
  /\ pc = "dial"
  /\ pc' = "done"
  /\ \E s \in {"dial", "open"} : res' = [NoResult EXCEPT !.stage = s]
  /\ UNCHANGED <<hashSeq, now, progressVars, dogVars, ctxVars, err, blame>>

(* The stream is open; the watchdog starts, unless for a collection. *)
Open ==
  /\ pc = "dial"
  /\ pc' = "fetch"
  /\ last' = now
  /\ dog' = IF hashSeq THEN "off" ELSE "wait"
  /\ due' = now + Period /\ woke' = now
  /\ UNCHANGED <<hashSeq, now, n, longest, seen, ctxVars, err, blame, res>>

(* The stream is of an implementation that cannot fetch blobs, after all. *)
WrongImpl ==
  /\ pc = "fetch"
  /\ n = 0
  /\ pc' = "done"
  /\ Cancel("return")
  /\ UNCHANGED <<hashSeq, now, progressVars, dogVars, stalled, err, blame,
                 res>>

Longer(a, b) == IF a < b THEN b ELSE a

(* progressWriter.Write.  Of a collection it is told only once all is there,
   which no watchdog minds: there Progress is the arrival itself. *)
Progress ==
  /\ pc = "fetch"
  /\ n < BlobSize
  /\ n' = n + 1 /\ last' = now
  /\ longest' = Longer(longest, now - last)
  /\ UNCHANGED <<hashSeq, now, pc, dogVars, ctxVars, err, blame, res>>

(* The download returns: complete, ... *)
Fetched ==
  /\ pc = "fetch"
  /\ n = BlobSize
  /\ pc' = "returned" /\ err' = FALSE
  /\ UNCHANGED <<hashSeq, now, progressVars, dogVars, ctxVars, blame, res>>

(* Mutant: the download is given a context that nobody cancels. *)
ContextNeverDone == FALSE

ContextDone == cancelled

(* ... because its context is done, or because the stream failed. *)
FetchCancelled ==
  /\ pc = "fetch"
  /\ ContextDone
  /\ pc' = "returned" /\ err' = TRUE /\ blame' = cause
  /\ UNCHANGED <<hashSeq, now, progressVars, dogVars, ctxVars, res>>

FetchFails ==
  /\ pc = "fetch"
  /\ pc' = "returned" /\ err' = TRUE /\ blame' = "stream"
  /\ UNCHANGED <<hashSeq, now, progressVars, dogVars, ctxVars, res>>

StopWatchdog ==
  /\ pc = "returned"
  /\ pc' = "settle"
  /\ Cancel("return")
  /\ UNCHANGED <<hashSeq, now, progressVars, dogVars, stalled, err, blame,
                 res>>

Stage == IF ~err THEN "" ELSE IF stalled THEN "stall" ELSE "fetch"

(* Whether the watchdog fired is asked once; it may still be about to.  The
   deferred cancels of both contexts come last, and find them cancelled. *)
Settle ==
  /\ pc = "settle"
  /\ pc' = "done"
  /\ res' = [completed |-> ~err,
             stalled |-> stalled,
             stage |-> Stage]
  /\ Cancel("return")
  /\ UNCHANGED <<hashSeq, now, progressVars, dogVars, stalled, err, blame>>

-----------------------------------------------------------------------------
(* The watchdog *)

DogStops ==
  /\ dog = "wait"
  /\ cancelled
  /\ dog' = "ended"
  /\ UNCHANGED <<hashSeq, now, pc, progressVars, due, seen, woke, ctxVars,
                 err, blame, res>>

(* Mutant: the ticker has the period of the stall. *)
RareTicks == {t \in (now + 1)..(now + Stall) : (t - due) % Stall = 0}

(* The ticker keeps its rhythm: the ticks it could not deliver are dropped. *)
NextTicks == {t \in (now + 1)..(now + Period) : (t - due) % Period = 0}

DogLoads ==
  /\ dog = "wait"
  /\ now >= due
  /\ dog' = "compare"
  /\ seen' = last /\ woke' = now
  /\ due' \in NextTicks
  /\ UNCHANGED <<hashSeq, now, pc, progressVars, ctxVars, err, blame, res>>

(* Mutant: a silence of one tick is taken for a stall. *)
SilentATick == now - seen >= Period

(* time.Since reads the clock anew, whenever that comes to be. *)
Silent == now - seen > Stall

DogSatisfied ==
  /\ dog = "compare"
  /\ ~Silent
  /\ dog' = "wait" /\ woke' = now
  /\ UNCHANGED <<hashSeq, now, pc, progressVars, due, seen, ctxVars, err,
                 blame, res>>

(* Mutant: the context is cancelled before the channel is closed. *)
AnnounceLate == Cancel("stall") /\ UNCHANGED stalled

Announce == stalled' = TRUE /\ UNCHANGED <<cancelled, cause>>

DogFires ==
  /\ dog = "compare"
  /\ Silent
  /\ Announce
  /\ dog' = "cancel" /\ woke' = now
  /\ UNCHANGED <<hashSeq, now, pc, progressVars, due, seen, err, blame, res>>

DogCancels ==
  /\ dog = "cancel"
  /\ stalled' = TRUE
  /\ Cancel("stall")
  /\ dog' = "ended"
  /\ UNCHANGED <<hashSeq, now, pc, progressVars, due, seen, woke, err, blame,
                 res>>

-----------------------------------------------------------------------------
(* The timeout, or the end of the VU's iteration. *)
TimeOut ==
  /\ pc # "done"
  /\ now >= Timeout
  /\ ~cancelled
  /\ Cancel("timeout")
  /\ UNCHANGED <<hashSeq, now, pc, progressVars, dogVars, stalled, err, blame,
                 res>>

(* When the watchdog could take its next step. *)
Ready == IF dog = "wait" THEN Longer(due, woke) ELSE woke

DogInTime == dog \in {"off", "ended"} \/ now < Ready + Lag

(* Time passes while FetchBlob is past its dial. *)
Tick ==
  /\ now < MaxTime
  /\ pc \notin {"dial", "done"}
  /\ DogInTime
  /\ now' = now + 1
  /\ UNCHANGED <<hashSeq, pc, progressVars, dogVars, ctxVars, err, blame, res>>

Watchdog == DogStops \/ DogLoads \/ DogSatisfied \/ DogFires \/ DogCancels

Next ==
  \/ OpenFails \/ Open \/ WrongImpl
  \/ Progress \/ Fetched \/ FetchCancelled \/ FetchFails
  \/ StopWatchdog \/ Settle
  \/ Watchdog
  \/ TimeOut \/ Tick

Spec == Init /\ [][Next]_vars

(* The goroutines go on when they can, a download whose context is done
   returns, and time passes; the network owes no byte. *)
FairSpec ==
  /\ Spec
  /\ WF_vars(Open) /\ WF_vars(FetchCancelled)
  /\ WF_vars(StopWatchdog) /\ WF_vars(Settle)
  /\ WF_vars(Watchdog) /\ WF_vars(TimeOut) /\ WF_vars(Tick)

-----------------------------------------------------------------------------
TimesOK ==
  /\ now \in 0..MaxTime /\ last \in 0..now /\ longest \in 0..MaxTime
  /\ due \in 0..(MaxTime + Period) /\ seen \in 0..now /\ woke \in 0..now
  /\ n \in 0..BlobSize

FlagsOK ==
  /\ hashSeq \in BOOLEAN
  /\ stalled \in BOOLEAN /\ cancelled \in BOOLEAN /\ err \in BOOLEAN

StagesOK ==
  /\ pc \in {"dial", "fetch", "returned", "settle", "done"}
  /\ dog \in {"off", "wait", "compare", "cancel", "ended"}
  /\ cause \in {"none", "return", "stall", "timeout"}
  /\ blame \in {"none", "stream", "return", "stall", "timeout"}

ResultOK ==
  res \in [completed : BOOLEAN, stalled : BOOLEAN,
           stage : {"", "dial", "open", "fetch", "stall"}]

(* Every variable has its type. *)
TypeOK == TimesOK /\ FlagsOK /\ StagesOK /\ ResultOK

(* A fetch that the watchdog cancelled is reported as stalled, never as a
   fetch error of unknown cause: the channel is closed before the context is
   cancelled (client.go:737-740). *)
CancelReported ==
  pc = "done" /\ blame = "stall" => res.stalled /\ res.stage = "stall"

(* No fetch is called stalled whose longest silence, with the time that the
   watchdog was held up between its load and its comparison added, is within
   StallMs (client.go:643-645, 736-737): a byte may arrive between the two, and
   the clock is read after both, so the delay counts as silence. *)
StallAfterSilence ==
  res.stalled => Longer(longest, now - last) + Lag > Stall

(* No raw fetch hangs without a byte for longer than StallMs, one period of
   the watchdog and the delays of its load, its comparison and its cancel. *)
SilenceBounded ==
  pc = "fetch" /\ ~hashSeq /\ ~cancelled =>
    now - last <= Stall + Period + 3 * Lag

(* The watchdog ends with the fetch, and every fetch ends. *)
FetchEnds == <>(pc = "done" /\ dog \in {"off", "ended"})
=============================================================================

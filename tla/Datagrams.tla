----------------------------- MODULE Datagrams -----------------------------
(***************************************************************************)
(* EchoDatagrams: datagrams are sent one at a time over the connection the *)
(* client caches, and the echo of each is awaited until a deadline.  The   *)
(* sequence number in the payload restarts at 0 with every call, while     *)
(* echoes that missed their deadline stay on the connection.               *)
(*                                                                         *)
(* The network and the peer are as the code uses them: unreliable,         *)
(* unordered, and echoing what arrives at most once.                       *)
(***************************************************************************)
EXTENDS Naturals, Sequences, FiniteSets, Functions

CONSTANTS
  MaxCount,   \* bound: the largest opts.Count
  MaxCalls,   \* bound: calls of EchoDatagrams
  Deadlines   \* whether ReadDatagram honours its context: go does, ffi not

ASSUME DatagramsAssumption ==
  MaxCount \in Nat \ {0} /\ MaxCalls \in Nat \ {0} /\ Deadlines \in BOOLEAN

VARIABLES
  pc, count, seq, res, lapsed,  \* the local variables of the call under way
  calls,      \* how many calls have begun
  conn,       \* the client's connection: "none", "live" or "dead"
  out, back,  \* datagrams on their way to the peer, and echoes from it
  inbox,      \* echoes received and not read yet, in order
  credits,    \* history: echoes counted, with the send each was counted for
  losses,     \* history: sends counted as lost
  failed,     \* history: sends whose wait ended in an error
  dropped     \* history: datagrams that will never be read

callVars == <<pc, count, seq, res, lapsed>>
netVars == <<out, back, inbox, dropped>>
sampleVars == <<credits, losses, failed>>
vars == <<callVars, calls, conn, netVars, sampleVars>>

Sends == [call : 1..MaxCalls, seq : 0..(MaxCount - 1)]

NoResult == [sent |-> 0, echoed |-> 0, lost |-> 0, error |-> FALSE]

Init ==
  /\ pc = "idle" /\ count = 0 /\ seq = 0 /\ lapsed = FALSE
  /\ res = NoResult
  /\ calls = 0
  /\ conn = "none"
  /\ out = {} /\ back = {} /\ inbox = <<>> /\ dropped = {}
  /\ credits = {} /\ losses = {} /\ failed = {}

Current == [call |-> calls, seq |-> seq]

-----------------------------------------------------------------------------
(* The call begins: connect returns the connection that is alive ... *)
Call(n) ==
  /\ pc = "idle"
  /\ calls < MaxCalls
  /\ conn = "live"
  /\ calls' = calls + 1
  /\ pc' = "send" /\ count' = n /\ seq' = 0 /\ res' = NoResult
  /\ UNCHANGED <<lapsed, conn, netVars, sampleVars>>

(* ... or dials another, leaving behind what was on its way on the old, ... *)
CallDials(n) ==
  /\ pc = "idle"
  /\ calls < MaxCalls
  /\ conn # "live"
  /\ conn' = "live"
  /\ calls' = calls + 1
  /\ pc' = "send" /\ count' = n /\ seq' = 0 /\ res' = NoResult
  /\ out' = {} /\ back' = {} /\ inbox' = <<>>
  /\ dropped' = dropped \cup out \cup back \cup Range(inbox)
  /\ UNCHANGED <<lapsed, sampleVars>>

(* ... or fails to, and the call has sent nothing. *)
CallDialFails ==
  /\ pc = "idle"
  /\ calls < MaxCalls
  /\ conn # "live"
  /\ calls' = calls + 1
  /\ res' = [NoResult EXCEPT !.error = TRUE]
  /\ UNCHANGED <<pc, count, seq, lapsed, conn, netVars, sampleVars>>

More == seq < count

Send ==
  /\ pc = "send"
  /\ More
  /\ conn = "live"
  /\ out' = out \cup {Current}
  /\ res' = [res EXCEPT !.sent = @ + 1]
  /\ pc' = "await" /\ lapsed' = FALSE
  /\ UNCHANGED <<count, seq, calls, conn, back, inbox, dropped, sampleVars>>

SendFails ==
  /\ pc = "send"
  /\ More
  /\ res' = [res EXCEPT !.error = TRUE]
  /\ pc' = "idle"
  /\ UNCHANGED <<count, seq, lapsed, calls, conn, netVars, sampleVars>>

Finish ==
  /\ pc = "send"
  /\ seq = count
  /\ pc' = "idle"
  /\ UNCHANGED <<count, seq, res, lapsed, calls, conn, netVars, sampleVars>>

-----------------------------------------------------------------------------
(* awaitEcho *)

(* Mutant: the deadline lapses unnoticed by the counters. *)
LossUncounted == UNCHANGED <<res, losses>>

CountLoss ==
  /\ res' = [res EXCEPT !.lost = @ + 1]
  /\ losses' = losses \cup {Current}

NextLost ==
  /\ pc' = "send" /\ seq' = seq + 1
  /\ CountLoss
  /\ UNCHANGED <<count, lapsed>>

(* Mutant: any echo is taken for the one awaited. *)
MatchesAny == TRUE

Matches == Head(inbox).seq = seq

(* Mutant: the echo is looked at and left to be read again. *)
Peek == UNCHANGED inbox

Consume == inbox' = Tail(inbox)

(* An echo that carries the number awaited is counted, in time or not. *)
ReadEcho ==
  /\ pc = "await"
  /\ inbox # <<>>
  /\ Matches
  /\ Consume
  /\ credits' = credits \cup {[echo |-> Head(inbox), send |-> Current]}
  /\ res' = [res EXCEPT !.echoed = @ + 1]
  /\ pc' = "send" /\ seq' = seq + 1
  /\ UNCHANGED <<count, lapsed, calls, conn, out, back, dropped,
                 losses, failed>>

(* Any other is read past. *)
ReadOther ==
  /\ pc = "await"
  /\ inbox # <<>>
  /\ ~Matches
  /\ inbox' = Tail(inbox)
  /\ dropped' = dropped \cup {Head(inbox)}
  /\ UNCHANGED <<callVars, calls, conn, out, back, sampleVars>>

(* The deadline of the wait, or of the VU, passes. *)
Lapse ==
  /\ pc = "await"
  /\ ~lapsed
  /\ lapsed' = TRUE
  /\ UNCHANGED <<pc, count, seq, res, calls, conn, netVars, sampleVars>>

(* Mutant: the timeout is not passed to the read. *)
GivesUpIfDead == conn = "dead"

ReadGivesUp == Deadlines \/ conn = "dead"

(* ReadDatagram fails.  Once the deadline has passed that is a loss, whatever
   it failed of; before, it ends the call. *)
TimeOut ==
  /\ pc = "await"
  /\ lapsed
  /\ ReadGivesUp
  /\ NextLost
  /\ UNCHANGED <<calls, conn, netVars, credits, failed>>

ReadFails ==
  /\ pc = "await"
  /\ ~lapsed
  /\ conn = "dead"
  /\ res' = [res EXCEPT !.error = TRUE]
  /\ failed' = failed \cup {Current}
  /\ pc' = "idle"
  /\ UNCHANGED <<count, seq, lapsed, calls, conn, netVars, credits, losses>>

-----------------------------------------------------------------------------
(* The network and the peer *)

PeerEchoes(d) ==
  /\ conn = "live"
  /\ d \in out
  /\ out' = out \ {d}
  /\ back' = back \cup {d}
  /\ UNCHANGED <<callVars, calls, conn, inbox, dropped, sampleVars>>

Arrives(d) ==
  /\ conn = "live"
  /\ d \in back
  /\ back' = back \ {d}
  /\ inbox' = Append(inbox, d)
  /\ UNCHANGED <<callVars, calls, conn, out, dropped, sampleVars>>

Lose(d) ==
  /\ d \in out \cup back
  /\ out' = out \ {d}
  /\ back' = back \ {d}
  /\ dropped' = dropped \cup {d}
  /\ UNCHANGED <<callVars, calls, conn, inbox, sampleVars>>

ConnDies ==
  /\ conn = "live"
  /\ conn' = "dead"
  /\ UNCHANGED <<callVars, calls, netVars, sampleVars>>

-----------------------------------------------------------------------------
CallerStep ==
  \/ Send \/ SendFails \/ Finish
  \/ ReadEcho \/ ReadOther \/ TimeOut \/ ReadFails

Next ==
  \/ \E n \in 1..MaxCount : Call(n) \/ CallDials(n)
  \/ CallDialFails
  \/ CallerStep
  \/ Lapse
  \/ \E d \in Sends : PeerEchoes(d) \/ Arrives(d) \/ Lose(d)
  \/ ConnDies

Spec == Init /\ [][Next]_vars

(* Timers fire and a goroutine that can go on does.  The network and the peer
   owe nothing. *)
FairSpec == Spec /\ WF_vars(CallerStep) /\ WF_vars(Lapse)

-----------------------------------------------------------------------------
(* Every variable has its type. *)
TypeOK ==
  /\ pc \in {"idle", "send", "await"}
  /\ count \in 0..MaxCount /\ seq \in 0..count /\ lapsed \in BOOLEAN
  /\ res \in [sent : 0..count, echoed : 0..count, lost : 0..count,
              error : BOOLEAN]
  /\ calls \in 0..MaxCalls
  /\ conn \in {"none", "live", "dead"}
  /\ out \subseteq Sends /\ back \subseteq Sends /\ dropped \subseteq Sends
  /\ Range(inbox) \subseteq Sends
  /\ credits \subseteq [echo : Sends, send : Sends]
  /\ losses \subseteq Sends /\ failed \subseteq Sends

(* The result handed to the script is the account of the call: each datagram
   is echoed or, after its deadline, lost, once, and a call without an error
   has sent them all (client.go:430-453). *)
OutcomeOf(d) ==
  IF \E a \in credits : a.send = d THEN "echoed"
  ELSE IF d \in losses THEN "lost"
  ELSE IF d \in failed THEN "unknown"
  ELSE IF pc = "await" /\ d = Current THEN "outstanding" ELSE "unsent"

AccountState ==
  IF pc # "idle" THEN "open" ELSE IF res.error THEN "failed" ELSE "returned"

Outcome ==
  [s \in 0..(MaxCount - 1) |-> OutcomeOf([call |-> calls, seq |-> s])]

Tally == [sent |-> res.sent, echoed |-> res.echoed, lost |-> res.lost]

Account == INSTANCE EchoAccount WITH
  Sends <- 0..(MaxCount - 1),
  state <- AccountState,
  asked <- count,
  late <- pc = "await" /\ lapsed,
  outcome <- Outcome,
  tally <- Tally

ImplementsEchoAccount == Account!AccountSpec

(* No echo is counted twice and no send is counted for two echoes. *)
OneCreditEach ==
  \A a, b \in credits : a.echo = b.echo \/ a.send = b.send => a = b

(* An echo counted for a datagram other than its own is a late one, of an
   earlier call on the same connection and of the same number, and it takes a
   loss to start with: until a wait for that number has timed out, every round
   trip measured is the datagram's own.  From then on each call may count the
   echo of the call before. *)
LateCreditAfterLoss ==
  \A a \in credits : a.echo # a.send =>
    /\ a.echo.seq = a.send.seq
    /\ a.echo.call < a.send.call
    /\ \E d \in losses : d.seq = a.send.seq /\ d.call <= a.echo.call

(* Summed over the calls, loss is never understated: whatever the network
   dropped has been counted as lost or has ended its call with an error,
   although not always in the call that sent it. *)
LossNotUnderstated ==
  pc = "idle" =>
    Cardinality(dropped) <= Cardinality(losses) + Cardinality(failed)

(* What the comment on EchoDatagrams says: the sequence number is there "so
   late echoes are not credited to the wrong send" (client.go:402-404). *)
CreditedToOwnSend == \A a \in credits : a.echo = a.send

(* What the comment on awaitEcho says: it reads "until one carries seq or the
   timeout lapses" (client.go:456), so that every call ends. *)
CallEnds == pc # "idle" ~> pc = "idle"
=============================================================================

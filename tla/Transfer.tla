------------------------------ MODULE Transfer ------------------------------
(***************************************************************************)
(* SendStreams: a fan-out of goroutines, each of which opens one stream on *)
(* the client's connection, writes its bytes in chunks, half-closes and    *)
(* waits for the peer to close its side, while the caller waits for all of *)
(* them and sums up what they report.                                      *)
(*                                                                         *)
(* The transport and the sink peer are as the code uses them: streams are  *)
(* granted up to a limit, writes wait for flow control, the peer reads a   *)
(* stream to its end and then closes its side, or resets it.               *)
(***************************************************************************)
EXTENDS Naturals, FiniteSets, FiniteSetsExt

CONSTANTS
  Streams,    \* the goroutines of the fan-out, one per stream
  Bytes,      \* opts.Bytes
  MsgSize,    \* opts.MsgSize
  Window,     \* bytes the transport takes ahead of the peer
  Limit,      \* streams the peer lets be open at once
  Deadlines,  \* whether calls honour the deadline: go does, ffi does not
  ShortWrites \* whether Write may return less than asked: ffi does

ASSUME TransferAssumption ==
  /\ IsFiniteSet(Streams) /\ Streams # {}
  /\ Bytes \in Nat \ {0} /\ MsgSize \in Nat \ {0}
  /\ Window \in Nat \ {0} /\ Limit \in Nat \ {0}
  /\ Deadlines \in BOOLEAN /\ ShortWrites \in BOOLEAN

VARIABLES
  phase,     \* where each goroutine is; "end" when its outcome is stored
  sent,      \* streamOutcome.sent: what Write has returned, summed
  stage,     \* streamOutcome.stage, "none" for success
  wire,      \* bytes of each stream the transport has taken
  finished,  \* streams whose sending half the client has closed
  got,       \* bytes of each stream the peer has read
  peer,      \* the peer's side of each stream
  dead,      \* the connection has died
  expired,   \* the context of the call is done
  res        \* the result and the number of error samples

streamVars == <<phase, sent, stage, wire, finished>>
peerVars == <<got, peer>>
vars == <<streamVars, peerVars, dead, expired, res>>

NoResult == [returned |-> FALSE, completed |-> 0, bytesSent |-> 0,
             errors |-> 0, error |-> FALSE]

Init ==
  /\ phase = [s \in Streams |-> "dial"]
  /\ sent = [s \in Streams |-> 0]
  /\ stage = [s \in Streams |-> "none"]
  /\ wire = [s \in Streams |-> 0]
  /\ finished = {}
  /\ got = [s \in Streams |-> 0]
  /\ peer = [s \in Streams |-> "none"]
  /\ dead = FALSE /\ expired = FALSE
  /\ res = NoResult

Smaller(m, n) == IF m < n THEN m ELSE n

(* The end of the chunk being written: what Write was asked for, or what is
   left of the bytes. *)
ChunkEnd(s) == Smaller(sent[s] + MsgSize, Bytes)

(* Mutant: the deadline of the call is set on no stream. *)
BrokenNoDeadline(s) == dead \/ peer[s] = "reset"

(* What makes a call on a stream return an error. *)
Broken(s) == dead \/ peer[s] = "reset" \/ (expired /\ Deadlines)

Goto(s, p) == phase' = [phase EXCEPT ![s] = p]

(* The goroutine stores its outcome. *)
Fail(s, p) == Goto(s, "end") /\ stage' = [stage EXCEPT ![s] = p]

-----------------------------------------------------------------------------
(* The call: connect, then one goroutine per stream, then their sum. *)

Dial ==
  /\ \A s \in Streams : phase[s] = "dial"
  /\ ~res.returned
  /\ phase' = [s \in Streams |-> "open"]
  /\ UNCHANGED <<sent, stage, wire, finished, peerVars, dead, expired, res>>

DialFails ==
  /\ \A s \in Streams : phase[s] = "dial"
  /\ ~res.returned
  /\ res' = [NoResult EXCEPT !.returned = TRUE, !.errors = 1, !.error = TRUE]
  /\ UNCHANGED <<streamVars, peerVars, dead, expired>>

(* Mutant: a stream that sent its bytes counts as completed. *)
CompletedSent == {s \in Streams : sent[s] = Bytes}

Completed == {s \in Streams : stage[s] = "none" /\ sent[s] = Bytes}

Total(bytes) == MapThenSumSet(LAMBDA s : bytes[s], Streams)

Summary == [returned |-> TRUE,
            completed |-> Cardinality(Completed),
            bytesSent |-> Total(sent),
            errors |-> Cardinality(Streams \ Completed),
            error |-> \E s \in Streams \ Completed : stage[s] # "none"]

Aggregate ==
  /\ \A s \in Streams : phase[s] = "end"
  /\ ~res.returned
  /\ res' = Summary
  /\ UNCHANGED <<streamVars, peerVars, dead, expired>>

-----------------------------------------------------------------------------
(* sendOneStream *)

Open(s) ==
  /\ phase[s] = "open"
  /\ ~dead
  /\ Cardinality({u \in Streams : peer[u] = "reading"}) < Limit
  /\ Goto(s, "write")
  /\ peer' = [peer EXCEPT ![s] = "reading"]
  /\ UNCHANGED <<sent, stage, wire, finished, got, dead, expired, res>>

OpenFails(s) ==
  /\ phase[s] = "open"
  /\ Broken(s)
  /\ Fail(s, "open")
  /\ UNCHANGED <<sent, wire, finished, peerVars, dead, expired, res>>

(* Inside Write, the transport takes a byte more of the chunk. *)
Take(s) ==
  /\ phase[s] = "write"
  /\ ~dead /\ peer[s] = "reading"
  /\ wire[s] < ChunkEnd(s)
  /\ wire[s] - got[s] < Window
  /\ wire' = [wire EXCEPT ![s] = @ + 1]
  /\ UNCHANGED <<phase, sent, stage, finished, peerVars, dead, expired, res>>

WriteReturns(s) ==
  /\ phase[s] = "write"
  /\ wire[s] > sent[s]
  /\ ShortWrites \/ wire[s] = ChunkEnd(s)
  /\ sent' = [sent EXCEPT ![s] = wire[s]]
  /\ Goto(s, IF wire[s] < Bytes THEN "write" ELSE "close")
  /\ UNCHANGED <<stage, wire, finished, peerVars, dead, expired, res>>

Reset(s) == peer' = [peer EXCEPT ![s] = IF @ = "reading" THEN "reset" ELSE @]

(* Mutant: what a failing Write returns besides its error is not added. *)
WrittenUncounted(s) == UNCHANGED sent

CountWritten(s) == sent' = [sent EXCEPT ![s] = wire[s]]

WriteFails(s) ==
  /\ phase[s] = "write"
  /\ Broken(s)
  /\ CountWritten(s)
  /\ Reset(s)
  /\ Fail(s, "write")
  /\ UNCHANGED <<wire, finished, got, dead, expired, res>>

(* Mutant: the sending half is left open. *)
HalfCloseForgotten(s) == UNCHANGED finished

HalfClose(s) == finished' = finished \cup {s}

Close(s) ==
  /\ phase[s] = "close"
  /\ HalfClose(s)
  /\ Goto(s, "drain")
  /\ UNCHANGED <<sent, stage, wire, peerVars, dead, expired, res>>

(* A deadline does not fail CloseWrite, which does not wait. *)
CloseFails(s) ==
  /\ phase[s] = "close"
  /\ dead \/ peer[s] = "reset"
  /\ Fail(s, "close")
  /\ UNCHANGED <<sent, wire, finished, peerVars, dead, expired, res>>

(* Mutant: the outcome is a success as soon as all is written. *)
NothingToDrain(s) == TRUE

PeerClosed(s) == peer[s] = "closed"

Drain(s) ==
  /\ phase[s] = "drain"
  /\ PeerClosed(s)
  /\ Goto(s, "end")
  /\ UNCHANGED <<sent, stage, wire, finished, peerVars, dead, expired, res>>

DrainFails(s) ==
  /\ phase[s] = "drain"
  /\ Broken(s)
  /\ Fail(s, "drain")
  /\ UNCHANGED <<sent, wire, finished, peerVars, dead, expired, res>>

-----------------------------------------------------------------------------
(* The peer, the connection and the clock *)

PeerReads(s) ==
  /\ ~dead /\ peer[s] = "reading"
  /\ got[s] < wire[s]
  /\ got' = [got EXCEPT ![s] = @ + 1]
  /\ UNCHANGED <<streamVars, peer, dead, expired, res>>

PeerCloses(s) ==
  /\ ~dead /\ peer[s] = "reading"
  /\ s \in finished /\ got[s] = wire[s]
  /\ peer' = [peer EXCEPT ![s] = "closed"]
  /\ UNCHANGED <<streamVars, got, dead, expired, res>>

PeerResets(s) ==
  /\ ~dead /\ peer[s] = "reading"
  /\ peer' = [peer EXCEPT ![s] = "reset"]
  /\ UNCHANGED <<streamVars, got, dead, expired, res>>

ConnDies ==
  /\ ~dead
  /\ dead' = TRUE
  /\ UNCHANGED <<streamVars, peerVars, expired, res>>

Expire ==
  /\ ~expired
  /\ expired' = TRUE
  /\ UNCHANGED <<streamVars, peerVars, dead, res>>

-----------------------------------------------------------------------------
StreamStep(s) ==
  \/ Open(s) \/ OpenFails(s)
  \/ Take(s) \/ WriteReturns(s) \/ WriteFails(s)
  \/ Close(s) \/ CloseFails(s)
  \/ Drain(s) \/ DrainFails(s)

CallStep == Dial \/ DialFails \/ Aggregate

PeerStep(s) == PeerReads(s) \/ PeerCloses(s)

Next ==
  \/ CallStep
  \/ \E s \in Streams : StreamStep(s) \/ PeerStep(s) \/ PeerResets(s)
  \/ ConnDies \/ Expire

Spec == Init /\ [][Next]_vars

(* Goroutines go on when they can, and streams are opened in turn, hence the
   strong fairness of Open.  The peer owes nothing, and nor does the timer. *)
FairSpec ==
  /\ Spec
  /\ WF_vars(CallStep)
  /\ \A s \in Streams : WF_vars(StreamStep(s)) /\ SF_vars(Open(s))

-----------------------------------------------------------------------------
CountsOK ==
  /\ sent \in [Streams -> 0..Bytes]
  /\ wire \in [Streams -> 0..Bytes]
  /\ got \in [Streams -> 0..Bytes]

StagesOK ==
  /\ phase \in [Streams -> {"dial", "open", "write", "close", "drain", "end"}]
  /\ stage \in [Streams -> {"none", "open", "write", "close", "drain"}]
  /\ peer \in [Streams -> {"none", "reading", "closed", "reset"}]
  /\ finished \in SUBSET Streams

ResultOK ==
  /\ dead \in BOOLEAN /\ expired \in BOOLEAN
  /\ res \in [returned : BOOLEAN, completed : Nat, bytesSent : Nat,
              errors : Nat, error : BOOLEAN]

(* Every variable has its type. *)
TypeOK == CountsOK /\ StagesOK /\ ResultOK

Ended(s) == phase[s] = "end"

(* The measured duration covers delivery: a stream that ends without an error
   has been read by the peer to the last byte (client.go:538-540). *)
CompletedDelivered ==
  \A s \in Streams : Ended(s) /\ stage[s] = "none" => got[s] = Bytes

(* No outcome understates what the peer received, whatever part of a chunk it
   has read by the time its Write fails (client.go:575-581). *)
SentCoversReceived ==
  \A s \in Streams : Ended(s) => got[s] <= sent[s]

(* The result agrees with what happened at the peer: each stream is completed
   or has an error sample, the result has an error unless all completed, and
   the bytes of the peer are among those claimed. *)
ResultAgrees ==
  res.returned /\ (\A s \in Streams : Ended(s)) =>
    /\ res.completed + res.errors = Cardinality(Streams)
    /\ res.error <=> res.completed < Cardinality(Streams)
    /\ res.completed <= Cardinality({s \in Streams : got[s] = Bytes})
    /\ Total(got) <= res.bytesSent

(* A stream that has not completed by the timeout fails "instead of hanging
   the iteration" (client.go:293-295): once the timer has fired the call
   returns, whatever the peer does or fails to do. *)
CallReturns == expired ~> res.returned

(* With no failure and no timeout, a peer that goes on reading is delivered
   everything, however few of the streams it lets be open at once and however
   little it buffers. *)
NoFailure ==
  /\ ~dead /\ ~expired
  /\ \A s \in Streams : peer[s] # "reset"
  /\ ~(res.returned /\ \A s \in Streams : phase[s] = "dial")

PeerFairness == \A s \in Streams : WF_vars(PeerStep(s))

AllDelivered ==
  PeerFairness /\ []NoFailure => <>(res.completed = Cardinality(Streams))
=============================================================================

---------------------------- MODULE EchoAccount ----------------------------
(***************************************************************************)
(* What EchoDatagrams and Gossip promise about the numbers they hand to    *)
(* the script, without connection, swarm, sequence numbers or stale        *)
(* replies: each send is outstanding until it is echoed or, once its time  *)
(* is up, lost, and is so once; the result counts exactly these.  A call   *)
(* that is given up half way says nothing certain of losses.               *)
(***************************************************************************)
EXTENDS Naturals, FiniteSets

CONSTANT Sends  \* the sends a call can make, finitely many

VARIABLES
  state,    \* whether the call is open, has returned, or was given up
  asked,    \* how many sends it was asked for
  late,     \* whether the time of the sends outstanding is up
  outcome,  \* what has become of each send
  tally     \* the numbers of the result

accountVars == <<state, asked, late, outcome, tally>>

Outcomes == {"unsent", "outstanding", "echoed", "lost", "unknown"}

With(o) == {s \in Sends : outcome[s] = o}

Outstanding == With("outstanding")

Become(S, o) == outcome' = [s \in Sends |-> IF s \in S THEN o ELSE outcome[s]]

Zero == [sent |-> 0, echoed |-> 0, lost |-> 0]

AccountInit ==
  /\ state = "returned" /\ asked = 0 /\ late = FALSE
  /\ outcome = [s \in Sends |-> "unsent"]
  /\ tally = Zero

(* A new call starts from nothing, and may fail before its first send. *)
Open ==
  /\ state # "open"
  /\ state' \in {"open", "failed"}
  /\ asked' \in 0..Cardinality(Sends)
  /\ late' = FALSE
  /\ Become(Sends, "unsent")
  /\ tally' = Zero

(* A send may be given a time of its own. *)
Send(s) ==
  /\ state = "open"
  /\ tally.sent < asked
  /\ outcome[s] = "unsent"
  /\ Become({s}, "outstanding")
  /\ tally' = [tally EXCEPT !.sent = @ + 1]
  /\ late' \in {late, FALSE}
  /\ UNCHANGED <<state, asked>>

Echo(s) ==
  /\ state = "open"
  /\ outcome[s] = "outstanding"
  /\ Become({s}, "echoed")
  /\ tally' = [tally EXCEPT !.echoed = @ + 1]
  /\ late' \in {late, FALSE}
  /\ UNCHANGED <<state, asked>>

TimeUp ==
  /\ state = "open"
  /\ late' = TRUE
  /\ UNCHANGED <<state, asked, outcome, tally>>

Lost(S) ==
  /\ state = "open"
  /\ S \subseteq Outstanding
  /\ S # {} => late
  /\ Become(S, "lost")
  /\ tally' = [tally EXCEPT !.lost = @ + Cardinality(S)]
  /\ late' \in {late, FALSE}
  /\ UNCHANGED asked

Lose(S) == Lost(S) /\ UNCHANGED state

(* The call returns with every send accounted for, and with all the sends it
   was asked for unless its time is up. *)
Return ==
  /\ tally.sent = asked \/ late
  /\ Lost(Outstanding)
  /\ state' = "returned"

GiveUp ==
  /\ state = "open"
  /\ Become(Outstanding, "unknown")
  /\ \E n \in tally.lost..(asked - tally.echoed) :
       tally' = [tally EXCEPT !.lost = n]
  /\ late' = FALSE
  /\ state' = "failed"
  /\ UNCHANGED asked

AccountNext ==
  \/ Open
  \/ \E s \in Sends : Send(s) \/ Echo(s) \/ Lose({s})
  \/ TimeUp \/ Return \/ GiveUp

AccountSpec == AccountInit /\ [][AccountNext]_accountVars

-----------------------------------------------------------------------------
(* The numbers are those of the outcomes, and those of a call that has
   returned leave no send out (the results of client.go:430-453 and
   gossip.go:94-152). *)
AddsUp ==
  /\ tally.sent = Cardinality(Sends \ With("unsent"))
  /\ tally.echoed = Cardinality(With("echoed"))
  /\ state # "failed" =>
       /\ tally.lost = Cardinality(With("lost"))
       /\ With("unknown") = {}
  /\ state = "returned" => Outstanding = {}
=============================================================================

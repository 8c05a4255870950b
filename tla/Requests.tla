------------------------------ MODULE Requests ------------------------------
(***************************************************************************)
(* Request: one round trip after the other against an echo peer, each on a *)
(* stream of its own on the connection the client caches, recorded in the  *)
(* result log that other VUs write to as well.  The stream and the         *)
(* connection are those of the implementation: the pure-Go one honours     *)
(* deadlines, writes whole payloads and closes Done as the connection      *)
(* dies; ffi (backend_ffi.go) does neither of the first two, buffers its   *)
(* reads, and closes Done from a goroutine that waits for the death; and   *)
(* its calls on a connection may hang, all of them and for good            *)
(* (src/ffi/README.md:64-80).                                              *)
(*                                                                         *)
(* Transport and peer are as the code uses them: the peer echoes what it   *)
(* is sent and closes its side after the end, or resets the stream.        *)
(***************************************************************************)
EXTENDS ResultLog

CONSTANTS
  VU,           \* the writer that makes requests; the others only record
  Payload,      \* opts.Bytes
  ReadLimit,    \* readLimit of the ffi stream
  CopyBuf,      \* the buffer of io.Copy
  MaxRequests,  \* bound: requests of the VU
  MaxOthers,    \* bound: results recorded by each other writer
  MaxConns      \* bound: dials that succeed

ASSUME RequestsAssumption ==
  /\ VU \in Writers /\ Nobody \notin Writers \cup Cells
  /\ {"request", "transfer"} \subseteq Cells
  /\ Payload \in Nat \ {0} /\ ReadLimit \in Nat \ {0} /\ CopyBuf \in Nat \ {0}
  /\ MaxRequests \in Nat /\ MaxOthers \in Nat /\ MaxConns \in Nat

VARIABLES
  impl,      \* the implementation of the VU's client
  pc, sent, received, expired, on,  \* the local variables of Request
  requests,  \* how many requests have begun
  echoed,    \* bytes the peer has sent back
  finished,  \* the sending half is closed
  reset,     \* the peer has reset the stream
  buf,       \* stream.buf: bytes the bindings returned, not yet handed out
  cur,       \* Client.conn, 0 for nil
  dials,     \* how many connections have been made; they are numbered
  dead,      \* connections that have ended
  parked,    \* ffi connections whose goroutine waits for their end
  closes,    \* how often each connection's done channel has been closed
  closing,   \* the connection a Close of the client has ended, done to follow
  hung,      \* ffi connections on which no call into the bindings returns
  others     \* how many results each other writer has recorded

callVars == <<pc, sent, received, expired, on>>
streamVars == <<echoed, finished, reset, buf>>
doneVars == <<dead, parked, closes, closing, hung>>
restVars == <<impl, requests, cur, dials, others>>
vars == <<callVars, streamVars, doneVars, restVars, logVars>>

ConnIds == 1..MaxConns

Init ==
  /\ LogInit
  /\ impl \in {"go", "ffi"}
  /\ pc = "idle" /\ sent = 0 /\ received = 0 /\ expired = FALSE
  /\ requests = 0 /\ on = 0
  /\ echoed = 0 /\ finished = FALSE /\ reset = FALSE /\ buf = 0
  /\ cur = 0 /\ dials = 0 /\ dead = {} /\ parked = {} /\ closing = 0
  /\ hung = {}
  /\ closes = [k \in ConnIds |-> 0]
  /\ others = [w \in Writers |-> 0]

Done(k) == closes[k] > 0

Least(m, n) == IF m < n THEN m ELSE n

-----------------------------------------------------------------------------
(* connect: the cached connection is used until its Done is closed. *)
Cached == cur # 0 /\ ~Done(cur)

Begin ==
  /\ pc = "idle"
  /\ requests < MaxRequests
  /\ requests' = requests + 1
  /\ UNCHANGED <<sent, received, expired, streamVars, impl, others, logVars>>

Reuse ==
  /\ Begin
  /\ Cached
  /\ pc' = "open" /\ on' = cur
  /\ UNCHANGED <<cur, dials, doneVars>>

(* Mutant: newConn starts no goroutine. *)
ParkForgotten(k) == UNCHANGED parked

(* newConn: a goroutine is left waiting for the end of an ffi connection. *)
Park(k) == parked' = IF impl = "ffi" THEN parked \cup {k} ELSE parked

Dial ==
  /\ Begin
  /\ ~Cached
  /\ dials < MaxConns
  /\ dials' = dials + 1 /\ cur' = dials + 1 /\ on' = dials + 1
  /\ Park(dials + 1)
  /\ pc' = "open"
  /\ UNCHANGED <<dead, closes, closing, hung>>

DialFails ==
  /\ Begin
  /\ ~Cached
  /\ cur' = 0
  /\ UNCHANGED <<pc, on, dials, doneVars>>

-----------------------------------------------------------------------------
(* The rest of Request *)

Goto(l) == pc' = l /\ UNCHANGED <<expired, on>>

(* Request returns: what it defers cancels the rest of the stream. *)
Return ==
  /\ pc' = "idle"
  /\ expired' = FALSE /\ on' = 0 /\ sent' = 0 /\ received' = 0
  /\ echoed' = 0 /\ finished' = FALSE /\ reset' = FALSE /\ buf' = 0

(* Mutant: the deadline of the request is not set on its stream. *)
BrokenNoDeadline == on \in dead \/ reset

(* A call on the stream fails: connection or stream have ended, or, in Go, the
   deadline of the request has passed. *)
Broken == on \in dead \/ reset \/ expired

Open ==
  /\ pc = "open"
  /\ on \notin dead
  /\ Goto("write")
  /\ UNCHANGED <<sent, received, streamVars, doneVars, restVars, logVars>>

OpenFails ==
  /\ pc = "open"
  /\ on \in dead \/ expired
  /\ Return
  /\ UNCHANGED <<doneVars, restVars, logVars>>

(* What a Write without an error may have taken.  The bindings return after
   the first part; the code asks for no more. *)
Taken == IF impl = "go" THEN {Payload} ELSE 1..Payload

Write ==
  /\ pc = "write"
  /\ on \notin dead /\ ~reset
  /\ sent' \in Taken
  /\ Goto("close")
  /\ UNCHANGED <<received, streamVars, doneVars, restVars, logVars>>

WriteFails ==
  /\ pc = "write"
  /\ Broken
  /\ Return
  /\ UNCHANGED <<doneVars, restVars, logVars>>

CloseWrite ==
  /\ pc = "close"
  /\ on \notin dead /\ ~reset
  /\ finished' = TRUE
  /\ Goto("drain")
  /\ UNCHANGED <<sent, received, echoed, reset, buf, doneVars, restVars, logVars>>

CloseFails ==
  /\ pc = "close"
  /\ Broken
  /\ Return
  /\ UNCHANGED <<doneVars, restVars, logVars>>

(* Bytes that have come back and that the stream has not been asked for. *)
Arrived == echoed - received - buf

(* Read: Go fills the buffer of io.Copy from what has arrived; ffi takes up to
   readLimit bytes, fills the buffer from them and keeps the rest. *)
Read ==
  /\ pc = "drain"
  /\ buf = 0 /\ on \notin dead /\ ~reset
  /\ \E n \in 1..Least(Arrived, IF impl = "go" THEN CopyBuf ELSE ReadLimit) :
       /\ received' = received + Least(n, CopyBuf)
       /\ buf' = n - Least(n, CopyBuf)
  /\ UNCHANGED <<pc, sent, expired, on, echoed, finished, reset,
                 doneVars, restVars, logVars>>

ReadBuffered ==
  /\ pc = "drain"
  /\ buf > 0
  /\ received' = received + Least(buf, CopyBuf)
  /\ buf' = buf - Least(buf, CopyBuf)
  /\ UNCHANGED <<pc, sent, expired, on, echoed, finished, reset,
                 doneVars, restVars, logVars>>

(* Mutant: the end of the stream is reported before the buffer is empty. *)
EndOfStreamEarly == finished /\ echoed = sent /\ Arrived = 0

(* The peer has closed its side, and nothing is left to read. *)
EndOfStream == finished /\ echoed = sent /\ Arrived = 0 /\ buf = 0

ReadEnd ==
  /\ pc = "drain"
  /\ EndOfStream
  /\ on \notin dead /\ ~reset
  /\ Goto("record")
  /\ Record(VU, "request", sent)
  /\ UNCHANGED <<sent, received, streamVars, doneVars, restVars>>

ReadFails ==
  /\ pc = "drain"
  /\ Broken /\ buf = 0
  /\ Return
  /\ UNCHANGED <<doneVars, restVars, logVars>>

Recorded ==
  /\ pc = "record"
  /\ at[VU] = "out"
  /\ Return
  /\ UNCHANGED <<doneVars, restVars, logVars>>

(* The deadline passes; under ffi nothing looks at it. *)
Expire ==
  /\ impl = "go"
  /\ pc \notin {"idle", "record"}
  /\ ~expired
  /\ expired' = TRUE
  /\ UNCHANGED <<pc, sent, received, on, streamVars, doneVars, restVars,
                 logVars>>

-----------------------------------------------------------------------------
(* The end of a connection *)

CloseOnce(k) == closes' = [closes EXCEPT ![k] = IF @ = 0 THEN 1 ELSE @]

(* Done of a Go connection is its context's, of which the end is part. *)
Ends(k) ==
  /\ dead' = dead \cup {k}
  /\ IF impl = "go" THEN CloseOnce(k) ELSE UNCHANGED closes

ConnDies(k) ==
  /\ k <= dials /\ k \notin dead
  /\ Ends(k)
  /\ UNCHANGED <<callVars, streamVars, parked, closing, hung, restVars, logVars>>

(* From here on no call on the connection returns, the one that waits for its
   end included. *)
ConnHangs(k) ==
  /\ impl = "ffi"
  /\ k <= dials /\ k \notin hung
  /\ hung' = hung \cup {k}
  /\ UNCHANGED <<callVars, streamVars, dead, parked, closes, closing, restVars,
                 logVars>>

(* Mutant: the goroutine returns and tells nobody. *)
AnnounceForgotten(k) == UNCHANGED closes

Announce(k) == CloseOnce(k)

(* The goroutine of newConn returns from Closed. *)
WaiterCloses(k) ==
  /\ k \in parked /\ k \in dead /\ k \notin hung
  /\ parked' = parked \ {k}
  /\ Announce(k)
  /\ UNCHANGED <<callVars, streamVars, dead, closing, hung, restVars, logVars>>

(* Close of the client on another goroutine, up to the end of CloseWithError's
   call into the implementation, ... *)
ClientCloses ==
  /\ cur # 0 /\ closing = 0
  /\ cur' = 0
  /\ closing' = IF impl = "ffi" THEN cur ELSE 0
  /\ Ends(cur)
  /\ UNCHANGED <<callVars, streamVars, parked, hung, impl, requests, dials,
                 others, logVars>>

(* ... and the rest of it. *)
CloserCloses ==
  /\ closing # 0 /\ closing \notin hung
  /\ CloseOnce(closing)
  /\ closing' = 0
  /\ UNCHANGED <<callVars, streamVars, dead, parked, hung, restVars, logVars>>

-----------------------------------------------------------------------------
(* The peer, and the VUs that record other results *)

InStream == pc \in {"close", "drain"}

PeerEchoes ==
  /\ InStream
  /\ echoed < sent
  /\ on \notin dead /\ ~reset
  /\ echoed' = echoed + 1
  /\ UNCHANGED <<callVars, finished, reset, buf, doneVars, restVars, logVars>>

PeerResets ==
  /\ InStream \/ pc = "write"
  /\ on \notin dead /\ ~reset
  /\ reset' = TRUE
  /\ UNCHANGED <<callVars, echoed, finished, buf, doneVars, restVars, logVars>>

OtherRecords(w, c) ==
  /\ others[w] < MaxOthers
  /\ Record(w, c, Payload)
  /\ others' = [others EXCEPT ![w] = @ + 1]
  /\ UNCHANGED <<callVars, streamVars, doneVars, impl, requests, cur, dials>>

Log(w) ==
  /\ LogStep(w)
  /\ UNCHANGED <<callVars, streamVars, doneVars, restVars>>

-----------------------------------------------------------------------------
(* A call on the stream of the request can return. *)
Answers == on \notin hung

(* The steps of a request that wait for nobody. *)
RequestGoesOn ==
  \/ Answers /\ (\/ OpenFails \/ WriteFails \/ CloseWrite \/ CloseFails
                 \/ Read \/ ReadFails)
  \/ ReadBuffered \/ Recorded

Next ==
  \/ Reuse \/ Dial \/ DialFails
  \/ Answers /\ (Open \/ Write \/ ReadEnd)
  \/ RequestGoesOn
  \/ Expire
  \/ \E k \in ConnIds : ConnDies(k) \/ ConnHangs(k) \/ WaiterCloses(k)
  \/ ClientCloses \/ CloserCloses
  \/ PeerEchoes \/ PeerResets
  \/ \E w \in Writers \ {VU}, c \in Cells : OtherRecords(w, c)
  \/ \E w \in Writers : Log(w)

Spec == Init /\ [][Next]_vars

(* A call that can return does, unless its connection hangs, which it may at
   any time under ffi; the timer of the context fires, goroutines go on and l.mu
   is handed over.  Neither the peer nor the network owe anything, not even room
   for a stream or for the payload. *)
FairSpec ==
  /\ Spec
  /\ WF_vars(RequestGoesOn) /\ WF_vars(Expire)
  /\ \A k \in ConnIds : WF_vars(WaiterCloses(k))
  /\ WF_vars(CloserCloses)
  /\ \A w \in Writers : SF_vars(Log(w))

-----------------------------------------------------------------------------
(* A request that succeeds has read the whole response, however its reads were
   cut, before it records, and the line of a Go client's request is about the
   whole payload, as results.go:307-311 has it of every client's.  (That of an
   ffi one is about what its one Write took, which may be less: this property
   says nothing of it.) *)
LineMeansRoundTrip ==
  /\ pc = "record" =>
       /\ received = echoed /\ buf = 0
       /\ at[VU] # "out" => line[VU].bytes = sent
  /\ impl = "go" =>
       \A i \in DOMAIN file : file[i].by = VU => file[i].bytes = Payload

(* No healthy connection is taken for a dead one, and the end of one is
   announced or somebody is still there to do so, whichever of the goroutine
   that waits for it and a Close comes first (backend_ffi.go:160-171,
   204-208). *)
EndAnnounced ==
  \A k \in ConnIds : k <= dials =>
    /\ Done(k) => k \in dead
    /\ k \in dead => Done(k) \/ k \in parked

(* The client learns of the end of a connection, unless its calls hang: it does
   not go on handing out a dead one, on which every stream would fail
   (client.go:221-227). *)
DeadIsNoticed == \A k \in ConnIds : k \in dead ~> Done(k) \/ k \in hung

(* A Go request ends, by its timeout at the latest, whatever the peer does; an
   ffi one, which nothing interrupts, ends when its connection does, unless the
   calls on that connection hang, from which nothing frees it
   (client.go:803, backend_ffi.go:249-255, src/ffi/README.md:64-80). *)
RequestEnds ==
  pc # "idle" /\ (impl = "go" \/ on \in dead)
    ~> pc = "idle" \/ on \in hung
=============================================================================

----------------------------- MODULE MCClient -----------------------------
(***************************************************************************)
(* Small instances of Client for TLC.  The callers and clients of each     *)
(* instance are defined here; a .cfg picks one and bounds the endpoints,   *)
(* connections and topics that can ever be made.                           *)
(***************************************************************************)
EXTENDS Client, TLC

CONSTANTS c1, c2, t1, t2, t3

(* What newClient makes of a script's configuration, as far as Client is
   concerned. *)
NewClient == INSTANCE ClientConfig WITH
               Registered <- {"go", "ffi"}, RelayURLs <- {"relay"}

Raw(scope, impl, relay) ==
  [target |-> "endpoint ticket", alpn |-> "", scope |-> scope, peer |-> "",
   impl |-> impl, relay |-> relay, relayURL |-> "relay"]

Validated(raw) ==
  LET c == NewClient!newClient(raw) IN
    [scope |-> c.scope, impl |-> c.impl, relay |-> c.relay]

(* Three goroutines on one vu-scoped client. *)
OneClient == {c1}
OneClientConfig == c1 :> Validated(Raw("", "", ""))
ThreeCallers == {t1, t2, t3}
Everything == [t \in {t1, t2, t3} |-> Ops]
AllOnOne == t1 :> c1 @@ t2 :> c1 @@ t3 :> c1

(* A VU with two goroutines on its client, and another whose relay options and
   implementation differ: whichever binds the shared endpoint first is the only
   one whose workloads run. *)
TwoClients == {c1, c2}
Disagreeing == c1 :> Validated(Raw("shared", "", ""))
            @@ c2 :> Validated(Raw("shared", "ffi", "disabled"))
TwoOnFirst == t1 :> c1 @@ t2 :> c1 @@ t3 :> c2
Divided == t1 :> {"transfer", "gossip", "close"}
        @@ t2 :> {"transfer", "gossip", "snapshot"}
        @@ t3 :> {"transfer", "gossip"}

(* The same options under two implementations. *)
TwoCallers == {t1, t2}
MixedImpl == c1 :> Validated(Raw("shared", "", ""))
          @@ c2 :> Validated(Raw("shared", "ffi", ""))
FirstTwo == t1 :> c1 @@ t2 :> c2
Transfers == [t \in TwoCallers |-> {"transfer"}]

HandleSymmetry ==
  Permutations(Endpoints) \cup Permutations(Conns) \cup Permutations(Topics)
CallerSymmetry == HandleSymmetry \cup Permutations(Callers)
=============================================================================

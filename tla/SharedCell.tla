---------------------------- MODULE SharedCell ----------------------------
(***************************************************************************)
(* What RootModule.sharedEndpoint promises the clients of a test, without  *)
(* the mutex, the blocking bind and its failures: a cell that is filled at *)
(* most once, by some user with that user's key, and whose value is handed *)
(* from then on, unchanged, to the users with the same key and to no other.*)
(***************************************************************************)
CONSTANTS
  Users,   \* those who ask for the value
  Values,  \* what the cell can be filled with
  Key,     \* the key of each user
  Empty    \* no value, no key

VARIABLES
  cell,    \* the value, Empty until it is filled
  key,     \* the key it was filled with
  got      \* the value each user has in hand

cellVars == <<cell, key, got>>

CellInit ==
  /\ cell = Empty
  /\ key = Empty
  /\ got = [u \in Users |-> Empty]

Fill(u, v) ==
  /\ cell = Empty
  /\ cell' = v
  /\ key' = Key[u]
  /\ got' = [got EXCEPT ![u] = v]

Get(u) ==
  /\ cell # Empty
  /\ key = Key[u]
  /\ got' = [got EXCEPT ![u] = cell]
  /\ UNCHANGED <<cell, key>>

Drop(u) ==
  /\ got' = [got EXCEPT ![u] = Empty]
  /\ UNCHANGED <<cell, key>>

CellNext ==
  \E u \in Users : (\E v \in Values : Fill(u, v)) \/ Get(u) \/ Drop(u)

CellSpec == CellInit /\ [][CellNext]_cellVars
=============================================================================

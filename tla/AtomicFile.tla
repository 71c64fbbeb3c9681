------------------------------ MODULE AtomicFile ------------------------------
(***************************************************************************)
(* What a caller of safe_write may count on: the file is replaced whole,   *)
(* one version after the other; a power loss falls back to a version at or *)
(* after the last one that is known to be on disk, never to a torn one.    *)
(***************************************************************************)
EXTENDS Naturals

VARIABLES version,  \* the version a reader sees
          durable   \* the oldest version a power loss may bring back

vars == <<version, durable>>

Init == version = 0 /\ durable = 0

Replace == version' = version + 1 /\ UNCHANGED durable
Settle == durable' = version /\ UNCHANGED version
PowerLoss == version' \in durable .. version /\ durable' = version'

Next == Replace \/ Settle \/ PowerLoss

Spec == Init /\ [][Next]_vars
=============================================================================

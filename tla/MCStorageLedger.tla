--------------------------- MODULE MCStorageLedger ---------------------------
(***************************************************************************)
(* Instances of the storage ledger for TLC: who is registered where.       *)
(***************************************************************************)
EXTENDS StorageLedger

CONSTANTS c1, s1, s2

OneStore == Clients \X {s1}
UnevenStores == OneStore \union {<<c1, s2>>}
=============================================================================

------------------------------- MODULE MCAlign -------------------------------
(***************************************************************************)
(* An instance of the alignment for TLC: sigmond itself, a library, radiod *)
(* and a client that reads radiod and runs from the library too.           *)
(***************************************************************************)
EXTENDS Align

MCPlan == <<"sigmond", "lib", "radiod", "client">>
MCServices == {"radiod", "client"}
MCUses == [s \in MCServices |-> IF s = "client" THEN {"client", "lib"} ELSE {"radiod"}]
=============================================================================

---------------------------- MODULE MCApiProcess ----------------------------
(***************************************************************************)
(* A small instance of ApiProcess for TLC: one connection to Redis, and    *)
(* one task in one project.                                                *)
(***************************************************************************)
EXTENDS ApiProcess, TLC

CONSTANTS r1, r2

(* A listing or a writer, beside another writer or a probe.                *)
MCKinds == (r1 :> {"list", "change"}) @@ (r2 :> Writers \cup {"health"})

MCTask == {1}
=============================================================================

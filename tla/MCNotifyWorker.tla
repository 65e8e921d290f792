--------------------------- MODULE MCNotifyWorker ---------------------------
(***************************************************************************)
(* Small instances of NotifyWorker for TLC.                                *)
(***************************************************************************)
EXTENDS NotifyWorker, TLC

CONSTANTS t1, j1, j2, w1, w2

(* A job from each handler, both about one task.                           *)
MCAboutOne == (j1 :> t1) @@ (j2 :> t1)
MCOrigin   == (j1 :> "create") @@ (j2 :> "update")
=============================================================================

------------------------------- MODULE MCInbox -------------------------------
(***************************************************************************)
(* A small instance of Inbox for TLC: a marking, a second request that     *)
(* marks or deletes, a third that deletes or turns the pages, and a scan   *)
(* that reports both tasks.                                                *)
(***************************************************************************)
EXTENDS Inbox, TLC

CONSTANTS r1, r2, r3, r4, u1, u2

MCRecipient == (1 :> u1) @@ (2 :> u1) @@ (3 :> u1) @@ (4 :> u2)
MCAbout     == (1 :> 2) @@ (2 :> 1) @@ (3 :> 1) @@ (4 :> 2)

MarkOne(u, n) == [kind |-> "mark", user |-> u, note |-> n]
MarkAll(u)    == [kind |-> "mark_all", user |-> u]
Show(s)       == [kind |-> "list", user |-> u1, show |-> s]

Both          == [kind |-> "delete_project", tasks |-> {1, 2}]

Notify        == [kind |-> "notify", notes |-> {3}]
Scan          == [kind |-> "scan", notes |-> {3, 4}]

MCCalls ==
    (r1 :> {MarkAll(u1), MarkOne(u1, 2), MarkOne(u2, 1)})
    @@ (r2 :> {MarkAll(u1), [kind |-> "delete_task", tasks |-> {1}], Both})
    @@ (r3 :> {Both, Show({FALSE}), Show(BOOLEAN)})
    @@ (r4 :> {Notify, Scan})
=============================================================================

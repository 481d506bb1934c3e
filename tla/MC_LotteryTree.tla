-------------------------- MODULE MC_LotteryTree --------------------------
(* Model-checking instance of LotteryTree with four tasks: the least for   *)
(* a node with two children below the root, whose accu_ticket the descent *)
(* reads.  The tasks start with tickets 1, 2, 1, 2: equal and different   *)
(* tickets, so the descent of insert_lottery_rb_task goes both ways.      *)
EXTENDS LotteryTree, TLC

CONSTANTS t1, t2, t3, t4

MC_Tasks == {t1, t2, t3, t4}
MC_Tickets == {1, 2}
MC_InitTickets == {(t1 :> 1 @@ t2 :> 2 @@ t3 :> 1 @@ t4 :> 2)}
=============================================================================

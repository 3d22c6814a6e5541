------------------------------ MODULE MCShutdown ------------------------------
(* Values for ShutdownCoordinator: three stages and late timers, with a       *)
(* deadline that the first stage cannot use up and the second can.            *)
EXTENDS ShutdownCoordinator, SequencesExt

SumTo(t, i, lag) == FoldLeft(+, 0, SubSeq(t, 1, i - 1)) + (i - 1) * lag
BudgetOf(t, lag) == [i \in 1..(Len(t) + 1) |-> SumTo(t, i, lag)]

TightTimeout == <<3, 2, 2>>
TightBudget == BudgetOf(TightTimeout, 2)
=============================================================================

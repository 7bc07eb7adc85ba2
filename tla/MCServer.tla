------------------------------- MODULE MCServer -------------------------------
(* Server with the kinds of pools there are: one of a channel, of which a   *)
(* page may wait, and three of a semaphore.                                 *)
EXTENDS Server

MCKinds ==
  {[queue |-> TRUE,  jobs |-> 3, failing |-> "skip"],
   [queue |-> FALSE, jobs |-> 2, failing |-> "skip"],
   [queue |-> FALSE, jobs |-> 2, failing |-> "replace"],
   [queue |-> FALSE, jobs |-> 2, failing |-> "fail"]}
=============================================================================

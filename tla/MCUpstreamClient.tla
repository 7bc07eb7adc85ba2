-------------------------- MODULE MCUpstreamClient --------------------------
(* UpstreamClient on small sets. *)
EXTENDS UpstreamClient, TLC

(* none, less than the cap on delays, more than it, and a date *)
MCRetryAfter == {[asks |-> 0, seconds |-> TRUE], [asks |-> 2, seconds |-> TRUE],
                 [asks |-> 4, seconds |-> TRUE], [asks |-> 2, seconds |-> FALSE]}
NoRetryAfter == {[asks |-> 0, seconds |-> TRUE]}
=============================================================================

----------------------------- MODULE MCOnFinish -----------------------------
(* Small instances of OnFinish for TLC. *)
EXTENDS OnFinish

\* Retries by default, which are 1.
TwoHooks == {[sink |-> "http", retries |-> 0], [sink |-> "command", retries |-> 1]}

\* A job that inherits the hook of the instance.
Inheriting == {[live |-> TRUE, hook |-> None, inherit |-> TRUE, last |-> None]}

=============================================================================

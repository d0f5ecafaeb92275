-------------------------- MODULE MCOutboxDispatch --------------------------
(* Small instances of OutboxDispatch for TLC.                              *)
EXTENDS OutboxDispatch, TLC

CONSTANTS e1, e2, w1, w2

=============================================================================

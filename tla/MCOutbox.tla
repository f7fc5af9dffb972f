------------------------------ MODULE MCOutbox ------------------------------
(* Small instances of Outbox. *)
EXTENDS Outbox

CONSTANTS r1, r2, w1, w2

=============================================================================

----------------------------- MODULE ChainedLog -----------------------------
(***************************************************************************)
(* What the audit store promises its readers (Verify, Walk, List, the      *)
(* transparency worker): a set of rows that only grows.  A step appends    *)
(* rows of a single tenant, with new ids, above everything that tenant has *)
(* stored, and the tenant's chain is intact afterwards.                    *)
(***************************************************************************)
EXTENDS ChainBase

VARIABLE log

Init == log = {}

Fresh(new, old) ==
  /\ \A p \in new, q \in old : p.id # q.id
  /\ \A p, q \in new : p.id = q.id => p = q

Append(t) ==
  LET new == log' \ log IN
    /\ log \subseteq log'
    /\ \A r \in new : r.tenant = t
    /\ \A r \in new, q \in RowsOf(log, t) : q.seq < r.seq
    /\ Fresh(new, log)
    /\ ChainOK(RowsOf(log', t))

Next == \E t \in Tenants : Append(t)

Spec == Init /\ [][Next]_log

=============================================================================

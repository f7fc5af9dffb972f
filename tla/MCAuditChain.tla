---------------------------- MODULE MCAuditChain ----------------------------
(* Small instances of AuditChain. *)
EXTENDS AuditChain

CONSTANTS t1, t2, w1, w2, a, b, c

MCTimes == {1}
MCData == {"plain", "secret", "scrubbed", "invalid"}
MCValidData == MCData \ {"invalid"}
MCRedact == [d \in MCData |-> IF d = "secret" THEN "scrubbed" ELSE d]

E(i, d) == [id |-> i, ts |-> 1, data |-> d]

\* Two requests that insert the same ids in opposite orders and with other
\* content, so that each may wait for the other's id.  One of them holds an
\* invalid event, the other repeats an id and appends to what the first stored.
MCBatches ==
  { <<E(a, "plain"), E(c, "invalid"), E(b, "secret")>>,
    <<E(b, "plain"), E(b, "plain"), E(a, "secret"), E(c, "plain")>> }

=============================================================================

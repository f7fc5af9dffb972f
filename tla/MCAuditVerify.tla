---------------------------- MODULE MCAuditVerify ----------------------------
(* Small instances of AuditVerify. *)
EXTENDS AuditVerify, TLC

CONSTANTS t1, t2, w1, w2, v1, v2, a, b, c

MCTimes == {1, 2}
MCData == {"x", "y"}
MCRedact == [d \in MCData |-> d]

E(i, time) == [id |-> i, ts |-> time, data |-> "x"]

\* Timestamps out of chain order.  The second request, sent after the first,
\* adds only b, and if it is aborted once leaves a gap before b.
MCBatches == { <<E(a, 2)>>, <<E(a, 2), E(b, 1)>>, <<E(b, 1), E(c, 2)>> }

Full == [from |-> 1, to |-> 2]
Late == [from |-> 2, to |-> 2]
MCWindows == {Full, Late}
MCFullWindow == {Full}

MCSymmetry == Permutations({v1, v2}) \cup Permutations({w1, w2})

\* Answers to writers are only recorded: no step of a writer or a verification
\* reads acked, and no property of verification does.
MCView == <<rows, nextSeq, lock, pc, tenant, batch, todo, prevHash, existing,
            toInsert, inserted, vvars>>

=============================================================================

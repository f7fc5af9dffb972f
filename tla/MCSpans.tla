------------------------------ MODULE MCSpans ------------------------------
(* Small instances of Spans. *)
EXTENDS Spans, TLC

CONSTANTS c1, c2

Req(id, exec, parent, causes, status, content) ==
  [id |-> id, exec |-> exec, ident |-> "n", parent |-> parent,
   causes |-> causes, status |-> status, content |-> content]

\* A span a with a start and two rival ends, one of them without a cost; a
\* child b, as a start and an end, at once, and in another execution; and a
\* start of a that would close a cycle.
MCRequests ==
  { Req("a", "x", None, {}, "RUNNING", "s"),
    Req("a", "x", None, {}, "COMPLETED", "tokens"),
    Req("a", "x", None, {}, "FAILED", "e"),
    Req("a", "x", None, {"b"}, "RUNNING", "s"),
    Req("b", "x", "a", {}, "RUNNING", "s"),
    Req("b", "x", "a", {}, "COMPLETED", "e"),
    Req("b", "y", None, {"a"}, "COMPLETED", "e") }

MCFewRequests == { Req("a", "x", None, {}, "RUNNING", "s"),
                   Req("a", "x", None, {}, "COMPLETED", "tokens") }

MCEvents == { [id |-> <<"client", "e">>, exec |-> "x", span |-> "a", kind |-> "note",
               payload |-> [note |-> p]] : p \in {"p", "q"} }

MCSymmetry == Permutations({c1, c2})

=============================================================================

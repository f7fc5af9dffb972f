----------------------------- MODULE CollectorProofs -----------------------------
(***************************************************************************)
(* What the collector's spool guarantees, for any sessions, hooks and      *)
(* workers: nothing is lost, and what the server applies is one sequence   *)
(* of prepared operations.  That proof looks neither at the sizes nor at   *)
(* the server: whether a write fits or a request is accepted is left open. *)
(* The second half of the module does look at the handlers and the server: *)
(* no execution and no tool span is left open behind.                      *)
(***************************************************************************)
EXTENDS Collector, TLAPS, NaturalsInduction, WellFoundedInduction

\* A sequence over whatever it holds.
IsSeq(q) == \E n \in Nat : q = [i \in 1 .. n |-> q[i]]

\* A set of naturals that is not empty has a least element.
LEMMA LeastOf ==
  ASSUME NEW T, T \subseteq Nat, T # {}
  PROVE  \E x \in T : \A y \in T : x <= y
<1> DEFINE R == OpToRel(<, Nat)
<1>1. IsWellFoundedOn(R, Nat)
  BY NatLessThanWellFounded
<1>2. \A x, y \in Nat : x < y => <<x, y>> \in R
  BY DEF OpToRel
<1> HIDE DEF R
<1>3. PICK x \in T : \A y \in T : ~(<<y, x>> \in R)
  BY <1>1, WFMin
<1>4. ASSUME NEW y \in T PROVE x <= y
  <2>1. x \in Nat /\ y \in Nat
    OBVIOUS
  <2>2. ~(y < x)
    BY <1>2, <1>3, <2>1
  <2> QED BY <2>1, <2>2
<1> QED BY <1>4

\* Every member of a set of sequences is one.
LEMMA SeqIsSeq == ASSUME NEW S, NEW q \in Seq(S) PROVE IsSeq(q)
BY DEF IsSeq

\* A sequence is one over some set.
LEMMA IsSeqOf ==
  ASSUME NEW q, IsSeq(q)
  PROVE  \E S : q \in Seq(S)
<1>1. PICK n \in Nat : q = [i \in 1 .. n |-> q[i]] BY DEF IsSeq
<1>2. PICK S : S = {q[i] : i \in 1 .. n} OBVIOUS
<1>3. \A i \in 1 .. n : q[i] \in S BY <1>2
<1>4. q \in Seq(S) BY <1>1, <1>3
<1> QED BY <1>4

\* Appending makes a sequence one longer.
LEMMA AppendIsSeq ==
  ASSUME NEW q, IsSeq(q), NEW x
  PROVE  IsSeq(Append(q, x)) /\ Len(Append(q, x)) = Len(q) + 1
<1>1. PICK S : q \in Seq(S) BY IsSeqOf
<1>2. PICK T : T = S \cup {x} OBVIOUS
<1>3. q \in Seq(T) BY <1>1, <1>2
<1>4. Append(q, x) \in Seq(T) BY <1>2, <1>3
<1>5. IsSeq(Append(q, x)) BY <1>4, SeqIsSeq
<1> QED BY <1>3, <1>2, <1>5

\* Concatenation adds the lengths.
LEMMA CatIsSeq ==
  ASSUME NEW q, IsSeq(q), NEW r, IsSeq(r)
  PROVE  IsSeq(q \o r) /\ Len(q \o r) = Len(q) + Len(r) /\ Len(q) \in Nat /\ Len(r) \in Nat
<1>1. PICK A : q \in Seq(A) BY IsSeqOf
<1>2. PICK B : r \in Seq(B) BY IsSeqOf
<1>3. PICK T : T = A \cup B OBVIOUS
<1>4. q \in Seq(T) /\ r \in Seq(T) BY <1>1, <1>2, <1>3
<1>5. q \o r \in Seq(T) BY <1>4
<1>6. IsSeq(q \o r) BY <1>5, SeqIsSeq
<1> QED BY <1>4, <1>6

\* The empty sequence, and a single element.
LEMMA ShortIsSeq ==
  /\ IsSeq(<<>>) /\ Len(<<>>) = 0
  /\ \A x : IsSeq(<<x>>) /\ Len(<<x>>) = 1
<1>1. <<>> \in Seq({}) OBVIOUS
<1>2. ASSUME NEW x PROVE IsSeq(<<x>>) /\ Len(<<x>>) = 1
  <2>1. <<x>> \in Seq({x}) OBVIOUS
  <2> QED BY <2>1, SeqIsSeq
<1> QED BY <1>1, <1>2, SeqIsSeq

\* The length and the domain of a sequence.
LEMMA LenIsNat == ASSUME NEW q, IsSeq(q) PROVE Len(q) \in Nat /\ DOMAIN q = 1 .. Len(q)
BY IsSeqOf

\* A sequence without its element i.
LEMMA PartsAreSeq ==
  ASSUME NEW q, IsSeq(q), NEW i \in DOMAIN q
  PROVE  IsSeq(SubSeq(q, 1, i - 1) \o SubSeq(q, i + 1, Len(q)))
<1>1. PICK S : q \in Seq(S) BY IsSeqOf
<1>2. SubSeq(q, 1, i - 1) \in Seq(S) BY <1>1
<1>3. SubSeq(q, i + 1, Len(q)) \in Seq(S) BY <1>1
<1>4. SubSeq(q, 1, i - 1) \o SubSeq(q, i + 1, Len(q)) \in Seq(S) BY <1>2, <1>3
<1> QED BY <1>4, SeqIsSeq

-----------------------------------------------------------------------------
(***************************************************************************)
(* Batches, a recursive function: it exists, and what it yields.           *)
(***************************************************************************)
\* A span joins the last batch or makes a new one.
LEMMA PackedIsSeq ==
  ASSUME NEW done, IsSeq(done), NEW exec, NEW span, NEW limit
  PROVE  IsSeq(Packed(done, exec, span, limit))
<1>1. IsSeq(Append(done, SpansOp(exec, <<span>>)))
  BY AppendIsSeq
<1>2. PICK n \in Nat : done = [i \in 1 .. n |-> done[i]]
  BY DEF IsSeq
<1>3. ASSUME NEW k, NEW x
      PROVE  IsSeq([done EXCEPT ![k].spans = x])
  <2>1. PICK d : d = [done EXCEPT ![k].spans = x]
    OBVIOUS
  <2>2. DOMAIN d = 1 .. n /\ d = [i \in 1 .. n |-> d[i]]
    BY <1>2, <2>1
  <2> QED BY <2>1, <2>2 DEF IsSeq
<1>4. IsSeq([done EXCEPT ![Len(done)].spans = Append(@, span)])
  BY <1>3
<1> QED BY <1>1, <1>4 DEF Packed

\* The batches after each of the first k spans.
Packs(f, k, exec, spans, limit) ==
  /\ DOMAIN f = 0 .. k /\ f[0] = <<>>
  /\ \A n \in 1 .. k : f[n] = Packed(f[n - 1], exec, spans[n], limit)

\* There is such a function for every k: by the least k without one.
LEMMA PacksExist ==
  ASSUME NEW exec, NEW spans, NEW limit, NEW k \in Nat
  PROVE  \E f : Packs(f, k, exec, spans, limit)
<1> DEFINE T == {m \in Nat : ~ \E f : Packs(f, m, exec, spans, limit)}
<1> SUFFICES ASSUME k \in T PROVE FALSE
  OBVIOUS
<1>1. PICK m \in T : \A y \in T : m <= y
  <2>1. T \subseteq Nat /\ T # {}
    OBVIOUS
  <2> HIDE DEF T
  <2> QED BY <2>1, LeastOf
<1>2. m \in Nat /\ ~ \E f : Packs(f, m, exec, spans, limit)
  OBVIOUS
<1>3. m # 0
  <2>1. Packs([n \in 0 .. 0 |-> <<>>], 0, exec, spans, limit)
    BY DEF Packs
  <2> QED BY <1>2, <2>1
<1>4. PICK p \in Nat : m = p + 1
  <2>1. m - 1 \in Nat /\ m = (m - 1) + 1
    BY <1>2, <1>3
  <2> QED BY <2>1
<1>5. p \notin T
  BY <1>1, <1>4
<1>6. PICK f : Packs(f, p, exec, spans, limit)
  BY <1>5
<1>7. PICK g : g = [n \in 0 .. m |-> IF n = m THEN Packed(f[p], exec, spans[m], limit) ELSE f[n]]
  OBVIOUS
<1>8. Packs(g, m, exec, spans, limit)
  <2>1. DOMAIN g = 0 .. m /\ g[0] = <<>>
    BY <1>3, <1>4, <1>6, <1>7 DEF Packs
  <2>2. ASSUME NEW n \in 1 .. m
        PROVE  g[n] = Packed(g[n - 1], exec, spans[n], limit)
    <3>1. CASE n = m
      <4>1. n - 1 = p /\ p \in 0 .. m /\ p # m /\ n \in 0 .. m
        BY <1>4, <3>1
      <4> QED BY <1>7, <3>1, <4>1
    <3>2. CASE n # m
      <4>1. n \in 1 .. p /\ n \in 0 .. m /\ n - 1 \in 0 .. m /\ n - 1 # m
        BY <1>4, <3>2
      <4>2. f[n] = Packed(f[n - 1], exec, spans[n], limit)
        BY <1>6, <4>1 DEF Packs
      <4> QED BY <1>7, <3>2, <4>1, <4>2
    <3> QED BY <3>1, <3>2
  <2> QED BY <2>1, <2>2 DEF Packs
<1> QED BY <1>2, <1>8

\* Its values are sequences: by the first one that is not.
LEMMA PacksAreSeq ==
  ASSUME NEW exec, NEW spans, NEW limit, NEW k \in Nat,
         NEW f, Packs(f, k, exec, spans, limit)
  PROVE  IsSeq(f[k])
<1> DEFINE T == {m \in 0 .. k : ~IsSeq(f[m])}
<1> SUFFICES ASSUME T # {} PROVE FALSE
  OBVIOUS
<1>1. PICK m \in T : \A y \in T : m <= y
  <2>1. T \subseteq Nat
    OBVIOUS
  <2> HIDE DEF T
  <2> QED BY <2>1, LeastOf
<1>2. m \in 0 .. k /\ ~IsSeq(f[m])
  OBVIOUS
<1>3. m # 0
  BY <1>2, ShortIsSeq DEF Packs
<1>4. m - 1 \in 0 .. k /\ m \in 1 .. k /\ m - 1 < m
  BY <1>2, <1>3
<1>5. IsSeq(f[m - 1])
  BY <1>1, <1>4
<1> QED BY <1>2, <1>4, <1>5, PackedIsSeq DEF Packs

\* Batches is what its recursive definition says.
LEMMA BatchesPack ==
  ASSUME NEW exec, NEW spans, IsSeq(spans), NEW limit
  PROVE  \E f : /\ Packs(f, Len(spans), exec, spans, limit)
               /\ Batches(exec, spans, limit) = f[Len(spans)]
<1> DEFINE Body(f) == [i \in 0 .. Len(spans) |->
                         IF i = 0 THEN <<>> ELSE Packed(f[i - 1], exec, spans[i], limit)]
           c == CHOOSE f : f = Body(f)
<1>0. Len(spans) \in Nat
  BY LenIsNat
<1>1. PICK f : Packs(f, Len(spans), exec, spans, limit)
  BY <1>0, PacksExist
<1>2. PICK f2 : f2 = [i \in 0 .. Len(spans) |-> f[i]]
  OBVIOUS
<1>3. f2 = Body(f2)
  <2>1. ASSUME NEW i \in 0 .. Len(spans) PROVE f2[i] = Body(f2)[i]
    <3>1. CASE i = 0
      BY <1>1, <1>2, <3>1 DEF Packs
    <3>2. CASE i # 0
      <4>1. i \in 1 .. Len(spans) /\ i - 1 \in 0 .. Len(spans)
        BY <1>0, <3>2
      <4>2. f[i] = Packed(f[i - 1], exec, spans[i], limit)
        BY <1>1, <4>1 DEF Packs
      <4>3. f2[i] = f[i] /\ f2[i - 1] = f[i - 1]
        BY <1>2, <4>1
      <4>4. Body(f2)[i] = Packed(f2[i - 1], exec, spans[i], limit)
        BY <3>2
      <4> HIDE DEF Body
      <4> QED BY <4>2, <4>3, <4>4
    <3> QED BY <3>1, <3>2
  <2>2. f2 = [i \in 0 .. Len(spans) |-> f2[i]]
    BY <1>2
  <2> QED BY <2>1, <2>2
<1>4. c = Body(c)
  <2> HIDE DEF Body
  <2> QED BY <1>3, Zenon
<1>5. Batches(exec, spans, limit) = c[Len(spans)]
  BY DEF Batches
<1>6. Packs(c, Len(spans), exec, spans, limit)
  <2> HIDE DEF c
  <2>1. DOMAIN c = 0 .. Len(spans)
    BY <1>4
  <2>2. c[0] = <<>>
    <3>1. Body(c)[0] = <<>>
      BY <1>0
    <3> HIDE DEF Body
    <3> QED BY <1>4, <3>1
  <2>3. ASSUME NEW n \in 1 .. Len(spans)
        PROVE  c[n] = Packed(c[n - 1], exec, spans[n], limit)
    <3>1. n \in 0 .. Len(spans) /\ n # 0
      BY <1>0
    <3>2. Body(c)[n] = Packed(c[n - 1], exec, spans[n], limit)
      BY <3>1
    <3> HIDE DEF Body
    <3> QED BY <1>4, <3>2
  <2> QED BY <2>1, <2>2, <2>3 DEF Packs
<1> HIDE DEF c
<1> QED BY <1>5, <1>6

\* The batches are a sequence.
LEMMA BatchesIsSeq ==
  ASSUME NEW exec, NEW spans, IsSeq(spans), NEW limit
  PROVE  IsSeq(Batches(exec, spans, limit))
<1>1. Len(spans) \in Nat
  BY LenIsNat
<1>2. PICK f : /\ Packs(f, Len(spans), exec, spans, limit)
               /\ Batches(exec, spans, limit) = f[Len(spans)]
  BY BatchesPack
<1> QED BY <1>1, <1>2, PacksAreSeq

-----------------------------------------------------------------------------
(***************************************************************************)
(* The handlers: every one leaves a session state behind and prepares a    *)
(* sequence of operations, which is empty for the hooks of a tool only.    *)
(***************************************************************************)
\* A session state, with a sequence of pending spans.
IsState(st) ==
  \E exec, turn, pending, done, closed :
    /\ st = [exec |-> exec, turn |-> turn, pending |-> pending, done |-> done,
             closed |-> closed]
    /\ IsSeq(pending)

ToolEvents == {"pre-tool", "post-tool", "post-tool-failure"}

\* What a handler returns: only hooks of a tool may send nothing.
IsResult(r, ev) ==
  /\ IsState(r.state)
  /\ IsSeq(r.ops)
  /\ Len(r.ops) = 0 => ev \in ToolEvents

\* A record with the fields of a session state is one.
LEMMA StateIs ==
  ASSUME NEW exec, NEW turn, NEW pending, IsSeq(pending), NEW done, NEW closed
  PROVE  IsState([exec |-> exec, turn |-> turn, pending |-> pending, done |-> done,
                  closed |-> closed])
BY Zenon DEF IsState

\* The state of a session without a file.
LEMMA NoStateIsState == IsState(NoState)
BY ShortIsSeq DEF IsState, NoState

\* Replacing one field of a session state.
LEMMA FieldsKeepState ==
  ASSUME NEW st, IsState(st), NEW x
  PROVE  /\ IsState([st EXCEPT !.exec = x])
         /\ IsState([st EXCEPT !.turn = x])
         /\ IsState([st EXCEPT !.done = x])
         /\ IsState([st EXCEPT !.closed = x])
         /\ IsSeq(x) => IsState([st EXCEPT !.pending = x])
         /\ IsSeq(st.pending)
<1>1. PICK exec, turn, pending, done, closed :
        /\ st = [exec |-> exec, turn |-> turn, pending |-> pending, done |-> done,
                 closed |-> closed]
        /\ IsSeq(pending)
  BY DEF IsState
<1>2. IsState([st EXCEPT !.exec = x])
  <2>1. [st EXCEPT !.exec = x] = [exec |-> x, turn |-> turn, pending |-> pending,
                                  done |-> done, closed |-> closed]
    BY <1>1
  <2> QED BY <1>1, <2>1, StateIs
<1>3. IsState([st EXCEPT !.turn = x])
  <2>1. [st EXCEPT !.turn = x] = [exec |-> exec, turn |-> x, pending |-> pending,
                                  done |-> done, closed |-> closed]
    BY <1>1
  <2> QED BY <1>1, <2>1, StateIs
<1>4. IsState([st EXCEPT !.done = x])
  <2>1. [st EXCEPT !.done = x] = [exec |-> exec, turn |-> turn, pending |-> pending,
                                  done |-> x, closed |-> closed]
    BY <1>1
  <2> QED BY <1>1, <2>1, StateIs
<1>5. IsState([st EXCEPT !.closed = x])
  <2>1. [st EXCEPT !.closed = x] = [exec |-> exec, turn |-> turn, pending |-> pending,
                                    done |-> done, closed |-> x]
    BY <1>1
  <2> QED BY <1>1, <2>1, StateIs
<1>6. ASSUME IsSeq(x) PROVE IsState([st EXCEPT !.pending = x])
  <2>1. [st EXCEPT !.pending = x] = [exec |-> exec, turn |-> turn, pending |-> x,
                                     done |-> done, closed |-> closed]
    BY <1>1
  <2> QED BY <1>6, <2>1, StateIs
<1>7. IsSeq(st.pending)
  BY <1>1
<1> QED BY <1>2, <1>3, <1>4, <1>5, <1>6, <1>7

\* Deleting a pending span.
LEMMA DropIsState ==
  ASSUME NEW st, IsState(st), NEW key
  PROVE  IsState(Drop(st, key))
<1>1. IsSeq(st.pending)
  BY FieldsKeepState
<1>2. PICK at : at = {j \in DOMAIN st.pending : st.pending[j].key = key}
  OBVIOUS
<1>3. CASE at = {}
  BY <1>2, <1>3 DEF Drop
<1>4. CASE at # {}
  <2>1. PICK i : i = CHOOSE j \in at : TRUE
    OBVIOUS
  <2>2. i \in at
    BY <1>4, <2>1
  <2>3. i \in DOMAIN st.pending
    BY <1>2, <2>2
  <2>4. PICK x : x = SubSeq(st.pending, 1, i - 1) \o SubSeq(st.pending, i + 1, Len(st.pending))
    OBVIOUS
  <2>5. IsSeq(x)
    BY <1>1, <2>3, <2>4, PartsAreSeq
  <2>6. Drop(st, key) = [st EXCEPT !.pending = x]
    BY <1>2, <1>4, <2>1, <2>4 DEF Drop
  <2>7. IsState([st EXCEPT !.pending = x])
    BY <2>5, FieldsKeepState
  <2> QED BY <2>6, <2>7
<1> QED BY <1>3, <1>4

\* Recording a pending span.
LEMMA PutIsState ==
  ASSUME NEW st, IsState(st), NEW p
  PROVE  IsState(Put(st, p))
<1>1. IsState(Drop(st, p.key))
  BY DropIsState
<1>2. IsSeq(Append(Drop(st, p.key).pending, p))
  BY <1>1, FieldsKeepState, AppendIsSeq
<1> QED BY <1>2, FieldsKeepState DEF Put

\* ensureExecution, which may reset a closed session.
LEMMA EnsureIsState ==
  ASSUME NEW st, IsState(st), NEW h, NEW n
  PROVE  IsState(EnsureExecution(h, n, st))
<1>1. IsState(Reset(st))
  BY NoStateIsState DEF Reset
<1> QED BY <1>1, FieldsKeepState DEF EnsureExecution

\* A list that ends with an audit event.
LEMMA EndsWithAudit ==
  ASSUME NEW q, IsSeq(q), NEW x
  PROVE  /\ IsSeq(q \o <<x>>) /\ Len(q \o <<x>>) # 0
         /\ IsSeq(<<x>> \o q) /\ Len(<<x>> \o q) # 0
<1>1. IsSeq(<<x>>) /\ Len(<<x>>) = 1
  BY ShortIsSeq
<1>2. IsSeq(q \o <<x>>) /\ Len(q \o <<x>>) = Len(q) + 1 /\ Len(q) \in Nat
  BY <1>1, CatIsSeq
<1>3. IsSeq(<<x>> \o q) /\ Len(<<x>> \o q) = 1 + Len(q)
  BY <1>1, CatIsSeq
<1> QED BY <1>2, <1>3

\* What makes a result of a handler.
LEMMA ResultIs ==
  ASSUME NEW st, IsState(st), NEW ops, IsSeq(ops), NEW ev,
         Len(ops) = 0 => ev \in ToolEvents
  PROVE  IsResult(Result(st, ops), ev)
BY DEF IsResult, Result

\* One model span, or none.
LEMMA ModelSpanIsSeq ==
  ASSUME NEW h, NEW n, NEW parent
  PROVE  IsSeq(ModelSpan(h, n, parent))
BY ShortIsSeq DEF ModelSpan

\* Each handler of mapping.go: all but the tool handlers send an audit event.
LEMMA HandlersPrepare ==
  ASSUME NEW h, NEW n, NEW st, IsState(st), NEW limit
  PROVE  /\ IsResult(HandleSessionStart(h, n, st, limit), h.ev)
         /\ IsResult(HandleUserPrompt(h, n, st, limit), h.ev)
         /\ h.ev \in ToolEvents => IsResult(HandlePreTool(h, n, st, limit), h.ev)
         /\ h.ev \in ToolEvents => IsResult(HandlePostTool(h, n, st, limit), h.ev)
         /\ IsResult(Point(h, n, st, limit), h.ev)
         /\ IsResult(HandleNotification(h, n, st, limit), h.ev)
         /\ IsResult(HandleStop(h, n, st, limit), h.ev)
         /\ IsResult(HandleSessionEnd(h, n, st, limit), h.ev)
<1>0. PICK ens : ens = EnsureExecution(h, n, st)
  OBVIOUS
<1>1. IsState(ens)
  BY <1>0, EnsureIsState
<1>2. ASSUME NEW x PROVE IsSeq(<<x>>) /\ Len(<<x>>) # 0
  BY ShortIsSeq
<1>3. IsResult(HandleSessionStart(h, n, st, limit), h.ev)
  BY <1>0, <1>1, <1>2, ResultIs DEF HandleSessionStart
<1>4. IsResult(HandleUserPrompt(h, n, st, limit), h.ev)
  <2>1. PICK turn : turn = NewSpanID(h, n, "turn")
    OBVIOUS
  <2>2. IsState(Put([ens EXCEPT !.turn = turn], Start(Turn, turn, None)))
    BY <1>1, FieldsKeepState, PutIsState
  <2>3. IsSeq(Batches(ens.exec, <<Span(turn, "RUNNING", None, h.size)>>, limit))
    BY <1>2, BatchesIsSeq
  <2>4. PICK ops : ops = Batches(ens.exec, <<Span(turn, "RUNNING", None, h.size)>>, limit)
                           \o <<AuditOp(h, n)>>
    OBVIOUS
  <2>5. IsSeq(ops) /\ Len(ops) # 0
    BY <2>3, <2>4, EndsWithAudit
  <2>6. HandleUserPrompt(h, n, st, limit) =
          Result(Put([ens EXCEPT !.turn = turn], Start(Turn, turn, None)), ops)
    BY <1>0, <2>1, <2>4 DEF HandleUserPrompt
  <2> QED BY <2>2, <2>5, <2>6, ResultIs
<1>5. ASSUME h.ev \in ToolEvents
      PROVE  IsResult(HandlePreTool(h, n, st, limit), h.ev)
  <2>1. IsResult(Result(st, <<>>), h.ev)
    BY <1>5, ShortIsSeq, ResultIs
  <2>2. ASSUME NEW s, NEW back, NEW r, r = EnsureExecution(h, n, Put(st, s))
        PROVE  IsResult(Result(Put(r, back),
                  Batches(r.exec, <<Span(back.span, "RUNNING", r.turn, h.size)>>, limit)), h.ev)
    <3>1. IsState(Put(r, back))
      BY <2>2, PutIsState, EnsureIsState
    <3>2. IsSeq(Batches(r.exec, <<Span(back.span, "RUNNING", r.turn, h.size)>>, limit))
      BY <1>2, BatchesIsSeq
    <3> QED BY <1>5, <3>1, <3>2, ResultIs
  <2> QED BY <2>1, <2>2 DEF HandlePreTool
<1>6. ASSUME h.ev \in ToolEvents
      PROVE  IsResult(HandlePostTool(h, n, st, limit), h.ev)
  <2>1. IsResult(Result(st, <<>>), h.ev)
    BY <1>6, ShortIsSeq, ResultIs
  <2>2. ASSUME NEW s, NEW status, NEW r,
               r = EnsureExecution(h, n, [Drop(st, h.tool) EXCEPT
                                            !.done = @ \cup ({h.tool} \ Unkeyed)])
        PROVE  IsResult(Result(r, Batches(r.exec,
                             <<Span(s.span, status, s.parent, h.size)>>
                               \o ModelSpan(h, n, s.parent), limit)
                       \o <<AuditOp(h, n)>>), h.ev)
    <3>1. IsState([Drop(st, h.tool) EXCEPT !.done = @ \cup ({h.tool} \ Unkeyed)])
      BY DropIsState, FieldsKeepState
    <3>2. IsState(r)
      BY <2>2, <3>1, EnsureIsState
    <3>3. IsSeq(<<Span(s.span, status, s.parent, h.size)>> \o ModelSpan(h, n, s.parent))
      BY ModelSpanIsSeq, EndsWithAudit
    <3>4. IsSeq(Batches(r.exec, <<Span(s.span, status, s.parent, h.size)>>
                                  \o ModelSpan(h, n, s.parent), limit))
      BY <3>3, BatchesIsSeq
    <3>5. PICK ops : ops = Batches(r.exec, <<Span(s.span, status, s.parent, h.size)>>
                                  \o ModelSpan(h, n, s.parent), limit) \o <<AuditOp(h, n)>>
      OBVIOUS
    <3>6. IsSeq(ops)
      BY <3>4, <3>5, EndsWithAudit
    <3>7. IsResult(Result(r, ops), h.ev)
      BY <1>6, <3>2, <3>6, ResultIs
    <3> QED BY <3>5, <3>7
  <2> QED BY <2>1, <2>2 DEF HandlePostTool
<1>7. IsResult(Point(h, n, st, limit), h.ev)
  <2>1. IsSeq(Batches(ens.exec, <<Span(NewSpanID(h, n, "point"), "COMPLETED",
                                       ens.turn, h.size)>>, limit))
    BY <1>2, BatchesIsSeq
  <2>2. PICK ops : ops = Batches(ens.exec, <<Span(NewSpanID(h, n, "point"), "COMPLETED",
                                       ens.turn, h.size)>>, limit) \o <<AuditOp(h, n)>>
    OBVIOUS
  <2>3. IsSeq(ops) /\ Len(ops) # 0
    BY <2>1, <2>2, EndsWithAudit
  <2>4. Point(h, n, st, limit) = Result(ens, ops)
    BY <1>0, <2>2 DEF Point
  <2> QED BY <1>1, <2>3, <2>4, ResultIs
<1>8. IsResult(HandleNotification(h, n, st, limit), h.ev)
  BY <1>2, ResultIs DEF HandleNotification
<1>9. IsResult(HandleStop(h, n, st, limit), h.ev)
  <2>1. IsState([Drop(ens, Turn) EXCEPT !.turn = None])
    BY <1>1, DropIsState, FieldsKeepState
  <2>2. ASSUME NEW id, NEW close, IsSeq(close)
        PROVE  IsResult(Result([Drop(ens, Turn) EXCEPT !.turn = None],
                  Batches(ens.exec, close, limit)
                    \o EmitTurnComplete(h, n, ens.exec, id, limit)), h.ev)
    <3>1. IsSeq(Batches(ens.exec, close, limit))
      BY <2>2, BatchesIsSeq
    <3>2. IsSeq(Batches(ens.exec, ModelSpan(h, n, id), limit))
      BY ModelSpanIsSeq, BatchesIsSeq
    <3>3. PICK t : t = EmitTurnComplete(h, n, ens.exec, id, limit)
      OBVIOUS
    <3>4. IsSeq(t) /\ Len(t) # 0
      BY <3>2, <3>3, EndsWithAudit DEF EmitTurnComplete
    <3>5. IsSeq(Batches(ens.exec, close, limit) \o t)
          /\ Len(Batches(ens.exec, close, limit) \o t) # 0
      BY <3>1, <3>4, CatIsSeq
    <3> QED BY <2>1, <3>3, <3>5, ResultIs
  <2>3. IsSeq(<<>>)
    BY ShortIsSeq
  <2> QED BY <1>0, <1>2, <2>2, <2>3 DEF HandleStop
<1>10. IsResult(HandleSessionEnd(h, n, st, limit), h.ev)
  <2>1. IsState([st EXCEPT !.closed = TRUE])
    BY FieldsKeepState
  <2>2. PICK m \in Nat : st.pending = [i \in 1 .. m |-> st.pending[i]]
    BY FieldsKeepState DEF IsSeq
  <2>3. PICK x : x = Cancelled(st)
    OBVIOUS
  <2>4. x = [i \in 1 .. m |-> x[i]]
    BY <2>2, <2>3 DEF Cancelled
  <2>5. IsSeq(Cancelled(st))
    BY <2>3, <2>4 DEF IsSeq
  <2>6. IsSeq(Batches(st.exec, Cancelled(st), limit))
    BY <2>5, BatchesIsSeq
  <2>7. PICK a : a = IF st.exec # None THEN Batches(st.exec, Cancelled(st), limit) ELSE <<>>
    OBVIOUS
  <2>8. PICK b : b = IF st.exec # None THEN <<EndOp(st.exec, h)>> ELSE <<>>
    OBVIOUS
  <2>9. IsSeq(a) /\ IsSeq(b)
    BY <2>6, <2>7, <2>8, ShortIsSeq
  <2>10. IsSeq(a \o b)
    BY <2>9, CatIsSeq
  <2>11. IsSeq(a \o b \o <<AuditOp(h, n)>>) /\ Len(a \o b \o <<AuditOp(h, n)>>) # 0
    BY <2>10, EndsWithAudit
  <2>12. HandleSessionEnd(h, n, st, limit) =
           Result([st EXCEPT !.closed = TRUE], a \o b \o <<AuditOp(h, n)>>)
    BY <2>7, <2>8 DEF HandleSessionEnd
  <2> QED BY <2>1, <2>11, <2>12, ResultIs
<1> QED BY <1>3, <1>4, <1>5, <1>6, <1>7, <1>8, <1>9, <1>10

\* dispatchHook, for every event it knows.
LEMMA DispatchPrepares ==
  ASSUME NEW h, h.ev \in HookEvents, NEW n, NEW st, IsState(st), NEW limit
  PROVE  IsResult(DispatchHook(h, n, st, limit), h.ev)
<1>1. h.ev \in HookEvents
  OBVIOUS
<1> QED BY <1>1, HandlersPrepare
        DEF DispatchHook, HookEvents, ToolEvents, HandlePermission, HandleSubagentStop

-----------------------------------------------------------------------------
(***************************************************************************)
(* The inductive invariant.  LogInv relates the spool to what the server   *)
(* has applied; Holder says what the process that holds drain.lock knows   *)
(* about the spool between two of its steps.                               *)
(***************************************************************************)
Ids == Sessions \X Nat

\* An envelope, which knows of no more operations than it has.
IsEnvelope(e) ==
  \E id, prepared, state, ops, next, permanent, key, nonce :
    /\ e = [id |-> id, prepared |-> prepared, state |-> state, ops |-> ops,
            next |-> next, permanent |-> permanent, key |-> key, nonce |-> nonce]
    /\ prepared \in BOOLEAN /\ IsState(state) /\ IsSeq(ops)
    /\ next \in Nat /\ next <= Len(ops) /\ nonce \in Nat
    /\ ~prepared => next = 0

\* A hook that was prepared without operations is one of a tool.
Excused(e) == e.prepared /\ Len(e.ops) = 0 => HookOf(e.id).ev \in ToolEvents

RecordSet == [hook : Ids, nonce : Nat, idx : Nat \ {0}, of : Nat]

\* Operation i of a prepared envelope, as the server's history shows it.
Rec(e, i) == [hook |-> e.id, nonce |-> e.nonce, idx |-> i, of |-> Len(e.ops)]

Earlier(r, i) == [hook |-> r.hook, nonce |-> r.nonce, idx |-> i, of |-> r.of]

OrderInv ==
  /\ script \in Scripts /\ pos \in [Sessions -> Nat] /\ order \in Seq(Ids)
  /\ \A id \in Captured : id[2] <= pos[id[1]] /\ HookOf(id).ev \in HookEvents
  /\ \A i, j \in DOMAIN order :
       i < j /\ order[i][1] = order[j][1] => order[i][2] < order[j][2]

JournalInv ==
  /\ DOMAIN journal \subseteq Captured
  /\ \A id \in DOMAIN journal :
       /\ IsEnvelope(journal[id]) /\ journal[id].id = id /\ Excused(journal[id])
       /\ \A i \in 1 .. journal[id].next : Rec(journal[id], i) \in applied

\* r is an operation of envelope e, and e knows of all but the last one.
Matches(r, e) ==
  /\ e.prepared /\ r.nonce = e.nonce /\ r.of = Len(e.ops) /\ r.idx <= e.next + 1

AllGoneBefore(id) == \A other \in Captured : Before(other, id) => Gone(other)

AppliedInv ==
  /\ applied \subseteq RecordSet
  /\ \A r \in applied :
       /\ r.hook \in Captured /\ r.idx <= r.of
       /\ \A i \in 1 .. r.idx : Earlier(r, i) \in applied
       /\ AllGoneBefore(r.hook)
       /\ r.hook \in DOMAIN journal => Matches(r, journal[r.hook])
  /\ \A q, r \in applied : q.hook = r.hook => q.nonce = r.nonce /\ q.of = r.of

LogInv == OrderInv /\ JournalInv /\ AppliedInv /\ NothingLost

IsWorker(x) ==
  \E pc, todo, env, blocked, version :
    x = [pc |-> pc, todo |-> todo, env |-> env, blocked |-> blocked, git |-> version]

Active(x) == x.pc \in {"prepare", "save", "deliver", "record"}

\* What the lock protects.
Holder(x) ==
  /\ x.todo \subseteq DOMAIN journal
  /\ Active(x) =>
       /\ x.env.id \in DOMAIN journal /\ x.env.id \notin x.todo
       /\ journal[x.env.id] = x.env
       /\ x.env.id[1] \notin x.blocked
       /\ x.env.prepared <=> x.pc # "prepare"
       /\ AllGoneBefore(x.env.id)
  /\ x.pc = "record" => /\ x.env.next < Len(x.env.ops)
                        /\ Rec(x.env, x.env.next + 1) \in applied
  /\ \A id \in x.todo, other \in DOMAIN journal :
       Before(other, id) => \/ other \in x.todo
                            \/ Active(x) /\ other = x.env.id
                            \/ id[1] \in x.blocked

WorkerInv ==
  /\ lock \in Workers \cup {None} /\ DOMAIN w = Workers
  /\ \A p \in Workers :
       /\ IsWorker(w[p])
       /\ w[p].pc # "idle" <=> lock = p
       /\ w[p].pc # "idle" => Holder(w[p])

PlainInv ==
  /\ faults \in 0 .. MaxFaults /\ cfg \in DOMAIN Limits
  /\ DOMAIN files = Sessions /\ \A s \in Sessions : IsState(files[s])

IInv == LogInv /\ WorkerInv /\ PlainInv

-----------------------------------------------------------------------------
(***************************************************************************)
(* Lemmas about envelopes and the order of the spool.                      *)
(***************************************************************************)
\* A record with the fields of an envelope is one.
LEMMA EnvelopeIs ==
  ASSUME NEW id, NEW prepared \in BOOLEAN, NEW state, IsState(state),
         NEW ops, IsSeq(ops), NEW next \in Nat, next <= Len(ops),
         NEW permanent, NEW key, NEW nonce \in Nat, ~prepared => next = 0
  PROVE  IsEnvelope([id |-> id, prepared |-> prepared, state |-> state, ops |-> ops,
                     next |-> next, permanent |-> permanent, key |-> key, nonce |-> nonce])
BY Zenon DEF IsEnvelope

\* The fields of an envelope.
LEMMA EnvelopeTypes ==
  ASSUME NEW e, IsEnvelope(e)
  PROVE  /\ e.prepared \in BOOLEAN /\ IsState(e.state) /\ IsSeq(e.ops)
         /\ e.next \in Nat /\ e.next <= Len(e.ops) /\ e.nonce \in Nat
         /\ Len(e.ops) \in Nat /\ (~e.prepared => e.next = 0)
<1>1. PICK id, prepared, state, ops, next, permanent, key, nonce :
        /\ e = [id |-> id, prepared |-> prepared, state |-> state, ops |-> ops,
                next |-> next, permanent |-> permanent, key |-> key, nonce |-> nonce]
        /\ prepared \in BOOLEAN /\ IsState(state) /\ IsSeq(ops)
        /\ next \in Nat /\ next <= Len(ops) /\ nonce \in Nat
        /\ ~prepared => next = 0
  BY DEF IsEnvelope
<1>2. /\ e.prepared = prepared /\ e.state = state /\ e.ops = ops /\ e.next = next
      /\ e.nonce = nonce
  BY <1>1
<1> QED BY <1>1, <1>2, LenIsNat

\* The write of an envelope after a delivery.
LEMMA DeliveredIs ==
  ASSUME NEW e, IsEnvelope(e), e.prepared, e.next < Len(e.ops),
         NEW x, x = [e EXCEPT !.next = @ + 1, !.permanent = FALSE]
  PROVE  /\ IsEnvelope(x) /\ x.id = e.id /\ x.prepared /\ x.ops = e.ops
         /\ x.next = e.next + 1 /\ x.nonce = e.nonce /\ x.state = e.state
<1>1. PICK id, prepared, state, ops, next, permanent, key, nonce :
        /\ e = [id |-> id, prepared |-> prepared, state |-> state, ops |-> ops,
                next |-> next, permanent |-> permanent, key |-> key, nonce |-> nonce]
        /\ prepared \in BOOLEAN /\ IsState(state) /\ IsSeq(ops)
        /\ next \in Nat /\ next <= Len(ops) /\ nonce \in Nat
        /\ ~prepared => next = 0
  BY DEF IsEnvelope
<1>2. Len(ops) \in Nat
  BY <1>1, LenIsNat
<1>3. next + 1 \in Nat /\ next + 1 <= Len(ops) /\ prepared
  BY <1>1, <1>2
<1>4. x = [id |-> id, prepared |-> prepared, state |-> state, ops |-> ops,
           next |-> next + 1, permanent |-> FALSE, key |-> key, nonce |-> nonce]
  BY <1>1
<1>5. PICK m \in Nat : m = next + 1 /\ m <= Len(ops)
  BY <1>3
<1>6. IsEnvelope([id |-> id, prepared |-> prepared, state |-> state, ops |-> ops,
                  next |-> m, permanent |-> FALSE, key |-> key, nonce |-> nonce])
  BY <1>1, <1>3, <1>5, EnvelopeIs, Zenon
<1> QED BY <1>1, <1>3, <1>4, <1>5, <1>6

\* The entry that is taken first has no other entry of its session before it.
LEMMA FirstOfIs ==
  ASSUME OrderInv, NEW S, S # {}, S \subseteq Captured
  PROVE  FirstOf(S) \in S /\ \A other \in S : ~Before(other, FirstOf(S))
<1> DEFINE T == {i \in DOMAIN order : order[i] \in S}
           First(id) == \E i \in DOMAIN order :
                          order[i] = id /\ \A j \in DOMAIN order : order[j] \in S => i <= j
<1>0. order \in Seq(Ids)
  BY DEF OrderInv
<1>1. DOMAIN order = 1 .. Len(order) /\ Len(order) \in Nat
  BY <1>0
<1>2. PICK i \in T : \A j \in T : i <= j
  <2>1. T \subseteq Nat /\ T # {}
    BY <1>1 DEF Captured
  <2> HIDE DEF T
  <2> QED BY <2>1, LeastOf
<1>3. order[i] \in S /\ First(order[i])
  BY <1>2
<1>4. FirstOf(S) \in S /\ First(FirstOf(S))
  <2>1. FirstOf(S) = CHOOSE id \in S : First(id)
    BY DEF FirstOf
  <2> HIDE DEF First
  <2> QED BY <1>3, <2>1
<1>5. ASSUME NEW other \in S, Before(other, FirstOf(S)) PROVE FALSE
  <2>1. PICK k \in DOMAIN order :
          order[k] = FirstOf(S) /\ \A j \in DOMAIN order : order[j] \in S => k <= j
    BY <1>4
  <2>2. PICK j \in DOMAIN order : order[j] = other
    BY DEF Captured
  <2>3. k <= j /\ order[k] \in Ids /\ order[j] \in Ids
    BY <1>0, <2>1, <2>2
  <2>4. order[j][1] = order[k][1] /\ order[j][2] < order[k][2]
    BY <1>5, <2>1, <2>2 DEF Before
  <2>5. order[j][2] \in Nat /\ order[k][2] \in Nat
    BY <2>3 DEF Ids
  <2>6. k # j
    BY <2>4, <2>5
  <2>7. k < j
    BY <1>1, <2>3, <2>6
  <2>8. order[k][2] < order[j][2]
    BY <2>4, <2>7 DEF OrderInv
  <2> QED BY <2>4, <2>5, <2>8
<1> QED BY <1>4, <1>5

-----------------------------------------------------------------------------
(***************************************************************************)
(* Steps of the log.                                                       *)
(***************************************************************************)

\* The spool and the history do not change; sessions may go on.
LEMMA QuietLog ==
  ASSUME LogInv, UNCHANGED <<script, order, journal, applied>>,
         pos' \in [Sessions -> Nat], \A s \in Sessions : pos[s] <= pos'[s]
  PROVE  LogInv'
<1>1. OrderInv'
  <2>1. \A id \in Captured : id \in Ids
    BY DEF LogInv, OrderInv, Captured
  <2>2. ASSUME NEW id \in Captured PROVE id[2] <= pos'[id[1]]
    <3>1. id[1] \in Sessions /\ id[2] \in Nat
      BY <2>1 DEF Ids
    <3>2. id[2] <= pos[id[1]] /\ pos[id[1]] \in Nat /\ pos'[id[1]] \in Nat
      BY <3>1 DEF LogInv, OrderInv
    <3> QED BY <3>1, <3>2
  <2> QED BY <2>2 DEF LogInv, OrderInv, Captured, HookOf
<1>2. JournalInv' /\ AppliedInv' /\ NothingLost'
  BY DEF LogInv, JournalInv, AppliedInv, NothingLost, Captured, Gone, OpsOf, Excused, HookOf,
         AllGoneBefore
<1> QED BY <1>1, <1>2 DEF LogInv

\* One envelope is replaced and the operation after the ones it knows of may be
\* applied.
LEMMA EnvelopeStep ==
  ASSUME LogInv, UNCHANGED <<script, pos, order>>,
         NEW e, IsEnvelope(e), Excused(e), e.id \in DOMAIN journal,
         DOMAIN journal' = DOMAIN journal, journal'[e.id] = e,
         \A id \in DOMAIN journal : id # e.id => journal'[id] = journal[id],
         \A i \in 1 .. e.next : Rec(e, i) \in applied,
         \A r \in applied : r.hook = e.id => Matches(r, e),
         \/ applied' = applied
         \/ /\ applied' = applied \cup {Rec(e, e.next + 1)}
            /\ e.prepared /\ e.next < Len(e.ops) /\ AllGoneBefore(e.id)
  PROVE  LogInv'
<1>0. /\ e.next \in Nat /\ e.next <= Len(e.ops) /\ e.nonce \in Nat /\ Len(e.ops) \in Nat
      /\ e.id \in Captured /\ e.id \in Ids
  BY EnvelopeTypes DEF LogInv, JournalInv, OrderInv, Captured
<1>1. Captured' = Captured /\ \A id : Gone(id)' <=> Gone(id)
  BY DEF Captured, Gone
<1>2. OrderInv'
  BY <1>1 DEF LogInv, OrderInv, HookOf
<1>3. applied \subseteq applied'
  OBVIOUS
<1>4. JournalInv'
  <2>1. (DOMAIN journal \subseteq Captured)'
    BY <1>1 DEF LogInv, JournalInv
  <2>2. ASSUME NEW id \in DOMAIN journal
        PROVE  (/\ IsEnvelope(journal[id]) /\ journal[id].id = id /\ Excused(journal[id])
                /\ \A i \in 1 .. journal[id].next : Rec(journal[id], i) \in applied)'
    <3>1. CASE id = e.id
      BY <1>3, <3>1 DEF Excused, HookOf
    <3>2. CASE id # e.id
      <4>1. /\ IsEnvelope(journal[id]) /\ journal[id].id = id /\ Excused(journal[id])
            /\ \A i \in 1 .. journal[id].next : Rec(journal[id], i) \in applied
        BY DEF LogInv, JournalInv
      <4> QED BY <1>3, <3>2, <4>1 DEF Excused, HookOf
    <3> QED BY <3>1, <3>2
  <2> QED BY <2>1, <2>2 DEF JournalInv
<1>5. PICK new : new = Rec(e, e.next + 1)
  OBVIOUS
<1>6. new.hook = e.id /\ new.nonce = e.nonce /\ new.idx = e.next + 1 /\ new.of = Len(e.ops)
      /\ new \in RecordSet
  BY <1>0, <1>5 DEF Rec, RecordSet
<1>7. ASSUME NEW r \in applied
      PROVE  (/\ r.hook \in Captured /\ r.idx <= r.of
              /\ \A i \in 1 .. r.idx : Earlier(r, i) \in applied
              /\ AllGoneBefore(r.hook)
              /\ r.hook \in DOMAIN journal => Matches(r, journal[r.hook]))'
  <2>1. /\ r.hook \in Captured /\ r.idx <= r.of
        /\ \A i \in 1 .. r.idx : Earlier(r, i) \in applied
        /\ AllGoneBefore(r.hook)
        /\ r.hook \in DOMAIN journal => Matches(r, journal[r.hook])
    BY DEF LogInv, AppliedInv
  <2>2. (AllGoneBefore(r.hook))'
    BY <1>1, <2>1 DEF AllGoneBefore
  <2>3. r.hook \in DOMAIN journal => Matches(r, journal'[r.hook])
    BY <2>1
  <2> QED BY <1>1, <1>3, <2>1, <2>2, <2>3
<1>8. ASSUME applied' # applied
      PROVE  (/\ new.hook \in Captured /\ new.idx <= new.of
              /\ \A i \in 1 .. new.idx : Earlier(new, i) \in applied
              /\ AllGoneBefore(new.hook)
              /\ new.hook \in DOMAIN journal => Matches(new, journal[new.hook]))'
  <2>1. new.hook \in Captured' /\ new.idx <= new.of
    BY <1>0, <1>1, <1>6, <1>8
  <2>2. ASSUME NEW i \in 1 .. new.idx PROVE Earlier(new, i) \in applied'
    <3>1. Earlier(new, i) = Rec(e, i)
      BY <1>6 DEF Earlier, Rec
    <3>2. CASE i \in 1 .. e.next
      BY <1>3, <3>1, <3>2
    <3>3. CASE i = e.next + 1
      BY <1>8, <3>1, <3>3
    <3> QED BY <1>0, <1>6, <3>2, <3>3
  <2>3. (AllGoneBefore(new.hook))'
    BY <1>1, <1>6, <1>8 DEF AllGoneBefore
  <2>4. Matches(new, e)
    BY <1>0, <1>6, <1>8 DEF Matches
  <2> QED BY <1>6, <2>1, <2>2, <2>3, <2>4
<1>9. AppliedInv'
  <2>1. applied' \subseteq RecordSet
    BY <1>5, <1>6 DEF LogInv, AppliedInv
  <2>2. ASSUME NEW r \in applied'
        PROVE  (/\ r.hook \in Captured /\ r.idx <= r.of
                /\ \A i \in 1 .. r.idx : Earlier(r, i) \in applied
                /\ AllGoneBefore(r.hook)
                /\ r.hook \in DOMAIN journal => Matches(r, journal[r.hook]))'
    <3>1. CASE r \in applied
      BY <1>7, <3>1
    <3>2. CASE r \notin applied
      <4>1. r = new /\ applied' # applied
        BY <1>5, <3>2
      <4> QED BY <1>8, <4>1
    <3> QED BY <3>1, <3>2
  <2>3. ASSUME NEW q \in applied', NEW r \in applied', q.hook = r.hook
        PROVE  q.nonce = r.nonce /\ q.of = r.of
    <3>1. \A x \in applied : x.hook = e.id => x.nonce = e.nonce /\ x.of = Len(e.ops)
      BY DEF Matches
    <3>2. \A x \in applied' : x.hook = e.id => x.nonce = e.nonce /\ x.of = Len(e.ops)
      BY <1>5, <1>6, <3>1
    <3>3. CASE q.hook = e.id
      BY <2>3, <3>2, <3>3
    <3>4. CASE q.hook # e.id
      <4>1. q \in applied /\ r \in applied
        BY <1>5, <1>6, <2>3, <3>4
      <4> QED BY <2>3, <4>1 DEF LogInv, AppliedInv
    <3> QED BY <3>3, <3>4
  <2> QED BY <2>1, <2>2, <2>3 DEF AppliedInv
<1>10. NothingLost'
  <2>1. ASSUME NEW id \in Captured, Gone(id)
        PROVE  (\/ \E r \in OpsOf(id) : {q.idx : q \in OpsOf(id)} = 1 .. r.of
                \/ HookOf(id).ev \in {"pre-tool", "post-tool", "post-tool-failure"}
                     /\ OpsOf(id) = {})'
    <3>1. id # e.id
      BY <2>1 DEF Gone
    <3>2. OpsOf(id)' = OpsOf(id)
      BY <1>5, <1>6, <3>1 DEF OpsOf
    <3>3. HookOf(id)' = HookOf(id)
      BY DEF HookOf
    <3>4. \/ \E r \in OpsOf(id) : {q.idx : q \in OpsOf(id)} = 1 .. r.of
          \/ HookOf(id).ev \in {"pre-tool", "post-tool", "post-tool-failure"}
               /\ OpsOf(id) = {}
      BY <2>1 DEF LogInv, NothingLost
    <3> QED BY <3>2, <3>3, <3>4
  <2> QED BY <1>1, <2>1 DEF NothingLost
<1> QED BY <1>2, <1>4, <1>9, <1>10 DEF LogInv

\* An envelope all of whose operations were applied is removed.
LEMMA RemoveStep ==
  ASSUME LogInv, UNCHANGED <<script, pos, order, applied>>,
         NEW e, e.id \in DOMAIN journal, journal[e.id] = e, e.prepared, e.next = Len(e.ops),
         journal' = [k \in DOMAIN journal \ {e.id} |-> journal[k]]
  PROVE  LogInv'
<1>0. /\ IsEnvelope(e) /\ Excused(e) /\ \A i \in 1 .. e.next : Rec(e, i) \in applied
      /\ e.next \in Nat /\ Len(e.ops) \in Nat
  BY EnvelopeTypes DEF LogInv, JournalInv
<1>1. Captured' = Captured /\ \A id : Gone(id) => Gone(id)'
  BY DEF Captured, Gone
<1>2. /\ DOMAIN journal' = DOMAIN journal \ {e.id}
      /\ \A id \in DOMAIN journal' : journal'[id] = journal[id]
  OBVIOUS
<1>3. OrderInv'
  BY <1>1 DEF LogInv, OrderInv, HookOf
<1>4. JournalInv'
  <2>1. (DOMAIN journal \subseteq Captured)'
    BY <1>1, <1>2 DEF LogInv, JournalInv
  <2>2. ASSUME NEW id \in DOMAIN journal'
        PROVE  (/\ IsEnvelope(journal[id]) /\ journal[id].id = id /\ Excused(journal[id])
                /\ \A i \in 1 .. journal[id].next : Rec(journal[id], i) \in applied)'
    <3>1. id \in DOMAIN journal /\ journal'[id] = journal[id]
      BY <1>2
    <3>2. /\ IsEnvelope(journal[id]) /\ journal[id].id = id /\ Excused(journal[id])
          /\ \A i \in 1 .. journal[id].next : Rec(journal[id], i) \in applied
      BY <3>1 DEF LogInv, JournalInv
    <3> QED BY <3>1, <3>2 DEF Excused, HookOf
  <2> QED BY <2>1, <2>2 DEF JournalInv
<1>5. AppliedInv'
  <2>1. ASSUME NEW r \in applied
        PROVE  (AllGoneBefore(r.hook))' /\ (r.hook \in DOMAIN journal => Matches(r, journal[r.hook]))'
    <3>1. AllGoneBefore(r.hook) /\ (r.hook \in DOMAIN journal => Matches(r, journal[r.hook]))
      BY DEF LogInv, AppliedInv
    <3> QED BY <1>1, <1>2, <3>1 DEF AllGoneBefore
  <2> QED BY <1>1, <2>1 DEF LogInv, AppliedInv
<1>6. NothingLost'
  <2>1. \A id : OpsOf(id)' = OpsOf(id) /\ HookOf(id)' = HookOf(id)
    BY DEF OpsOf, HookOf
  <2>2. ASSUME NEW id \in Captured, Gone(id)'
        PROVE  \/ \E r \in OpsOf(id) : {q.idx : q \in OpsOf(id)} = 1 .. r.of
               \/ HookOf(id).ev \in {"pre-tool", "post-tool", "post-tool-failure"}
                    /\ OpsOf(id) = {}
    <3>1. CASE id # e.id
      <4>1. Gone(id)
        BY <2>2, <3>1 DEF Gone, Captured
      <4> QED BY <4>1 DEF LogInv, NothingLost
    <3>2. CASE id = e.id
      <4>1. ASSUME NEW q \in OpsOf(id)
            PROVE  q.of = e.next /\ q.idx \in 1 .. e.next
        <5>1. q \in applied /\ q.hook = e.id
          BY <3>2 DEF OpsOf
        <5>2. q \in RecordSet /\ q.idx <= q.of /\ Matches(q, e)
          BY <5>1 DEF LogInv, AppliedInv
        <5> QED BY <1>0, <5>2 DEF Matches, RecordSet
      <4>2. ASSUME NEW i \in 1 .. e.next
            PROVE  Rec(e, i) \in OpsOf(id) /\ Rec(e, i).idx = i
        BY <1>0, <3>2 DEF OpsOf, Rec
      <4>3. {q.idx : q \in OpsOf(id)} = 1 .. e.next
        <5>1. ASSUME NEW i \in 1 .. e.next PROVE i \in {q.idx : q \in OpsOf(id)}
          BY <4>2
        <5> QED BY <4>1, <5>1
      <4>4. CASE e.next = 0
        <5>1. OpsOf(id) = {}
          BY <4>1, <4>4
        <5>2. HookOf(id).ev \in {"pre-tool", "post-tool", "post-tool-failure"}
          BY <1>0, <3>2, <4>4 DEF Excused, ToolEvents
        <5> QED BY <5>1, <5>2
      <4>5. CASE e.next # 0
        <5>1. 1 \in 1 .. e.next
          BY <1>0, <4>5
        <5>2. PICK r \in OpsOf(id) : r = Rec(e, 1)
          BY <4>2, <5>1
        <5>3. r.of = e.next
          BY <4>1
        <5> QED BY <4>3, <5>3
      <4> QED BY <4>4, <4>5
    <3> QED BY <3>1, <3>2
  <2> QED BY <1>1, <2>1, <2>2 DEF NothingLost
<1> QED BY <1>3, <1>4, <1>5, <1>6 DEF LogInv

\* A hook is captured: it is the last one of its session.
LEMMA CaptureStep ==
  ASSUME LogInv, NEW s \in Sessions, EnqueueHook(s)
  PROVE  /\ LogInv'
         /\ DOMAIN journal' = DOMAIN journal \cup {NextHook(s)}
         /\ NextHook(s) \notin Captured
         /\ \A id \in Captured : ~Before(NextHook(s), id)
         /\ \A id \in DOMAIN journal : journal'[id] = journal[id]
         /\ \A id \in Captured : Gone(id)' <=> Gone(id)
         /\ Captured' = Captured \cup {NextHook(s)}
<1>0. PICK new : new = NextHook(s)
  OBVIOUS
<1>1. /\ pos \in [Sessions -> Nat] /\ order \in Seq(Ids) /\ script \in Scripts
      /\ \A id \in Captured : id \in Ids /\ id[2] <= pos[id[1]]
  BY DEF LogInv, OrderInv, Captured
<1>2. /\ pos[s] < Len(script[s]) /\ pos' = [pos EXCEPT ![s] = @ + 1]
      /\ UNCHANGED <<script, applied>>
      /\ order' = Append(order, new) /\ journal' = Written(NewEnvelope(new))
  BY <1>0 DEF EnqueueHook, Raises
<1>3. new = <<s, pos[s] + 1>> /\ new \in Ids /\ new[1] = s /\ new[2] = pos[s] + 1 /\ pos[s] \in Nat
  BY <1>0, <1>1 DEF NextHook, Ids
<1>4. new \notin Captured /\ \A id \in Captured : ~Before(new, id)
  <2>1. ASSUME NEW id \in Captured, id[1] = s PROVE id[2] \in Nat /\ id[2] <= pos[s]
    BY <1>1, <2>1 DEF Ids
  <2> QED BY <1>3, <2>1 DEF Before
<1>5. /\ Len(order') = Len(order) + 1 /\ order' \in Seq(Ids) /\ order'[Len(order) + 1] = new
      /\ \A i \in 1 .. Len(order) : order'[i] = order[i]
      /\ DOMAIN order = 1 .. Len(order) /\ DOMAIN order' = 1 .. (Len(order) + 1)
      /\ Len(order) \in Nat
  BY <1>1, <1>2, <1>3
<1>6. Captured' = Captured \cup {new}
  <2>1. \A i \in DOMAIN order : i \in DOMAIN order' /\ order'[i] = order[i]
    BY <1>5
  <2>2. \A i \in DOMAIN order' : i \in DOMAIN order \/ order'[i] = new
    BY <1>5
  <2>3. Len(order) + 1 \in DOMAIN order'
    BY <1>5
  <2> QED BY <1>5, <2>1, <2>2, <2>3 DEF Captured
<1>7. PICK e : e = NewEnvelope(new)
  OBVIOUS
<1>8. e.id = new /\ ~e.prepared /\ e.next = 0 /\ IsEnvelope(e)
  <2>1. e = [id |-> new, prepared |-> FALSE, state |-> NoState, ops |-> <<>>, next |-> 0,
             permanent |-> FALSE, key |-> 0, nonce |-> 0]
    BY <1>7 DEF NewEnvelope
  <2>2. IsSeq(<<>>) /\ Len(<<>>) = 0 /\ IsState(NoState)
    BY ShortIsSeq, NoStateIsState
  <2>3. PICK no \in BOOLEAN : no = FALSE
    OBVIOUS
  <2>4. PICK z \in Nat : z = 0 /\ z <= Len(<<>>)
    BY <2>2
  <2>5. IsEnvelope([id |-> new, prepared |-> no, state |-> NoState, ops |-> <<>>, next |-> z,
                    permanent |-> FALSE, key |-> 0, nonce |-> z])
    BY <2>2, <2>3, <2>4, EnvelopeIs, Zenon
  <2> QED BY <2>1, <2>3, <2>4, <2>5
<1>9. /\ DOMAIN journal' = DOMAIN journal \cup {new} /\ journal'[new] = e
      /\ \A id \in DOMAIN journal : journal'[id] = journal[id]
  <2>1. DOMAIN journal \subseteq Captured
    BY DEF LogInv, JournalInv
  <2> QED BY <1>2, <1>4, <1>7, <1>8, <2>1 DEF Written
<1>10. \A id \in Captured : Gone(id)' <=> Gone(id)
  BY <1>4, <1>6, <1>9 DEF Gone
<1>11. \A id : HookOf(id)' = HookOf(id)
  BY <1>2 DEF HookOf
<1>12. OrderInv'
  <2>1. script' \in Scripts /\ pos' \in [Sessions -> Nat] /\ order' \in Seq(Ids)
    BY <1>1, <1>2, <1>5
  <2>2. ASSUME NEW id \in Captured' PROVE id[2] <= pos'[id[1]] /\ HookOf(id).ev \in HookEvents
    <3>1. CASE id = new
      <4>1. id[2] <= pos'[id[1]]
        BY <1>1, <1>2, <1>3, <3>1
      <4>2. /\ Len(script[s]) \in Nat
            /\ \A i \in 1 .. Len(script[s]) : script[s][i].ev \in HookEvents
        BY <1>1, CollectorAssumption
      <4>3. pos[s] + 1 \in 1 .. Len(script[s])
        BY <1>2, <1>3, <4>2
      <4>4. HookOf(id).ev = script[s][pos[s] + 1].ev
        BY <1>3, <3>1 DEF HookOf
      <4> QED BY <4>1, <4>2, <4>3, <4>4
    <3>2. CASE id \in Captured
      <4>1. id[1] \in Sessions /\ id[2] \in Nat /\ id[2] <= pos[id[1]] /\ pos[id[1]] \in Nat
        BY <1>1, <3>2 DEF Ids
      <4>2. pos'[id[1]] = IF id[1] = s THEN pos[s] + 1 ELSE pos[id[1]]
        BY <1>1, <1>2, <4>1
      <4>3. id[2] <= pos'[id[1]]
        BY <4>1, <4>2
      <4> QED BY <3>2, <4>3 DEF LogInv, OrderInv
    <3> QED BY <1>6, <3>1, <3>2
  <2>3. ASSUME NEW i \in DOMAIN order', NEW j \in DOMAIN order', i < j, order'[i][1] = order'[j][1]
        PROVE  order'[i][2] < order'[j][2]
    <3>1. i \in DOMAIN order /\ order'[i] = order[i]
      BY <1>5, <2>3
    <3>2. CASE j \in DOMAIN order
      BY <1>5, <2>3, <3>1, <3>2 DEF LogInv, OrderInv
    <3>3. CASE j \notin DOMAIN order
      <4>1. order'[j] = new
        BY <1>5, <3>3
      <4>2. order[i] \in Captured
        BY <3>1 DEF Captured
      <4>3. order[i][1] = s /\ order[i] \in Ids /\ order[i][2] <= pos[order[i][1]]
        BY <1>1, <1>3, <2>3, <3>1, <4>1, <4>2
      <4>4. order[i][2] \in Nat
        BY <4>3 DEF Ids
      <4> QED BY <1>3, <3>1, <4>1, <4>3, <4>4
    <3> QED BY <3>2, <3>3
  <2> QED BY <1>11, <2>1, <2>2, <2>3 DEF OrderInv
<1>13. JournalInv'
  <2>1. (DOMAIN journal \subseteq Captured)'
    BY <1>6, <1>9 DEF LogInv, JournalInv
  <2>2. ASSUME NEW id \in DOMAIN journal'
        PROVE  (/\ IsEnvelope(journal[id]) /\ journal[id].id = id /\ Excused(journal[id])
                /\ \A i \in 1 .. journal[id].next : Rec(journal[id], i) \in applied)'
    <3>1. CASE id = new
      BY <1>8, <1>9, <3>1 DEF Excused
    <3>2. CASE id \in DOMAIN journal
      <4>1. /\ IsEnvelope(journal[id]) /\ journal[id].id = id /\ Excused(journal[id])
            /\ \A i \in 1 .. journal[id].next : Rec(journal[id], i) \in applied
        BY <3>2 DEF LogInv, JournalInv
      <4> QED BY <1>2, <1>9, <1>11, <3>2, <4>1 DEF Excused
    <3> QED BY <1>9, <3>1, <3>2
  <2> QED BY <2>1, <2>2 DEF JournalInv
<1>14. AppliedInv'
  <2>1. ASSUME NEW r \in applied
        PROVE  (/\ r.hook \in Captured /\ AllGoneBefore(r.hook)
                /\ r.hook \in DOMAIN journal => Matches(r, journal[r.hook]))'
    <3>1. /\ r.hook \in Captured /\ AllGoneBefore(r.hook)
          /\ r.hook \in DOMAIN journal => Matches(r, journal[r.hook])
      BY DEF LogInv, AppliedInv
    <3>2. (AllGoneBefore(r.hook))'
      BY <1>4, <1>6, <1>10, <3>1 DEF AllGoneBefore
    <3> QED BY <1>4, <1>6, <1>9, <3>1, <3>2
  <2> QED BY <1>2, <2>1 DEF LogInv, AppliedInv
<1>15. NothingLost'
  <2>1. \A id : OpsOf(id)' = OpsOf(id)
    BY <1>2 DEF OpsOf
  <2>2. ~Gone(new)'
    BY <1>9 DEF Gone
  <2>3. \A id \in Captured' : Gone(id)' => id \in Captured /\ Gone(id)
    BY <1>6, <1>10, <2>2
  <2> QED BY <1>11, <2>1, <2>3 DEF LogInv, NothingLost
<1> QED BY <1>0, <1>4, <1>6, <1>9, <1>10, <1>12, <1>13, <1>14, <1>15 DEF LogInv

-----------------------------------------------------------------------------
(***************************************************************************)
(* Steps of the workers.                                                   *)
(***************************************************************************)

\* A record with the fields of a worker is one.
LEMMA WorkerIs ==
  ASSUME NEW pc, NEW todo, NEW env, NEW blocked, NEW version
  PROVE  IsWorker([pc |-> pc, todo |-> todo, env |-> env, blocked |-> blocked,
                   git |-> version])
BY Zenon DEF IsWorker

\* Nobody but the holder of the lock is at work.
LEMMA OthersIdle ==
  ASSUME WorkerInv, NEW p \in Workers, lock \in {p, None}, NEW q \in Workers, q # p
  PROVE  w[q].pc = "idle" /\ IsWorker(w[q])
<1>1. lock # q
  BY CollectorAssumption
<1>2. (w[q].pc # "idle" <=> lock = q) /\ IsWorker(w[q])
  BY DEF WorkerInv
<1> QED BY <1>1, <1>2

\* Once the pass has ended, all workers are idle.
LEMMA ReturnKeeps ==
  ASSUME WorkerInv, NEW p \in Workers, w[p].pc # "idle", Return(p)
  PROVE  WorkerInv'
<1>1. w' = [w EXCEPT ![p] = Idle] /\ lock' = None /\ lock = p /\ DOMAIN w = Workers
  BY DEF Return, WorkerInv
<1>2. IsWorker(Idle) /\ Idle.pc = "idle"
  BY WorkerIs DEF Idle
<1>3. DOMAIN w' = Workers /\ w'[p] = Idle /\ \A q \in Workers : q # p => w'[q] = w[q]
  BY <1>1
<1>4. ASSUME NEW q \in Workers
      PROVE  IsWorker(w'[q]) /\ w'[q].pc = "idle" /\ q # None
  <2>1. CASE q = p
    BY <1>2, <1>3, <2>1, CollectorAssumption
  <2>2. CASE q # p
    BY <1>1, <1>3, <2>2, OthersIdle, CollectorAssumption
  <2> QED BY <2>1, <2>2
<1>5. ASSUME NEW q \in Workers
      PROVE  (/\ IsWorker(w[q]) /\ (w[q].pc # "idle" <=> lock = q)
              /\ w[q].pc # "idle" => Holder(w[q]))'
  BY <1>1, <1>4
<1> QED BY <1>1, <1>3, <1>5 DEF WorkerInv

\* The holder of the lock moves on.
LEMMA MoveKeeps ==
  ASSUME WorkerInv, NEW p \in Workers, w[p].pc # "idle" \/ LockFree,
         DOMAIN w' = Workers, \A q \in Workers : q # p => w'[q] = w[q],
         lock' = p, w'[p].pc # "idle", IsWorker(w'[p]), (Holder(w[p]))'
  PROVE  WorkerInv'
<1>1. lock \in {p, None}
  BY DEF WorkerInv, LockFree
<1>2. ASSUME NEW q \in Workers
      PROVE  (/\ IsWorker(w[q]) /\ (w[q].pc # "idle" <=> lock = q)
              /\ w[q].pc # "idle" => Holder(w[q]))'
  <2>1. CASE q = p
    BY <2>1
  <2>2. CASE q # p
    BY <1>1, <2>2, OthersIdle
  <2> QED BY <2>1, <2>2
<1> QED BY <1>2 DEF WorkerInv

\* The spool keeps its entries, and so does the list of the process.
LEMMA HolderStays ==
  ASSUME NEW x, Holder(x), NEW v,
         DOMAIN journal' = DOMAIN journal, order' = order, applied \subseteq applied',
         v.todo = x.todo, v.blocked = x.blocked, Active(x), Active(v), v.env.id = x.env.id,
         journal'[x.env.id] = v.env, v.env.prepared <=> v.pc # "prepare",
         v.pc = "record" => /\ v.env.next < Len(v.env.ops)
                            /\ Rec(v.env, v.env.next + 1) \in applied'
  PROVE  (Holder(v))'
<1>1. (AllGoneBefore(x.env.id))'
  BY DEF Holder, AllGoneBefore, Captured, Gone
<1> QED BY <1>1 DEF Holder, Active

\* The process puts its envelope away; a session that failed is held back.
LEMMA HolderIdles ==
  ASSUME NEW x, Holder(x), NEW v,
         DOMAIN journal' = DOMAIN journal, v.todo = x.todo, v.pc \in {"next", "clear"},
         \/ ~Active(x) /\ v.blocked = x.blocked
         \/ Active(x) /\ v.blocked = x.blocked \cup {x.env.id[1]}
  PROVE  (Holder(v))'
<1>1. ~Active(v) /\ v.pc # "record"
  BY DEF Active
<1>2. ASSUME NEW id \in x.todo, NEW other \in DOMAIN journal, Before(other, id)
      PROVE  other \in v.todo \/ id[1] \in v.blocked
  BY <1>2 DEF Holder, Before
<1> QED BY <1>1, <1>2 DEF Holder

\* Faults, configuration and state files stay as they are.
LEMMA PlainStays ==
  ASSUME PlainInv, UNCHANGED <<faults, cfg, files>>
  PROVE  PlainInv'
BY DEF PlainInv

\* Spool and history stay as they are.
LEMMA SameLog ==
  ASSUME LogInv, UNCHANGED <<script, pos, order, journal, applied>>
  PROVE  LogInv'
<1>1. pos \in [Sessions -> Nat]
  BY DEF LogInv, OrderInv
<1> QED BY <1>1, QuietLog

\* A pass begins with all that is in the spool.
LEMMA StartDrainKeeps ==
  ASSUME IInv, NEW p \in Workers, StartDrain(p)
  PROVE  IInv'
<1>1. LogInv' /\ PlainInv'
  BY SameLog, PlainStays DEF IInv, StartDrain, capture
<1>2. PICK v : v = [Idle EXCEPT !.pc = "next", !.todo = DOMAIN journal]
  OBVIOUS
<1>3. DOMAIN w = Workers
  BY DEF IInv, WorkerInv
<1>4. /\ w' = [w EXCEPT ![p] = v] /\ lock' = p /\ LockFree /\ journal' = journal
      /\ applied' = applied /\ order' = order
  BY <1>2 DEF StartDrain, capture
<1>5. DOMAIN w' = Workers /\ w'[p] = v /\ \A q \in Workers : q # p => w'[q] = w[q]
  BY <1>3, <1>4
<1>6. v = [pc |-> "next", todo |-> DOMAIN journal, env |-> NewEnvelope(None), blocked |-> {},
             git |-> 0]
  BY <1>2 DEF Idle
<1>7. IsWorker(v) /\ v.pc = "next" /\ (Holder(v))'
  BY <1>4, <1>6, WorkerIs DEF Holder, Active
<1>8. (Holder(w[p]))'
  BY <1>5, <1>7 DEF Holder
<1>9. WorkerInv'
  BY <1>4, <1>5, <1>7, <1>8, MoveKeeps DEF IInv
<1> QED BY <1>1, <1>9 DEF IInv

\* The next entry of the pass.
LEMMA NextEntry ==
  ASSUME IInv, NEW p \in Workers, Holds(p, "next"), w[p].todo # {}
  PROVE  LET id == FirstOf(w[p].todo)
         IN  /\ id \in w[p].todo /\ id \in DOMAIN journal /\ journal[id].id = id
             /\ \A other \in w[p].todo : ~Before(other, id)
             /\ Holder(w[p]) /\ lock = p
<1>1. Holder(w[p]) /\ lock = p
  BY DEF IInv, WorkerInv, Holds
<1>2. w[p].todo \subseteq DOMAIN journal /\ DOMAIN journal \subseteq Captured
  BY <1>1 DEF Holder, IInv, LogInv, JournalInv
<1>3. FirstOf(w[p].todo) \in w[p].todo /\ \A other \in w[p].todo : ~Before(other, FirstOf(w[p].todo))
  BY <1>2, FirstOfIs DEF IInv, LogInv
<1> QED BY <1>1, <1>2, <1>3 DEF IInv, LogInv, JournalInv

\* An entry is skipped, and its session with it.
LEMMA SkipEntryKeeps ==
  ASSUME IInv, NEW p \in Workers, SkipEntry(p)
  PROVE  IInv'
<1>1. LogInv' /\ PlainInv'
  BY SameLog, PlainStays DEF IInv, SkipEntry, capture
<1>2. PICK id : id = FirstOf(w[p].todo)
  OBVIOUS
<1>3. /\ id \in w[p].todo /\ id \in DOMAIN journal /\ journal[id].id = id
      /\ Holder(w[p]) /\ lock = p
  BY <1>2, NextEntry DEF SkipEntry
<1>4. DOMAIN w = Workers /\ IsWorker(w[p])
  BY DEF IInv, WorkerInv
<1>5. PICK x : x = w[p]
  OBVIOUS
<1>6. PICK v : v = [pc |-> "next", todo |-> x.todo \ {id}, env |-> x.env,
                    blocked |-> x.blocked \cup {id[1]},
                    git |-> x.git]
  OBVIOUS
<1>7. /\ w' = [w EXCEPT ![p].todo = @ \ {id}, ![p].blocked = @ \cup {id[1]}]
      /\ x.pc = "next" /\ lock' = lock /\ journal' = journal /\ applied' = applied /\ order' = order
  BY <1>2, <1>3, <1>5 DEF SkipEntry, Holds, capture
<1>8. DOMAIN w' = Workers /\ w'[p] = v /\ \A q \in Workers : q # p => w'[q] = w[q]
  BY <1>4, <1>5, <1>6, <1>7 DEF IsWorker
<1>9. IsWorker(v) /\ v.pc = "next"
  BY <1>6, WorkerIs
<1>10. (Holder(v))'
  <2>1. ~Active(x) /\ ~Active(v)
    BY <1>7, <1>9 DEF Active
  <2>2. ASSUME NEW y \in x.todo, y # id, NEW other \in DOMAIN journal, Before(other, y)
        PROVE  other \in v.todo \/ y[1] \in v.blocked
    <3>1. other \in x.todo \/ y[1] \in x.blocked
      BY <1>3, <1>5, <2>1, <2>2 DEF Holder
    <3> QED BY <1>6, <2>2, <3>1 DEF Before
  <2> QED BY <1>3, <1>5, <1>6, <1>7, <1>9, <2>1, <2>2 DEF Holder
<1>11. (Holder(w[p]))'
  BY <1>8, <1>10 DEF Holder
<1>12. WorkerInv'
  BY <1>3, <1>5, <1>7, <1>8, <1>9, <1>11, MoveKeeps DEF IInv
<1> QED BY <1>1, <1>12 DEF IInv

\* An entry is read: the ones before it in its session are gone, for none of them
\* is waiting, in work or held back.
LEMMA ReadEntryKeeps ==
  ASSUME IInv, NEW p \in Workers, ReadEntry(p)
  PROVE  IInv'
<1>1. LogInv' /\ PlainInv'
  BY SameLog, PlainStays DEF IInv, ReadEntry, capture
<1>2. PICK id : id = FirstOf(w[p].todo)
  OBVIOUS
<1>3. /\ id \in w[p].todo /\ id \in DOMAIN journal /\ journal[id].id = id
      /\ Holder(w[p]) /\ lock = p /\ \A other \in w[p].todo : ~Before(other, id)
  BY <1>2, NextEntry DEF ReadEntry
<1>4. DOMAIN w = Workers /\ IsWorker(w[p])
  BY DEF IInv, WorkerInv
<1>5. PICK x : x = w[p]
  OBVIOUS
<1>6. PICK e : e = journal[id]
  OBVIOUS
<1>7. PICK v : v = [pc |-> AfterRead(e), todo |-> x.todo \ {id}, env |-> e,
                    blocked |-> x.blocked, git |-> git]
  OBVIOUS
<1>8. /\ w' = [w EXCEPT ![p].todo = @ \ {id}, ![p].env = e, ![p].pc = AfterRead(e), ![p].git = git]
      /\ x.pc = "next" /\ lock' = lock /\ journal' = journal /\ applied' = applied /\ order' = order
      /\ ~HeldBack(p, e)
  BY <1>2, <1>3, <1>5, <1>6 DEF ReadEntry, Holds, capture
<1>9. DOMAIN w' = Workers /\ w'[p] = v /\ \A q \in Workers : q # p => w'[q] = w[q]
  BY <1>4, <1>5, <1>7, <1>8 DEF IsWorker
<1>10. IsWorker(v) /\ v.pc \in {"prepare", "save"} /\ (e.prepared <=> v.pc # "prepare")
  <2>1. IsWorker(v)
    BY <1>7, WorkerIs
  <2>2. e.prepared \in BOOLEAN
    BY <1>3, <1>6, EnvelopeTypes DEF IInv, LogInv, JournalInv
  <2> QED BY <1>7, <2>1, <2>2 DEF AfterRead
<1>11. (Holder(v))'
  <2>1. ~Active(x) /\ Active(v) /\ id[1] \notin x.blocked
    BY <1>3, <1>5, <1>6, <1>8, <1>10 DEF Active, HeldBack
  <2>2. ASSUME NEW y \in x.todo, NEW other \in DOMAIN journal, Before(other, y)
        PROVE  other \in x.todo \/ y[1] \in x.blocked
    BY <1>3, <1>5, <2>1, <2>2 DEF Holder
  <2>3. AllGoneBefore(id)
    <3>1. ASSUME NEW other \in Captured, Before(other, id), other \in DOMAIN journal PROVE FALSE
      BY <1>3, <1>5, <2>1, <2>2, <3>1
    <3> QED BY <3>1 DEF AllGoneBefore, Gone
  <2>4. (AllGoneBefore(id))'
    BY <1>8, <2>3 DEF AllGoneBefore, Captured, Gone
  <2>5. v.todo = x.todo \ {id} /\ v.env = e /\ v.blocked = x.blocked /\ v.env.id = id
    BY <1>3, <1>6, <1>7
  <2>6. v.todo \subseteq DOMAIN journal
    BY <1>3, <1>5, <2>5 DEF Holder
  <2>7. ASSUME NEW y \in v.todo, NEW other \in DOMAIN journal, Before(other, y)
        PROVE  other \in v.todo \/ other = v.env.id \/ y[1] \in v.blocked
    BY <2>2, <2>5, <2>7
  <2> QED BY <1>3, <1>6, <1>8, <1>10, <2>1, <2>4, <2>5, <2>6, <2>7 DEF Holder
<1>12. (Holder(w[p]))'
  BY <1>9, <1>11 DEF Holder
<1>13. w[p].pc # "idle" /\ w'[p].pc # "idle" /\ lock' = p /\ IsWorker(w'[p])
  BY <1>3, <1>5, <1>8, <1>9, <1>10
<1>14. WorkerInv'
  BY <1>9, <1>12, <1>13, MoveKeeps DEF IInv
<1> QED BY <1>1, <1>14 DEF IInv

\* What the process knows when it works on an envelope.
LEMMA AtWork ==
  ASSUME IInv, NEW p \in Workers, Active(w[p])
  PROVE  /\ Holder(w[p]) /\ lock = p /\ w[p].pc # "idle"
         /\ w[p].env.id \in DOMAIN journal /\ journal[w[p].env.id] = w[p].env
         /\ IsEnvelope(w[p].env) /\ Excused(w[p].env) /\ w[p].env.id[1] \in Sessions
         /\ w[p].env.id \in Captured
         /\ AllGoneBefore(w[p].env.id)
         /\ \A i \in 1 .. w[p].env.next : Rec(w[p].env, i) \in applied
         /\ \A r \in applied : r.hook = w[p].env.id => Matches(r, w[p].env)
<1>1. Holder(w[p]) /\ lock = p /\ w[p].pc # "idle"
  BY DEF IInv, WorkerInv, Active
<1>2. /\ w[p].env.id \in DOMAIN journal /\ journal[w[p].env.id] = w[p].env
      /\ AllGoneBefore(w[p].env.id)
  BY <1>1 DEF Holder
<1>3. /\ IsEnvelope(w[p].env) /\ Excused(w[p].env)
      /\ \A i \in 1 .. w[p].env.next : Rec(w[p].env, i) \in applied
      /\ w[p].env.id \in Captured
  BY <1>2 DEF IInv, LogInv, JournalInv
<1>4. w[p].env.id[1] \in Sessions
  <2>1. \A id \in Captured : id \in Ids
    BY DEF IInv, LogInv, OrderInv, Captured
  <2> QED BY <1>3, <2>1 DEF Ids
<1>5. \A r \in applied : r.hook = w[p].env.id => Matches(r, w[p].env)
  BY <1>2 DEF IInv, LogInv, AppliedInv
<1> QED BY <1>1, <1>2, <1>3, <1>4, <1>5

\* The start of an execution touches neither the spool nor the workers.
LEMMA StartExecutionKeeps ==
  ASSUME IInv, NEW p \in Workers, StartExecution(p)
  PROVE  IInv'
<1>1. LogInv' /\ PlainInv'
  BY SameLog, PlainStays DEF IInv, StartExecution, capture
<1>2. UNCHANGED <<w, lock, journal, applied, order>>
  BY DEF StartExecution, capture
<1>3. WorkerInv'
  BY <1>2 DEF IInv, WorkerInv, Holder, AllGoneBefore, Captured, Gone
<1> QED BY <1>1, <1>3 DEF IInv

\* A hook is mapped while none of its operations has been applied.
LEMMA PrepareHookKeeps ==
  ASSUME IInv, NEW p \in Workers, PrepareHook(p)
  PROVE  IInv'
<1>0. PICK x : x = w[p]
  OBVIOUS
<1>1. x.pc = "prepare" /\ Active(w[p]) /\ Active(x)
  BY <1>0 DEF PrepareHook, Holds, Active
<1>2. /\ Holder(x) /\ lock = p /\ w[p].pc # "idle" /\ DOMAIN w = Workers /\ IsWorker(x)
      /\ x.env.id \in DOMAIN journal /\ journal[x.env.id] = x.env
      /\ IsEnvelope(x.env) /\ x.env.id[1] \in Sessions /\ x.env.id \in Captured
      /\ \A r \in applied : r.hook = x.env.id => Matches(r, x.env)
  BY <1>0, <1>1, AtWork DEF IInv, WorkerInv
<1>3. ~x.env.prepared
  BY <1>1, <1>2 DEF Holder
<1>4. PICK r : r = DispatchHook(HookOf(x.env.id), faults, files[x.env.id[1]], Limit)
  OBVIOUS
<1>5. IsResult(r, HookOf(x.env.id).ev)
  <2>1. HookOf(x.env.id).ev \in HookEvents
    BY <1>2 DEF IInv, LogInv, OrderInv
  <2>2. IsState(files[x.env.id[1]])
    BY <1>2 DEF IInv, PlainInv
  <2> QED BY <1>4, <2>1, <2>2, DispatchPrepares
<1>6. PICK e : e = [x.env EXCEPT !.prepared = TRUE, !.state = r.state, !.ops = r.ops, !.nonce = faults]
  OBVIOUS
<1>7. /\ journal' = Written(e) /\ w' = [w EXCEPT ![p].env = e, ![p].pc = "save"]
      /\ UNCHANGED <<script, pos, order, cfg, files, lock, applied, faults>>
  BY <1>0, <1>4, <1>6 DEF PrepareHook, PreparedEnvelope, Prepared, capture
<1>8. /\ IsEnvelope(e) /\ e.id = x.env.id /\ e.prepared /\ e.ops = r.ops /\ e.next = 0
  <2>1. faults \in Nat
    BY CollectorAssumption DEF IInv, PlainInv
  <2>2. IsState(r.state) /\ IsSeq(r.ops)
    BY <1>5 DEF IsResult
  <2>3. PICK id, prepared, state, ops, next, permanent, key, nonce :
          /\ x.env = [id |-> id, prepared |-> prepared, state |-> state, ops |-> ops,
                      next |-> next, permanent |-> permanent, key |-> key, nonce |-> nonce]
          /\ prepared \in BOOLEAN /\ IsState(state) /\ IsSeq(ops)
          /\ next \in Nat /\ next <= Len(ops) /\ nonce \in Nat
          /\ ~prepared => next = 0
    BY <1>2 DEF IsEnvelope
  <2>4. next = 0 /\ Len(r.ops) \in Nat
    BY <1>3, <2>2, <2>3, LenIsNat
  <2>5. e = [id |-> id, prepared |-> TRUE, state |-> r.state, ops |-> r.ops,
             next |-> 0, permanent |-> permanent, key |-> key, nonce |-> faults]
    <3>1. PICK old, st, o, n : old = x.env /\ st = r.state /\ o = r.ops /\ n = faults
      OBVIOUS
    <3>2. e = [old EXCEPT !.prepared = TRUE, !.state = st, !.ops = o, !.nonce = n]
      BY <1>6, <3>1
    <3>3. old = [id |-> id, prepared |-> prepared, state |-> state, ops |-> ops,
                 next |-> 0, permanent |-> permanent, key |-> key, nonce |-> nonce]
      BY <2>3, <2>4, <3>1
    <3>4. e = [id |-> id, prepared |-> TRUE, state |-> st, ops |-> o,
               next |-> 0, permanent |-> permanent, key |-> key, nonce |-> n]
      BY <3>2, <3>3
    <3> QED BY <3>1, <3>4
  <2>6. PICK yes \in BOOLEAN : yes = TRUE
    OBVIOUS
  <2>7. PICK m \in Nat : m = 0 /\ m <= Len(r.ops)
    BY <2>4
  <2>8. IsEnvelope([id |-> id, prepared |-> yes, state |-> r.state, ops |-> r.ops,
                    next |-> m, permanent |-> permanent, key |-> key, nonce |-> faults])
    BY <2>1, <2>2, <2>6, <2>7, EnvelopeIs, Zenon
  <2> QED BY <2>3, <2>5, <2>6, <2>7, <2>8
<1>9. Excused(e)
  BY <1>5, <1>8 DEF Excused, IsResult
<1>10. /\ DOMAIN journal' = DOMAIN journal /\ journal'[e.id] = e
       /\ \A id \in DOMAIN journal : id # e.id => journal'[id] = journal[id]
  BY <1>2, <1>7, <1>8 DEF Written
<1>11. LogInv'
  <2>1. \A i \in 1 .. e.next : Rec(e, i) \in applied
    BY <1>8
  <2>2. \A q \in applied : q.hook = e.id => Matches(q, e)
    BY <1>2, <1>3, <1>8 DEF Matches
  <2> QED BY <1>2, <1>7, <1>8, <1>9, <1>10, <2>1, <2>2, EnvelopeStep DEF IInv
<1>12. PICK v : v = [pc |-> "save", todo |-> x.todo, env |-> e, blocked |-> x.blocked,
                    git |-> x.git]
  OBVIOUS
<1>13. DOMAIN w' = Workers /\ w'[p] = v /\ \A q \in Workers : q # p => w'[q] = w[q]
  BY <1>0, <1>2, <1>7, <1>12 DEF IsWorker
<1>14. IsWorker(v) /\ v.pc = "save" /\ Active(v)
  BY <1>12, WorkerIs DEF Active
<1>15. (Holder(v))'
  BY <1>1, <1>2, <1>7, <1>8, <1>10, <1>12, <1>14, HolderStays
<1>16. (Holder(w[p]))'
  BY <1>13, <1>15 DEF Holder
<1>17. WorkerInv'
  BY <1>2, <1>7, <1>13, <1>14, <1>16, MoveKeeps DEF IInv
<1>18. PlainInv'
  BY <1>7, PlainStays DEF IInv
<1> QED BY <1>11, <1>17, <1>18 DEF IInv

\* The prepared state goes to the state file.
LEMMA SaveStateKeeps ==
  ASSUME IInv, NEW p \in Workers, SaveState(p)
  PROVE  IInv'
<1>0. PICK x : x = w[p]
  OBVIOUS
<1>1. x.pc = "save" /\ Active(w[p]) /\ Active(x)
  BY <1>0 DEF SaveState, Holds, Active
<1>2. /\ Holder(x) /\ lock = p /\ w[p].pc # "idle" /\ DOMAIN w = Workers /\ IsWorker(x)
      /\ x.env.id \in DOMAIN journal /\ journal[x.env.id] = x.env
      /\ IsEnvelope(x.env) /\ x.env.id[1] \in Sessions
  BY <1>0, <1>1, AtWork DEF IInv, WorkerInv
<1>3. /\ files' = [files EXCEPT ![x.env.id[1]] = x.env.state] /\ w' = [w EXCEPT ![p].pc = "deliver"]
      /\ UNCHANGED <<script, pos, order, cfg, journal, lock, applied, faults>>
  BY <1>0 DEF SaveState, capture
<1>4. LogInv'
  BY <1>3, SameLog DEF IInv
<1>5. PlainInv'
  <2>1. IsState(x.env.state)
    BY <1>2, EnvelopeTypes
  <2> QED BY <1>2, <1>3, <2>1 DEF IInv, PlainInv
<1>6. PICK v : v = [pc |-> "deliver", todo |-> x.todo, env |-> x.env, blocked |-> x.blocked,
                    git |-> x.git]
  OBVIOUS
<1>7. DOMAIN w' = Workers /\ w'[p] = v /\ \A q \in Workers : q # p => w'[q] = w[q]
  BY <1>0, <1>2, <1>3, <1>6 DEF IsWorker
<1>8. IsWorker(v) /\ v.pc = "deliver" /\ Active(v)
  BY <1>6, WorkerIs DEF Active
<1>9. x.env.prepared
  BY <1>1, <1>2 DEF Holder
<1>10. (Holder(v))'
  BY <1>1, <1>2, <1>3, <1>6, <1>8, <1>9, HolderStays
<1>11. (Holder(w[p]))'
  BY <1>7, <1>10 DEF Holder
<1>12. WorkerInv'
  BY <1>2, <1>3, <1>7, <1>8, <1>11, MoveKeeps DEF IInv
<1> QED BY <1>4, <1>5, <1>12 DEF IInv

\* An operation is applied; the envelope does not know of it yet.
LEMMA DeliverKeeps ==
  ASSUME IInv, NEW p \in Workers, Deliver(p)
  PROVE  IInv'
<1>0. PICK x : x = w[p]
  OBVIOUS
<1>1. x.pc = "deliver" /\ Active(w[p]) /\ Active(x) /\ x.env.next < Len(x.env.ops)
  BY <1>0 DEF Deliver, Undelivered, Holds, Active
<1>2. /\ Holder(x) /\ lock = p /\ w[p].pc # "idle" /\ DOMAIN w = Workers /\ IsWorker(x)
      /\ x.env.id \in DOMAIN journal /\ journal[x.env.id] = x.env
      /\ IsEnvelope(x.env) /\ Excused(x.env) /\ AllGoneBefore(x.env.id)
      /\ \A i \in 1 .. x.env.next : Rec(x.env, i) \in applied
      /\ \A r \in applied : r.hook = x.env.id => Matches(r, x.env)
  BY <1>0, <1>1, AtWork DEF IInv, WorkerInv
<1>3. /\ applied' = applied \cup {Rec(x.env, x.env.next + 1)} /\ w' = [w EXCEPT ![p].pc = "record"]
      /\ UNCHANGED <<script, pos, order, cfg, journal, files, lock, faults>>
  BY <1>0 DEF Deliver, Record, Rec, capture
<1>4. x.env.prepared
  BY <1>1, <1>2 DEF Holder
<1>5. LogInv'
  BY <1>1, <1>2, <1>3, <1>4, EnvelopeStep DEF IInv
<1>6. PlainInv'
  BY <1>3, PlainStays DEF IInv
<1>7. PICK v : v = [pc |-> "record", todo |-> x.todo, env |-> x.env, blocked |-> x.blocked,
                    git |-> x.git]
  OBVIOUS
<1>8. DOMAIN w' = Workers /\ w'[p] = v /\ \A q \in Workers : q # p => w'[q] = w[q]
  BY <1>0, <1>2, <1>3, <1>7 DEF IsWorker
<1>9. IsWorker(v) /\ v.pc = "record" /\ Active(v) /\ v.env = x.env
  BY <1>7, WorkerIs DEF Active
<1>10. (Holder(v))'
  BY <1>1, <1>2, <1>3, <1>4, <1>7, <1>9, HolderStays
<1>11. (Holder(w[p]))'
  BY <1>8, <1>10 DEF Holder
<1>12. WorkerInv'
  BY <1>2, <1>3, <1>8, <1>9, <1>11, MoveKeeps DEF IInv
<1> QED BY <1>5, <1>6, <1>12 DEF IInv

\* The envelope takes note of the operation that was applied.
LEMMA RecordDeliveryKeeps ==
  ASSUME IInv, NEW p \in Workers, RecordDelivery(p)
  PROVE  IInv'
<1>0. PICK x : x = w[p]
  OBVIOUS
<1>1. x.pc = "record" /\ Active(w[p]) /\ Active(x)
  BY <1>0 DEF RecordDelivery, Holds, Active
<1>2. /\ Holder(x) /\ lock = p /\ w[p].pc # "idle" /\ DOMAIN w = Workers /\ IsWorker(x)
      /\ x.env.id \in DOMAIN journal /\ journal[x.env.id] = x.env
      /\ IsEnvelope(x.env) /\ Excused(x.env)
      /\ \A i \in 1 .. x.env.next : Rec(x.env, i) \in applied
      /\ \A r \in applied : r.hook = x.env.id => Matches(r, x.env)
  BY <1>0, <1>1, AtWork DEF IInv, WorkerInv
<1>3. x.env.prepared /\ x.env.next < Len(x.env.ops) /\ Rec(x.env, x.env.next + 1) \in applied
  BY <1>1, <1>2 DEF Holder
<1>4. PICK e : e = [x.env EXCEPT !.next = @ + 1, !.permanent = FALSE]
  OBVIOUS
<1>5. /\ journal' = Written(e) /\ w' = [w EXCEPT ![p].env = e, ![p].pc = "deliver"]
      /\ UNCHANGED <<script, pos, order, cfg, files, lock, applied, faults>>
  BY <1>0, <1>4 DEF RecordDelivery, capture
<1>6. /\ IsEnvelope(e) /\ e.id = x.env.id /\ e.prepared /\ e.ops = x.env.ops
      /\ e.next = x.env.next + 1 /\ e.nonce = x.env.nonce
  BY <1>2, <1>3, <1>4, DeliveredIs
<1>7. x.env.next \in Nat
  BY <1>2, EnvelopeTypes
<1>8. Excused(e)
  BY <1>2, <1>3, <1>6 DEF Excused
<1>9. /\ DOMAIN journal' = DOMAIN journal /\ journal'[e.id] = e
      /\ \A id \in DOMAIN journal : id # e.id => journal'[id] = journal[id]
  BY <1>2, <1>5, <1>6 DEF Written
<1>10. LogInv'
  <2>1. ASSUME NEW i \in 1 .. e.next PROVE Rec(e, i) \in applied
    <3>1. Rec(e, i) = Rec(x.env, i)
      BY <1>6 DEF Rec
    <3>2. i \in 1 .. x.env.next \/ i = x.env.next + 1
      BY <1>6, <1>7
    <3> QED BY <1>2, <1>3, <3>1, <3>2
  <2>2. ASSUME NEW q \in applied, q.hook = e.id PROVE Matches(q, e)
    <3>1. Matches(q, x.env) /\ q.idx \in Nat
      BY <1>2, <1>6, <2>2 DEF IInv, LogInv, AppliedInv, RecordSet
    <3> QED BY <1>6, <1>7, <3>1 DEF Matches
  <2> QED BY <1>2, <1>5, <1>6, <1>8, <1>9, <2>1, <2>2, EnvelopeStep DEF IInv
<1>11. PICK v : v = [pc |-> "deliver", todo |-> x.todo, env |-> e, blocked |-> x.blocked,
                    git |-> x.git]
  OBVIOUS
<1>12. DOMAIN w' = Workers /\ w'[p] = v /\ \A q \in Workers : q # p => w'[q] = w[q]
  BY <1>0, <1>2, <1>5, <1>11 DEF IsWorker
<1>13. IsWorker(v) /\ v.pc = "deliver" /\ Active(v)
  BY <1>11, WorkerIs DEF Active
<1>14. (Holder(v))'
  BY <1>1, <1>2, <1>5, <1>6, <1>9, <1>11, <1>13, HolderStays
<1>15. (Holder(w[p]))'
  BY <1>12, <1>14 DEF Holder
<1>16. WorkerInv'
  BY <1>2, <1>5, <1>12, <1>13, <1>15, MoveKeeps DEF IInv
<1>17. PlainInv'
  BY <1>5, PlainStays DEF IInv
<1> QED BY <1>10, <1>16, <1>17 DEF IInv

\* A delivery fails: the envelope, if it is written, keeps its operations, and the
\* one that failed may have been applied.
LEMMA FailStep ==
  ASSUME IInv, NEW p \in Workers, Undelivered(p), NEW b, Fail(p, b),
         UNCHANGED <<script, pos, order>>,
         applied' = applied \/ applied' = applied \cup {Record(p)}
  PROVE  LogInv' /\ DOMAIN journal' = DOMAIN journal
<1>0. PICK x : x = w[p]
  OBVIOUS
<1>1. x.pc = "deliver" /\ Active(w[p]) /\ x.env.next < Len(x.env.ops)
  BY <1>0 DEF Undelivered, Holds, Active
<1>2. /\ Holder(x) /\ x.env.id \in DOMAIN journal /\ journal[x.env.id] = x.env
      /\ IsEnvelope(x.env) /\ Excused(x.env) /\ AllGoneBefore(x.env.id)
      /\ \A i \in 1 .. x.env.next : Rec(x.env, i) \in applied
      /\ \A r \in applied : r.hook = x.env.id => Matches(r, x.env)
  BY <1>0, <1>1, AtWork
<1>3. x.env.prepared
  BY <1>1, <1>2 DEF Holder, Active
<1>4. PICK failed : failed = [x.env EXCEPT !.permanent = b, !.key = cfg]
  OBVIOUS
<1>5. /\ IsEnvelope(failed) /\ failed.id = x.env.id /\ failed.prepared = x.env.prepared
      /\ failed.ops = x.env.ops /\ failed.next = x.env.next /\ failed.nonce = x.env.nonce
  <2>1. PICK old, k : old = x.env /\ k = cfg
    OBVIOUS
  <2>2. IsEnvelope(old) /\ failed = [old EXCEPT !.permanent = b, !.key = k]
    BY <1>2, <1>4, <2>1
  <2>3. PICK id, prepared, state, ops, next, permanent, key, nonce :
          /\ old = [id |-> id, prepared |-> prepared, state |-> state, ops |-> ops,
                    next |-> next, permanent |-> permanent, key |-> key, nonce |-> nonce]
          /\ prepared \in BOOLEAN /\ IsState(state) /\ IsSeq(ops)
          /\ next \in Nat /\ next <= Len(ops) /\ nonce \in Nat
          /\ ~prepared => next = 0
    BY <2>2 DEF IsEnvelope
  <2>4. failed = [id |-> id, prepared |-> prepared, state |-> state, ops |-> ops,
                  next |-> next, permanent |-> b, key |-> k, nonce |-> nonce]
    BY <2>2, <2>3
  <2>5. IsEnvelope([id |-> id, prepared |-> prepared, state |-> state, ops |-> ops,
                    next |-> next, permanent |-> b, key |-> k, nonce |-> nonce])
    BY <2>3, EnvelopeIs, Zenon
  <2> QED BY <2>1, <2>3, <2>4, <2>5
<1>6. PICK e : /\ e = (IF Fits(failed) THEN failed ELSE x.env)
               /\ e \in {failed, x.env}
  OBVIOUS
<1>7. /\ IsEnvelope(e) /\ e.id = x.env.id /\ e.prepared /\ e.ops = x.env.ops
      /\ e.next = x.env.next /\ e.nonce = x.env.nonce
  BY <1>2, <1>3, <1>5, <1>6
<1>8. /\ DOMAIN journal' = DOMAIN journal /\ journal'[e.id] = e
      /\ \A id \in DOMAIN journal : id # e.id => journal'[id] = journal[id]
  <2>1. journal' = IF Fits(failed) THEN Written(failed) ELSE journal
    BY <1>0, <1>4 DEF Fail
  <2>2. CASE Fits(failed)
    <3>1. e = failed /\ journal' = Written(failed)
      BY <1>6, <2>1, <2>2
    <3> QED BY <1>2, <1>5, <3>1 DEF Written
  <2>3. CASE ~Fits(failed)
    <3>1. e = x.env /\ journal' = journal
      BY <1>6, <2>1, <2>3
    <3> QED BY <1>2, <3>1
  <2> QED BY <2>2, <2>3
<1>9. \A i : Rec(e, i) = Rec(x.env, i)
  BY <1>7 DEF Rec
<1>10. /\ Excused(e) /\ e.next < Len(e.ops) /\ AllGoneBefore(e.id) /\ e.id \in DOMAIN journal
  <2>1. e.next \in Nat /\ Len(e.ops) \in Nat /\ e.next < Len(e.ops)
    BY <1>1, <1>7, EnvelopeTypes
  <2>2. Excused(e)
    BY <2>1 DEF Excused
  <2>3. AllGoneBefore(e.id) /\ e.id \in DOMAIN journal
    BY <1>2, <1>7
  <2> QED BY <2>1, <2>2, <2>3
<1>11. \A i \in 1 .. e.next : Rec(e, i) \in applied
  BY <1>2, <1>7, <1>9
<1>12. \A r \in applied : r.hook = e.id => Matches(r, e)
  BY <1>2, <1>3, <1>7 DEF Matches
<1>13. applied' = applied \/ applied' = applied \cup {Rec(e, e.next + 1)}
  <2>1. Record(p) = Rec(x.env, x.env.next + 1)
    BY <1>0 DEF Record, Rec
  <2> QED BY <1>7, <1>9, <2>1
<1> QED BY <1>7, <1>8, <1>10, <1>11, <1>12, <1>13, EnvelopeStep DEF IInv

\* An operation is refused for good: its session is held back.
LEMMA DeliverRefusedKeeps ==
  ASSUME IInv, NEW p \in Workers, DeliverRefused(p)
  PROVE  IInv'
<1>0. PICK x : x = w[p]
  OBVIOUS
<1>1. x.pc = "deliver" /\ Active(w[p]) /\ Active(x)
  BY <1>0 DEF DeliverRefused, Undelivered, Holds, Active
<1>2. Holder(x) /\ lock = p /\ w[p].pc # "idle" /\ DOMAIN w = Workers /\ IsWorker(x)
  BY <1>0, <1>1, AtWork DEF IInv, WorkerInv
<1>3. /\ Undelivered(p) /\ Fail(p, TRUE)
      /\ UNCHANGED <<script, pos, order, cfg, files, lock, applied, faults>>
      /\ w' = [w EXCEPT ![p].pc = "next", ![p].blocked = @ \cup {x.env.id[1]}]
  BY <1>0 DEF DeliverRefused, capture
<1>4. LogInv' /\ DOMAIN journal' = DOMAIN journal
  BY <1>3, FailStep
<1>5. PlainInv'
  BY <1>3, PlainStays DEF IInv
<1>6. PICK v : v = [pc |-> "next", todo |-> x.todo, env |-> x.env,
                    blocked |-> x.blocked \cup {x.env.id[1]},
                    git |-> x.git]
  OBVIOUS
<1>7. DOMAIN w' = Workers /\ w'[p] = v /\ \A q \in Workers : q # p => w'[q] = w[q]
  BY <1>0, <1>2, <1>3, <1>6 DEF IsWorker
<1>8. IsWorker(v) /\ v.pc = "next"
  BY <1>6, WorkerIs
<1>9. (Holder(v))'
  BY <1>1, <1>2, <1>4, <1>6, <1>8, HolderIdles
<1>10. (Holder(w[p]))'
  BY <1>7, <1>9 DEF Holder
<1>11. WorkerInv'
  BY <1>2, <1>3, <1>7, <1>8, <1>10, MoveKeeps DEF IInv
<1> QED BY <1>4, <1>5, <1>11 DEF IInv

\* Any other failure ends the pass.
LEMMA DeliverFailsKeeps ==
  ASSUME IInv, NEW p \in Workers, DeliverFails(p)
  PROVE  IInv'
<1>1. /\ Undelivered(p) /\ Fail(p, FALSE) /\ Return(p) /\ UNCHANGED <<script, pos, order, cfg, files>>
      /\ applied' = applied \/ applied' = applied \cup {Record(p)}
      /\ faults' = faults \/ (faults < MaxFaults /\ faults' = faults + 1)
  BY DEF DeliverFails, capture
<1>2. LogInv'
  BY <1>1, FailStep
<1>3. w[p].pc # "idle"
  BY <1>1 DEF Undelivered, Holds
<1>4. WorkerInv'
  BY <1>1, <1>3, ReturnKeeps DEF IInv
<1>5. PlainInv'
  BY <1>1, CollectorAssumption DEF IInv, PlainInv
<1> QED BY <1>2, <1>4, <1>5 DEF IInv

\* The pass ends and the spool stays as it is.
LEMMA EndsKeep ==
  ASSUME IInv, NEW p \in Workers,
         EndDrain(p) \/ StartRefused(p) \/ PrepareFull(p) \/ RecordFull(p) \/ WorkerDies(p)
  PROVE  IInv'
<1>1. /\ Return(p) /\ w[p].pc # "idle" /\ UNCHANGED <<script, pos, order, cfg, journal, files, applied>>
      /\ faults' = faults \/ (faults < MaxFaults /\ faults' = faults + 1)
  BY DEF EndDrain, StartRefused, StartConflicts, Starts, PrepareFull, RecordFull, WorkerDies,
         Holds, capture
<1>2. LogInv'
  BY <1>1, SameLog DEF IInv
<1>3. WorkerInv'
  BY <1>1, ReturnKeeps DEF IInv
<1>4. PlainInv'
  BY <1>1, CollectorAssumption DEF IInv, PlainInv
<1> QED BY <1>2, <1>3, <1>4 DEF IInv

\* A delivered envelope is removed.
LEMMA RemoveEntryKeeps ==
  ASSUME IInv, NEW p \in Workers, RemoveEntry(p)
  PROVE  IInv'
<1>0. PICK x : x = w[p]
  OBVIOUS
<1>1. x.pc = "deliver" /\ Active(w[p]) /\ Active(x) /\ x.env.next = Len(x.env.ops)
  BY <1>0 DEF RemoveEntry, Finished, Holds, Active
<1>2. /\ Holder(x) /\ lock = p /\ w[p].pc # "idle" /\ DOMAIN w = Workers /\ IsWorker(x)
      /\ x.env.id \in DOMAIN journal /\ journal[x.env.id] = x.env
  BY <1>0, <1>1, AtWork DEF IInv, WorkerInv
<1>3. PICK pc : pc = (IF x.env.state.closed THEN "clear" ELSE "next") /\ pc \in {"next", "clear"}
  OBVIOUS
<1>4. /\ journal' = [k \in DOMAIN journal \ {x.env.id} |-> journal[k]]
      /\ w' = [w EXCEPT ![p].pc = pc]
      /\ UNCHANGED <<script, pos, order, cfg, files, lock, applied, faults>>
  BY <1>0, <1>3 DEF RemoveEntry, capture
<1>5. x.env.prepared
  BY <1>1, <1>2 DEF Holder
<1>6. LogInv'
  BY <1>1, <1>2, <1>4, <1>5, RemoveStep DEF IInv
<1>7. PlainInv'
  BY <1>4, PlainStays DEF IInv
<1>8. PICK v : v = [pc |-> pc, todo |-> x.todo, env |-> x.env, blocked |-> x.blocked,
                    git |-> x.git]
  OBVIOUS
<1>9. DOMAIN w' = Workers /\ w'[p] = v /\ \A q \in Workers : q # p => w'[q] = w[q]
  BY <1>0, <1>2, <1>4, <1>8 DEF IsWorker
<1>10. IsWorker(v) /\ v.pc \in {"next", "clear"} /\ v.todo = x.todo /\ v.blocked = x.blocked
  BY <1>3, <1>8, WorkerIs
<1>11. (Holder(v))'
  <2>1. ~Active(v) /\ v.pc # "record"
    BY <1>10 DEF Active
  <2>2. DOMAIN journal' = DOMAIN journal \ {x.env.id}
    BY <1>4
  <2>3. x.env.id \notin x.todo /\ x.todo \subseteq DOMAIN journal
    BY <1>1, <1>2 DEF Holder
  <2>4. ASSUME NEW id \in x.todo, NEW other \in DOMAIN journal', Before(other, id)
        PROVE  other \in x.todo \/ id[1] \in x.blocked
    BY <1>2, <2>2, <2>4 DEF Holder
  <2> QED BY <1>10, <2>1, <2>2, <2>3, <2>4 DEF Holder
<1>12. (Holder(w[p]))'
  BY <1>9, <1>11 DEF Holder
<1>13. WorkerInv'
  BY <1>2, <1>4, <1>9, <1>10, <1>12, MoveKeeps DEF IInv
<1> QED BY <1>6, <1>7, <1>13 DEF IInv

\* The state file of a closed session is cleared.
LEMMA ClearStateKeeps ==
  ASSUME IInv, NEW p \in Workers, ClearState(p)
  PROVE  IInv'
<1>0. PICK x : x = w[p]
  OBVIOUS
<1>1. x.pc = "clear" /\ ~Active(x) /\ w[p].pc # "idle"
  BY <1>0 DEF ClearState, Holds, Active
<1>2. Holder(x) /\ lock = p /\ DOMAIN w = Workers /\ IsWorker(x)
  BY <1>0, <1>1 DEF IInv, WorkerInv
<1>3. /\ files' = [files EXCEPT ![x.env.id[1]] = NoState] /\ w' = [w EXCEPT ![p].pc = "next"]
      /\ UNCHANGED <<script, pos, order, cfg, journal, lock, applied, faults>>
  BY <1>0 DEF ClearState, capture
<1>4. LogInv'
  BY <1>3, SameLog DEF IInv
<1>5. PlainInv'
  BY <1>3, NoStateIsState DEF IInv, PlainInv
<1>6. PICK v : v = [pc |-> "next", todo |-> x.todo, env |-> x.env, blocked |-> x.blocked,
                    git |-> x.git]
  OBVIOUS
<1>7. DOMAIN w' = Workers /\ w'[p] = v /\ \A q \in Workers : q # p => w'[q] = w[q]
  BY <1>0, <1>2, <1>3, <1>6 DEF IsWorker
<1>8. IsWorker(v) /\ v.pc = "next"
  BY <1>6, WorkerIs
<1>9. (Holder(v))'
  BY <1>1, <1>2, <1>3, <1>6, <1>8, HolderIdles
<1>10. (Holder(w[p]))'
  BY <1>7, <1>9 DEF Holder
<1>11. WorkerInv'
  BY <1>1, <1>2, <1>3, <1>7, <1>8, <1>10, MoveKeeps DEF IInv
<1> QED BY <1>4, <1>5, <1>11 DEF IInv

\* A hook is captured beside a pass: it is not on the list of the process, and
\* comes after all of its session that are.
LEMMA EnqueueHookKeeps ==
  ASSUME IInv, NEW s \in Sessions, EnqueueHook(s)
  PROVE  IInv'
<1>0. PICK new : new = NextHook(s)
  OBVIOUS
<1>1. /\ LogInv' /\ DOMAIN journal' = DOMAIN journal \cup {new}
      /\ new \notin Captured /\ (\A id \in Captured : ~Before(new, id))
      /\ (\A id \in DOMAIN journal : journal'[id] = journal[id])
      /\ (\A id \in Captured : Gone(id)' <=> Gone(id))
      /\ Captured' = Captured \cup {new}
  BY <1>0, CaptureStep DEF IInv
<1>2. UNCHANGED <<w, lock, applied, files, cfg, faults>>
  BY DEF EnqueueHook, Raises
<1>3. PlainInv'
  BY <1>2, PlainStays DEF IInv
<1>4. DOMAIN journal \subseteq Captured
  BY DEF IInv, LogInv, JournalInv
<1>5. ASSUME NEW x, Holder(x) PROVE (Holder(x))'
  <2>1. x.todo \subseteq DOMAIN journal
    BY <1>5 DEF Holder
  <2>2. ASSUME Active(x)
        PROVE  (/\ x.env.id \in DOMAIN journal /\ x.env.id \notin x.todo
                /\ journal[x.env.id] = x.env
                /\ AllGoneBefore(x.env.id))'
    <3>1. /\ x.env.id \in DOMAIN journal /\ x.env.id \notin x.todo
          /\ journal[x.env.id] = x.env /\ AllGoneBefore(x.env.id)
      BY <1>5, <2>2 DEF Holder
    <3>2. (AllGoneBefore(x.env.id))'
      BY <1>1, <1>4, <3>1 DEF AllGoneBefore
    <3> QED BY <1>1, <3>1, <3>2
  <2>3. ASSUME NEW id \in x.todo, NEW other \in DOMAIN journal', Before(other, id)
        PROVE  other \in x.todo \/ (Active(x) /\ other = x.env.id) \/ id[1] \in x.blocked
    <3>1. other # new
      BY <1>1, <1>4, <2>1, <2>3
    <3>2. other \in DOMAIN journal
      BY <1>1, <3>1
    <3> QED BY <1>5, <2>3, <3>2 DEF Holder
  <2> QED BY <1>1, <1>2, <1>5, <2>1, <2>2, <2>3 DEF Holder
<1>6. WorkerInv'
  <2>1. ASSUME NEW p \in Workers
        PROVE  (/\ IsWorker(w[p]) /\ (w[p].pc # "idle" <=> lock = p)
                /\ w[p].pc # "idle" => Holder(w[p]))'
    <3>1. PICK x : x = w[p]
      OBVIOUS
    <3>2. IsWorker(x) /\ (x.pc # "idle" <=> lock = p) /\ (x.pc # "idle" => Holder(x))
      BY <3>1 DEF IInv, WorkerInv
    <3>3. x.pc # "idle" => (Holder(x))'
      BY <1>5, <3>2
    <3>4. w'[p] = x /\ lock' = lock
      BY <1>2, <3>1
    <3>5. w'[p].pc # "idle" => (Holder(w[p]))'
      BY <3>3, <3>4 DEF Holder
    <3> QED BY <3>2, <3>4, <3>5
  <2> QED BY <1>2, <2>1 DEF IInv, WorkerInv
<1> QED BY <1>1, <1>3, <1>6 DEF IInv

\* The other steps of the capture leave the spool as it is.
LEMMA OtherCaptureKeeps ==
  ASSUME IInv, \/ Reconfigure \/ Checkout \/ Reprice
               \/ \E s \in Sessions : RefuseHook(s) \/ HookDies(s)
  PROVE  IInv'
<1>1. UNCHANGED <<script, order, journal, files, lock, w, applied>>
  BY DEF Reconfigure, Checkout, Reprice, RefuseHook, HookDies, Raises
<1>2. pos \in [Sessions -> Nat]
  BY DEF IInv, LogInv, OrderInv
<1>3. pos' \in [Sessions -> Nat] /\ \A s \in Sessions : pos[s] <= pos'[s]
  <2>1. CASE Reconfigure \/ Checkout \/ Reprice
    BY <1>2, <2>1 DEF Reconfigure, Checkout, Reprice
  <2>2. ASSUME NEW s \in Sessions, RefuseHook(s) \/ HookDies(s)
        PROVE  pos' \in [Sessions -> Nat] /\ \A t \in Sessions : pos[t] <= pos'[t]
    <3>1. pos' = [pos EXCEPT ![s] = @ + 1]
      BY <2>2 DEF RefuseHook, HookDies, Raises
    <3> QED BY <1>2, <3>1
  <2> QED BY <2>1, <2>2
<1>4. LogInv'
  BY <1>1, <1>3, QuietLog DEF IInv
<1>5. WorkerInv'
  BY <1>1 DEF IInv, WorkerInv, Holder, AllGoneBefore, Captured, Gone
<1>6. faults' \in 0 .. MaxFaults /\ cfg' \in DOMAIN Limits
  <2>1. DOMAIN Limits = 1 .. Len(Limits) /\ Len(Limits) \in Nat
    BY CollectorAssumption
  <2>2. faults' = faults \/ (faults < MaxFaults /\ faults' = faults + 1)
    BY DEF Reconfigure, Checkout, Reprice, RefuseHook, HookDies
  <2>3. cfg' = cfg \/ (cfg < Len(Limits) /\ cfg' = cfg + 1)
    BY DEF Reconfigure, Checkout, Reprice, RefuseHook, HookDies, Raises
  <2> QED BY <2>1, <2>2, <2>3, CollectorAssumption DEF IInv, PlainInv
<1>7. PlainInv'
  BY <1>1, <1>6 DEF IInv, PlainInv
<1> QED BY <1>4, <1>5, <1>7 DEF IInv

-----------------------------------------------------------------------------
(***************************************************************************)
(* The theorems.                                                           *)
(***************************************************************************)

\* An empty spool, no worker and no history.
LEMMA InitInv == Init => IInv
<1> SUFFICES ASSUME Init PROVE IInv
  OBVIOUS
<1>1. Captured = {} /\ DOMAIN journal = {} /\ applied = {} /\ order \in Seq(Ids) /\ DOMAIN order = {}
  BY DEF Init, Captured
<1>2. LogInv
  BY <1>1 DEF Init, LogInv, OrderInv, JournalInv, AppliedInv, NothingLost
<1>3. WorkerInv
  <2>1. ASSUME NEW p \in Workers
        PROVE  IsWorker(w[p]) /\ w[p].pc = "idle" /\ lock # p
    <3>1. w[p] = [pc |-> "idle", todo |-> {}, env |-> NewEnvelope(None), blocked |-> {},
             git |-> 0]
      BY DEF Init, Idle
    <3> QED BY <3>1, WorkerIs, CollectorAssumption DEF Init
  <2> QED BY <2>1 DEF Init, WorkerInv
<1>4. PlainInv
  <2>1. DOMAIN Limits = 1 .. Len(Limits) /\ Len(Limits) \in Nat
    BY CollectorAssumption
  <2> QED BY <2>1, NoStateIsState, CollectorAssumption DEF Init, PlainInv
<1> QED BY <1>2, <1>3, <1>4 DEF IInv

\* Every step keeps the invariant.
LEMMA NextInv == IInv /\ [Next]_vars => IInv'
<1> SUFFICES ASSUME IInv, [Next]_vars PROVE IInv'
  OBVIOUS
<1>1. CASE Next
  <2>1. ASSUME NEW s \in Sessions, EnqueueHook(s) \/ RefuseHook(s) \/ HookDies(s) PROVE IInv'
    BY <2>1, EnqueueHookKeeps, OtherCaptureKeeps
  <2>2. CASE Reconfigure \/ Checkout \/ Reprice
    BY <2>2, OtherCaptureKeeps
  <2>3. ASSUME NEW p \in Workers,
               StartDrain(p) \/ WorkerStep(p) \/ DeliverFails(p) \/ WorkerDies(p)
        PROVE  IInv'
    <3>1. CASE WorkerStep(p)
      BY <3>1, SkipEntryKeeps, ReadEntryKeeps, StartExecutionKeeps, PrepareHookKeeps,
         SaveStateKeeps, DeliverKeeps, RecordDeliveryKeeps, DeliverRefusedKeeps,
         RemoveEntryKeeps, ClearStateKeeps, EndsKeep DEF WorkerStep
    <3> QED BY <2>3, <3>1, StartDrainKeeps, DeliverFailsKeeps, EndsKeep
  <2> QED BY <1>1, <2>1, <2>2, <2>3 DEF Next
<1>2. CASE UNCHANGED vars
  <2>1. UNCHANGED <<script, pos, order, journal, files, cfg, lock, w, applied, faults>>
    BY <1>2 DEF vars
  <2>2. LogInv' /\ PlainInv'
    BY <2>1, SameLog, PlainStays DEF IInv
  <2>3. WorkerInv'
    BY <2>1 DEF IInv, WorkerInv, Holder, AllGoneBefore, Captured, Gone
  <2> QED BY <2>2, <2>3 DEF IInv
<1> QED BY <1>1, <1>2

\* The invariant holds always.
LEMMA InductiveInvariant == Spec => []IInv
BY InitInv, NextInv, PTL DEF Spec

\* NothingLost, for any number of sessions, hooks, workers and crashes: a hook
\* leaves the spool only when every operation it was mapped to has been applied
\* (spool.go:338, spool.go:346); only a hook of a tool is mapped to none.
THEOREM NothingIsLost == Spec => []NothingLost
<1>1. IInv => NothingLost
  BY DEF IInv, LogInv
<1> QED BY <1>1, InductiveInvariant, PTL

\* ReplayInOrder, for any number of sessions, hooks, workers and crashes: what
\* the server applies of a hook comes from one preparation, in order and without
\* a gap, and of a session in the order of capture (spool.go:9).
THEOREM ReplayStaysInOrder == Spec => []ReplayInOrder
<1>1. IInv => ReplayInOrder
  <2> SUFFICES ASSUME IInv PROVE ReplayInOrder
    OBVIOUS
  <2>1. TypeOK
    <3>1. Captured \subseteq Sessions \X Nat
      BY DEF IInv, LogInv, OrderInv, Captured, Ids
    <3>2. \A id \in DOMAIN journal : journal[id].next <= Len(journal[id].ops)
      BY EnvelopeTypes DEF IInv, LogInv, JournalInv
    <3> QED BY <3>1, <3>2 DEF IInv, LogInv, OrderInv, JournalInv, WorkerInv, PlainInv, TypeOK
  <2>2. ExactReplay
    BY DEF IInv, LogInv, AppliedInv, ExactReplay
  <2>3. InOrder
    <3>1. ASSUME NEW r \in applied, NEW i \in 1 .. r.idx PROVE [r EXCEPT !.idx = i] \in applied
      <4>1. r \in RecordSet /\ Earlier(r, i) \in applied
        BY DEF IInv, LogInv, AppliedInv
      <4>2. [r EXCEPT !.idx = i] = Earlier(r, i)
        BY <4>1 DEF RecordSet, Earlier
      <4> QED BY <4>1, <4>2
    <3>2. ASSUME NEW r \in applied PROVE AllGoneBefore(r.hook)
      BY DEF IInv, LogInv, AppliedInv
    <3> QED BY <3>1, <3>2 DEF InOrder, AllGoneBefore
  <2> QED BY <2>1, <2>2, <2>3 DEF ReplayInOrder
<1> QED BY <1>1, InductiveInvariant, PTL

-----------------------------------------------------------------------------
(***************************************************************************)
(* What the batches carry.                                                 *)
(***************************************************************************)
\* x is one of the spans of the operations.
Carried(x, ops) ==
  \E j \in DOMAIN ops : \E i \in DOMAIN ops[j].spans : ops[j].spans[i] = x

\* Batches of spans of one execution.
IsBatches(ops, exec) ==
  /\ IsSeq(ops)
  /\ \A j \in DOMAIN ops : /\ ops[j] = SpansOp(exec, ops[j].spans)
                           /\ IsSeq(ops[j].spans)

\* One element more, and two sequences in one.
Longer(r, q, x) == r = Append(q, x)

Joined(r, q, t) == r = q \o t

\* The elements of a longer sequence.
LEMMA AppendElements ==
  ASSUME NEW q, IsSeq(q), NEW x, NEW r, Longer(r, q, x)
  PROVE  /\ IsSeq(r) /\ DOMAIN q \subseteq DOMAIN r
         /\ \A i \in DOMAIN q : r[i] = q[i]
         /\ \A i \in DOMAIN r : i \in DOMAIN q \/ r[i] = x
         /\ \E i \in DOMAIN r : r[i] = x
<1>1. PICK S : q \in Seq(S) BY IsSeqOf
<1>2. PICK T : T = S \cup {x} OBVIOUS
<1>3. q \in Seq(T) /\ x \in T BY <1>1, <1>2
<1>4. r \in Seq(T) /\ Len(r) = Len(q) + 1 /\ Len(q) \in Nat
  BY <1>3 DEF Longer
<1>5. DOMAIN q = 1 .. Len(q) /\ DOMAIN r = 1 .. Len(q) + 1
  BY <1>3, <1>4
<1>6. IsSeq(r) BY <1>4, SeqIsSeq
<1>7. \A i \in 1 .. Len(q) : r[i] = q[i]
  BY <1>3 DEF Longer
<1>8. r[Len(q) + 1] = x
  BY <1>3 DEF Longer
<1>9. Len(q) + 1 \in DOMAIN r
  BY <1>4, <1>5
<1> QED BY <1>4, <1>5, <1>6, <1>7, <1>8, <1>9

\* The elements of a concatenation.
LEMMA CatElements ==
  ASSUME NEW q, IsSeq(q), NEW t, IsSeq(t), NEW r, Joined(r, q, t)
  PROVE  /\ IsSeq(r) /\ Len(q) \in Nat /\ Len(t) \in Nat /\ Len(r) = Len(q) + Len(t)
         /\ DOMAIN q = 1 .. Len(q) /\ DOMAIN t = 1 .. Len(t) /\ DOMAIN r = 1 .. Len(r)
         /\ \A i \in DOMAIN q : i \in DOMAIN r /\ r[i] = q[i]
         /\ \A i \in DOMAIN t : Len(q) + i \in DOMAIN r /\ r[Len(q) + i] = t[i]
         /\ \A i \in DOMAIN r : \/ i \in DOMAIN q
                                \/ \E k \in DOMAIN t : i = Len(q) + k /\ r[i] = t[k]
<1>1. PICK A : q \in Seq(A) BY IsSeqOf
<1>2. PICK B : t \in Seq(B) BY IsSeqOf
<1>3. PICK T : T = A \cup B OBVIOUS
<1>4. q \in Seq(T) /\ t \in Seq(T) BY <1>1, <1>2, <1>3
<1>5. IsSeq(r) /\ Len(q) \in Nat /\ Len(t) \in Nat /\ Len(r) = Len(q) + Len(t)
  BY CatIsSeq DEF Joined
<1>6. DOMAIN q = 1 .. Len(q) /\ DOMAIN t = 1 .. Len(t) /\ DOMAIN r = 1 .. Len(r)
  BY <1>5, LenIsNat
<1>7. \A i \in DOMAIN q : i \in DOMAIN r /\ r[i] = q[i]
  BY <1>4, <1>5, <1>6 DEF Joined
<1>8. ASSUME NEW i \in DOMAIN t PROVE Len(q) + i \in DOMAIN r /\ r[Len(q) + i] = t[i]
  <2>1. i \in Nat /\ 1 <= i /\ i <= Len(t)
    BY <1>5, <1>6
  <2>2. Len(q) + i \in 1 .. Len(q) + Len(t) /\ Len(q) + i > Len(q) /\ (Len(q) + i) - Len(q) = i
    BY <1>5, <2>1
  <2>3. r[Len(q) + i] = t[(Len(q) + i) - Len(q)]
    BY <1>4, <2>2 DEF Joined
  <2> QED BY <1>5, <1>6, <2>2, <2>3
<1>9. ASSUME NEW i \in DOMAIN r, i \notin DOMAIN q
      PROVE  \E k \in DOMAIN t : i = Len(q) + k /\ r[i] = t[k]
  <2>1. i - Len(q) \in 1 .. Len(t) /\ i = Len(q) + (i - Len(q))
    BY <1>5, <1>6, <1>9
  <2> QED BY <1>6, <1>8, <2>1
<1> QED BY <1>5, <1>6, <1>7, <1>8, <1>9

\* One span more.
LEMMA PackedCarries ==
  ASSUME NEW exec, NEW done, IsBatches(done, exec), NEW span, NEW limit,
         NEW r, r = Packed(done, exec, span, limit)
  PROVE  /\ IsBatches(r, exec)
         /\ \A x : Carried(x, r) <=> Carried(x, done) \/ x = span
<1>1. PICK n : n = Len(done)
  OBVIOUS
<1>2. IsSeq(done) /\ n \in Nat /\ DOMAIN done = 1 .. n
  BY <1>1, LenIsNat DEF IsBatches
<1>3. CASE r = Append(done, SpansOp(exec, <<span>>))
  <2>1. PICK op : op = SpansOp(exec, <<span>>)
    OBVIOUS
  <2>2. IsSeq(<<span>>) /\ op.spans = <<span>> /\ DOMAIN <<span>> = {1} /\ <<span>>[1] = span
    BY <2>1, ShortIsSeq DEF SpansOp
  <2>3. op = SpansOp(exec, op.spans) /\ IsSeq(op.spans)
    BY <2>1, <2>2
  <2>4. /\ IsSeq(r) /\ DOMAIN done \subseteq DOMAIN r
        /\ \A i \in DOMAIN done : r[i] = done[i]
        /\ \A i \in DOMAIN r : i \in DOMAIN done \/ r[i] = op
        /\ \E i \in DOMAIN r : r[i] = op
    <3>1. IsSeq(done) /\ Longer(r, done, op)
      BY <1>2, <1>3, <2>1 DEF Longer
    <3> QED BY <3>1, AppendElements
  <2>5. IsBatches(r, exec)
    BY <2>3, <2>4 DEF IsBatches
  <2>6. ASSUME NEW x, Carried(x, r) PROVE Carried(x, done) \/ x = span
    <3>1. PICK j \in DOMAIN r : \E i \in DOMAIN r[j].spans : r[j].spans[i] = x
      BY <2>6 DEF Carried
    <3> QED BY <2>2, <2>4, <3>1 DEF Carried
  <2>7. ASSUME NEW x, Carried(x, done) PROVE Carried(x, r)
    BY <2>4, <2>7 DEF Carried
  <2>8. Carried(span, r)
    <3>1. 1 \in DOMAIN op.spans /\ op.spans[1] = span
      BY <2>2
    <3> QED BY <2>4, <3>1 DEF Carried
  <2> QED BY <2>5, <2>6, <2>7, <2>8
<1>4. CASE done # <<>> /\ r = [done EXCEPT ![n].spans = Append(@, span)]
  <2>1. n \in DOMAIN done
    <3>1. n # 0
      BY <1>1, <1>2, <1>4 DEF IsSeq
    <3> QED BY <1>2, <3>1
  <2>2. PICK q : q = done[n].spans
    OBVIOUS
  <2>3. IsSeq(q) /\ done[n] = SpansOp(exec, q)
    BY <2>1, <2>2 DEF IsBatches
  <2>4. PICK t : t = Append(q, span)
    OBVIOUS
  <2>5. /\ IsSeq(t) /\ DOMAIN q \subseteq DOMAIN t
        /\ \A i \in DOMAIN q : t[i] = q[i]
        /\ \A i \in DOMAIN t : i \in DOMAIN q \/ t[i] = span
        /\ \E i \in DOMAIN t : t[i] = span
    <3>1. Longer(t, q, span)
      BY <2>4 DEF Longer
    <3> QED BY <2>3, <3>1, AppendElements
  <2>6. DOMAIN r = DOMAIN done /\ r[n] = SpansOp(exec, t)
        /\ \A j \in DOMAIN done : j # n => r[j] = done[j]
    <3>1. PICK d : d = done[n]
      OBVIOUS
    <3>2. d = [kind |-> "spans", exec |-> exec, spans |-> q]
      BY <2>3, <3>1 DEF SpansOp
    <3>3. r = [done EXCEPT ![n] = [d EXCEPT !.spans = t]]
      BY <1>4, <2>2, <2>4, <3>1
    <3>4. [d EXCEPT !.spans = t] = SpansOp(exec, t)
      BY <3>2 DEF SpansOp
    <3> QED BY <2>1, <3>3, <3>4
  <2>7. r[n].spans = t /\ r[n] = SpansOp(exec, r[n].spans)
    BY <2>6 DEF SpansOp
  <2>8. IsSeq(r)
    BY PackedIsSeq, <1>2
  <2>9. IsBatches(r, exec)
    BY <2>5, <2>6, <2>7, <2>8 DEF IsBatches
  <2>10. ASSUME NEW x, Carried(x, r) PROVE Carried(x, done) \/ x = span
    <3>1. PICK j \in DOMAIN r : \E i \in DOMAIN r[j].spans : r[j].spans[i] = x
      BY <2>10 DEF Carried
    <3>2. CASE j = n
      BY <2>1, <2>2, <2>5, <2>7, <3>1, <3>2 DEF Carried
    <3>3. CASE j # n
      BY <2>6, <3>1, <3>3 DEF Carried
    <3> QED BY <3>2, <3>3
  <2>11. ASSUME NEW x, Carried(x, done) PROVE Carried(x, r)
    <3>1. PICK j \in DOMAIN done : \E i \in DOMAIN done[j].spans : done[j].spans[i] = x
      BY <2>11 DEF Carried
    <3>2. CASE j = n
      BY <2>1, <2>2, <2>5, <2>6, <2>7, <3>1, <3>2 DEF Carried
    <3>3. CASE j # n
      BY <2>6, <3>1, <3>3 DEF Carried
    <3> QED BY <3>2, <3>3
  <2>12. Carried(span, r)
    BY <2>1, <2>5, <2>6, <2>7 DEF Carried
  <2> QED BY <2>9, <2>10, <2>11, <2>12
<1>5. r = Append(done, SpansOp(exec, <<span>>)) \/
      (done # <<>> /\ r = [done EXCEPT ![n].spans = Append(@, span)])
  BY <1>1 DEF Packed
<1> QED BY <1>3, <1>4, <1>5

\* The batches carry the spans and nothing else: by the first number of spans of
\* which that is not true.
LEMMA BatchesCarry ==
  ASSUME NEW exec, NEW spans, IsSeq(spans), NEW limit,
         NEW ops, ops = Batches(exec, spans, limit)
  PROVE  /\ IsBatches(ops, exec)
         /\ \A x : Carried(x, ops) <=> \E k \in DOMAIN spans : spans[k] = x
<1>1. Len(spans) \in Nat /\ DOMAIN spans = 1 .. Len(spans)
  BY LenIsNat
<1>2. PICK f : Packs(f, Len(spans), exec, spans, limit) /\ ops = f[Len(spans)]
  BY BatchesPack
<1> DEFINE Right(m) == /\ IsBatches(f[m], exec)
                       /\ \A x : Carried(x, f[m]) <=> \E k \in 1 .. m : spans[k] = x
           T == {m \in 0 .. Len(spans) : ~Right(m)}
<1>3. Right(0)
  <2>1. f[0] = <<>> /\ IsSeq(<<>>) /\ DOMAIN <<>> = {}
    BY <1>1, <1>2, ShortIsSeq DEF Packs
  <2> QED BY <2>1 DEF IsBatches, Carried
<1>4. ASSUME NEW m \in 0 .. Len(spans), m # 0, Right(m - 1) PROVE Right(m)
  <2>1. m \in 1 .. Len(spans) /\ m - 1 \in 0 .. Len(spans) /\ m \in Nat
    BY <1>1, <1>4
  <2>2. f[m] = Packed(f[m - 1], exec, spans[m], limit)
    BY <1>2, <2>1 DEF Packs
  <2>3. /\ IsBatches(f[m], exec)
        /\ \A x : Carried(x, f[m]) <=> Carried(x, f[m - 1]) \/ x = spans[m]
    BY <1>4, <2>2, PackedCarries
  <2>4. ASSUME NEW x PROVE Carried(x, f[m]) <=> \E k \in 1 .. m : spans[k] = x
    <3>1. Carried(x, f[m - 1]) <=> \E k \in 1 .. m - 1 : spans[k] = x
      BY <1>4
    <3>2. \A k : k \in 1 .. m <=> k \in 1 .. m - 1 \/ k = m
      BY <2>1
    <3> QED BY <2>3, <3>1, <3>2
  <2> QED BY <2>3, <2>4
<1>5. T = {}
  <2>1. SUFFICES ASSUME T # {} PROVE FALSE
    OBVIOUS
  <2>2. PICK m \in T : \A y \in T : m <= y
    <3>1. T \subseteq Nat
      BY <1>1
    <3> HIDE DEF T
    <3> QED BY <2>1, <3>1, LeastOf
  <2>3. m \in 0 .. Len(spans) /\ ~Right(m)
    BY <2>2
  <2> HIDE DEF Right
  <2>4. m # 0
    BY <1>3, <2>3
  <2>5. m - 1 \in 0 .. Len(spans) /\ m - 1 < m
    BY <1>1, <2>3, <2>4
  <2>6. Right(m - 1)
    BY <2>2, <2>5
  <2> QED BY <1>4, <2>3, <2>4, <2>6
<1>6. Right(Len(spans))
  <2> HIDE DEF Right
  <2> QED BY <1>1, <1>5
<1> QED BY <1>1, <1>2, <1>6

-----------------------------------------------------------------------------
(***************************************************************************)
(* The pending spans of a session state.                                   *)
(***************************************************************************)
\* A key has one entry, and the key of the turn has no tool span.
KeysOK(st) ==
  /\ \A i, j \in DOMAIN st.pending : st.pending[i].key = st.pending[j].key => i = j
  /\ \A i \in DOMAIN st.pending :
       st.pending[i].key = Turn => st.pending[i].span[3] # "tool"

HasPending(st, sid) == \E i \in DOMAIN st.pending : st.pending[i].span = sid

\* Only the pending spans differ.
SameBut(r, st) ==
  r.exec = st.exec /\ r.turn = st.turn /\ r.done = st.done /\ r.closed = st.closed

\* r is q without its element i.
Without(r, q, i) == r = SubSeq(q, 1, i - 1) \o SubSeq(q, i + 1, Len(q))

\* The elements of such a sequence.
LEMMA WithoutElements ==
  ASSUME NEW q, IsSeq(q), NEW i \in DOMAIN q, NEW r, Without(r, q, i)
  PROVE  /\ IsSeq(r)
         /\ \A k \in DOMAIN r : \E m \in DOMAIN q :
              m # i /\ r[k] = q[m] /\ m = (IF k < i THEN k ELSE k + 1)
         /\ DOMAIN r \subseteq Nat
         /\ \A m \in DOMAIN q : m # i => \E k \in DOMAIN r : r[k] = q[m]
<1>1. PICK S : q \in Seq(S) BY IsSeqOf
<1>2. PICK n \in Nat : n = Len(q) /\ DOMAIN q = 1 .. n
  BY LenIsNat
<1>3. PICK a : a = SubSeq(q, 1, i - 1)
  OBVIOUS
<1>4. PICK b : b = SubSeq(q, i + 1, n)
  OBVIOUS
<1>5. i \in Nat /\ 1 <= i /\ i <= n /\ i - 1 \in Nat /\ n - i \in Nat
  BY <1>2
<1>6. a \in Seq(S) /\ Len(a) = i - 1 /\ \A k \in 1 .. i - 1 : a[k] = q[k]
  BY <1>1, <1>2, <1>3, <1>5
<1>7. b \in Seq(S) /\ Len(b) = n - i /\ \A k \in 1 .. n - i : b[k] = q[i + k]
  BY <1>1, <1>2, <1>4, <1>5
<1>8. IsSeq(a) /\ IsSeq(b) /\ Joined(r, a, b)
  BY <1>2, <1>3, <1>4, <1>6, <1>7, SeqIsSeq DEF Joined, Without
<1>9. /\ IsSeq(r) /\ Len(r) = Len(a) + Len(b)
      /\ DOMAIN a = 1 .. Len(a) /\ DOMAIN b = 1 .. Len(b) /\ DOMAIN r = 1 .. Len(r)
      /\ \A k \in DOMAIN a : k \in DOMAIN r /\ r[k] = a[k]
      /\ \A k \in DOMAIN b : Len(a) + k \in DOMAIN r /\ r[Len(a) + k] = b[k]
      /\ \A k \in DOMAIN r : \/ k \in DOMAIN a
                             \/ \E m \in DOMAIN b : k = Len(a) + m /\ r[k] = b[m]
  BY <1>8, CatElements
<1>10. ASSUME NEW k \in DOMAIN r
       PROVE  \E m \in DOMAIN q :
                m # i /\ r[k] = q[m] /\ m = (IF k < i THEN k ELSE k + 1)
  <2>1. CASE k \in DOMAIN a
    <3>1. k \in 1 .. i - 1
      BY <1>6, <1>9, <2>1
    <3>2. k \in 1 .. n /\ k # i /\ k < i
      BY <1>5, <3>1
    <3> QED BY <1>2, <1>6, <1>9, <2>1, <3>1, <3>2
  <2>2. CASE \E m \in DOMAIN b : k = Len(a) + m /\ r[k] = b[m]
    <3>1. PICK m \in DOMAIN b : k = Len(a) + m /\ r[k] = b[m]
      BY <2>2
    <3>2. m \in 1 .. n - i /\ b[m] = q[i + m]
      BY <1>7, <1>9, <3>1
    <3>3. k = (i - 1) + m
      BY <1>6, <3>1
    <3>4. k + 1 = i + m /\ k + 1 \in 1 .. n /\ k + 1 # i /\ ~(k < i)
      BY <1>5, <3>2, <3>3
    <3> QED BY <1>2, <3>1, <3>2, <3>4
  <2> QED BY <1>9, <2>1, <2>2
<1>11. ASSUME NEW m \in DOMAIN q, m # i PROVE \E k \in DOMAIN r : r[k] = q[m]
  <2>1. CASE m < i
    <3>1. m \in 1 .. i - 1
      BY <1>2, <1>5, <2>1
    <3> QED BY <1>6, <1>9, <3>1
  <2>2. CASE ~(m < i)
    <3>1. m - i \in 1 .. n - i /\ i + (m - i) = m
      BY <1>2, <1>5, <1>11, <2>2
    <3>2. m - i \in DOMAIN b /\ b[m - i] = q[m]
      BY <1>7, <1>9, <3>1
    <3> QED BY <1>9, <3>2
  <2> QED BY <2>1, <2>2
<1>12. DOMAIN r \subseteq Nat
  BY <1>5, <1>6, <1>7, <1>9
<1> QED BY <1>9, <1>10, <1>11, <1>12

\* Deleting a key deletes its entry and no other.
LEMMA DropElements ==
  ASSUME NEW st, IsState(st), KeysOK(st), NEW key, NEW d, d = Drop(st, key)
  PROVE  /\ IsState(d) /\ KeysOK(d) /\ SameBut(d, st)
         /\ \A i \in DOMAIN d.pending : d.pending[i].key # key
         /\ \A m \in DOMAIN st.pending : st.pending[m].key # key =>
              \E i \in DOMAIN d.pending : d.pending[i] = st.pending[m]
<1>0. IsState(d)
  BY DropIsState
<1>1. IsSeq(st.pending)
  BY FieldsKeepState
<1>2. PICK at : at = {j \in DOMAIN st.pending : st.pending[j].key = key}
  OBVIOUS
<1>3. CASE at = {}
  <2>1. d = st
    BY <1>2, <1>3 DEF Drop
  <2> QED BY <1>0, <1>2, <1>3, <2>1 DEF SameBut
<1>4. CASE at # {}
  <2>1. PICK i : i = CHOOSE j \in at : TRUE
    OBVIOUS
  <2>2. i \in at
    BY <1>4, <2>1
  <2>3. i \in DOMAIN st.pending /\ st.pending[i].key = key
    BY <1>2, <2>2
  <2>4. PICK q : q = st.pending
    OBVIOUS
  <2>5. PICK x : Without(x, q, i)
    BY DEF Without
  <2>6. d = [st EXCEPT !.pending = x]
    BY <1>2, <1>4, <2>1, <2>4, <2>5 DEF Drop, Without
  <2>7. d.pending = x /\ SameBut(d, st)
    BY <2>6 DEF IsState, SameBut
  <2>8. /\ \A k \in DOMAIN x : \E m \in DOMAIN q :
              m # i /\ x[k] = q[m] /\ m = (IF k < i THEN k ELSE k + 1)
        /\ DOMAIN x \subseteq Nat
        /\ \A m \in DOMAIN q : m # i => \E k \in DOMAIN x : x[k] = q[m]
    BY <1>1, <2>3, <2>4, <2>5, WithoutElements
  <2>9. \A m, l \in DOMAIN q : q[m].key = q[l].key => m = l
    BY <2>4 DEF KeysOK
  <2>10. \A k \in DOMAIN x : x[k].key # key
    BY <2>3, <2>4, <2>8, <2>9
  <2>11. \A m \in DOMAIN q : q[m].key # key => \E k \in DOMAIN x : x[k] = q[m]
    BY <2>3, <2>4, <2>8
  <2>12. ASSUME NEW k \in DOMAIN x, NEW l \in DOMAIN x, x[k].key = x[l].key PROVE k = l
    <3>1. PICK mk \in DOMAIN q : x[k] = q[mk] /\ mk = (IF k < i THEN k ELSE k + 1)
      BY <2>8
    <3>2. PICK ml \in DOMAIN q : x[l] = q[ml] /\ ml = (IF l < i THEN l ELSE l + 1)
      BY <2>8
    <3>3. mk = ml
      BY <2>9, <2>12, <3>1, <3>2
    <3>4. k \in Nat /\ l \in Nat /\ i \in Nat
      BY <1>1, <2>3, <2>8, LenIsNat
    <3> QED BY <3>1, <3>2, <3>3, <3>4
  <2>13. \A k \in DOMAIN x : x[k].key = Turn => x[k].span[3] # "tool"
    BY <2>4, <2>8 DEF KeysOK
  <2>14. KeysOK(d)
    BY <2>7, <2>12, <2>13 DEF KeysOK
  <2> QED BY <1>0, <2>4, <2>7, <2>10, <2>11, <2>14
<1> QED BY <1>3, <1>4

\* Recording a start replaces the entry of its key.
LEMMA PutElements ==
  ASSUME NEW st, IsState(st), KeysOK(st), NEW p, p.key = Turn => p.span[3] # "tool",
         NEW r, r = Put(st, p)
  PROVE  /\ IsState(r) /\ KeysOK(r) /\ SameBut(r, st)
         /\ \E i \in DOMAIN r.pending : r.pending[i] = p
         /\ \A m \in DOMAIN st.pending : st.pending[m].key # p.key =>
              \E i \in DOMAIN r.pending : r.pending[i] = st.pending[m]
<1>0. IsState(r)
  BY PutIsState
<1>1. PICK d : d = Drop(st, p.key)
  OBVIOUS
<1>2. /\ IsState(d) /\ KeysOK(d) /\ SameBut(d, st)
      /\ \A i \in DOMAIN d.pending : d.pending[i].key # p.key
      /\ \A m \in DOMAIN st.pending : st.pending[m].key # p.key =>
           \E i \in DOMAIN d.pending : d.pending[i] = st.pending[m]
  BY <1>1, DropElements
<1>3. PICK q : q = d.pending
  OBVIOUS
<1>4. IsSeq(q)
  BY <1>2, <1>3, FieldsKeepState
<1>5. PICK x : Longer(x, q, p)
  BY DEF Longer
<1>6. r = [st EXCEPT !.pending = x]
  BY <1>1, <1>3, <1>5 DEF Put, Longer
<1>7. r.pending = x /\ SameBut(r, st)
  BY <1>6 DEF IsState, SameBut
<1>8. /\ IsSeq(x) /\ DOMAIN q \subseteq DOMAIN x
      /\ \A i \in DOMAIN q : x[i] = q[i]
      /\ \A i \in DOMAIN x : i \in DOMAIN q \/ x[i] = p
      /\ \E i \in DOMAIN x : x[i] = p
  BY <1>4, <1>5, AppendElements
<1>9. \A i \in DOMAIN x : i \notin DOMAIN q => i = Len(q) + 1
  <2>1. PICK S : q \in Seq(S)
    BY <1>4, IsSeqOf
  <2>2. PICK T : T = S \cup {p}
    OBVIOUS
  <2>3. q \in Seq(T) /\ p \in T
    BY <2>1, <2>2
  <2>4. DOMAIN x = 1 .. Len(q) + 1 /\ DOMAIN q = 1 .. Len(q) /\ Len(q) \in Nat
    BY <1>5, <2>3 DEF Longer
  <2> QED BY <2>4
<1>10. ASSUME NEW i \in DOMAIN x, NEW j \in DOMAIN x, x[i].key = x[j].key PROVE i = j
  <2>1. CASE i \in DOMAIN q /\ j \in DOMAIN q
    BY <1>2, <1>3, <1>8, <1>10, <2>1 DEF KeysOK
  <2>2. CASE i \in DOMAIN q /\ j \notin DOMAIN q
    BY <1>2, <1>3, <1>8, <1>10, <2>2
  <2>3. CASE i \notin DOMAIN q /\ j \in DOMAIN q
    BY <1>2, <1>3, <1>8, <1>10, <2>3
  <2>4. CASE i \notin DOMAIN q /\ j \notin DOMAIN q
    BY <1>9, <2>4
  <2> QED BY <2>1, <2>2, <2>3, <2>4
<1>11. \A i \in DOMAIN x : x[i].key = Turn => x[i].span[3] # "tool"
  BY <1>2, <1>3, <1>8 DEF KeysOK
<1>12. KeysOK(r)
  BY <1>7, <1>10, <1>11 DEF KeysOK
<1>13. \A m \in DOMAIN st.pending : st.pending[m].key # p.key =>
           \E i \in DOMAIN x : x[i] = st.pending[m]
  BY <1>2, <1>3, <1>8
<1> QED BY <1>0, <1>7, <1>8, <1>12, <1>13

\* The entry of a key.
LEMMA EntryIs ==
  ASSUME NEW st, KeysOK(st), NEW key
  PROVE  /\ Pending(st, key) = {} => \A i \in DOMAIN st.pending : st.pending[i].key # key
         /\ Pending(st, key) # {} =>
              \A i \in DOMAIN st.pending :
                st.pending[i].key = key => st.pending[i] = Entry(st, key)
         /\ (\E i \in DOMAIN st.pending : st.pending[i].key = key) => Pending(st, key) # {}
<1>1. \A p : p \in Pending(st, key) <=>
              \E i \in DOMAIN st.pending : st.pending[i].key = key /\ p = st.pending[i]
  BY DEF Pending
<1>2. ASSUME Pending(st, key) # {} PROVE Entry(st, key) \in Pending(st, key)
  BY <1>2 DEF Entry
<1> QED BY <1>1, <1>2 DEF KeysOK

\* ensureExecution: an execution of its own for a session without one.
LEMMA EnsureElements ==
  ASSUME NEW st, IsState(st), KeysOK(st), NEW h, NEW n,
         NEW r, r = EnsureExecution(h, n, st)
  PROVE  /\ IsState(r) /\ KeysOK(r) /\ ~r.closed
         /\ r.exec = IF st.closed \/ st.exec = None THEN <<h.id, 0>> ELSE st.exec
         /\ ~st.closed => r.pending = st.pending
<1>1. PICK exec, turn, pending, done, closed :
        /\ st = [exec |-> exec, turn |-> turn, pending |-> pending, done |-> done,
                 closed |-> closed]
        /\ IsSeq(pending)
  BY DEF IsState
<1>2. IsState(r)
  BY EnsureIsState
<1>3. CASE st.closed
  <2>1. r = [NoState EXCEPT !.exec = <<h.id, 0>>]
    BY <1>3 DEF EnsureExecution, Reset, NoState, ExecutionKey
  <2>2. r.pending = <<>> /\ r.closed = FALSE /\ r.exec = <<h.id, 0>>
    BY <2>1 DEF NoState
  <2>3. KeysOK(r)
    BY <2>2 DEF KeysOK
  <2> QED BY <1>2, <1>3, <2>2, <2>3
<1>4. CASE ~st.closed /\ st.exec = None
  <2>1. r = [st EXCEPT !.exec = <<h.id, 0>>]
    BY <1>4 DEF EnsureExecution, Reset, ExecutionKey
  <2>2. r.pending = st.pending /\ r.closed = st.closed /\ r.exec = <<h.id, 0>>
    BY <1>1, <2>1
  <2>3. KeysOK(r)
    BY <2>2 DEF KeysOK
  <2> QED BY <1>2, <1>4, <2>2, <2>3
<1>5. CASE ~st.closed /\ st.exec # None
  <2>1. r = st
    BY <1>5 DEF EnsureExecution, Reset
  <2> QED BY <1>2, <1>5, <2>1
<1> QED BY <1>3, <1>4, <1>5

-----------------------------------------------------------------------------
(***************************************************************************)
(* What a handler does to the execution and the open spans of its session. *)
(***************************************************************************)
\* The hook makes its handler start an execution.
Opens(h, st) ==
  /\ st.closed \/ st.exec = None
  /\ h.ev \notin {"notify", "session-end"}
  /\ h.ev = "pre-tool" => ~KnownTool(h, st)
  /\ h.ev \in {"post-tool", "post-tool-failure"} => h.tool \notin st.done \ Unkeyed

\* The operation completes a span.
Closes(op, sid) ==
  /\ op.kind = "spans"
  /\ \E i \in DOMAIN op.spans : op.spans[i].id = sid /\ op.spans[i].status # "RUNNING"

\* Spans of tools are opened for as long as they are pending; the execution is
\* ended last, and all that is pending is closed before.
OpsOK(st, ops) ==
  \A j \in DOMAIN ops :
    /\ ops[j].kind \in {"spans", "end_execution", "audit"}
    /\ ops[j].kind = "end_execution" =>
         /\ ops[j].exec = st.exec /\ st.closed /\ st.exec # None
         /\ \A i \in DOMAIN st.pending :
              \E k \in 1 .. j - 1 : Closes(ops[k], st.pending[i].span)
         /\ \A k \in DOMAIN ops : ops[k].kind = "spans" => k < j
    /\ ops[j].kind = "spans" =>
         /\ IsSeq(ops[j].spans)
         /\ \A i \in DOMAIN ops[j].spans : ops[j].spans[i].status = "RUNNING" =>
              \/ /\ ops[j].exec = st.exec /\ ~st.closed
                 /\ HasPending(st, ops[j].spans[i].id)
              \/ ops[j].spans[i].id[3] # "tool"

\* State and operations r of hook h, prepared in state st: a new execution is
\* open, a closed one has been or will be ended, and a tool that was pending
\* still is or will be closed.
Mapped(h, st, r) ==
  /\ KeysOK(r.state) /\ OpsOK(r.state, r.ops)
  /\ r.state.exec = IF Opens(h, st) THEN <<h.id, 0>> ELSE st.exec
  /\ Opens(h, st) => ~r.state.closed
  /\ ~Opens(h, st) /\ st.closed => r.state.closed
  /\ r.state.closed /\ r.state.exec # None =>
       \/ \E j \in DOMAIN r.ops : r.ops[j].kind = "end_execution"
       \/ st.closed /\ ~Opens(h, st)
  /\ ~st.closed =>
       \A i \in DOMAIN st.pending : st.pending[i].key # Turn =>
         \/ HasPending(r.state, st.pending[i].span)
         \/ \E j \in DOMAIN r.ops : Closes(r.ops[j], st.pending[i].span)

\* Audit events, and batches under exec that carry the spans of S.
Only(ops, exec, S) ==
  /\ IsSeq(ops)
  /\ \A j \in DOMAIN ops :
       \/ ops[j].kind = "audit"
       \/ /\ ops[j].kind = "spans" /\ ops[j].exec = exec /\ IsSeq(ops[j].spans)
          /\ \A i \in DOMAIN ops[j].spans : ops[j].spans[i] \in S
  /\ \A x \in S : \E j \in DOMAIN ops :
       ops[j].kind = "spans" /\ \E i \in DOMAIN ops[j].spans : ops[j].spans[i] = x

\* Batches are such operations.
LEMMA OnlyBatches ==
  ASSUME NEW exec, NEW spans, IsSeq(spans), NEW limit, NEW S,
         \A x : x \in S <=> \E k \in DOMAIN spans : spans[k] = x
  PROVE  Only(Batches(exec, spans, limit), exec, S)
<1>1. PICK ops : ops = Batches(exec, spans, limit)
  OBVIOUS
<1>2. /\ IsBatches(ops, exec)
      /\ \A x : Carried(x, ops) <=> \E k \in DOMAIN spans : spans[k] = x
  BY <1>1, BatchesCarry
<1>3. IsSeq(ops) /\ \A x : Carried(x, ops) <=> x \in S
  BY <1>2 DEF IsBatches
<1>4. ASSUME NEW j \in DOMAIN ops
      PROVE  /\ ops[j].kind = "spans" /\ ops[j].exec = exec /\ IsSeq(ops[j].spans)
             /\ \A i \in DOMAIN ops[j].spans : ops[j].spans[i] \in S
  <2>1. ops[j].kind = "spans" /\ ops[j].exec = exec /\ IsSeq(ops[j].spans)
    BY <1>2, <1>4 DEF IsBatches, SpansOp
  <2>2. ASSUME NEW i \in DOMAIN ops[j].spans PROVE ops[j].spans[i] \in S
    <3>1. Carried(ops[j].spans[i], ops)
      BY DEF Carried
    <3> QED BY <1>3, <3>1
  <2> QED BY <2>1, <2>2
<1>5. ASSUME NEW x \in S
      PROVE  \E j \in DOMAIN ops :
               ops[j].kind = "spans" /\ \E i \in DOMAIN ops[j].spans : ops[j].spans[i] = x
  BY <1>3, <1>4 DEF Carried
<1> QED BY <1>1, <1>3, <1>4, <1>5 DEF Only

\* A single batch of one span, and the batches of none.
LEMMA OnlyShort ==
  ASSUME NEW exec, NEW limit
  PROVE  /\ Only(Batches(exec, <<>>, limit), exec, {})
         /\ \A x : Only(Batches(exec, <<x>>, limit), exec, {x})
         /\ Only(<<>>, exec, {})
         /\ \A h, n : Only(<<AuditOp(h, n)>>, exec, {})
<1>1. Only(Batches(exec, <<>>, limit), exec, {})
  <2>1. DOMAIN <<>> = {}
    OBVIOUS
  <2> QED BY <2>1, ShortIsSeq, OnlyBatches
<1>2. ASSUME NEW x PROVE Only(Batches(exec, <<x>>, limit), exec, {x})
  <2>1. DOMAIN <<x>> = {1} /\ <<x>>[1] = x
    OBVIOUS
  <2>2. PICK s : s = <<x>>
    OBVIOUS
  <2>3. IsSeq(s) /\ DOMAIN s = {1} /\ s[1] = x
    BY <2>1, <2>2, ShortIsSeq
  <2>4. \A y : y \in {x} <=> \E k \in DOMAIN s : s[k] = y
    BY <2>3
  <2>5. Only(Batches(exec, s, limit), exec, {x})
    BY <2>3, <2>4, OnlyBatches
  <2> QED BY <2>2, <2>5
<1>3. Only(<<>>, exec, {})
  BY ShortIsSeq DEF Only
<1>4. ASSUME NEW h, NEW n PROVE Only(<<AuditOp(h, n)>>, exec, {})
  <2>1. PICK a : a = AuditOp(h, n)
    OBVIOUS
  <2>2. a.kind = "audit"
    BY <2>1 DEF AuditOp
  <2>3. PICK s : s = <<a>>
    OBVIOUS
  <2>4. IsSeq(s) /\ DOMAIN s = {1} /\ s[1] = a
    BY <2>3, ShortIsSeq
  <2> QED BY <2>1, <2>2, <2>3, <2>4 DEF Only
<1> QED BY <1>1, <1>2, <1>3, <1>4

\* Two lists of operations in one.
LEMMA OnlyCat ==
  ASSUME NEW exec, NEW A, NEW B, NEW a, Only(a, exec, A), NEW b, Only(b, exec, B)
  PROVE  Only(a \o b, exec, A \cup B)
<1>1. PICK r : r = a \o b
  OBVIOUS
<1>2. IsSeq(a) /\ IsSeq(b) /\ Joined(r, a, b)
  BY <1>1 DEF Joined, Only
<1>3. /\ IsSeq(r)
      /\ \A i \in DOMAIN a : i \in DOMAIN r /\ r[i] = a[i]
      /\ \A i \in DOMAIN b : Len(a) + i \in DOMAIN r /\ r[Len(a) + i] = b[i]
      /\ \A i \in DOMAIN r : \/ i \in DOMAIN a
                             \/ \E k \in DOMAIN b : i = Len(a) + k /\ r[i] = b[k]
  BY <1>2, CatElements
<1>4. \A j \in DOMAIN r : (\E k \in DOMAIN a : r[j] = a[k]) \/ (\E k \in DOMAIN b : r[j] = b[k])
  BY <1>3
<1>5. /\ \A k \in DOMAIN a : \E j \in DOMAIN r : r[j] = a[k]
      /\ \A k \in DOMAIN b : \E j \in DOMAIN r : r[j] = b[k]
  BY <1>3
<1>6. ASSUME NEW j \in DOMAIN r
      PROVE  \/ r[j].kind = "audit"
             \/ /\ r[j].kind = "spans" /\ r[j].exec = exec /\ IsSeq(r[j].spans)
                /\ \A i \in DOMAIN r[j].spans : r[j].spans[i] \in A \cup B
  <2>1. CASE \E k \in DOMAIN a : r[j] = a[k]
    BY <2>1 DEF Only
  <2>2. CASE \E k \in DOMAIN b : r[j] = b[k]
    BY <2>2 DEF Only
  <2> QED BY <1>4, <2>1, <2>2
<1>7. ASSUME NEW x \in A \cup B
      PROVE  \E j \in DOMAIN r :
               r[j].kind = "spans" /\ \E i \in DOMAIN r[j].spans : r[j].spans[i] = x
  <2>1. CASE x \in A
    <3>1. PICK k \in DOMAIN a :
            a[k].kind = "spans" /\ \E i \in DOMAIN a[k].spans : a[k].spans[i] = x
      BY <2>1 DEF Only
    <3> QED BY <1>5, <3>1
  <2>2. CASE x \in B
    <3>1. PICK k \in DOMAIN b :
            b[k].kind = "spans" /\ \E i \in DOMAIN b[k].spans : b[k].spans[i] = x
      BY <2>2 DEF Only
    <3> QED BY <1>5, <3>1
  <2> QED BY <2>1, <2>2
<1> QED BY <1>1, <1>3, <1>6, <1>7 DEF Only

\* Such operations close what they carry as closed.
LEMMA OnlyCloses ==
  ASSUME NEW exec, NEW S, NEW ops, Only(ops, exec, S), NEW x \in S, x.status # "RUNNING"
  PROVE  \E j \in DOMAIN ops : Closes(ops[j], x.id)
BY DEF Only, Closes

\* Such operations open what is pending, or no tool.
LEMMA OnlyOpsOK ==
  ASSUME NEW st, NEW S, NEW ops, Only(ops, st.exec, S),
         \A x \in S : x.status = "RUNNING" =>
           (~st.closed /\ HasPending(st, x.id)) \/ x.id[3] # "tool"
  PROVE  OpsOK(st, ops)
BY DEF Only, OpsOK

\* A handler that calls ensureExecution and leaves the session open.
LEMMA EnsureMapped ==
  ASSUME NEW h, NEW st, NEW state, NEW S, NEW ops,
         Only(ops, state.exec, S),
         \A x \in S : x.status = "RUNNING" => HasPending(state, x.id) \/ x.id[3] # "tool",
         KeysOK(state), ~state.closed,
         state.exec = IF st.closed \/ st.exec = None THEN <<h.id, 0>> ELSE st.exec,
         Opens(h, st) <=> st.closed \/ st.exec = None,
         \A i \in DOMAIN st.pending : ~st.closed /\ st.pending[i].key # Turn =>
           \/ HasPending(state, st.pending[i].span)
           \/ \E x \in S : x.status # "RUNNING" /\ x.id = st.pending[i].span
  PROVE  Mapped(h, st, Result(state, ops))
<1>1. OpsOK(state, ops)
  BY OnlyOpsOK
<1>2. ASSUME NEW i \in DOMAIN st.pending, ~st.closed, st.pending[i].key # Turn
      PROVE  \/ HasPending(state, st.pending[i].span)
             \/ \E j \in DOMAIN ops : Closes(ops[j], st.pending[i].span)
  BY <1>2, OnlyCloses
<1>3. PICK r : r = Result(state, ops)
  OBVIOUS
<1>4. r.state = state /\ r.ops = ops
  BY <1>3 DEF Result
<1>5. state.exec = IF Opens(h, st) THEN <<h.id, 0>> ELSE st.exec
  OBVIOUS
<1>6. ~Opens(h, st) /\ st.closed => FALSE
  OBVIOUS
<1>7. Mapped(h, st, r)
  BY <1>1, <1>2, <1>4, <1>5, <1>6 DEF Mapped
<1> QED BY <1>3, <1>7

\* A handler that leaves the session as it is.
LEMMA SameMapped ==
  ASSUME NEW h, NEW st, KeysOK(st), NEW ops, Only(ops, st.exec, {}), ~Opens(h, st)
  PROVE  Mapped(h, st, Result(st, ops))
<1>1. OpsOK(st, ops)
  BY OnlyOpsOK
<1>2. PICK r : r = Result(st, ops)
  OBVIOUS
<1>3. r.state = st /\ r.ops = ops
  BY <1>2 DEF Result
<1>4. \A i \in DOMAIN st.pending : HasPending(st, st.pending[i].span)
  BY DEF HasPending
<1>5. Mapped(h, st, r)
  BY <1>1, <1>3, <1>4 DEF Mapped
<1> QED BY <1>2, <1>5

\* The model span of a hook is closed.
LEMMA ModelSpanClosed ==
  ASSUME NEW h, NEW n, NEW parent, NEW limit, NEW exec
  PROVE  \E S : /\ Only(Batches(exec, ModelSpan(h, n, parent), limit), exec, S)
                /\ \A x \in S : x.status # "RUNNING"
<1>1. PICK s : s = ModelSpan(h, n, parent)
  OBVIOUS
<1>2. IsSeq(s)
  BY <1>1, ModelSpanIsSeq
<1>3. \A k \in DOMAIN s : s[k].status # "RUNNING"
  BY <1>1 DEF ModelSpan, Span
<1>4. PICK S : S = {s[k] : k \in DOMAIN s}
  OBVIOUS
<1>5. \A x : x \in S <=> \E k \in DOMAIN s : s[k] = x
  BY <1>4
<1>6. Only(Batches(exec, s, limit), exec, S)
  BY <1>2, <1>5, OnlyBatches
<1> QED BY <1>1, <1>3, <1>5, <1>6

\* handleSessionStart, and the hooks that only record a point.
LEMMA PointsMapped ==
  ASSUME NEW h, NEW n, NEW st, IsState(st), KeysOK(st), NEW limit,
         h.ev \in {"session-start", "permission", "subagent-stop"}
  PROVE  /\ Mapped(h, st, HandleSessionStart(h, n, st, limit))
         /\ Mapped(h, st, Point(h, n, st, limit))
<1>1. PICK r : r = EnsureExecution(h, n, st)
  OBVIOUS
<1>2. /\ IsState(r) /\ KeysOK(r) /\ ~r.closed
      /\ r.exec = IF st.closed \/ st.exec = None THEN <<h.id, 0>> ELSE st.exec
      /\ ~st.closed => r.pending = st.pending
  BY <1>1, EnsureElements
<1>3. \A i \in DOMAIN st.pending : ~st.closed => HasPending(r, st.pending[i].span)
  BY <1>2 DEF HasPending
<1>4. Opens(h, st) <=> st.closed \/ st.exec = None
  BY DEF Opens
<1>5. Mapped(h, st, HandleSessionStart(h, n, st, limit))
  <2>1. Only(<<AuditOp(h, n)>>, r.exec, {})
    BY OnlyShort
  <2>2. Mapped(h, st, Result(r, <<AuditOp(h, n)>>))
    BY <1>2, <1>3, <1>4, <2>1, EnsureMapped
  <2> QED BY <1>1, <2>2 DEF HandleSessionStart
<1>6. Mapped(h, st, Point(h, n, st, limit))
  <2>1. PICK x : x = Span(NewSpanID(h, n, "point"), "COMPLETED", r.turn, h.size)
    OBVIOUS
  <2>2. PICK a : a = Batches(r.exec, <<x>>, limit)
    OBVIOUS
  <2>3. PICK b : b = <<AuditOp(h, n)>>
    OBVIOUS
  <2>4. Only(a, r.exec, {x}) /\ Only(b, r.exec, {})
    BY <2>2, <2>3, OnlyShort
  <2>5. Only(a \o b, r.exec, {x})
    <3>1. Only(a \o b, r.exec, {x} \cup {})
      BY <2>4, OnlyCat
    <3>2. {x} \cup {} = {x}
      OBVIOUS
    <3> QED BY <3>1, <3>2
  <2>6. x.status = "COMPLETED"
    BY <2>1 DEF Span
  <2>7. PICK ops : ops = a \o b
    OBVIOUS
  <2>8. Mapped(h, st, Result(r, ops))
    BY <1>2, <1>3, <1>4, <2>5, <2>6, <2>7, EnsureMapped
  <2> QED BY <1>1, <2>1, <2>2, <2>3, <2>7, <2>8 DEF Point
<1> QED BY <1>5, <1>6

\* handleUserPrompt: the turn it replaces is no tool.
LEMMA PromptMapped ==
  ASSUME NEW h, NEW n, NEW st, IsState(st), KeysOK(st), NEW limit, h.ev = "prompt"
  PROVE  Mapped(h, st, HandleUserPrompt(h, n, st, limit))
<1>1. PICK r : r = EnsureExecution(h, n, st)
  OBVIOUS
<1>2. /\ IsState(r) /\ KeysOK(r) /\ ~r.closed
      /\ r.exec = IF st.closed \/ st.exec = None THEN <<h.id, 0>> ELSE st.exec
      /\ ~st.closed => r.pending = st.pending
  BY <1>1, EnsureElements
<1>3. PICK turn : turn = NewSpanID(h, n, "turn")
  OBVIOUS
<1>4. turn[3] # "tool"
  BY <1>3 DEF NewSpanID
<1>5. PICK t : t = [r EXCEPT !.turn = turn]
  OBVIOUS
<1>6. t.pending = r.pending /\ t.exec = r.exec /\ t.closed = r.closed
  BY <1>2, <1>5 DEF IsState
<1>7. IsState(t) /\ KeysOK(t)
  <2>1. IsState(t)
    BY <1>2, <1>5, FieldsKeepState
  <2>2. KeysOK(t)
    BY <1>2, <1>6 DEF KeysOK
  <2> QED BY <2>1, <2>2
<1>8. PICK p : p = Start(Turn, turn, None)
  OBVIOUS
<1>9. p.key = Turn /\ p.span = turn
  BY <1>8 DEF Start
<1>10. PICK state : state = Put(t, p)
  OBVIOUS
<1>11. /\ KeysOK(state) /\ SameBut(state, t)
       /\ \A m \in DOMAIN t.pending : t.pending[m].key # Turn =>
            \E i \in DOMAIN state.pending : state.pending[i] = t.pending[m]
  <2>1. p.key = Turn => p.span[3] # "tool"
    BY <1>4, <1>9
  <2>2. /\ KeysOK(state) /\ SameBut(state, t)
        /\ \A m \in DOMAIN t.pending : t.pending[m].key # p.key =>
             \E i \in DOMAIN state.pending : state.pending[i] = t.pending[m]
    BY <1>7, <1>10, <2>1, PutElements
  <2> QED BY <1>9, <2>2
<1>12. state.exec = r.exec /\ state.closed = r.closed
  BY <1>6, <1>11 DEF SameBut
<1>13. \A i \in DOMAIN st.pending : ~st.closed /\ st.pending[i].key # Turn =>
         HasPending(state, st.pending[i].span)
  BY <1>2, <1>6, <1>11 DEF HasPending
<1>14. Opens(h, st) <=> st.closed \/ st.exec = None
  BY DEF Opens
<1>15. PICK x : x = Span(turn, "RUNNING", None, h.size)
  OBVIOUS
<1>16. PICK a : a = Batches(r.exec, <<x>>, limit)
  OBVIOUS
<1>17. PICK b : b = <<AuditOp(h, n)>>
  OBVIOUS
<1>18. Only(a, r.exec, {x}) /\ Only(b, r.exec, {})
  BY <1>16, <1>17, OnlyShort
<1>19. Only(a \o b, r.exec, {x})
  <2>1. Only(a \o b, r.exec, {x} \cup {})
    BY <1>18, OnlyCat
  <2>2. {x} \cup {} = {x}
    OBVIOUS
  <2> QED BY <2>1, <2>2
<1>20. x.id = turn
  BY <1>15 DEF Span
<1>21. PICK ops : ops = a \o b
  OBVIOUS
<1>22. Mapped(h, st, Result(state, ops))
  <2>1. Only(ops, state.exec, {x})
    BY <1>12, <1>19, <1>21
  <2>2. \A y \in {x} : y.status = "RUNNING" => HasPending(state, y.id) \/ y.id[3] # "tool"
    BY <1>4, <1>20
  <2>3. ~state.closed
    BY <1>2, <1>12
  <2>4. state.exec = IF st.closed \/ st.exec = None THEN <<h.id, 0>> ELSE st.exec
    BY <1>2, <1>12
  <2> QED BY <1>11, <1>13, <1>14, <2>1, <2>2, <2>3, <2>4, EnsureMapped
<1>23. HandleUserPrompt(h, n, st, limit) = Result(state, ops)
  BY <1>1, <1>3, <1>5, <1>8, <1>10, <1>15, <1>16, <1>17, <1>21 DEF HandleUserPrompt
<1> QED BY <1>22, <1>23

\* handlePreTool: no other start is replaced.
LEMMA PreToolMapped ==
  ASSUME NEW h, NEW n, NEW st, IsState(st), KeysOK(st), NEW limit,
         h.ev = "pre-tool", h.tool # Turn
  PROVE  Mapped(h, st, HandlePreTool(h, n, st, limit))
<1>1. CASE KnownTool(h, st)
  <2>1. ~Opens(h, st)
    BY <1>1 DEF Opens
  <2>2. Mapped(h, st, Result(st, <<>>))
    BY <2>1, OnlyShort, SameMapped
  <2> QED BY <1>1, <2>2 DEF HandlePreTool
<1>2. CASE ~KnownTool(h, st)
  <2>1. \A i \in DOMAIN st.pending : st.pending[i].key # h.tool
    BY <1>2, EntryIs DEF KnownTool
  <2>2. PICK s : s = Start(h.tool, NewSpanID(h, n, "tool"), st.turn)
    OBVIOUS
  <2>3. s.key = h.tool
    BY <2>2 DEF Start
  <2>4. PICK t : t = Put(st, s)
    OBVIOUS
  <2>5. /\ IsState(t) /\ KeysOK(t) /\ SameBut(t, st)
        /\ \E i \in DOMAIN t.pending : t.pending[i] = s
        /\ \A m \in DOMAIN st.pending : st.pending[m].key # h.tool =>
             \E i \in DOMAIN t.pending : t.pending[i] = st.pending[m]
    BY <2>3, <2>4, PutElements
  <2>6. PICK r : r = EnsureExecution(h, n, t)
    OBVIOUS
  <2>7. /\ IsState(r) /\ KeysOK(r) /\ ~r.closed
        /\ r.exec = IF t.closed \/ t.exec = None THEN <<h.id, 0>> ELSE t.exec
        /\ ~t.closed => r.pending = t.pending
    BY <2>5, <2>6, EnsureElements
  <2>8. PICK back : back = IF Pending(r, h.tool) # {} THEN s ELSE Start(h.tool, NoSpan, None)
    OBVIOUS
  <2>9. back.key = h.tool
    BY <2>3, <2>8 DEF Start
  <2>10. PICK state : state = Put(r, back)
    OBVIOUS
  <2>11. /\ KeysOK(state) /\ SameBut(state, r)
         /\ \E i \in DOMAIN state.pending : state.pending[i] = back
         /\ \A m \in DOMAIN r.pending : r.pending[m].key # h.tool =>
              \E i \in DOMAIN state.pending : state.pending[i] = r.pending[m]
    BY <2>7, <2>9, <2>10, PutElements
  <2>12. /\ state.exec = IF st.closed \/ st.exec = None THEN <<h.id, 0>> ELSE st.exec
         /\ state.exec = r.exec
    BY <2>5, <2>7, <2>11 DEF SameBut
  <2>13. ~state.closed
    BY <2>7, <2>11 DEF SameBut
  <2>14. HasPending(state, back.span)
    BY <2>11 DEF HasPending
  <2>15. ASSUME NEW m \in DOMAIN st.pending, ~st.closed
         PROVE  HasPending(state, st.pending[m].span)
    <3>1. st.pending[m].key # h.tool
      BY <2>1
    <3>2. ~t.closed
      BY <2>5, <2>15 DEF SameBut
    <3>3. PICK i \in DOMAIN r.pending : r.pending[i] = st.pending[m]
      BY <2>5, <2>7, <3>1, <3>2
    <3>4. PICK k \in DOMAIN state.pending : state.pending[k] = st.pending[m]
      BY <2>11, <3>1, <3>3
    <3> QED BY <3>4 DEF HasPending
  <2>16. Opens(h, st) <=> st.closed \/ st.exec = None
    BY <1>2 DEF Opens
  <2>17. PICK x : x = Span(back.span, "RUNNING", r.turn, h.size)
    OBVIOUS
  <2>18. x.id = back.span
    BY <2>17 DEF Span
  <2>19. PICK ops : ops = Batches(r.exec, <<x>>, limit)
    OBVIOUS
  <2>20. Only(ops, state.exec, {x})
    BY <2>12, <2>19, OnlyShort
  <2>21. Mapped(h, st, Result(state, ops))
    BY <2>11, <2>12, <2>13, <2>14, <2>15, <2>16, <2>18, <2>20, EnsureMapped
  <2>22. HandlePreTool(h, n, st, limit) = Result(state, ops)
    BY <1>2, <2>2, <2>4, <2>6, <2>8, <2>10, <2>17, <2>19 DEF HandlePreTool
  <2> QED BY <2>21, <2>22
<1> QED BY <1>1, <1>2

\* handlePostTool: the entry that goes is the span that is closed.
LEMMA PostToolMapped ==
  ASSUME NEW h, NEW n, NEW st, IsState(st), KeysOK(st), NEW limit,
         h.ev \in {"post-tool", "post-tool-failure"}
  PROVE  Mapped(h, st, HandlePostTool(h, n, st, limit))
<1>1. CASE h.tool \in st.done \ Unkeyed
  <2>1. ~Opens(h, st)
    BY <1>1 DEF Opens
  <2>2. Mapped(h, st, Result(st, <<>>))
    BY <2>1, OnlyShort, SameMapped
  <2> QED BY <1>1, <2>2 DEF HandlePostTool
<1>2. CASE h.tool \notin st.done \ Unkeyed
  <2>1. PICK s : s = IF Pending(st, h.tool) # {} THEN Entry(st, h.tool)
                     ELSE Start(h.tool, NewSpanID(h, n, "tool"), st.turn)
    OBVIOUS
  <2>2. \A i \in DOMAIN st.pending : st.pending[i].key = h.tool => st.pending[i] = s
    BY <2>1, EntryIs
  <2>3. PICK d : d = Drop(st, h.tool)
    OBVIOUS
  <2>4. /\ IsState(d) /\ KeysOK(d) /\ SameBut(d, st)
        /\ \A m \in DOMAIN st.pending : st.pending[m].key # h.tool =>
             \E i \in DOMAIN d.pending : d.pending[i] = st.pending[m]
    BY <2>3, DropElements
  <2>5. PICK t : t = [d EXCEPT !.done = @ \cup ({h.tool} \ Unkeyed)]
    OBVIOUS
  <2>6. t.pending = d.pending /\ t.exec = d.exec /\ t.closed = d.closed
    BY <2>4, <2>5 DEF IsState
  <2>7. IsState(t)
    BY <2>4, <2>5, FieldsKeepState
  <2>8. KeysOK(t)
    BY <2>4, <2>6 DEF KeysOK
  <2>9. PICK r : r = EnsureExecution(h, n, t)
    OBVIOUS
  <2>10. /\ KeysOK(r) /\ ~r.closed
         /\ r.exec = IF t.closed \/ t.exec = None THEN <<h.id, 0>> ELSE t.exec
         /\ ~t.closed => r.pending = t.pending
    BY <2>7, <2>8, <2>9, EnsureElements
  <2>11. r.exec = IF st.closed \/ st.exec = None THEN <<h.id, 0>> ELSE st.exec
    BY <2>4, <2>6, <2>10 DEF SameBut
  <2>12. Opens(h, st) <=> st.closed \/ st.exec = None
    BY <1>2 DEF Opens
  <2>13. PICK status : status = IF h.ev = "post-tool-failure" \/ ToolCallFailed(h)
                                THEN "FAILED" ELSE "COMPLETED"
    OBVIOUS
  <2>14. PICK x : x = Span(s.span, status, s.parent, h.size)
    OBVIOUS
  <2>15. x.id = s.span /\ x.status # "RUNNING"
    BY <2>13, <2>14 DEF Span
  <2>16. PICK m : m = ModelSpan(h, n, s.parent)
    OBVIOUS
  <2>17. IsSeq(m) /\ \A k \in DOMAIN m : m[k].status # "RUNNING"
    <3>1. IsSeq(m)
      BY <2>16, ModelSpanIsSeq
    <3>2. \A k \in DOMAIN m : m[k].status # "RUNNING"
      BY <2>16 DEF ModelSpan, Span
    <3> QED BY <3>1, <3>2
  <2>18. PICK one : one = <<x>>
    OBVIOUS
  <2>19. IsSeq(one) /\ DOMAIN one = {1} /\ one[1] = x
    BY <2>18, ShortIsSeq
  <2>20. PICK spans : spans = one \o m
    OBVIOUS
  <2>21. /\ IsSeq(spans)
         /\ \A i \in DOMAIN one : i \in DOMAIN spans /\ spans[i] = one[i]
         /\ \A i \in DOMAIN spans : \/ i \in DOMAIN one
                                    \/ \E k \in DOMAIN m : i = Len(one) + k /\ spans[i] = m[k]
    <3>1. Joined(spans, one, m)
      BY <2>20 DEF Joined
    <3> QED BY <2>17, <2>19, <3>1, CatElements
  <2>22. PICK S : S = {spans[k] : k \in DOMAIN spans}
    OBVIOUS
  <2>23. /\ \A y : y \in S <=> \E k \in DOMAIN spans : spans[k] = y
         /\ x \in S
    BY <2>19, <2>21, <2>22
  <2>24. \A y \in S : y.status # "RUNNING"
    BY <2>15, <2>17, <2>19, <2>21, <2>23
  <2>25. PICK a : a = Batches(r.exec, spans, limit)
    OBVIOUS
  <2>26. PICK b : b = <<AuditOp(h, n)>>
    OBVIOUS
  <2>27. Only(a, r.exec, S) /\ Only(b, r.exec, {})
    BY <2>21, <2>23, <2>25, <2>26, OnlyBatches, OnlyShort
  <2>28. Only(a \o b, r.exec, S)
    <3>1. Only(a \o b, r.exec, S \cup {})
      BY <2>27, OnlyCat
    <3>2. S \cup {} = S
      OBVIOUS
    <3> QED BY <3>1, <3>2
  <2>29. PICK ops : ops = a \o b
    OBVIOUS
  <2>30. ASSUME NEW i \in DOMAIN st.pending, ~st.closed
         PROVE  \/ HasPending(r, st.pending[i].span)
                \/ \E y \in S : y.status # "RUNNING" /\ y.id = st.pending[i].span
    <3>1. CASE st.pending[i].key = h.tool
      BY <2>2, <2>15, <2>23, <3>1
    <3>2. CASE st.pending[i].key # h.tool
      <4>1. ~t.closed
        BY <2>4, <2>6, <2>30 DEF SameBut
      <4>2. PICK k \in DOMAIN r.pending : r.pending[k] = st.pending[i]
        BY <2>4, <2>6, <2>10, <3>2, <4>1
      <4> QED BY <4>2 DEF HasPending
    <3> QED BY <3>1, <3>2
  <2>31. Mapped(h, st, Result(r, ops))
    BY <2>10, <2>11, <2>12, <2>24, <2>28, <2>29, <2>30, EnsureMapped
  <2>32. HandlePostTool(h, n, st, limit) = Result(r, ops)
    BY <1>2, <2>1, <2>3, <2>5, <2>9, <2>13, <2>14, <2>16, <2>18, <2>20, <2>25, <2>26, <2>29
       DEF HandlePostTool
  <2> QED BY <2>31, <2>32
<1> QED BY <1>1, <1>2

\* handleStop: only the turn goes.
LEMMA StopMapped ==
  ASSUME NEW h, NEW n, NEW st, IsState(st), KeysOK(st), NEW limit, h.ev = "stop"
  PROVE  Mapped(h, st, HandleStop(h, n, st, limit))
<1>1. PICK r : r = EnsureExecution(h, n, st)
  OBVIOUS
<1>2. /\ IsState(r) /\ KeysOK(r) /\ ~r.closed
      /\ r.exec = IF st.closed \/ st.exec = None THEN <<h.id, 0>> ELSE st.exec
      /\ ~st.closed => r.pending = st.pending
  BY <1>1, EnsureElements
<1>3. PICK d : d = Drop(r, Turn)
  OBVIOUS
<1>4. /\ IsState(d) /\ KeysOK(d) /\ SameBut(d, r)
      /\ \A m \in DOMAIN r.pending : r.pending[m].key # Turn =>
           \E i \in DOMAIN d.pending : d.pending[i] = r.pending[m]
  BY <1>2, <1>3, DropElements
<1>5. PICK state : state = [d EXCEPT !.turn = None]
  OBVIOUS
<1>6. state.pending = d.pending /\ state.exec = d.exec /\ state.closed = d.closed
  BY <1>4, <1>5 DEF IsState
<1>7. KeysOK(state)
  BY <1>4, <1>6 DEF KeysOK
<1>8. ~state.closed /\ state.exec = r.exec
  BY <1>2, <1>4, <1>6 DEF SameBut
<1>9. state.exec = IF st.closed \/ st.exec = None THEN <<h.id, 0>> ELSE st.exec
  BY <1>2, <1>8
<1>10. \A i \in DOMAIN st.pending : ~st.closed /\ st.pending[i].key # Turn =>
         HasPending(state, st.pending[i].span)
  BY <1>2, <1>4, <1>6 DEF HasPending
<1>11. Opens(h, st) <=> st.closed \/ st.exec = None
  BY DEF Opens
<1>12. PICK open : open = (Pending(r, Turn) # {})
  OBVIOUS
<1>13. PICK id : id = IF open THEN Entry(r, Turn).span ELSE None
  OBVIOUS
<1>14. PICK x : x = Span(id, "COMPLETED", None, h.size)
  OBVIOUS
<1>15. x.status # "RUNNING"
  BY <1>14 DEF Span
<1>16. PICK a : a = Batches(r.exec, IF ~open THEN <<>> ELSE <<x>>, limit)
  OBVIOUS
<1>17. PICK A : Only(a, r.exec, A) /\ \A y \in A : y.status # "RUNNING"
  <2>1. CASE ~open
    <3>1. a = Batches(r.exec, <<>>, limit)
      BY <1>16, <2>1
    <3>2. Only(a, r.exec, {})
      BY <3>1, OnlyShort
    <3> QED BY <3>2
  <2>2. CASE open
    <3>1. a = Batches(r.exec, <<x>>, limit)
      BY <1>16, <2>2
    <3>2. Only(a, r.exec, {x})
      BY <3>1, OnlyShort
    <3> QED BY <1>15, <3>2
  <2> QED BY <2>1, <2>2
<1>18. PICK c : c = Batches(r.exec, ModelSpan(h, n, id), limit)
  OBVIOUS
<1>19. PICK C : Only(c, r.exec, C) /\ \A y \in C : y.status # "RUNNING"
  BY <1>18, ModelSpanClosed
<1>20. PICK b : b = <<AuditOp(h, n)>>
  OBVIOUS
<1>21. Only(b, r.exec, {})
  BY <1>20, OnlyShort
<1>22. PICK e : e = b \o c
  OBVIOUS
<1>23. Only(e, r.exec, {} \cup C)
  BY <1>19, <1>21, <1>22, OnlyCat
<1>24. PICK ops : ops = a \o e
  OBVIOUS
<1>25. PICK S : S = A \cup ({} \cup C)
  OBVIOUS
<1>26. Only(ops, r.exec, S)
  BY <1>17, <1>23, <1>24, <1>25, OnlyCat
<1>27. \A y \in S : y.status # "RUNNING"
  BY <1>17, <1>19, <1>25
<1>28. Only(ops, state.exec, S)
  BY <1>8, <1>26
<1>29. Mapped(h, st, Result(state, ops))
  BY <1>7, <1>8, <1>9, <1>10, <1>11, <1>27, <1>28, EnsureMapped
<1>30. HandleStop(h, n, st, limit) = Result(state, ops)
  BY <1>1, <1>3, <1>5, <1>12, <1>13, <1>14, <1>16, <1>18, <1>20, <1>22, <1>24
     DEF HandleStop, EmitTurnComplete
<1> QED BY <1>29, <1>30

\* handleSessionEnd: what is pending is cancelled before the execution ends.
LEMMA SessionEndMapped ==
  ASSUME NEW h, NEW n, NEW st, IsState(st), KeysOK(st), NEW limit, h.ev = "session-end"
  PROVE  Mapped(h, st, HandleSessionEnd(h, n, st, limit))
<1>1. PICK state : state = [st EXCEPT !.closed = TRUE]
  OBVIOUS
<1>2. state.pending = st.pending /\ state.exec = st.exec /\ state.closed = TRUE
  BY <1>1 DEF IsState
<1>3. KeysOK(state) /\ ~Opens(h, st)
  BY <1>2 DEF KeysOK, Opens
<1>4. \A i \in DOMAIN st.pending : HasPending(state, st.pending[i].span)
  BY <1>2 DEF HasPending
<1>5. PICK c : c = <<AuditOp(h, n)>>
  OBVIOUS
<1>6. IsSeq(c) /\ Len(c) = 1 /\ DOMAIN c = {1} /\ c[1].kind = "audit"
  <2>1. PICK a : a = AuditOp(h, n)
    OBVIOUS
  <2>2. a.kind = "audit"
    BY <2>1 DEF AuditOp
  <2> QED BY <1>5, <2>1, <2>2, ShortIsSeq
<1>7. CASE st.exec = None
  <2>1. PICK ops : ops = <<>> \o <<>> \o c
    OBVIOUS
  <2>2. PICK none : none = <<>> \o <<>>
    OBVIOUS
  <2>3. Only(<<>>, st.exec, {}) /\ Only(c, st.exec, {})
    BY <1>5, OnlyShort
  <2>4. Only(none, st.exec, {} \cup {})
    BY <2>2, <2>3, OnlyCat
  <2>5. Only(ops, st.exec, ({} \cup {}) \cup {})
    BY <2>1, <2>2, <2>3, <2>4, OnlyCat
  <2>6. ({} \cup {}) \cup {} = {}
    OBVIOUS
  <2>7. Only(ops, state.exec, {})
    BY <1>2, <2>5, <2>6
  <2>8. OpsOK(state, ops)
    BY <2>7, OnlyOpsOK
  <2>9. PICK r : r = Result(state, ops)
    OBVIOUS
  <2>10. r.state = state /\ r.ops = ops
    BY <2>9 DEF Result
  <2>11. Mapped(h, st, r)
    BY <1>2, <1>3, <1>4, <1>7, <2>8, <2>10 DEF Mapped
  <2>12. HandleSessionEnd(h, n, st, limit) = r
    BY <1>1, <1>5, <1>7, <2>1, <2>9 DEF HandleSessionEnd
  <2> QED BY <2>11, <2>12
<1>8. CASE st.exec # None
  <2>1. PICK q : q = Cancelled(st)
    OBVIOUS
  <2>2. /\ IsSeq(q) /\ DOMAIN q = DOMAIN st.pending
        /\ \A i \in DOMAIN q : q[i].id = st.pending[i].span /\ q[i].status # "RUNNING"
    <3>1. IsSeq(st.pending)
      BY FieldsKeepState
    <3>2. PICK m \in Nat : st.pending = [i \in 1 .. m |-> st.pending[i]]
      BY <3>1 DEF IsSeq
    <3>3. DOMAIN q = 1 .. m /\ DOMAIN st.pending = 1 .. m /\ q = [i \in 1 .. m |-> q[i]]
      BY <2>1, <3>2 DEF Cancelled
    <3>4. IsSeq(q)
      BY <3>3 DEF IsSeq
    <3>5. \A i \in DOMAIN q : q[i] = Span(st.pending[i].span, "CANCELLED", st.pending[i].parent, 1)
      BY <2>1 DEF Cancelled
    <3>6. \A i \in DOMAIN q : q[i].id = st.pending[i].span /\ q[i].status # "RUNNING"
      BY <3>5 DEF Span
    <3> QED BY <3>3, <3>4, <3>6
  <2>3. PICK S : S = {q[k] : k \in DOMAIN q}
    OBVIOUS
  <2>4. \A x : x \in S <=> \E k \in DOMAIN q : q[k] = x
    BY <2>3
  <2>5. PICK a : a = Batches(st.exec, q, limit)
    OBVIOUS
  <2>6. Only(a, st.exec, S)
    BY <2>2, <2>4, <2>5, OnlyBatches
  <2>7. PICK e : e = EndOp(st.exec, h)
    OBVIOUS
  <2>8. e.kind = "end_execution" /\ e.exec = st.exec
    BY <2>7 DEF EndOp
  <2>9. PICK b : b = <<e>>
    OBVIOUS
  <2>10. IsSeq(b) /\ Len(b) = 1 /\ DOMAIN b = {1} /\ b[1] = e
    BY <2>9, ShortIsSeq
  <2>11. PICK ab : ab = a \o b
    OBVIOUS
  <2>12. PICK ops : ops = ab \o c
    OBVIOUS
  <2>13. IsSeq(a)
    BY <2>6 DEF Only
  <2>14. PICK l \in Nat : l = Len(a) /\ DOMAIN a = 1 .. l
    BY <2>13, LenIsNat
  <2>15. /\ IsSeq(ab) /\ Len(ab) = l + 1 /\ DOMAIN ab = 1 .. l + 1
         /\ ab[l + 1] = e /\ \A i \in 1 .. l : ab[i] = a[i]
    <3>1. Joined(ab, a, b) /\ IsSeq(a) /\ IsSeq(b)
      BY <2>10, <2>11, <2>13 DEF Joined
    <3>2. /\ IsSeq(ab) /\ Len(ab) = Len(a) + Len(b) /\ DOMAIN ab = 1 .. Len(ab)
          /\ \A i \in DOMAIN a : i \in DOMAIN ab /\ ab[i] = a[i]
          /\ \A i \in DOMAIN b : Len(a) + i \in DOMAIN ab /\ ab[Len(a) + i] = b[i]
      BY <3>1, CatElements
    <3> QED BY <2>10, <2>14, <3>2
  <2>16. /\ DOMAIN ops = 1 .. l + 2
         /\ ops[l + 2].kind = "audit" /\ ops[l + 1] = e /\ \A i \in 1 .. l : ops[i] = a[i]
    <3>1. Joined(ops, ab, c) /\ IsSeq(ab) /\ IsSeq(c)
      BY <1>6, <2>12, <2>15 DEF Joined
    <3>2. /\ Len(ops) = Len(ab) + Len(c) /\ DOMAIN ops = 1 .. Len(ops)
          /\ \A i \in DOMAIN ab : i \in DOMAIN ops /\ ops[i] = ab[i]
          /\ \A i \in DOMAIN c : Len(ab) + i \in DOMAIN ops /\ ops[Len(ab) + i] = c[i]
      BY <3>1, CatElements
    <3>3. Len(ab) + 1 = l + 2 /\ l + 1 \in DOMAIN ab /\ 1 \in DOMAIN c /\ Len(ops) = l + 2
      BY <1>6, <2>15, <3>2
    <3>4. ops[l + 2] = c[1] /\ ops[l + 1] = e
      BY <2>15, <3>2, <3>3
    <3>5. \A i \in 1 .. l : ops[i] = a[i]
      BY <2>15, <3>2
    <3> QED BY <1>6, <3>2, <3>3, <3>4, <3>5
  <2>17. \A j \in 1 .. l :
           \/ ops[j].kind = "audit"
           \/ /\ ops[j].kind = "spans" /\ IsSeq(ops[j].spans)
              /\ \A i \in DOMAIN ops[j].spans : ops[j].spans[i].status # "RUNNING"
    BY <2>2, <2>4, <2>6, <2>14, <2>16 DEF Only
  <2>18. ASSUME NEW i \in DOMAIN st.pending
         PROVE  \E k \in 1 .. l : Closes(ops[k], st.pending[i].span)
    <3>1. q[i] \in S /\ q[i].id = st.pending[i].span /\ q[i].status # "RUNNING"
      BY <2>2, <2>4
    <3>2. PICK k \in DOMAIN a : Closes(a[k], q[i].id)
      BY <2>6, <3>1, OnlyCloses
    <3> QED BY <2>14, <2>16, <3>1, <3>2
  <2>19. \A j \in 1 .. l + 2 : j \in 1 .. l \/ j = l + 1 \/ j = l + 2
    OBVIOUS
  <2>20. \A j \in DOMAIN ops : ops[j].kind = "end_execution" => j = l + 1
    BY <2>16, <2>17, <2>19
  <2>21. \A j \in DOMAIN ops : ops[j].kind = "spans" => j \in 1 .. l
    BY <2>8, <2>16, <2>19
  <2>22. OpsOK(state, ops)
    <3>1. ASSUME NEW j \in DOMAIN ops
          PROVE  ops[j].kind \in {"spans", "end_execution", "audit"}
      BY <2>8, <2>16, <2>17, <2>19
    <3>2. ASSUME NEW j \in DOMAIN ops, ops[j].kind = "end_execution"
          PROVE  /\ ops[j].exec = state.exec /\ state.closed /\ state.exec # None
                 /\ \A i \in DOMAIN state.pending :
                      \E k \in 1 .. j - 1 : Closes(ops[k], state.pending[i].span)
                 /\ \A k \in DOMAIN ops : ops[k].kind = "spans" => k < j
      <4>1. j = l + 1 /\ 1 .. j - 1 = 1 .. l
        BY <2>20, <3>2
      <4>2. ops[j].exec = state.exec /\ state.exec # None
        BY <1>2, <1>8, <2>8, <2>16, <4>1
      <4>3. state.closed
        BY <1>2
      <4>4. \A i \in DOMAIN state.pending :
              \E k \in 1 .. j - 1 : Closes(ops[k], state.pending[i].span)
        BY <1>2, <2>18, <4>1
      <4>5. \A k \in DOMAIN ops : ops[k].kind = "spans" => k < j
        BY <2>21, <4>1
      <4> QED BY <4>2, <4>3, <4>4, <4>5
    <3>3. ASSUME NEW j \in DOMAIN ops, ops[j].kind = "spans"
          PROVE  /\ IsSeq(ops[j].spans)
                 /\ \A i \in DOMAIN ops[j].spans : ops[j].spans[i].status # "RUNNING"
      BY <2>17, <2>21, <3>3
    <3> QED BY <3>1, <3>2, <3>3 DEF OpsOK
  <2>23. PICK r : r = Result(state, ops)
    OBVIOUS
  <2>24. r.state = state /\ r.ops = ops
    BY <2>23 DEF Result
  <2>25. \E j \in DOMAIN ops : ops[j].kind = "end_execution"
    <3>1. l + 1 \in DOMAIN ops
      BY <2>16
    <3> QED BY <2>8, <2>16, <3>1
  <2>26. Mapped(h, st, r)
    BY <1>2, <1>3, <1>4, <2>22, <2>24, <2>25 DEF Mapped
  <2>27. HandleSessionEnd(h, n, st, limit) = r
    BY <1>1, <1>5, <1>8, <2>1, <2>5, <2>7, <2>9, <2>11, <2>12, <2>23 DEF HandleSessionEnd
  <2> QED BY <2>26, <2>27
<1> QED BY <1>7, <1>8

\* dispatchHook.
LEMMA DispatchMapped ==
  ASSUME NEW h, h.ev \in HookEvents, h.ev = "pre-tool" => h.tool # Turn,
         NEW n, NEW st, IsState(st), KeysOK(st), NEW limit
  PROVE  Mapped(h, st, DispatchHook(h, n, st, limit))
<1>1. CASE h.ev = "session-start"
  BY <1>1, PointsMapped DEF DispatchHook
<1>2. CASE h.ev = "prompt"
  BY <1>2, PromptMapped DEF DispatchHook
<1>3. CASE h.ev = "pre-tool"
  BY <1>3, PreToolMapped DEF DispatchHook
<1>4. CASE h.ev \in {"post-tool", "post-tool-failure"}
  BY <1>4, PostToolMapped DEF DispatchHook
<1>5. CASE h.ev = "permission"
  BY <1>5, PointsMapped DEF DispatchHook, HandlePermission
<1>6. CASE h.ev = "subagent-stop"
  BY <1>6, PointsMapped DEF DispatchHook, HandleSubagentStop
<1>7. CASE h.ev = "notify"
  <2>1. ~Opens(h, st)
    BY <1>7 DEF Opens
  <2>2. Mapped(h, st, Result(st, <<AuditOp(h, n)>>))
    BY <2>1, OnlyShort, SameMapped
  <2> QED BY <1>7, <2>2 DEF DispatchHook, HandleNotification
<1>8. CASE h.ev = "stop"
  BY <1>8, StopMapped DEF DispatchHook
<1>9. CASE h.ev = "session-end"
  BY <1>9, SessionEndMapped DEF DispatchHook
<1> QED BY <1>1, <1>2, <1>3, <1>4, <1>5, <1>6, <1>7, <1>8, <1>9 DEF HookEvents

-----------------------------------------------------------------------------
(***************************************************************************)
(* What the server does with an operation.                                 *)
(***************************************************************************)
IsServer(s) ==
  \E execs, origin, spans, ends, audits :
    s = [execs |-> execs, git |-> origin, spans |-> spans, ends |-> ends, audits |-> audits]

\* One item of a batch.
Ingested(a, op, n) ==
  IF SpanAccepted(a.srv, op.spans[n])
  THEN [a EXCEPT !.srv = StoreSpan(@, op.exec, op.spans[n])]
  ELSE [a EXCEPT !.result = "permanent"]

\* The answers after each of the first k items.
Ingests(f, k, op) ==
  /\ DOMAIN f = 0 .. k /\ f[0] = [srv |-> srv, result |-> "ok"]
  /\ \A n \in 1 .. k : f[n] = Ingested(f[n - 1], op, n)

\* There is such a function for every k: by the least k without one.
LEMMA IngestsExist ==
  ASSUME NEW op, NEW k \in Nat
  PROVE  \E f : Ingests(f, k, op)
<1> DEFINE T == {m \in Nat : ~ \E f : Ingests(f, m, op)}
<1> SUFFICES ASSUME k \in T PROVE FALSE
  OBVIOUS
<1>1. PICK m \in T : \A y \in T : m <= y
  <2>1. T \subseteq Nat /\ T # {}
    OBVIOUS
  <2> HIDE DEF T
  <2> QED BY <2>1, LeastOf
<1>2. m \in Nat /\ ~ \E f : Ingests(f, m, op)
  OBVIOUS
<1>3. m # 0
  <2>1. Ingests([n \in 0 .. 0 |-> [srv |-> srv, result |-> "ok"]], 0, op)
    BY DEF Ingests
  <2> QED BY <1>2, <2>1
<1>4. PICK p \in Nat : m = p + 1
  <2>1. m - 1 \in Nat /\ m = (m - 1) + 1
    BY <1>2, <1>3
  <2> QED BY <2>1
<1>5. p \notin T
  BY <1>1, <1>4
<1>6. PICK f : Ingests(f, p, op)
  BY <1>5
<1>7. PICK g : g = [n \in 0 .. m |-> IF n = m THEN Ingested(f[p], op, m) ELSE f[n]]
  OBVIOUS
<1>8. Ingests(g, m, op)
  <2>1. DOMAIN g = 0 .. m /\ g[0] = [srv |-> srv, result |-> "ok"]
    BY <1>3, <1>4, <1>6, <1>7 DEF Ingests
  <2>2. ASSUME NEW n \in 1 .. m
        PROVE  g[n] = Ingested(g[n - 1], op, n)
    <3>1. CASE n = m
      <4>1. n - 1 = p /\ p \in 0 .. m /\ p # m /\ n \in 0 .. m
        BY <1>4, <3>1
      <4> QED BY <1>7, <3>1, <4>1
    <3>2. CASE n # m
      <4>1. n \in 1 .. p /\ n \in 0 .. m /\ n - 1 \in 0 .. m /\ n - 1 # m
        BY <1>4, <3>2
      <4>2. f[n] = Ingested(f[n - 1], op, n)
        BY <1>6, <4>1 DEF Ingests
      <4> QED BY <1>7, <3>2, <4>1, <4>2
    <3> QED BY <3>1, <3>2
  <2> QED BY <2>1, <2>2 DEF Ingests
<1> QED BY <1>2, <1>8

\* IngestSpans is what its recursive definition says.
LEMMA IngestSpansIs ==
  ASSUME NEW op, IsSeq(op.spans)
  PROVE  \/ IngestSpans(op) = [srv |-> srv, result |-> "permanent"]
         \/ /\ op.exec \in srv.execs
            /\ \E f : /\ Ingests(f, Len(op.spans), op)
                      /\ IngestSpans(op) = f[Len(op.spans)]
<1> DEFINE Body(f) ==
             [i \in 0 .. Len(op.spans) |->
                IF i = 0 THEN [srv |-> srv, result |-> "ok"] ELSE Ingested(f[i - 1], op, i)]
           c == CHOOSE f : f = Body(f)
<1>0. Len(op.spans) \in Nat
  BY LenIsNat
<1>1. PICK f : Ingests(f, Len(op.spans), op)
  BY <1>0, IngestsExist
<1>2. PICK f2 : f2 = [i \in 0 .. Len(op.spans) |-> f[i]]
  OBVIOUS
<1>3. f2 = Body(f2)
  <2>1. ASSUME NEW i \in 0 .. Len(op.spans) PROVE f2[i] = Body(f2)[i]
    <3>1. CASE i = 0
      BY <1>1, <1>2, <3>1 DEF Ingests
    <3>2. CASE i # 0
      <4>1. i \in 1 .. Len(op.spans) /\ i - 1 \in 0 .. Len(op.spans)
        BY <1>0, <3>2
      <4>2. f[i] = Ingested(f[i - 1], op, i)
        BY <1>1, <4>1 DEF Ingests
      <4>3. f2[i] = f[i] /\ f2[i - 1] = f[i - 1]
        BY <1>2, <4>1
      <4>4. Body(f2)[i] = Ingested(f2[i - 1], op, i)
        BY <3>2
      <4> HIDE DEF Body
      <4> QED BY <4>2, <4>3, <4>4
    <3> QED BY <3>1, <3>2
  <2>2. f2 = [i \in 0 .. Len(op.spans) |-> f2[i]]
    BY <1>2
  <2> QED BY <2>1, <2>2
<1>4. c = Body(c)
  <2> HIDE DEF Body
  <2> QED BY <1>3, Zenon
<1>5. \/ IngestSpans(op) = [srv |-> srv, result |-> "permanent"]
      \/ op.exec \in srv.execs /\ IngestSpans(op) = c[Len(op.spans)]
  BY DEF IngestSpans, Ingested
<1>6. Ingests(c, Len(op.spans), op)
  <2> HIDE DEF c
  <2>1. DOMAIN c = 0 .. Len(op.spans)
    BY <1>4
  <2>2. c[0] = [srv |-> srv, result |-> "ok"]
    <3>1. Body(c)[0] = [srv |-> srv, result |-> "ok"]
      BY <1>0
    <3> HIDE DEF Body
    <3> QED BY <1>4, <3>1
  <2>3. ASSUME NEW n \in 1 .. Len(op.spans)
        PROVE  c[n] = Ingested(c[n - 1], op, n)
    <3>1. n \in 0 .. Len(op.spans) /\ n # 0
      BY <1>0
    <3>2. Body(c)[n] = Ingested(c[n - 1], op, n)
      BY <3>1
    <3> HIDE DEF Body
    <3> QED BY <1>4, <3>2
  <2> QED BY <2>1, <2>2, <2>3 DEF Ingests
<1> HIDE DEF c
<1> QED BY <1>5, <1>6

UniqueSpans(s) == \A x, y \in s.spans : x.id = y.id => x = y

\* A span that is stored: what is closed stays as it is.
LEMMA StoreSpanKeeps ==
  ASSUME NEW s, IsServer(s), UniqueSpans(s), NEW exec, NEW x,
         NEW t, t = StoreSpan(s, exec, x)
  PROVE  /\ IsServer(t) /\ t.execs = s.execs /\ t.ends = s.ends /\ UniqueSpans(t)
         /\ \A y \in s.spans : y.status # "RUNNING" => y \in t.spans
         /\ \A y \in t.spans : \/ y \in s.spans
                               \/ y.id = x.id /\ y.exec = exec /\ y.status = x.status
         /\ x.status # "RUNNING" => \E y \in t.spans : y.id = x.id /\ y.status # "RUNNING"
<1>1. \A y : y \in Stored(s, x.id) <=> y \in s.spans /\ y.id = x.id
  BY DEF Stored
<1>2. CASE \E old \in Stored(s, x.id) : old.status # "RUNNING"
  <2>1. t = s
    BY <1>2 DEF StoreSpan
  <2> QED BY <1>1, <1>2, <2>1
<1>3. CASE ~ \E old \in Stored(s, x.id) : old.status # "RUNNING"
  <2>1. PICK execs, origin, spans, ends, audits :
          s = [execs |-> execs, git |-> origin, spans |-> spans, ends |-> ends, audits |-> audits]
    BY DEF IsServer
  <2>2. PICK new : new = [id |-> x.id, exec |-> exec, status |-> x.status, cost |-> Cost(x)]
    OBVIOUS
  <2>3. PICK to : to = (spans \ Stored(s, x.id)) \cup {new}
    OBVIOUS
  <2>4. t = [execs |-> execs, git |-> origin, spans |-> to, ends |-> ends, audits |-> audits]
    BY <1>3, <2>1, <2>2, <2>3 DEF StoreSpan
  <2>5. IsServer(t)
    BY <2>4, Zenon DEF IsServer
  <2>6. t.execs = s.execs /\ t.ends = s.ends /\ t.spans = to /\ s.spans = spans
    BY <2>1, <2>4
  <2>7. new.id = x.id /\ new.exec = exec /\ new.status = x.status
    BY <2>2
  <2>8. \A y : y \in to <=> (y \in spans /\ y.id # x.id) \/ y = new
    BY <1>1, <2>3, <2>6
  <2>9. UniqueSpans(t)
    BY <2>6, <2>7, <2>8 DEF UniqueSpans
  <2>10. \A y \in s.spans : y.status # "RUNNING" => y \in t.spans
    BY <1>1, <1>3, <2>6, <2>8
  <2>11. new \in t.spans
    BY <2>6, <2>8
  <2> QED BY <2>5, <2>6, <2>7, <2>8, <2>9, <2>10, <2>11
<1> QED BY <1>2, <1>3

\* What is stored of the first m items of a batch.
Grown(a, op, m) ==
  /\ \E s, result : a = [srv |-> s, result |-> result]
  /\ IsServer(a.srv) /\ a.srv.execs = srv.execs /\ a.srv.ends = srv.ends
  /\ UniqueSpans(a.srv)
  /\ \A x \in srv.spans : x.status # "RUNNING" => x \in a.srv.spans
  /\ \A x \in a.srv.spans :
       \/ x \in srv.spans
       \/ /\ x.exec = op.exec
          /\ \E i \in 1 .. m : op.spans[i].id = x.id /\ op.spans[i].status = x.status
  /\ a.result = "ok" =>
       \A i \in 1 .. m : op.spans[i].status # "RUNNING" =>
         \E y \in a.srv.spans : y.id = op.spans[i].id /\ y.status # "RUNNING"

\* One item more.
LEMMA IngestedGrows ==
  ASSUME NEW op, NEW m \in Nat, m # 0, NEW a, Grown(a, op, m - 1),
         NEW b, b = Ingested(a, op, m)
  PROVE  Grown(b, op, m)
<1>0. \A i : i \in 1 .. m <=> i \in 1 .. m - 1 \/ i = m
  OBVIOUS
<1>1. PICK s, result : a = [srv |-> s, result |-> result]
  BY DEF Grown
<1>2. a.srv = s /\ a.result = result
  BY <1>1
<1>3. /\ IsServer(s) /\ s.execs = srv.execs /\ s.ends = srv.ends /\ UniqueSpans(s)
      /\ \A x \in srv.spans : x.status # "RUNNING" => x \in s.spans
      /\ \A x \in s.spans :
           \/ x \in srv.spans
           \/ /\ x.exec = op.exec
              /\ \E i \in 1 .. m - 1 : op.spans[i].id = x.id /\ op.spans[i].status = x.status
      /\ result = "ok" =>
           \A i \in 1 .. m - 1 : op.spans[i].status # "RUNNING" =>
             \E y \in s.spans : y.id = op.spans[i].id /\ y.status # "RUNNING"
  BY <1>2 DEF Grown
<1>4. PICK x : x = op.spans[m]
  OBVIOUS
<1>5. CASE SpanAccepted(s, x)
  <2>1. PICK t : t = StoreSpan(s, op.exec, x)
    OBVIOUS
  <2>2. b = [srv |-> t, result |-> result]
    BY <1>1, <1>2, <1>4, <1>5, <2>1 DEF Ingested
  <2>3. b.srv = t /\ b.result = result
    BY <2>2
  <2>4. /\ IsServer(t) /\ t.execs = s.execs /\ t.ends = s.ends /\ UniqueSpans(t)
        /\ \A y \in s.spans : y.status # "RUNNING" => y \in t.spans
        /\ \A y \in t.spans : \/ y \in s.spans
                              \/ y.id = x.id /\ y.exec = op.exec /\ y.status = x.status
        /\ x.status # "RUNNING" => \E y \in t.spans : y.id = x.id /\ y.status # "RUNNING"
    BY <1>3, <2>1, StoreSpanKeeps
  <2>5. \E u, r : b = [srv |-> u, result |-> r]
    BY <2>2
  <2>6. \A y \in srv.spans : y.status # "RUNNING" => y \in t.spans
    BY <1>3, <2>4
  <2>7. ASSUME NEW y \in t.spans
        PROVE  \/ y \in srv.spans
               \/ /\ y.exec = op.exec
                  /\ \E i \in 1 .. m : op.spans[i].id = y.id /\ op.spans[i].status = y.status
    <3>1. CASE y \in s.spans
      BY <1>0, <1>3, <3>1
    <3>2. CASE y.id = x.id /\ y.exec = op.exec /\ y.status = x.status
      BY <1>0, <1>4, <3>2
    <3> QED BY <2>4, <3>1, <3>2
  <2>8. ASSUME result = "ok", NEW i \in 1 .. m, op.spans[i].status # "RUNNING"
        PROVE  \E y \in t.spans : y.id = op.spans[i].id /\ y.status # "RUNNING"
    <3>1. CASE i = m
      BY <1>4, <2>4, <2>8, <3>1
    <3>2. CASE i # m
      BY <1>0, <1>3, <2>4, <2>8, <3>2
    <3> QED BY <3>1, <3>2
  <2> QED BY <1>3, <2>3, <2>4, <2>5, <2>6, <2>7, <2>8 DEF Grown
<1>6. CASE ~SpanAccepted(s, x)
  <2>1. b = [srv |-> s, result |-> "permanent"]
    <3>1. b = [a EXCEPT !.result = "permanent"]
      BY <1>2, <1>4, <1>6 DEF Ingested
    <3> QED BY <1>1, <3>1
  <2>2. b.srv = s /\ b.result = "permanent"
    BY <2>1
  <2>3. \E u, r : b = [srv |-> u, result |-> r]
    BY <2>1
  <2>4. \A y \in s.spans :
           \/ y \in srv.spans
           \/ /\ y.exec = op.exec
              /\ \E i \in 1 .. m : op.spans[i].id = y.id /\ op.spans[i].status = y.status
    BY <1>0, <1>3
  <2> QED BY <1>3, <2>2, <2>3, <2>4 DEF Grown
<1> QED BY <1>5, <1>6

\* All items: by the first number of items of which that is not true.
LEMMA IngestsGrow ==
  ASSUME IsServer(srv), UniqueSpans(srv), NEW op, NEW k \in Nat,
         NEW f, Ingests(f, k, op)
  PROVE  Grown(f[k], op, k)
<1> DEFINE T == {m \in 0 .. k : ~Grown(f[m], op, m)}
<1> SUFFICES ASSUME T # {} PROVE FALSE
  OBVIOUS
<1>1. PICK m \in T : \A y \in T : m <= y
  <2>1. T \subseteq Nat
    OBVIOUS
  <2> HIDE DEF T
  <2> QED BY <2>1, LeastOf
<1>2. m \in 0 .. k /\ ~Grown(f[m], op, m)
  OBVIOUS
<1>3. Grown(f[0], op, 0)
  <2>1. f[0] = [srv |-> srv, result |-> "ok"]
    BY DEF Ingests
  <2>2. f[0].srv = srv /\ \E s, result : f[0] = [srv |-> s, result |-> result]
    <3>1. f[0].srv = srv
      BY <2>1
    <3>2. \E s, result : f[0] = [srv |-> s, result |-> result]
      BY <2>1, Zenon
    <3> QED BY <3>1, <3>2
  <2>3. 1 .. 0 = {}
    OBVIOUS
  <2> QED BY <2>2, <2>3 DEF Grown
<1>4. m # 0
  BY <1>2, <1>3
<1>5. m - 1 \in 0 .. k /\ m \in 1 .. k /\ m - 1 < m /\ m \in Nat
  BY <1>2, <1>4
<1>6. Grown(f[m - 1], op, m - 1)
  BY <1>1, <1>5
<1>7. f[m] = Ingested(f[m - 1], op, m)
  BY <1>5 DEF Ingests
<1> QED BY <1>2, <1>4, <1>5, <1>6, <1>7, IngestedGrows

\* What an answer to the operation op means for a server s.
Serves(s, op, a) ==
  /\ IsServer(a.srv) /\ UniqueSpans(a.srv) /\ a.srv.execs = s.execs
  /\ \A x \in s.spans : x.status # "RUNNING" => x \in a.srv.spans
  /\ \A x \in a.srv.spans :
       \/ x \in s.spans
       \/ /\ op.kind = "spans" /\ op.exec \in s.execs /\ x.exec = op.exec
          /\ \E i \in DOMAIN op.spans : op.spans[i].id = x.id /\ op.spans[i].status = x.status
  /\ s.ends \subseteq a.srv.ends
  /\ \A d \in a.srv.ends : \/ d \in s.ends
                           \/ /\ op.kind = "end_execution" /\ d.exec = op.exec
                              /\ a.result = "ok"
  /\ a.result = "ok" /\ op.kind = "spans" =>
       \A i \in DOMAIN op.spans : op.spans[i].status # "RUNNING" =>
         \E y \in a.srv.spans : y.id = op.spans[i].id /\ y.status # "RUNNING"
  /\ a.result = "ok" /\ op.kind = "end_execution" =>
       \E d \in a.srv.ends : d.exec = op.exec

\* Every answer.
LEMMA AnswerServes ==
  ASSUME IsServer(srv), UniqueSpans(srv), NEW op,
         op.kind \in {"spans", "end_execution", "audit"},
         op.kind = "spans" => IsSeq(op.spans), NEW a, a = Answer(op)
  PROVE  Serves(srv, op, a)
<1>1. PICK execs, origin, spans, ends, audits :
        srv = [execs |-> execs, git |-> origin, spans |-> spans, ends |-> ends, audits |-> audits]
  BY DEF IsServer
<1>2. ASSUME NEW b, b.srv = srv, b.result # "ok"
      PROVE  Serves(srv, op, b)
  BY <1>2 DEF Serves
<1>3. ASSUME NEW result, result # "ok"
      PROVE  Serves(srv, op, [srv |-> srv, result |-> result])
  <2>1. PICK b : b = [srv |-> srv, result |-> result]
    OBVIOUS
  <2>2. b.srv = srv /\ b.result # "ok"
    BY <1>3, <2>1
  <2> QED BY <1>2, <2>1, <2>2
<1>4. CASE Oversize(op, Limit)
  BY <1>3, <1>4 DEF Answer
<1>5. CASE ~Oversize(op, Limit) /\ op.kind = "spans"
  <2>1. a = IngestSpans(op)
    BY <1>5 DEF Answer, Applied
  <2>2. CASE IngestSpans(op) = [srv |-> srv, result |-> "permanent"]
    BY <1>3, <2>1, <2>2
  <2>3. CASE /\ op.exec \in srv.execs
             /\ \E f : Ingests(f, Len(op.spans), op) /\ IngestSpans(op) = f[Len(op.spans)]
    <3>1. PICK f : Ingests(f, Len(op.spans), op) /\ IngestSpans(op) = f[Len(op.spans)]
      BY <2>3
    <3>2. PICK k \in Nat : k = Len(op.spans) /\ DOMAIN op.spans = 1 .. k
      BY <1>5, LenIsNat
    <3>3. Grown(a, op, k)
      BY <2>1, <3>1, <3>2, IngestsGrow
    <3> QED BY <1>5, <2>3, <3>2, <3>3 DEF Grown, Serves
  <2> QED BY <1>5, <2>2, <2>3, IngestSpansIs
<1>6. CASE ~Oversize(op, Limit) /\ op.kind = "end_execution"
  <2>1. a = EndExecutionAt(op)
    BY <1>6 DEF Answer, Applied
  <2>2. CASE \E e \in srv.ends : e.exec = op.exec /\ e.by # op.by
    BY <1>3, <2>1, <2>2 DEF EndExecutionAt
  <2>3. CASE ~ \E e \in srv.ends : e.exec = op.exec /\ e.by # op.by
    <3>1. PICK d : d = [exec |-> op.exec, by |-> op.by]
      OBVIOUS
    <3>2. PICK s : s = [srv EXCEPT !.ends = @ \cup {d}]
      OBVIOUS
    <3>3. a.srv = s /\ a.result = "ok"
      BY <2>1, <2>3, <3>1, <3>2 DEF EndExecutionAt
    <3>4. s = [execs |-> execs, git |-> origin, spans |-> spans, ends |-> ends \cup {d}, audits |-> audits]
      BY <1>1, <3>2
    <3>5. IsServer(s)
      BY <3>4, Zenon DEF IsServer
    <3>6. s.execs = srv.execs /\ s.spans = srv.spans /\ s.ends = srv.ends \cup {d}
      BY <1>1, <3>4
    <3>7. d.exec = op.exec
      BY <3>1
    <3>8. UniqueSpans(s)
      BY <3>6 DEF UniqueSpans
    <3> QED BY <1>6, <3>3, <3>5, <3>6, <3>7, <3>8 DEF Serves
  <2> QED BY <2>2, <2>3
<1>7. CASE ~Oversize(op, Limit) /\ op.kind = "audit"
  <2>1. PICK s : s = [srv EXCEPT !.audits = @ \cup {op.id}]
    OBVIOUS
  <2>2. a.srv = s
    BY <1>7, <2>1 DEF Answer, Applied
  <2>3. s = [execs |-> execs, git |-> origin, spans |-> spans, ends |-> ends, audits |-> audits \cup {op.id}]
    BY <1>1, <2>1
  <2>4. IsServer(s)
    BY <2>3, Zenon DEF IsServer
  <2>5. s.execs = srv.execs /\ s.spans = srv.spans /\ s.ends = srv.ends
    BY <1>1, <2>3
  <2>6. UniqueSpans(s)
    BY <2>5 DEF UniqueSpans
  <2> QED BY <1>7, <2>2, <2>4, <2>5, <2>6 DEF Serves
<1> QED BY <1>4, <1>5, <1>6, <1>7

-----------------------------------------------------------------------------
(***************************************************************************)
(* No orphans.  The invariant is stated of a view of the state, so that    *)
(* its steps are lemmas about two views.                                   *)
(***************************************************************************)
View == [hooks |-> [id \in Captured |-> HookOf(id)], journal |-> journal,
         files |-> files, srv |-> srv, applied |-> applied]

\* What the spool's own invariant says of the view.
Spool(g) ==
  /\ \A id \in DOMAIN g.hooks :
       /\ id \in Ids /\ <<id, 0>> # None
       /\ g.hooks[id].id = id /\ g.hooks[id].ev \in HookEvents
       /\ g.hooks[id].ev = "pre-tool" => g.hooks[id].tool # Turn
  /\ DOMAIN g.journal \subseteq DOMAIN g.hooks
  /\ \A id \in DOMAIN g.journal :
       /\ g.journal[id].id = id /\ IsEnvelope(g.journal[id])
       /\ \A i \in 1 .. g.journal[id].next : Rec(g.journal[id], i) \in g.applied
  /\ \A r \in g.applied : r.hook \in DOMAIN g.journal => g.journal[r.hook].prepared
  /\ \A s \in Sessions : IsState(g.files[s])

Ended(g, x) == \E d \in g.srv.ends : d.exec = x

ClosedSpan(g, sid) == \E y \in g.srv.spans : y.id = sid /\ y.status # "RUNNING"

\* Tool spans that are open on the server.
Running(g) == {x \in g.srv.spans : x.status = "RUNNING" /\ x.id[3] = "tool"}

NoneBefore(g, id) ==
  \A other \in DOMAIN g.hooks : Before(other, id) => other \notin DOMAIN g.journal

\* x is the execution of a hook of session s that has been prepared.
ExecOf(g, x, s) ==
  \E id \in DOMAIN g.hooks :
    x = <<id, 0>> /\ id[1] = s /\ (id \in DOMAIN g.journal => g.journal[id].prepared)

\* A state of session s, on disk or in an envelope.
SessionState(g, st, s) ==
  /\ KeysOK(st)
  /\ st.exec # None => ExecOf(g, st.exec, s)
  /\ Ended(g, st.exec) => st.closed

\* What has been applied of an envelope has had its effect.
Delivered(g, e) ==
  \A j \in DOMAIN e.ops : Rec(e, j) \in g.applied =>
    /\ e.ops[j].kind = "end_execution" => Ended(g, e.state.exec)
    /\ e.ops[j].kind = "spans" =>
         \A i \in DOMAIN e.ops[j].spans :
           e.ops[j].spans[i].status # "RUNNING" => ClosedSpan(g, e.ops[j].spans[i].id)

\* The open spans that the state f on disk knows of are taken over by the envelope.
TakesOver(g, e, f) ==
  \A x \in Running(g) : x.exec = f.exec /\ HasPending(f, x.id) =>
    \/ x.exec = e.state.exec /\ HasPending(e.state, x.id)
    \/ \E j \in DOMAIN e.ops : Closes(e.ops[j], x.id)

\* A prepared envelope: it follows the state f on disk, or is that state.
Current(g, e, f) ==
  /\ SessionState(g, e.state, e.id[1]) /\ OpsOK(e.state, e.ops) /\ NoneBefore(g, e.id)
  /\ <<e.id, 0>> \in g.srv.execs => e.state.exec = <<e.id, 0>>
  /\ f.exec = None \/ f.exec = e.state.exec \/ Ended(g, f.exec)
  /\ e.state.closed /\ e.state.exec # None =>
       \/ Ended(g, e.state.exec)
       \/ \E j \in DOMAIN e.ops : e.ops[j].kind = "end_execution"
  /\ Delivered(g, e) /\ TakesOver(g, e, f)

\* A hook not yet prepared whose execution is on the server will use it.
Fresh(g, id, f) ==
  <<id, 0>> \in g.srv.execs => NoneBefore(g, id) /\ Opens(g.hooks[id], f)

EnvelopesOK(g) ==
  \A id \in DOMAIN g.journal :
    /\ g.journal[id].prepared => Current(g, g.journal[id], g.files[id[1]])
    /\ ~g.journal[id].prepared => Fresh(g, id, g.files[id[1]])

\* The session has a prepared envelope in the spool.
Busy(g, s) == \E id \in DOMAIN g.journal : id[1] = s /\ g.journal[id].prepared

FilesOK(g) ==
  \A s \in Sessions :
    /\ SessionState(g, g.files[s], s)
    /\ g.files[s].closed /\ g.files[s].exec # None =>
         Ended(g, g.files[s].exec) \/ Busy(g, s)

ServerOK(g) ==
  /\ IsServer(g.srv) /\ UniqueSpans(g.srv)
  /\ \A x \in g.srv.execs : \E id \in DOMAIN g.hooks : x = <<id, 0>>
  /\ \A x \in g.srv.spans : x.exec \in g.srv.execs
  /\ \A d \in g.srv.ends : \E s \in Sessions : ExecOf(g, d.exec, s)

\* An operation that closes the span is still to be applied.
WillClose(g, sid, s) ==
  \E id \in DOMAIN g.journal :
    /\ id[1] = s /\ g.journal[id].prepared
    /\ \E j \in DOMAIN g.journal[id].ops :
         Closes(g.journal[id].ops[j], sid) /\ Rec(g.journal[id], j) \notin g.applied

RunningOK(g) ==
  \A x \in Running(g) :
    /\ ~Ended(g, x.exec)
    /\ \/ /\ x.exec = g.files[x.exec[1][1]].exec
          /\ HasPending(g.files[x.exec[1][1]], x.id)
       \/ WillClose(g, x.id, x.exec[1][1])

UsedOK(g) ==
  \A x \in g.srv.execs :
    x[1] \in DOMAIN g.journal \/ g.files[x[1][1]].exec = x \/ Ended(g, x)

World(g) ==
  /\ Spool(g) /\ ServerOK(g) /\ FilesOK(g) /\ EnvelopesOK(g) /\ RunningOK(g) /\ UsedOK(g)

-----------------------------------------------------------------------------
\* Two entries of a session with nothing before them are one.
LEMMA OneEntry ==
  ASSUME NEW g, Spool(g), NEW a \in DOMAIN g.journal, NEW b \in DOMAIN g.journal,
         a[1] = b[1], NoneBefore(g, a), NoneBefore(g, b)
  PROVE  a = b
<1>1. a \in Ids /\ b \in Ids /\ a \in DOMAIN g.hooks /\ b \in DOMAIN g.hooks
  BY DEF Spool
<1>2. a = <<a[1], a[2]>> /\ b = <<b[1], b[2]>> /\ a[2] \in Nat /\ b[2] \in Nat
  BY <1>1 DEF Ids
<1>3. ~(a[2] < b[2]) /\ ~(b[2] < a[2])
  BY <1>1 DEF NoneBefore, Before
<1>4. a[2] = b[2]
  BY <1>2, <1>3
<1> QED BY <1>2, <1>4

\* A busy session has its envelope at the front.
LEMMA BusyEntry ==
  ASSUME NEW g, Spool(g), EnvelopesOK(g), NEW a \in DOMAIN g.journal, NoneBefore(g, a),
         NEW b \in DOMAIN g.journal, g.journal[b].prepared, a[1] = b[1]
  PROVE  a = b
<1>1. g.journal[b].id = b /\ Current(g, g.journal[b], g.files[b[1]])
  BY DEF EnvelopesOK, Spool
<1>2. NoneBefore(g, b)
  BY <1>1 DEF Current
<1> QED BY <1>2, OneEntry

\* The execution of a session is that of one session, and not none.
LEMMA OneExec ==
  ASSUME NEW g, Spool(g), NEW x, NEW s, ExecOf(g, x, s)
  PROVE  x # None /\ x[1][1] = s
<1>1. PICK id \in DOMAIN g.hooks : x = <<id, 0>> /\ id[1] = s
  BY DEF ExecOf
<1>2. x[1] = id
  BY <1>1
<1> QED BY <1>1, <1>2 DEF Spool

\* An execution on the server has the key of a hook.
LEMMA ExecIsSome ==
  ASSUME NEW g, Spool(g), ServerOK(g), NEW x \in g.srv.execs
  PROVE  x # None
BY DEF Spool, ServerOK

\* A span is not open and closed at once.
LEMMA OpenNotClosed ==
  ASSUME NEW g, UniqueSpans(g.srv), NEW x \in Running(g)
  PROVE  ~ClosedSpan(g, x.id) /\ x \in g.srv.spans /\ x.status = "RUNNING"
BY DEF UniqueSpans, Running, ClosedSpan

\* An envelope that the step does not concern.
LEMMA CurrentStays ==
  ASSUME NEW g, NEW h, NEW e, NEW f, Current(g, e, f),
         \A x, s : ExecOf(g, x, s) => ExecOf(h, x, s),
         NoneBefore(h, e.id),
         \A x : Ended(g, x) => Ended(h, x),
         Ended(h, e.state.exec) => Ended(g, e.state.exec) \/ e.state.closed,
         <<e.id, 0>> \in h.srv.execs => <<e.id, 0>> \in g.srv.execs,
         \A j \in DOMAIN e.ops : Rec(e, j) \in h.applied => Rec(e, j) \in g.applied,
         \A sid : ClosedSpan(g, sid) => ClosedSpan(h, sid),
         \A x \in Running(h) : x.exec = f.exec /\ HasPending(f, x.id) => x \in Running(g)
  PROVE  Current(h, e, f)
<1>1. SessionState(h, e.state, e.id[1])
  BY DEF Current, SessionState
<1>2. Delivered(h, e)
  BY DEF Current, Delivered
<1>3. TakesOver(h, e, f)
  BY DEF Current, TakesOver
<1> QED BY <1>1, <1>2, <1>3 DEF Current

\* A state that the step does not concern.
LEMMA StateStays ==
  ASSUME NEW g, NEW h, NEW st, NEW s, SessionState(g, st, s),
         \A x, t : ExecOf(g, x, t) => ExecOf(h, x, t),
         Ended(h, st.exec) => Ended(g, st.exec) \/ st.closed
  PROVE  SessionState(h, st, s)
BY DEF SessionState

\* Nothing happens on the server.
LEMMA SameServer ==
  ASSUME NEW g, NEW h, h.srv.spans = g.srv.spans, h.srv.ends = g.srv.ends
  PROVE  /\ Running(h) = Running(g)
         /\ \A x : Ended(h, x) <=> Ended(g, x)
         /\ \A sid : ClosedSpan(h, sid) <=> ClosedSpan(g, sid)
BY DEF Running, Ended, ClosedSpan

\* A hook is captured.
LEMMA WorldCapture ==
  ASSUME NEW g, World(g), NEW h, Spool(h), NEW new, new \notin DOMAIN g.hooks,
         DOMAIN h.hooks = DOMAIN g.hooks \cup {new},
         \A id \in DOMAIN g.hooks : h.hooks[id] = g.hooks[id] /\ ~Before(new, id),
         DOMAIN h.journal = DOMAIN g.journal \cup {new},
         \A id \in DOMAIN g.journal : h.journal[id] = g.journal[id],
         ~h.journal[new].prepared,
         h.files = g.files, h.srv = g.srv, h.applied = g.applied
  PROVE  World(h)
<1>1. /\ Running(h) = Running(g)
      /\ \A x : Ended(h, x) <=> Ended(g, x)
      /\ \A sid : ClosedSpan(h, sid) <=> ClosedSpan(g, sid)
  BY SameServer
<1>2. Spool(g) /\ ServerOK(g) /\ FilesOK(g) /\ EnvelopesOK(g) /\ RunningOK(g) /\ UsedOK(g)
  BY DEF World
<1>3. DOMAIN g.journal \subseteq DOMAIN g.hooks /\ new \notin DOMAIN g.journal
  BY <1>2 DEF Spool
<1>4. \A x, s : ExecOf(g, x, s) => ExecOf(h, x, s)
  BY <1>3 DEF ExecOf
<1>5. \A id \in DOMAIN g.hooks : NoneBefore(g, id) => NoneBefore(h, id)
  BY <1>3 DEF NoneBefore
<1>6. <<new, 0>> \notin g.srv.execs
  BY <1>2 DEF ServerOK
<1>7. ServerOK(h)
  BY <1>2, <1>4 DEF ServerOK
<1>8. FilesOK(h)
  <2>1. ASSUME NEW s \in Sessions
        PROVE  /\ SessionState(h, h.files[s], s)
               /\ h.files[s].closed /\ h.files[s].exec # None =>
                    Ended(h, h.files[s].exec) \/ Busy(h, s)
    <3>1. SessionState(h, h.files[s], s)
      BY <1>1, <1>2, <1>4, StateStays DEF FilesOK
    <3>2. Busy(g, s) => Busy(h, s)
      BY DEF Busy
    <3> QED BY <1>1, <1>2, <3>1, <3>2 DEF FilesOK
  <2> QED BY <2>1 DEF FilesOK
<1>9. EnvelopesOK(h)
  <2>1. ASSUME NEW id \in DOMAIN h.journal
        PROVE  /\ h.journal[id].prepared => Current(h, h.journal[id], h.files[id[1]])
               /\ ~h.journal[id].prepared => Fresh(h, id, h.files[id[1]])
    <3>1. CASE id = new
      BY <1>6, <3>1 DEF Fresh
    <3>2. CASE id # new
      <4>1. PICK e : e = g.journal[id]
        OBVIOUS
      <4>2. h.journal[id] = e /\ id \in DOMAIN g.journal /\ id \in DOMAIN g.hooks /\ e.id = id
        BY <1>2, <1>3, <2>1, <3>2, <4>1 DEF Spool
      <4>3. ASSUME e.prepared PROVE Current(h, e, g.files[id[1]])
        <5>1. Current(g, e, g.files[id[1]])
          BY <1>2, <4>1, <4>2, <4>3 DEF EnvelopesOK
        <5>2. NoneBefore(h, e.id)
          BY <1>5, <4>2, <5>1 DEF Current
        <5> QED BY <1>1, <1>4, <5>1, <5>2, CurrentStays
      <4>4. ASSUME ~e.prepared PROVE Fresh(h, id, g.files[id[1]])
        BY <1>2, <1>5, <4>1, <4>2, <4>4 DEF EnvelopesOK, Fresh
      <4> QED BY <4>2, <4>3, <4>4
    <3> QED BY <3>1, <3>2
  <2> QED BY <2>1 DEF EnvelopesOK
<1>10. RunningOK(h)
  <2>1. \A sid, s : WillClose(g, sid, s) => WillClose(h, sid, s)
    BY DEF WillClose
  <2> QED BY <1>1, <1>2, <2>1 DEF RunningOK
<1>11. UsedOK(h)
  BY <1>1, <1>2 DEF UsedOK
<1> QED BY <1>7, <1>8, <1>9, <1>10, <1>11 DEF World

\* An execution is started for a hook that will use it.
LEMMA WorldStart ==
  ASSUME NEW g, World(g), NEW h, NEW id \in DOMAIN g.journal,
         ~g.journal[id].prepared, NoneBefore(g, id), Opens(g.hooks[id], g.files[id[1]]),
         h.hooks = g.hooks, h.journal = g.journal, h.files = g.files, h.applied = g.applied,
         NEW with, h.srv = [g.srv EXCEPT !.execs = @ \cup {<<id, 0>>}, !.git = with]
  PROVE  World(h)
<1>1. Spool(g) /\ ServerOK(g) /\ FilesOK(g) /\ EnvelopesOK(g) /\ RunningOK(g) /\ UsedOK(g)
  BY DEF World
<1>2. PICK execs, origin, spans, ends, audits :
        g.srv = [execs |-> execs, git |-> origin, spans |-> spans, ends |-> ends, audits |-> audits]
  BY <1>1 DEF ServerOK, IsServer
<1>3. PICK key : key = <<id, 0>>
  OBVIOUS
<1>4. h.srv = [execs |-> execs \cup {key}, git |-> with, spans |-> spans, ends |-> ends, audits |-> audits]
  <2>1. PICK s : s = g.srv
    OBVIOUS
  <2>2. PICK more : more = execs \cup {key}
    OBVIOUS
  <2>3. s.execs = execs
    BY <1>2, <2>1
  <2>4. h.srv = [s EXCEPT !.execs = more, !.git = with]
    BY <1>3, <2>1, <2>2, <2>3
  <2>5. s = [execs |-> execs, git |-> origin, spans |-> spans, ends |-> ends, audits |-> audits]
    BY <1>2, <2>1
  <2>6. h.srv = [execs |-> more, git |-> with, spans |-> spans, ends |-> ends, audits |-> audits]
    BY <2>4, <2>5
  <2> QED BY <2>2, <2>6
<1>5. /\ h.srv.execs = g.srv.execs \cup {key} /\ h.srv.spans = g.srv.spans
      /\ h.srv.ends = g.srv.ends
  <2>1. PICK s : s = g.srv
    OBVIOUS
  <2>2. PICK t : t = h.srv
    OBVIOUS
  <2>3. s.execs = execs /\ s.spans = spans /\ s.ends = ends
    BY <1>2, <2>1
  <2>4. t.execs = execs \cup {key} /\ t.spans = spans /\ t.ends = ends
    BY <1>4, <2>2
  <2> QED BY <2>1, <2>2, <2>3, <2>4
<1>6. IsServer(h.srv)
  BY <1>4, Zenon DEF IsServer
<1>7. /\ Running(h) = Running(g)
      /\ \A x : Ended(h, x) <=> Ended(g, x)
      /\ \A sid : ClosedSpan(h, sid) <=> ClosedSpan(g, sid)
  BY <1>5, SameServer
<1>8. /\ \A x, s : ExecOf(h, x, s) <=> ExecOf(g, x, s)
      /\ \A k : NoneBefore(h, k) <=> NoneBefore(g, k)
      /\ \A s : Busy(h, s) <=> Busy(g, s)
      /\ \A sid, s : WillClose(h, sid, s) <=> WillClose(g, sid, s)
  BY DEF ExecOf, NoneBefore, Busy, WillClose
<1>9. Spool(h)
  BY <1>1 DEF Spool
<1>10. ServerOK(h)
  <2>1. id \in DOMAIN h.hooks
    BY <1>1 DEF Spool
  <2>2. UniqueSpans(h.srv)
    BY <1>1, <1>5 DEF ServerOK, UniqueSpans
  <2> QED BY <1>1, <1>3, <1>5, <1>6, <1>8, <2>1, <2>2 DEF ServerOK
<1>11. FilesOK(h)
  <2>1. ASSUME NEW s \in Sessions PROVE SessionState(h, g.files[s], s)
    BY <1>1, <1>7, <1>8, StateStays DEF FilesOK
  <2> QED BY <1>1, <1>7, <1>8, <2>1 DEF FilesOK
<1>12. EnvelopesOK(h)
  <2>1. ASSUME NEW k \in DOMAIN g.journal, g.journal[k].prepared
        PROVE  Current(h, g.journal[k], g.files[k[1]])
    <3>1. PICK e : e = g.journal[k]
      OBVIOUS
    <3>2. Current(g, e, g.files[k[1]]) /\ e.id = k
      BY <1>1, <2>1, <3>1 DEF EnvelopesOK, Spool
    <3>3. <<e.id, 0>> # key
      BY <1>3, <2>1, <3>2
    <3>4. NoneBefore(h, e.id)
      BY <1>8, <3>2 DEF Current
    <3>5. Current(h, e, g.files[k[1]])
      BY <1>5, <1>7, <1>8, <3>2, <3>3, <3>4, CurrentStays
    <3> QED BY <3>1, <3>5
  <2>2. ASSUME NEW k \in DOMAIN g.journal, ~g.journal[k].prepared
        PROVE  Fresh(h, k, g.files[k[1]])
    <3>1. CASE k = id
      BY <1>8, <3>1 DEF Fresh
    <3>2. CASE k # id
      <4>1. <<k, 0>> # key
        BY <1>3, <3>2
      <4> QED BY <1>1, <1>5, <1>8, <2>2, <4>1 DEF EnvelopesOK, Fresh
    <3> QED BY <3>1, <3>2
  <2> QED BY <2>1, <2>2 DEF EnvelopesOK
<1>13. RunningOK(h)
  BY <1>1, <1>7, <1>8 DEF RunningOK
<1>14. UsedOK(h)
  <2>1. key[1] = id
    BY <1>3
  <2> QED BY <1>1, <1>5, <1>7, <2>1 DEF UsedOK
<1> QED BY <1>9, <1>10, <1>11, <1>12, <1>13, <1>14 DEF World

\* A hook is prepared.
LEMMA WorldPrepare ==
  ASSUME NEW g, World(g), NEW h, Spool(h), NEW id \in DOMAIN g.journal,
         ~g.journal[id].prepared, NoneBefore(g, id),
         NEW r, Mapped(g.hooks[id], g.files[id[1]], r),
         NEW e, e.id = id, e.prepared, e.state = r.state, e.ops = r.ops,
         DOMAIN h.journal = DOMAIN g.journal, h.journal[id] = e,
         \A k \in DOMAIN g.journal : k # id => h.journal[k] = g.journal[k],
         h.hooks = g.hooks, h.files = g.files, h.srv = g.srv, h.applied = g.applied
  PROVE  World(h)
<1>1. Spool(g) /\ ServerOK(g) /\ FilesOK(g) /\ EnvelopesOK(g) /\ RunningOK(g) /\ UsedOK(g)
  BY DEF World
<1>2. PICK s : s = id[1]
  OBVIOUS
<1>3. PICK f : f = g.files[s]
  OBVIOUS
<1>4. id \in DOMAIN g.hooks /\ id \in Ids /\ s \in Sessions /\ g.hooks[id].id = id /\ <<id, 0>> # None
  BY <1>1, <1>2 DEF Spool, Ids
<1>5. /\ Running(h) = Running(g)
      /\ \A x : Ended(h, x) <=> Ended(g, x)
      /\ \A sid : ClosedSpan(h, sid) <=> ClosedSpan(g, sid)
  BY SameServer
<1>6. \A k : NoneBefore(h, k) <=> NoneBefore(g, k)
  BY DEF NoneBefore
<1>7. \A x, t : ExecOf(g, x, t) => ExecOf(h, x, t)
  BY DEF ExecOf
<1>8. /\ \A t : Busy(g, t) => Busy(h, t)
      /\ \A sid, t : WillClose(g, sid, t) => WillClose(h, sid, t)
  BY DEF Busy, WillClose
<1>9. ~Busy(g, s)
  BY <1>1, <1>2, BusyEntry DEF Busy
<1>10. /\ SessionState(g, f, s)
       /\ f.closed /\ f.exec # None => Ended(g, f.exec)
  BY <1>1, <1>3, <1>4, <1>9 DEF FilesOK
<1>11. PICK st : st = e.state
  OBVIOUS
<1>12. PICK ops : ops = e.ops
  OBVIOUS
<1>13. PICK new : new = Opens(g.hooks[id], f)
  OBVIOUS
<1>14. /\ KeysOK(st) /\ OpsOK(st, ops)
       /\ st.exec = IF new THEN <<id, 0>> ELSE f.exec
       /\ new => ~st.closed
       /\ ~new /\ f.closed => st.closed
       /\ st.closed /\ st.exec # None =>
            \/ \E j \in DOMAIN ops : ops[j].kind = "end_execution"
            \/ f.closed /\ ~new
       /\ ~f.closed =>
            \A i \in DOMAIN f.pending : f.pending[i].key # Turn =>
              \/ HasPending(st, f.pending[i].span)
              \/ \E j \in DOMAIN ops : Closes(ops[j], f.pending[i].span)
  BY <1>2, <1>3, <1>4, <1>11, <1>12, <1>13 DEF Mapped
<1>15. new => f.closed \/ f.exec = None
  BY <1>13 DEF Opens
<1>16. ~Ended(g, <<id, 0>>)
  <2>1. ASSUME NEW t, ExecOf(g, <<id, 0>>, t) PROVE FALSE
    <3>1. PICK k \in DOMAIN g.hooks :
            <<id, 0>> = <<k, 0>> /\ (k \in DOMAIN g.journal => g.journal[k].prepared)
      BY <2>1 DEF ExecOf
    <3>2. k = id
      BY <3>1
    <3> QED BY <3>1, <3>2
  <2> QED BY <1>1, <2>1 DEF ServerOK, Ended
<1>17. SessionState(h, st, s)
  <2>1. st.exec # None => ExecOf(h, st.exec, s)
    <3>1. CASE new
      BY <1>2, <1>4, <1>14, <3>1 DEF ExecOf
    <3>2. CASE ~new
      BY <1>7, <1>10, <1>14, <3>2 DEF SessionState
    <3> QED BY <3>1, <3>2
  <2>2. Ended(h, st.exec) => st.closed
    <3>1. CASE new
      BY <1>5, <1>14, <1>16, <3>1
    <3>2. CASE ~new
      BY <1>5, <1>10, <1>14, <3>2 DEF SessionState
    <3> QED BY <3>1, <3>2
  <2> QED BY <1>14, <2>1, <2>2 DEF SessionState
<1>18. <<id, 0>> \in g.srv.execs => st.exec = <<id, 0>>
  <2>1. Fresh(g, id, f)
    BY <1>1, <1>2, <1>3 DEF EnvelopesOK
  <2> QED BY <1>13, <1>14, <2>1 DEF Fresh
<1>19. f.exec = None \/ f.exec = st.exec \/ Ended(h, f.exec)
  BY <1>5, <1>10, <1>14, <1>15
<1>20. st.closed /\ st.exec # None =>
         Ended(h, st.exec) \/ \E j \in DOMAIN ops : ops[j].kind = "end_execution"
  BY <1>5, <1>10, <1>14
<1>21. Delivered(h, e)
  <2>1. ASSUME NEW j, Rec(e, j) \in g.applied PROVE FALSE
    <3>1. PICK q \in g.applied : q = Rec(e, j)
      BY <2>1
    <3>2. q.hook = id
      BY <3>1 DEF Rec
    <3> QED BY <1>1, <3>2 DEF Spool
  <2> QED BY <2>1 DEF Delivered
<1>22. TakesOver(h, e, f)
  <2>1. ASSUME NEW x \in Running(g), x.exec = f.exec, HasPending(f, x.id)
        PROVE  \/ x.exec = st.exec /\ HasPending(st, x.id)
               \/ \E j \in DOMAIN ops : Closes(ops[j], x.id)
    <3>1. x \in g.srv.spans /\ x.id[3] = "tool"
      BY <2>1 DEF Running
    <3>2. f.exec # None
      BY <1>1, <2>1, <3>1, ExecIsSome DEF ServerOK
    <3>3. ~Ended(g, f.exec)
      BY <1>1, <2>1 DEF RunningOK
    <3>4. ~f.closed /\ ~new
      BY <1>10, <1>15, <3>2, <3>3
    <3>5. PICK i \in DOMAIN f.pending : f.pending[i].span = x.id
      BY <2>1 DEF HasPending
    <3>6. f.pending[i].key # Turn
      BY <1>10, <3>1, <3>5 DEF SessionState, KeysOK
    <3>7. HasPending(st, x.id) \/ \E j \in DOMAIN ops : Closes(ops[j], x.id)
      BY <1>14, <3>4, <3>5, <3>6
    <3>8. st.exec = f.exec
      BY <1>14, <3>4
    <3> QED BY <2>1, <3>7, <3>8
  <2> QED BY <1>5, <1>11, <1>12, <2>1 DEF TakesOver
<1>23. Current(h, e, f)
  <2>1. NoneBefore(h, e.id) /\ e.id[1] = s
    BY <1>2, <1>6
  <2>2. SessionState(h, e.state, e.id[1]) /\ OpsOK(e.state, e.ops)
    BY <1>11, <1>12, <1>14, <1>17, <2>1
  <2>3. <<e.id, 0>> \in h.srv.execs => e.state.exec = <<e.id, 0>>
    BY <1>11, <1>18
  <2>4. f.exec = None \/ f.exec = e.state.exec \/ Ended(h, f.exec)
    BY <1>11, <1>19
  <2>5. e.state.closed /\ e.state.exec # None =>
          Ended(h, e.state.exec) \/ \E j \in DOMAIN e.ops : e.ops[j].kind = "end_execution"
    BY <1>11, <1>12, <1>20
  <2> QED BY <1>21, <1>22, <2>1, <2>2, <2>3, <2>4, <2>5 DEF Current
<1>24. EnvelopesOK(h)
  <2>1. ASSUME NEW k \in DOMAIN g.journal, k # id, g.journal[k].prepared
        PROVE  Current(h, g.journal[k], g.files[k[1]])
    <3>1. PICK o : o = g.journal[k]
      OBVIOUS
    <3>2. Current(g, o, g.files[k[1]]) /\ o.id = k
      BY <1>1, <2>1, <3>1 DEF EnvelopesOK, Spool
    <3>3. NoneBefore(h, o.id)
      BY <1>6, <3>2 DEF Current
    <3>4. Current(h, o, g.files[k[1]])
      BY <1>5, <1>7, <3>2, <3>3, CurrentStays
    <3> QED BY <3>1, <3>4
  <2>2. ASSUME NEW k \in DOMAIN g.journal, k # id, ~g.journal[k].prepared
        PROVE  Fresh(h, k, g.files[k[1]])
    BY <1>1, <1>6, <2>2 DEF EnvelopesOK, Fresh
  <2>3. Current(h, h.journal[id], h.files[id[1]])
    BY <1>2, <1>3, <1>23
  <2> QED BY <2>1, <2>2, <2>3 DEF EnvelopesOK
<1>25. ServerOK(h)
  BY <1>1, <1>7 DEF ServerOK
<1>26. FilesOK(h)
  <2>1. ASSUME NEW t \in Sessions PROVE SessionState(h, g.files[t], t)
    BY <1>1, <1>5, <1>7, StateStays DEF FilesOK
  <2> QED BY <1>1, <1>5, <1>8, <2>1 DEF FilesOK
<1>27. RunningOK(h)
  BY <1>1, <1>5, <1>8 DEF RunningOK
<1>28. UsedOK(h)
  BY <1>1, <1>5 DEF UsedOK
<1> QED BY <1>24, <1>25, <1>26, <1>27, <1>28 DEF World

\* The prepared state goes to disk.
LEMMA WorldSave ==
  ASSUME NEW g, World(g), NEW h, Spool(h), NEW id \in DOMAIN g.journal,
         g.journal[id].prepared,
         h.files = [g.files EXCEPT ![id[1]] = g.journal[id].state],
         DOMAIN g.files = Sessions,
         h.hooks = g.hooks, h.journal = g.journal, h.srv = g.srv, h.applied = g.applied
  PROVE  World(h)
<1>1. Spool(g) /\ ServerOK(g) /\ FilesOK(g) /\ EnvelopesOK(g) /\ RunningOK(g) /\ UsedOK(g)
  BY DEF World
<1>2. PICK s : s = id[1]
  OBVIOUS
<1>3. PICK e : e = g.journal[id]
  OBVIOUS
<1>4. id \in Ids /\ s \in Sessions /\ e.id = id
  BY <1>1, <1>2, <1>3 DEF Spool, Ids
<1>5. h.files[s] = e.state /\ \A t \in Sessions : t # s => h.files[t] = g.files[t]
  BY <1>2, <1>3, <1>4
<1>6. /\ Running(h) = Running(g)
      /\ \A x : Ended(h, x) <=> Ended(g, x)
      /\ \A sid : ClosedSpan(h, sid) <=> ClosedSpan(g, sid)
  BY SameServer
<1>7. /\ \A x, t : ExecOf(h, x, t) <=> ExecOf(g, x, t)
      /\ \A k : NoneBefore(h, k) <=> NoneBefore(g, k)
      /\ \A t : Busy(h, t) <=> Busy(g, t)
      /\ \A sid, t : WillClose(h, sid, t) <=> WillClose(g, sid, t)
  BY DEF ExecOf, NoneBefore, Busy, WillClose
<1>8. Current(g, e, g.files[s])
  BY <1>1, <1>2, <1>3 DEF EnvelopesOK
<1>9. NoneBefore(g, id)
  BY <1>4, <1>8 DEF Current
<1>10. \A k \in DOMAIN g.journal : k[1] = s /\ NoneBefore(g, k) => k = id
  BY <1>1, <1>2, <1>9, OneEntry
<1>11. SessionState(h, e.state, s)
  <2>1. SessionState(g, e.state, s)
    BY <1>2, <1>4, <1>8 DEF Current
  <2> QED BY <1>6, <1>7, <2>1, StateStays
<1>12. Current(h, e, e.state)
  <2>1. Delivered(h, e)
    BY <1>6, <1>8 DEF Current, Delivered
  <2>2. TakesOver(h, e, e.state)
    BY DEF TakesOver
  <2> QED BY <1>2, <1>4, <1>6, <1>7, <1>8, <1>11, <2>1, <2>2 DEF Current
<1>13. \A k \in DOMAIN g.journal : k[1] \in Sessions
  BY <1>1 DEF Spool, Ids
<1>14. EnvelopesOK(h)
  <2>1. ASSUME NEW k \in DOMAIN g.journal, k # id, g.journal[k].prepared
        PROVE  Current(h, g.journal[k], h.files[k[1]])
    <3>1. PICK o : o = g.journal[k]
      OBVIOUS
    <3>2. Current(g, o, g.files[k[1]]) /\ o.id = k
      BY <1>1, <2>1, <3>1 DEF EnvelopesOK, Spool
    <3>3. NoneBefore(g, k) /\ NoneBefore(h, o.id)
      BY <1>7, <3>2 DEF Current
    <3>4. h.files[k[1]] = g.files[k[1]]
      BY <1>5, <1>10, <1>13, <2>1, <3>3
    <3>5. Current(h, o, g.files[k[1]])
      BY <1>6, <1>7, <3>2, <3>3, CurrentStays
    <3> QED BY <3>1, <3>4, <3>5
  <2>2. ASSUME NEW k \in DOMAIN g.journal, k # id, ~g.journal[k].prepared
        PROVE  Fresh(h, k, h.files[k[1]])
    <3>1. Fresh(g, k, g.files[k[1]])
      BY <1>1, <2>2 DEF EnvelopesOK
    <3>2. CASE k[1] = s
      <4>1. ~NoneBefore(g, k)
        BY <1>10, <2>2, <3>2
      <4> QED BY <3>1, <4>1 DEF Fresh
    <3>3. CASE k[1] # s
      BY <1>5, <1>7, <1>13, <3>1, <3>3 DEF Fresh
    <3> QED BY <3>2, <3>3
  <2>3. Current(h, h.journal[id], h.files[id[1]])
    BY <1>2, <1>3, <1>5, <1>12
  <2> QED BY <2>1, <2>2, <2>3 DEF EnvelopesOK
<1>15. ServerOK(h)
  BY <1>1, <1>7 DEF ServerOK
<1>16. FilesOK(h)
  <2>1. ASSUME NEW t \in Sessions
        PROVE  /\ SessionState(h, h.files[t], t)
               /\ h.files[t].closed /\ h.files[t].exec # None =>
                    Ended(h, h.files[t].exec) \/ Busy(h, t)
    <3>1. CASE t = s
      <4>1. Busy(h, s)
        BY <1>2 DEF Busy
      <4> QED BY <1>5, <1>11, <3>1, <4>1
    <3>2. CASE t # s
      <4>1. h.files[t] = g.files[t]
        BY <1>5, <3>2
      <4>2. SessionState(h, g.files[t], t)
        BY <1>1, <1>6, <1>7, StateStays DEF FilesOK
      <4> QED BY <1>1, <1>6, <1>7, <4>1, <4>2 DEF FilesOK
    <3> QED BY <3>1, <3>2
  <2> QED BY <2>1 DEF FilesOK
<1>17. \A x \in g.srv.execs : x[1][1] \in Sessions /\ x # None
  <2>1. ASSUME NEW x \in g.srv.execs PROVE x[1][1] \in Sessions /\ x # None
    <3>1. PICK k \in DOMAIN g.hooks : x = <<k, 0>>
      BY <1>1 DEF ServerOK
    <3>2. x[1] = k /\ k \in Ids /\ x # None
      BY <1>1, <3>1 DEF Spool
    <3> QED BY <3>2 DEF Ids
  <2> QED BY <2>1
<1>18. RunningOK(h)
  <2>1. ASSUME NEW x \in Running(g)
        PROVE  /\ ~Ended(g, x.exec)
               /\ \/ /\ x.exec = h.files[x.exec[1][1]].exec
                     /\ HasPending(h.files[x.exec[1][1]], x.id)
                  \/ WillClose(g, x.id, x.exec[1][1])
    <3>1. /\ ~Ended(g, x.exec)
          /\ \/ /\ x.exec = g.files[x.exec[1][1]].exec
                /\ HasPending(g.files[x.exec[1][1]], x.id)
             \/ WillClose(g, x.id, x.exec[1][1])
      BY <1>1 DEF RunningOK
    <3>2. x.exec[1][1] \in Sessions
      BY <1>1, <1>17 DEF ServerOK, Running
    <3>3. CASE x.exec[1][1] # s
      BY <1>5, <3>1, <3>2, <3>3
    <3>4. CASE x.exec[1][1] = s
      <4>1. CASE WillClose(g, x.id, x.exec[1][1])
        BY <3>1, <4>1
      <4>2. CASE x.exec = g.files[s].exec /\ HasPending(g.files[s], x.id)
        <5>1. \/ x.exec = e.state.exec /\ HasPending(e.state, x.id)
              \/ \E j \in DOMAIN e.ops : Closes(e.ops[j], x.id)
          BY <1>8, <4>2 DEF Current, TakesOver
        <5>2. CASE x.exec = e.state.exec /\ HasPending(e.state, x.id)
          BY <1>5, <3>1, <3>4, <5>2
        <5>3. CASE \E j \in DOMAIN e.ops : Closes(e.ops[j], x.id)
          <6>1. PICK j \in DOMAIN e.ops : Closes(e.ops[j], x.id)
            BY <5>3
          <6>2. ~ClosedSpan(g, x.id)
            BY <1>1, OpenNotClosed DEF ServerOK
          <6>3. Rec(e, j) \notin g.applied
            BY <1>8, <6>1, <6>2 DEF Current, Delivered, Closes
          <6>4. WillClose(g, x.id, s)
            BY <1>2, <1>3, <6>1, <6>3 DEF WillClose
          <6> QED BY <3>1, <3>4, <6>4
        <5> QED BY <5>1, <5>2, <5>3
      <4> QED BY <3>1, <3>4, <4>1, <4>2
    <3> QED BY <3>3, <3>4
  <2> QED BY <1>6, <1>7, <2>1 DEF RunningOK
<1>19. UsedOK(h)
  <2>1. ASSUME NEW x \in g.srv.execs
        PROVE  x[1] \in DOMAIN g.journal \/ h.files[x[1][1]].exec = x \/ Ended(g, x)
    <3>1. x[1] \in DOMAIN g.journal \/ g.files[x[1][1]].exec = x \/ Ended(g, x)
      BY <1>1 DEF UsedOK
    <3>2. x[1][1] \in Sessions /\ x # None
      BY <1>17
    <3>3. CASE x[1][1] = s
      <4>1. g.files[s].exec = x => e.state.exec = x \/ Ended(g, x)
        BY <1>8, <3>2 DEF Current
      <4> QED BY <1>5, <3>1, <3>3, <4>1
    <3>4. CASE x[1][1] # s
      BY <1>5, <3>1, <3>2, <3>4
    <3> QED BY <3>3, <3>4
  <2> QED BY <1>6, <2>1 DEF UsedOK
<1> QED BY <1>14, <1>15, <1>16, <1>18, <1>19 DEF World

-----------------------------------------------------------------------------
\* Envelopes that differ in what is known of their delivery.
Alike(e, o) ==
  /\ o.id = e.id /\ o.prepared = e.prepared /\ o.state = e.state
  /\ o.ops = e.ops /\ o.nonce = e.nonce

\* The progress or the failure of a delivery is written to the envelope.
LEMMA WorldAlike ==
  ASSUME NEW g, World(g), NEW h, Spool(h),
         DOMAIN h.journal = DOMAIN g.journal,
         \A k \in DOMAIN g.journal : Alike(g.journal[k], h.journal[k]),
         h.hooks = g.hooks, h.files = g.files, h.srv = g.srv, h.applied = g.applied
  PROVE  World(h)
<1>1. Spool(g) /\ ServerOK(g) /\ FilesOK(g) /\ EnvelopesOK(g) /\ RunningOK(g) /\ UsedOK(g)
  BY DEF World
<1>2. /\ Running(h) = Running(g)
      /\ \A x : Ended(h, x) <=> Ended(g, x)
      /\ \A sid : ClosedSpan(h, sid) <=> ClosedSpan(g, sid)
  BY SameServer
<1>3. \A k \in DOMAIN g.journal :
        /\ h.journal[k].prepared = g.journal[k].prepared
        /\ h.journal[k].ops = g.journal[k].ops
        /\ \A j : Rec(h.journal[k], j) = Rec(g.journal[k], j)
  BY DEF Alike, Rec
<1>4. /\ \A x, s : ExecOf(g, x, s) => ExecOf(h, x, s)
      /\ \A k : NoneBefore(h, k) <=> NoneBefore(g, k)
      /\ \A s : Busy(g, s) => Busy(h, s)
      /\ \A sid, s : WillClose(g, sid, s) => WillClose(h, sid, s)
  BY <1>3 DEF ExecOf, NoneBefore, Busy, WillClose
<1>5. EnvelopesOK(h)
  <2>1. ASSUME NEW k \in DOMAIN g.journal, h.journal[k].prepared
        PROVE  Current(h, h.journal[k], h.files[k[1]])
    <3>1. PICK e : e = g.journal[k]
      OBVIOUS
    <3>2. PICK o : o = h.journal[k]
      OBVIOUS
    <3>3. Alike(e, o) /\ \A j : Rec(o, j) = Rec(e, j)
      BY <1>3, <3>1, <3>2
    <3>4. Current(g, e, g.files[k[1]])
      BY <1>1, <1>3, <2>1, <3>1 DEF EnvelopesOK
    <3>5. NoneBefore(h, e.id)
      BY <1>4, <3>4 DEF Current
    <3>6. Current(h, e, g.files[k[1]])
      BY <1>2, <1>4, <3>4, <3>5, CurrentStays
    <3>7. Delivered(h, o) /\ TakesOver(h, o, g.files[k[1]])
      BY <3>3, <3>6 DEF Current, Delivered, TakesOver, Alike
    <3>8. Current(h, o, g.files[k[1]])
      BY <3>3, <3>6, <3>7 DEF Current, Alike
    <3> QED BY <3>2, <3>8
  <2>2. ASSUME NEW k \in DOMAIN g.journal, ~h.journal[k].prepared
        PROVE  Fresh(h, k, h.files[k[1]])
    BY <1>1, <1>3, <1>4, <2>2 DEF EnvelopesOK, Fresh
  <2> QED BY <2>1, <2>2 DEF EnvelopesOK
<1>6. ServerOK(h)
  BY <1>1, <1>4 DEF ServerOK
<1>7. FilesOK(h)
  <2>1. ASSUME NEW t \in Sessions PROVE SessionState(h, g.files[t], t)
    BY <1>1, <1>2, <1>4, StateStays DEF FilesOK
  <2> QED BY <1>1, <1>2, <1>4, <2>1 DEF FilesOK
<1>8. RunningOK(h)
  BY <1>1, <1>2, <1>4 DEF RunningOK
<1>9. UsedOK(h)
  BY <1>1, <1>2 DEF UsedOK
<1> QED BY <1>5, <1>6, <1>7, <1>8, <1>9 DEF World

\* The server answers the next operation of an envelope whose state is on disk.
LEMMA WorldServe ==
  ASSUME NEW g, World(g), NEW h, NEW id \in DOMAIN g.journal,
         NEW e, e = g.journal[id], e.prepared, g.files[id[1]] = e.state,
         NEW n, n = e.next + 1, n \in DOMAIN e.ops,
         NEW op, op = e.ops[n], NEW a, Serves(g.srv, op, a), h.srv = a.srv,
         \/ h.applied = g.applied
         \/ a.result = "ok" /\ h.applied = g.applied \cup {Rec(e, n)},
         h.hooks = g.hooks, h.journal = g.journal, h.files = g.files
  PROVE  World(h)
<1>1. Spool(g) /\ ServerOK(g) /\ FilesOK(g) /\ EnvelopesOK(g) /\ RunningOK(g) /\ UsedOK(g)
  BY DEF World
<1>2. PICK s : s = id[1]
  OBVIOUS
<1>3. id \in Ids /\ s \in Sessions /\ e.id = id /\ g.files[s] = e.state
  BY <1>1, <1>2 DEF Spool, Ids
<1>4. PICK st : st = e.state
  OBVIOUS
<1>5. PICK ops : ops = e.ops
  OBVIOUS
<1>6. Current(g, e, st) /\ SessionState(g, st, s) /\ OpsOK(st, ops) /\ NoneBefore(g, id)
  <2>1. Current(g, e, g.files[id[1]])
    BY <1>1 DEF EnvelopesOK
  <2> QED BY <1>2, <1>3, <1>4, <1>5, <2>1 DEF Current
<1>7. /\ \A x : Ended(g, x) => Ended(h, x)
      /\ \A sid : ClosedSpan(g, sid) => ClosedSpan(h, sid)
      /\ IsServer(h.srv) /\ UniqueSpans(h.srv) /\ h.srv.execs = g.srv.execs
  BY DEF Serves, Ended, ClosedSpan
<1>8. /\ \A x, t : ExecOf(h, x, t) <=> ExecOf(g, x, t)
      /\ \A k : NoneBefore(h, k) <=> NoneBefore(g, k)
      /\ \A t : Busy(h, t) <=> Busy(g, t)
  BY DEF ExecOf, NoneBefore, Busy
<1>9. \A x : Ended(h, x) => \/ Ended(g, x)
                            \/ /\ op.kind = "end_execution" /\ x = st.exec
                               /\ st.closed /\ st.exec # None
  <2>1. op.kind = "end_execution" => op.exec = st.exec /\ st.closed /\ st.exec # None
    BY <1>5, <1>6 DEF OpsOK
  <2> QED BY <2>1 DEF Serves, Ended
<1>10. \A x \in Running(h) :
         \/ x \in Running(g)
         \/ /\ x.exec = st.exec /\ ~st.closed /\ HasPending(st, x.id)
            /\ x.exec \in g.srv.execs
  <2>1. ASSUME NEW x \in Running(h), x \notin Running(g)
        PROVE  /\ x.exec = st.exec /\ ~st.closed /\ HasPending(st, x.id)
               /\ x.exec \in g.srv.execs
    <3>1. x \in h.srv.spans /\ x.status = "RUNNING" /\ x.id[3] = "tool" /\ x \notin g.srv.spans
      BY <2>1 DEF Running
    <3>2. PICK i \in DOMAIN op.spans : op.spans[i].id = x.id /\ op.spans[i].status = x.status
      BY <3>1 DEF Serves
    <3>3. op.kind = "spans" /\ op.exec \in g.srv.execs /\ x.exec = op.exec
      BY <3>1 DEF Serves
    <3>4. ops[n].kind = "spans" /\ n \in DOMAIN ops /\ ops[n] = op
      BY <1>5, <3>3
    <3>5. \A k \in DOMAIN op.spans : op.spans[k].status = "RUNNING" =>
            \/ op.exec = st.exec /\ ~st.closed /\ HasPending(st, op.spans[k].id)
            \/ op.spans[k].id[3] # "tool"
      <4>1. \A k \in DOMAIN ops[n].spans : ops[n].spans[k].status = "RUNNING" =>
              \/ ops[n].exec = st.exec /\ ~st.closed /\ HasPending(st, ops[n].spans[k].id)
              \/ ops[n].spans[k].id[3] # "tool"
        BY <1>6, <3>4, Zenon DEF OpsOK
      <4> QED BY <3>4, <4>1
    <3>6. op.exec = st.exec /\ ~st.closed /\ HasPending(st, op.spans[i].id)
      BY <3>1, <3>2, <3>5
    <3> QED BY <3>2, <3>3, <3>6
  <2> QED BY <2>1
<1>11. /\ \A r \in h.applied : r \in g.applied \/ (a.result = "ok" /\ r = Rec(e, n))
       /\ \A r \in g.applied : r \in h.applied
  OBVIOUS
<1>12. \A k \in DOMAIN g.journal : \A j : Rec(g.journal[k], j) = Rec(e, n) => k = id /\ j = n
  <2>1. ASSUME NEW k \in DOMAIN g.journal, NEW j, Rec(g.journal[k], j) = Rec(e, n)
        PROVE  k = id /\ j = n
    <3>1. g.journal[k].id = k
      BY <1>1 DEF Spool
    <3>2. g.journal[k].id = e.id /\ j = n
      BY <2>1 DEF Rec
    <3> QED BY <1>3, <3>1, <3>2
  <2> QED BY <2>1
<1>13. a.result = "ok" /\ op.kind = "spans" =>
         \A i \in DOMAIN op.spans : op.spans[i].status # "RUNNING" => ClosedSpan(h, op.spans[i].id)
  <2>1. ASSUME NEW i \in DOMAIN op.spans, op.spans[i].status # "RUNNING",
               a.result = "ok", op.kind = "spans"
        PROVE  ClosedSpan(h, op.spans[i].id)
    <3>1. \E y \in a.srv.spans : y.id = op.spans[i].id /\ y.status # "RUNNING"
      BY <2>1 DEF Serves
    <3> QED BY <3>1 DEF ClosedSpan
  <2> QED BY <2>1
<1>14. a.result = "ok" /\ op.kind = "end_execution" => Ended(h, st.exec)
  <2>1. op.kind = "end_execution" => op.exec = st.exec
    BY <1>5, <1>6 DEF OpsOK
  <2> QED BY <2>1 DEF Serves, Ended
<1>15. \A sid, t : WillClose(g, sid, t) => WillClose(h, sid, t) \/ ClosedSpan(h, sid)
  <2>1. ASSUME NEW sid, NEW t, WillClose(g, sid, t), ~ClosedSpan(h, sid)
        PROVE  WillClose(h, sid, t)
    <3>1. PICK k \in DOMAIN g.journal :
            /\ k[1] = t /\ g.journal[k].prepared
            /\ \E j \in DOMAIN g.journal[k].ops :
                 Closes(g.journal[k].ops[j], sid) /\ Rec(g.journal[k], j) \notin g.applied
      BY <2>1 DEF WillClose
    <3>2. PICK j \in DOMAIN g.journal[k].ops :
            Closes(g.journal[k].ops[j], sid) /\ Rec(g.journal[k], j) \notin g.applied
      BY <3>1
    <3>3. Rec(g.journal[k], j) \notin h.applied
      <4>1. SUFFICES ASSUME Rec(g.journal[k], j) \in h.applied PROVE FALSE
        OBVIOUS
      <4>2. a.result = "ok" /\ k = id /\ j = n
        BY <1>11, <1>12, <3>2, <4>1
      <4>3. Closes(op, sid)
        BY <3>2, <4>2
      <4> QED BY <1>13, <2>1, <4>2, <4>3 DEF Closes
    <3> QED BY <3>1, <3>2, <3>3 DEF WillClose
  <2> QED BY <2>1
<1>16. \A t, x : t \in Sessions /\ x = g.files[t].exec /\ x # None /\ x = st.exec => t = s
  <2>1. ASSUME NEW t \in Sessions, g.files[t].exec # None, g.files[t].exec = st.exec
        PROVE  t = s
    <3>1. ExecOf(g, st.exec, t) /\ ExecOf(g, st.exec, s)
      BY <1>1, <1>6, <2>1 DEF FilesOK, SessionState
    <3> QED BY <1>1, <3>1, OneExec
  <2> QED BY <2>1
<1>17. SessionState(h, st, s)
  BY <1>6, <1>8, <1>9, StateStays
<1>18. ASSUME NEW x \in Running(g), op.kind = "end_execution", x.exec = st.exec, st.exec # None
       PROVE  FALSE
  <2>1. /\ \A i \in DOMAIN st.pending : \E k \in 1 .. n - 1 : Closes(ops[k], st.pending[i].span)
        /\ \A k \in DOMAIN ops : ops[k].kind = "spans" => k < n
    BY <1>5, <1>6, <1>18 DEF OpsOK
  <2>2. x.exec[1][1] = s
    BY <1>1, <1>6, <1>18, OneExec DEF SessionState
  <2>3. ~ClosedSpan(g, x.id)
    BY <1>1, OpenNotClosed DEF ServerOK
  <2>4. IsEnvelope(e) /\ \A i \in 1 .. e.next : Rec(e, i) \in g.applied
    BY <1>1 DEF Spool
  <2>5. e.next \in Nat /\ DOMAIN ops = 1 .. Len(ops) /\ Len(ops) \in Nat
    BY <1>5, <2>4, EnvelopeTypes, LenIsNat
  <2>6. ASSUME NEW k \in DOMAIN ops, k < n, Closes(ops[k], x.id) PROVE FALSE
    <3>1. k \in 1 .. e.next
      BY <2>5, <2>6
    <3>2. Rec(e, k) \in g.applied
      BY <2>4, <3>1
    <3> QED BY <1>5, <1>6, <2>3, <2>6, <3>2 DEF Current, Delivered, Closes
  <2>7. \/ x.exec = g.files[s].exec /\ HasPending(g.files[s], x.id)
        \/ WillClose(g, x.id, s)
    BY <1>1, <2>2 DEF RunningOK
  <2>8. CASE HasPending(g.files[s], x.id)
    <3>1. PICK i \in DOMAIN st.pending : st.pending[i].span = x.id
      BY <1>3, <1>4, <2>8 DEF HasPending
    <3>2. PICK k \in 1 .. n - 1 : Closes(ops[k], x.id)
      BY <2>1, <3>1
    <3>3. k \in DOMAIN ops /\ k < n
      BY <1>5, <2>5, <3>2
    <3> QED BY <2>6, <3>2, <3>3
  <2>9. CASE WillClose(g, x.id, s)
    <3>1. PICK k \in DOMAIN g.journal :
            /\ k[1] = s /\ g.journal[k].prepared
            /\ \E j \in DOMAIN g.journal[k].ops : Closes(g.journal[k].ops[j], x.id)
      BY <2>9 DEF WillClose
    <3>2. k = id
      BY <1>1, <1>2, <1>6, <3>1, BusyEntry
    <3>3. PICK j \in DOMAIN ops : Closes(ops[j], x.id)
      BY <1>5, <3>1, <3>2
    <3> QED BY <2>1, <2>6, <3>3 DEF Closes
  <2> QED BY <2>7, <2>8, <2>9
<1>19. Spool(h)
  <2>1. ASSUME NEW r \in h.applied, r.hook \in DOMAIN g.journal PROVE g.journal[r.hook].prepared
    <3>1. CASE r \in g.applied
      BY <1>1, <2>1, <3>1 DEF Spool
    <3>2. CASE r = Rec(e, n)
      BY <1>3, <3>2 DEF Rec
    <3> QED BY <1>11, <3>1, <3>2
  <2>2. \A k \in DOMAIN g.journal : \A i \in 1 .. g.journal[k].next : Rec(g.journal[k], i) \in h.applied
    BY <1>1, <1>11 DEF Spool
  <2> QED BY <1>1, <2>1, <2>2 DEF Spool
<1>20. ServerOK(h)
  <2>1. ASSUME NEW x \in h.srv.spans PROVE x.exec \in h.srv.execs
    <3>1. CASE x \in g.srv.spans
      BY <1>1, <1>7, <3>1 DEF ServerOK
    <3>2. CASE x \notin g.srv.spans
      <4>1. op.exec \in g.srv.execs /\ x.exec = op.exec
        BY <2>1, <3>2 DEF Serves
      <4> QED BY <1>7, <4>1
    <3> QED BY <3>1, <3>2
  <2>2. ASSUME NEW d \in h.srv.ends PROVE \E t \in Sessions : ExecOf(h, d.exec, t)
    <3>1. CASE d \in g.srv.ends
      BY <1>1, <1>8, <3>1 DEF ServerOK
    <3>2. CASE d \notin g.srv.ends
      <4>1. op.kind = "end_execution" /\ d.exec = op.exec
        BY <3>2 DEF Serves
      <4>2. d.exec = st.exec /\ st.exec # None
        BY <1>5, <1>6, <4>1 DEF OpsOK
      <4> QED BY <1>3, <1>6, <1>8, <4>2 DEF SessionState
    <3> QED BY <3>1, <3>2
  <2> QED BY <1>1, <1>7, <2>1, <2>2 DEF ServerOK
<1>21. FilesOK(h)
  <2>1. ASSUME NEW t \in Sessions PROVE SessionState(h, g.files[t], t)
    <3>1. SessionState(g, g.files[t], t)
      BY <1>1 DEF FilesOK
    <3>2. Ended(h, g.files[t].exec) => Ended(g, g.files[t].exec) \/ g.files[t].closed
      BY <1>3, <1>4, <1>9, <1>16
    <3> QED BY <1>8, <3>1, <3>2, StateStays
  <2> QED BY <1>1, <1>7, <1>8, <2>1 DEF FilesOK
<1>22. RunningOK(h)
  <2>1. ASSUME NEW x \in Running(h)
        PROVE  /\ ~Ended(h, x.exec)
               /\ \/ /\ x.exec = g.files[x.exec[1][1]].exec
                     /\ HasPending(g.files[x.exec[1][1]], x.id)
                  \/ WillClose(h, x.id, x.exec[1][1])
    <3>1. CASE x \in Running(g)
      <4>1. /\ ~Ended(g, x.exec)
            /\ \/ /\ x.exec = g.files[x.exec[1][1]].exec
                  /\ HasPending(g.files[x.exec[1][1]], x.id)
               \/ WillClose(g, x.id, x.exec[1][1])
        BY <1>1, <3>1 DEF RunningOK
      <4>2. ~Ended(h, x.exec)
        BY <1>9, <1>18, <3>1, <4>1
      <4>3. ~ClosedSpan(h, x.id)
        BY <1>7, <2>1, OpenNotClosed
      <4> QED BY <1>15, <4>1, <4>2, <4>3
    <3>2. CASE x \notin Running(g)
      <4>1. x.exec = st.exec /\ ~st.closed /\ HasPending(st, x.id) /\ x.exec \in g.srv.execs
        BY <1>10, <3>2
      <4>2. ~Ended(h, x.exec)
        BY <1>17, <4>1 DEF SessionState
      <4>3. st.exec # None
        BY <1>1, <4>1, ExecIsSome
      <4>4. x.exec[1][1] = s
        BY <1>1, <1>6, <4>1, <4>3, OneExec DEF SessionState
      <4> QED BY <1>3, <1>4, <4>1, <4>2, <4>4
    <3> QED BY <3>1, <3>2
  <2> QED BY <2>1 DEF RunningOK
<1>23. UsedOK(h)
  BY <1>1, <1>7 DEF UsedOK
<1>24. Current(h, e, st)
  <2>1. Delivered(h, e)
    <3>1. ASSUME NEW j \in DOMAIN ops, Rec(e, j) \in h.applied
          PROVE  /\ ops[j].kind = "end_execution" => Ended(h, st.exec)
                 /\ ops[j].kind = "spans" =>
                      \A i \in DOMAIN ops[j].spans :
                        ops[j].spans[i].status # "RUNNING" => ClosedSpan(h, ops[j].spans[i].id)
      <4>1. CASE Rec(e, j) \in g.applied
        <5>1. /\ ops[j].kind = "end_execution" => Ended(g, st.exec)
              /\ ops[j].kind = "spans" =>
                   \A i \in DOMAIN ops[j].spans :
                     ops[j].spans[i].status # "RUNNING" => ClosedSpan(g, ops[j].spans[i].id)
          BY <1>4, <1>5, <1>6, <3>1, <4>1 DEF Current, Delivered
        <5> QED BY <1>7, <5>1
      <4>2. CASE Rec(e, j) \notin g.applied
        <5>1. a.result = "ok" /\ Rec(e, j) = Rec(e, n)
          BY <1>11, <3>1, <4>2
        <5>2. j = n /\ ops[j] = op
          BY <1>5, <1>12, <5>1
        <5> QED BY <1>13, <1>14, <5>1, <5>2
      <4> QED BY <4>1, <4>2
    <3> QED BY <1>4, <1>5, <3>1 DEF Delivered
  <2>2. TakesOver(h, e, st)
    BY <1>4 DEF TakesOver
  <2>3. SessionState(h, e.state, e.id[1]) /\ NoneBefore(h, e.id)
    BY <1>2, <1>3, <1>4, <1>6, <1>8, <1>17
  <2> QED BY <1>4, <1>6, <1>7, <2>1, <2>2, <2>3 DEF Current
<1>25. EnvelopesOK(h)
  <2>1. ASSUME NEW k \in DOMAIN g.journal, g.journal[k].prepared, k # id
        PROVE  Current(h, g.journal[k], g.files[k[1]])
    <3>1. PICK o : o = g.journal[k]
      OBVIOUS
    <3>2. Current(g, o, g.files[k[1]]) /\ o.id = k /\ k[1] \in Sessions
      BY <1>1, <2>1, <3>1 DEF EnvelopesOK, Spool, Ids
    <3>3. NoneBefore(g, k) /\ NoneBefore(h, o.id)
      BY <1>8, <3>2 DEF Current
    <3>4. k[1] # s
      BY <1>1, <1>2, <1>6, <2>1, BusyEntry
    <3>5. Ended(h, o.state.exec) => Ended(g, o.state.exec) \/ o.state.closed
      <4>1. SUFFICES ASSUME o.state.exec = st.exec, st.exec # None PROVE FALSE
        BY <1>9
      <4>2. ExecOf(g, st.exec, k[1]) /\ ExecOf(g, st.exec, s)
        BY <1>6, <3>2, <4>1 DEF Current, SessionState
      <4> QED BY <1>1, <3>4, <4>2, OneExec
    <3>6. \A j \in DOMAIN o.ops : Rec(o, j) \in h.applied => Rec(o, j) \in g.applied
      BY <1>11, <1>12, <2>1, <3>1
    <3>7. \A x \in Running(h) :
            x.exec = g.files[k[1]].exec /\ HasPending(g.files[k[1]], x.id) => x \in Running(g)
      <4>1. SUFFICES ASSUME NEW x \in Running(h), x \notin Running(g),
                            x.exec = g.files[k[1]].exec
                     PROVE  FALSE
        OBVIOUS
      <4>2. x.exec = st.exec /\ x.exec # None
        BY <1>1, <1>10, <4>1, ExecIsSome
      <4> QED BY <1>16, <3>2, <3>4, <4>1, <4>2
    <3>8. Current(h, o, g.files[k[1]])
      BY <1>7, <1>8, <3>2, <3>3, <3>5, <3>6, <3>7, CurrentStays
    <3> QED BY <3>1, <3>8
  <2>2. ASSUME NEW k \in DOMAIN g.journal, ~g.journal[k].prepared
        PROVE  Fresh(h, k, g.files[k[1]])
    BY <1>1, <1>7, <1>8, <2>2 DEF EnvelopesOK, Fresh
  <2>3. Current(h, g.journal[id], g.files[id[1]])
    BY <1>4, <1>24
  <2> QED BY <2>1, <2>2, <2>3 DEF EnvelopesOK
<1> QED BY <1>19, <1>20, <1>21, <1>22, <1>23, <1>25 DEF World

\* An envelope that has been delivered is removed.
LEMMA WorldRemove ==
  ASSUME NEW g, World(g), NEW h, Spool(h), NEW id \in DOMAIN g.journal,
         NEW e, e = g.journal[id], e.prepared, g.files[id[1]] = e.state,
         \A j \in DOMAIN e.ops : Rec(e, j) \in g.applied,
         DOMAIN h.journal = DOMAIN g.journal \ {id},
         \A k \in DOMAIN h.journal : h.journal[k] = g.journal[k],
         h.hooks = g.hooks, h.files = g.files, h.srv = g.srv, h.applied = g.applied
  PROVE  World(h) /\ (e.state.closed /\ e.state.exec # None => Ended(h, e.state.exec))
<1>1. Spool(g) /\ ServerOK(g) /\ FilesOK(g) /\ EnvelopesOK(g) /\ RunningOK(g) /\ UsedOK(g)
  BY DEF World
<1>2. PICK s : s = id[1]
  OBVIOUS
<1>3. id \in Ids /\ s \in Sessions /\ e.id = id /\ g.files[s] = e.state
  BY <1>1, <1>2 DEF Spool, Ids
<1>4. Current(g, e, e.state)
  BY <1>1 DEF EnvelopesOK
<1>5. /\ Running(h) = Running(g)
      /\ \A x : Ended(h, x) <=> Ended(g, x)
      /\ \A sid : ClosedSpan(h, sid) <=> ClosedSpan(g, sid)
  BY SameServer
<1>6. e.state.closed /\ e.state.exec # None => Ended(h, e.state.exec)
  BY <1>4, <1>5 DEF Current, Delivered
<1>7. /\ \A x, t : ExecOf(g, x, t) => ExecOf(h, x, t)
      /\ \A k : NoneBefore(g, k) => NoneBefore(h, k)
  BY DEF ExecOf, NoneBefore
<1>8. \A t : Busy(g, t) /\ t # s => Busy(h, t)
  BY <1>2 DEF Busy
<1>9. \A sid, t : WillClose(g, sid, t) => WillClose(h, sid, t)
  <2>1. ASSUME NEW sid, NEW t, WillClose(g, sid, t) PROVE WillClose(h, sid, t)
    <3>1. PICK k \in DOMAIN g.journal :
            /\ k[1] = t /\ g.journal[k].prepared
            /\ \E j \in DOMAIN g.journal[k].ops :
                 Closes(g.journal[k].ops[j], sid) /\ Rec(g.journal[k], j) \notin g.applied
      BY <2>1 DEF WillClose
    <3>2. k # id
      BY <3>1
    <3>3. k \in DOMAIN h.journal /\ h.journal[k] = g.journal[k]
      BY <3>2
    <3> QED BY <3>1, <3>3 DEF WillClose
  <2> QED BY <2>1
<1>10. EnvelopesOK(h)
  <2>1. ASSUME NEW k \in DOMAIN h.journal, h.journal[k].prepared
        PROVE  Current(h, h.journal[k], h.files[k[1]])
    <3>1. PICK o : o = g.journal[k]
      OBVIOUS
    <3>2. h.journal[k] = o /\ k \in DOMAIN g.journal
      BY <3>1
    <3>3. Current(g, o, g.files[k[1]])
      BY <1>1, <2>1, <3>1, <3>2 DEF EnvelopesOK
    <3>4. NoneBefore(h, o.id)
      BY <1>7, <3>3 DEF Current
    <3>5. Current(h, o, g.files[k[1]])
      BY <1>5, <1>7, <3>3, <3>4, CurrentStays
    <3> QED BY <3>2, <3>5
  <2>2. ASSUME NEW k \in DOMAIN h.journal, ~h.journal[k].prepared
        PROVE  Fresh(h, k, h.files[k[1]])
    BY <1>1, <1>7, <2>2 DEF EnvelopesOK, Fresh
  <2> QED BY <2>1, <2>2 DEF EnvelopesOK
<1>11. ServerOK(h)
  BY <1>1, <1>7 DEF ServerOK
<1>12. FilesOK(h)
  <2>1. ASSUME NEW t \in Sessions PROVE SessionState(h, g.files[t], t)
    BY <1>1, <1>5, <1>7, StateStays DEF FilesOK
  <2>2. ASSUME NEW t \in Sessions, g.files[t].closed, g.files[t].exec # None
        PROVE  Ended(h, g.files[t].exec) \/ Busy(h, t)
    <3>1. CASE t = s
      BY <1>3, <1>6, <2>2, <3>1
    <3>2. CASE t # s
      BY <1>1, <1>5, <1>8, <2>2, <3>2 DEF FilesOK
    <3> QED BY <3>1, <3>2
  <2> QED BY <2>1, <2>2 DEF FilesOK
<1>13. RunningOK(h)
  BY <1>1, <1>5, <1>9 DEF RunningOK
<1>14. UsedOK(h)
  <2>1. ASSUME NEW x \in g.srv.execs
        PROVE  x[1] \in DOMAIN h.journal \/ g.files[x[1][1]].exec = x \/ Ended(h, x)
    <3>1. x[1] \in DOMAIN g.journal \/ g.files[x[1][1]].exec = x \/ Ended(g, x)
      BY <1>1 DEF UsedOK
    <3>2. CASE x[1] = id
      <4>1. x = <<id, 0>>
        BY <1>1, <3>2 DEF ServerOK
      <4>2. e.state.exec = x
        BY <1>3, <1>4, <4>1 DEF Current
      <4> QED BY <1>2, <1>3, <3>2, <4>2
    <3>3. CASE x[1] # id
      BY <1>5, <3>1, <3>3
    <3> QED BY <3>2, <3>3
  <2> QED BY <2>1 DEF UsedOK
<1>15. World(h)
  BY <1>10, <1>11, <1>12, <1>13, <1>14 DEF World
<1> QED BY <1>6, <1>15

\* The state of a session whose execution has ended is cleared.
LEMMA WorldClear ==
  ASSUME NEW g, World(g), NEW h, Spool(h), NEW s \in Sessions, DOMAIN g.files = Sessions,
         g.files[s].exec = None \/ Ended(g, g.files[s].exec),
         h.files = [g.files EXCEPT ![s] = NoState],
         h.hooks = g.hooks, h.journal = g.journal, h.srv = g.srv, h.applied = g.applied
  PROVE  World(h)
<1>1. Spool(g) /\ ServerOK(g) /\ FilesOK(g) /\ EnvelopesOK(g) /\ RunningOK(g) /\ UsedOK(g)
  BY DEF World
<1>2. PICK no : no = NoState
  OBVIOUS
<1>3. no.exec = None /\ no.closed = FALSE /\ no.pending = <<>> /\ no.done = {}
  BY <1>2 DEF NoState
<1>4. h.files[s] = no /\ \A t \in Sessions : t # s => h.files[t] = g.files[t]
  BY <1>2
<1>5. /\ Running(h) = Running(g)
      /\ \A x : Ended(h, x) <=> Ended(g, x)
      /\ \A sid : ClosedSpan(h, sid) <=> ClosedSpan(g, sid)
  BY SameServer
<1>6. /\ \A x, t : ExecOf(h, x, t) <=> ExecOf(g, x, t)
      /\ \A k : NoneBefore(h, k) <=> NoneBefore(g, k)
      /\ \A t : Busy(h, t) <=> Busy(g, t)
      /\ \A sid, t : WillClose(h, sid, t) <=> WillClose(g, sid, t)
  BY DEF ExecOf, NoneBefore, Busy, WillClose
<1>7. ~Ended(g, None)
  <2>1. ASSUME NEW t, ExecOf(g, None, t) PROVE FALSE
    BY <1>1, <2>1, OneExec
  <2> QED BY <1>1, <2>1 DEF ServerOK, Ended
<1>8. \A k \in DOMAIN g.journal : k[1] \in Sessions
  BY <1>1 DEF Spool, Ids
<1>9. SessionState(h, no, s)
  <2>1. KeysOK(no)
    BY <1>3 DEF KeysOK
  <2> QED BY <1>3, <1>5, <1>7, <2>1 DEF SessionState
<1>10. \A q, f : Opens(q, f) => Opens(q, no)
  <2>1. \A key : Pending(no, key) = {}
    <3>1. DOMAIN no.pending = {}
      BY <1>3
    <3> QED BY <3>1 DEF Pending
  <2> QED BY <1>3, <2>1 DEF Opens, KnownTool
<1>11. EnvelopesOK(h)
  <2>1. ASSUME NEW k \in DOMAIN g.journal, g.journal[k].prepared
        PROVE  Current(h, g.journal[k], h.files[k[1]])
    <3>1. PICK o : o = g.journal[k]
      OBVIOUS
    <3>2. Current(g, o, g.files[k[1]])
      BY <1>1, <2>1, <3>1 DEF EnvelopesOK
    <3>3. NoneBefore(h, o.id)
      BY <1>6, <3>2 DEF Current
    <3>4. Current(h, o, g.files[k[1]])
      BY <1>5, <1>6, <3>2, <3>3, CurrentStays
    <3>5. CASE k[1] # s
      BY <1>4, <1>8, <3>1, <3>4, <3>5
    <3>6. CASE k[1] = s
      <4>1. TakesOver(h, o, no)
        <5>1. \A x \in Running(g) : x.exec # no.exec
          BY <1>1, <1>3, ExecIsSome DEF Running, ServerOK
        <5> QED BY <1>5, <5>1 DEF TakesOver
      <4>2. Current(h, o, no)
        BY <1>3, <3>4, <4>1 DEF Current
      <4> QED BY <1>4, <3>1, <3>6, <4>2
    <3> QED BY <3>5, <3>6
  <2>2. ASSUME NEW k \in DOMAIN g.journal, ~g.journal[k].prepared
        PROVE  Fresh(h, k, h.files[k[1]])
    <3>1. Fresh(g, k, g.files[k[1]])
      BY <1>1, <2>2 DEF EnvelopesOK
    <3>2. CASE k[1] # s
      BY <1>4, <1>6, <1>8, <3>1, <3>2 DEF Fresh
    <3>3. CASE k[1] = s
      BY <1>4, <1>6, <1>10, <3>1, <3>3 DEF Fresh
    <3> QED BY <3>2, <3>3
  <2> QED BY <2>1, <2>2 DEF EnvelopesOK
<1>12. ServerOK(h)
  BY <1>1, <1>6 DEF ServerOK
<1>13. FilesOK(h)
  <2>1. ASSUME NEW t \in Sessions
        PROVE  /\ SessionState(h, h.files[t], t)
               /\ h.files[t].closed /\ h.files[t].exec # None =>
                    Ended(h, h.files[t].exec) \/ Busy(h, t)
    <3>1. CASE t = s
      BY <1>3, <1>4, <1>9, <3>1
    <3>2. CASE t # s
      <4>1. h.files[t] = g.files[t]
        BY <1>4, <3>2
      <4>2. SessionState(h, g.files[t], t)
        BY <1>1, <1>5, <1>6, StateStays DEF FilesOK
      <4> QED BY <1>1, <1>5, <1>6, <4>1, <4>2 DEF FilesOK
    <3> QED BY <3>1, <3>2
  <2> QED BY <2>1 DEF FilesOK
<1>14. \A x \in g.srv.execs : x[1][1] \in Sessions /\ x # None
  <2>1. ASSUME NEW x \in g.srv.execs PROVE x[1][1] \in Sessions /\ x # None
    <3>1. PICK k \in DOMAIN g.hooks : x = <<k, 0>>
      BY <1>1 DEF ServerOK
    <3>2. x[1] = k /\ k \in Ids /\ x # None
      BY <1>1, <3>1 DEF Spool
    <3> QED BY <3>2 DEF Ids
  <2> QED BY <2>1
<1>15. RunningOK(h)
  <2>1. ASSUME NEW x \in Running(g)
        PROVE  /\ ~Ended(g, x.exec)
               /\ \/ /\ x.exec = h.files[x.exec[1][1]].exec
                     /\ HasPending(h.files[x.exec[1][1]], x.id)
                  \/ WillClose(g, x.id, x.exec[1][1])
    <3>1. /\ ~Ended(g, x.exec)
          /\ \/ /\ x.exec = g.files[x.exec[1][1]].exec
                /\ HasPending(g.files[x.exec[1][1]], x.id)
             \/ WillClose(g, x.id, x.exec[1][1])
      BY <1>1 DEF RunningOK
    <3>2. x.exec[1][1] \in Sessions /\ x.exec # None
      BY <1>1, <1>14 DEF ServerOK, Running
    <3>3. CASE x.exec[1][1] # s
      BY <1>4, <3>1, <3>2, <3>3
    <3>4. CASE x.exec[1][1] = s
      <4>1. x.exec # g.files[s].exec
        BY <3>1, <3>2
      <4> QED BY <3>1, <3>4, <4>1
    <3> QED BY <3>3, <3>4
  <2> QED BY <1>5, <1>6, <2>1 DEF RunningOK
<1>16. UsedOK(h)
  <2>1. ASSUME NEW x \in g.srv.execs
        PROVE  x[1] \in DOMAIN g.journal \/ h.files[x[1][1]].exec = x \/ Ended(g, x)
    <3>1. x[1] \in DOMAIN g.journal \/ g.files[x[1][1]].exec = x \/ Ended(g, x)
      BY <1>1 DEF UsedOK
    <3>2. x[1][1] \in Sessions /\ x # None
      BY <1>14
    <3>3. CASE x[1][1] = s
      BY <3>1, <3>2, <3>3
    <3>4. CASE x[1][1] # s
      BY <1>4, <3>1, <3>2, <3>4
    <3> QED BY <3>3, <3>4
  <2> QED BY <1>5, <2>1 DEF UsedOK
<1> QED BY <1>11, <1>12, <1>13, <1>15, <1>16 DEF World

-----------------------------------------------------------------------------
(***************************************************************************)
(* The view and the workers.                                               *)
(***************************************************************************)
\* Hooks are taken from the script.
CapturedInv == \A id \in Captured : id[2] \in 1 .. Len(script[id[1]])

\* A process delivers from the state that is on disk, and clears that of an
\* execution that has ended.
Saved(g, x) ==
  /\ x.pc \in {"deliver", "record", "clear"} =>
       x.env.id[1] \in Sessions /\ g.files[x.env.id[1]] = x.env.state
  /\ x.pc = "clear" /\ x.env.state.exec # None => Ended(g, x.env.state.exec)

SavedInv == \A p \in Workers : Saved(View, w[p])

NInv == World(View) /\ CapturedInv /\ SavedInv

\* What the view shows.
LEMMA ViewShows ==
  /\ DOMAIN View.hooks = Captured /\ \A id \in Captured : View.hooks[id] = HookOf(id)
  /\ View.journal = journal /\ View.files = files /\ View.srv = srv /\ View.applied = applied
BY DEF View

\* The invariant of the spool, of the view.
LEMMA ViewSpool == IInv /\ CapturedInv => Spool(View)
<1> SUFFICES ASSUME IInv, CapturedInv PROVE Spool(View)
  OBVIOUS
<1>1. PICK g : g = View
  OBVIOUS
<1>2. /\ DOMAIN g.hooks = Captured /\ \A id \in Captured : g.hooks[id] = HookOf(id)
      /\ g.journal = journal /\ g.files = files /\ g.srv = srv /\ g.applied = applied
  BY <1>1, ViewShows
<1>3. ASSUME NEW id \in Captured
      PROVE  /\ id \in Ids /\ <<id, 0>> # None
             /\ g.hooks[id].id = id /\ g.hooks[id].ev \in HookEvents
             /\ g.hooks[id].ev = "pre-tool" => g.hooks[id].tool # Turn
  <2>1. id \in Ids
    BY DEF IInv, LogInv, OrderInv, Captured
  <2>2. PICK s \in Sessions, i \in Nat : id = <<s, i>>
    BY <2>1 DEF Ids
  <2>3. script \in Scripts /\ i \in 1 .. Len(script[s])
    BY <2>2 DEF IInv, LogInv, OrderInv, CapturedInv
  <2>4. PICK x : x = script[s][i]
    OBVIOUS
  <2>5. (x.ev = "pre-tool" => x.tool # Turn) /\ None # <<<<s, i>>, 0>> /\ x.ev \in HookEvents
    BY <2>3, <2>4, KeysAssumption, CollectorAssumption
  <2>6. g.hooks[id] = [id |-> id, ev |-> x.ev, tool |-> x.tool, size |-> x.size,
                       usage |-> x.usage, error |-> x.error]
    BY <1>2, <2>2, <2>4 DEF HookOf
  <2> QED BY <2>1, <2>2, <2>5, <2>6
<1>4. DOMAIN journal \subseteq Captured
  BY DEF IInv, LogInv, JournalInv
<1>5. \A id \in DOMAIN journal :
        /\ journal[id].id = id /\ IsEnvelope(journal[id])
        /\ \A i \in 1 .. journal[id].next : Rec(journal[id], i) \in applied
  BY DEF IInv, LogInv, JournalInv
<1>6. \A r \in applied : r.hook \in DOMAIN journal => journal[r.hook].prepared
  BY DEF IInv, LogInv, AppliedInv, Matches
<1>7. \A s \in Sessions : IsState(files[s])
  BY DEF IInv, PlainInv
<1>8. Spool(g)
  BY <1>2, <1>3, <1>4, <1>5, <1>6, <1>7 DEF Spool
<1> QED BY <1>1, <1>8

\* The view after a step.
LEMMA ViewNext ==
  ASSUME IInv', CapturedInv'
  PROVE  /\ Spool(View')
         /\ DOMAIN View'.hooks = Captured' /\ \A id \in Captured' : View'.hooks[id] = (HookOf(id))'
         /\ View'.journal = journal' /\ View'.files = files' /\ View'.srv = srv'
         /\ View'.applied = applied'
<1>1. (Spool(View))'
  BY ViewSpool, PTL
<1>2. Spool(View')
  BY <1>1
<1> QED BY <1>2 DEF View

\* Hooks that are in the spool already stay as they were.
LEMMA CapturedStays ==
  ASSUME CapturedInv, UNCHANGED <<script, order>>
  PROVE  CapturedInv' /\ Captured' = Captured /\ \A id : (HookOf(id))' = HookOf(id)
BY DEF CapturedInv, Captured, HookOf

\* A process that is not at work with a saved state.
LEMMA SavedIdle ==
  ASSUME NEW g, NEW x, x.pc \notin {"deliver", "record", "clear"}
  PROVE  Saved(g, x)
BY DEF Saved

\* Only the holder of the lock moves.
LEMMA SavedMoves ==
  ASSUME IInv, NEW p \in Workers, lock \in {p, None},
         \A q \in Workers : q # p => w'[q] = w[q],
         Saved(View', w'[p])
  PROVE  SavedInv'
<1>1. ASSUME NEW q \in Workers PROVE Saved(View', w'[q])
  <2>1. CASE q = p
    BY <2>1
  <2>2. CASE q # p
    <3>1. w'[q].pc = "idle"
      BY <2>2, OthersIdle DEF IInv
    <3> QED BY <3>1, SavedIdle
  <2> QED BY <2>1, <2>2
<1> QED BY <1>1 DEF SavedInv

\* Nothing that the view shows changes.
LEMMA SameView ==
  ASSUME CapturedInv, UNCHANGED <<script, order, journal, files, srv, applied>>
  PROVE  View' = View
BY CapturedStays DEF View

\* Steps of the capture that write no envelope.
LEMMA OtherCaptureOrphans ==
  ASSUME NInv, \/ Reconfigure \/ Checkout \/ Reprice \/ UNCHANGED vars
               \/ \E s \in Sessions : RefuseHook(s) \/ HookDies(s)
  PROVE  NInv'
<1>1. UNCHANGED <<script, order, journal, files, w, srv, applied>>
  BY DEF Reconfigure, Checkout, Reprice, RefuseHook, HookDies, Raises, vars
<1>2. View' = View /\ CapturedInv'
  BY <1>1, SameView, CapturedStays DEF NInv
<1> QED BY <1>1, <1>2 DEF NInv, SavedInv

\* Steps of a process that write nothing.
LEMMA QuietOrphans ==
  ASSUME IInv, NInv, NEW p \in Workers,
         \/ StartDrain(p) \/ SkipEntry(p) \/ ReadEntry(p) \/ StartRefused(p)
         \/ PrepareFull(p) \/ RecordFull(p) \/ EndDrain(p) \/ WorkerDies(p)
  PROVE  NInv'
<1>1. UNCHANGED <<script, order, journal, files, srv, applied>>
  BY DEF StartDrain, SkipEntry, ReadEntry, StartRefused, PrepareFull, RecordFull, EndDrain,
         WorkerDies, capture
<1>2. View' = View /\ CapturedInv'
  BY <1>1, SameView, CapturedStays DEF NInv
<1>3. PICK x : x = w[p]
  OBVIOUS
<1>4. DOMAIN w = Workers /\ IsWorker(x) /\ (x.pc # "idle" <=> lock = p)
  BY <1>3 DEF IInv, WorkerInv
<1>5. /\ lock \in {p, None} /\ \A q \in Workers : q # p => w'[q] = w[q]
      /\ w'[p].pc \notin {"deliver", "record", "clear"}
  <2>1. CASE StartDrain(p)
    <3>1. w' = [w EXCEPT ![p] = [Idle EXCEPT !.pc = "next", !.todo = DOMAIN journal]] /\ lock = None
      BY <2>1 DEF StartDrain, LockFree
    <3>2. PICK v : v = [Idle EXCEPT !.pc = "next", !.todo = DOMAIN journal]
      OBVIOUS
    <3>3. v.pc = "next"
      BY <3>2 DEF Idle
    <3> QED BY <1>4, <3>1, <3>2, <3>3
  <2>2. CASE SkipEntry(p)
    <3>1. PICK S, B : w' = [w EXCEPT ![p].todo = S, ![p].blocked = B]
      BY <2>2 DEF SkipEntry
    <3>2. x.pc = "next" /\ lock = p
      BY <1>3, <1>4, <2>2 DEF SkipEntry, Holds
    <3>3. w'[p].pc = "next"
      BY <1>3, <1>4, <3>1, <3>2 DEF IsWorker
    <3> QED BY <1>4, <3>1, <3>2, <3>3
  <2>3. CASE ReadEntry(p)
    <3>1. PICK S, e, pc : w' = [w EXCEPT ![p].todo = S, ![p].env = e, ![p].pc = pc, ![p].git = git]
                          /\ pc \in {"save", "prepare"}
      BY <2>3 DEF ReadEntry, AfterRead
    <3>2. x.pc = "next" /\ lock = p
      BY <1>3, <1>4, <2>3 DEF ReadEntry, Holds
    <3>3. w'[p].pc = pc
      BY <1>3, <1>4, <3>1 DEF IsWorker
    <3> QED BY <1>4, <3>1, <3>2, <3>3
  <2>4. CASE \/ StartRefused(p) \/ PrepareFull(p) \/ RecordFull(p) \/ EndDrain(p)
             \/ WorkerDies(p)
    <3>1. w' = [w EXCEPT ![p] = Idle] /\ x.pc # "idle"
      BY <1>3, <2>4 DEF StartRefused, StartConflicts, Starts, PrepareFull, RecordFull,
                        EndDrain, WorkerDies, Return, Holds
    <3>2. Idle.pc = "idle"
      BY DEF Idle
    <3> QED BY <1>4, <3>1, <3>2
  <2> QED BY <2>1, <2>2, <2>3, <2>4
<1>6. SavedInv'
  BY <1>5, SavedIdle, SavedMoves
<1> QED BY <1>2, <1>6 DEF NInv

\* A hook is captured.
LEMMA EnqueueOrphans ==
  ASSUME IInv, NInv, NEW s \in Sessions, EnqueueHook(s)
  PROVE  NInv'
<1>1. PICK new : new = NextHook(s)
  OBVIOUS
<1>2. /\ DOMAIN journal' = DOMAIN journal \cup {new}
      /\ new \notin Captured /\ (\A id \in Captured : ~Before(new, id))
      /\ (\A id \in DOMAIN journal : journal'[id] = journal[id])
      /\ Captured' = Captured \cup {new}
  BY <1>1, CaptureStep DEF IInv
<1>3. UNCHANGED <<script, w, files, srv, applied>> /\ journal' = Written(NewEnvelope(new))
  BY <1>1 DEF EnqueueHook, Raises
<1>4. IInv'
  BY EnqueueHookKeeps
<1>5. CapturedInv'
  <2>1. new = <<s, pos[s] + 1>> /\ pos[s] < Len(script[s]) /\ pos[s] \in Nat
    BY <1>1 DEF NextHook, EnqueueHook, Raises, IInv, LogInv, OrderInv
  <2>2. Len(script[s]) \in Nat
    BY CollectorAssumption DEF IInv, LogInv, OrderInv
  <2>3. new[2] \in 1 .. Len(script[new[1]])
    BY <2>1, <2>2
  <2> QED BY <1>2, <1>3, <2>3 DEF CapturedInv, NInv
<1>6. PICK g : g = View
  OBVIOUS
<1>7. PICK h : h = View'
  OBVIOUS
<1>8. /\ DOMAIN g.hooks = Captured /\ \A id \in Captured : g.hooks[id] = HookOf(id)
      /\ g.journal = journal /\ g.files = files /\ g.srv = srv /\ g.applied = applied
  BY <1>6, ViewShows
<1>9. /\ DOMAIN h.hooks = Captured' /\ \A id \in Captured' : h.hooks[id] = (HookOf(id))'
      /\ h.journal = journal' /\ h.files = files' /\ h.srv = srv' /\ h.applied = applied'
      /\ Spool(h)
  BY <1>4, <1>5, <1>7, ViewNext
<1>10. \A id : (HookOf(id))' = HookOf(id)
  BY <1>3 DEF HookOf
<1>11. ~journal'[new].prepared
  <2>1. PICK e : e = NewEnvelope(new)
    OBVIOUS
  <2>2. e.id = new /\ e.prepared = FALSE
    BY <2>1 DEF NewEnvelope
  <2> QED BY <1>3, <2>1, <2>2 DEF Written
<1>12. World(h)
  <2>1. \A id \in DOMAIN g.hooks : h.hooks[id] = g.hooks[id] /\ ~Before(new, id)
    BY <1>2, <1>8, <1>9, <1>10
  <2> QED BY <1>2, <1>3, <1>6, <1>8, <1>9, <1>11, <2>1, WorldCapture DEF NInv
<1>13. SavedInv'
  <2>1. ASSUME NEW p \in Workers PROVE Saved(h, w'[p])
    <3>1. Saved(g, w[p])
      BY <1>6 DEF NInv, SavedInv
    <3>2. \A x : Ended(h, x) <=> Ended(g, x)
      BY <1>3, <1>8, <1>9 DEF Ended
    <3>3. h.files = g.files /\ w'[p] = w[p]
      BY <1>3, <1>8, <1>9
    <3> QED BY <3>1, <3>2, <3>3 DEF Saved
  <2> QED BY <1>7, <2>1 DEF SavedInv
<1> QED BY <1>5, <1>7, <1>12, <1>13 DEF NInv

\* The view of a process at work.
LEMMA AtWorkView ==
  ASSUME IInv, NInv, NEW p \in Workers, Active(w[p]),
         NEW x, x = w[p], NEW g, g = View
  PROVE  /\ World(g) /\ Spool(g)
         /\ DOMAIN g.hooks = Captured /\ (\A id \in Captured : g.hooks[id] = HookOf(id))
         /\ g.journal = journal /\ g.files = files /\ g.srv = srv /\ g.applied = applied
         /\ lock = p /\ DOMAIN w = Workers /\ IsWorker(x) /\ DOMAIN g.files = Sessions
         /\ x.env.id \in DOMAIN g.journal /\ g.journal[x.env.id] = x.env
         /\ x.env.id \in Captured /\ x.env.id[1] \in Sessions /\ IsEnvelope(x.env)
         /\ (x.env.prepared <=> x.pc # "prepare") /\ NoneBefore(g, x.env.id)
         /\ Saved(g, x)
<1>1. /\ DOMAIN g.hooks = Captured /\ (\A id \in Captured : g.hooks[id] = HookOf(id))
      /\ g.journal = journal /\ g.files = files /\ g.srv = srv /\ g.applied = applied
  BY ViewShows
<1>2. /\ Holder(x) /\ lock = p /\ DOMAIN w = Workers /\ IsWorker(x)
      /\ x.env.id \in DOMAIN journal /\ journal[x.env.id] = x.env
      /\ IsEnvelope(x.env) /\ x.env.id[1] \in Sessions /\ x.env.id \in Captured
      /\ AllGoneBefore(x.env.id)
  BY AtWork DEF IInv, WorkerInv
<1>3. x.env.prepared <=> x.pc # "prepare"
  BY <1>2 DEF Holder
<1>4. NoneBefore(g, x.env.id)
  BY <1>1, <1>2 DEF NoneBefore, AllGoneBefore, Gone
<1>5. World(g) /\ Spool(g)
  BY DEF NInv, World
<1>6. Saved(g, x)
  BY DEF NInv, SavedInv
<1>7. DOMAIN g.files = Sessions
  BY <1>1 DEF IInv, PlainInv
<1> QED BY <1>1, <1>2, <1>3, <1>4, <1>5, <1>6, <1>7

\* What a hook is mapped to.
LEMMA MapsAt ==
  ASSUME IInv, NInv, NEW p \in Workers, w[p].pc = "prepare",
         NEW x, x = w[p], NEW g, g = View,
         NEW r, r = DispatchHook(HookOf(x.env.id), faults, files[x.env.id[1]], Limit)
  PROVE  Mapped(g.hooks[x.env.id], g.files[x.env.id[1]], r)
<1>1. Active(w[p])
  BY DEF Active
<1>2. /\ World(g) /\ Spool(g)
      /\ DOMAIN g.hooks = Captured /\ (\A id \in Captured : g.hooks[id] = HookOf(id))
      /\ g.files = files /\ x.env.id \in Captured /\ x.env.id[1] \in Sessions
  BY <1>1, AtWorkView
<1>3. PICK q : q = g.hooks[x.env.id]
  OBVIOUS
<1>4. PICK f : f = g.files[x.env.id[1]]
  OBVIOUS
<1>5. q.ev \in HookEvents /\ (q.ev = "pre-tool" => q.tool # Turn) /\ IsState(f)
  BY <1>2, <1>3, <1>4 DEF Spool
<1>6. KeysOK(f)
  BY <1>2, <1>4 DEF World, FilesOK, SessionState
<1>7. r = DispatchHook(q, faults, f, Limit)
  BY <1>2, <1>3, <1>4
<1>8. Mapped(q, f, r)
  BY <1>5, <1>6, <1>7, DispatchMapped
<1> QED BY <1>3, <1>4, <1>8

\* An execution is started.
LEMMA StartExecutionOrphans ==
  ASSUME IInv, NInv, NEW p \in Workers, StartExecution(p)
  PROVE  NInv'
<1>1. PICK x : x = w[p]
  OBVIOUS
<1>2. PICK g : g = View
  OBVIOUS
<1>3. PICK h : h = View'
  OBVIOUS
<1>4. x.pc = "prepare" /\ w[p].pc = "prepare" /\ Active(w[p])
  BY <1>1 DEF StartExecution, Starts, Holds, Active
<1>5. PICK id : id = x.env.id
  OBVIOUS
<1>6. /\ World(g) /\ Spool(g)
      /\ DOMAIN g.hooks = Captured /\ (\A k \in Captured : g.hooks[k] = HookOf(k))
      /\ g.journal = journal /\ g.files = files /\ g.srv = srv /\ g.applied = applied
      /\ lock = p /\ id \in DOMAIN g.journal /\ g.journal[id] = x.env /\ id \in Captured
      /\ ~x.env.prepared /\ NoneBefore(g, id)
  BY <1>1, <1>2, <1>4, <1>5, AtWorkView
<1>7. UNCHANGED <<script, order, journal, files, w, applied>>
  BY DEF StartExecution, capture
<1>8. PICK r : r = DispatchHook(HookOf(id), faults, files[id[1]], Limit)
  OBVIOUS
<1>9. Mapped(g.hooks[id], g.files[id[1]], r)
  BY <1>1, <1>2, <1>4, <1>5, <1>8, MapsAt
<1>10. r.state.exec # g.files[id[1]].exec
  BY <1>1, <1>5, <1>6, <1>8 DEF StartExecution, Starts, StartsExecution, HookAt, StateAt
<1>11. Opens(g.hooks[id], g.files[id[1]])
  BY <1>9, <1>10 DEF Mapped
<1>12. PICK with : srv' = [srv EXCEPT !.execs = @ \cup {<<id, 0>>}, !.git = with]
  <2>1. HookAt(p).id = id
    BY <1>1, <1>5 DEF HookAt, HookOf
  <2>2. ExecutionKey(HookAt(p), faults) = <<id, 0>>
    BY <2>1 DEF ExecutionKey
  <2>3. PICK key : key = ExecutionKey(HookAt(p), faults)
    OBVIOUS
  <2>4. PICK to : to = (key :> w[p].git) @@ srv.git
    OBVIOUS
  <2>5. srv' = [srv EXCEPT !.execs = @ \cup {key}, !.git = to]
    BY <2>3, <2>4 DEF StartExecution
  <2> QED BY <2>2, <2>3, <2>5
<1>13. CapturedInv' /\ Captured' = Captured /\ (\A k : (HookOf(k))' = HookOf(k))
  BY <1>7, CapturedStays DEF NInv
<1>14. h.hooks = g.hooks
  BY <1>2, <1>3, <1>13 DEF View
<1>15. h.journal = journal' /\ h.files = files' /\ h.srv = srv' /\ h.applied = applied'
  BY <1>3 DEF View
<1>16. World(h)
  <2>1. h.srv = [g.srv EXCEPT !.execs = @ \cup {<<id, 0>>}, !.git = with]
    BY <1>6, <1>12, <1>15
  <2>2. /\ World(g) /\ id \in DOMAIN g.journal /\ ~g.journal[id].prepared
        /\ NoneBefore(g, id) /\ Opens(g.hooks[id], g.files[id[1]]) /\ h.hooks = g.hooks
        /\ h.journal = g.journal /\ h.files = g.files /\ h.applied = g.applied
    BY <1>6, <1>7, <1>11, <1>14, <1>15
  <2> QED BY <2>1, <2>2, WorldStart
<1>17. SavedInv'
  <2>1. w'[p].pc = "prepare"
    BY <1>4, <1>7
  <2> QED BY <1>6, <1>7, <2>1, SavedIdle, SavedMoves
<1> QED BY <1>3, <1>13, <1>16, <1>17 DEF NInv

\* A hook is mapped.
LEMMA PrepareHookOrphans ==
  ASSUME IInv, NInv, NEW p \in Workers, PrepareHook(p)
  PROVE  NInv'
<1>1. PICK x : x = w[p]
  OBVIOUS
<1>2. PICK g : g = View
  OBVIOUS
<1>3. PICK h : h = View'
  OBVIOUS
<1>4. x.pc = "prepare" /\ w[p].pc = "prepare" /\ Active(w[p])
  BY <1>1 DEF PrepareHook, Holds, Active
<1>5. PICK id : id = x.env.id
  OBVIOUS
<1>6. /\ World(g) /\ Spool(g) /\ DOMAIN w = Workers /\ IsWorker(x) /\ IsEnvelope(x.env)
      /\ g.journal = journal /\ g.files = files /\ g.srv = srv /\ g.applied = applied
      /\ lock = p /\ id \in DOMAIN g.journal /\ g.journal[id] = x.env
      /\ ~x.env.prepared /\ NoneBefore(g, id)
  BY <1>1, <1>2, <1>4, <1>5, AtWorkView
<1>7. PICK r : r = DispatchHook(HookOf(id), faults, files[id[1]], Limit)
  OBVIOUS
<1>8. Mapped(g.hooks[id], g.files[id[1]], r)
  BY <1>1, <1>2, <1>4, <1>5, <1>7, MapsAt
<1>9. PICK e : e = [x.env EXCEPT !.prepared = TRUE, !.state = r.state, !.ops = r.ops, !.nonce = faults]
  OBVIOUS
<1>10. /\ journal' = Written(e) /\ w' = [w EXCEPT ![p].env = e, ![p].pc = "save"]
       /\ UNCHANGED <<script, order, files, srv, applied>>
  BY <1>1, <1>5, <1>7, <1>9 DEF PrepareHook, PreparedEnvelope, Prepared, capture
<1>11. e.id = id /\ e.prepared /\ e.state = r.state /\ e.ops = r.ops
  <2>1. PICK i, prepared, state, ops, next, permanent, key, nonce :
          x.env = [id |-> i, prepared |-> prepared, state |-> state, ops |-> ops,
                   next |-> next, permanent |-> permanent, key |-> key, nonce |-> nonce]
    BY <1>6 DEF IsEnvelope
  <2>2. PICK old, st, o, n : old = x.env /\ st = r.state /\ o = r.ops /\ n = faults
    OBVIOUS
  <2>3. e = [old EXCEPT !.prepared = TRUE, !.state = st, !.ops = o, !.nonce = n]
    BY <1>9, <2>2
  <2>4. old = [id |-> i, prepared |-> prepared, state |-> state, ops |-> ops,
               next |-> next, permanent |-> permanent, key |-> key, nonce |-> nonce]
    BY <2>1, <2>2
  <2>5. e = [id |-> i, prepared |-> TRUE, state |-> st, ops |-> o,
             next |-> next, permanent |-> permanent, key |-> key, nonce |-> n]
    BY <2>3, <2>4
  <2>6. id = i
    BY <1>5, <2>1
  <2> QED BY <2>2, <2>5, <2>6
<1>12. /\ DOMAIN journal' = DOMAIN journal /\ journal'[id] = e
       /\ \A k \in DOMAIN journal : k # id => journal'[k] = journal[k]
  BY <1>6, <1>10, <1>11 DEF Written
<1>13. CapturedInv' /\ Captured' = Captured /\ (\A k : (HookOf(k))' = HookOf(k))
  BY <1>10, CapturedStays DEF NInv
<1>14. h.hooks = g.hooks
  BY <1>2, <1>3, <1>13 DEF View
<1>15. IInv'
  BY PrepareHookKeeps
<1>16. /\ h.journal = journal' /\ h.files = files' /\ h.srv = srv' /\ h.applied = applied'
       /\ Spool(h)
  BY <1>3, <1>13, <1>15, ViewNext
<1>17. World(h)
  BY <1>6, <1>8, <1>10, <1>11, <1>12, <1>14, <1>16, WorldPrepare
<1>18. SavedInv'
  <2>1. w'[p].pc = "save" /\ \A q \in Workers : q # p => w'[q] = w[q]
    BY <1>1, <1>6, <1>10 DEF IsWorker
  <2> QED BY <1>6, <2>1, SavedIdle, SavedMoves
<1> QED BY <1>3, <1>13, <1>17, <1>18 DEF NInv

\* The state goes to disk.
LEMMA SaveStateOrphans ==
  ASSUME IInv, NInv, NEW p \in Workers, SaveState(p)
  PROVE  NInv'
<1>1. PICK x : x = w[p]
  OBVIOUS
<1>2. PICK g : g = View
  OBVIOUS
<1>3. PICK h : h = View'
  OBVIOUS
<1>4. x.pc = "save" /\ Active(w[p])
  BY <1>1 DEF SaveState, Holds, Active
<1>5. PICK id : id = x.env.id
  OBVIOUS
<1>6. /\ World(g) /\ Spool(g) /\ DOMAIN w = Workers /\ IsWorker(x)
      /\ g.journal = journal /\ g.files = files /\ g.srv = srv /\ g.applied = applied
      /\ lock = p /\ id \in DOMAIN g.journal /\ g.journal[id] = x.env
      /\ x.env.prepared /\ id[1] \in Sessions /\ DOMAIN g.files = Sessions
  BY <1>1, <1>2, <1>4, <1>5, AtWorkView
<1>7. /\ files' = [files EXCEPT ![id[1]] = x.env.state] /\ w' = [w EXCEPT ![p].pc = "deliver"]
      /\ UNCHANGED <<script, order, journal, srv, applied>>
  BY <1>1, <1>5 DEF SaveState, capture
<1>8. CapturedInv' /\ Captured' = Captured /\ (\A k : (HookOf(k))' = HookOf(k))
  BY <1>7, CapturedStays DEF NInv
<1>9. h.hooks = g.hooks
  BY <1>2, <1>3, <1>8 DEF View
<1>10. IInv'
  BY SaveStateKeeps
<1>11. /\ h.journal = journal' /\ h.files = files' /\ h.srv = srv' /\ h.applied = applied'
       /\ Spool(h)
  BY <1>3, <1>8, <1>10, ViewNext
<1>12. World(h)
  <2>1. h.files = [g.files EXCEPT ![id[1]] = g.journal[id].state]
    BY <1>6, <1>7, <1>11
  <2> QED BY <1>6, <1>7, <1>9, <1>11, <2>1, WorldSave
<1>13. SavedInv'
  <2>1. PICK v : v = [pc |-> "deliver", todo |-> x.todo, env |-> x.env, blocked |-> x.blocked,
                    git |-> x.git]
    OBVIOUS
  <2>2. w'[p] = v /\ \A q \in Workers : q # p => w'[q] = w[q]
    BY <1>1, <1>6, <1>7, <2>1 DEF IsWorker
  <2>3. v.pc = "deliver" /\ v.env = x.env
    BY <2>1
  <2>4. h.files[id[1]] = x.env.state
    BY <1>6, <1>7, <1>11
  <2>5. Saved(h, v)
    BY <1>5, <1>6, <2>3, <2>4 DEF Saved
  <2> QED BY <1>3, <1>6, <2>2, <2>5, SavedMoves
<1> QED BY <1>3, <1>8, <1>12, <1>13 DEF NInv

\* The next operation of an envelope, and how the server answers it.
LEMMA ServedAt ==
  ASSUME IInv, NInv, NEW p \in Workers, Undelivered(p),
         NEW x, x = w[p], NEW g, g = View, NEW n, n = x.env.next + 1,
         NEW a, a = Answer(Op(p))
  PROVE  /\ x.env.prepared /\ g.files[x.env.id[1]] = x.env.state /\ n \in DOMAIN x.env.ops
         /\ Serves(g.srv, x.env.ops[n], a) /\ Record(p) = Rec(x.env, n)
<1>1. x.pc = "deliver" /\ Active(w[p]) /\ x.env.next < Len(x.env.ops)
  BY DEF Undelivered, Holds, Active
<1>2. PICK e : e = x.env
  OBVIOUS
<1>3. /\ World(g) /\ Spool(g) /\ g.srv = srv
      /\ e.id \in DOMAIN g.journal /\ g.journal[e.id] = e /\ IsEnvelope(e)
      /\ e.prepared /\ Saved(g, x)
  BY <1>1, <1>2, AtWorkView
<1>4. g.files[e.id[1]] = e.state
  BY <1>1, <1>2, <1>3 DEF Saved
<1>5. n \in DOMAIN e.ops
  <2>1. IsSeq(e.ops) /\ e.next \in Nat
    BY <1>3, EnvelopeTypes
  <2>2. DOMAIN e.ops = 1 .. Len(e.ops) /\ Len(e.ops) \in Nat
    BY <2>1, LenIsNat
  <2> QED BY <1>1, <1>2, <2>1, <2>2
<1>6. OpsOK(e.state, e.ops)
  BY <1>3 DEF World, EnvelopesOK, Current
<1>7. IsServer(srv) /\ UniqueSpans(srv)
  BY <1>3 DEF World, ServerOK
<1>8. PICK op : op = e.ops[n]
  OBVIOUS
<1>9. op.kind \in {"spans", "end_execution", "audit"} /\ (op.kind = "spans" => IsSeq(op.spans))
  BY <1>5, <1>6, <1>8 DEF OpsOK
<1>10. a = Answer(op)
  BY <1>2, <1>8 DEF Op
<1>11. Serves(srv, op, a)
  BY <1>7, <1>9, <1>10, AnswerServes
<1>12. Record(p) = Rec(e, n)
  BY <1>2 DEF Record, Rec
<1> QED BY <1>2, <1>3, <1>4, <1>5, <1>8, <1>11, <1>12

\* The server applies an operation.
LEMMA DeliverOrphans ==
  ASSUME IInv, NInv, NEW p \in Workers, Deliver(p)
  PROVE  NInv'
<1>1. PICK x : x = w[p]
  OBVIOUS
<1>2. PICK g : g = View
  OBVIOUS
<1>3. PICK h : h = View'
  OBVIOUS
<1>4. Undelivered(p) /\ x.pc = "deliver" /\ Active(w[p])
  BY <1>1 DEF Deliver, Undelivered, Holds, Active
<1>5. PICK e : e = x.env
  OBVIOUS
<1>6. PICK id : id = e.id
  OBVIOUS
<1>7. /\ World(g) /\ DOMAIN w = Workers /\ IsWorker(x)
      /\ g.journal = journal /\ g.files = files /\ g.srv = srv /\ g.applied = applied
      /\ lock = p /\ id \in DOMAIN g.journal /\ g.journal[id] = e /\ id[1] \in Sessions
  BY <1>1, <1>2, <1>4, <1>5, <1>6, AtWorkView
<1>8. PICK n : n = e.next + 1
  OBVIOUS
<1>9. PICK a : a = Answer(Op(p))
  OBVIOUS
<1>10. /\ e.prepared /\ g.files[id[1]] = e.state /\ n \in DOMAIN e.ops
       /\ Serves(g.srv, e.ops[n], a) /\ Record(p) = Rec(e, n)
  BY <1>1, <1>2, <1>4, <1>5, <1>6, <1>8, <1>9, ServedAt
<1>11. /\ srv' = a.srv /\ a.result = "ok" /\ applied' = applied \cup {Rec(e, n)}
       /\ w' = [w EXCEPT ![p].pc = "record"]
       /\ UNCHANGED <<script, order, journal, files>>
  BY <1>9, <1>10 DEF Deliver, capture
<1>12. CapturedInv' /\ Captured' = Captured /\ (\A k : (HookOf(k))' = HookOf(k))
  BY <1>11, CapturedStays DEF NInv
<1>13. h.hooks = g.hooks
  BY <1>2, <1>3, <1>12 DEF View
<1>14. h.journal = journal' /\ h.files = files' /\ h.srv = srv' /\ h.applied = applied'
  BY <1>3 DEF View
<1>15. World(h)
  <2>1. PICK op : op = e.ops[n]
    OBVIOUS
  <2>2. Serves(g.srv, op, a)
    BY <1>10, <2>1
  <2>3. /\ h.srv = a.srv /\ h.applied = g.applied \cup {Rec(e, n)}
        /\ h.journal = g.journal /\ h.files = g.files
    BY <1>7, <1>11, <1>14
  <2> QED BY <1>7, <1>8, <1>10, <1>11, <1>13, <2>1, <2>2, <2>3, WorldServe
<1>16. SavedInv'
  <2>1. PICK v : v = [pc |-> "record", todo |-> x.todo, env |-> x.env, blocked |-> x.blocked,
                    git |-> x.git]
    OBVIOUS
  <2>2. w'[p] = v /\ \A q \in Workers : q # p => w'[q] = w[q]
    BY <1>1, <1>7, <1>11, <2>1 DEF IsWorker
  <2>3. v.pc = "record" /\ v.env = e
    BY <1>5, <2>1
  <2>4. h.files[id[1]] = e.state
    BY <1>7, <1>10, <1>11, <1>14
  <2>5. Saved(h, v)
    BY <1>6, <1>7, <2>3, <2>4 DEF Saved
  <2> QED BY <1>3, <1>7, <2>2, <2>5, SavedMoves
<1> QED BY <1>3, <1>12, <1>15, <1>16 DEF NInv

\* A delivery is put on record.
LEMMA RecordDeliveryOrphans ==
  ASSUME IInv, NInv, NEW p \in Workers, RecordDelivery(p)
  PROVE  NInv'
<1>1. PICK x : x = w[p]
  OBVIOUS
<1>2. PICK g : g = View
  OBVIOUS
<1>3. PICK h : h = View'
  OBVIOUS
<1>4. x.pc = "record" /\ Active(w[p])
  BY <1>1 DEF RecordDelivery, Holds, Active
<1>5. PICK o : o = x.env
  OBVIOUS
<1>6. PICK id : id = o.id
  OBVIOUS
<1>7. /\ World(g) /\ DOMAIN w = Workers /\ IsWorker(x) /\ IsEnvelope(o) /\ o.prepared
      /\ g.journal = journal /\ g.files = files /\ g.srv = srv /\ g.applied = applied
      /\ lock = p /\ id \in DOMAIN g.journal /\ g.journal[id] = o /\ id[1] \in Sessions
      /\ Saved(g, x)
  BY <1>1, <1>2, <1>4, <1>5, <1>6, AtWorkView
<1>8. o.next < Len(o.ops)
  BY <1>1, <1>4, <1>5, AtWork DEF Holder
<1>9. PICK e : e = [o EXCEPT !.next = @ + 1, !.permanent = FALSE]
  OBVIOUS
<1>10. /\ journal' = Written(e) /\ w' = [w EXCEPT ![p].env = e, ![p].pc = "deliver"]
       /\ UNCHANGED <<script, order, files, srv, applied>>
  BY <1>1, <1>5, <1>9 DEF RecordDelivery, capture
<1>11. /\ IsEnvelope(e) /\ e.id = o.id /\ e.prepared /\ e.ops = o.ops
       /\ e.next = o.next + 1 /\ e.nonce = o.nonce /\ e.state = o.state
  <2>1. IsEnvelope(o) /\ o.prepared
    BY <1>7
  <2> QED BY <1>8, <1>9, <2>1, DeliveredIs
<1>12. e.prepared = o.prepared
  <2>1. e.prepared \in BOOLEAN /\ o.prepared \in BOOLEAN
    BY <1>7, <1>11, EnvelopeTypes
  <2>2. o.prepared /\ e.prepared
    BY <1>7, <1>11
  <2> QED BY <2>1, <2>2
<1>13. /\ DOMAIN journal' = DOMAIN journal /\ journal'[id] = e
       /\ \A k \in DOMAIN journal : k # id => journal'[k] = journal[k]
  BY <1>6, <1>7, <1>10, <1>11 DEF Written
<1>14. CapturedInv' /\ Captured' = Captured /\ (\A k : (HookOf(k))' = HookOf(k))
  BY <1>10, CapturedStays DEF NInv
<1>15. h.hooks = g.hooks
  BY <1>2, <1>3, <1>14 DEF View
<1>16. IInv'
  BY RecordDeliveryKeeps
<1>17. /\ h.journal = journal' /\ h.files = files' /\ h.srv = srv' /\ h.applied = applied'
       /\ Spool(h)
  BY <1>3, <1>14, <1>16, ViewNext
<1>18. World(h)
  <2>1. \A k \in DOMAIN g.journal : Alike(g.journal[k], h.journal[k])
    BY <1>7, <1>11, <1>12, <1>13, <1>17 DEF Alike
  <2> QED BY <1>7, <1>10, <1>13, <1>15, <1>17, <2>1, WorldAlike
<1>19. SavedInv'
  <2>1. PICK v : v = [pc |-> "deliver", todo |-> x.todo, env |-> e, blocked |-> x.blocked,
                    git |-> x.git]
    OBVIOUS
  <2>2. w'[p] = v /\ \A q \in Workers : q # p => w'[q] = w[q]
    BY <1>1, <1>7, <1>10, <2>1 DEF IsWorker
  <2>3. v.pc = "deliver" /\ v.env = e
    BY <2>1
  <2>4. g.files[id[1]] = o.state
    BY <1>4, <1>5, <1>6, <1>7 DEF Saved
  <2>5. h.files[id[1]] = e.state
    BY <1>7, <1>10, <1>11, <1>17, <2>4
  <2>6. Saved(h, v)
    BY <1>6, <1>7, <1>11, <2>3, <2>5 DEF Saved
  <2> QED BY <1>3, <1>7, <2>2, <2>6, SavedMoves
<1> QED BY <1>3, <1>14, <1>18, <1>19 DEF NInv

\* A failure that is written leaves the envelopes alike.
LEMMA FailedAlike ==
  ASSUME IInv, NEW p \in Workers, Undelivered(p), NEW b, Fail(p, b)
  PROVE  /\ DOMAIN journal' = DOMAIN journal
         /\ \A k \in DOMAIN journal : Alike(journal[k], journal'[k])
<1>1. PICK o : o = w[p].env
  OBVIOUS
<1>2. Active(w[p])
  BY DEF Undelivered, Holds, Active
<1>3. o.id \in DOMAIN journal /\ journal[o.id] = o /\ IsEnvelope(o)
  BY <1>1, <1>2, AtWork
<1>4. PICK key : key = cfg
  OBVIOUS
<1>5. PICK e : e = [o EXCEPT !.permanent = b, !.key = key]
  OBVIOUS
<1>6. Alike(o, e)
  <2>1. PICK i, prepared, state, ops, next, permanent, k, nonce :
          o = [id |-> i, prepared |-> prepared, state |-> state, ops |-> ops,
               next |-> next, permanent |-> permanent, key |-> k, nonce |-> nonce]
    BY <1>3 DEF IsEnvelope
  <2>2. e = [id |-> i, prepared |-> prepared, state |-> state, ops |-> ops,
             next |-> next, permanent |-> b, key |-> key, nonce |-> nonce]
    BY <1>5, <2>1
  <2> QED BY <2>1, <2>2 DEF Alike
<1>7. journal' = IF Fits(e) THEN Written(e) ELSE journal
  BY <1>1, <1>4, <1>5 DEF Fail
<1>8. e.id = o.id
  BY <1>6 DEF Alike
<1>9. CASE Fits(e)
  <2>1. /\ DOMAIN journal' = DOMAIN journal /\ journal'[o.id] = e
        /\ \A k \in DOMAIN journal : k # o.id => journal'[k] = journal[k]
    BY <1>3, <1>7, <1>8, <1>9 DEF Written
  <2>2. ASSUME NEW k \in DOMAIN journal PROVE Alike(journal[k], journal'[k])
    <3>1. CASE k = o.id
      BY <1>3, <1>6, <2>1, <3>1
    <3>2. CASE k # o.id
      BY <2>1, <3>2 DEF Alike
    <3> QED BY <3>1, <3>2
  <2> QED BY <2>1, <2>2
<1>10. CASE ~Fits(e)
  BY <1>7, <1>10 DEF Alike
<1> QED BY <1>9, <1>10

\* An operation is refused, or it fails and may have been applied.
LEMMA FailedOrphans ==
  ASSUME IInv, NInv, NEW p \in Workers, DeliverRefused(p) \/ DeliverFails(p)
  PROVE  NInv'
<1>1. PICK x : x = w[p]
  OBVIOUS
<1>2. PICK g : g = View
  OBVIOUS
<1>3. PICK h : h = View'
  OBVIOUS
<1>4. Undelivered(p) /\ x.pc = "deliver" /\ Active(w[p])
  BY <1>1 DEF DeliverRefused, DeliverFails, Undelivered, Holds, Active
<1>5. PICK e : e = x.env
  OBVIOUS
<1>6. PICK id : id = e.id
  OBVIOUS
<1>7. /\ World(g) /\ DOMAIN w = Workers /\ IsWorker(x)
      /\ g.journal = journal /\ g.files = files /\ g.srv = srv /\ g.applied = applied
      /\ lock = p /\ id \in DOMAIN g.journal /\ g.journal[id] = e
  BY <1>1, <1>2, <1>4, <1>5, <1>6, AtWorkView
<1>8. PICK n : n = e.next + 1
  OBVIOUS
<1>9. PICK a : a = Answer(Op(p))
  OBVIOUS
<1>10. /\ e.prepared /\ g.files[id[1]] = e.state /\ n \in DOMAIN e.ops
       /\ Serves(g.srv, e.ops[n], a) /\ Record(p) = Rec(e, n)
  BY <1>1, <1>2, <1>4, <1>5, <1>6, <1>8, <1>9, ServedAt
<1>11. /\ \/ srv' = srv /\ applied' = applied
          \/ srv' = a.srv /\ applied' = applied
          \/ srv' = a.srv /\ a.result = "ok" /\ applied' = applied \cup {Rec(e, n)}
       /\ UNCHANGED <<script, order, files>>
  <2>1. CASE DeliverRefused(p)
    BY <1>9, <2>1 DEF DeliverRefused, capture
  <2>2. CASE DeliverFails(p)
    <3>1. PICK reached \in Reached(a) :
            /\ srv' = IF reached THEN a.srv ELSE srv
            /\ applied' = IF reached THEN applied \cup {Rec(e, n)} ELSE applied
      BY <1>9, <1>10, <2>2 DEF DeliverFails
    <3>2. reached => a.result = "ok"
      BY <3>1 DEF Reached
    <3>3. UNCHANGED <<script, order, files>>
      BY <2>2 DEF DeliverFails, capture
    <3>4. CASE reached
      BY <3>1, <3>2, <3>3, <3>4
    <3>5. CASE ~reached
      BY <3>1, <3>3, <3>5
    <3> QED BY <3>4, <3>5
  <2> QED BY <2>1, <2>2
<1>12. /\ DOMAIN journal' = DOMAIN journal
       /\ \A k \in DOMAIN journal : Alike(journal[k], journal'[k])
  BY <1>4, FailedAlike DEF DeliverRefused, DeliverFails
<1>13. CapturedInv' /\ Captured' = Captured /\ (\A k : (HookOf(k))' = HookOf(k))
  BY <1>11, CapturedStays DEF NInv
<1>14. h.hooks = g.hooks
  BY <1>2, <1>3, <1>13 DEF View
<1>15. IInv'
  BY DeliverRefusedKeeps, DeliverFailsKeeps
<1>16. /\ h.journal = journal' /\ h.files = files' /\ h.srv = srv' /\ h.applied = applied'
       /\ Spool(h)
  BY <1>3, <1>13, <1>15, ViewNext
<1>17. PICK m : m = [hooks |-> g.hooks, journal |-> g.journal, files |-> g.files,
                     srv |-> h.srv, applied |-> h.applied]
  OBVIOUS
<1>18. /\ m.hooks = g.hooks /\ m.journal = g.journal /\ m.files = g.files
       /\ m.srv = h.srv /\ m.applied = h.applied
  BY <1>17
<1>19. World(m)
  <2>1. CASE srv' = srv /\ applied' = applied
    <3>1. m = g
      BY <1>7, <1>16, <1>17, <1>2, <2>1 DEF View
    <3> QED BY <1>7, <3>1
  <2>2. CASE /\ srv' = a.srv
             /\ applied' = applied \/ (a.result = "ok" /\ applied' = applied \cup {Rec(e, n)})
    <3>1. PICK op : op = e.ops[n]
      OBVIOUS
    <3>2. Serves(g.srv, op, a)
      BY <1>10, <3>1
    <3>3. /\ m.srv = a.srv
          /\ \/ m.applied = g.applied
             \/ a.result = "ok" /\ m.applied = g.applied \cup {Rec(e, n)}
      BY <1>7, <1>16, <1>18, <2>2
    <3> QED BY <1>7, <1>8, <1>10, <1>18, <3>1, <3>2, <3>3, WorldServe
  <2> QED BY <1>11, <2>1, <2>2
<1>20. World(h)
  <2>1. \A k \in DOMAIN m.journal : Alike(m.journal[k], h.journal[k])
    BY <1>7, <1>12, <1>16, <1>18
  <2>2. DOMAIN h.journal = DOMAIN m.journal /\ h.files = m.files
    BY <1>7, <1>11, <1>12, <1>16, <1>18
  <2> QED BY <1>14, <1>16, <1>18, <1>19, <2>1, <2>2, WorldAlike
<1>21. SavedInv'
  <2>1. w'[p].pc \in {"next", "idle"} /\ \A q \in Workers : q # p => w'[q] = w[q]
    <3>1. CASE DeliverRefused(p)
      <4>1. PICK B : w' = [w EXCEPT ![p].pc = "next", ![p].blocked = B]
        BY <3>1 DEF DeliverRefused
      <4> QED BY <1>1, <1>7, <4>1 DEF IsWorker
    <3>2. CASE DeliverFails(p)
      <4>1. w' = [w EXCEPT ![p] = Idle] /\ Idle.pc = "idle"
        BY <3>2 DEF DeliverFails, Return, Idle
      <4> QED BY <1>7, <4>1
    <3> QED BY <3>1, <3>2
  <2> QED BY <1>7, <2>1, SavedIdle, SavedMoves
<1> QED BY <1>3, <1>13, <1>20, <1>21 DEF NInv

\* A delivered envelope is removed.
LEMMA RemoveEntryOrphans ==
  ASSUME IInv, NInv, NEW p \in Workers, RemoveEntry(p)
  PROVE  NInv'
<1>1. PICK x : x = w[p]
  OBVIOUS
<1>2. PICK g : g = View
  OBVIOUS
<1>3. PICK h : h = View'
  OBVIOUS
<1>4. x.pc = "deliver" /\ Active(w[p]) /\ x.env.next = Len(x.env.ops)
  BY <1>1 DEF RemoveEntry, Finished, Holds, Active
<1>5. PICK e : e = x.env
  OBVIOUS
<1>6. PICK id : id = e.id
  OBVIOUS
<1>7. /\ World(g) /\ DOMAIN w = Workers /\ IsWorker(x) /\ IsEnvelope(e) /\ e.prepared
      /\ g.journal = journal /\ g.files = files /\ g.srv = srv /\ g.applied = applied
      /\ lock = p /\ id \in DOMAIN g.journal /\ g.journal[id] = e /\ id[1] \in Sessions
      /\ Saved(g, x) /\ Spool(g)
  BY <1>1, <1>2, <1>4, <1>5, <1>6, AtWorkView
<1>8. g.files[id[1]] = e.state
  BY <1>4, <1>5, <1>6, <1>7 DEF Saved
<1>9. PICK pc : pc = IF e.state.closed THEN "clear" ELSE "next"
  OBVIOUS
<1>10. /\ journal' = [k \in DOMAIN journal \ {id} |-> journal[k]]
       /\ w' = [w EXCEPT ![p].pc = pc]
       /\ UNCHANGED <<script, order, files, srv, applied>>
  BY <1>1, <1>5, <1>6, <1>9 DEF RemoveEntry, capture
<1>11. \A j \in DOMAIN e.ops : Rec(e, j) \in g.applied
  <2>1. IsSeq(e.ops)
    BY <1>7, EnvelopeTypes
  <2>2. DOMAIN e.ops = 1 .. e.next
    BY <1>4, <1>5, <2>1, LenIsNat
  <2> QED BY <1>7, <2>2 DEF Spool
<1>12. CapturedInv' /\ Captured' = Captured /\ (\A k : (HookOf(k))' = HookOf(k))
  BY <1>10, CapturedStays DEF NInv
<1>13. h.hooks = g.hooks
  BY <1>2, <1>3, <1>12 DEF View
<1>14. IInv'
  BY RemoveEntryKeeps
<1>15. /\ h.journal = journal' /\ h.files = files' /\ h.srv = srv' /\ h.applied = applied'
       /\ Spool(h)
  BY <1>3, <1>12, <1>14, ViewNext
<1>16. World(h) /\ (e.state.closed /\ e.state.exec # None => Ended(h, e.state.exec))
  <2>1. /\ DOMAIN h.journal = DOMAIN g.journal \ {id}
        /\ \A k \in DOMAIN h.journal : h.journal[k] = g.journal[k]
    BY <1>7, <1>10, <1>15
  <2>2. h.files = g.files /\ h.srv = g.srv /\ h.applied = g.applied
    BY <1>7, <1>10, <1>15
  <2> QED BY <1>7, <1>8, <1>11, <1>13, <1>15, <2>1, <2>2, WorldRemove
<1>17. SavedInv'
  <2>1. PICK v : v = [pc |-> pc, todo |-> x.todo, env |-> x.env, blocked |-> x.blocked,
                    git |-> x.git]
    OBVIOUS
  <2>2. w'[p] = v /\ \A q \in Workers : q # p => w'[q] = w[q]
    BY <1>1, <1>7, <1>10, <2>1 DEF IsWorker
  <2>3. v.pc = pc /\ v.env = e
    BY <1>5, <2>1
  <2>4. h.files[id[1]] = e.state
    BY <1>7, <1>8, <1>10, <1>15
  <2>5. pc = "clear" => e.state.closed
    BY <1>9
  <2>6. Saved(h, v)
    BY <1>6, <1>7, <1>16, <2>3, <2>4, <2>5 DEF Saved
  <2> QED BY <1>3, <1>7, <2>2, <2>6, SavedMoves
<1> QED BY <1>3, <1>12, <1>16, <1>17 DEF NInv

\* The state of a closed session is cleared.
LEMMA ClearStateOrphans ==
  ASSUME IInv, NInv, NEW p \in Workers, ClearState(p)
  PROVE  NInv'
<1>1. PICK x : x = w[p]
  OBVIOUS
<1>2. PICK g : g = View
  OBVIOUS
<1>3. PICK h : h = View'
  OBVIOUS
<1>4. x.pc = "clear"
  BY <1>1 DEF ClearState, Holds
<1>5. lock = p /\ DOMAIN w = Workers /\ IsWorker(x) /\ DOMAIN files = Sessions
  BY <1>1, <1>4 DEF IInv, WorkerInv, PlainInv
<1>6. PICK s : s = x.env.id[1]
  OBVIOUS
<1>7. /\ World(g) /\ Saved(g, x)
      /\ g.journal = journal /\ g.files = files /\ g.srv = srv /\ g.applied = applied
  BY <1>1, <1>2, ViewShows DEF NInv, SavedInv
<1>8. s \in Sessions /\ (g.files[s].exec = None \/ Ended(g, g.files[s].exec))
  BY <1>4, <1>6, <1>7 DEF Saved
<1>9. /\ files' = [files EXCEPT ![s] = NoState] /\ w' = [w EXCEPT ![p].pc = "next"]
      /\ UNCHANGED <<script, order, journal, srv, applied>>
  BY <1>1, <1>6 DEF ClearState, capture
<1>10. CapturedInv' /\ Captured' = Captured /\ (\A k : (HookOf(k))' = HookOf(k))
  BY <1>9, CapturedStays DEF NInv
<1>11. h.hooks = g.hooks
  BY <1>2, <1>3, <1>10 DEF View
<1>12. IInv'
  BY ClearStateKeeps
<1>13. /\ h.journal = journal' /\ h.files = files' /\ h.srv = srv' /\ h.applied = applied'
       /\ Spool(h)
  BY <1>3, <1>10, <1>12, ViewNext
<1>14. World(h)
  <2>1. h.files = [g.files EXCEPT ![s] = NoState] /\ DOMAIN g.files = Sessions
    BY <1>5, <1>7, <1>9, <1>13
  <2> QED BY <1>7, <1>8, <1>9, <1>11, <1>13, <2>1, WorldClear
<1>15. SavedInv'
  <2>1. w'[p].pc = "next" /\ \A q \in Workers : q # p => w'[q] = w[q]
    BY <1>1, <1>5, <1>9 DEF IsWorker
  <2> QED BY <1>5, <2>1, SavedIdle, SavedMoves
<1> QED BY <1>3, <1>10, <1>14, <1>15 DEF NInv

-----------------------------------------------------------------------------
\* Nothing captured, nothing on disk and nothing on the server.
LEMMA InitOrphans == Init => NInv
<1> SUFFICES ASSUME Init PROVE NInv
  OBVIOUS
<1>1. Captured = {} /\ DOMAIN journal = {}
  BY DEF Init, Captured
<1>2. CapturedInv
  BY <1>1 DEF CapturedInv
<1>3. IInv
  BY InitInv
<1>4. PICK g : g = View
  OBVIOUS
<1>5. /\ Spool(g) /\ DOMAIN g.hooks = {}
      /\ g.journal = journal /\ g.files = files /\ g.srv = srv /\ g.applied = applied
  BY <1>1, <1>2, <1>3, <1>4, ViewSpool, ViewShows
<1>6. PICK none : none = {}
  OBVIOUS
<1>7. g.srv = [execs |-> none, git |-> <<>>, spans |-> none, ends |-> none, audits |-> none]
  BY <1>5, <1>6 DEF Init
<1>8. g.srv.execs = {} /\ g.srv.spans = {} /\ g.srv.ends = {} /\ IsServer(g.srv)
  <2>1. IsServer([execs |-> none, git |-> <<>>, spans |-> none, ends |-> none, audits |-> none])
    BY Zenon DEF IsServer
  <2> QED BY <1>6, <1>7, <2>1
<1>9. Running(g) = {} /\ \A x : ~Ended(g, x)
  BY <1>8 DEF Running, Ended
<1>10. ServerOK(g) /\ RunningOK(g) /\ UsedOK(g)
  BY <1>8, <1>9 DEF ServerOK, RunningOK, UsedOK, UniqueSpans
<1>11. EnvelopesOK(g)
  BY <1>1, <1>5 DEF EnvelopesOK
<1>12. FilesOK(g)
  <2>1. PICK no : no = NoState
    OBVIOUS
  <2>2. no.exec = None /\ no.closed = FALSE /\ no.pending = <<>>
    BY <2>1 DEF NoState
  <2>3. KeysOK(no)
    BY <2>2 DEF KeysOK
  <2>4. \A s \in Sessions : g.files[s] = no
    BY <1>5, <2>1 DEF Init
  <2> QED BY <1>9, <2>2, <2>3, <2>4 DEF FilesOK, SessionState
<1>13. World(g)
  BY <1>5, <1>10, <1>11, <1>12 DEF World
<1>14. SavedInv
  <2>1. \A p \in Workers : w[p].pc = "idle"
    BY DEF Init, Idle
  <2> QED BY <2>1, SavedIdle DEF SavedInv
<1> QED BY <1>2, <1>4, <1>13, <1>14 DEF NInv

\* Every step keeps it.
LEMMA NextOrphans == IInv /\ NInv /\ [Next]_vars => NInv'
<1> SUFFICES ASSUME IInv, NInv, [Next]_vars PROVE NInv'
  OBVIOUS
<1>1. CASE Next
  <2>1. ASSUME NEW s \in Sessions, EnqueueHook(s) \/ RefuseHook(s) \/ HookDies(s) PROVE NInv'
    BY <2>1, EnqueueOrphans, OtherCaptureOrphans
  <2>2. CASE Reconfigure \/ Checkout \/ Reprice
    BY <2>2, OtherCaptureOrphans
  <2>3. ASSUME NEW p \in Workers,
               StartDrain(p) \/ WorkerStep(p) \/ DeliverFails(p) \/ WorkerDies(p)
        PROVE  NInv'
    <3>1. CASE WorkerStep(p)
      BY <3>1, QuietOrphans, StartExecutionOrphans, PrepareHookOrphans, SaveStateOrphans,
         DeliverOrphans, RecordDeliveryOrphans, FailedOrphans, RemoveEntryOrphans,
         ClearStateOrphans DEF WorkerStep
    <3> QED BY <2>3, <3>1, QuietOrphans, FailedOrphans
  <2> QED BY <1>1, <2>1, <2>2, <2>3 DEF Next
<1>2. CASE UNCHANGED vars
  BY <1>2, OtherCaptureOrphans
<1> QED BY <1>1, <1>2

\* NoOrphans, for any number of sessions, hooks, workers and crashes and for hooks
\* in any order: an execution started on the server is used or has ended, although
\* its start is sent before the envelope that names it is written (spool.go:302),
\* and all tool spans of an execution that has ended are closed (mapping.go:730).
THEOREM NothingIsOrphaned == Spec => []NoOrphans
<1>1. NInv => NoOrphans
  <2> SUFFICES ASSUME NInv PROVE NoOrphans
    OBVIOUS
  <2>1. PICK g : g = View
    OBVIOUS
  <2>2. /\ RunningOK(g) /\ UsedOK(g)
        /\ g.journal = journal /\ g.files = files /\ g.srv = srv
    BY <2>1, ViewShows DEF NInv, World
  <2>3. ExecutionsUsed
    BY <2>2 DEF ExecutionsUsed, UsedOK, Ended
  <2>4. ToolsAreClosed
    BY <2>2 DEF ToolsAreClosed, RunningOK, Running, Ended
  <2> QED BY <2>3, <2>4 DEF NoOrphans
<1> QED BY <1>1, InductiveInvariant, InitOrphans, NextOrphans, PTL DEF Spec
=============================================================================

---------------------------- MODULE VerifyProofs ----------------------------
(***************************************************************************)
(* Proofs about AuditVerify, for any number of writers, verifications,     *)
(* tenants and rows and any page size: the verdicts of Verify, VerifyDeep  *)
(* and VerifyOne are exact, Walk misses and repeats no row, and tampering  *)
(* that can be detected is reported.                                       *)
(*                                                                         *)
(* The facts about pages, verdicts and snapshots are lemmas about a set of *)
(* rows R and the record z of one verification; the steps then instantiate *)
(* them with readRows and ver[v].                                          *)
(***************************************************************************)
EXTENDS AuditVerify, AuditChainProofs, FiniteSetTheorems, NaturalsInduction,
        WellFoundedInduction

-----------------------------------------------------------------------------
(* The inductive invariant *)

\* A table, or a replica of it: rows, with unique ids and sequence numbers.
Sound(R) ==
  /\ \A r \in R : IsRow(r)
  /\ \A p, q \in R : p.seq = q.seq \/ p.id = q.id => p = q

\* S is R and, in every tenant, rows after those of R.
Continues(R, S) ==
  /\ R \subseteq S
  /\ \A p \in R, q \in S \ R : p.tenant = q.tenant => p.seq < q.seq

\* The declarative verdict on row r of table R.
BrokenIn(R, r) ==
  \/ r.hash # ComputeHash(r)
  \/ ~IsHead(Below(RowsOf(R, r.tenant), r.seq), r.prev)

SomeBroken(R, t) == \E b \in RowsOf(R, t) : BrokenIn(R, b)

\* The rows verification z is about, the ones it has passed, the ones ahead,
\* and the passed ones that are broken.
InRange(R, z) == {r \in RowsOf(R, z.tenant) : InWindow(r, z.win)}
Passed(R, z) == {r \in InRange(R, z) : r.seq <= z.lastSeq}
Ahead(R, z) == {r \in InRange(R, z) : r.seq > z.lastSeq}
BrokenPassed(R, z) == {r \in Passed(R, z) : BrokenIn(R, r)}

IDs(S) == {r.id : r \in S}

Reported(z) == {z.broken[i].id : i \in DOMAIN z.broken}

Fields == {"pc", "tenant", "mode", "win", "lastSeq", "page", "chunk", "count",
           "valid", "broken", "root", "visible", "after"}

Reports == [id : EventIDs, reason : {"prev_hash", "hash"}]

\* The locals of a verification.
Shape(z) ==
  /\ DOMAIN z = Fields
  /\ z.pc \in {"query", "scan", "one", "done"}
  /\ z.lastSeq \in Int /\ z.chunk \in Nat /\ z.count \in Nat
  /\ z.valid \in BOOLEAN /\ z.after \in BOOLEAN
  /\ z.broken \in Seq(Reports)
  /\ z.valid <=> z.broken = <<>>
  /\ z.pc \in {"query", "scan"} => z.mode # "one"
  /\ z.pc = "one" => z.mode = "one" /\ z.page # {}

\* The page holds rows of the tenant and the window that lie ahead.
PageOK(z) ==
  /\ IsFiniteSet(z.page) /\ Cardinality(z.page) <= PageSize
  /\ \A r \in z.page : IsRow(r) /\ r.tenant = z.tenant /\ InWindow(r, z.win)
                                /\ r.seq > z.lastSeq
  /\ \A p, q \in z.page : p.seq = q.seq => p = q

\* The walk has a position in the table: the page is the next stretch of it,
\* and the count is that of the rows passed.
PositionOK(R, z) ==
  /\ z.lastSeq = -1 \/ \E r \in InRange(R, z) : r.seq = z.lastSeq
  /\ \A r \in InRange(R, z), p \in z.page :
       z.lastSeq < r.seq /\ r.seq <= p.seq => r \in z.page
  /\ z.count = Cardinality(Passed(R, z))

\* A row visible at the start is passed, on the page, or on a later one; there
\* is no later one unless this one was full.
SeenOK(R, z) ==
  /\ \A n \in z.visible : \E r \in InRange(R, z) : r.seq = n
  /\ z.pc = "scan" =>
       \/ z.chunk + Cardinality(z.page) >= PageSize
       \/ \A n \in z.visible : n <= z.lastSeq \/ \E p \in z.page : p.seq = n
  /\ z.pc = "done" => \A n \in z.visible : n <= z.lastSeq

\* The report is about the rows passed: all the broken ones, or the first.
VerdictOK(R, z) ==
  /\ z.mode # "first" => Reported(z) = IDs(BrokenPassed(R, z))
  /\ z.mode = "first" /\ z.valid => BrokenPassed(R, z) = {}
  /\ z.mode = "first" /\ ~z.valid =>
       \E b \in BrokenPassed(R, z) :
         Reported(z) = {b.id} /\ \A q \in BrokenPassed(R, z) : b.seq <= q.seq

\* A verification of tenant t that started after the tampering has a broken row
\* of that tenant to find.
CatchOK(R, z, t) ==
  z.tenant = t =>
    \E b \in RowsOf(R, t) :
      BrokenIn(R, b) /\ (InWindow(b, z.win) => b.seq \in z.visible)

Walk(R, z) ==
  /\ z.page \subseteq R
  /\ z.mode # "one" => PositionOK(R, z) /\ SeenOK(R, z) /\ VerdictOK(R, z)

\* What the record z of a verification is at any time, whether or not the read
\* database has been disturbed since it started.
VerOK(z) ==
  z.pc # "idle" =>
    /\ Shape(z) /\ PageOK(z)
    /\ z.after => tamperSeen
    /\ ~tamperSeen => z.valid
    /\ z.after = tamperSeen => Walk(readRows, z)
    /\ z.after /\ ~tamper.hidden /\ z.mode # "one" =>
         CatchOK(readRows, z, tamper.tenant)

\* The primary: locks, keys and sequence numbers are as AuditChain keeps them
\* and, before the tampering, the chain is; after it, one row is broken for
\* good, unless the tampering is hidden.
PrimaryInv ==
  /\ StoreInv
  /\ tamper = None => IInv
  /\ tamper # None /\ ~tamper.hidden => SomeBroken(rows, tamper.tenant)

\* The read database: a sound table, intact until the tampering reaches it; it
\* lacks at most the latest rows of each tenant, and the tampering.
ReplicaInv ==
  /\ Sound(readRows)
  /\ tamperSeen \in BOOLEAN
  /\ tamperSeen => tamper # None
  /\ tamperSeen \/ tamper = None => Continues(readRows, rows)
  /\ ~tamperSeen => \A t \in Tenants : ChainOK(RowsOf(readRows, t))
  /\ tamperSeen /\ ~tamper.hidden => SomeBroken(readRows, tamper.tenant)

VInv ==
  /\ PrimaryInv
  /\ ReplicaInv
  /\ ver = [v \in Verifiers |-> ver[v]]
  /\ \A v \in Verifiers : VerOK(ver[v])

-----------------------------------------------------------------------------
(* Sets of rows and their order *)

\* A non-empty set of naturals has a least element.
LEMMA LeastOf ==
  ASSUME NEW T, T \subseteq Nat, T # {}
  PROVE  \E x \in T : \A y \in T : x <= y
<1> DEFINE L == OpToRel(<, Nat)
<1>1. IsWellFoundedOn(L, Nat)
  BY NatLessThanWellFounded
<1>2. \A x, y \in Nat : x < y => <<x, y>> \in L
  BY DEF OpToRel
<1> HIDE DEF L
<1>3. PICK x \in T : \A y \in T : ~(<<y, x>> \in L)
  BY <1>1, WFMin
<1>4. ASSUME NEW y \in T PROVE x <= y
  <2>1. x \in Nat /\ y \in Nat
    OBVIOUS
  <2>2. ~(y < x)
    BY <1>2, <1>3, <2>1
  <2> QED BY <2>1, <2>2
<1> QED BY <1>4

\* Sequence numbers come from the table's sequence.
LEMMA SeqRange ==
  ASSUME NEW r, IsRow(r)
  PROVE  r.seq \in Nat /\ 1 <= r.seq /\ r.seq <= MaxSeq /\ MaxSeq - r.seq \in Nat
BY MaxSeqAssumption DEF IsRow

\* A non-empty set of rows has a row with the lowest sequence number.
LEMMA LeastRow ==
  ASSUME NEW S, \A r \in S : IsRow(r), S # {}
  PROVE  \E r \in S : \A q \in S : r.seq <= q.seq
<1> DEFINE T == {r.seq : r \in S}
<1>1. T \subseteq Nat /\ T # {}
  BY SeqRange
<1>2. PICK x \in T : \A y \in T : x <= y
  <2> HIDE DEF T
  <2> QED BY <1>1, LeastOf
<1>3. PICK r \in S : r.seq = x
  OBVIOUS
<1> QED BY <1>2, <1>3

\* A non-empty set of rows has a row with the highest sequence number.
LEMMA GreatestRow ==
  ASSUME NEW S, \A r \in S : IsRow(r), S # {}
  PROVE  \E r \in S : IsLast(S, r)
<1> DEFINE T == {MaxSeq - r.seq : r \in S}
<1>1. T \subseteq Nat /\ T # {}
  BY SeqRange
<1>2. PICK x \in T : \A y \in T : x <= y
  <2> HIDE DEF T
  <2> QED BY <1>1, LeastOf
<1>3. PICK r \in S : x = MaxSeq - r.seq
  OBVIOUS
<1>4. ASSUME NEW q \in S PROVE q.seq <= r.seq
  <2>1. MaxSeq - r.seq <= MaxSeq - q.seq
    BY <1>2, <1>3
  <2> QED BY <2>1, SeqRange, MaxSeqAssumption
<1> QED BY <1>4 DEF IsLast

\* Walk takes the row of the page that is first in sequence order.
LEMMA FirstIs ==
  ASSUME NEW S, \A r \in S : IsRow(r), S # {}
  PROVE  First(S) \in S /\ \A q \in S : First(S).seq <= q.seq
BY LeastRow DEF First

\* A set of rows with distinct sequence numbers is finite.
LEMMA RowsFinite ==
  ASSUME NEW S, \A r \in S : IsRow(r), \A p, q \in S : p.seq = q.seq => p = q
  PROVE  IsFiniteSet(S) /\ Cardinality(S) \in Nat
<1> DEFINE f == [r \in S |-> r.seq]
<1>1. f \in Injection(S, 1 .. MaxSeq)
  <2>1. \A r \in S : r.seq \in 1 .. MaxSeq
    BY DEF IsRow
  <2>2. f \in [S -> 1 .. MaxSeq]
    BY <2>1
  <2>3. \A p, q \in S : f[p] = f[q] => p = q
    OBVIOUS
  <2> HIDE DEF f
  <2> QED BY <2>2, <2>3 DEF Injection, IsInjective
<1>2. IsFiniteSet(1 .. MaxSeq)
  BY FS_Interval, MaxSeqAssumption
<1>3. IsFiniteSet(S)
  BY <1>1, <1>2, FS_Injection
<1> QED BY <1>3, FS_CardinalityType

\* What lastHashTx and Previous return is the head, and nothing else is.
LEMMA LastHashExact ==
  ASSUME NEW S, \A r \in S : IsRow(r), \A p, q \in S : p.seq = q.seq => p = q, NEW h
  PROVE  LastHash(S) = h <=> IsHead(S, h)
<1>1. CASE S = {}
  BY <1>1 DEF LastHash, IsHead
<1>2. CASE S # {}
  <2>1. PICK r \in S : IsLast(S, r)
    BY <1>2, GreatestRow
  <2>2. \A q \in S : IsLast(S, q) => q = r
    <3> SUFFICES ASSUME NEW q \in S, IsLast(S, q) PROVE q = r
      OBVIOUS
    <3>1. q.seq <= r.seq /\ r.seq <= q.seq
      BY <2>1 DEF IsLast
    <3>2. q.seq \in Nat /\ r.seq \in Nat
      BY SeqRange
    <3> QED BY <3>1, <3>2
  <2>3. (CHOOSE q \in S : IsLast(S, q)) = r
    BY <2>1, <2>2
  <2>4. LastHash(S) = r.hash
    BY <1>2, <2>3 DEF LastHash
  <2>5. IsHead(S, h) <=> h = r.hash
    BY <1>2, <2>1, <2>2 DEF IsHead
  <2> QED BY <2>4, <2>5
<1> QED BY <1>1, <1>2

-----------------------------------------------------------------------------
(* Pages *)

\* A page is a finite initial stretch of what the query selects from, of at
\* most PageSize rows; a page with fewer rows is all of it.
LEMMA PageIs ==
  ASSUME NEW S, \A r \in S : IsRow(r), \A p, q \in S : p.seq = q.seq => p = q
  PROVE  /\ Page(S) \subseteq S
         /\ IsFiniteSet(Page(S)) /\ Cardinality(Page(S)) \in Nat
         /\ Cardinality(Page(S)) <= PageSize
         /\ \A r \in S, p \in Page(S) : r.seq <= p.seq => r \in Page(S)
         /\ Page(S) = S \/ Cardinality(Page(S)) >= PageSize
<1> DEFINE B(r) == Below(S, r.seq)
<1>1. \A r \in S : r.seq \in Nat
  BY SeqRange
<1>2. IsFiniteSet(S)
  BY RowsFinite
<1>3. ASSUME NEW r \in S
      PROVE  IsFiniteSet(B(r)) /\ Cardinality(B(r)) \in Nat
  <2>1. B(r) \in SUBSET S
    BY DEF Below
  <2> HIDE DEF B
  <2> QED BY <1>2, <2>1, FS_Subset, FS_CardinalityType
<1>4. ASSUME NEW r \in S, NEW p \in S, r.seq <= p.seq
      PROVE  Cardinality(B(r)) <= Cardinality(B(p))
  <2>1. B(r) \in SUBSET B(p)
    BY <1>1, <1>4 DEF Below
  <2>2. IsFiniteSet(B(p))
    BY <1>3
  <2> HIDE DEF B
  <2> QED BY <2>1, <2>2, FS_Subset
<1>5. \A r \in S : r \in Page(S) <=> Cardinality(B(r)) < PageSize
  BY DEF Page
<1>6. Page(S) \in SUBSET S
  BY DEF Page
<1>7. IsFiniteSet(Page(S)) /\ Cardinality(Page(S)) \in Nat
  BY <1>2, <1>6, FS_Subset, FS_CardinalityType
<1> HIDE DEF B
<1>8. \A r \in S, p \in Page(S) : r.seq <= p.seq => r \in Page(S)
  BY <1>3, <1>4, <1>5, <1>6, PageAssumption
<1>9. Cardinality(Page(S)) <= PageSize
  <2>1. CASE Page(S) = {}
    BY <2>1, FS_EmptySet, PageAssumption
  <2>2. CASE Page(S) # {}
    <3>1. PICK r \in Page(S) : IsLast(Page(S), r)
      BY <1>6, <2>2, GreatestRow
    <3>2. r \in S /\ Cardinality(B(r)) < PageSize /\ r \notin B(r)
      BY <1>1, <1>5, <1>6 DEF B, Below
    <3>3. Page(S) \in SUBSET (B(r) \cup {r})
      <4> SUFFICES ASSUME NEW q \in Page(S), q # r PROVE q \in B(r)
        OBVIOUS
      <4>1. q \in S /\ q.seq <= r.seq /\ q.seq # r.seq
        BY <1>6, <3>1, <3>2 DEF IsLast
      <4> QED BY <1>1, <3>2, <4>1 DEF B, Below
    <3>4. /\ IsFiniteSet(B(r) \cup {r})
          /\ Cardinality(B(r) \cup {r}) = Cardinality(B(r)) + 1
      BY <1>3, <3>2, FS_AddElement
    <3>5. Cardinality(Page(S)) <= Cardinality(B(r) \cup {r})
      BY <3>3, <3>4, FS_Subset
    <3> QED BY <1>3, <1>7, <3>2, <3>4, <3>5, PageAssumption
  <2> QED BY <2>1, <2>2
<1>10. ASSUME Page(S) # S PROVE Cardinality(Page(S)) >= PageSize
  <2>1. S \ Page(S) # {} /\ \A r \in S \ Page(S) : IsRow(r)
    BY <1>6, <1>10
  <2>2. PICK r \in S \ Page(S) : \A q \in S \ Page(S) : r.seq <= q.seq
    BY <2>1, LeastRow
  <2>3. B(r) \in SUBSET Page(S)
    <3> SUFFICES ASSUME NEW q \in B(r), q \notin Page(S) PROVE FALSE
      OBVIOUS
    <3>1. q \in S /\ q.seq < r.seq /\ r.seq <= q.seq
      BY <2>2 DEF B, Below
    <3> QED BY <1>1, <3>1
  <2>4. Cardinality(B(r)) <= Cardinality(Page(S))
    BY <1>7, <2>3, FS_Subset
  <2>5. ~(Cardinality(B(r)) < PageSize) /\ Cardinality(B(r)) \in Nat
    BY <1>3, <1>5
  <2> QED BY <1>7, <2>4, <2>5, PageAssumption
<1> QED BY <1>6, <1>7, <1>8, <1>9, <1>10

-----------------------------------------------------------------------------
(* Snapshots and verdicts *)

\* Rows appended later are not below a row that was there before.
LEMMA SameBelow ==
  ASSUME NEW R, NEW S, Sound(R), Sound(S), Continues(R, S), NEW r \in R
  PROVE  /\ Below(RowsOf(S, r.tenant), r.seq) = Below(RowsOf(R, r.tenant), r.seq)
         /\ BrokenIn(S, r) <=> BrokenIn(R, r)
<1>1. ASSUME NEW q \in S, q.tenant = r.tenant, q.seq < r.seq PROVE q \in R
  <2>1. q.seq \in Nat /\ r.seq \in Nat
    BY SeqRange DEF Sound
  <2>2. q \notin R => r.seq < q.seq
    BY <1>1 DEF Continues
  <2> QED BY <1>1, <2>1, <2>2
<1>2. Below(RowsOf(S, r.tenant), r.seq) = Below(RowsOf(R, r.tenant), r.seq)
  BY <1>1 DEF Below, RowsOf, Continues
<1> QED BY <1>2 DEF BrokenIn

\* Verify, VerifyDeep and VerifyOne find a row broken exactly when it is.
LEMMA ReasonIs ==
  ASSUME NEW R, Sound(R), NEW e \in R, NEW mode
  PROVE  LET reason == BrokenReason(RowsOf(R, e.tenant), e, mode) IN
           /\ reason = "none" <=> ~BrokenIn(R, e)
           /\ reason \in {"none", "prev_hash", "hash"}
<1> DEFINE B == Below(RowsOf(R, e.tenant), e.seq)
<1>1. /\ \A r \in B : IsRow(r)
      /\ \A p, q \in B : p.seq = q.seq => p = q
  BY DEF Sound, Below, RowsOf
<1>2. ExpectedPrev(RowsOf(R, e.tenant), e) = e.prev <=> IsHead(B, e.prev)
  <2>1. LastHash(B) = e.prev <=> IsHead(B, e.prev)
    <3> HIDE DEF B
    <3> QED BY <1>1, LastHashExact
  <2> QED BY <2>1 DEF ExpectedPrev
<1> HIDE DEF B
<1> DEFINE linked == ExpectedPrev(RowsOf(R, e.tenant), e) = e.prev
           digest == ComputeHash(e) = e.hash
<1>3. BrokenIn(R, e) <=> ~(linked /\ digest)
  BY <1>2 DEF BrokenIn, B
<1>4. CASE linked /\ digest
  <2>1. BrokenReason(RowsOf(R, e.tenant), e, mode) = "none"
    BY <1>4 DEF BrokenReason
  <2> QED BY <1>3, <1>4, <2>1
<1>5. CASE ~linked /\ (digest \/ mode # "deep")
  <2>1. BrokenReason(RowsOf(R, e.tenant), e, mode) = "prev_hash"
    BY <1>5 DEF BrokenReason
  <2> QED BY <1>3, <1>5, <2>1
<1>6. CASE ~(linked /\ digest) /\ ~(~linked /\ (digest \/ mode # "deep"))
  <2>1. BrokenReason(RowsOf(R, e.tenant), e, mode) = "hash"
    BY <1>6 DEF BrokenReason
  <2> QED BY <1>3, <1>6, <2>1
<1> QED BY <1>4, <1>5, <1>6

\* No row of an intact chain is broken.
LEMMA IntactNotBroken ==
  ASSUME NEW R, NEW r \in R, ChainOK(RowsOf(R, r.tenant))
  PROVE  ~BrokenIn(R, r)
<1>1. r \in RowsOf(R, r.tenant)
  BY DEF RowsOf
<1> QED BY <1>1 DEF ChainOK, BrokenIn

\* The rows a verification is about, a page of them and those it has passed are
\* sets the lemmas about rows apply to.
LEMMA RangeIs ==
  ASSUME NEW R, Sound(R), NEW z
  PROVE  /\ \A r \in InRange(R, z) : /\ r \in R /\ IsRow(r) /\ r.seq \in Nat
                                     /\ r.seq >= 1 /\ r.tenant = z.tenant
         /\ \A p, q \in InRange(R, z) : p.seq = q.seq => p = q
         /\ IsFiniteSet(Passed(R, z)) /\ Cardinality(Passed(R, z)) \in Nat
         /\ Passed(R, z) \subseteq InRange(R, z)
<1>1. /\ \A r \in InRange(R, z) : r \in R /\ IsRow(r) /\ r.tenant = z.tenant
      /\ \A p, q \in InRange(R, z) : p.seq = q.seq => p = q
      /\ Passed(R, z) \subseteq InRange(R, z)
  BY DEF Sound, InRange, RowsOf, Passed
<1>2. \A r \in InRange(R, z) : r.seq \in Nat /\ r.seq >= 1
  BY <1>1, SeqRange
<1>3. IsFiniteSet(Passed(R, z)) /\ Cardinality(Passed(R, z)) \in Nat
  BY <1>1, RowsFinite
<1> QED BY <1>1, <1>2, <1>3

-----------------------------------------------------------------------------
(* One verification *)

\* What no step of a verification changes.
SameRequest(z, y) ==
  /\ y.tenant = z.tenant /\ y.mode = z.mode /\ y.win = z.win
  /\ y.visible = z.visible /\ y.after = z.after

\* Verification z passed row e, the first of its page, and became y.
Moves(z, y, e) ==
  /\ SameRequest(z, y)
  /\ y.page = z.page \ {e} /\ y.lastSeq = e.seq
  /\ y.chunk = z.chunk + 1 /\ y.count = z.count + 1

\* Rows that reach the read database during a walk are ahead of it.
LEMMA GrowWalk ==
  ASSUME NEW R, NEW S, Sound(R), Sound(S), Continues(R, S),
         NEW z, PageOK(z), Walk(R, z)
  PROVE  Walk(S, z)
<1>1. z.page \subseteq S
  BY DEF Walk, Continues
<1>2. SUFFICES ASSUME z.mode # "one"
               PROVE  PositionOK(S, z) /\ SeenOK(S, z) /\ VerdictOK(S, z)
  BY <1>1 DEF Walk
<1>3. PositionOK(R, z) /\ SeenOK(R, z) /\ VerdictOK(R, z)
  BY <1>2 DEF Walk
<1>4. InRange(R, z) \subseteq InRange(S, z)
  BY DEF InRange, RowsOf, Continues
<1>5. ASSUME NEW r \in InRange(S, z), r \notin InRange(R, z), NEW q \in R, q.tenant = z.tenant
      PROVE  q.seq < r.seq
  BY <1>5 DEF InRange, RowsOf, Continues
<1>6. /\ \A r \in InRange(S, z) : r.seq \in Nat /\ r.seq >= 1
      /\ \A q \in R : q.seq \in Nat
  BY RangeIs, SeqRange DEF Sound
<1>7. Passed(S, z) = Passed(R, z)
  <2> SUFFICES ASSUME NEW r \in InRange(S, z), r \notin InRange(R, z), r.seq <= z.lastSeq
               PROVE  FALSE
    BY <1>4 DEF Passed
  <2>1. CASE z.lastSeq = -1
    BY <1>6, <2>1
  <2>2. ASSUME NEW q \in InRange(R, z), q.seq = z.lastSeq PROVE FALSE
    <3>1. q \in R /\ q.tenant = z.tenant
      BY RangeIs
    <3> QED BY <1>5, <1>6, <2>2, <3>1
  <2> QED BY <1>3, <2>1, <2>2 DEF PositionOK
<1>8. PositionOK(S, z)
  <2>1. z.lastSeq = -1 \/ \E r \in InRange(S, z) : r.seq = z.lastSeq
    BY <1>3, <1>4 DEF PositionOK
  <2>2. ASSUME NEW r \in InRange(S, z), NEW p \in z.page, z.lastSeq < r.seq, r.seq <= p.seq
        PROVE  r \in z.page
    <3>1. p \in R /\ p.tenant = z.tenant
      BY DEF Walk, PageOK
    <3>2. r \in InRange(R, z)
      BY <1>5, <1>6, <2>2, <3>1
    <3> QED BY <1>3, <2>2, <3>2 DEF PositionOK
  <2>3. z.count = Cardinality(Passed(S, z))
    BY <1>3, <1>7 DEF PositionOK
  <2> QED BY <2>1, <2>2, <2>3 DEF PositionOK
<1>9. SeenOK(S, z)
  BY <1>3, <1>4 DEF SeenOK
<1>10. VerdictOK(S, z)
  <2>1. \A r \in Passed(R, z) : BrokenIn(S, r) <=> BrokenIn(R, r)
    BY RangeIs, SameBelow
  <2>2. BrokenPassed(S, z) = BrokenPassed(R, z)
    BY <1>7, <2>1 DEF BrokenPassed
  <2> QED BY <1>3, <2>2 DEF VerdictOK
<1> QED BY <1>8, <1>9, <1>10

\* A broken row stays broken, and visible.
LEMMA GrowBroken ==
  ASSUME NEW R, NEW S, Sound(R), Sound(S), Continues(R, S), NEW t
  PROVE  /\ SomeBroken(R, t) => SomeBroken(S, t)
         /\ \A z : CatchOK(R, z, t) => CatchOK(S, z, t)
<1>1. ASSUME NEW b \in RowsOf(R, t) PROVE b \in RowsOf(S, t) /\ (BrokenIn(R, b) => BrokenIn(S, b))
  BY SameBelow DEF RowsOf, Continues
<1> QED BY <1>1 DEF SomeBroken, CatchOK

\* The next page of a walk.
LEMMA QueryWalk ==
  ASSUME NEW R, Sound(R), NEW z, Shape(z), z.pc = "query", NEW y, SameRequest(z, y),
         y.pc = "scan", y.chunk = 0, y.page = Page(Ahead(R, z)), y.lastSeq = z.lastSeq,
         y.count = z.count, y.valid = z.valid, y.broken = z.broken
  PROVE  PageOK(y) /\ (Walk(R, z) => Walk(R, y))
<1> DEFINE A == Ahead(R, z)
<1>1. /\ \A r \in A : IsRow(r) /\ r \in InRange(R, z) /\ r.seq > z.lastSeq
      /\ \A p, q \in A : p.seq = q.seq => p = q
  BY RangeIs DEF Ahead
<1>2. \A r \in InRange(R, z) : r.seq > z.lastSeq => r \in A
  BY DEF Ahead
<1> HIDE DEF A
<1>3. /\ Page(A) \subseteq A
      /\ IsFiniteSet(Page(A)) /\ Cardinality(Page(A)) \in Nat
      /\ Cardinality(Page(A)) <= PageSize
      /\ \A r \in A, p \in Page(A) : r.seq <= p.seq => r \in Page(A)
      /\ Page(A) = A \/ Cardinality(Page(A)) >= PageSize
  BY <1>1, PageIs
<1>4. y.page = Page(A)
  BY DEF A
<1>5. \A r \in InRange(R, z) : r \in R /\ r.tenant = z.tenant /\ InWindow(r, z.win)
  BY DEF InRange, RowsOf
<1>6. PageOK(y)
  <2>1. \A r \in y.page : IsRow(r) /\ r.tenant = y.tenant /\ InWindow(r, y.win)
                                   /\ r.seq > y.lastSeq
    BY <1>1, <1>3, <1>4, <1>5 DEF SameRequest
  <2>2. \A p, q \in y.page : p.seq = q.seq => p = q
    BY <1>1, <1>3, <1>4
  <2> QED BY <1>3, <1>4, <2>1, <2>2 DEF PageOK
<1>7. ASSUME Walk(R, z) PROVE Walk(R, y)
  <2>1. PositionOK(R, z) /\ SeenOK(R, z) /\ VerdictOK(R, z)
    BY <1>7 DEF Walk, Shape
  <2>2. /\ InRange(R, y) = InRange(R, z) /\ Passed(R, y) = Passed(R, z)
        /\ BrokenPassed(R, y) = BrokenPassed(R, z) /\ Reported(y) = Reported(z)
    BY DEF InRange, Passed, BrokenPassed, Reported, SameRequest
  <2>3. PositionOK(R, y)
    <3>1. y.lastSeq = -1 \/ \E r \in InRange(R, y) : r.seq = y.lastSeq
      BY <2>1, <2>2 DEF PositionOK
    <3>2. \A r \in InRange(R, y), p \in y.page :
            y.lastSeq < r.seq /\ r.seq <= p.seq => r \in y.page
      <4> SUFFICES ASSUME NEW r \in InRange(R, z), NEW p \in Page(A),
                          z.lastSeq < r.seq, r.seq <= p.seq
                   PROVE  r \in Page(A)
        BY <1>4, <2>2
      <4>1. r.seq \in Int /\ z.lastSeq \in Int
        BY RangeIs DEF Shape
      <4> QED BY <1>2, <1>3, <4>1
    <3>3. y.count = Cardinality(Passed(R, y))
      BY <2>1, <2>2 DEF PositionOK
    <3> QED BY <3>1, <3>2, <3>3 DEF PositionOK
  <2>4. SeenOK(R, y)
    <3>1. \A n \in y.visible : \E r \in InRange(R, y) : r.seq = n
      BY <2>1, <2>2 DEF SeenOK, SameRequest
    <3>2. CASE Cardinality(Page(A)) >= PageSize
      <4>1. y.chunk + Cardinality(y.page) >= PageSize
        BY <1>3, <1>4, <3>2, PageAssumption
      <4> QED BY <3>1, <4>1 DEF SeenOK
    <3>3. CASE Page(A) = A
      <4>1. ASSUME NEW n \in y.visible PROVE n <= y.lastSeq \/ \E p \in y.page : p.seq = n
        <5>1. PICK r \in InRange(R, z) : r.seq = n
          BY <2>2, <3>1
        <5>2. r.seq \in Int /\ z.lastSeq \in Int
          BY RangeIs DEF Shape
        <5> QED BY <1>2, <1>4, <3>3, <5>1, <5>2
      <4> QED BY <3>1, <4>1 DEF SeenOK
    <3> QED BY <1>3, <3>2, <3>3
  <2>5. VerdictOK(R, y)
    BY <2>1, <2>2 DEF VerdictOK, SameRequest
  <2>6. y.page \subseteq R
    BY <1>1, <1>3, <1>4, <1>5
  <2> QED BY <2>3, <2>4, <2>5, <2>6 DEF Walk
<1> QED BY <1>6, <1>7

\* A page after its first row has been passed.
LEMMA MovePage ==
  ASSUME NEW z, PageOK(z), z.page # {}, NEW y, NEW e, e = First(z.page), Moves(z, y, e)
  PROVE  /\ PageOK(y) /\ e \in z.page /\ e.seq \in Nat /\ IsRow(e)
         /\ \A q \in z.page : q.seq \in Nat /\ e.seq <= q.seq
         /\ Cardinality(z.page) \in Nat /\ Cardinality(y.page) = Cardinality(z.page) - 1
<1>1. e \in z.page /\ \A q \in z.page : e.seq <= q.seq
  BY FirstIs DEF PageOK
<1>2. \A q \in z.page : q.seq \in Nat
  BY SeqRange DEF PageOK
<1>3. /\ IsFiniteSet(y.page) /\ Cardinality(y.page) = Cardinality(z.page) - 1
      /\ Cardinality(z.page) \in Nat
  BY <1>1, FS_RemoveElement, FS_CardinalityType DEF PageOK, Moves
<1>4. Cardinality(y.page) <= PageSize
  BY <1>3, PageAssumption DEF PageOK
<1>5. \A r \in y.page : r.seq > y.lastSeq
  <2> SUFFICES ASSUME NEW r \in z.page, r # e PROVE r.seq > e.seq
    BY DEF Moves
  <2>1. r.seq # e.seq /\ e.seq <= r.seq
    BY <1>1 DEF PageOK
  <2> QED BY <1>1, <1>2, <2>1
<1>6. PageOK(y)
  BY <1>3, <1>4, <1>5 DEF PageOK, Moves, SameRequest
<1> QED BY <1>1, <1>2, <1>3, <1>6 DEF PageOK

\* Passing the first row of the page: it is the next row of the table, and it
\* is passed once.
LEMMA MovePosition ==
  ASSUME NEW R, Sound(R), NEW z, Shape(z), PageOK(z), z.page # {}, z.page \subseteq R,
         PositionOK(R, z), NEW y, NEW e, e = First(z.page), Moves(z, y, e)
  PROVE  /\ PositionOK(R, y)
         /\ e \in InRange(R, z) /\ e \notin Passed(R, z)
         /\ Passed(R, y) = Passed(R, z) \cup {e}
<1>1. /\ PageOK(y) /\ e \in z.page /\ e.seq \in Nat
      /\ \A q \in z.page : q.seq \in Nat /\ e.seq <= q.seq
  BY MovePage
<1>2. e \in InRange(R, z) /\ e.seq > z.lastSeq /\ z.lastSeq \in Int
  BY <1>1 DEF InRange, RowsOf, PageOK, Shape
<1>3. InRange(R, y) = InRange(R, z)
  BY DEF InRange, Moves, SameRequest
<1>4. /\ \A r \in InRange(R, z) : r.seq \in Nat
      /\ \A p, q \in InRange(R, z) : p.seq = q.seq => p = q
      /\ IsFiniteSet(Passed(R, z)) /\ Cardinality(Passed(R, z)) \in Nat
  BY RangeIs
<1>5. ASSUME NEW r \in InRange(R, z), r.seq <= e.seq, r.seq > z.lastSeq PROVE r = e
  <2>1. r \in z.page
    BY <1>1, <1>2, <1>4, <1>5 DEF PositionOK
  <2>2. r.seq = e.seq
    BY <1>1, <1>4, <1>5, <2>1
  <2> QED BY <1>2, <1>4, <2>2
<1>6. e \notin Passed(R, z)
  BY <1>1, <1>2 DEF Passed
<1>7. Passed(R, y) = Passed(R, z) \cup {e}
  <2>1. y.lastSeq = e.seq
    BY DEF Moves
  <2>2. ASSUME NEW r \in InRange(R, z), r.seq <= e.seq PROVE r.seq <= z.lastSeq \/ r = e
    BY <1>2, <1>4, <1>5, <2>2
  <2>3. ASSUME NEW r \in InRange(R, z), r.seq <= z.lastSeq PROVE r.seq <= e.seq
    BY <1>1, <1>2, <1>4, <2>3
  <2> QED BY <1>1, <1>2, <1>3, <2>1, <2>2, <2>3 DEF Passed
<1>8. PositionOK(R, y)
  <2>1. \E r \in InRange(R, y) : r.seq = y.lastSeq
    BY <1>2, <1>3 DEF Moves
  <2>2. ASSUME NEW r \in InRange(R, z), NEW p \in z.page \ {e}, e.seq < r.seq, r.seq <= p.seq
        PROVE  r \in z.page \ {e}
    <3>1. z.lastSeq < r.seq
      BY <1>1, <1>2, <1>4, <2>2
    <3> QED BY <1>1, <1>4, <2>2, <3>1 DEF PositionOK
  <2>3. y.count = Cardinality(Passed(R, y))
    <3>1. Cardinality(Passed(R, z) \cup {e}) = Cardinality(Passed(R, z)) + 1
      BY <1>4, <1>6, FS_AddElement
    <3> QED BY <1>7, <3>1 DEF PositionOK, Moves
  <2> QED BY <1>3, <2>1, <2>2, <2>3 DEF PositionOK, Moves
<1> QED BY <1>2, <1>6, <1>7, <1>8

\* Passing a row loses sight of none.
LEMMA MoveSeen ==
  ASSUME NEW R, Sound(R), NEW z, Shape(z), PageOK(z), z.page # {}, z.pc = "scan",
         SeenOK(R, z), NEW y, NEW e, e = First(z.page), Moves(z, y, e), y.pc = "scan"
  PROVE  SeenOK(R, y)
<1>1. /\ e \in z.page /\ e.seq \in Nat
      /\ \A q \in z.page : q.seq \in Nat /\ e.seq <= q.seq
      /\ Cardinality(z.page) \in Nat /\ Cardinality(y.page) = Cardinality(z.page) - 1
  BY MovePage
<1>2. /\ InRange(R, y) = InRange(R, z)
      /\ y.visible = z.visible /\ y.page = z.page \ {e} /\ y.lastSeq = e.seq
      /\ y.chunk = z.chunk + 1
  BY DEF InRange, Moves, SameRequest
<1>3. z.chunk \in Nat /\ z.lastSeq \in Int /\ e.seq > z.lastSeq
  BY <1>1 DEF Shape, PageOK
<1>4. \A n \in z.visible : n \in Nat
  BY RangeIs DEF SeenOK
<1>5. CASE z.chunk + Cardinality(z.page) >= PageSize
  <2>1. y.chunk + Cardinality(y.page) >= PageSize
    BY <1>1, <1>2, <1>3, <1>5, PageAssumption
  <2> QED BY <1>2, <2>1 DEF SeenOK
<1>6. CASE \A n \in z.visible : n <= z.lastSeq \/ \E p \in z.page : p.seq = n
  <2>1. ASSUME NEW n \in z.visible PROVE n <= e.seq \/ \E p \in z.page \ {e} : p.seq = n
    <3>1. CASE n <= z.lastSeq
      BY <1>1, <1>3, <1>4, <3>1
    <3>2. ASSUME NEW p \in z.page, p.seq = n
          PROVE  n <= e.seq \/ \E q \in z.page \ {e} : q.seq = n
      BY <1>1, <3>2
    <3> QED BY <1>6, <3>1, <3>2
  <2> QED BY <1>2, <2>1 DEF SeenOK
<1> QED BY <1>5, <1>6 DEF SeenOK

\* The rows passed that are broken, after one more row.
LEMMA MoveBroken ==
  ASSUME NEW R, NEW z, NEW y, NEW e, Passed(R, y) = Passed(R, z) \cup {e}
  PROVE  /\ BrokenIn(R, e) => BrokenPassed(R, y) = BrokenPassed(R, z) \cup {e}
         /\ ~BrokenIn(R, e) => BrokenPassed(R, y) = BrokenPassed(R, z)
BY DEF BrokenPassed

\* Once Verify has found a broken row, the rows after it change nothing.
LEMMA SkipVerdict ==
  ASSUME NEW R, Sound(R), NEW z, Shape(z), z.mode = "first", ~z.valid, VerdictOK(R, z),
         NEW y, NEW e, e.seq \in Nat, e.seq > z.lastSeq,
         Passed(R, y) = Passed(R, z) \cup {e},
         SameRequest(z, y), y.valid = z.valid, y.broken = z.broken
  PROVE  VerdictOK(R, y)
<1>1. PICK b \in BrokenPassed(R, z) :
        Reported(z) = {b.id} /\ \A q \in BrokenPassed(R, z) : b.seq <= q.seq
  BY DEF VerdictOK
<1>2. b.seq <= e.seq
  <2>1. b \in InRange(R, z) /\ b.seq <= z.lastSeq
    BY DEF BrokenPassed, Passed
  <2>2. b.seq \in Nat /\ z.lastSeq \in Int
    BY <2>1, RangeIs DEF Shape
  <2> QED BY <2>1, <2>2
<1>3. /\ b \in BrokenPassed(R, y)
      /\ \A q \in BrokenPassed(R, y) : b.seq <= q.seq
  <2>1. BrokenPassed(R, y) = BrokenPassed(R, z)
          \/ BrokenPassed(R, y) = BrokenPassed(R, z) \cup {e}
    <3>1. CASE BrokenIn(R, e)
      BY <3>1, MoveBroken
    <3>2. CASE ~BrokenIn(R, e)
      BY <3>2, MoveBroken
    <3> QED BY <3>1, <3>2
  <2> QED BY <1>1, <1>2, <2>1
<1>4. Reported(y) = {b.id}
  BY <1>1 DEF Reported
<1> QED BY <1>3, <1>4 DEF VerdictOK, SameRequest

\* One more report.
LEMMA ReportedAppend ==
  ASSUME NEW s \in Seq(Reports), NEW x \in Reports
  PROVE  /\ Append(s, x) \in Seq(Reports) /\ Append(s, x) # <<>>
         /\ {Append(s, x)[i].id : i \in DOMAIN Append(s, x)}
              = {s[i].id : i \in DOMAIN s} \cup {x.id}
<1>1. /\ Append(s, x) \in Seq(Reports) /\ Len(Append(s, x)) = Len(s) + 1 /\ Len(s) \in Nat
      /\ DOMAIN s = 1 .. Len(s) /\ DOMAIN Append(s, x) = 1 .. (Len(s) + 1)
  OBVIOUS
<1>2. \A i \in 1 .. Len(s) : Append(s, x)[i] = s[i]
  OBVIOUS
<1>3. Append(s, x)[Len(s) + 1] = x
  OBVIOUS
<1>4. Append(s, x) # <<>>
  BY <1>1
<1>5. \A i \in 1 .. (Len(s) + 1) : i \in 1 .. Len(s) \/ i = Len(s) + 1
  BY <1>1
<1>6. Len(s) + 1 \in 1 .. (Len(s) + 1) /\ 1 .. Len(s) \subseteq 1 .. (Len(s) + 1)
  BY <1>1
<1> QED BY <1>1, <1>2, <1>3, <1>4, <1>5, <1>6

\* The record after the verdict reason on row e.
Judged(z, y, e, reason) ==
  /\ reason = "none" => y.valid = z.valid /\ y.broken = z.broken
  /\ reason # "none" =>
       /\ y.valid = FALSE
       /\ y.broken = Append(z.broken, [id |-> e.id, reason |-> reason])

\* A verdict adds the row's id to the report, or nothing.
LEMMA JudgedReport ==
  ASSUME NEW z, Shape(z), NEW e, IsRow(e), NEW reason \in {"none", "prev_hash", "hash"},
         NEW y, Judged(z, y, e, reason)
  PROVE  /\ y.broken \in Seq(Reports) /\ y.valid \in BOOLEAN
         /\ y.valid <=> y.broken = <<>>
         /\ reason = "none" => Reported(y) = Reported(z) /\ (y.valid <=> z.valid)
         /\ reason # "none" => Reported(y) = Reported(z) \cup {e.id} /\ ~y.valid
<1>1. CASE reason = "none"
  <2>1. y.valid = z.valid /\ y.broken = z.broken
    BY <1>1 DEF Judged
  <2> QED BY <1>1, <2>1 DEF Shape, Reported
<1>2. CASE reason # "none"
  <2>1. PICK x : x = [id |-> e.id, reason |-> reason]
    OBVIOUS
  <2>2. x \in Reports /\ x.id = e.id
    BY <1>2, <2>1 DEF Reports, IsRow
  <2>3. y.valid = FALSE /\ y.broken = Append(z.broken, x)
    BY <1>2, <2>1 DEF Judged
  <2>4. z.broken \in Seq(Reports)
    BY DEF Shape
  <2>5. y.broken \in Seq(Reports) /\ y.broken # <<>>
    BY <2>2, <2>3, <2>4, ReportedAppend
  <2>6. Reported(y) = Reported(z) \cup {e.id}
    BY <2>2, <2>3, <2>4, ReportedAppend DEF Reported
  <2> QED BY <1>2, <2>3, <2>5, <2>6
<1> QED BY <1>1, <1>2

\* The verdict on the next row is the right one.
LEMMA CheckVerdict ==
  ASSUME NEW R, NEW z, Shape(z), ~(z.mode = "first" /\ ~z.valid), VerdictOK(R, z),
         NEW e, IsRow(e), NEW reason \in {"none", "prev_hash", "hash"},
         reason = "none" <=> ~BrokenIn(R, e),
         NEW y, Passed(R, y) = Passed(R, z) \cup {e}, SameRequest(z, y),
         Judged(z, y, e, reason)
  PROVE  VerdictOK(R, y)
<1>1. /\ reason = "none" => Reported(y) = Reported(z) /\ (y.valid <=> z.valid)
      /\ reason # "none" => Reported(y) = Reported(z) \cup {e.id} /\ ~y.valid
      /\ y.valid <=> y.broken = <<>>
  BY JudgedReport
<1>2. y.mode = z.mode
  BY DEF SameRequest
<1>3. CASE reason = "none"
  <2>1. BrokenPassed(R, y) = BrokenPassed(R, z)
    BY <1>3, MoveBroken
  <2> QED BY <1>1, <1>2, <1>3, <2>1 DEF VerdictOK
<1>4. CASE reason # "none"
  <2>1. BrokenPassed(R, y) = BrokenPassed(R, z) \cup {e}
    BY <1>4, MoveBroken
  <2>2. Reported(y) = Reported(z) \cup {e.id} /\ ~y.valid
    BY <1>1, <1>4
  <2>3. ASSUME z.mode # "first" PROVE Reported(y) = IDs(BrokenPassed(R, y))
    BY <2>1, <2>2, <2>3 DEF VerdictOK, IDs
  <2>4. ASSUME z.mode = "first"
        PROVE  BrokenPassed(R, y) = {e} /\ Reported(y) = {e.id}
    <3>1. z.valid /\ z.broken = <<>> /\ BrokenPassed(R, z) = {}
      BY <2>4 DEF VerdictOK, Shape
    <3>2. Reported(z) = {}
      BY <3>1 DEF Reported
    <3> QED BY <2>1, <2>2, <3>1, <3>2
  <2>5. e.seq <= e.seq
    BY SeqRange
  <2> QED BY <1>2, <2>2, <2>3, <2>4, <2>5 DEF VerdictOK
<1> QED BY <1>3, <1>4

-----------------------------------------------------------------------------
(* The primary *)

\* What the table's keys and its sequence give.
LEMMA StoreSound ==
  ASSUME StoreInv
  PROVE  Sound(rows)
BY DEF StoreInv, TypeOK, StoreType, SeqInv, KeyInv, Sound

\* A step of a writer leaves every row in place and adds rows, if any, after
\* those of the tenant.
LEMMA NextContinues ==
  ASSUME StoreInv, Next
  PROVE  Continues(rows, rows')
<1>1. ASSUME NEW w \in Writers, pc[w] = "commit", rows' = rows \cup inserted[w]
      PROVE  Continues(rows, rows')
  <2>1. \A r \in inserted[w] :
          r.tenant = tenant[w] /\ \A q \in RowsOf(rows, tenant[w]) : q.seq < r.seq
    BY <1>1 DEF StoreInv, PendingInv, PendingOf
  <2> QED BY <1>1, <2>1 DEF Continues, RowsOf
<1>2. CASE rows' = rows
  BY <1>2 DEF Continues
<1>3. ASSUME NEW w \in Writers, Step(w) PROVE Continues(rows, rows')
  <2>1. CASE Commit(w) \/ CommitUnacknowledged(w)
    BY <1>1, <2>1 DEF Commit, CommitUnacknowledged
  <2>2. CASE ~(Commit(w) \/ CommitUnacknowledged(w))
    BY <1>2, <1>3, <2>2
       DEF Step, ReadHead, LoadExisting, SkipExisting, ChainOne, EndLoop,
           InsertOne, SequenceExhausted, DuplicateKey, DeadlockVictim
  <2> QED BY <2>1, <2>2
<1>4. ASSUME NEW w \in Writers, Abort(w) \/ AcquireLock(w) PROVE Continues(rows, rows')
  BY <1>2, <1>4 DEF Abort, AcquireLock
<1>5. ASSUME NEW w \in Writers, NEW t \in Tenants, NEW b \in Batches, LogBatch(w, t, b)
      PROVE  Continues(rows, rows')
  BY <1>2, <1>5 DEF LogBatch
<1> QED BY <1>3, <1>4, <1>5 DEF Next

\* A table that continues a table that continues another.
LEMMA ContinuesTwice ==
  ASSUME NEW Q, NEW R, NEW S, Continues(Q, R), Continues(R, S)
  PROVE  Continues(Q, S)
BY DEF Continues

\* What tampering with row r puts in its place, if anything.
LEMMA TamperedIs ==
  ASSUME NEW r, IsRow(r), NEW kind \in TamperKinds, NEW d \in ValidData
  PROVE  \/ kind = "delete" /\ TamperedRow(r, kind, d) = {}
         \/ \E x : /\ TamperedRow(r, kind, d) = {x}
                   /\ IsRow(x) /\ x.id = r.id /\ x.tenant = r.tenant /\ x.seq = r.seq
                   /\ x.ts = r.ts /\ x.prev = r.prev /\ x.data = d
                   /\ kind = "edit" => x.hash = r.hash
                   /\ kind = "rehash" => x.hash = ComputeHash(x)
                   /\ kind = "garble" => x.hash = <<>>
                   /\ kind # "delete"
<1>0. PICK e : e = [r EXCEPT !.data = d]
  OBVIOUS
<1>1. /\ e = [id |-> r.id, tenant |-> r.tenant, ts |-> r.ts, data |-> d,
              seq |-> r.seq, prev |-> r.prev, hash |-> r.hash]
  BY <1>0 DEF IsRow
<1>2. IsRow(e)
  BY <1>1, ValidDataAssumption DEF IsRow
<1>3. ASSUME NEW h
      PROVE  /\ IsRow([e EXCEPT !.hash = h])
             /\ [e EXCEPT !.hash = h] = [id |-> r.id, tenant |-> r.tenant, ts |-> r.ts,
                     data |-> d, seq |-> r.seq, prev |-> r.prev, hash |-> h]
  <2>1. [e EXCEPT !.hash = h] = [id |-> r.id, tenant |-> r.tenant, ts |-> r.ts,
                     data |-> d, seq |-> r.seq, prev |-> r.prev, hash |-> h]
    BY <1>1
  <2> QED BY <2>1, ValidDataAssumption DEF IsRow
<1>4. CASE kind = "edit"
  <2>1. TamperedRow(r, kind, d) = {e}
    BY <1>0, <1>4 DEF TamperedRow
  <2> QED BY <1>1, <1>2, <1>4, <2>1
<1>5. CASE kind = "rehash"
  <2>1. PICK x : x = [e EXCEPT !.hash = ComputeHash(e)]
    OBVIOUS
  <2>2. TamperedRow(r, kind, d) = {x}
    BY <1>0, <1>5, <2>1 DEF TamperedRow
  <2>3. IsRow(x) /\ x = [id |-> r.id, tenant |-> r.tenant, ts |-> r.ts, data |-> d,
                         seq |-> r.seq, prev |-> r.prev, hash |-> ComputeHash(e)]
    BY <1>3, <2>1
  <2>4. ComputeHash(x) = ComputeHash(e)
    BY <1>1, <2>3 DEF ComputeHash
  <2> QED BY <1>5, <2>2, <2>3, <2>4
<1>6. CASE kind = "garble"
  <2>1. PICK x : x = [e EXCEPT !.hash = <<>>]
    OBVIOUS
  <2>2. TamperedRow(r, kind, d) = {x}
    BY <1>0, <1>6, <2>1 DEF TamperedRow
  <2>3. IsRow(x) /\ x = [id |-> r.id, tenant |-> r.tenant, ts |-> r.ts, data |-> d,
                         seq |-> r.seq, prev |-> r.prev, hash |-> <<>>]
    BY <1>3, <2>1
  <2> QED BY <1>6, <2>2, <2>3
<1>7. CASE kind = "delete"
  BY <1>7 DEF TamperedRow
<1> QED BY <1>4, <1>5, <1>6, <1>7 DEF TamperKinds

\* Tampering changes no id, tenant or sequence number of a row that stays.
LEMMA TamperStore ==
  ASSUME StoreInv, NEW r \in rows, NEW kind \in TamperKinds, NEW d \in ValidData,
         Tamper(r, kind, d)
  PROVE  StoreInv'
<1> USE DEF StoreInv
<1>1. UNCHANGED <<nextSeq, lock, pc, tenant, batch, todo, prevHash, existing,
                  toInsert, inserted>>
  BY DEF Tamper
<1>2. IsRow(r)
  BY DEF TypeOK, StoreType
<1>3. ASSUME NEW p \in rows'
      PROVE  /\ IsRow(p)
             /\ \E q \in rows : /\ p.id = q.id /\ p.tenant = q.tenant /\ p.seq = q.seq
                                /\ \/ q # r /\ p = q
                                   \/ q = r /\ p \in TamperedRow(r, kind, d)
  BY <1>2, TamperedIs DEF Tamper, TypeOK, StoreType
<1>4. \A p, q \in TamperedRow(r, kind, d) : p = q
  BY <1>2, TamperedIs
<1>5. TypeOK'
  <2>1. StoreType'
    BY <1>1, <1>3 DEF TypeOK, StoreType
  <2>2. CallType' /\ \A w \in Writers : WriterType(w)'
    BY <1>1 DEF TypeOK, CallType, OnWriters, WriterType
  <2> QED BY <2>1, <2>2 DEF TypeOK
<1>6. LockInv'
  BY <1>1 DEF LockInv, HoldsLock
<1>7. PendingInv'
  <2> SUFFICES ASSUME NEW w \in Writers PROVE PendingOf(w)'
    BY DEF PendingInv
  <2>1. \A p \in toInsert[w], q \in RowsOf(rows', tenant[w]) : q.seq < p.seq
    BY <1>3 DEF PendingInv, PendingOf, RowsOf
  <2> QED BY <1>1, <2>1 DEF PendingInv, PendingOf, Chaining
<1>8. \A w \in Writers : \A p \in toInsert[w], q \in rows : p.seq # q.seq
  <2> SUFFICES ASSUME NEW w \in Writers, NEW p \in toInsert[w], NEW q \in rows, p.seq = q.seq
               PROVE  FALSE
    OBVIOUS
  <2>1. p = q
    BY DEF SeqInv
  <2>2. q \in RowsOf(rows, tenant[w]) => q.seq < p.seq
    BY DEF PendingInv, PendingOf
  <2>3. p.tenant = tenant[w]
    BY DEF PendingInv, PendingOf
  <2>4. p.seq \in Int
    BY <2>1, RowSeq DEF TypeOK, StoreType
  <2> QED BY <2>1, <2>2, <2>3, <2>4 DEF RowsOf
<1>9. SeqInv'
  <2>1. \A p, q \in rows' : p.seq = q.seq => p = q
    BY <1>3, <1>4 DEF SeqInv
  <2>2. \A w \in Writers : \A p \in toInsert[w], q \in rows' : p.seq # q.seq
    BY <1>3, <1>8
  <2> QED BY <1>1, <2>1, <2>2 DEF SeqInv
<1>10. KeyInv'
  <2>1. \A p, q \in rows' : p.id = q.id => p = q
    BY <1>3, <1>4 DEF KeyInv
  <2>2. \A w \in Writers : \A p \in inserted[w], q \in rows' : p.id # q.id
    BY <1>3 DEF KeyInv
  <2> QED BY <1>1, <2>1, <2>2 DEF KeyInv
<1> QED BY <1>5, <1>6, <1>7, <1>9, <1>10

\* Digests of rows that differ in a covered field differ.
LEMMA DigestsDiffer ==
  ASSUME NEW p, NEW q
  PROVE  /\ ComputeHash(p) = ComputeHash(q) => p.data = q.data /\ p.seq = q.seq
         /\ ComputeHash(p) # <<>>
<1>1. ASSUME ComputeHash(p) = ComputeHash(q) PROVE p.data = q.data /\ p.seq = q.seq
  BY <1>1 DEF ComputeHash
<1>2. ComputeHash(p) # <<>>
  BY DEF ComputeHash
<1> QED BY <1>1, <1>2

\* The first row of an intact chain does not carry the genesis hash as digest.
LEMMA GenesisIsNoDigest ==
  ASSUME NEW r, IsRow(r), r.prev = GenesisHash
  PROVE  ComputeHash(r) # GenesisHash
BY GenesisAssumption DEF IsRow, ComputeHash

\* An edited row carries a digest that is not its own; after a row was replaced
\* together with its digest, or removed, the next row is linked to a digest that
\* is no longer there.
LEMMA TamperBreaks ==
  ASSUME IInv, NEW r \in rows, NEW kind \in TamperKinds, NEW d \in ValidData, d # r.data,
         kind \in {"edit", "garble"} \/ HasSuccessor(r),
         NEW N, N = (rows \ {r}) \cup TamperedRow(r, kind, d)
  PROVE  SomeBroken(N, r.tenant)
<1> DEFINE t == r.tenant
           S == RowsOf(rows, t)
<1>1. Sound(rows)
  BY StoreSound DEF IInv
<1>2. IsRow(r) /\ t \in Tenants /\ r \in S
  BY <1>1 DEF Sound, IsRow, RowsOf
<1>3. \A q \in S : q.hash = ComputeHash(q) /\ IsHead(Below(S, q.seq), q.prev)
  BY <1>2 DEF IInv, ChainIntact, ChainOK
<1>4. \A q \in S : IsRow(q) /\ q.seq \in Nat /\ q \in rows /\ q.tenant = t
  BY <1>1, SeqRange DEF Sound, RowsOf
<1>5. CASE kind \in {"edit", "garble"}
  <2>1. PICK x : /\ TamperedRow(r, kind, d) = {x}
                 /\ x.tenant = t /\ x.data = d
                 /\ kind = "edit" => x.hash = r.hash
                 /\ kind = "garble" => x.hash = <<>>
    BY <1>2, <1>5, TamperedIs
  <2>2. x.hash # ComputeHash(x)
    BY <1>2, <1>3, <1>5, <2>1, DigestsDiffer
  <2>3. x \in RowsOf(N, t) /\ BrokenIn(N, x)
    BY <2>1, <2>2 DEF RowsOf, BrokenIn
  <2> QED BY <2>3 DEF SomeBroken
<1>6. CASE HasSuccessor(r) /\ kind \notin {"edit", "garble"}
  <2> DEFINE U == {q \in S : q.seq > r.seq}
  <2>1. U # {} /\ \A q \in U : IsRow(q)
    BY <1>4, <1>6 DEF HasSuccessor
  <2>2. PICK q \in U : \A p \in U : q.seq <= p.seq
    <3> HIDE DEF U
    <3> QED BY <2>1, LeastRow
  <2>3. q \in S /\ q.seq > r.seq /\ \A p \in S : p.seq > r.seq => q.seq <= p.seq
    BY <2>2
  <2> HIDE DEF U
  <2> DEFINE B == Below(S, q.seq)
             C == Below(RowsOf(N, t), q.seq)
  <2>4. r \in B /\ \A p \in B : p \in S /\ p.seq <= r.seq
    <3>1. r \in B
      BY <1>2, <2>3 DEF Below
    <3>2. ASSUME NEW p \in B PROVE p \in S /\ p.seq <= r.seq
      <4>1. p \in S /\ p.seq < q.seq
        BY DEF Below
      <4> QED BY <1>2, <1>4, <2>3, <4>1
    <3> QED BY <3>1, <3>2
  <2>5. q.prev = r.hash
    <3>1. IsLast(B, r)
      BY <2>4 DEF IsLast
    <3>2. \A p \in B : IsLast(B, p) => p = r
      <4> SUFFICES ASSUME NEW p \in B, IsLast(B, p) PROVE p = r
        OBVIOUS
      <4>1. p.seq <= r.seq /\ r.seq <= p.seq /\ p \in S
        BY <2>4 DEF IsLast
      <4>2. p.seq = r.seq
        BY <1>2, <1>4, <4>1
      <4> QED BY <1>1, <1>2, <1>4, <4>1, <4>2 DEF Sound
    <3>3. IsHead(B, q.prev)
      BY <1>3, <2>3
    <3> QED BY <2>4, <3>1, <3>2, <3>3 DEF IsHead
  <2>6. q \in RowsOf(N, t) /\ q.tenant = t
    BY <1>2, <1>4, <2>3 DEF RowsOf
  <2>7. ASSUME NEW p \in C
        PROVE  \/ p \in B /\ p # r /\ p.seq < r.seq
               \/ p \in TamperedRow(r, kind, d)
    <3>1. p \in N /\ p.tenant = t /\ p.seq < q.seq
      BY DEF Below, RowsOf
    <3>2. CASE p \in rows \ {r}
      <4>1. p \in B /\ p \in S /\ p.seq <= r.seq
        BY <2>4, <3>1, <3>2 DEF Below, RowsOf
      <4>2. p.seq # r.seq
        BY <1>1, <3>2 DEF Sound
      <4> QED BY <1>2, <1>4, <3>2, <4>1, <4>2
    <3> QED BY <3>1, <3>2
  <2>8. ASSUME NEW p \in B, p # r PROVE p.hash # r.hash
    <3>1. p \in S /\ p.seq # r.seq
      BY <1>1, <1>4, <2>4, <2>8 DEF Sound
    <3> QED BY <1>2, <1>3, <3>1, DigestsDiffer
  <2>9. ~IsHead(C, r.hash)
    <3>1. CASE kind = "rehash"
      <4>1. PICK x : /\ TamperedRow(r, kind, d) = {x}
                     /\ x.tenant = t /\ x.seq = r.seq /\ x.data = d
                     /\ x.hash = ComputeHash(x)
        BY <1>2, <3>1, TamperedIs
      <4>2. x \in C
        BY <1>2, <1>4, <2>3, <4>1 DEF Below, RowsOf
      <4>3. x.hash # r.hash
        BY <1>2, <1>3, <4>1, DigestsDiffer
      <4>4. ASSUME NEW p \in C, p.hash = r.hash PROVE FALSE
        BY <2>7, <2>8, <4>1, <4>3, <4>4
      <4> QED BY <4>2, <4>4 DEF IsHead
    <3>2. CASE kind = "delete"
      <4>1. TamperedRow(r, kind, d) = {}
        BY <3>2 DEF TamperedRow
      <4>2. ASSUME NEW p \in C, p.hash = r.hash PROVE FALSE
        BY <2>7, <2>8, <4>1, <4>2
      <4>3. ASSUME C = {} PROVE r.hash # GenesisHash
        <5>1. Below(S, r.seq) = {}
          <6> SUFFICES ASSUME NEW p \in S, p.seq < r.seq PROVE p \in C
            BY <4>3 DEF Below
          <6>1. p.seq < q.seq /\ p # r
            BY <1>2, <1>4, <2>3
          <6> QED BY <1>4, <6>1 DEF Below, RowsOf
        <5>2. r.prev = GenesisHash
          BY <1>2, <1>3, <5>1 DEF IsHead
        <5> QED BY <1>2, <1>3, <5>2, GenesisIsNoDigest
      <4> QED BY <4>2, <4>3 DEF IsHead
    <3> QED BY <1>6, <3>1, <3>2 DEF TamperKinds
  <2>10. BrokenIn(N, q)
    BY <2>5, <2>6, <2>9 DEF BrokenIn
  <2> QED BY <2>6, <2>10 DEF SomeBroken
<1> QED BY <1>5, <1>6

-----------------------------------------------------------------------------
(* The steps of the database *)

\* Nothing but the records of verifications changes in the initial state.
LEMMA VInitInv == VInit => VInv
<1> SUFFICES ASSUME VInit PROVE VInv
  OBVIOUS
<1>1. IInv /\ rows = {}
  BY InitInv DEF VInit, Init
<1>2. tamper = None /\ tamperSeen = FALSE /\ readRows = {}
  BY DEF VInit
<1>3. PrimaryInv
  BY <1>1, <1>2 DEF PrimaryInv, IInv
<1>4. ReplicaInv
  BY <1>1, <1>2 DEF ReplicaInv, Sound, Continues, ChainOK, RowsOf
<1>5. ver = [v \in Verifiers |-> ver[v]] /\ \A v \in Verifiers : ver[v].pc = "idle"
  BY DEF VInit, Idle
<1> QED BY <1>3, <1>4, <1>5 DEF VInv, VerOK

\* Nothing a verification depends on changes.
LEMMA VerOKSame ==
  ASSUME NEW z, VerOK(z), UNCHANGED <<readRows, tamper, tamperSeen>>
  PROVE  VerOK(z)'
BY DEF VerOK, Shape, PageOK, Walk, CatchOK

\* A writer's step: the primary moves on, the read database does not.
LEMMA WriterKeeps ==
  ASSUME VInv, Next, UNCHANGED vvars
  PROVE  VInv'
<1>1. UNCHANGED <<readRows, ver, tamper, tamperSeen>>
  BY DEF vvars
<1>2. StoreInv /\ StoreInv'
  BY NextStore DEF VInv, PrimaryInv
<1>3. Continues(rows, rows') /\ Sound(rows) /\ Sound(rows')
  <2>1. Sound(rows)'
    BY <1>2, StoreSound, PTL
  <2> QED BY <1>2, <2>1, NextContinues, StoreSound
<1>4. PrimaryInv'
  <2>1. tamper = None => IInv'
    BY NextInv DEF VInv, PrimaryInv
  <2>2. tamper # None /\ ~tamper.hidden => SomeBroken(rows', tamper.tenant)
    BY <1>3, GrowBroken DEF VInv, PrimaryInv
  <2> QED BY <1>1, <1>2, <2>1, <2>2 DEF PrimaryInv, SomeBroken
<1>5. ReplicaInv'
  <2>1. Continues(readRows, rows) => Continues(readRows, rows')
    BY <1>3, ContinuesTwice
  <2> QED BY <1>1, <2>1 DEF VInv, ReplicaInv
<1>6. \A v \in Verifiers : VerOK(ver[v])'
  BY <1>1, VerOKSame DEF VInv
<1> QED BY <1>1, <1>4, <1>5, <1>6 DEF VInv

\* Tampering: it is not yet visible, and no verification is past it.
LEMMA TamperKeeps ==
  ASSUME VInv, NEW r \in rows, NEW kind \in TamperKinds, NEW d \in ValidData,
         Tamper(r, kind, d)
  PROVE  VInv'
<1>1. /\ tamper = None /\ d # r.data /\ UNCHANGED <<readRows, ver, tamperSeen>>
      /\ rows' = (rows \ {r}) \cup TamperedRow(r, kind, d)
      /\ tamper' = [kind |-> kind, id |-> r.id, tenant |-> r.tenant,
                    hidden |-> kind \in {"rehash", "delete"} /\ ~HasSuccessor(r)]
  BY DEF Tamper
<1>2. IInv /\ StoreInv
  BY <1>1 DEF VInv, PrimaryInv
<1>3. ~tamperSeen
  BY <1>1 DEF VInv, ReplicaInv
<1>4. r.id \in EventIDs /\ r.tenant \in Tenants
  BY <1>2, StoreSound DEF Sound, IsRow
<1>5. PICK h \in BOOLEAN : h = (kind \in {"rehash", "delete"} /\ ~HasSuccessor(r))
  OBVIOUS
<1>6. tamper' = [kind |-> kind, id |-> r.id, tenant |-> r.tenant, hidden |-> h]
  BY <1>1, <1>5
<1>7. tamper' # None /\ tamper'.tenant = r.tenant /\ tamper'.hidden = h
  BY <1>4, <1>6, NoneAssumption
<1>8. ~h => SomeBroken(rows', r.tenant)
  BY <1>1, <1>2, <1>5, TamperBreaks DEF TamperKinds
<1>9. PrimaryInv'
  <2>1. StoreInv'
    BY <1>2, TamperStore
  <2>2. tamper' # None /\ ~tamper'.hidden => SomeBroken(rows', tamper'.tenant)
    BY <1>7, <1>8
  <2> QED BY <1>7, <2>1, <2>2 DEF PrimaryInv, SomeBroken
<1>10. ReplicaInv'
  BY <1>1, <1>3, <1>7 DEF VInv, ReplicaInv
<1>11. ASSUME NEW v \in Verifiers PROVE VerOK(ver[v])'
  <2> SUFFICES ASSUME ver[v].pc # "idle" PROVE VerOK(ver[v])'
    BY <1>1 DEF VerOK
  <2>1. /\ Shape(ver[v]) /\ PageOK(ver[v]) /\ ~ver[v].after /\ ver[v].valid
        /\ ver[v].after = tamperSeen => Walk(readRows, ver[v])
    BY <1>3 DEF VInv, VerOK
  <2> QED BY <1>1, <2>1 DEF VerOK
<1> QED BY <1>1, <1>9, <1>10, <1>11 DEF VInv

\* Replication: a verification sees rows ahead of it, or tampering, and then it
\* started before.
LEMMA ReplicateKeeps ==
  ASSUME VInv, Replicate
  PROVE  VInv'
<1>1. /\ readRows' = rows /\ tamperSeen' = (tamper # None)
      /\ UNCHANGED <<vars, ver, tamper>>
  BY DEF Replicate
<1>2. StoreInv /\ (tamper = None => IInv) /\ tamperSeen \in BOOLEAN
      /\ (tamperSeen => tamper # None)
      /\ (tamper # None /\ ~tamper.hidden => SomeBroken(rows, tamper.tenant))
  BY DEF VInv, PrimaryInv, ReplicaInv
<1>3. Sound(rows) /\ Sound(readRows)
  BY <1>2, StoreSound DEF VInv, ReplicaInv
<1>4. rows' = rows
  BY <1>1 DEF vars
<1>5. PrimaryInv'
  <2>1. StoreInv'
    BY <1>1, <1>2, StutterStore
  <2>2. tamper = None => IInv'
    BY <1>1, <1>2, StutterInv
  <2> QED BY <1>1, <1>2, <1>4, <2>1, <2>2 DEF PrimaryInv, SomeBroken
<1>6. ReplicaInv'
  <2>1. Continues(rows, rows)
    BY DEF Continues
  <2>2. tamper = None => \A t \in Tenants : ChainOK(RowsOf(rows, t))
    BY <1>2 DEF IInv, ChainIntact
  <2>3. tamperSeen' \in BOOLEAN /\ (tamperSeen' <=> tamper # None)
    BY <1>1
  <2> QED BY <1>1, <1>2, <1>3, <1>4, <2>1, <2>2, <2>3 DEF ReplicaInv, Sound, SomeBroken
<1>7. ASSUME NEW v \in Verifiers PROVE VerOK(ver[v])'
  <2> SUFFICES ASSUME ver[v].pc # "idle" PROVE VerOK(ver[v])'
    BY <1>1 DEF VerOK
  <2>1. PICK z : z = ver[v]
    OBVIOUS
  <2>2. /\ Shape(z) /\ PageOK(z) /\ (z.after => tamperSeen) /\ (~tamperSeen => z.valid)
        /\ z.after = tamperSeen => Walk(readRows, z)
        /\ z.after /\ ~tamper.hidden /\ z.mode # "one" => CatchOK(readRows, z, tamper.tenant)
    BY <2>1 DEF VInv, VerOK
  <2>3. CASE tamperSeen \/ tamper = None
    <3>1. Continues(readRows, rows)
      BY <2>3 DEF VInv, ReplicaInv
    <3>2. tamperSeen' = tamperSeen
      BY <1>1, <1>2, <2>3
    <3>3. z.after = tamperSeen => Walk(rows, z)
      BY <1>3, <2>2, <3>1, GrowWalk
    <3>4. z.after /\ ~tamper.hidden /\ z.mode # "one" => CatchOK(rows, z, tamper.tenant)
      BY <1>3, <2>2, <3>1, GrowBroken
    <3>5. VerOK(z)'
      BY <1>1, <2>2, <3>2, <3>3, <3>4 DEF VerOK
    <3> QED BY <1>1, <2>1, <3>5 DEF VerOK
  <2>4. CASE ~tamperSeen /\ tamper # None
    <3>1. tamperSeen' /\ ~z.after /\ z.after # tamperSeen'
      BY <1>1, <2>2, <2>4
    <3>2. VerOK(z)'
      BY <2>2, <3>1 DEF VerOK
    <3> QED BY <1>1, <2>1, <3>2 DEF VerOK
  <2> QED BY <2>3, <2>4
<1> QED BY <1>1, <1>5, <1>6, <1>7 DEF VInv

-----------------------------------------------------------------------------
(* The steps of a verification *)

\* A step of one verification: its new record is all there is to check.
LEMMA OneVerification ==
  ASSUME VInv, NEW v \in Verifiers, NEW y, VerOK(y), ver' = [ver EXCEPT ![v] = y],
         UNCHANGED <<vars, readRows, tamper, tamperSeen>>
  PROVE  VInv'
<1>1. PrimaryInv'
  <2>1. StoreInv' /\ (tamper = None => IInv')
    BY StutterStore, StutterInv DEF VInv, PrimaryInv
  <2>2. rows' = rows
    BY DEF vars
  <2> QED BY <2>1, <2>2 DEF VInv, PrimaryInv
<1>2. ReplicaInv'
  BY DEF VInv, ReplicaInv, vars
<1>3. /\ ver' = [u \in Verifiers |-> ver'[u]] /\ ver'[v] = y
      /\ \A u \in Verifiers \ {v} : ver'[u] = ver[u]
  BY DEF VInv
<1>4. VerOK(y)' /\ \A u \in Verifiers : VerOK(ver[u])
  BY VerOKSame DEF VInv
<1>5. ASSUME NEW u \in Verifiers PROVE VerOK(ver[u])'
  <2>1. CASE u = v
    BY <1>3, <1>4, <2>1 DEF VerOK
  <2>2. CASE u # v
    <3>1. PICK z : z = ver[u]
      OBVIOUS
    <3>2. VerOK(z)' /\ ver'[u] = z
      BY <1>3, <1>4, <2>2, <3>1, VerOKSame
    <3> QED BY <3>2 DEF VerOK
  <2> QED BY <2>1, <2>2
<1> QED BY <1>1, <1>2, <1>3, <1>5 DEF VInv

\* A verification that is over has no locals.
LEMMA IdleKeeps ==
  ASSUME VInv, NEW v \in Verifiers, EndVerify(v) \/ PreviousNotFound(v)
  PROVE  VInv'
<1>1. /\ ver' = [ver EXCEPT ![v] = Idle]
      /\ UNCHANGED <<vars, readRows, tamper, tamperSeen>>
  BY DEF EndVerify, PreviousNotFound
<1>2. VerOK(Idle)
  BY DEF VerOK, Idle
<1> QED BY <1>1, <1>2, OneVerification

\* Verify and VerifyDeep start before the first row, with an empty report.
LEMMA StartKeeps ==
  ASSUME VInv, NEW v \in Verifiers, NEW t \in Tenants, NEW mode \in Modes,
         NEW win \in Windows, StartVerify(v, t, mode, win)
  PROVE  VInv'
<1> DEFINE seen == {r.seq : r \in {q \in RowsOf(readRows, t) : InWindow(q, win)}}
<1>1. PICK y : y = [pc |-> "query", tenant |-> t, mode |-> mode, win |-> win,
                    lastSeq |-> -1, page |-> {}, chunk |-> 0, count |-> 0,
                    valid |-> TRUE, broken |-> <<>>, root |-> GenesisHash,
                    visible |-> seen, after |-> tamperSeen]
  OBVIOUS
<1>2. /\ ver' = [ver EXCEPT ![v] = y] /\ mode # "one"
      /\ UNCHANGED <<vars, readRows, tamper, tamperSeen>>
  BY <1>1 DEF StartVerify
<1>3. Sound(readRows) /\ tamperSeen \in BOOLEAN
      /\ (tamperSeen /\ ~tamper.hidden => SomeBroken(readRows, tamper.tenant))
  BY DEF VInv, ReplicaInv
<1>4. /\ DOMAIN y = Fields /\ y.pc = "query" /\ y.tenant = t /\ y.mode = mode /\ y.win = win
      /\ y.lastSeq = -1 /\ y.page = {} /\ y.chunk = 0 /\ y.count = 0 /\ y.broken = <<>>
      /\ y.visible = seen
  BY <1>1 DEF Fields
<1>5. y.valid = TRUE /\ y.after = tamperSeen
  BY <1>1
<1>6. \A r \in InRange(readRows, y) : r.seq \in seen
  BY <1>4 DEF InRange
<1>7. \A n \in seen : \E r \in InRange(readRows, y) : r.seq = n
  BY <1>4 DEF InRange
<1> HIDE DEF seen
<1>8. Shape(y)
  <2>1. y.broken \in Seq(Reports) /\ -1 \in Int
    BY <1>4
  <2>2. y.valid \in BOOLEAN /\ y.after \in BOOLEAN /\ y.valid
    BY <1>3, <1>5
  <2> QED BY <1>2, <1>4, <2>1, <2>2 DEF Shape
<1>9. PageOK(y)
  BY <1>4, FS_EmptySet, PageAssumption DEF PageOK
<1>10. Passed(readRows, y) = {}
  <2> SUFFICES ASSUME NEW r \in InRange(readRows, y), r.seq <= y.lastSeq PROVE FALSE
    BY DEF Passed
  <2>1. r.seq \in Nat /\ r.seq >= 1
    BY <1>3, RangeIs
  <2> QED BY <1>4, <2>1
<1>11. Walk(readRows, y)
  <2>1. PositionOK(readRows, y)
    BY <1>4, <1>10, FS_EmptySet DEF PositionOK
  <2>2. SeenOK(readRows, y)
    BY <1>4, <1>7 DEF SeenOK
  <2>3. VerdictOK(readRows, y)
    <3>1. BrokenPassed(readRows, y) = {} /\ Reported(y) = {}
      BY <1>4, <1>10 DEF BrokenPassed, Reported
    <3>2. IDs({}) = {}
      BY DEF IDs
    <3> QED BY <1>5, <3>1, <3>2 DEF VerdictOK
  <2> QED BY <1>4, <2>1, <2>2, <2>3 DEF Walk
<1>12. ASSUME tamperSeen, ~tamper.hidden PROVE CatchOK(readRows, y, tamper.tenant)
  <2> SUFFICES ASSUME y.tenant = tamper.tenant
               PROVE  \E b \in RowsOf(readRows, y.tenant) :
                        BrokenIn(readRows, b) /\ (InWindow(b, y.win) => b.seq \in y.visible)
    BY DEF CatchOK
  <2>1. PICK b \in RowsOf(readRows, y.tenant) : BrokenIn(readRows, b)
    BY <1>3, <1>12 DEF SomeBroken
  <2>2. InWindow(b, y.win) => b.seq \in y.visible
    BY <1>4, <1>6, <2>1 DEF InRange
  <2> QED BY <2>1, <2>2
<1>13. VerOK(y)
  BY <1>5, <1>8, <1>9, <1>11, <1>12 DEF VerOK
<1> QED BY <1>2, <1>13, OneVerification

\* VerifyOne starts with the row it has fetched.
LEMMA StartOneKeeps ==
  ASSUME VInv, NEW v \in Verifiers, NEW r \in readRows, StartVerifyOne(v, r)
  PROVE  VInv'
<1>1. PICK y : y = [pc |-> "one", tenant |-> r.tenant, mode |-> "one",
                    win |-> [from |-> r.ts, to |-> r.ts], lastSeq |-> -1, page |-> {r},
                    chunk |-> 0, count |-> 0, valid |-> TRUE, broken |-> <<>>,
                    root |-> r.hash, visible |-> {}, after |-> tamperSeen]
  OBVIOUS
<1>2. /\ ver' = [ver EXCEPT ![v] = y]
      /\ UNCHANGED <<vars, readRows, tamper, tamperSeen>>
  BY <1>1 DEF StartVerifyOne
<1>3. IsRow(r) /\ r.seq \in Nat /\ tamperSeen \in BOOLEAN
  BY SeqRange DEF VInv, ReplicaInv, Sound
<1>4. /\ DOMAIN y = Fields /\ y.pc = "one" /\ y.tenant = r.tenant /\ y.mode = "one"
      /\ y.win = [from |-> r.ts, to |-> r.ts] /\ y.lastSeq = -1 /\ y.page = {r}
      /\ y.chunk = 0 /\ y.count = 0 /\ y.broken = <<>>
  BY <1>1 DEF Fields
<1>5. y.valid = TRUE /\ y.after = tamperSeen
  BY <1>1
<1>6. Shape(y)
  <2>1. y.broken \in Seq(Reports) /\ -1 \in Int
    BY <1>4
  <2>2. y.valid \in BOOLEAN /\ y.after \in BOOLEAN /\ y.valid
    BY <1>3, <1>5
  <2> QED BY <1>4, <2>1, <2>2 DEF Shape
<1>7. PageOK(y)
  <2>1. IsFiniteSet({r}) /\ Cardinality({r}) = 1
    BY FS_Singleton
  <2>2. r.ts <= r.ts
    BY <1>3, TimesAssumption DEF IsRow
  <2> QED BY <1>3, <1>4, <2>1, <2>2, PageAssumption DEF PageOK, InWindow
<1>8. VerOK(y)
  BY <1>4, <1>5, <1>6, <1>7 DEF VerOK, Walk
<1> QED BY <1>2, <1>8, OneVerification

\* The record of a verification that is running, with what the invariant says.
LEMMA RunningIs ==
  ASSUME VInv, NEW v \in Verifiers, ver[v].pc # "idle"
  PROVE  /\ Shape(ver[v]) /\ PageOK(ver[v]) /\ DOMAIN ver[v] = Fields
         /\ ver[v].after => tamperSeen
         /\ ~tamperSeen => ver[v].valid
         /\ ver[v].after = tamperSeen => Walk(readRows, ver[v])
         /\ ver[v].after /\ ~tamper.hidden /\ ver[v].mode # "one" =>
              CatchOK(readRows, ver[v], tamper.tenant)
         /\ Sound(readRows)
         /\ ~tamperSeen => ver[v].after = tamperSeen
<1>1. Shape(ver[v]) /\ (ver[v].after => tamperSeen) /\ tamperSeen \in BOOLEAN
  BY DEF VInv, VerOK, ReplicaInv
<1>2. ~tamperSeen => ver[v].after = tamperSeen
  BY <1>1 DEF Shape
<1> QED BY <1>1, <1>2 DEF VInv, VerOK, ReplicaInv, Shape

\* What a verification has to find does not depend on how far it is.
LEMMA CatchSame ==
  ASSUME NEW z, NEW y, SameRequest(z, y), NEW R, NEW t, CatchOK(R, z, t)
  PROVE  CatchOK(R, y, t)
BY DEF CatchOK, SameRequest

\* Walk's next page.
LEMMA QueryPageKeeps ==
  ASSUME VInv, NEW v \in Verifiers, QueryPage(v)
  PROVE  VInv'
<1>1. PICK z : z = ver[v]
  OBVIOUS
<1>2. z.pc = "query" /\ UNCHANGED <<vars, readRows, tamper, tamperSeen>>
  BY <1>1 DEF QueryPage
<1>3. /\ Shape(z) /\ PageOK(z) /\ DOMAIN z = Fields
      /\ z.after => tamperSeen
      /\ ~tamperSeen => z.valid
      /\ z.after = tamperSeen => Walk(readRows, z)
      /\ z.after /\ ~tamper.hidden /\ z.mode # "one" => CatchOK(readRows, z, tamper.tenant)
      /\ Sound(readRows)
  BY <1>1, <1>2, RunningIs
<1>4. PICK y : y = [z EXCEPT !.pc = "scan", !.chunk = 0, !.page = Page(Remaining(z))]
  OBVIOUS
<1>5. ver' = [ver EXCEPT ![v] = y]
  BY <1>1, <1>4 DEF QueryPage, VInv
<1>6. Remaining(z) = Ahead(readRows, z)
  BY DEF Remaining, Ahead, InRange
<1>7. /\ DOMAIN y = Fields /\ SameRequest(z, y)
      /\ y.pc = "scan" /\ y.chunk = 0 /\ y.page = Page(Ahead(readRows, z))
      /\ y.lastSeq = z.lastSeq /\ y.count = z.count
      /\ y.valid = z.valid /\ y.broken = z.broken
  BY <1>3, <1>4, <1>6 DEF Fields, SameRequest
<1>8. PageOK(y) /\ (Walk(readRows, z) => Walk(readRows, y))
  BY <1>2, <1>3, <1>7, QueryWalk
<1>9. Shape(y)
  BY <1>2, <1>3, <1>7 DEF Shape, SameRequest
<1>10. y.after = z.after /\ y.mode = z.mode
  BY <1>7 DEF SameRequest
<1>11. VerOK(y)
  BY <1>3, <1>7, <1>8, <1>9, <1>10, CatchSame DEF VerOK
<1> QED BY <1>2, <1>5, <1>11, OneVerification

\* The end of a page: a page that was not full was the last.
LEMMA EndPageKeeps ==
  ASSUME VInv, NEW v \in Verifiers, EndPage(v)
  PROVE  VInv'
<1>1. PICK z : z = ver[v]
  OBVIOUS
<1>2. z.pc = "scan" /\ z.page = {} /\ UNCHANGED <<vars, readRows, tamper, tamperSeen>>
  BY <1>1 DEF EndPage
<1>3. /\ Shape(z) /\ PageOK(z) /\ DOMAIN z = Fields
      /\ z.after => tamperSeen
      /\ ~tamperSeen => z.valid
      /\ z.after = tamperSeen => Walk(readRows, z)
      /\ z.after /\ ~tamper.hidden /\ z.mode # "one" => CatchOK(readRows, z, tamper.tenant)
  BY <1>1, <1>2, RunningIs
<1>4. PICK n : n = IF z.chunk < PageSize THEN "done" ELSE "query"
  OBVIOUS
<1>5. PICK y : y = [z EXCEPT !.pc = n]
  OBVIOUS
<1>6. ver' = [ver EXCEPT ![v] = y]
  BY <1>1, <1>4, <1>5 DEF EndPage, VInv
<1>7. /\ DOMAIN y = Fields /\ SameRequest(z, y)
      /\ y.pc = n /\ y.chunk = z.chunk /\ y.page = {}
      /\ y.lastSeq = z.lastSeq /\ y.count = z.count
      /\ y.valid = z.valid /\ y.broken = z.broken
  BY <1>2, <1>3, <1>5 DEF Fields, SameRequest
<1>8. n \in {"done", "query"} /\ (n = "done" => z.chunk < PageSize)
  BY <1>4
<1>9. Shape(y) /\ PageOK(y)
  BY <1>2, <1>3, <1>7, <1>8 DEF Shape, PageOK, SameRequest
<1>10. ASSUME Walk(readRows, z) PROVE Walk(readRows, y)
  <2>1. PositionOK(readRows, z) /\ SeenOK(readRows, z) /\ VerdictOK(readRows, z)
    BY <1>2, <1>3, <1>10 DEF Walk, Shape
  <2>2. /\ InRange(readRows, y) = InRange(readRows, z)
        /\ Passed(readRows, y) = Passed(readRows, z)
        /\ BrokenPassed(readRows, y) = BrokenPassed(readRows, z)
        /\ Reported(y) = Reported(z)
    BY <1>7 DEF InRange, Passed, BrokenPassed, Reported, SameRequest
  <2>3. PositionOK(readRows, y)
    BY <1>7, <2>1, <2>2 DEF PositionOK
  <2>4. VerdictOK(readRows, y)
    BY <1>7, <2>1, <2>2 DEF VerdictOK, SameRequest
  <2>5. SeenOK(readRows, y)
    <3>1. z.chunk < PageSize => \A m \in z.visible : m <= z.lastSeq
      <4>1. Cardinality(z.page) = 0 /\ z.chunk \in Nat
        BY <1>2, <1>3, FS_EmptySet DEF Shape
      <4> QED BY <1>2, <2>1, <4>1, PageAssumption DEF SeenOK
    <3> QED BY <1>7, <1>8, <2>1, <2>2, <3>1 DEF SeenOK, SameRequest
  <2> QED BY <1>7, <2>3, <2>4, <2>5 DEF Walk
<1>11. y.after = z.after /\ y.mode = z.mode
  BY <1>7 DEF SameRequest
<1>12. VerOK(y)
  BY <1>3, <1>7, <1>9, <1>10, <1>11, CatchSame DEF VerOK
<1> QED BY <1>2, <1>6, <1>12, OneVerification

\* Verify passes a row it does not check.
LEMMA SkipRowKeeps ==
  ASSUME VInv, NEW v \in Verifiers, SkipRow(v)
  PROVE  VInv'
<1>1. PICK z : z = ver[v]
  OBVIOUS
<1>2. /\ z.pc = "scan" /\ z.page # {} /\ z.mode = "first" /\ ~z.valid
      /\ UNCHANGED <<vars, readRows, tamper, tamperSeen>>
  BY <1>1 DEF SkipRow, Skipping
<1>3. /\ Shape(z) /\ PageOK(z) /\ DOMAIN z = Fields
      /\ z.after => tamperSeen
      /\ ~tamperSeen => z.valid
      /\ z.after = tamperSeen => Walk(readRows, z)
      /\ z.after /\ ~tamper.hidden /\ z.mode # "one" => CatchOK(readRows, z, tamper.tenant)
      /\ Sound(readRows)
  BY <1>1, <1>2, RunningIs
<1>4. PICK e : e = First(z.page)
  OBVIOUS
<1>5. PICK y : y = Advance(z, e)
  OBVIOUS
<1>6. ver' = [ver EXCEPT ![v] = y]
  BY <1>1, <1>4, <1>5 DEF SkipRow, VInv
<1>7. /\ DOMAIN y = Fields /\ Moves(z, y, e) /\ SameRequest(z, y) /\ y.pc = "scan"
      /\ y.valid = z.valid /\ y.broken = z.broken
  <2>1. /\ DOMAIN y = Fields
        /\ y.page = z.page \ {e} /\ y.lastSeq = e.seq
        /\ y.chunk = z.chunk + 1 /\ y.count = z.count + 1
        /\ y.pc = z.pc /\ y.tenant = z.tenant /\ y.mode = z.mode /\ y.win = z.win
        /\ y.valid = z.valid /\ y.broken = z.broken /\ y.visible = z.visible
        /\ y.after = z.after
    BY <1>3, <1>5 DEF Advance, Fields
  <2> QED BY <1>2, <2>1 DEF Moves, SameRequest
<1>8. PageOK(y) /\ e \in z.page /\ e.seq \in Nat /\ e.seq > z.lastSeq
  BY <1>2, <1>3, <1>4, <1>7, MovePage DEF PageOK
<1>9. Shape(y)
  BY <1>3, <1>7, <1>8, <1>2 DEF Shape, Moves, SameRequest
<1>10. ASSUME Walk(readRows, z) PROVE Walk(readRows, y)
  <2>1. /\ PositionOK(readRows, z) /\ SeenOK(readRows, z) /\ VerdictOK(readRows, z)
        /\ z.page \subseteq readRows
    BY <1>2, <1>3, <1>10 DEF Walk, Shape
  <2>2. PositionOK(readRows, y) /\ Passed(readRows, y) = Passed(readRows, z) \cup {e}
    BY <1>2, <1>3, <1>4, <1>7, <2>1, MovePosition
  <2>3. SeenOK(readRows, y)
    BY <1>2, <1>3, <1>4, <1>7, <2>1, MoveSeen
  <2>4. VerdictOK(readRows, y)
    BY <1>2, <1>3, <1>7, <1>8, <2>1, <2>2, SkipVerdict
  <2> QED BY <1>7, <2>1, <2>2, <2>3, <2>4 DEF Walk, Moves
<1>11. y.after = z.after /\ y.mode = z.mode
  BY <1>7 DEF SameRequest
<1>12. VerOK(y)
  BY <1>3, <1>7, <1>8, <1>9, <1>10, <1>11, CatchSame DEF VerOK
<1> QED BY <1>2, <1>6, <1>12, OneVerification

\* A verdict is one of three, whatever it is computed from.
LEMMA ReasonType ==
  ASSUME NEW S, NEW e, NEW mode
  PROVE  BrokenReason(S, e, mode) \in {"none", "prev_hash", "hash"}
BY DEF BrokenReason

\* Checking the first row of the page, for all three verifications: the report
\* is as it should be, and no row of an intact chain is reported.
LEMMA CheckedIs ==
  ASSUME VInv, NEW v \in Verifiers, NEW z, z = ver[v], z.pc \in {"scan", "one"},
         z.page # {}, NEW e, e = First(z.page), NEW mode, NEW reason,
         reason = BrokenReason(RowsOf(readRows, z.tenant), e, mode),
         NEW y, y = Advance(Record(z, e, reason), e)
  PROVE  /\ DOMAIN y = Fields /\ Moves(z, y, e) /\ Judged(z, y, e, reason) /\ y.pc = z.pc
         /\ PageOK(y) /\ IsRow(e) /\ e \in z.page /\ reason \in {"none", "prev_hash", "hash"}
         /\ z.after = tamperSeen => (reason = "none" <=> ~BrokenIn(readRows, e))
         /\ ~tamperSeen => y.valid
         /\ y.broken \in Seq(Reports) /\ y.valid \in BOOLEAN
         /\ y.valid <=> y.broken = <<>>
<1>1. /\ Shape(z) /\ PageOK(z) /\ DOMAIN z = Fields
      /\ ~tamperSeen => z.valid
      /\ z.after = tamperSeen => Walk(readRows, z)
      /\ Sound(readRows)
      /\ ~tamperSeen => z.after = tamperSeen
  BY RunningIs
<1>2. PICK x : x = Record(z, e, reason)
  OBVIOUS
<1>3. /\ DOMAIN x = Fields /\ SameRequest(z, x) /\ x.page = z.page /\ x.lastSeq = z.lastSeq
      /\ x.chunk = z.chunk /\ x.count = z.count /\ x.pc = z.pc /\ Judged(z, x, e, reason)
  <2>1. CASE reason = "none"
    BY <1>1, <1>2, <2>1 DEF Record, Fields, SameRequest, Judged
  <2>2. CASE reason # "none"
    BY <1>1, <1>2, <2>2 DEF Record, Fields, SameRequest, Judged
  <2> QED BY <2>1, <2>2
<1>4. /\ DOMAIN y = Fields /\ Moves(z, y, e) /\ y.pc = z.pc
      /\ y.valid = x.valid /\ y.broken = x.broken
  <2>1. /\ DOMAIN y = Fields
        /\ y.page = x.page \ {e} /\ y.lastSeq = e.seq
        /\ y.chunk = x.chunk + 1 /\ y.count = x.count + 1
        /\ y.pc = x.pc /\ y.tenant = x.tenant /\ y.mode = x.mode /\ y.win = x.win
        /\ y.valid = x.valid /\ y.broken = x.broken /\ y.visible = x.visible
        /\ y.after = x.after
    BY <1>2, <1>3 DEF Advance, Fields
  <2> QED BY <1>3, <2>1 DEF Moves, SameRequest
<1>5. Judged(z, y, e, reason)
  BY <1>3, <1>4 DEF Judged
<1>6. PageOK(y) /\ IsRow(e) /\ e \in z.page
  BY <1>1, <1>4, MovePage
<1>7. reason \in {"none", "prev_hash", "hash"}
  BY ReasonType
<1>8. ASSUME z.after = tamperSeen
      PROVE  e \in readRows /\ (reason = "none" <=> ~BrokenIn(readRows, e))
  <2>1. e \in readRows /\ e.tenant = z.tenant
    BY <1>1, <1>6, <1>8 DEF Walk, PageOK
  <2> QED BY <1>1, <2>1, ReasonIs
<1>9. /\ y.broken \in Seq(Reports) /\ y.valid \in BOOLEAN /\ (y.valid <=> y.broken = <<>>)
      /\ reason = "none" => (y.valid <=> z.valid)
  BY <1>1, <1>5, <1>6, <1>7, JudgedReport
<1>10. ASSUME ~tamperSeen PROVE y.valid
  <2>1. e \in readRows /\ (reason = "none" <=> ~BrokenIn(readRows, e))
    BY <1>1, <1>8, <1>10
  <2>2. ChainOK(RowsOf(readRows, e.tenant))
    BY <1>6, <1>10 DEF VInv, ReplicaInv, IsRow
  <2> QED BY <1>1, <1>9, <1>10, <2>1, <2>2, IntactNotBroken
<1> QED BY <1>4, <1>5, <1>6, <1>7, <1>8, <1>9, <1>10

\* Verify and VerifyDeep check a row.
LEMMA CheckRowKeeps ==
  ASSUME VInv, NEW v \in Verifiers, CheckRow(v)
  PROVE  VInv'
<1>1. PICK z : z = ver[v]
  OBVIOUS
<1>2. /\ z.pc = "scan" /\ z.page # {} /\ ~(z.mode = "first" /\ ~z.valid)
      /\ UNCHANGED <<vars, readRows, tamper, tamperSeen>>
  BY <1>1 DEF CheckRow, Skipping
<1>3. /\ Shape(z) /\ PageOK(z)
      /\ z.after => tamperSeen
      /\ z.after = tamperSeen => Walk(readRows, z)
      /\ z.after /\ ~tamper.hidden /\ z.mode # "one" => CatchOK(readRows, z, tamper.tenant)
      /\ Sound(readRows)
  BY <1>1, <1>2, RunningIs
<1>4. PICK e : e = First(z.page)
  OBVIOUS
<1>5. PICK reason : reason = BrokenReason(RowsOf(readRows, z.tenant), e, z.mode)
  OBVIOUS
<1>6. PICK y : y = Advance(Record(z, e, reason), e)
  OBVIOUS
<1>7. ver' = [ver EXCEPT ![v] = y]
  BY <1>1, <1>4, <1>5, <1>6 DEF CheckRow, VInv
<1>8. /\ DOMAIN y = Fields /\ Moves(z, y, e) /\ Judged(z, y, e, reason) /\ y.pc = "scan"
      /\ PageOK(y) /\ IsRow(e) /\ e \in z.page /\ reason \in {"none", "prev_hash", "hash"}
      /\ z.after = tamperSeen => (reason = "none" <=> ~BrokenIn(readRows, e))
      /\ ~tamperSeen => y.valid
      /\ y.broken \in Seq(Reports) /\ y.valid \in BOOLEAN
      /\ y.valid <=> y.broken = <<>>
  BY <1>1, <1>2, <1>4, <1>5, <1>6, CheckedIs
<1>9. SameRequest(z, y)
  BY <1>8 DEF Moves
<1>10. Shape(y)
  <2>1. y.lastSeq \in Int /\ y.chunk \in Nat /\ y.count \in Nat
    BY <1>3, <1>8, RowSeq DEF Moves, Shape
  <2> QED BY <1>2, <1>3, <1>8, <1>9, <2>1 DEF Shape, SameRequest
<1>11. ASSUME z.after = tamperSeen PROVE Walk(readRows, y)
  <2>1. /\ PositionOK(readRows, z) /\ SeenOK(readRows, z) /\ VerdictOK(readRows, z)
        /\ z.page \subseteq readRows
    BY <1>2, <1>3, <1>11 DEF Walk, Shape
  <2>2. PositionOK(readRows, y) /\ Passed(readRows, y) = Passed(readRows, z) \cup {e}
    BY <1>2, <1>3, <1>4, <1>8, <2>1, MovePosition
  <2>3. SeenOK(readRows, y)
    BY <1>2, <1>3, <1>4, <1>8, <2>1, MoveSeen
  <2>4. VerdictOK(readRows, y)
    BY <1>2, <1>3, <1>8, <1>9, <1>11, <2>1, <2>2, CheckVerdict
  <2> QED BY <1>8, <2>1, <2>2, <2>3, <2>4 DEF Walk, Moves
<1>12. y.after = z.after /\ y.mode = z.mode
  BY <1>9 DEF SameRequest
<1>13. VerOK(y)
  BY <1>3, <1>8, <1>9, <1>10, <1>11, <1>12, CatchSame DEF VerOK
<1> QED BY <1>2, <1>7, <1>13, OneVerification

\* VerifyOne checks its row.
LEMMA CheckOneKeeps ==
  ASSUME VInv, NEW v \in Verifiers, CheckOne(v)
  PROVE  VInv'
<1>1. PICK z : z = ver[v]
  OBVIOUS
<1>2. z.pc = "one" /\ UNCHANGED <<vars, readRows, tamper, tamperSeen>>
  BY <1>1 DEF CheckOne
<1>3. /\ Shape(z) /\ PageOK(z)
      /\ z.after => tamperSeen
      /\ z.after = tamperSeen => Walk(readRows, z)
  BY <1>1, <1>2, RunningIs
<1>4. PICK e : e = First(z.page)
  OBVIOUS
<1>5. PICK reason : reason = BrokenReason(RowsOf(readRows, z.tenant), e, "one")
  OBVIOUS
<1>6. PICK x : x = Advance(Record(z, e, reason), e)
  OBVIOUS
<1>7. PICK y : y = [x EXCEPT !.pc = "done"]
  OBVIOUS
<1>8. ver' = [ver EXCEPT ![v] = y]
  BY <1>1, <1>4, <1>5, <1>6, <1>7 DEF CheckOne, VInv
<1>9. z.mode = "one" /\ z.page # {}
  BY <1>2, <1>3 DEF Shape
<1>10. /\ DOMAIN x = Fields /\ Moves(z, x, e) /\ PageOK(x) /\ IsRow(e)
       /\ ~tamperSeen => x.valid
       /\ x.broken \in Seq(Reports) /\ x.valid \in BOOLEAN
       /\ x.valid <=> x.broken = <<>>
  BY <1>1, <1>2, <1>4, <1>5, <1>6, <1>9, CheckedIs
<1>11. /\ DOMAIN y = Fields /\ SameRequest(x, y) /\ y.pc = "done"
       /\ y.page = x.page /\ y.lastSeq = x.lastSeq /\ y.chunk = x.chunk
       /\ y.count = x.count /\ y.valid = x.valid /\ y.broken = x.broken
  BY <1>7, <1>10 DEF Fields, SameRequest
<1>12. /\ y.after = z.after /\ y.mode = "one" /\ y.page \subseteq z.page
       /\ y.lastSeq \in Int /\ y.chunk \in Nat /\ y.count \in Nat
  BY <1>3, <1>9, <1>10, <1>11, RowSeq DEF Moves, SameRequest, Shape
<1>13. Shape(y) /\ PageOK(y)
  BY <1>3, <1>10, <1>11, <1>12 DEF Shape, PageOK, SameRequest
<1>14. VerOK(y)
  BY <1>3, <1>10, <1>11, <1>12, <1>13 DEF VerOK, Walk
<1> QED BY <1>2, <1>8, <1>14, OneVerification

\* A step that changes nothing.
LEMMA VStutter ==
  ASSUME VInv, UNCHANGED allVars
  PROVE  VInv'
<1>1. UNCHANGED <<vars, rows, readRows, ver, tamper, tamperSeen>>
  BY DEF allVars, vvars, vars
<1>2. PrimaryInv'
  <2>1. StoreInv' /\ (tamper = None => IInv')
    BY <1>1, StutterStore, StutterInv DEF VInv, PrimaryInv
  <2> QED BY <1>1, <2>1 DEF VInv, PrimaryInv
<1>3. ReplicaInv'
  BY <1>1 DEF VInv, ReplicaInv
<1>4. \A v \in Verifiers : VerOK(ver[v])'
  BY <1>1, VerOKSame DEF VInv
<1> QED BY <1>1, <1>2, <1>3, <1>4 DEF VInv

\* Every step of the writers, the verifications, the replication and the
\* environment keeps the invariant.
LEMMA VNextInv == VInv /\ [VNext]_allVars => VInv'
<1> SUFFICES ASSUME VInv, [VNext]_allVars PROVE VInv'
  OBVIOUS
<1>1. CASE Next /\ UNCHANGED vvars
  BY <1>1, WriterKeeps
<1>2. ASSUME NEW v \in Verifiers, Start(v) PROVE VInv'
  BY <1>2, StartKeeps, StartOneKeeps DEF Start
<1>3. ASSUME NEW v \in Verifiers, VerifyStep(v) PROVE VInv'
  BY <1>3, QueryPageKeeps, SkipRowKeeps, CheckRowKeeps, IdleKeeps, EndPageKeeps,
     CheckOneKeeps DEF VerifyStep
<1>4. ASSUME NEW v \in Verifiers, EndVerify(v) PROVE VInv'
  BY <1>4, IdleKeeps
<1>5. CASE Replicate
  BY <1>5, ReplicateKeeps
<1>6. ASSUME NEW r \in rows, NEW kind \in TamperKinds, NEW d \in ValidData,
             Tamper(r, kind, d)
      PROVE  VInv'
  BY <1>6, TamperKeeps
<1>7. CASE UNCHANGED allVars
  BY <1>7, VStutter
<1> QED BY <1>1, <1>2, <1>3, <1>4, <1>5, <1>6, <1>7 DEF VNext

-----------------------------------------------------------------------------
(* Theorems *)

\* The verifications, the chain and its replica keep the invariant, whatever
\* the writers of AuditStore.AppendBatch and the environment do meanwhile.
THEOREM VerifyInvariance == VSpec => []VInv
BY VInitInv, VNextInv, PTL DEF VSpec

\* A finished Verify or VerifyDeep, in a database that is as far as tampering
\* goes what it was at the start: the walk is complete and the verdict right.
LEMMA FinishedIs ==
  ASSUME VInv, NEW v \in Verifiers, Finished(v), Undisturbed(v)
  PROVE  /\ Shape(ver[v]) /\ Sound(readRows)
         /\ PositionOK(readRows, ver[v]) /\ SeenOK(readRows, ver[v])
         /\ VerdictOK(readRows, ver[v])
         /\ ver[v].pc = "done" /\ ver[v].mode # "one"
<1>1. ver[v].pc = "done" /\ ver[v].mode # "one" /\ ver[v].after = tamperSeen
  BY DEF Finished, Undisturbed
<1>2. Shape(ver[v]) /\ Sound(readRows) /\ Walk(readRows, ver[v])
  BY <1>1, RunningIs
<1> QED BY <1>1, <1>2 DEF Walk

\* The properties speak of the rows passed and the broken ones among them.
LEMMA WalkedIs ==
  ASSUME NEW v \in Verifiers
  PROVE  /\ Walked(v) = Passed(readRows, ver[v])
         /\ BrokenIDs(v) = IDs(BrokenPassed(readRows, ver[v]))
         /\ ReportedIDs(v) = Reported(ver[v])
<1>1. Walked(v) = Passed(readRows, ver[v])
  BY DEF Walked, Passed, InRange
<1>2. \A r : IsBroken(r) <=> BrokenIn(readRows, r)
  BY DEF IsBroken, BrokenIn
<1> QED BY <1>1, <1>2 DEF BrokenIDs, IDs, BrokenPassed, ReportedIDs, Reported

\* VInv gives each part of ReportsAreExact.
LEMMA ReportsFollow == VInv => ReportsAreExact
<1> SUFFICES ASSUME VInv PROVE ReportsAreExact
  OBVIOUS
<1>1. VTypeOK
  <2>1. TypeOK
    BY DEF VInv, PrimaryInv, StoreInv
  <2>2. ASSUME NEW v \in Verifiers, ver[v].pc # "idle" PROVE PageOK(ver[v])
    BY <2>2, RunningIs
  <2> QED BY <2>1, <2>2 DEF VTypeOK, PageOK
<1>2. NoFalseAlarm
  <2> SUFFICES ASSUME tamper = None, NEW v \in Verifiers, ver[v].pc # "idle"
               PROVE  ver[v].valid
    BY DEF NoFalseAlarm
  <2>1. ~tamperSeen
    BY DEF VInv, ReplicaInv
  <2> QED BY <2>1, RunningIs
<1>3. DeepIsExact
  <2> SUFFICES ASSUME NEW v \in Verifiers, Finished(v), ver[v].mode = "deep",
                      Undisturbed(v)
               PROVE  ReportedIDs(v) = BrokenIDs(v)
    BY DEF DeepIsExact
  <2>1. VerdictOK(readRows, ver[v]) /\ ver[v].mode # "first"
    BY FinishedIs
  <2> QED BY <2>1, WalkedIs DEF VerdictOK
<1>4. FirstIsFirst
  <2> SUFFICES ASSUME NEW v \in Verifiers, Finished(v), ver[v].mode = "first",
                      Undisturbed(v)
               PROVE  /\ ver[v].valid <=> BrokenIDs(v) = {}
                      /\ ~ver[v].valid =>
                           LET bad == {r \in Walked(v) : r.id \in BrokenIDs(v)}
                           IN  ReportedIDs(v) = {First(bad).id}
    BY DEF FirstIsFirst
  <2>1. PICK z : z = ver[v]
    OBVIOUS
  <2>2. Shape(z) /\ Sound(readRows) /\ VerdictOK(readRows, z) /\ z.mode = "first"
    BY <2>1, FinishedIs
  <2>3. /\ Walked(v) = Passed(readRows, z) /\ ReportedIDs(v) = Reported(z)
        /\ BrokenIDs(v) = IDs(BrokenPassed(readRows, z))
    BY <2>1, WalkedIs
  <2>4. BrokenPassed(readRows, z) = {} <=> IDs(BrokenPassed(readRows, z)) = {}
    BY DEF IDs
  <2>5. z.valid => BrokenPassed(readRows, z) = {}
    BY <2>2 DEF VerdictOK
  <2>6. ASSUME ~z.valid
        PROVE  /\ BrokenPassed(readRows, z) # {}
               /\ LET bad == {r \in Walked(v) : r.id \in BrokenIDs(v)}
                  IN  ReportedIDs(v) = {First(bad).id}
    <3>1. PICK b \in BrokenPassed(readRows, z) :
            Reported(z) = {b.id} /\ \A q \in BrokenPassed(readRows, z) : b.seq <= q.seq
      BY <2>2, <2>6 DEF VerdictOK
    <3>2. Passed(readRows, z) \subseteq readRows
      BY DEF Passed, InRange, RowsOf
    <3>3. BrokenPassed(readRows, z) \subseteq Passed(readRows, z)
      BY DEF BrokenPassed
    <3>4. PICK bad : bad = {r \in Walked(v) : r.id \in BrokenIDs(v)}
      OBVIOUS
    <3>5. bad = BrokenPassed(readRows, z)
      BY <2>2, <2>3, <3>2, <3>3, <3>4 DEF Sound, IDs
    <3>6. \A r \in bad : IsRow(r) /\ r.seq \in Nat
      BY <2>2, <3>2, <3>3, <3>5, SeqRange DEF Sound
    <3>7. First(bad) \in bad /\ \A q \in bad : First(bad).seq <= q.seq
      BY <3>1, <3>5, <3>6, FirstIs
    <3>8. First(bad).seq = b.seq
      BY <3>1, <3>5, <3>6, <3>7
    <3>9. First(bad) = b
      BY <2>2, <3>1, <3>2, <3>3, <3>5, <3>7, <3>8 DEF Sound
    <3> QED BY <2>3, <3>1, <3>4, <3>9
  <2> QED BY <2>1, <2>2, <2>3, <2>4, <2>5, <2>6 DEF Shape
<1> QED BY <1>1, <1>2, <1>3, <1>4 DEF ReportsAreExact

\* audit.Service.Verify, VerifyDeep and VerifyOne report no break in a chain
\* nobody tampered with; VerifyDeep lists exactly the broken rows and Verify
\* names the first, for any page size and any interleaving with appends,
\* replication and other verifications.
THEOREM ReportsExact == VSpec => []ReportsAreExact
BY VerifyInvariance, ReportsFollow, PTL

\* AuditStore.Walk passes each row of the window once, and misses none that was
\* visible when it started, although every page is a query of its own.
THEOREM WalkComplete == VSpec => []WalkIsComplete
<1>1. VInv => WalkIsComplete
  <2> SUFFICES ASSUME VInv, NEW v \in Verifiers, Finished(v), Undisturbed(v)
               PROVE  /\ ver[v].count = Cardinality(Walked(v))
                      /\ \A n \in ver[v].visible : n <= ver[v].lastSeq
    BY DEF WalkIsComplete
  <2> QED BY FinishedIs, WalkedIs DEF PositionOK, SeenOK
<1> QED BY VerifyInvariance, <1>1, PTL

\* A full verification that starts when the tampering can be seen fails, if a
\* chain of digests can show the tampering at all.
THEOREM TamperReported == VSpec => []TamperIsReported
<1>1. VInv => TamperIsReported
  <2> SUFFICES ASSUME VInv, NEW v \in Verifiers, Finished(v), ver[v].after,
                      ver[v].tenant = tamper.tenant, ~tamper.hidden,
                      \A x \in Times : ver[v].win.from <= x /\ x <= ver[v].win.to
               PROVE  ~ver[v].valid
    BY DEF TamperIsReported
  <2>1. PICK z : z = ver[v]
    OBVIOUS
  <2>2. z.pc = "done" /\ z.mode # "one"
    BY <2>1 DEF Finished
  <2>3. /\ Shape(z) /\ Sound(readRows) /\ z.after /\ tamperSeen
        /\ CatchOK(readRows, z, tamper.tenant) /\ z.tenant = tamper.tenant
    BY <2>1, <2>2, RunningIs
  <2>4. Undisturbed(v)
    <3>1. tamperSeen \in BOOLEAN /\ z.after \in BOOLEAN
      BY <2>3 DEF VInv, ReplicaInv, Shape
    <3>2. z.after = tamperSeen
      BY <2>3, <3>1
    <3> QED BY <2>1, <3>2 DEF Undisturbed
  <2>5. SeenOK(readRows, z) /\ VerdictOK(readRows, z)
    BY <2>1, <2>4, FinishedIs
  <2>6. PICK b \in RowsOf(readRows, z.tenant) :
          BrokenIn(readRows, b) /\ (InWindow(b, z.win) => b.seq \in z.visible)
    BY <2>3 DEF CatchOK
  <2>7. b.ts \in Times
    BY <2>3, <2>6 DEF Sound, IsRow, RowsOf
  <2>8. InWindow(b, z.win)
    BY <2>1, <2>7 DEF InWindow
  <2>9. b.seq <= z.lastSeq
    BY <2>2, <2>5, <2>6, <2>8 DEF SeenOK
  <2>10. b \in BrokenPassed(readRows, z)
    BY <2>6, <2>8, <2>9 DEF BrokenPassed, Passed, InRange
  <2>11. CASE z.mode = "first"
    BY <2>1, <2>5, <2>10, <2>11 DEF VerdictOK
  <2>12. CASE z.mode # "first"
    <3>1. b.id \in Reported(z)
      BY <2>5, <2>10, <2>12 DEF VerdictOK, IDs
    <3>2. z.broken # <<>>
      BY <3>1 DEF Reported
    <3> QED BY <2>1, <2>3, <3>2 DEF Shape
  <2> QED BY <2>11, <2>12
<1> QED BY VerifyInvariance, <1>1, PTL

=============================================================================

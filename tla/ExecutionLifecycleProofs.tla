---------------------- MODULE ExecutionLifecycleProofs ----------------------
(***************************************************************************)
(* Proofs about ExecutionLifecycle, for any number of callers, executions, *)
(* inputs and times.                                                       *)
(***************************************************************************)
EXTENDS ExecutionLifecycle, TLAPS

AnswerType ==
  /\ started \subseteq [id : Execs, asked : Times \cup {None}, row : Execution]
  /\ ended \subseteq [id : Execs, status : Terminal, asked : Times \cup {None},
                      row : Execution]

\* What a call has learnt from its earlier statements stays true while other
\* callers run: the end is not before the start, and after the UPDATE the
\* stored status is the one asked for.
CallOK(c) ==
  call[c] # Idle =>
    /\ call[c].asked \in {None, call[c].end}
    /\ call[c].pc # "get" =>
         Exists(call[c].id) /\ exec[call[c].id].startedAt <= call[c].end
    /\ call[c].pc = "reread" => exec[call[c].id].status = call[c].status

CallInv == \A c \in Callers : CallOK(c)

IInv ==
  /\ TypeOK /\ AnswerType /\ CallInv
  /\ EndAgreement /\ EndsAfterStart /\ StartIsStable

\* The initial state satisfies the invariant.
LEMMA InitInv == Init => IInv
BY TimesAssumption
   DEF Init, IInv, TypeOK, AnswerType, CallInv, CallOK, EndAgreement,
       EndsAfterStart,
       StartIsStable, Exists, NoExec, Idle, Execution, EndCall

\* A stored execution is an Execution, an idle call is none.
LEMMA Shapes ==
  ASSUME TypeOK
  PROVE  /\ \A x \in Execs : Exists(x) => exec[x] \in Execution
         /\ \A x \in Execs : Exists(x) <=> exec[x].status # "none"
         /\ \A c \in Callers : call[c] # Idle => call[c] \in EndCall
         /\ \A c \in Callers : call[c] # Idle <=> call[c].pc # "idle"
         /\ NoExec \notin Execution /\ Idle \notin EndCall
BY DEF TypeOK, Exists, Execution, NoExec, Running, Terminal, EndCall, Idle

\* A first start adds a running execution and changes no other.
LEMMA StartInv ==
  ASSUME IInv, NEW x \in Execs, NEW input \in Inputs,
         NEW at \in Times \cup {None}, NEW clock \in Times,
         StartExecution(x, input, at, clock)
  PROVE  IInv'
<1> DEFINE e == NewExec(input, IF at = None THEN clock ELSE at)
<1>1. e \in Execution /\ e.status = Running /\ e.endedAt = None /\ e # NoExec
      /\ e.startedAt = (IF at = None THEN clock ELSE at) /\ e.input = input
  BY TimesAssumption DEF NewExec, Execution, NoExec, Running
<1> HIDE DEF e
<1>2. /\ ~Exists(x) /\ exec' = [exec EXCEPT ![x] = e]
      /\ started' = started \cup {[id |-> x, asked |-> at, row |-> e]}
      /\ call' = call /\ ended' = ended
  BY DEF StartExecution, e
<1>3. TypeOK'
  BY <1>1, <1>2 DEF IInv, TypeOK, Exists
<1>4. AnswerType'
  BY <1>1, <1>2 DEF IInv, AnswerType
<1>5. CallInv'
  BY <1>2, Shapes DEF IInv, CallInv, CallOK, Exists, TypeOK, EndCall
<1>6. EndAgreement'
  BY <1>2, Shapes DEF IInv, EndAgreement, AnswerType, Exists, TypeOK
<1>7. EndsAfterStart'
  BY <1>1, <1>2 DEF IInv, EndsAfterStart, Exists, TypeOK
<1>8. StartIsStable'
  BY <1>1, <1>2, TimesAssumption DEF IInv, StartIsStable, AnswerType, Exists, TypeOK
<1> QED BY <1>3, <1>4, <1>5, <1>6, <1>7, <1>8 DEF IInv

\* A repeated start changes nothing but the answers.
LEMMA StartAgainInv ==
  ASSUME IInv, NEW x \in Execs, NEW input \in Inputs,
         NEW at \in Times \cup {None}, NEW clock \in Times,
         StartAgain(x, input, at, clock)
  PROVE  IInv'
<1> USE DEF StartAgain
<1>1. TypeOK' /\ CallInv' /\ EndAgreement' /\ EndsAfterStart'
  BY DEF IInv, TypeOK, CallInv, CallOK, EndAgreement, EndsAfterStart, Exists
<1>2. AnswerType'
  BY Shapes DEF IInv, AnswerType
<1>3. StartIsStable'
  BY DEF IInv, StartIsStable, Exists
<1> QED BY <1>1, <1>2, <1>3 DEF IInv

\* A new call of EndExecutionAt touches only its own local state.
LEMMA EndInv ==
  ASSUME IInv, NEW c \in Callers, NEW x \in Execs, NEW status \in Terminal,
         NEW asked \in Times \cup {None}, NEW clock \in Times,
         EndExecution(c, x, status, asked, clock)
  PROVE  IInv'
<1> DEFINE z == [pc |-> "get", id |-> x, status |-> status, asked |-> asked,
                 end |-> IF asked = None THEN clock ELSE asked]
<1>1. z \in EndCall /\ z.asked \in {None, z.end} /\ z.pc = "get"
  BY DEF EndCall
<1> HIDE DEF z
<1>2. call' = [call EXCEPT ![c] = z] /\ UNCHANGED <<exec, started, ended>>
  BY DEF EndExecution, z
<1>3. TypeOK'
  BY <1>1, <1>2 DEF IInv, TypeOK, Exists
<1>4. CallInv'
  BY <1>1, <1>2 DEF IInv, CallInv, CallOK, Exists, TypeOK
<1>5. AnswerType' /\ EndAgreement' /\ EndsAfterStart' /\ StartIsStable'
  BY <1>2 DEF IInv, AnswerType, EndAgreement, EndsAfterStart, StartIsStable,
              Exists
<1> QED BY <1>3, <1>4, <1>5 DEF IInv

\* A call that ends without an answer leaves only its local state changed.
LEMMA LeaveInv ==
  ASSUME IInv, NEW c \in Callers, call' = [call EXCEPT ![c] = Idle],
         UNCHANGED <<exec, started, ended>>
  PROVE  IInv'
BY DEF IInv, TypeOK, AnswerType, CallInv, CallOK, EndAgreement, EndsAfterStart,
       StartIsStable, Exists

\* An answer is true when it is given.
LEMMA AnswerInv ==
  ASSUME IInv, NEW c \in Callers, call[c] # Idle, Answer(c),
         UNCHANGED <<exec, started>>,
         Exists(call[c].id), exec[call[c].id].status = call[c].status,
         call[c].asked \in {None, exec[call[c].id].endedAt}
  PROVE  IInv'
<1>1. call[c] \in EndCall
  BY Shapes DEF IInv
<1>2. TypeOK' /\ CallInv' /\ EndsAfterStart' /\ StartIsStable'
  BY DEF Answer, IInv, TypeOK, CallInv, CallOK, EndsAfterStart, StartIsStable, Exists
<1>3. AnswerType'
  BY <1>1, Shapes DEF Answer, IInv, AnswerType, EndCall
<1>4. EndAgreement'
  BY DEF Answer, IInv, EndAgreement
<1> QED BY <1>2, <1>3, <1>4 DEF IInv

\* The first read: a call that goes on found the execution started before
\* the end it is about to store.
LEMMA GetInv ==
  ASSUME IInv, NEW c \in Callers, GetExecution(c)
  PROVE  IInv'
<1>1. call[c] # Idle /\ call[c] \in EndCall /\ call[c].pc = "get"
  BY Shapes DEF IInv, GetExecution
<1>2. Exists(call[c].id)
  BY <1>1 DEF GetExecution, Refuses
<1>3. CASE AlreadyEnded(call[c])
  BY <1>1, <1>2, <1>3, AnswerInv DEF GetExecution, AlreadyEnded
<1>4. CASE ~AlreadyEnded(call[c])
  <2>1. exec[call[c].id].startedAt <= call[c].end
    <3>1. ~(call[c].end < exec[call[c].id].startedAt)
      BY <1>1, <1>2, <1>4 DEF GetExecution, Refuses, TooEarly
    <3>2. exec[call[c].id] \in Execution
      BY <1>1, <1>2, Shapes DEF IInv, EndCall
    <3>3. call[c].end \in Nat /\ exec[call[c].id].startedAt \in Nat
      BY <1>1, <3>2, TimesAssumption DEF EndCall, Execution
    <3> QED BY <3>1, <3>3
  <2>2. call' = [call EXCEPT ![c].pc = "update"]
        /\ UNCHANGED <<exec, started, ended>>
    BY <1>4 DEF GetExecution, Goto
  <2>3. TypeOK'
    BY <1>1, <2>2 DEF IInv, TypeOK, Exists, EndCall
  <2>4. CallInv'
    BY <1>1, <1>2, <2>1, <2>2 DEF IInv, CallInv, CallOK, Exists, TypeOK, EndCall, Idle
  <2> QED BY <2>2, <2>3, <2>4 DEF IInv, AnswerType, EndAgreement,
             EndsAfterStart, StartIsStable, Exists
<1> QED BY <1>3, <1>4

\* The UPDATE: it changes a running execution, about whose end no client has
\* been told anything, or nothing at all.
LEMMA UpdateInv ==
  ASSUME IInv, NEW c \in Callers, UpdateExecutionStatus(c)
  PROVE  IInv'
<1> DEFINE z == call[c]
<1>1. z # Idle /\ z \in EndCall /\ z.pc = "update" /\ Exists(z.id)
      /\ exec[z.id].startedAt <= z.end /\ exec[z.id] \in Execution
  BY Shapes DEF IInv, UpdateExecutionStatus, CallInv, CallOK, EndCall
<1>2. call' = [call EXCEPT ![c].pc = "reread"] /\ UNCHANGED <<started, ended>>
  BY DEF UpdateExecutionStatus, Goto
<1>3. CASE Updates(z.id)
  <2> DEFINE e == [exec[z.id] EXCEPT !.status = z.status, !.endedAt = z.end]
  <2>1. exec' = [exec EXCEPT ![z.id] = e]
    BY <1>1, <1>3 DEF UpdateExecutionStatus, IInv, TypeOK
  <2>2. /\ e \in Execution /\ e # NoExec
        /\ e.status = z.status /\ e.endedAt = z.end /\ e.status # Running
        /\ e.startedAt = exec[z.id].startedAt /\ e.input = exec[z.id].input
        /\ e.endedAt # None
    BY <1>1, TimesAssumption
       DEF Execution, EndCall, NoExec, Terminal, Running
  <2> HIDE DEF e
  <2>3. TypeOK'
    BY <1>1, <1>2, <2>1, <2>2 DEF IInv, TypeOK, Exists, EndCall
  <2>4. CallInv'
    <3> SUFFICES ASSUME NEW d \in Callers PROVE CallOK(d)'
      BY DEF CallInv
    <3>1. CASE d = c
      BY <1>1, <1>2, <2>1, <2>2, <3>1
         DEF IInv, CallInv, CallOK, Exists, TypeOK, EndCall
    <3>2. CASE d # c
      <4>1. call'[d] = call[d] /\ CallOK(d)
            /\ (call[d] # Idle => call[d] \in EndCall)
        BY <1>2, <3>2, Shapes DEF IInv, TypeOK, CallInv, CallOK
      <4>2. call[d] # Idle /\ call[d].pc = "reread" => call[d].id # z.id
        BY <1>1, <1>3, <4>1
           DEF IInv, CallInv, CallOK, Updates, EndCall, Running, Terminal
      <4> QED BY <4>1, <4>2, <1>1, <2>1, <2>2
              DEF IInv, CallInv, CallOK, Exists, TypeOK, EndCall
    <3> QED BY <3>1, <3>2
  <2>5. EndAgreement'
    <3>1. \A a \in ended : a.id # z.id
      BY <1>3 DEF IInv, EndAgreement, AnswerType, Updates, Running, Terminal
    <3> QED BY <3>1, <1>1, <1>2, <2>1 DEF IInv, EndAgreement, TypeOK, AnswerType
  <2>6. EndsAfterStart'
    BY <1>1, <2>1, <2>2 DEF IInv, EndsAfterStart, Exists, TypeOK
  <2>7. StartIsStable'
    BY <1>1, <1>2, <2>1, <2>2
       DEF IInv, StartIsStable, AnswerType, Exists, TypeOK, EndCall
  <2> QED BY <1>2, <2>3, <2>4, <2>5, <2>6, <2>7 DEF IInv, AnswerType
<1>4. CASE ~Updates(z.id)
  <2>1. exec' = exec /\ exec[z.id].status = z.status
    BY <1>1, <1>4 DEF UpdateExecutionStatus, Refuses
  <2>2. TypeOK'
    BY <1>1, <1>2, <2>1 DEF IInv, TypeOK, Exists, EndCall
  <2>3. CallInv'
    BY <1>1, <1>2, <2>1 DEF IInv, CallInv, CallOK, Exists, TypeOK, EndCall, Idle
  <2> QED BY <1>2, <2>1, <2>2, <2>3 DEF IInv, AnswerType, EndAgreement,
             EndsAfterStart, StartIsStable, Exists
<1> QED BY <1>3, <1>4

\* The last read: an explicit end is answered only if it is the stored one.
LEMMA RereadInv ==
  ASSUME IInv, NEW c \in Callers, Reread(c)
  PROVE  IInv'
<1>1. call[c] # Idle /\ call[c] \in EndCall /\ call[c].pc = "reread"
  BY Shapes DEF IInv, Reread
<1>2. /\ Exists(call[c].id) /\ exec[call[c].id].status = call[c].status
      /\ call[c].asked \in {None, call[c].end}
  BY <1>1 DEF IInv, CallInv, CallOK
<1>3. Confirms(call[c])
  BY <1>1 DEF Reread, Refuses
<1> QED BY <1>1, <1>2, <1>3, AnswerInv DEF Reread, Confirms

\* Every step preserves the invariant.
LEMMA NextInv == IInv /\ [Next]_vars => IInv'
<1> SUFFICES ASSUME IInv, [Next]_vars PROVE IInv'
  OBVIOUS
<1>1. ASSUME NEW x \in Execs, Start(x) PROVE IInv'
  BY <1>1, StartInv, StartAgainInv DEF Start
<1>2. ASSUME NEW c \in Callers, EndStep(c) PROVE IInv'
  BY <1>2, GetInv, UpdateInv, RereadInv, LeaveInv DEF EndStep, Refuse
<1>3. ASSUME NEW c \in Callers, GiveUp(c) PROVE IInv'
  BY <1>3, LeaveInv DEF GiveUp
<1>4. CASE UNCHANGED vars
  BY <1>4 DEF vars, IInv, TypeOK, AnswerType, CallInv, CallOK, EndAgreement,
              EndsAfterStart, StartIsStable, Exists
<1> QED BY <1>1, <1>2, <1>3, <1>4, EndInv DEF Next

\* A step leaves a terminal execution alone.
LEMMA TerminalStep ==
  ASSUME IInv, [Next]_vars, NEW x \in Execs,
         Exists(x), exec[x].status \in Terminal
  PROVE  exec'[x] = exec[x]
<1>1. ASSUME NEW y \in Execs, Start(y) PROVE exec'[x] = exec[x]
  BY <1>1 DEF Start, StartExecution, StartAgain, IInv, TypeOK
<1>2. ASSUME NEW c \in Callers, UpdateExecutionStatus(c)
      PROVE  exec'[x] = exec[x]
  BY <1>2, Shapes DEF UpdateExecutionStatus, Updates, Running, Terminal, IInv, TypeOK
<1>3. CASE UNCHANGED vars
  BY <1>3 DEF vars
<1> QED BY <1>1, <1>2, <1>3
        DEF Next, EndExecution, EndStep, GetExecution, Reread, Refuse, GiveUp

\* The invariant is an invariant.
THEOREM Invariance == Spec => []IInv
BY InitInv, NextInv, PTL DEF Spec

\* StartExecution and EndExecutionAt keep the executions table well formed.
THEOREM TypeCorrect == Spec => []TypeOK
<1>1. IInv => TypeOK
  BY DEF IInv
<1> QED BY <1>1, Invariance, PTL

\* Clients that are told an execution ended are all told the same, stored end.
THEOREM EndsAgree == Spec => []EndAgreement
<1>1. IInv => EndAgreement
  BY DEF IInv
<1> QED BY <1>1, Invariance, PTL

\* The end stored by UpdateExecutionStatus is not before the start.
THEOREM EndsLate == Spec => []EndsAfterStart
<1>1. IInv => EndsAfterStart
  BY DEF IInv
<1> QED BY <1>1, Invariance, PTL

\* Retrying a start returns the stored execution and its original start time.
THEOREM StartsStable == Spec => []StartIsStable
<1>1. IInv => StartIsStable
  BY DEF IInv
<1> QED BY <1>1, Invariance, PTL

\* A confirmed end request is never refused when it is sent again.
THEOREM RetriesSafe == Spec => []EndRetryIsSafe
<1>1. IInv => EndRetryIsSafe
  <2> SUFFICES ASSUME IInv, NEW c \in Callers, call[c].pc # "idle",
                      NEW a \in ended, a.id = call[c].id,
                      a.status = call[c].status, a.asked = call[c].asked
               PROVE  ~Refuses(call[c])
    BY DEF EndRetryIsSafe, Confirmed
  <2>1. call[c] # Idle /\ call[c] \in EndCall
    BY Shapes DEF IInv, Idle
  <2>2. /\ exec[call[c].id] = a.row /\ a.row \in Execution
        /\ a.row.status = call[c].status
        /\ call[c].asked \in {None, a.row.endedAt}
        /\ call[c].asked \in {None, call[c].end}
    BY <2>1 DEF IInv, EndAgreement, AnswerType, CallInv, CallOK
  <2>3. Exists(call[c].id)
    BY <2>1, <2>2, Shapes DEF IInv, Exists
  <2>4. ASSUME call[c].asked # None PROVE ~TooEarly(call[c])
    <3>1. call[c].end = a.row.endedAt /\ a.row.startedAt <= a.row.endedAt
      BY <2>1, <2>2, <2>3, <2>4, TimesAssumption
         DEF IInv, EndsAfterStart, EndCall, Execution
    <3>2. a.row.startedAt \in Nat /\ call[c].end \in Nat
      BY <2>1, <2>2, TimesAssumption DEF EndCall, Execution
    <3> QED BY <2>2, <3>1, <3>2 DEF TooEarly
  <2>5. AlreadyEnded(call[c]) \/ ~TooEarly(call[c])
    BY <2>2, <2>4 DEF AlreadyEnded
  <2>6. Confirms(call[c])
    BY <2>2 DEF Confirms
  <2> QED BY <2>2, <2>3, <2>5, <2>6 DEF Refuses
<1> QED BY <1>1, Invariance, PTL

\* UpdateExecutionStatus never changes a terminal execution.
THEOREM TerminalStays == Spec => TerminalIsFinal
<1>1. IInv /\ [Next]_vars =>
        [\A x \in Execs : Exists(x) /\ exec[x].status \in Terminal
                          => exec'[x] = exec[x]]_vars
  BY TerminalStep
<1> QED BY <1>1, Invariance, PTL DEF Spec, TerminalIsFinal

=============================================================================

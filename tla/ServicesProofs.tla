--------------------------- MODULE ServicesProofs ---------------------------
(***************************************************************************)
(* Proofs for the parts of the platform that read, send and delete what is *)
(* stored: retention, notices, the live feed, share links and the          *)
(* transparency log.                                                       *)
(***************************************************************************)
EXTENDS ShareLinks, Retention, Notices, LiveFeed, Transparency,
        FiniteSetTheorems, SequenceTheorems, WellFoundedInduction, TLAPS

-----------------------------------------------------------------------------
(***************************************************************************)
(* Retention.  A message is inserted before it is acknowledged and a       *)
(* session is looked up before it is written to, so what a request in      *)
(* flight has done so far is part of the invariant.                        *)
(***************************************************************************)

CopCalls == [pc : {"idle", "insert", "touch"}, session : Sessions \cup {NoOne}, day : Nat]

SweepPCs == {"idle", "events", "executions", "audit", "messages", "sessions", "delete"}

RetTypes ==
  /\ today \in 0..FinalDay /\ auditSwept \in 0..today
  /\ touched \in [Sessions -> 0..NoDay] /\ ackDay \in [Sessions -> 0..NoDay]
  /\ transcript \subseteq Sessions \X (0..today) /\ acked \subseteq Sessions \X (0..today)
  /\ copCall \in [Callers -> CopCalls]
  /\ executions \subseteq 0..today /\ spanRows \subseteq 0..today /\ auditRows \subseteq 0..today
  /\ recorded \in [spans : SUBSET (0..today), audit : SUBSET (0..today)]
  /\ sweep \in [Sweepers -> SweepPCs]
  /\ chosen \in [Sweepers -> SUBSET Sessions] /\ overtaken \subseteq Sessions

\* A session that is there was answered no later than it was touched; one that
\* is gone was answered longer ago than it can be resumed, or was overtaken.
SessionInv ==
  \A s \in Sessions :
    /\ touched[s] # NoDay => ackDay[s] # NoDay /\ ackDay[s] <= touched[s] /\ touched[s] <= today
    /\ touched[s] = NoDay /\ ackDay[s] # NoDay /\ s \notin overtaken =>
         ackDay[s] + ResumeDays < today

\* A message belongs to a stored session.
OwnerInv == \A m \in transcript : touched[m[1]] # NoDay

\* What a request has inserted stays until it is due, before it is acknowledged.
InsertedInv ==
  \A c \in Callers : copCall[c].pc # "idle" =>
    /\ copCall[c].session \in Sessions
    /\ copCall[c].pc = "touch" =>
         /\ copCall[c].day \in 0..today
         /\ copCall[c].session \notin overtaken /\ today <= copCall[c].day + TranscriptDays =>
              <<copCall[c].session, copCall[c].day>> \in transcript

\* A session that a DELETE has selected is stale and empty until it is written to.
ChosenInv ==
  \A w \in Sweepers : \A s \in chosen[w] : s \notin overtaken /\ touched[s] # NoDay =>
    touched[s] + ResumeDays < today /\ \A m \in transcript : m[1] # s

RetentionInv ==
  /\ RetTypes /\ SessionInv /\ OwnerInv /\ InsertedInv /\ ChosenInv
  /\ HistoryStays /\ TranscriptIsKept

\* What a step of a request does to the state of the sweepers.
Beside ==
  /\ overtaken' = overtaken \cup (Written \cap UNION {chosen[w] : w \in Sweepers})
  /\ UNCHANGED <<sweptRows, recorded, sweep, auditSwept, chosen>>

\* A request overtakes nothing but what it writes to.
LEMMA BesideIs ==
  ASSUME RetTypes, Beside
  PROVE  /\ overtaken \subseteq overtaken' /\ overtaken' \subseteq Sessions
         /\ \A w \in Sweepers : \A s \in chosen[w] : s \notin overtaken' =>
              /\ touched'[s] = touched[s]
              /\ \A m \in transcript' : m[1] = s => m \in transcript
         /\ UNCHANGED <<sweptRows, recorded, sweep, auditSwept, chosen>>
<1>1. overtaken' = overtaken \cup (Written \cap UNION {chosen[w] : w \in Sweepers})
      /\ Written \subseteq Sessions
  BY DEF Beside, Written
<1>2. ASSUME NEW w \in Sweepers, NEW s \in chosen[w], s \notin overtaken'
      PROVE  touched'[s] = touched[s] /\ \A m \in transcript' : m[1] = s => m \in transcript
  <2>1. s \notin Written /\ s \in Sessions  BY <1>1, <1>2 DEF RetTypes
  <2>2. QED  BY <2>1 DEF Written
<1>3. QED  BY <1>1, <1>2 DEF Beside, RetTypes

\* What no request has written to is still stale and empty.
LEMMA ChosenKeeps ==
  ASSUME RetTypes, ChosenInv, Beside, today' \in {today, today + 1}
  PROVE  ChosenInv'
<1> SUFFICES ASSUME NEW w \in Sweepers, NEW s \in chosen'[w], s \notin overtaken', touched'[s] # NoDay'
             PROVE  touched'[s] + ResumeDays < today' /\ \A m \in transcript' : m[1] # s
  BY DEF ChosenInv
<1>1. chosen' = chosen /\ s \notin overtaken /\ touched'[s] = touched[s] /\ NoDay' = NoDay
      /\ \A m \in transcript' : m[1] = s => m \in transcript
  BY BesideIs DEF NoDay
<1>2. touched[s] + ResumeDays < today /\ \A m \in transcript : m[1] # s
  BY <1>1 DEF ChosenInv
<1>3. touched[s] \in Nat /\ today \in Nat /\ ResumeDays \in Nat
  BY <1>1, CopilotAssumption DEF RetTypes, NoDay
<1>4. touched[s] + ResumeDays < today'  BY <1>2, <1>3
<1>5. QED  BY <1>1, <1>2, <1>4

\* A statement with LIMIT touches rows that it selects.
LEMMA BatchIsSelected ==
  ASSUME NEW rows, NEW batch \in Batches(rows)
  PROVE  batch \subseteq rows
  BY DEF Batches, kSubset

\* When nothing is selected nothing is touched.
LEMMA NoneSelected ==
  ASSUME NEW batch \in Batches({})
  PROVE  batch = {}
  BY BatchIsSelected

\* The invariant holds of the empty database.
LEMMA RetentionInit_ == RetentionInit => RetentionInv
  BY RetentionAssumption, CopilotAssumption
     DEF RetentionInit, CopilotInit, RetentionInv, RetTypes, SweepPCs, SessionInv, OwnerInv, InsertedInv,
         ChosenInv, HistoryStays, TranscriptIsKept, CopCalls, CopIdle, NoDay

\* A new session is touched and answered on the day it is made.
LEMMA CreateSessionKeeps ==
  ASSUME RetentionInv, NEW s \in Sessions, CreateSession(s),
         Beside
  PROVE  RetentionInv'
<1> USE CopilotAssumption, RetentionAssumption DEF RetentionInv, CreateSession, sweptRows, NoDay
<1>0. /\ overtaken \subseteq overtaken' /\ overtaken' \subseteq Sessions
      /\ UNCHANGED <<sweptRows, recorded, sweep, auditSwept, chosen>>
  BY BesideIs
<1>1. RetTypes'
  BY <1>0 DEF RetTypes
<1>2. SessionInv'
  BY <1>0 DEF RetTypes, SessionInv
<1>3. OwnerInv' /\ ChosenInv'
  BY ChosenKeeps DEF RetTypes, OwnerInv
<1>4. InsertedInv' /\ HistoryStays' /\ TranscriptIsKept'
  BY <1>0 DEF RetTypes, InsertedInv, HistoryStays, TranscriptIsKept
<1> QED BY <1>1, <1>2, <1>3, <1>4

\* A request looks up the session it will write to.
LEMMA AppendMessagesKeeps ==
  ASSUME RetentionInv, NEW s \in Sessions, NEW c \in Callers, AppendMessages(c, s),
         Beside
  PROVE  RetentionInv'
<1> USE CopilotAssumption, RetentionAssumption
    DEF RetentionInv, AppendMessages, sweptRows, copTables, copHistory, CopBecomes
<1> PICK r : r = [CopIdle EXCEPT !.pc = "insert", !.session = s]
  OBVIOUS
<1>0. r \in CopCalls /\ r.pc = "insert" /\ r.session = s /\ copCall' = [copCall EXCEPT ![c] = r]
  BY DEF CopCalls, CopIdle
<1>b. /\ overtaken \subseteq overtaken' /\ overtaken' \subseteq Sessions
      /\ UNCHANGED <<sweptRows, recorded, sweep, auditSwept, chosen>>
  BY BesideIs
<1>1. RetTypes'
  BY <1>0, <1>b DEF RetTypes
<1>2. SessionInv' /\ OwnerInv' /\ HistoryStays' /\ TranscriptIsKept' /\ ChosenInv'
  BY <1>b, ChosenKeeps DEF SessionInv, OwnerInv, HistoryStays, TranscriptIsKept
<1>3. InsertedInv'
  BY <1>0, <1>b DEF RetTypes, InsertedInv
<1> QED BY <1>1, <1>2, <1>3

\* The request after its insert.
LEMMA Becoming ==
  ASSUME NEW x \in CopCalls, NEW d \in Nat
  PROVE  LET r == [x EXCEPT !.pc = "touch", !.day = d] IN
         r \in CopCalls /\ r.pc = "touch" /\ r.session = x.session /\ r.day = d
  BY DEF CopCalls

\* A message is inserted for a session that is stored, dated today.
LEMMA InsertMessagesKeeps ==
  ASSUME RetentionInv, NEW c \in Callers, InsertMessages(c),
         Beside
  PROVE  RetentionInv'
<1> USE CopilotAssumption, RetentionAssumption
    DEF RetentionInv, sweptRows, copTables, copHistory, CopBecomes
<1> DEFINE s == copCall[c].session
<1>0. s \in Sessions /\ copCall[c] \in CopCalls /\ copCall[c].pc = "insert"
  BY DEF RetTypes, InsertedInv, InsertMessages
<1>b. /\ overtaken \subseteq overtaken' /\ overtaken' \subseteq Sessions
      /\ UNCHANGED <<sweptRows, recorded, sweep, auditSwept, chosen>>
      /\ ChosenInv'
  BY BesideIs, ChosenKeeps DEF InsertMessages
<1>A. CASE Exists(s) /\ transcript' = transcript \cup {<<s, today>>}
           /\ CopBecomes(c, [copCall[c] EXCEPT !.pc = "touch", !.day = today])
  <2> PICK r : r = [copCall[c] EXCEPT !.pc = "touch", !.day = today]
    OBVIOUS
  <2>0. r \in CopCalls /\ r.pc = "touch" /\ r.session = s /\ r.day = today
        /\ copCall' = [copCall EXCEPT ![c] = r]
    <3>1. today \in Nat
      BY DEF RetTypes
    <3>2. r \in CopCalls /\ r.pc = "touch" /\ r.session = s /\ r.day = today
      BY <1>0, <3>1, Becoming DEF CopCalls
    <3> QED BY <1>A, <3>2
  <2> HIDE DEF s
  <2>1. RetTypes'
    BY <1>0, <1>b, <1>A, <2>0 DEF RetTypes, InsertMessages
  <2>2. SessionInv' /\ HistoryStays' /\ TranscriptIsKept'
    BY <1>A, <1>b DEF SessionInv, HistoryStays, TranscriptIsKept, InsertMessages
  <2>3. OwnerInv'
    BY <1>A DEF OwnerInv, InsertMessages, Exists
  <2>4. InsertedInv'
    BY <1>0, <1>b, <1>A, <2>0 DEF RetTypes, InsertedInv, InsertMessages
  <2> QED BY <1>b, <2>1, <2>2, <2>3, <2>4
<1>B. CASE CopFinish(c) /\ UNCHANGED transcript
  <2>0. CopIdle \in CopCalls /\ CopIdle.pc = "idle" /\ copCall' = [copCall EXCEPT ![c] = CopIdle]
    BY <1>B DEF CopCalls, CopIdle, CopFinish
  <2>1. RetTypes'
    BY <1>B, <1>b, <2>0 DEF RetTypes, InsertMessages
  <2>2. SessionInv' /\ HistoryStays' /\ TranscriptIsKept' /\ OwnerInv'
    BY <1>B, <1>b DEF SessionInv, HistoryStays, TranscriptIsKept, InsertMessages, OwnerInv
  <2>3. InsertedInv'
    BY <1>B, <1>b, <2>0 DEF RetTypes, InsertedInv, InsertMessages
  <2> QED BY <1>b, <2>1, <2>2, <2>3
<1> QED BY <1>A, <1>B DEF InsertMessages

\* The touch acknowledges what was inserted, which is there until it is due.
LEMMA TouchSessionKeeps ==
  ASSUME RetentionInv, NEW c \in Callers, TouchSession(c),
         Beside
  PROVE  RetentionInv'
<1> USE CopilotAssumption, RetentionAssumption
    DEF RetentionInv, sweptRows, copTables, copHistory, CopBecomes
<1> DEFINE s == copCall[c].session  d == copCall[c].day
<1>0. s \in Sessions /\ d \in 0..today /\ copCall[c].pc = "touch"
      /\ (s \notin overtaken /\ today <= d + TranscriptDays => <<s, d>> \in transcript)
  BY DEF RetTypes, InsertedInv, TouchSession
<1>1. CopIdle \in CopCalls /\ CopIdle.pc = "idle" /\ copCall' = [copCall EXCEPT ![c] = CopIdle]
  BY DEF CopCalls, CopIdle, CopFinish, TouchSession
<1>2. today' = today /\ transcript' = transcript
      /\ \/ /\ touched[s] # NoDay
            /\ touched' = [touched EXCEPT ![s] = today]
            /\ acked' = acked \cup {<<s, d>>}
            /\ ackDay' = [ackDay EXCEPT ![s] = today]
         \/ touched' = touched /\ acked' = acked /\ ackDay' = ackDay
  BY DEF TouchSession, Exists, TouchedAt
<1>b. /\ overtaken \subseteq overtaken' /\ overtaken' \subseteq Sessions
      /\ UNCHANGED <<sweptRows, recorded, sweep, auditSwept, chosen>>
      /\ ChosenInv'
  BY <1>2, BesideIs, ChosenKeeps
<1> HIDE DEF s, d
<1>3. RetTypes'
  BY <1>0, <1>1, <1>2, <1>b DEF RetTypes, NoDay
<1>4. SessionInv'
  BY <1>0, <1>2, <1>b DEF RetTypes, SessionInv, NoDay
<1>5. OwnerInv' /\ HistoryStays'
  BY <1>0, <1>2, <1>b DEF RetTypes, OwnerInv, HistoryStays, NoDay
<1>6. InsertedInv'
  BY <1>1, <1>2, <1>b DEF RetTypes, InsertedInv
<1>7. TranscriptIsKept'
  BY <1>0, <1>2, <1>b DEF TranscriptIsKept
<1> QED BY <1>b, <1>3, <1>4, <1>5, <1>6, <1>7

\* A request that ends early acknowledges nothing.
LEMMA CopDiesKeeps ==
  ASSUME RetentionInv, NEW c \in Callers, CopDies(c),
         Beside
  PROVE  RetentionInv'
<1> USE CopilotAssumption, RetentionAssumption
    DEF RetentionInv, sweptRows, copTables, copHistory, CopBecomes, CopDies
<1>0. CopIdle \in CopCalls /\ CopIdle.pc = "idle" /\ copCall' = [copCall EXCEPT ![c] = CopIdle]
  BY DEF CopCalls, CopIdle, CopFinish
<1>b. /\ overtaken \subseteq overtaken' /\ overtaken' \subseteq Sessions
      /\ UNCHANGED <<sweptRows, recorded, sweep, auditSwept, chosen>>
  BY BesideIs
<1>1. RetTypes'
  BY <1>0, <1>b DEF RetTypes
<1>2. SessionInv' /\ HistoryStays' /\ TranscriptIsKept' /\ OwnerInv' /\ ChosenInv'
  BY <1>b, ChosenKeeps DEF SessionInv, HistoryStays, TranscriptIsKept, OwnerInv
<1>3. InsertedInv'
  BY <1>0, <1>b DEF RetTypes, InsertedInv
<1> QED BY <1>1, <1>2, <1>3

\* A day passes: what was kept is kept, or has become due.
LEMMA NextDayKeeps ==
  ASSUME RetentionInv, NextDay, Beside
  PROVE  RetentionInv'
<1> USE CopilotAssumption, RetentionAssumption
    DEF RetentionInv, sweptRows, copTables, copHistory, NextDay
<1>b. /\ overtaken \subseteq overtaken' /\ overtaken' \subseteq Sessions
      /\ UNCHANGED <<sweptRows, recorded, sweep, auditSwept, chosen>>
      /\ ChosenInv'
  BY BesideIs, ChosenKeeps
<1>1. RetTypes'
  <2>1. today' \in 0..FinalDay /\ 0..today \subseteq 0..today'
    BY DEF RetTypes
  <2>2. Sessions \X (0..today) \subseteq Sessions \X (0..today')
        /\ SUBSET (0..today) \subseteq SUBSET (0..today')
    BY <2>1
  <2>3. recorded' \in [spans : SUBSET (0..today'), audit : SUBSET (0..today')]
    BY <2>2, <1>b DEF RetTypes
  <2> QED BY <1>b, <2>1, <2>2, <2>3 DEF RetTypes
<1>2. SessionInv'
  BY <1>b DEF RetTypes, SessionInv, NoDay
<1>3. HistoryStays' /\ OwnerInv'
  BY <1>b DEF HistoryStays, OwnerInv
<1>4. TranscriptIsKept'
  <2> SUFFICES ASSUME NEW m \in acked, m[1] \notin overtaken', today + 1 <= m[2] + TranscriptDays
               PROVE  m \in transcript
    BY <1>b DEF TranscriptIsKept
  <2>1. m[2] \in Nat /\ today \in Nat
    BY DEF RetTypes
  <2> QED BY <1>b, <2>1 DEF TranscriptIsKept
<1>5. InsertedInv'
  BY <1>b DEF RetTypes, InsertedInv
<1> QED BY <1>b, <1>1, <1>2, <1>3, <1>4, <1>5

\* What is recorded is recorded on the current day.
LEMMA RecordHistoryKeeps ==
  ASSUME RetentionInv, RecordHistory
  PROVE  RetentionInv'
<1> USE DEF RetentionInv, RecordHistory, RecordAudit, RecordExecution, RecordSpan,
            copUntouched, copTables, copHistory
<1>0. today \in 0..today
  BY CopilotAssumption DEF RetTypes
<1>1. UNCHANGED <<copUntouched, sweep, auditSwept, deleting>>
  OBVIOUS
<1>2. /\ executions' \subseteq 0..today
      /\ \/ /\ auditRows' = auditRows \cup {today}
            /\ recorded' = [recorded EXCEPT !.audit = @ \cup {today}]
            /\ UNCHANGED spanRows
         \/ UNCHANGED <<auditRows, spanRows, recorded>>
         \/ /\ spanRows' = spanRows \cup {today}
            /\ recorded' = [recorded EXCEPT !.spans = @ \cup {today}]
            /\ UNCHANGED auditRows
  BY <1>0 DEF RetTypes
<1>3. RetTypes'
  <2>1. recorded' \in [spans : SUBSET (0..today), audit : SUBSET (0..today)]
    BY <1>0, <1>2 DEF RetTypes
  <2>2. spanRows' \subseteq 0..today /\ auditRows' \subseteq 0..today
    BY <1>0, <1>2 DEF RetTypes
  <2> QED BY <1>1, <1>2, <2>1, <2>2 DEF RetTypes, deleting
<1>4. HistoryStays'
  BY <1>2 DEF HistoryStays, RetTypes
<1>5. SessionInv' /\ OwnerInv' /\ InsertedInv' /\ ChosenInv' /\ TranscriptIsKept'
  BY <1>1 DEF SessionInv, OwnerInv, InsertedInv, ChosenInv, TranscriptIsKept, deleting
<1> QED BY <1>3, <1>4, <1>5

\* A step that leaves all tables of the sweep alone but executions.
LEMMA SweepHistoryKeeps ==
  ASSUME RetentionInv, NEW w \in Sweepers,
         SweepEvents(w) \/ SweepExecutions(w) \/ SweepAudit(w) \/ BeginSweep(w) \/ SweeperStops(w)
  PROVE  RetentionInv'
<1> USE DEF RetentionInv
<1>0. /\ overtaken' = overtaken /\ chosen' \in [Sweepers -> SUBSET Sessions]
      /\ \A v \in Sweepers : chosen'[v] \subseteq chosen[v]
  BY DEF SweepEvents, SweepExecutions, SweepAudit, BeginSweep, SweeperStops, deleting, RetTypes
<1>1. UNCHANGED <<copUntouched, recorded>>
  BY DEF SweepEvents, SweepExecutions, SweepAudit, BeginSweep, SweeperStops
<1>2. spanRows' = spanRows
  <2>1. CASE SweepEvents(w)
    BY <2>1, NoneSelected DEF SweepEvents, AppendOnly
  <2> QED BY <2>1 DEF SweepExecutions, SweepAudit, BeginSweep, SweeperStops, sweptRows
<1>3. auditRows' = auditRows
  <2>1. CASE SweepAudit(w)
    BY <2>1, NoneSelected DEF SweepAudit, AppendOnly
  <2> QED BY <2>1 DEF SweepExecutions, SweepEvents, BeginSweep, SweeperStops, sweptRows
<1>4. executions' \subseteq executions
  BY DEF SweepEvents, SweepExecutions, SweepAudit, BeginSweep, SweeperStops, sweptRows
<1>5. auditSwept' \in {auditSwept, today}
  BY DEF SweepEvents, SweepExecutions, SweepAudit, BeginSweep, SweeperStops
<1>6. \E pc \in SweepPCs :
        sweep' = [sweep EXCEPT ![w] = pc]
  BY DEF SweepEvents, SweepExecutions, SweepAudit, BeginSweep, SweeperStops, SweepAt, Looped, RetTypes,
         SweepPCs
<1>7. RetTypes'
  BY <1>0, <1>1, <1>2, <1>3, <1>4, <1>5, <1>6 DEF RetTypes, copUntouched, copTables, copHistory
<1>8. SessionInv' /\ OwnerInv' /\ InsertedInv' /\ ChosenInv' /\ HistoryStays' /\ TranscriptIsKept'
  BY <1>0, <1>1, <1>2, <1>3
     DEF SessionInv, OwnerInv, InsertedInv, ChosenInv, HistoryStays, TranscriptIsKept,
         copUntouched, copTables, copHistory, RetTypes
<1> QED BY <1>7, <1>8

\* A redacted message was due.
LEMMA RedactMessagesKeeps ==
  ASSUME RetentionInv, NEW w \in Sweepers, RedactMessages(w)
  PROVE  RetentionInv'
<1> USE DEF RetentionInv
<1>1. PICK batch \in Batches(OldCopilot(transcript)) :
        transcript' = transcript \ batch /\ Looped(w, batch, "sessions")
  BY DEF RedactMessages
<1>2. \A m \in batch : m \in transcript /\ m[2] + TranscriptDays < today
  BY <1>1, BatchIsSelected DEF OldCopilot
<1>3. UNCHANGED <<today, touched, copCall, copHistory, sweptRows, recorded, auditSwept, deleting>>
  BY DEF RedactMessages
<1>4. \E pc \in SweepPCs :
        sweep' = [sweep EXCEPT ![w] = pc]
  BY <1>1 DEF Looped, SweepAt, RetTypes, SweepPCs
<1>5. RetTypes'
  BY <1>1, <1>3, <1>4 DEF RetTypes, copHistory, sweptRows, deleting
<1>6. SessionInv' /\ OwnerInv' /\ HistoryStays' /\ ChosenInv'
  BY <1>1, <1>3 DEF SessionInv, OwnerInv, HistoryStays, ChosenInv, copHistory, sweptRows, deleting
<1>7. InsertedInv'
  <2> SUFFICES ASSUME NEW c \in Callers, copCall[c].pc = "touch",
                      copCall[c].session \notin overtaken, today <= copCall[c].day + TranscriptDays
               PROVE  <<copCall[c].session, copCall[c].day>> \in transcript'
    BY <1>3 DEF InsertedInv, deleting
  <2>1. <<copCall[c].session, copCall[c].day>> \in transcript
    BY DEF InsertedInv
  <2>2. <<copCall[c].session, copCall[c].day>> \notin batch
    <3> DEFINE m == <<copCall[c].session, copCall[c].day>>
    <3>1. m[2] = copCall[c].day
      OBVIOUS
    <3>2. copCall[c].day \in Nat /\ today \in Nat
      BY CopilotAssumption DEF RetTypes, CopCalls
    <3> QED BY <1>2, <3>1, <3>2, RetentionAssumption
  <2> QED BY <1>1, <2>1, <2>2
<1>8. TranscriptIsKept'
  <2> SUFFICES ASSUME NEW m \in acked, m[1] \notin overtaken, today <= m[2] + TranscriptDays
               PROVE  m \in transcript'
    BY <1>3 DEF TranscriptIsKept, copHistory, deleting
  <2>1. m[2] \in Nat /\ today \in Nat
    BY CopilotAssumption DEF RetTypes
  <2> QED BY <1>1, <1>2, <2>1, RetentionAssumption DEF TranscriptIsKept
<1> QED BY <1>5, <1>6, <1>7, <1>8

\* What a DELETE selects is stale and empty at that time.
LEMMA ChooseSessionsKeeps ==
  ASSUME RetentionInv, NEW w \in Sweepers, ChooseSessions(w)
  PROVE  RetentionInv'
<1> USE DEF RetentionInv
<1>1. PICK batch \in Batches({s \in Sessions : Ended(s)}) : chosen' = [chosen EXCEPT ![w] = batch]
  BY DEF ChooseSessions
<1>2. \A s \in batch : s \in Sessions /\ touched[s] + ResumeDays < today
                       /\ \A m \in transcript : m[1] # s
  BY <1>1, BatchIsSelected DEF Ended, Exists
<1>3. /\ UNCHANGED <<copUntouched, sweptRows, recorded, auditSwept, overtaken>>
      /\ sweep' = [sweep EXCEPT ![w] = "delete"]
  BY DEF ChooseSessions, SweepAt
<1>4. RetTypes'
  BY <1>1, <1>2, <1>3 DEF RetTypes, SweepPCs, copUntouched, copTables, copHistory, sweptRows
<1>5. SessionInv' /\ OwnerInv' /\ InsertedInv' /\ HistoryStays' /\ TranscriptIsKept'
  BY <1>3 DEF SessionInv, OwnerInv, InsertedInv, HistoryStays, TranscriptIsKept,
              copUntouched, copTables, copHistory, sweptRows
<1>6. ChosenInv'
  BY <1>1, <1>2, <1>3 DEF RetTypes, ChosenInv, NoDay, copUntouched, copTables
<1> QED BY <1>4, <1>5, <1>6

\* A deleted session can no longer be resumed and has no message left, or was
\* written to during the statement.
LEMMA DeleteSessionsKeeps ==
  ASSUME RetentionInv, NEW w \in Sweepers, DeleteSessions(w)
  PROVE  RetentionInv'
<1> USE DEF RetentionInv
<1>1. PICK batch \in SUBSET chosen[w] :
        /\ \A s \in batch : touched[s] # NoDay
        /\ touched' = [s \in Sessions |-> IF s \in batch THEN NoDay ELSE touched[s]]
        /\ transcript' = {m \in transcript : m[1] \notin batch}
        /\ \E pc \in SweepPCs : sweep' = [sweep EXCEPT ![w] = pc]
  <2>1. PICK batch \in SUBSET chosen[w] :
          /\ \A s \in batch : touched[s] # NoDay
          /\ touched' = [s \in Sessions |-> IF s \in batch THEN NoDay ELSE touched[s]]
          /\ transcript' = {m \in transcript : m[1] \notin batch}
          /\ sweep' = [sweep EXCEPT ![w] = IF Drained(batch) THEN "idle" ELSE "sessions"]
    BY DEF DeleteSessions, Exists, SweepAt
  <2>2. (IF Drained(batch) THEN "idle" ELSE "sessions") \in SweepPCs  BY DEF SweepPCs
  <2> QED BY <2>1, <2>2
<1>2. batch \subseteq Sessions /\ \A s \in batch : s \notin overtaken =>
        touched[s] + ResumeDays < today /\ \A m \in transcript : m[1] # s
  BY <1>1 DEF ChosenInv, RetTypes
<1>3. /\ UNCHANGED <<today, copCall, copHistory, sweptRows, recorded, auditSwept, overtaken>>
      /\ chosen' = [chosen EXCEPT ![w] = {}]
  BY DEF DeleteSessions
<1>4. RetTypes'
  <2>1. touched' \in [Sessions -> 0..NoDay]
    BY <1>1, CopilotAssumption DEF RetTypes, NoDay
  <2>2. transcript' \subseteq transcript
    BY <1>1
  <2> QED BY <1>1, <1>3, <2>1, <2>2 DEF RetTypes, copHistory, sweptRows, NoDay
<1>5. SessionInv'
  BY <1>1, <1>2, <1>3, CopilotAssumption DEF SessionInv, RetTypes, copHistory, NoDay
<1>6. OwnerInv'
  <2> SUFFICES ASSUME NEW m \in transcript' PROVE touched'[m[1]] # NoDay
    BY DEF OwnerInv, NoDay
  <2>1. m \in transcript /\ m[1] \notin batch /\ m[1] \in Sessions
    BY <1>1 DEF RetTypes
  <2> QED BY <1>1, <2>1 DEF OwnerInv
<1>7. ASSUME NEW m \in transcript, m[1] \notin overtaken
      PROVE  m \in transcript'
  BY <1>1, <1>2, <1>7
<1>8. InsertedInv'
  <2> SUFFICES ASSUME NEW c \in Callers, copCall[c].pc = "touch",
                      copCall[c].session \notin overtaken, today <= copCall[c].day + TranscriptDays
               PROVE  <<copCall[c].session, copCall[c].day>> \in transcript'
    BY <1>3 DEF InsertedInv
  <2>1. <<copCall[c].session, copCall[c].day>> \in transcript
    BY DEF InsertedInv
  <2> QED BY <1>7, <2>1
<1>9. TranscriptIsKept' /\ HistoryStays'
  BY <1>3, <1>7 DEF TranscriptIsKept, HistoryStays, copHistory, sweptRows
<1>10. ChosenInv'
  BY <1>1, <1>3 DEF ChosenInv, RetTypes, NoDay
<1> QED BY <1>4, <1>5, <1>6, <1>8, <1>9, <1>10

\* Every step of the sweepers, the requests and the clock keeps the invariant.
LEMMA RetentionStep == RetentionInv /\ [RetentionNext]_retVars => RetentionInv'
<1> SUFFICES ASSUME RetentionInv, [RetentionNext]_retVars
             PROVE  RetentionInv'
  OBVIOUS
<1>1. CASE UseCopilot
  BY <1>1, CreateSessionKeeps, AppendMessagesKeeps, InsertMessagesKeeps, TouchSessionKeeps,
     CopDiesKeeps, NextDayKeeps DEF UseCopilot, CopilotNext, Beside
<1>2. CASE RecordHistory
  BY <1>2, RecordHistoryKeeps
<1>3. CASE Sweep
  BY <1>3, SweepHistoryKeeps, RedactMessagesKeeps, ChooseSessionsKeeps,
     DeleteSessionsKeeps DEF Sweep
<1>4. CASE UNCHANGED retVars
  BY <1>4 DEF retVars, copTables, copHistory, sweptRows, deleting, RetentionInv, RetTypes, SessionInv,
              OwnerInv, InsertedInv, ChosenInv, HistoryStays, TranscriptIsKept
<1> QED BY <1>1, <1>2, <1>3, <1>4 DEF RetentionNext

\* KeptUntilDue, for any number of requests, sweepers and days: sweeps take no
\* recorded history, no session that an answered request may resume, and no
\* acknowledged message within its retention, except a session that is written to
\* during the DELETE that takes it.
THEOREM NothingIsSweptEarly == RetentionSpec => []KeptUntilDue
<1>1. RetentionInv => KeptUntilDue
  <2> SUFFICES ASSUME RetentionInv PROVE KeptUntilDue
    OBVIOUS
  <2>1. RetentionTypeOK
    <3>1. \A m \in transcript : m[1] \in Sessions /\ m[2] \in 0..today
      BY DEF RetentionInv, RetTypes
    <3> QED BY <3>1 DEF RetentionInv, RetTypes, OwnerInv, RetentionTypeOK, Exists
  <2>2. AnsweredIsResumable
    BY CopilotAssumption
       DEF RetentionInv, RetTypes, SessionInv, AnsweredIsResumable, Resumable, Exists, NoDay
  <2> QED BY <2>1, <2>2 DEF RetentionInv, KeptUntilDue
<1> QED BY <1>1, RetentionInit_, RetentionStep, PTL DEF RetentionSpec

-----------------------------------------------------------------------------
(***************************************************************************)
(* Counting.                                                               *)
(***************************************************************************)

\* One element more, or none.
LEMMA OneMore ==
  ASSUME NEW U, IsFiniteSet(U), NEW S, NEW T, NEW x, S \subseteq U, T \subseteq U, T \subseteq S \cup {x}
  PROVE  Cardinality(T) \in Nat /\ Cardinality(S) \in Nat /\ Cardinality(T) <= Cardinality(S) + 1
<1>1. IsFiniteSet(S) /\ IsFiniteSet(T) /\ Cardinality(S) \in Nat /\ Cardinality(T) \in Nat
  BY FS_Subset, FS_CardinalityType
<1>2. IsFiniteSet(S \cup {x}) /\ Cardinality(S \cup {x}) <= Cardinality(S) + 1
      /\ Cardinality(S \cup {x}) \in Nat
  <2>1. IsFiniteSet(S \cup {x})
        /\ Cardinality(S \cup {x}) = IF x \in S THEN Cardinality(S) ELSE Cardinality(S) + 1
    BY <1>1, FS_AddElement
  <2> QED BY <1>1, <2>1
<1>3. Cardinality(T) <= Cardinality(S \cup {x})
  BY <1>2, FS_Subset
<1> QED BY <1>1, <1>2, <1>3

\* One element less.
LEMMA OneLess ==
  ASSUME NEW U, IsFiniteSet(U), NEW S, NEW T, NEW x \in S, S \subseteq U, T \subseteq S \ {x}
  PROVE  Cardinality(T) \in Nat /\ Cardinality(S) \in Nat /\ Cardinality(T) + 1 <= Cardinality(S)
<1>1. IsFiniteSet(S) /\ Cardinality(S) \in Nat
  BY FS_Subset, FS_CardinalityType
<1>2. IsFiniteSet(S \ {x}) /\ Cardinality(S \ {x}) = Cardinality(S) - 1
      /\ Cardinality(S \ {x}) \in Nat
  BY <1>1, FS_RemoveElement, FS_CardinalityType
<1>3. Cardinality(T) <= Cardinality(S \ {x}) /\ IsFiniteSet(T)
  BY <1>2, FS_Subset
<1> QED BY <1>1, <1>2, <1>3, FS_CardinalityType

\* No element more.
LEMMA NoMore ==
  ASSUME NEW U, IsFiniteSet(U), NEW S, NEW T, S \subseteq U, T \subseteq S
  PROVE  Cardinality(T) \in Nat /\ Cardinality(S) \in Nat /\ Cardinality(T) <= Cardinality(S)
<1>1. IsFiniteSet(S) /\ Cardinality(S) \in Nat
  BY FS_Subset, FS_CardinalityType
<1> QED BY <1>1, FS_Subset, FS_CardinalityType

\* A non-empty set of naturals has a least element.
LEMMA LeastOf ==
  ASSUME NEW T, T \subseteq Nat, T # {}
  PROVE  \E x \in T : \A y \in T : x <= y
<1> DEFINE R == OpToRel(<, Nat)
<1>1. IsWellFoundedOn(R, Nat)
  BY NatLessThanWellFounded
<1>2. \A x, y \in Nat : x < y => <<x, y>> \in R
  BY DEF OpToRel
<1> HIDE DEF R
<1>3. PICK x \in T : \A y \in T : ~(<<y, x>> \in R)
  BY <1>1, WFMin
<1>4. ASSUME NEW y \in T PROVE x <= y
  <2>1. x \in Nat /\ y \in Nat
    OBVIOUS
  <2>2. ~(y < x)
    BY <1>2, <1>3, <2>1
  <2> QED BY <2>1, <2>2
<1> QED BY <1>4

\* Of every bounded non-empty set of naturals there is a greatest.
LEMMA GreatestOf ==
  ASSUME NEW N \in Nat, NEW T, T \subseteq 0..N, T # {}
  PROVE  \E x \in T : \A y \in T : y <= x
<1> DEFINE U == {N - x : x \in T}
<1>1. U \subseteq Nat /\ U # {}
  <2>1. \A x \in T : N - x \in Nat
    OBVIOUS
  <2>2. PICK x : x \in T
    OBVIOUS
  <2> QED BY <2>1, <2>2
<1>2. PICK u \in U : \A v \in U : u <= v
  <2> HIDE DEF U
  <2> QED BY <1>1, LeastOf
<1>3. PICK x \in T : u = N - x
  OBVIOUS
<1>4. ASSUME NEW y \in T PROVE y <= x
  <2>1. N - y \in U /\ x \in Nat /\ y \in Nat
    OBVIOUS
  <2>2. u <= N - y
    BY <1>2, <2>1
  <2> QED BY <1>3, <2>1, <2>2
<1> QED BY <1>4

-----------------------------------------------------------------------------
(***************************************************************************)
(* Notices.  The bounds on mails are not inductive: an instance that listed *)
(* the tenant while the flag was unset still mails the rest of its listing *)
(* after another one has set it.  The invariant counts with the mails sent *)
(* those that the instance may send without another grant or failure.      *)
(***************************************************************************)

Reminding == {"remind", "markreminder"}
Telling == {"downgrade", "tell", "marktold"}
MailerPCs == {"idle", "listexpired"} \cup Reminding \cup Telling
MailerStates == [pc : MailerPCs, plan : {"free", "pro"}, left : 0..Owners]
PromoStates == [plan : {"free", "pro"}, ends : 0..Unset, reminded : BOOLEAN, told : BOOLEAN]
DigesterStates == [pc : {"idle", "claim", "send"}, day : Nat]

NoticeTypes ==
  /\ noticeDay \in 0..LastNotice /\ faults \in [Mailers -> 0..MaxFaults] /\ promos \in 0..MaxPromos
  /\ promo \in PromoStates /\ mailer \in [Mailers -> MailerStates]
  /\ reminders \in [Mailers -> Nat] /\ expiries \in [Mailers -> Nat] /\ digests \in Nat
  /\ lastDigest \in 0..noticeDay \cup {Unset}
  /\ digester \in [Mailers -> DigesterStates]

\* There is a row to mail.
LeftInv == \A m \in Mailers : mailer[m].pc \in {"remind", "downgrade", "tell"} => mailer[m].left > 0

\* What an instance may yet mail: the rest of its listing, or another listing.
ToCome(r, pcs, flag) == IF r.pc \in pcs THEN r.left ELSE IF flag THEN 0 ELSE Owners

Allowance(m) == Owners * (promos + 1 + faults[m])

ReminderInv ==
  \A m \in Mailers : reminders[m] + ToCome(mailer[m], Reminding, promo.reminded) <= Allowance(m)
ExpiryInv ==
  \A m \in Mailers : expiries[m] + ToCome(mailer[m], Telling, promo.told) <= Allowance(m)

\* Digests that were claimed, and not given up.
Sending == {m \in Mailers : digester[m].pc = "send"}
DigestsClaimed == digests + Cardinality(Sending)

DigestInv ==
  /\ \A m \in Mailers : digester[m].pc = "claim" => digester[m].day <= noticeDay
  /\ lastDigest = Unset => DigestsClaimed = 0
  /\ lastDigest # Unset => (DigestsClaimed - 1) * (MinGap + 1) <= lastDigest

NoticesInv == NoticeTypes /\ LeftInv /\ ReminderInv /\ ExpiryInv /\ DigestInv

\* The set of sending workers has a size.
LEMMA Finite == Cardinality(Sending) \in Nat
<1>1. Sending \subseteq Mailers
  BY DEF Sending
<1> QED BY <1>1, NoMore, NoticesAssumption

\* What is to come is at most one listing, and falls when the flag is set.
LEMMA ToComeIs ==
  ASSUME NEW r \in MailerStates, NEW pcs, NEW flag \in BOOLEAN, NEW later \in {TRUE, flag}
  PROVE  /\ ToCome(r, pcs, flag) \in Nat /\ ToCome(r, pcs, later) \in Nat
         /\ ToCome(r, pcs, flag) <= Owners /\ ToCome(r, pcs, later) <= ToCome(r, pcs, flag)
<1>1. r.left \in Nat /\ r.left <= Owners /\ Owners \in Nat
  BY NoticesAssumption DEF MailerStates
<1>2. CASE r.pc \in pcs  BY <1>1, <1>2 DEF ToCome
<1>3. CASE r.pc \notin pcs
  <2>1. /\ ToCome(r, pcs, flag) = IF flag THEN 0 ELSE Owners
        /\ ToCome(r, pcs, later) = IF later THEN 0 ELSE Owners
    BY <1>3 DEF ToCome
  <2>2. flag => later  OBVIOUS
  <2>3. CASE flag  BY <1>1, <2>1, <2>2, <2>3
  <2>4. CASE ~flag /\ later  BY <1>1, <2>1, <2>4
  <2>5. CASE ~flag /\ ~later  BY <1>1, <2>1, <2>5
  <2> QED BY <2>3, <2>4, <2>5
<1> QED BY <1>2, <1>3

\* Another grant or failure allows one listing more.
LEMMA OneListing ==
  ASSUME NEW p \in Nat, NEW f \in Nat
  PROVE  /\ Owners \in Nat /\ Owners * (p + 1 + f) \in Nat
         /\ Owners * (p + 1 + (f + 1)) = Owners * (p + 1 + f) + Owners
         /\ Owners * ((p + 1) + 1 + f) = Owners * (p + 1 + f) + Owners
         /\ Owners <= Owners * (p + 1 + f)
<1>1. PICK n \in Nat : n = Owners
  BY NoticesAssumption
<1>2. PICK a \in Nat : a = p + f
  OBVIOUS
<1>3. p + 1 + f = a + 1 /\ p + 1 + (f + 1) = a + 1 + 1 /\ (p + 1) + 1 + f = a + 1 + 1
  BY <1>2
<1>4. n * (a + 1) \in Nat /\ n * (a + 1 + 1) = n * (a + 1) + n /\ n * (a + 1) = n * a + n
      /\ n * a \in Nat
  OBVIOUS
<1> QED BY <1>1, <1>3, <1>4

\* No mail has been sent and every instance may begin a listing.
LEMMA NoticesInit_ == NoticesInit => NoticesInv
<1> SUFFICES ASSUME NoticesInit PROVE NoticesInv
  OBVIOUS
<1> USE NoticesAssumption
<1>1. NoticeTypes
  BY DEF NoticesInit, NoticeTypes, PromoStates, MailerStates, DigesterStates, Quiet, Waiting, Unset, MailerPCs
<1>2. LeftInv
  BY DEF NoticesInit, LeftInv, Quiet
<1>3. ReminderInv /\ ExpiryInv
  <2> SUFFICES ASSUME NEW m \in Mailers
               PROVE  /\ reminders[m] + ToCome(mailer[m], Reminding, promo.reminded) <= Allowance(m)
                      /\ expiries[m] + ToCome(mailer[m], Telling, promo.told) <= Allowance(m)
    BY DEF ReminderInv, ExpiryInv
  <2>1. mailer[m] \in MailerStates /\ promo.reminded \in BOOLEAN /\ promo.told \in BOOLEAN
    BY <1>1 DEF NoticeTypes, PromoStates
  <2>2. PICK a \in Nat, b \in Nat :
          /\ a = ToCome(mailer[m], Reminding, promo.reminded) /\ a <= Owners
          /\ b = ToCome(mailer[m], Telling, promo.told) /\ b <= Owners
    BY <2>1, ToComeIs
  <2>3. promos = 0 /\ faults[m] = 0 /\ reminders[m] = 0 /\ expiries[m] = 0
    BY DEF NoticesInit
  <2>4. Allowance(m) \in Nat /\ Owners <= Allowance(m)
    BY <2>3, OneListing DEF Allowance
  <2> QED BY <2>2, <2>3, <2>4
<1>4. Sending = {}
  BY DEF NoticesInit, Sending, Waiting
<1>5. DigestInv
  BY <1>4, FS_EmptySet DEF NoticesInit, DigestInv, Waiting, DigestsClaimed, Unset
<1> QED BY <1>1, <1>2, <1>3, <1>5 DEF NoticesInv

\* Steps of the trial mails leave the digest alone, up to the clock.
LEMMA DigestStays ==
  ASSUME NoticesInv, UNCHANGED digestVars, noticeDay' \in Nat, noticeDay <= noticeDay'
  PROVE  DigestInv'
<1>1. Sending' = Sending /\ DigestsClaimed' = DigestsClaimed
  BY DEF digestVars, Sending, DigestsClaimed
<1> QED BY <1>1, NoticesAssumption DEF NoticesInv, NoticeTypes, DigestInv, digestVars, Unset, DigesterStates

\* The budget of one kind of mail, over a step of one instance: what it sends it
\* had to come, or it has failed and may begin again.
LEMMA BudgetKeeps ==
  ASSUME NEW a \in Nat, NEW b \in Nat, b <= Owners,
         NEW p \in Nat, NEW f \in Nat, NEW g \in {f, f + 1}, NEW n \in Nat, NEW k \in Nat,
         n + a <= Owners * (p + 1 + f),
         k + b <= n + a \/ (g = f + 1 /\ k = n)
  PROVE  k + b <= Owners * (p + 1 + g)
<1>1. PICK c \in Nat, o \in Nat : c = Owners * (p + 1 + f) /\ o = Owners
        /\ Owners * (p + 1 + (f + 1)) = c + o
  BY OneListing
<1>2. n + a <= c /\ b <= o /\ (k + b <= n + a \/ (g = f + 1 /\ k = n))
  BY <1>1
<1>3. CASE g = f  BY <1>1, <1>2, <1>3
<1>4. CASE g = f + 1
  <2>1. k + b <= c + o  BY <1>2
  <2> QED BY <1>1, <1>4, <2>1
<1> QED BY <1>3, <1>4

\* The step leaves a row to mail.
RowLeft(r) == r.pc \in {"remind", "downgrade", "tell"} => r.left > 0

\* The common part of the steps of one instance: its state changes, the flags may.
LEMMA MailerStep ==
  ASSUME NoticesInv, NEW m \in Mailers, NEW r \in MailerStates, NEW g, NEW a \in Nat, NEW b \in Nat,
         mailer' = [mailer EXCEPT ![m] = r], promo' \in PromoStates,
         RowLeft(r),
         UNCHANGED <<noticeDay, promos, digestVars>>,
         faults' = [faults EXCEPT ![m] = g], g \in {faults[m], faults[m] + 1}, g \in 0..MaxFaults,
         reminders' = [reminders EXCEPT ![m] = a], expiries' = [expiries EXCEPT ![m] = b],
         promo'.reminded \in {TRUE, promo.reminded}, promo'.told \in {TRUE, promo.told},
         \/ a + ToCome(r, Reminding, promo'.reminded)
              <= reminders[m] + ToCome(mailer[m], Reminding, promo.reminded)
         \/ g = faults[m] + 1 /\ a = reminders[m],
         \/ b + ToCome(r, Telling, promo'.told) <= expiries[m] + ToCome(mailer[m], Telling, promo.told)
         \/ g = faults[m] + 1 /\ b = expiries[m]
  PROVE  NoticesInv'
<1> USE NoticesAssumption
<1>0. /\ mailer \in [Mailers -> MailerStates] /\ faults \in [Mailers -> 0..MaxFaults]
      /\ reminders \in [Mailers -> Nat] /\ expiries \in [Mailers -> Nat] /\ promos \in Nat
      /\ promo.reminded \in BOOLEAN /\ promo.told \in BOOLEAN
  BY DEF NoticesInv, NoticeTypes, PromoStates
<1>1. NoticeTypes'
  BY DEF NoticesInv, NoticeTypes, digestVars
<1>2. DigestInv'
  BY DigestStays DEF NoticesInv, NoticeTypes
<1>3. LeftInv'
  BY <1>0 DEF NoticesInv, LeftInv, RowLeft
<1>4. PICK x \in BOOLEAN, y \in BOOLEAN, v \in BOOLEAN, w \in BOOLEAN :
        /\ x = promo.reminded /\ y = promo.told /\ v = promo'.reminded /\ w = promo'.told
        /\ v \in {TRUE, x} /\ w \in {TRUE, y}
  BY <1>0
<1>5. ReminderInv'
  <2> SUFFICES ASSUME NEW q \in Mailers
               PROVE  reminders'[q] + ToCome(mailer'[q], Reminding, v) <= Owners * (promos + 1 + faults'[q])
    BY <1>4 DEF ReminderInv, Allowance
  <2>1. reminders[q] + ToCome(mailer[q], Reminding, x) <= Owners * (promos + 1 + faults[q])
    BY <1>4 DEF NoticesInv, ReminderInv, Allowance
  <2>2. reminders[q] \in Nat /\ faults[q] \in Nat /\ mailer[q] \in MailerStates
    BY <1>0
  <2>3. CASE q = m
    <3>1. reminders'[q] = a /\ mailer'[q] = r /\ faults'[q] = g
      BY <1>0, <2>3
    <3>2. \/ a + ToCome(r, Reminding, v) <= reminders[q] + ToCome(mailer[q], Reminding, x)
          \/ g = faults[q] + 1 /\ a = reminders[q]
      BY <1>4, <2>3
    <3>3. g \in {faults[q], faults[q] + 1}
      BY <2>3
    <3>4. PICK c \in Nat, d \in Nat : c = ToCome(mailer[q], Reminding, x) /\ d = ToCome(r, Reminding, v)
                                      /\ d <= Owners
      BY <1>4, <2>2, ToComeIs
    <3>5. PICK n \in Nat, f \in Nat : n = reminders[q] /\ f = faults[q]
      BY <2>2
    <3>6. /\ n + c <= Owners * (promos + 1 + f) /\ g \in {f, f + 1}
          /\ a + d <= n + c \/ (g = f + 1 /\ a = n)
      BY <2>1, <3>2, <3>3, <3>4, <3>5
    <3>7. a + d <= Owners * (promos + 1 + g)
      BY <1>0, <3>4, <3>6, BudgetKeeps
    <3> QED BY <3>1, <3>4, <3>7
  <2>4. CASE q # m
    <3>1. reminders'[q] = reminders[q] /\ mailer'[q] = mailer[q] /\ faults'[q] = faults[q]
      BY <1>0, <2>4
    <3>2. /\ ToCome(mailer[q], Reminding, x) \in Nat /\ ToCome(mailer[q], Reminding, v) \in Nat
          /\ ToCome(mailer[q], Reminding, v) <= ToCome(mailer[q], Reminding, x)
      BY <1>4, <2>2, ToComeIs
    <3>3. Owners * (promos + 1 + faults[q]) \in Nat
      BY <1>0, <2>2, OneListing
    <3> QED BY <2>1, <2>2, <3>1, <3>2, <3>3
  <2> QED BY <2>3, <2>4
<1>6. ExpiryInv'
  <2> SUFFICES ASSUME NEW q \in Mailers
               PROVE  expiries'[q] + ToCome(mailer'[q], Telling, w) <= Owners * (promos + 1 + faults'[q])
    BY <1>4 DEF ExpiryInv, Allowance
  <2>1. expiries[q] + ToCome(mailer[q], Telling, y) <= Owners * (promos + 1 + faults[q])
    BY <1>4 DEF NoticesInv, ExpiryInv, Allowance
  <2>2. expiries[q] \in Nat /\ faults[q] \in Nat /\ mailer[q] \in MailerStates
    BY <1>0
  <2>3. CASE q = m
    <3>1. expiries'[q] = b /\ mailer'[q] = r /\ faults'[q] = g
      BY <1>0, <2>3
    <3>2. \/ b + ToCome(r, Telling, w) <= expiries[q] + ToCome(mailer[q], Telling, y)
          \/ g = faults[q] + 1 /\ b = expiries[q]
      BY <1>4, <2>3
    <3>3. g \in {faults[q], faults[q] + 1}
      BY <2>3
    <3>4. PICK c \in Nat, d \in Nat : c = ToCome(mailer[q], Telling, y) /\ d = ToCome(r, Telling, w)
                                      /\ d <= Owners
      BY <1>4, <2>2, ToComeIs
    <3>5. PICK n \in Nat, f \in Nat : n = expiries[q] /\ f = faults[q]
      BY <2>2
    <3>6. /\ n + c <= Owners * (promos + 1 + f) /\ g \in {f, f + 1}
          /\ b + d <= n + c \/ (g = f + 1 /\ b = n)
      BY <2>1, <3>2, <3>3, <3>4, <3>5
    <3>7. b + d <= Owners * (promos + 1 + g)
      BY <1>0, <3>4, <3>6, BudgetKeeps
    <3> QED BY <3>1, <3>4, <3>7
  <2>4. CASE q # m
    <3>1. expiries'[q] = expiries[q] /\ mailer'[q] = mailer[q] /\ faults'[q] = faults[q]
      BY <1>0, <2>4
    <3>2. /\ ToCome(mailer[q], Telling, y) \in Nat /\ ToCome(mailer[q], Telling, w) \in Nat
          /\ ToCome(mailer[q], Telling, w) <= ToCome(mailer[q], Telling, y)
      BY <1>4, <2>2, ToComeIs
    <3>3. Owners * (promos + 1 + faults[q]) \in Nat
      BY <1>0, <2>2, OneListing
    <3> QED BY <2>1, <2>2, <3>1, <3>2, <3>3
  <2> QED BY <2>3, <2>4
<1> QED BY <1>1, <1>2, <1>3, <1>5, <1>6 DEF NoticesInv

\* An instance at rest.
LEMMA QuietState == Quiet \in MailerStates /\ Quiet.pc = "idle"
  BY NoticesAssumption DEF Quiet, MailerStates, MailerPCs

\* The instance's record after a step of the loop.
LEMMA MovedIs ==
  ASSUME NoticesInv, NEW m \in Mailers, NEW pc \in MailerPCs, NEW k \in 0..Owners
  PROVE  /\ Moved(m, pc, k) \in MailerStates
         /\ Moved(m, pc, k).pc = pc /\ Moved(m, pc, k).left = k
<1>1. mailer[m] \in MailerStates
  BY DEF NoticesInv, NoticeTypes
<1> QED BY <1>1 DEF MailerStates, Moved

\* The loop over the reminders.
LEMMA RemindNextIs ==
  ASSUME NoticesInv, NEW m \in Mailers, NEW k \in 0..Owners, RemindNext(m, k)
  PROVE  \E r \in MailerStates :
           /\ mailer' = [mailer EXCEPT ![m] = r]
           /\ \/ r.pc = "remind" /\ r.left = k /\ k > 0
              \/ r.pc = "listexpired" /\ r.left = 0 /\ k = 0
<1>1. 0 \in 0..Owners /\ "remind" \in MailerPCs /\ "listexpired" \in MailerPCs
  BY NoticesAssumption DEF MailerPCs, Reminding
<1>2. CASE k > 0
  <2>1. mailer' = [mailer EXCEPT ![m] = Moved(m, "remind", k)]
    BY <1>2 DEF RemindNext, MailerBecomes
  <2>2. PICK r : r = Moved(m, "remind", k)
    OBVIOUS
  <2>3. r \in MailerStates /\ r.pc = "remind" /\ r.left = k
    BY <1>1, <2>2, MovedIs
  <2> QED BY <1>2, <2>1, <2>2, <2>3
<1>3. CASE k = 0
  <2>1. mailer' = [mailer EXCEPT ![m] = Moved(m, "listexpired", 0)]
    BY <1>3 DEF RemindNext, MailerBecomes
  <2>2. PICK r : r = Moved(m, "listexpired", 0)
    OBVIOUS
  <2>3. r \in MailerStates /\ r.pc = "listexpired" /\ r.left = 0
    BY <1>1, <2>2, MovedIs
  <2> QED BY <1>3, <2>1, <2>2, <2>3
<1> QED BY <1>2, <1>3, NoticesAssumption

\* The loop over the expiry notices.
LEMMA TellNextIs ==
  ASSUME NoticesInv, NEW m \in Mailers, NEW k \in 0..Owners, TellNext(m, k)
  PROVE  \E r \in MailerStates :
           /\ mailer' = [mailer EXCEPT ![m] = r]
           /\ \/ r.pc = "downgrade" /\ r.left = k /\ k > 0
              \/ r.pc = "idle" /\ k = 0
<1>1. "downgrade" \in MailerPCs
  BY DEF MailerPCs, Telling
<1>2. CASE k > 0
  <2>1. mailer' = [mailer EXCEPT ![m] = Moved(m, "downgrade", k)]
    BY <1>2 DEF TellNext, MailerBecomes
  <2>2. PICK r : r = Moved(m, "downgrade", k)
    OBVIOUS
  <2>3. r \in MailerStates /\ r.pc = "downgrade" /\ r.left = k
    BY <1>1, <2>2, MovedIs
  <2> QED BY <1>2, <2>1, <2>2, <2>3
<1>3. CASE k = 0
  <2>1. mailer' = [mailer EXCEPT ![m] = Quiet]
    BY <1>3 DEF TellNext, MailerBecomes
  <2> QED BY <1>3, <2>1, QuietState
<1> QED BY <1>2, <1>3, NoticesAssumption

\* Steps of one instance's reminders.
LEMMA RemindKeeps ==
  ASSUME NoticesInv, NEW m \in Mailers,
         \/ \E rows \in 1..Owners : ListReminders(m, rows)
         \/ SendReminder(m) \/ MarkReminder(m)
  PROVE  NoticesInv'
<1> USE NoticesAssumption
<1>0. /\ promo \in PromoStates /\ mailer[m] \in MailerStates /\ faults[m] \in 0..MaxFaults
      /\ reminders[m] \in Nat /\ expiries[m] \in Nat
      /\ faults \in [Mailers -> 0..MaxFaults]
      /\ reminders \in [Mailers -> Nat] /\ expiries \in [Mailers -> Nat]
  BY DEF NoticesInv, NoticeTypes
<1>t. promo.told \in BOOLEAN /\ promo.reminded \in BOOLEAN /\ mailer[m].left \in 0..Owners
  BY <1>0 DEF PromoStates, MailerStates
<1>a. /\ faults = [faults EXCEPT ![m] = faults[m]]
      /\ reminders = [reminders EXCEPT ![m] = reminders[m]]
      /\ expiries = [expiries EXCEPT ![m] = expiries[m]]
  BY <1>0
<1>1. ASSUME NEW rows \in 1..Owners, ListReminders(m, rows) PROVE NoticesInv'
  <2>1. PICK k \in 0..Owners : RemindNext(m, k) /\ (k > 0 => ~promo.reminded)
    <3>1. CASE ReminderDue
      BY <1>1, <3>1 DEF ListReminders, ReminderDue
    <3>2. CASE ~ReminderDue
      BY <1>1, <3>2 DEF ListReminders
    <3> QED BY <3>1, <3>2
  <2>2. PICK r \in MailerStates :
          /\ mailer' = [mailer EXCEPT ![m] = r]
          /\ \/ r.pc = "remind" /\ r.left = k /\ k > 0
             \/ r.pc = "listexpired" /\ r.left = 0 /\ k = 0
    BY <2>1, RemindNextIs
  <2>3. /\ mailer[m].pc = "idle" /\ promo' = promo
        /\ UNCHANGED <<noticeDay, promos, digestVars, faults, reminders, expiries>>
    BY <1>1 DEF ListReminders
  <2>4. ToCome(r, Reminding, promo'.reminded) <= ToCome(mailer[m], Reminding, promo.reminded)
    BY <2>1, <2>2, <2>3 DEF ToCome, Reminding
  <2>5. ToCome(r, Telling, promo'.told) <= ToCome(mailer[m], Telling, promo.told)
    BY <2>2, <2>3 DEF ToCome, Telling
  <2>6. /\ ToCome(r, Reminding, promo'.reminded) \in Nat /\ ToCome(r, Telling, promo'.told) \in Nat
        /\ ToCome(mailer[m], Reminding, promo.reminded) \in Nat
        /\ ToCome(mailer[m], Telling, promo.told) \in Nat
    BY <1>0, <1>t, <2>3, ToComeIs
  <2>7. /\ reminders[m] + ToCome(r, Reminding, promo'.reminded)
             <= reminders[m] + ToCome(mailer[m], Reminding, promo.reminded)
        /\ expiries[m] + ToCome(r, Telling, promo'.told) <= expiries[m] + ToCome(mailer[m], Telling, promo.told)
    BY <1>0, <2>4, <2>5, <2>6
  <2>8. RowLeft(r)
    BY <2>2 DEF RowLeft
  <2>9. /\ mailer' = [mailer EXCEPT ![m] = r] /\ faults' = [faults EXCEPT ![m] = faults[m]]
        /\ reminders' = [reminders EXCEPT ![m] = reminders[m]]
        /\ expiries' = [expiries EXCEPT ![m] = expiries[m]]
        /\ UNCHANGED <<noticeDay, promos, digestVars>> /\ faults[m] \in {faults[m], faults[m] + 1}
    BY <1>a, <2>2, <2>3
  <2>10. promo' \in PromoStates /\ promo'.reminded = promo.reminded /\ promo'.told = promo.told
    BY <1>0, <2>3
  <2> QED BY <1>0, <2>7, <2>8, <2>9, <2>10, MailerStep
<1>2. CASE SendReminder(m)
  <2>0. mailer[m].pc = "remind" /\ mailer[m].left > 0
    BY <1>2 DEF SendReminder, NoticesInv, LeftInv
  <2>1. PICK k \in 0..Owners : k = mailer[m].left - 1
    BY <1>t, <2>0
  <2>2. PICK r \in MailerStates : r.pc = "markreminder" /\ r.left = k
                                  /\ mailer' = [mailer EXCEPT ![m] = r]
    <3>1. "markreminder" \in MailerPCs  BY DEF MailerPCs, Reminding
    <3>2. mailer' = [mailer EXCEPT ![m] = Moved(m, "markreminder", k)]
      BY <1>2, <2>1 DEF SendReminder, MailerBecomes
    <3>3. PICK r : r = Moved(m, "markreminder", k)
      OBVIOUS
    <3>4. r \in MailerStates /\ r.pc = "markreminder" /\ r.left = k
      BY <3>1, <3>3, MovedIs
    <3> QED BY <3>2, <3>3, <3>4
  <2>3. /\ promo' = promo /\ reminders' = [reminders EXCEPT ![m] = reminders[m] + 1]
        /\ UNCHANGED <<noticeDay, promos, digestVars, faults, expiries>>
    BY <1>2 DEF SendReminder
  <2>4. ToCome(r, Reminding, promo'.reminded) = k /\ ToCome(mailer[m], Reminding, promo.reminded) = k + 1
    BY <1>t, <2>0, <2>1, <2>2 DEF ToCome, Reminding
  <2>5. ToCome(r, Telling, promo'.told) = ToCome(mailer[m], Telling, promo.told)
    BY <2>0, <2>2, <2>3 DEF ToCome, Telling
  <2>6. PICK t \in Nat : t = ToCome(mailer[m], Telling, promo.told)
    BY <1>0, <1>t, ToComeIs
  <2>7. /\ (reminders[m] + 1) + k <= reminders[m] + (k + 1) /\ expiries[m] + t <= expiries[m] + t
        /\ reminders[m] + 1 \in Nat
    BY <1>0
  <2>8. RowLeft(r)
    BY <2>2 DEF RowLeft
  <2> QED BY <1>0, <1>a, <2>2, <2>3, <2>4, <2>5, <2>6, <2>7, <2>8, MailerStep
<1>3. CASE MarkReminder(m)
  <2>1. mailer[m].pc = "markreminder" /\ RemindNext(m, mailer[m].left)
        /\ UNCHANGED <<noticeDay, promos, digestVars, faults, reminders, expiries>>
    BY <1>3 DEF MarkReminder
  <2>2. PICK r \in MailerStates :
          /\ mailer' = [mailer EXCEPT ![m] = r]
          /\ \/ r.pc = "remind" /\ r.left = mailer[m].left /\ mailer[m].left > 0
             \/ r.pc = "listexpired" /\ r.left = 0 /\ mailer[m].left = 0
    BY <1>t, <2>1, RemindNextIs
  <2>3. promo' \in PromoStates /\ promo'.reminded = TRUE /\ promo'.told = promo.told
    BY <1>0, <1>3 DEF MarkReminder, PromoStates
  <2>4. ToCome(r, Reminding, promo'.reminded) = mailer[m].left
        /\ ToCome(mailer[m], Reminding, promo.reminded) = mailer[m].left
    BY <2>1, <2>2, <2>3 DEF ToCome, Reminding
  <2>5. ToCome(r, Telling, promo'.told) = ToCome(mailer[m], Telling, promo.told)
    BY <2>1, <2>2, <2>3 DEF ToCome, Telling
  <2>6. PICK t \in Nat : t = ToCome(mailer[m], Telling, promo.told)
    BY <1>0, <1>t, ToComeIs
  <2>7. reminders[m] + mailer[m].left <= reminders[m] + mailer[m].left
        /\ expiries[m] + t <= expiries[m] + t
    BY <1>0, <1>t
  <2>8. RowLeft(r)
    BY <2>2 DEF RowLeft
  <2>9. /\ mailer' = [mailer EXCEPT ![m] = r] /\ faults' = [faults EXCEPT ![m] = faults[m]]
        /\ reminders' = [reminders EXCEPT ![m] = reminders[m]]
        /\ expiries' = [expiries EXCEPT ![m] = expiries[m]]
        /\ UNCHANGED <<noticeDay, promos, digestVars>> /\ faults[m] \in {faults[m], faults[m] + 1}
    BY <1>a, <2>1, <2>2
  <2> QED BY <1>0, <2>3, <2>4, <2>5, <2>6, <2>7, <2>8, <2>9, MailerStep
<1> QED BY <1>1, <1>2, <1>3

\* Steps of one instance's expiry notices.
LEMMA TellKeeps ==
  ASSUME NoticesInv, NEW m \in Mailers,
         \/ \E rows \in 1..Owners : ListExpired(m, rows)
         \/ Downgrade(m) \/ SendExpired(m) \/ MarkExpired(m)
  PROVE  NoticesInv'
<1> USE NoticesAssumption
<1>0. /\ promo \in PromoStates /\ mailer[m] \in MailerStates /\ faults[m] \in 0..MaxFaults
      /\ reminders[m] \in Nat /\ expiries[m] \in Nat
      /\ faults \in [Mailers -> 0..MaxFaults]
      /\ reminders \in [Mailers -> Nat] /\ expiries \in [Mailers -> Nat]
  BY DEF NoticesInv, NoticeTypes
<1>t. promo.told \in BOOLEAN /\ promo.reminded \in BOOLEAN /\ mailer[m].left \in 0..Owners
  BY <1>0 DEF PromoStates, MailerStates
<1>a. /\ faults = [faults EXCEPT ![m] = faults[m]]
      /\ reminders = [reminders EXCEPT ![m] = reminders[m]]
      /\ expiries = [expiries EXCEPT ![m] = expiries[m]]
  BY <1>0
<1>b. PICK t \in Nat : t = ToCome(mailer[m], Reminding, promo.reminded)
  BY <1>0, <1>t, ToComeIs
<1>c. reminders[m] + t <= reminders[m] + t
  BY <1>0
<1>1. ASSUME NEW rows \in 1..Owners, ListExpired(m, rows) PROVE NoticesInv'
  <2>1. PICK r \in MailerStates :
          /\ mailer' = [mailer EXCEPT ![m] = r]
          /\ \/ r.pc = "downgrade" /\ r.left = rows /\ ~promo.told
             \/ r.pc = "idle"
    <3>1. CASE ExpiryDue
      <4>1. [pc |-> "downgrade", plan |-> promo.plan, left |-> rows] \in MailerStates
        BY <1>0 DEF PromoStates, MailerStates, MailerPCs, Telling
      <4> QED BY <1>1, <3>1, <4>1 DEF ListExpired, ExpiryDue, MailerBecomes
    <3>2. CASE ~ExpiryDue
      BY <1>1, <3>2, QuietState DEF ListExpired, MailerBecomes
    <3> QED BY <3>1, <3>2
  <2>2. /\ mailer[m].pc = "listexpired" /\ promo' = promo
        /\ UNCHANGED <<noticeDay, promos, digestVars, faults, reminders, expiries>>
    BY <1>1 DEF ListExpired
  <2>3. ToCome(r, Telling, promo'.told) <= ToCome(mailer[m], Telling, promo.told)
    BY <2>1, <2>2 DEF ToCome, Telling
  <2>4. ToCome(r, Reminding, promo'.reminded) = t
    BY <1>b, <2>1, <2>2 DEF ToCome, Reminding
  <2>5. ToCome(r, Telling, promo'.told) \in Nat /\ ToCome(mailer[m], Telling, promo.told) \in Nat
    BY <1>0, <1>t, <2>2, ToComeIs
  <2>6. expiries[m] + ToCome(r, Telling, promo'.told) <= expiries[m] + ToCome(mailer[m], Telling, promo.told)
    BY <1>0, <2>3, <2>5
  <2>7. RowLeft(r)
    BY <2>1 DEF RowLeft
  <2>8. /\ mailer' = [mailer EXCEPT ![m] = r] /\ faults' = [faults EXCEPT ![m] = faults[m]]
        /\ reminders' = [reminders EXCEPT ![m] = reminders[m]]
        /\ expiries' = [expiries EXCEPT ![m] = expiries[m]]
        /\ UNCHANGED <<noticeDay, promos, digestVars>> /\ faults[m] \in {faults[m], faults[m] + 1}
    BY <1>a, <2>1, <2>2
  <2>9. promo' \in PromoStates /\ promo'.reminded = promo.reminded /\ promo'.told = promo.told
    BY <1>0, <2>2
  <2> QED BY <1>0, <1>b, <1>c, <2>4, <2>6, <2>7, <2>8, <2>9, MailerStep
<1>2. CASE Downgrade(m)
  <2>0. mailer[m].pc = "downgrade" /\ mailer[m].left > 0
        /\ UNCHANGED <<noticeDay, promos, digestVars, faults, reminders, expiries>>
    BY <1>2 DEF Downgrade, NoticesInv, LeftInv
  <2>1. PICK r \in MailerStates : r.pc = "tell" /\ r.left = mailer[m].left
                                  /\ mailer' = [mailer EXCEPT ![m] = r]
    <3>1. [mailer[m] EXCEPT !.pc = "tell"] \in MailerStates
          /\ [mailer[m] EXCEPT !.pc = "tell"].pc = "tell"
          /\ [mailer[m] EXCEPT !.pc = "tell"].left = mailer[m].left
      BY <1>0 DEF MailerStates, MailerPCs, Telling
    <3> QED BY <1>2, <3>1 DEF Downgrade, MailerAt, MailerBecomes
  <2>2. promo' \in PromoStates /\ promo'.reminded = promo.reminded /\ promo'.told = promo.told
    BY <1>0, <1>2 DEF Downgrade, PromoStates
  <2>3. ToCome(r, Telling, promo'.told) = mailer[m].left
        /\ ToCome(mailer[m], Telling, promo.told) = mailer[m].left
    BY <2>0, <2>1 DEF ToCome, Telling
  <2>4. ToCome(r, Reminding, promo'.reminded) = t
    BY <1>b, <2>0, <2>1, <2>2 DEF ToCome, Reminding
  <2>5. expiries[m] + mailer[m].left <= expiries[m] + mailer[m].left
    BY <1>0, <1>t
  <2>6. RowLeft(r)
    BY <2>0, <2>1 DEF RowLeft
  <2>7. /\ mailer' = [mailer EXCEPT ![m] = r] /\ faults' = [faults EXCEPT ![m] = faults[m]]
        /\ reminders' = [reminders EXCEPT ![m] = reminders[m]]
        /\ expiries' = [expiries EXCEPT ![m] = expiries[m]]
        /\ UNCHANGED <<noticeDay, promos, digestVars>> /\ faults[m] \in {faults[m], faults[m] + 1}
    BY <1>a, <2>0, <2>1
  <2> QED BY <1>0, <1>b, <1>c, <2>2, <2>3, <2>4, <2>5, <2>6, <2>7, MailerStep
<1>3. CASE SendExpired(m)
  <2>0. mailer[m].pc = "tell" /\ mailer[m].left > 0
    BY <1>3 DEF SendExpired, NoticesInv, LeftInv
  <2>1. PICK k \in 0..Owners : k = mailer[m].left - 1
    BY <1>t, <2>0
  <2>2. PICK r \in MailerStates : r.pc = "marktold" /\ r.left = k
                                  /\ mailer' = [mailer EXCEPT ![m] = r]
    <3>1. "marktold" \in MailerPCs  BY DEF MailerPCs, Telling
    <3>2. mailer' = [mailer EXCEPT ![m] = Moved(m, "marktold", k)]
      BY <1>3, <2>1 DEF SendExpired, MailerBecomes
    <3>3. PICK r : r = Moved(m, "marktold", k)
      OBVIOUS
    <3>4. r \in MailerStates /\ r.pc = "marktold" /\ r.left = k
      BY <3>1, <3>3, MovedIs
    <3> QED BY <3>2, <3>3, <3>4
  <2>3. /\ promo' = promo /\ expiries' = [expiries EXCEPT ![m] = expiries[m] + 1]
        /\ UNCHANGED <<noticeDay, promos, digestVars, faults, reminders>>
    BY <1>3 DEF SendExpired
  <2>4. ToCome(r, Telling, promo'.told) = k /\ ToCome(mailer[m], Telling, promo.told) = k + 1
    BY <1>t, <2>0, <2>1, <2>2 DEF ToCome, Telling
  <2>5. ToCome(r, Reminding, promo'.reminded) = t
    BY <1>b, <2>0, <2>2, <2>3 DEF ToCome, Reminding
  <2>6. (expiries[m] + 1) + k <= expiries[m] + (k + 1) /\ expiries[m] + 1 \in Nat
    BY <1>0
  <2>7. RowLeft(r)
    BY <2>2 DEF RowLeft
  <2> QED BY <1>0, <1>a, <1>b, <1>c, <2>2, <2>3, <2>4, <2>5, <2>6, <2>7, MailerStep
<1>4. CASE MarkExpired(m)
  <2>1. mailer[m].pc = "marktold" /\ TellNext(m, mailer[m].left)
        /\ UNCHANGED <<noticeDay, promos, digestVars, faults, reminders, expiries>>
    BY <1>4 DEF MarkExpired
  <2>2. PICK r \in MailerStates :
          /\ mailer' = [mailer EXCEPT ![m] = r]
          /\ \/ r.pc = "downgrade" /\ r.left = mailer[m].left /\ mailer[m].left > 0
             \/ r.pc = "idle" /\ mailer[m].left = 0
    BY <1>t, <2>1, TellNextIs
  <2>3. promo' \in PromoStates /\ promo'.told = TRUE /\ promo'.reminded = promo.reminded
    BY <1>0, <1>4 DEF MarkExpired, PromoStates
  <2>4. ToCome(r, Telling, promo'.told) = mailer[m].left
        /\ ToCome(mailer[m], Telling, promo.told) = mailer[m].left
    BY <2>1, <2>2, <2>3 DEF ToCome, Telling
  <2>5. ToCome(r, Reminding, promo'.reminded) = t
    BY <1>b, <2>1, <2>2, <2>3 DEF ToCome, Reminding
  <2>6. expiries[m] + mailer[m].left <= expiries[m] + mailer[m].left
    BY <1>0, <1>t
  <2>7. RowLeft(r)
    BY <2>2 DEF RowLeft
  <2>8. /\ mailer' = [mailer EXCEPT ![m] = r] /\ faults' = [faults EXCEPT ![m] = faults[m]]
        /\ reminders' = [reminders EXCEPT ![m] = reminders[m]]
        /\ expiries' = [expiries EXCEPT ![m] = expiries[m]]
        /\ UNCHANGED <<noticeDay, promos, digestVars>> /\ faults[m] \in {faults[m], faults[m] + 1}
    BY <1>a, <2>1, <2>2
  <2> QED BY <1>0, <1>b, <1>c, <2>3, <2>4, <2>5, <2>6, <2>7, <2>8, MailerStep
<1> QED BY <1>1, <1>2, <1>3, <1>4

\* After a failure the instance may begin another listing.
LEMMA MailerFailsKeeps ==
  ASSUME NoticesInv, NEW m \in Mailers, MailerFails(m)
  PROVE  NoticesInv'
<1> USE NoticesAssumption
<1>0. /\ promo \in PromoStates /\ mailer[m] \in MailerStates /\ faults[m] \in 0..MaxFaults
      /\ reminders[m] \in Nat /\ expiries[m] \in Nat
      /\ faults \in [Mailers -> 0..MaxFaults]
      /\ reminders \in [Mailers -> Nat] /\ expiries \in [Mailers -> Nat]
  BY DEF NoticesInv, NoticeTypes
<1>1. /\ faults' = [faults EXCEPT ![m] = faults[m] + 1] /\ faults[m] + 1 \in 0..MaxFaults
      /\ promo' = promo /\ UNCHANGED <<noticeDay, promos, digestVars, reminders, expiries>>
  BY <1>0 DEF MailerFails
<1>2. mailer[m].left \in 0..Owners /\ (mailer[m].pc = "downgrade" => mailer[m].left - 1 \in 0..Owners)
  BY <1>0 DEF MailerStates, NoticesInv, LeftInv
<1>3. PICK r \in MailerStates : /\ mailer' = [mailer EXCEPT ![m] = r]
                                /\ r.pc \in {"remind", "downgrade", "tell"} => r.left > 0
  <2>1. CASE MailerDone(m)
    BY <2>1, QuietState DEF MailerDone, MailerBecomes
  <2>2. CASE RemindNext(m, mailer[m].left)
    <3>1. PICK r \in MailerStates :
            /\ mailer' = [mailer EXCEPT ![m] = r]
            /\ \/ r.pc = "remind" /\ r.left = mailer[m].left /\ mailer[m].left > 0
               \/ r.pc = "listexpired" /\ r.left = 0 /\ mailer[m].left = 0
      BY <1>2, <2>2, RemindNextIs
    <3> QED BY <3>1
  <2>3. ASSUME NEW k \in 0..Owners, TellNext(m, k)
        PROVE  \E r \in MailerStates : /\ mailer' = [mailer EXCEPT ![m] = r]
                                       /\ r.pc \in {"remind", "downgrade", "tell"} => r.left > 0
    <3>1. PICK r \in MailerStates :
            /\ mailer' = [mailer EXCEPT ![m] = r]
            /\ \/ r.pc = "downgrade" /\ r.left = k /\ k > 0
               \/ r.pc = "idle" /\ k = 0
      BY <2>3, TellNextIs
    <3> QED BY <3>1
  <2> QED BY <1>2, <2>1, <2>2, <2>3 DEF MailerFails
<1>4. /\ reminders = [reminders EXCEPT ![m] = reminders[m]]
      /\ expiries = [expiries EXCEPT ![m] = expiries[m]]
  BY <1>0
<1>5. RowLeft(r)
  BY <1>3 DEF RowLeft
<1> QED BY <1>0, <1>1, <1>3, <1>4, <1>5, MailerStep

\* The plan and its period are changed by requests; only a grant resets flags.
LEMMA PlanKeeps ==
  ASSUME NoticesInv,
         \/ GrantPromo
         \/ \E plan \in {"free", "pro"} : SetPlan(plan) \/ UpdatePlan(plan)
         \/ \E days \in {0, PromoDays} : SetPeriod(days)
  PROVE  NoticesInv'
<1> USE NoticesAssumption
<1>0. promo \in PromoStates /\ noticeDay \in 0..LastNotice /\ promos \in Nat
  BY DEF NoticesInv, NoticeTypes
<1>1. UNCHANGED <<noticeDay, mailer, reminders, expiries, digestVars, faults>>
  BY DEF GrantPromo, SetPlan, UpdatePlan, SetPeriod
<1>2. DigestInv' /\ LeftInv'
  BY <1>0, <1>1, DigestStays DEF NoticesInv, LeftInv
<1>3. CASE GrantPromo
  <2>1. promos' = promos + 1 /\ promos' \in 0..MaxPromos /\ promo' \in PromoStates
    BY <1>0, <1>3 DEF NoticesInv, NoticeTypes, GrantPromo, PromoStates, Unset
  <2>2. NoticeTypes'
    BY <1>1, <2>1 DEF NoticesInv, NoticeTypes, digestVars
  <2>3. ASSUME NEW m \in Mailers
        PROVE  /\ reminders[m] + ToCome(mailer[m], Reminding, promo'.reminded)
                    <= Owners * ((promos + 1) + 1 + faults[m])
               /\ expiries[m] + ToCome(mailer[m], Telling, promo'.told)
                    <= Owners * ((promos + 1) + 1 + faults[m])
    <3>1. /\ reminders[m] \in Nat /\ expiries[m] \in Nat /\ faults[m] \in Nat
          /\ mailer[m] \in MailerStates /\ promo.reminded \in BOOLEAN /\ promo.told \in BOOLEAN
          /\ promo'.reminded \in BOOLEAN /\ promo'.told \in BOOLEAN
      BY <2>1 DEF NoticesInv, NoticeTypes, PromoStates
    <3>2. PICK c \in Nat, o \in Nat : c = Owners * (promos + 1 + faults[m]) /\ o = Owners
            /\ Owners * ((promos + 1) + 1 + faults[m]) = c + o
      BY <1>0, <3>1, OneListing
    <3>3. PICK a \in Nat, b \in Nat, x \in Nat, y \in Nat :
            /\ a = ToCome(mailer[m], Reminding, promo.reminded) /\ b = ToCome(mailer[m], Telling, promo.told)
            /\ x = ToCome(mailer[m], Reminding, promo'.reminded) /\ x <= Owners
            /\ y = ToCome(mailer[m], Telling, promo'.told) /\ y <= Owners
      <4>1. ToCome(mailer[m], Reminding, promo.reminded) \in Nat /\ ToCome(mailer[m], Telling, promo.told) \in Nat
        BY <3>1, ToComeIs
      <4>2. /\ ToCome(mailer[m], Reminding, promo'.reminded) \in Nat
            /\ ToCome(mailer[m], Reminding, promo'.reminded) <= Owners
        BY <3>1, ToComeIs
      <4>3. ToCome(mailer[m], Telling, promo'.told) \in Nat /\ ToCome(mailer[m], Telling, promo'.told) <= Owners
        BY <3>1, ToComeIs
      <4> QED BY <4>1, <4>2, <4>3
    <3>4. reminders[m] + a <= c /\ expiries[m] + b <= c
      BY <3>2, <3>3 DEF NoticesInv, ReminderInv, ExpiryInv, Allowance
    <3>5. reminders[m] + x <= c + o /\ expiries[m] + y <= c + o
      BY <3>1, <3>2, <3>3, <3>4
    <3> QED BY <3>2, <3>3, <3>5
  <2>4. ReminderInv' /\ ExpiryInv'
    BY <1>1, <2>1, <2>3 DEF ReminderInv, ExpiryInv, Allowance
  <2> QED BY <1>2, <2>2, <2>4 DEF NoticesInv
<1>4. CASE ~GrantPromo
  <2>1. promos' = promos
    BY <1>4 DEF SetPlan, UpdatePlan, SetPeriod
  <2>2. promo' \in PromoStates /\ promo'.reminded = promo.reminded /\ promo'.told = promo.told
    <3>1. CASE \E plan \in {"free", "pro"} : SetPlan(plan)
      <4>1. PICK plan \in {"free", "pro"} : promo' = [promo EXCEPT !.plan = plan, !.ends = Unset]
        BY <3>1 DEF SetPlan
      <4>2. Unset \in 0..Unset
        BY DEF Unset
      <4>3. PICK n \in 0..Unset : n = Unset
        BY <4>2
      <4> QED BY <1>0, <4>1, <4>3 DEF PromoStates
    <3>2. CASE \E plan \in {"free", "pro"} : UpdatePlan(plan)
      BY <1>0, <3>2 DEF UpdatePlan, PromoStates
    <3>3. CASE \E days \in {0, PromoDays} : SetPeriod(days)
      <4>1. PICK days \in {0, PromoDays} : promo' = [promo EXCEPT !.ends = noticeDay + days]
        BY <3>3 DEF SetPeriod
      <4>2. noticeDay + days \in 0..Unset
        BY <1>0, <4>1 DEF Unset
      <4>3. PICK n \in 0..Unset : n = noticeDay + days
        BY <4>2
      <4> QED BY <1>0, <4>1, <4>3 DEF PromoStates
    <3> QED BY <1>4, <3>1, <3>2, <3>3
  <2>3. NoticeTypes'
    BY <1>1, <2>1, <2>2 DEF NoticesInv, NoticeTypes, digestVars
  <2>4. ReminderInv' /\ ExpiryInv'
    BY <1>1, <2>1, <2>2 DEF NoticesInv, ReminderInv, ExpiryInv, Allowance
  <2> QED BY <1>2, <2>3, <2>4 DEF NoticesInv
<1> QED BY <1>3, <1>4

\* A day passes: nothing that is counted changes.
LEMMA NoticeTickKeeps ==
  ASSUME NoticesInv, NoticeTick
  PROVE  NoticesInv'
<1> USE NoticesAssumption
<1>1. UNCHANGED <<trialVars, digestVars, faults>> /\ noticeDay' \in 0..LastNotice
      /\ noticeDay <= noticeDay' /\ noticeDay \in Nat
  BY DEF NoticeTick, NoticesInv, NoticeTypes
<1>2. DigestInv'
  BY <1>1, DigestStays
<1>3. NoticeTypes'
  BY <1>1 DEF NoticesInv, NoticeTypes, trialVars, digestVars, Unset
<1>4. LeftInv' /\ ReminderInv' /\ ExpiryInv'
  BY <1>1 DEF NoticesInv, trialVars, LeftInv, ReminderInv, ExpiryInv, Allowance
<1> QED BY <1>2, <1>3, <1>4 DEF NoticesInv

\* Multiples grow.
LEMMA Multiples ==
  ASSUME NEW a \in Int, NEW b \in Int, NEW n \in Nat, a <= b
  PROVE  a * n <= b * n
  OBVIOUS

\* A claim is made more than MinInterval after the one before.
LEMMA ClaimKeeps ==
  ASSUME NoticesInv, NEW m \in Mailers, Claim(m), Claimed(m)
  PROVE  DigestInv'
<1> USE NoticesAssumption
<1>1. lastDigest' = noticeDay /\ digester' = [digester EXCEPT ![m] = [pc |-> "send", day |-> 0]]
      /\ digester[m].pc = "claim" /\ digests' = digests /\ noticeDay' = noticeDay
  BY DEF Claim, DigesterAt
<1>2. noticeDay \in Nat /\ noticeDay # Unset /\ digests \in Nat
      /\ lastDigest \in 0..noticeDay \cup {Unset} /\ digester \in [Mailers -> DigesterStates]
      /\ noticeDay < Unset /\ Unset \in Nat
  BY DEF NoticesInv, NoticeTypes, Unset
<1>3. Sending \subseteq Mailers /\ Sending' \subseteq Mailers /\ Sending' \subseteq Sending \cup {m}
  BY <1>1, <1>2 DEF Sending
<1>4. Cardinality(Sending) \in Nat /\ Cardinality(Sending') \in Nat
      /\ Cardinality(Sending') <= Cardinality(Sending) + 1
  BY <1>3, OneMore
<1>5. PICK n \in Nat, k \in Nat, g \in Nat :
        n = DigestsClaimed /\ k = DigestsClaimed' /\ g = MinGap + 1 /\ k <= n + 1
  BY <1>1, <1>2, <1>4 DEF DigestsClaimed
<1>6. n * g <= noticeDay
  <2>1. CASE lastDigest = Unset
    <3>1. n = 0
      BY <1>5, <2>1 DEF NoticesInv, DigestInv
    <3> QED BY <1>2, <3>1
  <2>2. CASE lastDigest # Unset
    <3>1. lastDigest + MinGap < digester[m].day /\ digester[m].day <= noticeDay
          /\ digester[m].day \in Nat
      <4>1. DueAt(digester[m].day)
        BY DEF Claimed
      <4> QED BY <1>1, <1>2, <2>2, <4>1 DEF DueAt, NoticesInv, DigestInv, DigesterStates
    <3>2. (n - 1) * g <= lastDigest
      BY <1>5, <2>2 DEF NoticesInv, DigestInv
    <3>3. n * g = (n - 1) * g + g
      BY <1>5
    <3>4. (n - 1) * g \in Int /\ n * g \in Int /\ lastDigest \in Nat
      BY <1>2, <1>5, <2>2
    <3> QED BY <1>2, <1>5, <3>1, <3>2, <3>3, <3>4
  <2> QED BY <2>1, <2>2
<1>7. (k - 1) * g <= n * g
  <2>1. k <= n + 1
    BY <1>5
  <2>2. PICK j \in Int : j = k - 1
    OBVIOUS
  <2>3. j <= n
    BY <2>1, <2>2
  <2>4. j * g <= n * g
    BY <2>3, Multiples
  <2> QED BY <2>2, <2>4
<1>8. (k - 1) * g <= lastDigest'
  <2>1. (k - 1) * g \in Int /\ n * g \in Int
    BY <1>5
  <2> QED BY <1>1, <1>2, <1>6, <1>7, <2>1
<1>9. \A q \in Mailers : digester'[q].pc = "claim" => digester'[q].day <= noticeDay'
  BY <1>1, <1>2 DEF NoticesInv, DigestInv
<1> QED BY <1>1, <1>2, <1>5, <1>8, <1>9 DEF DigestInv

\* The other steps of a digest worker raise no count.
LEMMA DigestCalms ==
  ASSUME NoticesInv, NEW m \in Mailers, NEW r \in DigesterStates,
         digester' = [digester EXCEPT ![m] = r], r.pc # "send",
         r.pc = "claim" => r.day <= noticeDay,
         UNCHANGED <<noticeDay, lastDigest>>,
         digests' \in {digests, digests + 1},
         digests' # digests => digester[m].pc = "send"
  PROVE  DigestInv'
<1> USE NoticesAssumption
<1>1. Sending \subseteq Mailers /\ Sending' \subseteq Sending \ {m}
      /\ (digester[m].pc = "send" => m \in Sending)
  BY DEF Sending, NoticesInv, NoticeTypes
<1>2. Cardinality(Sending) \in Nat /\ Cardinality(Sending') \in Nat
      /\ Cardinality(Sending') <= Cardinality(Sending)
      /\ (digester[m].pc = "send" => Cardinality(Sending') + 1 <= Cardinality(Sending))
  BY <1>1, NoMore, OneLess
<1>3. PICK n \in Nat, k \in Nat, g \in Nat :
        n = DigestsClaimed /\ k = DigestsClaimed' /\ g = MinGap + 1 /\ k <= n
  BY <1>2 DEF DigestsClaimed, NoticesInv, NoticeTypes
<1>4. (k - 1) * g <= (n - 1) * g /\ (k - 1) * g \in Int /\ (n - 1) * g \in Int
  <2>1. k <= n
    BY <1>3
  <2>2. PICK j \in Int, i \in Int : j = k - 1 /\ i = n - 1
    OBVIOUS
  <2>3. j <= i
    BY <2>1, <2>2
  <2>4. j * g <= i * g /\ j * g \in Int /\ i * g \in Int
    BY <2>3, Multiples
  <2> QED BY <2>2, <2>4
<1>5. lastDigest # Unset => (k - 1) * g <= lastDigest
  <2>1. lastDigest # Unset => (n - 1) * g <= lastDigest
    BY <1>3 DEF NoticesInv, DigestInv
  <2>2. lastDigest \in Int
    BY DEF NoticesInv, NoticeTypes, Unset
  <2> QED BY <1>4, <2>1, <2>2
<1>6. lastDigest = Unset => k = 0
  BY <1>3 DEF NoticesInv, DigestInv
<1>7. \A q \in Mailers : digester'[q].pc = "claim" => digester'[q].day <= noticeDay'
  BY DEF NoticesInv, NoticeTypes, DigestInv
<1> QED BY <1>3, <1>5, <1>6, <1>7 DEF DigestInv, Unset

\* Every step of the weekly digest.
LEMMA DigestKeeps ==
  ASSUME NoticesInv, NEW m \in Mailers,
         ListCandidates(m) \/ Claim(m) \/ SendDigest(m) \/ DigestFails(m)
  PROVE  NoticesInv'
<1> USE NoticesAssumption
<1>0. noticeDay \in 0..LastNotice /\ digests \in Nat /\ digester \in [Mailers -> DigesterStates]
      /\ faults \in [Mailers -> 0..MaxFaults]
  BY DEF NoticesInv, NoticeTypes
<1>1. UNCHANGED <<noticeDay, trialVars>>
  BY DEF ListCandidates, Claim, SendDigest, DigestFails
<1>2. Waiting \in DigesterStates /\ Waiting.pc = "idle"
      /\ [pc |-> "claim", day |-> noticeDay] \in DigesterStates
      /\ [pc |-> "send", day |-> 0] \in DigesterStates
  BY <1>0 DEF Waiting, DigesterStates
<1>3. /\ faults' \in [Mailers -> 0..MaxFaults]
      /\ \A q \in Mailers : faults'[q] \in {faults[q], faults[q] + 1}
  BY <1>0 DEF ListCandidates, Claim, SendDigest, DigestFails
<1>4. digester' \in [Mailers -> DigesterStates]
  BY <1>0, <1>2 DEF ListCandidates, Claim, SendDigest, DigestFails, DigesterAt
<1>5. digests' \in {digests, digests + 1} /\ lastDigest' \in {lastDigest, noticeDay}
  BY <1>0 DEF ListCandidates, Claim, SendDigest, DigestFails
<1>6. NoticeTypes'
  BY <1>1, <1>3, <1>4, <1>5 DEF NoticesInv, NoticeTypes, trialVars
<1>7. LeftInv' /\ ReminderInv' /\ ExpiryInv'
  <2>1. UNCHANGED <<mailer, promo, promos, reminders, expiries>>
    BY <1>1 DEF trialVars
  <2>2. ASSUME NEW q \in Mailers
        PROVE  /\ reminders[q] + ToCome(mailer[q], Reminding, promo.reminded) <= Owners * (promos + 1 + faults'[q])
               /\ expiries[q] + ToCome(mailer[q], Telling, promo.told) <= Owners * (promos + 1 + faults'[q])
    <3>1. /\ faults[q] \in Nat /\ faults'[q] \in {faults[q], faults[q] + 1} /\ promos \in Nat
          /\ mailer[q] \in MailerStates /\ promo.reminded \in BOOLEAN /\ promo.told \in BOOLEAN
          /\ reminders[q] \in Nat /\ expiries[q] \in Nat
      BY <1>0, <1>3 DEF NoticesInv, NoticeTypes, PromoStates
    <3>2. /\ reminders[q] + ToCome(mailer[q], Reminding, promo.reminded) <= Owners * (promos + 1 + faults[q])
          /\ expiries[q] + ToCome(mailer[q], Telling, promo.told) <= Owners * (promos + 1 + faults[q])
      BY DEF NoticesInv, ReminderInv, ExpiryInv, Allowance
    <3>3. PICK a \in Nat, b \in Nat : /\ a = ToCome(mailer[q], Reminding, promo.reminded)
                                      /\ b = ToCome(mailer[q], Telling, promo.told)
      BY <3>1, ToComeIs
    <3>4. PICK c \in Nat, o \in Nat : c = Owners * (promos + 1 + faults[q]) /\ o = Owners
            /\ Owners * (promos + 1 + (faults[q] + 1)) = c + o
      BY <3>1, OneListing
    <3>5. reminders[q] + a <= c /\ expiries[q] + b <= c /\ reminders[q] + a <= c + o /\ expiries[q] + b <= c + o
      BY <3>1, <3>2, <3>3, <3>4
    <3>6. CASE faults'[q] = faults[q]  BY <3>2, <3>6
    <3>7. CASE faults'[q] = faults[q] + 1  BY <3>3, <3>4, <3>5, <3>7
    <3> QED BY <3>1, <3>6, <3>7
  <2> QED BY <2>1, <2>2 DEF NoticesInv, LeftInv, ReminderInv, ExpiryInv, Allowance
<1>8. DigestInv'
  <2>1. CASE ListCandidates(m)
    <3>1. PICK r \in DigesterStates : r = [pc |-> "claim", day |-> noticeDay]
      BY <1>2
    <3>2. r.pc = "claim" /\ r.day = noticeDay
      BY <3>1
    <3>3. digester' = [digester EXCEPT ![m] = r] /\ UNCHANGED <<noticeDay, lastDigest, digests>>
      BY <2>1, <3>1 DEF ListCandidates, DigesterAt
    <3>4. r.pc # "send" /\ r.day <= noticeDay
      BY <1>0, <3>2
    <3> QED BY <1>0, <3>3, <3>4, DigestCalms
  <2>2. CASE Claim(m) /\ Claimed(m)
    BY <2>2, ClaimKeeps
  <2>3. CASE Claim(m) /\ ~Claimed(m)
    <3>1. digester' = [digester EXCEPT ![m] = Waiting] /\ UNCHANGED <<noticeDay, lastDigest, digests>>
      BY <2>3 DEF Claim, DigesterAt
    <3> QED BY <1>0, <1>2, <3>1, DigestCalms
  <2>4. CASE SendDigest(m)
    <3>1. digester' = [digester EXCEPT ![m] = Waiting] /\ UNCHANGED <<noticeDay, lastDigest>>
          /\ digester[m].pc = "send" /\ digests' = digests + 1
      BY <2>4 DEF SendDigest, DigesterAt
    <3> QED BY <1>0, <1>2, <3>1, DigestCalms
  <2>5. CASE DigestFails(m)
    <3>1. digester' = [digester EXCEPT ![m] = Waiting] /\ UNCHANGED <<noticeDay, lastDigest, digests>>
      BY <2>5 DEF DigestFails, DigesterAt
    <3> QED BY <1>0, <1>2, <3>1, DigestCalms
  <2> QED BY <2>1, <2>2, <2>3, <2>4, <2>5
<1> QED BY <1>6, <1>7, <1>8 DEF NoticesInv

\* Every step of the two mails, the plan and the clock keeps the invariant.
LEMMA NoticesStep == NoticesInv /\ [TrialNext \/ DigestNext]_noticeVars => NoticesInv'
<1> SUFFICES ASSUME NoticesInv, [TrialNext \/ DigestNext]_noticeVars
             PROVE  NoticesInv'
  OBVIOUS
<1>1. CASE TrialNext
  BY <1>1, PlanKeeps, NoticeTickKeeps, RemindKeeps, TellKeeps, MailerFailsKeeps DEF TrialNext
<1>2. CASE DigestNext
  BY <1>2, NoticeTickKeeps, DigestKeeps DEF DigestNext
<1>3. CASE UNCHANGED noticeVars
  BY <1>3 DEF noticeVars, trialVars, digestVars, NoticesInv, NoticeTypes, LeftInv, ReminderInv,
              ExpiryInv, DigestInv, Allowance, DigestsClaimed, Sending
<1> QED BY <1>1, <1>2, <1>3

\* MailIsBounded, for any number of owners, instances, grants and failures: each
\* instance reminds and announces at most once per owner for every grant and every
\* failure of its own, and digests are more than MinInterval apart.
THEOREM NoticesStayBounded == NoticesSpec => []MailIsBounded
<1>1. NoticesInv => MailIsBounded
  <2> SUFFICES ASSUME NoticesInv PROVE MailIsBounded
    OBVIOUS
  <2> USE NoticesAssumption
  <2>1. NoticesTypeOK
    BY DEF NoticesInv, NoticeTypes, NoticesTypeOK, PromoStates
  <2>2. NoticesAreBounded
    <3> SUFFICES ASSUME NEW m \in Mailers
                 PROVE  reminders[m] <= Allowance(m) /\ expiries[m] <= Allowance(m)
      BY DEF NoticesAreBounded, Allowance
    <3>1. /\ reminders[m] \in Nat /\ expiries[m] \in Nat /\ promos \in Nat /\ faults[m] \in Nat
          /\ mailer[m] \in MailerStates /\ promo.reminded \in BOOLEAN /\ promo.told \in BOOLEAN
      BY DEF NoticesInv, NoticeTypes, PromoStates
    <3>2. Allowance(m) \in Nat
      BY <3>1, OneListing DEF Allowance
    <3>3. PICK a \in Nat, b \in Nat : /\ a = ToCome(mailer[m], Reminding, promo.reminded)
                                      /\ b = ToCome(mailer[m], Telling, promo.told)
      BY <3>1, ToComeIs
    <3>4. reminders[m] + a <= Allowance(m) /\ expiries[m] + b <= Allowance(m)
      BY <3>3 DEF NoticesInv, ReminderInv, ExpiryInv
    <3> QED BY <3>1, <3>2, <3>3, <3>4
  <2>3. DigestsApart
    <3> SUFFICES ASSUME digests > 0 PROVE (digests - 1) * (MinGap + 1) <= noticeDay
      BY DEF DigestsApart
    <3>1. PICK n \in Nat, k \in Nat, g \in Nat :
            n = DigestsClaimed /\ k = digests /\ g = MinGap + 1 /\ k <= n /\ k > 0
      BY Finite DEF NoticesInv, NoticeTypes, DigestsClaimed
    <3>2. (k - 1) * g <= (n - 1) * g /\ (k - 1) * g \in Int /\ (n - 1) * g \in Int
      BY <3>1, Multiples
    <3>3. lastDigest # Unset
      BY <3>1 DEF NoticesInv, DigestInv
    <3>4. lastDigest \in 0..noticeDay /\ noticeDay \in Nat /\ (n - 1) * g <= lastDigest
      BY <3>1, <3>3 DEF NoticesInv, NoticeTypes, DigestInv
    <3> QED BY <3>1, <3>2, <3>4
  <2> QED BY <2>1, <2>2, <2>3 DEF MailIsBounded
<1> QED BY <1>1, NoticesInit_, NoticesStep, PTL DEF NoticesSpec

-----------------------------------------------------------------------------
(***************************************************************************)
(* The live feed.  What a stream is due is followed through its places,    *)
(* which takes that an event is on its way in one fanout only and that no  *)
(* channel holds it twice.                                                 *)
(***************************************************************************)

Numbers == 1..Len(written)

FeedTypes ==
  /\ tick \in 0..LastTick
  /\ tickets \subseteq [tenant : FeedTenants, issued : 0..tick, exp : Nat]
  /\ stream \in [Streams -> FeedTenants \cup {NoOne}]
  /\ subs \subseteq Streams /\ closed \subseteq Streams
  /\ written \in Seq(FeedTenants)
  /\ fan \in [Callers -> [event : Nat, left : SUBSET Streams]]
  /\ channel \in [Streams -> Seq(Nat)] /\ forwarded \in [Streams -> Seq(Nat)]
  /\ due \in [Streams -> SUBSET Numbers]
  /\ taken \in [Streams -> SUBSET Nat] /\ dropped \in [Streams -> SUBSET Nat]

\* A stream is subscribed, or was and its channel is closed.
OpenInv == subs \cap closed = {} /\ subs \cup closed = {s \in Streams : stream[s] # NoOne}

\* Fanouts in progress send to subscribers, each an event of its own.
FanInv ==
  \A c \in Callers :
    /\ fan[c].left \subseteq subs
    /\ fan[c].left # {} => fan[c].event \in Numbers
    /\ \A d \in Callers : c # d /\ fan[c].left # {} /\ fan[d].left # {} => fan[c].event # fan[d].event

OnTheWay(s) == {fan[c].event : c \in {d \in Callers : s \in fan[d].left}}

\* What is due is on the way, in the channel, taken or dropped, and in one place only.
Apart(D, W, C, T, R) ==
  /\ D = W \cup C \cup T \cup R
  /\ W \cap C = {} /\ W \cap T = {} /\ W \cap R = {}
  /\ C \cap T = {} /\ C \cap R = {} /\ T \cap R = {}

Queue(q) == Len(q) <= Buffer /\ \A i, j \in 1..Len(q) : q[i] = q[j] => i = j

Counted(q) == IsFiniteSet(Range(q)) /\ Cardinality(Range(q)) = Len(q)

StreamOK(s) ==
  /\ Apart(due[s], OnTheWay(s), Range(channel[s]), taken[s], dropped[s])
  /\ Queue(channel[s]) /\ Counted(forwarded[s])
  /\ Range(forwarded[s]) = {e \in taken[s] : written[e] = stream[s]}
  /\ stream[s] = NoOne => due[s] = {}

TicketInv == \A k \in tickets : k.exp = Unix(k.issued + TicketLife * Second)

FeedInv ==
  FeedTypes /\ OpenInv /\ FanInv /\ (\A s \in Streams : StreamOK(s)) /\ TicketInv /\ broken = FALSE

\* What an appended sequence holds.
LEMMA RangeAppend ==
  ASSUME NEW q \in Seq(Nat), NEW e \in Nat
  PROVE  /\ q \o <<e>> \in Seq(Nat) /\ Len(q \o <<e>>) = Len(q) + 1
         /\ Range(q \o <<e>>) = Range(q) \cup {e}
         /\ \A i \in 1..Len(q) : (q \o <<e>>)[i] = q[i]
         /\ (q \o <<e>>)[Len(q) + 1] = e
<1>0. <<e>> \in Seq(Nat) /\ Len(<<e>>) = 1 /\ <<e>>[1] = e
  OBVIOUS
<1>1. PICK p \in Seq(Nat) : p = q \o <<e>>
  BY <1>0, ConcatProperties
<1>2. Len(p) = Len(q) + 1 /\ (\A i \in 1..Len(q) : p[i] = q[i]) /\ p[Len(q) + 1] = e
  BY <1>0, <1>1
<1>3. DOMAIN p = 1..(Len(q) + 1) /\ DOMAIN q = 1..Len(q) /\ Len(q) \in Nat
  BY <1>2
<1>4. Range(p) = Range(q) \cup {e}
  <2>1. ASSUME NEW x \in Range(p) PROVE x \in Range(q) \cup {e}
    BY <1>2, <1>3 DEF Range
  <2>2. ASSUME NEW x \in Range(q) PROVE x \in Range(p)
    <3>1. PICK i \in 1..Len(q) : x = q[i]
      BY <1>3 DEF Range
    <3>2. i \in 1..(Len(q) + 1) /\ p[i] = x
      BY <1>2, <1>3, <3>1
    <3> QED BY <1>3, <3>2 DEF Range
  <2>3. e \in Range(p)
    BY <1>2, <1>3 DEF Range
  <2> QED BY <2>1, <2>2, <2>3
<1> QED BY <1>1, <1>2, <1>4

\* Taking the head of a sequence without repetition.
LEMMA RangeTail ==
  ASSUME NEW q \in Seq(Nat), q # <<>>, \A i, j \in 1..Len(q) : q[i] = q[j] => i = j
  PROVE  /\ Head(q) \in Nat /\ Head(q) \in Range(q) /\ Tail(q) \in Seq(Nat)
         /\ Len(Tail(q)) = Len(q) - 1
         /\ Range(Tail(q)) = Range(q) \ {Head(q)}
         /\ \A i, j \in 1..Len(Tail(q)) : Tail(q)[i] = Tail(q)[j] => i = j
<1>1. PICK p \in Seq(Nat) : p = Tail(q)
  BY HeadTailProperties
<1>2. Len(q) \in Nat /\ Len(q) > 0 /\ Len(p) = Len(q) - 1 /\ (\A i \in 1..Len(p) : p[i] = q[i + 1])
      /\ Head(q) = q[1]
  BY <1>1
<1>3. DOMAIN p = 1..(Len(q) - 1) /\ DOMAIN q = 1..Len(q)
  BY <1>2
<1>4. Head(q) \in Nat /\ Head(q) \in Range(q)
  BY <1>2, <1>3 DEF Range
<1>5. Range(p) = Range(q) \ {Head(q)}
  <2>1. ASSUME NEW x \in Range(p) PROVE x \in Range(q) \ {Head(q)}
    <3>1. PICK i \in 1..(Len(q) - 1) : x = p[i]
      BY <1>3 DEF Range
    <3>2. x = q[i + 1] /\ i + 1 \in 1..Len(q) /\ i + 1 # 1 /\ 1 \in 1..Len(q)
      BY <1>2, <3>1
    <3> QED BY <1>2, <1>3, <3>2 DEF Range
  <2>2. ASSUME NEW x \in Range(q), x # Head(q) PROVE x \in Range(p)
    <3>1. PICK i \in 1..Len(q) : x = q[i]
      BY <1>3 DEF Range
    <3>2. i - 1 \in 1..(Len(q) - 1) /\ (i - 1) + 1 = i
      BY <1>2, <2>2, <3>1
    <3>3. p[i - 1] = x
      BY <1>2, <3>1, <3>2
    <3> QED BY <1>3, <3>2, <3>3 DEF Range
  <2> QED BY <2>1, <2>2
<1>6. \A i, j \in 1..Len(p) : p[i] = p[j] => i = j
  <2> SUFFICES ASSUME NEW i \in 1..Len(p), NEW j \in 1..Len(p), p[i] = p[j] PROVE i = j
    OBVIOUS
  <2>1. i + 1 \in 1..Len(q) /\ j + 1 \in 1..Len(q) /\ q[i + 1] = q[j + 1]
    BY <1>2
  <2>2. i + 1 = j + 1
    BY <2>1
  <2> QED BY <1>2, <2>2
<1> QED BY <1>1, <1>2, <1>4, <1>5, <1>6

\* Nothing is due before a stream opens.
LEMMA FeedInit_ == FeedInit => FeedInv
<1> SUFFICES ASSUME FeedInit PROVE FeedInv
  OBVIOUS
<1> USE FeedAssumption DEF FeedInit
<1>1. written = <<>> /\ Len(written) = 0 /\ written \in Seq(FeedTenants)
  OBVIOUS
<1>2. FeedTypes
  BY <1>1 DEF FeedTypes, NoFan
<1>3. OpenInv /\ TicketInv
  BY DEF OpenInv, TicketInv
<1>4. FanInv
  BY DEF FanInv, NoFan
<1>5. ASSUME NEW s \in Streams PROVE StreamOK(s)
  <2>1. OnTheWay(s) = {}
    BY DEF OnTheWay, NoFan
  <2>2. channel[s] = <<>> /\ forwarded[s] = <<>> /\ Range(<<>>) = {} /\ Len(<<>>) = 0
    BY DEF Range
  <2>3. due[s] = {} /\ taken[s] = {} /\ dropped[s] = {}
    OBVIOUS
  <2>4. IsFiniteSet({}) /\ Cardinality({}) = 0
    BY FS_EmptySet
  <2>5. Range(channel[s]) = {} /\ Range(forwarded[s]) = {} /\ Len(channel[s]) = 0
        /\ Len(forwarded[s]) = 0
    BY <2>2
  <2>6. \A i, j \in 1..Len(channel[s]) : channel[s][i] = channel[s][j] => i = j
    BY <2>5
  <2>7. Range(forwarded[s]) = {e \in taken[s] : written[e] = stream[s]}
    BY <2>3, <2>5
  <2> HIDE DEF FeedInit
  <2>8. Apart(due[s], OnTheWay(s), Range(channel[s]), taken[s], dropped[s])
    BY <2>1, <2>3, <2>5 DEF Apart
  <2>9. Queue(channel[s]) /\ Counted(forwarded[s])
    BY <2>4, <2>5, <2>6 DEF Queue, Counted
  <2> QED BY <2>3, <2>7, <2>8, <2>9 DEF StreamOK
<1> QED BY <1>2, <1>3, <1>4, <1>5 DEF FeedInv

\* A stream whose places stay as they are.
LEMMA StreamStays ==
  ASSUME FeedInv, NEW s \in Streams, StreamOK(s),
         OnTheWay(s)' = OnTheWay(s), channel'[s] = channel[s], taken'[s] = taken[s],
         dropped'[s] = dropped[s], due'[s] = due[s], forwarded'[s] = forwarded[s],
         stream'[s] = stream[s], \A e \in Numbers : written'[e] = written[e]
  PROVE  StreamOK(s)'
<1>1. due[s] \subseteq Numbers
  BY DEF FeedInv, FeedTypes
<1>2. taken[s] \subseteq Numbers
  BY <1>1 DEF StreamOK, Apart
<1>3. {e \in taken'[s] : written'[e] = stream'[s]} = {e \in taken[s] : written[e] = stream[s]}
  BY <1>2
<1> QED BY <1>3 DEF StreamOK

\* Steps of the tickets and of the clock.
LEMMA TicketStepKeeps ==
  ASSUME FeedInv, FeedTick \/ \E t \in FeedTenants : IssueSSETicket(t)
  PROVE  FeedInv'
<1> USE FeedAssumption
<1>1. UNCHANGED <<stream, subs, channel, closed, fan, written, feedHistory>>
  BY DEF FeedTick, IssueSSETicket
<1>2. tick' \in 0..LastTick /\ tick <= tick' /\ tick \in Nat
  BY DEF FeedInv, FeedTypes, FeedTick, IssueSSETicket
<1>3. tickets' \subseteq [tenant : FeedTenants, issued : 0..tick', exp : Nat] /\ TicketInv'
  <2>1. CASE FeedTick
    <3>1. tickets' = tickets
      BY <2>1 DEF FeedTick
    <3>2. \A k \in tickets : k \in [tenant : FeedTenants, issued : 0..tick', exp : Nat]
      <4>1. SUFFICES ASSUME NEW k \in tickets
                     PROVE  k \in [tenant : FeedTenants, issued : 0..tick', exp : Nat]
        OBVIOUS
      <4>2. k \in [tenant : FeedTenants, issued : 0..tick, exp : Nat]
        BY DEF FeedInv, FeedTypes
      <4>3. 0..tick \subseteq 0..tick'
        BY <1>2
      <4> QED BY <4>2, <4>3
    <3> QED BY <3>1, <3>2 DEF FeedInv, TicketInv, Unix
  <2>2. CASE \E t \in FeedTenants : IssueSSETicket(t)
    <3>1. PICK t \in FeedTenants : tickets' = tickets \cup {Issue(t)}
      BY <2>2 DEF IssueSSETicket
    <3>2. tick' = tick
      BY <2>2 DEF IssueSSETicket
    <3>3. Unix(tick + TicketLife * Second) \in Nat
      <4>1. PICK n \in Nat : n = tick + TicketLife * Second
        BY <1>2
      <4>2. n \div Second \in Nat
        OBVIOUS
      <4> QED BY <4>1, <4>2 DEF Unix
    <3>4. Issue(t) \in [tenant : FeedTenants, issued : 0..tick, exp : Nat]
      BY <1>2, <3>3 DEF Issue
    <3>5. Issue(t).exp = Unix(Issue(t).issued + TicketLife * Second)
      BY DEF Issue
    <3> QED BY <3>1, <3>2, <3>4, <3>5 DEF FeedInv, FeedTypes, TicketInv, Unix
  <2> QED BY <2>1, <2>2
<1>4. FeedTypes'
  BY <1>1, <1>2, <1>3 DEF FeedInv, FeedTypes, feedHistory, Numbers
<1>5. OpenInv' /\ FanInv' /\ broken' = FALSE
  BY <1>1 DEF FeedInv, OpenInv, FanInv, feedHistory, Numbers
<1>6. ASSUME NEW s \in Streams PROVE StreamOK(s)'
  <2>1. OnTheWay(s)' = OnTheWay(s)
    BY <1>1 DEF OnTheWay
  <2> QED BY <1>1, <2>1, StreamStays DEF FeedInv, feedHistory
<1> QED BY <1>3, <1>4, <1>5, <1>6 DEF FeedInv

\* A stream that opens is due nothing yet.
LEMMA SubscribeKeeps ==
  ASSUME FeedInv, NEW s \in Streams, NEW t \in FeedTenants, Subscribe(s, t)
  PROVE  FeedInv'
<1> USE FeedAssumption
<1>1. UNCHANGED <<tick, tickets, channel, closed, fan, written, feedHistory>>
      /\ stream[s] = NoOne /\ stream' = [stream EXCEPT ![s] = t] /\ subs' = subs \cup {s}
  BY DEF Subscribe
<1>2. FeedTypes'
  BY <1>1 DEF FeedInv, FeedTypes, feedHistory, Numbers
<1>3. OpenInv'
  BY <1>1 DEF FeedInv, FeedTypes, OpenInv
<1>4. FanInv' /\ TicketInv' /\ broken' = FALSE
  BY <1>1 DEF FeedInv, FanInv, TicketInv, Unix, feedHistory, Numbers
<1>5. ASSUME NEW q \in Streams PROVE StreamOK(q)'
  <2>1. OnTheWay(q)' = OnTheWay(q)
    BY <1>1 DEF OnTheWay
  <2>2. CASE q # s
    <3>1. stream'[q] = stream[q]
      BY <1>1, <2>2 DEF FeedInv, FeedTypes
    <3> QED BY <1>1, <2>1, <3>1, StreamStays DEF FeedInv, feedHistory
  <2>3. CASE q = s
    <3>1. StreamOK(s)
      BY DEF FeedInv
    <3>2. due[s] = {} /\ taken[s] = {} /\ Range(forwarded[s]) = {}
      BY <1>1, <3>1 DEF StreamOK, Apart
    <3>3. stream'[s] # NoOne
      BY <1>1 DEF FeedInv, FeedTypes
    <3>4. {e \in taken'[s] : written'[e] = stream'[s]} = {}
      BY <1>1, <3>2 DEF feedHistory
    <3> QED BY <1>1, <2>1, <2>3, <3>1, <3>2, <3>3, <3>4 DEF StreamOK, feedHistory
  <2> QED BY <2>2, <2>3
<1> QED BY <1>2, <1>3, <1>4, <1>5 DEF FeedInv

\* A channel is closed when no fanout is in progress.
LEMMA CancelKeeps ==
  ASSUME FeedInv, NEW s \in Streams, Cancel(s)
  PROVE  FeedInv'
<1> USE FeedAssumption
<1>1. UNCHANGED <<tick, tickets, stream, channel, fan, written, feedHistory>>
      /\ s \in subs /\ subs' = subs \ {s} /\ closed' = closed \cup {s}
      /\ \A c \in Callers : fan[c] = NoFan
  BY DEF Cancel, WriterEnters
<1>2. FeedTypes'
  BY <1>1 DEF FeedInv, FeedTypes, feedHistory, Numbers
<1>3. OpenInv'
  BY <1>1 DEF FeedInv, FeedTypes, OpenInv
<1>4. FanInv'
  <2>1. \A c \in Callers : fan'[c] = NoFan /\ NoFan.left = {}
    BY <1>1 DEF NoFan
  <2> QED BY <2>1 DEF FanInv
<1>5. TicketInv' /\ broken' = FALSE
  BY <1>1 DEF FeedInv, TicketInv, Unix, feedHistory
<1>6. ASSUME NEW q \in Streams PROVE StreamOK(q)'
  <2>1. OnTheWay(q)' = OnTheWay(q)
    BY <1>1 DEF OnTheWay
  <2> QED BY <1>1, <2>1, StreamStays DEF FeedInv, feedHistory
<1> QED BY <1>2, <1>3, <1>4, <1>5, <1>6 DEF FeedInv

\* A fanout that begins is due to every subscriber and on its way to it.
LEMMA FanoutKeeps ==
  ASSUME FeedInv, NEW c \in Callers, NEW t \in FeedTenants, Fanout(c, t)
  PROVE  FeedInv'
<1> USE FeedAssumption
<1> DEFINE e == Len(written) + 1
<1>1. /\ UNCHANGED <<tick, tickets, stream, subs, channel, closed, dropped, taken, forwarded, broken>>
      /\ fan[c] = NoFan /\ written' = written \o <<t>>
      /\ fan' = IF subs = {} THEN fan ELSE [fan EXCEPT ![c] = [event |-> e, left |-> subs]]
      /\ due' = [s \in Streams |-> IF s \in subs THEN due[s] \cup {e} ELSE due[s]]
  BY DEF Fanout
<1>2. written \in Seq(FeedTenants) /\ Len(written) \in Nat /\ e \in Nat /\ e \notin Numbers
      /\ \A i \in Numbers : i \in Nat
  BY DEF FeedInv, FeedTypes, Numbers
<1>3. written' \in Seq(FeedTenants) /\ Len(written') = e /\ (\A i \in Numbers : written'[i] = written[i])
  <2>1. <<t>> \in Seq(FeedTenants) /\ Len(<<t>>) = 1
    OBVIOUS
  <2> QED BY <1>1, <1>2, <2>1, ConcatProperties DEF Numbers
<1> HIDE DEF e
<1>4. Numbers' = Numbers \cup {e}
  BY <1>2, <1>3 DEF Numbers, e
<1>5. fan \in [Callers -> [event : Nat, left : SUBSET Streams]] /\ subs \subseteq Streams
      /\ NoFan.left = {}
  BY DEF FeedInv, FeedTypes, NoFan
<1>6. \A d \in Callers : fan'[d].left = (IF d = c THEN subs ELSE fan[d].left)
                         /\ fan'[d].event = (IF d = c /\ subs # {} THEN e ELSE fan[d].event)
  BY <1>1, <1>5
<1>7. FeedTypes'
  <2>1. fan' \in [Callers -> [event : Nat, left : SUBSET Streams]]
    BY <1>1, <1>2, <1>5
  <2>2. due' \in [Streams -> SUBSET Numbers']
    BY <1>1, <1>4 DEF FeedInv, FeedTypes
  <2> QED BY <1>1, <1>3, <2>1, <2>2 DEF FeedInv, FeedTypes
<1>8. OpenInv' /\ TicketInv' /\ broken' = FALSE
  BY <1>1 DEF FeedInv, OpenInv, TicketInv, Unix
<1>9. FanInv'
  <2> SUFFICES ASSUME NEW d \in Callers
               PROVE  /\ fan'[d].left \subseteq subs'
                      /\ fan'[d].left # {} => fan'[d].event \in Numbers'
                      /\ \A f \in Callers : d # f /\ fan'[d].left # {} /\ fan'[f].left # {}
                           => fan'[d].event # fan'[f].event
    BY DEF FanInv
  <2>1. \A f \in Callers : f # c /\ fan[f].left # {} => fan[f].event \in Numbers /\ fan[f].event # e
    BY <1>2 DEF FeedInv, FanInv
  <2>2. fan'[d].left \subseteq subs' /\ (fan'[d].left # {} => fan'[d].event \in Numbers')
    BY <1>1, <1>4, <1>6, <2>1 DEF FeedInv, FanInv
  <2>3. ASSUME NEW f \in Callers, d # f, fan'[d].left # {}, fan'[f].left # {}
        PROVE  fan'[d].event # fan'[f].event
    BY <1>6, <2>1, <2>3 DEF FeedInv, FanInv
  <2> QED BY <2>2, <2>3
<1>10. ASSUME NEW s \in Streams PROVE StreamOK(s)'
  <2>0. StreamOK(s)
    BY DEF FeedInv
  <2>1. CASE s \notin subs
    <3>1. OnTheWay(s)' = OnTheWay(s)
      <4>1. \A d \in Callers : s \in fan'[d].left <=> s \in fan[d].left
        BY <1>1, <1>5, <1>6, <2>1
      <4>2. \A d \in Callers : s \in fan[d].left => fan'[d].event = fan[d].event
        BY <1>1, <1>5, <1>6, <2>1
      <4> QED BY <4>1, <4>2 DEF OnTheWay
    <3>2. due'[s] = due[s]
      BY <1>1, <2>1
    <3> QED BY <1>1, <1>3, <2>0, <3>1, <3>2, StreamStays
  <2>2. CASE s \in subs
    <3>1. OnTheWay(s)' = OnTheWay(s) \cup {e}
      <4>1. fan'[c].event = e /\ s \in fan'[c].left /\ s \notin fan[c].left
        BY <1>1, <1>5, <1>6, <2>2
      <4>2. \A d \in Callers : d # c => fan'[d].left = fan[d].left /\ fan'[d].event = fan[d].event
        BY <1>6
      <4> QED BY <4>1, <4>2 DEF OnTheWay
    <3>2. due'[s] = due[s] \cup {e} /\ e \notin due[s]
      BY <1>1, <1>2, <2>2 DEF FeedInv, FeedTypes
    <3>3. taken[s] \subseteq Numbers /\ stream[s] # NoOne
      BY <2>0, <2>2 DEF StreamOK, Apart, FeedInv, FeedTypes, OpenInv
    <3>4. {i \in taken'[s] : written'[i] = stream'[s]} = {i \in taken[s] : written[i] = stream[s]}
      BY <1>1, <1>3, <3>3
    <3>5. Apart(due[s] \cup {e}, OnTheWay(s) \cup {e}, Range(channel[s]), taken[s], dropped[s])
      <4>1. Apart(due[s], OnTheWay(s), Range(channel[s]), taken[s], dropped[s])
        BY <2>0 DEF StreamOK
      <4> QED BY <3>2, <4>1 DEF Apart
    <3> QED BY <1>1, <2>0, <3>1, <3>2, <3>3, <3>4, <3>5 DEF StreamOK
  <2> QED BY <2>1, <2>2
<1> QED BY <1>7, <1>8, <1>9, <1>10 DEF FeedInv

\* A stream takes the head of its channel.
LEMMA ForwardKeeps ==
  ASSUME FeedInv, NEW s \in Streams, Forward(s)
  PROVE  FeedInv'
<1> USE FeedAssumption
<1> DEFINE e == Head(channel[s])
<1>1. /\ UNCHANGED <<tick, tickets, stream, subs, closed, fan, written, due, dropped, broken>>
      /\ s \in subs /\ channel[s] # <<>> /\ channel' = [channel EXCEPT ![s] = Tail(channel[s])]
      /\ taken' = [taken EXCEPT ![s] = taken[s] \cup {e}]
      /\ forwarded' = IF written[e] = stream[s]
                      THEN [forwarded EXCEPT ![s] = forwarded[s] \o <<e>>] ELSE forwarded
  BY DEF Forward
<1>2. channel[s] \in Seq(Nat) /\ forwarded[s] \in Seq(Nat) /\ StreamOK(s)
  BY DEF FeedInv, FeedTypes
<1>3. /\ e \in Nat /\ e \in Range(channel[s]) /\ Tail(channel[s]) \in Seq(Nat)
      /\ Len(Tail(channel[s])) = Len(channel[s]) - 1 /\ Len(channel[s]) \in Nat
      /\ Range(Tail(channel[s])) = Range(channel[s]) \ {e}
      /\ \A i, j \in 1..Len(Tail(channel[s])) : Tail(channel[s])[i] = Tail(channel[s])[j] => i = j
  <2>1. \A i, j \in 1..Len(channel[s]) : channel[s][i] = channel[s][j] => i = j
    BY <1>2 DEF StreamOK, Queue
  <2>2. Len(channel[s]) \in Nat
    BY <1>2
  <2> QED BY <1>1, <1>2, <2>1, <2>2, RangeTail
<1>4. /\ forwarded[s] \o <<e>> \in Seq(Nat) /\ Len(forwarded[s] \o <<e>>) = Len(forwarded[s]) + 1
      /\ Range(forwarded[s] \o <<e>>) = Range(forwarded[s]) \cup {e}
  BY <1>2, <1>3, RangeAppend
<1> HIDE DEF e
<1>5. channel' \in [Streams -> Seq(Nat)] /\ channel'[s] = Tail(channel[s])
      /\ taken' \in [Streams -> SUBSET Nat] /\ taken'[s] = taken[s] \cup {e}
      /\ forwarded' \in [Streams -> Seq(Nat)]
      /\ forwarded'[s] = (IF written[e] = stream[s] THEN forwarded[s] \o <<e>> ELSE forwarded[s])
  BY <1>1, <1>3, <1>4 DEF FeedInv, FeedTypes
<1>6. FeedTypes'
  BY <1>1, <1>5 DEF FeedInv, FeedTypes, Numbers
<1>7. OpenInv' /\ TicketInv' /\ broken' = FALSE /\ FanInv'
  BY <1>1 DEF FeedInv, OpenInv, TicketInv, Unix, FanInv, Numbers
<1>8. \A q \in Streams : OnTheWay(q)' = OnTheWay(q)
  BY <1>1 DEF OnTheWay
<1>9. ASSUME NEW q \in Streams, q # s PROVE StreamOK(q)'
  <2>1. channel'[q] = channel[q] /\ taken'[q] = taken[q] /\ forwarded'[q] = forwarded[q]
    BY <1>1, <1>9 DEF FeedInv, FeedTypes
  <2>2. StreamOK(q)
    BY DEF FeedInv
  <2> QED BY <1>1, <1>8, <2>1, <2>2, StreamStays
<1>10. StreamOK(s)'
  <2>1. e \notin taken[s] /\ Apart(due[s], OnTheWay(s), Range(channel[s]) \ {e}, taken[s] \cup {e}, dropped[s])
    <3>1. Apart(due[s], OnTheWay(s), Range(channel[s]), taken[s], dropped[s])
      BY <1>2 DEF StreamOK
    <3> QED BY <1>3, <3>1 DEF Apart
  <2>2. Apart(due'[s], OnTheWay(s)', Range(channel'[s]), taken'[s], dropped'[s])
    BY <1>1, <1>3, <1>5, <1>8, <2>1
  <2>3. Queue(channel'[s])
    <3>1. Len(channel[s]) <= Buffer
      BY <1>2 DEF StreamOK, Queue
    <3>2. Len(Tail(channel[s])) <= Buffer
      BY <1>3, <3>1
    <3> QED BY <1>3, <1>5, <3>2 DEF Queue
  <2>4. Range(forwarded'[s]) = {i \in taken'[s] : written'[i] = stream'[s]}
    <3>1. CASE written[e] = stream[s]
      BY <1>1, <1>2, <1>4, <1>5, <3>1 DEF StreamOK
    <3>2. CASE written[e] # stream[s]
      BY <1>1, <1>2, <1>5, <3>2 DEF StreamOK
    <3> QED BY <3>1, <3>2
  <2>5. Counted(forwarded'[s])
    <3>1. CASE written[e] = stream[s]
      <4>1. e \notin Range(forwarded[s]) /\ IsFiniteSet(Range(forwarded[s]))
            /\ Cardinality(Range(forwarded[s])) = Len(forwarded[s])
        BY <1>2, <2>1 DEF StreamOK, Counted
      <4>2. IsFiniteSet(Range(forwarded[s]) \cup {e})
            /\ Cardinality(Range(forwarded[s]) \cup {e}) = Cardinality(Range(forwarded[s])) + 1
        BY <4>1, FS_AddElement
      <4> QED BY <1>4, <1>5, <3>1, <4>1, <4>2 DEF Counted
    <3>2. CASE written[e] # stream[s]
      BY <1>2, <1>5, <3>2 DEF StreamOK
    <3> QED BY <3>1, <3>2
  <2>6. stream'[s] = NoOne => due'[s] = {}
    BY <1>1, <1>2 DEF StreamOK
  <2> QED BY <2>2, <2>3, <2>4, <2>5, <2>6 DEF StreamOK
<1> QED BY <1>6, <1>7, <1>9, <1>10 DEF FeedInv

\* A send finds the channel open and moves the event into it, or drops it.
LEMMA SendKeeps ==
  ASSUME FeedInv, NEW c \in Callers, NEW s \in Streams, Send(c, s)
  PROVE  FeedInv'
<1> USE FeedAssumption
<1> DEFINE e == fan[c].event
<1>0. s \in fan[c].left /\ s \in subs /\ s \notin closed /\ e \in Numbers /\ e \in Nat
      /\ fan \in [Callers -> [event : Nat, left : SUBSET Streams]]
  BY DEF Send, FeedInv, FeedTypes, FanInv, OpenInv, Numbers
<1>1. /\ UNCHANGED <<tick, tickets, stream, subs, closed, written, due, taken, forwarded, broken>>
      /\ \/ /\ ~Full(s) /\ channel' = [channel EXCEPT ![s] = channel[s] \o <<e>>]
            /\ dropped' = dropped
         \/ /\ Full(s) /\ dropped' = [dropped EXCEPT ![s] = dropped[s] \cup {e}]
            /\ channel' = channel
  BY <1>0 DEF Send
<1>2. \A d \in Callers :
        /\ fan'[d].left = (IF d = c THEN fan[c].left \ {s} ELSE fan[d].left)
        /\ fan'[d].left # {} => fan'[d].event = fan[d].event
  <2>1. fan' = [fan EXCEPT ![c] = IF Left(c, s) = {} THEN NoFan ELSE [fan[c] EXCEPT !.left = Left(c, s)]]
    BY DEF Send
  <2>2. CASE Left(c, s) = {}
    BY <1>0, <2>1, <2>2 DEF Left, NoFan
  <2>3. CASE Left(c, s) # {}
    <3>1. fan[c] \in [event : Nat, left : SUBSET Streams]
      BY <1>0
    <3>2. fan'[c] = [fan[c] EXCEPT !.left = Left(c, s)]
      BY <1>0, <2>1, <2>3
    <3>3. fan'[c].left = Left(c, s) /\ fan'[c].event = fan[c].event
      BY <3>1, <3>2
    <3>4. \A d \in Callers : d # c => fan'[d] = fan[d]
      BY <1>0, <2>1
    <3> QED BY <3>3, <3>4 DEF Left
  <2> QED BY <2>2, <2>3
<1>3. fan' \in [Callers -> [event : Nat, left : SUBSET Streams]]
  <2>1. NoFan \in [event : Nat, left : SUBSET Streams]
    BY DEF NoFan
  <2>2. [fan[c] EXCEPT !.left = Left(c, s)] \in [event : Nat, left : SUBSET Streams]
    <3>1. fan[c] \in [event : Nat, left : SUBSET Streams] /\ Left(c, s) \in SUBSET Streams
      BY <1>0 DEF Left
    <3> QED BY <3>1
  <2> QED BY <1>0, <2>1, <2>2 DEF Send
<1>4. channel[s] \in Seq(Nat) /\ StreamOK(s)
  BY DEF FeedInv, FeedTypes
<1>5. /\ channel[s] \o <<e>> \in Seq(Nat) /\ Len(channel[s] \o <<e>>) = Len(channel[s]) + 1
      /\ Range(channel[s] \o <<e>>) = Range(channel[s]) \cup {e}
      /\ \A i \in 1..Len(channel[s]) : (channel[s] \o <<e>>)[i] = channel[s][i]
      /\ (channel[s] \o <<e>>)[Len(channel[s]) + 1] = e
  BY <1>0, <1>4, RangeAppend
<1> HIDE DEF e
<1>6. FeedTypes'
  <2>0. channel \in [Streams -> Seq(Nat)] /\ dropped \in [Streams -> SUBSET Nat]
        /\ e \in Nat /\ channel[s] \o <<e>> \in Seq(Nat)
    BY <1>0, <1>5 DEF FeedInv, FeedTypes, e
  <2>1. channel' \in [Streams -> Seq(Nat)] /\ dropped' \in [Streams -> SUBSET Nat]
    BY <1>1, <2>0
  <2> QED BY <1>1, <1>3, <2>1 DEF FeedInv, FeedTypes, Numbers
<1>7. OpenInv' /\ TicketInv' /\ broken' = FALSE
  BY <1>1 DEF FeedInv, OpenInv, TicketInv, Unix
<1>8. FanInv'
  <2>1. \A d \in Callers : fan'[d].left \subseteq fan[d].left /\ (fan'[d].left # {} => fan[d].left # {})
    BY <1>0, <1>2
  <2>2. Numbers' = Numbers /\ subs' = subs
    BY <1>1 DEF Numbers
  <2>3. \A d \in Callers : fan'[d].left \subseteq subs' /\ (fan'[d].left # {} => fan'[d].event \in Numbers')
    BY <1>2, <2>1, <2>2 DEF FeedInv, FanInv
  <2>4. \A d, f \in Callers : d # f /\ fan'[d].left # {} /\ fan'[f].left # {}
          => fan'[d].event # fan'[f].event
    BY <1>2, <2>1 DEF FeedInv, FanInv
  <2> QED BY <2>3, <2>4 DEF FanInv
<1>9. ASSUME NEW q \in Streams, q # s PROVE StreamOK(q)'
  <2>1. channel'[q] = channel[q] /\ dropped'[q] = dropped[q]
    BY <1>1, <1>9 DEF FeedInv, FeedTypes
  <2>2. OnTheWay(q)' = OnTheWay(q)
    <3>1. \A d \in Callers : q \in fan'[d].left <=> q \in fan[d].left
      BY <1>2, <1>9
    <3>2. \A d \in Callers : q \in fan'[d].left => fan'[d].event = fan[d].event
      BY <1>2
    <3> QED BY <3>1, <3>2 DEF OnTheWay
  <2>3. StreamOK(q)
    BY DEF FeedInv
  <2> QED BY <1>1, <2>1, <2>2, <2>3, StreamStays
<1>10. OnTheWay(s)' = OnTheWay(s) \ {e} /\ e \in OnTheWay(s)
  <2>1. \A d \in Callers : s \in fan'[d].left <=> d # c /\ s \in fan[d].left
    BY <1>2
  <2>2. \A d \in Callers : s \in fan'[d].left => fan'[d].event = fan[d].event
    BY <1>2
  <2>3. \A d \in Callers : d # c /\ s \in fan[d].left => fan[d].event # e
    BY <1>0 DEF FeedInv, FanInv, e
  <2>4. e \in OnTheWay(s)
    BY <1>0 DEF OnTheWay, e
  <2>5. ASSUME NEW x \in OnTheWay(s)' PROVE x \in OnTheWay(s) \ {e}
    <3>1. PICK d \in Callers : s \in fan'[d].left /\ x = fan'[d].event
      BY DEF OnTheWay
    <3> QED BY <2>1, <2>2, <2>3, <3>1 DEF OnTheWay
  <2>6. ASSUME NEW x \in OnTheWay(s), x # e PROVE x \in OnTheWay(s)'
    <3>1. PICK d \in Callers : s \in fan[d].left /\ x = fan[d].event
      BY DEF OnTheWay
    <3>2. d # c
      BY <2>6, <3>1 DEF e
    <3> QED BY <2>1, <2>2, <3>1, <3>2 DEF OnTheWay
  <2> QED BY <2>4, <2>5, <2>6
<1>11. /\ e \notin Range(channel[s])
       /\ Apart(due[s], OnTheWay(s)', Range(channel[s]) \cup {e}, taken[s], dropped[s])
       /\ Apart(due[s], OnTheWay(s)', Range(channel[s]), taken[s], dropped[s] \cup {e})
  <2>1. Apart(due[s], OnTheWay(s), Range(channel[s]), taken[s], dropped[s])
    BY <1>4 DEF StreamOK
  <2> QED BY <1>10, <2>1 DEF Apart
<1>20. /\ Counted(forwarded'[s]) /\ (stream'[s] = NoOne => due'[s] = {})
      /\ Range(forwarded'[s]) = {i \in taken'[s] : written'[i] = stream'[s]}
  BY <1>1, <1>4 DEF StreamOK
<1>12. ASSUME ~Full(s) /\ channel' = [channel EXCEPT ![s] = channel[s] \o <<e>>] /\ dropped' = dropped
       PROVE  StreamOK(s)'
  <2>1. channel'[s] = channel[s] \o <<e>> /\ dropped'[s] = dropped[s]
    BY <1>12 DEF FeedInv, FeedTypes
  <2>2. Range(channel'[s]) = Range(channel[s]) \cup {e} /\ Len(channel'[s]) = Len(channel[s]) + 1
        /\ Len(channel[s]) \in Nat
    BY <1>4, <1>5, <2>1
  <2>3. Len(channel'[s]) <= Buffer
    BY <1>12, <2>2 DEF Full
  <2>4. \A i, j \in 1..Len(channel'[s]) : channel'[s][i] = channel'[s][j] => i = j
    <3> SUFFICES ASSUME NEW i \in 1..Len(channel'[s]), NEW j \in 1..Len(channel'[s]),
                        channel'[s][i] = channel'[s][j]
                 PROVE  i = j
      OBVIOUS
    <3>1. \A k \in 1..Len(channel[s]) : channel'[s][k] = channel[s][k] /\ channel'[s][k] # e
      <4>1. \A k \in 1..Len(channel[s]) : channel[s][k] \in Range(channel[s])
        BY <1>4 DEF Range
      <4> QED BY <1>5, <1>11, <2>1, <4>1
    <3>2. channel'[s][Len(channel[s]) + 1] = e
      BY <1>5, <2>1
    <3>3. \A k \in 1..Len(channel'[s]) : k \in 1..Len(channel[s]) \/ k = Len(channel[s]) + 1
      BY <2>2
    <3>4. \A k, l \in 1..Len(channel[s]) : channel[s][k] = channel[s][l] => k = l
      BY <1>4 DEF StreamOK, Queue
    <3> QED BY <3>1, <3>2, <3>3, <3>4
  <2>5. Queue(channel'[s])
    BY <2>3, <2>4 DEF Queue
  <2>6. Apart(due'[s], OnTheWay(s)', Range(channel'[s]), taken'[s], dropped'[s])
    BY <1>1, <1>11, <2>1, <2>2
  <2> QED BY <1>20, <2>5, <2>6 DEF StreamOK
<1>13. ASSUME Full(s) /\ dropped' = [dropped EXCEPT ![s] = dropped[s] \cup {e}] /\ channel' = channel
       PROVE  StreamOK(s)'
  <2>1. dropped'[s] = dropped[s] \cup {e} /\ channel'[s] = channel[s]
    BY <1>13 DEF FeedInv, FeedTypes
  <2>2. Apart(due'[s], OnTheWay(s)', Range(channel'[s]), taken'[s], dropped'[s])
    BY <1>1, <1>11, <2>1
  <2>3. Queue(channel'[s])
    BY <1>4, <2>1 DEF StreamOK
  <2> QED BY <1>20, <2>2, <2>3 DEF StreamOK
<1>14. StreamOK(s)'
  <2>1. \/ ~Full(s) /\ channel' = [channel EXCEPT ![s] = channel[s] \o <<e>>] /\ dropped' = dropped
        \/ Full(s) /\ dropped' = [dropped EXCEPT ![s] = dropped[s] \cup {e}] /\ channel' = channel
    BY <1>1
  <2> QED BY <1>12, <1>13, <2>1
<1> QED BY <1>6, <1>7, <1>8, <1>9, <1>14 DEF FeedInv

\* Every step of streams, fanouts and tickets keeps the invariant.
LEMMA FeedStep == FeedInv /\ [FeedNext \/ TicketNext]_feedVars => FeedInv'
<1> SUFFICES ASSUME FeedInv, [FeedNext \/ TicketNext]_feedVars
             PROVE  FeedInv'
  OBVIOUS
<1>1. CASE FeedNext
  BY <1>1, ForwardKeeps, CancelKeeps, SubscribeKeeps, FanoutKeeps, SendKeeps DEF FeedNext, OpenWithKey
<1>2. CASE TicketNext
  <2>1. CASE FeedTick \/ \E t \in FeedTenants : IssueSSETicket(t)
    BY <2>1, TicketStepKeeps
  <2>2. ASSUME NEW s \in Streams, Cancel(s) PROVE FeedInv'
    BY <2>2, CancelKeeps
  <2>3. ASSUME NEW s \in Streams, OpenWithTicket(s) PROVE FeedInv'
    <3>1. PICK k \in tickets : Subscribe(s, k.tenant)
      BY <2>3 DEF OpenWithTicket
    <3>2. k.tenant \in FeedTenants
      BY <3>1 DEF FeedInv, FeedTypes
    <3> QED BY <3>1, <3>2, SubscribeKeeps
  <2> QED BY <1>2, <2>1, <2>2, <2>3 DEF TicketNext
<1>3. CASE UNCHANGED feedVars
  <2>1. UNCHANGED <<tick, tickets, stream, subs, channel, closed, fan, written, due, dropped, taken,
                    forwarded, broken>>
    BY <1>3 DEF feedVars, feedHistory
  <2>2. FeedTypes' /\ OpenInv' /\ FanInv' /\ TicketInv' /\ broken' = FALSE
    BY <2>1 DEF FeedInv, FeedTypes, OpenInv, FanInv, TicketInv, Unix, Numbers
  <2>3. ASSUME NEW s \in Streams PROVE StreamOK(s)'
    <3>1. OnTheWay(s)' = OnTheWay(s)
      BY <2>1 DEF OnTheWay
    <3> QED BY <2>1, <3>1, StreamStays DEF FeedInv
  <2> QED BY <2>2, <2>3 DEF FeedInv
<1> QED BY <1>1, <1>2, <1>3

\* Cutting a time to whole seconds keeps the order, and a second more is seen.
LEMMA WholeSeconds ==
  ASSUME NEW a \in Nat, NEW b \in Nat, NEW d \in Nat \ {0}
  PROVE  /\ a <= b => a \div d <= b \div d
         /\ b >= a + d => b \div d > a \div d
<1>1. PICK m \in Nat, n \in Nat : m = a \div d /\ n = b \div d
  OBVIOUS
<1>2. d * m <= a /\ a < d * m + d /\ d * n <= b /\ b < d * n + d
  BY <1>1
<1>3. n + 1 <= m => d * n + d <= d * m
  <2>1. ASSUME n + 1 <= m PROVE d * n + d <= d * m
    <3>1. PICK k \in Nat : m = n + 1 + k
      <4>1. m - n - 1 \in Nat /\ m = n + 1 + (m - n - 1)
        BY <2>1
      <4> QED BY <4>1
    <3>2. d * m = d * n + d + d * k /\ d * k >= 0
      BY <3>1
    <3> QED BY <3>2
  <2> QED BY <2>1
<1>4. n <= m => d * n <= d * m
  <2>1. ASSUME n <= m PROVE d * n <= d * m
    <3>1. PICK k \in Nat : m = n + k
      <4>1. m - n \in Nat /\ m = n + (m - n)
        BY <2>1
      <4> QED BY <4>1
    <3>2. d * m = d * n + d * k /\ d * k >= 0
      BY <3>1
    <3> QED BY <3>2
  <2> QED BY <2>1
<1>5. d * m \in Nat /\ d * n \in Nat
  OBVIOUS
<1>6. a <= b => m <= n
  BY <1>2, <1>3, <1>5
<1>7. b >= a + d => n > m
  BY <1>2, <1>4, <1>5
<1> QED BY <1>1, <1>6, <1>7

\* FeedDelivers, for any number of streams and callers and any capacity: no send
\* meets a closed channel, no event is lost or doubled on its way to a stream, and
\* a ticket lasts as long as announced.
THEOREM StreamsGetTheirEvents == FeedSpec => []FeedDelivers
<1>1. FeedInv => FeedDelivers
  <2> SUFFICES ASSUME FeedInv PROVE FeedDelivers
    OBVIOUS
  <2> USE FeedAssumption
  <2>1. \A s \in Streams : StreamOK(s)
    BY DEF FeedInv
  <2>2. FeedTypeOK
    <3>1. ASSUME NEW s \in Streams PROVE Len(channel[s]) <= Buffer /\ dropped[s] \subseteq due[s]
      BY <2>1 DEF StreamOK, Queue, Apart
    <3> QED BY <3>1 DEF FeedInv, FeedTypes, OpenInv, FeedTypeOK
  <2>3. NoSendOnClosed
    BY DEF FeedInv, NoSendOnClosed
  <2>4. FeedIsComplete
    <3> SUFFICES ASSUME NEW s \in subs
                 PROVE  LET places == <<OnTheWay(s), Range(channel[s]), taken[s], dropped[s]>> IN
                        /\ due[s] = UNION {places[i] : i \in 1..4}
                        /\ \A i, j \in 1..4 : i # j => places[i] \cap places[j] = {}
                        /\ Cardinality(Range(forwarded[s])) = Len(forwarded[s])
                        /\ Range(forwarded[s]) = {e \in taken[s] : written[e] = stream[s]}
      BY DEF FeedIsComplete, OnTheWay
    <3> DEFINE places == <<OnTheWay(s), Range(channel[s]), taken[s], dropped[s]>>
    <3>1. StreamOK(s)
      BY <2>1 DEF FeedInv, FeedTypes
    <3>2. PICK W, C, T, R : W = OnTheWay(s) /\ C = Range(channel[s]) /\ T = taken[s] /\ R = dropped[s]
      OBVIOUS
    <3>3. due[s] = W \cup C \cup T \cup R
          /\ W \cap C = {} /\ W \cap T = {} /\ W \cap R = {}
          /\ C \cap T = {} /\ C \cap R = {} /\ T \cap R = {}
      BY <3>1, <3>2 DEF StreamOK, Apart
    <3>4. places[1] = W /\ places[2] = C /\ places[3] = T /\ places[4] = R
      BY <3>2
    <3> HIDE DEF places
    <3>5. 1..4 = {1, 2, 3, 4}
      OBVIOUS
    <3>6. due[s] = UNION {places[i] : i \in 1..4}
      <4>1. {places[i] : i \in {1, 2, 3, 4}} = {W, C, T, R}
        BY <3>4
      <4> QED BY <3>3, <3>5, <4>1
    <3>7. \A i, j \in {1, 2, 3, 4} : i # j => places[i] \cap places[j] = {}
      BY <3>3, <3>4
    <3>8. Cardinality(Range(forwarded[s])) = Len(forwarded[s])
          /\ Range(forwarded[s]) = {e \in taken[s] : written[e] = stream[s]}
      BY <3>1 DEF StreamOK, Counted
    <3> QED BY <3>5, <3>6, <3>7, <3>8 DEF places
  <2>5. TicketsLastAsAnnounced
    <3> SUFFICES ASSUME NEW k \in tickets
                 PROVE  /\ tick - k.issued <= TicketLife * Second => Consume(k)
                        /\ tick - k.issued >= (TicketLife + 1) * Second => ~Consume(k)
      BY DEF TicketsLastAsAnnounced
    <3>1. PICK n \in Nat : n = TicketLife * Second /\ (TicketLife + 1) * Second = n + Second
      <4>1. TicketLife * Second \in Nat /\ (TicketLife + 1) * Second = TicketLife * Second + Second
        OBVIOUS
      <4> QED BY <4>1
    <3>2. k.issued \in Nat /\ tick \in Nat /\ k.exp = Unix(k.issued + TicketLife * Second)
      BY DEF FeedInv, FeedTypes, TicketInv
    <3>3. PICK a \in Nat : a = k.issued + n /\ k.exp = a \div Second
      BY <3>1, <3>2 DEF Unix
    <3>4. (tick <= a => tick \div Second <= k.exp) /\ (tick >= a + Second => tick \div Second > k.exp)
      BY <3>2, <3>3, WholeSeconds
    <3>5. (tick - k.issued <= n => tick <= a) /\ (tick - k.issued >= n + Second => tick >= a + Second)
      BY <3>2, <3>3
    <3>6. k.exp \in Nat /\ tick \div Second \in Nat
      BY <3>2, <3>3
    <3> QED BY <3>1, <3>4, <3>5, <3>6 DEF Consume, Unix
  <2> QED BY <2>2, <2>3, <2>4, <2>5 DEF FeedDelivers
<1> QED BY <1>1, FeedInit_, FeedStep, PTL DEF FeedSpec

-----------------------------------------------------------------------------
(***************************************************************************)
(* Share links.  The limits are checked before they are used up, so the    *)
(* invariant counts the requests that have passed a check together with    *)
(* what it counted; and a request that was authorised by a link keeps what *)
(* was true of that link when it was.                                      *)
(***************************************************************************)

LinkStates == [made : BOOLEAN, from : Stamps \cup {0}, to : Stamps \cup {0},
               expires : 0..(LastDay + LinkLife), revoked : BOOLEAN]
ShareStates == [pc : {"idle", "insert", "record", "serve", "answered", "export", "log"},
                link : Links \cup {NoOne}, start : Nat, events : SUBSET Stamps]

ShareTypes ==
  /\ day \in 0..LastDay
  /\ exports \in Nat /\ unseen \in Nat /\ blind \in Nat /\ blindLinks \in Nat
  /\ links \in [Links -> LinkStates] /\ shareCall \in [Callers -> ShareStates]
  /\ ended \in [Links -> Nat]

MadeLinks == {l \in Links : links[l].made}

LinkInv ==
  /\ IsFiniteSet(MadeLinks)
  /\ \A l \in Links : (links[l].revoked => links[l].made) /\ (~links[l].revoked => ended[l] = AtNoTime)

\* What a request knows of its link, and has read.
Authorised(r) ==
  /\ r.pc \in {"record", "serve"} => r.link # NoOne
  /\ r.link # NoOne =>
       /\ links[r.link].made /\ r.start <= day
       /\ r.start <= ended[r.link] /\ r.start < links[r.link].expires

Window(r) == IF r.link = NoOne THEN NoLink ELSE links[r.link]
Inside(row, S) == \A e \in S : e >= row.from /\ (row.to = 0 \/ e <= row.to)

CallInv == \A c \in Callers : Authorised(shareCall[c]) /\ Inside(Window(shareCall[c]), shareCall[c].events)

\* Requests that will insert a link, and that will log an export.
Inserting == {c \in Callers : shareCall[c].pc = "insert"}
Exporting == {c \in Callers : shareCall[c].pc \in {"export", "log"}}

LinkCount ==
  Cardinality(ActiveLinks) + Cardinality(Inserting) <= Cardinality(Callers) + blindLinks
ExportCount ==
  exports + Cardinality(Exporting) <= ExportLimit + Cardinality(Callers) - 1 + unseen + blind

ShareInv == ShareTypes /\ LinkInv /\ CallInv /\ LinkCount /\ ExportCount

\* There are as many callers as it takes, and only made links are active.
LEMMA ShareCounts ==
  ASSUME LinkInv
  PROVE  /\ Cardinality(Callers) \in Nat \ {0}
         /\ IsFiniteSet(ActiveLinks) /\ Cardinality(ActiveLinks) \in Nat
         /\ Cardinality(Inserting) \in Nat /\ Cardinality(Inserting) <= Cardinality(Callers)
         /\ Cardinality(Exporting) \in Nat /\ Cardinality(Exporting) <= Cardinality(Callers)
<1>1. Inserting \subseteq Callers /\ Exporting \subseteq Callers /\ ActiveLinks \subseteq MadeLinks
  BY DEF Inserting, Exporting, ActiveLinks, MadeLinks, Valid
<1>2. Cardinality(Callers) \in Nat /\ Cardinality(Callers) # 0
  BY ShareAssumption, FS_CardinalityType, FS_EmptySet
<1>3. IsFiniteSet(ActiveLinks) /\ Cardinality(ActiveLinks) \in Nat
  BY <1>1, FS_Subset, FS_CardinalityType DEF LinkInv
<1> QED BY <1>1, <1>2, <1>3, NoMore, ShareAssumption

\* No link is made and no request is in flight.
LEMMA ShareInit_ == ShareInit => ShareInv
<1> SUFFICES ASSUME ShareInit PROVE ShareInv
  OBVIOUS
<1> USE ShareAssumption DEF ShareInit
<1>1. ShareTypes
  BY DEF ShareTypes, LinkStates, ShareStates, NoLink, ShareIdle, AtNoTime
<1>2. MadeLinks = {} /\ ActiveLinks = {} /\ Inserting = {} /\ Exporting = {}
  BY DEF MadeLinks, ActiveLinks, Inserting, Exporting, NoLink, ShareIdle, Valid
<1>3. LinkInv
  BY <1>2, FS_EmptySet DEF LinkInv, NoLink
<1>4. CallInv
  BY DEF CallInv, Authorised, Inside, ShareIdle
<1>5. Cardinality({}) = 0
  BY FS_EmptySet
<1>6. LinkCount /\ ExportCount
  BY <1>2, <1>3, <1>5, ShareCounts DEF LinkCount, ExportCount
<1> QED BY <1>1, <1>3, <1>4, <1>6 DEF ShareInv

\* A request moves on and the tables stay as they are.
LEMMA CallMoves ==
  ASSUME ShareInv, NEW c \in Callers, NEW r \in ShareStates,
         shareCall' = [shareCall EXCEPT ![c] = r], UNCHANGED <<day, links, ended>>,
         exports' \in Nat, unseen' \in Nat, blind' \in Nat, blindLinks' \in Nat,
         blindLinks' >= blindLinks, Authorised(r), Inside(Window(r), r.events),
         r.pc = "insert" => RoomForLink \/ blindLinks' = blindLinks + 1
  PROVE  ShareTypes' /\ LinkInv' /\ CallInv' /\ LinkCount'
<1> USE ShareAssumption
<1>0. shareCall \in [Callers -> ShareStates] /\ LinkInv
  BY DEF ShareInv, ShareTypes
<1>1. ShareTypes'
  BY DEF ShareInv, ShareTypes
<1>2. LinkInv' /\ ActiveLinks' = ActiveLinks
  BY DEF ShareInv, LinkInv, MadeLinks, ActiveLinks, Valid
<1>3. CallInv'
  <2> SUFFICES ASSUME NEW d \in Callers
               PROVE  (Authorised(shareCall[d]) /\ Inside(Window(shareCall[d]), shareCall[d].events))'
    BY DEF CallInv
  <2>1. PICK q \in ShareStates : q = shareCall'[d] /\ Authorised(q) /\ Inside(Window(q), q.events)
    <3>1. CASE d = c
      BY <1>0, <3>1
    <3>2. CASE d # c
      BY <1>0, <3>2 DEF ShareInv, CallInv
    <3> QED BY <3>1, <3>2
  <2>2. UNCHANGED <<day, links, ended>>
    OBVIOUS
  <2>3. Authorised(shareCall[d])'
    BY <2>1, <2>2 DEF Authorised, Valid
  <2>4. Inside(Window(shareCall[d]), shareCall[d].events)'
    BY <2>1, <2>2 DEF Inside, Window
  <2> QED BY <2>3, <2>4
<1>4. LinkCount'
  <2>0. Cardinality(Callers) \in Nat /\ Cardinality(ActiveLinks) \in Nat
        /\ Cardinality(Inserting) \in Nat /\ Cardinality(Inserting') \in Nat
        /\ Cardinality(Inserting') <= Cardinality(Callers)
        /\ Cardinality(Inserting') <= Cardinality(Inserting) + 1 /\ blindLinks \in Nat
    <3>1. Inserting' \subseteq Callers /\ Inserting' \subseteq Inserting \cup {c}
          /\ Inserting \subseteq Callers
      BY <1>0 DEF Inserting
    <3>2. Cardinality(Inserting') <= Cardinality(Inserting) + 1
      BY <3>1, NoMore, OneMore
    <3>3. blindLinks \in Nat
      BY DEF ShareInv, ShareTypes
    <3> QED BY <1>0, <3>1, <3>2, <3>3, ShareCounts, NoMore
  <2>1. CASE r.pc = "insert"
    <3>1. CASE RoomForLink
      BY <1>2, <2>0, <3>1 DEF RoomForLink, LinkCount
    <3>2. CASE blindLinks' = blindLinks + 1
      BY <1>2, <2>0, <3>2 DEF ShareInv, LinkCount
    <3> QED BY <2>1, <3>1, <3>2
  <2>2. CASE r.pc # "insert"
    <3>1. Inserting' \subseteq Inserting /\ Inserting \subseteq Callers
      BY <1>0, <2>2 DEF Inserting
    <3>2. Cardinality(Inserting') <= Cardinality(Inserting)
      BY <3>1, NoMore
    <3> QED BY <1>2, <2>0, <3>2 DEF ShareInv, LinkCount
  <2> QED BY <2>1, <2>2
<1> QED BY <1>1, <1>2, <1>3, <1>4

\* A request that moves on without having passed the export check meanwhile.
LEMMA ExportCountStays ==
  ASSUME ShareInv, NEW c \in Callers, NEW r \in ShareStates,
         shareCall' = [shareCall EXCEPT ![c] = r], UNCHANGED <<exports, unseen, blind>>,
         r.pc \in {"export", "log"} => shareCall[c].pc \in {"export", "log"}
  PROVE  ExportCount'
<1> USE ShareAssumption
<1>1. Exporting' \subseteq Exporting /\ Exporting \subseteq Callers
  BY DEF ShareInv, ShareTypes, Exporting
<1>2. Cardinality(Exporting') <= Cardinality(Exporting) /\ Cardinality(Exporting') \in Nat
      /\ Cardinality(Exporting) \in Nat /\ Cardinality(Callers) \in Nat
  BY <1>1, NoMore, ShareCounts DEF ShareInv
<1> QED BY <1>2 DEF ShareInv, ShareTypes, ExportCount

\* What an idle request knows.
LEMMA IdleCall ==
  /\ ShareIdle \in ShareStates /\ ShareIdle.pc = "idle" /\ ShareIdle.link = NoOne /\ ShareIdle.events = {}
  /\ Authorised(ShareIdle) /\ Inside(Window(ShareIdle), ShareIdle.events)
  BY DEF ShareIdle, ShareStates, Authorised, Inside

\* Timestamps are numbers, and so are the bounds of windows and ranges.
LEMMA StampsAreNumbers ==
  /\ \A e \in Stamps \cup {0} : e \in Nat
  /\ \A w \in Windows \cup Ranges : w.from \in Stamps \cup {0} /\ w.to \in Stamps \cup {0}
<1>1. \A e \in Stamps \cup {0} : e \in Nat
  BY ShareAssumption
<1>2. ASSUME NEW w \in Windows \cup Ranges PROVE w.from \in Stamps \cup {0} /\ w.to \in Stamps \cup {0}
  <2>1. w \in [from : Stamps \cup {0}, to : Stamps \cup {0}]
    BY ShareAssumption
  <2> QED BY <2>1
<1> QED BY <1>1, <1>2

\* The row a request is confined to.
LEMMA WindowType ==
  ASSUME ShareInv, NEW c \in Callers
  PROVE  /\ Row(c) = Window(shareCall[c]) /\ Row(c).from \in Nat /\ Row(c).to \in Nat
         /\ shareCall[c] \in ShareStates
<1>1. shareCall[c] \in ShareStates /\ links \in [Links -> LinkStates]
  BY DEF ShareInv, ShareTypes
<1>2. Row(c) = Window(shareCall[c])
  BY DEF Row, Window
<1>3. CASE shareCall[c].link = NoOne
  BY <1>1, <1>2, <1>3 DEF Window, NoLink
<1>4. CASE shareCall[c].link # NoOne
  <2>1. links[shareCall[c].link] \in LinkStates
    BY <1>1, <1>4 DEF ShareStates
  <2>2. links[shareCall[c].link].from \in Nat /\ links[shareCall[c].link].to \in Nat
    <3>1. PICK l \in LinkStates : l = links[shareCall[c].link]
      BY <2>1
    <3>2. l.from \in Stamps \cup {0} /\ l.to \in Stamps \cup {0}
      BY DEF LinkStates
    <3> QED BY <3>1, <3>2, StampsAreNumbers
  <2> QED BY <1>1, <1>2, <1>4, <2>2 DEF Window
<1> QED BY <1>3, <1>4

\* Whatever range is asked for, an absent bound included, what is selected lies in
\* the row's window; so it does when the range is merged twice.
LEMMA SelectedIsInside ==
  ASSUME NEW row, row.from \in Nat, row.to \in Nat, NEW from \in Nat, NEW to \in Nat
  PROVE  /\ MergeFrom(row, from) \in Nat /\ MergeTo(row, to) \in Nat
         /\ InRange(MergeFrom(row, from), MergeTo(row, to)) \in SUBSET Stamps
         /\ Inside(row, InRange(MergeFrom(row, from), MergeTo(row, to)))
<1>1. MergeFrom(row, from) \in Nat /\ MergeTo(row, to) \in Nat
  BY DEF MergeFrom, MergeTo
<1>2. row.from # 0 => MergeFrom(row, from) # 0 /\ MergeFrom(row, from) >= row.from
  BY DEF MergeFrom
<1>3. row.to # 0 => MergeTo(row, to) # 0 /\ MergeTo(row, to) <= row.to
  BY DEF MergeTo
<1>4. PICK f \in Nat, t \in Nat : f = MergeFrom(row, from) /\ t = MergeTo(row, to)
  BY <1>1
<1>5. ASSUME NEW e \in InRange(f, t) PROVE e >= row.from /\ (row.to = 0 \/ e <= row.to)
  <2>1. e \in Nat /\ (f # 0 => e >= f) /\ (t # 0 => e <= t)
    BY ShareAssumption DEF InRange
  <2> QED BY <1>2, <1>3, <1>4, <2>1
<1>6. InRange(f, t) \in SUBSET Stamps
  BY DEF InRange
<1> QED BY <1>1, <1>4, <1>5, <1>6 DEF Inside

\* A request that is served answers with events of its window.
LEMMA RespondKeeps ==
  ASSUME ShareInv, NEW c \in Callers, NEW pc \in {"answered", "log"}, NEW S \in SUBSET Stamps,
         Inside(Row(c), S), Respond(c, pc, S), UNCHANGED <<day, links, ended, limitVars>>,
         shareCall[c].pc \in {"serve", "export"}, shareCall[c].pc = "serve" => pc = "answered"
  PROVE  ShareInv'
<1>1. shareCall[c] \in ShareStates /\ Row(c) = Window(shareCall[c])
  BY WindowType
<1>2. PICK r : r = [shareCall[c] EXCEPT !.pc = pc, !.events = S] /\ shareCall' = [shareCall EXCEPT ![c] = r]
  BY DEF Respond, ShareBecomes
<1>3. /\ r \in ShareStates /\ r.pc = pc /\ r.events = S
      /\ r.link = shareCall[c].link /\ r.start = shareCall[c].start
  <2>1. pc \in {"idle", "insert", "record", "serve", "answered", "export", "log"}
    OBVIOUS
  <2>2. PICK q \in ShareStates : q = shareCall[c]
    BY <1>1
  <2>3. r = [q EXCEPT !.pc = pc, !.events = S]
    BY <1>2, <2>2
  <2>4. /\ r \in ShareStates /\ r.pc = pc /\ r.events = S
        /\ r.link = q.link /\ r.start = q.start
    BY <2>1, <2>3 DEF ShareStates
  <2> QED BY <2>2, <2>4
<1>4. Authorised(shareCall[c])
  BY DEF ShareInv, CallInv
<1>5. Authorised(r)
  BY <1>3, <1>4 DEF Authorised
<1>6. Inside(Window(r), r.events)
  BY <1>1, <1>3 DEF Window
<1>7. UNCHANGED <<exports, unseen, blind>> /\ exports' \in Nat /\ unseen' \in Nat /\ blind' \in Nat
      /\ blindLinks' \in Nat /\ blindLinks' >= blindLinks
  BY DEF limitVars, ShareInv, ShareTypes
<1>8. UNCHANGED <<day, links, ended>>
  OBVIOUS
<1>9. ExportCount'
  BY <1>2, <1>3, <1>7, ExportCountStays
<1> QED BY <1>2, <1>3, <1>5, <1>6, <1>7, <1>8, <1>9, CallMoves DEF ShareInv

\* The routes that read.
LEMMA ReadKeeps ==
  ASSUME ShareInv, NEW c \in Callers, NEW r \in Ranges,
         \/ ListEvents(c, r.from, r.to) \/ Verify(c, r.from, r.to)
         \/ ExportPDF(c, r.from, r.to) \/ ExportEvidencePack(c, r.from, r.to)
  PROVE  ShareInv'
<1>1. PICK f \in Nat, t \in Nat : f = r.from /\ t = r.to
  BY StampsAreNumbers
<1>2. Row(c).from \in Nat /\ Row(c).to \in Nat
  BY WindowType
<1>3. PICK g \in Nat, u \in Nat : g = MergeFrom(Row(c), f) /\ u = MergeTo(Row(c), t)
  BY <1>2, SelectedIsInside
<1>4. /\ Selected(c, f, t) \in SUBSET Stamps /\ Inside(Row(c), Selected(c, f, t))
      /\ Selected(c, g, u) \in SUBSET Stamps /\ Inside(Row(c), Selected(c, g, u))
  BY <1>2, SelectedIsInside DEF Selected
<1>5. \E S \in {Selected(c, f, t), Selected(c, g, u)}, pc \in {"answered", "log"} :
        /\ Respond(c, pc, S) /\ UNCHANGED <<day, links, ended, limitVars>>
        /\ shareCall[c].pc \in {"serve", "export"} /\ (shareCall[c].pc = "serve" => pc = "answered")
  <2>1. CASE ListEvents(c, f, t) \/ Verify(c, f, t)
    BY <2>1 DEF ListEvents, Verify
  <2>2. CASE ExportPDF(c, f, t)
    BY <2>2 DEF ExportPDF
  <2>3. CASE ExportEvidencePack(c, f, t)
    BY <1>3, <2>3 DEF ExportEvidencePack
  <2> QED BY <1>1, <2>1, <2>2, <2>3
<1> QED BY <1>4, <1>5, RespondKeeps

\* A single event is compared with the bounds of the link itself.
LEMMA GetEventKeeps ==
  ASSUME ShareInv, NEW c \in Callers, NEW e \in Stamps, GetEvent(c, e)
  PROVE  ShareInv'
<1>1. Row(c) = links[shareCall[c].link] /\ Row(c).from \in Nat /\ Row(c).to \in Nat
  <2>1. shareCall[c].link # NoOne
    BY DEF ShareInv, CallInv, Authorised, GetEvent
  <2> QED BY <2>1, WindowType DEF Row
<1>2. ~(Row(c).from # 0 /\ e < Row(c).from) /\ ~(Row(c).to # 0 /\ e > Row(c).to)
  BY <1>1 DEF GetEvent
<1>3. Inside(Row(c), {e})
  BY <1>1, <1>2, ShareAssumption DEF Inside
<1> QED BY <1>3, RespondKeeps DEF GetEvent

\* Requests that begin, are authorised, pass the check of their export, and end.
LEMMA CreateLinkKeeps ==
  ASSUME ShareInv, NEW c \in Callers, CreateLink(c)
  PROVE  ShareInv'
<1>1. PICK r : r = [ShareIdle EXCEPT !.pc = "insert"] /\ shareCall' = [shareCall EXCEPT ![c] = r]
  BY DEF CreateLink, ShareBecomes
<1>2. r \in ShareStates /\ r.pc = "insert" /\ r.link = NoOne /\ r.events = {}
  BY <1>1 DEF ShareStates, ShareIdle
<1>3. Authorised(r) /\ Inside(Window(r), r.events)
  BY <1>2 DEF Authorised, Inside
<1>4. UNCHANGED <<day, links, ended, exports, unseen, blind>> /\ exports' \in Nat /\ unseen' \in Nat /\ blind' \in Nat
      /\ blindLinks' \in Nat /\ blindLinks' >= blindLinks
      /\ (RoomForLink \/ blindLinks' = blindLinks + 1)
  BY DEF ShareInv, ShareTypes, CreateLink
<1>5. ExportCount'
  BY <1>1, <1>2, <1>4, ExportCountStays
<1> QED BY <1>1, <1>2, <1>3, <1>4, <1>5, CallMoves DEF ShareInv

\* A request is authorised by a link that is valid at that moment.
LEMMA PresentKeeps ==
  ASSUME ShareInv, NEW c \in Callers, NEW l \in Links, PresentShareToken(c, l)
  PROVE  ShareInv'
<1> USE ShareAssumption
<1>1. PICK r : r = [ShareIdle EXCEPT !.pc = "record", !.link = l, !.start = day]
               /\ shareCall' = [shareCall EXCEPT ![c] = r]
  BY DEF PresentShareToken, ShareBecomes
<1>2. day \in Nat /\ day <= LastDay /\ links[l].made /\ ~links[l].revoked /\ day < links[l].expires
      /\ l # NoOne
  BY DEF ShareInv, ShareTypes, PresentShareToken, Valid
<1>3. r \in ShareStates /\ r.pc = "record" /\ r.link = l /\ r.start = day /\ r.events = {}
  BY <1>1, <1>2 DEF ShareStates, ShareIdle
<1>4. day <= ended[l]
  BY <1>2 DEF ShareInv, LinkInv, AtNoTime
<1>5. Authorised(r) /\ Inside(Window(r), r.events)
  BY <1>2, <1>3, <1>4 DEF Authorised, Inside
<1>6. UNCHANGED <<day, links, ended, exports, unseen, blind>> /\ exports' \in Nat /\ unseen' \in Nat /\ blind' \in Nat
      /\ blindLinks' \in Nat /\ blindLinks' >= blindLinks
  BY DEF limitVars, ShareInv, ShareTypes, PresentShareToken
<1>7. ExportCount'
  BY <1>1, <1>3, <1>6, ExportCountStays
<1> QED BY <1>1, <1>3, <1>5, <1>6, <1>7, CallMoves DEF ShareInv

\* Counted or not, the access goes on.
LEMMA RecordAccessKeeps ==
  ASSUME ShareInv, NEW c \in Callers, RecordAccess(c)
  PROVE  ShareInv'
<1>1. PICK q \in ShareStates : q = shareCall[c] /\ q.pc = "record" /\ Authorised(q)
                               /\ Inside(Window(q), q.events)
  BY DEF RecordAccess, ShareInv, ShareTypes, CallInv
<1>2. q.link \in Links /\ q.link # NoOne
  BY <1>1 DEF Authorised, ShareStates
<1>3. PICK r : r = [q EXCEPT !.pc = "serve"] /\ shareCall' = [shareCall EXCEPT ![c] = r]
  BY <1>1 DEF RecordAccess, ShareBecomes
<1>4. r \in ShareStates /\ r.pc = "serve" /\ r.link = q.link /\ r.start = q.start
      /\ r.events = q.events
  BY <1>3 DEF ShareStates
<1>5. Authorised(r) /\ Inside(Window(r), r.events)
  BY <1>1, <1>2, <1>4 DEF Authorised, Window
<1>6. UNCHANGED <<day, links, ended, exports, unseen, blind>> /\ exports' \in Nat /\ unseen' \in Nat /\ blind' \in Nat
      /\ blindLinks' \in Nat /\ blindLinks' >= blindLinks
  BY DEF limitVars, ShareInv, ShareTypes, RecordAccess
<1>7. ExportCount'
  BY <1>3, <1>4, <1>6, ExportCountStays
<1> QED BY <1>3, <1>4, <1>5, <1>6, <1>7, CallMoves DEF ShareInv

\* A request that ends holds nothing.
LEMMA AnsweredKeeps ==
  ASSUME ShareInv, NEW c \in Callers, Answered(c)
  PROVE  ShareInv'
<1>1. shareCall' = [shareCall EXCEPT ![c] = ShareIdle]
  BY DEF Answered, ShareFinish, ShareBecomes
<1>2. UNCHANGED <<day, links, ended, exports, unseen, blind>> /\ exports' \in Nat /\ unseen' \in Nat /\ blind' \in Nat
      /\ blindLinks' \in Nat /\ blindLinks' >= blindLinks
  BY DEF limitVars, ShareInv, ShareTypes, Answered
<1>3. ExportCount'
  BY <1>1, <1>2, IdleCall, ExportCountStays
<1> QED BY <1>1, <1>2, <1>3, IdleCall, CallMoves DEF ShareInv

\* A check that counted leaves room for one export per caller, but for those it did
\* not see; one that could not count is counted itself.
LEMMA CheckExportKeeps ==
  ASSUME ShareInv, NEW c \in Callers, NEW seen \in 0..exports, CheckExportLimit(c, seen)
  PROVE  ShareInv'
<1> USE ShareAssumption
<1>1. PICK q \in ShareStates : q = shareCall[c] /\ q.pc \in {"idle", "serve"} /\ Authorised(q)
                               /\ Inside(Window(q), q.events)
  BY DEF CheckExportLimit, ShareFree, ShareInv, ShareTypes, CallInv
<1>2. PICK r : r = [q EXCEPT !.pc = "export"] /\ shareCall' = [shareCall EXCEPT ![c] = r]
  BY <1>1 DEF CheckExportLimit, ShareBecomes
<1>3. r \in ShareStates /\ r.pc = "export" /\ r.link = q.link /\ r.start = q.start
      /\ r.events = q.events
  BY <1>2 DEF ShareStates
<1>4. Authorised(r) /\ Inside(Window(r), r.events)
  BY <1>1, <1>3 DEF Authorised, Window
<1>5. UNCHANGED <<day, links, ended, exports>> /\ exports' \in Nat /\ unseen' \in Nat /\ blind' \in Nat
      /\ blindLinks' \in Nat /\ blindLinks' >= blindLinks
  BY DEF ShareInv, ShareTypes, CheckExportLimit
<1>6. ExportCount'
  <2>1. Exporting' \subseteq Exporting \cup {c} /\ Exporting \subseteq Callers /\ Exporting' \subseteq Callers
    BY <1>2 DEF Exporting, ShareInv, ShareTypes
  <2>2. PICK m \in Nat, n \in Nat, k \in Nat :
          m = Cardinality(Exporting) /\ n = Cardinality(Exporting') /\ k = Cardinality(Callers)
          /\ n <= m + 1 /\ n <= k
    BY <2>1, OneMore, NoMore
  <2>3. exports \in Nat /\ unseen \in Nat /\ blind \in Nat /\ exports' = exports
        /\ exports + m <= ExportLimit + k - 1 + unseen + blind
    BY <1>5, <2>2 DEF ShareInv, ShareTypes, ExportCount
  <2>4. CASE MayExport(seen) /\ unseen' = exports - seen /\ UNCHANGED blind
    BY <2>2, <2>3, <2>4 DEF MayExport, ExportCount
  <2>5. CASE blind' = blind + 1 /\ UNCHANGED unseen
    BY <2>2, <2>3, <2>5 DEF ExportCount
  <2> QED BY <2>4, <2>5 DEF CheckExportLimit
<1> QED BY <1>2, <1>3, <1>4, <1>5, <1>6, CallMoves DEF ShareInv

\* An export is logged by a request that was counted as exporting.
LEMMA LogExportKeeps ==
  ASSUME ShareInv, NEW c \in Callers, LogExportAudit(c)
  PROVE  ShareInv'
<1> USE ShareAssumption
<1>1. shareCall' = [shareCall EXCEPT ![c] = ShareIdle] /\ c \in Exporting
  BY DEF LogExportAudit, ShareFinish, ShareBecomes, Exporting
<1>2. UNCHANGED <<day, links, ended, unseen, blind, blindLinks>> /\ exports' \in Nat /\ unseen' \in Nat /\ blind' \in Nat
      /\ blindLinks' \in Nat /\ blindLinks' >= blindLinks
      /\ exports' <= exports + 1 /\ exports \in Nat
  BY DEF ShareInv, ShareTypes, LogExportAudit
<1>3. ExportCount'
  <2>1. Exporting' \subseteq Exporting \ {c} /\ Exporting \subseteq Callers
    BY <1>1, IdleCall DEF Exporting, ShareInv, ShareTypes
  <2>2. PICK m \in Nat, n \in Nat, k \in Nat :
          m = Cardinality(Exporting) /\ n = Cardinality(Exporting') /\ k = Cardinality(Callers)
          /\ n + 1 <= m
    <3>1. Cardinality(Callers) \in Nat
      BY FS_CardinalityType
    <3>2. Cardinality(Exporting') \in Nat /\ Cardinality(Exporting) \in Nat
          /\ Cardinality(Exporting') + 1 <= Cardinality(Exporting)
      BY <1>1, <2>1, OneLess
    <3> QED BY <3>1, <3>2
  <2> QED BY <1>2, <2>2 DEF ShareInv, ShareTypes, ExportCount
<1> QED BY <1>1, <1>2, <1>3, IdleCall, CallMoves DEF ShareInv

\* A step that leaves the requests alone, and of every link only ends it.
LEMMA LinksEnd ==
  ASSUME ShareInv, UNCHANGED <<shareCall, limitVars>>, ShareTypes', LinkInv', day <= day',
         \A l \in Links :
           /\ links'[l].made = links[l].made /\ links'[l].expires = links[l].expires
           /\ links'[l].from = links[l].from /\ links'[l].to = links[l].to
           /\ Valid(links'[l], day') => Valid(links[l], day)
           /\ ended[l] <= ended'[l] \/ ended'[l] = day
  PROVE  ShareInv'
<1> USE ShareAssumption
<1>1. CallInv'
  <2> SUFFICES ASSUME NEW c \in Callers
               PROVE  (Authorised(shareCall[c]) /\ Inside(Window(shareCall[c]), shareCall[c].events))'
    BY DEF CallInv
  <2>1. PICK q \in ShareStates : q = shareCall[c] /\ q = shareCall'[c]
                                 /\ Authorised(q) /\ Inside(Window(q), q.events)
    BY DEF ShareInv, ShareTypes, CallInv
  <2>2. (Authorised(q) /\ Inside(Window(q), q.events))'
    <3>1. CASE q.link = NoOne
      BY <2>1, <3>1 DEF Authorised, Inside, Window
    <3>2. CASE q.link # NoOne
      <4>1. PICK l \in Links : l = q.link
        BY <3>2 DEF ShareStates
      <4>2. q.start \in Nat /\ day \in Nat /\ day' \in Nat /\ ended[l] \in Nat /\ ended'[l] \in Nat
        BY DEF ShareInv, ShareTypes, ShareStates
      <4>3. links[l].made /\ q.start <= day /\ q.start <= ended[l] /\ q.start < links[l].expires
        BY <2>1, <3>2, <4>1 DEF Authorised
      <4>4. links'[l].made /\ q.start <= day' /\ q.start <= ended'[l] /\ q.start < links'[l].expires
        BY <4>2, <4>3
      <4>5. Authorised(q)'
        BY <3>2, <4>1, <4>4 DEF Authorised
      <4>6. Inside(Window(q), q.events)'
        BY <2>1, <3>2, <4>1 DEF Inside, Window
      <4> QED BY <4>5, <4>6
    <3> QED BY <3>1, <3>2
  <2>3. Authorised(shareCall[c])'
    BY <2>1, <2>2
  <2>4. Inside(Window(shareCall[c]), shareCall[c].events)'
    BY <2>1, <2>2
  <2> QED BY <2>3, <2>4
<1>2. LinkCount'
  <2>1. ActiveLinks' \subseteq ActiveLinks /\ Inserting' = Inserting
    BY DEF ActiveLinks, Inserting
  <2>2. IsFiniteSet(ActiveLinks) /\ Cardinality(Inserting) \in Nat /\ Cardinality(Callers) \in Nat
    BY ShareCounts DEF ShareInv
  <2>3. Cardinality(ActiveLinks') <= Cardinality(ActiveLinks)
        /\ Cardinality(ActiveLinks') \in Nat /\ Cardinality(ActiveLinks) \in Nat
    BY <2>1, <2>2, NoMore
  <2>4. UNCHANGED blindLinks /\ blindLinks \in Nat
    BY DEF limitVars, ShareInv, ShareTypes
  <2> QED BY <2>1, <2>2, <2>3, <2>4 DEF ShareInv, LinkCount
<1>3. ExportCount'
  BY DEF ShareInv, ExportCount, Exporting, limitVars
<1> QED BY <1>1, <1>2, <1>3 DEF ShareInv

\* Revocation ends a link and leaves its bounds.
LEMMA RevokeKeeps ==
  ASSUME ShareInv, NEW l \in Links, RevokeLink(l)
  PROVE  ShareInv'
<1> USE ShareAssumption
<1>1. /\ UNCHANGED <<day, shareCall, limitVars>> /\ ended' = [ended EXCEPT ![l] = day]
      /\ links' = [links EXCEPT ![l] = [links[l] EXCEPT !.revoked = TRUE]] /\ links[l].made
  BY DEF RevokeLink
<1>2. PICK q \in LinkStates : q = links[l]
  BY DEF ShareInv, ShareTypes
<1>3. PICK r : r = [q EXCEPT !.revoked = TRUE] /\ links' = [links EXCEPT ![l] = r]
  BY <1>1, <1>2
<1>4. r \in LinkStates /\ r.made = q.made /\ r.expires = q.expires /\ r.from = q.from /\ r.to = q.to
      /\ r.revoked = TRUE
  BY <1>3 DEF LinkStates
<1>5. links \in [Links -> LinkStates] /\ ended \in [Links -> Nat] /\ day \in Nat
  BY DEF ShareInv, ShareTypes
<1>6. ShareTypes'
  BY <1>1, <1>3, <1>4, <1>5 DEF ShareInv, ShareTypes, limitVars
<1>7. \A k \in Links : links'[k] = (IF k = l THEN r ELSE links[k])
                       /\ ended'[k] = (IF k = l THEN day ELSE ended[k])
  BY <1>1, <1>3, <1>5
<1>8. LinkInv'
  <2>1. MadeLinks' = MadeLinks
    BY <1>2, <1>4, <1>7 DEF MadeLinks
  <2> QED BY <1>1, <1>2, <1>4, <1>7, <2>1 DEF ShareInv, LinkInv, AtNoTime
<1>9. ASSUME NEW k \in Links
      PROVE  /\ links'[k].made = links[k].made /\ links'[k].expires = links[k].expires
             /\ links'[k].from = links[k].from /\ links'[k].to = links[k].to
             /\ Valid(links'[k], day') => Valid(links[k], day)
             /\ ended[k] <= ended'[k] \/ ended'[k] = day
  BY <1>1, <1>2, <1>4, <1>5, <1>7 DEF Valid
<1>10. day <= day' /\ UNCHANGED <<shareCall, limitVars>>
  BY <1>1, <1>5
<1> QED BY <1>6, <1>8, <1>9, <1>10, LinksEnd

\* The clock only ends links.
LEMMA ShareTickKeeps ==
  ASSUME ShareInv, ShareTick
  PROVE  ShareInv'
<1> USE ShareAssumption
<1>1. UNCHANGED <<links, shareCall, ended, limitVars>> /\ day \in Nat /\ day' = day + 1
      /\ links \in [Links -> LinkStates] /\ ended \in [Links -> Nat]
  BY DEF ShareTick, ShareInv, ShareTypes
<1>2. ShareTypes'
  BY <1>1 DEF ShareTick, ShareInv, ShareTypes, limitVars
<1>3. LinkInv'
  BY <1>1 DEF ShareInv, LinkInv, MadeLinks, AtNoTime
<1>4. ASSUME NEW k \in Links
      PROVE  /\ links'[k].made = links[k].made /\ links'[k].expires = links[k].expires
             /\ links'[k].from = links[k].from /\ links'[k].to = links[k].to
             /\ Valid(links'[k], day') => Valid(links[k], day)
             /\ ended[k] <= ended'[k] \/ ended'[k] = day
  <2>1. links[k].expires \in Nat /\ ended[k] \in Nat
    BY <1>1 DEF LinkStates
  <2> QED BY <1>1, <2>1 DEF Valid
<1> QED BY <1>1, <1>2, <1>3, <1>4, LinksEnd

\* A new link takes the place of the request that inserts it.
LEMMA InsertLinkKeeps ==
  ASSUME ShareInv, NEW c \in Callers, NEW w \in Windows, InsertLink(c, w)
  PROVE  ShareInv'
<1> USE ShareAssumption
<1>1. /\ shareCall[c].pc = "insert" /\ shareCall' = [shareCall EXCEPT ![c] = ShareIdle]
      /\ UNCHANGED <<day, ended, exports, unseen, blind, blindLinks>>
  BY DEF InsertLink, ShareFinish, ShareBecomes, limitVars
<1>2. PICK l \in Links :
        /\ ~links[l].made
        /\ links' = [links EXCEPT ![l] = [NoLink EXCEPT !.made = TRUE, !.from = w.from, !.to = w.to,
                                                        !.expires = day + LinkLife]]
  BY DEF InsertLink
<1>21. PICK r : /\ ~links[l].made /\ links' = [links EXCEPT ![l] = r]
                /\ r = [NoLink EXCEPT !.made = TRUE, !.from = w.from, !.to = w.to,
                                      !.expires = day + LinkLife]
  BY <1>2
<1>3. links \in [Links -> LinkStates] /\ shareCall \in [Callers -> ShareStates] /\ day \in 0..LastDay
      /\ ended \in [Links -> Nat]
  BY DEF ShareInv, ShareTypes
<1>4. r \in LinkStates /\ r.made = TRUE /\ r.revoked = FALSE
  <2>1. w.from \in Stamps \cup {0} /\ w.to \in Stamps \cup {0}
    BY StampsAreNumbers
  <2>2. day + LinkLife \in 0..(LastDay + LinkLife)
    BY <1>3
  <2> QED BY <1>21, <2>1, <2>2 DEF NoLink, LinkStates
<1>5. ShareTypes'
  BY <1>1, <1>21, <1>3, <1>4, IdleCall DEF ShareInv, ShareTypes
<1>6. \A k \in Links : k # l => links'[k] = links[k]
  BY <1>21, <1>3
<1>7. links'[l] = r
  BY <1>21, <1>3
<1>8. LinkInv'
  <2>1. MadeLinks' = MadeLinks \cup {l}
    BY <1>4, <1>6, <1>7 DEF MadeLinks
  <2>2. IsFiniteSet(MadeLinks \cup {l})
    BY FS_AddElement DEF ShareInv, LinkInv
  <2>3. ASSUME NEW k \in Links
        PROVE  (links'[k].revoked => links'[k].made) /\ (~links'[k].revoked => ended'[k] = AtNoTime)
    <3>1. CASE k = l
      BY <1>1, <1>21, <1>4, <1>7, <3>1 DEF ShareInv, LinkInv
    <3>2. CASE k # l
      BY <1>1, <1>6, <3>2 DEF ShareInv, LinkInv
    <3> QED BY <3>1, <3>2
  <2> QED BY <2>1, <2>2, <2>3 DEF LinkInv, AtNoTime
<1>9. CallInv'
  <2> SUFFICES ASSUME NEW d \in Callers
               PROVE  (Authorised(shareCall[d]) /\ Inside(Window(shareCall[d]), shareCall[d].events))'
    BY DEF CallInv
  <2>1. PICK q \in ShareStates : q = shareCall'[d] /\ Authorised(q) /\ Inside(Window(q), q.events)
    <3>1. CASE d = c
      BY <1>1, <1>3, <3>1, IdleCall
    <3>2. CASE d # c
      BY <1>1, <1>3, <3>2 DEF ShareInv, CallInv
    <3> QED BY <3>1, <3>2
  <2>2. q.link # NoOne => q.link \in Links /\ links'[q.link] = links[q.link]
    <3>1. q.link # NoOne => q.link \in Links /\ links[q.link].made
      BY <2>1 DEF Authorised, ShareStates
    <3> QED BY <1>21, <1>6, <3>1
  <2>3. Authorised(shareCall[d])'
    BY <1>1, <2>1, <2>2 DEF Authorised, Valid
  <2>4. Inside(Window(shareCall[d]), shareCall[d].events)'
    BY <2>1, <2>2 DEF Inside, Window
  <2> QED BY <2>3, <2>4
<1>10. LinkCount'
  <2>1. ActiveLinks' \subseteq ActiveLinks \cup {l}
    BY <1>1, <1>6 DEF ActiveLinks
  <2>2. IsFiniteSet(ActiveLinks) /\ IsFiniteSet(ActiveLinks \cup {l}) /\ Cardinality(Callers) \in Nat
    BY ShareCounts, FS_AddElement DEF ShareInv
  <2>3. Cardinality(ActiveLinks') \in Nat /\ Cardinality(ActiveLinks) \in Nat
        /\ Cardinality(ActiveLinks') <= Cardinality(ActiveLinks) + 1
    BY <2>1, <2>2, OneMore
  <2>4. Inserting' \subseteq Inserting \ {c} /\ c \in Inserting /\ Inserting \subseteq Callers
    BY <1>1, <1>3, IdleCall DEF Inserting
  <2>5. Cardinality(Inserting') \in Nat /\ Cardinality(Inserting) \in Nat
        /\ Cardinality(Inserting') + 1 <= Cardinality(Inserting)
    BY <2>4, OneLess
  <2>6. UNCHANGED blindLinks /\ blindLinks \in Nat
    BY <1>1 DEF ShareInv, ShareTypes
  <2> QED BY <2>2, <2>3, <2>5, <2>6 DEF ShareInv, LinkCount
<1>11. ExportCount'
  BY <1>1, IdleCall, ExportCountStays
<1> QED BY <1>5, <1>8, <1>9, <1>10, <1>11 DEF ShareInv

\* Every step of the dashboard, of the requests and of the clock keeps the invariant.
LEMMA ShareStep == ShareInv /\ [ShareNext]_shareVars => ShareInv'
<1> SUFFICES ASSUME ShareInv, [ShareNext]_shareVars
             PROVE  ShareInv'
  OBVIOUS
<1>1. CASE ShareNext
  BY <1>1, CreateLinkKeeps, InsertLinkKeeps, ReadKeeps, PresentKeeps, RecordAccessKeeps, GetEventKeeps,
     AnsweredKeeps, CheckExportKeeps, LogExportKeeps, RevokeKeeps, ShareTickKeeps DEF ShareNext
<1>2. CASE UNCHANGED shareVars
  <2>1. UNCHANGED <<day, links, shareCall, ended, exports, unseen, blind, blindLinks>>
    BY <1>2 DEF shareVars
  <2> QED BY <2>1 DEF ShareInv, ShareTypes, LinkInv, MadeLinks, CallInv, Authorised, Window, Valid,
                      LinkCount, ActiveLinks, Inserting, ExportCount, Exporting
<1> QED BY <1>1, <1>2

\* ShareIsConfined, for any number of links, requests and exports: nothing outside
\* a link's window is served, nothing is served for a link that had ended, and the
\* plan's limits are passed by no more than the requests in flight and what the
\* counts missed, because they failed or read a pool that lagged.
THEOREM SharingStaysConfined == ShareSpec => []ShareIsConfined
<1>1. ShareInv => ShareIsConfined
  <2> SUFFICES ASSUME ShareInv PROVE ShareIsConfined
    OBVIOUS
  <2> USE ShareAssumption
  <2>1. ShareTypeOK
    BY DEF ShareInv, ShareTypes, ShareTypeOK, LinkStates, ShareStates
  <2>2. ShareStaysInside
    BY DEF ShareInv, CallInv, Inside, Window, Row, ShareStaysInside
  <2>3. EndedLinkStops
    BY DEF ShareInv, CallInv, Authorised, EndedLinkStops
  <2>4. LinkInv
    BY DEF ShareInv
  <2>5. FreeLinksBounded
    BY <2>4, ShareCounts DEF ShareInv, ShareTypes, LinkCount, FreeLinksBounded
  <2>6. ExportsBounded
    BY <2>4, ShareCounts DEF ShareInv, ShareTypes, ExportCount, ExportsBounded
  <2> QED BY <2>1, <2>2, <2>3, <2>5, <2>6 DEF ShareIsConfined
<1> QED BY <1>1, ShareInit_, ShareStep, PTL DEF ShareSpec

-----------------------------------------------------------------------------
(***************************************************************************)
(* The transparency log.  A head covers the events that are stored because *)
(* the rows between them, stored or erased, link them: that an erased row  *)
(* still counts is what makes the chain of digests an invariant.           *)
(***************************************************************************)

\* One step further back.
Wider(S) == S \cup {g[5] : g \in S \ {GenesisHash}}

\* The digests that are covered within n steps, for every n up to k.
Covers(h, f, k) ==
  /\ DOMAIN f = 0..k /\ f[0] = {h}
  /\ \A n \in 1..k : f[n] = Wider(f[n - 1])

\* There is such a function for every k: by the least k without one.
LEMMA CoversExist ==
  ASSUME NEW h, NEW k \in Nat
  PROVE  \E f : Covers(h, f, k)
<1> DEFINE T == {m \in Nat : ~ \E f : Covers(h, f, m)}
<1> SUFFICES ASSUME k \in T PROVE FALSE
  OBVIOUS
<1>1. PICK m \in T : \A y \in T : m <= y
  <2>1. T \subseteq Nat /\ T # {}
    OBVIOUS
  <2> HIDE DEF T
  <2> QED BY <2>1, LeastOf
<1>2. m \in Nat /\ ~ \E f : Covers(h, f, m)
  OBVIOUS
<1>3. m # 0
  <2>1. Covers(h, [n \in 0..0 |-> {h}], 0)
    BY DEF Covers
  <2> QED BY <1>2, <2>1
<1>4. PICK p \in Nat : m = p + 1
  <2>1. m - 1 \in Nat /\ m = (m - 1) + 1
    BY <1>2, <1>3
  <2> QED BY <2>1
<1>5. p \notin T
  BY <1>1, <1>4
<1>6. PICK f : Covers(h, f, p)
  BY <1>5
<1>7. PICK g : g = [n \in 0..m |-> IF n = m THEN Wider(f[p]) ELSE f[n]]
  OBVIOUS
<1>8. Covers(h, g, m)
  <2>1. DOMAIN g = 0..m
    BY <1>7
  <2>2. g[0] = {h}
    BY <1>3, <1>4, <1>6, <1>7 DEF Covers
  <2>3. ASSUME NEW n \in 1..m PROVE g[n] = Wider(g[n - 1])
    <3>1. CASE n = m
      <4>1. n - 1 = p /\ p \in 0..m /\ p # m /\ n \in 0..m
        BY <1>4, <3>1
      <4> QED BY <1>7, <3>1, <4>1
    <3>2. CASE n # m
      <4>1. n \in 1..p /\ n \in 0..m /\ n - 1 \in 0..m /\ n - 1 # m
        BY <1>4, <3>2
      <4>2. f[n] = Wider(f[n - 1])
        BY <1>6, <4>1 DEF Covers
      <4> QED BY <1>7, <3>2, <4>1, <4>2
    <3> QED BY <3>1, <3>2
  <2> QED BY <2>1, <2>2, <2>3 DEF Covers
<1> QED BY <1>2, <1>8

\* CoveredBy is what its recursive definition says.
LEMMA CoveredIs ==
  ASSUME NEW h
  PROVE  \E f : Covers(h, f, MaxRecords) /\ CoveredBy(h) = f[MaxRecords]
<1> DEFINE Body(f) == [n \in 0..MaxRecords |->
                         IF n = 0 THEN {h} ELSE f[n - 1] \cup {g[5] : g \in f[n - 1] \ {GenesisHash}}]
           c == CHOOSE f : f = Body(f)
<1>0. MaxRecords \in Nat
  BY TransparencyAssumption
<1>1. PICK f : Covers(h, f, MaxRecords)
  BY <1>0, CoversExist
<1>2. PICK f2 : f2 = [n \in 0..MaxRecords |-> f[n]]
  OBVIOUS
<1>3. f2 = Body(f2)
  <2>1. \A n \in 0..MaxRecords : f2[n] = Body(f2)[n]
    <3> SUFFICES ASSUME NEW n \in 0..MaxRecords PROVE f2[n] = Body(f2)[n]
      OBVIOUS
    <3>1. CASE n = 0
      BY <1>1, <1>2, <3>1 DEF Covers
    <3>2. CASE n # 0
      <4>1. n \in 1..MaxRecords /\ n - 1 \in 0..MaxRecords
        BY <1>0, <3>2
      <4>2. f[n] = Wider(f[n - 1])
        BY <1>1, <4>1 DEF Covers
      <4>3. f2[n] = f[n] /\ f2[n - 1] = f[n - 1]
        BY <1>2, <4>1
      <4>4. Body(f2)[n] = Wider(f2[n - 1])
        BY <3>2 DEF Wider
      <4> HIDE DEF Body
      <4> QED BY <4>2, <4>3, <4>4
    <3> QED BY <3>1, <3>2
  <2>2. f2 = [n \in 0..MaxRecords |-> f2[n]]
    BY <1>2
  <2> QED BY <2>1, <2>2
<1>4. c = Body(c)
  <2> HIDE DEF Body
  <2> QED BY <1>3, Zenon
<1>5. CoveredBy(h) = c[MaxRecords]
  BY DEF CoveredBy
<1>6. Covers(h, c, MaxRecords)
  <2> HIDE DEF c
  <2>1. DOMAIN c = 0..MaxRecords
    BY <1>4
  <2>2. c[0] = {h}
    <3>1. 0 \in 0..MaxRecords
      BY <1>0
    <3>2. Body(c)[0] = {h}
      BY <3>1
    <3> HIDE DEF Body
    <3> QED BY <1>4, <3>2
  <2>3. ASSUME NEW n \in 1..MaxRecords PROVE c[n] = Wider(c[n - 1])
    <3>1. n \in 0..MaxRecords /\ n # 0
      BY <1>0
    <3>2. Body(c)[n] = Wider(c[n - 1])
      BY <3>1 DEF Wider
    <3> HIDE DEF Body
    <3> QED BY <1>4, <3>2
  <2> QED BY <2>1, <2>2, <2>3 DEF Covers
<1> QED BY <1>5, <1>6

AllRows == events \cup erased

RowInv ==
  /\ \A r \in AllRows : r.tenant \in Tenants /\ r.seq \in 1..(nextval - 1) /\ r.hash = ComputeHash(r)
  /\ \A r, q \in AllRows : r.seq = q.seq => r = q
  /\ lagging \subseteq AllRows

TransTypes ==
  /\ nextval \in 1..(MaxRecords + 1)
  /\ softDeleted \subseteq Tenants /\ left \in [Publishers -> SUBSET Tenants]

\* Between a row and an earlier one that is stored, the digests link.
LinkedInv ==
  \A r \in AllRows, s \in events :
    r.tenant = s.tenant /\ s.seq < r.seq =>
      \E u \in AllRows : u.tenant = r.tenant /\ s.seq <= u.seq /\ u.seq < r.seq /\ r.prev = u.hash

HeadOf(p, r) == p = [tenant |-> r.tenant, seq |-> r.seq, hash |-> r.hash]

HeadInv == \A p \in posts \cup published : \E r \in AllRows : HeadOf(p, r)

TransInv == TransTypes /\ RowInv /\ LinkedInv /\ HeadInv

\* Nothing is stored and nothing published.
LEMMA TransInit_ == TransparencyInit => TransInv
  BY TransparencyAssumption
     DEF TransparencyInit, TransInv, TransTypes, RowInv, LinkedInv, HeadInv, AllRows

\* A tenant's rows have a last one.
LEMMA LastRow ==
  ASSUME TransInv, NEW S, S \subseteq AllRows, NEW t, RowsOf(S, t) # {}
  PROVE  /\ (CHOOSE r \in RowsOf(S, t) : IsLast(RowsOf(S, t), r)) \in RowsOf(S, t)
         /\ IsLast(RowsOf(S, t), CHOOSE r \in RowsOf(S, t) : IsLast(RowsOf(S, t), r))
<1> DEFINE rows == RowsOf(S, t)
           T == {r.seq : r \in rows}
<1>1. MaxRecords \in Nat /\ \A r \in rows : r.seq \in 0..MaxRecords
  BY TransparencyAssumption DEF TransInv, TransTypes, RowInv, RowsOf
<1>2. T \subseteq 0..MaxRecords /\ T # {}
  BY <1>1
<1>3. PICK x \in T : \A y \in T : y <= x
  <2> HIDE DEF T
  <2> QED BY <1>1, <1>2, GreatestOf
<1>4. PICK r \in rows : r.seq = x
  OBVIOUS
<1>5. IsLast(rows, r)
  BY <1>3, <1>4 DEF IsLast
<1> HIDE DEF rows
<1> QED BY <1>5 DEF rows

\* The rows, the log and the tenants stay, or the rows are erased.
LEMMA RowsStay ==
  ASSUME TransInv, AllRows' = AllRows, events' \subseteq events, UNCHANGED nextval,
         lagging' \subseteq AllRows, softDeleted' \subseteq Tenants, left' \in [Publishers -> SUBSET Tenants],
         \A p \in (posts \cup published)' : p \in posts \cup published \/ \E r \in AllRows : HeadOf(p, r)
  PROVE  TransInv'
<1>1. TransTypes' /\ RowInv'
  BY DEF TransInv, TransTypes, RowInv
<1>2. LinkedInv'
  BY DEF TransInv, LinkedInv
<1>3. HeadInv'
  BY DEF TransInv, HeadInv, HeadOf
<1> QED BY <1>1, <1>2, <1>3 DEF TransInv

\* The new row links to the last of the stored rows, and comes after every row.
LEMMA RecordKeeps ==
  ASSUME TransInv, NEW t \in Tenants, NEW d \in Data, Record(t, d)
  PROVE  TransInv'
<1> USE TransparencyAssumption
<1>0. PICK ts \in Times :
        events' = events \cup {Signed([id |-> nextval, tenant |-> t, ts |-> ts, data |-> d, seq |-> nextval,
                                       prev |-> LastHash(t), hash |-> <<>>])}
  BY DEF Record
<1>1. PICK b, r :
        /\ b = [id |-> nextval, tenant |-> t, ts |-> ts, data |-> d, seq |-> nextval, prev |-> LastHash(t),
               hash |-> <<>>]
        /\ r = Signed(b) /\ events' = events \cup {r}
  BY <1>0
<1>2. /\ nextval <= MaxRecords /\ nextval' = nextval + 1 /\ nextval \in Nat /\ nextval >= 1
      /\ UNCHANGED <<lagging, softDeleted, left, posts, published, erased>>
  BY DEF Record, transHistory, TransInv, TransTypes
<1>3. /\ r.id = nextval /\ r.tenant = t /\ r.ts = ts /\ r.data = d /\ r.seq = nextval /\ r.prev = LastHash(t)
      /\ r.hash = ComputeHash(r)
  <2>1. r = [id |-> nextval, tenant |-> t, ts |-> ts, data |-> d, seq |-> nextval, prev |-> LastHash(t),
             hash |-> ComputeHash(b)]
    BY <1>1 DEF Signed
  <2>2. ComputeHash(b) = <<nextval, t, ts, d, LastHash(t), nextval>>
    BY <1>1 DEF ComputeHash
  <2>3. r.id = nextval /\ r.tenant = t /\ r.ts = ts /\ r.data = d /\ r.seq = nextval /\ r.prev = LastHash(t)
        /\ r.hash = ComputeHash(b)
    BY <2>1
  <2> QED BY <2>2, <2>3 DEF ComputeHash
<1>4. AllRows' = AllRows \cup {r}
  BY <1>1, <1>2 DEF AllRows
<1>5. \A q \in AllRows : q.seq \in Nat /\ q.seq >= 1 /\ q.seq < nextval
  BY <1>2 DEF TransInv, RowInv
<1>6. TransTypes'
  BY <1>2 DEF TransInv, TransTypes
<1>7. RowInv'
  <2>1. \A q \in AllRows' : q.tenant \in Tenants /\ q.seq \in 1..(nextval' - 1) /\ q.hash = ComputeHash(q)
    <3> SUFFICES ASSUME NEW q \in AllRows'
                 PROVE  q.tenant \in Tenants /\ q.seq \in 1..(nextval' - 1) /\ q.hash = ComputeHash(q)
      OBVIOUS
    <3>1. CASE q = r
      BY <1>2, <1>3, <3>1
    <3>2. CASE q \in AllRows
      BY <1>2, <1>5, <3>2 DEF TransInv, RowInv
    <3> QED BY <1>4, <3>1, <3>2
  <2>2. \A p, q \in AllRows' : p.seq = q.seq => p = q
    BY <1>2, <1>3, <1>4, <1>5 DEF TransInv, RowInv
  <2>3. lagging' \subseteq AllRows'
    BY <1>2, <1>4 DEF TransInv, RowInv
  <2> QED BY <2>1, <2>2, <2>3 DEF RowInv, ComputeHash
<1>8. LinkedInv'
  <2> SUFFICES ASSUME NEW p \in AllRows', NEW s \in events', p.tenant = s.tenant, s.seq < p.seq
               PROVE  \E u \in AllRows' : /\ u.tenant = p.tenant /\ s.seq <= u.seq /\ u.seq < p.seq
                                          /\ p.prev = u.hash
    BY DEF LinkedInv
  <2>1. s \in events
    BY <1>1, <1>2, <1>3, <1>4, <1>5
  <2>2. CASE p \in AllRows
    BY <1>4, <2>1, <2>2 DEF TransInv, LinkedInv
  <2>3. CASE p = r
    <3>1. RowsOf(events, t) # {} /\ s \in RowsOf(events, t) /\ events \subseteq AllRows
      BY <1>3, <2>1, <2>3 DEF RowsOf, AllRows
    <3>2. PICK u : u = (CHOOSE q \in RowsOf(events, t) : IsLast(RowsOf(events, t), q))
      OBVIOUS
    <3>3. u \in RowsOf(events, t) /\ IsLast(RowsOf(events, t), u)
      BY <3>1, <3>2, LastRow
    <3>4. LastHash(t) = u.hash
      BY <3>1, <3>2 DEF LastHash
    <3>5. u \in AllRows /\ u.tenant = t /\ s.seq <= u.seq
      BY <3>1, <3>3 DEF RowsOf, IsLast
    <3> QED BY <1>3, <1>4, <1>5, <2>3, <3>4, <3>5
  <2> QED BY <1>4, <2>2, <2>3
<1>9. HeadInv'
  BY <1>2, <1>4 DEF TransInv, HeadInv, HeadOf
<1> QED BY <1>6, <1>7, <1>8, <1>9 DEF TransInv
\* The other steps erase rows, show them later, or read a head.
LEMMA OtherTransSteps ==
  ASSUME TransInv,
         \/ \E t \in Tenants : SoftDelete(t) \/ ReanchorAll(t)
         \/ \E d \in Data : DeleteAuditEventsWhere(d)
         \/ CatchUp \/ \E r \in events : ReanchorChain(r)
         \/ \E w \in Publishers : RunOnce(w) \/ WorkerStops(w)
         \/ \E p \in posts : Arrive(p)
  PROVE  TransInv'
<1>0. events \subseteq AllRows /\ lagging \subseteq AllRows /\ softDeleted \subseteq Tenants
      /\ left \in [Publishers -> SUBSET Tenants]
  BY DEF TransInv, RowInv, TransTypes, AllRows
<1>1. ASSUME \E r : ReanchorChain(r) PROVE TransInv'
  <2>1. UNCHANGED <<events, nextval, lagging, softDeleted, left, posts, published, erased>>
    BY <1>1 DEF ReanchorChain, ReanchorFrom, Triggers
  <2> QED BY <1>0, <2>1, RowsStay DEF AllRows
<1>2. ASSUME NEW t \in Tenants, SoftDelete(t) PROVE TransInv'
  BY <1>0, <1>2, RowsStay DEF SoftDelete, AllRows, transHistory
<1>3. ASSUME NEW d \in Data, DeleteAuditEventsWhere(d) PROVE TransInv'
  <2>1. AllRows' = AllRows /\ events' \subseteq events
        /\ UNCHANGED <<nextval, lagging, softDeleted, left, posts, published>>
    BY <1>3 DEF DeleteAuditEventsWhere, AllRows
  <2> QED BY <1>0, <2>1, RowsStay
<1>4. ASSUME CatchUp PROVE TransInv'
  BY <1>0, <1>4, RowsStay DEF CatchUp, AllRows, transHistory
<1>5. ASSUME NEW w \in Publishers, RunOnce(w) \/ WorkerStops(w) PROVE TransInv'
  <2>1. UNCHANGED <<events, nextval, lagging, softDeleted, posts, published, erased>>
    BY <1>5 DEF RunOnce, WorkerStops, transHistory
  <2>2. left' \in [Publishers -> SUBSET Tenants]
    BY <1>0, <1>5 DEF RunOnce, WorkerStops
  <2> QED BY <1>0, <2>1, <2>2, RowsStay DEF AllRows
<1>6. ASSUME NEW p \in posts, Arrive(p) PROVE TransInv'
  <2>1. UNCHANGED <<events, nextval, lagging, softDeleted, left, erased>>
        /\ (posts \cup published)' \subseteq posts \cup published
    BY <1>6 DEF Arrive, transHistory
  <2> QED BY <1>0, <2>1, RowsStay DEF AllRows
<1> QED BY <1>1, <1>2, <1>3, <1>4, <1>5, <1>6 DEF ReanchorAll

\* What a worker posts is the head of a row that was stored.
LEMMA PostHeadKeeps ==
  ASSUME TransInv, NEW w \in Publishers, PostHead(w)
  PROVE  TransInv'
<1>0. lagging \subseteq AllRows /\ softDeleted \subseteq Tenants /\ left \in [Publishers -> SUBSET Tenants]
  BY DEF TransInv, RowInv, TransTypes
<1>1. PICK t \in left[w] : /\ left' = [left EXCEPT ![w] = left[w] \ {t}]
                           /\ posts' = posts \cup ({ChainHead(t)} \ {NoHead})
  BY DEF PostHead
<1>2. UNCHANGED <<events, nextval, lagging, softDeleted, published, erased>>
  BY DEF PostHead, transHistory
<1>3. ChainHead(t) # NoHead => \E r \in AllRows : HeadOf(ChainHead(t), r)
  <2> SUFFICES ASSUME ChainHead(t) # NoHead PROVE \E r \in AllRows : HeadOf(ChainHead(t), r)
    OBVIOUS
  <2>1. RowsOf(lagging, t) # {}
    BY DEF ChainHead
  <2>2. PICK r : r = (CHOOSE q \in RowsOf(lagging, t) : IsLast(RowsOf(lagging, t), q))
    OBVIOUS
  <2>3. r \in RowsOf(lagging, t)
    BY <1>0, <2>1, <2>2, LastRow
  <2>4. ChainHead(t) = [tenant |-> t, seq |-> r.seq, hash |-> r.hash]
    BY <2>1, <2>2 DEF ChainHead
  <2> QED BY <1>0, <2>3, <2>4 DEF HeadOf, RowsOf
<1>4. \A p \in (posts \cup published)' : p \in posts \cup published \/ \E r \in AllRows : HeadOf(p, r)
  BY <1>1, <1>2, <1>3
<1>5. left' \in [Publishers -> SUBSET Tenants]
  BY <1>0, <1>1
<1> QED BY <1>0, <1>2, <1>4, <1>5, RowsStay DEF AllRows

\* Every step keeps the invariant.
LEMMA TransStep == TransInv /\ [TransparencyNext]_transVars => TransInv'
<1> SUFFICES ASSUME TransInv, [TransparencyNext]_transVars PROVE TransInv'
  OBVIOUS
<1>1. CASE TransparencyNext
  BY <1>1, RecordKeeps, PostHeadKeeps, OtherTransSteps DEF TransparencyNext
<1>2. CASE UNCHANGED transVars
  <2>1. UNCHANGED <<events, nextval, lagging, softDeleted, left, posts, published, erased>>
    BY <1>2 DEF transVars, transHistory
  <2> QED BY <2>1 DEF TransInv, TransTypes, RowInv, LinkedInv, HeadInv, AllRows
<1> QED BY <1>1, <1>2

\* After n steps back from a row, one of the rows that link it to an earlier stored
\* row is covered, and it is n rows nearer at least unless the row is reached.
LEMMA StepsBack ==
  ASSUME TransInv, NEW r \in AllRows, NEW s \in events, r.tenant = s.tenant, s.seq < r.seq,
         NEW f, Covers(r.hash, f, MaxRecords), NEW k \in 0..MaxRecords
  PROVE  \E u \in AllRows : /\ u.tenant = r.tenant /\ s.seq <= u.seq /\ u.hash \in f[k]
                            /\ u.seq + k <= r.seq \/ u.seq = s.seq
<1> DEFINE Near(n) == \E u \in AllRows : /\ u.tenant = r.tenant /\ s.seq <= u.seq /\ u.hash \in f[n]
                                         /\ u.seq + n <= r.seq \/ u.seq = s.seq
           T == {n \in Nat : n <= MaxRecords /\ ~Near(n)}
<1>0. MaxRecords \in Nat /\ (\A q \in AllRows : q.seq \in Nat) /\ s \in AllRows
      /\ \A q \in AllRows : q.hash = ComputeHash(q)
  BY TransparencyAssumption DEF TransInv, TransTypes, RowInv, AllRows
<1> SUFFICES ASSUME ~Near(k) PROVE FALSE
  OBVIOUS
<1>1. PICK m \in T : \A y \in T : m <= y
  <2>1. T \subseteq Nat /\ k \in T
    BY <1>0
  <2> HIDE DEF T
  <2> QED BY <2>1, LeastOf
<1>2. m \in Nat /\ m <= MaxRecords /\ ~Near(m)
  OBVIOUS
<1>3. m # 0
  <2>1. r.hash \in f[0] /\ r.seq + 0 <= r.seq /\ s.seq <= r.seq
    BY <1>0 DEF Covers
  <2>2. Near(0)
    BY <2>1
  <2> HIDE DEF Near
  <2> QED BY <1>2, <2>2
<1>4. PICK p \in Nat : m = p + 1
  <2>1. m - 1 \in Nat /\ m = (m - 1) + 1
    BY <1>2, <1>3
  <2> QED BY <2>1
<1>5. p \notin T /\ p <= MaxRecords
  BY <1>0, <1>1, <1>2, <1>4
<1>6. PICK u \in AllRows : /\ u.tenant = r.tenant /\ s.seq <= u.seq /\ u.hash \in f[p]
                           /\ u.seq + p <= r.seq \/ u.seq = s.seq
  BY <1>5
<1>7. f[m] = Wider(f[p])
  <2>1. m \in 1..MaxRecords /\ m - 1 = p
    BY <1>0, <1>2, <1>4
  <2> QED BY <2>1 DEF Covers
<1>8. CASE u.seq = s.seq
  <2>1. u.hash \in f[m]
    BY <1>6, <1>7 DEF Wider
  <2> QED BY <1>2, <1>6, <1>8, <2>1
<1>9. CASE u.seq # s.seq
  <2>1. s.seq < u.seq
    BY <1>0, <1>6, <1>9
  <2>2. PICK v \in AllRows : v.tenant = u.tenant /\ s.seq <= v.seq /\ v.seq < u.seq /\ u.prev = v.hash
    BY <1>6, <2>1 DEF TransInv, LinkedInv
  <2>3. u.hash = <<u.id, u.tenant, u.ts, u.data, u.prev, u.seq>>
    BY <1>0 DEF ComputeHash
  <2>4. u.hash[5] = u.prev /\ u.hash # GenesisHash
    <3>1. Len(u.hash) = 6
      BY <2>3
    <3>2. u.hash[5] = u.prev
      BY <2>3
    <3> QED BY <3>1, <3>2, TransparencyAssumption
  <2>5. v.hash \in f[m]
    BY <1>6, <1>7, <2>2, <2>4 DEF Wider
  <2>6. v.seq + m <= r.seq
    BY <1>0, <1>4, <1>6, <1>9, <2>2
  <2> QED BY <1>2, <1>6, <2>2, <2>5, <2>6
<1> QED BY <1>8, <1>9

\* PublishedIsTrue, for any number of workers, tenants and events: what the log has
\* received is a stored or an erased row, and a head covers every earlier published
\* head that is still stored.
THEOREM PublishedStaysTrue == TransparencySpec => []PublishedIsTrue
<1>1. TransInv => PublishedIsTrue
  <2> SUFFICES ASSUME TransInv PROVE PublishedIsTrue
    OBVIOUS
  <2>0. /\ MaxRecords \in Nat /\ nextval \in 1..(MaxRecords + 1)
        /\ \A q \in AllRows : q.tenant \in Tenants /\ q.seq \in 1..(nextval - 1) /\ q.hash = ComputeHash(q)
        /\ \A q \in AllRows : q.seq \in 1..MaxRecords /\ q.seq \in Nat
    BY TransparencyAssumption DEF TransInv, TransTypes, RowInv
  <2>1. \A p \in posts \cup published : \E r \in AllRows :
          p = [tenant |-> r.tenant, seq |-> r.seq, hash |-> r.hash]
          /\ p.tenant = r.tenant /\ p.seq = r.seq /\ p.hash = r.hash
    BY DEF TransInv, HeadInv, HeadOf
  <2>2. TransparencyTypeOK
    <3>1. \A r \in events \cup lagging \cup erased : r \in AllRows
      BY DEF TransInv, RowInv, AllRows
    <3>2. \A p \in posts \cup published : p.tenant \in Tenants /\ p.seq \in 1..MaxRecords
      BY <2>0, <2>1
    <3> QED BY <2>0, <3>1, <3>2 DEF TransInv, TransTypes, TransparencyTypeOK
  <2>3. PublishedIsKept
    BY <2>1 DEF PublishedIsKept, AllRows
  <2>4. ASSUME NEW p \in published, NEW q \in published, p.tenant = q.tenant, p.seq = q.seq PROVE p = q
    BY <2>1, <2>4 DEF TransInv, RowInv
  <2>5. ASSUME NEW p \in published, NEW q \in published, p.tenant = q.tenant, p.seq < q.seq,
               NEW s \in events, s.seq = p.seq
        PROVE  p.hash \in CoveredBy(q.hash)
    <3>1. PICK r \in AllRows : q.tenant = r.tenant /\ q.seq = r.seq /\ q.hash = r.hash
      BY <2>1
    <3>2. s \in AllRows /\ s.tenant = p.tenant /\ s.hash = p.hash
      <4>1. PICK x \in AllRows : p.tenant = x.tenant /\ p.seq = x.seq /\ p.hash = x.hash
        BY <2>1
      <4>2. s \in AllRows
        BY DEF AllRows
      <4>3. s = x
        BY <2>5, <4>1, <4>2 DEF TransInv, RowInv
      <4> QED BY <4>1, <4>2, <4>3
    <3>3. PICK f : Covers(r.hash, f, MaxRecords) /\ CoveredBy(r.hash) = f[MaxRecords]
      BY CoveredIs
    <3>4. r.tenant = s.tenant /\ s.seq < r.seq /\ MaxRecords \in 0..MaxRecords
      BY <2>0, <2>5, <3>1, <3>2
    <3>5. PICK u \in AllRows : /\ u.tenant = r.tenant /\ s.seq <= u.seq /\ u.hash \in f[MaxRecords]
                               /\ u.seq + MaxRecords <= r.seq \/ u.seq = s.seq
      BY <3>3, <3>4, StepsBack
    <3>6. u.seq = s.seq
      <4>1. u.seq \in Nat /\ u.seq >= 1 /\ r.seq \in Nat /\ r.seq <= MaxRecords
        BY <2>0
      <4> QED BY <2>0, <3>5, <4>1
    <3>7. u = s
      BY <3>2, <3>6 DEF TransInv, RowInv
    <3> QED BY <3>1, <3>2, <3>3, <3>5, <3>7
  <2>6. HeadsAreOneChain
    BY <2>4, <2>5 DEF HeadsAreOneChain
  <2> QED BY <2>2, <2>3, <2>6 DEF PublishedIsTrue
<1> QED BY <1>1, TransInit_, TransStep, PTL DEF TransparencySpec

=============================================================================

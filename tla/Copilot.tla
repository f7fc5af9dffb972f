------------------------------ MODULE Copilot ------------------------------
(***************************************************************************)
(* Copilot sessions and transcripts of one user: a session is created, and *)
(* messages are appended to it in three statements (look up, insert, touch)*)
(* while the retention sweeper of any instance may redact messages and     *)
(* delete sessions between them.  A message is its session and the day it  *)
(* was inserted; what it says, and the activity log that nothing reads back,*)
(* are left out.                                                           *)
(***************************************************************************)
EXTENDS Requests, Naturals, FiniteSets

CONSTANTS
  Sessions,     \* session ids
  ResumeDays,   \* sessionTTL: CopilotSessionTTLDays
  FinalDay      \* bound on the clock

ASSUME CopilotAssumption == ResumeDays \in Nat /\ FinalDay \in Nat /\ NoOne \notin Sessions

VARIABLES
  today,
  touched,      \* copilot_sessions: the day of updated_at of every session
  transcript,   \* copilot_messages that are not redacted
  copCall,      \* the request each caller is in
  acked,        \* messages whose append was answered with 201
  ackDay        \* the last day a session's creation or an append was answered

copTables  == <<touched, transcript>>
copHistory == <<acked, ackDay>>

NoDay == FinalDay + 1
CopIdle == [pc |-> "idle", session |-> NoOne, day |-> 0]

CopilotInit ==
  /\ today = 0
  /\ touched = [s \in Sessions |-> NoDay]
  /\ transcript = {}
  /\ copCall = [c \in Callers |-> CopIdle]
  /\ acked = {} /\ ackDay = [s \in Sessions |-> NoDay]

CopFree(c) == copCall[c].pc = "idle"
CopBecomes(c, r) == copCall' = [copCall EXCEPT ![c] = r]
CopFinish(c) == CopBecomes(c, CopIdle)

Exists(s) == touched[s] # NoDay

\* assertResumeWindow: updated_at is not before now - sessionTTL.
Resumable(s) == Exists(s) /\ today <= touched[s] + ResumeDays

\* The insert answers; the activity row after it may fail unnoticed.
CreateSession(s) ==
  /\ touched[s] = NoDay /\ ackDay[s] = NoDay
  /\ touched' = [touched EXCEPT ![s] = today]
  /\ ackDay' = [ackDay EXCEPT ![s] = today]
  /\ UNCHANGED <<today, transcript, copCall, acked>>

\* AppendMessages up to the validation of the messages.
AppendMessages(c, s) ==
  /\ CopFree(c) /\ Resumable(s)
  /\ CopBecomes(c, [CopIdle EXCEPT !.pc = "insert", !.session = s])
  /\ UNCHANGED <<today, copTables, copHistory>>

\* CopilotStore.AppendMessages: the foreign key needs the session's row.
InsertMessages(c) ==
  /\ copCall[c].pc = "insert"
  /\ LET s == copCall[c].session IN
     \/ /\ Exists(s)
        /\ transcript' = transcript \cup {<<s, today>>}
        /\ CopBecomes(c, [copCall[c] EXCEPT !.pc = "touch", !.day = today])
     \/ /\ ~Exists(s)
        /\ CopFinish(c)
        /\ UNCHANGED transcript
  /\ UNCHANGED <<today, touched, copHistory>>

\* Mutant: the session is touched with the time of the insert.
TouchedWithInsert(c) == copCall[c].day

\* updated_at = NOW(), the time of this statement.
TouchedAt(c) == today

TouchSession(c) ==
  /\ copCall[c].pc = "touch"
  /\ LET s == copCall[c].session IN
     \/ /\ Exists(s)
        /\ touched' = [touched EXCEPT ![s] = TouchedAt(c)]
        /\ acked' = acked \cup {<<s, copCall[c].day>>}
        /\ ackDay' = [ackDay EXCEPT ![s] = today]
     \/ /\ ~Exists(s)
        /\ UNCHANGED <<touched, copHistory>>
  /\ CopFinish(c)
  /\ UNCHANGED <<today, transcript>>

\* The request is cancelled or its next statement fails.
CopDies(c) ==
  /\ ~CopFree(c)
  /\ CopFinish(c)
  /\ UNCHANGED <<today, copTables, copHistory>>

NextDay ==
  /\ today < FinalDay
  /\ today' = today + 1
  /\ UNCHANGED <<copTables, copCall, copHistory>>

CopilotNext ==
  \/ \E s \in Sessions : CreateSession(s) \/ \E c \in Callers : AppendMessages(c, s)
  \/ \E c \in Callers : InsertMessages(c) \/ TouchSession(c) \/ CopDies(c)
  \/ NextDay

=============================================================================

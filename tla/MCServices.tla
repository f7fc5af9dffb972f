----------------------------- MODULE MCServices -----------------------------
(***************************************************************************)
(* Small instances of the parts of the platform that read, send and delete *)
(* what is stored.  They share the requests but no table, so one part is   *)
(* chosen at the start and takes all the steps; the others stay as they    *)
(* began.  The sweep of transcripts and that of recorded history touch     *)
(* different tables and are two parts, as are the two kinds of mail, and   *)
(* the feed and its tickets.                                               *)
(***************************************************************************)
EXTENDS ShareLinks, Retention, Notices, LiveFeed, Transparency, TLC

CONSTANTS
  Parts,        \* the parts to check
  MaxExports    \* bound on the exports that are counted

VARIABLE part

serviceVars == <<part, shareVars, retVars, noticeVars, feedVars, transVars>>

ServicesInit ==
  /\ part \in Parts
  /\ ShareInit /\ RetentionInit /\ NoticesInit /\ FeedInit /\ TransparencyInit

\* Links and what they open, with every count failing or succeeding but no export
\* that the count of another one would miss.
UseLinks == ShareNext /\ UNCHANGED <<exports, unseen, blind>>

\* Exports, shared and other, counted by lagging and by failing checks.
Export == ShareNext /\ exports' <= MaxExports /\ UNCHANGED <<day, ended, blindLinks>>

SweepTranscripts == UseCopilot \/ Sweep

SweepHistory ==
  RecordHistory \/ Sweep \/ (NextDay /\ UNCHANGED <<sweptRows, recorded, sweep, auditSwept, deleting>>)

\* Sweeps before the end of the period, and sweeps that come too late to remind.
Remind == TrialNext /\ promo'.ends > noticeDay'
Expire == TrialNext /\ \A m \in Mailers : mailer'[m].pc # "remind"

ServicesNext ==
  /\ UNCHANGED part
  /\ \/ /\ part = "share" /\ UseLinks
        /\ UNCHANGED <<retVars, noticeVars, feedVars, transVars>>
     \/ /\ part = "exports" /\ Export
        /\ UNCHANGED <<retVars, noticeVars, feedVars, transVars>>
     \/ /\ part = "transcripts" /\ SweepTranscripts
        /\ UNCHANGED <<shareVars, noticeVars, feedVars, transVars>>
     \/ /\ part = "history" /\ SweepHistory
        /\ UNCHANGED <<shareVars, noticeVars, feedVars, transVars>>
     \/ /\ part = "reminders" /\ Remind
        /\ UNCHANGED <<shareVars, retVars, feedVars, transVars>>
     \/ /\ part = "expiries" /\ Expire
        /\ UNCHANGED <<shareVars, retVars, feedVars, transVars>>
     \/ /\ part = "digest" /\ DigestNext
        /\ UNCHANGED <<shareVars, retVars, feedVars, transVars>>
     \/ /\ part = "feed" /\ FeedNext
        /\ UNCHANGED <<shareVars, retVars, noticeVars, transVars>>
     \/ /\ part = "tickets" /\ TicketNext
        /\ UNCHANGED <<shareVars, retVars, noticeVars, transVars>>
     \/ /\ part = "transparency" /\ TransparencyNext
        /\ UNCHANGED <<shareVars, retVars, noticeVars, feedVars>>

ServicesSpec == ServicesInit /\ [][ServicesNext]_serviceVars

\* Without bounds, beyond the link's bound on one side or the other, and apart.
MCRanges == {[from |-> 0, to |-> 0], [from |-> 1, to |-> 0], [from |-> 0, to |-> 3],
             [from |-> 3, to |-> 0]}

MCWindows == {[from |-> 2, to |-> 2]}

\* A text that is no digest.
MCGenesis == <<"genesis">>

\* Requests, sweepers, mailers and streams are the same two values, and each
\* part treats them alike.
MCSymmetry == Permutations(Callers)

=============================================================================

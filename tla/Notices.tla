------------------------------ MODULE Notices ------------------------------
(***************************************************************************)
(* Mail that every API instance sends on its own clock to one tenant: the  *)
(* reminders and the expiry notice of a pro plan, which the retention      *)
(* sweeper lists, sends and then marks as sent, and the weekly digest,     *)
(* which its worker claims and then sends.  A mail that is handed to the   *)
(* bridge counts as sent: the code marks it whether or not it goes out.    *)
(* The mail of a row is the one to an owner and its copy to the founder.   *)
(***************************************************************************)
EXTENDS Naturals, FiniteSets

CONSTANTS
  Mailers,      \* API instances that run the sweeper and the digest worker
  Owners,       \* most rows that one tenant has in a listing: one for each owner
  PromoDays,    \* length of a promotional plan and of a paid period
  SoonDays,     \* how long before the end a reminder is due
  MinGap,       \* digest.Config.MinInterval
  MaxPromos,    \* bound on promotional plans granted
  MaxFaults,    \* bound on failed statements and stopped processes
  LastNotice    \* bound on the clock

ASSUME NoticesAssumption ==
  /\ PromoDays \in Nat /\ SoonDays \in Nat /\ MinGap \in Nat
  /\ MaxPromos \in Nat /\ MaxFaults \in Nat /\ LastNotice \in Nat
  /\ Owners \in Nat \ {0} /\ IsFiniteSet(Mailers)

VARIABLES
  noticeDay,
  promo,       \* plan_id, subscription_current_period_end and the two flags
  mailer,      \* the statement each instance's sweeper is at, the plan it listed, and
               \* the rows of its listing that are not mailed yet
  promos,      \* promotional plans granted
  reminders,   \* reminders sent by each instance
  expiries,    \* expiry notices sent by each instance
  lastDigest,  \* cc_digest_last_sent
  digester,    \* the statement each digest worker is at, and when it listed
  digests,     \* digests sent
  faults       \* failed statements and stops of each instance

trialVars  == <<promo, mailer, promos, reminders, expiries>>
digestVars == <<lastDigest, digester, digests>>
noticeVars == <<noticeDay, trialVars, digestVars, faults>>

Unset == LastNotice + PromoDays + 1
Quiet == [pc |-> "idle", plan |-> "free", left |-> 0]
Waiting == [pc |-> "idle", day |-> 0]

NoticesInit ==
  /\ noticeDay = 0 /\ faults = [m \in Mailers |-> 0]
  /\ promo = [plan |-> "free", ends |-> Unset, reminded |-> FALSE, told |-> FALSE]
  /\ mailer = [m \in Mailers |-> Quiet]
  /\ promos = 0
  /\ reminders = [m \in Mailers |-> 0] /\ expiries = [m \in Mailers |-> 0]
  /\ lastDigest = Unset /\ digester = [m \in Mailers |-> Waiting] /\ digests = 0

(***************************************************************************)
(* The promotional plan.                                                   *)
(***************************************************************************)

MailerBecomes(m, r) == mailer' = [mailer EXCEPT ![m] = r]
MailerAt(m, pc) == MailerBecomes(m, [mailer[m] EXCEPT !.pc = pc])
MailerDone(m) == MailerBecomes(m, Quiet)

Moved(m, pc, left) == [mailer[m] EXCEPT !.pc = pc, !.left = left]

\* The loop over the rows of a listing, when left of them remain.
RemindNext(m, left) ==
  MailerBecomes(m, IF left > 0 THEN Moved(m, "remind", left) ELSE Moved(m, "listexpired", 0))
TellNext(m, left) == MailerBecomes(m, IF left > 0 THEN Moved(m, "downgrade", left) ELSE Quiet)

\* SetTenantPlanPromo
GrantPromo ==
  /\ promos < MaxPromos /\ promos' = promos + 1
  /\ promo' = [plan |-> "pro", ends |-> noticeDay + PromoDays, reminded |-> FALSE, told |-> FALSE]
  /\ UNCHANGED <<noticeDay, mailer, reminders, expiries, digestVars, faults>>

\* SetTenantPlan clears the period and leaves the flags alone.
SetPlan(plan) ==
  /\ promo' = [promo EXCEPT !.plan = plan, !.ends = Unset]
  /\ UNCHANGED <<noticeDay, mailer, promos, reminders, expiries, digestVars, faults>>

\* The two updates of a payment, a cancellation or an expiry (module Billing):
\* neither touches the flags.
SetPeriod(days) ==
  /\ promo' = [promo EXCEPT !.ends = noticeDay + days]
  /\ UNCHANGED <<noticeDay, mailer, promos, reminders, expiries, digestVars, faults>>

UpdatePlan(plan) ==
  /\ promo' = [promo EXCEPT !.plan = plan]
  /\ UNCHANGED <<noticeDay, mailer, promos, reminders, expiries, digestVars, faults>>

EndingSoon ==
  promo.plan = "pro" /\ promo.ends <= noticeDay + SoonDays /\ promo.ends > noticeDay

ReminderDue == EndingSoon /\ ~promo.reminded

\* One row for each owner of the tenant, and one if it has none.
ListReminders(m, rows) ==
  /\ mailer[m].pc = "idle"
  /\ RemindNext(m, IF ReminderDue THEN rows ELSE 0)
  /\ UNCHANGED <<noticeDay, promo, promos, reminders, expiries, digestVars, faults>>

SendReminder(m) ==
  /\ mailer[m].pc = "remind"
  /\ MailerBecomes(m, Moved(m, "markreminder", mailer[m].left - 1))
  /\ reminders' = [reminders EXCEPT ![m] = @ + 1]
  /\ UNCHANGED <<noticeDay, promo, promos, expiries, digestVars, faults>>

MarkReminder(m) ==
  /\ mailer[m].pc = "markreminder" /\ RemindNext(m, mailer[m].left)
  /\ promo' = [promo EXCEPT !.reminded = TRUE]
  /\ UNCHANGED <<noticeDay, promos, reminders, expiries, digestVars, faults>>

PastEnd == promo.ends # Unset /\ promo.ends <= noticeDay

ExpiryDue == PastEnd /\ ~promo.told

ListExpired(m, rows) ==
  /\ mailer[m].pc = "listexpired"
  /\ MailerBecomes(m, IF ExpiryDue THEN [pc |-> "downgrade", plan |-> promo.plan, left |-> rows]
                      ELSE Quiet)
  /\ UNCHANGED <<noticeDay, promo, promos, reminders, expiries, digestVars, faults>>

\* The plan that decides is the one that was listed.
Downgrade(m) ==
  /\ mailer[m].pc = "downgrade" /\ MailerAt(m, "tell")
  /\ promo' = IF mailer[m].plan = "pro" THEN [promo EXCEPT !.plan = "free"] ELSE promo
  /\ UNCHANGED <<noticeDay, promos, reminders, expiries, digestVars, faults>>

SendExpired(m) ==
  /\ mailer[m].pc = "tell"
  /\ MailerBecomes(m, Moved(m, "marktold", mailer[m].left - 1))
  /\ expiries' = [expiries EXCEPT ![m] = @ + 1]
  /\ UNCHANGED <<noticeDay, promo, promos, reminders, digestVars, faults>>

MarkExpired(m) ==
  /\ mailer[m].pc = "marktold" /\ TellNext(m, mailer[m].left)
  /\ promo' = [promo EXCEPT !.told = TRUE]
  /\ UNCHANGED <<noticeDay, promos, reminders, expiries, digestVars, faults>>

\* A listing fails or the process ends, which ends the sweep; any other statement
\* that fails is only logged, and the sweep goes on with the next row.
MailerFails(m) ==
  /\ mailer[m].pc # "idle" /\ faults[m] < MaxFaults
  /\ faults' = [faults EXCEPT ![m] = @ + 1]
  /\ \/ MailerDone(m)
     \/ mailer[m].pc = "markreminder" /\ RemindNext(m, mailer[m].left)
     \/ mailer[m].pc = "downgrade" /\ mailer[m].plan = "pro" /\ TellNext(m, mailer[m].left - 1)
     \/ mailer[m].pc = "marktold" /\ TellNext(m, mailer[m].left)
  /\ UNCHANGED <<noticeDay, promo, promos, reminders, expiries, digestVars>>

(***************************************************************************)
(* The weekly digest of a tenant with an alert channel and activity.       *)
(***************************************************************************)

DigesterAt(m, r) == digester' = [digester EXCEPT ![m] = r]

DueAt(day) == lastDigest = Unset \/ lastDigest + MinGap < day

ListCandidates(m) ==
  /\ digester[m].pc = "idle" /\ DueAt(noticeDay)
  /\ DigesterAt(m, [pc |-> "claim", day |-> noticeDay])
  /\ UNCHANGED <<noticeDay, trialVars, lastDigest, digests, faults>>

\* Mutant: the update does not ask again.
ClaimedListed(m) == TRUE

\* The update asks again, with the cutoff of the listing.
Claimed(m) == DueAt(digester[m].day)

Claim(m) ==
  /\ digester[m].pc = "claim"
  /\ \/ Claimed(m) /\ lastDigest' = noticeDay /\ DigesterAt(m, [pc |-> "send", day |-> 0])
     \/ ~Claimed(m) /\ DigesterAt(m, Waiting) /\ UNCHANGED lastDigest
  /\ UNCHANGED <<noticeDay, trialVars, digests, faults>>

SendDigest(m) ==
  /\ digester[m].pc = "send"
  /\ digests' = digests + 1
  /\ DigesterAt(m, Waiting)
  /\ UNCHANGED <<noticeDay, trialVars, lastDigest, faults>>

\* The summary cannot be read, or the process ends: this week's is skipped.
DigestFails(m) ==
  /\ digester[m].pc # "idle" /\ faults[m] < MaxFaults
  /\ faults' = [faults EXCEPT ![m] = @ + 1]
  /\ DigesterAt(m, Waiting)
  /\ UNCHANGED <<noticeDay, trialVars, lastDigest, digests>>

NoticeTick ==
  /\ noticeDay < LastNotice
  /\ noticeDay' = noticeDay + 1
  /\ UNCHANGED <<trialVars, digestVars, faults>>

TrialNext ==
  \/ GrantPromo \/ NoticeTick
  \/ \E plan \in {"free", "pro"} : SetPlan(plan) \/ UpdatePlan(plan)
  \/ \E days \in {0, PromoDays} : SetPeriod(days)
  \/ \E m \in Mailers :
       \/ \E rows \in 1..Owners : ListReminders(m, rows) \/ ListExpired(m, rows)
       \/ SendReminder(m) \/ MarkReminder(m)
       \/ Downgrade(m) \/ SendExpired(m) \/ MarkExpired(m) \/ MailerFails(m)

DigestNext ==
  \/ NoticeTick
  \/ \E m \in Mailers : ListCandidates(m) \/ Claim(m) \/ SendDigest(m) \/ DigestFails(m)

NoticesSpec == NoticesInit /\ [][TrialNext \/ DigestNext]_noticeVars

-----------------------------------------------------------------------------

\* Type correctness of the flags, the counters and the two schedules.
NoticesTypeOK ==
  /\ noticeDay \in 0..LastNotice /\ promos \in 0..MaxPromos
  /\ faults \in [Mailers -> 0..MaxFaults]
  /\ promo.plan \in {"free", "pro"} /\ promo.ends \in 0..Unset
  /\ promo.reminded \in BOOLEAN /\ promo.told \in BOOLEAN
  /\ reminders \in [Mailers -> Nat] /\ expiries \in [Mailers -> Nat] /\ digests \in Nat
  /\ lastDigest \in 0..noticeDay \cup {Unset}

\* sweeper.go marks trial_reminder_sent and trial_expired_email_sent after the
\* mail.  However sweeps of several instances, grants and failures interleave,
\* each instance announces an end at most once to every owner until the flags are
\* reset, which only a promotional grant does, and once more to every owner for
\* each of its failures.
NoticesAreBounded ==
  \A m \in Mailers : /\ reminders[m] <= Owners * (promos + 1 + faults[m])
                      /\ expiries[m] <= Owners * (promos + 1 + faults[m])

\* digest/worker.go: "safe across multiple API replicas through an atomic
\* claim".  Digests of a tenant are claimed more than MinInterval apart, so
\* that no more go out than fit into the time that has passed.
DigestsApart == digests > 0 => (digests - 1) * (MinGap + 1) <= noticeDay

\* sweeper.go and digest/worker.go: no tenant is mailed more often than its owners,
\* the instances, the grants and the failures between a mail and its mark explain.
MailIsBounded == NoticesTypeOK /\ NoticesAreBounded /\ DigestsApart

=============================================================================

----------------------------- MODULE MCCustomers -----------------------------
(***************************************************************************)
(* Small instances of the parts of the platform that decide what a tenant  *)
(* may do.  They share the requests but no table, so one part is chosen at *)
(* the start and takes all the steps; the others stay as they began.       *)
(* Accounts are two parts: requests that present one key, with time; and   *)
(* bootstraps, creations and revocations of several keys, without it.      *)
(* Billing is two parts: with a read pool that lags, and with plans that   *)
(* an administrator grants.  The quota is two parts: with events beyond    *)
(* the limit, and with settings that the dashboard edits.                  *)
(***************************************************************************)
EXTENDS Accounts, Billing, Quota, RateLimit, TLC

CONSTANTS
  Parts,     \* the parts to check
  SpareKeys, \* the keys that only the part "tabs" uses
  MaxEvents  \* bound on the events a month may come to hold

VARIABLE part

customerVars == <<part, accVars, billVars, quotaVars, rateVars>>

CustomersInit ==
  /\ part \in Parts
  /\ AccountsInit /\ BillingInit /\ QuotaInit /\ RateInit
  /\ part # "rate" => backend = "memory"

UsesKeys == AccountsNext /\ \A k \in SpareKeys : apiKeys'[k] = NoKey
                         /\ \A c \in Callers : call'[c].key \notin SpareKeys

RacingTabs == AccountsNext /\ UNCHANGED <<clock, accReading>>
                           /\ \A c \in Callers : call'[c].server = NoOne

Lagging == BillingNext /\ UNCHANGED granted

Current == replica = [plan |-> plan, subscription |-> subscription]
Granting == /\ (BillingNext /\ Current) \/ (Replicate /\ ~Current)
            /\ \A b \in ledger' : b.status = "succeeded"

Overshooting == /\ QuotaNext /\ stored' + waiting' <= MaxEvents
                /\ \A c \in Callers : quotaCall'[c].pc # "put"

Editing == QuotaNext /\ stored' <= MonthlyLimit /\ UNCHANGED waiting

CustomersNext ==
  /\ UNCHANGED part
  /\ \/ part = "accounts" /\ UsesKeys /\ UNCHANGED <<billVars, quotaVars, rateVars>>
     \/ part = "tabs" /\ RacingTabs /\ UNCHANGED <<billVars, quotaVars, rateVars>>
     \/ part = "billing" /\ Lagging /\ UNCHANGED <<accVars, quotaVars, rateVars>>
     \/ part = "grants" /\ Granting /\ UNCHANGED <<accVars, quotaVars, rateVars>>
     \/ part = "quota" /\ Overshooting /\ UNCHANGED <<accVars, billVars, rateVars>>
     \/ part = "alerts" /\ Editing /\ UNCHANGED <<accVars, billVars, rateVars>>
     \/ part = "rate" /\ RateNext /\ UNCHANGED <<accVars, billVars, quotaVars>>

CustomersSpec == CustomersInit /\ [][CustomersNext]_customerVars

\* Requests are alike.
MCSymmetry == Permutations(Callers)

=============================================================================

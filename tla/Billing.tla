------------------------------- MODULE Billing -------------------------------
(***************************************************************************)
(* The plan of one tenant: checkout at the payment provider, the           *)
(* provider's webhooks, the background synchronisation of the billing      *)
(* page, cancellation, plans granted by an administrator, and the end of a *)
(* period as the plan lookup sees it (the sweeper is in Retention).        *)
(*                                                                         *)
(* The provider (Razorpay) is external: it creates subscriptions and       *)
(* orders, moves them on, and delivers a webhook for whatever has happened *)
(* at any later time and any number of times.  Every lookup of the plan or *)
(* of the subscription reads the read pool, which may be a replica and     *)
(* show an earlier row; writes go to the primary.  The clock counts        *)
(* months; a period bought or granted now ends when the clock moves.       *)
(***************************************************************************)
EXTENDS Requests, Naturals, FiniteSets

CONSTANTS
  Objects,     \* subscriptions and orders the provider may create
  MaxMonth,    \* bound on the clock
  MaxGrants    \* bound on plans granted by an administrator

ASSUME BillingAssumption ==
  /\ MaxMonth \in Nat /\ MaxGrants \in Nat
  /\ NoOne \notin Objects

VARIABLES
  month,
  plan,         \* tenants.plan_id
  subscription, \* stripe_subscription_id and subscription_current_period_end;
                \* the status column beside them is never read
  replica,      \* the tenant's plan and subscription as the read pool shows them
  ledger,       \* the transactions table; every attempt to pay has an id of its own
  provider,     \* the provider's objects
  approved,     \* objects the customer has ever authorised or paid
  billCall,     \* the handler each caller is in
  granted       \* the plans an administrator has granted, and how often

billVars == <<month, plan, subscription, replica, ledger, provider, approved,
              billCall, granted>>

billProvider == <<provider, approved>>

NoEnd == MaxMonth + 2
Promo == <<"promo", NoOne>>        \* stripe_subscription_id of a promotion
Invoice(x) == <<"order", x>>      \* the order the provider opens for a subscription's charge

NoObject == [kind |-> "none", plan |-> "free", status |-> "none", charged |-> FALSE]
NoSubscription == [id |-> NoOne, end |-> NoEnd]
BillIdle == [pc |-> "idle", id |-> NoOne, plan |-> "free", payment |-> NoOne]

BillingInit ==
  /\ month = 0 /\ plan = "free" /\ subscription = NoSubscription
  /\ replica = [plan |-> plan, subscription |-> subscription]
  /\ ledger = {}
  /\ provider = [x \in Objects |-> NoObject] /\ approved = {}
  /\ billCall = [c \in Callers |-> BillIdle]
  /\ granted = [plans |-> {}, count |-> 0]

BillGoes(c, pc) == billCall' = [billCall EXCEPT ![c].pc = pc]
BillEnds(c) == billCall' = [billCall EXCEPT ![c] = BillIdle]
BillFree(c) == billCall[c].pc = "idle"

SetTenantSubscription(id, end) == subscription' = [id |-> id, end |-> end]

\* What the primary holds now arrives at the read pool.
Replicate ==
  /\ replica' = [plan |-> plan, subscription |-> subscription]
  /\ UNCHANGED <<month, plan, subscription, ledger, provider, approved, billCall, granted>>

\* A row of the read pool has a pro plan whose period is over.
Expired == replica.plan = "pro" /\ replica.subscription.end <= month

(***************************************************************************)
(* The provider.                                                           *)
(***************************************************************************)

\* The customer authorises or pays what a checkout created.
Approve(x) ==
  /\ \/ /\ provider[x].kind = "sub" /\ provider[x].status = "created"
        /\ provider' = [provider EXCEPT ![x].status = "authenticated"]
     \/ /\ provider[x].kind = "sub" /\ provider[x].status \in {"created", "authenticated"}
        /\ provider' = [provider EXCEPT ![x].status = "active", ![x].charged = TRUE]
     \/ /\ provider[x].kind = "order" /\ provider[x].status = "created"
        /\ provider' = [provider EXCEPT ![x].status = "paid", ![x].charged = TRUE]
  /\ approved' = approved \cup {x}
  /\ UNCHANGED <<month, plan, subscription, replica, ledger, billCall, granted>>

\* A subscription ends at the provider; the webhook handler ignores the event.
EndAtProvider(x) ==
  /\ provider[x].kind = "sub" /\ provider[x].status \in {"authenticated", "active"}
  /\ provider' = [provider EXCEPT ![x].status = "cancelled"]
  /\ UNCHANGED <<month, plan, subscription, replica, ledger, approved, billCall, granted>>

\* What a webhook about x carries: the notes that survive, the id the handler
\* takes for the order, and the payment.  A payment made for a subscription
\* names the invoice's order and has no notes of its own.
Webhooks(x) ==
  LET sub == provider[x].kind = "sub"
      paid == provider[x].charged IN
  (IF sub THEN {[notes |-> TRUE, id |-> x, payment |-> NoOne]} ELSE {})
  \cup (IF sub /\ paid THEN {[notes |-> TRUE, id |-> Invoice(x), payment |-> x]} ELSE {})
  \cup (IF paid THEN {[notes |-> FALSE, id |-> IF sub THEN Invoice(x) ELSE x, payment |-> x]}
        ELSE {})
  \cup (IF ~sub /\ paid THEN {[notes |-> TRUE, id |-> x, payment |-> x]} ELSE {})

(***************************************************************************)
(* checkout: create at the provider, then remember the id.                 *)
(***************************************************************************)

\* createRazorpaySubscription, or createRazorpayOrder when that fails.
Checkout(c, x, p) ==
  /\ BillFree(c) /\ provider[x] = NoObject
  /\ \E kind \in {"sub", "order"} :
       provider' = [provider EXCEPT ![x] = [kind |-> kind, plan |-> p, status |-> "created",
                                            charged |-> FALSE]]
  /\ billCall' = [billCall EXCEPT ![c] = [BillIdle EXCEPT !.pc = "save", !.id = x]]
  /\ UNCHANGED <<month, plan, subscription, replica, ledger, approved, granted>>

SaveCheckout(c) ==
  /\ billCall[c].pc = "save"
  /\ SetTenantSubscription(billCall[c].id, month + 1)
  /\ BillEnds(c)
  /\ UNCHANGED <<month, plan, replica, ledger, billProvider, granted>>

(***************************************************************************)
(* Webhooks: three statements, none of them in a common transaction.       *)
(***************************************************************************)

WebhookPlan(w, x) == IF w.notes THEN provider[x].plan ELSE "pro"

OnPaymentSuccess(c, x, w) ==
  /\ BillFree(c) /\ x \in approved /\ w \in Webhooks(x)
  /\ w.notes \/ replica.subscription.id = w.id   \* ResolveTenantByStripeSubscription
  /\ billCall' = [billCall EXCEPT ![c] = [pc |-> "activate", id |-> w.id,
                                          plan |-> WebhookPlan(w, x), payment |-> w.payment]]
  /\ UNCHANGED <<month, plan, subscription, replica, ledger, billProvider, granted>>

ActivateSubscription(c) ==
  /\ billCall[c].pc = "activate"
  /\ SetTenantSubscription(billCall[c].id, month + 1)
  /\ billCall' = [billCall EXCEPT ![c].pc = "grant", ![c].id = NoOne]
  /\ UNCHANGED <<month, plan, replica, ledger, billProvider, granted>>

GrantPlan(c) ==
  /\ billCall[c].pc = "grant"
  /\ plan' = billCall[c].plan
  /\ billCall' = [billCall EXCEPT ![c].pc = "book", ![c].plan = "free"]
  /\ UNCHANGED <<month, subscription, replica, ledger, billProvider, granted>>

\* CreateTransaction: an upsert on the payment's id.  A webhook that carries no
\* payment books a row too: its id is "" and its amount 0.
Book(c) ==
  /\ billCall[c].pc = "book"
  /\ ledger' = ledger \cup {[payment |-> billCall[c].payment, status |-> "succeeded"]}
  /\ BillEnds(c)
  /\ UNCHANGED <<month, plan, subscription, replica, billProvider, granted>>

\* A failed attempt only enters the ledger.
OnPaymentFailed(c, x) ==
  /\ BillFree(c) /\ provider[x].kind # "none"
  /\ ledger' = ledger \cup {[payment |-> x, status |-> "failed"]}
  /\ UNCHANGED <<month, plan, subscription, replica, billProvider, billCall, granted>>

(***************************************************************************)
(* GetTenantPlan, called by every handler that needs the plan: it reads,   *)
(* and downgrades an expired pro plan without looking again.               *)
(***************************************************************************)

ReadPlan(c) ==
  /\ \/ BillFree(c)
     \/ billCall[c].pc = "compare"
  /\ \/ /\ Expired
        /\ BillGoes(c, IF BillFree(c) THEN "downgrade" ELSE "downgradesync")
     \/ /\ ~Expired
        /\ billCall[c].pc = "compare"
        /\ IF replica.plan = billCall[c].plan THEN BillEnds(c) ELSE BillGoes(c, "sync")
  /\ UNCHANGED <<month, plan, subscription, replica, ledger, billProvider, granted>>

DowngradeExpired(c) ==
  /\ billCall[c].pc \in {"downgrade", "downgradesync"}
  /\ plan' = "free"
  /\ IF billCall[c].pc = "downgradesync" /\ billCall[c].plan # "free"
     THEN BillGoes(c, "sync") ELSE BillEnds(c)
  /\ UNCHANGED <<month, subscription, replica, ledger, billProvider, granted>>

(***************************************************************************)
(* The billing page's goroutine: ask the provider about the id that the    *)
(* request read, compare with the plan, write the difference.              *)
(***************************************************************************)

StartSync(c) ==
  /\ BillFree(c) /\ replica.subscription.id # NoOne
  /\ billCall' = [billCall EXCEPT ![c] = [BillIdle EXCEPT !.pc = "fetch",
                                                          !.id = replica.subscription.id]]
  /\ UNCHANGED <<month, plan, subscription, replica, ledger, billProvider, granted>>

\* Mutant: a subscription that was only created counts as paid.
ProviderPlanUnpaid(id) ==
  IF id \notin Objects THEN NoOne
  ELSE IF provider[id].status = "cancelled" THEN "free" ELSE provider[id].plan

\* The plan the provider's answer calls for: "" when it calls for none.  An
\* invoice's order carries no notes, a promotion is unknown to the provider.
ProviderPlan(id) ==
  IF id \notin Objects THEN NoOne
  ELSE CASE provider[id].status \in {"active", "authenticated", "paid"} -> provider[id].plan
         [] provider[id].status = "cancelled" -> "free"
         [] OTHER -> NoOne

SyncRazorpayTenantSubscription(c) ==
  /\ billCall[c].pc = "fetch"
  /\ LET p == ProviderPlan(billCall[c].id) IN
     IF p = NoOne THEN BillEnds(c)
     ELSE billCall' = [billCall EXCEPT ![c] = [BillIdle EXCEPT !.pc = "compare", !.plan = p]]
  /\ UNCHANGED <<month, plan, subscription, replica, ledger, billProvider, granted>>

ApplySync(c) ==
  /\ billCall[c].pc = "sync"
  /\ plan' = billCall[c].plan
  /\ BillEnds(c)
  /\ UNCHANGED <<month, subscription, replica, ledger, billProvider, granted>>

(***************************************************************************)
(* cancelSubscription: the provider, then the columns, then the plan.      *)
(***************************************************************************)

IsLive(id) == id \in Objects /\ provider[id].kind = "sub"    \* the "sub_" prefix

\* The provider refuses to cancel a subscription twice.
CancelRazorpaySubscription(id) ==
  /\ provider[id].status # "cancelled"
  /\ provider' = [provider EXCEPT ![id].status = "cancelled"]

CancelSubscription(c) ==
  /\ BillFree(c) /\ replica.subscription.id # NoOne
  /\ LET id == replica.subscription.id IN
     \/ IsLive(id) /\ CancelRazorpaySubscription(id)
     \/ ~IsLive(id) /\ UNCHANGED provider
  /\ BillGoes(c, "cancel")
  /\ UNCHANGED <<month, plan, subscription, replica, ledger, approved, granted>>

ClearSubscription(c) ==
  /\ billCall[c].pc = "cancel"
  /\ SetTenantSubscription(NoOne, month)
  /\ BillGoes(c, "cancelplan")
  /\ UNCHANGED <<month, plan, replica, ledger, billProvider, granted>>

DowngradeCancelled(c) ==
  /\ billCall[c].pc = "cancelplan"
  /\ plan' = "free"
  /\ BillEnds(c)
  /\ UNCHANGED <<month, subscription, replica, ledger, billProvider, granted>>

\* A statement fails or the instance stops; what was written stays.
BillDies(c) ==
  /\ ~BillFree(c)
  /\ BillEnds(c)
  /\ UNCHANGED <<month, plan, subscription, replica, ledger, billProvider, granted>>

(***************************************************************************)
(* The administrator.                                                      *)
(***************************************************************************)

SetTenantPlan(p) ==
  /\ granted.count < MaxGrants
  /\ plan' = p /\ subscription' = NoSubscription
  /\ granted' = [plans |-> granted.plans \cup {p}, count |-> granted.count + 1]
  /\ UNCHANGED <<month, replica, ledger, billProvider, billCall>>

SetTenantPlanPromo ==
  /\ granted.count < MaxGrants
  /\ plan' = "pro"
  /\ subscription' = [id |-> Promo, end |-> month + 1]
  /\ granted' = [plans |-> granted.plans \cup {"pro"}, count |-> granted.count + 1]
  /\ UNCHANGED <<month, replica, ledger, billProvider, billCall>>

BillTick ==
  /\ month < MaxMonth
  /\ month' = month + 1
  /\ UNCHANGED <<plan, subscription, replica, ledger, billProvider, billCall, granted>>

BillingNext ==
  \/ \E c \in Callers :
       \/ \E x \in Objects :
            \/ \E p \in {"pro", "team"} : Checkout(c, x, p)
            \/ \E w \in Webhooks(x) : OnPaymentSuccess(c, x, w)
            \/ OnPaymentFailed(c, x)
       \/ SaveCheckout(c) \/ ActivateSubscription(c) \/ GrantPlan(c) \/ Book(c)
       \/ ReadPlan(c) \/ DowngradeExpired(c)
       \/ StartSync(c) \/ SyncRazorpayTenantSubscription(c) \/ ApplySync(c)
       \/ CancelSubscription(c) \/ ClearSubscription(c) \/ DowngradeCancelled(c)
       \/ BillDies(c)
  \/ \E x \in Objects : Approve(x) \/ EndAtProvider(x)
  \/ \E p \in {"free", "team"} : SetTenantPlan(p)
  \/ SetTenantPlanPromo
  \/ Replicate
  \/ BillTick

BillingSpec == BillingInit /\ [][BillingNext]_billVars

-----------------------------------------------------------------------------

\* Type correctness of the billing columns and of the handlers' state.
BillingTypeOK ==
  /\ month \in 0..MaxMonth /\ plan \in {"free", "pro", "team"}
  /\ subscription.id \in Objects \cup {Invoice(x) : x \in Objects} \cup {NoOne, Promo}
  /\ subscription.end \in 0..(MaxMonth + 1) \cup {NoEnd}
  /\ ledger \subseteq [payment : Objects \cup {NoOne}, status : {"succeeded", "failed"}]
  /\ approved \subseteq Objects
  /\ \A c \in Callers : billCall[c].plan \in {"free", "pro", "team"}

\* Nobody gets a paid plan for nothing: whatever the order of checkouts,
\* duplicate or late webhooks, background synchronisations, cancellations and
\* expiries, and however far the read pool lags, the tenant is on "team" only if a
\* team checkout was authorised at the provider or an administrator granted it, on
\* "pro" only if something was; a payment is booked as succeeded only if it was
\* charged, and the row without a payment only after something was authorised.
NoFreeUpgrade ==
  /\ BillingTypeOK
  /\ plan = "team" => \/ "team" \in granted.plans
                      \/ \E x \in approved : provider[x].plan = "team"
  /\ plan = "pro" => approved # {} \/ "pro" \in granted.plans
  /\ \A b \in ledger : b.status = "succeeded" =>
       IF b.payment = NoOne THEN approved # {} ELSE provider[b.payment].charged

\* cancelSubscription: "Cancel subscription on Razorpay if it's a live
\* subscription".  When a tenant's cancellation has cleared the subscription
\* columns, no subscription that the customer pays for is still active at the
\* provider.  The code does not keep this: a charge webhook replaces the stored
\* subscription id by the id of the invoice's order, which is not cancelled.
CancelStopsCharging ==
  subscription.id = NoOne /\ subscription.end # NoEnd /\ (\A c \in Callers : BillFree(c))
    => \A x \in Objects : provider[x].status # "active"

=============================================================================

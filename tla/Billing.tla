------------------------------ MODULE Billing ------------------------------
(* Billing: the customer that a checkout or portal call ensures             *)
(* (src/src/billing/billing.service.ts) and the webhook handler that syncs  *)
(* subscriptions from Stripe (src/src/billing/webhook.service.ts), against  *)
(* Stripe itself, modelled from how stripe.gateway.ts uses it: it remembers *)
(* customers and subscriptions, emits an event at each change, and delivers *)
(* an event any number of times, in any order, until it is answered 2xx     *)
(* and possibly after.                                                      *)
EXTENDS Integers

CONSTANTS
    Orgs, Customers, Subs, Events,
    Foreign,        \* customers of the Stripe account that are not ours
    Calls,          \* checkout and portal requests in flight
    Hooks,          \* webhook requests in flight
    Statuses,       \* the Stripe subscription statuses considered
    Plans,          \* plan names a price may carry
    MaxVersion,     \* bound: changes of one subscription at Stripe
    None

ASSUME BillingAssumptions ==
    /\ MaxVersion \in Nat
    /\ Foreign \subseteq Customers
    /\ "active" \in Statuses
    /\ None \notin Orgs \cup Customers \cup Subs \cup Events \cup Calls \cup Statuses \cup Plans

VARIABLES
    madeFor,    \* Stripe: [Customers -> Orgs \cup {None}], metadata.tenant_id
    sub,        \* Stripe: [Subs -> Snapshot], the current object
    event,      \* Stripe: [Events -> Event \cup {None}]
    acked,      \* Stripe: events answered with 2xx
    sessions,   \* Stripe: customers with a checkout session
    customer,   \* [Orgs -> Customers \cup {None}]: stripe_customer_id
    plan,       \* [Orgs -> Plans \cup {"free"}]: organizations.plan
    lock,       \* [Orgs -> Calls \cup {None}]: holder of FOR UPDATE
    ledger,     \* SUBSET Events: processed_webhooks
    row,        \* [Subs -> Row \cup {None}]: subscriptions
    call,       \* [Calls -> [step, org, cust]]
    hook,       \* [Hooks -> [step, event, snap, org, plan]]
    applied     \* history: [Events -> Nat], syncs committed for an event

stripeVars == <<madeFor, sub, event, acked, sessions>>
dbVars     == <<customer, plan, lock, ledger, row>>
vars       == <<stripeVars, dbVars, call, hook, applied>>

\* What getSubscription returns; ver counts the changes made at Stripe.
Snapshot == [cust : Customers \cup {None}, status : Statuses,
             plan : Plans \cup {None}, ver : 0 .. MaxVersion]
NoSub    == [cust |-> None, status |-> "active", plan |-> None, ver |-> 0]

\* An event names a subscription, or nothing of interest: an irrelevant type,
\* or an invoice that belongs to no subscription.
Event == [sub : Subs \cup {None}, snap : Snapshot]

\* mapStatus.
MappedStatus(st) ==
    CASE st = "unpaid" -> "past_due"
      [] st = "incomplete_expired" -> "canceled"
      [] OTHER -> st

\* A subscriptions row; top (history) is the newest version it has ever held.
Row     == [status : {MappedStatus(st) : st \in Statuses}, plan : Plans \cup {"free"},
            ver : 0 .. MaxVersion, top : 0 .. MaxVersion]

\* What an event says, seen from the rows: a version of a subscription of ours.
Notice == [sub : Subs \cup {None}, ver : 0 .. MaxVersion]

ASSUME NoneIsNoRecord == None \notin Row \cup Event \cup Notice

\* A call between its steps, and a delivery.
Call == [step : {"idle", "create", "store", "session"},
         org : Orgs \cup {None}, cust : Customers \cup {None}]
Hook == [step : {"idle", "fetched", "claimed"}, event : Events \cup {None}, snap : Snapshot,
         org : Orgs \cup {None}, plan : Plans \cup {"free"}]

IdleCall == [step |-> "idle", org |-> None, cust |-> None]
IdleHook == [step |-> "idle", event |-> None, snap |-> NoSub, org |-> None, plan |-> "free"]

TypeOK ==
    /\ madeFor \in [Customers -> Orgs \cup {None}]
    /\ sub \in [Subs -> Snapshot]
    /\ event \in [Events -> Event \cup {None}]
    /\ acked \in SUBSET Events
    /\ sessions \in SUBSET Customers
    /\ customer \in [Orgs -> Customers \cup {None}]
    /\ plan \in [Orgs -> Plans \cup {"free"}]
    /\ lock \in [Orgs -> Calls \cup {None}]
    /\ ledger \in SUBSET Events
    /\ row \in [Subs -> Row \cup {None}]
    /\ call \in [Calls -> Call]
    /\ hook \in [Hooks -> Hook]
    /\ applied \in [Events -> Nat]

Init ==
    /\ madeFor = [c \in Customers |-> None]
    /\ sub = [s \in Subs |-> NoSub]
    /\ event = [e \in Events |-> None]
    /\ acked = {} /\ sessions = {} /\ ledger = {}
    /\ customer = [o \in Orgs |-> None]
    /\ plan = [o \in Orgs |-> "free"]
    /\ lock = [o \in Orgs |-> None]
    /\ row = [s \in Subs |-> None]
    /\ call = [k \in Calls |-> IdleCall]
    /\ hook = [h \in Hooks |-> IdleHook]
    /\ applied = [e \in Events |-> 0]

-----------------------------------------------------------------------------
(* ensureCustomer, then the session it is for.                              *)

\* Mutant of LockOrg: a SELECT without FOR UPDATE.
LockOrgNot(k, o) ==
    /\ call[k].step = "idle"
    /\ call' = [call EXCEPT ![k] =
                    [step |-> IF customer[o] # None THEN "session" ELSE "create",
                     org |-> o, cust |-> customer[o]]]
    /\ UNCHANGED <<stripeVars, dbVars, hook, applied>>

\* SELECT ... FOR UPDATE waits for the row, then shows its current customer:
\* present, the transaction commits; absent, it stays open for createCustomer.
LockOrg(k, o) ==
    /\ call[k].step = "idle"
    /\ lock[o] = None
    /\ IF customer[o] # None
       THEN /\ call' = [call EXCEPT ![k] =
                            [step |-> "session", org |-> o, cust |-> customer[o]]]
            /\ UNCHANGED lock
       ELSE /\ call' = [call EXCEPT ![k] = [step |-> "create", org |-> o, cust |-> None]]
            /\ lock' = [lock EXCEPT ![o] = k]
    /\ UNCHANGED <<stripeVars, customer, plan, ledger, row, hook, applied>>

\* stripe.createCustomer, with the row locked and the transaction open.
CreateCustomer(k, c) ==
    /\ call[k].step = "create"
    /\ madeFor[c] = None
    /\ c \notin Foreign
    /\ madeFor' = [madeFor EXCEPT ![c] = call[k].org]
    /\ call' = [call EXCEPT ![k].step = "store", ![k].cust = c]
    /\ UNCHANGED <<sub, event, acked, sessions, dbVars, hook, applied>>

\* UPDATE ... WHERE stripe_customer_id IS NULL; COMMIT.
StoreCustomer(k) ==
    LET o == call[k].org IN
    /\ call[k].step = "store"
    /\ customer' = [customer EXCEPT ![o] = IF @ = None THEN call[k].cust ELSE @]
    /\ lock' = [x \in Orgs |-> IF lock[x] = k THEN None ELSE lock[x]]
    /\ call' = [call EXCEPT ![k].step = "session"]
    /\ UNCHANGED <<stripeVars, plan, ledger, row, hook, applied>>

\* createCheckoutSession (or a portal session) for the customer ensured.
OpenSession(k) ==
    /\ call[k].step = "session"
    /\ sessions' = sessions \cup {call[k].cust}
    /\ call' = [call EXCEPT ![k] = IdleCall]
    /\ UNCHANGED <<madeFor, sub, event, acked, dbVars, hook, applied>>

\* Mutant of FailCall: ROLLBACK is missing.
FailCallKeepsLock(k) ==
    /\ call[k].step # "idle"
    /\ call' = [call EXCEPT ![k] = IdleCall]
    /\ UNCHANGED <<stripeVars, dbVars, hook, applied>>

\* Stripe or the database fails, or the process dies: ROLLBACK.  A customer
\* made at Stripe stays there.
FailCall(k) ==
    /\ call[k].step # "idle"
    /\ lock' = [x \in Orgs |-> IF lock[x] = k THEN None ELSE lock[x]]
    /\ call' = [call EXCEPT ![k] = IdleCall]
    /\ UNCHANGED <<stripeVars, customer, plan, ledger, row, hook, applied>>

-----------------------------------------------------------------------------
(* Stripe.                                                                  *)

\* A customer of ours completes a checkout, one of another product of the same
\* account subscribes to that, or a subscription changes: one event.
StripeChange(s, c, st, pl, e) ==
    LET new == [cust |-> c, status |-> st, plan |-> pl, ver |-> sub[s].ver + 1] IN
    /\ IF sub[s].cust = None THEN c \in sessions \cup Foreign ELSE c = sub[s].cust
    /\ sub[s].ver < MaxVersion
    /\ event[e] = None
    /\ sub' = [sub EXCEPT ![s] = new]
    /\ event' = [event EXCEPT ![e] = [sub |-> s, snap |-> new]]
    /\ UNCHANGED <<madeFor, acked, sessions, dbVars, call, hook, applied>>

\* Something else happens that Stripe has an event for.
OtherEvent(e) ==
    /\ event[e] = None
    /\ event' = [event EXCEPT ![e] = [sub |-> None, snap |-> NoSub]]
    /\ UNCHANGED <<madeFor, sub, acked, sessions, dbVars, call, hook, applied>>

-----------------------------------------------------------------------------
(* processWebhookEvent, for a delivery whose signature verifies.            *)

\* Irrelevant, or about no subscription: recordOnly, 200.
RecordOnly(h, e) ==
    /\ hook[h].step = "idle"
    /\ event[e] # None
    /\ event[e].sub = None
    /\ ledger' = ledger \cup {e}
    /\ acked' = acked \cup {e}
    /\ UNCHANGED <<madeFor, sub, event, sessions, customer, plan, lock, row, call, hook, applied>>

\* Mutant of Refetched: the object in the event's payload is used.
RefetchedPayload(e) == event[e].snap

\* What stripe.getSubscription answers for the event: the current object.
Refetched(e) == sub[event[e].sub]

\* The refetch, before the transaction.
Refetch(h, e) ==
    /\ hook[h].step = "idle"
    /\ event[e] # None
    /\ event[e].sub # None
    /\ hook' = [hook EXCEPT ![h] = [IdleHook EXCEPT !.step = "fetched", !.event = e,
                                                    !.snap = Refetched(e)]]
    /\ UNCHANGED <<stripeVars, dbVars, call, applied>>

\* The event is in the ledger: ROLLBACK, "duplicate", 200.
Duplicate(h) ==
    /\ hook[h].step = "fetched"
    /\ hook[h].event \in ledger
    /\ hook' = [hook EXCEPT ![h] = IdleHook]
    /\ acked' = acked \cup {hook[h].event}
    /\ UNCHANGED <<madeFor, sub, event, sessions, dbVars, call, applied>>

\* Mutant of Claimable: the ledger's answer is not looked at.
ClaimableAgain(h) ==
    \A g \in Hooks : hook[g].step = "claimed" => hook[g].event # hook[h].event

\* The ledger insert waits while another transaction holds the same event_id.
Claimable(h) ==
    /\ hook[h].event \notin ledger
    /\ \A g \in Hooks : hook[g].step = "claimed" => hook[g].event # hook[h].event

\* The customer belongs to no organisation: the ledger row commits alone, 200.
Ignore(h) ==
    /\ hook[h].step = "fetched"
    /\ Claimable(h)
    /\ \A o \in Orgs : customer[o] # hook[h].snap.cust
    /\ ledger' = ledger \cup {hook[h].event}
    /\ acked' = acked \cup {hook[h].event}
    /\ hook' = [hook EXCEPT ![h] = IdleHook]
    /\ UNCHANGED <<madeFor, sub, event, sessions, customer, plan, lock, row, call, applied>>

\* The ledger row is in, uncommitted, and the organisation and its plan are read.
Claim(h, o) ==
    /\ hook[h].step = "fetched"
    /\ Claimable(h)
    /\ customer[o] = hook[h].snap.cust
    /\ hook' = [hook EXCEPT ![h].step = "claimed", ![h].org = o, ![h].plan = plan[o]]
    /\ UNCHANGED <<stripeVars, dbVars, call, applied>>

\* mapped.plan ?? sub.items.plan ?? org.plan
NewPlan(snap, current) ==
    IF MappedStatus(snap.status) = "canceled" THEN "free"
    ELSE IF snap.plan # None THEN snap.plan ELSE current

\* The newest version that a row has held once version v is written.
Newest(s, v) == IF row[s] # None /\ row[s].top > v THEN row[s].top ELSE v

\* Mutant of Sync: organizations.plan is not updated.
SyncRowOnly(h) ==
    LET e == hook[h].event
        x == hook[h].snap
    IN
    /\ hook[h].step = "claimed"
    /\ ledger' = ledger \cup {e}
    /\ row' = [row EXCEPT ![event[e].sub] =
                    [status |-> MappedStatus(x.status),
                     plan |-> NewPlan(x, hook[h].plan), ver |-> x.ver,
                     top |-> Newest(event[e].sub, x.ver)]]
    /\ acked' = acked \cup {e}
    /\ applied' = [applied EXCEPT ![e] = @ + 1]
    /\ hook' = [hook EXCEPT ![h] = IdleHook]
    /\ UNCHANGED <<madeFor, sub, event, sessions, customer, plan, lock, call>>

\* The upsert, the plan and the audit row; COMMIT with the ledger row; 200.
Sync(h) ==
    LET e == hook[h].event
        x == hook[h].snap
        p == NewPlan(x, hook[h].plan)
    IN
    /\ hook[h].step = "claimed"
    /\ ledger' = ledger \cup {e}
    /\ row' = [row EXCEPT ![event[e].sub] =
                    [status |-> MappedStatus(x.status), plan |-> p, ver |-> x.ver,
                     top |-> Newest(event[e].sub, x.ver)]]
    /\ plan' = [plan EXCEPT ![hook[h].org] = p]
    /\ acked' = acked \cup {e}
    /\ applied' = [applied EXCEPT ![e] = @ + 1]
    /\ hook' = [hook EXCEPT ![h] = IdleHook]
    /\ UNCHANGED <<madeFor, sub, event, sessions, customer, lock, call>>

\* Mutant of FailHook: the ledger row commits before the sync does.
FailHookKeepsLedger(h) ==
    /\ hook[h].step # "idle"
    /\ ledger' = IF hook[h].step = "claimed" THEN ledger \cup {hook[h].event} ELSE ledger
    /\ hook' = [hook EXCEPT ![h] = IdleHook]
    /\ UNCHANGED <<stripeVars, customer, plan, lock, row, call, applied>>

\* Stripe or the database fails, or the process dies: nothing is recorded, the
\* answer is not 2xx and Stripe will deliver the event again.
FailHook(h) ==
    /\ hook[h].step # "idle"
    /\ hook' = [hook EXCEPT ![h] = IdleHook]
    /\ UNCHANGED <<stripeVars, dbVars, call, applied>>

Deliver(h, e) == RecordOnly(h, e) \/ Refetch(h, e)
Begin(h) == Duplicate(h) \/ Ignore(h) \/ \E o \in Orgs : Claim(h, o)

Next ==
    \/ \E k \in Calls :
        \/ \E o \in Orgs : LockOrg(k, o)
        \/ \E c \in Customers : CreateCustomer(k, c)
        \/ StoreCustomer(k) \/ OpenSession(k) \/ FailCall(k)
    \/ \E s \in Subs, c \in Customers, st \in Statuses, pl \in Plans \cup {None}, e \in Events :
            StripeChange(s, c, st, pl, e)
    \/ \E e \in Events : OtherEvent(e)
    \/ \E h \in Hooks :
        \/ \E e \in Events : Deliver(h, e)
        \/ Begin(h) \/ Sync(h) \/ FailHook(h)

Spec == Init /\ [][Next]_vars

(* Fairness.  Stripe keeps redelivering an event until it is acknowledged,   *)
(* and the deliveries of an event do not fail for ever.                      *)
FairSpec ==
    /\ Spec
    /\ \A e \in Events :
        /\ SF_vars(e \notin acked /\ \E h \in Hooks : Deliver(h, e))
        /\ SF_vars(\E h \in Hooks : hook[h].event = e /\ Begin(h))
        /\ SF_vars(\E h \in Hooks : hook[h].event = e /\ Sync(h))

-----------------------------------------------------------------------------
(* Properties.                                                              *)

\* A checkout or portal session is only ever opened for the customer that the
\* database holds for the organisation, whatever calls race and fail (R9.1):
\* otherwise the subscription it leads to would belong to nobody.
SessionsArePersisted ==
    \A c \in sessions : madeFor[c] # None /\ customer[madeFor[c]] = c

\* So no event of a subscription of ours is ever dropped as being of an unknown
\* customer: every recorded one has been synced, exactly once, and nobody
\* else's is (R10.3).
Ours(e) == event[e] # None /\ event[e].sub # None /\ event[e].snap.cust \notin Foreign

RecordedOnceSyncedOnce ==
    \A e \in Events : applied[e] = IF e \in ledger /\ Ours(e) THEN 1 ELSE 0

\* 2xx is answered only for what the ledger holds: an event that Stripe stops
\* redelivering is never lost.
AckedIsRecorded == acked \subseteq ledger

\* Who holds the row of an organisation while it has no customer yet, and what
\* a call knows of the customer it is about to store or to use.
LocksMatchCalls ==
    /\ \A k \in Calls : call[k].step \in {"create", "store"} =>
            call[k].org \in Orgs /\ lock[call[k].org] = k /\ customer[call[k].org] = None
    /\ \A o \in Orgs : lock[o] \in Calls =>
            call[lock[o]].org = o /\ call[lock[o]].step \in {"create", "store"}

CustomersMatchCalls ==
    /\ \A k \in Calls : call[k].step \in {"store", "session"} =>
            call[k].cust \in Customers /\ call[k].org \in Orgs /\ madeFor[call[k].cust] = call[k].org
    /\ \A k \in Calls : call[k].step = "session" => customer[call[k].org] = call[k].cust
    /\ \A o \in Orgs : customer[o] # None => madeFor[customer[o]] = o
    /\ \A c \in Foreign : madeFor[c] = None

\* An event names the customer of its subscription, who came by a session of
\* ours or is foreign; that customer never changes.
EventsNameCustomers ==
    /\ \A s \in Subs : sub[s].cust # None => sub[s].cust \in sessions \cup Foreign
    /\ \A e \in Events : event[e] # None /\ event[e].sub # None =>
            event[e].snap.cust # None /\ event[e].snap.cust = sub[event[e].sub].cust

\* A delivery in hand is of an event that exists; one that has claimed it holds
\* it alone, unrecorded, for the organisation of its customer.
HooksHoldEvents ==
    /\ \A e \in ledger : event[e] # None
    /\ \A h \in Hooks : hook[h].step # "idle" =>
            LET e == hook[h].event IN
            /\ e \in Events /\ event[e] # None /\ event[e].sub # None
            /\ hook[h].snap.cust = event[e].snap.cust
    /\ \A h \in Hooks : hook[h].step = "claimed" =>
            /\ hook[h].event \notin ledger
            /\ hook[h].org \in Orgs /\ customer[hook[h].org] = hook[h].snap.cust
            /\ \A g \in Hooks \ {h} : hook[g].step = "claimed" => hook[g].event # hook[h].event

\* The strengthening that makes SessionsArePersisted, AckedIsRecorded and
\* RecordedOnceSyncedOnce inductive.
IInv ==
    /\ TypeOK
    /\ LocksMatchCalls /\ CustomersMatchCalls /\ SessionsArePersisted
    /\ EventsNameCustomers /\ HooksHoldEvents
    /\ AckedIsRecorded /\ RecordedOnceSyncedOnce

\* No row, and no snapshot in hand, is ahead of Stripe: what a delivery refetches
\* is at least as new as the row it finds then.
RowsAreNotAhead ==
    /\ \A s \in Subs : row[s] # None => row[s].ver <= row[s].top /\ row[s].top <= sub[s].ver
    /\ \A h \in Hooks : hook[h].step # "idle" =>
            hook[h].snap.ver <= sub[event[hook[h].event].sub].ver

\* Every state that Stripe has given a subscription has its event, and what a
\* delivery refetches is at least as new as the event it is for.
EventsTell ==
    /\ \A e \in Events : event[e] # None /\ event[e].sub # None =>
            1 <= event[e].snap.ver /\ event[e].snap.ver <= sub[event[e].sub].ver
    /\ \A s \in Subs : sub[s].ver > 0 =>
            \E e \in Events : event[e] # None /\ event[e].sub = s /\ event[e].snap = sub[s]
    /\ \A h \in Hooks : hook[h].step # "idle" =>
            event[hook[h].event].snap.ver <= hook[h].snap.ver

\* The row of a recorded event has held its state, or a later one.
RecordedIsReflected ==
    \A e \in ledger : Ours(e) =>
        row[event[e].sub] # None /\ event[e].snap.ver <= row[event[e].sub].top

\* The strengthening that makes RowsAreNotAhead, RecordedIsCurrent and
\* ImplementsSync inductive, over IInv.
SyncInv == RowsAreNotAhead /\ EventsTell /\ RecordedIsReflected

\* Nothing is missed: once every event of a subscription of ours is recorded,
\* its row has held Stripe's last state, in whatever order the events came and
\* whatever deliveries of them failed (R10.3, R10.5).
RecordedIsCurrent ==
    \A s \in Subs :
        /\ sub[s].ver > 0 /\ sub[s].cust \notin Foreign
        /\ \A e \in Events : event[e] # None /\ event[e].sub = s => e \in ledger
        => row[s] # None /\ row[s].top = sub[s].ver

\* While an organisation has one subscription, its plan is the one the row
\* shows, and free when that row is canceled (R9.3, R10.6).
PlanFollowsRow ==
    \A s \in Subs : row[s] # None =>
        /\ plan[madeFor[sub[s].cust]] = row[s].plan
        /\ row[s].status = "canceled" => row[s].plan = "free"

\* The database never holds an older state of a subscription than it held
\* before: out-of-order delivery does not regress it (R10.4).  True of one
\* delivery at a time, false of two.
NoRegress ==
    [][\A s \in Subs : row[s] # None => row'[s].ver >= row[s].ver]_row

\* No two deliveries of different events about one subscription are in hand.
Apart ==
    \A g, h \in Hooks :
        /\ hook[g].step # "idle" /\ hook[h].step # "idle"
        /\ hook[g].event # hook[h].event
        => event[hook[g].event].sub # event[hook[h].event].sub

\* The row of every subscription of ours shows what Stripe has.
UpToDate ==
    \A s \in Subs : sub[s].ver > 0 /\ sub[s].cust \notin Foreign =>
        row[s] # None /\ row[s].ver = sub[s].ver

\* When Stripe changes nothing more, redelivery brings the rows to Stripe's last
\* state and they stay there (R10.4), in whatever order the events come, whatever
\* deliveries fail, come twice or overlap one of the same event: as long as no
\* two of different events of a subscription overlap, which NoRegress is about.
Converges == []Apart => <>[]UpToDate

\* The deliveries, their refetches and transactions implement copies that take
\* over each event exactly once, with a state of Stripe no older than the event,
\* and events that are answered 2xx only then (R10.3, R10.4).  A change that is
\* not about a subscription of ours is nothing there.
About(e) == IF event[e] = None THEN None
            ELSE IF Ours(e) THEN [sub |-> event[e].sub, ver |-> event[e].snap.ver]
            ELSE [sub |-> None, ver |-> 0]

Copies == INSTANCE SubscriptionSync WITH
    latest <- [s \in Subs |-> IF sub[s].cust \in Foreign THEN 0 ELSE sub[s].ver],
    about <- [e \in Events |-> About(e)],
    done <- ledger,
    told <- acked,
    copy <- [s \in Subs |-> IF row[s] = None THEN 0 ELSE row[s].ver]

ImplementsSync == Copies!Spec
=============================================================================

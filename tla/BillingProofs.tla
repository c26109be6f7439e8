---------------------------- MODULE BillingProofs ----------------------------
(* Proofs about Billing, for any organisations, customers, subscriptions,   *)
(* events, concurrent calls and concurrent deliveries.                      *)
EXTENDS Billing, TLAPS

\* Nothing exists, nothing is in flight.
LEMMA InitIInv == Init => IInv
  <1> SUFFICES ASSUME Init PROVE IInv
    OBVIOUS
  <1> USE BillingAssumptions DEF Init, IdleCall, IdleHook, NoSub
  <1>1. TypeOK
    BY DEF TypeOK, Snapshot, Call, Hook
  <1>2. LocksMatchCalls /\ CustomersMatchCalls /\ SessionsArePersisted
    BY DEF LocksMatchCalls, CustomersMatchCalls, SessionsArePersisted
  <1>3. EventsNameCustomers /\ HooksHoldEvents
    BY DEF EventsNameCustomers, HooksHoldEvents
  <1>4. AckedIsRecorded /\ RecordedOnceSyncedOnce
    BY DEF AckedIsRecorded, RecordedOnceSyncedOnce
  <1> QED  BY <1>1, <1>2, <1>3, <1>4 DEF IInv

\* The plan and status that a sync writes are of the schema.
LEMMA NewPlanType ==
    ASSUME NEW x \in Snapshot, NEW p \in Plans \cup {"free"}
    PROVE  NewPlan(x, p) \in Plans \cup {"free"} /\ MappedStatus(x.status) \in {MappedStatus(st) : st \in Statuses}
  BY BillingAssumptions DEF Snapshot, NewPlan

\* An event that finds no organisation is of a customer of another product: one
\* of ours is on record before the session that leads to the subscription opens.
LEMMA IgnoredIsForeign ==
    ASSUME IInv, NEW h \in Hooks, Ignore(h)
    PROVE  ~Ours(hook[h].event)
  <1> DEFINE e == hook[h].event
  <1>0. TypeOK /\ HooksHoldEvents /\ EventsNameCustomers /\ SessionsArePersisted
    BY DEF IInv
  <1>1. /\ e \in Events /\ event[e] # None /\ event[e].sub # None
        /\ hook[h].snap.cust = event[e].snap.cust
        /\ \A o \in Orgs : customer[o] # hook[h].snap.cust
    BY <1>0 DEF HooksHoldEvents, Ignore
  <1>2. event[e].snap.cust \in Foreign
    BY <1>0, <1>1, BillingAssumptions
    DEF TypeOK, Snapshot, Event, EventsNameCustomers, SessionsArePersisted
  <1> QED  BY <1>2 DEF Ours

\* The inductive step: every call, change at Stripe and delivery keeps IInv.
LEMMA NextKeepsIInv == IInv /\ [Next]_vars => IInv'
  <1> SUFFICES ASSUME IInv, [Next]_vars PROVE IInv'
    OBVIOUS
  <1>0. /\ TypeOK /\ LocksMatchCalls /\ CustomersMatchCalls /\ SessionsArePersisted
        /\ EventsNameCustomers /\ HooksHoldEvents /\ AckedIsRecorded /\ RecordedOnceSyncedOnce
    BY DEF IInv
  <1>1. ASSUME NEW k \in Calls, NEW o \in Orgs, LockOrg(k, o) PROVE IInv'
    <2>1. TypeOK'
      <3>1. call' \in [Calls -> Call] /\ lock' \in [Orgs -> Calls \cup {None}]
        BY <1>0, <1>1 DEF TypeOK, Call, LockOrg
      <3> QED  BY <1>0, <1>1, <3>1 DEF TypeOK, LockOrg, stripeVars
    <2>2. LocksMatchCalls' /\ CustomersMatchCalls' /\ SessionsArePersisted'
      <3>1. CASE customer[o] # None
        <4>1. /\ call' = [call EXCEPT ![k] = [step |-> "session", org |-> o, cust |-> customer[o]]]
              /\ UNCHANGED <<lock, customer, madeFor, sessions>> /\ call[k].step = "idle"
          BY <1>1, <3>1 DEF LockOrg, stripeVars
        <4>2. LocksMatchCalls'
          BY <1>0, <4>1 DEF TypeOK, Call, LocksMatchCalls
        <4>3. CustomersMatchCalls' /\ SessionsArePersisted'
          BY <1>0, <3>1, <4>1 DEF TypeOK, Call, CustomersMatchCalls, SessionsArePersisted
        <4> QED  BY <4>2, <4>3
      <3>2. CASE customer[o] = None
        <4>1. /\ call' = [call EXCEPT ![k] = [step |-> "create", org |-> o, cust |-> None]]
              /\ lock' = [lock EXCEPT ![o] = k] /\ lock[o] = None
              /\ UNCHANGED <<customer, madeFor, sessions>> /\ call[k].step = "idle"
          BY <1>1, <3>2 DEF LockOrg, stripeVars
        <4>2. LocksMatchCalls'
          BY <1>0, <3>2, <4>1, BillingAssumptions DEF TypeOK, Call, LocksMatchCalls
        <4>3. CustomersMatchCalls' /\ SessionsArePersisted'
          BY <1>0, <3>2, <4>1 DEF TypeOK, Call, CustomersMatchCalls, SessionsArePersisted
        <4> QED  BY <4>2, <4>3
      <3> QED  BY <3>1, <3>2
    <2>3. EventsNameCustomers'
      BY <1>0, <1>1, BillingAssumptions
      DEF TypeOK, Snapshot, Event, Hook, EventsNameCustomers, LockOrg, stripeVars
    <2>4. HooksHoldEvents'
      BY <1>0, <1>1, BillingAssumptions
      DEF TypeOK, Snapshot, Event, Hook, LocksMatchCalls, EventsNameCustomers,
          HooksHoldEvents, LockOrg, stripeVars
    <2>5. AckedIsRecorded' /\ RecordedOnceSyncedOnce'
      BY <1>0, <1>1, BillingAssumptions
      DEF TypeOK, Snapshot, Event, Hook, CustomersMatchCalls, SessionsArePersisted,
          EventsNameCustomers,
          HooksHoldEvents, AckedIsRecorded, RecordedOnceSyncedOnce, Ours, LockOrg, stripeVars
    <2> QED  BY <2>1, <2>2, <2>3, <2>4, <2>5 DEF IInv
  <1>2. ASSUME NEW k \in Calls, NEW c \in Customers, CreateCustomer(k, c) PROVE IInv'
    <2>1. TypeOK'
      <3>1. [call[k] EXCEPT !.step = "store", !.cust = c] \in Call
        BY <1>0, <1>2 DEF TypeOK, Call
      <3>2. call' \in [Calls -> Call]
        BY <1>0, <1>2, <3>1 DEF TypeOK, CreateCustomer
      <3> QED  BY <1>0, <1>2, <3>2 DEF TypeOK, Call, CreateCustomer, dbVars
    <2>2. LocksMatchCalls' /\ CustomersMatchCalls' /\ SessionsArePersisted'
      BY <1>0, <1>2, BillingAssumptions
      DEF TypeOK, Call, LocksMatchCalls, CustomersMatchCalls, SessionsArePersisted,
          CreateCustomer, dbVars
    <2>3. EventsNameCustomers'
      BY <1>0, <1>2, BillingAssumptions
      DEF TypeOK, Snapshot, Event, Hook, EventsNameCustomers, CreateCustomer, dbVars
    <2>4. HooksHoldEvents'
      BY <1>0, <1>2, BillingAssumptions
      DEF TypeOK, Snapshot, Event, Hook, LocksMatchCalls, EventsNameCustomers,
          HooksHoldEvents, CreateCustomer, dbVars
    <2>5. AckedIsRecorded' /\ RecordedOnceSyncedOnce'
      BY <1>0, <1>2, BillingAssumptions
      DEF TypeOK, Snapshot, Event, Hook, CustomersMatchCalls, SessionsArePersisted,
          EventsNameCustomers,
          HooksHoldEvents, AckedIsRecorded, RecordedOnceSyncedOnce, Ours, CreateCustomer, dbVars
    <2> QED  BY <2>1, <2>2, <2>3, <2>4, <2>5 DEF IInv
  <1>3. ASSUME NEW k \in Calls, StoreCustomer(k) PROVE IInv'
    <2>1. TypeOK'
      <3>1. [call[k] EXCEPT !.step = "session"] \in Call
        BY <1>0, <1>3 DEF TypeOK, Call
      <3>2. call' \in [Calls -> Call]
        BY <1>0, <1>3, <3>1 DEF TypeOK, StoreCustomer
      <3>3. customer' \in [Orgs -> Customers \cup {None}] /\ lock' \in [Orgs -> Calls \cup {None}]
        BY <1>0, <1>3 DEF TypeOK, Call, StoreCustomer
      <3> QED  BY <1>0, <1>3, <3>2, <3>3 DEF TypeOK, StoreCustomer, stripeVars
    <2>2. LocksMatchCalls' /\ CustomersMatchCalls' /\ SessionsArePersisted'
      BY <1>0, <1>3, BillingAssumptions
      DEF TypeOK, Call, LocksMatchCalls, CustomersMatchCalls, SessionsArePersisted,
          StoreCustomer, stripeVars
    <2>3. EventsNameCustomers'
      BY <1>0, <1>3, BillingAssumptions
      DEF TypeOK, Snapshot, Event, Hook, EventsNameCustomers, StoreCustomer, stripeVars
    <2>4. HooksHoldEvents'
      BY <1>0, <1>3, BillingAssumptions
      DEF TypeOK, Snapshot, Event, Hook, LocksMatchCalls, EventsNameCustomers,
          HooksHoldEvents, StoreCustomer, stripeVars
    <2>5. AckedIsRecorded' /\ RecordedOnceSyncedOnce'
      BY <1>0, <1>3, BillingAssumptions
      DEF TypeOK, Snapshot, Event, Hook, CustomersMatchCalls, SessionsArePersisted,
          EventsNameCustomers,
          HooksHoldEvents, AckedIsRecorded, RecordedOnceSyncedOnce, Ours, StoreCustomer, stripeVars
    <2> QED  BY <2>1, <2>2, <2>3, <2>4, <2>5 DEF IInv
  <1>4. ASSUME NEW k \in Calls, OpenSession(k) PROVE IInv'
    <2>1. TypeOK'
      <3>1. call[k].cust \in Customers /\ IdleCall \in Call
        BY <1>0, <1>4 DEF CustomersMatchCalls, OpenSession, IdleCall, Call
      <3> QED  BY <1>0, <1>4, <3>1 DEF TypeOK, OpenSession, dbVars
    <2>2. LocksMatchCalls' /\ CustomersMatchCalls' /\ SessionsArePersisted'
      BY <1>0, <1>4, BillingAssumptions
      DEF TypeOK, Call, LocksMatchCalls, CustomersMatchCalls, SessionsArePersisted,
          OpenSession, IdleCall, dbVars
    <2>3. EventsNameCustomers'
      BY <1>0, <1>4, BillingAssumptions
      DEF TypeOK, Snapshot, Event, Hook, EventsNameCustomers, OpenSession, IdleCall, dbVars
    <2>4. HooksHoldEvents'
      BY <1>0, <1>4, BillingAssumptions
      DEF TypeOK, Snapshot, Event, Hook, LocksMatchCalls, EventsNameCustomers,
          HooksHoldEvents, OpenSession, IdleCall, dbVars
    <2>5. AckedIsRecorded' /\ RecordedOnceSyncedOnce'
      BY <1>0, <1>4, BillingAssumptions
      DEF TypeOK, Snapshot, Event, Hook, CustomersMatchCalls, SessionsArePersisted,
          EventsNameCustomers,
          HooksHoldEvents, AckedIsRecorded, RecordedOnceSyncedOnce, Ours, OpenSession, IdleCall, dbVars
    <2> QED  BY <2>1, <2>2, <2>3, <2>4, <2>5 DEF IInv
  <1>5. ASSUME NEW k \in Calls, FailCall(k) PROVE IInv'
    <2>1. TypeOK'
      BY <1>0, <1>5, BillingAssumptions
      DEF TypeOK, Snapshot, Event, Row, Call, Hook, FailCall, IdleCall, stripeVars
    <2>2. LocksMatchCalls' /\ CustomersMatchCalls' /\ SessionsArePersisted'
      BY <1>0, <1>5, BillingAssumptions
      DEF TypeOK, Call, LocksMatchCalls, CustomersMatchCalls, SessionsArePersisted,
          FailCall, IdleCall, stripeVars
    <2>3. EventsNameCustomers'
      BY <1>0, <1>5, BillingAssumptions
      DEF TypeOK, Snapshot, Event, Hook, EventsNameCustomers, FailCall, IdleCall, stripeVars
    <2>4. HooksHoldEvents'
      BY <1>0, <1>5, BillingAssumptions
      DEF TypeOK, Snapshot, Event, Hook, LocksMatchCalls, EventsNameCustomers,
          HooksHoldEvents, FailCall, IdleCall, stripeVars
    <2>5. AckedIsRecorded' /\ RecordedOnceSyncedOnce'
      BY <1>0, <1>5, BillingAssumptions
      DEF TypeOK, Snapshot, Event, Hook, CustomersMatchCalls, SessionsArePersisted,
          EventsNameCustomers,
          HooksHoldEvents, AckedIsRecorded, RecordedOnceSyncedOnce, Ours, FailCall, IdleCall, stripeVars
    <2> QED  BY <2>1, <2>2, <2>3, <2>4, <2>5 DEF IInv
  <1>6. ASSUME NEW s \in Subs, NEW c \in Customers, NEW st \in Statuses,
               NEW pl \in Plans \cup {None}, NEW e \in Events, StripeChange(s, c, st, pl, e)
        PROVE  IInv'
    <2>1. TypeOK'
      BY <1>0, <1>6, BillingAssumptions
      DEF TypeOK, Snapshot, Event, Row, Call, Hook, StripeChange, dbVars
    <2>2. LocksMatchCalls' /\ CustomersMatchCalls' /\ SessionsArePersisted'
      BY <1>0, <1>6, BillingAssumptions
      DEF TypeOK, Call, LocksMatchCalls, CustomersMatchCalls, SessionsArePersisted,
          StripeChange, dbVars
    <2>3. EventsNameCustomers'
      BY <1>0, <1>6, BillingAssumptions
      DEF TypeOK, Snapshot, Event, Hook, EventsNameCustomers, StripeChange, dbVars
    <2>4. HooksHoldEvents'
      BY <1>0, <1>6, BillingAssumptions
      DEF TypeOK, Snapshot, Event, Hook, LocksMatchCalls, EventsNameCustomers,
          HooksHoldEvents, StripeChange, dbVars
    <2>5. AckedIsRecorded' /\ RecordedOnceSyncedOnce'
      BY <1>0, <1>6, BillingAssumptions
      DEF TypeOK, Snapshot, Event, Hook, CustomersMatchCalls, SessionsArePersisted,
          EventsNameCustomers,
          HooksHoldEvents, AckedIsRecorded, RecordedOnceSyncedOnce, Ours, StripeChange, dbVars
    <2> QED  BY <2>1, <2>2, <2>3, <2>4, <2>5 DEF IInv
  <1>7. ASSUME NEW e \in Events, OtherEvent(e) PROVE IInv'
    <2>1. TypeOK'
      BY <1>0, <1>7, BillingAssumptions
      DEF TypeOK, Snapshot, Event, Row, Call, Hook, OtherEvent, NoSub, dbVars
    <2>2. LocksMatchCalls' /\ CustomersMatchCalls' /\ SessionsArePersisted'
      BY <1>0, <1>7, BillingAssumptions
      DEF TypeOK, Call, LocksMatchCalls, CustomersMatchCalls, SessionsArePersisted,
          OtherEvent, NoSub, dbVars
    <2>3. EventsNameCustomers'
      BY <1>0, <1>7, BillingAssumptions
      DEF TypeOK, Snapshot, Event, Hook, EventsNameCustomers, OtherEvent, NoSub, dbVars
    <2>4. HooksHoldEvents'
      BY <1>0, <1>7, BillingAssumptions
      DEF TypeOK, Snapshot, Event, Hook, LocksMatchCalls, EventsNameCustomers,
          HooksHoldEvents, OtherEvent, NoSub, dbVars
    <2>5. AckedIsRecorded' /\ RecordedOnceSyncedOnce'
      BY <1>0, <1>7, BillingAssumptions
      DEF TypeOK, Snapshot, Event, Hook, CustomersMatchCalls, SessionsArePersisted,
          EventsNameCustomers,
          HooksHoldEvents, AckedIsRecorded, RecordedOnceSyncedOnce, Ours, OtherEvent, NoSub, dbVars
    <2> QED  BY <2>1, <2>2, <2>3, <2>4, <2>5 DEF IInv
  <1>8. ASSUME NEW h \in Hooks, NEW e \in Events, RecordOnly(h, e) PROVE IInv'
    <2>1. TypeOK'
      BY <1>0, <1>8, BillingAssumptions
      DEF TypeOK, Snapshot, Event, Row, Call, Hook, RecordOnly
    <2>2. LocksMatchCalls' /\ CustomersMatchCalls' /\ SessionsArePersisted'
      BY <1>0, <1>8, BillingAssumptions
      DEF TypeOK, Call, LocksMatchCalls, CustomersMatchCalls, SessionsArePersisted, RecordOnly
    <2>3. EventsNameCustomers'
      BY <1>0, <1>8, BillingAssumptions
      DEF TypeOK, Snapshot, Event, Hook, EventsNameCustomers, RecordOnly
    <2>4. HooksHoldEvents'
      BY <1>0, <1>8, BillingAssumptions
      DEF TypeOK, Snapshot, Event, Hook, LocksMatchCalls, EventsNameCustomers,
          HooksHoldEvents, RecordOnly
    <2>5. AckedIsRecorded' /\ RecordedOnceSyncedOnce'
      BY <1>0, <1>8, BillingAssumptions
      DEF TypeOK, Snapshot, Event, Hook, CustomersMatchCalls, SessionsArePersisted,
          EventsNameCustomers,
          HooksHoldEvents, AckedIsRecorded, RecordedOnceSyncedOnce, Ours, RecordOnly
    <2> QED  BY <2>1, <2>2, <2>3, <2>4, <2>5 DEF IInv
  <1>9. ASSUME NEW h \in Hooks, NEW e \in Events, Refetch(h, e) PROVE IInv'
    <2>1. TypeOK'
      <3>1. Refetched(e) \in Snapshot
        BY <1>0, <1>9 DEF TypeOK, Event, Refetch, Refetched
      <3>2. [IdleHook EXCEPT !.step = "fetched", !.event = e, !.snap = Refetched(e)] \in Hook
        BY <3>1 DEF IdleHook, Hook
      <3> QED  BY <1>0, <1>9, <3>2 DEF TypeOK, Refetch, stripeVars, dbVars
    <2>2. LocksMatchCalls' /\ CustomersMatchCalls' /\ SessionsArePersisted'
      BY <1>0, <1>9, BillingAssumptions
      DEF TypeOK, Call, LocksMatchCalls, CustomersMatchCalls, SessionsArePersisted,
          Refetch, Refetched, IdleHook, NoSub, stripeVars, dbVars
    <2>3. EventsNameCustomers'
      BY <1>0, <1>9, BillingAssumptions
      DEF TypeOK, Snapshot, Event, Hook, EventsNameCustomers, Refetch, Refetched,
          IdleHook, NoSub, stripeVars, dbVars
    <2>4. HooksHoldEvents'
      BY <1>0, <1>9, BillingAssumptions
      DEF TypeOK, Snapshot, Event, Hook, LocksMatchCalls, EventsNameCustomers,
          HooksHoldEvents, Refetch, Refetched, IdleHook, NoSub, stripeVars, dbVars
    <2>5. AckedIsRecorded' /\ RecordedOnceSyncedOnce'
      BY <1>0, <1>9, BillingAssumptions
      DEF TypeOK, Snapshot, Event, Hook, CustomersMatchCalls, SessionsArePersisted,
          EventsNameCustomers,
          HooksHoldEvents, AckedIsRecorded, RecordedOnceSyncedOnce, Ours, Refetch, Refetched, IdleHook, NoSub, stripeVars, dbVars
    <2> QED  BY <2>1, <2>2, <2>3, <2>4, <2>5 DEF IInv
  <1>10. ASSUME NEW h \in Hooks, Duplicate(h) PROVE IInv'
    <2>1. TypeOK'
      BY <1>0, <1>10, BillingAssumptions
      DEF TypeOK, Snapshot, Event, Row, Call, Hook, Duplicate, IdleHook, NoSub, dbVars
    <2>2. LocksMatchCalls' /\ CustomersMatchCalls' /\ SessionsArePersisted'
      BY <1>0, <1>10, BillingAssumptions
      DEF TypeOK, Call, LocksMatchCalls, CustomersMatchCalls, SessionsArePersisted,
          Duplicate, IdleHook, NoSub, dbVars
    <2>3. EventsNameCustomers'
      BY <1>0, <1>10, BillingAssumptions
      DEF TypeOK, Snapshot, Event, Hook, EventsNameCustomers, Duplicate, IdleHook, NoSub, dbVars
    <2>4. HooksHoldEvents'
      BY <1>0, <1>10, BillingAssumptions
      DEF TypeOK, Snapshot, Event, Hook, LocksMatchCalls, EventsNameCustomers,
          HooksHoldEvents, Duplicate, IdleHook, NoSub, dbVars
    <2>5. AckedIsRecorded' /\ RecordedOnceSyncedOnce'
      BY <1>0, <1>10, BillingAssumptions
      DEF TypeOK, Snapshot, Event, Hook, CustomersMatchCalls, SessionsArePersisted,
          EventsNameCustomers,
          HooksHoldEvents, AckedIsRecorded, RecordedOnceSyncedOnce, Ours, Duplicate, IdleHook, NoSub, dbVars
    <2> QED  BY <2>1, <2>2, <2>3, <2>4, <2>5 DEF IInv
  <1>11. ASSUME NEW h \in Hooks, Ignore(h) PROVE IInv'
    <2>1. TypeOK'
      <3>1. IdleHook \in Hook /\ hook[h].event \in Events
        BY <1>0, <1>11, BillingAssumptions
        DEF TypeOK, HooksHoldEvents, Ignore, IdleHook, NoSub, Snapshot, Hook
      <3> QED  BY <1>0, <1>11, <3>1 DEF TypeOK, Ignore
    <2>2. LocksMatchCalls' /\ CustomersMatchCalls' /\ SessionsArePersisted'
      BY <1>0, <1>11, BillingAssumptions
      DEF TypeOK, Call, LocksMatchCalls, CustomersMatchCalls, SessionsArePersisted,
          Ignore, Claimable, IdleHook, NoSub
    <2>3. EventsNameCustomers'
      BY <1>0, <1>11, BillingAssumptions
      DEF TypeOK, Snapshot, Event, Hook, EventsNameCustomers, Ignore, Claimable, IdleHook, NoSub
    <2>4. HooksHoldEvents'
      BY <1>0, <1>11, BillingAssumptions
      DEF TypeOK, Snapshot, Event, Hook, LocksMatchCalls, EventsNameCustomers,
          HooksHoldEvents, Ignore, Claimable, IdleHook, NoSub
    <2>5. AckedIsRecorded' /\ RecordedOnceSyncedOnce'
      <3> DEFINE e == hook[h].event
      <3>1. e \in Events /\ e \notin ledger /\ ~Ours(e)
        BY <1>0, <1>11, IgnoredIsForeign DEF HooksHoldEvents, Ignore, Claimable
      <3>2. /\ ledger' = ledger \cup {e} /\ acked' = acked \cup {e}
            /\ UNCHANGED <<event, applied>>
        BY <1>11 DEF Ignore
      <3>3. AckedIsRecorded'
        BY <1>0, <3>2 DEF AckedIsRecorded
      <3>4. \A d \in Events : Ours(d)' = Ours(d)
        BY <3>2 DEF Ours
      <3> QED  BY <1>0, <3>1, <3>2, <3>3, <3>4 DEF RecordedOnceSyncedOnce
    <2> QED  BY <2>1, <2>2, <2>3, <2>4, <2>5 DEF IInv
  <1>12. ASSUME NEW h \in Hooks, NEW o \in Orgs, Claim(h, o) PROVE IInv'
    <2>1. TypeOK'
      <3>1. [hook[h] EXCEPT !.step = "claimed", !.org = o, !.plan = plan[o]] \in Hook
        <4>1. hook[h] \in Hook /\ plan[o] \in Plans \cup {"free"}
          BY <1>0 DEF TypeOK
        <4> QED  BY <4>1 DEF Hook
      <3> QED  BY <1>0, <1>12, <3>1 DEF TypeOK, Claim, stripeVars, dbVars
    <2>2. LocksMatchCalls' /\ CustomersMatchCalls' /\ SessionsArePersisted'
      BY <1>0, <1>12, BillingAssumptions
      DEF TypeOK, Call, LocksMatchCalls, CustomersMatchCalls, SessionsArePersisted, Claim,
          Claimable, stripeVars, dbVars
    <2>3. EventsNameCustomers'
      BY <1>0, <1>12, BillingAssumptions
      DEF TypeOK, Snapshot, Event, Hook, EventsNameCustomers, Claim, Claimable, stripeVars, dbVars
    <2>4. HooksHoldEvents'
      BY <1>0, <1>12, BillingAssumptions
      DEF TypeOK, Snapshot, Event, Hook, LocksMatchCalls, EventsNameCustomers,
          HooksHoldEvents, Claim, Claimable, stripeVars, dbVars
    <2>5. AckedIsRecorded' /\ RecordedOnceSyncedOnce'
      BY <1>0, <1>12, BillingAssumptions
      DEF TypeOK, Snapshot, Event, Hook, CustomersMatchCalls, SessionsArePersisted,
          EventsNameCustomers,
          HooksHoldEvents, AckedIsRecorded, RecordedOnceSyncedOnce, Ours, Claim, Claimable, stripeVars, dbVars
    <2> QED  BY <2>1, <2>2, <2>3, <2>4, <2>5 DEF IInv
  <1>13. ASSUME NEW h \in Hooks, Sync(h) PROVE IInv'
    <2>1. TypeOK'
      <3>1. IdleHook \in Hook
        BY BillingAssumptions DEF IdleHook, NoSub, Snapshot, Hook
      <3>2. /\ hook[h].snap \in Snapshot /\ hook[h].plan \in Plans \cup {"free"}
            /\ hook[h].event \in Events /\ event[hook[h].event].sub \in Subs
        BY <1>0, <1>13 DEF TypeOK, HooksHoldEvents, Sync, Hook, Event
      <3>3. /\ NewPlan(hook[h].snap, hook[h].plan) \in Plans \cup {"free"}
            /\ MappedStatus(hook[h].snap.status) \in {MappedStatus(st) : st \in Statuses}
        BY <3>2, NewPlanType
      <3>4. row' \in [Subs -> Row \cup {None}]
        <4> DEFINE e == hook[h].event
                   new == [status |-> MappedStatus(hook[h].snap.status),
                           plan |-> NewPlan(hook[h].snap, hook[h].plan),
                           ver |-> hook[h].snap.ver,
                           top |-> Newest(event[e].sub, hook[h].snap.ver)]
        <4>1. row' = [row EXCEPT ![event[e].sub] = new]
          BY <1>13 DEF Sync
        <4>2. hook[h].snap.ver \in 0 .. MaxVersion
          BY <3>2 DEF Snapshot
        <4>3. Newest(event[e].sub, hook[h].snap.ver) \in 0 .. MaxVersion
          BY <1>0, <3>2, <4>2 DEF TypeOK, Row, Newest
        <4>4. new \in Row
          BY <3>3, <4>2, <4>3 DEF Row
        <4> HIDE DEF new
        <4> QED  BY <1>0, <3>2, <4>1, <4>4 DEF TypeOK
      <3>5. plan' \in [Orgs -> Plans \cup {"free"}] /\ applied' \in [Events -> Nat]
        <4>1. /\ plan' = [plan EXCEPT ![hook[h].org] = NewPlan(hook[h].snap, hook[h].plan)]
              /\ applied' = [applied EXCEPT ![hook[h].event] = applied[hook[h].event] + 1]
          BY <1>13 DEF Sync
        <4>2. plan' \in [Orgs -> Plans \cup {"free"}]
          BY <1>0, <3>3, <4>1 DEF TypeOK
        <4>3. applied \in [Events -> Nat] /\ hook[h].event \in Events
          BY <1>0, <3>2 DEF TypeOK
        <4>4. applied' \in [Events -> Nat]
          BY <4>1, <4>3
        <4> QED  BY <4>2, <4>4
      <3>6. hook' \in [Hooks -> Hook] /\ ledger' \in SUBSET Events /\ acked' \in SUBSET Events
        BY <1>0, <1>13, <3>1, <3>2 DEF TypeOK, Sync
      <3>7. UNCHANGED <<madeFor, sub, event, sessions, customer, lock, call>>
        BY <1>13 DEF Sync
      <3> QED  BY <1>0, <3>4, <3>5, <3>6, <3>7 DEF TypeOK
    <2>2. LocksMatchCalls' /\ CustomersMatchCalls' /\ SessionsArePersisted'
      BY <1>0, <1>13, BillingAssumptions
      DEF TypeOK, Call, LocksMatchCalls, CustomersMatchCalls, SessionsArePersisted, Sync,
          IdleHook, NoSub
    <2>3. EventsNameCustomers'
      BY <1>0, <1>13, BillingAssumptions
      DEF TypeOK, Snapshot, Event, Hook, EventsNameCustomers, Sync, IdleHook, NoSub
    <2>4. HooksHoldEvents'
      BY <1>0, <1>13, BillingAssumptions
      DEF TypeOK, Snapshot, Event, Hook, LocksMatchCalls, EventsNameCustomers,
          HooksHoldEvents, Sync, IdleHook, NoSub
    <2>5. AckedIsRecorded' /\ RecordedOnceSyncedOnce'
      BY <1>0, <1>13, BillingAssumptions
      DEF TypeOK, Snapshot, Event, Hook, CustomersMatchCalls, SessionsArePersisted,
          EventsNameCustomers,
          HooksHoldEvents, AckedIsRecorded, RecordedOnceSyncedOnce, Ours, Sync, IdleHook, NoSub
    <2> QED  BY <2>1, <2>2, <2>3, <2>4, <2>5 DEF IInv
  <1>14. ASSUME NEW h \in Hooks, FailHook(h) PROVE IInv'
    <2>1. TypeOK'
      BY <1>0, <1>14, BillingAssumptions
      DEF TypeOK, Snapshot, Event, Row, Call, Hook, FailHook, IdleHook, NoSub, stripeVars, dbVars
    <2>2. LocksMatchCalls' /\ CustomersMatchCalls' /\ SessionsArePersisted'
      BY <1>0, <1>14, BillingAssumptions
      DEF TypeOK, Call, LocksMatchCalls, CustomersMatchCalls, SessionsArePersisted,
          FailHook, IdleHook, NoSub, stripeVars, dbVars
    <2>3. EventsNameCustomers'
      BY <1>0, <1>14, BillingAssumptions
      DEF TypeOK, Snapshot, Event, Hook, EventsNameCustomers, FailHook, IdleHook, NoSub,
          stripeVars, dbVars
    <2>4. HooksHoldEvents'
      BY <1>0, <1>14, BillingAssumptions
      DEF TypeOK, Snapshot, Event, Hook, LocksMatchCalls, EventsNameCustomers,
          HooksHoldEvents, FailHook, IdleHook, NoSub, stripeVars, dbVars
    <2>5. AckedIsRecorded' /\ RecordedOnceSyncedOnce'
      BY <1>0, <1>14, BillingAssumptions
      DEF TypeOK, Snapshot, Event, Hook, CustomersMatchCalls, SessionsArePersisted,
          EventsNameCustomers,
          HooksHoldEvents, AckedIsRecorded, RecordedOnceSyncedOnce, Ours, FailHook, IdleHook, NoSub, stripeVars, dbVars
    <2> QED  BY <2>1, <2>2, <2>3, <2>4, <2>5 DEF IInv
  <1>15. ASSUME UNCHANGED vars PROVE IInv'
    <2>1. TypeOK'
      BY <1>0, <1>15, BillingAssumptions
      DEF TypeOK, Snapshot, Event, Row, Call, Hook, vars, stripeVars, dbVars
    <2>2. LocksMatchCalls' /\ CustomersMatchCalls' /\ SessionsArePersisted'
      BY <1>0, <1>15, BillingAssumptions
      DEF TypeOK, Call, LocksMatchCalls, CustomersMatchCalls, SessionsArePersisted, vars,
          stripeVars, dbVars
    <2>3. EventsNameCustomers'
      BY <1>0, <1>15, BillingAssumptions
      DEF TypeOK, Snapshot, Event, Hook, EventsNameCustomers, vars, stripeVars, dbVars
    <2>4. HooksHoldEvents'
      BY <1>0, <1>15, BillingAssumptions
      DEF TypeOK, Snapshot, Event, Hook, LocksMatchCalls, EventsNameCustomers,
          HooksHoldEvents, vars, stripeVars, dbVars
    <2>5. AckedIsRecorded' /\ RecordedOnceSyncedOnce'
      BY <1>0, <1>15, BillingAssumptions
      DEF TypeOK, Snapshot, Event, Hook, CustomersMatchCalls, SessionsArePersisted,
          EventsNameCustomers,
          HooksHoldEvents, AckedIsRecorded, RecordedOnceSyncedOnce, Ours, vars, stripeVars, dbVars
    <2> QED  BY <2>1, <2>2, <2>3, <2>4, <2>5 DEF IInv
  <1> QED
    BY <1>1, <1>2, <1>3, <1>4, <1>5, <1>6, <1>7, <1>8, <1>9, <1>10, <1>11, <1>12, <1>13, <1>14, <1>15
    DEF Next, Deliver, Begin

\* The inductive invariant holds in every reachable state.
THEOREM Invariance == Spec => []IInv
  BY InitIInv, NextKeepsIInv, PTL DEF Spec

\* The type invariant of the billing tables, of Stripe and of what is in flight.
THEOREM TypeCorrect == Spec => []TypeOK
  <1>1. IInv => TypeOK
    BY DEF IInv
  <1> QED  BY <1>1, Invariance, PTL

\* R9.1: a session is opened for the customer on record and for no other.
THEOREM PersistedSessions == Spec => []SessionsArePersisted
  <1>1. IInv => SessionsArePersisted
    BY DEF IInv
  <1> QED  BY <1>1, Invariance, PTL

\* What Stripe stops redelivering is in the ledger.
THEOREM AckedEventsAreRecorded == Spec => []AckedIsRecorded
  <1>1. IInv => AckedIsRecorded
    BY DEF IInv
  <1> QED  BY <1>1, Invariance, PTL

\* R10.3: each recorded event of ours is synced exactly once, whatever is
\* delivered twice, at once or again after a failure.
THEOREM SyncedExactlyOnce == Spec => []RecordedOnceSyncedOnce
  <1>1. IInv => RecordedOnceSyncedOnce
    BY DEF IInv
  <1> QED  BY <1>1, Invariance, PTL

\* Nothing gets ahead of Stripe: a refetch copies its version, a sync stores a
\* copy, and Stripe's own version only grows.
LEMMA NextKeepsRowsBehind == IInv /\ RowsAreNotAhead /\ [Next]_vars => RowsAreNotAhead'
  <1> SUFFICES ASSUME IInv, RowsAreNotAhead, [Next]_vars PROVE RowsAreNotAhead'
    OBVIOUS
  <1> USE BillingAssumptions
  <1>0. TypeOK /\ HooksHoldEvents
    BY DEF IInv
  <1>1. ASSUME NEW s \in Subs, NEW c \in Customers, NEW st \in Statuses,
               NEW pl \in Plans \cup {None}, NEW e \in Events, StripeChange(s, c, st, pl, e)
        PROVE  RowsAreNotAhead'
    <2>1. /\ \A x \in Subs : sub[x].ver \in Nat /\ sub'[x].ver \in Nat /\ sub[x].ver <= sub'[x].ver
          /\ UNCHANGED <<row, hook>>
          /\ \A d \in Events : event[d] # None => event'[d] = event[d]
      BY <1>0, <1>1 DEF TypeOK, Snapshot, StripeChange, dbVars
    <2>2. \A x \in Subs : row[x] # None => row[x].top \in Nat
      BY <1>0 DEF TypeOK, Row
    <2>3. \A h \in Hooks : hook[h].step # "idle" =>
            /\ hook[h].event \in Events /\ event[hook[h].event] # None
            /\ event[hook[h].event].sub \in Subs /\ hook[h].snap.ver \in Nat
      BY <1>0 DEF TypeOK, HooksHoldEvents, Event, Hook, Snapshot
    <2> QED  BY <2>1, <2>2, <2>3 DEF RowsAreNotAhead
  <1>2. ASSUME NEW h \in Hooks, NEW e \in Events, Refetch(h, e) PROVE RowsAreNotAhead'
    <2>1. sub[event[e].sub].ver \in Nat /\ UNCHANGED <<row, sub, event>>
      BY <1>0, <1>2 DEF TypeOK, Event, Snapshot, Refetch, stripeVars, dbVars
    <2>2. \A g \in Hooks : hook'[g] = hook[g] \/ (g = h /\ hook'[g].event = e
                                                  /\ hook'[g].snap = sub[event[e].sub])
      BY <1>0, <1>2 DEF TypeOK, Refetch, Refetched, IdleHook
    <2> QED  BY <2>1, <2>2 DEF RowsAreNotAhead
  <1>3. ASSUME NEW h \in Hooks, NEW o \in Orgs, Claim(h, o) PROVE RowsAreNotAhead'
    <2>1. UNCHANGED <<row, sub, event>> /\ hook[h].step # "idle"
      BY <1>3 DEF Claim, stripeVars, dbVars
    <2>2. \A g \in Hooks : hook'[g] = hook[g] \/ (g = h /\ hook'[g].event = hook[h].event
                                                  /\ hook'[g].snap = hook[h].snap)
      BY <1>0, <1>3 DEF TypeOK, Hook, Claim
    <2> QED  BY <2>1, <2>2 DEF RowsAreNotAhead
  <1>4. ASSUME NEW h \in Hooks, Sync(h) PROVE RowsAreNotAhead'
    <2> DEFINE s == event[hook[h].event].sub
               v == hook[h].snap.ver
    <2>1. s \in Subs /\ v \in Nat /\ v <= sub[s].ver /\ sub[s].ver \in Nat
      BY <1>0, <1>4 DEF TypeOK, HooksHoldEvents, Event, Hook, Snapshot, Sync, RowsAreNotAhead
    <2>2. UNCHANGED <<sub, event>> /\ \A g \in Hooks : hook'[g].step # "idle" => hook'[g] = hook[g]
      BY <1>0, <1>4 DEF TypeOK, Sync, IdleHook
    <2>3. row'[s].ver = v /\ row'[s].top = Newest(s, v) /\ \A x \in Subs \ {s} : row'[x] = row[x]
      BY <1>0, <1>4, <2>1 DEF TypeOK, Sync
    <2>4. row[s] # None => row[s].top \in Nat /\ row[s].top <= sub[s].ver
      BY <1>0, <2>1 DEF TypeOK, Row, RowsAreNotAhead
    <2>5. v <= Newest(s, v) /\ Newest(s, v) <= sub[s].ver
      BY <2>1, <2>4 DEF Newest
    <2> QED  BY <2>1, <2>2, <2>3, <2>5 DEF RowsAreNotAhead
  <1>5. ASSUME UNCHANGED <<row, sub>>,
               \A d \in Events : event[d] # None => event'[d] = event[d],
               \A g \in Hooks : hook'[g].step # "idle" => hook'[g] = hook[g]
        PROVE  RowsAreNotAhead'
    BY <1>0, <1>5 DEF RowsAreNotAhead, HooksHoldEvents
  <1>6. ASSUME NEW h \in Hooks, Duplicate(h) \/ Ignore(h) \/ FailHook(h) PROVE RowsAreNotAhead'
    BY <1>0, <1>5, <1>6
    DEF TypeOK, Duplicate, Ignore, FailHook, IdleHook, stripeVars, dbVars
  <1>7. ASSUME NEW h \in Hooks, NEW e \in Events, RecordOnly(h, e) PROVE RowsAreNotAhead'
    BY <1>5, <1>7 DEF RecordOnly
  <1>8. ASSUME NEW e \in Events, OtherEvent(e) PROVE RowsAreNotAhead'
    <2>1. \A d \in Events : event[d] # None => event'[d] = event[d]
      BY <1>0, <1>8 DEF TypeOK, OtherEvent
    <2> QED  BY <1>5, <1>8, <2>1 DEF OtherEvent, dbVars
  <1>9. ASSUME NEW k \in Calls,
               \/ \E o \in Orgs : LockOrg(k, o)
               \/ \E c \in Customers : CreateCustomer(k, c)
               \/ StoreCustomer(k) \/ OpenSession(k) \/ FailCall(k)
        PROVE  RowsAreNotAhead'
    BY <1>5, <1>9 DEF LockOrg, CreateCustomer, StoreCustomer, OpenSession, FailCall,
                      stripeVars, dbVars
  <1>10. ASSUME UNCHANGED vars PROVE RowsAreNotAhead'
    BY <1>5, <1>10 DEF vars, stripeVars, dbVars
  <1> QED
    BY <1>1, <1>2, <1>3, <1>4, <1>6, <1>7, <1>8, <1>9, <1>10 DEF Next, Deliver, Begin

\* No row and no refetched snapshot is ever ahead of Stripe.
THEOREM RowsNotAhead == Spec => []RowsAreNotAhead
  <1>1. Init => RowsAreNotAhead
    BY DEF Init, IdleHook, RowsAreNotAhead
  <1> QED  BY <1>1, NextKeepsRowsBehind, Invariance, PTL DEF Spec

\* A sync leaves a row behind.
LEMMA SyncWritesRow ==
    ASSUME IInv, NEW h \in Hooks, Sync(h)
    PROVE  row'[event[hook[h].event].sub] # None
  <1> DEFINE s == event[hook[h].event].sub
             v == hook[h].snap.ver
  <1>1. s \in Subs /\ hook[h].snap \in Snapshot /\ hook[h].plan \in Plans \cup {"free"}
    BY DEF IInv, TypeOK, HooksHoldEvents, Event, Hook, Sync
  <1>2. row'[s] = [status |-> MappedStatus(hook[h].snap.status),
                   plan |-> NewPlan(hook[h].snap, hook[h].plan), ver |-> v,
                   top |-> Newest(s, v)]
    BY <1>1 DEF IInv, TypeOK, Sync
  <1>3. Newest(s, v) \in 0 .. MaxVersion /\ v \in 0 .. MaxVersion
    BY <1>1, BillingAssumptions DEF IInv, TypeOK, Row, Newest, Snapshot
  <1>4. /\ NewPlan(hook[h].snap, hook[h].plan) \in Plans \cup {"free"}
        /\ MappedStatus(hook[h].snap.status) \in {MappedStatus(st) : st \in Statuses}
    BY <1>1, NewPlanType
  <1>5. row'[s] \in Row
    BY <1>2, <1>3, <1>4 DEF Row
  <1> QED  BY <1>5, NoneIsNoRecord

\* What the events tell and what has become of the recorded ones is kept: a sync
\* writes a state no older than its event's, and no row loses its newest.
LEMMA NextKeepsEvents ==
    IInv /\ SyncInv /\ [Next]_vars => EventsTell' /\ RecordedIsReflected'
  <1> SUFFICES ASSUME IInv, SyncInv, [Next]_vars PROVE EventsTell' /\ RecordedIsReflected'
    OBVIOUS
  <1> USE BillingAssumptions
  <1>0. /\ TypeOK /\ HooksHoldEvents /\ EventsNameCustomers /\ SessionsArePersisted
        /\ RowsAreNotAhead /\ EventsTell /\ RecordedIsReflected
    BY DEF IInv, SyncInv
  <1>a. \A s \in Subs : sub[s].ver \in Nat
    BY <1>0 DEF TypeOK, Snapshot
  <1>b. \A e \in Events : event[e] # None => event[e] \in Event /\ event[e].snap.ver \in Nat
    BY <1>0 DEF TypeOK, Event, Snapshot
  <1>1. ASSUME NEW s \in Subs, NEW c \in Customers, NEW st \in Statuses,
               NEW pl \in Plans \cup {None}, NEW e \in Events, StripeChange(s, c, st, pl, e)
        PROVE  EventsTell' /\ RecordedIsReflected'
    <2> DEFINE new == [cust |-> c, status |-> st, plan |-> pl, ver |-> sub[s].ver + 1]
    <2>1. /\ sub' = [sub EXCEPT ![s] = new] /\ event' = [event EXCEPT ![e] = [sub |-> s, snap |-> new]]
          /\ event[e] = None /\ UNCHANGED <<row, hook, ledger>> /\ sub[s].ver < MaxVersion
      BY <1>1 DEF StripeChange, dbVars
    <2>2. new \in Snapshot /\ new.ver = sub[s].ver + 1
      BY <1>a, <2>1 DEF Snapshot
    <2> HIDE DEF new
    <2>3. event'[e] # None /\ event'[e].sub = s /\ event'[e].snap = new
      BY <1>0, <2>1, <2>2, NoneIsNoRecord DEF TypeOK, Event
    <2>4. /\ sub'[s] = new /\ \A x \in Subs \ {s} : sub'[x] = sub[x]
          /\ \A d \in Events \ {e} : event'[d] = event[d]
      BY <1>0, <2>1 DEF TypeOK
    <2>5. \A x \in Subs : sub[x].ver <= sub'[x].ver /\ sub'[x].ver \in Nat
      BY <1>a, <2>2, <2>4
    <2>6. ASSUME NEW d \in Events, event'[d] # None, event'[d].sub # None
          PROVE  1 <= event'[d].snap.ver /\ event'[d].snap.ver <= sub'[event'[d].sub].ver
      <3>1. CASE d = e
        BY <1>a, <2>2, <2>3, <2>4, <3>1
      <3>2. CASE d # e
        <4>1. event'[d] = event[d] /\ event[d].sub \in Subs
          BY <1>b, <2>4, <2>6, <3>2 DEF Event
        <4> QED  BY <1>0, <1>a, <1>b, <2>5, <2>6, <4>1 DEF EventsTell
      <3> QED  BY <3>1, <3>2
    <2>7. ASSUME NEW x \in Subs, sub'[x].ver > 0
          PROVE  \E d \in Events : event'[d] # None /\ event'[d].sub = x /\ event'[d].snap = sub'[x]
      <3>1. CASE x = s
        BY <2>3, <2>4, <3>1
      <3>2. CASE x # s
        <4>1. PICK d \in Events : event[d] # None /\ event[d].sub = x /\ event[d].snap = sub[x]
          BY <1>0, <2>4, <2>7, <3>2 DEF EventsTell
        <4> QED  BY <2>1, <2>4, <3>2, <4>1
      <3> QED  BY <3>1, <3>2
    <2>8. \A h \in Hooks : hook'[h].step # "idle" =>
              event'[hook'[h].event].snap.ver <= hook'[h].snap.ver
      BY <1>0, <2>1, <2>4 DEF HooksHoldEvents, EventsTell
    <2>9. EventsTell'
      BY <2>6, <2>7, <2>8 DEF EventsTell
    <2>10. \A d \in ledger : d # e /\ event'[d] = event[d]
      BY <1>0, <2>1, <2>4 DEF HooksHoldEvents, TypeOK
    <2> QED  BY <1>0, <2>1, <2>9, <2>10 DEF RecordedIsReflected, Ours
  <1>2. ASSUME NEW e \in Events, OtherEvent(e) PROVE EventsTell' /\ RecordedIsReflected'
    <2>1. /\ event[e] = None /\ event'[e].sub = None /\ UNCHANGED <<sub, row, hook, ledger>>
          /\ \A d \in Events \ {e} : event'[d] = event[d]
      BY <1>0, <1>2 DEF TypeOK, OtherEvent, dbVars
    <2>2. \A d \in Events : event[d] # None => event'[d] = event[d]
      BY <2>1
    <2>3. \A d \in Events : event'[d] # None /\ event'[d].sub # None => event[d] = event'[d]
      BY <2>1
    <2>4. \A s \in Subs : s # None
      OBVIOUS
    <2>5. EventsTell'
      BY <1>0, <2>1, <2>2, <2>3, <2>4 DEF EventsTell, HooksHoldEvents
    <2>6. RecordedIsReflected'
      BY <1>0, <2>1, <2>2 DEF RecordedIsReflected, Ours, HooksHoldEvents, TypeOK
    <2> QED  BY <2>5, <2>6
  <1>3. ASSUME NEW h \in Hooks, NEW e \in Events, Refetch(h, e)
        PROVE  EventsTell' /\ RecordedIsReflected'
    <2>1. UNCHANGED <<sub, event, row, ledger>> /\ event[e] # None /\ event[e].sub # None
      BY <1>3 DEF Refetch, stripeVars, dbVars
    <2>2. \A g \in Hooks : hook'[g] = hook[g] \/ (g = h /\ hook'[g].event = e
                                                  /\ hook'[g].snap = sub[event[e].sub])
      BY <1>0, <1>3 DEF TypeOK, Refetch, Refetched, IdleHook
    <2> QED  BY <1>0, <2>1, <2>2 DEF EventsTell, RecordedIsReflected, Ours
  <1>4. ASSUME NEW h \in Hooks, NEW o \in Orgs, Claim(h, o)
        PROVE  EventsTell' /\ RecordedIsReflected'
    <2>1. UNCHANGED <<sub, event, row, ledger>> /\ hook[h].step # "idle"
      BY <1>4 DEF Claim, stripeVars, dbVars
    <2>2. \A g \in Hooks : hook'[g] = hook[g] \/ (g = h /\ hook'[g].event = hook[h].event
                                                  /\ hook'[g].snap = hook[h].snap)
      BY <1>0, <1>4 DEF TypeOK, Hook, Claim
    <2> QED  BY <1>0, <2>1, <2>2 DEF EventsTell, RecordedIsReflected, Ours
  <1>5. ASSUME NEW h \in Hooks, Sync(h) PROVE EventsTell' /\ RecordedIsReflected'
    <2> DEFINE e == hook[h].event
               s == event[e].sub
               v == hook[h].snap.ver
    <2>1. /\ e \in Events /\ event[e] # None /\ s \in Subs /\ v \in Nat
          /\ event[e].snap.ver <= v
      BY <1>0, <1>5, <1>b DEF TypeOK, HooksHoldEvents, EventsTell, Event, Hook, Snapshot, Sync
    <2>2. /\ UNCHANGED <<sub, event>> /\ ledger' = ledger \cup {e}
          /\ \A g \in Hooks : hook'[g].step # "idle" => hook'[g] = hook[g]
      BY <1>0, <1>5 DEF TypeOK, Sync, IdleHook
    <2>3. row'[s].top = Newest(s, v) /\ \A x \in Subs \ {s} : row'[x] = row[x]
      BY <1>0, <1>5, <2>1 DEF TypeOK, Sync
    <2>4. row'[s] # None
      BY <1>5, SyncWritesRow
    <2>5. row[s] # None => row[s].top \in Nat
      BY <1>0, <2>1 DEF TypeOK, Row
    <2>6. v <= row'[s].top /\ (row[s] # None => row[s].top <= row'[s].top) /\ row'[s].top \in Nat
      BY <2>1, <2>3, <2>5 DEF Newest
    <2>7. EventsTell'
      BY <1>0, <2>2 DEF EventsTell
    <2>8. ASSUME NEW d \in ledger', Ours(d)'
          PROVE  row'[event'[d].sub] # None /\ event'[d].snap.ver <= row'[event'[d].sub].top
      <3>1. d \in Events /\ Ours(d) /\ event[d].sub \in Subs /\ event[d].snap.ver \in Nat
        BY <1>0, <1>b, <2>1, <2>2, <2>8 DEF Ours, TypeOK, Event
      <3>2. CASE d = e
        BY <2>1, <2>2, <2>4, <2>6, <3>1, <3>2
      <3>3. CASE d # e
        <4>1. row[event[d].sub] # None /\ event[d].snap.ver <= row[event[d].sub].top
          BY <1>0, <2>2, <3>1, <3>3 DEF RecordedIsReflected
        <4> QED  BY <2>2, <2>3, <2>4, <2>5, <2>6, <3>1, <4>1
      <3> QED  BY <3>2, <3>3
    <2> QED  BY <2>7, <2>8 DEF RecordedIsReflected
  <1>6. ASSUME UNCHANGED <<sub, event, row>>,
               \A g \in Hooks : hook'[g].step # "idle" => hook'[g] = hook[g],
               \A d \in ledger' : d \in ledger \/ ~Ours(d)
        PROVE  EventsTell' /\ RecordedIsReflected'
    BY <1>0, <1>6 DEF EventsTell, RecordedIsReflected, Ours
  <1>7. ASSUME NEW h \in Hooks, Duplicate(h) \/ FailHook(h) PROVE EventsTell' /\ RecordedIsReflected'
    BY <1>0, <1>6, <1>7 DEF TypeOK, Duplicate, FailHook, IdleHook, stripeVars, dbVars
  <1>8. ASSUME NEW h \in Hooks, Ignore(h) PROVE EventsTell' /\ RecordedIsReflected'
    <2>1. ~Ours(hook[h].event)
      BY <1>8, IgnoredIsForeign
    <2> QED  BY <1>0, <1>6, <1>8, <2>1 DEF TypeOK, Ignore, IdleHook
  <1>9. ASSUME NEW h \in Hooks, NEW e \in Events, RecordOnly(h, e)
        PROVE  EventsTell' /\ RecordedIsReflected'
    BY <1>6, <1>9 DEF RecordOnly, Ours
  <1>10. ASSUME NEW k \in Calls,
                \/ \E o \in Orgs : LockOrg(k, o)
                \/ \E c \in Customers : CreateCustomer(k, c)
                \/ StoreCustomer(k) \/ OpenSession(k) \/ FailCall(k)
         PROVE  EventsTell' /\ RecordedIsReflected'
    BY <1>6, <1>10 DEF LockOrg, CreateCustomer, StoreCustomer, OpenSession, FailCall,
                       stripeVars, dbVars
  <1>11. ASSUME UNCHANGED vars PROVE EventsTell' /\ RecordedIsReflected'
    BY <1>6, <1>11 DEF vars, stripeVars, dbVars
  <1> QED
    BY <1>1, <1>2, <1>3, <1>4, <1>5, <1>7, <1>8, <1>9, <1>10, <1>11 DEF Next, Deliver, Begin

\* No row is ahead of Stripe and no recorded event is ahead of its row.
THEOREM SyncInvariance == Spec => []SyncInv
  <1>1. Init => SyncInv
    BY DEF Init, NoSub, IdleHook, SyncInv, RowsAreNotAhead, EventsTell, RecordedIsReflected
  <1>2. IInv /\ SyncInv /\ [Next]_vars => SyncInv'
    BY NextKeepsRowsBehind, NextKeepsEvents DEF SyncInv
  <1> QED  BY <1>1, <1>2, Invariance, PTL DEF Spec

\* R10.3, R10.5: no change of a subscription of ours is missed once its events are
\* recorded, whatever their order, however deliveries of them overlap and fail.
THEOREM NothingIsMissed == Spec => []RecordedIsCurrent
  <1>1. IInv /\ SyncInv => RecordedIsCurrent
    <2> SUFFICES ASSUME IInv, SyncInv, NEW s \in Subs,
                        sub[s].ver > 0, sub[s].cust \notin Foreign,
                        \A e \in Events : event[e] # None /\ event[e].sub = s => e \in ledger
                 PROVE  row[s] # None /\ row[s].top = sub[s].ver
      BY DEF RecordedIsCurrent
    <2>1. PICK e \in Events : event[e] # None /\ event[e].sub = s /\ event[e].snap = sub[s]
      BY DEF SyncInv, EventsTell
    <2>2. Ours(e) /\ e \in ledger
      BY <2>1, BillingAssumptions DEF Ours
    <2>3. row[s] # None /\ sub[s].ver <= row[s].top
      BY <2>1, <2>2 DEF SyncInv, RecordedIsReflected
    <2>4. row[s].top <= sub[s].ver /\ row[s].top \in Nat /\ sub[s].ver \in Nat
      BY <2>3, BillingAssumptions DEF SyncInv, RowsAreNotAhead, IInv, TypeOK, Row, Snapshot
    <2> QED  BY <2>3, <2>4
  <1> QED  BY <1>1, Invariance, SyncInvariance, PTL

\* A snapshot in hand is at least as new as the row it is for.
FetchedIsFresh ==
    \A h \in Hooks : hook[h].step # "idle" =>
        LET s == event[hook[h].event].sub IN
        row[s] # None => row[s].ver <= hook[h].snap.ver

\* With one delivery at a time nothing is written between a refetch and its sync.
LEMMA OneAtATimeIsFresh ==
    ASSUME \A g, h \in Hooks : g = h
    PROVE  IInv /\ RowsAreNotAhead /\ FetchedIsFresh /\ [Next]_vars => FetchedIsFresh'
  <1> SUFFICES ASSUME IInv, RowsAreNotAhead, FetchedIsFresh, [Next]_vars PROVE FetchedIsFresh'
    OBVIOUS
  <1> USE BillingAssumptions
  <1>0. TypeOK /\ HooksHoldEvents
    BY DEF IInv
  <1>1. ASSUME NEW h \in Hooks, NEW e \in Events, Refetch(h, e) PROVE FetchedIsFresh'
    <2>1. /\ event[e].sub \in Subs /\ UNCHANGED <<row, event>>
          /\ hook'[h].event = e /\ hook'[h].snap = sub[event[e].sub]
      BY <1>0, <1>1 DEF TypeOK, Event, Refetch, Refetched, IdleHook, stripeVars, dbVars
    <2>2. row[event[e].sub] # None => row[event[e].sub].ver <= sub[event[e].sub].ver
      BY <1>0, <2>1 DEF TypeOK, Row, Snapshot, RowsAreNotAhead
    <2> QED  BY <2>1, <2>2 DEF FetchedIsFresh
  <1>2. ASSUME NEW h \in Hooks, NEW o \in Orgs, Claim(h, o) PROVE FetchedIsFresh'
    <2>1. /\ UNCHANGED <<row, event>> /\ hook[h].step # "idle"
          /\ hook'[h].event = hook[h].event /\ hook'[h].snap = hook[h].snap
      BY <1>0, <1>2 DEF TypeOK, Hook, Claim, stripeVars, dbVars
    <2> QED  BY <2>1 DEF FetchedIsFresh
  <1>3. ASSUME \A g \in Hooks : hook'[g].step # "idle" => hook'[g] = hook[g],
               UNCHANGED row \/ \A g \in Hooks : hook'[g].step = "idle",
               \A d \in Events : event[d] # None => event'[d] = event[d]
        PROVE  FetchedIsFresh'
    BY <1>0, <1>3 DEF FetchedIsFresh, HooksHoldEvents
  <1>4. ASSUME NEW h \in Hooks, Duplicate(h) \/ Ignore(h) \/ FailHook(h) \/ Sync(h)
        PROVE  FetchedIsFresh'
    <2>1. hook'[h].step = "idle" /\ UNCHANGED event
      BY <1>0, <1>4 DEF TypeOK, Duplicate, Ignore, FailHook, Sync, IdleHook, stripeVars
    <2> QED  BY <1>3, <2>1
  <1>5. ASSUME NEW h \in Hooks, NEW e \in Events, RecordOnly(h, e) PROVE FetchedIsFresh'
    BY <1>3, <1>5 DEF RecordOnly
  <1>6. ASSUME NEW e \in Events,
               \/ OtherEvent(e)
               \/ \E s \in Subs, c \in Customers, st \in Statuses, pl \in Plans \cup {None} :
                    StripeChange(s, c, st, pl, e)
        PROVE  FetchedIsFresh'
    <2>1. UNCHANGED <<row, hook>> /\ \A d \in Events : event[d] # None => event'[d] = event[d]
      BY <1>0, <1>6 DEF TypeOK, OtherEvent, StripeChange, dbVars
    <2> QED  BY <1>3, <2>1
  <1>7. ASSUME NEW k \in Calls,
               \/ \E o \in Orgs : LockOrg(k, o)
               \/ \E c \in Customers : CreateCustomer(k, c)
               \/ StoreCustomer(k) \/ OpenSession(k) \/ FailCall(k)
        PROVE  FetchedIsFresh'
    <2>1. UNCHANGED <<row, hook, event>>
      BY <1>7 DEF LockOrg, CreateCustomer, StoreCustomer, OpenSession, FailCall,
                  stripeVars, dbVars
    <2> QED  BY <1>3, <2>1
  <1>8. ASSUME UNCHANGED vars PROVE FetchedIsFresh'
    BY <1>3, <1>8 DEF vars, stripeVars, dbVars
  <1> QED
    BY <1>1, <1>2, <1>4, <1>5, <1>6, <1>7, <1>8 DEF Next, Deliver, Begin

\* R10.4 for one delivery at a time: then out-of-order events never take a row
\* back, for any subscriptions, events and failures.
THEOREM OneAtATimeNeverRegresses ==
    ASSUME \A g, h \in Hooks : g = h
    PROVE  Spec => NoRegress
  <1>1. Init => FetchedIsFresh
    BY DEF Init, IdleHook, FetchedIsFresh
  <1>2. IInv /\ RowsAreNotAhead /\ FetchedIsFresh /\ [Next]_vars => FetchedIsFresh'
    BY OneAtATimeIsFresh
  <1>3. IInv /\ FetchedIsFresh /\ [Next]_vars
            => [\A s \in Subs : row[s] # None => row'[s].ver >= row[s].ver]_row
    <2> SUFFICES ASSUME IInv, FetchedIsFresh, [Next]_vars, row' # row,
                        NEW s \in Subs, row[s] # None
                 PROVE  row'[s].ver >= row[s].ver
      OBVIOUS
    <2>1. PICK h \in Hooks : Sync(h)
      BY DEF Next, Deliver, Begin, vars, stripeVars, dbVars, LockOrg, CreateCustomer,
             StoreCustomer, OpenSession, FailCall, StripeChange, OtherEvent, RecordOnly,
             Refetch, Duplicate, Ignore, Claim, FailHook
    <2>2. row[s].ver \in Nat /\ hook[h].snap.ver \in Nat
      BY BillingAssumptions DEF IInv, TypeOK, Row, Hook, Snapshot
    <2>3. CASE s = event[hook[h].event].sub
      <3>1. row'[s].ver = hook[h].snap.ver
        BY <2>1, <2>3 DEF Sync, IInv, TypeOK
      <3> QED  BY <2>1, <2>2, <2>3, <3>1 DEF Sync, FetchedIsFresh
    <2>4. CASE s # event[hook[h].event].sub
      BY <2>1, <2>2, <2>4 DEF Sync, IInv, TypeOK
    <2> QED  BY <2>3, <2>4
  <1> QED  BY <1>1, <1>2, <1>3, RowsNotAhead, Invariance, PTL DEF Spec, NoRegress

\* Every row shows the newest state that it has held.
NewestShown == \A s \in Subs : row[s] # None => row[s].ver = row[s].top

\* While what is written is as fresh as the row, no row goes back to an older state.
LEMMA FreshKeepsNewest == IInv /\ FetchedIsFresh /\ NewestShown /\ [Next]_vars => NewestShown'
  <1> SUFFICES ASSUME IInv, FetchedIsFresh, NewestShown, [Next]_vars PROVE NewestShown'
    OBVIOUS
  <1>0. TypeOK /\ HooksHoldEvents
    BY DEF IInv
  <1>1. ASSUME NEW h \in Hooks, Sync(h) PROVE NewestShown'
    <2> DEFINE s == event[hook[h].event].sub
               v == hook[h].snap.ver
    <2>1. s \in Subs /\ v \in Nat /\ (row[s] # None => row[s].ver <= v /\ row[s].ver \in Nat)
      BY <1>0, <1>1, BillingAssumptions
      DEF TypeOK, HooksHoldEvents, Event, Row, Hook, Snapshot, Sync, FetchedIsFresh
    <2>2. row'[s].ver = v /\ row'[s].top = Newest(s, v) /\ \A x \in Subs \ {s} : row'[x] = row[x]
      BY <1>0, <1>1, <2>1 DEF TypeOK, Sync
    <2>3. Newest(s, v) = v
      BY <2>1 DEF Newest, NewestShown
    <2> QED  BY <2>2, <2>3 DEF NewestShown
  <1>2. CASE UNCHANGED row
    BY <1>2 DEF NewestShown
  <1> QED
    BY <1>1, <1>2 DEF Next, Deliver, Begin, vars, stripeVars, dbVars, LockOrg, CreateCustomer,
           StoreCustomer, OpenSession, FailCall, StripeChange, OtherEvent, RecordOnly,
           Refetch, Duplicate, Ignore, Claim, FailHook

\* With one delivery at a time a row whose events are all recorded shows Stripe's
\* last state now, not only at some time since.
THEOREM OneAtATimeIsCurrent ==
    ASSUME \A g, h \in Hooks : g = h
    PROVE  Spec => [](\A s \in Subs :
                        /\ sub[s].ver > 0 /\ sub[s].cust \notin Foreign
                        /\ \A e \in Events : event[e] # None /\ event[e].sub = s => e \in ledger
                        => row[s] # None /\ row[s].ver = sub[s].ver)
  <1> DEFINE Shown == \A s \in Subs :
                        /\ sub[s].ver > 0 /\ sub[s].cust \notin Foreign
                        /\ \A e \in Events : event[e] # None /\ event[e].sub = s => e \in ledger
                        => row[s] # None /\ row[s].ver = sub[s].ver
  <1>1. Init => FetchedIsFresh /\ NewestShown
    BY DEF Init, IdleHook, FetchedIsFresh, NewestShown
  <1>2. IInv /\ RowsAreNotAhead /\ FetchedIsFresh /\ [Next]_vars => FetchedIsFresh'
    BY OneAtATimeIsFresh
  <1>3. IInv /\ FetchedIsFresh /\ NewestShown /\ [Next]_vars => NewestShown'
    BY FreshKeepsNewest
  <1>4. RecordedIsCurrent /\ NewestShown => Shown
    BY DEF RecordedIsCurrent, NewestShown
  <1> QED  BY <1>1, <1>2, <1>3, <1>4, NothingIsMissed, RowsNotAhead, Invariance, PTL DEF Spec

\* No customer has two subscriptions.
OneSubEach == \A s, t \in Subs : sub[s].cust # None /\ sub[s].cust = sub[t].cust => s = t

\* A row is of a subscription whose customer is on record.
RowsHaveCustomers ==
    \A s \in Subs : row[s] # None =>
        /\ sub[s].cust \in Customers \ {None} /\ madeFor[sub[s].cust] \in Orgs
        /\ customer[madeFor[sub[s].cust]] = sub[s].cust

\* A sync writes the row and the plan of the same organisation; what leads from
\* the one to the other is never changed once it is there.
LEMMA PlanStep ==
    IInv /\ OneSubEach /\ RowsHaveCustomers /\ PlanFollowsRow /\ [Next]_vars
        => RowsHaveCustomers' /\ PlanFollowsRow'
  <1> SUFFICES ASSUME IInv, OneSubEach, RowsHaveCustomers, PlanFollowsRow, [Next]_vars
               PROVE  RowsHaveCustomers' /\ PlanFollowsRow'
    OBVIOUS
  <1> USE BillingAssumptions
  <1>0. TypeOK /\ CustomersMatchCalls /\ EventsNameCustomers /\ HooksHoldEvents
    BY DEF IInv
  <1>1. ASSUME NEW h \in Hooks, Sync(h) PROVE RowsHaveCustomers' /\ PlanFollowsRow'
    <2> DEFINE s == event[hook[h].event].sub
               o == hook[h].org
               pl == NewPlan(hook[h].snap, hook[h].plan)
    <2>1. /\ s \in Subs /\ o \in Orgs /\ sub[s].cust # None
          /\ customer[o] = sub[s].cust
      BY <1>0, <1>1 DEF TypeOK, Event, EventsNameCustomers, HooksHoldEvents, Sync
    <2>2. sub[s].cust \in Customers /\ madeFor[sub[s].cust] = o
      BY <1>0, <2>1 DEF TypeOK, Snapshot, CustomersMatchCalls
    <2>3. /\ row'[s].plan = pl /\ row'[s].status = MappedStatus(hook[h].snap.status)
          /\ \A t \in Subs \ {s} : row'[t] = row[t]
          /\ plan'[o] = pl /\ \A x \in Orgs \ {o} : plan'[x] = plan[x]
          /\ UNCHANGED <<sub, madeFor, customer>>
      BY <1>0, <1>1, <2>1 DEF TypeOK, Sync
    <2>4. \A t \in Subs \ {s} : row[t] # None => madeFor[sub[t].cust] # o
      BY <2>1 DEF OneSubEach, RowsHaveCustomers
    <2>5. RowsHaveCustomers'
      BY <2>1, <2>2, <2>3 DEF RowsHaveCustomers
    <2>6. row'[s].status = "canceled" => row'[s].plan = "free"
      BY <2>3 DEF NewPlan
    <2>7. ASSUME NEW t \in Subs \ {s}, row'[t] # None
          PROVE  /\ plan'[madeFor'[sub'[t].cust]] = row'[t].plan
                 /\ row'[t].status = "canceled" => row'[t].plan = "free"
      BY <2>3, <2>4, <2>7 DEF RowsHaveCustomers, PlanFollowsRow
    <2>8. PlanFollowsRow'
      BY <2>1, <2>2, <2>3, <2>6, <2>7 DEF PlanFollowsRow
    <2> QED  BY <2>5, <2>8
  <1>2. ASSUME UNCHANGED <<row, plan>>,
               \A s \in Subs : sub[s].cust # None => sub'[s].cust = sub[s].cust,
               \A c \in Customers : madeFor[c] # None => madeFor'[c] = madeFor[c],
               \A o \in Orgs : customer[o] # None => customer'[o] = customer[o]
        PROVE  RowsHaveCustomers' /\ PlanFollowsRow'
    <2>1. ASSUME NEW s \in Subs, row[s] # None
          PROVE  /\ sub'[s].cust = sub[s].cust
                 /\ madeFor'[sub[s].cust] = madeFor[sub[s].cust]
                 /\ customer'[madeFor[sub[s].cust]] = sub[s].cust
      BY <1>2, <2>1 DEF RowsHaveCustomers
    <2> QED  BY <1>2, <2>1 DEF RowsHaveCustomers, PlanFollowsRow
  <1>3. ASSUME NEW s \in Subs, NEW c \in Customers, NEW st \in Statuses,
               NEW pl \in Plans \cup {None}, NEW e \in Events, StripeChange(s, c, st, pl, e)
        PROVE  RowsHaveCustomers' /\ PlanFollowsRow'
    <2>1. \A t \in Subs : sub[t].cust # None => sub'[t].cust = sub[t].cust
      BY <1>0, <1>3 DEF TypeOK, StripeChange
    <2> QED  BY <1>2, <1>3, <2>1 DEF StripeChange, dbVars
  <1>4. ASSUME NEW k \in Calls, NEW c \in Customers, CreateCustomer(k, c)
        PROVE  RowsHaveCustomers' /\ PlanFollowsRow'
    <2>1. \A d \in Customers : madeFor[d] # None => madeFor'[d] = madeFor[d]
      BY <1>0, <1>4 DEF TypeOK, CreateCustomer
    <2> QED  BY <1>2, <1>4, <2>1 DEF CreateCustomer, dbVars
  <1>5. ASSUME NEW k \in Calls, StoreCustomer(k) PROVE RowsHaveCustomers' /\ PlanFollowsRow'
    <2>1. \A o \in Orgs : customer[o] # None => customer'[o] = customer[o]
      BY <1>0, <1>5 DEF TypeOK, StoreCustomer
    <2> QED  BY <1>2, <1>5, <2>1 DEF StoreCustomer, stripeVars
  <1>6. ASSUME UNCHANGED <<row, plan, sub, madeFor, customer>>
        PROVE  RowsHaveCustomers' /\ PlanFollowsRow'
    BY <1>2, <1>6
  <1>7. ASSUME NEW k \in Calls, (\E o \in Orgs : LockOrg(k, o)) \/ OpenSession(k) \/ FailCall(k)
        PROVE  RowsHaveCustomers' /\ PlanFollowsRow'
    BY <1>6, <1>7 DEF LockOrg, OpenSession, FailCall, stripeVars, dbVars
  <1>8. ASSUME NEW e \in Events, OtherEvent(e) \/ \E h \in Hooks : Deliver(h, e)
        PROVE  RowsHaveCustomers' /\ PlanFollowsRow'
    BY <1>6, <1>8 DEF OtherEvent, Deliver, RecordOnly, Refetch, stripeVars, dbVars
  <1>9. ASSUME NEW h \in Hooks, Begin(h) \/ FailHook(h)
        PROVE  RowsHaveCustomers' /\ PlanFollowsRow'
    BY <1>6, <1>9 DEF Begin, Duplicate, Ignore, Claim, FailHook, stripeVars, dbVars
  <1>10. ASSUME UNCHANGED vars PROVE RowsHaveCustomers' /\ PlanFollowsRow'
    BY <1>6, <1>10 DEF vars, stripeVars, dbVars
  <1> QED
    BY <1>1, <1>3, <1>4, <1>5, <1>7, <1>8, <1>9, <1>10 DEF Next

\* R9.3, R10.6: while no customer has two subscriptions, the two copies of an
\* organisation's plan agree, however deliveries overlap, repeat and fail.
THEOREM PlansFollowRows == Spec /\ []OneSubEach => []PlanFollowsRow
  <1>1. Init => RowsHaveCustomers /\ PlanFollowsRow
    BY DEF Init, RowsHaveCustomers, PlanFollowsRow
  <1> QED  BY <1>1, PlanStep, Invariance, PTL DEF Spec

-----------------------------------------------------------------------------
(* The deliveries implement SubscriptionSync.                               *)

\* At the start there is no subscription, no event and no copy.
LEMMA CopiesInit == Init => Copies!Init
  BY BillingAssumptions DEF Init, NoSub, Copies!Init, About

\* Where neither Stripe, nor the rows, nor the ledger, nor an answer changes, the
\* copies do not see a step.
LEMMA CopiesStay ==
    ASSUME UNCHANGED <<sub, event, row, ledger, acked>>
    PROVE  UNCHANGED Copies!vars
  BY DEF Copies!vars, About, Ours

\* What an event says is not nothing.
LEMMA NoticeIsSomething ==
    ASSUME TypeOK, NEW e \in Events, event[e] # None
    PROVE  /\ About(e) \in Notice /\ About(e) # None
           /\ About(e).sub = IF Ours(e) THEN event[e].sub ELSE None
           /\ Ours(e) => About(e).ver = event[e].snap.ver
  <1>1. event[e].sub \in Subs \cup {None} /\ event[e].snap.ver \in 0 .. MaxVersion
    BY DEF TypeOK, Event, Snapshot
  <1>2. About(e) \in Notice
    BY <1>1, BillingAssumptions DEF About, Notice
  <1> QED  BY <1>2, NoneIsNoRecord DEF About

\* An event recorded or answered is taken over, noted, or answered again.
LEMMA DeliveryStep ==
    ASSUME IInv, SyncInv, NEW h \in Hooks,
           (\E e \in Events : RecordOnly(h, e)) \/ Duplicate(h) \/ Ignore(h) \/ Sync(h)
    PROVE  [Copies!Next]_Copies!vars
  <1> DEFINE la == [s \in Subs |-> IF sub[s].cust \in Foreign THEN 0 ELSE sub[s].ver]
             ab == [e \in Events |-> About(e)]
             co == [s \in Subs |-> IF row[s] = None THEN 0 ELSE row[s].ver]
  <1> USE BillingAssumptions
  <1>0. /\ TypeOK /\ HooksHoldEvents /\ EventsNameCustomers /\ CustomersMatchCalls
        /\ RowsAreNotAhead /\ EventsTell
    BY DEF IInv, SyncInv
  <1>1. /\ UNCHANGED <<sub, event>> /\ la' = la /\ ab' = ab
    BY DEF RecordOnly, Duplicate, Ignore, Sync, About, Ours
  <1>2. ASSUME NEW e \in Events, e \in ledger,
               acked' = acked \cup {e}, UNCHANGED <<ledger, row>>
        PROVE  [Copies!Next]_Copies!vars
    <2>1. Copies!Again(e)
      BY <1>1, <1>2 DEF Copies!Again
    <2> QED  BY <2>1 DEF Copies!Next
  <1>3. ASSUME NEW e \in Events, event[e] # None, ~Ours(e), e \notin ledger,
               ledger' = ledger \cup {e}, acked' = acked \cup {e}, UNCHANGED row
        PROVE  [Copies!Next]_Copies!vars
    <2>1. About(e) # None /\ About(e).sub = None
      BY <1>0, <1>3, NoticeIsSomething
    <2>2. Copies!Note(e)
      BY <1>1, <1>3, <2>1 DEF Copies!Note
    <2> QED  BY <2>2 DEF Copies!Next
  <1>4. ASSUME NEW e \in Events, RecordOnly(h, e) PROVE [Copies!Next]_Copies!vars
    <2>1. event[e] # None /\ ~Ours(e) /\ ledger' = ledger \cup {e} /\ acked' = acked \cup {e}
          /\ UNCHANGED row
      BY <1>4 DEF RecordOnly, Ours
    <2>2. CASE e \in ledger
      BY <1>2, <2>1, <2>2
    <2>3. CASE e \notin ledger
      BY <1>3, <2>1, <2>3
    <2> QED  BY <2>2, <2>3
  <1>5. CASE Duplicate(h)
    BY <1>0, <1>2, <1>5 DEF Duplicate, HooksHoldEvents, dbVars
  <1>6. CASE Ignore(h)
    BY <1>0, <1>3, <1>6, IgnoredIsForeign DEF Ignore, Claimable, HooksHoldEvents
  <1>7. CASE Sync(h)
    <2> DEFINE v == hook[h].snap.ver
    <2>a. PICK e \in Events, s \in Subs : e = hook[h].event /\ s = event[e].sub
      BY <1>0, <1>7 DEF Sync, TypeOK, Event, HooksHoldEvents
    <2>1. /\ event[e] # None /\ e \notin ledger
          /\ hook[h].org \in Orgs /\ customer[hook[h].org] = event[e].snap.cust
          /\ event[e].snap.cust # None /\ event[e].snap.cust = sub[s].cust
      BY <1>0, <1>7, <2>a DEF Sync, TypeOK, Event, HooksHoldEvents, EventsNameCustomers
    <2>2. event[e].snap.cust \notin Foreign
      BY <1>0, <2>1 DEF CustomersMatchCalls
    <2>3. Ours(e)
      BY <2>a, <2>1, <2>2, BillingAssumptions DEF Ours
    <2>4. About(e) # None /\ About(e).sub = s /\ About(e).ver = event[e].snap.ver
      BY <1>0, <2>a, <2>1, <2>3, NoticeIsSomething
    <2>5. /\ event[e].snap.ver <= v /\ v <= sub[s].ver
          /\ v \in 0 .. MaxVersion /\ sub[s].ver \in Nat
      BY <1>0, <1>7, <2>a, <2>1 DEF EventsTell, RowsAreNotAhead, Sync, TypeOK, Snapshot, Hook
    <2>6. la[s] = sub[s].ver
      BY <2>1, <2>2
    <2>7. /\ ledger' = ledger \cup {e} /\ acked' = acked \cup {e}
          /\ row'[s].ver = v /\ \A x \in Subs \ {s} : row'[x] = row[x]
      BY <1>0, <1>7, <2>a DEF Sync, TypeOK
    <2>8. row'[s] # None
      BY <1>7, <2>a, SyncWritesRow
    <2>9. co' = [co EXCEPT ![s] = v]
      BY <2>7, <2>8
    <2>10. v \in About(e).ver .. la[s]
      BY <1>0, <2>1, <2>4, <2>5, <2>6 DEF TypeOK, Event, Snapshot
    <2>11. Copies!Take(s, e)
      BY <1>1, <2>1, <2>4, <2>7, <2>9, <2>10 DEF Copies!Take
    <2> QED  BY <2>11 DEF Copies!Next
  <1> QED  BY <1>4, <1>5, <1>6, <1>7

\* A change at Stripe, of a subscription of ours or not, is one event there too.
LEMMA StripeStep ==
    ASSUME IInv, SyncInv, NEW e \in Events,
           \/ OtherEvent(e)
           \/ \E s \in Subs, c \in Customers, st \in Statuses, pl \in Plans \cup {None} :
                StripeChange(s, c, st, pl, e)
    PROVE  [Copies!Next]_Copies!vars
  <1> DEFINE la == [s \in Subs |-> IF sub[s].cust \in Foreign THEN 0 ELSE sub[s].ver]
             ab == [x \in Events |-> About(x)]
  <1> USE BillingAssumptions
  <1>0. TypeOK /\ TypeOK' /\ EventsNameCustomers /\ EventsTell
    BY NextKeepsIInv DEF IInv, SyncInv, Next
  <1>1. /\ event[e] = None /\ About(e) = None /\ UNCHANGED <<row, ledger, acked>>
        /\ \A d \in Events \ {e} : event'[d] = event[d]
    BY <1>0 DEF OtherEvent, StripeChange, dbVars, TypeOK, About
  <1>2. \A d \in Events \ {e} : About(d)' = About(d)
    BY <1>1 DEF About, Ours
  <1>3. ASSUME About(e)' = [sub |-> None, ver |-> 0], la' = la
        PROVE  [Copies!Next]_Copies!vars
    <2>1. ab' = [ab EXCEPT ![e] = [sub |-> None, ver |-> 0]]
      BY <1>2, <1>3
    <2>2. Copies!Other(e)
      BY <1>1, <1>3, <2>1 DEF Copies!Other
    <2> QED  BY <2>2 DEF Copies!Next
  <1>4. CASE OtherEvent(e)
    <2>1. event'[e] = [sub |-> None, snap |-> NoSub] /\ UNCHANGED sub
      BY <1>0, <1>4 DEF OtherEvent, TypeOK
    <2>2. event'[e] # None
      BY <2>1, NoneIsNoRecord DEF Event, NoSub, Snapshot
    <2>3. About(e)' = [sub |-> None, ver |-> 0] /\ la' = la
      BY <2>1, <2>2 DEF About, Ours
    <2> QED  BY <1>3, <2>3
  <1>5. ASSUME NEW s \in Subs, NEW c \in Customers, NEW st \in Statuses,
               NEW pl \in Plans \cup {None}, StripeChange(s, c, st, pl, e)
        PROVE  [Copies!Next]_Copies!vars
    <2> DEFINE new == [cust |-> c, status |-> st, plan |-> pl, ver |-> sub[s].ver + 1]
    <2>1. /\ sub' = [sub EXCEPT ![s] = new] /\ event'[e] = [sub |-> s, snap |-> new]
          /\ sub[s].cust = None \/ sub[s].cust = c
          /\ sub[s].ver < MaxVersion
      BY <1>0, <1>5 DEF StripeChange, TypeOK
    <2>2. sub[s].ver \in Nat /\ new \in Snapshot
      BY <1>0, <2>1 DEF TypeOK, Snapshot
    <2>3. new.cust = c /\ new.ver = sub[s].ver + 1
      OBVIOUS
    <2> HIDE DEF new
    <2>4. event'[e] # None /\ event'[e].sub = s /\ event'[e].snap = new
      BY <2>1, <2>2, NoneIsNoRecord DEF Event
    <2>5. sub'[s] = new /\ \A x \in Subs \ {s} : sub'[x] = sub[x]
      BY <1>0, <2>1 DEF TypeOK
    <2>6. sub[s].cust = None => sub[s].ver = 0
      BY <1>0, <2>2 DEF EventsTell, EventsNameCustomers
    <2>7. CASE c \in Foreign
      <3>1. About(e)' = [sub |-> None, ver |-> 0]
        BY <2>3, <2>4, <2>7 DEF About, Ours
      <3>2. la' = la
        BY <2>1, <2>3, <2>5, <2>6, <2>7
      <3> QED  BY <1>3, <3>1, <3>2
    <2>8. CASE c \notin Foreign
      <3>1. la[s] = sub[s].ver
        BY <2>1, <2>8
      <3>2. About(e)' = [sub |-> s, ver |-> la[s] + 1]
        BY <2>3, <2>4, <2>8, <3>1 DEF About, Ours
      <3>3. ab' = [ab EXCEPT ![e] = [sub |-> s, ver |-> la[s] + 1]]
        BY <1>2, <3>2
      <3>4. la' = [la EXCEPT ![s] = la[s] + 1]
        BY <2>3, <2>5, <2>8, <3>1
      <3>5. Copies!Change(s, e)
        BY <1>1, <3>3, <3>4 DEF Copies!Change
      <3> QED  BY <3>5 DEF Copies!Next
    <2> QED  BY <2>7, <2>8
  <1> QED  BY <1>4, <1>5

\* Every step of billing is a step of the copies or leaves them alone.
LEMMA CopiesStep == IInv /\ SyncInv /\ [Next]_vars => [Copies!Next]_Copies!vars
  <1> SUFFICES ASSUME IInv, SyncInv, [Next]_vars PROVE [Copies!Next]_Copies!vars
    OBVIOUS
  <1>1. ASSUME NEW k \in Calls,
               \/ \E o \in Orgs : LockOrg(k, o)
               \/ \E c \in Customers : CreateCustomer(k, c)
               \/ StoreCustomer(k) \/ OpenSession(k) \/ FailCall(k)
        PROVE  UNCHANGED Copies!vars
    BY <1>1, CopiesStay DEF LockOrg, CreateCustomer, StoreCustomer, OpenSession, FailCall,
                            stripeVars, dbVars
  <1>2. ASSUME NEW h \in Hooks,
               \/ \E e \in Events : Refetch(h, e)
               \/ \E o \in Orgs : Claim(h, o)
               \/ FailHook(h)
        PROVE  UNCHANGED Copies!vars
    BY <1>2, CopiesStay DEF Refetch, Claim, FailHook, stripeVars, dbVars
  <1>3. ASSUME UNCHANGED vars PROVE UNCHANGED Copies!vars
    BY <1>3, CopiesStay DEF vars, stripeVars, dbVars
  <1> QED  BY <1>1, <1>2, <1>3, DeliveryStep, StripeStep DEF Next, Deliver, Begin

\* R10.3, R10.4: the webhook endpoint, with its overlapping, repeated and failing
\* deliveries, takes over each event once, with a state no older than the event.
THEOREM Refinement == Spec => ImplementsSync
  BY CopiesInit, CopiesStep, Invariance, SyncInvariance, PTL
  DEF Spec, ImplementsSync, Copies!Spec
=============================================================================

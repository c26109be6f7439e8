-------------------------- MODULE SubscriptionSync --------------------------
(* What the webhook endpoint promises of the local copies of Stripe's       *)
(* subscriptions, with no deliveries, refetches, ledger rows or locks in     *)
(* sight: every event is taken over exactly once, in one step that leaves   *)
(* the copy in some state that Stripe has reached since the event, and only *)
(* an event that was taken over is ever acknowledged.                       *)
(* Requirements R10.3 and R10.4 of                                          *)
(* src/.kiro/specs/tenantforge/requirements.md say this in prose.           *)
EXTENDS Integers

CONSTANTS Subs, Events, None

VARIABLES
    latest,  \* [Subs -> Nat]: Stripe's version of each subscription, 0 for none
    about,   \* [Events -> {None} or [sub, ver]]: what an event is about
    done,    \* SUBSET Events: taken over
    told,    \* SUBSET Events: acknowledged, and not delivered again
    copy     \* [Subs -> Nat]: the version of the local copy, 0 for none

vars == <<latest, about, done, told, copy>>

Init ==
    /\ latest = [s \in Subs |-> 0]
    /\ about = [e \in Events |-> None]
    /\ done = {} /\ told = {}
    /\ copy = [s \in Subs |-> 0]

\* A subscription gets its next version, and an event says so.
Change(s, e) ==
    /\ about[e] = None
    /\ latest' = [latest EXCEPT ![s] = @ + 1]
    /\ about' = [about EXCEPT ![e] = [sub |-> s, ver |-> latest[s] + 1]]
    /\ UNCHANGED <<done, told, copy>>

\* An event about nothing that is copied.
Other(e) ==
    /\ about[e] = None
    /\ about' = [about EXCEPT ![e] = [sub |-> None, ver |-> 0]]
    /\ UNCHANGED <<latest, done, told, copy>>

\* An event is taken over and acknowledged; the copy may pass over versions, and
\* another event may have brought it further already.
Take(s, e) ==
    /\ about[e] # None /\ about[e].sub = s
    /\ e \notin done
    /\ \E v \in about[e].ver .. latest[s] : copy' = [copy EXCEPT ![s] = v]
    /\ done' = done \cup {e}
    /\ told' = told \cup {e}
    /\ UNCHANGED <<latest, about>>

\* One about nothing that is copied is only noted.
Note(e) ==
    /\ about[e] # None /\ about[e].sub = None
    /\ e \notin done
    /\ done' = done \cup {e}
    /\ told' = told \cup {e}
    /\ UNCHANGED <<latest, about, copy>>

\* One that comes again after that is acknowledged without effect.
Again(e) ==
    /\ e \in done
    /\ told' = told \cup {e}
    /\ UNCHANGED <<latest, about, done, copy>>

Next ==
    \E e \in Events :
        \/ \E s \in Subs : Change(s, e) \/ Take(s, e)
        \/ Other(e) \/ Note(e) \/ Again(e)

Spec == Init /\ [][Next]_vars
=============================================================================

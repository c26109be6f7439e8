---------------------------- MODULE TenantAccess ----------------------------
(* What login, refresh and cancellation promise of a tenant's sessions, with *)
(* no tokens, families, passwords, statements or pools in sight: a session   *)
(* is opened only by an attempt that began while the organisation was not    *)
(* deleted or had a session open, and a cancellation ends the tenant's       *)
(* unless one was opened while the cancellation was under way.               *)
(* Requirements R2.2 and R2.3 of                                             *)
(* src/.kiro/specs/tenantforge/requirements.md say this in prose.            *)
(* Sessions implements it token by token, Gateway route by route.            *)
CONSTANTS Tenants

VARIABLES
    deleted,    \* SUBSET Tenants: cancelled
    open,       \* SUBSET Tenants: those with a session
    opening,    \* SUBSET Tenants: those for which an attempt is under way
    cancelling, \* SUBSET Tenants: those of which a cancellation is under way
    missed      \* SUBSET Tenants: those of them with a session it will not end

vars == <<deleted, open, opening, cancelling, missed>>

Init == deleted = {} /\ open = {} /\ opening = {} /\ cancelling = {} /\ missed = {}

\* A login finds the organisation, or a refresh its session.
Begin(t) ==
    /\ t \notin deleted \/ t \in open
    /\ opening' = opening \cup {t}
    /\ UNCHANGED <<deleted, open, cancelling, missed>>

\* The attempt ends in a session; another may be under way.  A cancellation that
\* is under way may miss the session.
Open(t) ==
    /\ t \in opening
    /\ open' = open \cup {t}
    /\ opening' \in {opening, opening \ {t}}
    /\ missed' \in {missed, missed \cup ({t} \cap cancelling)}
    /\ UNCHANGED <<deleted, cancelling>>

\* It ends in an error.
GiveUp(t) ==
    /\ opening' = opening \ {t}
    /\ UNCHANGED <<deleted, open, cancelling, missed>>

\* Sessions end: reset, reuse, expiry.
Close ==
    /\ open' \in SUBSET open
    /\ UNCHANGED <<deleted, opening, cancelling, missed>>

StartCancel(t) ==
    /\ cancelling' = cancelling \cup {t}
    /\ UNCHANGED <<deleted, open, opening, missed>>

\* A cancellation is over; another of the tenant may be under way.
EndCancel(t) ==
    /\ cancelling' \in {cancelling, cancelling \ {t}}
    /\ missed' = missed \ {t}
    /\ UNCHANGED opening

\* It leaves none of the tenant's sessions but those it has missed, none at all
\* if it takes a single step; whether it leaves those of others is not said here.
Cancel(t) ==
    /\ deleted' = deleted \cup {t}
    /\ open' \in SUBSET open
    /\ t \notin missed => t \notin open'
    /\ EndCancel(t)

\* It ends in an error.
GiveUpCancel(t) ==
    /\ EndCancel(t)
    /\ UNCHANGED <<deleted, open>>

Next ==
    \/ \E t \in Tenants :
        \/ Begin(t) \/ Open(t) \/ GiveUp(t)
        \/ StartCancel(t) \/ Cancel(t) \/ GiveUpCancel(t)
    \/ Close

Spec == Init /\ [][Next]_vars
=============================================================================

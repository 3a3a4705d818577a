----------------------------- MODULE TxApproval -----------------------------
(***************************************************************************)
(* What the sign command promises, without APDUs, screens or buffers: a    *)
(* transaction is offered to the user, the user consents to it or it is    *)
(* withdrawn, and a signature is released only over the transaction the    *)
(* user consented to, once.                                                *)
(***************************************************************************)
CONSTANTS
    Transactions,   \* what a signature can cover
    None            \* no transaction

VARIABLES
    offer,      \* the transaction the user is looking at
    consent,    \* the user has approved it
    released    \* the transaction of the last signature sent

approval == <<offer, consent, released>>

TypeOK ==
    /\ offer \in Transactions \union {None}
    /\ consent \in BOOLEAN
    /\ released \in Transactions \union {None}
    /\ consent => offer # None

Init ==
    /\ offer = None
    /\ consent = FALSE
    /\ released = None

\* A request arrives: what was on offer is dropped, what was released is past.
Offer ==
    /\ offer' \in Transactions
    /\ consent' = FALSE
    /\ released' = None

Consent ==
    /\ offer # None
    /\ ~ consent
    /\ consent' = TRUE
    /\ UNCHANGED <<offer, released>>

Release ==
    /\ consent
    /\ released' = offer
    /\ offer' = None
    /\ consent' = FALSE

\* The user rejects, signing fails, or something else takes the screen.
Withdraw ==
    /\ offer # None
    /\ offer' = None
    /\ consent' = FALSE
    /\ released' = None

\* Another request makes the last release history; the offer stands.
Forget ==
    /\ released # None
    /\ released' = None
    /\ UNCHANGED <<offer, consent>>

Next == Offer \/ Consent \/ Release \/ Withdraw \/ Forget

Spec == Init /\ [][Next]_approval
=============================================================================

-------------------------- MODULE SettlementContract --------------------------
(***************************************************************************)
(* What the payment module promises its neighbours about one payment, with *)
(* nothing said of the calls, retries and crashes behind it.  A payment is *)
(* opened, and then either refused for good or settled exactly once; a     *)
(* settled payment can be unwound exactly once.  The entry never runs      *)
(* ahead of the ledger: it is settled only when the general ledger already *)
(* holds its journal, and unwound only when the ledger already holds the   *)
(* mirror.  When emission is durable, settling and announcing the          *)
(* settlement are one indivisible step.                                    *)
(***************************************************************************)
EXTENDS Naturals

CONSTANTS
    Payments,
    Durable        \* TRUE iff the settlement is announced through the outbox

VARIABLES
    phase,         \* what the entry says
    books,         \* what the general ledger holds for the payment
    announced      \* how often a durable settlement notice was recorded

contractVars == <<phase, books, announced>>

Phases == {"absent", "open", "rejected", "settled", "cancelled"}
Books == {"none", "posted", "mirrored"}

Init ==
    /\ phase = [p \in Payments |-> "absent"]
    /\ books = [p \in Payments |-> "none"]
    /\ announced = [p \in Payments |-> 0]

Open(p) ==
    /\ phase[p] = "absent"
    /\ phase' = [phase EXCEPT ![p] = "open"]
    /\ UNCHANGED <<books, announced>>

\* Refusing is a change of label: the ledger is not consulted.
Refuse(p) ==
    /\ phase[p] = "open"
    /\ phase' = [phase EXCEPT ![p] = "rejected"]
    /\ UNCHANGED <<books, announced>>

\* The ledger takes the journal.  Nothing ties this to the entry still being
\* open: a call that read the entry before it was rejected may arrive after.
Record(p) ==
    /\ phase[p] # "absent"
    /\ books[p] = "none"
    /\ books' = [books EXCEPT ![p] = "posted"]
    /\ UNCHANGED <<phase, announced>>

Settle(p) ==
    /\ phase[p] = "open"
    /\ books[p] = "posted"
    /\ phase' = [phase EXCEPT ![p] = "settled"]
    /\ announced' = IF Durable THEN [announced EXCEPT ![p] = @ + 1]
                               ELSE announced
    /\ UNCHANGED books

Mirror(p) ==
    /\ phase[p] = "settled"
    /\ books[p] = "posted"
    /\ books' = [books EXCEPT ![p] = "mirrored"]
    /\ UNCHANGED <<phase, announced>>

Unwind(p) ==
    /\ phase[p] = "settled"
    /\ books[p] = "mirrored"
    /\ phase' = [phase EXCEPT ![p] = "cancelled"]
    /\ UNCHANGED <<books, announced>>

Next ==
    \E p \in Payments :
        \/ Open(p)   \/ Refuse(p) \/ Record(p)
        \/ Settle(p) \/ Mirror(p) \/ Unwind(p)

Spec == Init /\ [][Next]_contractVars
===============================================================================

---------------------------- MODULE SettlementSeam ----------------------------
(***************************************************************************)
(* The seam between payment and billing: the verbs of PaymentLifecycle,    *)
(* the relay that drains the outbox, and billing, which draws the invoices *)
(* of a payment down and restores them.                                    *)
(*                                                                         *)
(* Relay and billing are external and known from the seam they are         *)
(* composed in.  The relay hands a staged row to the consumer until it has *)
(* marked the row published, so that a stop in between delivers it again.  *)
(* The consumer applies a row and remembers its event id in one            *)
(* transaction.  What the module publishes in process is routed to billing *)
(* afterwards, in order; nothing is lost on the way, the best case.        *)
(* PaymentSettled travels through the outbox when there is one, and        *)
(* PaymentCancelled always in process.                                     *)
(*                                                                         *)
(* The allocations of a payment are applied together; how far an invoice   *)
(* can be drawn down is billing's own bound and not modelled.              *)
(***************************************************************************)
EXTENDS PaymentLifecycle

VARIABLES
    published,      \* outbox rows the relay has marked
    consumed,       \* billing.inbox_consumed: event ids applied
    routed,         \* how many in-process events of a payment reached billing
    drawn,          \* how often billing drew the payment's invoices down
    restored        \* how often it restored them

seamVars == <<published, consumed, routed, drawn, restored>>
allVars == <<vars, seamVars>>

\* A staged row is known by its payment and its place in the outbox.
EventIds == Payments \X Nat

SeamInit ==
    /\ Init
    /\ published = {}
    /\ consumed = {}
    /\ routed = [p \in Payments |-> 0]
    /\ drawn = [p \in Payments |-> 0]
    /\ restored = [p \in Payments |-> 0]

-------------------------------------------------------------------------------
\* One consume: the inbox row and the drawdown, unless the event was consumed.
Deliver(p, i) ==
    /\ <<p, i>> \notin published
    /\ consumed' = consumed \cup {<<p, i>>}
    /\ drawn' = IF <<p, i>> \in consumed THEN drawn
                                        ELSE [drawn EXCEPT ![p] = @ + 1]
    /\ UNCHANGED <<vars, published, routed, restored>>

\* The relay marks the row, if it is still running by then.
MarkPublished(p, i) ==
    /\ <<p, i>> \in consumed \ published
    /\ published' = published \cup {<<p, i>>}
    /\ UNCHANGED <<vars, consumed, routed, drawn, restored>>

\* Restoring looks for the settlement to unlink and finds it or not.
Restores(p, event) ==
    event.type = "PaymentCancelled" /\ drawn[p] > restored[p]

\* Without an outbox the drawdown hangs on the in-process event.
Draws(p, event) == event.type = "PaymentSettled" /\ ~OutboxOn

Route(p) ==
    /\ routed[p] < Len(bus[p])
    /\ LET event == bus[p][routed[p] + 1] IN
       /\ drawn' = IF Draws(p, event) THEN [drawn EXCEPT ![p] = @ + 1] ELSE drawn
       /\ restored' = IF Restores(p, event) THEN [restored EXCEPT ![p] = @ + 1]
                                            ELSE restored
    /\ routed' = [routed EXCEPT ![p] = @ + 1]
    /\ UNCHANGED <<vars, published, consumed>>

Relay(p) == \E i \in DOMAIN outbox[p] : Deliver(p, i) \/ MarkPublished(p, i)

SeamNext ==
    \/ Next /\ UNCHANGED seamVars
    \/ \E p \in Payments : Relay(p) \/ Route(p)

\* The relay is a job of the composing service that runs again after every
\* stop; no call of this module has to make progress.
SeamSpec == SeamInit /\ [][SeamNext]_allVars
FairSeamSpec == SeamSpec /\ \A p \in Payments : WF_allVars(Relay(p))

-------------------------------------------------------------------------------
SeamTypeOK ==
    /\ TypeOK
    /\ published \subseteq EventIds /\ consumed \subseteq EventIds
    /\ routed \in [Payments -> Nat]
    /\ drawn \in [Payments -> Nat] /\ restored \in [Payments -> Nat]

\* The invoices of a payment are drawn down at most once and restored no more
\* often than that, whatever the calls race, whoever stops, and however often
\* the relay delivers: the inbox forgives a repeated row, and would not
\* forgive a second row for the same settlement.
DrawnAtMostOnce ==
    \A p \in Payments : drawn[p] <= 1 /\ restored[p] <= drawn[p]

\* Billing never runs ahead of the books: an invoice drawn down has the
\* journal of its payment in the ledger, and one restored has the mirror.
BillingFollowsTheBooks ==
    \A p \in Payments :
        /\ drawn[p] > 0 => Posted(p) /\ Holds(p, "original")
        /\ restored[p] > 0 => status[p] = "cancelled" /\ Holds(p, "reversal")

\* With the outbox every committed post reaches the invoices, though the call
\* that committed it may stop at once, and the relay at any row.
EveryPostDrawsDown ==
    \A p \in Payments : (OutboxOn /\ Posted(p)) ~> (drawn[p] = 1)

-------------------------------------------------------------------------------
\* reverse_payment "emits PaymentCancelled ..., so an ACL routes each ->
\* billing::reverse_settlement to restore the invoices' outstanding": when
\* everything announced has arrived, no cancelled payment has drawn invoices
\* that were not restored.
CancelledIsRestored ==
    \A p \in Payments :
        /\ Emitted(p, "PaymentCancelled") # {}
        /\ routed[p] = Len(bus[p])
        /\ \A i \in DOMAIN outbox[p] : <<p, i>> \in published
        => drawn[p] = restored[p]
===============================================================================

--------------------------- MODULE PaymentLifecycle ---------------------------
(***************************************************************************)
(* The write side of the payment module: one payment entry per element of  *)
(* Payments, and the verbs that move it.                                   *)
(*                                                                         *)
(*   create_payment, submit_payment, reject_payment, confirm_cash_once     *)
(*       one database statement or transaction each, hence one action;     *)
(*   post_payment, reverse_payment                                         *)
(*       a sequence of awaits (reads, the discount and reconcilability     *)
(*       ports, the general-ledger sink, the committing transaction, the   *)
(*       in-process publish), hence one action per await, run by any       *)
(*       number of concurrent Workers.                                     *)
(*                                                                         *)
(* A worker can stop at any await: the process crashes, the request future *)
(* is dropped, or a port or the database returns an error through `?`.     *)
(* What it had written stays written, what it held in memory is gone.      *)
(*                                                                         *)
(* The general ledger is external.  It is known to this code through       *)
(* GlPostSink::post: it remembers one journal per idempotency key, returns *)
(* that journal again for a repeated key, may refuse, and may fail to      *)
(* answer after it has committed.                                          *)
(*                                                                         *)
(* Amounts are left to the settlement arithmetic: here a discount decision *)
(* is a value per allocation, and a journal is identified with the         *)
(* decision its legs were assembled from.  The method of an entry is kept  *)
(* as cash or not, all that landing_state looks at.                        *)
(***************************************************************************)
EXTENDS Naturals, Sequences

CONSTANTS
    Payments,       \* payment ids
    Allocs,         \* the allocation lines of a payment
    Discounts,      \* early-pay discount amounts; 0 is "none"
    Workers,        \* concurrent callers of post_payment and reverse_payment
    Clearances,     \* event ids of BankClearanceRecorded
    ClearanceFor,   \* the payment each of those events names
    OnAccount,      \* payments with an unallocated remainder
    OutboxOn,       \* with_outbox_schema was called on the service
    None            \* no journal, no payment

Statuses == {"absent", "draft", "submitted", "in_flight", "paid",
             "rejected", "cancelled"}
Landed == {"in_flight", "paid"}
PostingStates == {"pending", "failed", "posted"}
Methods == {"cash", "bank_transfer"}
Decisions == [Allocs -> Discounts]
PostingTypes == {"original", "reversal"}
Keys == Payments \X PostingTypes

PostSteps == {"gate", "decide", "sink", "mark_failed", "commit", "emit_settled"}
ReverseSteps == {"build", "mirror", "cancel", "emit_cancelled"}
Steps == PostSteps \cup ReverseSteps

EventTypes == {"PaymentSettled", "PaymentReceivedOnAccount", "PaymentCancelled"}
Events == [type : EventTypes, discount : Decisions]
Notices == [discount : Decisions, status : Landed]

NoDiscount == [a \in Allocs |-> 0]

\* A call: where it is, its payment, the decision its legs are assembled from,
\* the allocations decided by this call, and the status a post would land on.
Idle == [at |-> "idle", payment |-> None, decided |-> NoDiscount,
         fresh |-> {}, landing |-> "paid"]
Busy == [at : Steps, payment : Payments, decided : Decisions,
         fresh : SUBSET Allocs, landing : Landed]
Calls == {Idle} \cup Busy

ASSUME DiscountAssumption == Discounts \subseteq Nat /\ 0 \in Discounts
ASSUME NoneAssumption == None \notin Payments /\ None \notin Decisions
ASSUME ClearanceAssumption == ClearanceFor \in [Clearances -> Payments]
ASSUME ConfigAssumption == OnAccount \subseteq Payments /\ OutboxOn \in BOOLEAN

VARIABLES
    status,         \* payment_entries.status, the fused lifecycle
    posting_state,  \* payment_entries.posting_state, the GL-sync truth
    method,         \* payment_entries.method
    journal_id,     \* payment_entries.journal_id (and accounting_post_id)
    discount,       \* payment_allocations.discount_amount: the stamps
    outbox,         \* PaymentSettled rows staged in <schema>.outbox_events
    inbox,          \* payment.inbox_consumed: clearance events consumed
    ledger,         \* the general ledger: the journal held under each key
    bus,            \* events published through the in-process sink
    call            \* what each worker is executing

entryVars == <<status, posting_state, method, journal_id>>
vars == <<status, posting_state, method, journal_id, discount, outbox, inbox,
          ledger, bus, call>>

Init ==
    /\ status = [p \in Payments |-> "absent"]
    /\ posting_state = [p \in Payments |-> "pending"]
    /\ method = [p \in Payments |-> "cash"]
    /\ journal_id = [p \in Payments |-> None]
    /\ discount = [p \in Payments |-> NoDiscount]
    /\ outbox = [p \in Payments |-> <<>>]
    /\ inbox = {}
    /\ ledger = [k \in Keys |-> None]
    /\ bus = [p \in Payments |-> <<>>]
    /\ call = [w \in Workers |-> Idle]

-------------------------------------------------------------------------------
(***************************************************************************)
(* The WHERE clauses of the compare-and-set updates, and the gates the     *)
(* verbs read before they act.  An update whose clause does not match      *)
(* writes nothing and reports zero rows.  An operator whose comment starts *)
(* with "Fault:" is a wrong version of the definition after it; no action  *)
(* uses it.                                                                *)
(***************************************************************************)

\* Fault: any unposted entry transitions, whatever its status.
PostableIgnoringStatus(p) == posting_state[p] \in {"pending", "failed"}

\* Fault: the posted-transition forgets that another call may have made it.
PostableAgain(p) == status[p] \in {"draft", "submitted"} \cup Landed

Postable(p) ==
    /\ posting_state[p] \in {"pending", "failed"}
    /\ status[p] \in {"draft", "submitted"}

\* Fault: a late failure is recorded over a committed post.
FailableAlways(p) == TRUE

Failable(p) == posting_state[p] \in {"pending", "failed"}

\* Fault: a repeated cancellation reports a row again.
CancellableAgain(p) ==
    /\ posting_state[p] = "posted"
    /\ status[p] \in Landed \cup {"cancelled"}

Cancellable(p) ==
    /\ posting_state[p] = "posted"
    /\ status[p] \in Landed

Reversible(p) ==
    /\ status[p] \in Landed \cup {"cancelled"}
    /\ posting_state[p] = "posted"

\* post_payment's short circuit: the entry already carries its journal.
AlreadyPosted(p) == posting_state[p] = "posted" /\ journal_id[p] # None

\* What the reconcilability port answers for the bank account.  It refuses
\* without the accounting schema, or the account, and then the call ends.
BankReconcilable == BOOLEAN

\* Fault: the status a post used to land on before the lifecycles were fused.
LandingBeforeFusion(reconcilable, m) == "posted"

\* Cash, or a bank account no statement will ever confirm, lands paid.
LandingState(reconcilable, m) ==
    IF m = "cash" \/ ~reconcilable THEN "paid" ELSE "in_flight"

-------------------------------------------------------------------------------
(***************************************************************************)
(* The general ledger, external.  An idempotency key names one journal     *)
(* forever: the first post under the key writes it, a later one gets the   *)
(* same journal back whatever lines it carried.                            *)
(***************************************************************************)

\* Fault: the reversal travels under the key of the post it reverses.
SharedKey(p, type) == <<p, "original">>

IdempotencyKey(p, type) == <<p, type>>

Holds(p, type) == ledger[<<p, type>>] # None

GlPost(key, lines) ==
    ledger' = IF ledger[key] = None THEN [ledger EXCEPT ![key] = lines] ELSE ledger

\* Fault: a refused post is carried on with as if it had been acknowledged.
RefusalIgnored(outcome) == "commit"

\* What the sink answers decides how post_payment goes on.
AfterPost(outcome) == IF outcome = "ack" THEN "commit" ELSE "mark_failed"

-------------------------------------------------------------------------------
(***************************************************************************)
(* Calls.                                                                  *)
(***************************************************************************)
At(w, step) == call[w].at = step
Goto(w, step) == call' = [call EXCEPT ![w].at = step]
Return(w) == call' = [call EXCEPT ![w] = Idle]

\* The call ends at an await, in a crash or in an error, and is forgotten.
Abandon(w) ==
    /\ call[w] # Idle
    /\ Return(w)
    /\ UNCHANGED <<entryVars, discount, outbox, inbox, ledger, bus>>

(***************************************************************************)
(* create_payment, submit_payment, reject_payment, confirm_cash_once.      *)
(***************************************************************************)
Create(p) ==
    /\ status[p] = "absent"
    /\ status' = [status EXCEPT ![p] = "draft"]
    /\ posting_state' = [posting_state EXCEPT ![p] = "pending"]
    /\ \E m \in Methods : method' = [method EXCEPT ![p] = m]
    /\ discount' = [discount EXCEPT ![p] = NoDiscount]
    /\ UNCHANGED <<journal_id, outbox, inbox, ledger, bus, call>>

Submit(p) ==
    /\ status[p] = "draft"
    /\ status' = [status EXCEPT ![p] = "submitted"]
    /\ UNCHANGED <<posting_state, method, journal_id, discount, outbox, inbox,
                   ledger, bus, call>>

\* The update looks at the status alone: an entry whose post failed, or is
\* being posted by somebody else, is rejected all the same.
Reject(p) ==
    /\ status[p] = "submitted"
    /\ status' = [status EXCEPT ![p] = "rejected"]
    /\ UNCHANGED <<posting_state, method, journal_id, discount, outbox, inbox,
                   ledger, bus, call>>

\* Fault: the consumer drifts the entry on every delivery of an event.
ConfirmEveryDelivery(e) ==
    LET p == ClearanceFor[e] IN
    /\ inbox' = inbox \cup {e}
    /\ status' = IF status[p] = "in_flight"
                   THEN [status EXCEPT ![p] = "paid"] ELSE status
    /\ UNCHANGED <<posting_state, method, journal_id, discount, outbox, ledger,
                   bus, call>>

\* One transaction: the inbox row and the drift.  A first delivery is consumed
\* even when the entry is not in flight; a redelivery changes nothing.
ConfirmCash(e) ==
    LET p == ClearanceFor[e] IN
    /\ inbox' = inbox \cup {e}
    /\ status' = IF e \notin inbox /\ status[p] = "in_flight"
                   THEN [status EXCEPT ![p] = "paid"] ELSE status
    /\ UNCHANGED <<posting_state, method, journal_id, discount, outbox, ledger,
                   bus, call>>

-------------------------------------------------------------------------------
(***************************************************************************)
(* post_payment.                                                           *)
(***************************************************************************)

\* The short circuit: a posted entry returns its outcome at once, so only an
\* entry read as unposted goes on.
PostStart(w, p) ==
    /\ call[w] = Idle
    /\ status[p] # "absent"
    /\ ~AlreadyPosted(p)
    /\ call' = [call EXCEPT ![w].at = "gate", ![w].payment = p]
    /\ UNCHANGED <<entryVars, discount, outbox, inbox, ledger, bus>>

\* fetch_post_source and the pre-sink gate: a status other than draft or
\* submitted is refused here, before the ledger hears of the payment.
PostGate(w) ==
    /\ At(w, "gate")
    /\ IF status[call[w].payment] \in {"draft", "submitted"}
         THEN Goto(w, "decide")
         ELSE Return(w)
    /\ UNCHANGED <<entryVars, discount, outbox, inbox, ledger, bus>>

\* fetch_for_payment, then the discount port, the reconcilability port and
\* the assembly of the envelope.  A stamped allocation keeps its stamp; an
\* unstamped one takes what the port answers today, which is fresh when the
\* port answers at all.
PostDecide(w) ==
    LET p == call[w].payment
        unstamped == {a \in Allocs : discount[p][a] = 0}
    IN
    /\ At(w, "decide")
    /\ \E fresh \in SUBSET unstamped :
       \E answer \in [fresh -> Discounts], reconcilable \in BankReconcilable :
           call' = [call EXCEPT
               ![w].at = "sink",
               ![w].decided = [a \in Allocs |->
                   IF a \in fresh THEN answer[a] ELSE discount[p][a]],
               ![w].fresh = fresh,
               ![w].landing = LandingState(reconcilable, method[p])]
    /\ UNCHANGED <<entryVars, discount, outbox, inbox, ledger, bus>>

\* The sink answers: it acknowledges, refuses without posting, or loses its
\* answer after posting, which this code cannot tell from a refusal.
PostSink(w, outcome) ==
    LET c == call[w] IN
    /\ At(w, "sink")
    /\ IF outcome = "refused"
         THEN UNCHANGED ledger
         ELSE GlPost(IdempotencyKey(c.payment, "original"), c.decided)
    /\ Goto(w, AfterPost(outcome))
    /\ UNCHANGED <<entryVars, discount, outbox, inbox, bus>>

\* mark_failed, whose result is ignored; the status keeps its value.
PostMarkFailed(w) ==
    LET p == call[w].payment IN
    /\ At(w, "mark_failed")
    /\ posting_state' = IF Failable(p)
                          THEN [posting_state EXCEPT ![p] = "failed"]
                          ELSE posting_state
    /\ Return(w)
    /\ UNCHANGED <<status, method, journal_id, discount, outbox, inbox, ledger,
                   bus>>

\* Fault: the decision is journaled and announced but never stamped.
StampForgotten(c) == discount[c.payment]

\* stamp_discount over the fresh decisions; the other rows are not written.
Stamped(c) ==
    [a \in Allocs |-> IF a \in c.fresh THEN c.decided[a]
                                       ELSE discount[c.payment][a]]

\* Fault: nothing is staged; the in-process publish is all there is.
StageNothing(c) == outbox

\* stage_settled, on the posted-transition's own transaction.
Stage(c) ==
    IF OutboxOn
      THEN [outbox EXCEPT ![c.payment] =
               Append(@, [discount |-> c.decided, status |-> c.landing])]
      ELSE outbox

\* The committing transaction: stamps, mark_posted and the outbox row.
PostCommit(w) ==
    LET c == call[w]
        p == c.payment
    IN
    /\ At(w, "commit")
    /\ Postable(p)
    /\ discount' = [discount EXCEPT ![p] = Stamped(c)]
    /\ posting_state' = [posting_state EXCEPT ![p] = "posted"]
    /\ status' = [status EXCEPT ![p] = c.landing]
    /\ journal_id' = [journal_id EXCEPT ![p] = IdempotencyKey(p, "original")]
    /\ outbox' = Stage(c)
    /\ Goto(w, "emit_settled")
    /\ UNCHANGED <<method, inbox, ledger, bus>>

\* Fault: the stamps survive a posted-transition that matched no row.
PostLostKeepingStamps(w) ==
    LET c == call[w] IN
    /\ At(w, "commit")
    /\ ~Postable(c.payment)
    /\ discount' = [discount EXCEPT ![c.payment] = Stamped(c)]
    /\ Return(w)
    /\ UNCHANGED <<entryVars, outbox, inbox, ledger, bus>>

\* mark_posted matched no row: the transaction rolls back, stamps included,
\* and the call reports the post somebody else made, or that there is none.
PostLost(w) ==
    /\ At(w, "commit")
    /\ ~Postable(call[w].payment)
    /\ Return(w)
    /\ UNCHANGED <<entryVars, discount, outbox, inbox, ledger, bus>>

\* The in-process publish, after the commit: the settlement and, when part of
\* the money is unallocated, the credit on account.
PostEmit(w) ==
    LET p == call[w].payment
        event(type) == [type |-> type, discount |-> call[w].decided]
        settled == Append(bus[p], event("PaymentSettled"))
    IN
    /\ At(w, "emit_settled")
    /\ bus' = [bus EXCEPT ![p] =
                  IF p \in OnAccount
                    THEN Append(settled, event("PaymentReceivedOnAccount"))
                    ELSE settled]
    /\ Return(w)
    /\ UNCHANGED <<entryVars, discount, outbox, inbox, ledger>>

-------------------------------------------------------------------------------
(***************************************************************************)
(* reverse_payment.                                                        *)
(***************************************************************************)
ReverseStart(w, p) ==
    /\ call[w] = Idle
    /\ Reversible(p)
    /\ call' = [call EXCEPT ![w].at = "build", ![w].payment = p]
    /\ UNCHANGED <<entryVars, discount, outbox, inbox, ledger, bus>>

\* build_settlement_post reads the discounts off their stamps.
ReverseBuild(w) ==
    /\ At(w, "build")
    /\ call' = [call EXCEPT ![w].at = "mirror",
                            ![w].decided = discount[call[w].payment]]
    /\ UNCHANGED <<entryVars, discount, outbox, inbox, ledger, bus>>

\* The sink again, under the reversal's own key.  An error leaves the entry
\* as it is, whether or not the mirror was posted.
ReverseSink(w, outcome) ==
    LET c == call[w] IN
    /\ At(w, "mirror")
    /\ IF outcome = "refused"
         THEN UNCHANGED ledger
         ELSE GlPost(IdempotencyKey(c.payment, "reversal"), c.decided)
    /\ IF outcome = "ack" THEN Goto(w, "cancel") ELSE Return(w)
    /\ UNCHANGED <<entryVars, discount, outbox, inbox, bus>>

\* mark_cancelled; only the call that changed the row goes on to emit.
ReverseCancel(w) ==
    LET p == call[w].payment IN
    /\ At(w, "cancel")
    /\ IF Cancellable(p)
         THEN /\ status' = [status EXCEPT ![p] = "cancelled"]
              /\ Goto(w, "emit_cancelled")
         ELSE /\ UNCHANGED status
              /\ Return(w)
    /\ UNCHANGED <<posting_state, method, journal_id, discount, outbox, inbox,
                   ledger, bus>>

\* emit_cancelled reads the allocations back and publishes, in process only.
ReverseEmit(w) ==
    LET p == call[w].payment IN
    /\ At(w, "emit_cancelled")
    /\ bus' = [bus EXCEPT ![p] =
                  Append(@, [type |-> "PaymentCancelled",
                             discount |-> discount[p]])]
    /\ Return(w)
    /\ UNCHANGED <<entryVars, discount, outbox, inbox, ledger>>

-------------------------------------------------------------------------------
Outcomes == {"ack", "timed_out", "refused"}

PostNext(w) ==
    \/ \E p \in Payments : PostStart(w, p)
    \/ PostGate(w)
    \/ PostDecide(w)
    \/ \E o \in Outcomes : PostSink(w, o)
    \/ PostMarkFailed(w)
    \/ PostCommit(w)
    \/ PostLost(w)
    \/ PostEmit(w)

ReverseNext(w) ==
    \/ \E p \in Payments : ReverseStart(w, p)
    \/ ReverseBuild(w)
    \/ \E o \in Outcomes : ReverseSink(w, o)
    \/ ReverseCancel(w)
    \/ ReverseEmit(w)

VerbNext(p) == Create(p) \/ Submit(p) \/ Reject(p)

Next ==
    \/ \E p \in Payments : VerbNext(p)
    \/ \E e \in Clearances : ConfirmCash(e)
    \/ \E w \in Workers : PostNext(w) \/ ReverseNext(w) \/ Abandon(w)

Spec == Init /\ [][Next]_vars
-------------------------------------------------------------------------------
(***************************************************************************)
(* What must hold.                                                         *)
(***************************************************************************)
Posted(p) == posting_state[p] = "posted"
Emitted(p, type) == {i \in DOMAIN bus[p] : bus[p][i].type = type}

TypeOK ==
    /\ status \in [Payments -> Statuses]
    /\ posting_state \in [Payments -> PostingStates]
    /\ method \in [Payments -> Methods]
    /\ journal_id \in [Payments -> Keys \cup {None}]
    /\ discount \in [Payments -> Decisions]
    /\ outbox \in [Payments -> Seq(Notices)]
    /\ inbox \in SUBSET Clearances
    /\ ledger \in [Keys -> Decisions \cup {None}]
    /\ bus \in [Payments -> Seq(Events)]
    /\ call \in [Workers -> Calls]

\* The two status columns tell one story.  A late failure, a reject, a
\* confirmation and a reversal each write one column only, and may do so
\* between any two awaits of a post: the entry is posted in posting_state
\* exactly when its status is one that only a committed journal justifies.
PostedIffLanded ==
    \A p \in Payments :
        Posted(p) <=> status[p] \in Landed \cup {"cancelled"}

\* A posted entry names a journal the ledger really holds, and it is the
\* original one of this payment, whoever of the concurrent or repeated posts
\* wrote it and whoever of them recorded it.
EntryNamesItsJournal ==
    \A p \in Payments :
        Posted(p) => /\ journal_id[p] = <<p, "original">>
                     /\ ledger[journal_id[p]] # None

\* The ledger's mirror is never without its entry: a reversal journal exists
\* only for an entry whose post committed, and a cancelled entry has one, with
\* the discounts the entry is stamped with (not re-resolved ones).
MirrorFollowsEntry ==
    \A p \in Payments :
        /\ Holds(p, "reversal") => Posted(p)
        /\ status[p] = "cancelled" => Holds(p, "reversal")
        /\ Holds(p, "reversal") => ledger[<<p, "reversal">>] = discount[p]

\* PaymentSettled draws invoices down: it is published at most once for a
\* payment under any number of concurrent posts, retries and crashes, and only
\* for a posted one.  The same for the credit on account.
SettledAtMostOnce ==
    \A p \in Payments :
        /\ \A type \in {"PaymentSettled", "PaymentReceivedOnAccount"} :
              \A i, j \in Emitted(p, type) : i = j
        /\ Emitted(p, "PaymentSettled") # {} => Posted(p)

\* PaymentCancelled restores invoices: at most once, and only when the entry
\* is cancelled and the mirror journal stands.
CancelledAtMostOnce ==
    \A p \in Payments :
        /\ \A i, j \in Emitted(p, "PaymentCancelled") : i = j
        /\ Emitted(p, "PaymentCancelled") # {} =>
              status[p] = "cancelled" /\ Holds(p, "reversal")

\* With the outbox configured there is a staged PaymentSettled for exactly the
\* posted entries, one each, at every instant: no crash, rollback or second
\* post leaves a posted entry unannounced or announces one twice.
StagedExactlyPosted ==
    \A p \in Payments :
        Len(outbox[p]) = IF OutboxOn /\ Posted(p) THEN 1 ELSE 0

\* The staged notice, the published settlement and the published cancellation
\* all carry the discounts stamped on the allocations.
AnnouncedDiscountIsStamped ==
    \A p \in Payments :
        /\ \A i \in DOMAIN outbox[p] : outbox[p][i].discount = discount[p]
        /\ \A i \in DOMAIN bus[p] : bus[p][i].discount = discount[p]

\* What a call holds in memory is still true of the rows and of the ledger
\* when it acts on it, whoever ran between the read and the act: a decision
\* about to be committed has its journal and leaves no stamp behind, a call
\* that publishes speaks of an entry that reached its state and carries that
\* entry's stamps, a mirror in the making is the mirror of what was posted.
CallAgrees(w) ==
    LET c == call[w]
        p == c.payment
    IN
    /\ c.at \in Steps => status[p] # "absent"
    /\ c.at = "commit" => Holds(p, "original")
    /\ c.at \in {"sink", "commit"} /\ ~Posted(p) =>
          \A a \in Allocs \ c.fresh : c.decided[a] = 0
    /\ c.at \in ReverseSteps \cup {"emit_settled"} => Posted(p)
    /\ c.at \in {"mirror", "emit_settled"} => c.decided = discount[p]
    /\ c.at = "cancel" => Holds(p, "reversal")
    /\ c.at = "emit_cancelled" => status[p] = "cancelled"

CallsAgreeWithEntries == \A w \in Workers : CallAgrees(w)

\* The discount window is never re-evaluated after money moved: a posted
\* entry's stamps do not change again, and an entry that is not posted has
\* none.
DiscountFrozenAtPost ==
    [][\A p \in Payments :
          /\ Posted(p) => discount'[p] = discount[p]
          /\ discount'[p] # discount[p] => Posted(p)']_vars

\* The state half of it: an entry that is not posted carries no stamp.
UnpostedIsUnstamped ==
    \A p \in Payments : ~Posted(p) => discount[p] = NoDiscount

\* in_flight becomes paid only on a clearance event for that payment that was
\* never consumed before: neither a hand verb nor a redelivery can do it.
OnlyAFreshClearancePays ==
    [][\A p \in Payments :
          status[p] = "in_flight" /\ status'[p] = "paid" =>
              \E e \in inbox' \ inbox : ClearanceFor[e] = p]_vars

-------------------------------------------------------------------------------
(***************************************************************************)
(* The contract this implements.                                           *)
(***************************************************************************)
PhaseOf(s) ==
    CASE s \in {"draft", "submitted"} -> "open"
      [] s \in Landed                 -> "settled"
      [] OTHER                        -> s

BooksOf(p) ==
    IF Holds(p, "reversal") THEN "mirrored"
    ELSE IF Holds(p, "original") THEN "posted" ELSE "none"

phaseBar == [p \in Payments |-> PhaseOf(status[p])]
booksBar == [p \in Payments |-> BooksOf(p)]
announcedBar == [p \in Payments |-> Len(outbox[p])]

Contract ==
    INSTANCE SettlementContract WITH
        Durable <- OutboxOn, phase <- phaseBar, books <- booksBar,
        announced <- announcedBar

\* Every behaviour of the verbs, whatever the interleaving and the crashes, is
\* one the contract allows: the entry settles once, behind its journal, in one
\* step with its durable notice, and is unwound once, behind the mirror.
ImplementsContract == Contract!Spec

-------------------------------------------------------------------------------
(***************************************************************************)
(* What the code's own comments say, and the interleavings break.          *)
(***************************************************************************)

\* "posting refuses BEFORE the GL sink is driven, so a rejected/cancelled
\* payment can never leave a journal the entry then disowns."
RejectedHasNoJournal ==
    \A p \in Payments : status[p] = "rejected" => ~Holds(p, "original")

\* "a crash after the GL post cannot split the discount decision from its
\* journal": a posted entry is stamped with what its journal says.
StampMatchesJournal ==
    \A p \in Payments : Posted(p) => ledger[<<p, "original">>] = discount[p]

\* "The reverse-seam emit is gated on the posted->cancelled transition
\* (exactly-once)": once no call is left to do it, a cancelled entry has
\* announced its cancellation.
CancellationAnnounced ==
    \A p \in Payments :
        status[p] = "cancelled" =>
            \/ Emitted(p, "PaymentCancelled") # {}
            \/ \E w \in Workers : At(w, "emit_cancelled") /\ call[w].payment = p

===============================================================================

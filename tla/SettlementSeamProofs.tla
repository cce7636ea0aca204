------------------------- MODULE SettlementSeamProofs -------------------------
(***************************************************************************)
(* What SettlementSeam guarantees for every set of payments, allocations   *)
(* and callers, with the outbox and without: the invoices of a payment are *)
(* drawn down and restored at most once, and never ahead of the ledger.    *)
(* The invariant of the verbs (PaymentLifecycleProofs) is used as it is;   *)
(* what is added says how billing's counters follow from what was consumed *)
(* and routed.                                                             *)
(***************************************************************************)
EXTENDS SettlementSeam, PaymentLifecycleProofs

-------------------------------------------------------------------------------
\* Billing has seen the settlement: its row, or the event routed in process.
SeenSettled(p) ==
    \/ OutboxOn /\ <<p, 1>> \in consumed
    \/ /\ ~OutboxOn
       /\ \E i \in DOMAIN bus[p] : i <= routed[p] /\ bus[p][i].type = "PaymentSettled"

SeamAgrees(p) ==
    /\ routed[p] <= Len(bus[p])
    /\ \A i : <<p, i>> \in consumed => i \in DOMAIN outbox[p]
    /\ drawn[p] = IF SeenSettled(p) THEN 1 ELSE 0
    /\ restored[p] <= drawn[p]
    /\ restored[p] > 0 =>
          \E i \in DOMAIN bus[p] : bus[p][i].type = "PaymentCancelled"

Counters ==
    /\ published \subseteq EventIds /\ consumed \subseteq EventIds
    /\ routed \in [Payments -> Nat]
    /\ drawn \in [Payments -> Nat] /\ restored \in [Payments -> Nat]

SeamInv ==
    /\ Inv
    /\ Counters
    /\ \A p \in Payments : SeamAgrees(p)

-------------------------------------------------------------------------------
\* A longer sequence that begins with the old one.
Extends(new, old) ==
    /\ Len(old) <= Len(new)
    /\ \A i \in 1..Len(old) : new[i] = old[i]

\* Appending extends a sequence.
LEMMA AppendExtends ==
    ASSUME NEW S, NEW s \in Seq(S), NEW x \in S
    PROVE  Append(s, x) \in Seq(S) /\ Extends(Append(s, x), s)
BY AppendProperties, LenProperties DEF Extends

\* Nothing that was published or staged is taken back or changed.
LEMMA HistoriesGrow ==
    ASSUME TypeOK, TypeOK', [Next]_vars, NEW p \in Payments
    PROVE  Extends(bus'[p], bus[p]) /\ Extends(outbox'[p], outbox[p])
<1> bus[p] \in Seq(Events) /\ outbox[p] \in Seq(Notices)
  BY DEF TypeOK
<1>0. Len(bus[p]) \in Nat /\ Len(outbox[p]) \in Nat
  BY LenProperties
<1>1. CASE bus' = bus /\ outbox' = outbox
  BY <1>0, <1>1 DEF Extends
<1>2. ASSUME NEW w \in Workers, PostCommit(w)
      PROVE  Extends(bus'[p], bus[p]) /\ Extends(outbox'[p], outbox[p])
  <2>1. bus' = bus
    BY <1>2 DEF PostCommit
  <2>2. outbox'[p] = outbox[p] \/ \E n \in Notices : outbox'[p] = Append(outbox[p], n)
    <3>1. call[w].decided \in Decisions /\ call[w].landing \in Landed
      BY <1>2, BusyType DEF PostCommit, Steps, PostSteps
    <3>2. [discount |-> call[w].decided, status |-> call[w].landing] \in Notices
      BY <3>1 DEF Notices
    <3> QED
      BY <1>2, <3>2 DEF PostCommit, Stage, TypeOK
  <2> QED
    BY <1>0, <2>1, <2>2, AppendExtends DEF Extends
<1>3. ASSUME NEW w \in Workers, PostEmit(w)
      PROVE  Extends(bus'[p], bus[p]) /\ Extends(outbox'[p], outbox[p])
  <2> DEFINE settled == [type |-> "PaymentSettled", discount |-> call[w].decided]
             onAccount == [type |-> "PaymentReceivedOnAccount",
                           discount |-> call[w].decided]
  <2>1. settled \in Events /\ onAccount \in Events
    BY <1>3, BusyType DEF PostEmit, Steps, PostSteps, Events, EventTypes
  <2>2. \/ bus'[p] = bus[p]
        \/ bus'[p] = Append(bus[p], settled)
        \/ bus'[p] = Append(Append(bus[p], settled), onAccount)
    BY <1>3 DEF PostEmit, TypeOK
  <2>3. /\ Append(bus[p], settled) \in Seq(Events)
        /\ Extends(Append(bus[p], settled), bus[p])
    BY <2>1, AppendExtends
  <2>4. Extends(Append(Append(bus[p], settled), onAccount), Append(bus[p], settled))
    BY <2>1, <2>3, AppendExtends
  <2>5. Extends(Append(Append(bus[p], settled), onAccount), bus[p])
    <3> DEFINE s == bus[p]
               t == Append(bus[p], settled)
               u == Append(Append(bus[p], settled), onAccount)
    <3>1. u \in Seq(Events) /\ t \in Seq(Events)
      BY <2>1, <2>3, AppendExtends
    <3>2. Len(s) \in Nat /\ Len(t) \in Nat /\ Len(u) \in Nat
      BY <1>0, <3>1, LenProperties
    <3> HIDE DEF s, t, u
    <3>3. Extends(t, s) /\ Extends(u, t)
      BY <2>3, <2>4 DEF s, t, u
    <3>4. Extends(u, s)
      BY <3>2, <3>3 DEF Extends
    <3> QED
      BY <3>4 DEF s, u
  <2>6. outbox' = outbox
    BY <1>3 DEF PostEmit
  <2> QED
    BY <1>0, <2>2, <2>3, <2>5, <2>6 DEF Extends
<1>4. ASSUME NEW w \in Workers, ReverseEmit(w)
      PROVE  Extends(bus'[p], bus[p]) /\ Extends(outbox'[p], outbox[p])
  <2>1. call[w].payment \in Payments
    BY <1>4, BusyType DEF ReverseEmit, Steps, ReverseSteps
  <2>2. [type |-> "PaymentCancelled", discount |-> discount[call[w].payment]] \in Events
    BY <2>1 DEF Events, EventTypes, TypeOK
  <2>3. bus'[p] = bus[p] \/ \E e \in Events : bus'[p] = Append(bus[p], e)
    BY <1>4, <2>2 DEF ReverseEmit, TypeOK
  <2>4. outbox' = outbox
    BY <1>4 DEF ReverseEmit
  <2> QED
    BY <1>0, <2>3, <2>4, AppendExtends DEF Extends
<1>5. ASSUME ~(\E w \in Workers : PostCommit(w) \/ PostEmit(w) \/ ReverseEmit(w))
      PROVE  bus' = bus /\ outbox' = outbox
  BY <1>5 DEF Next, VerbNext, Create, Submit, Reject, ConfirmCash, PostNext, PostStart,
     PostGate, PostDecide, PostSink, PostMarkFailed, PostLost, ReverseNext, ReverseStart,
     ReverseBuild, ReverseSink, ReverseCancel, Abandon, vars
<1> QED
  BY <1>1, <1>2, <1>3, <1>4, <1>5

-------------------------------------------------------------------------------
\* Nothing is staged, routed or applied.
LEMMA SeamInitInv == SeamInit => SeamInv
<1> SUFFICES ASSUME SeamInit PROVE SeamInv
  OBVIOUS
<1>1. Inv
  BY InitInv DEF SeamInit
<1>2. Counters
  BY DEF SeamInit, Counters, EventIds
<1>3. ASSUME NEW p \in Payments PROVE SeamAgrees(p)
  <2>1. bus[p] = <<>> /\ consumed = {} /\ routed[p] = 0 /\ drawn[p] = 0 /\ restored[p] = 0
    BY <1>3 DEF SeamInit, Init
  <2>2. Len(<<>>) = 0 /\ DOMAIN <<>> = {}
    BY EmptySeq, LenProperties
  <2> QED
    BY <2>1, <2>2 DEF SeamAgrees, SeenSettled
<1> QED
  BY <1>1, <1>2, <1>3 DEF SeamInv

\* The verbs publish behind what was routed, and stage beside what was
\* consumed.
LEMMA VerbStep ==
    ASSUME SeamInv, [Next]_vars, UNCHANGED seamVars
    PROVE  SeamInv'
<1>1. Inv'
  BY StepInv DEF SeamInv
<1>2. Counters'
  BY DEF SeamInv, seamVars, Counters, EventIds
<1>3. ASSUME NEW p \in Payments PROVE SeamAgrees(p)'
  <2> SeamAgrees(p) /\ Counters
    BY DEF SeamInv
  <2>1. /\ bus[p] \in Seq(Events) /\ bus'[p] \in Seq(Events)
        /\ outbox[p] \in Seq(Notices) /\ outbox'[p] \in Seq(Notices)
        /\ Extends(bus'[p], bus[p]) /\ Extends(outbox'[p], outbox[p])
    BY <1>1, HistoriesGrow DEF SeamInv, Inv, TypeOK
  <2>2. /\ DOMAIN bus[p] = 1..Len(bus[p]) /\ DOMAIN bus'[p] = 1..Len(bus'[p])
        /\ DOMAIN outbox[p] = 1..Len(outbox[p])
        /\ DOMAIN outbox'[p] = 1..Len(outbox'[p])
        /\ Len(bus[p]) \in Nat /\ Len(bus'[p]) \in Nat
        /\ Len(outbox[p]) \in Nat /\ Len(outbox'[p]) \in Nat
    BY <2>1, LenProperties
  <2>3. /\ \A i \in DOMAIN bus[p] : i \in DOMAIN bus'[p] /\ bus'[p][i] = bus[p][i]
        /\ \A i \in DOMAIN bus'[p] : i <= Len(bus[p]) => i \in DOMAIN bus[p]
        /\ DOMAIN outbox[p] \subseteq DOMAIN outbox'[p]
        /\ Len(bus[p]) <= Len(bus'[p])
    BY <2>1, <2>2 DEF Extends
  <2>4. routed[p] \in Nat /\ drawn[p] \in Nat /\ restored[p] \in Nat
    BY DEF Counters
  <2>5. SeenSettled(p)' <=> SeenSettled(p)
    <3>1. consumed' = consumed /\ routed' = routed
      BY DEF seamVars
    <3>2. ASSUME NEW i
          PROVE  i \in DOMAIN bus'[p] /\ i <= routed[p]
                    <=> i \in DOMAIN bus[p] /\ i <= routed[p]
      BY <2>2, <2>3, <2>4 DEF SeamAgrees
    <3> QED
      BY <2>3, <3>1, <3>2 DEF SeenSettled
  <2>6. routed'[p] <= Len(bus'[p])
    BY <2>2, <2>3, <2>4 DEF seamVars, SeamAgrees
  <2>7. \A i : <<p, i>> \in consumed' => i \in DOMAIN outbox'[p]
    BY <2>3 DEF seamVars, SeamAgrees
  <2>8. restored'[p] > 0 =>
           \E i \in DOMAIN bus'[p] : bus'[p][i].type = "PaymentCancelled"
    BY <2>3 DEF seamVars, SeamAgrees
  <2>9. drawn' = drawn /\ restored' = restored
    BY DEF seamVars
  <2> QED
    BY <2>5, <2>6, <2>7, <2>8, <2>9 DEF SeamAgrees
<1> QED
  BY <1>1, <1>2, <1>3 DEF SeamInv
\* A delivered row is the only one of its payment; the inbox tells whether it
\* has been applied.
LEMMA DeliverStep ==
    ASSUME SeamInv, NEW p \in Payments, NEW i \in DOMAIN outbox[p], Deliver(p, i)
    PROVE  SeamInv'
<1> Inv /\ TypeOK /\ Counters /\ SeamAgrees(p) /\ OutboxAgrees(p)
  BY DEF SeamInv, Inv
<1>1. UNCHANGED vars /\ routed' = routed /\ restored' = restored /\ published' = published
  BY DEF Deliver
<1>2. Inv'
  BY <1>1, StepInv
<1>3. i = 1 /\ OutboxOn
  <2>1. outbox[p] \in Seq(Notices)
    BY DEF TypeOK
  <2>2. DOMAIN outbox[p] = 1..Len(outbox[p])
    BY <2>1, LenProperties
  <2> QED
    BY <2>2 DEF OutboxAgrees
<1>4. bus' = bus /\ outbox' = outbox
  BY <1>1 DEF vars
<1>5. consumed' = consumed \cup {<<p, 1>>}
  BY <1>3 DEF Deliver
<1>6. drawn' = [drawn EXCEPT ![p] = 1]
  <2>1. CASE <<p, 1>> \in consumed
    <3>1. drawn[p] = 1
      BY <1>3, <2>1 DEF SeamAgrees, SeenSettled
    <3> QED
      BY <1>3, <2>1, <3>1 DEF Deliver, Counters
  <2>2. CASE <<p, 1>> \notin consumed
    <3>1. drawn[p] = 0
      BY <1>3, <2>2 DEF SeamAgrees, SeenSettled
    <3> QED
      BY <1>3, <2>2, <3>1 DEF Deliver, Counters
  <2> QED
    BY <2>1, <2>2
<1>7. Counters'
  BY <1>1, <1>5, <1>6 DEF Counters, EventIds
<1>8. ASSUME NEW q \in Payments PROVE SeamAgrees(q)'
  <2> SeamAgrees(q)
    BY DEF SeamInv
  <2>1. \A j : <<q, j>> \in consumed' => j \in DOMAIN outbox'[q]
    BY <1>3, <1>4, <1>5 DEF SeamAgrees
  <2>2. CASE q = p
    <3>1. SeenSettled(p)' /\ drawn'[p] = 1
      BY <1>3, <1>5, <1>6 DEF SeenSettled, Counters
    <3>2. restored'[p] <= 1
      BY <1>1 DEF SeamAgrees, Counters
    <3> QED
      BY <1>1, <1>4, <2>1, <2>2, <3>1, <3>2 DEF SeamAgrees
  <2>3. CASE q # p
    <3>1. SeenSettled(q)' <=> SeenSettled(q)
      BY <1>1, <1>4, <1>5, <2>3 DEF SeenSettled
    <3>2. drawn'[q] = drawn[q]
      BY <1>6, <2>3 DEF Counters
    <3> QED
      BY <1>1, <1>4, <2>1, <3>1, <3>2 DEF SeamAgrees
  <2> QED
    BY <2>2, <2>3
<1> QED
  BY <1>2, <1>7, <1>8 DEF SeamInv

\* Marking a row tells billing nothing.
LEMMA MarkStep ==
    ASSUME SeamInv, NEW p \in Payments, NEW i, MarkPublished(p, i)
    PROVE  SeamInv'
<1>1. /\ UNCHANGED <<vars, consumed, routed, drawn, restored>>
      /\ published' \subseteq published \cup consumed
  BY DEF MarkPublished
<1>2. Inv'
  BY <1>1, StepInv DEF SeamInv
<1>3. Counters'
  BY <1>1 DEF SeamInv, Counters, EventIds
<1>4. \A q \in Payments : SeamAgrees(q)'
  BY <1>1 DEF SeamInv, SeamAgrees, SeenSettled, vars
<1> QED
  BY <1>2, <1>3, <1>4 DEF SeamInv

\* A routed event is new to billing, and each type comes once.
LEMMA RouteStep ==
    ASSUME SeamInv, NEW p \in Payments, Route(p)
    PROVE  SeamInv'
<1> DEFINE n == routed[p] + 1
           event == bus[p][n]
<1> Inv /\ TypeOK /\ Counters /\ SeamAgrees(p) /\ BusAgrees(p)
  BY DEF SeamInv, Inv, BusInv
<1>1. /\ UNCHANGED vars /\ published' = published /\ consumed' = consumed
      /\ routed' = [routed EXCEPT ![p] = n]
      /\ drawn' = IF Draws(p, event) THEN [drawn EXCEPT ![p] = @ + 1] ELSE drawn
      /\ restored' = IF Restores(p, event) THEN [restored EXCEPT ![p] = @ + 1]
                                           ELSE restored
      /\ routed[p] < Len(bus[p])
  BY DEF Route
<1>2. Inv'
  BY <1>1, StepInv
<1>3. bus' = bus /\ outbox' = outbox
  BY <1>1 DEF vars
<1>4. /\ routed[p] \in Nat /\ drawn[p] \in Nat /\ restored[p] \in Nat
      /\ DOMAIN bus[p] = 1..Len(bus[p]) /\ Len(bus[p]) \in Nat
      /\ n \in DOMAIN bus[p]
  <2>1. bus[p] \in Seq(Events)
    BY DEF TypeOK
  <2>2. DOMAIN bus[p] = 1..Len(bus[p]) /\ Len(bus[p]) \in Nat
    BY <2>1, LenProperties
  <2> QED
    BY <1>1, <2>2 DEF Counters
<1>5. Counters'
  <2>1. n \in Nat /\ drawn[p] + 1 \in Nat /\ restored[p] + 1 \in Nat
    BY <1>4
  <2>2. routed' \in [Payments -> Nat]
    BY <1>1, <2>1 DEF Counters
  <2>3. drawn' \in [Payments -> Nat]
    BY <1>1, <2>1 DEF Counters
  <2>4. restored' \in [Payments -> Nat]
    BY <1>1, <2>1 DEF Counters
  <2> QED
    BY <1>1, <2>2, <2>3, <2>4 DEF Counters, EventIds
<1>6. /\ routed'[p] = n
      /\ drawn'[p] = IF Draws(p, event) THEN drawn[p] + 1 ELSE drawn[p]
      /\ restored'[p] = IF Restores(p, event) THEN restored[p] + 1 ELSE restored[p]
  BY <1>1 DEF Counters
<1>7. SeenSettled(p)' <=> SeenSettled(p) \/ Draws(p, event)
  <2>1. CASE OutboxOn
    BY <1>1, <2>1 DEF SeenSettled, Draws
  <2>2. CASE ~OutboxOn
    <3>1. \A i \in DOMAIN bus[p] : i <= n <=> i <= routed[p] \/ i = n
      BY <1>4
    <3> QED
      BY <1>3, <1>4, <1>6, <2>2, <3>1 DEF SeenSettled, Draws
  <2> QED
    BY <2>1, <2>2
<1>8. Draws(p, event) => ~SeenSettled(p)
  <2> SUFFICES ASSUME Draws(p, event), SeenSettled(p) PROVE FALSE
    OBVIOUS
  <2>1. ~OutboxOn /\ event.type = "PaymentSettled"
    BY DEF Draws
  <2>2. PICK i \in DOMAIN bus[p] : i <= routed[p] /\ bus[p][i].type = "PaymentSettled"
    BY <2>1 DEF SeenSettled
  <2>3. i = n
    BY <1>4, <2>1, <2>2 DEF BusAgrees
  <2> QED
    BY <1>4, <2>2, <2>3
<1>9. SeamAgrees(p)'
  <2>1. drawn'[p] = IF SeenSettled(p)' THEN 1 ELSE 0
    BY <1>6, <1>7, <1>8 DEF SeamAgrees
  <2>2. restored'[p] <= drawn'[p]
    BY <1>4, <1>6 DEF SeamAgrees, Restores
  <2>3. routed'[p] <= Len(bus'[p])
    BY <1>1, <1>3, <1>4, <1>6
  <2>4. restored'[p] > 0 =>
           \E i \in DOMAIN bus'[p] : bus'[p][i].type = "PaymentCancelled"
    BY <1>3, <1>4, <1>6 DEF SeamAgrees, Restores
  <2>5. \A i : <<p, i>> \in consumed' => i \in DOMAIN outbox'[p]
    BY <1>1, <1>3 DEF SeamAgrees
  <2> QED
    BY <2>1, <2>2, <2>3, <2>4, <2>5 DEF SeamAgrees
<1>10. ASSUME NEW q \in Payments, q # p PROVE SeamAgrees(q)'
  <2>1. routed'[q] = routed[q] /\ drawn'[q] = drawn[q] /\ restored'[q] = restored[q]
    BY <1>1, <1>10 DEF Counters
  <2> QED
    BY <1>1, <1>3, <2>1 DEF SeamInv, SeamAgrees, SeenSettled
<1> QED
  BY <1>2, <1>5, <1>9, <1>10 DEF SeamInv

\* Every step of the verbs, the relay and billing keeps the invariant.
LEMMA SeamStepInv == SeamInv /\ [SeamNext]_allVars => SeamInv'
<1> SUFFICES ASSUME SeamInv, [SeamNext]_allVars PROVE SeamInv'
  OBVIOUS
<1>1. CASE Next /\ UNCHANGED seamVars
  BY <1>1, VerbStep
<1>2. CASE UNCHANGED allVars
  BY <1>2, VerbStep DEF allVars
<1>3. ASSUME NEW p \in Payments, Relay(p) \/ Route(p) PROVE SeamInv'
  BY <1>3, DeliverStep, MarkStep, RouteStep DEF Relay
<1> QED
  BY <1>1, <1>2, <1>3 DEF SeamNext

-------------------------------------------------------------------------------
\* The inductive invariant holds.
THEOREM SeamInvHolds == SeamSpec => []SeamInv
BY SeamInitInv, SeamStepInv, PTL DEF SeamSpec

\* Every variable keeps its type.
THEOREM SeamTypeCorrect == SeamSpec => []SeamTypeOK
<1>1. SeamInv => SeamTypeOK
  BY DEF SeamInv, Inv, Counters, SeamTypeOK
<1> QED
  BY <1>1, SeamInvHolds, PTL

\* However often the relay delivers and whoever races, the invoices of a
\* payment are drawn down at most once, and restored no more often.
THEOREM DrawnOnce == SeamSpec => []DrawnAtMostOnce
<1>1. SeamInv => DrawnAtMostOnce
  <2> SUFFICES ASSUME SeamInv, NEW p \in Payments
               PROVE  drawn[p] <= 1 /\ restored[p] <= drawn[p]
    BY DEF DrawnAtMostOnce
  <2>1. SeamAgrees(p)
    BY DEF SeamInv
  <2>2. drawn[p] = 0 \/ drawn[p] = 1
    BY <2>1 DEF SeamAgrees
  <2> QED
    BY <2>1, <2>2 DEF SeamAgrees
<1> QED
  BY <1>1, SeamInvHolds, PTL

\* An invoice drawn down has the journal of its payment in the ledger, and one
\* restored has the mirror.
THEOREM BooksFirst == SeamSpec => []BillingFollowsTheBooks
<1>1. ASSUME SeamInv, NEW p \in Payments
      PROVE  /\ drawn[p] > 0 => Posted(p) /\ Holds(p, "original")
             /\ restored[p] > 0 => status[p] = "cancelled" /\ Holds(p, "reversal")
  <2> Inv /\ TypeOK /\ Counters /\ SeamAgrees(p) /\ BusAgrees(p) /\ OutboxAgrees(p)
    BY <1>1 DEF SeamInv, Inv, BusInv
  <2>1. SeenSettled(p) => Posted(p)
    <3>1. CASE OutboxOn
      <4>1. outbox[p] \in Seq(Notices)
        BY DEF TypeOK
      <4>2. DOMAIN outbox[p] = 1..Len(outbox[p])
        BY <4>1, LenProperties
      <4> QED
        BY <3>1, <4>2 DEF SeenSettled, SeamAgrees, OutboxAgrees
    <3>2. CASE ~OutboxOn
      BY <3>2 DEF SeenSettled, BusAgrees
    <3> QED
      BY <3>1, <3>2
  <2>2. Posted(p) => Holds(p, "original")
    BY DEF Inv, EntryInv, EntryNamesItsJournal, Holds
  <2>3. drawn[p] > 0 => Posted(p) /\ Holds(p, "original")
    BY <2>1, <2>2 DEF SeamAgrees
  <2>4. restored[p] > 0 => status[p] = "cancelled" /\ Holds(p, "reversal")
    BY DEF SeamAgrees, BusAgrees
  <2> QED
    BY <2>3, <2>4
<1>2. SeamInv => BillingFollowsTheBooks
  BY <1>1 DEF BillingFollowsTheBooks
<1> QED
  BY <1>2, SeamInvHolds, PTL
===============================================================================

------------------------ MODULE PaymentLifecycleProofs ------------------------
(***************************************************************************)
(* What PaymentLifecycle guarantees for every set of payments, allocations *)
(* and workers: its invariants, its action properties, and the settlement  *)
(* contract.                                                               *)
(***************************************************************************)
EXTENDS PaymentLifecycle, SequenceTheorems, TLAPS

-------------------------------------------------------------------------------
(***************************************************************************)
(* Types.                                                                  *)
(***************************************************************************)

\* A decision made of the stamps and of fresh answers is a decision.
LEMMA DecisionType ==
    ASSUME NEW d \in Decisions, NEW fresh \in SUBSET Allocs,
           NEW answer \in [fresh -> Discounts]
    PROVE  [a \in Allocs |-> IF a \in fresh THEN answer[a] ELSE d[a]] \in Decisions
BY DEF Decisions

\* The decision without any discount is a decision.
LEMMA NoDiscountType == NoDiscount \in Decisions
BY DiscountAssumption DEF NoDiscount, Decisions

\* A call that waits at a step has a payment and the rest of a call's parts.
LEMMA BusyType ==
    ASSUME TypeOK, NEW w \in Workers, NEW step \in Steps, At(w, step)
    PROVE  /\ call[w] \in Busy
           /\ call[w].payment \in Payments
           /\ call[w].decided \in Decisions
           /\ call[w].fresh \in SUBSET Allocs
           /\ call[w].landing \in Landed
BY DEF TypeOK, Calls, Idle, Busy, At, Steps, PostSteps, ReverseSteps

\* Moving a call on, or ending it, keeps it a call.
LEMMA GotoType ==
    ASSUME TypeOK, NEW w \in Workers, call[w] \in Busy, NEW step \in Steps,
           Goto(w, step)
    PROVE  call' \in [Workers -> Calls]
<1>1. [call[w] EXCEPT !.at = step] \in Busy
  BY DEF Busy
<1> QED
  BY <1>1 DEF TypeOK, Goto, Calls

\* Ending a call leaves the other calls as they were, and it idle.
LEMMA ReturnType ==
    ASSUME TypeOK, NEW w \in Workers, Return(w)
    PROVE  call' \in [Workers -> Calls]
BY DEF TypeOK, Return, Calls

\* The ledger keeps its shape whatever is posted to it.
LEMMA GlPostType ==
    ASSUME TypeOK, NEW key \in Keys, NEW lines \in Decisions, GlPost(key, lines)
    PROVE  ledger' \in [Keys -> Decisions \cup {None}]
BY DEF TypeOK, GlPost

\* The empty tables are well formed.
LEMMA InitType == Init => TypeOK
BY NoDiscountType, EmptySeq
   DEF Init, TypeOK, Statuses, PostingStates, Methods, Calls

\* Fresh decisions written over the stamps make a row of decisions.
LEMMA StampedType ==
    ASSUME TypeOK, NEW w \in Workers, NEW step \in Steps, At(w, step)
    PROVE  Stamped(call[w]) \in Decisions
BY BusyType DEF Stamped, Decisions, TypeOK

\* What deciding does to the calls: the decision is the stamps where the call
\* did not decide afresh.
LEMMA DecideEffect ==
    ASSUME TypeOK, NEW w \in Workers, PostDecide(w)
    PROVE  /\ call[w] \in Busy
           /\ call' \in [Workers -> Calls]
           /\ \A v \in Workers \ {w} : call'[v] = call[v]
           /\ call'[w].at = "sink"
           /\ call'[w].payment = call[w].payment
           /\ \A a \in Allocs \ call'[w].fresh :
                 call'[w].decided[a] = discount[call[w].payment][a]
<1> DEFINE p == call[w].payment
<1>1. call[w] \in Busy /\ p \in Payments /\ discount[p] \in Decisions
  BY BusyType DEF PostDecide, Steps, PostSteps, TypeOK
<1>2. PICK fresh \in SUBSET {a \in Allocs : discount[p][a] = 0} :
      \E answer \in [fresh -> Discounts], reconcilable \in BankReconcilable :
         call' = [call EXCEPT
             ![w].at = "sink",
             ![w].decided = [a \in Allocs |->
                 IF a \in fresh THEN answer[a] ELSE discount[p][a]],
             ![w].fresh = fresh,
             ![w].landing = LandingState(reconcilable, method[p])]
  BY DEF PostDecide
<1>3. PICK answer \in [fresh -> Discounts], reconcilable \in BankReconcilable :
         call' = [call EXCEPT
             ![w].at = "sink",
             ![w].decided = [a \in Allocs |->
                 IF a \in fresh THEN answer[a] ELSE discount[p][a]],
             ![w].fresh = fresh,
             ![w].landing = LandingState(reconcilable, method[p])]
  BY <1>2
<1>4. [a \in Allocs |-> IF a \in fresh THEN answer[a] ELSE discount[p][a]]
         \in Decisions
  BY <1>1, DecisionType
<1>5. LandingState(reconcilable, method[p]) \in Landed
  BY DEF LandingState, Landed
<1>6. call' \in [Workers -> Calls]
  BY <1>1, <1>3, <1>4, <1>5 DEF TypeOK, Calls, Busy, Steps, PostSteps
<1>7. /\ \A v \in Workers \ {w} : call'[v] = call[v]
      /\ call'[w].at = "sink"
      /\ call'[w].payment = p
      /\ call'[w].fresh = fresh
      /\ call'[w].decided = [a \in Allocs |->
            IF a \in fresh THEN answer[a] ELSE discount[p][a]]
  BY <1>1, <1>3 DEF TypeOK, Busy
<1> QED
  BY <1>1, <1>6, <1>7

\* No statement of any verb writes a column outside its type.
LEMMA StepType == TypeOK /\ [Next]_vars => TypeOK'
<1> SUFFICES ASSUME TypeOK, [Next]_vars PROVE TypeOK'
  OBVIOUS
<1>1. ASSUME NEW p \in Payments, Create(p) PROVE TypeOK'
  BY <1>1, NoDiscountType
     DEF Create, TypeOK, Statuses, PostingStates, Methods
<1>2. ASSUME NEW p \in Payments, Submit(p) PROVE TypeOK'
  BY <1>2 DEF Submit, TypeOK, Statuses
<1>3. ASSUME NEW p \in Payments, Reject(p) PROVE TypeOK'
  BY <1>3 DEF Reject, TypeOK, Statuses
<1>4. ASSUME NEW e \in Clearances, ConfirmCash(e) PROVE TypeOK'
  BY <1>4, ClearanceAssumption DEF ConfirmCash, TypeOK, Statuses
<1>5. ASSUME NEW w \in Workers, NEW p \in Payments, PostStart(w, p) PROVE TypeOK'
  <2>1. [Idle EXCEPT !.at = "gate", !.payment = p] \in Busy
    BY NoDiscountType DEF Idle, Busy, Steps, PostSteps, Landed
  <2> QED
    BY <1>5, <2>1 DEF PostStart, TypeOK, entryVars, Calls
<1>6. ASSUME NEW w \in Workers, PostGate(w) PROVE TypeOK'
  <2>1. call' \in [Workers -> Calls]
    BY <1>6, BusyType, GotoType, ReturnType DEF PostGate, Steps, PostSteps
  <2> QED
    BY <1>6, <2>1 DEF PostGate, TypeOK, entryVars
<1>7. ASSUME NEW w \in Workers, PostDecide(w) PROVE TypeOK'
  BY <1>7, DecideEffect DEF PostDecide, TypeOK, entryVars
<1>8. ASSUME NEW w \in Workers, NEW o \in Outcomes, PostSink(w, o) PROVE TypeOK'
  <2>1. /\ call[w] \in Busy
        /\ call[w].payment \in Payments
        /\ call[w].decided \in Decisions
    BY <1>8, BusyType DEF PostSink, Steps, PostSteps
  <2>2. IdempotencyKey(call[w].payment, "original") \in Keys
    BY <2>1 DEF IdempotencyKey, Keys, PostingTypes
  <2>3. ledger' \in [Keys -> Decisions \cup {None}]
    BY <1>8, <2>1, <2>2, GlPostType DEF PostSink, TypeOK
  <2>4. call' \in [Workers -> Calls]
    BY <1>8, <2>1, GotoType DEF PostSink, AfterPost, Steps, PostSteps
  <2> QED
    BY <1>8, <2>3, <2>4 DEF PostSink, TypeOK, entryVars
<1>9. ASSUME NEW w \in Workers, PostMarkFailed(w) PROVE TypeOK'
  <2>1. call' \in [Workers -> Calls]
    BY <1>9, ReturnType DEF PostMarkFailed
  <2> QED
    BY <1>9, <2>1 DEF PostMarkFailed, TypeOK, PostingStates
<1>10. ASSUME NEW w \in Workers, PostCommit(w) PROVE TypeOK'
  <2> DEFINE c == call[w]
             p == call[w].payment
             notice == [discount |-> c.decided, status |-> c.landing]
  <2>1. /\ c \in Busy
        /\ p \in Payments
        /\ c.decided \in Decisions
        /\ c.landing \in Landed
    BY <1>10, BusyType DEF PostCommit, Steps, PostSteps
  <2>2. discount' \in [Payments -> Decisions]
    BY <1>10, <2>1, StampedType DEF PostCommit, TypeOK, Steps, PostSteps
  <2>3. journal_id' \in [Payments -> Keys \cup {None}]
    BY <1>10, <2>1 DEF PostCommit, TypeOK, IdempotencyKey, Keys, PostingTypes
  <2>4. notice \in Notices
    BY <2>1 DEF Notices
  <2>5. outbox' \in [Payments -> Seq(Notices)]
    BY <1>10, <2>1, <2>4, AppendProperties DEF PostCommit, Stage, TypeOK
  <2>6. call' \in [Workers -> Calls]
    BY <1>10, <2>1, GotoType DEF PostCommit, Steps, PostSteps
  <2>7. status' \in [Payments -> Statuses]
    BY <1>10, <2>1 DEF PostCommit, TypeOK, Statuses, Landed
  <2>8. posting_state' \in [Payments -> PostingStates]
    BY <1>10, <2>1 DEF PostCommit, TypeOK, PostingStates
  <2> QED
    BY <1>10, <2>2, <2>3, <2>5, <2>6, <2>7, <2>8 DEF PostCommit, TypeOK
<1>11. ASSUME NEW w \in Workers, PostLost(w) PROVE TypeOK'
  BY <1>11, ReturnType DEF PostLost, TypeOK, entryVars
<1>12. ASSUME NEW w \in Workers, PostEmit(w) PROVE TypeOK'
  <2> DEFINE p == call[w].payment
             event(type) == [type |-> type, discount |-> call[w].decided]
             settled == Append(bus[p], event("PaymentSettled"))
             both == Append(settled, event("PaymentReceivedOnAccount"))
  <2>1. p \in Payments /\ call[w].decided \in Decisions
    BY <1>12, BusyType DEF PostEmit, Steps, PostSteps
  <2>2. /\ event("PaymentSettled") \in Events
        /\ event("PaymentReceivedOnAccount") \in Events
    BY <2>1 DEF Events, EventTypes
  <2>3. bus[p] \in Seq(Events)
    BY <2>1 DEF TypeOK
  <2> HIDE DEF event
  <2>4. settled \in Seq(Events)
    BY <2>2, <2>3, AppendProperties
  <2>5. both \in Seq(Events)
    BY <2>2, <2>4, AppendProperties
  <2>6. bus' = [bus EXCEPT ![p] = IF p \in OnAccount THEN both ELSE settled]
    BY <1>12 DEF PostEmit, event
  <2> HIDE DEF settled, both
  <2>7. bus' \in [Payments -> Seq(Events)]
    BY <2>1, <2>4, <2>5, <2>6 DEF TypeOK
  <2>8. call' \in [Workers -> Calls]
    BY <1>12, ReturnType DEF PostEmit
  <2> QED
    BY <1>12, <2>7, <2>8 DEF PostEmit, TypeOK, entryVars
<1>13. ASSUME NEW w \in Workers, NEW p \in Payments, ReverseStart(w, p) PROVE TypeOK'
  <2>1. [Idle EXCEPT !.at = "build", !.payment = p] \in Busy
    BY NoDiscountType DEF Idle, Busy, Steps, ReverseSteps, Landed
  <2> QED
    BY <1>13, <2>1 DEF ReverseStart, TypeOK, entryVars, Calls
<1>14. ASSUME NEW w \in Workers, ReverseBuild(w) PROVE TypeOK'
  <2>1. call[w] \in Busy /\ discount[call[w].payment] \in Decisions
    BY <1>14, BusyType DEF ReverseBuild, Steps, ReverseSteps, TypeOK
  <2>2. call' \in [Workers -> Calls]
    BY <1>14, <2>1 DEF ReverseBuild, TypeOK, Calls, Busy, Steps, ReverseSteps
  <2> QED
    BY <1>14, <2>2 DEF ReverseBuild, TypeOK, entryVars
<1>15. ASSUME NEW w \in Workers, NEW o \in Outcomes, ReverseSink(w, o) PROVE TypeOK'
  <2>1. /\ call[w] \in Busy
        /\ call[w].payment \in Payments
        /\ call[w].decided \in Decisions
    BY <1>15, BusyType DEF ReverseSink, Steps, ReverseSteps
  <2>2. IdempotencyKey(call[w].payment, "reversal") \in Keys
    BY <2>1 DEF IdempotencyKey, Keys, PostingTypes
  <2>3. ledger' \in [Keys -> Decisions \cup {None}]
    BY <1>15, <2>1, <2>2, GlPostType DEF ReverseSink, TypeOK
  <2>4. call' \in [Workers -> Calls]
    BY <1>15, <2>1, GotoType, ReturnType DEF ReverseSink, Steps, ReverseSteps
  <2> QED
    BY <1>15, <2>3, <2>4 DEF ReverseSink, TypeOK, entryVars
<1>16. ASSUME NEW w \in Workers, ReverseCancel(w) PROVE TypeOK'
  <2>1. call' \in [Workers -> Calls]
    BY <1>16, BusyType, GotoType, ReturnType
       DEF ReverseCancel, Steps, ReverseSteps
  <2> QED
    BY <1>16, <2>1 DEF ReverseCancel, TypeOK, Statuses
<1>17. ASSUME NEW w \in Workers, ReverseEmit(w) PROVE TypeOK'
  <2> DEFINE p == call[w].payment
             event == [type |-> "PaymentCancelled", discount |-> discount[p]]
  <2>1. p \in Payments /\ discount[p] \in Decisions /\ bus[p] \in Seq(Events)
    BY <1>17, BusyType DEF ReverseEmit, Steps, ReverseSteps, TypeOK
  <2>2. event \in Events
    BY <2>1 DEF Events, EventTypes
  <2>3. bus' \in [Payments -> Seq(Events)]
    BY <1>17, <2>1, <2>2, AppendProperties DEF ReverseEmit, TypeOK
  <2>4. call' \in [Workers -> Calls]
    BY <1>17, ReturnType DEF ReverseEmit
  <2> QED
    BY <1>17, <2>3, <2>4 DEF ReverseEmit, TypeOK, entryVars
<1>18. ASSUME NEW w \in Workers, Abandon(w) PROVE TypeOK'
  BY <1>18, ReturnType DEF Abandon, TypeOK, entryVars
<1>19. CASE UNCHANGED vars
  BY <1>19 DEF vars, TypeOK
<1> QED
  BY <1>1, <1>2, <1>3, <1>4, <1>5, <1>6, <1>7, <1>8, <1>9, <1>10, <1>11,
     <1>12, <1>13, <1>14, <1>15, <1>16, <1>17, <1>18, <1>19
     DEF Next, VerbNext, PostNext, ReverseNext

-------------------------------------------------------------------------------
(***************************************************************************)
(* The entry and the ledger.  None of the first three invariants is        *)
(* inductive alone: a step of a call is safe because of what the call read *)
(* earlier, which is what CallsAgreeWithEntries says of every call.        *)
(***************************************************************************)
EntryInv ==
    /\ PostedIffLanded
    /\ EntryNamesItsJournal
    /\ MirrorFollowsEntry
    /\ UnpostedIsUnstamped
    /\ CallsAgreeWithEntries

\* The first four, for one entry.
EntryAgrees(p) ==
    /\ Posted(p) <=> status[p] \in Landed \cup {"cancelled"}
    /\ Posted(p) => journal_id[p] = <<p, "original">> /\ Holds(p, "original")
    /\ Holds(p, "reversal") => Posted(p)
    /\ status[p] = "cancelled" => Holds(p, "reversal")
    /\ Holds(p, "reversal") => ledger[<<p, "reversal">>] = discount[p]
    /\ ~Posted(p) => discount[p] = NoDiscount

\* The entry half of the invariant, read entry by entry and call by call.
LEMMA EntryInvParts ==
    EntryInv <=> /\ \A p \in Payments : EntryAgrees(p)
                 /\ \A w \in Workers : CallAgrees(w)
BY DEF EntryInv, EntryAgrees, PostedIffLanded, EntryNamesItsJournal,
       MirrorFollowsEntry, UnpostedIsUnstamped, CallsAgreeWithEntries, Holds

\* With no entry, no journal and no call under way, all of it agrees.
LEMMA InitEntry == Init => EntryInv
BY EntryInvParts
   DEF Init, EntryAgrees, CallAgrees, Posted, Holds, Landed, Idle, Steps,
       PostSteps, ReverseSteps, Keys, PostingTypes

\* What a step leaves alone of an entry, and what no step takes back.
SameEntry(p) ==
    /\ status'[p] = status[p]
    /\ posting_state'[p] = posting_state[p]
    /\ journal_id'[p] = journal_id[p]
    /\ discount'[p] = discount[p]
    /\ ledger'[<<p, "original">>] = ledger[<<p, "original">>]
    /\ ledger'[<<p, "reversal">>] = ledger[<<p, "reversal">>]

Forward(p) ==
    /\ status[p] # "absent" => status'[p] # "absent"
    /\ status[p] = "cancelled" => status'[p] = "cancelled"
    /\ Posted(p) => Posted(p)' /\ discount'[p] = discount[p]
    /\ Holds(p, "original") =>
          ledger'[<<p, "original">>] = ledger[<<p, "original">>]
    /\ Holds(p, "reversal") =>
          ledger'[<<p, "reversal">>] = ledger[<<p, "reversal">>]

\* An entry a step does not touch stays in order, and counts as moved forward.
LEMMA SameEntryStays ==
    ASSUME NEW p \in Payments, SameEntry(p), EntryAgrees(p)
    PROVE  Forward(p) /\ EntryAgrees(p)'
BY DEF SameEntry, Forward, EntryAgrees, Posted, Holds

\* A step that writes neither the rows nor the ledger touches no entry.
LEMMA QuietStep ==
    ASSUME UNCHANGED <<entryVars, discount, ledger>>, NEW p \in Payments
    PROVE  SameEntry(p)
BY DEF SameEntry, entryVars

\* What a post to the ledger does: at most the key it names is written, once.
LEMMA GlPostEffect ==
    ASSUME TypeOK, NEW key \in Keys, NEW lines \in Decisions, GlPost(key, lines)
    PROVE  /\ \A k \in Keys \ {key} : ledger'[k] = ledger[k]
           /\ ledger[key] # None => ledger'[key] = ledger[key]
           /\ ledger[key] = None => ledger'[key] = lines
           /\ ledger'[key] # None
BY NoneAssumption DEF TypeOK, GlPost

\* Every step keeps every entry in order, and only ever moves it forward.
LEMMA StepEntries ==
    ASSUME TypeOK, EntryInv, [Next]_vars, NEW q \in Payments
    PROVE  Forward(q) /\ EntryAgrees(q)'
<1> USE DEF Posted, Landed
<1>0. EntryAgrees(q) /\ \A w \in Workers : CallAgrees(w)
  BY EntryInvParts
<1>1. ASSUME NEW p \in Payments, Create(p) PROVE Forward(q) /\ EntryAgrees(q)'
  <2>1. CASE q = p
    BY <1>0, <1>1, <2>1 DEF Create, TypeOK, Forward, EntryAgrees, Holds
  <2>2. CASE q # p
    BY <1>0, <1>1, <2>2, SameEntryStays DEF Create, TypeOK, SameEntry
  <2> QED
    BY <2>1, <2>2
<1>2. ASSUME NEW p \in Payments, Submit(p) PROVE Forward(q) /\ EntryAgrees(q)'
  BY <1>0, <1>2 DEF Submit, TypeOK, Forward, EntryAgrees, Holds
<1>3. ASSUME NEW p \in Payments, Reject(p) PROVE Forward(q) /\ EntryAgrees(q)'
  BY <1>0, <1>3 DEF Reject, TypeOK, Forward, EntryAgrees, Holds
<1>4. ASSUME NEW e \in Clearances, ConfirmCash(e) PROVE Forward(q) /\ EntryAgrees(q)'
  BY <1>0, <1>4, ClearanceAssumption
     DEF ConfirmCash, TypeOK, Forward, EntryAgrees, Holds
<1>5. ASSUME NEW w \in Workers, NEW p \in Payments, PostStart(w, p)
      PROVE  Forward(q) /\ EntryAgrees(q)'
  BY <1>0, <1>5, QuietStep, SameEntryStays DEF PostStart
<1>6. ASSUME NEW w \in Workers, PostGate(w) PROVE Forward(q) /\ EntryAgrees(q)'
  BY <1>0, <1>6, QuietStep, SameEntryStays DEF PostGate
<1>7. ASSUME NEW w \in Workers, PostDecide(w) PROVE Forward(q) /\ EntryAgrees(q)'
  BY <1>0, <1>7, QuietStep, SameEntryStays DEF PostDecide
<1>8. ASSUME NEW w \in Workers, NEW o \in Outcomes, PostSink(w, o)
      PROVE  Forward(q) /\ EntryAgrees(q)'
  <2> DEFINE p == call[w].payment
  <2>1. p \in Payments /\ call[w].decided \in Decisions
    BY <1>8, BusyType DEF PostSink, Steps, PostSteps
  <2>2. CASE o = "refused"
    BY <1>0, <1>8, <2>2, QuietStep, SameEntryStays DEF PostSink
  <2>3. CASE o # "refused"
    <3>1. /\ <<p, "original">> \in Keys
          /\ <<q, "original">> \in Keys
          /\ <<q, "reversal">> \in Keys
      BY <2>1 DEF Keys, PostingTypes
    <3>2. GlPost(<<p, "original">>, call[w].decided)
      BY <1>8, <2>3 DEF PostSink, IdempotencyKey
    <3>3. /\ ledger'[<<q, "reversal">>] = ledger[<<q, "reversal">>]
          /\ Holds(q, "original") =>
                ledger'[<<q, "original">>] = ledger[<<q, "original">>]
      BY <2>1, <3>1, <3>2, GlPostEffect DEF Holds
    <3> QED
      BY <1>0, <1>8, <3>3
         DEF PostSink, entryVars, Forward, EntryAgrees, Holds
  <2> QED
    BY <2>2, <2>3
<1>9. ASSUME NEW w \in Workers, PostMarkFailed(w) PROVE Forward(q) /\ EntryAgrees(q)'
  BY <1>0, <1>9
     DEF PostMarkFailed, Failable, TypeOK, Forward, EntryAgrees, Holds
<1>10. ASSUME NEW w \in Workers, PostCommit(w) PROVE Forward(q) /\ EntryAgrees(q)'
  <2> DEFINE p == call[w].payment
  <2>1. /\ p \in Payments
        /\ call[w].landing \in Landed
    BY <1>10, BusyType DEF PostCommit, Steps, PostSteps
  <2>2. CASE q = p
    <3>1. Holds(q, "original") /\ ~Posted(q) /\ status[q] \notin {"absent", "cancelled"}
      BY <1>0, <1>10, <2>2 DEF PostCommit, At, CallAgrees, Postable
    <3>2. /\ Posted(q)'
          /\ status'[q] \in Landed
          /\ journal_id'[q] = <<q, "original">>
          /\ ledger' = ledger
      BY <1>10, <2>1, <2>2 DEF PostCommit, TypeOK, IdempotencyKey
    <3> QED
      BY <1>0, <3>1, <3>2 DEF Forward, EntryAgrees, Holds
  <2>3. CASE q # p
    <3>1. SameEntry(q)
      BY <1>10, <2>1, <2>3 DEF PostCommit, TypeOK, SameEntry
    <3> QED
      BY <1>0, <3>1, SameEntryStays
  <2> QED
    BY <2>2, <2>3
<1>11. ASSUME NEW w \in Workers, PostLost(w) PROVE Forward(q) /\ EntryAgrees(q)'
  BY <1>0, <1>11, QuietStep, SameEntryStays DEF PostLost
<1>12. ASSUME NEW w \in Workers, PostEmit(w) PROVE Forward(q) /\ EntryAgrees(q)'
  BY <1>0, <1>12, QuietStep, SameEntryStays DEF PostEmit
<1>13. ASSUME NEW w \in Workers, NEW p \in Payments, ReverseStart(w, p)
       PROVE  Forward(q) /\ EntryAgrees(q)'
  BY <1>0, <1>13, QuietStep, SameEntryStays DEF ReverseStart
<1>14. ASSUME NEW w \in Workers, ReverseBuild(w) PROVE Forward(q) /\ EntryAgrees(q)'
  BY <1>0, <1>14, QuietStep, SameEntryStays DEF ReverseBuild
<1>15. ASSUME NEW w \in Workers, NEW o \in Outcomes, ReverseSink(w, o)
       PROVE  Forward(q) /\ EntryAgrees(q)'
  <2> DEFINE p == call[w].payment
  <2>1. p \in Payments /\ call[w].decided \in Decisions
    BY <1>15, BusyType DEF ReverseSink, Steps, ReverseSteps
  <2>2. CASE o = "refused"
    BY <1>0, <1>15, <2>2, QuietStep, SameEntryStays DEF ReverseSink
  <2>3. CASE o # "refused"
    <3>1. /\ <<p, "reversal">> \in Keys
          /\ <<q, "original">> \in Keys
          /\ <<q, "reversal">> \in Keys
      BY <2>1 DEF Keys, PostingTypes
    <3>2. GlPost(<<p, "reversal">>, call[w].decided)
      BY <1>15, <2>3 DEF ReverseSink, IdempotencyKey
    <3>3. Posted(p) /\ call[w].decided = discount[p]
      BY <1>0, <1>15 DEF ReverseSink, At, CallAgrees, ReverseSteps
    <3>4. /\ ledger'[<<q, "original">>] = ledger[<<q, "original">>]
          /\ Holds(q, "reversal") =>
                ledger'[<<q, "reversal">>] = ledger[<<q, "reversal">>]
          /\ q # p => ledger'[<<q, "reversal">>] = ledger[<<q, "reversal">>]
          /\ ledger'[<<p, "reversal">>] \in
                {ledger[<<p, "reversal">>], discount[p]}
      BY <2>1, <3>1, <3>2, <3>3, GlPostEffect DEF Holds
    <3> QED
      BY <1>0, <1>15, <3>3, <3>4
         DEF ReverseSink, entryVars, Forward, EntryAgrees, Holds
  <2> QED
    BY <2>2, <2>3
<1>16. ASSUME NEW w \in Workers, ReverseCancel(w) PROVE Forward(q) /\ EntryAgrees(q)'
  <2>1. Holds(call[w].payment, "reversal") /\ Posted(call[w].payment)
    BY <1>0, <1>16 DEF ReverseCancel, At, CallAgrees, ReverseSteps
  <2> QED
    BY <1>0, <1>16, <2>1
       DEF ReverseCancel, Cancellable, TypeOK, Forward, EntryAgrees, Holds
<1>17. ASSUME NEW w \in Workers, ReverseEmit(w) PROVE Forward(q) /\ EntryAgrees(q)'
  BY <1>0, <1>17, QuietStep, SameEntryStays DEF ReverseEmit
<1>18. ASSUME NEW w \in Workers, Abandon(w) PROVE Forward(q) /\ EntryAgrees(q)'
  BY <1>0, <1>18, QuietStep, SameEntryStays DEF Abandon
<1>19. CASE UNCHANGED vars
  BY <1>0, <1>19, SameEntryStays DEF vars, SameEntry
<1> QED
  BY <1>1, <1>2, <1>3, <1>4, <1>5, <1>6, <1>7, <1>8, <1>9, <1>10, <1>11,
     <1>12, <1>13, <1>14, <1>15, <1>16, <1>17, <1>18, <1>19
     DEF Next, VerbNext, PostNext, ReverseNext

\* What moving on and returning do to the calls.
LEMMA GotoEffect ==
    ASSUME TypeOK, NEW w \in Workers, call[w] \in Busy, NEW step, Goto(w, step)
    PROVE  /\ \A v \in Workers \ {w} : call'[v] = call[v]
           /\ call'[w].at = step
           /\ call'[w].payment = call[w].payment
           /\ call'[w].decided = call[w].decided
           /\ call'[w].fresh = call[w].fresh
           /\ call'[w].landing = call[w].landing
BY DEF TypeOK, Goto, Busy

\* The call that returns is idle, the others are where they were.
LEMMA ReturnEffect ==
    ASSUME TypeOK, NEW w \in Workers, Return(w)
    PROVE  /\ \A v \in Workers \ {w} : call'[v] = call[v]
           /\ call'[w].at = "idle"
BY DEF TypeOK, Return, Idle

\* A call that a step does not touch stays right about its entry.
LEMMA OtherCallAgrees ==
    ASSUME TypeOK, NEW v \in Workers, CallAgrees(v), call'[v] = call[v],
           \A p \in Payments : Forward(p)
    PROVE  CallAgrees(v)'
<1>1. CASE call[v].at \in Steps
  <2> DEFINE p == call[v].payment
  <2>1. p \in Payments
    BY <1>1, BusyType DEF At
  <2>2. Forward(p)
    BY <2>1
  <2>3. /\ status[p] # "absent" => status'[p] # "absent"
        /\ status[p] = "cancelled" => status'[p] = "cancelled"
        /\ Posted(p) => Posted(p)' /\ discount'[p] = discount[p]
        /\ Holds(p, "original") => ledger'[<<p, "original">>] # None
        /\ Holds(p, "reversal") => ledger'[<<p, "reversal">>] # None
    BY <2>2 DEF Forward, Holds
  <2>4. call[v].at \in {"sink", "commit"} /\ ~Posted(p) =>
           \A a \in Allocs \ call[v].fresh : call[v].decided[a] = 0
    BY DEF CallAgrees
  <2>5. /\ call[v].at = "commit" => ledger'[<<p, "original">>] # None
        /\ call[v].at \in ReverseSteps \cup {"emit_settled"} => Posted(p)'
        /\ call[v].at \in {"mirror", "emit_settled"} =>
              call[v].decided = discount'[p]
        /\ call[v].at = "cancel" => ledger'[<<p, "reversal">>] # None
        /\ call[v].at = "emit_cancelled" => status'[p] = "cancelled"
    BY <2>3 DEF CallAgrees, ReverseSteps
  <2>6. status'[p] # "absent"
    BY <1>1, <2>3 DEF CallAgrees
  <2>7. (call[v].at \in {"sink", "commit"} /\ ~Posted(p)') =>
           \A a \in Allocs \ call[v].fresh : call[v].decided[a] = 0
    BY <2>3, <2>4
  <2> QED
    BY <2>5, <2>6, <2>7 DEF CallAgrees, Holds, Posted
<1>2. CASE call[v].at \notin Steps
  BY <1>2 DEF CallAgrees, Steps, PostSteps, ReverseSteps
<1> QED
  BY <1>1, <1>2

\* So does one that ends.
LEMMA EndedCallAgrees ==
    ASSUME NEW v \in Workers, call'[v].at = "idle"
    PROVE  CallAgrees(v)'
BY DEF CallAgrees, Steps, PostSteps, ReverseSteps

\* No step, of whatever call or verb, makes what another call remembers wrong.
LEMMA StepCalls ==
    ASSUME TypeOK, EntryInv, [Next]_vars, NEW v \in Workers
    PROVE  CallAgrees(v)'
<1>0. /\ \A p \in Payments : Forward(p) /\ EntryAgrees(p)
      /\ \A w \in Workers : CallAgrees(w)
  BY EntryInvParts, StepEntries
<1>1. ASSUME call' = call PROVE CallAgrees(v)'
  BY <1>0, <1>1, OtherCallAgrees
<1>2. ASSUME NEW w \in Workers, w # v,
             \A u \in Workers \ {w} : call'[u] = call[u]
      PROVE  CallAgrees(v)'
  BY <1>0, <1>2, OtherCallAgrees
<1>3. ASSUME NEW w \in Workers, Return(w) PROVE CallAgrees(v)'
  BY <1>2, <1>3, ReturnEffect, EndedCallAgrees
<1>4. ASSUME NEW w \in Workers, NEW p \in Payments, PostStart(w, p)
      PROVE  CallAgrees(v)'
  <2>1. CASE v = w
    BY <1>4, <2>1
       DEF PostStart, TypeOK, Idle, entryVars, CallAgrees, Steps, ReverseSteps
  <2>2. CASE v # w
    BY <1>2, <1>4, <2>2 DEF PostStart, TypeOK
  <2> QED
    BY <2>1, <2>2
<1>5. ASSUME NEW w \in Workers, PostGate(w) PROVE CallAgrees(v)'
  <2>1. call[w] \in Busy /\ status[call[w].payment] # "absent"
    BY <1>0, <1>5, BusyType DEF PostGate, At, CallAgrees, Steps, PostSteps
  <2>2. CASE Goto(w, "decide") /\ v = w
    BY <1>5, <2>1, <2>2, GotoEffect
       DEF PostGate, entryVars, CallAgrees, ReverseSteps
  <2>3. CASE Goto(w, "decide") /\ v # w
    BY <1>2, <2>1, <2>3, GotoEffect
  <2> QED
    BY <1>3, <1>5, <2>2, <2>3 DEF PostGate
<1>6. ASSUME NEW w \in Workers, PostDecide(w) PROVE CallAgrees(v)'
  <2> DEFINE p == call[w].payment
  <2>1. call[w] \in Busy /\ p \in Payments /\ status[p] # "absent"
    BY <1>0, <1>6, BusyType DEF PostDecide, At, CallAgrees, Steps, PostSteps
  <2>2. CASE v # w
    BY <1>2, <1>6, <2>2, DecideEffect
  <2>3. CASE v = w
    <3>1. /\ call'[w].at = "sink"
          /\ call'[w].payment = p
          /\ \A a \in Allocs \ call'[w].fresh :
                call'[w].decided[a] = discount[p][a]
      BY <1>6, DecideEffect
    <3>2. ~Posted(p) => discount[p] = NoDiscount
      BY <1>0, <2>1 DEF EntryAgrees
    <3>3. ~Posted(p) => \A a \in Allocs : discount[p][a] = 0
      BY <3>2 DEF NoDiscount
    <3> QED
      BY <1>6, <2>1, <2>3, <3>1, <3>3
         DEF PostDecide, entryVars, CallAgrees, Posted, ReverseSteps
  <2> QED
    BY <2>2, <2>3
<1>7. ASSUME NEW w \in Workers, NEW o \in Outcomes, PostSink(w, o)
      PROVE  CallAgrees(v)'
  <2> DEFINE p == call[w].payment
  <2>1. /\ call[w] \in Busy
        /\ p \in Payments
        /\ call[w].decided \in Decisions
        /\ status[p] # "absent"
        /\ ~Posted(p) => \A a \in Allocs \ call[w].fresh : call[w].decided[a] = 0
    BY <1>0, <1>7, BusyType DEF PostSink, At, CallAgrees, Steps, PostSteps
  <2>2. CASE v # w
    BY <1>2, <1>7, <2>1, <2>2, GotoEffect DEF PostSink
  <2>3. CASE v = w
    <3>1. o = "ack" => ledger'[<<p, "original">>] # None
      BY <1>7, <2>1, GlPostEffect DEF PostSink, IdempotencyKey, Keys, PostingTypes
    <3>2. /\ call'[w].at = AfterPost(o)
          /\ call'[w].payment = p
          /\ call'[w].decided = call[w].decided
          /\ call'[w].fresh = call[w].fresh
      BY <1>7, <2>1, GotoEffect DEF PostSink
    <3> QED
      BY <1>7, <2>1, <2>3, <3>1, <3>2
         DEF PostSink, AfterPost, entryVars, CallAgrees, Posted, Holds, ReverseSteps
  <2> QED
    BY <2>2, <2>3
<1>8. ASSUME NEW w \in Workers, PostCommit(w) PROVE CallAgrees(v)'
  <2> DEFINE p == call[w].payment
  <2>1. /\ call[w] \in Busy
        /\ p \in Payments
        /\ call[w].decided \in Decisions
        /\ call[w].landing \in Landed
        /\ Holds(p, "original")
        /\ ~Posted(p)
        /\ \A a \in Allocs \ call[w].fresh : call[w].decided[a] = 0
    BY <1>0, <1>8, BusyType
       DEF PostCommit, At, CallAgrees, Postable, Posted, Steps, PostSteps
  <2>2. CASE v # w
    BY <1>2, <1>8, <2>1, <2>2, GotoEffect DEF PostCommit
  <2>3. CASE v = w
    <3>1. discount[p] = NoDiscount
      BY <1>0, <2>1 DEF EntryAgrees
    <3>2. Stamped(call[w]) = call[w].decided
      BY <2>1, <3>1 DEF Stamped, Decisions, NoDiscount
    <3>3. /\ discount'[p] = call[w].decided
          /\ posting_state'[p] = "posted"
          /\ status'[p] = call[w].landing
      BY <1>8, <2>1, <3>2 DEF PostCommit, TypeOK
    <3>4. /\ call'[w].at = "emit_settled"
          /\ call'[w].payment = p
          /\ call'[w].decided = call[w].decided
      BY <1>8, <2>1, GotoEffect DEF PostCommit
    <3> QED
      BY <2>1, <2>3, <3>3, <3>4 DEF CallAgrees, Posted, Landed, ReverseSteps
  <2> QED
    BY <2>2, <2>3
<1>9. ASSUME NEW w \in Workers, NEW p \in Payments, ReverseStart(w, p)
      PROVE  CallAgrees(v)'
  <2>1. CASE v = w
    BY <1>9, <2>1
       DEF ReverseStart, Reversible, TypeOK, Idle, entryVars, CallAgrees, Posted,
           Landed, ReverseSteps
  <2>2. CASE v # w
    BY <1>2, <1>9, <2>2 DEF ReverseStart, TypeOK
  <2> QED
    BY <2>1, <2>2
<1>10. ASSUME NEW w \in Workers, ReverseBuild(w) PROVE CallAgrees(v)'
  <2> DEFINE p == call[w].payment
  <2>1. /\ call[w] \in Busy
        /\ status[p] # "absent"
        /\ Posted(p)
    BY <1>0, <1>10, BusyType DEF ReverseBuild, At, CallAgrees, Steps, ReverseSteps
  <2>2. CASE v # w
    BY <1>2, <1>10, <2>2 DEF ReverseBuild, TypeOK
  <2>3. CASE v = w
    <3>1. /\ call'[w].at = "mirror"
          /\ call'[w].payment = p
          /\ call'[w].decided = discount[p]
      BY <1>10, <2>1 DEF ReverseBuild, TypeOK, Busy
    <3> QED
      BY <1>10, <2>1, <2>3, <3>1 DEF ReverseBuild, entryVars, CallAgrees, Posted
  <2> QED
    BY <2>2, <2>3
<1>11. ASSUME NEW w \in Workers, NEW o \in Outcomes, ReverseSink(w, o)
       PROVE  CallAgrees(v)'
  <2> DEFINE p == call[w].payment
  <2>1. /\ call[w] \in Busy
        /\ p \in Payments
        /\ call[w].decided \in Decisions
        /\ status[p] # "absent"
        /\ Posted(p)
    BY <1>0, <1>11, BusyType DEF ReverseSink, At, CallAgrees, Steps, ReverseSteps
  <2>2. CASE o # "ack"
    BY <1>3, <1>11, <2>2 DEF ReverseSink
  <2>3. CASE o = "ack" /\ v # w
    BY <1>2, <1>11, <2>1, <2>3, GotoEffect DEF ReverseSink
  <2>4. CASE o = "ack" /\ v = w
    <3>1. ledger'[<<p, "reversal">>] # None
      BY <1>11, <2>1, <2>4, GlPostEffect
         DEF ReverseSink, IdempotencyKey, Keys, PostingTypes
    <3>2. call'[w].at = "cancel" /\ call'[w].payment = p
      BY <1>11, <2>1, <2>4, GotoEffect DEF ReverseSink
    <3> QED
      BY <1>11, <2>1, <2>4, <3>1, <3>2
         DEF ReverseSink, entryVars, CallAgrees, Posted, Holds
  <2> QED
    BY <2>2, <2>3, <2>4
<1>12. ASSUME NEW w \in Workers, ReverseCancel(w) PROVE CallAgrees(v)'
  <2> DEFINE p == call[w].payment
  <2>1. call[w] \in Busy /\ p \in Payments /\ Posted(p)
    BY <1>0, <1>12, BusyType
       DEF ReverseCancel, At, CallAgrees, Steps, ReverseSteps
  <2>2. CASE ~Cancellable(p)
    BY <1>3, <1>12, <2>2 DEF ReverseCancel
  <2>3. CASE Cancellable(p) /\ v # w
    BY <1>2, <1>12, <2>1, <2>3, GotoEffect DEF ReverseCancel
  <2>4. CASE Cancellable(p) /\ v = w
    <3>1. call'[w].at = "emit_cancelled" /\ call'[w].payment = p
      BY <1>12, <2>1, <2>4, GotoEffect DEF ReverseCancel
    <3>2. status'[p] = "cancelled" /\ posting_state' = posting_state
      BY <1>12, <2>1, <2>4 DEF ReverseCancel, TypeOK
    <3> QED
      BY <2>1, <2>4, <3>1, <3>2 DEF CallAgrees, Posted
  <2> QED
    BY <2>2, <2>3, <2>4
<1> QED
  BY <1>1, <1>3, <1>4, <1>5, <1>6, <1>7, <1>8, <1>9, <1>10, <1>11, <1>12
     DEF Next, VerbNext, PostNext, ReverseNext, vars, Create, Submit, Reject,
         ConfirmCash, PostMarkFailed, PostLost, PostEmit, ReverseEmit, Abandon

\* Entries and calls together: the entry half of the invariant is inductive.
LEMMA StepEntry == TypeOK /\ EntryInv /\ [Next]_vars => EntryInv'
<1> SUFFICES ASSUME TypeOK, EntryInv, [Next]_vars PROVE EntryInv'
  OBVIOUS
<1>1. \A p \in Payments : EntryAgrees(p)'
  BY StepEntries
<1>2. \A w \in Workers : CallAgrees(w)'
  BY StepCalls
<1>3. (\A p \in Payments : EntryAgrees(p))' /\ (\A w \in Workers : CallAgrees(w))'
  BY <1>1, <1>2
<1> QED
  BY <1>3 DEF EntryInv, EntryAgrees, PostedIffLanded, EntryNamesItsJournal,
       MirrorFollowsEntry, UnpostedIsUnstamped, CallsAgreeWithEntries, Holds

-------------------------------------------------------------------------------
(***************************************************************************)
(* The announcements: the durable notice is written by the commit itself,  *)
(* the in-process events by the call that committed, later.                *)
(***************************************************************************)
OutboxAgrees(p) ==
    /\ Len(outbox[p]) = IF OutboxOn /\ Posted(p) THEN 1 ELSE 0
    /\ \A i \in DOMAIN outbox[p] : outbox[p][i].discount = discount[p]

\* Nothing is staged before anything is posted.
LEMMA InitOutbox == Init => \A p \in Payments : OutboxAgrees(p)
<1> SUFFICES ASSUME Init, NEW p \in Payments PROVE OutboxAgrees(p)
  OBVIOUS
<1>1. outbox[p] = <<>> /\ ~Posted(p)
  BY DEF Init, Posted
<1>2. Len(<<>>) = 0 /\ DOMAIN <<>> = {}
  BY EmptySeq, LenProperties
<1> QED
  BY <1>1, <1>2 DEF OutboxAgrees

\* Only the commit stages a notice, and only the commit posts an entry.
LEMMA OnlyCommitPosts ==
    ASSUME TypeOK, EntryInv, [Next]_vars, NEW q \in Payments,
           \A w \in Workers : PostCommit(w) => call[w].payment # q
    PROVE  outbox'[q] = outbox[q] /\ (Posted(q)' <=> Posted(q))
<1> USE DEF Posted
<1>0. \A p \in Payments : EntryAgrees(p)
  BY EntryInvParts
<1>1. ASSUME NEW p \in Payments, Create(p)
      PROVE  outbox'[q] = outbox[q] /\ (Posted(q)' <=> Posted(q))
  BY <1>0, <1>1 DEF Create, TypeOK, EntryAgrees, Landed
<1>2. ASSUME NEW w \in Workers, PostMarkFailed(w)
      PROVE  outbox'[q] = outbox[q] /\ (Posted(q)' <=> Posted(q))
  BY <1>2 DEF PostMarkFailed, Failable, TypeOK
<1>3. ASSUME NEW w \in Workers, PostCommit(w)
      PROVE  outbox'[q] = outbox[q] /\ (Posted(q)' <=> Posted(q))
  BY <1>3, BusyType DEF PostCommit, Stage, TypeOK, Steps, PostSteps
<1>4. ASSUME posting_state' = posting_state, outbox' = outbox
      PROVE  outbox'[q] = outbox[q] /\ (Posted(q)' <=> Posted(q))
  BY <1>4
<1> QED
  BY <1>1, <1>2, <1>3, <1>4
     DEF Next, VerbNext, PostNext, ReverseNext, vars, entryVars, Submit, Reject,
         ConfirmCash, PostStart, PostGate, PostDecide, PostSink, PostLost,
         PostEmit, ReverseStart, ReverseBuild, ReverseSink, ReverseCancel,
         ReverseEmit, Abandon

\* The outbox gains its notice in the step that posts the entry, and in no other.
LEMMA StepOutbox ==
    ASSUME TypeOK, EntryInv, [Next]_vars, NEW q \in Payments, OutboxAgrees(q)
    PROVE  OutboxAgrees(q)'
<1>1. CASE \A w \in Workers : PostCommit(w) => call[w].payment # q
  <2>1. outbox'[q] = outbox[q] /\ (Posted(q)' <=> Posted(q))
    BY <1>1, OnlyCommitPosts
  <2>2. Posted(q) => discount'[q] = discount[q]
    BY StepEntries DEF Forward
  <2>3. outbox[q] \in Seq(Notices)
    BY DEF TypeOK
  <2>4. ~Posted(q) => DOMAIN outbox[q] = {}
    BY <2>3, LenProperties DEF OutboxAgrees
  <2> QED
    BY <2>1, <2>2, <2>4 DEF OutboxAgrees
<1>2. ASSUME NEW w \in Workers, PostCommit(w), call[w].payment = q
      PROVE  OutboxAgrees(q)'
  <2> DEFINE notice == [discount |-> call[w].decided, status |-> call[w].landing]
  <2>1. /\ call[w] \in Busy
        /\ notice \in Notices
        /\ outbox[q] \in Seq(Notices)
        /\ ~Posted(q)
    BY <1>2, BusyType
       DEF PostCommit, Postable, Posted, Notices, TypeOK, Steps, PostSteps
  <2>2. Posted(q)'
    BY <1>2 DEF PostCommit, Posted, TypeOK
  <2>3. discount'[q] = call[w].decided
    <3>1. call'[w].at = "emit_settled" /\ call'[w].decided = call[w].decided
          /\ call'[w].payment = q
      BY <1>2, <2>1, GotoEffect DEF PostCommit
    <3> QED
      BY <3>1, StepCalls DEF CallAgrees
  <2>4. CASE OutboxOn
    <3> HIDE DEF notice
    <3>1. outbox'[q] = Append(outbox[q], notice)
      BY <1>2, <2>4 DEF PostCommit, Stage, TypeOK, notice
    <3>2. Len(outbox[q]) = 0
      BY <2>1 DEF OutboxAgrees
    <3>3. Len(outbox'[q]) = 1 /\ DOMAIN outbox'[q] = 1..1 /\ outbox'[q][1] = notice
      BY <2>1, <3>1, <3>2, AppendProperties, LenProperties
    <3>4. notice.discount = call[w].decided
      BY DEF notice
    <3> QED
      BY <2>2, <2>3, <2>4, <3>3, <3>4 DEF OutboxAgrees
  <2>5. CASE ~OutboxOn
    <3>1. outbox'[q] = outbox[q]
      BY <1>2, <2>5 DEF PostCommit, Stage
    <3>2. Len(outbox[q]) = 0 /\ DOMAIN outbox[q] = {}
      BY <2>1, LenProperties DEF OutboxAgrees
    <3> QED
      BY <2>5, <3>1, <3>2 DEF OutboxAgrees
  <2> QED
    BY <2>4, <2>5
<1> QED
  BY <1>1, <1>2

\* What has been published about an entry is true of it, each kind of event
\* once.
BusAgrees(p) ==
    /\ \A i \in DOMAIN bus[p] :
          /\ Posted(p)
          /\ bus[p][i].discount = discount[p]
          /\ bus[p][i].type = "PaymentCancelled" =>
                status[p] = "cancelled" /\ Holds(p, "reversal")
    /\ \A i, j \in DOMAIN bus[p] : bus[p][i].type = bus[p][j].type => i = j

\* A call about to publish is the only one to, and nobody did before it.
Silent(p, types) == \A i \in DOMAIN bus[p] : bus[p][i].type \notin types

MayPublish(w) ==
    /\ At(w, "emit_settled") =>
          Silent(call[w].payment, {"PaymentSettled", "PaymentReceivedOnAccount"})
    /\ At(w, "emit_cancelled") => Silent(call[w].payment, {"PaymentCancelled"})

Apart(v, w) ==
    /\ At(v, "emit_settled") /\ At(w, "emit_settled") =>
          call[v].payment # call[w].payment
    /\ At(v, "emit_cancelled") /\ At(w, "emit_cancelled") =>
          call[v].payment # call[w].payment

BusInv ==
    /\ \A p \in Payments : BusAgrees(p)
    /\ \A w \in Workers : MayPublish(w)
    /\ \A v, w \in Workers : v # w => Apart(v, w)

\* Nothing is published, and no call is about to publish.
LEMMA InitBus == Init => BusInv
<1> SUFFICES ASSUME Init PROVE BusInv
  OBVIOUS
<1>1. DOMAIN <<>> = {}
  BY EmptySeq, LenProperties
<1>2. \A p \in Payments : BusAgrees(p)
  BY <1>1 DEF Init, BusAgrees
<1>3. \A w \in Workers : ~At(w, "emit_settled") /\ ~At(w, "emit_cancelled")
  BY DEF Init, Idle, At
<1> QED
  BY <1>2, <1>3 DEF BusInv, MayPublish, Apart

\* A step that publishes nothing keeps what was published right.
LEMMA QuietBus ==
    ASSUME NEW p \in Payments, BusAgrees(p), Forward(p), bus'[p] = bus[p]
    PROVE  BusAgrees(p)'
BY DEF BusAgrees, Forward, Holds

\* Calls stay apart and entitled when none of them arrives at a publish.
LEMMA NoNewPublisher ==
    ASSUME BusInv, bus' = bus,
           \A u \in Workers : \/ call'[u] = call[u]
                              \/ call'[u].at \notin {"emit_settled", "emit_cancelled"}
    PROVE  /\ \A w \in Workers : MayPublish(w)'
           /\ \A v, w \in Workers : v # w => Apart(v, w)'
BY DEF BusInv, MayPublish, Apart, At, Silent

\* One call arrives at a publish, and nobody else is at the same one with the
\* same entry.
LEMMA OneNewPublisher ==
    ASSUME BusInv, bus' = bus, NEW w \in Workers,
           \A u \in Workers \ {w} : call'[u] = call[u],
           MayPublish(w)',
           \A u \in Workers \ {w} : Apart(u, w)' /\ Apart(w, u)'
    PROVE  /\ \A v \in Workers : MayPublish(v)'
           /\ \A u, v \in Workers : u # v => Apart(u, v)'
<1>1. ASSUME NEW v \in Workers PROVE MayPublish(v)'
  BY DEF BusInv, MayPublish, At, Silent
<1>2. ASSUME NEW u \in Workers, NEW v \in Workers, u # v PROVE Apart(u, v)'
  BY <1>2 DEF BusInv, Apart, At
<1> QED
  BY <1>1, <1>2

\* The steps other than the two that lead to a publish and the two that
\* publish.
LEMMA QuietPublishers ==
    ASSUME TypeOK, [Next]_vars,
           \A w \in Workers : ~PostCommit(w) /\ ~ReverseCancel(w)
                                /\ ~PostEmit(w) /\ ~ReverseEmit(w)
    PROVE  /\ bus' = bus
           /\ \A u \in Workers :
                 \/ call'[u] = call[u]
                 \/ call'[u].at \notin {"emit_settled", "emit_cancelled"}
<1> DEFINE Quiet == \A u \in Workers :
                 \/ call'[u] = call[u]
                 \/ call'[u].at \notin {"emit_settled", "emit_cancelled"}
<1>1. ASSUME NEW w \in Workers, Return(w) PROVE Quiet
  BY <1>1, ReturnEffect
<1>2. ASSUME NEW w \in Workers, call[w] \in Busy,
             NEW step \in {"decide", "commit", "mark_failed", "cancel"}, Goto(w, step)
      PROVE  Quiet
  BY <1>2, GotoEffect
<1>3. ASSUME NEW w \in Workers, NEW p \in Payments, PostStart(w, p) PROVE Quiet
  BY <1>3 DEF PostStart, TypeOK, Idle
<1>4. ASSUME NEW w \in Workers, PostGate(w) PROVE Quiet
  BY <1>1, <1>2, <1>4, BusyType DEF PostGate, Steps, PostSteps
<1>5. ASSUME NEW w \in Workers, PostDecide(w) PROVE Quiet
  BY <1>5, DecideEffect
<1>6. ASSUME NEW w \in Workers, NEW o \in Outcomes, PostSink(w, o) PROVE Quiet
  BY <1>2, <1>6, BusyType DEF PostSink, AfterPost, Steps, PostSteps
<1>7. ASSUME NEW w \in Workers, NEW p \in Payments, ReverseStart(w, p) PROVE Quiet
  BY <1>7 DEF ReverseStart, TypeOK, Idle
<1>8. ASSUME NEW w \in Workers, ReverseBuild(w) PROVE Quiet
  <2>1. call[w] \in Busy
    BY <1>8, BusyType DEF ReverseBuild, Steps, ReverseSteps
  <2>2. /\ \A u \in Workers \ {w} : call'[u] = call[u]
        /\ call'[w].at = "mirror"
    BY <1>8, <2>1 DEF ReverseBuild, TypeOK, Busy
  <2> QED
    BY <2>2
<1>9. ASSUME NEW w \in Workers, NEW o \in Outcomes, ReverseSink(w, o) PROVE Quiet
  BY <1>1, <1>2, <1>9, BusyType DEF ReverseSink, Steps, ReverseSteps
<1>10. ASSUME call' = call PROVE Quiet
  BY <1>10
<1> HIDE DEF Quiet
<1>11. Quiet
  BY <1>1, <1>3, <1>4, <1>5, <1>6, <1>7, <1>8, <1>9, <1>10
     DEF Next, VerbNext, PostNext, ReverseNext, vars, Create, Submit, Reject,
         ConfirmCash, PostMarkFailed, PostLost, Abandon
<1>12. bus' = bus
  BY DEF Next, VerbNext, PostNext, ReverseNext, vars, Create, Submit, Reject,
         ConfirmCash, PostStart, PostGate, PostDecide, PostSink, PostMarkFailed,
         PostLost, ReverseStart, ReverseBuild, ReverseSink, Abandon
<1> QED
  BY <1>11, <1>12 DEF Quiet

\* Publishing one more event about an entry: what it says is true, and its
\* kind was not published before.
LEMMA AppendedEvent ==
    ASSUME NEW s \in Seq(Events), NEW e \in Events,
           \A i \in DOMAIN s : s[i].type # e.type,
           \A i, j \in DOMAIN s : s[i].type = s[j].type => i = j
    PROVE  /\ Append(s, e) \in Seq(Events)
           /\ \A i \in DOMAIN Append(s, e) :
                 Append(s, e)[i] = e \/ (i \in DOMAIN s /\ Append(s, e)[i] = s[i])
           /\ \A i, j \in DOMAIN Append(s, e) :
                 Append(s, e)[i].type = Append(s, e)[j].type => i = j
<1> DEFINE t == Append(s, e)
<1>1. /\ t \in Seq(Events)
      /\ Len(s) \in Nat
      /\ Len(t) = Len(s) + 1
      /\ DOMAIN s = 1..Len(s)
      /\ DOMAIN t = 1..Len(t)
      /\ \A i \in 1..Len(s) : t[i] = s[i]
      /\ t[Len(s) + 1] = e
  BY AppendProperties, LenProperties
<1> HIDE DEF t
<1>2. \A i \in DOMAIN t : \/ i = Len(s) + 1 /\ t[i] = e
                          \/ i \in DOMAIN s /\ t[i] = s[i]
  BY <1>1
<1>3. \A i, j \in DOMAIN t : t[i].type = t[j].type => i = j
  BY <1>2
<1>4. /\ t \in Seq(Events)
      /\ \A i \in DOMAIN t : t[i] = e \/ (i \in DOMAIN s /\ t[i] = s[i])
  BY <1>1, <1>2
<1> QED
  BY <1>3, <1>4 DEF t

\* What was published stays true, and only a call entitled to it publishes.
LEMMA StepBus ==
    ASSUME TypeOK, EntryInv, BusInv, [Next]_vars
    PROVE  BusInv'
<1>0. /\ \A p \in Payments : Forward(p) /\ EntryAgrees(p) /\ EntryAgrees(p)'
      /\ \A w \in Workers : CallAgrees(w) /\ CallAgrees(w)'
  BY EntryInvParts, StepEntries, StepCalls
<1>1. ASSUME bus' = bus PROVE \A p \in Payments : BusAgrees(p)'
  BY <1>0, <1>1, QuietBus DEF BusInv
<1>2. ASSUME \A w \in Workers : ~PostCommit(w) /\ ~ReverseCancel(w)
                                  /\ ~PostEmit(w) /\ ~ReverseEmit(w)
      PROVE  BusInv'
  BY <1>1, <1>2, QuietPublishers, NoNewPublisher DEF BusInv
<1>3. ASSUME NEW w \in Workers, PostCommit(w) PROVE BusInv'
  <2> DEFINE p == call[w].payment
  <2>1. /\ call[w] \in Busy
        /\ p \in Payments
        /\ ~Posted(p)
    BY <1>3, BusyType DEF PostCommit, Postable, Posted, Steps, PostSteps
  <2>2. /\ bus' = bus
        /\ \A u \in Workers \ {w} : call'[u] = call[u]
        /\ call'[w].at = "emit_settled"
        /\ call'[w].payment = p
    BY <1>3, <2>1, GotoEffect DEF PostCommit
  <2>3. MayPublish(w)'
    BY <2>1, <2>2 DEF BusInv, BusAgrees, MayPublish, Silent, At
  <2>4. ASSUME NEW u \in Workers \ {w} PROVE Apart(u, w)' /\ Apart(w, u)'
    <3>1. At(u, "emit_settled") => call[u].payment # p
      BY <1>0, <2>1 DEF CallAgrees, At
    <3> QED
      BY <2>2, <3>1 DEF Apart, At
  <2> QED
    BY <1>1, <2>2, <2>3, <2>4, OneNewPublisher DEF BusInv
<1>4. ASSUME NEW w \in Workers, ReverseCancel(w) PROVE BusInv'
  <2> DEFINE p == call[w].payment
  <2>1. call[w] \in Busy /\ p \in Payments
    BY <1>4, BusyType DEF ReverseCancel, Steps, ReverseSteps
  <2>2. CASE Cancellable(p)
    <3>1. status[p] # "cancelled"
      BY <2>2 DEF Cancellable, Landed
    <3>2. /\ bus' = bus
          /\ \A u \in Workers \ {w} : call'[u] = call[u]
          /\ call'[w].at = "emit_cancelled"
          /\ call'[w].payment = p
      BY <1>4, <2>1, <2>2, GotoEffect DEF ReverseCancel
    <3>3. MayPublish(w)'
      BY <2>1, <3>1, <3>2 DEF BusInv, BusAgrees, MayPublish, Silent, At
    <3>4. ASSUME NEW u \in Workers \ {w} PROVE Apart(u, w)' /\ Apart(w, u)'
      <4>1. At(u, "emit_cancelled") => call[u].payment # p
        BY <1>0, <2>1, <3>1 DEF CallAgrees, At
      <4> QED
        BY <3>2, <4>1 DEF Apart, At
    <3> QED
      BY <1>1, <3>2, <3>3, <3>4, OneNewPublisher DEF BusInv
  <2>3. CASE ~Cancellable(p)
    <3>1. /\ bus' = bus
          /\ \A u \in Workers \ {w} : call'[u] = call[u]
          /\ call'[w].at = "idle"
      BY <1>4, <2>3, ReturnEffect DEF ReverseCancel
    <3> QED
      BY <1>1, <3>1, NoNewPublisher DEF BusInv
  <2> QED
    BY <2>2, <2>3
<1>5. ASSUME NEW w \in Workers, PostEmit(w) PROVE BusInv'
  <2>0. PICK p \in Payments : p = call[w].payment
    BY <1>5, BusyType DEF PostEmit, Steps, PostSteps
  <2> DEFINE event(type) == [type |-> type, discount |-> call[w].decided]
             e1 == event("PaymentSettled")
             e2 == event("PaymentReceivedOnAccount")
             s1 == Append(bus[p], e1)
             s2 == Append(s1, e2)
  <2>1. /\ call[w].decided \in Decisions
        /\ bus[p] \in Seq(Events)
        /\ BusAgrees(p)
        /\ Posted(p)
        /\ call[w].decided = discount[p]
        /\ Silent(p, {"PaymentSettled", "PaymentReceivedOnAccount"})
    BY <1>0, <1>5, <2>0, BusyType
       DEF PostEmit, BusInv, MayPublish, CallAgrees, At, TypeOK, Steps, PostSteps
  <2>2. /\ e1 \in Events /\ e1.type = "PaymentSettled" /\ e1.discount = discount[p]
        /\ e2 \in Events /\ e2.type = "PaymentReceivedOnAccount"
        /\ e2.discount = discount[p]
    BY <2>1 DEF Events, EventTypes
  <2>3. bus' = [bus EXCEPT ![p] = IF p \in OnAccount THEN s2 ELSE s1]
    BY <1>5, <2>0 DEF PostEmit
  <2> HIDE DEF e1, e2
  <2>4. /\ s1 \in Seq(Events)
        /\ \A i \in DOMAIN s1 : s1[i] = e1 \/ \E j \in DOMAIN bus[p] : s1[i] = bus[p][j]
        /\ \A i, j \in DOMAIN s1 : s1[i].type = s1[j].type => i = j
    BY <2>1, <2>2, AppendedEvent DEF BusAgrees, Silent
  <2> HIDE DEF s1
  <2>5. \A i \in DOMAIN s1 : s1[i].type # e2.type
    BY <2>1, <2>2, <2>4 DEF Silent
  <2>6. /\ s2 \in Seq(Events)
        /\ \A i \in DOMAIN s2 :
              s2[i] = e2 \/ s2[i] = e1 \/ \E j \in DOMAIN bus[p] : s2[i] = bus[p][j]
        /\ \A i, j \in DOMAIN s2 : s2[i].type = s2[j].type => i = j
    BY <2>2, <2>4, <2>5, AppendedEvent
  <2> HIDE DEF s2
  <2>7. /\ \A i \in DOMAIN bus'[p] :
              \/ bus'[p][i] \in {e1, e2}
              \/ \E j \in DOMAIN bus[p] : bus'[p][i] = bus[p][j]
        /\ \A i, j \in DOMAIN bus'[p] : bus'[p][i].type = bus'[p][j].type => i = j
        /\ \A q \in Payments \ {p} : bus'[q] = bus[q]
    BY <2>1, <2>3, <2>4, <2>6 DEF TypeOK
  <2>8. /\ status' = status /\ posting_state' = posting_state
        /\ discount' = discount /\ ledger' = ledger
        /\ \A u \in Workers \ {w} : call'[u] = call[u]
        /\ call'[w].at = "idle"
    BY <1>5, ReturnEffect DEF PostEmit, entryVars
  <2>9. BusAgrees(p)'
    BY <2>1, <2>2, <2>7, <2>8 DEF BusAgrees, Posted, Holds
  <2>10. \A q \in Payments : BusAgrees(q)'
    BY <1>0, <2>7, <2>9, QuietBus DEF BusInv
  <2>11. ASSUME NEW u \in Workers PROVE MayPublish(u)'
    <3>1. CASE u = w
      BY <2>8, <3>1 DEF MayPublish, At
    <3>2. CASE u # w
      <4>1. MayPublish(u) /\ Apart(u, w) /\ call'[u] = call[u]
        BY <2>8, <3>2 DEF BusInv
      <4>2. call[u].payment \in Payments \/ (~At(u, "emit_settled") /\ ~At(u, "emit_cancelled"))
        BY BusyType DEF Steps, PostSteps, ReverseSteps
      <4>3. CASE call[u].payment = p
        <5>1. ~At(u, "emit_settled")
          BY <1>5, <2>0, <4>1, <4>3 DEF Apart, PostEmit
        <5>2. At(u, "emit_cancelled") => Silent(p, {"PaymentCancelled"})'
          BY <2>2, <2>7, <4>1, <4>3 DEF MayPublish, Silent
        <5> QED
          BY <4>1, <4>3, <5>1, <5>2 DEF MayPublish, At, Silent
      <4>4. CASE call[u].payment # p
        BY <2>7, <4>1, <4>2, <4>4 DEF MayPublish, At, Silent
      <4> QED
        BY <4>3, <4>4
    <3> QED
      BY <3>1, <3>2
  <2>12. ASSUME NEW u \in Workers, NEW v \in Workers, u # v PROVE Apart(u, v)'
    BY <2>8, <2>12 DEF BusInv, Apart, At
  <2> QED
    BY <2>10, <2>11, <2>12 DEF BusInv
<1>6. ASSUME NEW w \in Workers, ReverseEmit(w) PROVE BusInv'
  <2>0. PICK p \in Payments : p = call[w].payment
    BY <1>6, BusyType DEF ReverseEmit, Steps, ReverseSteps
  <2> DEFINE e == [type |-> "PaymentCancelled", discount |-> discount[p]]
             s == Append(bus[p], e)
  <2>1. /\ discount[p] \in Decisions
        /\ bus[p] \in Seq(Events)
        /\ BusAgrees(p)
        /\ status[p] = "cancelled"
        /\ Posted(p)
        /\ Holds(p, "reversal")
        /\ Silent(p, {"PaymentCancelled"})
    BY <1>0, <1>6, <2>0, BusyType
       DEF ReverseEmit, BusInv, MayPublish, CallAgrees, EntryAgrees, At, TypeOK,
           Steps, ReverseSteps
  <2>2. e \in Events /\ e.type = "PaymentCancelled" /\ e.discount = discount[p]
    BY <2>1 DEF Events, EventTypes
  <2>3. bus' = [bus EXCEPT ![p] = s]
    BY <1>6, <2>0 DEF ReverseEmit
  <2> HIDE DEF e
  <2>4. /\ \A i \in DOMAIN s : s[i] = e \/ \E j \in DOMAIN bus[p] : s[i] = bus[p][j]
        /\ \A i, j \in DOMAIN s : s[i].type = s[j].type => i = j
    BY <2>1, <2>2, AppendedEvent DEF BusAgrees, Silent
  <2> HIDE DEF s
  <2>5. bus'[p] = s /\ \A q \in Payments \ {p} : bus'[q] = bus[q]
    BY <2>1, <2>3 DEF TypeOK
  <2>6. /\ status' = status /\ posting_state' = posting_state
        /\ discount' = discount /\ ledger' = ledger
        /\ \A u \in Workers \ {w} : call'[u] = call[u]
        /\ call'[w].at = "idle"
    BY <1>6, ReturnEffect DEF ReverseEmit, entryVars
  <2>7. BusAgrees(p)'
    BY <2>1, <2>2, <2>4, <2>5, <2>6 DEF BusAgrees, Posted, Holds
  <2>8. \A q \in Payments : BusAgrees(q)'
    BY <1>0, <2>5, <2>7, QuietBus DEF BusInv
  <2>9. ASSUME NEW u \in Workers PROVE MayPublish(u)'
    <3>1. CASE u = w
      BY <2>6, <3>1 DEF MayPublish, At
    <3>2. CASE u # w
      <4>1. MayPublish(u) /\ Apart(u, w) /\ call'[u] = call[u]
        BY <2>6, <3>2 DEF BusInv
      <4>2. call[u].payment \in Payments \/ (~At(u, "emit_settled") /\ ~At(u, "emit_cancelled"))
        BY BusyType DEF Steps, PostSteps, ReverseSteps
      <4>3. CASE call[u].payment = p
        <5>1. ~At(u, "emit_cancelled")
          BY <1>6, <2>0, <4>1, <4>3 DEF Apart, ReverseEmit
        <5>2. At(u, "emit_settled") =>
                 Silent(p, {"PaymentSettled", "PaymentReceivedOnAccount"})'
          BY <2>2, <2>4, <2>5, <4>1, <4>3 DEF MayPublish, Silent
        <5> QED
          BY <4>1, <4>3, <5>1, <5>2 DEF MayPublish, At, Silent
      <4>4. CASE call[u].payment # p
        BY <2>5, <4>1, <4>2, <4>4 DEF MayPublish, At, Silent
      <4> QED
        BY <4>3, <4>4
    <3> QED
      BY <3>1, <3>2
  <2>10. ASSUME NEW u \in Workers, NEW v \in Workers, u # v PROVE Apart(u, v)'
    BY <2>6, <2>10 DEF BusInv, Apart, At
  <2> QED
    BY <2>8, <2>9, <2>10 DEF BusInv
<1> QED
  BY <1>2, <1>3, <1>4, <1>5, <1>6

-------------------------------------------------------------------------------
(***************************************************************************)
(* The theorems.                                                           *)
(***************************************************************************)
Inv ==
    /\ TypeOK
    /\ EntryInv
    /\ \A p \in Payments : OutboxAgrees(p)
    /\ BusInv

\* The invariant holds before the first call.
LEMMA InitInv == Init => Inv
BY InitType, InitEntry, InitOutbox, InitBus DEF Inv

\* Every step of every verb keeps the invariant.
LEMMA StepInv == Inv /\ [Next]_vars => Inv'
<1> SUFFICES ASSUME Inv, [Next]_vars PROVE Inv'
  OBVIOUS
<1>1. TypeOK' /\ EntryInv'
  BY StepType, StepEntry DEF Inv
<1>2. \A p \in Payments : OutboxAgrees(p)'
  BY StepOutbox DEF Inv
<1>3. BusInv'
  BY StepBus DEF Inv
<1> QED
  BY <1>1, <1>2, <1>3 DEF Inv

\* The inductive invariant of the verbs, over any number of payments,
\* allocations and concurrent calls.
THEOREM InvHolds == Spec => []Inv
<1> QED
  BY InitInv, StepInv, PTL DEF Spec

\* Every column, the ledger, the outbox and the bus stay well formed.
THEOREM TypeCorrect == Spec => []TypeOK
<1>1. Inv => TypeOK
  BY DEF Inv
<1> QED
  BY <1>1, InvHolds, PTL

\* posting_state and status tell one story: no interleaving of post, reject,
\* confirm, reverse and mark_failed drives the two columns apart.
THEOREM StatusColumnsAgree == Spec => []PostedIffLanded
<1>1. Inv => PostedIffLanded
  BY DEF Inv, EntryInv
<1> QED
  BY <1>1, InvHolds, PTL

\* A posted entry carries the journal the ledger holds under its own key.
THEOREM JournalsAreNamed == Spec => []EntryNamesItsJournal
<1>1. Inv => EntryNamesItsJournal
  BY DEF Inv, EntryInv
<1> QED
  BY <1>1, InvHolds, PTL

\* No mirror journal without a posted entry, none with other discounts than
\* the entry's stamps, and no cancelled entry without its mirror.
THEOREM MirrorsFollow == Spec => []MirrorFollowsEntry
<1>1. Inv => MirrorFollowsEntry
  BY DEF Inv, EntryInv
<1> QED
  BY <1>1, InvHolds, PTL

\* The indices of a kind of event are positions in the bus that hold that kind.
LEMMA EmittedEvents ==
    ASSUME NEW p, NEW type
    PROVE  \A i \in Emitted(p, type) : i \in DOMAIN bus[p] /\ bus[p][i].type = type
BY DEF Emitted

\* PaymentSettled and PaymentReceivedOnAccount are published at most once.
THEOREM SettledOnce == Spec => []SettledAtMostOnce
<1>1. Inv => SettledAtMostOnce
  <2> SUFFICES ASSUME Inv, NEW p \in Payments
               PROVE  /\ \A type \in {"PaymentSettled", "PaymentReceivedOnAccount"} :
                            \A i, j \in Emitted(p, type) : i = j
                      /\ Emitted(p, "PaymentSettled") # {} => Posted(p)
    BY DEF SettledAtMostOnce
  <2>1. BusAgrees(p)
    BY DEF Inv, BusInv
  <2>2. \A type : \A i, j \in Emitted(p, type) : i = j
    BY <2>1, EmittedEvents DEF BusAgrees
  <2>3. Emitted(p, "PaymentSettled") # {} => Posted(p)
    BY <2>1, EmittedEvents DEF BusAgrees
  <2> QED
    BY <2>2, <2>3
<1> QED
  BY <1>1, InvHolds, PTL

\* PaymentCancelled is published at most once, behind the mirror journal.
THEOREM CancelledOnce == Spec => []CancelledAtMostOnce
<1>1. Inv => CancelledAtMostOnce
  <2> SUFFICES ASSUME Inv, NEW p \in Payments
               PROVE  /\ \A i, j \in Emitted(p, "PaymentCancelled") : i = j
                      /\ Emitted(p, "PaymentCancelled") # {} =>
                            status[p] = "cancelled" /\ Holds(p, "reversal")
    BY DEF CancelledAtMostOnce
  <2>1. BusAgrees(p)
    BY DEF Inv, BusInv
  <2>2. \A i, j \in Emitted(p, "PaymentCancelled") : i = j
    BY <2>1, EmittedEvents DEF BusAgrees
  <2>3. Emitted(p, "PaymentCancelled") # {} =>
           status[p] = "cancelled" /\ Holds(p, "reversal")
    BY <2>1, EmittedEvents DEF BusAgrees
  <2> QED
    BY <2>2, <2>3
<1> QED
  BY <1>1, InvHolds, PTL

\* The outbox holds exactly one notice for each posted entry.
THEOREM StagedOnce == Spec => []StagedExactlyPosted
<1>1. Inv => StagedExactlyPosted
  BY DEF Inv, OutboxAgrees, StagedExactlyPosted
<1> QED
  BY <1>1, InvHolds, PTL

\* Everything announced carries the stamped discounts.
THEOREM AnnouncementsCarryStamps == Spec => []AnnouncedDiscountIsStamped
<1>1. Inv => AnnouncedDiscountIsStamped
  BY DEF Inv, BusInv, BusAgrees, OutboxAgrees, AnnouncedDiscountIsStamped
<1> QED
  BY <1>1, InvHolds, PTL

\* Stamps are written by the posting commit and by nothing else, ever.
THEOREM DiscountsFreeze == Spec => DiscountFrozenAtPost
<1>1. Inv /\ Inv' /\ [Next]_vars =>
         [\A p \in Payments :
             /\ Posted(p) => discount'[p] = discount[p]
             /\ discount'[p] # discount[p] => Posted(p)']_vars
  <2> SUFFICES ASSUME Inv, Inv', [Next]_vars, NEW p \in Payments
               PROVE  /\ Posted(p) => discount'[p] = discount[p]
                      /\ discount'[p] # discount[p] => Posted(p)'
    OBVIOUS
  <2>1. Forward(p) /\ EntryAgrees(p) /\ EntryAgrees(p)'
    BY StepEntries, EntryInvParts DEF Inv
  <2>2. Posted(p) => discount'[p] = discount[p]
    BY <2>1 DEF Forward
  <2>3. ~Posted(p)' => discount'[p] = NoDiscount /\ discount[p] = NoDiscount
    <3>1. ~Posted(p)' => ~Posted(p)
      BY <2>1 DEF Forward
    <3>2. ~Posted(p)' => discount'[p] = NoDiscount
      BY <2>1 DEF EntryAgrees, NoDiscount
    <3> QED
      BY <2>1, <3>1, <3>2 DEF EntryAgrees
  <2> QED
    BY <2>2, <2>3
<1> QED
  BY <1>1, InvHolds, PTL DEF Spec, DiscountFrozenAtPost

\* in_flight turns paid by a first delivery of the entry's clearance, never by
\* a hand verb, a post, a reversal or a redelivery.
THEOREM ClearancePays == Spec => OnlyAFreshClearancePays
<1>1. TypeOK /\ EntryInv /\ [Next]_vars =>
         [\A p \in Payments :
             status[p] = "in_flight" /\ status'[p] = "paid" =>
                 \E e \in inbox' \ inbox : ClearanceFor[e] = p]_vars
  <2> SUFFICES ASSUME TypeOK, EntryInv, [Next]_vars, NEW q \in Payments,
                      status[q] = "in_flight", status'[q] = "paid"
               PROVE  \E e \in inbox' \ inbox : ClearanceFor[e] = q
    OBVIOUS
  <2>1. ASSUME NEW e \in Clearances, ConfirmCash(e)
        PROVE  \E c \in inbox' \ inbox : ClearanceFor[c] = q
    BY <2>1, ClearanceAssumption DEF ConfirmCash, TypeOK
  <2>2. ASSUME NEW w \in Workers, PostCommit(w) PROVE FALSE
    BY <2>2, BusyType DEF PostCommit, Postable, TypeOK, Landed, Steps, PostSteps
  <2>3. ASSUME NEW w \in Workers, ReverseCancel(w) PROVE FALSE
    BY <2>3 DEF ReverseCancel, TypeOK
  <2>4. ASSUME NEW p \in Payments, VerbNext(p) PROVE FALSE
    BY <2>4 DEF VerbNext, Create, Submit, Reject, TypeOK
  <2>5. ASSUME status' = status PROVE FALSE
    BY <2>5
  <2> QED
    BY <2>1, <2>2, <2>3, <2>4, <2>5
       DEF Next, PostNext, ReverseNext, vars, entryVars, PostStart, PostGate,
           PostDecide, PostSink, PostMarkFailed, PostLost, PostEmit,
           ReverseStart, ReverseBuild, ReverseSink, ReverseEmit, Abandon
<1>2. Inv => TypeOK /\ EntryInv
  BY DEF Inv
<1> QED
  BY <1>1, <1>2, InvHolds, PTL DEF Spec, OnlyAFreshClearancePays

-------------------------------------------------------------------------------
(***************************************************************************)
(* The settlement contract.                                                *)
(***************************************************************************)

\* The verbs implement the contract: whatever the interleaving, the retries
\* and the crashes, a payment settles once behind its journal, in one step
\* with its durable notice, and is unwound once behind the mirror.
THEOREM Implements == Spec => ImplementsContract
<1>1. Init => Contract!Init
  <2> SUFFICES ASSUME Init PROVE Contract!Init
    OBVIOUS
  <2>1. Len(<<>>) = 0
    BY EmptySeq
  <2>2. \A p \in Payments : <<p, "original">> \in Keys /\ <<p, "reversal">> \in Keys
    BY DEF Keys, PostingTypes
  <2> QED
    BY <2>1, <2>2
       DEF Init, Contract!Init, phaseBar, booksBar, announcedBar, PhaseOf,
           BooksOf, Holds, Landed
<1>2. Inv /\ [Next]_vars => [Contract!Next]_(Contract!contractVars)
  <2> SUFFICES ASSUME Inv, [Next]_vars
               PROVE  Contract!Next \/ UNCHANGED <<phaseBar, booksBar, announcedBar>>
    BY DEF Contract!contractVars
  <2>0. /\ TypeOK
        /\ EntryInv
        /\ \A p \in Payments : EntryAgrees(p) /\ OutboxAgrees(p)
        /\ \A w \in Workers : CallAgrees(w)
    BY EntryInvParts DEF Inv
  <2>1. ASSUME UNCHANGED <<phaseBar, booksBar, announcedBar>>
        PROVE  Contract!Next \/ UNCHANGED <<phaseBar, booksBar, announcedBar>>
    BY <2>1
  <2>2. ASSUME ledger' = ledger PROVE booksBar' = booksBar
    BY <2>2 DEF booksBar, BooksOf, Holds
  <2>3. ASSUME outbox' = outbox PROVE announcedBar' = announcedBar
    BY <2>3 DEF announcedBar
  <2>4. ASSUME status' = status PROVE phaseBar' = phaseBar
    BY <2>4 DEF phaseBar
  <2>5. ASSUME NEW p \in Payments, NEW s, status' = [status EXCEPT ![p] = s]
        PROVE  phaseBar' = [phaseBar EXCEPT ![p] = PhaseOf(s)]
    BY <2>0, <2>5 DEF phaseBar, TypeOK
  <2>6. /\ PhaseOf("absent") = "absent"
        /\ PhaseOf("draft") = "open" /\ PhaseOf("submitted") = "open"
        /\ PhaseOf("rejected") = "rejected" /\ PhaseOf("cancelled") = "cancelled"
        /\ \A s \in Landed : PhaseOf(s) = "settled"
    BY DEF PhaseOf, Landed
  <2>7. \A p \in Payments : phaseBar[p] = PhaseOf(status[p])
    BY DEF phaseBar
  <2>8. \A p \in Payments : booksBar[p] = BooksOf(p)
    BY DEF booksBar
  <2>10. ASSUME NEW p \in Payments, Create(p) PROVE Contract!Open(p)
    <3>1. phaseBar' = [phaseBar EXCEPT ![p] = PhaseOf("draft")]
      BY <2>5, <2>10 DEF Create
    <3>2. phaseBar[p] = "absent" /\ booksBar' = booksBar /\ announcedBar' = announcedBar
      BY <2>2, <2>3, <2>6, <2>7, <2>10 DEF Create
    <3> QED
      BY <2>6, <3>1, <3>2 DEF Contract!Open
  <2>11. ASSUME NEW p \in Payments, Submit(p)
         PROVE  UNCHANGED <<phaseBar, booksBar, announcedBar>>
    <3>1. phaseBar' = [phaseBar EXCEPT ![p] = PhaseOf("submitted")]
      BY <2>5, <2>11 DEF Submit
    <3>2. phaseBar[p] = PhaseOf("submitted")
      BY <2>6, <2>7, <2>11 DEF Submit
    <3>3. phaseBar' = phaseBar
      BY <3>1, <3>2 DEF phaseBar
    <3> QED
      BY <2>2, <2>3, <2>11, <3>3 DEF Submit
  <2>12. ASSUME NEW p \in Payments, Reject(p) PROVE Contract!Refuse(p)
    <3>1. phaseBar' = [phaseBar EXCEPT ![p] = PhaseOf("rejected")]
      BY <2>5, <2>12 DEF Reject
    <3>2. phaseBar[p] = "open" /\ booksBar' = booksBar /\ announcedBar' = announcedBar
      BY <2>2, <2>3, <2>6, <2>7, <2>12 DEF Reject
    <3> QED
      BY <2>6, <3>1, <3>2 DEF Contract!Refuse
  <2>13. ASSUME NEW e \in Clearances, ConfirmCash(e)
         PROVE  UNCHANGED <<phaseBar, booksBar, announcedBar>>
    <3>1. \A q \in Payments : PhaseOf(status'[q]) = PhaseOf(status[q])
      BY <2>0, <2>13, ClearanceAssumption DEF ConfirmCash, TypeOK, PhaseOf, Landed
    <3>2. phaseBar' = phaseBar
      BY <3>1 DEF phaseBar
    <3> QED
      BY <2>2, <2>3, <2>13, <3>2 DEF ConfirmCash
  <2>14. ASSUME NEW w \in Workers, NEW o \in Outcomes, PostSink(w, o)
         PROVE  Contract!Next \/ UNCHANGED <<phaseBar, booksBar, announcedBar>>
    <3>0. PICK p \in Payments : p = call[w].payment
      BY <2>0, <2>14, BusyType DEF PostSink, Steps, PostSteps
    <3>1. /\ call[w].decided \in Decisions
          /\ status[p] # "absent"
          /\ <<p, "original">> \in Keys
      BY <2>0, <2>14, <3>0, BusyType
         DEF PostSink, At, CallAgrees, Steps, PostSteps, Keys, PostingTypes
    <3>2. phaseBar' = phaseBar /\ announcedBar' = announcedBar
      BY <2>3, <2>4, <2>14 DEF PostSink, entryVars
    <3>3. CASE ledger' = ledger
      BY <2>2, <3>2, <3>3
    <3>4. CASE ledger' # ledger
      <4>1. GlPost(<<p, "original">>, call[w].decided)
        BY <2>14, <3>0, <3>4 DEF PostSink, IdempotencyKey
      <4>2. ~Holds(p, "original")
        BY <3>4, <4>1 DEF GlPost, Holds
      <4>3. BooksOf(p) = "none"
        BY <2>0, <4>2 DEF EntryAgrees, BooksOf
      <4>4. /\ ledger'[<<p, "original">>] # None
            /\ \A k \in Keys \ {<<p, "original">>} : ledger'[k] = ledger[k]
        BY <2>0, <3>1, <4>1, GlPostEffect
      <4>5. /\ ledger'[<<p, "reversal">>] = ledger[<<p, "reversal">>]
            /\ \A q \in Payments \ {p}, type \in PostingTypes :
                  ledger'[<<q, type>>] = ledger[<<q, type>>]
        BY <4>4 DEF Keys, PostingTypes
      <4>6. BooksOf(p)' = "posted"
        BY <4>3, <4>4, <4>5 DEF BooksOf, Holds
      <4>7. \A q \in Payments \ {p} : BooksOf(q)' = BooksOf(q)
        BY <4>5 DEF BooksOf, Holds, PostingTypes
      <4>8. booksBar' = [booksBar EXCEPT ![p] = "posted"]
        BY <4>6, <4>7 DEF booksBar
      <4>9. phaseBar[p] # "absent"
        BY <2>0, <2>7, <3>1 DEF PhaseOf, TypeOK, Statuses, Landed
      <4>10. Contract!Record(p)
        BY <2>8, <3>2, <4>3, <4>8, <4>9 DEF Contract!Record
      <4> QED
        BY <4>10 DEF Contract!Next
    <3> QED
      BY <3>3, <3>4
  <2>15. ASSUME NEW w \in Workers, PostCommit(w)
         PROVE  Contract!Settle(call[w].payment) /\ call[w].payment \in Payments
    <3>0. PICK p \in Payments : p = call[w].payment
      BY <2>0, <2>15, BusyType DEF PostCommit, Steps, PostSteps
    <3>1. /\ call[w].landing \in Landed
          /\ call[w].decided \in Decisions
          /\ Holds(p, "original")
          /\ ~Posted(p)
          /\ status[p] \in {"draft", "submitted"}
      BY <2>0, <2>15, <3>0, BusyType
         DEF PostCommit, At, CallAgrees, Postable, Posted, Steps, PostSteps
    <3>2. phaseBar' = [phaseBar EXCEPT ![p] = "settled"]
      <4>1. phaseBar' = [phaseBar EXCEPT ![p] = PhaseOf(call[w].landing)]
        BY <2>5, <2>15, <3>0 DEF PostCommit
      <4> QED
        BY <2>6, <3>1, <4>1
    <3>3. phaseBar[p] = "open" /\ booksBar' = booksBar
      BY <2>2, <2>6, <2>7, <2>15, <3>1 DEF PostCommit
    <3>4. booksBar[p] = "posted"
      BY <2>0, <2>8, <3>1 DEF EntryAgrees, BooksOf
    <3>5. announcedBar' = IF OutboxOn THEN [announcedBar EXCEPT ![p] = @ + 1]
                                      ELSE announcedBar
      <4>1. CASE ~OutboxOn
        BY <2>3, <2>15, <4>1 DEF PostCommit, Stage
      <4>2. CASE OutboxOn
        <5> DEFINE notice == [discount |-> call[w].decided, status |-> call[w].landing]
        <5>1. notice \in Notices /\ outbox[p] \in Seq(Notices)
          BY <2>0, <3>1 DEF Notices, TypeOK
        <5>2. outbox' = [outbox EXCEPT ![p] = Append(outbox[p], notice)]
          BY <2>15, <3>0, <4>2 DEF PostCommit, Stage
        <5> HIDE DEF notice
        <5>3. Len(outbox'[p]) = Len(outbox[p]) + 1
          BY <2>0, <5>1, <5>2, AppendProperties DEF TypeOK
        <5>4. \A q \in Payments \ {p} : outbox'[q] = outbox[q]
          BY <2>0, <5>2 DEF TypeOK
        <5> QED
          BY <4>2, <5>3, <5>4 DEF announcedBar
      <4> QED
        BY <4>1, <4>2
    <3> QED
      BY <3>0, <3>2, <3>3, <3>4, <3>5 DEF Contract!Settle
  <2>16. ASSUME NEW w \in Workers, NEW o \in Outcomes, ReverseSink(w, o)
         PROVE  Contract!Next \/ UNCHANGED <<phaseBar, booksBar, announcedBar>>
    <3>0. PICK p \in Payments : p = call[w].payment
      BY <2>0, <2>16, BusyType DEF ReverseSink, Steps, ReverseSteps
    <3>1. /\ call[w].decided \in Decisions
          /\ Posted(p)
          /\ <<p, "reversal">> \in Keys
      BY <2>0, <2>16, <3>0, BusyType
         DEF ReverseSink, At, CallAgrees, Steps, ReverseSteps, Keys, PostingTypes
    <3>2. phaseBar' = phaseBar /\ announcedBar' = announcedBar
      BY <2>3, <2>4, <2>16 DEF ReverseSink, entryVars
    <3>3. CASE ledger' = ledger
      BY <2>2, <3>2, <3>3
    <3>4. CASE ledger' # ledger
      <4>1. GlPost(<<p, "reversal">>, call[w].decided)
        BY <2>16, <3>0, <3>4 DEF ReverseSink, IdempotencyKey
      <4>2. ~Holds(p, "reversal")
        BY <3>4, <4>1 DEF GlPost, Holds
      <4>3. BooksOf(p) = "posted" /\ status[p] \in Landed
        BY <2>0, <3>1, <4>2 DEF EntryAgrees, BooksOf
      <4>4. /\ ledger'[<<p, "reversal">>] # None
            /\ \A k \in Keys \ {<<p, "reversal">>} : ledger'[k] = ledger[k]
        BY <2>0, <3>1, <4>1, GlPostEffect
      <4>5. \A q \in Payments \ {p}, type \in PostingTypes :
               ledger'[<<q, type>>] = ledger[<<q, type>>]
        BY <4>4 DEF Keys, PostingTypes
      <4>6. BooksOf(p)' = "mirrored"
        BY <4>4 DEF BooksOf, Holds
      <4>7. \A q \in Payments \ {p} : BooksOf(q)' = BooksOf(q)
        BY <4>5 DEF BooksOf, Holds, PostingTypes
      <4>8. booksBar' = [booksBar EXCEPT ![p] = "mirrored"]
        BY <4>6, <4>7 DEF booksBar
      <4>9. Contract!Mirror(p)
        BY <2>6, <2>7, <2>8, <3>2, <4>3, <4>8 DEF Contract!Mirror
      <4> QED
        BY <4>9 DEF Contract!Next
    <3> QED
      BY <3>3, <3>4
  <2>17. ASSUME NEW w \in Workers, ReverseCancel(w)
         PROVE  Contract!Next \/ UNCHANGED <<phaseBar, booksBar, announcedBar>>
    <3>0. PICK p \in Payments : p = call[w].payment
      BY <2>0, <2>17, BusyType DEF ReverseCancel, Steps, ReverseSteps
    <3>1. Holds(p, "reversal")
      BY <2>0, <2>17, <3>0 DEF ReverseCancel, At, CallAgrees
    <3>2. booksBar' = booksBar /\ announcedBar' = announcedBar
      BY <2>2, <2>3, <2>17 DEF ReverseCancel
    <3>3. CASE Cancellable(p)
      <4>1. phaseBar' = [phaseBar EXCEPT ![p] = PhaseOf("cancelled")]
        BY <2>5, <2>17, <3>0, <3>3 DEF ReverseCancel
      <4>2. phaseBar[p] = "settled" /\ booksBar[p] = "mirrored"
        BY <2>6, <2>7, <2>8, <3>1, <3>3 DEF Cancellable, BooksOf
      <4>3. Contract!Unwind(p)
        BY <2>6, <3>2, <4>1, <4>2 DEF Contract!Unwind
      <4> QED
        BY <4>3 DEF Contract!Next
    <3>4. CASE ~Cancellable(p)
      BY <2>4, <2>17, <3>0, <3>2, <3>4 DEF ReverseCancel
    <3> QED
      BY <3>3, <3>4
  <2>18. ASSUME status' = status, ledger' = ledger, outbox' = outbox
         PROVE  UNCHANGED <<phaseBar, booksBar, announcedBar>>
    BY <2>2, <2>3, <2>4, <2>18
  <2> QED
    BY <2>10, <2>11, <2>12, <2>13, <2>14, <2>15, <2>16, <2>17, <2>18
       DEF Next, VerbNext, PostNext, ReverseNext, vars, entryVars, PostStart,
           PostGate, PostDecide, PostMarkFailed, PostLost, PostEmit,
           ReverseStart, ReverseBuild, ReverseEmit, Abandon, Contract!Next
<1> QED
  BY <1>1, <1>2, InvHolds, PTL DEF Spec, ImplementsContract, Contract!Spec

===============================================================================

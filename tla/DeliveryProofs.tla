--------------------------- MODULE DeliveryProofs ---------------------------
(***************************************************************************)
(* Deliveries, for any constants.                                          *)
(*                                                                         *)
(* Events: none is lost between outbox and stream, and none is logged      *)
(* twice in the audit log or acknowledged without effect.  The invariant   *)
(* adds to the properties what a poller or a worker knows between two      *)
(* steps: a row about to be marked is in the stream, like every id in the  *)
(* duplicate window, and a message about to be acknowledged has had its    *)
(* effect.                                                                 *)
(*                                                                         *)
(* Streamed completions: the text a client has is a prefix of one try's,   *)
(* [DONE] means that all was read and kept, and the usage is billed.  The  *)
(* invariant says what is on its way: whole frames, the pieces that are    *)
(* left to read and then the end of the stream.                            *)
(***************************************************************************)
EXTENDS EventDelivery, ChatStream, WellFoundedInduction, FiniteSetTheorems, SequenceTheorems, TLAPS

Stored == {e \in Events : copies[e] > 0}

\* What is published, about to be marked or in the duplicate window is stored.
StoredInv ==
    /\ published \subseteq Stored
    /\ window \subseteq Stored
    /\ \A p \in Pollers : step[p] = "mark" => Current(p) \in Stored

OutboxInv == OutboxTypeOK /\ StoredInv

-----------------------------------------------------------------------------

\* A non-empty set of numbers has a minimum.
LEMMA MinMember ==
    ASSUME NEW S \in SUBSET Nat, S # {}
    PROVE  Min(S) \in S /\ \A y \in S : Min(S) <= y
<1> DEFINE Less == {pair \in Nat \X Nat : pair[1] < pair[2]}
<1>1. IsWellFoundedOn(Less, Nat)
  BY NatLessThanWellFounded, Zenon DEF OpToRel
<1>2. S \subseteq Nat
  OBVIOUS
<1>3. \E x \in S : \A y \in S : ~ (<<y, x>> \in Less)
  <2> HIDE DEF Less
  <2> QED
    BY <1>1, <1>2, WFMin, Zenon
<1>4. PICK x \in S : \A y \in S : ~ (<<y, x>> \in Less)
  BY <1>3, Zenon
<1>5. ASSUME NEW y \in S PROVE ~ (y < x)
  <2>1. <<y, x>> \in Nat \X Nat
    BY <1>2
  <2>2. <<y, x>>[1] = y /\ <<y, x>>[2] = x
    OBVIOUS
  <2>3. ~ (<<y, x>>[1] < <<y, x>>[2])
    BY <1>4, <2>1, Zenon
  <2> QED
    BY <2>2, <2>3, Zenon
<1>6. \A y \in S : x <= y
  BY <1>2, <1>5
<1> QED
  BY <1>6 DEF Min

\* A poller that is not idle is at a row of the table.
LEMMA CurrentRow ==
    ASSUME OutboxTypeOK, NEW p \in Pollers, step[p] # "idle"
    PROVE  Current(p) \in batch[p] /\ Current(p) \in Events
<1>1. batch[p] \in SUBSET Nat /\ batch[p] # {} /\ batch[p] \subseteq Events
  BY OutboxAssumption DEF OutboxAssumption, OutboxTypeOK
<1> QED
  BY <1>1, MinMember DEF Current

\* A poll that finds pending rows takes at least the oldest of them.
LEMMA OldestSome ==
    ASSUME OutboxTypeOK, Pending # {}
    PROVE  Oldest(Pending) # {} /\ Oldest(Pending) \subseteq Events
<1>1. Pending \in SUBSET Nat /\ Pending \subseteq Events
  BY OutboxAssumption DEF OutboxAssumption, OutboxTypeOK, Pending
<1>2. PICK e \in Pending : \A d \in Pending : e <= d
  BY <1>1, MinMember
<1>3. {d \in Pending : d < e} = {}
  <2>1. \A d \in Pending : ~ (d < e)
    BY <1>1, <1>2
  <2> QED
    BY <2>1, Zenon
<1>4. Cardinality({d \in Pending : d < e}) = 0
  BY <1>3, FS_EmptySet
<1>5. 0 < BatchSize
  BY OutboxAssumption DEF OutboxAssumption
<1>6. e \in Oldest(Pending)
  BY <1>2, <1>4, <1>5 DEF Oldest
<1> QED
  BY <1>1, <1>6 DEF Oldest

\* Nothing is published, marked or remembered at the start.
LEMMA OutboxStart == OutboxInit => OutboxInv
  BY DEF OutboxInit, OutboxInv, OutboxTypeOK, StoredInv

\* Storing an event keeps what is stored, and has it stored afterwards.
LEMMA StoreStores ==
    ASSUME OutboxInv, NEW e \in Events, Store(e)
    PROVE  /\ copies' \in [Events -> Nat]
           /\ Stored \cup {e} \subseteq Stored'
           /\ window' \subseteq Stored'
<1>1. CASE e \in window
  BY <1>1 DEF Store, OutboxInv, OutboxTypeOK, StoredInv, Stored
<1>2. CASE e \notin window
  <2>1. copies' = [copies EXCEPT ![e] = @ + 1] /\ copies \in [Events -> Nat]
    BY <1>2 DEF Store, OutboxInv, OutboxTypeOK
  <2>2. Stored \cup {e} \subseteq Stored'
    BY <2>1 DEF Stored
  <2> QED
    BY <2>1, <2>2 DEF Store, OutboxInv, StoredInv
<1> QED
  BY <1>1, <1>2

\* Going on to the next row keeps the invariant if what was done at this one
\* kept its part.
LEMMA NextRowKeeps ==
    ASSUME OutboxInv, NEW p \in Pollers, step[p] # "idle", NextRow(p), UNCHANGED committed,
           copies' \in [Events -> Nat], Stored \subseteq Stored',
           published' \subseteq Stored', window' \subseteq Stored'
    PROVE  OutboxInv'
<1>1. Current(p) \in batch[p]
  BY CurrentRow DEF OutboxInv
<1>2. /\ batch' = [batch EXCEPT ![p] = batch[p] \ {Current(p)}]
      /\ step' = [step EXCEPT ![p] = IF batch[p] = {Current(p)} THEN "idle" ELSE "publish"]
  BY DEF NextRow
<1>3. batch[p] \ {Current(p)} = {} <=> batch[p] = {Current(p)}
  BY <1>1
<1>4. \A q \in Pollers : step'[q] = "idle" <=> batch'[q] = {}
  BY <1>2, <1>3 DEF OutboxInv, OutboxTypeOK
<1>5. OutboxTypeOK'
  BY <1>2, <1>4 DEF OutboxInv, OutboxTypeOK, Stored
<1>6. ASSUME NEW q \in Pollers, step'[q] = "mark" PROVE Current(q)' \in Stored'
  <2>1. q # p /\ batch'[q] = batch[q] /\ step[q] = "mark"
    BY <1>2, <1>6 DEF OutboxInv, OutboxTypeOK
  <2>2. Current(q)' = Current(q)
    BY <2>1 DEF Current
  <2> QED
    BY <2>1, <2>2 DEF OutboxInv, StoredInv
<1> QED
  BY <1>5, <1>6 DEF OutboxInv, StoredInv

\* Every step of the outbox keeps its invariant.
LEMMA OutboxStep == ASSUME OutboxInv, OutboxNext PROVE OutboxInv'
<1>1. ASSUME NEW e \in Events, Commit(e) PROVE OutboxInv'
  BY <1>1 DEF Commit, OutboxInv, OutboxTypeOK, StoredInv, Stored, Current
<1>2. ASSUME NEW e \in Events, WindowExpire(e) PROVE OutboxInv'
  BY <1>2 DEF WindowExpire, OutboxInv, OutboxTypeOK, StoredInv, Stored, Current
<1>3. ASSUME NEW p \in Pollers, Poll(p) PROVE OutboxInv'
  <2>1. Oldest(Pending) # {} /\ Oldest(Pending) \subseteq Events
    BY <1>3, OldestSome DEF Poll, OutboxInv
  <2>2. OutboxTypeOK'
    BY <1>3, <2>1 DEF Poll, OutboxInv, OutboxTypeOK
  <2>3. ASSUME NEW q \in Pollers, step'[q] = "mark" PROVE Current(q)' \in Stored'
    <3>1. step[q] = "mark" /\ batch'[q] = batch[q]
      BY <1>3, <2>3 DEF Poll, OutboxInv, OutboxTypeOK
    <3> QED
      BY <1>3, <3>1 DEF Poll, OutboxInv, StoredInv, Stored, Current
  <2> QED
    BY <1>3, <2>2, <2>3 DEF Poll, OutboxInv, StoredInv, Stored
<1>4. ASSUME NEW p \in Pollers, PublishOk(p) PROVE OutboxInv'
  <2>1. Current(p) \in Events /\ step[p] = "publish"
    BY <1>4, CurrentRow DEF PublishOk, OutboxInv
  <2>2. /\ copies' \in [Events -> Nat]
        /\ Stored \cup {Current(p)} \subseteq Stored'
        /\ window' \subseteq Stored'
    BY <1>4, <2>1, StoreStores DEF PublishOk
  <2>3. \A q \in Pollers : Current(q)' = Current(q)
    BY <1>4 DEF PublishOk, Current
  <2>4. step' = [step EXCEPT ![p] = "mark"] /\ UNCHANGED <<committed, published, batch>>
    BY <1>4 DEF PublishOk
  <2>5. \A q \in Pollers : step'[q] = "mark" => q = p \/ step[q] = "mark"
    BY <2>4 DEF OutboxInv, OutboxTypeOK
  <2>6. StoredInv'
    BY <2>2, <2>3, <2>4, <2>5 DEF OutboxInv, StoredInv
  <2>7. OutboxTypeOK'
    BY <2>1, <2>2, <2>4 DEF OutboxInv, OutboxTypeOK, Stored
  <2> QED
    BY <2>6, <2>7 DEF OutboxInv
<1>5. ASSUME NEW p \in Pollers, PublishFail(p) PROVE OutboxInv'
  <2>1. Current(p) \in Events /\ step[p] # "idle" /\ NextRow(p) /\ UNCHANGED <<committed, published>>
    BY <1>5, CurrentRow DEF PublishFail, OutboxInv
  <2>2. copies' \in [Events -> Nat] /\ Stored \subseteq Stored' /\ window' \subseteq Stored'
    <3>1. CASE Store(Current(p))
      BY <2>1, <3>1, StoreStores
    <3>2. CASE UNCHANGED <<copies, window>>
      BY <3>2 DEF OutboxInv, OutboxTypeOK, StoredInv, Stored
    <3> QED
      BY <1>5, <3>1, <3>2 DEF PublishFail
  <2>3. published' \subseteq Stored'
    BY <2>1, <2>2 DEF OutboxInv, StoredInv
  <2> QED
    BY <2>1, <2>2, <2>3, NextRowKeeps
<1>6. ASSUME NEW p \in Pollers, Mark(p) \/ MarkFail(p) PROVE OutboxInv'
  <2>1. /\ step[p] = "mark" /\ NextRow(p) /\ UNCHANGED <<committed, copies, window>>
        /\ published' \subseteq published \cup {Current(p)}
    BY <1>6 DEF Mark, MarkFail
  <2>2. Stored' = Stored
    BY <2>1 DEF Stored
  <2>3. published' \subseteq Stored' /\ window' \subseteq Stored'
    BY <2>1, <2>2 DEF OutboxInv, StoredInv
  <2>4. copies' \in [Events -> Nat]
    BY <2>1 DEF OutboxInv, OutboxTypeOK
  <2> QED
    BY <2>1, <2>2, <2>3, <2>4, NextRowKeeps
<1>7. ASSUME NEW p \in Pollers, PollerCrash(p) PROVE OutboxInv'
  <2>1. OutboxTypeOK'
    BY <1>7 DEF PollerCrash, OutboxInv, OutboxTypeOK
  <2>2. ASSUME NEW q \in Pollers, step'[q] = "mark" PROVE Current(q)' \in Stored'
    <3>1. step[q] = "mark" /\ batch'[q] = batch[q]
      BY <1>7, <2>2 DEF PollerCrash, OutboxInv, OutboxTypeOK
    <3> QED
      BY <1>7, <3>1 DEF PollerCrash, OutboxInv, StoredInv, Stored, Current
  <2> QED
    BY <1>7, <2>1, <2>2 DEF PollerCrash, OutboxInv, StoredInv, Stored
<1> QED
  BY <1>1, <1>2, <1>3, <1>4, <1>5, <1>6, <1>7 DEF OutboxNext, PollerStep

-----------------------------------------------------------------------------

States == {"ready", "out", "acked", "termed", "dead"}

\* The types of the consumer's variables.
DeliveryTyped ==
    /\ kind \in Kinds /\ type \in Typings[kind]
    /\ mail \in [Messages -> States]
    /\ tries \in [Messages -> Nat]
    /\ held \in [Workers -> Messages \cup {None}]
    /\ handled \in [Workers -> BOOLEAN]
    /\ log \in [Events -> Nat]

\* No message is delivered more than MaxDeliver times.
TriesInv ==
    \A m \in Messages :
        tries[m] <= MaxDeliver /\ (mail[m] = "ready" => tries[m] < MaxDeliver)

\* What a worker is about to acknowledge has had its effect, if the subscriber is
\* a reliable one.
HandledInv ==
    \A w \in Workers :
        handled[w] => held[w] \in Messages /\ (Reliable => log[held[w][1]] > 0)

LogInv == AuditOnce /\ AckedIsLogged /\ HandledInv

DeliveryInv == OutboxInv /\ DeliveryTyped /\ TriesInv /\ LogInv

\* The invariant gives the types and the properties.
LEMMA DeliveryInvImplies ==
    DeliveryInv => TypeOK /\ PublishedIsStored /\ AuditOnce /\ AckedIsLogged
<1> SUFFICES ASSUME DeliveryInv
             PROVE  TypeOK /\ PublishedIsStored /\ AuditOnce /\ AckedIsLogged
  OBVIOUS
<1>1. tries \in [Messages -> 0..MaxDeliver]
  BY DeliveryAssumption DEF DeliveryAssumption, DeliveryInv, DeliveryTyped, TriesInv
<1>2. \A w \in Workers : handled[w] => held[w] # None
  BY DeliveryAssumption DEF DeliveryAssumption, DeliveryInv, LogInv, HandledInv
<1>3. TypeOK
  BY <1>1, <1>2 DEF TypeOK, DeliveryInv, DeliveryTyped, OutboxInv, States
<1>4. PublishedIsStored
  BY DEF PublishedIsStored, DeliveryInv, OutboxInv, StoredInv, Stored
<1> QED
  BY <1>3, <1>4 DEF DeliveryInv, LogInv

\* The consumer starts with nothing delivered.
LEMMA DeliveryStart == Init => DeliveryInv
<1> SUFFICES ASSUME Init PROVE DeliveryInv
  OBVIOUS
<1>1. OutboxInv
  BY OutboxStart DEF Init
<1>2. DeliveryTyped
  BY DEF Init, DeliveryTyped, States
<1>3. TriesInv
  BY DeliveryAssumption DEF DeliveryAssumption, Init, TriesInv
<1>4. LogInv
  BY DEF Init, LogInv, AuditOnce, AckedIsLogged, HandledInv, Messages
<1> QED
  BY <1>1, <1>2, <1>3, <1>4 DEF DeliveryInv

\* The subscribers.
LEMMA KnownKinds == Kinds \subseteq {"analytics", "audit", "billing", "email"}
  BY DeliveryAssumption DEF DeliveryAssumption

\* One more effect is one more in the log.
LEMMA AgainAdds ==
    ASSUME DeliveryTyped, NEW e \in Events
    PROVE  /\ Again(e) \in [Events -> Nat]
           /\ \A d \in Events : Again(e)[d] = IF d = e THEN log[d] + 1 ELSE log[d]
  BY DEF DeliveryTyped, Again

\* An effect only adds to the log, and the audit subscriber's never repeats.
LEMMA EffectsAdd ==
    ASSUME DeliveryTyped, AuditOnce, NEW e \in Events, NEW l \in Effects(e)
    PROVE  /\ l \in [Events -> Nat]
           /\ \A d \in Events : l[d] >= log[d]
           /\ Reliable => l[e] > 0
           /\ kind = "audit" => \A d \in Events : l[d] <= 1
<1>1. kind \in {"analytics", "audit", "billing", "email"} /\ log \in [Events -> Nat]
  BY KnownKinds DEF DeliveryTyped
<1>2. CASE kind = "analytics"
  <2>1. l = Again(e)
    BY <1>2 DEF Effects, AnalyticsEffects
  <2> QED
    BY <1>1, <1>2, <2>1, AgainAdds
<1>3. CASE kind = "audit"
  <2>1. l = IF log[e] > 0 THEN log ELSE Again(e)
    BY <1>3 DEF Effects, AuditEffects
  <2>2. CASE log[e] > 0
    BY <1>1, <1>3, <2>1, <2>2 DEF AuditOnce
  <2>3. CASE ~ (log[e] > 0)
    <3>1. log[e] = 0
      BY <1>1, <2>3
    <3> QED
      BY <1>1, <1>3, <2>1, <2>3, <3>1, AgainAdds DEF AuditOnce
  <2> QED
    BY <2>2, <2>3
<1>4. CASE kind = "billing"
  <2>1. l = log
    BY <1>4 DEF Effects, BillingEffects
  <2> QED
    BY <1>1, <1>4, <2>1 DEF Reliable
<1>5. CASE kind = "email"
  <2>1. l = log \/ l = Again(e)
    BY <1>5 DEF Effects, EmailEffects, SendEmail
  <2> QED
    BY <1>1, <1>5, <2>1, AgainAdds DEF Reliable
<1> QED
  BY <1>1, <1>2, <1>3, <1>4, <1>5

\* A handler that throws has had one of its effects or none.
LEMMA ThrownSome ==
    ASSUME DeliveryTyped, NEW e \in Events, NEW l \in ThrownEffects(e)
    PROVE  l = log \/ l \in Effects(e)
  BY KnownKinds DEF DeliveryTyped, ThrownEffects, Effects

\* A message that is not acknowledged has become ready again only if it has
\* deliveries left.
LEMMA ReturnedBounded ==
    ASSUME DeliveryTyped, TriesInv, NEW m \in Messages
    PROVE  /\ Returned(m) \in {"ready", "dead"}
           /\ Returned(m) = "ready" => tries[m] < MaxDeliver
  BY DEF DeliveryTyped, TriesInv, Returned

\* The pump lets go of its message.
LEMMA DropFacts ==
    ASSUME DeliveryTyped, NEW w \in Workers, Drop(w)
    PROVE  /\ held' \in [Workers -> Messages \cup {None}]
           /\ handled' \in [Workers -> BOOLEAN]
           /\ ~ handled'[w]
           /\ \A v \in Workers : v # w => held'[v] = held[v] /\ handled'[v] = handled[v]
  BY DEF DeliveryTyped, Drop

\* Every step keeps the invariant.
LEMMA DeliveryStep == DeliveryInv /\ [Next]_vars => DeliveryInv'
<1> SUFFICES ASSUME DeliveryInv, [Next]_vars PROVE DeliveryInv'
  OBVIOUS
<1>1. CASE UNCHANGED vars
  BY <1>1 DEF Reliable, vars, outboxVars, deliveryVars, DeliveryInv, OutboxInv, OutboxTypeOK,
         StoredInv,
              Stored, Current, DeliveryTyped, TriesInv, LogInv, AuditOnce, AckedIsLogged,
              HandledInv
<1>2. ASSUME OutboxNext, UNCHANGED deliveryVars PROVE DeliveryInv'
  <2>1. OutboxInv'
    BY <1>2, OutboxStep DEF DeliveryInv
  <2> QED
    BY <1>2, <2>1 DEF Reliable, deliveryVars, DeliveryInv, DeliveryTyped, TriesInv, LogInv,
           AuditOnce,
                      AckedIsLogged, HandledInv
<1>3. ASSUME UNCHANGED outboxVars PROVE OutboxInv'
  BY <1>3 DEF outboxVars, DeliveryInv, OutboxInv, OutboxTypeOK, StoredInv, Stored, Current
<1>4. ASSUME NEW w \in Workers, NEW m \in Messages, Receive(w, m) PROVE DeliveryInv'
  <2>1. DeliveryTyped'
    BY <1>4 DEF Receive, DeliveryInv, DeliveryTyped, States
  <2>2. TriesInv'
    <3>1. /\ mail' = [mail EXCEPT ![m] = "out"] /\ tries' = [tries EXCEPT ![m] = tries[m] + 1]
          /\ mail[m] = "ready" /\ tries[m] \in Nat /\ tries[m] < MaxDeliver
          /\ mail \in [Messages -> States] /\ tries \in [Messages -> Nat]
      BY <1>4 DEF Receive, DeliveryInv, DeliveryTyped, TriesInv
    <3>2. tries[m] + 1 <= MaxDeliver
      BY <3>1, DeliveryAssumption DEF DeliveryAssumption
    <3> QED
      BY <3>1, <3>2 DEF DeliveryInv, TriesInv
  <2>3. ~ handled[w]
    BY <1>4, DeliveryAssumption DEF DeliveryAssumption, Receive, DeliveryInv, LogInv, HandledInv
  <2>4. LogInv'
    <3>1. AuditOnce' /\ AckedIsLogged'
      BY <1>4 DEF Reliable, Receive, DeliveryInv, DeliveryTyped, LogInv, AuditOnce, AckedIsLogged
    <3>2. HandledInv'
      BY <1>4, <2>3 DEF Reliable, Receive, DeliveryInv, DeliveryTyped, LogInv, HandledInv
    <3> QED
      BY <3>1, <3>2 DEF LogInv
  <2> QED
    BY <1>3, <1>4, <2>1, <2>2, <2>4 DEF Receive, DeliveryInv, outboxVars
<1>5. ASSUME NEW w \in Workers, Terminate(w) PROVE DeliveryInv'
  <2>1. held[w] \in Messages
    BY <1>5 DEF Terminate, DeliveryInv, DeliveryTyped
  <2>2. DeliveryTyped'
    BY <1>5, <2>1, DropFacts DEF Terminate, DeliveryInv, DeliveryTyped, States
  <2>3. TriesInv'
    BY <1>5, <2>1 DEF Terminate, DeliveryInv, DeliveryTyped, TriesInv
  <2>4. LogInv'
    <3>1. AuditOnce' /\ AckedIsLogged'
      BY <1>5, <2>1 DEF Reliable, Terminate, DeliveryInv, DeliveryTyped, LogInv, AuditOnce,
             AckedIsLogged
    <3>2. HandledInv'
      BY <1>5, DropFacts DEF Reliable, Terminate, DeliveryInv, LogInv, HandledInv
    <3> QED
      BY <3>1, <3>2 DEF LogInv
  <2> QED
    BY <1>3, <1>5, <2>2, <2>3, <2>4 DEF Terminate, DeliveryInv, outboxVars
<1>6. ASSUME NEW w \in Workers, Handle(w) PROVE DeliveryInv'
  <2>1. held[w] \in Messages /\ held[w][1] \in Events
    BY <1>6 DEF Handle, DeliveryInv, DeliveryTyped, Messages
  <2>2. /\ log' \in [Events -> Nat]
        /\ \A d \in Events : log'[d] >= log[d]
        /\ Reliable => log'[held[w][1]] > 0
        /\ kind = "audit" => \A d \in Events : log'[d] <= 1
    <3>1. log' \in Effects(held[w][1])
      BY <1>6 DEF Handle
    <3> QED
      BY <2>1, <3>1, EffectsAdd DEF DeliveryInv, LogInv
  <2>3. DeliveryTyped'
    BY <1>6, <2>2 DEF Handle, DeliveryInv, DeliveryTyped
  <2>4. TriesInv'
    BY <1>6 DEF Handle, DeliveryInv, TriesInv
  <2>5. LogInv'
    <3>1. AuditOnce'
      BY <1>6, <2>2 DEF Handle, AuditOnce
    <3>2. AckedIsLogged'
      BY <1>6, <2>2 DEF Reliable, Handle, DeliveryInv, DeliveryTyped, LogInv, AckedIsLogged,
             Messages
    <3>3. HandledInv'
      BY <1>6, <2>1, <2>2 DEF Reliable, Handle, DeliveryInv, DeliveryTyped, LogInv, HandledInv,
             Messages
    <3> QED
      BY <3>1, <3>2, <3>3 DEF LogInv
  <2> QED
    BY <1>3, <1>6, <2>3, <2>4, <2>5 DEF Handle, DeliveryInv, outboxVars
<1>7. ASSUME NEW w \in Workers, HandlerThrows(w) PROVE DeliveryInv'
  <2>1. held[w] \in Messages /\ held[w][1] \in Events
    BY <1>7 DEF HandlerThrows, DeliveryInv, DeliveryTyped, Messages
  <2>2. /\ log' \in [Events -> Nat]
        /\ \A d \in Events : log'[d] >= log[d]
        /\ kind = "audit" => \A d \in Events : log'[d] <= 1
    <3>1. CASE log' = log
      BY <3>1 DEF DeliveryInv, DeliveryTyped, LogInv, AuditOnce
    <3>2. CASE log' \in Effects(held[w][1])
      BY <3>2, <2>1, EffectsAdd DEF DeliveryInv, LogInv
    <3>3. log' \in ThrownEffects(held[w][1])
      BY <1>7 DEF HandlerThrows
    <3> QED
      BY <2>1, <3>1, <3>2, <3>3, ThrownSome DEF DeliveryInv
  <2>3. \A m \in Messages : /\ mail'[m] \in States
                            /\ mail'[m] = mail[m] \/ mail'[m] = Returned(m)
    BY <1>7, <2>1, ReturnedBounded DEF HandlerThrows, DeliveryInv, DeliveryTyped, States
  <2>4. mail' \in [Messages -> States]
    BY <1>7, <2>1, ReturnedBounded DEF HandlerThrows, DeliveryInv, DeliveryTyped, States
  <2>5. DeliveryTyped'
    BY <1>7, <2>2, <2>4, DropFacts DEF HandlerThrows, DeliveryInv, DeliveryTyped
  <2>6. TriesInv'
    BY <1>7, <2>3, ReturnedBounded DEF HandlerThrows, DeliveryInv, TriesInv
  <2>7. LogInv'
    <3>1. AuditOnce'
      BY <1>7, <2>2 DEF HandlerThrows, AuditOnce
    <3>2. AckedIsLogged'
      <4>1. kind' = kind
        BY <1>7 DEF HandlerThrows
      <4> QED
        BY <2>2, <2>3, <4>1, ReturnedBounded DEF Reliable, DeliveryInv, DeliveryTyped, LogInv,
                                                 AckedIsLogged, Messages
    <3>3. HandledInv'
      BY <1>7, <2>2, DropFacts DEF Reliable, HandlerThrows, DeliveryInv, DeliveryTyped, LogInv,
             HandledInv,
                                   Messages
    <3> QED
      BY <3>1, <3>2, <3>3 DEF LogInv
  <2> QED
    BY <1>3, <1>7, <2>5, <2>6, <2>7 DEF HandlerThrows, DeliveryInv, outboxVars
<1>8. ASSUME NEW w \in Workers, Ack(w) PROVE DeliveryInv'
  <2>1. held[w] \in Messages /\ (Reliable => log[held[w][1]] > 0)
    BY <1>8 DEF Ack, DeliveryInv, LogInv, HandledInv
  <2>2. /\ mail' \in [Messages -> States]
        /\ \A m \in Messages : mail'[m] = mail[m] \/ (m = held[w] /\ mail'[m] = "acked")
    BY <1>8, <2>1 DEF Ack, DeliveryInv, DeliveryTyped, States
  <2>3. DeliveryTyped'
    BY <1>8, <2>2, DropFacts DEF Ack, DeliveryInv, DeliveryTyped
  <2>4. TriesInv'
    BY <1>8, <2>2 DEF Ack, DeliveryInv, TriesInv
  <2>5. LogInv'
    <3>1. AuditOnce' /\ AckedIsLogged'
      BY <1>8, <2>1, <2>2 DEF Reliable, Ack, DeliveryInv, LogInv, AuditOnce, AckedIsLogged
    <3>2. HandledInv'
      BY <1>8, DropFacts DEF Reliable, Ack, DeliveryInv, LogInv, HandledInv
    <3> QED
      BY <3>1, <3>2 DEF LogInv
  <2> QED
    BY <1>3, <1>8, <2>3, <2>4, <2>5 DEF Ack, DeliveryInv, outboxVars
<1>9. ASSUME NEW w \in Workers, WorkerCrash(w) PROVE DeliveryInv'
  <2>1. DeliveryTyped'
    BY <1>9, DropFacts DEF WorkerCrash, DeliveryInv, DeliveryTyped
  <2>2. TriesInv'
    BY <1>9 DEF WorkerCrash, DeliveryInv, TriesInv
  <2>3. LogInv'
    <3>1. AuditOnce' /\ AckedIsLogged'
      BY <1>9 DEF Reliable, WorkerCrash, DeliveryInv, LogInv, AuditOnce, AckedIsLogged
    <3>2. HandledInv'
      BY <1>9, DropFacts DEF Reliable, WorkerCrash, DeliveryInv, LogInv, HandledInv
    <3> QED
      BY <3>1, <3>2 DEF LogInv
  <2> QED
    BY <1>3, <1>9, <2>1, <2>2, <2>3 DEF WorkerCrash, DeliveryInv, outboxVars
<1>10. ASSUME NEW m \in Messages, AckWait(m) PROVE DeliveryInv'
  <2>1. /\ mail' \in [Messages -> States]
        /\ \A n \in Messages : mail'[n] = mail[n] \/ mail'[n] = Returned(n)
    BY <1>10, ReturnedBounded DEF AckWait, DeliveryInv, DeliveryTyped, States
  <2>2. DeliveryTyped'
    BY <1>10, <2>1 DEF AckWait, DeliveryInv, DeliveryTyped
  <2>3. TriesInv'
    BY <1>10, <2>1, ReturnedBounded DEF AckWait, DeliveryInv, TriesInv
  <2>4. LogInv'
    <3>1. AuditOnce' /\ HandledInv'
      BY <1>10 DEF Reliable, AckWait, DeliveryInv, LogInv, AuditOnce, HandledInv
    <3>2. AckedIsLogged'
      BY <1>10, <2>1, ReturnedBounded DEF Reliable, AckWait, DeliveryInv, LogInv, AckedIsLogged
    <3> QED
      BY <3>1, <3>2 DEF LogInv
  <2> QED
    BY <1>3, <1>10, <2>2, <2>3, <2>4 DEF AckWait, DeliveryInv, outboxVars
<1> QED
  BY <1>1, <1>2, <1>4, <1>5, <1>6, <1>7, <1>8, <1>9, <1>10 DEF Next, WorkerStep

\* Between commit and audit log no event is lost or doubled: a published row is in
\* the stream, an event has at most one audit row, and no message is acknowledged
\* before its event has had its effect, whatever crashes, repeats or is lost.
THEOREM DeliverySafety ==
    Spec => [](TypeOK /\ PublishedIsStored /\ AuditOnce /\ AckedIsLogged)
<1>1. Init => DeliveryInv
  BY DeliveryStart
<1>2. DeliveryInv /\ [Next]_vars => DeliveryInv'
  BY DeliveryStep
<1>3. DeliveryInv => TypeOK /\ PublishedIsStored /\ AuditOnce /\ AckedIsLogged
  BY DeliveryInvImplies
<1> QED
  BY <1>1, <1>2, <1>3, PTL DEF Spec

\* The pump of subscribe() never acknowledges an event that has had no effect, not
\* even after the ack wait, when another worker has the message already.
THEOREM DeliveryAckedIsLogged == Spec => []AckedIsLogged
<1>1. TypeOK /\ PublishedIsStored /\ AuditOnce /\ AckedIsLogged => AckedIsLogged
  OBVIOUS
<1> QED
  BY DeliverySafety, <1>1, PTL

-----------------------------------------------------------------------------
(* The stream to the client: ChatStream *)

PieceSet == (Attempts \X Nat \X Nat) \cup {<<>>}

Frames == [kind : {"delta", "final", "error", "[DONE]"}, piece : PieceSet]

Halves == [frame : Frames, last : BOOLEAN]

HandlerLabels == {"none", "begin", "open", "write", "pull", "record", "store", "finish",
                  "hung", "ended", "dead"}

StreamTyped ==
    /\ provider \in Providers /\ client \in {"ts", "python", "playground"} /\ keyed \in BOOLEAN
    /\ pc \in [Attempts -> HandlerLabels]
    /\ try \in [Attempts -> Nat] /\ pos \in [Attempts -> Nat]
    /\ text \in [Attempts -> Seq(PieceSet)]
    /\ usage \in [Attempts -> BOOLEAN] /\ failed \in [Attempts -> BOOLEAN]
    /\ early \in [Attempts -> BOOLEAN]
    /\ down \in [Attempts -> Seq(Halves)]
    /\ bill \in [Attempts -> {"none", "zero", "real"}] /\ stored \in BOOLEAN
    /\ sdk \in {"send", "wait", "read", "returned", "thrown"}
    /\ attempt \in 0..MaxAttempts
    /\ buffer \in Seq(Halves) /\ got \in Seq(PieceSet) /\ sawDone \in BOOLEAN

\* The lines of a provider p, and after which of them no chunk follows.
LinesOf(p) ==
    CASE p = "openai" -> OpenAILines
      [] p = "anthropic" -> AnthropicLines
      [] p = "gemini" -> GeminiLines
      [] p = "ollama" -> OllamaLines
      [] p = "mock" -> MockLines

Ends(p, i) == \A j \in DOMAIN LinesOf(p) : j > i => ~Yields(LinesOf(p)[j])

TextsIn(p, i) == Cardinality({k \in 1..i : HasText(LinesOf(p)[k])})

\* What the adapter of p may have given an attempt that is at a label: the chunk in
\* hand, the pieces so far (m), and the usage.
LineOK(p, label, i, m, use, clo, brk) ==
    /\ label \in {"write", "pull"} =>
          i \in DOMAIN LinesOf(p) /\ Yields(LinesOf(p)[i]) /\ ~brk
    /\ label = "write" => m + (IF HasText(LinesOf(p)[i]) THEN 1 ELSE 0) = TextsIn(p, i)
    /\ label = "pull" => m = TextsIn(p, i) /\ (Ends(p, i) /\ p # "openai" => use)
    /\ label = "record" => ~brk /\ (use \/ clo \/ p = "openai")
    /\ label \in {"record", "store"} => ~brk /\ (clo \/ m = Pieces)

\* The bookkeeping is done, and of the whole answer unless the provider closed early
\* (clo); or the stream broke.
Kept(brk, clo, tx, b, key, st) ==
    brk \/ (b # "none" /\ (key => st) /\ (clo \/ Len(tx) = Pieces))

\* Halves are those of frames, two of each.
Paired(h, fs) ==
    /\ Len(h) = 2 * Len(fs)
    /\ \A k \in 1..Len(fs) :
          /\ h[2 * k - 1] = [frame |-> fs[k], last |-> FALSE]
          /\ h[2 * k] = [frame |-> fs[k], last |-> TRUE]

\* The frames fs on their way from attempt a, after n pieces have been read of the m
\* pieces of try t: first the pieces that are left, then the end of the stream, with an
\* error at most once, which the playground counts as one more piece.
Flow(a, t, m, n, fs, brk, over) ==
    /\ Len(fs) >= m - n
    /\ \A k \in 1..Len(fs) :
          /\ k <= m - n => fs[k] = Frame("delta", <<a, t, n + k>>)
          /\ k > m - n => fs[k].kind # "delta" /\ fs[k].piece = <<>>
          /\ fs[k].kind = "error" =>
                brk /\ n <= m /\ \A j \in 1..Len(fs) : fs[j].kind = "error" => j = k
          /\ fs[k].kind = "[DONE]" => k = Len(fs) /\ over

Flight(a) == IF a = attempt THEN buffer \o down[a] ELSE down[a]

Seen(a) == IF a = attempt THEN Len(got) ELSE 0

\* An attempt a of the gateway, by its state: provider p, label l, line i, try t, pieces
\* tx, usage u, failed f, early e, record b, key, stored st, the halves fl on their way
\* to the client, which has sn pieces and is at attempt att.
Gate(a, p, l, i, t, tx, u, f, e, b, key, st, fl, sn, att) ==
    /\ l \in {"none", "begin", "open"} => tx = <<>> /\ fl = <<>> /\ ~f /\ sn = 0
    /\ LineOK(p, l, i, Len(tx), u, e, f)
    /\ l = "write" \/ (l = "pull" /\ ~Ends(p, i)) => Len(fl) = 2 * (Len(tx) - sn)
    /\ l = "store" => b # "none"
    /\ l = "finish" => Kept(f, e, tx, b, key, st)
    /\ b = "zero" => e \/ p = "openai"
    /\ \A k \in 1..Len(tx) : tx[k] = <<a, t, k>>
    /\ \E fs \in Seq(Frames) :
          Paired(fl, fs) /\ Flow(a, t, Len(tx), sn, fs, f, l = "ended" /\ Kept(f, e, tx, b, key, st))
    /\ a > att => l = "none"

GateInv(a) ==
    Gate(a, provider, pc[a], pos[a], try[a], text[a], usage[a], failed[a], early[a], bill[a],
         keyed, stored, Flight(a), Seen(a), attempt)

\* What the client has read.
ReadInv ==
    /\ (sdk \in {"send", "wait"} \/ attempt = 0) => got = <<>> /\ buffer = <<>> /\ ~sawDone
    /\ sdk = "send" => attempt < MaxAttempts /\ (client = "playground" => attempt = 0)
    /\ sdk \in {"wait", "read"} => attempt # 0
    /\ client = "python" => buffer = <<>>
    /\ attempt # 0 =>
          /\ \/ Len(got) <= Len(text[attempt])
             \/ client = "playground" /\ failed[attempt] /\ Len(got) = Len(text[attempt]) + 1
          /\ \A i \in 1..Len(got) :
                i <= Len(text[attempt]) => got[i] = <<attempt, try[attempt], i>>
    /\ sawDone => pc[attempt] = "ended" /\ Flight(attempt) = <<>> 
          /\ Kept(failed[attempt], early[attempt], text[attempt], bill[attempt], keyed, stored)

StreamInv == StreamTyped /\ (\A a \in Attempts : GateInv(a)) /\ ReadInv

-----------------------------------------------------------------------------
(* The adapters *)

\* The lines that providers send.
WireLines == {"text", "last_text", "message_start", "message_delta", "message_stop",
              "finish_reason", "[DONE]", "done"}

LEMMA TextsAre ==
    /\ Pieces \in Nat /\ Pieces >= 1
    /\ Texts \in Seq(WireLines) /\ Len(Texts) = Pieces /\ \A k \in 1..Pieces : Texts[k] = "text"
<1>1. Pieces \in Nat /\ Pieces >= 1
  BY StreamAssumption DEF StreamAssumption
<1>2. "text" \in WireLines
  BY DEF WireLines
<1> QED
  BY <1>1, <1>2 DEF Texts

\* The lines of each provider, by their places.
LEMMA OpenAIAre ==
    /\ Len(OpenAILines) = Pieces + 2 /\ DOMAIN OpenAILines = 1..Pieces + 2
    /\ OpenAILines[Pieces + 1] = "finish_reason" /\ OpenAILines[Pieces + 2] = "[DONE]"
    /\ \A k \in 1..Pieces + 2 :
          OpenAILines[k] = "text" \/ k = Pieces + 1 \/ k = Pieces + 2
<1>1. \A k \in 1..Pieces + 2 : k \in 1..Pieces \/ k = Pieces + 1 \/ k = Pieces + 2
  BY TextsAre
<1>2. \A k \in 1..Pieces : OpenAILines[k] = "text"
  BY TextsAre DEF OpenAILines
<1>3. Len(OpenAILines) = Pieces + 2 /\ DOMAIN OpenAILines = 1..Pieces + 2
  BY TextsAre DEF OpenAILines
<1>4. OpenAILines[Pieces + 1] = "finish_reason" /\ OpenAILines[Pieces + 2] = "[DONE]"
  BY TextsAre DEF OpenAILines
<1> QED
  BY <1>1, <1>2, <1>3, <1>4

LEMMA OllamaAre ==
    /\ Len(OllamaLines) = Pieces + 1 /\ DOMAIN OllamaLines = 1..Pieces + 1
    /\ OllamaLines[Pieces + 1] = "done"
    /\ \A k \in 1..Pieces + 1 : OllamaLines[k] = "text" \/ k = Pieces + 1
<1>1. \A k \in 1..Pieces + 1 : k \in 1..Pieces \/ k = Pieces + 1
  BY TextsAre
<1>2. \A k \in 1..Pieces : OllamaLines[k] = "text"
  BY TextsAre DEF OllamaLines
<1>3. /\ Len(OllamaLines) = Pieces + 1 /\ DOMAIN OllamaLines = 1..Pieces + 1
      /\ OllamaLines[Pieces + 1] = "done"
  BY TextsAre DEF OllamaLines
<1> QED
  BY <1>1, <1>2, <1>3

LEMMA GeminiAre ==
    /\ Len(GeminiLines) = Pieces /\ DOMAIN GeminiLines = 1..Pieces
    /\ GeminiLines[Pieces] = "last_text"
    /\ \A k \in 1..Pieces : GeminiLines[k] = "text" \/ k = Pieces
<1> DEFINE rest == Tail(Texts)
<1>1. /\ rest \in Seq(WireLines) /\ Len(rest) = Pieces - 1
      /\ \A k \in 1..Pieces - 1 : rest[k] = "text"
  BY TextsAre
<1>2. GeminiLines = rest \o <<"last_text">>
  BY DEF GeminiLines
<1> DEFINE n == Len(rest)
<1>3. n \in Nat /\ n + 1 = Pieces /\ n = Pieces - 1
  BY <1>1, TextsAre
<1> HIDE DEF rest
<1>4. \A k \in 1..n : GeminiLines[k] = rest[k]
  <2>1. rest \in Seq(WireLines)
    BY <1>1
  <2> QED
    BY <1>2, <2>1
<1>5. /\ Len(GeminiLines) = n + 1 /\ DOMAIN GeminiLines = 1..n + 1
      /\ GeminiLines[n + 1] = "last_text"
  <2>1. rest \in Seq(WireLines)
    BY <1>1
  <2> QED
    BY <1>2, <2>1
<1> HIDE DEF n
<1>6. \A k \in 1..n + 1 : k \in 1..n \/ k = n + 1
  BY <1>3
<1>7. \A k \in 1..n : rest[k] = "text"
  BY <1>1, <1>3
<1>8. \A k \in 1..n + 1 : GeminiLines[k] = "text" \/ k = n + 1
  BY <1>4, <1>6, <1>7
<1> QED
  BY <1>3, <1>5, <1>8, Zenon

LEMMA AnthropicAre ==
    /\ Len(AnthropicLines) = Pieces + 3 /\ DOMAIN AnthropicLines = 1..Pieces + 3
    /\ AnthropicLines[1] = "message_start"
    /\ AnthropicLines[Pieces + 2] = "message_delta" /\ AnthropicLines[Pieces + 3] = "message_stop"
    /\ \A k \in 1..Pieces + 3 :
          AnthropicLines[k] = "text" \/ k = 1 \/ k = Pieces + 2 \/ k = Pieces + 3
<1> DEFINE front == <<"message_start">> \o Texts
<1>1. /\ front \in Seq(WireLines) /\ Len(front) = Pieces + 1 /\ front[1] = "message_start"
      /\ \A k \in 2..Pieces + 1 : front[k] = "text"
  <2>1. \A k \in 2..Pieces + 1 : front[k] = Texts[k - 1] /\ k - 1 \in 1..Pieces
    BY TextsAre
  <2>2. \A k \in 2..Pieces + 1 : front[k] = "text"
    BY <2>1, TextsAre
  <2>3. "message_start" \in WireLines
    BY DEF WireLines
  <2>4. front \in Seq(WireLines) /\ Len(front) = Pieces + 1 /\ front[1] = "message_start"
    BY <2>3, TextsAre
  <2> QED
    BY <2>2, <2>4
<1>2. AnthropicLines = front \o <<"message_delta", "message_stop">>
  BY DEF AnthropicLines
<1> HIDE DEF front
<1>3. \A k \in 1..Pieces + 1 : AnthropicLines[k] = front[k]
  BY <1>1, <1>2, TextsAre
<1>4. /\ Len(AnthropicLines) = Pieces + 3 /\ DOMAIN AnthropicLines = 1..Pieces + 3
      /\ AnthropicLines[Pieces + 2] = "message_delta" /\ AnthropicLines[Pieces + 3] = "message_stop"
  BY <1>1, <1>2, TextsAre
<1>5. \A k \in 1..Pieces + 3 : k = 1 \/ k \in 2..Pieces + 1 \/ k = Pieces + 2 \/ k = Pieces + 3
  BY TextsAre
<1>6. 1 \in 1..Pieces + 1 /\ \A k \in 2..Pieces + 1 : k \in 1..Pieces + 1
  BY TextsAre
<1> QED
  BY <1>1, <1>3, <1>4, <1>5, <1>6

LEMMA LinesTyped ==
    ASSUME NEW p \in Providers
    PROVE  /\ p \in {"openai", "anthropic", "gemini", "ollama", "mock"}
           /\ Len(LinesOf(p)) \in Nat /\ DOMAIN LinesOf(p) = 1..Len(LinesOf(p))
           /\ provider = p => Body = LinesOf(p)
<1>1. p \in {"openai", "anthropic", "gemini", "ollama", "mock"}
  BY StreamAssumption DEF StreamAssumption
<1>2. OllamaLines = MockLines
  BY DEF OllamaLines, MockLines
<1>3. LinesOf(p) \in {OpenAILines, AnthropicLines, GeminiLines, OllamaLines}
  BY <1>1, <1>2 DEF LinesOf
<1>4. Len(LinesOf(p)) \in Nat /\ DOMAIN LinesOf(p) = 1..Len(LinesOf(p))
  <2>1. Pieces \in Nat /\ Pieces + 1 \in Nat /\ Pieces + 2 \in Nat /\ Pieces + 3 \in Nat
    BY TextsAre
  <2> QED
    BY <1>3, <2>1, OpenAIAre, AnthropicAre, GeminiAre, OllamaAre
<1> QED
  BY <1>1, <1>4 DEF LinesOf, Body

\* Which lines make a chunk.
LEMMA LineKinds ==
    /\ HasText("text") /\ HasText("last_text")
    /\ ~HasText("finish_reason") /\ ~HasText("[DONE]") /\ ~HasText("done")
    /\ ~HasText("message_start") /\ ~HasText("message_delta") /\ ~HasText("message_stop")
    /\ Yields("text") /\ Yields("last_text") /\ Yields("finish_reason") /\ Yields("done")
    /\ Yields("message_stop")
    /\ ~Yields("[DONE]") /\ ~Yields("message_start") /\ ~Yields("message_delta")
BY DEF HasText, Yields, IsFinal

\* A chunk without text is the last, and the last has the usage, but OpenAI's.
LEMMA LastChunk ==
    ASSUME NEW p \in Providers, provider = p, NEW i \in DOMAIN LinesOf(p), Yields(LinesOf(p)[i])
    PROVE  /\ ~HasText(LinesOf(p)[i]) => Ends(p, i)
           /\ Ends(p, i) /\ p # "openai" => HasUsage(i)
<1>0. Pieces \in Nat /\ Pieces >= 1 /\ Body = LinesOf(p)
  BY TextsAre, LinesTyped
<1>1. CASE p = "openai"
  <2>1. LinesOf(p) = OpenAILines
    BY <1>1 DEF LinesOf
  <2>2. i \in 1..Pieces + 2
    BY <2>1, OpenAIAre
  <2>3. ~HasText(LinesOf(p)[i]) => i = Pieces + 1
    BY <2>1, <2>2, OpenAIAre, LineKinds, Zenon
  <2>4. \A j \in 1..Pieces + 2 : j > Pieces + 1 => j = Pieces + 2
    BY <1>0
  <2>5. Ends(p, Pieces + 1)
    BY <2>1, <2>4, OpenAIAre, LineKinds, Zenon DEF Ends
  <2> QED
    BY <1>1, <2>3, <2>5
<1>2. CASE p = "anthropic"
  <2>1. LinesOf(p) = AnthropicLines
    BY <1>2 DEF LinesOf
  <2>2. i \in 1..Pieces + 3
    BY <2>1, AnthropicAre
  <2>3. ~HasText(LinesOf(p)[i]) => i = Pieces + 3
    BY <2>1, <2>2, AnthropicAre, LineKinds, Zenon
  <2>4. /\ \A j \in 1..Pieces + 3 : ~(j > Pieces + 3)
        /\ Pieces + 2 \in 1..Pieces + 3 /\ Pieces + 3 \in 1..Pieces + 3
        /\ i # Pieces + 3 => Pieces + 3 > i
    BY <1>0, <2>2
  <2>5. Ends(p, Pieces + 3)
    BY <2>1, <2>4, AnthropicAre, Zenon DEF Ends
  <2>6. Ends(p, i) => i = Pieces + 3
    BY <2>1, <2>4, AnthropicAre, LineKinds, Zenon DEF Ends
  <2>7. HasUsage(Pieces + 3)
    BY <1>0, <2>1, <2>4, AnthropicAre, Zenon DEF HasUsage
  <2> QED
    BY <2>3, <2>5, <2>6, <2>7
<1>3. CASE p = "gemini"
  <2>1. LinesOf(p) = GeminiLines
    BY <1>3 DEF LinesOf
  <2>2. i \in 1..Pieces /\ Pieces \in 1..Pieces /\ (i # Pieces => Pieces > i)
    <3>1. i \in 1..Pieces
      BY <2>1, GeminiAre
    <3> QED
      BY <1>0, <3>1
  <2>3. HasText(LinesOf(p)[i])
    BY <2>1, <2>2, GeminiAre, LineKinds, Zenon
  <2>4. Ends(p, i) => i = Pieces
    BY <2>1, <2>2, GeminiAre, LineKinds, Zenon DEF Ends
  <2>5. HasUsage(Pieces)
    BY <1>0, <2>1, GeminiAre DEF HasUsage
  <2> QED
    BY <2>3, <2>4, <2>5
<1>4. CASE p = "ollama" \/ p = "mock"
  <2>1. LinesOf(p) = OllamaLines
    BY <1>4 DEF LinesOf, OllamaLines, MockLines
  <2>2. /\ i \in 1..Pieces + 1 /\ Pieces + 1 \in 1..Pieces + 1 /\ (i # Pieces + 1 => Pieces + 1 > i)
        /\ \A j \in 1..Pieces + 1 : ~(j > Pieces + 1)
    BY <1>0, <2>1, OllamaAre
  <2>3. ~HasText(LinesOf(p)[i]) => i = Pieces + 1
    BY <2>1, <2>2, OllamaAre, LineKinds, Zenon
  <2>4. Ends(p, Pieces + 1)
    BY <2>1, <2>2, OllamaAre, Zenon DEF Ends
  <2>5. Ends(p, i) => i = Pieces + 1
    BY <2>1, <2>2, OllamaAre, LineKinds, Zenon DEF Ends
  <2>6. HasUsage(Pieces + 1)
    BY <1>0, <2>1, OllamaAre DEF HasUsage
  <2> QED
    BY <2>3, <2>4, <2>5, <2>6
<1> QED
  BY <1>1, <1>2, <1>3, <1>4, LinesTyped

\* Where the next chunk is, and how many pieces there are then.
LEMMA ChunkFollows ==
    ASSUME NEW p \in Providers, provider = p, NEW i \in Nat, NEW j \in NextChunk(i)
    PROVE  /\ j \in DOMAIN LinesOf(p) /\ Yields(LinesOf(p)[j]) /\ ~Ends(p, i)
           /\ TextsIn(p, i) \in Nat
           /\ TextsIn(p, j) = TextsIn(p, i) + (IF HasText(LinesOf(p)[j]) THEN 1 ELSE 0)
<1> DEFINE L == LinesOf(p)
           T(n) == {k \in 1..n : HasText(L[k])}
<1>0. Body = L /\ Len(L) \in Nat /\ DOMAIN L = 1..Len(L)
  BY LinesTyped
<1>1. /\ j \in i + 1..Len(L) /\ Yields(L[j]) /\ \A k \in i + 1..j - 1 : ~Yields(L[k])
  BY <1>0 DEF NextChunk
<1> HIDE DEF L
<1>2. j \in DOMAIN L /\ j > i /\ j \in Nat
  BY <1>0, <1>1
<1>3. ~Ends(p, i)
  BY <1>1, <1>2 DEF Ends, L
<1>4. IsFiniteSet(T(i)) /\ Cardinality(T(i)) \in Nat
  <2>1. IsFiniteSet(1..i)
    BY FS_Interval
  <2>2. T(i) \subseteq 1..i
    OBVIOUS
  <2> QED
    BY <2>1, <2>2, FS_Subset, FS_CardinalityType
<1>5. \A k \in i + 1..j - 1 : ~HasText(L[k])
  BY <1>1 DEF Yields
<1>6. \A k \in 1..j : k \in 1..i \/ k \in i + 1..j - 1 \/ k = j
  BY <1>2
<1>7. 1..i \subseteq 1..j /\ j \in 1..j /\ j \notin 1..i
  BY <1>2
<1>8. CASE HasText(L[j])
  <2>1. T(j) = T(i) \cup {j} /\ j \notin T(i)
    BY <1>5, <1>6, <1>7, <1>8, Zenon
  <2>2. Cardinality(T(j)) = Cardinality(T(i)) + 1
    BY <1>4, <2>1, FS_AddElement
  <2> QED
    BY <1>1, <1>2, <1>3, <1>4, <1>8, <2>2 DEF TextsIn, L
<1>9. CASE ~HasText(L[j])
  <2>1. T(j) = T(i)
    BY <1>5, <1>6, <1>7, <1>9, Zenon
  <2>2. Cardinality(T(j)) = Cardinality(T(i)) + 0
    BY <1>4, <2>1
  <2> QED
    BY <1>1, <1>2, <1>3, <1>4, <1>9, <2>2 DEF TextsIn, L
<1> QED
  BY <1>8, <1>9

\* After the last chunk there is the whole answer.
LEMMA WholeText ==
    ASSUME NEW p \in Providers, NEW i \in DOMAIN LinesOf(p), Yields(LinesOf(p)[i]), Ends(p, i)
    PROVE  TextsIn(p, i) = Pieces
<1> DEFINE T == {k \in 1..i : HasText(LinesOf(p)[k])}
<1>0. Pieces \in Nat /\ Pieces >= 1
  BY TextsAre
<1>1. Cardinality(1..Pieces) = Pieces /\ Cardinality(2..Pieces + 1) = Pieces
  <2>1. Cardinality(1..Pieces) = Pieces - 1 + 1
    BY <1>0, FS_Interval
  <2>2. Cardinality(2..Pieces + 1) = (Pieces + 1) - 2 + 1
    BY <1>0, FS_Interval
  <2> QED
    BY <1>0, <2>1, <2>2
<1>2. CASE p = "openai"
  <2>1. LinesOf(p) = OpenAILines
    BY <1>2 DEF LinesOf
  <2>2. /\ i \in 1..Pieces + 2 /\ Pieces + 1 \in 1..Pieces + 2
        /\ i # Pieces + 1 /\ i # Pieces + 2 => Pieces + 1 > i
        /\ \A k \in 1..Pieces : k \in 1..Pieces + 2 /\ k # Pieces + 1 /\ k # Pieces + 2
    BY <1>0, <2>1, OpenAIAre
  <2>3. i = Pieces + 1
    BY <2>1, <2>2, OpenAIAre, LineKinds, Zenon DEF Ends
  <2>4. \A k \in 1..Pieces + 1 : k \in 1..Pieces \/ k = Pieces + 1
    BY <1>0
  <2>5. \A k \in 1..Pieces : k \in 1..Pieces + 1
    BY <1>0
  <2>6. Pieces + 1 \notin 1..Pieces
    BY <1>0
  <2>7. \A k \in 1..Pieces + 1 : HasText(LinesOf(p)[k]) <=> k \in 1..Pieces
    BY <2>1, <2>2, <2>4, <2>6, OpenAIAre, LineKinds, Zenon
  <2>8. T = 1..Pieces
    BY <2>3, <2>5, <2>7, Zenon
  <2> QED
    BY <1>1, <2>8 DEF TextsIn
<1>3. CASE p = "anthropic"
  <2>1. LinesOf(p) = AnthropicLines
    BY <1>3 DEF LinesOf
  <2>2. /\ i \in 1..Pieces + 3 /\ Pieces + 3 \in 1..Pieces + 3
        /\ i # Pieces + 3 => Pieces + 3 > i
        /\ \A k \in 1..Pieces + 3 :
              k \in 2..Pieces + 1 \/ k = 1 \/ k = Pieces + 2 \/ k = Pieces + 3
        /\ \A k \in 2..Pieces + 1 :
              k \in 1..Pieces + 3 /\ k # 1 /\ k # Pieces + 2 /\ k # Pieces + 3
        /\ 1 \notin 2..Pieces + 1 /\ Pieces + 2 \notin 2..Pieces + 1 /\ Pieces + 3 \notin 2..Pieces + 1
    BY <1>0, <2>1, AnthropicAre
  <2>3. i = Pieces + 3
    BY <2>1, <2>2, AnthropicAre, LineKinds, Zenon DEF Ends
  <2>7. \A k \in 1..Pieces + 3 : HasText(LinesOf(p)[k]) <=> k \in 2..Pieces + 1
    BY <2>1, <2>2, AnthropicAre, LineKinds, Zenon
  <2>8. T = 2..Pieces + 1
    BY <2>2, <2>3, <2>7, Zenon
  <2> QED
    BY <1>1, <2>8 DEF TextsIn
<1>4. CASE p = "gemini"
  <2>1. LinesOf(p) = GeminiLines
    BY <1>4 DEF LinesOf
  <2>2. i \in 1..Pieces /\ Pieces \in 1..Pieces /\ (i # Pieces => Pieces > i)
    <3>1. i \in 1..Pieces
      BY <2>1, GeminiAre
    <3> QED
      BY <1>0, <3>1
  <2>3. i = Pieces
    BY <2>1, <2>2, GeminiAre, LineKinds, Zenon DEF Ends
  <2>7. \A k \in 1..Pieces : HasText(LinesOf(p)[k])
    BY <2>1, GeminiAre, LineKinds, Zenon
  <2>8. T = 1..Pieces
    BY <2>3, <2>7, Zenon
  <2> QED
    BY <1>1, <2>8 DEF TextsIn
<1>5. CASE p = "ollama" \/ p = "mock"
  <2>1. LinesOf(p) = OllamaLines
    BY <1>5 DEF LinesOf, OllamaLines, MockLines
  <2>2. /\ i \in 1..Pieces + 1 /\ Pieces + 1 \in 1..Pieces + 1 /\ (i # Pieces + 1 => Pieces + 1 > i)
        /\ \A k \in 1..Pieces + 1 : k \in 1..Pieces \/ k = Pieces + 1
        /\ \A k \in 1..Pieces : k \in 1..Pieces + 1 /\ k # Pieces + 1
        /\ Pieces + 1 \notin 1..Pieces
    BY <1>0, <2>1, OllamaAre
  <2>3. i = Pieces + 1
    BY <2>1, <2>2, OllamaAre, LineKinds, Zenon DEF Ends
  <2>7. \A k \in 1..Pieces + 1 : HasText(LinesOf(p)[k]) <=> k \in 1..Pieces
    BY <2>1, <2>2, OllamaAre, LineKinds, Zenon
  <2>8. T = 1..Pieces
    BY <2>2, <2>3, <2>7, Zenon
  <2> QED
    BY <1>1, <2>8 DEF TextsIn
<1> QED
  BY <1>2, <1>3, <1>4, <1>5, LinesTyped

\* A stream that has not ended has a next chunk.
LEMMA ChunkThere ==
    ASSUME NEW p \in Providers, provider = p, NEW i \in Nat, NextChunk(i) = {}
    PROVE  Ends(p, i)
<1> DEFINE L == LinesOf(p)
           J == {j \in Nat : j \in i + 1..Len(L) /\ Yields(L[j])}
<1>0. Body = L /\ Len(L) \in Nat /\ DOMAIN L = 1..Len(L)
  BY LinesTyped
<1>1. ASSUME J # {} PROVE FALSE
  <2>1. J \in SUBSET Nat
    OBVIOUS
  <2>2. PICK j \in J : \A y \in J : j <= y
    <3> HIDE DEF J
    <3> QED
      BY <1>1, <2>1, MinMember
  <2>3. ASSUME NEW k \in i + 1..j - 1, Yields(L[k]) PROVE FALSE
    <3>1. k \in J
      BY <1>0, <2>2, <2>3
    <3>2. j <= k /\ j \in Nat
      BY <2>2, <3>1
    <3> QED
      BY <2>3, <3>2
  <2>4. j \in NextChunk(i)
    BY <1>0, <2>2, <2>3 DEF NextChunk
  <2> QED
    BY <2>4
<1>2. ASSUME NEW j \in DOMAIN L, j > i, Yields(L[j]) PROVE FALSE
  <2>1. j \in J
    BY <1>0, <1>2
  <2> QED
    BY <1>1, <2>1
<1> QED
  BY <1>2 DEF Ends

-----------------------------------------------------------------------------
(* Halves and frames *)

\* A frame that is written adds two halves.
LEMMA PairedAppend ==
    ASSUME NEW h \in Seq(Halves), NEW fs \in Seq(Frames), Paired(h, fs), NEW g \in Frames
    PROVE  Paired(h \o <<[frame |-> g, last |-> FALSE], [frame |-> g, last |-> TRUE]>>, Append(fs, g))
<1> DEFINE x == [frame |-> g, last |-> FALSE]
           y == [frame |-> g, last |-> TRUE]
           h2 == h \o <<x, y>>
           fs2 == Append(fs, g)
<1>1. x \in Halves /\ y \in Halves
  BY DEF Halves
<1>2. Len(h) = 2 * Len(fs) /\ Len(fs) \in Nat /\ Len(h) \in Nat
  BY DEF Paired
<1>3. \A k \in 1..Len(fs) : h[2 * k - 1] = [frame |-> fs[k], last |-> FALSE] /\ h[2 * k] = [frame |-> fs[k], last |-> TRUE]
  BY DEF Paired
<1>4. /\ Len(fs2) = Len(fs) + 1 /\ fs2[Len(fs) + 1] = g
      /\ \A k \in 1..Len(fs) : fs2[k] = fs[k]
  OBVIOUS
<1> HIDE DEF x, y
<1>5. /\ Len(h2) = Len(h) + 2 /\ h2[Len(h) + 1] = x /\ h2[Len(h) + 2] = y
      /\ \A k \in 1..Len(h) : h2[k] = h[k]
  BY <1>1
<1> HIDE DEF h2, fs2
<1>6. Len(h2) = 2 * Len(fs2)
  BY <1>2, <1>4, <1>5
<1>7. ASSUME NEW k \in 1..Len(fs2)
      PROVE  h2[2 * k - 1] = [frame |-> fs2[k], last |-> FALSE] /\ h2[2 * k] = [frame |-> fs2[k], last |-> TRUE]
  <2>1. CASE k = Len(fs) + 1
    <3>1. 2 * k - 1 = Len(h) + 1 /\ 2 * k = Len(h) + 2
      BY <1>2, <2>1
    <3> QED
      BY <1>4, <1>5, <2>1, <3>1, Zenon DEF x, y
  <2>2. CASE k # Len(fs) + 1
    <3>1. k \in 1..Len(fs) /\ 2 * k - 1 \in 1..Len(h) /\ 2 * k \in 1..Len(h)
      BY <1>2, <1>4, <2>2
    <3> QED
      BY <1>3, <1>4, <1>5, <3>1, Zenon
  <2> QED
    BY <2>1, <2>2
<1> QED
  BY <1>6, <1>7, Zenon DEF Paired, h2, fs2, x, y

\* The frames that follow the first c.
LEMMA PairedDrop ==
    ASSUME NEW h \in Seq(Halves), NEW fs \in Seq(Frames), Paired(h, fs), NEW c \in 0..Len(fs),
           NEW r \in Seq(Halves), Len(r) = Len(h) - 2 * c,
           \A k \in 1..Len(r) : r[k] = h[2 * c + k]
    PROVE  SubSeq(fs, c + 1, Len(fs)) \in Seq(Frames) /\ Paired(r, SubSeq(fs, c + 1, Len(fs)))
<1> DEFINE rest == SubSeq(fs, c + 1, Len(fs))
<1>1. Len(h) = 2 * Len(fs) /\ Len(fs) \in Nat /\ c \in Nat /\ c <= Len(fs)
  BY DEF Paired
<1>2. /\ rest \in Seq(Frames) /\ Len(rest) = Len(fs) - c
      /\ \A k \in 1..Len(fs) - c : rest[k] = fs[c + k]
  BY <1>1
<1> HIDE DEF rest
<1>3. Len(r) = 2 * Len(rest)
  BY <1>1, <1>2
<1>4. ASSUME NEW k \in 1..Len(rest)
      PROVE  r[2 * k - 1] = [frame |-> rest[k], last |-> FALSE] /\ r[2 * k] = [frame |-> rest[k], last |-> TRUE]
  <2>1. c + k \in 1..Len(fs) /\ 2 * k - 1 \in 1..Len(r) /\ 2 * k \in 1..Len(r) /\ k \in 1..Len(fs) - c
    BY <1>1, <1>2, <1>3
  <2>2. 2 * c + (2 * k - 1) = 2 * (c + k) - 1 /\ 2 * c + 2 * k = 2 * (c + k)
    BY <1>1, <2>1
  <2>3. r[2 * k - 1] = h[2 * (c + k) - 1] /\ r[2 * k] = h[2 * (c + k)]
    BY <2>1, <2>2
  <2>4. /\ h[2 * (c + k) - 1] = [frame |-> fs[c + k], last |-> FALSE]
        /\ h[2 * (c + k)] = [frame |-> fs[c + k], last |-> TRUE]
    BY <2>1 DEF Paired
  <2> QED
    BY <1>2, <2>1, <2>3, <2>4
<1> QED
  BY <1>2, <1>3, <1>4 DEF Paired, rest

\* A read of n halves takes the whole frames in it, c of them, and leaves the others.
LEMMA PairedRead ==
    ASSUME NEW b \in Seq(Halves), NEW d \in Seq(Halves), NEW fs \in Seq(Frames),
           Paired(b \o d, fs), NEW n \in 1..Len(d)
    PROVE  /\ Rest(b \o SubSeq(d, 1, n)) \in Seq(Halves) /\ SubSeq(d, n + 1, Len(d)) \in Seq(Halves)
           /\ \E c \in 0..Len(fs) :
                 /\ Whole(b \o SubSeq(d, 1, n)) = SubSeq(fs, 1, c)
                 /\ SubSeq(fs, c + 1, Len(fs)) \in Seq(Frames)
                 /\ Paired(Rest(b \o SubSeq(d, 1, n)) \o SubSeq(d, n + 1, Len(d)), SubSeq(fs, c + 1, Len(fs)))
<1> DEFINE h == b \o d
           front == SubSeq(d, 1, n)
           tail == SubSeq(d, n + 1, Len(d))
           halves == b \o front
           L == Len(b) + n
           c == L \div 2
           r == Rest(halves) \o tail
<1>1. n \in Nat /\ n >= 1 /\ n <= Len(d) /\ Len(d) \in Nat /\ Len(b) \in Nat /\ L \in Nat /\ L >= 1
  OBVIOUS
<1>2. /\ front \in Seq(Halves) /\ Len(front) = n /\ \A k \in 1..n : front[k] = d[k]
      /\ tail \in Seq(Halves) /\ Len(tail) = Len(d) - n /\ \A k \in 1..Len(d) - n : tail[k] = d[n + k]
  BY <1>1
<1>3. /\ h \in Seq(Halves) /\ Len(h) = Len(b) + Len(d)
      /\ \A k \in 1..Len(b) : h[k] = b[k]
      /\ \A k \in 1..Len(d) : h[Len(b) + k] = d[k]
  BY <1>1
<1> HIDE DEF front, tail, h
<1>4. /\ halves \in Seq(Halves) /\ Len(halves) = L
      /\ \A k \in 1..Len(b) : halves[k] = b[k]
      /\ \A k \in 1..n : halves[Len(b) + k] = front[k]
  <2>1. b \in Seq(Halves) /\ front \in Seq(Halves) /\ Len(front) = n
    BY <1>2
  <2>2. halves \in Seq(Halves) /\ Len(halves) = Len(b) + Len(front)
    BY <2>1, ConcatProperties, Zenon
  <2>3. \A k \in 1..Len(b) : halves[k] = b[k]
    BY <2>1
  <2>4. \A k \in 1..Len(front) : halves[Len(b) + k] = front[k]
    BY <2>1
  <2> QED
    BY <2>1, <2>2, <2>3, <2>4
<1> HIDE DEF halves
<1>5. \A k \in 1..L : halves[k] = h[k]
  <2> TAKE k \in 1..L
  <2>1. CASE k <= Len(b)
    BY <1>1, <1>3, <1>4, <2>1
  <2>2. CASE ~(k <= Len(b))
    <3>1. k - Len(b) \in 1..n /\ k - Len(b) \in 1..Len(d) /\ Len(b) + (k - Len(b)) = k
      BY <1>1, <2>2
    <3> DEFINE j == k - Len(b)
    <3>2. j \in 1..n /\ j \in 1..Len(d) /\ Len(b) + j = k
      BY <3>1
    <3> HIDE DEF j
    <3>3. halves[Len(b) + j] = front[j] /\ front[j] = d[j] /\ h[Len(b) + j] = d[j]
      BY <1>2, <1>3, <1>4, <3>2, Zenon
    <3> QED
      BY <3>2, <3>3, Zenon
  <2> QED
    BY <2>1, <2>2
<1>6. Len(h) = 2 * Len(fs) /\ Len(fs) \in Nat
  BY DEF Paired, h
<1>7. c \in Nat /\ (L = 2 * c \/ L = 2 * c + 1)
  BY <1>1
<1> HIDE DEF c
<1>8. L <= 2 * Len(fs)
  BY <1>1, <1>3, <1>6
<1>9. c \in 0..Len(fs) /\ Len(fs) >= 1 /\ (L = 2 * c + 1 => c + 1 \in 1..Len(fs))
  <2> HIDE DEF L
  <2> QED
    BY <1>1, <1>6, <1>7, <1>8
<1>10. \A k \in 1..Len(fs) : h[2 * k - 1] = [frame |-> fs[k], last |-> FALSE] /\ h[2 * k] = [frame |-> fs[k], last |-> TRUE]
  BY DEF Paired, h
<1>11. Whole(halves) = SubSeq(fs, 1, c)
  <2>1. halves[1] = [frame |-> fs[1], last |-> FALSE]
    <3>1. 1 \in 1..L /\ 1 \in 1..Len(fs) /\ 2 * 1 - 1 = 1
      BY <1>1, <1>6, <1>9
    <3>2. h[2 * 1 - 1] = [frame |-> fs[1], last |-> FALSE]
      BY <1>10, <3>1
    <3> QED
      BY <1>5, <3>1, <3>2
  <2>2. ~halves[1].last
    BY <2>1
  <2>3. Whole(halves) = [k \in 1..(Len(halves) - 0) \div 2 |-> halves[0 + 2 * k].frame]
    BY <2>2 DEF Whole
  <2>4. (Len(halves) - 0) \div 2 = c
    BY <1>1, <1>4 DEF c
  <2>5. \A k \in 1..c : halves[0 + 2 * k].frame = fs[k]
    <3> TAKE k \in 1..c
    <3>1. 2 * k \in 1..L /\ k \in 1..Len(fs) /\ 0 + 2 * k = 2 * k
      <4> HIDE DEF L
      <4> QED
        BY <1>1, <1>6, <1>7, <1>9
    <3>2. halves[2 * k] = h[2 * k] /\ h[2 * k] = [frame |-> fs[k], last |-> TRUE]
      BY <1>5, <1>10, <3>1
    <3> QED
      BY <3>1, <3>2
  <2>6. Whole(halves) = [k \in 1..c |-> fs[k]]
    BY <2>3, <2>4, <2>5
  <2>7. SubSeq(fs, 1, c) = [k \in 1..c |-> fs[k]]
    BY <1>6, <1>9
  <2> QED
    BY <2>6, <2>7
<1>12. /\ L = 2 * c => Rest(halves) = <<>>
       /\ L = 2 * c + 1 => Rest(halves) = <<h[2 * c + 1]>> /\ h[2 * c + 1] \in Halves
       /\ Rest(halves) \in Seq(Halves)
  <2>0. halves # <<>> /\ L \in 1..L
    BY <1>1, <1>4
  <2>1. CASE L = 2 * c
    <3>1. c \in 1..Len(fs)
      <4> HIDE DEF L
      <4> QED
        BY <1>1, <1>6, <1>7, <1>9, <2>1
    <3>2. halves[L] = [frame |-> fs[c], last |-> TRUE]
      BY <1>5, <1>10, <2>0, <2>1, <3>1
    <3>3. halves[Len(halves)].last
      BY <1>4, <3>2
    <3>4. Rest(halves) = <<>>
      BY <3>3 DEF Rest
    <3>5. L # 2 * c + 1
      <4> HIDE DEF L
      <4> QED
        BY <1>7, <2>1
    <3> QED
      BY <3>4, <3>5
  <2>2. CASE L = 2 * c + 1
    <3>1. 2 * (c + 1) - 1 = 2 * c + 1
      BY <1>7
    <3>2. h[2 * c + 1] = [frame |-> fs[c + 1], last |-> FALSE]
      BY <1>9, <1>10, <2>2, <3>1
    <3>3. halves[Len(halves)] = h[2 * c + 1]
      BY <1>4, <1>5, <2>0, <2>2
    <3>4. Rest(halves) = <<h[2 * c + 1]>>
      <4>1. h[2 * c + 1].last = FALSE
        BY <3>2
      <4>2. ~halves[Len(halves)].last
        BY <3>3, <4>1
      <4>3. Rest(halves) = <<halves[Len(halves)]>>
        BY <2>0, <4>2, Zenon DEF Rest
      <4> QED
        BY <3>3, <4>3, Zenon
    <3>5. h[2 * c + 1] \in Halves
      BY <1>4, <2>0, <3>3
    <3>6. L # 2 * c
      <4> HIDE DEF L
      <4> QED
        BY <1>7, <2>2
    <3> QED
      BY <3>4, <3>5, <3>6
  <2> QED
    BY <1>7, <2>1, <2>2
<1>13. r \in Seq(Halves) /\ Len(r) = Len(h) - 2 * c /\ \A k \in 1..Len(r) : r[k] = h[2 * c + k]
  <2>1. \A k \in 1..Len(tail) : tail[k] = h[L + k]
    <3> TAKE k \in 1..Len(tail)
    <3>1. n + k \in 1..Len(d) /\ k \in 1..Len(d) - n /\ Len(b) + (n + k) = L + k
      BY <1>1, <1>2
    <3> QED
      BY <1>2, <1>3, <3>1
  <2>2. Len(tail) \in Nat /\ Len(h) = L + Len(tail) /\ tail \in Seq(Halves) /\ L \in Nat
    BY <1>1, <1>2, <1>3
  <2> HIDE DEF L
  <2>3. CASE L = 2 * c
    <3>1. r = tail
      BY <1>12, <2>2, <2>3
    <3> HIDE DEF r, c
    <3>2. r \in Seq(Halves) /\ Len(r) = Len(tail)
      BY <2>2, <3>1
    <3>3. Len(r) = Len(h) - 2 * c
      BY <2>2, <2>3, <3>2
    <3>4. \A k \in 1..Len(r) : r[k] = h[2 * c + k]
      BY <2>1, <2>3, <3>1
    <3> QED
      BY <3>2, <3>3, <3>4
  <2>4. CASE L = 2 * c + 1
    <3>1. r = <<h[2 * c + 1]>> \o tail /\ h[2 * c + 1] \in Halves
      BY <1>12, <2>4
    <3> DEFINE x == h[2 * c + 1]
    <3> HIDE DEF x, r
    <3>2. r = <<x>> \o tail /\ x \in Halves
      BY <3>1 DEF x
    <3>3. r \in Seq(Halves) /\ Len(r) = 1 + Len(tail) /\ r[1] = x /\ \A k \in 2..Len(r) : r[k] = tail[k - 1]
      BY <2>2, <3>2
    <3>4. ASSUME NEW k \in 1..Len(r) PROVE r[k] = h[2 * c + k]
      <4>1. CASE k = 1
        BY <3>3, <4>1 DEF x
      <4>2. CASE k # 1
        <5>1. k - 1 \in 1..Len(tail) /\ L + (k - 1) = 2 * c + k /\ k \in 2..Len(r)
          BY <1>7, <2>2, <2>4, <3>3, <4>2
        <5> QED
          BY <2>1, <3>3, <5>1
      <4> QED
        BY <4>1, <4>2
    <3>5. Len(r) = Len(h) - 2 * c
      BY <1>7, <2>2, <2>4, <3>3
    <3> QED
      BY <3>3, <3>4, <3>5
  <2> QED
    BY <1>7, <2>3, <2>4
<1> HIDE DEF r
<1>14. SubSeq(fs, c + 1, Len(fs)) \in Seq(Frames) /\ Paired(r, SubSeq(fs, c + 1, Len(fs)))
  <2>1. Paired(h, fs)
    BY DEF h
  <2> QED
    BY <1>3, <1>9, <1>13, <2>1, PairedDrop, Zenon
<1> QED
  BY <1>2, <1>9, <1>11, <1>12, <1>14, Zenon DEF r, halves, front, tail

\* Where the first q entries are selected, they are what is selected.
LEMMA SelectedPrefix ==
    ASSUME NEW S, NEW s \in Seq(S), NEW q \in 0..Len(s)
    PROVE  Selected(s, 1..q) = [j \in 1..q |-> s[j]]
<1>1. q \in Nat
  OBVIOUS
<1>2. \A k \in Nat : Cardinality(1..k) = k
  <2> TAKE k \in Nat
  <2>1. CASE k = 0
    <3>1. 1..k = {}
      BY <2>1
    <3> QED
      BY <2>1, <3>1, FS_EmptySet
  <2>2. CASE k # 0
    <3>1. Cardinality(1..k) = IF 1 > k THEN 0 ELSE k - 1 + 1
      BY FS_Interval
    <3> QED
      BY <2>2, <3>1
  <2> QED
    BY <2>1, <2>2
<1>3. ASSUME NEW j \in 1..q PROVE Nth(1..q, j) = j
  <2>1. ASSUME NEW k \in 1..q PROVE Cardinality({i \in 1..q : i <= k}) = k
    <3>1. {i \in 1..q : i <= k} = 1..k /\ k \in Nat
      BY <1>1
    <3> QED
      BY <1>2, <3>1, Zenon
  <2>2. \E k \in 1..q : Cardinality({i \in 1..q : i <= k}) = j
    BY <2>1
  <2> QED
    BY <2>1, <2>2 DEF Nth
<1>4. Cardinality(1..q) = q
  BY <1>1, <1>2
<1> QED
  BY <1>3, <1>4 DEF Selected

\* Where the first q entries and a later one are selected.
UpTo(q, e) == (1..q) \cup {e}

LEMMA SelectedOneMore ==
    ASSUME NEW S, NEW s \in Seq(S), NEW q \in Nat, NEW e \in Nat, q < e, e <= Len(s)
    PROVE  /\ DOMAIN Selected(s, UpTo(q, e)) = 1..q + 1
           /\ \A j \in 1..q + 1 : Selected(s, UpTo(q, e))[j] = IF j <= q THEN s[j] ELSE s[e]
<1> DEFINE E == (1..q) \cup {e}
           upto(k) == {i \in E : i <= k}
<1>1. \A k \in Nat : IsFiniteSet(1..k) /\ Cardinality(1..k) = k
  <2> TAKE k \in Nat
  <2>1. CASE k = 0
    <3>1. 1..k = {}
      BY <2>1
    <3> QED
      BY <2>1, <3>1, FS_EmptySet
  <2>2. CASE k # 0
    <3>1. IsFiniteSet(1..k) /\ Cardinality(1..k) = IF 1 > k THEN 0 ELSE k - 1 + 1
      BY FS_Interval
    <3> QED
      BY <2>2, <3>1
  <2> QED
    BY <2>1, <2>2
<1>2. Cardinality(E) = q + 1
  <2>1. e \notin 1..q
    OBVIOUS
  <2> QED
    BY <1>1, <2>1, FS_AddElement
<1>3. ASSUME NEW k \in 1..q PROVE Cardinality(upto(k)) = k
  <2>1. upto(k) = 1..k /\ k \in Nat
    OBVIOUS
  <2> QED
    BY <1>1, <2>1, Zenon
<1>4. Cardinality(upto(e)) = q + 1
  <2>1. upto(e) = E
    OBVIOUS
  <2> QED
    BY <1>2, <2>1
<1>5. ASSUME NEW j \in 1..q + 1 PROVE Nth(E, j) = IF j <= q THEN j ELSE e
  <2>1. j \in 1..q \/ j = q + 1
    OBVIOUS
  <2>2. \A k \in E : Cardinality(upto(k)) = j <=> k = (IF j <= q THEN j ELSE e)
    <3> TAKE k \in E
    <3>1. (k \in 1..q /\ Cardinality(upto(k)) = k) \/ (k = e /\ Cardinality(upto(k)) = q + 1)
      BY <1>3, <1>4
    <3> HIDE DEF upto
    <3> QED
      BY <2>1, <3>1
  <2>3. (IF j <= q THEN j ELSE e) \in E
    BY <2>1
  <2> QED
    BY <2>2, <2>3 DEF Nth
<1>6. Selected(s, E) = [j \in 1..q + 1 |-> s[IF j <= q THEN j ELSE e]]
  <2> HIDE DEF E
  <2> QED
    BY <1>2, <1>5 DEF Selected
<1>7. UpTo(q, e) = E
  BY DEF UpTo
<1> HIDE DEF E
<1> QED
  BY <1>6, <1>7

\* A piece is written while all that is on its way is text.
LEMMA FlowDelta ==
    ASSUME NEW a \in Attempts, NEW t \in Nat, NEW m \in Nat, NEW n \in Nat, NEW fs \in Seq(Frames),
           NEW brk, NEW over, Flow(a, t, m, n, fs, brk, over), Len(fs) = m - n
    PROVE  /\ Frame("delta", <<a, t, m + 1>>) \in Frames
           /\ Flow(a, t, m + 1, n, Append(fs, Frame("delta", <<a, t, m + 1>>)), brk, over)
<1> DEFINE g == Frame("delta", <<a, t, m + 1>>)
           fs2 == Append(fs, g)
<1>1. g \in Frames /\ g.kind = "delta"
  BY DEF Frame, Frames, PieceSet
<1>2. g = Frame("delta", <<a, t, m + 1>>)
  OBVIOUS
<1> HIDE DEF g
<1>3. /\ Len(fs2) = Len(fs) + 1 /\ Len(fs) \in Nat /\ fs2[Len(fs) + 1] = g
      /\ \A k \in 1..Len(fs) : fs2[k] = fs[k]
  BY <1>1
<1> HIDE DEF fs2
<1>4. \A k \in 1..Len(fs) : fs[k] = Frame("delta", <<a, t, n + k>>) /\ fs[k].kind = "delta"
  BY DEF Flow, Frame
<1>5. ASSUME NEW k \in 1..Len(fs2)
      PROVE  /\ fs2[k] = Frame("delta", <<a, t, n + k>>) /\ fs2[k].kind = "delta" /\ k <= m + 1 - n
  <2>1. CASE k = Len(fs) + 1
    <3>1. n + k = m + 1 /\ k <= m + 1 - n
      BY <1>3, <2>1
    <3> QED
      BY <1>1, <1>2, <1>3, <2>1, <3>1
  <2>2. CASE k # Len(fs) + 1
    <3>1. k \in 1..Len(fs) /\ k <= m + 1 - n
      BY <1>3, <2>2
    <3> QED
      BY <1>3, <1>4, <3>1
  <2> QED
    BY <2>1, <2>2
<1>6. Len(fs2) >= m + 1 - n
  BY <1>3
<1>7. \A k \in 1..Len(fs2) :
         ~(k > m + 1 - n) /\ fs2[k].kind # "error" /\ fs2[k].kind # "[DONE]"
  <2> TAKE k \in 1..Len(fs2)
  <2>1. k <= m + 1 - n /\ fs2[k].kind = "delta"
    BY <1>5, Zenon
  <2>2. k \in Int /\ m + 1 - n \in Int
    BY <1>3
  <2>3. ~(k > m + 1 - n)
    BY <2>1, <2>2
  <2> QED
    BY <2>1, <2>3
<1>8. Flow(a, t, m + 1, n, fs2, brk, over)
  BY <1>5, <1>6, <1>7 DEF Flow
<1> QED
  BY <1>1, <1>2, <1>8 DEF fs2

\* The last chunk has no text.
LEMMA FlowFinal ==
    ASSUME NEW a \in Attempts, NEW t \in Nat, NEW m \in Nat, NEW n \in Nat, NEW fs \in Seq(Frames),
           NEW brk,
           Flow(a, t, m, n, fs, brk, FALSE), ~brk
    PROVE  /\ Frame("final", <<>>) \in Frames
           /\ Flow(a, t, m, n, Append(fs, Frame("final", <<>>)), brk, FALSE)
<1> DEFINE g == Frame("final", <<>>)
           fs2 == Append(fs, g)
<1>1. g \in Frames /\ g.kind = "final" /\ g.piece = <<>>
  BY DEF Frame, Frames, PieceSet
<1>2. g = Frame("final", <<>>)
  OBVIOUS
<1> HIDE DEF g
<1>3. /\ Len(fs2) = Len(fs) + 1 /\ Len(fs) \in Nat /\ fs2[Len(fs) + 1] = g
      /\ \A k \in 1..Len(fs) : fs2[k] = fs[k]
  BY <1>1
<1> HIDE DEF fs2
<1>4. /\ Len(fs) >= m - n
      /\ \A k \in 1..Len(fs) :
            /\ k <= m - n => fs[k] = Frame("delta", <<a, t, n + k>>)
            /\ k > m - n => fs[k].kind # "delta" /\ fs[k].piece = <<>>
            /\ fs[k].kind # "error" /\ fs[k].kind # "[DONE]"
  BY DEF Flow
<1>5. \A k \in 1..Len(fs2) : k \in 1..Len(fs) \/ k = Len(fs) + 1
  BY <1>3
<1>6. \A k \in 1..Len(fs2) : fs2[k].kind = "error" => k = Len(fs) + 1 /\ FALSE
  BY <1>1, <1>3, <1>4, <1>5
<1>7. ASSUME NEW k \in 1..Len(fs2)
      PROVE  /\ k <= m - n => fs2[k] = Frame("delta", <<a, t, n + k>>)
             /\ k > m - n => fs2[k].kind # "delta" /\ fs2[k].piece = <<>>
             /\ fs2[k].kind # "[DONE]"
  <2>1. CASE k = Len(fs) + 1
    <3>1. ~(k <= m - n)
      BY <1>3, <1>4, <2>1
    <3> QED
      BY <1>1, <1>3, <2>1, <3>1
  <2>2. CASE k \in 1..Len(fs)
    BY <1>3, <1>4, <2>2
  <2> QED
    BY <1>5, <2>1, <2>2
<1>8. Len(fs2) >= m - n
  BY <1>3, <1>4
<1>9. Flow(a, t, m, n, fs2, brk, FALSE)
  BY <1>6, <1>7, <1>8, Zenon DEF Flow
<1> QED
  BY <1>1, <1>2, <1>9 DEF fs2

\* The stream breaks, before the last chunk or after it.
LEMMA FlowError ==
    ASSUME NEW a \in Attempts, NEW t \in Nat, NEW m \in Nat, NEW n \in Nat, NEW fs \in Seq(Frames),
           NEW over2, Flow(a, t, m, n, fs, FALSE, FALSE), n <= m
    PROVE  /\ Frame("error", <<>>) \in Frames
           /\ Flow(a, t, m, n, Append(fs, Frame("error", <<>>)), TRUE, over2)
<1> DEFINE g == Frame("error", <<>>)
           fs2 == Append(fs, g)
<1>1. g \in Frames /\ g.kind = "error" /\ g.piece = <<>>
  BY DEF Frame, Frames, PieceSet
<1>2. g = Frame("error", <<>>)
  OBVIOUS
<1> HIDE DEF g
<1>3. /\ Len(fs2) = Len(fs) + 1 /\ Len(fs) \in Nat /\ fs2[Len(fs) + 1] = g
      /\ \A k \in 1..Len(fs) : fs2[k] = fs[k]
  BY <1>1
<1> HIDE DEF fs2
<1>4. /\ Len(fs) >= m - n
      /\ \A k \in 1..Len(fs) :
            /\ k <= m - n => fs[k] = Frame("delta", <<a, t, n + k>>)
            /\ k > m - n => fs[k].kind # "delta" /\ fs[k].piece = <<>>
            /\ fs[k].kind # "error" /\ fs[k].kind # "[DONE]"
  BY DEF Flow
<1>5. \A k \in 1..Len(fs2) : k \in 1..Len(fs) \/ k = Len(fs) + 1
  BY <1>3
<1>6. \A k \in 1..Len(fs2) : fs2[k].kind = "error" => k = Len(fs) + 1
  BY <1>1, <1>3, <1>4, <1>5
<1>7. ASSUME NEW k \in 1..Len(fs2)
      PROVE  /\ k <= m - n => fs2[k] = Frame("delta", <<a, t, n + k>>)
             /\ k > m - n => fs2[k].kind # "delta" /\ fs2[k].piece = <<>>
             /\ fs2[k].kind # "[DONE]"
  <2>1. CASE k = Len(fs) + 1
    <3>1. ~(k <= m - n)
      BY <1>3, <1>4, <2>1
    <3> QED
      BY <1>1, <1>3, <2>1, <3>1
  <2>2. CASE k \in 1..Len(fs)
    BY <1>3, <1>4, <2>2
  <2> QED
    BY <1>5, <2>1, <2>2
<1>8. Len(fs2) >= m - n
  BY <1>3, <1>4
<1>9. Flow(a, t, m, n, fs2, TRUE, over2)
  BY <1>6, <1>7, <1>8, Zenon DEF Flow
<1> QED
  BY <1>1, <1>2, <1>9 DEF fs2

\* [DONE] comes last.
LEMMA FlowDone ==
    ASSUME NEW a \in Attempts, NEW t \in Nat, NEW m \in Nat, NEW n \in Nat, NEW fs \in Seq(Frames),
           NEW brk, Flow(a, t, m, n, fs, brk, FALSE)
    PROVE  /\ Frame("[DONE]", <<>>) \in Frames
           /\ Flow(a, t, m, n, Append(fs, Frame("[DONE]", <<>>)), brk, TRUE)
<1> DEFINE g == Frame("[DONE]", <<>>)
           fs2 == Append(fs, g)
<1>1. g \in Frames /\ g.kind = "[DONE]" /\ g.piece = <<>>
  BY DEF Frame, Frames, PieceSet
<1>2. g = Frame("[DONE]", <<>>)
  OBVIOUS
<1> HIDE DEF g
<1>3. /\ Len(fs2) = Len(fs) + 1 /\ Len(fs) \in Nat /\ fs2[Len(fs) + 1] = g
      /\ \A k \in 1..Len(fs) : fs2[k] = fs[k]
  BY <1>1
<1> HIDE DEF fs2
<1>4. /\ Len(fs) >= m - n
      /\ \A k \in 1..Len(fs) :
            /\ k <= m - n => fs[k] = Frame("delta", <<a, t, n + k>>)
            /\ k > m - n => fs[k].kind # "delta" /\ fs[k].piece = <<>>
            /\ fs[k].kind = "error" =>
                  brk /\ n <= m /\ \A j \in 1..Len(fs) : fs[j].kind = "error" => j = k
            /\ fs[k].kind # "[DONE]"
  BY DEF Flow
<1>7. \A j \in 1..Len(fs2) : fs2[j].kind = "error" => j \in 1..Len(fs) /\ fs[j].kind = "error"
  <2>1. \A j \in 1..Len(fs2) : j \in 1..Len(fs) \/ j = Len(fs) + 1
    BY <1>3
  <2> QED
    BY <1>1, <1>3, <2>1
<1>5. ASSUME NEW k \in 1..Len(fs2)
      PROVE  /\ k <= m - n => fs2[k] = Frame("delta", <<a, t, n + k>>)
             /\ k > m - n => fs2[k].kind # "delta" /\ fs2[k].piece = <<>>
             /\ fs2[k].kind = "error" =>
                   brk /\ n <= m /\ \A j \in 1..Len(fs2) : fs2[j].kind = "error" => j = k
             /\ fs2[k].kind = "[DONE]" => k = Len(fs2) /\ TRUE
  <2>1. CASE k = Len(fs) + 1
    <3>1. ~(k <= m - n) /\ k = Len(fs2)
      BY <1>3, <1>4, <2>1
    <3> QED
      BY <1>1, <1>3, <2>1, <3>1
  <2>2. CASE k # Len(fs) + 1
    <3>1. k \in 1..Len(fs)
      BY <1>3, <2>2
    <3> QED
      BY <1>3, <1>4, <1>7, <3>1, Zenon
  <2> QED
    BY <2>1, <2>2
<1>6. Len(fs2) >= m - n
  BY <1>3, <1>4
<1>8. Flow(a, t, m, n, fs2, brk, TRUE)
  BY <1>5, <1>6, Zenon DEF Flow
<1> QED
  BY <1>1, <1>2, <1>8 DEF fs2

\* What may still break or end, later.
LEMMA FlowKeeps ==
    ASSUME NEW a, NEW t, NEW m, NEW n, NEW fs, NEW brk, NEW over, NEW brk2, NEW over2,
           Flow(a, t, m, n, fs, brk, over), brk => brk2, over => over2
    PROVE  Flow(a, t, m, n, fs, brk2, over2)
BY Zenon DEF Flow

\* What is left after the first c frames, of which the first q were pieces or the
\* error that follows them.
LEMMA FlowDrop ==
    ASSUME NEW a \in Attempts, NEW t \in Nat, NEW m \in Nat, NEW n \in Nat, NEW fs \in Seq(Frames),
           NEW brk, NEW over, Flow(a, t, m, n, fs, brk, over),
           NEW c \in 0..Len(fs), NEW q \in 0..c, q < c => q >= m - n,
           n <= m => n + q <= m \/ \E e \in 1..c : fs[e].kind = "error"
    PROVE  Flow(a, t, m, n + q, SubSeq(fs, c + 1, Len(fs)), brk, over)
<1> DEFINE rest == SubSeq(fs, c + 1, Len(fs))
<1>1. Len(fs) \in Nat /\ c \in Nat /\ c <= Len(fs) /\ q \in Nat /\ q <= c
  OBVIOUS
<1>2. /\ Len(rest) = Len(fs) - c
      /\ \A k \in 1..Len(fs) - c : rest[k] = fs[c + k]
  BY <1>1
<1> HIDE DEF rest
<1>3. /\ Len(fs) >= m - n
      /\ \A k \in 1..Len(fs) :
            /\ k <= m - n => fs[k] = Frame("delta", <<a, t, n + k>>)
            /\ k > m - n => fs[k].kind # "delta" /\ fs[k].piece = <<>>
            /\ fs[k].kind = "error" =>
                  brk /\ n <= m /\ \A j \in 1..Len(fs) : fs[j].kind = "error" => j = k
            /\ fs[k].kind = "[DONE]" => k = Len(fs) /\ over
  BY DEF Flow
<1>4. Len(rest) >= m - (n + q)
  BY <1>1, <1>2, <1>3
<1>5. ASSUME NEW k \in 1..Len(rest)
      PROVE  /\ k <= m - (n + q) => rest[k] = Frame("delta", <<a, t, (n + q) + k>>)
             /\ k > m - (n + q) => rest[k].kind # "delta" /\ rest[k].piece = <<>>
             /\ rest[k].kind = "error" =>
                   brk /\ n + q <= m /\ \A j \in 1..Len(rest) : rest[j].kind = "error" => j = k
             /\ rest[k].kind = "[DONE]" => k = Len(rest) /\ over
  <2>1. c + k \in 1..Len(fs) /\ rest[k] = fs[c + k] /\ k \in Nat /\ k >= 1
    BY <1>1, <1>2
  <2>2. k <= m - (n + q) => c = q /\ c + k <= m - n /\ n + (c + k) = (n + q) + k
    BY <1>1, <2>1
  <2>3. k > m - (n + q) => c + k > m - n
    BY <1>1, <2>1
  <2>4. fs[c + k].kind = "error" =>
           n + q <= m /\ \A j \in 1..Len(rest) : rest[j].kind = "error" => j = k
    <3> HAVE fs[c + k].kind = "error"
    <3>1. n <= m /\ \A e \in 1..Len(fs) : fs[e].kind = "error" => e = c + k
      BY <1>3, <2>1, Zenon
    <3>2. ~ \E e \in 1..c : fs[e].kind = "error"
      <4> SUFFICES ASSUME NEW e \in 1..c, fs[e].kind = "error" PROVE FALSE
        OBVIOUS
      <4>1. e \in 1..Len(fs) /\ e # c + k
        BY <1>1, <2>1
      <4> QED
        BY <3>1, <4>1
    <3>3. ASSUME NEW j \in 1..Len(rest), rest[j].kind = "error" PROVE j = k
      <4>1. c + j \in 1..Len(fs) /\ rest[j] = fs[c + j] /\ j \in Nat
        BY <1>1, <1>2
      <4>2. c + j = c + k
        BY <3>1, <3>3, <4>1
      <4> QED
        BY <1>1, <2>1, <4>1, <4>2
    <3> QED
      BY <3>1, <3>2, <3>3
  <2>5. c + k = Len(fs) => k = Len(rest)
    <3>1. Len(rest) = Len(fs) - c
      BY <1>2
    <3> QED
      BY <1>1, <2>1, <3>1
  <2>6. /\ c + k <= m - n => fs[c + k] = Frame("delta", <<a, t, n + (c + k)>>)
        /\ c + k > m - n => fs[c + k].kind # "delta" /\ fs[c + k].piece = <<>>
        /\ fs[c + k].kind = "error" => brk
        /\ fs[c + k].kind = "[DONE]" => c + k = Len(fs) /\ over
    BY <1>3, <2>1, Zenon
  <2> QED
    BY <2>1, <2>2, <2>3, <2>4, <2>5, <2>6, Zenon
<1> QED
  BY <1>4, <1>5, Zenon DEF Flow, rest

\* What a client has of the first c frames, where it shows errors too or does not, and
\* what is left.
Yielded(a, t, m, n, fs, brk, over, c, kinds) ==
    \E q \in 0..c :
       /\ PiecesOf(SubSeq(fs, 1, c), kinds) \in Seq(PieceSet)
       /\ Len(PiecesOf(SubSeq(fs, 1, c), kinds)) = q
       /\ \A i \in 1..q : n + i <= m => PiecesOf(SubSeq(fs, 1, c), kinds)[i] = <<a, t, n + i>>
       /\ n + q <= m \/ n + q = n \/ ("error" \in kinds /\ brk /\ n + q = m + 1)
       /\ Flow(a, t, m, n + q, SubSeq(fs, c + 1, Len(fs)), brk, over)

LEMMA FlowRead ==
    ASSUME NEW a \in Attempts, NEW t \in Nat, NEW m \in Nat, NEW n \in Nat, NEW fs \in Seq(Frames),
           NEW brk, NEW over, Flow(a, t, m, n, fs, brk, over), n <= m + 1,
           NEW c \in 0..Len(fs), NEW kinds \in {{"delta"}, {"delta", "error"}}
    PROVE  Yielded(a, t, m, n, fs, brk, over, c, kinds)
<1> DEFINE front == SubSeq(fs, 1, c)
           D == {k \in DOMAIN front : front[k].kind \in kinds}
           w == IF m >= n THEN m - n ELSE 0
           r == IF c <= w THEN c ELSE w
<1>1. /\ Len(fs) \in Nat /\ c \in Nat /\ c <= Len(fs) /\ w \in Nat /\ r \in 0..c
  OBVIOUS
<1>2. /\ front \in Seq(Frames) /\ Len(front) = c /\ DOMAIN front = 1..c
      /\ \A k \in 1..c : front[k] = fs[k]
  BY <1>1
<1> HIDE DEF front
<1>3. \A k \in 1..Len(fs) :
         /\ k <= m - n => fs[k] = Frame("delta", <<a, t, n + k>>)
         /\ k > m - n => fs[k].kind # "delta"
         /\ fs[k].kind = "error" =>
               brk /\ n <= m /\ \A j \in 1..Len(fs) : fs[j].kind = "error" => j = k
  BY DEF Flow
<1>4. \A k \in 1..c : k <= m - n => front[k].kind = "delta" /\ front[k].piece = <<a, t, n + k>>
  <2> TAKE k \in 1..c
  <2> HAVE k <= m - n
  <2>1. k \in 1..Len(fs)
    BY <1>1
  <2>2. front[k] = Frame("delta", <<a, t, n + k>>)
    BY <1>2, <1>3, <2>1
  <2> QED
    BY <2>2 DEF Frame
<1>5. \A k \in 1..c :
         /\ k > m - n => front[k].kind # "delta"
         /\ front[k].kind = "error" =>
               brk /\ n <= m /\ \A j \in 1..c : front[j].kind = "error" => j = k
  <2> TAKE k \in 1..c
  <2>1. \A j \in 1..c : j \in 1..Len(fs) /\ front[j] = fs[j]
    BY <1>1, <1>2
  <2> QED
    BY <1>3, <2>1, Zenon
<1>6. PICK q \in 0..c :
          /\ Len(PiecesOf(front, kinds)) = q /\ PiecesOf(front, kinds) \in Seq(PieceSet)
          /\ \A j \in 1..q : j <= m - n => PiecesOf(front, kinds)[j] = front[j].piece
          /\ q < c => q >= m - n
          /\ n <= m => n + q <= m \/ \E e \in 1..c : fs[e].kind = "error"
          /\ n + q <= m \/ n + q = n \/ ("error" \in kinds /\ brk /\ n + q = m + 1)
  <2>0. PiecesOf(front, kinds) = [i \in DOMAIN Selected(front, D) |-> Selected(front, D)[i].piece]
    BY DEF PiecesOf, D
  <2>9. \A j \in 1..c : front[j].piece \in PieceSet
    <3> TAKE j \in 1..c
    <3>1. front[j] \in Frames
      BY <1>2
    <3> QED
      BY <3>1 DEF Frames
  <2>1. CASE \E e \in 1..c : front[e].kind = "error" /\ "error" \in kinds
    <3>1. PICK e \in 1..c : front[e].kind = "error" /\ "error" \in kinds
      BY <2>1
    <3>2. brk /\ n <= m /\ \A j \in 1..c : front[j].kind = "error" => j = e
      BY <1>5, <3>1, Zenon
    <3>3. w = m - n /\ e > w /\ w + 1 \in 0..c /\ w < e
      <4>1. ~(e <= m - n)
        BY <1>4, <3>1
      <4> QED
        BY <1>1, <3>2, <4>1
    <3> HIDE DEF w
    <3>4. ASSUME NEW k \in 1..c PROVE front[k].kind \in kinds <=> k \in (1..w) \cup {e}
      <4>1. CASE k <= m - n
        <5>1. k \in 1..w
          BY <1>1, <3>3, <4>1
        <5> QED
          BY <1>4, <4>1, <5>1
      <4>2. CASE k = e
        BY <3>1, <4>2
      <4>3. CASE k > m - n /\ k # e
        <5>1. k \notin (1..w) \cup {e}
          BY <1>1, <3>3, <4>3
        <5>2. front[k].kind # "delta" /\ front[k].kind # "error"
          BY <1>5, <3>2, <4>3
        <5> QED
          BY <5>1, <5>2
      <4>4. k \in Int
        OBVIOUS
      <4> QED
        BY <4>1, <4>2, <4>3, <4>4
    <3>5. D = UpTo(w, e)
      <4>1. \A k \in 1..w : k \in 1..c
        BY <1>1, <3>3
      <4> QED
        BY <1>2, <3>4, <4>1, Zenon DEF UpTo
    <3> HIDE DEF D
    <3>6. /\ DOMAIN Selected(front, D) = 1..w + 1
          /\ \A j \in 1..w + 1 : Selected(front, D)[j] = IF j <= w THEN front[j] ELSE front[e]
      <4>1. e \in Nat /\ w \in Nat /\ w < e /\ e <= Len(front) /\ front \in Seq(Frames)
        BY <1>1, <1>2, <3>3
      <4> QED
        BY <3>5, <4>1, SelectedOneMore
    <3>7. PiecesOf(front, kinds) = [j \in 1..w + 1 |-> IF j <= w THEN front[j].piece ELSE front[e].piece]
      BY <2>0, <3>6
    <3>8. \A j \in 1..w + 1 : (IF j <= w THEN front[j].piece ELSE front[e].piece) \in PieceSet
      <4>1. \A j \in 1..w + 1 : j <= w => j \in 1..c
        BY <1>1, <3>3
      <4> QED
        BY <2>9, <4>1
    <3>9. PiecesOf(front, kinds) \in Seq(PieceSet) /\ Len(PiecesOf(front, kinds)) = w + 1
      BY <1>1, <3>7, <3>8
    <3>10. \A j \in 1..w + 1 : j <= m - n => PiecesOf(front, kinds)[j] = front[j].piece
      BY <3>3, <3>7
    <3>11. n + (w + 1) = m + 1 /\ (w + 1 < c => w + 1 >= m - n)
      BY <1>1, <3>3
    <3>12. fs[e].kind = "error"
      BY <1>2, <3>1, Zenon
    <3> QED
      BY <3>1, <3>2, <3>3, <3>9, <3>10, <3>11, <3>12
  <2>2. CASE ~ \E e \in 1..c : front[e].kind = "error" /\ "error" \in kinds
    <3>1. ASSUME NEW k \in 1..c PROVE front[k].kind \in kinds <=> k \in 1..r
      <4>1. CASE k <= m - n
        <5>1. k \in 1..r
          BY <1>1, <4>1
        <5> QED
          BY <1>4, <4>1, <5>1
      <4>2. CASE k > m - n
        <5>1. k \notin 1..r
          BY <1>1, <4>2
        <5>2. front[k].kind # "delta"
          BY <1>5, <4>2
        <5>3. "error" \in kinds => front[k].kind # "error"
          BY <2>2
        <5> QED
          BY <5>1, <5>2, <5>3
      <4>3. k \in Int
        OBVIOUS
      <4> QED
        BY <4>1, <4>2, <4>3
    <3>2. D = 1..r
      <4>1. \A k \in 1..r : k \in 1..c
        BY <1>1
      <4> HIDE DEF r
      <4> QED
        BY <1>2, <3>1, <4>1, Zenon
    <3>3. /\ r \in 0..c /\ (r < c => r >= m - n) /\ (n + r <= m \/ n + r = n)
          /\ n <= m => n + r <= m
      BY <1>1
    <3> HIDE DEF r, D
    <3>4. Selected(front, D) = [j \in 1..r |-> front[j]]
      <4>1. r \in 0..Len(front)
        BY <1>2, <3>3
      <4> QED
        BY <1>2, <3>2, <4>1, SelectedPrefix
    <3>5. PiecesOf(front, kinds) = [j \in 1..r |-> front[j].piece]
      BY <2>0, <3>4
    <3>6. \A j \in 1..r : j \in 1..c
      BY <1>1, <3>3
    <3>7. PiecesOf(front, kinds) \in Seq(PieceSet) /\ Len(PiecesOf(front, kinds)) = r
      BY <2>9, <3>3, <3>5, <3>6
    <3> QED
      BY <3>3, <3>5, <3>7
  <2> QED
    BY <2>1, <2>2
<1> HIDE DEF D, r, w
<1>7. \A i \in 1..q : n + i <= m => PiecesOf(front, kinds)[i] = <<a, t, n + i>>
  <2> TAKE i \in 1..q
  <2> HAVE n + i <= m
  <2>1. i \in 1..c /\ i <= m - n
    BY <1>1
  <2> QED
    BY <1>4, <1>6, <2>1
<1>8. Flow(a, t, m, n + q, SubSeq(fs, c + 1, Len(fs)), brk, over)
  BY <1>6, FlowDrop, Zenon
<1> QED
  BY <1>6, <1>7, <1>8, Zenon DEF front, Yielded

-----------------------------------------------------------------------------
(* Steps of the gateway and of the client *)

\* An attempt that no step touches, while others go on.
LEMMA GateKeep ==
    ASSUME NEW a \in Attempts, NEW p, NEW l, NEW i, NEW t, NEW tx, NEW u, NEW f, NEW e, NEW b, NEW key,
           NEW st, NEW fl, NEW sn, NEW att \in Nat, NEW st2, NEW att2 \in Nat,
           Gate(a, p, l, i, t, tx, u, f, e, b, key, st, fl, sn, att), st => st2, att <= att2
    PROVE  Gate(a, p, l, i, t, tx, u, f, e, b, key, st2, fl, sn, att2)
<1>1. PICK fs \in Seq(Frames) :
          Paired(fl, fs) /\ Flow(a, t, Len(tx), sn, fs, f, l = "ended" /\ Kept(f, e, tx, b, key, st))
  BY Zenon DEF Gate
<1>2. Kept(f, e, tx, b, key, st) => Kept(f, e, tx, b, key, st2)
  BY Zenon DEF Kept
<1>3. Flow(a, t, Len(tx), sn, fs, f, l = "ended" /\ Kept(f, e, tx, b, key, st2))
  <2> DEFINE over == l = "ended" /\ Kept(f, e, tx, b, key, st)
             over2 == l = "ended" /\ Kept(f, e, tx, b, key, st2)
  <2>1. Flow(a, t, Len(tx), sn, fs, f, over) /\ (over => over2)
    BY <1>1, <1>2
  <2> HIDE DEF over, over2
  <2>2. Flow(a, t, Len(tx), sn, fs, f, over2)
    BY <2>1 DEF Flow
  <2> QED
    BY <2>2 DEF over2
<1>4. a > att2 => a > att
  <2>1. a \in Int
    BY StreamAssumption DEF Attempts, StreamAssumption
  <2> QED
    BY <2>1
<1> QED
  BY <1>1, <1>2, <1>3, <1>4, Zenon DEF Gate

\* A handler's step leaves the other attempts and what the client has read.
LEMMA HandlerStep ==
    ASSUME StreamInv, StreamTyped', NEW a \in Attempts, UNCHANGED <<callVars, sdkVars>>, stored => stored',
           \A b \in Attempts \ {a} :
              /\ pc'[b] = pc[b] /\ try'[b] = try[b] /\ pos'[b] = pos[b] /\ text'[b] = text[b]
              /\ usage'[b] = usage[b] /\ failed'[b] = failed[b] /\ early'[b] = early[b]
              /\ bill'[b] = bill[b] /\ down'[b] = down[b],
           GateInv(a)', pc[a] # "ended",
           Len(text'[a]) >= Len(text[a]), failed[a] => failed'[a] /\ text'[a] = text[a],
           try'[a] = try[a] \/ pc[a] = "open"
    PROVE  StreamInv'
<1>1. ASSUME NEW b \in Attempts \ {a} PROVE GateInv(b)'
  <2>1. GateInv(b)
    BY DEF StreamInv
  <2>2. attempt \in Nat
    BY DEF StreamInv, StreamTyped
  <2>3. attempt <= attempt
    BY <2>2
  <2>4. Gate(b, provider, pc[b], pos[b], try[b], text[b], usage[b], failed[b], early[b], bill[b],
             keyed, stored, Flight(b), Seen(b), attempt)
    BY <2>1 DEF GateInv
  <2>5. Gate(b, provider, pc[b], pos[b], try[b], text[b], usage[b], failed[b], early[b], bill[b],
             keyed, stored', Flight(b), Seen(b), attempt)
    BY <2>2, <2>3, <2>4, GateKeep, Zenon
  <2> QED
    BY <2>5 DEF GateInv, Flight, Seen, callVars, sdkVars
<1>2. ReadInv'
  <2>0. ReadInv /\ StreamTyped /\ GateInv(a)
    BY DEF StreamInv
  <2>1. /\ sdk' = sdk /\ attempt' = attempt /\ buffer' = buffer /\ got' = got /\ sawDone' = sawDone
        /\ client' = client /\ keyed' = keyed
    BY DEF sdkVars, callVars
  <2>2. CASE a = attempt
    <3>1. ~sawDone
      BY <2>0, <2>2 DEF ReadInv
    <3>2. attempt # 0 /\ attempt' # 0
      BY <2>1, <2>2, StreamAssumption DEF Attempts, StreamAssumption
    <3>3. /\ Len(got) \in Nat /\ Len(text[a]) \in Nat /\ Len(text'[a]) \in Nat
      BY <2>0 DEF StreamTyped
    <3>4. pc[a] = "open" => Len(got) = 0
      BY <2>0, <2>2 DEF GateInv, Gate, Seen
    <3>5. \/ Len(got) <= Len(text[a])
          \/ client = "playground" /\ failed[a] /\ Len(got) = Len(text[a]) + 1
      BY <2>0, <2>2, <3>2 DEF ReadInv
    <3>6. \A i \in 1..Len(got) : i <= Len(text[a]) => got[i] = <<a, try[a], i>>
      BY <2>0, <2>2, <3>2 DEF ReadInv
    <3>7. \/ Len(got) <= Len(text'[a])
          \/ client = "playground" /\ failed'[a] /\ Len(got) = Len(text'[a]) + 1
      BY <3>3, <3>5
    <3>8. ASSUME NEW i \in 1..Len(got), i <= Len(text'[a]) PROVE got[i] = <<a, try'[a], i>>
      <4>1. i <= Len(text[a])
        BY <3>3, <3>5, <3>8
      <4>2. try'[a] = try[a]
        BY <3>3, <3>4
      <4> QED
        BY <3>6, <4>1, <4>2
    <3> QED
      BY <2>0, <2>1, <2>2, <3>1, <3>2, <3>7, <3>8 DEF ReadInv
  <2>3. CASE a # attempt
    <3>1. attempt # 0 =>
             /\ attempt \in Attempts \ {a}
             /\ pc'[attempt] = pc[attempt] /\ try'[attempt] = try[attempt]
             /\ text'[attempt] = text[attempt] /\ failed'[attempt] = failed[attempt]
             /\ early'[attempt] = early[attempt] /\ bill'[attempt] = bill[attempt] /\ down'[attempt] = down[attempt]
      BY <2>0, <2>3 DEF StreamTyped, Attempts
    <3>2. sawDone => attempt # 0
      BY <2>0 DEF ReadInv
    <3>3. sawDone => /\ pc'[attempt] = "ended" /\ buffer \o down'[attempt] = <<>>
                     /\ Kept(failed'[attempt], early'[attempt], text'[attempt], bill'[attempt], keyed, stored')
      <4> HAVE sawDone
      <4>1. /\ pc[attempt] = "ended" /\ buffer \o down[attempt] = <<>>
            /\ Kept(failed[attempt], early[attempt], text[attempt], bill[attempt], keyed, stored)
        BY <2>0 DEF ReadInv, Flight
      <4> QED
        BY <3>1, <3>2, <4>1 DEF Kept
    <3> QED
      BY <2>0, <2>1, <3>1, <3>3 DEF ReadInv, Flight
  <2> QED
    BY <2>2, <2>3
<1> QED
  BY <1>1, <1>2 DEF StreamInv

\* A step in which only the client's place changes.
LEMMA ClientStep ==
    ASSUME StreamInv, UNCHANGED <<gatewayVars, pc, down, attempt, buffer, got, sawDone>>,
           sdk \in {"wait", "read"} \/ sdk' = "thrown",
           sdk' \in {"read", "returned", "thrown"}
              \/ (sdk = "wait" /\ sdk' = "send" /\ attempt < MaxAttempts /\ client # "playground")
    PROVE  StreamInv'
<1>1. StreamTyped'
  BY DEF StreamInv, StreamTyped, gatewayVars, callVars, routeVars
<1>2. ASSUME NEW b \in Attempts PROVE GateInv(b)'
  <2>1. GateInv(b)
    BY DEF StreamInv
  <2> QED
    BY <2>1 DEF GateInv, Flight, Seen, gatewayVars, callVars, routeVars
<1>3. ReadInv'
  <2>1. ReadInv /\ StreamTyped
    BY DEF StreamInv
  <2>2. /\ attempt' = attempt /\ buffer' = buffer /\ got' = got /\ sawDone' = sawDone /\ down' = down
        /\ client' = client /\ keyed' = keyed /\ pc' = pc /\ text' = text /\ failed' = failed /\ try' = try
        /\ early' = early /\ bill' = bill /\ stored' = stored
    BY DEF gatewayVars, callVars, routeVars
  <2> QED
    BY <2>1, <2>2 DEF ReadInv, Flight
<1> QED
  BY <1>1, <1>2, <1>3 DEF StreamInv

\* A handler goes on to another label, and writes nothing.
LEMMA Relabel ==
    ASSUME NEW a \in Attempts, NEW p, NEW l, NEW i, NEW t, NEW tx, NEW u, NEW f, NEW e, NEW b, NEW key,
           NEW st, NEW fl, NEW sn, NEW att,
           Gate(a, p, l, i, t, tx, u, f, e, b, key, st, fl, sn, att), l \notin {"none", "ended"},
           NEW l2, NEW i2, NEW t2, NEW e2, NEW b2, NEW st2,
           l2 \in {"none", "begin", "open"} => l \in {"begin", "open"},
           LineOK(p, l2, i2, Len(tx), u, e2, f),
           l2 = "write" \/ (l2 = "pull" /\ ~Ends(p, i2)) => Len(fl) = 2 * (Len(tx) - sn),
           l2 = "store" => b2 # "none", l2 = "finish" => Kept(f, e2, tx, b2, key, st2),
           b2 = "zero" => e2 \/ p = "openai", t2 = t \/ l = "open"
    PROVE  Gate(a, p, l2, i2, t2, tx, u, f, e2, b2, key, st2, fl, sn, att)
<1> DEFINE over2 == l2 = "ended" /\ Kept(f, e2, tx, b2, key, st2)
<1>1. PICK fs \in Seq(Frames) : Paired(fl, fs) /\ Flow(a, t, Len(tx), sn, fs, f, FALSE)
  BY DEF Gate
<1>2. Flow(a, t2, Len(tx), sn, fs, f, over2)
  <2> HIDE DEF over2
  <2>1. CASE t2 = t
    BY <1>1, <2>1 DEF Flow
  <2>2. CASE l = "open"
    <3>1. Len(tx) = 0 /\ sn = 0 /\ Len(fl) = 0
      BY <2>2 DEF Gate
    <3>2. Len(fs) = 0
      <4> DEFINE n == Len(fs)
      <4>1. n \in Nat
        OBVIOUS
      <4>2. 2 * n = 0
        BY <1>1, <3>1 DEF Paired
      <4> HIDE DEF n
      <4>3. n = 0
        BY <4>1, <4>2
      <4> QED
        BY <4>3 DEF n
    <3> QED
      BY <3>1, <3>2 DEF Flow
  <2> QED
    BY <2>1, <2>2
<1>3. \A k \in 1..Len(tx) : tx[k] = <<a, t2, k>>
  <2>1. CASE t2 = t
    BY <2>1 DEF Gate
  <2>2. CASE l = "open"
    BY <2>2 DEF Gate
  <2> QED
    BY <2>1, <2>2
<1>4. l2 \in {"none", "begin", "open"} => tx = <<>> /\ fl = <<>> /\ ~f /\ sn = 0
  BY DEF Gate
<1>5. ~(a > att)
  BY DEF Gate
<1>6. \E gs \in Seq(Frames) : Paired(fl, gs) /\ Flow(a, t2, Len(tx), sn, gs, f, over2)
  BY <1>1, <1>2
<1> QED
  BY <1>3, <1>4, <1>5, <1>6, Zenon DEF Gate, over2

LEMMA RelabelStep ==
    ASSUME StreamInv, StreamTyped', NEW a \in Attempts,
           UNCHANGED <<callVars, sdkVars, text, usage, failed, down>>, stored => stored',
           \A b \in Attempts \ {a} :
              /\ pc'[b] = pc[b] /\ try'[b] = try[b] /\ pos'[b] = pos[b] /\ early'[b] = early[b]
              /\ bill'[b] = bill[b],
           pc[a] \notin {"none", "ended"},
           pc'[a] \in {"none", "begin", "open"} => pc[a] \in {"begin", "open"},
           LineOK(provider, pc'[a], pos'[a], Len(text[a]), usage[a], early'[a], failed[a]),
           pc'[a] = "write" \/ (pc'[a] = "pull" /\ ~Ends(provider, pos'[a])) =>
              Len(Flight(a)) = 2 * (Len(text[a]) - Seen(a)),
           pc'[a] = "store" => bill'[a] # "none",
           pc'[a] = "finish" => Kept(failed[a], early'[a], text[a], bill'[a], keyed, stored'),
           bill'[a] = "zero" => early'[a] \/ provider = "openai",
           try'[a] = try[a] \/ pc[a] = "open"
    PROVE  StreamInv'
<1>1. Gate(a, provider, pc[a], pos[a], try[a], text[a], usage[a], failed[a], early[a], bill[a],
           keyed, stored, Flight(a), Seen(a), attempt)
  BY DEF StreamInv, GateInv
<1>2. Gate(a, provider, pc'[a], pos'[a], try'[a], text[a], usage[a], failed[a], early'[a], bill'[a],
           keyed, stored', Flight(a), Seen(a), attempt)
  BY <1>1, Relabel, SMTT(20)
<1>3. GateInv(a)'
  BY <1>2 DEF GateInv, Flight, Seen, callVars, sdkVars
<1>4. Len(text[a]) \in Nat /\ text' = text /\ failed' = failed /\ usage' = usage /\ down' = down
      /\ UNCHANGED <<callVars, sdkVars>>
  BY DEF StreamInv, StreamTyped
<1>5. Len(text'[a]) >= Len(text[a]) /\ (failed[a] => failed'[a] /\ text'[a] = text[a])
  BY <1>4
<1>6. \A b \in Attempts \ {a} :
              /\ pc'[b] = pc[b] /\ try'[b] = try[b] /\ pos'[b] = pos[b] /\ text'[b] = text[b]
              /\ usage'[b] = usage[b] /\ failed'[b] = failed[b] /\ early'[b] = early[b]
              /\ bill'[b] = bill[b] /\ down'[b] = down[b]
  BY <1>4
<1> QED
  BY <1>3, <1>4, <1>5, <1>6, HandlerStep, Zenon

\* The handler ends or goes on without having opened a stream.
LEMMA EarlySteps ==
    ASSUME StreamInv, NEW a \in Attempts,
           Replay(a) \/ Refuse(a) \/ Begin(a) \/ OpenFails(a) \/ RetryOpen(a) \/ Die(a) \/ Abandon(a)
    PROVE  StreamInv'
<1>0. StreamTyped /\ GateInv(a)
  BY DEF StreamInv
<1>1. /\ UNCHANGED <<callVars, sdkVars, text, usage, failed, down, pos, early, bill, stored>>
      /\ pc[a] \notin {"none", "ended"}
      /\ \/ \E label \in {"ended", "open", "hung", "dead"} :
               /\ pc' = [pc EXCEPT ![a] = label] /\ try' = try /\ (label = "open" => pc[a] = "begin")
         \/ pc' = pc /\ try' = [try EXCEPT ![a] = @ + 1] /\ pc[a] = "open"
  BY DEF Replay, Refuse, Begin, OpenFails, RetryOpen, Die, Abandon, Reply, Goto, routeVars
<1>2. StreamTyped'
  <2>1. pc' \in [Attempts -> HandlerLabels]
    <3>1. {"ended", "open", "hung", "dead"} \subseteq HandlerLabels
      BY DEF HandlerLabels
    <3> QED
      BY <1>0, <1>1, <3>1 DEF StreamTyped
  <2>2. try' \in [Attempts -> Nat]
    <3>1. try \in [Attempts -> Nat] /\ try[a] + 1 \in Nat
      BY <1>0 DEF StreamTyped
    <3>2. try' = try \/ try' = [try EXCEPT ![a] = try[a] + 1]
      BY <1>1
    <3> QED
      BY <3>1, <3>2
  <2> QED
    BY <1>0, <1>1, <2>1, <2>2 DEF StreamTyped, callVars, sdkVars
<1>3. pc'[a] \in {"ended", "open", "hung", "dead"} /\ (pc'[a] = "open" => pc[a] \in {"begin", "open"})
  BY <1>0, <1>1 DEF StreamTyped
<1>4. try'[a] = try[a] \/ pc[a] = "open"
  BY <1>1
<1>5. \A b \in Attempts \ {a} :
              /\ pc'[b] = pc[b] /\ try'[b] = try[b] /\ pos'[b] = pos[b] /\ early'[b] = early[b]
              /\ bill'[b] = bill[b]
  BY <1>0, <1>1 DEF StreamTyped
<1>6. LineOK(provider, pc'[a], pos'[a], Len(text[a]), usage[a], early'[a], failed[a])
  BY <1>3 DEF LineOK
<1>7. bill'[a] = "zero" => early'[a] \/ provider = "openai"
  BY <1>0, <1>1 DEF GateInv, Gate
<1> QED
  <2>1. /\ pc'[a] # "write" /\ pc'[a] # "pull" /\ pc'[a] # "store" /\ pc'[a] # "finish" /\ stored' = stored
        /\ pc'[a] \in {"none", "begin", "open"} => pc[a] \in {"begin", "open"}
    BY <1>1, <1>3
  <2>2. UNCHANGED <<callVars, sdkVars, text, usage, failed, down>> /\ (stored => stored')
        /\ pc[a] \notin {"none", "ended"}
    BY <1>1
  <2> QED
    BY <1>2, <1>4, <1>5, <1>6, <1>7, <2>1, <2>2, RelabelStep, Zenon

\* A chunk comes: the first or the next.
LEMMA ChunkStep ==
    ASSUME StreamInv, NEW a \in Attempts, NEW i \in NextChunk(pos[a]) \cup NextChunk(0),
           \/ pc[a] = "open" /\ i \in NextChunk(0)
           \/ pc[a] = "pull" /\ i \in NextChunk(pos[a]),
           pos' = [pos EXCEPT ![a] = i], Goto(a, "write"),
           UNCHANGED <<callVars, try, text, usage, failed, early, down, bill, stored, sdkVars>>
    PROVE  StreamInv'
<1>0. StreamTyped /\ GateInv(a) /\ provider \in Providers
  BY DEF StreamInv, StreamTyped
<1>1. /\ i \in DOMAIN LinesOf(provider) /\ Yields(LinesOf(provider)[i]) /\ ~failed[a]
      /\ Len(text[a]) + (IF HasText(LinesOf(provider)[i]) THEN 1 ELSE 0) = TextsIn(provider, i)
      /\ Len(Flight(a)) = 2 * (Len(text[a]) - Seen(a))
  <2>1. CASE pc[a] = "open" /\ i \in NextChunk(0)
    <3>1. text[a] = <<>> /\ Flight(a) = <<>> /\ ~failed[a] /\ Seen(a) = 0
      BY <1>0, <2>1 DEF GateInv, Gate
    <3>2. TextsIn(provider, 0) = 0
      <4>1. {k \in 1..0 : HasText(LinesOf(provider)[k])} = {}
        OBVIOUS
      <4> QED
        BY <4>1, FS_EmptySet DEF TextsIn
    <3>3. /\ i \in DOMAIN LinesOf(provider) /\ Yields(LinesOf(provider)[i])
          /\ TextsIn(provider, i) = TextsIn(provider, 0) + (IF HasText(LinesOf(provider)[i]) THEN 1 ELSE 0)
      <4>1. 0 \in Nat
        OBVIOUS
      <4> QED
        BY <1>0, <2>1, <4>1, ChunkFollows, Zenon
    <3> QED
      BY <3>1, <3>2, <3>3
  <2>2. CASE pc[a] = "pull" /\ i \in NextChunk(pos[a])
    <3>1. pos[a] \in Nat
      BY <1>0 DEF StreamTyped
    <3>2. /\ i \in DOMAIN LinesOf(provider) /\ Yields(LinesOf(provider)[i]) /\ ~Ends(provider, pos[a])
          /\ TextsIn(provider, i) = TextsIn(provider, pos[a]) + (IF HasText(LinesOf(provider)[i]) THEN 1 ELSE 0)
      <4> DEFINE n == pos[a]
      <4>1. n \in Nat /\ i \in NextChunk(n)
        BY <2>2, <3>1
      <4> HIDE DEF n
      <4>2. /\ i \in DOMAIN LinesOf(provider) /\ Yields(LinesOf(provider)[i]) /\ ~Ends(provider, n)
            /\ TextsIn(provider, i) = TextsIn(provider, n) + (IF HasText(LinesOf(provider)[i]) THEN 1 ELSE 0)
        BY <1>0, <4>1, ChunkFollows, Zenon
      <4> QED
        BY <4>2 DEF n
    <3>3. ~failed[a] /\ Len(text[a]) = TextsIn(provider, pos[a])
      BY <1>0, <2>2 DEF GateInv, Gate, LineOK
    <3>4. Len(Flight(a)) = 2 * (Len(text[a]) - Seen(a))
      BY <1>0, <2>2, <3>2 DEF GateInv, Gate
    <3> QED
      BY <3>2, <3>3, <3>4
  <2> QED
    BY <2>1, <2>2
<1>2. i \in Nat
  BY <1>0, <1>1, LinesTyped
<1>3. StreamTyped'
  <2>1. pc' \in [Attempts -> HandlerLabels] /\ pos' \in [Attempts -> Nat]
    BY <1>0, <1>2 DEF StreamTyped, HandlerLabels, Goto
  <2> QED
    BY <1>0, <2>1 DEF StreamTyped, callVars, sdkVars
<1>4. pc'[a] = "write" /\ pos'[a] = i
  BY <1>0 DEF StreamTyped, Goto
<1>5. \A b \in Attempts \ {a} :
              /\ pc'[b] = pc[b] /\ try'[b] = try[b] /\ pos'[b] = pos[b] /\ early'[b] = early[b]
              /\ bill'[b] = bill[b]
  BY <1>0 DEF StreamTyped, Goto
<1>6. LineOK(provider, pc'[a], pos'[a], Len(text[a]), usage[a], early'[a], failed[a])
  BY <1>1, <1>4 DEF LineOK
<1>7. bill'[a] = "zero" => early'[a] \/ provider = "openai"
  BY <1>0 DEF GateInv, Gate
<1>8. /\ UNCHANGED <<callVars, sdkVars, text, usage, failed, down>> /\ (stored => stored')
      /\ pc[a] \notin {"none", "ended"} /\ try'[a] = try[a]
      /\ pc'[a] \notin {"none", "begin", "open"} /\ pc'[a] # "store" /\ pc'[a] # "finish"
  BY <1>4
<1> QED
  BY <1>1, <1>3, <1>5, <1>6, <1>7, <1>8, RelabelStep, Zenon

\* The stream ends and is billed and stored.
LEMMA RecordSteps ==
    ASSUME StreamInv, NEW a \in Attempts, UNCHANGED <<callVars, try, pos, text, usage, failed, down, sdkVars>>,
           \/ /\ pc[a] = "pull" /\ NextChunk(pos[a]) = {} /\ Goto(a, "record")
              /\ UNCHANGED <<early, bill, stored>>
           \/ CloseEarly(a) \/ RecordUsage(a) \/ StoreResult(a)
    PROVE  StreamInv'
<1>0. StreamTyped /\ GateInv(a) /\ provider \in Providers /\ pos[a] \in Nat
  BY DEF StreamInv, StreamTyped
<1>1. CASE pc[a] = "pull" /\ NextChunk(pos[a]) = {} /\ Goto(a, "record") /\ UNCHANGED <<early, bill, stored>>
  <2>1. StreamTyped'
    <3>1. pc' \in [Attempts -> HandlerLabels]
      BY <1>0, <1>1 DEF StreamTyped, HandlerLabels, Goto
    <3> QED
      BY <1>0, <1>1, <3>1 DEF StreamTyped, callVars, sdkVars
  <2>2. Ends(provider, pos[a])
    BY <1>0, <1>1, ChunkThere, Zenon
  <2>3. /\ pc'[a] = "record"
        /\ \A b \in Attempts \ {a} :
              /\ pc'[b] = pc[b] /\ try'[b] = try[b] /\ pos'[b] = pos[b] /\ early'[b] = early[b]
              /\ bill'[b] = bill[b]
    BY <1>0, <1>1 DEF StreamTyped, Goto
  <2>4. /\ ~failed[a] /\ (provider # "openai" => usage[a]) /\ Len(text[a]) = TextsIn(provider, pos[a])
        /\ pos[a] \in DOMAIN LinesOf(provider) /\ Yields(LinesOf(provider)[pos[a]])
    BY <1>0, <1>1, <2>2 DEF GateInv, Gate, LineOK
  <2>8. Len(text[a]) = Pieces
    <3> DEFINE n == pos[a]
    <3>1. n \in DOMAIN LinesOf(provider) /\ Yields(LinesOf(provider)[n]) /\ Ends(provider, n)
      BY <2>2, <2>4
    <3> HIDE DEF n
    <3>2. TextsIn(provider, n) = Pieces
      BY <1>0, <3>1, WholeText, Zenon
    <3> QED
      BY <2>4, <3>2 DEF n
  <2>5. LineOK(provider, pc'[a], pos'[a], Len(text[a]), usage[a], early'[a], failed[a])
    BY <2>3, <2>4, <2>8 DEF LineOK
  <2>6. bill'[a] = "zero" => early'[a] \/ provider = "openai"
    BY <1>0, <1>1 DEF GateInv, Gate
  <2>7. /\ UNCHANGED <<callVars, sdkVars, text, usage, failed, down>> /\ (stored => stored')
        /\ pc[a] \notin {"none", "ended"} /\ try'[a] = try[a]
        /\ pc'[a] \notin {"none", "begin", "open"} /\ pc'[a] # "store" /\ pc'[a] # "finish"
        /\ pc'[a] # "write" /\ pc'[a] # "pull"
    BY <1>1, <2>3
  <2> QED
    BY <2>1, <2>3, <2>5, <2>6, <2>7, RelabelStep, Zenon
<1>2. CASE CloseEarly(a)
  <2>1. StreamTyped'
    <3>1. pc' \in [Attempts -> HandlerLabels] /\ early' \in [Attempts -> BOOLEAN]
      BY <1>0, <1>2 DEF StreamTyped, HandlerLabels, Goto, CloseEarly
    <3> QED
      BY <1>0, <1>2, <3>1 DEF StreamTyped, callVars, sdkVars, CloseEarly
  <2>3. /\ pc'[a] = "record" /\ early'[a]
        /\ \A b \in Attempts \ {a} :
              /\ pc'[b] = pc[b] /\ try'[b] = try[b] /\ pos'[b] = pos[b] /\ early'[b] = early[b]
              /\ bill'[b] = bill[b]
    BY <1>0, <1>2 DEF StreamTyped, Goto, CloseEarly
  <2>4. ~failed[a]
    BY <1>0, <1>2 DEF GateInv, Gate, LineOK, CloseEarly
  <2>5. LineOK(provider, pc'[a], pos'[a], Len(text[a]), usage[a], early'[a], failed[a])
    BY <2>3, <2>4 DEF LineOK
  <2>7. /\ UNCHANGED <<callVars, sdkVars, text, usage, failed, down>> /\ (stored => stored')
        /\ pc[a] \notin {"none", "ended"} /\ try'[a] = try[a]
        /\ pc'[a] \notin {"none", "begin", "open"} /\ pc'[a] # "store" /\ pc'[a] # "finish"
        /\ pc'[a] # "write" /\ pc'[a] # "pull"
    BY <1>2, <2>3 DEF CloseEarly
  <2> QED
    BY <2>1, <2>3, <2>5, <2>7, RelabelStep, Zenon
<1>3. CASE RecordUsage(a)
  <2> DEFINE label == IF keyed THEN "store" ELSE "finish"
             record == IF usage[a] THEN "real" ELSE "zero"
  <2>1. StreamTyped'
    <3>1. label \in HandlerLabels /\ record \in {"none", "zero", "real"}
      BY DEF HandlerLabels
    <3>2. pc' = [pc EXCEPT ![a] = label] /\ bill' = [bill EXCEPT ![a] = record]
      BY <1>3 DEF RecordUsage, Goto
    <3> HIDE DEF label, record
    <3>3. pc' \in [Attempts -> HandlerLabels] /\ bill' \in [Attempts -> {"none", "zero", "real"}]
      BY <1>0, <3>1, <3>2 DEF StreamTyped
    <3> QED
      BY <1>0, <1>3, <3>3 DEF StreamTyped, callVars, sdkVars, RecordUsage, routeVars
  <2>3. /\ pc'[a] = label /\ bill'[a] = record
        /\ \A b \in Attempts \ {a} :
              /\ pc'[b] = pc[b] /\ try'[b] = try[b] /\ pos'[b] = pos[b] /\ early'[b] = early[b]
              /\ bill'[b] = bill[b]
    BY <1>0, <1>3 DEF StreamTyped, Goto, RecordUsage, routeVars
  <2>4. /\ ~failed[a] /\ (usage[a] \/ early[a] \/ provider = "openai") /\ early' = early
        /\ early[a] \/ Len(text[a]) = Pieces
    BY <1>0, <1>3 DEF GateInv, Gate, LineOK, RecordUsage, routeVars
  <2>5. LineOK(provider, pc'[a], pos'[a], Len(text[a]), usage[a], early'[a], failed[a])
    BY <2>3, <2>4 DEF LineOK
  <2>6. /\ bill'[a] = "zero" => early'[a] \/ provider = "openai"
        /\ pc'[a] = "store" => bill'[a] # "none"
        /\ pc'[a] = "finish" => Kept(failed[a], early'[a], text[a], bill'[a], keyed, stored')
    BY <2>3, <2>4 DEF Kept
  <2>7. /\ UNCHANGED <<callVars, sdkVars, text, usage, failed, down>> /\ (stored => stored')
        /\ pc[a] \notin {"none", "ended"} /\ try'[a] = try[a]
        /\ pc'[a] \notin {"none", "begin", "open"} /\ pc'[a] # "write" /\ pc'[a] # "pull"
    BY <1>3, <2>3 DEF RecordUsage
  <2> QED
    BY <2>1, <2>3, <2>5, <2>6, <2>7, RelabelStep, Zenon
<1>4. CASE StoreResult(a)
  <2>1. StreamTyped'
    <3>1. pc' \in [Attempts -> HandlerLabels] /\ stored' \in BOOLEAN
      BY <1>0, <1>4 DEF StreamTyped, HandlerLabels, Goto, StoreResult
    <3> QED
      BY <1>0, <1>4, <3>1 DEF StreamTyped, callVars, sdkVars, StoreResult, routeVars
  <2>3. /\ pc'[a] = "finish" /\ stored'
        /\ \A b \in Attempts \ {a} :
              /\ pc'[b] = pc[b] /\ try'[b] = try[b] /\ pos'[b] = pos[b] /\ early'[b] = early[b]
              /\ bill'[b] = bill[b]
    BY <1>0, <1>4 DEF StreamTyped, Goto, StoreResult, routeVars
  <2>4. /\ bill[a] # "none" /\ bill' = bill /\ early' = early
        /\ early[a] \/ Len(text[a]) = Pieces
    BY <1>0, <1>4 DEF GateInv, Gate, LineOK, StoreResult, routeVars
  <2>5. LineOK(provider, pc'[a], pos'[a], Len(text[a]), usage[a], early'[a], failed[a])
    BY <2>3 DEF LineOK
  <2>6. /\ bill'[a] = "zero" => early'[a] \/ provider = "openai"
        /\ Kept(failed[a], early'[a], text[a], bill'[a], keyed, stored')
    BY <1>0, <2>3, <2>4 DEF Kept, GateInv, Gate
  <2>7. /\ UNCHANGED <<callVars, sdkVars, text, usage, failed, down>> /\ (stored => stored')
        /\ pc[a] \notin {"none", "ended"} /\ try'[a] = try[a] /\ pc'[a] # "store"
        /\ pc'[a] \notin {"none", "begin", "open"} /\ pc'[a] # "write" /\ pc'[a] # "pull"
    BY <1>4, <2>3 DEF StoreResult
  <2> QED
    BY <2>1, <2>3, <2>5, <2>6, <2>7, RelabelStep, Zenon
<1> QED
  BY <1>1, <1>2, <1>3, <1>4

\* What is on its way after a frame is written.
LEMMA WriteFlight ==
    ASSUME StreamTyped, NEW a \in Attempts, NEW g \in Frames, Write(a, g), UNCHANGED sdkVars
    PROVE  /\ Flight(a) \in Seq(Halves) /\ Len(Flight(a)) \in Nat /\ Seen(a) \in Nat
           /\ Flight(a)' = Flight(a) \o <<[frame |-> g, last |-> FALSE], [frame |-> g, last |-> TRUE]>>
           /\ down' \in [Attempts -> Seq(Halves)]
           /\ \A b \in Attempts \ {a} : down'[b] = down[b]
<1> DEFINE x == [frame |-> g, last |-> FALSE]
           y == [frame |-> g, last |-> TRUE]
           pair == <<x, y>>
<1>1. x \in Halves /\ y \in Halves
  BY DEF Halves
<1>2. down[a] \in Seq(Halves) /\ buffer \in Seq(Halves) /\ down \in [Attempts -> Seq(Halves)]
  BY DEF StreamTyped
<1>3. down' = [down EXCEPT ![a] = down[a] \o pair] /\ buffer' = buffer /\ attempt' = attempt
  BY DEF Write, sdkVars
<1> HIDE DEF x, y
<1>4. pair \in Seq(Halves)
  BY <1>1
<1> HIDE DEF pair
<1>5. down[a] \o pair \in Seq(Halves) /\ buffer \o down[a] \in Seq(Halves)
  BY <1>2, <1>4
<1>6. down' \in [Attempts -> Seq(Halves)] /\ down'[a] = down[a] \o pair /\ \A b \in Attempts \ {a} : down'[b] = down[b]
  BY <1>2, <1>3, <1>5
<1>7. buffer \o (down[a] \o pair) = (buffer \o down[a]) \o pair
  BY <1>2, <1>4, ConcatAssociative
<1>8. Flight(a)' = Flight(a) \o pair
  BY <1>3, <1>6, <1>7 DEF Flight
<1>9. Flight(a) \in Seq(Halves) /\ Seen(a) \in Nat
  BY <1>2, <1>5 DEF Flight, Seen, StreamTyped
<1>10. Len(Flight(a)) \in Nat
  BY <1>9
<1> QED
  BY <1>6, <1>8, <1>9, <1>10 DEF pair, x, y

\* What is on its way from a handler that is to write its chunk, or another: pieces.
LEMMA AllPieces ==
    ASSUME StreamInv, NEW a \in Attempts,
           pc[a] = "write" \/ (pc[a] = "pull" /\ ~Ends(provider, pos[a]))
    PROVE  /\ Len(Flight(a)) = 2 * (Len(text[a]) - Seen(a))
           /\ \E fs \in Seq(Frames) :
                 /\ Paired(Flight(a), fs) /\ Len(fs) = Len(text[a]) - Seen(a)
                 /\ Flow(a, try[a], Len(text[a]), Seen(a), fs, failed[a], FALSE)
<1>0. GateInv(a)
  BY DEF StreamInv
<1>1. Len(Flight(a)) = 2 * (Len(text[a]) - Seen(a))
  BY <1>0 DEF GateInv, Gate
<1>2. PICK fs \in Seq(Frames) :
         Paired(Flight(a), fs) /\ Flow(a, try[a], Len(text[a]), Seen(a), fs, failed[a], FALSE)
  BY <1>0 DEF GateInv, Gate
<1> DEFINE n == Len(fs)
           m == Len(text[a])
           s == Seen(a)
<1>3. n \in Nat /\ m \in Nat /\ s \in Nat
  BY DEF StreamInv, StreamTyped, Seen
<1>4. 2 * n = 2 * (m - s)
  BY <1>1, <1>2 DEF Paired
<1> HIDE DEF n, m, s
<1>5. n = m - s
  BY <1>3, <1>4
<1> QED
  BY <1>1, <1>2, <1>5 DEF n, m, s

LEMMA WriteChunkStep ==
    ASSUME StreamInv, NEW a \in Attempts, WriteChunk(a)
    PROVE  StreamInv'
<1> DEFINE p == provider
           i == pos[a]
           t == try[a]
           m == Len(text[a])
           s == Seen(a)
           line == LinesOf(p)[i]
           g == IF HasText(line) THEN Frame("delta", <<a, t, m + 1>>) ELSE Frame("final", <<>>)
           m2 == IF HasText(line) THEN m + 1 ELSE m
<1>0. StreamTyped /\ GateInv(a)
  BY DEF StreamInv
<1>1. p \in Providers /\ i \in Nat /\ t \in Nat /\ m \in Nat /\ s \in Nat /\ text[a] \in Seq(PieceSet)
  BY <1>0 DEF StreamTyped, Seen
<1>2. Body = LinesOf(p)
  BY <1>1, LinesTyped
<1>3. pc[a] = "write"
  BY DEF WriteChunk
<1>4. i \in DOMAIN LinesOf(p) /\ Yields(line) /\ ~failed[a] /\ ~(a > attempt)
  BY <1>0, <1>3 DEF GateInv, Gate, LineOK
<1>5. TextsIn(p, i) = m2
  <2>1. m + (IF HasText(line) THEN 1 ELSE 0) = TextsIn(p, i)
    <3>1. Gate(a, p, "write", i, t, text[a], usage[a], failed[a], early[a], bill[a], keyed, stored, Flight(a), s, attempt)
      BY <1>0, <1>3 DEF GateInv
    <3>2. LineOK(p, "write", i, m, usage[a], early[a], failed[a])
      BY <3>1, Zenon DEF Gate
    <3> HIDE DEF m, i, p
    <3> QED
      BY <3>2, Zenon DEF LineOK
  <2> HIDE DEF m, line, i, p
  <2> QED
    BY <1>1, <2>1
<1>6. Place(i) = TextsIn(p, i)
  BY <1>2 DEF Place, TextsIn
<1>7. (~HasText(line) => Ends(p, i)) /\ (Ends(p, i) /\ p # "openai" => HasUsage(i))
  BY <1>1, <1>4, LastChunk, Zenon
<1>8. PICK fs \in Seq(Frames) :
          /\ Paired(Flight(a), fs) /\ Len(fs) = m - s /\ Flow(a, t, m, s, fs, failed[a], FALSE)
  BY <1>3, AllPieces
<1>9. Len(Flight(a)) = 2 * (m - s)
  BY <1>3, AllPieces
<1>10. /\ text' = IF HasText(line) THEN [text EXCEPT ![a] = Append(text[a], <<a, t, m + 1>>)] ELSE text
       /\ Write(a, g) /\ pc' = [pc EXCEPT ![a] = "pull"]
       /\ usage' = [usage EXCEPT ![a] = usage[a] \/ HasUsage(i)]
       /\ UNCHANGED <<callVars, try, pos, failed, early, answer, bill, stored, sdkVars>>
  <2>1. HasText(line) => Place(i) = m + 1
    BY <1>5, <1>6
  <2> QED
    BY <1>2, <2>1 DEF WriteChunk, Goto
<1>11. g \in Frames /\ Flow(a, t, m2, s, Append(fs, g), failed[a], FALSE)
  <2>1. CASE HasText(line)
    BY <1>1, <1>8, <2>1, FlowDelta
  <2>2. CASE ~HasText(line)
    <3>1. Frame("final", <<>>) \in Frames /\ Flow(a, t, m, s, Append(fs, Frame("final", <<>>)), failed[a], FALSE)
      <4> HIDE DEF m, s, t
      <4> QED
        BY <1>1, <1>4, <1>8, FlowFinal
    <3> QED
      BY <2>2, <3>1
  <2> QED
    BY <2>1, <2>2
<1>12. /\ text' \in [Attempts -> Seq(PieceSet)] /\ Len(text'[a]) = m2
       /\ \A k \in 1..m2 : text'[a][k] = <<a, t, k>>
       /\ \A b \in Attempts \ {a} : text'[b] = text[b]
  <2>1. \A k \in 1..m : text[a][k] = <<a, t, k>>
    BY <1>0 DEF GateInv, Gate
  <2>2. text \in [Attempts -> Seq(PieceSet)]
    BY <1>0 DEF StreamTyped
  <2>3. CASE HasText(line)
    <3> DEFINE x == <<a, t, m + 1>>
               tx == Append(text[a], x)
    <3>1. x \in PieceSet
      BY <1>1 DEF PieceSet
    <3> HIDE DEF x
    <3>2. tx \in Seq(PieceSet) /\ Len(tx) = m + 1 /\ tx[m + 1] = x /\ \A k \in 1..m : tx[k] = text[a][k]
      BY <1>1, <3>1
    <3>3. text' = [text EXCEPT ![a] = tx] /\ m2 = m + 1
      BY <1>10, <2>3 DEF x
    <3> HIDE DEF tx, m2
    <3>4. text' \in [Attempts -> Seq(PieceSet)] /\ text'[a] = tx /\ \A b \in Attempts \ {a} : text'[b] = text[b]
      BY <2>2, <3>2, <3>3
    <3>5. \A k \in 1..m + 1 : k \in 1..m \/ k = m + 1
      BY <1>1
    <3>6. \A k \in 1..m + 1 : tx[k] = <<a, t, k>>
      BY <2>1, <3>2, <3>5 DEF x
    <3> QED
      BY <3>2, <3>3, <3>4, <3>6
  <2>4. CASE ~HasText(line)
    BY <1>10, <2>1, <2>2, <2>4
  <2> QED
    BY <2>3, <2>4
<1> HIDE DEF g
<1>13. /\ Flight(a) \in Seq(Halves) /\ Len(Flight(a)) \in Nat
       /\ Flight(a)' = Flight(a) \o <<[frame |-> g, last |-> FALSE], [frame |-> g, last |-> TRUE]>>
       /\ down' \in [Attempts -> Seq(Halves)]
       /\ \A b \in Attempts \ {a} : down'[b] = down[b]
  BY <1>0, <1>10, <1>11, WriteFlight
<1> DEFINE x == [frame |-> g, last |-> FALSE]
           y == [frame |-> g, last |-> TRUE]
           fl2 == Flight(a) \o <<x, y>>
<1>14. Append(fs, g) \in Seq(Frames) /\ Paired(fl2, Append(fs, g))
  BY <1>8, <1>11, <1>13, PairedAppend
<1>15. Len(fl2) = Len(Flight(a)) + 2
  <2>1. x \in Halves /\ y \in Halves
    BY <1>11 DEF Halves
  <2> HIDE DEF x, y
  <2> QED
    BY <1>13, <2>1
<1> HIDE DEF fl2, x, y
<1>16. HasText(line) => Len(fl2) = 2 * (m2 - s)
  <2>1. HasText(line) => m2 = m + 1
    OBVIOUS
  <2>2. Len(fl2) = 2 * (m - s) + 2
    BY <1>9, <1>15
  <2> HIDE DEF m2, m, s, line
  <2>3. 2 * (m - s) + 2 = 2 * ((m + 1) - s)
    BY <1>1
  <2> QED
    BY <2>1, <2>2, <2>3, Zenon
<1>17. StreamTyped'
  <2>1. pc' \in [Attempts -> HandlerLabels]
    BY <1>0, <1>10 DEF StreamTyped, HandlerLabels
  <2>2. usage' \in [Attempts -> BOOLEAN]
    <3>1. usage[a] \/ HasUsage(i) \in BOOLEAN
      BY <1>0 DEF StreamTyped, HasUsage
    <3>2. usage \in [Attempts -> BOOLEAN]
      BY <1>0 DEF StreamTyped
    <3> DEFINE z == usage[a] \/ HasUsage(i)
    <3>3. usage' = [usage EXCEPT ![a] = z] /\ z \in BOOLEAN
      BY <1>10, <3>1
    <3> HIDE DEF z
    <3> QED
      BY <3>2, <3>3
  <2> QED
    BY <1>0, <1>10, <1>12, <1>13, <2>1, <2>2 DEF StreamTyped, callVars, sdkVars
<1>18. /\ pc'[a] = "pull" /\ (usage'[a] <=> usage[a] \/ HasUsage(i)) /\ pos'[a] = i /\ try'[a] = t
       /\ failed'[a] = failed[a] /\ early'[a] = early[a] /\ bill'[a] = bill[a] /\ stored' = stored
       /\ provider' = p /\ keyed' = keyed /\ attempt' = attempt
       /\ \A b \in Attempts \ {a} : pc'[b] = pc[b] /\ usage'[b] = usage[b]
  BY <1>0, <1>10 DEF StreamTyped, callVars, sdkVars
<1>19. LineOK(p, "pull", i, m2, usage'[a], early[a], failed[a])
  BY <1>4, <1>5, <1>7, <1>18 DEF LineOK
<1>20. bill[a] = "zero" => early[a] \/ p = "openai"
  BY <1>0 DEF GateInv, Gate
<1>21. "pull" \in {"write", "pull"} /\ (~Ends(p, i) => Len(fl2) = 2 * (m2 - s))
  BY <1>7, <1>16
<1>22. \E gs \in Seq(Frames) : Paired(fl2, gs) /\ Flow(a, t, m2, s, gs, failed[a], FALSE)
  BY <1>11, <1>14
<1> HIDE DEF m2, line, i, t, s, m, p
<1>23. Gate(a, p, "pull", i, t, text'[a], usage'[a], failed[a], early[a], bill[a], keyed, stored, fl2, s, attempt)
  BY <1>4, <1>12, <1>19, <1>20, <1>21, <1>22 DEF Gate
<1>24. GateInv(a)'
  <2>1. Flight(a)' = fl2
    BY <1>13 DEF fl2, x, y
  <2>2. Seen(a)' = s
    BY <1>10 DEF Seen, s, sdkVars
  <2> QED
    BY <1>18, <1>23, <2>1, <2>2 DEF GateInv
<1>25. /\ Len(text'[a]) >= Len(text[a]) /\ pc[a] # "ended" /\ ~failed[a] /\ try'[a] = try[a]
       /\ UNCHANGED <<callVars, sdkVars>> /\ (stored => stored')
  BY <1>1, <1>3, <1>4, <1>10, <1>12, <1>18 DEF m2, m, t
<1>26. \A b \in Attempts \ {a} :
              /\ pc'[b] = pc[b] /\ try'[b] = try[b] /\ pos'[b] = pos[b] /\ text'[b] = text[b]
              /\ usage'[b] = usage[b] /\ failed'[b] = failed[b] /\ early'[b] = early[b]
              /\ bill'[b] = bill[b] /\ down'[b] = down[b]
  BY <1>10, <1>12, <1>13, <1>18
<1> QED
  BY <1>17, <1>24, <1>25, <1>26, HandlerStep, Zenon

\* A frame without text is written, and the handler is about to finish or has.
LEMMA EndFrameStep ==
    ASSUME StreamInv, NEW a \in Attempts, NEW g \in Frames, NEW fs \in Seq(Frames), NEW l2, NEW f2 \in BOOLEAN,
           Paired(Flight(a), fs), l2 \in {"finish", "ended"}, pc[a] \in {"pull", "finish"},
           Write(a, g), Goto(a, l2), failed' = [failed EXCEPT ![a] = f2], failed[a] => f2,
           UNCHANGED <<callVars, try, pos, text, usage, early, bill, stored, sdkVars>>,
           Flow(a, try[a], Len(text[a]), Seen(a), Append(fs, g), f2,
                l2 = "ended" /\ Kept(f2, early[a], text[a], bill[a], keyed, stored)),
           l2 = "finish" => Kept(f2, early[a], text[a], bill[a], keyed, stored)
    PROVE  StreamInv'
<1> DEFINE x == [frame |-> g, last |-> FALSE]
           y == [frame |-> g, last |-> TRUE]
           fl2 == Flight(a) \o <<x, y>>
<1>0. StreamTyped /\ GateInv(a)
  BY DEF StreamInv
<1>1. /\ Flight(a) \in Seq(Halves) /\ Flight(a)' = fl2
      /\ down' \in [Attempts -> Seq(Halves)]
      /\ \A b \in Attempts \ {a} : down'[b] = down[b]
  BY <1>0, WriteFlight
<1>2. Append(fs, g) \in Seq(Frames) /\ Paired(fl2, Append(fs, g))
  BY <1>1, PairedAppend
<1> HIDE DEF fl2, x, y
<1>3. Seen(a)' = Seen(a)
  BY DEF Seen, sdkVars
<1>4. StreamTyped'
  <2>1. pc' \in [Attempts -> HandlerLabels]
    <3>1. l2 \in HandlerLabels
      BY DEF HandlerLabels
    <3> QED
      BY <1>0, <3>1 DEF StreamTyped, Goto
  <2>2. failed' \in [Attempts -> BOOLEAN]
    BY <1>0 DEF StreamTyped
  <2> QED
    BY <1>0, <1>1, <2>1, <2>2 DEF StreamTyped, callVars, sdkVars
<1>5. /\ pc'[a] = l2 /\ failed'[a] = f2 /\ usage'[a] = usage[a] /\ pos'[a] = pos[a] /\ try'[a] = try[a]
      /\ early'[a] = early[a] /\ bill'[a] = bill[a] /\ text'[a] = text[a]
      /\ stored' = stored /\ provider' = provider /\ keyed' = keyed /\ attempt' = attempt
      /\ \A b \in Attempts \ {a} : pc'[b] = pc[b] /\ failed'[b] = failed[b]
  BY <1>0 DEF StreamTyped, callVars, sdkVars, Goto
<1>6. /\ LineOK(provider, l2, pos[a], Len(text[a]), usage[a], early[a], f2)
      /\ l2 \notin {"none", "begin", "open", "write", "pull", "store"}
  BY DEF LineOK
<1>7. /\ bill[a] = "zero" => early[a] \/ provider = "openai"
      /\ ~(a > attempt)
      /\ \A k \in 1..Len(text[a]) : text[a][k] = <<a, try[a], k>>
  BY <1>0 DEF GateInv, Gate
<1>8. \E gs \in Seq(Frames) :
         /\ Paired(fl2, gs)
         /\ Flow(a, try[a], Len(text[a]), Seen(a), gs, f2, l2 = "ended" /\ Kept(f2, early[a], text[a], bill[a], keyed, stored))
  BY <1>2, Zenon
<1>9. Gate(a, provider, l2, pos[a], try[a], text[a], usage[a], f2, early[a], bill[a], keyed, stored,
           fl2, Seen(a), attempt)
  BY <1>6, <1>7, <1>8, Zenon DEF Gate
<1>10. GateInv(a)'
  BY <1>1, <1>3, <1>5, <1>9 DEF GateInv
<1>11. /\ Len(text'[a]) >= Len(text[a]) /\ pc[a] # "ended" /\ try'[a] = try[a]
       /\ failed[a] => failed'[a] /\ text'[a] = text[a]
       /\ UNCHANGED <<callVars, sdkVars>> /\ (stored => stored')
  <2>1. Len(text[a]) \in Nat
    BY <1>0 DEF StreamTyped
  <2> QED
    BY <1>5, <2>1
<1>12. \A b \in Attempts \ {a} :
              /\ pc'[b] = pc[b] /\ try'[b] = try[b] /\ pos'[b] = pos[b] /\ text'[b] = text[b]
              /\ usage'[b] = usage[b] /\ failed'[b] = failed[b] /\ early'[b] = early[b]
              /\ bill'[b] = bill[b] /\ down'[b] = down[b]
  BY <1>1, <1>5
<1> QED
  BY <1>4, <1>10, <1>11, <1>12, HandlerStep, Zenon

LEMMA BreakStreamStep ==
    ASSUME StreamInv, NEW a \in Attempts, BreakStream(a)
    PROVE  StreamInv'
<1> DEFINE g == Frame("error", <<>>)
           over == "finish" = "ended" /\ Kept(TRUE, early[a], text[a], bill[a], keyed, stored)
<1>0. GateInv(a) /\ ReadInv /\ StreamTyped
  BY DEF StreamInv
<1>1. /\ try[a] \in Nat /\ Len(text[a]) \in Nat /\ Seen(a) \in Nat /\ pc[a] = "pull" /\ ~failed[a]
  BY <1>0 DEF StreamTyped, Seen, BreakStream, GateInv, Gate, LineOK
<1>2. Seen(a) <= Len(text[a])
  <2>1. CASE a = attempt
    <3>1. attempt # 0
      BY <2>1, StreamAssumption DEF Attempts, StreamAssumption
    <3> QED
      BY <1>0, <1>1, <2>1, <3>1 DEF ReadInv, Seen
  <2>2. CASE a # attempt
    BY <1>1, <2>2 DEF Seen
  <2> QED
    BY <2>1, <2>2
<1>3. PICK fs \in Seq(Frames) :
         Paired(Flight(a), fs) /\ Flow(a, try[a], Len(text[a]), Seen(a), fs, failed[a], FALSE)
  BY <1>0, <1>1 DEF GateInv, Gate
<1>4. g \in Frames /\ Flow(a, try[a], Len(text[a]), Seen(a), Append(fs, g), TRUE, over)
  <2> HIDE DEF over
  <2> DEFINE t == try[a]
             m == Len(text[a])
             n == Seen(a)
  <2>1. /\ t \in Nat /\ m \in Nat /\ n \in Nat /\ n <= m /\ ~failed[a]
        /\ Flow(a, t, m, n, fs, failed[a], FALSE)
    BY <1>1, <1>2, <1>3
  <2> HIDE DEF t, m, n
  <2>2. Flow(a, t, m, n, fs, FALSE, FALSE)
    BY <2>1, Zenon DEF Flow
  <2>3. g \in Frames /\ Flow(a, t, m, n, Append(fs, g), TRUE, over)
    BY <2>1, <2>2, FlowError
  <2> QED
    BY <2>3 DEF t, m, n
<1>5. /\ failed' = [failed EXCEPT ![a] = TRUE] /\ Write(a, g) /\ Goto(a, "finish")
      /\ UNCHANGED <<callVars, try, pos, text, usage, early, bill, stored, sdkVars>>
  BY DEF BreakStream
<1>6. Kept(TRUE, early[a], text[a], bill[a], keyed, stored)
  BY DEF Kept
<1> HIDE DEF g
<1>7. TRUE \in BOOLEAN /\ "finish" \in {"finish", "ended"} /\ pc[a] \in {"pull", "finish"}
  BY <1>1
<1> QED
  BY <1>3, <1>4, <1>5, <1>6, <1>7, EndFrameStep, Zenon DEF over

LEMMA FinishStep ==
    ASSUME StreamInv, NEW a \in Attempts, Finish(a)
    PROVE  StreamInv'
<1> DEFINE g == Frame("[DONE]", <<>>)
           over == "ended" = "ended" /\ Kept(failed[a], early[a], text[a], bill[a], keyed, stored)
<1>0. GateInv(a) /\ StreamTyped
  BY DEF StreamInv
<1>1. /\ try[a] \in Nat /\ Len(text[a]) \in Nat /\ Seen(a) \in Nat /\ failed[a] \in BOOLEAN /\ pc[a] = "finish"
  BY <1>0 DEF StreamTyped, Seen, Finish
<1>2. over
  BY <1>0, <1>1 DEF GateInv, Gate
<1>3. PICK fs \in Seq(Frames) :
         Paired(Flight(a), fs) /\ Flow(a, try[a], Len(text[a]), Seen(a), fs, failed[a], FALSE)
  BY <1>0, <1>1 DEF GateInv, Gate
<1>4. g \in Frames /\ Flow(a, try[a], Len(text[a]), Seen(a), Append(fs, g), failed[a], over)
  <2>1. g \in Frames /\ Flow(a, try[a], Len(text[a]), Seen(a), Append(fs, g), failed[a], TRUE)
    BY <1>1, <1>3, FlowDone, Zenon
  <2> HIDE DEF over, g
  <2>2. TRUE => over
    BY <1>2
  <2> QED
    BY <2>1, <2>2, FlowKeeps
<1>5. /\ Write(a, g) /\ Goto(a, "ended")
      /\ UNCHANGED <<callVars, try, pos, text, usage, early, bill, stored, sdkVars>>
  BY DEF Finish, routeVars
<1>6. failed' = [failed EXCEPT ![a] = failed[a]]
  BY <1>0 DEF Finish, routeVars, StreamTyped
<1> HIDE DEF g
<1>7. "ended" # "finish" /\ "ended" \in {"finish", "ended"} /\ pc[a] \in {"pull", "finish"}
  BY <1>1
<1> QED
  BY <1>1, <1>3, <1>4, <1>5, <1>6, <1>7, EndFrameStep, Zenon DEF over

\* Every step of the gateway.
LEMMA HandlerKeeps ==
    ASSUME StreamInv, NEW a \in Attempts, Handler(a)
    PROVE  StreamInv'
<1>1. CASE Replay(a) \/ Refuse(a) \/ Begin(a) \/ OpenFails(a) \/ RetryOpen(a) \/ Die(a) \/ Abandon(a)
  BY <1>1, EarlySteps
<1>2. CASE OpenStream(a)
  <2>1. PICK i \in NextChunk(0) : pos' = [pos EXCEPT ![a] = i]
    BY <1>2 DEF OpenStream
  <2>2. /\ pc[a] = "open" /\ Goto(a, "write") /\ i \in NextChunk(pos[a]) \cup NextChunk(0)
        /\ UNCHANGED <<callVars, try, text, usage, failed, early, down, bill, stored, sdkVars>>
    BY <1>2 DEF OpenStream
  <2> QED
    BY <2>1, <2>2, ChunkStep, Zenon
<1>3. CASE PullChunk(a)
  <2>1. CASE NextChunk(pos[a]) = {}
    <3>1. /\ pc[a] = "pull" /\ NextChunk(pos[a]) = {} /\ Goto(a, "record") /\ UNCHANGED <<early, bill, stored>>
          /\ UNCHANGED <<callVars, try, pos, text, usage, failed, down, sdkVars>>
      BY <1>3, <2>1 DEF PullChunk
    <3> QED
      BY <3>1, RecordSteps
  <2>2. CASE NextChunk(pos[a]) # {}
    <3>1. PICK i \in NextChunk(pos[a]) : pos' = [pos EXCEPT ![a] = i]
      BY <1>3, <2>2 DEF PullChunk
    <3>2. /\ pc[a] = "pull" /\ Goto(a, "write") /\ i \in NextChunk(pos[a]) \cup NextChunk(0)
          /\ UNCHANGED <<callVars, try, text, usage, failed, early, down, bill, stored, sdkVars>>
      BY <1>3, <2>2 DEF PullChunk
    <3> QED
      BY <3>1, <3>2, ChunkStep, Zenon
  <2> QED
    BY <2>1, <2>2
<1>4. CASE CloseEarly(a) \/ RecordUsage(a) \/ StoreResult(a)
  <2>1. UNCHANGED <<callVars, try, pos, text, usage, failed, down, sdkVars>>
    BY <1>4 DEF CloseEarly, RecordUsage, StoreResult, routeVars
  <2> QED
    BY <1>4, <2>1, RecordSteps
<1>5. CASE WriteChunk(a)
  BY <1>5, WriteChunkStep
<1>6. CASE BreakStream(a)
  BY <1>6, BreakStreamStep
<1>7. CASE Finish(a)
  BY <1>7, FinishStep
<1> QED
  BY <1>1, <1>2, <1>3, <1>4, <1>5, <1>6, <1>7 DEF Handler

\* The client reads the first c frames of what is on its way, q pieces of them.
LEMMA ReadStep ==
    ASSUME StreamInv, StreamTyped', sdk = "read", sdk' \in {"read", "returned"},
           UNCHANGED <<gatewayVars, pc, attempt>>,
           \A b \in Attempts \ {attempt} : down'[b] = down[b],
           NEW fs \in Seq(Frames), NEW gs \in Seq(Frames), NEW c \in Nat, NEW q \in Nat, q <= c, c <= Len(fs),
           Paired(buffer \o down[attempt], fs), Paired(buffer' \o down'[attempt], gs), Len(gs) = Len(fs) - c,
           buffer \o down[attempt] # <<>>,
           Flow(attempt, try[attempt], Len(text[attempt]), Len(got) + q, gs, failed[attempt],
                pc[attempt] = "ended" /\ Kept(failed[attempt], early[attempt], text[attempt], bill[attempt], keyed, stored)),
           Len(got') = Len(got) + q, \A i \in 1..Len(got) : got'[i] = got[i],
           \A i \in 1..q : Len(got) + i <= Len(text[attempt]) =>
              got'[Len(got) + i] = <<attempt, try[attempt], Len(got) + i>>,
           \/ Len(got) + q <= Len(text[attempt]) \/ q = 0
           \/ client = "playground" /\ failed[attempt] /\ Len(got) + q = Len(text[attempt]) + 1,
           client = "python" => buffer' = <<>>,
           sawDone' => /\ c = Len(fs) /\ pc[attempt] = "ended"
                       /\ Kept(failed[attempt], early[attempt], text[attempt], bill[attempt], keyed, stored)
    PROVE  StreamInv'
<1> DEFINE a == attempt
           n == Len(got)
           m == Len(text[a])
           fl == buffer \o down[a]
           fl2 == buffer' \o down'[a]
<1>0. StreamTyped /\ ReadInv
  BY DEF StreamInv
<1>1. a # 0 /\ a \in Attempts
  BY <1>0, StreamAssumption DEF ReadInv, StreamTyped, Attempts, StreamAssumption
<1>2. GateInv(a)
  BY <1>1 DEF StreamInv
<1>3. Gate(a, provider, pc[a], pos[a], try[a], text[a], usage[a], failed[a], early[a], bill[a],
           keyed, stored, fl, n, a)
  BY <1>2 DEF GateInv, Flight, Seen
<1>4. n \in Nat /\ m \in Nat /\ fl \in Seq(Halves) /\ Len(fl) \in Nat /\ buffer' \o down'[a] \in Seq(Halves)
  BY <1>0, <1>1 DEF StreamTyped
<1>5. pc[a] \notin {"none", "begin", "open"}
  BY <1>3 DEF Gate
<1>6. Len(fl2) = Len(fl) - 2 * c
  <2>1. Len(fl) = 2 * Len(fs) /\ Len(fl2) = 2 * Len(gs) /\ Len(gs) = Len(fs) - c /\ Len(fs) \in Nat
    BY DEF Paired
  <2> HIDE DEF fl, fl2
  <2> QED
    BY <2>1
<1>7. pc[a] = "write" \/ (pc[a] = "pull" /\ ~Ends(provider, pos[a])) => Len(fl2) = 2 * (m - (n + q))
  <2> HAVE pc[a] = "write" \/ (pc[a] = "pull" /\ ~Ends(provider, pos[a]))
  <2>1. Len(fl) = 2 * (m - n)
    BY <1>3 DEF Gate
  <2>2. Len(gs) >= m - (n + q) /\ Len(gs) = Len(fs) - c /\ Len(fl) = 2 * Len(fs)
    BY DEF Flow, Paired
  <2> DEFINE x == Len(gs)
             z == Len(fs)
             v == Len(fl)
             v2 == Len(fl2)
  <2>3. x \in Nat /\ z \in Nat /\ v = 2 * (m - n) /\ x >= m - (n + q) /\ x = z - c /\ v = 2 * z /\ v2 = v - 2 * c
    BY <1>6, <2>1, <2>2
  <2> HIDE DEF x, z, v, v2, m, n
  <2>4. z = m - n
    BY <1>4, <2>3
  <2>5. c = q
    BY <1>4, <2>3, <2>4
  <2>6. v2 = 2 * (m - (n + q))
    BY <1>4, <2>3, <2>4, <2>5
  <2> QED
    BY <2>6 DEF v2
<1>8. Gate(a, provider, pc[a], pos[a], try[a], text[a], usage[a], failed[a], early[a], bill[a],
           keyed, stored, fl2, n + q, a)
  <2>1. \E hs \in Seq(Frames) :
           Paired(fl2, hs) /\ Flow(a, try[a], Len(text[a]), n + q, hs, failed[a],
                                   pc[a] = "ended" /\ Kept(failed[a], early[a], text[a], bill[a], keyed, stored))
    OBVIOUS
  <2> HIDE DEF fl2, n
  <2> QED
    BY <1>3, <1>5, <1>7, <2>1, Zenon DEF Gate
<1>9. /\ attempt' = a /\ provider' = provider /\ pc' = pc /\ pos' = pos /\ try' = try /\ text' = text
      /\ usage' = usage /\ failed' = failed /\ early' = early /\ bill' = bill /\ keyed' = keyed
      /\ stored' = stored /\ client' = client
  BY DEF gatewayVars, callVars, routeVars
<1>10. GateInv(a)'
  BY <1>8, <1>9 DEF GateInv, Flight, Seen
<1>11. ASSUME NEW b \in Attempts \ {a} PROVE GateInv(b)'
  <2>1. GateInv(b)
    BY DEF StreamInv
  <2> QED
    BY <1>9, <2>1 DEF GateInv, Flight, Seen
<1>12. ReadInv'
  <2>1. \/ n <= m
        \/ client = "playground" /\ failed[a] /\ n = m + 1
    BY <1>0, <1>1 DEF ReadInv
  <2>2. \/ n + q <= m
        \/ client = "playground" /\ failed[a] /\ n + q = m + 1
    BY <1>4, <2>1
  <2>3. ASSUME NEW i \in 1..n + q, i <= m PROVE got'[i] = <<a, try[a], i>>
    <3>1. CASE i <= n
      <4>1. i \in 1..n
        BY <1>4, <3>1
      <4>2. got[i] = <<a, try[a], i>>
        BY <1>0, <1>1, <2>3, <4>1 DEF ReadInv
      <4> QED
        BY <4>1, <4>2
    <3>2. CASE i > n
      <4> DEFINE k == i - n
      <4>1. k \in 1..q /\ n + k = i
        BY <1>4, <3>2
      <4> HIDE DEF k
      <4>2. n + k <= m => got'[n + k] = <<a, try[a], n + k>>
        BY <4>1
      <4> QED
        BY <2>3, <4>1, <4>2
    <3> QED
      BY <1>4, <3>1, <3>2
  <2>4. sawDone' => fl2 = <<>>
    <3> HAVE sawDone'
    <3>1. Len(fl2) = 0
      <4>1. Len(gs) = 0
        BY DEF Paired
      <4> QED
        BY <4>1 DEF Paired
    <3> HIDE DEF fl2
    <3>2. fl2 \in Seq(Halves)
      BY <1>4 DEF fl2
    <3> QED
      BY <3>1, <3>2
  <2>5. sawDone' => (pc[a] = "ended" /\ Kept(failed[a], early[a], text[a], bill[a], keyed, stored))
    OBVIOUS
  <2>6. (IF attempt' = attempt' THEN fl2 ELSE down'[attempt']) = fl2
    OBVIOUS
  <2> HIDE DEF fl2
  <2>7. Flight(attempt)' = fl2
    BY <1>9 DEF Flight, fl2
  <2> QED
    BY <1>1, <1>9, <2>2, <2>3, <2>4, <2>5, <2>7 DEF ReadInv
<1> QED
  BY <1>10, <1>11, <1>12 DEF StreamInv

\* A read by the TypeScript SDK or by the playground.
LEMMA HalvesRead ==
    ASSUME StreamInv, NEW n \in 1..2 * Pieces + 6, Read(n) \/ PlaygroundRead(n)
    PROVE  StreamInv'
<1> DEFINE a == attempt
           d == down[a]
           halves == buffer \o SubSeq(d, 1, n)
           kinds == IF client = "ts" THEN {"delta"} ELSE {"delta", "error"}
           more == PiecesOf(Whole(halves), kinds)
           over == pc[a] = "ended" /\ Kept(failed[a], early[a], text[a], bill[a], keyed, stored)
           rest == SubSeq(d, n + 1, Len(d))
           t == try[a]
           m == Len(text[a])
           s == Len(got)
<1>0. StreamTyped /\ ReadInv
  BY DEF StreamInv
<1>1. /\ sdk = "read" /\ client \in {"ts", "playground"} /\ n <= Len(d)
      /\ down' = [down EXCEPT ![a] = rest] /\ buffer' = Rest(halves) /\ got' = got \o more
      /\ sawDone' => sawDone \/ \E i \in 1..Len(Whole(halves)) : Whole(halves)[i].kind = "[DONE]"
      /\ sawDone' \in BOOLEAN /\ sdk' \in {"read", "returned"} /\ UNCHANGED <<gatewayVars, pc, attempt>>
  BY <1>0 DEF Read, PlaygroundRead, StreamTyped
<1>2. a # 0 /\ a \in Attempts
  BY <1>0, <1>1, StreamAssumption DEF ReadInv, StreamTyped, Attempts, StreamAssumption
<1>3. /\ d \in Seq(Halves) /\ buffer \in Seq(Halves) /\ t \in Nat /\ m \in Nat /\ s \in Nat
      /\ got \in Seq(PieceSet) /\ down \in [Attempts -> Seq(Halves)] /\ Pieces \in Nat
  BY <1>0, <1>2, TextsAre DEF StreamTyped
<1>4. n \in 1..Len(d) /\ Len(d) \in Nat
  BY <1>1, <1>3
<1>5. buffer \o d # <<>>
  <2>1. Len(buffer \o d) = Len(buffer) + Len(d) /\ Len(buffer) \in Nat
    BY <1>3
  <2>2. Len(buffer \o d) # 0
    BY <1>4, <2>1
  <2> QED
    BY <2>2
<1>6. ~sawDone
  BY <1>0, <1>2, <1>5 DEF ReadInv, Flight
<1>7. s <= m + 1
  BY <1>0, <1>2, <1>3 DEF ReadInv
<1>8. PICK fs \in Seq(Frames) : Paired(buffer \o d, fs) /\ Flow(a, t, m, s, fs, failed[a], over)
  <2>1. Gate(a, provider, pc[a], pos[a], try[a], text[a], usage[a], failed[a], early[a], bill[a],
             keyed, stored, buffer \o d, s, a)
    BY <1>2 DEF StreamInv, GateInv, Flight, Seen
  <2> HIDE DEF d, s, a
  <2> QED
    BY <2>1, Zenon DEF Gate
<1>9. /\ Rest(halves) \in Seq(Halves) /\ rest \in Seq(Halves)
      /\ \E c \in 0..Len(fs) :
            /\ Whole(halves) = SubSeq(fs, 1, c)
            /\ SubSeq(fs, c + 1, Len(fs)) \in Seq(Frames)
            /\ Paired(Rest(halves) \o rest, SubSeq(fs, c + 1, Len(fs)))
  <2> HIDE DEF d
  <2> QED
    BY <1>3, <1>4, <1>8, PairedRead, Zenon
<1>10. PICK c \in 0..Len(fs) :
            /\ Whole(halves) = SubSeq(fs, 1, c)
            /\ SubSeq(fs, c + 1, Len(fs)) \in Seq(Frames)
            /\ Paired(Rest(halves) \o rest, SubSeq(fs, c + 1, Len(fs)))
  BY <1>9, Zenon
<1> DEFINE gs == SubSeq(fs, c + 1, Len(fs))
<1>11. c \in Nat /\ c <= Len(fs) /\ Len(fs) \in Nat /\ Len(gs) = Len(fs) - c /\ gs \in Seq(Frames)
  BY <1>10
<1>12. kinds \in {{"delta"}, {"delta", "error"}} /\ ("error" \in kinds => client = "playground")
  BY <1>1
<1>13. \E q \in 0..c :
          /\ more \in Seq(PieceSet) /\ Len(more) = q
          /\ \A i \in 1..q : s + i <= m => more[i] = <<a, t, s + i>>
          /\ s + q <= m \/ s + q = s \/ ("error" \in kinds /\ failed[a] /\ s + q = m + 1)
          /\ Flow(a, t, m, s + q, gs, failed[a], over)
  <2>1. more = PiecesOf(SubSeq(fs, 1, c), kinds)
    BY <1>10
  <2> DEFINE brk == failed[a]
  <2>2. a \in Attempts /\ t \in Nat /\ m \in Nat /\ s \in Nat /\ s <= m + 1 /\ Flow(a, t, m, s, fs, brk, over)
        /\ c \in 0..Len(fs) /\ kinds \in {{"delta"}, {"delta", "error"}}
    BY <1>2, <1>3, <1>7, <1>8, <1>10, <1>12
  <2> HIDE DEF more, kinds, over, m, s, t, a, brk
  <2>3. Yielded(a, t, m, s, fs, brk, over, c, kinds)
    BY <2>2, FlowRead, Zenon
  <2> QED
    BY <2>1, <2>3, Zenon DEF brk, gs, Yielded
<1>14. PICK q \in 0..c :
          /\ more \in Seq(PieceSet) /\ Len(more) = q
          /\ \A i \in 1..q : s + i <= m => more[i] = <<a, t, s + i>>
          /\ s + q <= m \/ s + q = s \/ ("error" \in kinds /\ failed[a] /\ s + q = m + 1)
          /\ Flow(a, t, m, s + q, gs, failed[a], over)
  BY <1>13, Zenon
<1>15. q \in Nat /\ q <= c
  BY <1>11
<1>16. sawDone' => c = Len(fs) /\ over
  <2> HAVE sawDone'
  <2>1. PICK i \in 1..Len(Whole(halves)) : Whole(halves)[i].kind = "[DONE]"
    BY <1>1, <1>6
  <2>2. i \in 1..c /\ Whole(halves)[i] = fs[i]
    <3>1. Len(SubSeq(fs, 1, c)) = c /\ \A k \in 1..c : SubSeq(fs, 1, c)[k] = fs[k]
      BY <1>11
    <3> QED
      BY <1>10, <2>1, <3>1
  <2>3. i \in 1..Len(fs)
    BY <1>11, <2>2
  <2> HIDE DEF over
  <2>4. i = Len(fs) /\ over
    BY <1>8, <2>1, <2>2, <2>3 DEF Flow
  <2> QED
    BY <1>11, <2>2, <2>4
<1> HIDE DEF more, gs, rest, halves
<1>17. /\ got' \in Seq(PieceSet) /\ Len(got') = s + q /\ \A i \in 1..s : got'[i] = got[i]
       /\ \A i \in 1..q : got'[s + i] = more[i]
  <2>1. /\ got' = got \o more /\ more \in Seq(PieceSet) /\ got \in Seq(PieceSet) /\ Len(more) = q
        /\ s \in Nat /\ q \in Nat
    BY <1>1, <1>3, <1>14, <1>15
  <2>2. Len(got') = Len(got) + Len(more) /\ got' \in Seq(PieceSet)
    BY <2>1, ConcatProperties
  <2>3. \A i \in 1..Len(got) : got'[i] = got[i]
    BY <2>1
  <2>4. \A i \in 1..Len(more) : got'[Len(got) + i] = more[i]
    BY <2>1
  <2> QED
    BY <2>1, <2>2, <2>3, <2>4
<1>18. /\ \A b \in Attempts \ {a} : down'[b] = down[b]
       /\ down'[a] = rest /\ down' \in [Attempts -> Seq(Halves)] /\ buffer' \in Seq(Halves)
  BY <1>1, <1>2, <1>3, <1>9
<1>19. StreamTyped'
  BY <1>0, <1>1, <1>17, <1>18 DEF StreamTyped, gatewayVars, callVars, routeVars
<1>20. s + q <= m \/ q = 0 \/ (client = "playground" /\ failed[a] /\ s + q = m + 1)
  BY <1>3, <1>12, <1>14, <1>15
<1>21. \A i \in 1..q : s + i <= m => got'[s + i] = <<a, t, s + i>>
  BY <1>14, <1>17
<1>22. Paired(buffer' \o down'[a], gs)
  BY <1>1, <1>10, <1>18 DEF gs
<1>23. sawDone' => /\ c = Len(fs) /\ pc[a] = "ended" /\ Kept(failed[a], early[a], text[a], bill[a], keyed, stored)
  BY <1>16
<1>24. Flow(a, t, m, s + q, gs, failed[a], pc[a] = "ended" /\ Kept(failed[a], early[a], text[a], bill[a], keyed, stored))
  BY <1>14
<1>25. client # "python"
  BY <1>1
<1> QED
  BY <1>1, <1>5, <1>8, <1>11, <1>15, <1>17, <1>18, <1>19, <1>20, <1>21, <1>22, <1>23, <1>24, <1>25, ReadStep

LEMMA PythonReadStep ==
    ASSUME StreamInv, PythonRead
    PROVE  StreamInv'
<1> DEFINE a == attempt
           d == down[a]
           over == pc[a] = "ended" /\ Kept(failed[a], early[a], text[a], bill[a], keyed, stored)
           rest == SubSeq(d, 3, Len(d))
           t == try[a]
           m == Len(text[a])
           s == Len(got)
           frame == d[1].frame
<1>0. StreamTyped /\ ReadInv
  BY DEF StreamInv
<1>1. /\ sdk = "read" /\ client = "python" /\ d # <<>>
      /\ down' = [down EXCEPT ![a] = rest] /\ buffer' = buffer
      /\ got' = IF frame.kind = "delta" THEN Append(got, frame.piece) ELSE got
      /\ sawDone' = (frame.kind = "[DONE]")
      /\ sdk' \in {"read", "returned"} /\ UNCHANGED <<gatewayVars, pc, attempt>>
  BY <1>0 DEF PythonRead, StreamTyped
<1>2. a # 0 /\ a \in Attempts /\ buffer = <<>>
  BY <1>0, <1>1, StreamAssumption DEF ReadInv, StreamTyped, Attempts, StreamAssumption
<1>3. /\ d \in Seq(Halves) /\ t \in Nat /\ m \in Nat /\ s \in Nat
      /\ got \in Seq(PieceSet) /\ down \in [Attempts -> Seq(Halves)] /\ Len(d) \in Nat /\ Len(d) # 0
  BY <1>0, <1>1, <1>2 DEF StreamTyped
<1>4. buffer \o d = d
  BY <1>2, <1>3
<1>5. PICK fs \in Seq(Frames) : Paired(d, fs) /\ Flow(a, t, m, s, fs, failed[a], over)
  <2>1. Gate(a, provider, pc[a], pos[a], try[a], text[a], usage[a], failed[a], early[a], bill[a],
             keyed, stored, d, s, a)
    BY <1>2, <1>4 DEF StreamInv, GateInv, Flight, Seen
  <2> HIDE DEF d, s, a
  <2> QED
    BY <2>1, Zenon DEF Gate
<1> DEFINE gs == SubSeq(fs, 2, Len(fs))
           z == Len(fs)
           v == Len(d)
<1>6. z \in Nat /\ v = 2 * z /\ z >= 1 /\ v >= 2 /\ fs \in Seq(Frames)
  <2>1. z \in Nat /\ v = 2 * z /\ v # 0 /\ v \in Nat
    BY <1>3, <1>5 DEF Paired
  <2> HIDE DEF z, v
  <2> QED
    BY <2>1
<1>7. frame = fs[1] /\ fs[1] \in Frames
  <2>1. 1 \in 1..Len(fs) /\ 2 * 1 - 1 = 1
    BY <1>6
  <2>2. d[2 * 1 - 1] = [frame |-> fs[1], last |-> FALSE]
    BY <1>5, <2>1, Zenon DEF Paired
  <2> QED
    BY <2>1, <2>2
<1>8. gs \in Seq(Frames) /\ Len(gs) = Len(fs) - 1
  <2>1. Len(fs) \in Nat /\ Len(fs) >= 1
    BY <1>6
  <2>2. gs \in Seq(Frames)
    BY <2>1
  <2>3. Len(gs) = Len(fs) - 1
    <3>1. CASE Len(fs) = 1
      <4>1. gs = <<>>
        BY <3>1
      <4> QED
        BY <3>1, <4>1
    <3>2. CASE Len(fs) >= 2
      BY <2>1, <3>2
    <3>3. Len(fs) = 1 \/ Len(fs) >= 2
      <4> DEFINE n == Len(fs)
      <4>1. n \in Nat /\ n >= 1
        BY <2>1
      <4> HIDE DEF n
      <4>2. n = 1 \/ n >= 2
        BY <4>1
      <4> QED
        BY <4>2 DEF n
    <3> QED
      BY <3>1, <3>2, <3>3, Zenon
  <2> QED
    BY <2>2, <2>3
<1>9. rest \in Seq(Halves) /\ Paired(rest, gs)
  <2>1. /\ rest \in Seq(Halves) /\ Len(rest) = v - 2
        /\ \A k \in 1..v - 2 : rest[k] = d[2 + k]
    BY <1>3, <1>6
  <2> HIDE DEF rest
  <2>2. Len(rest) = Len(d) - 2 * 1 /\ \A k \in 1..Len(rest) : rest[k] = d[2 * 1 + k]
    BY <2>1
  <2>3. 1 \in 0..Len(fs) /\ 1 + 1 = 2
    BY <1>6
  <2> HIDE DEF d
  <2>4. Paired(rest, SubSeq(fs, 1 + 1, Len(fs)))
    BY <1>3, <1>5, <2>1, <2>2, <2>3, PairedDrop
  <2> QED
    BY <2>1, <2>3, <2>4
<1>10. /\ 1 <= m - s => fs[1] = Frame("delta", <<a, t, s + 1>>)
       /\ 1 > m - s => fs[1].kind # "delta"
       /\ fs[1].kind = "[DONE]" => 1 = Len(fs) /\ over
  <2>1. 1 \in 1..Len(fs)
    BY <1>6
  <2> QED
    BY <1>5, <2>1, Zenon DEF Flow
<1> DEFINE q == IF frame.kind = "delta" THEN 1 ELSE 0
<1>11. frame.kind = "delta" => frame.piece = <<a, t, s + 1>> /\ s + 1 <= m
  <2> HAVE frame.kind = "delta"
  <2>1. 1 <= m - s
    BY <1>3, <1>7, <1>10
  <2>2. frame.piece = <<a, t, s + 1>>
    BY <1>7, <1>10, <2>1 DEF Frame
  <2> QED
    BY <1>3, <2>1, <2>2
<1>12. q = 0 => q >= m - s
  <2> HAVE q = 0
  <2>1. fs[1].kind # "delta"
    BY <1>7
  <2>2. ~(1 <= m - s)
    BY <1>10, <2>1 DEF Frame
  <2> QED
    BY <1>3, <2>2
<1>13. q \in 0..1 /\ q \in Nat /\ q <= 1
  OBVIOUS
<1> HIDE DEF q
<1>14. Flow(a, t, m, s + q, gs, failed[a], over)
  <2>1. /\ 1 \in 0..Len(fs) /\ 1 + 1 = 2 /\ (q < 1 => q >= m - s)
        /\ s <= m => s + q <= m
    BY <1>3, <1>6, <1>11, <1>12, <1>13 DEF q
  <2> HIDE DEF over, m, s, t, a
  <2>2. Flow(a, t, m, s + q, SubSeq(fs, 1 + 1, Len(fs)), failed[a], over)
    BY <1>2, <1>3, <1>5, <1>13, <2>1, FlowDrop
  <2> QED
    BY <2>1, <2>2
<1>15. /\ got' \in Seq(PieceSet) /\ Len(got') = s + q /\ \A i \in 1..s : got'[i] = got[i]
       /\ \A i \in 1..q : s + i <= m => got'[s + i] = <<a, t, s + i>>
  <2>1. CASE frame.kind = "delta"
    <3>1. frame.piece \in PieceSet
      BY <1>7 DEF Frames
    <3>2. got' = Append(got, frame.piece) /\ q = 1
      BY <1>1, <2>1 DEF q
    <3> DEFINE x == frame.piece
    <3>3. x \in PieceSet /\ got' = Append(got, x) /\ x = <<a, t, s + 1>>
      BY <1>11, <2>1, <3>1, <3>2
    <3> HIDE DEF x
    <3>4. got' \in Seq(PieceSet) /\ Len(got') = s + 1 /\ got'[s + 1] = x /\ \A i \in 1..s : got'[i] = got[i]
      BY <1>3, <3>3
    <3> QED
      BY <3>2, <3>3, <3>4
  <2>2. CASE frame.kind # "delta"
    BY <1>1, <1>3, <2>2 DEF q
  <2> QED
    BY <2>1, <2>2
<1>16. s + q <= m \/ q = 0
  BY <1>11 DEF q
<1>17. sawDone' => 1 = Len(fs) /\ pc[a] = "ended" /\ Kept(failed[a], early[a], text[a], bill[a], keyed, stored)
  BY <1>1, <1>7, <1>10
<1>18. /\ \A b \in Attempts \ {a} : down'[b] = down[b]
       /\ down'[a] = rest /\ down' \in [Attempts -> Seq(Halves)] /\ buffer' = <<>> /\ sawDone' \in BOOLEAN
  BY <1>1, <1>2, <1>3, <1>9
<1>19. StreamTyped'
  BY <1>0, <1>1, <1>15, <1>18 DEF StreamTyped, gatewayVars, callVars, routeVars
<1>20. Paired(buffer' \o down'[a], gs) /\ Paired(buffer \o d, fs) /\ buffer \o d # <<>>
  <2>1. buffer' \o down'[a] = rest
    BY <1>9, <1>18
  <2> QED
    BY <1>1, <1>4, <1>5, <1>9, <2>1
<1>21. 1 \in Nat /\ 1 <= Len(fs)
  BY <1>6
<1>22. Flow(a, t, m, s + q, gs, failed[a], pc[a] = "ended" /\ Kept(failed[a], early[a], text[a], bill[a], keyed, stored))
  BY <1>14
<1> HIDE DEF gs
<1> QED
  BY <1>1, <1>5, <1>8, <1>13, <1>15, <1>16, <1>17, <1>18, <1>19, <1>20, <1>21, <1>22, ReadStep

\* The client sends its first request, or the next.
LEMMA SendStep ==
    ASSUME StreamInv, Send \/ PlaygroundSend
    PROVE  StreamInv'
<1>0. StreamTyped /\ ReadInv
  BY DEF StreamInv
<1>1. /\ sdk = "send" /\ sdk' = "wait" /\ attempt' = attempt + 1 /\ Goto(attempt + 1, "begin")
      /\ UNCHANGED <<gatewayVars, down, buffer, got, sawDone>>
  BY <1>0 DEF Send, PlaygroundSend, ReadInv
<1>2. got = <<>> /\ buffer = <<>> /\ ~sawDone /\ attempt < MaxAttempts /\ attempt \in Nat
  BY <1>0, <1>1, StreamAssumption DEF ReadInv, StreamTyped, StreamAssumption
<1>3. attempt + 1 \in Attempts /\ attempt + 1 \in 0..MaxAttempts /\ attempt <= attempt + 1 /\ attempt + 1 \in Nat
      /\ attempt + 1 > attempt /\ attempt + 1 # 0
  BY <1>2, StreamAssumption DEF Attempts, StreamAssumption
<1>4. /\ provider' = provider /\ pos' = pos /\ try' = try /\ text' = text /\ down' = down /\ buffer' = buffer
      /\ usage' = usage /\ failed' = failed /\ early' = early /\ bill' = bill /\ keyed' = keyed
      /\ stored' = stored /\ client' = client /\ got' = got /\ sawDone' = sawDone
      /\ pc'[attempt + 1] = "begin" /\ \A b \in Attempts \ {attempt + 1} : pc'[b] = pc[b]
  BY <1>0, <1>1, <1>3 DEF gatewayVars, callVars, routeVars, Goto, StreamTyped
<1>5. StreamTyped'
  <2>1. pc' \in [Attempts -> HandlerLabels]
    BY <1>0, <1>1, <1>3 DEF StreamTyped, HandlerLabels, Goto
  <2> QED
    BY <1>0, <1>1, <1>3, <1>4, <2>1 DEF StreamTyped
<1>6. ASSUME NEW b \in Attempts
      PROVE  Flight(b) = down[b] /\ Seen(b) = 0 /\ Flight(b)' = down[b] /\ Seen(b)' = 0
  <2>1. down[b] \in Seq(Halves) /\ <<>> \o down[b] = down[b] /\ Len(<<>>) = 0
    BY <1>0 DEF StreamTyped
  <2> QED
    BY <1>2, <1>4, <2>1 DEF Flight, Seen
<1>7. ASSUME NEW b \in Attempts
      PROVE  Gate(b, provider, pc[b], pos[b], try[b], text[b], usage[b], failed[b], early[b], bill[b],
                  keyed, stored, down[b], 0, attempt + 1)
  <2>1. GateInv(b)
    BY DEF StreamInv
  <2>2. Gate(b, provider, pc[b], pos[b], try[b], text[b], usage[b], failed[b], early[b], bill[b],
             keyed, stored, down[b], 0, attempt)
    BY <1>6, <2>1 DEF GateInv
  <2> QED
    BY <1>2, <1>3, <2>2, GateKeep
<1>8. PICK a \in Attempts : a = attempt + 1
  BY <1>3
<1>9. ASSUME NEW b \in Attempts \ {a} PROVE GateInv(b)'
  BY <1>1, <1>4, <1>6, <1>7, <1>8 DEF GateInv
<1>10. GateInv(a)'
  <2>1. pc[a] = "none"
    BY <1>3, <1>8 DEF StreamInv, GateInv, Gate
  <2>2. Gate(a, provider, "none", pos[a], try[a], text[a], usage[a], failed[a], early[a], bill[a],
             keyed, stored, down[a], 0, a)
    BY <1>7, <1>8, <2>1
  <2>3. ~(a > a)
    BY <1>3, <1>8
  <2>4. LineOK(provider, "begin", pos[a], Len(text[a]), usage[a], early[a], failed[a])
    BY DEF LineOK
  <2>5. \E fs \in Seq(Frames) :
           /\ Paired(down[a], fs)
           /\ Flow(a, try[a], Len(text[a]), 0, fs, failed[a],
                   "begin" = "ended" /\ Kept(failed[a], early[a], text[a], bill[a], keyed, stored))
    BY <2>2 DEF Gate
  <2>6. Gate(a, provider, "begin", pos[a], try[a], text[a], usage[a], failed[a], early[a], bill[a],
             keyed, stored, down[a], 0, a)
    BY <2>2, <2>3, <2>4, <2>5 DEF Gate
  <2> QED
    BY <1>1, <1>4, <1>6, <1>8, <2>6 DEF GateInv
<1>11. ReadInv'
  <2>1. Len(got') = 0 /\ got' = <<>> /\ buffer' = <<>> /\ ~sawDone' /\ sdk' = "wait" /\ attempt' # 0
    BY <1>1, <1>2, <1>3, <1>4
  <2>2. Len(text'[attempt']) \in Nat
    BY <1>0, <1>1, <1>3, <1>4 DEF StreamTyped
  <2> QED
    BY <2>1, <2>2 DEF ReadInv
<1> QED
  BY <1>5, <1>9, <1>10, <1>11 DEF StreamInv

LEMMA StreamInitInv == StreamInit => StreamInv
<1> SUFFICES ASSUME StreamInit PROVE StreamInv
  OBVIOUS
<1>0. MaxAttempts \in Nat \ {0}
  BY StreamAssumption DEF StreamAssumption
<1>1. StreamTyped
  <2>1. <<>> \in Seq(PieceSet) /\ <<>> \in Seq(Halves) /\ keyed \in BOOLEAN /\ "none" \in HandlerLabels
    <3>1. <<>> \in Seq(PieceSet) /\ <<>> \in Seq(Halves)
      OBVIOUS
    <3>2. keyed \in BOOLEAN
      BY DEF StreamInit
    <3>3. "none" \in HandlerLabels
      BY DEF HandlerLabels
    <3> QED
      BY <3>1, <3>2, <3>3
  <2> DEFINE P == Seq(PieceSet)
             H == Seq(Halves)
  <2> HIDE DEF P, H
  <2>2. <<>> \in P /\ <<>> \in H
    BY <2>1 DEF P, H
  <2>3. /\ pc \in [Attempts -> HandlerLabels] /\ try \in [Attempts -> Nat] /\ pos \in [Attempts -> Nat]
        /\ text \in [Attempts -> P] /\ down \in [Attempts -> H] /\ buffer \in H /\ got \in P
    BY <2>1, <2>2 DEF StreamInit
  <2>4. /\ usage \in [Attempts -> BOOLEAN] /\ failed \in [Attempts -> BOOLEAN]
        /\ early \in [Attempts -> BOOLEAN] /\ bill \in [Attempts -> {"none", "zero", "real"}]
    BY DEF StreamInit
  <2>5. /\ provider \in Providers /\ client \in {"ts", "python", "playground"}
        /\ sdk \in {"send", "wait", "read", "returned", "thrown"} /\ attempt \in 0..MaxAttempts
    BY <1>0 DEF StreamInit
  <2>6. stored \in BOOLEAN /\ sawDone \in BOOLEAN
    BY Zenon DEF StreamInit
  <2> QED
    BY <2>1, <2>3, <2>4, <2>5, <2>6 DEF StreamTyped, P, H
<1>2. ASSUME NEW a \in Attempts PROVE GateInv(a)
  <2>1. /\ pc[a] = "none" /\ text[a] = <<>> /\ ~failed[a] /\ bill[a] = "none" /\ attempt = 0
        /\ down[a] = <<>> /\ a # attempt /\ Flight(a) = <<>> /\ Seen(a) = 0
    BY <1>0 DEF StreamInit, Flight, Seen, Attempts
  <2>2. Paired(Flight(a), <<>>) /\ <<>> \in Seq(Frames)
    BY <2>1 DEF Paired
  <2> DEFINE over == pc[a] = "ended" /\ Kept(failed[a], early[a], text[a], bill[a], keyed, stored)
  <2>3. Flow(a, try[a], Len(text[a]), Seen(a), <<>>, failed[a], over)
    <3>1. Len(text[a]) = 0
      BY <2>1
    <3> HIDE DEF over
    <3> QED
      BY <2>1, <3>1 DEF Flow
  <2>4. LineOK(provider, pc[a], pos[a], Len(text[a]), usage[a], early[a], failed[a])
    BY <2>1 DEF LineOK
  <2>5. \A k \in 1..Len(text[a]) : text[a][k] = <<a, try[a], k>>
    BY <2>1
  <2>6. \E fs \in Seq(Frames) :
           Paired(Flight(a), fs) /\ Flow(a, try[a], Len(text[a]), Seen(a), fs, failed[a], over)
    BY <2>2, <2>3, Zenon
  <2> QED
    BY <2>1, <2>4, <2>5, <2>6 DEF GateInv, Gate
<1>3. ReadInv
  <2>1. /\ got = <<>> /\ buffer = <<>> /\ ~sawDone /\ attempt = 0 /\ sdk = "send" /\ attempt < MaxAttempts
    BY <1>0 DEF StreamInit
  <2> QED
    BY <2>1 DEF ReadInv
<1> QED
  BY <1>1, <1>2, <1>3 DEF StreamInv

LEMMA StreamNextInv == StreamInv /\ [StreamNext]_streamVars => StreamInv'
<1> SUFFICES ASSUME StreamInv, [StreamNext]_streamVars PROVE StreamInv'
  OBVIOUS
<1>1. ASSUME NEW a \in Attempts, Handler(a) PROVE StreamInv'
  BY <1>1, HandlerKeeps
<1>2. CASE Send \/ PlaygroundSend
  BY <1>2, SendStep
<1>3. CASE Headers \/ Timeout \/ PythonTimeout \/ Abort \/ ReadEnd \/ PlaygroundHeaders \/ PlaygroundFails
  <2>1. UNCHANGED <<gatewayVars, pc, down, attempt, buffer, got, sawDone>>
    BY <1>3 DEF Headers, Timeout, PythonTimeout, Abort, ReadEnd, PlaygroundHeaders, PlaygroundFails
  <2>2. sdk \in {"wait", "read"} \/ sdk' = "thrown"
    BY <1>3 DEF Headers, Timeout, PythonTimeout, Abort, ReadEnd, PlaygroundHeaders, PlaygroundFails
  <2>3. sdk' \in {"read", "returned", "thrown"}
           \/ (sdk = "wait" /\ sdk' = "send" /\ attempt < MaxAttempts /\ client # "playground")
    <3>1. TryAgain => sdk' = "thrown" \/ (sdk' = "send" /\ attempt < MaxAttempts)
      BY DEF TryAgain
    <3>2. sdk' \in {"read", "returned", "thrown"} \/ (sdk = "wait" /\ TryAgain /\ client # "playground")
      <4>1. CASE Headers
        <5>1. CASE answer[attempt] \in {"stream", "json"}
          BY <4>1, <5>1 DEF Headers
        <5>2. CASE answer[attempt] \in {"limited", "error"}
          BY <4>1, <5>2 DEF Headers
        <5>3. CASE answer[attempt] \notin {"stream", "json", "limited", "error"}
          BY <4>1, <5>3 DEF Headers
        <5> QED
          BY <5>1, <5>2, <5>3
      <4>2. CASE Timeout \/ PythonTimeout
        BY <4>2 DEF Timeout, PythonTimeout
      <4>3. CASE Abort \/ ReadEnd \/ PlaygroundHeaders \/ PlaygroundFails
        BY <4>3 DEF Abort, ReadEnd, PlaygroundHeaders, PlaygroundFails
      <4> QED
        BY <1>3, <4>1, <4>2, <4>3
    <3>3. sdk' = "thrown" => sdk' \in {"read", "returned", "thrown"}
      OBVIOUS
    <3> QED
      BY <3>1, <3>2, <3>3, Zenon
  <2> QED
    BY <2>1, <2>2, <2>3, ClientStep
<1>4. ASSUME NEW n \in 1..2 * Pieces + 6, Read(n) \/ PlaygroundRead(n) PROVE StreamInv'
  BY <1>4, HalvesRead
<1>5. CASE PythonRead
  BY <1>5, PythonReadStep
<1>6. CASE UNCHANGED streamVars
  <2>1. /\ UNCHANGED <<gatewayVars, pc, down, attempt, buffer, got, sawDone>> /\ sdk' = sdk
    BY <1>6 DEF streamVars, gatewayVars, callVars, routeVars, sdkVars
  <2>2. StreamTyped'
    BY <2>1 DEF StreamInv, StreamTyped, gatewayVars, callVars, routeVars
  <2>3. ASSUME NEW b \in Attempts PROVE GateInv(b)'
    <3>1. GateInv(b)
      BY DEF StreamInv
    <3> QED
      BY <2>1, <3>1 DEF GateInv, Flight, Seen, gatewayVars, callVars, routeVars
  <2>4. ReadInv'
    <3>1. ReadInv
      BY DEF StreamInv
    <3> QED
      BY <2>1, <3>1 DEF ReadInv, Flight, gatewayVars, callVars, routeVars
  <2> QED
    BY <2>2, <2>3, <2>4 DEF StreamInv
<1> QED
  BY <1>1, <1>2, <1>3, <1>4, <1>5, <1>6 DEF StreamNext

\* The invariant of the stream: what the handler of each attempt has in hand, what is on
\* its way to the client, in whole frames, and what the client has read.
THEOREM StreamInvariant == StreamSpec => []StreamInv
BY StreamInitInv, StreamNextInv, PTL DEF StreamSpec

\* A stream that the provider ran to its last line is billed with the provider's usage
\* (routes.ts, the streaming branch, with the chunk.usage of each adapter), but OpenAI's.
THEOREM StreamUsage == StreamSpec => []UsageBilled
<1>1. StreamInv => UsageBilled
  BY DEF StreamInv, GateInv, Gate, UsageBilled
<1> QED
  BY <1>1, StreamInvariant, PTL

\* What the client has yielded or shown is a prefix of one try's text, however reads
\* split the frames and whatever the gateway and the SDK tried again (client.ts
\* chat.stream, client.py stream, the playground's reader).
THEOREM StreamDelivery == StreamSpec => []DeliveredIsPrefix
<1>1. StreamInv => DeliveredIsPrefix
  <2> SUFFICES ASSUME StreamInv, NEW i \in 1..Len(got)
               PROVE  \/ got[i] = <<attempt, try[attempt], i>>
                      \/ client = "playground" /\ failed[attempt] /\ i = Len(got)
    BY DEF DeliveredIsPrefix
  <2>0. ReadInv /\ StreamTyped
    BY DEF StreamInv
  <2>1. attempt # 0
    BY <2>0 DEF ReadInv
  <2>2. attempt \in Attempts
    BY <2>0, <2>1, StreamAssumption DEF StreamTyped, Attempts, StreamAssumption
  <2>3. Len(got) \in Nat /\ Len(text[attempt]) \in Nat
    BY <2>0, <2>2 DEF StreamTyped
  <2>4. i <= Len(text[attempt]) => got[i] = <<attempt, try[attempt], i>>
    BY <2>0, <2>1 DEF ReadInv
  <2>5. \/ Len(got) <= Len(text[attempt])
        \/ client = "playground" /\ failed[attempt] /\ Len(got) = Len(text[attempt]) + 1
    BY <2>0, <2>1 DEF ReadInv
  <2>6. i <= Len(text[attempt]) \/ (client = "playground" /\ failed[attempt] /\ i = Len(got))
    BY <2>3, <2>5
  <2> QED
    BY <2>4, <2>6
<1> QED
  BY <1>1, StreamInvariant, PTL

\* [DONE] of a stream that the provider ran to its end comes after the whole answer and
\* after the bookkeeping: the request is billed, and stored under its key (routes.ts, the
\* writes after the loop and before the last writeSSE).
THEOREM StreamDone == StreamSpec => []DoneMeansKept
<1>1. StreamInv => DoneMeansKept
  <2> SUFFICES ASSUME StreamInv, sawDone, ~failed[attempt], ~early[attempt]
               PROVE  /\ got = [i \in 1..Pieces |-> <<attempt, try[attempt], i>>]
                      /\ bill[attempt] # "none" /\ (keyed => stored)
    BY DEF DoneMeansKept
  <2> DEFINE a == attempt
             m == Len(text[a])
             n == Len(got)
  <2>0. ReadInv /\ StreamTyped
    BY DEF StreamInv
  <2>1. a # 0
    BY <2>0 DEF ReadInv
  <2>2. a \in Attempts
    BY <2>0, <2>1, StreamAssumption DEF StreamTyped, Attempts, StreamAssumption
  <2>3. n \in Nat /\ m \in Nat /\ got \in Seq(PieceSet) /\ text[a] \in Seq(PieceSet)
    BY <2>0, <2>2 DEF StreamTyped
  <2>4. /\ Flight(a) = <<>> /\ Kept(failed[a], early[a], text[a], bill[a], keyed, stored)
        /\ n <= m /\ \A i \in 1..n : i <= m => got[i] = <<a, try[a], i>>
    BY <2>0, <2>1 DEF ReadInv
  <2>5. GateInv(a)
    BY <2>2 DEF StreamInv
  <2>6. \A i \in 1..m : text[a][i] = <<a, try[a], i>>
    BY <2>5 DEF GateInv, Gate
  <2>7. m <= n
    <3>1. PICK fs \in Seq(Frames) :
              Paired(<<>>, fs) /\ Len(fs) >= m - n
      <4>1. Seen(a) = n
        BY DEF Seen
      <4> QED
        BY <2>4, <2>5, <4>1 DEF GateInv, Gate, Flow
    <3> DEFINE k == Len(fs)
    <3>2. k \in Nat /\ 2 * k = 0 /\ k >= m - n
      <4>1. Len(<<>>) = 0
        OBVIOUS
      <4> QED
        BY <3>1, <4>1 DEF Paired
    <3> HIDE DEF k, m, n
    <3>3. k = 0
      BY <3>2
    <3> QED
      BY <2>3, <3>2, <3>3
  <2>8. n = m
    <3>1. n <= m /\ m <= n /\ n \in Nat /\ m \in Nat
      BY <2>3, <2>4, <2>7
    <3> HIDE DEF n, m
    <3> QED
      BY <3>1
  <2>9. ASSUME NEW i \in 1..n PROVE got[i] = text[a][i]
    <3>1. i <= m
      <4> HIDE DEF n, m
      <4> QED
        BY <2>3, <2>8
    <3>2. text[a][i] = <<a, try[a], i>>
      BY <2>6, <2>8
    <3> QED
      BY <2>4, <3>1, <3>2
  <2>10. m = Pieces /\ bill[a] # "none" /\ (keyed => stored)
    BY <2>4 DEF Kept
  <2>11. \A i \in 1..Pieces : got[i] = <<a, try[a], i>>
    BY <2>6, <2>8, <2>9, <2>10
  <2>12. got = [i \in 1..Pieces |-> <<a, try[a], i>>]
    <3>1. got \in Seq(PieceSet) /\ Len(got) = Pieces
      BY <2>3, <2>8, <2>10
    <3>2. DOMAIN got = 1..Pieces /\ got = [i \in DOMAIN got |-> got[i]]
      BY <3>1
    <3> HIDE DEF a
    <3> QED
      BY <2>11, <3>2
  <2> QED
    BY <2>10, <2>12
<1> QED
  BY <1>1, StreamInvariant, PTL
=============================================================================

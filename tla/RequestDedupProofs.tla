------------------------- MODULE RequestDedupProofs -------------------------
(***************************************************************************)
(* What a coalesced request may return and throw, for any number of        *)
(* requests and under every failure of RequestDedup.  The invariant says   *)
(* that everything on its way to a follower (the key, a message, the reply *)
(* of a recheck) is the payload of an fn that resolved, and that a request *)
(* which can still end otherwise than through its own fn has not run it.   *)
(* A second invariant adds what holds while nothing fails: one request at  *)
(* most ever leads, and no follower waits for a message that will not come.*)
(***************************************************************************)
EXTENDS RequestDedup, SequenceTheorems, TLAPS

\* The payloads that exist, and the inboxes that hold nothing else.
Real == {r \in Requests : ran[r] = "ok"}

Mail == Seq(Real \cup {Failed})

PayloadsReal ==
    /\ key \in Real \cup {Absent, Processing}
    /\ seen \in [Requests -> Real \cup {Absent, Processing}]
    /\ result \in [Requests -> Real \cup {Absent, Failed, Broken}]
    /\ inbox \in [Requests -> Mail]

\* Where a request has not run its fn.
Before == {"start", "leading", "following", "subscribing", "rechecking", "rechecked",
           "waiting", "fallback"}

RanInv ==
    \A r \in Requests :
        /\ pc[r] \in Before => ran[r] = "no"
        /\ pc[r] \in {"storing", "publishing"} => ran[r] = "ok"
        /\ pc[r] \in {"releasing", "announcing"} => ran[r] # "no"
        /\ result[r] = Failed => ran[r] # "no"

Labels == Before \cup {"storing", "publishing", "releasing", "announcing", "done", "crashed"}

Typed ==
    /\ pc \in [Requests -> Labels]
    /\ subscribed \subseteq Requests
    /\ ran \in [Requests -> {"no", "ok", "failed"}]

DedupInv == Typed /\ PayloadsReal /\ RanInv

-----------------------------------------------------------------------------

\* The invariant gives the types and the two properties.
LEMMA DedupInvImplies == DedupInv => TypeOK /\ ReturnedIsReal /\ ErrorIsOwn
<1> SUFFICES ASSUME DedupInv PROVE TypeOK /\ ReturnedIsReal /\ ErrorIsOwn
  OBVIOUS
<1> USE DedupAssumption DEF DedupAssumption, DedupInv
<1>1. \A r \in Requests : inbox[r] \in Seq(Requests \cup {Failed})
  <2> TAKE r \in Requests
  <2>1. inbox[r] \in Seq(Real \cup {Failed})
    BY DEF PayloadsReal, Mail
  <2>2. Real \cup {Failed} \subseteq Requests \cup {Failed}
    BY DEF Real
  <2> QED
    BY <2>1, <2>2, SeqMonotonic
<1>2. TypeOK
  BY <1>1 DEF TypeOK, Typed, PayloadsReal, Real, KeyValues, Labels, Before
<1>3. ReturnedIsReal
  BY DEF ReturnedIsReal, PayloadsReal, Real
<1>4. ErrorIsOwn
  BY DEF ErrorIsOwn, RanInv
<1> QED
  BY <1>2, <1>3, <1>4

\* Nothing has been published at the start.
LEMMA DedupInit == Init => DedupInv
<1> SUFFICES ASSUME Init PROVE DedupInv
  OBVIOUS
<1>1. <<>> \in Mail
  BY EmptySeq DEF Mail
<1>2. Typed
  BY DEF Init, Typed, Labels, Before
<1>3. PayloadsReal
  BY <1>1 DEF Init, PayloadsReal
<1>4. RanInv
  BY DedupAssumption DEF DedupAssumption, Init, RanInv, Before
<1> QED
  BY <1>2, <1>3, <1>4 DEF DedupInv

\* A payload stays a payload: no step changes how an fn has ended.
LEMMA RealGrows ==
    ASSUME DedupInv, Next
    PROVE  Real \subseteq Real' /\ Mail \subseteq Mail'
<1>1. \A r \in Requests : ran[r] = "ok" => ran'[r] = "ok"
  <2> USE DEF DedupInv, Typed, RanInv, Before
  <2>1. CASE \E r \in Requests : LeaderOk(r) \/ LeaderFail(r)
    BY <2>1 DEF LeaderOk, LeaderFail
  <2>2. CASE \E r \in Requests : Fallback(r)
    BY <2>2 DEF Fallback
  <2>3. CASE UNCHANGED ran
    BY <2>3
  <2> QED
    BY <2>1, <2>2, <2>3
       DEF Next, CalmStep, Disturb, LateTimeout, Lead, Follow, RedisError, Claim, Store, Publish,
           StoreError, PublishError, Release, Announce, ReleaseError, CommandError, Get, Subscribe, Recheck,
           RecheckReply, Drop, Deliver, GiveUp, Timeout, SubscribeError, Crash, Expire
<1>2. Real \subseteq Real'
  BY <1>1 DEF Real
<1>3. Mail \subseteq Mail'
  BY <1>2, SeqMonotonic DEF Mail
<1> QED
  BY <1>2, <1>3

\* Inboxes stay in Mail when they are emptied, read or sent something real.
LEMMA MailFacts ==
    /\ <<>> \in Mail
    /\ \A s \in Mail : s # <<>> => Head(s) \in Real \cup {Failed} /\ Tail(s) \in Mail
    /\ \A s \in Mail, m \in Real \cup {Failed} : Append(s, m) \in Mail
<1>1. <<>> \in Mail
  BY EmptySeq DEF Mail
<1>2. ASSUME NEW s \in Mail, s # <<>> PROVE Head(s) \in Real \cup {Failed} /\ Tail(s) \in Mail
  BY <1>2, HeadTailProperties DEF Mail
<1>3. ASSUME NEW s \in Mail, NEW m \in Real \cup {Failed} PROVE Append(s, m) \in Mail
  BY <1>3, AppendProperties DEF Mail
<1> QED
  BY <1>1, <1>2, <1>3

\* Every step keeps the invariant.
LEMMA DedupStep == DedupInv /\ [Next]_vars => DedupInv'
<1> SUFFICES ASSUME DedupInv, [Next]_vars PROVE DedupInv'
  OBVIOUS
<1>1. CASE UNCHANGED vars
  <2>1. Real' = Real /\ Mail' = Mail
    BY <1>1 DEF vars, dedupVars, Real, Mail
  <2> QED
    BY <1>1, <2>1 DEF vars, dedupVars, DedupInv, Typed, PayloadsReal, RanInv
<1>2. CASE Next
  <2> USE DedupAssumption DEF DedupAssumption
  <2>1. Real \subseteq Real' /\ Mail \subseteq Mail' /\ Real \subseteq Requests
    BY <1>2, RealGrows DEF Real
  <2>2. ASSUME NEW r \in Requests, Claim(r) PROVE DedupInv'
    <3>1. Typed'
      BY <2>2 DEF Claim, Goto, DedupInv, Typed, Labels, Before
    <3>2. PayloadsReal'
      BY <2>2, <2>1, MailFacts DEF Claim, Goto, DedupInv, Typed, PayloadsReal, RanInv, Real, Before
    <3>3. RanInv'
      BY <2>2 DEF Claim, Goto, DedupInv, Typed, PayloadsReal, RanInv, Before, Labels, Real
    <3> QED
      BY <3>1, <3>2, <3>3 DEF DedupInv
  <2>3. ASSUME NEW r \in Requests, LeaderOk(r) PROVE DedupInv'
    <3>1. Typed'
      BY <2>3 DEF LeaderOk, Goto, DedupInv, Typed, Labels, Before
    <3>2. PayloadsReal'
      BY <2>3, <2>1, MailFacts DEF LeaderOk, Goto, DedupInv, Typed, PayloadsReal, RanInv, Real,
             Before
    <3>3. RanInv'
      BY <2>3 DEF LeaderOk, Goto, DedupInv, Typed, PayloadsReal, RanInv, Before, Labels, Real
    <3> QED
      BY <3>1, <3>2, <3>3 DEF DedupInv
  <2>4. ASSUME NEW r \in Requests, LeaderFail(r) PROVE DedupInv'
    <3>1. Typed'
      BY <2>4 DEF LeaderFail, Goto, DedupInv, Typed, Labels, Before
    <3>2. PayloadsReal'
      BY <2>4, <2>1, MailFacts DEF LeaderFail, Goto, DedupInv, Typed, PayloadsReal, RanInv, Real,
             Before
    <3>3. RanInv'
      BY <2>4 DEF LeaderFail, Goto, DedupInv, Typed, PayloadsReal, RanInv, Before, Labels, Real
    <3> QED
      BY <3>1, <3>2, <3>3 DEF DedupInv
  <2>5. ASSUME NEW r \in Requests, Store(r) PROVE DedupInv'
    <3>1. Typed'
      BY <2>5 DEF Store, Goto, DedupInv, Typed, Labels, Before
    <3>2. PayloadsReal'
      BY <2>5, <2>1, MailFacts DEF Store, Goto, DedupInv, Typed, PayloadsReal, RanInv, Real, Before
    <3>3. RanInv'
      BY <2>5 DEF Store, Goto, DedupInv, Typed, PayloadsReal, RanInv, Before, Labels, Real
    <3> QED
      BY <3>1, <3>2, <3>3 DEF DedupInv
  <2>6. ASSUME NEW r \in Requests, Publish(r) PROVE DedupInv'
    <3>1. Typed'
      BY <2>6 DEF Publish, Goto, Send, DedupInv, Typed, Labels, Before
    <3>2. PayloadsReal'
      BY <2>6, <2>1, MailFacts DEF Publish, Goto, Send, DedupInv, Typed, PayloadsReal, RanInv,
             Real, Before
    <3>3. RanInv'
      BY <2>6 DEF Publish, Goto, Send, DedupInv, Typed, PayloadsReal, RanInv, Before, Labels, Real
    <3> QED
      BY <3>1, <3>2, <3>3 DEF DedupInv
  <2>7. ASSUME NEW r \in Requests, StoreError(r) PROVE DedupInv'
    <3>1. Typed'
      BY <2>7 DEF StoreError, Goto, DedupInv, Typed, Labels, Before
    <3>2. PayloadsReal'
      BY <2>7, <2>1, MailFacts DEF StoreError, Goto, DedupInv, Typed, PayloadsReal, RanInv, Real,
             Before
    <3>3. RanInv'
      BY <2>7 DEF StoreError, Goto, DedupInv, Typed, PayloadsReal, RanInv, Before, Labels, Real
    <3> QED
      BY <3>1, <3>2, <3>3 DEF DedupInv
  <2>8. ASSUME NEW r \in Requests, PublishError(r) PROVE DedupInv'
    <3>1. Typed'
      BY <2>8 DEF PublishError, Goto, Send, DedupInv, Typed, Labels, Before
    <3>2. PayloadsReal'
      <4>1. r \in Real
        BY <2>8 DEF PublishError, DedupInv, RanInv, Real
      <4>2. inbox' \in [Requests -> Mail]
        <5>1. CASE Send(r)
          BY <5>1, <4>1, MailFacts DEF Send, DedupInv, PayloadsReal
        <5>2. CASE UNCHANGED inbox
          BY <5>2 DEF DedupInv, PayloadsReal
        <5> QED
          BY <2>8, <5>1, <5>2 DEF PublishError
      <4>3. UNCHANGED <<key, seen, result>>
        BY <2>8 DEF PublishError
      <4> QED
        BY <2>1, <4>2, <4>3 DEF DedupInv, PayloadsReal
    <3>3. RanInv'
      BY <2>8 DEF PublishError, Goto, Send, DedupInv, Typed, PayloadsReal, RanInv, Before, Labels,
             Real
    <3> QED
      BY <3>1, <3>2, <3>3 DEF DedupInv
  <2>9. ASSUME NEW r \in Requests, Release(r) PROVE DedupInv'
    <3>1. Typed'
      BY <2>9 DEF Release, Goto, DedupInv, Typed, Labels, Before
    <3>2. PayloadsReal'
      BY <2>9, <2>1, MailFacts DEF Release, Goto, DedupInv, Typed, PayloadsReal, RanInv, Real,
             Before
    <3>3. RanInv'
      BY <2>9 DEF Release, Goto, DedupInv, Typed, PayloadsReal, RanInv, Before, Labels, Real
    <3> QED
      BY <3>1, <3>2, <3>3 DEF DedupInv
  <2>10. ASSUME NEW r \in Requests, Announce(r) PROVE DedupInv'
    <3>1. Typed'
      BY <2>10 DEF Announce, Goto, Send, DedupInv, Typed, Labels, Before
    <3>2. PayloadsReal'
      BY <2>10, <2>1, MailFacts
         DEF Announce, Goto, Send, DedupInv, Typed, PayloadsReal, RanInv, Real, Before
    <3>3. RanInv'
      BY <2>10 DEF Announce, Goto, Send, DedupInv, Typed, PayloadsReal, RanInv, Before, Labels, Real
    <3> QED
      BY <3>1, <3>2, <3>3 DEF DedupInv
  <2>11. ASSUME NEW r \in Requests, ReleaseError(r) PROVE DedupInv'
    <3>1. Typed'
      BY <2>11 DEF ReleaseError, Goto, DedupInv, Typed, Labels, Before
    <3>2. PayloadsReal'
      BY <2>11, <2>1, MailFacts
         DEF ReleaseError, Goto, DedupInv, Typed, PayloadsReal, RanInv, Real, Before
    <3>3. RanInv'
      BY <2>11 DEF ReleaseError, Goto, DedupInv, Typed, PayloadsReal, RanInv, Before, Labels, Real
    <3> QED
      BY <3>1, <3>2, <3>3 DEF DedupInv
  <2>12. ASSUME NEW r \in Requests, CommandError(r) PROVE DedupInv'
    <3>1. Typed'
      BY <2>12 DEF CommandError, Goto, Return, DedupInv, Typed, Labels, Before
    <3>2. PayloadsReal'
      BY <2>12, <2>1, MailFacts
         DEF CommandError, Goto, Return, DedupInv, Typed, PayloadsReal, RanInv, Real, Before
    <3>3. RanInv'
      BY <2>12 DEF CommandError, Goto, Return, DedupInv, Typed, PayloadsReal, RanInv, Before,
             Labels, Real
    <3> QED
      BY <3>1, <3>2, <3>3 DEF DedupInv
  <2>13. ASSUME NEW r \in Requests, Get(r) PROVE DedupInv'
    <3>1. Typed'
      BY <2>13 DEF Get, Goto, Return, DedupInv, Typed, Labels, Before
    <3>2. PayloadsReal'
      BY <2>13, <2>1, MailFacts
         DEF Get, Goto, Return, DedupInv, Typed, PayloadsReal, RanInv, Real, Before
    <3>3. RanInv'
      BY <2>13 DEF Get, Goto, Return, DedupInv, Typed, PayloadsReal, RanInv, Before, Labels, Real
    <3> QED
      BY <3>1, <3>2, <3>3 DEF DedupInv
  <2>14. ASSUME NEW r \in Requests, Subscribe(r) PROVE DedupInv'
    <3>1. Typed'
      BY <2>14 DEF Subscribe, Goto, DedupInv, Typed, Labels, Before
    <3>2. PayloadsReal'
      BY <2>14, <2>1, MailFacts
         DEF Subscribe, Goto, DedupInv, Typed, PayloadsReal, RanInv, Real, Before
    <3>3. RanInv'
      BY <2>14 DEF Subscribe, Goto, DedupInv, Typed, PayloadsReal, RanInv, Before, Labels, Real
    <3> QED
      BY <3>1, <3>2, <3>3 DEF DedupInv
  <2>15. ASSUME NEW r \in Requests, Recheck(r) PROVE DedupInv'
    <3>1. Typed'
      BY <2>15 DEF Recheck, Goto, DedupInv, Typed, Labels, Before
    <3>2. PayloadsReal'
      BY <2>15, <2>1, MailFacts
         DEF Recheck, Goto, DedupInv, Typed, PayloadsReal, RanInv, Real, Before
    <3>3. RanInv'
      BY <2>15 DEF Recheck, Goto, DedupInv, Typed, PayloadsReal, RanInv, Before, Labels, Real
    <3> QED
      BY <3>1, <3>2, <3>3 DEF DedupInv
  <2>16. ASSUME NEW r \in Requests, RecheckReply(r) PROVE DedupInv'
    <3>1. Typed'
      BY <2>16 DEF RecheckReply, Goto, Return, DedupInv, Typed, Labels, Before
    <3>2. PayloadsReal'
      <4>1. seen[r] \in Requests => seen[r] \in Real
        BY DEF DedupInv, PayloadsReal
      <4>2. result' \in [Requests -> Real \cup {Absent, Failed, Broken}]
        BY <2>16, <4>1 DEF RecheckReply, Return, DedupInv, PayloadsReal
      <4>3. inbox' \in [Requests -> Mail]
        BY <2>16, MailFacts DEF RecheckReply, Return, DedupInv, PayloadsReal
      <4>4. seen' \in [Requests -> Real \cup {Absent, Processing}]
        BY <2>16 DEF RecheckReply, DedupInv, PayloadsReal
      <4>5. key' \in Real \cup {Absent, Processing}
        BY <2>16 DEF RecheckReply, DedupInv, PayloadsReal
      <4> QED
        BY <2>1, <4>2, <4>3, <4>4, <4>5 DEF PayloadsReal
    <3>3. RanInv'
      BY <2>16 DEF RecheckReply, Goto, Return, DedupInv, Typed, PayloadsReal, RanInv, Before,
             Labels, Real
    <3> QED
      BY <3>1, <3>2, <3>3 DEF DedupInv
  <2>17. ASSUME NEW r \in Requests, Drop(r) PROVE DedupInv'
    <3>1. Typed'
      BY <2>17 DEF Drop, DedupInv, Typed, Labels, Before
    <3>2. PayloadsReal'
      BY <2>17, <2>1, MailFacts DEF Drop, DedupInv, Typed, PayloadsReal, RanInv, Real, Before
    <3>3. RanInv'
      BY <2>17 DEF Drop, DedupInv, Typed, PayloadsReal, RanInv, Before, Labels, Real
    <3> QED
      BY <3>1, <3>2, <3>3 DEF DedupInv
  <2>18. ASSUME NEW r \in Requests, Deliver(r) PROVE DedupInv'
    <3>1. Typed'
      BY <2>18 DEF Deliver, Goto, Return, DedupInv, Typed, Labels, Before
    <3>2. PayloadsReal'
      <4>1. Head(inbox[r]) \in Real \cup {Failed}
        BY <2>18, MailFacts DEF Deliver, DedupInv, PayloadsReal
      <4>2. result' \in [Requests -> Real \cup {Absent, Failed, Broken}]
        BY <2>18, <4>1 DEF Deliver, Return, DedupInv, PayloadsReal
      <4>3. inbox' \in [Requests -> Mail]
        BY <2>18, MailFacts DEF Deliver, Return, DedupInv, PayloadsReal
      <4>4. UNCHANGED <<key, seen>>
        BY <2>18 DEF Deliver
      <4> QED
        BY <2>1, <4>2, <4>3, <4>4 DEF DedupInv, PayloadsReal
    <3>3. RanInv'
      BY <2>18 DEF Deliver, Goto, Return, DedupInv, Typed, PayloadsReal, RanInv, Before, Labels,
             Real
    <3> QED
      BY <3>1, <3>2, <3>3 DEF DedupInv
  <2>19. ASSUME NEW r \in Requests, Timeout(r) PROVE DedupInv'
    <3>1. Typed'
      BY <2>19 DEF Timeout, GiveUp, Goto, DedupInv, Typed, Labels, Before
    <3>2. PayloadsReal'
      BY <2>19, <2>1, MailFacts
         DEF Timeout, GiveUp, Goto, DedupInv, Typed, PayloadsReal, RanInv, Real, Before
    <3>3. RanInv'
      BY <2>19 DEF Timeout, GiveUp, Goto, DedupInv, Typed, PayloadsReal, RanInv, Before, Labels,
             Real
    <3> QED
      BY <3>1, <3>2, <3>3 DEF DedupInv
  <2>20. ASSUME NEW r \in Requests, SubscribeError(r) PROVE DedupInv'
    <3>1. Typed'
      BY <2>20 DEF SubscribeError, GiveUp, Goto, DedupInv, Typed, Labels, Before
    <3>2. PayloadsReal'
      BY <2>20, <2>1, MailFacts
         DEF SubscribeError, GiveUp, Goto, DedupInv, Typed, PayloadsReal, RanInv, Real, Before
    <3>3. RanInv'
      BY <2>20 DEF SubscribeError, GiveUp, Goto, DedupInv, Typed, PayloadsReal, RanInv, Before,
             Labels, Real
    <3> QED
      BY <3>1, <3>2, <3>3 DEF DedupInv
  <2>21. ASSUME NEW r \in Requests, Fallback(r) PROVE DedupInv'
    <3>1. Typed'
      BY <2>21 DEF Fallback, Goto, Return, DedupInv, Typed, Labels, Before
    <3>2. PayloadsReal'
      <4>1. ran'[r] = "ok" => r \in Real'
        BY <2>21 DEF Real
      <4>2. result' \in [Requests -> Real' \cup {Absent, Failed, Broken}]
        BY <2>21, <2>1, <4>1 DEF Fallback, Return, DedupInv, Typed, PayloadsReal
      <4>3. inbox' \in [Requests -> Mail]
        BY <2>21, MailFacts DEF Fallback, Return, DedupInv, PayloadsReal
      <4>4. UNCHANGED <<key, seen>>
        BY <2>21 DEF Fallback
      <4> QED
        BY <2>1, <4>2, <4>3, <4>4 DEF DedupInv, PayloadsReal
    <3>3. RanInv'
      BY <2>21 DEF Fallback, Goto, Return, DedupInv, Typed, PayloadsReal, RanInv, Before, Labels,
             Real
    <3> QED
      BY <3>1, <3>2, <3>3 DEF DedupInv
  <2>22. ASSUME NEW r \in Requests, Crash(r) PROVE DedupInv'
    <3>1. Typed'
      BY <2>22 DEF Crash, Goto, DedupInv, Typed, Labels, Before
    <3>2. PayloadsReal'
      BY <2>22, <2>1, MailFacts DEF Crash, Goto, DedupInv, Typed, PayloadsReal, RanInv, Real, Before
    <3>3. RanInv'
      BY <2>22 DEF Crash, Goto, DedupInv, Typed, PayloadsReal, RanInv, Before, Labels, Real
    <3> QED
      BY <3>1, <3>2, <3>3 DEF DedupInv
  <2>23. ASSUME Expire PROVE DedupInv'
    BY <2>23, <2>1 DEF Expire, DedupInv, Typed, PayloadsReal, RanInv
  <2> QED
    BY <1>2, <2>2, <2>3, <2>4, <2>5, <2>6, <2>7, <2>8, <2>9, <2>10, <2>11, <2>12, <2>13, <2>14,
           <2>15, <2>16, <2>17, <2>18, <2>19, <2>20, <2>21, <2>22, <2>23
       DEF Next, CalmStep, Disturb, LateTimeout, Lead, Follow, RedisError
<1> QED
  BY <1>1, <1>2

\* Whatever fails, a request returns only the payload of an fn that resolved, and
\* throws only its own error: withRequestDedup for every number of requests.
THEOREM DedupSafety == Spec => [](TypeOK /\ ReturnedIsReal /\ ErrorIsOwn)
<1>1. Init => DedupInv
  BY DedupInit
<1>2. DedupInv /\ [Next]_vars => DedupInv'
  BY DedupStep
<1>3. DedupInv => TypeOK /\ ReturnedIsReal /\ ErrorIsOwn
  BY DedupInvImplies
<1> QED
  BY <1>1, <1>2, <1>3, PTL DEF Spec

-----------------------------------------------------------------------------
(* One execution, when nothing fails *)

\* Request r leads, or its fn has ended.
Led(r) == pc[r] \in {"leading", "storing", "publishing"} \/ ran[r] # "no"

\* Request r has found no result in its recheck and counts on a message.
Counting(r) == pc[r] = "waiting" \/ (pc[r] = "rechecked" /\ seen[r] \notin Requests)

\* As long as nothing fails: one request at most has ever led, the key says that
\* it is at work until it holds its payload, and a follower that counts on a message
\* has it in its inbox or is subscribed while the leader is still at work.
CalmInv ==
    calm =>
        /\ \A r \in Requests : pc[r] \notin {"releasing", "announcing", "fallback", "crashed"}
        /\ key = Absent => \A r \in Requests : pc[r] = "start"
        /\ key = Processing => \E r \in Requests : pc[r] \in {"leading", "storing"}
        /\ \A r, s \in Requests : Led(r) /\ Led(s) => r = s
        /\ inbox \in [Requests -> Seq(Requests)]
        /\ \A r \in Requests : pc[r] \in {"rechecking", "rechecked", "waiting"} => r \in subscribed
        /\ \A r \in Requests : Counting(r) => LeaderActive \/ inbox[r] # <<>>

OnceInv == DedupInv /\ CalmInv

\* Nobody leads at the start.
LEMMA OnceStart == Init => OnceInv
<1> SUFFICES ASSUME Init PROVE OnceInv
  OBVIOUS
<1>1. <<>> \in Seq(Requests)
  BY EmptySeq
<1>2. CalmInv
  BY <1>1, DedupAssumption DEF DedupAssumption, Init, CalmInv, Led, Counting
<1> QED
  BY <1>2, DedupInit DEF OnceInv

\* The steps a request takes when nothing fails: it gets as far as a payload, its
\* own or one it was sent, and never to the fallback.
LEMMA CalmFacts ==
    ASSUME OnceInv, calm, NEW r \in Requests, CalmStep(r)
    PROVE  /\ \/ Claim(r) \/ LeaderOk(r) \/ Store(r) \/ Publish(r) \/ Get(r) \/ Subscribe(r)
              \/ Recheck(r) \/ RecheckReply(r) \/ Deliver(r)
           /\ Deliver(r) => Return(r, Head(inbox[r]))
<1>1. pc[r] \notin {"releasing", "announcing", "fallback", "crashed"}
  BY DEF OnceInv, CalmInv
<1>2. ~ (Release(r) \/ Announce(r) \/ Fallback(r))
  BY <1>1 DEF Release, Announce, Fallback
<1>3. ~ LateTimeout(r)
  BY DEF LateTimeout, Timeout, GiveUp, OnceInv, CalmInv, Counting
<1>4. ASSUME Deliver(r) PROVE Return(r, Head(inbox[r]))
  <2>1. inbox[r] \in Seq(Requests) /\ inbox[r] # <<>>
    BY <1>4 DEF Deliver, OnceInv, CalmInv
  <2>2. Head(inbox[r]) \in Requests
    BY <2>1, HeadTailProperties
  <2>3. Head(inbox[r]) # Failed
    BY <2>2, DedupAssumption DEF DedupAssumption
  <2> QED
    BY <1>4, <2>3 DEF Deliver
<1> QED
  BY <1>2, <1>3, <1>4 DEF CalmStep, Lead, Follow

\* A step that changes neither the key nor who has led, makes nobody lead or stop
\* leading, and takes a message only from a request that no longer counts on one.
LEMMA FollowerKeeps ==
    ASSUME OnceInv, calm, NEW r \in Requests,
           pc[r] \in {"following", "subscribing", "rechecking", "rechecked", "waiting"},
           UNCHANGED <<key, ran>>,
           pc'[r] \in {"subscribing", "rechecking", "rechecked", "waiting", "done"},
           \A s \in Requests \ {r} :
               /\ pc'[s] = pc[s] /\ inbox'[s] = inbox[s] /\ seen'[s] = seen[s]
               /\ s \in subscribed => s \in subscribed',
           inbox' \in [Requests -> Seq(Requests)],
           pc'[r] \in {"rechecking", "rechecked", "waiting"} => r \in subscribed',
           Counting(r)' => LeaderActive \/ inbox'[r] # <<>>
    PROVE  CalmInv'
<1>1. \A s \in Requests : Led(s)' <=> Led(s)
  BY DEF Led
<1>2. LeaderActive => LeaderActive'
  BY DEF LeaderActive
<1>3. key # Absent
  BY DEF OnceInv, CalmInv
<1>4. key' = Processing => \E s \in Requests : pc'[s] \in {"leading", "storing"}
  BY DEF OnceInv, CalmInv
<1>5. ASSUME NEW s \in Requests, Counting(s)' PROVE LeaderActive' \/ inbox'[s] # <<>>
  <2>1. CASE s = r
    BY <1>2, <1>5, <2>1
  <2>2. CASE s # r
    <3>1. Counting(s) /\ inbox'[s] = inbox[s]
      BY <1>5, <2>2 DEF Counting
    <3> QED
      BY <1>2, <3>1 DEF OnceInv, CalmInv
  <2> QED
    BY <2>1, <2>2
<1>6. \A s \in Requests : pc'[s] \notin {"releasing", "announcing", "fallback", "crashed"}
  BY DEF OnceInv, CalmInv
<1>7. \A s \in Requests : pc'[s] \in {"rechecking", "rechecked", "waiting"} => s \in subscribed'
  BY DEF OnceInv, CalmInv
<1>8. \A s, t \in Requests : Led(s)' /\ Led(t)' => s = t
  BY <1>1 DEF OnceInv, CalmInv
<1> QED
  BY <1>3, <1>4, <1>5, <1>6, <1>7, <1>8 DEF CalmInv

\* The payload a follower returns ends it and nothing else.
LEMMA ReturnKeeps ==
    ASSUME OnceInv, calm, NEW r \in Requests, NEW v, Return(r, v),
           pc[r] \in {"following", "rechecked", "waiting"}, UNCHANGED <<key, ran>>,
           \A s \in Requests \ {r} : seen'[s] = seen[s]
    PROVE  CalmInv'
<1>1. /\ pc' = [pc EXCEPT ![r] = "done"] /\ inbox' = [inbox EXCEPT ![r] = <<>>]
      /\ subscribed' = subscribed \ {r}
  BY DEF Return, Goto
<1>2. /\ pc'[r] = "done" /\ ~ Counting(r)'
      /\ \A s \in Requests \ {r} : pc'[s] = pc[s] /\ inbox'[s] = inbox[s]
  BY <1>1 DEF OnceInv, CalmInv, DedupInv, Typed, Counting
<1>3. inbox' \in [Requests -> Seq(Requests)]
  BY <1>1, EmptySeq DEF OnceInv, CalmInv
<1> QED
  BY <1>1, <1>2, <1>3, FollowerKeeps

\* The first SET NX makes the one leader, every later one a follower.
LEMMA ClaimKeeps == ASSUME OnceInv, calm, NEW r \in Requests, Claim(r) PROVE CalmInv'
<1>1. pc[r] = "start" /\ UNCHANGED <<inbox, subscribed, seen, ran, result>>
  BY DEF Claim
<1>2. CASE key = Absent /\ key' = Processing /\ Goto(r, "leading")
  <2>1. \A s \in Requests : pc[s] = "start" /\ ran[s] = "no"
    BY <1>2 DEF OnceInv, CalmInv, DedupInv, RanInv, Before
  <2>2. pc'[r] = "leading" /\ \A s \in Requests \ {r} : pc'[s] = "start"
    BY <1>2, <2>1 DEF Goto, OnceInv, DedupInv, Typed
  <2>3. \A s \in Requests : Led(s)' => s = r
    BY <1>1, <2>1, <2>2 DEF Led
  <2>4. \A s \in Requests : ~ Counting(s)'
    BY <2>2 DEF Counting
  <2>5. key' # Absent /\ inbox' \in [Requests -> Seq(Requests)]
    BY <1>1, <1>2, DedupAssumption DEF DedupAssumption, OnceInv, CalmInv
  <2> QED
    BY <2>2, <2>3, <2>4, <2>5 DEF CalmInv
<1>3. CASE key # Absent /\ UNCHANGED key /\ Goto(r, "following")
  <2>1. pc'[r] = "following" /\ \A s \in Requests \ {r} : pc'[s] = pc[s]
    BY <1>3 DEF Goto, OnceInv, DedupInv, Typed
  <2>2. \A s \in Requests : (Led(s)' <=> Led(s)) /\ (Counting(s)' <=> Counting(s))
    BY <1>1, <2>1 DEF Led, Counting
  <2>3. LeaderActive => LeaderActive'
    BY <1>1, <2>1 DEF LeaderActive
  <2>4. key' = Processing => \E s \in Requests : pc'[s] \in {"leading", "storing"}
    BY <1>1, <1>3, <2>1 DEF OnceInv, CalmInv
  <2> QED
    BY <1>1, <1>3, <2>1, <2>2, <2>3, <2>4 DEF OnceInv, CalmInv
<1> QED
  BY <1>2, <1>3 DEF Claim

\* A step of the leader before it publishes: it stays the one that leads.
LEMMA LeaderKeeps ==
    ASSUME OnceInv, calm, NEW r \in Requests, LeaderOk(r) \/ Store(r)
    PROVE  CalmInv'
<1>1. /\ pc[r] \in {"leading", "storing"} /\ pc'[r] \in {"storing", "publishing"}
      /\ \A s \in Requests \ {r} : pc'[s] = pc[s] /\ ran'[s] = ran[s]
      /\ UNCHANGED <<inbox, subscribed, seen, result>>
  BY DEF LeaderOk, Store, Goto, OnceInv, DedupInv, Typed
<1>2. \A s \in Requests : Led(s)' <=> Led(s)
  BY <1>1 DEF Led
<1>3. LeaderActive' /\ \A s \in Requests : Counting(s)' <=> Counting(s)
  BY <1>1 DEF LeaderActive, Counting
<1>4. key' # Absent
  BY <1>1, DedupAssumption DEF DedupAssumption, LeaderOk, Store, OnceInv, CalmInv
<1>5. key' = Processing => pc'[r] = "storing"
  BY DedupAssumption DEF DedupAssumption, LeaderOk, Store, Goto, OnceInv, CalmInv, DedupInv,
         Typed, Led
<1> QED
  BY <1>1, <1>2, <1>3, <1>4, <1>5 DEF OnceInv, CalmInv

\* The payload is published: everybody that counts on a message is subscribed.
LEMMA PublishKeeps == ASSUME OnceInv, calm, NEW r \in Requests, Publish(r) PROVE CalmInv'
<1>1. pc[r] = "publishing" /\ UNCHANGED <<key, subscribed, seen, ran>>
  BY DEF Publish
<1>2. pc'[r] = "done" /\ \A s \in Requests \ {r} : pc'[s] = pc[s]
  BY DEF Publish, Goto, OnceInv, DedupInv, Typed
<1>3. inbox' = [s \in Requests |-> IF s \in subscribed THEN Append(inbox[s], r) ELSE inbox[s]]
  BY DEF Publish, Send
<1>4. \A s \in Requests : Append(inbox[s], r) \in Seq(Requests) /\ Append(inbox[s], r) # <<>>
  BY AppendProperties DEF OnceInv, CalmInv
<1>5. inbox' \in [Requests -> Seq(Requests)]
  BY <1>3, <1>4 DEF OnceInv, CalmInv
<1>6. \A s \in Requests : Counting(s)' => inbox'[s] # <<>>
  BY <1>1, <1>2, <1>3, <1>4 DEF Counting, OnceInv, CalmInv
<1>7. Led(r) /\ \A s \in Requests : Led(s)' => Led(s)
  BY <1>1, <1>2 DEF Led
<1>8. key # Processing
  <2>1. \A s \in Requests : pc[s] \notin {"leading", "storing"}
    BY <1>1, <1>7 DEF OnceInv, CalmInv, Led
  <2> QED
    BY <2>1 DEF OnceInv, CalmInv
<1>9. key' # Absent /\ key' # Processing
  BY <1>1, <1>8 DEF OnceInv, CalmInv
<1> QED
  BY <1>1, <1>2, <1>5, <1>6, <1>7, <1>9 DEF OnceInv, CalmInv

\* A follower looks for the result, subscribes and looks again.
LEMMA FollowKeeps ==
    ASSUME OnceInv, calm, NEW r \in Requests,
           Get(r) \/ Subscribe(r) \/ Recheck(r) \/ RecheckReply(r)
    PROVE  CalmInv'
<1>1. /\ pc \in [Requests -> Labels] /\ inbox \in [Requests -> Seq(Requests)]
      /\ seen \in [Requests -> Real \cup {Absent, Processing}]
  BY DEF OnceInv, DedupInv, Typed, PayloadsReal, CalmInv
<1>2. CASE Get(r)
  <2>1. pc[r] = "following" /\ UNCHANGED <<key, seen, ran>>
    BY <1>2 DEF Get
  <2>2. CASE Return(r, key)
    BY <2>1, <2>2, ReturnKeeps
  <2>3. CASE Goto(r, "subscribing") /\ UNCHANGED <<inbox, subscribed, result>>
    <3>1. /\ pc'[r] = "subscribing" /\ ~ Counting(r)'
          /\ \A s \in Requests \ {r} : pc'[s] = pc[s]
      BY <1>1, <2>3 DEF Goto, Counting
    <3> QED
      BY <1>1, <2>1, <2>3, <3>1, FollowerKeeps
  <2> QED
    BY <1>2, <2>2, <2>3 DEF Get
<1>3. CASE Subscribe(r)
  <2>1. /\ pc[r] = "subscribing" /\ subscribed' = subscribed \cup {r}
        /\ UNCHANGED <<key, inbox, seen, ran, result>>
    BY <1>3 DEF Subscribe
  <2>2. pc'[r] = "rechecking" /\ ~ Counting(r)' /\ \A s \in Requests \ {r} : pc'[s] = pc[s]
    BY <1>1, <1>3 DEF Subscribe, Goto, Counting
  <2> QED
    BY <1>1, <2>1, <2>2, FollowerKeeps
<1>4. CASE Recheck(r)
  <2>1. pc[r] = "rechecking" /\ UNCHANGED <<key, inbox, subscribed, ran, result>>
    BY <1>4 DEF Recheck
  <2>2. /\ pc'[r] = "rechecked" /\ seen'[r] = key
        /\ \A s \in Requests \ {r} : pc'[s] = pc[s] /\ seen'[s] = seen[s]
    BY <1>1, <1>4 DEF Recheck, Goto
  <2>3. key \notin Requests => key = Processing
    BY <2>1 DEF OnceInv, DedupInv, PayloadsReal, CalmInv, Real
  <2>4. Counting(r)' => LeaderActive
    BY <2>2, <2>3 DEF Counting, LeaderActive, OnceInv, CalmInv
  <2>5. r \in subscribed
    BY <2>1 DEF OnceInv, CalmInv
  <2> QED
    BY <1>1, <2>1, <2>2, <2>4, <2>5, FollowerKeeps
<1>5. CASE RecheckReply(r)
  <2>1. /\ pc[r] = "rechecked" /\ UNCHANGED <<key, ran>>
        /\ \A s \in Requests \ {r} : seen'[s] = seen[s]
    BY <1>1, <1>5 DEF RecheckReply
  <2>2. CASE Return(r, seen[r])
    BY <2>1, <2>2, ReturnKeeps
  <2>3. CASE /\ seen[r] \notin Requests /\ Goto(r, "waiting")
             /\ UNCHANGED <<inbox, subscribed, result>>
    <3>1. pc'[r] = "waiting" /\ \A s \in Requests \ {r} : pc'[s] = pc[s]
      BY <1>1, <2>3 DEF Goto
    <3>2. r \in subscribed /\ (LeaderActive \/ inbox[r] # <<>>)
      BY <2>1, <2>3 DEF OnceInv, CalmInv, Counting
    <3> QED
      BY <1>1, <2>1, <2>3, <3>1, <3>2, FollowerKeeps
  <2> QED
    BY <1>5, <2>2, <2>3 DEF RecheckReply
<1> QED
  BY <1>2, <1>3, <1>4, <1>5

\* Every step keeps the invariant.
LEMMA OnceStep == OnceInv /\ [Next]_vars => OnceInv'
<1> SUFFICES ASSUME OnceInv, [Next]_vars PROVE OnceInv'
  OBVIOUS
<1>1. DedupInv'
  BY DedupStep DEF OnceInv
<1>2. CASE UNCHANGED vars
  BY <1>1, <1>2 DEF vars, dedupVars, OnceInv, CalmInv, Led, Counting, LeaderActive
<1>3. CASE ~ calm /\ Next
  BY <1>1, <1>3 DEF Next, OnceInv, CalmInv
<1>4. ASSUME calm, NEW r \in Requests, CalmStep(r) PROVE CalmInv'
  <2>1. CASE Claim(r)
    BY <1>4, <2>1, ClaimKeeps
  <2>2. CASE LeaderOk(r) \/ Store(r)
    BY <1>4, <2>2, LeaderKeeps
  <2>3. CASE Publish(r)
    BY <1>4, <2>3, PublishKeeps
  <2>4. CASE Get(r) \/ Subscribe(r) \/ Recheck(r) \/ RecheckReply(r)
    BY <1>4, <2>4, FollowKeeps
  <2>5. CASE Deliver(r)
    <3>1. Return(r, Head(inbox[r])) /\ pc[r] = "waiting" /\ UNCHANGED <<key, seen, ran>>
      BY <1>4, <2>5, CalmFacts DEF Deliver
    <3> QED
      BY <1>4, <3>1, ReturnKeeps
  <2> QED
    BY <1>4, <2>1, <2>2, <2>3, <2>4, <2>5, CalmFacts
<1> QED
  BY <1>1, <1>2, <1>3, <1>4 DEF Next, OnceInv

\* "coalesces concurrent identical requests into a single execution of fn": when
\* nothing fails, no order of the steps of withRequestDedup runs fn twice, however
\* many requests there are.
THEOREM DedupOneExecution == Spec => []OneExecution
<1>1. OnceInv => OneExecution
  BY DEF OnceInv, CalmInv, OneExecution, Led
<1> QED
  BY OnceStart, OnceStep, <1>1, PTL DEF Spec
=============================================================================

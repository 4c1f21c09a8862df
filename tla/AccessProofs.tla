---------------------------- MODULE AccessProofs ----------------------------
(***************************************************************************)
(* Who is let in, and how often.                                           *)
(*                                                                         *)
(* Sessions: one account per address, a session cookie that can be         *)
(* refreshed, and refresh tokens that work once, for any number of tabs,   *)
(* registrations, tokens and rotations.  The cookie's part rests on where  *)
(* a pair can be: in an answer nobody has seen yet, where nobody can       *)
(* delete its key, and then in the cookie, where whoever deletes its key   *)
(* holds it until it is replaced or known to be cut off.                   *)
(*                                                                         *)
(* ApiAccess: a revoked key is refused after a time, the bucket admits     *)
(* what it may, and one event is sent per window, for any number of        *)
(* requests, any TTLs and any clocks.  The key's part rests on which       *)
(* lookups can still fill the cache, the bucket's on a credit that every   *)
(* call spends from and that grows no faster than the clock.               *)
(***************************************************************************)
EXTENDS Sessions, ApiAccess, FiniteSetTheorems, TLAPS

-----------------------------------------------------------------------------
(* Sessions *)

Labels == {"idle", "refresh", "del", "issue", "answer", "logout", "clear"}

Typed ==
    /\ issued \in Nat
    /\ age \in [Pairs -> {"fresh", "stale", "dead"}]
    /\ rotated \in [Pairs -> 0..2]
    /\ live \subseteq 1..issued
    /\ cookie \in [pair : 0..issued, current : BOOLEAN]
    /\ pc \in [Tabs -> Labels]
    /\ held \in [Tabs -> 0..issued] /\ got \in [Tabs -> 0..issued]
    /\ from \in [Pairs -> 0..issued]
    /\ issued <= MaxTokens
    /\ \A t \in Tabs : pc[t] = "idle" => held[t] = 0

\* A pair on its way to the browser is nobody else's: not in the cookie, not held
\* by a request and not in another answer, so its key is there until it expires.
AnswerInv ==
    \A t \in Tabs : pc[t] = "answer" =>
        /\ got[t] # 0 /\ got[t] # cookie.pair
        /\ got[t] \in live \/ age[got[t]] = "dead"
        /\ \A u \in Tabs : held[u] # got[t] /\ (got[u] = got[t] => u = t)

\* The key of the pair in the cookie is there, or it is known why not.
CookieInv ==
    cookie.pair # 0 /\ cookie.pair \notin live
        => \/ age[cookie.pair] = "dead"
           \/ cut
           \/ \E t \in Tabs : held[t] = cookie.pair /\ pc[t] \in {"issue", "answer", "clear"}

\* Refreshes that have read the key of their token and not set the new one yet.
Rotating == {"del", "issue"}

\* Of a token that no two refreshes have raced for: one refresh at most is past its
\* GET, its key is gone once that refresh is past its DEL, and when a pair has come
\* of it no refresh of it is under way and none can begin.
ReplayInv ==
    \A n \in Pairs \ raced :
        /\ \A t, u \in Tabs :
              (pc[t] \in Rotating /\ held[t] = n /\ pc[u] \in Rotating /\ held[u] = n) => t = u
        /\ \A t \in Tabs : pc[t] = "issue" /\ held[t] = n => n \notin live
        /\ \A m \in 1..issued : from[m] = n =>
              n \notin live /\ \A t \in Tabs : pc[t] \in Rotating => held[t] # n
        /\ \A k, m \in 1..issued : from[k] = n /\ from[m] = n => k = m

SessionsInv == Typed /\ OneAccount /\ AnswerInv /\ CookieInv /\ ReplayInv

-----------------------------------------------------------------------------

USE DEF regVars, tokenVars, reqVars, histVars

\* Nobody is registered or logged in at the start.
LEMMA SessionsStart == Init => SessionsInv
<1> SUFFICES ASSUME Init PROVE SessionsInv
  OBVIOUS
<1>1. Typed
  BY SessionsAssumption DEF SessionsAssumption, Init, Typed, Labels, NoCookie
<1>2. OneAccount /\ AnswerInv /\ CookieInv
  BY DEF Init, OneAccount, AnswerInv, CookieInv, NoCookie
<1>3. ReplayInv
  BY DEF Init, ReplayInv, Rotating
<1> QED
  BY <1>1, <1>2, <1>3 DEF SessionsInv

\* A step that issues nothing and brings no refresh past its GET keeps what is
\* known of tokens.
LEMMA FewerKeeps ==
    ASSUME ReplayInv, issued' = issued, from' = from, raced' = raced, live' \subseteq live,
           \A t \in Tabs : pc'[t] \in Rotating => pc'[t] = pc[t] /\ held'[t] = held[t]
    PROVE  ReplayInv'
BY DEF ReplayInv, Rotating

-----------------------------------------------------------------------------

\* A registration that finds the address free has written nothing.
LEMMA RegisterCheckKeeps ==
    ASSUME SessionsInv, NEW r \in Registrants, RegisterCheck(r)
    PROVE  SessionsInv'
<1>1. Typed'
  BY DEF RegisterCheck, SessionsInv, Typed, Labels
<1>2. OneAccount'
  BY DEF RegisterCheck, SessionsInv, OneAccount
<1>3. AnswerInv'
  BY DEF RegisterCheck, SessionsInv, Typed, AnswerInv
<1>4. CookieInv'
  BY DEF RegisterCheck, SessionsInv, Typed, AnswerInv, CookieInv
<1>5. ReplayInv'
  <2>1. /\ issued' = issued /\ from' = from /\ raced' = raced /\ live' \subseteq live
        /\ \A u \in Tabs : pc'[u] \in Rotating => pc'[u] = pc[u] /\ held'[u] = held[u]
    BY DEF RegisterCheck, SessionsInv, Typed, Rotating
  <2> QED
    BY <2>1, FewerKeeps DEF SessionsInv
<1> QED
  BY <1>1, <1>2, <1>3, <1>4, <1>5 DEF SessionsInv

\* The unique email lets one transaction create its user and organization.
LEMMA RegisterCreateKeeps ==
    ASSUME SessionsInv, NEW r \in Registrants, RegisterCreate(r)
    PROVE  SessionsInv'
<1>1. Typed'
  BY DEF RegisterCreate, SessionsInv, Typed, Labels
<1>2. OneAccount'
  BY DEF RegisterCreate, SessionsInv, OneAccount
<1>3. AnswerInv'
  BY DEF RegisterCreate, SessionsInv, Typed, AnswerInv
<1>4. CookieInv'
  BY DEF RegisterCreate, SessionsInv, Typed, AnswerInv, CookieInv
<1>5. ReplayInv'
  <2>1. /\ issued' = issued /\ from' = from /\ raced' = raced /\ live' \subseteq live
        /\ \A u \in Tabs : pc'[u] \in Rotating => pc'[u] = pc[u] /\ held'[u] = held[u]
    BY DEF RegisterCreate, SessionsInv, Typed, Rotating
  <2> QED
    BY <2>1, FewerKeeps DEF SessionsInv
<1> QED
  BY <1>1, <1>2, <1>3, <1>4, <1>5 DEF SessionsInv

\* An expiry takes a key away, and the age says so.
LEMMA AgeKeeps == ASSUME SessionsInv, NEW n \in Pairs, Age(n) PROVE SessionsInv'
<1>1. Typed'
  BY SessionsAssumption DEF SessionsAssumption, Pairs, Age, SessionsInv, Typed, Labels
<1>2. OneAccount'
  BY DEF Age, SessionsInv, OneAccount
<1>3. AnswerInv'
  BY SessionsAssumption DEF SessionsAssumption, Pairs, Age, SessionsInv, Typed, AnswerInv
<1>4. CookieInv'
  BY SessionsAssumption DEF SessionsAssumption, Pairs, Age, SessionsInv, Typed, AnswerInv,
     CookieInv
<1>5. ReplayInv'
  <2>1. /\ issued' = issued /\ from' = from /\ raced' = raced /\ live' \subseteq live
        /\ \A u \in Tabs : pc'[u] \in Rotating => pc'[u] = pc[u] /\ held'[u] = held[u]
    BY DEF Age, SessionsInv, Typed, Rotating
  <2> QED
    BY <2>1, FewerKeeps DEF SessionsInv
<1> QED
  BY <1>1, <1>2, <1>3, <1>4, <1>5 DEF SessionsInv

\* A rotation of the secrets changes no key and no cookie.
LEMMA RotateSecretKeeps == ASSUME SessionsInv, RotateSecret PROVE SessionsInv'
<1>1. Typed'
  BY DEF RotateSecret, SessionsInv, Typed, Labels
<1>2. OneAccount'
  BY DEF RotateSecret, SessionsInv, OneAccount
<1>3. AnswerInv'
  BY DEF RotateSecret, SessionsInv, Typed, AnswerInv
<1>4. CookieInv'
  BY DEF RotateSecret, SessionsInv, Typed, AnswerInv, CookieInv
<1>5. ReplayInv'
  <2>1. /\ issued' = issued /\ from' = from /\ raced' = raced /\ live' \subseteq live
        /\ \A u \in Tabs : pc'[u] \in Rotating => pc'[u] = pc[u] /\ held'[u] = held[u]
    BY DEF RotateSecret, SessionsInv, Typed, Rotating
  <2> QED
    BY <2>1, FewerKeeps DEF SessionsInv
<1> QED
  BY <1>1, <1>2, <1>3, <1>4, <1>5 DEF SessionsInv

\* Nor does a change of the secret of the cookies.
LEMMA ChangeSessionSecretKeeps == ASSUME SessionsInv, ChangeSessionSecret PROVE SessionsInv'
<1>1. Typed'
  BY DEF ChangeSessionSecret, SessionsInv, Typed, Labels
<1>2. OneAccount'
  BY DEF ChangeSessionSecret, SessionsInv, OneAccount
<1>3. AnswerInv'
  BY DEF ChangeSessionSecret, SessionsInv, Typed, AnswerInv
<1>4. CookieInv'
  BY DEF ChangeSessionSecret, SessionsInv, Typed, AnswerInv, CookieInv
<1>5. ReplayInv'
  <2>1. /\ issued' = issued /\ from' = from /\ raced' = raced /\ live' \subseteq live
        /\ \A u \in Tabs : pc'[u] \in Rotating => pc'[u] = pc[u] /\ held'[u] = held[u]
    BY DEF ChangeSessionSecret, SessionsInv, Typed, Rotating
  <2> QED
    BY <2>1, FewerKeeps DEF SessionsInv
<1> QED
  BY <1>1, <1>2, <1>3, <1>4, <1>5 DEF SessionsInv

\* A new pair comes of no token, for a login, or of one that no other refresh has;
\* nobody holds the new one.
LEMMA IssueKeeps ==
    ASSUME Typed, ReplayInv, NEW t \in Tabs, pc[t] \in {"idle", "issue"},
           issued' = issued + 1, issued + 1 \in Pairs, live' = live \cup {issued + 1},
           from' = [from EXCEPT ![issued + 1] = held[t]], raced' = raced, held' = held,
           pc' = [pc EXCEPT ![t] = "answer"]
    PROVE  ReplayInv'
<1>1. \A m \in 1..(issued + 1) : \/ m \in 1..issued /\ from'[m] = from[m]
                                 \/ m = issued + 1 /\ from'[m] = held[t]
  BY DEF Typed, Pairs
<1>2. \A m \in 1..issued : from[m] # issued + 1
  <2>1. \A m \in 1..issued : m \in Pairs /\ from[m] \in 0..issued
    BY SessionsAssumption DEF Typed, Pairs, SessionsAssumption
  <2> QED
    BY <2>1 DEF Typed
<1>3. SUFFICES ASSUME NEW n \in Pairs \ raced
               PROVE  /\ \A v, u \in Tabs : (/\ pc'[v] \in Rotating /\ held[v] = n
                                             /\ pc'[u] \in Rotating /\ held[u] = n) => v = u
                      /\ \A v \in Tabs : pc'[v] = "issue" /\ held[v] = n => n \notin live'
                      /\ \A m \in 1..(issued + 1) : from'[m] = n =>
                            n \notin live' /\ \A v \in Tabs : pc'[v] \in Rotating => held[v] # n
                      /\ \A k, m \in 1..(issued + 1) : from'[k] = n /\ from'[m] = n => k = m
  BY DEF ReplayInv
<1>4. \A v \in Tabs : pc'[v] \in Rotating => v # t /\ pc[v] = pc'[v]
  BY DEF Typed, Rotating
<1>5. \A v \in Tabs : held[v] # issued + 1
  BY DEF Typed
<1>6. CASE n = held[t]
  <2>1. pc[t] = "issue" /\ n # issued + 1
    BY <1>5, <1>6, SessionsAssumption DEF Typed, Pairs, SessionsAssumption
  <2>2. /\ n \notin live /\ \A m \in 1..issued : from[m] # n
        /\ \A v \in Tabs : pc[v] \in Rotating /\ held[v] = n => v = t
    BY <1>6, <2>1 DEF ReplayInv, Rotating
  <2> QED
    BY <1>1, <1>4, <1>6, <2>1, <2>2 DEF Rotating
<1>7. CASE n # held[t]
  <2>1. \A m \in 1..(issued + 1) : from'[m] = n => m \in 1..issued /\ from[m] = n
    BY <1>1, <1>7
  <2>2. \A m \in 1..issued : from[m] = n => n # issued + 1
    BY <1>2
  <2> QED
    BY <1>4, <1>5, <2>1, <2>2 DEF ReplayInv, Rotating
<1> QED
  BY <1>6, <1>7

\* A login adds a key and a pair nobody has seen.
LEMMA LoginKeeps == ASSUME SessionsInv, NEW t \in Tabs, Login(t) PROVE SessionsInv'
<1>1. Typed'
  BY SessionsAssumption DEF SessionsAssumption, Pairs, Login, IssueTokenPair, Sign,
     SessionsInv, Typed, Labels
<1>2. OneAccount'
  BY DEF Login, IssueTokenPair, Sign, SessionsInv, OneAccount
<1>3. AnswerInv'
  BY SessionsAssumption DEF SessionsAssumption, Pairs, Login, IssueTokenPair, Sign,
     SessionsInv, Typed, AnswerInv
<1>4. CookieInv'
  BY SessionsAssumption DEF SessionsAssumption, Pairs, Login, IssueTokenPair, Sign,
     SessionsInv, Typed, AnswerInv, CookieInv
<1>5. ReplayInv'
  <2>1. /\ issued' = issued + 1 /\ issued + 1 \in Pairs /\ live' = live \cup {issued + 1}
        /\ from' = [from EXCEPT ![issued + 1] = held[t]] /\ raced' = raced /\ held' = held
        /\ pc' = [pc EXCEPT ![t] = "answer"] /\ pc[t] = "idle"
    BY SessionsAssumption DEF SessionsAssumption, Pairs, Login, IssueTokenPair, SessionsInv, Typed
  <2> QED
    BY <2>1, IssueKeeps DEF SessionsInv
<1> QED
  BY <1>1, <1>2, <1>3, <1>4, <1>5 DEF SessionsInv

\* The proxy takes the pair from the cookie.
LEMMA ProxyCallKeeps == ASSUME SessionsInv, NEW t \in Tabs, ProxyCall(t) PROVE SessionsInv'
<1>1. Typed'
  BY DEF ProxyCall, GetSession, DecryptSession, SessionsInv, Typed, Labels
<1>2. OneAccount'
  BY DEF ProxyCall, GetSession, DecryptSession, SessionsInv, OneAccount
<1>3. AnswerInv'
  BY DEF ProxyCall, GetSession, DecryptSession, SessionsInv, Typed, AnswerInv
<1>4. CookieInv'
  BY DEF ProxyCall, GetSession, DecryptSession, SessionsInv, Typed, AnswerInv, CookieInv
<1>5. ReplayInv'
  <2>1. /\ issued' = issued /\ from' = from /\ raced' = raced /\ live' \subseteq live
        /\ \A u \in Tabs : pc'[u] \in Rotating => pc'[u] = pc[u] /\ held'[u] = held[u]
    BY DEF ProxyCall, GetSession, DecryptSession, SessionsInv, Typed, Rotating
  <2> QED
    BY <2>1, FewerKeeps DEF SessionsInv
<1> QED
  BY <1>1, <1>2, <1>3, <1>4, <1>5 DEF SessionsInv

\* Whoever finds no key leaves.
LEMMA RefreshGetKeeps == ASSUME SessionsInv, NEW t \in Tabs, RefreshGet(t) PROVE SessionsInv'
<1>1. Typed'
  <2>1. /\ pc' \in [Tabs -> Labels]
        /\ held' \in [Tabs -> 0..issued]
    BY DEF RefreshGet, SessionsInv, Typed, Labels
  <2> QED
    BY <2>1 DEF RefreshGet, SessionsInv, Typed
<1>2. OneAccount'
  BY DEF RefreshGet, SessionsInv, OneAccount
<1>3. AnswerInv'
  BY DEF RefreshGet, SessionsInv, Typed, AnswerInv
<1>4. CookieInv'
  BY DEF RefreshGet, SessionsInv, Typed, AnswerInv, CookieInv
<1>5. ReplayInv'
  <2>1. CASE pc'[t] = "del"
    <3>1. /\ pc' = [pc EXCEPT ![t] = "del"] /\ held' = held /\ live' = live /\ from' = from
          /\ issued' = issued /\ held[t] \in live /\ raced \subseteq raced'
          /\ \A u \in Tabs : pc[u] = "del" /\ held[u] = held[t] => held[t] \in raced'
      BY <2>1 DEF RefreshGet, SessionsInv, Typed
    <3> QED
      BY <3>1 DEF ReplayInv, Rotating, SessionsInv, Typed
  <2>2. CASE pc'[t] # "del"
    <3>1. /\ issued' = issued /\ from' = from /\ raced' = raced /\ live' \subseteq live
          /\ \A u \in Tabs : pc'[u] \in Rotating => pc'[u] = pc[u] /\ held'[u] = held[u]
      BY <2>2 DEF RefreshGet, SessionsInv, Typed, Rotating
    <3> QED
      BY <3>1, FewerKeeps DEF SessionsInv
  <2> QED
    BY <2>1, <2>2
<1> QED
  BY <1>1, <1>2, <1>3, <1>4, <1>5 DEF SessionsInv

\* The DEL ends the token; its request holds the pair.
LEMMA RefreshDelKeeps == ASSUME SessionsInv, NEW t \in Tabs, RefreshDel(t) PROVE SessionsInv'
<1>1. Typed'
  <2>2. live' \subseteq 1..issued
    BY DEF RefreshDel, SessionsInv, Typed
  <2>3. pc' \in [Tabs -> Labels]
    BY DEF RefreshDel, SessionsInv, Typed, Labels
  <2> QED
    BY <2>2, <2>3 DEF RefreshDel, SessionsInv, Typed
<1>2. OneAccount'
  BY DEF RefreshDel, SessionsInv, OneAccount
<1>3. AnswerInv'
  BY DEF RefreshDel, SessionsInv, Typed, AnswerInv
<1>4. CookieInv'
  BY DEF RefreshDel, SessionsInv, Typed, AnswerInv, CookieInv
<1>5. ReplayInv'
  <2>1. /\ pc' = [pc EXCEPT ![t] = "issue"] /\ held' = held /\ live' = live \ {held[t]}
        /\ from' = from /\ issued' = issued /\ raced' = raced /\ pc[t] = "del"
    BY DEF RefreshDel
  <2> QED
    BY <2>1 DEF ReplayInv, Rotating, SessionsInv, Typed
<1> QED
  BY <1>1, <1>2, <1>3, <1>4, <1>5 DEF SessionsInv

\* The new pair is in no hand but this one.
LEMMA RefreshIssueKeeps ==
    ASSUME SessionsInv, NEW t \in Tabs, RefreshIssue(t)
    PROVE  SessionsInv'
<1>1. Typed'
  BY SessionsAssumption DEF SessionsAssumption, Pairs, RefreshIssue, IssueTokenPair, Sign,
     SessionsInv, Typed, Labels
<1>2. OneAccount'
  BY DEF RefreshIssue, IssueTokenPair, Sign, SessionsInv, OneAccount
<1>3. AnswerInv'
  BY SessionsAssumption DEF SessionsAssumption, Pairs, RefreshIssue, IssueTokenPair, Sign,
     SessionsInv, Typed, AnswerInv
<1>4. CookieInv'
  BY SessionsAssumption DEF SessionsAssumption, Pairs, RefreshIssue, IssueTokenPair, Sign,
     SessionsInv, Typed, AnswerInv, CookieInv
<1>5. ReplayInv'
  <2>1. /\ issued' = issued + 1 /\ issued + 1 \in Pairs /\ live' = live \cup {issued + 1}
        /\ from' = [from EXCEPT ![issued + 1] = held[t]] /\ raced' = raced /\ held' = held
        /\ pc' = [pc EXCEPT ![t] = "answer"] /\ pc[t] = "issue"
    BY SessionsAssumption DEF SessionsAssumption, Pairs, RefreshIssue, IssueTokenPair, SessionsInv, Typed
  <2> QED
    BY <2>1, IssueKeeps DEF SessionsInv
<1> QED
  BY <1>1, <1>2, <1>3, <1>4, <1>5 DEF SessionsInv

\* A refresh cut off after its DEL is in the history.
LEMMA RefreshFailsKeeps ==
    ASSUME SessionsInv, NEW t \in Tabs, RefreshFails(t)
    PROVE  SessionsInv'
<1>1. Typed'
  BY DEF RefreshFails, SessionsInv, Typed, Labels
<1>2. OneAccount'
  BY DEF RefreshFails, SessionsInv, OneAccount
<1>3. AnswerInv'
  BY DEF RefreshFails, SessionsInv, Typed, AnswerInv
<1>4. CookieInv'
  BY DEF RefreshFails, SessionsInv, Typed, AnswerInv, CookieInv
<1>5. ReplayInv'
  <2>1. /\ issued' = issued /\ from' = from /\ raced' = raced /\ live' \subseteq live
        /\ \A u \in Tabs : pc'[u] \in Rotating => pc'[u] = pc[u] /\ held'[u] = held[u]
    BY DEF RefreshFails, SessionsInv, Typed, Rotating
  <2> QED
    BY <2>1, FewerKeeps DEF SessionsInv
<1> QED
  BY <1>1, <1>2, <1>3, <1>4, <1>5 DEF SessionsInv

\* The cookie gets a pair whose key is there.
LEMMA AnswerKeeps == ASSUME SessionsInv, NEW t \in Tabs, Answer(t) PROVE SessionsInv'
<1>1. Typed'
  BY DEF Answer, SetSession, EncryptSession, SessionsInv, Typed, Labels
<1>2. OneAccount'
  BY DEF Answer, SetSession, EncryptSession, SessionsInv, OneAccount
<1>3. AnswerInv'
  BY DEF Answer, SetSession, EncryptSession, SessionsInv, Typed, AnswerInv
<1>4. CookieInv'
  BY DEF Answer, SetSession, EncryptSession, SessionsInv, Typed, AnswerInv, CookieInv
<1>5. ReplayInv'
  <2>1. /\ issued' = issued /\ from' = from /\ raced' = raced /\ live' \subseteq live
        /\ \A u \in Tabs : pc'[u] \in Rotating => pc'[u] = pc[u] /\ held'[u] = held[u]
    BY DEF Answer, SetSession, EncryptSession, SessionsInv, Typed, Rotating
  <2> QED
    BY <2>1, FewerKeeps DEF SessionsInv
<1> QED
  BY <1>1, <1>2, <1>3, <1>4, <1>5 DEF SessionsInv

\* An answer that is lost cuts off the pair the browser still has.
LEMMA AnswerLostKeeps == ASSUME SessionsInv, NEW t \in Tabs, AnswerLost(t) PROVE SessionsInv'
<1>1. Typed'
  BY DEF AnswerLost, SessionsInv, Typed, Labels
<1>2. OneAccount'
  BY DEF AnswerLost, SessionsInv, OneAccount
<1>3. AnswerInv'
  BY DEF AnswerLost, SessionsInv, Typed, AnswerInv
<1>4. CookieInv'
  BY DEF AnswerLost, SessionsInv, Typed, AnswerInv, CookieInv
<1>5. ReplayInv'
  <2>1. /\ issued' = issued /\ from' = from /\ raced' = raced /\ live' \subseteq live
        /\ \A u \in Tabs : pc'[u] \in Rotating => pc'[u] = pc[u] /\ held'[u] = held[u]
    BY DEF AnswerLost, SessionsInv, Typed, Rotating
  <2> QED
    BY <2>1, FewerKeeps DEF SessionsInv
<1> QED
  BY <1>1, <1>2, <1>3, <1>4, <1>5 DEF SessionsInv

\* The logout takes the pair from the cookie.
LEMMA LogoutKeeps == ASSUME SessionsInv, NEW t \in Tabs, Logout(t) PROVE SessionsInv'
<1>1. Typed'
  BY DEF Logout, GetSession, DecryptSession, SessionsInv, Typed, Labels
<1>2. OneAccount'
  BY DEF Logout, GetSession, DecryptSession, SessionsInv, OneAccount
<1>3. AnswerInv'
  BY DEF Logout, GetSession, DecryptSession, SessionsInv, Typed, AnswerInv
<1>4. CookieInv'
  BY DEF Logout, GetSession, DecryptSession, SessionsInv, Typed, AnswerInv, CookieInv
<1>5. ReplayInv'
  <2>1. /\ issued' = issued /\ from' = from /\ raced' = raced /\ live' \subseteq live
        /\ \A u \in Tabs : pc'[u] \in Rotating => pc'[u] = pc[u] /\ held'[u] = held[u]
    BY DEF Logout, GetSession, DecryptSession, SessionsInv, Typed, Rotating
  <2> QED
    BY <2>1, FewerKeeps DEF SessionsInv
<1> QED
  BY <1>1, <1>2, <1>3, <1>4, <1>5 DEF SessionsInv

\* It holds the pair whose key it deletes.
LEMMA LogoutDelKeeps == ASSUME SessionsInv, NEW t \in Tabs, LogoutDel(t) PROVE SessionsInv'
<1>1. Typed'
  BY DEF LogoutDel, RefreshVerifies, SessionsInv, Typed, Labels
<1>2. OneAccount'
  BY DEF LogoutDel, RefreshVerifies, SessionsInv, OneAccount
<1>3. AnswerInv'
  BY DEF LogoutDel, RefreshVerifies, SessionsInv, Typed, AnswerInv
<1>4. CookieInv'
  BY DEF LogoutDel, RefreshVerifies, SessionsInv, Typed, AnswerInv, CookieInv
<1>5. ReplayInv'
  <2>1. /\ issued' = issued /\ from' = from /\ raced' = raced /\ live' \subseteq live
        /\ \A u \in Tabs : pc'[u] \in Rotating => pc'[u] = pc[u] /\ held'[u] = held[u]
    BY DEF LogoutDel, RefreshVerifies, SessionsInv, Typed, Rotating
  <2> QED
    BY <2>1, FewerKeeps DEF SessionsInv
<1> QED
  BY <1>1, <1>2, <1>3, <1>4, <1>5 DEF SessionsInv

\* The cookie is empty, or the logout is in the history.
LEMMA ClearSessionKeeps ==
    ASSUME SessionsInv, NEW t \in Tabs, ClearSession(t)
    PROVE  SessionsInv'
<1>1. Typed'
  <2>1. cookie' \in [pair : 0..issued, current : BOOLEAN]
    <3>1. NoCookie \in [pair : 0..issued, current : BOOLEAN]
      BY DEF NoCookie, SessionsInv, Typed
    <3> QED
      BY <3>1 DEF ClearSession, SessionsInv, Typed
  <2>2. /\ pc' \in [Tabs -> Labels] /\ held' \in [Tabs -> 0..issued]
        /\ \A u \in Tabs : pc'[u] = "idle" => held'[u] = 0
    BY DEF ClearSession, SessionsInv, Typed, Labels
  <2> QED
    BY <2>1, <2>2 DEF ClearSession, SessionsInv, Typed
<1>2. OneAccount'
  BY DEF ClearSession, NoCookie, SessionsInv, OneAccount
<1>3. AnswerInv'
  BY DEF ClearSession, NoCookie, SessionsInv, Typed, AnswerInv
<1>4. CookieInv'
  <2>1. CASE cookie' = NoCookie
    BY <2>1 DEF NoCookie, CookieInv
  <2>2. CASE cookie' = cookie /\ cut' = (cut \/ held[t] = cookie.pair)
    <3>1. CASE held[t] = cookie.pair
      BY <2>2, <3>1 DEF CookieInv
    <3>2. CASE held[t] # cookie.pair
      BY <2>2, <3>2 DEF ClearSession, SessionsInv, Typed, CookieInv
    <3> QED
      BY <3>1, <3>2
  <2> QED
    BY <2>1, <2>2 DEF ClearSession
<1>5. ReplayInv'
  <2>1. /\ issued' = issued /\ from' = from /\ raced' = raced /\ live' \subseteq live
        /\ \A u \in Tabs : pc'[u] \in Rotating => pc'[u] = pc[u] /\ held'[u] = held[u]
    BY DEF ClearSession, NoCookie, SessionsInv, Typed, Rotating
  <2> QED
    BY <2>1, FewerKeeps DEF SessionsInv
<1> QED
  BY <1>1, <1>2, <1>3, <1>4, <1>5 DEF SessionsInv

\* Every step of registrations, tabs, expiries and rotations keeps the invariant.
LEMMA SessionsStep == ASSUME SessionsInv, [Next]_vars PROVE SessionsInv'
<1>1. CASE UNCHANGED vars
  <2>1. Typed' /\ OneAccount' /\ AnswerInv' /\ CookieInv'
    BY <1>1 DEF vars, SessionsInv, Typed,
       OneAccount, AnswerInv, CookieInv
  <2>2. /\ live' = live /\ issued' = issued /\ from' = from /\ raced' = raced
        /\ pc' = pc /\ held' = held
    BY <1>1 DEF vars
  <2> QED
    BY <2>1, <2>2, FewerKeeps DEF SessionsInv
<1>2. ASSUME NEW r \in Registrants, RegisterCheck(r) \/ RegisterCreate(r) PROVE SessionsInv'
  BY <1>2, RegisterCheckKeeps, RegisterCreateKeeps
<1>3. ASSUME NEW n \in Pairs, Age(n) PROVE SessionsInv'
  BY <1>3, AgeKeeps
<1>4. CASE RotateSecret \/ ChangeSessionSecret
  BY <1>4, RotateSecretKeeps, ChangeSessionSecretKeeps
<1>5. ASSUME NEW t \in Tabs,
             \/ Login(t) \/ ProxyCall(t) \/ RefreshGet(t) \/ RefreshDel(t) \/ RefreshIssue(t)
             \/ RefreshFails(t) \/ Answer(t) \/ AnswerLost(t)
             \/ Logout(t) \/ LogoutDel(t) \/ ClearSession(t)
      PROVE  SessionsInv'
  BY <1>5, LoginKeeps, ProxyCallKeeps, RefreshGetKeeps, RefreshDelKeeps, RefreshIssueKeeps,
     RefreshFailsKeeps, AnswerKeeps, AnswerLostKeeps, LogoutKeeps, LogoutDelKeeps, ClearSessionKeeps
<1> QED
  BY <1>1, <1>2, <1>3, <1>4, <1>5 DEF Next

\* In every reachable state a pair is where its part of the invariant says.
THEOREM SessionsInvariant == Spec => []SessionsInv
<1>1. SessionsInv /\ [Next]_vars => SessionsInv'
  BY SessionsStep
<1> QED
  BY SessionsStart, <1>1, PTL DEF Spec

\* register: concurrent registrations with one address leave one user with one
\* organization.
THEOREM SessionsOneAccount == Spec => []OneAccount
<1>1. SessionsInv => OneAccount
  BY DEF SessionsInv
<1> QED
  BY SessionsInvariant, <1>1, PTL

\* The proxy and refresh: the browser is never left with a session that cannot be
\* refreshed, its token verified with the secret or the one before, unless it
\* expired, the secret was rotated twice since, or a refresh or logout was cut off or
\* is under way.
THEOREM SessionsCookieUsable == Spec => []CookieUsable
<1>1. ASSUME SessionsInv PROVE CookieUsable
  <2>1. GetSession # 0 => GetSession = cookie.pair /\ cookie.pair \in Pairs
    BY <1>1, SessionsAssumption
       DEF GetSession, DecryptSession, SessionsInv, Typed, Pairs, SessionsAssumption
  <2>2. \A n \in Pairs : n \in live /\ ~Refreshable(n) => age[n] = "dead" \/ rotated[n] = 2
    BY <1>1 DEF Refreshable, RefreshVerifies, SessionsInv, Typed
  <2>3. \A n \in Pairs : n \notin live => ~Refreshable(n)
    BY DEF Refreshable
  <2> QED
    BY <1>1, <2>1, <2>2, <2>3 DEF SessionsInv, CookieInv, CookieUsable
<1> QED
  BY SessionsInvariant, <1>1, PTL

\* refresh: of a token that no two refreshes read before either deleted it, one pair
\* comes at most, however often it is sent.
THEOREM SessionsReplayRefused == Spec => []ReplayRefused
<1>1. SessionsInv => ReplayRefused
  BY DEF SessionsInv, ReplayInv, ReplayRefused, Successors
<1> QED
  BY SessionsInvariant, <1>1, PTL

-----------------------------------------------------------------------------
(* ApiAccess *)

Stages == {"idle", "lookup", "set", "limit", "claim", "emit"}

AccessTyped ==
    /\ now \in 1..MaxTime
    /\ key \in {"none", "active", "revoked"}
    /\ cached \in Nat /\ revokedAt \in Nat
    /\ stage \in [Requests -> Stages] /\ since \in [Requests -> Nat]
    /\ bucket \in [tokens : Nat, last : Nat, expireAt : Nat]
    /\ slot \in Nat /\ notices \in Nat
    /\ admitted \in [1..MaxTime -> Nat] /\ regained \in [1..MaxTime -> Nat]

\* No request waits longer than MaxWait for its next command.
WaitInv ==
    \A s \in Requests : stage[s] # "idle" => since[s] <= now /\ now <= since[s] + MaxWait

\* A cache entry is there for a TTL; one of a revoked key was set by a lookup
\* that began before the revocation committed, and so was one yet to be set.
CacheInv ==
    /\ cached > 0 => now < cached
    /\ key # "revoked" => cached <= now + CacheTTL
    /\ key = "revoked" =>
         /\ cached <= revokedAt + MaxWait + CacheTTL
         /\ \A s \in Requests : stage[s] = "set" => since[s] <= revokedAt

\* The requests that have won the slot and not written their event yet.
Emitting == {s \in Requests : stage[s] = "emit"}

\* The events written or about to be written had a window each.
NoticeInv ==
    /\ IsFiniteSet(Emitting)
    /\ slot = 0 => (notices + Cardinality(Emitting)) * Window < now
    /\ slot > 0 => /\ (notices + Cardinality(Emitting)) * Window < slot
                   /\ now < slot /\ slot <= now + Window

KeyInv == AccessTyped /\ WaitInv /\ CacheInv

AccessInv == KeyInv /\ NoticeInv

\* The capacity in units.
Full == Capacity * Unit

\* What bucket b can still give, at time n, to a caller with the fastest clock.
Credit(b, n) ==
    IF b = NoBucket THEN Full + MaxSkew
    ELSE Least(Full + MaxSkew, b.tokens + (n + MaxSkew - b.last))

\* The expiry of the bucket gives nothing away: it has been full for a while.
BucketInv ==
    bucket # NoBucket =>
        /\ bucket.tokens <= Full
        /\ bucket.last <= now + MaxSkew
        /\ bucket.last + BucketTTL <= bucket.expireAt + MaxSkew

\* What was let through in a window and what could still be let through.
WindowInv ==
    \A t \in 1..MaxTime :
        IF t <= now
        THEN Unit * admitted[t] + Credit(bucket, now) <= Full + (now - t) + MaxSkew + regained[t]
        ELSE admitted[t] = 0 /\ regained[t] = 0

AdmissionInv == AccessTyped /\ BucketInv /\ WindowInv

\* The minute that ttlSeconds adds to the time to fill the bucket is more than
\* the clocks of two gateways differ by.
SmallSkew == BucketTTL >= Full + MaxSkew

USE DEF apiKeyVars, callVars, limitVars, accessVars

\* There is no key, no request and no bucket at the start.
LEMMA AccessStart == AccessInit => AccessTyped /\ WaitInv /\ CacheInv /\ NoticeInv
<1> SUFFICES ASSUME AccessInit PROVE AccessTyped /\ WaitInv /\ CacheInv /\ NoticeInv
  OBVIOUS
<1> USE AccessAssumption DEF AccessAssumption
<1>1. AccessTyped
  BY DEF AccessInit, AccessTyped, Stages, NoBucket
<1>2. WaitInv /\ CacheInv
  BY DEF AccessInit, WaitInv, CacheInv
<1>3. Emitting = {}
  BY DEF AccessInit, Emitting
<1>4. IsFiniteSet(Emitting) /\ Cardinality(Emitting) = 0
  BY <1>3, FS_EmptySet
<1>5. NoticeInv
  BY <1>4 DEF AccessInit, NoticeInv
<1> QED
  BY <1>1, <1>2, <1>5

\* The stages and their times stay typed when a request moves on.
LEMMA GotoTyped ==
    ASSUME AccessTyped, NEW s \in Requests, NEW label \in Stages, Goto(s, label)
    PROVE  /\ stage' \in [Requests -> Stages] /\ since' \in [Requests -> Nat]
           /\ stage'[s] = label
           /\ label # "idle" => since'[s] = now
           /\ \A u \in Requests : u # s => stage'[u] = stage[u] /\ since'[u] = since[u]
  BY AccessAssumption DEF AccessAssumption, Goto, AccessTyped

\* The types of the limiter's constants.
LEMMA LimitConstants ==
    /\ Full \in Nat /\ Unit \in Nat \ {0} /\ MaxSkew \in Nat /\ BucketTTL \in Nat /\ MaxTime \in Nat
    /\ Skew \in [Requests -> 0..MaxSkew]
  BY AccessAssumption DEF AccessAssumption, Full

\* The tokens of a bucket are at most its capacity.
LEMMA RefilledNat ==
    ASSUME NEW b \in [tokens : Nat, last : Nat, expireAt : Nat], NEW t \in Nat
    PROVE  Refilled(b, t) \in 0..Full
<1>1. Full \in Nat
  BY LimitConstants
<1>2. b.tokens + (IF t > b.last THEN t - b.last ELSE 0) \in Nat
  OBVIOUS
<1> QED
  BY <1>1, <1>2 DEF Refilled, Least, Full

\* A bucket that is there earns with the caller's clock, up to its capacity.
LEMMA RefilledIs ==
    ASSUME NEW b, NEW t, b # NoBucket
    PROVE  Refilled(b, t) = Least(Full, b.tokens + (IF t > b.last THEN t - b.last ELSE 0))
  BY Zenon DEF Refilled, Full

\* The history of every open window grows by n.
LEMMA AddSinceNat ==
    ASSUME NEW f \in [1..MaxTime -> Nat], NEW n \in Nat, AccessTyped
    PROVE  AddSince(f, n) \in [1..MaxTime -> Nat]
  BY AccessAssumption DEF AccessAssumption, AddSince, AccessTyped

\* Every step keeps the types.
LEMMA AccessTypedStep == AccessTyped /\ [AccessNext]_accessVars => AccessTyped'
<1> SUFFICES ASSUME AccessTyped, [AccessNext]_accessVars PROVE AccessTyped'
  OBVIOUS
<1> USE AccessAssumption DEF AccessAssumption
<1>1. CASE CreateApiKey \/ RevokeCommit \/ RevokeDelete \/ RevokeDeleteLost
  <2>1. CASE RevokeCommit
    <3>1. key' = "revoked" /\ UNCHANGED <<now, cached, callVars, limitVars>>
      BY <2>1 DEF RevokeCommit
    <3>2. revokedAt' \in Nat
      BY <2>1 DEF RevokeCommit, AccessTyped
    <3> QED
      BY <3>1, <3>2 DEF AccessTyped
  <2>2. CASE CreateApiKey
    BY <2>2 DEF CreateApiKey, AccessTyped
  <2>3. CASE RevokeDelete
    BY <2>3 DEF RevokeDelete, AccessTyped
  <2>4. CASE RevokeDeleteLost
    BY <2>4 DEF RevokeDeleteLost, AccessTyped
  <2> QED
    BY <1>1, <2>1, <2>2, <2>3, <2>4
<1>2. ASSUME NEW s \in Requests, Request(s) PROVE AccessTyped'
  <2>1. CASE GetCached(s) \/ LookupApiKey(s) \/ CacheApiKey(s)
    <3>1. PICK label \in Stages : Goto(s, label)
      BY <2>1 DEF GetCached, LookupApiKey, CacheApiKey, Stages
    <3>2. stage' \in [Requests -> Stages] /\ since' \in [Requests -> Nat]
      BY <3>1, GotoTyped
    <3>3. cached' \in Nat
      BY <2>1 DEF GetCached, LookupApiKey, CacheApiKey, AccessTyped
    <3>4. UNCHANGED <<now, key, revokedAt, limitVars>>
      BY <2>1 DEF GetCached, LookupApiKey, CacheApiKey
    <3> QED
      BY <3>2, <3>3, <3>4 DEF AccessTyped
  <2>2. CASE TokenBucket(s)
    <3> DEFINE t == now + Skew[s]
               tokens == Refilled(bucket, t)
    <3>1. t \in Nat /\ bucket.last \in Nat
      BY DEF AccessTyped
    <3>2. tokens \in Nat
      BY <3>1, RefilledNat, LimitConstants DEF AccessTyped
    <3>3. PICK label \in Stages : Goto(s, label)
      BY <2>2 DEF TokenBucket, Stages
    <3>4. stage' \in [Requests -> Stages] /\ since' \in [Requests -> Nat]
      BY <3>3, GotoTyped
    <3>5. bucket' \in [tokens : Nat, last : Nat, expireAt : Nat]
      <4>1. bucket' = [tokens |-> IF tokens >= Unit THEN tokens - Unit ELSE tokens,
                       last |-> t, expireAt |-> now + BucketTTL]
        BY <2>2 DEF TokenBucket
      <4>2. (IF tokens >= Unit THEN tokens - Unit ELSE tokens) \in Nat
        BY <3>2
      <4>3. now + BucketTTL \in Nat
        BY DEF AccessTyped
      <4> QED
        BY <3>1, <4>1, <4>2, <4>3
    <3>6. admitted' \in [1..MaxTime -> Nat]
      <4>1. (IF tokens >= Unit THEN 1 ELSE 0) \in Nat
        OBVIOUS
      <4> QED
        BY <2>2, <4>1, AddSinceNat DEF TokenBucket, AccessTyped
    <3>7. regained' \in [1..MaxTime -> Nat]
      <4>1. (IF t < bucket.last THEN bucket.last - t ELSE 0) \in Nat
        BY <3>1
      <4> QED
        BY <2>2, <4>1, AddSinceNat DEF TokenBucket, AccessTyped
    <3> QED
      BY <2>2, <3>4, <3>5, <3>6, <3>7 DEF TokenBucket, AccessTyped
  <2>3. CASE ClaimDedupeSlot(s) \/ EmitRateLimited(s) \/ RequestFails(s)
    <3>1. PICK label \in Stages : Goto(s, label)
      BY <2>3 DEF ClaimDedupeSlot, EmitRateLimited, RequestFails, Stages
    <3>2. stage' \in [Requests -> Stages] /\ since' \in [Requests -> Nat]
      BY <3>1, GotoTyped
    <3>3. slot' \in Nat /\ notices' \in Nat
      <4>1. slot \in Nat /\ notices \in Nat /\ now + Window \in Nat /\ notices + 1 \in Nat
        BY DEF AccessTyped
      <4> QED
        BY <2>3, <4>1 DEF ClaimDedupeSlot, EmitRateLimited, RequestFails
    <3>4. UNCHANGED <<now, apiKeyVars, bucket, admitted, regained>>
      BY <2>3 DEF ClaimDedupeSlot, EmitRateLimited, RequestFails
    <3> QED
      BY <3>2, <3>3, <3>4 DEF AccessTyped
  <2> QED
    BY <1>2, <2>1, <2>2, <2>3 DEF Request
<1>3. CASE Tick
  BY <1>3 DEF Tick, Expire, NoBucket, AccessTyped
<1>4. CASE UNCHANGED accessVars
  BY <1>4 DEF AccessTyped
<1> QED
  BY <1>1, <1>2, <1>3, <1>4 DEF AccessNext

\* No request waits longer than MaxWait.
LEMMA WaitStep == AccessTyped /\ WaitInv /\ [AccessNext]_accessVars => WaitInv'
<1> SUFFICES ASSUME AccessTyped, WaitInv, [AccessNext]_accessVars PROVE WaitInv'
  OBVIOUS
<1> USE AccessAssumption DEF AccessAssumption
<1>1. CASE CreateApiKey \/ RevokeCommit \/ RevokeDelete \/ RevokeDeleteLost
  BY <1>1 DEF CreateApiKey, RevokeCommit, RevokeDelete, RevokeDeleteLost, WaitInv
<1>2. ASSUME NEW s \in Requests, Request(s) PROVE WaitInv'
  <2>1. PICK label \in Stages : Goto(s, label)
    BY <1>2 DEF Request, GetCached, LookupApiKey, CacheApiKey, TokenBucket,
                ClaimDedupeSlot, EmitRateLimited, RequestFails, Stages
  <2>2. now' = now
    BY <1>2 DEF Request, GetCached, LookupApiKey, CacheApiKey, TokenBucket,
                ClaimDedupeSlot, EmitRateLimited, RequestFails
  <2>3. /\ stage'[s] # "idle" => since'[s] = now
        /\ \A u \in Requests : u # s => stage'[u] = stage[u] /\ since'[u] = since[u]
    BY <2>1, GotoTyped
  <2>4. now \in Nat /\ MaxWait \in Nat /\ now <= now + MaxWait
    BY DEF AccessTyped
  <2>5. ASSUME NEW u \in Requests, stage'[u] # "idle"
        PROVE  since'[u] <= now /\ now <= since'[u] + MaxWait
    <3>1. CASE u = s
      BY <2>3, <2>4, <2>5, <3>1
    <3>2. CASE u # s
      BY <2>3, <2>5, <3>2 DEF WaitInv
    <3> QED
      BY <3>1, <3>2
  <2> QED
    BY <2>2, <2>5 DEF WaitInv
<1>3. CASE Tick
  <2>1. now \in Nat /\ since \in [Requests -> Nat]
    BY DEF AccessTyped
  <2>2. now' = now + 1 /\ stage' = stage /\ since' = since
    BY <1>3 DEF Tick
  <2>3. \A s \in Requests : stage[s] # "idle" => now < since[s] + MaxWait
    BY <1>3 DEF Tick
  <2> QED
    BY <2>1, <2>2, <2>3 DEF WaitInv
<1>4. CASE UNCHANGED accessVars
  BY <1>4 DEF WaitInv
<1> QED
  BY <1>1, <1>2, <1>3, <1>4 DEF AccessNext

\* What a request's step does to the key's cache: only SET changes it.
LEMMA RequestCaches ==
    ASSUME AccessTyped, NEW s \in Requests, Request(s)
    PROVE  /\ now' = now /\ key' = key /\ revokedAt' = revokedAt
           /\ cached' = cached \/ (stage[s] = "set" /\ cached' = now + CacheTTL)
           /\ stage'[s] = "set" => key = "active"
           /\ \A u \in Requests : u # s => stage'[u] = stage[u] /\ since'[u] = since[u]
<1>1. PICK label \in Stages : Goto(s, label)
  BY DEF Request, GetCached, LookupApiKey, CacheApiKey, TokenBucket,
         ClaimDedupeSlot, EmitRateLimited, RequestFails, Stages
<1>2. \A u \in Requests : u # s => stage'[u] = stage[u] /\ since'[u] = since[u]
  BY <1>1, GotoTyped
<1>3. now' = now /\ key' = key /\ revokedAt' = revokedAt
  BY DEF Request, GetCached, LookupApiKey, CacheApiKey, TokenBucket,
         ClaimDedupeSlot, EmitRateLimited, RequestFails
<1>4. cached' = cached \/ (stage[s] = "set" /\ cached' = now + CacheTTL)
  BY DEF Request, GetCached, LookupApiKey, CacheApiKey, TokenBucket,
         ClaimDedupeSlot, EmitRateLimited, RequestFails
<1>5. stage'[s] = "set" => key = "active"
  BY DEF Request, GetCached, LookupApiKey, CacheApiKey, TokenBucket,
         ClaimDedupeSlot, EmitRateLimited, RequestFails, Goto, AccessTyped
<1> QED
  BY <1>2, <1>3, <1>4, <1>5

\* Every step keeps what is known of the cache.
LEMMA CacheStep == KeyInv /\ [AccessNext]_accessVars => CacheInv'
<1> SUFFICES ASSUME AccessTyped, WaitInv, CacheInv, [AccessNext]_accessVars PROVE CacheInv'
  BY DEF KeyInv
<1> USE AccessAssumption DEF AccessAssumption
<1>0. /\ now \in Nat /\ cached \in Nat /\ revokedAt \in Nat
      /\ since \in [Requests -> Nat] /\ key \in {"none", "active", "revoked"}
  BY DEF AccessTyped
<1>1. CASE CreateApiKey
  <2>1. key # "revoked" /\ key' # "revoked" /\ now' = now /\ cached' = cached
    BY <1>1 DEF CreateApiKey
  <2> QED
    BY <2>1 DEF CacheInv
<1>2. CASE RevokeCommit
  <2>1. key' = "revoked" /\ now' = now /\ cached' = cached /\ stage' = stage /\ since' = since
    BY <1>2 DEF RevokeCommit
  <2>2. CASE key = "active"
    <3>1. revokedAt' = now
      BY <1>2, <2>2 DEF RevokeCommit
    <3>2. cached <= now + MaxWait + CacheTTL
      BY <1>0, <2>2 DEF CacheInv
    <3>3. \A s \in Requests : stage[s] = "set" => since[s] <= now
      BY DEF WaitInv
    <3> QED
      BY <2>1, <3>1, <3>2, <3>3 DEF CacheInv
  <2>3. CASE key # "active"
    BY <1>0, <1>2, <2>1, <2>3 DEF RevokeCommit, CacheInv
  <2> QED
    BY <2>2, <2>3
<1>3. CASE RevokeDelete
  <2>1. cached' = 0 /\ UNCHANGED <<now, key, revokedAt, stage, since>>
    BY <1>3 DEF RevokeDelete
  <2> QED
    BY <1>0, <2>1 DEF CacheInv
<1>4. CASE RevokeDeleteLost
  BY <1>4 DEF RevokeDeleteLost, CacheInv
<1>5. ASSUME NEW s \in Requests, Request(s) PROVE CacheInv'
  <2>1. /\ now' = now /\ key' = key /\ revokedAt' = revokedAt
        /\ stage'[s] = "set" => key = "active"
        /\ \A u \in Requests : u # s => stage'[u] = stage[u] /\ since'[u] = since[u]
    BY <1>5, RequestCaches
  <2>2. cached' > 0 => now < cached'
    BY <1>0, <1>5, RequestCaches DEF CacheInv
  <2>3. key # "revoked" => cached' <= now + CacheTTL
    BY <1>0, <1>5, RequestCaches DEF CacheInv
  <2>4. ASSUME key = "revoked" PROVE cached' <= revokedAt + MaxWait + CacheTTL
    <3>1. CASE cached' = cached
      BY <2>4, <3>1 DEF CacheInv
    <3>2. CASE stage[s] = "set" /\ cached' = now + CacheTTL
      <4>1. now <= since[s] + MaxWait /\ since[s] <= revokedAt
        BY <2>4, <3>2 DEF WaitInv, CacheInv
      <4> QED
        BY <1>0, <3>2, <4>1
    <3> QED
      BY <1>5, <3>1, <3>2, RequestCaches
  <2>5. ASSUME key = "revoked", NEW u \in Requests, stage'[u] = "set"
        PROVE  since'[u] <= revokedAt
    <3>1. u # s
      BY <2>1, <2>5
    <3> QED
      BY <2>1, <2>5, <3>1 DEF CacheInv
  <2> QED
    BY <2>1, <2>2, <2>3, <2>4, <2>5 DEF CacheInv
<1>6. CASE Tick
  <2>1. /\ now' = now + 1 /\ UNCHANGED <<key, revokedAt, stage, since>>
        /\ cached' = IF cached = now + 1 THEN 0 ELSE cached
    BY <1>6 DEF Tick, Expire
  <2>2. cached' > 0 => now' < cached'
    BY <1>0, <2>1 DEF CacheInv
  <2>3. cached' <= cached
    BY <1>0, <2>1
  <2>4. cached' \in Nat
    BY <1>0, <2>1
  <2> QED
    BY <1>0, <2>1, <2>2, <2>3, <2>4 DEF CacheInv
<1>7. CASE UNCHANGED accessVars
  BY <1>7 DEF CacheInv
<1> QED
  BY <1>1, <1>2, <1>3, <1>4, <1>5, <1>6, <1>7 DEF AccessNext

\* The number of requests that won the slot, with and without one of them.
LEMMA EmittingCount ==
    ASSUME IsFiniteSet(Emitting), NEW s
    PROVE  /\ Cardinality(Emitting) \in Nat
           /\ IsFiniteSet(Emitting \cup {s}) /\ IsFiniteSet(Emitting \ {s})
           /\ s \notin Emitting => Cardinality(Emitting \cup {s}) = Cardinality(Emitting) + 1
           /\ Cardinality(Emitting \ {s}) <= Cardinality(Emitting)
           /\ Cardinality(Emitting \ {s}) \in Nat
           /\ s \in Emitting => Cardinality(Emitting \ {s}) = Cardinality(Emitting) - 1
  BY FS_CardinalityType, FS_AddElement, FS_RemoveElement

\* Every step keeps the windows of the events.
LEMMA NoticeStep == AccessTyped /\ NoticeInv /\ [AccessNext]_accessVars => NoticeInv'
<1> SUFFICES ASSUME AccessTyped, NoticeInv, [AccessNext]_accessVars PROVE NoticeInv'
  OBVIOUS
<1> USE AccessAssumption DEF AccessAssumption
<1> DEFINE won == notices + Cardinality(Emitting)
<1>0. /\ now \in Nat /\ slot \in Nat /\ notices \in Nat /\ stage \in [Requests -> Stages]
      /\ Cardinality(Emitting) \in Nat /\ IsFiniteSet(Emitting)
  BY FS_CardinalityType DEF AccessTyped, NoticeInv
<1>1. ASSUME slot' = slot, now' = now, IsFiniteSet(Emitting'), Cardinality(Emitting') \in Nat,
             notices' \in Nat, notices' + Cardinality(Emitting') <= won
      PROVE  NoticeInv'
  <2>1. (notices' + Cardinality(Emitting')) * Window <= won * Window
    BY <1>0, <1>1
  <2> QED
    BY <1>0, <1>1, <2>1 DEF NoticeInv
<1>2. CASE CreateApiKey \/ RevokeCommit \/ RevokeDelete \/ RevokeDeleteLost
  <2>1. UNCHANGED <<now, stage, slot, notices>>
    BY <1>2 DEF CreateApiKey, RevokeCommit, RevokeDelete, RevokeDeleteLost
  <2> QED
    BY <2>1 DEF NoticeInv, Emitting
<1>3. ASSUME NEW s \in Requests, Request(s) PROVE NoticeInv'
  <2>1. now' = now /\ (\A u \in Requests : u # s => stage'[u] = stage[u])
    BY <1>3, RequestCaches
  <2>2. CASE GetCached(s) \/ LookupApiKey(s) \/ CacheApiKey(s) \/ TokenBucket(s)
    <3>1. stage[s] # "emit" /\ stage'[s] # "emit" /\ UNCHANGED <<slot, notices>>
      BY <2>2 DEF GetCached, LookupApiKey, CacheApiKey, TokenBucket, Goto, AccessTyped
    <3>2. Emitting' = Emitting
      BY <2>1, <3>1 DEF Emitting
    <3> QED
      BY <1>0, <1>1, <2>1, <3>1, <3>2
  <2>3. CASE ClaimDedupeSlot(s) /\ slot > 0
    <3>1. stage[s] # "emit" /\ stage'[s] # "emit" /\ UNCHANGED <<slot, notices>>
      BY <2>3 DEF ClaimDedupeSlot, Goto, AccessTyped
    <3>2. Emitting' = Emitting
      BY <2>1, <3>1 DEF Emitting
    <3> QED
      BY <1>0, <1>1, <2>1, <3>1, <3>2
  <2>4. CASE ClaimDedupeSlot(s) /\ ~(slot > 0)
    <3>1. stage[s] # "emit" /\ stage'[s] = "emit" /\ slot' = now + Window /\ notices' = notices
      BY <2>4 DEF ClaimDedupeSlot, Goto, AccessTyped
    <3>2. Emitting' = Emitting \cup {s} /\ s \notin Emitting
      BY <2>1, <3>1 DEF Emitting
    <3>3. IsFiniteSet(Emitting') /\ Cardinality(Emitting') = Cardinality(Emitting) + 1
      BY <1>0, <3>2, EmittingCount
    <3>4. won * Window < now
      BY <1>0, <2>4 DEF NoticeInv
    <3>5. (notices' + Cardinality(Emitting')) * Window = won * Window + Window
      BY <1>0, <3>1, <3>3
    <3>6. won * Window \in Nat
      BY <1>0
    <3> QED
      BY <1>0, <2>1, <3>1, <3>3, <3>4, <3>5, <3>6 DEF NoticeInv
  <2>5. CASE EmitRateLimited(s)
    <3>1. stage[s] = "emit" /\ stage'[s] # "emit" /\ slot' = slot /\ notices' = notices + 1
      BY <2>5 DEF EmitRateLimited, Goto, AccessTyped
    <3>2. Emitting' = Emitting \ {s} /\ s \in Emitting
      BY <2>1, <3>1 DEF Emitting
    <3>3. /\ IsFiniteSet(Emitting') /\ Cardinality(Emitting') \in Nat
          /\ Cardinality(Emitting') = Cardinality(Emitting) - 1
      BY <1>0, <3>2, EmittingCount
    <3>4. notices' + Cardinality(Emitting') <= won /\ notices' \in Nat
      BY <1>0, <3>1, <3>3
    <3> QED
      BY <1>1, <2>1, <3>1, <3>3, <3>4
  <2>6. CASE RequestFails(s)
    <3>1. stage'[s] # "emit" /\ slot' = slot /\ notices' = notices
      BY <2>6 DEF RequestFails, Goto, AccessTyped
    <3>2. Emitting' = Emitting \ {s}
      BY <2>1, <3>1 DEF Emitting
    <3>3. /\ IsFiniteSet(Emitting') /\ Cardinality(Emitting') \in Nat
          /\ Cardinality(Emitting') <= Cardinality(Emitting)
      BY <1>0, <3>2, EmittingCount
    <3>4. notices' + Cardinality(Emitting') <= won
      BY <1>0, <3>1, <3>3
    <3> QED
      BY <1>0, <1>1, <2>1, <3>1, <3>3, <3>4
  <2> QED
    BY <1>3, <2>2, <2>3, <2>4, <2>5, <2>6 DEF Request
<1>4. CASE Tick
  <2>1. /\ now' = now + 1 /\ stage' = stage /\ notices' = notices
        /\ slot' = IF slot = now + 1 THEN 0 ELSE slot
    BY <1>4 DEF Tick, Expire
  <2>2. Emitting' = Emitting
    BY <2>1 DEF Emitting
  <2>3. won * Window \in Nat
    BY <1>0
  <2> QED
    BY <1>0, <2>1, <2>2, <2>3 DEF NoticeInv
<1>5. CASE UNCHANGED accessVars
  BY <1>5 DEF NoticeInv, Emitting
<1> QED
  BY <1>2, <1>3, <1>4, <1>5 DEF AccessNext

\* The inductive invariant of the key's cache and of the events holds.
THEOREM AccessInvariant == AccessSpec => []AccessInv
<1>1. AccessInit => AccessInv
  BY AccessStart DEF AccessInv, KeyInv
<1>2. AccessInv /\ [AccessNext]_accessVars => AccessInv'
  BY AccessTypedStep, WaitStep, CacheStep, NoticeStep DEF AccessInv, KeyInv
<1> QED
  BY <1>1, <1>2, PTL DEF AccessSpec

\* Once a revocation has emptied the cache and no lookup that overlapped it is left,
\* nothing brings the key back.
THEOREM AccessRevocationSticks == AccessSpec => RevocationSticks
<1>1. AccessInv /\ [AccessNext]_accessVars
        => [Settled => Settled' /\ \A s \in Requests : ~Authenticates(s)]_accessVars
  <2> SUFFICES ASSUME AccessTyped, CacheInv, [AccessNext]_accessVars, Settled, accessVars' # accessVars
               PROVE  Settled' /\ \A s \in Requests : ~Authenticates(s)
    BY DEF AccessInv, KeyInv
  <2>1. key = "revoked" /\ cached = 0 /\ \A s \in Requests : stage[s] # "set"
    BY DEF Settled
  <2>2. CASE RevokeCommit \/ RevokeDelete \/ RevokeDeleteLost \/ CreateApiKey
    <3>1. key' = "revoked" /\ cached' = 0 /\ stage' = stage
      BY <2>1, <2>2 DEF RevokeCommit, RevokeDelete, RevokeDeleteLost, CreateApiKey
    <3> QED
      BY <2>1, <3>1 DEF Settled, Authenticates
  <2>3. ASSUME NEW s \in Requests, Request(s)
        PROVE  Settled' /\ \A u \in Requests : ~Authenticates(u)
    <3>1. key' = "revoked" /\ cached' = 0 /\ stage'[s] # "set"
      BY <2>1, <2>3, RequestCaches
    <3>2. \A u \in Requests : u # s => stage'[u] = stage[u]
      BY <2>3, RequestCaches
    <3>3. ~(stage[s] = "idle" /\ stage'[s] = "limit")
      BY <2>1, <2>3 DEF Request, GetCached, Cached, LookupApiKey, CacheApiKey, TokenBucket,
            ClaimDedupeSlot, EmitRateLimited, RequestFails, Goto, AccessTyped
    <3>4. Settled'
      BY <2>1, <3>1, <3>2 DEF Settled
    <3> QED
      BY <2>1, <3>2, <3>3, <3>4 DEF Authenticates
  <2>4. CASE Tick
    <3>1. key' = "revoked" /\ cached' = 0 /\ stage' = stage
      BY <2>1, <2>4 DEF Tick, Expire
    <3> QED
      BY <2>1, <3>1 DEF Settled, Authenticates
  <2> QED
    BY <2>2, <2>3, <2>4 DEF AccessNext
<1> QED
  BY <1>1, AccessInvariant, PTL DEF AccessSpec, RevocationSticks

\* A revoked key is accepted no longer than the cache's TTL and the time of one
\* lookup after its revocation.
THEOREM AccessRevocationBounded == AccessSpec => RevocationBounded
<1>1. AccessInv /\ [AccessNext]_accessVars
        => [\A s \in Requests : key = "revoked" /\ Authenticates(s)
               => now <= revokedAt + CacheTTL + MaxWait]_accessVars
  <2> SUFFICES ASSUME AccessTyped, WaitInv, CacheInv, [AccessNext]_accessVars, NEW s \in Requests,
                      key = "revoked", Authenticates(s)
               PROVE  now <= revokedAt + CacheTTL + MaxWait
    BY DEF AccessInv, KeyInv
  <2> USE AccessAssumption DEF AccessAssumption
  <2>0. now \in Nat /\ cached \in Nat /\ revokedAt \in Nat /\ since \in [Requests -> Nat]
    BY DEF AccessTyped
  <2>1. stage'[s] # stage[s]
    BY DEF Authenticates
  <2>2. \E u \in Requests : Request(u)
    BY <2>1 DEF AccessNext, CreateApiKey, RevokeCommit, RevokeDelete, RevokeDeleteLost, Tick
  <2>3. Request(s)
    BY <2>1, <2>2, RequestCaches
  <2>4. CASE stage[s] = "set"
    <3>1. now <= since[s] + MaxWait /\ since[s] <= revokedAt
      BY <2>4 DEF WaitInv, CacheInv
    <3> QED
      BY <2>0, <3>1
  <2>5. CASE stage[s] = "idle"
    <3>1. cached > 0
      BY <2>3, <2>5 DEF Authenticates, Request, GetCached, Cached, LookupApiKey, CacheApiKey,
            TokenBucket, ClaimDedupeSlot, EmitRateLimited, RequestFails, Goto, AccessTyped
    <3>2. now < cached /\ cached <= revokedAt + MaxWait + CacheTTL
      BY <3>1 DEF CacheInv
    <3> QED
      BY <2>0, <3>2
  <2> QED
    BY <2>4, <2>5 DEF Authenticates
<1> QED
  BY <1>1, AccessInvariant, PTL DEF AccessSpec, RevocationBounded

\* n windows that began before the end of the current one are at most one more than
\* fit into the time that has passed.
LEMMA WindowsFit ==
    ASSUME NEW n \in Nat, NEW w \in Nat \ {0}, NEW t \in Nat, n * w < t + w
    PROVE  n <= t \div w + 1
<1> DEFINE q == t \div w
<1>1. q \in Nat /\ t < (q + 1) * w
  OBVIOUS
<1>2. n * w < (q + 2) * w
  BY <1>1
<1>3. ASSUME n >= q + 2 PROVE FALSE
  <2>1. n * w >= (q + 2) * w
    BY <1>1, <1>3
  <2> QED
    BY <1>1, <1>2, <2>1
<1> QED
  BY <1>1, <1>3

\* At most one rate_limited event per window.
THEOREM AccessOneNotice == AccessSpec => []OneNoticePerWindow
<1>1. AccessInv => OneNoticePerWindow
  <2> SUFFICES ASSUME AccessTyped, NoticeInv PROVE OneNoticePerWindow
    BY DEF AccessInv, KeyInv
  <2> USE AccessAssumption DEF AccessAssumption
  <2>1. /\ now \in Nat /\ slot \in Nat /\ notices \in Nat
        /\ Cardinality(Emitting) \in Nat
    BY FS_CardinalityType DEF AccessTyped, NoticeInv
  <2> DEFINE won == notices + Cardinality(Emitting)
  <2>2. won \in Nat /\ notices <= won
    BY <2>1
  <2>3. won * Window \in Nat
    BY <2>2
  <2>4. won * Window < now + Window
    BY <2>1, <2>3 DEF NoticeInv
  <2>5. won <= now \div Window + 1
    BY <2>1, <2>2, <2>4, WindowsFit
  <2>6. now \div Window \in Nat
    BY <2>1
  <2> QED
    BY <2>1, <2>2, <2>5, <2>6 DEF OneNoticePerWindow
<1> QED
  BY <1>1, AccessInvariant, PTL

\* A step of Refilled against the credit: what a caller whose clock says now + k finds,
\* and what the fastest clock could find after it, is in the credit there was and in
\* what the slower clock has set back.
LEMMA CreditSpent ==
    ASSUME NEW c \in Nat, NEW m \in Nat, NEW k \in 0..m, NEW n \in Nat, NEW t \in Nat, t = n + k,
           NEW tok \in 0..c, NEW last \in Nat
    PROVE  Least(c, tok + (IF t > last THEN t - last ELSE 0)) + (m - k)
             <= Least(c + m, tok + (n + m - last)) + (IF t < last THEN last - t ELSE 0)
  BY DEF Least

\* The windows and the bucket at the start.
LEMMA AdmissionStart == AccessInit => AdmissionInv
<1> SUFFICES ASSUME AccessInit PROVE AdmissionInv
  OBVIOUS
<1>1. AccessTyped
  BY AccessStart
<1>2. bucket = NoBucket /\ now = 1 /\ \A t \in 1..MaxTime : admitted[t] = 0 /\ regained[t] = 0
  BY DEF AccessInit
<1>3. BucketInv
  BY <1>2 DEF BucketInv
<1>4. Credit(bucket, now) = Full + MaxSkew /\ Credit(bucket, now) \in Nat
  BY <1>2, LimitConstants DEF Credit
<1>5. WindowInv
  BY <1>2, <1>4, LimitConstants DEF WindowInv
<1> QED
  BY <1>1, <1>3, <1>5 DEF AdmissionInv

\* A call of the script keeps the bucket and every window's account.
LEMMA TokenBucketKeeps ==
    ASSUME AdmissionInv, NEW s \in Requests, TokenBucket(s)
    PROVE  BucketInv' /\ WindowInv'
<1> USE LimitConstants
<1> DEFINE k == Skew[s]
           t == now + k
           tokens == Refilled(bucket, t)
           used == IF tokens >= Unit THEN 1 ELSE 0
           spent == IF tokens >= Unit THEN Unit ELSE 0
           back == IF t < bucket.last THEN bucket.last - t ELSE 0
           before == Credit(bucket, now)
           after == Credit(bucket', now')
<1>1. /\ now \in Nat \ {0} /\ bucket \in [tokens : Nat, last : Nat, expireAt : Nat]
      /\ admitted \in [1..MaxTime -> Nat] /\ regained \in [1..MaxTime -> Nat]
  BY DEF AdmissionInv, AccessTyped
<1>2. k \in Nat /\ k <= MaxSkew
  OBVIOUS
<1>3. t = now + k /\ t \in Nat \ {0} /\ bucket.last \in Nat
  BY <1>1, <1>2
<1>4. tokens \in 0..Full
  BY <1>1, <1>3, RefilledNat
<1>5. back \in Nat
  BY <1>3
<1>6. spent \in Nat /\ spent <= tokens
  BY <1>4
<1>7. used \in Nat /\ \A a \in Nat : Unit * (a + used) = Unit * a + spent
  <2>1. CASE tokens >= Unit
    BY <2>1
  <2>2. CASE ~(tokens >= Unit)
    BY <2>2
  <2> QED
    BY <2>1, <2>2
<1>8. now' = now /\ admitted' = AddSince(admitted, used) /\ regained' = AddSince(regained, back)
  BY DEF TokenBucket
<1>9. bucket' = [tokens |-> tokens - spent, last |-> t, expireAt |-> now + BucketTTL]
  BY <1>4 DEF TokenBucket
<1>10. tokens + (MaxSkew - k) <= before + back
  <2>1. CASE bucket = NoBucket
    <3>1. before = Full + MaxSkew
      BY <2>1 DEF Credit
    <3> HIDE DEF tokens, back, k
    <3> QED
      BY <1>2, <1>4, <1>5, <3>1
  <2>2. CASE bucket # NoBucket
    <3>1. bucket.tokens \in 0..Full
      BY <1>1, <2>2 DEF AdmissionInv, BucketInv
    <3>2. tokens = Least(Full, bucket.tokens + (IF t > bucket.last THEN t - bucket.last ELSE 0))
      <4> HIDE DEF t
      <4> QED
        BY <2>2, RefilledIs
    <3>3. before = Least(Full + MaxSkew, bucket.tokens + (now + MaxSkew - bucket.last))
      BY <2>2 DEF Credit
    <3>4. back = IF t < bucket.last THEN bucket.last - t ELSE 0
      OBVIOUS
    <3>5. k \in 0..MaxSkew
      BY <1>2
    <3> HIDE DEF tokens, back, t, k
    <3> QED
      BY <1>1, <1>3, <3>1, <3>2, <3>3, <3>4, <3>5, CreditSpent
  <2> QED
    BY <2>1, <2>2
<1> HIDE DEF tokens, used, spent, back, t, k
<1>11. /\ bucket' # NoBucket /\ bucket'.tokens = tokens - spent /\ bucket'.last = t
       /\ bucket'.expireAt = now + BucketTTL
  BY <1>1, <1>3, <1>9 DEF NoBucket
<1>12. BucketInv'
  BY <1>1, <1>2, <1>3, <1>4, <1>6, <1>8, <1>11 DEF BucketInv
<1>13. before \in Int
  BY <1>1 DEF Credit, Least
<1>14. after = Least(Full + MaxSkew, tokens - spent + (now + MaxSkew - t))
  BY <1>8, <1>11 DEF Credit
<1>15. after \in Int /\ after <= tokens - spent + (now + MaxSkew - t)
  BY <1>1, <1>3, <1>4, <1>6, <1>14 DEF Least
<1>16. after + spent <= before + back
  <2>1. now + MaxSkew - t = MaxSkew - k
    BY <1>1, <1>2, <1>3
  <2>2. after <= tokens - spent + (MaxSkew - k)
    BY <1>15, <2>1
  <2>3. tokens \in Nat
    BY <1>4
  <2>4. MaxSkew - k \in Int /\ tokens - spent \in Int
    BY <1>2, <1>6, <2>3
  <2>5. after + spent <= tokens + (MaxSkew - k)
    BY <1>6, <1>15, <2>2, <2>3, <2>4
  <2>6. after + spent \in Int /\ tokens + (MaxSkew - k) \in Int /\ before + back \in Int
    BY <1>5, <1>6, <1>13, <1>15, <2>3, <2>4
  <2> QED
    BY <1>10, <2>5, <2>6
<1>17. ASSUME NEW u \in 1..MaxTime
       PROVE  IF u <= now'
              THEN Unit * admitted'[u] + after <= Full + (now' - u) + MaxSkew + regained'[u]
              ELSE admitted'[u] = 0 /\ regained'[u] = 0
  <2>1. CASE u <= now
    <3>1. admitted'[u] = admitted[u] + used /\ regained'[u] = regained[u] + back
      BY <1>8, <2>1 DEF AddSince
    <3>2. Unit * admitted[u] + before <= Full + (now - u) + MaxSkew + regained[u]
      BY <2>1 DEF AdmissionInv, WindowInv
    <3>3. admitted[u] \in Nat /\ regained[u] \in Nat
      BY <1>1
    <3>4. Unit * admitted'[u] = Unit * admitted[u] + spent
      BY <1>7, <3>1, <3>3
    <3>5. Unit * admitted[u] \in Nat
      BY <3>3
    <3>6. now - u \in Nat
      BY <1>1, <2>1
    <3> DEFINE a == Unit * admitted[u]
               b == Full + (now - u) + MaxSkew
               r == regained[u]
    <3>7. a \in Int /\ b \in Int /\ r \in Int /\ a + before <= b + r
      BY <3>2, <3>3, <3>5, <3>6
    <3>8. a + spent + after <= b + (r + back)
      <4> HIDE DEF a, b, r
      <4> QED
        BY <1>5, <1>6, <1>13, <1>15, <1>16, <3>7
    <3> QED
      BY <1>8, <2>1, <3>1, <3>4, <3>8
  <2>2. CASE ~(u <= now)
    BY <1>8, <2>2 DEF AddSince, AdmissionInv, WindowInv
  <2> QED
    BY <2>1, <2>2
<1>18. WindowInv'
  BY <1>17 DEF WindowInv
<1> QED
  BY <1>12, <1>18

\* Time keeps them: the credit grows no faster than the clock, and a bucket that
\* expires had been filled.
LEMMA TickKeeps ==
    ASSUME SmallSkew, AdmissionInv, Tick
    PROVE  BucketInv' /\ WindowInv'
<1> USE LimitConstants
<1> DEFINE before == Credit(bucket, now)
           after == Credit(bucket', now')
<1>0. /\ now \in Nat
      /\ bucket \in [tokens : Nat, last : Nat, expireAt : Nat]
      /\ admitted \in [1..MaxTime -> Nat] /\ regained \in [1..MaxTime -> Nat]
  BY DEF AdmissionInv, AccessTyped
<1>1. now' = now + 1 /\ admitted' = admitted /\ regained' = regained
  BY DEF Tick
<1>2. bucket' = IF bucket.expireAt = now + 1 THEN NoBucket ELSE bucket
  BY DEF Tick
<1>3. BucketInv'
  BY <1>0, <1>1, <1>2 DEF AdmissionInv, BucketInv
<1>4. before \in Int /\ after \in Int /\ after <= before + 1 /\ after <= Full + MaxSkew
  <2>1. CASE bucket = NoBucket
    <3>1. bucket' = NoBucket
      BY <1>2, <2>1
    <3> QED
      BY <1>0, <2>1, <3>1 DEF Credit
  <2>2. CASE bucket # NoBucket /\ bucket.expireAt = now + 1
    <3>1. after = Full + MaxSkew
      BY <1>2, <2>2 DEF Credit
    <3>2. before = Least(Full + MaxSkew, bucket.tokens + (now + MaxSkew - bucket.last))
      BY <2>2 DEF Credit
    <3>3. bucket.last + BucketTTL <= now + 1 + MaxSkew /\ bucket.tokens \in Nat /\ bucket.last \in Nat
      BY <1>0, <2>2 DEF AdmissionInv, BucketInv
    <3>4. bucket.tokens + (now + MaxSkew - bucket.last) + 1 >= Full + MaxSkew
      BY <1>0, <3>3 DEF SmallSkew
    <3> QED
      BY <1>0, <3>1, <3>2, <3>3, <3>4 DEF Least
  <2>3. CASE bucket # NoBucket /\ bucket.expireAt # now + 1
    <3>1. after = Least(Full + MaxSkew, bucket.tokens + (now + 1 + MaxSkew - bucket.last))
      BY <1>1, <1>2, <2>3 DEF Credit
    <3>2. before = Least(Full + MaxSkew, bucket.tokens + (now + MaxSkew - bucket.last))
      BY <2>3 DEF Credit
    <3>3. bucket.tokens \in Nat /\ bucket.last \in Nat
      BY <1>0
    <3> QED
      BY <1>0, <3>1, <3>2, <3>3 DEF Least
  <2> QED
    BY <2>1, <2>2, <2>3
<1>5. ASSUME NEW u \in 1..MaxTime
      PROVE  IF u <= now'
             THEN Unit * admitted'[u] + after <= Full + (now' - u) + MaxSkew + regained'[u]
             ELSE admitted'[u] = 0 /\ regained'[u] = 0
  <2>1. CASE u <= now
    <3>1. Unit * admitted[u] + before <= Full + (now - u) + MaxSkew + regained[u]
      BY <2>1 DEF AdmissionInv, WindowInv
    <3>2. Unit * admitted[u] \in Nat /\ regained[u] \in Nat
      BY <1>0
    <3>3. /\ Unit * admitted'[u] = Unit * admitted[u] /\ regained'[u] = regained[u]
          /\ now' = now + 1
      BY <1>1
    <3>4. /\ now \in Int /\ u \in Int /\ Full \in Int /\ MaxSkew \in Int
          /\ before \in Int /\ after \in Int /\ after <= before + 1
      BY <1>0, <1>4
    <3> DEFINE spent == Unit * admitted[u]
    <3>5. spent \in Int /\ spent + before <= Full + (now - u) + MaxSkew + regained[u]
      BY <3>1, <3>2
    <3> HIDE DEF spent, before, after
    <3>6. spent + after <= Full + (now + 1 - u) + MaxSkew + regained[u] /\ u <= now + 1
      BY <2>1, <3>2, <3>4, <3>5
    <3>7. Unit * admitted'[u] = spent
      BY <3>3 DEF spent
    <3> QED
      BY <3>2, <3>3, <3>4, <3>5, <3>6, <3>7
  <2>2. CASE u = now + 1
    <3>1. admitted[u] = 0 /\ regained[u] = 0
      BY <1>0, <2>2 DEF AdmissionInv, WindowInv
    <3>2. Unit * admitted'[u] = 0 /\ regained'[u] = 0 /\ now' - u = 0 /\ u <= now'
      BY <1>0, <1>1, <2>2, <3>1
    <3> QED
      BY <1>4, <3>2
  <2>3. CASE u > now + 1
    <3>1. admitted[u] = 0 /\ regained[u] = 0
      BY <1>0, <2>3 DEF AdmissionInv, WindowInv
    <3> QED
      BY <1>0, <1>1, <2>3, <3>1
  <2> QED
    BY <1>0, <2>1, <2>2, <2>3
<1>6. WindowInv'
  BY <1>5 DEF WindowInv
<1> QED
  BY <1>3, <1>6

\* In any window the bucket lets through its capacity, what it earned in the window
\* and what slower clocks gave back, if the clocks differ by less than the minute that
\* its TTL has to spare.
THEOREM AccessAdmissionBounded == ASSUME SmallSkew PROVE AccessSpec => []AdmissionBounded
<1>1. AccessInit => AdmissionInv
  BY AdmissionStart
<1>2. AdmissionInv /\ [AccessNext]_accessVars => AdmissionInv'
  <2> SUFFICES ASSUME AdmissionInv, [AccessNext]_accessVars PROVE AdmissionInv'
    OBVIOUS
  <2>1. AccessTyped'
    BY AccessTypedStep DEF AdmissionInv
  <2> SUFFICES BucketInv' /\ WindowInv'
    BY <2>1 DEF AdmissionInv
  <2>2. ASSUME UNCHANGED <<now, bucket, admitted, regained>> PROVE BucketInv' /\ WindowInv'
    BY <2>2 DEF AdmissionInv, BucketInv, WindowInv, Credit
  <2>3. CASE CreateApiKey \/ RevokeCommit \/ RevokeDelete \/ RevokeDeleteLost
    BY <2>2, <2>3 DEF CreateApiKey, RevokeCommit, RevokeDelete, RevokeDeleteLost
  <2>4. ASSUME NEW s \in Requests, Request(s) PROVE BucketInv' /\ WindowInv'
    <3>1. CASE TokenBucket(s)
      BY <3>1, TokenBucketKeeps
    <3>2. CASE GetCached(s) \/ LookupApiKey(s) \/ CacheApiKey(s)
      BY <2>2, <3>2 DEF GetCached, LookupApiKey, CacheApiKey
    <3>3. CASE ClaimDedupeSlot(s) \/ EmitRateLimited(s) \/ RequestFails(s)
      BY <2>2, <3>3 DEF ClaimDedupeSlot, EmitRateLimited, RequestFails
    <3> QED
      BY <2>4, <3>1, <3>2, <3>3 DEF Request
  <2>5. CASE Tick
    BY <2>5, TickKeeps
  <2>6. CASE UNCHANGED accessVars
    BY <2>2, <2>6
  <2> QED
    BY <2>3, <2>4, <2>5, <2>6 DEF AccessNext
<1>3. AdmissionInv => AdmissionBounded
  <2> SUFFICES ASSUME AdmissionInv, NEW t \in 1..now
               PROVE  Unit * admitted[t] <= Unit * Capacity + (now - t) + MaxSkew + regained[t]
    BY DEF AdmissionBounded
  <2> USE LimitConstants
  <2>1. /\ now \in 1..MaxTime /\ bucket \in [tokens : Nat, last : Nat, expireAt : Nat]
        /\ admitted[t] \in Nat /\ regained[t] \in Nat
    BY DEF AdmissionInv, AccessTyped
  <2>2. Full = Unit * Capacity /\ Unit * admitted[t] \in Nat
    BY <2>1, AccessAssumption DEF AccessAssumption, Full
  <2>3. Credit(bucket, now) \in Nat
    BY <2>1, <2>2 DEF AdmissionInv, BucketInv, Credit, Least
  <2>4. Unit * admitted[t] + Credit(bucket, now) <= Full + (now - t) + MaxSkew + regained[t]
    BY <2>1 DEF AdmissionInv, WindowInv
  <2> QED
    BY <2>1, <2>2, <2>3, <2>4
<1> QED
  BY <1>1, <1>2, <1>3, PTL DEF AccessSpec
=============================================================================

------------------------------ MODULE Sessions ------------------------------
(***************************************************************************)
(* Accounts and sessions: register, login, refresh and logout of the API,  *)
(* and the dashboard's route handlers that call them with the session      *)
(* cookie of one browser: login, logout and the proxy, which refreshes the *)
(* session once when the API answers 401.                                  *)
(*                                                                         *)
(* Refresh tokens are numbered in the order they are issued; the session   *)
(* in the cookie is the number of its token pair.  Several requests of the *)
(* browser are under way at a time, and the browser sees the cookie a      *)
(* handler sets when that handler's answer arrives.                        *)
(***************************************************************************)
EXTENDS Naturals, FiniteSets

CONSTANTS
    Tabs,           \* concurrent requests of one browser
    Registrants,    \* concurrent registrations with one email address
    MaxTokens       \* bound on the token pairs issued

ASSUME SessionsAssumption ==
    /\ MaxTokens \in Nat

VARIABLES
    reg,        \* where each registration is
    users,      \* users rows with the email address
    orgs,       \* organizations rows made for it
    issued,     \* token pairs issued so far
    age,        \* of each pair: "fresh", "stale" (access token expired), "dead" (both)
    rotated,    \* of each pair: rotations of JWT_SECRET since it was signed; 2 is two or more
    live,       \* the refresh:{jti} keys in Redis
    cookie,     \* the browser's session cookie: a pair, sealed under SESSION_SECRET or an old one
    pc,         \* where each request is
    held,       \* the pair it read from the cookie
    got,        \* the pair the API gave it
    from,       \* history: the pair each pair was refreshed from, 0 for a login's
    raced,      \* history: pairs two refreshes of which were between GET and DEL at a time
    cut         \* history: a refresh or logout of the cookie's pair was cut off after its DEL

regVars == <<reg, users, orgs>>
tokenVars == <<issued, age, rotated, live>>
reqVars == <<pc, held, got>>
histVars == <<from, raced, cut>>
vars == <<regVars, tokenVars, cookie, reqVars, histVars>>

Pairs == 1..MaxTokens

NoCookie == [pair |-> 0, current |-> FALSE]

Init ==
    /\ reg = [r \in Registrants |-> "idle"] /\ users = 0 /\ orgs = 0
    /\ issued = 0 /\ live = {}
    /\ age = [n \in Pairs |-> "fresh"] /\ rotated = [n \in Pairs |-> 0]
    /\ cookie = NoCookie
    /\ pc = [t \in Tabs |-> "idle"] /\ held = [t \in Tabs |-> 0] /\ got = [t \in Tabs |-> 0]
    /\ from = [n \in Pairs |-> 0] /\ raced = {} /\ cut = FALSE

-----------------------------------------------------------------------------
(* Registration *)

\* findUnique by email: a taken address is a 409.
RegisterCheck(r) ==
    /\ reg[r] = "idle" /\ users = 0
    /\ reg' = [reg EXCEPT ![r] = "hash"]
    /\ UNCHANGED <<users, orgs, tokenVars, cookie, reqVars, histVars>>

\* Mutant: the organization is created outside the transaction.
RegisterCreateApart(r) ==
    /\ reg[r] = "hash"
    /\ reg' = [reg EXCEPT ![r] = "idle"]
    /\ orgs' = orgs + 1
    /\ users' = 1
    /\ UNCHANGED <<tokenVars, cookie, reqVars, histVars>>

\* The transaction that creates organization and owner, after the password has
\* been hashed: the unique email refuses the second user, and its organization
\* is rolled back with it.
RegisterCreate(r) ==
    /\ reg[r] = "hash"
    /\ reg' = [reg EXCEPT ![r] = "idle"]
    /\ IF users = 0 THEN users' = 1 /\ orgs' = orgs + 1
                    ELSE UNCHANGED <<users, orgs>>
    /\ UNCHANGED <<tokenVars, cookie, reqVars, histVars>>

-----------------------------------------------------------------------------
(* Tokens *)

\* Mutant: JWT_SECRET_PREVIOUS is not tried.
RefreshVerifiesCurrent(n) == age[n] # "dead" /\ rotated[n] = 0

\* verifyWithRotation of the refresh token of pair n: JWT_SECRET, and if that does
\* not verify it, JWT_SECRET_PREVIOUS.
RefreshVerifies(n) == age[n] # "dead" /\ rotated[n] <= 1

\* requireJwt with the access token of pair n.
AccessVerifies(n) == age[n] = "fresh" /\ rotated[n] <= 1

\* signAccessToken, signRefreshToken: always with the current secret.
Sign(n) == rotated' = [rotated EXCEPT ![n] = 0]

\* issueTokenPair: both tokens are signed and the refresh key is SET.  held is 0
\* for a login.
IssueTokenPair(t) ==
    /\ issued < MaxTokens
    /\ issued' = issued + 1
    /\ Sign(issued + 1)
    /\ live' = live \cup {issued + 1}
    /\ got' = [got EXCEPT ![t] = issued + 1]
    /\ from' = [from EXCEPT ![issued + 1] = held[t]]
    /\ UNCHANGED <<age, raced>>

\* The access token of a pair that someone has expires, and later its refresh
\* token and its key.
Age(n) ==
    /\ n \in live \cup {cookie.pair} \cup {held[t] : t \in Tabs} \cup {got[t] : t \in Tabs}
    /\ \/ age[n] = "fresh" /\ age' = [age EXCEPT ![n] = "stale"] /\ UNCHANGED live
       \/ age[n] = "stale" /\ age' = [age EXCEPT ![n] = "dead"] /\ live' = live \ {n}
    /\ UNCHANGED <<regVars, issued, rotated, cookie, reqVars, histVars>>

\* JWT_SECRET becomes JWT_SECRET_PREVIOUS and a new one takes its place.
RotateSecret ==
    /\ rotated' = [n \in Pairs |-> IF n <= issued /\ rotated[n] < 2 THEN rotated[n] + 1 ELSE rotated[n]]
    /\ UNCHANGED <<regVars, issued, age, live, cookie, reqVars, histVars>>

-----------------------------------------------------------------------------
(* The session cookie *)

\* encryptSession and decryptSession: a token sealed under another secret is no
\* session, 0.
EncryptSession(n) == [pair |-> n, current |-> TRUE]
DecryptSession(token) == IF token.current THEN token.pair ELSE 0

\* getSession and setSession.
GetSession == IF cookie = NoCookie THEN 0 ELSE DecryptSession(cookie)
SetSession(n) == cookie' = EncryptSession(n) /\ cut' = FALSE

\* The dashboard is restarted with another SESSION_SECRET: everyone is logged out.
ChangeSessionSecret ==
    /\ cookie' = [cookie EXCEPT !.current = FALSE]
    /\ UNCHANGED <<regVars, tokenVars, reqVars, histVars>>

-----------------------------------------------------------------------------
(* Login *)

\* login: the account exists and verifyPasswordConstantTime accepts the password.
Accepts(password) == users > 0 /\ password = "right"

\* The login route of the dashboard; a refusal of the API is passed on.
Login(t) ==
    /\ pc[t] = "idle"
    /\ \E password \in {"right", "wrong"} : Accepts(password)
    /\ IssueTokenPair(t)
    /\ pc' = [pc EXCEPT ![t] = "answer"]
    /\ UNCHANGED <<regVars, cookie, held, cut>>

-----------------------------------------------------------------------------
(* The proxy and refresh *)

\* getSession of the request's cookie, and the first call: anything but a 401 is
\* passed on.
ProxyCall(t) ==
    /\ pc[t] = "idle" /\ GetSession # 0 /\ ~AccessVerifies(GetSession)
    /\ held' = [held EXCEPT ![t] = GetSession]
    /\ pc' = [pc EXCEPT ![t] = "refresh"]
    /\ UNCHANGED <<regVars, tokenVars, cookie, got, histVars>>

\* refresh: the token is verified and its key read; who does not find it gets the
\* 401 of the first call.
RefreshGet(t) ==
    /\ pc[t] = "refresh"
    /\ IF RefreshVerifies(held[t]) /\ held[t] \in live
         THEN /\ pc' = [pc EXCEPT ![t] = "del"] /\ UNCHANGED held
              /\ raced' = raced \cup {held[u] : u \in {v \in Tabs : pc[v] = "del" /\ held[v] = held[t]}}
         ELSE /\ pc' = [pc EXCEPT ![t] = "idle"] /\ held' = [held EXCEPT ![t] = 0]
              /\ UNCHANGED raced
    /\ UNCHANGED <<regVars, tokenVars, cookie, got, from, cut>>

\* Mutant: the old token is left for its expiry.
RefreshDelNot(t) ==
    /\ pc[t] = "del"
    /\ pc' = [pc EXCEPT ![t] = "issue"]
    /\ UNCHANGED <<regVars, tokenVars, cookie, held, got, histVars>>

\* Rotate first: DEL of the old key, whether or not it is still there.
RefreshDel(t) ==
    /\ pc[t] = "del"
    /\ live' = live \ {held[t]}
    /\ pc' = [pc EXCEPT ![t] = "issue"]
    /\ UNCHANGED <<regVars, issued, age, rotated, cookie, held, got, histVars>>

\* The user is read again and a new pair issued.
RefreshIssue(t) ==
    /\ pc[t] = "issue"
    /\ IssueTokenPair(t)
    /\ pc' = [pc EXCEPT ![t] = "answer"]
    /\ UNCHANGED <<regVars, cookie, held, cut>>

\* Postgres or Redis fails, or the API dies, at any point of a refresh.
RefreshFails(t) ==
    /\ pc[t] \in {"refresh", "del", "issue"}
    /\ cut' = (cut \/ (pc[t] = "issue" /\ held[t] = cookie.pair))
    /\ pc' = [pc EXCEPT ![t] = "idle"] /\ held' = [held EXCEPT ![t] = 0]
    /\ UNCHANGED <<regVars, tokenVars, cookie, got, from, raced>>

\* setSession with the new pair: the answer to a login, or to the proxied call
\* that was made again, reaches the browser.
Answer(t) ==
    /\ pc[t] = "answer"
    /\ SetSession(got[t])
    /\ pc' = [pc EXCEPT ![t] = "idle"] /\ held' = [held EXCEPT ![t] = 0] /\ got' = [got EXCEPT ![t] = 0]
    /\ UNCHANGED <<regVars, tokenVars, from, raced>>

\* ... or does not.
AnswerLost(t) ==
    /\ pc[t] = "answer"
    /\ cut' = (cut \/ held[t] = cookie.pair)
    /\ pc' = [pc EXCEPT ![t] = "idle"] /\ held' = [held EXCEPT ![t] = 0] /\ got' = [got EXCEPT ![t] = 0]
    /\ UNCHANGED <<regVars, tokenVars, cookie, from, raced>>

-----------------------------------------------------------------------------
(* Logout *)

\* The logout route reads the session ...
Logout(t) ==
    /\ pc[t] = "idle" /\ GetSession # 0
    /\ held' = [held EXCEPT ![t] = GetSession]
    /\ pc' = [pc EXCEPT ![t] = "logout"]
    /\ UNCHANGED <<regVars, tokenVars, cookie, got, histVars>>

\* ... the API deletes the key of a token that verifies; that it could not, or was
\* not reached, is ignored ...
LogoutDel(t) ==
    /\ pc[t] = "logout"
    /\ \/ RefreshVerifies(held[t]) /\ live' = live \ {held[t]}
       \/ UNCHANGED live
    /\ pc' = [pc EXCEPT ![t] = "clear"]
    /\ UNCHANGED <<regVars, issued, age, rotated, cookie, held, got, histVars>>

\* ... and the cookie is cleared, if the answer arrives.
ClearSession(t) ==
    /\ pc[t] = "clear"
    /\ \/ cookie' = NoCookie /\ cut' = FALSE
       \/ cut' = (cut \/ held[t] = cookie.pair) /\ UNCHANGED cookie
    /\ pc' = [pc EXCEPT ![t] = "idle"] /\ held' = [held EXCEPT ![t] = 0]
    /\ UNCHANGED <<regVars, tokenVars, got, from, raced>>

-----------------------------------------------------------------------------

Next ==
    \/ \E r \in Registrants : RegisterCheck(r) \/ RegisterCreate(r)
    \/ \E n \in Pairs : Age(n)
    \/ RotateSecret \/ ChangeSessionSecret
    \/ \E t \in Tabs :
          \/ Login(t) \/ ProxyCall(t) \/ RefreshGet(t) \/ RefreshDel(t) \/ RefreshIssue(t)
          \/ RefreshFails(t) \/ Answer(t) \/ AnswerLost(t)
          \/ Logout(t) \/ LogoutDel(t) \/ ClearSession(t)

Spec == Init /\ [][Next]_vars

-----------------------------------------------------------------------------
(* Properties *)

\* Two registrations that both find the address free leave one account, and
\* neither leaves an organization without its owner.
OneAccount == users <= 1 /\ orgs = users

\* What refresh asks of the token of pair n: it verifies and its key is there.
Refreshable(n) == RefreshVerifies(n) /\ n \in live

\* However the tabs' refreshes interleave and in whatever order their answers
\* arrive, the session the browser is left with can be refreshed, also after one
\* rotation of JWT_SECRET since its pair was signed.  Only an expired token, two
\* rotations, a refresh or logout cut off after its DEL, or one still under way
\* leave it with one that cannot.
CookieUsable ==
    GetSession # 0 /\ ~Refreshable(GetSession)
        => \/ age[GetSession] = "dead"
           \/ rotated[GetSession] = 2
           \/ cut
           \/ \E t \in Tabs : held[t] = GetSession /\ pc[t] \in {"issue", "answer", "clear"}

\* The pairs that refreshes with the token of pair n have got.
Successors(n) == {m \in 1..issued : from[m] = n}

\* The reuse detection of refresh (service.ts:125-134), as far as it goes: a refresh
\* token that is sent again is refused, and one pair comes of it at most, whatever
\* logouts, expiries, lost answers and failures there are.  The exception, which the
\* comments do not make, is two refreshes that read the key before either deletes it:
\* GET and DEL are two commands, both refreshes get a pair, and both pairs are live.
ReplayRefused ==
    \A n \in Pairs \ raced : \A k, m \in Successors(n) : k = m
=============================================================================

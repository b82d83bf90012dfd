------------------------------ MODULE LoginFlow ------------------------------
(***************************************************************************)
(* The login flow of oauth2-proxy: OAuthStart and OAuthCallback of           *)
(* oauthproxy.go and the CSRF cookies of pkg/cookies/csrf.go, with browsers  *)
(* that run several logins at once and an identity provider.                 *)
(*                                                                          *)
(* A flow stands for one call of OAuthStart and for all that is made from    *)
(* its random values: the OAuth state, the nonce, the code verifier, and the *)
(* code that the provider issues for it.  A callback is one request for      *)
(* OAuthCallback; a reload, or the same link in another browser, is a        *)
(* callback of its own.  Requests carry the cookies that the browser held    *)
(* when they were sent, and responses may arrive in any order.               *)
(***************************************************************************)
EXTENDS Integers, FiniteSets, FiniteSetsExt

CONSTANTS
  Browsers,
  Flows,
  Calls,              \* the requests for OAuthCallback
  NoFlow,             \* no login, or no CSRF cookie
  CSRFPerRequest,     \* opts.Cookie.CSRFPerRequest
  CSRFPerRequestLimit,\* opts.Cookie.CSRFPerRequestLimit
  CSRFExpire,         \* opts.Cookie.CSRFExpire
  StateSubstring,     \* first characters of the hashed OAuth state of each flow
  PKCE,               \* the provider checks a code challenge
  MaxTime             \* bound on the clock

ASSUME FlowAssumption ==
  /\ NoFlow \notin Flows /\ IsFiniteSet(Flows)
  /\ {CSRFPerRequestLimit, CSRFExpire, MaxTime} \subseteq Nat
  /\ {CSRFPerRequest, PKCE} \subseteq BOOLEAN
  /\ StateSubstring \in [Flows -> Nat \ {0}]

VARIABLES
  now,       \* the clock, in seconds
  jar,       \* browser -> cookie name -> CSRF cookie
  session,   \* browser -> flow of the session it is logged in with
  stage,     \* where each flow is
  owner,     \* the browser that started the flow
  carried,   \* the CSRF cookies in the request for OAuthStart
  extra,     \* the cookies its response clears
  signed,    \* when the CSRF cookie of the flow was signed
  code,      \* flows whose code the provider still accepts
  pc,        \* where each callback is
  url,       \* the flow whose state and code are in the callback's URL
  browser,   \* the browser that sent the callback
  cookies,   \* the CSRF cookies in the callback
  csrf,      \* the flow of the CSRF cookie that was loaded
  clears,    \* the response clears the CSRF cookie
  result     \* "session" when the response logs the browser in

flowVars == <<stage, owner, carried, extra, signed>>
callVars == <<pc, url, browser, cookies, csrf, clears, result>>
vars == <<now, jar, session, code, flowVars, callVars>>

Names == {0} \cup {StateSubstring[f] : f \in Flows}

\* A CSRF cookie: whose random values it holds, and when it was signed.
Csrf == [flow: Flows \cup {NoFlow}, ts: Nat]
NoCsrf == [flow |-> NoFlow, ts |-> 0]
Cookies == [Names -> Csrf]
NoCookies == [n \in Names |-> NoCsrf]

TypeOK ==
  /\ now \in Nat
  /\ jar \in [Browsers -> Cookies]
  /\ session \in [Browsers -> Flows \cup {NoFlow}]
  /\ stage \in [Flows -> {"idle", "start", "redirect", "atIdP", "issued"}]
  /\ owner \in [Flows -> Browsers]
  /\ carried \in [Flows -> Cookies]
  /\ extra \in [Flows -> SUBSET Names]
  /\ signed \in [Flows -> Nat]
  /\ code \subseteq Flows
  /\ pc \in [Calls -> {"idle", "redeem", "check", "respond", "done"}]
  /\ url \in [Calls -> Flows \cup {NoFlow}]
  /\ browser \in [Calls -> Browsers]
  /\ cookies \in [Calls -> Cookies]
  /\ csrf \in [Calls -> Flows \cup {NoFlow}]
  /\ clears \in [Calls -> BOOLEAN]
  /\ result \in [Calls -> {"none", "error", "session"}]

-----------------------------------------------------------------------------
\* A bug to compare with: the option is not looked at.
FixedCookieName(f) == 0

\* csrf.cookieName, GenerateCookieName and csrfCookieName: 0 is the fixed name.
CookieName(f) == IF CSRFPerRequest THEN StateSubstring[f] ELSE 0

\* decodeCSRFCookie: the signature covers the time of signing.
Valid(c) == c.flow # NoFlow /\ (CSRFExpire = 0 \/ c.ts > now - CSRFExpire)

Present(cs) == {n \in Names : cs[n].flow # NoFlow}

Decoded(cs) == {n \in Names : Valid(cs[n])}

\* A bug to compare with: the newest cookies are removed.
NewestCsrfCookies(cs) ==
  IF ~CSRFPerRequest \/ CSRFPerRequestLimit = 0
       \/ Cardinality(Present(cs)) <= CSRFPerRequestLimit
  THEN {{}}
  ELSE LET d == Decoded(cs)
           n == IF Cardinality(d) > CSRFPerRequestLimit
                THEN Cardinality(d) - CSRFPerRequestLimit ELSE 0
       IN {s \in kSubset(n, d) :
             \A old \in s, kept \in d \ s : cs[old].ts >= cs[kept].ts}

\* ClearExtraCsrfCookies: when there are more than the limit, the oldest of
\* those that decode are cleared until the limit is left.  Cookies signed in
\* the same second are in the order of the request, which is the browser's.
ExtraCsrfCookies(cs) ==
  IF ~CSRFPerRequest \/ CSRFPerRequestLimit = 0
       \/ Cardinality(Present(cs)) <= CSRFPerRequestLimit
  THEN {{}}
  ELSE LET d == Decoded(cs)
           n == IF Cardinality(d) > CSRFPerRequestLimit
                THEN Cardinality(d) - CSRFPerRequestLimit ELSE 0
       IN {s \in kSubset(n, d) :
             \A old \in s, kept \in d \ s : cs[old].ts <= cs[kept].ts}

\* LoadCSRFCookie by the name that goes with the state of flow f.
LoadCSRFCookie(cs, f) ==
  IF Valid(cs[CookieName(f)]) THEN cs[CookieName(f)].flow ELSE NoFlow

-----------------------------------------------------------------------------
Init ==
  /\ now = 0
  /\ jar = [b \in Browsers |-> NoCookies]
  /\ session = [b \in Browsers |-> NoFlow]
  /\ stage = [f \in Flows |-> "idle"]
  /\ owner \in [Flows -> Browsers]
  /\ carried = [f \in Flows |-> NoCookies]
  /\ extra = [f \in Flows |-> {}]
  /\ signed = [f \in Flows |-> 0]
  /\ code = {}
  /\ pc = [c \in Calls |-> "idle"]
  /\ url = [c \in Calls |-> NoFlow]
  /\ browser \in [Calls -> Browsers]
  /\ cookies = [c \in Calls |-> NoCookies]
  /\ csrf = [c \in Calls |-> NoFlow]
  /\ clears = [c \in Calls |-> FALSE]
  /\ result = [c \in Calls |-> "none"]

\* The browser sends the request for OAuthStart.
SendStart(f) ==
  /\ stage[f] = "idle"
  /\ stage' = [stage EXCEPT ![f] = "start"]
  /\ carried' = [carried EXCEPT ![f] = jar[owner[f]]]
  /\ UNCHANGED <<now, jar, session, owner, extra, signed, code, callVars>>

\* doOAuthStart: new random values, extra cookies are cleared, the new cookie
\* is signed with the time.
OAuthStart(f) ==
  /\ stage[f] = "start"
  /\ stage' = [stage EXCEPT ![f] = "redirect"]
  /\ \E s \in ExtraCsrfCookies(carried[f]) : extra' = [extra EXCEPT ![f] = s]
  /\ signed' = [signed EXCEPT ![f] = now]
  /\ carried' = [carried EXCEPT ![f] = NoCookies]
  /\ UNCHANGED <<now, jar, session, owner, code, callVars>>

\* The response of OAuthStart reaches the browser, which follows the redirect
\* to the provider.
FollowRedirect(f) ==
  /\ stage[f] = "redirect"
  /\ stage' = [stage EXCEPT ![f] = "atIdP"]
  /\ jar' = [jar EXCEPT ![owner[f]] = [n \in Names |->
                IF n = CookieName(f) THEN [flow |-> f, ts |-> signed[f]]
                ELSE IF n \in extra[f] THEN NoCsrf ELSE @[n]]]
  /\ UNCHANGED <<now, session, owner, carried, extra, signed, code, callVars>>

\* The user logs in at the provider, which issues a code.
Authenticate(f) ==
  /\ stage[f] = "atIdP"
  /\ stage' = [stage EXCEPT ![f] = "issued"]
  /\ code' = code \cup {f}
  /\ UNCHANGED <<now, jar, session, owner, carried, extra, signed, callVars>>

\* A browser opens the provider's redirect to the callback, for the first time
\* or again.
SendCallback(c, f) ==
  /\ pc[c] = "idle" /\ stage[f] = "issued"
  /\ pc' = [pc EXCEPT ![c] = "redeem"]
  /\ url' = [url EXCEPT ![c] = f]
  /\ cookies' = [cookies EXCEPT ![c] = jar[browser[c]]]
  /\ UNCHANGED <<now, jar, session, code, browser, csrf, clears, result, flowVars>>

\* OAuthCallback up to redeemCode: without a valid cookie of the right name it
\* ends; otherwise the code is redeemed with that cookie's verifier.  The
\* provider invalidates a code that is presented, or, when the verifier is
\* wrong, may keep it.  Any failure ends the callback before the cookie is
\* cleared.
RedeemCode(c) ==
  LET f == url[c]
      loaded == LoadCSRFCookie(cookies[c], f)
      accepted == f \in code /\ (PKCE => loaded = f)
  IN /\ pc[c] = "redeem"
     /\ csrf' = [csrf EXCEPT ![c] = loaded]
     /\ \/ /\ loaded # NoFlow /\ accepted
           /\ pc' = [pc EXCEPT ![c] = "check"]
           /\ code' = code \ {f}
           /\ UNCHANGED result
        \/ /\ loaded # NoFlow
           /\ code' \in {code, code \ {f}}
           /\ pc' = [pc EXCEPT ![c] = "respond"]
           /\ result' = [result EXCEPT ![c] = "error"]
        \/ /\ loaded = NoFlow
           /\ pc' = [pc EXCEPT ![c] = "respond"]
           /\ result' = [result EXCEPT ![c] = "error"]
           /\ UNCHANGED code
     /\ UNCHANGED <<now, jar, session, url, browser, cookies, clears, flowVars>>

\* A bug to compare with: the state is not compared.
SkipStateCheck(c) ==
  /\ pc[c] = "check"
  /\ pc' = [pc EXCEPT ![c] = "respond"]
  /\ clears' = [clears EXCEPT ![c] = TRUE]
  /\ \E r \in {"error", "session"} : result' = [result EXCEPT ![c] = r]
  /\ UNCHANGED <<now, jar, session, code, url, browser, cookies, csrf, flowVars>>

\* A bug to compare with: the cookie is left for the browser to expire.
KeepCsrfCookie(c) ==
  /\ pc[c] = "check"
  /\ pc' = [pc EXCEPT ![c] = "respond"]
  /\ \E ok \in BOOLEAN :
       result' = [result EXCEPT ![c] =
                    IF csrf[c] = url[c] /\ ok THEN "session" ELSE "error"]
  /\ UNCHANGED <<now, jar, session, code, url, browser, cookies, csrf, clears, flowVars>>

\* OAuthCallback from the enrichment on.  A failure to enrich the session ends
\* it with the cookie left alone.  Otherwise the cookie is cleared, and the
\* session is saved if the cookie's state is that of the URL and the provider,
\* the email validator and the session store agree.
CheckAndSave(c) ==
  /\ pc[c] = "check"
  /\ pc' = [pc EXCEPT ![c] = "respond"]
  /\ \/ /\ result' = [result EXCEPT ![c] = "error"]
        /\ UNCHANGED clears
     \/ /\ clears' = [clears EXCEPT ![c] = TRUE]
        /\ \E ok \in BOOLEAN :
             result' = [result EXCEPT ![c] =
                          IF csrf[c] = url[c] /\ ok THEN "session" ELSE "error"]
  /\ UNCHANGED <<now, jar, session, code, url, browser, cookies, csrf, flowVars>>

\* The response reaches the browser.  The cookie is cleared by the name that
\* goes with the cookie that was loaded.
Respond(c) ==
  /\ pc[c] = "respond"
  /\ pc' = [pc EXCEPT ![c] = "done"]
  /\ jar' = IF clears[c]
            THEN [jar EXCEPT ![browser[c]] = [@ EXCEPT ![CookieName(csrf[c])] = NoCsrf]]
            ELSE jar
  /\ session' = IF result[c] = "session"
                THEN [session EXCEPT ![browser[c]] = url[c]] ELSE session
  /\ cookies' = [cookies EXCEPT ![c] = NoCookies]
  /\ UNCHANGED <<now, code, url, browser, csrf, clears, result, flowVars>>

Tick ==
  /\ now < MaxTime
  /\ now' = now + 1
  /\ UNCHANGED <<jar, session, code, flowVars, callVars>>

Next ==
  \/ \E f \in Flows : SendStart(f) \/ OAuthStart(f) \/ FollowRedirect(f) \/ Authenticate(f)
  \/ \E c \in Calls : RedeemCode(c) \/ CheckAndSave(c) \/ Respond(c)
  \/ \E c \in Calls, f \in Flows : SendCallback(c, f)
  \/ Tick

Spec == Init /\ [][Next]_vars

-----------------------------------------------------------------------------
\* A browser is logged in only by a flow that it has started itself: a callback
\* whose state was made for another browser, or another login of the same
\* browser, does not save a session.
SessionFromOwnFlow ==
  \A b \in Browsers : session[b] # NoFlow => owner[session[b]] = b

\* With CSRFPerRequest, logins in several tabs do not disturb each other: a flow
\* that waits for its callback keeps its cookie, unless another flow shares its
\* state substring or the limit has pushed it out.
ParallelLoginsKeepCookies ==
  \A f \in Flows :
    /\ CSRFPerRequest /\ stage[f] \in {"atIdP", "issued"}
    /\ \A g \in Flows \ {f} : StateSubstring[g] # StateSubstring[f]
                              /\ CookieName(f) \notin extra[g]
    /\ \A c \in Calls : csrf[c] = f => ~clears[c]
    => jar[owner[f]][CookieName(f)].flow = f

\* A login that has saved a session leaves no CSRF cookie behind: opening the
\* same link again cannot reach the provider.
FinishedFlowLeavesNoCookie ==
  \A c \in Calls :
    pc[c] = "done" /\ result[c] = "session" =>
      jar[browser[c]][CookieName(url[c])].flow # url[c]

\* ClearExtraCsrfCookies pushes a login out only when the limit is used up by
\* others: a cookie that the response to f clears is that of another login g of
\* the same browser, and beside f and g this browser has started
\* CSRFPerRequestLimit logins no earlier than g.
NoEarlier(f, g) ==
  {h \in Flows \ {f, g} : /\ owner[h] = owner[f] /\ stage[h] \notin {"idle", "start"}
                          /\ signed[h] >= signed[g]}

PushedOutByNewer ==
  \A f \in Flows : \A n \in extra[f] : \E g \in Flows \ {f} :
    /\ CookieName(g) = n /\ owner[g] = owner[f] /\ stage[g] \in {"atIdP", "issued"}
    /\ Cardinality(NoEarlier(f, g)) >= CSRFPerRequestLimit
=============================================================================

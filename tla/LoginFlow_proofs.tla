--------------------------- MODULE LoginFlow_proofs ---------------------------
(***************************************************************************)
(* Proofs about LoginFlow, for any browsers, logins, callbacks and options,  *)
(* also for state substrings that collide.                                   *)
(***************************************************************************)
EXTENDS LoginFlow, FiniteSetTheorems, TLAPS

\* The browser of every CSRF cookie, in the jar or on its way in a callback,
\* is the one that started the cookie's flow.
Own(b, cs) == \A n \in Names : cs[n].flow # NoFlow => owner[cs[n].flow] = b

CookiesOfOwnFlow ==
  /\ \A b \in Browsers : Own(b, jar[b])
  /\ \A c \in Calls : Own(browser[c], cookies[c])
  /\ \A c \in Calls : csrf[c] # NoFlow => owner[csrf[c]] = browser[c]

\* Only a callback whose cookie was made for its state saves a session.
SavedByOwnCookie ==
  \A c \in Calls : result[c] = "session" =>
    csrf[c] = url[c] /\ url[c] # NoFlow /\ pc[c] \in {"respond", "done"}

\* What the state machine needs of its types.
Shape ==
  /\ owner \in [Flows -> Browsers]
  /\ browser \in [Calls -> Browsers]
  /\ jar \in [Browsers -> Cookies]
  /\ session \in [Browsers -> Flows \cup {NoFlow}]
  /\ pc \in [Calls -> {"idle", "redeem", "check", "respond", "done"}]
  /\ url \in [Calls -> Flows \cup {NoFlow}]
  /\ cookies \in [Calls -> Cookies]
  /\ csrf \in [Calls -> Flows \cup {NoFlow}]
  /\ result \in [Calls -> {"none", "error", "session"}]
  /\ \A c \in Calls : pc[c] \in {"redeem", "check"} => url[c] \in Flows
  /\ \A c \in Calls : pc[c] = "check" => csrf[c] \in Flows
  /\ now \in Nat /\ signed \in [Flows -> Nat]

OwnInv == Shape /\ CookiesOfOwnFlow /\ SavedByOwnCookie /\ SessionFromOwnFlow

\* Nobody is logged in at first, and no cookie is held.
LEMMA OwnInit == Init => OwnInv
<1> SUFFICES ASSUME Init PROVE OwnInv
  OBVIOUS
<1>1. NoCookies \in Cookies /\ \A n \in Names : NoCookies[n].flow = NoFlow
  BY DEF NoCookies, Cookies, NoCsrf, Csrf
<1>2. Shape
  BY <1>1 DEF Init, Shape
<1>3. CookiesOfOwnFlow
  BY <1>1 DEF Init, CookiesOfOwnFlow, Own
<1>4. SavedByOwnCookie /\ SessionFromOwnFlow
  BY DEF Init, SavedByOwnCookie, SessionFromOwnFlow
<1> QED
  BY <1>2, <1>3, <1>4 DEF OwnInv

\* Every step keeps the random values of a login with the browser that started it.
LEMMA OwnStep ==
  ASSUME OwnInv, [Next]_vars
  PROVE  OwnInv'
<1> USE DEF OwnInv, Shape, CookiesOfOwnFlow, SavedByOwnCookie, SessionFromOwnFlow
<1>1. ASSUME NEW f \in Flows, SendStart(f) PROVE OwnInv'
  BY <1>1 DEF SendStart, callVars, Own
<1>2. ASSUME NEW f \in Flows, OAuthStart(f) PROVE OwnInv'
  BY <1>2 DEF OAuthStart, callVars, Own
<1>3. ASSUME NEW f \in Flows, FollowRedirect(f) PROVE OwnInv'
  <2> DEFINE J == [n \in Names |->
                     IF n = CookieName(f) THEN [flow |-> f, ts |-> signed[f]]
                     ELSE IF n \in extra[f] THEN NoCsrf ELSE jar[owner[f]][n]]
  <2>1. /\ jar' = [jar EXCEPT ![owner[f]] = J]
        /\ UNCHANGED <<now, session, owner, signed, pc, url, browser, cookies, csrf, result>>
    BY <1>3 DEF FollowRedirect, callVars
  <2>2. J \in Cookies
    BY DEF Cookies, Csrf, NoCsrf
  <2>3. Own(owner[f], J)
    BY DEF Own, NoCsrf
  <2> HIDE DEF J
  <2>4. jar' \in [Browsers -> Cookies]
    BY <2>1, <2>2
  <2>5. \A b \in Browsers : Own(b, jar'[b])
    BY <2>1, <2>3
  <2> QED
    BY <2>1, <2>4, <2>5 DEF Own
<1>4. ASSUME NEW f \in Flows, Authenticate(f) PROVE OwnInv'
  BY <1>4 DEF Authenticate, callVars, Own
<1>5. ASSUME NEW c \in Calls, NEW f \in Flows, SendCallback(c, f) PROVE OwnInv'
  <2>1. /\ pc[c] = "idle" /\ pc' = [pc EXCEPT ![c] = "redeem"]
        /\ url' = [url EXCEPT ![c] = f]
        /\ cookies' = [cookies EXCEPT ![c] = jar[browser[c]]]
        /\ UNCHANGED <<now, jar, session, browser, csrf, result, owner, signed>>
    BY <1>5 DEF SendCallback, flowVars
  <2>2. \A d \in Calls : Own(browser[d], cookies'[d])
    BY <2>1
  <2> QED
    BY <2>1, <2>2 DEF Own
<1>6. ASSUME NEW c \in Calls, RedeemCode(c) PROVE OwnInv'
  <2> DEFINE loaded == LoadCSRFCookie(cookies[c], url[c])
  <2>1. /\ pc[c] = "redeem"
        /\ csrf' = [csrf EXCEPT ![c] = loaded]
        /\ \/ /\ loaded # NoFlow
              /\ pc' = [pc EXCEPT ![c] = "check"]
              /\ result' = result
           \/ /\ pc' = [pc EXCEPT ![c] = "respond"]
              /\ result' = [result EXCEPT ![c] = "error"]
        /\ UNCHANGED <<now, jar, session, owner, signed, url, browser, cookies>>
    BY <1>6 DEF RedeemCode, flowVars
  <2>2. url[c] \in Flows /\ cookies[c] \in Cookies /\ Own(browser[c], cookies[c])
    BY <2>1
  <2>3. CookieName(url[c]) \in Names
    BY <2>2 DEF CookieName, Names
  <2>4. loaded \in Flows \cup {NoFlow} /\ (loaded # NoFlow => owner[loaded] = browser[c])
    BY <2>2, <2>3 DEF LoadCSRFCookie, Valid, Own, Cookies, Csrf
  <2> HIDE DEF loaded
  <2>5. Shape'
    BY <2>1, <2>4
  <2>6. CookiesOfOwnFlow'
    BY <2>1, <2>4 DEF Own
  <2>7. SavedByOwnCookie' /\ SessionFromOwnFlow'
    BY <2>1
  <2> QED
    BY <2>5, <2>6, <2>7
<1>7. ASSUME NEW c \in Calls, CheckAndSave(c) PROVE OwnInv'
  <2>1. /\ pc[c] = "check" /\ pc' = [pc EXCEPT ![c] = "respond"]
        /\ \E r \in {"error", "session"} :
             /\ result' = [result EXCEPT ![c] = r]
             /\ r = "session" => csrf[c] = url[c]
        /\ UNCHANGED <<now, jar, session, owner, signed, url, browser, cookies, csrf>>
    BY <1>7 DEF CheckAndSave, flowVars
  <2>2. Shape'
    BY <2>1
  <2>3. CookiesOfOwnFlow' /\ SessionFromOwnFlow'
    BY <2>1 DEF Own
  <2>4. SavedByOwnCookie'
    BY <2>1, FlowAssumption
  <2> QED
    BY <2>2, <2>3, <2>4
<1>8. ASSUME NEW c \in Calls, Respond(c) PROVE OwnInv'
  <2> DEFINE b == browser[c]
             J == [jar[b] EXCEPT ![CookieName(csrf[c])] = NoCsrf]
  <2>1. /\ pc[c] = "respond" /\ pc' = [pc EXCEPT ![c] = "done"]
        /\ jar' = jar \/ jar' = [jar EXCEPT ![b] = J]
        /\ session' = IF result[c] = "session"
                      THEN [session EXCEPT ![b] = url[c]] ELSE session
        /\ cookies' = [cookies EXCEPT ![c] = NoCookies]
        /\ UNCHANGED <<now, owner, signed, url, browser, csrf, result>>
    BY <1>8 DEF Respond, flowVars
  <2>2. b \in Browsers /\ jar[b] \in Cookies /\ Own(b, jar[b])
    OBVIOUS
  <2>3. J \in Cookies /\ Own(b, J)
    BY <2>2 DEF Cookies, Csrf, NoCsrf, Own
  <2>4. NoCookies \in Cookies /\ Own(b, NoCookies)
    BY DEF NoCookies, Cookies, NoCsrf, Csrf, Own
  <2> HIDE DEF J
  <2>5. jar' \in [Browsers -> Cookies] /\ \A d \in Browsers : Own(d, jar'[d])
    BY <2>1, <2>3
  <2>6. cookies' \in [Calls -> Cookies] /\ \A d \in Calls : Own(browser[d], cookies'[d])
    BY <2>1, <2>4
  <2>7. SessionFromOwnFlow' /\ session' \in [Browsers -> Flows \cup {NoFlow}]
    BY <2>1
  <2>8. Shape'
    BY <2>1, <2>5, <2>6, <2>7
  <2>9. CookiesOfOwnFlow'
    BY <2>1, <2>5, <2>6 DEF Own
  <2>10. SavedByOwnCookie'
    BY <2>1
  <2> QED
    BY <2>7, <2>8, <2>9, <2>10
<1>9. CASE Tick \/ UNCHANGED vars
  BY <1>9 DEF Tick, vars, flowVars, callVars, Own
<1> QED
  BY <1>1, <1>2, <1>3, <1>4, <1>5, <1>6, <1>7, <1>8, <1>9 DEF Next

\* A browser is logged in only by a login that it has started itself.
THEOREM SessionsFromOwnFlows == Spec => []SessionFromOwnFlow
<1>1. OwnInv /\ [Next]_vars => OwnInv'
  BY OwnStep
<1>2. OwnInv => SessionFromOwnFlow
  BY DEF OwnInv
<1> QED
  BY <1>1, <1>2, OwnInit, PTL DEF Spec

-----------------------------------------------------------------------------
\* The types that the argument above does without.
Rest ==
  /\ stage \in [Flows -> {"idle", "start", "redirect", "atIdP", "issued"}]
  /\ carried \in [Flows -> Cookies]
  /\ extra \in [Flows -> SUBSET Names]
  /\ code \subseteq Flows
  /\ clears \in [Calls -> BOOLEAN]

\* ClearExtraCsrfCookies clears cookies that the request has.
LEMMA ExtraAreNames ==
  ASSUME NEW cs, NEW s \in ExtraCsrfCookies(cs)
  PROVE  s \in SUBSET Names
<1>1. Decoded(cs) \subseteq Names
  BY DEF Decoded
<1>2. CASE s = {}
  BY <1>2
<1>3. CASE \E n : s \in kSubset(n, Decoded(cs))
  BY <1>1, <1>3 DEF kSubset
<1> QED
  BY <1>2, <1>3 DEF ExtraCsrfCookies

LEMMA RestInit == Init => Rest
<1>1. NoCookies \in Cookies
  BY DEF NoCookies, Cookies, NoCsrf, Csrf
<1> QED
  BY <1>1 DEF Init, Rest

LEMMA RestStep ==
  ASSUME Shape, Rest, [Next]_vars
  PROVE  Rest'
<1> USE DEF Rest
<1>1. ASSUME NEW f \in Flows, SendStart(f) PROVE Rest'
  BY <1>1 DEF SendStart, callVars, Shape
<1>2. ASSUME NEW f \in Flows, OAuthStart(f) PROVE Rest'
  <2>1. NoCookies \in Cookies
    BY DEF NoCookies, Cookies, NoCsrf, Csrf
  <2>2. extra' \in [Flows -> SUBSET Names]
    BY <1>2, ExtraAreNames DEF OAuthStart
  <2> QED
    BY <1>2, <2>1, <2>2 DEF OAuthStart, callVars
<1>3. ASSUME NEW f \in Flows, FollowRedirect(f) \/ Authenticate(f) PROVE Rest'
  BY <1>3 DEF FollowRedirect, Authenticate, callVars
<1>4. ASSUME NEW c \in Calls, RedeemCode(c) PROVE Rest'
  BY <1>4 DEF RedeemCode, flowVars
<1>5. ASSUME NEW c \in Calls, CheckAndSave(c) \/ Respond(c) PROVE Rest'
  BY <1>5 DEF CheckAndSave, Respond, flowVars
<1>6. ASSUME NEW c \in Calls, NEW f \in Flows, SendCallback(c, f) PROVE Rest'
  BY <1>6 DEF SendCallback, flowVars
<1>7. CASE Tick \/ UNCHANGED vars
  BY <1>7 DEF Tick, vars, flowVars, callVars
<1> QED
  BY <1>1, <1>2, <1>3, <1>4, <1>5, <1>6, <1>7 DEF Next

\* Every variable of the login flow keeps its type: cookies are of flows that
\* exist, and only names of CSRF cookies are cleared.
THEOREM TypeCorrect == Spec => []TypeOK
<1>1. OwnInv /\ [Next]_vars => OwnInv'
  BY OwnStep
<1>2. Init => Rest
  BY RestInit
<1>3. OwnInv /\ Rest /\ [Next]_vars => Rest'
  BY RestStep DEF OwnInv
<1>4. OwnInv /\ Rest => TypeOK
  BY DEF OwnInv, Shape, Rest, TypeOK
<1> QED
  BY <1>1, <1>2, <1>3, <1>4, OwnInit, PTL DEF Spec

-----------------------------------------------------------------------------
\* A CSRF cookie has the name and the time of signing of its flow, and that flow
\* has been sent to the provider by the browser that holds the cookie.
MadeBy(b, cs) ==
  \A n \in Names : cs[n].flow # NoFlow =>
    /\ cs[n].flow \in Flows /\ CookieName(cs[n].flow) = n
    /\ owner[cs[n].flow] = b /\ stage[cs[n].flow] \in {"atIdP", "issued"}
    /\ cs[n].ts = signed[cs[n].flow]

CookiesMade ==
  /\ \A b \in Browsers : MadeBy(b, jar[b])
  /\ \A f \in Flows : MadeBy(owner[f], carried[f])

\* A callback is made of a code that was issued; the cookie is cleared last, by
\* a callback that has loaded it, and before a session is saved.
CallsClear ==
  \A c \in Calls :
    /\ pc[c] # "idle" => url[c] \in Flows /\ stage[url[c]] = "issued"
    /\ clears[c] => csrf[c] \in Flows /\ pc[c] \in {"respond", "done"}
    /\ result[c] = "session" => clears[c]

\* No cookie is cleared for a login before OAuthStart has handled it.
ExtraOfStarted == \A f \in Flows : stage[f] \in {"idle", "start"} => extra[f] = {}

JarInv == CookiesMade /\ CallsClear /\ ExtraOfStarted

\* What no step undoes: a login that has been started keeps its owner and its
\* time of signing, and what has been sent to the provider stays there.
Forward ==
  /\ owner' = owner
  /\ \A f \in Flows :
       /\ stage[f] \notin {"idle", "start"} =>
            signed'[f] = signed[f] /\ extra'[f] = extra[f] /\ stage'[f] \notin {"idle", "start"}
       /\ stage[f] \in {"atIdP", "issued"} => stage'[f] \in {"atIdP", "issued"}
       /\ stage[f] = "issued" => stage'[f] = "issued"

LEMMA StepForward ==
  ASSUME Shape, Rest, [Next]_vars
  PROVE  Forward
<1> USE DEF Forward, Rest, Shape
<1>1. ASSUME NEW f \in Flows, SendStart(f) \/ FollowRedirect(f) \/ Authenticate(f)
      PROVE  Forward
  BY <1>1 DEF SendStart, FollowRedirect, Authenticate
<1>2. ASSUME NEW f \in Flows, OAuthStart(f) PROVE Forward
  BY <1>2 DEF OAuthStart
<1>3. ASSUME NEW c \in Calls, RedeemCode(c) \/ CheckAndSave(c) \/ Respond(c)
      PROVE  Forward
  BY <1>3 DEF RedeemCode, CheckAndSave, Respond, flowVars
<1>4. ASSUME NEW c \in Calls, NEW f \in Flows, SendCallback(c, f) PROVE Forward
  BY <1>4 DEF SendCallback, flowVars
<1>5. CASE Tick \/ UNCHANGED vars
  BY <1>5 DEF Tick, vars, flowVars
<1> QED
  BY <1>1, <1>2, <1>3, <1>4, <1>5 DEF Next

\* A cookie stays the cookie of its flow.
MadeAfter(b, cs) ==
  \A n \in Names : cs[n].flow # NoFlow =>
    /\ cs[n].flow \in Flows /\ CookieName(cs[n].flow) = n
    /\ owner'[cs[n].flow] = b /\ stage'[cs[n].flow] \in {"atIdP", "issued"}
    /\ cs[n].ts = signed'[cs[n].flow]

LEMMA MadeStays ==
  ASSUME Forward, NEW b, NEW cs, MadeBy(b, cs)
  PROVE  MadeAfter(b, cs)
BY DEF MadeBy, MadeAfter, Forward

\* Every step keeps the cookies with their flows, and clears only what a
\* callback has loaded.
LEMMA JarStep ==
  ASSUME OwnInv, Rest, JarInv, [Next]_vars
  PROVE  JarInv'
<1> USE DEF JarInv
<1>f. Forward
  BY StepForward DEF OwnInv
<1>s. Shape /\ SavedByOwnCookie
  BY DEF OwnInv
<1>n. \A b : MadeBy(b, NoCookies) /\ MadeAfter(b, NoCookies)
  BY DEF MadeBy, MadeAfter, NoCookies, NoCsrf
<1>j. \A b \in Browsers : MadeAfter(b, jar[b])
  BY <1>f, MadeStays DEF CookiesMade
<1>c. \A f \in Flows : MadeAfter(owner[f], carried[f])
  BY <1>f, MadeStays DEF CookiesMade
<1>o. owner' = owner /\ owner \in [Flows -> Browsers]
  BY <1>f, <1>s DEF Forward, Shape
<1>m. ASSUME \A b \in Browsers : MadeAfter(b, jar'[b]),
             \A f \in Flows : MadeAfter(owner[f], carried'[f])
      PROVE  CookiesMade'
  BY <1>m, <1>o DEF CookiesMade, MadeBy, MadeAfter
<1>k. ASSUME UNCHANGED <<pc, url, csrf, clears, result>> PROVE CallsClear'
  BY <1>k, <1>f DEF CallsClear, Forward
<1>e. ASSUME UNCHANGED <<stage, extra>> PROVE ExtraOfStarted'
  BY <1>e DEF ExtraOfStarted
<1>1. ASSUME NEW f \in Flows, SendStart(f) PROVE JarInv'
  <2>1. /\ stage[f] = "idle" /\ stage' = [stage EXCEPT ![f] = "start"]
        /\ carried' = [carried EXCEPT ![f] = jar[owner[f]]]
        /\ UNCHANGED <<jar, extra, pc, url, csrf, clears, result>>
    BY <1>1 DEF SendStart, callVars
  <2>2. \A g \in Flows : MadeAfter(owner[g], carried'[g])
    BY <2>1, <1>c, <1>j, <1>o DEF Rest
  <2>3. ExtraOfStarted'
    BY <2>1 DEF ExtraOfStarted, Rest
  <2> QED
    BY <2>1, <2>2, <2>3, <1>m, <1>k, <1>j
<1>2. ASSUME NEW f \in Flows, OAuthStart(f) PROVE JarInv'
  <2>1. /\ stage[f] = "start" /\ stage' = [stage EXCEPT ![f] = "redirect"]
        /\ carried' = [carried EXCEPT ![f] = NoCookies]
        /\ \E s \in ExtraCsrfCookies(carried[f]) : extra' = [extra EXCEPT ![f] = s]
        /\ UNCHANGED <<jar, pc, url, csrf, clears, result>>
    BY <1>2 DEF OAuthStart, callVars
  <2>2. \A g \in Flows : MadeAfter(owner[g], carried'[g])
    BY <2>1, <1>c, <1>n DEF Rest
  <2>3. ExtraOfStarted'
    BY <2>1 DEF ExtraOfStarted, Rest
  <2> QED
    BY <2>1, <2>2, <2>3, <1>m, <1>k, <1>j
<1>3. ASSUME NEW f \in Flows, FollowRedirect(f) PROVE JarInv'
  <2> DEFINE J == [n \in Names |->
                     IF n = CookieName(f) THEN [flow |-> f, ts |-> signed[f]]
                     ELSE IF n \in extra[f] THEN NoCsrf ELSE jar[owner[f]][n]]
  <2>1. /\ stage[f] = "redirect" /\ stage' = [stage EXCEPT ![f] = "atIdP"]
        /\ jar' = [jar EXCEPT ![owner[f]] = J]
        /\ UNCHANGED <<carried, extra, signed, pc, url, csrf, clears, result>>
    BY <1>3 DEF FollowRedirect, callVars
  <2>2. MadeAfter(owner[f], J)
    <3> SUFFICES ASSUME NEW n \in Names, J[n].flow # NoFlow
                 PROVE  /\ J[n].flow \in Flows /\ CookieName(J[n].flow) = n
                        /\ owner'[J[n].flow] = owner[f]
                        /\ stage'[J[n].flow] \in {"atIdP", "issued"}
                        /\ J[n].ts = signed'[J[n].flow]
      BY DEF MadeAfter
    <3>1. CASE n = CookieName(f)
      BY <3>1, <2>1, <1>o DEF Rest
    <3>2. CASE n # CookieName(f)
      <4>1. J[n] = jar[owner[f]][n]
        BY <3>2 DEF NoCsrf
      <4> QED
        BY <4>1, <1>j, <1>o DEF MadeAfter
    <3> QED
      BY <3>1, <3>2
  <2> HIDE DEF J
  <2>3. \A b \in Browsers : MadeAfter(b, jar'[b])
    BY <2>1, <2>2, <1>j, <1>s DEF Shape
  <2>4. ExtraOfStarted'
    BY <2>1 DEF ExtraOfStarted, Rest
  <2> QED
    BY <2>1, <2>3, <2>4, <1>m, <1>k, <1>c
<1>4. ASSUME NEW f \in Flows, Authenticate(f) PROVE JarInv'
  <2>1. /\ stage[f] = "atIdP" /\ stage' = [stage EXCEPT ![f] = "issued"]
        /\ UNCHANGED <<carried, jar, extra, pc, url, csrf, clears, result>>
    BY <1>4 DEF Authenticate, callVars
  <2>2. ExtraOfStarted'
    BY <2>1 DEF ExtraOfStarted, Rest
  <2> QED
    BY <2>1, <2>2, <1>m, <1>k, <1>c, <1>j
<1>5. ASSUME NEW c \in Calls, NEW f \in Flows, SendCallback(c, f) PROVE JarInv'
  <2>1. /\ pc[c] = "idle" /\ stage[f] = "issued"
        /\ pc' = [pc EXCEPT ![c] = "redeem"] /\ url' = [url EXCEPT ![c] = f]
        /\ UNCHANGED <<stage, carried, jar, extra, csrf, clears, result>>
    BY <1>5 DEF SendCallback, flowVars
  <2>2. CallsClear'
    BY <2>1, <1>s DEF CallsClear, Shape
  <2> QED
    BY <2>1, <2>2, <1>m, <1>e, <1>c, <1>j
<1>6. ASSUME NEW c \in Calls, RedeemCode(c) PROVE JarInv'
  <2>1. /\ pc[c] = "redeem"
        /\ \E x : csrf' = [csrf EXCEPT ![c] = x]
        /\ pc' \in {[pc EXCEPT ![c] = "check"], [pc EXCEPT ![c] = "respond"]}
        /\ result' \in {result, [result EXCEPT ![c] = "error"]}
        /\ UNCHANGED <<stage, carried, jar, extra, url, clears>>
    BY <1>6 DEF RedeemCode, flowVars
  <2>2. CallsClear'
    BY <2>1, <1>s DEF CallsClear, Shape
  <2> QED
    BY <2>1, <2>2, <1>m, <1>e, <1>c, <1>j
<1>7. ASSUME NEW c \in Calls, CheckAndSave(c) PROVE JarInv'
  <2>1. /\ pc[c] = "check" /\ pc' = [pc EXCEPT ![c] = "respond"]
        /\ \/ result' = [result EXCEPT ![c] = "error"] /\ clears' = clears
           \/ /\ clears' = [clears EXCEPT ![c] = TRUE]
              /\ \E r : result' = [result EXCEPT ![c] = r]
        /\ UNCHANGED <<stage, carried, jar, extra, url, csrf>>
    BY <1>7 DEF CheckAndSave, flowVars
  <2>2. CallsClear'
    BY <2>1, <1>s DEF CallsClear, Shape, Rest
  <2> QED
    BY <2>1, <2>2, <1>m, <1>e, <1>c, <1>j
<1>8. ASSUME NEW c \in Calls, Respond(c) PROVE JarInv'
  <2> DEFINE b == browser[c]
             J == [jar[b] EXCEPT ![CookieName(csrf[c])] = NoCsrf]
  <2>1. /\ pc[c] = "respond" /\ pc' = [pc EXCEPT ![c] = "done"]
        /\ jar' = jar \/ jar' = [jar EXCEPT ![b] = J]
        /\ UNCHANGED <<stage, carried, extra, url, csrf, clears, result>>
    BY <1>8 DEF Respond, flowVars
  <2>2. b \in Browsers /\ jar[b] \in Cookies /\ MadeAfter(b, jar[b])
    BY <1>s, <1>j DEF Shape
  <2>3. MadeAfter(b, J)
    BY <2>2 DEF MadeAfter, NoCsrf, Cookies
  <2> HIDE DEF J
  <2>4. \A d \in Browsers : MadeAfter(d, jar'[d])
    BY <2>1, <2>2, <2>3, <1>j, <1>s DEF Shape
  <2>5. CallsClear'
    BY <2>1, <1>s DEF CallsClear, Shape
  <2> QED
    BY <2>1, <2>4, <2>5, <1>m, <1>e, <1>c
<1>9. CASE Tick \/ UNCHANGED vars
  BY <1>9, <1>m, <1>k, <1>e, <1>c, <1>j DEF Tick, vars, flowVars, callVars
<1> QED
  BY <1>1, <1>2, <1>3, <1>4, <1>5, <1>6, <1>7, <1>8, <1>9 DEF Next

LEMMA JarInit == Init => JarInv
BY DEF Init, JarInv, CookiesMade, MadeBy, NoCookies, NoCsrf, CallsClear, ExtraOfStarted

LEMMA JarInvariant == Spec => [](OwnInv /\ Rest /\ JarInv)
<1>1. OwnInv /\ [Next]_vars => OwnInv'
  BY OwnStep
<1>2. OwnInv /\ Rest /\ [Next]_vars => Rest'
  BY RestStep DEF OwnInv
<1>3. OwnInv /\ Rest /\ JarInv /\ [Next]_vars => JarInv'
  BY JarStep
<1> QED
  BY <1>1, <1>2, <1>3, OwnInit, RestInit, JarInit, PTL DEF Spec

\* Once a callback has answered with a session, the cookie of its login is gone
\* and no later response of OAuthStart brings it back.
LEMMA FinishedStep ==
  ASSUME OwnInv, Rest, JarInv, FinishedFlowLeavesNoCookie, [Next]_vars
  PROVE  FinishedFlowLeavesNoCookie'
<1> USE DEF FinishedFlowLeavesNoCookie
<1>s. Shape /\ SavedByOwnCookie /\ CallsClear
  BY DEF OwnInv, JarInv
<1>1. ASSUME UNCHANGED <<jar, url, browser>>,
             \A c \in Calls : pc'[c] = "done" /\ result'[c] = "session" =>
               pc[c] = "done" /\ result[c] = "session"
      PROVE  FinishedFlowLeavesNoCookie'
  BY <1>1
<1>2. ASSUME NEW f \in Flows, SendStart(f) \/ OAuthStart(f) \/ Authenticate(f)
      PROVE  FinishedFlowLeavesNoCookie'
  BY <1>2, <1>1 DEF SendStart, OAuthStart, Authenticate, callVars
<1>3. ASSUME NEW f \in Flows, FollowRedirect(f) PROVE FinishedFlowLeavesNoCookie'
  <2> DEFINE J == [n \in Names |->
                     IF n = CookieName(f) THEN [flow |-> f, ts |-> signed[f]]
                     ELSE IF n \in extra[f] THEN NoCsrf ELSE jar[owner[f]][n]]
  <2>1. /\ stage[f] = "redirect" /\ jar' = [jar EXCEPT ![owner[f]] = J]
        /\ UNCHANGED <<pc, url, browser, result>>
    BY <1>3 DEF FollowRedirect, callVars
  <2>2. ASSUME NEW c \in Calls, pc[c] = "done", result[c] = "session"
        PROVE  jar'[browser[c]][CookieName(url[c])].flow # url[c]
    <3>1. /\ url[c] \in Flows /\ url[c] # f
          /\ jar[browser[c]][CookieName(url[c])].flow # url[c]
          /\ CookieName(url[c]) \in Names
      BY <2>1, <2>2, <1>s DEF CallsClear, Names, CookieName
    <3>2. J[CookieName(url[c])].flow
            \in {f, NoFlow, jar[owner[f]][CookieName(url[c])].flow}
      BY <3>1 DEF NoCsrf
    <3> HIDE DEF J
    <3>3. browser[c] \in Browsers /\ owner[f] \in Browsers /\ jar \in [Browsers -> Cookies]
      BY <1>s DEF Shape
    <3>4. CASE browser[c] = owner[f]
      <4>1. jar'[browser[c]] = J
        BY <3>3, <3>4, <2>1
      <4> QED
        BY <4>1, <3>1, <3>2, <3>4, FlowAssumption
    <3>5. CASE browser[c] # owner[f]
      BY <3>1, <3>3, <3>5, <2>1
    <3> QED
      BY <3>4, <3>5
  <2> QED
    BY <2>1, <2>2
<1>4. ASSUME NEW c \in Calls, NEW f \in Flows, SendCallback(c, f)
      PROVE  FinishedFlowLeavesNoCookie'
  BY <1>4, <1>s DEF SendCallback, Shape
<1>5. ASSUME NEW c \in Calls, RedeemCode(c) \/ CheckAndSave(c)
      PROVE  FinishedFlowLeavesNoCookie'
  BY <1>5, <1>s, <1>1 DEF RedeemCode, CheckAndSave, Shape
<1>6. ASSUME NEW c \in Calls, Respond(c) PROVE FinishedFlowLeavesNoCookie'
  <2> DEFINE b == browser[c]
             J == [jar[b] EXCEPT ![CookieName(csrf[c])] = NoCsrf]
  <2>1. /\ pc[c] = "respond" /\ pc' = [pc EXCEPT ![c] = "done"]
        /\ jar' = IF clears[c] THEN [jar EXCEPT ![b] = J] ELSE jar
        /\ UNCHANGED <<url, browser, csrf, clears, result>>
    BY <1>6 DEF Respond
  <2>2. b \in Browsers /\ jar[b] \in Cookies /\ jar \in [Browsers -> Cookies]
    BY <1>s DEF Shape
  <2>3. ASSUME NEW d \in Calls, pc'[d] = "done", result[d] = "session"
        PROVE  jar'[browser[d]][CookieName(url[d])].flow # url[d]
    <3>1. /\ pc[d] # "idle" /\ url[d] \in Flows /\ url[d] # NoFlow
          /\ CookieName(url[d]) \in Names
      BY <2>1, <2>3, <1>s, FlowAssumption DEF CallsClear, Shape, SavedByOwnCookie, Names, CookieName
    <3>2. CASE d = c
      <4>1. clears[c] /\ csrf[c] = url[c]
        BY <3>2, <2>3, <1>s DEF CallsClear, SavedByOwnCookie
      <4>2. jar'[b] = J /\ J[CookieName(url[c])] = NoCsrf
        BY <4>1, <2>1, <2>2, <3>1, <3>2 DEF Cookies
      <4> HIDE DEF J
      <4> QED
        BY <4>2, <3>1, <3>2 DEF NoCsrf
    <3>3. CASE d # c
      <4>1. jar[browser[d]][CookieName(url[d])].flow # url[d]
        BY <3>3, <2>1, <2>3, <1>s DEF Shape
      <4>2. J[CookieName(url[d])] \in {NoCsrf, jar[b][CookieName(url[d])]}
        BY <2>2, <3>1 DEF Cookies
      <4> HIDE DEF J
      <4>3. browser[d] \in Browsers
        BY <1>s DEF Shape
      <4> QED
        BY <4>1, <4>2, <4>3, <3>1, <2>1, <2>2 DEF NoCsrf
    <3> QED
      BY <3>2, <3>3
  <2> QED
    BY <2>1, <2>3
<1>7. CASE Tick \/ UNCHANGED vars
  BY <1>7, <1>1 DEF Tick, vars, callVars
<1> QED
  BY <1>2, <1>3, <1>4, <1>5, <1>6, <1>7 DEF Next

\* A login that has saved a session leaves no CSRF cookie behind, whatever other
\* logins and callbacks of the browser do at the same time.
THEOREM FinishedFlowsLeaveNoCookie == Spec => []FinishedFlowLeavesNoCookie
<1>1. Init => FinishedFlowLeavesNoCookie
  BY DEF Init, FinishedFlowLeavesNoCookie
<1>2. OwnInv /\ Rest /\ JarInv /\ FinishedFlowLeavesNoCookie /\ [Next]_vars
        => FinishedFlowLeavesNoCookie'
  BY FinishedStep
<1> QED
  BY <1>1, <1>2, JarInvariant, PTL DEF Spec

-----------------------------------------------------------------------------
\* The premises of ParallelLoginsKeepCookies: nobody takes the cookie of f away.
Undisturbed(f) ==
  /\ CSRFPerRequest /\ stage[f] \in {"atIdP", "issued"}
  /\ \A g \in Flows \ {f} : StateSubstring[g] # StateSubstring[f]
                            /\ CookieName(f) \notin extra[g]
  /\ \A c \in Calls : csrf[c] = f => ~clears[c]

LEMMA ParallelStep ==
  ASSUME OwnInv, Rest, JarInv, ParallelLoginsKeepCookies, [Next]_vars
  PROVE  ParallelLoginsKeepCookies'
<1>s. Shape /\ CallsClear /\ ExtraOfStarted
  BY DEF OwnInv, JarInv
<1>f. Forward
  BY StepForward, <1>s
<1> SUFFICES ASSUME NEW f \in Flows, Undisturbed(f)'
             PROVE  jar'[owner'[f]][CookieName(f)].flow = f
  BY DEF ParallelLoginsKeepCookies, Undisturbed
<1>n. CookieName(f) \in Names /\ owner' = owner /\ owner[f] \in Browsers
      /\ jar \in [Browsers -> Cookies] /\ jar[owner[f]] \in Cookies
  BY <1>s, <1>f DEF Shape, Forward, Names, CookieName
<1>u. ASSUME Undisturbed(f) PROVE jar[owner[f]][CookieName(f)].flow = f
  BY <1>u DEF ParallelLoginsKeepCookies, Undisturbed
<1>1. ASSUME NEW g \in Flows, SendStart(g) PROVE jar'[owner[f]][CookieName(f)].flow = f
  <2>1. Undisturbed(f) /\ jar' = jar
    BY <1>1 DEF SendStart, Undisturbed, callVars, Rest
  <2> QED
    BY <2>1, <1>u
<1>2. ASSUME NEW g \in Flows, OAuthStart(g) PROVE jar'[owner[f]][CookieName(f)].flow = f
  <2>1. /\ stage[g] = "start" /\ stage' = [stage EXCEPT ![g] = "redirect"]
        /\ \E s : extra' = [extra EXCEPT ![g] = s]
        /\ UNCHANGED <<jar, csrf, clears>>
    BY <1>2 DEF OAuthStart, callVars
  <2>2. extra[g] = {}
    BY <2>1, <1>s DEF ExtraOfStarted
  <2>3. Undisturbed(f)
    BY <2>1, <2>2 DEF Undisturbed, Rest
  <2> QED
    BY <2>1, <2>3, <1>u
<1>3. ASSUME NEW g \in Flows, FollowRedirect(g) PROVE jar'[owner[f]][CookieName(f)].flow = f
  <2> DEFINE J == [n \in Names |->
                     IF n = CookieName(g) THEN [flow |-> g, ts |-> signed[g]]
                     ELSE IF n \in extra[g] THEN NoCsrf ELSE jar[owner[g]][n]]
  <2>1. /\ stage[g] = "redirect" /\ stage' = [stage EXCEPT ![g] = "atIdP"]
        /\ jar' = [jar EXCEPT ![owner[g]] = J]
        /\ UNCHANGED <<extra, csrf, clears>>
    BY <1>3 DEF FollowRedirect, callVars
  <2>2. CASE f = g
    <3>1. J[CookieName(f)].flow = f
      BY <2>2, <1>n
    <3> HIDE DEF J
    <3> QED
      BY <3>1, <2>1, <2>2, <1>n
  <2>3. CASE f # g
    <3>1. Undisturbed(f)
      BY <2>1, <2>3 DEF Undisturbed, Rest
    <3>2. CookieName(g) # CookieName(f) /\ CookieName(f) \notin extra[g]
      BY <3>1, <2>3 DEF Undisturbed, CookieName
    <3>3. J[CookieName(f)] = jar[owner[g]][CookieName(f)]
      BY <3>2, <1>n
    <3> HIDE DEF J
    <3>4. owner[f] = owner[g] => jar'[owner[f]] = J
      BY <2>1, <1>n
    <3>5. owner[f] # owner[g] => jar'[owner[f]] = jar[owner[f]]
      BY <2>1, <1>n
    <3> QED
      BY <3>1, <3>3, <3>4, <3>5, <1>u
  <2> QED
    BY <2>2, <2>3
<1>4. ASSUME NEW g \in Flows, Authenticate(g) PROVE jar'[owner[f]][CookieName(f)].flow = f
  <2>1. Undisturbed(f) /\ jar' = jar
    BY <1>4 DEF Authenticate, Undisturbed, callVars, Rest
  <2> QED
    BY <2>1, <1>u
<1>5. ASSUME NEW c \in Calls, NEW g \in Flows, SendCallback(c, g)
      PROVE  jar'[owner[f]][CookieName(f)].flow = f
  <2>1. Undisturbed(f) /\ jar' = jar
    BY <1>5 DEF SendCallback, Undisturbed, flowVars
  <2> QED
    BY <2>1, <1>u
<1>6. ASSUME NEW c \in Calls, RedeemCode(c) PROVE jar'[owner[f]][CookieName(f)].flow = f
  <2>1. /\ pc[c] = "redeem" /\ \E x : csrf' = [csrf EXCEPT ![c] = x]
        /\ UNCHANGED <<stage, extra, clears, jar>>
    BY <1>6 DEF RedeemCode, flowVars
  <2>2. ~clears[c]
    BY <2>1, <1>s DEF CallsClear
  <2>3. Undisturbed(f)
    BY <2>1, <2>2, <1>s DEF Undisturbed, Shape
  <2> QED
    BY <2>1, <2>3, <1>u
<1>7. ASSUME NEW c \in Calls, CheckAndSave(c) PROVE jar'[owner[f]][CookieName(f)].flow = f
  <2>1. /\ clears' \in {clears, [clears EXCEPT ![c] = TRUE]}
        /\ UNCHANGED <<stage, extra, csrf, jar>>
    BY <1>7 DEF CheckAndSave, flowVars
  <2>2. \A d \in Calls : clears[d] => clears'[d]
    BY <2>1 DEF Rest
  <2>3. Undisturbed(f)
    BY <2>1, <2>2 DEF Undisturbed
  <2> QED
    BY <2>1, <2>3, <1>u
<1>8. ASSUME NEW c \in Calls, Respond(c) PROVE jar'[owner[f]][CookieName(f)].flow = f
  <2> DEFINE b == browser[c]
             J == [jar[b] EXCEPT ![CookieName(csrf[c])] = NoCsrf]
  <2>1. /\ jar' = IF clears[c] THEN [jar EXCEPT ![b] = J] ELSE jar
        /\ UNCHANGED <<stage, extra, csrf, clears>>
    BY <1>8 DEF Respond, flowVars
  <2>2. Undisturbed(f)
    BY <2>1 DEF Undisturbed
  <2>3. CASE ~clears[c]
    BY <2>1, <2>2, <2>3, <1>u
  <2>4. CASE clears[c]
    <3>1. csrf[c] \in Flows \ {f}
      BY <2>4, <2>2, <1>s DEF Undisturbed, CallsClear
    <3>2. CookieName(csrf[c]) # CookieName(f)
      BY <3>1, <2>2 DEF Undisturbed, CookieName
    <3>3. b \in Browsers /\ jar[b] \in Cookies
      BY <1>s DEF Shape
    <3>4. J[CookieName(f)] = jar[b][CookieName(f)]
      BY <3>2, <3>3, <1>n DEF Cookies
    <3> HIDE DEF J
    <3>5. jar'[owner[f]] = IF owner[f] = b THEN J ELSE jar[owner[f]]
      BY <2>1, <2>4, <3>3, <1>n
    <3> QED
      BY <3>4, <3>5, <2>2, <1>u
  <2> QED
    BY <2>3, <2>4
<1>9. CASE Tick \/ UNCHANGED vars
  <2>1. Undisturbed(f) /\ jar' = jar
    BY <1>9 DEF Tick, vars, flowVars, callVars, Undisturbed
  <2> QED
    BY <2>1, <1>u, <1>n
<1> QED
  BY <1>n, <1>1, <1>2, <1>3, <1>4, <1>5, <1>6, <1>7, <1>8, <1>9 DEF Next

\* With CSRFPerRequest a login keeps its cookie while it waits for the callback,
\* unless its state substring collides or the limit pushes it out.
THEOREM ParallelLoginsKeepTheirCookies == Spec => []ParallelLoginsKeepCookies
<1>1. Init => ParallelLoginsKeepCookies
  BY DEF Init, ParallelLoginsKeepCookies
<1>2. OwnInv /\ Rest /\ JarInv /\ ParallelLoginsKeepCookies /\ [Next]_vars
        => ParallelLoginsKeepCookies'
  BY ParallelStep
<1> QED
  BY <1>1, <1>2, JarInvariant, PTL DEF Spec

-----------------------------------------------------------------------------
LEMMA NamesFinite == IsFiniteSet(Names)
<1> DEFINE image == {StateSubstring[f] : f \in Flows}
           sub == [f \in Flows |-> StateSubstring[f]]
<1>1. sub \in Surjection(Flows, image)
  BY DEF Surjection
<1>2. IsFiniteSet(image)
  BY <1>1, FS_Surjection, FlowAssumption
<1> HIDE DEF image
<1>3. IsFiniteSet({0})
  BY FS_Singleton
<1>4. Names = {0} \cup image
  BY DEF Names, image
<1> QED
  BY <1>2, <1>3, <1>4, FS_Union

\* What is left after the oldest cookies are cleared: a cookie is cleared only
\* if the limit is left, of cookies that were not signed before it.
LEMMA ExtraLeavesLimit ==
  ASSUME NEW cs, NEW s \in ExtraCsrfCookies(cs), NEW n \in s
  PROVE  \E kept \in SUBSET Decoded(cs) :
           /\ n \in Decoded(cs) \ kept /\ Cardinality(kept) = CSRFPerRequestLimit
           /\ IsFiniteSet(kept)
           /\ \A k \in kept : cs[n].ts <= cs[k].ts
<1> DEFINE d == Decoded(cs)
           size == Cardinality(d)
           many == IF size > CSRFPerRequestLimit THEN size - CSRFPerRequestLimit ELSE 0
<1>1. /\ s \in kSubset(many, d)
      /\ \A old \in s, kept \in d \ s : cs[old].ts <= cs[kept].ts
  BY DEF ExtraCsrfCookies
<1>2. s \in SUBSET d /\ Cardinality(s) = many
  BY <1>1 DEF kSubset
<1>3. IsFiniteSet(d) /\ size \in Nat
  BY NamesFinite, FS_Subset, FS_CardinalityType DEF Decoded
<1> HIDE DEF d
<1>4. IsFiniteSet(s) /\ Cardinality(s) # 0
  BY <1>2, <1>3, FS_Subset, FS_EmptySet
<1>5. many = size - CSRFPerRequestLimit
  BY <1>2, <1>4
<1>6. IsFiniteSet(d \ s) /\ Cardinality(d \ s) = size - Cardinality(d \cap s)
  BY <1>3, FS_Difference
<1>7. d \cap s = s
  BY <1>2
<1>8. CSRFPerRequestLimit \in Nat
  BY FlowAssumption
<1>9. Cardinality(d \ s) = CSRFPerRequestLimit
  BY <1>2, <1>3, <1>5, <1>6, <1>7, <1>8
<1> QED
  BY <1>1, <1>2, <1>6, <1>9 DEF d

\* The logins that count against g stay, and grow in number.
LEMMA NoEarlierGrows ==
  ASSUME Forward, NEW f \in Flows, NEW g \in Flows, stage[g] \notin {"idle", "start"},
         Cardinality(NoEarlier(f, g)) >= CSRFPerRequestLimit
  PROVE  Cardinality(NoEarlier(f, g)') >= CSRFPerRequestLimit
<1>1. NoEarlier(f, g) \subseteq NoEarlier(f, g)'
  BY DEF NoEarlier, Forward
<1>2. NoEarlier(f, g)' \subseteq Flows
  BY DEF NoEarlier
<1> DEFINE A == NoEarlier(f, g)
           B == NoEarlier(f, g)'
<1> HIDE DEF A, B
<1>3. IsFiniteSet(B)
  BY <1>2, FlowAssumption, FS_Subset DEF B
<1>4. A \in SUBSET B
  BY <1>1 DEF A, B
<1>5. Cardinality(A) <= Cardinality(B) /\ IsFiniteSet(A)
  BY <1>3, <1>4, FS_Subset
<1>6. Cardinality(A) \in Nat /\ Cardinality(B) \in Nat /\ CSRFPerRequestLimit \in Nat
  BY <1>3, <1>5, FS_CardinalityType, FlowAssumption
<1>7. Cardinality(A) >= CSRFPerRequestLimit
  BY DEF A
<1>8. Cardinality(B) >= CSRFPerRequestLimit
  BY <1>5, <1>6, <1>7
<1> QED
  BY <1>8 DEF B

LEMMA PushedStep ==
  ASSUME OwnInv, Rest, JarInv, PushedOutByNewer, [Next]_vars
  PROVE  PushedOutByNewer'
<1>s. Shape /\ CookiesMade
  BY DEF OwnInv, JarInv
<1>f. Forward
  BY StepForward, <1>s
<1> SUFFICES ASSUME NEW f \in Flows, NEW n \in extra'[f]
             PROVE  \E g \in Flows \ {f} :
                      /\ CookieName(g) = n /\ owner'[g] = owner'[f]
                      /\ stage'[g] \in {"atIdP", "issued"}
                      /\ Cardinality(NoEarlier(f, g)') >= CSRFPerRequestLimit
  BY DEF PushedOutByNewer
<1>1. CASE n \in extra[f]
  <2>1. PICK g \in Flows \ {f} :
          /\ CookieName(g) = n /\ owner[g] = owner[f] /\ stage[g] \in {"atIdP", "issued"}
          /\ Cardinality(NoEarlier(f, g)) >= CSRFPerRequestLimit
    BY <1>1 DEF PushedOutByNewer
  <2>2. Cardinality(NoEarlier(f, g)') >= CSRFPerRequestLimit
    BY <2>1, <1>f, NoEarlierGrows
  <2>3. owner'[g] = owner'[f] /\ stage'[g] \in {"atIdP", "issued"}
    BY <2>1, <1>f DEF Forward
  <2> QED
    BY <2>1, <2>2, <2>3
<1>2. CASE n \notin extra[f]
  <2>1. OAuthStart(f)
    <3>1. ASSUME NEW h \in Flows, SendStart(h) \/ FollowRedirect(h) \/ Authenticate(h)
          PROVE  extra' = extra
      BY <3>1 DEF SendStart, FollowRedirect, Authenticate
    <3>2. ASSUME NEW h \in Flows, OAuthStart(h) PROVE h = f
      BY <3>2, <1>2 DEF OAuthStart, Rest
    <3>3. ASSUME NEW c \in Calls, RedeemCode(c) \/ CheckAndSave(c) \/ Respond(c)
          PROVE  extra' = extra
      BY <3>3 DEF RedeemCode, CheckAndSave, Respond, flowVars
    <3>4. ASSUME NEW c \in Calls, NEW h \in Flows, SendCallback(c, h) PROVE extra' = extra
      BY <3>4 DEF SendCallback, flowVars
    <3>5. CASE Tick \/ UNCHANGED vars
      BY <3>5, <1>2 DEF Tick, vars, flowVars
    <3> QED
      BY <3>1, <3>2, <3>3, <3>4, <3>5, <1>2 DEF Next
  <2> DEFINE cs == carried[f]
  <2>2. /\ stage[f] = "start" /\ n \in extra'[f]
        /\ stage' = [stage EXCEPT ![f] = "redirect"]
        /\ signed' = [signed EXCEPT ![f] = now]
        /\ owner' = owner
        /\ \E s \in ExtraCsrfCookies(cs) : extra'[f] = s
    BY <2>1 DEF OAuthStart, Rest
  <2>3. MadeBy(owner[f], cs) /\ cs \in Cookies
    BY <1>s DEF CookiesMade, Rest
  <2> HIDE DEF cs
  <2>4. PICK kept \in SUBSET Decoded(cs) :
          /\ n \in Decoded(cs) \ kept /\ Cardinality(kept) = CSRFPerRequestLimit
          /\ IsFiniteSet(kept)
          /\ \A k \in kept : cs[n].ts <= cs[k].ts
    BY <2>2, ExtraLeavesLimit
  <2>5. \A m \in Decoded(cs) :
          /\ cs[m].flow \in Flows /\ CookieName(cs[m].flow) = m
          /\ owner[cs[m].flow] = owner[f] /\ stage[cs[m].flow] \in {"atIdP", "issued"}
          /\ cs[m].ts = signed[cs[m].flow]
    BY <2>3 DEF MadeBy, Decoded, Valid
  <2>6. PICK g \in Flows \ {f} :
          /\ g = cs[n].flow /\ CookieName(g) = n /\ owner[g] = owner[f]
          /\ stage[g] \in {"atIdP", "issued"} /\ cs[n].ts = signed[g]
    BY <2>2, <2>4, <2>5
  <2> DEFINE of == [m \in kept |-> cs[m].flow]
             S == NoEarlier(f, g)'
  <2>7. signed'[g] = signed[g] /\ stage'[g] = stage[g]
    BY <2>2, <2>6, <1>s DEF Shape, Rest
  <2>8. ASSUME NEW m \in kept PROVE cs[m].flow \in S
    <3>1. /\ cs[m].flow \in Flows /\ cs[m].flow # f /\ CookieName(cs[m].flow) = m
          /\ owner[cs[m].flow] = owner[f] /\ stage[cs[m].flow] \in {"atIdP", "issued"}
          /\ cs[m].ts = signed[cs[m].flow] /\ cs[n].ts <= cs[m].ts
      BY <2>2, <2>4, <2>5
    <3>2. signed'[cs[m].flow] = signed[cs[m].flow] /\ stage'[cs[m].flow] = stage[cs[m].flow]
      BY <3>1, <2>2, <1>s DEF Shape, Rest
    <3>3. cs[m].flow # g
      BY <3>1, <2>4, <2>6
    <3>4. signed'[cs[m].flow] >= signed'[g]
      BY <3>1, <3>2, <2>6, <2>7, <1>s DEF Shape
    <3> QED
      BY <3>1, <3>2, <3>3, <3>4, <2>2 DEF NoEarlier
  <2>9. of \in Injection(kept, S)
    <3>1. \A m, k \in kept : cs[m].flow = cs[k].flow => m = k
      BY <2>4, <2>5
    <3> HIDE DEF S
    <3> QED
      BY <2>8, <3>1 DEF Injection, IsInjective
  <2>10. IsFiniteSet(S)
    <3>1. S \subseteq Flows
      BY DEF NoEarlier
    <3> HIDE DEF S
    <3> QED
      BY <3>1, FlowAssumption, FS_Subset
  <2>11. Cardinality(S) >= CSRFPerRequestLimit
    <3> HIDE DEF S, of
    <3>1. Cardinality(kept) <= Cardinality(S)
      BY <2>9, <2>10, FS_Injection
    <3>2. Cardinality(S) \in Nat /\ Cardinality(kept) \in Nat
      BY <2>4, <2>10, FS_CardinalityType
    <3> QED
      BY <3>1, <3>2, <2>4
  <2> QED
    BY <2>2, <2>6, <2>7, <2>11
<1> QED
  BY <1>1, <1>2

\* ClearExtraCsrfCookies pushes a login out only when the limit is used up by
\* logins of the same browser that were started no earlier.
THEOREM PushedOutByNewerLogins == Spec => []PushedOutByNewer
<1>1. Init => PushedOutByNewer
  BY DEF Init, PushedOutByNewer
<1>2. OwnInv /\ Rest /\ JarInv /\ PushedOutByNewer /\ [Next]_vars => PushedOutByNewer'
  BY PushedStep
<1> QED
  BY <1>1, <1>2, JarInvariant, PTL DEF Spec
=============================================================================

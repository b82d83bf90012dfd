-------------------------- MODULE RequestAuth_proofs --------------------------
(***************************************************************************)
(* Proofs about RequestAuth, for any requests, options, routes and lists.    *)
(***************************************************************************)
EXTENDS RequestAuth, TLAPS

\* The stages a request has behind it when a loader has run.
AfterJwt == {"basic", "stored", "handle", "logout"}

\* Where the session in the scope can have come from, stage by stage.
Origin ==
  /\ stage \in {"pre", "route", "jwt"} => scope = NoSession
  /\ stage = "basic" => scope \in FromToken \cup {NoSession}
  /\ stage \in {"stored", "handle", "logout"} => scope \in Presented \cup {NoSession}
  /\ stage \in AfterJwt /\ FromToken # {} => scope \in FromToken

\* What else holds while a request is being handled.
Course ==
  /\ stage # "idle" => reply = NoReply /\ users \subseteq seen
  /\ stage \in {"pre", "route", "jwt", "basic", "stored"} => jar = arrived
  /\ stage = "handle" /\ scope = NoSession => jar = NoSession
  /\ stage \in AfterJwt /\ "skipJwt" \in cfg /\ "loginFallback" \notin cfg
       => req.cred.kind = "none" \/ FromToken # {}

\* The properties themselves, all of them about the answer.
Promises == VerifiedTokenWins /\ HeadersFromSession /\ InvalidTokenStops /\ RefusedIsLoggedOut

RequestInv == TypeOK /\ Origin /\ Course /\ Promises

Refusals == {"unauthorized", "json401", "denied", "signInPage"}

\* The type invariant holds at the start.
LEMMA TypeInit == Init => TypeOK
<1> SUFFICES ASSUME Init
             PROVE  TypeOK
  OBVIOUS
<1> USE RequestAuthAssumption DEF Init
<1>1. cfg \in SUBSET Flags /\ emails \in SUBSET Names /\ users \in SUBSET Names /\ seen \in SUBSET Names
  OBVIOUS
<1>2. req \in Request
  OBVIOUS
<1>3. reply \in [kind : Kinds, as : Session \cup {NoSession}]
  BY DEF NoReply, Kinds
<1>4. outgoing \in [Spellings -> SUBSET (Names \cup {Client})]
  BY DEF NoHeaders
<1> QED
  BY <1>1, <1>2, <1>3, <1>4 DEF TypeOK

\* An answer of a known kind, as a session or as nobody, is well typed.
LEMMA AnswerType ==
  ASSUME TypeOK, NEW kind \in Kinds, NEW s \in Session \cup {NoSession}, Answer(kind, s),
         jar' \in Session \cup {NoSession},
         outgoing' \in [Spellings -> SUBSET (Names \cup {Client})]
  PROVE  TypeOK'
BY DEF TypeOK, Answer, lists

LEMMA PassType ==
  ASSUME TypeOK, NEW next \in {"route", "jwt", "basic", "stored", "handle", "logout"}, PassTo(next),
         jar' \in Session \cup {NoSession}, scope' \in Session \cup {NoSession}
  PROVE  TypeOK'
BY DEF TypeOK, PassTo, lists

\* What the handlers inject is well typed.
LEMMA HeadersType ==
  ASSUME TypeOK
  PROVE  /\ RequestHeaders \in [Spellings -> SUBSET (Names \cup {Client})]
         /\ ResponseHeaders \in [Spellings -> SUBSET (Names \cup {Client})]
<1>1. Claim \subseteq Names
  BY DEF TypeOK, Claim, Session
<1> QED
  BY <1>1 DEF RequestHeaders, ResponseHeaders

\* The session of basic credentials is well typed.
LEMMA BasicType ==
  ASSUME NEW u \in Names, NEW e \in Names \cup {NoName}
  PROVE  BasicSession(u, e) \in Session
BY RequestAuthAssumption DEF BasicSession, Session

\* So is the session of a token.
LEMMA TokenType ==
  ASSUME NEW t \in Tokens
  PROVE  TokenSession(t) \in Session \cup {NoSession}
BY RequestAuthAssumption DEF TokenSession, Session, IDToken

\* Every step keeps the types.
LEMMA TypeStep == TypeOK /\ [Next]_vars => TypeOK'
<1> SUFFICES ASSUME TypeOK, [Next]_vars
             PROVE  TypeOK'
  OBVIOUS
<1>s. /\ scope \in Session \cup {NoSession} /\ jar \in Session \cup {NoSession}
      /\ outgoing \in [Spellings -> SUBSET (Names \cup {Client})]
      /\ JarAfterAuth \in Session \cup {NoSession}
      /\ NoSession \in Session \cup {NoSession}
  BY DEF TypeOK, JarAfterAuth
<1>1. ASSUME NEW list \in EmailLists, ReloadEmails(list)
      PROVE  TypeOK'
  BY <1>1, RequestAuthAssumption DEF ReloadEmails, TypeOK
<1>2. ASSUME NEW list \in UserLists, ReloadUsers(list)
      PROVE  TypeOK'
  BY <1>2, RequestAuthAssumption DEF ReloadUsers, TypeOK
<1>3. ASSUME NEW r \in Requests, Receive(r)
      PROVE  TypeOK'
  <2>1. r \in Request
    BY RequestAuthAssumption
  <2>2. NoReply \in [kind : Kinds, as : Session \cup {NoSession}]
    BY DEF NoReply, Kinds
  <2>3. NoHeaders \in [Spellings -> SUBSET (Names \cup {Client})]
    BY DEF NoHeaders
  <2> QED
    BY <1>3, <2>1, <2>2, <2>3 DEF Receive, TypeOK
<1>4. CASE PreAuth
  BY <1>4, <1>s, AnswerType, PassType DEF PreAuth, Kinds
<1>5. CASE RouteToLoaders
  BY <1>5, <1>s, PassType DEF RouteToLoaders
<1>6. CASE ServeOpen
  BY <1>6, <1>s, AnswerType DEF ServeOpen, Kinds
<1>7. CASE SignIn
  <2>1. ASSUME ManualSignIn(req) = "ok"
        PROVE  BasicSession(req.form.user, NoName) \in Session
    <3>1. req.form.user \in Names \cup {NoName}
      BY DEF TypeOK, Request
    <3>2. req.form.user # NoName
      BY <2>1 DEF ManualSignIn
    <3> QED
      BY <3>1, <3>2, BasicType
  <2> QED
    BY <1>7, <1>s, <2>1, AnswerType DEF SignIn, Kinds
<1>8. CASE OAuthCallback
  BY <1>8, <1>s, AnswerType, RequestAuthAssumption DEF OAuthCallback, Kinds
<1>9. CASE LoadJwtSession
  <2>1. ASSUME TokenVerified(req.cred)
        PROVE  TokenSession(req.cred.token) \in Session \cup {NoSession}
    <3>1. req.cred \in Credential
      BY DEF TypeOK, Request
    <3>2. req.cred.token \in Tokens
      BY <3>1, <2>1 DEF Credential, TokenVerified
    <3> QED
      BY <3>2, TokenType
  <2> QED
    BY <1>9, <1>s, <2>1, AnswerType, PassType DEF LoadJwtSession, Kinds
<1>10. CASE LoadBasicSession
  <2>1. ASSUME Validate(req.cred)
        PROVE  \A e \in {NoName, req.cred.user} : BasicSession(req.cred.user, e) \in Session
    BY <2>1, BasicType DEF Validate, TypeOK
  <2> QED
    BY <1>10, <1>s, <2>1, PassType DEF LoadBasicSession
<1>11. CASE LoadStoredSession
  BY <1>11, <1>s, PassType DEF LoadStoredSession
<1>12. CASE UserInfo
  BY <1>12, <1>s, AnswerType DEF UserInfo, Kinds
<1>13. CASE AuthOnly
  BY <1>13, <1>s, AnswerType, HeadersType DEF AuthOnly, Kinds
<1>14. CASE ProxyServes
  BY <1>14, <1>s, AnswerType, HeadersType DEF ProxyServes, Kinds
<1>15. CASE ProxyRefuses
  BY <1>15, <1>s, AnswerType DEF ProxyRefuses, Kinds
<1>16. CASE SignOutRedirect
  BY <1>16, <1>s, AnswerType, PassType DEF SignOutRedirect, Kinds
<1>17. CASE SignOutFinish
  BY <1>17, <1>s, AnswerType DEF SignOutFinish, Kinds
<1>18. CASE UNCHANGED vars
  BY <1>18 DEF vars, TypeOK
<1> QED
  BY <1>1, <1>2, <1>3, <1>4, <1>5, <1>6, <1>7, <1>8, <1>9, <1>10, <1>11, <1>12, <1>13,
     <1>14, <1>15, <1>16, <1>17, <1>18 DEF Next, Step

\* Every state a request can bring the proxy to is well typed (RequestScope,
\* SessionState and the answers of the handlers), for any requests and options.
THEOREM RequestTypes == Spec => []TypeOK
<1>1. Init => TypeOK
  BY TypeInit
<1>2. TypeOK /\ [Next]_vars => TypeOK'
  BY TypeStep
<1> QED
  BY <1>1, <1>2, PTL DEF Spec

-----------------------------------------------------------------------------
(* The inductive invariant, one lemma per way a step can end.                *)

\* What a request presents is fixed by its arrival, except that the users of
\* the password file accumulate.
LEMMA PresentedFixed ==
  ASSUME cfg' = cfg, req' = req, arrived' = arrived, seen \subseteq seen'
  PROVE  /\ FromToken' = FromToken
         /\ FromPassword \subseteq FromPassword'
         /\ Presented \subseteq Presented'
<1>1. FromToken' = FromToken
  BY DEF FromToken, TokenVerified
<1>2. FromPassword \subseteq FromPassword'
  BY DEF FromPassword, BasicSession
<1> QED
  BY <1>1, <1>2 DEF Presented

\* A token presents a session, never nil.
LEMMA PresentedNotNil ==
  ASSUME TypeOK
  PROVE  NoSession \notin FromToken
BY DEF FromToken, TokenVerified

\* An answer that serves nobody keeps the invariant if it leaves no cookie
\* where a refusal must leave none.
LEMMA PlainAnswer ==
  ASSUME RequestInv, NEW kind, NEW s, Answer(kind, s), kind \notin Served,
         kind \in Refusals \/ (kind = "redirect" /\ EndpointOf[req.uri] = "signOut")
           => jar' = NoSession
  PROVE  Origin' /\ Course' /\ Promises'
<1>1. stage' = "idle" /\ reply'.kind = kind /\ req' = req
  BY DEF Answer
<1>2. Origin' /\ Course'
  BY <1>1 DEF Origin, Course, AfterJwt
<1>3. (VerifiedTokenWins /\ HeadersFromSession /\ InvalidTokenStops)'
  BY <1>1 DEF VerifiedTokenWins, HeadersFromSession, InvalidTokenStops, Served
<1>4. RefusedIsLoggedOut'
  BY <1>1 DEF RefusedIsLoggedOut, Refusals
<1> QED
  BY <1>2, <1>3, <1>4 DEF Promises

\* An answer as the session in the scope, from a handler.
LEMMA ServedAnswer ==
  ASSUME RequestInv, stage = "handle", NEW kind \in Served, Answer(kind, scope),
         kind = "upstream" => outgoing' = RequestHeaders
  PROVE  Origin' /\ Course' /\ Promises'
<1>1. stage' = "idle" /\ reply'.kind = kind /\ reply'.as = scope /\ req' = req /\ cfg' = cfg
      /\ arrived' = arrived /\ seen' = seen
  BY DEF Answer, lists
<1>2. FromToken' = FromToken
  BY <1>1, PresentedFixed
<1>3. Origin' /\ Course'
  BY <1>1 DEF Origin, Course, AfterJwt
<1>4. VerifiedTokenWins'
  BY <1>1, <1>2 DEF VerifiedTokenWins, RequestInv, Origin, AfterJwt
<1>5. InvalidTokenStops'
  BY <1>1, <1>2 DEF InvalidTokenStops, RequestInv, Course, AfterJwt
<1>6. RefusedIsLoggedOut'
  BY <1>1 DEF RefusedIsLoggedOut, Served
<1>7. HeadersFromSession'
  <2> SUFFICES ASSUME kind = "upstream", NEW sp \in Spellings, NEW value \in outgoing'[sp]
               PROVE  IF value = Client
                        THEN "preserve" \in cfg \/ ("skipNormalization" \in cfg /\ sp # Canonical)
                        ELSE scope # NoSession /\ value = scope.email
    BY <1>1 DEF HeadersFromSession
  <2>1. value \in (IF sp \in Kept THEN {Client} ELSE {}) \cup (IF sp = Canonical THEN Claim ELSE {})
    BY DEF RequestHeaders
  <2>2. ASSUME value \in Claim
        PROVE  scope # NoSession /\ value = scope.email /\ value # Client
    <3>1. scope \in Session \cup {NoSession}
      BY DEF RequestInv, TypeOK
    <3> QED
      BY <2>2, <3>1, RequestAuthAssumption DEF Claim, Session
  <2>3. ASSUME sp \in Kept
        PROVE  "preserve" \in cfg \/ ("skipNormalization" \in cfg /\ sp # Canonical)
    BY <2>3 DEF Kept, Stripped
  <2> QED
    BY <2>1, <2>2, <2>3
<1> QED
  BY <1>3, <1>4, <1>5, <1>6, <1>7 DEF Promises

\* A stage that passes the request on has not answered it yet.
LEMMA PassedOn ==
  ASSUME RequestInv, stage # "idle", NEW next, PassTo(next)
  PROVE  Promises'
<1>1. reply'.kind = "none"
  BY DEF RequestInv, Course, PassTo, NoReply
<1> QED
  BY <1>1 DEF Promises, VerifiedTokenWins, HeadersFromSession, InvalidTokenStops,
              RefusedIsLoggedOut, Served

\* The reloads and the arrival of a request.
LEMMA EnvironmentStep ==
  ASSUME RequestInv,
         \/ \E list \in EmailLists : ReloadEmails(list)
         \/ \E list \in UserLists : ReloadUsers(list)
         \/ \E r \in Requests : Receive(r)
  PROVE  Origin' /\ Course' /\ Promises'
<1>1. ASSUME NEW list \in EmailLists, ReloadEmails(list)
      PROVE  Origin' /\ Course' /\ Promises'
  <2>1. FromToken' = FromToken /\ Presented \subseteq Presented'
    BY <1>1, PresentedFixed DEF ReloadEmails
  <2> QED
    BY <1>1, <2>1 DEF ReloadEmails, RequestInv, Origin, Course, Promises, VerifiedTokenWins,
       HeadersFromSession, InvalidTokenStops, RefusedIsLoggedOut
<1>2. ASSUME NEW list \in UserLists, ReloadUsers(list)
      PROVE  Origin' /\ Course' /\ Promises'
  <2>1. FromToken' = FromToken /\ Presented \subseteq Presented'
    BY <1>2, PresentedFixed DEF ReloadUsers
  <2> QED
    BY <1>2, <2>1 DEF ReloadUsers, RequestInv, Origin, Course, Promises, VerifiedTokenWins,
       HeadersFromSession, InvalidTokenStops, RefusedIsLoggedOut
<1>3. ASSUME NEW r \in Requests, Receive(r)
      PROVE  Origin' /\ Course' /\ Promises'
  BY <1>3 DEF Receive, NoReply, Origin, Course, AfterJwt, Promises, VerifiedTokenWins,
     HeadersFromSession, InvalidTokenStops, RefusedIsLoggedOut, Served
<1> QED
  BY <1>1, <1>2, <1>3

\* The stages before the loaders.
LEMMA OpenStep ==
  ASSUME RequestInv, PreAuth \/ RouteToLoaders \/ ServeOpen \/ SignIn \/ OAuthCallback
  PROVE  Origin' /\ Course' /\ Promises'
<1>1. ASSUME stage \in {"pre", "route"}, NEW next \in {"route", "jwt"}, PassTo(next),
             UNCHANGED <<jar, scope>>
      PROVE  Origin' /\ Course' /\ Promises'
  <2>1. Promises'
    BY <1>1, PassedOn
  <2> QED
    BY <1>1, <2>1 DEF PassTo, lists, RequestInv, Origin, Course, AfterJwt
<1>2. CASE PreAuth
  BY <1>2, <1>1, PlainAnswer DEF PreAuth, Served, Refusals
<1>3. CASE RouteToLoaders
  BY <1>3, <1>1 DEF RouteToLoaders
<1>4. CASE ServeOpen
  BY <1>4, PlainAnswer DEF ServeOpen, Served, Refusals
<1>5. CASE SignIn
  BY <1>5, PlainAnswer DEF SignIn, Served, Refusals
<1>6. CASE OAuthCallback
  BY <1>6, PlainAnswer DEF OAuthCallback, Served, Refusals
<1> QED
  BY <1>2, <1>3, <1>4, <1>5, <1>6

\* The three loaders, each of which can only add a session the request presents.
LEMMA LoaderStep ==
  ASSUME RequestInv, LoadJwtSession \/ LoadBasicSession \/ LoadStoredSession
  PROVE  Origin' /\ Course' /\ Promises'
<1>f. ASSUME NEW next, PassTo(next)
      PROVE  /\ stage' = next /\ reply' = reply /\ req' = req /\ cfg' = cfg /\ users' = users /\ seen' = seen
             /\ FromToken' = FromToken /\ FromPassword \subseteq FromPassword' /\ Presented \subseteq Presented'
             /\ arrived' = arrived
  BY <1>f, PresentedFixed DEF PassTo, lists
<1>1. CASE LoadJwtSession
  <2>1. CASE stage' = "idle"
    BY <1>1, <2>1, PlainAnswer DEF LoadJwtSession, PassTo, Served, Refusals
  <2>2. CASE PassTo("basic")
    <3>1. Promises'
      BY <1>1, <2>2, PassedOn DEF LoadJwtSession
    <3>a. stage = "jwt" /\ scope = NoSession /\ stage' = "basic"
      BY <1>1, <2>2 DEF LoadJwtSession, PassTo, RequestInv, Origin
    <3>b. (FromToken = {} /\ scope' = NoSession) \/ scope' \in FromToken
      BY <1>1, <3>a DEF LoadJwtSession, Answer, FromToken, TokenVerified
    <3>2. Origin'
      BY <2>2, <3>a, <3>b, <1>f DEF Origin, AfterJwt
    <3>3. Course'
      BY <1>1, <2>2, <1>f DEF LoadJwtSession, RequestInv, Course, Origin, AfterJwt, FromToken, Answer
    <3> QED
      BY <3>1, <3>2, <3>3
  <2> QED
    BY <1>1, <2>1, <2>2 DEF LoadJwtSession, Answer
<1>2. CASE LoadBasicSession
  <2>1. PassTo("stored") /\ jar' = jar /\ stage = "basic"
    BY <1>2 DEF LoadBasicSession
  <2>2. Promises'
    BY <2>1, PassedOn
  <2>3. scope' = scope \/ (scope = NoSession /\ scope' \in FromPassword)
    <3>1. users \subseteq seen
      BY <2>1 DEF RequestInv, Course
    <3> QED
      BY <1>2, <3>1 DEF LoadBasicSession, FromPassword, Validate
  <2>4. FromToken # {} => scope \in FromToken /\ scope # NoSession
    BY <2>1, PresentedNotNil DEF RequestInv, Origin, AfterJwt
  <2>5. Origin'
    BY <2>1, <2>3, <2>4, <1>f DEF RequestInv, Origin, AfterJwt, Presented
  <2>6. Course'
    BY <2>1, <1>f DEF RequestInv, Course, AfterJwt
  <2> QED
    BY <2>2, <2>5, <2>6
<1>3. CASE LoadStoredSession
  <2>1. PassTo("handle") /\ stage = "stored" /\ jar = arrived
    BY <1>3 DEF LoadStoredSession, RequestInv, Course
  <2>2. Promises'
    BY <2>1, PassedOn
  <2>3. FromToken # {} => scope \in FromToken /\ scope # NoSession
    BY <2>1, PresentedNotNil DEF RequestInv, Origin, AfterJwt
  <2>4. Origin'
    BY <1>3, <2>1, <2>3, <1>f DEF LoadStoredSession, RequestInv, Origin, AfterJwt, Presented
  <2>5. Course'
    BY <1>3, <2>1, <1>f DEF LoadStoredSession, RequestInv, Course, AfterJwt
  <2> QED
    BY <2>2, <2>4, <2>5
<1> QED
  BY <1>1, <1>2, <1>3

\* Who is refused for want of a session has none in the jar either.
LEMMA RefusedJar ==
  ASSUME RequestInv, stage = "handle", AuthError # "nil"
  PROVE  JarAfterAuth = NoSession /\ (AuthError = "needsLogin" => jar = NoSession)
BY DEF RequestInv, Course, AuthError, JarAfterAuth

\* The handlers that need a session.
LEMMA HandlerStep ==
  ASSUME RequestInv,
         UserInfo \/ AuthOnly \/ ProxyServes \/ ProxyRefuses \/ SignOutRedirect \/ SignOutFinish
  PROVE  Origin' /\ Course' /\ Promises'
<1>1. CASE UserInfo
  <2>1. CASE AuthError = "nil"
    BY <1>1, <2>1, ServedAnswer DEF UserInfo, Served
  <2>2. CASE AuthError # "nil"
    BY <1>1, <2>2, RefusedJar, PlainAnswer DEF UserInfo, Served, Refusals
  <2> QED
    BY <2>1, <2>2
<1>2. CASE AuthOnly
  <2>1. CASE AuthError = "nil" /\ authOnlyAuthorize(req, scope)
    BY <1>2, <2>1, ServedAnswer DEF AuthOnly, Served
  <2>2. CASE AuthError # "nil"
    BY <1>2, <2>2, RefusedJar, PlainAnswer DEF AuthOnly, Served, Refusals
  <2>3. CASE AuthError = "nil" /\ ~authOnlyAuthorize(req, scope)
    BY <1>2, <2>3, PlainAnswer DEF AuthOnly, Served, Refusals
  <2> QED
    BY <2>1, <2>2, <2>3
<1>3. CASE ProxyServes
  <2>1. CASE authOnlyAuthorize(req, scope)
    BY <1>3, <2>1, ServedAnswer DEF ProxyServes, Served
  <2>2. CASE ~authOnlyAuthorize(req, scope)
    BY <1>3, <2>2, PlainAnswer DEF ProxyServes, Served, Refusals
  <2> QED
    BY <2>1, <2>2
<1>4. CASE ProxyRefuses
  BY <1>4, RefusedJar, PlainAnswer DEF ProxyRefuses, Served, Refusals
<1>5. CASE SignOutRedirect
  <2>1. CASE stage' = "idle"
    BY <1>5, <2>1, PlainAnswer DEF SignOutRedirect, PassTo, Served, Refusals
  <2>2. CASE stage' # "idle"
    <3>1. PassTo("logout") /\ scope' = scope /\ stage = "handle"
      BY <1>5, <2>2 DEF SignOutRedirect, Answer
    <3>2. Promises'
      BY <3>1, PassedOn
    <3>3. /\ FromToken' = FromToken /\ Presented \subseteq Presented' /\ stage' = "logout" /\ reply' = reply
          /\ req' = req /\ cfg' = cfg /\ users' = users /\ seen' = seen
      BY <3>1, PresentedFixed DEF PassTo, lists
    <3>4. Origin' /\ Course'
      BY <3>1, <3>3 DEF RequestInv, Origin, Course, AfterJwt
    <3> QED
      BY <3>2, <3>4
  <2> QED
    BY <2>1, <2>2
<1>6. CASE SignOutFinish
  BY <1>6, PlainAnswer DEF SignOutFinish, Served, Refusals
<1> QED
  BY <1>1, <1>2, <1>3, <1>4, <1>5, <1>6

LEMMA RequestInvariance == Spec => []RequestInv
<1>1. Init => RequestInv
  <2> SUFFICES ASSUME Init
               PROVE  RequestInv
    OBVIOUS
  <2>1. TypeOK
    BY TypeInit
  <2>2. Origin /\ Course
    BY DEF Init, Origin, Course, AfterJwt
  <2>3. Promises
    BY DEF Init, NoReply, Promises, VerifiedTokenWins, HeadersFromSession, InvalidTokenStops,
           RefusedIsLoggedOut, Served
  <2> QED
    BY <2>1, <2>2, <2>3 DEF RequestInv
<1>2. RequestInv /\ [Next]_vars => RequestInv'
  <2> SUFFICES ASSUME RequestInv, [Next]_vars
               PROVE  RequestInv'
    OBVIOUS
  <2>1. TypeOK'
    BY TypeStep DEF RequestInv
  <2>2. CASE Next
    <3>1. Origin' /\ Course' /\ Promises'
      BY <2>2, EnvironmentStep, OpenStep, LoaderStep, HandlerStep DEF Next, Step
    <3> QED
      BY <2>1, <3>1 DEF RequestInv
  <2>3. CASE UNCHANGED vars
    <3>1. /\ cfg' = cfg /\ req' = req /\ arrived' = arrived /\ seen' = seen /\ users' = users
          /\ stage' = stage /\ scope' = scope /\ jar' = jar /\ reply' = reply /\ outgoing' = outgoing
      BY <2>3 DEF vars
    <3>2. FromToken' = FromToken /\ Presented \subseteq Presented'
      BY <3>1, PresentedFixed
    <3>3. Origin' /\ Course'
      BY <3>1, <3>2 DEF RequestInv, Origin, Course
    <3>4. Promises'
      BY <3>1, <3>2 DEF RequestInv, Promises, VerifiedTokenWins, HeadersFromSession,
         InvalidTokenStops, RefusedIsLoggedOut
    <3> QED
      BY <2>1, <3>3, <3>4 DEF RequestInv
  <2> QED
    BY <2>2, <2>3
<1> QED
  BY <1>1, <1>2, PTL DEF Spec

\* A verified JWT decides as whom a request is answered, whatever cookie and
\* whatever reloads come with it (buildSessionChain).
THEOREM TokenDecides == Spec => []VerifiedTokenWins
<1>1. RequestInv => VerifiedTokenWins
  BY DEF RequestInv, Promises
<1> QED
  BY <1>1, RequestInvariance, PTL

\* The upstream reads in the injected header the e-mail of the session and
\* nothing the client made up, for any spellings (pkg/middleware/headers.go).
THEOREM HeadersAreTheSessions == Spec => []HeadersFromSession
<1>1. RequestInv => HeadersFromSession
  BY DEF RequestInv, Promises
<1> QED
  BY <1>1, RequestInvariance, PTL

\* Without the login fallback an Authorization header that yields no session is
\* never served (jwtSessionLoader.loadSession).
THEOREM InvalidTokensStop == Spec => []InvalidTokenStops
<1>1. RequestInv => InvalidTokenStops
  BY DEF RequestInv, Promises
<1> QED
  BY <1>1, RequestInvariance, PTL

\* Refused requests and sign-outs leave no session behind in the browser
\* (ClearSessionCookie and the stored session loader).
THEOREM RefusalsLogOut == Spec => []RefusedIsLoggedOut
<1>1. RequestInv => RefusedIsLoggedOut
  BY DEF RequestInv, Promises
<1> QED
  BY <1>1, RequestInvariance, PTL

-----------------------------------------------------------------------------
(* Who reaches the upstream.                                                 *)

\* The code's exemption implies the one the property states.
LEMMA AllowedIsExempt ==
  ASSUME TypeOK, IsAllowedRequest(req)
  PROVE  Exempt
<1>1. CASE "skipPreflight" \in cfg /\ req.method = "OPTIONS"
  BY <1>1 DEF Exempt
<1>2. CASE isTrustedIP(req)
  BY <1>2 DEF Exempt, isTrustedIP, ClientIP
<1>3. CASE isAllowedRoute(req)
  <2>1. PICK route \in Routes : route.method \in {"", req.method} /\ isAllowedPath(req, route)
    BY <1>3 DEF isAllowedRoute
  <2>3. /\ req.uri \in URIs /\ req.fwd \in URIs \cup {NoURI}
    BY DEF TypeOK, Request
  <2>4. GetRequestURI(req) \in URIs
    BY <2>3 DEF GetRequestURI
  <2>5. \/ GetRequestURI(req) = req.uri
        \/ /\ GetRequestURI(req) = req.fwd /\ "reverseProxy" \in cfg
           /\ req.remote \in TrustedProxies \/ req.remote = Socket
    BY DEF GetRequestURI, CanTrustForwardedHeaders
  <2>6. IF route.negate THEN GetRequestURI(req) \notin route.paths ELSE GetRequestURI(req) \in route.paths
    BY <2>1 DEF isAllowedPath
  <2> QED
    BY <2>1, <2>4, <2>5, <2>6 DEF Exempt
<1> QED
  BY <1>1, <1>2, <1>3 DEF IsAllowedRequest

\* What passes getAuthenticatedSession and authOnlyAuthorize is entitled.
LEMMA PassedIsEntitled ==
  ASSUME RequestInv, stage = "handle", AuthError = "nil", authOnlyAuthorize(req, scope)
  PROVE  Entitled(scope)
<1>1. TypeOK /\ scope \in Presented \cup {NoSession}
  BY DEF RequestInv, Origin
<1>2. CASE scope = NoSession
  BY <1>1, <1>2, AllowedIsExempt DEF AuthError, Entitled
<1>3. CASE scope # NoSession
  <2>1. scope.email \in Names \cup {NoName}
    BY <1>1, <1>3 DEF TypeOK, Session
  <2>2. MeetsQuery(scope)
    BY <1>3, <2>1 DEF authOnlyAuthorize, MeetsQuery
  <2>3. Exempt \/ Admissible(scope)
    <3>1. CASE IsAllowedRequest(req)
      BY <3>1, <1>1, AllowedIsExempt
    <3>2. CASE ~IsAllowedRequest(req)
      BY <3>2, <1>3 DEF AuthError, Authorize, Admissible
    <3> QED
      BY <3>1, <3>2
  <2> QED
    BY <1>1, <1>3, <2>2, <2>3 DEF Entitled
<1> QED
  BY <1>2, <1>3

\* No request reaches the upstream, or is accepted for nginx, that is neither
\* exempt nor backed by a session it presents and that passes the lists, groups
\* and query constraints at that moment (getAuthenticatedSession, authOnlyAuthorize).
THEOREM OnlyEntitledServed == Spec => UpstreamEntitled
<1>1. RequestInv /\ [Next]_vars
      => [reply'.kind \in {"upstream", "accepted"} /\ reply.kind = "none" => Entitled(reply'.as)]_vars
  <2> SUFFICES ASSUME RequestInv, Next,
                      reply'.kind \in {"upstream", "accepted"}, reply.kind = "none"
               PROVE  Entitled(reply'.as)
    OBVIOUS
  <2>0. reply' # reply
    OBVIOUS
  <2>1. CASE AuthOnly
    BY <2>1, PassedIsEntitled DEF AuthOnly, Answer
  <2>2. CASE ProxyServes
    BY <2>2, PassedIsEntitled DEF ProxyServes, Answer
  <2>3. ASSUME \/ \E list \in EmailLists : ReloadEmails(list)
               \/ \E list \in UserLists : ReloadUsers(list)
               \/ \E r \in Requests : Receive(r)
        PROVE  FALSE
    BY <2>3, <2>0 DEF ReloadEmails, ReloadUsers, Receive, NoReply
  <2>4. ASSUME PreAuth \/ RouteToLoaders \/ ServeOpen \/ SignIn \/ OAuthCallback
        PROVE  FALSE
    BY <2>4, <2>0 DEF PreAuth, RouteToLoaders, ServeOpen, SignIn, OAuthCallback, Answer, PassTo
  <2>5. ASSUME LoadJwtSession \/ LoadBasicSession \/ LoadStoredSession
        PROVE  FALSE
    BY <2>5, <2>0 DEF LoadJwtSession, LoadBasicSession, LoadStoredSession, Answer, PassTo
  <2>6. ASSUME UserInfo \/ ProxyRefuses \/ SignOutRedirect \/ SignOutFinish
        PROVE  FALSE
    BY <2>6, <2>0 DEF UserInfo, ProxyRefuses, SignOutRedirect, SignOutFinish, Answer, PassTo
  <2> QED
    BY <2>1, <2>2, <2>3, <2>4, <2>5, <2>6 DEF Next, Step
<1> QED
  BY <1>1, RequestInvariance, PTL DEF Spec, UpstreamEntitled
=============================================================================

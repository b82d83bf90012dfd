----------------------------- MODULE RequestAuth -----------------------------
(***************************************************************************)
(* How one request is authenticated, authorised and handed to an upstream:   *)
(* the pre-authentication chain, the router, the three session loaders (a    *)
(* JWT, basic credentials, the session cookie) and the handlers that need a  *)
(* session (oauthproxy.go and pkg/middleware).  One browser sends requests   *)
(* one after another; the lists of e-mails and of htpasswd users are         *)
(* reloaded at any moment, also between two stages of a request.             *)
(*                                                                           *)
(* How a cookie session is refreshed is StoredSession's subject, how a login *)
(* is carried out LoginFlow's: here the first may be dropped by its loader   *)
(* and the second ends in a session the validator accepts.                   *)
(***************************************************************************)
EXTENDS Naturals

CONSTANTS Names, NoName,        \* user names and e-mails; the empty string
          Groups, Domains, NoDomain, DomainOf,
          Tokens, NoToken, Claims, NoClaims,  \* of a JWT that some verifier accepts
          ProviderSessions,     \* what a login at the provider may return
          NoSession,            \* a nil *SessionState
          URIs, NoURI, EndpointOf,
          Addrs, Socket, NoAddr, BadAddr, \* a peer on a Unix socket has none
          TrustedIPs, TrustedProxies,
          Routes, ApiRoutes,    \* allowedRoutes, apiRoutes
          AllowedGroups,        \* the provider's, empty if any group will do
          BasicGroups,          \* HtpasswdUserGroups
          Client, Canonical, Spellings,   \* of one injected header
          Requests, Configs, EmailLists, UserLists

Endpoints == {"ping", "ready", "robots", "static", "signIn", "start", "callback",
              "auth", "userInfo", "signOut", "app"}
Methods == {"GET", "POST", "OPTIONS"}
Flags == {"reverseProxy", "forceHTTPS", "pingAgent", "skipJwt", "loginFallback", "htpasswd",
          "preferEmail", "skipPreflight", "skipButton", "forceJSON", "backendLogout",
          "preserve", "skipNormalization"}

Session == [user : Names, email : Names \cup {NoName}, groups : SUBSET Groups]

IDToken == [sub : Names, email : Names \cup {NoName}, verified : {"true", "false", "missing"},
            groups : SUBSET Groups]

\* The Authorization header: what it can be to the two loaders that read it.
\* "malformed" is anything neither of them can use: not two words, another
\* scheme, a bearer token that is no JWT, a JWT as user with a real password.
Credential ==
  {c \in [kind : {"none", "malformed", "bearer", "basicToken", "basic"},
          token : Tokens \cup {NoToken}, user : Names \cup {NoName}, good : BOOLEAN] :
     c.kind \in {"bearer", "basicToken"} <=> c.token # NoToken}

Request == [uri : URIs, fwd : URIs \cup {NoURI}, proto : {"", "http", "https"}, tls : BOOLEAN,
            remote : Addrs \cup {Socket}, realIP : Addrs \cup {NoAddr, BadAddr},
            method : Methods, probe : BOOLEAN, ajax : BOOLEAN, cred : Credential,
            form : [user : Names \cup {NoName}, good : BOOLEAN],
            rd : {"error", "plain", "idToken"},
            query : [groups : SUBSET Groups, domains : SUBSET Domains, emails : SUBSET Names],
            hdr : SUBSET Spellings]

\* An allowed route: the URIs whose path its pattern matches.
Route == [method : Methods \cup {""}, paths : SUBSET URIs, negate : BOOLEAN]

ASSUME RequestAuthAssumption ==
  /\ NoSession \notin Session /\ NoName \notin Names /\ NoURI \notin URIs /\ NoDomain \notin Domains
  /\ NoToken \notin Tokens /\ Socket \notin Addrs /\ NoAddr \notin Addrs /\ BadAddr \notin Addrs
  /\ Client \notin Names /\ Canonical \in Spellings
  /\ DomainOf \in [Names -> Domains \cup {NoDomain}]
  /\ Claims \in [Tokens -> IDToken \cup {NoClaims}] /\ NoClaims \notin IDToken
  /\ ProviderSessions \subseteq Session
  /\ EndpointOf \in [URIs -> Endpoints]
  /\ TrustedIPs \subseteq Addrs /\ TrustedProxies \subseteq Addrs
  /\ Routes \subseteq Route /\ ApiRoutes \subseteq URIs
  /\ AllowedGroups \subseteq Groups /\ BasicGroups \subseteq Groups
  /\ Requests \subseteq Request /\ Configs \subseteq SUBSET Flags
  /\ EmailLists \subseteq SUBSET Names /\ UserLists \subseteq SUBSET Names

VARIABLES cfg,       \* the options that are set
          emails,    \* the e-mails p.Validator accepts
          users,     \* the users of the htpasswd file
          jar,       \* the session the browser's cookie stands for
          req, stage, \* the request being handled and how far it has come
          scope,     \* RequestScope.Session
          reply,     \* how it was answered, and as which session
          outgoing,  \* the injected header as it is sent on
          arrived, seen  \* history: the jar at arrival, the users since then

vars == <<cfg, emails, users, jar, req, stage, scope, reply, outgoing, arrived, seen>>
lists == <<cfg, emails, users, seen>>

NoReply == [kind |-> "none", as |-> NoSession]
NoHeaders == [sp \in Spellings |-> {}]

-----------------------------------------------------------------------------
(* What a request shows of itself.                                           *)

CanTrustForwardedHeaders(r) ==
  /\ "reverseProxy" \in cfg
  /\ r.remote \in TrustedProxies \cup {Socket}

\* Mutant: whoever sends X-Forwarded-Uri is believed.
GetRequestURIUnchecked(r) == IF r.fwd # NoURI THEN r.fwd ELSE r.uri

GetRequestURI(r) == IF CanTrustForwardedHeaders(r) /\ r.fwd # NoURI THEN r.fwd ELSE r.uri

\* redirectToHTTPS: req.URL.Scheme is empty on a server, so without a trusted
\* X-Forwarded-Proto it is the connection that counts.
IsHTTPS(r) == LET proto == IF CanTrustForwardedHeaders(r) THEN r.proto ELSE ""
              IN  proto = "https" \/ (r.tls /\ proto = "")

isHealthCheckRequest(r) == EndpointOf[r.uri] = "ping" /\ ("pingAgent" \in cfg => r.probe)

\* With --reverse-proxy the address is the header's, otherwise the peer's.
ClientIP(r) == IF "reverseProxy" \in cfg THEN r.realIP ELSE r.remote

isTrustedIP(r) == ClientIP(r) \in TrustedIPs

isAllowedPath(r, route) ==
  IF route.negate THEN GetRequestURI(r) \notin route.paths ELSE GetRequestURI(r) \in route.paths

isAllowedRoute(r) ==
  \E route \in Routes : route.method \in {"", r.method} /\ isAllowedPath(r, route)

IsAllowedRequest(r) ==
  \/ "skipPreflight" \in cfg /\ r.method = "OPTIONS"
  \/ isAllowedRoute(r)
  \/ isTrustedIP(r)

isAPIPath(r) == GetRequestURI(r) \in ApiRoutes

\* ProviderData.Authorize
Authorize(s) == AllowedGroups = {} \/ s.groups \cap AllowedGroups # {}

\* The constraints in the query: allowed_groups, _email_domains, _emails.
authOnlyAuthorize(r, s) ==
  s = NoSession \/
  /\ r.query.groups # {} => s.groups \cap r.query.groups # {}
  /\ r.query.domains # {} => s.email # NoName /\ DomainOf[s.email] \in r.query.domains
  /\ r.query.emails # {} => s.email \in r.query.emails

Validate(c) == c.user \in users /\ c.good

BasicSession(u, email) == [user |-> u, email |-> email, groups |-> BasicGroups]

\* CreateTokenToSessionFunc: a subject without an e-mail is its own, an e-mail
\* that is said to be unverified makes the token useless.
TokenSession(t) ==
  IF Claims[t] = NoClaims \/ Claims[t].verified = "false" THEN NoSession
  ELSE [user |-> Claims[t].sub,
        email |-> IF Claims[t].email = NoName THEN Claims[t].sub ELSE Claims[t].email,
        groups |-> Claims[t].groups]

TokenVerified(c) == c.kind \in {"bearer", "basicToken"} /\ TokenSession(c.token) # NoSession

-----------------------------------------------------------------------------
Init ==
  /\ cfg \in Configs
  /\ emails \in EmailLists
  /\ users \in UserLists
  /\ jar = NoSession
  /\ req \in Requests
  /\ stage = "idle"
  /\ scope = NoSession
  /\ reply = NoReply
  /\ outgoing = NoHeaders
  /\ arrived = NoSession
  /\ seen = {}

ReloadEmails(list) ==
  /\ emails' = list
  /\ UNCHANGED <<cfg, users, jar, req, stage, scope, reply, outgoing, arrived, seen>>

ReloadUsers(list) ==
  /\ users' = list
  /\ seen' = seen \cup list
  /\ UNCHANGED <<cfg, emails, jar, req, stage, scope, reply, outgoing, arrived>>

\* NewScope: a new request starts without a session.
Receive(r) ==
  /\ stage = "idle"
  /\ req' = r
  /\ stage' = "pre"
  /\ scope' = NoSession
  /\ reply' = NoReply
  /\ outgoing' = NoHeaders
  /\ arrived' = jar
  /\ seen' = users
  /\ UNCHANGED <<cfg, emails, users, jar>>

Answer(kind, s) ==
  /\ stage' = "idle"
  /\ reply' = [kind |-> kind, as |-> s]
  /\ UNCHANGED <<req, scope, arrived, lists>>

PassTo(next) ==
  /\ stage' = next
  /\ UNCHANGED <<req, reply, outgoing, arrived, lists>>

\* buildPreAuthChain: HTTPS, liveness, readiness.
PreAuth ==
  /\ stage = "pre"
  /\ UNCHANGED jar
  /\ \/ /\ "forceHTTPS" \in cfg /\ ~IsHTTPS(req)
        /\ Answer("toHTTPS", NoSession) /\ UNCHANGED outgoing
     \/ /\ "forceHTTPS" \in cfg => IsHTTPS(req)
        /\ \/ /\ isHealthCheckRequest(req)
              /\ Answer("ok", NoSession) /\ UNCHANGED outgoing
           \/ /\ ~isHealthCheckRequest(req) /\ EndpointOf[req.uri] = "ready"
              /\ \E k \in {"ok", "notReady"} : Answer(k, NoSession) /\ UNCHANGED outgoing
           \/ /\ ~isHealthCheckRequest(req) /\ EndpointOf[req.uri] # "ready"
              /\ PassTo("route") /\ UNCHANGED scope

\* buildServeMux: everything but the open endpoints goes through the loaders;
\* a ping from another user agent is a request like any other.
RouteToLoaders ==
  /\ stage = "route" /\ EndpointOf[req.uri] \in {"auth", "userInfo", "signOut", "app", "ping"}
  /\ PassTo("jwt")
  /\ UNCHANGED <<jar, scope>>

ServeOpen ==
  /\ stage = "route" /\ EndpointOf[req.uri] \in {"robots", "static", "start"}
  /\ Answer(IF EndpointOf[req.uri] = "start" THEN "login" ELSE "ok", NoSession)
  /\ UNCHANGED <<jar, outgoing>>

\* ManualSignIn: the status of an attempt with a name and a password.
ManualSignIn(r) ==
  IF r.method # "POST" \/ "htpasswd" \notin cfg THEN "page"
  ELSE IF r.form.user = NoName THEN "badRequest"
  ELSE IF Validate(r.form) THEN "ok"
  ELSE "unauthorized"

\* SignIn: the page is written with the cookie cleared (SignInPage).
SignIn ==
  /\ stage = "route" /\ EndpointOf[req.uri] = "signIn"
  /\ UNCHANGED outgoing
  /\ \/ /\ req.rd = "error"
        /\ Answer("error", NoSession) /\ UNCHANGED jar
     \/ /\ req.rd # "error" /\ ManualSignIn(req) = "ok"
        /\ \/ /\ jar' = BasicSession(req.form.user, NoName)
              /\ Answer("redirect", NoSession)
           \/ /\ UNCHANGED jar                 \* SaveSession fails
              /\ Answer("error", NoSession)
     \/ /\ req.rd # "error" /\ ManualSignIn(req) # "ok"
        /\ IF "skipButton" \in cfg
             THEN Answer("login", NoSession) /\ UNCHANGED jar
             ELSE Answer("signInPage", NoSession) /\ jar' = NoSession

\* The outcome of OAuthCallback.
OAuthCallback ==
  /\ stage = "route" /\ EndpointOf[req.uri] = "callback"
  /\ UNCHANGED outgoing
  /\ \/ \E s \in ProviderSessions :
          /\ s.email \in emails /\ Authorize(s)
          /\ jar' = s
          /\ Answer("redirect", NoSession)
     \/ Answer("error", NoSession) /\ UNCHANGED jar

-----------------------------------------------------------------------------
(* The session chain.  A loader that finds a session leaves the later ones   *)
(* nothing to do.                                                            *)

\* Mutant: the 403 is written but the chain goes on.
LoadJwtSessionNoReturn ==
  /\ stage = "jwt"
  /\ scope' = IF "skipJwt" \in cfg /\ TokenVerified(req.cred)
              THEN TokenSession(req.cred.token) ELSE scope
  /\ PassTo("basic")
  /\ UNCHANGED jar

\* jwtSessionLoader.loadSession
LoadJwtSession ==
  /\ stage = "jwt"
  /\ UNCHANGED jar
  /\ \/ /\ scope # NoSession \/ "skipJwt" \notin cfg \/ req.cred.kind = "none"
        /\ PassTo("basic") /\ UNCHANGED scope
     \/ /\ scope = NoSession /\ "skipJwt" \in cfg /\ TokenVerified(req.cred)
        /\ scope' = TokenSession(req.cred.token)
        /\ PassTo("basic")
     \/ /\ scope = NoSession /\ "skipJwt" \in cfg
        /\ req.cred.kind # "none" /\ ~TokenVerified(req.cred)
        /\ IF "loginFallback" \in cfg
             THEN PassTo("basic") /\ UNCHANGED scope
             ELSE Answer("forbidden", NoSession) /\ UNCHANGED outgoing

\* loadBasicAuthSession; preferEmail makes the user name the e-mail as well.
LoadBasicSession ==
  /\ stage = "basic"
  /\ scope' = IF scope = NoSession /\ "htpasswd" \in cfg
                   /\ req.cred.kind = "basic" /\ Validate(req.cred)
              THEN BasicSession(req.cred.user, IF "preferEmail" \in cfg THEN req.cred.user ELSE NoName)
              ELSE scope
  /\ PassTo("stored")
  /\ UNCHANGED jar

\* Mutant: a session that an earlier loader found is replaced.
LoadStoredSessionAlways ==
  /\ stage = "stored"
  /\ scope' = IF jar # NoSession THEN jar ELSE scope
  /\ PassTo("handle")
  /\ UNCHANGED jar

\* storedSessionLoader.loadSession: a session that cannot be loaded, refreshed
\* or validated is cleared.
LoadStoredSession ==
  /\ stage = "stored"
  /\ PassTo("handle")
  /\ \/ /\ scope # NoSession
        /\ UNCHANGED <<jar, scope>>
     \/ /\ scope = NoSession
        /\ scope' = jar
        /\ UNCHANGED jar
     \/ /\ scope = NoSession /\ jar # NoSession
        /\ jar' = NoSession
        /\ UNCHANGED scope

-----------------------------------------------------------------------------
(* The handlers that need a session.                                         *)

\* getAuthenticatedSession: nil, ErrNeedsLogin or ErrAccessDenied.
AuthError ==
  IF IsAllowedRequest(req) THEN "nil"
  ELSE IF scope = NoSession THEN "needsLogin"
  ELSE IF (scope.email # NoName /\ scope.email \notin emails) \/ ~Authorize(scope) THEN "denied"
  ELSE "nil"

\* Mutant: a refused session keeps its cookie.
JarAfterAuthKept == jar

\* Its side effect: a session that fails the checks is cleared.
JarAfterAuth == IF AuthError = "denied" THEN NoSession ELSE jar

\* The claim the header is made of: none without a session or an e-mail.
Claim == IF scope = NoSession THEN {} ELSE {scope.email} \ {NoName}

\* Mutant: only the exact spelling is removed.
StrippedExact == {Canonical}

\* stripNormalizedHeader: every spelling, unless normalisation is off.
Stripped == IF "skipNormalization" \in cfg THEN {Canonical} ELSE Spellings

\* stripHeaders: what is left of the header the client sent itself.
Kept == IF "preserve" \in cfg THEN req.hdr ELSE req.hdr \ Stripped

\* stripHeaders, then injectRequestHeaders.
RequestHeaders ==
  [sp \in Spellings |-> (IF sp \in Kept THEN {Client} ELSE {})
                        \cup (IF sp = Canonical THEN Claim ELSE {})]

\* injectResponseHeaders
ResponseHeaders == [sp \in Spellings |-> IF sp = Canonical THEN Claim ELSE {}]

UserInfo ==
  /\ stage = "handle" /\ EndpointOf[req.uri] = "userInfo"
  /\ jar' = JarAfterAuth
  /\ IF AuthError = "nil" THEN Answer("userInfo", scope) ELSE Answer("unauthorized", NoSession)
  /\ UNCHANGED outgoing

AuthOnly ==
  /\ stage = "handle" /\ EndpointOf[req.uri] = "auth"
  /\ jar' = JarAfterAuth
  /\ \/ /\ AuthError # "nil"
        /\ Answer("unauthorized", NoSession) /\ UNCHANGED outgoing
     \/ /\ AuthError = "nil" /\ ~authOnlyAuthorize(req, scope)
        /\ Answer("forbidden", NoSession) /\ UNCHANGED outgoing
     \/ /\ AuthError = "nil" /\ authOnlyAuthorize(req, scope)
        /\ Answer("accepted", scope) /\ outgoing' = ResponseHeaders

\* Proxy, with a session or on a request that needs none.
ProxyServes ==
  /\ stage = "handle" /\ EndpointOf[req.uri] \in {"app", "ping"}
  /\ AuthError = "nil"
  /\ UNCHANGED jar
  /\ IF authOnlyAuthorize(req, scope)
       THEN Answer("upstream", scope) /\ outgoing' = RequestHeaders
       ELSE Answer("forbidden", NoSession) /\ UNCHANGED outgoing

\* Proxy, when the browser must log in or its session is refused.  The sign-in
\* page clears the cookie; a redirect that cannot be read makes it an error page.
ProxyRefuses ==
  /\ stage = "handle" /\ EndpointOf[req.uri] \in {"app", "ping"}
  /\ UNCHANGED outgoing
  /\ \/ /\ AuthError = "needsLogin"
        /\ \/ /\ "forceJSON" \in cfg \/ req.ajax \/ isAPIPath(req)
              /\ Answer("json401", NoSession) /\ UNCHANGED jar
           \/ /\ ~("forceJSON" \in cfg \/ req.ajax \/ isAPIPath(req))
              /\ IF "skipButton" \in cfg
                   THEN Answer("login", NoSession) /\ UNCHANGED jar
                   ELSE /\ jar' = NoSession
                        /\ Answer(IF req.rd = "error" THEN "error" ELSE "signInPage", NoSession)
     \/ /\ AuthError = "denied"
        /\ jar' = JarAfterAuth
        /\ Answer("denied", NoSession)

\* SignOut up to the redirect URL.  Replacing {id_token} reads the ID token of
\* the session, which is nil on a request that needs none: the handler panics.
SignOutRedirect ==
  /\ stage = "handle" /\ EndpointOf[req.uri] = "signOut"
  /\ \/ /\ req.rd = "error"
        /\ Answer("error", NoSession) /\ UNCHANGED <<jar, outgoing>>
     \/ /\ req.rd = "idToken" /\ AuthError = "nil" /\ scope = NoSession
        /\ Answer("panic", NoSession) /\ UNCHANGED <<jar, outgoing>>
     \/ /\ req.rd # "error"
        /\ ~(req.rd = "idToken" /\ AuthError = "nil" /\ scope = NoSession)
        /\ jar' = IF req.rd = "idToken" THEN JarAfterAuth ELSE jar
        /\ PassTo("logout") /\ UNCHANGED scope

\* The rest of SignOut: backendLogout, which asks for the session again, and
\* the clearing of the cookie, whose failure in the store is an error page.
SignOutFinish ==
  /\ stage = "logout"
  /\ jar' = NoSession
  /\ \E kind \in {"redirect", "error"} :
       Answer(kind, IF AuthError = "nil" /\ "backendLogout" \in cfg THEN scope ELSE NoSession)
  /\ UNCHANGED outgoing

Step == \/ PreAuth \/ RouteToLoaders \/ ServeOpen \/ SignIn \/ OAuthCallback
        \/ LoadJwtSession \/ LoadBasicSession \/ LoadStoredSession
        \/ UserInfo \/ AuthOnly \/ ProxyServes \/ ProxyRefuses
        \/ SignOutRedirect \/ SignOutFinish

Next == \/ \E list \in EmailLists : ReloadEmails(list)
        \/ \E list \in UserLists : ReloadUsers(list)
        \/ \E r \in Requests : Receive(r)
        \/ Step

Spec == Init /\ [][Next]_vars
-----------------------------------------------------------------------------
Kinds == {"none", "toHTTPS", "ok", "notReady", "login", "error", "redirect", "signInPage",
          "forbidden", "userInfo", "unauthorized", "accepted", "upstream", "json401",
          "denied", "panic"}

\* Type invariant: every variable keeps to the values the code can give it.
TypeOK ==
  /\ cfg \in SUBSET Flags
  /\ emails \in SUBSET Names /\ users \in SUBSET Names /\ seen \in SUBSET Names
  /\ jar \in Session \cup {NoSession} /\ arrived \in Session \cup {NoSession}
  /\ scope \in Session \cup {NoSession}
  /\ req \in Request
  /\ stage \in {"idle", "pre", "route", "jwt", "basic", "stored", "handle", "logout"}
  /\ reply \in [kind : Kinds, as : Session \cup {NoSession}]
  /\ outgoing \in [Spellings -> SUBSET (Names \cup {Client})]

\* The sessions the request at hand brings proof of: a verified JWT, the
\* password of a user listed since it arrived, the cookie it arrived with.
FromToken == IF "skipJwt" \in cfg /\ TokenVerified(req.cred)
             THEN {TokenSession(req.cred.token)} ELSE {}
FromPassword == IF "htpasswd" \in cfg /\ req.cred.kind = "basic"
                     /\ req.cred.good /\ req.cred.user \in seen
                THEN {BasicSession(req.cred.user, e) : e \in {NoName, req.cred.user}} ELSE {}
Presented == FromToken \cup FromPassword \cup ({arrived} \ {NoSession})

\* The request may pass without a session: a preflight, a client at a trusted
\* address, or a route that is open; only a trusted proxy speaks for the URI.
Exempt ==
  \/ req.method = "OPTIONS" /\ "skipPreflight" \in cfg
  \/ (IF "reverseProxy" \in cfg THEN req.realIP ELSE req.remote) \in TrustedIPs
  \/ \E route \in Routes, uri \in URIs :
       /\ uri = req.uri \/ (uri = req.fwd /\ "reverseProxy" \in cfg
                            /\ (req.remote \in TrustedProxies \/ req.remote = Socket))
       /\ route.method = "" \/ route.method = req.method
       /\ IF route.negate THEN uri \notin route.paths ELSE uri \in route.paths

Admissible(s) == (s.email = NoName \/ s.email \in emails)
                 /\ (AllowedGroups # {} => \E g \in AllowedGroups : g \in s.groups)

MeetsQuery(s) == /\ req.query.groups = {} \/ \E g \in req.query.groups : g \in s.groups
                 /\ req.query.domains = {} \/ \E n \in Names : s.email = n /\ DomainOf[n] \in req.query.domains
                 /\ req.query.emails = {} \/ s.email \in req.query.emails

Entitled(s) == \/ s = NoSession /\ Exempt
               \/ s \in Presented /\ MeetsQuery(s) /\ (Exempt \/ Admissible(s))

Served == {"upstream", "accepted", "userInfo"}

\* A request reaches the upstream, or is vouched for to nginx, only if it is
\* exempt from authentication or carries proof of a session that at that moment
\* passes the e-mail list, the provider's groups and the constraints in its own
\* query, whatever was reloaded while it was being handled (getAuthenticatedSession,
\* authOnlyAuthorize).
UpstreamEntitled ==
  [][reply'.kind \in {"upstream", "accepted"} /\ reply.kind = "none" => Entitled(reply'.as)]_vars

\* The first loader that succeeds decides: a request with a verified JWT is
\* answered as the JWT's subject, never as the owner of its cookie
\* (buildSessionChain, scope.Session # nil in every loader).
VerifiedTokenWins ==
  reply.kind \in Served /\ FromToken # {} => reply.as \in FromToken

\* The injected header tells the upstream of the session and of nothing else: no
\* spelling of it carries the client's own value unless the options keep it, and
\* a request without a session carries no name at all (stripHeaders,
\* injectRequestHeaders).
HeadersFromSession ==
  reply.kind = "upstream" =>
    \A sp \in Spellings : \A value \in outgoing[sp] :
      IF value = Client
        THEN "preserve" \in cfg \/ ("skipNormalization" \in cfg /\ sp # Canonical)
        ELSE reply.as # NoSession /\ value = reply.as.email

\* Without the login fallback an Authorization header that yields no session is
\* final: no later loader, no cookie and no exemption lets the request be served
\* (denyInvalidJWTs in jwtSessionLoader.loadSession).
InvalidTokenStops ==
  reply.kind \in Served /\ "skipJwt" \in cfg /\ "loginFallback" \notin cfg
    => req.cred.kind = "none" \/ FromToken # {}

\* Whoever is refused for want of a good session, or signs out, is left without
\* one: the cookie never survives the answer (ClearSessionCookie in
\* getAuthenticatedSession, SignInPage and SignOut; the stored loader).
RefusedIsLoggedOut ==
  \/ reply.kind \in {"unauthorized", "json401", "denied", "signInPage"}
  \/ reply.kind = "redirect" /\ EndpointOf[req.uri] = "signOut"
  => jar = NoSession
=============================================================================

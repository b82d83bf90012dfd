------------------------------ MODULE ProxyOptions ------------------------------
(***************************************************************************)
(* The options of pkg/apis/options and what pkg/validation says of them:     *)
(* how the flags of the legacy configuration become Options, how the alpha   *)
(* configuration is taken from Options and merged into them, which defaults  *)
(* are filled in and what Validate complains of.                             *)
(*                                                                           *)
(* A value that only has to parse, exist or be readable is a member of       *)
(* "malformed" when it does not.  What may be left out of the YAML file is   *)
(* "unset" or empty.  Complaints are named after the option they are about.  *)
(***************************************************************************)
EXTENDS Redirects

When(b, s) == IF b THEN s ELSE <<>>
Complain(b, c) == IF b THEN {c} ELSE {}
YesNo(b) == IF b THEN "yes" ELSE "no"
Default(v, d) == IF v = "unset" THEN d ELSE v

ElementsOf(s) == {s[i] : i \in DOMAIN s}
Repeats(s, key(_)) == \E i, j \in DOMAIN s : i # j /\ key(s[i]) = key(s[j])

(***************************************************************************)
(* Legacy flags.  An upstream flag has a scheme, a path and, for file://, a  *)
(* fragment; flags holds the Boolean flags that are true.                    *)
(***************************************************************************)
NewLegacyOptions ==
  [upstreams |-> <<>>, flags |-> {"pass-host-header", "proxy-websockets", "pass-basic-auth",
                                  "pass-user-headers", "skip-auth-strip-headers"},
   password |-> "empty", server |-> ":4180", metrics |-> "",
   provider |-> "google", name |-> "", clientID |-> "", secret |-> "none",
   groups |-> {}, own |-> {}, emailClaim |-> "email", nonce |-> "skip", challenge |-> "", force |-> "",
   acrValues |-> "", prompt |-> "", approvalPrompt |-> "force"]

\* code: the host of a static:// flag, 0 if it is not a number.
UpstreamFlag(scheme, path, fragment, code) ==
  [scheme |-> scheme, path |-> path, fragment |-> fragment, code |-> code, parses |-> TRUE]

\* LegacyUpstreams.convert for one --upstream.
convertUpstream(l, f) ==
  LET path == IF f.path = NoPath THEN Root ELSE f.path
      at == CASE f.scheme = "file" /\ f.fragment # NoPath -> f.fragment
              [] f.scheme \in {"static", "unix"} -> Root
              [] OTHER -> path
      id == CASE f.scheme = "static" -> <<f.scheme, f.code, f.path>>
              [] f.scheme = "unix" -> <<"", path>>
              [] OTHER -> <<"", at>>
      u == Upstream(id, at, f.scheme)
  IN IF f.scheme = "static"
     THEN [u EXCEPT !.uri = "", !.static = "yes", !.code = IF f.code = 0 THEN 200 ELSE f.code,
                    !.insecure = "no", !.passHost = "no",
                    !.webSockets = "no", !.flush = "1s", !.timeout = "30s"]
     ELSE [u EXCEPT !.insecure = YesNo("ssl-upstream-insecure-skip-verify" \in l.flags),
                    !.passHost = YesNo("pass-host-header" \in l.flags),
                    !.webSockets = YesNo("proxy-websockets" \in l.flags),
                    !.flush = "1s", !.timeout = "30s"]

\* A header with one value.  claim "none": the value has no claim source;
\* secret and password are secret sources.
Header(name, claim) ==
  [name |-> name, claim |-> claim, secret |-> "none", password |-> "none", preserve |-> "no"]

UserClaim(l) == IF "prefer-email-to-user" \in l.flags THEN "email" ELSE "user"
getBasicAuthHeader(l) == [Header("Authorization", UserClaim(l)) EXCEPT !.password = l.password]
getAuthorizationHeader == Header("Authorization", "id_token")
getPassUserHeaders(l) ==
  <<Header("X-Forwarded-Groups", "groups"), Header("X-Forwarded-User", UserClaim(l))>>
  \o When("prefer-email-to-user" \notin l.flags, <<Header("X-Forwarded-Email", "email")>>)
getXAuthRequestHeaders ==
  <<Header("X-Auth-Request-User", "user"), Header("X-Auth-Request-Email", "email"),
    Header("X-Auth-Request-Preferred-Username", "preferred_username"),
    Header("X-Auth-Request-Groups", "groups")>>

getRequestHeaders(l) ==
  LET hs == When("pass-basic-auth" \in l.flags /\ l.password # "empty", <<getBasicAuthHeader(l)>>)
            \o When(l.flags \cap {"pass-basic-auth", "pass-user-headers"} # {},
                    getPassUserHeaders(l)
                    \o <<Header("X-Forwarded-Preferred-Username", "preferred_username")>>)
            \o When("pass-access-token" \in l.flags, <<Header("X-Forwarded-Access-Token", "access_token")>>)
            \o When("pass-authorization-header" \in l.flags, <<getAuthorizationHeader>>)
  IN [i \in DOMAIN hs |->
        [hs[i] EXCEPT !.preserve = YesNo("skip-auth-strip-headers" \notin l.flags)]]

getResponseHeaders(l) ==
  When("set-xauthrequest" \in l.flags,
       getXAuthRequestHeaders
       \o When("pass-access-token" \in l.flags, <<Header("X-Auth-Request-Access-Token", "access_token")>>))
  \o When("set-basic-auth" \in l.flags, <<getBasicAuthHeader(l)>>)
  \o When("set-authorization-header" \in l.flags, <<getAuthorizationHeader>>)

\* LegacyServer.convert: with a certificate only the secure server runs.
convertServer(l) ==
  IF "tls" \in l.flags THEN [bind |-> "", secure |-> ":443", tls |-> TRUE]
                       ELSE [bind |-> l.server, secure |-> "", tls |-> FALSE]
convertMetrics(l) == [bind |-> l.metrics, secure |-> "", tls |-> FALSE]

\* LegacyProvider.convert: own are the groups, roles, organisations, projects
\* or tenants of the provider's type.  There is one provider; its name is its
\* ID, or its type and client ID are.
OwnOptions == {"github", "keycloak-oidc", "keycloak", "gitlab", "login.gov", "bitbucket", "google", "entra-id"}
\* How the provider is reached besides with a client secret: Google's admin
\* e-mail, service account and default credentials, Entra ID's federated token.
Keys(type) == CASE type = "google" -> {"admin", "json", "adc"}
                [] type = "entra-id" -> {"federated"}
                [] OTHER -> {}
convertProvider(l) ==
  [id |-> IF l.name # "" THEN <<l.name>> ELSE <<l.provider, l.clientID>>,
   type |-> l.provider, clientID |-> l.clientID, secret |-> l.secret, groups |-> l.groups,
   own |-> IF l.provider \in OwnOptions THEN l.own ELSE {},
   emailClaim |-> l.emailClaim, nonce |-> l.nonce,
   challenge |-> IF l.challenge = "" THEN l.force ELSE l.challenge,
   keys |-> l.flags \cap Keys(l.provider),
   params |-> When(l.acrValues # "", <<<<"acr_values", l.acrValues>>>>)
              \o <<CASE l.prompt # "" -> <<"prompt", l.prompt>>
                     [] l.approvalPrompt # "" -> <<"approval_prompt", l.approvalPrompt>>
                     [] OTHER -> <<"approval_prompt", "force">>>>]

NoServer == [bind |-> "", secure |-> "", tls |-> FALSE]
providerDefaults ==
  [id |-> <<>>, type |-> "google", clientID |-> "", secret |-> "none", groups |-> {}, own |-> {},
   emailClaim |-> "email", nonce |-> "skip", challenge |-> "", keys |-> {}, params |-> <<>>]
NoProvider ==
  [providerDefaults EXCEPT !.type = "", !.emailClaim = "", !.nonce = "unset"]

\* What is configured in the same way with the alpha configuration: the core.
Options(core) ==
  [upstreams |-> <<>>, requestHeaders |-> <<>>, responseHeaders |-> <<>>, server |-> NoServer,
   metrics |-> NoServer, providers |-> <<providerDefaults>>, preferEmail |-> FALSE, core |-> core]

(***************************************************************************)
(* EnsureDefaults                                                            *)
(***************************************************************************)
EnsureUpstream(u) ==
  IF Static(u)
  THEN [u EXCEPT !.uri = "", !.insecure = "no", !.passHost = "no", !.webSockets = "no",
                 !.flush = "1s", !.timeout = "30s"]
  ELSE [u EXCEPT !.static = "no",
                 !.insecure = Default(@, "no"), !.passHost = Default(@, "yes"),
                 !.webSockets = Default(@, "yes"), !.flush = Default(@, "1s"), !.timeout = Default(@, "30s")]

EnsureHeader(h) == [h EXCEPT !.preserve = Default(@, "no")]
EnsureProvider(p) ==
  [p EXCEPT !.emailClaim = IF @ = "" THEN "email" ELSE @, !.nonce = Default(@, "skip")]

EnsureDefaults(o) ==
  [o EXCEPT !.upstreams = [i \in DOMAIN @ |-> EnsureUpstream(@[i])],
            !.requestHeaders = [i \in DOMAIN @ |-> EnsureHeader(@[i])],
            !.responseHeaders = [i \in DOMAIN @ |-> EnsureHeader(@[i])],
            !.providers = [i \in DOMAIN @ |-> EnsureProvider(@[i])]]

ToOptions(l, core) ==
  EnsureDefaults(
    [Options(core) EXCEPT
       !.upstreams = [i \in DOMAIN l.upstreams |-> convertUpstream(l, l.upstreams[i])],
       !.requestHeaders = getRequestHeaders(l), !.responseHeaders = getResponseHeaders(l),
       !.server = convertServer(l), !.metrics = convertMetrics(l),
       !.preferEmail = "prefer-email-to-user" \in l.flags,
       !.providers = <<convertProvider(l)>>])
=============================================================================

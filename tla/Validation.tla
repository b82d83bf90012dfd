------------------------------- MODULE Validation -------------------------------
(***************************************************************************)
(* How main.go loads the configuration, and Validate of pkg/validation: the  *)
(* set of complaints about Options, empty if the proxy may start.            *)
(***************************************************************************)
EXTENDS ProxyOptions

(***************************************************************************)
(* The core: the options that are flags with either configuration.  flags    *)
(* are the ones that are set, malformed the ones whose value does not parse, *)
(* whose file cannot be used or which holds one that is out of range.        *)
(***************************************************************************)
Core(flags, whitelist) ==
  [flags |-> flags, malformed |-> {}, whitelist |-> whitelist, refresh |-> 0, expire |-> 2]

(***************************************************************************)
(* The alpha configuration                                                   *)
(***************************************************************************)
ExtractFrom(o) ==
  [upstreams |-> o.upstreams, requestHeaders |-> o.requestHeaders, responseHeaders |-> o.responseHeaders,
   server |-> o.server, metrics |-> o.metrics, providers |-> o.providers]

\* Fields that are empty do not appear in the YAML file, and a field that does
\* not appear keeps the value it had: Decode with ZeroFields off.
Kept(v, empty, old) == IF v = empty THEN old ELSE v
DecodeProvider(p, old) ==
  [f \in DOMAIN p |-> Kept(p[f], NoProvider[f], old[f])]
DecodeProviders(ps, old) ==
  [i \in DOMAIN ps |-> DecodeProvider(ps[i], IF i \in DOMAIN old THEN old[i] ELSE NoProvider)]

\* LoadYAML into the alpha options of the core, then MergeOptionsWithDefaults.
\* Only providers have values of their own to keep.
LoadYAML(yaml, o) == [yaml EXCEPT !.providers = DecodeProviders(@, o.providers)]
\* Mutant: an option that is forgotten.
MergeWithoutMetrics(a, o) ==
  [o EXCEPT !.upstreams = a.upstreams, !.requestHeaders = a.requestHeaders,
            !.responseHeaders = a.responseHeaders, !.server = a.server, !.providers = a.providers]

MergeOptionsWithDefaults(a, o) ==
  [o EXCEPT !.upstreams = a.upstreams, !.requestHeaders = a.requestHeaders,
            !.responseHeaders = a.responseHeaders, !.server = a.server, !.metrics = a.metrics,
            !.providers = a.providers]

\* NoYAML: no --alpha-config.  Flags of the legacy configuration are errors
\* beside it: loadOptions does not know them.
NoYAML == <<>>
Loads(legacy, yaml, core) ==
  /\ \A i \in DOMAIN legacy.upstreams : legacy.upstreams[i].parses
  /\ core.malformed \cap {"config"} = {}
  /\ yaml # NoYAML => legacy = NewLegacyOptions /\ "alpha-config" \notin core.malformed
loadConfiguration(legacy, yaml, core) ==
  IF yaml = NoYAML
  THEN ToOptions(legacy, core)
  ELSE LET o == Options(core)
       IN EnsureDefaults(MergeOptionsWithDefaults(LoadYAML(yaml[1], o), o))

(***************************************************************************)
(* Validate                                                                  *)
(***************************************************************************)
validateCookie(core) ==
  (core.malformed \cap {"cookie-secret", "cookie-samesite", "cookie-name"})
  \cup Complain(core.expire # 0 /\ core.refresh >= core.expire, "cookie-refresh")

validateSessionCookieMinimal(o) ==
  IF "session-cookie-minimal" \notin o.core.flags THEN {}
  ELSE Complain(\E h \in ElementsOf(o.requestHeaders \o o.responseHeaders) :
                  h.claim \in {"access_token", "id_token"}, "session-cookie-minimal")
       \cup Complain(o.core.refresh # 0, "session-cookie-minimal")

\* redis: the health check's Set, Get and Del work.
validateRedisSessionStore(o, redis) ==
  Complain("session-store-redis" \in o.core.flags /\ ~redis, "redis")

validateSecretSource(s) == s \notin {"empty", "unreadable"}
validateHeaderValue(h) ==
  CASE h.secret # "none" /\ h.claim = "none" -> validateSecretSource(h.secret)
    [] h.secret = "none" /\ h.claim # "none" -> h.claim # "" /\ validateSecretSource(h.password)
    [] OTHER -> FALSE
HeaderName(h) == h.name
validateHeaders(hs, option) ==
  Complain(\/ Repeats(hs, HeaderName)
           \/ \E h \in ElementsOf(hs) : h.name = "" \/ ~validateHeaderValue(h), option)

providerRequiresClientSecret(p) ==
  ~(p.type = "entra-id" /\ "federated" \in p.keys) /\ p.type # "login.gov"
validateClientSecret(p) == p.secret \in {"value", "file"}
validateGoogleConfig(p) ==
  p.keys = {} \/ ("admin" \in p.keys /\ Cardinality(p.keys \cap {"json", "adc"}) = 1)
validateProvider(p, core) ==
  /\ p.id # <<>> /\ p.clientID # ""
  /\ providerRequiresClientSecret(p) => validateClientSecret(p)
  /\ p.type = "google" => validateGoogleConfig(p) /\ ("json" \in p.keys => "service-account" \notin core.malformed)
  /\ p.type = "entra-id" /\ "federated" \in p.keys => "federated-token" \notin core.malformed
ProviderID(p) == p.id
validateProviders(o) ==
  Complain(o.providers = <<>>, "providers")
  \cup Complain("skip-provider-button" \in o.core.flags /\ Len(o.providers) > 1, "skip-provider-button")
  \cup Complain(Repeats(o.providers, ProviderID)
                \/ \E p \in ElementsOf(o.providers) : ~validateProvider(p, o.core), "provider")
  \cup (o.core.malformed \cap {"oidc-enabled-signing-alg"})

validateStaticUpstream(u) ==
  IF Static(u)
  THEN u.uri = "" /\ u.insecure = "no" /\ u.flush = "1s" /\ u.passHost = "no" /\ u.webSockets = "no"
  ELSE u.code = 0
\* Mutant: any scheme will do.
validateAnyURI(u) == Static(u) \/ u.uri # ""

validateUpstreamURI(u) == Static(u) \/ u.uri \in Schemes

UpstreamID(u) == u.id
UpstreamPath(u) == u.path
validateUpstreams(us) ==
  Complain(Repeats(us, UpstreamID), "upstream id") \cup Complain(Repeats(us, UpstreamPath), "upstream path")
  \cup Complain(\E u \in ElementsOf(us) : \/ u.id = <<>> \/ u.path = NoPath
                                          \/ ~validateUpstreamURI(u) \/ ~validateStaticUpstream(u), "upstream")

\* Of the values that are only parsed, three are only looked at when they are used.
Parsed(core) ==
  core.malformed \cap
    ({"api-route", "logging-filename", "signature-key", "redirect-url",
      "skip-auth-route", "skip-auth-regex", "trusted-proxy-ip", "trusted-ip"}
     \cup Complain("ssl-insecure-skip-verify" \notin core.flags, "provider-ca-file")
     \cup Complain("reverse-proxy" \in core.flags, "real-client-ip-header")
     \cup Complain("skip-jwt-bearer-tokens" \in core.flags, "extra-jwt-issuers"))

Validate(o, redis) ==
  validateCookie(o.core) \cup validateSessionCookieMinimal(o) \cup validateRedisSessionStore(o, redis)
  \cup validateHeaders(o.requestHeaders, "injectRequestHeaders")
  \cup validateHeaders(o.responseHeaders, "injectResponseHeaders")
  \cup validateProviders(o) \cup validateUpstreams(o.upstreams) \cup Parsed(o.core)
  \cup Complain(o.core.flags \cap {"email-domain", "authenticated-emails-file", "htpasswd-file"} = {}, "email")

\* o.Providers[0] of an empty list.
Panics(o) == o.providers = <<>> /\ "ssl-insecure-skip-verify" \notin o.core.flags
=============================================================================

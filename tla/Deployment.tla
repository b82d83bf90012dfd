------------------------------- MODULE Deployment -------------------------------
(***************************************************************************)
(* One installation of the proxy: an operator launches the process with one  *)
(* configuration after another, has it tested or converted, and restarts it  *)
(* while a browser is under way.  The process loads and validates its        *)
(* options, registers the upstreams one by one and serves requests; the      *)
(* browser follows redirects between the proxy's endpoints, the identity     *)
(* provider and the upstreams.                                               *)
(*                                                                           *)
(* How a login is tied to a browser is LoginFlow's subject, who may pass     *)
(* without one RequestAuth's: here a browser is signed in or is not.         *)
(***************************************************************************)
EXTENDS Validation

CONSTANTS Legacies,    \* sets of legacy flags the operator has
          YAMLs,       \* alpha configurations, as written by hand
          Cores,       \* the options that are flags with both
          Visits,      \* requests a user makes
          Hosts,       \* the hosts the proxy is reached by
          MaxLaunches, MaxVisits


VARIABLES stage,       \* of the process, and what ended it
          mode,        \* --config-test, --convert-config-to-alpha or neither
          opts,        \* the Options that were loaded last
          source,      \* the file they were loaded from
          printed,     \* what was converted: <<the Options it was made from>>
          left,        \* upstreams NewProxy has still to register
          routes,      \* the router, in the order of registration
          launches,    \* how often the process was launched
          browser      \* see BrowserFields

process == <<stage, mode, opts, source, printed, left, routes, launches>>
vars == <<process, browser>>

\* A request: its URI, the rd parameter, X-Auth-Request-Redirect, the host it
\* was made to, the redirect in the state of a callback, whether it posts the
\* sign-in form and whether it asks for a WebSocket.
Request(path, query, host) ==
  [uri |-> [path |-> path, query |-> query], rd |-> Nowhere, header |-> Nowhere, host |-> host,
   state |-> Nowhere, form |-> FALSE, ws |-> FALSE]

\* The phases in which the user has something to look at.
Answered == {"idle", "page", "answer", "away"}
Phases == Answered \cup {"asking", "provider", "upstream", "moved"}

\* The browser: its phase, the request it has made last, where it was last sent
\* to, the route it is served by, whether no query was involved since the visit.
BrowserFields == {"phase", "req", "rd", "by", "signedIn", "plain", "visits"}

ASSUME DeploymentAssumption == MaxLaunches \in Nat /\ MaxVisits \in Nat

Init ==
  /\ stage = "down" /\ mode = "run" /\ source = "none"
  /\ opts \in {Options(core) : core \in Cores}
  /\ printed = <<>> /\ left = {} /\ routes = <<>> /\ launches = 0
  /\ \E r \in Visits :
       browser = [phase |-> "idle", req |-> r, rd |-> Nowhere, by |-> 0, signedIn |-> FALSE,
                  plain |-> TRUE, visits |-> 0]

Flag(f) == f \in opts.core.flags

(***************************************************************************)
(* The process                                                               *)
(***************************************************************************)
Ended == {"down", "load", "invalid", "panic", "environment", "upstream", "https"}

\* main up to loadConfiguration.
Launch(m, legacy, yaml, core, file) ==
  /\ stage \in Ended /\ launches < MaxLaunches
  /\ launches' = launches + 1 /\ mode' = m
  /\ IF Loads(legacy, yaml, core) /\ ~(m = "convert" /\ yaml # NoYAML)
     THEN stage' = "loaded" /\ opts' = loadConfiguration(legacy, yaml, core) /\ source' = file
     ELSE stage' = "load" /\ UNCHANGED <<opts, source>>
  /\ left' = {} /\ routes' = <<>>
  /\ UNCHANGED <<printed, browser>>

LaunchLegacy(m) == \E l \in Legacies, core \in Cores : Launch(m, l, NoYAML, core, "flags")
LaunchYAML(m) == \E y \in YAMLs, core \in Cores, l \in {NewLegacyOptions} \cup Legacies :
                   Launch(m, l, <<y>>, core, "file")
\* The operator moves to the configuration that was printed, and keeps the core.
LaunchPrinted ==
  /\ printed # <<>>
  /\ Launch("run", NewLegacyOptions, <<ExtractFrom(printed[1])>>, printed[1].core, "printed")

\* printConvertedConfig; the process ends.
Convert ==
  /\ stage = "loaded" /\ mode = "convert"
  /\ printed' = <<opts>> /\ stage' = "down"
  /\ UNCHANGED <<mode, opts, source, left, routes, launches, browser>>

\* Validate, and the end of a process that only tests.
Check ==
  /\ stage = "loaded" /\ mode \in {"run", "test"}
  /\ \E redis \in BOOLEAN :
       stage' = CASE Panics(opts) -> "panic"
                  [] Validate(opts, redis) # {} -> "invalid"
                  [] mode = "test" -> "down"
                  [] OTHER -> "starting"
  /\ left' = IF stage' = "starting" THEN ElementsOf(opts.upstreams) ELSE {}
  /\ UNCHANGED <<mode, opts, source, printed, routes, launches, browser>>

\* NewOAuthProxy up to the page writer: the session store, the htpasswd file,
\* the provider's discovery document, the templates.
EnvironmentFails ==
  /\ stage = "starting" /\ routes = <<>> /\ stage' = "environment" /\ left' = {}
  /\ UNCHANGED <<mode, opts, source, printed, routes, launches, browser>>

\* NewProxy, for one upstream.
Register ==
  /\ stage = "starting"
  /\ \E u \in sortByPathLongest(left) :
       IF Registers(u)
       THEN routes' = Append(routes, u) /\ left' = left \ {u} /\ UNCHANGED stage
       ELSE stage' = "upstream" /\ left' = {} /\ routes' = <<>>
  /\ UNCHANGED <<mode, opts, source, printed, launches, browser>>

\* The rest of NewOAuthProxy: buildPreAuthChain takes --force-https' port from
\* the secure address.
Start ==
  /\ stage = "starting" /\ left = {}
  /\ stage' = IF Flag("force-https") /\ opts.server.secure = "" THEN "https" ELSE "serving"
  /\ UNCHANGED <<mode, opts, source, printed, left, routes, launches, browser>>

\* The servers shut down after the request they are serving.
Stop ==
  /\ stage = "serving" /\ browser.phase # "upstream" /\ stage' = "down"
  /\ UNCHANGED <<mode, opts, source, printed, left, routes, launches, browser>>

(***************************************************************************)
(* The browser                                                               *)
(***************************************************************************)
Visit ==
  /\ browser.phase \in Answered /\ browser.visits < MaxVisits
  /\ \E r \in Visits :
       browser' = [browser EXCEPT !.phase = "asking", !.req = r, !.visits = @ + 1,
                                  !.plain = r.uri.query = "none" /\ r.rd.query = "none"
                                            /\ r.header.query = "none" /\ ~r.ws]
  /\ UNCHANGED process

\* http.Redirect, and the request the browser makes of it.
Follow(to, signedIn) == browser' = [browser EXCEPT !.phase = "moved", !.rd = to, !.signedIn = signedIn]
Go ==
  /\ browser.phase = "moved"
  /\ LET to == browser.rd
         host == IF to.kind = "absolute" THEN to.host ELSE browser.req.host
         home == to.kind = "path" \/ (to.host \in Hosts /\ to.port = "")
     IN browser' = [browser EXCEPT !.phase = IF home THEN "asking" ELSE "away", !.rd = Nowhere,
                                   !.req = Request(to.path, to.query, host)]
  /\ UNCHANGED process
Page == browser' = [browser EXCEPT !.phase = "answer", !.rd = Nowhere]

\* IsForwardedRequest: the reverse proxy reports another host than the one
\* it asks by.
Forwarded(req) == Flag("reverse-proxy") /\ req.host # <<"proxy">>
AppRedirect == GetRedirect(browser.req, Forwarded(browser.req), opts.core.whitelist)

Asks(path) == stage = "serving" /\ browser.phase = "asking" /\ browser.req.uri.path = path

\* SignInPage; the button on it leads to the redirect.
SignInPage ==
  browser' = [browser EXCEPT !.phase = "page", !.signedIn = FALSE,
                             !.rd = IF AppRedirect = Local(Endpoint("sign_in"), "none") THEN Local(Root, "none")
                                                                                   ELSE AppRedirect]
doOAuthStart == browser' = [browser EXCEPT !.phase = "provider", !.rd = AppRedirect]

SignIn ==
  /\ Asks(Endpoint("sign_in"))
  /\ \/ browser.req.form /\ Flag("htpasswd-file") /\ Follow(AppRedirect, TRUE)
     \/ IF Flag("skip-provider-button") THEN doOAuthStart ELSE SignInPage
  /\ UNCHANGED process

OAuthStart == Asks(Endpoint("start")) /\ doOAuthStart /\ UNCHANGED process

\* The user presses the button of the sign-in page.
Press ==
  /\ browser.phase = "page"
  /\ browser' = [browser EXCEPT !.phase = "asking",
                   !.req = [Request(Endpoint("start"), "none", browser.req.host) EXCEPT !.rd = browser.rd]]
  /\ UNCHANGED process

\* The provider sends the browser back with the state, or it tells the user
\* what is wrong.
ProviderAnswers ==
  /\ browser.phase = "provider"
  /\ \/ browser' = [browser EXCEPT !.phase = "asking",
                      !.req = [Request(Endpoint("callback"), "some", browser.req.host) EXCEPT !.state = browser.rd]]
     \/ Page
  /\ UNCHANGED process

\* Mutant: the state is trusted.
RevalidatedNever(rd) == IF rd = Nowhere THEN Local(Root, "none") ELSE rd

\* The options may have changed since the login was started.
Revalidated(rd) == IF IsValidRedirect(rd, opts.core.whitelist) THEN rd ELSE Local(Root, "none")

\* An error page if the login fails; LoginFlow says when.
OAuthCallback ==
  /\ Asks(Endpoint("callback"))
  /\ \/ browser.req.state # Nowhere /\ Follow(Revalidated(browser.req.state), TRUE)
     \/ Page
  /\ UNCHANGED process

SignOut == Asks(Endpoint("sign_out")) /\ Follow(AppRedirect, FALSE) /\ UNCHANGED process

\* The endpoints that answer by themselves.
OwnEndpoint ==
  /\ \E name \in {"auth", "userinfo"} : Asks(Endpoint(name))
  /\ Page /\ UNCHANGED process

Endpoints == {Endpoint(name) : name \in {"sign_in", "start", "callback", "sign_out", "auth", "userinfo"}}

\* Proxy, and the router of the upstreams.
LoginNeeded ==
  CASE Flag("force-json-errors") -> Page
    [] Flag("skip-provider-button") /\ ~Flag("force-json-errors") -> doOAuthStart
    [] OTHER -> SignInPage
ToUpstream(path) ==
  \E i \in DOMAIN routes : RoutedTo(routes, path, i) /\ browser' = [browser EXCEPT !.phase = "upstream", !.by = i]
AddSlash(uri) == LET to == SlashLocation(uri) IN Follow(Local(to.path, to.query), TRUE)

Proxy ==
  /\ stage = "serving" /\ browser.phase = "asking" /\ browser.req.uri.path \notin Endpoints
  /\ LET uri == browser.req.uri
     IN \/ ~browser.signedIn /\ LoginNeeded
        \/ browser.signedIn /\ ToUpstream(uri.path)
        \/ browser.signedIn /\ MissesSlash(routes, uri.path) /\ AddSlash(uri)
        \/ browser.signedIn /\ Unrouted(routes, uri.path) /\ ~MissesSlash(routes, uri.path) /\ Page
  /\ UNCHANGED process

\* The upstream that serves the request, and what it is asked for.
Serving == routes[browser.by]
UpstreamAnswers ==
  /\ browser.phase = "upstream"
  /\ \E a \in Answers(Serving, browser.req.ws) :
       browser' = [browser EXCEPT !.phase = "answer", !.rd = Nowhere, !.by = 0,
                                  !.req.uri = IF a = "upstream" THEN rewritePath(Serving, @) ELSE @]
  /\ UNCHANGED process

Serve == SignIn \/ OAuthStart \/ OAuthCallback \/ SignOut \/ OwnEndpoint \/ Proxy
Operate == \/ \E m \in {"run", "test", "convert"} : LaunchLegacy(m) \/ LaunchYAML(m)
           \/ LaunchPrinted \/ Stop
Work == Convert \/ Check \/ EnvironmentFails \/ Register \/ Start

Next == Operate \/ Work \/ Visit \/ Press \/ Go \/ Serve \/ ProviderAnswers \/ UpstreamAnswers

Spec == Init /\ [][Next]_vars

\* The process works, the browser follows redirects, the provider answers and
\* so does an upstream or its timeout does; a WebSocket may be waited for.
FairSpec ==
  /\ Spec /\ WF_vars(Work) /\ WF_vars(Serve) /\ WF_vars(Go) /\ WF_vars(ProviderAnswers)
  /\ WF_vars(UpstreamAnswers /\ ~Hangs(Serving, browser.req.ws))

(***************************************************************************)
(* Properties                                                                *)
(***************************************************************************)

\* A request is with an upstream only while the proxy runs, and its route exists.
TypeOK ==
  /\ stage \in Ended \cup {"loaded", "starting", "serving"} /\ mode \in {"run", "test", "convert"}
  /\ DOMAIN browser = BrowserFields /\ browser.phase \in Phases
  /\ routes \in Seq(ElementsOf(opts.upstreams)) /\ left \subseteq ElementsOf(opts.upstreams)
  /\ browser.phase = "upstream" => stage = "serving" /\ browser.by \in DOMAIN routes

\* v is the closer match for a path: upstreams.go's "closest match", with the
\* precedence of rewrites that sortByPathLongest's comment gives.
Closer(v, u, path) ==
  /\ Matches(v, path)
  /\ \/ Rewrites(v) /\ ~Rewrites(u)
     \/ Rewrites(v) = Rewrites(u) /\ Length(v.path) > Length(u.path)

\* Whatever order the upstreams were configured in, and however the sort
\* ordered equals, a request is served by an upstream that matches it and that
\* no other configured upstream is closer than (NewProxy, sortByPathLongest).
ClosestServes ==
  browser.phase = "upstream" =>
    /\ Matches(Serving, browser.req.uri.path)
    /\ \A v \in ElementsOf(opts.upstreams) : ~Closer(v, Serving, browser.req.uri.path)

\* What Validate accepts NewProxy can register: the process ends there for a
\* path that does not begin with a slash or a pattern that does not compile,
\* which Validate does not look at, and for nothing else.
ValidUpstreamsRegister ==
  stage = "upstream" => \E u \in ElementsOf(opts.upstreams) : ~u.valid

\* Options that are converted to the alpha configuration and loaded from it
\* again are the same, but for --prefer-email-to-user, which has no place in it,
\* and for a provider without a type, which takes the default.
MigrationKeepsOptions ==
  source = "printed" /\ printed[1].providers[1].type # ""
    => opts = [printed[1] EXCEPT !.preferEmail = FALSE]

\* A redirect leads to a path of the host that was asked, or to a host and a
\* port that the options of the process that sends it allow: the ones a login
\* was started with do not count when it ends (GetRedirect, OAuthCallback).
RedirectsStayHome ==
  [][browser.phase # "moved" /\ browser'.phase = "moved" =>
       \/ browser'.rd.kind = "path"
       \/ /\ browser'.rd.kind = "absolute"
          /\ \E d \in opts.core.whitelist :
               /\ browser'.rd.port = d.port \/ d.port = "*"
               /\ browser'.rd.host = d.host \/ (d.sub /\ EndsWith(browser'.rd.host, d.host))]_vars

\* Every visit ends with something to look at, unless the proxy is stopped for
\* ever: neither the endpoints of the proxy nor a missing slash send the
\* browser in circles ("they will create redirection loops", director.go).
PlainJourneysEnd ==
  \/ []<>(stage # "serving")
  \/ browser.phase \notin Answered /\ browser.plain ~> browser.phase \in Answered

\* The same of requests with a query: "redirect to the path + /", proxy.go.
EveryJourneyEnds ==
  \/ []<>(stage # "serving")
  \/ browser.phase \notin Answered /\ ~browser.req.ws ~> browser.phase \in Answered
=============================================================================

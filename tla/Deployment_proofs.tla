--------------------------- MODULE Deployment_proofs ---------------------------
(***************************************************************************)
(* Proofs about Deployment, for any configurations and any number of         *)
(* launches and visits.                                                      *)
(***************************************************************************)
EXTENDS Deployment, TLAPS

\* What is registered, what is left, and in which order: the strengthening that
\* ClosestServes needs.
Sorted ==
  /\ \A i, j \in DOMAIN routes : i <= j => ~SortedBefore(routes[j], routes[i])
  /\ \A i \in DOMAIN routes : \A v \in left : ~SortedBefore(v, routes[i])

Complete ==
  /\ stage = "loaded" => routes = <<>> /\ left = {}
  /\ stage \in {"starting", "serving"} => left \cup ElementsOf(routes) = ElementsOf(opts.upstreams)
  /\ stage = "serving" => left = {}

Routed == browser.phase = "upstream" => RoutedTo(routes, browser.req.uri.path, browser.by)

\* What Validate says of the upstreams holds as long as they are registered.
Validated ==
  /\ stage = "starting" => \A u \in ElementsOf(opts.upstreams) : validateUpstreamURI(u)
  /\ ValidUpstreamsRegister

Inv == TypeOK /\ Sorted /\ Complete /\ Routed /\ Validated

LEMMA InitInv == Init => Inv
<1> SUFFICES ASSUME Init PROVE Inv OBVIOUS
<1>1. routes = <<>> /\ left = {} /\ stage = "down" BY DEF Init
<1>2. DOMAIN browser = BrowserFields /\ browser.phase = "idle" BY DEF Init, BrowserFields
<1>3. TypeOK BY <1>1, <1>2 DEF TypeOK, Ended, Phases, Answered, Init
<1> QED BY <1>1, <1>2, <1>3 DEF Inv, Sorted, Complete, Routed, Validated, ValidUpstreamsRegister

\* A step of the browser alone keeps the invariant if it keeps the browser's
\* fields and does not claim a route.
LEMMA BrowserStep ==
  ASSUME Inv, UNCHANGED process, DOMAIN browser' = BrowserFields, browser'.phase \in Phases,
         browser'.phase = "upstream" =>
           /\ stage = "serving" /\ browser'.by \in DOMAIN routes
           /\ RoutedTo(routes, browser'.req.uri.path, browser'.by)
  PROVE  Inv'
<1> USE DEF process
<1>1. Sorted' /\ Complete' /\ Validated'
  BY DEF Inv, Sorted, Complete, Validated, ValidUpstreamsRegister
<1>2. Routed' BY DEF Routed, RoutedTo
<1>3. TypeOK' BY DEF Inv, TypeOK
<1> QED BY <1>1, <1>2, <1>3 DEF Inv

\* A step of the process that leaves the browser alone: nobody is being served
\* and the router is empty, or stays as it is.
LEMMA LaunchInv ==
  ASSUME Inv, NEW m \in {"run", "test", "convert"}, NEW legacy, NEW yaml, NEW core, NEW file,
         Launch(m, legacy, yaml, core, file)
  PROVE  Inv'
<1>1. routes' = <<>> /\ left' = {} /\ browser' = browser /\ mode' = m /\ stage' \in {"loaded", "load"}
  BY DEF Launch
<1>2. browser.phase # "upstream" BY DEF Launch, Inv, TypeOK, Ended
<1>3. TypeOK' BY <1>1, <1>2 DEF Inv, TypeOK, Ended
<1> QED BY <1>1, <1>2, <1>3
        DEF Inv, Sorted, Complete, Routed, Validated, ValidUpstreamsRegister

LEMMA ConvertInv == ASSUME Inv, Convert PROVE Inv'
<1>1. UNCHANGED <<mode, opts, left, routes, browser>> /\ stage = "loaded" /\ stage' = "down" BY DEF Convert
<1>2. browser.phase # "upstream" BY <1>1 DEF Inv, TypeOK
<1>3. TypeOK' BY <1>1, <1>2 DEF Inv, TypeOK, Ended
<1> QED BY <1>1, <1>2, <1>3
        DEF Inv, Sorted, Complete, Routed, Validated, ValidUpstreamsRegister

\* A configuration without complaints has upstreams with schemes that exist.
LEMMA ValidateUpstreamURIs ==
  ASSUME NEW o, NEW redis, Validate(o, redis) = {}
  PROVE  \A u \in ElementsOf(o.upstreams) : validateUpstreamURI(u)
<1>1. validateUpstreams(o.upstreams) = {} BY DEF Validate
<1> DEFINE bad == \E u \in ElementsOf(o.upstreams) :
                    \/ u.id = <<>> \/ u.path = NoPath
                    \/ ~validateUpstreamURI(u) \/ ~validateStaticUpstream(u)
<1>2. Complain(bad, "upstream") = {} BY <1>1 DEF validateUpstreams
<1>3. ~bad BY <1>2 DEF Complain
<1> QED BY <1>3

LEMMA CheckInv == ASSUME Inv, Check PROVE Inv'
<1>1. PICK redis \in BOOLEAN :
        stage' = CASE Panics(opts) -> "panic"
                   [] Validate(opts, redis) # {} -> "invalid"
                   [] mode = "test" -> "down"
                   [] OTHER -> "starting"
  BY DEF Check
<1>2. /\ UNCHANGED <<mode, opts, routes, browser>> /\ stage = "loaded"
      /\ left' = IF stage' = "starting" THEN ElementsOf(opts.upstreams) ELSE {}
  BY DEF Check
<1>3. routes = <<>> /\ browser.phase # "upstream" BY <1>2 DEF Inv, TypeOK, Complete
<1>4. stage' \in {"panic", "invalid", "down", "starting"} BY <1>1
<1>5. stage' = "starting" => Validate(opts, redis) = {} BY <1>1
<1>6. Validated' BY <1>2, <1>4, <1>5, ValidateUpstreamURIs DEF Validated, ValidUpstreamsRegister
<1>7. TypeOK' BY <1>2, <1>3, <1>4 DEF Inv, TypeOK, Ended
<1>8. Complete' /\ Sorted' /\ Routed'
  BY <1>2, <1>3, <1>4 DEF Complete, Sorted, Routed, ElementsOf
<1> QED BY <1>6, <1>7, <1>8 DEF Inv

LEMMA EnvironmentFailsInv == ASSUME Inv, EnvironmentFails PROVE Inv'
<1>1. /\ UNCHANGED <<mode, opts, routes, browser>> /\ routes = <<>> /\ left' = {}
      /\ stage = "starting" /\ stage' = "environment"
  BY DEF EnvironmentFails
<1>2. browser.phase # "upstream" BY <1>1 DEF Inv, TypeOK
<1>3. TypeOK' BY <1>1, <1>2 DEF Inv, TypeOK, Ended
<1> QED BY <1>1, <1>2, <1>3
        DEF Inv, Sorted, Complete, Routed, Validated, ValidUpstreamsRegister

\* The upstream that is registered next comes after every one that is, and no
\* upstream that is left has to come before it.
LEMMA RegisterInv == ASSUME Inv, Register PROVE Inv'
<1>1. UNCHANGED <<mode, opts, browser>> /\ stage = "starting" BY DEF Register
<1>2. browser.phase # "upstream" BY <1>1 DEF Inv, TypeOK
<1>3. PICK u \in sortByPathLongest(left) :
        IF Registers(u)
        THEN routes' = Append(routes, u) /\ left' = left \ {u} /\ UNCHANGED stage
        ELSE stage' = "upstream" /\ left' = {} /\ routes' = <<>>
  BY DEF Register
<1>4. u \in left /\ \A v \in left : ~SortedBefore(v, u) BY DEF sortByPathLongest
<1>5. u \in ElementsOf(opts.upstreams) BY <1>4 DEF Inv, TypeOK
<1>6. CASE Registers(u)
  <2>1. routes' = Append(routes, u) /\ left' = left \ {u} /\ stage' = "starting" BY <1>1, <1>3, <1>6
  <2>2. routes \in Seq(ElementsOf(opts.upstreams)) BY DEF Inv, TypeOK
  <2>3. /\ DOMAIN routes' = 1 .. Len(routes) + 1 /\ DOMAIN routes = 1 .. Len(routes) /\ Len(routes) \in Nat
        /\ \A i \in 1 .. Len(routes) : routes'[i] = routes[i]
        /\ routes'[Len(routes) + 1] = u
    BY <2>1, <2>2, <1>5
  <2>4. routes' \in Seq(ElementsOf(opts.upstreams)) BY <2>1, <2>2, <1>5
  <2>5. TypeOK' BY <1>1, <1>2, <2>1, <2>4 DEF Inv, TypeOK
  <2>6. \A i, j \in DOMAIN routes' : i <= j => ~SortedBefore(routes'[j], routes'[i])
    <3> SUFFICES ASSUME NEW i \in DOMAIN routes', NEW j \in DOMAIN routes', i <= j
                 PROVE ~SortedBefore(routes'[j], routes'[i])
      OBVIOUS
    <3>1. CASE j \in DOMAIN routes
      <4>1. i \in DOMAIN routes BY <2>3, <3>1
      <4> QED BY <4>1, <3>1, <2>3 DEF Inv, Sorted
    <3>2. CASE j = Len(routes) + 1 /\ i \in DOMAIN routes
      <4>1. ~SortedBefore(u, routes[i]) BY <3>2, <1>4 DEF Inv, Sorted
      <4> QED BY <4>1, <3>2, <2>3
    <3>3. CASE j = Len(routes) + 1 /\ i = Len(routes) + 1
      BY <3>3, <1>4, <2>3
    <3> QED BY <3>1, <3>2, <3>3, <2>3
  <2>7. \A i \in DOMAIN routes' : \A v \in left' : ~SortedBefore(v, routes'[i])
    <3> SUFFICES ASSUME NEW i \in DOMAIN routes', NEW v \in left' PROVE ~SortedBefore(v, routes'[i])
      OBVIOUS
    <3>1. v \in left BY <2>1
    <3>2. CASE i \in DOMAIN routes BY <3>1, <3>2, <2>3 DEF Inv, Sorted
    <3>3. CASE i = Len(routes) + 1 BY <3>1, <3>3, <2>3, <1>4
    <3> QED BY <3>2, <3>3, <2>3
  <2>8. Sorted' BY <2>6, <2>7 DEF Sorted
  <2>9. ElementsOf(routes') = ElementsOf(routes) \cup {u}
    <3>1. \A i \in DOMAIN routes' : i \in DOMAIN routes \/ i = Len(routes) + 1 BY <2>3
    <3>2. Len(routes) + 1 \in DOMAIN routes' /\ \A i \in DOMAIN routes : i \in DOMAIN routes' BY <2>3
    <3> QED BY <3>1, <3>2, <2>3 DEF ElementsOf
  <2>10. Complete' BY <1>1, <1>4, <2>1, <2>9 DEF Inv, Complete
  <2>11. Validated' BY <1>1, <2>1 DEF Inv, Validated, ValidUpstreamsRegister
  <2>12. Routed' BY <1>1, <1>2 DEF Routed
  <2> QED BY <2>5, <2>8, <2>10, <2>11, <2>12 DEF Inv
<1>7. CASE ~Registers(u)
  <2>1. stage' = "upstream" /\ left' = {} /\ routes' = <<>> BY <1>3, <1>7
  <2>2. validateUpstreamURI(u) BY <1>1, <1>5 DEF Inv, Validated
  <2>3. ~u.valid BY <2>2, <1>7 DEF Registers, validateUpstreamURI
  <2>4. Validated' BY <2>1, <2>3, <1>1, <1>5 DEF Validated, ValidUpstreamsRegister
  <2>5. TypeOK' BY <1>1, <1>2, <2>1 DEF Inv, TypeOK, Ended
  <2> QED BY <1>1, <1>2, <2>1, <2>4, <2>5 DEF Inv, Sorted, Complete, Routed
<1> QED BY <1>6, <1>7

LEMMA StartInv == ASSUME Inv, Start PROVE Inv'
<1>1. /\ UNCHANGED <<mode, opts, left, routes, browser>> /\ left = {} /\ stage = "starting"
      /\ stage' \in {"https", "serving"}
  BY DEF Start
<1>2. browser.phase # "upstream" BY <1>1 DEF Inv, TypeOK
<1>3. TypeOK' BY <1>1, <1>2 DEF Inv, TypeOK, Ended
<1> QED BY <1>1, <1>2, <1>3
        DEF Inv, Sorted, Complete, Routed, Validated, ValidUpstreamsRegister

LEMMA StopInv == ASSUME Inv, Stop PROVE Inv'
<1>1. /\ UNCHANGED <<mode, opts, left, routes, browser>> /\ stage' = "down" /\ browser.phase # "upstream"
  BY DEF Stop
<1>2. TypeOK' BY <1>1 DEF Inv, TypeOK, Ended
<1> QED BY <1>1, <1>2
        DEF Inv, Sorted, Complete, Routed, Validated, ValidUpstreamsRegister

\* The browser asks, is sent somewhere or has something to look at: no such
\* step claims a route.
LEMMA QuietInv ==
  ASSUME Inv, UNCHANGED process, DOMAIN browser' = DOMAIN browser,
         browser'.phase \in Phases \ {"upstream"}
  PROVE  Inv'
BY BrowserStep DEF Inv, TypeOK

LEMMA FollowQuiet ==
  ASSUME Inv, NEW to, NEW signedIn, Follow(to, signedIn)
  PROVE  DOMAIN browser' = DOMAIN browser /\ browser'.phase = "moved" /\ browser'.rd = to
BY DEF Follow, Inv, TypeOK, BrowserFields

LEMMA PageQuiet == ASSUME Inv, Page PROVE DOMAIN browser' = DOMAIN browser /\ browser'.phase = "answer"
BY DEF Page, Inv, TypeOK, BrowserFields

LEMMA SignInPageQuiet ==
  ASSUME Inv, SignInPage PROVE DOMAIN browser' = DOMAIN browser /\ browser'.phase = "page"
BY DEF SignInPage, Inv, TypeOK, BrowserFields

LEMMA OAuthStartQuiet ==
  ASSUME Inv, doOAuthStart PROVE DOMAIN browser' = DOMAIN browser /\ browser'.phase = "provider"
BY DEF doOAuthStart, Inv, TypeOK, BrowserFields

LEMMA LoginNeededQuiet ==
  ASSUME Inv, LoginNeeded
  PROVE  DOMAIN browser' = DOMAIN browser /\ browser'.phase \in {"answer", "provider", "page"}
<1>1. Page \/ doOAuthStart \/ SignInPage BY DEF LoginNeeded
<1> QED BY <1>1, PageQuiet, OAuthStartQuiet, SignInPageQuiet

LEMMA VisitQuiet ==
  ASSUME Inv, Visit PROVE DOMAIN browser' = DOMAIN browser /\ browser'.phase = "asking" /\ UNCHANGED process
BY DEF Visit, Inv, TypeOK, BrowserFields

LEMMA GoQuiet ==
  ASSUME Inv, Go
  PROVE  DOMAIN browser' = DOMAIN browser /\ browser'.phase \in {"asking", "away"} /\ UNCHANGED process
<1> DEFINE to == browser.rd
           host == IF to.kind = "absolute" THEN to.host ELSE browser.req.host
           home == to.kind = "path" \/ (to.host \in Hosts /\ to.port = "")
<1>1. browser' = [browser EXCEPT !.phase = IF home THEN "asking" ELSE "away", !.rd = Nowhere,
                                 !.req = Request(to.path, to.query, host)]
  BY DEF Go
<1> HIDE DEF to, host, home
<1> QED BY <1>1 DEF Go, Inv, TypeOK, BrowserFields

LEMMA PressQuiet ==
  ASSUME Inv, Press PROVE DOMAIN browser' = DOMAIN browser /\ browser'.phase = "asking" /\ UNCHANGED process
BY DEF Press, Inv, TypeOK, BrowserFields

LEMMA ProviderAnswersQuiet ==
  ASSUME Inv, ProviderAnswers
  PROVE  DOMAIN browser' = DOMAIN browser /\ browser'.phase \in {"asking", "answer"} /\ UNCHANGED process
BY PageQuiet DEF ProviderAnswers, Inv, TypeOK, BrowserFields

\* The proxy's own endpoints.
LEMMA EndpointQuiet ==
  ASSUME Inv, SignIn \/ OAuthStart \/ OAuthCallback \/ SignOut \/ OwnEndpoint
  PROVE  /\ DOMAIN browser' = DOMAIN browser /\ UNCHANGED process
         /\ browser'.phase \in {"moved", "page", "provider", "answer"}
<1>1. CASE SignIn
  <2>1. Follow(AppRedirect, TRUE) \/ doOAuthStart \/ SignInPage BY <1>1 DEF SignIn
  <2> QED BY <1>1, <2>1, FollowQuiet, OAuthStartQuiet, SignInPageQuiet DEF SignIn
<1>2. CASE OAuthStart BY <1>2, OAuthStartQuiet DEF OAuthStart
<1>3. CASE OAuthCallback
  <2>1. Follow(Revalidated(browser.req.state), TRUE) \/ Page BY <1>3 DEF OAuthCallback
  <2> QED BY <1>3, <2>1, FollowQuiet, PageQuiet DEF OAuthCallback
<1>4. CASE SignOut BY <1>4, FollowQuiet DEF SignOut
<1>5. CASE OwnEndpoint BY <1>5, PageQuiet DEF OwnEndpoint
<1> QED BY <1>1, <1>2, <1>3, <1>4, <1>5

LEMMA UpstreamAnswersQuiet ==
  ASSUME Inv, UpstreamAnswers
  PROVE  DOMAIN browser' = DOMAIN browser /\ browser'.phase = "answer" /\ UNCHANGED process
BY DEF UpstreamAnswers, Inv, TypeOK, BrowserFields

\* The one step that claims a route: the router's choice for the path.
LEMMA ProxyInv == ASSUME Inv, Proxy PROVE Inv'
<1> DEFINE uri == browser.req.uri
<1>1. stage = "serving" /\ UNCHANGED process BY DEF Proxy
<1>2. LoginNeeded \/ ToUpstream(uri.path) \/ AddSlash(uri) \/ Page BY DEF Proxy
<1>3. CASE LoginNeeded BY <1>1, <1>3, LoginNeededQuiet, QuietInv DEF Phases, Answered
<1>4. CASE ToUpstream(uri.path)
  <2>1. PICK i \in DOMAIN routes :
          RoutedTo(routes, uri.path, i) /\ browser' = [browser EXCEPT !.phase = "upstream", !.by = i]
    BY <1>4 DEF ToUpstream
  <2>2. DOMAIN browser = BrowserFields BY DEF Inv, TypeOK
  <2>3. /\ DOMAIN browser' = BrowserFields /\ browser'.phase = "upstream" /\ browser'.by = i
        /\ browser'.req = browser.req
    BY <2>1, <2>2 DEF BrowserFields
  <2>4. RoutedTo(routes, browser'.req.uri.path, browser'.by) BY <2>1, <2>3
  <2> QED BY <1>1, <2>3, <2>4, BrowserStep DEF Phases
<1>5. CASE AddSlash(uri) BY <1>1, <1>5, FollowQuiet, QuietInv DEF AddSlash, Phases
<1>6. CASE Page BY <1>1, <1>6, PageQuiet, QuietInv DEF Phases, Answered
<1> QED BY <1>2, <1>3, <1>4, <1>5, <1>6

LEMMA OperateInv == ASSUME Inv, Operate PROVE Inv'
<1>1. ASSUME NEW m \in {"run", "test", "convert"}, LaunchLegacy(m) PROVE Inv'
  BY <1>1, LaunchInv DEF LaunchLegacy
<1>2. ASSUME NEW m \in {"run", "test", "convert"}, LaunchYAML(m) PROVE Inv'
  BY <1>2, LaunchInv DEF LaunchYAML
<1>3. CASE LaunchPrinted BY <1>3, LaunchInv DEF LaunchPrinted
<1> QED BY <1>1, <1>2, <1>3, StopInv DEF Operate

\* The invariant is inductive.
LEMMA NextInv == ASSUME Inv, [Next]_vars PROVE Inv'
<1>1. CASE Operate BY <1>1, OperateInv
<1>2. CASE Work
  BY <1>2, ConvertInv, CheckInv, EnvironmentFailsInv, RegisterInv, StartInv DEF Work
<1>3. CASE Visit BY <1>3, VisitQuiet, QuietInv DEF Phases
<1>4. CASE Press BY <1>4, PressQuiet, QuietInv DEF Phases
<1>5. CASE Go BY <1>5, GoQuiet, QuietInv DEF Phases, Answered
<1>6. CASE Proxy BY <1>6, ProxyInv
<1>7. CASE SignIn \/ OAuthStart \/ OAuthCallback \/ SignOut \/ OwnEndpoint
  BY <1>7, EndpointQuiet, QuietInv DEF Phases, Answered
<1>8. CASE ProviderAnswers BY <1>8, ProviderAnswersQuiet, QuietInv DEF Phases, Answered
<1>9. CASE UpstreamAnswers BY <1>9, UpstreamAnswersQuiet, QuietInv DEF Phases, Answered
<1>10. CASE UNCHANGED vars
  <2>1. UNCHANGED process /\ browser' = browser BY <1>10 DEF vars
  <2> QED BY <2>1, BrowserStep DEF Inv, TypeOK, Routed
<1> QED BY <1>1, <1>2, <1>3, <1>4, <1>5, <1>6, <1>7, <1>8, <1>9, <1>10 DEF Next, Serve

\* The type invariant and what strengthens it hold in every state of the
\* process and of the browser.
THEOREM InvHolds == Spec => []Inv
BY InitInv, NextInv, PTL DEF Spec

\* A request that is with an upstream was routed there while the process
\* serves, by a route that exists (NewProxy, Proxy, Stop).
THEOREM TypeCorrect == Spec => []TypeOK
BY InvHolds, PTL DEF Inv

\* The route that serves a request is the first that matches it, the routes are
\* in the order of sortByPathLongest, and all upstreams are among them: so none
\* of any number of upstreams is closer.
LEMMA InvClosest == ASSUME Inv PROVE ClosestServes
<1> SUFFICES ASSUME browser.phase = "upstream"
             PROVE  /\ Matches(Serving, browser.req.uri.path)
                    /\ \A v \in ElementsOf(opts.upstreams) : ~Closer(v, Serving, browser.req.uri.path)
  BY DEF ClosestServes
<1> DEFINE path == browser.req.uri.path
           by == browser.by
<1>1. stage = "serving" /\ by \in DOMAIN routes /\ routes \in Seq(ElementsOf(opts.upstreams))
  BY DEF Inv, TypeOK
<1>2. RoutedTo(routes, path, by) BY DEF Inv, Routed
<1>3. Matches(routes[by], path) /\ \A j \in DOMAIN routes : Matches(routes[j], path) => by <= j
  BY <1>2 DEF RoutedTo
<1>4. ElementsOf(routes) = ElementsOf(opts.upstreams) BY <1>1 DEF Inv, Complete
<1>5. ASSUME NEW v \in ElementsOf(opts.upstreams), Closer(v, routes[by], path) PROVE FALSE
  <2>1. PICK j \in DOMAIN routes : routes[j] = v BY <1>4 DEF ElementsOf
  <2>2. by <= j BY <1>3, <1>5, <2>1 DEF Closer
  <2>3. ~SortedBefore(routes[j], routes[by]) BY <1>1, <2>2 DEF Inv, Sorted
  <2>4. SortedBefore(v, routes[by]) BY <1>5 DEF Closer, SortedBefore, Rewrites
  <2> QED BY <2>1, <2>3, <2>4
<1> QED BY <1>3, <1>5 DEF Serving

\* However many upstreams there are and in whatever order they are written, the
\* request is with one that matches and that no other is closer than.
THEOREM Closest == Spec => []ClosestServes
BY InvHolds, InvClosest, PTL

\* A configuration that Validate has accepted fails in NewProxy only for a path
\* or a pattern that Validate does not look at.
THEOREM ValidRegister == Spec => []ValidUpstreamsRegister
<1>1. Inv => ValidUpstreamsRegister BY DEF Inv, Validated
<1> QED BY <1>1, InvHolds, PTL

(***************************************************************************)
(* Redirects                                                                 *)
(***************************************************************************)

\* Where the options allow a browser to be sent.
Home(to) ==
  \/ to.kind = "path"
  \/ /\ to.kind = "absolute"
     /\ \E d \in opts.core.whitelist :
          /\ to.port = d.port \/ d.port = "*"
          /\ to.host = d.host \/ (d.sub /\ EndsWith(to.host, d.host))

LEMMA ValidIsHome == ASSUME NEW to, IsValidRedirect(to, opts.core.whitelist) PROVE Home(to)
<1>1. CASE to.kind = "path" BY <1>1 DEF Home
<1>2. CASE to.kind # "path"
  <2>1. to.kind = "absolute" /\ IsEndpointAllowed(to, opts.core.whitelist) BY <1>2 DEF IsValidRedirect
  <2> QED BY <2>1 DEF Home, IsEndpointAllowed, isHostnameAllowed
<1> QED BY <1>1, <1>2

LEMMA LocalIsHome == ASSUME NEW path, NEW query PROVE Home(Local(path, query))
<1>1. Local(path, query).kind = "path" BY DEF Local, Nowhere
<1> QED BY <1>1 DEF Home

LEMMA AppRedirectIsHome == Home(AppRedirect)
<1> DEFINE req == browser.req
           uriRedirect == IF hasProxyPrefix(req.uri.path) THEN Local(Root, "none")
                                                          ELSE Local(req.uri.path, req.uri.query)
           xForwarded == Absolute(req.host, "", uriRedirect.path, uriRedirect.query)
           Valid(to) == IsValidRedirect(to, opts.core.whitelist)
<1>1. AppRedirect = CASE Valid(req.rd) -> req.rd
                      [] ~Valid(req.rd) /\ Valid(req.header) -> req.header
                      [] OTHER -> IF Forwarded(req) /\ Valid(xForwarded) THEN xForwarded ELSE uriRedirect
  BY DEF AppRedirect, GetRedirect
<1>2. Home(uriRedirect) BY LocalIsHome
<1> HIDE DEF uriRedirect, xForwarded, req
<1>3. \/ Valid(AppRedirect) \/ AppRedirect = uriRedirect BY <1>1
<1> QED BY <1>2, <1>3, ValidIsHome

\* Only these steps send the browser somewhere, and only to an address that the
\* options of this moment allow.
LEMMA FollowsHome ==
  ASSUME Inv, [Next]_vars, browser.phase # "moved", browser'.phase = "moved"
  PROVE  Home(browser'.rd)
<1>1. ASSUME NEW to, NEW signedIn, Follow(to, signedIn), Home(to) PROVE Home(browser'.rd)
  BY <1>1, FollowQuiet
<1>2. CASE SignIn
  <2>1. Follow(AppRedirect, TRUE) \/ doOAuthStart \/ SignInPage BY <1>2 DEF SignIn
  <2> QED BY <1>1, <2>1, AppRedirectIsHome, OAuthStartQuiet, SignInPageQuiet
<1>3. CASE OAuthStart BY <1>3, OAuthStartQuiet DEF OAuthStart
<1>4. CASE OAuthCallback
  <2>1. Follow(Revalidated(browser.req.state), TRUE) \/ Page BY <1>4 DEF OAuthCallback
  <2>2. Home(Revalidated(browser.req.state)) BY ValidIsHome, LocalIsHome DEF Revalidated
  <2> QED BY <1>1, <2>1, <2>2, PageQuiet
<1>5. CASE SignOut BY <1>1, <1>5, AppRedirectIsHome DEF SignOut
<1>6. CASE OwnEndpoint BY <1>6, PageQuiet DEF OwnEndpoint
<1>7. CASE Proxy
  <2> DEFINE uri == browser.req.uri
  <2>1. LoginNeeded \/ ToUpstream(uri.path) \/ AddSlash(uri) \/ Page BY <1>7 DEF Proxy
  <2>2. CASE ToUpstream(uri.path)
    <3>1. PICK i \in DOMAIN routes : browser' = [browser EXCEPT !.phase = "upstream", !.by = i]
      BY <2>2 DEF ToUpstream
    <3> QED BY <3>1 DEF Inv, TypeOK, BrowserFields
  <2>3. CASE AddSlash(uri) BY <1>1, <2>3, LocalIsHome DEF AddSlash
  <2> QED BY <2>1, <2>2, <2>3, LoginNeededQuiet, PageQuiet
<1>8. CASE Operate \/ Work \/ UNCHANGED vars
  <2>1. browser' = browser
    BY <1>8 DEF Operate, Work, LaunchLegacy, LaunchYAML, LaunchPrinted, Launch, Stop, Convert, Check,
                EnvironmentFails, Register, Start, vars
  <2> QED BY <2>1
<1>9. CASE Visit \/ Press \/ Go \/ ProviderAnswers \/ UpstreamAnswers
  BY <1>9, VisitQuiet, PressQuiet, GoQuiet, ProviderAnswersQuiet, UpstreamAnswersQuiet
<1> QED BY <1>2, <1>3, <1>4, <1>5, <1>6, <1>7, <1>8, <1>9 DEF Next, Serve

\* Whatever the request brings along, whatever a login was started with and
\* whatever the whitelist was then, a browser is never sent to a host or a port
\* that the options of the running process do not allow.
THEOREM StayHome == Spec => RedirectsStayHome
<1> DEFINE Sends == browser.phase # "moved" /\ browser'.phase = "moved" =>
                      \/ browser'.rd.kind = "path"
                      \/ /\ browser'.rd.kind = "absolute"
                         /\ \E d \in opts.core.whitelist :
                              /\ browser'.rd.port = d.port \/ d.port = "*"
                              /\ browser'.rd.host = d.host \/ (d.sub /\ EndsWith(browser'.rd.host, d.host))
<1>1. Inv /\ [Next]_vars => Sends BY FollowsHome DEF Home
<1> QED BY <1>1, InvHolds, PTL DEF Spec, RedirectsStayHome

(***************************************************************************)
(* Migration: options that were converted and loaded again.                  *)
(***************************************************************************)
\* EnsureDefaults fills in nothing that it has filled in before.
LEMMA HeaderDefaultsOnce == ASSUME NEW h PROVE EnsureHeader(EnsureHeader(h)) = EnsureHeader(h)
<1> DEFINE e == EnsureHeader(h)
<1>1. e = [h EXCEPT !.preserve = Default(h.preserve, "no")] BY DEF EnsureHeader
<1>2. EnsureHeader(e) = [e EXCEPT !.preserve = Default(e.preserve, "no")] BY DEF EnsureHeader
<1>3. DOMAIN e = DOMAIN h /\ \A f \in DOMAIN h : e[f] = IF f = "preserve" THEN Default(h.preserve, "no") ELSE h[f]
  BY <1>1
<1>4. Default(Default(h.preserve, "no"), "no") = Default(h.preserve, "no") BY DEF Default
<1> HIDE DEF e
<1>5. CASE "preserve" \in DOMAIN h
  <2>1. e.preserve = Default(h.preserve, "no") BY <1>3, <1>5
  <2> QED BY <1>1, <1>2, <1>3, <1>4, <2>1 DEF e
<1>6. CASE "preserve" \notin DOMAIN h
  BY <1>1, <1>2, <1>3, <1>6 DEF e
<1> QED BY <1>5, <1>6

\* The fields of an upstream, and of what a flag is converted to.
UpstreamFields == {"id", "path", "valid", "uri", "target", "static", "code", "insecure", "passHost",
                   "webSockets", "flush", "timeout"}
\* convertUpstream gives every field of an upstream.
LEMMA ConvertedFields == ASSUME NEW l, NEW f PROVE DOMAIN convertUpstream(l, f) = UpstreamFields
<1>1. \A id, at, uri : DOMAIN Upstream(id, at, uri) = UpstreamFields BY DEF Upstream, UpstreamFields
<1> QED BY <1>1 DEF convertUpstream

\* An upstream that has its defaults keeps what it has.
LEMMA UpstreamDefaultsOnce ==
  ASSUME NEW u, DOMAIN u = UpstreamFields
  PROVE  EnsureUpstream(EnsureUpstream(u)) = EnsureUpstream(u)
<1> DEFINE e == EnsureUpstream(u)
<1>1. CASE Static(u)
  <2>1. e = [u EXCEPT !.uri = "", !.insecure = "no", !.passHost = "no", !.webSockets = "no",
                      !.flush = "1s", !.timeout = "30s"]
    BY <1>1 DEF EnsureUpstream
  <2>2. e.static = u.static BY <2>1 DEF UpstreamFields
  <2>3. EnsureUpstream(e) = [e EXCEPT !.uri = "", !.insecure = "no", !.passHost = "no", !.webSockets = "no",
                                      !.flush = "1s", !.timeout = "30s"]
    BY <1>1, <2>2 DEF EnsureUpstream, Static
  <2>4. \A f \in UpstreamFields : EnsureUpstream(e)[f] = e[f] /\ DOMAIN e = UpstreamFields
    BY <2>1, <2>3 DEF UpstreamFields
  <2> HIDE DEF e
  <2> QED BY <2>1, <2>3, <2>4 DEF e
<1>2. CASE ~Static(u)
  <2>1. e = [u EXCEPT !.static = "no",
                 !.insecure = Default(u.insecure, "no"), !.passHost = Default(u.passHost, "yes"),
                 !.webSockets = Default(u.webSockets, "yes"), !.flush = Default(u.flush, "1s"),
                 !.timeout = Default(u.timeout, "30s")]
    BY <1>2 DEF EnsureUpstream, UpstreamFields
  <2>2. /\ e.static = "no" /\ e.insecure = Default(u.insecure, "no") /\ e.passHost = Default(u.passHost, "yes")
        /\ e.webSockets = Default(u.webSockets, "yes") /\ e.flush = Default(u.flush, "1s")
        /\ e.timeout = Default(u.timeout, "30s") /\ DOMAIN e = UpstreamFields
    BY <2>1 DEF UpstreamFields
  <2> HIDE DEF e
  <2>3. EnsureUpstream(e) = [e EXCEPT !.static = "no",
                 !.insecure = Default(e.insecure, "no"), !.passHost = Default(e.passHost, "yes"),
                 !.webSockets = Default(e.webSockets, "yes"), !.flush = Default(e.flush, "1s"),
                 !.timeout = Default(e.timeout, "30s")]
    BY <2>2 DEF EnsureUpstream, Static, UpstreamFields
  <2>4. EnsureUpstream(e) = [e EXCEPT !.static = e.static,
                 !.insecure = e.insecure, !.passHost = e.passHost,
                 !.webSockets = e.webSockets, !.flush = e.flush, !.timeout = e.timeout]
    <3>1. /\ Default(e.insecure, "no") = e.insecure /\ Default(e.passHost, "yes") = e.passHost
          /\ Default(e.webSockets, "yes") = e.webSockets /\ Default(e.flush, "1s") = e.flush
          /\ Default(e.timeout, "30s") = e.timeout
      BY <2>2 DEF Default
    <3>2. e.static = "no" BY <2>2
    <3> QED BY <2>3, <3>1, <3>2, Zenon
  <2> QED BY <2>1, <2>2, <2>4 DEF e
<1> QED BY <1>1, <1>2

\* A provider is read back as it was written.
LEMMA ProviderKept ==
  ASSUME NEW l, l.provider # ""
  PROVE  EnsureProvider(DecodeProvider(EnsureProvider(convertProvider(l)), providerDefaults))
           = EnsureProvider(convertProvider(l))
<1> DEFINE c == convertProvider(l)
           p == EnsureProvider(c)
           Fields == {"id", "type", "clientID", "secret", "groups", "own", "emailClaim", "nonce", "challenge",
                      "keys", "params"}
<1>1. DOMAIN c = Fields /\ c.type = l.provider BY DEF convertProvider
<1> HIDE DEF c
<1>2. p = [c EXCEPT !.emailClaim = IF c.emailClaim = "" THEN "email" ELSE c.emailClaim,
                    !.nonce = Default(c.nonce, "skip")]
  BY <1>1 DEF EnsureProvider
<1>3. DOMAIN p = Fields /\ p.type # "" /\ p.emailClaim # "" /\ p.nonce # "unset"
  BY <1>1, <1>2 DEF Default
<1> HIDE DEF p
<1>4. ASSUME NEW f \in Fields
      PROVE  Kept(p[f], NoProvider[f], providerDefaults[f]) = p[f]
  <2>1. CASE f \in {"type", "emailClaim", "nonce"}
    <3>1. NoProvider.type = "" /\ NoProvider.emailClaim = "" /\ NoProvider.nonce = "unset"
      BY DEF NoProvider, providerDefaults
    <3> QED BY <1>3, <2>1, <3>1 DEF Kept
  <2>2. CASE f \notin {"type", "emailClaim", "nonce"}
    <3>1. NoProvider[f] = providerDefaults[f] BY <2>2 DEF NoProvider, providerDefaults
    <3> QED BY <3>1 DEF Kept
  <2> QED BY <2>1, <2>2
<1>5. DecodeProvider(p, providerDefaults) = p
  <2>1. p = [f \in Fields |-> p[f]] BY <1>2, <1>3 DEF p
  <2> QED BY <1>3, <1>4, <2>1 DEF DecodeProvider
<1>6. EnsureProvider(p) = [p EXCEPT !.emailClaim = p.emailClaim, !.nonce = p.nonce]
  BY <1>3 DEF EnsureProvider, Default
<1>7. EnsureProvider(p) = p
  BY <1>2, <1>3, <1>6
<1> QED BY <1>5, <1>7 DEF p, c

\* The fields of Options, and the defaults of each.
OptionFields == {"upstreams", "requestHeaders", "responseHeaders", "server", "metrics", "providers",
                 "preferEmail", "core"}

IsOptions(o) == o = [f \in OptionFields |-> o[f]]
NotPreferred(o) == o.preferEmail = FALSE

ConvertUpstreams(l) == [i \in DOMAIN l.upstreams |-> convertUpstream(l, l.upstreams[i])]
EnsureUpstreams(us) == [i \in DOMAIN us |-> EnsureUpstream(us[i])]
EnsureHeaders(hs) == [i \in DOMAIN hs |-> EnsureHeader(hs[i])]
EnsureProviders(ps) == [i \in DOMAIN ps |-> EnsureProvider(ps[i])]

\* EnsureDefaults, field by field.
LEMMA EnsureFields ==
  ASSUME NEW o, DOMAIN o = OptionFields
  PROVE  LET e == EnsureDefaults(o)
         IN /\ IsOptions(e)
            /\ e.upstreams = EnsureUpstreams(o.upstreams)
            /\ e.requestHeaders = EnsureHeaders(o.requestHeaders)
            /\ e.responseHeaders = EnsureHeaders(o.responseHeaders)
            /\ e.providers = EnsureProviders(o.providers)
            /\ e.server = o.server /\ e.metrics = o.metrics /\ e.preferEmail = o.preferEmail /\ e.core = o.core
<1> DEFINE e == EnsureDefaults(o)
<1>1. e = [o EXCEPT !.upstreams = EnsureUpstreams(o.upstreams), !.requestHeaders = EnsureHeaders(o.requestHeaders),
                    !.responseHeaders = EnsureHeaders(o.responseHeaders), !.providers = EnsureProviders(o.providers)]
  BY Zenon DEF EnsureDefaults, EnsureUpstreams, EnsureHeaders, EnsureProviders
<1> HIDE DEF e
<1>2. IsOptions(e) BY <1>1 DEF IsOptions
<1>3. /\ e.upstreams = EnsureUpstreams(o.upstreams)
      /\ e.requestHeaders = EnsureHeaders(o.requestHeaders)
      /\ e.responseHeaders = EnsureHeaders(o.responseHeaders)
      /\ e.providers = EnsureProviders(o.providers)
      /\ e.server = o.server /\ e.metrics = o.metrics /\ e.preferEmail = o.preferEmail /\ e.core = o.core
  BY <1>1 DEF OptionFields
<1> QED BY <1>2, <1>3 DEF e

\* The options that legacy flags are converted to.
ConvertedTo(p, l, core) ==
  /\ IsOptions(p) /\ p.core = core
  /\ p.upstreams = EnsureUpstreams(ConvertUpstreams(l))
  /\ p.requestHeaders = EnsureHeaders(getRequestHeaders(l))
  /\ p.responseHeaders = EnsureHeaders(getResponseHeaders(l))
  /\ p.providers = EnsureProviders(<<convertProvider(l)>>)

\* ToOptions gives these.
LEMMA Converted == ASSUME NEW l, NEW core, NEW p, p = ToOptions(l, core) PROVE ConvertedTo(p, l, core)
<1> DEFINE us == ConvertUpstreams(l)
           d == Options(core)
           o == [d EXCEPT
                   !.upstreams = us, !.requestHeaders = getRequestHeaders(l),
                   !.responseHeaders = getResponseHeaders(l),
                   !.server = convertServer(l), !.metrics = convertMetrics(l),
                   !.preferEmail = "prefer-email-to-user" \in l.flags, !.providers = <<convertProvider(l)>>]
<1>1. ToOptions(l, core) = EnsureDefaults(o) BY Zenon DEF ToOptions, ConvertUpstreams
<1>2. DOMAIN d = OptionFields /\ d.core = core BY DEF Options, OptionFields
<1> HIDE DEF us, d
<1>3. /\ DOMAIN o = OptionFields /\ o.upstreams = us /\ o.requestHeaders = getRequestHeaders(l)
      /\ o.responseHeaders = getResponseHeaders(l) /\ o.providers = <<convertProvider(l)>> /\ o.core = core
  BY <1>2 DEF OptionFields
<1> HIDE DEF o
<1> QED BY <1>1, <1>3, EnsureFields DEF us, ConvertedTo

\* What becomes of Options p, with one provider, when they are printed and loaded.
OneProvider(p, pr) == p.providers = <<pr>>
ReloadedFrom(q, p, pr, core) ==
  /\ IsOptions(q) /\ NotPreferred(q) /\ q.core = core
  /\ q.upstreams = EnsureUpstreams(p.upstreams)
  /\ q.requestHeaders = EnsureHeaders(p.requestHeaders)
  /\ q.responseHeaders = EnsureHeaders(p.responseHeaders)
  /\ q.providers = EnsureProviders(<<DecodeProvider(pr, providerDefaults)>>)
  /\ q.server = p.server /\ q.metrics = p.metrics

\* loadConfiguration gives these.
LEMMA Reloaded ==
  ASSUME NEW p, NEW pr, OneProvider(p, pr), NEW core,
         NEW q, q = loadConfiguration(NewLegacyOptions, <<ExtractFrom(p)>>, core)
  PROVE  ReloadedFrom(q, p, pr, core)
<1> DEFINE y == ExtractFrom(p)
           d == Options(core)
           a == LoadYAML(y, d)
           m == MergeOptionsWithDefaults(a, d)
           dp == DecodeProvider(pr, providerDefaults)
<1>1. loadConfiguration(NewLegacyOptions, <<y>>, core) = EnsureDefaults(m)
  <2>1. <<y>> # NoYAML /\ <<y>>[1] = y BY DEF NoYAML
  <2> HIDE DEF y
  <2> QED BY <2>1, Zenon DEF loadConfiguration
<1>2. DOMAIN d = OptionFields /\ d.core = core /\ d.providers = <<providerDefaults>>
  BY DEF Options, OptionFields
<1>3. NotPreferred(d) BY DEF Options, NotPreferred
<1>4. /\ DOMAIN y = {"upstreams", "requestHeaders", "responseHeaders", "server", "metrics", "providers"}
      /\ y.upstreams = p.upstreams /\ y.requestHeaders = p.requestHeaders /\ y.responseHeaders = p.responseHeaders
      /\ y.server = p.server /\ y.metrics = p.metrics /\ y.providers = <<pr>>
  BY DEF ExtractFrom, OneProvider
<1> HIDE DEF d, y
<1>5. a = [y EXCEPT !.providers = DecodeProviders(y.providers, d.providers)] BY <1>4 DEF LoadYAML
<1>6. DecodeProviders(y.providers, d.providers) = <<dp>> BY <1>2, <1>4 DEF DecodeProviders
<1> HIDE DEF dp, a
<1>7. /\ a.upstreams = p.upstreams /\ a.requestHeaders = p.requestHeaders /\ a.responseHeaders = p.responseHeaders
      /\ a.server = p.server /\ a.metrics = p.metrics /\ a.providers = <<dp>>
  BY <1>4, <1>5, <1>6
<1>8. m = [d EXCEPT !.upstreams = a.upstreams, !.requestHeaders = a.requestHeaders,
                    !.responseHeaders = a.responseHeaders, !.server = a.server, !.metrics = a.metrics,
                    !.providers = a.providers]
  BY Zenon DEF MergeOptionsWithDefaults
<1> HIDE DEF m
<1>9. /\ DOMAIN m = OptionFields /\ m.upstreams = p.upstreams /\ m.requestHeaders = p.requestHeaders
      /\ m.responseHeaders = p.responseHeaders /\ m.server = p.server /\ m.metrics = p.metrics
      /\ m.providers = <<dp>> /\ m.core = core /\ m.preferEmail = d.preferEmail
  BY <1>2, <1>7, <1>8 DEF OptionFields
<1>10. NotPreferred(EnsureDefaults(m)) BY <1>3, <1>9, EnsureFields, Zenon DEF NotPreferred
<1> QED BY <1>1, <1>9, <1>10, EnsureFields DEF y, dp, ReloadedFrom

\* There is one provider in options that were converted.
LEMMA EnsureOne == ASSUME NEW x PROVE EnsureProviders(<<x>>) = <<EnsureProvider(x)>>
BY DEF EnsureProviders

\* Headers that have their defaults keep what they have.
LEMMA HeadersOnce == ASSUME NEW hs PROVE EnsureHeaders(EnsureHeaders(hs)) = EnsureHeaders(hs)
BY HeaderDefaultsOnce DEF EnsureHeaders

\* Options that legacy flags are converted to, printed and loaded again.
LEMMA ReloadKeeps ==
  ASSUME NEW l, l.provider # "", NEW core, NEW p, p = ToOptions(l, core)
  PROVE  loadConfiguration(NewLegacyOptions, <<ExtractFrom(p)>>, p.core) = [p EXCEPT !.preferEmail = FALSE]
<1> DEFINE us == ConvertUpstreams(l)
           pr == EnsureProvider(convertProvider(l))
           r == [p EXCEPT !.preferEmail = FALSE]
<1>0. PICK q : q = loadConfiguration(NewLegacyOptions, <<ExtractFrom(p)>>, core)
  OBVIOUS
<1>1. /\ IsOptions(p) /\ p.core = core
      /\ p.upstreams = EnsureUpstreams(us)
      /\ p.requestHeaders = EnsureHeaders(getRequestHeaders(l))
      /\ p.responseHeaders = EnsureHeaders(getResponseHeaders(l))
      /\ p.providers = EnsureProviders(<<convertProvider(l)>>)
  <2>1. ConvertedTo(p, l, core) BY Converted
  <2> QED BY <2>1 DEF ConvertedTo
<1>2. EnsureUpstreams(EnsureUpstreams(us)) = EnsureUpstreams(us)
  BY ConvertedFields, UpstreamDefaultsOnce DEF EnsureUpstreams, ConvertUpstreams
<1>3. p.providers = <<pr>> BY <1>1, EnsureOne
<1>4. EnsureProvider(DecodeProvider(pr, providerDefaults)) = pr BY ProviderKept
<1> HIDE DEF us, pr
<1>5. EnsureProviders(<<DecodeProvider(pr, providerDefaults)>>) = <<pr>> BY <1>4, EnsureOne
<1>6. /\ IsOptions(q)
      /\ q.upstreams = EnsureUpstreams(p.upstreams)
      /\ q.requestHeaders = EnsureHeaders(p.requestHeaders)
      /\ q.responseHeaders = EnsureHeaders(p.responseHeaders)
      /\ q.providers = EnsureProviders(<<DecodeProvider(pr, providerDefaults)>>)
      /\ q.server = p.server /\ q.metrics = p.metrics /\ NotPreferred(q) /\ q.core = core
  <2>1. OneProvider(p, pr) BY <1>3 DEF OneProvider
  <2>2. ReloadedFrom(q, p, pr, core) BY <1>0, <2>1, Reloaded
  <2> QED BY <2>2 DEF ReloadedFrom
<1>7. /\ q.upstreams = p.upstreams /\ q.requestHeaders = p.requestHeaders /\ q.responseHeaders = p.responseHeaders
      /\ q.providers = p.providers
  BY <1>1, <1>2, <1>3, <1>5, <1>6, HeadersOnce
<1>8. IsOptions(r) /\ NotPreferred(r)
      /\ \A f \in OptionFields \ {"preferEmail"} : r[f] = p[f]
  <2>1. IsOptions(r) /\ NotPreferred(r) BY <1>1 DEF OptionFields, IsOptions, NotPreferred
  <2>2. \A f \in OptionFields \ {"preferEmail"} : r[f] = p[f] BY <1>1 DEF OptionFields, IsOptions
  <2> QED BY <2>1, <2>2
<1> HIDE DEF r
<1>9. \A f \in OptionFields : q[f] = r[f]
  <2>1. ASSUME NEW f \in OptionFields, f # "preferEmail"
        PROVE  q[f] = p[f]
    BY <1>1, <1>6, <1>7, <2>1 DEF OptionFields
  <2>2. q["preferEmail"] = r["preferEmail"] BY <1>6, <1>8, Zenon DEF NotPreferred
  <2> QED BY <1>8, <2>1, <2>2
<1>10. q = r BY <1>6, <1>8, <1>9 DEF IsOptions
<1> QED BY <1>0, <1>1, <1>10 DEF r

\* What is converted comes from flags, and what was printed too; the options of
\* a process that was launched with what was printed are those.
MigrationInv ==
  /\ stage = "loaded" /\ mode = "convert" =>
       source # "printed" /\ \E l \in Legacies, core \in Cores : opts = ToOptions(l, core)
  /\ printed # <<>> => \E l \in Legacies, core \in Cores : printed = <<ToOptions(l, core)>>
  /\ MigrationKeepsOptions

\* The provider of converted options has the type that the flags give.
LEMMA TypeOfConverted ==
  ASSUME NEW l, NEW core, NEW p, p = ToOptions(l, core)
  PROVE  p.providers[1].type = l.provider
<1> DEFINE c == convertProvider(l)
<1>1. p.providers = <<EnsureProvider(c)>>
  <2>1. ConvertedTo(p, l, core) BY Converted
  <2> HIDE DEF c
  <2> QED BY <2>1, EnsureOne DEF ConvertedTo, c
<1>2. EnsureProvider(c) = [c EXCEPT !.emailClaim = IF c.emailClaim = "" THEN "email" ELSE c.emailClaim,
                                    !.nonce = Default(c.nonce, "skip")]
  BY Zenon DEF EnsureProvider
<1>3. c.type = l.provider /\ "type" \in DOMAIN c BY DEF convertProvider
<1> HIDE DEF c
<1>4. EnsureProvider(c).type = l.provider BY <1>2, <1>3
<1> QED BY <1>1, <1>4

\* A launch with flags or with a file of the operator's.
LEMMA LaunchMigration ==
  ASSUME MigrationInv, NEW m, NEW legacy, NEW yaml, NEW core, NEW file, file # "printed",
         Launch(m, legacy, yaml, core, file),
         yaml = NoYAML => legacy \in Legacies /\ core \in Cores
  PROVE  MigrationInv'
<1>1. CASE Loads(legacy, yaml, core) /\ ~(m = "convert" /\ yaml # NoYAML)
  <2>1. stage' = "loaded" /\ opts' = loadConfiguration(legacy, yaml, core) /\ source' = file
        /\ mode' = m /\ printed' = printed
    BY <1>1 DEF Launch
  <2>2. CASE m = "convert"
    <3>1. opts' = ToOptions(legacy, core) BY <1>1, <2>1, <2>2 DEF loadConfiguration
    <3>2. legacy \in Legacies /\ core \in Cores BY <1>1, <2>2
    <3> QED BY <2>1, <3>1, <3>2 DEF MigrationInv, MigrationKeepsOptions
  <2>3. CASE m # "convert"
    BY <2>1, <2>3 DEF MigrationInv, MigrationKeepsOptions
  <2> QED BY <2>2, <2>3
<1>2. CASE ~(Loads(legacy, yaml, core) /\ ~(m = "convert" /\ yaml # NoYAML))
  <2>1. stage' = "load" /\ opts' = opts /\ source' = source /\ printed' = printed
    BY <1>2 DEF Launch
  <2> QED BY <2>1 DEF MigrationInv, MigrationKeepsOptions
<1> QED BY <1>1, <1>2

\* A launch with what was printed.
LEMMA LaunchPrintedMigration == ASSUME MigrationInv, LaunchPrinted PROVE MigrationInv'
<1>1. PICK l \in Legacies, core \in Cores : printed = <<ToOptions(l, core)>>
  BY DEF LaunchPrinted, MigrationInv
<1> DEFINE y == <<ExtractFrom(printed[1])>>
<1>2. Launch("run", NewLegacyOptions, y, printed[1].core, "printed") BY DEF LaunchPrinted
<1> HIDE DEF y
<1>3. printed' = printed /\ mode' = "run" BY <1>2 DEF Launch
<1>4. CASE Loads(NewLegacyOptions, y, printed[1].core)
  <2>1. opts' = loadConfiguration(NewLegacyOptions, y, printed[1].core) BY <1>2, <1>4 DEF Launch
  <2>2. PICK p : p = printed[1] OBVIOUS
  <2>3. p = ToOptions(l, core) BY <1>1, <2>2
  <2>4. p.providers[1].type = l.provider BY <2>3, TypeOfConverted
  <2>5. l.provider # "" => opts' = [p EXCEPT !.preferEmail = FALSE]
    BY <2>1, <2>2, <2>3, ReloadKeeps DEF y
  <2>6. MigrationKeepsOptions' BY <1>3, <2>2, <2>4, <2>5 DEF MigrationKeepsOptions
  <2> QED BY <1>3, <2>6 DEF MigrationInv
<1>5. CASE ~Loads(NewLegacyOptions, y, printed[1].core)
  <2>1. stage' = "load" /\ opts' = opts /\ source' = source BY <1>2, <1>5 DEF Launch
  <2> QED BY <1>3, <2>1 DEF MigrationInv, MigrationKeepsOptions
<1> QED BY <1>4, <1>5

\* What is printed comes from flags.
LEMMA ConvertMigration == ASSUME MigrationInv, Convert PROVE MigrationInv'
<1>1. PICK l \in Legacies, core \in Cores : opts = ToOptions(l, core)
  BY DEF Convert, MigrationInv
<1>2. printed' = <<opts>> /\ stage' = "down" /\ source' = source /\ source # "printed"
  BY DEF Convert, MigrationInv
<1> QED BY <1>1, <1>2 DEF MigrationInv, MigrationKeepsOptions

\* No other step loads options or prints them.
LEMMA OtherMigration ==
  ASSUME MigrationInv, UNCHANGED <<mode, opts, source, printed>>, stage' = "loaded" => stage = "loaded"
  PROVE  MigrationInv'
BY DEF MigrationInv, MigrationKeepsOptions

\* Every step keeps MigrationInv.
LEMMA NextMigration == ASSUME MigrationInv, [Next]_vars PROVE MigrationInv'
<1>1. CASE UNCHANGED vars BY <1>1, OtherMigration DEF vars, process
<1>2. ASSUME NEW m \in {"run", "test", "convert"}, LaunchLegacy(m) PROVE MigrationInv'
  BY <1>2, LaunchMigration DEF LaunchLegacy
<1>3. ASSUME NEW m \in {"run", "test", "convert"}, LaunchYAML(m) PROVE MigrationInv'
  <2>1. PICK y \in YAMLs, core \in Cores, l \in {NewLegacyOptions} \cup Legacies :
          Launch(m, l, <<y>>, core, "file")
    BY <1>3 DEF LaunchYAML
  <2>2. <<y>> # NoYAML BY DEF NoYAML
  <2> QED BY <2>1, <2>2, LaunchMigration
<1>4. CASE LaunchPrinted BY <1>4, LaunchPrintedMigration
<1>5. CASE Convert BY <1>5, ConvertMigration
<1>6. CASE Check \/ EnvironmentFails \/ Register \/ Start \/ Stop
  <2>1. UNCHANGED <<mode, opts, source, printed>>
    BY <1>6 DEF Check, EnvironmentFails, Register, Start, Stop
  <2>2. stage' = "loaded" => stage = "loaded"
    BY <1>6 DEF Check, EnvironmentFails, Register, Start, Stop
  <2> QED BY <2>1, <2>2, OtherMigration
<1>7. CASE Visit \/ Press \/ Go \/ Serve \/ ProviderAnswers \/ UpstreamAnswers
  <2>1. UNCHANGED process
    BY <1>7 DEF Visit, Press, Go, Serve, ProviderAnswers, UpstreamAnswers, SignIn, OAuthStart, OAuthCallback,
                SignOut, OwnEndpoint, Proxy
  <2> QED BY <2>1, OtherMigration DEF process
<1> QED BY <1>1, <1>2, <1>3, <1>4, <1>5, <1>6, <1>7 DEF Next, Operate, Work

\* Converting the legacy configuration to the alpha configuration loses nothing
\* but --prefer-email-to-user, for any flags.
THEOREM Migration == Spec => []MigrationKeepsOptions
<1>1. Init => MigrationInv BY DEF Init, MigrationInv, MigrationKeepsOptions
<1>2. MigrationInv /\ [Next]_vars => MigrationInv' BY NextMigration
<1>3. MigrationInv => MigrationKeepsOptions BY DEF MigrationInv
<1> QED BY <1>1, <1>2, <1>3, PTL DEF Spec
=================================================================================

# A verification project for oauth2-proxy

oauth2-proxy sits between browsers and an application and lets a request pass
when it carries a session of an identity provider. This project models its core
in TLA+, checks the models with TLC on small instances and proves the most
important invariants with TLAPS for every instance.

All paths below are relative to the repository (`src/` in `PROJECT.json`).

## 1. Inventory

| component | state | operations | what is hard |
|---|---|---|---|
| Stored session loader, `pkg/middleware/stored_session.go` | the request's `SessionState` | load, obtain lock, reload, refresh, validate, release, clear | requests of one browser run concurrently and refresh the same session; the lock has a lease; every error clears the session |
| Ticket manager, `pkg/sessions/persistence` | ticket in a signed cookie | `Save`, `Load`, `Clear` | a ticket is reused while its cookie is valid, otherwise a new one is made |
| Redis store and lock, `pkg/sessions/redis` | key of the session, key of the lock | GET, SET, DEL, SET NX, compare-and-delete | failed commands, lost replies, expiry |
| Cookie store, `pkg/sessions/cookie` | the session, split over cookies of at most 4000 bytes | `Save`, `Load`, `Clear` | pieces of an earlier session are left in the browser; cuts at the limit |
| Login flow, `oauthproxy.go`, `pkg/cookies/csrf.go` | CSRF cookies, OAuth state, nonce, code verifier | `OAuthStart`, `OAuthCallback` | logins in several tabs, replayed callbacks, cookies by name |
| Handlers, `oauthproxy.go` | none of their own | `Proxy`, `AuthOnly`, `SignIn`, `SignOut`, `UserInfo` | they clear and save sessions outside the refresh lock |
| Session chain, `pkg/middleware/{jwt,basic}_session.go` | the request scope | try each loader in turn | precedence |
| Authorization: allow lists, API routes, `pkg/ip` | configuration | pure checks | order of checks, what is trusted |
| Application redirect, `pkg/app/redirect` | configuration | choose and validate where a browser is sent | loops through the proxy's own endpoints; a whitelist that is another when the login ends |
| User files, `validator.go`, `pkg/authentication/basic/htpasswd.go`, `pkg/watcher` | map of users, file watch | reload on change | a change between reading and watching, two loads at once |
| Servers, `pkg/proxyhttp` | listeners | start all, stop all | one fails while the others start |
| Upstreams, `pkg/upstream` | router | sort, register, route, rewrite, answer | two upstreams match one request; slashes; start-up that fails half-way |
| Headers, `pkg/header`, `pkg/middleware/headers.go` | configuration | strip and inject | order |
| Providers, `providers/` | the session being made | redeem, e-mail address, enrich, refresh, validate, authorize | several remote calls per login, each may fail and the user's groups change between them |
| Options and validation, `pkg/apis/options`, `pkg/validation`, `main.go` | configuration | load legacy flags or alpha file, convert, default, validate | two ways to say one thing that have to agree |
| Pages and logging | none | render, print | - |

How they interact: `OAuthStart` sets a CSRF cookie and sends the browser to the
provider; the provider sends it back to `OAuthCallback`, which redeems the code
and saves a session through the session store; every later request goes through
the session chain, whose stored session loader loads, refreshes and validates
that session before a handler sees it; `SignOut`, the sign-in page, a failed
authorization and every error of the loader clear it. The session store and
the provider are the shared state of all these requests, and nothing but the
refresh lock orders them.

What makes the parts correct is listed as hazards in `PROJECT.json`, each with
the line where it bites and the properties that would catch it.

## 2. Plan

Written, in this order, the most important behaviour first:

1. `StoredSession` with the abstract `SessionLease`: concurrent requests on one
   server-side session, and the lock between them;
2. `LoginFlow`: logins in parallel and the CSRF cookies;
3. `CookieStore`: client-side sessions that are split over several cookies;
4. `UserFile`: files of users that are watched and reloaded;
5. `ServerGroup`: starting and stopping the servers;
6. `RequestAuth`: one request on its way through the chain of session loaders
   (JWT, basic, stored), allow lists, API routes and authorization, with what each
   handler answers and what the upstream gets to see.

7. `Provider`: the seventeen types of provider, request by request;
8. `Upstreams`, `Redirects`, `ProxyOptions`, `Validation`, four modules of
   operators that each extend the one before, and `Deployment`, the state machine
   over them: one process that is configured, checked, started and restarted
   while a browser is on its way through its endpoints.

Every invariant and every action property of the passing runs is also a theorem
(section 5). To come: weaker hypotheses for the theorems about refresh tokens.

Runs that once showed a disagreement with a comment have made room for the runs of
new modules; section 6 still describes what they showed. One run per question is
the rule.

## 3. Modules and code

### StoredSession, SessionLease

One action per Redis command or provider call of one request, so that steps of
other requests come between any two of them. A request goes through `pc`: `load`
(`getValidatedSession` up to the decision to refresh), `obtain` (the retry loop
on `Lock.Obtain`, which ends in `Obtain`, `ObtainTimedOut` or `ObtainFails`),
`reload`, `redeem` and `redeemed` (the provider has answered; the answer has arrived),
`save`, `validate`, `release`, `clear` (what `loadSession` does with an error) and
the handler. The store maps tickets to encoded sessions with an expiry, the lock
maps tickets to an owner and an expiry, `idp` is the refresh token each grant
accepts. A session is reduced to its grant, its refresh token, `CreatedAt`,
`ExpiresOn` and `Refreshed`; `EncodeSessionState` drops the last of these, as the
code's encoding does. Faults are commands that fail, commands that succeed but
whose reply is lost, and clients that disconnect, which cancels the context.
`Age` truncates the clock, not `CreatedAt`, to seconds, as the code does.

`SessionLease` is the abstract promise: a lease is given to one holder at a time
and runs out. `StoredSession` implements it with the request's `until` as the
lease (`ImplementsLease`).

### LoginFlow

A flow is one call of `OAuthStart` with its random values; a callback is one
request for `OAuthCallback`. The jar maps cookie names to the flow whose values
the cookie holds and the time of signing. `RedeemCode` precedes `CheckAndSave`
because the code redeems before it compares the state. Every request carries the
cookies of the moment it was sent, and responses arrive in any order.
`StateSubstring` gives the part of the state that goes into a cookie's name; two
flows may share it, which is also what happens to all flows without
`CSRFPerRequest`.

### CookieStore

Names are a length of the cookie name and a number, values are ranges of bytes
of a session. `splitCookie` gives the pieces by their closed form (`Before` sums
the room of earlier pieces), `Joins` is what `joinCookies` and the check of the
signature accept: all bytes of one session in order, and not a single piece under
its numbered name, which the signature does not cover. `Login` is the callback,
which does not look at earlier cookies, or the sign-in form, behind a loader that
has cleared a session that does not load. Expiry of the cookie is left out here.

### UserFile

The path names an inode; fsnotify watches inodes. The two users of the watcher
differ in their constructor (load then watch, or watch then load), in what a file
must look like, and in what a missing file does. Loading is three steps: open,
read and parse, store. `missed` records the edits that the code is known not to
see: those made while the process starts, and renames.

### ServerGroup

The goroutines of the three nested errgroups: per listener one in `srv.Serve` and
one that calls `srv.Shutdown`; `lret`, `sret` and `gret` are the levels that have
returned, `lerr`, `serr` and `gerr` their first errors, and a context is done when
its own group has an error or the one around it is done.

### RequestAuth

`stage` is how far the request has come: the pre-authentication chain, the router,
the three loaders, a handler. Each is one action, so that the lists of e-mails and
of users can be reloaded in between; `SignOut` is two, because it asks for the
session twice. `scope` is `RequestScope.Session`, `jar` the session that the
browser's cookie stands for (`StoredSession` and `CookieStore` have the rest),
`reply` the answer and the session it was given as, `outgoing` the injected header
in each of its spellings. The options are a set of flags that is chosen at the
start. A request is a record of what the code looks at: its own and its forwarded
URI, peer and claimed address, credentials by what the loaders can make of them,
constraints in the query. `arrived` and `seen` are history: what the browser held,
and who was in the password file, since the request arrived.

The properties state who may be served without the code's own predicates:
`Presented` are the sessions a request brings proof of, `Exempt` the ways to need
none, `Admissible` and `MeetsQuery` the checks, each spelt out anew.

### Provider

One user, one session, any of the configured providers (`p`, chosen at the start).
`op` is what is going on (a login or a refresh), `call` the request to the provider
that is next, `ss` the session under construction, `saved` the one in the store,
`resp` the token response, `seen` what a listing has collected so far, `rt` the
refresh token the provider accepts, `dir` what the provider knows of the user. One
action per request that a method makes (`OIDCToken`, `GraphPage`,
`GitHubTeams`, `BitbucketRepositories`, ...); the code between two requests belongs
to the action of the first. A request may fail (`MaxFaults`), the directory may
change between any two (`MaxChanges`), a token or a profile may lack claims
(`ClaimSets`), a rotated refresh token may or may not come with the answer.
`ValidateSession` and `Authorize` end every operation, as `OAuthCallback` and the
stored session loader do. `told`, `mailSaid` and `facts` are history: what the
provider has said, for the properties. `mailSaid` is what the answer that the e-mail
was taken from said of its verification, whether the handler looks at that or not.
The subject that ID tokens name is part of the directory and may change like the
rest: `redeemRefreshToken` takes over whatever subject the new token has. With Entra
ID's federated credentials a refused refresh token is no error (`FederatedError`):
`fetchToken` does not look at the status, and an error document is a response
without tokens.

Abstracted: tokens are numbers, names of groups that differ in case are one, pages
of a listing are at most two, signatures are taken as checked. GitHub's and
Bitbucket's restrictions (organisation, team, repository, listed users) are flags.

### Upstreams, Redirects, ProxyOptions, Validation, Deployment

The first four have no state. `Upstreams` has `sortByPathLongest` as a relation
(which of the remaining upstreams may be registered next: the sort is not stable),
the router's matching of exact, prefix and rewriting paths, the redirect to a path
with a slash, `rewritePath`, and what each kind of upstream may answer. A path is
its segments and whether it ends in a slash. `Redirects` has the order of the
getters of `pkg/app/redirect`, the validator and the whitelist; hosts are sequences
of labels. `ProxyOptions` has the legacy flags and their conversion, `Validation`
the loading of the alpha configuration, its merge, the defaults and the complaints
of `Validate`, one named complaint per check.

`Deployment` keeps the process (`stage`, `mode`, `opts`, `left`, `routes`) and one
browser (its phase, its request, the redirect it carries, whether it is signed in).
The operator launches the process with legacy flags, an alpha file or a file that
the process itself has printed (`--convert-config-to-alpha`), has it tested or
stops it; the process checks, registers one upstream after the other, and serves.
`SignIn`, `OAuthStart`, `OAuthCallback`, `SignOut`, `OwnEndpoint` and `Proxy` are the
handlers of `oauthproxy.go`, here by where they send the browser. A restart in the
middle of a login brings a callback to a process with another whitelist.

## 4. Runs

| run | instance | shows |
|---|---|---|
| SessionSafety | 2 million states: 2 requests of all kinds, 2 logins, 3 tickets, expiry after 3 ticks, leases of 1 tick, 1 fault, a revoked grant | the Redis key makes an exclusive lease that only its owner ends; refinement of `SessionLease`; a session deleted while nobody refreshes it is not written back |
| SessionTokens | 3.1 million states: 3 requests, proxied or logging in, 7 ticks of half a second, rotation of tokens or not at each use, refresh within the lease | the current refresh token is kept, no refresh is refused by mistake, no save goes back, over several refreshes of one login |
| SessionLiveness | 2 requests, 1 fault, weak fairness | every request is answered, every lock becomes free |
| Logins | 2 browsers, 3 flows, 2 of them with one cookie name, limit 1, 2 callbacks | sessions come from a browser's own login, cookies are lost only to newer logins |
| Cookies | 4 requests, 3 sessions of 1 to 5 cookies, cookies of 10 bytes, one name that is cut | split and join are inverse, limits are kept, `Clear` is complete |
| UserFiles | both files, 3 edits of 4 kinds, 3 texts | the map follows the file, has users, does not go back |
| Requests | 211 thousand states: about 220 requests of all kinds, six configurations, two lists of e-mails and of users | only entitled requests are served, as whom they prove to be; headers, refusals, invalid tokens |
| Servers | 3 servers (one without listeners), 3 listeners, 2 connections each | drained and with the right error, always |
| Providers | 6 million states: 17 types in 44 configurations, 2 groups and a role, 2 subjects, 2 grants, 1 fault, 2 changes of the directory | groups and e-mails of a session are what the provider said of the user; logins are as restricted as configured; the types that look at verification refuse unverified e-mails; a refresh rechecks groups, saves the user of the ID token it saves, and the current refresh token |
| GlobalGroups (violation) | Keycloak with `--allowed-group` alone | the option limits nothing |
| Deployment | 133 thousand states: 5 sets of legacy flags, alpha files with upstreams of every kind, 3 cores, 2 launches, 2 visits | the closest upstream serves, what validates registers, conversion keeps the options, redirects keep to the whitelist, journeys end |
| SlashRedirect (violation) | 1 launch, 1 visit with a query | the redirect that is to add a slash loops |

Bounds. Two requests are enough for a request and the one that overtakes it;
`SessionTokens` has three, so that one releases while
one obtains and one reloads. Requests arrive
there until one login has been refreshed twice (at the second and at the fourth tick),
by requests that have waited for each other with copies of different ages; the
provider chooses at each use whether to rotate, because one that always does refuses
the token of a stale copy and so hides a lock that fails. The lease properties are proved for any number. Clocks run long enough for the last request
to give up on the lock or let it expire (`BoundsAssumption`). One fault is enough
because faults are independent of each other in the code: nothing counts them. A
lease of one tick is shorter than the work under it, one of two ticks with `Prompt`
is longer. Three flows and a limit of one are the least with which a cookie is
pushed out. The requests
of `Requests` vary the parts a stage looks at together and leave the others blank:
no handler reads more of them. Three edits are a write in place (truncate and fill) and another
edit. In `Providers` one fault meets every request of every method, since methods
do not count failures either, two grants are a login and a refresh, and two changes
take a group away and give it back. In `Deployment` two launches are a restart, and
two visits a journey before and one after it; the visits bring each source of a
redirect (parameter, header, path) with each kind of target. Every bound is a
constant in the guards, named `Max...`.

Fairness. Request goroutines are not starved by Go's scheduler and remote calls
end (with an answer or an error), so every step of a request is weakly fair; so is
the clock. In `UserFile` the goroutines and the file system's deletion of unlinked
inodes are fair, edits are not. In `ServerGroup` the goroutines are, and open
connections are assumed to end once the server is shutting down: `Shutdown` gets a
context without a deadline, so without this assumption the code does not stop. In
`Deployment` the process works and its handlers answer, the browser follows the
redirects it is given, the provider answers or its user gives up and sees a page,
and an upstream answers or its timeout (30 s by default) does; WebSockets have no
timeout and are exempt, as is a proxy that the operator stops again and again.
`SlashRedirect` is a loop under this fairness.

Deadlock is checked where the model says when it has ended (`Finished`, `Ended`);
in the other modules the browser or the editor of a file may stop at any time.

## 5. Proofs

All hold for every number of requests, browsers, listeners, sessions or edits.

- `StoredSession_proofs`. `TypeCorrect`: the types are inductive by themselves.
  `LeasesAreBacked`, `LeasesExclude`, `LocksKeptByOwner`, `LockImplementsLease`:
  exclusion is not inductive, because a request whose lease has run out still
  believes that it holds the lock. `LeaseInv` adds that while a lease runs the key
  in Redis has that owner and that expiry, and that whoever may set a key has a
  ticket. `DeletedSessionsStayDeleted`, `WritersHold`: `GoneInv` says that a grant
  deleted for good is neither in the store nor held by a request that may still
  save, and that grants not given out are not among them. Assumptions:
  `ConstantsAssumption`.

  `RefreshesAreMonotone` has the hypothesis `Prompt` (a refresh ends before its
  lease): without it two requests refresh at once, and the slower may save last.
  `MonoInv` adds to `LeaseInv` and `GoneInv` that whoever is between obtaining and
  releasing holds a lease that runs (`PromptHeld`), that nobody has a ticket that was
  not made (`TicketsIssued`), and that sessions are ordered: the copy of the request that holds the lease
  is not behind the store (`NotBehind`), and a login's session is nowhere yet
  (`LoginsFresh`). Failures, lost replies and expiry are allowed. `CurrentTokensKept`
  and `InvalidGrantsAreRevoked` have the hypotheses `MaxFaults = 0` and `CookieExpire =
  0` as well, and need them: a save that fails after the provider has rotated the token
  loses the new one, and an expired cookie makes `Save` take a new ticket and leave the
  old token under the old one. `TokenInv` adds that a grant is stored under one ticket
  (`OneHome`) and written by one request at a time, that a request under the lock has the
  token that the provider takes, unless the grant is revoked (`TokensHeld`), and
  `CurrentTokenKept` itself, also of what has expired. `StepForms` sorts the steps by
  what they do to sessions, and each part of the invariants is shown for each form.
- `LoginFlow_proofs`. `SessionsFromOwnFlows`: `OwnInv` says that every CSRF cookie,
  in a jar or in a request on its way, holds the values of a flow of that browser,
  and that a callback that is to answer with a session has a cookie of its own
  state. `TypeCorrect` follows from the same invariant.
  `FinishedFlowsLeaveNoCookie`, `ParallelLoginsKeepTheirCookies`: `JarInv` follows a
  cookie from the response that sets it to the one that clears it: under a name is a
  cookie that a flow of that browser and that name has made (`CookiesMade`), a callback
  is made of a code that was issued and clears the cookie it has loaded before it saves a
  session (`CallsClear`), and the limit takes nothing for a login that has not been
  handled (`ExtraOfStarted`). A flow never goes back
  (`StepForward`). `PushedOutByNewerLogins`: the set of cookies that the limit leaves
  has as many members as the limit says (`ExtraLeavesLimit`), each was signed no
  earlier than what it takes, and flows stay started, so that `NoEarlier` only grows.
  Assumption: `FlowAssumption`, with finitely many flows, because the limit counts.
- `CookieStore_proofs`. `ClearIsComplete`: between the handler and the browser the
  headers delete exactly what `Clear` matched in the request (`ClearInv`), and
  names that are not cut all match. `CookiesAlwaysFit`, `LoadsWhatWasSaved`: for the
  jar `CookieInv` says that what is under a name is what some `Save` made for that name,
  that a response sets all cookies of one session or none, and that the cookies of the
  session that arrived last are all there. The rest is arithmetic of
  `splitCookie`. The sum `Before` is a recursive function: that its equation has a
  solution is shown by a closed form (a name ends in one, two or three digits,
  `BeforeEquation`), and what holds of every piece by the least counterexample
  (`LeastNumber`, from the library's well-foundedness of `<`, which takes a set where its
  induction theorems take an operator). Pieces have room for a byte, so there are enough
  (`NumberOfPieces`); a session that is split has two at least, so that `joinCookies`
  takes it for one (`SplitInTwo`). Assumption: `StoreAssumption`.
- `UserFile_proofs`. `HtpasswdKeepsUsers`: after the constructor has loaded there
  are users (`LoadedInv`). `HtpasswdNeverRollsBack`: the path names the newest
  version, a load under way has opened nothing older than the map, and there is
  only one load at a time because the constructor watches last (`OrderInv`).
  `TypeCorrect` needs to know that a load that is reading has opened the file
  (`OpenToRead`).
- `ServerGroup_proofs`. `GroupDrains`, `GroupReportsErrors`: `GroupInv` says what
  each level knows of the one below when it returns, and that an error has been
  handed on by then; `TypeCorrect` is its first part.
- `Provider_proofs`. `Reports`, `UnverifiedRefused`: `Inv` goes through the course of
  an operation (`Operation` says which requests a type makes, and when), and holds
  what is on its way to the session: the token response and the names listed so
  far (`Listed`) are ones that were reported, and the e-mail in the session is the
  one last spoken of (`MailTold`). `Restricted`: `Course` says, request by request,
  which of GitHub's and of Bitbucket's tests the login has passed by then, so that
  whoever reaches the end has been admitted by answers of this login. `TypeCorrect`
  is inductive together with `Inv`: an error document is refreshed into a session
  only inside an operation. `GroupsRechecked`, `IdentityWhole`, `TokenSaved`: action
  properties, from `Stages`, which says for each request that a refresh may be
  waiting for what the session it works on has kept and got so far, and that the
  sessions of OIDC types other than GitLab have the subject of their ID token as
  their user from the login on, whichever subject each response names;
  `Due` is what is shown of each session saved. For every set of configurations,
  groups and claims;
  assumptions `ProviderAssumption` (the types of the constants, and that only
  GitHub has the options for an organisation and for users) and
  `NoSessionAssumption`.
- `Deployment_proofs`. `Closest`, `ValidRegister`, `StayHome`, from `Inv`: the routes
  are in the order the sort allows (`Sorted`), what is not registered is still to be
  (`Complete`), what a request was routed to matches and comes first (`Routed`), and
  what is being registered has been validated (`Validated`). Closest match is proved
  for every list of upstreams and every request. `Migration`: what is printed was
  converted from flags (`MigrationInv`), and for those loading is the inverse of
  printing (`ReloadKeeps`), because every default that is filled in a second time was
  filled in the first (`HeaderDefaultsOnce`, `UpstreamDefaultsOnce`), and because no field
  of a converted provider is empty where the default is not (`ProviderKept`). The one
  exception that the proof found, `--provider=""`, is a premise of
  `MigrationKeepsOptions`: a type that is empty is not printed, and becomes Google's.
  Assumption: the types of the constants.
- `RequestAuth_proofs`. `OnlyEntitledServed` is the theorem that matters most: it
  is an action property, proved from `RequestInv`, which says stage by stage where
  the session in the scope can have come from (`Origin`) and that nothing has
  touched the cookie before the stored loader reads it (`Course`). `TokenDecides`,
  `HeadersAreTheSessions`, `InvalidTokensStop` and `RefusalsLogOut` are parts of
  the same invariant. Assumptions: `RequestAuthAssumption`, the types of the
  constants.

Only model-checked: the liveness properties (`EveryRequestAnswered`, `LockFreed`,
`EventuallyLoaded`, `StopsEventually`, `PlainJourneysEnd`), because fairness and
`ENABLED` are out of the prover's reach. The type invariants (`TypeOK`) are proved
and not repeated in the runs; `CookieStore` has none of its own: the type of its
jar is part of `CookiesFit`.

## 6. What the checks found

The code disagrees with its texts in two places that have a run each.

- `NewKeycloakProvider` and `NewGitLabProvider` replace the groups of
  `--allowed-group` by those of their own option, also when that is empty;
  `docs/docs/configuration/providers/keycloak.md` offers either (`GlobalGroups`).
- The redirect to "the path + /" (`pkg/upstream/proxy.go`) appends the slash to the
  URL, behind the query, and so loops for a request with a query (`SlashRedirect`).

Others can be seen in the models and have no run. The lock of a refresh is a lease of two
seconds, and a slower refresh goes on without it, although the comment says it is
"carried out under lock": `LeaseExclusion` speaks of leases that still run, and
`SessionTokens` assumes `Prompt`. A request that does not get the lock in time clears the
session, although errors such as timeouts "should not invalidate the session"
(`ObtainTimedOut` goes on to `clear`). A watched file that is renamed is not watched any more,
although the watcher acts "every time a file on disk is updated" (`missed` has it).
The limit on CSRF cookies
(`--cookie-csrf-per-request-limit`, `docs/docs/configuration/overview.md`) is applied
before the new cookie is added, so that a browser keeps one more than the limit
(`ExtraCsrfCookies`).

Behaviour that no text of the repository denies, and that the properties leave
room for: `Save` of the cookie store leaves the cookies of an earlier session of
another number of pieces in the browser, so that the old session stays in use or
the new one does not load; `Clear` of the cookie store passes over names that are
cut; an edit of the htpasswd file between loading and watching is not seen; the
constructor of the emails file may store an older text than the watcher; a session of the sign-in form has
no e-mail and outlives the removal of its user from the htpasswd file; without the
login fallback the JWT loader answers basic credentials with 403 before the basic
loader sees them, also on routes that need no session; an exempt request is passed
on with the headers of a session that the e-mail list no longer admits; `SignOut`
with `{id_token}` in the redirect panics on an exempt request without a session; a refresh
of Azure or of Entra ID with federated credentials saves an empty refresh token when the
answer has none, and with the latter an error document is saved as a refresh without
tokens; a refresh takes over the subject of the new ID token without a comparison with
the old one, as the tests of `oidc.go` and `cidaas.go` expect; Keycloak, Cidaas, Bitbucket,
DigitalOcean and Azure (access token and Graph) do not look at what an answer says of
the verification of an e-mail, so that `UnverifiedMailRefused` is stated for the types
that do (`Verifying`); a login saved under a ticket whose session is being refreshed
may be overwritten by that refresh; `Validate` does not look at the form of an upstream's path, so that a
bad one ends the process at its registration; `--prefer-email-to-user` is lost when legacy
flags are converted to an alpha file; an alpha file that leaves a field of a provider out
keeps the value the flags' defaults have.

## 7. Not modelled

Page templates and logging: neither keeps state that another component reads.
Cryptography: signatures and encryption are what they are meant to be. The set-up of
listeners, TLS and Redis clients: sequential, and its failures are one
(`EnvironmentFails`). `GetLoginURL`, which puts a string together; `backendLogout`, whose
result nothing looks at; the error page of a form that does not parse. Copying of headers
and bodies between client and upstream, which the standard library does. What validation
of options guarantees enters the other modules as assumptions on constants
(`RefreshPeriod < CookieExpire`, lengths of names). In `RequestAuth`
the address of a client is what the parser of the header returns, and one injected
header stands for all.

---------------------------- MODULE StoredSession ----------------------------
(***************************************************************************)
(* Server-side sessions of oauth2-proxy: the stored session loader          *)
(* (pkg/middleware/stored_session.go), the ticket manager                   *)
(* (pkg/sessions/persistence), the Redis store and lock                     *)
(* (pkg/sessions/redis) and the handlers of oauthproxy.go that save and     *)
(* clear sessions, as seen by concurrent requests of one browser.           *)
(*                                                                          *)
(* Every Redis command and every call to the identity provider is one step, *)
(* so that steps of different requests interleave between any two of them.  *)
(* Time is counted in ticks, Second of which make one second.               *)
(***************************************************************************)
EXTENDS Integers, FiniteSets

CONSTANTS
  Requests,         \* the HTTP requests of the behaviour, each handled once
  NoRequest,        \* owner of a lock key that Redis does not hold
  RefreshPeriod,    \* opts.Cookie.Refresh; 0 disables refreshing
  CookieExpire,     \* opts.Cookie.Expire; 0 means the cookie never expires
  Second,           \* ticks per second (Age truncates the clock to seconds)
  LockDuration,     \* sessionRefreshLockDuration
  ObtainTimeout,    \* sessionRefreshObtainTimeout
  TokenLife,        \* lifetime of an access token; 0 when ExpiresOn is the zero time
  RefreshSupported, \* the provider overrides RefreshSession
  HasValidateURL,   \* the provider has an endpoint to validate access tokens at
  Handlers,         \* the kinds of request that arrive
  Revocable,        \* the grants that the provider's administrator may end
  Rotating,         \* whether the provider replaces a refresh token when it is used:
                    \* its choices each time
  Prompt,           \* timing assumption: a refresh ends within LockDuration
  MaxTime,          \* bound on the clock
  MaxArrive,        \* bound on the time at which a request arrives
  MaxFaults,        \* bound on failed Redis commands, lost replies, disconnects
  MaxGrants,        \* bound on logins
  MaxTickets        \* bound on tickets

ASSUME ConstantsAssumption ==
  /\ NoRequest \notin Requests
  /\ {RefreshPeriod, CookieExpire, TokenLife, MaxTime, MaxArrive, MaxFaults} \subseteq Nat
  /\ {Second, LockDuration, ObtainTimeout, MaxGrants, MaxTickets} \subseteq Nat \ {0}
  /\ Handlers \subseteq {"proxy", "auth", "signOut", "callback"}
  /\ Revocable \subseteq 1..MaxGrants
  /\ {RefreshSupported, HasValidateURL, Prompt} \subseteq BOOLEAN
  /\ Rotating \subseteq BOOLEAN /\ Rotating # {}
  \* validateCookie: cookie_refresh must be less than cookie_expire
  /\ CookieExpire # 0 => RefreshPeriod < CookieExpire

\* Within the bound on the clock the last request can give up on the lock, or
\* obtain it and let it expire.
ASSUME BoundsAssumption == MaxArrive + ObtainTimeout + LockDuration <= MaxTime

VARIABLES
  now,       \* the clock
  faults,    \* failures so far
  jar,       \* the browser's session cookie
  store,     \* Redis: ticket id -> saved session
  lock,      \* Redis: ticket id ++ ".lock" -> owner and expiry
  idp,       \* provider: grant -> the refresh token it accepts, 0 when revoked or none
  grants,    \* logins so far
  issued,    \* tickets so far
  pc,        \* where each request is
  kind,      \* which handler the request goes to
  cookie,    \* the cookie the request carries
  live,      \* FALSE once the client has disconnected (req.Context() is done)
  sess,      \* the request's SessionState
  err,       \* the error that getValidatedSession is going to return
  deadline,  \* when the attempt to obtain the lock times out
  until,     \* when the request's lock expires in Redis
  ans,       \* the provider's answer to RefreshSession
  resp,      \* the Set-Cookie header of the response
  dead       \* history: grants deleted while no request was refreshing them

reqVars == <<pc, kind, cookie, live, sess, err, deadline, until, ans, resp>>
vars == <<now, faults, jar, store, lock, idp, grants, issued, dead, reqVars>>

(***************************************************************************)
(* Values                                                                  *)
(***************************************************************************)
Tickets == 1..MaxTickets
Grants  == 1..MaxGrants

\* A SessionState: who logged in (grant), which refresh token it holds,
\* CreatedAt, ExpiresOn (0: zero time) and the unserialised Refreshed flag.
SessionState ==
  [grant: 0..MaxGrants, rt: Nat, created: Nat, expires: Nat, refreshed: BOOLEAN]
NoSession == [grant |-> 0, rt |-> 0, created |-> 0, expires |-> 0, refreshed |-> FALSE]

\* A stored entry is the encoded session and the Redis expiry (0: none).
Entry   == [sess: SessionState, exp: Nat]
NoEntry == [sess |-> NoSession, exp |-> 0]

\* A session cookie is the signed ticket with the time it was signed for.
Cookie   == [tkt: 0..MaxTickets, ts: Nat]
NoCookie == [tkt |-> 0, ts |-> 0]

LockKey == [owner: Requests \cup {NoRequest}, until: Nat]
NoLock  == [owner |-> NoRequest, until |-> 0]

Answers == [res: {"none", "ok", "notImplemented", "notRefreshed", "fatal", "failed"}, rt: Nat]
NoAnswer == [res |-> "none", rt |-> 0]

Response == [op: {"none", "set", "clear"}, ck: Cookie]
NoSetCookie == [op |-> "none", ck |-> NoCookie]
ClearCookie == [op |-> "clear", ck |-> NoCookie]

Kinds == {"proxy", "auth", "signOut", "callback"}

Stages == {"idle", "load", "obtain", "reload", "redeem", "redeemed", "save",
           "clearFatal", "validate", "release", "clear", "serve", "denied",
           "clearPage", "login", "respond", "done"}

Errors == {"none", "load", "timeout", "lock", "fatal", "expired", "invalid"}

\* The part of refreshSessionIfNeeded between ObtainLock and ReleaseLock.
UnderLock == {"reload", "redeem", "redeemed", "save", "clearFatal", "validate", "release"}

\* The part in which a request holds a session it is about to write back.
Refreshing == {"redeem", "redeemed", "save"}

TypeOK ==
  /\ now \in Nat
  /\ faults \in Nat
  /\ jar \in Cookie
  /\ store \in [Tickets -> Entry]
  /\ lock \in [Tickets -> LockKey]
  /\ idp \in [Grants -> Nat]
  /\ grants \in 0..MaxGrants
  /\ issued \in 0..MaxTickets
  /\ pc \in [Requests -> Stages]
  /\ kind \in [Requests -> Kinds]
  /\ cookie \in [Requests -> Cookie]
  /\ live \in [Requests -> BOOLEAN]
  /\ sess \in [Requests -> SessionState]
  /\ err \in [Requests -> Errors]
  /\ deadline \in [Requests -> Nat]
  /\ until \in [Requests -> Nat]
  /\ ans \in [Requests -> Answers]
  /\ resp \in [Requests -> Response]
  /\ dead \subseteq Grants

-----------------------------------------------------------------------------
(***************************************************************************)
(* Pure parts of the code                                                  *)
(***************************************************************************)

\* encryption.Validate on a cookie whose signature is right: the time stamp
\* must lie after now - expiration.  (It is a CreatedAt, hence never in the
\* future, so the five minutes of allowed clock skew play no part here.)
Validate(c) == c.tkt # 0 /\ (CookieExpire = 0 \/ c.ts > now - CookieExpire)

\* SessionState.Age
Age(s) == now - (now % Second) - s.created

needsRefresh(s) == RefreshPeriod > 0 /\ Age(s) > RefreshPeriod

\* SessionState.IsExpired
IsExpired(s) == s.expires # 0 /\ s.expires < now

\* EncodeSessionState followed by DecodeSessionState: Refreshed is not
\* serialised.
EncodeSessionState(s) == [s EXCEPT !.refreshed = FALSE]

\* What a GET of the ticket's key returns.
Get(t) == IF store[t].exp = 0 \/ now < store[t].exp THEN store[t].sess ELSE NoSession

\* SET NX succeeds when the lock key does not exist or has expired.
LockFree(t) == lock[t].owner = NoRequest \/ now >= lock[t].until

\* ExpiresOn of a token issued now.
TokenExpiry == IF TokenLife = 0 THEN 0 ELSE now + TokenLife

(***************************************************************************)
(* Outcomes of a command sent with the request's context: it succeeds, it   *)
(* fails without having been executed, or it is executed and its reply is   *)
(* lost.  Once the client has gone the context is done and it always fails. *)
(***************************************************************************)
Outcomes(r) ==
  IF ~live[r] THEN {"fail"}
  ELSE {"ok"} \cup IF faults < MaxFaults THEN {"fail", "lost"} ELSE {}

ReadOutcomes(r) == Outcomes(r) \ {"lost"}

Count(r, o) == faults' = IF live[r] /\ o # "ok" THEN faults + 1 ELSE faults

Goto(r, stage) == pc' = [pc EXCEPT ![r] = stage]

\* Manager.Load: without a valid ticket Redis is not asked.
LoadOutcomes(r) == IF Validate(cookie[r]) THEN ReadOutcomes(r) ELSE {"ok"}

Load(r, o) ==
  IF Validate(cookie[r]) /\ o = "ok" THEN Get(cookie[r].tkt) ELSE NoSession

\* Grants whose last copy a DEL of ticket t removes while no request is going
\* to write one of them back.
LastCopies(t) ==
  {g \in Grants :
     /\ store[t].sess.grant = g
     /\ \A u \in Tickets \ {t} : store[u].sess.grant # g
     /\ \A q \in Requests : pc[q] \in Refreshing \cup {"login"} => sess[q].grant # g}

\* Manager.Clear: the cookie is always cleared; the key is deleted when the
\* request carries a valid ticket.
Clear(r) ==
  \E o \in IF Validate(cookie[r]) THEN Outcomes(r) ELSE {"ok"} :
    /\ Count(r, o)
    /\ resp' = [resp EXCEPT ![r] = ClearCookie]
    /\ IF Validate(cookie[r]) /\ o # "fail"
       THEN /\ store' = [store EXCEPT ![cookie[r].tkt] = NoEntry]
            /\ dead' = dead \cup LastCopies(cookie[r].tkt)
       ELSE UNCHANGED <<store, dead>>

\* Manager.Save: the ticket of the request is reused when it is still valid,
\* otherwise a new one is made; the entry lives for CookieExpire.
Save(r) ==
  LET reuse == Validate(cookie[r])
      tkt   == IF reuse THEN cookie[r].tkt ELSE issued + 1
      exp   == IF CookieExpire = 0 THEN 0 ELSE now + CookieExpire
  IN \E o \in Outcomes(r) :
       /\ tkt <= MaxTickets
       /\ Count(r, o)
       /\ issued' = IF reuse THEN issued ELSE issued + 1
       /\ store' = IF o = "fail" THEN store
                   ELSE [store EXCEPT ![tkt] =
                           [sess |-> EncodeSessionState(sess[r]), exp |-> exp]]
       /\ resp' = IF o = "ok"
                  THEN [resp EXCEPT ![r] =
                          [op |-> "set", ck |-> [tkt |-> tkt, ts |-> sess[r].created]]]
                  ELSE resp

-----------------------------------------------------------------------------
(***************************************************************************)
(* One browser that has logged in once, and no request yet.                *)
(***************************************************************************)
FirstSession ==
  [grant |-> 1, rt |-> 1, created |-> 0, expires |-> TokenLife, refreshed |-> FALSE]

Init ==
  /\ now = 0 /\ faults = 0
  /\ jar = [tkt |-> 1, ts |-> 0]
  /\ store = [t \in Tickets |->
                IF t = 1 THEN [sess |-> FirstSession, exp |-> CookieExpire] ELSE NoEntry]
  /\ lock = [t \in Tickets |-> NoLock]
  /\ idp = [g \in Grants |-> IF g = 1 THEN 1 ELSE 0]
  /\ grants = 1 /\ issued = 1
  /\ pc = [r \in Requests |-> "idle"]
  /\ kind = [r \in Requests |-> "proxy"]
  /\ cookie = [r \in Requests |-> NoCookie]
  /\ live = [r \in Requests |-> TRUE]
  /\ sess = [r \in Requests |-> NoSession]
  /\ err = [r \in Requests |-> "none"]
  /\ deadline = [r \in Requests |-> 0]
  /\ until = [r \in Requests |-> 0]
  /\ ans = [r \in Requests |-> NoAnswer]
  /\ resp = [r \in Requests |-> NoSetCookie]
  /\ dead = {}

\* A request reaches the session chain, or OAuthCallback, which has none.
Arrive(r) ==
  /\ pc[r] = "idle" /\ now <= MaxArrive
  /\ \E k \in Handlers :
       /\ kind' = [kind EXCEPT ![r] = k]
       /\ Goto(r, IF k = "callback" THEN "login" ELSE "load")
       /\ IF k = "callback"
          THEN \* OAuthCallback: the code is redeemed for a new grant, which
               \* need not come with a refresh token
               \E rt \in {0, 1} :
                 /\ grants < MaxGrants
                 /\ grants' = grants + 1
                 /\ idp' = [idp EXCEPT ![grants + 1] = rt]
                 /\ sess' = [sess EXCEPT ![r] =
                      [grant |-> grants + 1, rt |-> rt, created |-> now,
                       expires |-> TokenExpiry, refreshed |-> FALSE]]
          ELSE UNCHANGED <<grants, idp, sess>>
  /\ cookie' = [cookie EXCEPT ![r] = jar]
  /\ UNCHANGED <<now, faults, jar, store, lock, issued, live, err, deadline,
                 until, ans, resp, dead>>

\* getValidatedSession up to the lock: no cookie is no error, any other
\* failure clears the session, a young session is used as it is.
LoadSession(r) ==
  /\ pc[r] = "load"
  /\ \E o \in LoadOutcomes(r) :
       LET s == Load(r, o) IN
         /\ Count(r, o)
         /\ sess' = [sess EXCEPT ![r] = s]
         /\ IF s = NoSession
            THEN /\ Goto(r, IF cookie[r] = NoCookie THEN "serve" ELSE "clear")
                 /\ err' = [err EXCEPT ![r] =
                              IF cookie[r] = NoCookie THEN "none" ELSE "load"]
                 /\ UNCHANGED deadline
            ELSE /\ Goto(r, IF needsRefresh(s) THEN "obtain" ELSE "serve")
                 /\ deadline' = IF needsRefresh(s)
                                THEN [deadline EXCEPT ![r] = now + ObtainTimeout]
                                ELSE deadline
                 /\ UNCHANGED err
  /\ UNCHANGED <<now, jar, store, lock, idp, grants, issued, kind, cookie, live,
                 until, ans, resp, dead>>

\* refreshSessionIfNeeded gives up on the lock; the deadline is looked at
\* before every attempt.
ObtainTimedOut(r) ==
  /\ pc[r] = "obtain" /\ now >= deadline[r]
  /\ err' = [err EXCEPT ![r] = "timeout"]
  /\ Goto(r, "clear")
  /\ UNCHANGED <<now, faults, jar, store, lock, idp, grants, issued, kind, cookie,
                 live, sess, deadline, until, ans, resp, dead>>

\* A bug to compare with: the lock is taken whether or not the key exists.
ObtainAlways(r) ==
  /\ pc[r] = "obtain" /\ now < deadline[r]
  /\ lock' = [lock EXCEPT ![cookie[r].tkt] = [owner |-> r, until |-> now + LockDuration]]
  /\ until' = [until EXCEPT ![r] = now + LockDuration]
  /\ Goto(r, "reload")
  /\ UNCHANGED <<now, faults, jar, store, idp, grants, issued, kind, cookie, live,
                 sess, err, deadline, ans, resp, dead>>

\* A bug to compare with: the lock key is set without an expiry.
ObtainForever(r) ==
  /\ pc[r] = "obtain" /\ now < deadline[r]
  /\ LockFree(cookie[r].tkt)
  /\ \E o \in Outcomes(r) :
       /\ o # "fail"
       /\ Count(r, o)
       /\ lock' = [lock EXCEPT ![cookie[r].tkt] = [owner |-> r, until |-> MaxTime + 1]]
       /\ until' = [until EXCEPT ![r] = MaxTime + 1]
       /\ Goto(r, IF o = "ok" THEN "reload" ELSE "clear")
  /\ UNCHANGED <<now, jar, store, idp, grants, issued, kind, cookie, live, sess, err,
                 deadline, ans, resp, dead>>

\* Lock.Obtain sets the lock key if it does not exist.  When the reply is
\* lost the key is set but the request does not know.  A held lock
\* (ErrLockNotObtained) changes nothing: the request sleeps and tries again.
Obtain(r) ==
  /\ pc[r] = "obtain" /\ now < deadline[r]
  /\ LockFree(cookie[r].tkt)
  /\ \E o \in Outcomes(r) :
       /\ o # "fail"
       /\ Count(r, o)
       /\ lock' = [lock EXCEPT ![cookie[r].tkt] =
                     [owner |-> r, until |-> now + LockDuration]]
       /\ IF o = "ok"
          THEN /\ until' = [until EXCEPT ![r] = now + LockDuration]
               /\ Goto(r, "reload")
               /\ UNCHANGED err
          ELSE /\ err' = [err EXCEPT ![r] = "lock"]
               /\ Goto(r, "clear")
               /\ UNCHANGED until
  /\ UNCHANGED <<now, jar, store, idp, grants, issued, kind, cookie, live, sess,
                 deadline, ans, resp, dead>>

\* Any other error while obtaining the lock ends the attempt.
ObtainFails(r) ==
  /\ pc[r] = "obtain" /\ now < deadline[r]
  /\ "fail" \in Outcomes(r)
  /\ Count(r, "fail")
  /\ err' = [err EXCEPT ![r] = "lock"]
  /\ Goto(r, "clear")
  /\ UNCHANGED <<now, jar, store, lock, idp, grants, issued, kind, cookie, live,
                 sess, deadline, until, ans, resp, dead>>

\* A bug to compare with: the session loaded before the lock is refreshed.
ReloadSkipped(r) ==
  /\ pc[r] = "reload"
  /\ Goto(r, "redeem")
  /\ UNCHANGED <<now, faults, jar, store, lock, idp, grants, issued, kind, cookie,
                 live, sess, err, deadline, until, ans, resp, dead>>

\* Under the lock the session is loaded again, in case another request has
\* refreshed or removed it meanwhile.
Reload(r) ==
  /\ pc[r] = "reload"
  /\ \E o \in LoadOutcomes(r) :
       LET s == Load(r, o) IN
         /\ Count(r, o)
         /\ IF s = NoSession
            THEN /\ err' = [err EXCEPT ![r] = "load"]
                 /\ Goto(r, "release")
                 /\ UNCHANGED sess
            ELSE /\ sess' = [sess EXCEPT ![r] = s]
                 /\ Goto(r, IF needsRefresh(s) THEN "redeem" ELSE "release")
                 /\ UNCHANGED err
  /\ UNCHANGED <<now, jar, store, lock, idp, grants, issued, kind, cookie, live,
                 deadline, until, ans, resp, dead>>

\* The provider handles RefreshSession.  A provider without an implementation
\* and a session without a refresh token do not reach it; it accepts only the
\* current refresh token of the grant, and says invalid_grant otherwise.
RedeemRefreshToken(r) ==
  LET g == sess[r].grant
      rt == sess[r].rt
      Answer(res, tok) == ans' = [ans EXCEPT ![r] = [res |-> res, rt |-> tok]]
  IN /\ pc[r] = "redeem"
     /\ Goto(r, "redeemed")
     /\ IF ~RefreshSupported \/ rt = 0
        THEN /\ Answer(IF RefreshSupported THEN "notRefreshed" ELSE "notImplemented", rt)
             /\ UNCHANGED <<idp, faults>>
        ELSE \E o \in Outcomes(r), rotates \in Rotating :
               LET next == IF rotates THEN rt + 1 ELSE rt IN
               /\ Count(r, o)
               /\ idp' = IF o # "fail" /\ idp[g] = rt
                         THEN [idp EXCEPT ![g] = next] ELSE idp
               /\ IF o # "ok" THEN Answer("failed", rt)
                  ELSE IF idp[g] = rt THEN Answer("ok", next)
                  ELSE Answer("fatal", rt)
     /\ UNCHANGED <<now, jar, store, lock, grants, issued, kind, cookie, live, sess,
                    err, deadline, until, resp, dead>>

\* refreshSession after the provider has answered: CreatedAt is reset when
\* the session was refreshed, or when the provider has no refresh; an
\* invalid_grant or invalid_client is fatal; any other error goes on to
\* the validation.
RefreshSession(r) ==
  LET a == ans[r] IN
  /\ pc[r] = "redeemed"
  /\ sess' = CASE a.res = "ok" ->
                    [sess EXCEPT ![r] = [@ EXCEPT !.rt = a.rt, !.created = now,
                                           !.expires = TokenExpiry, !.refreshed = TRUE]]
               [] a.res = "notImplemented" -> [sess EXCEPT ![r] = [@ EXCEPT !.created = now]]
               [] OTHER -> sess
  /\ Goto(r, CASE a.res \in {"ok", "notImplemented"} -> "save"
               [] a.res = "fatal" -> "clearFatal"
               [] OTHER -> "validate")
  /\ err' = IF a.res = "fatal" THEN [err EXCEPT ![r] = "fatal"] ELSE err
  /\ ans' = [ans EXCEPT ![r] = NoAnswer]
  /\ UNCHANGED <<now, faults, jar, store, lock, idp, grants, issued, kind, cookie,
                 live, deadline, until, resp, dead>>

\* A bug to compare with: the refreshed session is not saved.
SaveForgotten(r) ==
  /\ pc[r] = "save"
  /\ Goto(r, "validate")
  /\ UNCHANGED <<now, faults, jar, store, lock, idp, grants, issued, kind, cookie,
                 live, sess, err, deadline, until, ans, resp, dead>>

\* store.Save of the refreshed session; a failure is logged and ignored.
SaveRefreshed(r) ==
  /\ pc[r] = "save"
  /\ Save(r)
  /\ Goto(r, "validate")
  /\ UNCHANGED <<now, jar, lock, idp, grants, kind, cookie, live, sess, err,
                 deadline, until, ans, dead>>

\* A fatal refresh error clears the session while the lock is held.
ClearFatal(r) ==
  /\ pc[r] = "clearFatal"
  /\ Clear(r)
  /\ Goto(r, "release")
  /\ UNCHANGED <<now, jar, lock, idp, grants, issued, kind, cookie, live, sess,
                 err, deadline, until, ans>>

\* ValidateSession of the OIDC provider accepts a refreshed session when it
\* has no endpoint to ask; in every other case the answer comes from outside
\* (the endpoint, or the ID token's expiry and nonce).
ValidateResults(s) ==
  IF RefreshSupported /\ s.refreshed /\ ~HasValidateURL THEN {TRUE} ELSE BOOLEAN

ValidateSession(r) ==
  /\ pc[r] = "validate"
  /\ \E valid \in ValidateResults(sess[r]) :
       err' = [err EXCEPT ![r] = IF IsExpired(sess[r]) THEN "expired"
                                 ELSE IF valid THEN "none" ELSE "invalid"]
  /\ Goto(r, "release")
  /\ UNCHANGED <<now, faults, jar, store, lock, idp, grants, issued, kind, cookie,
                 live, sess, deadline, until, ans, resp, dead>>

\* A bug to compare with: the lock key is deleted whoever has set it.
ReleaseAny(r) ==
  /\ pc[r] = "release"
  /\ lock' = [lock EXCEPT ![cookie[r].tkt] = NoLock]
  /\ Goto(r, IF err[r] = "none" THEN "serve" ELSE "clear")
  /\ UNCHANGED <<now, faults, jar, store, idp, grants, issued, kind, cookie, live,
                 sess, err, deadline, until, ans, resp, dead>>

\* The deferred ReleaseLock: Lock.Release deletes the key if it still holds
\* the request's own token; its errors are logged and ignored.
Release(r) ==
  /\ pc[r] = "release"
  /\ \E o \in Outcomes(r) :
       /\ Count(r, o)
       /\ lock' = IF o # "fail" /\ lock[cookie[r].tkt].owner = r
                  THEN [lock EXCEPT ![cookie[r].tkt] = NoLock] ELSE lock
  /\ Goto(r, IF err[r] = "none" THEN "serve" ELSE "clear")
  /\ UNCHANGED <<now, jar, store, idp, grants, issued, kind, cookie, live, sess,
                 err, deadline, until, ans, resp, dead>>

\* A bug to compare with: the request goes on only when the key is deleted.
ClearUntilDone(r) ==
  /\ pc[r] = "clear"
  /\ Clear(r)
  /\ sess' = [sess EXCEPT ![r] = NoSession]
  /\ Goto(r, IF Validate(cookie[r]) /\ ~live[r] THEN "clear" ELSE "serve")
  /\ UNCHANGED <<now, jar, lock, idp, grants, issued, kind, cookie, live, err,
                 deadline, until, ans>>

\* loadSession: an error while loading the session clears it.
ClearOnError(r) ==
  /\ pc[r] = "clear"
  /\ Clear(r)
  /\ sess' = [sess EXCEPT ![r] = NoSession]
  /\ Goto(r, "serve")
  /\ UNCHANGED <<now, jar, lock, idp, grants, issued, kind, cookie, live, err,
                 deadline, until, ans>>

\* The handlers.  Without a session AuthOnly answers 401, SignOut clears what
\* there is, and Proxy shows the sign-in page, which clears the session, or
\* answers 401 or starts a login, which do not.  With one, the email validator
\* and the provider's Authorize may deny it (getAuthenticatedSession) and
\* authOnlyAuthorize may forbid the request; their answers come from outside.
\* SignOut asks the first two, for the backend logout, and always clears.
WithoutSession(k) ==
  CASE k = "auth" -> {"respond"}
    [] k = "signOut" -> {"clearPage"}
    [] OTHER -> {"respond", "clearPage"}

WithSession(k) == {"denied", IF k = "signOut" THEN "clearPage" ELSE "respond"}

Serve(r) ==
  /\ pc[r] = "serve"
  /\ \E stage \in IF sess[r] = NoSession THEN WithoutSession(kind[r])
                                         ELSE WithSession(kind[r]) : Goto(r, stage)
  /\ UNCHANGED <<now, faults, jar, store, lock, idp, grants, issued, kind, cookie,
                 live, sess, err, deadline, until, ans, resp, dead>>

\* getAuthenticatedSession clears a session that fails authorization.
Denied(r) ==
  /\ pc[r] = "denied"
  /\ Clear(r)
  /\ Goto(r, IF kind[r] = "signOut" THEN "clearPage" ELSE "respond")
  /\ UNCHANGED <<now, jar, lock, idp, grants, issued, kind, cookie, live, sess,
                 err, deadline, until, ans>>

\* SignInPage and SignOut: ClearSessionCookie.
ClearSessionCookie(r) ==
  /\ pc[r] = "clearPage"
  /\ Clear(r)
  /\ Goto(r, "respond")
  /\ UNCHANGED <<now, jar, lock, idp, grants, issued, kind, cookie, live, sess,
                 err, deadline, until, ans>>

\* OAuthCallback: SaveSession, which takes no lock.
SaveLogin(r) ==
  /\ pc[r] = "login"
  /\ Save(r)
  /\ Goto(r, "respond")
  /\ UNCHANGED <<now, jar, lock, idp, grants, kind, cookie, live, sess, err,
                 deadline, until, ans, dead>>

\* The response reaches the browser, unless it has disconnected, and the
\* request's variables go out of scope.
Respond(r) ==
  /\ pc[r] = "respond"
  /\ Goto(r, "done")
  /\ jar' = IF live[r] /\ resp[r].op # "none" THEN resp[r].ck ELSE jar
  /\ kind' = [kind EXCEPT ![r] = "proxy"]
  /\ cookie' = [cookie EXCEPT ![r] = NoCookie]
  /\ live' = [live EXCEPT ![r] = TRUE]
  /\ sess' = [sess EXCEPT ![r] = NoSession]
  /\ err' = [err EXCEPT ![r] = "none"]
  /\ deadline' = [deadline EXCEPT ![r] = 0]
  /\ until' = [until EXCEPT ![r] = 0]
  /\ resp' = [resp EXCEPT ![r] = NoSetCookie]
  /\ UNCHANGED <<now, faults, store, lock, idp, grants, issued, ans, dead>>

\* The client disconnects, which cancels req.Context().
Disconnect(r) ==
  /\ pc[r] \notin {"idle", "done"} /\ live[r] /\ faults < MaxFaults
  /\ live' = [live EXCEPT ![r] = FALSE]
  /\ faults' = faults + 1
  /\ UNCHANGED <<now, jar, store, lock, idp, grants, issued, pc, kind, cookie, sess,
                 err, deadline, until, ans, resp, dead>>

\* The provider's administrator ends a grant.
Revoke(g) ==
  /\ idp[g] # 0
  /\ idp' = [idp EXCEPT ![g] = 0]
  /\ UNCHANGED <<now, faults, jar, store, lock, grants, issued, dead, reqVars>>

\* Time passes.  Under Prompt it does not pass the end of a lock whose owner
\* has not released it.  The clock waits at MaxArrive for the last loads, so
\* that every deadline lies before MaxTime.
Tick ==
  /\ now < MaxTime
  /\ now < MaxArrive \/ \A r \in Requests : pc[r] # "load"
  /\ Prompt => \A r \in Requests : pc[r] \in UnderLock => now + 1 < until[r]
  /\ now' = now + 1
  /\ UNCHANGED <<faults, jar, store, lock, idp, grants, issued, dead, reqVars>>

Step(r) ==
  \/ LoadSession(r) \/ ObtainTimedOut(r) \/ Obtain(r) \/ ObtainFails(r) \/ Reload(r)
  \/ RedeemRefreshToken(r) \/ RefreshSession(r) \/ SaveRefreshed(r) \/ ClearFatal(r)
  \/ ValidateSession(r) \/ Release(r) \/ ClearOnError(r) \/ Serve(r) \/ Denied(r)
  \/ ClearSessionCookie(r) \/ SaveLogin(r) \/ Respond(r)

\* Everything has been answered and the clock has run out.
Finished ==
  /\ now = MaxTime
  /\ \A r \in Requests : pc[r] \in {"idle", "done"}
  /\ UNCHANGED vars

Next ==
  \/ \E r \in Requests : Arrive(r) \/ Step(r) \/ Disconnect(r)
  \/ \E g \in Revocable : Revoke(g)
  \/ Tick
  \/ Finished

Spec == Init /\ [][Next]_vars

\* A goroutine that can go on does, and time does not stop.
Fairness == WF_vars(Tick) /\ \A r \in Requests : WF_vars(Step(r))

FairSpec == Spec /\ Fairness

-----------------------------------------------------------------------------
(***************************************************************************)
(* Properties                                                              *)
(***************************************************************************)

\* Two requests that carry the same ticket are never both between ObtainLock
\* and the deferred ReleaseLock of refreshSessionIfNeeded while both leases
\* still run: SET NX with an expiry and compare-and-delete make a lease.
LeaseExclusion ==
  \A r, q \in Requests :
    /\ pc[r] \in UnderLock /\ pc[q] \in UnderLock
    /\ cookie[r].tkt = cookie[q].tkt
    /\ now < until[r] /\ now < until[q]
    => r = q

\* Why LeaseExclusion holds: the lock key belongs to every request whose lease
\* still runs.
LeaseBacked ==
  \A r \in Requests :
    pc[r] \in UnderLock =>
      /\ cookie[r].tkt \in Tickets
      /\ now < until[r] => lock[cookie[r].tkt] = [owner |-> r, until |-> until[r]]

\* The Redis lock key implements the lease of SessionLease: a request holds
\* one from the reply of Obtain to the deferred ReleaseLock.
Lease == INSTANCE SessionLease WITH
  Holders <- Requests, Resources <- Tickets, Duration <- LockDuration,
  clock <- now,
  lease <- [r \in Requests |->
              IF pc[r] \in UnderLock THEN [on |-> cookie[r].tkt, until |-> until[r]]
              ELSE [on |-> 0, until |-> 0]]

\* Every behaviour of the requests is one of SessionLease: a lease is taken
\* only when no lease on that ticket runs, whatever replies are lost and
\* whoever releases late.
ImplementsLease == Lease!LeaseSpec

\* A lock key that has not expired changes only when the request that set it
\* releases it: Lock.Release of a request whose own lease has run out never
\* deletes the lease of the next one.
LockKeptByOwner ==
  [][\A t \in Tickets :
       lock[t].owner # NoRequest /\ now < lock[t].until /\ lock'[t] # lock[t] =>
         pc[lock[t].owner] = "release" /\ pc'[lock[t].owner] # "release"]_vars

\* A session that is deleted while no request is refreshing it stays deleted:
\* requests that still hold it from before they waited for the lock load it
\* again under the lock and do not write it back.
ClearedStaysCleared == \A t \in Tickets : store[t].sess.grant \notin dead

\* What ClearedStaysCleared rests on: whoever is about to write a session
\* back holds one that is not gone.
WritersHoldLiveSessions ==
  \A r \in Requests :
    pc[r] \in Refreshing \cup {"login"} => sess[r].grant \notin dead

\* With a provider that rotates refresh tokens, requests that end in time and
\* no failures: a session in Redis holds the refresh token the provider
\* accepts, unless the request that has just used it is about to save the next
\* one.  (Otherwise the session is doomed: the next refresh is invalid_grant.)
CurrentTokenKept ==
  \A t \in Tickets :
    LET s == Get(t) IN
    s.grant # 0 /\ s.rt # 0 /\ idp[s.grant] # 0 /\ s.rt # idp[s.grant] =>
      \E r \in Requests :
        \/ /\ pc[r] = "redeemed" /\ sess[r].grant = s.grant
           /\ ans[r] = [res |-> "ok", rt |-> idp[s.grant]]
        \/ pc[r] = "save" /\ sess[r].grant = s.grant /\ sess[r].rt = idp[s.grant]

\* Under the same assumptions a refresh is answered with invalid_grant only
\* when the grant has been revoked.
NoSpuriousInvalidGrant ==
  \A r \in Requests :
    pc[r] = "redeemed" /\ ans[r].res = "fatal" => idp[sess[r].grant] = 0

\* With prompt lease holders, and whether or not the provider rotates its
\* refresh tokens and requests fail, no save puts an older state of a session
\* over a newer one of the same login: neither the refresh token nor CreatedAt
\* ever goes back, however many requests renew the session in turn.
RefreshMonotone ==
  [][\A t \in Tickets :
       store'[t].sess.grant = store[t].sess.grant =>
         /\ store'[t].sess.rt >= store[t].sess.rt
         /\ store'[t].sess.created >= store[t].sess.created]_vars

\* Every request is answered, also when the lock is held by a request that
\* never releases it, Redis fails or the client disconnects.
EveryRequestAnswered == \A r \in Requests : pc[r] # "idle" ~> pc[r] = "done"

\* Every lock becomes free again, also when the reply to the command that set
\* it is lost, or the release fails.
LockFreed == \A t \in Tickets : ~LockFree(t) ~> LockFree(t)

=============================================================================

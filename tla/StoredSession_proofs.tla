------------------------ MODULE StoredSession_proofs ------------------------
(***************************************************************************)
(* Proofs about StoredSession, for any set of requests, any durations and   *)
(* any bounds.                                                              *)
(***************************************************************************)
EXTENDS StoredSession, TLAPS

\* The assumptions on the constants, one by one.
LEMMA Constants ==
  /\ NoRequest \notin Requests
  /\ RefreshPeriod \in Nat /\ CookieExpire \in Nat /\ TokenLife \in Nat
  /\ MaxTime \in Nat /\ MaxArrive \in Nat /\ MaxFaults \in Nat
  /\ Second \in Nat \ {0} /\ LockDuration \in Nat \ {0} /\ ObtainTimeout \in Nat \ {0}
  /\ MaxGrants \in Nat \ {0} /\ MaxTickets \in Nat \ {0}
  /\ Handlers \subseteq Kinds /\ Revocable \subseteq Grants
BY ConstantsAssumption DEF Kinds, Grants

\* The empty values have their types.
LEMMA EmptyValues ==
  /\ NoSession \in SessionState
  /\ NoEntry \in Entry
  /\ NoCookie \in Cookie
  /\ NoLock \in LockKey
  /\ NoAnswer \in Answers
  /\ NoSetCookie \in Response
  /\ ClearCookie \in Response
BY Constants DEF NoSession, SessionState, NoEntry, Entry, NoCookie, Cookie, NoLock,
                 LockKey, NoAnswer, Answers, NoSetCookie, ClearCookie, Response

\* Manager.Load gives a session.
LEMMA LoadType ==
  ASSUME TypeOK, NEW r \in Requests, NEW o
  PROVE  Load(r, o) \in SessionState
<1>1. CASE Validate(cookie[r]) /\ o = "ok"
  <2>1. cookie[r] \in Cookie
    BY DEF TypeOK
  <2>2. cookie[r].tkt \in Tickets
    BY <1>1, <2>1, Constants DEF Validate, Cookie, Tickets
  <2>3. store[cookie[r].tkt] \in Entry
    BY <2>2 DEF TypeOK
  <2>4. Get(cookie[r].tkt) \in SessionState
    BY <2>3, EmptyValues DEF Get, Entry
  <2> QED
    BY <1>1, <2>4 DEF Load
<1>2. CASE ~(Validate(cookie[r]) /\ o = "ok")
  BY <1>2, EmptyValues DEF Load
<1> QED
  BY <1>1, <1>2

\* A new time of expiry is a time.
LEMMA TokenExpiryType == TypeOK => TokenExpiry \in Nat
BY Constants DEF TypeOK, TokenExpiry

\* What Clear leaves behind has its type.
LEMMA ClearType ==
  ASSUME TypeOK, NEW r \in Requests, Clear(r)
  PROVE  /\ faults' \in Nat
         /\ resp' \in [Requests -> Response]
         /\ store' \in [Tickets -> Entry]
         /\ dead' \subseteq Grants
BY EmptyValues DEF TypeOK, Clear, Count, LastCopies

\* What Save leaves behind has its type.
LEMMA SaveType ==
  ASSUME TypeOK, NEW r \in Requests, Save(r)
  PROVE  /\ faults' \in Nat
         /\ resp' \in [Requests -> Response]
         /\ store' \in [Tickets -> Entry]
         /\ issued' \in 0..MaxTickets
<1> DEFINE reuse == Validate(cookie[r])
           tkt   == IF reuse THEN cookie[r].tkt ELSE issued + 1
           exp   == IF CookieExpire = 0 THEN 0 ELSE now + CookieExpire
           ent   == [sess |-> EncodeSessionState(sess[r]), exp |-> exp]
<1>1. PICK o \in Outcomes(r) :
        /\ tkt <= MaxTickets
        /\ Count(r, o)
        /\ issued' = IF reuse THEN issued ELSE issued + 1
        /\ store' = IF o = "fail" THEN store ELSE [store EXCEPT ![tkt] = ent]
        /\ resp' = IF o = "ok"
                   THEN [resp EXCEPT ![r] =
                           [op |-> "set", ck |-> [tkt |-> tkt, ts |-> sess[r].created]]]
                   ELSE resp
  BY DEF Save
<1>2. cookie[r] \in Cookie /\ sess[r] \in SessionState
  BY DEF TypeOK
<1>3. tkt \in 0..MaxTickets
  BY <1>1, <1>2, Constants DEF TypeOK, Cookie
<1>4. ent \in Entry
  <2>1. EncodeSessionState(sess[r]) \in SessionState
    BY <1>2 DEF EncodeSessionState, SessionState
  <2>2. exp \in Nat
    BY Constants DEF TypeOK
  <2> QED
    BY <2>1, <2>2 DEF Entry
<1>5. [op |-> "set", ck |-> [tkt |-> tkt, ts |-> sess[r].created]] \in Response
  BY <1>2, <1>3 DEF Response, Cookie, SessionState
<1>6. faults' \in Nat
  BY <1>1 DEF Count, TypeOK
<1>7. issued' \in 0..MaxTickets
  BY <1>1, Constants DEF TypeOK
<1> HIDE DEF tkt, ent, exp, reuse
<1>8. store' \in [Tickets -> Entry]
  BY <1>1, <1>4 DEF TypeOK
<1>9. resp' \in [Requests -> Response]
  BY <1>1, <1>5 DEF TypeOK
<1> QED
  BY <1>6, <1>7, <1>8, <1>9

\* Every variable keeps its type.
THEOREM TypeCorrect == Spec => []TypeOK
<1>1. Init => TypeOK
  <2> SUFFICES ASSUME Init PROVE TypeOK
    OBVIOUS
  <2>1. FirstSession \in SessionState
    BY Constants DEF FirstSession, SessionState
  <2>2. [sess |-> FirstSession, exp |-> CookieExpire] \in Entry
    BY <2>1, Constants DEF Entry
  <2> QED
    BY <2>2, Constants, EmptyValues
    DEF Init, TypeOK, Cookie, Tickets, Grants, Stages, Kinds, Errors
<1>2. TypeOK /\ [Next]_vars => TypeOK'
  <2> SUFFICES ASSUME TypeOK, [Next]_vars PROVE TypeOK'
    OBVIOUS
  <2> USE DEF TypeOK, Goto, Count
  <2>1. ASSUME NEW r \in Requests, Arrive(r) PROVE TypeOK'
    <3>1. PICK k \in Handlers :
            /\ kind' = [kind EXCEPT ![r] = k]
            /\ Goto(r, IF k = "callback" THEN "login" ELSE "load")
            /\ IF k = "callback"
               THEN \E rt \in {0, 1} :
                      /\ grants < MaxGrants
                      /\ grants' = grants + 1
                      /\ idp' = [idp EXCEPT ![grants + 1] = rt]
                      /\ sess' = [sess EXCEPT ![r] =
                           [grant |-> grants + 1, rt |-> rt, created |-> now,
                            expires |-> TokenExpiry, refreshed |-> FALSE]]
               ELSE UNCHANGED <<grants, idp, sess>>
      BY <2>1 DEF Arrive
    <3>2. kind' \in [Requests -> Kinds] /\ pc' \in [Requests -> Stages]
      BY <3>1, Constants DEF Stages
    <3>3. /\ grants' \in 0..MaxGrants /\ idp' \in [Grants -> Nat]
          /\ sess' \in [Requests -> SessionState]
      <4>1. CASE k # "callback"
        BY <4>1, <3>1
      <4>2. CASE k = "callback"
        <5>1. PICK rt \in {0, 1} :
                /\ grants < MaxGrants
                /\ grants' = grants + 1
                /\ idp' = [idp EXCEPT ![grants + 1] = rt]
                /\ sess' = [sess EXCEPT ![r] =
                     [grant |-> grants + 1, rt |-> rt, created |-> now,
                      expires |-> TokenExpiry, refreshed |-> FALSE]]
          BY <3>1, <4>2
        <5>2. grants + 1 \in 0..MaxGrants
          BY <5>1, Constants
        <5>3. [grant |-> grants + 1, rt |-> rt, created |-> now,
               expires |-> TokenExpiry, refreshed |-> FALSE] \in SessionState
          <6>1. rt \in Nat
            OBVIOUS
          <6>2. TokenExpiry \in Nat
            BY TokenExpiryType
          <6> QED
            BY <5>2, <6>1, <6>2 DEF SessionState
        <5>4. idp' \in [Grants -> Nat]
          BY <5>1, rt \in Nat DEF Grants
        <5>5. sess' \in [Requests -> SessionState]
          BY <5>1, <5>3
        <5> QED
          BY <5>1, <5>2, <5>4, <5>5
      <4> QED
        BY <4>1, <4>2
    <3> QED
      BY <2>1, <3>2, <3>3 DEF Arrive
  <2>2. ASSUME NEW r \in Requests, LoadSession(r) PROVE TypeOK'
    <3>1. PICK o \in LoadOutcomes(r) :
            LET s == Load(r, o) IN
              /\ Count(r, o)
              /\ sess' = [sess EXCEPT ![r] = s]
              /\ IF s = NoSession
                 THEN /\ Goto(r, IF cookie[r] = NoCookie THEN "serve" ELSE "clear")
                      /\ err' = [err EXCEPT ![r] =
                                   IF cookie[r] = NoCookie THEN "none" ELSE "load"]
                      /\ UNCHANGED deadline
                 ELSE /\ Goto(r, IF needsRefresh(s) THEN "obtain" ELSE "serve")
                      /\ deadline' = IF needsRefresh(s)
                                     THEN [deadline EXCEPT ![r] = now + ObtainTimeout]
                                     ELSE deadline
                      /\ UNCHANGED err
      BY <2>2 DEF LoadSession
    <3>2. Load(r, o) \in SessionState
      BY LoadType
    <3>3. /\ sess' \in [Requests -> SessionState] /\ faults' \in Nat
          /\ pc' \in [Requests -> Stages] /\ err' \in [Requests -> Errors]
          /\ deadline' \in [Requests -> Nat]
      BY <3>1, <3>2, Constants DEF Stages, Errors
    <3> QED
      BY <2>2, <3>3 DEF LoadSession
  <2>3. ASSUME NEW r \in Requests, ObtainTimedOut(r) PROVE TypeOK'
    BY <2>3 DEF ObtainTimedOut, Stages, Errors
  <2>4. ASSUME NEW r \in Requests, Obtain(r) PROVE TypeOK'
    <3>1. now + LockDuration \in Nat
      BY Constants
    <3>2. [owner |-> r, until |-> now + LockDuration] \in LockKey
      BY <3>1 DEF LockKey
    <3> QED
      <4>1. lock' \in [Tickets -> LockKey]
        BY <2>4, <3>2 DEF Obtain
      <4>2. until' \in [Requests -> Nat] /\ faults' \in Nat
        BY <2>4, <3>1 DEF Obtain
      <4>3. pc' \in [Requests -> Stages] /\ err' \in [Requests -> Errors]
        BY <2>4 DEF Obtain, Stages, Errors
      <4> QED
        BY <2>4, <4>1, <4>2, <4>3 DEF Obtain
  <2>5. ASSUME NEW r \in Requests, ObtainFails(r) PROVE TypeOK'
    BY <2>5 DEF ObtainFails, Stages, Errors
  <2>6. ASSUME NEW r \in Requests, Reload(r) PROVE TypeOK'
    <3>1. PICK o \in LoadOutcomes(r) :
            LET s == Load(r, o) IN
              /\ Count(r, o)
              /\ IF s = NoSession
                 THEN /\ err' = [err EXCEPT ![r] = "load"]
                      /\ Goto(r, "release")
                      /\ UNCHANGED sess
                 ELSE /\ sess' = [sess EXCEPT ![r] = s]
                      /\ Goto(r, IF needsRefresh(s) THEN "redeem" ELSE "release")
                      /\ UNCHANGED err
      BY <2>6 DEF Reload
    <3>2. Load(r, o) \in SessionState
      BY LoadType
    <3>3. /\ sess' \in [Requests -> SessionState] /\ faults' \in Nat
          /\ pc' \in [Requests -> Stages] /\ err' \in [Requests -> Errors]
      BY <3>1, <3>2 DEF Stages, Errors
    <3> QED
      BY <2>6, <3>3 DEF Reload
  <2>7. ASSUME NEW r \in Requests, RedeemRefreshToken(r) PROVE TypeOK'
    <3>1. sess[r].rt \in Nat /\ sess[r].rt + 1 \in Nat
      BY DEF SessionState
    <3>2. /\ pc' \in [Requests -> Stages] /\ faults' \in Nat
      BY <2>7 DEF RedeemRefreshToken, Stages
    <3>3. idp' \in [Grants -> Nat]
      BY <2>7, <3>1 DEF RedeemRefreshToken
    <3>4. ans' \in [Requests -> Answers]
      BY <2>7, <3>1 DEF RedeemRefreshToken, Answers
    <3> QED
      BY <2>7, <3>2, <3>3, <3>4 DEF RedeemRefreshToken
  <2>8. ASSUME NEW r \in Requests, RefreshSession(r) PROVE TypeOK'
    <3>1. sess[r] \in SessionState /\ ans[r].rt \in Nat /\ TokenExpiry \in Nat
      BY TokenExpiryType DEF Answers
    <3>2. /\ [sess[r] EXCEPT !.rt = ans[r].rt, !.created = now,
                             !.expires = TokenExpiry, !.refreshed = TRUE] \in SessionState
          /\ [sess[r] EXCEPT !.created = now] \in SessionState
      BY <3>1 DEF SessionState
    <3>3. sess' \in [Requests -> SessionState]
      BY <2>8, <3>2 DEF RefreshSession
    <3>4. ans' \in [Requests -> Answers]
      BY <2>8, EmptyValues DEF RefreshSession
    <3>5. pc' \in [Requests -> Stages] /\ err' \in [Requests -> Errors]
      BY <2>8 DEF RefreshSession, Stages, Errors
    <3> QED
      BY <2>8, <3>3, <3>4, <3>5 DEF RefreshSession
  <2>9. ASSUME NEW r \in Requests, SaveRefreshed(r) PROVE TypeOK'
    BY <2>9, SaveType DEF SaveRefreshed, Stages
  <2>10. ASSUME NEW r \in Requests, ClearFatal(r) PROVE TypeOK'
    BY <2>10, ClearType DEF ClearFatal, Stages
  <2>11. ASSUME NEW r \in Requests, ValidateSession(r) PROVE TypeOK'
    BY <2>11 DEF ValidateSession, Stages, Errors
  <2>12. ASSUME NEW r \in Requests, Release(r) PROVE TypeOK'
    <3>1. PICK o \in Outcomes(r) :
            /\ Count(r, o)
            /\ lock' = IF o # "fail" /\ lock[cookie[r].tkt].owner = r
                       THEN [lock EXCEPT ![cookie[r].tkt] = NoLock] ELSE lock
      BY <2>12 DEF Release
    <3>3. lock' \in [Tickets -> LockKey]
      BY <3>1, EmptyValues
    <3>4. faults' \in Nat
      BY <3>1
    <3>2. pc' \in [Requests -> Stages]
      BY <2>12 DEF Release, Stages
    <3> QED
      BY <2>12, <3>2, <3>3, <3>4 DEF Release
  <2>13. ASSUME NEW r \in Requests, ClearOnError(r) PROVE TypeOK'
    BY <2>13, ClearType, EmptyValues DEF ClearOnError, Stages
  <2>14. ASSUME NEW r \in Requests, Serve(r) PROVE TypeOK'
    <3>1. pc' \in [Requests -> Stages]
      BY <2>14 DEF Serve, WithSession, WithoutSession, Stages
    <3> QED
      BY <2>14, <3>1 DEF Serve
  <2>15. ASSUME NEW r \in Requests, Denied(r) PROVE TypeOK'
    BY <2>15, ClearType DEF Denied, Stages
  <2>16. ASSUME NEW r \in Requests, ClearSessionCookie(r) PROVE TypeOK'
    BY <2>16, ClearType DEF ClearSessionCookie, Stages
  <2>17. ASSUME NEW r \in Requests, SaveLogin(r) PROVE TypeOK'
    BY <2>17, SaveType DEF SaveLogin, Stages
  <2>18. ASSUME NEW r \in Requests, Respond(r) PROVE TypeOK'
    <3>1. jar' \in Cookie
      BY <2>18 DEF Respond, Response
    <3> QED
      BY <2>18, <3>1, EmptyValues DEF Respond, Stages, Kinds, Errors
  <2>19. ASSUME NEW r \in Requests, Disconnect(r) PROVE TypeOK'
    BY <2>19 DEF Disconnect
  <2>20. ASSUME NEW g \in Revocable, Revoke(g) PROVE TypeOK'
    BY <2>20, Constants DEF Revoke, reqVars
  <2>21. CASE Tick
    BY <2>21 DEF Tick, reqVars
  <2>22. CASE UNCHANGED vars
    BY <2>22 DEF vars, reqVars
  <2> QED
    BY <2>1, <2>2, <2>3, <2>4, <2>5, <2>6, <2>7, <2>8, <2>9, <2>10, <2>11, <2>12,
       <2>13, <2>14, <2>15, <2>16, <2>17, <2>18, <2>19, <2>20, <2>21, <2>22
    DEF Next, Step, Finished
<1> QED
  BY <1>1, <1>2, PTL DEF Spec

-----------------------------------------------------------------------------
(***************************************************************************)
(* The lock as a lease.  All steps but Obtain, Release and Tick leave the   *)
(* clock, the lock keys and the leases alone.                               *)
(***************************************************************************)

\* A request that may set the lock key, or holds it, has a ticket.
CanLock ==
  \A r \in Requests :
    pc[r] \in UnderLock \cup {"obtain"} => cookie[r].tkt \in Tickets

LeaseInv == TypeOK /\ CanLock /\ LeaseBacked

Quiet ==
  /\ UNCHANGED <<now, lock>>
  /\ \A q \in Requests :
       /\ pc'[q] \in UnderLock <=> pc[q] \in UnderLock
       /\ pc[q] \in UnderLock => cookie'[q] = cookie[q] /\ until'[q] = until[q]
       /\ pc'[q] = "obtain" => cookie'[q].tkt \in Tickets

\* A session that has been loaded was found by a ticket.
LEMMA LoadedByTicket ==
  ASSUME TypeOK, NEW r \in Requests, NEW o, Load(r, o) # NoSession
  PROVE  cookie[r].tkt \in Tickets
BY Constants DEF TypeOK, Load, Validate, Cookie, Tickets

\* The steps that have nothing to do with the lock.
LEMMA QuietSteps ==
  ASSUME LeaseInv, NEW r \in Requests,
         \/ Arrive(r) \/ LoadSession(r) \/ ObtainTimedOut(r) \/ ObtainFails(r)
         \/ Reload(r) \/ RedeemRefreshToken(r) \/ RefreshSession(r)
         \/ SaveRefreshed(r) \/ ClearFatal(r) \/ ValidateSession(r)
         \/ ClearOnError(r) \/ Serve(r) \/ Denied(r) \/ ClearSessionCookie(r)
         \/ SaveLogin(r) \/ Respond(r) \/ Disconnect(r)
  PROVE  Quiet
<1> USE DEF LeaseInv, CanLock, TypeOK, Quiet, Goto, UnderLock
<1>1. CASE Arrive(r)
  BY <1>1 DEF Arrive
<1>2. CASE LoadSession(r)
  BY <1>2, LoadedByTicket DEF LoadSession
<1>3. CASE ObtainTimedOut(r) \/ ObtainFails(r)
  BY <1>3 DEF ObtainTimedOut, ObtainFails
<1>4. CASE Reload(r)
  BY <1>4 DEF Reload
<1>5. CASE RedeemRefreshToken(r)
  BY <1>5 DEF RedeemRefreshToken
<1>6. CASE RefreshSession(r)
  BY <1>6 DEF RefreshSession
<1>7. CASE SaveRefreshed(r) \/ ClearFatal(r) \/ ValidateSession(r)
  BY <1>7 DEF SaveRefreshed, ClearFatal, ValidateSession
<1>8. CASE Serve(r)
  BY <1>8 DEF Serve, WithSession, WithoutSession
<1>9. CASE ClearOnError(r) \/ Denied(r) \/ ClearSessionCookie(r) \/ SaveLogin(r)
  BY <1>9 DEF ClearOnError, Denied, ClearSessionCookie, SaveLogin
<1>10. CASE Respond(r)
  BY <1>10 DEF Respond
<1>11. CASE Disconnect(r)
  BY <1>11 DEF Disconnect
<1> QED
  BY <1>1, <1>2, <1>3, <1>4, <1>5, <1>6, <1>7, <1>8, <1>9, <1>10, <1>11

\* A revocation, or a step that changes nothing, is quiet too.
LEMMA QuietRest ==
  ASSUME LeaseInv, (\E g \in Revocable : Revoke(g)) \/ UNCHANGED vars
  PROVE  Quiet
BY DEF LeaseInv, CanLock, Quiet, Revoke, vars, reqVars

\* Every step is a quiet one, or one of the three that are not.
LEMMA LeaseSteps ==
  ASSUME LeaseInv, [Next]_vars
  PROVE  \/ Quiet \/ Tick
         \/ \E r \in Requests : Obtain(r) \/ Release(r)
BY QuietSteps, QuietRest DEF Next, Step, Finished

\* The lock key backs every lease that runs.
LEMMA LeaseInductive ==
  ASSUME LeaseInv, [Next]_vars, TypeOK'
  PROVE  LeaseInv'
<1> USE DEF LeaseInv, CanLock, LeaseBacked
<1>1. CASE Quiet
  BY <1>1 DEF Quiet, UnderLock
<1>2. CASE Tick
  <2>1. /\ now \in Nat /\ now' = now + 1 /\ UNCHANGED <<lock, pc, cookie, until>>
        /\ \A r \in Requests : until[r] \in Nat
    BY <1>2 DEF Tick, reqVars, TypeOK
  <2> QED
    BY <2>1
<1>3. ASSUME NEW r \in Requests, Obtain(r) PROVE LeaseInv'
  <2> DEFINE t == cookie[r].tkt
             key == [owner |-> r, until |-> now + LockDuration]
  <2>1. /\ pc[r] = "obtain" /\ t \in Tickets
        /\ LockFree(t)
        /\ UNCHANGED <<now, cookie>>
        /\ lock' = [lock EXCEPT ![t] = key]
        /\ \/ /\ until' = [until EXCEPT ![r] = now + LockDuration]
              /\ pc' = [pc EXCEPT ![r] = "reload"]
           \/ /\ until' = until
              /\ pc' = [pc EXCEPT ![r] = "clear"]
    BY <1>3 DEF Obtain, Goto
  <2>2. /\ pc \in [Requests -> Stages] /\ until \in [Requests -> Nat]
        /\ lock \in [Tickets -> LockKey]
    BY DEF TypeOK
  <2>3. ASSUME NEW q \in Requests, q # r, pc'[q] \in UnderLock, now < until[q]
        PROVE  lock'[cookie[q].tkt] = [owner |-> q, until |-> until[q]]
    <3>1. lock[cookie[q].tkt] = [owner |-> q, until |-> until[q]]
      BY <2>1, <2>2, <2>3
    <3>2. cookie[q].tkt # t
      <4>1. q # NoRequest
        BY Constants
      <4>2. until[q] \in Nat /\ now \in Nat
        BY DEF TypeOK
      <4>3. ~LockFree(cookie[q].tkt)
        BY <3>1, <2>3, <4>1, <4>2 DEF LockFree
      <4> QED
        BY <4>3, <2>1
    <3> QED
      BY <2>1, <2>2, <3>1, <3>2
  <2>4. CanLock'
    BY <2>1, <2>2 DEF UnderLock
  <2>5. LeaseBacked'
    <3> SUFFICES ASSUME NEW q \in Requests, pc'[q] \in UnderLock
                 PROVE  /\ cookie'[q].tkt \in Tickets
                        /\ now' < until'[q] =>
                             lock'[cookie'[q].tkt] = [owner |-> q, until |-> until'[q]]
      OBVIOUS
    <3>1. CASE q = r
      BY <3>1, <2>1, <2>2 DEF UnderLock
    <3>2. CASE q # r
      BY <3>2, <2>1, <2>2, <2>3
    <3> QED
      BY <3>1, <3>2
  <2> QED
    BY <2>4, <2>5
<1>4. ASSUME NEW r \in Requests, Release(r) PROVE LeaseInv'
  <2>1. /\ pc[r] = "release" /\ UNCHANGED <<now, cookie, until>>
        /\ pc' = [pc EXCEPT ![r] = IF err[r] = "none" THEN "serve" ELSE "clear"]
        /\ \/ lock' = lock
           \/ /\ lock' = [lock EXCEPT ![cookie[r].tkt] = NoLock]
              /\ lock[cookie[r].tkt].owner = r
    BY <1>4 DEF Release, Goto
  <2>2. /\ pc \in [Requests -> Stages] /\ lock \in [Tickets -> LockKey]
    BY DEF TypeOK
  <2>3. ASSUME NEW q \in Requests, pc'[q] \in UnderLock
        PROVE  q # r /\ pc[q] \in UnderLock
    BY <2>1, <2>2, <2>3 DEF UnderLock
  <2>4. CanLock'
    BY <2>1, <2>2 DEF UnderLock
  <2>5. LeaseBacked'
    BY <2>1, <2>2, <2>3
  <2> QED
    BY <2>4, <2>5
<1> QED
  BY <1>1, <1>2, <1>3, <1>4, LeaseSteps

\* With the types, the backing of leases is an inductive invariant.
LEMMA LeaseInvariant == Spec => []LeaseInv
<1>1. Init => CanLock /\ LeaseBacked
  BY DEF Init, CanLock, LeaseBacked, UnderLock
<1>2. LeaseInv /\ TypeOK' /\ [Next]_vars => LeaseInv'
  BY LeaseInductive
<1>3. Init /\ TypeOK => LeaseInv
  BY <1>1 DEF LeaseInv
<1> QED
  BY <1>2, <1>3, TypeCorrect, PTL DEF Spec

\* The lock key belongs to every request whose lease still runs, however late
\* other requests release theirs.
THEOREM LeasesAreBacked == Spec => []LeaseBacked
<1>1. LeaseInv => LeaseBacked
  BY DEF LeaseInv
<1> QED
  BY <1>1, LeaseInvariant, PTL

\* Two leases that run on one ticket are one: the key has one owner.
LEMMA BackedExcludes == LeaseInv => LeaseExclusion
<1> SUFFICES ASSUME LeaseInv, NEW r \in Requests, NEW q \in Requests,
                    pc[r] \in UnderLock, pc[q] \in UnderLock,
                    cookie[r].tkt = cookie[q].tkt, now < until[r], now < until[q]
             PROVE  r = q
  BY DEF LeaseExclusion
<1>1. [owner |-> r, until |-> until[r]] = [owner |-> q, until |-> until[q]]
  BY DEF LeaseInv, LeaseBacked
<1> QED
  BY <1>1

\* No two requests hold running leases on one ticket.
THEOREM LeasesExclude == Spec => []LeaseExclusion
  BY BackedExcludes, LeaseInvariant, PTL

\* A lock key that has not expired changes only by its owner's release.
THEOREM LocksKeptByOwner == Spec => LockKeptByOwner
<1> DEFINE Kept ==
      \A t \in Tickets :
        lock[t].owner # NoRequest /\ now < lock[t].until /\ lock'[t] # lock[t] =>
          pc[lock[t].owner] = "release" /\ pc'[lock[t].owner] # "release"
<1>1. LeaseInv /\ [Next]_vars => [Kept]_vars
  <2> SUFFICES ASSUME LeaseInv, [Next]_vars, NEW t \in Tickets,
                      lock[t].owner # NoRequest, now < lock[t].until, lock'[t] # lock[t]
               PROVE  pc[lock[t].owner] = "release" /\ pc'[lock[t].owner] # "release"
    OBVIOUS
  <2>1. /\ pc \in [Requests -> Stages] /\ lock \in [Tickets -> LockKey]
        /\ now \in Nat /\ lock[t].until \in Nat
    BY DEF LeaseInv, TypeOK, LockKey
  <2>2. ~Quiet /\ ~Tick
    BY DEF Quiet, Tick
  <2>3. ASSUME NEW r \in Requests, Obtain(r) PROVE FALSE
    <3>1. LockFree(cookie[r].tkt) /\ \E key : lock' = [lock EXCEPT ![cookie[r].tkt] = key]
      BY <2>3 DEF Obtain
    <3> QED
      BY <3>1, <2>1 DEF LockFree
  <2>4. ASSUME NEW r \in Requests, Release(r)
        PROVE  pc[lock[t].owner] = "release" /\ pc'[lock[t].owner] # "release"
    <3>1. /\ pc[r] = "release"
          /\ pc' = [pc EXCEPT ![r] = IF err[r] = "none" THEN "serve" ELSE "clear"]
          /\ \/ lock' = lock
             \/ /\ lock' = [lock EXCEPT ![cookie[r].tkt] = NoLock]
                /\ lock[cookie[r].tkt].owner = r
      BY <2>4 DEF Release, Goto
    <3>2. lock[t].owner = r
      BY <3>1, <2>1
    <3> QED
      BY <3>1, <3>2, <2>1
  <2> QED
    BY <2>2, <2>3, <2>4, LeaseSteps
<1> QED
  BY <1>1, LeaseInvariant, PTL DEF Spec, LockKeptByOwner

\* The Redis lock implements the lease: a step of a request is a step of
\* SessionLease, or changes nothing there.
THEOREM LockImplementsLease == Spec => ImplementsLease
<1> DEFINE bar == [r \in Requests |->
                     IF pc[r] \in UnderLock THEN [on |-> cookie[r].tkt, until |-> until[r]]
                     ELSE [on |-> 0, until |-> 0]]
<1>1. Init => Lease!LeaseInit
  BY DEF Init, Lease!LeaseInit, Lease!NoLease, UnderLock
<1>2. LeaseInv /\ [Next]_vars => [Lease!LeaseNext]_(Lease!leaseVars)
  <2> SUFFICES ASSUME LeaseInv, [Next]_vars
               PROVE  Lease!LeaseNext \/ UNCHANGED <<now, bar>>
    BY DEF Lease!leaseVars
  <2>1. CASE Quiet
    <3>1. bar' = bar
      BY <2>1 DEF Quiet
    <3> QED
      BY <2>1, <3>1 DEF Quiet
  <2>2. CASE Tick
    <3>1. now' = now + 1 /\ bar' = bar
      BY <2>2 DEF Tick, reqVars
    <3> QED
      BY <3>1 DEF Lease!LeaseNext, Lease!Pass
  <2>3. ASSUME NEW r \in Requests, Release(r) PROVE Lease!LeaseNext
    <3>1. /\ pc[r] = "release" /\ UNCHANGED <<now, cookie, until>>
          /\ pc' = [pc EXCEPT ![r] = IF err[r] = "none" THEN "serve" ELSE "clear"]
          /\ pc \in [Requests -> Stages]
          /\ cookie[r].tkt \in Tickets
      BY <2>3 DEF Release, Goto, LeaseInv, TypeOK, CanLock, UnderLock
    <3>2. bar[r].on # 0
      BY <3>1 DEF UnderLock, Tickets
    <3>3. bar' = [bar EXCEPT ![r] = [on |-> 0, until |-> 0]]
      BY <3>1 DEF UnderLock
    <3> QED
      BY <3>1, <3>2, <3>3 DEF Lease!LeaseNext, Lease!Give, Lease!NoLease
  <2>4. ASSUME NEW r \in Requests, Obtain(r)
        PROVE  Lease!LeaseNext \/ UNCHANGED <<now, bar>>
    <3>1. /\ pc[r] = "obtain" /\ cookie[r].tkt \in Tickets
          /\ LockFree(cookie[r].tkt)
          /\ UNCHANGED <<now, cookie>>
          /\ pc \in [Requests -> Stages] /\ until \in [Requests -> Nat]
          /\ \/ /\ until' = [until EXCEPT ![r] = now + LockDuration]
                /\ pc' = [pc EXCEPT ![r] = "reload"]
             \/ /\ until' = until
                /\ pc' = [pc EXCEPT ![r] = "clear"]
      BY <2>4 DEF Obtain, Goto, LeaseInv, TypeOK, CanLock
    <3>2. bar[r] = [on |-> 0, until |-> 0]
      BY <3>1 DEF UnderLock
    <3>3. ASSUME NEW q \in Requests PROVE ~(bar[q].on = cookie[r].tkt /\ now < bar[q].until)
      <4>1. CASE pc[q] \notin UnderLock
        BY <4>1, <3>1 DEF Tickets
      <4>2. CASE pc[q] \in UnderLock
        <5> SUFFICES ASSUME cookie[q].tkt = cookie[r].tkt, now < until[q] PROVE FALSE
          BY <4>2
        <5>1. lock[cookie[r].tkt] = [owner |-> q, until |-> until[q]]
          BY <4>2 DEF LeaseInv, LeaseBacked
        <5>2. q # NoRequest /\ now \in Nat /\ until[q] \in Nat
          BY Constants DEF LeaseInv, TypeOK
        <5> QED
          BY <5>1, <5>2, <3>1 DEF LockFree
      <4> QED
        BY <4>1, <4>2
    <3>4. CASE until' = until /\ pc' = [pc EXCEPT ![r] = "clear"]
      BY <3>1, <3>4 DEF UnderLock
    <3>5. CASE /\ until' = [until EXCEPT ![r] = now + LockDuration]
               /\ pc' = [pc EXCEPT ![r] = "reload"]
      <4>1. bar' = [bar EXCEPT ![r] =
                      [on |-> cookie[r].tkt, until |-> now + LockDuration]]
        BY <3>1, <3>5 DEF UnderLock
      <4>2. PICK k \in Tickets : k = cookie[r].tkt
        BY <3>1
      <4>3. Lease!Take(r, k)
        BY <3>1, <3>2, <3>3, <4>1, <4>2 DEF Lease!Take, Lease!Holds, Lease!NoLease
      <4> QED
        BY <4>3 DEF Lease!LeaseNext
    <3> QED
      BY <3>1, <3>4, <3>5
  <2> HIDE DEF bar
  <2> QED
    BY <2>1, <2>2, <2>3, <2>4, LeaseSteps
<1> QED
  BY <1>1, <1>2, LeaseInvariant, PTL DEF Spec, ImplementsLease, Lease!LeaseSpec

-----------------------------------------------------------------------------
(***************************************************************************)
(* Deleted sessions.  A grant that is gone is neither in the store nor in   *)
(* the hands of a request that is about to write; grants not yet given out  *)
(* are not among them.                                                      *)
(***************************************************************************)
Writing == Refreshing \cup {"login"}

GrantsIssued ==
  /\ dead \subseteq 1..grants
  /\ \A t \in Tickets : store[t].sess.grant <= grants
  /\ \A r \in Requests : pc[r] \in Writing => sess[r].grant <= grants

GoneInv == TypeOK /\ GrantsIssued /\ ClearedStaysCleared /\ WritersHoldLiveSessions

\* Steps that neither touch the store nor make a request a writer.
Aside ==
  /\ UNCHANGED <<store, dead, grants>>
  /\ \A q \in Requests :
       pc'[q] \in Writing => pc[q] \in Writing /\ sess'[q].grant = sess[q].grant

\* The steps that neither delete a session nor pick one up to write it back.
LEMMA AsideSteps ==
  ASSUME TypeOK, NEW r \in Requests,
         \/ LoadSession(r) \/ ObtainTimedOut(r) \/ Obtain(r) \/ ObtainFails(r)
         \/ RedeemRefreshToken(r) \/ RefreshSession(r) \/ ValidateSession(r)
         \/ Release(r) \/ Serve(r) \/ Respond(r) \/ Disconnect(r)
  PROVE  Aside
<1> USE DEF TypeOK, Aside, Goto, Writing, Refreshing
<1>1. CASE LoadSession(r)
  BY <1>1 DEF LoadSession
<1>2. CASE ObtainTimedOut(r) \/ Obtain(r) \/ ObtainFails(r)
  BY <1>2 DEF ObtainTimedOut, Obtain, ObtainFails
<1>3. CASE RedeemRefreshToken(r)
  BY <1>3 DEF RedeemRefreshToken
<1>4. CASE RefreshSession(r)
  <2>1. /\ UNCHANGED <<store, dead, grants>>
        /\ pc[r] = "redeemed"
        /\ \E stage : pc' = [pc EXCEPT ![r] = stage]
    BY <1>4 DEF RefreshSession
  <2>2. \A q \in Requests : sess'[q].grant = sess[q].grant
    <3> SUFFICES ASSUME NEW q \in Requests PROVE sess'[q].grant = sess[q].grant
      OBVIOUS
    <3>1. /\ [sess[r] EXCEPT !.created = now].grant = sess[r].grant
          /\ [sess[r] EXCEPT !.rt = ans[r].rt, !.created = now, !.expires = TokenExpiry,
                             !.refreshed = TRUE].grant = sess[r].grant
      <4>1. sess[r] \in SessionState
        OBVIOUS
      <4> QED
        BY <4>1 DEF SessionState
    <3>2. \/ sess' = sess
          \/ sess' = [sess EXCEPT ![r] = [sess[r] EXCEPT !.created = now]]
          \/ sess' = [sess EXCEPT ![r] = [sess[r] EXCEPT !.rt = ans[r].rt, !.created = now,
                                            !.expires = TokenExpiry, !.refreshed = TRUE]]
      BY <1>4 DEF RefreshSession
    <3>3. q # r => sess'[q] = sess[q]
      BY <3>2
    <3>4. sess'[r].grant = sess[r].grant
      BY <3>1, <3>2
    <3> QED
      BY <3>3, <3>4
  <2> QED
    BY <2>1, <2>2
<1>5. CASE ValidateSession(r)
  BY <1>5 DEF ValidateSession
<1>6. CASE Release(r)
  BY <1>6 DEF Release
<1>7. CASE Serve(r)
  BY <1>7 DEF Serve, WithSession, WithoutSession
<1>8. CASE Respond(r)
  BY <1>8 DEF Respond
<1>9. CASE Disconnect(r)
  BY <1>9 DEF Disconnect
<1> QED
  BY <1>1, <1>2, <1>3, <1>4, <1>5, <1>6, <1>7, <1>8, <1>9

\* A DEL adds to the dead only grants that nobody holds.
LEMMA ClearKeepsGone ==
  ASSUME GoneInv, TypeOK', NEW r \in Requests, Clear(r), UNCHANGED grants,
         \A q \in Requests :
           pc'[q] \in Writing => pc[q] \in Writing /\ sess'[q] = sess[q]
  PROVE  GoneInv'
<1> DEFINE t == cookie[r].tkt
<1> USE DEF GoneInv, GrantsIssued, ClearedStaysCleared, WritersHoldLiveSessions
<1>1. CASE UNCHANGED <<store, dead>>
  BY <1>1 DEF Writing
<1>2. CASE /\ t \in Tickets
           /\ store' = [store EXCEPT ![t] = NoEntry]
           /\ dead' = dead \cup LastCopies(t)
  <2>1. /\ store \in [Tickets -> Entry] /\ grants \in Nat /\ dead \subseteq Grants
        /\ store[t] \in Entry /\ store[t].sess \in SessionState
    BY <1>2, Constants DEF TypeOK, Entry
  <2>2. \A g \in LastCopies(t) :
          /\ g \in 1..grants
          /\ \A u \in Tickets \ {t} : store[u].sess.grant # g
          /\ \A q \in Requests : pc[q] \in Writing => sess[q].grant # g
    BY <1>2, <2>1 DEF LastCopies, Writing, Grants
  <2>3. 0 \notin dead'
    BY <1>2, <2>1, <2>2 DEF Grants
  <2>4. store'[t].sess.grant = 0
    BY <1>2, <2>1 DEF NoEntry, NoSession
  <2>5. \A u \in Tickets \ {t} : store'[u] = store[u]
    BY <1>2, <2>1
  <2>6. GrantsIssued'
    <3>1. dead' \subseteq 1..grants'
      BY <1>2, <2>2
    <3>2. \A u \in Tickets : store'[u].sess.grant <= grants'
      BY <2>1, <2>4, <2>5
    <3> QED
      BY <3>1, <3>2
  <2>7. ClearedStaysCleared'
    BY <1>2, <2>2, <2>3, <2>4, <2>5
  <2>8. WritersHoldLiveSessions'
    BY <1>2, <2>2 DEF Writing
  <2> QED
    BY <2>6, <2>7, <2>8
<1>3. Validate(cookie[r]) => t \in Tickets
  BY Constants DEF TypeOK, Validate, Cookie, Tickets
<1> QED
  BY <1>1, <1>2, <1>3 DEF Clear

\* A writer writes a session that is not gone.
LEMMA SaveKeepsGone ==
  ASSUME GoneInv, TypeOK', NEW r \in Requests, pc[r] \in Writing, Save(r),
         UNCHANGED <<grants, dead, sess>>,
         \A q \in Requests : pc'[q] \in Writing => pc[q] \in Writing
  PROVE  GoneInv'
<1> USE DEF GoneInv, GrantsIssued, ClearedStaysCleared, WritersHoldLiveSessions
<1> DEFINE u == IF Validate(cookie[r]) THEN cookie[r].tkt ELSE issued + 1
           x == IF CookieExpire = 0 THEN 0 ELSE now + CookieExpire
           e == [sess |-> EncodeSessionState(sess[r]), exp |-> x]
<1>1. /\ store' = store \/ store' = [store EXCEPT ![u] = e]
      /\ e.sess = EncodeSessionState(sess[r])
  BY DEF Save
<1>2. e.sess.grant = sess[r].grant
  BY <1>1 DEF EncodeSessionState, TypeOK, SessionState
<1> HIDE DEF e, u, x
<1>3. \A t \in Tickets : store'[t].sess.grant \in {store[t].sess.grant, sess[r].grant}
  BY <1>1, <1>2 DEF TypeOK
<1>4. GrantsIssued'
  BY <1>3
<1>5. ClearedStaysCleared'
  BY <1>3 DEF Writing
<1>6. WritersHoldLiveSessions'
  BY DEF Writing
<1> QED
  BY <1>4, <1>5, <1>6

\* Every step keeps deleted grants out of Redis and out of the hands of writers.
LEMMA GoneInductive ==
  ASSUME GoneInv, [Next]_vars, TypeOK'
  PROVE  GoneInv'
<1> USE DEF GoneInv, GrantsIssued, ClearedStaysCleared, WritersHoldLiveSessions
<1>1. CASE Aside
  BY <1>1 DEF Aside, Writing
<1>2. ASSUME NEW r \in Requests, Arrive(r) PROVE GoneInv'
  <2>1. /\ UNCHANGED <<store, dead>>
        /\ grants \in Nat /\ grants' \in Nat
        /\ pc \in [Requests -> Stages] /\ sess \in [Requests -> SessionState]
        /\ store \in [Tickets -> Entry]
    BY <1>2, Constants DEF Arrive, TypeOK
  <2>2. \/ /\ UNCHANGED <<grants, sess>>
           /\ pc' = [pc EXCEPT ![r] = "load"]
        \/ /\ grants' = grants + 1
           /\ \E s : sess' = [sess EXCEPT ![r] = s] /\ s.grant = grants + 1
           /\ pc' = [pc EXCEPT ![r] = "login"]
    <3>1. PICK k \in Handlers :
            /\ pc' = [pc EXCEPT ![r] = IF k = "callback" THEN "login" ELSE "load"]
            /\ IF k = "callback"
               THEN \E rt \in {0, 1} :
                      /\ grants' = grants + 1
                      /\ sess' = [sess EXCEPT ![r] =
                           [grant |-> grants + 1, rt |-> rt, created |-> now,
                            expires |-> TokenExpiry, refreshed |-> FALSE]]
               ELSE UNCHANGED <<grants, sess>>
      BY <1>2 DEF Arrive, Goto
    <3>2. CASE k # "callback"
      BY <3>1, <3>2
    <3>3. CASE k = "callback"
      <4>1. PICK rt \in {0, 1} :
              /\ grants' = grants + 1
              /\ sess' = [sess EXCEPT ![r] =
                   [grant |-> grants + 1, rt |-> rt, created |-> now,
                    expires |-> TokenExpiry, refreshed |-> FALSE]]
        BY <3>1, <3>3
      <4> DEFINE s == [grant |-> grants + 1, rt |-> rt, created |-> now,
                       expires |-> TokenExpiry, refreshed |-> FALSE]
      <4>2. s.grant = grants + 1 /\ sess' = [sess EXCEPT ![r] = s]
        BY <4>1
      <4>3. pc' = [pc EXCEPT ![r] = "login"]
        BY <3>1, <3>3
      <4> HIDE DEF s
      <4> QED
        BY <4>1, <4>2, <4>3
    <3> QED
      BY <3>2, <3>3
  <2>3. \A t \in Tickets : store[t].sess.grant \in Nat
    BY <2>1 DEF Entry, SessionState
  <2>4. \A q \in Requests : sess[q].grant \in Nat
    BY <2>1 DEF SessionState
  <2>5. CASE UNCHANGED <<grants, sess>> /\ pc' = [pc EXCEPT ![r] = "load"]
    BY <2>1, <2>5 DEF Writing, Refreshing
  <2>6. CASE /\ grants' = grants + 1
             /\ \E s : sess' = [sess EXCEPT ![r] = s] /\ s.grant = grants + 1
             /\ pc' = [pc EXCEPT ![r] = "login"]
    <3>1. \A q \in Requests : \/ sess'[q] = sess[q] /\ pc'[q] = pc[q]
                              \/ sess'[q].grant = grants + 1
      BY <2>1, <2>6
    <3>2. grants + 1 \notin dead
      BY <2>1
    <3>3. dead' \subseteq 1..grants'
      BY <2>1, <2>6
    <3>4. \A t \in Tickets : store'[t].sess.grant <= grants'
      BY <2>1, <2>3, <2>6
    <3>5. \A q \in Requests : pc'[q] \in Writing => sess'[q].grant <= grants'
      BY <2>1, <2>4, <2>6, <3>1
    <3>6. WritersHoldLiveSessions'
      BY <2>1, <3>1, <3>2 DEF Writing
    <3>7. ClearedStaysCleared'
      BY <2>1
    <3> QED
      BY <3>3, <3>4, <3>5, <3>6, <3>7
  <2> QED
    BY <2>2, <2>5, <2>6
<1>3. ASSUME NEW r \in Requests, Reload(r) PROVE GoneInv'
  <2>1. PICK o : \/ UNCHANGED sess /\ pc' = [pc EXCEPT ![r] = "release"]
                 \/ /\ Load(r, o) # NoSession
                    /\ sess' = [sess EXCEPT ![r] = Load(r, o)]
                    /\ \E stage : pc' = [pc EXCEPT ![r] = stage]
    BY <1>3 DEF Reload, Goto
  <2>2. /\ UNCHANGED <<store, dead, grants>>
        /\ pc \in [Requests -> Stages] /\ sess \in [Requests -> SessionState]
    BY <1>3 DEF Reload, TypeOK
  <2>3. CASE UNCHANGED sess /\ pc' = [pc EXCEPT ![r] = "release"]
    BY <2>2, <2>3 DEF Writing, Refreshing
  <2>4. CASE /\ Load(r, o) # NoSession
             /\ sess' = [sess EXCEPT ![r] = Load(r, o)]
             /\ \E stage : pc' = [pc EXCEPT ![r] = stage]
    <3>1. cookie[r].tkt \in Tickets /\ Load(r, o) = store[cookie[r].tkt].sess
      BY <2>4, LoadedByTicket DEF Load, Get
    <3>2. Load(r, o).grant <= grants /\ Load(r, o).grant \notin dead
      BY <3>1
    <3>3. \A q \in Requests : \/ sess'[q] = sess[q] /\ pc'[q] = pc[q]
                              \/ sess'[q] = Load(r, o)
      BY <2>2, <2>4
    <3> QED
      BY <2>2, <3>2, <3>3 DEF Writing
  <2> QED
    BY <2>1, <2>3, <2>4
<1>4. ASSUME NEW r \in Requests, SaveRefreshed(r) \/ SaveLogin(r) PROVE GoneInv'
  <2>1. /\ pc[r] \in Writing /\ Save(r) /\ UNCHANGED <<grants, dead, sess>>
        /\ \A q \in Requests : pc'[q] \in Writing => pc[q] \in Writing
    BY <1>4 DEF SaveRefreshed, SaveLogin, Goto, Writing, Refreshing, TypeOK
  <2> QED
    BY <2>1, SaveKeepsGone
<1>5. ASSUME NEW r \in Requests,
             ClearFatal(r) \/ ClearOnError(r) \/ Denied(r) \/ ClearSessionCookie(r)
      PROVE  GoneInv'
  <2>1. /\ Clear(r) /\ UNCHANGED grants
        /\ \A q \in Requests :
             pc'[q] \in Writing => pc[q] \in Writing /\ sess'[q] = sess[q]
    BY <1>5 DEF ClearFatal, ClearOnError, Denied, ClearSessionCookie, Goto,
                Writing, Refreshing, TypeOK
  <2> QED
    BY <2>1, ClearKeepsGone
<1>6. ((\E g \in Revocable : Revoke(g)) \/ Tick \/ UNCHANGED vars) => Aside
  BY DEF Revoke, Tick, vars, reqVars, Aside
<1> HIDE DEF GoneInv, GrantsIssued, ClearedStaysCleared, WritersHoldLiveSessions
<1>7. TypeOK
  BY DEF GoneInv
<1> QED
  BY <1>1, <1>2, <1>3, <1>4, <1>5, <1>6, <1>7, AsideSteps DEF Next, Step, Finished

\* GoneInv holds of every reachable state.
LEMMA GoneInvariant == Spec => []GoneInv
<1>1. Init /\ TypeOK => GoneInv
  <2> SUFFICES ASSUME Init, TypeOK PROVE GoneInv
    OBVIOUS
  <2>1. \A t \in Tickets : store[t].sess.grant \in {0, 1}
    BY DEF Init, FirstSession, NoEntry, NoSession
  <2> QED
    BY <2>1 DEF Init, GoneInv, GrantsIssued, ClearedStaysCleared,
                WritersHoldLiveSessions, Writing, Refreshing
<1>2. GoneInv /\ TypeOK' /\ [Next]_vars => GoneInv'
  BY GoneInductive
<1> QED
  BY <1>1, <1>2, TypeCorrect, PTL DEF Spec

\* A session deleted while nobody was refreshing it is never written back.
THEOREM DeletedSessionsStayDeleted == Spec => []ClearedStaysCleared
<1>1. GoneInv => ClearedStaysCleared
  BY DEF GoneInv
<1> QED
  BY <1>1, GoneInvariant, PTL

\* Nobody is about to write a session that is gone.
THEOREM WritersHold == Spec => []WritersHoldLiveSessions
<1>1. GoneInv => WritersHoldLiveSessions
  BY DEF GoneInv
<1> QED
  BY <1>1, GoneInvariant, PTL

-----------------------------------------------------------------------------
(***************************************************************************)
(* What a step does to the sessions that requests are about to write: it    *)
(* leaves them alone, or it is one of a few that make, pick up, renew,      *)
(* write or delete one.                                                     *)
(***************************************************************************)
Same(q) ==
  pc'[q] = pc[q] /\ sess'[q] = sess[q] /\ ans'[q] = ans[q] /\ cookie'[q] = cookie[q]

Others(r) == \A q \in Requests \ {r} : Same(q)

\* A request does not become a writer, and one that has a new token stays one.
WritersSame ==
  \A q \in Requests :
    /\ pc'[q] \in Writing => Same(q)
    /\ pc[q] = "save" => Same(q)
    /\ pc[q] = "redeemed" /\ ans[q].res = "ok" => Same(q)

Still == WritersSame /\ UNCHANGED <<store, idp, grants>>

LoginArrives(r) ==
  /\ pc[r] = "idle" /\ pc'[r] = "login" /\ Others(r)
  /\ grants + 1 \in Grants /\ grants' = grants + 1
  /\ sess'[r].grant = grants + 1 /\ sess'[r].created = now /\ sess'[r].rt \in {0, 1}
  /\ idp' = [idp EXCEPT ![grants + 1] = sess'[r].rt]
  /\ UNCHANGED <<now, store>>

PicksUp(r) ==
  /\ pc[r] = "reload" /\ pc'[r] = "redeem" /\ Others(r)
  /\ cookie[r].tkt \in Tickets
  /\ sess'[r] = store[cookie[r].tkt].sess /\ sess'[r] # NoSession
  /\ UNCHANGED <<now, store, idp, grants, cookie>>

Renews(r) ==
  /\ pc[r] = "redeemed" /\ pc'[r] = "save" /\ Others(r)
  /\ ans[r].res \in {"ok", "notImplemented"}
  /\ sess'[r].grant = sess[r].grant /\ sess'[r].created = now
  /\ sess'[r].rt = IF ans[r].res = "ok" THEN ans[r].rt ELSE sess[r].rt
  /\ UNCHANGED <<now, store, idp, grants, cookie>>

Writes(r) ==
  /\ pc[r] \in {"save", "login"} /\ pc'[r] \notin Writing /\ Others(r)
  /\ Save(r)
  /\ UNCHANGED <<now, idp, grants, sess, cookie>>

Deletes ==
  /\ WritersSame
  /\ \A t \in Tickets : store'[t] \in {store[t], NoEntry}
  /\ UNCHANGED <<now, idp, grants>>

\* A request logs in, or arrives with a cookie.
LEMMA ArriveForm ==
  ASSUME TypeOK, NEW r \in Requests, Arrive(r)
  PROVE  Still \/ LoginArrives(r)
<1>1. PICK k \in Handlers :
        /\ pc' = [pc EXCEPT ![r] = IF k = "callback" THEN "login" ELSE "load"]
        /\ IF k = "callback"
           THEN \E rt \in {0, 1} :
                  /\ grants < MaxGrants
                  /\ grants' = grants + 1
                  /\ idp' = [idp EXCEPT ![grants + 1] = rt]
                  /\ sess' = [sess EXCEPT ![r] =
                       [grant |-> grants + 1, rt |-> rt, created |-> now,
                        expires |-> TokenExpiry, refreshed |-> FALSE]]
           ELSE UNCHANGED <<grants, idp, sess>>
  BY DEF Arrive, Goto
<1>2. /\ pc[r] = "idle" /\ UNCHANGED <<now, store, ans>>
      /\ \E c : cookie' = [cookie EXCEPT ![r] = c]
  BY DEF Arrive
<1>3. /\ pc \in [Requests -> Stages] /\ sess \in [Requests -> SessionState]
      /\ cookie \in [Requests -> Cookie] /\ ans \in [Requests -> Answers]
      /\ grants \in 0..MaxGrants /\ MaxGrants \in Nat
  BY Constants DEF TypeOK
<1>4. CASE k # "callback"
  BY <1>1, <1>2, <1>3, <1>4 DEF Still, WritersSame, Same, Writing, Refreshing
<1>5. CASE k = "callback"
  <2>1. PICK rt \in {0, 1} :
          /\ grants < MaxGrants
          /\ grants' = grants + 1
          /\ idp' = [idp EXCEPT ![grants + 1] = rt]
          /\ sess' = [sess EXCEPT ![r] =
               [grant |-> grants + 1, rt |-> rt, created |-> now,
                expires |-> TokenExpiry, refreshed |-> FALSE]]
    BY <1>1, <1>5
  <2>2. /\ sess'[r].grant = grants + 1 /\ sess'[r].created = now /\ sess'[r].rt = rt
    BY <2>1, <1>3
  <2>3. grants + 1 \in Grants
    BY <2>1, <1>3 DEF Grants
  <2>4. Others(r)
    BY <2>1, <1>1, <1>2, <1>3 DEF Others, Same
  <2>5. pc'[r] = "login"
    BY <1>1, <1>3, <1>5
  <2> QED
    BY <2>1, <2>2, <2>3, <2>4, <2>5, <1>2 DEF LoginArrives
<1> QED
  BY <1>4, <1>5

\* Under the lock the stored session is picked up, if there is one to refresh.
LEMMA ReloadForm ==
  ASSUME TypeOK, NEW r \in Requests, Reload(r)
  PROVE  Still \/ PicksUp(r)
<1>1. PICK o : \/ UNCHANGED sess /\ pc' = [pc EXCEPT ![r] = "release"]
               \/ /\ Load(r, o) # NoSession
                  /\ sess' = [sess EXCEPT ![r] = Load(r, o)]
                  /\ pc' = [pc EXCEPT ![r] = "release"] \/ pc' = [pc EXCEPT ![r] = "redeem"]
  BY DEF Reload, Goto
<1>2. pc[r] = "reload" /\ UNCHANGED <<now, store, idp, grants, cookie, ans>>
  BY DEF Reload
<1>3. pc \in [Requests -> Stages] /\ sess \in [Requests -> SessionState]
  BY DEF TypeOK
<1>4. CASE pc' = [pc EXCEPT ![r] = "release"]
  BY <1>1, <1>2, <1>3, <1>4 DEF Still, WritersSame, Same, Writing, Refreshing
<1>5. CASE /\ Load(r, o) # NoSession
           /\ sess' = [sess EXCEPT ![r] = Load(r, o)]
           /\ pc' = [pc EXCEPT ![r] = "redeem"]
  <2>1. cookie[r].tkt \in Tickets /\ Load(r, o) = store[cookie[r].tkt].sess
    BY <1>5, LoadedByTicket DEF Load, Get
  <2>2. Others(r)
    BY <1>2, <1>3, <1>5 DEF Others, Same
  <2> QED
    BY <1>2, <1>3, <1>5, <2>1, <2>2 DEF PicksUp
<1> QED
  BY <1>1, <1>4, <1>5

\* The provider's answer renews the session, or the request goes on without.
LEMMA RefreshForm ==
  ASSUME TypeOK, NEW r \in Requests, RefreshSession(r)
  PROVE  Still \/ Renews(r)
<1>1. pc[r] = "redeemed" /\ UNCHANGED <<now, store, idp, grants, cookie>>
      /\ ans' = [ans EXCEPT ![r] = NoAnswer]
  BY DEF RefreshSession
<1>2. /\ pc \in [Requests -> Stages] /\ sess \in [Requests -> SessionState]
      /\ ans \in [Requests -> Answers] /\ sess[r] \in SessionState
  BY DEF TypeOK
<1>3. CASE ans[r].res \notin {"ok", "notImplemented"}
  <2>1. sess' = sess /\ (pc' = [pc EXCEPT ![r] = "clearFatal"] \/ pc' = [pc EXCEPT ![r] = "validate"])
    BY <1>3 DEF RefreshSession, Goto
  <2> QED
    BY <1>1, <1>2, <1>3, <2>1 DEF Still, WritersSame, Same, Writing, Refreshing
<1>4. CASE ans[r].res \in {"ok", "notImplemented"}
  <2>1. pc' = [pc EXCEPT ![r] = "save"]
    BY <1>4 DEF RefreshSession, Goto
  <2> DEFINE s == IF ans[r].res = "ok"
                  THEN [sess[r] EXCEPT !.rt = ans[r].rt, !.created = now,
                                       !.expires = TokenExpiry, !.refreshed = TRUE]
                  ELSE [sess[r] EXCEPT !.created = now]
  <2>2. sess' = [sess EXCEPT ![r] = s]
    BY <1>4 DEF RefreshSession
  <2>3. /\ s.grant = sess[r].grant /\ s.created = now
        /\ s.rt = IF ans[r].res = "ok" THEN ans[r].rt ELSE sess[r].rt
    BY <1>2 DEF SessionState
  <2> HIDE DEF s
  <2>4. Others(r)
    BY <1>1, <1>2, <2>1, <2>2 DEF Others, Same
  <2>5. sess'[r] = s /\ pc'[r] = "save"
    BY <1>2, <2>1, <2>2
  <2> QED
    BY <1>1, <1>4, <2>3, <2>4, <2>5 DEF Renews
<1> QED
  BY <1>3, <1>4

LEMMA WriteForm ==
  ASSUME TypeOK, NEW r \in Requests, SaveRefreshed(r) \/ SaveLogin(r)
  PROVE  Writes(r)
BY DEF TypeOK, SaveRefreshed, SaveLogin, Goto, Writes, Others, Same, Writing, Refreshing

LEMMA DeleteForm ==
  ASSUME TypeOK, NEW r \in Requests,
         ClearFatal(r) \/ ClearOnError(r) \/ Denied(r) \/ ClearSessionCookie(r)
  PROVE  Deletes
<1>1. Clear(r) /\ UNCHANGED <<now, idp, grants>> /\ WritersSame
  BY DEF TypeOK, ClearFatal, ClearOnError, Denied, ClearSessionCookie, Goto,
         WritersSame, Same, Writing, Refreshing
<1>2. \A t \in Tickets : store'[t] \in {store[t], NoEntry}
  BY <1>1 DEF Clear, TypeOK
<1> QED
  BY <1>1, <1>2 DEF Deletes

\* The steps that have to do with the lock, the clock and the response only.
LEMMA StillForm ==
  ASSUME TypeOK, NEW r \in Requests,
         \/ LoadSession(r) \/ ObtainTimedOut(r) \/ Obtain(r) \/ ObtainFails(r)
         \/ ValidateSession(r) \/ Release(r) \/ Serve(r) \/ Respond(r) \/ Disconnect(r)
  PROVE  Still
<1> USE DEF TypeOK, Still, WritersSame, Same, Goto, Writing, Refreshing
<1>1. CASE LoadSession(r)
  BY <1>1 DEF LoadSession
<1>2. CASE ObtainTimedOut(r) \/ Obtain(r) \/ ObtainFails(r)
  BY <1>2 DEF ObtainTimedOut, Obtain, ObtainFails
<1>3. CASE ValidateSession(r) \/ Release(r) \/ Disconnect(r)
  BY <1>3 DEF ValidateSession, Release, Disconnect
<1>4. CASE Serve(r)
  BY <1>4 DEF Serve, WithSession, WithoutSession
<1>5. CASE Respond(r)
  BY <1>5 DEF Respond
<1> QED
  BY <1>1, <1>2, <1>3, <1>4, <1>5

\* Time does not go back.
LEMMA TimeForward == TypeOK /\ [Next]_vars => now <= now'
<1> SUFFICES ASSUME TypeOK, [Next]_vars PROVE now <= now'
  OBVIOUS
<1>1. now \in Nat
  BY DEF TypeOK
<1>2. CASE Tick
  BY <1>1, <1>2 DEF Tick
<1>3. ASSUME NEW r \in Requests, Arrive(r) \/ Step(r) \/ Disconnect(r) PROVE now' = now
  BY <1>3 DEF Step, Arrive, LoadSession, ObtainTimedOut, Obtain, ObtainFails, Reload,
              RedeemRefreshToken, RefreshSession, SaveRefreshed, ClearFatal,
              ValidateSession, Release, ClearOnError, Serve, Denied,
              ClearSessionCookie, SaveLogin, Respond, Disconnect
<1>4. CASE (\E g \in Revocable : Revoke(g)) \/ UNCHANGED vars
  BY <1>1, <1>4 DEF Revoke, vars
<1> QED
  BY <1>1, <1>2, <1>3, <1>4 DEF Next, Finished

LEMMA StepForms ==
  ASSUME TypeOK, [Next]_vars
  PROVE  \/ Still \/ Deletes
         \/ \E r \in Requests : \/ LoginArrives(r) \/ PicksUp(r) \/ RedeemRefreshToken(r)
                                \/ Renews(r) \/ Writes(r)
         \/ \E g \in Revocable : Revoke(g)
<1>1. CASE Tick \/ UNCHANGED vars
  BY <1>1 DEF Tick, vars, reqVars, Still, WritersSame, Same, Writing
<1> QED
  BY <1>1, ArriveForm, ReloadForm, RefreshForm, WriteForm, DeleteForm, StillForm
  DEF Next, Step, Finished

\* Save writes what the request holds, under its own ticket or a new one.
WrittenTo(r, u) ==
  /\ u \in Tickets
  /\ u = IF Validate(cookie[r]) THEN cookie[r].tkt ELSE issued + 1
  /\ \A t \in Tickets \ {u} : store'[t] = store[t]
  /\ \/ "fail" \in Outcomes(r) /\ store'[u] = store[u]
     \/ /\ store'[u].sess.grant = sess[r].grant /\ store'[u].sess.rt = sess[r].rt
        /\ store'[u].sess.created = sess[r].created

LEMMA SaveForm ==
  ASSUME TypeOK, NEW r \in Requests, Save(r)
  PROVE  /\ \E u \in Tickets : WrittenTo(r, u)
         /\ issued' = IF Validate(cookie[r]) THEN issued ELSE issued + 1
         /\ \A q \in Requests : resp'[q].ck.tkt <= issued'
              \/ resp'[q] = resp[q] \/ resp'[q].ck.tkt = cookie[r].tkt
<1> DEFINE reuse == Validate(cookie[r])
           tkt   == IF reuse THEN cookie[r].tkt ELSE issued + 1
           exp   == IF CookieExpire = 0 THEN 0 ELSE now + CookieExpire
           ent   == [sess |-> EncodeSessionState(sess[r]), exp |-> exp]
           ck    == [tkt |-> tkt, ts |-> sess[r].created]
<1>1. PICK o \in Outcomes(r) :
        /\ tkt <= MaxTickets
        /\ issued' = IF reuse THEN issued ELSE issued + 1
        /\ store' = IF o = "fail" THEN store ELSE [store EXCEPT ![tkt] = ent]
        /\ resp' = IF o = "ok" THEN [resp EXCEPT ![r] = [op |-> "set", ck |-> ck]] ELSE resp
  BY DEF Save
<1>2. /\ cookie[r] \in Cookie /\ sess[r] \in SessionState /\ issued \in Nat
      /\ store \in [Tickets -> Entry] /\ resp \in [Requests -> Response]
  BY Constants DEF TypeOK
<1>3. tkt \in Tickets
  BY <1>1, <1>2, Constants DEF Tickets, Cookie, Validate
<1>4. /\ ent.sess.grant = sess[r].grant /\ ent.sess.rt = sess[r].rt
      /\ ent.sess.created = sess[r].created
  BY <1>2 DEF EncodeSessionState, SessionState
<1>5. [op |-> "set", ck |-> ck].ck.tkt = tkt
  OBVIOUS
<1>6. tkt = (IF reuse THEN cookie[r].tkt ELSE issued + 1)
  OBVIOUS
<1> HIDE DEF tkt, ent, ck
<1>7. ("fail" \in Outcomes(r) /\ store'[tkt] = store[tkt]) \/ store'[tkt] = ent
  BY <1>1, <1>2, <1>3
<1>8. \A t \in Tickets \ {tkt} : store'[t] = store[t]
  BY <1>1, <1>2
<1>9. WrittenTo(r, tkt)
  BY <1>3, <1>4, <1>6, <1>7, <1>8 DEF WrittenTo
<1>10. ASSUME NEW q \in Requests
       PROVE  resp'[q].ck.tkt <= issued' \/ resp'[q] = resp[q] \/ resp'[q].ck.tkt = cookie[r].tkt
  <2>1. resp'[q] = resp[q] \/ resp'[q].ck.tkt = tkt
    BY <1>1, <1>2, <1>5
  <2>2. ~reuse => tkt = issued' /\ issued' \in Nat
    BY <1>1, <1>2, <1>6
  <2>3. ~reuse => tkt <= issued'
    BY <2>2
  <2> QED
    BY <2>1, <2>3, <1>6
<1> QED
  BY <1>1, <1>3, <1>9, <1>10

-----------------------------------------------------------------------------
(***************************************************************************)
(* Sessions do not go back.  Only the timing assumption is needed: failures, *)
(* lost replies, disconnects and expiring cookies are all allowed.           *)
(***************************************************************************)
\* Under Prompt a request that is under the lock holds a lease that runs.
PromptHeld == \A r \in Requests : pc[r] \in UnderLock => now < until[r]

LEMMA PromptStep ==
  ASSUME Prompt, LeaseInv, PromptHeld, [Next]_vars
  PROVE  PromptHeld'
<1> USE DEF PromptHeld
<1>1. CASE Quiet
  BY <1>1 DEF Quiet
<1>2. CASE Tick
  BY <1>2 DEF Tick, reqVars
<1>3. ASSUME NEW r \in Requests, Obtain(r) PROVE PromptHeld'
  <2>1. /\ now \in Nat /\ LockDuration \in Nat \ {0}
        /\ pc \in [Requests -> Stages] /\ until \in [Requests -> Nat]
    BY Constants DEF LeaseInv, TypeOK
  <2>2. /\ now' = now
        /\ \/ /\ until' = [until EXCEPT ![r] = now + LockDuration]
              /\ pc' = [pc EXCEPT ![r] = "reload"]
           \/ /\ until' = until
              /\ pc' = [pc EXCEPT ![r] = "clear"]
    BY <1>3 DEF Obtain, Goto
  <2>3. now < now + LockDuration
    BY <2>1
  <2> QED
    BY <2>1, <2>2, <2>3 DEF UnderLock
<1>4. ASSUME NEW r \in Requests, Release(r) PROVE PromptHeld'
  BY <1>4 DEF Release, Goto, UnderLock, LeaseInv, TypeOK
<1> QED
  BY <1>1, <1>2, <1>3, <1>4, LeaseSteps

\* Requests that are under the lock of one ticket are one request.
LEMMA Alone ==
  ASSUME LeaseInv, PromptHeld, NEW r \in Requests, NEW q \in Requests,
         pc[r] \in UnderLock, pc[q] \in UnderLock, cookie[r].tkt = cookie[q].tkt
  PROVE  r = q
BY BackedExcludes DEF LeaseExclusion, PromptHeld

\* Nothing is stored under a ticket that has not been made, and nobody has one.
TicketsIssued ==
  /\ jar.tkt <= issued
  /\ \A r \in Requests : cookie[r].tkt <= issued /\ resp[r].ck.tkt <= issued
  /\ \A t \in Tickets : t > issued => store[t] = NoEntry

LEMMA TicketsStep ==
  ASSUME TypeOK, TicketsIssued, [Next]_vars
  PROVE  TicketsIssued'
<1> USE DEF TicketsIssued
<1>t. /\ cookie \in [Requests -> Cookie] /\ resp \in [Requests -> Response]
      /\ store \in [Tickets -> Entry] /\ issued \in Nat /\ 0 <= issued
      /\ jar \in Cookie
  BY Constants DEF TypeOK
<1>1. ASSUME NEW r \in Requests, SaveRefreshed(r) \/ SaveLogin(r) PROVE TicketsIssued'
  <2>1. Save(r) /\ UNCHANGED <<jar, cookie>>
    BY <1>1 DEF SaveRefreshed, SaveLogin
  <2>2. /\ issued' = IF Validate(cookie[r]) THEN issued ELSE issued + 1
        /\ \A q \in Requests : resp'[q].ck.tkt <= issued'
              \/ resp'[q] = resp[q] \/ resp'[q].ck.tkt = cookie[r].tkt
    BY <2>1, SaveForm
  <2>3. issued' \in Nat /\ issued <= issued'
    BY <2>2, <1>t
  <2>4. jar.tkt <= issued' /\ \A q \in Requests : cookie[q].tkt <= issued' /\ resp[q].ck.tkt <= issued'
    <3>1. /\ jar.tkt \in Nat
          /\ \A q \in Requests : cookie[q].tkt \in Nat /\ resp[q].ck.tkt \in Nat
      BY <1>t, Constants DEF Cookie, Response
    <3> QED
      BY <2>3, <3>1, <1>t
  <2>5. PICK u \in Tickets : WrittenTo(r, u)
    BY <2>1, SaveForm
  <2>6. u <= issued'
    BY <2>2, <2>4, <2>5, <1>t DEF WrittenTo
  <2>7. \A t \in Tickets : t > issued' => store'[t] = NoEntry
    <3> SUFFICES ASSUME NEW t \in Tickets, t > issued' PROVE store'[t] = NoEntry
      OBVIOUS
    <3>1. t # u /\ t > issued
      BY <2>3, <2>6, <1>t DEF Tickets
    <3> QED
      BY <2>5, <3>1 DEF WrittenTo
  <2> QED
    BY <2>1, <2>2, <2>4, <2>7
<1>2. ASSUME NEW r \in Requests,
             ClearFatal(r) \/ ClearOnError(r) \/ Denied(r) \/ ClearSessionCookie(r)
      PROVE  TicketsIssued'
  <2>1. Clear(r) /\ UNCHANGED <<jar, cookie, issued>>
    BY <1>2 DEF ClearFatal, ClearOnError, Denied, ClearSessionCookie
  <2>2. \A t \in Tickets : store'[t] \in {store[t], NoEntry}
    BY <1>2, DeleteForm DEF Deletes
  <2>3. resp' = [resp EXCEPT ![r] = ClearCookie] /\ ClearCookie.ck.tkt = 0
    BY <2>1 DEF Clear, ClearCookie, NoCookie
  <2>4. \A q \in Requests : resp'[q].ck.tkt <= issued
    BY <2>3, <1>t
  <2> QED
    BY <2>1, <2>2, <2>4
<1>3. ASSUME NEW r \in Requests, Arrive(r) PROVE TicketsIssued'
  BY <1>3, <1>t DEF Arrive
<1>4. ASSUME NEW r \in Requests, Respond(r) PROVE TicketsIssued'
  <2>1. /\ UNCHANGED <<issued, store>>
        /\ jar' = jar \/ jar' = resp[r].ck
        /\ cookie' = [cookie EXCEPT ![r] = NoCookie]
        /\ resp' = [resp EXCEPT ![r] = NoSetCookie]
    BY <1>4 DEF Respond
  <2>2. NoCookie.tkt = 0 /\ NoSetCookie.ck.tkt = 0
    BY DEF NoCookie, NoSetCookie
  <2>3. \A q \in Requests : cookie'[q].tkt <= issued /\ resp'[q].ck.tkt <= issued
    BY <2>1, <2>2, <1>t
  <2> QED
    BY <2>1, <2>3
<1>5. ASSUME NEW r \in Requests,
             \/ LoadSession(r) \/ ObtainTimedOut(r) \/ Obtain(r) \/ ObtainFails(r) \/ Reload(r)
             \/ RedeemRefreshToken(r) \/ RefreshSession(r) \/ ValidateSession(r)
             \/ Release(r) \/ Serve(r) \/ Disconnect(r)
      PROVE  UNCHANGED <<jar, cookie, resp, store, issued>>
  BY <1>5 DEF LoadSession, ObtainTimedOut, Obtain, ObtainFails, Reload,
              RedeemRefreshToken, RefreshSession, ValidateSession, Release, Serve, Disconnect
<1>6. CASE (\E g \in Revocable : Revoke(g)) \/ Tick \/ UNCHANGED vars
  BY <1>6 DEF Revoke, Tick, vars, reqVars
<1> QED
  BY <1>1, <1>2, <1>3, <1>4, <1>5, <1>6 DEF Next, Step, Finished

\* A session without a grant is no session, and none was created in the future.
WholeSessions ==
  /\ \A t \in Tickets :
       /\ store[t].sess.created <= now
       /\ store[t].sess.grant = 0 => store[t].sess = NoSession
  /\ \A r \in Requests :
       pc[r] \in Writing => sess[r].grant # 0 /\ sess[r].created <= now

\* The grant of a login that is about to be saved is nowhere else.
LoginsFresh ==
  \A r \in Requests : pc[r] = "login" =>
    /\ \A t \in Tickets : store[t].sess.grant # sess[r].grant
    /\ \A q \in Requests \ {r} : pc[q] \in Writing => sess[q].grant # sess[r].grant

\* A request that refreshes a session is not behind what is stored of it.
NotBehind ==
  \A r \in Requests :
    /\ pc[r] \in Refreshing /\ store[cookie[r].tkt].sess.grant = sess[r].grant =>
         /\ store[cookie[r].tkt].sess.rt <= sess[r].rt
         /\ store[cookie[r].tkt].sess.created <= sess[r].created
    /\ pc[r] = "redeemed" /\ ans[r].res = "ok" => sess[r].rt <= ans[r].rt

Ordered == WholeSessions /\ LoginsFresh /\ NotBehind

MonoInv == LeaseInv /\ GoneInv /\ PromptHeld /\ TicketsIssued /\ Ordered

\* What numbers the sessions are made of.
LEMMA SessionTypes ==
  ASSUME TypeOK
  PROVE  /\ now \in Nat
         /\ \A t \in Tickets : /\ store[t].sess.grant \in Nat /\ store[t].sess.rt \in Nat
                               /\ store[t].sess.created \in Nat
         /\ \A r \in Requests : /\ sess[r].grant \in Nat /\ sess[r].rt \in Nat
                                /\ sess[r].created \in Nat /\ ans[r].rt \in Nat
                                /\ cookie[r].tkt \in Nat
         /\ issued \in Nat /\ grants \in Nat
BY Constants DEF TypeOK, Entry, SessionState, Answers, Cookie

LEMMA EmptyEntry == NoEntry.sess = NoSession /\ NoSession.grant = 0 /\ NoSession.rt = 0
                    /\ NoSession.created = 0
BY DEF NoEntry, NoSession

\* A step that leaves the writers alone and takes entries away at most.
LEMMA OrderedStays ==
  ASSUME MonoInv, TypeOK', now <= now', WritersSame,
         \A t \in Tickets : store'[t] \in {store[t], NoEntry}
  PROVE  Ordered'
<1>t. TypeOK /\ CanLock /\ WholeSessions /\ LoginsFresh /\ NotBehind
  BY DEF MonoInv, LeaseInv, Ordered
<1>n. now' \in Nat /\ now \in Nat
  BY <1>t DEF TypeOK
<1>1. WholeSessions'
  <2>1. ASSUME NEW t \in Tickets
        PROVE  /\ store'[t].sess.created <= now'
               /\ store'[t].sess.grant = 0 => store'[t].sess = NoSession
    BY <1>t, <1>n, SessionTypes, EmptyEntry DEF WholeSessions
  <2>2. ASSUME NEW r \in Requests, pc'[r] \in Writing
        PROVE  sess'[r].grant # 0 /\ sess'[r].created <= now'
    <3>1. pc[r] \in Writing /\ sess'[r] = sess[r]
      BY <2>2 DEF WritersSame, Same
    <3> QED
      BY <3>1, <1>t, <1>n, SessionTypes DEF WholeSessions
  <2>3. Writing' = Writing
    BY DEF Writing, Refreshing
  <2> QED
    BY <2>1, <2>2, <2>3 DEF WholeSessions
<1>2. LoginsFresh'
  <2> SUFFICES ASSUME NEW r \in Requests, pc'[r] = "login"
               PROVE  /\ \A t \in Tickets : store'[t].sess.grant # sess'[r].grant
                      /\ \A q \in Requests \ {r} : pc'[q] \in Writing =>
                           sess'[q].grant # sess'[r].grant
    BY DEF LoginsFresh, Writing, Refreshing
  <2>1. pc[r] = "login" /\ sess'[r] = sess[r] /\ pc[r] \in Writing
    BY DEF WritersSame, Same, Writing
  <2>2. \A t \in Tickets : store'[t].sess.grant # sess'[r].grant
    BY <2>1, <1>t, EmptyEntry DEF LoginsFresh, WholeSessions
  <2>3. \A q \in Requests \ {r} : pc'[q] \in Writing => sess'[q].grant # sess'[r].grant
    BY <2>1, <1>t DEF LoginsFresh, WritersSame, Same
  <2> QED
    BY <2>2, <2>3
<1>3. NotBehind'
  <2> SUFFICES ASSUME NEW r \in Requests, pc'[r] \in Refreshing
               PROVE  /\ store'[cookie'[r].tkt].sess.grant = sess'[r].grant =>
                           /\ store'[cookie'[r].tkt].sess.rt <= sess'[r].rt
                           /\ store'[cookie'[r].tkt].sess.created <= sess'[r].created
                      /\ pc'[r] = "redeemed" /\ ans'[r].res = "ok" => sess'[r].rt <= ans'[r].rt
    BY DEF NotBehind, Refreshing
  <2>1. Same(r) /\ pc[r] \in Refreshing /\ pc[r] \in Writing
    BY DEF WritersSame, Same, Writing, Refreshing
  <2>2. cookie[r].tkt \in Tickets /\ sess[r].grant # 0
    BY <2>1, <1>t DEF CanLock, WholeSessions, Refreshing, UnderLock
  <2> QED
    BY <2>1, <2>2, <1>t, EmptyEntry DEF Same, NotBehind
<1> QED
  BY <1>1, <1>2, <1>3 DEF Ordered

\* A step of one request that leaves the store alone.
LEMMA OrderedByOne ==
  ASSUME MonoInv, NEW r \in Requests, Others(r), UNCHANGED <<now, store>>,
         pc'[r] \in Writing,
         sess'[r].grant # 0, sess'[r].created <= now,
         \* a login brings a new grant; otherwise the grant is not that of a login
         IF pc'[r] = "login"
         THEN /\ \A t \in Tickets : store[t].sess.grant # sess'[r].grant
              /\ \A q \in Requests \ {r} : pc[q] \in Writing => sess[q].grant # sess'[r].grant
         ELSE \A q \in Requests \ {r} : pc[q] = "login" => sess[q].grant # sess'[r].grant,
         pc'[r] # "login" /\ store[cookie'[r].tkt].sess.grant = sess'[r].grant =>
           /\ store[cookie'[r].tkt].sess.rt <= sess'[r].rt
           /\ store[cookie'[r].tkt].sess.created <= sess'[r].created,
         pc'[r] = "redeemed" /\ ans'[r].res = "ok" => sess'[r].rt <= ans'[r].rt
  PROVE  Ordered'
<1>t. WholeSessions /\ LoginsFresh /\ NotBehind
  BY DEF MonoInv, Ordered
<1>1. WholeSessions'
  <2>1. ASSUME NEW q \in Requests, pc'[q] \in Writing
        PROVE  sess'[q].grant # 0 /\ sess'[q].created <= now
    BY <2>1, <1>t DEF WholeSessions, Others, Same
  <2> QED
    BY <2>1, <1>t DEF WholeSessions, Writing, Refreshing
<1>2. LoginsFresh'
  <2> SUFFICES ASSUME NEW p \in Requests, pc'[p] = "login"
               PROVE  /\ \A t \in Tickets : store[t].sess.grant # sess'[p].grant
                      /\ \A q \in Requests \ {p} : pc'[q] \in Writing =>
                           sess'[q].grant # sess'[p].grant
    BY DEF LoginsFresh, Writing, Refreshing
  <2>1. CASE p = r
    BY <2>1 DEF Others, Same
  <2>2. CASE p # r
    <3>1. pc[p] = "login" /\ sess'[p] = sess[p] /\ pc[p] \in Writing
      BY <2>2 DEF Others, Same, Writing
    <3>2. sess'[r].grant # sess[p].grant
      BY <3>1, <2>2
    <3> QED
      BY <3>1, <3>2, <2>2, <1>t DEF LoginsFresh, Others, Same
  <2> QED
    BY <2>1, <2>2
<1>3. NotBehind'
  <2> SUFFICES ASSUME NEW q \in Requests, pc'[q] \in Refreshing
               PROVE  /\ store[cookie'[q].tkt].sess.grant = sess'[q].grant =>
                           /\ store[cookie'[q].tkt].sess.rt <= sess'[q].rt
                           /\ store[cookie'[q].tkt].sess.created <= sess'[q].created
                      /\ pc'[q] = "redeemed" /\ ans'[q].res = "ok" => sess'[q].rt <= ans'[q].rt
    BY DEF NotBehind, Refreshing
  <2>1. CASE q = r
    BY <2>1 DEF Refreshing
  <2>2. CASE q # r
    BY <2>2, <1>t DEF NotBehind, Others, Same
  <2> QED
    BY <2>1, <2>2
<1> QED
  BY <1>1, <1>2, <1>3 DEF Ordered

\* Who else writes to the ticket of a request that refreshes, if the session is
\* its own?  A login has a grant of its own, and no other request has the lock.
LEMMA WritesApart ==
  ASSUME MonoInv, NEW r \in Requests, pc[r] \in {"save", "login"},
         NEW u \in Tickets, WrittenTo(r, u),
         NEW q \in Requests \ {r}, pc[q] \in Refreshing, cookie[q].tkt = u
  PROVE  sess[q].grant # sess[r].grant
<1>t. LeaseInv /\ TypeOK /\ CanLock /\ PromptHeld /\ TicketsIssued /\ LoginsFresh
  BY DEF MonoInv, LeaseInv, Ordered
<1>1. CASE pc[r] = "login"
  BY <1>1, <1>t DEF LoginsFresh, Writing
<1>2. CASE pc[r] = "save"
  <2>1. pc[r] \in UnderLock /\ pc[q] \in UnderLock
    BY <1>2 DEF UnderLock, Refreshing
  <2>2. Validate(cookie[r])
    <3>1. cookie[q].tkt <= issued /\ issued \in Nat
      BY <1>t, SessionTypes DEF TicketsIssued
    <3> QED
      BY <3>1 DEF WrittenTo
  <2>3. cookie[r].tkt = cookie[q].tkt
    BY <2>2 DEF WrittenTo
  <2> QED
    BY <2>1, <2>3, <1>t, Alone
<1> QED
  BY <1>1, <1>2

LEMMA OrderedWrites ==
  ASSUME MonoInv, NEW r \in Requests, Writes(r)
  PROVE  Ordered'
<1>t. TypeOK /\ CanLock /\ WholeSessions /\ LoginsFresh /\ NotBehind
  BY DEF MonoInv, LeaseInv, Ordered
<1>w. /\ pc[r] \in {"save", "login"} /\ pc'[r] \notin Writing /\ Others(r)
      /\ UNCHANGED <<now, sess, cookie>> /\ pc[r] \in Writing
  BY DEF Writes, Writing, Refreshing
<1>u. PICK u \in Tickets : WrittenTo(r, u)
  BY <1>t, SaveForm DEF Writes
<1>o. \A t \in Tickets :
        \/ store'[t] = store[t]
        \/ /\ t = u /\ store'[t].sess.grant = sess[r].grant
           /\ store'[t].sess.rt = sess[r].rt /\ store'[t].sess.created = sess[r].created
  BY <1>u DEF WrittenTo
<1>1. WholeSessions'
  <2>1. ASSUME NEW t \in Tickets
        PROVE  /\ store'[t].sess.created <= now
               /\ store'[t].sess.grant = 0 => store'[t].sess = NoSession
    BY <1>o, <1>w, <1>t DEF WholeSessions
  <2>2. ASSUME NEW q \in Requests, pc'[q] \in Writing
        PROVE  sess[q].grant # 0 /\ sess[q].created <= now
    BY <2>2, <1>w, <1>t DEF WholeSessions, Others, Same
  <2> QED
    BY <2>1, <2>2, <1>w DEF WholeSessions, Writing, Refreshing
<1>2. LoginsFresh'
  <2> SUFFICES ASSUME NEW p \in Requests, pc'[p] = "login"
               PROVE  /\ \A t \in Tickets : store'[t].sess.grant # sess[p].grant
                      /\ \A q \in Requests \ {p} : pc'[q] \in Writing =>
                           sess[q].grant # sess[p].grant
    BY <1>w DEF LoginsFresh, Writing, Refreshing
  <2>1. p # r /\ pc[p] = "login"
    BY <1>w DEF Writing, Others, Same
  <2>2. sess[r].grant # sess[p].grant
    BY <2>1, <1>w, <1>t DEF LoginsFresh
  <2>3. \A t \in Tickets : store'[t].sess.grant # sess[p].grant
    BY <2>1, <2>2, <1>o, <1>t DEF LoginsFresh
  <2>4. \A q \in Requests \ {p} : pc'[q] \in Writing => pc[q] \in Writing
    BY <1>w DEF Others, Same
  <2> QED
    BY <2>1, <2>3, <2>4, <1>t DEF LoginsFresh
<1>3. NotBehind'
  <2> SUFFICES ASSUME NEW q \in Requests, pc'[q] \in Refreshing
               PROVE  /\ store'[cookie[q].tkt].sess.grant = sess[q].grant =>
                           /\ store'[cookie[q].tkt].sess.rt <= sess[q].rt
                           /\ store'[cookie[q].tkt].sess.created <= sess[q].created
                      /\ pc'[q] = "redeemed" /\ ans'[q].res = "ok" => sess[q].rt <= ans'[q].rt
    BY <1>w DEF NotBehind, Refreshing
  <2>1. q # r /\ pc[q] \in Refreshing /\ pc'[q] = pc[q] /\ ans'[q] = ans[q]
    BY <1>w DEF Writing, Others, Same
  <2>2. cookie[q].tkt \in Tickets
    BY <2>1, <1>t DEF CanLock, UnderLock, Refreshing
  <2>3. cookie[q].tkt = u => sess[q].grant # sess[r].grant
    BY <2>1, <1>w, <1>u, WritesApart
  <2>4. store'[cookie[q].tkt].sess.grant = sess[q].grant => store'[cookie[q].tkt] = store[cookie[q].tkt]
    BY <2>2, <2>3, <1>o
  <2> QED
    BY <2>1, <2>4, <1>t DEF NotBehind
<1> QED
  BY <1>1, <1>2, <1>3 DEF Ordered

LEMMA OrderedStep ==
  ASSUME MonoInv, TypeOK', [Next]_vars
  PROVE  Ordered'
<1>t. TypeOK /\ GrantsIssued /\ CanLock /\ WholeSessions /\ LoginsFresh /\ NotBehind
  BY DEF MonoInv, LeaseInv, GoneInv, Ordered
<1>n. now <= now'
  BY <1>t, TimeForward
<1>1. CASE Still \/ Deletes
  BY <1>1, <1>n, OrderedStays DEF Still, Deletes
<1>2. ASSUME NEW r \in Requests, LoginArrives(r) PROVE Ordered'
  <2>1. /\ pc'[r] = "login" /\ Others(r) /\ UNCHANGED <<now, store>>
        /\ sess'[r].grant = grants + 1 /\ sess'[r].created = now
    BY <1>2 DEF LoginArrives
  <2>2. grants + 1 # 0 /\ now <= now
    BY <1>t, SessionTypes
  <2>3. \A t \in Tickets : store[t].sess.grant # grants + 1
    BY <1>t, SessionTypes DEF GrantsIssued
  <2>4. \A q \in Requests : pc[q] \in Writing => sess[q].grant # grants + 1
    BY <1>t, SessionTypes DEF GrantsIssued
  <2>5. pc'[r] \in Writing /\ pc'[r] # "redeemed"
    BY <2>1 DEF Writing
  <2> QED
    BY <2>1, <2>2, <2>3, <2>4, <2>5, OrderedByOne
<1>3. ASSUME NEW r \in Requests, PicksUp(r) PROVE Ordered'
  <2>1. /\ pc'[r] = "redeem" /\ Others(r) /\ UNCHANGED <<now, store, cookie>>
        /\ cookie[r].tkt \in Tickets
        /\ sess'[r] = store[cookie[r].tkt].sess /\ sess'[r] # NoSession
    BY <1>3 DEF PicksUp
  <2>2. sess'[r].grant # 0 /\ sess'[r].created <= now
    BY <2>1, <1>t DEF WholeSessions
  <2>3. \A q \in Requests : pc[q] = "login" => sess[q].grant # sess'[r].grant
    BY <2>1, <1>t DEF LoginsFresh
  <2>4. /\ store[cookie[r].tkt].sess.rt <= sess'[r].rt
        /\ store[cookie[r].tkt].sess.created <= sess'[r].created
    BY <2>1, <1>t, SessionTypes
  <2>5. pc'[r] \in Writing /\ pc'[r] # "redeemed" /\ pc'[r] # "login"
    BY <2>1 DEF Writing, Refreshing
  <2>6. cookie'[r] = cookie[r]
    BY <2>1
  <2> QED
    BY <2>1, <2>2, <2>3, <2>4, <2>5, <2>6, OrderedByOne
<1>4. ASSUME NEW r \in Requests, RedeemRefreshToken(r) PROVE Ordered'
  <2>1. /\ pc[r] = "redeem" /\ pc' = [pc EXCEPT ![r] = "redeemed"]
        /\ UNCHANGED <<now, store, cookie, sess>>
        /\ \E a : ans' = [ans EXCEPT ![r] = a]
    BY <1>4 DEF RedeemRefreshToken, Goto
  <2>2. pc'[r] = "redeemed" /\ Others(r)
    BY <2>1, <1>t DEF Others, Same, TypeOK
  <2>3. ans'[r].res = "ok" => ans'[r].rt = sess[r].rt + 1 \/ ans'[r].rt = sess[r].rt
    BY <1>4, <1>t DEF RedeemRefreshToken, TypeOK
  <2>4. ans'[r].res = "ok" => sess[r].rt <= ans'[r].rt
    BY <2>3, <1>t, SessionTypes
  <2>5. pc'[r] \in Writing /\ pc[r] \in Writing /\ pc[r] \in Refreshing
    BY <2>1, <2>2 DEF Writing, Refreshing
  <2>6. sess'[r] = sess[r] /\ cookie'[r] = cookie[r]
    BY <2>1
  <2>7. /\ sess[r].grant # 0 /\ sess[r].created <= now
        /\ \A q \in Requests \ {r} : pc[q] = "login" => sess[q].grant # sess[r].grant
        /\ store[cookie[r].tkt].sess.grant = sess[r].grant =>
             /\ store[cookie[r].tkt].sess.rt <= sess[r].rt
             /\ store[cookie[r].tkt].sess.created <= sess[r].created
    BY <2>5, <1>t DEF WholeSessions, LoginsFresh, NotBehind
  <2> QED
    BY <2>1, <2>2, <2>4, <2>5, <2>6, <2>7, OrderedByOne
<1>5. ASSUME NEW r \in Requests, Renews(r) PROVE Ordered'
  <2>1. /\ pc[r] = "redeemed" /\ pc'[r] = "save" /\ Others(r)
        /\ sess'[r].grant = sess[r].grant /\ sess'[r].created = now
        /\ sess'[r].rt = IF ans[r].res = "ok" THEN ans[r].rt ELSE sess[r].rt
        /\ UNCHANGED <<now, store, cookie>>
    BY <1>5 DEF Renews
  <2>2. pc'[r] \in Writing /\ pc[r] \in Writing /\ pc[r] \in Refreshing /\ pc'[r] # "redeemed"
        /\ pc'[r] # "login"
    BY <2>1 DEF Writing, Refreshing
  <2>3. cookie[r].tkt \in Tickets
    BY <2>2, <1>t DEF CanLock, UnderLock, Refreshing
  <2>4. sess[r].rt <= sess'[r].rt
    BY <2>1, <1>t, SessionTypes DEF NotBehind
  <2>5. sess'[r].rt \in Nat
    BY <2>1, <1>t, SessionTypes
  <2>6. store[cookie[r].tkt].sess.grant = sess[r].grant =>
             /\ store[cookie[r].tkt].sess.rt <= sess'[r].rt
             /\ store[cookie[r].tkt].sess.created <= sess'[r].created
    BY <2>1, <2>2, <2>3, <2>4, <2>5, <1>t, SessionTypes DEF NotBehind, WholeSessions
  <2>7. /\ sess[r].grant # 0 /\ now <= now
        /\ \A q \in Requests \ {r} : pc[q] = "login" => sess[q].grant # sess[r].grant
    BY <2>2, <1>t, SessionTypes DEF WholeSessions, LoginsFresh
  <2>8. cookie'[r] = cookie[r]
    BY <2>1
  <2> QED
    BY <2>1, <2>2, <2>6, <2>7, <2>8, OrderedByOne
<1>6. ASSUME NEW r \in Requests, Writes(r) PROVE Ordered'
  BY <1>6, OrderedWrites
<1>7. ASSUME NEW g \in Revocable, Revoke(g) PROVE Ordered'
  <2>1. WritersSame /\ store' = store
    BY <1>7 DEF Revoke, reqVars, WritersSame, Same
  <2> QED
    BY <2>1, <1>n, OrderedStays
<1> QED
  BY <1>1, <1>2, <1>3, <1>4, <1>5, <1>6, <1>7, <1>t, StepForms

LEMMA MonoInit == Init /\ TypeOK => PromptHeld /\ TicketsIssued /\ Ordered
<1> SUFFICES ASSUME Init, TypeOK PROVE PromptHeld /\ TicketsIssued /\ Ordered
  OBVIOUS
<1>1. PromptHeld
  BY DEF Init, PromptHeld, UnderLock
<1>2. TicketsIssued
  BY DEF Init, TicketsIssued, NoCookie, NoSetCookie, Tickets
<1>3. LoginsFresh /\ NotBehind
  BY DEF Init, LoginsFresh, NotBehind, Refreshing
<1>4. WholeSessions
  BY EmptyEntry DEF Init, WholeSessions, FirstSession, Writing, Refreshing
<1> QED
  BY <1>1, <1>2, <1>3, <1>4 DEF Ordered

\* When refreshes end in time, no request that refreshes a session is behind
\* what is stored of it.
LEMMA MonoInvariant == ASSUME Prompt PROVE Spec => []MonoInv
<1>1. Init /\ LeaseInv /\ GoneInv => MonoInv
  BY MonoInit DEF MonoInv, LeaseInv
<1>2. MonoInv /\ LeaseInv' /\ GoneInv' /\ [Next]_vars => MonoInv'
  <2> SUFFICES ASSUME MonoInv, LeaseInv', GoneInv', [Next]_vars PROVE MonoInv'
    OBVIOUS
  <2>1. TypeOK /\ LeaseInv /\ PromptHeld /\ TicketsIssued /\ TypeOK'
    BY DEF MonoInv, LeaseInv
  <2> QED
    BY <2>1, PromptStep, TicketsStep, OrderedStep DEF MonoInv
<1> QED
  BY <1>1, <1>2, LeaseInvariant, GoneInvariant, PTL DEF Spec

\* No save puts an older state of a session over a newer one, whatever Redis
\* commands fail or lose their reply, whoever disconnects, and also when
\* cookies expire, as long as a refresh ends before its lock does.
THEOREM RefreshesAreMonotone == ASSUME Prompt PROVE Spec => RefreshMonotone
<1> DEFINE Mono ==
      \A t \in Tickets :
        store'[t].sess.grant = store[t].sess.grant =>
          /\ store'[t].sess.rt >= store[t].sess.rt
          /\ store'[t].sess.created >= store[t].sess.created
<1>1. MonoInv /\ [Next]_vars => Mono
  <2> SUFFICES ASSUME MonoInv, [Next]_vars, NEW t \in Tickets,
                      store'[t].sess.grant = store[t].sess.grant
               PROVE  /\ store'[t].sess.rt >= store[t].sess.rt
                      /\ store'[t].sess.created >= store[t].sess.created
    OBVIOUS
  <2>t. TypeOK /\ TicketsIssued /\ WholeSessions /\ LoginsFresh /\ NotBehind
    BY DEF MonoInv, LeaseInv, Ordered
  <2>n. store[t].sess.rt \in Nat /\ store[t].sess.created \in Nat /\ issued \in Nat
    BY <2>t, SessionTypes
  <2>1. CASE store'[t] = store[t]
    BY <2>1, <2>n
  <2>2. CASE store'[t] = NoEntry
    BY <2>2, <2>n, <2>t, EmptyEntry DEF WholeSessions
  <2>3. ASSUME NEW r \in Requests, Writes(r), store'[t] # store[t]
        PROVE  /\ store'[t].sess.rt >= store[t].sess.rt
               /\ store'[t].sess.created >= store[t].sess.created
    <3>1. PICK u \in Tickets : WrittenTo(r, u)
      BY <2>3, <2>t, SaveForm DEF Writes
    <3>2. /\ t = u /\ store'[t].sess.grant = sess[r].grant
          /\ store'[t].sess.rt = sess[r].rt /\ store'[t].sess.created = sess[r].created
      BY <3>1, <2>3 DEF WrittenTo
    <3>3. pc[r] = "save" /\ pc[r] \in Refreshing /\ sess[r].grant # 0
      BY <2>3, <2>t, <3>2 DEF Writes, LoginsFresh, Refreshing, WholeSessions, Writing
    <3>4. t = cookie[r].tkt
      <4>1. store[t] # NoEntry
        BY <3>2, <3>3, EmptyEntry
      <4>2. t # issued + 1
        BY <4>1, <2>t, <2>n DEF TicketsIssued
      <4> QED
        BY <4>2, <3>1, <3>2 DEF WrittenTo
    <3>5. store[t].sess.rt <= sess[r].rt /\ store[t].sess.created <= sess[r].created
      BY <3>2, <3>3, <3>4, <2>t DEF NotBehind
    <3>6. sess[r].rt \in Nat /\ sess[r].created \in Nat
      BY <2>t, SessionTypes
    <3> QED
      BY <3>2, <3>5, <3>6, <2>n
  <2>4. \/ store'[t] \in {store[t], NoEntry}
        \/ \E r \in Requests : Writes(r)
    BY <2>t, StepForms DEF Still, Deletes, LoginArrives, PicksUp, RedeemRefreshToken,
                           Renews, Revoke
  <2> QED
    BY <2>1, <2>2, <2>3, <2>4
<1>2. MonoInv /\ [Next]_vars => [Mono]_vars
  BY <1>1
<1> QED
  BY <1>2, MonoInvariant, PTL DEF Spec, RefreshMonotone

-----------------------------------------------------------------------------
(***************************************************************************)
(* Refresh tokens.  Without failures, and with tickets that do not run out, *)
(* a grant stays with one ticket and one writer, so that its refresh token  *)
(* is never used twice.                                                     *)
(***************************************************************************)
NoFaults == faults = 0 /\ \A r \in Requests : live[r]

\* A grant has one ticket, and at most one request that is about to write it.
OneHome ==
  /\ \A t, u \in Tickets :
       store[t].sess.grant = store[u].sess.grant => t = u \/ store[t].sess.grant = 0
  /\ \A r \in Requests, t \in Tickets :
       pc[r] \in Refreshing /\ store[t].sess.grant = sess[r].grant => t = cookie[r].tkt
  /\ \A r, q \in Requests :
       pc[r] \in Writing /\ pc[q] \in Writing /\ sess[r].grant = sess[q].grant => r = q

\* The provider takes refresh token rt of grant g, unless g has been revoked.
Takes(g, rt) == idp[g] \in {0, rt}

\* A request holds the token of its session that the provider takes; it is told
\* that the token is invalid only of a grant that has been revoked.
HoldsToken(r) ==
  /\ pc[r] \in {"redeem", "save", "login"} =>
       sess[r].rt = 0 \/ Takes(sess[r].grant, sess[r].rt)
  /\ pc[r] = "redeemed" =>
       CASE ans[r].res = "ok" -> Takes(sess[r].grant, ans[r].rt)
         [] ans[r].res = "fatal" -> idp[sess[r].grant] = 0
         [] OTHER -> sess[r].rt = 0 \/ Takes(sess[r].grant, sess[r].rt)

TokensHeld == \A r \in Requests : HoldsToken(r)

\* A request that is about to save the token that the provider takes of grant g.
HasNext(r, g) ==
  /\ sess[r].grant = g
  /\ \/ pc[r] = "redeemed" /\ ans[r].res = "ok"
     \/ pc[r] = "save" /\ Takes(g, sess[r].rt)

\* CurrentTokenKept of what is stored, whether or not it has expired.
StoredTokenKept ==
  \A t \in Tickets, g \in Grants :
    store[t].sess.grant = g /\ store[t].sess.rt # 0 /\ ~Takes(g, store[t].sess.rt)
      => \E r \in Requests : HasNext(r, g)

TokenInv == MonoInv /\ NoFaults /\ OneHome /\ TokensHeld /\ StoredTokenKept

LEMMA FaultsStep ==
  ASSUME MaxFaults = 0, TypeOK, NoFaults, [Next]_vars
  PROVE  NoFaults'
<1> USE DEF NoFaults
<1>1. \A r \in Requests : Outcomes(r) = {"ok"} /\ LoadOutcomes(r) = {"ok"}
  BY DEF Outcomes, LoadOutcomes, ReadOutcomes
<1>2. ASSUME NEW r \in Requests, NEW o \in {"ok"}, Count(r, o) PROVE faults' = faults
  BY <1>2 DEF Count
<1>3. ASSUME NEW r \in Requests, Save(r) PROVE faults' = faults
  BY <1>1, <1>2, <1>3 DEF Save
<1>4. ASSUME NEW r \in Requests, Clear(r) PROVE faults' = faults
  BY <1>1, <1>2, <1>4 DEF Clear
<1>5. ASSUME NEW r \in Requests, LoadSession(r) \/ Reload(r) PROVE NoFaults'
  BY <1>1, <1>2, <1>5 DEF LoadSession, Reload
<1>6. ASSUME NEW r \in Requests, Obtain(r) \/ RedeemRefreshToken(r) \/ Release(r) PROVE NoFaults'
  BY <1>1, <1>2, <1>6 DEF Obtain, RedeemRefreshToken, Release
<1>7. ASSUME NEW r \in Requests, ObtainFails(r) \/ Disconnect(r) PROVE FALSE
  BY <1>1, <1>7 DEF ObtainFails, Disconnect
<1>8. ASSUME NEW r \in Requests, SaveRefreshed(r) \/ SaveLogin(r) PROVE NoFaults'
  BY <1>3, <1>8 DEF SaveRefreshed, SaveLogin
<1>9. ASSUME NEW r \in Requests,
             ClearFatal(r) \/ ClearOnError(r) \/ Denied(r) \/ ClearSessionCookie(r)
      PROVE  NoFaults'
  BY <1>4, <1>9 DEF ClearFatal, ClearOnError, Denied, ClearSessionCookie
<1>10. ASSUME NEW r \in Requests, Arrive(r) \/ ObtainTimedOut(r) \/ RefreshSession(r)
                                  \/ ValidateSession(r) \/ Serve(r)
       PROVE  NoFaults'
  BY <1>10 DEF Arrive, ObtainTimedOut, RefreshSession, ValidateSession, Serve
<1>11. ASSUME NEW r \in Requests, Respond(r) PROVE NoFaults'
  BY <1>11 DEF Respond, TypeOK
<1>12. CASE (\E g \in Revocable : Revoke(g)) \/ Tick \/ UNCHANGED vars
  BY <1>12 DEF Revoke, Tick, vars, reqVars
<1> QED
  BY <1>5, <1>6, <1>7, <1>8, <1>9, <1>10, <1>11, <1>12 DEF Next, Step, Finished

\* A step of one request that leaves the store alone.
LEMMA HomeByOne ==
  ASSUME OneHome, NEW r \in Requests, Others(r), UNCHANGED store, pc'[r] \in Writing,
         \A t \in Tickets : pc'[r] \in Refreshing /\ store[t].sess.grant = sess'[r].grant
                              => t = cookie'[r].tkt,
         \A q \in Requests \ {r} : pc[q] \in Writing => sess[q].grant # sess'[r].grant
  PROVE  OneHome'
<1>1. \A p \in Requests, t \in Tickets :
        pc'[p] \in Refreshing /\ store[t].sess.grant = sess'[p].grant => t = cookie'[p].tkt
  BY DEF OneHome, Others, Same
<1>2. \A p, q \in Requests :
        pc'[p] \in Writing /\ pc'[q] \in Writing /\ sess'[p].grant = sess'[q].grant => p = q
  BY DEF OneHome, Others, Same
<1> QED
  BY <1>1, <1>2 DEF OneHome, Writing, Refreshing

LEMMA HomeStays ==
  ASSUME MonoInv, OneHome, WritersSame,
         \A t \in Tickets : store'[t] \in {store[t], NoEntry}
  PROVE  OneHome'
<1>w. \A r \in Requests : pc[r] \in Writing => sess[r].grant # 0
  BY DEF MonoInv, Ordered, WholeSessions
<1>s. \A q \in Requests : pc'[q] \in Writing => Same(q) /\ pc[q] \in Writing
  BY DEF WritersSame, Same
<1>1. \A t, u \in Tickets :
        store'[t].sess.grant = store'[u].sess.grant => t = u \/ store'[t].sess.grant = 0
  BY EmptyEntry DEF OneHome
<1>2. ASSUME NEW r \in Requests, NEW t \in Tickets, pc'[r] \in Refreshing,
             store'[t].sess.grant = sess'[r].grant
      PROVE  t = cookie'[r].tkt
  <2>1. Same(r) /\ pc[r] \in Writing /\ pc[r] \in Refreshing
    BY <1>2, <1>s DEF Writing, Same
  <2> QED
    BY <2>1, <1>2, <1>w, EmptyEntry DEF OneHome, Same
<1>3. \A r, q \in Requests :
        pc'[r] \in Writing /\ pc'[q] \in Writing /\ sess'[r].grant = sess'[q].grant => r = q
  BY <1>s DEF OneHome, Same
<1> QED
  BY <1>1, <1>2, <1>3 DEF OneHome, Writing, Refreshing

\* With tickets that do not run out a refreshed session is saved under its own.
LEMMA HomeTicket ==
  ASSUME CookieExpire = 0, MonoInv, NEW r \in Requests, pc[r] = "save",
         NEW u, WrittenTo(r, u)
  PROVE  u = cookie[r].tkt
<1>1. cookie[r].tkt \in Tickets
  BY DEF MonoInv, LeaseInv, CanLock, UnderLock
<1>2. Validate(cookie[r])
  BY <1>1 DEF Validate, Tickets
<1> QED
  BY <1>2 DEF WrittenTo

LEMMA HomeWrites ==
  ASSUME CookieExpire = 0, MonoInv, OneHome, NEW r \in Requests, Writes(r)
  PROVE  OneHome'
<1>w. /\ pc[r] \in {"save", "login"} /\ pc'[r] \notin Writing /\ Others(r)
      /\ UNCHANGED <<sess, cookie>> /\ pc[r] \in Writing
  BY DEF Writes, Writing, Refreshing
<1>s. \A q \in Requests : pc'[q] \in Writing => q # r /\ pc'[q] = pc[q]
  BY <1>w DEF Others, Same
<1>t. TypeOK /\ LoginsFresh
  BY DEF MonoInv, LeaseInv, Ordered
<1>u. PICK u \in Tickets : WrittenTo(r, u)
  BY <1>t, SaveForm DEF Writes
<1>o. \A t \in Tickets :
        \/ store'[t] = store[t]
        \/ t = u /\ store'[t].sess.grant = sess[r].grant
  BY <1>u DEF WrittenTo
<1>h. \A t \in Tickets : store[t].sess.grant = sess[r].grant => t = u
  <2>1. CASE pc[r] = "login"
    BY <2>1, <1>t DEF LoginsFresh
  <2>2. CASE pc[r] = "save"
    BY <2>2, <1>u, HomeTicket DEF OneHome, Refreshing
  <2> QED
    BY <2>1, <2>2, <1>w
<1>1. \A t, v \in Tickets :
        store'[t].sess.grant = store'[v].sess.grant => t = v \/ store'[t].sess.grant = 0
  BY <1>o, <1>h DEF OneHome
<1>2. ASSUME NEW q \in Requests, NEW t \in Tickets, pc'[q] \in Refreshing,
             store'[t].sess.grant = sess[q].grant
      PROVE  t = cookie[q].tkt
  <2>1. q # r /\ pc[q] \in Writing /\ pc[q] \in Refreshing
    BY <1>2, <1>s DEF Writing
  <2>2. sess[q].grant # sess[r].grant
    BY <2>1, <1>w DEF OneHome
  <2> QED
    BY <2>1, <2>2, <1>2, <1>o DEF OneHome
<1>3. \A p, q \in Requests :
        pc'[p] \in Writing /\ pc'[q] \in Writing /\ sess[p].grant = sess[q].grant => p = q
  BY <1>s DEF OneHome
<1> QED
  BY <1>1, <1>2, <1>3, <1>w DEF OneHome, Writing, Refreshing

LEMMA HomeStep ==
  ASSUME CookieExpire = 0, MonoInv, OneHome, [Next]_vars
  PROVE  OneHome'
<1>t. TypeOK /\ GrantsIssued /\ LeaseInv /\ PromptHeld /\ LoginsFresh
  BY DEF MonoInv, LeaseInv, GoneInv, Ordered
<1>1. CASE Still \/ Deletes
  BY <1>1, HomeStays DEF Still, Deletes
<1>2. ASSUME NEW r \in Requests, LoginArrives(r) PROVE OneHome'
  <2>1. /\ pc'[r] = "login" /\ Others(r) /\ UNCHANGED store
        /\ sess'[r].grant = grants + 1
    BY <1>2 DEF LoginArrives
  <2>2. \A q \in Requests : pc[q] \in Writing => sess[q].grant # grants + 1
    BY <1>t, SessionTypes DEF GrantsIssued
  <2>3. pc'[r] \in Writing /\ pc'[r] \notin Refreshing
    BY <2>1 DEF Writing, Refreshing
  <2> QED
    BY <2>1, <2>2, <2>3, HomeByOne
<1>3. ASSUME NEW r \in Requests, PicksUp(r) PROVE OneHome'
  <2>1. /\ pc[r] = "reload" /\ pc'[r] = "redeem" /\ Others(r) /\ UNCHANGED <<store, cookie>>
        /\ cookie[r].tkt \in Tickets
        /\ sess'[r] = store[cookie[r].tkt].sess /\ sess'[r] # NoSession
    BY <1>3 DEF PicksUp
  <2>2. sess'[r].grant # 0
    BY <2>1 DEF MonoInv, Ordered, WholeSessions
  <2>3. \A t \in Tickets : store[t].sess.grant = sess'[r].grant => t = cookie'[r].tkt
    BY <2>1, <2>2 DEF OneHome
  <2>4. ASSUME NEW q \in Requests \ {r}, pc[q] \in Writing PROVE sess[q].grant # sess'[r].grant
    <3>1. CASE pc[q] = "login"
      BY <3>1, <2>1, <1>t DEF LoginsFresh
    <3>2. CASE pc[q] \in Refreshing
      <4>1. sess[q].grant = sess'[r].grant => cookie[q].tkt = cookie[r].tkt
        BY <3>2, <2>1 DEF OneHome
      <4>2. pc[r] \in UnderLock /\ pc[q] \in UnderLock
        BY <3>2, <2>1 DEF UnderLock, Refreshing
      <4> QED
        BY <4>1, <4>2, <1>t, Alone
    <3> QED
      BY <2>4, <3>1, <3>2 DEF Writing
  <2>5. pc'[r] \in Writing
    BY <2>1 DEF Writing, Refreshing
  <2> QED
    BY <2>1, <2>3, <2>4, <2>5, HomeByOne
<1>4. ASSUME NEW r \in Requests, RedeemRefreshToken(r) \/ Renews(r) PROVE OneHome'
  <2>1. /\ pc[r] \in Refreshing /\ pc'[r] \in Refreshing /\ Others(r)
        /\ UNCHANGED store /\ sess'[r].grant = sess[r].grant /\ cookie'[r] = cookie[r]
    BY <1>4, <1>t DEF RedeemRefreshToken, Goto, Renews, Others, Same, Refreshing, TypeOK
  <2>2. pc[r] \in Writing /\ pc'[r] \in Writing
    BY <2>1 DEF Writing
  <2>3. \A t \in Tickets : store[t].sess.grant = sess'[r].grant => t = cookie'[r].tkt
    BY <2>1 DEF OneHome
  <2>4. \A q \in Requests \ {r} : pc[q] \in Writing => sess[q].grant # sess'[r].grant
    BY <2>1, <2>2 DEF OneHome
  <2> QED
    BY <2>1, <2>2, <2>3, <2>4, HomeByOne
<1>5. ASSUME NEW r \in Requests, Writes(r) PROVE OneHome'
  BY <1>5, HomeWrites
<1>6. ASSUME NEW g \in Revocable, Revoke(g) PROVE OneHome'
  <2>1. WritersSame /\ store' = store
    BY <1>6 DEF Revoke, reqVars, WritersSame, Same
  <2> QED
    BY <2>1, HomeStays
<1> QED
  BY <1>1, <1>2, <1>3, <1>4, <1>5, <1>6, <1>t, StepForms

\* What does not change for a request whose grant's token does not change.
LEMMA HoldsStays ==
  ASSUME NEW r \in Requests, HoldsToken(r), Same(r),
         pc[r] \in Writing => idp'[sess[r].grant] \in {idp[sess[r].grant], 0}
  PROVE  HoldsToken(r)'
<1>1. CASE pc[r] \in Writing
  <2>1. \A rt : Takes(sess[r].grant, rt) => idp'[sess[r].grant] \in {0, rt}
    BY <1>1 DEF Takes
  <2>2. CASE pc[r] = "redeemed"
    BY <1>1, <2>1, <2>2 DEF HoldsToken, Same, Takes
  <2>3. CASE pc[r] # "redeemed"
    BY <1>1, <2>1, <2>3 DEF HoldsToken, Same, Takes
  <2> QED
    BY <2>2, <2>3
<1>2. CASE pc[r] \notin Writing
  BY <1>2 DEF HoldsToken, Same, Writing, Refreshing
<1> QED
  BY <1>1, <1>2

LEMMA NextStays ==
  ASSUME NEW r \in Requests, NEW g, HasNext(r, g), Same(r), idp'[g] \in {idp[g], 0}
  PROVE  HasNext(r, g)'
BY DEF HasNext, Same, Takes

\* A stored token is kept by a step that neither changes the entry nor gives the
\* grant another token, and leaves alone whoever has the next one.
LEMMA KeptStays ==
  ASSUME StoredTokenKept, NEW t \in Tickets, NEW g \in Grants,
         store'[t] = store[t], idp'[g] \in {idp[g], 0},
         \A r \in Requests : HasNext(r, g) => Same(r),
         store'[t].sess.grant = g, store'[t].sess.rt # 0, ~Takes(g, store[t].sess.rt)'
  PROVE  \E r \in Requests : HasNext(r, g)'
<1>1. ~Takes(g, store[t].sess.rt)
  BY DEF Takes
<1>2. PICK r \in Requests : HasNext(r, g)
  BY <1>1 DEF StoredTokenKept
<1>3. HasNext(r, g)'
  BY <1>2, NextStays
<1> QED
  BY <1>3

\* A step that leaves the writers alone and takes entries away at most.
LEMMA TokensStay ==
  ASSUME TokenInv, WritersSame,
         \A t \in Tickets : store'[t] \in {store[t], NoEntry},
         \A g \in Grants : idp'[g] \in {idp[g], 0}
  PROVE  TokensHeld' /\ StoredTokenKept'
<1>t. TypeOK /\ WholeSessions /\ TokensHeld /\ StoredTokenKept
  BY DEF TokenInv, MonoInv, LeaseInv, Ordered
<1>1. ASSUME NEW r \in Requests PROVE HoldsToken(r)'
  <2>1. CASE pc'[r] \in Writing
    <3>1. Same(r) /\ pc[r] \in Writing
      BY <2>1 DEF WritersSame, Same
    <3>2. sess[r].grant \in Grants
      BY <3>1, <1>t, Constants DEF WholeSessions, TypeOK, SessionState, Grants
    <3> QED
      BY <3>1, <3>2, <1>t, HoldsStays DEF TokensHeld
  <2>2. CASE pc'[r] \notin Writing
    BY <2>2 DEF HoldsToken, Writing, Refreshing
  <2> QED
    BY <2>1, <2>2
<1>2. ASSUME NEW t \in Tickets, NEW g \in Grants, store'[t].sess.grant = g,
             store'[t].sess.rt # 0, ~Takes(g, store[t].sess.rt)'
      PROVE  \E r \in Requests : HasNext(r, g)'
  <2>1. store'[t] = store[t]
    BY <1>2, EmptyEntry
  <2>2. \A r \in Requests : HasNext(r, g) => Same(r)
    BY DEF HasNext, WritersSame
  <2> QED
    BY <2>1, <2>2, <1>2, <1>t, KeptStays
<1> QED
  BY <1>1, <1>2 DEF TokensHeld, StoredTokenKept

\* A step of one request that leaves the store alone: the others keep their
\* tokens, if theirs is not the grant whose token changes.
LEMMA TokensByOne ==
  ASSUME TokenInv, NEW r \in Requests, Others(r), UNCHANGED store, HoldsToken(r)',
         NEW h, \A g \in Grants : g # h => idp'[g] = idp[g],
         \A q \in Requests \ {r} : pc[q] \in Writing => sess[q].grant # h,
         \A t \in Tickets : store[t].sess.grant = h =>
           store[t].sess.rt = 0 \/ idp'[h] \in {0, store[t].sess.rt} \/ HasNext(r, h)',
         \A g \in Grants : g # h => ~HasNext(r, g)
  PROVE  TokensHeld' /\ StoredTokenKept'
<1>t. TypeOK /\ WholeSessions /\ TokensHeld /\ StoredTokenKept
  BY DEF TokenInv, MonoInv, LeaseInv, Ordered
<1>1. ASSUME NEW q \in Requests PROVE HoldsToken(q)'
  <2>1. CASE q # r
    <3>1. Same(q)
      BY <2>1 DEF Others
    <3>2. pc[q] \in Writing => idp'[sess[q].grant] = idp[sess[q].grant]
      BY <2>1, <1>t, Constants DEF WholeSessions, TypeOK, SessionState, Grants
    <3> QED
      BY <3>1, <3>2, <1>t, HoldsStays DEF TokensHeld
  <2>2. CASE q = r
    BY <2>2
  <2> QED
    BY <2>1, <2>2
<1>2. ASSUME NEW t \in Tickets, NEW g \in Grants, store'[t].sess.grant = g,
             store'[t].sess.rt # 0, ~Takes(g, store[t].sess.rt)'
      PROVE  \E q \in Requests : HasNext(q, g)'
  <2>1. CASE g = h
    BY <2>1, <1>2 DEF Takes
  <2>2. CASE g # h
    <3>1. \A q \in Requests : HasNext(q, g) => Same(q)
      BY <2>2 DEF Others
    <3> QED
      BY <2>2, <3>1, <1>2, <1>t, KeptStays
  <2> QED
    BY <2>1, <2>2
<1> QED
  BY <1>1, <1>2 DEF TokensHeld, StoredTokenKept

\* The token of a grant that nobody has the next one of is the one stored.
LEMMA KeptIfNobody ==
  ASSUME StoredTokenKept, NEW g \in Grants, \A q \in Requests : ~HasNext(q, g)
  PROVE  \A t \in Tickets : store[t].sess.grant = g =>
           store[t].sess.rt = 0 \/ idp[g] \in {0, store[t].sess.rt}
BY DEF StoredTokenKept, Takes

LEMMA TokensWrites ==
  ASSUME CookieExpire = 0, MaxFaults = 0, TokenInv, NEW r \in Requests, Writes(r)
  PROVE  TokensHeld' /\ StoredTokenKept'
<1>t. /\ TypeOK /\ MonoInv /\ OneHome /\ TokensHeld /\ StoredTokenKept /\ WholeSessions
      /\ LoginsFresh
  BY DEF TokenInv, MonoInv, LeaseInv, Ordered
<1>w. /\ pc[r] \in {"save", "login"} /\ pc'[r] \notin Writing /\ Others(r)
      /\ UNCHANGED <<idp, sess, cookie>> /\ pc[r] \in Writing
  BY DEF Writes, Writing, Refreshing
<1>u. PICK u \in Tickets : WrittenTo(r, u)
  BY <1>t, SaveForm DEF Writes
<1>s. store'[u].sess.grant = sess[r].grant /\ store'[u].sess.rt = sess[r].rt
  <2>1. "fail" \notin Outcomes(r)
    BY DEF TokenInv, NoFaults, Outcomes
  <2> QED
    BY <2>1, <1>u DEF WrittenTo
<1>1. ASSUME NEW q \in Requests PROVE HoldsToken(q)'
  <2>1. CASE q # r
    BY <2>1, <1>w, <1>t, HoldsStays DEF Others, TokensHeld
  <2>2. CASE q = r
    BY <2>2, <1>w DEF HoldsToken, Writing, Refreshing
  <2> QED
    BY <2>1, <2>2
<1>2. ASSUME NEW t \in Tickets, NEW g \in Grants, store'[t].sess.grant = g,
             store'[t].sess.rt # 0, ~Takes(g, store[t].sess.rt)'
      PROVE  \E q \in Requests : HasNext(q, g)'
  <2>1. CASE t = u
    <3>1. sess[r].rt = 0 \/ Takes(sess[r].grant, sess[r].rt)
      BY <1>w, <1>t DEF TokensHeld, HoldsToken
    <3> QED
      BY <2>1, <3>1, <1>2, <1>s, <1>w DEF Takes
  <2>2. CASE t # u
    <3>1. store'[t] = store[t]
      BY <2>2, <1>u DEF WrittenTo
    <3>2. ~HasNext(r, g)
      <4>1. SUFFICES ASSUME HasNext(r, g) PROVE FALSE
        OBVIOUS
      <4>2. pc[r] = "save" /\ sess[r].grant = g /\ pc[r] \in Refreshing
        BY <4>1, <1>w DEF HasNext, Refreshing
      <4>3. t = cookie[r].tkt
        BY <4>2, <3>1, <1>2, <1>t DEF OneHome
      <4> QED
        BY <4>2, <4>3, <2>2, <1>u, <1>t, HomeTicket
    <3>3. \A q \in Requests : HasNext(q, g) => Same(q)
      BY <3>2, <1>w DEF Others
    <3>4. idp'[g] = idp[g]
      BY <1>w
    <3> QED
      BY <3>1, <3>3, <3>4, <1>2, <1>t, KeptStays
  <2> QED
    BY <2>1, <2>2
<1> QED
  BY <1>1, <1>2 DEF TokensHeld, StoredTokenKept

LEMMA TokensRedeem ==
  ASSUME MaxFaults = 0, TokenInv, NEW r \in Requests, RedeemRefreshToken(r)
  PROVE  TokensHeld' /\ StoredTokenKept'
<1>t. TypeOK /\ OneHome /\ TokensHeld /\ StoredTokenKept /\ WholeSessions
  BY DEF TokenInv, MonoInv, LeaseInv, Ordered
<1>1. /\ pc[r] = "redeem" /\ pc' = [pc EXCEPT ![r] = "redeemed"]
      /\ UNCHANGED <<store, cookie, sess>> /\ pc[r] \in Writing
  BY DEF RedeemRefreshToken, Goto, Writing, Refreshing
<1>2. PICK h \in Grants : h = sess[r].grant
  BY <1>1, <1>t, Constants DEF WholeSessions, TypeOK, SessionState, Grants
<1>3. pc'[r] = "redeemed" /\ Others(r)
  <2>1. \E a : ans' = [ans EXCEPT ![r] = a]
    BY DEF RedeemRefreshToken
  <2> QED
    BY <2>1, <1>1, <1>t DEF Others, Same, TypeOK
<1>4. \A q \in Requests \ {r} : pc[q] \in Writing => sess[q].grant # h
  BY <1>1, <1>2, <1>t DEF OneHome
<1>5. \A q \in Requests, g \in Grants : HasNext(q, g) => pc[q] \in Writing /\ q # r
  BY <1>1 DEF HasNext, Writing, Refreshing
<1>6. \A q \in Requests : ~HasNext(q, h)
  BY <1>4, <1>5 DEF HasNext
<1>7. \A t \in Tickets : store[t].sess.grant = h =>
        store[t].sess.rt = 0 \/ idp[h] \in {0, store[t].sess.rt}
  BY <1>6, <1>t, KeptIfNobody
<1>8. sess[r].rt = 0 \/ Takes(h, sess[r].rt)
  BY <1>1, <1>2, <1>t DEF TokensHeld, HoldsToken
<1>9. \/ /\ idp' = idp /\ ans'[r].res \notin {"ok", "fatal"}
      \/ /\ idp' = idp /\ ans'[r].res = "fatal" /\ idp[h] # sess[r].rt /\ sess[r].rt # 0
      \/ /\ ans'[r].res = "ok"
         /\ idp' = [idp EXCEPT ![h] = ans'[r].rt]
  <2>1. Outcomes(r) = {"ok"}
    BY DEF TokenInv, NoFaults, Outcomes
  <2>2. ans \in [Requests -> Answers]
    BY <1>t DEF TypeOK
  <2>3. CASE ~RefreshSupported \/ sess[r].rt = 0
    <3>1. /\ idp' = idp
          /\ ans' = [ans EXCEPT ![r] = [res |-> IF RefreshSupported THEN "notRefreshed"
                                                ELSE "notImplemented", rt |-> sess[r].rt]]
      BY <2>3 DEF RedeemRefreshToken
    <3> QED
      BY <3>1, <2>2
  <2>4. CASE ~(~RefreshSupported \/ sess[r].rt = 0)
    <3>1. CASE idp[h] = sess[r].rt
      <4>1. PICK next : /\ idp' = [idp EXCEPT ![h] = next]
                        /\ ans' = [ans EXCEPT ![r] = [res |-> "ok", rt |-> next]]
        BY <3>1, <2>1, <2>4, <1>2 DEF RedeemRefreshToken
      <4> QED
        BY <4>1, <2>2
    <3>2. CASE idp[h] # sess[r].rt
      <4>1. /\ idp' = idp
            /\ ans' = [ans EXCEPT ![r] = [res |-> "fatal", rt |-> sess[r].rt]]
        BY <3>2, <2>1, <2>4, <1>2 DEF RedeemRefreshToken
      <4> QED
        BY <4>1, <2>2, <2>4, <3>2
    <3> QED
      BY <3>1, <3>2
  <2> QED
    BY <2>3, <2>4
<1>10. idp \in [Grants -> Nat]
  BY <1>t DEF TypeOK
<1>11. HoldsToken(r)'
  BY <1>1, <1>2, <1>3, <1>8, <1>9, <1>10 DEF HoldsToken, Takes
<1>12. \A t \in Tickets : store[t].sess.grant = h =>
         store[t].sess.rt = 0 \/ idp'[h] \in {0, store[t].sess.rt} \/ HasNext(r, h)'
  <2>1. CASE idp' = idp
    BY <2>1, <1>7
  <2>2. CASE ans'[r].res = "ok"
    BY <2>2, <1>1, <1>2, <1>3 DEF HasNext
  <2> QED
    BY <2>1, <2>2, <1>9
<1>13. \A g \in Grants : g # h => idp'[g] = idp[g]
  BY <1>9, <1>10
<1>14. \A g \in Grants : ~HasNext(r, g)
  BY <1>5
<1>15. store' = store
  BY <1>1
<1> QED
  BY <1>3, <1>4, <1>11, <1>12, <1>13, <1>14, <1>15, TokensByOne

LEMMA TokensStep ==
  ASSUME CookieExpire = 0, MaxFaults = 0, TokenInv, OneHome', [Next]_vars
  PROVE  TokensHeld' /\ StoredTokenKept'
<1>t. /\ TypeOK /\ GrantsIssued /\ OneHome /\ TokensHeld /\ StoredTokenKept
      /\ WholeSessions /\ idp \in [Grants -> Nat]
  BY DEF TokenInv, MonoInv, LeaseInv, GoneInv, Ordered, TypeOK
<1>1. CASE Still \/ Deletes
  BY <1>1, TokensStay DEF Still, Deletes
<1>2. ASSUME NEW r \in Requests, LoginArrives(r) PROVE TokensHeld' /\ StoredTokenKept'
  <2>1. /\ pc[r] = "idle" /\ pc'[r] = "login" /\ Others(r) /\ UNCHANGED store
        /\ sess'[r].grant = grants + 1 /\ idp' = [idp EXCEPT ![grants + 1] = sess'[r].rt]
    BY <1>2 DEF LoginArrives
  <2>2. PICK h \in Grants : h = grants + 1
    BY <1>2 DEF LoginArrives
  <2>3. \A t \in Tickets : store[t].sess.grant # h
    BY <2>2, <1>t, SessionTypes DEF GrantsIssued
  <2>4. \A q \in Requests : pc[q] \in Writing => sess[q].grant # h
    BY <2>2, <1>t, SessionTypes DEF GrantsIssued
  <2>5. HoldsToken(r)'
    BY <2>1, <2>2, <1>t DEF HoldsToken, Takes
  <2>6. \A g \in Grants : ~HasNext(r, g)
    BY <2>1 DEF HasNext
  <2>7. \A g \in Grants : g # h => idp'[g] = idp[g]
    BY <2>1, <2>2, <1>t
  <2> QED
    BY <2>1, <2>3, <2>4, <2>5, <2>6, <2>7, TokensByOne
<1>3. ASSUME NEW r \in Requests, PicksUp(r) PROVE TokensHeld' /\ StoredTokenKept'
  <2>1. /\ pc[r] = "reload" /\ pc'[r] = "redeem" /\ Others(r) /\ UNCHANGED <<store, idp>>
        /\ cookie[r].tkt \in Tickets
        /\ sess'[r] = store[cookie[r].tkt].sess /\ sess'[r] # NoSession
    BY <1>3 DEF PicksUp
  <2>2. PICK h \in Grants : h = sess'[r].grant
    BY <2>1, <1>t, Constants DEF WholeSessions, TypeOK, Entry, SessionState, Grants
  <2>3. \A q \in Requests \ {r} : pc[q] \in Writing => sess[q].grant # h
    <3>1. pc'[r] \in Writing
      BY <2>1 DEF Writing, Refreshing
    <3>2. \A q \in Requests \ {r} : pc'[q] \in Writing => sess'[q].grant # sess'[r].grant
      BY <3>1 DEF OneHome, Writing, Refreshing
    <3> QED
      BY <3>2, <2>1, <2>2 DEF Others, Same
  <2>4. \A q \in Requests, g \in Grants : HasNext(q, g) => pc[q] \in Writing /\ q # r
    BY <2>1 DEF HasNext, Writing, Refreshing
  <2>5. \A q \in Requests : ~HasNext(q, h)
    BY <2>3, <2>4 DEF HasNext
  <2>6. \A t \in Tickets : store[t].sess.grant = h =>
          store[t].sess.rt = 0 \/ idp'[h] \in {0, store[t].sess.rt}
    BY <2>1, <2>5, <1>t, KeptIfNobody
  <2>7. HoldsToken(r)'
    <3>1. sess'[r].rt = 0 \/ idp'[h] \in {0, sess'[r].rt}
      BY <2>1, <2>2, <2>6
    <3> QED
      BY <3>1, <2>1, <2>2 DEF HoldsToken, Takes
  <2>8. \A g \in Grants : idp'[g] = idp[g] /\ ~HasNext(r, g)
    BY <2>1, <2>4
  <2> QED
    BY <2>1, <2>3, <2>6, <2>7, <2>8, TokensByOne
<1>4. ASSUME NEW r \in Requests, RedeemRefreshToken(r) PROVE TokensHeld' /\ StoredTokenKept'
  BY <1>4, TokensRedeem
<1>5. ASSUME NEW r \in Requests, Renews(r) PROVE TokensHeld' /\ StoredTokenKept'
  <2>1. /\ pc[r] = "redeemed" /\ pc'[r] = "save" /\ Others(r)
        /\ ans[r].res \in {"ok", "notImplemented"}
        /\ sess'[r].grant = sess[r].grant /\ pc[r] \in Writing
        /\ sess'[r].rt = IF ans[r].res = "ok" THEN ans[r].rt ELSE sess[r].rt
        /\ UNCHANGED <<store, idp>>
    BY <1>5 DEF Renews, Writing, Refreshing
  <2>2. PICK h \in Grants : h = sess[r].grant
    BY <2>1, <1>t, Constants DEF WholeSessions, TypeOK, SessionState, Grants
  <2>3. \A q \in Requests \ {r} : pc[q] \in Writing => sess[q].grant # h
    BY <2>1, <2>2, <1>t DEF OneHome
  <2>4. /\ ans[r].res = "ok" => idp[h] \in {0, sess'[r].rt}
        /\ sess'[r].rt = 0 \/ idp[h] \in {0, sess'[r].rt}
    BY <2>1, <2>2, <1>t DEF TokensHeld, HoldsToken, Takes
  <2>5. HoldsToken(r)'
    BY <2>1, <2>2, <2>4 DEF HoldsToken, Takes
  <2>6. \A t \in Tickets : store[t].sess.grant = h =>
          store[t].sess.rt = 0 \/ idp'[h] \in {0, store[t].sess.rt} \/ HasNext(r, h)'
    <3>1. CASE ans[r].res = "ok"
      BY <3>1, <2>1, <2>2, <2>4 DEF HasNext, Takes
    <3>2. CASE ans[r].res # "ok"
      <4>1. \A q \in Requests : ~HasNext(q, h)
        BY <3>2, <2>1, <2>3 DEF HasNext, Writing, Refreshing
      <4> QED
        BY <4>1, <2>1, <1>t, KeptIfNobody
    <3> QED
      BY <3>1, <3>2
  <2>7. \A g \in Grants : idp'[g] = idp[g] /\ (g # h => ~HasNext(r, g))
    BY <2>1, <2>2 DEF HasNext
  <2> QED
    BY <2>1, <2>3, <2>5, <2>6, <2>7, TokensByOne
<1>6. ASSUME NEW r \in Requests, Writes(r) PROVE TokensHeld' /\ StoredTokenKept'
  BY <1>6, TokensWrites
<1>7. ASSUME NEW g \in Revocable, Revoke(g) PROVE TokensHeld' /\ StoredTokenKept'
  <2>1. WritersSame /\ store' = store /\ idp' = [idp EXCEPT ![g] = 0]
    BY <1>7 DEF Revoke, reqVars, WritersSame, Same
  <2>2. \A h \in Grants : idp'[h] \in {idp[h], 0}
    BY <2>1, <1>t
  <2> QED
    BY <2>1, <2>2, TokensStay
<1> QED
  BY <1>1, <1>2, <1>3, <1>4, <1>5, <1>6, <1>7, <1>t, StepForms

LEMMA TokenInit == Init => NoFaults /\ OneHome /\ TokensHeld /\ StoredTokenKept
<1> SUFFICES ASSUME Init PROVE NoFaults /\ OneHome /\ TokensHeld /\ StoredTokenKept
  OBVIOUS
<1>1. NoFaults /\ TokensHeld
  BY DEF Init, NoFaults, TokensHeld, HoldsToken
<1>2. \A t \in Tickets : store[t].sess.grant = (IF t = 1 THEN 1 ELSE 0)
                         /\ store[t].sess.rt = (IF t = 1 THEN 1 ELSE 0)
  BY EmptyEntry DEF Init, FirstSession
<1>3. OneHome
  BY <1>2 DEF Init, OneHome, Writing, Refreshing
<1>4. StoredTokenKept
  BY <1>2 DEF Init, StoredTokenKept, Takes, Grants
<1> QED
  BY <1>1, <1>3, <1>4

LEMMA TokenInvariant ==
  ASSUME Prompt, MaxFaults = 0, CookieExpire = 0 PROVE Spec => []TokenInv
<1>1. Init /\ MonoInv => TokenInv
  BY TokenInit DEF TokenInv
<1>2. TokenInv /\ MonoInv' /\ [Next]_vars => TokenInv'
  <2> SUFFICES ASSUME TokenInv, MonoInv', [Next]_vars PROVE TokenInv'
    OBVIOUS
  <2>1. TypeOK /\ NoFaults /\ MonoInv /\ OneHome
    BY DEF TokenInv, MonoInv, LeaseInv
  <2>2. NoFaults' /\ OneHome'
    BY <2>1, FaultsStep, HomeStep
  <2>3. TokensHeld' /\ StoredTokenKept'
    BY <2>2, TokensStep
  <2> QED
    BY <2>2, <2>3 DEF TokenInv
<1> QED
  BY <1>1, <1>2, MonoInvariant, PTL DEF Spec

\* Without failures, with refreshes that end in time and cookies that do not
\* expire, the refresh token in Redis is the one that the provider takes, or the
\* next one is about to be saved: concurrent requests never use a token twice.
THEOREM CurrentTokensKept ==
  ASSUME Prompt, MaxFaults = 0, CookieExpire = 0 PROVE Spec => []CurrentTokenKept
<1>1. TokenInv => CurrentTokenKept
  <2> SUFFICES ASSUME TokenInv, NEW t \in Tickets,
                      Get(t).grant # 0, Get(t).rt # 0, idp[Get(t).grant] # 0,
                      Get(t).rt # idp[Get(t).grant]
               PROVE  \E r \in Requests :
                        \/ /\ pc[r] = "redeemed" /\ sess[r].grant = Get(t).grant
                           /\ ans[r] = [res |-> "ok", rt |-> idp[Get(t).grant]]
                        \/ /\ pc[r] = "save" /\ sess[r].grant = Get(t).grant
                           /\ sess[r].rt = idp[Get(t).grant]
    BY DEF CurrentTokenKept
  <2>1. Get(t) = store[t].sess
    BY EmptyEntry DEF Get
  <2>2. TypeOK /\ TokensHeld /\ StoredTokenKept
    BY DEF TokenInv, MonoInv, LeaseInv
  <2>3. PICK g \in Grants : g = Get(t).grant
    BY <2>1, <2>2, Constants DEF TypeOK, Entry, SessionState, Grants
  <2>4. PICK r \in Requests : HasNext(r, g)
    BY <2>1, <2>2, <2>3 DEF StoredTokenKept, Takes
  <2>5. CASE pc[r] = "redeemed" /\ ans[r].res = "ok"
    <3>1. ans[r].rt = idp[g] /\ sess[r].grant = g
      BY <2>2, <2>3, <2>4, <2>5 DEF TokensHeld, HoldsToken, HasNext, Takes
    <3>2. ans[r] = [res |-> ans[r].res, rt |-> ans[r].rt]
      BY <2>2 DEF TypeOK, Answers
    <3> QED
      BY <2>3, <2>5, <3>1, <3>2
  <2>6. CASE pc[r] = "save" /\ Takes(g, sess[r].rt)
    BY <2>3, <2>4, <2>6 DEF HasNext, Takes
  <2> QED
    BY <2>4, <2>5, <2>6 DEF HasNext
<1> QED
  BY <1>1, TokenInvariant, PTL

\* Under the same assumptions a refresh is answered with invalid_grant only when
\* the grant has been revoked.
THEOREM InvalidGrantsAreRevoked ==
  ASSUME Prompt, MaxFaults = 0, CookieExpire = 0 PROVE Spec => []NoSpuriousInvalidGrant
<1>1. TokenInv => NoSpuriousInvalidGrant
  BY DEF TokenInv, TokensHeld, HoldsToken, NoSpuriousInvalidGrant
<1> QED
  BY <1>1, TokenInvariant, PTL
=============================================================================

---------------------------- MODULE Provider_proofs ----------------------------
(***************************************************************************)
(* Proofs about Provider, for any sets of groups, any options and any number *)
(* of grants, faults and changes of the directory.                           *)
(***************************************************************************)
EXTENDS Provider, TLAPS

\* A session all of whose groups are among names.
Fields == {"at", "idt", "rt", "mail", "user", "groups", "refreshed"}
Good(s, names) == DOMAIN s = Fields /\ s.groups \subseteq names

\* The calls that a listing of groups may follow, and the listings themselves.
Before == {"redeem", "refresh", "claims", "idClaims", "idAgain", "atClaims", "atAgain", "mail"}
Listings == {"graph", "listing"}

Operation ==
  /\ op \in {"idle", "login", "refresh"} /\ (op = "idle" => call = "none")
  /\ op = "refresh" => Good(saved, told.since)

Sessions == Good(ss, told.since) /\ (saved # NoSession => Good(saved, told.since))

\* The names a listing has collected so far were reported, and it starts with none.
Listed == (call \in Listings => seen \subseteq told.since) /\ (call \in Before => seen = {})

\* An e-mail that was called unverified is let through by no handler, at no
\* stage, if it matters.
Lenient == ~VerifyEmail \/ p.type \notin Verifying
MailTold == Lenient \/ mailSaid # "unverified"

Inv == /\ DOMAIN told = {"since", "now"}
       /\ Operation /\ Sessions /\ Listed /\ MailTold
       /\ Reported(resp) \subseteq told.since

\* What a step of a handler knows: it is in an operation, and has been told at
\* least as much as before.
Heard == Inv /\ op # "idle" /\ told.since \subseteq told'.since

Outcome == Operation' /\ Sessions'

-----------------------------------------------------------------------------
(* How a handler goes on.                                                    *)

LEMMA GoodMore == ASSUME NEW s, NEW a, NEW b, Good(s, a), a \subseteq b PROVE Good(s, b)
BY DEF Good

LEMMA HeardGood ==
  ASSUME Heard
  PROVE  /\ Good(ss, told'.since) /\ op \in {"login", "refresh"}
         /\ saved # NoSession => Good(saved, told'.since)
         /\ op = "refresh" => Good(saved, told'.since)
BY GoodMore DEF Heard, Inv, Operation, Sessions

LEMMA EmptyGood == ASSUME NEW names PROVE Good(Empty, names)
BY DEF Good, Empty, Fields

LEMMA AskOutcome ==
  ASSUME Heard, NEW c, NEW s, Good(s, told'.since), Ask(c, s)
  PROVE  Outcome /\ call' = c
BY HeardGood DEF Ask, Outcome, Operation, Sessions

LEMMA FailOutcome ==
  ASSUME Heard, NEW s, Good(s, told'.since), Fail(s)
  PROVE  Outcome /\ call' \in {"none", "validate"}
BY HeardGood, EmptyGood DEF Fail, Outcome, Operation, Sessions

LEMMA FailFatallyOutcome ==
  ASSUME Heard, NEW s, Good(s, told'.since), FailFatally(s)
  PROVE  Outcome /\ call' \in {"none", "validate"}
BY HeardGood, EmptyGood, FailOutcome DEF FailFatally, Outcome, Operation, Sessions

LEMMA FinishOutcome ==
  ASSUME Heard, NEW s, Good(s, told'.since), Finish(s)
  PROVE  Outcome /\ call' = "validate"
BY HeardGood DEF Finish, Outcome, Operation, Sessions

\* A step that is not a token request.
LEMMA RestInv ==
  ASSUME Inv, Rest, Outcome, told.since \subseteq told'.since, DOMAIN told' = {"since", "now"},
         Listed', mailSaid' = mailSaid \/ mailSaid' # "unverified" \/ Lenient
  PROVE  Inv'
<1>1. Reported(resp)' \subseteq told'.since BY DEF Inv, Rest, Reported
<1>2. MailTold' BY DEF Inv, MailTold, Lenient, VerifyEmail, Flag, Rest
<1> QED BY <1>1, <1>2 DEF Inv, Outcome

LEMMA HearMore ==
  ASSUME NEW names, Hear(names)
  PROVE  /\ told.since \subseteq told'.since /\ names \subseteq told'.since
         /\ DOMAIN told' = {"since", "now"}
BY DEF Hear

\* Nothing is listed after, or nothing was listed before.
LEMMA ListedQuiet == ASSUME call' \notin Before \cup Listings PROVE Listed'
BY DEF Listed
LEMMA ListedBefore == ASSUME Inv, call \in Before, UNCHANGED seen PROVE Listed'
BY DEF Inv, Listed

-----------------------------------------------------------------------------
(* What follows a token response.                                            *)

LEMMA GoogleNameOutcome ==
  ASSUME Heard, NEW s, Good(s, told'.since), GoogleName(s)
  PROVE  Outcome /\ call' \in {"name", "validate"}
BY AskOutcome, FinishOutcome DEF GoogleName

LEMMA GoodWithout == ASSUME NEW s, NEW names, Good(s, names) PROVE Good([s EXCEPT !.groups = {}], names)
BY DEF Good, Fields

LEMMA GroupValidatorOutcome ==
  ASSUME Heard, NEW s, Good(s, told'.since), groupValidator(s)
  PROVE  Outcome
<1>1. \/ Ask("member", [s EXCEPT !.groups = {}]) \/ Ask("listing", s) \/ GoogleName(s)
  BY DEF groupValidator
<1> QED BY <1>1, AskOutcome, GoogleNameOutcome, GoodWithout

LEMMA AzureGroupsOutcome ==
  ASSUME Heard, NEW s, Good(s, told'.since), AzureGroups(s)
  PROVE  Outcome
BY AskOutcome, FinishOutcome DEF AzureGroups

LEMMA AzureMailOutcome ==
  ASSUME Heard, NEW s, Good(s, told'.since), AzureMail(s)
  PROVE  Outcome
BY AskOutcome, AzureGroupsOutcome DEF AzureMail

LEMMA CidaasEnrichOutcome ==
  ASSUME Heard, NEW s, Good(s, told'.since), cidaasEnrich(s)
  PROVE  Outcome
<1>1. Ask("userinfo", s) \/ Fail(s) \/ Finish(s) BY DEF cidaasEnrich
<1> QED BY <1>1, AskOutcome, FailOutcome, FinishOutcome

LEMMA ExtractRolesOutcome ==
  ASSUME Heard, NEW r, NEW s, Good(s, told'.since), p.type = "keycloak-oidc",
         Reported(r) \subseteq told'.since, extractRoles(r, s)
  PROVE  Outcome
<1>1. CASE r.access = NoToken BY <1>1, FailOutcome DEF extractRoles
<1>2. CASE r.access # NoToken
  <2> DEFINE t == [s EXCEPT !.groups = @ \cup r.was.extra]
  <2>1. r.was.extra \subseteq told'.since BY <1>2 DEF Reported
  <2>2. Good(t, told'.since) BY <2>1 DEF Good, Fields
  <2>3. Finish(t) BY <1>2 DEF extractRoles
  <2> HIDE DEF t
  <2> QED BY <2>2, <2>3, FinishOutcome
<1> QED BY <1>1, <1>2

LEMMA EnrichSessionOutcome ==
  ASSUME Heard, NEW r, NEW s, Good(s, told'.since), Reported(r) \subseteq told'.since,
         EnrichSession(r, s)
  PROVE  Outcome
<1>1. \/ \E c : Ask(c, s)
      \/ Fail(s) \/ Finish(s) \/ cidaasEnrich(s) \/ groupValidator(s)
      \/ p.type = "keycloak-oidc" /\ extractRoles(r, s)
  BY DEF EnrichSession
<1> QED BY <1>1, AskOutcome, FailOutcome, FinishOutcome, CidaasEnrichOutcome,
           GroupValidatorOutcome, ExtractRolesOutcome

LEMMA AfterRefreshOutcome ==
  ASSUME Heard, NEW r, NEW s, Good(s, told'.since), Reported(r) \subseteq told'.since,
         op = "refresh", AfterRefresh(r, s)
  PROVE  Outcome
<1> DEFINE t == [s EXCEPT !.user = saved.user, !.groups = @ \cup (saved.groups \cap Extra)]
<1>1. \/ Ask("upn", s) \/ Finish(s) \/ cidaasEnrich(s) \/ Finish(t)
      \/ p.type = "keycloak-oidc" /\ extractRoles(r, s)
  BY DEF AfterRefresh
<1>2. Good(t, told'.since)
  <2>1. saved.groups \subseteq told'.since BY HeardGood DEF Good
  <2> QED BY <2>1 DEF Good, Fields
<1> HIDE DEF t
<1> QED BY <1>1, <1>2, AskOutcome, FinishOutcome, CidaasEnrichOutcome, ExtractRolesOutcome

\* What the claims of a token and of a profile come to, field by field.
LEMMA ClaimsGood ==
  ASSUME NEW r, NEW has \in {r.id, r.access}, NEW more, NEW names, Reported(r) \subseteq names,
         "groups" \in more => dir.groups \subseteq names
  PROVE  LET b == buildSessionFromClaims(r, has, more)
         IN  b.groups \subseteq names /\ (b.ok /\ VerifyEmail => b.said # "unverified")
<1> DEFINE b == buildSessionFromClaims(r, has, more)
           mail == IF "email" \in has \cup more THEN Source(r, has, "email").mail ELSE "none"
           said == IF "email_verified" \in has \cup more THEN Source(r, has, "email_verified").mail
                   ELSE "none"
           flag == IF said = "none" THEN "unstated" ELSE said
           groups == IF "groups" \in has \cup more THEN Source(r, has, "groups").groups ELSE {}
<1> SUFFICES b.groups \subseteq names /\ (b.ok /\ VerifyEmail => b.said # "unverified") OBVIOUS
<1>1. CASE has = NoToken
  <2>1. b = [ok |-> TRUE, mail |-> "", said |-> "", user |-> "", groups |-> {}, listed |-> FALSE]
    BY <1>1 DEF buildSessionFromClaims
  <2> HIDE DEF b
  <2> QED BY <2>1
<1>2. CASE has # NoToken
  <2>1. groups \subseteq names BY DEF Source, Reported
  <2>2. b = [ok |-> ~(VerifyEmail /\ flag = "unverified"),
             mail |-> IF mail = "none" THEN "" ELSE "mail",
             said |-> IF mail = "none" THEN "" ELSE flag,
             user |-> r.was.sub, groups |-> groups, listed |-> "groups" \in has \cup more]
    BY <1>2 DEF buildSessionFromClaims
  <2> HIDE DEF b, flag, groups, mail, said
  <2>3. b.groups = groups /\ b.said = IF mail = "none" THEN "" ELSE flag BY <2>2
  <2>4. b.ok => ~(VerifyEmail /\ flag = "unverified") BY <2>2
  <2> QED BY <2>1, <2>3, <2>4
<1> QED BY <1>1, <1>2

LEMMA CreatedGood ==
  ASSUME NEW r, NEW b, NEW names, b.groups \subseteq names PROVE Good(Created(r, b), names)
BY DEF Created, Good, Fields

LEMMA RefreshedGood ==
  ASSUME NEW s, NEW r, NEW b, NEW names, Good(s, names), b.groups \subseteq names
  PROVE  Good(Refreshed(s, r, b), names)
<1> DEFINE t == [s EXCEPT !.at = r.n, !.rt = r.rt, !.refreshed = @ \/ ~Flag("federated")]
           u == [t EXCEPT !.idt = r.was.sub, !.mail = b.mail, !.user = b.user, !.groups = b.groups]
<1>1. Good(t, names) BY DEF Good, Fields
<1> HIDE DEF t
<1>2. Good(u, names) BY <1>1 DEF Good, Fields
<1> HIDE DEF u
<1>3. Refreshed(s, r, b) = IF r.id = NoToken THEN t ELSE u BY DEF Refreshed, t, u
<1> QED BY <1>1, <1>2, <1>3

LEMMA CreateSessionOutcome ==
  ASSUME Heard, NEW r, NEW more, Reported(r) \subseteq told'.since,
         "groups" \in more => dir.groups \subseteq told'.since, createSession(r, more)
  PROVE  Outcome /\ (mailSaid' = mailSaid \/ mailSaid' # "unverified" \/ Lenient)
<1> DEFINE b == buildSessionFromClaims(r, r.id, more)
<1>1. b.groups \subseteq told'.since /\ (b.ok /\ VerifyEmail => b.said # "unverified") BY ClaimsGood
<1> HIDE DEF b
<1>2. \/ Fail(ss) /\ UNCHANGED mailSaid
      \/ b.ok /\ op = "login" /\ EnrichSession(r, Created(r, b)) /\ mailSaid' = b.said
      \/ /\ b.ok /\ op # "login" /\ AfterRefresh(r, Refreshed(ss, r, b))
         /\ mailSaid' = IF r.id = NoToken THEN mailSaid ELSE b.said
  BY DEF createSession, b
<1>3. CASE Fail(ss) /\ UNCHANGED mailSaid BY <1>3, FailOutcome, HeardGood
<1>4. CASE b.ok /\ op = "login" /\ EnrichSession(r, Created(r, b)) /\ mailSaid' = b.said
  <2>1. Good(Created(r, b), told'.since) BY <1>1, CreatedGood
  <2> QED BY <1>1, <1>4, <2>1, EnrichSessionOutcome DEF Lenient
<1>5. CASE /\ b.ok /\ op # "login" /\ AfterRefresh(r, Refreshed(ss, r, b))
           /\ mailSaid' = IF r.id = NoToken THEN mailSaid ELSE b.said
  <2>1. Good(Refreshed(ss, r, b), told'.since) BY <1>1, HeardGood, RefreshedGood
  <2>2. op = "refresh" BY <1>5, HeardGood
  <2> QED BY <1>1, <1>5, <2>1, <2>2, AfterRefreshOutcome DEF Lenient
<1> QED BY <1>2, <1>3, <1>4, <1>5

-----------------------------------------------------------------------------
(* The token requests.                                                       *)

\* A token request makes no listing of its own, so what it must show is this.
LEMMA TokenInv ==
  ASSUME Inv, call \in Before, UNCHANGED <<p, seen>>, Outcome, told.since \subseteq told'.since,
         DOMAIN told' = {"since", "now"}, Reported(resp') \subseteq told'.since,
         mailSaid' = mailSaid \/ mailSaid' # "unverified" \/ Lenient
  PROVE  Inv'
<1>1. Reported(resp)' \subseteq told'.since BY DEF Reported
<1>2. MailTold' BY DEF Inv, MailTold, Lenient, VerifyEmail, Flag
<1> QED BY <1>1, <1>2, ListedBefore DEF Inv, Outcome

LEMMA InOperation == ASSUME Inv, call # "none" PROVE op # "idle"
BY DEF Inv, Operation

LEMMA TokenFaultInv ==
  ASSUME Inv, call \in Before, UNCHANGED <<p, seen>>, TokenFault
  PROVE  Inv'
<1>1. UNCHANGED <<resp, mailSaid, told>> /\ (Fail(ss) \/ FailFatally(ss)) BY DEF TokenFault
<1>2. Heard BY <1>1, InOperation DEF Heard, Before
<1>3. Outcome BY <1>1, <1>2, HeardGood, FailOutcome, FailFatallyOutcome
<1> QED BY <1>1, <1>3, TokenInv DEF Inv

LEMMA InvalidGrantInv ==
  ASSUME Inv, call \in Before, UNCHANGED <<p, seen, resp, mailSaid, told>>, FailFatally(ss)
  PROVE  Inv'
<1>1. Heard BY InOperation DEF Heard, Before
<1>2. Outcome BY <1>1, HeardGood, FailFatallyOutcome
<1> QED BY <1>2, TokenInv DEF Inv

LEMMA NothingReported == Reported(NoResponse) = {}
BY DEF Reported, NoResponse, NoToken

LEMMA OIDCTokenInv == ASSUME Inv, OIDCToken PROVE Inv'
<1>1. call \in Before /\ op # "idle" /\ UNCHANGED <<p, seen>>
  BY InOperation DEF OIDCToken, Before
<1>2. CASE TokenFault BY <1>1, <1>2, TokenFaultInv
<1>3. CASE FailFatally(ss) /\ UNCHANGED <<resp, mailSaid, told>> BY <1>1, <1>3, InvalidGrantInv
<1>4. CASE createSession(NoResponse, {}) /\ resp' = NoResponse /\ UNCHANGED told
  <2>1. Heard BY <1>1, <1>4 DEF Heard
  <2> QED BY <1>1, <1>4, <2>1, NothingReported, CreateSessionOutcome, TokenInv DEF Inv
<1>5. ASSUME NEW id, NEW access, NEW new,
             LET r == NewResponse(id, access, new)
             IN  /\ Grant(r, new) /\ Hear(Reported(r))
                 /\ IF id = NoToken /\ op = "login" THEN Fail(ss) /\ UNCHANGED mailSaid
                    ELSE IF NeedsProfile(id) THEN Ask("claims", ss) /\ UNCHANGED mailSaid
                    ELSE createSession(r, {})
      PROVE  Inv'
  <2> DEFINE r == NewResponse(id, access, new)
  <2>1. /\ resp' = r /\ Hear(Reported(r))
        /\ \/ Fail(ss) /\ UNCHANGED mailSaid
           \/ Ask("claims", ss) /\ UNCHANGED mailSaid
           \/ createSession(r, {})
    BY <1>5 DEF Grant
  <2> HIDE DEF r
  <2>2. /\ told.since \subseteq told'.since /\ Reported(r) \subseteq told'.since
        /\ DOMAIN told' = {"since", "now"}
    BY <2>1, HearMore
  <2>3. Heard BY <1>1, <2>2 DEF Heard
  <2>4. Outcome /\ (mailSaid' = mailSaid \/ mailSaid' # "unverified" \/ Lenient)
    BY <2>1, <2>2, <2>3, HeardGood, FailOutcome, AskOutcome, CreateSessionOutcome
  <2> QED BY <1>1, <2>1, <2>2, <2>4, TokenInv
<1> QED BY <1>2, <1>3, <1>4, <1>5 DEF OIDCToken, FederatedError

LEMMA OIDCClaimsInv == ASSUME Inv, OIDCClaims PROVE Inv'
<1>1. call \in Before /\ op # "idle" /\ UNCHANGED seen /\ Rest BY InOperation DEF OIDCClaims, Before
<1>2. CASE Fail(ss) /\ UNCHANGED <<mailSaid, told>>
  <2>1. Heard BY <1>1, <1>2 DEF Heard
  <2> QED BY <1>1, <1>2, <2>1, HeardGood, FailOutcome, ListedBefore, RestInv DEF Inv
<1>3. ASSUME NEW more, createSession(resp, more), Hear(IF "groups" \in more THEN dir.groups ELSE {})
      PROVE  Inv'
  <2>1. /\ told.since \subseteq told'.since /\ DOMAIN told' = {"since", "now"}
        /\ "groups" \in more => dir.groups \subseteq told'.since
    BY <1>3, HearMore
  <2>2. Heard /\ Reported(resp) \subseteq told'.since BY <1>1, <2>1 DEF Heard, Inv
  <2> QED BY <1>1, <1>3, <2>1, <2>2, CreateSessionOutcome, ListedBefore, RestInv
<1> QED BY <1>2, <1>3 DEF OIDCClaims

\* These types report no names in their responses.
LEMMA PlainResponse ==
  ASSUME NEW r, r.access = NoToken, "groups" \notin r.id
  PROVE  Reported(r) = {}
BY DEF Reported, NoToken

LEMMA DefaultTokenInv == ASSUME Inv, DefaultToken PROVE Inv'
<1>1. call \in Before /\ op # "idle" /\ UNCHANGED <<p, seen>> BY InOperation DEF DefaultToken, Before
<1>2. CASE TokenFault BY <1>1, <1>2, TokenFaultInv
<1>3. ASSUME NEW n, LET r == [NewResponse(NoToken, NoToken, FALSE) EXCEPT !.n = n]
                    IN  Grant(r, FALSE) /\ EnrichSession(r, [Empty EXCEPT !.at = n]),
             Silent
      PROVE  Inv'
  <2> DEFINE r == [NewResponse(NoToken, NoToken, FALSE) EXCEPT !.n = n]
             s == [Empty EXCEPT !.at = n]
  <2>1. r.access = NoToken /\ r.id = NoToken BY DEF NewResponse
  <2>2. resp' = r /\ EnrichSession(r, s) /\ UNCHANGED <<told, mailSaid>>
    BY <1>3 DEF Grant, Silent, history
  <2>3. Good(s, told'.since) BY DEF Good, Empty, Fields
  <2> HIDE DEF r, s
  <2>4. Reported(r) = {} BY <2>1, PlainResponse DEF NoToken
  <2>5. Heard BY <1>1, <2>2 DEF Heard
  <2>6. Outcome BY <2>2, <2>3, <2>4, <2>5, EnrichSessionOutcome
  <2> QED BY <1>1, <2>2, <2>4, <2>6, TokenInv DEF Inv
<1> QED BY <1>2, <1>3 DEF DefaultToken

LEMMA GoogleTokenInv == ASSUME Inv, GoogleToken PROVE Inv'
<1>1. call \in Before /\ op # "idle" /\ UNCHANGED <<p, seen>> BY InOperation DEF GoogleToken, Before
<1>2. CASE TokenFault BY <1>1, <1>2, TokenFaultInv
<1>3. CASE FailFatally(ss) /\ UNCHANGED <<resp, mailSaid, told>> BY <1>1, <1>3, InvalidGrantInv
<1>4. ASSUME NEW id \in {{}, NoToken}, NEW new,
             LET r == [NewResponse(id, NoToken, new) EXCEPT !.rt = IF new THEN grants + 1 ELSE 0]
             IN  /\ Grant(r, new)
                 /\ IF op = "refresh" THEN GoogleRefreshed(r) ELSE GoogleRedeemed(r),
             UNCHANGED told
      PROVE  Inv'
  <2> DEFINE r == [NewResponse(id, NoToken, new) EXCEPT !.rt = IF new THEN grants + 1 ELSE 0]
  <2>1. r.access = NoToken /\ r.id = id BY DEF NewResponse
  <2>2. resp' = r /\ (GoogleRefreshed(r) \/ GoogleRedeemed(r)) BY <1>4 DEF Grant
  <2> HIDE DEF r
  <2>3. Reported(r) = {} BY <2>1, PlainResponse DEF NoToken
  <2>4. Heard BY <1>1, <1>4 DEF Heard
  <2> DEFINE s == [Empty EXCEPT !.at = r.n, !.idt = r.was.sub, !.rt = r.rt, !.mail = "mail", !.user = r.was.sub]
             t == [ss EXCEPT !.at = r.n, !.idt = IF r.id = NoToken THEN "" ELSE r.was.sub]
  <2>5. Good(s, told'.since) BY DEF Good, Empty, Fields
  <2>6. Good(t, told'.since) BY <2>4, HeardGood DEF Good, Fields
  <2>7. /\ groupValidator(s) \/ groupValidator(t) \/ Fail(ss)
        /\ mailSaid' = mailSaid \/ mailSaid' = "verified"
    BY <2>2 DEF GoogleRedeemed, GoogleRefreshed
  <2> HIDE DEF s, t
  <2>8. Outcome BY <2>4, <2>5, <2>6, <2>7, GroupValidatorOutcome, FailOutcome, HeardGood
  <2> QED BY <1>1, <1>4, <2>2, <2>3, <2>7, <2>8, TokenInv DEF Inv
<1> QED BY <1>2, <1>3, <1>4 DEF GoogleToken

LEMMA LoginGovTokenInv == ASSUME Inv, LoginGovToken PROVE Inv'
<1>1. call \in Before /\ op # "idle" /\ UNCHANGED <<p, seen>> BY InOperation DEF LoginGovToken, Before
<1>2. CASE TokenFault BY <1>1, <1>2, TokenFaultInv
<1>3. CASE /\ Grant(NewResponse({}, NoToken, FALSE), FALSE) /\ UNCHANGED <<told, mailSaid>>
           /\ Ask("jwks", [Empty EXCEPT !.at = grants + 1, !.idt = dir.sub])
  <2> DEFINE r == NewResponse({}, NoToken, FALSE)
             s == [Empty EXCEPT !.at = grants + 1, !.idt = dir.sub]
  <2>1. r.access = NoToken /\ r.id = {} BY DEF NewResponse
  <2>2. resp' = r /\ Ask("jwks", s) BY <1>3 DEF Grant
  <2>3. Good(s, told'.since) BY DEF Good, Empty, Fields
  <2> HIDE DEF r, s
  <2>4. Reported(r) = {} BY <2>1, PlainResponse
  <2>5. Heard BY <1>1, <1>3 DEF Heard
  <2>6. Outcome BY <2>2, <2>3, <2>5, AskOutcome
  <2> QED BY <1>1, <1>3, <2>2, <2>4, <2>6, TokenInv DEF Inv
<1> QED BY <1>2, <1>3 DEF LoginGovToken

LEMMA AzureTokenInv == ASSUME Inv, AzureToken PROVE Inv'
<1>1. call \in Before /\ op # "idle" /\ UNCHANGED <<p, seen>> BY InOperation DEF AzureToken, Before
<1>2. CASE TokenFault BY <1>1, <1>2, TokenFaultInv
<1>3. CASE FailFatally(ss) /\ UNCHANGED <<resp, mailSaid, told>> BY <1>1, <1>3, InvalidGrantInv
<1>4. ASSUME NEW id, NEW access, NEW new,
             LET r == NewResponse(id, access, new)
             IN  /\ Grant(r, new) /\ Hear(Reported(r))
                 /\ Ask("idClaims", AzureTokens(r)),
             UNCHANGED mailSaid
      PROVE  Inv'
  <2> DEFINE r == NewResponse(id, access, new)
  <2>1. resp' = r /\ Hear(Reported(r)) /\ Ask("idClaims", AzureTokens(r)) BY <1>4 DEF Grant
  <2> HIDE DEF r
  <2>2. /\ told.since \subseteq told'.since /\ Reported(r) \subseteq told'.since
        /\ DOMAIN told' = {"since", "now"}
    BY <2>1, HearMore
  <2>3. Heard BY <1>1, <2>2 DEF Heard
  <2>4. Good(AzureTokens(r), told'.since) BY <2>3, HeardGood DEF AzureTokens, Good, Fields
  <2>5. Outcome BY <2>1, <2>3, <2>4, AskOutcome
  <2> QED BY <1>1, <1>4, <2>1, <2>2, <2>5, TokenInv
<1> QED BY <1>2, <1>3, <1>4 DEF AzureToken

-----------------------------------------------------------------------------
(* Azure's claims and profile.                                               *)

LEMMA AzureErrorOutcome ==
  ASSUME Heard, NEW s, Good(s, told'.since), AzureError(s)
  PROVE  Outcome
<1>1. AzureMail(s) \/ Finish(s) \/ Fail(s) BY DEF AzureError
<1> QED BY <1>1, AzureMailOutcome, FinishOutcome, FailOutcome

LEMMA AzureClaimsOutcome ==
  ASSUME Heard, NEW b, b.groups \subseteq told'.since, AzureClaims(b)
  PROVE  Outcome /\ mailSaid' = b.said
<1> DEFINE s == [ss EXCEPT !.mail = b.mail, !.groups = IF b.listed THEN b.groups ELSE @]
<1>1. (AzureMail(s) \/ Finish(s) \/ Ask("idAgain", s)) /\ mailSaid' = b.said BY DEF AzureClaims
<1>2. Good(s, told'.since) BY HeardGood DEF Good, Fields
<1> HIDE DEF s
<1> QED BY <1>1, <1>2, AzureMailOutcome, FinishOutcome, AskOutcome

\* Both steps that read claims: with an answer, and without one.
LEMMA AzureReadInv ==
  ASSUME Inv, call \in Before, Rest, UNCHANGED seen, NEW has \in {resp.id, resp.access}, NEW more, NEW c,
         Hear(IF "groups" \in more THEN dir.groups ELSE {}),
         LET b == buildSessionFromClaims(resp, has, more)
         IN  \/ b.ok /\ AzureClaims(b)
             \/ (Ask(c, ss) \/ AzureError(ss)) /\ UNCHANGED mailSaid
  PROVE  Inv'
<1> DEFINE b == buildSessionFromClaims(resp, has, more)
<1>1. /\ told.since \subseteq told'.since /\ DOMAIN told' = {"since", "now"}
      /\ "groups" \in more => dir.groups \subseteq told'.since
  BY HearMore
<1>2. Heard /\ Reported(resp) \subseteq told'.since BY <1>1, InOperation DEF Heard, Inv, Before
<1>3. b.groups \subseteq told'.since /\ (b.ok /\ VerifyEmail => b.said # "unverified")
  BY <1>1, <1>2, ClaimsGood
<1>4. (b.ok /\ AzureClaims(b)) \/ ((Ask(c, ss) \/ AzureError(ss)) /\ UNCHANGED mailSaid) OBVIOUS
<1> HIDE DEF b
<1>5. Outcome /\ (mailSaid' = mailSaid \/ mailSaid' # "unverified" \/ Lenient)
  BY <1>2, <1>3, <1>4, HeardGood, AzureClaimsOutcome, AskOutcome, AzureErrorOutcome DEF Lenient
<1> QED BY <1>1, <1>5, ListedBefore, RestInv

LEMMA AzureNotReadInv ==
  ASSUME Inv, call \in Before, Rest, UNCHANGED <<seen, told, mailSaid>>, NEW c,
         Ask(c, ss) \/ AzureError(ss) \/ Fail(ss)
  PROVE  Inv'
<1>1. Heard BY InOperation DEF Heard, Before
<1>2. Outcome BY <1>1, HeardGood, AskOutcome, AzureErrorOutcome, FailOutcome
<1> QED BY <1>2, ListedBefore, RestInv DEF Inv

LEMMA AzureIDClaimsInv == ASSUME Inv, AzureIDClaims PROVE Inv'
<1> DEFINE other == IF call = "idClaims" THEN "atClaims" ELSE "atAgain"
<1>1. call \in Before /\ UNCHANGED seen /\ Rest BY DEF AzureIDClaims, Before
<1>2. CASE (Ask(other, ss) \/ AzureError(ss)) /\ UNCHANGED <<mailSaid, told>>
  BY <1>1, <1>2, AzureNotReadInv
<1>3. ASSUME NEW more,
             LET b == buildSessionFromClaims(resp, resp.id, more)
             IN  /\ Hear(IF "groups" \in more THEN dir.groups ELSE {})
                 /\ IF b.ok /\ b.mail # "" THEN AzureClaims(b)
                    ELSE Ask(other, ss) /\ UNCHANGED mailSaid
      PROVE  Inv'
  <2> DEFINE b == buildSessionFromClaims(resp, resp.id, more)
  <2> HIDE DEF other
  <2>1. \/ b.ok /\ AzureClaims(b)
        \/ Ask(other, ss) /\ UNCHANGED mailSaid
    BY <1>3
  <2> QED BY <1>1, <1>3, <2>1, AzureReadInv
<1> QED BY <1>2, <1>3 DEF AzureIDClaims

LEMMA AzureATClaimsInv == ASSUME Inv, AzureATClaims PROVE Inv'
<1>1. call \in Before /\ UNCHANGED seen /\ Rest BY DEF AzureATClaims, Before
<1>2. CASE AzureError(ss) /\ UNCHANGED <<mailSaid, told>> BY <1>1, <1>2, AzureNotReadInv
<1>3. ASSUME NEW more,
             LET b == buildSessionFromClaims(resp, resp.access, more)
             IN  /\ Hear(IF "groups" \in more THEN dir.groups ELSE {})
                 /\ IF resp.access # NoToken /\ b.ok THEN AzureClaims(b)
                    ELSE AzureError(ss) /\ UNCHANGED mailSaid
      PROVE  Inv'
  <2> DEFINE b == buildSessionFromClaims(resp, resp.access, more)
  <2>1. \/ b.ok /\ AzureClaims(b)
        \/ AzureError(ss) /\ UNCHANGED mailSaid
    BY <1>3
  <2> QED BY <1>1, <1>3, <2>1, AzureReadInv
<1> QED BY <1>2, <1>3 DEF AzureATClaims

LEMMA GoodMail == ASSUME NEW s, NEW names, NEW mail, Good(s, names) PROVE Good([s EXCEPT !.mail = mail], names)
BY DEF Good, Fields
LEMMA GoodUser == ASSUME NEW s, NEW names, NEW user, Good(s, names) PROVE Good([s EXCEPT !.user = user], names)
BY DEF Good, Fields
LEMMA GoodGroups ==
  ASSUME NEW s, NEW names, NEW groups, Good(s, names), groups \subseteq names
  PROVE  Good([s EXCEPT !.groups = groups], names) /\ Good([s EXCEPT !.groups = @ \cup groups], names)
BY DEF Good, Fields

LEMMA AzureProfileInv == ASSUME Inv, AzureProfile PROVE Inv'
<1>1. call \in Before /\ op # "idle" /\ UNCHANGED <<told, seen>> /\ Rest
  BY InOperation DEF AzureProfile, Before
<1>2. Heard BY <1>1 DEF Heard
<1>3. \/ Fail(ss) /\ UNCHANGED mailSaid
      \/ AzureGroups([ss EXCEPT !.mail = "mail"]) /\ Lenient
  BY DEF AzureProfile, Lenient, Verifying, OIDC
<1>4. Good([ss EXCEPT !.mail = "mail"], told'.since) BY <1>2, HeardGood, GoodMail
<1>5. Outcome BY <1>2, <1>3, <1>4, HeardGood, FailOutcome, AzureGroupsOutcome
<1> QED BY <1>1, <1>3, <1>5, ListedBefore, RestInv DEF Inv

-----------------------------------------------------------------------------
(* Listings and membership tests.                                            *)

LEMMA GraphPageInv == ASSUME Inv, GraphPage PROVE Inv'
<1>1. op # "idle" /\ UNCHANGED mailSaid /\ Rest /\ seen \subseteq told.since
  BY InOperation DEF GraphPage, Inv, Listed, Listings
<1>2. CASE GraphFailed /\ UNCHANGED <<told, seen>>
  <2>1. Heard BY <1>1, <1>2 DEF Heard
  <2>2. Outcome /\ call' \in {"none", "validate"}
    BY <1>2, <2>1, HeardGood, FailOutcome, FinishOutcome DEF GraphFailed
  <2>3. Listed' BY <2>2, ListedQuiet DEF Before, Listings
  <2> QED BY <1>1, <1>2, <2>2, <2>3, RestInv DEF Inv
<1>3. ASSUME NEW new, NEW last, Hear(new), seen' = seen \cup new,
             IF last THEN Finish([ss EXCEPT !.groups = @ \cup seen']) ELSE Ask("graph", ss)
      PROVE  Inv'
  <2>1. told.since \subseteq told'.since /\ new \subseteq told'.since /\ DOMAIN told' = {"since", "now"}
    BY <1>3, HearMore
  <2>2. Heard /\ seen' \subseteq told'.since BY <1>1, <1>3, <2>1 DEF Heard
  <2>3. Good([ss EXCEPT !.groups = @ \cup seen'], told'.since) BY <2>2, HeardGood, GoodGroups
  <2>4. Outcome /\ call' \in {"validate", "graph"}
    BY <1>3, <2>2, <2>3, HeardGood, FinishOutcome, AskOutcome
  <2>5. Listed' BY <2>2, <2>4 DEF Listed, Before
  <2> QED BY <1>1, <2>1, <2>4, <2>5, RestInv
<1> QED BY <1>2, <1>3 DEF GraphPage

LEMMA GoogleListingInv == ASSUME Inv, GoogleListing PROVE Inv'
<1>1. op # "idle" /\ UNCHANGED mailSaid /\ Rest /\ seen \subseteq told.since
  BY InOperation DEF GoogleListing, Inv, Listed, Listings
<1>2. CASE GoogleName([ss EXCEPT !.groups = {}]) /\ UNCHANGED <<told, seen>>
  <2>1. Heard BY <1>1, <1>2 DEF Heard
  <2>2. Good([ss EXCEPT !.groups = {}], told'.since) BY <2>1, HeardGood, GoodWithout
  <2>3. Outcome /\ call' \in {"name", "validate"} BY <1>2, <2>1, <2>2, GoogleNameOutcome
  <2>4. Listed' BY <2>3, ListedQuiet DEF Before, Listings
  <2> QED BY <1>1, <1>2, <2>3, <2>4, RestInv DEF Inv
<1>3. ASSUME NEW new, NEW last, Hear(new), seen' = seen \cup new,
             IF last THEN GoogleName([ss EXCEPT !.groups = seen']) ELSE Ask("listing", ss)
      PROVE  Inv'
  <2>1. told.since \subseteq told'.since /\ new \subseteq told'.since /\ DOMAIN told' = {"since", "now"}
    BY <1>3, HearMore
  <2>2. Heard /\ seen' \subseteq told'.since BY <1>1, <1>3, <2>1 DEF Heard
  <2>3. Good([ss EXCEPT !.groups = seen'], told'.since) BY <2>2, HeardGood, GoodGroups
  <2>4. Outcome /\ call' \in {"name", "validate", "listing"}
    BY <1>3, <2>2, <2>3, HeardGood, GoogleNameOutcome, AskOutcome
  <2>5. Listed' BY <2>2, <2>4 DEF Listed, Before
  <2> QED BY <1>1, <2>1, <2>4, <2>5, RestInv
<1> QED BY <1>2, <1>3 DEF GoogleListing

\* A step of any other handler: it leads to no listing of this kind.
LEMMA QuietInv ==
  ASSUME Inv, Rest, Outcome, told.since \subseteq told'.since, DOMAIN told' = {"since", "now"},
         call' \notin Before \cup Listings,
         mailSaid' = mailSaid \/ mailSaid' # "unverified" \/ Lenient
  PROVE  Inv'
BY ListedQuiet, RestInv

\* A name that is not the answer's is not added.
LEMMA GoogleCheckedOutcome ==
  ASSUME Heard, NEW group, NEW member, member => group \in told'.since, GoogleChecked(group, member)
  PROVE  Outcome /\ call' \in {"member", "name", "validate", "none"}
<1> DEFINE s == [ss EXCEPT !.groups = IF member THEN @ \cup {group} ELSE @]
<1>1. Good(s, told'.since) BY HeardGood DEF Good, Fields
<1>2. Ask("member", s) \/ Fail(s) \/ GoogleName(s) BY DEF GoogleChecked
<1> HIDE DEF s
<1> QED BY <1>1, <1>2, AskOutcome, FailOutcome, GoogleNameOutcome

LEMMA GoogleMemberInv == ASSUME Inv, GoogleMember PROVE Inv'
<1>1. op # "idle" /\ UNCHANGED mailSaid /\ Rest BY InOperation DEF GoogleMember
<1>2. PICK group : userInGroup(group) BY DEF GoogleMember
<1>3. CASE GoogleChecked(group, group \in dir.groups) /\ Hear(dir.groups \cap {group})
  <2>1. /\ told.since \subseteq told'.since /\ dir.groups \cap {group} \subseteq told'.since
        /\ DOMAIN told' = {"since", "now"}
    BY <1>3, HearMore
  <2>2. Heard BY <1>1, <2>1 DEF Heard
  <2>3. Outcome /\ call' \in {"member", "name", "validate", "none"}
    BY <1>3, <2>1, <2>2, GoogleCheckedOutcome
  <2> QED BY <1>1, <2>1, <2>3, QuietInv DEF Before, Listings
<1>4. CASE Ask("get", ss) /\ UNCHANGED told
  <2>1. Heard BY <1>1, <1>4 DEF Heard
  <2>2. Outcome /\ call' = "get" BY <1>4, <2>1, HeardGood, AskOutcome
  <2> QED BY <1>1, <1>4, <2>2, QuietInv DEF Before, Listings, Inv
<1>5. CASE GoogleChecked(group, FALSE) /\ UNCHANGED told
  <2>1. Heard BY <1>1, <1>5 DEF Heard
  <2>2. Outcome /\ call' \in {"member", "name", "validate", "none"}
    BY <1>5, <2>1, GoogleCheckedOutcome
  <2> QED BY <1>1, <1>5, <2>2, QuietInv DEF Before, Listings, Inv
<1> QED BY <1>2, <1>3, <1>4, <1>5 DEF userInGroup

LEMMA GoogleUserInv == ASSUME Inv, GoogleUser PROVE Inv'
<1>1. op # "idle" /\ UNCHANGED <<mailSaid, told>> /\ Rest BY InOperation DEF GoogleUser
<1>2. Heard BY <1>1 DEF Heard
<1>3. Finish(ss) \/ Fail(ss) BY DEF GoogleUser
<1>4. Outcome /\ call' \in {"validate", "none"} BY <1>2, <1>3, HeardGood, FinishOutcome, FailOutcome
<1> QED BY <1>1, <1>4, QuietInv DEF Before, Listings, Inv

-----------------------------------------------------------------------------
(* GitHub.                                                                   *)

LEMMA GitHubMembershipOutcome ==
  ASSUME Heard, NEW s, Good(s, told'.since), GitHubMembership(s)
  PROVE  Outcome /\ call' \in {"repo", "emails", "validate", "none"}
<1>1. Fail(s) \/ Ask("repo", s) \/ Ask("emails", s) BY DEF GitHubMembership
<1> QED BY <1>1, FailOutcome, AskOutcome

\* A page of organisations or of teams.
LEMMA GitHubPageInv ==
  ASSUME Inv, op # "idle", Rest, UNCHANGED mailSaid, NEW new, NEW c \in {"orgs", "teams", "hasUser"},
         Hear(new), Ask(c, [ss EXCEPT !.groups = @ \cup new]) \/ Ask(c, ss) \/ GitHubMembership(ss)
  PROVE  Inv'
<1>1. told.since \subseteq told'.since /\ new \subseteq told'.since /\ DOMAIN told' = {"since", "now"}
  BY HearMore
<1>2. Heard BY <1>1 DEF Heard
<1>3. Good([ss EXCEPT !.groups = @ \cup new], told'.since) BY <1>1, <1>2, HeardGood, GoodGroups
<1>4. Outcome /\ call' \in {"orgs", "teams", "hasUser", "repo", "emails", "validate", "none"}
  BY <1>2, <1>3, HeardGood, AskOutcome, GitHubMembershipOutcome
<1> QED BY <1>1, <1>4, QuietInv DEF Before, Listings

\* Any handler that gives up.
LEMMA FailInv ==
  ASSUME Inv, op # "idle", Rest, UNCHANGED <<told, mailSaid>>, Fail(ss)
  PROVE  Inv'
<1>1. Heard BY DEF Heard
<1>2. Outcome /\ call' \in {"validate", "none"} BY <1>1, HeardGood, FailOutcome
<1> QED BY <1>2, QuietInv DEF Before, Listings, Inv

LEMMA GitHubOrgsInv == ASSUME Inv, GitHubOrgs PROVE Inv'
<1>1. op # "idle" /\ UNCHANGED mailSaid /\ Rest BY InOperation DEF GitHubOrgs
<1>2. CASE Fail(ss) /\ UNCHANGED told BY <1>1, <1>2, FailInv
<1>3. ASSUME NEW new, NEW last, Hear(new),
             IF last THEN Ask("teams", ss) /\ seen' = {}
             ELSE Ask("orgs", [ss EXCEPT !.groups = @ \cup new]) /\ seen' = seen \cup new
      PROVE  Inv'
  BY <1>1, <1>3, GitHubPageInv
<1> QED BY <1>2, <1>3 DEF GitHubOrgs

LEMMA GitHubTeamsInv == ASSUME Inv, GitHubTeams PROVE Inv'
<1>1. op # "idle" /\ UNCHANGED mailSaid /\ Rest BY InOperation DEF GitHubTeams
<1>2. CASE Fail(ss) /\ UNCHANGED told BY <1>1, <1>2, FailInv
<1>3. ASSUME NEW new, NEW last, Hear(new),
             IF ~last
             THEN Ask("teams", [ss EXCEPT !.groups = @ \cup new]) /\ seen' = seen \cup new
             ELSE /\ seen' = {}
                  /\ IF Flag("users") THEN Ask("hasUser", ss) ELSE GitHubMembership(ss)
      PROVE  Inv'
  BY <1>1, <1>3, GitHubPageInv
<1> QED BY <1>2, <1>3 DEF GitHubTeams

LEMMA GitHubHasUserInv == ASSUME Inv, GitHubHasUser PROVE Inv'
<1>1. op # "idle" /\ UNCHANGED <<mailSaid, told>> /\ Rest BY InOperation DEF GitHubHasUser
<1>2. Heard BY <1>1 DEF Heard
<1>3. Fail(ss) \/ Ask("emails", ss) \/ GitHubMembership(ss)
  BY DEF GitHubHasUser, checkUserRestriction
<1>4. Outcome /\ call' \in {"repo", "emails", "validate", "none"}
  BY <1>2, <1>3, HeardGood, FailOutcome, AskOutcome, GitHubMembershipOutcome
<1> QED BY <1>1, <1>4, QuietInv DEF Before, Listings, Inv

LEMMA GitHubRepoInv == ASSUME Inv, GitHubRepo PROVE Inv'
<1>1. op # "idle" /\ UNCHANGED <<mailSaid, told>> /\ Rest BY InOperation DEF GitHubRepo
<1>2. Heard BY <1>1 DEF Heard
<1>3. Fail(ss) \/ Ask("emails", ss) BY DEF GitHubRepo
<1>4. Outcome /\ call' \in {"emails", "validate", "none"} BY <1>2, <1>3, HeardGood, FailOutcome, AskOutcome
<1> QED BY <1>1, <1>4, QuietInv DEF Before, Listings, Inv

LEMMA GitHubEmailsInv == ASSUME Inv, GitHubEmails PROVE Inv'
<1>1. op # "idle" /\ UNCHANGED told /\ Rest BY InOperation DEF GitHubEmails
<1>2. Heard BY <1>1 DEF Heard
<1>3. \/ Fail(ss) /\ UNCHANGED mailSaid
      \/ Ask("user", [ss EXCEPT !.mail = "mail"]) /\ mailSaid' = "verified"
      \/ Ask("user", ss) /\ UNCHANGED mailSaid
  BY DEF GitHubEmails
<1>4. Good([ss EXCEPT !.mail = "mail"], told'.since) BY <1>2, HeardGood, GoodMail
<1>5. Outcome /\ call' \in {"user", "validate", "none"}
  BY <1>2, <1>3, <1>4, HeardGood, FailOutcome, AskOutcome
<1> QED BY <1>1, <1>3, <1>5, QuietInv DEF Before, Listings, Inv

LEMMA GitHubUserInv == ASSUME Inv, GitHubUser \/ GitHubCollaborator PROVE Inv'
<1>1. op # "idle" /\ UNCHANGED <<mailSaid, told>> /\ Rest BY InOperation DEF GitHubUser, GitHubCollaborator
<1>2. Heard BY <1>1 DEF Heard
<1>3. Fail(ss) \/ Ask("collaborator", ss) \/ Finish([ss EXCEPT !.user = "login"])
  BY DEF GitHubUser, GitHubCollaborator
<1>4. Good([ss EXCEPT !.user = "login"], told'.since) BY <1>2, HeardGood, GoodUser
<1>5. Outcome /\ call' \in {"collaborator", "validate", "none"}
  BY <1>2, <1>3, <1>4, HeardGood, FailOutcome, AskOutcome, FinishOutcome
<1> QED BY <1>1, <1>5, QuietInv DEF Before, Listings, Inv

-----------------------------------------------------------------------------
(* The other types.                                                          *)

LEMMA ProfileAnswerInv ==
  ASSUME Inv, NEW type \in ProfileTypes, NEW groups, ProfileAnswer(type, groups)
  PROVE  Inv'
<1>1. op # "idle" /\ Rest BY InOperation DEF ProfileAnswer
<1>2. CASE Fail(ss) /\ UNCHANGED <<told, mailSaid>> BY <1>1, <1>2, FailInv
<1>3. CASE /\ Hear(groups)
           /\ IF dir.mail = "none" THEN Fail(ss) /\ UNCHANGED mailSaid
              ELSE /\ Finish([ss EXCEPT !.groups = @ \cup groups, !.mail = "mail", !.user = "login"])
                   /\ mailSaid' = dir.mail
  <2> DEFINE s == [ss EXCEPT !.groups = @ \cup groups, !.mail = "mail", !.user = "login"]
  <2>1. told.since \subseteq told'.since /\ groups \subseteq told'.since /\ DOMAIN told' = {"since", "now"}
    BY <1>3, HearMore
  <2>2. Heard BY <1>1, <2>1 DEF Heard
  <2>3. Good(s, told'.since) BY <2>1, <2>2, HeardGood DEF Good, Fields
  <2>4. (Fail(ss) /\ UNCHANGED mailSaid) \/ (Finish(s) /\ Lenient)
    <3>1. Lenient BY DEF ProfileAnswer, ProfileTypes, Lenient, Verifying, OIDC
    <3> QED BY <1>3, <3>1
  <2> HIDE DEF s
  <2>5. Outcome /\ call' \in {"validate", "none"}
    BY <2>2, <2>3, <2>4, HeardGood, FailOutcome, FinishOutcome
  <2> QED BY <1>1, <2>1, <2>4, <2>5, QuietInv DEF Before, Listings
<1> QED BY <1>2, <1>3 DEF ProfileAnswer

LEMMA AddressAnswerInv == ASSUME Inv, NEW type \in AddressTypes, AddressAnswer(type) PROVE Inv'
<1>1. op # "idle" /\ UNCHANGED told /\ Rest BY InOperation DEF AddressAnswer
<1>2. Heard BY <1>1 DEF Heard
<1>3. \/ Fail(ss) /\ UNCHANGED mailSaid
      \/ Finish([ss EXCEPT !.mail = "mail"]) /\ Lenient
  BY DEF AddressAnswer, AddressTypes, Lenient, Verifying, OIDC
<1>4. Good([ss EXCEPT !.mail = "mail"], told'.since) BY <1>2, HeardGood, GoodMail
<1>5. Outcome /\ call' \in {"validate", "none"}
  BY <1>2, <1>3, <1>4, HeardGood, FailOutcome, FinishOutcome
<1> QED BY <1>1, <1>3, <1>5, QuietInv DEF Before, Listings, Inv

LEMMA BitbucketRepoOutcome ==
  ASSUME Heard, NEW mail, BitbucketRepo(mail)
  PROVE  Outcome /\ call' \in {"repositories", "validate"}
<1>1. Good([ss EXCEPT !.mail = mail], told'.since) BY HeardGood, GoodMail
<1> QED BY <1>1, AskOutcome, FinishOutcome DEF BitbucketRepo

LEMMA BitbucketEmailsInv == ASSUME Inv, BitbucketEmails PROVE Inv'
<1> DEFINE mail == IF dir.mail = "none" THEN "" ELSE "mail"
<1>1. op # "idle" /\ UNCHANGED told /\ Rest BY InOperation DEF BitbucketEmails
<1>2. Heard BY <1>1 DEF Heard
<1>3. \/ Fail(ss) /\ UNCHANGED mailSaid
      \/ /\ Ask("bbTeams", [ss EXCEPT !.mail = mail]) \/ BitbucketRepo(mail)
         /\ Lenient
  BY DEF BitbucketEmails, Lenient, Verifying, OIDC
<1> HIDE DEF mail
<1>4. Good([ss EXCEPT !.mail = mail], told'.since) BY <1>2, HeardGood, GoodMail
<1>5. Outcome /\ call' \in {"bbTeams", "repositories", "validate", "none"}
  BY <1>2, <1>3, <1>4, HeardGood, FailOutcome, AskOutcome, BitbucketRepoOutcome
<1> QED BY <1>1, <1>3, <1>5, QuietInv DEF Before, Listings, Inv

LEMMA BitbucketTeamsInv == ASSUME Inv, BitbucketTeams PROVE Inv'
<1>1. op # "idle" /\ UNCHANGED mailSaid /\ Rest BY InOperation DEF BitbucketTeams
<1>2. CASE Fail(ss) /\ UNCHANGED told BY <1>1, <1>2, FailInv
<1>3. CASE /\ Hear(dir.extra)
           /\ IF Team \in dir.extra THEN BitbucketRepo(ss.mail) ELSE Finish([ss EXCEPT !.mail = ""])
  <2>1. told.since \subseteq told'.since /\ DOMAIN told' = {"since", "now"} BY <1>3, HearMore
  <2>2. Heard BY <1>1, <2>1 DEF Heard
  <2>3. Good([ss EXCEPT !.mail = ""], told'.since) BY <2>2, HeardGood, GoodMail
  <2>4. Outcome /\ call' \in {"repositories", "validate"}
    BY <1>3, <2>2, <2>3, BitbucketRepoOutcome, FinishOutcome
  <2> QED BY <1>1, <2>1, <2>4, QuietInv DEF Before, Listings
<1> QED BY <1>2, <1>3 DEF BitbucketTeams

LEMMA BitbucketRepositoriesInv == ASSUME Inv, BitbucketRepositories PROVE Inv'
<1>1. op # "idle" /\ UNCHANGED <<told, mailSaid>> /\ Rest BY InOperation DEF BitbucketRepositories
<1>2. Heard BY <1>1 DEF Heard
<1> DEFINE s == [ss EXCEPT !.mail = IF "repo" \in dir.access THEN @ ELSE ""]
<1>3. Fail(ss) \/ Finish(s) BY DEF BitbucketRepositories
<1>4. Good(s, told'.since) BY <1>2, HeardGood DEF Good, Fields
<1> HIDE DEF s
<1>5. Outcome /\ call' \in {"validate", "none"}
  BY <1>2, <1>3, <1>4, HeardGood, FailOutcome, FinishOutcome
<1> QED BY <1>1, <1>5, QuietInv DEF Before, Listings, Inv

LEMMA GitLabUserinfoInv == ASSUME Inv, GitLabUserinfo PROVE Inv'
<1>1. op # "idle" /\ Rest BY InOperation DEF GitLabUserinfo
<1>2. CASE Fail(ss) /\ UNCHANGED <<told, mailSaid>> BY <1>1, <1>2, FailInv
<1>3. ASSUME Hear(dir.groups), NEW nickname,
             LET s == [ss EXCEPT !.user = IF nickname THEN "login" ELSE @,
                                 !.mail = IF dir.mail = "none" THEN @ ELSE "mail",
                                 !.groups = IF dir.groups = {} THEN @ ELSE dir.groups]
             IN  IF VerifyEmail /\ dir.mail # "verified" THEN Fail(ss) /\ UNCHANGED mailSaid
                 ELSE /\ IF Projects = {} THEN Finish(s) ELSE Ask("project", s)
                      /\ mailSaid' = IF dir.mail = "none" THEN mailSaid ELSE dir.mail
      PROVE  Inv'
  <2> DEFINE s == [ss EXCEPT !.user = IF nickname THEN "login" ELSE @,
                             !.mail = IF dir.mail = "none" THEN @ ELSE "mail",
                             !.groups = IF dir.groups = {} THEN @ ELSE dir.groups]
  <2>1. /\ told.since \subseteq told'.since /\ dir.groups \subseteq told'.since
        /\ DOMAIN told' = {"since", "now"}
    BY <1>3, HearMore
  <2>2. Heard BY <1>1, <2>1 DEF Heard
  <2>3. Good(s, told'.since) BY <2>1, <2>2, HeardGood DEF Good, Fields
  <2>4. \/ Fail(ss) /\ UNCHANGED mailSaid
        \/ /\ ~(VerifyEmail /\ dir.mail # "verified") /\ (Finish(s) \/ Ask("project", s))
           /\ mailSaid' = IF dir.mail = "none" THEN mailSaid ELSE dir.mail
    BY <1>3
  <2> HIDE DEF s
  <2>5. Outcome /\ call' \in {"project", "validate", "none"}
    BY <2>2, <2>3, <2>4, HeardGood, FailOutcome, FinishOutcome, AskOutcome
  <2>6. mailSaid' = mailSaid \/ mailSaid' # "unverified" \/ Lenient BY <2>4 DEF Lenient
  <2> QED BY <1>1, <2>1, <2>5, <2>6, QuietInv DEF Before, Listings
<1> QED BY <1>2, <1>3 DEF GitLabUserinfo

LEMMA GitLabProjectInv == ASSUME Inv, GitLabProject PROVE Inv'
<1>1. op # "idle" /\ UNCHANGED mailSaid /\ Rest BY InOperation DEF GitLabProject
<1>2. PICK project, ok :
        LET found == IF ok THEN dir.extra \cap {project} ELSE {}
            s == [ss EXCEPT !.groups = @ \cup found]
        IN  Hear(found) /\ (IF seen' = Projects THEN Finish(s) ELSE Ask("project", s))
  BY DEF GitLabProject
<1> DEFINE found == IF ok THEN dir.extra \cap {project} ELSE {}
           s == [ss EXCEPT !.groups = @ \cup found]
<1>3. Hear(found) /\ (Finish(s) \/ Ask("project", s)) BY <1>2
<1> HIDE DEF found
<1>4. told.since \subseteq told'.since /\ found \subseteq told'.since /\ DOMAIN told' = {"since", "now"}
  BY <1>3, HearMore
<1>5. Heard BY <1>1, <1>4 DEF Heard
<1>6. Good(s, told'.since) BY <1>4, <1>5, HeardGood, GoodGroups
<1> HIDE DEF s
<1>7. Outcome /\ call' \in {"project", "validate"} BY <1>3, <1>5, <1>6, FinishOutcome, AskOutcome
<1> QED BY <1>1, <1>4, <1>7, QuietInv DEF Before, Listings

LEMMA CidaasUserinfoInv == ASSUME Inv, CidaasUserinfo PROVE Inv'
<1>1. op # "idle" /\ Rest BY InOperation DEF CidaasUserinfo
<1>2. CASE (IF ss.mail = "" THEN Fail(ss) ELSE Finish(ss)) /\ UNCHANGED <<told, mailSaid>>
  <2>1. Heard BY <1>1, <1>2 DEF Heard
  <2>2. Outcome /\ call' \in {"validate", "none"} BY <1>2, <2>1, HeardGood, FailOutcome, FinishOutcome
  <2> QED BY <1>1, <1>2, <2>2, QuietInv DEF Before, Listings, Inv
<1>3. ASSUME Hear(dir.groups \cup dir.extra), NEW decoded,
             LET fresh == ss.mail = "" /\ dir.mail # "none"
                 s == [ss EXCEPT !.mail = IF fresh THEN "mail" ELSE @,
                                 !.groups = IF decoded THEN dir.groups \cup dir.extra ELSE @]
             IN  /\ IF s.mail = "" THEN Fail(s) ELSE Finish(s)
                 /\ mailSaid' = IF fresh THEN dir.mail ELSE mailSaid
      PROVE  Inv'
  <2> DEFINE fresh == ss.mail = "" /\ dir.mail # "none"
             s == [ss EXCEPT !.mail = IF fresh THEN "mail" ELSE @,
                             !.groups = IF decoded THEN dir.groups \cup dir.extra ELSE @]
  <2>1. /\ told.since \subseteq told'.since /\ dir.groups \cup dir.extra \subseteq told'.since
        /\ DOMAIN told' = {"since", "now"}
    BY <1>3, HearMore
  <2>2. Heard BY <1>1, <2>1 DEF Heard
  <2>3. (Fail(s) \/ Finish(s)) /\ Lenient
    BY <1>3 DEF CidaasUserinfo, Lenient, Verifying
  <2> HIDE DEF fresh
  <2>4. Good(s, told'.since) BY <2>1, <2>2, HeardGood DEF Good, Fields
  <2> HIDE DEF s
  <2>5. Outcome /\ call' \in {"validate", "none"} BY <2>2, <2>3, <2>4, FailOutcome, FinishOutcome
  <2> QED BY <1>1, <2>1, <2>3, <2>5, QuietInv DEF Before, Listings
<1> QED BY <1>2, <1>3 DEF CidaasUserinfo

LEMMA ADFSInv == ASSUME Inv, ADFSfallbackUPN PROVE Inv'
<1>1. op # "idle" /\ UNCHANGED told /\ Rest BY InOperation DEF ADFSfallbackUPN
<1>2. Heard BY <1>1 DEF Heard
<1>3. \/ Finish([ss EXCEPT !.mail = "upn"]) /\ mailSaid' = "unstated"
      \/ (Finish(ss) \/ Fail(ss)) /\ UNCHANGED mailSaid
  BY DEF ADFSfallbackUPN
<1>4. Good([ss EXCEPT !.mail = "upn"], told'.since) BY <1>2, HeardGood, GoodMail
<1>5. Outcome /\ call' \in {"validate", "none"}
  BY <1>2, <1>3, <1>4, HeardGood, FailOutcome, FinishOutcome
<1> QED BY <1>1, <1>3, <1>5, QuietInv DEF Before, Listings, Inv

LEMMA LoginGovInv == ASSUME Inv, LoginGovKeys \/ LoginGovMail PROVE Inv'
<1>1. op # "idle" /\ UNCHANGED told /\ Rest BY InOperation DEF LoginGovKeys, LoginGovMail
<1>2. Heard BY <1>1 DEF Heard
<1>3. \/ (Ask("govMail", ss) \/ Fail(ss)) /\ UNCHANGED mailSaid
      \/ Finish([ss EXCEPT !.mail = "mail"]) /\ mailSaid' = "verified"
  BY DEF LoginGovKeys, LoginGovMail
<1>4. Good([ss EXCEPT !.mail = "mail"], told'.since) BY <1>2, HeardGood, GoodMail
<1>5. Outcome /\ call' \in {"govMail", "validate", "none"}
  BY <1>2, <1>3, <1>4, HeardGood, FailOutcome, FinishOutcome, AskOutcome
<1> QED BY <1>1, <1>3, <1>5, QuietInv DEF Before, Listings, Inv

-----------------------------------------------------------------------------
(* The beginning and the end of an operation.                                *)

LEMMA Forgotten ==
  ASSUME Inv, told' = [told EXCEPT !.now = {}]
  PROVE  told'.since = told.since /\ DOMAIN told' = {"since", "now"}
BY DEF Inv

LEMMA LoginInv == ASSUME Inv, Login PROVE Inv'
<1>1. /\ op' = "login" /\ call' = "redeem" /\ ss' = Empty /\ saved' = NoSession /\ mailSaid' = ""
      /\ seen' = {} /\ resp' = NoResponse
      /\ told' = [since |-> {}, now |-> {}]
  BY DEF Login, RestAnew
<1>2. Reported(resp)' = {} BY <1>1, NothingReported DEF Reported, NoResponse, NoToken
<1>3. Operation' /\ Sessions' BY <1>1, EmptyGood DEF Operation, Sessions
<1>4. Listed' /\ MailTold' BY <1>1 DEF Listed, MailTold
<1> QED BY <1>1, <1>2, <1>3, <1>4 DEF Inv

LEMMA RefreshInv == ASSUME Inv, Refresh PROVE Inv'
<1>1. /\ op' = "refresh" /\ ss' = saved /\ saved' = saved /\ saved # NoSession /\ seen' = {}
      /\ told' = [told EXCEPT !.now = {}] /\ mailSaid' = mailSaid /\ Rest
  BY DEF Refresh
<1>2. told'.since = told.since /\ DOMAIN told' = {"since", "now"} BY <1>1, Forgotten
<1>3. Outcome BY <1>1, <1>2 DEF Inv, Outcome, Operation, Sessions
<1>4. Listed' BY <1>1, <1>2 DEF Listed
<1> QED BY <1>1, <1>2, <1>3, <1>4, RestInv

LEMMA ValidateSessionInv == ASSUME Inv, ValidateSession PROVE Inv'
<1>1. /\ op' = "idle" /\ call' = "none" /\ ss' = Empty /\ saved' \in {ss, saved, NoSession}
      /\ told' = [told EXCEPT !.now = {}] /\ mailSaid' = mailSaid /\ p' = p /\ resp' = NoResponse
  BY DEF ValidateSession, RestAnew
<1>2. told'.since = told.since /\ DOMAIN told' = {"since", "now"} BY <1>1, Forgotten
<1>3. Reported(resp)' = {} BY <1>1, NothingReported DEF Reported, NoResponse, NoToken
<1>4. Operation' /\ Sessions' BY <1>1, <1>2, EmptyGood DEF Inv, Operation, Sessions
<1>5. Listed' BY <1>1, ListedQuiet DEF Before, Listings
<1>6. MailTold' BY <1>1 DEF Inv, MailTold, Lenient, VerifyEmail, Flag
<1> QED BY <1>2, <1>3, <1>4, <1>5, <1>6 DEF Inv

LEMMA SignOutInv == ASSUME Inv, SignOut PROVE Inv'
<1>1. /\ op = "idle" /\ saved' = NoSession /\ UNCHANGED <<op, call, ss, told, mailSaid, seen>> /\ Rest
  BY DEF SignOut
<1>2. Outcome BY <1>1 DEF Inv, Outcome, Operation, Sessions
<1>3. Listed' BY <1>1 DEF Inv, Listed
<1> QED BY <1>1, <1>2, <1>3, RestInv DEF Inv

\* The directory may change at any time: what was reported stays reported.
LEMMA UnchangedInv ==
  ASSUME Inv, UNCHANGED <<p, op, call, ss, saved, resp, seen, told, mailSaid>> PROVE Inv'
<1>1. Operation' /\ Sessions' /\ Listed' BY DEF Inv, Operation, Sessions, Listed
<1>2. MailTold' /\ Reported(resp)' = Reported(resp) BY DEF Inv, MailTold, Lenient, VerifyEmail, Flag, Reported
<1> QED BY <1>1, <1>2 DEF Inv

LEMMA InitInv == Init => Inv
<1> SUFFICES ASSUME Init PROVE Inv OBVIOUS
<1>1. /\ op = "idle" /\ call = "none" /\ ss = Empty /\ saved = NoSession /\ resp = NoResponse
      /\ told = [since |-> {}, now |-> {}] /\ mailSaid = ""
  BY DEF Init
<1>2. Operation /\ Sessions BY <1>1, EmptyGood DEF Operation, Sessions
<1>3. Listed /\ MailTold BY <1>1 DEF Listed, Before, Listings, MailTold
<1> QED BY <1>1, <1>2, <1>3, NothingReported DEF Inv

\* Every handler of every type keeps the invariant.
LEMMA NextInv == ASSUME Inv, [Next]_vars PROVE Inv'
<1>1. CASE Login \/ Refresh \/ SignOut \/ ValidateSession
  BY <1>1, LoginInv, RefreshInv, SignOutInv, ValidateSessionInv
<1>2. CASE DirectoryChanges BY <1>2, UnchangedInv DEF DirectoryChanges
<1>3. CASE DefaultToken \/ GoogleToken \/ LoginGovToken \/ OIDCToken \/ OIDCClaims
  BY <1>3, DefaultTokenInv, GoogleTokenInv, LoginGovTokenInv, OIDCTokenInv, OIDCClaimsInv
<1>4. CASE AzureToken \/ AzureIDClaims \/ AzureATClaims \/ AzureProfile \/ GraphPage
  BY <1>4, AzureTokenInv, AzureIDClaimsInv, AzureATClaimsInv, AzureProfileInv, GraphPageInv
<1>5. CASE GoogleListing \/ GoogleMember \/ GoogleUser
  BY <1>5, GoogleListingInv, GoogleMemberInv, GoogleUserInv
<1>6. CASE \/ GitHubOrgs \/ GitHubTeams \/ GitHubHasUser \/ GitHubRepo \/ GitHubEmails
           \/ GitHubUser \/ GitHubCollaborator
  BY <1>6, GitHubOrgsInv, GitHubTeamsInv, GitHubHasUserInv, GitHubRepoInv, GitHubEmailsInv, GitHubUserInv
<1>7. CASE KeycloakProfile \/ NextcloudProfile \/ SourceHutProfile
  BY <1>7, ProfileAnswerInv DEF ProfileTypes, KeycloakProfile, NextcloudProfile, SourceHutProfile
<1>8. CASE FacebookAddress \/ LinkedInAddress \/ DigitalOceanAddress
  BY <1>8, AddressAnswerInv DEF AddressTypes, FacebookAddress, LinkedInAddress, DigitalOceanAddress
<1>9. CASE BitbucketEmails \/ BitbucketTeams \/ BitbucketRepositories
  BY <1>9, BitbucketEmailsInv, BitbucketTeamsInv, BitbucketRepositoriesInv
<1>10. CASE GitLabUserinfo \/ GitLabProject \/ CidaasUserinfo \/ ADFSfallbackUPN
  BY <1>10, GitLabUserinfoInv, GitLabProjectInv, CidaasUserinfoInv, ADFSInv
<1>11. CASE LoginGovKeys \/ LoginGovMail BY <1>11, LoginGovInv
<1>12. CASE UNCHANGED vars BY <1>12, UnchangedInv DEF vars
<1> QED BY <1>1, <1>2, <1>3, <1>4, <1>5, <1>6, <1>7, <1>8, <1>9, <1>10, <1>11, <1>12 DEF Next

\* The invariant of all seventeen types.
THEOREM InvHolds == Spec => []Inv
BY InitInv, NextInv, PTL DEF Spec

\* Whatever fails, is read in part or changes while a handler is at work, every
\* group of a session was named by the provider since the login began.
THEOREM Reports == Spec => []GroupsWereReported
<1>1. Inv => GroupsWereReported BY DEF Inv, Sessions, Good, GroupsWereReported
<1> QED BY <1>1, InvHolds, PTL

\* At the types that look at the flag, no handler hands over a session with an
\* e-mail that was called unverified in the answer it comes from, unless the
\* options allow that.
THEOREM UnverifiedRefused == Spec => []UnverifiedMailRefused
<1>1. Inv => UnverifiedMailRefused BY DEF Inv, MailTold, Lenient, VerifyEmail, Flag, UnverifiedMailRefused
<1> QED BY <1>1, InvHolds, PTL

-----------------------------------------------------------------------------
(* Restricted logins.  The tests of organisation, team, user and repository  *)
(* are spread over several requests: the invariant says, request by request, *)
(* which of them the login has passed.                                       *)

GitHubCalls == {"none", "redeem", "orgs", "teams", "hasUser", "repo", "emails", "user",
                "collaborator", "validate"}
BitbucketCalls == {"none", "redeem", "mails", "bbTeams", "repositories", "validate"}

Member == /\ Flag("users") => Flag("org") \/ Flag("repo")
          /\ Flag("team") => Team \in told.now
          /\ Flag("org") /\ ~Flag("team") => Org \in told.now

\* With a token of its own the proxy asks about the repository last.
Passed == \/ Flag("users") /\ "listed" \in facts
          \/ Member /\ (Flag("repo") /\ ~Flag("org") /\ ~Flag("token") => "repo" \in facts)

GitHubCourse ==
  /\ call \in GitHubCalls /\ (call = "hasUser" => Flag("users"))
  /\ op = "login" => /\ told.now = told.since
                     /\ call = "repo" => Member
                     /\ call \in {"emails", "user", "collaborator"} => Passed
                     /\ call = "validate" => Admitted

BitbucketCourse ==
  /\ call \in BitbucketCalls
  /\ op = "login" => /\ call = "repositories" => (Flag("team") => Team \in told.now)
                     /\ call = "validate" => ss.mail = "" \/ Admitted

Course == /\ p \in Options
          /\ p.type = "github" => GitHubCourse
          /\ p.type = "bitbucket" => BitbucketCourse

\* A login that ends, or is not one, is past all tests.
LEMMA OverGitHub ==
  ASSUME GitHubCourse, op' # "login", call' \in GitHubCalls \ {"hasUser"} PROVE GitHubCourse'
BY DEF GitHubCourse

\* The end of a GitHub login that failed.
LEMMA GitHubFails ==
  ASSUME GitHubCourse, NEW s, Fail(s), UNCHANGED p PROVE GitHubCourse'
<1>1. CASE op = "login"
  BY <1>1, OverGitHub DEF Fail, GitHubCalls
<1>2. CASE op # "login"
  BY <1>2, OverGitHub DEF Fail, GitHubCalls
<1> QED BY <1>1, <1>2

\* The listed groups are enough for the restrictions, so what was reported is.
LEMMA ListedMember ==
  ASSUME Inv, GitHubCourse, op = "login", hasOrgAndTeam(ss), Flag("users") => Flag("org") \/ Flag("repo")
  PROVE  Member
<1>1. ss.groups \subseteq told.now BY DEF Inv, Sessions, Good, GitHubCourse
<1> QED BY <1>1 DEF hasOrgAndTeam, Member

LEMMA GitHubMembershipCourse ==
  ASSUME Inv, GitHubCourse, GitHubMembership(ss), UNCHANGED <<p, facts>>,
         Flag("users") => Flag("org") \/ Flag("repo"),
         told' = told \/ \E new : Hear(new)
  PROVE  GitHubCourse'
<1>1. CASE Fail(ss) BY <1>1, GitHubFails
<1>2. CASE hasOrgAndTeam(ss) /\ ~Flag("org") /\ Flag("repo") /\ ~Flag("token") /\ Ask("repo", ss)
  <2>1. op = "login" => Member BY <1>2, ListedMember
  <2>2. op = "login" => Member' /\ told'.now = told'.since
    BY <2>1 DEF Member, Flag, Hear, GitHubCourse
  <2> QED BY <1>2, <2>2 DEF Ask, GitHubCourse, GitHubCalls
<1>3. CASE /\ hasOrgAndTeam(ss) /\ ~(~Flag("org") /\ Flag("repo") /\ ~Flag("token"))
           /\ Ask("emails", ss)
  <2>1. op = "login" => Member BY <1>3, ListedMember
  <2>2. op = "login" => Member' /\ told'.now = told'.since
    BY <2>1 DEF Member, Flag, Hear, GitHubCourse
  <2>3. op = "login" => Passed' BY <1>3, <2>2 DEF Passed, Flag
  <2> QED BY <1>3, <2>2, <2>3 DEF Ask, GitHubCourse, GitHubCalls
<1> QED BY <1>1, <1>2, <1>3 DEF GitHubMembership

\* Another page of a listing.
LEMMA GitHubPageCourse ==
  ASSUME GitHubCourse, UNCHANGED p, NEW new, Hear(new), NEW s,
         NEW c \in {"orgs", "teams", "hasUser"}, c = "hasUser" => Flag("users"), Ask(c, s)
  PROVE  GitHubCourse'
<1>1. told.now = told.since => told'.now = told'.since BY DEF Hear
<1> QED BY <1>1 DEF Ask, GitHubCourse, GitHubCalls, Flag

LEMMA GitHubListingCourse ==
  ASSUME Inv, GitHubCourse, GitHubOrgs \/ GitHubTeams PROVE GitHubCourse'
<1>1. UNCHANGED <<p, facts>> BY DEF GitHubOrgs, GitHubTeams, Rest
<1>2. CASE Fail(ss) BY <1>1, <1>2, GitHubFails
<1>3. ASSUME NEW new, Hear(new), NEW s, NEW c \in {"orgs", "teams", "hasUser"},
             c = "hasUser" => Flag("users"), Ask(c, s)
      PROVE  GitHubCourse'
  BY <1>1, <1>3, GitHubPageCourse
<1>4. ASSUME NEW new, Hear(new), ~Flag("users"), GitHubMembership(ss)
      PROVE  GitHubCourse'
  BY <1>1, <1>4, GitHubMembershipCourse
<1> QED BY <1>2, <1>3, <1>4 DEF GitHubOrgs, GitHubTeams

LEMMA GitHubHasUserCourse ==
  ASSUME Inv, GitHubCourse, GitHubHasUser PROVE GitHubCourse'
<1>1. UNCHANGED <<p, told>> BY DEF GitHubHasUser, Rest
<1>2. CASE Fail(ss) BY <1>1, <1>2, GitHubFails
<1>3. CASE "listed" \in dir.access /\ Note("listed") /\ Ask("emails", ss)
  <2>1. Passed' BY <1>1, <1>3 DEF GitHubHasUser, GitHubCourse, Note, Passed, Flag
  <2> QED BY <1>1, <1>3, <2>1 DEF Ask, GitHubCourse, GitHubCalls
<1>4. CASE "listed" \notin dir.access /\ Note("listed") /\ (Flag("org") \/ Flag("repo")) /\ GitHubMembership(ss)
  BY <1>1, <1>4, GitHubMembershipCourse DEF Note
<1> QED BY <1>2, <1>3, <1>4 DEF GitHubHasUser, checkUserRestriction

LEMMA GitHubRepoCourse ==
  ASSUME GitHubCourse, GitHubRepo PROVE GitHubCourse'
<1>1. UNCHANGED <<p, told>> /\ call = "repo" BY DEF GitHubRepo, Rest
<1>2. CASE Fail(ss) BY <1>1, <1>2, GitHubFails
<1>3. CASE "repo" \in dir.access /\ Note("repo") /\ Ask("emails", ss)
  <2>1. op = "login" => Passed'
    BY <1>1, <1>3 DEF GitHubCourse, Note, Passed, Member, Flag
  <2> QED BY <1>1, <1>3, <2>1 DEF Ask, GitHubCourse, GitHubCalls
<1> QED BY <1>2, <1>3 DEF GitHubRepo

LEMMA GitHubEmailsCourse ==
  ASSUME GitHubCourse, GitHubEmails PROVE GitHubCourse'
<1>1. UNCHANGED <<p, told, facts>> /\ call = "emails" BY DEF GitHubEmails, Rest
<1>2. CASE Fail(ss) BY <1>1, <1>2, GitHubFails
<1>3. ASSUME NEW s, Ask("user", s) PROVE GitHubCourse'
  BY <1>1, <1>3 DEF Ask, GitHubCourse, GitHubCalls, Passed, Member, Flag
<1> QED BY <1>2, <1>3 DEF GitHubEmails

\* The last tests: the user is listed, has been admitted, or is a collaborator.
LEMMA GitHubUserCourse ==
  ASSUME GitHubCourse, GitHubUser \/ GitHubCollaborator PROVE GitHubCourse'
<1>1. UNCHANGED <<p, told>> /\ call \in {"user", "collaborator"}
  BY DEF GitHubUser, GitHubCollaborator, Rest
<1>2. op = "login" => Passed /\ told.now = told.since BY <1>1 DEF GitHubCourse
<1>3. CASE Fail(ss) BY <1>1, <1>3, GitHubFails
<1>4. ASSUME facts \subseteq facts' PROVE op = "login" => Passed'
  BY <1>1, <1>2, <1>4 DEF Passed, Member, Flag
<1>5. CASE Ask("collaborator", ss) /\ facts \subseteq facts'
  BY <1>1, <1>2, <1>4, <1>5 DEF Ask, GitHubCourse, GitHubCalls
<1>6. ASSUME NEW s, Finish(s), facts \subseteq facts',
             \/ Flag("users") /\ "listed" \in facts'
             \/ Flag("org") \/ ~Flag("repo") \/ ~Flag("token") \/ "repo" \in facts'
      PROVE  GitHubCourse'
  <2>1. op = "login" => Admitted'
    BY <1>1, <1>4, <1>6 DEF Passed, Member, Admitted, Flag
  <2> QED BY <1>1, <1>2, <1>6, <2>1 DEF Finish, GitHubCourse, GitHubCalls
<1>7. CASE GitHubUser
  <2>1. CASE Fail(ss) BY <2>1, <1>3
  <2>2. CASE ~Fail(ss)
    <3>1. facts \subseteq facts' BY <1>7, <2>2 DEF GitHubUser, Note
    <3>2. \/ Ask("collaborator", ss)
          \/ /\ Finish([ss EXCEPT !.user = "login"])
             /\ \/ Flag("users") /\ "listed" \in facts'
                \/ Flag("org") \/ ~Flag("repo") \/ ~Flag("token")
      BY <1>7, <2>2 DEF GitHubUser, Note
    <3> QED BY <3>1, <3>2, <1>5, <1>6
  <2> QED BY <2>1, <2>2
<1>8. CASE GitHubCollaborator
  BY <1>3, <1>6, <1>8 DEF GitHubCollaborator, Note
<1> QED BY <1>7, <1>8

LEMMA BitbucketFails ==
  ASSUME BitbucketCourse, NEW s, Fail(s) PROVE BitbucketCourse'
<1>1. op' # "login" /\ call' \in {"none", "validate"} BY DEF Fail
<1> QED BY <1>1 DEF BitbucketCourse, BitbucketCalls

\* Bitbucket: the team first, then the repository; who fails loses the e-mail.
LEMMA BitbucketHandlersCourse ==
  ASSUME Inv, BitbucketCourse, p \in Options, p.type = "bitbucket",
         BitbucketEmails \/ BitbucketTeams \/ BitbucketRepositories
  PROVE  BitbucketCourse'
<1>1. UNCHANGED p BY DEF BitbucketEmails, BitbucketTeams, BitbucketRepositories, Rest
<1>2. ~Flag("org") /\ ~Flag("users")
  <2>1. "org" \in p.flags \/ "users" \in p.flags => p.type = "github"
    BY ProviderAssumption
  <2> QED BY <2>1 DEF Flag
<1>3. CASE Fail(ss) BY <1>3, BitbucketFails
<1>4. ASSUME NEW mail, BitbucketRepo(mail), Flag("team") => Team \in told'.now PROVE BitbucketCourse'
  <2>1. CASE Flag("repo")
    BY <1>1, <1>4, <2>1 DEF BitbucketRepo, Ask, BitbucketCourse, BitbucketCalls, Flag
  <2>2. CASE ~Flag("repo")
    <3>1. Admitted' BY <1>1, <1>2, <1>4, <2>2 DEF Admitted, Flag
    <3> QED BY <1>1, <1>4, <2>2, <3>1 DEF BitbucketRepo, Finish, BitbucketCourse, BitbucketCalls
  <2> QED BY <2>1, <2>2
<1>5. CASE BitbucketEmails
  <2>1. ASSUME NEW s, Ask("bbTeams", s) PROVE BitbucketCourse'
    BY <2>1 DEF Ask, BitbucketCourse, BitbucketCalls
  <2> QED BY <1>3, <1>4, <1>5, <2>1 DEF BitbucketEmails
<1>6. CASE BitbucketTeams
  <2>1. CASE Team \in dir.extra /\ Hear(dir.extra) /\ BitbucketRepo(ss.mail)
    BY <1>4, <2>1 DEF Hear
  <2>2. CASE Finish([ss EXCEPT !.mail = ""])
    <3>1. ss'.mail = "" BY <2>2 DEF Finish, Inv, Sessions, Good, Fields
    <3> QED BY <2>2, <3>1 DEF Finish, BitbucketCourse, BitbucketCalls
  <2> QED BY <1>3, <1>6, <2>1, <2>2 DEF BitbucketTeams
<1>7. CASE BitbucketRepositories
  <2>1. CASE Note("repo") /\ Finish([ss EXCEPT !.mail = IF "repo" \in dir.access THEN @ ELSE ""])
    <3>1. ss'.mail = "" \/ "repo" \in dir.access BY <2>1 DEF Finish, Inv, Sessions, Good, Fields
    <3>2. op = "login" => (Flag("team") => Team \in told'.now)
      BY <1>7 DEF BitbucketRepositories, BitbucketCourse
    <3>3. op = "login" /\ "repo" \in dir.access => Admitted'
      BY <1>1, <1>2, <2>1, <3>2 DEF Admitted, Flag, Note
    <3> QED BY <2>1, <3>1, <3>3 DEF Finish, BitbucketCourse, BitbucketCalls
  <2> QED BY <1>3, <1>7, <2>1 DEF BitbucketRepositories
<1> QED BY <1>5, <1>6, <1>7

\* No handler of another type gets a turn.
LEMMA OtherHandlers ==
  ASSUME p.type \in {"github", "bitbucket"}, call \in GitHubCalls \cup BitbucketCalls
  PROVE  /\ ~(GoogleToken \/ LoginGovToken \/ OIDCToken \/ OIDCClaims \/ AzureToken)
         /\ ~(AzureIDClaims \/ AzureATClaims \/ AzureProfile \/ GraphPage)
         /\ ~(GoogleListing \/ GoogleMember \/ GoogleUser)
         /\ ~(KeycloakProfile \/ NextcloudProfile \/ SourceHutProfile)
         /\ ~(FacebookAddress \/ LinkedInAddress \/ DigitalOceanAddress)
         /\ ~(GitLabUserinfo \/ GitLabProject \/ CidaasUserinfo \/ ADFSfallbackUPN)
         /\ ~(LoginGovKeys \/ LoginGovMail)
<1> USE DEF GitHubCalls, BitbucketCalls
<1>1. ~(GoogleToken \/ LoginGovToken \/ OIDCToken \/ OIDCClaims \/ AzureToken)
  BY DEF GoogleToken, LoginGovToken, OIDCToken, OIDC, OIDCClaims, AzureToken
<1>2. ~(AzureIDClaims \/ AzureATClaims \/ AzureProfile \/ GraphPage)
  BY DEF AzureIDClaims, AzureATClaims, AzureProfile, GraphPage
<1>3. ~(GoogleListing \/ GoogleMember \/ GoogleUser)
  BY DEF GoogleListing, GoogleMember, GoogleUser
<1>4. ~(KeycloakProfile \/ NextcloudProfile \/ SourceHutProfile)
  BY DEF KeycloakProfile, NextcloudProfile, SourceHutProfile, ProfileAnswer
<1>5. ~(FacebookAddress \/ LinkedInAddress \/ DigitalOceanAddress)
  BY DEF FacebookAddress, LinkedInAddress, DigitalOceanAddress, AddressAnswer
<1>6. ~(GitLabUserinfo \/ GitLabProject \/ CidaasUserinfo \/ ADFSfallbackUPN)
  BY DEF GitLabUserinfo, GitLabProject, CidaasUserinfo, ADFSfallbackUPN
<1>7. ~(LoginGovKeys \/ LoginGovMail)
  BY DEF LoginGovKeys, LoginGovMail
<1> QED BY <1>1, <1>2, <1>3, <1>4, <1>5, <1>6, <1>7

\* What begins, ends or surrounds an operation.
LEMMA AroundCourse ==
  ASSUME Course, Login \/ Refresh \/ SignOut \/ ValidateSession \/ DirectoryChanges \/ UNCHANGED vars
  PROVE  Course'
<1>1. p' = p BY DEF Login, Refresh, SignOut, ValidateSession, DirectoryChanges, vars, Rest, RestAnew
<1>2. CASE Login
  BY <1>1, <1>2 DEF Login, Course, GitHubCourse, BitbucketCourse, GitHubCalls, BitbucketCalls
<1>3. CASE Refresh /\ p.type \in {"github", "bitbucket"}
  <2>1. op' = "refresh" /\ call' = "validate" BY <1>3 DEF Refresh, Refreshing, OIDC
  <2> QED BY <1>1, <2>1 DEF Course, GitHubCourse, BitbucketCourse, GitHubCalls, BitbucketCalls
<1>4. CASE ValidateSession
  <2>1. op' = "idle" /\ call' = "none" BY <1>4 DEF ValidateSession
  <2> QED BY <1>1, <2>1 DEF Course, GitHubCourse, BitbucketCourse, GitHubCalls, BitbucketCalls
<1>5. CASE SignOut \/ DirectoryChanges \/ UNCHANGED vars
  <2>1. UNCHANGED <<p, op, call, ss, told, facts>> BY <1>5 DEF SignOut, DirectoryChanges, vars, Rest
  <2>2. /\ Member' <=> Member
        /\ Passed' <=> Passed
        /\ Admitted' <=> Admitted
        /\ \A f \in Flags : Flag(f)' <=> Flag(f)
    BY <2>1 DEF Member, Passed, Admitted, Flag
  <2>3. GitHubCourse => GitHubCourse'
    BY <2>1, <2>2 DEF GitHubCourse, Flags
  <2>4. BitbucketCourse => BitbucketCourse'
    BY <2>1, <2>2 DEF BitbucketCourse, Flags
  <2> QED BY <2>1, <2>3, <2>4 DEF Course
<1>6. CASE p.type \notin {"github", "bitbucket"} BY <1>1, <1>6 DEF Course
<1> QED BY <1>2, <1>3, <1>4, <1>5, <1>6

\* The token request, after which the tests begin.
LEMMA DefaultTokenCourse == ASSUME Course, p.type \in {"github", "bitbucket"}, DefaultToken PROVE Course'
<1>1. p' = p BY DEF DefaultToken
<1>2. CASE TokenFault
  <2>1. op' # "login" /\ call' \in {"none", "validate"} BY <1>2 DEF TokenFault, Fail, FailFatally
  <2> QED BY <1>1, <2>1 DEF Course, GitHubCourse, BitbucketCourse, GitHubCalls, BitbucketCalls
<1>3. ASSUME NEW r, NEW s, EnrichSession(r, s), Silent PROVE Course'
  <2>1. told' = told /\ op' = op BY <1>3 DEF Silent, history, EnrichSession, Ask, ProfileTypes, AddressTypes
  <2>2. CASE p.type = "github"
    <3>1. call' = "orgs" BY <1>3, <2>2 DEF EnrichSession, Ask, ProfileTypes, AddressTypes
    <3> QED BY <1>1, <2>1, <2>2, <3>1 DEF Course, GitHubCourse, GitHubCalls
  <2>3. CASE p.type = "bitbucket"
    <3>1. call' = "mails" BY <1>3, <2>3 DEF EnrichSession, Ask, ProfileTypes, AddressTypes
    <3> QED BY <1>1, <2>1, <2>3, <3>1 DEF Course, BitbucketCourse, BitbucketCalls
  <2> QED BY <2>2, <2>3
<1> QED BY <1>2, <1>3 DEF DefaultToken

LEMMA NextCourse == ASSUME Inv, Course, [Next]_vars PROVE Course'
<1>1. CASE Login \/ Refresh \/ SignOut \/ ValidateSession \/ DirectoryChanges \/ UNCHANGED vars
  BY <1>1, AroundCourse
<1>2. CASE ~(Login \/ Refresh \/ SignOut \/ ValidateSession \/ DirectoryChanges \/ UNCHANGED vars)
  <2>1. p' = p
    BY <1>2 DEF Next, DefaultToken, GoogleToken, LoginGovToken, OIDCToken, OIDCClaims, AzureToken,
       AzureIDClaims, AzureATClaims, AzureProfile, GraphPage, GoogleListing, GoogleMember, GoogleUser,
       GitHubOrgs, GitHubTeams, GitHubHasUser, GitHubRepo, GitHubEmails, GitHubUser, GitHubCollaborator,
       KeycloakProfile, NextcloudProfile, SourceHutProfile, ProfileAnswer, FacebookAddress,
       LinkedInAddress, DigitalOceanAddress, AddressAnswer, BitbucketEmails, BitbucketTeams,
       BitbucketRepositories, GitLabUserinfo, GitLabProject, CidaasUserinfo, ADFSfallbackUPN,
       LoginGovKeys, LoginGovMail, Rest
  <2>2. CASE p.type \notin {"github", "bitbucket"} BY <2>1, <2>2 DEF Course
  <2>3. CASE p.type = "github"
    <3>1. GitHubCourse /\ call \in GitHubCalls BY <2>3 DEF Course, GitHubCourse
    <3>2. ~(BitbucketEmails \/ BitbucketTeams \/ BitbucketRepositories)
      BY <3>1 DEF GitHubCalls, BitbucketEmails, BitbucketTeams, BitbucketRepositories
    <3>3. \/ DefaultToken \/ GitHubOrgs \/ GitHubTeams \/ GitHubHasUser \/ GitHubRepo
          \/ GitHubEmails \/ GitHubUser \/ GitHubCollaborator
      BY <1>2, <2>3, <3>1, <3>2, OtherHandlers DEF Next
    <3>4. CASE DefaultToken BY <2>3, <3>4, DefaultTokenCourse
    <3>5. CASE ~DefaultToken
      <4>1. GitHubCourse'
        BY <3>1, <3>3, <3>5, GitHubListingCourse, GitHubHasUserCourse, GitHubRepoCourse,
           GitHubEmailsCourse, GitHubUserCourse
      <4> QED BY <2>1, <2>3, <4>1 DEF Course
    <3> QED BY <3>4, <3>5
  <2>4. CASE p.type = "bitbucket"
    <3>1. BitbucketCourse /\ call \in BitbucketCalls /\ p \in Options
      BY <2>4 DEF Course, BitbucketCourse
    <3>2. ~(\/ GitHubOrgs \/ GitHubTeams \/ GitHubHasUser \/ GitHubRepo
            \/ GitHubEmails \/ GitHubUser \/ GitHubCollaborator)
      BY <3>1 DEF BitbucketCalls, GitHubOrgs, GitHubTeams, GitHubHasUser, GitHubRepo, GitHubEmails,
         GitHubUser, GitHubCollaborator
    <3>3. DefaultToken \/ BitbucketEmails \/ BitbucketTeams \/ BitbucketRepositories
      BY <1>2, <2>4, <3>1, <3>2, OtherHandlers DEF Next
    <3>4. CASE DefaultToken BY <2>4, <3>4, DefaultTokenCourse
    <3>5. CASE ~DefaultToken
      <4>1. BitbucketCourse' BY <2>4, <3>1, <3>3, <3>5, BitbucketHandlersCourse
      <4> QED BY <2>1, <2>4, <4>1 DEF Course
    <3> QED BY <3>4, <3>5
  <2> QED BY <2>2, <2>3, <2>4
<1> QED BY <1>1, <1>2

\* GitHub's and Bitbucket's restrictions hold of every login that gets a
\* session with an e-mail, for any options and any order of failures and
\* changes: no test is skipped, and none is passed on an earlier login's answer.
THEOREM Restricted == Spec => []RestrictedLoginsOnly
<1>1. Init => Course
  BY DEF Init, Course, GitHubCourse, BitbucketCourse, GitHubCalls, BitbucketCalls
<1>2. Inv /\ Course /\ [Next]_vars => Course' BY NextCourse
<1>3. Course => RestrictedLoginsOnly BY DEF Course, GitHubCourse, BitbucketCourse, RestrictedLoginsOnly
<1> QED BY <1>1, <1>2, <1>3, InvHolds, PTL DEF Spec

-----------------------------------------------------------------------------
(* Types: TypeOK is inductive with Inv.  Edit by edit a session stays one,    *)
(* and however a handler goes on it hands over a session.                    *)

Mails == {"", "mail", "upn"}
Said == {"", "unstated", "verified", "unverified"}

LEMMA Sessionlike ==
  /\ Empty \in Session
  /\ \A s \in Session : s.groups \subseteq Names /\ s.mail \in Mails /\ s.at \in Nat /\ s.rt \in Nat
  /\ \A s \in Session, mail \in Mails : [s EXCEPT !.mail = mail] \in Session
  /\ \A s \in Session, user \in Subject \cup {"", "login"} : [s EXCEPT !.user = user] \in Session
  /\ \A s \in Session, groups \in SUBSET Names : [s EXCEPT !.groups = groups] \in Session
  /\ NoSession \notin Session
<1>1. Empty \in Session BY DEF Empty, Session
<1>2. \A s \in Session : s.groups \subseteq Names /\ s.mail \in Mails /\ s.at \in Nat /\ s.rt \in Nat
  BY DEF Session, Mails
<1>3. \A s \in Session, mail \in Mails : [s EXCEPT !.mail = mail] \in Session
  BY DEF Session, Mails
<1>4. \A s \in Session, user \in Subject \cup {"", "login"} : [s EXCEPT !.user = user] \in Session
  BY DEF Session
<1>5. \A s \in Session, groups \in SUBSET Names : [s EXCEPT !.groups = groups] \in Session
  BY DEF Session
<1> QED BY <1>1, <1>2, <1>3, <1>4, <1>5, NoSessionAssumption

LEMMA Known ==
  \A d \in Directory : /\ d.groups \subseteq Names /\ d.extra \subseteq Names
                       /\ d.mail \in {"none", "unverified", "verified"}
                       /\ d.access \subseteq {"listed", "repo"} /\ d.sub \in Subject
BY DEF Directory, Names

\* What is left of an operation after a step.
Handed == /\ op' \in {"idle", "login", "refresh"} /\ ss' \in Session
          /\ saved' \in Session \cup {NoSession} /\ (op' = "refresh" => saved' # NoSession)

LEMMA HandOver ==
  ASSUME TypeOK, NEW s \in Session, NEW c, Ask(c, s) \/ Fail(s) \/ FailFatally(s) \/ Finish(s)
  PROVE  Handed
<1>1. /\ op \in {"idle", "login", "refresh"} /\ ss \in Session
      /\ saved \in Session \cup {NoSession} /\ (op = "refresh" => saved # NoSession)
  BY DEF TypeOK
<1>2. CASE Ask(c, s) BY <1>1, <1>2 DEF Ask, Handed
<1>3. CASE Fail(s) BY <1>1, <1>3, Sessionlike DEF Fail, Handed
<1>4. CASE FailFatally(s) BY <1>1, <1>3, <1>4, Sessionlike DEF FailFatally, Handed
<1>5. CASE Finish(s) BY <1>1, <1>5, Sessionlike DEF Finish, Handed
<1> QED BY <1>2, <1>3, <1>4, <1>5

LEMMA HandOverAsked ==
  ASSUME TypeOK, NEW s \in Session,
         AzureGroups(s) \/ AzureMail(s) \/ AzureError(s) \/ GoogleName(s) \/ groupValidator(s)
         \/ cidaasEnrich(s) \/ GitHubMembership(s)
  PROVE  Handed
<1>1. [s EXCEPT !.groups = {}] \in Session BY Sessionlike
<1>2. \/ \E c : Ask(c, s) \/ Ask(c, [s EXCEPT !.groups = {}])
      \/ Fail(s) \/ Finish(s)
  BY DEF AzureGroups, AzureMail, AzureError, GoogleName, groupValidator, cidaasEnrich, GitHubMembership
<1> QED BY <1>1, <1>2, HandOver

\* What follows the claims of a response.
LEMMA HandOverEnriched ==
  ASSUME TypeOK, NEW r \in Response, NEW s \in Session, op # "refresh" \/ saved \in Session,
         EnrichSession(r, s) \/ (op = "refresh" /\ AfterRefresh(r, s))
  PROVE  Handed
<1>1. r.was.extra \subseteq Names BY Known DEF Response
<1>2. [s EXCEPT !.groups = @ \cup r.was.extra] \in Session BY <1>1, Sessionlike
<1>3. CASE EnrichSession(r, s)
  <2>1. \/ \E c : Ask(c, s)
        \/ Fail(s) \/ Finish(s) \/ Finish([s EXCEPT !.groups = @ \cup r.was.extra])
        \/ groupValidator(s) \/ cidaasEnrich(s)
    BY <1>3 DEF EnrichSession, extractRoles
  <2> QED BY <1>2, <2>1, HandOver, HandOverAsked
<1>4. CASE op = "refresh" /\ AfterRefresh(r, s)
  <2> DEFINE t == [s EXCEPT !.user = saved.user, !.groups = @ \cup (saved.groups \cap Extra)]
  <2>1. saved \in Session BY <1>4
  <2>2. t \in Session BY <2>1 DEF Session
  <2>3. \/ \E c : Ask(c, s)
        \/ Fail(s) \/ Finish(s) \/ Finish([s EXCEPT !.groups = @ \cup r.was.extra])
        \/ Finish(t) \/ cidaasEnrich(s)
    BY <1>4 DEF AfterRefresh, extractRoles
  <2> QED BY <1>2, <2>2, <2>3, HandOver, HandOverAsked
<1> QED BY <1>3, <1>4

LEMMA BuiltTypes ==
  ASSUME TypeOK, NEW r \in Response, NEW has, NEW more
  PROVE  LET b == buildSessionFromClaims(r, has, more)
         IN  b.mail \in {"", "mail"} /\ b.said \in Said /\ b.user \in Subject \cup {""} /\ b.groups \subseteq Names
<1>1. \A c : Source(r, has, c) \in Directory BY DEF Source, Response, TypeOK
<1>2. \A c : Source(r, has, c).groups \subseteq Names
             /\ Source(r, has, c).mail \in {"none", "unverified", "verified"}
  BY <1>1, Known
<1>3. r.was.sub \in Subject BY Known DEF Response
<1> QED BY <1>2, <1>3 DEF buildSessionFromClaims, Said

LEMMA RefreshedTypes ==
  ASSUME TypeOK, NEW r \in Response, NEW more
  PROVE  Refreshed(ss, r, buildSessionFromClaims(r, r.id, more)) \in Session
<1> DEFINE b == buildSessionFromClaims(r, r.id, more)
           t == [ss EXCEPT !.at = r.n, !.rt = r.rt, !.refreshed = @ \/ ~Flag("federated")]
<1>1. b.mail \in {"", "mail"} /\ b.user \in Subject \cup {""} /\ b.groups \subseteq Names BY BuiltTypes
<1>2. ss \in Session /\ r.n \in Nat /\ r.rt \in Nat /\ r.was.sub \in Subject
  BY Known DEF TypeOK, Response
<1> HIDE DEF b
<1>3. t \in Session BY <1>2 DEF Session, Flag
<1>4. [t EXCEPT !.idt = r.was.sub, !.mail = b.mail, !.user = b.user, !.groups = b.groups] \in Session
  <2> HIDE DEF t
  <2> QED BY <1>1, <1>2, <1>3 DEF Session
<1>5. Refreshed(ss, r, b) \in Session BY <1>3, <1>4 DEF Refreshed
<1> QED BY <1>5 DEF b

LEMMA CreateSessionTypes ==
  ASSUME TypeOK, op \in {"login", "refresh"}, NEW r \in Response, NEW more, createSession(r, more)
  PROVE  Handed /\ mailSaid' \in Said
<1> DEFINE b == buildSessionFromClaims(r, r.id, more)
<1>1. b.mail \in {"", "mail"} /\ b.said \in Said /\ b.user \in Subject \cup {""} /\ b.groups \subseteq Names
  BY BuiltTypes
<1>2. ss \in Session /\ mailSaid \in Said /\ (op = "refresh" => saved \in Session)
  BY DEF TypeOK, Said
<1>3. \/ Fail(ss) /\ UNCHANGED mailSaid
      \/ op = "login" /\ EnrichSession(r, Created(r, b)) /\ mailSaid' = b.said
      \/ /\ op = "refresh" /\ AfterRefresh(r, Refreshed(ss, r, b))
         /\ mailSaid' = IF r.id = NoToken THEN mailSaid ELSE b.said
  BY DEF createSession
<1> HIDE DEF b
<1>4. r.n \in Nat /\ r.rt \in Nat /\ r.was.sub \in Subject BY Known DEF Response
<1>5. Created(r, b) \in Session BY <1>1, <1>4 DEF Created, Session
<1>6. Refreshed(ss, r, b) \in Session BY RefreshedTypes DEF b
<1>7. Handed BY <1>2, <1>3, <1>5, <1>6, HandOver, HandOverEnriched
<1>8. mailSaid' \in Said BY <1>1, <1>2, <1>3
<1> QED BY <1>7, <1>8
Told == [since : SUBSET Names, now : SUBSET Names]

\* The rest of what a handler may touch keeps its type.
Kept == /\ faults' \in Nat /\ told' \in Told /\ mailSaid' \in Said
        /\ facts' \subseteq {"listed", "repo"} /\ seen' \subseteq Names

LEMMA Typed ==
  ASSUME TypeOK
  PROVE  /\ p \in Options /\ p.own \subseteq Names /\ dir \in Directory /\ ss \in Session
         /\ resp \in Response /\ rt \in Nat /\ grants \in Nat /\ grants + 1 \in Nat
         /\ told \in Told /\ mailSaid \in Said
         /\ facts \subseteq {"listed", "repo"} /\ seen \subseteq Names
<1>1. /\ p \in Options /\ dir \in Directory /\ ss \in Session
      /\ resp \in Response /\ rt \in Nat /\ grants \in Nat /\ told \in Told /\ mailSaid \in Said
      /\ facts \subseteq {"listed", "repo"} /\ seen \subseteq Names
  BY DEF TypeOK, Told, Said
<1>2. p.own \subseteq Names BY <1>1, ProviderAssumption DEF Option
<1> QED BY <1>1, <1>2

LEMMA FaultTypes == ASSUME TypeOK, Answered \/ Fault PROVE faults' \in Nat
<1>1. faults \in Nat BY DEF TypeOK
<1> QED BY <1>1 DEF Answered, Fault

LEMMA HearTypes == ASSUME TypeOK, NEW names \in SUBSET Names, Hear(names) PROVE told' \in Told
<1>1. told.since \subseteq Names /\ told.now \subseteq Names BY DEF TypeOK
<1> QED BY <1>1 DEF Hear, Told

LEMMA RestTypes == ASSUME TypeOK, Rest, Handed, Kept PROVE TypeOK'
BY DEF TypeOK, Rest, Handed, Kept, Told, Said

LEMMA TokenTypes ==
  ASSUME TypeOK, Handed, Kept, UNCHANGED <<p, dir, changes>>,
         resp' \in Response, rt' \in Nat, grants' \in Nat
  PROVE  TypeOK'
BY DEF TypeOK, Handed, Kept, Told, Said

LEMMA ResponseTypes ==
  /\ NoResponse \in Response
  /\ \A r \in Response : /\ r.was \in Directory /\ r.n \in Nat /\ r.rt \in Nat
                         /\ \A n \in Nat : /\ [r EXCEPT !.n = n] \in Response
                                           /\ [r EXCEPT !.rt = n] \in Response
<1>1. Nothing \in Directory BY DEF Nothing, Directory, Subject
<1>2. NoResponse \in Response BY <1>1 DEF NoResponse, Response
<1>3. \A r \in Response : r.was \in Directory /\ r.n \in Nat /\ r.rt \in Nat BY DEF Response
<1>4. \A r \in Response, n \in Nat : [r EXCEPT !.n = n] \in Response BY DEF Response
<1>5. \A r \in Response, n \in Nat : [r EXCEPT !.rt = n] \in Response BY DEF Response
<1> QED BY <1>2, <1>3, <1>4, <1>5

LEMMA NewResponseTypes ==
  ASSUME TypeOK, NEW id \in IDTokens \cup {{}, NoToken}, NEW access \in AccessTokens \cup {NoToken},
         NEW new \in BOOLEAN
  PROVE  NewResponse(id, access, new) \in Response
<1>1. id \in (SUBSET (Claims \cup {"overage"})) \cup {NoToken} BY ProviderAssumption DEF IDTokens
<1>2. access \in (SUBSET Claims) \cup {NoToken} BY ProviderAssumption DEF AccessTokens
<1>3. dir \in Directory /\ rt \in Nat /\ grants + 1 \in Nat BY Typed
<1> DEFINE t == CASE new -> grants + 1
                  [] ~new /\ (op = "login" \/ p.type = "azure" \/ Flag("federated")) -> 0
                  [] OTHER -> rt
<1>4. t \in Nat BY <1>3
<1>5. NewResponse(id, access, new) = [id |-> id, access |-> access, n |-> grants + 1, was |-> dir, rt |-> t]
  BY DEF NewResponse
<1> HIDE DEF t
<1> QED BY <1>1, <1>2, <1>3, <1>4, <1>5 DEF Response

LEMMA ReportedTypes == ASSUME NEW r \in Response PROVE Reported(r) \subseteq Names
<1>1. r.was.groups \subseteq Names /\ r.was.extra \subseteq Names BY ResponseTypes, Known
<1> QED BY <1>1 DEF Reported

LEMMA GrantTypes ==
  ASSUME TypeOK, NEW r \in Response, NEW new, Grant(r, new)
  PROVE  resp' \in Response /\ rt' \in Nat /\ grants' \in Nat
BY Typed DEF Grant

LEMMA TokenFaultTypes ==
  ASSUME TypeOK, TokenFault, UNCHANGED <<p, dir, facts, seen, changes>>
  PROVE  TypeOK'
<1>1. Handed
  <2>1. Fail(ss) \/ FailFatally(ss) BY DEF TokenFault
  <2> QED BY <2>1, Typed, HandOver
<1>2. Kept BY Typed, FaultTypes DEF TokenFault, Kept
<1>3. resp' \in Response /\ rt' \in Nat /\ grants' \in Nat BY Typed DEF TokenFault
<1> QED BY <1>1, <1>2, <1>3, TokenTypes

\* The provider does not know the refresh token.
LEMMA InvalidGrantTypes ==
  ASSUME TypeOK, FailFatally(ss), UNCHANGED <<faults, resp, rt, grants, mailSaid, told>>,
         UNCHANGED <<p, dir, facts, seen, changes>>
  PROVE  TypeOK'
<1>1. Handed BY Typed, HandOver
<1>2. faults' \in Nat BY DEF TypeOK
<1>3. Kept BY <1>2, Typed DEF Kept
<1> QED BY <1>1, <1>3, Typed, TokenTypes

LEMMA OIDCTokenTypes == ASSUME Inv, TypeOK, OIDCToken PROVE TypeOK'
<1>1. /\ op \in {"login", "refresh"} /\ UNCHANGED <<p, dir, facts, seen, changes>>
  <2>1. op # "idle" BY InOperation DEF OIDCToken, FederatedError
  <2> QED BY <2>1 DEF TypeOK, OIDCToken
<1>2. ASSUME NEW id \in IDTokens, NEW access \in AccessTokens, NEW new \in BOOLEAN,
             LET r == NewResponse(id, access, new)
             IN  /\ Grant(r, new) /\ Hear(Reported(r))
                 /\ IF id = NoToken /\ op = "login" THEN Fail(ss) /\ UNCHANGED mailSaid
                    ELSE IF NeedsProfile(id) THEN Ask("claims", ss) /\ UNCHANGED mailSaid
                    ELSE createSession(r, {}),
             Answered
      PROVE  TypeOK'
  <2> DEFINE r == NewResponse(id, access, new)
  <2>1. r \in Response BY NewResponseTypes
  <2>2. /\ Grant(r, new) /\ Hear(Reported(r))
        /\ \/ (Fail(ss) \/ Ask("claims", ss)) /\ UNCHANGED mailSaid
           \/ createSession(r, {})
    BY <1>2
  <2> HIDE DEF r
  <2>3. Handed /\ mailSaid' \in Said
    <3>1. CASE createSession(r, {}) BY <1>1, <2>1, <3>1, CreateSessionTypes
    <3>2. CASE (Fail(ss) \/ Ask("claims", ss)) /\ UNCHANGED mailSaid BY <3>2, Typed, HandOver
    <3> QED BY <2>2, <3>1, <3>2
  <2>4. told' \in Told BY <2>1, <2>2, ReportedTypes, HearTypes
  <2>5. Kept BY <1>1, <1>2, <2>3, <2>4, Typed, FaultTypes DEF Kept
  <2>6. resp' \in Response /\ rt' \in Nat /\ grants' \in Nat BY <2>1, <2>2, GrantTypes
  <2> QED BY <1>1, <2>3, <2>5, <2>6, TokenTypes
<1>3. CASE FailFatally(ss) /\ UNCHANGED <<faults, resp, rt, grants, mailSaid, told>>
  BY <1>1, <1>3, InvalidGrantTypes
<1>4. CASE /\ UNCHANGED faults \/ Fault
           /\ createSession(NoResponse, {}) /\ resp' = NoResponse
           /\ UNCHANGED <<rt, grants, told>>
  <2>1. Handed /\ mailSaid' \in Said BY <1>1, <1>4, ResponseTypes, CreateSessionTypes
  <2>2. faults' \in Nat
    <3>1. faults \in Nat BY DEF TypeOK
    <3> QED BY <1>4, <3>1 DEF Fault
  <2>3. Kept BY <1>1, <1>4, <2>1, <2>2, Typed DEF Kept
  <2> QED BY <1>1, <1>4, <2>1, <2>3, Typed, ResponseTypes, TokenTypes
<1>5. CASE TokenFault BY <1>1, <1>5, TokenFaultTypes
<1>6. CASE FederatedError BY <1>4, <1>6 DEF FederatedError
<1> QED BY <1>2, <1>3, <1>5, <1>6 DEF OIDCToken

LEMMA MoreTypes ==
  ASSUME TypeOK, NEW more, Hear(IF "groups" \in more THEN dir.groups ELSE {})
  PROVE  told' \in Told
<1>1. (IF "groups" \in more THEN dir.groups ELSE {}) \subseteq Names BY Typed, Known
<1> QED BY <1>1, HearTypes

LEMMA OIDCClaimsTypes == ASSUME Inv, TypeOK, OIDCClaims PROVE TypeOK'
<1>1. op \in {"login", "refresh"}
  <2>1. op # "idle" BY InOperation DEF OIDCClaims
  <2> QED BY <2>1 DEF TypeOK
<1>2. Rest /\ UNCHANGED <<facts, seen>> BY DEF OIDCClaims
<1>3. ASSUME NEW more \in ClaimSets, createSession(resp, more), Answered,
             Hear(IF "groups" \in more THEN dir.groups ELSE {})
      PROVE  TypeOK'
  <2>1. Handed /\ mailSaid' \in Said BY <1>1, <1>3, Typed, CreateSessionTypes
  <2>2. told' \in Told BY <1>3, MoreTypes
  <2>3. Kept BY <1>2, <1>3, <2>1, <2>2, Typed, FaultTypes DEF Kept
  <2> QED BY <1>2, <2>1, <2>3, RestTypes
<1>4. CASE Fault /\ Fail(ss) /\ UNCHANGED <<mailSaid, told>>
  <2>1. Handed BY <1>4, Typed, HandOver
  <2>2. Kept BY <1>2, <1>4, Typed, FaultTypes DEF Kept
  <2> QED BY <1>2, <2>1, <2>2, RestTypes
<1> QED BY <1>3, <1>4 DEF OIDCClaims

LEMMA DefaultTokenTypes == ASSUME Inv, TypeOK, DefaultToken PROVE TypeOK'
<1>1. op # "refresh" \/ saved \in Session BY DEF TypeOK
<1>2. UNCHANGED <<p, dir, facts, seen, changes>> BY DEF DefaultToken
<1>3. ASSUME NEW n \in {0, grants + 1}, Answered, Silent,
             LET r == [NewResponse(NoToken, NoToken, FALSE) EXCEPT !.n = n]
             IN  Grant(r, FALSE) /\ EnrichSession(r, [Empty EXCEPT !.at = n])
      PROVE  TypeOK'
  <2> DEFINE r == [NewResponse(NoToken, NoToken, FALSE) EXCEPT !.n = n]
  <2>1. n \in Nat BY Typed
  <2>2. NewResponse(NoToken, NoToken, FALSE) \in Response BY NewResponseTypes
  <2>3. r \in Response BY <2>1, <2>2, ResponseTypes
  <2>4. [Empty EXCEPT !.at = n] \in Session BY <2>1 DEF Empty, Session
  <2>5. Grant(r, FALSE) /\ EnrichSession(r, [Empty EXCEPT !.at = n]) BY <1>3
  <2> HIDE DEF r
  <2>6. Handed BY <1>1, <2>3, <2>4, <2>5, HandOverEnriched
  <2>7. Kept BY <1>2, <1>3, Typed, FaultTypes DEF Kept, Silent, history
  <2>8. resp' \in Response /\ rt' \in Nat /\ grants' \in Nat BY <2>3, <2>5, GrantTypes
  <2> QED BY <1>2, <2>6, <2>7, <2>8, TokenTypes
<1>4. CASE TokenFault BY <1>2, <1>4, TokenFaultTypes
<1> QED BY <1>3, <1>4 DEF DefaultToken

LEMMA GoogleTokenTypes == ASSUME Inv, TypeOK, GoogleToken PROVE TypeOK'
<1>1. UNCHANGED <<p, dir, facts, seen, changes>> BY DEF GoogleToken
<1>2. ASSUME NEW id \in {{}, NoToken}, NEW new \in BOOLEAN, UNCHANGED told, Answered,
             LET r == [NewResponse(id, NoToken, new) EXCEPT !.rt = IF new THEN grants + 1 ELSE 0]
             IN  /\ op = "refresh" => ~new
                 /\ Grant(r, new)
                 /\ IF op = "refresh" THEN GoogleRefreshed(r) ELSE GoogleRedeemed(r)
      PROVE  TypeOK'
  <2> DEFINE r == [NewResponse(id, NoToken, new) EXCEPT !.rt = IF new THEN grants + 1 ELSE 0]
  <2>1. (IF new THEN grants + 1 ELSE 0) \in Nat BY Typed
  <2>2. NewResponse(id, NoToken, new) \in Response BY NewResponseTypes
  <2>3. r \in Response BY <2>1, <2>2, ResponseTypes
  <2>4. Grant(r, new) /\ (GoogleRefreshed(r) \/ GoogleRedeemed(r)) BY <1>2
  <2> HIDE DEF r
  <2>5. r.n \in Nat /\ r.rt \in Nat /\ r.was.sub \in Subject BY <2>3, ResponseTypes, Known
  <2>6. /\ [Empty EXCEPT !.at = r.n, !.idt = r.was.sub, !.rt = r.rt, !.mail = "mail", !.user = r.was.sub] \in Session
        /\ [ss EXCEPT !.at = r.n, !.idt = IF r.id = NoToken THEN "" ELSE r.was.sub] \in Session
    BY <2>5, Typed DEF Session, Empty
  <2>7. Handed /\ mailSaid' \in Said
    <3>1. CASE GoogleRefreshed(r) BY <2>6, <3>1, Typed, HandOverAsked DEF GoogleRefreshed
    <3>2. CASE GoogleRedeemed(r)
      <4>1. mailSaid' \in Said BY <3>2, Typed DEF GoogleRedeemed, Said
      <4>2. Handed BY <2>6, <3>2, Typed, HandOver, HandOverAsked DEF GoogleRedeemed
      <4> QED BY <4>1, <4>2
    <3> QED BY <2>4, <3>1, <3>2
  <2>8. Kept BY <1>1, <1>2, <2>7, Typed, FaultTypes DEF Kept
  <2>9. resp' \in Response /\ rt' \in Nat /\ grants' \in Nat BY <2>3, <2>4, GrantTypes
  <2> QED BY <1>1, <2>7, <2>8, <2>9, TokenTypes
<1>3. CASE FailFatally(ss) /\ UNCHANGED <<faults, resp, rt, grants, mailSaid, told>>
  BY <1>1, <1>3, InvalidGrantTypes
<1>4. CASE TokenFault BY <1>1, <1>4, TokenFaultTypes
<1> QED BY <1>2, <1>3, <1>4 DEF GoogleToken

LEMMA LoginGovTokenTypes == ASSUME Inv, TypeOK, LoginGovToken PROVE TypeOK'
<1>1. UNCHANGED <<p, dir, facts, seen, changes>> BY DEF LoginGovToken
<1>2. CASE /\ Grant(NewResponse({}, NoToken, FALSE), FALSE) /\ Answered
           /\ Ask("jwks", [Empty EXCEPT !.at = grants + 1, !.idt = dir.sub])
           /\ UNCHANGED <<told, mailSaid>>
  <2>1. NewResponse({}, NoToken, FALSE) \in Response BY NewResponseTypes
  <2>2. [Empty EXCEPT !.at = grants + 1, !.idt = dir.sub] \in Session BY Typed, Known DEF Empty, Session
  <2>3. Handed BY <1>2, <2>2, HandOver
  <2>4. Kept BY <1>1, <1>2, Typed, FaultTypes DEF Kept
  <2>5. resp' \in Response /\ rt' \in Nat /\ grants' \in Nat BY <1>2, <2>1, GrantTypes
  <2> QED BY <1>1, <2>3, <2>4, <2>5, TokenTypes
<1>3. CASE TokenFault BY <1>1, <1>3, TokenFaultTypes
<1> QED BY <1>2, <1>3 DEF LoginGovToken

LEMMA AzureTokenTypes == ASSUME Inv, TypeOK, AzureToken PROVE TypeOK'
<1>1. UNCHANGED <<p, dir, facts, seen, changes>> BY DEF AzureToken
<1>2. ASSUME NEW id \in IDTokens, NEW access \in AccessTokens, NEW new \in BOOLEAN,
             LET r == NewResponse(id, access, new)
             IN  /\ Grant(r, new) /\ Hear(Reported(r))
                 /\ Ask("idClaims", AzureTokens(r)),
             UNCHANGED mailSaid, Answered
      PROVE  TypeOK'
  <2> DEFINE r == NewResponse(id, access, new)
  <2>1. r \in Response BY NewResponseTypes
  <2>2. Grant(r, new) /\ Hear(Reported(r)) /\ Ask("idClaims", AzureTokens(r)) BY <1>2
  <2> HIDE DEF r
  <2>3. r.n \in Nat /\ r.rt \in Nat /\ r.was.sub \in Subject BY <2>1, ResponseTypes, Known
  <2>4. AzureTokens(r) \in Session BY <2>3, Typed DEF AzureTokens, Session
  <2>5. Handed BY <2>2, <2>4, HandOver
  <2>6. told' \in Told BY <2>1, <2>2, ReportedTypes, HearTypes
  <2>7. Kept BY <1>1, <1>2, <2>6, Typed, FaultTypes DEF Kept
  <2>8. resp' \in Response /\ rt' \in Nat /\ grants' \in Nat BY <2>1, <2>2, GrantTypes
  <2> QED BY <1>1, <2>5, <2>7, <2>8, TokenTypes
<1>3. CASE FailFatally(ss) /\ UNCHANGED <<faults, resp, rt, grants, mailSaid, told>>
  BY <1>1, <1>3, InvalidGrantTypes
<1>4. CASE TokenFault BY <1>1, <1>4, TokenFaultTypes
<1> QED BY <1>2, <1>3, <1>4 DEF AzureToken

\* A step that hands over a session, and changes nothing else but how the
\* e-mail was reported.
LEMMA MailStep ==
  ASSUME TypeOK, Rest, Handed, Answered \/ Fault, mailSaid' \in Said, UNCHANGED <<told, facts, seen>>
  PROVE  TypeOK'
<1>1. Kept BY Typed, FaultTypes DEF Kept
<1> QED BY <1>1, RestTypes

\* ... or but what the login was told besides groups.
LEMMA FactStep ==
  ASSUME TypeOK, Rest, Handed, Answered \/ Fault, UNCHANGED <<told, mailSaid, seen>>,
         UNCHANGED facts \/ Note("listed") \/ Note("repo")
  PROVE  TypeOK'
<1>1. facts' \subseteq {"listed", "repo"}
  <2>1. facts \subseteq {"listed", "repo"} BY Typed
  <2> QED BY <2>1 DEF Note
<1>2. Kept BY <1>1, Typed, FaultTypes DEF Kept
<1> QED BY <1>2, RestTypes

\* ... or but the names reported and those done with.
LEMMA NameStep ==
  ASSUME TypeOK, Rest, Handed, Answered \/ Fault, UNCHANGED <<mailSaid, facts>>,
         told' \in Told, seen' \subseteq Names
  PROVE  TypeOK'
<1>1. Kept BY Typed, FaultTypes DEF Kept
<1> QED BY <1>1, RestTypes

\* ... or but the names and how the e-mail was reported.
LEMMA ProfileStep ==
  ASSUME TypeOK, Rest, Handed, Answered \/ Fault, UNCHANGED <<facts, seen>>,
         told' \in Told, mailSaid' \in Said
  PROVE  TypeOK'
<1>1. Kept BY Typed, FaultTypes DEF Kept
<1> QED BY <1>1, RestTypes

LEMMA AzureClaimsTypes ==
  ASSUME TypeOK, NEW has, NEW more, AzureClaims(buildSessionFromClaims(resp, has, more))
  PROVE  Handed /\ mailSaid' \in Said
<1> DEFINE b == buildSessionFromClaims(resp, has, more)
           s == [ss EXCEPT !.mail = b.mail, !.groups = IF b.listed THEN b.groups ELSE @]
<1>1. b.mail \in {"", "mail"} /\ b.said \in Said /\ b.groups \subseteq Names BY Typed, BuiltTypes
<1>2. (AzureMail(s) \/ Finish(s) \/ Ask("idAgain", s)) /\ mailSaid' = b.said BY DEF AzureClaims
<1>3. s \in Session
  <2> HIDE DEF b
  <2> QED BY <1>1, Typed DEF Session
<1> HIDE DEF s, b
<1>4. Handed BY <1>2, <1>3, HandOver, HandOverAsked
<1> QED BY <1>1, <1>2, <1>4

LEMMA AzureIDClaimsTypes == ASSUME TypeOK, AzureIDClaims PROVE TypeOK'
<1> DEFINE other == IF call = "idClaims" THEN "atClaims" ELSE "atAgain"
<1>1. Rest /\ UNCHANGED <<facts, seen>> BY DEF AzureIDClaims
<1>2. ASSUME NEW more \in Profiles(resp.id),
             LET b == buildSessionFromClaims(resp, resp.id, more)
             IN  /\ Hear(IF "groups" \in more THEN dir.groups ELSE {}) /\ Answered
                 /\ IF b.ok /\ b.mail # "" THEN AzureClaims(b)
                    ELSE Ask(other, ss) /\ UNCHANGED mailSaid
      PROVE  TypeOK'
  <2>1. /\ Hear(IF "groups" \in more THEN dir.groups ELSE {}) /\ Answered
        /\ \/ AzureClaims(buildSessionFromClaims(resp, resp.id, more))
           \/ Ask(other, ss) /\ UNCHANGED mailSaid
    BY <1>2
  <2> HIDE DEF other
  <2>2. Handed /\ mailSaid' \in Said
    <3>1. CASE AzureClaims(buildSessionFromClaims(resp, resp.id, more)) BY <3>1, AzureClaimsTypes
    <3>2. CASE Ask(other, ss) /\ UNCHANGED mailSaid BY <3>2, Typed, HandOver
    <3> QED BY <2>1, <3>1, <3>2
  <2> QED BY <1>1, <2>1, <2>2, MoreTypes, ProfileStep
<1>3. CASE Fault /\ (Ask(other, ss) \/ AzureError(ss)) /\ UNCHANGED <<mailSaid, told>>
  <2> HIDE DEF other
  <2>1. Handed BY <1>3, Typed, HandOver, HandOverAsked
  <2> QED BY <1>1, <1>3, <2>1, Typed, ProfileStep
<1> QED BY <1>2, <1>3 DEF AzureIDClaims

LEMMA AzureATClaimsTypes == ASSUME TypeOK, AzureATClaims PROVE TypeOK'
<1>1. Rest /\ UNCHANGED <<facts, seen>> BY DEF AzureATClaims
<1>2. ASSUME NEW more \in Profiles(resp.access),
             LET b == buildSessionFromClaims(resp, resp.access, more)
             IN  /\ Hear(IF "groups" \in more THEN dir.groups ELSE {}) /\ Answered
                 /\ IF resp.access # NoToken /\ b.ok THEN AzureClaims(b)
                    ELSE AzureError(ss) /\ UNCHANGED mailSaid
      PROVE  TypeOK'
  <2>1. /\ Hear(IF "groups" \in more THEN dir.groups ELSE {}) /\ Answered
        /\ \/ AzureClaims(buildSessionFromClaims(resp, resp.access, more))
           \/ AzureError(ss) /\ UNCHANGED mailSaid
    BY <1>2
  <2>2. Handed /\ mailSaid' \in Said
    <3>1. CASE AzureClaims(buildSessionFromClaims(resp, resp.access, more)) BY <3>1, AzureClaimsTypes
    <3>2. CASE AzureError(ss) /\ UNCHANGED mailSaid BY <3>2, Typed, HandOverAsked
    <3> QED BY <2>1, <3>1, <3>2
  <2> QED BY <1>1, <2>1, <2>2, MoreTypes, ProfileStep
<1>3. CASE Fault /\ AzureError(ss) /\ UNCHANGED <<mailSaid, told>>
  <2>1. Handed BY <1>3, Typed, HandOverAsked
  <2> QED BY <1>1, <1>3, <2>1, Typed, ProfileStep
<1> QED BY <1>2, <1>3 DEF AzureATClaims

LEMMA AzureProfileTypes == ASSUME TypeOK, AzureProfile PROVE TypeOK'
<1>1. [ss EXCEPT !.mail = "mail"] \in Session BY Typed, Sessionlike DEF Mails
<1>2. AzureGroups([ss EXCEPT !.mail = "mail"]) \/ Fail(ss) BY DEF AzureProfile
<1>3. Handed BY <1>1, <1>2, Typed, HandOver, HandOverAsked
<1>4. mailSaid' \in Said BY Typed, Known DEF AzureProfile, Said
<1> QED BY <1>3, <1>4, MailStep DEF AzureProfile

\* A page, or a loop's group, adds names to the session.
LEMMA AddedTypes ==
  ASSUME TypeOK, NEW names \in SUBSET Names
  PROVE  /\ [ss EXCEPT !.groups = @ \cup names] \in Session
         /\ [ss EXCEPT !.groups = names] \in Session
BY Typed, Sessionlike

LEMMA GraphPageTypes == ASSUME TypeOK, GraphPage PROVE TypeOK'
<1>1. Rest /\ UNCHANGED <<mailSaid, facts>> BY DEF GraphPage
<1>2. ASSUME NEW new \in SUBSET dir.groups, NEW last \in BOOLEAN, Answered, Hear(new),
             seen' = seen \cup new,
             IF last THEN Finish([ss EXCEPT !.groups = @ \cup seen']) ELSE Ask("graph", ss)
      PROVE  TypeOK'
  <2>1. new \in SUBSET Names /\ seen' \in SUBSET Names BY <1>2, Typed, Known
  <2>2. [ss EXCEPT !.groups = @ \cup seen'] \in Session BY <2>1, AddedTypes
  <2>3. Handed BY <1>2, <2>2, Typed, HandOver
  <2>4. told' \in Told BY <1>2, <2>1, HearTypes
  <2> QED BY <1>1, <1>2, <2>1, <2>3, <2>4, NameStep
<1>3. CASE Fault /\ GraphFailed /\ UNCHANGED <<told, seen>>
  <2>1. Handed BY <1>3, Typed, HandOver DEF GraphFailed
  <2> QED BY <1>1, <1>3, <2>1, Typed, NameStep
<1> QED BY <1>2, <1>3 DEF GraphPage

LEMMA GoogleListingTypes == ASSUME TypeOK, GoogleListing PROVE TypeOK'
<1>1. Rest /\ UNCHANGED <<mailSaid, facts>> BY DEF GoogleListing
<1>2. ASSUME NEW new \in SUBSET dir.groups, NEW last \in BOOLEAN, Answered, Hear(new),
             seen' = seen \cup new,
             IF last THEN GoogleName([ss EXCEPT !.groups = seen']) ELSE Ask("listing", ss)
      PROVE  TypeOK'
  <2>1. new \in SUBSET Names /\ seen' \in SUBSET Names BY <1>2, Typed, Known
  <2>2. [ss EXCEPT !.groups = seen'] \in Session BY <2>1, AddedTypes
  <2>3. Handed BY <1>2, <2>2, Typed, HandOver, HandOverAsked
  <2>4. told' \in Told BY <1>2, <2>1, HearTypes
  <2> QED BY <1>1, <1>2, <2>1, <2>3, <2>4, NameStep
<1>3. CASE Fault /\ GoogleName([ss EXCEPT !.groups = {}]) /\ UNCHANGED <<told, seen>>
  <2>1. [ss EXCEPT !.groups = {}] \in Session BY AddedTypes
  <2>2. Handed BY <1>3, <2>1, HandOverAsked
  <2> QED BY <1>1, <1>3, <2>2, Typed, NameStep
<1> QED BY <1>2, <1>3 DEF GoogleListing

LEMMA GoogleCheckedTypes ==
  ASSUME TypeOK, NEW group \in Names, NEW member, GoogleChecked(group, member)
  PROVE  Handed /\ seen' \subseteq Names
<1> DEFINE s == [ss EXCEPT !.groups = IF member THEN @ \cup {group} ELSE @]
<1>1. s \in Session BY Typed, Sessionlike
<1>2. seen' = seen \cup {group} /\ (Ask("member", s) \/ Fail(s) \/ GoogleName(s))
  BY DEF GoogleChecked
<1> HIDE DEF s
<1>3. Handed BY <1>1, <1>2, HandOver, HandOverAsked
<1> QED BY <1>2, <1>3, Typed

LEMMA GoogleMemberTypes == ASSUME TypeOK, GoogleMember PROVE TypeOK'
<1>1. Rest /\ UNCHANGED <<mailSaid, facts>> BY DEF GoogleMember
<1>2. PICK group \in p.own \ seen : userInGroup(group) BY DEF GoogleMember
<1>3. group \in Names BY Typed
<1>4. CASE /\ GoogleChecked(group, group \in dir.groups) /\ Hear(dir.groups \cap {group}) /\ Answered
  <2>1. Handed /\ seen' \subseteq Names BY <1>3, <1>4, GoogleCheckedTypes
  <2>2. dir.groups \cap {group} \in SUBSET Names BY <1>3
  <2>3. told' \in Told BY <1>4, <2>2, HearTypes
  <2> QED BY <1>1, <1>4, <2>1, <2>3, NameStep
<1>5. CASE Ask("get", ss) /\ UNCHANGED <<seen, told>> /\ Answered
  <2>1. Handed BY <1>5, Typed, HandOver
  <2> QED BY <1>1, <1>5, <2>1, Typed, NameStep
<1>6. CASE Fault /\ GoogleChecked(group, FALSE) /\ UNCHANGED told
  <2>1. Handed /\ seen' \subseteq Names BY <1>3, <1>6, GoogleCheckedTypes
  <2> QED BY <1>1, <1>6, <2>1, Typed, NameStep
<1> QED BY <1>2, <1>4, <1>5, <1>6 DEF userInGroup

LEMMA GoogleUserTypes == ASSUME TypeOK, GoogleUser PROVE TypeOK'
<1>1. Finish(ss) \/ Fail(ss) BY DEF GoogleUser
<1>2. Handed BY <1>1, Typed, HandOver
<1> QED BY <1>2, Typed, MailStep DEF GoogleUser

\* A page of GitHub's organisations or teams.
LEMMA GitHubPageTypes ==
  ASSUME TypeOK, Rest, UNCHANGED <<mailSaid, facts>>, NEW new \in SUBSET Names, Answered, Hear(new),
         \/ /\ Ask("teams", ss) \/ Ask("hasUser", ss) \/ GitHubMembership(ss)
            /\ seen' = {}
         \/ \E c : Ask(c, [ss EXCEPT !.groups = @ \cup new]) /\ seen' = seen \cup new
  PROVE  TypeOK'
<1>1. [ss EXCEPT !.groups = @ \cup new] \in Session BY AddedTypes
<1>2. seen' \subseteq Names BY Typed
<1>3. Handed BY <1>1, Typed, HandOver, HandOverAsked
<1>4. told' \in Told BY HearTypes
<1> QED BY <1>2, <1>3, <1>4, NameStep

LEMMA GitHubListingTypes == ASSUME TypeOK, GitHubOrgs \/ GitHubTeams PROVE TypeOK'
<1>1. Rest /\ UNCHANGED <<mailSaid, facts>> BY DEF GitHubOrgs, GitHubTeams
<1>2. CASE Fault /\ Fail(ss) /\ UNCHANGED <<told, seen>>
  <2>1. Handed BY <1>2, Typed, HandOver
  <2> QED BY <1>1, <1>2, <2>1, Typed, NameStep
<1>3. ASSUME NEW new \in SUBSET dir.groups, NEW last \in BOOLEAN, Answered, Hear(new),
             IF last THEN Ask("teams", ss) /\ seen' = {}
             ELSE Ask("orgs", [ss EXCEPT !.groups = @ \cup new]) /\ seen' = seen \cup new
      PROVE  TypeOK'
  <2>1. new \in SUBSET Names BY Typed, Known
  <2> QED BY <1>1, <1>3, <2>1, GitHubPageTypes
<1>4. ASSUME NEW new \in SUBSET dir.extra, NEW last \in BOOLEAN, Answered, Hear(new),
             IF ~last
             THEN Ask("teams", [ss EXCEPT !.groups = @ \cup new]) /\ seen' = seen \cup new
             ELSE /\ seen' = {}
                  /\ IF Flag("users") THEN Ask("hasUser", ss) ELSE GitHubMembership(ss)
      PROVE  TypeOK'
  <2>1. new \in SUBSET Names BY Typed, Known
  <2> QED BY <1>1, <1>4, <2>1, GitHubPageTypes
<1> QED BY <1>2, <1>3, <1>4 DEF GitHubOrgs, GitHubTeams

LEMMA GitHubChecksTypes ==
  ASSUME TypeOK, GitHubHasUser \/ GitHubRepo \/ GitHubUser \/ GitHubCollaborator
  PROVE  TypeOK'
<1>1. [ss EXCEPT !.user = "login"] \in Session BY Typed, Sessionlike
<1>2. \/ \E c : Ask(c, ss)
      \/ Fail(ss) \/ GitHubMembership(ss) \/ Finish([ss EXCEPT !.user = "login"])
  BY DEF GitHubHasUser, checkUserRestriction, GitHubRepo, GitHubUser, GitHubCollaborator
<1>3. Handed BY <1>1, <1>2, Typed, HandOver, HandOverAsked
<1>4. /\ Answered \/ Fault
      /\ UNCHANGED facts \/ Note("listed") \/ Note("repo")
      /\ UNCHANGED <<told, mailSaid, seen>> /\ Rest
  BY DEF GitHubHasUser, GitHubRepo, GitHubUser, GitHubCollaborator
<1> QED BY <1>3, <1>4, FactStep

LEMMA GitHubEmailsTypes == ASSUME TypeOK, GitHubEmails PROVE TypeOK'
<1>1. [ss EXCEPT !.mail = "mail"] \in Session BY Typed, Sessionlike DEF Mails
<1>2. Ask("user", [ss EXCEPT !.mail = "mail"]) \/ Ask("user", ss) \/ Fail(ss) BY DEF GitHubEmails
<1>3. Handed BY <1>1, <1>2, Typed, HandOver
<1>4. mailSaid' \in Said BY Typed, Known DEF GitHubEmails, Said
<1> QED BY <1>3, <1>4, MailStep DEF GitHubEmails

LEMMA ProfileAnswerTypes ==
  ASSUME TypeOK, NEW type, NEW groups \in SUBSET Names, ProfileAnswer(type, groups)
  PROVE  TypeOK'
<1> DEFINE s == [ss EXCEPT !.groups = @ \cup groups, !.mail = "mail", !.user = "login"]
<1>1. s \in Session BY Typed DEF Session
<1>2. Finish(s) \/ Fail(ss) BY DEF ProfileAnswer
<1> HIDE DEF s
<1>3. Handed BY <1>1, <1>2, Typed, HandOver
<1>4. mailSaid' \in Said BY Typed, Known DEF ProfileAnswer, Said
<1>5. told' \in Told BY Typed, HearTypes DEF ProfileAnswer
<1> QED BY <1>3, <1>4, <1>5, ProfileStep DEF ProfileAnswer

LEMMA AddressAnswerTypes == ASSUME TypeOK, NEW type, AddressAnswer(type) PROVE TypeOK'
<1>1. [ss EXCEPT !.mail = "mail"] \in Session BY Typed, Sessionlike DEF Mails
<1>2. Finish([ss EXCEPT !.mail = "mail"]) \/ Fail(ss) BY DEF AddressAnswer
<1>3. Handed BY <1>1, <1>2, Typed, HandOver
<1>4. mailSaid' \in Said BY Typed, Known DEF AddressAnswer, Said
<1> QED BY <1>3, <1>4, MailStep DEF AddressAnswer

LEMMA BitbucketTypes ==
  ASSUME TypeOK, BitbucketEmails \/ BitbucketTeams \/ BitbucketRepositories
  PROVE  TypeOK'
<1>1. \A mail \in Mails : [ss EXCEPT !.mail = mail] \in Session BY Typed, Sessionlike
<1>2. \A mail \in Mails : BitbucketRepo(mail) => Handed BY <1>1, HandOver DEF BitbucketRepo
<1>3. CASE BitbucketEmails
  <2> DEFINE mail == IF dir.mail = "none" THEN "" ELSE "mail"
  <2>1. mail \in Mails BY DEF Mails
  <2>2. Ask("bbTeams", [ss EXCEPT !.mail = mail]) \/ BitbucketRepo(mail) \/ Fail(ss)
    BY <1>3 DEF BitbucketEmails
  <2>3. mailSaid' \in Said BY <1>3, Typed, Known DEF BitbucketEmails, Said
  <2> HIDE DEF mail
  <2>4. Handed BY <1>1, <1>2, <2>1, <2>2, Typed, HandOver
  <2> QED BY <1>3, <2>3, <2>4, MailStep DEF BitbucketEmails
<1>4. CASE BitbucketTeams
  <2>1. ss.mail \in Mails /\ "" \in Mails BY Typed, Sessionlike DEF Mails
  <2>2. BitbucketRepo(ss.mail) \/ Finish([ss EXCEPT !.mail = ""]) \/ Fail(ss)
    BY <1>4 DEF BitbucketTeams
  <2>3. Handed BY <1>1, <1>2, <2>1, <2>2, Typed, HandOver
  <2>4. dir.extra \in SUBSET Names BY Typed, Known
  <2>5. told' \in Told BY <1>4, <2>4, Typed, HearTypes DEF BitbucketTeams
  <2> QED BY <1>4, <2>3, <2>5, Typed, NameStep DEF BitbucketTeams
<1>5. CASE BitbucketRepositories
  <2> DEFINE mail == IF "repo" \in dir.access THEN ss.mail ELSE ""
  <2>1. mail \in Mails BY Typed, Sessionlike DEF Mails
  <2>2. Finish([ss EXCEPT !.mail = mail]) \/ Fail(ss) BY <1>5 DEF BitbucketRepositories
  <2> HIDE DEF mail
  <2>3. Handed BY <1>1, <2>1, <2>2, Typed, HandOver
  <2> QED BY <1>5, <2>3, FactStep DEF BitbucketRepositories
<1> QED BY <1>3, <1>4, <1>5

LEMMA GitLabUserinfoTypes == ASSUME TypeOK, GitLabUserinfo PROVE TypeOK'
<1>1. Rest /\ UNCHANGED <<facts, seen>> BY DEF GitLabUserinfo
<1>2. dir.groups \in SUBSET Names /\ dir.mail \in {"none", "unverified", "verified"} BY Typed, Known
<1>3. ASSUME NEW nickname \in BOOLEAN, Answered, Hear(dir.groups),
             LET s == [ss EXCEPT !.user = IF nickname THEN "login" ELSE @,
                                 !.mail = IF dir.mail = "none" THEN @ ELSE "mail",
                                 !.groups = IF dir.groups = {} THEN @ ELSE dir.groups]
             IN  IF VerifyEmail /\ dir.mail # "verified" THEN Fail(ss) /\ UNCHANGED mailSaid
                 ELSE /\ IF Projects = {} THEN Finish(s) ELSE Ask("project", s)
                      /\ mailSaid' = IF dir.mail = "none" THEN mailSaid ELSE dir.mail
      PROVE  TypeOK'
  <2> DEFINE s == [ss EXCEPT !.user = IF nickname THEN "login" ELSE @,
                             !.mail = IF dir.mail = "none" THEN @ ELSE "mail",
                             !.groups = IF dir.groups = {} THEN @ ELSE dir.groups]
  <2>1. s \in Session BY <1>2, Typed DEF Session
  <2>2. Fail(ss) \/ Finish(s) \/ Ask("project", s) BY <1>3
  <2>3. mailSaid' \in Said BY <1>2, <1>3, Typed DEF Said
  <2> HIDE DEF s
  <2>4. Handed BY <2>1, <2>2, Typed, HandOver
  <2>5. told' \in Told BY <1>2, <1>3, HearTypes
  <2> QED BY <1>1, <1>3, <2>3, <2>4, <2>5, ProfileStep
<1>4. CASE Fault /\ Fail(ss) /\ UNCHANGED <<told, mailSaid>>
  <2>1. Handed BY <1>4, Typed, HandOver
  <2> QED BY <1>1, <1>4, <2>1, Typed, ProfileStep
<1> QED BY <1>3, <1>4 DEF GitLabUserinfo

LEMMA GitLabProjectTypes == ASSUME TypeOK, GitLabProject PROVE TypeOK'
<1>1. Rest /\ UNCHANGED <<mailSaid, facts>> BY DEF GitLabProject
<1>2. PICK project \in Projects \ seen, ok \in BOOLEAN :
        LET found == IF ok THEN dir.extra \cap {project} ELSE {}
            s == [ss EXCEPT !.groups = @ \cup found]
        IN  /\ (ok /\ Answered) \/ (~ok /\ Fault)
            /\ Hear(found) /\ seen' = seen \cup {project}
            /\ IF seen' = Projects THEN Finish(s) ELSE Ask("project", s)
  BY DEF GitLabProject
<1> DEFINE found == IF ok THEN dir.extra \cap {project} ELSE {}
           s == [ss EXCEPT !.groups = @ \cup found]
<1>3. project \in Names BY Typed DEF Projects
<1>4. found \in SUBSET Names BY <1>3
<1>5. /\ Answered \/ Fault
      /\ Hear(found) /\ seen' = seen \cup {project} /\ (Finish(s) \/ Ask("project", s))
  BY <1>2
<1> HIDE DEF found
<1>6. s \in Session BY <1>4, AddedTypes
<1> HIDE DEF s
<1>7. Handed BY <1>5, <1>6, HandOver
<1>8. told' \in Told BY <1>4, <1>5, HearTypes
<1>9. seen' \subseteq Names BY <1>3, <1>5, Typed
<1> QED BY <1>1, <1>5, <1>7, <1>8, <1>9, NameStep

LEMMA CidaasUserinfoTypes == ASSUME TypeOK, CidaasUserinfo PROVE TypeOK'
<1>1. Rest /\ UNCHANGED <<facts, seen>> BY DEF CidaasUserinfo
<1>2. dir.groups \cup dir.extra \in SUBSET Names BY Typed, Known
<1>3. ASSUME NEW decoded \in BOOLEAN, Answered, Hear(dir.groups \cup dir.extra),
             LET fresh == ss.mail = "" /\ dir.mail # "none"
                 s == [ss EXCEPT !.mail = IF fresh THEN "mail" ELSE @,
                                 !.groups = IF decoded THEN dir.groups \cup dir.extra ELSE @]
             IN  /\ IF s.mail = "" THEN Fail(s) ELSE Finish(s)
                 /\ mailSaid' = IF fresh THEN dir.mail ELSE mailSaid
      PROVE  TypeOK'
  <2> DEFINE fresh == ss.mail = "" /\ dir.mail # "none"
             s == [ss EXCEPT !.mail = IF fresh THEN "mail" ELSE @,
                             !.groups = IF decoded THEN dir.groups \cup dir.extra ELSE @]
  <2>1. /\ Fail(s) \/ Finish(s)
        /\ mailSaid' = IF fresh THEN dir.mail ELSE mailSaid
    BY <1>3
  <2> HIDE DEF fresh
  <2>2. s \in Session BY <1>2, Typed DEF Session
  <2>3. mailSaid' \in Said BY <2>1, Typed, Known DEF Said, fresh
  <2> HIDE DEF s
  <2>4. Handed BY <2>1, <2>2, HandOver
  <2>5. told' \in Told BY <1>2, <1>3, HearTypes
  <2> QED BY <1>1, <1>3, <2>3, <2>4, <2>5, ProfileStep
<1>4. CASE /\ Fault /\ (IF ss.mail = "" THEN Fail(ss) ELSE Finish(ss))
           /\ UNCHANGED <<told, mailSaid>>
  <2>1. Handed BY <1>4, Typed, HandOver
  <2> QED BY <1>1, <1>4, <2>1, Typed, ProfileStep
<1> QED BY <1>3, <1>4 DEF CidaasUserinfo

LEMMA ADFSTypes == ASSUME TypeOK, ADFSfallbackUPN PROVE TypeOK'
<1>1. [ss EXCEPT !.mail = "upn"] \in Session BY Typed, Sessionlike DEF Mails
<1>2. Finish([ss EXCEPT !.mail = "upn"]) \/ Finish(ss) \/ Fail(ss) BY DEF ADFSfallbackUPN
<1>3. Handed BY <1>1, <1>2, Typed, HandOver
<1>4. mailSaid' \in Said BY Typed DEF ADFSfallbackUPN, Said
<1> QED BY <1>3, <1>4, MailStep DEF ADFSfallbackUPN

LEMMA LoginGovTypes == ASSUME TypeOK, LoginGovKeys \/ LoginGovMail PROVE TypeOK'
<1>1. [ss EXCEPT !.mail = "mail"] \in Session BY Typed, Sessionlike DEF Mails
<1>2. Ask("govMail", ss) \/ Finish([ss EXCEPT !.mail = "mail"]) \/ Fail(ss)
  BY DEF LoginGovKeys, LoginGovMail
<1>3. Handed BY <1>1, <1>2, Typed, HandOver
<1>4. mailSaid' \in Said BY Typed DEF LoginGovKeys, LoginGovMail, Said
<1> QED BY <1>3, <1>4, MailStep DEF LoginGovKeys, LoginGovMail

\* The steps outside a handler.
LEMMA AroundTypes ==
  ASSUME TypeOK, Login \/ Refresh \/ SignOut \/ ValidateSession
  PROVE  TypeOK'
<1>1. /\ op \in {"idle", "login", "refresh"} /\ saved \in Session \cup {NoSession}
      /\ (op = "refresh" => saved # NoSession) /\ faults \in Nat
  BY DEF TypeOK
<1>2. told.since \subseteq Names /\ told.now \subseteq Names BY Typed DEF Told
<1>3. Handed
  <2>1. CASE Login BY <1>1, <2>1, Sessionlike DEF Login, Handed
  <2>2. CASE Refresh BY <1>1, <2>2 DEF Refresh, Handed
  <2>3. CASE SignOut BY <1>1, <2>3, Typed DEF SignOut, Handed
  <2>4. CASE ValidateSession BY <1>1, <2>4, Typed, Sessionlike DEF ValidateSession, Handed
  <2> QED BY <2>1, <2>2, <2>3, <2>4
<1>4. told' \in Told
  <2>1. [since |-> {}, now |-> {}] \in Told BY DEF Told
  <2>2. [told EXCEPT !.now = {}] \in Told BY Typed DEF Told
  <2> QED BY <2>1, <2>2, Typed DEF Login, Refresh, SignOut, ValidateSession
<1>5. mailSaid' \in Said BY Typed DEF Login, Refresh, SignOut, ValidateSession, Said
<1>6. /\ faults' \in Nat /\ facts' \subseteq {"listed", "repo"} /\ seen' \subseteq Names
  BY <1>1, Typed DEF Login, Refresh, SignOut, ValidateSession
<1>7. Kept BY <1>4, <1>5, <1>6 DEF Kept
<1>8. /\ UNCHANGED <<p, dir, changes>> /\ rt' \in Nat /\ grants' \in Nat
      /\ resp' \in Response
  BY Typed, ResponseTypes DEF Login, Refresh, SignOut, ValidateSession, Rest, RestAnew
<1> QED BY <1>3, <1>7, <1>8, TokenTypes

LEMMA DirectoryChangesTypes == ASSUME TypeOK, DirectoryChanges PROVE TypeOK'
<1>1. dir' \in Directory BY DEF DirectoryChanges, KnownTo
<1>2. changes' \in Nat
  <2>1. changes \in Nat BY DEF TypeOK
  <2> QED BY <2>1 DEF DirectoryChanges
<1> QED BY <1>1, <1>2 DEF DirectoryChanges, TypeOK

LEMMA InitTypes == Init => TypeOK
<1> SUFFICES ASSUME Init PROVE TypeOK OBVIOUS
<1>1. dir \in Directory BY DEF Init, KnownTo
<1>2. told \in Told BY DEF Init, Told
<1> QED BY <1>1, <1>2, ResponseTypes, Sessionlike DEF Init, TypeOK, Told

LEMMA NextTypes == ASSUME Inv, TypeOK, [Next]_vars PROVE TypeOK'
<1>1. CASE Login \/ Refresh \/ SignOut \/ ValidateSession BY <1>1, AroundTypes
<1>2. CASE DirectoryChanges BY <1>2, DirectoryChangesTypes
<1>3. CASE DefaultToken \/ GoogleToken \/ LoginGovToken \/ OIDCToken \/ OIDCClaims
  BY <1>3, DefaultTokenTypes, GoogleTokenTypes, LoginGovTokenTypes, OIDCTokenTypes, OIDCClaimsTypes
<1>4. CASE AzureToken \/ AzureIDClaims \/ AzureATClaims \/ AzureProfile \/ GraphPage
  BY <1>4, AzureTokenTypes, AzureIDClaimsTypes, AzureATClaimsTypes, AzureProfileTypes, GraphPageTypes
<1>5. CASE GoogleListing \/ GoogleMember \/ GoogleUser
  BY <1>5, GoogleListingTypes, GoogleMemberTypes, GoogleUserTypes
<1>6. CASE \/ GitHubOrgs \/ GitHubTeams \/ GitHubHasUser \/ GitHubRepo \/ GitHubEmails
           \/ GitHubUser \/ GitHubCollaborator
  BY <1>6, GitHubListingTypes, GitHubChecksTypes, GitHubEmailsTypes
<1>7. CASE KeycloakProfile \/ NextcloudProfile \/ SourceHutProfile
  <2>1. dir.groups \in SUBSET Names /\ {} \in SUBSET Names BY Typed, Known
  <2> QED BY <1>7, <2>1, ProfileAnswerTypes DEF KeycloakProfile, NextcloudProfile, SourceHutProfile
<1>8. CASE FacebookAddress \/ LinkedInAddress \/ DigitalOceanAddress
  BY <1>8, AddressAnswerTypes DEF FacebookAddress, LinkedInAddress, DigitalOceanAddress
<1>9. CASE BitbucketEmails \/ BitbucketTeams \/ BitbucketRepositories BY <1>9, BitbucketTypes
<1>10. CASE GitLabUserinfo \/ GitLabProject \/ CidaasUserinfo \/ ADFSfallbackUPN
  BY <1>10, GitLabUserinfoTypes, GitLabProjectTypes, CidaasUserinfoTypes, ADFSTypes
<1>11. CASE LoginGovKeys \/ LoginGovMail BY <1>11, LoginGovTypes
<1>12. CASE UNCHANGED vars BY <1>12 DEF vars, TypeOK
<1> QED BY <1>1, <1>2, <1>3, <1>4, <1>5, <1>6, <1>7, <1>8, <1>9, <1>10, <1>11, <1>12 DEF Next

\* Through every handler of all seventeen types, the variables keep their types
\* and a session that is being refreshed is still in the store.
THEOREM TypeCorrect == Spec => []TypeOK
BY InvHolds, InitTypes, NextTypes, PTL DEF Spec

-----------------------------------------------------------------------------
(* Refreshes.  What a refresh saves depends on the stages it has been        *)
(* through: the invariant says, for each request it may be waiting for, what *)
(* the session that it works on has kept and what it has got so far.         *)

\* The types whose sessions have the user of an ID token.
Subjects == OIDC \ {"gitlab"}
Rotating == p.type # "azure" /\ ~Flag("federated")

\* The session after the tokens are in, at a type that asks for more.
Renewed == /\ Rotating => ss.rt = rt
           /\ IF resp.id = NoToken THEN saved.groups \subseteq ss.groups ELSE ss.groups \subseteq told.now

RefreshCourse ==
  \/ call = "validate"
  \/ call = "refresh" /\ p.type \in Refreshing /\ ss = saved
  \/ /\ call = "claims" /\ p.type \in OIDC /\ ss = saved
     /\ resp.id # NoToken /\ Reported(resp) \subseteq told.now /\ (Rotating => resp.rt = rt)
  \/ /\ ss.user = ss.idt /\ Renewed
     /\ \/ call = "upn" /\ p.type = "adfs" /\ (resp.id = NoToken => saved.mail = "")
        \/ call = "userinfo" /\ p.type = "cidaas"
  \/ /\ ss.user = saved.user /\ p.type = "google" /\ (Rotating => ss.rt = rt)
     /\ \/ call \in {"member", "get"} /\ ss.groups \subseteq told.now
        \/ call = "listing" /\ seen \subseteq told.now
  \/ call \in {"idClaims", "atClaims"} /\ p.type = "azure"

LoginCourse ==
  /\ call \in {"redeem", "claims", "upn", "userinfo", "graph", "validate"}
  /\ call = "claims" => resp.id # NoToken
  /\ call \in {"upn", "userinfo", "graph", "validate"} => ss.user = ss.idt

Stages == /\ op = "refresh" => RefreshCourse
          /\ op = "login" /\ p.type \in Subjects => LoginCourse
          /\ saved # NoSession /\ p.type \in Subjects => saved.user = saved.idt

\* What is to be true of a session that a refresh saves.
Rechecking == \/ p.type = "google" /\ p.flags \cap {"members", "allGroups"} # {}
              \/ p.type \in OIDC /\ resp'.id # NoToken

Due(s) ==
  /\ p.type \in Subjects => s.user = s.idt
  /\ p.type \in {"gitlab", "google"} => s.user = saved.user
  /\ Rotating => s.rt = rt'
  /\ Rechecking => s.groups \ (IF p.type = "gitlab" THEN Extra ELSE {}) \subseteq told'.now
  /\ p.type \in OIDC \ {"cidaas"} /\ resp'.id = NoToken =>
       (saved.mail # "" => s.mail = saved.mail) /\ saved.groups \subseteq s.groups

Ends == RefreshSaves => Due(saved')

LEMMA RefreshFinishes ==
  ASSUME TypeOK, Stages, op = "refresh", NEW s, Finish(s), UNCHANGED p, Due(s)
  PROVE  Stages' /\ Ends
<1>1. saved # NoSession BY DEF TypeOK
<1>2. op' = "refresh" /\ call' = "validate" /\ saved' = s BY DEF Finish
<1>3. p.type \in Subjects => s.user = s.idt BY DEF Due
<1>4. Stages' BY <1>1, <1>2, <1>3 DEF Stages, RefreshCourse
<1> QED BY <1>2, <1>4 DEF Ends

LEMMA RefreshFails ==
  ASSUME Stages, op = "refresh", NEW s, Fail(s) \/ FailFatally(s), UNCHANGED p
  PROVE  Stages' /\ Ends
<1>1. CASE Fail(s) BY <1>1 DEF Fail, Stages, RefreshCourse, Ends, RefreshSaves
<1>2. CASE FailFatally(s) BY <1>2 DEF FailFatally, Stages, RefreshCourse, Ends, RefreshSaves
<1> QED BY <1>1, <1>2

LEMMA RefreshGoesOn ==
  ASSUME Stages, op = "refresh", UNCHANGED <<p, op, saved>>, RefreshCourse'
  PROVE  Stages' /\ Ends
BY DEF Stages, Ends, RefreshSaves

\* The groups of the claims were reported with the response or the profile.
LEMMA ClaimedGroups ==
  ASSUME NEW r, NEW more, Reported(r) \subseteq told'.now, "groups" \in more => dir.groups \subseteq told'.now
  PROVE  buildSessionFromClaims(r, r.id, more).groups \subseteq told'.now
<1>1. "groups" \in r.id => r.was.groups \subseteq told'.now BY DEF Reported
<1>2. CASE r.id = NoToken BY <1>2 DEF buildSessionFromClaims
<1>3. CASE r.id # NoToken
  <2>1. buildSessionFromClaims(r, r.id, more).groups
          = IF "groups" \in r.id \cup more THEN Source(r, r.id, "groups").groups ELSE {}
    BY <1>3 DEF buildSessionFromClaims
  <2> QED BY <1>1, <2>1 DEF Source
<1> QED BY <1>2, <1>3

\* createSession of a refresh, when the tokens and the claims are in.
LEMMA RefreshCreates ==
  ASSUME TypeOK, Stages, op = "refresh", p.type \in OIDC, ss = saved, UNCHANGED p,
         NEW r \in Response, NEW more, createSession(r, more), resp' = r, Rotating => r.rt = rt',
         Reported(r) \subseteq told'.now, "groups" \in more => dir.groups \subseteq told'.now
  PROVE  Stages' /\ Ends
<1> DEFINE b == buildSessionFromClaims(r, r.id, more)
           t == Refreshed(ss, r, b)
<1>1. Fail(ss) \/ AfterRefresh(r, t) BY DEF createSession
<1>2. b.groups \subseteq told'.now BY ClaimedGroups
<1>3. r.id # NoToken => b.user = r.was.sub BY DEF buildSessionFromClaims
<1>4. saved \in Session BY DEF TypeOK
<1> HIDE DEF b
<1>5. /\ t.rt = r.rt
      /\ r.id = NoToken => /\ t.user = saved.user /\ t.idt = saved.idt
                          /\ t.mail = saved.mail /\ t.groups = saved.groups
      /\ r.id # NoToken => t.user = t.idt /\ t.groups = b.groups
  <2> DEFINE u == [ss EXCEPT !.at = r.n, !.rt = r.rt, !.refreshed = @ \/ ~Flag("federated")]
  <2>1. /\ u.rt = r.rt /\ u.user = saved.user /\ u.idt = saved.idt /\ u.mail = saved.mail /\ u.groups = saved.groups
        /\ DOMAIN u = {"at", "idt", "rt", "mail", "user", "groups", "refreshed"}
    BY <1>4 DEF Session
  <2>2. CASE r.id = NoToken
    <3>1. t = u BY <2>2 DEF Refreshed
    <3> QED BY <2>1, <2>2, <3>1
  <2>3. CASE r.id # NoToken
    <3>1. t = [u EXCEPT !.idt = r.was.sub, !.mail = b.mail, !.user = b.user, !.groups = b.groups]
      BY <2>3 DEF Refreshed
    <3> HIDE DEF u, t
    <3> QED BY <1>3, <2>1, <2>3, <3>1
  <2> QED BY <2>2, <2>3
<1> HIDE DEF t
<1>6. p.type # "gitlab" => t.user = t.idt
  <2>1. saved # NoSession BY DEF TypeOK
  <2>2. p.type # "gitlab" => saved.user = saved.idt BY <2>1 DEF Stages, Subjects
  <2> QED BY <1>5, <2>2
<1>7. ASSUME p.type # "gitlab" PROVE Due(t)
  <2>1. p.type # "google" BY DEF OIDC
  <2> QED BY <1>2, <1>5, <1>6, <1>7, <2>1 DEF Due, Rechecking
<1>8. ASSUME p.type \in {"adfs", "cidaas"}, Ask("upn", t) \/ Ask("userinfo", t),
             Ask("upn", t) => p.type = "adfs" /\ t.mail = "", Ask("userinfo", t) => p.type = "cidaas"
      PROVE  Stages' /\ Ends
  <2>1. UNCHANGED <<p, op, saved>> /\ ss' = t BY <1>8 DEF Ask
  <2>2. Renewed' BY <1>2, <1>5, <2>1 DEF Renewed, Rotating, Flag
  <2>3. RefreshCourse' BY <1>5, <1>6, <1>8, <2>1, <2>2 DEF Ask, RefreshCourse
  <2> QED BY <2>1, <2>3, RefreshGoesOn
<1>9. CASE p.type = "keycloak-oidc" /\ AfterRefresh(r, t)
  <2> DEFINE u == [t EXCEPT !.groups = @ \cup r.was.extra]
  <2>1. Fail(t) \/ (r.access # NoToken /\ Finish(u)) BY <1>9 DEF AfterRefresh, extractRoles
  <2>2. CASE Fail(t) BY <2>2, RefreshFails
  <2>3. CASE r.access # NoToken /\ Finish(u)
    <3>1. r.was.extra \subseteq told'.now BY <1>9, <2>3 DEF Reported
    <3>2. /\ u.user = t.user /\ u.idt = t.idt /\ u.rt = t.rt /\ u.mail = t.mail
          /\ u.groups = t.groups \cup r.was.extra
      <4>1. t \in Session BY RefreshedTypes DEF t, b
      <4> QED BY <4>1 DEF Session
    <3> HIDE DEF u
    <3>3. Due(u) BY <1>2, <1>5, <1>6, <1>9, <3>1, <3>2 DEF Due, Rechecking
    <3> QED BY <2>3, <3>3, RefreshFinishes
  <2> QED BY <2>1, <2>2, <2>3
<1>10. CASE p.type = "gitlab" /\ AfterRefresh(r, t)
  <2> DEFINE u == [t EXCEPT !.user = saved.user, !.groups = @ \cup (saved.groups \cap Extra)]
  <2>1. Finish(u) BY <1>10 DEF AfterRefresh
  <2>2. /\ u.user = saved.user /\ u.rt = t.rt /\ u.mail = t.mail
        /\ u.groups = t.groups \cup (saved.groups \cap Extra)
    <3>1. t \in Session BY RefreshedTypes DEF t, b
    <3> QED BY <3>1 DEF Session
  <2> HIDE DEF u
  <2>3. Due(u) BY <1>2, <1>5, <1>10, <2>2 DEF Due, Rechecking, Subjects
  <2> QED BY <2>1, <2>3, RefreshFinishes
<1>11. CASE p.type \notin {"keycloak-oidc", "gitlab"} /\ AfterRefresh(r, t)
  <2>1. \/ Finish(t) \/ Fail(t)
        \/ p.type = "adfs" /\ t.mail = "" /\ Ask("upn", t)
        \/ p.type = "cidaas" /\ Ask("userinfo", t)
    BY <1>11 DEF AfterRefresh, cidaasEnrich
  <2>2. CASE Finish(t) BY <1>7, <1>11, <2>2, RefreshFinishes
  <2>3. CASE Fail(t) BY <2>3, RefreshFails
  <2>4. CASE p.type = "adfs" /\ t.mail = "" /\ Ask("upn", t)
    <3>1. ~Ask("userinfo", t) BY <2>4 DEF Ask
    <3> QED BY <1>8, <2>4, <3>1
  <2>5. CASE p.type = "cidaas" /\ Ask("userinfo", t)
    <3>1. ~Ask("upn", t) BY <2>5 DEF Ask
    <3> QED BY <1>8, <2>5, <3>1
  <2> QED BY <2>1, <2>2, <2>3, <2>4, <2>5
<1>12. CASE Fail(ss) BY <1>12, RefreshFails
<1> QED BY <1>1, <1>9, <1>10, <1>11, <1>12

LEMMA HearNow ==
  ASSUME TypeOK, NEW names, Hear(names)
  PROVE  told.now \subseteq told'.now /\ names \subseteq told'.now
BY DEF Hear

LEMMA OIDCTokenStages == ASSUME Inv, TypeOK, Stages, op = "refresh", OIDCToken PROVE Stages' /\ Ends
<1>1. p.type \in OIDC /\ call = "refresh" /\ UNCHANGED <<p, seen>> /\ ss = saved
  BY DEF OIDCToken, Stages, RefreshCourse
<1>2. CASE TokenFault
  <2>1. Fail(ss) \/ FailFatally(ss) BY <1>2 DEF TokenFault
  <2> QED BY <1>1, <2>1, RefreshFails
<1>3. CASE FailFatally(ss) BY <1>1, <1>3, RefreshFails
<1>4. CASE createSession(NoResponse, {}) /\ resp' = NoResponse /\ Flag("federated")
  <2>1. ~Rotating BY <1>4 DEF Rotating
  <2> QED BY <1>1, <1>4, <2>1, NothingReported, ResponseTypes, RefreshCreates
<1>5. ASSUME NEW id \in IDTokens, NEW access \in AccessTokens, NEW new \in BOOLEAN,
             LET r == NewResponse(id, access, new)
             IN  /\ Grant(r, new) /\ Hear(Reported(r))
                 /\ IF id = NoToken /\ op = "login" THEN Fail(ss) /\ UNCHANGED mailSaid
                    ELSE IF NeedsProfile(id) THEN Ask("claims", ss) /\ UNCHANGED mailSaid
                    ELSE createSession(r, {})
      PROVE  Stages' /\ Ends
  <2> DEFINE r == NewResponse(id, access, new)
  <2>1. r \in Response BY NewResponseTypes
  <2>2. /\ Grant(r, new) /\ Hear(Reported(r))
        /\ (NeedsProfile(id) /\ Ask("claims", ss)) \/ createSession(r, {})
    BY <1>5
  <2>3. r.id = id /\ (Rotating => r.rt = rt')
    <3>1. r.id = id BY DEF NewResponse
    <3>2. rt' = IF new THEN grants + 1 ELSE rt BY <2>2 DEF Grant
    <3>3. Rotating => r.rt = IF new THEN grants + 1 ELSE rt BY DEF NewResponse, Rotating
    <3> QED BY <3>1, <3>2, <3>3
  <2> HIDE DEF r
  <2>4. resp' = r /\ Reported(r) \subseteq told'.now BY <2>2, HearNow DEF Grant
  <2>5. CASE createSession(r, {}) BY <1>1, <2>1, <2>3, <2>4, <2>5, RefreshCreates
  <2>6. CASE NeedsProfile(id) /\ Ask("claims", ss)
    <3>1. UNCHANGED <<op, saved, ss>> /\ call' = "claims" BY <2>6 DEF Ask
    <3>2. r.id # NoToken BY <2>3, <2>6 DEF NeedsProfile
    <3>3. Reported(resp)' \subseteq told'.now BY <1>1, <2>4 DEF Reported
    <3>4. (Rotating => resp.rt = rt)' BY <1>1, <2>3, <2>4 DEF Rotating, Flag
    <3>5. RefreshCourse' BY <1>1, <2>4, <3>1, <3>2, <3>3, <3>4 DEF RefreshCourse
    <3> QED BY <1>1, <3>1, <3>5, RefreshGoesOn
  <2> QED BY <2>2, <2>5, <2>6
<1> QED BY <1>2, <1>3, <1>4, <1>5 DEF OIDCToken, FederatedError

LEMMA OIDCClaimsStages == ASSUME Inv, TypeOK, Stages, op = "refresh", OIDCClaims PROVE Stages' /\ Ends
<1>1. UNCHANGED <<p, resp, rt>> BY DEF OIDCClaims, Rest
<1>2. /\ p.type \in OIDC /\ ss = saved /\ Reported(resp) \subseteq told.now
      /\ (Rotating => resp.rt = rt)
  BY DEF OIDCClaims, Stages, RefreshCourse
<1>3. ASSUME NEW more \in ClaimSets, createSession(resp, more),
             Hear(IF "groups" \in more THEN dir.groups ELSE {})
      PROVE  Stages' /\ Ends
  <2>1. /\ told.now \subseteq told'.now
        /\ "groups" \in more => dir.groups \subseteq told'.now
    BY <1>3, HearNow
  <2>2. Reported(resp) \subseteq told'.now BY <1>2, <2>1
  <2> QED BY <1>1, <1>2, <1>3, <2>1, <2>2, Typed, RefreshCreates
<1>4. CASE Fail(ss) BY <1>1, <1>4, RefreshFails
<1> QED BY <1>3, <1>4 DEF OIDCClaims

LEMMA ADFSStages == ASSUME TypeOK, Stages, op = "refresh", ADFSfallbackUPN PROVE Stages' /\ Ends
<1>1. UNCHANGED <<p, resp, rt, told>> BY DEF ADFSfallbackUPN, Rest
<1>2. /\ p.type = "adfs" /\ ss.user = ss.idt /\ Renewed
      /\ (resp.id = NoToken => saved.mail = "")
  BY DEF ADFSfallbackUPN, Stages, RefreshCourse
<1>3. ASSUME NEW s, s.user = ss.user, s.idt = ss.idt, s.rt = ss.rt, s.groups = ss.groups, Finish(s)
      PROVE  Stages' /\ Ends
  <2>1. Due(s) BY <1>1, <1>2, <1>3 DEF Due, Renewed, Rechecking
  <2> QED BY <1>1, <1>3, <2>1, RefreshFinishes
<1>4. LET s == [ss EXCEPT !.mail = "upn"]
      IN  s.user = ss.user /\ s.idt = ss.idt /\ s.rt = ss.rt /\ s.groups = ss.groups
  BY Typed DEF Session
<1>5. Finish([ss EXCEPT !.mail = "upn"]) \/ Finish(ss) \/ Fail(ss) BY DEF ADFSfallbackUPN
<1> QED BY <1>1, <1>3, <1>4, <1>5, RefreshFails

LEMMA CidaasStages == ASSUME TypeOK, Stages, op = "refresh", CidaasUserinfo PROVE Stages' /\ Ends
<1>1. UNCHANGED <<p, resp, rt>> BY DEF CidaasUserinfo, Rest
<1>2. p.type = "cidaas" /\ ss.user = ss.idt /\ Renewed
  BY DEF CidaasUserinfo, Stages, RefreshCourse
<1>3. ASSUME NEW s, s.user = ss.user, s.idt = ss.idt, s.rt = ss.rt, Finish(s), told.now \subseteq told'.now,
             s.groups \subseteq ss.groups \/ s.groups \subseteq told'.now
      PROVE  Stages' /\ Ends
  <2>1. resp.id # NoToken => s.groups \subseteq told'.now BY <1>2, <1>3 DEF Renewed
  <2>2. Due(s) BY <1>1, <1>2, <1>3, <2>1 DEF Due, Renewed, Rechecking
  <2> QED BY <1>1, <1>3, <2>2, RefreshFinishes
<1>4. ASSUME NEW decoded \in BOOLEAN, Hear(dir.groups \cup dir.extra),
             LET fresh == ss.mail = "" /\ dir.mail # "none"
                 s == [ss EXCEPT !.mail = IF fresh THEN "mail" ELSE @,
                                 !.groups = IF decoded THEN dir.groups \cup dir.extra ELSE @]
             IN  IF s.mail = "" THEN Fail(s) ELSE Finish(s)
      PROVE  Stages' /\ Ends
  <2> DEFINE fresh == ss.mail = "" /\ dir.mail # "none"
             s == [ss EXCEPT !.mail = IF fresh THEN "mail" ELSE @,
                             !.groups = IF decoded THEN dir.groups \cup dir.extra ELSE @]
  <2>1. Fail(s) \/ Finish(s) BY <1>4
  <2>2. told.now \subseteq told'.now /\ dir.groups \cup dir.extra \subseteq told'.now BY <1>4, HearNow
  <2> HIDE DEF fresh
  <2>3. /\ s.user = ss.user /\ s.idt = ss.idt /\ s.rt = ss.rt
        /\ s.groups = IF decoded THEN dir.groups \cup dir.extra ELSE ss.groups
    BY Typed DEF Session
  <2> HIDE DEF s
  <2> QED BY <1>1, <1>3, <2>1, <2>2, <2>3, RefreshFails
<1>5. CASE (IF ss.mail = "" THEN Fail(ss) ELSE Finish(ss)) /\ UNCHANGED told
  BY <1>1, <1>3, <1>5, RefreshFails
<1> QED BY <1>4, <1>5 DEF CidaasUserinfo

\* The end of a refresh at Google: there is no request for the name.
LEMMA GoogleFinishes ==
  ASSUME TypeOK, Stages, op = "refresh", p.type = "google", UNCHANGED <<p, rt>>, NEW s, GoogleName(s),
         s.user = saved.user, Rotating => s.rt = rt,
         s.groups \subseteq told'.now \/ p.flags \cap {"members", "allGroups"} = {}
  PROVE  Stages' /\ Ends
<1>1. Finish(s) BY DEF GoogleName
<1>2. Due(s) BY DEF Due, Rechecking, OIDC, Subjects
<1> QED BY <1>1, <1>2, RefreshFinishes

LEMMA GoogleTokenStages == ASSUME Inv, TypeOK, Stages, op = "refresh", GoogleToken PROVE Stages' /\ Ends
<1>1. p.type = "google" /\ call = "refresh" /\ UNCHANGED <<p, seen>> /\ ss = saved /\ seen = {}
  BY DEF GoogleToken, Stages, RefreshCourse, Inv, Listed, Before
<1>2. CASE TokenFault
  <2>1. Fail(ss) \/ FailFatally(ss) BY <1>2 DEF TokenFault
  <2> QED BY <1>1, <2>1, RefreshFails
<1>3. CASE FailFatally(ss) BY <1>1, <1>3, RefreshFails
<1>4. ASSUME NEW id, NEW new, ss.rt = rt,
             LET r == [NewResponse(id, NoToken, new) EXCEPT !.rt = IF new THEN grants + 1 ELSE 0]
             IN  /\ op = "refresh" => ~new
                 /\ Grant(r, new)
                 /\ IF op = "refresh" THEN GoogleRefreshed(r) ELSE GoogleRedeemed(r)
      PROVE  Stages' /\ Ends
  <2> DEFINE r == [NewResponse(id, NoToken, new) EXCEPT !.rt = IF new THEN grants + 1 ELSE 0]
             s == [ss EXCEPT !.at = r.n, !.idt = IF r.id = NoToken THEN "" ELSE r.was.sub]
             t == [s EXCEPT !.groups = {}]
  <2>1. rt' = rt /\ groupValidator(s) BY <1>4 DEF Grant, GoogleRefreshed
  <2> HIDE DEF r
  <2>2. /\ s.user = ss.user /\ s.rt = ss.rt /\ DOMAIN s = Fields
        /\ t.user = ss.user /\ t.rt = ss.rt /\ t.groups = {}
    <3>1. s.user = ss.user /\ s.rt = ss.rt /\ DOMAIN s = Fields BY Typed DEF Session, Fields
    <3> HIDE DEF s
    <3> QED BY <3>1 DEF Fields
  <2>3. \/ Ask("member", t) \/ Ask("listing", s)
        \/ p.flags \cap {"members", "allGroups"} = {} /\ GoogleName(s)
    BY <2>1 DEF groupValidator, Flag
  <2> HIDE DEF s, t
  <2>4. CASE Ask("member", t) \/ Ask("listing", s)
    <3>1. UNCHANGED <<op, saved>> BY <2>4 DEF Ask
    <3>2. RefreshCourse' BY <1>1, <1>4, <2>1, <2>2, <2>4 DEF Ask, RefreshCourse
    <3> QED BY <1>1, <3>1, <3>2, RefreshGoesOn
  <2>5. CASE p.flags \cap {"members", "allGroups"} = {} /\ GoogleName(s)
    BY <1>1, <1>4, <2>1, <2>2, <2>5, GoogleFinishes
  <2> QED BY <2>3, <2>4, <2>5
<1> QED BY <1>2, <1>3, <1>4 DEF GoogleToken

LEMMA GoogleListingStages ==
  ASSUME TypeOK, Stages, op = "refresh", GoogleListing PROVE Stages' /\ Ends
<1>1. UNCHANGED <<p, rt>> BY DEF GoogleListing, Rest
<1>2. /\ p.type = "google" /\ ss.user = saved.user /\ (Rotating => ss.rt = rt)
      /\ call = "listing" /\ seen \subseteq told.now
  BY DEF GoogleListing, Stages, RefreshCourse
<1>3. \A names : LET s == [ss EXCEPT !.groups = names]
                 IN  s.user = ss.user /\ s.rt = ss.rt /\ s.groups = names
  BY Typed DEF Session
<1>4. ASSUME NEW new, Hear(new), seen' = seen \cup new, NEW last,
             IF last THEN GoogleName([ss EXCEPT !.groups = seen']) ELSE Ask("listing", ss)
      PROVE  Stages' /\ Ends
  <2>1. seen' \subseteq told'.now BY <1>2, <1>4, HearNow
  <2>2. CASE GoogleName([ss EXCEPT !.groups = seen'])
    BY <1>1, <1>2, <1>3, <2>1, <2>2, GoogleFinishes
  <2>3. CASE Ask("listing", ss)
    <3>1. UNCHANGED <<op, saved, ss>> /\ call' = "listing" BY <2>3 DEF Ask
    <3>2. (Rotating => ss.rt = rt)' BY <1>1, <1>2, <3>1 DEF Rotating, Flag
    <3>3. RefreshCourse' BY <1>1, <1>2, <2>1, <3>1, <3>2 DEF RefreshCourse
    <3> QED BY <1>1, <3>1, <3>3, RefreshGoesOn
  <2> QED BY <1>4, <2>2, <2>3
<1>5. CASE GoogleName([ss EXCEPT !.groups = {}])
  BY <1>1, <1>2, <1>3, <1>5, GoogleFinishes
<1> QED BY <1>4, <1>5 DEF GoogleListing

LEMMA GoogleCheckedStages ==
  ASSUME TypeOK, Stages, op = "refresh", UNCHANGED <<p, rt>>, call \in {"member", "get"},
         NEW group, NEW member, GoogleChecked(group, member),
         told.now \subseteq told'.now, member => group \in told'.now
  PROVE  Stages' /\ Ends
<1> DEFINE s == [ss EXCEPT !.groups = IF member THEN @ \cup {group} ELSE @]
<1>1. /\ p.type = "google" /\ ss.user = saved.user /\ (Rotating => ss.rt = rt)
      /\ ss.groups \subseteq told.now
  BY DEF Stages, RefreshCourse
<1>2. s.user = ss.user /\ s.rt = ss.rt /\ s.groups \subseteq told'.now BY <1>1, Typed DEF Session
<1>3. Ask("member", s) \/ Fail(s) \/ GoogleName(s) BY DEF GoogleChecked
<1> HIDE DEF s
<1>4. CASE Ask("member", s)
  <2>1. UNCHANGED <<op, saved>> /\ ss' = s /\ call' = "member" BY <1>4 DEF Ask
  <2>2. (Rotating => ss.rt = rt)' BY <1>1, <1>2, <2>1 DEF Rotating, Flag
  <2>3. RefreshCourse' BY <1>1, <1>2, <2>1, <2>2 DEF RefreshCourse
  <2> QED BY <2>1, <2>3, RefreshGoesOn
<1>5. CASE GoogleName(s) BY <1>1, <1>2, <1>5, GoogleFinishes
<1> QED BY <1>3, <1>4, <1>5, RefreshFails

LEMMA GoogleMemberStages ==
  ASSUME TypeOK, Stages, op = "refresh", GoogleMember PROVE Stages' /\ Ends
<1>1. UNCHANGED <<p, rt>> /\ call \in {"member", "get"} BY DEF GoogleMember, Rest
<1>2. PICK group : userInGroup(group) BY DEF GoogleMember
<1>3. CASE GoogleChecked(group, group \in dir.groups) /\ Hear(dir.groups \cap {group})
  <2>1. told.now \subseteq told'.now /\ (group \in dir.groups => group \in told'.now)
    BY <1>3, HearNow
  <2> QED BY <1>1, <1>3, <2>1, GoogleCheckedStages
<1>4. CASE Ask("get", ss) /\ UNCHANGED told
  <2>1. UNCHANGED <<op, saved, ss>> /\ call' = "get" BY <1>4 DEF Ask
  <2>2. /\ p.type = "google" /\ ss.user = saved.user /\ (Rotating => ss.rt = rt)
        /\ ss.groups \subseteq told.now
    BY <1>1 DEF Stages, RefreshCourse
  <2>3. (Rotating => ss.rt = rt)' BY <1>1, <2>1, <2>2 DEF Rotating, Flag
  <2>4. RefreshCourse' BY <1>1, <1>4, <2>1, <2>2, <2>3 DEF RefreshCourse
  <2> QED BY <1>1, <2>1, <2>4, RefreshGoesOn
<1>5. CASE GoogleChecked(group, FALSE) /\ UNCHANGED told BY <1>1, <1>5, GoogleCheckedStages
<1> QED BY <1>2, <1>3, <1>4, <1>5 DEF userInGroup

\* Of Azure's sessions nothing is promised.
LEMMA AzureFinishes ==
  ASSUME TypeOK, Stages, op = "refresh", p.type = "azure", UNCHANGED p, NEW s, Finish(s)
  PROVE  Stages' /\ Ends
<1>1. Due(s) BY DEF Due, Rechecking, Rotating, OIDC, Subjects
<1> QED BY <1>1, RefreshFinishes

LEMMA AzureAsks ==
  ASSUME Stages, op = "refresh", p.type = "azure", UNCHANGED p, NEW c \in {"idClaims", "atClaims"},
         NEW s, Ask(c, s)
  PROVE  Stages' /\ Ends
<1>1. UNCHANGED <<op, saved>> /\ call' = c /\ ss' = s BY DEF Ask
<1>2. RefreshCourse' BY <1>1 DEF RefreshCourse
<1> QED BY <1>1, <1>2, RefreshGoesOn

LEMMA AzureStages ==
  ASSUME TypeOK, Stages, op = "refresh", AzureToken \/ AzureIDClaims \/ AzureATClaims
  PROVE  Stages' /\ Ends
<1>1. p.type = "azure" /\ call \notin {"idAgain", "atAgain"}
  BY DEF AzureToken, AzureIDClaims, AzureATClaims, Stages, RefreshCourse
<1>2. UNCHANGED p BY DEF AzureToken, AzureIDClaims, AzureATClaims, Rest
<1>5. ASSUME NEW b, AzureClaims(b) PROVE Stages' /\ Ends
  <2>1. Finish([ss EXCEPT !.mail = b.mail, !.groups = IF b.listed THEN b.groups ELSE @])
    BY <1>1, <1>5 DEF AzureClaims
  <2> QED BY <1>1, <1>2, <2>1, AzureFinishes
<1>6. ASSUME AzureError(ss) PROVE Stages' /\ Ends
  <2>1. Finish(ss) BY <1>1, <1>6 DEF AzureError
  <2> QED BY <1>1, <1>2, <2>1, AzureFinishes
<1>7. CASE AzureToken
  <2>1. (\E r : Ask("idClaims", AzureTokens(r))) \/ FailFatally(ss) \/ Fail(ss)
    BY <1>7 DEF AzureToken, TokenFault
  <2> QED BY <1>1, <1>2, <2>1, AzureAsks, RefreshFails
<1>8. CASE AzureIDClaims
  <2>1. call = "idClaims" BY <1>1, <1>8 DEF AzureIDClaims
  <2>2. (\E b : AzureClaims(b)) \/ Ask("atClaims", ss) \/ AzureError(ss)
    BY <1>8, <2>1 DEF AzureIDClaims
  <2> QED BY <1>1, <1>2, <1>5, <1>6, <2>2, AzureAsks
<1>9. CASE AzureATClaims
  <2>1. (\E b : AzureClaims(b)) \/ AzureError(ss) BY <1>9 DEF AzureATClaims
  <2> QED BY <1>5, <1>6, <2>1
<1> QED BY <1>7, <1>8, <1>9

\* However a handler goes on, it begins no refresh.
LEMMA HandlersStay ==
  ASSUME Next, ~(Login \/ Refresh \/ SignOut \/ ValidateSession \/ DirectoryChanges)
  PROVE  p' = p /\ call # "none" /\ (op' = op \/ op' = "idle") /\ (op = "login" => saved' = saved)
<1> DEFINE Goes == (op' = op \/ op' = "idle") /\ (op = "login" => saved' = saved)
           Stays == p' = p /\ call # "none" /\ Goes
<1>1. \A s : /\ \A c : Ask(c, s) => Goes
             /\ Fail(s) => Goes
             /\ FailFatally(s) => Goes
             /\ Finish(s) => Goes
  BY DEF Ask, Fail, FailFatally, Finish
<1>2. \A s : /\ AzureGroups(s) \/ AzureMail(s) \/ AzureError(s) => Goes
             /\ GoogleName(s) \/ groupValidator(s) => Goes
             /\ cidaasEnrich(s) \/ GitHubMembership(s) => Goes
             /\ \A r : extractRoles(r, s) => Goes
  <2> HIDE DEF Goes
  <2> QED BY <1>1 DEF AzureGroups, AzureMail, AzureError, GoogleName, groupValidator, cidaasEnrich,
             GitHubMembership, extractRoles
<1>3. \A r, s : EnrichSession(r, s) \/ AfterRefresh(r, s) => Goes
  <2> HIDE DEF Goes
  <2> QED BY <1>1, <1>2 DEF EnrichSession, AfterRefresh
<1>4. \A r, more : createSession(r, more) => Goes
  <2> HIDE DEF Goes
  <2> QED BY <1>1, <1>3 DEF createSession
<1> HIDE DEF Goes
<1>5. TokenFault => Goes BY <1>1 DEF TokenFault
<1>6. OIDCToken \/ OIDCClaims \/ DefaultToken => Stays
  BY <1>1, <1>3, <1>4, <1>5 DEF OIDCToken, FederatedError, OIDCClaims, DefaultToken, Rest
<1>7. GoogleToken \/ LoginGovToken \/ AzureToken => Stays
  BY <1>1, <1>2, <1>5 DEF GoogleToken, GoogleRedeemed, GoogleRefreshed, LoginGovToken, AzureToken, Rest
<1>8. AzureIDClaims \/ AzureATClaims \/ AzureProfile \/ GraphPage => Stays
  BY <1>1, <1>2 DEF AzureIDClaims, AzureATClaims, AzureClaims, AzureProfile, GraphPage, GraphFailed, Rest
<1>9. GoogleListing \/ GoogleMember \/ GoogleUser => Stays
  BY <1>1, <1>2 DEF GoogleListing, GoogleMember, userInGroup, GoogleChecked, GoogleUser, Rest
<1>10. /\ GitHubOrgs \/ GitHubTeams \/ GitHubHasUser \/ GitHubRepo => Stays
       /\ GitHubEmails \/ GitHubUser \/ GitHubCollaborator => Stays
  BY <1>1, <1>2 DEF GitHubOrgs, GitHubTeams, GitHubHasUser, checkUserRestriction, GitHubRepo,
     GitHubEmails, GitHubUser, GitHubCollaborator, Rest
<1>11. /\ KeycloakProfile \/ NextcloudProfile \/ SourceHutProfile => Stays
       /\ FacebookAddress \/ LinkedInAddress \/ DigitalOceanAddress => Stays
  BY <1>1 DEF KeycloakProfile, NextcloudProfile, SourceHutProfile, ProfileAnswer, FacebookAddress,
     LinkedInAddress, DigitalOceanAddress, AddressAnswer, Rest
<1>12. BitbucketEmails \/ BitbucketTeams \/ BitbucketRepositories => Stays
  BY <1>1 DEF BitbucketEmails, BitbucketTeams, BitbucketRepositories, BitbucketRepo, Rest
<1>13. /\ GitLabUserinfo \/ GitLabProject \/ CidaasUserinfo \/ ADFSfallbackUPN => Stays
       /\ LoginGovKeys \/ LoginGovMail => Stays
  BY <1>1 DEF GitLabUserinfo, GitLabProject, CidaasUserinfo, ADFSfallbackUPN, LoginGovKeys, LoginGovMail, Rest
<1>14. Stays BY <1>6, <1>7, <1>8, <1>9, <1>10, <1>11, <1>12, <1>13 DEF Next
<1> QED BY <1>14 DEF Goes

\* How a login at one of these types goes on.
LEMMA LoginGoesOn ==
  ASSUME op = "login", UNCHANGED p, NEW s, s.user = s.idt,
         \/ Ask("upn", s) \/ Ask("userinfo", s) \/ Ask("graph", s)
         \/ Finish(s) \/ Fail(s)
  PROVE  op' = "login" => LoginCourse'
BY DEF Ask, Finish, Fail, LoginCourse

LEMMA LoginFails == ASSUME op = "login", NEW s, Fail(s) \/ FailFatally(s) PROVE op' # "login"
BY DEF Fail, FailFatally

LEMMA LoginCreates ==
  ASSUME op = "login", p.type \in Subjects, UNCHANGED p, NEW r, NEW more, r.id # NoToken, createSession(r, more)
  PROVE  op' = "login" => LoginCourse'
<1> DEFINE b == buildSessionFromClaims(r, r.id, more)
           s == Created(r, b)
<1>1. Fail(ss) \/ EnrichSession(r, s) BY DEF createSession
<1>2. b.user = r.was.sub BY DEF buildSessionFromClaims
<1> HIDE DEF b
<1>3. s.user = s.idt BY <1>2 DEF Created
<1>4. LET t == [s EXCEPT !.groups = @ \cup r.was.extra] IN t.user = t.idt BY <1>2 DEF Created
<1>5. p.type \in {"oidc", "adfs", "entra-id", "cidaas", "keycloak-oidc"} BY DEF Subjects, OIDC
<1> HIDE DEF s
<1>6. CASE EnrichSession(r, s)
  <2>1. \/ Ask("upn", s) \/ Ask("userinfo", s) \/ Ask("graph", s)
        \/ Finish(s) \/ Fail(s) \/ Finish([s EXCEPT !.groups = @ \cup r.was.extra])
    BY <1>5, <1>6 DEF EnrichSession, extractRoles, cidaasEnrich, ProfileTypes, AddressTypes
  <2> QED BY <1>3, <1>4, <2>1, LoginGoesOn
<1> QED BY <1>1, <1>6, LoginFails

LEMMA LoginStages ==
  ASSUME TypeOK, op = "login", p.type \in Subjects, LoginCourse, UNCHANGED p,
         \/ OIDCToken \/ OIDCClaims \/ ADFSfallbackUPN \/ CidaasUserinfo \/ GraphPage
  PROVE  op' = "login" => LoginCourse'
<1>1. CASE OIDCToken
  <2>1. CASE FailFatally(ss) \/ TokenFault BY <2>1, LoginFails DEF TokenFault
  <2>2. ASSUME NEW id, NEW access, NEW new,
               LET r == NewResponse(id, access, new)
               IN  /\ Grant(r, new)
                   /\ IF id = NoToken /\ op = "login" THEN Fail(ss) /\ UNCHANGED mailSaid
                      ELSE IF NeedsProfile(id) THEN Ask("claims", ss) /\ UNCHANGED mailSaid
                      ELSE createSession(r, {})
        PROVE  op' = "login" => LoginCourse'
    <3> DEFINE r == NewResponse(id, access, new)
    <3>1. r.id = id BY DEF NewResponse
    <3>2. resp' = r /\ (\/ Fail(ss)
                        \/ id # NoToken /\ Ask("claims", ss)
                        \/ id # NoToken /\ createSession(r, {}))
      BY <2>2 DEF Grant
    <3> HIDE DEF r
    <3>3. CASE id # NoToken /\ Ask("claims", ss) BY <3>1, <3>2, <3>3 DEF Ask, LoginCourse
    <3> QED BY <3>1, <3>2, <3>3, LoginFails, LoginCreates
  <2> QED BY <1>1, <2>1, <2>2 DEF OIDCToken, FederatedError
<1>2. CASE OIDCClaims
  <2>1. resp.id # NoToken BY <1>2 DEF OIDCClaims, LoginCourse
  <2>2. Fail(ss) \/ \E more : createSession(resp, more) BY <1>2 DEF OIDCClaims
  <2> QED BY <2>1, <2>2, LoginFails, LoginCreates
<1>3. CASE ADFSfallbackUPN
  <2>1. ss.user = ss.idt BY <1>3 DEF ADFSfallbackUPN, LoginCourse
  <2>2. LET s == [ss EXCEPT !.mail = "upn"] IN s.user = s.idt BY <2>1, Typed DEF Session
  <2>3. Finish([ss EXCEPT !.mail = "upn"]) \/ Finish(ss) \/ Fail(ss) BY <1>3 DEF ADFSfallbackUPN
  <2> QED BY <2>1, <2>2, <2>3, LoginGoesOn
<1>4. CASE CidaasUserinfo
  <2>1. ss.user = ss.idt BY <1>4 DEF CidaasUserinfo, LoginCourse
  <2>2. \A mail, groups : LET s == [ss EXCEPT !.mail = mail, !.groups = groups] IN s.user = s.idt
    BY <2>1, Typed DEF Session
  <2>3. (\E mail, groups : LET s == [ss EXCEPT !.mail = mail, !.groups = groups] IN Fail(s) \/ Finish(s))
        \/ Finish(ss) \/ Fail(ss)
    BY <1>4 DEF CidaasUserinfo
  <2> QED BY <2>1, <2>2, <2>3, LoginGoesOn
<1>5. CASE GraphPage
  <2>1. ss.user = ss.idt BY <1>5 DEF GraphPage, LoginCourse
  <2>2. LET s == [ss EXCEPT !.groups = @ \cup seen'] IN s.user = s.idt BY <2>1, Typed DEF Session
  <2>3. Finish([ss EXCEPT !.groups = @ \cup seen']) \/ Ask("graph", ss) \/ Fail(ss) \/ Finish(ss)
    BY <1>5 DEF GraphPage, GraphFailed
  <2> QED BY <2>1, <2>2, <2>3, LoginGoesOn
<1> QED BY <1>1, <1>2, <1>3, <1>4, <1>5

LEMMA AroundStages ==
  ASSUME Inv, TypeOK, Stages,
         Login \/ Refresh \/ SignOut \/ ValidateSession \/ DirectoryChanges \/ UNCHANGED vars
  PROVE  Stages' /\ Ends
<1>1. CASE Login BY <1>1 DEF Login, RestAnew, Stages, LoginCourse, Ends, RefreshSaves
<1>2. CASE Refresh
  <2>1. /\ op = "idle" /\ op' = "refresh" /\ p' = p /\ saved' = saved /\ ss' = saved
        /\ call' = "validate" \/ (call' = "refresh" /\ p.type \in Refreshing)
    BY <1>2 DEF Refresh, Rest
  <2>2. RefreshCourse' BY <2>1 DEF RefreshCourse
  <2> QED BY <2>1, <2>2 DEF Stages, Ends, RefreshSaves
<1>3. CASE SignOut
  <2>1. op = "idle" /\ op' = "idle" /\ saved' = NoSession BY <1>3 DEF SignOut
  <2> QED BY <2>1 DEF Stages, Ends, RefreshSaves
<1>4. CASE ValidateSession
  <2>1. /\ call = "validate" /\ op' = "idle" /\ p' = p
        /\ saved' \in {saved, NoSession} \/ (op = "login" /\ saved' = ss)
    BY <1>4 DEF ValidateSession, RestAnew
  <2>2. op = "login" /\ p.type \in Subjects => ss.user = ss.idt BY <2>1 DEF Stages, LoginCourse
  <2> QED BY <2>1, <2>2 DEF Stages, Ends, RefreshSaves
<1>5. CASE DirectoryChanges \/ UNCHANGED vars
  <2>1. UNCHANGED <<p, op, call, ss, saved, resp, seen, rt, told>> BY <1>5 DEF DirectoryChanges, vars
  <2>2. (Rotating' <=> Rotating) /\ Reported(resp)' = Reported(resp) BY <2>1 DEF Rotating, Flag, Reported
  <2>3. Renewed' <=> Renewed BY <2>1, <2>2 DEF Renewed
  <2>4. RefreshCourse => RefreshCourse' BY <2>1, <2>2, <2>3 DEF RefreshCourse
  <2>5. LoginCourse => LoginCourse' BY <2>1 DEF LoginCourse
  <2> QED BY <2>1, <2>4, <2>5 DEF Stages, Ends, RefreshSaves
<1> QED BY <1>1, <1>2, <1>3, <1>4, <1>5

LEMMA NextStages == ASSUME Inv, TypeOK, Stages, [Next]_vars PROVE Stages' /\ Ends
<1>1. CASE Login \/ Refresh \/ SignOut \/ ValidateSession \/ DirectoryChanges \/ UNCHANGED vars
  BY <1>1, AroundStages
<1>2. CASE ~(Login \/ Refresh \/ SignOut \/ ValidateSession \/ DirectoryChanges \/ UNCHANGED vars)
  <2>1. p' = p /\ op # "idle" /\ (op' = op \/ op' = "idle") /\ (op = "login" => saved' = saved)
    BY <1>2, HandlersStay, InOperation
  <2>2. CASE op = "refresh"
    <3>1. RefreshCourse BY <2>2 DEF Stages
    <3>2. ~(\/ DefaultToken \/ LoginGovToken \/ AzureProfile \/ GraphPage \/ GoogleUser
            \/ GitHubOrgs \/ GitHubTeams \/ GitHubHasUser \/ GitHubRepo \/ GitHubEmails
            \/ GitHubUser \/ GitHubCollaborator)
      BY <3>1 DEF RefreshCourse, DefaultToken, LoginGovToken, AzureProfile, GraphPage, GoogleUser,
         GitHubOrgs, GitHubTeams, GitHubHasUser, GitHubRepo, GitHubEmails, GitHubUser, GitHubCollaborator
    <3>3. /\ ~(KeycloakProfile \/ NextcloudProfile \/ SourceHutProfile)
          /\ ~(FacebookAddress \/ LinkedInAddress \/ DigitalOceanAddress)
      BY <3>1 DEF RefreshCourse, KeycloakProfile, NextcloudProfile, SourceHutProfile, ProfileAnswer,
         FacebookAddress, LinkedInAddress, DigitalOceanAddress, AddressAnswer
    <3>4. /\ ~(BitbucketEmails \/ BitbucketTeams \/ BitbucketRepositories)
          /\ ~(GitLabUserinfo \/ GitLabProject \/ LoginGovKeys \/ LoginGovMail)
      BY <3>1 DEF RefreshCourse, BitbucketEmails, BitbucketTeams, BitbucketRepositories, GitLabUserinfo,
         GitLabProject, LoginGovKeys, LoginGovMail
    <3> QED BY <1>2, <2>2, <3>2, <3>3, <3>4, OIDCTokenStages, OIDCClaimsStages, ADFSStages, CidaasStages,
               GoogleTokenStages, GoogleListingStages, GoogleMemberStages, AzureStages DEF Next
  <2>3. CASE op = "login" /\ p.type \notin Subjects
    BY <2>1, <2>3 DEF Stages, Ends, RefreshSaves
  <2>4. CASE op = "login" /\ p.type \in Subjects
    <3>1. LoginCourse BY <2>4 DEF Stages
    <3>2. p.type \in {"oidc", "adfs", "entra-id", "cidaas", "keycloak-oidc"} BY <2>4 DEF Subjects, OIDC
    <3>3. ~(\/ DefaultToken \/ LoginGovToken \/ GoogleToken \/ AzureToken \/ AzureIDClaims
            \/ AzureATClaims \/ AzureProfile \/ GoogleListing \/ GoogleMember \/ GoogleUser)
      BY <3>1, <3>2 DEF LoginCourse, DefaultToken, LoginGovToken, GoogleToken, AzureToken, AzureIDClaims,
         AzureATClaims, AzureProfile, GoogleListing, GoogleMember, GoogleUser, OIDC
    <3>4. ~(\/ GitHubOrgs \/ GitHubTeams \/ GitHubHasUser \/ GitHubRepo \/ GitHubEmails
            \/ GitHubUser \/ GitHubCollaborator)
      BY <3>1 DEF LoginCourse, GitHubOrgs, GitHubTeams, GitHubHasUser, GitHubRepo, GitHubEmails,
         GitHubUser, GitHubCollaborator
    <3>5. /\ ~(KeycloakProfile \/ NextcloudProfile \/ SourceHutProfile)
          /\ ~(FacebookAddress \/ LinkedInAddress \/ DigitalOceanAddress)
      BY <3>1 DEF LoginCourse, KeycloakProfile, NextcloudProfile, SourceHutProfile, ProfileAnswer,
         FacebookAddress, LinkedInAddress, DigitalOceanAddress, AddressAnswer
    <3>6. /\ ~(BitbucketEmails \/ BitbucketTeams \/ BitbucketRepositories)
          /\ ~(GitLabUserinfo \/ GitLabProject \/ LoginGovKeys \/ LoginGovMail)
      BY <3>1, <3>2 DEF LoginCourse, BitbucketEmails, BitbucketTeams, BitbucketRepositories,
         GitLabUserinfo, GitLabProject, LoginGovKeys, LoginGovMail
    <3>7. OIDCToken \/ OIDCClaims \/ ADFSfallbackUPN \/ CidaasUserinfo \/ GraphPage
      BY <1>2, <3>3, <3>4, <3>5, <3>6 DEF Next
    <3>8. op' = "login" => LoginCourse' BY <2>1, <2>4, <3>1, <3>7, LoginStages
    <3> QED BY <2>1, <2>4, <3>8 DEF Stages, Ends, RefreshSaves
  <2>5. op \in {"idle", "login", "refresh"} BY DEF TypeOK
  <2> QED BY <2>1, <2>2, <2>3, <2>4, <2>5
<1> QED BY <1>1, <1>2

\* Everything a refresh saves is due.
LEMMA RefreshesAreDue == Spec => [][Ends]_vars
<1>1. Init => Stages BY DEF Init, Stages
<1>2. Inv /\ TypeOK /\ Stages /\ [Next]_vars => Stages' /\ Ends BY NextStages
<1> QED BY <1>1, <1>2, InvHolds, TypeCorrect, PTL DEF Spec

\* After a refresh that could look, the groups saved are ones that the provider
\* named during it, whatever failed on the way.
THEOREM GroupsRechecked == Spec => RefreshRechecksGroups
<1>1. Ends => (RefreshSaves /\ (\/ p.type = "google" /\ p.flags \cap {"members", "allGroups"} # {}
                                \/ p.type \in OIDC /\ resp'.id # NoToken)
                 => saved'.groups \ (IF p.type = "gitlab" THEN Extra ELSE {}) \subseteq told'.now)
  BY DEF Ends, Due, Rechecking
<1> QED BY <1>1, RefreshesAreDue, PTL DEF RefreshRechecksGroups

\* No refresh leaves the user of one ID token with the ID token of another, and
\* one without an ID token loses neither e-mail nor groups.
THEOREM IdentityWhole == Spec => IdentityFollowsIDToken
<1>1. Ends => (RefreshSaves =>
                 /\ p.type \in OIDC \ {"gitlab"} => saved'.user = saved'.idt
                 /\ p.type \in {"gitlab", "google"} => saved'.user = saved.user
                 /\ p.type \in OIDC \ {"cidaas"} /\ resp'.id = NoToken =>
                      (saved.mail # "" => saved'.mail = saved.mail) /\ saved.groups \subseteq saved'.groups)
  BY DEF Ends, Due, Subjects
<1> QED BY <1>1, RefreshesAreDue, PTL DEF IdentityFollowsIDToken

\* What a refresh saves can be refreshed again: it has the refresh token that
\* the provider accepts from then on.
THEOREM TokenSaved == Spec => RefreshTokenSaved
<1>1. Ends => (RefreshSaves /\ p.type # "azure" /\ "federated" \notin p.flags => saved'.rt = rt')
  BY DEF Ends, Due, Rotating, Flag
<1> QED BY <1>1, RefreshesAreDue, PTL DEF RefreshTokenSaved
=============================================================================

------------------------------- MODULE Provider -------------------------------
(***************************************************************************)
(* The identity providers of providers/: how a session is made from what the *)
(* provider answers at a login (Redeem, GetEmailAddress, EnrichSession),     *)
(* brought up to date by RefreshSession, checked by ValidateSession and held *)
(* against the allowed groups by Authorize.  Every request to the provider   *)
(* is a step of its own that may fail, and what the provider knows of the    *)
(* user (dir) may change between any two of them.                            *)
(*                                                                           *)
(* One user, one session: how several requests share a session is            *)
(* StoredSession's subject, how a login is tied to a browser LoginFlow's.    *)
(* Names that differ in case only are one name here.                         *)
(***************************************************************************)
EXTENDS Naturals, FiniteSets

CONSTANTS Groups,      \* what the provider lists as groups or organisations
          Extra,       \* roles, teams and projects, as they are named in a session
          Org, Team,   \* the organisation and the team a login may be limited to
          Options,     \* the providers that are configured, see Option
          ClaimSets,   \* which claims a token or a profile may carry
          NoSession,
          MaxGrants, MaxFaults, MaxChanges

Types == {"adfs", "azure", "entra-id", "bitbucket", "cidaas", "digitalocean", "facebook",
          "github", "gitlab", "google", "keycloak", "keycloak-oidc", "linkedin", "login.gov",
          "nextcloud", "oidc", "sourcehut"}
\* The types that embed OIDCProvider, and the ones that implement RefreshSession.
OIDC == {"oidc", "adfs", "entra-id", "cidaas", "gitlab", "keycloak-oidc"}
Refreshing == OIDC \cup {"azure", "google"}
\* The ones that implement GetEmailAddress by one request, or EnrichSession by one.
AddressTypes == {"facebook", "linkedin", "digitalocean"}
ProfileTypes == {"keycloak", "nextcloud", "sourcehut"}

Names == Groups \cup Extra
Claims == {"email", "email_verified", "groups", "preferred_username"}
Flags == {"profileURL", "validateURL", "allowUnverified",  \* of any type
          "v2",                                     \* Azure
          "federated",                              \* Entra ID
          "members", "allGroups", "otherDomain", "orgID",   \* Google
          "org", "team", "repo", "token", "users"}  \* GitHub and Bitbucket

\* In the place of a token's claims: there is no ID token, the access token is
\* opaque.
NoToken == {"none"}

\* A provider's options: allowedGroups are --allowed-group, own the groups,
\* roles or projects given in the type's own options.
Option == [type : Types, allowedGroups : SUBSET Names, own : SUBSET Names, flags : SUBSET Flags]

ASSUME ProviderAssumption ==
  /\ Groups \cap Extra = {} /\ Org \in Groups /\ Team \in Extra
  /\ Options \subseteq {o \in Option : /\ "members" \in o.flags => o.own # {}
                                       /\ "org" \in o.flags \/ "users" \in o.flags => o.type = "github"}
  /\ ClaimSets \subseteq SUBSET Claims
  /\ MaxGrants \in Nat /\ MaxFaults \in Nat /\ MaxChanges \in Nat

\* What the provider knows of the user.  sub: the subject it names in an ID
\* token; access: the login is one of --github-user, the user may push to or
\* collaborate on the repository.
Subject == {"sub", "other"}
Directory == [groups : SUBSET Groups, extra : SUBSET Extra, sub : Subject,
              mail : {"none", "unverified", "verified"}, access : SUBSET {"listed", "repo"}]

Nothing == [groups |-> {}, extra |-> {}, sub |-> "sub", mail |-> "none", access |-> {}]

\* Only what a type's handlers ask about matters to it.
KnownTo(type) ==
  {d \in Directory :
     /\ type \in AddressTypes \cup {"login.gov", "bitbucket", "sourcehut"} => d.groups = {}
     /\ type \notin {"github", "bitbucket", "gitlab", "keycloak-oidc", "cidaas"} => d.extra = {}
     /\ type \notin {"github", "bitbucket"} => d.access = {}
     /\ type \notin OIDC \cup {"google"} => d.sub = "sub"}

\* An access or refresh token is the number of the response it came with, 0 if
\* it is "".  An ID token is the subject it names, "" if there is none.
Session == [at : Nat, idt : Subject \cup {""}, rt : Nat,
            mail : {"", "mail", "upn"}, user : Subject \cup {"", "login"},
            groups : SUBSET Names, refreshed : BOOLEAN]
Empty == [at |-> 0, idt |-> "", rt |-> 0, mail |-> "", user |-> "", groups |-> {}, refreshed |-> FALSE]

ASSUME NoSessionAssumption == NoSession \notin Session

\* A token response: the claims of the ID and of the access token, as of when
\* it was sent, its number and the refresh token that the handler finds in it.
Response == [id : (SUBSET (Claims \cup {"overage"})) \cup {NoToken},
             access : (SUBSET Claims) \cup {NoToken}, n : Nat, rt : Nat, was : Directory]

NoResponse == [id |-> NoToken, access |-> NoToken, n |-> 0, rt |-> 0, was |-> Nothing]

VARIABLES p,        \* the options
          dir,      \* what the provider knows now
          op,       \* "idle", "login" or "refresh"
          call,     \* the request to the provider that is under way
          ss,       \* the session that the handler works on
          saved,    \* the session in the store
          resp,     \* the token response of this operation
          seen,     \* of a listing or a loop over groups: the names done with
          rt,       \* the refresh token that the provider accepts
          told,     \* history: names reported since the login, and in this operation
          mailSaid, \* history: what the provider said of the e-mail of ss, in the
                    \* answer it was read from
          facts,    \* history: what this login was told besides groups
          grants, faults, changes

vars == <<p, dir, op, call, ss, saved, resp, seen, rt, told, mailSaid, facts,
          grants, faults, changes>>
history == <<told, mailSaid, facts>>

Flag(f) == f \in p.flags

-----------------------------------------------------------------------------
(* Configuration.                                                            *)

\* newProviderDataFromConfig sets the groups of --allowed-group, then the
\* constructor of a type may replace or extend them.
AllowedGroups ==
  CASE p.type = "keycloak" -> p.own
    [] p.type = "gitlab" -> p.own
    [] p.type = "google" /\ Flag("members") -> p.own
    [] p.type = "keycloak-oidc" -> p.allowedGroups \cup p.own
    [] OTHER -> p.allowedGroups

Authorize(s) == AllowedGroups = {} \/ s.groups \cap AllowedGroups # {}

\* Mutant: the option is read the wrong way round.
VerifyEmailInverted == Flag("allowUnverified")

\* email_verified counts unless unverified e-mails are allowed (or the e-mail
\* is read from another claim, which is the same to the code).
VerifyEmail == ~Flag("allowUnverified")

Init == /\ p \in Options /\ dir \in KnownTo(p.type) /\ dir.sub = "sub"
        /\ op = "idle" /\ call = "none" /\ ss = Empty /\ saved = NoSession
        /\ resp = NoResponse
        /\ seen = {} /\ rt = 0
        /\ told = [since |-> {}, now |-> {}] /\ mailSaid = "" /\ facts = {}
        /\ grants = 0 /\ faults = 0 /\ changes = 0

-----------------------------------------------------------------------------
(* How a handler goes on: it makes another request, it returns an error, or  *)
(* it returns the session.                                                   *)

Ask(c, s) == call' = c /\ ss' = s /\ UNCHANGED <<op, saved>>

\* OAuthCallback answers with an error page.  storedSessionLoader logs the
\* error and goes on with the session as far as the provider has changed it,
\* which it does not save.
Fail(s) == IF op = "login" THEN op' = "idle" /\ call' = "none" /\ ss' = Empty /\ UNCHANGED saved
                           ELSE call' = "validate" /\ ss' = s /\ UNCHANGED <<op, saved>>

\* invalid_grant and invalid_client: the loader clears the session.
FailFatally(s) == IF op = "login" THEN Fail(s)
                  ELSE op' = "idle" /\ call' = "none" /\ ss' = Empty /\ saved' = NoSession

Finish(s) == call' = "validate" /\ ss' = s /\ saved' = (IF op = "refresh" THEN s ELSE saved)
             /\ UNCHANGED op

Hear(names) == told' = [since |-> told.since \cup names, now |-> told.now \cup names]
Silent == UNCHANGED history

\* A request that carries an empty access token is refused.
Refused == ss.at = 0 /\ call \notin {"redeem", "refresh", "claims"}

Answered == ~Refused /\ UNCHANGED faults
Fault == \/ Refused /\ UNCHANGED faults
         \/ faults < MaxFaults /\ faults' = faults + 1

\* A step that is not a token request leaves these alone.
Rest == UNCHANGED <<p, dir, resp, rt, grants, changes>>
\* The response is forgotten with the operation.
RestAnew == resp' = NoResponse /\ UNCHANGED <<p, dir, rt, grants, changes>>

-----------------------------------------------------------------------------
(* Claims: the ID token first, then the profile URL for what it lacks        *)
(* (claim_extractor.go, buildSessionFromClaims).                             *)

Wanted == Claims \ (IF VerifyEmail THEN {} ELSE {"email_verified"})

NeedsProfile(has) == has # NoToken /\ Flag("profileURL") /\ ~(Wanted \subseteq has)

\* What the profile adds: nothing if it is not asked.
Profiles(has) == IF NeedsProfile(has) THEN ClaimSets ELSE {{}}

\* Where GetClaim finds a claim that one of the two has.
Source(r, has, claim) == IF claim \in has THEN r.was ELSE dir

\* Only an email_verified that is there and false rejects the e-mail.  The user
\* is whoever the ID token names.
buildSessionFromClaims(r, has, more) ==
  LET mail == IF "email" \in has \cup more THEN Source(r, has, "email").mail ELSE "none"
      said == IF "email_verified" \in has \cup more THEN Source(r, has, "email_verified").mail
              ELSE "none"
      flag == IF said = "none" THEN "unstated" ELSE said
  IN  IF has = NoToken
      THEN [ok |-> TRUE, mail |-> "", said |-> "", user |-> "", groups |-> {}, listed |-> FALSE]
      ELSE [ok |-> ~(VerifyEmail /\ flag = "unverified"),
            mail |-> IF mail = "none" THEN "" ELSE "mail",
            said |-> IF mail = "none" THEN "" ELSE flag,
            user |-> r.was.sub,
            groups |-> IF "groups" \in has \cup more THEN Source(r, has, "groups").groups ELSE {},
            listed |-> "groups" \in has \cup more]

-----------------------------------------------------------------------------
(* EnrichSession and GetEmailAddress: what each type asks for first.         *)

AzureGroups(s) == IF Flag("v2") THEN Ask("graph", s) ELSE Finish(s)
AzureMail(s) == IF s.mail = "" THEN Ask("mail", s) ELSE AzureGroups(s)

GoogleName(s) == IF op = "login" /\ Flag("orgID") THEN Ask("name", s) ELSE Finish(s)

\* Mutant: the groups found last time are kept.
groupValidatorKeeping(s) ==
  CASE Flag("members") -> Ask("member", s)
    [] ~Flag("members") /\ Flag("allGroups") -> Ask("listing", s)
    [] OTHER -> GoogleName(s)

\* groupValidator: by default it is always content.
groupValidator(s) ==
  CASE Flag("members") -> Ask("member", [s EXCEPT !.groups = {}])
    [] ~Flag("members") /\ Flag("allGroups") -> Ask("listing", s)
    [] OTHER -> GoogleName(s)

\* KeycloakOIDCProvider.extractRoles reads the access token of response r.
extractRoles(r, s) ==
  IF r.access = NoToken THEN Fail(s)
  ELSE Finish([s EXCEPT !.groups = @ \cup r.was.extra])

cidaasEnrich(s) ==
  CASE Flag("profileURL") -> Ask("userinfo", s)
    [] ~Flag("profileURL") /\ s.mail = "" -> Fail(s)
    [] OTHER -> Finish(s)

EnrichSession(r, s) ==
  CASE p.type = "oidc" -> IF s.mail = "" THEN Fail(s) ELSE Finish(s)
    [] p.type = "adfs" -> IF s.mail = "" THEN Ask("upn", s) ELSE Finish(s)
    [] p.type = "entra-id" -> IF s.mail = "" THEN Fail(s)
                              ELSE IF "overage" \in r.id THEN Ask("graph", s) ELSE Finish(s)
    [] p.type = "keycloak-oidc" -> IF s.mail = "" THEN Fail(s) ELSE extractRoles(r, s)
    [] p.type = "cidaas" -> cidaasEnrich(s)
    [] p.type = "gitlab" -> Ask("userinfo", s)
    [] p.type = "azure" -> Ask("idAgain", s)
    [] p.type = "google" -> groupValidator(s)
    [] p.type = "github" -> Ask("orgs", s)
    [] p.type \in ProfileTypes -> Ask("profile", s)
    [] p.type = "bitbucket" -> Ask("mails", s)
    [] p.type \in AddressTypes -> Ask("address", s)
    [] OTHER -> Finish(s)

-----------------------------------------------------------------------------
(* Redeem and RefreshSession: the request to the token endpoint.             *)

Login == /\ op = "idle" /\ saved = NoSession
         /\ op' = "login" /\ call' = "redeem" /\ ss' = Empty
         /\ told' = [since |-> {}, now |-> {}] /\ mailSaid' = "" /\ facts' = {} /\ seen' = {}
         /\ UNCHANGED <<saved, faults>> /\ RestAnew

\* Types without RefreshSession, and sessions without a refresh token, are
\* only validated.
Refresh == /\ op = "idle" /\ saved # NoSession
           /\ op' = "refresh" /\ ss' = saved
           /\ call' = (IF p.type \in Refreshing /\ saved.rt # 0 THEN "refresh" ELSE "validate")
           /\ told' = [told EXCEPT !.now = {}] /\ seen' = {}
           /\ UNCHANGED <<saved, mailSaid, facts, faults>> /\ Rest

IDTokens == ClaimSets \cup {NoToken}
            \cup (IF p.type = "entra-id" THEN {(c \ {"groups"}) \cup {"overage"} : c \in ClaimSets}
                 ELSE {})

\* The names that the tokens of a response report.
Reported(r) == (IF "groups" \in r.id \/ "groups" \in r.access THEN r.was.groups ELSE {})
               \cup (IF p.type = "keycloak-oidc" /\ r.access # NoToken THEN r.was.extra ELSE {})

AccessTokens == CASE p.type = "azure" -> ClaimSets \cup {NoToken}
                  [] p.type = "keycloak-oidc" -> {{}, NoToken}
                  [] OTHER -> {NoToken}

\* The provider grants tokens, with a new refresh token or without one.  What
\* the handler finds: golang.org/x/oauth2 puts the old refresh token in the
\* place of a missing one; the handlers that decode the response themselves
\* find none.
NewResponse(id, access, new) ==
  [id |-> id, access |-> access, n |-> grants + 1, was |-> dir,
   rt |-> CASE new -> grants + 1
            [] ~new /\ (op = "login" \/ p.type = "azure" \/ Flag("federated")) -> 0
            [] OTHER -> rt]

Grant(r, new) == /\ grants < MaxGrants /\ grants' = grants + 1
                 /\ rt' = (IF new THEN grants + 1 ELSE rt)
                 /\ resp' = r

\* The request fails, or its answer is lost after the provider has granted it.
\* Errors of the token endpoint name the code that isFatalRefreshError looks for.
TokenFault ==
  /\ Fault /\ rt' \in {rt, grants + 1} /\ grants < MaxGrants /\ grants' = grants + 1
  /\ Fail(ss) \/ (rt' = rt /\ ~Flag("federated") /\ FailFatally(ss))
  /\ UNCHANGED <<resp, mailSaid, told>>

Created(r, b) == [at |-> r.n, idt |-> r.was.sub, rt |-> r.rt, mail |-> b.mail, user |-> b.user,
                  groups |-> b.groups, refreshed |-> FALSE]

\* Mutant: the new refresh token is forgotten.
RefreshedKeepingToken(s, r, b) ==
  LET t == [s EXCEPT !.at = r.n, !.refreshed = @ \/ ~Flag("federated")]
  IN  IF r.id = NoToken THEN t
      ELSE [t EXCEPT !.idt = r.was.sub, !.mail = b.mail, !.user = b.user, !.groups = b.groups]

\* Mutant: the user of the login is kept with the new ID token.
RefreshedKeepingUser(s, r, b) ==
  LET t == [s EXCEPT !.at = r.n, !.rt = r.rt, !.refreshed = @ \/ ~Flag("federated")]
  IN  IF r.id = NoToken THEN t
      ELSE [t EXCEPT !.idt = r.was.sub, !.mail = b.mail, !.groups = b.groups]

\* redeemRefreshToken: nothing holds the new ID token's subject against the old
\* one's.  With federated credentials Refreshed is not set.
Refreshed(s, r, b) ==
  LET t == [s EXCEPT !.at = r.n, !.rt = r.rt, !.refreshed = @ \/ ~Flag("federated")]
  IN  IF r.id = NoToken THEN t
      ELSE [t EXCEPT !.idt = r.was.sub, !.mail = b.mail, !.user = b.user, !.groups = b.groups]

\* What a type adds after OIDCProvider.RefreshSession.
AfterRefresh(r, s) ==
  CASE p.type = "keycloak-oidc" -> extractRoles(r, s)
    [] p.type = "cidaas" -> cidaasEnrich(s)
    [] p.type = "adfs" -> IF s.mail = "" THEN Ask("upn", s) ELSE Finish(s)
    [] p.type = "gitlab" -> Finish([s EXCEPT !.user = saved.user,
                                             !.groups = @ \cup (saved.groups \cap Extra)])
    [] OTHER -> Finish(s)

\* createSession, and what follows it.
createSession(r, more) ==
  LET b == buildSessionFromClaims(r, r.id, more)
  IN  IF ~b.ok THEN Fail(ss) /\ UNCHANGED mailSaid
      ELSE IF op = "login" THEN EnrichSession(r, Created(r, b)) /\ mailSaid' = b.said
      ELSE /\ AfterRefresh(r, Refreshed(ss, r, b))
           /\ mailSaid' = IF r.id = NoToken THEN mailSaid ELSE b.said

\* fetchToken of the federated credentials looks at no status: an error document,
\* the answer to a refresh token that is out of date included, is a token of
\* empty strings.
FederatedError ==
  /\ op = "refresh" /\ Flag("federated")
  /\ (ss.rt # rt /\ UNCHANGED faults) \/ Fault
  /\ createSession(NoResponse, {}) /\ resp' = NoResponse
  /\ UNCHANGED <<rt, grants, told>>

OIDCToken ==
  /\ p.type \in OIDC /\ call \in {"redeem", "refresh"}
  /\ \/ /\ op = "refresh" => ss.rt = rt
        /\ \E id \in IDTokens, access \in AccessTokens, new \in BOOLEAN :
             LET r == NewResponse(id, access, new)
             IN  /\ Grant(r, new) /\ Hear(Reported(r))
                 /\ IF id = NoToken /\ op = "login" THEN Fail(ss) /\ UNCHANGED mailSaid
                    ELSE IF NeedsProfile(id) THEN Ask("claims", ss) /\ UNCHANGED mailSaid
                    ELSE createSession(r, {})
        /\ Answered
     \/ /\ op = "refresh" /\ ss.rt # rt /\ ~Flag("federated") /\ FailFatally(ss)
        /\ UNCHANGED <<faults, resp, rt, grants, mailSaid, told>>
     \/ FederatedError
     \/ TokenFault
  /\ UNCHANGED <<p, dir, facts, seen, changes>>

\* The profile URL, for claims the ID token lacks.  A profile that cannot be
\* read is an error, and nothing of the session has changed.
OIDCClaims ==
  /\ call = "claims"
  /\ \/ /\ Answered
        /\ \E more \in ClaimSets : /\ createSession(resp, more)
                                  /\ Hear(IF "groups" \in more THEN dir.groups ELSE {})
     \/ Fault /\ Fail(ss) /\ UNCHANGED <<mailSaid, told>>
  /\ UNCHANGED <<facts, seen>> /\ Rest

\* ProviderData.Redeem: an access token, or the empty string if the provider
\* sends an error document with status 200.
DefaultToken ==
  /\ call = "redeem" /\ p.type \notin OIDC \cup {"google", "azure", "login.gov"}
  /\ \/ /\ Answered
        /\ \E n \in {0, grants + 1} :
             LET r == [NewResponse(NoToken, NoToken, FALSE) EXCEPT !.n = n]
             IN  Grant(r, FALSE) /\ EnrichSession(r, [Empty EXCEPT !.at = n])
        /\ Silent
     \/ TokenFault
  /\ UNCHANGED <<p, dir, facts, seen, changes>>

\* GoogleProvider.Redeem: the ID token must have a verified e-mail.
GoogleRedeemed(r) ==
  IF r.id # NoToken /\ dir.mail = "verified"
  THEN /\ groupValidator([Empty EXCEPT !.at = r.n, !.idt = r.was.sub, !.rt = r.rt,
                                       !.mail = "mail", !.user = r.was.sub])
       /\ mailSaid' = dir.mail
  ELSE Fail(ss) /\ UNCHANGED mailSaid

\* Its redeemRefreshToken leaves the refresh token, the e-mail and the user.
GoogleRefreshed(r) ==
  /\ groupValidator([ss EXCEPT !.at = r.n, !.idt = IF r.id = NoToken THEN "" ELSE r.was.sub])
  /\ UNCHANGED mailSaid

GoogleToken ==
  /\ call \in {"redeem", "refresh"} /\ p.type = "google"
  /\ \/ /\ op = "refresh" => ss.rt = rt
        /\ \E id \in {{}, NoToken}, new \in BOOLEAN :
             LET r == [NewResponse(id, NoToken, new) EXCEPT !.rt = IF new THEN grants + 1 ELSE 0]
             IN  /\ op = "refresh" => ~new
                 /\ Grant(r, new)
                 /\ IF op = "refresh" THEN GoogleRefreshed(r) ELSE GoogleRedeemed(r)
        /\ UNCHANGED told /\ Answered
     \/ /\ op = "refresh" /\ ss.rt # rt /\ FailFatally(ss)
        /\ UNCHANGED <<faults, resp, rt, grants, mailSaid, told>>
     \/ TokenFault
  /\ UNCHANGED <<p, dir, facts, seen, changes>>

\* LoginGovProvider.Redeem goes on to check the nonce and to ask for the e-mail.
LoginGovToken ==
  /\ call = "redeem" /\ p.type = "login.gov"
  /\ \/ /\ Grant(NewResponse({}, NoToken, FALSE), FALSE) /\ Answered
        /\ Ask("jwks", [Empty EXCEPT !.at = grants + 1, !.idt = dir.sub])
        /\ UNCHANGED <<told, mailSaid>>
     \/ TokenFault
  /\ UNCHANGED <<p, dir, facts, seen, changes>>

\* AzureProvider: all three tokens are the response's, then the claims are read.
AzureTokens(r) == [ss EXCEPT !.at = r.n, !.rt = r.rt, !.idt = IF r.id = NoToken THEN "" ELSE r.was.sub]

AzureToken ==
  /\ call \in {"redeem", "refresh"} /\ p.type = "azure"
  /\ \/ /\ op = "refresh" => ss.rt = rt
        /\ \E id \in IDTokens, access \in AccessTokens, new \in BOOLEAN :
             LET r == NewResponse(id, access, new)
             IN  /\ Grant(r, new) /\ Hear(Reported(r))
                 /\ Ask("idClaims", AzureTokens(r))
        /\ UNCHANGED mailSaid /\ Answered
     \/ /\ op = "refresh" /\ ss.rt # rt /\ FailFatally(ss)
        /\ UNCHANGED <<faults, resp, rt, grants, mailSaid, told>>
     \/ TokenFault
  /\ UNCHANGED <<p, dir, facts, seen, changes>>

-----------------------------------------------------------------------------
(* Azure: the claims of the ID token, or else of the access token, are read  *)
(* by Redeem, again by EnrichSession, and by a refresh, which shrugs off an  *)
(* error as EnrichSession does.                                              *)

AzureError(s) == CASE call \in {"idAgain", "atAgain"} -> AzureMail(s)
                   [] call \notin {"idAgain", "atAgain"} /\ op = "refresh" -> Finish(s)
                   [] OTHER -> Fail(s)

AzureClaims(b) ==
  LET s == [ss EXCEPT !.mail = b.mail, !.groups = IF b.listed THEN b.groups ELSE @]
  IN  /\ CASE call \in {"idAgain", "atAgain"} -> AzureMail(s)
           [] call \notin {"idAgain", "atAgain"} /\ op = "refresh" -> Finish(s)
           [] OTHER -> Ask("idAgain", s)
      /\ mailSaid' = b.said

\* verifySessionToken, then the ID token's claims; without an e-mail in them
\* the access token's.
AzureIDClaims ==
  /\ call \in {"idClaims", "idAgain"}
  /\ LET other == IF call = "idClaims" THEN "atClaims" ELSE "atAgain"
     IN  \/ \E more \in Profiles(resp.id) :
              LET b == buildSessionFromClaims(resp, resp.id, more)
              IN  /\ Hear(IF "groups" \in more THEN dir.groups ELSE {}) /\ Answered
                  /\ IF b.ok /\ b.mail # "" THEN AzureClaims(b)
                     ELSE Ask(other, ss) /\ UNCHANGED mailSaid
         \/ Fault /\ (Ask(other, ss) \/ AzureError(ss)) /\ UNCHANGED <<mailSaid, told>>
  /\ UNCHANGED <<facts, seen>> /\ Rest

AzureATClaims ==
  /\ call \in {"atClaims", "atAgain"}
  /\ \/ \E more \in Profiles(resp.access) :
          LET b == buildSessionFromClaims(resp, resp.access, more)
          IN  /\ Hear(IF "groups" \in more THEN dir.groups ELSE {}) /\ Answered
              /\ IF resp.access # NoToken /\ b.ok THEN AzureClaims(b)
                 ELSE AzureError(ss) /\ UNCHANGED mailSaid
     \/ Fault /\ AzureError(ss) /\ UNCHANGED <<mailSaid, told>>
  /\ UNCHANGED <<facts, seen>> /\ Rest

\* getEmailFromProfileAPI: mail, otherMails or userPrincipalName.
AzureProfile ==
  /\ call = "mail" /\ p.type = "azure"
  /\ \/ /\ Answered
        /\ IF dir.mail # "none" THEN /\ AzureGroups([ss EXCEPT !.mail = "mail"])
                                     /\ mailSaid' = dir.mail
           ELSE Fail(ss) /\ UNCHANGED mailSaid
     \/ Fault /\ Fail(ss) /\ UNCHANGED mailSaid
  /\ UNCHANGED <<told, facts, seen>> /\ Rest

-----------------------------------------------------------------------------
(* Listings that come in pages: each page adds names that were not on an     *)
(* earlier one.  GitHub counts its pages and stops at an empty one, which it *)
(* meets when there are no more names than it has been given; the others     *)
(* follow a link until there is none.                                        *)

Page(list, last, new) ==
  /\ new \subseteq list \ seen
  /\ IF p.type = "github" THEN last <=> new = {}
     ELSE last <=> list \subseteq seen \cup new
  /\ new = {} => Cardinality(list) <= Cardinality(seen)

\* Microsoft Graph: with Azure a page that cannot be read fails the login, with
\* Entra ID it only loses the groups.
GraphFailed == IF p.type = "azure" THEN Fail(ss) ELSE Finish(ss)

GraphPage ==
  /\ call = "graph"
  /\ \/ \E new \in SUBSET dir.groups, last \in BOOLEAN :
          /\ Page(dir.groups, last, new) /\ Answered /\ Hear(new)
          /\ seen' = seen \cup new
          /\ IF last THEN Finish([ss EXCEPT !.groups = @ \cup seen'])
             ELSE Ask("graph", ss)
     \/ Fault /\ GraphFailed /\ UNCHANGED <<told, seen>>
  /\ UNCHANGED <<mailSaid, facts>> /\ Rest

\* GoogleProvider.populateAllGroups and getUserGroups.
GoogleListing ==
  /\ call = "listing"
  /\ \/ \E new \in SUBSET dir.groups, last \in BOOLEAN :
          /\ Page(dir.groups, last, new) /\ Answered /\ Hear(new)
          /\ seen' = seen \cup new
          /\ IF last THEN GoogleName([ss EXCEPT !.groups = seen'])
             ELSE Ask("listing", ss)
     \/ Fault /\ GoogleName([ss EXCEPT !.groups = {}]) /\ UNCHANGED <<told, seen>>
  /\ UNCHANGED <<mailSaid, facts>> /\ Rest

\* setGroupRestriction: one question for each configured group.  The answer of
\* a login is not looked at, a refresh fails if there is no group left.
GoogleChecked(group, member) ==
  LET s == [ss EXCEPT !.groups = IF member THEN @ \cup {group} ELSE @]
  IN  /\ seen' = seen \cup {group}
      /\ CASE seen' # p.own -> Ask("member", s)
           [] seen' = p.own /\ op = "refresh" /\ s.groups = {} -> Fail(s)
           [] OTHER -> GoogleName(s)

\* Mutant: a question that cannot be answered counts as a yes.
userInGroupUnlessDenied(group) ==
  \/ GoogleChecked(group, group \in dir.groups) /\ Hear(dir.groups \cap {group}) /\ Answered
  \/ Fault /\ GoogleChecked(group, TRUE) /\ UNCHANGED told

\* HasMember does not answer for a user of another domain: Get does.
userInGroup(group) ==
  \/ /\ call = "get" \/ ~Flag("otherDomain")
     /\ GoogleChecked(group, group \in dir.groups) /\ Hear(dir.groups \cap {group}) /\ Answered
  \/ /\ call = "member" /\ Flag("otherDomain")
     /\ Ask("get", ss) /\ UNCHANGED <<seen, told>> /\ Answered
  \/ Fault /\ GoogleChecked(group, FALSE) /\ UNCHANGED told

GoogleMember ==
  /\ call \in {"member", "get"}
  /\ \E group \in p.own \ seen : userInGroup(group)
  /\ UNCHANGED <<mailSaid, facts>> /\ Rest

\* setPreferredUsername: the organisation's id of the user.
GoogleUser ==
  /\ call = "name"
  /\ \/ Answered /\ (Finish(ss) \/ Fail(ss))
     \/ Fault /\ Fail(ss)
  /\ UNCHANGED <<told, mailSaid, facts, seen>> /\ Rest

-----------------------------------------------------------------------------
(* GitHub.                                                                   *)

GitHubOrgs ==
  /\ call = "orgs"
  /\ \/ \E new \in SUBSET dir.groups, last \in BOOLEAN :
          /\ Page(dir.groups, last, new) /\ Answered /\ Hear(new)
          /\ IF last THEN Ask("teams", ss) /\ seen' = {}
             ELSE Ask("orgs", [ss EXCEPT !.groups = @ \cup new]) /\ seen' = seen \cup new
     \/ Fault /\ Fail(ss) /\ UNCHANGED <<told, seen>>
  /\ UNCHANGED <<mailSaid, facts>> /\ Rest

\* Mutant: with a team given only the organisation is asked for.
hasOrgOrTeam(s) == Flag("org") => Org \in s.groups

\* The restrictions on organisation and team, from the groups listed.  A team
\* is named with its organisation; Team is one of Org's.
hasOrgAndTeam(s) == IF Flag("team") THEN Team \in s.groups ELSE Flag("org") => Org \in s.groups

\* checkRestrictions after the listed users have been let through.
GitHubMembership(s) ==
  CASE ~hasOrgAndTeam(s) -> Fail(s)
    [] hasOrgAndTeam(s) /\ ~Flag("org") /\ Flag("repo") /\ ~Flag("token") -> Ask("repo", s)
    [] OTHER -> Ask("emails", s)

GitHubTeams ==
  /\ call = "teams"
  /\ \/ \E new \in SUBSET dir.extra, last \in BOOLEAN :
          /\ Page(dir.extra, last, new) /\ Answered /\ Hear(new)
          /\ IF ~last
             THEN Ask("teams", [ss EXCEPT !.groups = @ \cup new]) /\ seen' = seen \cup new
             ELSE /\ seen' = {}
                  /\ IF Flag("users") THEN Ask("hasUser", ss) ELSE GitHubMembership(ss)
     \/ Fault /\ Fail(ss) /\ UNCHANGED <<told, seen>>
  /\ UNCHANGED <<mailSaid, facts>> /\ Rest

Note(fact) == facts' = facts \cup (dir.access \cap {fact})

\* A listed user passes, another one only if there is an organisation or a
\* repository to pass by.
checkUserRestriction(listed) ==
  CASE listed -> Ask("emails", ss)
    [] ~listed /\ ~Flag("org") /\ ~Flag("repo") -> Fail(ss)
    [] OTHER -> GitHubMembership(ss)

GitHubHasUser ==
  /\ call = "hasUser"
  /\ \/ Answered /\ Note("listed") /\ checkUserRestriction("listed" \in dir.access)
     \/ Fault /\ Fail(ss) /\ UNCHANGED facts
  /\ UNCHANGED <<told, mailSaid, seen>> /\ Rest

GitHubRepo ==
  /\ call = "repo"
  /\ \/ /\ Answered /\ Note("repo")
        /\ IF "repo" \in dir.access THEN Ask("emails", ss) ELSE Fail(ss)
     \/ Fault /\ Fail(ss) /\ UNCHANGED facts
  /\ UNCHANGED <<told, mailSaid, seen>> /\ Rest

\* getEmail: the primary address, if it is verified.
GitHubEmails ==
  /\ call = "emails"
  /\ \/ /\ Answered
        /\ IF dir.mail = "verified"
           THEN Ask("user", [ss EXCEPT !.mail = "mail"]) /\ mailSaid' = dir.mail
           ELSE Ask("user", ss) /\ UNCHANGED mailSaid
     \/ Fault /\ Fail(ss) /\ UNCHANGED mailSaid
  /\ UNCHANGED <<told, facts, seen>> /\ Rest

\* getUser: the collaborator check waits for the login.
GitHubUser ==
  /\ call = "user"
  /\ LET listed == Flag("users") /\ "listed" \in dir.access
     IN  \/ /\ Answered /\ (IF Flag("users") THEN Note("listed") ELSE UNCHANGED facts)
            /\ IF ~listed /\ ~Flag("org") /\ Flag("repo") /\ Flag("token")
               THEN Ask("collaborator", ss)
               ELSE Finish([ss EXCEPT !.user = "login"])
         \/ Fault /\ Fail(ss) /\ UNCHANGED facts
  /\ UNCHANGED <<told, mailSaid, seen>> /\ Rest

GitHubCollaborator ==
  /\ call = "collaborator"
  /\ \/ /\ Answered /\ Note("repo")
        /\ IF "repo" \in dir.access THEN Finish([ss EXCEPT !.user = "login"]) ELSE Fail(ss)
     \/ Fault /\ Fail(ss) /\ UNCHANGED facts
  /\ UNCHANGED <<told, mailSaid, seen>> /\ Rest

-----------------------------------------------------------------------------
(* The other types.                                                          *)

\* EnrichSession by one profile, which must have an e-mail.  Whether it is
\* verified, which an OIDC userinfo document says, is not looked at.
ProfileAnswer(type, groups) ==
  /\ call = "profile" /\ p.type = type
  /\ \/ /\ Answered /\ Hear(groups)
        /\ IF dir.mail = "none" THEN Fail(ss) /\ UNCHANGED mailSaid
           ELSE /\ Finish([ss EXCEPT !.groups = @ \cup groups, !.mail = "mail", !.user = "login"])
                /\ mailSaid' = dir.mail
     \/ Fault /\ Fail(ss) /\ UNCHANGED <<told, mailSaid>>
  /\ UNCHANGED <<facts, seen>> /\ Rest

KeycloakProfile == ProfileAnswer("keycloak", dir.groups)
NextcloudProfile == ProfileAnswer("nextcloud", dir.groups)
SourceHutProfile == ProfileAnswer("sourcehut", {})

\* GetEmailAddress by one request; no more is read of the answer than the e-mail.
AddressAnswer(type) ==
  /\ call = "address" /\ p.type = type
  /\ \/ /\ Answered
        /\ IF dir.mail = "none" THEN Fail(ss) /\ UNCHANGED mailSaid
           ELSE Finish([ss EXCEPT !.mail = "mail"]) /\ mailSaid' = dir.mail
     \/ Fault /\ Fail(ss) /\ UNCHANGED mailSaid
  /\ UNCHANGED <<told, facts, seen>> /\ Rest

FacebookAddress == AddressAnswer("facebook")
LinkedInAddress == AddressAnswer("linkedin")
DigitalOceanAddress == AddressAnswer("digitalocean")

\* GetEmailAddress of Bitbucket: the e-mails are read first and the primary one
\* is kept aside, confirmed or not; a user who fails a test gets an empty e-mail,
\* not an error.
BitbucketRepo(mail) ==
  IF Flag("repo") THEN Ask("repositories", [ss EXCEPT !.mail = mail])
  ELSE Finish([ss EXCEPT !.mail = mail])

BitbucketEmails ==
  /\ call = "mails" /\ p.type = "bitbucket"
  /\ \/ /\ Answered
        /\ LET mail == IF dir.mail = "none" THEN "" ELSE "mail"
           IN  /\ IF Flag("team") THEN Ask("bbTeams", [ss EXCEPT !.mail = mail])
                  ELSE BitbucketRepo(mail)
               /\ mailSaid' = IF mail = "" THEN "" ELSE dir.mail
     \/ Fault /\ Fail(ss) /\ UNCHANGED mailSaid
  /\ UNCHANGED <<told, facts, seen>> /\ Rest

BitbucketTeams ==
  /\ call = "bbTeams"
  /\ \/ /\ Answered /\ Hear(dir.extra)
        /\ IF Team \in dir.extra THEN BitbucketRepo(ss.mail) ELSE Finish([ss EXCEPT !.mail = ""])
     \/ Fault /\ Fail(ss) /\ UNCHANGED told
  /\ UNCHANGED <<mailSaid, facts, seen>> /\ Rest

BitbucketRepositories ==
  /\ call = "repositories"
  /\ \/ /\ Answered /\ Note("repo")
        /\ Finish([ss EXCEPT !.mail = IF "repo" \in dir.access THEN @ ELSE ""])
     \/ Fault /\ Fail(ss) /\ UNCHANGED facts
  /\ UNCHANGED <<told, mailSaid, seen>> /\ Rest

\* GitLabProvider.EnrichSession; the projects are asked for one by one.
Projects == p.own \cap Extra

GitLabUserinfo ==
  /\ call = "userinfo" /\ p.type = "gitlab"
  /\ \/ /\ Answered /\ Hear(dir.groups)
        /\ \E nickname \in BOOLEAN :
             LET s == [ss EXCEPT !.user = IF nickname THEN "login" ELSE @,
                                 !.mail = IF dir.mail = "none" THEN @ ELSE "mail",
                                 !.groups = IF dir.groups = {} THEN @ ELSE dir.groups]
             IN  IF VerifyEmail /\ dir.mail # "verified" THEN Fail(ss) /\ UNCHANGED mailSaid
                 ELSE /\ IF Projects = {} THEN Finish(s) ELSE Ask("project", s)
                      /\ mailSaid' = IF dir.mail = "none" THEN mailSaid ELSE dir.mail
     \/ Fault /\ Fail(ss) /\ UNCHANGED <<told, mailSaid>>
  /\ UNCHANGED <<facts, seen>> /\ Rest

\* A project counts if it is not archived and the user's access level is high
\* enough; a request that fails skips the project.
GitLabProject ==
  /\ call = "project"
  /\ \E project \in Projects \ seen, ok \in BOOLEAN :
       LET found == IF ok THEN dir.extra \cap {project} ELSE {}
           s == [ss EXCEPT !.groups = @ \cup found]
       IN  /\ (ok /\ Answered) \/ (~ok /\ Fault)
           /\ Hear(found) /\ seen' = seen \cup {project}
           /\ IF seen' = Projects THEN Finish(s) ELSE Ask("project", s)
  /\ UNCHANGED <<mailSaid, facts>> /\ Rest

\* CIDAASProvider.enrichFromUserinfoEndpoint: an error is logged, and the
\* e-mail of the ID token comes first; the userinfo's is taken as it is.  Groups or roles that cannot be decoded
\* leave the session's groups alone.
CidaasUserinfo ==
  /\ call = "userinfo" /\ p.type = "cidaas"
  /\ \/ /\ Answered /\ Hear(dir.groups \cup dir.extra)
        /\ \E decoded \in BOOLEAN :
             LET fresh == ss.mail = "" /\ dir.mail # "none"
                 s == [ss EXCEPT !.mail = IF fresh THEN "mail" ELSE @,
                                 !.groups = IF decoded THEN dir.groups \cup dir.extra ELSE @]
             IN  /\ IF s.mail = "" THEN Fail(s) ELSE Finish(s)
                 /\ mailSaid' = IF fresh THEN dir.mail ELSE mailSaid
     \/ /\ Fault /\ (IF ss.mail = "" THEN Fail(ss) ELSE Finish(ss))
        /\ UNCHANGED <<told, mailSaid>>
  /\ UNCHANGED <<facts, seen>> /\ Rest

\* ADFSProvider.fallbackUPN: the upn claim, if there is one.  It takes the place
\* of an e-mail, and there is no flag for it.
ADFSfallbackUPN ==
  /\ call = "upn"
  /\ \/ Answered /\ Finish([ss EXCEPT !.mail = "upn"]) /\ mailSaid' = "unstated"
     \/ Answered /\ Finish(ss) /\ UNCHANGED mailSaid
     \/ Fault /\ Fail(ss) /\ UNCHANGED mailSaid
  /\ UNCHANGED <<told, facts, seen>> /\ Rest

\* LoginGovProvider: checkNonce fetches the keys, emailFromUserInfo wants a
\* verified e-mail.
LoginGovKeys ==
  /\ call = "jwks"
  /\ (Answered /\ (Ask("govMail", ss) \/ Fail(ss))) \/ (Fault /\ Fail(ss))
  /\ UNCHANGED <<told, mailSaid, facts, seen>> /\ Rest

LoginGovMail ==
  /\ call = "govMail"
  /\ \/ /\ Answered
        /\ IF dir.mail = "verified"
           THEN Finish([ss EXCEPT !.mail = "mail"]) /\ mailSaid' = dir.mail
           ELSE Fail(ss) /\ UNCHANGED mailSaid
     \/ Fault /\ Fail(ss) /\ UNCHANGED mailSaid
  /\ UNCHANGED <<told, facts, seen>> /\ Rest

-----------------------------------------------------------------------------
(* ValidateSession, and what the callers do with its answer.                 *)

\* The tokens are there that validation needs.  OIDC sessions are validated by
\* their ID token until a refresh, then by the access token if there is a URL;
\* Entra ID reads the tenant from the ID token each time.
CanBeValid(s) ==
  IF p.type \in OIDC
  THEN /\ IF s.refreshed THEN Flag("validateURL") => s.at # 0 ELSE s.idt # ""
       /\ p.type = "entra-id" => s.idt # ""
  ELSE s.at # 0

\* Nothing is asked, so nothing can be refused.
AlwaysValid(s) == p.type \in OIDC \ {"entra-id"} /\ s.refreshed /\ ~Flag("validateURL")

\* OAuthCallback saves a session that the provider authorises and whose e-mail
\* p.Validator accepts, which an empty one never is.  The loader leaves a
\* valid session in the store and clears it otherwise.
ValidateSession ==
  /\ call = "validate" /\ call' = "none" /\ op' = "idle" /\ ss' = Empty
  /\ \/ /\ CanBeValid(ss)
        /\ saved' = IF op = "login" /\ Authorize(ss) /\ ss.mail # "" THEN ss ELSE saved
     \/ /\ ~AlwaysValid(ss)
        /\ saved' = NoSession
  /\ told' = [told EXCEPT !.now = {}] /\ seen' = {}
  /\ UNCHANGED <<mailSaid, facts, faults>> /\ RestAnew

SignOut == /\ op = "idle" /\ saved # NoSession
           /\ saved' = NoSession
           /\ UNCHANGED <<op, call, ss, told, mailSaid, facts, seen, faults>> /\ Rest

Toggle(set, x) == IF x \in set THEN set \ {x} ELSE set \cup {x}

\* The provider's administrator, or the user, changes one thing.  (A subject
\* ought not to change; nothing in the code relies on it.)
DirectoryChanges ==
  /\ changes < MaxChanges /\ changes' = changes + 1
  /\ \/ \E name \in Groups : dir' = [dir EXCEPT !.groups = Toggle(@, name)]
     \/ \E name \in Extra : dir' = [dir EXCEPT !.extra = Toggle(@, name)]
     \/ \E fact \in {"listed", "repo"} : dir' = [dir EXCEPT !.access = Toggle(@, fact)]
     \/ \E mail \in {"none", "unverified", "verified"} : dir' = [dir EXCEPT !.mail = mail]
     \/ \E sub \in Subject : dir' = [dir EXCEPT !.sub = sub]
  /\ dir' \in KnownTo(p.type) \ {dir}
  /\ UNCHANGED <<p, op, call, ss, saved, resp, seen, rt, told, mailSaid, facts, grants, faults>>

Next ==
  \/ Login \/ Refresh \/ SignOut \/ ValidateSession \/ DirectoryChanges
  \/ DefaultToken \/ GoogleToken \/ LoginGovToken \/ OIDCToken \/ OIDCClaims
  \/ AzureToken \/ AzureIDClaims \/ AzureATClaims \/ AzureProfile \/ GraphPage
  \/ GoogleListing \/ GoogleMember \/ GoogleUser
  \/ GitHubOrgs \/ GitHubTeams \/ GitHubHasUser \/ GitHubRepo \/ GitHubEmails
  \/ GitHubUser \/ GitHubCollaborator
  \/ KeycloakProfile \/ NextcloudProfile \/ SourceHutProfile
  \/ FacebookAddress \/ LinkedInAddress \/ DigitalOceanAddress
  \/ BitbucketEmails \/ BitbucketTeams \/ BitbucketRepositories
  \/ GitLabUserinfo \/ GitLabProject \/ CidaasUserinfo \/ ADFSfallbackUPN
  \/ LoginGovKeys \/ LoginGovMail

Spec == Init /\ [][Next]_vars

-----------------------------------------------------------------------------
(* Properties.                                                               *)

TypeOK ==
  /\ p \in Options /\ dir \in Directory
  /\ op \in {"idle", "login", "refresh"}
  /\ ss \in Session /\ saved \in Session \cup {NoSession}
  /\ op = "refresh" => saved # NoSession
  /\ resp \in Response
  /\ seen \subseteq Names /\ rt \in Nat
  /\ told \in [since : SUBSET Names, now : SUBSET Names]
  /\ mailSaid \in {"", "unstated", "verified", "unverified"} /\ facts \subseteq {"listed", "repo"}
  /\ grants \in Nat /\ faults \in Nat /\ changes \in Nat

\* Every group of a session, kept over refreshes or not, is one the provider
\* named for the user since the login began: no failed or half-read answer of
\* a listing, a membership test or a project lookup adds one.
GroupsWereReported ==
  /\ ss.groups \subseteq told.since
  /\ saved # NoSession => saved.groups \subseteq told.since

\* The types that look at the verification flag wherever they take an e-mail
\* from.  The others do not: Keycloak's and Cidaas' userinfo, DigitalOcean's
\* account and Bitbucket's list may say that an e-mail is not verified, Facebook,
\* LinkedIn, Nextcloud and SourceHut are asked for the e-mail only, and Azure
\* goes on to the access token and to Graph when the ID token's e-mail is not.
Verifying == (OIDC \ {"cidaas"}) \cup {"github", "google", "login.gov"}

\* At these types no login or refresh comes to a session with an e-mail that the
\* provider called unverified, unless that is allowed: neither when the flag and
\* the e-mail come from different answers, ID token and profile, nor when the
\* provider changes its mind between two of them.
UnverifiedMailRefused ==
  call = "validate" /\ ss.mail # "" /\ p.type \in Verifying /\ "allowUnverified" \notin p.flags
    => mailSaid # "unverified"

\* GitHub's and Bitbucket's restrictions, stated on what the user was found to
\* be.  An organisation makes the repository irrelevant, and --github-user
\* alone leaves no other way in.
Admitted ==
  \/ Flag("users") /\ "listed" \in facts
  \/ /\ Flag("users") => Flag("org") \/ Flag("repo")
     /\ Flag("team") => Team \in told.now
     /\ Flag("org") /\ ~Flag("team") => Org \in told.now
     /\ Flag("repo") /\ ~Flag("org") => "repo" \in facts

\* A login at GitHub or Bitbucket gets as far as a session with an e-mail only
\* if the answers of this very login admit the user, in whichever order the
\* requests were made and whatever changed between them.
RestrictedLoginsOnly ==
  op = "login" /\ call = "validate" /\ ss.mail # "" /\ p.type \in {"github", "bitbucket"} => Admitted

RefreshSaves == op = "refresh" /\ saved' # saved /\ saved' # NoSession

\* After a refresh of a Google session, or of an OIDC one with a new ID token,
\* the groups saved are ones the provider named during that refresh: a group
\* that was left is gone.  The projects of GitLab are the exception the code
\* makes on purpose.
RefreshRechecksGroups ==
  [][RefreshSaves /\ (\/ p.type = "google" /\ p.flags \cap {"members", "allGroups"} # {}
                      \/ p.type \in OIDC /\ resp'.id # NoToken)
       => saved'.groups \ (IF p.type = "gitlab" THEN Extra ELSE {}) \subseteq told'.now]_vars

\* A refresh keeps the parts of an identity together.  At the OIDC types the user
\* that it saves is the subject of the ID token that it saves, whether the
\* response had a new one, of the same subject or of another (which the code
\* accepts), or none; GitLab and Google keep the user of the login.  Without a
\* new ID token the e-mail stays and no group is lost (Cidaas asks for both again).
IdentityFollowsIDToken ==
  [][RefreshSaves =>
       /\ p.type \in OIDC \ {"gitlab"} => saved'.user = saved'.idt
       /\ p.type \in {"gitlab", "google"} => saved'.user = saved.user
       /\ p.type \in OIDC \ {"cidaas"} /\ resp'.id = NoToken =>
            (saved.mail # "" => saved'.mail = saved.mail) /\ saved.groups \subseteq saved'.groups]_vars

\* A session that a refresh saves holds the refresh token that the provider
\* accepts from now on, rotated or not, so the next refresh can succeed.  The
\* two handlers that decode the response themselves are left out: they save
\* an empty refresh token if the response has none.
RefreshTokenSaved ==
  [][RefreshSaves /\ p.type # "azure" /\ "federated" \notin p.flags => saved'.rt = rt']_vars

\* keycloak.md: --keycloak-group "or `--allowed-group` (global standard) flags
\* can be used to specify which groups to limit access to".  (Where sessions are
\* not refreshed a saved session is as the login left it.)
AllowedGroupsLimitLogins ==
  saved # NoSession /\ p.allowedGroups # {} /\ p.type \notin Refreshing
    => saved.groups \cap p.allowedGroups # {}
=============================================================================

------------------------------ MODULE MCProvider ------------------------------
(***************************************************************************)
(* Instances of Provider: two groups, a role, and every type of provider     *)
(* with the options that make it ask different questions.                    *)
(***************************************************************************)
EXTENDS Provider

CONSTANTS g, h, e

MCGroups == {g, h}
MCExtra == {e}

Plain(type) == [type |-> type, allowedGroups |-> {}, own |-> {}, flags |-> {}]

\* Tokens and profiles with all claims, without e-mail, with little else.
MCClaimSets == {Claims, Claims \ {"email", "email_verified"}, {"email", "preferred_username"}}

OIDCOptions ==
  {[Plain(type) EXCEPT !.flags = f, !.own = IF type \in {"gitlab", "keycloak-oidc"} THEN {e} ELSE {}] :
     type \in OIDC, f \in {{"profileURL"}, {"allowUnverified", "validateURL"}}}
  \cup {[Plain("entra-id") EXCEPT !.flags = {"federated"}]}

GoogleOptions ==
  {[Plain("google") EXCEPT !.flags = {"members", "orgID"}, !.own = {g, h}],
   [Plain("google") EXCEPT !.flags = {"members", "otherDomain"}, !.own = {g}],
   [Plain("google") EXCEPT !.flags = {"allGroups"}, !.allowedGroups = {h}],
   Plain("google")}

AzureOptions == {[Plain("azure") EXCEPT !.flags = f] : f \in {{"v2", "profileURL"}, {}}}

GitHubOptions ==
  {[Plain("github") EXCEPT !.flags = f] :
     f \in {{}, {"org"}, {"org", "team"}, {"team"}, {"users", "team"}, {"repo"}, {"repo", "token"},
            {"users", "repo", "token"}, {"users", "org", "repo"}, {"team", "repo"}}}

OtherOptions ==
  {Plain(type) : type \in ProfileTypes \cup AddressTypes \cup {"login.gov"}}
  \cup {[Plain("keycloak") EXCEPT !.own = {g}],
        [Plain("bitbucket") EXCEPT !.flags = {"team", "repo"}],
        [Plain("bitbucket") EXCEPT !.flags = {"repo"}], Plain("bitbucket")}

MCOptions == OIDCOptions \cup GoogleOptions \cup AzureOptions \cup GitHubOptions \cup OtherOptions

\* The global option alone, with a type that has an option of its own.
GlobalGroupOptions == {[Plain("keycloak") EXCEPT !.allowedGroups = {g}]}
=============================================================================

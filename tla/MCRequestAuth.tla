---------------------------- MODULE MCRequestAuth ----------------------------
(***************************************************************************)
(* A small instance of RequestAuth: two people, one of them with a cookie or *)
(* a password and one with a JWT, an open route, an API route, a trusted     *)
(* address and a trusted proxy.                                              *)
(***************************************************************************)
EXTENDS RequestAuth

CONSTANTS ann, bob, g, h, d, t1, t2, t3, t4, proxy, other

MCNames == {ann, bob}
Ann == [user |-> ann, email |-> ann, groups |-> {g, h}]
Bob == [user |-> bob, email |-> bob, groups |-> {g}]
\* Bob in the group, Bob outside it and without an e-mail, an unverified Ann
\* and a token that no verifier accepts.
MCClaims ==
  [t \in {t1, t2, t3, t4} |->
     CASE t = t1 -> [sub |-> bob, email |-> bob, verified |-> "missing", groups |-> {g}]
       [] t = t2 -> [sub |-> bob, email |-> NoName, verified |-> "true", groups |-> {}]
       [] t = t3 -> [sub |-> ann, email |-> ann, verified |-> "false", groups |-> {g}]
       [] OTHER -> NoClaims]
MCURIs == Endpoints \cup {"open", "api"}
MCEndpointOf == [u \in MCURIs |-> IF u \in Endpoints THEN u ELSE "app"]
\* GET on one page; POST on all that the second pattern does not match.
MCRoutes == {[method |-> "GET", paths |-> {"open"}, negate |-> FALSE],
             [method |-> "POST", paths |-> MCURIs \ {"api"}, negate |-> TRUE]}
MCDomainOf == [n \in MCNames |-> IF n = ann THEN d ELSE NoDomain]

Blank == [uri |-> "app", fwd |-> NoURI, proto |-> "", tls |-> FALSE, remote |-> other,
          realIP |-> NoAddr, method |-> "GET", probe |-> FALSE, ajax |-> FALSE,
          cred |-> [kind |-> "none", token |-> NoToken, user |-> NoName, good |-> FALSE],
          form |-> [user |-> NoName, good |-> FALSE], rd |-> "plain",
          query |-> [groups |-> {}, domains |-> {}, emails |-> {}], hdr |-> {}]

NoCred == Blank.cred
Creds == {NoCred, [NoCred EXCEPT !.kind = "malformed"],
          [NoCred EXCEPT !.kind = "bearer", !.token = t1],
          [NoCred EXCEPT !.kind = "bearer", !.token = t2],
          [NoCred EXCEPT !.kind = "bearer", !.token = t3],
          [NoCred EXCEPT !.kind = "bearer", !.token = t4],
          [NoCred EXCEPT !.kind = "basicToken", !.token = t1],
          [NoCred EXCEPT !.kind = "basic", !.user = ann, !.good = TRUE],
          [NoCred EXCEPT !.kind = "basic", !.user = ann]}
Queries == {Blank.query, [Blank.query EXCEPT !.groups = {h}],
            [Blank.query EXCEPT !.domains = {d}], [Blank.query EXCEPT !.emails = {bob}]}

\* Requests for a page, with every credential and every way to be exempt.
PageRequests ==
  {[Blank EXCEPT !.uri = u, !.cred = c] : u \in {"app", "open", "auth", "userInfo", "signOut"}, c \in Creds}
  \cup {[Blank EXCEPT !.fwd = "open", !.remote = a, !.realIP = ip, !.hdr = s, !.uri = u] :
          a \in {proxy, other, Socket}, ip \in {proxy, NoAddr, BadAddr},
          s \in SUBSET Spellings, u \in {"app", "auth"}}
  \cup {[Blank EXCEPT !.query = q, !.cred = c, !.uri = u] :
          q \in Queries, c \in Creds, u \in {"app", "auth"}}
  \cup {[Blank EXCEPT !.method = "OPTIONS", !.hdr = s] : s \in SUBSET Spellings}
  \cup {[Blank EXCEPT !.ajax = TRUE], [Blank EXCEPT !.uri = "api"], [Blank EXCEPT !.rd = "error"]}
  \cup {[Blank EXCEPT !.uri = u, !.method = "POST"] : u \in {"app", "api"}}

\* Requests the proxy answers itself.
OwnRequests ==
  {[Blank EXCEPT !.uri = u, !.probe = b, !.tls = b, !.proto = p] :
     u \in Endpoints, b \in BOOLEAN, p \in {"", "https"}}
  \cup {[Blank EXCEPT !.uri = "signIn", !.method = "POST", !.form = f, !.rd = r] :
          f \in [user : {NoName, ann}, good : BOOLEAN], r \in {"plain", "error"}}
  \cup {[Blank EXCEPT !.uri = "signOut", !.rd = r, !.remote = a] :
          r \in {"error", "idToken"}, a \in {proxy, other}}

MCProviderSessions == {Ann, Bob}
MCEmailLists == {{ann, bob}, {bob}}
MCUserLists == {{ann}, {}}
MCRequests == PageRequests \cup OwnRequests
MCConfigs == {{}, {"skipJwt", "htpasswd"},
              {"skipJwt", "loginFallback", "htpasswd", "preferEmail", "forceJSON", "backendLogout"},
              {"reverseProxy", "htpasswd", "skipPreflight", "skipButton", "skipNormalization"},
              {"reverseProxy", "forceHTTPS", "pingAgent", "skipPreflight", "preserve"},
              {"reverseProxy", "loginFallback", "skipJwt"}}
=============================================================================

----------------------------- MODULE MCDeployment -----------------------------
(***************************************************************************)
(* Instances of Deployment: upstreams of every kind, with paths that match   *)
(* the same requests; legacy flags with each kind of header and server; a    *)
(* whitelist that changes between launches.                                  *)
(***************************************************************************)
EXTENDS Deployment

A == Path(<<"a">>, FALSE)
ASlash == Path(<<"a">>, TRUE)
AB == Path(<<"a", "b">>, FALSE)
ABSlash == Path(<<"a", "b">>, TRUE)
B == Path(<<"b">>, FALSE)

\* The proxy by its own name, and by one that a reverse proxy reports.
Own == <<"proxy">>
App == <<"app", "example">>
Elsewhere == <<"other", "example">>
MCHosts == {Own, App}

\* Core options: nothing special; whitelists behind a reverse proxy; --force-https.
MCCores ==
  {Core({"email-domain", "skip-provider-button"}, {}),
   Core({"email-domain", "reverse-proxy", "htpasswd-file"},
        {Domain(<<"example">>, TRUE, ""), Domain(Elsewhere, FALSE, "8443")}),
   Core({"email-domain", "force-https", "session-cookie-minimal"}, {})}

Base == [NewLegacyOptions EXCEPT !.clientID = "id", !.secret = "value"]
MCLegacies ==
  {[Base EXCEPT !.upstreams = <<UpstreamFlag("http", NoPath, NoPath, 0), UpstreamFlag("file", ABSlash, ASlash, 0)>>,
                !.flags = @ \cup {"set-xauthrequest", "pass-access-token", "tls"}, !.metrics = ":9100"],
   [Base EXCEPT !.upstreams = <<UpstreamFlag("static", NoPath, NoPath, 0), UpstreamFlag("unix", A, NoPath, 0)>>,
                !.password = "value", !.name = "main"],
   [Base EXCEPT !.upstreams = <<UpstreamFlag("unix", B, NoPath, 0), UpstreamFlag("http", AB, NoPath, 0)>>,
                !.flags = @ \cup {"prefer-email-to-user", "set-basic-auth", "pass-authorization-header"},
                !.password = "value", !.provider = "entra-id", !.own = {"tenant"}, !.prompt = "login",
                !.nonce = "check", !.force = "S256"],
   [Base EXCEPT !.upstreams = <<[UpstreamFlag("http", A, NoPath, 0) EXCEPT !.parses = FALSE]>>],
   [Base EXCEPT !.flags = @ \cup {"set-basic-auth", "set-authorization-header"}, !.secret = "none"]}

Empty == [upstreams |-> <<>>, requestHeaders |-> <<>>, responseHeaders |-> <<>>, server |-> NoServer,
          metrics |-> NoServer,
          providers |-> <<[NoProvider EXCEPT !.id = <<"p">>, !.clientID = "id", !.secret = "file"]>>]
Up(id, path, uri) == Upstream(<<id>>, path, uri)
Rewriting(u, t) == [u EXCEPT !.target = t]
MCYAMLs ==
  {[Empty EXCEPT !.upstreams = <<Up("a", ASlash, "http"), Up("all", Root, "https"), Up("ab", AB, "unix")>>,
                 !.responseHeaders = <<Header("X-Token", "access_token")>>],
   [Empty EXCEPT !.upstreams = <<Up("b", ABSlash, "http"),
                                 Rewriting(Up("rw", ASlash, "http"), Target(Root, TRUE, "some")),
                                 Rewriting(Up("ra", AB, "file"), Target(ABSlash, FALSE, "bad"))>>],
   [Empty EXCEPT !.upstreams = <<[Up("s", ASlash, "http") EXCEPT !.static = "yes", !.code = 404],
                                 [Up("bad", ABSlash, "http") EXCEPT !.valid = FALSE]>>],
   [Empty EXCEPT !.upstreams = <<Up("ftp", ASlash, "ftp")>>],
   [Empty EXCEPT !.providers = <<>>]}

Ask(path) == Request(path, "none", Own)
MCVisits ==
  {Ask(A), Ask(AB), Ask(ABSlash), [Ask(A) EXCEPT !.ws = TRUE],
   [Ask(Endpoint("start")) EXCEPT !.rd = Local(Endpoint("start"), "none")],
   [Ask(Endpoint("sign_in")) EXCEPT !.form = TRUE, !.rd = Absolute(Elsewhere, "8443", A, "none")],
   [Ask(Endpoint("sign_out")) EXCEPT !.rd = Unsafe, !.header = Absolute(Elsewhere, "", Root, "none")],
   Ask(Endpoint("userinfo")), Ask(Endpoint("callback")),
   Request(B, "none", App)}
QueryVisits == {Request(A, "some", Own)}
=============================================================================

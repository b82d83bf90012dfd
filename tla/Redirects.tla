------------------------------- MODULE Redirects -------------------------------
(***************************************************************************)
(* pkg/app/redirect and IsEndpointAllowed: where a client may be sent after  *)
(* it has signed in or out, and how that is chosen from a request.           *)
(***************************************************************************)
EXTENDS Upstreams

\* Where a redirect points to: a path on the host that was asked, an absolute
\* URL, a string that looks like a path and leads elsewhere ("//", "/\") or one
\* of another scheme.  A host is the sequence of its labels; port "" is none.
Nowhere == [kind |-> "none", path |-> NoPath, query |-> "none", host |-> <<>>, port |-> ""]
Local(path, query) == [Nowhere EXCEPT !.kind = "path", !.path = path, !.query = query]
Absolute(host, port, path, query) ==
  [kind |-> "absolute", path |-> path, query |-> query, host |-> host, port |-> port]
Unsafe == [Nowhere EXCEPT !.kind = "unsafe"]

\* An entry of --whitelist-domain; sub: it begins with "." or "*.", port may
\* be "*".
Domain(host, sub, port) == [host |-> host, sub |-> sub, port |-> port]

\* strings.HasSuffix on whole labels: the suffix begins with a dot.
EndsWith(host, suffix) ==
  /\ Len(suffix) < Len(host)
  /\ SubSeq(host, Len(host) - Len(suffix) + 1, Len(host)) = suffix

isHostnameAllowed(host, d) == host = d.host \/ (d.sub /\ EndsWith(host, d.host))

IsEndpointAllowed(to, allowedDomains) ==
  \E d \in allowedDomains : /\ d.host # <<>>
                            /\ isHostnameAllowed(to.host, d)
                            /\ d.port \in {"*", to.port}

IsValidRedirect(to, allowedDomains) ==
  CASE to.kind = "path" -> TRUE
    [] to.kind = "absolute" -> IsEndpointAllowed(to, allowedDomains)
    [] OTHER -> FALSE

(***************************************************************************)
(* The director.  A request has the path it asks for, the redirects it       *)
(* brings along and the host that a reverse proxy reports.                   *)
(***************************************************************************)
Prefix == "oauth2"
Endpoint(name) == Path(<<Prefix, name>>, FALSE)

\* Mutant: the proxy's own endpoints are as good as any.
hasProxyPrefixNever(path) == FALSE

hasProxyPrefix(path) == HasPrefix(path, Path(<<Prefix>>, TRUE))

\* The getters in the order of GetRedirect.  forwarded: IsForwardedRequest.
\* A path needs no permission, so the last one always has an answer.
GetRedirect(req, forwarded, allowedDomains) ==
  LET getURIRedirect ==
        IF hasProxyPrefix(req.uri.path) THEN Local(Root, "none") ELSE Local(req.uri.path, req.uri.query)
      getXForwardedHeadersRedirect == Absolute(req.host, "", getURIRedirect.path, getURIRedirect.query)
      Valid(to) == IsValidRedirect(to, allowedDomains)
  IN CASE Valid(req.rd) -> req.rd
       [] ~Valid(req.rd) /\ Valid(req.header) -> req.header
       [] OTHER -> IF forwarded /\ Valid(getXForwardedHeadersRedirect)
                   THEN getXForwardedHeadersRedirect ELSE getURIRedirect
=============================================================================

------------------------------- MODULE Upstreams -------------------------------
(***************************************************************************)
(* The upstream proxy of pkg/upstream: in which order the upstreams are      *)
(* registered with the router, which of them a request is routed to, what    *)
(* a rewrite makes of its URI and how each kind of upstream answers.         *)
(*                                                                           *)
(* A path is its segments and whether it ends in a slash; the segments all   *)
(* count as one letter.  A pattern of an upstream with a rewrite target is   *)
(* anchored: one that goes on after /a/ is the path with a slash, one that   *)
(* ends after /a the path without.                                           *)
(***************************************************************************)
EXTENDS Naturals, Sequences, FiniteSets

Path(segs, slash) == [segs |-> segs, slash |-> slash]
Root == Path(<<>>, TRUE)
NoPath == Path(<<>>, FALSE)

\* len(path).
Length(p) == 2 * Len(p.segs) + (IF p.slash THEN 1 ELSE 0)

\* strings.HasPrefix(p, prefix) for a prefix that ends in a slash.
HasPrefix(p, prefix) ==
  \/ p = prefix
  \/ /\ Len(prefix.segs) < Len(p.segs)
     /\ SubSeq(p.segs, 1, Len(prefix.segs)) = prefix.segs

Schemes == {"http", "https", "file", "unix"}

\* A target's query is appended to the request's, unless it does not parse.
NoTarget == [path |-> NoPath, keep |-> FALSE, query |-> "none"]
Target(path, keep, query) == [path |-> path, keep |-> keep, query |-> query]

\* valid: the path begins with a slash, or the pattern compiles.  The options
\* that may be left out are "unset" until EnsureDefaults.
Upstream(id, path, uri) ==
  [id |-> id, path |-> path, valid |-> TRUE, uri |-> uri, target |-> NoTarget,
   static |-> "unset", code |-> 0, insecure |-> "unset", passHost |-> "unset",
   webSockets |-> "unset", flush |-> "unset", timeout |-> "unset"]

Rewrites(u) == u.target # NoTarget
Static(u) == u.static = "yes"

(***************************************************************************)
(* NewProxy                                                                  *)
(***************************************************************************)

\* Mutant: shorter paths first.
SortedShortestFirst(u, v) ==
  IF Rewrites(u) = Rewrites(v) THEN Length(u.path) < Length(v.path) ELSE Rewrites(u)

\* The order of sortByPathLongest.
SortedBefore(u, v) ==
  IF Rewrites(u) = Rewrites(v) THEN Length(u.path) > Length(v.path) ELSE Rewrites(u)

\* What sort.Slice, which is not stable, may return first.
sortByPathLongest(us) == {u \in us : \A v \in us : ~SortedBefore(v, u)}

\* NewProxy's switch on the scheme, and what the router or the regexp package
\* says of the path.
Registers(u) == (Static(u) \/ u.uri \in Schemes) /\ u.valid

(***************************************************************************)
(* ServeHTTP                                                                 *)
(***************************************************************************)

\* PathPrefix, Path, or the MatcherFunc of a rewrite.
Matches(u, p) == IF u.path.slash THEN HasPrefix(p, u.path) ELSE p = u.path

\* Route i is the first registered one that matches p; none is.
RoutedTo(routes, p, i) ==
  Matches(routes[i], p) /\ \A j \in DOMAIN routes : Matches(routes[j], p) => i <= j
Unrouted(routes, p) == \A i \in DOMAIN routes : ~Matches(routes[i], p)

\* registerTrailingSlashHandler: no route matches p, and one matches p with a
\* slash.
MissesSlash(routes, p) ==
  ~p.slash /\ Unrouted(routes, p) /\ ~Unrouted(routes, [p EXCEPT !.slash = TRUE])

\* The slash is appended to the whole of req.URL.String().
SlashLocation(uri) ==
  IF uri.query = "none" THEN [uri EXCEPT !.path.slash = TRUE] ELSE uri

\* rewritePath: the request line the upstream sees.  ReplaceAllString keeps
\* what the group of the pattern matched if the target has a $1.
rewritePath(u, uri) ==
  LET rest == SubSeq(uri.path.segs, Len(u.path.segs) + 1, Len(uri.path.segs))
      kept == IF u.target.keep THEN rest ELSE <<>>
      path == [segs |-> u.target.path.segs \o kept,
               slash |-> IF kept = <<>> THEN u.target.path.slash ELSE uri.path.slash]
  IN CASE ~Rewrites(u) -> uri
       [] u.target.query = "bad" -> [uri EXCEPT !.path = NoPath, !.query = "none"]
       [] u.target.query = "none" -> [uri EXCEPT !.path = path]
       [] OTHER -> [uri EXCEPT !.path = path, !.query = "some"]

\* What may come back of a request that is routed to u.  An HTTP upstream
\* answers or fails, its timeout included; a WebSocket is proxied by a
\* transport without that timeout, and which knows no unix sockets.
Answers(u, ws) ==
  CASE Static(u) -> {"static"}
    [] u.uri = "file" -> {"file", "not found"}
    [] ws /\ u.webSockets = "yes" -> IF u.uri = "unix" THEN {"bad gateway"} ELSE {"upgraded", "bad gateway"}
    [] OTHER -> {"upstream", "bad gateway"}
Hangs(u, ws) == ~Static(u) /\ u.uri \in {"http", "https"} /\ ws /\ u.webSockets = "yes"
=============================================================================

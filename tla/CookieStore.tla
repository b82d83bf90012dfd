----------------------------- MODULE CookieStore -----------------------------
(***************************************************************************)
(* Client-side sessions: the cookie session store of                        *)
(* pkg/sessions/cookie/session_store.go, which splits a session that does    *)
(* not fit into one cookie over several, with concurrent requests of one     *)
(* browser that load, save and clear sessions through it.                    *)
(*                                                                          *)
(* A session is the number of the Save that made it.  Its signed value has   *)
(* size bytes; a piece is a range of these bytes.                            *)
(***************************************************************************)
EXTENDS Integers, Sequences, FiniteSets, FiniteSetsExt

CONSTANTS
  Requests,
  MaxSessions,  \* bound on the sessions that are saved
  Sizes,        \* lengths of the signed values of sessions
  NameLens,     \* lengths of opts.Cookie.Name
  MaxName,      \* the 256 of splitCookieName
  MaxCookie,    \* maxCookieLength
  Attrs         \* what (http.Cookie).String() adds to the name and the value

Sessions == 1..MaxSessions

ASSUME StoreAssumption ==
  /\ Sizes \subseteq Nat \ {0} /\ Sizes # {} /\ IsFiniteSet(Sizes)
  /\ {MaxSessions, MaxName, MaxCookie, Attrs} \subseteq Nat
  \* validateCookieName
  /\ NameLens \subseteq 1..MaxName
  \* a piece has room for at least one byte of the value
  /\ Attrs + MaxName < MaxCookie

VARIABLES
  nameLen,  \* length of opts.Cookie.Name
  jar,      \* the browser's session cookies: name -> piece
  issued,   \* sessions saved so far
  last,     \* history: the session whose Set-Cookie headers arrived last, 0 after a Clear
  size,     \* length of the signed value of each session
  pc,       \* where each request is
  cookies,  \* the cookies of the request
  sets      \* the Set-Cookie headers of the response: name -> piece

conf == <<nameLen, size>>
vars == <<conf, jar, issued, last, pc, cookies, sets>>

(***************************************************************************)
(* A cookie name is a prefix of opts.Cookie.Name with or without a number.   *)
(***************************************************************************)
Plain == -1
Name(stem, count) == [stem |-> stem, count |-> count]
CookieName == Name(nameLen, Plain)

\* No server accepts a thousand cookies.
Digits(count) == IF count < 10 THEN 1 ELSE IF count < 100 THEN 2 ELSE 3

\* A bug to compare with: names are cut one byte too late.
LongSplitName(count) ==
  LET overflow == nameLen + 1 + Digits(count) - MaxName
  IN Name(IF overflow > 1 THEN nameLen - overflow + 1 ELSE nameLen, count)

splitCookieName(count) ==
  LET overflow == nameLen + 1 + Digits(count) - MaxName
  IN Name(IF overflow > 0 THEN nameLen - overflow ELSE nameLen, count)

Length(name) == name.stem + IF name.count = Plain THEN 0 ELSE 1 + Digits(name.count)

\* len((http.Cookie).String()) of a cookie whose value has n bytes.
StringLength(name, n) == Length(name) + n + Attrs

\* A piece: bytes from .. to of the signed value of session sess.
NoPiece == [sess |-> 0, from |-> 0, to |-> 0]
Deleted == [sess |-> 0, from |-> 1, to |-> 0]
Bytes(p) == p.to - p.from + 1

MaxSize == Max(Sizes)
Names == {CookieName} \cup {splitCookieName(i) : i \in 0..MaxSize}
Pieces == [sess: Sessions, from: 1..MaxSize, to: 1..MaxSize]

-----------------------------------------------------------------------------
\* The number of bytes of the value that fit into piece number count.
Room(count) == MaxCookie - StringLength(splitCookieName(count), 0)

\* Bytes of the value that the pieces before number count hold.
Before[count \in 0..MaxSize] ==
  IF count = 0 THEN 0 ELSE Before[count - 1] + Room(count - 1)

\* A bug to compare with: the byte at the cut is lost.
SplitLosesByte(s) ==
  LET number == CHOOSE n \in 1..MaxSize :
                  Before[n - 1] < size[s] /\ size[s] <= Before[n]
  IN [i \in 0..(number - 1) |->
        [sess |-> s, from |-> Before[i] + IF i = 0 THEN 1 ELSE 2,
         to |-> IF i = number - 1 THEN size[s] ELSE Before[i + 1]]]

\* splitCookie: every piece but the last is filled up.
splitCookie(s) ==
  LET number == CHOOSE n \in 1..MaxSize :
                  Before[n - 1] < size[s] /\ size[s] <= Before[n]
  IN [i \in 0..(number - 1) |->
        [sess |-> s, from |-> Before[i] + 1,
         to |-> IF i = number - 1 THEN size[s] ELSE Before[i + 1]]]

\* makeSessionCookie: the cookies of a session, by name.
makeSessionCookie(s) ==
  IF StringLength(CookieName, size[s]) > MaxCookie
  THEN LET ps == splitCookie(s)
       IN [n \in {splitCookieName(i) : i \in DOMAIN ps} |-> ps[n.count]]
  ELSE [n \in {CookieName} |-> [sess |-> s, from |-> 1, to |-> size[s]]]

Present(cs) == {n \in Names : cs[n] # NoPiece}

\* How many pieces loadCookie finds, counting from 0 until one is missing.
Found(cs) ==
  Min({i \in 0..(MaxSize + 1) :
         i = MaxSize + 1 \/ cs[splitCookieName(i)] = NoPiece})

\* joinCookies followed by Validate: the pieces are in order, whole, and of one
\* session.  A single piece keeps its own name, which the signature does not
\* cover.
Joins(cs, k) ==
  /\ k # 1
  /\ \A i \in 0..(k - 1) :
       LET p == cs[splitCookieName(i)] IN
         /\ p.sess = cs[splitCookieName(0)].sess
         /\ p.from = IF i = 0 THEN 1 ELSE cs[splitCookieName(i - 1)].to + 1
         /\ i = k - 1 => p.to = size[p.sess]

\* SessionStore.Load: "none" is http.ErrNoCookie.
None    == 0
Invalid == -1

Load(cs) ==
  LET c == cs[CookieName]
      k == Found(cs)
  IN IF c # NoPiece
     THEN IF c.from = 1 /\ c.to = size[c.sess] THEN c.sess ELSE Invalid
     ELSE IF k = 0 THEN None
     ELSE IF Joins(cs, k) THEN cs[splitCookieName(0)].sess ELSE Invalid

\* A bug to compare with: only the cookie that is not split is cleared.
ClearPlain(cs) == {n \in Present(cs) : n = CookieName}

\* Clear: the cookies of the request whose names match ^CookieName(_\d+)?$.
Clear(cs) == {n \in Present(cs) : n.stem = nameLen}

\* The headers of a response that deletes the names in del and sets the
\* cookies of f.
Response(del, f) ==
  [n \in Names |-> IF n \in DOMAIN f THEN f[n] ELSE IF n \in del THEN Deleted ELSE NoPiece]

NoSets == [n \in Names |-> NoPiece]

-----------------------------------------------------------------------------
Init ==
  /\ nameLen \in NameLens
  /\ jar = [n \in Names |-> NoPiece]
  /\ issued = 0 /\ last = 0
  /\ size \in [Sessions -> Sizes]
  /\ pc = [r \in Requests |-> "idle"]
  /\ cookies = [r \in Requests |-> NoSets]
  /\ sets = [r \in Requests |-> NoSets]

Send(r) ==
  /\ pc[r] = "idle"
  /\ pc' = [pc EXCEPT ![r] = "handle"]
  /\ cookies' = [cookies EXCEPT ![r] = jar]
  /\ UNCHANGED <<conf, jar, issued, last, sets>>

Answer(r, stage, del, f) ==
  /\ pc[r] = "handle"
  /\ pc' = [pc EXCEPT ![r] = stage]
  /\ sets' = [sets EXCEPT ![r] = Response(del, f)]
  /\ UNCHANGED <<conf, jar, last, cookies>>

\* The loader finds a session, or none, and a handler answers.
Serve(r) ==
  /\ Load(cookies[r]) # Invalid
  /\ Answer(r, "respond", {}, <<>>)
  /\ UNCHANGED issued

\* The loader refreshes the session and saves it.
Refresh(r) ==
  /\ Load(cookies[r]) \in Sessions
  /\ issued < MaxSessions
  /\ issued' = issued + 1
  /\ Answer(r, "respond", {}, makeSessionCookie(issued + 1))

\* OAuthCallback, which does not load a session, saves a new one; so does the
\* sign-in form, for which the loader has cleared a session that is not valid.
Login(r) ==
  /\ issued < MaxSessions
  /\ issued' = issued + 1
  /\ \E form \in BOOLEAN :
       Answer(r, "respond",
              IF form /\ Load(cookies[r]) = Invalid THEN Clear(cookies[r]) ELSE {},
              makeSessionCookie(issued + 1))

\* The loader clears a session that is not valid, and SignOut, the sign-in page
\* and a failed authorization clear any.
ClearSession(r) ==
  /\ Answer(r, "cleared", Clear(cookies[r]), <<>>)
  /\ UNCHANGED issued

\* The response arrives at the browser.
Respond(r) ==
  /\ pc[r] \in {"respond", "cleared"}
  /\ pc' = [pc EXCEPT ![r] = "done"]
  /\ jar' = [n \in Names |-> IF sets[r][n] = Deleted THEN NoPiece
                             ELSE IF sets[r][n] = NoPiece THEN jar[n] ELSE sets[r][n]]
  /\ last' = LET new == {sets[r][n].sess : n \in Names} \ {0}
             IN IF new # {} THEN Max(new) ELSE IF pc[r] = "cleared" THEN 0 ELSE last
  /\ cookies' = [cookies EXCEPT ![r] = NoSets]
  /\ sets' = [sets EXCEPT ![r] = NoSets]
  /\ UNCHANGED <<conf, issued>>

Next ==
  \E r \in Requests :
    Send(r) \/ Serve(r) \/ Refresh(r) \/ Login(r) \/ ClearSession(r) \/ Respond(r)

Spec == Init /\ [][Next]_vars

-----------------------------------------------------------------------------
\* Split and join are inverse, whatever responses are mixed: as long as the
\* browser holds the cookies of the names that the last Save has set and no
\* others, Load gives the session of that Save.
LoadsLastSaved ==
  last # 0 /\ Present(jar) = DOMAIN makeSessionCookie(last) => Load(jar) = last

\* What the browser holds are pieces of sessions that were saved, none of them
\* empty, none longer than browsers accept and no name longer than 256, also for
\* values that end where a piece does (splitCookie, splitCookieName).
CookiesFit ==
  /\ jar \in [Names -> Pieces \cup {NoPiece}]
  /\ \A n \in Present(jar) :
       /\ jar[n].sess <= issued /\ Bytes(jar[n]) >= 1
       /\ Length(n) <= MaxName /\ StringLength(n, Bytes(jar[n])) <= MaxCookie

\* A cookie name to which splitCookieName can append a number without cutting it.
ShortName == nameLen + 4 <= MaxName

\* Clear's comment says that it "clears any saved session information": when
\* its response arrives at a browser whose cookies are those of the request,
\* no session cookie is left, unless the names of split cookies are cut.
ClearLeavesNothing ==
  [][\A r \in Requests :
       ShortName /\ pc[r] = "cleared" /\ pc'[r] = "done" /\ jar = cookies[r]
         => Present(jar') = {}]_vars
=============================================================================

-------------------------- MODULE CookieStore_proofs --------------------------
(***************************************************************************)
(* The cookie session store, for every number of requests and of sessions,   *)
(* every set of sizes and every cookie name: Clear leaves no session cookie  *)
(* behind when the names of split cookies are not cut, the cookies that are  *)
(* set fit, and Load joins what splitCookie has split.                       *)
(***************************************************************************)
EXTENDS CookieStore, FiniteSetTheorems, WellFoundedInduction, TLAPS

(***************************************************************************)
(* Clear                                                                     *)
(***************************************************************************)
\* The names of all session cookies match ^CookieName(_\d+)?$ of Clear.
LEMMA NamesMatch ==
  ASSUME nameLen \in NameLens, ShortName, NEW n \in Names
  PROVE  n.stem = nameLen
<1>1. CASE n = CookieName
  BY <1>1 DEF CookieName, Name
<1>2. ASSUME NEW i \in 0..MaxSize, n = splitCookieName(i)
      PROVE  n.stem = nameLen
  <2>1. Digits(i) \in {1, 2, 3}
    BY DEF Digits
  <2>2. ~(nameLen + 1 + Digits(i) - MaxName > 0)
    BY <2>1, StoreAssumption DEF ShortName
  <2>3. splitCookieName(i) = [stem |-> nameLen, count |-> i]
    BY <2>2, Zenon DEF splitCookieName, Name
  <2> QED
    BY <1>2, <2>3
<1> QED
  BY <1>1, <1>2 DEF Names

\* The headers ss delete what Clear matched in the cookies cs, and set nothing.
Deletes(ss, cs) ==
  \A n \in Names :
    ss[n] = IF cs[n] # NoPiece /\ n.stem = nameLen THEN Deleted ELSE NoPiece

\* The response of a request that has cleared deletes what Clear matched in the
\* cookies of this request, and sets nothing.
ClearInv ==
  /\ nameLen \in NameLens
  /\ pc \in [Requests -> {"idle", "handle", "respond", "cleared", "done"}]
  /\ cookies = [r \in Requests |-> cookies[r]]
  /\ sets = [r \in Requests |-> sets[r]]
  /\ \A r \in Requests :
       pc[r] = "cleared" => Deletes(sets[r], cookies[r])

\* The configuration, and with it the cookie names, does not change.
LEMMA SameNames ==
  ASSUME [Next]_vars
  PROVE  nameLen' = nameLen /\ Names' = Names
<1>1. nameLen' = nameLen
  BY DEF Next, Send, Serve, Refresh, Login, ClearSession, Respond, Answer, vars, conf
<1>2. CookieName' = CookieName /\ \A i : splitCookieName(i)' = splitCookieName(i)
  BY <1>1 DEF CookieName, splitCookieName, Name
<1> QED
  BY <1>1, <1>2 DEF Names

\* ClearInv holds while the response is on its way: nothing else writes the
\* cookies and the headers of the request.
LEMMA ClearInvKept ==
  ASSUME ClearInv, [Next]_vars
  PROVE  ClearInv'
<1> USE DEF ClearInv
<1>0. nameLen' = nameLen /\ Names' = Names
  BY SameNames
<1>1. CASE UNCHANGED vars
  <2>1. pc' = pc /\ cookies' = cookies /\ sets' = sets
    BY <1>1 DEF vars
  <2> QED
    BY <1>0, <2>1 DEF Deletes
<1>2. ASSUME NEW r \in Requests, Send(r)
      PROVE  ClearInv'
  BY <1>0, <1>2 DEF Send, Deletes
<1>3. ASSUME NEW r \in Requests, NEW stage \in {"respond", "cleared"}, NEW del, NEW f,
             Answer(r, stage, del, f),
             stage = "cleared" => del = Clear(cookies[r]) /\ f = <<>>
      PROVE  ClearInv'
  <2>1. stage = "cleared" => Deletes(Response(del, f), cookies[r])
    BY <1>3 DEF Deletes, Response, Clear, Present
  <2> QED
    BY <1>0, <1>3, <2>1 DEF Answer, Deletes
<1>4. ASSUME NEW r \in Requests, Serve(r) \/ Refresh(r)
      PROVE  ClearInv'
  BY <1>4, <1>3 DEF Serve, Refresh
<1>5. ASSUME NEW r \in Requests, Login(r)
      PROVE  ClearInv'
  BY <1>5, <1>3 DEF Login
<1>6. ASSUME NEW r \in Requests, ClearSession(r)
      PROVE  ClearInv'
  BY <1>6, <1>3 DEF ClearSession
<1>7. ASSUME NEW r \in Requests, Respond(r)
      PROVE  ClearInv'
  BY <1>0, <1>7 DEF Respond, Deletes
<1> QED
  BY <1>1, <1>2, <1>4, <1>5, <1>6, <1>7 DEF Next

\* Only Respond ends a request that has cleared.
LEMMA RespondEnds ==
  ASSUME ClearInv, Next, NEW r \in Requests, pc[r] = "cleared", pc'[r] = "done"
  PROVE  Respond(r)
<1> USE DEF ClearInv
<1>1. PICK q \in Requests :
        Send(q) \/ Serve(q) \/ Refresh(q) \/ Login(q) \/ ClearSession(q) \/ Respond(q)
  BY DEF Next
<1>2. q = r
  <2>1. pc' = [pc EXCEPT ![q] = pc'[q]]
    BY <1>1 DEF Send, Serve, Refresh, Login, ClearSession, Respond, Answer
  <2> QED
    BY <2>1
<1> QED
  BY <1>1, <1>2 DEF Send, Serve, Refresh, Login, ClearSession, Answer

\* Clear leaves no session cookie in a browser whose cookies are still those
\* of the request, if the cookie name leaves room for "_" and three digits.
THEOREM ClearIsComplete == Spec => ClearLeavesNothing
<1>1. Init => ClearInv
  BY DEF Init, ClearInv
<1>2. ClearInv /\ [Next]_vars => ClearInv'
  BY ClearInvKept
<1>3. ASSUME ClearInv, Next, ShortName, NEW r \in Requests,
             pc[r] = "cleared", pc'[r] = "done", jar = cookies[r]
      PROVE  Present(jar') = {}
  <2>1. Respond(r)
    BY <1>3, RespondEnds
  <2>2. Deletes(sets[r], jar)
    BY <1>3 DEF ClearInv
  <2>3. ASSUME NEW n \in Names
        PROVE  jar'[n] = NoPiece
    <3>1. n.stem = nameLen
      BY <1>3, NamesMatch DEF ClearInv
    <3>2. sets[r][n] = IF jar[n] # NoPiece THEN Deleted ELSE NoPiece
      BY <2>2, <3>1 DEF Deletes
    <3>3. Deleted # NoPiece
      BY DEF Deleted, NoPiece
    <3> QED
      BY <2>1, <3>2, <3>3 DEF Respond
  <2> QED
    BY <2>3 DEF Present
<1>4. ClearInv /\ [Next]_vars
        => [\A r \in Requests :
              ShortName /\ pc[r] = "cleared" /\ pc'[r] = "done" /\ jar = cookies[r]
                => Present(jar') = {}]_vars
  BY <1>3
<1> QED
  BY <1>1, <1>2, <1>4, PTL DEF Spec, ClearLeavesNothing

(***************************************************************************)
(* Least elements.  The library's induction theorems take an operator; the   *)
(* least number principle, for a set, does what they do.                      *)
(***************************************************************************)
\* A set of numbers that is not empty has a least element.
LEMMA LeastNumber ==
  ASSUME NEW T, T \subseteq Nat, T # {}
  PROVE  \E x \in T : \A y \in T : x <= y
<1> DEFINE R == {ss \in Nat \X Nat : ss[1] < ss[2]}
<1>1. OpToRel(<, Nat) = R
  BY Zenon DEF OpToRel
<1>2. IsWellFoundedOn(R, Nat)
  BY <1>1, NatLessThanWellFounded, Zenon
<1> HIDE DEF R
<1>3. PICK x \in T : \A y \in T : ~(<<y, x>> \in R)
  BY <1>2, WFMin
<1>4. ASSUME NEW y \in T
      PROVE  x <= y
  <2>1. x \in Nat /\ y \in Nat /\ <<y, x>> \in Nat \X Nat
    OBVIOUS
  <2>2. CASE y < x
    <3>1. <<y, x>>[1] < <<y, x>>[2]
      BY <2>2
    <3>2. <<y, x>> \in R
      BY <2>1, <3>1 DEF R
    <3> QED
      BY <3>2, <1>3
  <2> QED
    BY <2>1, <2>2
<1> QED
  BY <1>4

\* A finite set of numbers has an upper bound.
LEMMA FiniteIsBounded ==
  ASSUME NEW S \in SUBSET Nat, IsFiniteSet(S)
  PROVE  \E b \in Nat : \A n \in S : n <= b
<1> DEFINE Bounded(A) == \E b \in Nat : \A n \in A : n <= b
           Bad == {A \in SUBSET S : ~Bounded(A)}
           Sz == {Cardinality(A) : A \in Bad}
<1> SUFFICES ASSUME ~Bounded(S) PROVE FALSE
  OBVIOUS
<1>1. \A A \in SUBSET S : IsFiniteSet(A) /\ Cardinality(A) \in Nat
  BY FS_Subset, FS_CardinalityType
<1>2. Sz \subseteq Nat /\ Sz # {}
  BY <1>1
<1>3. PICK k \in Sz : \A y \in Sz : k <= y
  <2> HIDE DEF Sz
  <2> QED
    BY <1>2, LeastNumber
<1>4. PICK A \in Bad : Cardinality(A) = k
  OBVIOUS
<1>5. PICK a \in A : TRUE
  BY <1>4
<1>6. Cardinality(A \ {a}) = Cardinality(A) - 1 /\ Cardinality(A) \in Nat
  BY <1>1, <1>4, <1>5, FS_RemoveElement
<1>7. Bounded(A \ {a})
  <2> SUFFICES ASSUME ~Bounded(A \ {a}) PROVE FALSE
    OBVIOUS
  <2>1. A \ {a} \in Bad
    BY <1>4
  <2>2. k <= Cardinality(A \ {a})
    BY <1>3, <2>1
  <2> QED
    BY <1>4, <1>6, <2>2
<1>8. PICK b \in Nat : \A n \in A \ {a} : n <= b
  BY <1>7
<1>9. a \in Nat /\ A \subseteq Nat
  BY <1>4, <1>5
<1>10. \A n \in A : n <= a + b
  <2> SUFFICES ASSUME NEW n \in A PROVE n <= a + b
    OBVIOUS
  <2>1. n \in Nat
    BY <1>9
  <2>2. n = a \/ n <= b
    BY <1>8
  <2> QED
    BY <1>9, <2>1, <2>2
<1>11. a + b \in Nat
  BY <1>9
<1>12. Bounded(A)
  BY <1>10, <1>11
<1> QED
  BY <1>4, <1>12

\* MaxSize is the length of the longest signed value.
LEMMA MaxSizeIsMax ==
  /\ MaxSize \in Nat \ {0}
  /\ \A n \in Sizes : n <= MaxSize
<1> DEFINE Bounds == {b \in Nat : \A n \in Sizes : n <= b}
<1>1. Sizes \in SUBSET Nat /\ IsFiniteSet(Sizes) /\ Sizes # {} /\ 0 \notin Sizes
  BY StoreAssumption
<1>2. \E b \in Nat : \A n \in Sizes : n <= b
  BY <1>1, FiniteIsBounded
<1>3. PICK m \in Bounds : \A b \in Bounds : m <= b
  <2>1. Bounds \subseteq Nat /\ Bounds # {}
    BY <1>2
  <2> HIDE DEF Bounds
  <2> QED
    BY <2>1, LeastNumber
<1>4. m \in Sizes
  <2> SUFFICES ASSUME m \notin Sizes PROVE FALSE
    OBVIOUS
  <2>1. \A n \in Sizes : n \in Nat /\ n < m
    BY <1>1, <1>3
  <2>2. m \in Nat \ {0}
    <3>1. PICK n \in Sizes : n \in Nat /\ n < m
      BY <1>1, <2>1
    <3>2. m \in Nat
      BY <1>3
    <3> QED
      BY <3>1, <3>2
  <2>3. \A n \in Sizes : n <= m - 1
    BY <2>1, <2>2
  <2>4. m - 1 \in Bounds
    BY <2>2, <2>3
  <2> QED
    BY <1>3, <2>2, <2>4
<1>5. MaxSize \in Sizes /\ \A n \in Sizes : MaxSize >= n
  <2>1. \E x \in Sizes : \A y \in Sizes : x >= y
    BY <1>1, <1>3, <1>4
  <2>2. MaxSize = CHOOSE x \in Sizes : \A y \in Sizes : x >= y
    BY DEF MaxSize, Max
  <2> QED
    BY <2>1, <2>2, Zenon
<1> QED
  BY <1>1, <1>5

(***************************************************************************)
(* Names and pieces                                                          *)
(***************************************************************************)
\* The constants are numbers.
LEMMA Numbers ==
  /\ MaxName \in Nat /\ MaxCookie \in Nat /\ Attrs \in Nat
  /\ Attrs + MaxName < MaxCookie
  /\ nameLen \in NameLens => nameLen \in Nat /\ 1 <= nameLen /\ nameLen <= MaxName
<1>1. MaxName \in Nat /\ MaxCookie \in Nat /\ Attrs \in Nat
  BY StoreAssumption
<1>2. NameLens \subseteq 1..MaxName /\ Attrs + MaxName < MaxCookie
  BY StoreAssumption
<1>3. ASSUME nameLen \in NameLens
      PROVE  nameLen \in Nat /\ 1 <= nameLen /\ nameLen <= MaxName
  <2>1. nameLen \in 1..MaxName
    BY <1>2, <1>3
  <2> QED
    BY <1>1, <2>1
<1> QED
  BY <1>1, <1>2, <1>3, Zenon

\* The length of the name of a piece: at most 256, and no shorter than the
\* cookie name.
PieceNameLength(count) ==
  IF nameLen + 1 + Digits(count) > MaxName THEN MaxName ELSE nameLen + 1 + Digits(count)

\* The name of a piece has its number and this length, and is not the cookie name.
LEMMA PieceNames ==
  ASSUME nameLen \in NameLens, NEW i \in Nat
  PROVE  /\ splitCookieName(i).count = i
         /\ splitCookieName(i) # CookieName
         /\ Length(splitCookieName(i)) = PieceNameLength(i)
         /\ PieceNameLength(i) \in Nat
         /\ nameLen <= PieceNameLength(i) /\ PieceNameLength(i) <= MaxName
<1>1. Digits(i) \in 1..3
  BY DEF Digits
<1>2. nameLen \in Nat /\ nameLen <= MaxName /\ MaxName \in Nat
  BY Numbers
<1> DEFINE overflow == nameLen + 1 + Digits(i) - MaxName
           stem == IF overflow > 0 THEN nameLen - overflow ELSE nameLen
<1>3. splitCookieName(i) = [stem |-> stem, count |-> i]
  BY Zenon DEF splitCookieName, Name
<1>4. CookieName.count = -1 /\ i # -1
  BY DEF CookieName, Name, Plain
<1>5. splitCookieName(i).count = i /\ splitCookieName(i).stem = stem
  BY <1>3
<1>6. splitCookieName(i) # CookieName
  BY <1>4, <1>5
<1>7. Length(splitCookieName(i)) = stem + 1 + Digits(i)
  <2>1. Length(splitCookieName(i)) = stem + (1 + Digits(i))
    BY <1>4, <1>5 DEF Length, Plain
  <2> QED
    BY <1>1, <1>2, <2>1
<1>8. stem + 1 + Digits(i) = PieceNameLength(i)
  <2>1. PICK d \in 1..3 : d = Digits(i)
    BY <1>1
  <2>2. CASE nameLen + 1 + d > MaxName
    BY <1>2, <2>1, <2>2 DEF PieceNameLength
  <2>3. CASE ~(nameLen + 1 + d > MaxName)
    BY <1>2, <2>1, <2>3 DEF PieceNameLength
  <2> QED
    BY <2>2, <2>3
<1>9. PieceNameLength(i) \in Nat /\ nameLen <= PieceNameLength(i) /\ PieceNameLength(i) <= MaxName
  BY <1>1, <1>2 DEF PieceNameLength
<1> QED
  BY <1>5, <1>6, <1>7, <1>8, <1>9

\* A piece has room for a byte, and a piece that is filled up makes a cookie of
\* the greatest length.
LEMMA RoomOfPiece ==
  ASSUME nameLen \in NameLens, NEW i \in Nat
  PROVE  /\ Room(i) = MaxCookie - Attrs - PieceNameLength(i)
         /\ Room(i) \in Nat /\ Room(i) >= 1
         /\ \A n \in Int : StringLength(splitCookieName(i), n) <= MaxCookie <=> n <= Room(i)
<1>1. Length(splitCookieName(i)) = PieceNameLength(i)
      /\ PieceNameLength(i) \in Nat /\ PieceNameLength(i) <= MaxName
  BY PieceNames
<1>2. \A n : StringLength(splitCookieName(i), n) = PieceNameLength(i) + n + Attrs
  BY <1>1 DEF StringLength
<1> QED
  BY <1>1, <1>2, Numbers DEF Room

\* Digits has three values, so Before has a closed form: the one below obeys
\* the equation that defines Before, which therefore has a solution.
LEMMA BeforeEquation ==
  ASSUME nameLen \in NameLens
  PROVE  Before = [count \in 0..MaxSize |->
                     IF count = 0 THEN 0 ELSE Before[count - 1] + Room(count - 1)]
<1> DEFINE a == MaxCookie - Attrs - PieceNameLength(0)
           b == MaxCookie - Attrs - PieceNameLength(10)
           c == MaxCookie - Attrs - PieceNameLength(100)
           Sum(n) == IF n <= 10 THEN n * a
                     ELSE IF n <= 100 THEN 10 * a + (n - 10) * b
                     ELSE 10 * a + 90 * b + (n - 100) * c
           g == [n \in 0..MaxSize |-> Sum(n)]
<1>1. MaxSize \in Nat
  BY MaxSizeIsMax
<1>2. a \in Int /\ b \in Int /\ c \in Int
  BY Numbers, PieceNames
<1>3. \A i \in Nat : Room(i) = IF i < 10 THEN a ELSE IF i < 100 THEN b ELSE c
  <2> SUFFICES ASSUME NEW i \in Nat
               PROVE  Room(i) = IF i < 10 THEN a ELSE IF i < 100 THEN b ELSE c
    OBVIOUS
  <2>1. Room(i) = MaxCookie - Attrs - PieceNameLength(i)
    BY RoomOfPiece
  <2> QED
    BY <2>1 DEF PieceNameLength, Digits
<1> HIDE DEF a, b, c
<1>4. Sum(0) = 0
  BY <1>2
<1>5. ASSUME NEW n \in Nat \ {0}
      PROVE  Sum(n) = Sum(n - 1) + Room(n - 1)
  <2>1. Room(n - 1) = IF n <= 10 THEN a ELSE IF n <= 100 THEN b ELSE c
    BY <1>3
  <2>2. \A x \in Int : n * x = (n - 1) * x + x /\ (n - 10) * x = (n - 11) * x + x
                       /\ (n - 100) * x = (n - 101) * x + x
    OBVIOUS
  <2> QED
    BY <1>2, <2>1, <2>2
<1> HIDE DEF Sum
<1>6. g = [count \in 0..MaxSize |-> IF count = 0 THEN 0 ELSE g[count - 1] + Room(count - 1)]
  <2>1. ASSUME NEW n \in 0..MaxSize
        PROVE  Sum(n) = IF n = 0 THEN 0 ELSE g[n - 1] + Room(n - 1)
    <3>1. CASE n = 0
      BY <3>1, <1>4
    <3>2. CASE n # 0
      <4>1. n \in Nat \ {0} /\ n - 1 \in 0..MaxSize
        BY <1>1, <3>2
      <4>2. g[n - 1] = Sum(n - 1)
        BY <4>1
      <4> QED
        BY <3>2, <4>1, <4>2, <1>5
    <3> QED
      BY <3>1, <3>2
  <2> QED
    BY <2>1
<1> HIDE DEF g
<1>7. \E f : f = [count \in 0..MaxSize |-> IF count = 0 THEN 0 ELSE f[count - 1] + Room(count - 1)]
  BY <1>6
<1>8. Before = CHOOSE f : f = [count \in 0..MaxSize |->
                                 IF count = 0 THEN 0 ELSE f[count - 1] + Room(count - 1)]
  BY Zenon DEF Before
<1> QED
  BY <1>7, <1>8, Zenon

\* Every piece adds its room, so the sums are numbers that grow.
LEMMA BeforeGrows ==
  ASSUME nameLen \in NameLens
  PROVE  /\ Before[0] = 0
         /\ \A i \in 0..MaxSize : Before[i] \in Nat /\ i <= Before[i]
         /\ \A i \in 0..(MaxSize - 1) : Before[i + 1] = Before[i] + Room(i)
         /\ \A i, j \in 0..MaxSize : i <= j => Before[i] <= Before[j]
<1>0. MaxSize \in Nat
  BY MaxSizeIsMax
<1>1. \A n \in 0..MaxSize : Before[n] = IF n = 0 THEN 0 ELSE Before[n - 1] + Room(n - 1)
  <2> DEFINE B == Before
  <2>1. B = [n \in 0..MaxSize |-> IF n = 0 THEN 0 ELSE B[n - 1] + Room(n - 1)]
    BY BeforeEquation, Zenon
  <2> HIDE DEF B
  <2>2. \A n \in 0..MaxSize : B[n] = IF n = 0 THEN 0 ELSE B[n - 1] + Room(n - 1)
    BY <2>1
  <2> QED
    BY <2>2, Zenon DEF B
<1>2. \A i \in Nat : Room(i) \in Nat /\ Room(i) >= 1
  BY RoomOfPiece
<1>3. Before[0] = 0
  BY <1>0, <1>1
<1>4. ASSUME NEW i \in 0..(MaxSize - 1)
      PROVE  Before[i + 1] = Before[i] + Room(i)
  <2>1. i + 1 \in 0..MaxSize /\ i + 1 # 0 /\ (i + 1) - 1 = i
    BY <1>0
  <2> QED
    BY <1>1, <2>1
<1>5. \A i \in 0..MaxSize : Before[i] \in Nat /\ i <= Before[i]
  <2> DEFINE Good(i) == Before[i] \in Nat /\ i <= Before[i]
             Bad == {i \in 0..MaxSize : ~Good(i)}
  <2> SUFFICES ASSUME Bad # {} PROVE FALSE
    OBVIOUS
  <2>1. PICK k \in Bad : \A y \in Bad : k <= y
    <3>1. Bad \subseteq Nat
      OBVIOUS
    <3> HIDE DEF Bad
    <3> QED
      BY <3>1, LeastNumber
  <2>2. Good(0)
    BY <1>3
  <2>3. k # 0 /\ k \in 0..MaxSize /\ k - 1 \in 0..(MaxSize - 1)
    BY <1>0, <2>1, <2>2
  <2>4. Good(k - 1)
    <3>1. k - 1 \in 0..MaxSize /\ ~(k <= k - 1)
      BY <1>0, <2>3
    <3> QED
      BY <2>1, <3>1
  <2>5. Before[k] = Before[k - 1] + Room(k - 1)
    BY <1>1, <2>3
  <2>6. Room(k - 1) \in Nat /\ Room(k - 1) >= 1
    BY <1>2, <2>3
  <2>7. Good(k)
    BY <2>3, <2>4, <2>5, <2>6
  <2> QED
    BY <2>1, <2>7
<1>6. ASSUME NEW i \in 0..MaxSize, NEW j \in 0..MaxSize, i <= j
      PROVE  Before[i] <= Before[j]
  <2> DEFINE Bad == {m \in i..MaxSize : ~(Before[i] <= Before[m])}
  <2> SUFFICES ASSUME Bad # {} PROVE FALSE
    BY <1>0, <1>6
  <2>1. PICK k \in Bad : \A y \in Bad : k <= y
    <3>1. Bad \subseteq Nat
      OBVIOUS
    <3> HIDE DEF Bad
    <3> QED
      BY <3>1, LeastNumber
  <2>2. Before[i] \in Nat
    BY <1>5
  <2>3. k # i
    BY <2>1, <2>2
  <2>4. k \in i..MaxSize /\ k - 1 \in i..MaxSize /\ k - 1 \in 0..(MaxSize - 1) /\ ~(k <= k - 1)
    BY <1>0, <2>1, <2>3
  <2>5. Before[i] <= Before[k - 1]
    BY <2>1, <2>4
  <2>6. Before[k] = Before[k - 1] + Room(k - 1)
    BY <1>1, <2>4
  <2>7. Room(k - 1) \in Nat /\ Before[k - 1] \in Nat
    BY <1>2, <1>5, <2>4
  <2>8. Before[i] <= Before[k]
    BY <2>2, <2>5, <2>6, <2>7
  <2> QED
    BY <2>1, <2>8
<1> QED
  BY <1>3, <1>4, <1>5, <1>6

\* The number of pieces of a value of n bytes.
Number(n) == CHOOSE k \in 1..MaxSize : Before[k - 1] < n /\ n <= Before[k]

\* There is such a number: as many pieces as bytes are enough.
LEMMA NumberOfPieces ==
  ASSUME nameLen \in NameLens, NEW n \in Sizes
  PROVE  /\ Number(n) \in 1..MaxSize
         /\ Before[Number(n) - 1] < n /\ n <= Before[Number(n)]
<1>0. MaxSize \in Nat \ {0} /\ n \in Nat \ {0} /\ n <= MaxSize
  BY MaxSizeIsMax, StoreAssumption
<1>1. Before[0] = 0 /\ \A i \in 0..MaxSize : Before[i] \in Nat /\ i <= Before[i]
  BY BeforeGrows
<1> DEFINE Enough == {i \in 0..MaxSize : n <= Before[i]}
<1>2. PICK k \in Enough : \A y \in Enough : k <= y
  <2>1. MaxSize \in 0..MaxSize /\ Before[MaxSize] \in Nat /\ MaxSize <= Before[MaxSize]
    BY <1>0, <1>1
  <2>2. n <= Before[MaxSize]
    BY <1>0, <2>1
  <2>3. Enough \subseteq Nat /\ Enough # {}
    BY <2>1, <2>2
  <2> HIDE DEF Enough
  <2> QED
    BY <2>3, LeastNumber
<1>3. k # 0
  BY <1>0, <1>1, <1>2
<1>4. k \in 1..MaxSize /\ k - 1 \in 0..MaxSize /\ ~(k <= k - 1)
  BY <1>0, <1>2, <1>3
<1>5. ~(n <= Before[k - 1])
  BY <1>2, <1>4
<1>6. Before[k - 1] < n
  BY <1>0, <1>1, <1>4, <1>5
<1>7. \E i \in 1..MaxSize : Before[i - 1] < n /\ n <= Before[i]
  BY <1>2, <1>4, <1>6
<1> QED
  BY <1>7, Zenon DEF Number

\* Piece number i of session s.
PieceOf(s, i) ==
  [sess |-> s, from |-> Before[i] + 1,
   to |-> IF i = Number(size[s]) - 1 THEN size[s] ELSE Before[i + 1]]

\* No piece is empty, and each fits into its cookie.
LEMMA PiecesFit ==
  ASSUME nameLen \in NameLens, size \in [Sessions -> Sizes], NEW s \in Sessions,
         NEW i \in 0..(Number(size[s]) - 1)
  PROVE  /\ PieceOf(s, i) \in Pieces
         /\ Bytes(PieceOf(s, i)) \in 1..Room(i)
<1> DEFINE k == Number(size[s])
           n == size[s]
<1>0. n \in Sizes /\ MaxSize \in Nat \ {0} /\ n \in Nat \ {0} /\ n <= MaxSize
  BY MaxSizeIsMax, StoreAssumption
<1>1. k \in 1..MaxSize /\ Before[k - 1] < n /\ n <= Before[k]
  BY <1>0, NumberOfPieces
<1>2. i \in 0..(k - 1)
  OBVIOUS
<1> HIDE DEF k, n
<1>3. i \in 0..MaxSize /\ i + 1 \in 0..MaxSize /\ i \in 0..(MaxSize - 1) /\ i \in Nat
      /\ k \in 0..MaxSize /\ k - 1 \in 0..MaxSize
  BY <1>0, <1>1, <1>2
<1>4. Before[i] \in Nat /\ Before[i + 1] = Before[i] + Room(i)
  BY <1>3, BeforeGrows
<1>5. Room(i) \in Nat /\ Room(i) >= 1
  BY <1>3, RoomOfPiece
<1> DEFINE to == IF i = k - 1 THEN n ELSE Before[i + 1]
<1>6. /\ to \in Nat /\ to <= MaxSize
      /\ Before[i] < to /\ to <= Before[i] + Room(i)
  <2>1. CASE i = k - 1
    <3>1. k = i + 1
      BY <1>1, <2>1
    <3> QED
      BY <1>0, <1>1, <1>4, <2>1, <3>1
  <2>2. CASE i # k - 1
    <3>1. i + 1 <= k - 1
      BY <1>1, <1>2, <2>2
    <3>2. Before[i + 1] <= Before[k - 1] /\ Before[k - 1] \in Nat
      BY <1>3, <3>1, BeforeGrows
    <3> QED
      BY <1>0, <1>1, <1>4, <1>5, <2>2, <3>2
  <2> QED
    BY <2>1, <2>2
<1>7. PieceOf(s, i) = [sess |-> s, from |-> Before[i] + 1, to |-> to]
  BY DEF PieceOf, k, n
<1> HIDE DEF to
<1>8. Before[i] + 1 \in 1..MaxSize /\ to \in 1..MaxSize /\ to - (Before[i] + 1) + 1 \in 1..Room(i)
  BY <1>0, <1>4, <1>5, <1>6
<1> QED
  BY <1>7, <1>8 DEF Pieces, Bytes

\* makeSessionCookie, case by case.
LEMMA SplitMakes ==
  ASSUME nameLen \in NameLens, size \in [Sessions -> Sizes], NEW s \in Sessions,
         StringLength(CookieName, size[s]) > MaxCookie
  PROVE  /\ DOMAIN makeSessionCookie(s) = {splitCookieName(i) : i \in 0..(Number(size[s]) - 1)}
         /\ \A i \in 0..(Number(size[s]) - 1) :
              makeSessionCookie(s)[splitCookieName(i)] = PieceOf(s, i)
<1>1. splitCookie(s) = [i \in 0..(Number(size[s]) - 1) |-> PieceOf(s, i)]
  BY Zenon DEF splitCookie, Number, PieceOf
<1>2. makeSessionCookie(s) =
        [n \in {splitCookieName(i) : i \in DOMAIN splitCookie(s)} |-> splitCookie(s)[n.count]]
  BY Zenon DEF makeSessionCookie
<1> DEFINE ps == splitCookie(s)
           k == Number(size[s])
           m == makeSessionCookie(s)
<1>3. /\ ps = [i \in 0..(k - 1) |-> PieceOf(s, i)]
      /\ m = [n \in {splitCookieName(i) : i \in DOMAIN ps} |-> ps[n.count]]
      /\ \A i \in 0..(k - 1) : splitCookieName(i).count = i
  <2>1. \A i \in 0..(k - 1) : i \in Nat
    OBVIOUS
  <2> QED
    BY <1>1, <1>2, <2>1, PieceNames
<1> SUFFICES /\ DOMAIN m = {splitCookieName(i) : i \in 0..(k - 1)}
             /\ \A i \in 0..(k - 1) : m[splitCookieName(i)] = PieceOf(s, i)
  OBVIOUS
<1> HIDE DEF ps, k, m
<1> QED
  BY <1>3

\* A session that fits into one cookie.
LEMMA PlainMakes ==
  ASSUME NEW s, ~(StringLength(CookieName, size[s]) > MaxCookie)
  PROVE  /\ DOMAIN makeSessionCookie(s) = {CookieName}
         /\ makeSessionCookie(s)[CookieName] = [sess |-> s, from |-> 1, to |-> size[s]]
BY DEF makeSessionCookie

\* Piece p fits into the cookie named n.
Fits(n, p) ==
  /\ p \in Pieces /\ Bytes(p) >= 1
  /\ Length(n) <= MaxName /\ StringLength(n, Bytes(p)) <= MaxCookie

\* A session is at least one cookie, of the store's names, and each fits.
LEMMA MadeCookies ==
  ASSUME nameLen \in NameLens, size \in [Sessions -> Sizes], NEW s \in Sessions
  PROVE  /\ DOMAIN makeSessionCookie(s) \subseteq Names
         /\ DOMAIN makeSessionCookie(s) # {}
         /\ \A n \in DOMAIN makeSessionCookie(s) :
              Fits(n, makeSessionCookie(s)[n]) /\ makeSessionCookie(s)[n].sess = s
<1>0. size[s] \in Sizes /\ MaxSize \in Nat \ {0} /\ size[s] \in 1..MaxSize
  BY MaxSizeIsMax, StoreAssumption
<1>1. CASE StringLength(CookieName, size[s]) > MaxCookie
  <2>1. PICK k \in 1..MaxSize : k = Number(size[s])
    BY <1>0, NumberOfPieces
  <2>2. /\ DOMAIN makeSessionCookie(s) = {splitCookieName(i) : i \in 0..(k - 1)}
        /\ \A i \in 0..(k - 1) : makeSessionCookie(s)[splitCookieName(i)] = PieceOf(s, i)
    BY <1>1, <2>1, SplitMakes
  <2>3. 0..(k - 1) \subseteq 0..MaxSize /\ 0 \in 0..(k - 1)
    BY <1>0
  <2>4. DOMAIN makeSessionCookie(s) \subseteq Names /\ DOMAIN makeSessionCookie(s) # {}
    BY <2>2, <2>3 DEF Names
  <2>5. ASSUME NEW i \in 0..(k - 1)
        PROVE  Fits(splitCookieName(i), PieceOf(s, i)) /\ PieceOf(s, i).sess = s
    <3>1. PieceOf(s, i) \in Pieces /\ Bytes(PieceOf(s, i)) \in 1..Room(i)
      BY <2>1, PiecesFit
    <3>2. i \in Nat
      OBVIOUS
    <3>3. StringLength(splitCookieName(i), Bytes(PieceOf(s, i))) <= MaxCookie
      <4>1. Room(i) \in Nat
        BY <3>2, RoomOfPiece
      <4>2. Bytes(PieceOf(s, i)) \in Int /\ Bytes(PieceOf(s, i)) <= Room(i)
        BY <3>1, <4>1
      <4> QED
        BY <3>2, <4>2, RoomOfPiece
    <3>4. Length(splitCookieName(i)) <= MaxName
      BY <3>2, PieceNames
    <3>5. Bytes(PieceOf(s, i)) >= 1
      <4>1. Room(i) \in Nat
        BY <3>2, RoomOfPiece
      <4> QED
        BY <3>1, <4>1
    <3>6. PieceOf(s, i).sess = s
      BY DEF PieceOf
    <3> QED
      BY <3>1, <3>3, <3>4, <3>5, <3>6 DEF Fits
  <2> QED
    BY <2>2, <2>4, <2>5
<1>2. CASE ~(StringLength(CookieName, size[s]) > MaxCookie)
  <2>1. /\ DOMAIN makeSessionCookie(s) = {CookieName}
        /\ makeSessionCookie(s)[CookieName] = [sess |-> s, from |-> 1, to |-> size[s]]
    BY <1>2, PlainMakes
  <2> DEFINE p == [sess |-> s, from |-> 1, to |-> size[s]]
  <2>2. p \in Pieces /\ Bytes(p) = size[s] /\ Bytes(p) >= 1 /\ p.sess = s
    BY <1>0 DEF Pieces, Bytes
  <2>3. Length(CookieName) = nameLen
    <3>1. CookieName.stem = nameLen /\ CookieName.count = Plain
      BY DEF CookieName, Name
    <3> QED
      BY <3>1, Numbers DEF Length
  <2>4. Length(CookieName) <= MaxName /\ StringLength(CookieName, Bytes(p)) <= MaxCookie
    <3>1. StringLength(CookieName, size[s]) = nameLen + size[s] + Attrs
      BY <2>3 DEF StringLength
    <3>2. StringLength(CookieName, size[s]) <= MaxCookie
      BY <1>0, <1>2, <3>1, Numbers
    <3> QED
      BY <2>2, <2>3, <3>2, Numbers
  <2> HIDE DEF p
  <2> QED
    BY <2>1, <2>2, <2>4 DEF Fits, Names, p
<1> QED
  BY <1>1, <1>2

\* A session that is split has two pieces at least, so that joinCookies does
\* not take it for one that is not.
LEMMA SplitInTwo ==
  ASSUME nameLen \in NameLens, NEW n \in Sizes, StringLength(CookieName, n) > MaxCookie
  PROVE  Number(n) # 1
<1>0. n \in Nat \ {0} /\ MaxSize \in Nat \ {0}
  BY MaxSizeIsMax, StoreAssumption
<1>1. StringLength(CookieName, n) = nameLen + n + Attrs
  <2>1. CookieName.stem = nameLen /\ CookieName.count = Plain
    BY DEF CookieName, Name
  <2> QED
    BY <2>1, Numbers DEF Length, StringLength
<1>2. nameLen <= PieceNameLength(0) /\ PieceNameLength(0) \in Nat
      /\ Room(0) = MaxCookie - Attrs - PieceNameLength(0)
  BY PieceNames, RoomOfPiece
<1>3. Room(0) < n
  BY <1>0, <1>1, <1>2, Numbers
<1>4. Before[1] = Room(0)
  <2>1. 0 \in 0..(MaxSize - 1) /\ Room(0) \in Nat
    BY <1>0, <1>2, Numbers, RoomOfPiece
  <2>2. Before[0 + 1] = Before[0] + Room(0) /\ Before[0] = 0
    BY <2>1, BeforeGrows
  <2> QED
    BY <2>1, <2>2
<1>5. n <= Before[Number(n)]
  BY NumberOfPieces
<1>6. Room(0) \in Nat
  BY RoomOfPiece
<1> QED
  BY <1>0, <1>3, <1>4, <1>5, <1>6

\* The cookies cs hold what Save made of session s, and no other session cookie.
Holds(cs, s) ==
  /\ Present(cs) = DOMAIN makeSessionCookie(s)
  /\ \A n \in DOMAIN makeSessionCookie(s) : cs[n] = makeSessionCookie(s)[n]

\* loadCookie finds all the pieces and joins them.
LEMMA LoadJoins ==
  ASSUME nameLen \in NameLens, size \in [Sessions -> Sizes], NEW s \in Sessions, NEW cs, Holds(cs, s)
  PROVE  Load(cs) = s
<1>0. size[s] \in Sizes /\ MaxSize \in Nat \ {0} /\ s \in Nat \ {0}
  BY MaxSizeIsMax, StoreAssumption DEF Sessions
<1>1. CASE StringLength(CookieName, size[s]) > MaxCookie
  <2>1. PICK k \in 1..MaxSize : k = Number(size[s])
    BY <1>0, NumberOfPieces
  <2>2. k # 1
    BY <1>0, <1>1, <2>1, SplitInTwo
  <2>3. /\ DOMAIN makeSessionCookie(s) = {splitCookieName(i) : i \in 0..(k - 1)}
        /\ \A i \in 0..(k - 1) : makeSessionCookie(s)[splitCookieName(i)] = PieceOf(s, i)
    BY <1>1, <2>1, SplitMakes
  <2>4. \A i \in 0..(k - 1) : cs[splitCookieName(i)] = PieceOf(s, i)
    BY <2>3 DEF Holds
  <2>5. \A i \in 0..MaxSize : i \in Nat /\ splitCookieName(i) \in Names
    BY DEF Names
  <2>6. cs[CookieName] = NoPiece
    <3>1. CookieName \notin DOMAIN makeSessionCookie(s)
      <4>1. \A i \in 0..(k - 1) : i \in Nat
        OBVIOUS
      <4> QED
        BY <2>3, <4>1, PieceNames
    <3>2. CookieName \in Names
      BY DEF Names
    <3> QED
      BY <3>1, <3>2 DEF Holds, Present
  <2>7. cs[splitCookieName(k)] = NoPiece
    <3>1. k \in 0..MaxSize /\ k \in Nat /\ splitCookieName(k) \in Names
      BY <1>0, <2>5
    <3>2. splitCookieName(k) \notin DOMAIN makeSessionCookie(s)
      <4>1. \A i \in 0..(k - 1) : i \in Nat /\ i # k
        OBVIOUS
      <4>2. splitCookieName(k).count = k /\ \A i \in 0..(k - 1) : splitCookieName(i).count = i
        BY <3>1, <4>1, PieceNames
      <4> QED
        BY <2>3, <4>1, <4>2
    <3> QED
      BY <3>1, <3>2 DEF Holds, Present
  <2>8. \A i \in 0..(k - 1) : cs[splitCookieName(i)] # NoPiece
    <3>1. \A i \in 0..(k - 1) : PieceOf(s, i).sess = s
      BY DEF PieceOf
    <3>2. NoPiece.sess = 0
      BY DEF NoPiece
    <3> QED
      BY <1>0, <2>4, <3>1, <3>2
  <2>9. Found(cs) = k
    <3> DEFINE Ends == {i \in 0..(MaxSize + 1) : i = MaxSize + 1 \/ cs[splitCookieName(i)] = NoPiece}
    <3>1. k \in Ends
      BY <1>0, <2>7
    <3>2. \A i \in Ends : k <= i
      BY <1>0, <2>8
    <3>3. Ends \subseteq Int
      BY <1>0
    <3>4. Found(cs) = Min(Ends)
      BY DEF Found
    <3> HIDE DEF Ends
    <3>5. Min(Ends) \in Ends /\ \A i \in Ends : Min(Ends) <= i
      BY <3>1, <3>2, Zenon DEF Min
    <3>6. Min(Ends) <= k /\ k <= Min(Ends) /\ Min(Ends) \in Int
      BY <3>1, <3>2, <3>3, <3>5
    <3> QED
      BY <3>4, <3>6
  <2>10. Before[0] = 0
    BY BeforeGrows
  <2>11. Joins(cs, k)
    <3> SUFFICES ASSUME NEW i \in 0..(k - 1)
                 PROVE  /\ cs[splitCookieName(i)].sess = cs[splitCookieName(0)].sess
                        /\ cs[splitCookieName(i)].from
                             = IF i = 0 THEN 1 ELSE cs[splitCookieName(i - 1)].to + 1
                        /\ i = k - 1 => cs[splitCookieName(i)].to = size[cs[splitCookieName(i)].sess]
      BY <2>2 DEF Joins
    <3>1. \A j \in 0..(k - 1) :
            /\ cs[splitCookieName(j)].sess = s
            /\ cs[splitCookieName(j)].from = Before[j] + 1
            /\ cs[splitCookieName(j)].to = IF j = k - 1 THEN size[s] ELSE Before[j + 1]
      <4>1. \A j : /\ PieceOf(s, j).sess = s
                   /\ PieceOf(s, j).from = Before[j] + 1
                   /\ PieceOf(s, j).to = IF j = k - 1 THEN size[s] ELSE Before[j + 1]
        <5>1. \A j : PieceOf(s, j) = [sess |-> s, from |-> Before[j] + 1,
                                     to |-> IF j = k - 1 THEN size[s] ELSE Before[j + 1]]
          BY <2>1, Zenon DEF PieceOf
        <5> QED
          BY <5>1
      <4> QED
        BY <2>4, <4>1
    <3>2. 0 \in 0..(k - 1)
      OBVIOUS
    <3>3. CASE i = 0
      <4>1. cs[splitCookieName(i)].from = 1
        BY <2>10, <3>1, <3>3
      <4> QED
        BY <3>1, <3>2, <3>3, <4>1
    <3>4. CASE i # 0
      <4>1. i - 1 \in 0..(k - 1) /\ i - 1 # k - 1 /\ (i - 1) + 1 = i
        BY <3>4
      <4>2. cs[splitCookieName(i - 1)].to = Before[i]
        BY <3>1, <4>1
      <4> QED
        BY <3>1, <3>2, <3>4, <4>2
    <3> QED
      BY <3>3, <3>4
  <2>12. cs[splitCookieName(0)].sess = s
    <3>1. 0 \in 0..(k - 1)
      OBVIOUS
    <3>2. PieceOf(s, 0).sess = s
      BY DEF PieceOf
    <3> QED
      BY <2>4, <3>1, <3>2
  <2>13. Load(cs) = IF k = 0 THEN None ELSE IF Joins(cs, k) THEN cs[splitCookieName(0)].sess ELSE Invalid
    BY <2>6, <2>9, Zenon DEF Load
  <2> QED
    BY <2>11, <2>12, <2>13
<1>2. CASE ~(StringLength(CookieName, size[s]) > MaxCookie)
  <2>1. cs[CookieName] = [sess |-> s, from |-> 1, to |-> size[s]]
    BY <1>2, PlainMakes DEF Holds
  <2>2. cs[CookieName] # NoPiece
    BY <1>0, <2>1 DEF NoPiece
  <2>3. cs[CookieName].from = 1 /\ cs[CookieName].sess = s /\ cs[CookieName].to = size[s]
    BY <2>1
  <2> QED
    BY <2>2, <2>3, Zenon DEF Load
<1> QED
  BY <1>1, <1>2

(***************************************************************************)
(* What the browser holds                                                    *)
(***************************************************************************)
\* The headers ss set the cookies of session s.
SetsSession(ss, s) ==
  \A n \in Names :
    IF n \in DOMAIN makeSessionCookie(s) THEN ss[n] = makeSessionCookie(s)[n]
                                         ELSE ss[n] \in {NoPiece, Deleted}

\* A response on its way deletes cookies, or changes none, or sets the cookies
\* of a session.
Headers(p, ss, count) ==
  /\ p = "cleared" => \A n \in Names : ss[n] \in {NoPiece, Deleted}
  /\ p = "respond" => \/ \A n \in Names : ss[n] = NoPiece
                      \/ \E s \in 1..count : SetsSession(ss, s)

\* What is under a name is what some Save made for this name.
Saved(j, count) ==
  \A n \in Names :
    \/ j[n] = NoPiece
    \/ \E s \in 1..count : n \in DOMAIN makeSessionCookie(s) /\ j[n] = makeSessionCookie(s)[n]

\* The cookies of the session that arrived last are there.
LastHeld(j, s) == s # 0 => \A n \in DOMAIN makeSessionCookie(s) : j[n] = makeSessionCookie(s)[n]

CookieInv ==
  /\ nameLen \in NameLens /\ size \in [Sessions -> Sizes]
  /\ issued \in 0..MaxSessions /\ last \in 0..issued
  /\ pc \in [Requests -> {"idle", "handle", "respond", "cleared", "done"}]
  /\ sets = [r \in Requests |-> sets[r]]
  /\ jar = [n \in Names |-> jar[n]]
  /\ \A r \in Requests : Headers(pc[r], sets[r], issued)
  /\ Saved(jar, issued)
  /\ LastHeld(jar, last)

\* The cookies that Save makes of a session do not change.
LEMMA SameCookies ==
  ASSUME [Next]_vars
  PROVE  /\ nameLen' = nameLen /\ size' = size /\ Names' = Names
         /\ \A s : makeSessionCookie(s)' = makeSessionCookie(s)
<1>1. nameLen' = nameLen /\ size' = size
  BY DEF Next, Send, Serve, Refresh, Login, ClearSession, Respond, Answer, vars, conf
<1>2. CookieName' = CookieName /\ \A i : splitCookieName(i)' = splitCookieName(i)
  BY <1>1 DEF CookieName, splitCookieName, Name
<1>3. Names' = Names
  BY SameNames
<1>4. Before' = Before
  BY <1>1, Zenon DEF Before, Room, StringLength, Length, splitCookieName, Name
<1>5. ASSUME NEW s
      PROVE  splitCookie(s)' = splitCookie(s)
  BY <1>1, <1>4, Zenon DEF splitCookie
<1>6. ASSUME NEW s
      PROVE  makeSessionCookie(s)' = makeSessionCookie(s)
  <2>1. StringLength(CookieName, size[s])' = StringLength(CookieName, size[s])
    BY <1>1, <1>2 DEF StringLength, Length
  <2> QED
    BY <1>1, <1>2, <1>5, <2>1, Zenon DEF makeSessionCookie
<1> QED
  BY <1>1, <1>3, <1>6

\* Save never makes the piece that stands for no cookie, or for a deleted one.
LEMMA MadeIsSet ==
  ASSUME nameLen \in NameLens, size \in [Sessions -> Sizes],
         NEW s \in Sessions, NEW n \in DOMAIN makeSessionCookie(s)
  PROVE  /\ n \in Names
         /\ makeSessionCookie(s)[n].sess = s
         /\ makeSessionCookie(s)[n] # NoPiece /\ makeSessionCookie(s)[n] # Deleted
<1>1. n \in Names /\ makeSessionCookie(s)[n].sess = s
  BY MadeCookies
<1>2. NoPiece.sess = 0 /\ Deleted.sess = 0 /\ s # 0
  BY StoreAssumption DEF NoPiece, Deleted, Sessions
<1> QED
  BY <1>1, <1>2

\* More sessions only add what may be on its way and what may be held.
LEMMA MoreSessions ==
  ASSUME NEW c \in Nat, NEW d \in Nat, c <= d, NEW p, NEW ss
  PROVE  /\ Headers(p, ss, c) => Headers(p, ss, d)
         /\ Saved(ss, c) => Saved(ss, d)
<1>1. 1..c \subseteq 1..d
  OBVIOUS
<1> QED
  BY <1>1, Zenon DEF Headers, Saved

\* What a handler answers.
LEMMA AnswerHeaders ==
  ASSUME NEW del, NEW c
  PROVE  /\ Headers("cleared", Response(del, <<>>), c)
         /\ Headers("respond", Response({}, <<>>), c)
         /\ \A s \in 1..c : Headers("respond", Response(del, makeSessionCookie(s)), c)
<1>1. DOMAIN <<>> = {}
  OBVIOUS
<1>2. \A n \in Names : Response(del, <<>>)[n] = IF n \in del THEN Deleted ELSE NoPiece
  BY <1>1 DEF Response
<1>3. \A n \in Names : Response({}, <<>>)[n] = NoPiece
  BY <1>1 DEF Response
<1>4. ASSUME NEW s \in 1..c
      PROVE  SetsSession(Response(del, makeSessionCookie(s)), s)
  BY Zenon DEF SetsSession, Response
<1>5. Headers("cleared", Response(del, <<>>), c)
  BY <1>2 DEF Headers
<1>6. Headers("respond", Response({}, <<>>), c)
  BY <1>3 DEF Headers
<1>7. \A s \in 1..c : Headers("respond", Response(del, makeSessionCookie(s)), c)
  BY <1>4 DEF Headers
<1> QED
  BY <1>5, <1>6, <1>7

\* After a step the invariant is about the same names and the same cookies.
LEMMA InvAfter ==
  ASSUME CookieInv, [Next]_vars,
         issued' \in 0..MaxSessions, last' \in 0..issued',
         pc' \in [Requests -> {"idle", "handle", "respond", "cleared", "done"}],
         sets' = [r \in Requests |-> sets'[r]], jar' = [n \in Names |-> jar'[n]],
         \A r \in Requests : Headers(pc'[r], sets'[r], issued'),
         Saved(jar', issued'), LastHeld(jar', last')
  PROVE  CookieInv'
<1>1. /\ nameLen' = nameLen /\ size' = size /\ Names' = Names
      /\ \A s : makeSessionCookie(s)' = makeSessionCookie(s)
  BY SameCookies
<1>2. nameLen' \in NameLens /\ size' \in [Sessions -> Sizes]
  BY <1>1 DEF CookieInv
<1>3. \A r \in Requests : Headers(pc[r], sets[r], issued)'
  BY <1>1, Zenon DEF Headers, SetsSession, NoPiece, Deleted
<1>4. Saved(jar, issued)' /\ LastHeld(jar, last)'
  BY <1>1, Zenon DEF Saved, LastHeld, NoPiece
<1>5. jar' = [n \in Names' |-> jar'[n]]
  BY <1>1
<1> QED
  BY <1>2, <1>3, <1>4, <1>5, Zenon DEF CookieInv

\* Every step keeps CookieInv: only a response that arrives changes the jar, and
\* it sets the cookies of one session, all of them, or of none.
LEMMA CookieInvKept ==
  ASSUME CookieInv, [Next]_vars
  PROVE  CookieInv'
<1>0. /\ nameLen \in NameLens /\ size \in [Sessions -> Sizes] /\ MaxSessions \in Nat
      /\ issued \in 0..MaxSessions /\ last \in 0..issued
      /\ pc \in [Requests -> {"idle", "handle", "respond", "cleared", "done"}]
      /\ sets = [r \in Requests |-> sets[r]] /\ jar = [n \in Names |-> jar[n]]
  BY StoreAssumption DEF CookieInv
<1>00. /\ \A r \in Requests : Headers(pc[r], sets[r], issued)
       /\ Saved(jar, issued) /\ LastHeld(jar, last)
  BY DEF CookieInv
<1>1. CASE UNCHANGED vars
  <2>1. pc' = pc /\ sets' = sets /\ jar' = jar /\ issued' = issued /\ last' = last
    BY <1>1 DEF vars
  <2> QED
    BY <1>0, <1>00, <2>1, InvAfter
<1>2. ASSUME NEW r \in Requests, Send(r)
      PROVE  CookieInv'
  <2>1. pc' = [pc EXCEPT ![r] = "handle"] /\ sets' = sets /\ jar' = jar
        /\ issued' = issued /\ last' = last
    BY <1>2 DEF Send
  <2>2. \A q \in Requests : Headers(pc'[q], sets'[q], issued')
    <3>1. Headers("handle", sets[r], issued)
      BY DEF Headers
    <3> QED
      BY <1>0, <1>00, <2>1, <3>1
  <2> QED
    BY <1>0, <1>00, <2>1, <2>2, InvAfter
<1>3. ASSUME NEW r \in Requests, NEW stage \in {"respond", "cleared"}, NEW del, NEW f,
             Answer(r, stage, del, f), issued' \in {issued, issued + 1}, issued' \in 0..MaxSessions,
             Headers(stage, Response(del, f), issued')
      PROVE  CookieInv'
  <2>1. pc' = [pc EXCEPT ![r] = stage] /\ sets' = [sets EXCEPT ![r] = Response(del, f)]
        /\ jar' = jar /\ last' = last
    BY <1>3 DEF Answer
  <2>2. issued \in Nat /\ issued' \in Nat /\ issued <= issued' /\ last' \in 0..issued'
    BY <1>0, <1>3, <2>1
  <2>3. \A q \in Requests : Headers(pc[q], sets[q], issued')
    BY <1>00, <2>2, MoreSessions
  <2>4. \A q \in Requests : Headers(pc'[q], sets'[q], issued')
    <3>1. \A q \in Requests :
            /\ pc'[q] = IF q = r THEN stage ELSE pc[q]
            /\ sets'[q] = IF q = r THEN Response(del, f) ELSE sets[q]
      BY <1>0, <2>1
    <3> QED
      BY <1>3, <2>3, <3>1
  <2>5. Saved(jar', issued') /\ LastHeld(jar', last')
    BY <1>00, <2>1, <2>2, MoreSessions
  <2>6. pc' \in [Requests -> {"idle", "handle", "respond", "cleared", "done"}]
        /\ sets' = [q \in Requests |-> sets'[q]] /\ jar' = [n \in Names |-> jar'[n]]
    BY <1>0, <2>1
  <2> QED
    BY <1>3, <2>2, <2>4, <2>5, <2>6, InvAfter
<1>4. ASSUME NEW r \in Requests, Serve(r)
      PROVE  CookieInv'
  <2>1. Headers("respond", Response({}, <<>>), issued')
    BY AnswerHeaders
  <2>2. Answer(r, "respond", {}, <<>>) /\ issued' = issued
    BY <1>4 DEF Serve
  <2> QED
    BY <1>0, <1>3, <2>1, <2>2
<1>5. ASSUME NEW r \in Requests, NEW del, issued < MaxSessions, issued' = issued + 1,
             Answer(r, "respond", del, makeSessionCookie(issued + 1))
      PROVE  CookieInv'
  <2>1. issued' \in 0..MaxSessions /\ issued + 1 \in 1..issued'
    BY <1>0, <1>5
  <2>2. Headers("respond", Response(del, makeSessionCookie(issued + 1)), issued')
    BY <2>1, AnswerHeaders
  <2> QED
    BY <1>3, <1>5, <2>1, <2>2
<1>6. ASSUME NEW r \in Requests, Refresh(r) \/ Login(r)
      PROVE  CookieInv'
  BY <1>5, <1>6 DEF Refresh, Login
<1>7. ASSUME NEW r \in Requests, ClearSession(r)
      PROVE  CookieInv'
  <2>1. Headers("cleared", Response(Clear(cookies[r]), <<>>), issued')
    BY AnswerHeaders
  <2>2. Answer(r, "cleared", Clear(cookies[r]), <<>>) /\ issued' = issued
    BY <1>7 DEF ClearSession
  <2> QED
    BY <1>0, <1>3, <2>1, <2>2
<1>8. ASSUME NEW r \in Requests, Respond(r)
      PROVE  CookieInv'
  <2> DEFINE ss == sets[r]
             new == {ss[n].sess : n \in Names} \ {0}
  <2>1. /\ pc[r] \in {"respond", "cleared"}
        /\ pc' = [pc EXCEPT ![r] = "done"] /\ issued' = issued
        /\ jar' = [n \in Names |-> IF ss[n] = Deleted THEN NoPiece
                                   ELSE IF ss[n] = NoPiece THEN jar[n] ELSE ss[n]]
        /\ last' = IF new # {} THEN Max(new) ELSE IF pc[r] = "cleared" THEN 0 ELSE last
        /\ sets' = [sets EXCEPT ![r] = NoSets]
    BY <1>8, Zenon DEF Respond
  <2>2. Headers(pc[r], ss, issued)
    BY <1>00
  <2>3. NoPiece.sess = 0 /\ Deleted.sess = 0 /\ NoPiece # Deleted
    BY DEF NoPiece, Deleted
  <2>4. \A q \in Requests : Headers(pc'[q], sets'[q], issued')
    <3>1. Headers("done", NoSets, issued)
      BY DEF Headers
    <3>2. \A q \in Requests : /\ pc'[q] = IF q = r THEN "done" ELSE pc[q]
                              /\ sets'[q] = IF q = r THEN NoSets ELSE sets[q]
      BY <1>0, <2>1
    <3> QED
      BY <1>00, <2>1, <3>1, <3>2
  <2>5. pc' \in [Requests -> {"idle", "handle", "respond", "cleared", "done"}]
        /\ sets' = [q \in Requests |-> sets'[q]] /\ jar' = [n \in Names |-> jar'[n]]
    BY <1>0, <2>1
  <2> HIDE DEF ss
  <2>6. CASE \A n \in Names : ss[n] \in {NoPiece, Deleted}
    <3>1. new = {}
      BY <2>3, <2>6
    <3>2. last' = IF pc[r] = "cleared" THEN 0 ELSE last
      BY <2>1, <3>1
    <3>3. \A n \in Names : jar'[n] = IF ss[n] = Deleted THEN NoPiece ELSE jar[n]
      BY <2>1, <2>3, <2>6
    <3>4. Saved(jar', issued')
      BY <1>00, <2>1, <3>3 DEF Saved
    <3>5. CASE pc[r] = "cleared"
      <4>1. last' = 0 /\ last' \in 0..issued' /\ LastHeld(jar', last')
        BY <1>0, <2>1, <3>2, <3>5 DEF LastHeld
      <4> QED
        BY <1>0, <2>1, <2>4, <2>5, <3>4, <4>1, InvAfter
    <3>6. CASE pc[r] # "cleared"
      <4>1. \A n \in Names : ss[n] = NoPiece
        <5>1. pc[r] = "respond"
          BY <2>1, <3>6
        <5>2. ASSUME NEW s \in 1..issued, SetsSession(ss, s)
              PROVE  FALSE
          <6>1. s \in Sessions
            BY <1>0 DEF Sessions
          <6>2. PICK n : n \in DOMAIN makeSessionCookie(s)
            BY <1>0, <6>1, MadeCookies
          <6>3. ss[n] = makeSessionCookie(s)[n] /\ n \in Names
            BY <1>0, <5>2, <6>1, <6>2, MadeIsSet DEF SetsSession
          <6> QED
            BY <1>0, <2>6, <6>1, <6>2, <6>3, MadeIsSet
        <5> QED
          BY <2>2, <5>1, <5>2 DEF Headers
      <4>2. last' = last /\ \A n \in Names : jar'[n] = jar[n]
        BY <2>3, <3>2, <3>3, <3>6, <4>1
      <4>3. LastHeld(jar', last')
        <5> SUFFICES ASSUME last # 0, NEW n \in DOMAIN makeSessionCookie(last)
                     PROVE  jar'[n] = makeSessionCookie(last)[n]
          BY <4>2 DEF LastHeld
        <5>1. last \in Sessions
          BY <1>0 DEF Sessions
        <5> QED
          BY <1>0, <1>00, <4>2, <5>1, MadeIsSet DEF LastHeld
      <4> QED
        BY <1>0, <2>1, <2>4, <2>5, <3>4, <4>2, <4>3, InvAfter
    <3> QED
      BY <3>5, <3>6
  <2>7. CASE ~\A n \in Names : ss[n] \in {NoPiece, Deleted}
    <3>1. PICK s \in 1..issued : SetsSession(ss, s)
      BY <2>1, <2>2, <2>7 DEF Headers
    <3>2. s \in Sessions /\ s \in Nat /\ s # 0
      BY <1>0 DEF Sessions
    <3> DEFINE m == makeSessionCookie(s)
    <3>3. /\ DOMAIN m # {}
          /\ \A n \in DOMAIN m : n \in Names /\ m[n].sess = s /\ m[n] # NoPiece /\ m[n] # Deleted
      BY <1>0, <3>2, MadeCookies, MadeIsSet
    <3>4. \A n \in Names : IF n \in DOMAIN m THEN ss[n] = m[n] ELSE ss[n] \in {NoPiece, Deleted}
      BY <3>1 DEF SetsSession
    <3> HIDE DEF m
    <3>5. new = {s}
      BY <2>3, <3>2, <3>3, <3>4
    <3>6. last' = s
      <4>1. Max({s}) = s
        BY <3>2 DEF Max
      <4> QED
        BY <2>1, <3>5, <4>1
    <3>7. \A n \in DOMAIN m : jar'[n] = m[n]
      BY <2>1, <3>3, <3>4
    <3>8. \A n \in Names : n \in DOMAIN m \/ jar'[n] = NoPiece \/ jar'[n] = jar[n]
      BY <2>1, <2>3, <3>4
    <3>9. Saved(jar', issued')
      BY <1>00, <2>1, <3>1, <3>7, <3>8 DEF Saved, m
    <3>10. LastHeld(jar', last')
      BY <3>6, <3>7 DEF LastHeld, m
    <3>11. last' \in 0..issued'
      BY <1>0, <2>1, <3>1, <3>6
    <3> QED
      BY <1>0, <2>1, <2>4, <2>5, <3>9, <3>10, <3>11, InvAfter
  <2> QED
    BY <2>6, <2>7
<1> QED
  BY <1>1, <1>2, <1>4, <1>6, <1>7, <1>8 DEF Next

\* CookieInv holds in every state.
LEMMA CookieInvariant == Spec => []CookieInv
<1>1. Init => CookieInv
  <2> SUFFICES ASSUME Init PROVE CookieInv
    OBVIOUS
  <2>1. /\ nameLen \in NameLens /\ size \in [Sessions -> Sizes] /\ issued = 0 /\ last = 0
        /\ pc = [r \in Requests |-> "idle"] /\ sets = [r \in Requests |-> NoSets]
        /\ jar = [n \in Names |-> NoPiece]
    BY DEF Init
  <2>2. \A r \in Requests : Headers(pc[r], sets[r], issued)
    BY <2>1 DEF Headers
  <2>3. Saved(jar, issued) /\ LastHeld(jar, last)
    BY <2>1 DEF Saved, LastHeld
  <2> QED
    BY <2>1, <2>2, <2>3, StoreAssumption DEF CookieInv
<1> QED
  BY <1>1, CookieInvKept, PTL DEF Spec

\* Whatever mix of responses reaches the browser, its session cookies are whole
\* pieces of sessions that were saved, and none is longer than browsers accept.
THEOREM CookiesAlwaysFit == Spec => []CookiesFit
<1>1. CookieInv => CookiesFit
  <2> SUFFICES ASSUME CookieInv PROVE CookiesFit
    OBVIOUS
  <2>1. nameLen \in NameLens /\ size \in [Sessions -> Sizes] /\ issued \in 0..MaxSessions
        /\ jar = [n \in Names |-> jar[n]] /\ MaxSessions \in Nat
    BY StoreAssumption DEF CookieInv
  <2>2. ASSUME NEW n \in Names, jar[n] # NoPiece
        PROVE  Fits(n, jar[n]) /\ jar[n].sess <= issued
    <3>1. PICK s \in 1..issued : n \in DOMAIN makeSessionCookie(s) /\ jar[n] = makeSessionCookie(s)[n]
      BY <2>2 DEF CookieInv, Saved
    <3>2. s \in Sessions /\ s <= issued
      BY <2>1 DEF Sessions
    <3> QED
      BY <2>1, <3>1, <3>2, MadeCookies
  <2>3. jar \in [Names -> Pieces \cup {NoPiece}]
    <3>1. \A n \in Names : jar[n] \in Pieces \cup {NoPiece}
      BY <2>2 DEF Fits
    <3> QED
      BY <2>1, <3>1
  <2> QED
    BY <2>2, <2>3 DEF CookiesFit, Fits, Present
<1> QED
  BY <1>1, CookieInvariant, PTL

\* Split and join are inverse for every size of session and length of name:
\* Load gives the session whose cookies arrived last, unless the browser holds
\* a cookie of another session as well or has lost one.
THEOREM LoadsWhatWasSaved == Spec => []LoadsLastSaved
<1>1. CookieInv => LoadsLastSaved
  <2> SUFFICES ASSUME CookieInv, last # 0, Present(jar) = DOMAIN makeSessionCookie(last)
               PROVE  Load(jar) = last
    BY DEF LoadsLastSaved
  <2>1. last \in Sessions /\ nameLen \in NameLens /\ size \in [Sessions -> Sizes]
    BY StoreAssumption DEF CookieInv, Sessions
  <2>2. Holds(jar, last)
    BY DEF CookieInv, LastHeld, Holds
  <2> QED
    BY <2>1, <2>2, LoadJoins
<1> QED
  BY <1>1, CookieInvariant, PTL
=============================================================================

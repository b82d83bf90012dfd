-------------------------- MODULE ServerGroup_proofs --------------------------
(***************************************************************************)
(* Proofs about ServerGroup, for any servers and listeners.                  *)
(***************************************************************************)
EXTENDS ServerGroup, TLAPS

\* What each level knows of the one below it when it returns.
Nested ==
  /\ \A l \in Listeners : stopping[l] = "returned" => conns[l] = 0
  /\ \A l \in lret : serving[l] = "returned" /\ stopping[l] = "returned"
  /\ \A s \in sret : \A l \in Listeners : ServerOf[l] = s => l \in lret
  /\ gret => sret = Servers

\* Errors on their way up: each comes from a listener that has failed, and is
\* handed on when the level below returns.
Passed ==
  /\ \A l \in Listeners : lerr[l] = IF l \in failed THEN l ELSE NoError
  /\ \A s \in Servers : serr[s] \in failed \cup {NoError}
  /\ gerr \in failed \cup {NoError}
  /\ \A l \in lret \cap failed : serr[ServerOf[l]] # NoError
  /\ \A s \in sret : serr[s] # NoError => gerr # NoError

GroupInv == TypeOK /\ Nested /\ Passed

\* The initial states satisfy the invariant.
LEMMA GroupInit == Init => GroupInv
<1> SUFFICES ASSUME Init
             PROVE  GroupInv
  OBVIOUS
<1> USE GroupAssumption DEF Init
<1>1. TypeOK
  <2>1. conns \in [Listeners -> 0..MaxConns]
    OBVIOUS
  <2>2. signalled \in BOOLEAN /\ gret \in BOOLEAN
    OBVIOUS
  <2>3. /\ serving \in [Listeners -> {"start", "accept", "returned"}]
        /\ stopping \in [Listeners -> {"wait", "shutdown", "returned"}]
        /\ lerr \in [Listeners -> Errors] /\ serr \in [Servers -> Errors] /\ gerr \in Errors
    BY DEF Errors
  <2>4. failed \subseteq Listeners /\ lret \subseteq Listeners /\ sret \subseteq Servers
    OBVIOUS
  <2> QED
    BY <2>1, <2>2, <2>3, <2>4 DEF TypeOK
<1>2. Nested
  BY DEF Nested
<1>3. Passed
  BY DEF Passed
<1> QED
  BY <1>1, <1>2, <1>3 DEF GroupInv

\* The steps of a listener before its startServer returns.
LEMMA ListenerStep ==
  ASSUME GroupInv, NEW l \in Listeners,
         \/ Serve(l) \/ Accept(l) \/ Finish(l) \/ Fail(l)
         \/ ServeReturns(l) \/ Shutdown(l) \/ ShutdownReturns(l)
  PROVE  GroupInv'
<1> USE GroupAssumption DEF GroupInv, TypeOK, Nested, Passed, Errors, groupVars
<1>1. CASE Serve(l)
  BY <1>1 DEF Serve
<1>2. CASE Accept(l)
  BY <1>2 DEF Accept
<1>3. CASE Finish(l)
  BY <1>3 DEF Finish
<1>4. CASE Fail(l)
  BY <1>4 DEF Fail, First
<1>5. CASE ServeReturns(l)
  BY <1>5 DEF ServeReturns
<1>6. CASE Shutdown(l)
  BY <1>6 DEF Shutdown
<1>7. CASE ShutdownReturns(l)
  BY <1>7 DEF ShutdownReturns, First
<1> QED
  BY <1>1, <1>2, <1>3, <1>4, <1>5, <1>6, <1>7

\* The steps in which a level returns to the one above it.
LEMMA ReturnStep ==
  ASSUME GroupInv,
         \/ \E l \in Listeners : ListenerReturns(l)
         \/ \E s \in Servers : ServerReturns(s)
         \/ GroupReturns
  PROVE  GroupInv'
<1> USE GroupAssumption DEF GroupInv, TypeOK, Nested, Passed, Errors, runVars
<1>1. ASSUME NEW l \in Listeners, ListenerReturns(l)
      PROVE  GroupInv'
  BY <1>1 DEF ListenerReturns, First
<1>2. ASSUME NEW s \in Servers, ServerReturns(s)
      PROVE  GroupInv'
  BY <1>2 DEF ServerReturns, First
<1>3. CASE GroupReturns
  BY <1>3 DEF GroupReturns
<1> QED
  BY <1>1, <1>2, <1>3

\* GroupInv is inductive.
LEMMA GroupInvariant == Spec => []GroupInv
<1>1. Init => GroupInv
  BY GroupInit
<1>2. GroupInv /\ [Next]_vars => GroupInv'
  <2> SUFFICES ASSUME GroupInv, [Next]_vars
               PROVE  GroupInv'
    OBVIOUS
  <2>1. CASE Signal \/ Ended \/ UNCHANGED vars
    <3>1. TypeOK'
      BY <2>1 DEF Signal, Ended, vars, GroupInv, TypeOK
    <3>2. Nested'
      BY <2>1 DEF Signal, Ended, vars, GroupInv, Nested
    <3>3. Passed'
      BY <2>1 DEF Signal, Ended, vars, GroupInv, Passed
    <3> QED
      BY <3>1, <3>2, <3>3 DEF GroupInv
  <2>2. ASSUME NEW l \in Listeners, Step(l) \/ Accept(l) \/ Finish(l) \/ Fail(l)
        PROVE  GroupInv'
    BY <2>2, ListenerStep, ReturnStep DEF Step
  <2>3. CASE (\E s \in Servers : ServerReturns(s)) \/ GroupReturns
    BY <2>3, ReturnStep
  <2> QED
    BY <2>1, <2>2, <2>3 DEF Next
<1> QED
  BY <1>1, <1>2, PTL DEF Spec

\* Every variable of the group keeps its type: an error is a listener's or none,
\* and connections are counted in and out.
THEOREM TypeCorrect == Spec => []TypeOK
<1>1. GroupInv => TypeOK
  BY DEF GroupInv
<1> QED
  BY <1>1, GroupInvariant, PTL

\* The process ends only when every listener has answered all its requests.
THEOREM GroupDrains == Spec => []DrainedBeforeReturn
<1>1. GroupInv => DrainedBeforeReturn
  BY GroupAssumption DEF GroupInv, Nested, DrainedBeforeReturn, TypeOK
<1> QED
  BY <1>1, GroupInvariant, PTL

\* The group returns an error exactly when a listener has failed, and that
\* listener's.
THEOREM GroupReportsErrors == Spec => []ErrorReported
<1>1. GroupInv => ErrorReported
  <2> SUFFICES ASSUME GroupInv, gret
               PROVE  (gerr # NoError) = (failed # {}) /\ gerr \in failed \cup {NoError}
    BY DEF ErrorReported
  <2> USE GroupAssumption DEF GroupInv, TypeOK, Nested, Passed
  <2>1. ASSUME NEW l \in failed
        PROVE  gerr # NoError
    <3>1. l \in Listeners /\ ServerOf[l] \in Servers
      OBVIOUS
    <3>2. l \in lret /\ ServerOf[l] \in sret
      BY <3>1
    <3> QED
      BY <3>1, <3>2
  <2>2. gerr # NoError => failed # {}
    OBVIOUS
  <2> QED
    BY <2>1, <2>2
<1> QED
  BY <1>1, GroupInvariant, PTL
=============================================================================

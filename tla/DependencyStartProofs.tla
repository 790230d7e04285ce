------------------------ MODULE DependencyStartProofs ------------------------
(***************************************************************************)
(* Proofs about DependencyStart, for every list of services and every      *)
(* dependency graph.                                                       *)
(***************************************************************************)
EXTENDS DependencyStart, FunctionTheorems, FiniteSetTheorems, TLAPS

(* The part of the types the proof needs.                                   *)
StartTypes ==
  /\ dependencies \in [Tags -> SUBSET (Tags \cup Missing)]
  /\ pos \in Nat \ {0}
  /\ started \subseteq Tags
  /\ result \in Results

LEMMA StartTypesStep ==
  ASSUME StartTypes, [Next]_vars
  PROVE  StartTypes'
<1> USE DEF StartTypes, Results
<1>0. Size \in Nat
  BY ServicesAssumption
<1>1. InPass => Services[pos] \in Tags
  BY <1>0 DEF InPass, Tags
<1>2. CASE Skip
  BY <1>2 DEF Skip
<1>3. CASE StartOne
  BY <1>1, <1>3 DEF StartOne
<1>4. CASE StartFails
  BY <1>1, <1>4 DEF StartFails
<1>5. CASE EndPass
  BY <1>5 DEF EndPass
<1>6. CASE Lint
  BY <1>6 DEF Lint
<1>7. CASE UNCHANGED vars
  BY <1>7 DEF vars
<1> QED
  BY <1>2, <1>3, <1>4, <1>5, <1>6, <1>7 DEF Next, Step, Returned

(* The list and the set of its tags have the same size, so the count        *)
(* len(started) == len(outbounds) is reached by all of them only.           *)
LEMMA CountAll ==
  ASSUME NEW S \in SUBSET Tags, Cardinality(S) = Size
  PROVE  S = Tags
<1> DEFINE f == [i \in 1..Size |-> Services[i]]
<1>0. Size \in Nat
  BY ServicesAssumption
<1>1. f \in Bijection(1..Size, Tags)
  <2>1. f \in [1..Size -> Tags]
    BY DEF Tags
  <2>2. \A i, j \in 1..Size : f[i] = f[j] => i = j
    BY ServicesAssumption
  <2>3. \A t \in Tags : \E i \in 1..Size : f[i] = t
    BY DEF Tags
  <2> QED
    BY <2>1, <2>2, <2>3, Fun_IsBij
<1>2. IsFiniteSet(1..Size) /\ Cardinality(1..Size) = Size
  BY <1>0, FS_Interval
<1>3. ExistsBijection(1..Size, Tags)
  BY <1>1, Fun_ExistsBij
<1>4. IsFiniteSet(Tags) /\ Cardinality(Tags) = Size
  BY <1>2, <1>3, FS_Bijection
<1> QED
  BY <1>4, FS_Subset

(* At no moment does startOutbounds or startTransports have started a       *)
(* service without all of its dependencies, and theirs.                     *)
THEOREM DependenciesFirstInvariance == Spec => []DependenciesFirst
<1> USE DEF DependenciesFirst
<1>1. Init => StartTypes /\ DependenciesFirst
  BY DEF Init, StartTypes, Results
<1>2. StartTypes /\ DependenciesFirst /\ [Next]_vars => StartTypes' /\ DependenciesFirst'
  <2> SUFFICES ASSUME StartTypes, DependenciesFirst, [Next]_vars
               PROVE  DependenciesFirst'
    BY StartTypesStep
  <2>1. CASE StartOne \/ StartFails
    BY <2>1 DEF StartOne, StartFails
  <2>2. CASE Skip \/ EndPass \/ Lint \/ UNCHANGED vars
    BY <2>2 DEF Skip, EndPass, Lint, vars
  <2> QED
    BY <2>1, <2>2 DEF Next, Step, Returned
<1> QED
  BY <1>1, <1>2, PTL DEF Spec

(* Whatever the dependency graph: no pass starts a service that is in a     *)
(* circle or depends on one or on a missing tag, and success means that     *)
(* every service is started.                                                *)
THEOREM SuccessRightInvariance == Spec => []SuccessRight
<1> DEFINE Unblocked == \A S \in SUBSET Tags : Blocked(S) => S \cap started = {}
           Inv == StartTypes /\ Unblocked /\ (result = "ok" => started = Tags)
<1>1. Init => Inv
  BY DEF Init, StartTypes, Results
<1>2. Inv /\ [Next]_vars => Inv'
  <2> SUFFICES ASSUME Inv, [Next]_vars PROVE Inv'
    OBVIOUS
  <2>0. StartTypes'
    BY StartTypesStep
  <2>1. CASE StartOne \/ StartFails
    <3> DEFINE t == Services[pos]
    <3>1. /\ dependencies' = dependencies
          /\ started' = started \cup {t}
          /\ dependencies[t] \subseteq started
          /\ result' # "ok"
      BY <2>1 DEF StartOne, StartFails, InPass
    <3>2. \A S \in SUBSET Tags : Blocked(S) => t \notin S
      BY <3>1, ServicesAssumption DEF Blocked, StartTypes
    <3>3. Unblocked'
      BY <3>1, <3>2 DEF Blocked
    <3> QED
      BY <2>0, <3>1, <3>3
  <2>2. CASE EndPass
    <3>1. result' = "ok" => started = Tags
      BY <2>2, CountAll DEF EndPass, StartTypes
    <3>2. UNCHANGED <<dependencies, started>>
      BY <2>2 DEF EndPass
    <3> QED
      BY <2>0, <3>1, <3>2 DEF Blocked
  <2>3. CASE Skip \/ Lint
    BY <2>0, <2>3 DEF Skip, InPass, Lint, Blocked
  <2>4. CASE UNCHANGED vars
    BY <2>0, <2>4 DEF vars, Blocked
  <2> QED
    BY <2>1, <2>2, <2>3, <2>4 DEF Next, Step, Returned
<1>3. Inv => SuccessRight
  BY DEF StartTypes, SuccessRight, Startable
<1> QED
  BY <1>1, <1>2, <1>3, PTL DEF Spec
=============================================================================

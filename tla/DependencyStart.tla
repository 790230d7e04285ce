--------------------------- MODULE DependencyStart ---------------------------
(***************************************************************************)
(* The order in which services that depend on each other are started:      *)
(* startOutbounds of the outbound manager (src/adapter/outbound/           *)
(* manager.go), which starts the outbounds and then the endpoints, and     *)
(* startTransports of the DNS transport manager (src/dns/                  *)
(* transport_manager.go), which has no endpoints.  Passes over the list    *)
(* start what has all its dependencies; a pass that starts nothing ends in *)
(* a search for the reason (lintOutbound).                                 *)
(***************************************************************************)
EXTENDS Naturals, Sequences, FiniteSets

CONSTANTS
  Services,      \* sequence of tags: the outbounds, then the endpoints
  Missing        \* tags that name nothing

Size == Len(Services)
Tags == {Services[i] : i \in 1..Size}

ASSUME ServicesAssumption ==
  /\ Size \in Nat
  /\ \A i, j \in 1..Size : Services[i] = Services[j] => i = j
  /\ Tags \cap Missing = {}

VARIABLES
  outbounds,     \* how many of the services are outbounds, or DNS transports
  dependencies,  \* Dependencies() of each service
  pos,           \* next service of the pass
  started,       \* the map started
  canContinue,
  tree,          \* oTree: the path of the search
  result         \* what startOutbounds returned, or "pass", "search"

vars == <<outbounds, dependencies, pos, started, canContinue, tree, result>>

Known == {Services[i] : i \in 1..outbounds}     \* keys of outboundByTag

Results == {"pass", "search", "ok", "failed", "circular", "missing"}

Init ==
  /\ outbounds \in 0..Size
  /\ dependencies \in [Tags -> SUBSET (Tags \cup Missing)]
  /\ pos = 1
  /\ started = {}
  /\ canContinue = FALSE
  /\ tree = <<>>
  /\ result = "pass"
-----------------------------------------------------------------------------
InPass == result = "pass" /\ pos <= Size

(* continue startOne: it is started already, or a dependency is not.        *)
Skip ==
  /\ InPass
  /\ Services[pos] \in started \/ ~(dependencies[Services[pos]] \subseteq started)
  /\ pos' = pos + 1
  /\ UNCHANGED <<outbounds, dependencies, started, canContinue, tree, result>>

(* Mutant: the dependencies are not waited for.                             *)
MutStartOne ==
  /\ InPass
  /\ Services[pos] \notin started
  /\ started' = started \cup {Services[pos]}
  /\ canContinue' = TRUE
  /\ pos' = pos + 1
  /\ UNCHANGED <<outbounds, dependencies, tree, result>>

(* It is started, with success.                                             *)
StartOne ==
  /\ InPass
  /\ Services[pos] \notin started
  /\ dependencies[Services[pos]] \subseteq started
  /\ started' = started \cup {Services[pos]}
  /\ canContinue' = TRUE
  /\ pos' = pos + 1
  /\ UNCHANGED <<outbounds, dependencies, tree, result>>

(* Its Start returns an error, which ends the loop.                         *)
StartFails ==
  /\ InPass
  /\ Services[pos] \notin started
  /\ dependencies[Services[pos]] \subseteq started
  /\ started' = started \cup {Services[pos]}
  /\ canContinue' = TRUE
  /\ result' = "failed"
  /\ UNCHANGED <<outbounds, dependencies, pos, tree>>

(* The first service that is not started.                                   *)
FirstWaiting ==
  Services[CHOOSE i \in 1..Size :
    Services[i] \notin started /\ \A j \in 1..(i - 1) : Services[j] \in started]

(* Mutant: a pass that started nothing is followed by another one.          *)
MutEndPass ==
  /\ result = "pass" /\ pos > Size
  /\ pos' = 1 /\ canContinue' = FALSE
  /\ result' = IF Cardinality(started) = Size THEN "ok" ELSE "pass"
  /\ UNCHANGED <<outbounds, dependencies, started, tree>>

(* Mutant: a service that is started counts twice.                          *)
MutEndEarly ==
  /\ result = "pass" /\ pos > Size
  /\ pos' = 1 /\ canContinue' = FALSE
  /\ result' = IF Cardinality(started) >= Size - 1 THEN "ok"
               ELSE IF canContinue THEN "pass" ELSE "search"
  /\ tree' = IF result' = "search" THEN <<FirstWaiting>> ELSE tree
  /\ UNCHANGED <<outbounds, dependencies, started>>

(* The end of a pass: done, another pass, or the search for the problem.    *)
EndPass ==
  /\ result = "pass" /\ pos > Size
  /\ pos' = 1 /\ canContinue' = FALSE
  /\ result' = IF Cardinality(started) = Size THEN "ok"
               ELSE IF canContinue THEN "pass" ELSE "search"
  /\ tree' = IF result' = "search" THEN <<FirstWaiting>> ELSE tree
  /\ UNCHANGED <<outbounds, dependencies, started>>

Visited == {tree[i] : i \in 1..Len(tree)}

(* Mutant: a dependency that is known is taken for a circle.                *)
MutLintEager ==
  /\ result = "search"
  /\ \E problem \in dependencies[tree[Len(tree)]] \ started :
       \/ problem \in Known /\ result' = "circular"
       \/ problem \notin Known /\ result' = "missing"
  /\ UNCHANGED <<outbounds, dependencies, pos, started, canContinue, tree>>

(* lintOutbound: the first dependency that is not started (any one: the     *)
(* order of Dependencies() is arbitrary) closes a circle, has no outbound   *)
(* in outboundByTag, or is searched in turn.                                *)
Lint ==
  /\ result = "search"
  /\ \E problem \in dependencies[tree[Len(tree)]] \ started :
       \/ problem \in Visited /\ result' = "circular" /\ UNCHANGED tree
       \/ problem \notin Visited \cup Known /\ result' = "missing" /\ UNCHANGED tree
       \/ problem \in Known \ Visited /\ tree' = Append(tree, problem) /\ UNCHANGED result
  /\ UNCHANGED <<outbounds, dependencies, pos, started, canContinue>>
-----------------------------------------------------------------------------
Step == Skip \/ StartOne \/ StartFails \/ EndPass \/ Lint

(* startOutbounds has returned.                                             *)
Returned == result \notin {"pass", "search"} /\ UNCHANGED vars

Next == Step \/ Returned

Spec == Init /\ [][Next]_vars

(* The loop is a single goroutine that nothing blocks.                      *)
FairSpec == Spec /\ WF_vars(Step)
-----------------------------------------------------------------------------
TypeOK ==
  /\ outbounds \in 0..Size
  /\ dependencies \in [Tags -> SUBSET (Tags \cup Missing)]
  /\ pos \in 1..(Size + 1)
  /\ started \subseteq Tags
  /\ canContinue \in BOOLEAN
  /\ tree \in Seq(Tags) /\ Len(tree) <= Size
  /\ result \in Results

(* What is started has all its dependencies, and theirs, started before it: *)
(* at no moment does the set of started services lack a dependency.         *)
DependenciesFirst ==
  \A t \in started : dependencies[t] \subseteq started

(* A set of services is startable when each of its members can come after   *)
(* its dependencies: the largest such set, without reference to the order   *)
(* of the list.                                                             *)
Blocked(S) == \A t \in S : \E d \in dependencies[t] : d \in Missing \/ d \in S
Startable == Tags \ UNION {S \in SUBSET Tags : Blocked(S)}

(* No pass starts a service that is in a circle or depends, at any          *)
(* distance, on one or on a missing tag; success is returned only when      *)
(* every service is started.                                                *)
SuccessRight ==
  /\ started \subseteq Startable
  /\ result = "ok" => started = Tags

(* The service t is on a circle, or leads to one among the services of S.   *)
OnCircle(t) ==
  \E S \in SUBSET Tags : t \in S /\ \A u \in S : dependencies[u] \cap S # {}

(* A problem is reported only when everything startable was started and     *)
(* something is left; a circle is reported only if there is one; and        *)
(* "dependency[...] not found" (src/adapter/outbound/manager.go:151) is     *)
(* said, where there are no endpoints, only of a tag that names nothing.    *)
(* With endpoints it is also said of an endpoint that is not started, which *)
(* outboundByTag does not hold.                                             *)
ProblemRight ==
  /\ TypeOK
  /\ result \in {"circular", "missing"} => started = Startable /\ started # Tags
  /\ result = "circular" => \E t \in Tags : OnCircle(t)
  /\ outbounds = Size /\ result = "missing" =>
       \E problem \in dependencies[tree[Len(tree)]] \ started : problem \in Missing

(* The loop ends, whatever the dependencies.                                *)
StartEnds == <>(result \notin {"pass", "search"})
=============================================================================

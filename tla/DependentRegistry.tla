-------------------------- MODULE DependentRegistry --------------------------
(***************************************************************************)
(* What the outbound manager (src/adapter/outbound/manager.go) and the DNS *)
(* transport manager (src/dns/transport_manager.go) have in common: a list *)
(* and a map of services, the map dependByTag, and a default service.      *)
(* Every operation runs under the manager's lock and is one step; the      *)
(* starting of the services in the order of their dependencies is          *)
(* DependencyStart.                                                        *)
(***************************************************************************)
EXTENDS Naturals, Sequences, FiniteSets

CONSTANTS
  Tags,
  DefaultTags,     \* configured defaults, Nil for none
  MaxInstances,    \* bound on the services ever created
  MaxDependencies, \* bound on the dependencies of one service
  Nil

ASSUME RegistryAssumption ==
  /\ DefaultTags \subseteq Tags \cup {Nil} /\ Nil \notin Tags /\ Nil \notin Nat
  /\ MaxInstances \in Nat /\ MaxDependencies \in Nat

Instances == 1..MaxInstances

(* The services that are created.                                           *)
MayDepend(new) == new.tag \notin new.deps /\ Cardinality(new.deps) <= MaxDependencies

VARIABLES
  defaultTag,  \* m.defaultTag
  made,        \* services created so far: tag, dependencies and kind
  list,        \* m.outbounds, m.transports
  byTag,       \* outboundByTag, transportByTag
  dependBy,    \* dependByTag: of each tag, the services that named it
  default,     \* defaultOutbound, defaultTransport
  started, stage,
  life,        \* of each service: "new", "running" or "closed"
  ended,       \* "open"; then "failed" after a failed Start, or "closed"
  panicked,
  refused,     \* services whose Remove returned an error
  orphans      \* services that a Create which returned an error left running

vars == <<made, list, byTag, dependBy, default, started, stage, life, ended, panicked,
          refused, orphans>>

Listed == {list[i] : i \in 1..Len(list)}
Lives == {"new", "running", "closed"}

RegistryInit ==
  /\ defaultTag \in DefaultTags
  /\ made = <<>>
  /\ list = <<>>
  /\ byTag = [t \in Tags |-> Nil]
  /\ dependBy = [t \in Tags |-> {}]
  /\ default = Nil
  /\ started = FALSE /\ stage = 0
  /\ life = [i \in Instances |-> "new"]
  /\ ended = "open"
  /\ panicked = FALSE
  /\ refused = {}
  /\ orphans = {}
-----------------------------------------------------------------------------
(* The box creates the services before it starts them; an embedder calls    *)
(* Create and Remove when Start has returned.                               *)
Idle == ended # "failed" /\ ~panicked /\ (started => stage = 3)

Drop(i) == SelectSeq(list, LAMBDA j : j # i)

(* Mutant: a dependency named once more is forgotten with the first.        *)
MutUnlink(i) ==
  [t \in Tags |-> IF t \in made[i].deps THEN {} ELSE dependBy[t]]

(* dependByTag without the service i: an entry of one element is deleted,   *)
(* from a longer one every element with the tag of i is filtered.           *)
Unlink(i) ==
  [t \in Tags |->
     IF t \notin made[i].deps THEN dependBy[t]
     ELSE IF Cardinality(dependBy[t]) = 1 THEN {}
     ELSE {j \in dependBy[t] : made[j].tag # made[i].tag}]

(* dependByTag with the new service i.                                      *)
Link(i, deps) ==
  [t \in Tags |-> IF t \in deps THEN dependBy[t] \cup {i} ELSE dependBy[t]]

(* Mutant: the removed service is not closed.                               *)
MutCloseIfStarted(i) == life' = IF i \in Listed THEN life ELSE [life EXCEPT ![i] = "closed"]

CloseIfStarted(i) ==
  life' = IF started THEN [life EXCEPT ![i] = "closed"] ELSE life

Unregister(tag) ==
  /\ byTag' = [byTag EXCEPT ![tag] = Nil]
  /\ list' = Drop(byTag[tag])

(* Remove of a tag in the map that is not in the list panics.               *)
RemovePanics(tag) ==
  /\ byTag[tag] # Nil /\ byTag[tag] \notin Listed
  /\ panicked' = TRUE
  /\ byTag' = [byTag EXCEPT ![tag] = Nil]
  /\ UNCHANGED <<made, list, dependBy, default, started, stage, life, ended, refused, orphans>>

(* A service was started, and its Create returns an error: it runs, and     *)
(* nothing is kept of it, not even its dependencies.                        *)
Abandon(new) ==
  /\ made' = Append(made, [new EXCEPT !.deps = {}])
  /\ life' = [life EXCEPT ![Len(made) + 1] = "running"]
  /\ orphans' = orphans \cup {Len(made) + 1}

(* Create builds the service and, in a manager that has started, starts it  *)
(* stage by stage.  A later stage fails: nothing is registered, and what    *)
(* the earlier ones have started runs on.  (When the first one fails, Create*)
(* changes nothing.)                                                        *)
CreateStartFails(new) ==
  /\ started
  /\ Abandon(new)
  /\ UNCHANGED <<list, byTag, dependBy, default, started, stage, ended, panicked, refused>>

(* The service it would replace is closed with an error: the new one runs,  *)
(* and the old one stays registered.                                        *)
CreateCloseFails(new) ==
  /\ started /\ byTag[new.tag] # Nil
  /\ made' = Append(made, new)
  /\ life' = [life EXCEPT ![Len(made) + 1] = "running", ![byTag[new.tag]] = "closed"]
  /\ orphans' = orphans \cup {Len(made) + 1}
  /\ UNCHANGED <<list, byTag, dependBy, default, started, stage, ended, panicked, refused>>

(* The service it replaces is in the map and not in the list: panic.        *)
CreatePanics(new) ==
  /\ byTag[new.tag] # Nil /\ byTag[new.tag] \notin Listed
  /\ made' = Append(made, new)
  /\ panicked' = TRUE
  /\ life' = IF started
             THEN [life EXCEPT ![Len(made) + 1] = "running", ![byTag[new.tag]] = "closed"]
             ELSE life
  /\ UNCHANGED <<list, byTag, dependBy, default, started, stage, ended, refused, orphans>>

(* Mutant: the service that is replaced stays in the list.                  *)
MutRegister(new) ==
  LET i == Len(made) + 1  exists == byTag[new.tag] IN
  /\ exists = Nil \/ exists \in Listed
  /\ made' = Append(made, new)
  /\ list' = Append(list, i)
  /\ byTag' = [byTag EXCEPT ![new.tag] = i]
  /\ dependBy' = Link(i, new.deps)
  /\ life' = [j \in Instances |-> IF ~started THEN life[j]
                                  ELSE IF j = i THEN "running"
                                  ELSE IF j = exists THEN "closed" ELSE life[j]]

(* The new service replaces the one of the same tag, if any.                *)
Register(new) ==
  LET i == Len(made) + 1  exists == byTag[new.tag] IN
  /\ exists = Nil \/ exists \in Listed
  /\ made' = Append(made, new)
  /\ list' = Append(Drop(exists), i)
  /\ byTag' = [byTag EXCEPT ![new.tag] = i]
  /\ dependBy' = Link(i, new.deps)
  /\ life' = [j \in Instances |-> IF ~started THEN life[j]
                                  ELSE IF j = i THEN "running"
                                  ELSE IF j = exists THEN "closed" ELSE life[j]]

(* Close closes the listed services and forgets the list, not the map.  (It *)
(* leaves m.stage alone, which is read only in a manager that has started.) *)
Close ==
  /\ started
  /\ started' = FALSE /\ stage' = 0
  /\ list' = <<>>
  /\ life' = [i \in Instances |-> IF i \in Listed THEN "closed" ELSE life[i]]
  /\ ended' = "closed"
  /\ UNCHANGED <<made, byTag, dependBy, default, panicked, refused, orphans>>

(* The services of the list can be started in some order.                   *)
CanStart(S) ==
  LET tags(T) == {made[i].tag : i \in T} IN
  \A T \in SUBSET S \ {{}} :
    \E i \in T : made[i].deps \subseteq tags(S) /\ made[i].deps \cap tags(T) = {}

(* The box calls Start for one stage after the other; a second call for a   *)
(* stage would panic, "already started".                                    *)
MayStart == ended = "open" /\ ~panicked /\ (started => stage < 3)

(* Start of one stage runs the services of S, or fails after some of them.  *)
StartServices(S) ==
  \/ /\ stage' # 1 \/ CanStart(S)
     /\ life' = [i \in Instances |-> IF i \in S THEN "running" ELSE life[i]]
     /\ UNCHANGED ended
  \/ \E R \in SUBSET S :
       /\ life' = [i \in Instances |-> IF i \in R THEN "running" ELSE life[i]]
       /\ ended' = "failed"
-----------------------------------------------------------------------------
RegistryTypeOK ==
  /\ defaultTag \in DefaultTags
  /\ made \in Seq([tag : Tags, deps : SUBSET Tags, fakeip : BOOLEAN])
  /\ Len(made) <= MaxInstances
  /\ Listed \subseteq 1..Len(made)
  /\ byTag \in [Tags -> Instances \cup {Nil}]
  /\ dependBy \in [Tags -> SUBSET Instances]
  /\ started \in BOOLEAN /\ stage \in 0..3
  /\ life \in [Instances -> Lives]
  /\ ended \in {"open", "failed", "closed"}
  /\ panicked \in BOOLEAN
  /\ refused \subseteq Instances /\ orphans \subseteq Instances

(* The list and the map hold the same services, each once, until Close      *)
(* forgets the list: "invalid inbound index" is only reached by a Create or *)
(* Remove that comes after Close.                                           *)
ListMatchesTags ==
  /\ RegistryTypeOK
  /\ panicked => ended = "closed"
  /\ ended # "closed" =>
       Listed = {byTag[t] : t \in Tags} \ {Nil} /\ Len(list) = Cardinality(Listed)

(* Remove can refuse every tag another registered service depends on: each  *)
(* dependency of a registered service has it in dependByTag, whatever was   *)
(* replaced, removed or refused before.                                     *)
DependenciesRecorded ==
  \A t \in Tags : byTag[t] # Nil =>
    \A d \in made[byTag[t]].deps : byTag[t] \in dependBy[d]
=============================================================================

-------------------------- MODULE OutboundManager --------------------------
(***************************************************************************)
(* The outbound manager (src/adapter/outbound/manager.go).  Create reads   *)
(* m.started and starts the outbound before it takes the lock, so another  *)
(* call can come between the two halves.                                   *)
(***************************************************************************)
EXTENDS DependentRegistry

CONSTANTS
  DirectTag,     \* the tag of the fallback outbound, "direct"
  Endpoint       \* an endpoint that the endpoint manager has for defaultTag

VARIABLE pending       \* the first half of a Create: the outbound, and if it runs

Init == RegistryInit /\ pending = Nil

(* Start: at the stage Start the default is looked up, also among the       *)
(* endpoints, or falls back to a direct outbound.                           *)
Start ==
  /\ MayStart
  /\ started' = TRUE
  /\ stage' = IF started THEN stage + 1 ELSE 0
  /\ \/ /\ stage' # 1 \/ default # Nil
        /\ StartServices(Listed)
        /\ UNCHANGED <<made, list, byTag, default>>
     \/ /\ stage' = 1 /\ default = Nil /\ defaultTag # Nil
        /\ default' = Endpoint
        /\ StartServices(Listed)
        /\ UNCHANGED <<made, list, byTag>>
     \/ /\ stage' = 1 /\ default = Nil /\ defaultTag # Nil
        /\ ended' = "failed"
        /\ UNCHANGED <<made, list, byTag, default, life>>
     \/ /\ stage' = 1 /\ default = Nil /\ defaultTag = Nil
        /\ Len(made) < MaxInstances
        /\ made' = Append(made, [tag |-> DirectTag, deps |-> {}, fakeip |-> FALSE])
        /\ list' = Append(list, Len(made'))
        /\ byTag' = [byTag EXCEPT ![DirectTag] = Len(made')]
        /\ default' = Len(made')
        /\ \/ life' = [life EXCEPT ![Len(made')] = "running"] /\ UNCHANGED ended
           \/ ended' = "failed" /\ UNCHANGED life
  /\ UNCHANGED <<dependBy, panicked, refused, orphans, pending>>

(* Create up to the lock: the outbound is built and, in a started manager,  *)
(* started.  When a stage of that fails Create returns, and what the        *)
(* earlier stages have started runs on.                                     *)
CreateBegin(new) ==
  /\ ended # "failed" /\ ~panicked /\ pending = Nil
  /\ Len(made) < MaxInstances
  /\ pending' = [new |-> new, ran |-> started]
  /\ UNCHANGED vars

CreateFails ==
  /\ pending # Nil /\ pending.ran
  /\ pending' = Nil
  /\ \/ UNCHANGED vars
     \/ /\ Len(made) < MaxInstances
        /\ Abandon(pending.new)
        /\ UNCHANGED <<list, byTag, dependBy, default, started, stage, ended, panicked, refused>>

(* Mutant: the first outbound stays the default.                            *)
MutSettle(new) ==
  default' = IF default = Nil /\ defaultTag \in {new.tag, Nil} THEN Len(made) + 1 ELSE default

Settle(new) ==
  default' = IF new.tag = defaultTag \/ (defaultTag = Nil /\ default = Nil)
             THEN Len(made) + 1 ELSE default

(* The rest, under the lock.  The outbound runs if the first half found the *)
(* manager started; the one it replaces is closed if it is started now.     *)
CreateCommit ==
  /\ pending # Nil /\ ~panicked /\ Len(made) < MaxInstances
  /\ LET new == pending.new  i == Len(made) + 1  exists == byTag[pending.new.tag]
         runs == IF pending.ran THEN [life EXCEPT ![i] = "running"] ELSE life IN
     /\ made' = Append(made, new)
     /\ life' = IF exists # Nil /\ started THEN [runs EXCEPT ![exists] = "closed"] ELSE runs
     /\ \/ /\ exists # Nil /\ started                \* closing the old one fails
           /\ orphans' = orphans \cup {i}
           /\ UNCHANGED <<list, byTag, dependBy, default, panicked>>
        \/ /\ exists # Nil /\ exists \notin Listed   \* invalid inbound index
           /\ panicked' = TRUE
           /\ UNCHANGED <<list, byTag, dependBy, default, orphans>>
        \/ /\ exists = Nil \/ exists \in Listed
           /\ list' = Append(Drop(exists), i)
           /\ byTag' = [byTag EXCEPT ![new.tag] = i]
           /\ dependBy' = Link(i, new.deps)
           /\ Settle(new)
           /\ UNCHANGED <<panicked, orphans>>
  /\ pending' = Nil
  /\ UNCHANGED <<started, stage, ended, refused>>

(* Remove of the default makes the first outbound that is left the default; *)
(* a removal that is refused because of dependByTag comes after that.       *)
Remove(tag) ==
  LET i == byTag[tag] IN
  /\ ended # "failed" /\ ~panicked /\ i # Nil
  /\ \/ RemovePanics(tag)
     \/ /\ i \in Listed
        /\ Unregister(tag)
        /\ default' = IF default # i THEN default ELSE IF list' = <<>> THEN Nil ELSE list'[1]
        /\ IF dependBy[tag] # {}
           THEN refused' = refused \cup {i} /\ UNCHANGED <<dependBy, life>>
           ELSE dependBy' = Unlink(i) /\ CloseIfStarted(i) /\ UNCHANGED refused
        /\ UNCHANGED <<made, started, stage, ended, panicked, orphans>>
  /\ UNCHANGED pending
-----------------------------------------------------------------------------
New == {new \in [tag : Tags, deps : SUBSET Tags, fakeip : {FALSE}] : MayDepend(new)}

Next ==
  /\ \/ Start
     \/ \E new \in New : CreateBegin(new)
     \/ CreateFails
     \/ CreateCommit
     \/ \E tag \in Tags : Remove(tag)
     \/ Close /\ UNCHANGED pending
  /\ UNCHANGED defaultTag

Spec == Init /\ [][Next]_<<vars, defaultTag, pending>>
-----------------------------------------------------------------------------
(* The outbound that `final` names is the default whenever it is            *)
(* registered: also when it is replaced, or was removed and is created      *)
(* again, whatever comes between the halves of Create.                      *)
FinalIsDefault ==
  defaultTag # Nil => LET final == byTag[defaultTag] IN final # Nil => default = final
=============================================================================

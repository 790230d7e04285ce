-------------------------- MODULE TransportManager --------------------------
(***************************************************************************)
(* The DNS transport manager (src/dns/transport_manager.go).               *)
(***************************************************************************)
EXTENDS DependentRegistry

CONSTANT LocalTag      \* the tag of the fallback transport, "local"

VARIABLE fakeIP        \* m.fakeIPTransport

Init == RegistryInit /\ fakeIP = Nil

(* Start: at the stage Start the default is looked up, or falls back to a   *)
(* local transport.                                                         *)
Start ==
  /\ MayStart
  /\ started' = TRUE
  /\ stage' = IF started THEN stage + 1 ELSE 0
  /\ \/ /\ stage' # 1 \/ default # Nil
        /\ StartServices(Listed)
        /\ UNCHANGED <<made, list, byTag, default>>
     \/ /\ stage' = 1 /\ default = Nil /\ defaultTag # Nil
        /\ ended' = "failed"
        /\ UNCHANGED <<made, list, byTag, default, life>>
     \/ /\ stage' = 1 /\ default = Nil /\ defaultTag = Nil
        /\ Len(made) < MaxInstances
        /\ made' = Append(made, [tag |-> LocalTag, deps |-> {}, fakeip |-> FALSE])
        /\ list' = Append(list, Len(made'))
        /\ byTag' = [byTag EXCEPT ![LocalTag] = Len(made')]
        /\ default' = Len(made')
        /\ \/ life' = [i \in Instances |->
                         IF i \in Listed \cup {Len(made')} THEN "running" ELSE life[i]]
              /\ UNCHANGED ended
           \/ ended' = "failed" /\ UNCHANGED life
  /\ UNCHANGED <<dependBy, panicked, refused, orphans, fakeIP>>

(* The end of Create, with the transport in the list already: a FakeIP      *)
(* transport that would be the default, or that is the second one, is an    *)
(* error.                                                                   *)
Settle(new) ==
  LET i == Len(made) + 1
      isDefault == new.tag = defaultTag \/ (defaultTag = Nil /\ default = Nil)
      error == new.fakeip /\ (isDefault \/ fakeIP # Nil) IN
  /\ default' = IF isDefault /\ ~new.fakeip THEN i ELSE default
  /\ fakeIP' = IF new.fakeip /\ ~error THEN i ELSE fakeIP
  /\ ended' = IF error /\ ~started /\ ended = "open" THEN "failed" ELSE ended

Create(new) ==
  /\ Idle /\ Len(made) < MaxInstances
  /\ \/ CreateStartFails(new) /\ UNCHANGED fakeIP
     \/ CreateCloseFails(new) /\ UNCHANGED fakeIP
     \/ CreatePanics(new) /\ UNCHANGED fakeIP
     \/ /\ Register(new)
        /\ Settle(new)
        /\ UNCHANGED <<started, stage, panicked, refused, orphans>>

(* Remove of the default transport: the first that is left becomes the      *)
(* default if it is a FakeIP transport, and is an error otherwise.          *)
NextRefused(i) == default = i /\ list' # <<>> /\ ~made[list'[1]].fakeip
NextDefault(i) ==
  IF default # i THEN default ELSE IF list' = <<>> THEN Nil ELSE list'[1]

Remove(tag) ==
  LET i == byTag[tag] IN
  /\ Idle /\ i # Nil
  /\ \/ RemovePanics(tag)
     \/ /\ i \in Listed
        /\ Unregister(tag)
        /\ default' = IF NextRefused(i) THEN default ELSE NextDefault(i)
        /\ IF NextRefused(i) \/ dependBy[tag] # {}
           THEN refused' = refused \cup {i} /\ UNCHANGED <<dependBy, life>>
           ELSE dependBy' = Unlink(i) /\ CloseIfStarted(i) /\ UNCHANGED refused
        /\ UNCHANGED <<made, started, stage, ended, panicked, orphans>>
  /\ UNCHANGED fakeIP
-----------------------------------------------------------------------------
(* A FakeIP transport has no dependencies.                                  *)
New == {new \in [tag : Tags, deps : SUBSET Tags, fakeip : BOOLEAN] :
          MayDepend(new) /\ (new.fakeip => new.deps = {})}

Next ==
  /\ \/ Start
     \/ \E new \in New : Create(new)
     \/ \E tag \in Tags : Remove(tag)
     \/ Close /\ UNCHANGED fakeIP
  /\ UNCHANGED defaultTag

Spec == Init /\ [][Next]_<<vars, defaultTag, fakeIP>>
-----------------------------------------------------------------------------
(* A service runs outside the list, where Close does not reach it, only     *)
(* when the Remove or the Create that put it there returned an error: no    *)
(* sequence of calls that succeed leaves one behind.                        *)
RunningIsListed ==
  ~panicked => \A i \in Instances :
    life[i] = "running" => i \in Listed \cup refused \cup orphans

(* The server that `final` names is the default whenever it is registered   *)
(* and no FakeIP server: also when it is replaced, or was removed and is    *)
(* created again.                                                           *)
FinalIsDefault ==
  defaultTag # Nil /\ ended # "failed" =>
    LET final == byTag[defaultTag] IN
    final # Nil => made[final].fakeip \/ default = final

(* A transport is never the default if it is a FakeIP transport:            *)
(* "the default DNS server can no longer be `fakeip`"                       *)
(* (src/docs/changelog.md:1788), "default server cannot be fakeip"          *)
(* (src/dns/transport_manager.go:217).                                      *)
DefaultNotFakeIP ==
  default # Nil => ~made[default].fakeip
=============================================================================

----------------------------- MODULE MCManagers -----------------------------
(* The two managers over the registry they share, one of them at a time:    *)
(* they have no state in common.                                            *)
EXTENDS DependentRegistry, TLC

CONSTANTS FallbackTag, Endpoint, a, b

(* Nothing but the default tells two tags apart.                            *)
Symmetry == Permutations({a, b})

ASSUME EndpointAssumption == Endpoint \notin Nat /\ Endpoint # Nil

VARIABLES kind, fakeIP, pending

T == INSTANCE TransportManager WITH LocalTag <- FallbackTag
O == INSTANCE OutboundManager WITH DirectTag <- FallbackTag

Init ==
  /\ kind \in {"transport", "outbound"}
  /\ T!Init
  /\ O!Init

Next ==
  \/ kind = "transport" /\ T!Next /\ UNCHANGED <<kind, pending>>
  \/ kind = "outbound" /\ O!Next /\ UNCHANGED <<kind, fakeIP>>

Spec == Init /\ [][Next]_<<vars, defaultTag, kind, fakeIP, pending>>
-----------------------------------------------------------------------------
(* FinalIsDefault of either manager: what `final` names is the default      *)
(* whenever it is registered.                                               *)
FinalIsDefault ==
  IF kind = "transport" THEN T!FinalIsDefault ELSE O!FinalIsDefault

(* RunningIsListed of the DNS transport manager.                            *)
RunningIsListed == kind = "transport" => T!RunningIsListed
=============================================================================

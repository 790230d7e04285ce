------------------------- MODULE MCURLTestSelection -------------------------
(* Two members, one of which may be a group whose real tag changes.         *)
EXTENDS URLTestSelection

CONSTANTS m1, g

MCOutbounds == <<m1, g>>

Networked(networks) == [m \in {m1, g} |-> IF m = m1 THEN networks ELSE Networks]

(* One member without UDP, and delays on both sides of the tolerance; both  *)
(* with UDP, and dials that fail or are interrupted; and the delays that    *)
(* are special: 0, and one whose sum with the tolerance exceeds 16 bits.    *)
MCConfigs ==
  {[supports |-> Networked({"tcp"}), delays |-> {10, 60, 61}, interrupt |-> FALSE,
    groups |-> {g}, dialers |-> {}],
   [supports |-> Networked(Networks), delays |-> {10}, interrupt |-> FALSE,
    groups |-> {g}, dialers |-> Dialers],
   [supports |-> Networked(Networks), delays |-> {10}, interrupt |-> TRUE,
    groups |-> {}, dialers |-> Dialers],
   [supports |-> Networked(Networks), delays |-> {0, 65500}, interrupt |-> FALSE,
    groups |-> {g}, dialers |-> {}]}
=============================================================================

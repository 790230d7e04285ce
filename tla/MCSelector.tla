----------------------------- MODULE MCSelector -----------------------------
(* Configurations for model checking: with a default and without one, an    *)
(* option removed or renamed between two runs of the program, inbound       *)
(* connections interrupted or left alone.                                   *)
EXTENDS Selector

CONSTANTS a, b, c

SwitchingConfigs ==
  {[tags |-> <<a, b>>, default |-> b, interrupt |-> FALSE],
   [tags |-> <<b, c>>, default |-> NoTag, interrupt |-> TRUE],
   [tags |-> <<c>>, default |-> a, interrupt |-> FALSE]}
=============================================================================

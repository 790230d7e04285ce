----------------------------- MODULE MCDNSClient -----------------------------
EXTENDS DNSClient

CONSTANTS a, b, query, server, other, g1, g2, g3

NoResolver == [x \in {a, b} |-> Nil]

(* Transport a reaches its server over the transport t.                     *)
Through(t) == [NoResolver EXCEPT ![a] = [question |-> server, transport |-> t]]

(* Each of two transports reaches its server over the other one.            *)
Mutual == [Through(b) EXCEPT ![b] = [question |-> other, transport |-> a]]

Plain(resolver, independent) ==
  [independent |-> independent, resolver |-> resolver, kinds |-> {"near", "error"},
   routes |-> {<<a, Nil>>, <<b, Nil>>}, cachings |-> {TRUE}, callers |-> {g1, g2}]

Filtering(routes, independent) ==
  [independent |-> independent, resolver |-> NoResolver, kinds |-> AllKinds,
   routes |-> routes, cachings |-> {TRUE}, callers |-> {g1, g2}]

(* One cache, and a transport that the loopback test must stop; independent *)
(* caches, and a chain of two transports; independent caches, and a rule    *)
(* with an address filter before the default route; one cache that two      *)
(* filters share, and queries that by-pass it; three exchanges of one       *)
(* question.                                                                *)
MCConfigs ==
  {Plain(Through(a), FALSE),
   Plain(Through(b), TRUE),
   Filtering({<<a, {"near"}>>, <<b, Nil>>}, TRUE),
   [Filtering({<<a, {"near"}>>, <<a, {"far"}>>}, FALSE) EXCEPT !.cachings = BOOLEAN],
   [Plain(NoResolver, FALSE) EXCEPT !.routes = {<<b, Nil>>}, !.callers = {g1, g2, g3}]}

(* The name of the server that a reaches over b is itself asked for; a      *)
(* chain of transports that returns to its beginning.                       *)
ChainConfigs == {Plain(Through(b), FALSE), Plain(Mutual, FALSE)}
==============================================================================

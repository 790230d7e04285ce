------------------------------ MODULE DNSClient ------------------------------
(***************************************************************************)
(* The DNS client (src/dns/client.go): exchanges of concurrent goroutines  *)
(* over one response cache, with a lock per question, the rejected         *)
(* response cache (RDRC) and the loopback test.                            *)
(*                                                                         *)
(* A transport may have to resolve the name of its own server: it then     *)
(* calls the client again while the outer Exchange waits (common/dialer/   *)
(* resolve.go, Router.Lookup).  A goroutine is therefore a stack of        *)
(* frames, one for each Exchange in progress; the last one runs.           *)
(***************************************************************************)
EXTENDS Naturals, Sequences, FiniteSets

CONSTANTS
  Goroutines,
  Questions,
  Asked,         \* questions that arrive from outside
  Transports,
  Configs,       \* configurations and environments, see ConfigsAssumption
  MaxDepth,      \* bound: nested exchanges
  Nil

(* What a transport returns: addresses of one of two sorts, which address   *)
(* filters tell apart, no such name, another rcode, an error.               *)
Addresses == {"near", "far"}
AllKinds == Addresses \cup {"nxdomain", "failure", "error"}

(* The response checker of a rule is the set of addresses it accepts; a     *)
(* rule without an address filter and the default route have none, Nil.     *)
Checkers == SUBSET Addresses \cup {Nil}

ASSUME QuestionAssumption == Asked \subseteq Questions
ASSUME TransportAssumption == Nil \notin Transports /\ Nil \notin Goroutines
ASSUME BoundAssumption == MaxDepth \in Nat \ {0}

(* independent: the independent_cache option.  resolver: the question each  *)
(* transport asks to find its server, and over which one, or Nil.  kinds:   *)
(* what the transports return.  routes: where the rules send queries.       *)
(* cachings: whether queries use the cache.  callers: who asks.             *)
ASSUME ConfigsAssumption ==
  \A c \in Configs :
    /\ c.independent \in BOOLEAN
    /\ c.resolver \in
         [Transports -> [question : Questions, transport : Transports] \cup {Nil}]
    /\ c.kinds \subseteq AllKinds
    /\ c.routes \subseteq Transports \X Checkers
    /\ c.cachings \subseteq BOOLEAN /\ c.callers \subseteq Goroutines

VARIABLES
  config,   \* one of Configs
  stack,    \* frames of each goroutine
  lock,     \* cacheLock or transportCacheLock: owner of each question's channel
  cache,    \* cache or transportCache
  rdrc      \* what LoadRDRC reports rejected

vars == <<config, stack, lock, cache, rdrc>>

Owners == Goroutines \X (1..MaxDepth)
Results == [kind : AllKinds \cup {"loopback", "rejected"}, from : Transports] \cup {Nil}

(* at: the next step of Exchange.  cond: the owner of the channel it waits  *)
(* for.  ctx: the transport tag of its context.  answered: the lock it      *)
(* waited for was released with a response in the cache.                    *)
Frames ==
  [question : Questions, transport : Transports, checker : Checkers, caching : BOOLEAN,
   ctx : Transports \cup {Nil},
   at : {"lookup", "lock", "wait", "load", "test", "exchange", "nested",
         "connected", "unlock", "close"},
   holds : BOOLEAN, cond : Owners \cup {Nil}, answered : BOOLEAN, result : Results]

Frame(q, t, checker, caching, ctx, at) ==
  [question |-> q, transport |-> t, checker |-> checker, caching |-> caching,
   ctx |-> ctx, at |-> at, holds |-> FALSE, cond |-> Nil, answered |-> FALSE,
   result |-> Nil]

Depth(g) == Len(stack[g])
Top(g) == stack[g][Depth(g)]
Me(g) == <<g, Depth(g)>>
Running(g, at) == stack[g] # <<>> /\ Top(g).at = at

(* The running frame of g continues as f.                                   *)
Continue(g, f) == stack' = [stack EXCEPT ![g] = [@ EXCEPT ![Depth(g)] = f]]
Return(g, result) == Continue(g, [Top(g) EXCEPT !.at = "unlock", !.result = result])

(* Mutant: independent caches share their entries.                          *)
MutCacheKey(q, t) == <<q, Nil>>

(* The key of the cache, or of the transportCache.                          *)
CacheKey(q, t) == <<q, IF config.independent THEN t ELSE Nil>>
CacheKeys == {CacheKey(q, t) : q \in Questions, t \in Transports}

Init ==
  /\ config \in Configs
  /\ stack = [g \in Goroutines |-> <<>>]
  /\ lock = [q \in Questions |-> Nil]
  /\ cache = [k \in CacheKeys |-> Nil]
  /\ rdrc = {}
-----------------------------------------------------------------------------
Enter(caching) == IF caching THEN "lock" ELSE "test"

(* A query from outside, along the route of the rule that it matches; one   *)
(* cache for all is looked at before the rules are.  caching is FALSE for a *)
(* query that is not simple or whose options disable the cache.             *)
Call(g, q, route, caching) ==
  /\ stack[g] = <<>>
  /\ g \in config.callers
  /\ stack' = [stack EXCEPT ![g] =
       <<Frame(q, route[1], route[2], caching, Nil,
               IF config.independent THEN Enter(caching) ELSE "lookup")>>]
  /\ UNCHANGED <<config, lock, cache, rdrc>>

(* Router.Exchange (ExchangeCache) and lookupToExchange look in the cache   *)
(* before they call Exchange.                                               *)
Lookup(g) ==
  LET f == Top(g)
      cached == cache[CacheKey(f.question, f.transport)]
  IN  /\ Running(g, "lookup")
      /\ IF cached # Nil
         THEN Return(g, cached)
         ELSE Continue(g, [f EXCEPT !.at = Enter(f.caching)])
      /\ UNCHANGED <<config, lock, cache, rdrc>>

(* Mutant: LoadOrStore is a Load and a Store of nothing that others see.    *)
MutLock(g) ==
  /\ Running(g, "lock")
  /\ lock' = [lock EXCEPT ![Top(g).question] = Me(g)]
  /\ Continue(g, [Top(g) EXCEPT !.at = "load", !.holds = TRUE])
  /\ UNCHANGED <<config, cache, rdrc>>

(* LoadOrStore: take the question's lock, or wait for the channel of the    *)
(* exchange that has it.                                                    *)
Lock(g) ==
  LET f == Top(g)
      owner == lock[f.question]
  IN  /\ Running(g, "lock")
      /\ IF owner = Nil
         THEN /\ lock' = [lock EXCEPT ![f.question] = Me(g)]
              /\ Continue(g, [f EXCEPT !.at = "load", !.holds = TRUE])
         ELSE /\ Continue(g, [f EXCEPT !.at = "wait", !.cond = owner])
              /\ UNCHANGED lock
      /\ UNCHANGED <<config, cache, rdrc>>

(* loadResponse, by the owner and by those that waited for it alike.        *)
Load(g) ==
  LET f == Top(g)
      cached == cache[CacheKey(f.question, f.transport)]
  IN  /\ Running(g, "load")
      /\ IF cached # Nil
         THEN Return(g, cached)
         ELSE Continue(g, [f EXCEPT !.at = "test"])
      /\ UNCHANGED <<config, lock, cache, rdrc>>

(* The loopback test, then the rejected response cache.                     *)
Test(g) ==
  LET f == Top(g)
  IN  /\ Running(g, "test")
      /\ IF f.ctx = f.transport
         THEN Return(g, [kind |-> "loopback", from |-> f.ctx])
         ELSE IF f.caching /\ f.checker # Nil /\ <<f.transport, f.question>> \in rdrc
         THEN Return(g, [kind |-> "rejected", from |-> f.transport])
         ELSE Continue(g, [f EXCEPT !.at = "exchange"])
      /\ UNCHANGED <<config, lock, cache, rdrc>>

(* The transport has no connection and resolves the name of its server.     *)
Resolve(g) ==
  LET f == Top(g)
      r == config.resolver[f.transport]
  IN  /\ Running(g, "exchange")
      /\ r # Nil
      /\ Depth(g) < MaxDepth
      /\ stack' = [stack EXCEPT ![g] =
           Append([@ EXCEPT ![Depth(g)] = [f EXCEPT !.at = "nested"]],
                  Frame(r.question, r.transport, Nil, TRUE, f.transport, "lookup"))]
      /\ UNCHANGED <<config, lock, cache, rdrc>>
-----------------------------------------------------------------------------
(* disableCache after the response is known.                                *)
Cacheable(f, kind) == f.caching /\ kind \in Addresses \cup {"nxdomain"}

(* Each rule judges a response by its own filter, and refuses one that has  *)
(* no addresses.                                                            *)
Rejected(f, kind) == f.checker # Nil /\ kind \notin f.checker


(* storeCache is reached, with a time to live.                              *)
Stored(f, kind, ttl) == Cacheable(f, kind) /\ ~Rejected(f, kind) /\ ttl > 0

(* The transport returns; ttl 0 stands for a response that must not be      *)
(* kept.  The deferred unlocking follows.                                   *)
Reply(g, kind, ttl) ==
  LET f == Top(g)
      result == [kind |-> kind, from |-> f.transport]
      rejected == kind # "error" /\ Rejected(f, kind)
  IN  /\ Running(g, "exchange") \/ Running(g, "connected")
      /\ cache' = IF Stored(f, kind, ttl)
                  THEN [cache EXCEPT ![CacheKey(f.question, f.transport)] = result]
                  ELSE cache
      /\ rdrc' = IF rejected /\ Cacheable(f, kind)
                 THEN rdrc \cup {<<f.transport, f.question>>} ELSE rdrc
      /\ Return(g, IF rejected THEN [result EXCEPT !.kind = "rejected"] ELSE result)
      /\ UNCHANGED <<config, lock>>

(* Mutant: the owner leaves the lock in the map.                            *)
MutUnlock(g) ==
  /\ Running(g, "unlock")
  /\ Continue(g, [Top(g) EXCEPT !.at = "close"])
  /\ UNCHANGED <<config, lock, cache, rdrc>>

(* The deferred function of the owner: the lock leaves the map, then its    *)
(* channel is closed.                                                       *)
Unlock(g) ==
  LET f == Top(g)
  IN  /\ Running(g, "unlock")
      /\ lock' = IF f.holds THEN [lock EXCEPT ![f.question] = Nil] ELSE lock
      /\ Continue(g, [f EXCEPT !.at = "close"])
      /\ UNCHANGED <<config, cache, rdrc>>

Answered(f) == cache[CacheKey(f.question, f.transport)] # Nil

(* Mutant: a waiter has looked in the cache before it waited.               *)
MutWoken(f, owner) ==
  IF f.at = "wait" /\ f.cond = owner
  THEN [f EXCEPT !.at = "test", !.cond = Nil, !.answered = Answered(f)] ELSE f

Woken(f, owner) ==
  IF f.at = "wait" /\ f.cond = owner
  THEN [f EXCEPT !.at = "load", !.cond = Nil, !.answered = Answered(f)] ELSE f

(* The caller of a nested exchange has its address, or fails with it.       *)
Resumed(f, result) ==
  IF result.kind \in Addresses
  THEN [f EXCEPT !.at = "connected"]
  ELSE [f EXCEPT !.at = "unlock", !.result = [kind |-> "error", from |-> f.transport]]

(* close(cond) wakes every waiter, and Exchange returns.                    *)
Close(g) ==
  LET f == Top(g)
      rest == SubSeq(stack[g], 1, Depth(g) - 1)
  IN  /\ Running(g, "close")
      /\ stack' = [h \in Goroutines |->
           IF h # g
           THEN [i \in 1..Depth(h) |-> Woken(stack[h][i], Me(g))]
           ELSE IF rest = <<>> THEN <<>>
           ELSE [rest EXCEPT ![Len(rest)] = Resumed(@, f.result)]]
      /\ UNCHANGED <<config, lock, cache, rdrc>>

(* A response expires or is evicted; the frames that were woken for it may  *)
(* miss it now.                                                             *)
Forget(keys) ==
  /\ cache' = [k \in CacheKeys |-> IF k \in keys THEN Nil ELSE cache[k]]
  /\ stack' = [g \in Goroutines |-> [i \in 1..Depth(g) |->
       [stack[g][i] EXCEPT !.answered =
          @ /\ CacheKey(stack[g][i].question, stack[g][i].transport) \notin keys]]]
  /\ UNCHANGED <<config, lock, rdrc>>

Expire(k) == cache[k] # Nil /\ Forget({k})
ClearCache == Forget(CacheKeys)

(* An RDRC entry expires.                                                   *)
ExpireRDRC ==
  /\ rdrc' \in {rdrc \ {r} : r \in rdrc}
  /\ UNCHANGED <<config, stack, lock, cache>>
-----------------------------------------------------------------------------
ClientStep(g) ==
  Lookup(g) \/ Lock(g) \/ Load(g) \/ Test(g) \/ Unlock(g) \/ Close(g)

TransportStep(g) ==
  Resolve(g) \/ \E kind \in config.kinds : \E ttl \in 0..1 : Reply(g, kind, ttl)

Next ==
  \/ \E g \in Goroutines :
       \/ \E q \in Asked : \E route \in config.routes : \E caching \in config.cachings :
            Call(g, q, route, caching)
       \/ ClientStep(g) \/ TransportStep(g)
  \/ \E k \in CacheKeys : Expire(k)
  \/ ClearCache
  \/ ExpireRDRC

Spec == Init /\ [][Next]_vars

(* A goroutine runs on through the client's own code.  Nothing is assumed   *)
(* of a transport: TCPTransport.Exchange (transport/tcp.go:65) and          *)
(* TLSTransport.exchange (transport/tls.go:110) read without a deadline,    *)
(* whatever the context says.                                               *)
FairSpec == Spec /\ \A g \in Goroutines : WF_vars(ClientStep(g))
-----------------------------------------------------------------------------
TypeOK ==
  /\ config \in Configs
  /\ stack \in [Goroutines -> Seq(Frames)]
  /\ \A g \in Goroutines : Depth(g) <= MaxDepth
  /\ lock \in [Questions -> Owners \cup {Nil}]
  /\ cache \in [CacheKeys -> Results]
  /\ rdrc \subseteq Transports \X Questions

(* Every frame of every goroutine, by its owner name.                       *)
Live == {o \in Owners : o[2] <= Depth(o[1])}
FrameOf(o) == stack[o[1]][o[2]]

(* The lock of a question is in the map exactly while one exchange that     *)
(* took it is between LoadOrStore and its deferred Delete, and no exchange  *)
(* waits for a channel that nobody is going to close.                       *)
LocksServed ==
  /\ TypeOK
  /\ \A q \in Questions : lock[q] # Nil =>
       lock[q] \in Live /\ FrameOf(lock[q]).question = q
         /\ FrameOf(lock[q]).holds /\ FrameOf(lock[q]).at # "close"
  /\ \A o \in Live : FrameOf(o).holds /\ FrameOf(o).at # "close"
       => lock[FrameOf(o).question] = o
  /\ \A o \in Live : FrameOf(o).at = "wait" =>
       FrameOf(o).cond \in Live /\ FrameOf(FrameOf(o).cond).holds
         /\ FrameOf(FrameOf(o).cond).question = FrameOf(o).question

(* An exchange that waited for another one of the same question does not    *)
(* ask the transport again when the other's response was cached, unless it  *)
(* has left the cache since.                                                *)
WaitersShareAnswer ==
  \A o \in Live : FrameOf(o).answered
    => FrameOf(o).at \notin {"test", "exchange", "nested", "connected"}

(* "Make each DNS server's cache independent" (docs/configuration/dns/      *)
(* index.md): with independent_cache an exchange is answered only by its    *)
(* own transport, although the lock of the question is common to all.       *)
CachesIndependent ==
  config.independent => \A o \in Live :
    FrameOf(o).result # Nil => FrameOf(o).result.from = FrameOf(o).transport

(* No two rules send their queries over one transport.                      *)
OneRulePerServer ==
  \A r1, r2 \in config.routes : r1[1] = r2[1] => r1 = r2


(* "DNS query loopback in transport[" (src/dns/client.go:176): a query that *)
(* depends on itself is an error.  Hence, as long as no transport keeps a   *)
(* query for ever, every Exchange returns: none waits for a lock that is    *)
(* not released.                                                            *)
ExchangeEnds ==
  (\A g \in Goroutines : []<>~(Running(g, "exchange") \/ Running(g, "connected")))
    => \A g \in Goroutines : stack[g] # <<>> ~> stack[g] = <<>>
==============================================================================

---------------------------- MODULE FakeIPMemory ----------------------------
(***************************************************************************)
(* The fakeip store over its in-memory storage (store.go and memory.go of  *)
(* src/dns/transport/fakeip).                                              *)
(*                                                                         *)
(* Create runs on the goroutine of a DNS exchange, and fakeip answers are  *)
(* not cached, so any number of Creates overlap.  The storage has locks;   *)
(* the store's current address has none: it is read in one step and        *)
(* written in a later one.  One address family is modelled, the other is   *)
(* independent of it.                                                      *)
(***************************************************************************)
EXTENDS FakeIPRange

CONSTANTS
  Domains,
  Creators,    \* goroutines that call Create
  Nil

ASSUME NilAssumption == Nil \notin Domains /\ Nil \notin Nat

VARIABLES
  current,       \* s.inet4Current
  addressCache,  \* domain of an address
  domainCache,   \* address of a domain
  create,        \* Creates in progress
  answer,        \* address each domain was last answered with
  overlap        \* the exchanges of this behaviour overlap

vars == <<current, addressCache, domainCache, create, answer, overlap>>

NoCreate == [at |-> "idle", domain |-> Nil, next |-> Nil]

(* Start with a MemoryStorage, which has no metadata.                       *)
Init ==
  /\ current = FirstAddress
  /\ addressCache = [a \in Offsets |-> Nil]
  /\ domainCache = [d \in Domains |-> Nil]
  /\ create = [p \in Creators |-> NoCreate]
  /\ answer = [d \in Domains |-> Nil]
  /\ overlap \in BOOLEAN

(* FakeIPLoadDomain: a known domain is answered at once.                    *)
CreateLoad(p, d) ==
  /\ create[p].at = "idle"
  /\ overlap \/ \A q \in Creators : create[q].at = "idle"
  /\ IF domainCache[d] # Nil
     THEN answer' = [answer EXCEPT ![d] = domainCache[d]] /\ UNCHANGED create
     ELSE /\ create' = [create EXCEPT ![p] = [at |-> "advance", domain |-> d, next |-> Nil]]
          /\ UNCHANGED answer
  /\ UNCHANGED <<current, addressCache, domainCache, overlap>>

CreateAdvance(p) ==
  /\ create[p].at = "advance"
  /\ create' = [create EXCEPT ![p] =
       [at |-> "write", domain |-> @.domain, next |-> NextAddress(current)]]
  /\ UNCHANGED <<current, addressCache, domainCache, answer, overlap>>

(* Mutant: the new current address is not kept.                             *)
MutCreateWrite(p) ==
  /\ create[p].at = "write"
  /\ create' = [create EXCEPT ![p].at = "store"]
  /\ UNCHANGED <<current, addressCache, domainCache, answer, overlap>>

CreateWrite(p) ==
  /\ create[p].at = "write"
  /\ current' = create[p].next
  /\ create' = [create EXCEPT ![p].at = "store"]
  /\ UNCHANGED <<addressCache, domainCache, answer, overlap>>

(* Mutant: the domain an address belonged to keeps it.                      *)
MutFakeIPStore(a, d) ==
  /\ addressCache' = [addressCache EXCEPT ![a] = d]
  /\ domainCache' = [domainCache EXCEPT ![d] = a]

(* FakeIPStore: the domain an address belonged to loses it.                 *)
FakeIPStore(a, d) ==
  LET old == addressCache[a]
  IN  /\ addressCache' = [addressCache EXCEPT ![a] = d]
      /\ domainCache' = [e \in Domains |->
           IF e = d THEN a ELSE IF e = old THEN Nil ELSE domainCache[e]]

CreateStore(p) ==
  LET c == create[p]
  IN  /\ c.at = "store"
      /\ FakeIPStore(c.next, c.domain)
      /\ answer' = [answer EXCEPT ![c.domain] = c.next]
      /\ create' = [create EXCEPT ![p] = NoCreate]
      /\ UNCHANGED <<current, overlap>>

Next ==
  \E p \in Creators :
    \/ \E d \in Domains : CreateLoad(p, d)
    \/ CreateAdvance(p)
    \/ CreateWrite(p)
    \/ CreateStore(p)

Spec == Init /\ [][Next]_vars
-----------------------------------------------------------------------------
TypeOK ==
  /\ current \in Offsets
  /\ addressCache \in [Offsets -> Domains \cup {Nil}]
  /\ domainCache \in [Domains -> Offsets \cup {Nil}]
  /\ create \in [Creators -> [at : {"idle", "advance", "write", "store"},
                              domain : Domains \cup {Nil}, next : Offsets \cup {Nil}]]
  /\ \A p \in Creators :
       /\ create[p].at # "idle" => create[p].domain \in Domains
       /\ create[p].at \in {"write", "store"} => create[p].next \in Offsets
  /\ answer \in [Domains -> Offsets \cup {Nil}]
  /\ overlap \in BOOLEAN

(* An address found for a domain leads back to that domain, although        *)
(* concurrent Creates may store one domain under two addresses or one       *)
(* address for two domains: a repeated answer never names an address that   *)
(* routes to another domain.                                                *)
DomainMapSound ==
  \A d \in Domains : domainCache[d] # Nil => addressCache[domainCache[d]] = d

(* "IPv4 address range for FakeIP." (docs/configuration/dns/server/         *)
(* fakeip.md): an answered address is recognised by Contains, and is        *)
(* neither the prefix address nor its successor, which a tun may hold.  It  *)
(* needs two addresses after the prefix address.                            *)
AnswersInRange ==
  \A d \in Domains : answer[d] # Nil => Contains(answer[d]) /\ answer[d] >= FirstAddress

(* When Creates do not overlap, an answered address goes to another domain  *)
(* only when the walk has come round: as long as some address of the range  *)
(* was never stored, every domain keeps the address it was answered with.   *)
ReusedOnlyWhenFull ==
  [][\A d \in Domains :
       ~overlap /\ answer[d] # Nil /\ addressCache[answer[d]] = d
         /\ addressCache'[answer[d]] # d
         => \A a \in Pool : addressCache[a] # Nil]_vars
==============================================================================

------------------------- MODULE FakeIPMemoryProofs -------------------------
(***************************************************************************)
(* Proofs about FakeIPMemory, for any number of domains, of concurrent     *)
(* Creates and of addresses, and for any prefix address in the range.      *)
(***************************************************************************)
EXTENDS FakeIPMemory, TLAPS

USE RangeSizeAssumption, AddrAssumption, NilAssumption DEF FirstAddress

(* The walk stays among the offsets of the model: NextAddress of an offset  *)
(* is an offset.                                                            *)
LEMMA NextAddressType == \A n \in Offsets : NextAddress(n) \in Offsets
BY DEF NextAddress, Contains, Offsets

(* With two addresses after the prefix address NextAddress stays in the     *)
(* range and never returns the prefix address or its successor.             *)
LEMMA NextAddressInPool ==
  ASSUME Contains(FirstAddress), NEW n \in Offsets
  PROVE  NextAddress(n) \in Offsets /\ Contains(NextAddress(n))
           /\ (n >= FirstAddress => NextAddress(n) >= FirstAddress)
BY DEF NextAddress, Contains, Offsets

(* Type correctness of the store and its storage under concurrent Creates.  *)
THEOREM TypeCorrect == Spec => []TypeOK
<1>1. Init => TypeOK
  BY DEF Init, TypeOK, NoCreate, Offsets
<1>2. TypeOK /\ [Next]_vars => TypeOK'
  <2> SUFFICES ASSUME TypeOK, [Next]_vars PROVE TypeOK'
    OBVIOUS
  <2>1. ASSUME NEW p \in Creators, NEW d \in Domains, CreateLoad(p, d) PROVE TypeOK'
    BY <2>1 DEF CreateLoad, TypeOK
  <2>2. ASSUME NEW p \in Creators, CreateAdvance(p) PROVE TypeOK'
    BY <2>2, NextAddressType DEF CreateAdvance, TypeOK
  <2>3. ASSUME NEW p \in Creators, CreateWrite(p) PROVE TypeOK'
    BY <2>3 DEF CreateWrite, TypeOK
  <2>4. ASSUME NEW p \in Creators, CreateStore(p) PROVE TypeOK'
    BY <2>4 DEF CreateStore, FakeIPStore, NoCreate, TypeOK
  <2>5. CASE UNCHANGED vars
    BY <2>5 DEF vars, TypeOK
  <2> QED
    BY <2>1, <2>2, <2>3, <2>4, <2>5 DEF Next
<1> QED
  BY <1>1, <1>2, PTL DEF Spec

(* DomainMapSound holds for any number of Creates that race for the current *)
(* address: it is kept by FakeIPStore alone, whatever address and domain it *)
(* is called with.                                                          *)
THEOREM DomainMapInvariance == Spec => []DomainMapSound
<1>1. Init => DomainMapSound
  BY DEF Init, DomainMapSound
<1>2. TypeOK /\ DomainMapSound /\ [Next]_vars => DomainMapSound'
  <2> SUFFICES ASSUME TypeOK, DomainMapSound, [Next]_vars PROVE DomainMapSound'
    OBVIOUS
  <2>1. ASSUME NEW p \in Creators, CreateStore(p) PROVE DomainMapSound'
    <3> DEFINE c == create[p]
    <3>1. c.next \in Offsets /\ c.domain \in Domains
      BY <2>1 DEF CreateStore, NoCreate, TypeOK
    <3>2. FakeIPStore(c.next, c.domain)
      BY <2>1 DEF CreateStore
    <3> QED
      BY <3>1, <3>2 DEF FakeIPStore, DomainMapSound, TypeOK
  <2>2. ASSUME UNCHANGED <<addressCache, domainCache>> PROVE DomainMapSound'
    BY <2>2 DEF DomainMapSound
  <2> QED
    BY <2>1, <2>2 DEF Next, CreateLoad, CreateAdvance, CreateWrite, vars
<1> QED
  BY <1>1, <1>2, TypeCorrect, PTL DEF Spec
-----------------------------------------------------------------------------
InPool(n) == n # Nil => Contains(n) /\ n >= FirstAddress

(* The walk and everything that came out of it stay in the range: this is   *)
(* AnswersInRange made inductive.  Of the current address, which is only    *)
(* read to go on from it, the lower bound is enough.                        *)
PoolInv ==
  /\ current >= FirstAddress
  /\ \A p \in Creators : InPool(create[p].next)
  /\ \A d \in Domains : InPool(domainCache[d]) /\ InPool(answer[d])

(* When the range has two addresses after the prefix address every answered *)
(* address is one that Contains recognises, for any number of racing        *)
(* Creates.  Otherwise the address after the wrap, the prefix address + 2,  *)
(* is outside.                                                              *)
THEOREM AnswersInRangeInvariance ==
  ASSUME Contains(FirstAddress)
  PROVE  Spec => []AnswersInRange
<1> USE DEF InPool
<1>1. Init => PoolInv
  BY DEF Init, PoolInv, NoCreate
<1>2. TypeOK /\ PoolInv /\ [Next]_vars => PoolInv'
  <2> SUFFICES ASSUME TypeOK, PoolInv, [Next]_vars PROVE PoolInv'
    OBVIOUS
  <2>1. ASSUME NEW p \in Creators, NEW d \in Domains, CreateLoad(p, d) PROVE PoolInv'
    BY <2>1 DEF CreateLoad, TypeOK, PoolInv
  <2>2. ASSUME NEW p \in Creators, CreateAdvance(p) PROVE PoolInv'
    BY <2>2, NextAddressInPool DEF CreateAdvance, TypeOK, PoolInv
  <2>3. ASSUME NEW p \in Creators, CreateWrite(p) PROVE PoolInv'
    <3>1. create[p].next \in Nat /\ create[p].next >= FirstAddress
      BY <2>3 DEF CreateWrite, TypeOK, PoolInv, Offsets
    <3>2. \A q \in Creators : create'[q].next = create[q].next
      BY <2>3 DEF CreateWrite, TypeOK
    <3> QED
      BY <2>3, <3>1, <3>2 DEF CreateWrite, PoolInv
  <2>4. ASSUME NEW p \in Creators, CreateStore(p) PROVE PoolInv'
    <3>1. create[p].next \in Offsets /\ InPool(create[p].next)
      BY <2>4 DEF CreateStore, TypeOK, PoolInv
    <3>2. \A q \in Creators : InPool(create'[q].next)
      BY <2>4 DEF CreateStore, NoCreate, TypeOK, PoolInv
    <3>3. \A d \in Domains : InPool(domainCache'[d]) /\ InPool(answer'[d])
      BY <2>4, <3>1 DEF CreateStore, FakeIPStore, TypeOK, PoolInv
    <3> QED
      BY <2>4, <3>2, <3>3 DEF CreateStore, PoolInv
  <2>5. CASE UNCHANGED vars
    BY <2>5 DEF vars, PoolInv
  <2> QED
    BY <2>1, <2>2, <2>3, <2>4, <2>5 DEF Next
<1>3. PoolInv => AnswersInRange
  BY DEF PoolInv, AnswersInRange
<1> QED
  BY <1>1, <1>2, <1>3, TypeCorrect, PTL DEF Spec
=============================================================================

----------------------------- MODULE FakeIPRange -----------------------------
(***************************************************************************)
(* How the fakeip store walks its address range (Store.Start, Create and   *)
(* Contains of src/dns/transport/fakeip/store.go).  An address is its      *)
(* offset in the configured range, 0..RangeSize-1.  Nothing masks or       *)
(* validates the configured prefix: its address may be any of the range.   *)
(***************************************************************************)
EXTENDS Naturals

CONSTANTS
  RangeSize,    \* number of addresses of the configured prefix
  Addr          \* the prefix address, s.inet4Range.Addr(), as written

ASSUME RangeSizeAssumption == RangeSize \in Nat \ {0}
ASSUME AddrAssumption == Addr \in 0..(RangeSize - 1)

(* Offsets that can occur: with fewer than two addresses after the prefix   *)
(* address the walk leaves its range.                                       *)
Offsets == Addr..(RangeSize + 2)

Contains(n) == n < RangeSize

(* Addr().Next().Next()                                                     *)
FirstAddress == Addr + 2

(* Mutant: the end of the range is not checked.                             *)
MutNextAddress(n) == IF n < RangeSize + 2 THEN n + 1 ELSE FirstAddress

NextAddress(n) == IF Contains(n + 1) THEN n + 1 ELSE FirstAddress

(* The addresses Create can return.                                         *)
Pool == FirstAddress..(RangeSize - 1)
==============================================================================

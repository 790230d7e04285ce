------------------------------ MODULE MCFakeIP ------------------------------
(* The fakeip store over each of its storages, one at a time, as `storage'  *)
(* says; the variables of the other keep their initial values.  Domains of  *)
(* the file are interchangeable: nothing in the storage orders them.        *)
EXTENDS FakeIPMemory, TLC

CONSTANTS FileDomains, Families, MaxWrites

VARIABLES storage, phase, fileCurrent, db, save, writes, timer, given, lost

File == INSTANCE FakeIPCacheFile WITH Domains <- FileDomains, current <- fileCurrent

ASSUME FamiliesAssumption == Families \subseteq File!Stacks /\ Families # {}
ASSUME FileDomainsAssumption == Nil \notin FileDomains

fileVars == <<phase, fileCurrent, db, save, writes, timer, given, lost>>

MCInit ==
  /\ storage \in {"memory", "file"}
  /\ Init /\ File!Init
  /\ storage = "file" => ~overlap

MCNext ==
  \/ storage = "memory" /\ Next /\ UNCHANGED <<storage, fileVars>>
  \/ storage = "file" /\ File!Next /\ UNCHANGED <<storage, vars>>

MCSpec == MCInit /\ [][MCNext]_<<storage, vars, fileVars>>

Symmetry == Permutations(FileDomains)

(* FakeIPCacheFile: a domain's address leads back to the domain.            *)
DatabaseSound == File!DatabaseSound

(* FakeIPCacheFile: an answered address has a record.                       *)
GivenHasRecord == File!GivenHasRecord
==============================================================================

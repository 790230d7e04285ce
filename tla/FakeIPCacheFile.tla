--------------------------- MODULE FakeIPCacheFile ---------------------------
(***************************************************************************)
(* The fakeip store over the cache file: the storage of                    *)
(* src/experimental/cachefile/fakeip.go under Start, Create and Close of   *)
(* src/dns/transport/fakeip/store.go, with process restarts.               *)
(*                                                                         *)
(* A record is first kept in the saveDomain and saveAddress maps and       *)
(* written by a goroutine, which then drops it from the maps.  Metadata    *)
(* (the current address of each family) is deleted when it is read and     *)
(* saved again by a timer or by Close.  Concurrent Creates are the subject *)
(* of FakeIPMemory; here Create is one step.                               *)
(***************************************************************************)
EXTENDS FakeIPRange, FiniteSets

CONSTANTS
  Families,    \* subset of Stacks: families with a configured range
  Domains,
  MaxWrites,   \* bound: writing goroutines in flight
  Nil

Stacks == {"inet4", "inet6"}

VARIABLES
  phase,       \* "down", "up", or "closing" after Store.Close
  current,     \* s.inet4Current, s.inet6Current
  db,          \* the bbolt database: buckets, records and metadata
  save,        \* saveDomain (by address) and saveAddress4/6 (by domain)
  writes,      \* goroutines of FakeIPStoreAsync
  timer,       \* saveMetadataTimer: armed, and the metadata its function holds
  given,       \* addresses answered since Start, as long as nothing is lost
  lost         \* since Start a flush deleted the buckets or a transaction failed

vars == <<phase, current, db, save, writes, timer, given, lost>>

Addresses == Families \X Offsets
Names == Families \X Domains
Buckets == {"address"} \cup Stacks     \* bucketFakeIP, bucketFakeIPDomain4 and 6
NoTimer == [armed |-> FALSE, metadata |-> Nil]
NoSave == [domain |-> [a \in Addresses |-> Nil], address |-> [n \in Names |-> Nil]]
EmptyDb == [buckets |-> {}, domain |-> [a \in Addresses |-> Nil],
            address |-> [n \in Names |-> Nil], metadata |-> Nil]

Init ==
  /\ phase = "down"
  /\ current = [f \in Families |-> FirstAddress]
  /\ db = EmptyDb
  /\ save = NoSave
  /\ writes = {}
  /\ timer = NoTimer
  /\ given = {}
  /\ lost = FALSE
-----------------------------------------------------------------------------
(* FakeIPLoad and FakeIPLoadDomain: the maps first, then the database.      *)
Load(a) == IF save.domain[a] # Nil THEN save.domain[a] ELSE db.domain[a]
LoadDomain(n) == IF save.address[n] # Nil THEN save.address[n] ELSE db.address[n]

(* FakeIPReset: deleting a bucket that does not exist aborts the            *)
(* transaction, so without records of both families nothing is deleted.     *)
Reset(old) == IF old.buckets = Buckets THEN EmptyDb ELSE old

(* The database after FakeIPMetadata.                                       *)
Unread == [db EXCEPT !.metadata = Nil]

(* Start: the metadata is deleted as it is read, and used when its ranges   *)
(* are the configured ones; otherwise the stored records are reset.         *)
Start(sameRanges) ==
  /\ phase = "down"
  /\ phase' = "up"
  /\ IF db.metadata # Nil /\ sameRanges
     THEN current' = db.metadata /\ db' = Unread
     ELSE current' = [f \in Families |-> FirstAddress] /\ db' = Reset(Unread)
  /\ save' = NoSave
  /\ timer' = NoTimer
  /\ given' = {}
  /\ lost' = FALSE
  /\ UNCHANGED writes

(* FakeIPSaveMetadata                                                       *)
WithMetadata(m) == [db EXCEPT !.buckets = @ \cup {"address"}, !.metadata = m]

(* Close saves the metadata; the database closes later, with Exit.          *)
Close ==
  /\ phase = "up"
  /\ phase' = "closing"
  /\ db' = WithMetadata(current)
  /\ UNCHANGED <<current, save, writes, timer, given, lost>>

(* The process ends: in order after Close, or by a crash at any moment.     *)
Exit ==
  /\ phase # "down"
  /\ phase' = "down"
  /\ current' = [f \in Families |-> FirstAddress]
  /\ save' = NoSave
  /\ writes' = {}
  /\ timer' = NoTimer
  /\ given' = {}
  /\ lost' = FALSE
  /\ UNCHANGED db
-----------------------------------------------------------------------------
Answered(a) == IF lost THEN {} ELSE given \cup {a}

(* Create for a domain that has an address.                                 *)
CreateKnown(f, d) ==
  /\ phase = "up"
  /\ LoadDomain(<<f, d>>) # Nil
  /\ given' = Answered(<<f, LoadDomain(<<f, d>>)>>)
  /\ UNCHANGED <<phase, current, db, save, writes, timer, lost>>

(* FakeIPStoreAsync, before its goroutine: the domain that was waiting to   *)
(* be saved under this address is dropped from the other map.               *)
Saved(a, d) ==
  LET old == save.domain[a]
  IN  [domain |-> [save.domain EXCEPT ![a] = d],
       address |-> [n \in Names |->
         IF n = <<a[1], d>> THEN a[2]
         ELSE IF old # Nil /\ n = <<a[1], old>> THEN Nil ELSE save.address[n]]]

(* FakeIPSaveMetadataAsync: only the first call's metadata is ever held by  *)
(* the timer; later calls restart the interval.                             *)
Armed(metadata) ==
  [armed |-> TRUE, metadata |-> IF timer.metadata = Nil THEN metadata ELSE timer.metadata]

CreateNew(f, d) ==
  LET a == <<f, NextAddress(current[f])>>
  IN  /\ phase = "up"
      /\ LoadDomain(<<f, d>>) = Nil
      /\ Cardinality(writes) < MaxWrites
      /\ current' = [current EXCEPT ![f] = a[2]]
      /\ save' = Saved(a, d)
      /\ writes' = writes \cup {[address |-> a, domain |-> d, at |-> "commit"]}
      /\ timer' = Armed(current')
      /\ given' = Answered(a)
      /\ UNCHANGED <<phase, db, lost>>

(* Mutant: the record of the domain that held the address stays.            *)
MutCommitted(a, d) ==
  [db EXCEPT !.buckets = @ \cup {"address", a[1]},
             !.domain[a] = d, !.address[<<a[1], d>>] = a[2]]

(* FakeIPStore: one transaction.                                            *)
Committed(a, d) ==
  LET old == db.domain[a]
  IN  [db EXCEPT !.buckets = @ \cup {"address", a[1]},
                 !.domain[a] = d,
                 !.address = [n \in Names |->
                    IF n = <<a[1], d>> THEN a[2]
                    ELSE IF old # Nil /\ n = <<a[1], old>> THEN Nil ELSE @[n]]]

(* Mutant: the maps are cleared before the transaction commits.             *)
MutWriteCommit(w) ==
  /\ w \in writes /\ w.at = "commit"
  /\ save' = [domain |-> [save.domain EXCEPT ![w.address] = Nil],
              address |-> [save.address EXCEPT ![<<w.address[1], w.domain>>] = Nil]]
  /\ writes' = (writes \ {w}) \cup {[w EXCEPT !.at = "clear"]}
  /\ UNCHANGED <<phase, current, db, timer, given, lost>>

(* The goroutine: the transaction, then the maps; a failed transaction is   *)
(* only logged.                                                             *)
WriteCommit(w) ==
  /\ w \in writes /\ w.at = "commit"
  /\ db' = Committed(w.address, w.domain)
  /\ writes' = (writes \ {w}) \cup {[w EXCEPT !.at = "clear"]}
  /\ UNCHANGED <<phase, current, save, timer, given, lost>>

WriteFails(w) ==
  /\ ~lost                    \* bound: the first loss since Start
  /\ w \in writes /\ w.at = "commit"
  /\ writes' = (writes \ {w}) \cup {[w EXCEPT !.at = "clear"]}
  /\ lost' = TRUE
  /\ given' = {}
  /\ UNCHANGED <<phase, current, db, save, timer>>

WriteClear(w) ==
  /\ w \in writes /\ w.at = "clear"
  /\ save' = [domain |-> [save.domain EXCEPT ![w.address] = Nil],
              address |-> [save.address EXCEPT ![<<w.address[1], w.domain>>] = Nil]]
  /\ writes' = writes \ {w}
  /\ UNCHANGED <<phase, current, db, timer, given, lost>>

(* The interval after the last Create is over.                              *)
TimerFires ==
  /\ timer.armed
  /\ timer' = [timer EXCEPT !.armed = FALSE]
  /\ db' = WithMetadata(timer.metadata)
  /\ UNCHANGED <<phase, current, save, writes, given, lost>>

(* The flush request of the Clash API.                                      *)
Flush ==
  /\ phase = "up"
  /\ db' = Reset(db)
  /\ lost' = (lost \/ db.buckets = Buckets)
  /\ given' = IF lost' THEN {} ELSE given
  /\ UNCHANGED <<phase, current, save, writes, timer>>
-----------------------------------------------------------------------------
Next ==
  \/ \E same \in BOOLEAN : Start(same)
  \/ Close \/ Exit \/ TimerFires \/ Flush
  \/ \E f \in Families : \E d \in Domains : CreateKnown(f, d) \/ CreateNew(f, d)
  \/ \E w \in writes : WriteCommit(w) \/ WriteFails(w) \/ WriteClear(w)

Spec == Init /\ [][Next]_vars
-----------------------------------------------------------------------------
Metadata == [Families -> Offsets] \cup {Nil}

TypeOK ==
  /\ phase \in {"down", "up", "closing"}
  /\ current \in [Families -> Offsets]
  /\ db \in [buckets : SUBSET Buckets,
             domain : [Addresses -> Domains \cup {Nil}],
             address : [Names -> Offsets \cup {Nil}], metadata : Metadata]
  /\ save \in [domain : [Addresses -> Domains \cup {Nil}],
               address : [Names -> Offsets \cup {Nil}]]
  /\ writes \subseteq [address : Addresses, domain : Domains, at : {"commit", "clear"}]
  /\ timer \in [armed : BOOLEAN, metadata : Metadata]
  /\ given \subseteq Addresses
  /\ lost \in BOOLEAN

(* In the database an address found for a domain leads back to the domain,  *)
(* whatever order the writing goroutines commit in, across crashes, resets  *)
(* that fail half-way and a walk that starts again over old records.        *)
DatabaseSound ==
  /\ TypeOK
  /\ \A n \in Names : db.address[n] # Nil => db.domain[<<n[1], db.address[n]>>] = n[2]

(* An address answered since the start has a record as long as nobody       *)
(* flushed and no transaction failed: at no moment of the hand-over from    *)
(* the maps to the database does a connection to it fail with "missing      *)
(* fakeip record" (src/route/route.go:407).                                 *)
GivenHasRecord ==
  \A a \in given : Load(a) # Nil
==============================================================================

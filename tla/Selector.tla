------------------------------ MODULE Selector ------------------------------
(***************************************************************************)
(* The selector outbound (src/protocol/group/selector.go) with its         *)
(* interrupt group and the selection it keeps in the cache file.           *)
(*                                                                         *)
(* SelectOutbound runs on the goroutine of an API request: it swaps the    *)
(* selected outbound, stores the tag and interrupts the group, and takes   *)
(* no lock across the three.  A dial loads the selected outbound, dials,   *)
(* and registers the connection with the interrupt group afterwards.       *)
(***************************************************************************)
EXTENDS Sequences

CONSTANTS
  Tags,          \* tags of outbounds the outbound manager knows
  NoTag,         \* the empty string
  Configs,       \* configurations the program may be (re)started with
  Clients,       \* goroutines that call SelectOutbound
  Dialers,       \* goroutines that dial through the selector, one connection each
  UseCacheFile   \* the selector has a tag and a cache file is configured

(* tags in order, the default (or none), interrupt_exist_connections        *)
ASSUME ConfigAssumption ==
  \A c \in Configs : c.tags \in Seq(Tags) /\ c.tags # <<>>
                     /\ c.default \in Tags \cup {NoTag} /\ c.interrupt \in BOOLEAN
ASSUME NoTagAssumption == NoTag \notin Tags

VARIABLES
  config,     \* configuration the process runs with
  selected,   \* s.selected; NoTag while the process is down
  saved,      \* the tag in the cache file's `selected' bucket, NoTag if none
  call,       \* SelectOutbound calls in progress
  dial,       \* dials and the connections they produced
  members,    \* the interrupt group
  live

vars == <<config, selected, saved, call, dial, members, live>>

Group == INSTANCE InterruptGroup

(* How a connection reaches the selector: dialled by the program itself,    *)
(* dialled by an outer group for an inbound connection, or an inbound       *)
(* connection routed to the selector.                                       *)
Kinds == {"internal", "nested", "inbound"}

Options(c) == {c.tags[i] : i \in DOMAIN c.tags}
NoCall == [at |-> "idle", tag |-> NoTag]
NoDial == [at |-> "idle", via |-> NoTag, kind |-> "internal", late |-> FALSE]

Init ==
  /\ config \in Configs
  /\ selected = NoTag
  /\ saved = NoTag
  /\ call = [p \in Clients |-> NoCall]
  /\ dial = [d \in Dialers |-> NoDial]
  /\ members = {}
  /\ live = {}
-----------------------------------------------------------------------------
(* Mutant: the stored tag is taken without looking it up.                   *)
MutInitialSelection(c, stored) ==
  IF stored # NoTag THEN stored
  ELSE IF c.default # NoTag THEN c.default ELSE c.tags[1]

(* Stored selection if it is still an option, else default, else the first. *)
InitialSelection(c, stored) ==
  IF stored \in Options(c) THEN stored
  ELSE IF c.default # NoTag THEN c.default ELSE c.tags[1]

(* A default that is not an option fails the start, unless the stored       *)
(* selection was used before the default is looked at.                      *)
Start(c) ==
  /\ selected = NoTag
  /\ c.default # NoTag => saved \in Options(c) \/ c.default \in Options(c)
  /\ config' = c
  /\ selected' = InitialSelection(c, saved)
  /\ UNCHANGED <<saved, call, dial, members, live>>

(* The process exits or crashes: only the cache file survives.              *)
Crash ==
  /\ selected # NoTag
  /\ selected' = NoTag
  /\ call' = [p \in Clients |-> NoCall]
  /\ dial' = [d \in Dialers |-> NoDial]
  /\ members' = {}
  /\ live' = {}
  /\ UNCHANGED <<config, saved>>
-----------------------------------------------------------------------------
(* SelectOutbound(tag) in three steps.  An unknown tag changes nothing, and *)
(* selecting the selected outbound returns before storing.  `late' marks    *)
(* the dials that the change overtakes.                                     *)
SelectSwap(p, tag) ==
  /\ selected # NoTag
  /\ call[p].at = "idle"
  /\ tag \in Options(config) \ {selected}
  /\ selected' = tag
  /\ call' = [call EXCEPT ![p] =
       [at |-> IF UseCacheFile THEN "store" ELSE "interrupt", tag |-> tag]]
  /\ dial' = [d \in Dialers |->
       IF dial[d].at = "dialing" THEN [dial[d] EXCEPT !.late = TRUE] ELSE dial[d]]
  /\ UNCHANGED <<config, saved, members, live>>

(* StoreSelected may fail, which is only logged.                            *)
SelectStore(p) ==
  /\ call[p].at = "store"
  /\ saved' \in {call[p].tag, saved}
  /\ call' = [call EXCEPT ![p].at = "interrupt"]
  /\ UNCHANGED <<config, selected, dial, members, live>>

SelectInterrupt(p) ==
  /\ call[p].at = "interrupt"
  /\ Group!Interrupt(config.interrupt)
  /\ call' = [call EXCEPT ![p] = NoCall]
  /\ UNCHANGED <<config, selected, saved, dial>>
-----------------------------------------------------------------------------
(* DialContext, ListenPacket and NewConnectionEx load s.selected first.     *)
DialBegin(d, kind) ==
  /\ selected # NoTag
  /\ dial[d].at = "idle"
  /\ dial' = [dial EXCEPT ![d] = 
       [at |-> "dialing", via |-> selected, kind |-> kind, late |-> FALSE]]
  /\ UNCHANGED <<config, selected, saved, call, members, live>>

DialFails(d) ==
  /\ dial[d].at = "dialing"
  /\ dial' = [dial EXCEPT ![d] = NoDial]
  /\ UNCHANGED <<config, selected, saved, call, members, live>>

(* NewConnectionEx hands the connection manager the selected outbound, not  *)
(* the selector, so an inbound connection does not enter the group.         *)
DialDone(d) ==
  /\ dial[d].at = "dialing"
  /\ dial' = [dial EXCEPT ![d].at = "open"]
  /\ IF dial[d].kind = "inbound"
     THEN live' = live \cup {d} /\ UNCHANGED members
     ELSE Group!NewConn(d, dial[d].kind = "nested")
  /\ UNCHANGED <<config, selected, saved, call>>

CloseConn(d) ==
  /\ dial[d].at = "open"
  /\ dial' = [dial EXCEPT ![d] = NoDial]
  /\ Group!Close(d)
  /\ UNCHANGED <<config, selected, saved, call>>
-----------------------------------------------------------------------------
Next ==
  \/ \E c \in Configs : Start(c)
  \/ Crash
  \/ \E p \in Clients : \E t \in Tags : SelectSwap(p, t)
  \/ \E p \in Clients : SelectStore(p) \/ SelectInterrupt(p)
  \/ \E d \in Dialers :
       \/ \E k \in Kinds : DialBegin(d, k)
       \/ DialFails(d) \/ DialDone(d) \/ CloseConn(d)

Spec == Init /\ [][Next]_vars
-----------------------------------------------------------------------------
TypeOK ==
  /\ config \in Configs
  /\ selected \in Tags \cup {NoTag}
  /\ saved \in Tags \cup {NoTag}
  /\ call \in [Clients -> [at : {"idle", "store", "interrupt"},
                           tag : Tags \cup {NoTag}]]
  /\ dial \in [Dialers -> [at : {"idle", "dialing", "open"},
                           via : Tags \cup {NoTag}, kind : Kinds, late : BOOLEAN]]
  /\ members \subseteq [conn : Dialers, isExternal : BOOLEAN]
  /\ live \subseteq Dialers

(* Whatever tag an earlier run stored, under whatever configuration, a      *)
(* started selector has selected one of its own outbounds, so DialContext   *)
(* never calls a nil outbound (selector.go:144).                            *)
SelectedIsOption ==
  /\ TypeOK
  /\ selected # NoTag => selected \in Options(config)

Settled == \A p \in Clients : call[p].at = "idle"

(* "Only inbound connections are affected by this setting, internal         *)
(* connections will always be interrupted." (docs/configuration/outbound/   *)
(* selector.md:38), as far as the code does it: when every SelectOutbound   *)
(* has returned, no connection dialled through the selector is open over an *)
(* outbound that is not selected, internal ones under any setting, those of *)
(* an outer group with interrupt_exist_connections, however the swaps, the  *)
(* interrupts and the dials interleave.  A dial that had loaded the         *)
(* outbound when the selection changed (late) is not covered.               *)
SelectionInterrupts ==
  Settled => \A d \in live :
    dial[d].kind = "internal" \/ (dial[d].kind = "nested" /\ config.interrupt)
      => dial[d].via = selected \/ dial[d].late

(* What selector.md:36-38 says of inbound connections: with                 *)
(* interrupt_exist_connections, none that was open when the selection       *)
(* changed stays on the replaced outbound.  The code hands an inbound       *)
(* connection to the selected outbound itself (NewConnectionEx), outside    *)
(* the interrupt group.                                                     *)
InboundInterrupted ==
  Settled /\ config.interrupt => \A d \in live :
    dial[d].kind = "inbound" => dial[d].via = selected \/ dial[d].late

(* With interrupt_exist_connections off, selecting another outbound closes  *)
(* no connection that belongs to an inbound.                                *)
ExternalSurvives ==
  [][\A d \in Dialers :
       ~config.interrupt /\ dial[d].kind # "internal" /\ d \in live
         /\ dial'[d] = dial[d] => d \in live']_vars
=============================================================================

-------------------------- MODULE URLTestSelection --------------------------
(***************************************************************************)
(* What a urltest group does with the delays it measures: the body of      *)
(* urlTest, Select, performUpdateCheck and the dials of URLTest            *)
(* (src/protocol/group/urltest.go), with the shared history storage        *)
(* (src/common/urltest/urltest.go) and the interrupt group.                *)
(*                                                                         *)
(* Rounds exclude each other (URLTestLoop, SingleFlight), so there is one  *)
(* round at a time; its tests run concurrently with each other, with dials *)
(* and with the ageing of the history.                                     *)
(***************************************************************************)
EXTENDS Naturals, SequencesExt

CONSTANTS
  Outbounds,     \* g.outbounds, in configuration order
  Tags,          \* tags under which delays are stored
  Known,         \* tags the outbound manager resolves
  Configs,       \* options and environments, see ConfigsAssumption
  Tolerance,     \* g.tolerance
  Dialers,       \* goroutines that dial through the group
  MaxForeign,    \* bound: tests of others that end during performUpdateCheck
  Nil

Members == {Outbounds[i] : i \in DOMAIN Outbounds}
Networks == {"tcp", "udp"}
Uint16 == 65536

ASSUME OutboundsAssumption == Outbounds # <<>> /\ Members \cup Known \subseteq Tags
ASSUME NilAssumption == Nil \notin Tags \cup Nat
ASSUME BoundAssumption == MaxForeign \in Nat

(* supports: the networks of each member.  delays: what a test may measure, *)
(* in milliseconds.  interrupt: interrupt_exist_connections.  groups: the   *)
(* members that are groups, of which RealTag is their own selection.        *)
(* dialers: the goroutines that dial.                                       *)
ASSUME ConfigsAssumption ==
  /\ Tolerance \in 0..(Uint16 - 1)
  /\ \A c \in Configs :
       /\ c.supports \in [Members -> SUBSET Networks]
       /\ c.delays \subseteq 0..(Uint16 - 1)
       /\ c.interrupt \in BOOLEAN
       /\ c.groups \subseteq Members /\ c.dialers \subseteq Dialers

VARIABLES
  config,     \* one of Configs
  real,       \* RealTag of each member
  history,    \* HistoryStorage: the delay stored for a tag
  selection,  \* selectedOutboundTCP and selectedOutboundUDP
  round,      \* the round of tests in progress
  dial,       \* dials and their connections
  members, live

vars == <<config, real, history, selection, round, dial, members, live>>

Group == INSTANCE InterruptGroup

(* A call of Select: the load it makes next, and minDelay and minOutbound.  *)
Scan(network) == [network |-> network, next |-> 0, delay |-> 0, member |-> Nil]

(* seen and first (the loads of the Select in progress, and that of the     *)
(* selected member) and before (the selection when the round began) record  *)
(* the past for the properties; no step depends on them.                    *)
NoRound == [at |-> "idle", next |-> 1, checked |-> {}, testing |-> {},
            updated |-> FALSE, scan |-> Nil, foreign |-> 0, seen |-> {}, first |-> Nil,
            before |-> [n \in Networks |-> Nil]]
NoDial == [at |-> "idle", via |-> Nil, external |-> FALSE, scan |-> Nil]

Init ==
  /\ config \in Configs
  /\ real \in {f \in [Members -> Tags] : \A m \in Members :
                IF m \in config.groups THEN f[m] \notin Members ELSE f[m] = m}
  /\ history = [t \in Tags |-> Nil]
  /\ selection = [n \in Networks |-> Nil]
  /\ round = NoRound
  /\ dial = [d \in Dialers |-> NoDial]
  /\ members = {}
  /\ live = {}
-----------------------------------------------------------------------------
(* Select: the selected member, then every member in turn.  Each history is *)
(* loaded in a step of its own.                                             *)
Usable(network) == SelectSeq(Outbounds, LAMBDA m : network \in config.supports[m])

Subject(scan) == IF scan.next = 0 THEN selection[scan.network]
                 ELSE Usable(scan.network)[scan.next]
Load(scan) == IF Subject(scan) = Nil THEN Nil ELSE history[real[Subject(scan)]]
Scanned(scan) == scan.next > Len(Usable(scan.network))

(* Mutant: a slower member replaces the current one within the tolerance.   *)
MutBetter(min, delay) == min = 0 \/ min < (delay + Tolerance) % Uint16

(* Mutant: any faster member is taken.                                      *)
MutFastest(min, delay) == min = 0 \/ min > delay

(* A minDelay of 0 stands for `none yet', and the addition is in uint16.    *)
Better(min, delay) == min = 0 \/ min > (delay + Tolerance) % Uint16

SelectStep(scan) ==
  LET h == Load(scan)
      passed == [scan EXCEPT !.next = @ + 1]
  IN  IF h # Nil /\ Better(scan.delay, h)
      THEN [passed EXCEPT !.delay = h, !.member = Subject(scan)]
      ELSE passed

(* The member, and whether a measured delay stands behind the choice.       *)
Choice(scan) ==
  LET usable == Usable(scan.network)
  IN  IF scan.member # Nil THEN [member |-> scan.member, exists |-> TRUE]
      ELSE [member |-> IF usable = <<>> THEN Nil ELSE usable[1], exists |-> FALSE]
-----------------------------------------------------------------------------
(* urlTest.  Begin follows the swap of g.checking.                          *)
Begin ==
  /\ round.at = "idle"
  /\ round' = [NoRound EXCEPT !.at = "visit", !.before = selection]
  /\ UNCHANGED <<config, real, history, selection, dial, members, live>>

(* Mutant: the loop runs one past the last member.                          *)
MutVisit(young) ==
  /\ round.at = "visit"
  /\ round.next <= Len(Outbounds) + 1
  /\ round' = [round EXCEPT !.next = @ + 1]
  /\ UNCHANGED <<config, real, history, selection, dial, members, live>>

(* One iteration of the loop over g.outbounds: a tag already tested in this *)
(* round, or with a result young enough for a round that is not forced, is  *)
(* skipped; otherwise its test starts, unless the outbound manager no       *)
(* longer knows the tag.                                                    *)
Visit(young) ==
  LET tag == real[Outbounds[round.next]]
      skip == tag \in round.checked \/ (history[tag] # Nil /\ young)
  IN  /\ round.at = "visit"
      /\ round.next <= Len(Outbounds)
      /\ round' = [round EXCEPT
           !.next = @ + 1,
           !.checked = IF skip THEN @ ELSE @ \cup {tag},
           !.testing = IF skip \/ tag \notin Known THEN @ ELSE @ \cup {tag}]
      /\ UNCHANGED <<config, real, history, selection, dial, members, live>>

(* A test stores the delay it measured, or deletes the tag's history.       *)
TestDone(tag, result) ==
  /\ tag \in round.testing
  /\ history' = [history EXCEPT ![tag] = result]
  /\ round' = [round EXCEPT !.testing = @ \ {tag}]
  /\ UNCHANGED <<config, real, selection, dial, members, live>>

(* Mutant: Wait counts the tests that were started and forgets those done.  *)
MutWait ==
  /\ round.at = "visit"
  /\ round.next > Len(Outbounds)
  /\ round.checked = {}
  /\ round' = [NoRound EXCEPT !.at = "tcp", !.scan = Scan("tcp"), !.before = round.before]
  /\ UNCHANGED <<config, real, history, selection, dial, members, live>>

(* b.Wait returns when every test has.                                      *)
Wait ==
  /\ round.at = "visit"
  /\ round.next > Len(Outbounds)
  /\ round.testing = {}
  /\ round' = [NoRound EXCEPT !.at = "tcp", !.scan = Scan("tcp"), !.before = round.before]
  /\ UNCHANGED <<config, real, history, selection, dial, members, live>>

(* performUpdateCheck: Select loads one history after the other ...         *)
CheckLoad ==
  LET scan == round.scan
      h == Load(scan)
      load == [member |-> Subject(scan), delay |-> h]
  IN  /\ round.at \in Networks /\ ~Scanned(scan)
      /\ round' = [round EXCEPT
           !.scan = SelectStep(scan),
           !.seen = IF h = Nil THEN @ ELSE @ \cup {load},
           !.first = IF scan.next = 0 /\ h # Nil THEN h ELSE @]
      /\ UNCHANGED <<config, real, history, selection, dial, members, live>>

Change(network) ==
  LET choice == Choice(round.scan)
  IN  /\ choice.member # Nil
      /\ \/ selection[network] = Nil
         \/ choice.exists /\ choice.member # selection[network]

(* Mutant: a change of the UDP selection does not set updated.              *)
MutAssign(network, then) ==
  /\ round.at = network /\ Scanned(round.scan)
  /\ selection' = IF Change(network)
                  THEN [selection EXCEPT ![network] = Choice(round.scan).member] ELSE selection
  /\ round' = [round EXCEPT
       !.at = then, !.seen = {}, !.first = Nil,
       !.scan = IF then \in Networks THEN Scan(then) ELSE Nil,
       !.updated = @ \/ (network = "tcp" /\ Change(network) /\ selection[network] # Nil)]
  /\ UNCHANGED <<config, real, history, dial, members, live>>

(* ... and its choice is assigned, for one network and then the other.      *)
Assign(network, then) ==
  /\ round.at = network /\ Scanned(round.scan)
  /\ selection' = IF Change(network)
                  THEN [selection EXCEPT ![network] = Choice(round.scan).member] ELSE selection
  /\ round' = [round EXCEPT
       !.at = then, !.seen = {}, !.first = Nil,
       !.scan = IF then \in Networks THEN Scan(then) ELSE Nil,
       !.updated = @ \/ (Change(network) /\ selection[network] # Nil)]
  /\ UNCHANGED <<config, real, history, dial, members, live>>

Finish ==
  /\ round.at = "finish"
  /\ IF round.updated THEN Group!Interrupt(config.interrupt)
     ELSE UNCHANGED <<members, live>>
  /\ round' = NoRound
  /\ UNCHANGED <<config, real, history, selection, dial>>
-----------------------------------------------------------------------------
(* DialContext and ListenPacket dial over the selected member.              *)
DialBegin(d, network, external) ==
  /\ dial[d].at = "idle"
  /\ dial' = [dial EXCEPT ![d] =
       IF selection[network] # Nil
       THEN [at |-> "dialing", via |-> selection[network], external |-> external, scan |-> Nil]
       ELSE [at |-> "select", via |-> Nil, external |-> external, scan |-> Scan(network)]]
  /\ UNCHANGED <<config, real, history, selection, round, members, live>>

(* With nothing selected yet they call Select themselves.                   *)
DialLoad(d) ==
  /\ dial[d].at = "select" /\ ~Scanned(dial[d].scan)
  /\ dial' = [dial EXCEPT ![d].scan = SelectStep(@)]
  /\ UNCHANGED <<config, real, history, selection, round, members, live>>

DialSelected(d) ==
  LET via == Choice(dial[d].scan).member
  IN  /\ dial[d].at = "select" /\ Scanned(dial[d].scan)
      /\ dial' = [dial EXCEPT ![d] =
           IF via = Nil THEN NoDial    \* missing supported outbound
           ELSE [@ EXCEPT !.at = "dialing", !.via = via, !.scan = Nil]]
      /\ UNCHANGED <<config, real, history, selection, round, members, live>>

DialDone(d) ==
  /\ dial[d].at = "dialing"
  /\ dial' = [dial EXCEPT ![d] = [@ EXCEPT !.at = "open", !.via = Nil]]
  /\ Group!NewConn(d, dial[d].external)
  /\ UNCHANGED <<config, real, history, selection, round>>

(* A failed dial deletes the history of the member's own tag.               *)
DialFails(d) ==
  /\ dial[d].at = "dialing"
  /\ dial' = [dial EXCEPT ![d] = NoDial]
  /\ history' = [history EXCEPT ![dial[d].via] = Nil]
  /\ UNCHANGED <<config, real, selection, round, members, live>>

CloseConn(d) ==
  /\ dial[d].at = "open"
  /\ dial' = [dial EXCEPT ![d] = NoDial]
  /\ Group!Close(d)
  /\ UNCHANGED <<config, real, history, selection, round>>
-----------------------------------------------------------------------------
(* A member that is a group selects another of its members.                 *)
Reselect(m, tag) ==
  /\ m \in config.groups
  /\ tag # real[m]
  /\ real' = [real EXCEPT ![m] = tag]
  /\ UNCHANGED <<config, history, selection, round, dial, members, live>>

(* The storage is shared: another group, or the API, tests an outbound.     *)
(* Before performUpdateCheck its result is like one of the round's own.     *)
ForeignTest(tag, result) ==
  /\ tag \in Known \ config.groups
  /\ round.at \in Networks /\ round.foreign < MaxForeign
  /\ history' = [history EXCEPT ![tag] = result]
  /\ round' = [round EXCEPT !.foreign = @ + 1]
  /\ UNCHANGED <<config, real, selection, dial, members, live>>

Results == config.delays \cup {Nil}

RoundStep ==
  \/ (\E young \in BOOLEAN : Visit(young)) \/ Wait \/ CheckLoad \/ Finish
  \/ \E t \in Tags : \E r \in Results : TestDone(t, r)
  \/ Assign("tcp", "udp") \/ Assign("udp", "finish")

Next ==
  \/ Begin
  \/ RoundStep
  \/ \E d \in config.dialers :
       \/ \E n \in Networks : \E x \in BOOLEAN : DialBegin(d, n, x)
       \/ DialLoad(d) \/ DialSelected(d) \/ DialDone(d) \/ DialFails(d) \/ CloseConn(d)
  \/ \E m \in Members : \E t \in Tags \ Members : Reselect(m, t)
  \/ \E t \in Tags : \E r \in Results : ForeignTest(t, r)

Spec == Init /\ [][Next]_vars

(* The goroutine of the round runs, and every test ends within its timeout. *)
FairSpec == Spec /\ WF_vars(RoundStep)
-----------------------------------------------------------------------------
Scans == [network : Networks, next : 0..(Len(Outbounds) + 1),
          delay : config.delays \cup {0}, member : Members \cup {Nil}] \cup {Nil}

TypeOK ==
  /\ config \in Configs
  /\ real \in [Members -> Tags]
  /\ history \in [Tags -> Results]
  /\ selection \in [Networks -> Members \cup {Nil}]
  /\ round \in [at : {"idle", "visit", "tcp", "udp", "finish"},
                next : 1..(Len(Outbounds) + 1), checked : SUBSET Tags,
                testing : SUBSET Tags, updated : BOOLEAN, scan : Scans, foreign : 0..MaxForeign,
                seen : SUBSET [member : Members, delay : config.delays],
                first : config.delays \cup {Nil},
                before : [Networks -> Members \cup {Nil}]]
  /\ dial \in [Dialers -> [at : {"idle", "select", "dialing", "open"},
                           via : Members \cup {Nil}, external : BOOLEAN, scan : Scans]]
  /\ members \subseteq [conn : Dialers, isExternal : BOOLEAN]
  /\ live \subseteq Dialers

(* Delays that are no special case of Select: 0 counts as `none yet', and a *)
(* sum beyond 65535 starts again at 0.                                      *)
Ordinary(loads) == \A l \in loads : l.delay \in 1..(Uint16 - 1 - Tolerance)

(* "The test tolerance in milliseconds" (docs/configuration/outbound/       *)
(* urltest.md): performUpdateCheck leaves selected a member that, in what   *)
(* Select loaded, was slower than no other by more than the tolerance;      *)
(* whatever becomes of the histories and the nested groups between the      *)
(* loads and the assignment.                                                *)
WithinTolerance ==
  [][\A n \in Networks :
       round.at = n /\ round'.at # n /\ round.seen # {} /\ Ordinary(round.seen)
         => \E l \in round.seen :
              /\ l.member = selection'[n]
              /\ \A k \in round.seen : l.delay <= k.delay + Tolerance]_vars

(* No flapping: a selected member is only given up for one that supports    *)
(* the network and whose result was loaded, so that an outage that empties  *)
(* the history does not move the traffic; and if its own result was loaded  *)
(* first, only for one that is faster by more than the tolerance.           *)
NoFlapping ==
  [][\A n \in Networks :
       LET old == selection[n]  new == selection'[n]
       IN  old # Nil /\ new # old
             => \E l \in round.seen :
                  /\ l.member = new /\ n \in config.supports[new]
                  /\ round.first # Nil /\ Ordinary(round.seen)
                       => l.delay + Tolerance < round.first]_vars

(* A round that leaves another member selected than it found, for TCP or    *)
(* for UDP alone, ends with the open connections of the group closed, those *)
(* of inbounds only with interrupt_exist_connections; no other round does.  *)
Replaced == \E n \in Networks : round.before[n] # Nil /\ selection[n] # round.before[n]
UpdateInterrupts ==
  [][round.at = "finish" /\ round'.at = "idle"
       => \A d \in live :
            d \in live' <=> ~(Replaced /\ (~dial[d].external \/ config.interrupt))]_vars

(* A round of tests that began ends, whatever dials and nested groups do.   *)
RoundEnds == (round.at # "idle") ~> (round.at = "idle")
=============================================================================

--------------------------------- MODULE Box ---------------------------------
(***************************************************************************)
(* The life of a Box (src/box.go): the components are started in four      *)
(* stages, Close stops them; a Start that fails calls Close.  The box is   *)
(* started by one goroutine and closed by others, which may not wait for   *)
(* Start or for each other (BoxService, src/experimental/anchorcore/       *)
(* service.go); a Close that takes too long ends the process.              *)
(***************************************************************************)
EXTENDS Naturals, Sequences

CONSTANT Closers     \* goroutines that call Close

Inner == <<"network", "dnsTransport", "dnsRouter", "connection", "router">>
Outer == <<"inbound", "endpoint", "service">>
Managers == {"dnsTransport", "outbound", "inbound", "endpoint", "service"}
Upper == {"internal", "network", "dnsTransport", "dnsRouter", "connection", "router", "outbound"}
Components == Upper \cup Managers

At(stage, names) == [i \in 1..Len(names) |-> <<stage, names[i]>>]

(* The calls adapter.Start and adapter.StartNamed make, in order.           *)
PreStart ==
  At(0, <<"internal">> \o Inner \o <<"outbound">> \o Outer)
    \o At(1, <<"outbound", "dnsTransport", "dnsRouter", "network", "connection", "router">>)

(* Mutant: the inbounds start first.                                        *)
MutPlanEarly ==
  At(0, <<"internal">> \o Inner \o <<"outbound">> \o Outer)
    \o At(1, <<"inbound", "outbound">> \o Inner \o <<"internal", "endpoint", "service">>)

(* Mutant: the services are left out of the stage Start.                    *)
MutPlanShort ==
  PreStart \o At(1, <<"internal", "inbound", "endpoint">>)
    \o At(2, <<"outbound">> \o Inner \o Outer \o <<"internal">>)

Plan ==
  PreStart \o At(1, <<"internal">> \o Outer)
    \o At(2, <<"outbound">> \o Inner \o Outer \o <<"internal">>)
    \o At(3, Inner \o <<"outbound">> \o Outer \o <<"internal">>)

(* Mutant: the outbound manager is forgotten.                               *)
MutStops ==
  <<"service", "endpoint", "inbound", "router", "connection", "dnsRouter",
    "dnsTransport", "network", "internal">>

(* The calls of Close.                                                      *)
Stops ==
  <<"service", "endpoint", "inbound", "outbound", "router", "connection", "dnsRouter",
    "dnsTransport", "network", "internal">>

Starter == "starter"
Threads == Closers \cup {Starter}

VARIABLES
  pc,        \* where each goroutine is in Start or in Close
  next,      \* its next call of Plan or of Stops
  level,     \* stages begun by what each component runs, 0 when stopped
  begun,     \* managers whose `started` is set
  emptied,   \* managers whose Close has dropped what they hold
  done,      \* s.done is closed
  failed,    \* Start has met an error that it will return
  overlap    \* Close may be called while Start or another Close is running

vars == <<pc, next, level, begun, emptied, done, failed, overlap>>
running == <<level, begun, emptied>>

Points == {"idle", "start", "select", "close", "stop", "returned", "panic", "exit"}
Inside == {"start", "select", "close", "stop"}

Init ==
  /\ pc = [t \in Threads |-> "idle"]
  /\ next = [t \in Threads |-> 1]
  /\ level = [c \in Components |-> 0]
  /\ begun = {} /\ emptied = {}
  /\ done = FALSE /\ failed = FALSE
  /\ overlap \in BOOLEAN

Go(t, to) == pc' = [pc EXCEPT ![t] = to]
Gone == \E t \in Threads : pc[t] \in {"panic", "exit"}
-----------------------------------------------------------------------------
Start ==
  /\ pc[Starter] = "idle"
  /\ Go(Starter, "start")
  /\ UNCHANGED <<next, running, done, failed, overlap>>

(* Whose objects a call starts: the endpoint manager leaves the stage Start *)
(* of its endpoints to the outbound manager.                                *)
Started(call) ==
  (CASE call = <<1, "outbound">> -> {"outbound", "endpoint"}
     [] call = <<1, "endpoint">> -> {}
     [] OTHER -> {call[2]}) \ emptied

Call == Plan[next[Starter]]
Raised(cs) == [c \in Components |-> IF c \in cs THEN Call[1] + 1 ELSE level[c]]

(* One component is called with its stage.                                  *)
StartOne ==
  /\ pc[Starter] = "start" /\ next[Starter] <= Len(Plan)
  /\ level' = Raised(Started(Call))
  /\ begun' = begun \cup ({Call[2]} \cap Managers)
  /\ next' = [next EXCEPT ![Starter] = @ + 1]
  /\ UNCHANGED <<pc, emptied, done, failed, overlap>>

(* It fails, with the stage begun or not: Start calls Close.                *)
StartFails ==
  /\ pc[Starter] = "start" /\ next[Starter] <= Len(Plan)
  /\ Started(Call) # {}
  /\ \E cs \in SUBSET Started(Call) : level' = Raised(cs)
  /\ begun' = begun \cup ({Call[2]} \cap Managers)
  /\ failed' = TRUE
  /\ next' = [next EXCEPT ![Starter] = 1]
  /\ Go(Starter, "select")
  /\ UNCHANGED <<emptied, done, overlap>>

StartReturns ==
  /\ pc[Starter] = "start" /\ next[Starter] > Len(Plan)
  /\ Go(Starter, "returned")
  /\ UNCHANGED <<next, running, done, failed, overlap>>
-----------------------------------------------------------------------------
Close(t) ==
  /\ t \in Closers /\ pc[t] = "idle"
  /\ pc[Starter] # "idle"
  /\ overlap \/ \A u \in Threads : pc[u] \notin Inside
  /\ Go(t, "select")
  /\ UNCHANGED <<next, running, done, failed, overlap>>


(* The select on s.done: ErrClosed, or on to close(s.done).                 *)
Select(t) ==
  /\ pc[t] = "select"
  /\ Go(t, IF done THEN "returned" ELSE "close")
  /\ UNCHANGED <<next, running, done, failed, overlap>>

(* close(s.done).                                                           *)
CloseDone(t) ==
  /\ pc[t] = "close" /\ ~done
  /\ Go(t, "stop")
  /\ done' = TRUE
  /\ UNCHANGED <<next, running, failed, overlap>>

(* It panics when another goroutine came first.  Start recovers from that   *)
(* panic, and then returns nil; the goroutine of BoxService.Close does not. *)
ClosePanics(t) ==
  /\ pc[t] = "close" /\ done
  /\ Go(t, IF t = Starter THEN "returned" ELSE "panic")
  /\ failed' = (failed /\ t # Starter)
  /\ UNCHANGED <<next, running, done, overlap>>

(* A component is closed; a manager that is not started returns at once.    *)
StopOne(t) ==
  /\ pc[t] = "stop" /\ next[t] <= Len(Stops)
  /\ LET c == Stops[next[t]] IN
       IF c \in Managers \ begun
         THEN UNCHANGED running
         ELSE /\ level' = [level EXCEPT ![c] = 0]
              /\ begun' = begun \ {c}
              /\ emptied' = emptied \cup ({c} \cap Managers)
  /\ next' = [next EXCEPT ![t] = @ + 1]
  /\ UNCHANGED <<pc, done, failed, overlap>>

CloseReturns(t) ==
  /\ pc[t] = "stop" /\ next[t] > Len(Stops)
  /\ Go(t, "returned")
  /\ UNCHANGED <<next, running, done, failed, overlap>>

(* BoxService.Close waits for the goroutine that runs Close, for no longer  *)
(* than FatalStopTimeout: os.Exit.                                          *)
Exit(t) ==
  /\ t \in Closers /\ pc[t] \in Inside
  /\ Go(t, "exit")
  /\ UNCHANGED <<next, running, done, failed, overlap>>

CloseStep(t) ==
  Select(t) \/ CloseDone(t) \/ ClosePanics(t) \/ StopOne(t) \/ CloseReturns(t) \/ Exit(t)

Next ==
  /\ ~Gone
  /\ \/ Start \/ StartOne \/ StartFails \/ StartReturns
     \/ \E t \in Threads : Close(t) \/ CloseStep(t)

Spec == Init /\ [][Next]_vars
-----------------------------------------------------------------------------
(* Every variable has its type.                                             *)
TypeOK ==
  /\ pc \in [Threads -> Points]
  /\ next \in [Threads -> 1..(Len(Plan) + 1)]
  /\ level \in [Components -> 0..4]
  /\ begun \subseteq Managers /\ emptied \subseteq Managers
  /\ done \in BOOLEAN /\ failed \in BOOLEAN
  /\ overlap \in BOOLEAN

(* A connection can come in once the inbounds or the services have begun    *)
(* the stage Start: until Close begins, all that serves it has begun it     *)
(* too.  Endpoints accept earlier: the outbound manager starts them as the  *)
(* first call of the stage Start, so what they hand to the router is only   *)
(* known to find every component initialized.                               *)
ServedWhenOpen ==
  ~done =>
    /\ \A c \in {"inbound", "service"} : level[c] >= 2 => (\A u \in Upper : level[u] >= 2)
    /\ level["endpoint"] >= 2 => \A u \in Components : level[u] >= 1

(* preStart and start finish each stage everywhere before the next begins.  *)
StagesInStep ==
  ~done /\ ~failed => \A c, u \in Components : level[c] <= level[u] + 1


(* When no Close is called during Start or another Close: a Start that did  *)
(* not make all of its calls returns an error, and once Start and every     *)
(* Close that was called have returned, a box that failed to start, or was  *)
(* closed, runs nothing.                                                    *)
EndsRight ==
  ~overlap =>
    /\ pc[Starter] = "returned" /\ next[Starter] <= Len(Plan) => failed
    /\ (failed \/ done) /\ (\A t \in Threads : pc[t] \in {"idle", "returned"})
         => \A c \in Components : level[c] = 0
=============================================================================

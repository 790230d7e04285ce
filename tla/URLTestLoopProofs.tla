------------------------- MODULE URLTestLoopProofs -------------------------
(***************************************************************************)
(* Proofs about URLTestLoop for any number of tickers and callers.         *)
(***************************************************************************)
EXTENDS URLTestLoop, TLAPS

USE DEF NoTicker, Tickers, tickerVars, lifeVars

(* Every step of a urltest group keeps its variables in their types.        *)
THEOREM TypeCorrect == Spec => []TypeOK
<1> USE MaxTickersAssumption, PostAssumption DEF Ages, LoopStates, CallerStates
<1>1. Init => TypeOK
  <2>1. 0 \in 0..MaxTickers
    OBVIOUS
  <2> QED
    BY <2>1, Zenon DEF Init, TypeOK
<1>2. TypeOK /\ [Next]_vars => TypeOK'
  <2> SUFFICES ASSUME TypeOK, [Next]_vars PROVE TypeOK'
    OBVIOUS
  <2> USE DEF TypeOK
  <2>1. CASE PostStart
    BY <2>1 DEF PostStart
  <2>2. CASE TouchActive
    BY <2>2 DEF TouchActive
  <2>3. CASE TouchIdle
    BY <2>3 DEF TouchIdle, StartTicker
  <2>4. CASE Close
    BY <2>4 DEF Close
  <2>5. ASSUME NEW l \in Tickers, LoopStep(l) PROVE TypeOK'
    <3>1. CASE LoopBegin(l) \/ LoopClosed(l) \/ LoopTick(l)
      BY <3>1 DEF LoopBegin, LoopClosed, LoopTick, Go
    <3>2. CASE LoopIdleCheck(l)
      BY <3>2 DEF LoopIdleCheck, Go
    <3>3. CASE LoopStop(l)
      BY <3>3 DEF LoopStop, Go
    <3>4. CASE LoopCheck(l) \/ LoopTested(l)
      BY <3>4 DEF LoopCheck, LoopTested, Go
    <3> QED
      BY <2>5, <3>1, <3>2, <3>3, <3>4 DEF LoopStep
  <2>6. ASSUME NEW c \in Callers, CallerStep(c) PROVE TypeOK'
    <3>1. CASE Call(c)
      BY <3>1 DEF Call
    <3>2. CASE CallerCheck(c) \/ CallerTested(c)
      BY <3>2 DEF CallerCheck, CallerTested
    <3> QED
      BY <2>6, <3>1, <3>2 DEF CallerStep
  <2>7. CASE TimePasses
    BY <2>7 DEF TimePasses
  <2>8. CASE PauseChange
    BY <2>8 DEF PauseChange
  <2>9. CASE UNCHANGED vars
    BY <2>9 DEF vars
  <2> QED
    BY <2>1, <2>2, <2>3, <2>4, <2>5, <2>6, <2>7, <2>8, <2>9 DEF Next
<1> QED
  BY <1>1, <1>2, PTL DEF Spec

(* For any number of tickers: a loop that is running owns g.ticker, which   *)
(* it dereferences without a nil check; an open group that has a ticker has *)
(* its loop; and the pause manager holds no callback of a discarded ticker. *)
THEOREM TickerInvariance == Spec => []TickerInv
<1> USE MaxTickersAssumption DEF TickerFacts, LoopOwnsTicker, TickerHasLoop, CallbackIsCurrent, Alive
<1>1. Init => TickerFacts
  BY DEF Init
<1>2. TypeOK /\ TickerFacts /\ [Next]_vars => TickerFacts'
  <2> SUFFICES ASSUME TypeOK, TickerFacts, [Next]_vars PROVE TickerFacts'
    OBVIOUS
  <2> USE DEF TypeOK
  <2>1. CASE PostStart
    BY <2>1 DEF PostStart
  <2>2. CASE TouchActive
    BY <2>2 DEF TouchActive
  <2>3. CASE TouchIdle
    BY <2>3 DEF TouchIdle, StartTicker
  <2>4. CASE Close
    BY <2>4 DEF Close
  <2>5. ASSUME NEW l \in Tickers, LoopStep(l) PROVE TickerFacts'
    <3>1. CASE LoopBegin(l)
      BY <3>1 DEF LoopBegin, Go
    <3>2. CASE LoopClosed(l)
      BY <3>2 DEF LoopClosed, Go
    <3>3. CASE LoopTick(l)
      BY <3>3 DEF LoopTick, Go
    <3>4. CASE LoopIdleCheck(l)
      BY <3>4 DEF LoopIdleCheck, Go
    <3>5. CASE LoopStop(l)
      BY <3>5 DEF LoopStop, Go
    <3>6. CASE LoopCheck(l)
      BY <3>6 DEF LoopCheck, Go
    <3>7. CASE LoopTested(l)
      BY <3>7 DEF LoopTested, Go
    <3> QED
      BY <2>5, <3>1, <3>2, <3>3, <3>4, <3>5, <3>6, <3>7 DEF LoopStep
  <2>6. ASSUME NEW c \in Callers, CallerStep(c) PROVE TickerFacts'
    BY <2>6 DEF CallerStep, Call, CallerCheck, CallerTested
  <2>7. CASE TimePasses
    BY <2>7 DEF TimePasses
  <2>8. CASE PauseChange
    BY <2>8 DEF PauseChange
  <2>9. CASE UNCHANGED vars
    BY <2>9 DEF vars
  <2> QED
    BY <2>1, <2>2, <2>3, <2>4, <2>5, <2>6, <2>7, <2>8, <2>9 DEF Next
<1> QED
  BY <1>1, <1>2, TypeCorrect, PTL DEF Spec, TickerInv

(* The goroutine of PostStart exists only once the group has started.       *)
PostWaits == ~started => caller[Post] = "off"

(* At most one round of tests runs at a time, and g.checking tells whether  *)
(* one does, whichever goroutines call CheckOutbounds and in any order.     *)
THEOREM SingleFlightInvariance == Spec => []SingleFlight
<1> USE MaxTickersAssumption DEF SingleFlight, TestingLoops, TestingCallers
<1>1. Init => SingleFlight /\ PostWaits
  BY PostAssumption DEF Init, PostWaits
<1>2. TypeOK /\ PostWaits /\ [Next]_vars => PostWaits'
  BY PostAssumption
  DEF TypeOK, PostWaits, Next, vars, PostStart, TouchActive, TouchIdle,
      StartTicker, Close, LoopStep, LoopBegin, LoopClosed, LoopTick,
      LoopIdleCheck, LoopStop, LoopCheck, LoopTested, Go, CallerStep, Call,
      CallerCheck, CallerTested, TimePasses, PauseChange
<1>3. TypeOK /\ TickerInv /\ PostWaits /\ SingleFlight /\ [Next]_vars => SingleFlight'
  <2> SUFFICES ASSUME TypeOK, TickerInv, PostWaits, SingleFlight, [Next]_vars
               PROVE SingleFlight'
    OBVIOUS
  <2> USE DEF TypeOK
  <2>1. CASE UNCHANGED <<loop, checking, caller>>
    BY <2>1
  <2>2. ASSUME NEW l \in Tickers, LoopStep(l) PROVE SingleFlight'
    <3>1. CASE LoopCheck(l)
      BY <3>1 DEF LoopCheck, Go
    <3>2. CASE LoopTested(l)
      BY <3>2 DEF LoopTested, Go
    <3>3. CASE \/ LoopBegin(l) \/ LoopClosed(l) \/ LoopTick(l)
               \/ LoopIdleCheck(l) \/ LoopStop(l)
      <4>1. UNCHANGED <<checking, caller>>
        BY <3>3 DEF LoopBegin, LoopClosed, LoopTick, LoopIdleCheck, LoopStop
      <4>2. loop[l] # "testing" /\ loop'[l] # "testing"
        BY <3>3 DEF LoopBegin, LoopClosed, LoopTick, LoopIdleCheck, LoopStop, Go
      <4>3. \A m \in Tickers : m # l => loop'[m] = loop[m]
        BY <3>3 DEF LoopBegin, LoopClosed, LoopTick, LoopIdleCheck, LoopStop, Go
      <4>4. TestingLoops' = TestingLoops
        BY <4>2, <4>3
      <4> QED
        BY <4>1, <4>4
    <3> QED
      BY <2>2, <3>1, <3>2, <3>3 DEF LoopStep
  <2>3. ASSUME NEW c \in Callers, CallerStep(c) PROVE SingleFlight'
    <3>1. CASE Call(c)
      BY <3>1 DEF Call
    <3>2. CASE CallerCheck(c)
      BY <3>2 DEF CallerCheck
    <3>3. CASE CallerTested(c)
      BY <3>3 DEF CallerTested
    <3> QED
      BY <2>3, <3>1, <3>2, <3>3 DEF CallerStep
  <2>4. CASE PostStart
    BY <2>4, PostAssumption DEF PostStart, PostWaits
  <2>5. CASE TouchIdle
    BY <2>5 DEF TouchIdle, StartTicker, TickerInv, TickerFacts, LoopOwnsTicker, Alive
  <2> QED
    BY <2>1, <2>2, <2>3, <2>4, <2>5
    DEF Next, TouchActive, Close, TimePasses, PauseChange, vars
<1> QED
  BY <1>1, <1>2, <1>3, TypeCorrect, TickerInvariance, PTL DEF Spec
============================================================================

---------------------------- MODULE URLTestLoop ----------------------------
(***************************************************************************)
(* The life of a urltest group: PostStart, Touch, Close and the background *)
(* goroutine loopCheck of src/protocol/group/urltest.go.                   *)
(*                                                                         *)
(* Touch starts a ticker and a loopCheck goroutine when the group is used; *)
(* the loop stops its own ticker once the group has been idle for longer   *)
(* than idle_timeout, and a later Touch starts the next one.  Everything   *)
(* that runs with g.access held is one step; the steps of loopCheck that   *)
(* run without it are steps of their own, so Touch and Close fall between  *)
(* any two of them.  What a round of tests does (urlTest after the swap of *)
(* `checking') is in URLTestSelection; here it only begins and ends.       *)
(***************************************************************************)
EXTENDS Naturals

CONSTANTS
  MaxTickers,   \* bound: how many tickers (and loops) Touch may create
  Callers,      \* goroutines that call CheckOutbounds or URLTest from outside
  Post          \* the one started by PostStart

ASSUME MaxTickersAssumption == MaxTickers \in Nat
ASSUME PostAssumption == Post \in Callers

VARIABLES
  started,      \* g.started
  ticker,       \* g.ticker: the number of the current ticker, NoTicker for nil
  ticking,      \* the current ticker is running (neither stopped nor paused)
  callback,     \* g.pauseCallback as the pause manager sees it: whose ticker
  created,      \* how many tickers Touch has created
  loop,         \* the loopCheck goroutine started with each ticker
  age,          \* how long ago g.lastActive was stored
  closed,       \* the channel g.close is closed
  closing,      \* Close has been called by the outbound manager
  paused,       \* state of the pause manager (external)
  checking,     \* g.checking
  caller        \* the outside callers of CheckOutbounds

tickerVars == <<ticker, ticking, callback, created>>
lifeVars == <<started, closed, closing, paused>>
vars == <<tickerVars, lifeVars, loop, age, checking, caller>>

NoTicker == 0
Tickers == 1..MaxTickers

(* time.Since(g.lastActive): at most interval, at most idleTimeout, more.   *)
Ages == {"fresh", "late", "idle"}
LoopStates == {"none", "begin", "select", "ticked", "stop", "check",
               "testing", "done"}
CallerStates == {"off", "check", "testing"}

(* A loop that has been started and has not returned.                       *)
Alive(l) == loop[l] \notin {"none", "done"}

(* The zero time.Time of a value never stored is older than any timeout.    *)
Init ==
  /\ started = FALSE
  /\ ticker = NoTicker
  /\ ticking = FALSE
  /\ callback = NoTicker
  /\ created = 0
  /\ loop = [l \in Tickers |-> "none"]
  /\ age = "idle"
  /\ closed = FALSE
  /\ closing = FALSE
  /\ paused = FALSE
  /\ checking = FALSE
  /\ caller = [c \in Callers |-> "off"]

PostStart ==
  /\ ~started
  /\ started' = TRUE
  /\ age' = "fresh"
  /\ caller' = [caller EXCEPT ![Post] = "check"]
  /\ UNCHANGED <<tickerVars, loop, closed, closing, paused, checking>>

(* The early return when a ticker exists only refreshes lastActive.         *)
TouchActive ==
  /\ started
  /\ ticker # NoTicker
  /\ age' = "fresh"
  /\ UNCHANGED <<tickerVars, lifeVars, loop, checking, caller>>

(* Mutant: Touch without its early return also runs with a ticker present.  *)
MutTouchAlways ==
  /\ started
  /\ created < MaxTickers
  /\ ticker' = created + 1
  /\ created' = created + 1
  /\ loop' = [loop EXCEPT ![created + 1] = "begin"]
  /\ callback' = created + 1
  /\ ticking' = ~paused
  /\ UNCHANGED <<lifeVars, age, checking, caller>>

(* A new ticker, its loop and its pause callback.                           *)
StartTicker(n) ==
  /\ ticker' = n
  /\ created' = n
  /\ loop' = [loop EXCEPT ![n] = "begin"]
  /\ callback' = n
  /\ ticking' = ~paused

TouchIdle ==
  /\ started
  /\ ticker = NoTicker
  /\ created < MaxTickers
  /\ StartTicker(created + 1)
  /\ UNCHANGED <<lifeVars, age, checking, caller>>

(* The outbound manager closes an outbound once.  With no ticker Close      *)
(* returns before it closes the channel.                                    *)
Close ==
  /\ ~closing
  /\ closing' = TRUE
  /\ IF ticker = NoTicker
     THEN UNCHANGED <<ticking, callback, closed>>
     ELSE /\ ticking' = FALSE
          /\ callback' = NoTicker
          /\ closed' = TRUE
  /\ UNCHANGED <<started, ticker, created, loop, age, paused, checking, caller>>
-----------------------------------------------------------------------------
(* loopCheck, one goroutine per ticker.                                     *)

Go(l, from, to) ==
  /\ loop[l] = from
  /\ loop' = [loop EXCEPT ![l] = to]

LoopBegin(l) ==
  /\ IF age = "fresh"
     THEN Go(l, "begin", "select") /\ UNCHANGED age
     ELSE Go(l, "begin", "check") /\ age' = "fresh"
  /\ UNCHANGED <<tickerVars, lifeVars, checking, caller>>

(* Mutant: the close channel is only polled after a tick.                   *)
MutLoopClosed(l) ==
  /\ closed
  /\ ticking
  /\ Go(l, "select", "done")
  /\ UNCHANGED <<tickerVars, lifeVars, age, checking, caller>>

(* The two arms of the select statement.                                    *)
LoopClosed(l) ==
  /\ closed
  /\ Go(l, "select", "done")
  /\ UNCHANGED <<tickerVars, lifeVars, age, checking, caller>>

LoopTick(l) ==
  /\ ticking
  /\ Go(l, "select", "ticked")
  /\ UNCHANGED <<tickerVars, lifeVars, age, checking, caller>>

(* lastActive is read before g.access is taken.                             *)
LoopIdleCheck(l) ==
  /\ Go(l, "ticked", IF age = "idle" THEN "stop" ELSE "check")
  /\ UNCHANGED <<tickerVars, lifeVars, age, checking, caller>>

LoopStop(l) ==
  /\ Go(l, "stop", "done")
  /\ ticker' = NoTicker
  /\ ticking' = FALSE
  /\ callback' = NoTicker
  /\ UNCHANGED <<lifeVars, created, age, checking, caller>>

(* Mutant: the flag is loaded and stored, and a round is not refused.       *)
MutLoopCheck(l) ==
  /\ Go(l, "check", "testing")
  /\ checking' = TRUE
  /\ UNCHANGED <<tickerVars, lifeVars, age, caller>>

(* CheckOutbounds: a round is skipped when g.checking was already set.      *)
LoopCheck(l) ==
  /\ Go(l, "check", IF checking THEN "select" ELSE "testing")
  /\ checking' = TRUE
  /\ UNCHANGED <<tickerVars, lifeVars, age, caller>>

LoopTested(l) ==
  /\ Go(l, "testing", "select")
  /\ checking' = FALSE
  /\ UNCHANGED <<tickerVars, lifeVars, age, caller>>
-----------------------------------------------------------------------------
(* CheckOutbounds and URLTest called from outside the loop.                 *)

Call(c) ==
  /\ c # Post
  /\ caller[c] = "off"
  /\ caller' = [caller EXCEPT ![c] = "check"]
  /\ UNCHANGED <<tickerVars, lifeVars, loop, age, checking>>

CallerCheck(c) ==
  /\ caller[c] = "check"
  /\ caller' = [caller EXCEPT ![c] = IF checking THEN "off" ELSE "testing"]
  /\ checking' = TRUE
  /\ UNCHANGED <<tickerVars, lifeVars, loop, age>>

CallerTested(c) ==
  /\ caller[c] = "testing"
  /\ caller' = [caller EXCEPT ![c] = "off"]
  /\ checking' = FALSE
  /\ UNCHANGED <<tickerVars, lifeVars, loop, age>>
-----------------------------------------------------------------------------
(* The clock and the pause manager.                                         *)

TimePasses ==
  /\ \E a \in (IF age = "fresh" THEN {"late", "idle"}
               ELSE IF age = "late" THEN {"idle"} ELSE {}) : age' = a
  /\ UNCHANGED <<tickerVars, lifeVars, loop, checking, caller>>

(* The callback pause.RegisterTicker installs stops its ticker on a pause   *)
(* and resets it on a wake-up.                                              *)
PauseChange ==
  /\ paused' = ~paused
  /\ ticking' = IF callback # NoTicker THEN paused ELSE ticking
  /\ UNCHANGED <<started, ticker, callback, created, loop, age, closed, closing, checking, caller>>

LoopStep(l) ==
  \/ LoopBegin(l) \/ LoopClosed(l) \/ LoopTick(l) \/ LoopIdleCheck(l)
  \/ LoopStop(l) \/ LoopCheck(l) \/ LoopTested(l)

CallerStep(c) == Call(c) \/ CallerCheck(c) \/ CallerTested(c)

Next ==
  \/ PostStart \/ TouchActive \/ TouchIdle \/ Close
  \/ \E l \in Tickers : LoopStep(l)
  \/ \E c \in Callers : CallerStep(c)
  \/ TimePasses \/ PauseChange

Spec == Init /\ [][Next]_vars

(* Goroutines that can run do run; a round of tests ends because every test *)
(* has a timeout; a select whose close arm stays ready takes it eventually, *)
(* as Go chooses among ready arms at random.                                *)
Fairness ==
  /\ \A l \in Tickers :
       /\ WF_vars(LoopBegin(l) \/ LoopIdleCheck(l) \/ LoopStop(l)
                  \/ LoopCheck(l) \/ LoopTested(l))
       /\ SF_vars(LoopClosed(l))
  /\ \A c \in Callers : WF_vars(CallerCheck(c) \/ CallerTested(c))

FairSpec == Spec /\ Fairness
-----------------------------------------------------------------------------
TypeOK ==
  /\ started \in BOOLEAN
  /\ ticker \in {NoTicker} \cup Tickers
  /\ ticking \in BOOLEAN
  /\ callback \in {NoTicker} \cup Tickers
  /\ created \in 0..MaxTickers
  /\ loop \in [Tickers -> LoopStates]
  /\ age \in Ages
  /\ closed \in BOOLEAN
  /\ closing \in BOOLEAN
  /\ paused \in BOOLEAN
  /\ checking \in BOOLEAN
  /\ caller \in [Callers -> CallerStates]

(* A loopCheck goroutine that is still running owns the current ticker: so  *)
(* there is never a second loop, and g.ticker, which the loop reads and     *)
(* stops without a nil check (urltest.go:340, 344), is never nil under it.  *)
LoopOwnsTicker ==
  \A l \in Tickers : Alive(l) => ticker = l

(* As long as the group is not closed a ticker has its loop: no order of    *)
(* idle stop and Touch leaves a group whose Touch returns early (a ticker   *)
(* exists) while nobody tests its outbounds.                                *)
TickerHasLoop ==
  ticker # NoTicker /\ ~closed => Alive(ticker)

(* The pause manager only ever stops or restarts the current ticker: the    *)
(* callback of a ticker that the idle stop or Close discarded is gone.      *)
CallbackIsCurrent ==
  callback # NoTicker => callback = ticker

TickerFacts == LoopOwnsTicker /\ TickerHasLoop /\ CallbackIsCurrent

(* The three together, for none of them is inductive alone: a running loop  *)
(* owns g.ticker, an open group with a ticker has its loop, and the pause   *)
(* callback is the current ticker's, in every order of Touch, Close, the    *)
(* idle stop and pauses; and every variable keeps its type.                 *)
TickerInv == TypeOK /\ TickerFacts

(* At most one goroutine is inside a round of tests, and g.checking is set  *)
(* exactly while one is: a round is never lost to a flag left set.          *)
TestingLoops == {l \in Tickers : loop[l] = "testing"}
TestingCallers == {c \in Callers : caller[c] = "testing"}
SingleFlight ==
  /\ checking <=> (TestingLoops # {} \/ TestingCallers # {})
  /\ TestingLoops = {} \/ TestingCallers = {}
  /\ \A l, m \in TestingLoops : l = m
  /\ \A c, d \in TestingCallers : c = d

(* Once Close has closed the channel, every loop ends.  A Close that finds  *)
(* no ticker returns before it closes the channel (urltest.go:278): a loop  *)
(* that a later Touch starts is outside of this promise, and lives on.      *)
ClosedLoopEnds ==
  \A l \in Tickers : (closed /\ Alive(l)) ~> ~Alive(l)
============================================================================

----------------------- MODULE ConnectionManagerProofs -----------------------
(***************************************************************************)
(* Proofs about ConnectionManager, for any number of connections.          *)
(***************************************************************************)
EXTENDS ConnectionManager, TLAPS

Swapped == {"notify", "close", "ended"}      \* done.Swap has been called
Notified == {"close", "ended"}               \* and onClose too, if it had to be

(* The types, with calls unbounded.                                         *)
Types ==
  /\ phase \in [Conns -> Phases]
  /\ open \in [Conns -> SUBSET Ends]
  /\ list \subseteq Conns
  /\ done \subseteq Conns
  /\ copy \in [Conns \X Directions -> States]
  /\ calls \in [Conns -> Nat]
  /\ early \subseteq Conns

(* What holds of one connection before its copies start.                    *)
BeforeCopy(c) ==
  phase[c] # "copy" =>
    /\ \A d \in Directions : copy[<<c, d>>] = "none"
    /\ calls[c] <= 1
    /\ phase[c] # "failed" => calls[c] = 0
    /\ phase[c] # "early_download" => c \notin done /\ c \notin early
    /\ c \in done <=> c \in early
    /\ phase[c] \in {"early_upload", "early_download"} => c \in TCP

(* And while they run, with one goroutine at u and the other at w, when the *)
(* flag is set for the connections of D, early handshakes failed for those  *)
(* of E, and onClose was called n times.  The flag is set exactly when a    *)
(* goroutine or an early handshake swapped it.  A stream is notified by its *)
(* second swapper, a packet connection by its first.                        *)
Counted(c, D, E, n, u, w) ==
  /\ u # "none" /\ w # "none"
  /\ c \in D <=> (c \in E \/ u \in Swapped \/ w \in Swapped)
  /\ c \in UDP => c \notin E /\ u # "swap" /\ w # "swap"
  /\ c \in E /\ (u \in Notified \/ w \in Notified) => n > 0
  /\ c \in TCP /\ c \notin E /\ (u \notin Swapped \/ w \notin Swapped)
       => n = 0 /\ u # "notify" /\ w # "notify"
  /\ (u = "notify" \/ w = "notify") /\ c \notin E => n = 0
  /\ u # "notify" \/ w # "notify" \/ c \in E
  /\ u \in Notified /\ w \in Notified => n > 0
  /\ c \in UDP /\ (u \in Notified \/ w \in Notified) /\ u # "notify" /\ w # "notify"
       => n > 0
  /\ c \in UDP /\ u \notin Swapped /\ w \notin Swapped => n = 0
  /\ c \notin E => n <= 1
  /\ u \notin Notified /\ w \notin Notified => n <= 1
  /\ u \notin Notified \/ w \notin Notified => n <= 2
  /\ n <= 3

WhileCopy(c) ==
  phase[c] = "copy" =>
    /\ Counted(c, done, early, calls[c], copy[<<c, Upload>>], copy[<<c, Download>>])
    /\ Ended(c) => open[c] = {}

OneConn(c) ==
  /\ BeforeCopy(c)
  /\ WhileCopy(c)
  /\ calls[c] > 0 => c \notin list
  /\ c \in list => phase[c] \in {"early_upload", "early_download", "copy"}

(* The inductive invariant.                                                 *)
ConnInv == \A c \in Conns : OneConn(c)

(* A step that leaves connection e alone, or only closes ends of it and     *)
(* drops it from the list.                                                  *)
Quiet(e) ==
  /\ phase'[e] = phase[e]
  /\ open'[e] \subseteq open[e]
  /\ \A d \in Directions : copy'[<<e, d>>] = copy[<<e, d>>]
  /\ calls'[e] = calls[e]
  /\ e \in done' <=> e \in done
  /\ e \in early' <=> e \in early
  /\ e \in list' => e \in list

(* The names used below are phases, states of a copy, ends.                 *)
LEMMA Members ==
  /\ {"new", "dial", "report", "failed", "early_upload", "early_download", "copy"} \subseteq Phases
  /\ {"none", "start", "payload", "copy", "write"} \subseteq States
  /\ {"swap", "swap_close", "notify", "close", "ended"} \subseteq States
  /\ {"local", "remote"} \subseteq Ends
BY DEF Phases, States, Copying, Writing, Ends

(* Every step keeps the type of every variable.                             *)
LEMMA TypesStep ==
  ASSUME Types, [Next]_vars
  PROVE  Types'
<1> USE DEF Types
<1>1. ASSUME NEW c \in Conns, Setup(c) PROVE Types'
  <2>1. CASE NewConnection(c)
    BY <2>1, Members DEF NewConnection
  <2>2. CASE DialFails(c)
    <3>1. calls' \in [Conns -> Nat]
      BY <2>2 DEF DialFails, Notify
    <3> QED
      BY <2>2, <3>1, Members DEF DialFails
  <2>3. CASE Dialed(c)
    BY <2>3, Members DEF Dialed
  <2>4. CASE ReportFails(c)
    <3>1. calls' \in [Conns -> Nat]
      BY <2>4 DEF ReportFails
    <3> QED
      BY <2>4, <3>1, Members DEF ReportFails
  <2>5. CASE Register(c)
    BY <2>5, Members DEF Register, StartCopy
  <2>6. CASE EarlyDone(c)
    BY <2>6, Members DEF EarlyDone, EarlyNext, StartCopy
  <2>7. CASE EarlyFails(c)
    <3>1. calls' \in [Conns -> Nat]
      <4>1. CASE c \in done
        <5>1. calls' = [calls EXCEPT ![c] = @ + 1]
          BY <2>7, <4>1 DEF EarlyFails, Notify
        <5> QED
          BY <5>1
      <4>2. CASE c \notin done
        BY <2>7, <4>2 DEF EarlyFails
      <4> QED
        BY <4>1, <4>2
    <3>2. list' \subseteq Conns
      BY <2>7 DEF EarlyFails
    <3> QED
      BY <2>7, <3>1, <3>2, Members DEF EarlyFails, EarlyNext, StartCopy
  <2> QED
    BY <1>1, <2>1, <2>2, <2>3, <2>4, <2>5, <2>6, <2>7 DEF Setup
<1>2. ASSUME NEW c \in Conns, NEW d \in Directions, Copy(c, d) PROVE Types'
  <2>1. CASE CopyEOF(c, d)
    BY <2>1, Members DEF CopyEOF, SetCopy
  <2>2. CASE CopyError(c, d)
    BY <2>2, Members DEF CopyError, SetCopy
  <2>3. CASE PayloadFails(c, d) \/ PacketsEnd(c, d)
    BY <2>3, Members DEF PayloadFails, PacketsEnd, SetCopy
  <2>4. CASE Begin(c, d) \/ Write(c, d) \/ Written(c, d)
    BY <2>4, Members DEF Begin, Write, Written, SetCopy
  <2> QED
    BY <1>2, <2>1, <2>2, <2>3, <2>4 DEF Copy
<1>3. ASSUME NEW c \in Conns, NEW d \in Directions, Finish(c, d) PROVE Types'
  <2>1. CASE Swap(c, d)
    BY <2>1, Members DEF Swap, SetCopy
  <2>2. CASE OnClose(c, d)
    <3>1. calls' \in [Conns -> Nat]
      BY <2>2 DEF OnClose, Notify
    <3> QED
      BY <2>2, <3>1, Members DEF OnClose, SetCopy
  <2>3. CASE CloseBoth(c, d)
    BY <2>3, Members DEF CloseBoth, SetCopy
  <2> QED
    BY <1>3, <2>1, <2>2, <2>3 DEF Finish
<1>4. CASE Close
  BY <1>4, Members DEF Close
<1>5. CASE UNCHANGED vars
  BY <1>5 DEF vars
<1> QED
  BY <1>1, <1>2, <1>3, <1>4, <1>5 DEF Next

(* So every variable has its type.                                          *)
LEMMA TypesInvariance == Spec => []Types
<1>1. Init => Types
  <2> SUFFICES ASSUME Init PROVE Types
    OBVIOUS
  <2>1. phase \in [Conns -> Phases]
    BY Members DEF Init
  <2>2. copy \in [Conns \X Directions -> States]
    BY Members, Zenon DEF Init
  <2>3. calls \in [Conns -> Nat] /\ open \in [Conns -> SUBSET Ends]
    BY DEF Init
  <2> QED
    BY <2>1, <2>2, <2>3 DEF Init, Types
<1>2. Types /\ [Next]_vars => Types'
  BY TypesStep
<1> QED
  BY <1>1, <1>2, PTL DEF Spec
-----------------------------------------------------------------------------
(* A quiet step preserves what ConnInv says of the connection.              *)
LEMMA QuietPreserves ==
  ASSUME NEW e \in Conns, OneConn(e), Quiet(e)
  PROVE  OneConn(e)'
<1>1. BeforeCopy(e)'
  BY DEF OneConn, Quiet, BeforeCopy
<1>2. WhileCopy(e)'
  BY DEF OneConn, Quiet, WhileCopy, Counted, Ended, Directions, Upload, Download
<1> QED
  BY <1>1, <1>2 DEF OneConn, Quiet

(* Setting up one connection is quiet for the others.                       *)
LEMMA SetupIsQuiet ==
  ASSUME Types, NEW c \in Conns, Setup(c), NEW e \in Conns, e # c
  PROVE  Quiet(e)
<1> USE DEF Types, Quiet
<1>1. CASE NewConnection(c)
  BY <1>1 DEF NewConnection
<1>2. CASE DialFails(c) \/ Dialed(c) \/ ReportFails(c)
  BY <1>2 DEF DialFails, Dialed, ReportFails, Notify
<1>3. CASE Register(c)
  BY <1>3 DEF Register, StartCopy
<1>4. CASE EarlyDone(c)
  BY <1>4 DEF EarlyDone, EarlyNext, StartCopy
<1>5. CASE EarlyFails(c)
  BY <1>5 DEF EarlyFails, EarlyNext, StartCopy, Notify
<1> QED
  BY <1>1, <1>2, <1>3, <1>4, <1>5 DEF Setup

(* And so is copying.                                                       *)
LEMMA CopyIsQuiet ==
  ASSUME Types, NEW c \in Conns, NEW d \in Directions, Copy(c, d) \/ Finish(c, d),
         NEW e \in Conns, e # c
  PROVE  Quiet(e)
<1> USE DEF Types, Quiet, SetCopy
<1>1. CASE Copy(c, d)
  BY <1>1 DEF Copy, Begin, Write, Written, CopyEOF, CopyError, PayloadFails, PacketsEnd
<1>2. CASE Finish(c, d)
  BY <1>2 DEF Finish, Swap, OnClose, CloseBoth, Notify
<1> QED
  BY <1>1, <1>2

(* Setting up a connection preserves what ConnInv says of it.               *)
LEMMA SetupPreserves ==
  ASSUME Types, Types', NEW c \in Conns, OneConn(c), Setup(c)
  PROVE  OneConn(c)'
<1> USE DEF OneConn, BeforeCopy, Directions, Upload, Download
<1>1. CASE NewConnection(c)
  BY <1>1 DEF Types, NewConnection, WhileCopy
<1>2. CASE DialFails(c)
  BY <1>2 DEF Types, DialFails, Notify, WhileCopy
<1>3. CASE Dialed(c)
  BY <1>3 DEF Types, Dialed, WhileCopy
<1>4. CASE ReportFails(c)
  BY <1>4 DEF Types, ReportFails, WhileCopy
<1>5. CASE Register(c)
  <2>1. CASE c \in TCP
    <3>1. phase'[c] = "early_upload" /\ phase[c] = "report"
      BY <1>5, <2>1 DEF Register, Types
    <3>2. UNCHANGED <<copy, calls, done, early>>
      BY <1>5, <2>1 DEF Register
    <3> QED
      BY <2>1, <3>1, <3>2 DEF WhileCopy, Types
  <2>2. CASE c \notin TCP
    <3>1. copy'[<<c, Upload>>] = "start" /\ copy'[<<c, Download>>] = "start"
      BY <1>5, <2>2 DEF Register, StartCopy
    <3>2. phase'[c] = "copy" /\ phase[c] = "report"
      BY <1>5, <2>2 DEF Register, Types
    <3>3. UNCHANGED <<calls, done, early>>
      BY <1>5 DEF Register
    <3> QED
      BY <2>2, <3>1, <3>2, <3>3 DEF WhileCopy, Counted, Ended, Swapped, Notified, Types
  <2> QED
    BY <2>1, <2>2
<1>6. CASE EarlyDone(c)
  <2>0. UNCHANGED <<calls, done, early, list>>
    BY <1>6 DEF EarlyDone
  <2>1. CASE phase[c] = "early_upload"
    <3>1. phase'[c] = "early_download" /\ copy' = copy
      BY <1>6, <2>1 DEF EarlyDone, EarlyNext, Types
    <3> QED
      BY <2>0, <2>1, <3>1 DEF WhileCopy, Types
  <2>2. CASE phase[c] = "early_download"
    <3>1. copy'[<<c, Upload>>] = "start" /\ copy'[<<c, Download>>] = "start"
      BY <1>6, <2>2 DEF EarlyDone, EarlyNext, StartCopy
    <3>2. phase'[c] = "copy"
      BY <1>6, <2>2 DEF EarlyDone, EarlyNext, Types
    <3> QED
      BY <2>0, <2>2, <3>1, <3>2, ConnAssumption DEF WhileCopy, Counted, Ended, Swapped, Notified, Types
  <2> QED
    BY <1>6, <2>1, <2>2 DEF EarlyDone
<1>7. CASE EarlyFails(c)
  <2>0. c \in done' /\ c \in early'
    BY <1>7 DEF EarlyFails
  <2>1. CASE phase[c] = "early_upload"
    <3>1. phase'[c] = "early_download" /\ UNCHANGED <<copy, calls, list>>
      BY <1>7, <2>1 DEF EarlyFails, EarlyNext, Types
    <3> QED
      BY <2>0, <2>1, <3>1 DEF WhileCopy, Types
  <2>2. CASE phase[c] = "early_download"
    <3>1. copy'[<<c, Upload>>] = "start" /\ copy'[<<c, Download>>] = "start"
      BY <1>7, <2>2 DEF EarlyFails, EarlyNext, StartCopy
    <3>2. phase'[c] = "copy"
      BY <1>7, <2>2 DEF EarlyFails, EarlyNext, Types
    <3>3. calls'[c] \in {0, 1} /\ (calls'[c] = 1 => c \notin list')
      BY <1>7, <2>2 DEF EarlyFails, Notify, Types
    <3>4. c \notin UDP
      BY <2>2, ConnAssumption DEF Types
    <3> QED
      BY <2>0, <3>1, <3>2, <3>3, <3>4 DEF WhileCopy, Counted, Ended, Swapped, Notified, Types
  <2> QED
    BY <1>7, <2>1, <2>2 DEF EarlyFails
<1> QED
  BY <1>1, <1>2, <1>3, <1>4, <1>5, <1>6, <1>7 DEF Setup

(* Counted does not tell the directions apart.                              *)
LEMMA CountedOther ==
  ASSUME NEW c, NEW D, NEW E, NEW n \in Nat, NEW u, NEW w, Counted(c, D, E, n, u, w)
  PROVE  Counted(c, D, E, n, w, u)
BY DEF Counted

(* A goroutine goes on copying, or from its copy to the swap.               *)
LEMMA CopyCounts ==
  ASSUME NEW c, NEW D, NEW E, NEW n \in Nat, NEW w, NEW u \in Copying,
         Counted(c, D, E, n, u, w),
         NEW at \in Copying \cup {"swap", "swap_close"}, c \in UDP => at # "swap"
  PROVE  Counted(c, D, E, n, at, w)
BY DEF Counted, Swapped, Notified, Copying, Writing

(* It swaps the flag: the second of a stream and the first of a packet      *)
(* connection go on to onClose.                                             *)
LEMMA SwapCounts ==
  ASSUME NEW c \in Conns, NEW D, NEW E, NEW n \in Nat, NEW w,
         NEW u \in {"swap", "swap_close"}, Counted(c, D, E, n, u, w),
         NEW F, c \in F, NEW at \in Swapped, at = "notify" <=> (c \in D <=> c \in TCP)
  PROVE  Counted(c, F, E, n, at, w)
<1>1. c \in TCP <=> c \notin UDP
  BY ConnAssumption DEF Conns
<1>2. CASE c \in TCP /\ c \in D
  BY <1>1, <1>2 DEF Counted, Swapped, Notified
<1>3. CASE c \in TCP /\ c \notin D
  BY <1>1, <1>3 DEF Counted, Swapped, Notified
<1>4. CASE c \in UDP /\ c \in D
  BY <1>1, <1>4 DEF Counted, Swapped, Notified
<1>5. CASE c \in UDP /\ c \notin D
  BY <1>1, <1>5 DEF Counted, Swapped, Notified
<1> QED
  BY <1>1, <1>2, <1>3, <1>4, <1>5

(* It calls onClose.                                                        *)
LEMMA OnCloseCounts ==
  ASSUME NEW c \in Conns, NEW D, NEW E, NEW n \in Nat, NEW w, Counted(c, D, E, n, "notify", w)
  PROVE  Counted(c, D, E, n + 1, "close", w)
<1>1. c \in TCP <=> c \notin UDP
  BY ConnAssumption DEF Conns
<1>2. CASE c \in E
  BY <1>1, <1>2 DEF Counted, Swapped, Notified
<1>3. CASE c \notin E
  BY <1>1, <1>3 DEF Counted, Swapped, Notified
<1> QED
  BY <1>2, <1>3

(* It closes both ends.                                                     *)
LEMMA CloseCounts ==
  ASSUME NEW c, NEW D, NEW E, NEW n \in Nat, NEW w, Counted(c, D, E, n, "close", w)
  PROVE  Counted(c, D, E, n, "ended", w)
BY DEF Counted, Swapped, Notified

Other(d) == IF d = Upload THEN Download ELSE Upload

(* What WhileCopy says of a goroutine that runs and the other one.          *)
LEMMA CopyingCounts ==
  ASSUME Types, NEW c \in Conns, NEW d \in Directions, OneConn(c), copy[<<c, d>>] # "none"
  PROVE  /\ phase[c] = "copy"
         /\ Counted(c, done, early, calls[c], copy[<<c, d>>], copy[<<c, Other(d)>>])
<1>1. phase[c] = "copy" /\ calls[c] \in Nat
  BY DEF OneConn, BeforeCopy, Types
<1>2. Counted(c, done, early, calls[c], copy[<<c, Upload>>], copy[<<c, Download>>])
  BY <1>1 DEF OneConn, WhileCopy
<1>3. Counted(c, done, early, calls[c], copy[<<c, Download>>], copy[<<c, Upload>>])
  BY <1>1, <1>2, CountedOther
<1> QED
  BY <1>1, <1>2, <1>3 DEF Other, Directions, Upload, Download

(* A goroutine moves on to `at', and the other of its connection stays      *)
(* where it is: if the count is right for that, the invariant holds.        *)
LEMMA MovePreserves ==
  ASSUME Types, NEW c \in Conns, NEW d \in Directions, NEW at, SetCopy(c, d, at),
         phase'[c] = "copy", calls'[c] \in Nat,
         Counted(c, done', early', calls'[c], at, copy[<<c, Other(d)>>]),
         Ended(c)' => open'[c] = {}, calls'[c] > 0 => c \notin list'
  PROVE  OneConn(c)'
<1>1. copy'[<<c, d>>] = at /\ copy'[<<c, Other(d)>>] = copy[<<c, Other(d)>>]
  BY DEF Types, SetCopy, Other, Directions, Upload, Download
<1>2. Counted(c, done', early', calls'[c], copy'[<<c, Upload>>], copy'[<<c, Download>>])
  <2>1. CASE d = Upload
    BY <1>1, <2>1 DEF Other
  <2>2. CASE d = Download
    BY <1>1, <2>2, CountedOther DEF Other, Upload, Download
  <2> QED
    BY <2>1, <2>2 DEF Directions
<1> QED
  BY <1>2 DEF OneConn, BeforeCopy, WhileCopy

(* And so does copying it.                                                  *)
LEMMA CopyPreserves ==
  ASSUME Types, NEW c \in Conns, NEW d \in Directions, OneConn(c), Copy(c, d)
  PROVE  OneConn(c)'
<1> DEFINE w == copy[<<c, Other(d)>>]
<1>1. copy[<<c, d>>] \in Copying /\ UNCHANGED <<phase, list, done, calls, early>>
  BY DEF Copy, Begin, Write, Written, CopyEOF, CopyError, PayloadFails, PacketsEnd,
         Copying, Writing
<1>2. PICK at \in Copying \cup {"swap", "swap_close"} :
        SetCopy(c, d, at) /\ (c \in UDP => at # "swap")
  BY ConnAssumption DEF Copy, Begin, Write, Written, CopyEOF, CopyError, PayloadFails,
         PacketsEnd, Copying, Writing
<1>3. /\ phase[c] = "copy" /\ calls[c] \in Nat /\ (calls[c] > 0 => c \notin list)
      /\ Counted(c, done, early, calls[c], copy[<<c, d>>], w)
  BY <1>1, CopyingCounts DEF Types, OneConn, Copying, Writing
<1>4. Counted(c, done, early, calls[c], at, w)
  BY <1>1, <1>2, <1>3, CopyCounts
<1>5. ~Ended(c)'
  BY <1>2 DEF SetCopy, Types, Ended, Copying, Writing
<1> QED
  BY <1>1, <1>2, <1>3, <1>4, <1>5, MovePreserves

(* And so does ending it.                                                   *)
LEMMA FinishPreserves ==
  ASSUME Types, Types', NEW c \in Conns, NEW d \in Directions, OneConn(c), Finish(c, d)
  PROVE  OneConn(c)'
<1> DEFINE u == copy[<<c, d>>]
           w == copy[<<c, Other(d)>>]
<1>0. u \in {"swap", "swap_close", "notify", "close"} /\ UNCHANGED <<phase, early>>
  BY DEF Finish, Swap, OnClose, CloseBoth
<1>1. /\ phase[c] = "copy" /\ Counted(c, done, early, calls[c], u, w)
      /\ calls[c] > 0 => c \notin list
  BY <1>0, CopyingCounts DEF OneConn
<1>2. calls[c] \in Nat /\ calls'[c] \in Nat
  BY DEF Types
<1>3. CASE Swap(c, d)
  <2>1. /\ u \in {"swap", "swap_close"} /\ c \in done'
        /\ UNCHANGED <<list, calls>>
    BY <1>3 DEF Swap
  <2>2. PICK at \in Swapped :
          /\ SetCopy(c, d, at)
          /\ at = "notify" <=> (c \in done <=> c \in TCP)
          /\ at = "ended" => u = "swap"
    BY <1>3 DEF Swap, Swapped
  <2>3. Counted(c, done', early, calls[c], at, w)
    BY <1>1, <1>2, <2>1, <2>2, SwapCounts
  <2>4. ~Ended(c)'
    <3> SUFFICES ASSUME at = "ended" PROVE w # "ended" /\ copy'[<<c, Other(d)>>] = w
      BY <2>2 DEF SetCopy, Types, Ended, Other, Directions
    <3>1. c \notin done
      BY <1>1, <2>2, ConnAssumption DEF Counted, Conns
    <3> QED
      BY <1>1, <2>2, <3>1 DEF Counted, Swapped, SetCopy, Types, Other, Directions, Upload, Download
  <2> QED
    BY <1>0, <1>1, <1>2, <2>1, <2>2, <2>3, <2>4, MovePreserves
<1>4. CASE OnClose(c, d)
  <2>1. u = "notify" /\ SetCopy(c, d, "close") /\ c \notin list' /\ UNCHANGED done
    BY <1>4 DEF OnClose
  <2>2. calls'[c] = calls[c] + 1
    BY <1>4 DEF OnClose, Notify, Types
  <2>3. Counted(c, done', early', calls'[c], "close", w)
    BY <1>0, <1>1, <1>2, <2>1, <2>2, OnCloseCounts
  <2>4. ~Ended(c)'
    BY <2>1 DEF SetCopy, Types, Ended
  <2> QED
    BY <1>0, <1>1, <1>2, <2>1, <2>3, <2>4, MovePreserves
<1>5. CASE CloseBoth(c, d)
  <2>1. u = "close" /\ SetCopy(c, d, "ended") /\ UNCHANGED <<list, done, calls>>
    BY <1>5 DEF CloseBoth
  <2>2. open'[c] = {}
    BY <1>5 DEF CloseBoth, Types
  <2>3. Counted(c, done', early', calls'[c], "ended", w)
    BY <1>0, <1>1, <1>2, <2>1, CloseCounts
  <2> QED
    BY <1>0, <1>1, <1>2, <2>1, <2>2, <2>3, MovePreserves
<1> QED
  BY <1>3, <1>4, <1>5 DEF Finish
-----------------------------------------------------------------------------
(* ConnInv is inductive.                                                    *)
LEMMA ConnInvariance == Spec => [](Types /\ ConnInv)
<1>1. Init => ConnInv
  BY DEF Init, ConnInv, OneConn, BeforeCopy, WhileCopy, Directions
<1>2. Types /\ ConnInv /\ [Next]_vars => ConnInv'
  <2> SUFFICES ASSUME Types, ConnInv, [Next]_vars, NEW e \in Conns
               PROVE  OneConn(e)'
    BY DEF ConnInv
  <2>0. Types' /\ OneConn(e)
    BY TypesStep DEF ConnInv
  <2>1. ASSUME NEW c \in Conns, Setup(c) PROVE OneConn(e)'
    BY <2>0, <2>1, SetupIsQuiet, SetupPreserves, QuietPreserves
  <2>2. ASSUME NEW c \in Conns, NEW d \in Directions, Copy(c, d) \/ Finish(c, d)
        PROVE  OneConn(e)'
    <3>1. CASE e = c
      BY <2>0, <2>2, <3>1, CopyPreserves, FinishPreserves
    <3>2. CASE e # c
      BY <2>0, <2>2, <3>2, CopyIsQuiet, QuietPreserves
    <3> QED
      BY <3>1, <3>2
  <2>3. CASE Close
    <3>1. Quiet(e)
      BY <2>3 DEF Close, Quiet, Types
    <3> QED
      BY <2>0, <3>1, QuietPreserves
  <2>4. CASE UNCHANGED vars
    <3>1. Quiet(e)
      BY <2>4 DEF vars, Quiet
    <3> QED
      BY <2>0, <3>1, QuietPreserves
  <2> QED
    BY <2>1, <2>2, <2>3, <2>4 DEF Next
<1> QED
  BY <1>1, <1>2, TypesInvariance, PTL DEF Spec

(* Every variable has its type; onClose is called at most three times, even *)
(* when both early handshakes of preConnectionCopy fail.                    *)
THEOREM TypeCorrect == Spec => []TypeOK
<1>1. Types /\ ConnInv => TypeOK
  <2> SUFFICES ASSUME Types, ConnInv PROVE TypeOK
    OBVIOUS
  <2>1. ASSUME NEW c \in Conns PROVE calls[c] \in 0..3
    <3>1. OneConn(c) /\ calls[c] \in Nat
      BY DEF ConnInv, Types
    <3>2. calls[c] <= 3
      <4>1. CASE phase[c] = "copy"
        BY <3>1, <4>1 DEF OneConn, WhileCopy, Counted
      <4>2. CASE phase[c] # "copy"
        BY <3>1, <4>2 DEF OneConn, BeforeCopy
      <4> QED
        BY <4>1, <4>2
    <3> QED
      BY <3>1, <3>2
  <2>2. calls \in [Conns -> 0..3]
    BY <2>1 DEF Types
  <2> QED
    BY <2>2 DEF Types, TypeOK
<1> QED
  BY <1>1, ConnInvariance, PTL

(* When both copying goroutines are gone, both ends are closed, the list    *)
(* does not hold the connection and its onClose was called.                 *)
THEOREM EndedIsCleanInvariance == Spec => []EndedIsClean
<1>1. Types /\ ConnInv => EndedIsClean
  BY DEF Types, ConnInv, OneConn, BeforeCopy, WhileCopy, Counted, EndedIsClean, Ended, Notified,
         Directions, Upload, Download
<1> QED
  BY <1>1, ConnInvariance, PTL

(* The caller's onClose is called at most once, unless an early handshake   *)
(* of preConnectionCopy failed.                                             *)
THEOREM OnCloseOnceInvariance == Spec => []OnCloseOnce
<1>1. Types /\ ConnInv => OnCloseOnce
  BY DEF Types, ConnInv, OneConn, BeforeCopy, WhileCopy, Counted, OnCloseOnce
<1> QED
  BY <1>1, ConnInvariance, PTL

(* The onClose of a stream comes when neither direction is copying: the     *)
(* caller may release what the copies use.                                  *)
THEOREM StreamNotifiedLastInvariance == Spec => []StreamNotifiedLast
<1>1. Types /\ ConnInv => StreamNotifiedLast
  <2> SUFFICES ASSUME Types, ConnInv, NEW c \in TCP, calls[c] > 0, c \notin early,
                      NEW d \in Directions
               PROVE  copy[<<c, d>>] \notin Copying \cup {"swap", "swap_close"}
    BY DEF StreamNotifiedLast
  <2>1. OneConn(c) /\ calls[c] \in Nat
    BY DEF ConnInv, Conns, Types
  <2>2. CASE phase[c] = "copy"
    BY <2>1, <2>2 DEF OneConn, WhileCopy, Counted, Swapped, Directions, Copying, Writing
  <2>3. CASE phase[c] # "copy"
    BY <2>1, <2>3 DEF OneConn, BeforeCopy, Copying, Writing
  <2> QED
    BY <2>2, <2>3
<1> QED
  BY <1>1, ConnInvariance, PTL
=============================================================================

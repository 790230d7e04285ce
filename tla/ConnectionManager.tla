-------------------------- MODULE ConnectionManager --------------------------
(***************************************************************************)
(* The connection manager (src/route/conn.go): a routed connection is      *)
(* dialed, registered and copied by two goroutines until both directions   *)
(* have ended; Close closes whatever is registered.                        *)
(***************************************************************************)
EXTENDS Naturals

CONSTANTS
  TCP,      \* connections given to NewConnection
  UDP       \* connections given to NewPacketConnection

ASSUME ConnAssumption == TCP \cap UDP = {}

Conns == TCP \cup UDP
Upload == "upload"         \* local to remote
Download == "download"     \* remote to local
Directions == {Upload, Download}
Ends == {"local", "remote"}
Phases == {"new", "dial", "report", "failed", "early_upload", "early_download", "copy"}
Writing == {"payload", "write"}     \* in destination.Write
Copying == {"start", "copy"} \cup Writing
States == Copying \cup {"none", "swap", "swap_close", "notify", "close", "ended"}
Source(d) == IF d = Upload THEN "local" ELSE "remote"
Destination(d) == IF d = Upload THEN "remote" ELSE "local"

VARIABLES
  phase,    \* progress of NewConnection or NewPacketConnection
  open,     \* ends of each connection that are open
  list,     \* m.connections
  done,     \* connections whose atomic flag is set
  copy,     \* the copying goroutines
  calls,    \* calls of the caller's onClose
  early     \* connections with a failed early handshake

vars == <<phase, open, list, done, copy, calls, early>>

Init ==
  /\ phase = [c \in Conns |-> "new"]
  /\ open = [c \in Conns |-> {}]
  /\ list = {}
  /\ done = {}
  /\ copy = [e \in Conns \X Directions |-> "none"]
  /\ calls = [c \in Conns |-> 0]
  /\ early = {}

Notify(c) == calls' = [calls EXCEPT ![c] = @ + 1]
-----------------------------------------------------------------------------
StartCopy(c) ==
  copy' = [e \in Conns \X Directions |-> IF e[1] = c THEN "start" ELSE copy[e]]

NewConnection(c) ==
  /\ phase[c] = "new"
  /\ phase' = [phase EXCEPT ![c] = "dial"]
  /\ open' = [open EXCEPT ![c] = {"local"}]
  /\ UNCHANGED <<list, done, copy, calls, early>>

(* The dial fails: CloseOnHandshakeFailure closes the connection and calls  *)
(* onClose.                                                                 *)
DialFails(c) ==
  /\ phase[c] = "dial"
  /\ phase' = [phase EXCEPT ![c] = "failed"]
  /\ open' = [open EXCEPT ![c] = {}]
  /\ Notify(c)
  /\ UNCHANGED <<list, done, copy, early>>

Dialed(c) ==
  /\ phase[c] = "dial"
  /\ phase' = [phase EXCEPT ![c] = "report"]
  /\ open' = [open EXCEPT ![c] = @ \cup {"remote"}]
  /\ UNCHANGED <<list, done, copy, calls, early>>

(* Reporting the handshake fails; only NewConnection calls onClose then.    *)
ReportFails(c) ==
  /\ phase[c] = "report"
  /\ phase' = [phase EXCEPT ![c] = "failed"]
  /\ open' = [open EXCEPT ![c] = {}]
  /\ calls' = [calls EXCEPT ![c] = IF c \in TCP THEN @ + 1 ELSE @]
  /\ UNCHANGED <<list, done, copy, early>>

(* The connection is registered.  A packet connection is copied at once; a  *)
(* stream makes its early handshakes first.                                 *)
Register(c) ==
  /\ phase[c] = "report"
  /\ list' = list \cup {c}
  /\ IF c \in TCP
     THEN phase' = [phase EXCEPT ![c] = "early_upload"] /\ UNCHANGED copy
     ELSE /\ phase' = [phase EXCEPT ![c] = "copy"]
          /\ StartCopy(c)
  /\ UNCHANGED <<open, done, calls, early>>

EarlyNext(c) ==
  IF phase[c] = "early_upload"
  THEN phase' = [phase EXCEPT ![c] = "early_download"] /\ UNCHANGED copy
  ELSE /\ phase' = [phase EXCEPT ![c] = "copy"]
       /\ StartCopy(c)

(* preConnectionCopy: no early handshake is needed, or it succeeds.         *)
EarlyDone(c) ==
  /\ phase[c] \in {"early_upload", "early_download"}
  /\ EarlyNext(c)
  /\ UNCHANGED <<open, list, done, calls, early>>

(* It fails: both ends are closed; the copying starts all the same.         *)
EarlyFails(c) ==
  /\ phase[c] \in {"early_upload", "early_download"}
  /\ EarlyNext(c)
  /\ done' = done \cup {c}
  /\ IF c \in done THEN Notify(c) /\ list' = list \ {c} ELSE UNCHANGED <<calls, list>>
  /\ open' = [open EXCEPT ![c] = {}]
  /\ early' = early \cup {c}
-----------------------------------------------------------------------------
SetCopy(c, d, at) == copy' = [copy EXCEPT ![<<c, d>>] = at]

(* A payload the source has cached is written first.                        *)
Begin(c, d) ==
  /\ copy[<<c, d>>] = "start"
  /\ SetCopy(c, d, "copy") \/ (c \in TCP /\ SetCopy(c, d, "payload"))
  /\ UNCHANGED <<phase, open, list, done, calls, early>>

(* The copy has read something and writes it, which lasts until the peer    *)
(* takes it.                                                                *)
Write(c, d) ==
  /\ copy[<<c, d>>] = "copy"
  /\ Source(d) \in open[c]
  /\ SetCopy(c, d, "write")
  /\ UNCHANGED <<phase, open, list, done, calls, early>>

Written(c, d) ==
  /\ copy[<<c, d>>] \in Writing
  /\ Destination(d) \in open[c]
  /\ SetCopy(c, d, "copy")
  /\ UNCHANGED <<phase, open, list, done, calls, early>>

(* The source ended.  The destination has CloseWrite, which leaves it half  *)
(* open, or it is closed.                                                   *)
CopyEOF(c, d) ==
  /\ copy[<<c, d>>] = "copy" /\ c \in TCP
  /\ Source(d) \in open[c]
  /\ SetCopy(c, d, "swap")
  /\ \/ Destination(d) \in open[c] /\ UNCHANGED open
     \/ open' = [open EXCEPT ![c] = @ \ {Destination(d)}]
  /\ UNCHANGED <<phase, list, done, calls, early>>

(* Mutant: an error closes only the source.                                 *)
MutCopyError(c, d) ==
  /\ copy[<<c, d>>] \in {"copy", "write"} /\ c \in TCP
  /\ SetCopy(c, d, "swap")
  /\ open' = [open EXCEPT ![c] = @ \ {Source(d)}]
  /\ UNCHANGED <<phase, list, done, calls, early>>

(* An error of the copy, or of CloseWrite, closes both ends.                *)
CopyError(c, d) ==
  /\ copy[<<c, d>>] \in {"copy", "write"} /\ c \in TCP
  /\ SetCopy(c, d, "swap")
  /\ open' = [open EXCEPT ![c] = {}]
  /\ UNCHANGED <<phase, list, done, calls, early>>

(* Writing a cached payload fails: both ends are closed after the swap.     *)
PayloadFails(c, d) ==
  /\ copy[<<c, d>>] = "payload"
  /\ SetCopy(c, d, "swap_close")
  /\ UNCHANGED <<phase, open, list, done, calls, early>>

(* CopyPacket returns.                                                      *)
PacketsEnd(c, d) ==
  /\ copy[<<c, d>>] \in {"copy", "write"} /\ c \in UDP
  /\ SetCopy(c, d, "swap_close")
  /\ UNCHANGED <<phase, open, list, done, calls, early>>

(* Mutant: the flag is read, and not swapped.                               *)
MutSwap(c, d) ==
  /\ copy[<<c, d>>] \in {"swap", "swap_close"}
  /\ SetCopy(c, d,
       IF c \in TCP /\ c \in done THEN "notify"
       ELSE IF c \in UDP /\ c \notin done THEN "notify"
       ELSE IF copy[<<c, d>>] = "swap_close" THEN "close" ELSE "ended")
  /\ UNCHANGED <<phase, open, list, done, calls, early>>

(* Mutant: of a stream too, the first goroutine to end calls onClose.       *)
MutSwapFirst(c, d) ==
  /\ copy[<<c, d>>] \in {"swap", "swap_close"}
  /\ done' = done \cup {c}
  /\ SetCopy(c, d, IF c \notin done THEN "notify"
                   ELSE IF copy[<<c, d>>] = "swap_close" THEN "close" ELSE "ended")
  /\ UNCHANGED <<phase, open, list, calls, early>>

(* done.Swap(true): of a stream the second goroutine to end calls onClose,  *)
(* of a packet connection the first one.                                    *)
Swap(c, d) ==
  /\ copy[<<c, d>>] \in {"swap", "swap_close"}
  /\ done' = done \cup {c}
  /\ SetCopy(c, d, IF (c \in done) = (c \in TCP) THEN "notify"
                   ELSE IF copy[<<c, d>>] = "swap_close" THEN "close" ELSE "ended")
  /\ UNCHANGED <<phase, open, list, calls, early>>

(* Mutant: the goroutine calls onClose again.                               *)
MutOnClose(c, d) ==
  /\ copy[<<c, d>>] = "notify"
  /\ Notify(c)
  /\ list' = list \ {c}
  /\ UNCHANGED <<phase, open, done, copy, early>>

(* onClose of the caller and the removal from the list.                     *)
OnClose(c, d) ==
  /\ copy[<<c, d>>] = "notify"
  /\ SetCopy(c, d, "close")
  /\ Notify(c)
  /\ list' = list \ {c}
  /\ UNCHANGED <<phase, open, done, early>>

CloseBoth(c, d) ==
  /\ copy[<<c, d>>] = "close"
  /\ SetCopy(c, d, "ended")
  /\ open' = [open EXCEPT ![c] = {}]
  /\ UNCHANGED <<phase, list, done, calls, early>>

(* Close of the manager closes the local end of what is registered.         *)
Close ==
  /\ list # {}
  /\ open' = [c \in Conns |-> IF c \in list THEN open[c] \ {"local"} ELSE open[c]]
  /\ list' = {}
  /\ UNCHANGED <<phase, done, copy, calls, early>>
-----------------------------------------------------------------------------
Setup(c) ==
  \/ NewConnection(c) \/ DialFails(c) \/ Dialed(c) \/ ReportFails(c) \/ Register(c)
  \/ EarlyDone(c) \/ EarlyFails(c)

Finish(c, d) == Swap(c, d) \/ OnClose(c, d) \/ CloseBoth(c, d)

Copy(c, d) ==
  \/ Begin(c, d) \/ Write(c, d) \/ Written(c, d)
  \/ CopyEOF(c, d) \/ CopyError(c, d) \/ PayloadFails(c, d) \/ PacketsEnd(c, d)

Next ==
  \/ \E c \in Conns : Setup(c)
  \/ \E c \in Conns : \E d \in Directions : Copy(c, d) \/ Finish(c, d)
  \/ Close

Spec == Init /\ [][Next]_vars

(* The end that a copying goroutine reads from or writes to.                *)
Used(c, d) == IF copy[<<c, d>>] \in Writing THEN Destination(d) ELSE Source(d)

(* A goroutine that neither reads nor writes goes on, and reading from or   *)
(* writing to a closed end fails at once.  Nothing makes a peer send, take  *)
(* what is sent, or close.                                                  *)
FairSpec ==
  /\ Spec
  /\ \A c \in Conns : \A d \in Directions :
       /\ WF_vars(Begin(c, d)) /\ WF_vars(Finish(c, d))
       /\ WF_vars(Used(c, d) \notin open[c] /\ Copy(c, d))
-----------------------------------------------------------------------------
TypeOK ==
  /\ phase \in [Conns -> Phases]
  /\ open \in [Conns -> SUBSET Ends]
  /\ list \subseteq Conns
  /\ done \subseteq Conns
  /\ copy \in [Conns \X Directions -> States]
  /\ calls \in [Conns -> 0..3]
  /\ early \subseteq Conns

Ended(c) == \A d \in Directions : copy[<<c, d>>] = "ended"

(* When both goroutines of a connection are gone, whatever the order they   *)
(* ended in and whether Close intervened, both ends are closed, the list    *)
(* does not hold it and its onClose was called.                             *)
EndedIsClean ==
  \A c \in Conns : Ended(c) => open[c] = {} /\ c \notin list /\ calls[c] > 0

(* onClose is called at most once, unless an early handshake failed: then   *)
(* the copies that start all the same call it again.                        *)
OnCloseOnce ==
  \A c \in Conns : c \notin early => calls[c] <= 1

(* The onClose of a stream that was copied comes when no direction is       *)
(* copying any more.                                                        *)
StreamNotifiedLast ==
  \A c \in TCP : calls[c] > 0 /\ c \notin early
    => \A d \in Directions : copy[<<c, d>>] \notin Copying \cup {"swap", "swap_close"}

(* A connection whose local end is closed, by Close or by the inbound, ends *)
(* in both directions, although Close leaves the remote end open: when its  *)
(* upload is copied, provided the remote peer does not let a write hang for *)
(* ever; when the upload is over (half-closed), once the remote peer sends  *)
(* something, which cannot be written.  Until then the download of a        *)
(* half-closed connection goes on.                                          *)
ClosedEnds ==
  \A c \in Conns :
    []<>(copy[<<c, Upload>>] \notin Writing)
      => ("local" \notin open[c]
            /\ (copy[<<c, Upload>>] \in Copying \/ copy[<<c, Download>>] \in Writing)
          ~> Ended(c))
==============================================================================

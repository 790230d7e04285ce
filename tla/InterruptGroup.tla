--------------------------- MODULE InterruptGroup ---------------------------
(***************************************************************************)
(* interrupt.Group of src/common/interrupt: the list of the connections an *)
(* outbound group has handed out, so that they can be closed together when *)
(* the group selects another member.  Every operation holds group.access.  *)
(***************************************************************************)

VARIABLES
  members,    \* g.connections: records of a connection and its isExternal
  live        \* connections whose transport is open

Entry(c, external) == [conn |-> c, isExternal |-> external]

(* NewConn and NewPacketConn, on a connection just dialled.                 *)
NewConn(c, external) ==
  /\ members' = members \cup {Entry(c, external)}
  /\ live' = live \cup {c}

(* Mutant: the elements are dropped from the list without being closed.     *)
MutInterrupt(all) ==
  /\ members' = {e \in members : e.isExternal /\ ~all}
  /\ UNCHANGED live

(* Mutant: the flag of the element is not consulted.                        *)
MutInterruptAll(all) ==
  /\ members' = {}
  /\ live' = live \ {e.conn : e \in members}

Interrupt(all) ==
  LET hit == {e \in members : ~e.isExternal \/ all}
  IN  /\ members' = members \ hit
      /\ live' = live \ {e.conn : e \in hit}

(* Conn.Close and PacketConn.Close, by the user of the connection.          *)
Close(c) ==
  /\ members' = {e \in members : e.conn # c}
  /\ live' = live \ {c}
=============================================================================

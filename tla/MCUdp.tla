-------------------------------- MODULE MCUdp --------------------------------
(***************************************************************************)
(* Three nodes that all send: entries of both kinds to convert, more       *)
(* entries than a frame may hold, and the chunk of a snapshot.  Two of the *)
(* messages take the same path; the requests for addresses that the three  *)
(* nodes broadcast may overflow the queues of the bus.                     *)
(***************************************************************************)
EXTENDS UdpTransport

CONSTANTS n1, n2, n3, x

MCNode == {n1, n2, n3}

Put == [term |-> 1, entry_type |-> [is |-> "Command", payload |-> x]]

Add == [term |-> 2, entry_type |->
           [is |-> "ConfigChange", change |-> [is |-> "AddServer", node |-> n3]]]

Short == [type |-> "AppendEntries", entries |-> <<Put, Add>>]
Long == [type |-> "AppendEntries", entries |-> <<Put, Put, Add>>]
Chunk == [type |-> "InstallSnapshot", data |-> <<x>>]

Sending(i, j, m) == [from |-> i, to |-> j, message |-> m]

MCSends ==
    {Sending(n1, n2, Short), Sending(n1, n2, Chunk), Sending(n2, n1, Long),
     Sending(n3, n1, Short)}
=============================================================================

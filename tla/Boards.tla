------------------------------- MODULE Boards -------------------------------
(***************************************************************************)
(* The list of boards (cihazlar.cpp) and the TCP server that keeps its     *)
(* socket numbers in it (tcpserver.cpp).  Entries are added, changed and   *)
(* removed by the events of the access point (event.cpp), by the messages  *)
(* sinfo, sinfo_ack and I_ACK (broadcastcallback.cpp, coapcallback.cpp),   *)
(* by the server itself and by refresh_device.  Each of these is one step: *)
(* a walk of the list that another task changes meanwhile is not here.     *)
(* Every board has one MAC and one id, both written as the board.          *)
(***************************************************************************)
EXTENDS Naturals, Sequences, SequencesExt

CONSTANTS
    Boards,      \* boards that join the access point and connect
    Fds          \* socket numbers lwIP gives out, any free one

VARIABLES
    joined,      \* stations of the access point
    list,        \* dev_handle, the newest entry first
    conn,        \* the sockets the server holds, and the board at the other end
    \* Observation
    sound        \* sockets booked on the board they belong to, and on no other

vars == <<joined, list, conn, sound>>

NoOne == "none"
Made  == "made"       \* the MAC cihaz_ekle(id) makes out of the number
Entry == [mac : Boards \union {Made}, id : Boards \union {NoOne},
          sock : Fds \union {0}]

TypeOK ==
    /\ joined \subseteq Boards
    /\ list \in Seq(Entry)
    /\ conn \in [Fds -> Boards \union {NoOne}]
    /\ sound \subseteq Fds

Init ==
    /\ joined = {}
    /\ list = <<>>
    /\ conn = [f \in Fds |-> NoOne]
    /\ sound = {}

-----------------------------------------------------------------------------
(* cihazbul, cihaz_ekle and cihaz_sil.                                     *)

\* The place in the list, or 0 where the code returns NULL.
ByMac(b)  == SelectInSeq(list, LAMBDA e : e.mac = b)
ById(b)   == SelectInSeq(list, LAMBDA e : e.id = b)
BySock(f) == SelectInSeq(list, LAMBDA e : e.sock = f)

NewEntry(mac, id, sock) == <<[mac |-> mac, id |-> id, sock |-> sock]>> \o list

AddedAlways(b) == NewEntry(b, NoOne, 0)      \* mutant: not looked for first

Added(b) == IF ByMac(b) = 0 THEN NewEntry(b, NoOne, 0) ELSE list

IdentifiedFirst(b) == [list EXCEPT ![1].id = b]    \* mutant: the head, whatever its MAC

Identified(b) == [list EXCEPT ![ByMac(b)].id = b]

Removed(b) == IF ByMac(b) = 0 THEN list ELSE RemoveAt(list, ByMac(b))

-----------------------------------------------------------------------------
Join(b) ==
    /\ joined' = joined \union {b}
    /\ list' = Added(b)
    /\ UNCHANGED <<conn, sound>>

\* The server is not told: the socket stays open.
Leave(b) ==
    /\ b \in joined
    /\ joined' = joined \ {b}
    /\ list' = Removed(b)
    /\ UNCHANGED <<conn, sound>>

\* I_ACK and sinfo_ack: by the MAC, then by the id, then a new entry whose MAC is
\* made of the id.
Ack(b) ==
    /\ list' = IF ByMac(b) # 0 THEN Identified(b)
               ELSE IF ById(b) # 0 THEN list
               ELSE NewEntry(Made, b, 0)
    /\ UNCHANGED <<joined, conn, sound>>

\* sinfo: by the MAC, or a new entry.
Sinfo(b) ==
    /\ list' = IF ByMac(b) # 0 THEN Identified(b)
                               ELSE NewEntry(b, b, 0)
    /\ UNCHANGED <<joined, conn, sound>>

\* The server takes a connection of board b and books its socket on the entry of m.
\* The MAC is asked of the ARP table and the answer not looked at: if there is none
\* the memory it should have been written to may hold any MAC seen before.
Accept(b, f, m) ==
    /\ b \in joined /\ conn[f] = NoOne
    /\ conn' = [conn EXCEPT ![f] = b]
    /\ list' = IF ByMac(m) # 0 THEN [list EXCEPT ![ByMac(m)].sock = f]
                               ELSE NewEntry(m, NoOne, f)
    /\ sound' = IF m = b /\ \A i \in 1..Len(list) :
                                list[i].sock = f => list[i].mac = b
                  THEN sound \union {f} ELSE sound
    /\ UNCHANGED joined

\* recv fails: the socket is closed, and its number stays in the list.
Close(f) ==
    /\ conn[f] # NoOne
    /\ conn' = [conn EXCEPT ![f] = NoOne]
    /\ sound' = sound \ {f}
    /\ UNCHANGED <<joined, list>>

\* accept fails: the server closes everything and begins anew.
Reopen ==
    /\ conn' = [f \in Fds |-> NoOne]
    /\ sound' = {}
    /\ UNCHANGED <<joined, list>>

\* A message on a socket no entry has: the server reads device_id of NULL, and the
\* chip restarts.
Orphan(f) ==
    /\ conn[f] # NoOne /\ BySock(f) = 0
    /\ joined' = {} /\ list' = <<>> /\ sound' = {}
    /\ conn' = [g \in Fds |-> NoOne]

\* refresh_device: cihaz_bosalt.
Refresh ==
    /\ list' = <<>>
    /\ UNCHANGED <<joined, conn, sound>>

Next ==
    \/ \E b \in Boards : Join(b) \/ Leave(b) \/ Ack(b) \/ Sinfo(b)
    \/ \E b, m \in Boards, f \in Fds : Accept(b, f, m)
    \/ \E f \in Fds : Close(f) \/ Orphan(f)
    \/ Reopen
    \/ Refresh

Spec == Init /\ [][Next]_vars
-----------------------------------------------------------------------------
(* Properties.                                                             *)

\* A board is in the list once under its MAC and at most once more under a MAC made
\* of its id, and then behind (cihazlar.cpp 103-176, coapcallback.cpp 69-85,
\* 114-130): the search for an id finds the entry the sockets are kept in.
RealEntryFirst ==
    \A i, j \in 1..Len(list) :
        /\ i # j /\ list[i].mac # Made => list[i].mac # list[j].mac
        /\ i < j /\ list[i].id = list[j].id /\ list[i].id # NoOne => list[j].mac = Made

\* A message is taken for that of the board that sent it, and an answer goes to the
\* board it is for (tcpserver.cpp 136-145, 176-182, 264-271), on every socket that was
\* booked on its board and whose number no other entry had kept.
SocketTellsBoard ==
    \A f \in sound :
        /\ BySock(f) # 0 =>
             LET e == list[BySock(f)] IN e.mac = conn[f] /\ e.id \in {NoOne, conn[f]}
        /\ \A b \in Boards : ById(b) # 0 /\ list[ById(b)].sock = f => conn[f] = b
=============================================================================

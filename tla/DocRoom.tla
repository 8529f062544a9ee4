------------------------------ MODULE DocRoom ------------------------------
(***************************************************************************)
(* What the websocket hubs promise, without hubs, channels or goroutines:  *)
(* a document is a room of MaxClients places; a connection enters at most  *)
(* once, is turned away when the room is full, and may leave; a call that  *)
(* disconnects a user empties the rooms of that user one at a time and     *)
(* returns when no connection it found at its start is left.  (A connection *)
(* that is refused because the service of its document has just ended is   *)
(* one that never enters.)                                                 *)
(***************************************************************************)
EXTENDS Naturals, FiniteSets

CONSTANTS Conns, Users, Nodes, Kickers, UserOf, NodeOf, KickUser, MaxClients

VARIABLES
    online,   \* the connections that are in their rooms
    over,     \* those that have been there, or found their room full
    request,  \* the state of a call that disconnects a user
    targets   \* the connections such a call has found

roomVars == <<online, over, request, targets>>

In(n) == {c \in online : NodeOf[c] = n}

Init ==
    /\ online = {}
    /\ over = {}
    /\ request = [k \in Kickers |-> "idle"]
    /\ targets = [k \in Kickers |-> {}]

Enter(c) ==
    /\ c \notin online \cup over
    /\ Cardinality(In(NodeOf[c])) < MaxClients
    /\ online' = online \cup {c}
    /\ UNCHANGED <<over, request, targets>>

TurnAway(c) ==
    /\ c \notin online \cup over
    /\ Cardinality(In(NodeOf[c])) >= MaxClients
    /\ over' = over \cup {c}
    /\ UNCHANGED <<online, request, targets>>

Leave(c) ==
    /\ c \in online
    /\ online' = online \ {c}
    /\ over' = over \cup {c}
    /\ UNCHANGED <<request, targets>>

BeginDisconnect(k) ==
    /\ request[k] = "idle"
    /\ request' = [request EXCEPT ![k] = "kicking"]
    /\ targets' = [targets EXCEPT ![k] = {c \in online : UserOf[c] = KickUser[k]}]
    /\ UNCHANGED <<online, over>>

\* Everyone of the user in one document, at once.
Evict(k, n) ==
    LET out == {c \in In(n) : UserOf[c] = KickUser[k]} IN
    /\ request[k] = "kicking"
    /\ out # {}
    /\ online' = online \ out
    /\ over' = over \cup out
    /\ UNCHANGED <<request, targets>>

EndDisconnect(k) ==
    /\ request[k] = "kicking"
    /\ targets[k] \cap online = {}
    /\ request' = [request EXCEPT ![k] = "finished"]
    /\ UNCHANGED <<online, over, targets>>

Next ==
    \/ \E c \in Conns : Enter(c) \/ TurnAway(c) \/ Leave(c)
    \/ \E k \in Kickers : \/ BeginDisconnect(k) \/ EndDisconnect(k)
                          \/ \E n \in Nodes : Evict(k, n)

Spec == Init /\ [][Next]_roomVars
=============================================================================

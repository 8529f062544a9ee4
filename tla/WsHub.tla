------------------------------- MODULE WsHub -------------------------------
(***************************************************************************)
(* The websocket hubs of the backend (src/backend/internal/ws).            *)
(*                                                                         *)
(* A HubManager maps a document node to the Hub that serves it.  Each Hub  *)
(* is a goroutine that owns its set of clients and talks to the others     *)
(* over unbuffered channels; each accepted connection has a handler, a     *)
(* read pump and a write pump.  A manager's forced logout is a "kicker":   *)
(* it snapshots the hubs and hands the user to each of them in turn.       *)
(*                                                                         *)
(* An exchange on an unbuffered channel is one action of both goroutines.  *)
(* A send on a closed channel and a second close are modelled as what they *)
(* are in Go: a panic, which no one recovers in these goroutines, so that  *)
(* the process stops.                                                      *)
(***************************************************************************)
EXTENDS Naturals, FiniteSets, Sequences

CONSTANTS
    Conns,      \* websocket connections; each performs one handshake
    Users,      \* authenticated users
    Nodes,      \* document nodes
    Kickers,    \* calls of HubManager.DisconnectUser
    UserOf,     \* the user in the access token of a connection
    NodeOf,     \* the document a connection asks for
    Talkers,    \* the connections whose peer may send messages
    KickUser,   \* the user a DisconnectUser call is about
    MaxClients, \* maxClientsPerHub (20 in the code)
    SendCap,    \* capacity of Client.Send (8 in the code)
    MaxHubs,    \* BOUND: hubs created in one behaviour
    None        \* no node, no user, no connection, no message

ASSUME WsHubAssumption ==
    /\ UserOf \in [Conns -> Users]
    /\ NodeOf \in [Conns -> Nodes]
    /\ Talkers \subseteq Conns
    /\ KickUser \in [Kickers -> Users]
    /\ IsFiniteSet(Conns)
    /\ MaxClients \in Nat \ {0}
    /\ SendCap \in Nat \ {0}
    /\ MaxHubs \in Nat
    /\ None \notin Users \cup Nodes \cup Conns
    /\ None \notin {"join_rejected", "not_implemented", "force_logout"}

Hubs == 1..MaxHubs
NoHub == 0
Msgs == {"join_rejected", "not_implemented", "force_logout"}

VARIABLES
    \* HubManager
    hubs,       \* HubManager.hubs: the hub of a node, or NoHub
    hubCount,   \* hubs created so far
    \* Hub
    hubNode,    \* Hub.NodeID
    hubPc,      \* where Run is; "done" once h.done is closed
    members,    \* Hub.clients
    timer,      \* idleTimer # nil
    victim,     \* the user the forceKick case is working on
    closing,    \* the client whose Conn the forceKick case closes next
    \* connection: handler, Client, pumps, peer
    pc,         \* where the handler is
    hubOf,      \* the handler's, later the pumps', hub
    conn,       \* "closed" by the server, or "left" by the peer or the network
    queue,      \* the buffer of Client.Send
    sendClosed, \* Client.Send is closed
    reader,     \* readPump
    writer,     \* writePump
    \* DisconnectUser
    kickPc,
    todo,       \* the hubs of the snapshot not yet told
    \* the process
    panic,      \* the panic that stopped the process
    \* history
    joined      \* the user's members when DisconnectUser took its snapshot

managerVars == <<hubs, hubCount>>
hubVars == <<hubNode, hubPc, members, timer, victim, closing>>
handlerVars == <<pc, hubOf>>
sendVars == <<queue, sendClosed>>
pumpVars == <<reader, writer>>
connVars == <<handlerVars, conn, sendVars, pumpVars>>
kickVars == <<kickPc, todo, joined>>
vars == <<managerVars, hubVars, connVars, kickVars, panic>>

-----------------------------------------------------------------------------
(* Helpers *)

\* (mutant) the buffer of Send grows without bound
OfferAlways(q, m) == Append(q, m)

\* A non-blocking send on Client.Send: dropped when the buffer is full.
Offer(q, m) == IF Len(q) < SendCap THEN Append(q, m) ELSE q

\* The process has not panicked; a step of a goroutine that cannot panic.
Running == panic = "none"

Quiet == Running /\ UNCHANGED panic

\* Hub h is in the select of Run.
Selecting(h) == hubPc[h] = "select"

\* h.done is closed.
Done(h) == hubPc[h] = "done"

\* Conn.Close after which nothing more reaches the peer; a connection that
\* the peer has left stays left.
Shut(c) == [conn EXCEPT ![c] = IF @ = "open" THEN "closed" ELSE @]

\* Hub h is in the forceKick case for the user of c.
BeingKicked(c, h) == hubPc[h] \in {"kick", "close"} /\ victim[h] = UserOf[c]

\* The members, but those whom a forced logout is removing.
Attached ==
    {c \in Conns : \E h \in Hubs : c \in members[h] /\ ~BeingKicked(c, h)}

-----------------------------------------------------------------------------
Init ==
    /\ hubs = [n \in Nodes |-> NoHub]
    /\ hubCount = 0
    /\ hubNode = [h \in Hubs |-> None]
    /\ hubPc = [h \in Hubs |-> "unborn"]
    /\ members = [h \in Hubs |-> {}]
    /\ timer = [h \in Hubs |-> FALSE]
    /\ victim = [h \in Hubs |-> None]
    /\ closing = [h \in Hubs |-> None]
    /\ pc = [c \in Conns |-> "idle"]
    /\ hubOf = [c \in Conns |-> NoHub]
    /\ conn = [c \in Conns |-> "none"]
    /\ queue = [c \in Conns |-> <<>>]
    /\ sendClosed = [c \in Conns |-> FALSE]
    /\ reader = [c \in Conns |-> "off"]
    /\ writer = [c \in Conns |-> "off"]
    /\ kickPc = [k \in Kickers |-> "idle"]
    /\ todo = [k \in Kickers |-> {}]
    /\ joined = [k \in Kickers |-> {}]
    /\ panic = "none"

-----------------------------------------------------------------------------
(* The handler of a connection *)

\* websocket.Accept has succeeded.
Accept(c) ==
    /\ Quiet
    /\ pc[c] = "idle"
    /\ pc' = [pc EXCEPT ![c] = "lookup"]
    /\ conn' = [conn EXCEPT ![c] = "open"]
    /\ UNCHANGED <<managerVars, hubVars, hubOf, sendVars, pumpVars, kickVars>>

\* (mutant) a hub that is busy with a forced logout is replaced
MappedIfIdle(n) == hubs[n] # NoHub /\ Selecting(hubs[n])

\* The mapped hub, unless its done is closed: then it is replaced.
Mapped(n) == hubs[n] # NoHub /\ ~Done(hubs[n])

GetOrCreate(c) ==
    /\ Quiet
    /\ pc[c] \in {"lookup", "relookup"}
    /\ pc' = [pc EXCEPT ![c] = IF @ = "lookup" THEN "register" ELSE "reregister"]
    /\ LET n == NodeOf[c]
           h == hubCount + 1
       IN  \/ /\ Mapped(n)
              /\ hubOf' = [hubOf EXCEPT ![c] = hubs[n]]
              /\ UNCHANGED <<managerVars, hubNode, hubPc>>
           \/ /\ ~Mapped(n)
              /\ hubCount < MaxHubs
              /\ hubCount' = h
              /\ hubs' = [hubs EXCEPT ![n] = h]
              /\ hubNode' = [hubNode EXCEPT ![h] = n]
              /\ hubPc' = [hubPc EXCEPT ![h] = "select"]
              /\ hubOf' = [hubOf EXCEPT ![c] = h]
    /\ UNCHANGED <<members, timer, victim, closing, conn, sendVars, pumpVars, kickVars>>

Registering(c) == pc[c] \in {"register", "reregister"}

\* The handler hands over to the pumps and returns.  A pump that has not been
\* started yet cannot be told from one that has not moved yet.
SpawnPumps(c) ==
    /\ pc' = [pc EXCEPT ![c] = "serving"]
    /\ reader' = [reader EXCEPT ![c] = "read"]
    /\ writer' = [writer EXCEPT ![c] = "loop"]

\* (mutant) the limit is checked with >
HasOneTooMany(h) == Cardinality(members[h]) <= MaxClients

HasRoom(h) == Cardinality(members[h]) < MaxClients

\* The register case of Run, with room for the client ...
Register(c) ==
    LET h == hubOf[c] IN
    /\ Quiet
    /\ Registering(c)
    /\ Selecting(h)
    /\ HasRoom(h)
    /\ members' = [members EXCEPT ![h] = @ \cup {c}]
    /\ timer' = [timer EXCEPT ![h] = FALSE]
    /\ SpawnPumps(c)
    /\ UNCHANGED <<managerVars, hubNode, hubPc, victim, closing, hubOf, conn, sendVars, kickVars>>

\* ... and without: the client is told, and its Send closed at once, but it is
\* handed to the pumps like any other.
Reject(c) ==
    LET h == hubOf[c] IN
    /\ Quiet
    /\ Registering(c)
    /\ Selecting(h)
    /\ ~HasRoom(h)
    /\ timer' = [timer EXCEPT ![h] = FALSE]
    /\ queue' = [queue EXCEPT ![c] = Offer(@, "join_rejected")]
    /\ sendClosed' = [sendClosed EXCEPT ![c] = TRUE]
    /\ SpawnPumps(c)
    /\ UNCHANGED <<managerVars, hubNode, hubPc, members, victim, closing, hubOf, conn, kickVars>>

\* The hub has ended: one second attempt, then the handshake is given up.
HubGone(c) ==
    /\ Quiet
    /\ pc[c] = "register"
    /\ Done(hubOf[c])
    /\ pc' = [pc EXCEPT ![c] = "relookup"]
    /\ UNCHANGED <<managerVars, hubVars, hubOf, conn, sendVars, pumpVars, kickVars>>

HandshakeRefused(c) ==
    /\ Quiet
    /\ pc[c] = "reregister"
    /\ Done(hubOf[c])
    /\ pc' = [pc EXCEPT ![c] = "refused"]
    /\ conn' = Shut(c)
    /\ UNCHANGED <<managerVars, hubVars, hubOf, sendVars, pumpVars, kickVars>>

-----------------------------------------------------------------------------
(* readPump *)

\* A step that moves the read pump alone.
ReaderGoes(c, from, to) ==
    /\ Quiet
    /\ reader[c] = from
    /\ reader' = [reader EXCEPT ![c] = to]
    /\ UNCHANGED <<managerVars, hubVars, handlerVars, conn, sendVars, writer, kickVars>>

ReadMsg(c) == c \in Talkers /\ conn[c] = "open" /\ ReaderGoes(c, "read", "deliver")

ReadFail(c) == conn[c] # "open" /\ ReaderGoes(c, "read", "leave")

\* The inbound case of Run: the hub answers on the client's Send, whether or
\* not the client is a member.
Deliver(c) ==
    /\ Running
    /\ reader[c] = "deliver"
    /\ Selecting(hubOf[c])
    /\ reader' = [reader EXCEPT ![c] = "read"]
    /\ \/ /\ sendClosed[c]
          /\ panic' = "send_closed"
          /\ UNCHANGED queue
       \/ /\ ~sendClosed[c]
          /\ queue' = [queue EXCEPT ![c] = Offer(@, "not_implemented")]
          /\ UNCHANGED panic
    /\ UNCHANGED <<managerVars, hubVars, handlerVars, conn, sendClosed, writer, kickVars>>

DeliverGone(c) == ReaderGoes(c, "deliver", "leave") /\ Done(hubOf[c])

\* (mutant) the client is not looked up before its Send is closed
LeavingUnchecked(c) == {c}

\* (mutant) the timer is started only when a member left last
BecomesIdleMember(c) == members[hubOf[c]] = {c}

Leaving(c) == members[hubOf[c]] \cap {c}

BecomesIdle(c) == members[hubOf[c]] \subseteq {c}

\* The unregister case of Run, also for a client that is not a member.
Unregister(c) ==
    LET h == hubOf[c] IN
    /\ Running
    /\ reader[c] = "leave"
    /\ Selecting(h)
    /\ reader' = [reader EXCEPT ![c] = "gone"]
    /\ members' = [members EXCEPT ![h] = @ \ {c}]
    /\ sendClosed' = [sendClosed EXCEPT ![c] = @ \/ Leaving(c) # {}]
    /\ panic' = IF Leaving(c) # {} /\ sendClosed[c] THEN "close_closed" ELSE panic
    /\ timer' = [timer EXCEPT ![h] = @ \/ BecomesIdle(c)]
    /\ UNCHANGED <<managerVars, hubNode, hubPc, victim, closing, handlerVars, conn, queue, writer, kickVars>>

\* (mutant) the deferred unregister does not watch done
LeaveNever(c) == c \notin Conns

LeaveGone(c) == ReaderGoes(c, "leave", "gone") /\ Done(hubOf[c])

-----------------------------------------------------------------------------
(* writePump *)

\* A message is taken from Send and written.  No one else sees the message in
\* between, so that taking it is not a step of its own.
WriteOk(c) ==
    /\ Quiet
    /\ writer[c] = "loop"
    /\ queue[c] # <<>>
    /\ conn[c] = "open"
    /\ queue' = [queue EXCEPT ![c] = Tail(@)]
    /\ UNCHANGED <<managerVars, hubVars, handlerVars, conn, sendClosed, pumpVars, kickVars>>

\* writePump returns: the deferred Close.
WriterEnds(c) ==
    /\ Quiet
    /\ writer[c] = "loop"
    /\ writer' = [writer EXCEPT ![c] = "gone"]
    /\ conn' = Shut(c)
    /\ UNCHANGED <<managerVars, hubVars, handlerVars, sendClosed, reader, kickVars>>

\* The write fails, on a connection that is closed or after writeWait on one
\* that is open.
WriteFail(c) ==
    /\ queue[c] # <<>>
    /\ queue' = [queue EXCEPT ![c] = Tail(@)]
    /\ WriterEnds(c)

\* Send is closed and drained, the hub has ended, or the reader has returned
\* and cancelled the context; the select prefers none of them to a message.
WriterStop(c) ==
    /\ WriterEnds(c)
    /\ \/ queue[c] = <<>> /\ sendClosed[c]
       \/ Done(hubOf[c])
       \/ reader[c] = "gone"
    /\ UNCHANGED queue

\* The server learns that the peer or the network has ended the connection.
PeerClose(c) ==
    /\ Quiet
    /\ conn[c] = "open"
    /\ conn' = [conn EXCEPT ![c] = "left"]
    /\ UNCHANGED <<managerVars, hubVars, handlerVars, sendVars, pumpVars, kickVars>>

-----------------------------------------------------------------------------
(* HubManager.DisconnectUser and the forceKick case of Run *)

\* The snapshot of the hubs, taken under the manager's mutex.
Snapshot(k) ==
    /\ Quiet
    /\ kickPc[k] = "idle"
    /\ kickPc' = [kickPc EXCEPT ![k] = "kicking"]
    /\ todo' = [todo EXCEPT ![k] = {hubs[n] : n \in Nodes} \ {NoHub}]
    /\ joined' = [joined EXCEPT ![k] = {c \in Attached : UserOf[c] = KickUser[k]}]
    /\ UNCHANGED <<managerVars, hubVars, connVars>>

\* Hub.DisconnectUser.  The hubs are told one after the other, in any order.
ForceKick(k, h) ==
    /\ Quiet
    /\ kickPc[k] = "kicking" /\ h \in todo[k]
    /\ Selecting(h)
    /\ todo' = [todo EXCEPT ![k] = @ \ {h}]
    /\ hubPc' = [hubPc EXCEPT ![h] = "kick"]
    /\ victim' = [victim EXCEPT ![h] = KickUser[k]]
    /\ UNCHANGED <<managerVars, hubNode, members, timer, closing, connVars, kickPc, joined>>

\* A step of DisconnectUser past hub h.
Past(k, h) ==
    /\ Quiet
    /\ kickPc[k] = "kicking" /\ h \in todo[k]
    /\ todo' = [todo EXCEPT ![k] = @ \ {h}]
    /\ UNCHANGED <<managerVars, hubVars, connVars, kickPc, joined>>

\* (mutant) the send on forceKick does not watch done
KickSkipNever(k, h) == Past(k, h) /\ FALSE

KickSkip(k, h) == Past(k, h) /\ Done(h)

KickReturn(k) ==
    /\ Quiet
    /\ kickPc[k] = "kicking"
    /\ todo[k] = {}
    /\ kickPc' = [kickPc EXCEPT ![k] = "finished"]
    /\ UNCHANGED <<managerVars, hubVars, connVars, todo, joined>>

\* (mutant) the clients whose connection has ended are left to their read pump
VictimsOpen(h) ==
    {c \in members[h] : UserOf[c] = victim[h] /\ conn[c] = "open"}

Victims(h) == {c \in members[h] : UserOf[c] = victim[h]}

\* One client of the range loop: told, removed, its Send closed ...
KickClient(h, c) ==
    /\ Running
    /\ hubPc[h] = "kick"
    /\ c \in Victims(h)
    /\ panic' = IF sendClosed[c] THEN "send_closed" ELSE panic
    /\ queue' = [queue EXCEPT ![c] = Offer(@, "force_logout")]
    /\ members' = [members EXCEPT ![h] = @ \ {c}]
    /\ sendClosed' = [sendClosed EXCEPT ![c] = TRUE]
    /\ hubPc' = [hubPc EXCEPT ![h] = "close"]
    /\ closing' = [closing EXCEPT ![h] = c]
    /\ UNCHANGED <<managerVars, hubNode, timer, victim, handlerVars, conn, pumpVars, kickVars>>

\* ... and its Conn closed, which the write pump may not survive with the
\* message still to be written.
CloseKicked(h) ==
    /\ Quiet
    /\ hubPc[h] = "close"
    /\ conn' = Shut(closing[h])
    /\ hubPc' = [hubPc EXCEPT ![h] = "kick"]
    /\ closing' = [closing EXCEPT ![h] = None]
    /\ UNCHANGED <<managerVars, hubNode, members, timer, victim, handlerVars, sendVars, pumpVars, kickVars>>

KickDone(h) ==
    /\ Quiet
    /\ hubPc[h] = "kick"
    /\ Victims(h) = {}
    /\ hubPc' = [hubPc EXCEPT ![h] = "select"]
    /\ victim' = [victim EXCEPT ![h] = None]
    /\ UNCHANGED <<managerVars, hubNode, members, timer, closing, connVars, kickVars>>

-----------------------------------------------------------------------------
(* The idle timer and the end of a hub *)

\* hubIdleTTL has passed.
IdleFires(h) ==
    /\ Quiet
    /\ Selecting(h)
    /\ timer[h]
    /\ timer' = [timer EXCEPT ![h] = FALSE]
    /\ hubPc' = [hubPc EXCEPT ![h] = IF members[h] = {} THEN "release" ELSE "select"]
    /\ UNCHANGED <<managerVars, hubNode, members, victim, closing, connVars, kickVars>>

\* HubManager.Release.  It is called by Run alone, so that the shutdown it
\* closes finds no one in the select.
Release(h) ==
    /\ Quiet
    /\ hubPc[h] = "release"
    /\ hubs' = [hubs EXCEPT ![hubNode[h]] = NoHub]
    /\ hubPc' = [hubPc EXCEPT ![h] = "exit"]
    /\ UNCHANGED <<hubCount, hubNode, members, timer, victim, closing, connVars, kickVars>>

\* Run returns: the deferred close(h.done).
Exit(h) ==
    /\ Quiet
    /\ hubPc[h] = "exit"
    /\ hubPc' = [hubPc EXCEPT ![h] = "done"]
    /\ UNCHANGED <<managerVars, hubNode, members, timer, victim, closing, connVars, kickVars>>

-----------------------------------------------------------------------------
(* The specification *)

Handler(c) ==
    \/ GetOrCreate(c) \/ Register(c) \/ Reject(c) \/ HubGone(c)
    \/ HandshakeRefused(c)

ReadPump(c) ==
    \/ ReadMsg(c) \/ ReadFail(c) \/ Deliver(c) \/ DeliverGone(c)
    \/ Unregister(c) \/ LeaveGone(c)

WritePump(c) == WriteOk(c) \/ WriteFail(c) \/ WriterStop(c)

Kick(k) ==
    \/ Snapshot(k) \/ KickReturn(k)
    \/ \E h \in Hubs : ForceKick(k, h) \/ KickSkip(k, h)

Run(h) ==
    \/ \E c \in Conns : KickClient(h, c)
    \/ CloseKicked(h) \/ KickDone(h) \/ IdleFires(h) \/ Release(h) \/ Exit(h)

Next ==
    \/ \E c \in Conns : Accept(c) \/ Handler(c) \/ ReadPump(c) \/ WritePump(c)
                         \/ PeerClose(c)
    \/ \E k \in Kickers : Kick(k)
    \/ \E h \in Hubs : Run(h)

\* A goroutine that can go on does.  One that waits for a hub's select meets
\* it every now and then only: Go's select chooses at random among the ready
\* cases, which is strong fairness.  Nothing makes a peer connect, send or
\* leave, or a manager force a logout.
Fairness ==
    /\ \A c \in Conns :
          /\ WF_vars(GetOrCreate(c) \/ HubGone(c) \/ HandshakeRefused(c))
          /\ WF_vars(ReadFail(c) \/ DeliverGone(c) \/ LeaveGone(c))
          /\ WF_vars(WritePump(c))
          /\ SF_vars(Register(c) \/ Reject(c))
          /\ SF_vars(Deliver(c))
          /\ SF_vars(Unregister(c))
    /\ \A k \in Kickers :
          /\ WF_vars(KickReturn(k) \/ \E h \in Hubs : KickSkip(k, h))
          /\ SF_vars(\E h \in Hubs : ForceKick(k, h))
    /\ \A h \in Hubs : WF_vars(Run(h))

Spec == Init /\ [][Next]_vars

FairSpec == Spec /\ Fairness

-----------------------------------------------------------------------------
(* Safety *)

\* The variables have their types; buffers respect their capacity.
TypeOK ==
    /\ hubs \in [Nodes -> {NoHub} \cup Hubs]
    /\ hubCount \in 0..MaxHubs
    /\ hubNode \in [Hubs -> Nodes \cup {None}]
    /\ hubPc \in [Hubs -> {"unborn", "select", "kick", "close", "release",
                           "exit", "done"}]
    /\ members \in [Hubs -> SUBSET Conns]
    /\ timer \in [Hubs -> BOOLEAN]
    /\ victim \in [Hubs -> Users \cup {None}]
    /\ closing \in [Hubs -> Conns \cup {None}]
    /\ pc \in [Conns -> {"idle", "lookup", "register", "relookup", "reregister",
                         "serving", "refused"}]
    /\ hubOf \in [Conns -> {NoHub} \cup Hubs]
    /\ conn \in [Conns -> {"none", "open", "closed", "left"}]
    /\ queue \in [Conns -> Seq(Msgs)]
    /\ \A c \in Conns : Len(queue[c]) <= SendCap
    /\ sendClosed \in [Conns -> BOOLEAN]
    /\ reader \in [Conns -> {"off", "read", "deliver", "leave", "gone"}]
    /\ writer \in [Conns -> {"off", "loop", "gone"}]
    /\ kickPc \in [Kickers -> {"idle", "kicking", "finished"}]
    /\ todo \in [Kickers -> SUBSET Hubs]
    /\ joined \in [Kickers -> SUBSET Conns]
    /\ panic \in {"none", "send_closed", "close_closed"}

LivePc == {"select", "kick", "close", "release"}

\* The manager's map and the running hubs agree: a hub that can still take a
\* client, or is about to release itself, is the one the map gives for its
\* node, and the map gives no hub that has released itself (the release of a
\* hub never removes the entry of its successor).
MapIsLive ==
    /\ \A h \in Hubs : hubPc[h] \in LivePc => hubs[hubNode[h]] = h
    /\ \A n \in Nodes : hubs[n] # NoHub => hubPc[hubs[n]] \in LivePc

\* All who are online in a document are in one hub: no two hubs of a node ever
\* hold clients, whatever handshakes raced with the end of a hub.
NoSplitDocument ==
    \A h, g \in Hubs :
        members[h] # {} /\ members[g] # {} /\ hubNode[h] = hubNode[g] => h = g

\* The clients of a document, over all its hubs.
Online(n) == {c \in Conns : \E h \in Hubs : hubNode[h] = n /\ c \in members[h]}

\* No document is ever open on more than maxClientsPerHub connections, each of
\* which asked for that document.
DocCapacity ==
    \A n \in Nodes : /\ Cardinality(Online(n)) <= MaxClients
                     /\ \A c \in Online(n) : NodeOf[c] = n

\* A member's Send is open, so that the hub's own sends and closes on it are
\* safe: nothing closes a Send twice, and no forced logout sends on a closed
\* one, whichever of rejection, unregister and forced logout came first.
MemberSendOpen ==
    /\ \A h \in Hubs : \A c \in members[h] : ~sendClosed[c]
    /\ panic # "close_closed"

\* A hub without clients is released in the end: its timer runs, or someone is
\* still to register with it or to unregister from it.  (A forced logout
\* empties a hub without starting the timer.)
EmptyHubIsAttended ==
    \A h \in Hubs :
        hubPc[h] \in {"select", "kick", "close"} /\ members[h] = {} /\ ~timer[h] =>
            \E c \in Conns : /\ hubOf[c] = h
                            /\ \/ Registering(c)
                               \/ (pc[c] = "serving" /\ reader[c] # "gone")

\* When DisconnectUser returns, no connection of the user that was a member
\* when it began is one still, but where the hub is at work removing it: no
\* hub created, released or replaced in between lets one escape.
KickComplete ==
    \A k \in Kickers : kickPc[k] = "finished" =>
        \A h \in Hubs : \A c \in joined[k] \cap members[h] : BeingKicked(c, h)

-----------------------------------------------------------------------------
(* The hubs implement the rooms *)

\* Those whose handshake has come to an end and who are not members, or are
\* members no longer.
Ended == {c \in Conns : pc[c] = "serving"} \ Attached

Room == INSTANCE DocRoom WITH
            online <- Attached,
            over <- Ended,
            request <- kickPc,
            targets <- joined

\* Every step of the hubs is a step of the rooms: a connection enters only a
\* room with a place, and is turned away only from a full one; a forced logout
\* takes all the user's connections to a document at once, and DisconnectUser
\* returns only after those it found are out.
ImplementsRoom == Room!Spec

-----------------------------------------------------------------------------
(* Liveness, of a process that does not panic *)

\* A call of DisconnectUser returns: it never waits for ever on a hub that is
\* busy, idle or ending, although the hub's done is closed without the lock.
KickReturns ==
    \A k \in Kickers : kickPc[k] = "kicking" ~> kickPc[k] = "finished" \/ ~Running

\* The goroutines of a connection that has ended all end.
PumpsEnd ==
    \A c \in Conns :
        pc[c] # "idle" /\ conn[c] # "open" ~>
            \/ pc[c] = "refused"
            \/ (reader[c] = "gone" /\ writer[c] = "gone")
            \/ ~Running

\* A document nobody has open loses its hub.
HubReleased ==
    \A n \in Nodes :
        hubs[n] # NoHub ~> \/ hubs[n] = NoHub
                          \/ \E c \in Conns : (NodeOf[c] = n /\ conn[c] = "open")
                          \/ ~Running

-----------------------------------------------------------------------------
(* What the documents say and the code does not do *)

\* No panic, with up to 20 people in a document (docs/roadmap.md:60).
NoPanic == Running
=============================================================================

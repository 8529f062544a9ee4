---------------------------- MODULE WsHubProofs ----------------------------
(***************************************************************************)
(* Proofs about WsHub for any number of connections, documents, users,     *)
(* forced logouts and hubs, and any limit on clients and buffers.          *)
(***************************************************************************)
EXTENDS WsHub, FiniteSetTheorems, TLAPS

\* A non-blocking send keeps the buffer within its capacity.
LEMMA OfferType ==
  ASSUME NEW q \in Seq(Msgs), Len(q) <= SendCap, NEW m \in Msgs
  PROVE  Offer(q, m) \in Seq(Msgs) /\ Len(Offer(q, m)) <= SendCap
<1>1. SendCap \in Nat
  BY WsHubAssumption
<1>2. CASE Len(q) < SendCap
  BY <1>1, <1>2 DEF Offer
<1>3. CASE ~(Len(q) < SendCap)
  BY <1>3 DEF Offer
<1>4. QED
  BY <1>2, <1>3

\* The type invariant is inductive by itself.
LEMMA TypeInit == Init => TypeOK
  BY WsHubAssumption DEF Init, TypeOK, Hubs, NoHub, Msgs

\* Every step keeps the types.
LEMMA TypeStep == TypeOK /\ [Next]_vars => TypeOK'
<1> USE WsHubAssumption DEF Hubs, NoHub
<1> SUFFICES ASSUME TypeOK, [Next]_vars PROVE TypeOK'
  OBVIOUS
<1> USE DEF TypeOK, Quiet, Running, managerVars, hubVars, handlerVars, sendVars, pumpVars, connVars, kickVars
<1>1. ASSUME NEW c \in Conns, Accept(c) PROVE TypeOK'
  BY <1>1 DEF Accept
<1>2. ASSUME NEW c \in Conns, GetOrCreate(c) PROVE TypeOK'
  <2>1. CASE Mapped(NodeOf[c])
    <3>1. /\ hubOf' = [hubOf EXCEPT ![c] = hubs[NodeOf[c]]]
          /\ UNCHANGED <<managerVars, hubVars, conn, sendVars, pumpVars, kickVars, panic>>
      BY <1>2, <2>1 DEF GetOrCreate
    <3>2. hubs[NodeOf[c]] \in Hubs
      BY <2>1 DEF Mapped
    <3>3. pc' \in [Conns -> {"idle", "lookup", "register", "relookup", "reregister",
                            "serving", "refused"}]
      BY <1>2 DEF GetOrCreate
    <3>4. QED
      BY <3>1, <3>2, <3>3
  <2>2. CASE ~Mapped(NodeOf[c])
    <3>1. hubCount + 1 \in Hubs /\ hubCount' = hubCount + 1 /\ NodeOf[c] \in Nodes
      BY <1>2, <2>2 DEF GetOrCreate
    <3>2. /\ hubOf' = [hubOf EXCEPT ![c] = hubCount + 1]
          /\ hubs' = [hubs EXCEPT ![NodeOf[c]] = hubCount + 1]
          /\ hubNode' = [hubNode EXCEPT ![hubCount + 1] = NodeOf[c]]
          /\ hubPc' = [hubPc EXCEPT ![hubCount + 1] = "select"]
          /\ UNCHANGED <<members, timer, victim, closing, conn, sendVars, pumpVars, kickVars, panic>>
      BY <1>2, <2>2 DEF GetOrCreate
    <3>3. pc' \in [Conns -> {"idle", "lookup", "register", "relookup", "reregister",
                            "serving", "refused"}]
      BY <1>2 DEF GetOrCreate
    <3>4. /\ hubs' \in [Nodes -> {NoHub} \cup Hubs]
          /\ hubCount' \in 0..MaxHubs
          /\ hubNode' \in [Hubs -> Nodes \cup {None}]
          /\ hubOf' \in [Conns -> {NoHub} \cup Hubs]
      BY <3>1, <3>2
    <3>5. hubPc' \in [Hubs -> {"unborn", "select", "kick", "close", "release", "exit", "done"}]
      BY <3>1, <3>2
    <3>6. QED
      BY <3>2, <3>3, <3>4, <3>5
  <2>3. QED
    BY <2>1, <2>2
<1>3. ASSUME NEW c \in Conns, Register(c) PROVE TypeOK'
  BY <1>3 DEF Register, SpawnPumps
<1>4. ASSUME NEW c \in Conns, Reject(c) PROVE TypeOK'
  <2>1. \A m \in Msgs : Offer(queue[c], m) \in Seq(Msgs) /\ Len(Offer(queue[c], m)) <= SendCap
    BY OfferType
  <2>2. QED
    BY <1>4, <2>1 DEF Reject, SpawnPumps, Msgs
<1>5. ASSUME NEW c \in Conns, HubGone(c) PROVE TypeOK'
  BY <1>5 DEF HubGone
<1>6. ASSUME NEW c \in Conns, HandshakeRefused(c) PROVE TypeOK'
  BY <1>6 DEF HandshakeRefused, Shut
<1>7. ASSUME NEW c \in Conns, ReadMsg(c) \/ ReadFail(c) \/ DeliverGone(c) \/ LeaveGone(c) PROVE TypeOK'
  <2>1. PICK from, to \in {"read", "deliver", "leave", "gone"} : ReaderGoes(c, from, to)
    BY <1>7 DEF ReadMsg, ReadFail, DeliverGone, LeaveGone
  <2>2. QED
    BY <2>1 DEF ReaderGoes
<1>8. ASSUME NEW c \in Conns, Deliver(c) PROVE TypeOK'
  <2>1. \A m \in Msgs : Offer(queue[c], m) \in Seq(Msgs) /\ Len(Offer(queue[c], m)) <= SendCap
    BY OfferType
  <2>2. QED
    <3>1. CASE sendClosed[c]
      BY <1>8, <3>1 DEF Deliver
    <3>2. CASE ~sendClosed[c]
      <4>1. /\ queue' = [queue EXCEPT ![c] = Offer(queue[c], "not_implemented")]
            /\ reader' = [reader EXCEPT ![c] = "read"]
            /\ UNCHANGED <<managerVars, hubVars, handlerVars, conn, sendClosed, writer, kickVars, panic>>
        BY <1>8, <3>2 DEF Deliver
      <4>2. QED
        BY <2>1, <4>1 DEF Msgs
    <3>3. QED
      BY <3>1, <3>2
<1>9. ASSUME NEW c \in Conns, Unregister(c) PROVE TypeOK'
  BY <1>9 DEF Unregister
<1>10. ASSUME NEW c \in Conns, WriteOk(c) PROVE TypeOK'
  BY <1>10 DEF WriteOk, Msgs
<1>11. ASSUME NEW c \in Conns, WriteFail(c) PROVE TypeOK'
  BY <1>11 DEF WriteFail, WriterEnds, Shut, Msgs
<1>12. ASSUME NEW c \in Conns, WriterStop(c) PROVE TypeOK'
  BY <1>12 DEF WriterStop, WriterEnds, Shut
<1>13. ASSUME NEW c \in Conns, PeerClose(c) PROVE TypeOK'
  BY <1>13 DEF PeerClose
<1>14. ASSUME NEW k \in Kickers, Snapshot(k) PROVE TypeOK'
  BY <1>14 DEF Snapshot, Attached
<1>15. ASSUME NEW k \in Kickers, NEW h \in Hubs, ForceKick(k, h) PROVE TypeOK'
  BY <1>15 DEF ForceKick
<1>16. ASSUME NEW k \in Kickers, NEW h \in Hubs, KickSkip(k, h) PROVE TypeOK'
  BY <1>16 DEF KickSkip, Past
<1>17. ASSUME NEW k \in Kickers, KickReturn(k) PROVE TypeOK'
  BY <1>17 DEF KickReturn
<1>18. ASSUME NEW h \in Hubs, NEW c \in Conns, KickClient(h, c) PROVE TypeOK'
  <2>1. \A m \in Msgs : Offer(queue[c], m) \in Seq(Msgs) /\ Len(Offer(queue[c], m)) <= SendCap
    BY OfferType
  <2>2. QED
    BY <1>18, <2>1 DEF KickClient, Msgs
<1>19. ASSUME NEW h \in Hubs, CloseKicked(h) PROVE TypeOK'
  BY <1>19 DEF CloseKicked, Shut
<1>20. ASSUME NEW h \in Hubs, KickDone(h) PROVE TypeOK'
  BY <1>20 DEF KickDone
<1>21. ASSUME NEW h \in Hubs, IdleFires(h) PROVE TypeOK'
  BY <1>21 DEF IdleFires
<1>22. ASSUME NEW h \in Hubs, Release(h) PROVE TypeOK'
  BY <1>22 DEF Release
<1>23. ASSUME NEW h \in Hubs, Exit(h) PROVE TypeOK'
  BY <1>23 DEF Exit
<1>24. CASE UNCHANGED vars
  BY <1>24 DEF vars
<1>25. QED
  BY <1>1, <1>2, <1>3, <1>4, <1>5, <1>6, <1>7, <1>8, <1>9, <1>10, <1>11, <1>12, <1>13, <1>14,
     <1>15, <1>16, <1>17, <1>18, <1>19, <1>20, <1>21, <1>22, <1>23, <1>24
  DEF Next, Handler, ReadPump, WritePump, Kick, Run

\* The variables of the hubs keep their types, and no Send holds more than its
\* capacity, whatever the goroutines do.
THEOREM TypeCorrect == Spec => []TypeOK
  BY TypeInit, TypeStep, PTL DEF Spec

-----------------------------------------------------------------------------
(***************************************************************************)
(* The inductive invariant.  The hubs and the manager's map agree; a hub   *)
(* that has left its select for good has no clients; a member belongs to   *)
(* the hub it registered with, has an open Send and a read pump that will  *)
(* unregister it; and a forced logout has dealt with every hub that is not *)
(* on its list any more.                                                   *)
(***************************************************************************)
ServingPc == {"select", "kick", "close"}

HubInv ==
    \A h \in Hubs :
        /\ hubPc[h] = "unborn" <=> h > hubCount
        /\ hubPc[h] \in LivePc => hubNode[h] \in Nodes /\ hubs[hubNode[h]] = h
        /\ members[h] # {} => hubPc[h] \in ServingPc
        /\ timer[h] => members[h] = {}

MapInv ==
    \A n \in Nodes :
        hubs[n] # NoHub => hubPc[hubs[n]] \in LivePc /\ hubNode[hubs[n]] = n

ConnInv ==
    \A c \in Conns :
        /\ pc[c] \notin {"idle", "lookup"} =>
              /\ hubOf[c] \in Hubs
              /\ hubPc[hubOf[c]] # "unborn"
              /\ hubNode[hubOf[c]] = NodeOf[c]
        /\ reader[c] # "off" => pc[c] = "serving"
        /\ sendClosed[c] => pc[c] = "serving"

MemberInv ==
    \A h \in Hubs : \A c \in members[h] :
        hubOf[c] = h /\ ~sendClosed[c] /\ pc[c] = "serving" /\ reader[c] # "gone"

KickInv ==
    \A k \in Kickers :
        /\ \A c \in joined[k] : UserOf[c] = KickUser[k] /\ pc[c] = "serving"
        /\ \A h \in Hubs : \A c \in joined[k] \cap members[h] :
              h \in todo[k] \/ BeingKicked(c, h)
        /\ kickPc[k] = "finished" => todo[k] = {}

RoomInv == \A h \in Hubs : Cardinality(members[h]) <= MaxClients

NoDoubleClose == panic # "close_closed"

IInv ==
    /\ TypeOK
    /\ HubInv
    /\ MapInv
    /\ ConnInv
    /\ MemberInv
    /\ KickInv
    /\ RoomInv
    /\ NoDoubleClose
    /\ EmptyHubIsAttended

-----------------------------------------------------------------------------
(* The steps of one connection that no hub takes part in.                  *)
ConnStep(c) ==
    \/ Accept(c) \/ HubGone(c) \/ HandshakeRefused(c) \/ ReadMsg(c) \/ ReadFail(c)
    \/ Deliver(c) \/ DeliverGone(c) \/ LeaveGone(c) \/ WriteOk(c) \/ WriteFail(c)
    \/ WriterStop(c) \/ PeerClose(c)

\* They leave the hubs, the manager and the forced logouts alone, and move the
\* handler forwards.
LEMMA ConnStepFrame ==
  ASSUME NEW c \in Conns, ConnStep(c)
  PROVE  /\ UNCHANGED <<managerVars, hubVars, kickVars, hubOf, sendClosed>>
         /\ panic' # "close_closed" \/ UNCHANGED panic
  BY DEF ConnStep, Accept, HubGone, HandshakeRefused, ReadMsg, ReadFail, Deliver, DeliverGone,
         LeaveGone, WriteOk, WriteFail, WriterStop, PeerClose, ReaderGoes, WriterEnds, Quiet,
         managerVars, hubVars, kickVars, handlerVars, sendVars, pumpVars

\* Every step of the system is one of these.
LEMMA NextCases ==
  ASSUME [Next]_vars
  PROVE  \/ \E c \in Conns : ConnStep(c) \/ GetOrCreate(c) \/ Register(c) \/ Reject(c) \/ Unregister(c)
         \/ \E k \in Kickers : Snapshot(k) \/ KickReturn(k)
         \/ \E k \in Kickers, h \in Hubs : ForceKick(k, h) \/ KickSkip(k, h)
         \/ \E h \in Hubs, c \in Conns : KickClient(h, c)
         \/ \E h \in Hubs : CloseKicked(h) \/ KickDone(h) \/ IdleFires(h) \/ Release(h) \/ Exit(h)
         \/ UNCHANGED vars
  BY DEF Next, Handler, ReadPump, WritePump, Kick, Run, ConnStep

-----------------------------------------------------------------------------
(* The hubs and the manager's map.                                         *)
\* Every step keeps what is known of the hubs and of the manager's map.
LEMMA HubStep == IInv /\ [Next]_vars => HubInv' /\ MapInv'
<1> SUFFICES ASSUME IInv, [Next]_vars PROVE HubInv' /\ MapInv'
  OBVIOUS
<1> USE WsHubAssumption DEF IInv, TypeOK, HubInv, MapInv, Hubs, NoHub, ServingPc, LivePc, Quiet
<1>1. ASSUME NEW c \in Conns, ConnStep(c) PROVE HubInv' /\ MapInv'
  BY <1>1, ConnStepFrame DEF managerVars, hubVars
<1>2. ASSUME NEW c \in Conns, GetOrCreate(c) PROVE HubInv' /\ MapInv'
  <2>1. CASE Mapped(NodeOf[c])
    BY <1>2, <2>1 DEF GetOrCreate, managerVars
  <2>2. CASE ~Mapped(NodeOf[c])
    <3> DEFINE n == NodeOf[c]
               g == hubCount + 1
    <3>1. /\ g \in Hubs /\ n \in Nodes /\ hubCount' = g
          /\ hubs' = [hubs EXCEPT ![n] = g]
          /\ hubNode' = [hubNode EXCEPT ![g] = n]
          /\ hubPc' = [hubPc EXCEPT ![g] = "select"]
          /\ UNCHANGED <<members, timer>>
      BY <1>2, <2>2 DEF GetOrCreate
    <3>2. hubs[n] = NoHub /\ hubPc[g] = "unborn"
      <4>1. hubs[n] # NoHub => hubPc[hubs[n]] # "done"
        BY <3>1
      <4>2. hubs[n] = NoHub
        BY <2>2, <4>1 DEF Mapped, Done
      <4>3. g > hubCount
        BY <3>1
      <4>4. QED
        BY <3>1, <4>2, <4>3
    <3> HIDE DEF n, g
    <3>3. MapInv'
      BY <3>1, <3>2
    <3>4. HubInv'
      <4> SUFFICES ASSUME NEW h \in Hubs
                   PROVE  /\ hubPc'[h] = "unborn" <=> h > hubCount'
                          /\ hubPc'[h] \in LivePc => hubNode'[h] \in Nodes /\ hubs'[hubNode'[h]] = h
                          /\ members'[h] # {} => hubPc'[h] \in ServingPc
                          /\ timer'[h] => members'[h] = {}
        BY DEF HubInv
      <4>1. CASE h = g
        BY <3>1, <3>2, <4>1
      <4>2. CASE h # g
        <5>1. hubPc'[h] = hubPc[h] /\ hubNode'[h] = hubNode[h]
          BY <3>1, <4>2
        <5>2. hubPc[h] \in LivePc => hubNode[h] # n
          BY <3>2
        <5>3. h > hubCount' <=> h > hubCount
          BY <3>1, <4>2 DEF g
        <5>4. QED
          BY <3>1, <5>1, <5>2, <5>3
      <4>3. QED
        BY <4>1, <4>2
    <3>5. QED
      BY <3>3, <3>4
  <2>3. QED
    BY <2>1, <2>2
<1>3. ASSUME NEW c \in Conns, Register(c) PROVE HubInv' /\ MapInv'
  BY <1>3 DEF Register, Selecting, managerVars, ConnInv, Registering
<1>4. ASSUME NEW c \in Conns, Reject(c) PROVE HubInv' /\ MapInv'
  BY <1>4 DEF Reject, Selecting, managerVars
<1>5. ASSUME NEW c \in Conns, Unregister(c) PROVE HubInv' /\ MapInv'
  BY <1>5 DEF Unregister, Selecting, managerVars, BecomesIdle
<1>6. ASSUME NEW k \in Kickers, Snapshot(k) \/ KickReturn(k) PROVE HubInv' /\ MapInv'
  <2>1. UNCHANGED <<managerVars, hubVars>>
    BY <1>6 DEF Snapshot, KickReturn
  <2>2. QED
    BY <2>1 DEF managerVars, hubVars
<1>7. ASSUME NEW k \in Kickers, NEW h \in Hubs, ForceKick(k, h) PROVE HubInv' /\ MapInv'
  BY <1>7 DEF ForceKick, Selecting, managerVars
<1>8. ASSUME NEW k \in Kickers, NEW h \in Hubs, KickSkip(k, h) PROVE HubInv' /\ MapInv'
  BY <1>8 DEF KickSkip, Past, managerVars, hubVars
<1>9. ASSUME NEW h \in Hubs, NEW c \in Conns, KickClient(h, c) PROVE HubInv' /\ MapInv'
  BY <1>9 DEF KickClient, managerVars
<1>10. ASSUME NEW h \in Hubs, CloseKicked(h) PROVE HubInv' /\ MapInv'
  BY <1>10 DEF CloseKicked, managerVars
<1>11. ASSUME NEW h \in Hubs, KickDone(h) PROVE HubInv' /\ MapInv'
  BY <1>11 DEF KickDone, managerVars
<1>12. ASSUME NEW h \in Hubs, IdleFires(h) PROVE HubInv' /\ MapInv'
  BY <1>12 DEF IdleFires, Selecting, managerVars
<1>13. ASSUME NEW h \in Hubs, Release(h) PROVE HubInv' /\ MapInv'
  BY <1>13 DEF Release
<1>14. ASSUME NEW h \in Hubs, Exit(h) PROVE HubInv' /\ MapInv'
  BY <1>14 DEF Exit, managerVars
<1>15. CASE UNCHANGED vars
  BY <1>15 DEF vars, managerVars, hubVars
<1>16. QED
  BY NextCases, <1>1, <1>2, <1>3, <1>4, <1>5, <1>6, <1>7, <1>8, <1>9, <1>10, <1>11, <1>12, <1>13,
     <1>14, <1>15

-----------------------------------------------------------------------------
(* Connections and members.                                                *)
\* Every step keeps what is known of the connections and the members.
LEMMA MemberStep == IInv /\ [Next]_vars => ConnInv' /\ MemberInv' /\ NoDoubleClose'
<1> SUFFICES ASSUME IInv, [Next]_vars PROVE ConnInv' /\ MemberInv' /\ NoDoubleClose'
  OBVIOUS
<1> DEFINE Goal == ConnInv' /\ MemberInv' /\ NoDoubleClose'
<1> USE WsHubAssumption DEF IInv, TypeOK, ConnInv, MemberInv, NoDoubleClose, Hubs, NoHub, Quiet
<1>1. ASSUME NEW c \in Conns, ConnStep(c) PROVE Goal
  <2>1. /\ UNCHANGED <<hubNode, hubPc, members, hubOf, sendClosed>>
        /\ panic' # "close_closed"
    BY <1>1, ConnStepFrame DEF hubVars
  <2>2. \/ pc' = pc
        \/ \E to \in {"lookup", "relookup", "refused"} :
              /\ pc[c] # "serving"
              /\ pc[c] \in {"idle", "lookup"} => to = "lookup"
              /\ pc' = [pc EXCEPT ![c] = to]
    BY <1>1 DEF ConnStep, Accept, HubGone, HandshakeRefused, ReadMsg, ReadFail, Deliver,
                DeliverGone, LeaveGone, WriteOk, WriteFail, WriterStop, PeerClose, ReaderGoes,
                WriterEnds, handlerVars
  <2>3. \/ reader' = reader
        \/ \E to \in {"read", "deliver", "leave", "gone"} :
              /\ reader[c] # "off"
              /\ to = "gone" => hubPc[hubOf[c]] = "done"
              /\ reader' = [reader EXCEPT ![c] = to]
    BY <1>1 DEF ConnStep, Accept, HubGone, HandshakeRefused, ReadMsg, ReadFail, Deliver,
                DeliverGone, LeaveGone, WriteOk, WriteFail, WriterStop, PeerClose, ReaderGoes,
                WriterEnds, pumpVars, Done
  <2>4. ConnInv'
    BY <2>1, <2>2, <2>3
  <2>5. MemberInv'
    <3> SUFFICES ASSUME NEW h \in Hubs, NEW d \in members[h]
                 PROVE  hubOf[d] = h /\ ~sendClosed[d] /\ pc'[d] = "serving" /\ reader'[d] # "gone"
      BY <2>1
    <3>1. hubOf[d] = h /\ ~sendClosed[d] /\ pc[d] = "serving" /\ reader[d] # "gone"
      OBVIOUS
    <3>2. hubPc[hubOf[d]] # "done"
      BY <3>1 DEF HubInv, ServingPc
    <3>3. pc'[d] = "serving"
      BY <2>2, <3>1
    <3>4. reader'[d] # "gone"
      BY <2>3, <3>1, <3>2
    <3>5. QED
      BY <3>1, <3>3, <3>4
  <2>6. QED
    BY <2>1, <2>4, <2>5
<1>2. ASSUME NEW c \in Conns, GetOrCreate(c) PROVE Goal
  <2>1. /\ pc[c] \in {"lookup", "relookup"} /\ ~sendClosed[c] /\ reader[c] = "off"
        /\ \E to \in {"register", "reregister"} : pc' = [pc EXCEPT ![c] = to]
        /\ UNCHANGED <<members, sendClosed, reader, panic>>
    BY <1>2 DEF GetOrCreate, sendVars, pumpVars
  <2>2. /\ hubOf'[c] \in Hubs /\ hubPc'[hubOf'[c]] # "unborn" /\ hubNode'[hubOf'[c]] = NodeOf[c]
        /\ \A d \in Conns \ {c} : hubOf'[d] = hubOf[d]
        /\ \A h \in Hubs : hubPc[h] # "unborn" => hubPc'[h] # "unborn" /\ hubNode'[h] = hubNode[h]
    <3>1. CASE Mapped(NodeOf[c])
      <4>1. hubOf' = [hubOf EXCEPT ![c] = hubs[NodeOf[c]]] /\ UNCHANGED <<hubNode, hubPc>>
        BY <1>2, <3>1 DEF GetOrCreate
      <4>2. hubs[NodeOf[c]] \in Hubs
        BY <3>1 DEF Mapped
      <4>3. hubPc[hubs[NodeOf[c]]] # "unborn" /\ hubNode[hubs[NodeOf[c]]] = NodeOf[c]
        <5>1. NodeOf[c] \in Nodes /\ hubs[NodeOf[c]] # NoHub
          BY <3>1 DEF Mapped
        <5>2. QED
          BY <5>1 DEF MapInv, LivePc
      <4>4. QED
        BY <4>1, <4>2, <4>3
    <3>2. CASE ~Mapped(NodeOf[c])
      <4>1. hubCount + 1 \in Hubs /\ hubPc[hubCount + 1] = "unborn" /\ NodeOf[c] \in Nodes
        <5>1. hubCount < MaxHubs
          BY <1>2, <3>2 DEF GetOrCreate
        <5>2. hubCount + 1 \in Hubs /\ hubCount + 1 > hubCount
          BY <5>1
        <5>3. hubPc[hubCount + 1] = "unborn"
          BY <5>2 DEF HubInv
        <5>4. NodeOf[c] \in Nodes
          OBVIOUS
        <5>5. QED
          BY <5>2, <5>3, <5>4
      <4>2. QED
        <5>1. /\ hubOf' = [hubOf EXCEPT ![c] = hubCount + 1]
              /\ hubNode' = [hubNode EXCEPT ![hubCount + 1] = NodeOf[c]]
              /\ hubPc' = [hubPc EXCEPT ![hubCount + 1] = "select"]
          BY <1>2, <3>2 DEF GetOrCreate
        <5>2. hubOf'[c] = hubCount + 1 /\ \A d \in Conns \ {c} : hubOf'[d] = hubOf[d]
          BY <5>1
        <5>3. hubPc'[hubCount + 1] = "select" /\ hubNode'[hubCount + 1] = NodeOf[c]
          BY <4>1, <5>1
        <5>4. \A h \in Hubs \ {hubCount + 1} : hubPc'[h] = hubPc[h] /\ hubNode'[h] = hubNode[h]
          BY <5>1
        <5>5. /\ hubOf'[c] \in Hubs /\ hubPc'[hubOf'[c]] # "unborn"
              /\ hubNode'[hubOf'[c]] = NodeOf[c]
          BY <4>1, <5>2, <5>3
        <5>6. ASSUME NEW h \in Hubs, hubPc[h] # "unborn"
              PROVE  hubPc'[h] # "unborn" /\ hubNode'[h] = hubNode[h]
          <6>1. h \in Hubs \ {hubCount + 1}
            BY <4>1, <5>6
          <6>2. QED
            BY <5>4, <5>6, <6>1
        <5>7. QED
          BY <5>2, <5>5, <5>6
    <3>3. QED
      BY <3>1, <3>2
  <2>3. ConnInv'
    BY <2>1, <2>2
  <2>4. MemberInv'
    BY <2>1, <2>2
  <2>5. QED
    BY <2>1, <2>3, <2>4
<1>3. ASSUME NEW c \in Conns, Register(c) PROVE Goal
  BY <1>3 DEF Register, SpawnPumps, Registering, sendVars
<1>4. ASSUME NEW c \in Conns, Reject(c) PROVE Goal
  BY <1>4 DEF Reject, SpawnPumps, Registering
<1>5. ASSUME NEW c \in Conns, Unregister(c) PROVE Goal
  <2>1. /\ UNCHANGED <<hubNode, hubPc, hubOf, pc>>
        /\ reader[c] = "leave" /\ reader' = [reader EXCEPT ![c] = "gone"]
        /\ members' = [members EXCEPT ![hubOf[c]] = @ \ {c}]
        /\ sendClosed' = [sendClosed EXCEPT ![c] = @ \/ Leaving(c) # {}]
        /\ panic' = IF Leaving(c) # {} /\ sendClosed[c] THEN "close_closed" ELSE panic
    BY <1>5 DEF Unregister, handlerVars
  <2>2. pc[c] = "serving" /\ hubOf[c] \in Hubs
    BY <2>1
  <2>3. ConnInv'
    BY <2>1, <2>2
  <2>4. MemberInv'
    BY <2>1, <2>2
  <2>5. NoDoubleClose'
    BY <2>1, <2>2 DEF Leaving
  <2>6. QED
    BY <2>3, <2>4, <2>5
<1>6. ASSUME NEW k \in Kickers, Snapshot(k) \/ KickReturn(k) PROVE Goal
  <2>1. UNCHANGED <<hubVars, connVars, panic>>
    BY <1>6 DEF Snapshot, KickReturn
  <2>2. QED
    BY <2>1 DEF hubVars, connVars, handlerVars, sendVars, pumpVars
<1>7. ASSUME NEW k \in Kickers, NEW h \in Hubs, ForceKick(k, h) PROVE Goal
  BY <1>7 DEF ForceKick, Selecting, connVars, handlerVars, sendVars, pumpVars
<1>8. ASSUME NEW k \in Kickers, NEW h \in Hubs, KickSkip(k, h) PROVE Goal
  BY <1>8 DEF KickSkip, Past, hubVars, connVars, handlerVars, sendVars, pumpVars
<1>9. ASSUME NEW h \in Hubs, NEW c \in Conns, KickClient(h, c) PROVE Goal
  BY <1>9 DEF KickClient, Victims, handlerVars, pumpVars
<1>10. ASSUME NEW h \in Hubs, CloseKicked(h) PROVE Goal
  BY <1>10 DEF CloseKicked, handlerVars, sendVars, pumpVars
<1>11. ASSUME NEW h \in Hubs, KickDone(h) PROVE Goal
  BY <1>11 DEF KickDone, connVars, handlerVars, sendVars, pumpVars
<1>12. ASSUME NEW h \in Hubs, IdleFires(h) PROVE Goal
  BY <1>12 DEF IdleFires, connVars, handlerVars, sendVars, pumpVars
<1>13. ASSUME NEW h \in Hubs, Release(h) PROVE Goal
  BY <1>13 DEF Release, connVars, handlerVars, sendVars, pumpVars
<1>14. ASSUME NEW h \in Hubs, Exit(h) PROVE Goal
  BY <1>14 DEF Exit, connVars, handlerVars, sendVars, pumpVars
<1>15. CASE UNCHANGED vars
  BY <1>15 DEF vars, hubVars, connVars, handlerVars, sendVars, pumpVars
<1>16. QED
  BY NextCases, <1>1, <1>2, <1>3, <1>4, <1>5, <1>6, <1>7, <1>8, <1>9, <1>10, <1>11, <1>12, <1>13,
     <1>14, <1>15

-----------------------------------------------------------------------------
(* Forced logouts.                                                         *)
\* Every step keeps what is known of forced logouts.
LEMMA KickStep == IInv /\ [Next]_vars => KickInv'
<1> SUFFICES ASSUME IInv, [Next]_vars PROVE KickInv'
  OBVIOUS
<1> USE WsHubAssumption DEF IInv, TypeOK, KickInv, BeingKicked, Hubs, NoHub, Quiet
<1>1. ASSUME NEW c \in Conns, ConnStep(c) PROVE KickInv'
  <2>1. UNCHANGED <<hubVars, kickVars>>
    BY <1>1, ConnStepFrame
  <2>2. \A d \in Conns : pc[d] = "serving" => pc'[d] = "serving"
    BY <1>1 DEF ConnStep, Accept, HubGone, HandshakeRefused, ReadMsg, ReadFail, Deliver,
                DeliverGone, LeaveGone, WriteOk, WriteFail, WriterStop, PeerClose, ReaderGoes,
                WriterEnds, handlerVars
  <2>3. UNCHANGED <<hubPc, members, victim, kickPc, todo, joined>>
    BY <2>1 DEF hubVars, kickVars
  <2>4. \A k \in Kickers : \A d \in joined'[k] : UserOf[d] = KickUser[k] /\ pc'[d] = "serving"
    BY <2>2, <2>3
  <2>5. \A k \in Kickers : kickPc'[k] = "finished" => todo'[k] = {}
    BY <2>3
  <2>6. ASSUME NEW k \in Kickers, NEW h \in Hubs, NEW d \in joined'[k] \cap members'[h]
        PROVE  h \in todo'[k] \/ BeingKicked(d, h)'
    <3>1. h \in todo[k] \/ BeingKicked(d, h)
      BY <2>3, <2>6
    <3>2. QED
      BY <2>3, <3>1
  <2>7. QED
    BY <2>4, <2>5, <2>6
<1>2. ASSUME NEW c \in Conns, GetOrCreate(c) PROVE KickInv'
  <2>1. /\ UNCHANGED <<members, victim, kickVars>>
        /\ \A d \in Conns : pc[d] = "serving" => pc'[d] = "serving"
    BY <1>2 DEF GetOrCreate
  <2>2. \A h \in Hubs : hubPc[h] # "unborn" => hubPc'[h] = hubPc[h]
    <3>1. CASE Mapped(NodeOf[c])
      BY <1>2, <3>1 DEF GetOrCreate
    <3>2. CASE ~Mapped(NodeOf[c])
      <4>1. hubPc[hubCount + 1] = "unborn"
        BY <1>2, <3>2 DEF GetOrCreate, HubInv
      <4>2. hubPc' = [hubPc EXCEPT ![hubCount + 1] = "select"]
        BY <1>2, <3>2 DEF GetOrCreate
      <4>3. QED
        BY <4>1, <4>2
    <3>3. QED
      BY <3>1, <3>2
  <2>3. \A h \in Hubs : members[h] # {} => hubPc'[h] = hubPc[h]
    BY <2>2 DEF HubInv, ServingPc
  <2>4. SUFFICES ASSUME NEW j \in Kickers, NEW h \in Hubs, NEW d \in joined[j] \cap members[h]
                 PROVE  h \in todo[j] \/ (hubPc'[h] \in {"kick", "close"} /\ victim[h] = UserOf[d])
    BY <2>1 DEF kickVars
  <2>5. h \in todo[j] \/ (hubPc[h] \in {"kick", "close"} /\ victim[h] = UserOf[d])
    OBVIOUS
  <2>6. QED
    BY <2>3, <2>5
<1>3. ASSUME NEW c \in Conns, Register(c) PROVE KickInv'
  <2>1. /\ pc[c] # "serving" /\ pc' = [pc EXCEPT ![c] = "serving"]
        /\ members' = [members EXCEPT ![hubOf[c]] = @ \cup {c}]
        /\ UNCHANGED <<hubPc, victim, joined, todo, kickPc>>
    BY <1>3 DEF Register, SpawnPumps, Registering, kickVars
  <2>2. \A k \in Kickers, h \in Hubs : joined[k] \cap members'[h] \subseteq members[h]
    BY <2>1
  <2>3. QED
    BY <2>1, <2>2
<1>4. ASSUME NEW c \in Conns, Reject(c) PROVE KickInv'
  BY <1>4 DEF Reject, SpawnPumps, kickVars
<1>5. ASSUME NEW c \in Conns, Unregister(c) PROVE KickInv'
  BY <1>5 DEF Unregister, handlerVars, kickVars
<1>6. ASSUME NEW k \in Kickers, Snapshot(k) PROVE KickInv'
  <2>1. \A h \in Hubs : members[h] # {} => h \in {hubs[n] : n \in Nodes} \ {NoHub}
    <3> SUFFICES ASSUME NEW h \in Hubs, members[h] # {}
                 PROVE  h # NoHub /\ \E n \in Nodes : h = hubs[n]
      OBVIOUS
    <3>1. hubPc[h] \in LivePc
      BY DEF HubInv, ServingPc, LivePc
    <3>2. QED
      BY <3>1 DEF HubInv
  <2>2. /\ joined' = [joined EXCEPT ![k] = {c \in Attached : UserOf[c] = KickUser[k]}]
        /\ todo' = [todo EXCEPT ![k] = {hubs[n] : n \in Nodes} \ {NoHub}]
        /\ kickPc' = [kickPc EXCEPT ![k] = "kicking"]
        /\ UNCHANGED <<members, hubPc, victim, pc>>
    BY <1>6 DEF Snapshot, hubVars, connVars, handlerVars
  <2>3. Attached \subseteq {c \in Conns : pc[c] = "serving"}
    BY DEF Attached, MemberInv
  <2>4. SUFFICES ASSUME NEW j \in Kickers
                 PROVE  /\ \A c \in joined'[j] : UserOf[c] = KickUser[j] /\ pc[c] = "serving"
                        /\ \A h \in Hubs : \A c \in joined'[j] \cap members[h] :
                              h \in todo'[j] \/ BeingKicked(c, h)
                        /\ kickPc'[j] = "finished" => todo'[j] = {}
    BY <2>2
  <2>5. CASE j = k
    <3>1. joined'[k] = {c \in Attached : UserOf[c] = KickUser[k]}
      BY <2>2
    <3>2. todo'[k] = {hubs[n] : n \in Nodes} \ {NoHub} /\ kickPc'[k] = "kicking"
      BY <2>2
    <3>3. QED
      BY <2>1, <2>3, <2>5, <3>1, <3>2
  <2>6. CASE j # k
    BY <2>2, <2>6
  <2>7. QED
    BY <2>5, <2>6
<1>7. ASSUME NEW k \in Kickers, KickReturn(k) PROVE KickInv'
  <2>1. /\ kickPc' = [kickPc EXCEPT ![k] = "finished"]
        /\ todo[k] = {}
        /\ UNCHANGED <<members, hubPc, victim, pc, joined, todo>>
    BY <1>7 DEF KickReturn, hubVars, connVars, handlerVars
  <2>2. QED
    BY <2>1
<1>8. ASSUME NEW k \in Kickers, NEW h \in Hubs, ForceKick(k, h) PROVE KickInv'
  BY <1>8 DEF ForceKick, Selecting, connVars, handlerVars
<1>9. ASSUME NEW k \in Kickers, NEW h \in Hubs, KickSkip(k, h) PROVE KickInv'
  <2>1. members[h] = {}
    BY <1>9 DEF KickSkip, Done, HubInv, ServingPc
  <2>2. QED
    BY <1>9, <2>1 DEF KickSkip, Past, hubVars, connVars, handlerVars
<1>10. ASSUME NEW h \in Hubs, NEW c \in Conns, KickClient(h, c) PROVE KickInv'
  BY <1>10 DEF KickClient, handlerVars, kickVars
<1>11. ASSUME NEW h \in Hubs, CloseKicked(h) PROVE KickInv'
  BY <1>11 DEF CloseKicked, handlerVars, kickVars
<1>12. ASSUME NEW h \in Hubs, KickDone(h) PROVE KickInv'
  BY <1>12 DEF KickDone, Victims, connVars, handlerVars, kickVars
<1>13. ASSUME NEW h \in Hubs, IdleFires(h) PROVE KickInv'
  BY <1>13 DEF IdleFires, Selecting, connVars, handlerVars, kickVars
<1>14. ASSUME NEW h \in Hubs, Release(h) \/ Exit(h) PROVE KickInv'
  <2>1. \E to \in {"exit", "done"} : /\ hubPc[h] \in {"release", "exit"}
                                    /\ hubPc' = [hubPc EXCEPT ![h] = to]
                                    /\ UNCHANGED <<members, victim, connVars, kickVars>>
    BY <1>14 DEF Release, Exit
  <2>2. QED
    BY <2>1 DEF connVars, handlerVars, kickVars
<1>15. CASE UNCHANGED vars
  BY <1>15 DEF vars, hubVars, connVars, handlerVars, kickVars
<1>16. QED
  BY NextCases, <1>1, <1>2, <1>3, <1>4, <1>5, <1>6, <1>7, <1>8, <1>9, <1>10, <1>11, <1>12, <1>13,
     <1>14, <1>15

-----------------------------------------------------------------------------
(* The limit on the clients of a hub.                                      *)
\* Every step keeps the limit.
LEMMA RoomStep == IInv /\ [Next]_vars => RoomInv'
<1> SUFFICES ASSUME IInv, [Next]_vars, NEW h \in Hubs
             PROVE  Cardinality(members'[h]) <= MaxClients
  BY DEF RoomInv
<1>1. /\ IsFiniteSet(members[h])
      /\ Cardinality(members[h]) \in Nat
      /\ Cardinality(members[h]) <= MaxClients
      /\ MaxClients \in Nat
  BY WsHubAssumption, FS_Subset, FS_CardinalityType DEF IInv, TypeOK, RoomInv
<1>2. ASSUME NEW c \in Conns, Register(c) PROVE Cardinality(members'[h]) <= MaxClients
  <2>1. CASE h = hubOf[c]
    <3>1. members'[h] = members[h] \cup {c} /\ Cardinality(members[h]) < MaxClients
      BY <1>2, <2>1 DEF Register, HasRoom, IInv, TypeOK
    <3>2. \/ Cardinality(members[h] \cup {c}) = Cardinality(members[h])
          \/ Cardinality(members[h] \cup {c}) = Cardinality(members[h]) + 1
      BY <1>1, FS_AddElement, Zenon
    <3>3. IsFiniteSet(members[h] \cup {c})
      BY <1>1, FS_AddElement
    <3>4. Cardinality(members'[h]) \in Nat
      BY <3>1, <3>3, FS_CardinalityType
    <3>5. QED
      BY <1>1, <3>1, <3>2, <3>4
  <2>2. CASE h # hubOf[c]
    BY <1>1, <1>2, <2>2 DEF Register, IInv, TypeOK
  <2>3. QED
    BY <2>1, <2>2
<1>3. ASSUME members'[h] \subseteq members[h] PROVE Cardinality(members'[h]) <= MaxClients
  <2>1. Cardinality(members'[h]) \in Nat /\ Cardinality(members'[h]) <= Cardinality(members[h])
    BY <1>1, <1>3, FS_Subset, FS_CardinalityType
  <2>2. QED
    BY <1>1, <2>1
<1>4. (\E c \in Conns : Register(c)) \/ members'[h] \subseteq members[h]
  BY NextCases, ConnStepFrame
  DEF GetOrCreate, Reject, Unregister, Snapshot, KickReturn, ForceKick, KickSkip, Past, KickClient,
      CloseKicked, KickDone, IdleFires, Release, Exit, vars, hubVars, IInv, TypeOK
<1>5. QED
  BY <1>2, <1>3, <1>4

-----------------------------------------------------------------------------
(* Someone attends to every empty hub.                                     *)
Attends(c, h) ==
    hubOf[c] = h /\ (Registering(c) \/ (pc[c] = "serving" /\ reader[c] # "gone"))

\* A hub without members has its timer running, or somebody coming or going.
LEMMA AttendedStep == IInv /\ [Next]_vars => EmptyHubIsAttended'
<1> DEFINE Alone(h) == hubPc[h] \in {"select", "kick", "close"} /\ members[h] = {} /\ ~timer[h]
<1> SUFFICES ASSUME IInv, [Next]_vars, NEW h \in Hubs, Alone(h)'
             PROVE  \E c \in Conns : Attends(c, h)'
  BY DEF EmptyHubIsAttended, Attends, Registering
<1>1. Alone(h) => \E c \in Conns : Attends(c, h)
  BY DEF IInv, EmptyHubIsAttended, Attends, Registering
<1> USE DEF Attends, Registering, Quiet
<1>2. TypeOK /\ HubInv /\ MemberInv /\ ConnInv
  BY DEF IInv
<1>3. ASSUME NEW c \in Conns, ConnStep(c) PROVE \E d \in Conns : Attends(d, h)'
  <2>1. UNCHANGED <<hubPc, members, timer, hubOf>>
    BY <1>3, ConnStepFrame DEF hubVars
  <2>2. PICK d \in Conns : Attends(d, h)
    BY <1>1, <2>1
  <2>3. hubPc[hubOf[d]] # "done"
    BY <2>1, <2>2
  <2>4. Attends(d, h)'
    BY <1>2, <1>3, <2>1, <2>2, <2>3
    DEF ConnStep, Accept, HubGone, HandshakeRefused, ReadMsg, ReadFail, Deliver, DeliverGone,
        LeaveGone, WriteOk, WriteFail, WriterStop, PeerClose, ReaderGoes, WriterEnds, handlerVars,
        pumpVars, Done, TypeOK
  <2>5. QED
    BY <2>4
<1>4. ASSUME NEW c \in Conns, GetOrCreate(c) PROVE \E d \in Conns : Attends(d, h)'
  <2>1. /\ pc[c] \in {"lookup", "relookup"} /\ reader' = reader
        /\ pc' = [pc EXCEPT ![c] = IF pc[c] = "lookup" THEN "register" ELSE "reregister"]
        /\ UNCHANGED <<members, timer>>
    BY <1>4 DEF GetOrCreate, pumpVars
  <2>2. CASE hubOf'[c] = h
    BY <1>2, <2>1, <2>2 DEF TypeOK
  <2>3. CASE hubOf'[c] # h
    <3>1. hubPc'[h] = hubPc[h] /\ \A d \in Conns \ {c} : hubOf'[d] = hubOf[d]
      <4>1. CASE Mapped(NodeOf[c])
        BY <1>2, <1>4, <4>1 DEF GetOrCreate, TypeOK
      <4>2. CASE ~Mapped(NodeOf[c])
        BY <1>2, <1>4, <2>3, <4>2 DEF GetOrCreate, TypeOK
      <4>3. QED
        BY <4>1, <4>2
    <3>2. PICK d \in Conns : Attends(d, h)
      BY <1>1, <2>1, <3>1
    <3>3. d # c
      BY <1>2, <2>1, <3>2 DEF ConnInv
    <3>4. hubOf'[d] = h /\ pc'[d] = pc[d] /\ reader'[d] = reader[d]
      BY <1>2, <2>1, <3>1, <3>2, <3>3 DEF TypeOK
    <3>5. Attends(d, h)'
      BY <3>2, <3>4
    <3>6. QED
      BY <3>5
  <2>4. QED
    BY <2>2, <2>3
<1>5. ASSUME NEW c \in Conns, Register(c) \/ Reject(c) \/ Unregister(c)
      PROVE  \E d \in Conns : Attends(d, h)'
  <2>1. hubOf[c] # h
    <3>1. CASE Register(c)
      BY <1>2, <3>1 DEF Register, TypeOK
    <3>2. CASE Reject(c)
      <4>1. Cardinality({}) = 0
        BY FS_EmptySet
      <4>2. members' = members
        BY <3>2 DEF Reject
      <4>3. QED
        <5> SUFFICES ASSUME hubOf[c] = h PROVE FALSE
          OBVIOUS
        <5>1. members[h] = {}
          BY <4>2
        <5>2. ~(Cardinality(members[h]) < MaxClients)
          BY <3>2 DEF Reject, HasRoom
        <5>3. ~(0 < MaxClients) /\ MaxClients \in Nat \ {0}
          BY <4>1, <5>1, <5>2, WsHubAssumption
        <5>4. QED
          BY <5>3
    <3>3. CASE Unregister(c)
      BY <1>2, <3>3 DEF Unregister, BecomesIdle, TypeOK
    <3>4. QED
      BY <1>5, <3>1, <3>2, <3>3
  <2>2. /\ hubPc'[h] = hubPc[h] /\ members'[h] = members[h] /\ timer'[h] = timer[h]
        /\ hubOf' = hubOf
        /\ \A d \in Conns \ {c} : pc'[d] = pc[d] /\ reader'[d] = reader[d]
    <3>1. CASE Register(c)
      BY <1>2, <2>1, <3>1 DEF Register, SpawnPumps, TypeOK
    <3>2. CASE Reject(c)
      BY <1>2, <2>1, <3>2 DEF Reject, SpawnPumps, TypeOK
    <3>3. CASE Unregister(c)
      BY <1>2, <2>1, <3>3 DEF Unregister, TypeOK, handlerVars
    <3>4. QED
      BY <1>5, <3>1, <3>2, <3>3
  <2>3. QED
    BY <1>1, <2>1, <2>2
<1>6. ASSUME NEW g \in Hubs, NEW c \in Conns, KickClient(g, c) PROVE \E d \in Conns : Attends(d, h)'
  <2>1. /\ UNCHANGED <<timer, handlerVars, reader>>
        /\ c \in members[g]
        /\ members' = [members EXCEPT ![g] = @ \ {c}]
        /\ hubPc[g] = "kick" /\ hubPc' = [hubPc EXCEPT ![g] = "close"]
    BY <1>6 DEF KickClient, Victims, pumpVars
  <2>2. CASE g = h
    BY <1>2, <2>1, <2>2 DEF MemberInv, handlerVars
  <2>3. CASE g # h
    BY <1>1, <1>2, <2>1, <2>3 DEF TypeOK, handlerVars
  <2>4. QED
    BY <2>2, <2>3
<1>7. ASSUME UNCHANGED <<members, connVars>>, Alone(h) PROVE \E d \in Conns : Attends(d, h)'
  BY <1>1, <1>7 DEF connVars, handlerVars, pumpVars
<1>8. ASSUME NEW k \in Kickers, Snapshot(k) \/ KickReturn(k) PROVE \E d \in Conns : Attends(d, h)'
  BY <1>7, <1>8 DEF Snapshot, KickReturn, hubVars
<1>9. ASSUME NEW k \in Kickers, NEW g \in Hubs, ForceKick(k, g) \/ KickSkip(k, g)
      PROVE  \E d \in Conns : Attends(d, h)'
  BY <1>2, <1>7, <1>9 DEF ForceKick, Selecting, KickSkip, Past, hubVars, TypeOK
<1>10. ASSUME NEW g \in Hubs, CloseKicked(g) PROVE \E d \in Conns : Attends(d, h)'
  <2>1. UNCHANGED <<members, timer, handlerVars, pumpVars>> /\ Alone(h)
    BY <1>2, <1>10 DEF CloseKicked, TypeOK
  <2>2. QED
    BY <1>1, <2>1 DEF handlerVars, pumpVars
<1>11. ASSUME NEW g \in Hubs, KickDone(g) PROVE \E d \in Conns : Attends(d, h)'
  BY <1>2, <1>7, <1>11 DEF KickDone, TypeOK
<1>12. ASSUME NEW g \in Hubs, IdleFires(g) \/ Release(g) \/ Exit(g)
       PROVE  \E d \in Conns : Attends(d, h)'
  <2>1. g # h /\ UNCHANGED <<members, connVars>> /\ hubPc'[h] = hubPc[h] /\ timer'[h] = timer[h]
    BY <1>2, <1>12 DEF IdleFires, Release, Exit, Selecting, HubInv, TypeOK
  <2>2. QED
    BY <1>7, <2>1
<1>13. CASE UNCHANGED vars
  BY <1>7, <1>13 DEF vars, hubVars
<1>14. QED
  BY NextCases, <1>3, <1>4, <1>5, <1>6, <1>8, <1>9, <1>10, <1>11, <1>12, <1>13

-----------------------------------------------------------------------------
(* The theorems.                                                           *)
\* The invariant holds in the beginning.
LEMMA IInvInit == Init => IInv
<1> SUFFICES ASSUME Init PROVE IInv
  OBVIOUS
<1>1. TypeOK
  BY TypeInit
<1>2. RoomInv
  <2>1. Cardinality({}) = 0
    BY FS_EmptySet
  <2>2. \A h \in Hubs : members[h] = {}
    BY DEF Init
  <2>3. QED
    BY <2>1, <2>2, WsHubAssumption DEF RoomInv
<1>3. HubInv /\ MapInv /\ ConnInv /\ MemberInv
  BY WsHubAssumption DEF Init, HubInv, MapInv, ConnInv, MemberInv, Hubs, NoHub, LivePc, ServingPc
<1>4. KickInv /\ NoDoubleClose /\ EmptyHubIsAttended
  BY DEF Init, KickInv, NoDoubleClose, EmptyHubIsAttended
<1>5. QED
  BY <1>1, <1>2, <1>3, <1>4 DEF IInv

\* So it always holds.
LEMMA Invariance == Spec => []IInv
<1>1. IInv /\ [Next]_vars => IInv'
  BY TypeStep, HubStep, MemberStep, KickStep, RoomStep, AttendedStep DEF IInv
<1>2. QED
  BY IInvInit, <1>1, PTL DEF Spec

\* The manager's map and the running hubs agree in every reachable state.
THEOREM MapIsAlwaysLive == Spec => []MapIsLive
<1>1. IInv => MapIsLive
  BY DEF IInv, HubInv, MapInv, MapIsLive
<1>2. QED
  BY Invariance, <1>1, PTL

\* Two clients of one document are always in one hub.
THEOREM DocumentNeverSplit == Spec => []NoSplitDocument
<1>1. IInv => NoSplitDocument
  BY DEF IInv, HubInv, NoSplitDocument, ServingPc, LivePc
<1>2. QED
  BY Invariance, <1>1, PTL

\* No document ever has more than MaxClients clients.
THEOREM DocumentWithinCapacity == Spec => []DocCapacity
<1>1. ASSUME IInv, NEW n \in Nodes, NEW h \in Hubs, hubNode[h] = n, members[h] # {}
      PROVE  Online(n) = members[h]
  <2>1. NoSplitDocument
    BY <1>1 DEF IInv, HubInv, NoSplitDocument, ServingPc, LivePc
  <2>2. members[h] \subseteq Conns
    BY <1>1 DEF IInv, TypeOK
  <2>3. QED
    BY <1>1, <2>1, <2>2 DEF Online, NoSplitDocument
<1>2. ASSUME IInv, NEW n \in Nodes PROVE Cardinality(Online(n)) <= MaxClients
  <2>1. CASE \E h \in Hubs : hubNode[h] = n /\ members[h] # {}
    BY <1>1, <1>2, <2>1 DEF IInv, RoomInv
  <2>2. CASE ~\E h \in Hubs : hubNode[h] = n /\ members[h] # {}
    <3>1. Online(n) = {} /\ Cardinality({}) = 0
      BY <2>2, FS_EmptySet DEF Online
    <3>2. QED
      BY <3>1, WsHubAssumption
  <2>3. QED
    BY <2>1, <2>2
<1>3. ASSUME IInv, NEW n \in Nodes, NEW c \in Online(n) PROVE NodeOf[c] = n
  BY <1>3 DEF Online, IInv, MemberInv, ConnInv
<1>4. IInv => DocCapacity
  BY <1>2, <1>3 DEF DocCapacity
<1>5. QED
  BY Invariance, <1>4, PTL

\* A member's Send is open, and no Send is ever closed twice.
THEOREM MemberSendAlwaysOpen == Spec => []MemberSendOpen
<1>1. IInv => MemberSendOpen
  BY DEF IInv, MemberInv, NoDoubleClose, MemberSendOpen
<1>2. QED
  BY Invariance, <1>1, PTL

\* No hub is forgotten: an empty one has its timer or someone to start it.
THEOREM EmptyHubAlwaysAttended == Spec => []EmptyHubIsAttended
<1>1. IInv => EmptyHubIsAttended
  BY DEF IInv
<1>2. QED
  BY Invariance, <1>1, PTL

\* A forced logout that has returned has removed, or is removing, all the
\* connections it found.
THEOREM KickAlwaysComplete == Spec => []KickComplete
<1>1. IInv => KickComplete
  BY DEF IInv, KickInv, KickComplete
<1>2. QED
  BY Invariance, <1>1, PTL
====

-------------------------- MODULE WsHubRefinement --------------------------
(***************************************************************************)
(* The hubs implement the rooms of DocRoom: every step of a goroutine is a *)
(* step of the rooms or changes nothing of them.  The proof rests on the   *)
(* inductive invariant of WsHubProofs.                                     *)
(***************************************************************************)
EXTENDS WsHubProofs

\* The connections whose handshake has come to an end.
Served == {c \in Conns : pc[c] = "serving"}

\* What the rooms see does not change.
Stutter == Attached' = Attached /\ Ended' = Ended /\ UNCHANGED <<kickPc, joined>>

\* A step of the rooms, or none.
RoomOrStutter == Room!Next \/ UNCHANGED Room!roomVars

\* The rooms count as the hubs do.
LEMMA SameCardinality == \A S : Room!Cardinality(S) = Cardinality(S)
  BY Zenon DEF Room!Cardinality, Cardinality, Room!IsFiniteSet, IsFiniteSet

\* A step that the rooms do not see is none of theirs.
LEMMA StutterIsRoomStep == Stutter => RoomOrStutter
  BY DEF Stutter, RoomOrStutter, Room!roomVars

-----------------------------------------------------------------------------
(* Who is in a room.                                                       *)

\* Who is in a room has had a handshake, and is a client of one hub.
LEMMA AttachedFacts ==
  ASSUME IInv
  PROVE  /\ Attached \subseteq Served
         /\ Ended = Served \ Attached
         /\ \A c \in Conns : c \in Attached <=>
               hubOf[c] \in Hubs /\ c \in members[hubOf[c]] /\ ~BeingKicked(c, hubOf[c])
<1>1. \A h \in Hubs : \A c \in members[h] : c \in Conns /\ hubOf[c] = h /\ pc[c] = "serving"
  BY DEF IInv, TypeOK, MemberInv
<1>2. QED
  BY <1>1 DEF Attached, Ended, Served

\* While the hub of a document is in its select, its clients are those in the
\* room of the document.
LEMMA RoomIsHub ==
  ASSUME IInv, NEW h \in Hubs, Selecting(h)
  PROVE  hubNode[h] \in Nodes /\ Room!In(hubNode[h]) = members[h]
<1>1. hubNode[h] \in Nodes /\ hubs[hubNode[h]] = h
  BY DEF IInv, HubInv, Selecting, LivePc
<1>2. ASSUME NEW c \in members[h] PROVE c \in Attached /\ NodeOf[c] = hubNode[h]
  <2>1. c \in Conns /\ hubOf[c] = h /\ pc[c] = "serving"
    BY <1>2 DEF IInv, TypeOK, MemberInv
  <2>2. NodeOf[c] = hubNode[h]
    BY <2>1 DEF IInv, ConnInv
  <2>3. ~BeingKicked(c, h)
    BY DEF Selecting, BeingKicked
  <2>4. QED
    BY <2>1, <2>2, <2>3 DEF Attached
<1>3. ASSUME NEW c \in Attached, NodeOf[c] = hubNode[h] PROVE c \in members[h]
  <2>1. PICK g \in Hubs : c \in members[g]
    BY <1>3 DEF Attached
  <2>2. c \in Conns /\ hubOf[c] = g /\ pc[c] = "serving"
    BY <2>1 DEF IInv, TypeOK, MemberInv
  <2>3. hubNode[g] = NodeOf[c]
    BY <2>2 DEF IInv, ConnInv
  <2>4. hubs[hubNode[g]] = g
    BY <2>1 DEF IInv, HubInv, ServingPc, LivePc
  <2>5. QED
    BY <1>1, <1>3, <2>1, <2>3, <2>4
<1>4. QED
  BY <1>1, <1>2, <1>3 DEF Room!In

-----------------------------------------------------------------------------
(* Steps that the rooms do not see.                                        *)

\* A step that leaves the members, the forced logouts and the handshakes that
\* have come to an end as they are.
LEMMA Unseen ==
  ASSUME IInv, IInv', UNCHANGED <<kickPc, joined>>, Served' = Served,
         \A c \in Conns : c \in Attached' <=> c \in Attached
  PROVE  RoomOrStutter
<1>1. Attached' = Attached
  BY DEF Attached
<1>2. Ended' = Ended
  BY <1>1 DEF Ended, Served
<1>3. QED
  BY <1>1, <1>2, StutterIsRoomStep DEF Stutter

\* A step of one connection that no hub takes part in.
LEMMA UnseenConn ==
  ASSUME IInv, IInv', NEW c \in Conns, ConnStep(c)
  PROVE  RoomOrStutter
<1>1. UNCHANGED <<hubPc, members, victim, kickPc, joined>>
  BY ConnStepFrame DEF hubVars, kickVars
<1>2. Served' = Served
  BY DEF IInv, TypeOK, ConnStep, Accept, HubGone, HandshakeRefused, ReadMsg, ReadFail, Deliver,
         DeliverGone, LeaveGone, WriteOk, WriteFail, WriterStop, PeerClose, ReaderGoes, WriterEnds,
         handlerVars, Served
<1>3. Attached' = Attached
  BY <1>1 DEF Attached, BeingKicked
<1>4. QED
  BY <1>1, <1>2, <1>3, Unseen

\* A handler looks its hub up, or has one created, which has no clients yet.
LEMMA UnseenCreate ==
  ASSUME IInv, IInv', NEW c \in Conns, GetOrCreate(c)
  PROVE  RoomOrStutter
<1>1. UNCHANGED <<members, victim, kickPc, joined>>
  BY DEF GetOrCreate, kickVars
<1>2. Served' = Served
  <2>1. /\ pc[c] # "serving"
        /\ \E to \in {"register", "reregister"} : pc' = [pc EXCEPT ![c] = to]
    BY DEF GetOrCreate
  <2>2. \A d \in Conns : pc'[d] = "serving" <=> pc[d] = "serving"
    BY <2>1 DEF IInv, TypeOK
  <2>3. QED
    BY <2>2 DEF Served
<1>3. ASSUME NEW h \in Hubs, members[h] # {} PROVE hubPc'[h] = hubPc[h]
  <2>1. h <= hubCount
    <3>1. HubInv /\ hubCount \in Nat /\ h \in Nat
      BY DEF IInv, TypeOK, Hubs
    <3>2. hubPc[h] # "unborn"
      BY <1>3, <3>1 DEF HubInv, ServingPc
    <3>3. QED
      BY <3>1, <3>2 DEF HubInv
  <2>2. hubPc' = hubPc \/ hubPc' = [hubPc EXCEPT ![hubCount + 1] = "select"]
    BY DEF GetOrCreate
  <2>3. h # hubCount + 1
    BY <2>1 DEF IInv, TypeOK, Hubs
  <2>4. QED
    BY <2>2, <2>3 DEF IInv, TypeOK
<1>4. \A d \in Conns : d \in Attached' <=> d \in Attached
  BY <1>1, <1>3 DEF Attached, BeingKicked
<1>5. QED
  BY <1>1, <1>2, <1>4, Unseen

\* A forced logout at work, once it has been handed the user.
LEMMA UnseenKick ==
  ASSUME IInv, IInv', NEW h \in Hubs, NEW c \in Conns, KickClient(h, c)
  PROVE  RoomOrStutter
<1>1. /\ UNCHANGED <<kickPc, joined, pc, hubOf, victim>>
      /\ hubPc[h] = "kick" /\ hubPc' = [hubPc EXCEPT ![h] = "close"]
      /\ members' = [members EXCEPT ![h] = @ \ {c}]
      /\ c \in members[h] /\ UserOf[c] = victim[h]
  BY DEF KickClient, Victims, handlerVars, kickVars
<1>2. hubOf[c] = h /\ BeingKicked(c, h)
  BY <1>1 DEF IInv, MemberInv, BeingKicked
<1>3. c \notin Attached /\ c \notin Attached'
  <2>1. \A g \in Hubs : c \in members[g] => g = h
    BY <1>2 DEF IInv, MemberInv
  <2>2. \A g \in Hubs : c \notin members'[g]
    BY <1>1, <2>1 DEF IInv, TypeOK
  <2>3. QED
    BY <1>2, <2>1, <2>2 DEF Attached
<1>4. ASSUME NEW d \in Conns, d # c, NEW g \in Hubs
      PROVE  /\ d \in members'[g] <=> d \in members[g]
             /\ BeingKicked(d, g)' <=> BeingKicked(d, g)
  <2>1. d \in members'[g] <=> d \in members[g]
    BY <1>1, <1>4 DEF IInv, TypeOK
  <2>2. hubPc'[g] \in {"kick", "close"} <=> hubPc[g] \in {"kick", "close"}
    BY <1>1 DEF IInv, TypeOK
  <2>3. QED
    BY <1>1, <2>1, <2>2 DEF BeingKicked
<1>5. \A d \in Conns : d \in Attached' <=> d \in Attached
  BY <1>3, <1>4 DEF Attached
<1>6. QED
  BY <1>1, <1>5, Unseen DEF Served

\* The end of a forced logout, and the end of a hub, which has no clients left.
LEMMA UnseenHub ==
  ASSUME IInv, IInv', NEW h \in Hubs,
         CloseKicked(h) \/ KickDone(h) \/ IdleFires(h) \/ Release(h) \/ Exit(h)
  PROVE  RoomOrStutter
<1>1. UNCHANGED <<members, pc, kickPc, joined>>
  BY DEF CloseKicked, KickDone, IdleFires, Release, Exit, connVars, handlerVars, kickVars
<1>2. ASSUME NEW g \in Hubs, NEW d \in members[g]
      PROVE  BeingKicked(d, g)' <=> BeingKicked(d, g)
  <2>1. CASE CloseKicked(h)
    <3>1. victim' = victim /\ hubPc[h] = "close" /\ hubPc' = [hubPc EXCEPT ![h] = "kick"]
      BY <2>1 DEF CloseKicked
    <3>2. hubPc'[g] \in {"kick", "close"} <=> hubPc[g] \in {"kick", "close"}
      BY <3>1 DEF IInv, TypeOK
    <3>3. QED
      BY <3>1, <3>2 DEF BeingKicked
  <2>2. CASE KickDone(h)
    <3>1. /\ hubPc[h] = "kick" /\ hubPc' = [hubPc EXCEPT ![h] = "select"]
          /\ victim' = [victim EXCEPT ![h] = None] /\ Victims(h) = {}
      BY <2>2 DEF KickDone
    <3>2. CASE g = h
      <4>1. UserOf[d] # victim[g]
        BY <1>2, <3>1, <3>2 DEF Victims
      <4>2. hubPc'[g] = "select"
        BY <3>1, <3>2 DEF IInv, TypeOK
      <4>3. QED
        BY <4>1, <4>2 DEF BeingKicked
    <3>3. CASE g # h
      BY <3>1, <3>3 DEF BeingKicked, IInv, TypeOK
    <3>4. QED
      BY <3>2, <3>3
  <2>3. CASE IdleFires(h) \/ Release(h) \/ Exit(h)
    <3>1. /\ victim' = victim
          /\ hubPc[h] \in {"select", "release", "exit"}
          /\ \E to \in {"select", "release", "exit", "done"} : hubPc' = [hubPc EXCEPT ![h] = to]
      BY <2>3 DEF IdleFires, Release, Exit, Selecting
    <3>2. hubPc'[g] \in {"kick", "close"} <=> hubPc[g] \in {"kick", "close"}
      BY <3>1 DEF IInv, TypeOK
    <3>3. QED
      BY <3>1, <3>2 DEF BeingKicked
  <2>4. QED
    BY <2>1, <2>2, <2>3
<1>3. \A d \in Conns : d \in Attached' <=> d \in Attached
  BY <1>1, <1>2 DEF Attached
<1>4. QED
  BY <1>1, <1>3, Unseen DEF Served

-----------------------------------------------------------------------------
(* Steps of the rooms.                                                     *)

\* A hub takes a connection: it enters the room, which has a place.
LEMMA RegisterEnters ==
  ASSUME IInv, IInv', NEW c \in Conns, Register(c)
  PROVE  Room!Enter(c)
<1> DEFINE h == hubOf[c]
<1>1. /\ pc[c] # "serving" /\ pc[c] \notin {"idle", "lookup"}
      /\ Selecting(h) /\ Cardinality(members[h]) < MaxClients
      /\ members' = [members EXCEPT ![h] = @ \cup {c}]
      /\ pc' = [pc EXCEPT ![c] = "serving"]
      /\ UNCHANGED <<hubOf, hubPc, victim, kickPc, joined>>
  BY DEF Register, Registering, HasRoom, SpawnPumps, kickVars
<1>2. h \in Hubs /\ hubNode[h] = NodeOf[c]
  BY <1>1 DEF IInv, ConnInv
<1>3. Cardinality(Room!In(NodeOf[c])) < MaxClients
  BY <1>1, <1>2, RoomIsHub
<1>4. c \notin Attached \cup Ended
  BY <1>1, AttachedFacts DEF Served
<1>5. Attached' = Attached \cup {c}
  <2>1. c \in Attached'
    <3>1. c \in members'[h]
      BY <1>1, <1>2 DEF IInv, TypeOK
    <3>2. hubPc'[h] = "select"
      BY <1>1 DEF Selecting
    <3>3. \E g \in Hubs : c \in members'[g] /\ ~(hubPc'[g] \in {"kick", "close"} /\ victim'[g] = UserOf[c])
      BY <1>2, <3>1, <3>2
    <3>4. QED
      BY <3>3 DEF Attached, BeingKicked
  <2>2. ASSUME NEW d \in Conns, d # c PROVE d \in Attached' <=> d \in Attached
    <3>1. \A g \in Hubs : d \in members'[g] <=> d \in members[g]
      BY <1>1, <2>2 DEF IInv, TypeOK
    <3>2. \A g \in Hubs : BeingKicked(d, g)' <=> BeingKicked(d, g)
      BY <1>1 DEF BeingKicked
    <3>3. QED
      BY <3>1, <3>2 DEF Attached
  <2>3. Attached' \subseteq Conns /\ Attached \subseteq Conns
    BY DEF Attached
  <2>4. QED
    BY <2>1, <2>2, <2>3
<1>6. Served' = Served \cup {c}
  BY <1>1 DEF IInv, TypeOK, Served
<1>7. Ended' = Ended
  <2>1. Ended' = Served' \ Attached' /\ Ended = Served \ Attached
    BY DEF Ended, Served
  <2>2. c \notin Served
    BY <1>1 DEF Served
  <2>3. QED
    BY <1>5, <1>6, <2>1, <2>2
<1>8. QED
  BY <1>1, <1>3, <1>4, <1>5, <1>7, SameCardinality DEF Room!Enter

\* A hub without a place turns a connection away: the room is full.
LEMMA RejectTurnsAway ==
  ASSUME IInv, IInv', NEW c \in Conns, Reject(c)
  PROVE  Room!TurnAway(c)
<1> DEFINE h == hubOf[c]
<1>1. /\ pc[c] # "serving" /\ pc[c] \notin {"idle", "lookup"}
      /\ Selecting(h) /\ ~(Cardinality(members[h]) < MaxClients)
      /\ pc' = [pc EXCEPT ![c] = "serving"]
      /\ UNCHANGED <<hubOf, hubPc, members, victim, kickPc, joined>>
  BY DEF Reject, Registering, HasRoom, SpawnPumps, kickVars
<1>2. h \in Hubs /\ hubNode[h] = NodeOf[c]
  BY <1>1 DEF IInv, ConnInv
<1>3. Cardinality(Room!In(NodeOf[c])) >= MaxClients
  <2>1. Cardinality(members[h]) \in Nat /\ MaxClients \in Nat
    BY <1>2, WsHubAssumption, FS_Subset, FS_CardinalityType DEF IInv, TypeOK
  <2>2. Room!In(NodeOf[c]) = members[h]
    BY <1>1, <1>2, RoomIsHub
  <2>3. QED
    BY <1>1, <2>1, <2>2
<1>4. c \notin Attached \cup Ended
  BY <1>1, AttachedFacts DEF Served
<1>5. Attached' = Attached
  BY <1>1 DEF Attached, BeingKicked
<1>6. Served' = Served \cup {c}
  BY <1>1 DEF IInv, TypeOK, Served
<1>7. Ended' = Ended \cup {c}
  <2>1. Ended' = Served' \ Attached' /\ Ended = Served \ Attached
    BY DEF Ended, Served
  <2>2. QED
    BY <1>4, <1>5, <1>6, <2>1
<1>8. QED
  BY <1>1, <1>3, <1>4, <1>5, <1>7, SameCardinality DEF Room!TurnAway

\* A client that unregisters leaves; for one that is no client any more, the
\* rooms do not change.
LEMMA UnregisterLeaves ==
  ASSUME IInv, IInv', NEW c \in Conns, Unregister(c)
  PROVE  RoomOrStutter
<1> DEFINE h == hubOf[c]
<1>1. /\ reader[c] = "leave" /\ Selecting(h)
      /\ members' = [members EXCEPT ![h] = @ \ {c}]
      /\ UNCHANGED <<pc, hubOf, hubPc, victim, kickPc, joined>>
  BY DEF Unregister, handlerVars, kickVars
<1>2. pc[c] = "serving" /\ h \in Hubs
  BY <1>1 DEF IInv, ConnInv
<1>3. Served' = Served
  BY <1>1 DEF Served
<1>4. ASSUME NEW d \in Conns, d # c PROVE d \in Attached' <=> d \in Attached
  <2>1. \A g \in Hubs : d \in members'[g] <=> d \in members[g]
    BY <1>1, <1>4 DEF IInv, TypeOK
  <2>2. \A g \in Hubs : BeingKicked(d, g)' <=> BeingKicked(d, g)
    BY <1>1 DEF BeingKicked
  <2>3. QED
    BY <2>1, <2>2 DEF Attached
<1>5. c \notin Attached'
  <2>1. \A g \in Hubs : c \in members[g] => g = h
    BY DEF IInv, MemberInv
  <2>2. \A g \in Hubs : c \notin members'[g]
    BY <1>1, <2>1 DEF IInv, TypeOK
  <2>3. QED
    BY <2>2 DEF Attached
<1>6. Attached \subseteq Conns /\ Attached' \subseteq Conns
  BY DEF Attached
<1>7. CASE c \in Attached
  <2>1. Attached' = Attached \ {c}
    BY <1>4, <1>5, <1>6
  <2>2. Ended' = Ended \cup {c}
    BY <1>2, <1>3, <1>7, <2>1 DEF Ended, Served
  <2>3. Room!Leave(c)
    BY <1>1, <1>7, <2>1, <2>2 DEF Room!Leave
  <2>4. QED
    BY <2>3 DEF RoomOrStutter, Room!Next
<1>8. CASE c \notin Attached
  BY <1>1, <1>3, <1>4, <1>5, <1>8, Unseen
<1>9. QED
  BY <1>7, <1>8

\* DisconnectUser finds the connections of its user that are in a room.
LEMMA SnapshotBegins ==
  ASSUME IInv, IInv', NEW k \in Kickers, Snapshot(k)
  PROVE  Room!BeginDisconnect(k)
<1>1. /\ kickPc[k] = "idle" /\ kickPc' = [kickPc EXCEPT ![k] = "kicking"]
      /\ joined' = [joined EXCEPT ![k] = {c \in Attached : UserOf[c] = KickUser[k]}]
      /\ UNCHANGED <<members, hubPc, victim, pc>>
  BY DEF Snapshot, hubVars, connVars, handlerVars
<1>2. Attached' = Attached
  BY <1>1 DEF Attached, BeingKicked
<1>3. Ended' = Ended
  BY <1>1, <1>2 DEF Ended
<1>4. QED
  BY <1>1, <1>2, <1>3 DEF Room!BeginDisconnect

\* DisconnectUser returns only when none of those it found is in a room.
LEMMA ReturnEnds ==
  ASSUME IInv, IInv', NEW k \in Kickers, KickReturn(k)
  PROVE  Room!EndDisconnect(k)
<1>1. /\ kickPc[k] = "kicking" /\ kickPc' = [kickPc EXCEPT ![k] = "finished"]
      /\ todo[k] = {}
      /\ UNCHANGED <<members, hubPc, victim, pc, joined>>
  BY DEF KickReturn, hubVars, connVars, handlerVars
<1>2. joined[k] \cap Attached = {}
  BY <1>1 DEF IInv, KickInv, Attached
<1>3. Attached' = Attached
  BY <1>1 DEF Attached, BeingKicked
<1>4. Ended' = Ended
  BY <1>1, <1>3 DEF Ended
<1>5. QED
  BY <1>1, <1>2, <1>3, <1>4 DEF Room!EndDisconnect

\* A hub that is handed the user evicts at once all the user's connections to
\* its document, if there are any.
LEMMA ForceKickEvicts ==
  ASSUME IInv, IInv', NEW k \in Kickers, NEW h \in Hubs, ForceKick(k, h)
  PROVE  RoomOrStutter
<1> DEFINE out == {c \in Room!In(hubNode[h]) : UserOf[c] = KickUser[k]}
<1>1. /\ kickPc[k] = "kicking" /\ Selecting(h)
      /\ hubPc' = [hubPc EXCEPT ![h] = "kick"]
      /\ victim' = [victim EXCEPT ![h] = KickUser[k]]
      /\ UNCHANGED <<members, pc, hubOf, kickPc, joined>>
  BY DEF ForceKick, connVars, handlerVars
<1>2. hubNode[h] \in Nodes /\ out = {c \in members[h] : UserOf[c] = KickUser[k]}
  BY <1>1, RoomIsHub
<1>3. out \subseteq Attached
  BY DEF Room!In
<1> HIDE DEF out
<1>4. ASSUME NEW c \in Conns PROVE c \in Attached' <=> c \in Attached \ out
  <2>1. ASSUME NEW g \in Hubs, g # h PROVE BeingKicked(c, g)' <=> BeingKicked(c, g)
    BY <1>1, <2>1 DEF IInv, TypeOK, BeingKicked
  <2>2. BeingKicked(c, h)' <=> UserOf[c] = KickUser[k]
    BY <1>1 DEF IInv, TypeOK, BeingKicked
  <2>3. ~BeingKicked(c, h)
    BY <1>1 DEF Selecting, BeingKicked
  <2>4. \A g \in Hubs : c \in members[g] => hubOf[c] = g
    BY DEF IInv, MemberInv
  <2>5. CASE c \in members[h]
    <3>1. c \in Attached /\ (c \in Attached' <=> ~BeingKicked(c, h)')
      BY <1>1, <2>3, <2>4, <2>5 DEF Attached
    <3>2. QED
      BY <1>2, <2>2, <2>5, <3>1
  <2>6. CASE c \notin members[h]
    <3>1. c \in Attached' <=> c \in Attached
      BY <1>1, <2>1, <2>6 DEF Attached
    <3>2. QED
      BY <1>2, <2>6, <3>1
  <2>7. QED
    BY <2>5, <2>6
<1>5. Attached' = Attached \ out
  BY <1>4 DEF Attached
<1>6. Served' = Served
  BY <1>1 DEF Served
<1>7. Ended' = Ended \cup out
  <2>1. Attached \subseteq Served
    BY AttachedFacts
  <2>2. Ended' = Served \ (Attached \ out) /\ Ended = Served \ Attached
    BY <1>5, <1>6 DEF Ended, Served
  <2>3. QED
    BY <1>3, <2>1, <2>2
<1>8. CASE out = {}
  <2>1. Stutter
    BY <1>1, <1>5, <1>7, <1>8 DEF Stutter
  <2>2. QED
    BY <2>1, StutterIsRoomStep
<1>9. CASE out # {}
  <2>1. Room!Evict(k, hubNode[h])
    BY <1>1, <1>5, <1>7, <1>9 DEF Room!Evict, out
  <2>2. QED
    BY <1>2, <2>1 DEF RoomOrStutter, Room!Next
<1>10. QED
  BY <1>8, <1>9

-----------------------------------------------------------------------------
(* The refinement.                                                         *)
\* No one is in a room in the beginning.
LEMMA RoomInit == Init => Room!Init
<1> SUFFICES ASSUME Init PROVE Room!Init
  OBVIOUS
<1>1. Attached = {}
  BY DEF Init, Attached
<1>2. Ended = {}
  BY DEF Init, Ended
<1>3. QED
  BY <1>1, <1>2 DEF Init, Room!Init

\* Every step of the hubs is one of the rooms, or is not seen by them.
LEMMA EveryStepIsRoomStep == IInv /\ IInv' /\ [Next]_vars => [Room!Next]_(Room!roomVars)
<1> SUFFICES ASSUME IInv, IInv', [Next]_vars PROVE RoomOrStutter
  BY DEF RoomOrStutter
<1>1. ASSUME NEW c \in Conns, ConnStep(c) \/ GetOrCreate(c) PROVE RoomOrStutter
  BY <1>1, UnseenConn, UnseenCreate
<1>2. ASSUME NEW c \in Conns, Register(c) \/ Reject(c) \/ Unregister(c) PROVE RoomOrStutter
  BY <1>2, RegisterEnters, RejectTurnsAway, UnregisterLeaves DEF RoomOrStutter, Room!Next
<1>3. ASSUME NEW k \in Kickers, Snapshot(k) \/ KickReturn(k) PROVE RoomOrStutter
  BY <1>3, SnapshotBegins, ReturnEnds DEF RoomOrStutter, Room!Next
<1>4. ASSUME NEW k \in Kickers, NEW h \in Hubs, ForceKick(k, h) PROVE RoomOrStutter
  BY <1>4, ForceKickEvicts
<1>5. ASSUME NEW k \in Kickers, NEW h \in Hubs, KickSkip(k, h) PROVE RoomOrStutter
  <2>1. UNCHANGED <<members, hubPc, victim, pc, kickPc, joined>>
    BY <1>5 DEF KickSkip, Past, hubVars, connVars, handlerVars
  <2>2. Attached' = Attached /\ Ended' = Ended
    BY <2>1 DEF Attached, Ended, BeingKicked
  <2>3. QED
    BY <2>1, <2>2, StutterIsRoomStep DEF Stutter
<1>6. ASSUME NEW h \in Hubs, NEW c \in Conns, KickClient(h, c) PROVE RoomOrStutter
  BY <1>6, UnseenKick
<1>7. ASSUME NEW h \in Hubs, CloseKicked(h) \/ KickDone(h) \/ IdleFires(h) \/ Release(h) \/ Exit(h)
      PROVE  RoomOrStutter
  BY <1>7, UnseenHub
<1>8. CASE UNCHANGED vars
  <2>1. UNCHANGED <<members, hubPc, victim, pc, kickPc, joined>>
    BY <1>8 DEF vars, hubVars, connVars, handlerVars, kickVars
  <2>2. Attached' = Attached /\ Ended' = Ended
    BY <2>1 DEF Attached, Ended, BeingKicked
  <2>3. QED
    BY <2>1, <2>2, StutterIsRoomStep DEF Stutter
<1>9. QED
  BY NextCases, <1>1, <1>2, <1>3, <1>4, <1>5, <1>6, <1>7, <1>8

\* The hubs do nothing that the rooms could not do: a connection enters only a
\* room that has a place and is turned away only from a full one, a forced
\* logout empties the rooms of its user document by document, and it returns
\* only when none of those it found is left.
THEOREM HubsImplementRooms == Spec => ImplementsRoom
<1>1. Spec => Room!Init
  BY RoomInit DEF Spec
<1>2. QED
  BY <1>1, Invariance, EveryStepIsRoomStep, PTL DEF Spec, ImplementsRoom, Room!Spec
====

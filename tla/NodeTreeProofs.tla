--------------------------- MODULE NodeTreeProofs ---------------------------
(***************************************************************************)
(* Proofs about NodeTree, for any number of nodes and of requests.         *)
(*                                                                         *)
(* The invariant says what each request has established so far: some of    *)
(* it for good (a parent that was found is a folder and stays one), the    *)
(* rest for as long as no other request writes.                            *)
(***************************************************************************)
EXTENDS NodeTree, TLAPS

-----------------------------------------------------------------------------
(* What a request may still have to do *)

toInsert == <<"insert">>
toCreate == <<"folder", "insert">>
toRename == <<"rename">>
toFindRename == <<"find", "rename">>
toMove == <<"move">>
toLookMove == <<"descendants", "move">>
toCheckMove == <<"folder", "descendants", "move">>
toFindMove == <<"find", "folder", "descendants", "move">>
toMoveRename == <<"move", "find", "rename">>
toLookBoth == <<"descendants", "move", "find", "rename">>
toCheckBoth == <<"folder", "descendants", "move", "find", "rename">>
toFindBoth == <<"find", "folder", "descendants", "move", "find", "rename">>
toDelete == <<"delete">>
toFindDelete == <<"find", "delete">>
toRestore == <<"restore">>
toCheckRestore == <<"parent", "restore">>
toFindRestore == <<"find_deleted", "parent", "restore">>

Rest(q) ==
    \/ q.op = "none" /\ q.todo = <<>>
    \/ q.op = "create" /\ q.todo \in {toCreate, toInsert}
    \/ q.op = "rename" /\ q.todo \in {toFindRename, toRename}
    \/ q.op = "move" /\ q.todo \in {toFindMove, toCheckMove, toLookMove, toMove}
    \/ /\ q.op = "patch"
       /\ q.todo \in {toFindBoth, toCheckBoth, toLookBoth, toMoveRename, toFindRename, toRename}
    \/ q.op = "delete" /\ q.todo \in {toFindDelete, toDelete}
    \/ q.op = "restore" /\ q.todo \in {toFindRestore, toCheckRestore, toRestore}

\* The statements come one after the other.
LEMMA Todos ==
    /\ toInsert # <<>> /\ Head(toInsert) = "insert" /\ Tail(toInsert) = <<>>
    /\ toCreate # <<>> /\ Head(toCreate) = "folder" /\ Tail(toCreate) = toInsert
    /\ toRename # <<>> /\ Head(toRename) = "rename" /\ Tail(toRename) = <<>>
    /\ toFindRename # <<>> /\ Head(toFindRename) = "find" /\ Tail(toFindRename) = toRename
    /\ toMove # <<>> /\ Head(toMove) = "move" /\ Tail(toMove) = <<>>
    /\ toLookMove # <<>> /\ Head(toLookMove) = "descendants" /\ Tail(toLookMove) = toMove
    /\ toCheckMove # <<>> /\ Head(toCheckMove) = "folder" /\ Tail(toCheckMove) = toLookMove
    /\ toFindMove # <<>> /\ Head(toFindMove) = "find" /\ Tail(toFindMove) = toCheckMove
    /\ toMoveRename # <<>> /\ Head(toMoveRename) = "move" /\ Tail(toMoveRename) = toFindRename
    /\ toLookBoth # <<>> /\ Head(toLookBoth) = "descendants" /\ Tail(toLookBoth) = toMoveRename
    /\ toCheckBoth # <<>> /\ Head(toCheckBoth) = "folder" /\ Tail(toCheckBoth) = toLookBoth
    /\ toFindBoth # <<>> /\ Head(toFindBoth) = "find" /\ Tail(toFindBoth) = toCheckBoth
    /\ toDelete # <<>> /\ Head(toDelete) = "delete" /\ Tail(toDelete) = <<>>
    /\ toFindDelete # <<>> /\ Head(toFindDelete) = "find" /\ Tail(toFindDelete) = toDelete
    /\ toRestore # <<>> /\ Head(toRestore) = "restore" /\ Tail(toRestore) = <<>>
    /\ toCheckRestore # <<>> /\ Head(toCheckRestore) = "parent" /\ Tail(toCheckRestore) = toRestore
    /\ toFindRestore # <<>> /\ Head(toFindRestore) = "find_deleted"
    /\ Tail(toFindRestore) = toCheckRestore
  BY DEF toInsert, toCreate, toRename, toFindRename, toMove, toLookMove, toCheckMove,
         toFindMove, toMoveRename, toLookBoth, toCheckBoth, toFindBoth, toDelete,
         toFindDelete, toRestore, toCheckRestore, toFindRestore

\* Each of them is a sequence of statements.
LEMMA TodosAre ==
    /\ toInsert \in Seq(Statements)
    /\ toCreate \in Seq(Statements)
    /\ toRename \in Seq(Statements)
    /\ toFindRename \in Seq(Statements)
    /\ toMove \in Seq(Statements)
    /\ toLookMove \in Seq(Statements)
    /\ toCheckMove \in Seq(Statements)
    /\ toFindMove \in Seq(Statements)
    /\ toMoveRename \in Seq(Statements)
    /\ toLookBoth \in Seq(Statements)
    /\ toCheckBoth \in Seq(Statements)
    /\ toFindBoth \in Seq(Statements)
    /\ toDelete \in Seq(Statements)
    /\ toFindDelete \in Seq(Statements)
    /\ toRestore \in Seq(Statements)
    /\ toCheckRestore \in Seq(Statements)
    /\ toFindRestore \in Seq(Statements)
  BY DEF Statements, toInsert, toCreate, toRename, toFindRename, toMove, toLookMove,
         toCheckMove, toFindMove, toMoveRename, toLookBoth, toCheckBoth, toFindBoth, toDelete,
         toFindDelete, toRestore, toCheckRestore, toFindRestore

\* What is left to do is a sequence of statements.
LEMMA TodosType ==
    ASSUME NEW q, Rest(q)
    PROVE  q.todo \in Seq(Statements)
<1>1. <<>> \in Seq(Statements)
  OBVIOUS
<1> QED BY <1>1, TodosAre DEF Rest

\* Where each operation begins.
LEMMA StepsAre ==
    /\ DOMAIN Steps = {"create", "rename", "move", "patch", "delete", "restore"}
    /\ Steps["create"] = toCreate /\ Steps["rename"] = toFindRename
    /\ Steps["move"] = toFindMove /\ Steps["patch"] = toFindBoth
    /\ Steps["delete"] = toFindDelete /\ Steps["restore"] = toFindRestore
  BY DEF Steps, toCreate, toFindRename, toFindMove, toFindBoth, toFindDelete, toFindRestore

-----------------------------------------------------------------------------
(* Descendants *)

\* A child of n, or of a node below n, is below n.
LEMMA BelowClosed ==
    ASSUME NEW n, NEW Q, NEW c \in Q, parent[c] \in Below(n, Q) \cup {n}
    PROVE  c \in Below(n, Q)
  BY DEF Below

\* A node below n is a child of n or of a node below n.
LEMMA BelowFrom ==
    ASSUME NEW n, NEW Q \in SUBSET Nodes, NEW m \in Below(n, Q)
    PROVE  m \in Q /\ parent[m] \in Below(n, Q) \cup {n}
<1> DEFINE S == {c \in Q : parent[c] \in Below(n, Q) \cup {n}}
<1>1. S \in SUBSET Nodes
  OBVIOUS
<1>2. ASSUME NEW c \in Q, parent[c] \in S \cup {n}
      PROVE  c \in S
  <2>1. CASE parent[c] = n
    BY <2>1
  <2>2. CASE parent[c] \in S
    <3>1. parent[c] \in Below(n, Q)
      BY <2>2, BelowClosed
    <3> QED BY <3>1
  <2> QED BY <1>2, <2>1, <2>2
<1>3. m \in Q /\ m \in S
  BY <1>1, <1>2 DEF Below
<1> QED BY <1>3

-----------------------------------------------------------------------------
(* The invariant *)

\* p is the root or a folder that has been made, and will be for good.
Settled(p) == p = Root \/ (p \in Folders /\ status[p] # "absent")

\* What a request has established for good.
Lasting(q) ==
    /\ Rest(q)
    /\ q.op # "none" => q.node \in Nodes /\ q.to # q.node
    /\ Head(q.todo) \in {"insert", "descendants", "move"} => Settled(q.to)
    /\ Head(q.todo) = "rename" => Settled(q.row)

\* What it has established as long as no other request writes.
Standing(q) ==
    q.op # "none" /\ ~q.stale =>
        /\ Head(q.todo) \in {"insert", "descendants", "move"} => ParentActive(q.to)
        /\ Head(q.todo) = "move" => q.to \notin Below(q.node, Live)
        /\ Head(q.todo) \in {"rename", "parent", "restore"} => q.row = parent[q.node]
        /\ Head(q.todo) = "restore" => ParentActive(q.row)

\* A node to be created is not there, and no other request creates it.
Fresh ==
    \A r \in Reqs : req[r].op = "create" =>
        /\ status[req[r].node] = "absent"
        /\ \A q \in Reqs : req[q].op = "create" /\ q # r => req[q].node # req[r].node

IInv ==
    /\ TypeOK
    /\ OnlyInFolders
    /\ TreeUnlessOverlap
    /\ Fresh
    /\ \A r \in Reqs : Lasting(req[r])
    /\ \A r \in Reqs : Standing(req[r])

\* The invariant holds of the empty tree.
LEMMA InitIInv == Init => IInv
<1> SUFFICES ASSUME Init PROVE IInv
  OBVIOUS
<1> USE NodeTreeAssumption
<1>1. Free \in Requests /\ Free.op = "none" /\ Free.todo = <<>> /\ Free.to = Root /\ Free.row = Root
  BY StepsAre DEF Free, Requests
<1>2. TypeOK
  BY <1>1 DEF Init, TypeOK
<1>3. OnlyInFolders
  BY DEF Init, OnlyInFolders
<1>4. Acyclic
  BY DEF Init, Acyclic
<1>5. LiveParents
  BY DEF Init, LiveParents, Live
<1>6. Fresh
  BY <1>1 DEF Init, Fresh
<1>7. \A r \in Reqs : Lasting(req[r]) /\ Standing(req[r])
  BY <1>1 DEF Init, Lasting, Rest, Standing, Settled
<1> QED BY <1>2, <1>3, <1>4, <1>5, <1>6, <1>7 DEF IInv, TreeUnlessOverlap

\* A request begins, passes a check or ends: the tree is as it was, and so
\* are the other requests.
LEMMA Checked ==
    ASSUME IInv, NEW r \in Reqs,
           UNCHANGED <<status, parent, overlap>>,
           req' \in [Reqs -> Requests],
           \A q \in Reqs : q # r => req'[q] = req[q],
           Lasting(req[r])', Standing(req[r])',
           req'[r].op = "create" =>
               /\ status[req'[r].node] = "absent"
               /\ \A q \in Reqs : req[q].op = "create" /\ q # r => req[q].node # req'[r].node
    PROVE  IInv'
<1>1. TypeOK'
  BY DEF IInv, TypeOK
<1>2. OnlyInFolders'
  BY DEF IInv, OnlyInFolders
<1>3. TreeUnlessOverlap'
  BY DEF IInv, TreeUnlessOverlap, Acyclic, LiveParents, Live
<1>4. Fresh'
  BY DEF IInv, Fresh
<1>5. ASSUME NEW q \in Reqs, q # r
      PROVE  Lasting(req[q])' /\ Standing(req[q])'
  <2>1. Lasting(req[q]) /\ Standing(req[q])
    BY DEF IInv
  <2>2. req'[q] = req[q]
    BY <1>5
  <2>3. Lasting(req[q])'
    BY <2>1, <2>2 DEF Lasting, Rest, Settled
  <2>4. Standing(req[q])'
    BY <2>1, <2>2 DEF Standing, ParentActive, Live, Below
  <2> QED BY <2>3, <2>4
<1>6. \A q \in Reqs : Lasting(req[q])' /\ Standing(req[q])'
  BY <1>5
<1> QED BY <1>1, <1>2, <1>3, <1>4, <1>6 DEF IInv

\* A request writes: nothing is unmade, nothing but its own node is made, and
\* what the others have seen is stale.
LEMMA Written ==
    ASSUME IInv, NEW r \in Reqs,
           TypeOK', OnlyInFolders', TreeUnlessOverlap',
           \A n \in Nodes : status[n] # "absent" => status'[n] # "absent",
           \A n \in Nodes : status[n] = "absent" =>
               status'[n] = "absent" \/ (n = req[r].node /\ req[r].op = "create"),
           \A q \in Reqs : q # r => req'[q] =
               IF req[q].todo = <<>> THEN req[q] ELSE [req[q] EXCEPT !.stale = TRUE],
           Lasting(req[r])', Standing(req[r])', req'[r].op # "create"
    PROVE  IInv'
<1>1. ASSUME NEW q \in Reqs, q # r
      PROVE  /\ Lasting(req[q])' /\ Standing(req[q])'
             /\ req'[q].op = req[q].op /\ req'[q].node = req[q].node
  <2>1. Lasting(req[q]) /\ req[q] \in Requests
    BY DEF IInv, TypeOK
  <2>2. req'[q] = IF req[q].todo = <<>> THEN req[q] ELSE [req[q] EXCEPT !.stale = TRUE]
    BY <1>1
  <2>3. /\ req'[q].op = req[q].op /\ req'[q].node = req[q].node /\ req'[q].to = req[q].to
        /\ req'[q].row = req[q].row /\ req'[q].todo = req[q].todo
    BY <2>1, <2>2 DEF Requests
  <2>4. Lasting(req[q])'
    <3>1. \A p \in Nodes : p \in Folders /\ status[p] # "absent" => status'[p] # "absent"
      OBVIOUS
    <3> QED BY <2>1, <2>3, <3>1, NodeTreeAssumption DEF Lasting, Rest, Settled
  <2>5. req[q].todo = <<>> => req[q].op = "none"
    BY <2>1, Todos DEF Lasting, Rest
  <2>6. req[q].todo # <<>> => req'[q].stale
    BY <2>1, <2>2 DEF Requests
  <2>7. Standing(req[q])'
    BY <2>3, <2>5, <2>6 DEF Standing
  <2> QED BY <2>3, <2>4, <2>7
<1>2. Fresh'
  <2>1. SUFFICES ASSUME NEW q \in Reqs, req'[q].op = "create"
                 PROVE  /\ status'[req'[q].node] = "absent"
                        /\ \A p \in Reqs : req'[p].op = "create" /\ p # q => req'[p].node # req'[q].node
    BY DEF Fresh
  <2>2. q # r /\ req[q].op = "create" /\ req'[q].node = req[q].node /\ req[q].node \in Nodes
    BY <1>1, <2>1 DEF IInv, Lasting
  <2>3. status[req[q].node] = "absent"
    BY <2>2 DEF IInv, Fresh
  <2>4. req[r].op = "create" => req[q].node # req[r].node
    BY <2>2 DEF IInv, Fresh
  <2>5. status'[req'[q].node] = "absent"
    BY <2>2, <2>3, <2>4
  <2>6. ASSUME NEW p \in Reqs, req'[p].op = "create", p # q
        PROVE  req'[p].node # req'[q].node
    <3>1. p # r /\ req[p].op = "create" /\ req'[p].node = req[p].node
      BY <1>1, <2>6
    <3> QED BY <2>2, <2>6, <3>1 DEF IInv, Fresh
  <2> QED BY <2>5, <2>6
<1>3. \A q \in Reqs : Lasting(req[q])' /\ Standing(req[q])'
  BY <1>1
<1> QED BY <1>2, <1>3 DEF IInv

-----------------------------------------------------------------------------
(* Requests begin, pass their checks and end *)

\* A worker without a request.
LEMMA FreeIs ==
    /\ Free \in Requests /\ Free.op = "none" /\ Free.todo = <<>>
    /\ Free.to = Root /\ Free.row = Root /\ ~Free.stale
  BY StepsAre DEF Free, Requests

\* A handler is called.
LEMMA BeginKeeps ==
    ASSUME IInv, NEW r \in Reqs, NEW op \in DOMAIN Steps, NEW n \in Nodes,
           NEW to \in Nodes \cup {Root}, to # n, Begin(r, op, n, to),
           op = "create" =>
               /\ status[n] = "absent"
               /\ \A q \in Reqs : req[q].op = "create" => req[q].node # n
    PROVE  IInv'
<1> DEFINE new == [Free EXCEPT !.op = op, !.node = n, !.to = to, !.todo = Steps[op]]
<1>1. req \in [Reqs -> Requests]
  BY DEF IInv, TypeOK
<1>2. /\ new.op = op /\ new.node = n /\ new.to = to /\ new.row = Root
      /\ new.todo = Steps[op] /\ new.stale = FALSE
  BY FreeIs DEF Requests
<1>4. new \in Requests
  <2>1. Steps[op] \in Seq(Statements)
    BY StepsAre, TodosAre
  <2> QED BY FreeIs, <2>1 DEF Requests
<1>5. req'[r] = new /\ req' \in [Reqs -> Requests] /\ \A q \in Reqs : q # r => req'[q] = req[q]
  BY <1>1, <1>4 DEF Begin
<1> HIDE DEF new
<1>3. Rest(new)
  BY <1>2, StepsAre DEF Rest
<1>6. Head(new.todo) \in {"folder", "find", "find_deleted"}
  <2>1. new.todo \in {toCreate, toFindRename, toFindMove, toFindBoth, toFindDelete, toFindRestore}
    BY <1>2, StepsAre
  <2> QED BY <2>1, Todos
<1>7. Lasting(req[r])'
  BY <1>2, <1>3, <1>5, <1>6 DEF Lasting, Rest
<1>8. Standing(req[r])'
  BY <1>5, <1>6 DEF Standing
<1>9. req'[r].op = op /\ req'[r].node = n
  BY <1>2, <1>5
<1>10. UNCHANGED <<status, parent, overlap>>
  BY DEF Begin
<1> QED BY <1>5, <1>7, <1>8, <1>9, <1>10, Checked

\* Where a request is that is about to run statement s.
LEMMA Where ==
    ASSUME NEW q, Rest(q), q.todo # <<>>
    PROVE  /\ q.op # "none"
           /\ Head(q.todo) = "folder" =>
                 \/ q.op = "create" /\ q.todo = toCreate
                 \/ q.op = "move" /\ q.todo = toCheckMove
                 \/ q.op = "patch" /\ q.todo = toCheckBoth
           /\ Head(q.todo) = "find" =>
                 \/ q.op \in {"rename", "patch"} /\ q.todo = toFindRename
                 \/ q.op = "move" /\ q.todo = toFindMove
                 \/ q.op = "patch" /\ q.todo = toFindBoth
                 \/ q.op = "delete" /\ q.todo = toFindDelete
           /\ Head(q.todo) = "descendants" =>
                 \/ q.op = "move" /\ q.todo = toLookMove
                 \/ q.op = "patch" /\ q.todo = toLookBoth
           /\ Head(q.todo) = "move" =>
                 \/ q.op = "move" /\ q.todo = toMove
                 \/ q.op = "patch" /\ q.todo = toMoveRename
           /\ Head(q.todo) = "insert" => q.op = "create" /\ q.todo = toInsert
           /\ Head(q.todo) = "rename" => q.op \in {"rename", "patch"} /\ q.todo = toRename
           /\ Head(q.todo) = "delete" => q.op = "delete" /\ q.todo = toDelete
           /\ Head(q.todo) = "find_deleted" => q.op = "restore" /\ q.todo = toFindRestore
           /\ Head(q.todo) = "parent" => q.op = "restore" /\ q.todo = toCheckRestore
           /\ Head(q.todo) = "restore" => q.op = "restore" /\ q.todo = toRestore
  BY Todos DEF Rest

\* A request that has run a check and has something left to do.
LEMMA Further ==
    ASSUME IInv, NEW r \in Reqs, req[r].todo # <<>>, Tail(req[r].todo) # <<>>,
           Rest([req[r] EXCEPT !.todo = Tail(req[r].todo)]),
           NEW q, q \in Requests, Passed(r, q),
           q.op = req[r].op, q.node = req[r].node, q.to = req[r].to,
           q.todo = req[r].todo, q.stale = req[r].stale,
           LET s == Head(Tail(req[r].todo)) IN
               /\ s \in {"insert", "descendants", "move"} => Settled(q.to)
               /\ s = "rename" => Settled(q.row)
               /\ ~q.stale =>
                    /\ s \in {"insert", "descendants", "move"} => ParentActive(q.to)
                    /\ s = "move" => q.to \notin Below(q.node, Live)
                    /\ s \in {"rename", "parent", "restore"} => q.row = parent[q.node]
                    /\ s = "restore" => ParentActive(q.row)
    PROVE  IInv'
<1> DEFINE new == [q EXCEPT !.todo = Tail(req[r].todo)]
<1>1. req \in [Reqs -> Requests] /\ Lasting(req[r])
  BY DEF IInv, TypeOK
<1>2. req' = [req EXCEPT ![r] = new]
  BY DEF Passed, Onward
<1>3. /\ new.op = req[r].op /\ new.node = req[r].node /\ new.to = q.to /\ new.row = q.row
      /\ new.todo = Tail(req[r].todo) /\ new.stale = q.stale
  BY DEF Requests
<1>4. Rest(new)
  <2>1. [req[r] EXCEPT !.todo = Tail(req[r].todo)].op = req[r].op
    BY <1>1 DEF Requests
  <2>2. [req[r] EXCEPT !.todo = Tail(req[r].todo)].todo = Tail(req[r].todo)
    BY <1>1 DEF Requests
  <2> QED BY <1>3, <2>1, <2>2 DEF Rest
<1>5. new \in Requests
  <2>1. new.todo \in Seq(Statements)
    BY <1>4, TodosType
  <2> QED BY <1>3, <2>1 DEF Requests
<1>6. req'[r] = new /\ req' \in [Reqs -> Requests] /\ \A p \in Reqs : p # r => req'[p] = req[p]
  BY <1>1, <1>2, <1>5
<1>7. UNCHANGED <<status, parent, overlap>>
  BY DEF Passed
<1>8. Lasting(req[r])'
  <2>1. Rest(req[r])'
    BY <1>4, <1>6 DEF Rest
  <2> QED BY <1>1, <1>3, <1>6, <1>7, <2>1 DEF Lasting, Settled
<1>9. Standing(req[r])'
  BY <1>3, <1>6, <1>7 DEF Standing, ParentActive, Live, Below
<1>10. req'[r].op = req[r].op /\ req'[r].node = req[r].node
  BY <1>3, <1>6
<1>11. req'[r].op = "create" =>
          /\ status[req'[r].node] = "absent"
          /\ \A p \in Reqs : req[p].op = "create" /\ p # r => req[p].node # req'[r].node
  BY <1>10 DEF IInv, Fresh
<1> HIDE DEF new
<1> QED BY <1>6, <1>7, <1>8, <1>9, <1>11, Checked

\* FindByID reads the node.
LEMMA FindKeeps ==
    ASSUME IInv, NEW r \in Reqs, Find(r)
    PROVE  IInv'
<1> DEFINE q == [req[r] EXCEPT !.row = parent[req[r].node]]
           t == Tail(req[r].todo)
<1>1. req[r] \in Requests /\ Lasting(req[r]) /\ Rest(req[r])
  BY DEF IInv, TypeOK, Lasting
<1>2. /\ req[r].op # "none"
      /\ \/ req[r].op \in {"rename", "patch"} /\ t = toRename
         \/ req[r].op = "move" /\ t = toCheckMove
         \/ req[r].op = "patch" /\ t = toCheckBoth
         \/ req[r].op = "delete" /\ t = toDelete
  BY <1>1, Where, Todos DEF Find, At
<1>3. t # <<>> /\ Head(t) \in {"rename", "folder", "delete"}
  BY <1>2, Todos
<1>4. Rest([req[r] EXCEPT !.todo = t])
  <2>1. [req[r] EXCEPT !.todo = t].op = req[r].op /\ [req[r] EXCEPT !.todo = t].todo = t
    BY <1>1 DEF Requests
  <2> QED BY <1>2, <2>1 DEF Rest
<1>5. req[r].node \in Nodes
  BY <1>1, <1>2 DEF Lasting
<1>6. parent[req[r].node] \in Nodes \cup {Root} /\ Settled(parent[req[r].node])
  BY <1>5 DEF IInv, TypeOK, OnlyInFolders, Settled
<1>7. /\ q \in Requests /\ q.op = req[r].op /\ q.node = req[r].node /\ q.to = req[r].to
      /\ q.todo = req[r].todo /\ q.stale = req[r].stale /\ q.row = parent[q.node]
  BY <1>1, <1>6 DEF Requests
<1>8. Passed(r, q)
  BY DEF Find
<1>9. req[r].todo # <<>> /\ Settled(q.row)
  BY <1>6, <1>7 DEF Find, At
<1> HIDE DEF q, t
<1> QED BY <1>3, <1>4, <1>7, <1>8, <1>9, Further DEF t

\* The new parent is looked at.
LEMMA FolderKeeps ==
    ASSUME IInv, NEW r \in Reqs, Folder(r)
    PROVE  IInv'
<1> DEFINE t == Tail(req[r].todo)
<1>1. req[r] \in Requests /\ Rest(req[r])
  BY DEF IInv, TypeOK, Lasting
<1>2. \/ req[r].op = "create" /\ t = toInsert
      \/ req[r].op = "move" /\ t = toLookMove
      \/ req[r].op = "patch" /\ t = toLookBoth
  BY <1>1, Where, Todos DEF Folder, At
<1>3. t # <<>> /\ Head(t) \in {"insert", "descendants"}
  BY <1>2, Todos
<1>4. Rest([req[r] EXCEPT !.todo = t])
  <2>1. [req[r] EXCEPT !.todo = t].op = req[r].op /\ [req[r] EXCEPT !.todo = t].todo = t
    BY <1>1 DEF Requests
  <2> QED BY <1>2, <2>1 DEF Rest
<1>5. req[r].todo # <<>> /\ Passed(r, req[r])
  BY DEF Folder, At
<1>6. Settled(req[r].to) /\ ParentActive(req[r].to)
  BY DEF Folder, Suitable, Settled, ParentActive, Live
<1> HIDE DEF t
<1> QED BY <1>1, <1>3, <1>4, <1>5, <1>6, Further DEF t

\* The descendants are looked at, before a move.
LEMMA DescendantsKeeps ==
    ASSUME IInv, NEW r \in Reqs, Descendants(r)
    PROVE  IInv'
<1> DEFINE t == Tail(req[r].todo)
<1>1. req[r] \in Requests /\ Rest(req[r]) /\ Lasting(req[r]) /\ Standing(req[r])
  BY DEF IInv, TypeOK, Lasting
<1>2. /\ req[r].op # "none"
      /\ \/ req[r].op = "move" /\ t = toMove
         \/ req[r].op = "patch" /\ t = toMoveRename
  BY <1>1, Where, Todos DEF Descendants, At
<1>3. t # <<>> /\ Head(t) = "move"
  BY <1>2, Todos
<1>4. Rest([req[r] EXCEPT !.todo = t])
  <2>1. [req[r] EXCEPT !.todo = t].op = req[r].op /\ [req[r] EXCEPT !.todo = t].todo = t
    BY <1>1 DEF Requests
  <2> QED BY <1>2, <2>1 DEF Rest
<1>5. req[r].todo # <<>> /\ Passed(r, req[r]) /\ Head(req[r].todo) = "descendants"
  BY DEF Descendants, At
<1>6. Settled(req[r].to) /\ (~req[r].stale => ParentActive(req[r].to))
  BY <1>1, <1>2, <1>5 DEF Lasting, Standing
<1>7. req[r].to \notin Below(req[r].node, Live)
  <2>1. CASE req[r].to = Root
    BY <2>1, NodeTreeAssumption DEF Below, Live
  <2>2. CASE req[r].to # Root
    BY <2>2 DEF Descendants, NotUnder
  <2> QED BY <2>1, <2>2
<1> HIDE DEF t
<1> QED BY <1>1, <1>3, <1>4, <1>5, <1>6, <1>7, Further DEF t

\* The deleted node is read.
LEMMA FindDeletedKeeps ==
    ASSUME IInv, NEW r \in Reqs, FindDeleted(r)
    PROVE  IInv'
<1> DEFINE q == [req[r] EXCEPT !.row = parent[req[r].node]]
           t == Tail(req[r].todo)
<1>1. req[r] \in Requests /\ Rest(req[r]) /\ Lasting(req[r])
  BY DEF IInv, TypeOK, Lasting
<1>2. req[r].op = "restore" /\ t = toCheckRestore
  BY <1>1, Where, Todos DEF FindDeleted, At
<1>3. t # <<>> /\ Head(t) = "parent"
  BY <1>2, Todos
<1>4. Rest([req[r] EXCEPT !.todo = t])
  <2>1. [req[r] EXCEPT !.todo = t].op = req[r].op /\ [req[r] EXCEPT !.todo = t].todo = t
    BY <1>1 DEF Requests
  <2> QED BY <1>2, <2>1 DEF Rest
<1>5. parent[req[r].node] \in Nodes \cup {Root}
  BY <1>1, <1>2 DEF Lasting, IInv, TypeOK
<1>6. /\ q \in Requests /\ q.op = req[r].op /\ q.node = req[r].node /\ q.to = req[r].to
      /\ q.todo = req[r].todo /\ q.stale = req[r].stale /\ q.row = parent[q.node]
  BY <1>1, <1>5 DEF Requests
<1>7. req[r].todo # <<>> /\ Passed(r, q)
  BY DEF FindDeleted, At
<1> HIDE DEF q, t
<1> QED BY <1>3, <1>4, <1>6, <1>7, Further DEF t

\* Restore looks at the parent.
LEMMA ParentKeeps ==
    ASSUME IInv, NEW r \in Reqs, Parent(r)
    PROVE  IInv'
<1> DEFINE t == Tail(req[r].todo)
<1>1. req[r] \in Requests /\ Rest(req[r]) /\ Standing(req[r])
  BY DEF IInv, TypeOK, Lasting
<1>2. req[r].op = "restore" /\ t = toRestore
  BY <1>1, Where, Todos DEF Parent, At
<1>3. t # <<>> /\ Head(t) = "restore"
  BY <1>2, Todos
<1>4. Rest([req[r] EXCEPT !.todo = t])
  <2>1. [req[r] EXCEPT !.todo = t].op = req[r].op /\ [req[r] EXCEPT !.todo = t].todo = t
    BY <1>1 DEF Requests
  <2> QED BY <1>2, <2>1 DEF Rest
<1>5. req[r].todo # <<>> /\ Passed(r, req[r]) /\ ParentActive(req[r].row)
  BY DEF Parent, At
<1>6. ~req[r].stale => req[r].row = parent[req[r].node]
  BY <1>1, <1>2 DEF Standing, Parent, At
<1> HIDE DEF t
<1> QED BY <1>1, <1>3, <1>4, <1>5, <1>6, Further DEF t

\* A request fails.
LEMMA AbortKeeps ==
    ASSUME IInv, NEW r \in Reqs, Abort(r)
    PROVE  IInv'
<1>1. req'[r] = Free /\ req' \in [Reqs -> Requests] /\ \A q \in Reqs : q # r => req'[q] = req[q]
  BY FreeIs DEF Abort, IInv, TypeOK
<1>2. Lasting(req[r])' /\ Standing(req[r])'
  BY <1>1, FreeIs DEF Lasting, Rest, Settled, Standing
<1>3. req'[r].op # "create"
  BY <1>1, FreeIs
<1>4. UNCHANGED <<status, parent, overlap>>
  BY DEF Abort
<1> QED BY <1>1, <1>2, <1>3, <1>4, Checked

-----------------------------------------------------------------------------
(* Requests write *)

\* What a write does to the requests.
LEMMA WroteIs ==
    ASSUME IInv, NEW r \in Reqs, Wrote(r), req[r].todo # <<>>,
           Head(req[r].todo) \in {"insert", "move", "rename", "delete", "restore"}
    PROVE  /\ req' \in [Reqs -> Requests]
           /\ overlap' = (overlap \/ req[r].stale) /\ overlap' \in BOOLEAN
           /\ \A q \in Reqs : q # r => req'[q] =
                 IF req[q].todo = <<>> THEN req[q] ELSE [req[q] EXCEPT !.stale = TRUE]
           /\ Lasting(req[r])' /\ Standing(req[r])' /\ req'[r].op # "create"
<1> DEFINE t == Tail(req[r].todo)
           fresh == [req[r] EXCEPT !.stale = FALSE]
<1>1. req \in [Reqs -> Requests] /\ Lasting(req[r]) /\ Rest(req[r]) /\ overlap \in BOOLEAN
  BY DEF IInv, TypeOK, Lasting
<1>2. /\ fresh \in Requests /\ fresh.op = req[r].op /\ fresh.node = req[r].node
      /\ fresh.to = req[r].to /\ fresh.todo = req[r].todo
  BY <1>1 DEF Requests
<1>3. t = <<>> \/ (req[r].op = "patch" /\ t = toFindRename)
  BY <1>1, Where, Todos
<1>4. req'[r] = IF t = <<>> THEN Free ELSE [fresh EXCEPT !.todo = t]
  BY <1>1, <1>2 DEF Wrote, Onward
<1>5. Lasting(req[r])' /\ Standing(req[r])' /\ req'[r].op # "create"
  <2>1. CASE t = <<>>
    <3>1. req'[r] = Free
      BY <1>4, <2>1
    <3> QED BY <3>1, FreeIs DEF Lasting, Rest, Settled, Standing
  <2>2. CASE req[r].op = "patch" /\ t = toFindRename
    <3>1. t # <<>> /\ Head(t) = "find"
      BY <2>2, Todos
    <3>2. req'[r] = [fresh EXCEPT !.todo = t]
      BY <1>4, <3>1
    <3>3. /\ req'[r].op = "patch" /\ req'[r].todo = toFindRename
          /\ req'[r].node = req[r].node /\ req'[r].to = req[r].to
      BY <1>2, <2>2, <3>2 DEF Requests
    <3>4. Lasting(req[r])'
      BY <1>1, <2>2, <3>1, <3>3 DEF Lasting, Rest
    <3>5. Standing(req[r])'
      BY <2>2, <3>1, <3>3 DEF Standing
    <3> QED BY <3>3, <3>4, <3>5
  <2> QED BY <1>3, <2>1, <2>2
<1>7. req'[r] \in Requests
  <2>1. CASE t = <<>>
    BY <1>4, <2>1, FreeIs
  <2>2. CASE t # <<>>
    <3>1. t \in Seq(Statements)
      BY <1>3, <2>2, TodosAre
    <3> QED BY <1>2, <1>4, <2>2, <3>1 DEF Requests
  <2> QED BY <2>1, <2>2
<1>8. \A q \in Reqs : q # r => req'[q] =
          IF req[q].todo = <<>> THEN req[q] ELSE [req[q] EXCEPT !.stale = TRUE]
  BY DEF Wrote
<1>9. ASSUME NEW q \in Reqs, q # r
      PROVE  req'[q] \in Requests
  <2>1. req[q] \in Requests
    BY <1>1
  <2>2. [req[q] EXCEPT !.stale = TRUE] \in Requests
    BY <2>1 DEF Requests
  <2> QED BY <1>8, <1>9, <2>1, <2>2
<1>10. req' \in [Reqs -> Requests]
  <2>1. req' = [q \in Reqs |-> req'[q]]
    BY DEF Wrote
  <2> QED BY <1>7, <1>9, <2>1
<1>11. overlap' = (overlap \/ req[r].stale) /\ overlap' \in BOOLEAN
  BY DEF Wrote
<1> QED BY <1>5, <1>8, <1>10, <1>11

\* Before a write, as far as the write may rely on it.
LEMMA Before ==
    ASSUME IInv, NEW r \in Reqs, Wrote(r), req[r].todo # <<>>,
           Head(req[r].todo) \in {"insert", "move", "rename", "delete", "restore"}
    PROVE  ~overlap' => Acyclic /\ LiveParents /\ Standing(req[r]) /\ ~req[r].stale
  BY WroteIs DEF IInv, TreeUnlessOverlap

\* The INSERT of a new node, which nothing is below.
LEMMA InsertKeeps ==
    ASSUME IInv, NEW r \in Reqs, Insert(r)
    PROVE  IInv'
<1> DEFINE n == req[r].node
           to == req[r].to
<1>1. req[r] \in Requests /\ Lasting(req[r]) /\ Rest(req[r])
  BY DEF IInv, TypeOK, Lasting
<1>2. req[r].todo # <<>> /\ Head(req[r].todo) = "insert" /\ Wrote(r)
  BY DEF Insert, At
<1>3. req[r].op = "create" /\ n \in Nodes /\ to # n /\ Settled(to) /\ to \in Nodes \cup {Root}
  BY <1>1, <1>2, Where DEF Lasting, Requests
<1>4. status[n] = "absent"
  BY <1>3 DEF IInv, Fresh
<1>5. status' = [status EXCEPT ![n] = "live"] /\ parent' = [parent EXCEPT ![n] = to]
  BY DEF Insert
<1>6. /\ status \in [Nodes -> {"absent", "live", "deleted"}]
      /\ parent \in [Nodes -> Nodes \cup {Root}]
      /\ \A m \in Nodes : parent[m] # Root => status[parent[m]] # "absent"
  BY DEF IInv, TypeOK
<1>7. to # Root => to \in Nodes /\ status[to] # "absent"
  BY <1>3 DEF Settled
<1> HIDE DEF n, to
<1>8. TypeOK'
  <2>1. \A m \in Nodes : parent'[m] # Root => status'[parent'[m]] # "absent"
    BY <1>3, <1>5, <1>6, <1>7
  <2>2. status' \in [Nodes -> {"absent", "live", "deleted"}] /\ parent' \in [Nodes -> Nodes \cup {Root}]
    BY <1>3, <1>5, <1>6
  <2> QED BY <1>2, <2>1, <2>2, WroteIs DEF TypeOK
<1>9. OnlyInFolders'
  BY <1>3, <1>5, <1>6 DEF IInv, OnlyInFolders, Settled
<1>10. ASSUME ~overlap'
       PROVE  Acyclic' /\ LiveParents'
  <2>1. Acyclic /\ LiveParents /\ ParentActive(to)
    BY <1>2, <1>3, <1>10, Before DEF Standing, to
  <2>2. ASSUME NEW S \in SUBSET Nodes, S # {}, \A m \in S : parent'[m] \in S
        PROVE  FALSE
    <3>1. PICK m \in S : parent[m] \notin S
      BY <2>1, <2>2 DEF Acyclic
    <3>2. m = n
      BY <1>5, <1>6, <2>2, <3>1
    <3>3. to \in S \ {n}
      BY <1>3, <1>5, <1>6, <2>2, <3>2
    <3>4. ASSUME NEW c \in S \ {n}
          PROVE  parent[c] \in S \ {n}
      <4>1. parent[c] \in S
        BY <1>5, <1>6, <2>2
      <4>2. parent[c] # Root
        BY <4>1, NodeTreeAssumption
      <4> QED BY <1>4, <1>6, <4>1, <4>2
    <3> QED BY <2>1, <3>3, <3>4 DEF Acyclic
  <2>3. LiveParents'
    BY <1>3, <1>4, <1>5, <1>6, <2>1 DEF LiveParents, Live, ParentActive
  <2> QED BY <2>2, <2>3 DEF Acyclic
<1>11. TreeUnlessOverlap'
  BY <1>10 DEF TreeUnlessOverlap
<1>12. /\ \A m \in Nodes : status[m] # "absent" => status'[m] # "absent"
       /\ \A m \in Nodes : status[m] = "absent" => status'[m] = "absent" \/ m = n
  BY <1>5, <1>6
<1> QED BY <1>2, <1>3, <1>8, <1>9, <1>11, <1>12, WroteIs, Written DEF n

\* What is common to the two that write parent_id.
LEMMA UpdateKeeps ==
    ASSUME IInv, NEW r \in Reqs, NEW p, Update(r, p), Settled(p),
           req[r].todo # <<>>, Head(req[r].todo) \in {"move", "rename"},
           ~overlap' =>
               \/ p = parent[req[r].node]
               \/ ParentActive(p) /\ p # req[r].node /\ p \notin Below(req[r].node, Live)
    PROVE  IInv'
<1> DEFINE n == req[r].node
<1>1. Wrote(r) /\ status' = status /\ n \in Live /\ n \in Nodes /\ parent' = [parent EXCEPT ![n] = p]
  BY DEF Update, Updatable, Live
<1>2. /\ status \in [Nodes -> {"absent", "live", "deleted"}]
      /\ parent \in [Nodes -> Nodes \cup {Root}]
      /\ \A m \in Nodes : parent[m] # Root => status[parent[m]] # "absent"
  BY DEF IInv, TypeOK
<1>3. p \in Nodes \cup {Root} /\ (p # Root => status[p] # "absent")
  BY NodeTreeAssumption DEF Settled
<1>4. TypeOK'
  <2>1. \A m \in Nodes : parent'[m] # Root => status'[parent'[m]] # "absent"
    BY <1>1, <1>2, <1>3
  <2>2. status' \in [Nodes -> {"absent", "live", "deleted"}] /\ parent' \in [Nodes -> Nodes \cup {Root}]
    BY <1>1, <1>2, <1>3
  <2> QED BY <1>1, <2>1, <2>2, WroteIs DEF TypeOK
<1>5. OnlyInFolders'
  BY <1>1, <1>2 DEF IInv, OnlyInFolders, Settled
<1>6. ASSUME ~overlap'
      PROVE  Acyclic' /\ LiveParents'
  <2>1. Acyclic /\ LiveParents
    BY <1>1, <1>6, Before
  <2>2. CASE p = parent[n]
    <3>1. parent' = parent
      BY <1>1, <1>2, <2>2
    <3> QED BY <1>1, <2>1, <3>1 DEF Acyclic, LiveParents, Live
  <2>3. CASE ParentActive(p) /\ p # n /\ p \notin Below(n, Live)
    <3>1. LiveParents'
      BY <1>1, <1>2, <2>1, <2>3 DEF LiveParents, Live, ParentActive
    <3>2. ASSUME NEW S \in SUBSET Nodes, S # {}, \A m \in S : parent'[m] \in S
          PROVE  FALSE
      <4> DEFINE T == {m \in S \cap Live : m # n /\ m \notin Below(n, Live)}
      <4>1. PICK m \in S : parent[m] \notin S
        BY <2>1, <3>2 DEF Acyclic
      <4>2. m = n /\ p \in S
        BY <1>1, <1>2, <3>2, <4>1
      <4>3. p \in T
        BY <2>3, <4>2, NodeTreeAssumption DEF ParentActive
      <4>4. ASSUME NEW c \in T
            PROVE  parent[c] \in T
        <5>1. parent[c] \in S /\ c \in Live
          BY <1>1, <1>2, <3>2
        <5>2. parent[c] \in Live
          BY <2>1, <5>1, NodeTreeAssumption DEF LiveParents
        <5>3. parent[c] \notin Below(n, Live) \cup {n}
          BY <5>1, BelowClosed
        <5> QED BY <5>1, <5>2, <5>3
      <4> HIDE DEF T
      <4>5. T \in SUBSET Nodes
        BY DEF T
      <4> QED BY <2>1, <4>3, <4>4, <4>5 DEF Acyclic
    <3> QED BY <3>1, <3>2 DEF Acyclic
  <2> QED BY <1>6, <2>2, <2>3
<1>7. TreeUnlessOverlap'
  BY <1>6 DEF TreeUnlessOverlap
<1>8. \A m \in Nodes : status'[m] = status[m]
  BY <1>1
<1> QED BY <1>1, <1>4, <1>5, <1>7, <1>8, WroteIs, Written

\* The UPDATE that moves a node, on checks that may have gone stale.
LEMMA MoveKeeps ==
    ASSUME IInv, NEW r \in Reqs, Move(r)
    PROVE  IInv'
<1>1. Lasting(req[r]) /\ Rest(req[r])
  BY DEF IInv, Lasting
<1>2. req[r].todo # <<>> /\ Head(req[r].todo) = "move" /\ Update(r, req[r].to) /\ Wrote(r)
  BY DEF Move, At, Update
<1>3. req[r].op # "none"
  BY <1>1, <1>2, Where
<1>4. Settled(req[r].to) /\ req[r].to # req[r].node
  BY <1>1, <1>2, <1>3 DEF Lasting
<1>5. ~overlap' => ParentActive(req[r].to) /\ req[r].to \notin Below(req[r].node, Live)
  BY <1>2, <1>3, Before DEF Standing
<1> QED BY <1>2, <1>4, <1>5, UpdateKeeps

\* The UPDATE that renames a node, and writes back the parent that was read.
LEMMA RenameKeeps ==
    ASSUME IInv, NEW r \in Reqs, Rename(r)
    PROVE  IInv'
<1>1. Lasting(req[r]) /\ Rest(req[r])
  BY DEF IInv, Lasting
<1>2. req[r].todo # <<>> /\ Head(req[r].todo) = "rename" /\ Update(r, req[r].row) /\ Wrote(r)
  BY DEF Rename, At, Update
<1>3. req[r].op # "none"
  BY <1>1, <1>2, Where
<1>4. Settled(req[r].row) /\ (~overlap' => req[r].row = parent[req[r].node])
  BY <1>1, <1>2, <1>3, Before DEF Lasting, Standing
<1> QED BY <1>2, <1>4, UpdateKeeps

\* The recursive soft delete.
LEMMA DeleteKeeps ==
    ASSUME IInv, NEW r \in Reqs, Delete(r)
    PROVE  IInv'
<1> DEFINE n == req[r].node
<1>1. /\ req[r].todo # <<>> /\ Head(req[r].todo) = "delete" /\ Wrote(r) /\ parent' = parent
      /\ n \in Live
      /\ status' = [m \in Nodes |-> IF m \in Cascade(n) THEN "deleted" ELSE status[m]]
  BY DEF Delete, At
<1>2. /\ status \in [Nodes -> {"absent", "live", "deleted"}]
      /\ parent \in [Nodes -> Nodes \cup {Root}]
      /\ \A m \in Nodes : parent[m] # Root => status[parent[m]] # "absent"
  BY DEF IInv, TypeOK
<1>3. \A m \in Cascade(n) : m \in Live
  BY <1>1 DEF Cascade, Below
<1>4. TypeOK'
  <2>1. \A m \in Nodes : parent'[m] # Root => status'[parent'[m]] # "absent"
    BY <1>1, <1>2
  <2>2. status' \in [Nodes -> {"absent", "live", "deleted"}] /\ parent' \in [Nodes -> Nodes \cup {Root}]
    BY <1>1, <1>2
  <2> QED BY <1>1, <2>1, <2>2, WroteIs DEF TypeOK
<1>5. OnlyInFolders'
  BY <1>1 DEF IInv, OnlyInFolders
<1>6. ASSUME ~overlap'
      PROVE  Acyclic' /\ LiveParents'
  <2>1. Acyclic /\ LiveParents
    BY <1>1, <1>6, Before
  <2>2. ASSUME NEW m \in Nodes, status'[m] = "live"
        PROVE  parent'[m] = Root \/ (parent'[m] \in Nodes /\ status'[parent'[m]] = "live")
    <3>1. m \in Live /\ m \notin Below(n, Live)
      BY <1>1, <2>2 DEF Live, Cascade
    <3>2. parent[m] = Root \/ parent[m] \in Live
      BY <2>1, <3>1 DEF LiveParents
    <3>3. parent[m] \notin Cascade(n)
      BY <3>1, BelowClosed DEF Cascade
    <3> QED BY <1>1, <3>2, <3>3 DEF Live
  <2>3. Acyclic'
    BY <1>1, <2>1 DEF Acyclic
  <2> QED BY <2>2, <2>3 DEF LiveParents, Live
<1>7. TreeUnlessOverlap'
  BY <1>6 DEF TreeUnlessOverlap
<1>8. /\ \A m \in Nodes : status[m] # "absent" => status'[m] # "absent"
      /\ \A m \in Nodes : status[m] = "absent" => status'[m] = "absent"
  BY <1>1, <1>3 DEF Live
<1> QED BY <1>1, <1>4, <1>5, <1>7, <1>8, WroteIs, Written

\* The UPDATE that restores a node.
LEMMA RestoreKeeps ==
    ASSUME IInv, NEW r \in Reqs, Restore(r)
    PROVE  IInv'
<1> DEFINE n == req[r].node
           R == {n} \cup Below(n, Deleted)
<1>1. /\ req[r].todo # <<>> /\ Head(req[r].todo) = "restore" /\ Wrote(r) /\ parent' = parent
      /\ n \in Deleted
      /\ status' = [m \in Nodes |-> IF m \in R THEN "live" ELSE status[m]]
  BY DEF Restore, At
<1>2. /\ status \in [Nodes -> {"absent", "live", "deleted"}]
      /\ parent \in [Nodes -> Nodes \cup {Root}]
      /\ \A m \in Nodes : parent[m] # Root => status[parent[m]] # "absent"
  BY DEF IInv, TypeOK
<1>3. \A m \in R : m \in Deleted
  BY <1>1 DEF Below
<1> HIDE DEF R
<1>4. TypeOK'
  <2>1. \A m \in Nodes : parent'[m] # Root => status'[parent'[m]] # "absent"
    BY <1>1, <1>2
  <2>2. status' \in [Nodes -> {"absent", "live", "deleted"}] /\ parent' \in [Nodes -> Nodes \cup {Root}]
    BY <1>1, <1>2
  <2> QED BY <1>1, <2>1, <2>2, WroteIs DEF TypeOK
<1>5. OnlyInFolders'
  BY <1>1 DEF IInv, OnlyInFolders
<1>6. ASSUME ~overlap'
      PROVE  Acyclic' /\ LiveParents'
  <2>1. Acyclic /\ LiveParents /\ Standing(req[r]) /\ ~req[r].stale
    BY <1>1, <1>6, Before
  <2>2. req[r].op # "none"
    BY <1>1, Where DEF IInv, Lasting
  <2>3. parent[n] = Root \/ parent[n] \in Live
    BY <1>1, <2>1, <2>2 DEF Standing, ParentActive
  <2>4. ASSUME NEW m \in Nodes, status'[m] = "live"
        PROVE  parent'[m] = Root \/ (parent'[m] \in Nodes /\ status'[parent'[m]] = "live")
    <3>1. CASE m \in R /\ m # n
      <4>1. parent[m] \in R
        BY <3>1, BelowFrom DEF R, Deleted
      <4> QED BY <1>1, <1>3, <4>1 DEF Deleted
    <3>2. CASE m = n \/ m \notin R
      <4>1. parent[m] = Root \/ parent[m] \in Live
        BY <1>1, <2>1, <2>3, <2>4, <3>2 DEF LiveParents, Live
      <4> QED BY <1>1, <4>1 DEF Live
    <3> QED BY <3>1, <3>2
  <2>5. Acyclic'
    BY <1>1, <2>1 DEF Acyclic
  <2> QED BY <2>4, <2>5 DEF LiveParents, Live
<1>7. TreeUnlessOverlap'
  BY <1>6 DEF TreeUnlessOverlap
<1>8. /\ \A m \in Nodes : status[m] # "absent" => status'[m] # "absent"
      /\ \A m \in Nodes : status[m] = "absent" => status'[m] = "absent"
  BY <1>1, <1>3 DEF Deleted
<1> QED BY <1>1, <1>4, <1>5, <1>7, <1>8, WroteIs, Written

-----------------------------------------------------------------------------
(* The theorems *)

\* Every step keeps the invariant.
LEMMA NextKeeps == IInv /\ [Next]_vars => IInv'
<1> SUFFICES ASSUME IInv, [Next]_vars PROVE IInv'
  OBVIOUS
<1>1. CASE UNCHANGED vars
  <2>1. UNCHANGED <<status, parent, req, overlap>>
    BY <1>1 DEF vars
  <2>2. TypeOK' /\ OnlyInFolders' /\ TreeUnlessOverlap' /\ Fresh'
    BY <2>1 DEF IInv, TypeOK, OnlyInFolders, TreeUnlessOverlap, Acyclic, LiveParents, Live, Fresh
  <2>3. ASSUME NEW r \in Reqs
        PROVE  Lasting(req[r])' /\ Standing(req[r])'
    <3>1. Lasting(req[r])'
      BY <2>1 DEF IInv, Lasting, Rest, Settled
    <3>2. Standing(req[r])'
      BY <2>1 DEF IInv, Standing, ParentActive, Live, Below
    <3> QED BY <3>1, <3>2
  <2> QED BY <2>2, <2>3 DEF IInv
<1>2. ASSUME NEW r \in Reqs, NEW n \in Nodes, NEW to \in Nodes \cup {Root}, BeginCreate(r, n, to)
      PROVE  IInv'
  <2>1. "create" \in DOMAIN Steps
    BY StepsAre
  <2> QED BY <1>2, <2>1, BeginKeeps DEF BeginCreate
<1>3. ASSUME NEW r \in Reqs, NEW n \in Nodes, NEW to \in Nodes \cup {Root},
             NEW op \in DOMAIN Steps, BeginUpdate(r, op, n, to)
      PROVE  IInv'
  <2>1. op # "create"
    BY <1>3 DEF BeginUpdate
  <2> QED BY <1>3, <2>1, BeginKeeps DEF BeginUpdate
<1>4. ASSUME NEW r \in Reqs, Check(r)
      PROVE  IInv'
  BY <1>4, FindKeeps, FolderKeeps, DescendantsKeeps, FindDeletedKeeps, ParentKeeps DEF Check
<1>5. ASSUME NEW r \in Reqs, Write(r)
      PROVE  IInv'
  BY <1>5, InsertKeeps, MoveKeeps, RenameKeeps, DeleteKeeps, RestoreKeeps DEF Write
<1>6. ASSUME NEW r \in Reqs, Abort(r)
      PROVE  IInv'
  BY <1>6, AbortKeeps
<1> QED BY <1>1, <1>2, <1>3, <1>4, <1>5, <1>6 DEF Next

\* What the requests have established stays established.
THEOREM Invariance == Spec => []IInv
  BY InitIInv, NextKeeps, PTL DEF Spec

\* The variables keep their types, and no parent_id refers to a node that has
\* not been created.
THEOREM TypeCorrect == Spec => []TypeOK
<1>1. IInv => TypeOK
  BY DEF IInv
<1> QED BY <1>1, Invariance, PTL

\* As long as no request writes on checks that another has overtaken, there is
\* no cycle and everything that can be seen hangs from what can be seen.
THEOREM StaysATree == Spec => []TreeUnlessOverlap
<1>1. IInv => TreeUnlessOverlap
  BY DEF IInv
<1> QED BY <1>1, Invariance, PTL

\* However requests overlap, the parent of a node is a folder.
THEOREM ParentsAreFolders == Spec => []OnlyInFolders
<1>1. IInv => OnlyInFolders
  BY DEF IInv
<1> QED BY <1>1, Invariance, PTL

\* However requests overlap, none moves a node that is in the trash.
THEOREM TrashStays == Spec => TrashUntouched
<1>1. ASSUME IInv, [Next]_vars
      PROVE  [\A n \in Nodes : status[n] = "deleted" => parent'[n] = parent[n]]_vars
  <2>1. parent \in [Nodes -> Nodes \cup {Root}]
    BY <1>1 DEF IInv, TypeOK
  <2>2. ASSUME NEW r \in Reqs, Insert(r), NEW n \in Nodes, status[n] = "deleted"
        PROVE  parent'[n] = parent[n]
    <3>1. req[r].op = "create"
      BY <1>1, <2>2, Where DEF IInv, Lasting, Insert, At
    <3>2. status[req[r].node] = "absent"
      BY <1>1, <3>1 DEF IInv, Fresh
    <3> QED BY <2>1, <2>2, <3>2 DEF Insert
  <2>3. ASSUME NEW r \in Reqs, Move(r) \/ Rename(r), NEW n \in Nodes, status[n] = "deleted"
        PROVE  parent'[n] = parent[n]
    BY <2>1, <2>3 DEF Move, Rename, Update, Updatable, Live
  <2>4. ASSUME NEW r \in Reqs, Delete(r) \/ Restore(r)
        PROVE  parent' = parent
    BY <2>4 DEF Delete, Restore
  <2>5. ASSUME NEW r \in Reqs, Check(r) \/ Abort(r)
        PROVE  parent' = parent
    BY <2>5 DEF Check, Abort, Find, Folder, Descendants, FindDeleted, Parent, Passed
  <2>6. ASSUME NEW r \in Reqs, NEW n \in Nodes, NEW to \in Nodes \cup {Root},
               BeginCreate(r, n, to) \/ \E op \in DOMAIN Steps : BeginUpdate(r, op, n, to)
        PROVE  parent' = parent
    BY <2>6 DEF BeginCreate, BeginUpdate, Begin
  <2>7. CASE UNCHANGED vars
    BY <2>7
  <2>8. CASE Next
    <3>1. \A n \in Nodes : status[n] = "deleted" => parent'[n] = parent[n]
      BY <2>2, <2>3, <2>4, <2>5, <2>6, <2>8 DEF Next, Write
    <3> QED BY <3>1
  <2> QED BY <1>1, <2>7, <2>8
<1> QED BY <1>1, Invariance, PTL DEF Spec, TrashUntouched
=============================================================================

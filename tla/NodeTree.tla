------------------------------ MODULE NodeTree ------------------------------
(***************************************************************************)
(* The tree of folders and documents: NodeService, NodeRepo and the        *)
(* handlers of /api/nodes that write.                                      *)
(*                                                                         *)
(* A request checks what it needs with some statements and writes with     *)
(* another, in no transaction and without locks; each statement is a step  *)
(* here.  The permission checks between them write nothing and may turn    *)
(* any request down, which is one of the reasons a request may end early.  *)
(* Titles are left out, but a rename writes more than the title: the row   *)
(* goes back to the table with the parent it was read with.                *)
(***************************************************************************)
EXTENDS Naturals, Sequences, FiniteSets

CONSTANTS
    Nodes,      \* the nodes that may come to be
    Folders,    \* those of them that are folders; kinds never change
    Reqs,       \* requests in flight at a time
    Root        \* parent_id IS NULL

ASSUME NodeTreeAssumption ==
    /\ IsFiniteSet(Nodes)
    /\ Folders \subseteq Nodes
    /\ Root \notin Nodes

VARIABLES
    status,     \* "absent", "live", or "deleted" (deleted_at)
    parent,     \* parent_id
    req,        \* the requests
    overlap     \* history: a request has written on checks no longer current

vars == <<status, parent, req, overlap>>

-----------------------------------------------------------------------------
(* Requests *)

Steps ==
    [create  |-> <<"folder", "insert">>,
     rename  |-> <<"find", "rename">>,
     move    |-> <<"find", "folder", "descendants", "move">>,
     patch   |-> <<"find", "folder", "descendants", "move", "find", "rename">>,
     delete  |-> <<"find", "delete">>,
     restore |-> <<"find_deleted", "parent", "restore">>]

Statements == {"folder", "insert", "find", "rename", "descendants", "move",
               "delete", "find_deleted", "parent", "restore"}

\* A request slot: the node it is about, the parent asked for, the parent in
\* the row as read, the statements still to be run, and as history whether
\* another request has written since this one began.
Free == [op |-> "none", node |-> Root, to |-> Root, row |-> Root,
         todo |-> <<>>, stale |-> FALSE]

At(r, s) == req[r].todo # <<>> /\ Head(req[r].todo) = s

Onward(q) ==
    LET rest == Tail(q.todo)
    IN  IF rest = <<>> THEN Free ELSE [q EXCEPT !.todo = rest]

\* A check has passed; the request goes on as q.
Passed(r, q) ==
    /\ req' = [req EXCEPT ![r] = Onward(q)]
    /\ UNCHANGED <<status, parent, overlap>>

\* The request has written: the checks of the others are no longer current,
\* and it counts as an overlap if its own were not.  In a request that
\* writes twice, the second half starts anew.
Wrote(r) ==
    /\ overlap' = (overlap \/ req[r].stale)
    /\ req' = [q \in Reqs |->
          IF q = r THEN Onward([req[r] EXCEPT !.stale = FALSE])
          ELSE IF req[q].todo = <<>> THEN req[q]
          ELSE [req[q] EXCEPT !.stale = TRUE]]

-----------------------------------------------------------------------------
(* The statements on the tree *)

Live == {n \in Nodes : status[n] = "live"}
Deleted == {n \in Nodes : status[n] = "deleted"}

\* The nodes of Q below n that are reached through nodes of Q: WITH RECURSIVE
\* over parent_id.
Below(n, Q) ==
    {m \in Q : \A S \in SUBSET Nodes :
        (\A c \in Q : parent[c] \in S \cup {n} => c \in S) => m \in S}

\* The recursion of UNION ALL ends, unless n is on a cycle.
Ends(n, Q) == n \notin Below(n, Q)

Init ==
    /\ status = [n \in Nodes |-> "absent"]
    /\ parent = [n \in Nodes |-> Root]
    /\ req = [r \in Reqs |-> Free]
    /\ overlap = FALSE

Begin(r, op, n, to) ==
    /\ req[r].todo = <<>>
    /\ req' = [req EXCEPT ![r] =
          [Free EXCEPT !.op = op, !.node = n, !.to = to, !.todo = Steps[op]]]
    /\ UNCHANGED <<status, parent, overlap>>

\* A new node gets an id of its own.
BeginCreate(r, n, to) ==
    /\ status[n] = "absent" /\ to # n
    /\ \A q \in Reqs : req[q].op = "create" => req[q].node # n
    /\ Begin(r, "create", n, to)

BeginUpdate(r, op, n, to) ==
    /\ op \in {"rename", "move", "patch", "delete", "restore"}
    /\ status[n] # "absent"
    /\ (op \notin {"move", "patch"} => to = Root)
    /\ to # n
    /\ Begin(r, op, n, to)

\* requireActiveNode
Find(r) ==
    /\ At(r, "find")
    /\ req[r].node \in Live
    /\ Passed(r, [req[r] EXCEPT !.row = parent[req[r].node]])

\* (mutant) the parent's kind is not looked at
SuitableLive(p) == p = Root \/ p \in Live

\* (mutant) only the parent's kind is looked at
SuitableFolder(p) == p = Root \/ p \in Folders

Suitable(p) == p = Root \/ p \in Live \cap Folders

\* The new parent is a live folder, or none is asked for.
Folder(r) ==
    /\ At(r, "folder")
    /\ Suitable(req[r].to)
    /\ Passed(r, req[r])

\* (mutant) the descendants of the wrong node are looked at
NotAbove(n, to) == n \notin Below(to, Live)

NotUnder(n, to) == to \notin Below(n, Live)

\* GetDescendantIDs
Descendants(r) ==
    /\ At(r, "descendants")
    /\ \/ req[r].to = Root
       \/ Ends(req[r].node, Live) /\ NotUnder(req[r].node, req[r].to)
    /\ Passed(r, req[r])

Insert(r) ==
    /\ At(r, "insert")
    /\ status' = [status EXCEPT ![req[r].node] = "live"]
    /\ parent' = [parent EXCEPT ![req[r].node] = req[r].to]
    /\ Wrote(r)

\* (mutant) deleted nodes are updated, too
UpdatableAny(n) == status[n] # "absent"

Updatable(n) == n \in Live

\* NodeRepo.Update, which writes the parent whatever the caller is after.
Update(r, p) ==
    /\ Updatable(req[r].node)
    /\ parent' = [parent EXCEPT ![req[r].node] = p]
    /\ Wrote(r)
    /\ UNCHANGED status

Move(r) == At(r, "move") /\ Update(r, req[r].to)

Rename(r) == At(r, "rename") /\ Update(r, req[r].row)

\* (mutant) the children go, but not theirs
CascadeChildren(n) == {n} \cup {c \in Live : parent[c] = n}

Cascade(n) == {n} \cup Below(n, Live)

\* SoftDelete, one statement for the whole subtree
Delete(r) ==
    LET n == req[r].node IN
    /\ At(r, "delete")
    /\ n \in Live /\ Ends(n, Live)
    /\ status' = [m \in Nodes |-> IF m \in Cascade(n) THEN "deleted" ELSE status[m]]
    /\ Wrote(r)
    /\ UNCHANGED parent

FindDeleted(r) ==
    /\ At(r, "find_deleted")
    /\ req[r].node \in Deleted
    /\ Passed(r, [req[r] EXCEPT !.row = parent[req[r].node]])

\* (mutant) the parent need not be live
ParentAny(p) == p = p

ParentActive(p) == p = Root \/ p \in Live

\* ensureParentActiveForRestore
Parent(r) ==
    /\ At(r, "parent")
    /\ ParentActive(req[r].row)
    /\ Passed(r, req[r])

\* Restore, which brings back what was deleted before the node itself, too
Restore(r) ==
    LET n == req[r].node IN
    /\ At(r, "restore")
    /\ n \in Deleted /\ Ends(n, Deleted)
    /\ status' = [m \in Nodes |->
          IF m = n \/ m \in Below(n, Deleted) THEN "live" ELSE status[m]]
    /\ Wrote(r)
    /\ UNCHANGED parent

\* A check or a permission fails, a query does not end or its client has gone.
Abort(r) ==
    /\ req[r].todo # <<>>
    /\ req' = [req EXCEPT ![r] = Free]
    /\ UNCHANGED <<status, parent, overlap>>

-----------------------------------------------------------------------------
(* The specification *)

Check(r) ==
    Find(r) \/ Folder(r) \/ Descendants(r) \/ FindDeleted(r) \/ Parent(r)

Write(r) == Insert(r) \/ Move(r) \/ Rename(r) \/ Delete(r) \/ Restore(r)

Next ==
    \E r \in Reqs :
        \/ \E n \in Nodes, to \in Nodes \cup {Root} :
              \/ BeginCreate(r, n, to)
              \/ \E op \in DOMAIN Steps : BeginUpdate(r, op, n, to)
        \/ Check(r) \/ Write(r) \/ Abort(r)

Spec == Init /\ [][Next]_vars

-----------------------------------------------------------------------------
(* Safety *)

Requests ==
    [op : DOMAIN Steps \cup {"none"}, node : Nodes \cup {Root},
     to : Nodes \cup {Root}, row : Nodes \cup {Root},
     todo : Seq(Statements), stale : BOOLEAN]

\* The variables have their types, and a parent_id refers to a row.
TypeOK ==
    /\ status \in [Nodes -> {"absent", "live", "deleted"}]
    /\ parent \in [Nodes -> Nodes \cup {Root}]
    /\ req \in [Reqs -> Requests]
    /\ overlap \in BOOLEAN
    /\ \A n \in Nodes : parent[n] # Root => status[parent[n]] # "absent"

\* No node is its own ancestor, deleted nodes included: no set of nodes has
\* all its parents among itself.
Acyclic ==
    \A S \in SUBSET Nodes : S # {} => \E n \in S : parent[n] \notin S

\* What can be seen hangs from what can be seen: each node that is not
\* deleted has a parent that is not, or none.
LiveParents == \A n \in Live : parent[n] = Root \/ parent[n] \in Live

\* The tree stays a tree as long as no request writes on checks that another
\* request has overtaken: with the locks that docs/epics/nodetree.md:159 asks
\* for, the checks of the code would be enough.
TreeUnlessOverlap == overlap \/ (Acyclic /\ LiveParents)

\* Nodes are only ever in folders, however the requests interleave.
OnlyInFolders == \A n \in Nodes : parent[n] = Root \/ parent[n] \in Folders

\* A node in the trash is left where it is, even by a request that has found
\* it before it was deleted; it comes back in the place it was deleted from.
TrashUntouched ==
    [][\A n \in Nodes : status[n] = "deleted" => parent'[n] = parent[n]]_vars

-----------------------------------------------------------------------------
(* What the documents say and the code does not do *)

\* A node is never moved under itself or a descendant
\* (docs/epics/nodetree.md:156).
NeverUnderItself == Acyclic
=============================================================================

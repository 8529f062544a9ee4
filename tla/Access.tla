------------------------------- MODULE Access -------------------------------
(***************************************************************************)
(* Who may do what: groups, their members, the permission rows of nodes    *)
(* (GroupService, PermissionService and their repositories), and how a     *)
(* permission is resolved from them.                                       *)
(*                                                                         *)
(* A request runs its statements one after another, each a step here; what *)
(* the code does in one transaction becomes visible in one step.  The tree *)
(* and the roles stand still: NodeTree and Sessions move them.  A manager  *)
(* may call every operation, so who calls is left out; names of groups     *)
(* are, too, and a name that is taken is one reason to end early.          *)
(***************************************************************************)
EXTENDS Naturals, Sequences, FiniteSets, Functions

CONSTANTS
    Users,
    Managers,   \* the users whose role is manager
    Groups,     \* the groups that may come to be
    Nodes,      \* the nodes
    Ancestry,   \* a node, its parent, and on to the root, as far as all live
    Entries,    \* the lists of entries that are put on a node, by subject
    Reqs,       \* requests in flight at a time
    None        \* no user, group or node

Levels == {"none", "readable", "edit", "manage"}

\* The rows of a node: a level for each subject there is a row of.
Grants == {<<>>} \cup UNION {[S -> Levels] : S \in SUBSET (Users \cup Groups)}

ASSUME AccessAssumption ==
    /\ Managers \subseteq Users
    /\ Users \cap Groups = {}
    /\ None \notin Users \cup Groups \cup Nodes
    /\ Ancestry \in [Nodes -> Seq(Nodes)]
    /\ Entries \subseteq Grants

VARIABLES
    leader,     \* leader_id, None without a row in groups
    members,    \* group_members
    rows,       \* node_permissions: what each node grants
    req,        \* the requests
    used,       \* history: the groups there have been; ids are not used twice
    overlap     \* history: a request has written on checks no longer current

vars == <<leader, members, rows, req, used, overlap>>

-----------------------------------------------------------------------------
(* Requests *)

Steps ==
    [create  |-> <<"insert">>,
     rename  |-> <<"find", "update">>,
     change  |-> <<"find", "is_member", "add", "update">>,
     add     |-> <<"find", "add">>,
     remove  |-> <<"find", "remove">>,
     delete  |-> <<"clear", "drop">>,
     set     |-> <<"replace">>,
     resolve |-> <<"ancestors", "groups">>]

Statements == {"insert", "find", "update", "is_member", "add", "remove",
               "clear", "drop", "replace", "ancestors", "groups"}

\* A request slot: what the request is about, what it has read, and the
\* statements still to be run.
\*   user    the member, the leader to be written, or who asks
\*   subjects the groups of the entries that are still to be found
\*   nodes   the nodes of the permission rows that the request has locked
\*   entries the entries to be put, or the rows that have been read
\*   answer  the level resolved
\*   stale   history: something the request is about has been changed
Free == [op |-> "none", group |-> None, user |-> None, node |-> None,
         subjects |-> {}, nodes |-> {}, entries |-> <<>>,
         answer |-> "", todo |-> <<>>, stale |-> FALSE]

At(r, s) == req[r].todo # <<>> /\ Head(req[r].todo) = s

\* A request that has an answer stays until the answer has been used.
Onward(q) ==
    LET rest == Tail(q.todo)
    IN  IF rest = <<>> /\ q.answer = "" THEN Free ELSE [q EXCEPT !.todo = rest]

Passed(r, q) ==
    /\ req' = [req EXCEPT ![r] = q]
    /\ UNCHANGED <<leader, members, rows, used, overlap>>

\* What a request is about.
Concerns(q) ==
    CASE q.op = "resolve" -> Groups \cup Range(Ancestry[q.node])
      [] q.op = "set" -> {q.node} \cup (DOMAIN q.entries \cap Groups)
      [] OTHER -> {q.group}

\* The request has changed groups and nodes: what others know of them is no
\* longer current.
Wrote(r, changed) ==
    /\ overlap' = (overlap \/ req[r].stale)
    /\ req' = [q \in Reqs |->
          IF q = r THEN Onward(req[r])
          ELSE [req[q] EXCEPT !.stale =
                   @ \/ (req[q].op # "none" /\ Concerns(req[q]) \cap changed # {})]]

Existing == {g \in Groups : leader[g] # None}

Locked(n) == \E q \in Reqs : n \in req[q].nodes

Init ==
    /\ leader = [g \in Groups |-> None]
    /\ members = [g \in Groups |-> {}]
    /\ rows = [n \in Nodes |-> <<>>]
    /\ req = [r \in Reqs |-> Free]
    /\ used = {}
    /\ overlap = FALSE

Begin(r, q) == req[r].op = "none" /\ Passed(r, [q EXCEPT !.todo = Steps[q.op]])

BeginCreate(r, g, u) ==
    /\ g \notin used
    /\ \A q \in Reqs : req[q].op = "create" => req[q].group # g
    /\ Begin(r, [Free EXCEPT !.op = "create", !.group = g, !.user = u])

\* On a group that does not exist, the first statement fails.
BeginGroup(r, op, g, u) ==
    /\ g \in Existing
    /\ Begin(r, [Free EXCEPT !.op = op, !.group = g, !.user = u])

BeginSet(r, n, e) ==
    /\ DOMAIN e \cap Groups \subseteq Existing
    /\ Begin(r, [Free EXCEPT !.op = "set", !.node = n, !.entries = e,
                             !.subjects = DOMAIN e \cap Groups])

BeginResolve(r, u, n) ==
    Begin(r, [Free EXCEPT !.op = "resolve", !.user = u, !.node = n])

-----------------------------------------------------------------------------
(* Groups *)

Insert(r) ==
    LET g == req[r].group IN
    /\ At(r, "insert")
    /\ leader' = [leader EXCEPT ![g] = req[r].user]
    /\ members' = [members EXCEPT ![g] = {req[r].user}]
    /\ used' = used \cup {g}
    /\ Wrote(r, {g})
    /\ UNCHANGED rows

\* (mutant) the leader can be removed like everyone
RemovableAny(g, u) == g \in Groups

Removable(g, u) == u # leader[g]

\* FindByID and, when a member is to be removed, the check on the row.  The
\* leader is kept as read, unless there is to be another.
Find(r) ==
    LET g == req[r].group IN
    /\ At(r, "find")
    /\ g \in Existing
    /\ req[r].op = "remove" => Removable(g, req[r].user)
    /\ Passed(r, Onward([req[r] EXCEPT !.user = IF @ = None THEN leader[g] ELSE @]))

IsMember(r) ==
    LET q == Onward(req[r]) IN
    /\ At(r, "is_member")
    /\ Passed(r, IF req[r].user \in members[req[r].group] THEN Onward(q) ELSE q)

\* (mutant) group_members does not refer to groups
ReferableAny(g) == g \in used

\* The foreign key of group_members
Referable(g) == g \in Existing

\* ON CONFLICT DO NOTHING
AddMember(r) ==
    LET g == req[r].group IN
    /\ At(r, "add")
    /\ Referable(g)
    /\ members' = [members EXCEPT ![g] = @ \cup {req[r].user}]
    /\ Wrote(r, {g})
    /\ UNCHANGED <<leader, rows, used>>

\* UpdateGroup, which writes the leader whatever the caller is after.
Update(r) ==
    LET g == req[r].group IN
    /\ At(r, "update")
    /\ g \in Existing
    /\ leader' = [leader EXCEPT ![g] = req[r].user]
    /\ Wrote(r, {g})
    /\ UNCHANGED <<members, rows, used>>

Remove(r) ==
    LET g == req[r].group IN
    /\ At(r, "remove")
    /\ req[r].user \in members[g]
    /\ members' = [members EXCEPT ![g] = @ \ {req[r].user}]
    /\ Wrote(r, {g})
    /\ UNCHANGED <<leader, rows, used>>

\* (mutant) the first statement of DeleteGroup is forgotten
RowsNone(g) == {n \in Nodes : g \notin Groups}

RowsOf(g) == {n \in Nodes : g \in DOMAIN rows[n]}

\* DELETE FROM node_permissions, whose rows stay locked, and to others there,
\* until DeleteGroup commits.  It waits for rows that are locked.
Clear(r) ==
    /\ At(r, "clear")
    /\ \A q \in Reqs : req[q].nodes # {} => req[q].group # req[r].group
    /\ Passed(r, Onward([req[r] EXCEPT !.nodes = RowsOf(req[r].group)]))

Drop(r) ==
    LET g == req[r].group IN
    /\ At(r, "drop")
    /\ g \in Existing
    /\ leader' = [leader EXCEPT ![g] = None]
    /\ members' = [members EXCEPT ![g] = {}]
    /\ rows' = [n \in Nodes |->
          IF n \in req[r].nodes THEN Restrict(rows[n], DOMAIN rows[n] \ {g})
          ELSE rows[n]]
    /\ Wrote(r, {g} \cup req[r].nodes)
    /\ UNCHANGED used

-----------------------------------------------------------------------------
(* Permissions *)

\* ensureSubjectExists, one group after another; users do not go away.
FindSubject(r, g) ==
    /\ At(r, "replace")
    /\ g \in req[r].subjects \cap Existing
    /\ Passed(r, [req[r] EXCEPT !.subjects = @ \ {g}])

\* The transaction of SetNodePermissions, which locks the node and waits for
\* rows that are locked.
Replace(r) ==
    LET n == req[r].node IN
    /\ At(r, "replace")
    /\ req[r].subjects = {}
    /\ ~Locked(n)
    /\ rows' = [rows EXCEPT ![n] = req[r].entries]
    /\ Wrote(r, {n} \cup (DOMAIN req[r].entries \cap Groups))
    /\ UNCHANGED <<leader, members, used>>

Rank == [none |-> 0, readable |-> 1, edit |-> 2, manage |-> 3]

\* (mutant) the highest level wins, none or not
HighestOf(levels) == CHOOSE l \in levels : \A k \in levels : Rank[l] >= Rank[k]

\* resolveMatchedPermissionLevel
LevelOf(levels) ==
    IF "none" \in levels THEN "none"
    ELSE CHOOSE l \in levels : \A k \in levels : Rank[l] >= Rank[k]

\* findEffectiveNodeRows: those of the nearest node that has any
EffectiveRows(n) ==
    LET with == {i \in DOMAIN Ancestry[n] : rows[Ancestry[n][i]] # <<>>}
    IN  IF with = {} THEN <<>>
        ELSE rows[Ancestry[n][CHOOSE i \in with : \A j \in with : i <= j]]

\* ResolvePermission has its answer.
Answered(r, level) ==
    Passed(r, [req[r] EXCEPT !.answer = level, !.entries = <<>>, !.todo = <<>>])

\* FindByID for the role and GetAncestorsWithPermissions
ReadAncestors(r) ==
    LET effective == EffectiveRows(req[r].node) IN
    /\ At(r, "ancestors")
    /\ IF req[r].user \in Managers THEN Answered(r, "manage")
       ELSE IF effective = <<>> THEN Answered(r, "none")
       ELSE IF req[r].user \in DOMAIN effective
       THEN Answered(r, LevelOf({effective[req[r].user]}))
       ELSE Passed(r, Onward([req[r] EXCEPT !.entries = effective]))

\* GetGroupIDsByUser
ReadGroups(r) ==
    LET e == req[r].entries
        levels == {e[g] : g \in {h \in DOMAIN e \cap Groups : req[r].user \in members[h]}}
    IN
    /\ At(r, "groups")
    /\ Answered(r, IF levels = {} THEN "none" ELSE LevelOf(levels))

\* The caller is done with the answer, or a check or a statement has failed.
Finish(r) == req[r].op # "none" /\ Passed(r, Free)

-----------------------------------------------------------------------------
(* The specification *)

BeginAny(r) ==
    \/ \E g \in Groups, u \in Users :
          \/ BeginCreate(r, g, u)
          \/ \E op \in {"change", "add", "remove"} : BeginGroup(r, op, g, u)
    \/ \E g \in Groups, op \in {"rename", "delete"} : BeginGroup(r, op, g, None)
    \/ \E n \in Nodes, e \in Entries : BeginSet(r, n, e)
    \/ \E u \in Users, n \in Nodes : BeginResolve(r, u, n)

OfGroups(r) ==
    \/ Insert(r) \/ Find(r) \/ IsMember(r) \/ AddMember(r) \/ Update(r)
    \/ Remove(r) \/ Clear(r) \/ Drop(r)

OfPermissions(r) ==
    \/ \E g \in Groups : FindSubject(r, g)
    \/ Replace(r) \/ ReadAncestors(r) \/ ReadGroups(r)

Next == \E r \in Reqs :
    BeginAny(r) \/ OfGroups(r) \/ OfPermissions(r) \/ Finish(r)

Spec == Init /\ [][Next]_vars

-----------------------------------------------------------------------------
(* Safety *)

Requests ==
    [op : DOMAIN Steps \cup {"none"}, group : Groups \cup {None},
     user : Users \cup {None}, node : Nodes \cup {None},
     subjects : SUBSET Groups, nodes : SUBSET Nodes,
     entries : Grants,
     answer : Levels \cup {""}, todo : Seq(Statements), stale : BOOLEAN]

\* The variables have their types, and members are in groups that exist.
TypeOK ==
    /\ leader \in [Groups -> Users \cup {None}]
    /\ members \in [Groups -> SUBSET Users]
    /\ rows \in [Nodes -> Grants]
    /\ req \in [Reqs -> Requests]
    /\ used \subseteq Groups
    /\ overlap \in BOOLEAN
    /\ \A g \in Groups : leader[g] = None => members[g] = {}

\* A group is led by one of its members, as long as no request writes on what
\* another has changed since it looked (docs/epics/nodetree.md:398: a leader
\* is not removed before there is another).
LeaderIsMember == overlap \/ \A g \in Existing : leader[g] \in members[g]

\* A group that is deleted leaves no permission rows behind, with the same
\* proviso (docs/epics/nodetree.md:548).  A row left behind would cut its node
\* off from the permissions above it.
NoRowsOfGoneGroups ==
    overlap \/ \A n \in Nodes : DOMAIN rows[n] \cap Groups \subseteq Existing

\* The rules D-07a to D-07c of docs/requirements.md: the rows that decide are
\* those of the first node with any; a row of one's own sets aside those of
\* one's groups; none among them forbids; otherwise one of them is enough.
Decides(n, i) ==
    /\ rows[Ancestry[n][i]] # <<>>
    /\ \A j \in 1..(i - 1) : rows[Ancestry[n][j]] = <<>>

Counting(u, m) ==
    {s \in DOMAIN rows[m] :
        s = u \/ (u \notin DOMAIN rows[m] /\ s \in Groups /\ u \in members[s])}

MayAtLeast(u, n, l) ==
    \/ u \in Managers
    \/ \E i \in DOMAIN Ancestry[n] :
          /\ Decides(n, i)
          /\ \E s \in Counting(u, Ancestry[n][i]) : Rank[rows[Ancestry[n][i]][s]] >= Rank[l]
          /\ \A s \in Counting(u, Ancestry[n][i]) : rows[Ancestry[n][i]][s] # "none"

\* An answer of ResolvePermission is the one the rules give, unless a group
\* or a node on the way to the root has been changed since it was asked for.
AnsweredByTheRules ==
    \A r \in Reqs : req[r].answer # "" /\ ~req[r].stale =>
        \A l \in Levels \ {"none"} :
            (Rank[req[r].answer] >= Rank[l]) <=> MayAtLeast(req[r].user, req[r].node, l)
=============================================================================

------------------------------ MODULE Sidebar ------------------------------
(***************************************************************************)
(* The tree of documents in the sidebar: NodeTree.tsx, its branches, its   *)
(* context menu and its inline inputs.  Each open folder is a branch that  *)
(* loads its children by itself; a write of the user reloads one branch    *)
(* when its answer arrives, and what other users write shows only when a   *)
(* branch is loaded again.                                                 *)
(*                                                                         *)
(* A turn of the event loop is one step.  A state update is rendered, and  *)
(* the effects that depend on it run, in a later turn: between the two     *)
(* another answer may arrive.  The backend serves a request in one step.   *)
(* Titles, positions and levels of permission are left out; a refusal is   *)
(* one of the reasons for which a request fails.  Other users create and   *)
(* delete nodes and move documents: a folder is taken to stay in its       *)
(* place, so that it is shown by one branch at most.                       *)
(***************************************************************************)
EXTENDS Naturals, FiniteSets

CONSTANTS
    Nodes,      \* the nodes there are or will be
    Folders,    \* those of them that are folders
    Root,       \* where the nodes without a parent are shown
    None,       \* no node; the parent of a node that is not there yet
    Gone,       \* the parent of a node that has been deleted
    Start,      \* the parents in the beginning
    MaxWrites,  \* BOUND: changes of the tree
    MaxSent     \* BOUND: writes of the user under way at a time

Places == Folders \cup {Root}

ASSUME SidebarAssumption ==
    /\ Folders \subseteq Nodes
    /\ Root \notin Nodes /\ {None, Gone} \cap (Nodes \cup {Root}) = {} /\ None # Gone
    /\ Start \in [Nodes -> Places \cup {None}]
    /\ MaxWrites \in Nat /\ MaxSent \in Nat

VARIABLES
    \* the backend
    parent,     \* where a node is
    clock,      \* how many changes the tree has seen
    \* the page
    expanded,   \* expandedIds
    branch,     \* the branches: what they show, and whether a reload is due
    gets,       \* loads under way whose answer is still wanted
    menu,       \* contextMenu: a node and the branch that showed it
    creating,   \* creatingNode: where
    renaming,   \* renamingNodeId
    writes,     \* writes of the user under way
    \* history
    acked,      \* the latest change of the user's in a place that the page knows of
    behind      \* branches on the page whose place has changed since they were
                \* loaded, by others; or by the user without the page being told;
                \* or by the user who acted on a node where it is no longer

backendVars == <<parent, clock>>
inputVars == <<menu, creating, renaming>>
pastVars == <<acked, behind>>
vars == <<backendVars, expanded, branch, gets, inputVars, writes, pastVars>>

Nothing == [node |-> None, place |-> None]

\* A branch that is not there; asOf is history: the change up to which the
\* backend had come when it answered.
Off == [at |-> "off", nodes |-> {}, due |-> FALSE, asOf |-> 0]

Loading == [Off EXCEPT !.at = "loading"]

Get(p) == [place |-> p, at |-> "sent", nodes |-> {}, asOf |-> 0]

Init ==
    /\ parent = Start /\ clock = 0
    /\ expanded \in SUBSET Folders
    /\ branch = [p \in Places |-> IF p = Root THEN Loading ELSE Off]
    /\ gets = {Get(Root)}
    /\ menu = Nothing /\ creating = None /\ renaming = None
    /\ writes = {}
    /\ acked = [p \in Places |-> 0]
    /\ behind = {}

-----------------------------------------------------------------------------
(* The backend *)

Children(p) == {n \in Nodes : parent[n] = p}

Active(n) == parent[n] \in Places

\* The parent of a new node, or of one that is moved, is the root or active.
Exists(p) == p \in {Root} \cup {n \in Nodes : Active(n)}

\* The nodes deleted with n: those in every set that holds n and, with a
\* folder, what is in it.
Subtree(n) ==
    {x \in Nodes : \A S \in SUBSET Nodes :
        (n \in S /\ \A y \in Nodes : parent[y] \in S => y \in S) => x \in S}

Created(n, p) ==
    /\ parent[n] = None /\ Exists(p)
    /\ parent' = [parent EXCEPT ![n] = p]

Renamed(n) == Active(n) /\ UNCHANGED parent

Deleted(n) ==
    /\ Active(n)
    /\ parent' = [x \in Nodes |-> IF x \in Subtree(n) THEN Gone ELSE parent[x]]

Tick == clock < MaxWrites /\ clock' = clock + 1

\* Somebody else changes the tree.
Elsewhere ==
    /\ Tick
    /\ \E n \in Nodes :
          \/ \E p \in Places : Created(n, p)
          \/ Deleted(n)
          \/ /\ n \notin Folders /\ Active(n)
             /\ \E p \in Places \ {parent[n]} :
                   Exists(p) /\ parent' = [parent EXCEPT ![n] = p]
    /\ behind' = behind \cup
          {p \in Places : branch[p].at # "off" /\ Children(p) # Children(p)'}
    /\ UNCHANGED <<expanded, branch, gets, inputVars, writes, acked>>

\* ListChildren asks for the active nodes with this parent, and not whether the
\* parent is active: a folder that has been deleted loads as an empty one.
ServeGet(g) ==
    /\ g \in gets /\ g.at = "sent"
    /\ gets' = (gets \ {g}) \cup
          {[g EXCEPT !.at = "ok", !.nodes = Children(g.place), !.asOf = clock]}
    /\ behind' = behind \ {g.place}
    /\ UNCHANGED <<backendVars, expanded, branch, inputVars, writes, acked>>

Serve(w) ==
    /\ w \in writes /\ w.at = "sent"
    /\ Tick
    /\ \/ w.kind = "create" /\ Created(w.node, w.place)
       \/ w.kind = "rename" /\ Renamed(w.node)
       \/ w.kind = "delete" /\ Deleted(w.node)
    /\ writes' = (writes \ {w}) \cup {[w EXCEPT !.at = "ok", !.asOf = clock + 1]}
    /\ behind' = behind \cup
          {p \in Places \ {w.place} : branch[p].at # "off" /\ w.node \in Children(p)}
    /\ UNCHANGED <<expanded, branch, gets, inputVars, acked>>

-----------------------------------------------------------------------------
(* Branches *)

\* The branches on the page: the root's, and those of the expanded folders
\* that a branch on the page shows.
OnPage(b, e) ==
    {p \in Places : \A S \in SUBSET Places :
        (Root \in S /\ \A q \in S : b[q].at = "shown" => b[q].nodes \cap e \cap Folders \subseteq S)
            => p \in S}

\* (mutant) an effect that is cleaned up still takes its answer
StillWanted(P) == gets

\* The loads that are left when the effects of the branches P are cleaned up:
\* with mounted = false, an answer changes nothing.
Wanted(P) == {g \in gets : g.place \notin P}

\* The page is rendered with the branches b and the expanded folders e:
\* branches that are new load, and the effects of those that go, or that are
\* to reload, are cleaned up.
Render(b, e, again, done) ==
    LET on == OnPage(b, e)
        new == {p \in on : b[p].at = "off"} \cup again
    IN  /\ expanded' = e
        /\ branch' = [p \in Places |->
              IF p \notin on THEN Off
              ELSE IF p \in new THEN [b[p] EXCEPT !.at = "loading", !.due = FALSE]
              ELSE b[p]]
        /\ behind' = behind \cap on
        /\ gets' = (Wanted(new \cup (Places \ on)) \ done) \cup {Get(p) : p \in new}

Shown(n, p) == branch[p].at = "shown" /\ n \in branch[p].nodes

\* An inline input has the focus.  Whatever else the user turns to, the input
\* loses it first, which confirms what it holds.  (The input of a new node is
\* shown by the branch it will be in; a reload takes an input away with what
\* was typed, without a blur, and brings it back as it was in the beginning.)
InputShown ==
    \/ creating # None /\ branch[creating].at = "shown"
    \/ \E p \in Places : Shown(renaming, p)

\* (mutant) loading is reset when the load succeeds
LoadedIfOk(b, g, ok) ==
    IF ok THEN [b EXCEPT !.at = "shown", !.nodes = g.nodes, !.asOf = g.asOf] ELSE b

\* (mutant) a load that fails is taken for an empty folder
LoadedEmpty(b, g, ok) ==
    IF ok THEN [b EXCEPT !.at = "shown", !.nodes = g.nodes, !.asOf = g.asOf]
    ELSE [b EXCEPT !.at = "shown", !.nodes = {}]

\* loadNodes, after its await.
Loaded(b, g, ok) ==
    IF ok THEN [b EXCEPT !.at = "shown", !.nodes = g.nodes, !.asOf = g.asOf]
    ELSE [b EXCEPT !.at = "failed", !.nodes = {}]

\* The answer is there, or the request was refused, or one of them lost.
AnswerGet(g) ==
    /\ g \in gets
    /\ \E ok \in BOOLEAN :
          /\ ok => g.at = "ok"
          /\ Render([branch EXCEPT ![g.place] = Loaded(@, g, ok)], expanded, {}, {g})
    /\ UNCHANGED <<backendVars, inputVars, writes, acked>>

\* The effect of a branch whose refreshKey has changed.  (The state keeps the
\* children, but no one sees them again.)
Reload(p) ==
    /\ branch[p].due
    /\ Render([branch EXCEPT ![p].at = "loading", ![p].nodes = {}], expanded, {p}, {})
    /\ UNCHANGED <<backendVars, inputVars, writes, acked>>

Toggle(f) ==
    /\ ~InputShown
    /\ \E p \in Places : Shown(f, p)
    /\ Render(branch, IF f \in expanded THEN expanded \ {f} ELSE expanded \cup {f}, {}, {})
    /\ UNCHANGED <<backendVars, inputVars, writes, acked>>

-----------------------------------------------------------------------------
(* The menu and the inputs *)

OpenMenu(n, p) ==
    /\ menu = Nothing
    /\ Shown(n, p)
    /\ ~InputShown
    /\ menu' = [node |-> n, place |-> p]
    /\ UNCHANGED <<backendVars, expanded, branch, gets, creating, renaming, writes, pastVars>>

CloseMenu ==
    /\ menu # Nothing
    /\ menu' = Nothing
    /\ UNCHANGED <<backendVars, expanded, branch, gets, creating, renaming, writes, pastVars>>

\* (mutant) the kind of the node is not looked at
HoldsAny(n) == n \in Nodes

Holds(n) == n \in Folders

\* In the folder of the menu, whether or not it is still shown, or in the root.
\* (The menu beside the nodes has nothing that can change while it is open.)
BeginCreate ==
    /\ ~InputShown
    /\ \/ /\ Holds(menu.node)
          /\ creating' = menu.node
          /\ Render(branch, expanded \cup {menu.node}, {}, {})
       \/ /\ menu = Nothing
          /\ creating' = Root
          /\ UNCHANGED <<expanded, branch, gets, behind>>
    /\ menu' = Nothing /\ renaming' = None
    /\ UNCHANGED <<backendVars, writes, acked>>

BeginRename ==
    /\ menu.node \in Nodes /\ ~InputShown
    /\ renaming' = menu.node
    /\ menu' = Nothing /\ creating' = None
    /\ UNCHANGED <<backendVars, expanded, branch, gets, writes, pastVars>>

Send(k, n, p) ==
    /\ Cardinality(writes) < MaxSent
    /\ writes' = writes \cup {[kind |-> k, node |-> n, place |-> p, at |-> "sent", asOf |-> 0]}

ConfirmCreate(n) ==
    /\ creating # None /\ branch[creating].at = "shown"
    /\ parent[n] = None
    /\ Send("create", n, creating)
    /\ creating' = None
    /\ UNCHANGED <<backendVars, expanded, branch, gets, menu, renaming, pastVars>>

ConfirmRename ==
    /\ \E p \in Places :
          /\ Shown(renaming, p)
          /\ Send("rename", renaming, p)
    /\ renaming' = None
    /\ UNCHANGED <<backendVars, expanded, branch, gets, menu, creating, pastVars>>

CancelInput ==
    /\ InputShown
    /\ creating' = None /\ renaming' = None
    /\ UNCHANGED <<backendVars, expanded, branch, gets, menu, writes, pastVars>>

Delete ==
    /\ menu.node \in Nodes /\ ~InputShown
    /\ Send("delete", menu.node, menu.place)
    /\ menu' = Nothing /\ creating' = None
    /\ renaming' = IF renaming = menu.node THEN None ELSE renaming
    /\ Render(branch, expanded \ {menu.node}, {}, {})
    /\ UNCHANGED <<backendVars, acked>>

\* (mutant) the branch of the node itself is reloaded
ReloadedBelow(w) == {w.node} \cap Places

\* refreshBranch: the branch in which the node was shown.
Reloaded(w) == {w.place}

\* The answer to a write.  One that fails - it is refused, or lost, or its
\* answer is - is passed over in silence.
Answer(w) ==
    /\ w \in writes
    /\ writes' = writes \ {w}
    /\ \/ /\ w.at = "ok"
          /\ branch' = [p \in Places |->
                IF p \in Reloaded(w) /\ branch[p].at # "off"
                THEN [branch[p] EXCEPT !.due = TRUE] ELSE branch[p]]
          /\ acked' = [acked EXCEPT ![w.place] = IF w.asOf > @ THEN w.asOf ELSE @]
          /\ UNCHANGED behind
       \/ /\ behind' = behind \cup
                {p \in {w.place} \cup {f \in Folders : parent[f] = Gone} :
                    w.at = "ok" /\ branch[p].at # "off"}
          /\ UNCHANGED <<branch, acked>>
    /\ UNCHANGED <<backendVars, expanded, gets, inputVars>>

-----------------------------------------------------------------------------
(* The specification *)

UserNext ==
    \/ \E f \in Folders : Toggle(f)
    \/ \E n \in Nodes, p \in Places : OpenMenu(n, p)
    \/ CloseMenu \/ BeginCreate \/ BeginRename \/ CancelInput
    \/ \E n \in Nodes : ConfirmCreate(n)
    \/ ConfirmRename \/ Delete

Next ==
    \/ \E g \in gets : ServeGet(g) \/ AnswerGet(g)
    \/ \E p \in Places : Reload(p)
    \/ UserNext
    \/ \E w \in writes : Serve(w) \/ Answer(w)
    \/ Elsewhere

Spec == Init /\ [][Next]_vars

-----------------------------------------------------------------------------
(* Safety *)

Items == [node : Nodes \cup {None}, place : Places \cup {None}]

\* The variables have their types.
TypeOK ==
    /\ parent \in [Nodes -> Places \cup {None, Gone}]
    /\ clock \in 0..MaxWrites
    /\ expanded \subseteq Folders
    /\ branch \in [Places -> [at : {"off", "loading", "shown", "failed"}, nodes : SUBSET Nodes,
                              due : BOOLEAN, asOf : 0..clock]]
    /\ gets \subseteq [place : Places, at : {"sent", "ok"}, nodes : SUBSET Nodes,
                       asOf : 0..clock]
    /\ menu \in Items /\ renaming \in Nodes \cup {None}
    /\ creating \in Places \cup {None}
    /\ writes \subseteq [kind : {"create", "rename", "delete"}, node : Nodes, place : Places,
                         at : {"sent", "ok"}, asOf : 0..clock]
    /\ acked \in [Places -> 0..clock]
    /\ behind \subseteq Places

\* A branch says that it is loading for as long as there is a load whose answer
\* it takes, and takes no answer else: it neither waits for nothing, nor is it
\* overwritten by an earlier load, or by one of a branch that has gone.
LoadingIsAwaited ==
    \A p \in Places :
        Cardinality({g \in gets : g.place = p}) = IF branch[p].at = "loading" THEN 1 ELSE 0

\* What the user has done shows: a branch that is not waiting to be loaded
\* shows the tree as it was after every change in it that the page has been
\* told of, whatever loads of the branch were under way by then.
OwnWritesShown ==
    \A p \in Places :
        branch[p].at = "shown" /\ ~branch[p].due => branch[p].asOf >= acked[p]

Quiet == gets = {} /\ writes = {} /\ \A p \in Places : ~branch[p].due

\* When nothing is under way, each branch on the page shows the children its
\* place has, unless another user has changed them or the answer to a write
\* was lost: no write of the user's leaves a branch stale that it does not
\* reload.  And a folder that has been deleted, which ListChildren answers for
\* as for an empty one, is open only where the branch that shows it is such a
\* branch: it does not outlive a deletion the page has been told of.
QuietIsTrue ==
    Quiet => \A p \in Places : branch[p].at = "shown" =>
                /\ p \notin behind => branch[p].nodes = Children(p)
                /\ ~Exists(p) => \E q \in behind : Shown(p, q)

\* While a branch stays on the page, it never goes back to an older state of
\* the tree.
NeverBackwards ==
    [][\A p \in Places :
          branch[p].at # "off" /\ branch'[p].at # "off" => branch'[p].asOf >= branch[p].asOf]_vars

=============================================================================

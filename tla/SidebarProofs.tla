--------------------------- MODULE SidebarProofs ---------------------------
(***************************************************************************)
(* Proofs about Sidebar for any set of nodes and folders, any tree in the  *)
(* beginning, and any number of changes and of writes under way.           *)
(***************************************************************************)
EXTENDS Sidebar, FiniteSetTheorems, TLAPS

(***************************************************************************)
(* The inductive invariant.  A branch loads exactly while there is a load  *)
(* for it; an answer on its way is newer than what its branch shows and    *)
(* than what the page has been told of; a folder is held by the branch of  *)
(* its place alone.  What is left is the staleness that a write of the     *)
(* user leaves behind: a branch the page has not been told of yet, and     *)
(* what is shown below such a branch.                                      *)
(***************************************************************************)

\* What the menu is open on was shown by a branch.
MenuInv == menu = Nothing \/ menu \in [node : Nodes, place : Places]

\* Branches on the page, and loads only for those that say so.
PageInv ==
    /\ \A p \in Places : branch[p].at # "off" => p \in OnPage(branch, expanded)
    /\ \A p \in Places : branch[p].due => branch[p].at # "off"
    /\ \A p \in Places : branch[p].at = "loading" <=> \E g \in gets : g.place = p
    /\ \A g, h \in gets : g.place = h.place => g = h

\* An answer is not older than what it is to replace, nor, unless a reload is
\* due, than what the page has been told of.
FreshInv ==
    \A g \in gets : g.at = "ok" =>
        /\ g.asOf >= branch[g.place].asOf
        /\ branch[g.place].due \/ g.asOf >= acked[g.place]

\* The branch p holds node c, or a load of it does.
Held(p, c) == c \in branch[p].nodes \/ \E g \in gets : g.place = p /\ c \in g.nodes

\* Where a folder is held, there it is or was; and only one branch holds it.
HomeInv ==
    /\ \A p \in Places, c \in Folders : Held(p, c) => parent[c] \in {p, Gone}
    /\ \A p, q \in Places, c \in Folders : Held(p, c) /\ Held(q, c) => p = q
    /\ menu.node \in Folders => parent[menu.node] \in {menu.place, Gone}
    /\ \A w \in writes : w.kind = "delete" /\ w.node \in Folders =>
                            parent[w.node] \in {w.place, Gone}

\* The branch is to be reloaded, or will be when the answer to a write arrives.
Covered(p) == branch[p].due \/ \E w \in writes : w.at = "ok" /\ w.place = p

\* What stays on the page when the covered branches are reloaded.
Uncovered == [p \in Places |-> IF Covered(p) THEN Off ELSE branch[p]]

Firm == OnPage(Uncovered, expanded)

\* The nodes N that a branch shows, or is about to, are not those of its place.
StaleBy(p, N) ==
    /\ N # Children(p)
    /\ p \notin behind
    /\ ~Covered(p)

\* Such a branch is that of a deleted folder, below a covered one.
StaleInv ==
    \A p \in Places :
        \/ branch[p].at = "shown" /\ StaleBy(p, branch[p].nodes)
        \/ \E g \in gets : g.place = p /\ g.at = "ok" /\ StaleBy(p, g.nodes)
        => p \in Folders /\ parent[p] = Gone /\ p \notin Firm

IInv == TypeOK /\ MenuInv /\ PageInv /\ FreshInv /\ OwnWritesShown /\ HomeInv /\ StaleInv

-----------------------------------------------------------------------------
(* The branches on the page: the smallest set that holds the root's and,   *)
(* with a branch that is shown, those of the expanded folders in it.       *)

Closed(S, b, e) ==
    Root \in S /\ \A q \in S : b[q].at = "shown" => b[q].nodes \cap e \cap Folders \subseteq S

\* The branches on the page are such a set,
LEMMA OnPageClosed ==
  ASSUME NEW b, NEW e
  PROVE  OnPage(b, e) \subseteq Places /\ Closed(OnPage(b, e), b, e)
<1>1. OnPage(b, e) \subseteq Places
  BY DEF OnPage
<1>2. Root \in OnPage(b, e)
  BY DEF OnPage, Places
<1>3. ASSUME NEW q \in OnPage(b, e), b[q].at = "shown", NEW c \in b[q].nodes \cap e \cap Folders
      PROVE  c \in OnPage(b, e)
  <2>1. ASSUME NEW S \in SUBSET Places, Closed(S, b, e) PROVE c \in S
    <3>1. q \in S
      BY <2>1 DEF OnPage, Closed
    <3>2. QED
      BY <1>3, <2>1, <3>1 DEF Closed
  <2>2. QED
    BY <2>1 DEF OnPage, Closed, Places
<1>4. QED
  BY <1>1, <1>2, <1>3 DEF Closed

\* and they are in every other.
LEMMA OnPageLeast ==
  ASSUME NEW b, NEW e, NEW S, Closed(S, b, e)
  PROVE  OnPage(b, e) \subseteq S
<1> DEFINE T == S \cap Places
<1>1. T \in SUBSET Places
  OBVIOUS
<1>2. Root \in T
  BY DEF Closed, Places
<1>3. \A q \in T : b[q].at = "shown" => b[q].nodes \cap e \cap Folders \subseteq T
  BY DEF Closed, Places
<1>4. OnPage(b, e) \subseteq T
  BY <1>1, <1>2, <1>3 DEF OnPage
<1>5. QED
  BY <1>4

\* The branches on the page are the same, or fewer, when fewer are shown.
LEMMA OnPageShrinks ==
  ASSUME NEW b, NEW e, NEW b2, NEW e2,
         \A q \in OnPage(b, e) : b2[q].at = "shown" =>
            /\ b[q].at = "shown"
            /\ b2[q].nodes \cap e2 \cap Folders \subseteq b[q].nodes \cap e \cap Folders
  PROVE  OnPage(b2, e2) \subseteq OnPage(b, e)
<1>1. Closed(OnPage(b, e), b2, e2)
  BY OnPageClosed DEF Closed
<1>2. QED
  BY <1>1, OnPageLeast

\* A branch on the page, but the root's, is shown by another.
LEMMA OnPageShower ==
  ASSUME NEW b, NEW e, NEW p \in OnPage(b, e), p # Root
  PROVE  \E q \in OnPage(b, e) : b[q].at = "shown" /\ p \in b[q].nodes \cap e \cap Folders
<1> SUFFICES ASSUME ~\E q \in OnPage(b, e) : b[q].at = "shown" /\ p \in b[q].nodes \cap e \cap Folders
             PROVE  FALSE
  OBVIOUS
<1>1. Closed(OnPage(b, e) \ {p}, b, e)
  BY OnPageClosed DEF Closed
<1>2. QED
  BY <1>1, OnPageLeast

\* A branch that stops being shown stays on the page itself.
LEMMA OnPageStays ==
  ASSUME NEW b, NEW e, NEW b2, NEW p \in OnPage(b, e),
         \A q \in Places \ {p} : b2[q] = b[q]
  PROVE  p \in OnPage(b2, e)
<1> SUFFICES ASSUME p \notin OnPage(b2, e) PROVE FALSE
  OBVIOUS
<1>1. Closed(OnPage(b2, e), b, e)
  BY OnPageClosed DEF Closed
<1>2. QED
  BY <1>1, OnPageLeast

-----------------------------------------------------------------------------
(* What is deleted with a node.                                            *)
\* They are the node, what is in them, and nothing else.
LEMMA SubtreeFacts ==
  ASSUME NEW n \in Nodes
  PROVE  /\ Subtree(n) \subseteq Nodes /\ n \in Subtree(n)
         /\ \A y \in Nodes : parent[y] \in Subtree(n) => y \in Subtree(n)
         /\ \A x \in Subtree(n) : x = n \/ parent[x] \in Subtree(n)
<1>1. Subtree(n) \subseteq Nodes
  BY DEF Subtree
<1>2. n \in Subtree(n)
  BY DEF Subtree
<1>3. ASSUME NEW y \in Nodes, parent[y] \in Subtree(n) PROVE y \in Subtree(n)
  <2>1. ASSUME NEW S \in SUBSET Nodes, n \in S /\ \A z \in Nodes : parent[z] \in S => z \in S
        PROVE  y \in S
    BY <1>3, <2>1 DEF Subtree
  <2>2. QED
    BY <2>1 DEF Subtree
<1>4. ASSUME NEW x \in Subtree(n), x # n, parent[x] \notin Subtree(n) PROVE FALSE
  <2> DEFINE S == Subtree(n) \ {x}
  <2>1. S \in SUBSET Nodes /\ n \in S
    BY <1>1, <1>2, <1>4
  <2>2. \A y \in Nodes : parent[y] \in S => y \in S
    BY <1>3, <1>4
  <2>3. x \in S
    BY <2>1, <2>2 DEF Subtree
  <2>4. QED
    BY <2>3
<1>5. QED
  BY <1>1, <1>2, <1>3, <1>4

-----------------------------------------------------------------------------
(* Rendering.                                                              *)
Branches(c) == [at : {"off", "loading", "shown", "failed"}, nodes : SUBSET Nodes,
                due : BOOLEAN, asOf : 0..c]

Gets(c) == [place : Places, at : {"sent", "ok"}, nodes : SUBSET Nodes, asOf : 0..c]

Writes(c) == [kind : {"create", "rename", "delete"}, node : Nodes, place : Places,
              at : {"sent", "ok"}, asOf : 0..c]

\* The branches that load when the page is rendered.
Fresh(b, e, again) == {p \in OnPage(b, e) : b[p].at = "off"} \cup again

\* What Render does, branch by branch and load by load.
LEMMA RenderFacts ==
  ASSUME NEW b, NEW e, NEW again \in SUBSET Places, NEW done, gets \subseteq Gets(clock),
         b \in [Places -> Branches(clock)], Render(b, e, again, done)
  PROVE  /\ expanded' = e
         /\ behind' = behind \cap OnPage(b, e)
         /\ DOMAIN branch' = Places
         /\ \A p \in Places : p \notin OnPage(b, e) => branch'[p] = Off
         /\ \A p \in OnPage(b, e) : p \notin Fresh(b, e, again) => branch'[p] = b[p]
         /\ \A p \in OnPage(b, e) : p \in Fresh(b, e, again) =>
               /\ branch'[p] \in Branches(clock)
               /\ branch'[p].at = "loading" /\ ~branch'[p].due
               /\ branch'[p].nodes = b[p].nodes /\ branch'[p].asOf = b[p].asOf
         /\ \A g : g \in gets' <=>
               \/ /\ g \in gets /\ g \notin done
                  /\ g.place \in OnPage(b, e) /\ g.place \notin Fresh(b, e, again)
               \/ \E p \in Fresh(b, e, again) : g = Get(p)
<1> DEFINE on == OnPage(b, e)
           new == Fresh(b, e, again)
<1>1. on \subseteq Places /\ new \subseteq Places
  BY OnPageClosed DEF Fresh
<1>2. /\ expanded' = e
      /\ behind' = behind \cap on
      /\ branch' = [p \in Places |->
              IF p \notin on THEN Off
              ELSE IF p \in new THEN [b[p] EXCEPT !.at = "loading", !.due = FALSE]
              ELSE b[p]]
      /\ gets' = (Wanted(new \cup (Places \ on)) \ done) \cup {Get(p) : p \in new}
  BY DEF Render, Fresh
<1> HIDE DEF on, new
<1>3. ASSUME NEW p \in on, p \in new
      PROVE  /\ branch'[p] \in Branches(clock)
             /\ branch'[p].at = "loading" /\ ~branch'[p].due
             /\ branch'[p].nodes = b[p].nodes /\ branch'[p].asOf = b[p].asOf
  <2>1. b[p] \in Branches(clock) /\ branch'[p] = [b[p] EXCEPT !.at = "loading", !.due = FALSE]
    BY <1>1, <1>2, <1>3
  <2>2. QED
    BY <2>1 DEF Branches
<1>4. \A g : g \in gets' <=>
         \/ g \in gets /\ g \notin done /\ g.place \in on /\ g.place \notin new
         \/ \E p \in new : g = Get(p)
  <2>1. \A g \in gets : g.place \in Places
    BY DEF Gets
  <2>2. QED
    BY <1>2, <2>1 DEF Wanted
<1>5. QED
  BY <1>1, <1>2, <1>3, <1>4 DEF on, new

\* The types of what Render changes.
LEMMA RenderType ==
  ASSUME NEW b, NEW e, NEW again \in SUBSET Places, NEW done, gets \subseteq Gets(clock),
         clock \in Nat, b \in [Places -> Branches(clock)], Render(b, e, again, done)
  PROVE  /\ branch' \in [Places -> Branches(clock)]
         /\ gets' \subseteq Gets(clock)
         /\ behind' \subseteq behind
<1>1. ASSUME NEW p \in Places PROVE branch'[p] \in Branches(clock)
  <2>1. CASE p \notin OnPage(b, e)
    <3>1. branch'[p] = Off
      BY <2>1, RenderFacts
    <3>2. QED
      BY <3>1 DEF Off, Branches
  <2>2. CASE p \in OnPage(b, e)
    BY <2>2, RenderFacts
  <2>3. QED
    BY <2>1, <2>2
<1>2. \A p \in Places : Get(p) \in Gets(clock)
  BY DEF Get, Gets
<1>3. Fresh(b, e, again) \subseteq Places
  BY OnPageClosed DEF Fresh
<1>5. gets' \subseteq Gets(clock)
  BY <1>2, <1>3, RenderFacts
<1>6. branch' \in [Places -> Branches(clock)]
  BY <1>1 DEF Render
<1>7. QED
  BY <1>5, <1>6, RenderFacts

-----------------------------------------------------------------------------
(* The types.                                                              *)
\* The type invariant with its records named.
LEMMA TypeParts ==
  TypeOK <=> /\ parent \in [Nodes -> Places \cup {None, Gone}]
             /\ clock \in 0..MaxWrites
             /\ expanded \subseteq Folders
             /\ branch \in [Places -> Branches(clock)]
             /\ gets \subseteq Gets(clock)
             /\ menu \in Items /\ renaming \in Nodes \cup {None}
             /\ creating \in Places \cup {None}
             /\ writes \subseteq Writes(clock)
             /\ acked \in [Places -> 0..clock]
             /\ behind \subseteq Places
  BY DEF TypeOK, Branches, Gets, Writes

\* The root, the folders and what stands for no place differ.
LEMMA ConstantFacts ==
  /\ Root \in Places /\ Folders \subseteq Places /\ Folders \subseteq Nodes /\ Places \ {Root} = Folders
  /\ Root \notin Nodes /\ Root \notin Folders /\ None # Gone
  /\ None \notin Nodes \cup Places /\ Gone \notin Nodes \cup Places
  /\ MaxWrites \in Nat /\ MaxSent \in Nat /\ Start \in [Nodes -> Places \cup {None}]
<1>1. Folders \subseteq Nodes /\ Root \notin Nodes
  BY SidebarAssumption
<1>2. None \notin Nodes \cup {Root} /\ Gone \notin Nodes \cup {Root}
  BY SidebarAssumption
<1>3. Places \ {Root} = Folders
  BY <1>1 DEF Places
<1>4. QED
  BY <1>1, <1>2, <1>3, SidebarAssumption DEF Places

\* A branch that is not there, and one that is new.
LEMMA OffType == \A c \in Nat : Off \in Branches(c) /\ Loading \in Branches(c)
<1> SUFFICES ASSUME NEW c \in Nat PROVE Off \in Branches(c) /\ Loading \in Branches(c)
  OBVIOUS
<1>1. Off \in Branches(c)
  BY DEF Off, Branches
<1>2. [Off EXCEPT !.at = "loading"] \in Branches(c)
  BY <1>1 DEF Branches
<1>3. Loading \in Branches(c)
  BY <1>2 DEF Loading
<1>4. QED
  BY <1>1, <1>3

\* The types hold in the beginning,
LEMMA TypeInit == Init => TypeOK /\ MenuInv
<1> SUFFICES ASSUME Init PROVE TypeOK /\ MenuInv
  OBVIOUS
<1>1. Root \in Places /\ MaxWrites \in Nat
  BY ConstantFacts
<1>2. Off \in Branches(0) /\ Loading \in Branches(0)
  BY OffType
<1>3. Get(Root) \in Gets(0)
  BY <1>1 DEF Get, Gets
<1>4. Nothing \in Items
  BY DEF Nothing, Items
<1>5. parent \in [Nodes -> Places \cup {None, Gone}] /\ clock = 0
  BY ConstantFacts DEF Init
<1>6. branch \in [Places -> Branches(clock)] /\ gets \subseteq Gets(clock)
  BY <1>2, <1>3, <1>5 DEF Init
<1>7. acked \in [Places -> 0..clock]
  BY <1>5 DEF Init
<1>8. /\ clock \in 0..MaxWrites /\ expanded \subseteq Folders /\ menu \in Items
      /\ renaming \in Nodes \cup {None} /\ creating \in Places \cup {None}
      /\ writes \subseteq Writes(clock) /\ behind \subseteq Places
  BY <1>1, <1>4, <1>5 DEF Init
<1>9. MenuInv
  BY DEF Init, MenuInv
<1>10. QED
  BY <1>5, <1>6, <1>7, <1>8, <1>9, TypeParts

\* What the user does leaves the tree alone; it changes the page only in what
\* is expanded, opens the menu on a node that is shown, and deletes the node of
\* the menu.
UserStep ==
    /\ UNCHANGED <<parent, clock, acked>>
    /\ \/ UNCHANGED <<expanded, branch, gets, behind>>
       \/ \E e \in SUBSET Folders : Render(branch, e, {}, {})
    /\ writes \subseteq writes'
    /\ \A w \in writes' \ writes :
          w.at = "sent" /\ (w.kind = "delete" => w.node = menu.node /\ w.place = menu.place)
    /\ \/ menu' \in {menu, Nothing}
       \/ menu'.place \in Places /\ Shown(menu'.node, menu'.place)

\* Whatever the user does is such a step.
LEMMA UserCases ==
  ASSUME TypeOK, UserNext PROVE UserStep
<1> USE DEF backendVars, inputVars, pastVars
<1>1. ASSUME NEW k, NEW n, NEW p, Send(k, n, p)
      PROVE  /\ writes \subseteq writes'
             /\ \A w \in writes' \ writes : w.at = "sent" /\ w.kind = k /\ w.node = n /\ w.place = p
  BY <1>1 DEF Send
<1>2. ASSUME NEW f \in Folders, Toggle(f) PROVE UserStep
  <2>1. /\ UNCHANGED <<parent, clock, acked, writes, menu>>
        /\ \E e \in SUBSET Folders : Render(branch, e, {}, {})
    BY <1>2 DEF Toggle, TypeOK
  <2>2. QED
    BY <2>1 DEF UserStep
<1>3. ASSUME NEW n \in Nodes, NEW p \in Places, OpenMenu(n, p) PROVE UserStep
  BY <1>3 DEF OpenMenu, UserStep
<1>4. CASE CloseMenu
  BY <1>4 DEF CloseMenu, UserStep
<1>5. CASE BeginCreate
  <2>1. /\ UNCHANGED <<parent, clock, acked, writes>> /\ menu' = Nothing
        /\ \/ UNCHANGED <<expanded, branch, gets, behind>>
           \/ Holds(menu.node) /\ Render(branch, expanded \cup {menu.node}, {}, {})
    BY <1>5 DEF BeginCreate
  <2>2. Holds(menu.node) => expanded \cup {menu.node} \in SUBSET Folders
    BY DEF Holds, TypeOK
  <2>3. QED
    BY <2>1, <2>2 DEF UserStep
<1>6. CASE BeginRename
  BY <1>6 DEF BeginRename, UserStep
<1>7. ASSUME NEW n \in Nodes, ConfirmCreate(n) PROVE UserStep
  <2>1. Send("create", n, creating) /\ UNCHANGED <<parent, clock, acked, expanded, branch, gets, behind, menu>>
    BY <1>7 DEF ConfirmCreate
  <2>2. QED
    BY <1>1, <2>1 DEF UserStep
<1>8. CASE ConfirmRename
  <2>1. /\ UNCHANGED <<parent, clock, acked, expanded, branch, gets, behind, menu>>
        /\ \E p \in Places : Send("rename", renaming, p)
    BY <1>8 DEF ConfirmRename
  <2>2. QED
    BY <1>1, <2>1 DEF UserStep
<1>9. CASE CancelInput
  BY <1>9 DEF CancelInput, UserStep
<1>10. CASE Delete
  <2>1. /\ UNCHANGED <<parent, clock, acked>> /\ menu' = Nothing
        /\ Send("delete", menu.node, menu.place)
        /\ Render(branch, expanded \ {menu.node}, {}, {})
    BY <1>10 DEF Delete
  <2>2. expanded \ {menu.node} \in SUBSET Folders
    BY DEF TypeOK
  <2>3. QED
    BY <1>1, <2>1, <2>2 DEF UserStep
<1>11. QED
  BY <1>2, <1>3, <1>4, <1>5, <1>6, <1>7, <1>8, <1>9, <1>10 DEF UserNext

\* The menu and the inputs keep their types.
LEMMA InputType ==
  ASSUME TypeOK, MenuInv, UserNext
  PROVE  /\ menu' \in Items /\ MenuInv' /\ renaming' \in Nodes \cup {None}
         /\ creating' \in Places \cup {None}
         /\ writes' \subseteq Writes(clock)
<1> USE DEF inputVars, pastVars
<1>1. /\ menu \in Items /\ renaming \in Nodes \cup {None} /\ Nothing \in Items
      /\ creating \in Places \cup {None} /\ writes \subseteq Writes(clock)
      /\ clock \in Nat /\ None \notin Nodes \cup Places /\ Folders \subseteq Places
  BY TypeParts, ConstantFacts DEF Nothing, Items
<1>2. /\ menu.node \in Nodes \cup {None}
      /\ menu.node \in Nodes => menu.place \in Places
  BY <1>1 DEF MenuInv, Nothing
<1>3. ASSUME NEW k \in {"create", "rename", "delete"}, NEW n \in Nodes, NEW p \in Places,
             Send(k, n, p)
      PROVE  writes' \subseteq Writes(clock)
  BY <1>1, <1>3 DEF Send, Writes
<1>4. ASSUME NEW f \in Folders, Toggle(f)
      PROVE  MenuInv' /\ UNCHANGED <<menu, creating, renaming, writes>>
  BY <1>4 DEF Toggle, MenuInv
<1>5. ASSUME NEW n \in Nodes, NEW p \in Places, OpenMenu(n, p)
      PROVE  menu' \in Items /\ MenuInv' /\ UNCHANGED <<creating, renaming, writes>>
  BY <1>5 DEF OpenMenu, Items, MenuInv
<1>6. CASE CloseMenu
  BY <1>1, <1>6 DEF CloseMenu, MenuInv
<1>7. CASE BeginCreate
  <2>1. /\ menu' = Nothing /\ renaming' = None /\ writes' = writes
        /\ creating' = Root \/ (menu.node \in Folders /\ creating' = menu.node)
    BY <1>7 DEF BeginCreate, Holds
  <2>2. creating' \in Places
    BY <1>1, <2>1, ConstantFacts
  <2>3. QED
    BY <1>1, <2>1, <2>2 DEF MenuInv
<1>8. CASE BeginRename
  BY <1>1, <1>8 DEF BeginRename, MenuInv
<1>9. ASSUME NEW n \in Nodes, ConfirmCreate(n)
      PROVE  writes' \subseteq Writes(clock) /\ creating' = None /\ MenuInv' /\ UNCHANGED <<menu, renaming>>
  BY <1>1, <1>3, <1>9 DEF ConfirmCreate, MenuInv
<1>10. CASE ConfirmRename
  <2>1. PICK p \in Places : Shown(renaming, p) /\ Send("rename", renaming, p)
    BY <1>10 DEF ConfirmRename
  <2>2. renaming \in Nodes
    BY <2>1 DEF Shown, TypeOK
  <2>3. QED
    BY <1>1, <1>3, <1>10, <2>1, <2>2 DEF ConfirmRename, MenuInv
<1>11. CASE CancelInput
  BY <1>1, <1>11 DEF CancelInput, MenuInv
<1>12. CASE Delete
  <2>1. menu.node \in Nodes /\ Send("delete", menu.node, menu.place)
    BY <1>12 DEF Delete
  <2>2. writes' \subseteq Writes(clock)
    BY <1>2, <1>3, <2>1
  <2>3. menu' = Nothing /\ creating' = None /\ renaming' \in Nodes \cup {None}
    BY <1>1, <1>12 DEF Delete
  <2>4. QED
    BY <1>1, <2>2, <2>3 DEF MenuInv
<1>13. QED
  BY <1>1, <1>4, <1>5, <1>6, <1>7, <1>8, <1>9, <1>10, <1>11, <1>12 DEF UserNext

\* A branch that a load is to fill, or that is to reload, as it is rendered.
LEMMA FilledType ==
  ASSUME TypeOK, NEW g \in gets, NEW ok \in BOOLEAN
  PROVE  /\ [branch EXCEPT ![g.place] = Loaded(@, g, ok)] \in [Places -> Branches(clock)]
         /\ g.place \in Places
<1>1. branch \in [Places -> Branches(clock)] /\ g \in Gets(clock) /\ clock \in Nat
  BY TypeParts, ConstantFacts
<1>2. g.place \in Places /\ g.nodes \in SUBSET Nodes /\ g.asOf \in 0..clock
  BY <1>1 DEF Gets
<1>3. branch[g.place] \in Branches(clock)
  BY <1>1, <1>2
<1>4. Loaded(branch[g.place], g, ok) \in Branches(clock)
  <2>1. CASE ok
    BY <1>2, <1>3, <2>1 DEF Loaded, Branches
  <2>2. CASE ~ok
    BY <1>2, <1>3, <2>2 DEF Loaded, Branches
  <2>3. QED
    BY <2>1, <2>2
<1>5. QED
  BY <1>1, <1>2, <1>4

\* The branch p with its nodes no longer shown.
Reloading(p) == [branch EXCEPT ![p].at = "loading", ![p].nodes = {}]

\* What such a branch is.
LEMMA ReloadingType ==
  ASSUME TypeOK, NEW p \in Places
  PROVE  /\ Reloading(p) \in [Places -> Branches(clock)]
         /\ Reloading(p)[p].at = "loading" /\ Reloading(p)[p].nodes = {}
         /\ Reloading(p)[p].asOf = branch[p].asOf
         /\ \A q \in Places \ {p} : Reloading(p)[q] = branch[q]
<1>1. branch \in [Places -> Branches(clock)] /\ branch[p] \in Branches(clock)
  BY TypeParts
<1>2. [branch[p] EXCEPT !.at = "loading"] \in Branches(clock)
  BY <1>1 DEF Branches
<1>3. [[branch[p] EXCEPT !.at = "loading"] EXCEPT !.nodes = {}] \in Branches(clock)
  BY <1>2 DEF Branches
<1>4. Reloading(p) = [branch EXCEPT ![p] = [[branch[p] EXCEPT !.at = "loading"] EXCEPT !.nodes = {}]]
  BY <1>1 DEF Reloading, Branches
<1>5. /\ [[branch[p] EXCEPT !.at = "loading"] EXCEPT !.nodes = {}].at = "loading"
      /\ [[branch[p] EXCEPT !.at = "loading"] EXCEPT !.nodes = {}].nodes = {}
      /\ [[branch[p] EXCEPT !.at = "loading"] EXCEPT !.nodes = {}].asOf = branch[p].asOf
  BY <1>1 DEF Branches
<1>6. QED
  BY <1>1, <1>3, <1>4, <1>5

\* The types of what is counted by the clock only grow with it.
LEMMA TypesGrow ==
  ASSUME NEW c \in Nat, NEW d \in Nat, c <= d
  PROVE  /\ Branches(c) \subseteq Branches(d) /\ Gets(c) \subseteq Gets(d)
         /\ Writes(c) \subseteq Writes(d) /\ 0..c \subseteq 0..d
<1>1. 0..c \subseteq 0..d
  OBVIOUS
<1>2. QED
  BY <1>1 DEF Branches, Gets, Writes

\* A change of the tree keeps the type of what it changes.
LEMMA ParentType ==
  ASSUME TypeOK,
         \/ \E n \in Nodes, p \in Places : Created(n, p) \/ parent' = [parent EXCEPT ![n] = p]
         \/ \E n \in Nodes : Renamed(n) \/ Deleted(n)
  PROVE  parent' \in [Nodes -> Places \cup {None, Gone}]
  BY TypeParts DEF Created, Renamed, Deleted

\* and every step keeps them.
LEMMA TypeStep == TypeOK /\ MenuInv /\ [Next]_vars => TypeOK' /\ MenuInv'
<1> SUFFICES ASSUME TypeOK, MenuInv, [Next]_vars PROVE TypeOK' /\ MenuInv'
  OBVIOUS
<1> USE DEF backendVars, inputVars, pastVars
<1>1. /\ parent \in [Nodes -> Places \cup {None, Gone}]
      /\ clock \in 0..MaxWrites /\ clock \in Nat /\ MaxWrites \in Nat
      /\ expanded \subseteq Folders
      /\ branch \in [Places -> Branches(clock)]
      /\ gets \subseteq Gets(clock)
      /\ menu \in Items /\ renaming \in Nodes \cup {None}
      /\ creating \in Places \cup {None}
      /\ writes \subseteq Writes(clock)
      /\ acked \in [Places -> 0..clock]
      /\ behind \subseteq Places
  BY TypeParts, ConstantFacts
<1>2. (/\ parent \in [Nodes -> Places \cup {None, Gone}]
       /\ clock \in 0..MaxWrites
       /\ expanded \subseteq Folders
       /\ branch \in [Places -> Branches(clock)]
       /\ gets \subseteq Gets(clock)
       /\ menu \in Items /\ renaming \in Nodes \cup {None}
       /\ creating \in Places \cup {None}
       /\ writes \subseteq Writes(clock)
       /\ acked \in [Places -> 0..clock]
       /\ behind \subseteq Places)' => TypeOK'
  BY TypeParts, PTL
<1>3. ASSUME NEW b \in [Places -> Branches(clock)], NEW e \in SUBSET Folders,
             NEW again \in SUBSET Places, NEW done, Render(b, e, again, done)
      PROVE  /\ branch' \in [Places -> Branches(clock)]
             /\ gets' \subseteq Gets(clock) /\ behind' \subseteq Places /\ expanded' \subseteq Folders
  <2>1. branch' \in [Places -> Branches(clock)] /\ gets' \subseteq Gets(clock) /\ behind' \subseteq behind
    BY <1>1, <1>3, RenderType
  <2>2. expanded' = e
    BY <1>3 DEF Render
  <2>3. QED
    BY <1>1, <2>1, <2>2
<1>4. ASSUME NEW g \in gets, ServeGet(g) PROVE TypeOK' /\ MenuInv'
  <2> DEFINE h == [g EXCEPT !.at = "ok", !.nodes = Children(g.place), !.asOf = clock]
  <2>1. h \in Gets(clock)
    <3>1. g \in Gets(clock) /\ Children(g.place) \in SUBSET Nodes /\ clock \in 0..clock
      BY <1>1 DEF Children
    <3>2. QED
      BY <3>1 DEF Gets
  <2>2. /\ gets' = (gets \ {g}) \cup {h} /\ behind' = behind \ {g.place}
        /\ UNCHANGED <<parent, clock, expanded, branch, menu, creating, renaming, writes, acked>>
    BY <1>4 DEF ServeGet
  <2> HIDE DEF h
  <2>3. QED
    BY <1>1, <1>2, <2>1, <2>2 DEF MenuInv
<1>5. ASSUME NEW g \in gets, AnswerGet(g) PROVE TypeOK' /\ MenuInv'
  <2>1. PICK ok \in BOOLEAN :
           Render([branch EXCEPT ![g.place] = Loaded(@, g, ok)], expanded, {}, {g})
    BY <1>5 DEF AnswerGet
  <2>2. UNCHANGED <<parent, clock, menu, creating, renaming, writes, acked>>
    BY <1>5 DEF AnswerGet
  <2>3. /\ branch' \in [Places -> Branches(clock)]
        /\ gets' \subseteq Gets(clock) /\ behind' \subseteq Places /\ expanded' \subseteq Folders
    BY <1>1, <1>3, <2>1, FilledType
  <2>4. QED
    BY <1>1, <1>2, <2>2, <2>3 DEF MenuInv
<1>6. ASSUME NEW p \in Places, Reload(p) PROVE TypeOK' /\ MenuInv'
  <2>1. /\ Render(Reloading(p), expanded, {p}, {})
        /\ UNCHANGED <<parent, clock, menu, creating, renaming, writes, acked>>
    BY <1>6 DEF Reload, Reloading
  <2>2. /\ branch' \in [Places -> Branches(clock)]
        /\ gets' \subseteq Gets(clock) /\ behind' \subseteq Places /\ expanded' \subseteq Folders
    BY <1>1, <1>3, <2>1, ReloadingType
  <2>3. QED
    BY <1>1, <1>2, <2>1, <2>2 DEF MenuInv
<1>7. CASE UserNext
  <2>1. UserStep
    BY <1>7, UserCases
  <2>2. UNCHANGED <<parent, clock, acked>>
    BY <2>1 DEF UserStep
  <2>3. /\ branch' \in [Places -> Branches(clock)]
        /\ gets' \subseteq Gets(clock) /\ behind' \subseteq Places /\ expanded' \subseteq Folders
    <3>1. CASE UNCHANGED <<expanded, branch, gets, behind>>
      BY <1>1, <3>1
    <3>2. CASE \E e \in SUBSET Folders : Render(branch, e, {}, {})
      BY <1>1, <1>3, <3>2
    <3>3. QED
      BY <2>1, <3>1, <3>2 DEF UserStep
  <2>4. /\ menu' \in Items /\ MenuInv' /\ renaming' \in Nodes \cup {None}
        /\ creating' \in Places \cup {None}
        /\ writes' \subseteq Writes(clock)
    BY <1>7, InputType
  <2>5. QED
    BY <1>1, <1>2, <2>2, <2>3, <2>4
<1>8. ASSUME Tick PROVE /\ clock' \in 0..MaxWrites /\ clock' \in Nat /\ clock <= clock'
                        /\ branch \in [Places -> Branches(clock')]
                        /\ gets \subseteq Gets(clock')
                        /\ writes \subseteq Writes(clock')
                        /\ acked \in [Places -> 0..clock']
  <2>1. clock' \in 0..MaxWrites /\ clock' \in Nat /\ clock <= clock'
    BY <1>1, <1>8 DEF Tick
  <2>2. /\ Branches(clock) \subseteq Branches(clock') /\ Gets(clock) \subseteq Gets(clock')
        /\ Writes(clock) \subseteq Writes(clock') /\ 0..clock \subseteq 0..clock'
    BY <1>1, <2>1, TypesGrow
  <2>3. QED
    BY <1>1, <2>1, <2>2
<1>9. ASSUME NEW w \in writes, Serve(w) PROVE TypeOK' /\ MenuInv'
  <2> DEFINE v == [w EXCEPT !.at = "ok", !.asOf = clock + 1]
  <2>1. Tick /\ w \in Writes(clock) /\ w.node \in Nodes /\ w.place \in Places
    BY <1>1, <1>9 DEF Serve, Writes
  <2>2. clock' = clock + 1
    BY <2>1 DEF Tick
  <2>3. v \in Writes(clock')
    <3>1. w \in Writes(clock') /\ clock + 1 \in 0..clock'
      BY <1>1, <1>8, <2>1, <2>2
    <3>2. QED
      BY <3>1 DEF Writes
  <2>4. parent' \in [Nodes -> Places \cup {None, Gone}]
    <3>1. \/ Created(w.node, w.place) \/ Renamed(w.node) \/ Deleted(w.node)
      BY <1>9 DEF Serve
    <3>2. QED
      BY <2>1, <3>1, ParentType
  <2>5. /\ writes' = (writes \ {w}) \cup {v} /\ behind' \subseteq Places
        /\ UNCHANGED <<expanded, branch, gets, menu, creating, renaming, acked>>
    BY <1>1, <1>9 DEF Serve
  <2> HIDE DEF v
  <2>6. writes' \subseteq Writes(clock')
    BY <1>8, <2>1, <2>3, <2>5
  <2>7. QED
    BY <1>1, <1>2, <1>8, <2>1, <2>4, <2>5, <2>6 DEF MenuInv
<1>10. ASSUME NEW w \in writes, Answer(w) PROVE TypeOK' /\ MenuInv'
  <2>1. w.place \in Places /\ w.asOf \in 0..clock
    BY <1>1 DEF Writes
  <2>2. /\ UNCHANGED <<parent, clock, expanded, gets, menu, creating, renaming>>
        /\ writes' \subseteq writes
    BY <1>10 DEF Answer
  <2>3. behind' \subseteq Places
    BY <1>1, <1>10, <2>1, ConstantFacts DEF Answer
  <2>4. acked' \in [Places -> 0..clock]
    BY <1>1, <1>10, <2>1 DEF Answer
  <2>5. branch' \in [Places -> Branches(clock)]
    <3>1. \A p \in Places : [branch[p] EXCEPT !.due = TRUE] \in Branches(clock)
      BY <1>1 DEF Branches
    <3>2. \/ branch' = branch
          \/ branch' = [p \in Places |->
                IF p \in Reloaded(w) /\ branch[p].at # "off"
                THEN [branch[p] EXCEPT !.due = TRUE] ELSE branch[p]]
      BY <1>10 DEF Answer
    <3>3. QED
      BY <1>1, <3>1, <3>2
  <2>6. QED
    BY <1>1, <1>2, <2>2, <2>3, <2>4, <2>5 DEF MenuInv
<1>11. CASE Elsewhere
  <2>1. Tick /\ UNCHANGED <<expanded, branch, gets, menu, creating, renaming, writes, acked>>
    BY <1>11 DEF Elsewhere
  <2>2. parent' \in [Nodes -> Places \cup {None, Gone}]
    <3>1. \/ \E n \in Nodes, p \in Places : Created(n, p) \/ parent' = [parent EXCEPT ![n] = p]
          \/ \E n \in Nodes : Renamed(n) \/ Deleted(n)
      BY <1>11 DEF Elsewhere
    <3>2. QED
      BY <3>1, ParentType
  <2>3. behind' \subseteq Places
    BY <1>1, <1>11 DEF Elsewhere
  <2>4. QED
    BY <1>1, <1>2, <1>8, <2>1, <2>2, <2>3 DEF MenuInv
<1>12. CASE UNCHANGED vars
  BY <1>1, <1>2, <1>12 DEF vars, MenuInv
<1>13. QED
  BY <1>4, <1>5, <1>6, <1>7, <1>9, <1>10, <1>11, <1>12 DEF Next

-----------------------------------------------------------------------------
(* The branches on the page and their loads.                               *)

\* What is rendered, b, is a page but for the branches that reload.
PageReady(b, again, done) ==
    /\ \A p \in again : b[p].at # "shown"
    /\ \A p \in Places : b[p].due => b[p].at # "off"
    /\ \A p \in Places \ again : b[p].at = "loading" <=> \E g \in gets : g \notin done /\ g.place = p
    /\ \A g, h \in gets : g.place = h.place => g = h

\* Its answers on their way are new enough, and so is what it shows.
FreshReady(b, again, done) ==
    /\ \A g \in gets : g \notin done /\ g.at = "ok" =>
          g.asOf >= b[g.place].asOf /\ (b[g.place].due \/ g.asOf >= acked[g.place])
    /\ \A p \in Places \ again : b[p].at = "shown" /\ ~b[p].due => b[p].asOf >= acked[p]

\* Rendering keeps them together: what is cleaned up takes no answer, what is
\* new waits for one.
LEMMA RenderPage ==
  ASSUME NEW b \in [Places -> Branches(clock)], NEW e, NEW again \in SUBSET OnPage(b, e), NEW done,
         gets \subseteq Gets(clock), Render(b, e, again, done), PageReady(b, again, done)
  PROVE  PageInv'
<1> DEFINE on == OnPage(b, e)
           new == Fresh(b, e, again)
<1>1. on \subseteq Places /\ new \subseteq on /\ again \subseteq Places /\ Closed(on, b, e)
  BY OnPageClosed DEF Fresh
<1>2. /\ expanded' = e
      /\ \A p \in Places : p \notin on => branch'[p] = Off
      /\ \A p \in on : p \notin new => branch'[p] = b[p]
      /\ \A p \in on : p \in new => branch'[p].at = "loading" /\ ~branch'[p].due
      /\ \A g : g \in gets' <=>
            \/ g \in gets /\ g \notin done /\ g.place \in on /\ g.place \notin new
            \/ \E p \in new : g = Get(p)
  BY <1>1, RenderFacts
<1> USE DEF PageReady
<1>3. \A p \in new : b[p].at = "off" \/ p \in again
  BY DEF Fresh
<1>4. \A p \in Places : Get(p).place = p
  BY DEF Get
<1>5. Off.at = "off" /\ ~Off.due
  BY DEF Off
<1> HIDE DEF on, new
<1>6. ASSUME NEW p \in Places, branch'[p].at # "off" PROVE p \in OnPage(branch', expanded')
  <2> DEFINE S == OnPage(branch', e) \cap on
  <2>1. Closed(OnPage(branch', e), branch', e)
    BY OnPageClosed
  <2>2. Root \in S
    BY <1>1, <2>1 DEF Closed
  <2>3. ASSUME NEW q \in S, b[q].at = "shown" PROVE b[q].nodes \cap e \cap Folders \subseteq S
    <3>1. q \notin new
      BY <1>3, <2>3
    <3>2. branch'[q] = b[q]
      BY <1>2, <2>3, <3>1
    <3>3. QED
      BY <1>1, <2>1, <2>3, <3>2 DEF Closed
  <2>4. on \subseteq S
    BY <2>2, <2>3, OnPageLeast DEF Closed, on
  <2>5. p \in on
    BY <1>2, <1>5, <1>6
  <2>6. QED
    BY <1>2, <2>4, <2>5
<1>7. ASSUME NEW p \in Places, branch'[p].due PROVE branch'[p].at # "off"
  BY <1>2, <1>5, <1>7
<1>8. ASSUME NEW p \in Places PROVE branch'[p].at = "loading" <=> \E g \in gets' : g.place = p
  <2>1. CASE p \notin on
    BY <1>1, <1>2, <1>4, <1>5, <2>1
  <2>2. CASE p \in new
    BY <1>1, <1>2, <1>4, <2>2
  <2>3. CASE p \in on /\ p \notin new
    <3>1. p \notin again
      BY <2>3 DEF new, Fresh
    <3>2. branch'[p] = b[p] /\ (b[p].at = "loading" <=> \E g \in gets : g \notin done /\ g.place = p)
      BY <1>2, <2>3, <3>1
    <3>3. (\E g \in gets' : g.place = p) <=> \E g \in gets : g \notin done /\ g.place = p
      BY <1>1, <1>2, <1>4, <2>3
    <3>4. QED
      BY <3>2, <3>3
  <2>4. QED
    BY <1>1, <2>1, <2>2, <2>3
<1>9. ASSUME NEW g \in gets', NEW h \in gets', g.place = h.place PROVE g = h
  BY <1>1, <1>2, <1>4, <1>9
<1>10. QED
  BY <1>6, <1>7, <1>8, <1>9 DEF PageInv

\* Rendering keeps every answer on its way new enough, and what is shown.
LEMMA RenderFresh ==
  ASSUME NEW b \in [Places -> Branches(clock)], NEW e, NEW again \in SUBSET OnPage(b, e), NEW done,
         gets \subseteq Gets(clock), Render(b, e, again, done), acked' = acked,
         FreshReady(b, again, done)
  PROVE  FreshInv' /\ OwnWritesShown'
<1> DEFINE on == OnPage(b, e)
           new == Fresh(b, e, again)
<1>1. on \subseteq Places /\ new \subseteq on /\ again \subseteq new
  BY OnPageClosed DEF Fresh
<1>2. /\ \A p \in Places : p \notin on => branch'[p] = Off
      /\ \A p \in on : p \notin new => branch'[p] = b[p]
      /\ \A p \in on : p \in new => branch'[p].at = "loading"
      /\ \A g : g \in gets' <=>
            \/ g \in gets /\ g \notin done /\ g.place \in on /\ g.place \notin new
            \/ \E p \in new : g = Get(p)
  BY <1>1, RenderFacts
<1>3. \A p \in Places : Get(p).at = "sent"
  BY DEF Get
<1>4. Off.at = "off"
  BY DEF Off
<1> HIDE DEF on, new
<1>5. ASSUME NEW g \in gets', g.at = "ok"
      PROVE  /\ g.asOf >= branch'[g.place].asOf
             /\ branch'[g.place].due \/ g.asOf >= acked'[g.place]
  <2>1. g \in gets /\ g \notin done /\ g.place \in on /\ g.place \notin new
    BY <1>1, <1>2, <1>3, <1>5
  <2>2. branch'[g.place] = b[g.place]
    BY <1>2, <2>1
  <2>3. QED
    BY <1>5, <2>1, <2>2 DEF FreshReady
<1>6. ASSUME NEW p \in Places, branch'[p].at = "shown", ~branch'[p].due
      PROVE  branch'[p].asOf >= acked'[p]
  <2>1. p \in on /\ p \notin new /\ branch'[p] = b[p]
    BY <1>2, <1>4, <1>6
  <2>2. QED
    BY <1>1, <1>6, <2>1 DEF FreshReady
<1>7. QED
  BY <1>5, <1>6 DEF FreshInv, OwnWritesShown

\* No branch that stays goes back.
Forwards ==
    \A p \in Places :
        branch[p].at # "off" /\ branch'[p].at # "off" => branch'[p].asOf >= branch[p].asOf

\* Rendering takes no branch back, if what is rendered does not.
LEMMA RenderForwards ==
  ASSUME NEW b \in [Places -> Branches(clock)], NEW e, NEW again \in SUBSET Places, NEW done,
         gets \subseteq Gets(clock), Render(b, e, again, done),
         \A p \in Places : b[p].asOf >= branch[p].asOf
  PROVE  Forwards
<1>1. \A p \in Places : branch'[p].at # "off" => branch'[p].asOf = b[p].asOf
  <2>1. Off.at = "off"
    BY DEF Off
  <2>2. QED
    BY <2>1, RenderFacts
<1>2. QED
  BY <1>1 DEF Forwards

\* The branch of a load, filled by its answer.
Filled(g, ok) == [branch EXCEPT ![g.place] = Loaded(@, g, ok)]

\* What an answer puts into its branch.
LEMMA FilledFacts ==
  ASSUME TypeOK, NEW g \in gets, NEW ok \in BOOLEAN
  PROVE  /\ \A q \in Places \ {g.place} : Filled(g, ok)[q] = branch[q]
         /\ Filled(g, ok)[g.place].due = branch[g.place].due
         /\ ok => /\ Filled(g, ok)[g.place].at = "shown"
                  /\ Filled(g, ok)[g.place].nodes = g.nodes
                  /\ Filled(g, ok)[g.place].asOf = g.asOf
         /\ ~ok => /\ Filled(g, ok)[g.place].at = "failed"
                   /\ Filled(g, ok)[g.place].nodes = {}
                   /\ Filled(g, ok)[g.place].asOf = branch[g.place].asOf
<1> DEFINE x == Filled(g, ok)[g.place]
<1>1. branch \in [Places -> Branches(clock)] /\ g.place \in Places
  BY TypeParts, FilledType
<1>2. x = Loaded(branch[g.place], g, ok) /\ branch[g.place] \in Branches(clock)
  BY <1>1 DEF Filled
<1>3. \A q \in Places \ {g.place} : Filled(g, ok)[q] = branch[q]
  BY <1>1 DEF Filled
<1> HIDE DEF x
<1>4. CASE ok
  <2>1. x = [branch[g.place] EXCEPT !.at = "shown", !.nodes = g.nodes, !.asOf = g.asOf]
    BY <1>2, <1>4 DEF Loaded
  <2>2. x.at = "shown" /\ x.nodes = g.nodes /\ x.asOf = g.asOf /\ x.due = branch[g.place].due
    <3>1. x.at = "shown" /\ x.nodes = g.nodes /\ x.asOf = g.asOf
      BY <1>2, <2>1 DEF Branches
    <3>2. x.due = branch[g.place].due
      BY <1>2, <2>1 DEF Branches
    <3>3. QED
      BY <3>1, <3>2
  <2>3. QED
    BY <1>3, <1>4, <2>2 DEF x
<1>5. CASE ~ok
  <2>1. x = [branch[g.place] EXCEPT !.at = "failed", !.nodes = {}]
    BY <1>2, <1>5 DEF Loaded
  <2>2. /\ x.at = "failed" /\ x.nodes = {} /\ x.asOf = branch[g.place].asOf
        /\ x.due = branch[g.place].due
    BY <1>2, <2>1 DEF Branches
  <2>3. QED
    BY <1>3, <1>5, <2>2 DEF x
<1>6. QED
  BY <1>4, <1>5

\* The types that the proofs about the page use.
LEMMA PageTypes ==
  ASSUME TypeOK
  PROVE  /\ clock \in Nat /\ branch \in [Places -> Branches(clock)] /\ gets \subseteq Gets(clock)
         /\ acked \in [Places -> 0..clock] /\ writes \subseteq Writes(clock)
         /\ \A p \in Places : branch[p].asOf \in Nat /\ acked[p] \in Nat
         /\ \A g \in gets : g.place \in Places /\ g.asOf \in Nat
         /\ \A w \in writes : w.place \in Places /\ w.node \in Nodes /\ w.asOf \in Nat
<1>1. /\ clock \in Nat /\ branch \in [Places -> Branches(clock)] /\ gets \subseteq Gets(clock)
      /\ acked \in [Places -> 0..clock] /\ writes \subseteq Writes(clock)
  BY TypeParts, ConstantFacts
<1>2. QED
  BY <1>1 DEF Branches, Gets, Writes

\* An answer arrives.
LEMMA AnswerGetPage ==
  ASSUME IInv, NEW g \in gets, AnswerGet(g)
  PROVE  PageInv' /\ FreshInv' /\ OwnWritesShown' /\ Forwards
<1>1. PICK ok \in BOOLEAN :
         (ok => g.at = "ok") /\ Render(Filled(g, ok), expanded, {}, {g})
  BY DEF AnswerGet, Filled
<1> DEFINE p == g.place
           b == Filled(g, ok)
<1>3. /\ TypeOK /\ PageInv /\ FreshInv /\ OwnWritesShown /\ acked' = acked
  BY DEF IInv, AnswerGet
<1>4. /\ b \in [Places -> Branches(clock)] /\ p \in Places /\ gets \subseteq Gets(clock)
      /\ Render(b, expanded, {}, {g})
  BY <1>1, <1>3, FilledType, PageTypes DEF Filled
<1>5. /\ \A q \in Places \ {p} : b[q] = branch[q]
      /\ b[p].due = branch[p].due
      /\ ok => b[p].at = "shown" /\ b[p].asOf = g.asOf
      /\ ~ok => b[p].at = "failed" /\ b[p].asOf = branch[p].asOf
  BY <1>3, FilledFacts
<1>6. \A h \in gets : h # g => h.place # p
  BY <1>3 DEF PageInv
<1>7. \A q \in Places : branch[q].due => branch[q].at # "off"
  BY <1>3 DEF PageInv
<1>8. \A q \in Places : branch[q].at = "loading" <=> \E h \in gets : h.place = q
  BY <1>3 DEF PageInv
<1> HIDE DEF p, b
<1>9. \A q \in Places : b[q].due => b[q].at # "off"
  BY <1>4, <1>5, <1>7
<1>10. ASSUME NEW q \in Places
       PROVE  b[q].at = "loading" <=> \E h \in gets : h \notin {g} /\ h.place = q
  <2>1. CASE q = p
    BY <1>4, <1>5, <1>6, <2>1
  <2>2. CASE q # p
    BY <1>5, <1>8, <2>2 DEF p
  <2>3. QED
    BY <2>1, <2>2
<1>11. PageInv'
  <2>1. \A h, k \in gets : h.place = k.place => h = k
    BY <1>3 DEF PageInv
  <2>2. PageReady(b, {}, {g})
    BY <1>9, <1>10, <2>1 DEF PageReady
  <2>3. QED
    BY <1>4, <2>2, RenderPage
<1>12. ASSUME NEW h \in gets, h \notin {g}, h.at = "ok"
       PROVE  h.asOf >= b[h.place].asOf /\ (b[h.place].due \/ h.asOf >= acked[h.place])
  <2>1. h.place # p /\ h.place \in Places
    BY <1>3, <1>6, <1>12, PageTypes
  <2>2. QED
    BY <1>3, <1>5, <1>12, <2>1 DEF FreshInv
<1>13. ASSUME NEW q \in Places, b[q].at = "shown", ~b[q].due PROVE b[q].asOf >= acked[q]
  <2>1. CASE q = p
    BY <1>1, <1>3, <1>5, <1>13, <2>1 DEF FreshInv, p
  <2>2. CASE q # p
    BY <1>3, <1>5, <1>13, <2>2 DEF OwnWritesShown
  <2>3. QED
    BY <2>1, <2>2
<1>14. FreshInv' /\ OwnWritesShown'
  <2>1. FreshReady(b, {}, {g})
    BY <1>12, <1>13 DEF FreshReady
  <2>2. QED
    BY <1>3, <1>4, <2>1, RenderFresh
<1>15. Forwards
  <2>1. ASSUME NEW q \in Places PROVE b[q].asOf >= branch[q].asOf
    <3>1. branch[q].asOf \in Nat
      BY <1>3, PageTypes
    <3>2. CASE q = p
      BY <1>1, <1>3, <1>5, <3>1, <3>2 DEF FreshInv, p
    <3>3. CASE q # p
      BY <1>5, <3>1, <3>3
    <3>4. QED
      BY <3>2, <3>3
  <2>2. QED
    BY <1>4, <2>1, RenderForwards
<1>16. QED
  BY <1>11, <1>14, <1>15

\* A branch reloads.
LEMMA ReloadPage ==
  ASSUME IInv, NEW p \in Places, Reload(p)
  PROVE  PageInv' /\ FreshInv' /\ OwnWritesShown' /\ Forwards
<1> DEFINE b == Reloading(p)
<1>1. /\ TypeOK /\ PageInv /\ FreshInv /\ OwnWritesShown /\ acked' = acked
      /\ branch[p].due /\ Render(b, expanded, {p}, {})
  BY DEF IInv, Reload, Reloading
<1>2. /\ b \in [Places -> Branches(clock)] /\ gets \subseteq Gets(clock)
      /\ b[p].at = "loading" /\ b[p].asOf = branch[p].asOf
      /\ \A q \in Places \ {p} : b[q] = branch[q]
  BY <1>1, ReloadingType, PageTypes
<1> HIDE DEF b
<1>3. p \in OnPage(branch, expanded)
  BY <1>1 DEF PageInv
<1>4. {p} \in SUBSET OnPage(b, expanded)
  BY <1>2, <1>3, OnPageStays
<1>5. PageInv'
  <2>1. \A q \in Places : b[q].due => b[q].at # "off"
    BY <1>1, <1>2 DEF PageInv
  <2>2. \A q \in Places \ {p} : b[q].at = "loading" <=> \E h \in gets : h \notin {} /\ h.place = q
    BY <1>1, <1>2 DEF PageInv
  <2>3. \A h, k \in gets : h.place = k.place => h = k
    BY <1>1 DEF PageInv
  <2>4. \A q \in {p} : b[q].at # "shown"
    BY <1>2
  <2>5. PageReady(b, {p}, {})
    BY <2>1, <2>2, <2>3, <2>4 DEF PageReady
  <2>6. QED
    BY <1>1, <1>2, <1>4, <2>5, RenderPage
<1>6. FreshInv' /\ OwnWritesShown'
  <2>1. ASSUME NEW h \in gets, h.at = "ok"
        PROVE  h.asOf >= b[h.place].asOf /\ (b[h.place].due \/ h.asOf >= acked[h.place])
    <3>1. h.place \in Places /\ b[h.place].asOf = branch[h.place].asOf
      BY <1>1, <1>2, PageTypes
    <3>2. b[h.place].due = branch[h.place].due
      BY <1>1, <1>2, <3>1 DEF b, Reloading, Branches
    <3>3. QED
      BY <1>1, <2>1, <3>1, <3>2 DEF FreshInv
  <2>2. \A q \in Places \ {p} : b[q].at = "shown" /\ ~b[q].due => b[q].asOf >= acked[q]
    BY <1>1, <1>2 DEF OwnWritesShown
  <2>3. FreshReady(b, {p}, {})
    BY <2>1, <2>2 DEF FreshReady
  <2>4. QED
    BY <1>1, <1>2, <1>4, <2>3, RenderFresh
<1>7. Forwards
  <2>1. \A q \in Places : b[q].asOf >= branch[q].asOf
    BY <1>1, <1>2, PageTypes
  <2>2. QED
    BY <1>1, <1>2, <2>1, RenderForwards
<1>8. QED
  BY <1>5, <1>6, <1>7

\* The user turns to something, which changes what is expanded at most.
LEMMA UserPage ==
  ASSUME IInv, UserStep
  PROVE  PageInv' /\ FreshInv' /\ OwnWritesShown' /\ Forwards
<1>1. /\ TypeOK /\ PageInv /\ FreshInv /\ OwnWritesShown /\ acked' = acked
  BY DEF IInv, UserStep
<1>2. branch \in [Places -> Branches(clock)] /\ gets \subseteq Gets(clock)
  BY <1>1, PageTypes
<1>3. CASE UNCHANGED <<expanded, branch, gets, behind>>
  BY <1>1, <1>3, PageTypes DEF PageInv, FreshInv, OwnWritesShown, Forwards
<1>4. ASSUME NEW e \in SUBSET Folders, Render(branch, e, {}, {})
      PROVE  PageInv' /\ FreshInv' /\ OwnWritesShown' /\ Forwards
  <2>1. PageReady(branch, {}, {}) /\ FreshReady(branch, {}, {})
    BY <1>1 DEF PageInv, FreshInv, OwnWritesShown, PageReady, FreshReady
  <2>2. PageInv'
    BY <1>2, <1>4, <2>1, RenderPage
  <2>3. FreshInv' /\ OwnWritesShown'
    BY <1>1, <1>2, <1>4, <2>1, RenderFresh
  <2>4. Forwards
    <3>1. \A q \in Places : branch[q].asOf >= branch[q].asOf
      BY <1>1, PageTypes
    <3>2. QED
      BY <1>2, <1>4, <3>1, RenderForwards
  <2>5. QED
    BY <2>2, <2>3, <2>4
<1>5. QED
  BY <1>3, <1>4 DEF UserStep

\* The backend serves a load: its answer is as new as can be.
LEMMA ServeGetPage ==
  ASSUME IInv, NEW g \in gets, ServeGet(g)
  PROVE  PageInv' /\ FreshInv' /\ OwnWritesShown' /\ Forwards
<1> DEFINE h == [g EXCEPT !.at = "ok", !.nodes = Children(g.place), !.asOf = clock]
<1>1. /\ TypeOK /\ PageInv /\ FreshInv /\ OwnWritesShown
      /\ gets' = (gets \ {g}) \cup {h}
      /\ UNCHANGED <<branch, expanded, acked>>
  BY DEF IInv, ServeGet
<1>2. /\ g \in Gets(clock) /\ g.place \in Places /\ clock \in Nat
      /\ branch \in [Places -> Branches(clock)] /\ acked \in [Places -> 0..clock]
  BY <1>1, PageTypes
<1>3. h.place = g.place /\ h.at = "ok" /\ h.asOf = clock
  BY <1>2 DEF Gets
<1> HIDE DEF h
<1>4. clock >= branch[g.place].asOf /\ clock >= acked[g.place]
  <2>1. branch[g.place] \in Branches(clock) /\ acked[g.place] \in 0..clock
    BY <1>2
  <2>2. branch[g.place].asOf \in 0..clock
    BY <2>1 DEF Branches
  <2>3. QED
    BY <1>2, <2>1, <2>2
<1>5. PageInv'
  <2>1. \A p \in Places : (\E k \in gets' : k.place = p) <=> \E k \in gets : k.place = p
    BY <1>1, <1>3
  <2>2. \A j, k \in gets' : j.place = k.place => j = k
    BY <1>1, <1>3 DEF PageInv
  <2>3. QED
    BY <1>1, <2>1, <2>2 DEF PageInv
<1>6. FreshInv' /\ OwnWritesShown'
  BY <1>1, <1>3, <1>4 DEF FreshInv, OwnWritesShown
<1>7. Forwards
  BY <1>1, PageTypes DEF Forwards
<1>8. QED
  BY <1>5, <1>6, <1>7

\* The page is told of a write, or its answer is passed over.
LEMMA AnswerPage ==
  ASSUME IInv, NEW w \in writes, Answer(w)
  PROVE  PageInv' /\ FreshInv' /\ OwnWritesShown' /\ Forwards
<1>1. /\ TypeOK /\ PageInv /\ FreshInv /\ OwnWritesShown
      /\ UNCHANGED <<expanded, gets>>
  BY DEF IInv, Answer
<1>2. /\ branch \in [Places -> Branches(clock)] /\ acked \in [Places -> 0..clock] /\ clock \in Nat
      /\ w.place \in Places /\ w.asOf \in Nat
      /\ \A p \in Places : branch[p].asOf \in Nat /\ acked[p] \in Nat
  BY <1>1, PageTypes
<1>3. CASE UNCHANGED <<branch, acked>>
  BY <1>1, <1>2, <1>3 DEF PageInv, FreshInv, OwnWritesShown, Forwards
<1>4. CASE /\ branch' = [p \in Places |->
                IF p \in Reloaded(w) /\ branch[p].at # "off"
                THEN [branch[p] EXCEPT !.due = TRUE] ELSE branch[p]]
           /\ acked' = [acked EXCEPT ![w.place] = IF w.asOf > @ THEN w.asOf ELSE @]
  <2>1. ASSUME NEW p \in Places
        PROVE  /\ branch'[p].at = branch[p].at /\ branch'[p].nodes = branch[p].nodes
               /\ branch'[p].asOf = branch[p].asOf
    <3>1. branch[p] \in Branches(clock)
      BY <1>2
    <3>2. branch'[p] = branch[p] \/ branch'[p] = [branch[p] EXCEPT !.due = TRUE]
      BY <1>4
    <3>3. QED
      BY <3>1, <3>2 DEF Branches
  <2>2. \A p \in Places \ {w.place} : branch'[p] = branch[p] /\ acked'[p] = acked[p]
    BY <1>2, <1>4 DEF Reloaded
  <2>3. branch[w.place].at # "off" => branch'[w.place].due
    <3>1. branch[w.place] \in Branches(clock)
      BY <1>2
    <3>2. branch[w.place].at # "off" => branch'[w.place] = [branch[w.place] EXCEPT !.due = TRUE]
      BY <1>2, <1>4 DEF Reloaded
    <3>3. QED
      BY <3>1, <3>2 DEF Branches
  <2>4. branch[w.place].at = "off" => branch'[w.place] = branch[w.place]
    BY <1>2, <1>4
  <2>5. OnPage(branch, expanded) \subseteq OnPage(branch', expanded)
    <3>1. OnPage(branch', expanded) \subseteq Places
      BY OnPageClosed
    <3>2. QED
      BY <2>1, <3>1, OnPageShrinks
  <2>6. PageInv'
    <3>1. \A p \in Places : branch'[p].at # "off" => p \in OnPage(branch', expanded')
      BY <1>1, <2>1, <2>5 DEF PageInv
    <3>2. \A p \in Places : branch'[p].due => branch'[p].at # "off"
      BY <1>1, <2>1, <2>2, <2>4 DEF PageInv
    <3>3. QED
      BY <1>1, <2>1, <3>1, <3>2 DEF PageInv
  <2>7. FreshInv'
    <3> SUFFICES ASSUME NEW g \in gets, g.at = "ok"
                 PROVE  /\ g.asOf >= branch'[g.place].asOf
                        /\ branch'[g.place].due \/ g.asOf >= acked'[g.place]
      BY <1>1 DEF FreshInv
    <3>1. g.place \in Places /\ branch[g.place].at = "loading"
      BY <1>1, PageTypes DEF PageInv
    <3>2. g.asOf >= branch[g.place].asOf /\ (branch[g.place].due \/ g.asOf >= acked[g.place])
      BY <1>1 DEF FreshInv
    <3>3. CASE g.place = w.place
      BY <2>1, <2>3, <3>1, <3>2, <3>3
    <3>4. CASE g.place # w.place
      BY <2>2, <3>1, <3>2, <3>4
    <3>5. QED
      BY <3>3, <3>4
  <2>8. OwnWritesShown'
    <3> SUFFICES ASSUME NEW p \in Places, branch'[p].at = "shown", ~branch'[p].due
                 PROVE  branch'[p].asOf >= acked'[p]
      BY DEF OwnWritesShown
    <3>1. p # w.place
      BY <2>1, <2>3
    <3>2. QED
      BY <1>1, <2>2, <3>1 DEF OwnWritesShown
  <2>9. Forwards
    BY <1>2, <2>1 DEF Forwards
  <2>10. QED
    BY <2>6, <2>7, <2>8, <2>9
<1>5. QED
  BY <1>3, <1>4 DEF Answer

\* Every step keeps the page, its loads and their order.
LEMMA PageStep ==
  ASSUME IInv, [Next]_vars
  PROVE  PageInv' /\ FreshInv' /\ OwnWritesShown' /\ Forwards
<1>1. ASSUME UNCHANGED <<expanded, branch, gets, acked>>
      PROVE  PageInv' /\ FreshInv' /\ OwnWritesShown' /\ Forwards
  <2>1. TypeOK /\ PageInv /\ FreshInv /\ OwnWritesShown
    BY DEF IInv
  <2>2. QED
    BY <1>1, <2>1, PageTypes DEF PageInv, FreshInv, OwnWritesShown, Forwards
<1>2. ASSUME NEW w \in writes, Serve(w) PROVE UNCHANGED <<expanded, branch, gets, acked>>
  BY <1>2 DEF Serve
<1>3. CASE Elsewhere
  BY <1>1, <1>3 DEF Elsewhere
<1>4. CASE UserNext
  BY <1>4, UserCases, UserPage DEF IInv
<1>5. CASE UNCHANGED vars
  BY <1>1, <1>5 DEF vars, pastVars
<1>6. QED
  BY <1>1, <1>2, <1>3, <1>4, <1>5, ServeGetPage, AnswerGetPage, ReloadPage, AnswerPage DEF Next

-----------------------------------------------------------------------------
(* Where a folder is held.                                                 *)

\* The tree changes: a folder is created, deleted, or stays where it is.
FoldersStay == \A c \in Folders : parent'[c] \in {parent[c], Gone} \/ parent[c] = None

\* The invariant is kept when no branch comes to hold a folder.
LEMMA HomeFrame ==
  ASSUME TypeOK, MenuInv, HomeInv, FoldersStay,
         \A p \in Places, c \in Folders : Held(p, c)' => Held(p, c),
         \/ menu' \in {menu, Nothing}
         \/ menu'.place \in Places /\ Shown(menu'.node, menu'.place),
         \A w \in writes' : w.kind = "delete" =>
            \/ \E v \in writes : v.kind = "delete" /\ v.node = w.node /\ v.place = w.place
            \/ w.node = menu.node /\ w.place = menu.place
  PROVE  HomeInv'
<1>1. Gone \notin Places /\ None \notin Places /\ None # Gone /\ None \notin Folders /\ Folders \subseteq Nodes
  BY ConstantFacts
<1>2. ASSUME NEW p \in Places, NEW c \in Folders, parent[c] \in {p, Gone}
      PROVE  parent'[c] \in {p, Gone}
  BY <1>1, <1>2 DEF FoldersStay
<1>3. ASSUME menu.node \in Folders PROVE menu.place \in Places /\ parent[menu.node] \in {menu.place, Gone}
  <2>1. menu.node # None
    BY <1>1, <1>3
  <2>2. menu # Nothing
    BY <2>1 DEF Nothing
  <2>3. QED
    BY <1>3, <2>2 DEF MenuInv, HomeInv
<1>4. ASSUME NEW p \in Places, NEW c \in Folders, Held(p, c)' PROVE parent'[c] \in {p, Gone}
  BY <1>2, <1>4 DEF HomeInv
<1>5. ASSUME NEW p \in Places, NEW q \in Places, NEW c \in Folders, Held(p, c)', Held(q, c)'
      PROVE  p = q
  BY <1>5 DEF HomeInv
<1>6. ASSUME menu'.node \in Folders PROVE parent'[menu'.node] \in {menu'.place, Gone}
  <2>1. CASE menu' = menu
    BY <1>2, <1>3, <1>6, <2>1
  <2>2. CASE menu' = Nothing
    BY <1>1, <1>6, <2>2 DEF Nothing
  <2>3. CASE menu'.place \in Places /\ Shown(menu'.node, menu'.place)
    <3>1. Held(menu'.place, menu'.node)
      BY <2>3 DEF Shown, Held
    <3>2. parent[menu'.node] \in {menu'.place, Gone}
      BY <1>6, <2>3, <3>1 DEF HomeInv
    <3>3. QED
      BY <1>2, <1>6, <2>3, <3>2
  <2>4. QED
    BY <2>1, <2>2, <2>3
<1>7. ASSUME NEW w \in writes', w.kind = "delete", w.node \in Folders
      PROVE  parent'[w.node] \in {w.place, Gone}
  <2>1. CASE w.node = menu.node /\ w.place = menu.place
    BY <1>2, <1>3, <1>7, <2>1
  <2>2. ASSUME NEW v \in writes, v.kind = "delete", v.node = w.node, v.place = w.place
        PROVE  parent'[w.node] \in {w.place, Gone}
    <3>1. w.place \in Places /\ parent[w.node] \in {w.place, Gone}
      BY <1>7, <2>2, PageTypes DEF HomeInv
    <3>2. QED
      BY <1>2, <1>7, <3>1
  <2>3. QED
    BY <1>7, <2>1, <2>2
<1>8. QED
  BY <1>4, <1>5, <1>6, <1>7 DEF HomeInv

\* Rendering makes no branch hold more than it did, or was to.
LEMMA RenderHeld ==
  ASSUME NEW b \in [Places -> Branches(clock)], NEW e, NEW again \in SUBSET Places, NEW done,
         gets \subseteq Gets(clock), Render(b, e, again, done),
         NEW p \in Places, NEW c, b[p].nodes \subseteq {x \in Nodes : Held(p, x)}, Held(p, c)'
  PROVE  Held(p, c)
<1>1. \A q \in Places : Get(q).nodes = {}
  BY DEF Get
<1>2. Off.nodes = {} /\ Fresh(b, e, again) \subseteq Places
  BY OnPageClosed DEF Off, Fresh
<1>3. branch'[p].nodes \subseteq b[p].nodes
  BY <1>2, RenderFacts
<1>4. \A g \in gets' : g \in gets \/ g.nodes = {}
  BY <1>1, <1>2, RenderFacts
<1>5. QED
  BY <1>3, <1>4 DEF Held

\* A folder stays where it is held.
LEMMA HomeStep == ASSUME IInv, [Next]_vars PROVE HomeInv'
<1> USE DEF backendVars, inputVars, pastVars
<1>1. /\ TypeOK /\ MenuInv /\ HomeInv
      /\ parent \in [Nodes -> Places \cup {None, Gone}] /\ Folders \subseteq Nodes
      /\ branch \in [Places -> Branches(clock)] /\ gets \subseteq Gets(clock)
      /\ \A p \in Places : branch[p].nodes \subseteq {x \in Nodes : Held(p, x)}
      /\ \A g \in gets : g.place \in Places
  <2>1. TypeOK /\ MenuInv /\ HomeInv
    BY DEF IInv
  <2>2. /\ parent \in [Nodes -> Places \cup {None, Gone}]
        /\ branch \in [Places -> Branches(clock)] /\ gets \subseteq Gets(clock)
        /\ \A g \in gets : g.place \in Places
    BY <2>1, TypeParts, PageTypes
  <2>3. \A p \in Places : branch[p].nodes \subseteq {x \in Nodes : Held(p, x)}
    BY <2>2 DEF Held, Branches
  <2>4. QED
    BY <2>1, <2>2, <2>3, ConstantFacts
<1>2. parent' = parent => FoldersStay
  BY DEF FoldersStay
<1>3. ASSUME NEW b \in [Places -> Branches(clock)], NEW e, NEW again \in SUBSET Places, NEW done,
             Render(b, e, again, done), UNCHANGED <<parent, menu, writes>>,
             \A p \in Places : b[p].nodes \subseteq {x \in Nodes : Held(p, x)}
      PROVE  HomeInv'
  <2>1. \A p \in Places, c \in Folders : Held(p, c)' => Held(p, c)
    BY <1>1, <1>3, RenderHeld
  <2>2. QED
    BY <1>1, <1>2, <1>3, <2>1, HomeFrame
<1>4. ASSUME NEW g \in gets, ServeGet(g) PROVE HomeInv'
  <2> DEFINE h == [g EXCEPT !.at = "ok", !.nodes = Children(g.place), !.asOf = clock]
  <2>1. gets' = (gets \ {g}) \cup {h} /\ UNCHANGED <<parent, branch, menu, writes>>
    BY <1>4 DEF ServeGet
  <2>2. h.place = g.place /\ h.nodes = Children(g.place)
    BY <1>1 DEF Gets
  <2> HIDE DEF h
  <2>3. ASSUME NEW p \in Places, NEW c \in Folders, Held(p, c)'
        PROVE  Held(p, c) \/ parent[c] = p
    BY <2>1, <2>2, <2>3 DEF Held, Children
  <2>4. Gone \notin Places
    BY ConstantFacts
  <2>5. \A p \in Places, c \in Folders : Held(p, c)' => parent[c] \in {p, Gone}
    BY <1>1, <2>3 DEF HomeInv
  <2>6. \A p, q \in Places, c \in Folders : Held(p, c)' /\ Held(q, c)' => p = q
    BY <1>1, <2>3, <2>4 DEF HomeInv
  <2>7. QED
    BY <1>1, <2>1, <2>5, <2>6 DEF HomeInv
<1>5. ASSUME NEW g \in gets, AnswerGet(g) PROVE HomeInv'
  <2>1. PICK ok \in BOOLEAN : Render(Filled(g, ok), expanded, {}, {g})
    BY <1>5 DEF AnswerGet, Filled
  <2>2. Filled(g, ok) \in [Places -> Branches(clock)]
    BY <1>1, FilledType DEF Filled
  <2>3. UNCHANGED <<parent, menu, writes>>
    BY <1>5 DEF AnswerGet
  <2>4. ASSUME NEW p \in Places PROVE Filled(g, ok)[p].nodes \subseteq {x \in Nodes : Held(p, x)}
    <3>1. CASE p = g.place
      <4>1. Filled(g, ok)[p].nodes \subseteq g.nodes
        BY <1>1, <3>1, FilledFacts
      <4>2. g.nodes \subseteq {x \in Nodes : Held(p, x)}
        BY <1>1, <3>1 DEF Held, Gets
      <4>3. QED
        BY <4>1, <4>2
    <3>2. CASE p # g.place
      BY <1>1, <3>2, FilledFacts
    <3>3. QED
      BY <3>1, <3>2
  <2>5. QED
    BY <1>3, <2>1, <2>2, <2>3, <2>4
<1>6. ASSUME NEW p \in Places, Reload(p) PROVE HomeInv'
  <2>1. Render(Reloading(p), expanded, {p}, {}) /\ UNCHANGED <<parent, menu, writes>>
    BY <1>6 DEF Reload, Reloading
  <2>2. /\ Reloading(p) \in [Places -> Branches(clock)]
        /\ \A q \in Places : Reloading(p)[q].nodes \subseteq {x \in Nodes : Held(q, x)}
    BY <1>1, ReloadingType
  <2>3. QED
    BY <1>3, <2>1, <2>2
<1>7. CASE UserNext
  <2>1. UserStep
    BY <1>1, <1>7, UserCases
  <2>2. \A p \in Places, c \in Folders : Held(p, c)' => Held(p, c)
    <3>1. CASE UNCHANGED <<expanded, branch, gets, behind>>
      BY <3>1 DEF Held
    <3>2. CASE \E e \in SUBSET Folders : Render(branch, e, {}, {})
      BY <1>1, <3>2, RenderHeld
    <3>3. QED
      BY <2>1, <3>1, <3>2 DEF UserStep
  <2>3. \A w \in writes' : w.kind = "delete" =>
            \/ \E v \in writes : v.kind = "delete" /\ v.node = w.node /\ v.place = w.place
            \/ w.node = menu.node /\ w.place = menu.place
    BY <2>1 DEF UserStep
  <2>4. FoldersStay
    BY <1>2, <2>1 DEF UserStep
  <2>5. \/ menu' \in {menu, Nothing}
        \/ menu'.place \in Places /\ Shown(menu'.node, menu'.place)
    BY <2>1 DEF UserStep
  <2>6. QED
    BY <1>1, <2>2, <2>3, <2>4, <2>5, HomeFrame
<1>8. ASSUME NEW n \in Nodes, Deleted(n) PROVE FoldersStay
  BY <1>1, <1>8 DEF Deleted, FoldersStay
<1>9. ASSUME NEW n \in Nodes, NEW p, Created(n, p) PROVE FoldersStay
  BY <1>1, <1>9 DEF Created, FoldersStay
<1>10. ASSUME NEW w \in writes, Serve(w) PROVE HomeInv'
  <2>1. w.node \in Nodes /\ w \in Writes(clock)
    BY <1>1, PageTypes
  <2>2. FoldersStay
    BY <1>2, <1>8, <1>9, <1>10, <2>1 DEF Serve, Renamed
  <2>3. UNCHANGED <<branch, gets, menu>>
    BY <1>10 DEF Serve
  <2>4. \A p \in Places, c \in Folders : Held(p, c)' => Held(p, c)
    BY <2>3 DEF Held
  <2> DEFINE v == [w EXCEPT !.at = "ok", !.asOf = clock + 1]
  <2>5. v.kind = w.kind /\ v.node = w.node /\ v.place = w.place
    BY <2>1 DEF Writes
  <2>6. writes' = (writes \ {w}) \cup {v}
    BY <1>10 DEF Serve
  <2> HIDE DEF v
  <2>7. \A u \in writes' : u.kind = "delete" =>
            \/ \E x \in writes : x.kind = "delete" /\ x.node = u.node /\ x.place = u.place
            \/ u.node = menu.node /\ u.place = menu.place
    BY <2>5, <2>6
  <2>8. QED
    BY <1>1, <2>2, <2>3, <2>4, <2>7, HomeFrame
<1>11. ASSUME NEW w \in writes, Answer(w) PROVE HomeInv'
  <2>1. UNCHANGED <<parent, gets, menu>> /\ writes' \subseteq writes
    BY <1>11 DEF Answer
  <2>2. \A p \in Places : branch'[p].nodes = branch[p].nodes
    <3>1. \/ branch' = branch
          \/ branch' = [p \in Places |->
                IF p \in Reloaded(w) /\ branch[p].at # "off"
                THEN [branch[p] EXCEPT !.due = TRUE] ELSE branch[p]]
      BY <1>11 DEF Answer
    <3>2. \A p \in Places : branch[p] \in Branches(clock)
      BY <1>1
    <3>3. QED
      BY <3>1, <3>2 DEF Branches
  <2>3. \A p \in Places, c \in Folders : Held(p, c)' => Held(p, c)
    BY <2>1, <2>2 DEF Held
  <2>4. QED
    BY <1>1, <1>2, <2>1, <2>3, HomeFrame
<1>12. CASE Elsewhere
  <2>1. UNCHANGED <<branch, gets, menu, writes>>
    BY <1>12 DEF Elsewhere
  <2>2. FoldersStay
    <3>1. ASSUME NEW n \in Nodes \ Folders, NEW p, parent' = [parent EXCEPT ![n] = p]
          PROVE  FoldersStay
      BY <1>1, <3>1 DEF FoldersStay
    <3>2. QED
      BY <1>8, <1>9, <1>12, <3>1 DEF Elsewhere
  <2>3. \A p \in Places, c \in Folders : Held(p, c)' => Held(p, c)
    BY <2>1 DEF Held
  <2>4. QED
    BY <1>1, <2>1, <2>2, <2>3, HomeFrame
<1>13. CASE UNCHANGED vars
  <2>1. UNCHANGED <<parent, branch, gets, menu, writes>>
    BY <1>13 DEF vars
  <2>2. \A p \in Places, c \in Folders : Held(p, c)' => Held(p, c)
    BY <2>1 DEF Held
  <2>3. QED
    BY <1>1, <1>2, <2>1, <2>2, HomeFrame
<1>14. QED
  BY <1>4, <1>5, <1>6, <1>7, <1>10, <1>11, <1>12, <1>13 DEF Next

-----------------------------------------------------------------------------
(* What is stale.                                                          *)

\* Where a branch has content: shown, or on its way.
Content(p, N) ==
    \/ branch[p].at = "shown" /\ N = branch[p].nodes
    \/ \E g \in gets : g.place = p /\ g.at = "ok" /\ N = g.nodes

\* The invariant about what is stale, for all content alike.
LEMMA StaleMeans ==
  StaleInv <=> \A p \in Places : \A N : Content(p, N) /\ StaleBy(p, N) =>
                   p \in Folders /\ parent[p] = Gone /\ p \notin Firm
  BY DEF StaleInv, Content

\* The covered branches are taken off the page, the others stay as they are.
LEMMA UncoveredFacts ==
  \A p \in Places :
      /\ Uncovered[p].at = "shown" <=> branch[p].at = "shown" /\ ~Covered(p)
      /\ Uncovered[p].at = "shown" => Uncovered[p] = branch[p]
<1>1. Off.at = "off"
  BY DEF Off
<1>2. QED
  BY <1>1 DEF Uncovered

\* The same after the step.
LEMMA UncoveredNext ==
  \A p \in Places :
      /\ Uncovered'[p].at = "shown" <=> branch'[p].at = "shown" /\ ~Covered(p)'
      /\ Uncovered'[p].at = "shown" => Uncovered'[p] = branch'[p]
<1>1. (\A p \in Places :
          /\ Uncovered[p].at = "shown" <=> branch[p].at = "shown" /\ ~Covered(p)
          /\ Uncovered[p].at = "shown" => Uncovered[p] = branch[p])'
  BY UncoveredFacts, PTL
<1>2. QED
  BY <1>1

\* What is firm shrinks as fewer branches are shown, or more are covered.
LEMMA FirmShrinks ==
  ASSUME \A q \in Places : branch'[q].at = "shown" /\ ~Covered(q)' =>
            branch[q].at = "shown" /\ ~Covered(q) /\ branch'[q].nodes = branch[q].nodes,
         expanded' = expanded
  PROVE  Firm' \subseteq Firm
<1>1. ASSUME NEW q \in Places
      PROVE  Uncovered'[q].at = "shown" =>
                Uncovered[q].at = "shown" /\ Uncovered'[q].nodes = Uncovered[q].nodes
  BY UncoveredFacts, UncoveredNext
<1>2. OnPage(Uncovered, expanded) \subseteq Places
  BY OnPageClosed
<1>3. OnPage(Uncovered', expanded) \subseteq OnPage(Uncovered, expanded)
  BY <1>1, <1>2, OnPageShrinks
<1>4. QED
  BY <1>3 DEF Firm

\* What is rendered, b with the folders e, shows what was shown or an answer,
\* and what it shows anew is off the page.
StaleReady(b, e, again) ==
    /\ \A w : w \in writes' /\ w.at = "ok" <=> w \in writes /\ w.at = "ok"
    /\ \A p \in Places \ again : b[p].due = branch[p].due
    /\ \A p \in again : b[p].at # "shown"
    /\ \A p \in Places : b[p].at = "shown" => Content(p, b[p].nodes)
    /\ \A q \in Places, c \in Folders : b[q].at = "shown" /\ c \in b[q].nodes \cap e =>
          \/ branch[q].at = "shown" /\ c \in branch[q].nodes \cap expanded
          \/ b[c].at = "off"

\* Rendering makes nothing stale, and nothing stale firm.
LEMMA RenderStale ==
  ASSUME StaleInv, TypeOK, NEW b \in [Places -> Branches(clock)], NEW e \in SUBSET Folders,
         NEW again \in SUBSET Places, NEW done, Render(b, e, again, done), parent' = parent,
         StaleReady(b, e, again)
  PROVE  StaleInv'
<1> DEFINE on == OnPage(b, e)
           new == Fresh(b, e, again)
<1>1. on \subseteq Places /\ Closed(on, b, e) /\ new \subseteq Places
  BY OnPageClosed DEF Fresh
<1>2. /\ expanded' = e /\ behind' = behind \cap on
      /\ \A p \in Places : p \notin on => branch'[p] = Off
      /\ \A p \in on : p \notin new => branch'[p] = b[p]
      /\ \A p \in on : p \in new => branch'[p].at = "loading"
      /\ \A g : g \in gets' <=>
            \/ g \in gets /\ g \notin done /\ g.place \in on /\ g.place \notin new
            \/ \E p \in new : g = Get(p)
  <2>1. gets \subseteq Gets(clock)
    BY PageTypes
  <2>2. QED
    BY <2>1, RenderFacts
<1>3. again \subseteq new /\ \A p \in on : b[p].at = "off" => p \in new
  BY DEF Fresh
<1>4. Off.at = "off"
  BY DEF Off
<1> HIDE DEF on, new
<1>5. ASSUME NEW p \in Places, branch'[p].at = "shown"
      PROVE  p \in on /\ p \notin new /\ branch'[p] = b[p]
  BY <1>2, <1>4, <1>5
<1>6. ASSUME NEW p \in Places \ new, p \in on PROVE Covered(p)' <=> Covered(p)
  <2>1. branch'[p].due = branch[p].due
    BY <1>2, <1>3, <1>6 DEF StaleReady
  <2>2. QED
    BY <2>1 DEF Covered, StaleReady
<1>7. ASSUME NEW p \in Places, NEW N, Content(p, N)'
      PROVE  p \in on /\ p \notin new /\ Content(p, N)
  <2>1. CASE branch'[p].at = "shown" /\ N = branch'[p].nodes
    BY <1>5, <2>1 DEF StaleReady
  <2>2. ASSUME NEW g \in gets', g.place = p, g.at = "ok", N = g.nodes
        PROVE  p \in on /\ p \notin new /\ Content(p, N)
    <3>1. \A q \in Places : Get(q).at = "sent"
      BY DEF Get
    <3>2. g \in gets /\ g.place \in on /\ g.place \notin new
      BY <1>1, <1>2, <2>2, <3>1
    <3>3. QED
      BY <2>2, <3>2 DEF Content
  <2>3. QED
    BY <1>7, <2>1, <2>2 DEF Content
<1>8. Firm' \subseteq Firm \cup new
  <2>1. Closed(Firm, Uncovered, expanded)
    BY OnPageClosed DEF Firm
  <2>2. ASSUME NEW q \in (Firm \cup new), Uncovered'[q].at = "shown",
               NEW c \in Uncovered'[q].nodes \cap e \cap Folders
        PROVE  c \in Firm \cup new
    <3>1. q \in Places
      BY <1>1, OnPageClosed DEF Firm
    <3>3. branch'[q].at = "shown" /\ ~Covered(q)' /\ Uncovered'[q] = branch'[q]
      BY <2>2, <3>1, UncoveredNext
    <3>4. q \in on /\ q \notin new /\ branch'[q] = b[q] /\ ~Covered(q) /\ q \in Firm
      BY <1>5, <1>6, <2>2, <3>1, <3>3
    <3>5. c \in on /\ c \in b[q].nodes /\ b[q].at = "shown"
      BY <1>1, <2>2, <3>3, <3>4 DEF Closed
    <3>6. CASE b[c].at = "off"
      BY <1>3, <3>5, <3>6
    <3>7. CASE branch[q].at = "shown" /\ c \in branch[q].nodes \cap expanded
      <4>1. Uncovered[q] = branch[q] /\ Uncovered[q].at = "shown"
        BY <3>1, <3>4, <3>7, UncoveredFacts
      <4>2. QED
        BY <2>1, <2>2, <3>4, <3>7, <4>1 DEF Closed
    <3>8. QED
      BY <2>2, <3>1, <3>5, <3>6, <3>7 DEF StaleReady
  <2>3. Closed(Firm \cup new, Uncovered', e)
    BY <2>1, <2>2 DEF Closed
  <2>4. QED
    BY <1>2, <2>3, OnPageLeast DEF Firm
<1>9. ASSUME NEW p \in Places, NEW N, Content(p, N)', StaleBy(p, N)'
      PROVE  p \in Folders /\ parent'[p] = Gone /\ p \notin Firm'
  <2>1. p \in on /\ p \notin new /\ Content(p, N)
    BY <1>7, <1>9
  <2>2. StaleBy(p, N)
    BY <1>2, <1>6, <1>9, <2>1 DEF StaleBy, Children
  <2>3. p \in Folders /\ parent[p] = Gone /\ p \notin Firm
    BY <2>1, <2>2, StaleMeans
  <2>4. QED
    BY <1>8, <2>1, <2>3
<1>10. StaleInv' <=> \A p \in Places : \A N : Content(p, N)' /\ StaleBy(p, N)' =>
                   p \in Folders /\ parent'[p] = Gone /\ p \notin Firm'
  BY DEF StaleInv, Content
<1>11. QED
  BY <1>9, <1>10

\* It is enough to look at what there is after the step.
LEMMA StaleNext ==
  ASSUME \A p \in Places : \A N : Content(p, N)' /\ StaleBy(p, N)' =>
             p \in Folders /\ parent'[p] = Gone /\ p \notin Firm'
  PROVE  StaleInv'
  BY DEF StaleInv, Content

\* A branch of a folder is on the page because another holds the folder.
LEMMA ShownBy ==
  ASSUME PageInv, NEW c \in Folders, branch[c].at # "off"
  PROVE  \E q \in Places : branch[q].at = "shown" /\ c \in branch[q].nodes \cap expanded
<1>1. c \in Places /\ c # Root
  BY ConstantFacts
<1>2. c \in OnPage(branch, expanded)
  BY <1>1 DEF PageInv
<1>3. PICK q \in OnPage(branch, expanded) :
         branch[q].at = "shown" /\ c \in branch[q].nodes \cap expanded \cap Folders
  BY <1>1, <1>2, OnPageShower
<1>4. q \in Places
  BY OnPageClosed
<1>5. QED
  BY <1>3, <1>4

\* A branch with content, now or soon, is on the page.
LEMMA ContentOn ==
  ASSUME PageInv, NEW p \in Places, NEW N, Content(p, N)
  PROVE  branch[p].at # "off"
  BY DEF PageInv, Content

\* An answer arrives: what it shows anew has been off the page.
LEMMA AnswerGetStale ==
  ASSUME IInv, NEW g \in gets, AnswerGet(g)
  PROVE  StaleInv'
<1> USE DEF backendVars, inputVars
<1>1. PICK ok \in BOOLEAN :
         (ok => g.at = "ok") /\ Render(Filled(g, ok), expanded, {}, {g})
  BY DEF AnswerGet, Filled
<1>2. TypeOK /\ PageInv /\ HomeInv /\ StaleInv /\ parent' = parent /\ writes' = writes
  BY DEF IInv, AnswerGet
<1> DEFINE p == g.place
           b == Filled(g, ok)
<1>3. b \in [Places -> Branches(clock)] /\ p \in Places /\ expanded \in SUBSET Folders
  BY <1>2, FilledType, TypeParts DEF Filled
<1>4. /\ \A q \in Places \ {p} : b[q] = branch[q]
      /\ b[p].due = branch[p].due
      /\ ok => b[p].at = "shown" /\ b[p].nodes = g.nodes
      /\ ~ok => b[p].at = "failed"
  BY <1>2, FilledFacts
<1>5. branch[p].at = "loading"
  BY <1>2, <1>3 DEF PageInv
<1>6. ASSUME NEW q \in Places, b[q].at = "shown" PROVE Content(q, b[q].nodes)
  <2>1. CASE q = p
    BY <1>1, <1>4, <1>6, <2>1 DEF Content
  <2>2. CASE q # p
    BY <1>4, <1>6, <2>2 DEF Content
  <2>3. QED
    BY <2>1, <2>2
<1>7. ASSUME NEW c \in Folders, c \in g.nodes PROVE branch[c].at = "off"
  <2>1. Held(p, c)
    BY <1>7 DEF Held
  <2>2. ASSUME NEW q \in Places, branch[q].at = "shown", c \in branch[q].nodes PROVE FALSE
    <3>1. Held(q, c)
      BY <2>2 DEF Held
    <3>2. q = p
      BY <1>2, <1>3, <1>7, <2>1, <3>1 DEF HomeInv
    <3>3. QED
      BY <1>5, <2>2, <3>2
  <2>3. QED
    BY <1>2, <2>2, ShownBy
<1> HIDE DEF p, b
<1>8. ASSUME NEW q \in Places, NEW c \in Folders, b[q].at = "shown", c \in b[q].nodes \cap expanded
      PROVE  \/ branch[q].at = "shown" /\ c \in branch[q].nodes \cap expanded
             \/ b[c].at = "off"
  <2>1. CASE q = p
    <3>1. branch[c].at = "off"
      BY <1>1, <1>4, <1>7, <1>8, <2>1
    <3>2. c \in Places /\ c # p
      BY <1>5, <3>1, ConstantFacts
    <3>3. QED
      BY <1>4, <3>1, <3>2
  <2>2. CASE q # p
    BY <1>4, <1>8, <2>2
  <2>3. QED
    BY <2>1, <2>2
<1>9. \A q \in Places : b[q].due = branch[q].due
  BY <1>4
<1>10. StaleReady(b, expanded, {})
  BY <1>2, <1>6, <1>8, <1>9 DEF StaleReady
<1>11. Render(b, expanded, {}, {g})
  BY <1>1 DEF b
<1>12. QED
  BY <1>2, <1>3, <1>10, <1>11, RenderStale

\* A branch reloads.
LEMMA ReloadStale ==
  ASSUME IInv, NEW p \in Places, Reload(p)
  PROVE  StaleInv'
<1> DEFINE b == Reloading(p)
<1>1. /\ TypeOK /\ StaleInv /\ parent' = parent /\ writes' = writes
      /\ Render(b, expanded, {p}, {})
  BY DEF IInv, Reload, Reloading, backendVars
<1>2. /\ b \in [Places -> Branches(clock)] /\ expanded \in SUBSET Folders
      /\ b[p].at = "loading" /\ \A q \in Places \ {p} : b[q] = branch[q]
  BY <1>1, ReloadingType, TypeParts
<1> HIDE DEF b
<1>3. \A q \in Places : b[q].at = "shown" => branch[q].at = "shown" /\ b[q].nodes = branch[q].nodes
  BY <1>2
<1>4. \A q \in Places : b[q].at = "shown" => Content(q, b[q].nodes)
  BY <1>3 DEF Content
<1>5. StaleReady(b, expanded, {p})
  BY <1>1, <1>2, <1>3, <1>4 DEF StaleReady
<1>6. QED
  BY <1>1, <1>2, <1>5, RenderStale

\* The user turns to something: what is expanded anew has been off the page.
LEMMA UserStale ==
  ASSUME IInv, UserStep
  PROVE  StaleInv'
<1>1. /\ TypeOK /\ PageInv /\ StaleInv /\ parent' = parent
      /\ branch \in [Places -> Branches(clock)]
  BY PageTypes DEF IInv, UserStep
<1>2. \A w : w \in writes' /\ w.at = "ok" <=> w \in writes /\ w.at = "ok"
  <2>1. /\ writes \subseteq writes'
        /\ \A w \in writes' \ writes : w.at = "sent"
    BY DEF UserStep
  <2>2. QED
    BY <2>1
<1>3. CASE UNCHANGED <<expanded, branch, gets, behind>>
  <2>1. \A p \in Places : Covered(p)' <=> Covered(p)
    BY <1>2, <1>3 DEF Covered
  <2>2. Firm' \subseteq Firm
    BY <1>3, <2>1, FirmShrinks
  <2>3. ASSUME NEW p \in Places, NEW N, Content(p, N)', StaleBy(p, N)'
        PROVE  p \in Folders /\ parent'[p] = Gone /\ p \notin Firm'
    <3>1. Content(p, N) /\ StaleBy(p, N)
      BY <1>1, <1>3, <2>1, <2>3 DEF Content, StaleBy, Children
    <3>2. QED
      BY <1>1, <2>2, <3>1, StaleMeans
  <2>4. QED
    BY <2>3, StaleNext
<1>4. ASSUME NEW e \in SUBSET Folders, Render(branch, e, {}, {}) PROVE StaleInv'
  <2>1. \A p \in Places : branch[p].at = "shown" => Content(p, branch[p].nodes)
    BY DEF Content
  <2>2. ASSUME NEW q \in Places, NEW c \in Folders, branch[q].at = "shown",
               c \in branch[q].nodes \cap e
        PROVE  \/ branch[q].at = "shown" /\ c \in branch[q].nodes \cap expanded
               \/ branch[c].at = "off"
    <3>1. branch[c].at # "off" => c \in expanded
      BY <1>1, ShownBy
    <3>2. QED
      BY <2>2, <3>1
  <2>3. StaleReady(branch, e, {})
    BY <1>2, <2>1, <2>2 DEF StaleReady
  <2>4. QED
    BY <1>1, <1>4, <2>3, RenderStale
<1>5. QED
  BY <1>3, <1>4 DEF UserStep

\* The backend serves a load: its branch is about to show what there is.
LEMMA ServeGetStale ==
  ASSUME IInv, NEW g \in gets, ServeGet(g)
  PROVE  StaleInv'
<1> USE DEF backendVars
<1> DEFINE h == [g EXCEPT !.at = "ok", !.nodes = Children(g.place), !.asOf = clock]
<1>1. /\ TypeOK /\ PageInv /\ StaleInv
      /\ gets' = (gets \ {g}) \cup {h} /\ behind' = behind \ {g.place}
      /\ UNCHANGED <<parent, branch, expanded, writes>>
  BY DEF IInv, ServeGet
<1>2. h.place = g.place /\ h.nodes = Children(g.place) /\ g.place \in Places
  BY <1>1, PageTypes DEF Gets
<1> HIDE DEF h
<1>3. branch[g.place].at = "loading" /\ \A k \in gets : k.place = g.place => k = g
  BY <1>1, <1>2 DEF PageInv
<1>4. \A p \in Places : Covered(p)' <=> Covered(p)
  BY <1>1 DEF Covered
<1>5. Firm' \subseteq Firm
  BY <1>1, <1>4, FirmShrinks
<1>6. ASSUME NEW p \in Places, NEW N, Content(p, N)', StaleBy(p, N)'
      PROVE  p \in Folders /\ parent'[p] = Gone /\ p \notin Firm'
  <2>1. N # Children(p) /\ ~Covered(p) /\ (p \in behind => p = g.place)
    BY <1>1, <1>4, <1>6 DEF StaleBy, Children
  <2>2. CASE p = g.place
    BY <1>1, <1>2, <1>3, <1>6, <2>1, <2>2 DEF Content
  <2>3. CASE p # g.place
    <3>1. Content(p, N) /\ StaleBy(p, N)
      BY <1>1, <1>2, <1>6, <2>1, <2>3 DEF Content, StaleBy
    <3>2. QED
      BY <1>1, <1>5, <3>1, StaleMeans
  <2>4. QED
    BY <2>2, <2>3
<1>7. QED
  BY <1>6, StaleNext

\* The page is told of a write, and its branch is to be reloaded; or it is not
\* told, and what that leaves stale is behind.
LEMMA AnswerStale ==
  ASSUME IInv, NEW w \in writes, Answer(w)
  PROVE  StaleInv'
<1>1. /\ TypeOK /\ PageInv /\ StaleInv
      /\ UNCHANGED <<parent, expanded, gets>> /\ writes' = writes \ {w}
      /\ branch \in [Places -> Branches(clock)]
  BY PageTypes DEF IInv, Answer, backendVars
<1>2. CASE /\ w.at = "ok"
           /\ branch' = [p \in Places |->
                IF p \in Reloaded(w) /\ branch[p].at # "off"
                THEN [branch[p] EXCEPT !.due = TRUE] ELSE branch[p]]
           /\ UNCHANGED behind
  <2>1. ASSUME NEW p \in Places
        PROVE  /\ branch'[p].at = branch[p].at /\ branch'[p].nodes = branch[p].nodes
    <3>1. branch[p] \in Branches(clock)
      BY <1>1
    <3>2. branch'[p] = branch[p] \/ branch'[p] = [branch[p] EXCEPT !.due = TRUE]
      BY <1>2
    <3>3. QED
      BY <3>1, <3>2 DEF Branches
  <2>2. ASSUME NEW p \in Places, branch[p].at # "off" PROVE Covered(p) => Covered(p)'
    <3>1. CASE p = w.place
      <4>1. branch[p] \in Branches(clock) /\ branch'[p] = [branch[p] EXCEPT !.due = TRUE]
        BY <1>1, <1>2, <2>2, <3>1 DEF Reloaded
      <4>2. branch'[p].due
        BY <4>1 DEF Branches
      <4>3. QED
        BY <4>2 DEF Covered
    <3>2. CASE p # w.place
      <4>1. branch'[p] = branch[p]
        BY <1>2, <3>2 DEF Reloaded
      <4>2. QED
        BY <1>1, <3>2, <4>1 DEF Covered
    <3>3. QED
      BY <3>1, <3>2
  <2>3. Firm' \subseteq Firm
    BY <1>1, <2>1, <2>2, FirmShrinks
  <2>4. ASSUME NEW p \in Places, NEW N, Content(p, N)', StaleBy(p, N)'
        PROVE  p \in Folders /\ parent'[p] = Gone /\ p \notin Firm'
    <3>1. Content(p, N)
      BY <1>1, <2>1, <2>4 DEF Content
    <3>2. StaleBy(p, N)
      BY <1>1, <1>2, <2>2, <2>4, <3>1, ContentOn DEF StaleBy, Children
    <3>3. QED
      BY <1>1, <2>3, <3>1, <3>2, StaleMeans
  <2>5. QED
    BY <2>4, StaleNext
<1>3. CASE /\ behind' = behind \cup
                {p \in {w.place} \cup {f \in Folders : parent[f] = Gone} :
                    w.at = "ok" /\ branch[p].at # "off"}
           /\ UNCHANGED branch
  <2>1. ASSUME NEW p \in Places, w.at = "ok" => p # w.place PROVE Covered(p)' <=> Covered(p)
    BY <1>1, <1>3, <2>1 DEF Covered
  <2>2. ASSUME NEW p \in Places, NEW N, Content(p, N)', StaleBy(p, N)'
        PROVE  /\ p \in Folders /\ parent[p] = Gone /\ p \notin Firm
               /\ w.at # "ok"
    <3>1. Content(p, N)
      BY <1>1, <1>3, <2>2 DEF Content
    <3>2. branch[p].at # "off"
      BY <1>1, <3>1, ContentOn
    <3>3. /\ p \notin behind /\ N # Children(p)
          /\ w.at = "ok" => p # w.place /\ ~(p \in Folders /\ parent[p] = Gone)
      BY <1>1, <1>3, <2>2, <3>2 DEF StaleBy, Children
    <3>4. StaleBy(p, N)
      BY <2>1, <2>2, <3>3 DEF StaleBy
    <3>5. p \in Folders /\ parent[p] = Gone /\ p \notin Firm
      BY <1>1, <3>1, <3>4, StaleMeans
    <3>6. QED
      BY <3>3, <3>5
  <2>3. w.at # "ok" => Firm' \subseteq Firm
    BY <1>1, <1>3, <2>1, FirmShrinks
  <2>4. ASSUME NEW p \in Places, NEW N, Content(p, N)', StaleBy(p, N)'
        PROVE  p \in Folders /\ parent'[p] = Gone /\ p \notin Firm'
    BY <1>1, <2>2, <2>3, <2>4
  <2>5. QED
    BY <2>4, StaleNext
<1>4. QED
  BY <1>2, <1>3 DEF Answer

\* The backend serves a write: but for what the write covers, and what others
\* are known to be behind with, only what was below a deleted folder changes.
LEMMA ServeStale ==
  ASSUME IInv, NEW w \in writes, Serve(w)
  PROVE  StaleInv'
<1> DEFINE v == [w EXCEPT !.at = "ok", !.asOf = clock + 1]
           n == w.node
<1>1. /\ TypeOK /\ PageInv /\ HomeInv /\ StaleInv
      /\ UNCHANGED <<branch, expanded, gets>>
      /\ w.at = "sent" /\ writes' = (writes \ {w}) \cup {v}
      /\ behind' = behind \cup
          {p \in Places \ {w.place} : branch[p].at # "off" /\ n \in Children(p)}
  BY DEF IInv, Serve
<1>2. w \in Writes(clock) /\ n \in Nodes /\ w.place \in Places
  BY <1>1, PageTypes
<1>3. v.at = "ok" /\ v.place = w.place
  BY <1>2 DEF Writes
<1>4. /\ parent \in [Nodes -> Places \cup {None, Gone}] /\ Gone \notin Nodes \cup Places
      /\ None \notin Nodes \cup Places /\ Folders \subseteq Nodes /\ Root \notin Nodes
      /\ Places \ {Root} = Folders /\ None # Gone /\ Root \in Places
  BY <1>1, TypeParts, ConstantFacts
<1> HIDE DEF v, n
<1>5. \A p \in Places : Covered(p)' <=> Covered(p) \/ p = w.place
  BY <1>1, <1>3 DEF Covered
<1>6. Firm' \subseteq Firm
  BY <1>1, <1>5, FirmShrinks
<1>7. \/ Created(n, w.place) \/ Renamed(n) \/ (w.kind = "delete" /\ Deleted(n))
  BY DEF Serve, n
<1>8. \A c \in Folders : parent[c] = Gone => parent'[c] = Gone
  BY <1>4, <1>7 DEF Created, Renamed, Deleted
<1>9. ASSUME w.kind = "delete", Deleted(n) PROVE Firm' \cap Subtree(n) = {}
  <2> DEFINE S == Places \ Subtree(n)
  <2>1. /\ Subtree(n) \subseteq Nodes
        /\ \A x \in Subtree(n) : x = n \/ parent[x] \in Subtree(n)
    BY <1>2, SubtreeFacts
  <2>2. ASSUME NEW q \in S, Uncovered'[q].at = "shown",
               NEW c \in Uncovered'[q].nodes \cap expanded \cap Folders, c \in Subtree(n)
        PROVE  FALSE
    <3>1. q \in Places /\ ~Covered(q)' /\ c \in branch[q].nodes
      BY <1>1, <2>2, UncoveredNext
    <3>2. q # w.place
      BY <1>5, <3>1
    <3>3. Held(q, c)
      BY <3>1 DEF Held
    <3>4. parent[c] \in {q, Gone}
      BY <1>1, <2>2, <3>1, <3>3 DEF HomeInv
    <3>5. CASE c = n
      <4>1. parent[n] \in {w.place, Gone}
        BY <1>1, <1>9, <2>2, <3>5 DEF HomeInv, n
      <4>2. parent[n] \in Places
        BY <1>9 DEF Deleted, Active
      <4>3. QED
        BY <1>4, <3>2, <3>4, <3>5, <4>1, <4>2
    <3>6. CASE c # n
      BY <1>4, <2>1, <2>2, <3>4, <3>6
    <3>7. QED
      BY <3>5, <3>6
  <2>3. Closed(S, Uncovered', expanded')
    <3>1. Root \in S
      BY <1>4, <2>1
    <3>2. \A q \in S : Uncovered'[q].at = "shown" =>
              Uncovered'[q].nodes \cap expanded \cap Folders \subseteq S
      BY <1>4, <2>2
    <3>3. QED
      BY <1>1, <3>1, <3>2 DEF Closed
  <2>4. Firm' \subseteq S
    BY <2>3, OnPageLeast DEF Firm
  <2>5. QED
    BY <2>4
<1>10. ASSUME NEW p \in Places, NEW N, Content(p, N)', StaleBy(p, N)'
      PROVE  p \in Folders /\ parent'[p] = Gone /\ p \notin Firm'
  <2>1. Content(p, N)
    BY <1>1, <1>10 DEF Content
  <2>2. branch[p].at # "off"
    BY <1>1, <2>1, ContentOn
  <2>3. p # w.place /\ ~Covered(p) /\ p \notin behind
    BY <1>1, <1>5, <1>10 DEF StaleBy
  <2>4. n \notin Children(p)
    BY <1>1, <1>10, <2>2, <2>3 DEF StaleBy
  <2>5. CASE Children(p)' = Children(p)
    <3>1. StaleBy(p, N)
      BY <1>10, <2>3, <2>5 DEF StaleBy
    <3>2. p \in Folders /\ parent[p] = Gone /\ p \notin Firm
      BY <1>1, <2>1, <3>1, StaleMeans
    <3>3. QED
      BY <1>6, <1>8, <3>2
  <2>6. CASE Children(p)' # Children(p)
    <3>1. CASE Created(n, w.place)
      <4>1. Children(p)' = Children(p)
        BY <1>2, <1>4, <2>3, <3>1 DEF Created, Children
      <4>2. QED
        BY <2>6, <4>1
    <3>2. CASE Renamed(n)
      BY <2>6, <3>2 DEF Renamed, Children
    <3>3. CASE w.kind = "delete" /\ Deleted(n)
      <4>1. PICK x \in Children(p) : x \in Subtree(n)
        BY <1>4, <2>6, <3>3 DEF Deleted, Children
      <4>2. x # n /\ parent[x] = p
        BY <2>4, <4>1 DEF Children
      <4>3. p \in Subtree(n) /\ Subtree(n) \subseteq Nodes
        BY <1>2, <4>1, <4>2, SubtreeFacts
      <4>4. p \in Folders /\ parent'[p] = Gone
        BY <1>4, <3>3, <4>3 DEF Deleted
      <4>5. QED
        BY <1>9, <3>3, <4>3, <4>4
    <3>4. QED
      BY <1>7, <3>1, <3>2, <3>3
  <2>7. QED
    BY <2>5, <2>6
<1>11. QED
  BY <1>10, StaleNext

\* Somebody else changes the tree: what that leaves stale is behind.
LEMMA ElsewhereStale ==
  ASSUME IInv, Elsewhere
  PROVE  StaleInv'
<1>1. /\ TypeOK /\ PageInv /\ StaleInv
      /\ UNCHANGED <<branch, expanded, gets, writes>>
      /\ behind' = behind \cup
          {p \in Places : branch[p].at # "off" /\ Children(p) # Children(p)'}
  BY DEF IInv, Elsewhere
<1>2. /\ parent \in [Nodes -> Places \cup {None, Gone}] /\ Gone \notin Nodes \cup Places
      /\ Folders \subseteq Nodes /\ None # Gone
  BY <1>1, TypeParts, ConstantFacts
<1>3. \A c \in Folders : parent[c] = Gone => parent'[c] = Gone
  <2>1. ASSUME NEW n \in Nodes, NEW p, Created(n, p)
        PROVE  \A c \in Folders : parent[c] = Gone => parent'[c] = Gone
    BY <1>2, <2>1 DEF Created
  <2>2. ASSUME NEW n \in Nodes, Deleted(n)
        PROVE  \A c \in Folders : parent[c] = Gone => parent'[c] = Gone
    BY <1>2, <2>2 DEF Deleted
  <2>3. ASSUME NEW n \in Nodes \ Folders, NEW p, parent' = [parent EXCEPT ![n] = p]
        PROVE  \A c \in Folders : parent[c] = Gone => parent'[c] = Gone
    BY <1>2, <2>3
  <2>4. QED
    BY <2>1, <2>2, <2>3 DEF Elsewhere
<1>4. \A p \in Places : Covered(p)' <=> Covered(p)
  BY <1>1 DEF Covered
<1>5. Firm' \subseteq Firm
  BY <1>1, <1>4, FirmShrinks
<1>6. ASSUME NEW p \in Places, NEW N, Content(p, N)', StaleBy(p, N)'
      PROVE  p \in Folders /\ parent'[p] = Gone /\ p \notin Firm'
  <2>1. Content(p, N)
    BY <1>1, <1>6 DEF Content
  <2>2. branch[p].at # "off" /\ p \notin behind /\ ~Covered(p)
    BY <1>1, <1>4, <1>6, <2>1, ContentOn DEF StaleBy
  <2>3. Children(p)' = Children(p)
    BY <1>1, <1>6, <2>2 DEF StaleBy
  <2>4. StaleBy(p, N)
    BY <1>6, <2>2, <2>3 DEF StaleBy
  <2>5. QED
    BY <1>1, <1>3, <1>5, <2>1, <2>4, StaleMeans
<1>7. QED
  BY <1>6, StaleNext

\* What is stale stays accounted for.
LEMMA StaleStep ==
  ASSUME IInv, [Next]_vars
  PROVE  StaleInv'
<1>1. CASE UserNext
  BY <1>1, UserCases, UserStale DEF IInv
<1>2. CASE UNCHANGED vars
  BY <1>2 DEF vars, backendVars, pastVars, IInv, StaleInv, StaleBy, Covered, Uncovered, Firm,
              OnPage, Children
<1>3. QED
  BY <1>1, <1>2, ServeGetStale, AnswerGetStale, ReloadStale, ServeStale, AnswerStale,
     ElsewhereStale DEF Next

-----------------------------------------------------------------------------
(* The theorems.                                                           *)

\* In the beginning the root's branch loads, and nothing is shown.
LEMMA IInvInit == Init => IInv
<1> SUFFICES ASSUME Init PROVE IInv
  OBVIOUS
<1>1. TypeOK /\ MenuInv
  BY TypeInit
<1>2. /\ Off.at = "off" /\ ~Off.due /\ Off.nodes = {}
      /\ Loading.at = "loading" /\ ~Loading.due /\ Loading.nodes = {}
      /\ Get(Root).place = Root /\ Get(Root).at = "sent" /\ Get(Root).nodes = {}
      /\ Nothing.node = None
  BY DEF Off, Loading, Get, Nothing
<1>3. /\ branch[Root] = Loading /\ \A p \in Places \ {Root} : branch[p] = Off
      /\ gets = {Get(Root)} /\ menu = Nothing /\ writes = {}
      /\ Root \in Places /\ None \notin Folders
  BY ConstantFacts DEF Init
<1>4. Root \in OnPage(branch, expanded)
  BY OnPageClosed DEF Closed
<1>5. PageInv
  BY <1>2, <1>3, <1>4 DEF PageInv
<1>6. FreshInv
  BY <1>2, <1>3 DEF FreshInv
<1>7. OwnWritesShown
  BY <1>2, <1>3 DEF OwnWritesShown
<1>8. \A p \in Places : branch[p].at # "shown" /\ branch[p].nodes = {}
  BY <1>2, <1>3
<1>9. HomeInv
  <2>1. \A p \in Places : \A c : ~Held(p, c)
    BY <1>2, <1>3, <1>8 DEF Held
  <2>2. QED
    BY <1>2, <1>3, <2>1 DEF HomeInv
<1>10. StaleInv
  BY <1>2, <1>3, <1>8 DEF StaleInv
<1>11. QED
  BY <1>1, <1>5, <1>6, <1>7, <1>9, <1>10 DEF IInv

\* The invariant is inductive, and no step takes a branch back.
LEMMA IInvStep == IInv /\ [Next]_vars => IInv' /\ Forwards
<1> SUFFICES ASSUME IInv, [Next]_vars PROVE IInv' /\ Forwards
  OBVIOUS
<1>1. TypeOK' /\ MenuInv'
  BY TypeStep DEF IInv
<1>2. PageInv' /\ FreshInv' /\ OwnWritesShown' /\ Forwards
  BY PageStep
<1>3. HomeInv' /\ StaleInv'
  BY HomeStep, StaleStep
<1>4. QED
  BY <1>1, <1>2, <1>3 DEF IInv

\* The invariant holds in every state.
LEMMA Invariance == Spec => []IInv
BY IInvInit, IInvStep, PTL DEF Spec

\* The variables of the tree, the page, the menu and the requests keep their
\* types; no answer is from a change that has not been made.
THEOREM TypeCorrect == Spec => []TypeOK
<1>1. IInv => TypeOK
  BY DEF IInv
<1>2. QED
  BY <1>1, Invariance, PTL

\* A branch says that it is loading exactly while there is one load under way
\* whose answer loadNodes will take: a spinner does not stay, and an answer that
\* a cleaned-up effect has given up does not overwrite a newer one.
THEOREM LoadsAreAwaited == Spec => []LoadingIsAwaited
<1>1. ASSUME IInv PROVE LoadingIsAwaited
  <2> SUFFICES ASSUME NEW p \in Places
               PROVE  Cardinality({g \in gets : g.place = p})
                        = IF branch[p].at = "loading" THEN 1 ELSE 0
    BY DEF LoadingIsAwaited
  <2>1. /\ branch[p].at = "loading" <=> \E g \in gets : g.place = p
        /\ \A g, h \in gets : g.place = h.place => g = h
    BY <1>1 DEF IInv, PageInv
  <2>2. CASE branch[p].at = "loading"
    <3>1. PICK g \in gets : {h \in gets : h.place = p} = {g}
      BY <2>1, <2>2
    <3>2. Cardinality({g}) = 1
      BY FS_Singleton
    <3>3. QED
      BY <2>2, <3>1, <3>2
  <2>3. CASE branch[p].at # "loading"
    <3>1. {h \in gets : h.place = p} = {}
      BY <2>1, <2>3
    <3>2. Cardinality({}) = 0
      BY FS_EmptySet
    <3>3. QED
      BY <2>3, <3>1, <3>2
  <2>4. QED
    BY <2>2, <2>3
<1>2. QED
  BY <1>1, Invariance, PTL

\* The user sees what the user has done: a branch that is not to be reloaded
\* shows its place as it was after the last write in it whose answer the page
\* has had, whichever loads refreshBranch found under way.
THEOREM OwnWritesAreShown == Spec => []OwnWritesShown
<1>1. IInv => OwnWritesShown
  BY DEF IInv
<1>2. QED
  BY <1>1, Invariance, PTL

\* When nothing is under way, what is on the page is the tree: a write of the
\* user's leaves no branch stale but the one it reloads, however folders were
\* created, deleted and toggled while it was under way.  A deleted folder, which
\* ListChildren answers for as for an empty one, is on the page only below a
\* branch that others have changed, or of whose change the page was not told.
THEOREM QuietPageIsTrue == Spec => []QuietIsTrue
<1>1. ASSUME IInv, Quiet, NEW p \in Places, branch[p].at = "shown", p \notin behind
      PROVE  branch[p].nodes = Children(p)
  <2> SUFFICES ASSUME branch[p].nodes # Children(p) PROVE FALSE
    OBVIOUS
  <2>1. PageInv /\ StaleInv
    BY <1>1 DEF IInv
  <2>2. \A q \in Places : ~Covered(q)
    BY <1>1 DEF Quiet, Covered
  <2>3. Content(p, branch[p].nodes) /\ StaleBy(p, branch[p].nodes)
    BY <1>1, <2>2 DEF Content, StaleBy
  <2>4. p \notin Firm
    BY <2>1, <2>3, StaleMeans
  <2>5. Closed(Firm, Uncovered, expanded) /\ Firm \subseteq Places
    BY OnPageClosed DEF Firm
  <2>6. \A q \in Firm : Uncovered[q] = branch[q]
    BY <2>2, <2>5 DEF Uncovered
  <2>7. Closed(Firm, branch, expanded)
    BY <2>5, <2>6 DEF Closed
  <2>8. p \in OnPage(branch, expanded)
    BY <1>1, <2>1 DEF PageInv
  <2>9. QED
    BY <2>4, <2>7, <2>8, OnPageLeast
<1>2. ASSUME IInv, Quiet, NEW p \in Places, branch[p].at = "shown", ~Exists(p)
      PROVE  \E q \in behind : Shown(p, q)
  <2>1. p \in OnPage(branch, expanded) /\ p # Root
    BY <1>2 DEF IInv, PageInv, Exists
  <2>2. PICK q \in OnPage(branch, expanded) :
            branch[q].at = "shown" /\ p \in branch[q].nodes \cap expanded \cap Folders
    BY <2>1, OnPageShower
  <2>3. q \in Places /\ Folders \subseteq Nodes
    BY OnPageClosed, ConstantFacts
  <2>4. CASE q \notin behind
    <3>1. p \in Children(q)
      BY <1>1, <1>2, <2>2, <2>3, <2>4
    <3>2. Exists(p)
      BY <2>3, <3>1 DEF Children, Exists, Active
    <3>3. QED
      BY <1>2, <3>2
  <2>5. QED
    BY <2>2, <2>4 DEF Shown
<1>3. IInv => QuietIsTrue
  BY <1>1, <1>2 DEF QuietIsTrue
<1>4. QED
  BY <1>3, Invariance, PTL

\* A branch that stays on the page is never set back to an older state of the
\* tree, in whatever order the answers to its loads arrive.
THEOREM NeverSetBack == Spec => NeverBackwards
<1>1. IInv /\ [Next]_vars =>
        [\A p \in Places :
          branch[p].at # "off" /\ branch'[p].at # "off" => branch'[p].asOf >= branch[p].asOf]_vars
  BY IInvStep DEF Forwards
<1>2. QED
  BY <1>1, Invariance, PTL DEF Spec, NeverBackwards

=============================================================================

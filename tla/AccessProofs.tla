---------------------------- MODULE AccessProofs ----------------------------
(***************************************************************************)
(* Proofs about Access, for any users, groups, nodes, lists of entries and *)
(* number of requests.                                                     *)
(*                                                                         *)
(* The invariant says what each request has established so far, as long as *)
(* nobody has changed what it is about: that the leader it is about to     *)
(* write is a member, that the member it is about to remove is not the     *)
(* leader, that the rows it has locked are all there are of the group, and *)
(* for a resolution, that what it has read is still what there is to read. *)
(***************************************************************************)
EXTENDS Access, WellFoundedInduction, TLAPS

-----------------------------------------------------------------------------
(* What a request may still have to do *)

toInsert == <<"insert">>
toUpdate == <<"update">>
toFindUpdate == <<"find", "update">>
toAddUpdate == <<"add", "update">>
toLookUpdate == <<"is_member", "add", "update">>
toChange == <<"find", "is_member", "add", "update">>
toAdd == <<"add">>
toFindAdd == <<"find", "add">>
toRemove == <<"remove">>
toFindRemove == <<"find", "remove">>
toDrop == <<"drop">>
toDelete == <<"clear", "drop">>
toReplace == <<"replace">>
toGroups == <<"groups">>
toResolve == <<"ancestors", "groups">>

\* A request that is about a group, with a user or, at these statements, without.
OnGroup(q, with, without) ==
    /\ q.group \in Groups
    /\ \/ q.todo \in with /\ q.user \in Users
       \/ q.todo \in without /\ q.user = None

Rest(q) ==
    \/ q.op = "none" /\ q.todo = <<>> /\ q.answer = ""
    \/ q.op = "create" /\ q.answer = "" /\ OnGroup(q, {toInsert}, {})
    \/ q.op = "rename" /\ q.answer = "" /\ OnGroup(q, {toUpdate}, {toFindUpdate})
    \/ /\ q.op = "change" /\ q.answer = ""
       /\ OnGroup(q, {toChange, toLookUpdate, toAddUpdate, toUpdate}, {})
    \/ q.op = "add" /\ q.answer = "" /\ OnGroup(q, {toFindAdd, toAdd}, {})
    \/ q.op = "remove" /\ q.answer = "" /\ OnGroup(q, {toFindRemove, toRemove}, {})
    \/ q.op = "delete" /\ q.answer = "" /\ OnGroup(q, {}, {toDelete, toDrop})
    \/ q.op = "set" /\ q.answer = "" /\ q.todo = toReplace /\ q.node \in Nodes
    \/ /\ q.op = "resolve" /\ q.user \in Users /\ q.node \in Nodes
       /\ \/ q.answer = "" /\ q.todo \in {toResolve, toGroups}
          \/ q.answer \in Levels /\ q.todo = <<>>

-----------------------------------------------------------------------------
(* The invariant *)

\* What requests that write have established.
LeaderToBe(q) == q.todo = toUpdate => q.user \in members[q.group]

NotTheLeader(q) == q.todo = toRemove => q.user # leader[q.group]

AllItsRows(q) == q.todo = toDrop => RowsOf(q.group) \subseteq q.nodes

SubjectsExist(q) == q.op = "set" => DOMAIN q.entries \cap Groups \subseteq Existing

Grounded(q) == LeaderToBe(q) /\ NotTheLeader(q) /\ AllItsRows(q) /\ SubjectsExist(q)

\* What a resolution has: it is left to the groups of the user, or it is over.
LeftToGroups(q) ==
    /\ q.user \notin Managers
    /\ q.entries = EffectiveRows(q.node) /\ q.entries # <<>>
    /\ q.user \notin DOMAIN q.entries

ByTheRules(q) ==
    \A l \in Levels \ {"none"} : (Rank[q.answer] >= Rank[l]) <=> MayAtLeast(q.user, q.node, l)

Resolving(q) ==
    /\ q.todo = toGroups => LeftToGroups(q)
    /\ q.answer # "" => ByTheRules(q)

Standing(q) == q.stale \/ ((overlap \/ Grounded(q)) /\ Resolving(q))

IInv ==
    /\ TypeOK /\ LeaderIsMember /\ NoRowsOfGoneGroups
    /\ \A r \in Reqs : Rest(req[r]) /\ Standing(req[r])

-----------------------------------------------------------------------------
(* How a permission is resolved                                            *)

\* The order of the levels.
LEMMA RankIs ==
  /\ Rank["none"] = 0 /\ Rank["readable"] = 1 /\ Rank["edit"] = 2 /\ Rank["manage"] = 3
  /\ \A l \in Levels : Rank[l] \in Nat
  /\ \A l \in Levels \ {"none"} : Rank[l] > 0
<1>1. Rank["none"] = 0 /\ Rank["readable"] = 1 /\ Rank["edit"] = 2 /\ Rank["manage"] = 3
  BY DEF Rank
<1>2. QED
  BY <1>1 DEF Levels

\* Of the levels that match, none wins, and otherwise the highest.
LEMMA LevelOfIs ==
  ASSUME NEW L \in SUBSET Levels, L # {}
  PROVE  /\ LevelOf(L) \in L
         /\ \A l \in Levels \ {"none"} :
              (Rank[LevelOf(L)] >= Rank[l])
                <=> ("none" \notin L /\ \E k \in L : Rank[k] >= Rank[l])
<1>1. CASE "none" \in L
  <2>1. LevelOf(L) = "none"
    BY <1>1 DEF LevelOf
  <2>2. QED
    BY <1>1, <2>1, RankIs
<1>2. CASE "none" \notin L
  <2>1. \E m \in L : \A k \in L : Rank[m] >= Rank[k]
    <3>1. CASE "manage" \in L
      BY <3>1, RankIs DEF Levels
    <3>2. CASE "manage" \notin L /\ "edit" \in L
      BY <3>2, RankIs DEF Levels
    <3>3. CASE "manage" \notin L /\ "edit" \notin L
      <4>1. L = {"readable"}
        BY <1>2, <3>3 DEF Levels
      <4>2. QED
        BY <4>1, RankIs
    <3>4. QED
      BY <3>1, <3>2, <3>3
  <2>2. LevelOf(L) \in L /\ \A k \in L : Rank[LevelOf(L)] >= Rank[k]
    BY <1>2, <2>1 DEF LevelOf
  <2>3. ASSUME NEW l \in Levels, NEW k \in L, Rank[k] >= Rank[l] PROVE Rank[LevelOf(L)] >= Rank[l]
    <3>1. Rank[LevelOf(L)] \in Nat /\ Rank[k] \in Nat /\ Rank[l] \in Nat
      BY <2>2, RankIs
    <3>2. QED
      BY <2>2, <2>3, <3>1
  <2>4. QED
    BY <1>2, <2>2, <2>3
<1>3. QED
  BY <1>1, <1>2

\* A set of numbers has a least one.
LEMMA Least == ASSUME NEW S \in SUBSET Nat, S # {} PROVE \E i \in S : \A j \in S : i <= j
<1>1. PICK i \in S : \A j \in S : ~(<<j, i>> \in OpToRel(<, Nat))
  BY NatLessThanWellFounded, WFMin, Zenon
<1>2. \A j \in S : ~(j < i)
  BY <1>1, Zenon DEF OpToRel
<1>3. QED
  BY <1>2

\* The effective rows are those of the nearest node with any.
LEMMA Nearest ==
  ASSUME NEW n \in Nodes
  PROVE  \/ /\ EffectiveRows(n) = <<>>
            /\ \A i \in DOMAIN Ancestry[n] : rows[Ancestry[n][i]] = <<>>
         \/ \E i \in DOMAIN Ancestry[n] :
              /\ Decides(n, i)
              /\ EffectiveRows(n) = rows[Ancestry[n][i]]
<1> DEFINE with == {i \in DOMAIN Ancestry[n] : rows[Ancestry[n][i]] # <<>>}
           first == CHOOSE i \in with : \A j \in with : i <= j
<1>1. Ancestry[n] \in Seq(Nodes)
  BY AccessAssumption
<1>2. DOMAIN Ancestry[n] = 1..Len(Ancestry[n]) /\ Len(Ancestry[n]) \in Nat
  BY <1>1
<1>3. with \in SUBSET Nat /\ with \subseteq DOMAIN Ancestry[n]
  BY <1>2
<1>4. EffectiveRows(n) = IF with = {} THEN <<>> ELSE rows[Ancestry[n][first]]
  BY DEF EffectiveRows
<1>5. CASE with = {}
  BY <1>4, <1>5
<1>6. CASE with # {}
  <2>1. \E i \in with : \A j \in with : i <= j
    BY <1>3, <1>6, Least
  <2>2. first \in with /\ \A j \in with : first <= j
    BY <2>1
  <2> HIDE DEF first
  <2>3. Decides(n, first)
    <3>1. \A j \in 1..(first - 1) : j \in DOMAIN Ancestry[n] /\ j \notin with
      BY <1>2, <1>3, <2>2
    <3>2. QED
      BY <2>2, <3>1 DEF Decides
  <2>4. QED
    BY <1>4, <1>6, <2>2, <2>3
<1>7. QED
  BY <1>5, <1>6

\* The rows e that count for the user u.
Counted(u, e) ==
    {s \in DOMAIN e : s = u \/ (u \notin DOMAIN e /\ s \in Groups /\ u \in members[s])}

\* The rules, in terms of the effective rows.
LEMMA RulesOnRows ==
  ASSUME NEW u, u \notin Managers, NEW n \in Nodes, NEW l
  PROVE  MayAtLeast(u, n, l) <=>
            /\ EffectiveRows(n) # <<>>
            /\ \E s \in Counted(u, EffectiveRows(n)) : Rank[EffectiveRows(n)[s]] >= Rank[l]
            /\ \A s \in Counted(u, EffectiveRows(n)) : EffectiveRows(n)[s] # "none"
<1>1. Ancestry[n] \in Seq(Nodes)
  BY AccessAssumption
<1>2. DOMAIN Ancestry[n] = 1..Len(Ancestry[n]) /\ Len(Ancestry[n]) \in Nat
  BY <1>1
<1>3. \A m : Counting(u, m) = Counted(u, rows[m])
  BY DEF Counting, Counted
<1>4. CASE /\ EffectiveRows(n) = <<>>
           /\ \A i \in DOMAIN Ancestry[n] : rows[Ancestry[n][i]] = <<>>
  BY <1>4 DEF MayAtLeast, Decides
<1>5. ASSUME NEW i \in DOMAIN Ancestry[n], Decides(n, i), EffectiveRows(n) = rows[Ancestry[n][i]]
      PROVE  MayAtLeast(u, n, l) <=>
            /\ EffectiveRows(n) # <<>>
            /\ \E s \in Counted(u, EffectiveRows(n)) : Rank[EffectiveRows(n)[s]] >= Rank[l]
            /\ \A s \in Counted(u, EffectiveRows(n)) : EffectiveRows(n)[s] # "none"
  <2>1. ASSUME NEW j \in DOMAIN Ancestry[n], Decides(n, j) PROVE j = i
    <3>1. i \in Nat /\ j \in Nat /\ i >= 1 /\ j >= 1
      BY <1>2
    <3>2. ~(j < i) /\ ~(i < j)
      BY <1>5, <2>1, <3>1 DEF Decides
    <3>3. QED
      BY <3>1, <3>2
  <2>2. EffectiveRows(n) # <<>>
    BY <1>5 DEF Decides
  <2>3. MayAtLeast(u, n, l) <=>
            /\ \E s \in Counting(u, Ancestry[n][i]) : Rank[rows[Ancestry[n][i]][s]] >= Rank[l]
            /\ \A s \in Counting(u, Ancestry[n][i]) : rows[Ancestry[n][i]][s] # "none"
    BY <1>5, <2>1 DEF MayAtLeast
  <2>4. QED
    BY <1>3, <1>5, <2>2, <2>3
<1>6. QED
  BY <1>4, <1>5, Nearest

-----------------------------------------------------------------------------
(* Requests                                                                *)

\* The statements come one after the other.
LEMMA Todos ==
  /\ toInsert # <<>> /\ Head(toInsert) = "insert" /\ Tail(toInsert) = <<>>
  /\ toUpdate # <<>> /\ Head(toUpdate) = "update" /\ Tail(toUpdate) = <<>>
  /\ toFindUpdate # <<>> /\ Head(toFindUpdate) = "find" /\ Tail(toFindUpdate) = toUpdate
  /\ toAddUpdate # <<>> /\ Head(toAddUpdate) = "add" /\ Tail(toAddUpdate) = toUpdate
  /\ toLookUpdate # <<>> /\ Head(toLookUpdate) = "is_member" /\ Tail(toLookUpdate) = toAddUpdate
  /\ toChange # <<>> /\ Head(toChange) = "find" /\ Tail(toChange) = toLookUpdate
  /\ toAdd # <<>> /\ Head(toAdd) = "add" /\ Tail(toAdd) = <<>>
  /\ toFindAdd # <<>> /\ Head(toFindAdd) = "find" /\ Tail(toFindAdd) = toAdd
  /\ toRemove # <<>> /\ Head(toRemove) = "remove" /\ Tail(toRemove) = <<>>
  /\ toFindRemove # <<>> /\ Head(toFindRemove) = "find" /\ Tail(toFindRemove) = toRemove
  /\ toDrop # <<>> /\ Head(toDrop) = "drop" /\ Tail(toDrop) = <<>>
  /\ toDelete # <<>> /\ Head(toDelete) = "clear" /\ Tail(toDelete) = toDrop
  /\ toReplace # <<>> /\ Head(toReplace) = "replace" /\ Tail(toReplace) = <<>>
  /\ toGroups # <<>> /\ Head(toGroups) = "groups" /\ Tail(toGroups) = <<>>
  /\ toResolve # <<>> /\ Head(toResolve) = "ancestors" /\ Tail(toResolve) = toGroups
  BY DEF toInsert, toUpdate, toFindUpdate, toAddUpdate, toLookUpdate, toChange, toAdd, toFindAdd,
         toRemove, toFindRemove, toDrop, toDelete, toReplace, toGroups, toResolve

\* Each of them is a sequence of statements.
LEMMA TodosAre ==
  /\ <<>> \in Seq(Statements) /\ toInsert \in Seq(Statements) /\ toUpdate \in Seq(Statements)
  /\ toFindUpdate \in Seq(Statements) /\ toAddUpdate \in Seq(Statements)
  /\ toLookUpdate \in Seq(Statements) /\ toChange \in Seq(Statements)
  /\ toAdd \in Seq(Statements) /\ toFindAdd \in Seq(Statements) /\ toRemove \in Seq(Statements)
  /\ toFindRemove \in Seq(Statements) /\ toDrop \in Seq(Statements)
  /\ toDelete \in Seq(Statements) /\ toReplace \in Seq(Statements)
  /\ toGroups \in Seq(Statements) /\ toResolve \in Seq(Statements)
  BY DEF Statements, toInsert, toUpdate, toFindUpdate, toAddUpdate, toLookUpdate, toChange,
         toAdd, toFindAdd, toRemove, toFindRemove, toDrop, toDelete, toReplace, toGroups, toResolve

\* Where each operation begins.
LEMMA StepsAre ==
  /\ DOMAIN Steps = {"create", "rename", "change", "add", "remove", "delete", "set", "resolve"}
  /\ Steps["create"] = toInsert /\ Steps["rename"] = toFindUpdate /\ Steps["change"] = toChange
  /\ Steps["add"] = toFindAdd /\ Steps["remove"] = toFindRemove /\ Steps["delete"] = toDelete
  /\ Steps["set"] = toReplace /\ Steps["resolve"] = toResolve
  BY DEF Steps, toInsert, toFindUpdate, toChange, toFindAdd, toFindRemove, toDelete, toReplace,
         toResolve

\* A slot that is free.
LEMMA FreeIs ==
  /\ Free \in Requests /\ Rest(Free)
  /\ Free.op = "none" /\ Free.group = None /\ Free.user = None /\ Free.node = None
  /\ Free.subjects = {} /\ Free.nodes = {} /\ Free.entries = <<>> /\ Free.answer = ""
  /\ Free.todo = <<>> /\ Free.stale = FALSE
<1>1. <<>> \in Grants
  BY DEF Grants
<1>2. Free \in Requests
  BY <1>1, TodosAre DEF Free, Requests
<1>3. QED
  BY <1>2 DEF Free, Rest

\* Where a request is that has something to do.
LEMMA Where ==
  ASSUME NEW q, Rest(q), q.todo # <<>>
  PROVE  /\ q.op # "none" /\ q.answer = ""
         /\ Head(q.todo) \in {"insert", "find", "is_member", "add", "update", "remove", "clear",
                              "drop"} =>
              q.group \in Groups /\ q.op \notin {"set", "resolve"}
         /\ Head(q.todo) = "insert" => q.todo = toInsert /\ q.user \in Users
         /\ Head(q.todo) = "find" =>
              \/ q.op = "rename" /\ q.todo = toFindUpdate /\ q.user = None
              \/ q.op = "change" /\ q.todo = toChange /\ q.user \in Users
              \/ q.op = "add" /\ q.todo = toFindAdd /\ q.user \in Users
              \/ q.op = "remove" /\ q.todo = toFindRemove /\ q.user \in Users
         /\ Head(q.todo) = "is_member" =>
              q.op = "change" /\ q.todo = toLookUpdate /\ q.user \in Users
         /\ Head(q.todo) = "add" =>
              /\ q.user \in Users
              /\ \/ q.op = "change" /\ q.todo = toAddUpdate
                 \/ q.op = "add" /\ q.todo = toAdd
         /\ Head(q.todo) = "update" => q.todo = toUpdate /\ q.user \in Users
         /\ Head(q.todo) = "remove" => q.todo = toRemove /\ q.user \in Users
         /\ Head(q.todo) = "clear" => q.op = "delete" /\ q.todo = toDelete /\ q.user = None
         /\ Head(q.todo) = "drop" => q.todo = toDrop
         /\ Head(q.todo) = "replace" => q.op = "set" /\ q.todo = toReplace /\ q.node \in Nodes
         /\ Head(q.todo) \in {"ancestors", "groups"} =>
              q.op = "resolve" /\ q.user \in Users /\ q.node \in Nodes
         /\ Head(q.todo) = "ancestors" => q.todo = toResolve
         /\ Head(q.todo) = "groups" => q.todo = toGroups
  BY Todos DEF Rest, OnGroup

\* Which requests have something established.
LEMMA WhoStands ==
  ASSUME NEW q, Rest(q)
  PROVE  /\ q.todo \in {toUpdate, toRemove, toDrop} => q.group \in Groups /\ q.op \notin {"set", "resolve"}
         /\ q.op = "set" => q.node \in Nodes
         /\ q.todo = toGroups \/ q.answer # "" => q.op = "resolve" /\ q.node \in Nodes
  BY Todos DEF Rest, OnGroup

\* A request that goes on,
LEMMA GoesOn ==
  ASSUME NEW q \in Requests, q.answer = "", Tail(q.todo) # <<>>, Tail(q.todo) \in Seq(Statements)
  PROVE  /\ Onward(q) \in Requests
         /\ Onward(q).op = q.op /\ Onward(q).group = q.group /\ Onward(q).user = q.user
         /\ Onward(q).node = q.node /\ Onward(q).nodes = q.nodes /\ Onward(q).entries = q.entries
         /\ Onward(q).answer = "" /\ Onward(q).todo = Tail(q.todo) /\ Onward(q).stale = q.stale
<1>1. Onward(q) = [q EXCEPT !.todo = Tail(q.todo)]
  BY DEF Onward
<1>2. QED
  BY <1>1 DEF Requests

\* and one that has come to its end.
LEMMA IsDone == ASSUME NEW q, q.answer = "", Tail(q.todo) = <<>> PROVE Onward(q) = Free
  BY DEF Onward

\* What a request is about.
LEMMA ConcernsAre ==
  ASSUME NEW q
  PROVE  /\ q.op = "resolve" => Concerns(q) = Groups \cup Range(Ancestry[q.node])
         /\ q.op = "set" => Concerns(q) = {q.node} \cup (DOMAIN q.entries \cap Groups)
         /\ q.op \notin {"resolve", "set"} => Concerns(q) = {q.group}
  BY DEF Concerns

-----------------------------------------------------------------------------
(* What stays true                                                         *)

\* Nothing but the groups and nodes of changed changes.
Frame(changed) ==
    /\ \A g \in Groups \ changed : leader'[g] = leader[g] /\ members'[g] = members[g]
    /\ \A n \in Nodes \ changed : rows'[n] = rows[n]
    /\ \A g \in Groups \ changed, n \in Nodes : g \in DOMAIN rows'[n] => g \in DOMAIN rows[n]

\* A request keeps what it has established about what does not change;
LEMMA GroundedKept ==
  ASSUME NEW q, Rest(q), NEW changed, Concerns(q) \cap changed = {}, Frame(changed), Grounded(q)
  PROVE  Grounded(q)'
<1>1. LeaderToBe(q)'
  BY WhoStands, ConcernsAre DEF LeaderToBe, Grounded, Frame
<1>2. NotTheLeader(q)'
  BY WhoStands, ConcernsAre DEF NotTheLeader, Grounded, Frame
<1>3. AllItsRows(q)'
  BY WhoStands, ConcernsAre DEF AllItsRows, Grounded, Frame, RowsOf
<1>4. SubjectsExist(q)'
  BY ConcernsAre DEF SubjectsExist, Grounded, Frame, Existing
<1>5. QED
  BY <1>1, <1>2, <1>3, <1>4 DEF Grounded

\* and a resolution what it has read and answered.
LEMMA ResolvingKept ==
  ASSUME NEW q, Rest(q), NEW changed, Concerns(q) \cap changed = {}, Frame(changed), Resolving(q)
  PROVE  Resolving(q)'
<1>1. CASE q.todo # toGroups /\ q.answer = ""
  BY <1>1 DEF Resolving
<1>2. CASE q.todo = toGroups \/ q.answer # ""
  <2>1. q.op = "resolve" /\ q.node \in Nodes
    BY <1>2, WhoStands
  <2>2. Ancestry[q.node] \in Seq(Nodes)
    BY <2>1, AccessAssumption
  <2>3. \A i \in DOMAIN Ancestry[q.node] : rows'[Ancestry[q.node][i]] = rows[Ancestry[q.node][i]]
    BY <2>1, <2>2, ConcernsAre DEF Frame, Range
  <2>4. \A g \in Groups : members'[g] = members[g]
    BY <2>1, ConcernsAre DEF Frame
  <2>5. EffectiveRows(q.node)' = EffectiveRows(q.node)
    <3> DEFINE with == {i \in DOMAIN Ancestry[q.node] : rows[Ancestry[q.node][i]] # <<>>}
               first == CHOOSE i \in with : \A j \in with : i <= j
               nowWith == {i \in DOMAIN Ancestry[q.node] : rows'[Ancestry[q.node][i]] # <<>>}
               nowFirst == CHOOSE i \in nowWith : \A j \in nowWith : i <= j
    <3>1. nowWith = with
      BY <2>3
    <3>2. nowFirst = first
      BY <3>1
    <3>3. with # {} => first \in with
      <4>1. with \in SUBSET Nat
        BY <2>2
      <4>2. QED
        BY <4>1, Least
    <3>4. EffectiveRows(q.node) = IF with = {} THEN <<>> ELSE rows[Ancestry[q.node][first]]
      BY DEF EffectiveRows
    <3>5. EffectiveRows(q.node)'
             = IF nowWith = {} THEN <<>> ELSE rows'[Ancestry[q.node][nowFirst]]
      BY DEF EffectiveRows
    <3> HIDE DEF first, nowFirst
    <3>6. with # {} => rows'[Ancestry[q.node][first]] = rows[Ancestry[q.node][first]]
      BY <2>3, <3>3
    <3> HIDE DEF with, nowWith
    <3>7. QED
      BY <3>1, <3>2, <3>4, <3>5, <3>6
  <2>6. \A i \in DOMAIN Ancestry[q.node] : Decides(q.node, i)' <=> Decides(q.node, i)
    <3>1. \A i \in DOMAIN Ancestry[q.node] : \A j \in 1..(i - 1) : j \in DOMAIN Ancestry[q.node]
      BY <2>2
    <3>2. QED
      BY <2>3, <3>1 DEF Decides
  <2>7. \A u : \A i \in DOMAIN Ancestry[q.node] :
            Counting(u, Ancestry[q.node][i])' = Counting(u, Ancestry[q.node][i])
    BY <2>3, <2>4 DEF Counting
  <2>8. \A u, l : MayAtLeast(u, q.node, l)' <=> MayAtLeast(u, q.node, l)
    BY <2>3, <2>6, <2>7 DEF MayAtLeast
  <2>9. LeftToGroups(q) => LeftToGroups(q)'
    BY <2>5 DEF LeftToGroups
  <2>10. ByTheRules(q) => ByTheRules(q)'
    BY <2>8 DEF ByTheRules
  <2>11. QED
    BY <2>9, <2>10 DEF Resolving
<1>3. QED
  BY <1>1, <1>2

-----------------------------------------------------------------------------
(* Steps                                                                   *)

\* What the invariant says of a request that has nothing to show yet.
LEMMA NothingYet ==
  ASSUME NEW q, q.todo \notin {toUpdate, toRemove, toDrop, toGroups}, q.op # "set", q.answer = ""
  PROVE  Standing(q)
  BY DEF Standing, Grounded, LeaderToBe, NotTheLeader, AllItsRows, SubjectsExist, Resolving

\* A request moves on, and changes nothing but what it has established.
LEMMA Passes ==
  ASSUME IInv, NEW r \in Reqs, NEW q \in Requests, Passed(r, q), Rest(q), Standing(q)
  PROVE  IInv'
<1>1. UNCHANGED <<leader, members, rows, used, overlap>>
  BY DEF Passed
<1>2. req \in [Reqs -> Requests] /\ req' = [req EXCEPT ![r] = q]
  BY DEF Passed, IInv, TypeOK
<1>3. req' \in [Reqs -> Requests] /\ req'[r] = q /\ \A p \in Reqs : p # r => req'[p] = req[p]
  BY <1>2
<1>4. TypeOK'
  BY <1>1, <1>3 DEF IInv, TypeOK
<1>5. LeaderIsMember' /\ NoRowsOfGoneGroups'
  BY <1>1 DEF IInv, LeaderIsMember, NoRowsOfGoneGroups, Existing
<1>6. \A p : Rest(p) /\ Standing(p) => Standing(p)'
  <2>1. Frame({})
    BY <1>1 DEF Frame
  <2>2. \A p : Rest(p) => (Grounded(p) => Grounded(p)') /\ (Resolving(p) => Resolving(p)')
    BY <2>1, GroundedKept, ResolvingKept
  <2>3. QED
    BY <1>1, <2>2 DEF Standing
<1>7. \A p \in Reqs : Rest(req'[p]) /\ Standing(req[p])'
  <2>1. \A p \in Reqs : Rest(req'[p]) /\ Standing(req'[p])
    BY <1>3 DEF IInv
  <2>2. QED
    BY <1>6, <2>1
<1>8. QED
  BY <1>4, <1>5, <1>7 DEF IInv, Rest, OnGroup

\* A request writes: whoever is about what it changes knows no more, and the
\* others keep what they have.
LEMMA Writes ==
  ASSUME IInv, NEW r \in Reqs, NEW changed, Wrote(r, changed), Frame(changed),
         leader' \in [Groups -> Users \cup {None}], members' \in [Groups -> SUBSET Users],
         rows' \in [Nodes -> Grants], used' \subseteq Groups,
         \A g \in Groups : leader'[g] = None => members'[g] = {},
         NEW q \in Requests, q = Onward(req[r]), Rest(q), q.answer = "", q.todo # toGroups,
         \/ overlap \/ req[r].stale
         \/ /\ \A g \in Groups : leader'[g] # None => leader'[g] \in members'[g]
            /\ \A n \in Nodes : \A g \in DOMAIN rows'[n] \cap Groups : leader'[g] # None
            /\ Grounded(q)'
  PROVE  IInv'
<1>1. /\ req \in [Reqs -> Requests] /\ overlap \in BOOLEAN
      /\ \A p \in Reqs : req[p] \in Requests /\ req[p].stale \in BOOLEAN
  BY DEF IInv, TypeOK, Requests
<1> DEFINE told(p) == [req[p] EXCEPT !.stale = @ \/ (req[p].op # "none" /\ Concerns(req[p]) \cap changed # {})]
<1>2. /\ req' = [p \in Reqs |-> IF p = r THEN q ELSE told(p)]
      /\ overlap' = (overlap \/ req[r].stale)
  BY DEF Wrote
<1>3. ASSUME NEW p \in Reqs
      PROVE  /\ told(p) \in Requests
             /\ told(p).op = req[p].op /\ told(p).group = req[p].group /\ told(p).user = req[p].user
             /\ told(p).node = req[p].node /\ told(p).subjects = req[p].subjects
             /\ told(p).nodes = req[p].nodes /\ told(p).entries = req[p].entries
             /\ told(p).answer = req[p].answer /\ told(p).todo = req[p].todo
  <2>1. (req[p].stale \/ (req[p].op # "none" /\ Concerns(req[p]) \cap changed # {})) \in BOOLEAN
    OBVIOUS
  <2>2. QED
    BY <1>1, <2>1 DEF Requests
<1>4. ASSUME NEW p \in Reqs
      PROVE  told(p).stale <=> req[p].stale \/ (req[p].op # "none" /\ Concerns(req[p]) \cap changed # {})
  BY <1>1 DEF Requests
<1> HIDE DEF told
<1>5. /\ req' \in [Reqs -> Requests] /\ req'[r] = q
      /\ \A p \in Reqs : p # r => req'[p] = told(p)
  BY <1>2, <1>3
<1>6. TypeOK'
  BY <1>1, <1>2, <1>5 DEF TypeOK
<1>7. overlap' \/ (LeaderIsMember' /\ NoRowsOfGoneGroups')
  BY <1>2 DEF LeaderIsMember, NoRowsOfGoneGroups, Existing
<1>8. Standing(req[r])'
  <2>1. Resolving(q)'
    BY DEF Resolving
  <2>2. overlap' \/ Grounded(q)'
    BY <1>2
  <2>3. QED
    BY <1>5, <2>1, <2>2 DEF Standing
<1>9. ASSUME NEW p \in Reqs, p # r PROVE Rest(req'[p]) /\ Standing(req[p])'
  <2>1. Rest(req[p]) /\ Standing(req[p]) /\ req'[p] = told(p)
    BY <1>5, <1>9 DEF IInv
  <2>2. Rest(told(p))
    BY <1>3, <2>1 DEF Rest, OnGroup
  <2>3. CASE told(p).stale
    <3>1. req'[p].stale
      BY <2>1, <2>3, Zenon
    <3>2. QED
      BY <2>1, <2>2, <3>1 DEF Standing
  <2>4. CASE ~told(p).stale
    <3>1. (overlap \/ Grounded(req[p])) /\ Resolving(req[p])
      BY <1>4, <2>1, <2>4 DEF Standing
    <3>2. Grounded(req[p]) => Grounded(told(p))
      BY <1>3 DEF Grounded, LeaderToBe, NotTheLeader, AllItsRows, SubjectsExist
    <3>3. Resolving(told(p))
      BY <1>3, <3>1 DEF Resolving, LeftToGroups, ByTheRules
    <3>4. CASE req[p].op # "none"
      <4>1. Concerns(told(p)) = Concerns(req[p])
        BY <1>3 DEF Concerns
      <4>2. Concerns(told(p)) \cap changed = {}
        BY <1>4, <2>4, <3>4, <4>1
      <4>3. \A x : Rest(x) /\ Concerns(x) \cap changed = {} =>
                (Grounded(x) => Grounded(x)') /\ (Resolving(x) => Resolving(x)')
        BY GroundedKept, ResolvingKept
      <4>4. (Grounded(told(p)) => Grounded(req[p])') /\ Resolving(req[p])'
        BY <2>1, <2>2, <3>3, <4>2, <4>3
      <4>5. QED
        BY <1>2, <2>1, <2>2, <3>1, <3>2, <4>4 DEF Standing
    <3>5. CASE req[p].op = "none"
      <4>1. req'[p].op = "none" /\ req'[p].todo = <<>> /\ req'[p].answer = ""
        BY <1>3, <2>1, <3>5 DEF Rest
      <4>2. QED
        <5>1. \A x : x.op = "none" /\ x.todo = <<>> /\ x.answer = "" =>
                  Grounded(x)' /\ Resolving(x)'
          BY Todos DEF Grounded, LeaderToBe, NotTheLeader, AllItsRows, SubjectsExist, Resolving
        <5>2. QED
          BY <2>1, <2>2, <4>1, <5>1 DEF Standing
    <3>6. QED
      BY <3>4, <3>5
  <2>5. QED
    BY <2>1, <2>2, <2>3, <2>4
<1>10. QED
  BY <1>5, <1>6, <1>7, <1>8, <1>9 DEF IInv, Rest, OnGroup, LeaderIsMember, NoRowsOfGoneGroups

-----------------------------------------------------------------------------
(* A request begins                                                        *)

\* What a request looks like that begins.
LEMMA Begins ==
  ASSUME NEW b \in Requests, b.op \in DOMAIN Steps, NEW q, q = [b EXCEPT !.todo = Steps[b.op]]
  PROVE  /\ q \in Requests /\ q.todo = Steps[b.op]
         /\ q.op = b.op /\ q.group = b.group /\ q.user = b.user /\ q.node = b.node
         /\ q.subjects = b.subjects /\ q.nodes = b.nodes /\ q.entries = b.entries
         /\ q.answer = b.answer /\ q.stale = b.stale
<1>1. Steps[b.op] \in Seq(Statements)
  BY StepsAre, TodosAre
<1>2. QED
  BY <1>1 DEF Requests

\* The statements to come tell requests apart.
LEMMA TodosDiffer ==
  /\ {toInsert, toFindUpdate, toAddUpdate, toLookUpdate, toChange, toAdd, toFindAdd, toFindRemove,
      toDelete, toReplace, toResolve, <<>>} \cap {toUpdate, toRemove, toDrop, toGroups} = {}
  /\ toUpdate \notin {toRemove, toDrop, toGroups} /\ toRemove \notin {toDrop, toGroups}
  /\ toDrop # toGroups
  BY Todos

\* A request to create a group comes in, for a group there has never been.
LEMMA BeginCreateKeeps ==
  ASSUME IInv, NEW r \in Reqs, NEW g \in Groups, NEW u \in Users, BeginCreate(r, g, u)
  PROVE  IInv'
<1> DEFINE b == [Free EXCEPT !.op = "create", !.group = g, !.user = u]
           q == [b EXCEPT !.todo = Steps[b.op]]
<1>1. Passed(r, q)
  BY DEF BeginCreate, Begin
<1>2. b.op = "create" /\ b.group = g /\ b.user = u /\ b.answer = ""
  BY FreeIs DEF Requests
<1>3. b \in Requests
  BY FreeIs, <1>2, StepsAre DEF Requests
<1> HIDE DEF b
<1>4. /\ q \in Requests /\ q.todo = toInsert /\ q.op = "create" /\ q.group = g /\ q.user = u
      /\ q.answer = ""
  <2>1. b.op \in DOMAIN Steps /\ Steps[b.op] = toInsert
    BY <1>2, StepsAre
  <2>2. q = [b EXCEPT !.todo = Steps[b.op]]
    OBVIOUS
  <2> HIDE DEF q
  <2>3. QED
    BY <1>2, <1>3, <2>1, <2>2, Begins
<1> HIDE DEF q
<1>5. Rest(q)
  BY <1>4 DEF Rest, OnGroup
<1>6. Standing(q)
  BY <1>4, NothingYet, TodosDiffer
<1>7. QED
  BY <1>1, <1>4, <1>5, <1>6, Passes

\* UpdateGroup, DeleteGroup, AddMember and RemoveMember enter likewise.
LEMMA BeginGroupKeeps ==
  ASSUME IInv, NEW r \in Reqs, NEW g \in Groups, NEW op, NEW u, BeginGroup(r, op, g, u),
         \/ op \in {"change", "add", "remove"} /\ u \in Users
         \/ op \in {"rename", "delete"} /\ u = None
  PROVE  IInv'
<1> DEFINE b == [Free EXCEPT !.op = op, !.group = g, !.user = u]
           q == [b EXCEPT !.todo = Steps[b.op]]
<1>1. Passed(r, q)
  BY DEF BeginGroup, Begin
<1>2. b.op = op /\ b.group = g /\ b.user = u /\ b.answer = ""
  BY FreeIs DEF Requests
<1>3. b \in Requests
  BY FreeIs, <1>2, StepsAre DEF Requests
<1> HIDE DEF b
<1>4. /\ q \in Requests /\ q.todo = Steps[op] /\ q.op = op /\ q.group = g /\ q.user = u
      /\ q.answer = ""
  BY <1>2, <1>3, Begins, StepsAre
<1> HIDE DEF q
<1>5. Rest(q)
  BY <1>4, StepsAre DEF Rest, OnGroup
<1>6. q.todo \in {toChange, toFindAdd, toFindRemove, toFindUpdate, toDelete}
  BY <1>4, StepsAre
<1>7. Standing(q)
  BY <1>4, <1>6, NothingYet, TodosDiffer
<1>8. QED
  BY <1>1, <1>4, <1>5, <1>7, Passes

\* SetNodePermissions enters, with entries that are grants already.
LEMMA BeginSetKeeps ==
  ASSUME IInv, NEW r \in Reqs, NEW n \in Nodes, NEW e \in Entries, BeginSet(r, n, e)
  PROVE  IInv'
<1> DEFINE b == [Free EXCEPT !.op = "set", !.node = n, !.entries = e, !.subjects = DOMAIN e \cap Groups]
           q == [b EXCEPT !.todo = Steps[b.op]]
<1>1. Passed(r, q)
  BY DEF BeginSet, Begin
<1>2. b.op = "set" /\ b.node = n /\ b.entries = e /\ b.answer = "" /\ b.subjects = DOMAIN e \cap Groups
  BY FreeIs DEF Requests
<1>3. e \in Grants
  BY AccessAssumption
<1>4. b \in Requests
  BY FreeIs, <1>2, <1>3, StepsAre DEF Requests
<1> HIDE DEF b
<1>5. /\ q \in Requests /\ q.todo = toReplace /\ q.op = "set" /\ q.node = n /\ q.entries = e
      /\ q.answer = ""
  <2>1. b.op \in DOMAIN Steps /\ Steps[b.op] = toReplace
    BY <1>2, StepsAre
  <2>2. q = [b EXCEPT !.todo = Steps[b.op]]
    OBVIOUS
  <2> HIDE DEF q
  <2>3. QED
    BY <1>2, <1>4, <2>1, <2>2, Begins
<1> HIDE DEF q
<1>6. Rest(q)
  BY <1>5 DEF Rest
<1>7. Standing(q)
  BY <1>5, TodosDiffer
  DEF Standing, Grounded, LeaderToBe, NotTheLeader, AllItsRows, SubjectsExist, Resolving, BeginSet
<1>8. QED
  BY <1>1, <1>5, <1>6, <1>7, Passes

\* ResolveNodePermission enters, with nothing read.
LEMMA BeginResolveKeeps ==
  ASSUME IInv, NEW r \in Reqs, NEW u \in Users, NEW n \in Nodes, BeginResolve(r, u, n)
  PROVE  IInv'
<1> DEFINE b == [Free EXCEPT !.op = "resolve", !.user = u, !.node = n]
           q == [b EXCEPT !.todo = Steps[b.op]]
<1>1. Passed(r, q)
  BY DEF BeginResolve, Begin
<1>2. b.op = "resolve" /\ b.user = u /\ b.node = n /\ b.answer = ""
  BY FreeIs DEF Requests
<1>3. b \in Requests
  BY FreeIs, <1>2, StepsAre DEF Requests
<1> HIDE DEF b
<1>4. /\ q \in Requests /\ q.todo = toResolve /\ q.op = "resolve" /\ q.user = u /\ q.node = n
      /\ q.answer = ""
  <2>1. b.op \in DOMAIN Steps /\ Steps[b.op] = toResolve
    BY <1>2, StepsAre
  <2>2. q = [b EXCEPT !.todo = Steps[b.op]]
    OBVIOUS
  <2> HIDE DEF q
  <2>3. QED
    BY <1>2, <1>3, <2>1, <2>2, Begins
<1> HIDE DEF q
<1>5. Rest(q)
  BY <1>4 DEF Rest
<1>6. Standing(q)
  BY <1>4, NothingYet, TodosDiffer
<1>7. QED
  BY <1>1, <1>4, <1>5, <1>6, Passes

\* A request that has been answered leaves, and takes its grounds along.
LEMMA FinishKeeps == ASSUME IInv, NEW r \in Reqs, Finish(r) PROVE IInv'
<1>1. Standing(Free)
  BY FreeIs, NothingYet, TodosDiffer
<1>2. QED
  BY <1>1, FreeIs, Passes DEF Finish

-----------------------------------------------------------------------------
(* A request looks                                                         *)

\* What the types give of a request.
LEMMA RequestTypes ==
  ASSUME NEW q \in Requests
  PROVE  /\ q.user \in Users \cup {None} /\ q.group \in Groups \cup {None} /\ q.entries \in Grants
         /\ q.nodes \in SUBSET Nodes /\ q.subjects \in SUBSET Groups /\ q.stale \in BOOLEAN
         /\ q.answer \in Levels \cup {""} /\ q.todo \in Seq(Statements)
  BY DEF Requests

\* The invariant of one request.
LEMMA OfRequest ==
  ASSUME IInv, NEW r \in Reqs
  PROVE  /\ req[r] \in Requests /\ Rest(req[r]) /\ Standing(req[r])
         /\ leader \in [Groups -> Users \cup {None}] /\ members \in [Groups -> SUBSET Users]
         /\ rows \in [Nodes -> Grants]
  BY DEF IInv, TypeOK

\* FindByID of the group: the leader noted is the one the table holds.
LEMMA FindKeeps == ASSUME IInv, NEW r \in Reqs, Find(r) PROVE IInv'
<1> DEFINE g == req[r].group
           who == IF req[r].user = None THEN leader[g] ELSE req[r].user
           b == [req[r] EXCEPT !.user = who]
<1>1. /\ At(r, "find") /\ g \in Existing /\ Passed(r, Onward(b))
      /\ req[r].op = "remove" => req[r].user # leader[g]
  BY DEF Find, Removable
<1>2. /\ req[r] \in Requests /\ Rest(req[r]) /\ leader \in [Groups -> Users \cup {None}]
      /\ None \notin Users
  BY OfRequest, AccessAssumption
<1>3. /\ req[r].answer = "" /\ g \in Groups
      /\ \/ req[r].op = "rename" /\ req[r].todo = toFindUpdate /\ who = leader[g]
         \/ req[r].op = "change" /\ req[r].todo = toChange
         \/ req[r].op = "add" /\ req[r].todo = toFindAdd
         \/ req[r].op = "remove" /\ req[r].todo = toFindRemove /\ who = req[r].user
  BY <1>1, <1>2, Where DEF At
<1>4. who \in Users
  BY <1>1, <1>2, RequestTypes DEF Existing
<1> HIDE DEF who
<1>5. /\ b \in Requests /\ b.op = req[r].op /\ b.group = g /\ b.user = who
      /\ b.answer = "" /\ b.todo = req[r].todo /\ b.stale = req[r].stale
  BY <1>2, <1>3, <1>4 DEF Requests
<1> HIDE DEF b
<1>6. Tail(b.todo) # <<>> /\ Tail(b.todo) \in Seq(Statements)
  BY <1>3, <1>5, Todos, TodosAre
<1> DEFINE q == Onward(b)
<1>7. /\ q \in Requests /\ q.op = req[r].op /\ q.group = g /\ q.user = who
      /\ q.answer = "" /\ q.todo = Tail(req[r].todo) /\ q.stale = req[r].stale
  BY <1>5, <1>6, GoesOn
<1> HIDE DEF q
<1>8. \/ q.op = "rename" /\ q.todo = toUpdate /\ who = leader[g]
      \/ q.op = "change" /\ q.todo = toLookUpdate
      \/ q.op = "add" /\ q.todo = toAdd
      \/ q.op = "remove" /\ q.todo = toRemove /\ who # leader[g]
  BY <1>1, <1>3, <1>7, Todos
<1>9. Rest(q)
  BY <1>3, <1>4, <1>7, <1>8 DEF Rest, OnGroup
<1>10. Standing(q)
  <2>1. CASE q.op = "rename" /\ q.todo = toUpdate /\ who = leader[g]
    <3>1. overlap \/ LeaderToBe(q)
      BY <1>1, <1>7, <2>1 DEF LeaderToBe, IInv, LeaderIsMember
    <3>2. QED
      BY <1>7, <2>1, <3>1, TodosDiffer
      DEF Standing, Grounded, NotTheLeader, AllItsRows, SubjectsExist, Resolving
  <2>2. CASE q.op \in {"change", "add"} /\ q.todo \in {toLookUpdate, toAdd}
    BY <1>7, <2>2, NothingYet, TodosDiffer
  <2>3. CASE q.op = "remove" /\ q.todo = toRemove /\ who # leader[g]
    BY <1>7, <2>3, TodosDiffer
    DEF Standing, Grounded, LeaderToBe, NotTheLeader, AllItsRows, SubjectsExist, Resolving
  <2>4. QED
    BY <1>8, <2>1, <2>2, <2>3
<1>11. QED
  BY <1>1, <1>7, <1>9, <1>10, Passes DEF q

\* IsMember: the answer is noted, the tables stay.
LEMMA IsMemberKeeps == ASSUME IInv, NEW r \in Reqs, IsMember(r) PROVE IInv'
<1> DEFINE q == Onward(req[r])
           p == Onward(q)
<1>1. At(r, "is_member") /\ Passed(r, IF req[r].user \in members[req[r].group] THEN p ELSE q)
  BY DEF IsMember
<1>2. /\ req[r] \in Requests /\ Rest(req[r]) /\ req[r].todo = toLookUpdate /\ req[r].answer = ""
      /\ req[r].op = "change" /\ req[r].user \in Users /\ req[r].group \in Groups
  BY <1>1, OfRequest, Where DEF At
<1>3. /\ q \in Requests /\ q.op = "change" /\ q.group = req[r].group /\ q.user = req[r].user
      /\ q.answer = "" /\ q.todo = toAddUpdate
  <2>1. Tail(req[r].todo) = toAddUpdate /\ Tail(req[r].todo) # <<>> /\ Tail(req[r].todo) \in Seq(Statements)
    BY <1>2, Todos, TodosAre
  <2>2. QED
    BY <1>2, <2>1, GoesOn
<1> HIDE DEF q
<1>4. /\ p \in Requests /\ p.op = "change" /\ p.group = req[r].group /\ p.user = req[r].user
      /\ p.answer = "" /\ p.todo = toUpdate
  <2>1. Tail(q.todo) = toUpdate /\ Tail(q.todo) # <<>> /\ Tail(q.todo) \in Seq(Statements)
    BY <1>3, Todos, TodosAre
  <2>2. QED
    BY <1>3, <2>1, GoesOn
<1> HIDE DEF p
<1>5. Rest(q) /\ Rest(p)
  BY <1>2, <1>3, <1>4 DEF Rest, OnGroup
<1>6. CASE req[r].user \in members[req[r].group]
  <2>1. Standing(p)
    BY <1>4, <1>6, TodosDiffer
    DEF Standing, Grounded, LeaderToBe, NotTheLeader, AllItsRows, SubjectsExist, Resolving
  <2>2. QED
    BY <1>1, <1>4, <1>5, <1>6, <2>1, Passes
<1>7. CASE req[r].user \notin members[req[r].group]
  <2>1. Standing(q)
    BY <1>3, NothingYet, TodosDiffer
  <2>2. QED
    BY <1>1, <1>3, <1>5, <1>7, <2>1, Passes
<1>8. QED
  BY <1>6, <1>7

\* DeleteGroup locks the rows of its group.
LEMMA ClearKeeps == ASSUME IInv, NEW r \in Reqs, Clear(r) PROVE IInv'
<1> DEFINE b == [req[r] EXCEPT !.nodes = RowsOf(req[r].group)]
           q == Onward(b)
<1>1. At(r, "clear") /\ Passed(r, q)
  BY DEF Clear
<1>2. /\ req[r] \in Requests /\ Rest(req[r]) /\ req[r].todo = toDelete /\ req[r].answer = ""
      /\ req[r].op = "delete" /\ req[r].user = None /\ req[r].group \in Groups
  BY <1>1, OfRequest, Where DEF At
<1>3. RowsOf(req[r].group) \in SUBSET Nodes
  BY DEF RowsOf
<1>4. /\ b \in Requests /\ b.op = "delete" /\ b.group = req[r].group /\ b.user = None
      /\ b.nodes = RowsOf(req[r].group) /\ b.answer = "" /\ b.todo = toDelete
  BY <1>2, <1>3 DEF Requests
<1> HIDE DEF b
<1>5. /\ q \in Requests /\ q.op = "delete" /\ q.group = req[r].group /\ q.user = None
      /\ q.nodes = RowsOf(req[r].group) /\ q.answer = "" /\ q.todo = toDrop
  <2>1. Tail(b.todo) = toDrop /\ Tail(b.todo) # <<>> /\ Tail(b.todo) \in Seq(Statements)
    BY <1>4, Todos, TodosAre
  <2>2. QED
    BY <1>4, <2>1, GoesOn
<1> HIDE DEF q
<1>6. Rest(q)
  BY <1>2, <1>5 DEF Rest, OnGroup
<1>7. Standing(q)
  BY <1>5, TodosDiffer
  DEF Standing, Grounded, LeaderToBe, NotTheLeader, AllItsRows, SubjectsExist, Resolving
<1>8. QED
  BY <1>1, <1>5, <1>6, <1>7, Passes

\* A group of the entries has been found and needs not be found again.
LEMMA FindSubjectKeeps == ASSUME IInv, NEW r \in Reqs, NEW g \in Groups, FindSubject(r, g) PROVE IInv'
<1> DEFINE q == [req[r] EXCEPT !.subjects = req[r].subjects \ {g}]
<1>1. At(r, "replace") /\ Passed(r, q)
  BY DEF FindSubject
<1>2. req[r] \in Requests /\ Rest(req[r]) /\ Standing(req[r])
  BY OfRequest
<1>3. /\ q \in Requests /\ q.op = req[r].op /\ q.group = req[r].group /\ q.user = req[r].user
      /\ q.node = req[r].node /\ q.nodes = req[r].nodes /\ q.entries = req[r].entries
      /\ q.answer = req[r].answer /\ q.todo = req[r].todo /\ q.stale = req[r].stale
  <2>1. req[r].subjects \ {g} \in SUBSET Groups
    BY <1>2, RequestTypes
  <2>2. QED
    BY <1>2, <2>1 DEF Requests
<1> HIDE DEF q
<1>4. Rest(q)
  BY <1>2, <1>3 DEF Rest, OnGroup
<1>5. Standing(q)
  <2>1. Grounded(req[r]) => Grounded(q)
    BY <1>3 DEF Grounded, LeaderToBe, NotTheLeader, AllItsRows, SubjectsExist
  <2>2. Resolving(req[r]) => Resolving(q)
    BY <1>3 DEF Resolving, LeftToGroups, ByTheRules
  <2>3. QED
    BY <1>2, <1>3, <2>1, <2>2 DEF Standing
<1>6. QED
  BY <1>1, <1>3, <1>4, <1>5, Passes

-----------------------------------------------------------------------------
(* A permission is resolved                                                *)

\* A list of rows gives levels to subjects.
LEMMA GrantsAre ==
  ASSUME NEW e \in Grants
  PROVE  \A s \in DOMAIN e : e[s] \in Levels
<1>1. CASE e = <<>>
  BY <1>1
<1>2. ASSUME NEW S \in SUBSET (Users \cup Groups), e \in [S -> Levels]
      PROVE  \A s \in DOMAIN e : e[s] \in Levels
  BY <1>2
<1>3. QED
  BY <1>1, <1>2 DEF Grants

\* The effective rows are rows of a node, or none.
LEMMA EffectiveAre == ASSUME TypeOK, NEW n \in Nodes PROVE EffectiveRows(n) \in Grants
<1>1. rows \in [Nodes -> Grants] /\ <<>> \in Grants /\ Ancestry[n] \in Seq(Nodes)
  BY AccessAssumption DEF TypeOK, Grants
<1>2. \A i \in DOMAIN Ancestry[n] : rows[Ancestry[n][i]] \in Grants
  BY <1>1
<1>3. QED
  BY <1>1, <1>2, Nearest

\* An answer that is given is the one of the rules.
LEMMA AnsweredKeeps ==
  ASSUME IInv, NEW r \in Reqs, req[r].op = "resolve", req[r].user \in Users, req[r].node \in Nodes,
         NEW a \in Levels, Answered(r, a),
         req[r].stale \/
           \A l \in Levels \ {"none"} :
              (Rank[a] >= Rank[l]) <=> MayAtLeast(req[r].user, req[r].node, l)
  PROVE  IInv'
<1> DEFINE q == [req[r] EXCEPT !.answer = a, !.entries = <<>>, !.todo = <<>>]
<1>1. Passed(r, q)
  BY DEF Answered
<1>2. req[r] \in Requests /\ <<>> \in Grants /\ a # ""
  BY OfRequest DEF Grants, Levels
<1>3. /\ q \in Requests /\ q.op = "resolve" /\ q.user = req[r].user /\ q.node = req[r].node
      /\ q.answer = a /\ q.todo = <<>> /\ q.stale = req[r].stale
  BY <1>2, TodosAre DEF Requests
<1> HIDE DEF q
<1>4. Rest(q)
  BY <1>3 DEF Rest
<1>5. Standing(q)
  <2>1. Grounded(q)
    BY <1>3, TodosDiffer DEF Grounded, LeaderToBe, NotTheLeader, AllItsRows, SubjectsExist
  <2>2. q.stale \/ ByTheRules(q)
    BY <1>3 DEF ByTheRules
  <2>3. q.todo # toGroups
    BY <1>3, TodosDiffer
  <2>4. QED
    BY <2>1, <2>2, <2>3 DEF Standing, Resolving
<1>6. QED
  BY <1>1, <1>3, <1>4, <1>5, Passes

\* The ancestors' rows are read in one statement.
LEMMA ReadAncestorsKeeps == ASSUME IInv, NEW r \in Reqs, ReadAncestors(r) PROVE IInv'
<1> DEFINE n == req[r].node
           u == req[r].user
           e == EffectiveRows(n)
<1>1. At(r, "ancestors")
  BY DEF ReadAncestors
<1>2. /\ req[r] \in Requests /\ Rest(req[r]) /\ req[r].todo = toResolve /\ req[r].answer = ""
      /\ req[r].op = "resolve" /\ u \in Users /\ n \in Nodes
  BY <1>1, OfRequest, Where DEF At
<1>3. e \in Grants /\ \A s \in DOMAIN e : e[s] \in Levels
  BY <1>2, EffectiveAre, GrantsAre DEF IInv
<1>4. "manage" \in Levels /\ "none" \in Levels
  BY DEF Levels
<1>5. CASE u \in Managers
  <2>1. Answered(r, "manage")
    BY <1>5 DEF ReadAncestors
  <2>2. \A l \in Levels \ {"none"} : Rank["manage"] >= Rank[l]
    BY RankIs DEF Levels
  <2>3. QED
    BY <1>2, <1>4, <1>5, <2>1, <2>2, AnsweredKeeps DEF MayAtLeast
<1>6. CASE u \notin Managers /\ e = <<>>
  <2>1. Answered(r, "none")
    BY <1>6 DEF ReadAncestors
  <2>2. \A l \in Levels \ {"none"} : ~(Rank["none"] >= Rank[l])
    BY RankIs
  <2>3. \A l : ~MayAtLeast(u, n, l)
    BY <1>2, <1>6, RulesOnRows
  <2>4. QED
    BY <1>2, <1>4, <2>1, <2>2, <2>3, AnsweredKeeps
<1>7. CASE u \notin Managers /\ e # <<>> /\ u \in DOMAIN e
  <2> DEFINE a == LevelOf({e[u]})
  <2>1. Answered(r, a)
    BY <1>7 DEF ReadAncestors
  <2>2. Counted(u, e) = {u}
    BY <1>7 DEF Counted
  <2>3. \A l : MayAtLeast(u, n, l) <=> Rank[e[u]] >= Rank[l] /\ e[u] # "none"
    BY <1>2, <1>7, <2>2, RulesOnRows
  <2>4. {e[u]} \in SUBSET Levels
    BY <1>3, <1>7
  <2>5. /\ a \in Levels
        /\ \A l \in Levels \ {"none"} : (Rank[a] >= Rank[l]) <=> (e[u] # "none" /\ Rank[e[u]] >= Rank[l])
    BY <2>4, LevelOfIs
  <2> HIDE DEF a
  <2>6. QED
    BY <1>2, <2>1, <2>3, <2>5, AnsweredKeeps
<1>8. CASE u \notin Managers /\ e # <<>> /\ u \notin DOMAIN e
  <2> DEFINE b == [req[r] EXCEPT !.entries = e]
             q == Onward(b)
  <2>1. Passed(r, q)
    BY <1>8 DEF ReadAncestors
  <2>2. /\ b \in Requests /\ b.op = "resolve" /\ b.user = u /\ b.node = n /\ b.entries = e
        /\ b.answer = "" /\ b.todo = toResolve
    BY <1>2, <1>3 DEF Requests
  <2> HIDE DEF b
  <2>3. Tail(b.todo) = toGroups /\ Tail(b.todo) # <<>> /\ Tail(b.todo) \in Seq(Statements)
    BY <2>2, Todos, TodosAre
  <2>4. /\ q \in Requests /\ q.op = "resolve" /\ q.user = u /\ q.node = n /\ q.entries = e
        /\ q.answer = "" /\ q.todo = toGroups
    BY <2>2, <2>3, GoesOn
  <2> HIDE DEF q
  <2>5. Rest(q)
    BY <1>2, <2>4 DEF Rest
  <2>6. Standing(q)
    BY <1>8, <2>4, TodosDiffer
    DEF Standing, Grounded, LeaderToBe, NotTheLeader, AllItsRows, SubjectsExist, Resolving, LeftToGroups
  <2>7. QED
    BY <2>1, <2>4, <2>5, <2>6, Passes
<1>9. QED
  BY <1>5, <1>6, <1>7, <1>8

\* The user's groups are read in another, which decides the answer.
LEMMA ReadGroupsKeeps == ASSUME IInv, NEW r \in Reqs, ReadGroups(r) PROVE IInv'
<1> DEFINE n == req[r].node
           u == req[r].user
           e == req[r].entries
           mine == {h \in DOMAIN e \cap Groups : u \in members[h]}
           levels == {e[g] : g \in mine}
           a == IF levels = {} THEN "none" ELSE LevelOf(levels)
<1>1. At(r, "groups") /\ Answered(r, a)
  BY DEF ReadGroups
<1>2. /\ req[r] \in Requests /\ Rest(req[r]) /\ req[r].todo = toGroups /\ req[r].answer = ""
      /\ req[r].op = "resolve" /\ u \in Users /\ n \in Nodes /\ Standing(req[r])
  BY <1>1, OfRequest, Where DEF At
<1>3. levels \in SUBSET Levels
  BY <1>2, RequestTypes, GrantsAre
<1>4. a \in Levels
  BY <1>3, LevelOfIs DEF Levels
<1>5. \A l \in Levels \ {"none"} :
          (Rank[a] >= Rank[l]) <=> ("none" \notin levels /\ \E k \in levels : Rank[k] >= Rank[l])
  <2>1. CASE levels = {}
    BY <2>1, RankIs
  <2>2. CASE levels # {}
    BY <1>3, <2>2, LevelOfIs
  <2>3. QED
    BY <2>1, <2>2
<1>6. ASSUME ~req[r].stale, NEW l \in Levels \ {"none"}
      PROVE  (Rank[a] >= Rank[l]) <=> MayAtLeast(u, n, l)
  <2>1. u \notin Managers /\ e = EffectiveRows(n) /\ e # <<>> /\ u \notin DOMAIN e
    BY <1>2, <1>6 DEF Standing, Resolving, LeftToGroups
  <2>2. Counted(u, EffectiveRows(n)) = mine
    BY <2>1 DEF Counted
  <2>3. MayAtLeast(u, n, l) <=>
            (\E s \in mine : Rank[e[s]] >= Rank[l]) /\ (\A s \in mine : e[s] # "none")
    BY <1>2, <2>1, <2>2, RulesOnRows
  <2>4. QED
    BY <1>5, <1>6, <2>3
<1> HIDE DEF a
<1>7. QED
  BY <1>1, <1>2, <1>4, <1>6, AnsweredKeeps

-----------------------------------------------------------------------------
(* A request writes                                                        *)

\* Nothing is asked of a slot that is free.
LEMMA FreeGrounded == Grounded(Free)'
  BY FreeIs, TodosDiffer DEF Grounded, LeaderToBe, NotTheLeader, AllItsRows, SubjectsExist

\* The tables as long as no request has written on what is no longer current.
LEMMA Tables ==
  ASSUME IInv
  PROVE  /\ \A g \in Groups : leader[g] = None => members[g] = {}
         /\ overlap \/ \A g \in Groups : leader[g] # None => leader[g] \in members[g]
         /\ overlap \/ \A n \in Nodes : \A g \in DOMAIN rows[n] \cap Groups : leader[g] # None
         /\ leader \in [Groups -> Users \cup {None}] /\ members \in [Groups -> SUBSET Users]
         /\ rows \in [Nodes -> Grants] /\ used \subseteq Groups
         /\ None \notin Users
  BY AccessAssumption DEF IInv, TypeOK, LeaderIsMember, NoRowsOfGoneGroups, Existing

\* A new group: its creator leads it and is its member.
LEMMA InsertKeeps == ASSUME IInv, NEW r \in Reqs, Insert(r) PROVE IInv'
<1> DEFINE g == req[r].group
<1>1. /\ At(r, "insert") /\ Wrote(r, {g})
      /\ leader' = [leader EXCEPT ![g] = req[r].user]
      /\ members' = [members EXCEPT ![g] = {req[r].user}]
      /\ used' = used \cup {g} /\ rows' = rows
  BY DEF Insert
<1>2. /\ req[r] \in Requests /\ req[r].todo = toInsert /\ req[r].answer = ""
      /\ req[r].user \in Users /\ g \in Groups
  BY <1>1, OfRequest, Where DEF At
<1>3. Onward(req[r]) = Free
  BY <1>2, IsDone, Todos
<1> HIDE DEF g
<1>4. /\ leader' \in [Groups -> Users \cup {None}] /\ members' \in [Groups -> SUBSET Users]
      /\ leader'[g] = req[r].user /\ members'[g] = {req[r].user}
      /\ \A h \in Groups \ {g} : leader'[h] = leader[h] /\ members'[h] = members[h]
  BY <1>1, <1>2, Tables
<1>5. Frame({g})
  BY <1>1, <1>4 DEF Frame
<1>6. /\ rows' \in [Nodes -> Grants] /\ used' \subseteq Groups
      /\ \A h \in Groups : leader'[h] = None => members'[h] = {}
  BY <1>1, <1>2, <1>4, Tables
<1>7. overlap \/ /\ \A h \in Groups : leader'[h] # None => leader'[h] \in members'[h]
                 /\ \A n \in Nodes : \A h \in DOMAIN rows'[n] \cap Groups : leader'[h] # None
  BY <1>1, <1>2, <1>4, Tables
<1>8. QED
  BY <1>1, <1>3, <1>4, <1>5, <1>6, <1>7, FreeIs, FreeGrounded, TodosDiffer, Writes

\* A member is inserted, which a group that has gone refuses.
LEMMA AddMemberKeeps == ASSUME IInv, NEW r \in Reqs, AddMember(r) PROVE IInv'
<1> DEFINE g == req[r].group
           q == Onward(req[r])
<1>1. /\ At(r, "add") /\ Wrote(r, {g}) /\ g \in Existing
      /\ members' = [members EXCEPT ![g] = members[g] \cup {req[r].user}]
      /\ UNCHANGED <<leader, rows, used>>
  BY DEF AddMember, Referable
<1>2. /\ req[r] \in Requests /\ req[r].answer = "" /\ req[r].user \in Users /\ g \in Groups
      /\ \/ req[r].op = "change" /\ req[r].todo = toAddUpdate
         \/ req[r].op = "add" /\ req[r].todo = toAdd
  BY <1>1, OfRequest, Where DEF At
<1> HIDE DEF g
<1>3. /\ members' \in [Groups -> SUBSET Users]
      /\ members'[g] = members[g] \cup {req[r].user}
      /\ \A h \in Groups \ {g} : members'[h] = members[h]
  BY <1>1, <1>2, Tables
<1>4. Frame({g})
  BY <1>1, <1>3 DEF Frame
<1>5. \A h \in Groups : leader'[h] = None => members'[h] = {}
  BY <1>1, <1>3, Tables DEF Existing
<1>6. overlap \/ /\ \A h \in Groups : leader'[h] # None => leader'[h] \in members'[h]
                 /\ \A n \in Nodes : \A h \in DOMAIN rows'[n] \cap Groups : leader'[h] # None
  BY <1>1, <1>3, Tables
<1>7. /\ leader' \in [Groups -> Users \cup {None}] /\ rows' \in [Nodes -> Grants]
      /\ used' \subseteq Groups
  BY <1>1, Tables
<1>8. PICK x \in Requests :
          x = q /\ Rest(x) /\ x.answer = "" /\ x.todo # toGroups /\ Grounded(x)'
  <2>1. CASE req[r].todo = toAdd
    <3>1. q = Free
      BY <1>2, <2>1, IsDone, Todos
    <3>2. QED
      BY <3>1, FreeIs, FreeGrounded, TodosDiffer
  <2>2. CASE req[r].op = "change" /\ req[r].todo = toAddUpdate
    <3>1. Tail(req[r].todo) = toUpdate /\ Tail(req[r].todo) # <<>>
          /\ Tail(req[r].todo) \in Seq(Statements)
      BY <2>2, Todos, TodosAre
    <3>2. /\ q \in Requests /\ q.op = "change" /\ q.group = g /\ q.user = req[r].user
          /\ q.answer = "" /\ q.todo = toUpdate
      BY <1>2, <2>2, <3>1, GoesOn DEF g
    <3> DEFINE who == req[r].user
    <3>3. who \in members'[g]
      BY <1>3
    <3> HIDE DEF q, who
    <3>4. Rest(q)
      BY <1>2, <3>2 DEF Rest, OnGroup, who
    <3>5. \A x : x.op = "change" /\ x.group = g /\ x.user = who /\ x.todo = toUpdate => Grounded(x)'
      BY <3>3, TodosDiffer DEF Grounded, LeaderToBe, NotTheLeader, AllItsRows, SubjectsExist
    <3>6. \E x \in Requests : x = q
      BY <3>2
    <3>7. QED
      BY <3>2, <3>4, <3>5, <3>6, TodosDiffer DEF who
  <2>3. QED
    BY <1>2, <2>1, <2>2
<1> HIDE DEF q
<1>9. x = Onward(req[r])
  BY <1>8 DEF q
<1>10. QED
  BY <1>1, <1>3, <1>4, <1>5, <1>6, <1>7, <1>8, <1>9, Writes

\* UpdateGroup writes the leader, whom it has found to be a member.
LEMMA UpdateKeeps == ASSUME IInv, NEW r \in Reqs, Update(r) PROVE IInv'
<1> DEFINE g == req[r].group
<1>1. /\ At(r, "update") /\ Wrote(r, {g}) /\ g \in Existing
      /\ leader' = [leader EXCEPT ![g] = req[r].user]
      /\ UNCHANGED <<members, rows, used>>
  BY DEF Update
<1>2. /\ req[r] \in Requests /\ req[r].todo = toUpdate /\ req[r].answer = ""
      /\ req[r].user \in Users /\ g \in Groups /\ Standing(req[r])
  BY <1>1, OfRequest, Where DEF At
<1>3. Onward(req[r]) = Free
  BY <1>2, IsDone, Todos
<1>4. overlap \/ req[r].stale \/ req[r].user \in members[g]
  BY <1>2 DEF Standing, Grounded, LeaderToBe
<1> HIDE DEF g
<1>5. /\ leader' \in [Groups -> Users \cup {None}] /\ leader'[g] = req[r].user
      /\ \A h \in Groups \ {g} : leader'[h] = leader[h]
  BY <1>1, <1>2, Tables
<1>6. Frame({g})
  BY <1>1, <1>5 DEF Frame
<1>7. /\ members' \in [Groups -> SUBSET Users] /\ rows' \in [Nodes -> Grants]
      /\ used' \subseteq Groups /\ \A h \in Groups : leader'[h] = None => members'[h] = {}
  BY <1>1, <1>2, <1>5, Tables
<1>8. overlap \/ req[r].stale \/
         /\ \A h \in Groups : leader'[h] # None => leader'[h] \in members'[h]
         /\ \A n \in Nodes : \A h \in DOMAIN rows'[n] \cap Groups : leader'[h] # None
  BY <1>1, <1>2, <1>4, <1>5, Tables
<1>9. QED
  BY <1>1, <1>3, <1>5, <1>6, <1>7, <1>8, FreeIs, FreeGrounded, TodosDiffer, Writes

\* A member goes, who was not the leader when the group was read.
LEMMA RemoveKeeps == ASSUME IInv, NEW r \in Reqs, Remove(r) PROVE IInv'
<1> DEFINE g == req[r].group
<1>1. /\ At(r, "remove") /\ Wrote(r, {g})
      /\ members' = [members EXCEPT ![g] = members[g] \ {req[r].user}]
      /\ UNCHANGED <<leader, rows, used>>
  BY DEF Remove
<1>2. /\ req[r] \in Requests /\ req[r].todo = toRemove /\ req[r].answer = ""
      /\ req[r].user \in Users /\ g \in Groups /\ Standing(req[r])
  BY <1>1, OfRequest, Where DEF At
<1>3. Onward(req[r]) = Free
  BY <1>2, IsDone, Todos
<1>4. overlap \/ req[r].stale \/ req[r].user # leader[g]
  BY <1>2 DEF Standing, Grounded, NotTheLeader
<1> HIDE DEF g
<1>5. /\ members' \in [Groups -> SUBSET Users] /\ members'[g] = members[g] \ {req[r].user}
      /\ \A h \in Groups \ {g} : members'[h] = members[h]
  BY <1>1, <1>2, Tables
<1>6. Frame({g})
  BY <1>1, <1>5 DEF Frame
<1>7. /\ leader' \in [Groups -> Users \cup {None}] /\ rows' \in [Nodes -> Grants]
      /\ used' \subseteq Groups /\ \A h \in Groups : leader'[h] = None => members'[h] = {}
  BY <1>1, <1>2, <1>5, Tables
<1>8. overlap \/ req[r].stale \/
         /\ \A h \in Groups : leader'[h] # None => leader'[h] \in members'[h]
         /\ \A n \in Nodes : \A h \in DOMAIN rows'[n] \cap Groups : leader'[h] # None
  BY <1>1, <1>2, <1>4, <1>5, Tables
<1>9. QED
  BY <1>1, <1>3, <1>5, <1>6, <1>7, <1>8, FreeIs, FreeGrounded, TodosDiffer, Writes

\* A group goes, and by the cascades its members and its rows.
LEMMA DropKeeps == ASSUME IInv, NEW r \in Reqs, Drop(r) PROVE IInv'
<1> DEFINE g == req[r].group
           N == req[r].nodes
<1>1. /\ At(r, "drop") /\ Wrote(r, {g} \cup N)
      /\ leader' = [leader EXCEPT ![g] = None]
      /\ members' = [members EXCEPT ![g] = {}]
      /\ rows' = [n \in Nodes |-> IF n \in N THEN Restrict(rows[n], DOMAIN rows[n] \ {g}) ELSE rows[n]]
      /\ used' = used
  BY DEF Drop
<1>2. /\ req[r] \in Requests /\ req[r].todo = toDrop /\ req[r].answer = ""
      /\ g \in Groups /\ Standing(req[r])
  BY <1>1, OfRequest, Where DEF At
<1>3. Onward(req[r]) = Free
  BY <1>2, IsDone, Todos
<1>4. overlap \/ req[r].stale \/ \A n \in Nodes : g \in DOMAIN rows[n] => n \in N
  BY <1>2 DEF Standing, Grounded, AllItsRows, RowsOf
<1> HIDE DEF g, N
<1>5. /\ leader' \in [Groups -> Users \cup {None}] /\ members' \in [Groups -> SUBSET Users]
      /\ leader'[g] = None /\ members'[g] = {}
      /\ \A h \in Groups \ {g} : leader'[h] = leader[h] /\ members'[h] = members[h]
  BY <1>1, <1>2, Tables
<1>6. ASSUME NEW n \in Nodes, n \in N
      PROVE  rows'[n] \in Grants /\ DOMAIN rows'[n] = DOMAIN rows[n] \ {g}
  <2> DEFINE D == DOMAIN rows[n] \ {g}
  <2>1. rows'[n] = [s \in D |-> rows[n][s]]
    BY <1>1, <1>6 DEF Restrict
  <2>2. rows[n] \in Grants
    BY Tables
  <2>3. DOMAIN rows[n] \subseteq Users \cup Groups
    BY <2>2 DEF Grants
  <2>4. D \in SUBSET (Users \cup Groups)
    BY <2>3
  <2>5. \A s \in D : rows[n][s] \in Levels
    BY <2>2, GrantsAre
  <2> HIDE DEF D
  <2>6. rows'[n] \in [D -> Levels]
    BY <2>1, <2>5
  <2>7. QED
    BY <2>1, <2>4, <2>6 DEF Grants, D
<1>7. \A n \in Nodes \ N : rows'[n] = rows[n]
  BY <1>1
<1>8. rows' \in [Nodes -> Grants]
  <2>1. \A n \in Nodes : rows'[n] \in Grants
    BY <1>6, <1>7, Tables
  <2>2. rows' = [n \in Nodes |-> rows'[n]]
    BY <1>1
  <2>3. QED
    BY <2>1, <2>2
<1>9. \A n \in Nodes : DOMAIN rows'[n] \subseteq DOMAIN rows[n]
  BY <1>6, <1>7
<1>10. Frame({g} \cup N)
  BY <1>5, <1>7, <1>9 DEF Frame
<1>11. used' \subseteq Groups /\ \A h \in Groups : leader'[h] = None => members'[h] = {}
  BY <1>1, <1>5, Tables
<1>12. overlap \/ req[r].stale \/
         /\ \A h \in Groups : leader'[h] # None => leader'[h] \in members'[h]
         /\ \A n \in Nodes : \A h \in DOMAIN rows'[n] \cap Groups : leader'[h] # None
  <2>1. overlap \/ \A h \in Groups : leader'[h] # None => leader'[h] \in members'[h]
    BY <1>5, Tables
  <2>2. ASSUME ~overlap, ~req[r].stale, NEW n \in Nodes, NEW h \in DOMAIN rows'[n] \cap Groups
        PROVE  leader'[h] # None
    <3>1. h \in DOMAIN rows[n] /\ leader[h] # None
      BY <1>9, <2>2, Tables
    <3>2. h # g
      BY <1>4, <1>6, <2>2, <3>1
    <3>3. QED
      BY <1>5, <2>2, <3>1, <3>2
  <2>3. QED
    BY <2>1, <2>2
<1>13. QED
  BY <1>1, <1>3, <1>5, <1>8, <1>10, <1>11, <1>12, FreeIs, FreeGrounded, TodosDiffer, Writes

\* The rows of a node are replaced by the entries of the request.
LEMMA ReplaceKeeps == ASSUME IInv, NEW r \in Reqs, Replace(r) PROVE IInv'
<1> DEFINE n == req[r].node
           e == req[r].entries
           G == DOMAIN e \cap Groups
<1>1. /\ At(r, "replace") /\ Wrote(r, {n} \cup G)
      /\ rows' = [rows EXCEPT ![n] = e]
      /\ UNCHANGED <<leader, members, used>>
  BY DEF Replace
<1>2. /\ req[r] \in Requests /\ req[r].todo = toReplace /\ req[r].answer = ""
      /\ req[r].op = "set" /\ n \in Nodes /\ e \in Grants /\ Standing(req[r])
  BY <1>1, OfRequest, RequestTypes, Where DEF At
<1>3. Onward(req[r]) = Free
  BY <1>2, IsDone, Todos
<1>4. overlap \/ req[r].stale \/ \A g \in G : leader[g] # None
  BY <1>2 DEF Standing, Grounded, SubjectsExist, Existing
<1> HIDE DEF n, e
<1>5. rows' \in [Nodes -> Grants] /\ rows'[n] = e /\ \A m \in Nodes \ {n} : rows'[m] = rows[m]
  BY <1>1, <1>2, Tables
<1>6. Frame({n} \cup G)
  BY <1>1, <1>5 DEF Frame
<1>7. overlap \/ req[r].stale \/
         /\ \A h \in Groups : leader'[h] # None => leader'[h] \in members'[h]
         /\ \A m \in Nodes : \A h \in DOMAIN rows'[m] \cap Groups : leader'[h] # None
  BY <1>1, <1>4, <1>5, Tables
<1>8. /\ leader' \in [Groups -> Users \cup {None}] /\ members' \in [Groups -> SUBSET Users]
      /\ used' \subseteq Groups /\ \A h \in Groups : leader'[h] = None => members'[h] = {}
  BY <1>1, Tables
<1> HIDE DEF G
<1>9. QED
  BY <1>1, <1>3, <1>5, <1>6, <1>7, <1>8, FreeIs, FreeGrounded, TodosDiffer, Writes

-----------------------------------------------------------------------------
(* The theorems                                                            *)

\* The invariant holds at the start,
LEMMA IInvInit == Init => IInv
<1> SUFFICES ASSUME Init PROVE IInv
  OBVIOUS
<1>1. TypeOK
  <2>1. <<>> \in Grants
    BY DEF Grants
  <2>2. QED
    BY <2>1, FreeIs DEF Init, TypeOK
<1>2. LeaderIsMember /\ NoRowsOfGoneGroups
  BY DEF Init, LeaderIsMember, NoRowsOfGoneGroups, Existing
<1>3. Standing(Free)
  BY FreeIs, NothingYet, TodosDiffer
<1>4. \A r \in Reqs : Rest(req[r]) /\ Standing(req[r])
  BY <1>3, FreeIs DEF Init
<1>5. QED
  BY <1>1, <1>2, <1>4 DEF IInv

\* and no step breaks it.
LEMMA IInvStep == IInv /\ [Next]_vars => IInv'
<1> SUFFICES ASSUME IInv, [Next]_vars PROVE IInv'
  OBVIOUS
<1>1. ASSUME NEW r \in Reqs, BeginAny(r) PROVE IInv'
  BY <1>1, BeginCreateKeeps, BeginGroupKeeps, BeginSetKeeps, BeginResolveKeeps DEF BeginAny
<1>2. ASSUME NEW r \in Reqs, OfGroups(r) PROVE IInv'
  BY <1>2, InsertKeeps, FindKeeps, IsMemberKeeps, AddMemberKeeps, UpdateKeeps, RemoveKeeps,
     ClearKeeps, DropKeeps DEF OfGroups
<1>3. ASSUME NEW r \in Reqs, OfPermissions(r) PROVE IInv'
  BY <1>3, FindSubjectKeeps, ReplaceKeeps, ReadAncestorsKeeps, ReadGroupsKeeps DEF OfPermissions
<1>4. CASE UNCHANGED vars
  <2>1. UNCHANGED <<leader, members, rows, req, used, overlap>>
    BY <1>4 DEF vars
  <2>2. TypeOK' /\ LeaderIsMember' /\ NoRowsOfGoneGroups'
    BY <2>1 DEF IInv, TypeOK, LeaderIsMember, NoRowsOfGoneGroups, Existing
  <2>3. Frame({})
    BY <2>1 DEF Frame
  <2>4. \A p : Rest(p) => (Grounded(p) => Grounded(p)') /\ (Resolving(p) => Resolving(p)')
    BY <2>3, GroundedKept, ResolvingKept
  <2>5. \A p : Rest(p) /\ Standing(p) => Standing(p)'
    BY <2>1, <2>4 DEF Standing
  <2>6. \A r \in Reqs : Rest(req'[r]) /\ Standing(req[r])'
    BY <2>1, <2>5 DEF IInv
  <2>7. QED
    BY <2>1, <2>2, <2>6 DEF IInv, Rest, OnGroup
<1>5. QED
  BY <1>1, <1>2, <1>3, <1>4, FinishKeeps DEF Next

\* So it always holds.
LEMMA Invariance == Spec => []IInv
  BY IInvInit, IInvStep, PTL DEF Spec

\* The tables and the requests have their types, and only groups that exist
\* have members (the foreign key of group_members).
THEOREM TypeCorrect == Spec => []TypeOK
<1>1. IInv => TypeOK
  BY DEF IInv
<1>2. QED
  BY Invariance, <1>1, PTL

\* As long as no request writes on checks that are no longer current, every
\* group is led by one of its members, whatever UpdateGroup, AddMember,
\* RemoveMember and DeleteGroup do meanwhile.
THEOREM LeadersAreMembers == Spec => []LeaderIsMember
<1>1. IInv => LeaderIsMember
  BY DEF IInv
<1>2. QED
  BY Invariance, <1>1, PTL

\* With the same proviso, DeleteGroup leaves no row of node_permissions for a
\* group that is gone.
THEOREM NoRowsLeftBehind == Spec => []NoRowsOfGoneGroups
<1>1. IInv => NoRowsOfGoneGroups
  BY DEF IInv
<1>2. QED
  BY Invariance, <1>1, PTL

\* ResolvePermission gives the answer of the rules D-07a to D-07c for any chain
\* of ancestors, any rows and any memberships, if they stand still between its
\* two reads; no proviso on what else is written.
THEOREM AnswersFollowTheRules == Spec => []AnsweredByTheRules
<1>1. IInv => AnsweredByTheRules
  BY DEF IInv, AnsweredByTheRules, Standing, Resolving, ByTheRules
<1>2. QED
  BY Invariance, <1>1, PTL
=============================================================================

----------------------------- MODULE GroupsPage -----------------------------
(***************************************************************************)
(* The page on which a manager looks after the groups: AdminGroupsPage.tsx *)
(* with its cards, their lists of members and the dialog for a new group.  *)
(*                                                                         *)
(* A handler that awaits an answer goes on with the group and the members  *)
(* it was rendered with (its closure), while the page may have moved on.   *)
(* A turn of the event loop is one step; the render it causes, and the     *)
(* effect of a new reloadKey, are part of it.  The backend serves a        *)
(* request in one step (Access takes its services apart), but for a change *)
(* of leader that fails half-way; and it changes only as this manager      *)
(* asks.  A card's mode is left out: at any time the user can go from each *)
(* mode to each other.                                                     *)
(***************************************************************************)
EXTENDS Integers, FiniteSets

CONSTANTS
    Groups,     \* the groups there are or will be
    Users,      \* everybody
    Names,      \* the names a group may have
    None,       \* no group, name, user, request, or list of members
    Gone,       \* in the place of a group that has been deleted
    Start,      \* the groups in the beginning
    Slots,      \* requests under way at a time
    Used,       \* BOUND: the groups whose cards are used
    MaxChanges  \* BOUND: changes of the groups

GroupRows == [name : Names, leader : Users, members : SUBSET Users]

\* What a card shows of its group, and how often its list shows each user.
Items == [name : Names, leader : Users, count : Int]
MemberRows == [Users -> Nat]

Requests ==
    [kind : {"create", "rename", "leader", "delete", "members", "add", "remove"},
     group : Groups, name : Names \cup {None}, user : Users \cup {None},
     at : {"sent", "half", "ok"}, item : Items \cup {None}, rows : MemberRows \cup {None},
     mine : BOOLEAN, data : SUBSET Users]

ASSUME GroupsPageAssumption ==
    /\ Start \in [Groups -> GroupRows \cup {None}]
    /\ None \notin Groups \cup Names \cup Users
    /\ None \notin GroupRows \cup Items \cup MemberRows \cup Requests
    /\ Gone \notin GroupRows \cup {None}
    /\ Used \subseteq Groups
    /\ IsFiniteSet(Users)
    /\ MaxChanges \in Nat

VARIABLES
    group,      \* the backend's groups
    changes,    \* how many changes they have seen
    page,       \* the page and its load: asked, answered, shown or failed
    answer,     \* groupsData, on its way to the page
    list,       \* groups, as the page has them
    card,       \* the state of each card
    request,    \* requests under way
    \* history
    doubt,      \* what the page need not know about a group
    unseen      \* the members it cannot know of, whom a change of leader has made so

backendVars == <<group, changes>>
pageVars == <<page, answer, list>>
pastVars == <<doubt, unseen>>
vars == <<backendVars, pageVars, card, request, pastVars>>

\* rows: how often the list of members shows each user, None before it has
\* been loaded.  chosen: addUserId.
FreshCard == [open |-> FALSE, rows |-> None, loading |-> FALSE, failed |-> FALSE,
              busy |-> FALSE, chosen |-> None, adding |-> FALSE, removing |-> {}]

NoList == [g \in Groups |-> None]

AllDoubt == {"list", "item", "count", "rows", "error"}

Init ==
    /\ group = Start /\ changes = 0
    /\ page = "asked" /\ answer = NoList /\ list = NoList
    /\ card = [g \in Groups |-> FreshCard]
    /\ request = [i \in Slots |-> None]
    /\ doubt = [g \in Groups |-> {}]
    /\ unseen = [g \in Groups |-> {}]

-----------------------------------------------------------------------------
(* The backend *)

\* FindByID finds it.
Existing == {g \in Groups : group[g] \notin {None, Gone}}

\* ListGroups
Item(r) == [name |-> r.name, leader |-> r.leader, count |-> Cardinality(r.members)]

Listed == [g \in Groups |-> IF g \in Existing THEN Item(group[g]) ELSE None]

Taken(g, x) == \E h \in Existing \ {g} : group[h].name = x

RowsFor(S) == [u \in Users |-> IF u \in S THEN 1 ELSE 0]

\* The group of q after q, which the backend has not refused.
Done(q, r) ==
    CASE q.kind = "create" -> [name |-> q.name, leader |-> q.user, members |-> {q.user}]
      [] q.kind = "rename" -> [r EXCEPT !.name = q.name]
      [] q.kind = "leader" -> [r EXCEPT !.leader = q.user, !.members = @ \cup {q.user}]
      [] q.kind = "delete" -> Gone
      [] q.kind = "add" -> [r EXCEPT !.members = @ \cup {q.user}]
      [] q.kind = "remove" -> [r EXCEPT !.members = @ \ {q.user}]

Allowed(q) ==
    /\ IF q.kind = "create" THEN group[q.group] = None ELSE q.group \in Existing
    /\ q.kind \in {"create", "rename"} => ~Taken(q.group, q.name)
    /\ q.kind = "remove" => q.user \in group[q.group].members \ {group[q.group].leader}

\* A change.  With the members not loaded, the card will not count a leader who
\* becomes a member by becoming the leader.
ServeChange(i) ==
    LET q == request[i] IN
    /\ q # None /\ q.kind # "members" /\ q.at = "sent"
    /\ changes < MaxChanges /\ changes' = changes + 1
    /\ Allowed(q)
    /\ group' = [group EXCEPT ![q.group] = Done(q, @)]
    /\ request' = [request EXCEPT ![i].at = "ok"]
    /\ unseen' = [unseen EXCEPT ![q.group] =
          IF q.kind = "leader" /\ q.rows = None THEN @ \cup ({q.user} \ group[q.group].members)
          ELSE @ \ {q.user}]
    /\ UNCHANGED <<pageVars, card, doubt>>

\* UpdateGroup makes the new leader a member before it updates the group, and
\* not in a transaction.  Here the update fails, or the request is aborted in
\* between: the answer will be an error, but the member stays.
ServeHalf(i) ==
    LET q == request[i] IN
    /\ q # None /\ q.kind = "leader" /\ q.at = "sent"
    /\ changes < MaxChanges /\ changes' = changes + 1
    /\ q.group \in Existing /\ q.user \notin group[q.group].members
    /\ group' = [group EXCEPT ![q.group].members = @ \cup {q.user}]
    /\ request' = [request EXCEPT ![i].at = "half"]
    /\ unseen' = [unseen EXCEPT ![q.group] = @ \cup {q.user}]
    /\ UNCHANGED <<pageVars, card, doubt>>

\* ListMembers, which finds no members in a group that has gone
ServeMembers(i) ==
    LET q == request[i] IN
    /\ q # None /\ q.kind = "members" /\ q.at = "sent"
    /\ request' = [request EXCEPT ![i].at = "ok",
          ![i].data = IF q.group \in Existing THEN group[q.group].members ELSE {}]
    /\ UNCHANGED <<backendVars, pageVars, card, pastVars>>

ServePage ==
    /\ page = "asked"
    /\ page' = "answered" /\ answer' = Listed
    /\ UNCHANGED <<backendVars, list, card, request, pastVars>>

-----------------------------------------------------------------------------
(* The page *)

\* loadData, after its await
AnswerPage ==
    /\ page \in {"asked", "answered"}
    /\ \/ page = "answered" /\ page' = "shown" /\ list' = answer
       \/ page' = "failed" /\ UNCHANGED list
    /\ answer' = NoList
    /\ UNCHANGED <<backendVars, card, request, pastVars>>

\* (mutant) the cards stay while the page loads
StillThere(S) == [g \in Groups |-> card[g]]

\* The cards of the groups S go, and their state with them.
Fresh(S) == [g \in Groups |-> IF g \in S THEN FreshCard ELSE card[g]]

\* The requests left, whose handlers find their card gone when it is one of S.
Orphaned(rs, S) ==
    [i \in Slots |-> IF rs[i] # None /\ rs[i].group \in S THEN [rs[i] EXCEPT !.mine = FALSE]
                     ELSE rs[i]]

\* reloadKey is counted up: the page loads again, and an older load under way
\* is not listened to any more.
Reload(rs) ==
    /\ page' = "asked" /\ answer' = NoList
    /\ card' = Fresh(Groups)
    /\ request' = Orphaned(rs, Groups)
    /\ doubt' = [g \in Groups |->
          IF \E i \in Slots : rs[i] # None /\ rs[i].group = g THEN AllDoubt ELSE {}]
    /\ unseen' = [g \in Groups |-> {}]

Retry ==
    /\ page = "failed"
    /\ Reload(request)
    /\ UNCHANGED <<backendVars, list>>

-----------------------------------------------------------------------------
(* What the user does *)

Visible(g) == page = "shown" /\ list[g] # None

Kinds(g) == {request[i].kind : i \in {j \in Slots : request[j] # None /\ request[j].group = g}}

OfItem == {"rename", "leader", "members", "add", "remove"}

\* Two requests under way together of which one overwrites what the other does
\* to the list of members; those that only add and remove rows do not.
Clash(j, k) ==
    /\ {j, k} \subseteq {"leader", "members", "add", "remove"}
    /\ "leader" \in {j, k} \/ ("members" \in {j, k} /\ j # k)

\* What comes into doubt with a request of kind k.
Doubts(g, k) ==
    (IF \E j \in Kinds(g) : {j, k} \subseteq OfItem THEN {"item", "count"} ELSE {})
    \cup (IF \E j \in Kinds(g) : Clash(j, k) THEN {"rows"} ELSE {})
    \cup (IF k = "members" /\ k \in Kinds(g) THEN {"error"} ELSE {})

\* item, rows: what the handler was rendered with.  mine: the card is the one
\* the request was sent from.
Send(k, g, x, u, more) ==
    /\ \E i \in Slots :
          /\ request[i] = None
          /\ request' = [request EXCEPT ![i] =
                [kind |-> k, group |-> g, name |-> x, user |-> u, at |-> "sent",
                 item |-> list[g], rows |-> IF k = "leader" THEN card[g].rows ELSE None,
                 mine |-> TRUE, data |-> {}]]
    /\ doubt' = [doubt EXCEPT ![g] = @ \cup Doubts(g, k) \cup more]
    /\ UNCHANGED <<backendVars, pageVars, unseen>>

\* The dialog can be closed while it saves, and opened again.
Create(g, x, u) ==
    /\ list[g] = None /\ group[g] = None
    /\ "create" \notin Kinds(g)
    /\ Send("create", g, x, u, {})
    /\ UNCHANGED card

\* With Enter, which busy does not hold back.
Rename(g, x) ==
    /\ Visible(g)
    /\ Send("rename", g, x, None, {})
    /\ card' = [card EXCEPT ![g].busy = TRUE]

ChangeLeader(g, u) ==
    /\ Visible(g) /\ ~card[g].busy
    /\ Send("leader", g, None, u, {})
    /\ card' = [card EXCEPT ![g].busy = TRUE]

Delete(g) ==
    /\ Visible(g) /\ ~card[g].busy
    /\ Send("delete", g, None, None, {})
    /\ card' = [card EXCEPT ![g].busy = TRUE]

\* (mutant) membersError is not reset
OpenedWithError(c) == [c EXCEPT !.open = TRUE, !.loading = TRUE]

Opened(c) == [c EXCEPT !.open = TRUE, !.loading = TRUE, !.failed = FALSE]

OpenMembers(g) ==
    /\ Visible(g) /\ ~card[g].open
    /\ IF card[g].rows # None
       THEN /\ card' = [card EXCEPT ![g].open = TRUE]
            /\ UNCHANGED <<backendVars, pageVars, request, pastVars>>
       ELSE /\ Send("members", g, None, None, {})
            /\ card' = [card EXCEPT ![g] = Opened(@)]

CloseMembers(g) ==
    /\ Visible(g) /\ card[g].open
    /\ card' = [card EXCEPT ![g].open = FALSE]
    /\ UNCHANGED <<backendVars, pageVars, request, pastVars>>

MembersShown(g) ==
    Visible(g) /\ card[g].open /\ ~card[g].loading /\ ~card[g].failed /\ card[g].rows # None

\* Choose a user who is not listed, or nobody again.
Choose(g, u) ==
    /\ MembersShown(g)
    /\ u # card[g].chosen
    /\ u # None => card[g].rows[u] = 0
    /\ card' = [card EXCEPT ![g].chosen = u]
    /\ UNCHANGED <<backendVars, pageVars, request, pastVars>>

\* The user chosen may have come onto the list since.
Add(g) ==
    LET u == card[g].chosen IN
    /\ MembersShown(g) /\ ~card[g].adding /\ u # None
    /\ Send("add", g, None, u, IF card[g].rows[u] > 0 THEN {"count", "rows"} ELSE {})
    /\ card' = [card EXCEPT ![g].adding = TRUE]

Remove(g, u) ==
    /\ MembersShown(g)
    /\ card[g].rows[u] > 0 /\ u # list[g].leader /\ u \notin card[g].removing
    /\ Send("remove", g, None, u, {})
    /\ card' = [card EXCEPT ![g].removing = @ \cup {u}]

-----------------------------------------------------------------------------
(* Answers *)

\* setX of a card that has gone does nothing.
Set(q, c) == card' = IF q.mine THEN [card EXCEPT ![q.group] = c] ELSE card

\* (mutant) a card that has gone is put back
UpdatedOrAdded(g, item) == list' = [list EXCEPT ![g] = item]

\* handleGroupUpdated
Updated(g, item) == list' = [list EXCEPT ![g] = IF @ = None THEN None ELSE item]

Total(rows) == Cardinality(UNION {{u} \X (1..rows[u]) : u \in Users})

Renamed(q) ==
    /\ q.kind = "rename"
    /\ Updated(q.group, [q.item EXCEPT !.name = q.name])
    /\ Set(q, [card[q.group] EXCEPT !.busy = FALSE])

\* (mutant) the new leader is not put on the list of members
RowsKept(q) == q.rows

\* (mutant) nor is it looked up there
RowsAndOne(q) == IF q.rows # None THEN [q.rows EXCEPT ![q.user] = @ + 1] ELSE q.rows

\* nextMembers, from the members the handler was rendered with
NextRows(q) ==
    IF q.rows # None /\ q.rows[q.user] = 0 THEN [q.rows EXCEPT ![q.user] = 1] ELSE q.rows

LeaderChanged(q) ==
    LET next == NextRows(q) IN
    /\ q.kind = "leader"
    /\ Updated(q.group, [q.item EXCEPT !.leader = q.user,
                                       !.count = IF next = None THEN @ ELSE Total(next)])
    /\ Set(q, [card[q.group] EXCEPT !.busy = FALSE,
                                    !.rows = IF next = q.rows THEN @ ELSE next])

MembersLoaded(q) ==
    /\ q.kind = "members"
    /\ Updated(q.group, [q.item EXCEPT !.count = Cardinality(q.data)])
    /\ Set(q, [card[q.group] EXCEPT !.rows = RowsFor(q.data), !.loading = FALSE])

\* (mutant) the number of members stays as it is
CountedNot(item, k) == item

Counted(item, k) == [item EXCEPT !.count = @ + k]

\* (mutant) one row goes, though there be none
OneLess(rows, u) == [rows EXCEPT ![u] = @ - 1]

Without(rows, u) == [rows EXCEPT ![u] = 0]

Added(q) ==
    LET rows == card[q.group].rows IN
    /\ q.kind = "add"
    /\ Updated(q.group, Counted(q.item, 1))
    /\ Set(q, [card[q.group] EXCEPT
                 !.rows = IF rows = None THEN RowsFor({q.user})
                          ELSE [rows EXCEPT ![q.user] = @ + 1],
                 !.adding = FALSE, !.chosen = None])

Removed(q) ==
    LET rows == card[q.group].rows IN
    /\ q.kind = "remove"
    /\ Updated(q.group, Counted(q.item, -1))
    /\ Set(q, [card[q.group] EXCEPT
                 !.rows = IF rows = None THEN None ELSE Without(rows, q.user),
                 !.removing = @ \ {q.user}])

\* The finally, and the error that is shown.
Failed(q, c) ==
    CASE q.kind \in {"rename", "leader", "delete"} -> [c EXCEPT !.busy = FALSE]
      [] q.kind = "members" -> [c EXCEPT !.loading = FALSE, !.failed = TRUE]
      [] q.kind = "add" -> [c EXCEPT !.adding = FALSE]
      [] q.kind = "remove" -> [c EXCEPT !.removing = @ \ {q.user}]
      [] q.kind = "create" -> c

Answer(i) ==
    LET q == request[i]
        rest == [request EXCEPT ![i] = None]
    IN
    /\ q # None /\ q.at = "ok"
    /\ \/ /\ Renamed(q) \/ LeaderChanged(q) \/ MembersLoaded(q) \/ Added(q) \/ Removed(q)
          /\ request' = rest
          /\ unseen' = [unseen EXCEPT ![q.group] = IF q.kind = "members" THEN @ \ q.data ELSE @]
          /\ UNCHANGED <<page, answer, doubt>>
       \/ /\ q.kind = "delete"
          /\ list' = [list EXCEPT ![q.group] = None]
          /\ card' = Fresh({q.group})
          /\ request' = Orphaned(rest, {q.group})
          /\ UNCHANGED <<page, answer, pastVars>>
       \/ q.kind = "create" /\ Reload(rest) /\ UNCHANGED list
    /\ UNCHANGED backendVars

\* Refused, or failed half-way, or lost on its way; or the answer is.
Fail(i) ==
    LET q == request[i] IN
    /\ q # None
    /\ request' = [request EXCEPT ![i] = None]
    /\ Set(q, Failed(q, card[q.group]))
    /\ doubt' = [doubt EXCEPT ![q.group] =
          IF q.at = "ok" /\ q.kind # "members" THEN AllDoubt ELSE @]
    /\ UNCHANGED <<backendVars, pageVars, unseen>>

-----------------------------------------------------------------------------
(* The specification *)

UserNext(g) ==
    \/ \E x \in Names : Rename(g, x)
    \/ \E u \in Users : ChangeLeader(g, u) \/ Remove(g, u)
    \/ \E u \in Users \cup {None} : Choose(g, u)
    \/ Delete(g) \/ OpenMembers(g) \/ CloseMembers(g) \/ Add(g)

Next ==
    \/ \E g \in Used : UserNext(g)
    \/ \E g \in Groups, x \in Names, u \in Users : Create(g, x, u)
    \/ Retry
    \/ \E i \in Slots :
          ServeChange(i) \/ ServeHalf(i) \/ ServeMembers(i) \/ Answer(i) \/ Fail(i)
    \/ ServePage \/ AnswerPage

Spec == Init /\ [][Next]_vars

-----------------------------------------------------------------------------
(* Safety *)

Lists == [Groups -> Items \cup {None}]

Cards == [open : BOOLEAN, rows : MemberRows \cup {None}, loading : BOOLEAN, failed : BOOLEAN,
          busy : BOOLEAN, chosen : Users \cup {None}, adding : BOOLEAN, removing : SUBSET Users]

\* The variables have their types.
TypeOK ==
    /\ group \in [Groups -> GroupRows \cup {None, Gone}]
    /\ changes \in 0..MaxChanges
    /\ page \in {"asked", "answered", "shown", "failed"}
    /\ answer \in Lists /\ list \in Lists
    /\ card \in [Groups -> Cards]
    /\ request \in [Slots -> Requests \cup {None}]
    /\ doubt \in [Groups -> SUBSET AllDoubt]
    /\ unseen \in [Groups -> SUBSET Users]

(* Where a property makes an exception of what is in doubt, that is because  *)
(*   - the backend did what was asked and the answer was lost, or            *)
(*   - the page was loaded again while a request about the group was under   *)
(*     way: of such a group nothing is claimed until the next such load;     *)
(*   - two requests about the group were under way at a time, and the answer *)
(*     of one restores what the other has changed, as each property says;    *)
(*   - a user was added who had come onto the list since being chosen.       *)

\* When nothing is under way, the page lists the groups there are: a new group
\* shows, a deleted one is gone and does not come back with a reload - unless
\* the answer to its creation or deletion was lost, or it was being changed
\* when the page was loaded again.
ListIsTrue ==
    page = "shown" /\ (\A i \in Slots : request[i] = None) =>
        \A g \in Groups : "list" \notin doubt[g] => (list[g] # None <=> g \in Existing)

\* The members that the page has had the means to know of.
Seen(g) == group[g].members \ unseen[g]

\* With nothing under way about it, a card shows the name, the leader and the
\* number of members that its group has.  Not in the number is a member whom a
\* change of leader has brought in while the members were not loaded, or before
\* it failed half-way - and nobody else, until the members are loaded.  In doubt
\* is all three after a lost answer or a reload with a request under way, after
\* two requests at a time that both write the card (rename, change of leader,
\* load of the members, addition, removal); and the number after an addition of
\* a user who had come onto the list.
CardIsTrue ==
    \A g \in Existing : Visible(g) /\ Kinds(g) = {} =>
        /\ "item" \notin doubt[g] =>
              list[g].name = group[g].name /\ list[g].leader = group[g].leader
        /\ "count" \notin doubt[g] => list[g].count = Cardinality(Seen(g))

\* With nothing under way about it, a list of members shows those there are,
\* each once, however additions and removals have overlapped, and changes of
\* leader have failed: but for those whom a change of leader that failed
\* half-way has left in the group, and nobody else.  In doubt is the list after
\* a lost answer or a reload with a request under way; after an addition or
\* removal together with a load or a change of leader, or two of these, which
\* write the list as a whole; and after an addition of a user who had come onto
\* the list.
RowsAreTrue ==
    \A g \in Existing :
        Visible(g) /\ Kinds(g) = {} /\ "rows" \notin doubt[g] /\ card[g].rows # None =>
            card[g].rows = RowsFor(Seen(g))

\* The number on a card is the number of rows in its list, at any time, unless
\* the number is in doubt as in CardIsTrue (and it is when the rows are).
CountIsRows ==
    \A g \in Groups :
        Visible(g) /\ "count" \notin doubt[g] /\ card[g].rows # None =>
            list[g].count = Total(card[g].rows)

\* A control that is disabled, or a list that says it is loading, has a request
\* of this very card under way that will set it free.
ControlsComeBack ==
    LET Waits(g, ks, U) == \E i \in Slots :
            /\ request[i] # None /\ request[i].group = g /\ request[i].mine
            /\ request[i].kind \in ks /\ request[i].user \in U
    IN \A g \in Groups :
        /\ card[g].busy => Waits(g, {"rename", "leader", "delete"}, Users \cup {None})
        /\ card[g].loading => Waits(g, {"members"}, {None})
        /\ card[g].adding => Waits(g, {"add"}, Users)
        /\ \A u \in card[g].removing : Waits(g, {"remove"}, {u})

\* An error in the place of a list of members can be got rid of: closing and
\* opening the list loads it again, which it does only while there are no rows.
\* (Not so when the list was opened twice and only the second load succeeded.)
ErrorCanBeRetried ==
    \A g \in Groups : card[g].failed /\ "error" \notin doubt[g] => card[g].rows = None
=============================================================================

# A formal model of flashwiki

TLA+ modules for the parts of flashwiki where several actors share state: the
websocket hubs, the sessions, the tree of documents, groups and permissions, and
in the browser the session, the sidebar and the page for groups. TLC checks them on
small instances, and TLAPS proves their safety properties for every value of the
constants.
`PROJECT.json` has the same information for machines: components, runs, the lines
of the source each definition translates, the mutants that show that a property
can fail, findings and hazards.

To repeat a check: `tlc -config WsHub_safety.cfg MCWsHub.tla`; to repeat a proof:
`tlapm WsHubProofs.tla`.

## 1. The system and its parts

A Go backend (Gin, PostgreSQL) serves a REST API and one websocket per open
document; a React frontend keeps its tokens in localStorage. One process, no
replicas; PostgreSQL at its default isolation (read committed). Only
`DeleteGroup`, `SetNodePermissions` and the creation of a group run in a
transaction; every other operation is a sequence of single statements.

| Part | Source (under `src/`) | State | Operations | Module |
|---|---|---|---|---|
| Hub registry | `backend/internal/ws/manager.go` | map node → hub, a mutex | GetOrCreate, Release, DisconnectUser | WsHub |
| Hub | `ws/hub.go` | clients, idle timer, `done` | register, unregister, inbound, forceKick, idle end | WsHub, DocRoom |
| Handler and pumps | `ws/handler.go` | one connection, `Client.Send` | handshake with one retry, readPump, writePump | WsHub |
| Sessions | `service/auth_service.go`, `repository/user_repo.go`, `refresh_token_repo.go` | `users`, `refresh_tokens` | Register, Login, Refresh, Logout, ChangePassword, ForceLogout | Sessions |
| Auth middleware | `httpserver/middleware/auth.go` | none | RequireAuth, RequireRole | Sessions |
| User administration | `service/user_service.go` | `users.role` | ChangeRole; profile and lists | Sessions (ChangeRole) |
| Tree | `service/node_service.go`, `repository/node_repo.go`, `handlers/node.go` | `nodes` | create, rename, move, delete, restore | NodeTree |
| Groups | `service/group_service.go`, `repository/group_repo.go` | `groups`, `group_members` | create, update, delete, add and remove a member | Access |
| Permissions | `service/permission_service.go`, `repository/permission_repo.go` | `node_permissions` | SetNodePermissions, ResolvePermission | Access |
| Session client | `frontend/src/api/client.ts`, `auth/AuthContext.tsx` | localStorage, `refreshInFlight` | request, refresh, login, logout | SessionClient |
| Sidebar | `frontend/src/components/NodeTree.tsx`, `NodeContextMenu.tsx`, `InlineNodeInput.tsx` | branches shown, open folders, the menu and the input in use | load, reload, open, create, rename, delete | Sidebar |
| Groups page | `frontend/src/pages/AdminGroupsPage.tsx` | the groups shown, each card with its list of members | load, create, rename, change leader, delete, load, add and remove members | GroupsPage |
| Document log | `repository/doc_update_repo.go`, `doc_state_repo.go` | `doc_updates`, `doc_states` | nothing calls it yet | no |
| Other pages and dialogs, other middleware, wiring, tools | the rest | none shared | one request and its answer | no |

How the parts meet:

- `ForceLogout` (handlers/user.go) counts `token_version` up, revokes the refresh
  tokens and calls `HubManager.DisconnectUser`. Sessions has the two writes and
  ends where the call begins; WsHub begins there (a *kicker*).
- A websocket handshake checks the access token's signature only, not its
  version: WsHub takes the user of a connection as given.
- Every operation on the tree asks `ResolvePermission` first. NodeTree treats a
  refusal as one of the reasons for which a request may end; Access says what
  the answer is, for a tree that stands still.
- The browser calls `/api/auth/*`. SessionClient has a backend that serves each
  request in one step and revokes, rotates and detects reuse as Sessions does.
- The sidebar calls `/api/nodes`, the groups page `/api/admin/groups`. Sidebar and
  GroupsPage have a backend that serves each request in one step as NodeTree and
  Access do when no other request comes between; but a change of leader, which is
  two statements without a transaction, may fail between them in GroupsPage. Other
  users change the tree in Sidebar, nobody else changes the groups in GroupsPage.

What is hard about each, and what makes it right:

- **Hubs.** Five kinds of goroutines over unbuffered channels; hubs that end
  while a handshake still holds them; three places that close `Client.Send`; a
  snapshot of hubs used after the unlock. Right is: one hub per document, the
  limit holds, a forced logout reaches who is there and returns, nothing is left
  running, nothing panics.
- **Sessions.** Read, decide and write in separate statements; a failure, a lost
  client or the end of the process between any two. Right is: what a revocation
  should end is ended, and stays so.
- **Tree.** Cycle checks and parent checks that another request overtakes; a
  rename that writes the parent back. Right is: a tree, hanging from its root.
- **Groups and permissions.** A leader written back from an old read, rows that
  refer to groups without a foreign key, an answer put together from two reads.
  Right is: the leader is a member, no row outlives its group, an answer is what
  the rules give.
- **Session client.** One refresh for many refused requests; several tabs over
  one localStorage; a page that goes while its answer is on the way. Right is:
  no false alarm about a stolen token, and signed out means signed out.
- **Sidebar.** Each branch loads by itself; a write reloads one of them, while
  older loads are still to be answered, branches come and go, and writes fail in
  silence. Right is: only the latest load is listened to, one's own writes show,
  and what is shown when nothing is under way is what there is.
- **Groups page.** Handlers go on after an `await` with the group and the members
  of the render they come from, several at a time. Right is: what is shown when
  nothing is under way is what there is, and no control stays disabled.

## 2. The modules

Each specification is a module of its own with its CONSTANTS and a named ASSUME;
`MC<Module>` gives values for TLC; `<Module>Proofs` holds the theorems. WsHub
instantiates DocRoom, which it refines.

    WsHub         <- MCWsHub          WsHubProofs
    DocRoom       <- WsHub            WsHubRefinement (extends WsHubProofs)
    Sessions      <- MCSessions       SessionsProofs
    NodeTree      <- MCNodeTree       NodeTreeProofs
    Access        <- MCAccess         AccessProofs
    SessionClient <- MCSessionClient  SessionClientProofs
    Sidebar       <- MCSidebar        SidebarProofs
    GroupsPage    <- MCGroupsPage     GroupsPageProofs

Definitions marked `(mutant)` are wrong on purpose: each is what a plausible bug
would make of the definition after it, and takes its place in one run to show
that the property there can fail. They are part of no specification.

### WsHub and DocRoom

An exchange on an unbuffered channel is one action of both goroutines. Where a
goroutine is, is its program counter: `pc` (the handler), `reader`, `writer`,
`hubPc`, `kickPc`.

| Code | Actions |
|---|---|
| `Handler`: Accept, GetOrCreate, the register select, the retry | Accept, GetOrCreate, Register or Reject, HubGone, HandshakeRefused |
| `readPump` | ReadMsg, ReadFail, Deliver, DeliverGone, Unregister, LeaveGone |
| `writePump` | WriteOk, WriteFail, WriterStop |
| `Hub.Run`, one case each | Register, Reject, Unregister, Deliver, ForceKick with KickClient, CloseKicked and KickDone, IdleFires, Release, Exit |
| `HubManager` | GetOrCreate, Release, Snapshot with ForceKick, KickSkip and KickReturn |
| the peer | Accept, ReadMsg, PeerClose |

A second `close` and a send on a closed channel panic in Go, and no goroutine of
this package recovers: `panic` is set and nothing moves any more. Messages are
their types. `Register` starts the write pump together with the read pump; the
farewell of a forced logout may be dropped when `Send` is full, as in the code.
`shutdown` and `ctx.Done()` are never used by the wiring and are left out.

`DocRoom` is what the hubs promise to someone who knows nothing of hubs: rooms
with a number of places, entered at most once by a connection, emptied of a user
by a call that returns only when those it found are out. `ImplementsRoom` is
WsHub's refinement of it: `online` is the set of members less those a forced
logout is at work removing.

### Sessions

A request is a record with the statements it still has to run (`Steps`), one
action per statement: Insert, Read, FindForRefresh, FindForLogout, Create, Mark,
Reply, Revoke, Bump, SetRole, Finish. `Abort` ends it between any two. Tokens are
numbers in the order of their rows. `epoch` (how often a user's tokens have been
revoked), `origin` (the epoch in which a session signed in), `parent` and
`excused` are history.

### NodeTree

As in Sessions: Find, Folder, Descendants, FindDeleted and Parent check, Insert,
Move, Rename, Delete and Restore write, `Abort` ends. `Below` is the recursive
query; a query over a cycle does not end, which in the model is an action that is
never enabled. `patch` is `handlers/node.go`, which moves and then renames.
`overlap` is history: some request has written on checks that another request's
write had overtaken.

### Access

Group operations statement by statement, with the transaction of `DeleteGroup` in
two steps (its locks from the first statement to the commit) and that of
`SetNodePermissions` in one. `ResolvePermission` reads the rows of the ancestors
and then the user's groups. `Ancestry` is the tree as it stands. Who calls is
left out: a manager may call everything, so the reachable data is the same.

### SessionClient

A turn of a tab's event loop is one action: when an answer arrives, everything it
settles runs with it. `call` holds the calls of `request()`, `flight` each tab's
`refreshInFlight`, `store` localStorage. `logout` sends its request without
waiting (`goodbyes`), clears the store and leaves; until `Load`, callbacks of the
old page still run. `Load` is also the user's reload or a new tab. A refresh whose
page has gone may still reach the backend (`orphans`). A tab's turn is taken to
see localStorage unchanged by other tabs while it lasts.

### Sidebar

A branch is a record: whether it is there (`at`), what it shows, whether a reload
is `due` (its `refreshKey` has been counted up and the effect has not run). `gets`
holds the loads whose answer is still wanted: `mounted = false` takes a load out.
`Render` is a render with its effects: branches that are new load, those that go
lose theirs. A state update and its render are two steps only where something may
come between, an answer to a write (`Answer`) and the reload (`Reload`).

| Code | Actions |
|---|---|
| `useNodeBranchData` | Reload, ServeGet, AnswerGet |
| `toggleFolder`, `NodeContextMenu` | Toggle, OpenMenu, CloseMenu |
| `beginCreate`, `beginRename`, `InlineNodeInput` | BeginCreate, BeginRename, ConfirmCreate, ConfirmRename, CancelInput |
| `handleCreateConfirm`, `handleRenameConfirm`, `handleDeleteNode` | the confirmations above and Delete, then Serve, Answer |
| other users | Elsewhere |

`ListChildren` does not ask whether the folder it lists is still active: a load of
a deleted folder is answered with an empty list, and the branch shows an empty
folder. Only creations and moves check their parent.

History: `asOf` is the change of the tree that an answer has seen, `acked` the
latest change of the user's that the page has been told of, `behind` the branches
of which the page cannot know better.

### GroupsPage

A request keeps what its handler was rendered with: `item` (the `group` of the
closure), `rows` (its `members`) and `mine` (whether the card it came from is
still there). `Send` takes a free slot; `ServeChange` and `ServeMembers` are the
backend; `Answer` is the code after the `await`, `Fail` its `catch` and `finally`.
`Reload` is the effect of `reloadKey`. `ServeHalf` is a change of leader of which
`AddMember` is done and `UpdateGroup` is not: the answer is an error, the member
stays.

History: `unseen` holds the members of whom the page has been told nothing, those a
change of leader brought in when it failed half-way or while the list of members was
not loaded; the others are `Seen`. `doubt` says what about a group the page need
not get right any more. It has four reasons: an answer lost after the backend did
what was asked; a reload of the page with a request about the group under way; two
requests at a time of which one restores what the other has changed (`Doubts`); an
addition of a user who came onto the list after being chosen.

## 3. What the runs check

Times are for two workers.

| Run | Instance | What it shows | States |
|---|---|---|---|
| hub_safety | 3 connections (two of one user, who talks) to one document for 2, Send holds 1, one forced logout, 4 hubs | TypeOK, MapIsLive, NoSplitDocument, DocCapacity, MemberSendOpen, EmptyHubIsAttended, KickComplete; the hubs implement DocRoom | 2.4 M, 2-4 min |
| hub_live | 2 connections of two users to a document for 1, one talks, one forced logout, 2 hubs, fairness | KickReturns, PumpsEnd, HubReleased | 30 K, 1-2 min |
| hub_panic | 2 connections, a document for 1 | *violated*: NoPanic | |
| sessions | a user and a manager, 2 requests at a time, 3 tokens, 2 versions, 1 revocation | TypeOK, AccessNotAhead, OldTokensDie, SessionsStartAfresh | 2.2 M, 1-2 min |
| sessions_rotation | two refreshes of one token | *violated*: OneTimeRotation | |
| tree | 2 folders, 1 document, 2 requests | TypeOK, TreeUnlessOverlap, OnlyInFolders, TrashUntouched | 1.0 M, 1-2 min |
| tree_cycle | 2 folders, 2 requests | *violated*: NeverUnderItself | |
| access | 2 groups, 2 users (one a manager), a node in another, 4 lists of entries, 2 requests | TypeOK, LeaderIsMember, NoRowsOfGoneGroups, AnsweredByTheRules | 2.3 M, 2-3 min |
| client_tabs | 2 tabs, 2 requests in the first and 1 in the second, 2 pairs of tokens | TypeOK, AlarmsExplained, BrowserForgets, NobodyWaitsInVain, EndedStaysEnded | 3.9 M, 2-4 min |
| client_reload | 1 tab, 2 requests, 3 pairs | *violated*: ReloadKeepsSession | |
| sidebar | a folder and a document to come, 3 changes of the tree, 2 writes at a time | TypeOK, LoadingIsAwaited, OwnWritesShown, QuietIsTrue, NeverBackwards | 1.5 M, 1-2 min |
| groups_page | a group with a leader and a member, a third user, a group to come, 2 names, 2 requests at a time, 2 changes | TypeOK, ListIsTrue, CardIsTrue, RowsAreTrue, CountIsRows, ControlsComeBack, ErrorCanBeRetried | 3.7 M, 2-3 min |

Bounds and why they are enough for what is asked:

- *WsHub.* `MaxHubs` bounds the hubs created: four are a first hub, its
  successor, and one for a retry each; three connections and two places give
  acceptance, rejection and a place that falls free. `SendCap = 1` makes a full
  buffer one message away. The user who is forced out talks on both connections,
  so that two messages are in flight while a hub turns somebody away. TLC looks at one document; that
  nothing changes with several, and with any number of connections and forced
  logouts, is proved (section 5).
- *Sessions.* Two requests interleave in every way two can. Three tokens are a
  sign-in of each and a rotation; two versions are needed for a version to be
  counted up from a stale row, one revocation for a token to survive it. In this
  run the user's sign-in is the registration, which has the same statements
  afterwards as a login; sessions_rotation has the login. The theorems have no
  bounds on any of this.
- *NodeTree.* Two folders are enough for a cycle, the document for what a folder
  contains. No bound on the number of requests one after another.
- *Access.* Two nodes, one in the other, give inheritance and its interruption;
  two groups disagree. The constraint `Ordered` leaves aside what follows a write
  on overtaken checks: of such behaviours only the first such state is looked at,
  and the properties say nothing of it. Groups are created once each (`used`).
- *SessionClient.* Two pairs of tokens are a sign-in and either its rotation or a
  second sign-in. The first tab may be reloaded at any time, the second only as
  `logout` makes it. After the last pair the backend refuses to issue another, so
  that requests fail from there on; nothing of what is checked needs a third.
- *Sidebar.* Two branches, one in the other: the root and a folder that comes,
  goes, opens and closes. Three changes are what it takes to create a document,
  have it moved by somebody else and delete it where it no longer is. Loads and
  their losses have no bound.
- *GroupsPage.* Two requests under way overlap in every way two can; what two
  requests restore or overwrite needs two changes, of which either may be the half
  of one that fails. One group's cards are used
  (`Used`), since cards share the list only, in which each has an entry of its
  own; the other group is there to be created, which reloads the page.

Symmetry is used for requests in flight, for the two connections of one user,
for folders, for the two requests of a tab, which no definition tells apart,
and for the slots of GroupsPage; hub_live, the run with liveness properties, uses
none.

`CHECK_DEADLOCK FALSE` is set where the system may stop: after a panic, when every
connection has had its handshake, at the bounds of Sessions, or on a page for
groups that has none left to show and none to come.

Fairness is assumed in hub_live only. A goroutine that can go on does (weak
fairness of each pump, handler, hub and forced logout). One that waits for a case
of a hub's select is served if the hub comes back to that select again and again
(strong fairness of Register, Deliver, Unregister and ForceKick): Go chooses at
random among the ready cases. Nothing makes a peer connect, talk or leave, or a
manager force a logout.

## 4. What the checks found

Four statements of the documents that the code does not keep, each with a run
that shows it (`findings` in PROJECT.json quotes them):

1. *hub_panic.* `hub.go:125` answers a message on `Client.Send` even when the
   client has been rejected or forced out and `Send` is closed. The panic is in a
   goroutine without recover, so the process stops.
2. *sessions_rotation.* Two refreshes of one token at a time give two good
   successors, and no reuse is seen.
3. *tree_cycle.* Two moves at a time put two folders under each other; the
   recursive queries over them then do not end.
4. *client_reload.* A page that is reloaded between a refresh and its answer comes
   back with a spent token; its next refresh ends every session of the user.

Differences met while modelling for which no run is kept:

- *Sessions and hubs.* A handshake under way during a forced logout registers
  afterwards and stays (docs/epics/auth.md:13: all are thrown out); a login between
  its read and its insert survives one (docs/requirements.md:57, 489 and 492). The
  websocket handshake does not compare the token's version
  (docs/epics/collab.md:146 says it does); `Logout` revokes every token of the user
  (docs/epics/auth.md:140: one); a sign-out with an expired access token is refused
  and leaves the refresh token good for days; a wrong password on the login page is
  taken for an expired session, so that the page reloads instead of showing the
  error; a demotion may leave the version as it was; two managers can demote each
  other; two updates of a profile can lose one; the farewell of a forced logout
  races with the close of its connection.
- *Groups and permissions.* A rename that overlaps a change of leader restores the
  old one; a replaced leader whose request has passed its check still adds or
  removes a member; a group deleted while it is put on a node leaves a row behind;
  deleting a group can widen access, when its rows were the only ones of a node.
- *Groups page.* Two removals, or an addition and a removal, at a time leave
  `member_count` one off, since each counts from the group it was rendered with
  (docs/tasks/T-40.md:1107-1108: it goes down, or up, by one); a rename answered
  during another request of the card is undone on the page; a change of leader
  brings back rows removed meanwhile; a list of members opened twice while it loads
  can keep an error for good; a user chosen in the editor before becoming a member
  in another way gets a second row; a new leader who was no member is not counted
  when the members are not loaded; a change of leader that fails between
  `AddMember` (group_service.go:141) and `UpdateGroup` (149) leaves a new member
  behind an error, whom the card neither counts nor lists until it loads them.
- *Sidebar and dialogs.* A document deleted through a row that another user's move
  has made stale reloads the branch it has left, and stays in the one it is in; a
  write that fails shows nothing; after a deletion the page leaves the document
  that was open when the deletion was asked for; a folder that has been deleted
  opens as an empty one, in a row that has not been reloaded. Two managers' permissions of a
  node are saved whole, the later over the earlier, which the lock in
  `SetNodePermissions` (docs/epics/nodetree.md:617) does not prevent.

The properties of Sessions, NodeTree, Access, Sidebar and GroupsPage are stated so
that such races are named in them (`excused`, `overlap`, `stale`, `behind`,
`doubt`, `unseen`), not hidden: they say what holds whenever the race does not happen.

## 5. What is proved

Every safety property of section 3 that a run does not refute is a theorem: the
invariants, the action property and the refinement. The theorems hold for every
value of the constants that meets the module's named assumption, whatever the
number of connections, users, hubs, requests, tokens, nodes, tabs or groups. Each
module has an inductive invariant `IInv`, a lemma for each action that keeps it,
and `Spec => []IInv` from them. The assumptions say no more than that the constants
have their types, that `None` and its like are none of the values they stand in for,
and that there are finitely many of what is counted. Bounds (`MaxHubs`, `MaxPairs`,
`MaxChanges`...) are parameters: any number will do.

**WsHubProofs** (WsHubAssumption: finitely many connections, limits of at least
one, `None` distinct from the rest). The inductive invariant `IInv` is TypeOK with
- *HubInv*: hubs not yet created and hubs that have ended have no members, a
  running hub has a node, only a hub at work on a forced logout has a victim;
- *MapInv*: the map gives exactly the hubs that have not released themselves,
  which is what makes Release by node id safe;
- *ConnInv*: what a handler, its pumps and its connection can be doing together;
- *MemberInv*: a member serves, asked for this node, and its Send is open;
- *RoomInv*: no more members than places, and members of one hub only;
- *KickInv*: a member that DisconnectUser found is in a hub it has still to tell,
  or is being removed;
- *NoDoubleClose* and *EmptyHubIsAttended*.

None of the properties is inductive without these: that the limit holds over
successive hubs of a document rests on MapInv, that Send is closed once on
ConnInv and MemberInv. Theorems: TypeCorrect, MapIsAlwaysLive,
DocumentNeverSplit, DocumentWithinCapacity, MemberSendAlwaysOpen,
EmptyHubAlwaysAttended, KickAlwaysComplete.

**WsHubRefinement** proves that the hubs implement DocRoom (HubsImplementRooms). The
initial states map to initial states; each step of a goroutine is, under the
mapping, a step of the rooms or changes nothing of them. The steps that are not
stutters are six: Register enters, Reject turns away, Unregister leaves, ForceKick
evicts, Snapshot begins a forced logout and its return ends it. What carries them
is that the hub in whose select a connection stands is *the* hub of its document
(MapInv, RoomIsHub), so that a room is full exactly when that hub is; and KickInv,
without which a forced logout could return too early for the room.

**SessionsProofs** (SessionsAssumption). `IInv` is the types of the tables and
requests with, for each request, *Known* (the tokens and the user it refers to
exist), *Dated* (what it has read is not newer than what there is, and what it has
done so far of ending sessions is done), *Issued* (no access token is ahead), and
SessionsStartAfresh. Most steps only add to the tables: the lemmas on growth show
once that everything said of a request stays true then, and each action's lemma
adds what is special about it. Theorems: TypeCorrect, NeverAhead,
OldTokensAlwaysDie, AlwaysAfresh.

**NodeTreeProofs** (NodeTreeAssumption: finitely many nodes, `Root` not among
them). `IInv` adds to the properties what a request's passed checks are worth
while no one else has written: *Lasting* (kinds of parents, which never change),
*Standing* (what the request has found still stands, unless it is stale) and
*Fresh* (a node being created is no one's parent). That a move keeps the tree
acyclic is an argument about the least set closed under children; it needs no
recursion. Theorems: TypeCorrect, StaysATree, ParentsAreFolders, TrashStays.

**AccessProofs** (AccessAssumption: users, groups and nodes apart; the chains of
ancestors are finite sequences; a list of entries gives each subject one level, as
the UNIQUE constraint of `node_permissions` has it). For each request, *Rest* says which
statements are left and that it has the arguments they need, and *Standing* what
its checks are worth as long as nobody has written over them: *Grounded* (the leader
to be is a member, the member to be removed is not the leader, the rows a deletion
has read are all there are of the group, the subjects of a list exist) and
*Resolving* (what a resolution has read, and that an answer is the one of the
rules). LeaderIsMember alone is not inductive: an UPDATE of `leader_id` keeps it only
because of what its request has checked. That the nearest node with rows decides,
and that `none` wins and otherwise the highest level, are lemmas on the operators
(Nearest, LevelOfIs); the nearest exists because the numbers are well-founded, by
the library's theorem. Theorems: TypeCorrect, LeadersAreMembers, NoRowsLeftBehind,
AnswersFollowTheRules.

**SessionClientProofs** (SessionClientAssumption: each call is of one tab). `IInv`
adds *WireInv* (what is under way has been issued, and who has presented it),
*ComingInv* (a pair comes to the store by one way, once, and nobody has presented it
before), *SpentInv* (the two shapes in which a spent token may be presented again,
each with its reason) and *LeftInv* (no session signed out of has a token on its way
to the store). AlarmsExplained follows from SpentInv at the moment the backend sees
the token; ComingInv is what makes SpentInv hold, since a token that came twice could
be spent in between. Theorems: TypeCorrect, AlarmsHaveReasons, SignedOutStaysOut,
WaitersHaveAFlight, EndedForGood.

**SidebarProofs** (SidebarAssumption: `Root`, `None` and `Gone` are no nodes). `IInv`
adds *PageInv* (a branch loads exactly while there is one load for it; branches are
on the page or off), *FreshInv* (an answer on its way is not older than what it
replaces, nor than what the page has been told of), *HomeInv* (a folder is held by
the branch of its place alone) and *StaleInv*. QuietIsTrue speaks of a page at rest: a
branch shows what its place holds, and a deleted folder shows only below a branch of
which the page cannot know better. StaleInv
is what it comes from while writes and loads are under way: a branch that is not as
its place is, and will not be reloaded, is below one that will, and goes with it.
The branches on the page are a least closed set; the lemmas on `OnPage` (it is
closed, it is the least, how it shrinks and grows) replace induction over the tree.
Theorems: TypeCorrect, LoadsAreAwaited, OwnWritesAreShown, QuietPageIsTrue, and
NeverSetBack for the action property.

**GroupsPageProofs** (GroupsPageAssumption: finitely many users, for the members are
counted). `IInv` is TypeOK with, for each group, *Firm* (what always holds: the forms of
requests, controls and the requests they wait for, cards that are not shown are fresh
ones) and *Sure* (what holds as long as `doubt` does not name it). The properties speak of
a group at rest, so the invariant has to say what a request under way is about to make
true: whatever list, item, number or rows differ from the backend's is what an answer on
its way back says (ListInv, ItemInv, CountInv, TruthInv), it was rendered with what the
page still shows (OneInv, ShapeInv), and no two of them write the same thing. What is
said of a group's members is said of those `Seen`; UnseenInv adds that a page that
has yet to load will know of all of them, for then only creations are under way. A lemma
shows that a step leaves alone the groups it is not about (Frame); after it each
action has to be looked at for one group only. The number of rows, `Total`, is the size
of a set with an element for each row, and the lemmas on it (RowsOfMembers,
OneRow) rest on the library's theorems on finite sets. Theorems: TypeCorrect,
ListsAreTrue, CardsAreTrue, RowsAreMembers, CountsAreRows, ControlsAreFreed,
ErrorsCanBeRetried.

Model-checked only: the three liveness properties of hub_live (KickReturns,
PumpsEnd, HubReleased), which need fairness and ENABLED and are out of the reach
of the provers. The four properties that runs refute are of course not proved.

## 6. What is not modelled

- The other pages and dialogs of the frontend. AdminUsersPage holds one request
  per row and changes rows by functional updates only; PermissionDialog loads a
  list and sends it whole.
- In Sidebar: titles, positions, levels of permission, and folders moved by other
  users. In GroupsPage: other managers, and the mode a card is in.
- The document log: its repositories have no caller; there is no behaviour yet.
- Profile updates and lists: one row read or written.
- Middleware without state, configuration, start-up, migration and seed tools.
- Hashing, token strings, validation of input, wording of errors: they are the
  reasons for which a request may end early, and nothing more.
- The expiry of refresh tokens after seven days: a refused refresh without a
  consequence in the tables.

## 7. Plan

What could be added, in this order:

1. The races named by `overlap` in NodeTree and Access, the other way round: which
   of the operations keep the tree and the leaders even then.
2. KickReturns without fairness: a ranking of what a forced logout still has to do,
   as an invariant that can be proved.
3. ChangeRole for two managers at a time, once the code guards the last one.

------------------------------ MODULE Sessions ------------------------------
(***************************************************************************)
(* Sign-in, sign-out and the tokens of the backend: AuthService, the role  *)
(* change of UserService, RequireAuth and the two tables behind them.      *)
(*                                                                         *)
(* No operation runs in a transaction.  A request is therefore a sequence  *)
(* of database statements, each of them one step here, interleaved with    *)
(* the statements of every other request; it can end between any two of    *)
(* them, because a statement fails, the client goes away (the statements   *)
(* run under the request's context) or the process stops.  What a client   *)
(* sends and the code rejects without a write (a wrong password, an        *)
(* unknown or expired refresh token, invalid input) ends a request in the  *)
(* same way and has no action of its own.                                  *)
(***************************************************************************)
EXTENDS Naturals, Sequences, FiniteSets

CONSTANTS
    Users,      \* email addresses, one user each
    Seeded,     \* the users that have a row from the start ...
    Managers,   \* ... and those of them that are managers
    Reqs,       \* requests in flight at a time
    Ops,        \* the operations each user's clients ask for
    None,       \* no user
    MaxTokens,  \* BOUND: rows of refresh_tokens
    MaxVersion, \* BOUND: token versions
    MaxEpoch    \* BOUND: revocations of a user's tokens

ASSUME SessionsAssumption ==
    /\ Seeded \subseteq Users
    /\ Managers \subseteq Seeded
    /\ None \notin Users
    /\ Ops \in [Users -> SUBSET {"register", "login", "refresh", "logout",
                                 "password", "force", "promote", "demote"}]
    /\ MaxTokens \in Nat
    /\ MaxVersion \in Nat
    /\ MaxEpoch \in Nat

Tokens == 1..MaxTokens
Roles == {"manager", "member"}

VARIABLES
    \* the table users
    exists,     \* the users that have a row
    role,
    version,    \* token_version
    \* the table refresh_tokens
    tokens,     \* the number of rows
    owner,      \* user_id
    revoked,    \* the tokens with revoked_at
    replaced,   \* the tokens with replaced_by
    \* what clients have
    sent,       \* the refresh tokens some client has received
    access,     \* the access tokens issued
    \* requests
    req,
    \* history
    epoch,      \* how often the user's refresh tokens have been revoked
    origin,     \* the epoch in which a token's session signed in
    parent,     \* the token a token was rotated from
    excused     \* epochs of requests that a revocation met half-way

userVars == <<exists, role, version>>
tokenVars == <<tokens, owner, revoked, replaced, origin, parent>>
clientVars == <<sent, access>>
pastVars == <<epoch, excused>>
vars == <<userVars, tokenVars, clientVars, pastVars, req>>

-----------------------------------------------------------------------------
(* The operations as sequences of statements *)

Steps ==
    [register |-> <<"insert", "create", "reply">>,
     login    |-> <<"read", "create", "reply">>,
     refresh  |-> <<"find", "create", "mark", "read", "reply">>,
     reuse    |-> <<"revoke", "bump", "answer">>,
     logout   |-> <<"find", "revoke">>,
     password |-> <<"bump", "revoke", "read", "create", "reply">>,
     force    |-> <<"bump", "revoke", "kick">>,
     promote  |-> <<"read", "role">>,
     demote   |-> <<"read", "role", "bump">>]

Statements == {"insert", "find", "read", "create", "mark", "reply", "revoke",
               "bump", "answer", "kick", "role"}

NoRow == [version |-> 0, role |-> "member"]

NoTime == [tokens |-> 0, version |-> 0]

\* A request slot: the operation, the user it is about, the refresh token
\* presented, the user's row as read, the refresh token created, and the
\* statements still to be run; and as history the epoch to which the request
\* belongs, and what there was when it began.
Free == [op |-> "none", who |-> None, tok |-> 0, row |-> NoRow, new |-> 0,
         todo |-> <<>>, born |-> 0, before |-> NoTime]

At(r, s) == req[r].todo # <<>> /\ Head(req[r].todo) = s

\* The request r becomes q, the statement it is at done.
Become(r, q) ==
    LET rest == Tail(req[r].todo)
    IN  req' = [req EXCEPT ![r] = IF rest = <<>> THEN Free ELSE [q EXCEPT !.todo = rest]]

Onward(r) == Become(r, req[r])

Init ==
    /\ exists = Seeded
    /\ role = [u \in Users |-> IF u \in Managers THEN "manager" ELSE "member"]
    /\ version = [u \in Users |-> 0]
    /\ tokens = 0
    /\ owner = [t \in Tokens |-> None]
    /\ revoked = {} /\ replaced = {}
    /\ sent = {} /\ access = {}
    /\ req = [r \in Reqs |-> Free]
    /\ epoch = [u \in Users |-> 0]
    /\ origin = [t \in Tokens |-> 0]
    /\ parent = [t \in Tokens |-> 0]
    /\ excused = [u \in Users |-> {}]

-----------------------------------------------------------------------------
(* A request arrives *)

\* The version in the token is the user's: RequireAuth lets the request pass.
Accepted(a) == a.version = version[a.user]

Authenticated(u) == \E a \in access : a.user = u /\ Accepted(a)

Begin(r, caller, o, u, t) ==
    /\ o \in Ops[caller]
    /\ req[r].todo = <<>>
    /\ req' = [req EXCEPT ![r] =
          [Free EXCEPT !.op = o, !.who = u, !.tok = t, !.todo = Steps[o],
                       !.before = [tokens |-> tokens, version |-> version[u]]]]
    /\ UNCHANGED <<userVars, tokenVars, clientVars, pastVars>>

\* FindByEmail finds no row, ...
Register(r, u) == u \notin exists /\ Begin(r, u, "register", u, 0)

\* ... or, in the first step of a login, one whose password matches.
Login(r, u) == u \in exists /\ Begin(r, u, "login", u, 0)

\* Anyone who has a refresh token may present it, more than once.
Refresh(r, t) == t \in sent /\ Begin(r, owner[t], "refresh", owner[t], t)

\* The caller need not be the user of the refresh token.
Logout(r, u, t) ==
    t \in sent /\ Authenticated(u) /\ Begin(r, u, "logout", owner[t], t)

\* The caller knows the old password.
ChangePassword(r, u) == Authenticated(u) /\ Begin(r, u, "password", u, 0)

\* The operations of managers, on anyone but themselves.
Administer(r, m, o, u) ==
    /\ Authenticated(m) /\ role[m] = "manager"
    /\ u \in exists /\ u # m
    /\ Begin(r, m, o, u, 0)

-----------------------------------------------------------------------------
(* The statements *)

\* CreateUser, which fails when the address has been taken meanwhile.
Insert(r) ==
    LET u == req[r].who IN
    /\ At(r, "insert")
    /\ u \notin exists
    /\ exists' = exists \cup {u}
    /\ Become(r, [req[r] EXCEPT !.born = epoch[u]])
    /\ UNCHANGED <<role, version, tokenVars, clientVars, pastVars>>

\* FindByEmail or FindByID: the request works with this copy from now on.
Read(r) ==
    LET u == req[r].who IN
    /\ At(r, "read")
    /\ Become(r, [req[r] EXCEPT !.row = [version |-> version[u], role |-> role[u]],
                                !.born = epoch[u]])
    /\ UNCHANGED <<userVars, tokenVars, clientVars, pastVars>>

\* (mutant) a revoked token that was never rotated is good for a new one
SpentIfReplaced(t) == t \in replaced

Spent(t) == t \in revoked \/ t \in replaced

\* FindByTokenHash in Refresh, and what it decides, ...
FindForRefresh(r) ==
    LET t == req[r].tok IN
    /\ At(r, "find")
    /\ req[r].op = "refresh"
    /\ \/ /\ Spent(t)
          /\ req' = [req EXCEPT ![r].op = "reuse", ![r].todo = Steps.reuse]
       \/ /\ ~Spent(t)
          /\ Become(r, [req[r] EXCEPT !.born = origin[t]])
    /\ UNCHANGED <<userVars, tokenVars, clientVars, pastVars>>

\* ... and in Logout, which looks at revoked_at alone.
FindForLogout(r) ==
    /\ At(r, "find")
    /\ req[r].op = "logout"
    /\ \/ req[r].tok \in revoked /\ req' = [req EXCEPT ![r] = Free]
       \/ req[r].tok \notin revoked /\ Onward(r)
    /\ UNCHANGED <<userVars, tokenVars, clientVars, pastVars>>

\* RefreshTokenRepo.Create
Create(r) ==
    LET t == tokens + 1 IN
    /\ At(r, "create")
    /\ tokens < MaxTokens
    /\ tokens' = t
    /\ owner' = [owner EXCEPT ![t] = req[r].who]
    /\ origin' = [origin EXCEPT ![t] = req[r].born]
    /\ parent' = [parent EXCEPT ![t] = req[r].tok]
    /\ Become(r, [req[r] EXCEPT !.new = t])
    /\ UNCHANGED <<userVars, revoked, replaced, clientVars, pastVars>>

\* MarkReplaced, whatever has become of the old token.
Mark(r) ==
    /\ At(r, "mark")
    /\ replaced' = replaced \cup {req[r].tok}
    /\ Onward(r)
    /\ UNCHANGED <<userVars, tokens, owner, revoked, origin, parent, clientVars, pastVars>>

\* The answer reaches the client: the refresh token, and an access token made
\* of the row the request has read.
Reply(r) ==
    LET q == req[r] IN
    /\ At(r, "reply")
    /\ sent' = sent \cup {q.new}
    /\ access' = access \cup
          {[user |-> q.who, version |-> q.row.version]}
    /\ Onward(r)
    /\ UNCHANGED <<userVars, tokenVars, pastVars>>

Owned(u) == {t \in 1..tokens : owner[t] = u}

\* The requests about to create a refresh token for u.
HalfWay(u) == {q \in Reqs : req[q].who = u /\ At(q, "create")}

\* RevokeAllByUserID
Revoke(r) ==
    LET u == req[r].who IN
    /\ At(r, "revoke")
    /\ epoch[u] < MaxEpoch
    /\ revoked' = revoked \cup Owned(u)
    /\ epoch' = [epoch EXCEPT ![u] = @ + 1]
    /\ excused' = [excused EXCEPT ![u] = @ \cup {req[q].born : q \in HalfWay(u)}]
    /\ Become(r, [req[r] EXCEPT !.born = epoch[u] + 1])
    /\ UNCHANGED <<userVars, tokens, owner, replaced, origin, parent, clientVars>>

\* (mutant) the version is counted up from the row read before
BumpedFromRow(r) == req[r].row.version + 1

\* (mutant) the version is counted down
BumpedDown(r) == version[req[r].who] - 1

\* (mutant) there are but two versions
BumpedOneBit(r) == (version[req[r].who] + 1) % 2

Bumped(r) == version[req[r].who] + 1

\* IncrementTokenVersion; UpdatePasswordHash does the same.
Bump(r) ==
    LET u == req[r].who IN
    /\ At(r, "bump")
    /\ version[u] < MaxVersion
    /\ version' = [version EXCEPT ![u] = Bumped(r)]
    /\ Onward(r)
    /\ UNCHANGED <<exists, role, tokenVars, clientVars, pastVars>>

\* What is left when the writes are done: HubManager.DisconnectUser, which is
\* the subject of WsHub, and the answer token_reused.
Finish(r) ==
    /\ At(r, "kick") \/ At(r, "answer")
    /\ Onward(r)
    /\ UNCHANGED <<userVars, tokenVars, clientVars, pastVars>>

\* UpdateRole; the version is counted up only if the row read before was a
\* manager's.
SetRole(r) ==
    LET q == req[r] IN
    /\ At(r, "role")
    /\ role' = [role EXCEPT ![q.who] = IF q.op = "promote" THEN "manager" ELSE "member"]
    /\ \/ q.row.role = "manager" /\ Onward(r)
       \/ q.row.role = "member" /\ req' = [req EXCEPT ![r] = Free]
    /\ UNCHANGED <<exists, version, tokenVars, clientVars, pastVars>>

\* The request ends here: an error, a client that has gone, a process that
\* has stopped.  What it has written stays written.
Abort(r) ==
    /\ req[r].todo # <<>>
    /\ req' = [req EXCEPT ![r] = Free]
    /\ UNCHANGED <<userVars, tokenVars, clientVars, pastVars>>

-----------------------------------------------------------------------------
(* The specification *)

Arrive(r) ==
    \/ \E u \in Users : Register(r, u) \/ Login(r, u) \/ ChangePassword(r, u)
    \/ \E t \in sent : Refresh(r, t) \/ \E u \in Users : Logout(r, u, t)
    \/ \E m, u \in Users : \E o \in {"force", "promote", "demote"} :
           Administer(r, m, o, u)

Statement(r) ==
    \/ Insert(r) \/ Read(r) \/ FindForRefresh(r) \/ FindForLogout(r)
    \/ Create(r) \/ Mark(r) \/ Reply(r) \/ Revoke(r) \/ Bump(r) \/ Finish(r)
    \/ SetRole(r)

Next == \E r \in Reqs : Arrive(r) \/ Statement(r) \/ Abort(r)

Spec == Init /\ [][Next]_vars

-----------------------------------------------------------------------------
(* Safety *)

Rows == [version : 0..MaxVersion, role : Roles]

Requests ==
    [op : DOMAIN Steps \cup {"none"}, who : Users \cup {None}, tok : Nat,
     row : Rows, new : Nat, todo : Seq(Statements), born : 0..MaxEpoch,
     before : [tokens : Nat, version : 0..MaxVersion]]

AccessTokens == [user : Users, version : 0..MaxVersion]

\* The variables have their types.
TypeOK ==
    /\ exists \subseteq Users
    /\ role \in [Users -> Roles]
    /\ version \in [Users -> 0..MaxVersion]
    /\ tokens \in 0..MaxTokens
    /\ owner \in [Tokens -> Users \cup {None}]
    /\ revoked \subseteq 1..tokens
    /\ replaced \subseteq 1..tokens
    /\ sent \subseteq 1..tokens
    /\ access \subseteq AccessTokens
    /\ req \in [Reqs -> Requests]
    /\ \A r \in Reqs : /\ req[r].tok <= tokens
                       /\ req[r].new <= tokens
                       /\ req[r].before.tokens <= tokens
                       /\ req[r].todo # <<>> => req[r].who \in Users
    /\ epoch \in [Users -> 0..MaxEpoch]
    /\ origin \in [Tokens -> 0..MaxEpoch]
    /\ parent \in [Tokens -> 0..tokens]
    /\ excused \in [Users -> SUBSET (0..MaxEpoch)]

\* No access token, issued or about to be, has a version that its user has
\* not reached: whenever the version is counted up, every access token out
\* at that time is dead, and none comes back to life later.
AccessNotAhead ==
    /\ \A a \in access : a.version <= version[a.user]
    /\ \A r \in Reqs : req[r].todo # <<>> => req[r].row.version <= version[req[r].who]

\* A request that ends sessions and has done both its writes.
SessionsEnded(r) ==
    /\ req[r].op \in {"force", "password", "reuse"}
    /\ \A i \in DOMAIN req[r].todo : req[r].todo[i] \notin {"bump", "revoke"}

\* Once a forced logout, a password change or the detection of a reused token
\* has done its writes, the refresh tokens the user had when the request began
\* are revoked, and the access tokens of that time are no longer accepted.
OldTokensDie ==
    \A r \in Reqs : SessionsEnded(r) =>
        /\ \A t \in 1..req[r].before.tokens : owner[t] = req[r].who => t \in revoked
        /\ version[req[r].who] > req[r].before.version

\* A session is over for good when its tokens are revoked: each refresh token
\* that is good was handed out, through however many rotations, to a session
\* that signed in after the last revocation - or whose request for a new
\* token the revocation met half-way.
SessionsStartAfresh ==
    \A t \in 1..tokens :
        t \in revoked \/ origin[t] = epoch[owner[t]] \/ origin[t] \in excused[owner[t]]

-----------------------------------------------------------------------------
(* What the documents say and the code does not do *)

\* Rotation is one-time (docs/requirements.md:56): a refresh token yields one
\* successor.
OneTimeRotation ==
    \A t \in 1..tokens : Cardinality({s \in 1..tokens : parent[s] = t}) <= 1
=============================================================================

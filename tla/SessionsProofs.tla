--------------------------- MODULE SessionsProofs ---------------------------
(***************************************************************************)
(* Proofs about Sessions, for any number of users, of requests and of      *)
(* tokens.                                                                 *)
(*                                                                         *)
(* The tables only ever grow: rows of refresh_tokens are added and never   *)
(* change their owner, none is unrevoked, and no version is counted down.  *)
(* What a request has established, as far as the properties need it, is    *)
(* thus safe from the others, but for the epoch it belongs to, which a     *)
(* revocation ends; then the request is one of those it met half-way.      *)
(***************************************************************************)
EXTENDS Sessions, TLAPS

-----------------------------------------------------------------------------
(* What a request may still have to do *)

toRegister == <<"insert", "create", "reply">>
toIssue == <<"create", "reply">>
toReply == <<"reply">>
toLogin == <<"read", "create", "reply">>
toRefresh == <<"find", "create", "mark", "read", "reply">>
toRotate == <<"create", "mark", "read", "reply">>
toMark == <<"mark", "read", "reply">>
toReread == <<"read", "reply">>
toEndAll == <<"revoke", "bump", "answer">>
toBumpAnswer == <<"bump", "answer">>
toAnswer == <<"answer">>
toLogout == <<"find", "revoke">>
toRevoke == <<"revoke">>
toPassword == <<"bump", "revoke", "read", "create", "reply">>
toRevokeIssue == <<"revoke", "read", "create", "reply">>
toForce == <<"bump", "revoke", "kick">>
toRevokeKick == <<"revoke", "kick">>
toKick == <<"kick">>
toPromote == <<"read", "role">>
toRole == <<"role">>
toDemote == <<"read", "role", "bump">>
toRoleBump == <<"role", "bump">>
toBump == <<"bump">>

\* An operation o with the statements todo still to run.
Rest(o, todo) ==
    \/ o = "none" /\ todo = <<>>
    \/ o = "register" /\ todo \in {toRegister, toIssue, toReply}
    \/ o = "login" /\ todo \in {toLogin, toIssue, toReply}
    \/ o = "refresh" /\ todo \in {toRefresh, toRotate, toMark, toReread, toReply}
    \/ o = "reuse" /\ todo \in {toEndAll, toBumpAnswer, toAnswer}
    \/ o = "logout" /\ todo \in {toLogout, toRevoke}
    \/ o = "password" /\ todo \in {toPassword, toRevokeIssue, toLogin, toIssue, toReply}
    \/ o = "force" /\ todo \in {toForce, toRevokeKick, toKick}
    \/ o = "promote" /\ todo \in {toPromote, toRole}
    \/ o = "demote" /\ todo \in {toDemote, toRoleBump, toBump}

\* The statements come one after the other.
LEMMA Todos ==
    /\ toRegister # <<>> /\ Head(toRegister) = "insert" /\ Tail(toRegister) = toIssue
    /\ toIssue # <<>> /\ Head(toIssue) = "create" /\ Tail(toIssue) = toReply
    /\ toReply # <<>> /\ Head(toReply) = "reply" /\ Tail(toReply) = <<>>
    /\ toLogin # <<>> /\ Head(toLogin) = "read" /\ Tail(toLogin) = toIssue
    /\ toRefresh # <<>> /\ Head(toRefresh) = "find" /\ Tail(toRefresh) = toRotate
    /\ toRotate # <<>> /\ Head(toRotate) = "create" /\ Tail(toRotate) = toMark
    /\ toMark # <<>> /\ Head(toMark) = "mark" /\ Tail(toMark) = toReread
    /\ toReread # <<>> /\ Head(toReread) = "read" /\ Tail(toReread) = toReply
    /\ toEndAll # <<>> /\ Head(toEndAll) = "revoke" /\ Tail(toEndAll) = toBumpAnswer
    /\ toBumpAnswer # <<>> /\ Head(toBumpAnswer) = "bump" /\ Tail(toBumpAnswer) = toAnswer
    /\ toAnswer # <<>> /\ Head(toAnswer) = "answer" /\ Tail(toAnswer) = <<>>
    /\ toLogout # <<>> /\ Head(toLogout) = "find" /\ Tail(toLogout) = toRevoke
    /\ toRevoke # <<>> /\ Head(toRevoke) = "revoke" /\ Tail(toRevoke) = <<>>
    /\ toPassword # <<>> /\ Head(toPassword) = "bump" /\ Tail(toPassword) = toRevokeIssue
    /\ toRevokeIssue # <<>> /\ Head(toRevokeIssue) = "revoke" /\ Tail(toRevokeIssue) = toLogin
    /\ toForce # <<>> /\ Head(toForce) = "bump" /\ Tail(toForce) = toRevokeKick
    /\ toRevokeKick # <<>> /\ Head(toRevokeKick) = "revoke" /\ Tail(toRevokeKick) = toKick
    /\ toKick # <<>> /\ Head(toKick) = "kick" /\ Tail(toKick) = <<>>
    /\ toPromote # <<>> /\ Head(toPromote) = "read" /\ Tail(toPromote) = toRole
    /\ toRole # <<>> /\ Head(toRole) = "role" /\ Tail(toRole) = <<>>
    /\ toDemote # <<>> /\ Head(toDemote) = "read" /\ Tail(toDemote) = toRoleBump
    /\ toRoleBump # <<>> /\ Head(toRoleBump) = "role" /\ Tail(toRoleBump) = toBump
    /\ toBump # <<>> /\ Head(toBump) = "bump" /\ Tail(toBump) = <<>>
  BY DEF toRegister, toIssue, toReply, toLogin, toRefresh, toRotate, toMark,
         toReread, toEndAll, toBumpAnswer, toAnswer, toLogout, toRevoke,
         toPassword, toRevokeIssue, toForce, toRevokeKick, toKick, toPromote,
         toRole, toDemote, toRoleBump, toBump

\* Each of them is a sequence of statements.
LEMMA TodosAre ==
    /\ toRegister \in Seq(Statements)
    /\ toIssue \in Seq(Statements)
    /\ toReply \in Seq(Statements)
    /\ toLogin \in Seq(Statements)
    /\ toRefresh \in Seq(Statements)
    /\ toRotate \in Seq(Statements)
    /\ toMark \in Seq(Statements)
    /\ toReread \in Seq(Statements)
    /\ toEndAll \in Seq(Statements)
    /\ toBumpAnswer \in Seq(Statements)
    /\ toAnswer \in Seq(Statements)
    /\ toLogout \in Seq(Statements)
    /\ toRevoke \in Seq(Statements)
    /\ toPassword \in Seq(Statements)
    /\ toRevokeIssue \in Seq(Statements)
    /\ toForce \in Seq(Statements)
    /\ toRevokeKick \in Seq(Statements)
    /\ toKick \in Seq(Statements)
    /\ toPromote \in Seq(Statements)
    /\ toRole \in Seq(Statements)
    /\ toDemote \in Seq(Statements)
    /\ toRoleBump \in Seq(Statements)
    /\ toBump \in Seq(Statements)
  BY DEF Statements, toRegister, toIssue, toReply, toLogin, toRefresh, toRotate,
         toMark, toReread, toEndAll, toBumpAnswer, toAnswer, toLogout, toRevoke,
         toPassword, toRevokeIssue, toForce, toRevokeKick, toKick, toPromote,
         toRole, toDemote, toRoleBump, toBump

\* What is left to do is a sequence of statements.
LEMMA TodosType ==
    ASSUME NEW o, NEW todo, Rest(o, todo)
    PROVE  todo \in Seq(Statements)
<1>1. <<>> \in Seq(Statements)
  OBVIOUS
<1> QED BY <1>1, TodosAre DEF Rest

\* Where each operation begins.
LEMMA StepsAre ==
    /\ DOMAIN Steps = {"register", "login", "refresh", "reuse", "logout", "password",
                       "force", "promote", "demote"}
    /\ Steps["register"] = toRegister
    /\ Steps["login"] = toLogin
    /\ Steps["refresh"] = toRefresh
    /\ Steps["reuse"] = toEndAll
    /\ Steps["logout"] = toLogout
    /\ Steps["password"] = toPassword
    /\ Steps["force"] = toForce
    /\ Steps["promote"] = toPromote
    /\ Steps["demote"] = toDemote
  BY DEF Steps, toRegister, toLogin, toRefresh, toEndAll, toLogout, toPassword, toForce, toPromote, toDemote

-----------------------------------------------------------------------------
(* The invariant *)

\* What a request of operation o that is at statement s has done.
HasBumped(o, s) ==
    \/ o = "force" /\ s \in {"revoke", "kick"}
    \/ o = "password" /\ s \in {"revoke", "read", "create", "reply"}
    \/ o = "reuse" /\ s = "answer"

HasRevoked(o, s) ==
    \/ o = "force" /\ s = "kick"
    \/ o = "password" /\ s \in {"read", "create", "reply"}
    \/ o = "reuse" /\ s \in {"bump", "answer"}

HasCreated(o, s) == s \in {"mark", "reply"} \/ (o = "refresh" /\ s = "read")

\* What a request knows, and no other request can undo.
Known(q) ==
    /\ Rest(q.op, q.todo)
    /\ q.tok <= tokens /\ q.new <= tokens /\ q.before.tokens <= tokens
    /\ q.op # "none" =>
        /\ q.who \in Users
        /\ q.row.version <= version[q.who]
        /\ q.before.version <= version[q.who]
        /\ q.op = "refresh" => q.tok \in 1..tokens /\ owner[q.tok] = q.who
        /\ HasCreated(q.op, Head(q.todo)) => q.new \in 1..tokens
        /\ HasBumped(q.op, Head(q.todo)) => q.before.version < version[q.who]
        /\ HasRevoked(q.op, Head(q.todo)) =>
              \A t \in 1..q.before.tokens : owner[t] = q.who => t \in revoked

\* A request that is about to create a token belongs to the user's epoch, or
\* to one whose end it has been through.
Dated(q) ==
    q.op # "none" /\ Head(q.todo) = "create" =>
        q.born = epoch[q.who] \/ q.born \in excused[q.who]

\* The types, but those of the requests; and each token has an owner.
Tables ==
    /\ exists \subseteq Users
    /\ role \in [Users -> Roles]
    /\ version \in [Users -> 0..MaxVersion]
    /\ tokens \in 0..MaxTokens
    /\ owner \in [Tokens -> Users \cup {None}]
    /\ \A t \in 1..tokens : owner[t] \in Users
    /\ revoked \subseteq 1..tokens
    /\ replaced \subseteq 1..tokens
    /\ sent \subseteq 1..tokens
    /\ access \subseteq AccessTokens
    /\ epoch \in [Users -> 0..MaxEpoch]
    /\ origin \in [Tokens -> 0..MaxEpoch]
    /\ parent \in [Tokens -> 0..tokens]
    /\ excused \in [Users -> SUBSET (0..MaxEpoch)]

Issued == \A a \in access : a.version <= version[a.user]

IInv ==
    /\ Tables
    /\ req \in [Reqs -> Requests]
    /\ \A r \in Reqs : Known(req[r]) /\ Dated(req[r])
    /\ Issued
    /\ SessionsStartAfresh

\* How the tables change.
Grow ==
    /\ tokens <= tokens'
    /\ \A t \in 1..tokens : owner'[t] = owner[t]
    /\ revoked \subseteq revoked'
    /\ \A u \in Users : version[u] <= version'[u]

\* The statement s of an operation and the one after it.
LEMMA NextIs ==
    ASSUME NEW o, NEW todo, Rest(o, todo), todo # <<>>
    PROVE  /\ o # "none"
           /\ Tail(todo) \in Seq(Statements)
           /\ Tail(todo) # <<>> =>
                /\ Rest(o, Tail(todo))
                /\ HasBumped(o, Head(Tail(todo))) => HasBumped(o, Head(todo)) \/ Head(todo) = "bump"
                /\ HasRevoked(o, Head(Tail(todo))) => HasRevoked(o, Head(todo)) \/ Head(todo) = "revoke"
                /\ HasCreated(o, Head(Tail(todo))) => HasCreated(o, Head(todo)) \/ Head(todo) = "create"
                /\ Head(Tail(todo)) = "create" =>
                     Head(todo) \in {"insert", "read"} \/ (o = "refresh" /\ Head(todo) = "find")
<1>1. o # "none"
  BY DEF Rest
<1>2. Tail(todo) # <<>> => Rest(o, Tail(todo))
  BY Todos DEF Rest
<1>3. Tail(todo) \in Seq(Statements)
  <2>1. <<>> \in Seq(Statements)
    OBVIOUS
  <2> QED BY <1>2, <2>1, TodosType
<1>4. HasBumped(o, Head(Tail(todo))) /\ Tail(todo) # <<>> => HasBumped(o, Head(todo)) \/ Head(todo) = "bump"
  BY Todos DEF Rest, HasBumped
<1>5. HasRevoked(o, Head(Tail(todo))) /\ Tail(todo) # <<>> => HasRevoked(o, Head(todo)) \/ Head(todo) = "revoke"
  BY Todos DEF Rest, HasRevoked
<1>6. HasCreated(o, Head(Tail(todo))) /\ Tail(todo) # <<>> => HasCreated(o, Head(todo)) \/ Head(todo) = "create"
  BY Todos DEF Rest, HasCreated
<1>7. Head(Tail(todo)) = "create" /\ Tail(todo) # <<>> =>
        Head(todo) \in {"insert", "read"} \/ (o = "refresh" /\ Head(todo) = "find")
  BY Todos DEF Rest
<1> QED BY <1>1, <1>2, <1>3, <1>4, <1>5, <1>6, <1>7

\* A worker without a request.
LEMMA FreeIs ==
    /\ Free \in Requests /\ Free.op = "none" /\ Free.todo = <<>>
    /\ Free.tok = 0 /\ Free.new = 0 /\ Free.before.tokens = 0
    /\ Free.row.version = 0 /\ Free.who = None
  BY StepsAre, SessionsAssumption DEF Free, Requests, NoRow, NoTime, Rows, Roles

\* The invariant holds in the beginning.
LEMMA InitIInv == Init => IInv
<1> SUFFICES ASSUME Init PROVE IInv
  OBVIOUS
<1>1. Tables
  BY SessionsAssumption DEF Init, Tables, Roles, Tokens
<1>2. req \in [Reqs -> Requests]
  BY FreeIs DEF Init
<1>3. \A r \in Reqs : Known(req[r]) /\ Dated(req[r])
  BY FreeIs DEF Init, Known, Dated, Rest
<1>4. Issued /\ SessionsStartAfresh
  BY DEF Init, Issued, SessionsStartAfresh
<1> QED BY <1>1, <1>2, <1>3, <1>4 DEF IInv

\* What a request knows stays known, whatever another one does.
LEMMA StaysKnown ==
    ASSUME IInv, Tables', Grow, NEW q \in Reqs, req'[q] = req[q]
    PROVE  Known(req[q])'
<1>1. Known(req[q]) /\ req[q] \in Requests
  BY DEF IInv
<1>2. /\ tokens \in Nat /\ tokens' \in Nat
      /\ version \in [Users -> Nat] /\ version' \in [Users -> Nat]
  BY SessionsAssumption DEF IInv, Tables
<1>3. req[q].tok \in Nat /\ req[q].new \in Nat /\ req[q].before.tokens \in Nat
      /\ req[q].row.version \in Nat /\ req[q].before.version \in Nat
  BY <1>1 DEF Requests, Rows
<1> DEFINE p == req[q]
<1>4. p.tok <= tokens' /\ p.new <= tokens' /\ p.before.tokens <= tokens'
  BY <1>1, <1>2, <1>3 DEF Grow, Known
<1>5. ASSUME p.op # "none"
      PROVE  /\ p.who \in Users
             /\ p.row.version <= version'[p.who]
             /\ p.before.version <= version'[p.who]
             /\ HasBumped(p.op, Head(p.todo)) => p.before.version < version'[p.who]
  BY <1>1, <1>2, <1>3, <1>5 DEF Grow, Known
<1>6. ASSUME p.op # "none"
      PROVE  /\ p.op = "refresh" => p.tok \in 1..tokens' /\ owner'[p.tok] = p.who
             /\ HasCreated(p.op, Head(p.todo)) => p.new \in 1..tokens'
             /\ HasRevoked(p.op, Head(p.todo)) =>
                  \A t \in 1..p.before.tokens : owner'[t] = p.who => t \in revoked'
  <2>1. ASSUME p.op = "refresh" PROVE p.tok \in 1..tokens' /\ owner'[p.tok] = p.who
    BY <1>1, <1>2, <1>3, <1>6, <2>1 DEF Grow, Known
  <2>2. ASSUME HasCreated(p.op, Head(p.todo)) PROVE p.new \in 1..tokens'
    BY <1>1, <1>2, <1>3, <1>6, <2>2 DEF Grow, Known
  <2>3. ASSUME HasRevoked(p.op, Head(p.todo)), NEW t \in 1..p.before.tokens, owner'[t] = p.who
        PROVE  t \in revoked'
    <3>1. t \in 1..tokens
      BY <1>1, <1>2, <1>3 DEF Known
    <3>2. owner[t] = p.who
      BY <2>3, <3>1 DEF Grow
    <3> QED BY <1>1, <1>6, <2>3, <3>2 DEF Grow, Known
  <2> QED BY <2>1, <2>2, <2>3
<1>7. Rest(p.op, p.todo)
  BY <1>1 DEF Known
<1>8. req'[q] = p
  OBVIOUS
<1> HIDE DEF p
<1> QED BY <1>4, <1>5, <1>6, <1>7, <1>8 DEF Known

\* A step of the request r, in the end.
LEMMA Moved ==
    ASSUME IInv, NEW r \in Reqs, Tables', Grow, Issued', SessionsStartAfresh',
           req' \in [Reqs -> Requests], Known(req[r])', Dated(req[r])',
           \A q \in Reqs : q # r => req'[q] = req[q] /\ Dated(req[q])'
    PROVE  IInv'
<1>1. ASSUME NEW q \in Reqs PROVE Known(req[q])' /\ Dated(req[q])'
  <2>1. CASE q = r
    BY <2>1
  <2>2. CASE q # r
    BY <2>2, StaysKnown
  <2> QED BY <2>1, <2>2
<1> QED BY <1>1 DEF IInv

\* A step that leaves alone what others rely on.
LEMMA Calm ==
    ASSUME IInv, NEW r \in Reqs, Tables', Issued',
           UNCHANGED <<version, tokens, owner, revoked, epoch, origin, excused>>,
           req' \in [Reqs -> Requests], Known(req[r])', Dated(req[r])',
           \A q \in Reqs : q # r => req'[q] = req[q]
    PROVE  IInv'
<1>1. tokens \in Nat /\ \A u \in Users : version[u] \in Nat
  BY SessionsAssumption DEF IInv, Tables
<1>2. Grow
  BY <1>1 DEF Grow
<1>3. SessionsStartAfresh'
  BY DEF IInv, SessionsStartAfresh
<1>4. ASSUME NEW q \in Reqs, q # r PROVE Dated(req[q])'
  BY <1>4 DEF IInv, Dated
<1> QED BY <1>2, <1>3, <1>4, Moved

\* A request has run a statement.
LEMMA Became ==
    ASSUME IInv, NEW r \in Reqs, req[r].todo # <<>>, NEW q \in Requests, Become(r, q)
    PROVE  /\ req' \in [Reqs -> Requests]
           /\ \A p \in Reqs : p # r => req'[p] = req[p]
           /\ Tail(req[r].todo) = <<>> => req'[r] = Free
           /\ Tail(req[r].todo) # <<>> =>
                /\ req'[r].op = q.op /\ req'[r].who = q.who /\ req'[r].tok = q.tok
                /\ req'[r].row = q.row /\ req'[r].new = q.new /\ req'[r].born = q.born
                /\ req'[r].before = q.before /\ req'[r].todo = Tail(req[r].todo)
<1> DEFINE rest == Tail(req[r].todo)
           new == [q EXCEPT !.todo = rest]
<1>1. req \in [Reqs -> Requests] /\ Rest(req[r].op, req[r].todo)
  BY DEF IInv, Known
<1>2. rest \in Seq(Statements)
  BY <1>1, NextIs
<1>3. new \in Requests
  BY <1>2 DEF Requests
<1>4. /\ new.op = q.op /\ new.who = q.who /\ new.tok = q.tok /\ new.row = q.row
      /\ new.new = q.new /\ new.born = q.born /\ new.before = q.before /\ new.todo = rest
  BY DEF Requests
<1>5. req' = [req EXCEPT ![r] = IF rest = <<>> THEN Free ELSE new]
  BY DEF Become
<1> HIDE DEF rest, new
<1>6. /\ req' \in [Reqs -> Requests]
      /\ \A p \in Reqs : p # r => req'[p] = req[p]
      /\ req'[r] = IF rest = <<>> THEN Free ELSE new
  BY <1>1, <1>3, <1>5, FreeIs
<1>7. /\ rest = <<>> => req'[r] = Free
      /\ rest # <<>> => req'[r] = new
  BY <1>6
<1> QED BY <1>4, <1>6, <1>7 DEF rest

\* An empty slot knows nothing.
LEMMA FreeKnows ==
    ASSUME tokens \in Nat, NEW r \in Reqs, req[r] = Free
    PROVE  Known(req[r]) /\ Dated(req[r])
  BY FreeIs DEF Known, Dated, Rest

\* What the request knows after the statement, given what the statement does.
LEMMA Further ==
    ASSUME IInv, Tables', Grow, NEW r \in Reqs, req[r].todo # <<>>,
           NEW q \in Requests, Become(r, q),
           q.op = req[r].op, q.who = req[r].who, q.tok = req[r].tok, q.before = req[r].before,
           q.row.version <= version'[req[r].who],
           q.new = req[r].new \/ (q.new \in 1..tokens'),
           Head(req[r].todo) = "create" => q.new \in 1..tokens',
           Head(req[r].todo) = "bump" => req[r].before.version < version'[req[r].who],
           Head(req[r].todo) = "revoke" =>
               \A t \in 1..req[r].before.tokens : owner'[t] = req[r].who => t \in revoked',
           Head(req[r].todo) \in {"insert", "read"}
              \/ (req[r].op = "refresh" /\ Head(req[r].todo) = "find") =>
               q.born = epoch'[req[r].who] \/ q.born \in excused'[req[r].who]
    PROVE  /\ req' \in [Reqs -> Requests]
           /\ \A p \in Reqs : p # r => req'[p] = req[p]
           /\ Known(req[r])' /\ Dated(req[r])'
<1> DEFINE o == req[r].op
           todo == req[r].todo
           w == req[r].who
           n == req'[r]
<1>1. Known(req[r]) /\ req[r] \in Requests /\ Rest(o, todo)
  BY DEF IInv, Known
<1>2. /\ o # "none"
      /\ Tail(todo) # <<>> =>
           /\ Rest(o, Tail(todo))
           /\ HasBumped(o, Head(Tail(todo))) => HasBumped(o, Head(todo)) \/ Head(todo) = "bump"
           /\ HasRevoked(o, Head(Tail(todo))) => HasRevoked(o, Head(todo)) \/ Head(todo) = "revoke"
           /\ HasCreated(o, Head(Tail(todo))) => HasCreated(o, Head(todo)) \/ Head(todo) = "create"
           /\ Head(Tail(todo)) = "create" =>
                Head(todo) \in {"insert", "read"} \/ (o = "refresh" /\ Head(todo) = "find")
  BY <1>1, NextIs
<1>3. /\ req' \in [Reqs -> Requests]
      /\ \A p \in Reqs : p # r => req'[p] = req[p]
      /\ Tail(todo) = <<>> => n = Free
      /\ Tail(todo) # <<>> =>
            /\ n.op = o /\ n.who = w /\ n.tok = req[r].tok
            /\ n.row = q.row /\ n.new = q.new /\ n.born = q.born
            /\ n.before = req[r].before /\ n.todo = Tail(todo)
  BY Became
<1>4. /\ tokens \in Nat /\ tokens' \in Nat
      /\ version \in [Users -> Nat] /\ version' \in [Users -> Nat]
  BY SessionsAssumption DEF IInv, Tables
<1>5. req[r].tok \in Nat /\ req[r].new \in Nat /\ req[r].before.tokens \in Nat
      /\ req[r].before.version \in Nat /\ q.new \in Nat
  BY <1>1 DEF Requests
<1>6. CASE Tail(todo) = <<>>
  BY <1>3, <1>4, <1>6, FreeIs DEF Known, Dated, Rest
<1>7. CASE Tail(todo) # <<>>
  <2> DEFINE s == Head(Tail(todo))
  <2>1. w \in Users
    BY <1>1, <1>2 DEF Known
  <2>2. req[r].tok <= tokens' /\ q.new <= tokens' /\ req[r].before.tokens <= tokens'
    BY <1>1, <1>4, <1>5 DEF Grow, Known
  <2>3. req[r].before.version <= version'[w]
    BY <1>1, <1>2, <1>4, <1>5, <2>1 DEF Grow, Known
  <2>4. o = "refresh" => req[r].tok \in 1..tokens' /\ owner'[req[r].tok] = w
    BY <1>1, <1>2, <1>4, <1>5 DEF Grow, Known
  <2>5. ASSUME HasCreated(o, s) PROVE q.new \in 1..tokens'
    <3>1. HasCreated(o, Head(todo)) \/ Head(todo) = "create"
      BY <1>2, <1>7, <2>5
    <3>2. CASE HasCreated(o, Head(todo))
      BY <1>1, <1>2, <1>4, <1>5, <3>2 DEF Grow, Known
    <3> QED BY <3>1, <3>2
  <2>6. ASSUME HasBumped(o, s) PROVE req[r].before.version < version'[w]
    <3>1. HasBumped(o, Head(todo)) \/ Head(todo) = "bump"
      BY <1>2, <1>7, <2>6
    <3>2. CASE HasBumped(o, Head(todo))
      BY <1>1, <1>2, <1>4, <1>5, <2>1, <3>2 DEF Grow, Known
    <3> QED BY <3>1, <3>2
  <2>7. ASSUME HasRevoked(o, s), NEW t \in 1..req[r].before.tokens, owner'[t] = w
        PROVE  t \in revoked'
    <3>1. HasRevoked(o, Head(todo)) \/ Head(todo) = "revoke"
      BY <1>2, <1>7, <2>7
    <3>2. CASE HasRevoked(o, Head(todo))
      <4>1. t \in 1..tokens
        BY <1>1, <1>4, <1>5 DEF Known
      <4>2. owner[t] = w
        BY <2>7, <4>1 DEF Grow
      <4> QED BY <1>1, <1>2, <3>2, <4>2 DEF Grow, Known
    <3>3. CASE Head(todo) = "revoke"
      BY <2>7, <3>3
    <3> QED BY <3>1, <3>2, <3>3
  <2>8. Head(Tail(todo)) = "create" => q.born = epoch'[w] \/ q.born \in excused'[w]
    BY <1>2, <1>7
  <2>9. q.row.version <= version'[w]
    OBVIOUS
  <2>10. Rest(o, Tail(todo)) /\ o # "none"
    BY <1>2, <1>7
  <2>11. /\ n.op = o /\ n.who = w /\ n.tok = req[r].tok
         /\ n.row = q.row /\ n.new = q.new /\ n.born = q.born
         /\ n.before = req[r].before /\ n.todo = Tail(todo) /\ Head(n.todo) = s
    BY <1>3, <1>7
  <2> HIDE DEF s, o, w, todo
  <2>12. Known(req[r])'
    BY <2>1, <2>2, <2>3, <2>4, <2>5, <2>6, <2>7, <2>9, <2>10, <2>11 DEF Known
  <2>13. Dated(req[r])'
    BY <2>8, <2>11 DEF Dated, s
  <2> QED BY <1>3, <2>12, <2>13
<1> QED BY <1>3, <1>6, <1>7

\* A statement that leaves alone what others rely on.
LEMMA CalmlyOn ==
    ASSUME IInv, Tables', Issued',
           UNCHANGED <<version, tokens, owner, revoked, epoch, origin, excused>>,
           NEW r \in Reqs, req[r].todo # <<>>, Head(req[r].todo) \notin {"create", "bump", "revoke"},
           NEW q \in Requests, Become(r, q),
           q.op = req[r].op, q.who = req[r].who, q.tok = req[r].tok, q.before = req[r].before,
           q.new = req[r].new, q.row.version <= version[req[r].who],
           Head(req[r].todo) \in {"insert", "read"}
              \/ (req[r].op = "refresh" /\ Head(req[r].todo) = "find") =>
               q.born = epoch[req[r].who] \/ q.born \in excused[req[r].who]
    PROVE  IInv'
<1>1. tokens \in Nat /\ \A u \in Users : version[u] \in Nat
  BY SessionsAssumption DEF IInv, Tables
<1>2. Grow
  BY <1>1 DEF Grow
<1>3. /\ req' \in [Reqs -> Requests]
      /\ \A p \in Reqs : p # r => req'[p] = req[p]
      /\ Known(req[r])' /\ Dated(req[r])'
  BY <1>2, Further
<1> QED BY <1>3, Calm

\* What is known of a request at a statement.
LEMMA Here ==
    ASSUME IInv, NEW r \in Reqs, NEW s, At(r, s)
    PROVE  /\ req[r] \in Requests /\ Known(req[r])
           /\ req[r].todo # <<>> /\ Head(req[r].todo) = s
           /\ req[r].op # "none" /\ req[r].who \in Users
           /\ req[r].row.version <= version[req[r].who]
  BY NextIs DEF IInv, Known, At

\* The same, when the request goes on unchanged.
LEMMA Onwards ==
    ASSUME IInv, Tables', Issued',
           UNCHANGED <<version, tokens, owner, revoked, epoch, origin, excused>>,
           NEW r \in Reqs, NEW s \in {"find", "mark", "reply", "kick", "answer", "role"},
           At(r, s), s = "find" => req[r].op = "logout", Onward(r)
    PROVE  IInv'
<1>1. /\ req[r] \in Requests /\ req[r].todo # <<>> /\ Head(req[r].todo) = s
      /\ req[r].row.version <= version[req[r].who]
  BY Here
<1>2. Become(r, req[r])
  BY DEF Onward
<1> QED BY <1>1, <1>2, CalmlyOn

\* ... and when it ends.
LEMMA Ends ==
    ASSUME IInv, Tables', Issued',
           UNCHANGED <<version, tokens, owner, revoked, epoch, origin, excused>>,
           NEW r \in Reqs, req' = [req EXCEPT ![r] = Free]
    PROVE  IInv'
<1>1. /\ req' \in [Reqs -> Requests] /\ req'[r] = Free
      /\ \A q \in Reqs : q # r => req'[q] = req[q]
  BY FreeIs DEF IInv
<1>2. Known(req[r])' /\ Dated(req[r])'
  BY <1>1, FreeIs DEF Known, Dated, Rest, Tables
<1> QED BY <1>1, <1>2, Calm

-----------------------------------------------------------------------------
(* The steps *)

\* The first statement of each operation.
LEMMA Beginnings ==
    /\ Head(Steps["register"]) = "insert" /\ Head(Steps["login"]) = "read"
    /\ Head(Steps["refresh"]) = "find" /\ Head(Steps["logout"]) = "find"
    /\ Head(Steps["password"]) = "bump" /\ Head(Steps["force"]) = "bump"
    /\ Head(Steps["promote"]) = "read" /\ Head(Steps["demote"]) = "read"
  BY StepsAre, Todos

\* A handler is called.
LEMMA BeginKeeps ==
    ASSUME IInv, NEW r \in Reqs, NEW caller \in Users, NEW o, NEW u \in Users,
           NEW t \in 0..tokens, o = "refresh" => t \in 1..tokens /\ owner[t] = u,
           Begin(r, caller, o, u, t)
    PROVE  IInv'
<1> DEFINE now == [tokens |-> tokens, version |-> version[u]]
           new == [Free EXCEPT !.op = o, !.who = u, !.tok = t, !.todo = Steps[o], !.before = now]
<1>1. o \in {"register", "login", "refresh", "logout", "password", "force", "promote", "demote"}
  BY SessionsAssumption DEF Begin
<1>2. /\ tokens \in Nat /\ version \in [Users -> 0..MaxVersion] /\ version[u] \in Nat
      /\ req \in [Reqs -> Requests]
  BY SessionsAssumption DEF IInv, Tables
<1>3. now.tokens = tokens /\ now.version = version[u] /\ now \in [tokens : Nat, version : 0..MaxVersion]
  BY <1>2
<1>4. req' = [req EXCEPT ![r] = new]
  BY DEF Begin
<1> HIDE DEF now
<1>5. /\ new.op = o /\ new.who = u /\ new.tok = t /\ new.todo = Steps[o] /\ new.before = now
      /\ new.row = Free.row /\ new.new = Free.new /\ new.born = Free.born
  BY FreeIs DEF Requests
<1>6. Steps[o] \in Seq(Statements)
  BY <1>1, StepsAre, TodosAre
<1>7. new \in Requests
  <2>1. o \in DOMAIN Steps \cup {"none"} /\ t \in Nat
    BY <1>1, <1>2, StepsAre
  <2> QED BY <1>3, <1>6, <2>1, FreeIs DEF Requests
<1> HIDE DEF new
<1>8. /\ req' \in [Reqs -> Requests] /\ req'[r] = new
      /\ \A q \in Reqs : q # r => req'[q] = req[q]
  BY <1>2, <1>4, <1>7
<1>9. Rest(o, Steps[o])
  BY <1>1, StepsAre DEF Rest
<1>10. /\ o # "none"
       /\ ~HasCreated(o, Head(Steps[o])) /\ ~HasBumped(o, Head(Steps[o]))
       /\ ~HasRevoked(o, Head(Steps[o])) /\ Head(Steps[o]) # "create"
  <2>1. Head(Steps[o]) \in IF o \in {"password", "force"} THEN {"bump"} ELSE {"insert", "read", "find"}
    BY <1>1, Beginnings
  <2>2. o = "refresh" => Head(Steps[o]) = "find"
    BY Beginnings
  <2> QED BY <1>1, <2>1, <2>2 DEF HasCreated, HasBumped, HasRevoked
<1>11. UNCHANGED <<userVars, tokenVars, clientVars, pastVars>>
  BY DEF Begin
<1>12. Known(req[r])'
  <2>1. /\ t <= tokens /\ Free.new <= tokens /\ now.tokens <= tokens
        /\ Free.row.version <= version[u] /\ now.version <= version[u]
    BY <1>2, <1>3, FreeIs
  <2> QED BY <1>5, <1>8, <1>9, <1>10, <1>11, <2>1 DEF Known, userVars, tokenVars, clientVars, pastVars
<1>13. Dated(req[r])'
  BY <1>5, <1>8, <1>10 DEF Dated
<1>14. Tables' /\ Issued'
  BY <1>11 DEF IInv, Tables, Issued, userVars, tokenVars, clientVars, pastVars
<1> QED BY <1>8, <1>11, <1>12, <1>13, <1>14, Calm DEF userVars, tokenVars, clientVars, pastVars

\* The handlers that can be called, and what their callers have passed.
LEMMA ArriveKeeps ==
    ASSUME IInv, NEW r \in Reqs, Arrive(r)
    PROVE  IInv'
<1>1. tokens \in Nat /\ sent \subseteq 1..tokens /\ \A t \in 1..tokens : owner[t] \in Users
  BY SessionsAssumption DEF IInv, Tables
<1>2. ASSUME NEW u \in Users, Register(r, u) \/ Login(r, u) \/ ChangePassword(r, u)
      PROVE  IInv'
  <2>1. \E o \in {"register", "login", "password"} : Begin(r, u, o, u, 0)
    BY <1>2 DEF Register, Login, ChangePassword
  <2> QED BY <1>1, <2>1, BeginKeeps
<1>3. ASSUME NEW t \in sent, Refresh(r, t)
      PROVE  IInv'
  <2>1. Begin(r, owner[t], "refresh", owner[t], t)
    BY <1>3 DEF Refresh
  <2>2. t \in 1..tokens /\ t \in 0..tokens /\ owner[t] \in Users
    BY <1>1
  <2> QED BY <2>1, <2>2, BeginKeeps
<1>4. ASSUME NEW t \in sent, NEW u \in Users, Logout(r, u, t)
      PROVE  IInv'
  <2>1. Begin(r, u, "logout", owner[t], t)
    BY <1>4 DEF Logout
  <2>2. t \in 0..tokens /\ owner[t] \in Users
    BY <1>1
  <2> QED BY <2>1, <2>2, BeginKeeps
<1>5. ASSUME NEW m \in Users, NEW u \in Users, NEW o \in {"force", "promote", "demote"},
             Administer(r, m, o, u)
      PROVE  IInv'
  <2>1. Begin(r, m, o, u, 0)
    BY <1>5 DEF Administer
  <2> QED BY <1>1, <2>1, BeginKeeps
<1> QED BY <1>2, <1>3, <1>4, <1>5 DEF Arrive

\* The INSERT of a new user.
LEMMA InsertKeeps ==
    ASSUME IInv, NEW r \in Reqs, Insert(r)
    PROVE  IInv'
<1> DEFINE q == [req[r] EXCEPT !.born = epoch[req[r].who]]
<1>1. At(r, "insert") /\ Become(r, q)
  BY DEF Insert
<1>2. /\ req[r] \in Requests /\ req[r].todo # <<>> /\ Head(req[r].todo) = "insert"
      /\ req[r].who \in Users /\ req[r].row.version <= version[req[r].who]
  BY <1>1, Here
<1>3. /\ q.op = req[r].op /\ q.who = req[r].who /\ q.tok = req[r].tok /\ q.row = req[r].row
      /\ q.new = req[r].new /\ q.before = req[r].before /\ q.born = epoch[req[r].who]
  BY <1>2 DEF Requests
<1>4. q \in Requests
  <2>1. epoch[req[r].who] \in 0..MaxEpoch
    BY <1>2 DEF IInv, Tables
  <2> QED BY <1>2, <2>1 DEF Requests
<1>5. Tables' /\ Issued'
  BY <1>2 DEF Insert, IInv, Tables, Issued, tokenVars, clientVars, pastVars
<1>6. UNCHANGED <<version, tokens, owner, revoked, epoch, origin, excused>>
  BY DEF Insert, tokenVars, pastVars
<1> HIDE DEF q
<1> QED BY <1>1, <1>2, <1>3, <1>4, <1>5, <1>6, CalmlyOn

\* The user's row is read.
LEMMA ReadKeeps ==
    ASSUME IInv, NEW r \in Reqs, Read(r)
    PROVE  IInv'
<1> DEFINE u == req[r].who
           read == [version |-> version[u], role |-> role[u]]
           q == [req[r] EXCEPT !.row = read, !.born = epoch[u]]
<1>1. At(r, "read") /\ Become(r, q)
  BY DEF Read
<1>2. /\ req[r] \in Requests /\ req[r].todo # <<>> /\ Head(req[r].todo) = "read"
      /\ u \in Users
  BY <1>1, Here
<1>3. version[u] \in 0..MaxVersion /\ role[u] \in Roles /\ epoch[u] \in 0..MaxEpoch
  BY <1>2 DEF IInv, Tables
<1>4. read \in Rows /\ read.version = version[u]
  BY <1>3 DEF Rows
<1> HIDE DEF read
<1>5. /\ q.op = req[r].op /\ q.who = req[r].who /\ q.tok = req[r].tok /\ q.row = read
      /\ q.new = req[r].new /\ q.before = req[r].before /\ q.born = epoch[u]
  BY <1>2 DEF Requests
<1>6. q \in Requests
  BY <1>2, <1>3, <1>4 DEF Requests
<1>7. Tables' /\ Issued'
  BY DEF Read, IInv, Tables, Issued, userVars, tokenVars, clientVars, pastVars
<1>8. UNCHANGED <<version, tokens, owner, revoked, epoch, origin, excused>>
  BY DEF Read, userVars, tokenVars, pastVars
<1>9. read.version <= version[u]
  BY <1>3, <1>4, SessionsAssumption
<1> HIDE DEF q
<1> QED BY <1>1, <1>2, <1>5, <1>6, <1>7, <1>8, <1>9, CalmlyOn

\* The refresh token is looked up, to be rotated or found used before.
LEMMA FindForRefreshKeeps ==
    ASSUME IInv, NEW r \in Reqs, FindForRefresh(r)
    PROVE  IInv'
<1> DEFINE t == req[r].tok
           u == req[r].who
<1>1. At(r, "find") /\ req[r].op = "refresh"
  BY DEF FindForRefresh
<1>2. /\ req[r] \in Requests /\ Known(req[r]) /\ req[r].todo # <<>>
      /\ Head(req[r].todo) = "find" /\ u \in Users /\ req[r].row.version <= version[u]
  BY <1>1, Here
<1>3. t \in 1..tokens /\ owner[t] = u
  BY <1>1, <1>2 DEF Known
<1>4. Tables' /\ Issued'
  BY DEF FindForRefresh, IInv, Tables, Issued, userVars, tokenVars, clientVars, pastVars
<1>5. UNCHANGED <<version, tokens, owner, revoked, epoch, origin, excused>>
  BY DEF FindForRefresh, userVars, tokenVars, pastVars
<1>6. CASE req' = [req EXCEPT ![r].op = "reuse", ![r].todo = Steps.reuse]
  <2> DEFINE new == [req[r] EXCEPT !.op = "reuse", !.todo = Steps["reuse"]]
  <2>1. req' = [req EXCEPT ![r] = new]
    BY <1>6 DEF IInv
  <2>2. /\ new.op = "reuse" /\ new.who = u /\ new.tok = t /\ new.row = req[r].row
        /\ new.todo = toEndAll /\ new.new = req[r].new /\ new.before = req[r].before
    BY <1>2, StepsAre DEF Requests
  <2>3. new \in Requests
    BY <1>2, StepsAre, TodosAre DEF Requests
  <2> HIDE DEF new
  <2>4. /\ req' \in [Reqs -> Requests] /\ req'[r] = new
        /\ \A q \in Reqs : q # r => req'[q] = req[q]
    BY <2>1, <2>3 DEF IInv
  <2>5. /\ Head(toEndAll) = "revoke" /\ Rest("reuse", toEndAll)
        /\ ~HasCreated("reuse", "revoke") /\ ~HasBumped("reuse", "revoke") /\ ~HasRevoked("reuse", "revoke")
    BY Todos DEF Rest, HasCreated, HasBumped, HasRevoked
  <2>6. Known(req[r])'
    <3>1. t <= tokens /\ req[r].new <= tokens /\ req[r].before.tokens <= tokens
          /\ req[r].before.version <= version[u]
      BY <1>1, <1>2 DEF Known
    <3> QED BY <1>2, <1>5, <2>2, <2>4, <2>5, <3>1 DEF Known
  <2>7. Dated(req[r])'
    BY <2>2, <2>4, <2>5 DEF Dated
  <2> QED BY <1>4, <1>5, <2>4, <2>6, <2>7, Calm
<1>7. CASE ~Spent(t) /\ Become(r, [req[r] EXCEPT !.born = origin[t]])
  <2> DEFINE q == [req[r] EXCEPT !.born = origin[t]]
  <2>1. /\ q.op = req[r].op /\ q.who = u /\ q.tok = t /\ q.row = req[r].row
        /\ q.new = req[r].new /\ q.before = req[r].before /\ q.born = origin[t]
    BY <1>2 DEF Requests
  <2>2. q \in Requests
    <3>1. t \in Tokens
      BY <1>3, SessionsAssumption DEF IInv, Tables, Tokens
    <3>2. origin[t] \in 0..MaxEpoch
      BY <3>1 DEF IInv, Tables
    <3> QED BY <1>2, <3>2 DEF Requests
  <2>3. origin[t] = epoch[u] \/ origin[t] \in excused[u]
    BY <1>3, <1>7 DEF IInv, SessionsStartAfresh, Spent
  <2>4. Become(r, q)
    BY <1>7
  <2> HIDE DEF q
  <2> QED BY <1>2, <1>4, <1>5, <2>1, <2>2, <2>3, <2>4, CalmlyOn
<1> QED BY <1>6, <1>7 DEF FindForRefresh

\* The refresh token is looked up, to be revoked.
LEMMA FindForLogoutKeeps ==
    ASSUME IInv, NEW r \in Reqs, FindForLogout(r)
    PROVE  IInv'
<1>1. Tables' /\ Issued'
  BY DEF FindForLogout, IInv, Tables, Issued, userVars, tokenVars, clientVars, pastVars
<1>2. UNCHANGED <<version, tokens, owner, revoked, epoch, origin, excused>>
  BY DEF FindForLogout, userVars, tokenVars, pastVars
<1>3. At(r, "find") /\ req[r].op = "logout"
  BY DEF FindForLogout
<1>4. CASE Onward(r)
  BY <1>1, <1>2, <1>3, <1>4, Onwards
<1>5. CASE req' = [req EXCEPT ![r] = Free]
  BY <1>1, <1>2, <1>5, Ends
<1> QED BY <1>4, <1>5 DEF FindForLogout

\* A new refresh token is stored.
LEMMA CreateKeeps ==
    ASSUME IInv, NEW r \in Reqs, Create(r)
    PROVE  IInv'
<1> DEFINE t == tokens + 1
           u == req[r].who
           q == [req[r] EXCEPT !.new = t]
<1>1. At(r, "create") /\ Become(r, q) /\ tokens < MaxTokens
  BY DEF Create
<1>2. /\ req[r] \in Requests /\ Known(req[r]) /\ req[r].todo # <<>> /\ req[r].op # "none"
      /\ Head(req[r].todo) = "create" /\ u \in Users /\ req[r].row.version <= version[u]
  BY <1>1, Here
<1>3. tokens \in Nat /\ t \in Tokens /\ tokens \in 0..MaxTokens
  BY <1>1, SessionsAssumption DEF IInv, Tables, Tokens
<1>4. tokens' = t /\ owner' = [owner EXCEPT ![t] = u] /\ origin' = [origin EXCEPT ![t] = req[r].born]
      /\ parent' = [parent EXCEPT ![t] = req[r].tok]
  BY DEF Create
<1>5. UNCHANGED <<exists, role, version, revoked, replaced, sent, access, epoch, excused>>
  BY DEF Create, userVars, clientVars, pastVars
<1>6. req[r].born \in 0..MaxEpoch /\ req[r].tok \in Nat /\ req[r].tok <= tokens
  BY <1>2 DEF Requests, Known
<1>7. Tables
  BY DEF IInv
<1>8. \A s \in 1..tokens : s \in Tokens /\ s # t /\ owner'[s] = owner[s] /\ origin'[s] = origin[s]
  <2>1. \A s \in 1..tokens : s \in Tokens /\ s # t
    BY <1>3, SessionsAssumption DEF Tokens
  <2> HIDE DEF t
  <2> QED BY <1>4, <1>7, <2>1 DEF Tables
<1>9. owner'[t] = u /\ origin'[t] = req[r].born
  BY <1>3, <1>4, <1>7 DEF Tables
<1>10. 1..tokens' = 1..tokens \cup {t}
  BY <1>3, <1>4
<1>11. Tables'
  <2>1. /\ owner' \in [Tokens -> Users \cup {None}]
        /\ origin' \in [Tokens -> 0..MaxEpoch]
    BY <1>2, <1>3, <1>4, <1>6, <1>7 DEF Tables
  <2>2. parent' \in [Tokens -> 0..tokens']
    <3>1. req[r].tok \in 0..tokens' /\ 0..tokens \subseteq 0..tokens'
      BY <1>3, <1>4, <1>6
    <3> QED BY <1>3, <1>4, <1>7, <3>1 DEF Tables
  <2>3. \A s \in 1..tokens' : owner'[s] \in Users
    BY <1>2, <1>7, <1>8, <1>9, <1>10 DEF Tables
  <2>4. tokens' \in 0..MaxTokens
    BY <1>1, <1>3, <1>4, SessionsAssumption
  <2>5. revoked' \subseteq 1..tokens' /\ replaced' \subseteq 1..tokens' /\ sent' \subseteq 1..tokens'
    BY <1>5, <1>7, <1>10 DEF Tables
  <2> QED BY <1>5, <1>7, <2>1, <2>2, <2>3, <2>4, <2>5 DEF Tables
<1>12. Grow
  <2>1. \A v \in Users : version[v] \in Nat
    BY <1>7, SessionsAssumption DEF Tables
  <2> QED BY <1>3, <1>4, <1>5, <1>8, <2>1 DEF Grow
<1>13. Issued'
  BY <1>5 DEF IInv, Issued
<1>14. SessionsStartAfresh'
  <2>1. req[r].born = epoch[u] \/ req[r].born \in excused[u]
    BY <1>2 DEF IInv, Dated
  <2>2. ASSUME NEW s \in 1..tokens'
        PROVE  s \in revoked' \/ origin'[s] = epoch'[owner'[s]] \/ origin'[s] \in excused'[owner'[s]]
    <3>1. CASE s = t
      BY <1>5, <1>9, <2>1, <3>1
    <3>2. CASE s \in 1..tokens
      BY <1>5, <1>8, <3>2 DEF IInv, SessionsStartAfresh
    <3> QED BY <1>10, <3>1, <3>2
  <2> QED BY <2>2 DEF SessionsStartAfresh
<1>15. /\ q.op = req[r].op /\ q.who = u /\ q.tok = req[r].tok /\ q.row = req[r].row
       /\ q.new = t /\ q.before = req[r].before /\ q \in Requests
  BY <1>2, <1>3 DEF Requests
<1>16. q.new \in 1..tokens' /\ q.row.version <= version'[u]
  BY <1>2, <1>3, <1>4, <1>5, <1>15
<1> HIDE DEF q
<1>17. /\ req' \in [Reqs -> Requests]
       /\ \A p \in Reqs : p # r => req'[p] = req[p]
       /\ Known(req[r])' /\ Dated(req[r])'
  BY <1>1, <1>2, <1>11, <1>12, <1>15, <1>16, Further
<1>18. ASSUME NEW p \in Reqs, p # r PROVE Dated(req[p])'
  <2>1. Dated(req[p]) /\ req'[p] = req[p]
    BY <1>17, <1>18 DEF IInv
  <2> QED BY <1>5, <2>1 DEF Dated
<1> QED BY <1>11, <1>12, <1>13, <1>14, <1>17, <1>18, Moved

\* The old refresh token is marked as replaced.
LEMMA MarkKeeps ==
    ASSUME IInv, NEW r \in Reqs, Mark(r)
    PROVE  IInv'
<1>1. At(r, "mark") /\ Onward(r)
  BY DEF Mark
<1>2. Known(req[r]) /\ req[r].todo # <<>> /\ Head(req[r].todo) = "mark" /\ req[r].op # "none"
  BY <1>1, Here
<1>3. req[r].op = "refresh"
  BY <1>2, Todos DEF Known, Rest
<1>4. req[r].tok \in 1..tokens
  BY <1>2, <1>3 DEF Known
<1>5. UNCHANGED <<version, tokens, owner, revoked, epoch, origin, excused>>
  BY DEF Mark, userVars, pastVars
<1>6. Tables' /\ Issued'
  BY <1>4 DEF Mark, IInv, Tables, Issued, userVars, clientVars, pastVars
<1> QED BY <1>1, <1>5, <1>6, Onwards

\* The answer carries the new tokens to the client.
LEMMA ReplyKeeps ==
    ASSUME IInv, NEW r \in Reqs, Reply(r)
    PROVE  IInv'
<1> DEFINE a == [user |-> req[r].who, version |-> req[r].row.version]
<1>1. At(r, "reply") /\ Onward(r)
  BY DEF Reply
<1>2. /\ req[r] \in Requests /\ Known(req[r]) /\ req[r].op # "none"
      /\ Head(req[r].todo) = "reply" /\ req[r].who \in Users
      /\ req[r].row.version <= version[req[r].who]
  BY <1>1, Here
<1>3. req[r].new \in 1..tokens
  BY <1>2 DEF Known, HasCreated
<1>4. a \in AccessTokens
  BY <1>2 DEF Requests, Rows, AccessTokens
<1>5. UNCHANGED <<version, tokens, owner, revoked, epoch, origin, excused>>
  BY DEF Reply, userVars, tokenVars, pastVars
<1>6. sent' = sent \cup {req[r].new} /\ access' = access \cup {a}
  BY DEF Reply
<1>7. Tables'
  BY <1>3, <1>4, <1>6 DEF Reply, IInv, Tables, userVars, tokenVars, pastVars
<1>8. Issued'
  BY <1>2, <1>5, <1>6 DEF IInv, Issued
<1> QED BY <1>1, <1>5, <1>7, <1>8, Onwards

\* Refresh tokens are revoked, one or all of a user.
LEMMA RevokeKeeps ==
    ASSUME IInv, NEW r \in Reqs, Revoke(r)
    PROVE  IInv'
<1> DEFINE u == req[r].who
           q == [req[r] EXCEPT !.born = epoch[u] + 1]
<1>1. At(r, "revoke") /\ Become(r, q) /\ epoch[u] < MaxEpoch
  BY DEF Revoke
<1>2. /\ req[r] \in Requests /\ Known(req[r]) /\ req[r].todo # <<>> /\ req[r].op # "none"
      /\ Head(req[r].todo) = "revoke" /\ u \in Users /\ req[r].row.version <= version[u]
  BY <1>1, Here
<1>3. /\ revoked' = revoked \cup Owned(u)
      /\ epoch' = [epoch EXCEPT ![u] = @ + 1]
      /\ excused' = [excused EXCEPT ![u] = @ \cup {req[p].born : p \in HalfWay(u)}]
  BY DEF Revoke
<1>4. UNCHANGED <<exists, role, version, tokens, owner, replaced, origin, parent, sent, access>>
  BY DEF Revoke, userVars, clientVars
<1>5. Tables /\ epoch[u] \in 0..MaxEpoch /\ tokens \in Nat
  BY <1>2, SessionsAssumption DEF IInv, Tables
<1>6. epoch[u] + 1 \in 0..MaxEpoch
  BY <1>1, <1>5, SessionsAssumption
<1>7. {req[p].born : p \in HalfWay(u)} \subseteq 0..MaxEpoch
  BY DEF HalfWay, IInv, Requests
<1>8. Tables'
  <2>1. revoked' \subseteq 1..tokens
    BY <1>3, <1>5 DEF Owned, Tables
  <2>2. epoch' \in [Users -> 0..MaxEpoch]
    BY <1>3, <1>5, <1>6 DEF Tables
  <2>3. excused' \in [Users -> SUBSET (0..MaxEpoch)]
    BY <1>2, <1>3, <1>5, <1>7 DEF Tables
  <2> QED BY <1>4, <1>5, <2>1, <2>2, <2>3 DEF Tables
<1>9. Grow
  <2>1. \A v \in Users : version[v] \in Nat
    BY <1>5, SessionsAssumption DEF Tables
  <2> QED BY <1>3, <1>4, <1>5, <2>1 DEF Grow
<1>10. Issued'
  BY <1>4 DEF IInv, Issued
<1>11. \A v \in Users : v # u => epoch'[v] = epoch[v] /\ excused'[v] = excused[v]
  BY <1>3, <1>5 DEF Tables
<1>12. SessionsStartAfresh'
  <2>1. ASSUME NEW s \in 1..tokens
        PROVE  s \in revoked' \/ origin'[s] = epoch'[owner'[s]] \/ origin'[s] \in excused'[owner'[s]]
    <3>1. CASE owner[s] = u
      BY <1>3, <3>1 DEF Owned
    <3>2. CASE owner[s] # u
      <4>1. owner[s] \in Users
        BY <1>5 DEF Tables
      <4>2. s \in revoked \/ origin[s] = epoch[owner[s]] \/ origin[s] \in excused[owner[s]]
        BY DEF IInv, SessionsStartAfresh
      <4> QED BY <1>3, <1>4, <1>11, <3>2, <4>1, <4>2
    <3> QED BY <3>1, <3>2
  <2> QED BY <1>4, <2>1 DEF SessionsStartAfresh
<1>13. /\ q.op = req[r].op /\ q.who = u /\ q.tok = req[r].tok /\ q.row = req[r].row
       /\ q.new = req[r].new /\ q.before = req[r].before /\ q \in Requests
  BY <1>2, <1>6 DEF Requests
<1>14. \A t \in 1..req[r].before.tokens : owner'[t] = u => t \in revoked'
  <2>1. req[r].before.tokens \in Nat /\ req[r].before.tokens <= tokens
    BY <1>2 DEF Requests, Known
  <2> QED BY <1>3, <1>4, <1>5, <2>1 DEF Owned
<1>15. q.row.version <= version'[u]
  BY <1>2, <1>4, <1>13
<1> HIDE DEF q
<1>16. /\ req' \in [Reqs -> Requests]
       /\ \A p \in Reqs : p # r => req'[p] = req[p]
       /\ Known(req[r])' /\ Dated(req[r])'
  BY <1>1, <1>2, <1>8, <1>9, <1>13, <1>14, <1>15, Further
<1>17. ASSUME NEW p \in Reqs, p # r PROVE Dated(req[p])'
  <2>1. Dated(req[p]) /\ Known(req[p]) /\ req'[p] = req[p]
    BY <1>16, <1>17 DEF IInv
  <2>2. SUFFICES ASSUME req[p].op # "none", Head(req[p].todo) = "create"
                 PROVE  req[p].born = epoch'[req[p].who] \/ req[p].born \in excused'[req[p].who]
    BY <2>1 DEF Dated
  <2>3. req[p].who \in Users /\ req[p].todo # <<>>
    BY <2>1, <2>2, Todos DEF Known, Rest
  <2>4. CASE req[p].who = u
    <3>1. p \in HalfWay(u)
      BY <2>2, <2>3, <2>4 DEF HalfWay, At
    <3>2. excused'[u] = excused[u] \cup {req[x].born : x \in HalfWay(u)}
      BY <1>2, <1>3, <1>5 DEF Tables
    <3> QED BY <2>4, <3>1, <3>2
  <2>5. CASE req[p].who # u
    BY <1>11, <2>1, <2>2, <2>3, <2>5 DEF Dated
  <2> QED BY <2>4, <2>5
<1> QED BY <1>8, <1>9, <1>10, <1>12, <1>16, <1>17, Moved

\* token_version is counted up.
LEMMA BumpKeeps ==
    ASSUME IInv, NEW r \in Reqs, Bump(r)
    PROVE  IInv'
<1> DEFINE u == req[r].who
<1>1. At(r, "bump") /\ Onward(r) /\ version[u] < MaxVersion
  BY DEF Bump
<1>2. /\ req[r] \in Requests /\ Known(req[r]) /\ req[r].todo # <<>> /\ req[r].op # "none"
      /\ Head(req[r].todo) = "bump" /\ u \in Users /\ req[r].row.version <= version[u]
  BY <1>1, Here
<1>3. version' = [version EXCEPT ![u] = version[u] + 1]
  BY DEF Bump, Bumped
<1>4. UNCHANGED <<exists, role, tokens, owner, revoked, replaced, origin, parent, sent, access, epoch, excused>>
  BY DEF Bump, tokenVars, clientVars, pastVars
<1>5. Tables /\ tokens \in Nat /\ \A v \in Users : version[v] \in Nat
  BY SessionsAssumption DEF IInv, Tables
<1>6. version[u] + 1 \in 0..MaxVersion
  BY <1>1, <1>2, <1>5, SessionsAssumption
<1>7. /\ version'[u] = version[u] + 1
      /\ \A v \in Users : v # u => version'[v] = version[v]
  BY <1>2, <1>3, <1>5 DEF Tables
<1>8. Tables'
  <2>1. version' \in [Users -> 0..MaxVersion]
    BY <1>3, <1>5, <1>6 DEF Tables
  <2> QED BY <1>4, <1>5, <2>1 DEF Tables
<1>9. \A v \in Users : version[v] <= version'[v]
  BY <1>2, <1>5, <1>7
<1>10. Grow
  BY <1>4, <1>5, <1>9 DEF Grow
<1>11. Issued'
  <2>1. ASSUME NEW a \in access PROVE a.version <= version'[a.user]
    <3>1. a.user \in Users /\ a.version \in Nat /\ a.version <= version[a.user]
      BY <1>5 DEF IInv, Issued, Tables, AccessTokens
    <3>2. version'[a.user] \in Nat
      BY <1>5, <1>7, <3>1
    <3> QED BY <1>5, <1>9, <3>1, <3>2
  <2> QED BY <1>4, <2>1 DEF Issued
<1>12. SessionsStartAfresh'
  BY <1>4 DEF IInv, SessionsStartAfresh
<1>13. req[r].row.version <= version'[u] /\ req[r].before.version < version'[u]
  <2>1. req[r].before.version <= version[u] /\ req[r].before.version \in Nat /\ req[r].row.version \in Nat
    BY <1>2, SessionsAssumption DEF Known, Requests, Rows
  <2> QED BY <1>2, <1>5, <1>7, <2>1
<1>14. Become(r, req[r])
  BY <1>1 DEF Onward
<1>15. /\ req' \in [Reqs -> Requests]
       /\ \A p \in Reqs : p # r => req'[p] = req[p]
       /\ Known(req[r])' /\ Dated(req[r])'
  BY <1>2, <1>8, <1>10, <1>13, <1>14, Further
<1>16. ASSUME NEW p \in Reqs, p # r PROVE Dated(req[p])'
  BY <1>4, <1>15, <1>16 DEF IInv, Dated
<1> QED BY <1>8, <1>10, <1>11, <1>12, <1>15, <1>16, Moved

\* A request ends.
LEMMA FinishKeeps ==
    ASSUME IInv, NEW r \in Reqs, Finish(r)
    PROVE  IInv'
<1>1. Tables' /\ Issued'
  BY DEF Finish, IInv, Tables, Issued, userVars, tokenVars, clientVars, pastVars
<1>2. UNCHANGED <<version, tokens, owner, revoked, epoch, origin, excused>>
  BY DEF Finish, userVars, tokenVars, pastVars
<1> QED BY <1>1, <1>2, Onwards DEF Finish

\* The role is written.
LEMMA SetRoleKeeps ==
    ASSUME IInv, NEW r \in Reqs, SetRole(r)
    PROVE  IInv'
<1>1. role' \in [Users -> Roles]
  BY DEF SetRole, IInv, Tables, Roles
<1>2. Tables' /\ Issued'
  BY <1>1 DEF SetRole, IInv, Tables, Issued, tokenVars, clientVars, pastVars
<1>3. UNCHANGED <<version, tokens, owner, revoked, epoch, origin, excused>>
  BY DEF SetRole, tokenVars, pastVars
<1>4. At(r, "role")
  BY DEF SetRole
<1>5. CASE Onward(r)
  BY <1>2, <1>3, <1>4, <1>5, Onwards
<1>6. CASE req' = [req EXCEPT ![r] = Free]
  BY <1>2, <1>3, <1>6, Ends
<1> QED BY <1>5, <1>6 DEF SetRole

\* A request fails half-way.
LEMMA AbortKeeps ==
    ASSUME IInv, NEW r \in Reqs, Abort(r)
    PROVE  IInv'
<1>1. Tables' /\ Issued'
  BY DEF Abort, IInv, Tables, Issued, userVars, tokenVars, clientVars, pastVars
<1>2. UNCHANGED <<version, tokens, owner, revoked, epoch, origin, excused>>
  BY DEF Abort, userVars, tokenVars, pastVars
<1> QED BY <1>1, <1>2, Ends DEF Abort

\* Every step keeps the invariant.
LEMMA StepKeeps == IInv /\ [Next]_vars => IInv'
<1> SUFFICES ASSUME IInv, [Next]_vars PROVE IInv'
  OBVIOUS
<1>1. ASSUME NEW r \in Reqs, Arrive(r) PROVE IInv'
  BY <1>1, ArriveKeeps
<1>2. ASSUME NEW r \in Reqs, Statement(r) PROVE IInv'
  BY <1>2, InsertKeeps, ReadKeeps, FindForRefreshKeeps, FindForLogoutKeeps, CreateKeeps,
     MarkKeeps, ReplyKeeps, RevokeKeeps, BumpKeeps, FinishKeeps, SetRoleKeeps DEF Statement
<1>3. ASSUME NEW r \in Reqs, Abort(r) PROVE IInv'
  BY <1>3, AbortKeeps
<1>4. CASE UNCHANGED vars
  <2>1. UNCHANGED <<exists, role, version, tokens, owner, revoked, replaced, origin, parent,
                    sent, access, epoch, excused, req>>
    BY <1>4 DEF vars, userVars, tokenVars, clientVars, pastVars
  <2>2. Tables' /\ Issued' /\ SessionsStartAfresh' /\ req' \in [Reqs -> Requests]
    BY <2>1 DEF IInv, Tables, Issued, SessionsStartAfresh
  <2>3. \A r \in Reqs : Known(req[r])' /\ Dated(req[r])'
    BY <2>1 DEF IInv, Known, Dated
  <2> QED BY <2>2, <2>3 DEF IInv
<1> QED BY <1>1, <1>2, <1>3, <1>4 DEF Next

\* A request that ends sessions and has neither write before it any more.
LEMMA EndedAre ==
    ASSUME NEW o \in {"force", "password", "reuse"}, NEW todo, Rest(o, todo),
           \A i \in DOMAIN todo : todo[i] \notin {"bump", "revoke"}
    PROVE  HasBumped(o, Head(todo)) /\ HasRevoked(o, Head(todo))
<1>1. /\ 1 \in DOMAIN toForce /\ toForce[1] = "bump"
      /\ 1 \in DOMAIN toRevokeKick /\ toRevokeKick[1] = "revoke"
      /\ 1 \in DOMAIN toPassword /\ toPassword[1] = "bump"
      /\ 1 \in DOMAIN toRevokeIssue /\ toRevokeIssue[1] = "revoke"
      /\ 1 \in DOMAIN toEndAll /\ toEndAll[1] = "revoke"
      /\ 1 \in DOMAIN toBumpAnswer /\ toBumpAnswer[1] = "bump"
  BY DEF toForce, toRevokeKick, toPassword, toRevokeIssue, toEndAll, toBumpAnswer
<1>2. \/ o = "force" /\ todo = toKick
      \/ o = "password" /\ todo \in {toLogin, toIssue, toReply}
      \/ o = "reuse" /\ todo = toAnswer
  BY <1>1 DEF Rest
<1> QED BY <1>2, Todos DEF HasBumped, HasRevoked

-----------------------------------------------------------------------------
(* Theorems *)

\* The invariant that carries the others.
THEOREM Invariance == Spec => []IInv
  BY InitIInv, StepKeeps, PTL DEF Spec

\* The tables and the requests have their types, and a request refers to rows
\* there are.
THEOREM TypeCorrect == Spec => []TypeOK
<1>1. IInv => TypeOK
  <2> SUFFICES ASSUME IInv PROVE TypeOK
    OBVIOUS
  <2>1. ASSUME NEW r \in Reqs
        PROVE  /\ req[r].tok <= tokens /\ req[r].new <= tokens /\ req[r].before.tokens <= tokens
               /\ req[r].todo # <<>> => req[r].who \in Users
    BY DEF IInv, Known, Rest
  <2> QED BY <2>1 DEF IInv, Tables, TypeOK
<1> QED BY <1>1, Invariance, PTL

\* No access token is ahead of its user, in the hands of a client or of a
\* request: what has been counted up past a token has killed it for good.
THEOREM NeverAhead == Spec => []AccessNotAhead
<1>1. IInv => AccessNotAhead
  BY DEF IInv, Issued, Known, Rest, AccessNotAhead
<1> QED BY <1>1, Invariance, PTL

\* A forced logout, a password change or the detection of a reused token that
\* has done both its writes has ended the tokens there were when it began.
THEOREM OldTokensAlwaysDie == Spec => []OldTokensDie
<1>1. IInv => OldTokensDie
  <2> SUFFICES ASSUME IInv, NEW r \in Reqs, SessionsEnded(r)
               PROVE  /\ \A t \in 1..req[r].before.tokens : owner[t] = req[r].who => t \in revoked
                      /\ version[req[r].who] > req[r].before.version
    BY DEF OldTokensDie
  <2>1. Known(req[r]) /\ req[r] \in Requests
    BY DEF IInv
  <2>2. HasBumped(req[r].op, Head(req[r].todo)) /\ HasRevoked(req[r].op, Head(req[r].todo))
    BY <2>1, EndedAre DEF SessionsEnded, Known
  <2>3. req[r].op # "none"
    BY DEF SessionsEnded
  <2>4. version[req[r].who] \in Nat /\ req[r].before.version \in Nat
    BY <2>1, <2>3, SessionsAssumption DEF IInv, Tables, Known, Requests
  <2> QED BY <2>1, <2>2, <2>3, <2>4 DEF Known
<1> QED BY <1>1, Invariance, PTL

\* Whatever refresh token is good belongs to a session that began after the
\* last revocation of the user's, or that it met half-way.
THEOREM AlwaysAfresh == Spec => []SessionsStartAfresh
<1>1. IInv => SessionsStartAfresh
  BY DEF IInv
<1> QED BY <1>1, Invariance, PTL
=============================================================================

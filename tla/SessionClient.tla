--------------------------- MODULE SessionClient ---------------------------
(***************************************************************************)
(* The browser's side of a session: api/client.ts and AuthContext.tsx in   *)
(* the tabs of one browser, over one localStorage, against a backend that  *)
(* keeps the promises of Sessions.                                         *)
(*                                                                         *)
(* A turn of a tab's event loop is one step: what follows an await runs    *)
(* when the answer is there, together with every promise it settles.  A    *)
(* request travels, is served in one step (how the statements of requests  *)
(* interleave is the subject of Sessions) and its answer travels back.     *)
(* The refresh token and the access token that are issued together are     *)
(* known by one number, in the order of their issue.                       *)
(***************************************************************************)
EXTENDS Naturals, FiniteSets

CONSTANTS
    Tabs,
    Calls,      \* calls of request() under way at a time ...
    TabOf,      \* ... and the tab that makes them
    Reloaded,   \* the tabs that the user may open or reload at any time
    MaxPairs    \* BOUND: pairs of tokens issued

ASSUME SessionClientAssumption ==
    /\ TabOf \in [Calls -> Tabs]
    /\ Reloaded \subseteq Tabs
    /\ MaxPairs \in Nat

Pairs == 1..MaxPairs
None == 0

VARIABLES
    \* the browser
    store,      \* localStorage: the access token and the refresh token
    page,       \* what a tab shows: "out", "in", or "leaving" for /login
    call,       \* calls of request()
    flight,     \* refreshInFlight of a tab, and the request it waits for
    \* requests that nobody waits for
    orphans,    \* refresh tokens under way from pages that are gone
    goodbyes,   \* sign-outs under way
    \* the backend
    issued,     \* number of pairs issued
    spent,      \* refresh tokens with replaced_by
    revoked,    \* refresh tokens with revoked_at
    stale,      \* access tokens up to this one are no longer accepted
    \* history
    session,    \* the pair a session began with
    shown,      \* the tabs that have presented a refresh token
    unheard,    \* refresh tokens whose answer was lost on the way ...
    torn,       \* ... or found its page gone
    ended,      \* sessions the backend has ended
    left        \* sessions the browser has signed out of, no refresh of
                \* theirs being under way

browserVars == <<store, page, call, flight>>
wireVars == <<orphans, goodbyes>>
backendVars == <<issued, spent, revoked, stale, session, ended>>
pastVars == <<shown, unheard, torn, left>>
vars == <<browserVars, wireVars, backendVars, pastVars>>

Idle == [at |-> "idle", kind |-> "api", token |-> None, retried |-> FALSE]

NoFlight == [at |-> "none", token |-> None, new |-> None]

Pair(p) == [access |-> p, refresh |-> p]

Init ==
    /\ store = Pair(None)
    /\ page = [t \in Tabs |-> "out"]
    /\ call = [c \in Calls |-> Idle]
    /\ flight = [t \in Tabs |-> NoFlight]
    /\ orphans = {} /\ goodbyes = {}
    /\ issued = 0 /\ spent = {} /\ revoked = {} /\ stale = 0
    /\ session = [p \in Pairs |-> None]
    /\ shown = [p \in Pairs |-> {}]
    /\ unheard = {} /\ torn = {} /\ ended = {} /\ left = {}

-----------------------------------------------------------------------------
(* The backend *)

Issued == 1..issued

Good(p) == p \in Issued /\ p \notin spent \cup revoked

Accepted(p) == p \in Issued /\ p > stale

\* A pair for the session that began with s, or for a new one.
Issue(s) ==
    /\ issued < MaxPairs
    /\ issued' = issued + 1
    /\ session' = [session EXCEPT ![issued + 1] = IF s = None THEN issued + 1 ELSE s]

\* Refresh, where the token is good, ...
Rotate(p) ==
    /\ Good(p)
    /\ Issue(session[p])
    /\ spent' = spent \cup {p}
    /\ UNCHANGED <<revoked, stale, ended>>

\* ... and where it counts as stolen.
Alarm(p) ==
    /\ ~Good(p)
    /\ revoked' = Issued
    /\ stale' = issued
    /\ ended' = ended \cup {session[q] : q \in Issued}
    /\ UNCHANGED <<issued, spent, session>>

\* (mutant) a sign-out revokes the token it carries, as docs/epics/auth.md:140
\* has it
RevokedByOne(p) == {p}

RevokedBy(p) == Issued

\* Logout, behind RequireAuth: with an access token that is not accepted the
\* refresh tokens stay as they are, and so they do if the token is revoked.
Farewell(g) ==
    /\ g \in goodbyes
    /\ goodbyes' = goodbyes \ {g}
    /\ \/ /\ Accepted(g.access) /\ g.refresh \notin revoked
          /\ revoked' = revoked \cup RevokedBy(g.refresh)
          /\ ended' = ended \cup {session[g.refresh]}
       \/ /\ ~Accepted(g.access) \/ g.refresh \in revoked
          /\ UNCHANGED <<revoked, ended>>
    /\ UNCHANGED <<browserVars, orphans, issued, spent, stale, session, pastVars>>

\* Access tokens expire in the order of their issue.
Expire ==
    /\ stale < issued
    /\ stale' = stale + 1
    /\ UNCHANGED <<browserVars, wireVars, issued, spent, revoked, session, ended,
                   pastVars>>

\* A manager forces the user out.
ForceLogout ==
    /\ revoked' = Issued
    /\ stale' = issued
    /\ ended' = ended \cup {session[p] : p \in Issued}
    /\ UNCHANGED <<browserVars, wireVars, issued, spent, session, pastVars>>

-----------------------------------------------------------------------------
(* Signing out *)

\* (mutant) a sign-out is sent without a refresh token to revoke
FarewellAlways == {store}

\* The request of a sign-out, if there is a refresh token to send.
FarewellSent == {g \in {store} : g.refresh # None}

\* (mutant) the refresh token is left in the store
ClearedInPart == [store EXCEPT !.access = None]

\* clearAuthState
Cleared == Pair(None)

\* The tabs whose refresh may still put a token of session s into the store.
Refreshing(s) ==
    {t \in Tabs : flight[t].at \in {"sent", "ok"} /\ session[flight[t].token] = s}

\* logout: nobody waits for the answer to the request, and the page goes on
\* until /login replaces it.
SignOut(t) ==
    LET over == {session[p] : p \in {store.refresh} \ {None}}
    IN  /\ goodbyes' = goodbyes \cup FarewellSent
        /\ store' = Cleared
        /\ page' = [page EXCEPT ![t] = "leaving"]
        /\ left' = left \cup {s \in over : Refreshing(s) = {}}

\* The button of MainShell and AdminShell.
UserSignsOut(t) ==
    /\ page[t] = "in"
    /\ SignOut(t)
    /\ UNCHANGED <<call, flight, orphans, backendVars, shown, unheard, torn>>

-----------------------------------------------------------------------------
(* request *)

Sent(k) == [at |-> "sent", kind |-> k, token |-> store.access, retried |-> FALSE]

\* A page asks for something; the login page for one login at a time.
Request(c, k) ==
    /\ call[c].at = "idle"
    /\ \/ k = "api" /\ page[TabOf[c]] = "in"
       \/ /\ k = "login" /\ page[TabOf[c]] = "out"
          /\ \A d \in Calls : TabOf[d] = TabOf[c] => call[d].at = "idle" \/ call[d].kind = "api"
    /\ call' = [call EXCEPT ![c] = Sent(k)]
    /\ UNCHANGED <<store, page, flight, wireVars, backendVars, pastVars>>

Answer(c, how, token) == call' = [call EXCEPT ![c].at = how, ![c].token = token]

\* The backend answers: RequireAuth lets the request pass, or not; a login's
\* password is right, or not.
Serve(c) ==
    /\ call[c].at = "sent"
    /\ \/ /\ call[c].kind = "api"
          /\ IF Accepted(call[c].token)
             THEN call' = [call EXCEPT ![c] = Idle]
             ELSE Answer(c, "denied", None)
          /\ UNCHANGED <<issued, session>>
       \/ /\ call[c].kind = "login"
          /\ Issue(None)
          /\ Answer(c, "ok", issued + 1)
       \/ /\ call[c].kind = "login"
          /\ Answer(c, "denied", None)
          /\ UNCHANGED <<issued, session>>
    /\ UNCHANGED <<store, page, flight, wireVars, spent, revoked, stale, ended,
                   pastVars>>

\* The answer to a login is there, and AuthContext.login stores what it brings.
Login(c) ==
    LET t == TabOf[c] IN
    /\ call[c].at = "ok"
    /\ call' = [call EXCEPT ![c] = Idle]
    /\ store' = Pair(call[c].token)
    /\ page' = [page EXCEPT ![t] = IF @ = "leaving" THEN @ ELSE "in"]
    /\ UNCHANGED <<flight, wireVars, backendVars, pastVars>>

\* request throws: a 401 to a retried request, or a failure on the way.
Throw(c) ==
    /\ \/ call[c].at \in {"sent", "ok"}
       \/ call[c].at = "denied" /\ call[c].retried
    /\ call' = [call EXCEPT ![c] = Idle]
    /\ UNCHANGED <<store, page, flight, wireVars, backendVars, pastVars>>

\* The first 401 to a request, a wrong password's included: it joins the
\* refresh under way, begins one, or has nothing to refresh with.
Denied(c) == call[c].at = "denied" /\ ~call[c].retried

Wait(c) == call' = [call EXCEPT ![c].at = "waiting"]

\* (mutant) each request has a refresh of its own
NeverJoins(t) == FALSE

Joins(t) == flight[t].at # "none"

Join(c) ==
    /\ Denied(c) /\ Joins(TabOf[c])
    /\ Wait(c)
    /\ UNCHANGED <<store, page, flight, wireVars, backendVars, pastVars>>

BeginRefresh(c) ==
    LET t == TabOf[c] IN
    /\ Denied(c) /\ ~Joins(t)
    /\ store.refresh # None
    /\ Wait(c)
    /\ flight' = [flight EXCEPT ![t] = [NoFlight EXCEPT !.at = "sent", !.token = store.refresh]]
    /\ shown' = [shown EXCEPT ![store.refresh] = @ \cup {t}]
    /\ UNCHANGED <<store, page, wireVars, backendVars, unheard, torn, left>>

NothingToRefresh(c) ==
    /\ Denied(c) /\ ~Joins(TabOf[c])
    /\ store.refresh = None
    /\ call' = [call EXCEPT ![c] = Idle]
    /\ SignOut(TabOf[c])
    /\ UNCHANGED <<flight, orphans, backendVars, shown, unheard, torn>>

-----------------------------------------------------------------------------
(* refresh *)

ServeRefresh(t) ==
    LET p == flight[t].token IN
    /\ flight[t].at = "sent"
    /\ \/ /\ Rotate(p)
          /\ flight' = [flight EXCEPT ![t].at = "ok", ![t].new = issued + 1]
       \/ /\ Alarm(p)
          /\ flight' = [flight EXCEPT ![t].at = "refused"]
    /\ UNCHANGED <<store, page, call, wireVars, pastVars>>

\* The request is lost, or the backend fails, or the answer is lost.
LoseRefresh(t) ==
    /\ flight[t].at \in {"sent", "ok"}
    /\ unheard' = unheard \cup {p \in {flight[t].token} : flight[t].at = "ok"}
    /\ flight' = [flight EXCEPT ![t].at = "refused"]
    /\ UNCHANGED <<store, page, call, wireVars, backendVars, shown, torn, left>>

\* (mutant) one of the requests that wait is forgotten
WaitersButOne(t) ==
    LET W == {c \in Calls : TabOf[c] = t /\ call[c].at = "waiting"}
    IN  IF Cardinality(W) > 1 THEN W \ {CHOOSE c \in W : TRUE} ELSE W

Waiters(t) == {c \in Calls : TabOf[c] = t /\ call[c].at = "waiting"}

\* The new pair is stored, and the requests that wait are sent once more.
Refreshed(t) ==
    LET pair == Pair(flight[t].new) IN
    /\ flight[t].at = "ok"
    /\ store' = pair
    /\ flight' = [flight EXCEPT ![t] = NoFlight]
    /\ call' = [c \in Calls |->
          IF c \in Waiters(t)
          THEN [call[c] EXCEPT !.at = "sent", !.token = pair.access, !.retried = TRUE]
          ELSE call[c]]
    /\ UNCHANGED <<page, wireVars, backendVars, pastVars>>

\* The first of the requests that wait signs out; the others throw.
NotRefreshed(t) ==
    /\ flight[t].at = "refused"
    /\ flight' = [flight EXCEPT ![t] = NoFlight]
    /\ call' = [c \in Calls |-> IF c \in Waiters(t) THEN Idle ELSE call[c]]
    /\ SignOut(t)
    /\ UNCHANGED <<orphans, backendVars, shown, unheard, torn>>

-----------------------------------------------------------------------------
(* Pages that go and requests nobody waits for *)

\* A page is loaded, after logout or because the user wants it: nothing is
\* left of the one before but the requests that have gone out.
Load(t) ==
    /\ page[t] = "leaving" \/ t \in Reloaded
    /\ page' \in {[page EXCEPT ![t] = x] : x \in {"out", "in"}}
    /\ page'[t] = "in" => store.access # None /\ page[t] # "leaving"
    /\ call' = [c \in Calls |-> IF TabOf[c] = t THEN Idle ELSE call[c]]
    /\ flight' = [flight EXCEPT ![t] = NoFlight]
    /\ orphans' = orphans \cup {p \in {flight[t].token} : flight[t].at = "sent"}
    /\ torn' = torn \cup {p \in {flight[t].token} : flight[t].at \in {"sent", "ok"}}
    /\ UNCHANGED <<store, goodbyes, backendVars, shown, unheard, left>>

ServeOrphan(p) ==
    /\ p \in orphans
    /\ orphans' = orphans \ {p}
    /\ Rotate(p) \/ Alarm(p)
    /\ UNCHANGED <<browserVars, goodbyes, pastVars>>

\* A browser may cancel the requests of a page that goes.
LoseOnTheWay ==
    /\ \/ \E p \in orphans : orphans' = orphans \ {p} /\ UNCHANGED goodbyes
       \/ \E g \in goodbyes : goodbyes' = goodbyes \ {g} /\ UNCHANGED orphans
    /\ UNCHANGED <<browserVars, backendVars, pastVars>>

-----------------------------------------------------------------------------
(* The specification *)

CallNext(c) ==
    \/ \E k \in {"api", "login"} : Request(c, k)
    \/ Serve(c) \/ Login(c) \/ Throw(c)
    \/ Join(c) \/ BeginRefresh(c) \/ NothingToRefresh(c)

RefreshNext(t) ==
    ServeRefresh(t) \/ LoseRefresh(t) \/ Refreshed(t) \/ NotRefreshed(t)

Next ==
    \/ \E c \in Calls : CallNext(c)
    \/ \E t \in Tabs : RefreshNext(t) \/ UserSignsOut(t) \/ Load(t)
    \/ \E p \in Pairs : ServeOrphan(p)
    \/ \E g \in goodbyes : Farewell(g)
    \/ Expire \/ ForceLogout \/ LoseOnTheWay

Spec == Init /\ [][Next]_vars

-----------------------------------------------------------------------------
(* Safety *)

\* The variables have their types.
TypeOK ==
    /\ store \in [access : 0..issued, refresh : 0..issued]
    /\ page \in [Tabs -> {"out", "in", "leaving"}]
    /\ call \in [Calls -> [at : {"idle", "sent", "ok", "denied", "waiting"},
                           kind : {"api", "login"}, token : 0..issued,
                           retried : BOOLEAN]]
    /\ flight \in [Tabs -> [at : {"none", "sent", "ok", "refused"},
                            token : 0..issued, new : 0..issued]]
    /\ orphans \subseteq Issued
    /\ goodbyes \subseteq [access : 0..issued, refresh : Issued]
    /\ issued \in 0..MaxPairs
    /\ stale \in 0..issued
    /\ spent \cup revoked \cup unheard \cup torn \subseteq Issued
    /\ session \in [Pairs -> 0..issued]
    /\ shown \in [Pairs -> SUBSET Tabs]
    /\ ended \cup left \subseteq Issued

\* Refresh tokens under way that the backend will take for stolen, and for
\* which it will end every session of the user.
Suspicious ==
    LET presented == orphans \cup {flight[t].token : t \in {u \in Tabs : flight[u].at = "sent"}}
    IN  (presented \cap spent) \ revoked

\* The backend takes a token for stolen only for one of three reasons: two
\* tabs have presented it, its first answer was lost, or the page that waited
\* for the answer has gone.  A tab by itself, however many of its requests
\* are refused at a time, never presents a token twice.
AlarmsExplained ==
    \A p \in Suspicious : p \in unheard \cup torn \/ Cardinality(shown[p]) > 1

\* A session that the browser has signed out of does not come back into the
\* store, unless a refresh was under way for it, in this or another tab.
BrowserForgets ==
    store.refresh # None => session[store.refresh] \notin left

\* A request waits only for a refresh that is under way.
NobodyWaitsInVain ==
    \A c \in Calls : call[c].at = "waiting" => flight[TabOf[c]].at # "none"

\* When the backend has ended a session, no refresh of it that comes before
\* or after leaves it a good token.
EndedStaysEnded ==
    \A p \in Issued : session[p] \in ended => ~Good(p)

-----------------------------------------------------------------------------
(* What the documents say and the code does not do *)

\* A page can be reloaded without signing the user out (docs/epics/auth.md:395):
\* one tab, none of whose answers is lost on the way, raises no alarm.
ReloadKeepsSession == Suspicious \subseteq unheard
=============================================================================

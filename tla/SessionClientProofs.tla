------------------------ MODULE SessionClientProofs ------------------------
(***************************************************************************)
(* Proofs about SessionClient for any number of tabs, of calls, and of     *)
(* pairs of tokens issued.                                                 *)
(***************************************************************************)
EXTENDS SessionClient, FiniteSetTheorems, TLAPS

(***************************************************************************)
(* The inductive invariant.  A pair of tokens comes into the store once:   *)
(* until then nobody has presented its refresh token, nor is it in the     *)
(* store.  So a token that is presented although it has been exchanged was *)
(* in the store while another tab had it under way, or had its answer      *)
(* lost.  And a session that the browser has signed out of has no token on *)
(* its way to the store.                                                   *)
(***************************************************************************)

\* What has been issued, presented, or is under way.
WireInv ==
    /\ \A p \in Issued : session[p] \in Issued
    /\ \A p \in Pairs : IsFiniteSet(shown[p]) /\ (shown[p] # {} => p \in Issued)
    /\ \A t \in Tabs : flight[t].at # "none" =>
            flight[t].token \in Issued /\ t \in shown[flight[t].token]
    /\ \A t \in Tabs : flight[t].at = "ok" =>
            flight[t].new \in Issued /\ session[flight[t].new] = session[flight[t].token]
    /\ \A c \in Calls : call[c].at = "ok" => call[c].token \in Issued
    /\ \A p \in orphans : p \in torn /\ shown[p] # {}

\* A pair is on its way to the store with the answer to a login or a refresh.
ByLogin(c, p) == call[c].at = "ok" /\ call[c].token = p

ByRefresh(t, p) == flight[t].at = "ok" /\ flight[t].new = p

\* It comes by one way only, and has not been there before.
ComingInv ==
    /\ \A p \in Issued :
          (\E c \in Calls : ByLogin(c, p)) \/ (\E t \in Tabs : ByRefresh(t, p)) =>
            shown[p] = {} /\ p \notin spent /\ p # store.refresh
    /\ \A p \in Issued, c, d \in Calls : ByLogin(c, p) /\ ByLogin(d, p) => c = d
    /\ \A p \in Issued, t, u \in Tabs : ByRefresh(t, p) /\ ByRefresh(u, p) => t = u
    /\ \A p \in Issued, c \in Calls, t \in Tabs : ~(ByLogin(c, p) /\ ByRefresh(t, p))

\* Tokens that have been exchanged and are to be presented, or are again.
SpentInv ==
    /\ store.refresh \in spent =>
          \/ store.refresh \in unheard \cup torn
          \/ \E t \in Tabs : flight[t].at = "ok" /\ flight[t].token = store.refresh
    /\ \A t \in Tabs : flight[t].at = "sent" /\ flight[t].token \in spent =>
          \/ flight[t].token \in unheard \cup torn
          \/ \E u \in Tabs \ {t} : u \in shown[flight[t].token]

\* Sessions signed out of have nothing on its way to the store.
LeftInv ==
    /\ BrowserForgets
    /\ \A t \in Tabs : flight[t].at \in {"sent", "ok"} => session[flight[t].token] \notin left
    /\ \A c \in Calls : call[c].at = "ok" =>
          /\ session[call[c].token] \notin left
          /\ \A q \in Issued : session[q] = session[call[c].token] => q = call[c].token

IInv ==
    /\ TypeOK /\ WireInv /\ ComingInv /\ SpentInv /\ LeftInv
    /\ NobodyWaitsInVain /\ EndedStaysEnded

-----------------------------------------------------------------------------
(* The types.                                                              *)

Stores(i) == [access : 0..i, refresh : 0..i]

CallStates(i) == [at : {"idle", "sent", "ok", "denied", "waiting"}, kind : {"api", "login"},
                  token : 0..i, retried : BOOLEAN]

FlightStates(i) == [at : {"none", "sent", "ok", "refused"}, token : 0..i, new : 0..i]

Goodbyes(i) == [access : 0..i, refresh : 1..i]

\* The type invariant with its records named.
LEMMA TypeParts ==
  TypeOK <=> /\ store \in Stores(issued)
             /\ page \in [Tabs -> {"out", "in", "leaving"}]
             /\ call \in [Calls -> CallStates(issued)]
             /\ flight \in [Tabs -> FlightStates(issued)]
             /\ orphans \subseteq 1..issued
             /\ goodbyes \subseteq Goodbyes(issued)
             /\ issued \in 0..MaxPairs
             /\ stale \in 0..issued
             /\ spent \cup revoked \cup unheard \cup torn \subseteq 1..issued
             /\ session \in [Pairs -> 0..issued]
             /\ shown \in [Pairs -> SUBSET Tabs]
             /\ ended \cup left \subseteq 1..issued
  BY DEF TypeOK, Stores, CallStates, FlightStates, Goodbyes, Issued

\* What is typed by the number of pairs stays so when there are more.
LEMMA TypesGrow ==
  ASSUME NEW i \in Nat, NEW j \in Nat, i <= j
  PROVE  /\ Stores(i) \subseteq Stores(j) /\ CallStates(i) \subseteq CallStates(j)
         /\ FlightStates(i) \subseteq FlightStates(j) /\ Goodbyes(i) \subseteq Goodbyes(j)
         /\ 0..i \subseteq 0..j /\ 1..i \subseteq 1..j
<1>1. 0..i \subseteq 0..j /\ 1..i \subseteq 1..j
  OBVIOUS
<1>2. QED
  BY <1>1 DEF Stores, CallStates, FlightStates, Goodbyes

\* Constants of the browser.
LEMMA ConstantTypes ==
  \A i \in Nat : /\ Idle \in CallStates(i) /\ NoFlight \in FlightStates(i)
                 /\ \A p \in 0..i : Pair(p) \in Stores(i)
  BY DEF Idle, NoFlight, Pair, CallStates, FlightStates, Stores, None

\* What the proofs use of the types.
LEMMA BasicTypes ==
  ASSUME TypeOK
  PROVE  /\ issued \in Nat /\ MaxPairs \in Nat /\ issued <= MaxPairs /\ Issued \subseteq Pairs
         /\ Issued = 1..issued /\ Pairs = 1..MaxPairs /\ None = 0 /\ None \notin Issued
         /\ store \in Stores(issued) /\ store.refresh \in 0..issued /\ store.access \in 0..issued
         /\ call \in [Calls -> CallStates(issued)]
         /\ flight \in [Tabs -> FlightStates(issued)]
         /\ session \in [Pairs -> 0..issued] /\ shown \in [Pairs -> SUBSET Tabs]
         /\ TabOf \in [Calls -> Tabs]
<1>1. /\ issued \in Nat /\ MaxPairs \in Nat /\ issued <= MaxPairs /\ Issued \subseteq Pairs
      /\ Issued = 1..issued /\ Pairs = 1..MaxPairs
      /\ None = 0 /\ None \notin Issued /\ TabOf \in [Calls -> Tabs]
  BY SessionClientAssumption DEF TypeOK, Issued, Pairs, None
<1>2. /\ store \in Stores(issued)
      /\ call \in [Calls -> CallStates(issued)]
      /\ flight \in [Tabs -> FlightStates(issued)]
      /\ session \in [Pairs -> 0..issued] /\ shown \in [Pairs -> SUBSET Tabs]
  BY TypeParts
<1>3. store.refresh \in 0..issued /\ store.access \in 0..issued
  BY <1>2 DEF Stores
<1>4. QED
  BY <1>1, <1>2, <1>3

\* The variables start with their types.
LEMMA TypeInit == Init => TypeOK
<1> SUFFICES ASSUME Init PROVE TypeOK
  OBVIOUS
<1>1. issued = 0 /\ MaxPairs \in Nat /\ None = 0
  BY SessionClientAssumption DEF Init, None
<1>2. Pair(None) \in Stores(issued) /\ Idle \in CallStates(issued) /\ NoFlight \in FlightStates(issued)
  BY <1>1, ConstantTypes
<1>3. /\ store \in Stores(issued) /\ page \in [Tabs -> {"out", "in", "leaving"}]
      /\ call \in [Calls -> CallStates(issued)] /\ flight \in [Tabs -> FlightStates(issued)]
  BY <1>2 DEF Init
<1>4. /\ orphans \subseteq 1..issued /\ goodbyes \subseteq Goodbyes(issued)
      /\ issued \in 0..MaxPairs /\ stale \in 0..issued
      /\ spent \cup revoked \cup unheard \cup torn \subseteq 1..issued
      /\ session \in [Pairs -> 0..issued] /\ shown \in [Pairs -> SUBSET Tabs]
      /\ ended \cup left \subseteq 1..issued
  BY <1>1 DEF Init
<1>5. QED
  BY <1>3, <1>4, TypeParts

\* The browser's variables have their types.
BrowserTyped(i) ==
    /\ store \in Stores(i) /\ page \in [Tabs -> {"out", "in", "leaving"}]
    /\ call \in [Calls -> CallStates(i)] /\ flight \in [Tabs -> FlightStates(i)]
    /\ orphans \subseteq 1..i /\ goodbyes \subseteq Goodbyes(i)
    /\ shown \in [Pairs -> SUBSET Tabs] /\ unheard \cup torn \cup left \subseteq 1..i

\* The backend's variables have theirs.
BackendTyped(i) ==
    /\ stale \in 0..i /\ spent \cup revoked \cup ended \subseteq 1..i
    /\ session \in [Pairs -> 0..i]

\* The type invariant in these parts.
LEMMA Typed ==
  TypeOK <=> issued \in 0..MaxPairs /\ BrowserTyped(issued) /\ BackendTyped(issued)
  BY TypeParts DEF BrowserTyped, BackendTyped

\* They grow with the number of pairs.
LEMMA TypedGrow ==
  ASSUME NEW i \in Nat, NEW j \in Nat, i <= j
  PROVE  (BrowserTyped(i) => BrowserTyped(j)) /\ (BackendTyped(i) => BackendTyped(j))
  BY TypesGrow DEF BrowserTyped, BackendTyped

-----------------------------------------------------------------------------
(* What the backend does.                                                  *)

\* A pair is issued for the session s, or for a new one.
LEMMA IssueFacts ==
  ASSUME TypeOK, NEW s \in 0..issued, Issue(s)
  PROVE  /\ issued' = issued + 1 /\ issued' \in 0..MaxPairs /\ issued' \in Nat
         /\ Issued' = Issued \cup {issued + 1} /\ issued + 1 \notin Issued /\ issued + 1 \in Pairs
         /\ session' \in [Pairs -> 0..issued']
         /\ \A p \in Pairs : p # issued + 1 => session'[p] = session[p]
         /\ session'[issued + 1] = IF s = 0 THEN issued + 1 ELSE s
<1>1. /\ issued \in Nat /\ MaxPairs \in Nat /\ Pairs = 1..MaxPairs
      /\ session \in [Pairs -> 0..issued]
  BY BasicTypes
<1>2. /\ issued < MaxPairs /\ issued' = issued + 1
      /\ session' = [session EXCEPT ![issued + 1] = IF s = 0 THEN issued + 1 ELSE s]
  BY DEF Issue, None
<1>3. /\ issued' \in 0..MaxPairs /\ issued' \in Nat
      /\ issued + 1 \in Pairs /\ 0..issued \subseteq 0..issued'
  BY <1>1, <1>2
<1>4. Issued' = Issued \cup {issued + 1} /\ issued + 1 \notin Issued
  BY <1>1, <1>2 DEF Issued
<1>5. session' \in [Pairs -> 0..issued']
  <2>1. (IF s = 0 THEN issued + 1 ELSE s) \in 0..issued'
    BY <1>1, <1>2
  <2>2. session \in [Pairs -> 0..issued']
    BY <1>1, <1>3
  <2>3. QED
    BY <1>2, <2>1, <2>2
<1>6. QED
  BY <1>1, <1>2, <1>3, <1>4, <1>5

\* A token is exchanged: the new pair is of its session.
LEMMA RotateFacts ==
  ASSUME TypeOK, WireInv, NEW p, Rotate(p)
  PROVE  /\ p \in Issued /\ p \notin spent /\ spent' = spent \cup {p}
         /\ UNCHANGED <<revoked, stale, ended>>
         /\ issued' = issued + 1 /\ issued' \in 0..MaxPairs /\ issued' \in Nat
         /\ Issued' = Issued \cup {issued + 1} /\ issued + 1 \notin Issued /\ issued + 1 \in Pairs
         /\ session' \in [Pairs -> 0..issued']
         /\ \A q \in Pairs : q # issued + 1 => session'[q] = session[q]
         /\ session'[issued + 1] = session[p]
<1>1. /\ p \in Issued /\ p \notin spent /\ spent' = spent \cup {p}
      /\ UNCHANGED <<revoked, stale, ended>> /\ Issue(session[p])
  BY DEF Rotate, Good
<1>2. session[p] \in Issued /\ Issued = 1..issued
  BY <1>1, BasicTypes DEF WireInv
<1>3. session[p] \in 0..issued /\ session[p] # 0
  BY <1>2, BasicTypes
<1>4. QED
  BY <1>1, <1>3, IssueFacts

\* Signing out keeps the types.
LEMMA SignOutType ==
  ASSUME TypeOK, WireInv, NEW t \in Tabs, SignOut(t)
  PROVE  /\ store' \in Stores(issued) /\ page' \in [Tabs -> {"out", "in", "leaving"}]
         /\ goodbyes' \subseteq Goodbyes(issued) /\ left' \subseteq 1..issued
<1>1. issued \in Nat /\ None = 0 /\ Issued = 1..issued
  BY BasicTypes
<1>2. store' \in Stores(issued)
  BY <1>1, ConstantTypes DEF SignOut, Cleared
<1>3. page' \in [Tabs -> {"out", "in", "leaving"}]
  BY TypeParts DEF SignOut
<1>4. goodbyes' \subseteq Goodbyes(issued)
  <2>1. store.refresh # None => store \in Goodbyes(issued)
    BY BasicTypes DEF Stores, Goodbyes
  <2>2. goodbyes' = goodbyes \cup FarewellSent /\ goodbyes \subseteq Goodbyes(issued)
    BY TypeParts DEF SignOut
  <2>3. QED
    BY <2>1, <2>2 DEF FarewellSent
<1>5. left' \subseteq 1..issued
  <2>1. store.refresh # None => session[store.refresh] \in 1..issued
    BY BasicTypes DEF WireInv
  <2>2. left' \subseteq left \cup {session[p] : p \in {store.refresh} \ {None}}
    BY DEF SignOut
  <2>3. QED
    BY <2>1, <2>2, TypeParts
<1>6. QED
  BY <1>2, <1>3, <1>4, <1>5

\* The types are kept by the calls,
LEMMA CallType ==
  ASSUME TypeOK, WireInv, NEW c \in Calls, CallNext(c)
  PROVE  TypeOK'
<1> USE DEF browserVars, wireVars, backendVars, pastVars
<1>1. /\ issued \in 0..MaxPairs /\ issued \in Nat
      /\ BrowserTyped(issued) /\ BackendTyped(issued) /\ TabOf[c] \in Tabs
      /\ Idle \in CallStates(issued) /\ call[c] \in CallStates(issued)
  BY Typed, BasicTypes, ConstantTypes
<1>2. TypeOK' <=> issued' \in 0..MaxPairs /\ BrowserTyped(issued)' /\ BackendTyped(issued)'
  BY DEF TypeOK, BrowserTyped, BackendTyped, Stores, CallStates, FlightStates, Goodbyes, Issued
<1>3. ASSUME NEW k \in {"api", "login"}, Request(c, k) PROVE TypeOK'
  <2>1. Sent(k) \in CallStates(issued)
    BY BasicTypes DEF Sent, CallStates
  <2>2. QED
    BY <1>1, <1>2, <1>3, <2>1 DEF Request, BrowserTyped, BackendTyped
<1>4. ASSUME NEW x \in {"sent", "ok", "denied", "waiting"}, NEW i \in Nat, NEW p \in 0..i, issued <= i
      PROVE  [call EXCEPT ![c].at = x, ![c].token = p] \in [Calls -> CallStates(i)]
  <2>1. call \in [Calls -> CallStates(i)] /\ call[c] \in CallStates(i)
    BY <1>1, <1>4, TypesGrow, BasicTypes
  <2>2. [call[c] EXCEPT !.at = x] \in CallStates(i)
    BY <2>1 DEF CallStates
  <2>3. [[call[c] EXCEPT !.at = x] EXCEPT !.token = p] \in CallStates(i)
    BY <2>2 DEF CallStates
  <2>4. [call EXCEPT ![c].at = x, ![c].token = p]
          = [call EXCEPT ![c] = [[call[c] EXCEPT !.at = x] EXCEPT !.token = p]]
    BY <2>1
  <2>5. QED
    BY <2>1, <2>3, <2>4
<1>5. CASE Serve(c)
  <2>1. UNCHANGED <<store, page, flight, wireVars, spent, revoked, stale, ended, pastVars>>
    BY <1>5 DEF Serve
  <2>2. CASE call' = [call EXCEPT ![c] = Idle] /\ UNCHANGED <<issued, session>>
    BY <1>1, <1>2, <2>1, <2>2 DEF BrowserTyped, BackendTyped
  <2>3. CASE Answer(c, "denied", None) /\ UNCHANGED <<issued, session>>
    <3>1. call' \in [Calls -> CallStates(issued)]
      BY <1>1, <1>4, <2>3 DEF Answer, None
    <3>2. QED
      BY <1>1, <1>2, <2>1, <2>3, <3>1 DEF BrowserTyped, BackendTyped
  <2>4. CASE Issue(None) /\ Answer(c, "ok", issued + 1)
    <3>1. /\ issued' \in 0..MaxPairs /\ issued' = issued + 1 /\ issued' \in Nat
          /\ session' \in [Pairs -> 0..issued']
      BY <1>1, <2>4, IssueFacts DEF None
    <3>2. call' \in [Calls -> CallStates(issued')]
      <4>1. issued + 1 \in 0..issued' /\ issued <= issued'
        BY <1>1, <3>1
      <4>2. QED
        BY <1>4, <2>4, <3>1, <4>1 DEF Answer
    <3>3. BrowserTyped(issued') /\ BackendTyped(issued')
      BY <1>1, <3>1, TypedGrow
    <3>4. QED
      BY <1>2, <2>1, <3>1, <3>2, <3>3 DEF BrowserTyped, BackendTyped
  <2>5. QED
    BY <1>5, <2>2, <2>3, <2>4 DEF Serve
<1>6. CASE Login(c)
  <2>1. call[c].token \in 0..issued
    BY <1>1 DEF CallStates
  <2>2. Pair(call[c].token) \in Stores(issued)
    BY <1>1, <2>1, ConstantTypes
  <2>3. QED
    BY <1>1, <1>2, <1>6, <2>2 DEF Login, BrowserTyped, BackendTyped
<1>7. CASE Throw(c)
  BY <1>1, <1>2, <1>7 DEF Throw, BrowserTyped, BackendTyped
<1>8. ASSUME Wait(c) PROVE call' \in [Calls -> CallStates(issued)]
  <2>1. [call[c] EXCEPT !.at = "waiting"] \in CallStates(issued)
    BY <1>1 DEF CallStates
  <2>2. QED
    BY <1>8, <2>1, BasicTypes DEF Wait
<1>9. CASE Join(c)
  BY <1>1, <1>2, <1>8, <1>9 DEF Join, BrowserTyped, BackendTyped
<1>10. CASE BeginRefresh(c)
  <2>1. [NoFlight EXCEPT !.at = "sent", !.token = store.refresh] \in FlightStates(issued)
    <3>1. NoFlight \in FlightStates(issued) /\ store.refresh \in 0..issued
      BY <1>1, ConstantTypes, BasicTypes
    <3>2. QED
      BY <3>1 DEF FlightStates
  <2>2. flight' \in [Tabs -> FlightStates(issued)]
    BY <1>1, <1>10, <2>1 DEF BeginRefresh, BrowserTyped
  <2>3. shown' \in [Pairs -> SUBSET Tabs]
    BY <1>1, <1>10 DEF BeginRefresh, BrowserTyped
  <2>4. QED
    BY <1>1, <1>2, <1>8, <1>10, <2>2, <2>3 DEF BeginRefresh, BrowserTyped, BackendTyped
<1>11. CASE NothingToRefresh(c)
  <2>1. /\ SignOut(TabOf[c]) /\ call' \in [Calls -> CallStates(issued)]
        /\ UNCHANGED <<flight, orphans, backendVars, shown, unheard, torn>>
    BY <1>1, <1>11 DEF NothingToRefresh, BrowserTyped
  <2>2. /\ store' \in Stores(issued) /\ page' \in [Tabs -> {"out", "in", "leaving"}]
        /\ goodbyes' \subseteq Goodbyes(issued) /\ left' \subseteq 1..issued
    BY <1>1, <2>1, SignOutType
  <2>3. QED
    BY <1>1, <1>2, <2>1, <2>2 DEF BrowserTyped, BackendTyped
<1>12. QED
  BY <1>3, <1>5, <1>6, <1>7, <1>9, <1>10, <1>11 DEF CallNext

\* A flight that moves on.
LEMMA FlightMoves ==
  ASSUME TypeOK, NEW t \in Tabs, NEW x \in {"none", "sent", "ok", "refused"},
         flight' = [flight EXCEPT ![t].at = x]
  PROVE  /\ flight' \in [Tabs -> FlightStates(issued)]
         /\ flight'[t].at = x /\ flight'[t].token = flight[t].token /\ flight'[t].new = flight[t].new
         /\ \A u \in Tabs \ {t} : flight'[u] = flight[u]
<1>1. flight \in [Tabs -> FlightStates(issued)] /\ flight[t] \in FlightStates(issued)
  BY BasicTypes
<1>2. [flight[t] EXCEPT !.at = x] \in FlightStates(issued)
  BY <1>1 DEF FlightStates
<1>3. /\ [flight[t] EXCEPT !.at = x].at = x /\ [flight[t] EXCEPT !.at = x].token = flight[t].token
      /\ [flight[t] EXCEPT !.at = x].new = flight[t].new
  BY <1>1 DEF FlightStates
<1>4. flight'[t] = [flight[t] EXCEPT !.at = x]
  BY <1>1
<1>5. QED
  BY <1>1, <1>2, <1>3, <1>4

\* A flight whose token has been exchanged.
LEMMA FlightServed ==
  ASSUME TypeOK, NEW t \in Tabs, NEW i \in Nat, issued <= i, NEW n \in 0..i,
         flight' = [flight EXCEPT ![t].at = "ok", ![t].new = n]
  PROVE  /\ flight' \in [Tabs -> FlightStates(i)]
         /\ flight'[t].at = "ok" /\ flight'[t].token = flight[t].token /\ flight'[t].new = n
         /\ \A u \in Tabs \ {t} : flight'[u] = flight[u]
<1>1. flight \in [Tabs -> FlightStates(i)] /\ flight[t] \in FlightStates(i)
  BY BasicTypes, TypesGrow
<1> DEFINE f == [[flight[t] EXCEPT !.at = "ok"] EXCEPT !.new = n]
<1>2. f \in FlightStates(i)
  <2>1. [flight[t] EXCEPT !.at = "ok"] \in FlightStates(i)
    BY <1>1 DEF FlightStates
  <2>2. QED
    BY <2>1 DEF FlightStates
<1>3. f.at = "ok" /\ f.token = flight[t].token /\ f.new = n
  BY <1>1 DEF FlightStates
<1>4. flight' = [flight EXCEPT ![t] = f]
  BY <1>1
<1> HIDE DEF f
<1>5. QED
  BY <1>1, <1>2, <1>3, <1>4

\* What such a flight brings.
LEMMA FlightBrings ==
  ASSUME TypeOK, NEW t \in Tabs, flight' = [flight EXCEPT ![t].at = "ok", ![t].new = issued + 1]
  PROVE  /\ flight'[t].at = "ok" /\ flight'[t].token = flight[t].token
         /\ flight'[t].new = issued + 1
         /\ \A u \in Tabs \ {t} : flight'[u] = flight[u]
<1>1. flight \in [Tabs -> FlightStates(issued)] /\ flight[t] \in FlightStates(issued)
  BY BasicTypes
<1> DEFINE f == [[flight[t] EXCEPT !.at = "ok"] EXCEPT !.new = issued + 1]
<1>2. f.at = "ok" /\ f.token = flight[t].token /\ f.new = issued + 1
  BY <1>1 DEF FlightStates
<1>3. flight' = [flight EXCEPT ![t] = f]
  BY <1>1
<1> HIDE DEF f
<1>4. QED
  BY <1>1, <1>2, <1>3

\* by the tabs,
LEMMA TabType ==
  ASSUME TypeOK, WireInv, NEW t \in Tabs, RefreshNext(t) \/ UserSignsOut(t) \/ Load(t)
  PROVE  TypeOK'
<1> USE DEF browserVars, wireVars, backendVars, pastVars
<1>1. /\ issued \in 0..MaxPairs /\ issued \in Nat
      /\ BrowserTyped(issued) /\ BackendTyped(issued)
      /\ Idle \in CallStates(issued) /\ NoFlight \in FlightStates(issued)
      /\ flight[t] \in FlightStates(issued) /\ Issued = 1..issued
      /\ flight[t].at # "none" => flight[t].token \in 1..issued
  BY Typed, BasicTypes, ConstantTypes DEF WireInv
<1>2. TypeOK' <=> issued' \in 0..MaxPairs /\ BrowserTyped(issued)' /\ BackendTyped(issued)'
  BY DEF TypeOK, BrowserTyped, BackendTyped, Stores, CallStates, FlightStates, Goodbyes, Issued
<1>3. ASSUME SignOut(t)
      PROVE  /\ store' \in Stores(issued) /\ page' \in [Tabs -> {"out", "in", "leaving"}]
             /\ goodbyes' \subseteq Goodbyes(issued) /\ left' \subseteq 1..issued
  BY <1>3, SignOutType
<1>4. CASE ServeRefresh(t)
  <2>1. UNCHANGED <<store, page, call, wireVars, pastVars>>
    BY <1>4 DEF ServeRefresh
  <2>2. CASE /\ Rotate(flight[t].token)
             /\ flight' = [flight EXCEPT ![t].at = "ok", ![t].new = issued + 1]
    <3>1. /\ issued' \in 0..MaxPairs /\ issued' = issued + 1 /\ issued' \in Nat
          /\ session' \in [Pairs -> 0..issued'] /\ flight[t].token \in Issued
          /\ spent' = spent \cup {flight[t].token} /\ UNCHANGED <<revoked, stale, ended>>
      BY <2>2, RotateFacts
    <3>2. issued + 1 \in 0..issued' /\ issued <= issued'
      BY <1>1, <3>1
    <3>3. flight' \in [Tabs -> FlightStates(issued')]
      BY <2>2, <3>1, <3>2, FlightServed
    <3>4. BrowserTyped(issued') /\ BackendTyped(issued')
      BY <1>1, <3>1, <3>2, TypedGrow
    <3>5. flight[t].token \in 1..issued'
      BY <1>1, <3>1
    <3>6. BrowserTyped(issued)'
      BY <2>1, <3>3, <3>4 DEF BrowserTyped
    <3>7. BackendTyped(issued)'
      BY <3>1, <3>4, <3>5 DEF BackendTyped
    <3>8. QED
      BY <1>2, <3>1, <3>6, <3>7
  <2>3. CASE Alarm(flight[t].token) /\ flight' = [flight EXCEPT ![t].at = "refused"]
    <3>1. flight' \in [Tabs -> FlightStates(issued)]
      BY <2>3, FlightMoves
    <3>2. {session[q] : q \in Issued} \subseteq 1..issued
      BY <1>1 DEF WireInv
    <3>3. BrowserTyped(issued)' /\ issued' = issued
      BY <1>1, <2>1, <2>3, <3>1 DEF BrowserTyped, Alarm
    <3>4. BackendTyped(issued)'
      BY <1>1, <2>3, <3>2 DEF BackendTyped, Alarm
    <3>5. QED
      BY <1>1, <1>2, <3>3, <3>4
  <2>4. QED
    BY <1>4, <2>2, <2>3 DEF ServeRefresh
<1>5. CASE LoseRefresh(t)
  <2>1. flight' \in [Tabs -> FlightStates(issued)]
    BY <1>5, FlightMoves DEF LoseRefresh
  <2>2. unheard' \subseteq 1..issued
    BY <1>1, <1>5 DEF LoseRefresh, BrowserTyped
  <2>3. QED
    BY <1>1, <1>2, <1>5, <2>1, <2>2 DEF LoseRefresh, BrowserTyped, BackendTyped
<1>6. CASE Refreshed(t)
  <2>1. flight[t].new \in 0..issued
    BY <1>1 DEF FlightStates
  <2>2. Pair(flight[t].new) \in Stores(issued) /\ Pair(flight[t].new).access \in 0..issued
    BY <1>1, <2>1, ConstantTypes DEF Pair
  <2>3. ASSUME NEW c \in Calls
        PROVE  [call[c] EXCEPT !.at = "sent", !.token = Pair(flight[t].new).access, !.retried = TRUE]
                  \in CallStates(issued)
    <3>1. call[c] \in CallStates(issued)
      BY <1>1, BasicTypes
    <3>2. QED
      BY <2>2, <3>1 DEF CallStates
  <2>4. call' \in [Calls -> CallStates(issued)]
    BY <1>1, <1>6, <2>3, BasicTypes DEF Refreshed
  <2>5. QED
    BY <1>1, <1>2, <1>6, <2>2, <2>4 DEF Refreshed, BrowserTyped, BackendTyped
<1>7. CASE NotRefreshed(t)
  <2>1. call' \in [Calls -> CallStates(issued)]
    BY <1>1, <1>7, BasicTypes DEF NotRefreshed
  <2>2. QED
    BY <1>1, <1>2, <1>3, <1>7, <2>1 DEF NotRefreshed, BrowserTyped, BackendTyped
<1>8. CASE UserSignsOut(t)
  BY <1>1, <1>2, <1>3, <1>8 DEF UserSignsOut, BrowserTyped, BackendTyped
<1>9. CASE Load(t)
  <2>1. call' \in [Calls -> CallStates(issued)]
    BY <1>1, <1>9, BasicTypes DEF Load
  <2>2. flight' \in [Tabs -> FlightStates(issued)] /\ page' \in [Tabs -> {"out", "in", "leaving"}]
    BY <1>1, <1>9 DEF Load, BrowserTyped
  <2>3. orphans' \subseteq 1..issued /\ torn' \subseteq 1..issued
    BY <1>1, <1>9 DEF Load, BrowserTyped
  <2>4. QED
    BY <1>1, <1>2, <1>9, <2>1, <2>2, <2>3 DEF Load, BrowserTyped, BackendTyped
<1>10. QED
  BY <1>4, <1>5, <1>6, <1>7, <1>8, <1>9 DEF RefreshNext

\* by the rest of the steps,
LEMMA RestType ==
  ASSUME TypeOK, WireInv,
         \/ \E p \in Pairs : ServeOrphan(p)
         \/ \E g \in goodbyes : Farewell(g)
         \/ Expire \/ ForceLogout \/ LoseOnTheWay \/ UNCHANGED vars
  PROVE  TypeOK'
<1> USE DEF browserVars, wireVars, backendVars, pastVars
<1>1. /\ issued \in 0..MaxPairs /\ issued \in Nat
      /\ BrowserTyped(issued) /\ BackendTyped(issued) /\ Issued = 1..issued
      /\ {session[q] : q \in Issued} \subseteq 1..issued
  BY Typed, BasicTypes DEF WireInv
<1>2. TypeOK' <=> issued' \in 0..MaxPairs /\ BrowserTyped(issued)' /\ BackendTyped(issued)'
  BY DEF TypeOK, BrowserTyped, BackendTyped, Stores, CallStates, FlightStates, Goodbyes, Issued
<1>3. ASSUME NEW p \in Pairs, ServeOrphan(p) PROVE TypeOK'
  <2>1. UNCHANGED <<browserVars, goodbyes, pastVars>> /\ orphans' \subseteq orphans
    BY <1>3 DEF ServeOrphan
  <2>2. CASE Rotate(p)
    <3>1. /\ issued' \in 0..MaxPairs /\ issued' = issued + 1 /\ issued' \in Nat
          /\ session' \in [Pairs -> 0..issued'] /\ p \in Issued
          /\ spent' = spent \cup {p} /\ UNCHANGED <<revoked, stale, ended>>
      BY <2>2, RotateFacts
    <3>2. issued <= issued' /\ p \in 1..issued'
      BY <1>1, <3>1
    <3>3. BrowserTyped(issued') /\ BackendTyped(issued')
      BY <1>1, <3>1, <3>2, TypedGrow
    <3>4. BrowserTyped(issued)'
      BY <2>1, <3>3 DEF BrowserTyped
    <3>5. BackendTyped(issued)'
      BY <3>1, <3>2, <3>3 DEF BackendTyped
    <3>6. QED
      BY <1>2, <3>1, <3>4, <3>5
  <2>3. CASE Alarm(p)
    <3>1. BrowserTyped(issued)' /\ issued' = issued
      BY <1>1, <2>1, <2>3 DEF BrowserTyped, Alarm
    <3>2. BackendTyped(issued)'
      BY <1>1, <2>3 DEF BackendTyped, Alarm
    <3>3. QED
      BY <1>1, <1>2, <3>1, <3>2
  <2>4. QED
    BY <1>3, <2>2, <2>3 DEF ServeOrphan
<1>4. ASSUME NEW g \in goodbyes, Farewell(g) PROVE TypeOK'
  <2>1. session[g.refresh] \in 1..issued
    BY <1>1 DEF BrowserTyped, Goodbyes, WireInv
  <2>2. /\ goodbyes' \subseteq goodbyes /\ ended' \subseteq ended \cup {session[g.refresh]}
        /\ revoked' \subseteq revoked \cup Issued
        /\ UNCHANGED <<browserVars, orphans, issued, spent, stale, session, pastVars>>
    BY <1>4 DEF Farewell, RevokedBy
  <2>3. QED
    BY <1>1, <1>2, <2>1, <2>2 DEF BrowserTyped, BackendTyped
<1>5. CASE Expire
  <2>1. stale' \in 0..issued
    BY <1>1, <1>5 DEF Expire, BackendTyped
  <2>2. QED
    BY <1>1, <1>2, <1>5, <2>1 DEF Expire, BrowserTyped, BackendTyped
<1>6. CASE ForceLogout
  <2>1. BrowserTyped(issued)' /\ issued' = issued
    BY <1>1, <1>6 DEF ForceLogout, BrowserTyped
  <2>2. BackendTyped(issued)'
    BY <1>1, <1>6 DEF ForceLogout, BackendTyped
  <2>3. QED
    BY <1>1, <1>2, <2>1, <2>2
<1>7. CASE LoseOnTheWay
  BY <1>1, <1>2, <1>7 DEF LoseOnTheWay, BrowserTyped, BackendTyped
<1>8. CASE UNCHANGED vars
  BY <1>1, <1>2, <1>8 DEF vars, BrowserTyped, BackendTyped
<1>9. QED
  BY <1>3, <1>4, <1>5, <1>6, <1>7, <1>8

\* and so by all.
LEMMA TypeStep == ASSUME TypeOK, WireInv, [Next]_vars PROVE TypeOK'
  BY CallType, TabType, RestType DEF Next

-----------------------------------------------------------------------------
(* What a step does to the tokens.                                         *)

\* The store keeps its pair, loses it, or takes in one that was on its way.
StoreStays ==
    /\ store' = store /\ left' = left
    /\ \A t \in Tabs : flight[t].at = "ok" /\ flight'[t].at # "ok" =>
          flight[t].token \in unheard' \cup torn'

StoreCleared ==
    /\ store'.refresh = None
    /\ \A s \in left' \ left :
          store.refresh # None /\ s = session[store.refresh] /\ Refreshing(s) = {}

StoreFilled ==
    /\ left' = left
    /\ \/ \E c \in Calls : ByLogin(c, store'.refresh) /\ call'[c].at # "ok"
       \/ \E t \in Tabs : ByRefresh(t, store'.refresh) /\ flight'[t].at # "ok"

\* Nothing is issued, exchanged or presented.
QuietStep ==
    /\ UNCHANGED <<issued, session, spent, shown>>
    /\ \A c \in Calls : call'[c].at = "ok" => call[c].at = "ok" /\ call'[c].token = call[c].token
    /\ \A t \in Tabs : flight'[t].at # "none" =>
          flight[t].at # "none" /\ flight'[t].token = flight[t].token
    /\ \A t \in Tabs : flight'[t].at \in {"sent", "ok"} => flight'[t] = flight[t]
    /\ \A p \in orphans' :
          \/ p \in orphans
          \/ p \in torn' /\ \E t \in Tabs : flight[t].at = "sent" /\ flight[t].token = p
    /\ unheard \subseteq unheard' /\ torn \subseteq torn'
    /\ StoreStays \/ StoreCleared \/ StoreFilled

\* A login is granted.
LoginServed(c) ==
    /\ Issue(None)
    /\ call'[c].at = "ok" /\ call'[c].token = issued + 1
    /\ \A d \in Calls \ {c} : call'[d] = call[d]
    /\ UNCHANGED <<store, flight, orphans, spent, shown, unheard, torn, left>>

\* The token of the store is presented.
RefreshBegun(t) ==
    /\ store.refresh # None /\ flight[t].at = "none"
    /\ flight'[t].at = "sent" /\ flight'[t].token = store.refresh
    /\ \A u \in Tabs \ {t} : flight'[u] = flight[u]
    /\ \A c \in Calls : call'[c].at = "ok" => call'[c] = call[c]
    /\ shown' = [shown EXCEPT ![store.refresh] = @ \cup {t}]
    /\ UNCHANGED <<store, orphans, issued, session, spent, unheard, torn, left>>

\* A token is exchanged, and a tab is told;
RefreshServed(t) ==
    /\ flight[t].at = "sent" /\ Rotate(flight[t].token)
    /\ flight'[t].at = "ok" /\ flight'[t].token = flight[t].token /\ flight'[t].new = issued + 1
    /\ \A u \in Tabs \ {t} : flight'[u] = flight[u]
    /\ UNCHANGED <<store, call, orphans, shown, unheard, torn, left>>

\* or nobody is.
OrphanServed(p) ==
    /\ p \in orphans /\ Rotate(p)
    /\ orphans' \subseteq orphans
    /\ UNCHANGED <<store, call, flight, shown, unheard, torn, left>>

\* Signing out clears the store.
LEMMA SignOutClears == ASSUME NEW t, SignOut(t) PROVE StoreCleared
<1>1. store' = Pair(None)
  BY DEF SignOut, Cleared
<1>2. store'.refresh = None
  BY <1>1 DEF Pair
<1>3. QED
  BY <1>2 DEF SignOut, StoreCleared

\* A call that moves on,
LEMMA CallMoves ==
  ASSUME TypeOK, NEW c \in Calls, NEW x,
         \/ call' = [call EXCEPT ![c].at = x]
         \/ \E n : call' = [call EXCEPT ![c].at = x, ![c].token = n]
  PROVE  /\ call'[c].at = x
         /\ \A d \in Calls \ {c} : call'[d] = call[d]
<1>1. call \in [Calls -> CallStates(issued)] /\ call[c] \in CallStates(issued)
  BY BasicTypes
<1>2. CASE call' = [call EXCEPT ![c].at = x]
  <2>1. call'[c] = [call[c] EXCEPT !.at = x]
    BY <1>1, <1>2
  <2>2. QED
    BY <1>1, <1>2, <2>1 DEF CallStates
<1>3. ASSUME NEW n, call' = [call EXCEPT ![c].at = x, ![c].token = n]
      PROVE  call'[c].at = x /\ \A d \in Calls \ {c} : call'[d] = call[d]
  <2>1. call'[c] = [[call[c] EXCEPT !.at = x] EXCEPT !.token = n]
    BY <1>1, <1>3
  <2>2. QED
    BY <1>1, <1>3, <2>1 DEF CallStates
<1>4. QED
  BY <1>2, <1>3

\* one that waits,
LEMMA CallWaits ==
  ASSUME TypeOK, NEW c \in Calls, Wait(c)
  PROVE  /\ call'[c].at = "waiting"
         /\ \A d \in Calls \ {c} : call'[d] = call[d]
<1>1. call' = [call EXCEPT ![c].at = "waiting"]
  BY DEF Wait
<1>2. QED
  BY <1>1, CallMoves

\* and one that has its answer.
LEMMA CallServed ==
  ASSUME TypeOK, NEW c \in Calls, NEW x, NEW n, Answer(c, x, n)
  PROVE  /\ call'[c].at = x /\ call'[c].token = n
         /\ \A d \in Calls \ {c} : call'[d] = call[d]
<1>1. call \in [Calls -> CallStates(issued)] /\ call[c] \in CallStates(issued)
  BY BasicTypes
<1>2. call' = [call EXCEPT ![c].at = x, ![c].token = n]
  BY DEF Answer
<1>3. call'[c] = [[call[c] EXCEPT !.at = x] EXCEPT !.token = n]
  BY <1>1, <1>2
<1>4. QED
  BY <1>1, <1>2, <1>3 DEF CallStates

\* The steps of a call,
LEMMA CallCases ==
  ASSUME TypeOK, NEW c \in Calls, CallNext(c)
  PROVE  QuietStep \/ LoginServed(c) \/ RefreshBegun(TabOf[c])
<1> USE DEF browserVars, wireVars, backendVars, pastVars
<1>1. /\ call \in [Calls -> CallStates(issued)] /\ flight \in [Tabs -> FlightStates(issued)]
      /\ TabOf[c] \in Tabs /\ Idle.at = "idle"
  BY BasicTypes DEF Idle
<1>2. ASSUME UNCHANGED <<issued, session, spent, shown, flight, orphans, unheard, torn>>,
             call'[c].at # "ok", \A d \in Calls \ {c} : call'[d] = call[d],
             StoreStays \/ StoreCleared \/ StoreFilled
      PROVE  QuietStep
  BY <1>2 DEF QuietStep
<1>3. ASSUME UNCHANGED <<store, left, flight>> PROVE StoreStays
  BY <1>3 DEF StoreStays
<1>4. ASSUME NEW k, Request(c, k) PROVE QuietStep
  <2>1. call' = [call EXCEPT ![c] = Sent(k)] /\ Sent(k).at = "sent"
    BY <1>4 DEF Request, Sent
  <2>2. call'[c].at # "ok" /\ \A d \in Calls \ {c} : call'[d] = call[d]
    BY <1>1, <2>1
  <2>3. QED
    BY <1>2, <1>3, <1>4, <2>2 DEF Request
<1>5. CASE Serve(c)
  <2>1. UNCHANGED <<store, flight, orphans, spent, shown, unheard, torn, left>>
    BY <1>5 DEF Serve
  <2>2. CASE (call' = [call EXCEPT ![c] = Idle] \/ Answer(c, "denied", None)) /\ UNCHANGED <<issued, session>>
    <3>1. call'[c].at # "ok" /\ \A d \in Calls \ {c} : call'[d] = call[d]
      BY <1>1, <2>2, CallServed
    <3>2. QED
      BY <1>2, <1>3, <2>1, <2>2, <3>1
  <2>3. CASE Issue(None) /\ Answer(c, "ok", issued + 1)
    BY <2>1, <2>3, CallServed DEF LoginServed
  <2>4. QED
    BY <1>5, <2>2, <2>3 DEF Serve
<1>6. CASE Login(c)
  <2>1. call[c].at = "ok" /\ call' = [call EXCEPT ![c] = Idle] /\ store' = Pair(call[c].token)
    BY <1>6 DEF Login
  <2>2. call'[c].at # "ok" /\ \A d \in Calls \ {c} : call'[d] = call[d]
    BY <1>1, <2>1
  <2>3. store'.refresh = call[c].token
    BY <2>1 DEF Pair
  <2>4. StoreFilled
    BY <1>6, <2>1, <2>2, <2>3 DEF Login, StoreFilled, ByLogin
  <2>5. QED
    BY <1>2, <1>6, <2>2, <2>4 DEF Login
<1>7. CASE Throw(c)
  <2>1. call'[c].at # "ok" /\ \A d \in Calls \ {c} : call'[d] = call[d]
    BY <1>1, <1>7 DEF Throw
  <2>2. QED
    BY <1>2, <1>3, <1>7, <2>1 DEF Throw
<1>8. CASE Join(c)
  <2>1. call'[c].at # "ok" /\ \A d \in Calls \ {c} : call'[d] = call[d]
    BY <1>8, CallWaits DEF Join
  <2>2. QED
    BY <1>2, <1>3, <1>8, <2>1 DEF Join
<1>9. CASE BeginRefresh(c)
  <2>1. call'[c].at # "ok" /\ \A d \in Calls \ {c} : call'[d] = call[d]
    BY <1>9, CallWaits DEF BeginRefresh
  <2> DEFINE f == [NoFlight EXCEPT !.at = "sent", !.token = store.refresh]
  <2>2. f.at = "sent" /\ f.token = store.refresh
    BY DEF NoFlight
  <2>3. flight' = [flight EXCEPT ![TabOf[c]] = f]
    BY <1>9 DEF BeginRefresh
  <2> HIDE DEF f
  <2>4. /\ flight'[TabOf[c]].at = "sent" /\ flight'[TabOf[c]].token = store.refresh
        /\ \A u \in Tabs \ {TabOf[c]} : flight'[u] = flight[u]
    BY <1>1, <2>2, <2>3
  <2>5. QED
    BY <1>9, <2>1, <2>4 DEF BeginRefresh, RefreshBegun, Joins
<1>10. CASE NothingToRefresh(c)
  <2>1. call'[c].at # "ok" /\ \A d \in Calls \ {c} : call'[d] = call[d]
    BY <1>1, <1>10 DEF NothingToRefresh
  <2>2. StoreCleared
    BY <1>10, SignOutClears DEF NothingToRefresh
  <2>3. QED
    BY <1>2, <1>10, <2>1, <2>2 DEF NothingToRefresh
<1>11. QED
  BY <1>4, <1>5, <1>6, <1>7, <1>8, <1>9, <1>10 DEF CallNext

\* and those of a tab.
LEMMA TabCases ==
  ASSUME TypeOK, NEW t \in Tabs, RefreshNext(t) \/ UserSignsOut(t) \/ Load(t)
  PROVE  QuietStep \/ RefreshServed(t)
<1> USE DEF browserVars, wireVars, backendVars, pastVars
<1>1. /\ call \in [Calls -> CallStates(issued)] /\ flight \in [Tabs -> FlightStates(issued)]
      /\ Idle.at = "idle" /\ NoFlight.at = "none" /\ issued \in Nat
  BY BasicTypes DEF Idle, NoFlight
<1>2. CASE ServeRefresh(t)
  <2>1. flight[t].at = "sent" /\ UNCHANGED <<store, call, orphans, shown, unheard, torn, left>>
    BY <1>2 DEF ServeRefresh
  <2>2. CASE /\ Rotate(flight[t].token)
             /\ flight' = [flight EXCEPT ![t].at = "ok", ![t].new = issued + 1]
    BY <2>1, <2>2, FlightBrings DEF RefreshServed
  <2>3. CASE Alarm(flight[t].token) /\ flight' = [flight EXCEPT ![t].at = "refused"]
    <3>1. /\ flight'[t].at = "refused" /\ flight'[t].token = flight[t].token
          /\ \A u \in Tabs \ {t} : flight'[u] = flight[u]
      BY <2>3, FlightMoves
    <3>2. StoreStays
      BY <2>1, <3>1 DEF StoreStays
    <3>3. UNCHANGED <<issued, spent, session>>
      BY <2>3 DEF Alarm
    <3>4. QED
      BY <2>1, <3>1, <3>2, <3>3 DEF QuietStep
  <2>4. QED
    BY <1>2, <2>2, <2>3 DEF ServeRefresh
<1>3. CASE LoseRefresh(t)
  <2>1. /\ flight'[t].at = "refused" /\ flight'[t].token = flight[t].token
        /\ \A u \in Tabs \ {t} : flight'[u] = flight[u]
    BY <1>3, FlightMoves DEF LoseRefresh
  <2>2. /\ flight[t].at # "none"
        /\ unheard' = unheard \cup {p \in {flight[t].token} : flight[t].at = "ok"}
        /\ UNCHANGED <<store, call, orphans, issued, session, spent, shown, torn, left>>
    BY <1>3 DEF LoseRefresh
  <2>3. StoreStays
    BY <2>1, <2>2 DEF StoreStays
  <2>4. QED
    BY <2>1, <2>2, <2>3 DEF QuietStep
<1>4. CASE Refreshed(t)
  <2>1. /\ flight[t].at = "ok" /\ store' = Pair(flight[t].new)
        /\ flight' = [flight EXCEPT ![t] = NoFlight]
        /\ UNCHANGED <<orphans, issued, session, spent, shown, unheard, torn, left>>
    BY <1>4 DEF Refreshed
  <2>2. flight'[t].at = "none" /\ \A u \in Tabs \ {t} : flight'[u] = flight[u]
    BY <1>1, <2>1
  <2>3. store'.refresh = flight[t].new
    BY <2>1 DEF Pair
  <2>4. StoreFilled
    BY <2>1, <2>2, <2>3 DEF StoreFilled, ByRefresh
  <2>5. ASSUME NEW c \in Calls, call'[c].at = "ok" PROVE call'[c] = call[c]
    <3>1. \/ call'[c] = [call[c] EXCEPT !.at = "sent", !.token = Pair(flight[t].new).access,
                                        !.retried = TRUE]
          \/ call'[c] = call[c]
      BY <1>4 DEF Refreshed
    <3>2. call[c] \in CallStates(issued)
      BY <1>1
    <3>3. [call[c] EXCEPT !.at = "sent", !.token = Pair(flight[t].new).access,
                          !.retried = TRUE].at = "sent"
      BY <3>2 DEF CallStates
    <3>4. QED
      BY <2>5, <3>1, <3>3
  <2>6. QED
    BY <2>1, <2>2, <2>4, <2>5 DEF QuietStep
<1>5. CASE NotRefreshed(t)
  <2>1. /\ SignOut(t) /\ flight' = [flight EXCEPT ![t] = NoFlight]
        /\ UNCHANGED <<orphans, issued, session, spent, shown, unheard, torn>>
    BY <1>5 DEF NotRefreshed
  <2>2. flight'[t].at = "none" /\ \A u \in Tabs \ {t} : flight'[u] = flight[u]
    BY <1>1, <2>1
  <2>3. \A c \in Calls : call'[c].at = "ok" => call'[c] = call[c]
    BY <1>1, <1>5 DEF NotRefreshed
  <2>4. StoreCleared
    BY <2>1, SignOutClears
  <2>5. QED
    BY <2>1, <2>2, <2>3, <2>4 DEF QuietStep
<1>6. CASE UserSignsOut(t)
  <2>1. StoreCleared
    BY <1>6, SignOutClears DEF UserSignsOut
  <2>2. QED
    BY <1>6, <2>1 DEF UserSignsOut, QuietStep
<1>7. CASE Load(t)
  <2>1. /\ flight' = [flight EXCEPT ![t] = NoFlight]
        /\ orphans' = orphans \cup {p \in {flight[t].token} : flight[t].at = "sent"}
        /\ torn' = torn \cup {p \in {flight[t].token} : flight[t].at \in {"sent", "ok"}}
        /\ UNCHANGED <<store, issued, session, spent, shown, unheard, left>>
    BY <1>7 DEF Load
  <2>2. flight'[t].at = "none" /\ \A u \in Tabs \ {t} : flight'[u] = flight[u]
    BY <1>1, <2>1
  <2>3. \A c \in Calls : call'[c].at = "ok" => call'[c] = call[c]
    BY <1>1, <1>7 DEF Load
  <2>4. StoreStays
    BY <2>1, <2>2 DEF StoreStays
  <2>5. QED
    BY <2>1, <2>2, <2>3, <2>4 DEF QuietStep
<1>8. QED
  BY <1>2, <1>3, <1>4, <1>5, <1>6, <1>7 DEF RefreshNext

\* Every step is one of these.
LEMMA NextCases ==
  ASSUME TypeOK, [Next]_vars
  PROVE  \/ QuietStep
         \/ \E c \in Calls : LoginServed(c)
         \/ \E t \in Tabs : RefreshBegun(t) \/ RefreshServed(t)
         \/ \E p \in Pairs : OrphanServed(p)
<1> USE DEF browserVars, wireVars, backendVars, pastVars
<1>1. ASSUME UNCHANGED <<issued, session, spent, shown, store, left, call, flight, unheard, torn>>,
             orphans' \subseteq orphans
      PROVE  QuietStep
  BY <1>1 DEF QuietStep, StoreStays
<1>2. ASSUME NEW p \in Pairs, ServeOrphan(p) PROVE QuietStep \/ OrphanServed(p)
  <2>1. /\ p \in orphans /\ orphans' \subseteq orphans
        /\ UNCHANGED <<store, left, call, flight, shown, unheard, torn>>
    BY <1>2 DEF ServeOrphan
  <2>2. CASE Rotate(p)
    BY <2>1, <2>2 DEF OrphanServed
  <2>3. CASE Alarm(p)
    BY <1>1, <2>1, <2>3 DEF Alarm
  <2>4. QED
    BY <1>2, <2>2, <2>3 DEF ServeOrphan
<1>3. ASSUME NEW g \in goodbyes, Farewell(g) PROVE QuietStep
  BY <1>1, <1>3 DEF Farewell
<1>4. CASE Expire
  BY <1>1, <1>4 DEF Expire
<1>5. CASE ForceLogout
  BY <1>1, <1>5 DEF ForceLogout
<1>6. CASE LoseOnTheWay
  BY <1>1, <1>6 DEF LoseOnTheWay
<1>7. CASE UNCHANGED vars
  BY <1>1, <1>7 DEF vars
<1>8. \A c \in Calls : TabOf[c] \in Tabs
  BY BasicTypes
<1>9. QED
  BY <1>2, <1>3, <1>4, <1>5, <1>6, <1>7, <1>8, CallCases, TabCases DEF Next

-----------------------------------------------------------------------------
(* The invariant is kept.                                                  *)

\* What is under way has been issued and presented.
LEMMA WireStep == ASSUME TypeOK, WireInv, [Next]_vars PROVE WireInv'
<1>1. /\ Issued \subseteq Pairs /\ shown \in [Pairs -> SUBSET Tabs] /\ issued \in Nat
      /\ Issued = 1..issued /\ None = 0
  BY BasicTypes
<1>2. CASE QuietStep
  <2>1. Issued' = Issued
    BY <1>2 DEF QuietStep, Issued
  <2>2. \A p \in orphans' : p \in torn' /\ shown'[p] # {}
    BY <1>2 DEF QuietStep, WireInv
  <2>3. \A t \in Tabs : flight'[t].at # "none" =>
            flight'[t].token \in Issued /\ t \in shown'[flight'[t].token]
    BY <1>2 DEF QuietStep, WireInv
  <2>4. \A t \in Tabs : flight'[t].at = "ok" =>
            flight'[t].new \in Issued /\ session'[flight'[t].new] = session'[flight'[t].token]
    BY <1>2 DEF QuietStep, WireInv
  <2>5. /\ \A p \in Issued : session'[p] \in Issued
        /\ \A p \in Pairs : IsFiniteSet(shown'[p]) /\ (shown'[p] # {} => p \in Issued)
        /\ \A c \in Calls : call'[c].at = "ok" => call'[c].token \in Issued
    BY <1>2 DEF QuietStep, WireInv
  <2>6. QED
    BY <2>1, <2>2, <2>3, <2>4, <2>5 DEF WireInv
<1>3. ASSUME NEW c \in Calls, LoginServed(c) PROVE WireInv'
  <2>1. /\ Issued' = Issued \cup {issued + 1} /\ issued + 1 \notin Issued
        /\ \A p \in Issued : session'[p] = session[p]
        /\ session'[issued + 1] = issued + 1
    BY <1>1, <1>3, IssueFacts DEF LoginServed
  <2>2. \A p \in Issued' : session'[p] \in Issued'
    BY <2>1 DEF WireInv
  <2>3. \A d \in Calls : call'[d].at = "ok" => call'[d].token \in Issued'
    BY <1>3, <2>1 DEF LoginServed, WireInv
  <2>4. \A t \in Tabs : flight[t].at = "ok" => session'[flight[t].new] = session'[flight[t].token]
    BY <2>1 DEF WireInv
  <2>5. QED
    BY <1>3, <2>1, <2>2, <2>3, <2>4 DEF LoginServed, WireInv
<1>4. ASSUME NEW t \in Tabs, RefreshBegun(t) PROVE WireInv'
  <2>1. store.refresh \in Issued /\ store.refresh \in Pairs /\ Issued' = Issued
    BY <1>1, <1>4, BasicTypes DEF RefreshBegun, Issued
  <2>2. /\ shown'[store.refresh] = shown[store.refresh] \cup {t}
        /\ \A p \in Pairs \ {store.refresh} : shown'[p] = shown[p]
    BY <1>1, <1>4, <2>1 DEF RefreshBegun
  <2>3. \A p \in Pairs : IsFiniteSet(shown'[p]) /\ (shown'[p] # {} => p \in Issued)
    <3>1. IsFiniteSet(shown[store.refresh] \cup {t})
      BY <2>1, FS_AddElement DEF WireInv
    <3>2. QED
      BY <2>1, <2>2, <3>1 DEF WireInv
  <2>4. \A p \in Pairs : shown[p] \subseteq shown'[p]
    BY <2>2
  <2>5. \A u \in Tabs : flight'[u].at # "none" =>
            flight'[u].token \in Issued /\ u \in shown'[flight'[u].token]
    BY <1>1, <1>4, <2>1, <2>2, <2>4 DEF RefreshBegun, WireInv
  <2>6. /\ \A u \in Tabs : flight'[u].at = "ok" => flight'[u] = flight[u]
        /\ \A c \in Calls : call'[c].at = "ok" => call'[c] = call[c]
        /\ UNCHANGED <<orphans, torn, session>>
    BY <1>4 DEF RefreshBegun
  <2>7. \A p \in orphans' : p \in torn' /\ shown'[p] # {}
    <3>1. \A p \in orphans : p \in Pairs
      BY <1>1, TypeParts
    <3>2. QED
      BY <2>4, <2>6, <3>1 DEF WireInv
  <2>8. /\ \A p \in Issued : session[p] \in Issued
        /\ \A u \in Tabs : flight'[u].at = "ok" =>
              flight'[u].new \in Issued /\ session[flight'[u].new] = session[flight'[u].token]
        /\ \A c \in Calls : call'[c].at = "ok" => call'[c].token \in Issued
    BY <2>6 DEF WireInv
  <2>9. QED
    BY <2>1, <2>3, <2>5, <2>6, <2>7, <2>8 DEF WireInv
<1>5. ASSUME NEW p, Rotate(p)
      PROVE  /\ Issued' = Issued \cup {issued + 1} /\ issued + 1 \notin Issued
             /\ \A q \in Issued : session'[q] = session[q]
             /\ session'[issued + 1] = session[p] /\ p \in Issued
             /\ \A q \in Issued' : session'[q] \in Issued'
  <2>1. /\ Issued' = Issued \cup {issued + 1} /\ issued + 1 \notin Issued
        /\ \A q \in Issued : session'[q] = session[q]
        /\ session'[issued + 1] = session[p] /\ p \in Issued
    BY <1>1, <1>5, RotateFacts
  <2>2. QED
    BY <2>1 DEF WireInv
<1>6. ASSUME NEW t \in Tabs, RefreshServed(t) PROVE WireInv'
  <2>1. /\ Rotate(flight[t].token)
        /\ flight'[t].at = "ok" /\ flight'[t].token = flight[t].token /\ flight'[t].new = issued + 1
        /\ \A u \in Tabs \ {t} : flight'[u] = flight[u]
        /\ flight[t].at = "sent"
        /\ UNCHANGED <<call, orphans, shown, torn>>
    BY <1>6 DEF RefreshServed
  <2>2. /\ Issued' = Issued \cup {issued + 1} /\ issued + 1 \notin Issued
        /\ \A q \in Issued : session'[q] = session[q]
        /\ session'[issued + 1] = session[flight[t].token] /\ flight[t].token \in Issued
        /\ \A q \in Issued' : session'[q] \in Issued'
    BY <1>5, <2>1
  <2>3. \A u \in Tabs : flight'[u].at # "none" =>
            flight'[u].token \in Issued' /\ u \in shown'[flight'[u].token]
    BY <2>1, <2>2 DEF WireInv
  <2>4. ASSUME NEW u \in Tabs, flight'[u].at = "ok"
        PROVE  flight'[u].new \in Issued' /\ session'[flight'[u].new] = session'[flight'[u].token]
    <3>1. CASE u = t
      BY <2>1, <2>2, <3>1
    <3>2. CASE u # t
      BY <2>1, <2>2, <2>4, <3>2 DEF WireInv
    <3>3. QED
      BY <3>1, <3>2
  <2>5. QED
    BY <2>1, <2>2, <2>3, <2>4 DEF WireInv
<1>7. ASSUME NEW p \in Pairs, OrphanServed(p) PROVE WireInv'
  <2>1. Rotate(p) /\ orphans' \subseteq orphans /\ UNCHANGED <<call, flight, shown, torn>>
    BY <1>7 DEF OrphanServed
  <2>2. /\ Issued' = Issued \cup {issued + 1}
        /\ \A q \in Issued : session'[q] = session[q]
        /\ \A q \in Issued' : session'[q] \in Issued'
    BY <1>5, <2>1
  <2>3. \A t \in Tabs : flight[t].at = "ok" => session'[flight[t].new] = session'[flight[t].token]
    BY <2>2 DEF WireInv
  <2>4. QED
    BY <2>1, <2>2, <2>3 DEF WireInv
<1>8. QED
  BY <1>2, <1>3, <1>4, <1>6, <1>7, NextCases

\* A pair comes into the store once.
LEMMA ComingStep == ASSUME TypeOK, WireInv, ComingInv, [Next]_vars PROVE ComingInv'
<1>1. /\ Issued \subseteq Pairs /\ shown \in [Pairs -> SUBSET Tabs] /\ issued \in Nat
      /\ Issued = 1..issued /\ None = 0 /\ None \notin Issued
      /\ store.refresh \in 0..issued /\ spent \subseteq Issued
  BY BasicTypes, TypeParts
<1>2. issued + 1 \notin Issued /\ issued + 1 # store.refresh /\ issued + 1 \notin spent
  BY <1>1
<1>3. CASE QuietStep
  <2>1. /\ \A p : \A c \in Calls : ByLogin(c, p)' => ByLogin(c, p)
        /\ \A p : \A t \in Tabs : ByRefresh(t, p)' => ByRefresh(t, p)
        /\ Issued' = Issued
    BY <1>3 DEF QuietStep, ByLogin, ByRefresh, Issued
  <2>2. ASSUME NEW p \in Issued,
               (\E c \in Calls : ByLogin(c, p)') \/ (\E t \in Tabs : ByRefresh(t, p)')
        PROVE  shown'[p] = {} /\ p \notin spent' /\ p # store'.refresh
    <3>1. shown'[p] = {} /\ p \notin spent' /\ p # store.refresh
      BY <1>3, <2>1, <2>2 DEF QuietStep, ComingInv
    <3>2. CASE StoreStays \/ StoreCleared
      BY <1>1, <3>1, <3>2 DEF StoreStays, StoreCleared
    <3>3. ASSUME NEW c \in Calls, ByLogin(c, store'.refresh), call'[c].at # "ok"
          PROVE  p # store'.refresh
      BY <2>1, <2>2, <3>3 DEF ComingInv, ByLogin
    <3>4. ASSUME NEW t \in Tabs, ByRefresh(t, store'.refresh), flight'[t].at # "ok"
          PROVE  p # store'.refresh
      BY <2>1, <2>2, <3>4 DEF ComingInv, ByRefresh
    <3>5. QED
      BY <1>3, <3>1, <3>2, <3>3, <3>4 DEF QuietStep, StoreFilled
  <2>3. QED
    BY <2>1, <2>2 DEF ComingInv
<1>4. ASSUME NEW c \in Calls, LoginServed(c) PROVE ComingInv'
  <2>1. Issued' = Issued \cup {issued + 1} /\ issued + 1 \in Pairs
    BY <1>1, <1>4, IssueFacts DEF LoginServed
  <2>2. /\ \A p : \A d \in Calls : ByLogin(d, p)' <=>
              (d # c /\ ByLogin(d, p)) \/ (d = c /\ p = issued + 1)
        /\ \A p : \A t \in Tabs : ByRefresh(t, p)' <=> ByRefresh(t, p)
    BY <1>4 DEF LoginServed, ByLogin, ByRefresh
  <2>3. /\ \A p : \A d \in Calls : ByLogin(d, p) => p \in Issued
        /\ \A p : \A t \in Tabs : ByRefresh(t, p) => p \in Issued
    BY DEF WireInv, ByLogin, ByRefresh
  <2>4. shown[issued + 1] = {}
    BY <1>2, <2>1 DEF WireInv
  <2>5. \A p \in Issued' :
          (\E d \in Calls : ByLogin(d, p)') \/ (\E t \in Tabs : ByRefresh(t, p)') =>
            shown'[p] = {} /\ p \notin spent' /\ p # store'.refresh
    BY <1>2, <1>4, <2>1, <2>2, <2>3, <2>4 DEF LoginServed, ComingInv
  <2>6. /\ \A p \in Issued', d, e \in Calls : ByLogin(d, p)' /\ ByLogin(e, p)' => d = e
        /\ \A p \in Issued', t, u \in Tabs : ByRefresh(t, p)' /\ ByRefresh(u, p)' => t = u
        /\ \A p \in Issued', d \in Calls, t \in Tabs : ~(ByLogin(d, p)' /\ ByRefresh(t, p)')
    BY <1>2, <2>2, <2>3 DEF ComingInv
  <2>7. QED
    BY <2>5, <2>6 DEF ComingInv
<1>5. ASSUME NEW t \in Tabs, RefreshBegun(t) PROVE ComingInv'
  <2>1. /\ \A p : \A d \in Calls : ByLogin(d, p)' => ByLogin(d, p)
        /\ \A p : \A u \in Tabs : ByRefresh(u, p)' => ByRefresh(u, p)
        /\ Issued' = Issued /\ UNCHANGED <<spent, store>>
    BY <1>5 DEF RefreshBegun, ByLogin, ByRefresh, Issued
  <2>2. \A p \in Pairs \ {store.refresh} : shown'[p] = shown[p]
    BY <1>1, <1>5 DEF RefreshBegun
  <2>3. QED
    BY <1>1, <2>1, <2>2 DEF ComingInv
<1>6. ASSUME NEW t \in Tabs, RefreshServed(t) PROVE ComingInv'
  <2>1. /\ Issued' = Issued \cup {issued + 1} /\ issued + 1 \in Pairs
        /\ spent' = spent \cup {flight[t].token} /\ UNCHANGED <<store, shown>>
    BY <1>6, RotateFacts DEF RefreshServed
  <2>2. /\ \A p : \A d \in Calls : ByLogin(d, p)' <=> ByLogin(d, p)
        /\ \A p : \A u \in Tabs : ByRefresh(u, p)' <=>
              (u # t /\ ByRefresh(u, p)) \/ (u = t /\ p = issued + 1)
    BY <1>6 DEF RefreshServed, ByLogin, ByRefresh
  <2>3. /\ \A p : \A d \in Calls : ByLogin(d, p) => p \in Issued
        /\ \A p : \A u \in Tabs : ByRefresh(u, p) => p \in Issued
    BY DEF WireInv, ByLogin, ByRefresh
  <2>4. shown[issued + 1] = {} /\ shown[flight[t].token] # {} /\ flight[t].token \in Issued
    BY <1>2, <1>6, <2>1 DEF WireInv, RefreshServed
  <2>5. \A p \in Issued' :
          (\E d \in Calls : ByLogin(d, p)') \/ (\E u \in Tabs : ByRefresh(u, p)') =>
            shown'[p] = {} /\ p \notin spent' /\ p # store'.refresh
    BY <1>2, <2>1, <2>2, <2>3, <2>4 DEF ComingInv
  <2>6. /\ \A p \in Issued', d, e \in Calls : ByLogin(d, p)' /\ ByLogin(e, p)' => d = e
        /\ \A p \in Issued', u, v \in Tabs : ByRefresh(u, p)' /\ ByRefresh(v, p)' => u = v
        /\ \A p \in Issued', d \in Calls, u \in Tabs : ~(ByLogin(d, p)' /\ ByRefresh(u, p)')
    BY <1>2, <2>2, <2>3 DEF ComingInv
  <2>7. QED
    BY <2>5, <2>6 DEF ComingInv
<1>7. ASSUME NEW q \in Pairs, OrphanServed(q) PROVE ComingInv'
  <2>1. /\ Issued' = Issued \cup {issued + 1} /\ spent' = spent \cup {q}
        /\ UNCHANGED <<store, shown>>
    BY <1>7, RotateFacts DEF OrphanServed
  <2>2. /\ \A p : \A d \in Calls : ByLogin(d, p)' <=> ByLogin(d, p)
        /\ \A p : \A u \in Tabs : ByRefresh(u, p)' <=> ByRefresh(u, p)
    BY <1>7 DEF OrphanServed, ByLogin, ByRefresh
  <2>3. /\ \A p : \A d \in Calls : ByLogin(d, p) => p \in Issued
        /\ \A p : \A u \in Tabs : ByRefresh(u, p) => p \in Issued
        /\ shown[q] # {}
    BY <1>7 DEF WireInv, ByLogin, ByRefresh, OrphanServed
  <2>4. QED
    BY <2>1, <2>2, <2>3 DEF ComingInv
<1>8. QED
  BY <1>3, <1>4, <1>5, <1>6, <1>7, NextCases

\* A token that has been exchanged is not presented again without a reason.
LEMMA SpentStep == ASSUME TypeOK, WireInv, ComingInv, SpentInv, [Next]_vars PROVE SpentInv'
<1>1. /\ Issued \subseteq Pairs /\ shown \in [Pairs -> SUBSET Tabs]
      /\ Issued = 1..issued /\ None = 0 /\ None \notin Issued
      /\ spent \subseteq Issued
  BY BasicTypes, TypeParts
<1>2. CASE QuietStep
  <2>1. /\ spent' = spent /\ shown' = shown
        /\ unheard \cup torn \subseteq unheard' \cup torn'
        /\ \A t \in Tabs : flight'[t].at \in {"sent", "ok"} => flight'[t] = flight[t]
    BY <1>2 DEF QuietStep
  <2>2. ASSUME store'.refresh \in spent
        PROVE  \/ store'.refresh \in unheard' \cup torn'
               \/ \E t \in Tabs : flight'[t].at = "ok" /\ flight'[t].token = store'.refresh
    <3>1. CASE StoreStays
      <4>1. /\ store' = store
            /\ \A t \in Tabs : flight[t].at = "ok" /\ flight'[t].at # "ok" =>
                  flight[t].token \in unheard' \cup torn'
        BY <3>1 DEF StoreStays
      <4>2. CASE store.refresh \in unheard \cup torn
        BY <2>1, <4>1, <4>2
      <4>3. ASSUME NEW t \in Tabs, flight[t].at = "ok", flight[t].token = store.refresh
            PROVE  \/ store'.refresh \in unheard' \cup torn'
                   \/ \E u \in Tabs : flight'[u].at = "ok" /\ flight'[u].token = store'.refresh
        BY <2>1, <4>1, <4>3
      <4>4. QED
        BY <2>2, <4>1, <4>2, <4>3 DEF SpentInv
    <3>2. CASE StoreCleared
      BY <1>1, <2>2, <3>2 DEF StoreCleared
    <3>3. CASE StoreFilled
      <4>1. \/ \E c \in Calls : ByLogin(c, store'.refresh)
            \/ \E t \in Tabs : ByRefresh(t, store'.refresh)
        BY <3>3 DEF StoreFilled
      <4>2. store'.refresh \notin spent
        BY <1>1, <4>1 DEF ComingInv
      <4>3. QED
        BY <2>2, <4>2
    <3>4. QED
      BY <1>2, <3>1, <3>2, <3>3 DEF QuietStep
  <2>3. \A t \in Tabs : flight'[t].at = "sent" /\ flight'[t].token \in spent =>
          \/ flight'[t].token \in unheard' \cup torn'
          \/ \E u \in Tabs \ {t} : u \in shown'[flight'[t].token]
    BY <2>1 DEF SpentInv
  <2>4. QED
    BY <2>1, <2>2, <2>3 DEF SpentInv
<1>3. ASSUME NEW c \in Calls, LoginServed(c) PROVE SpentInv'
  BY <1>3 DEF LoginServed, SpentInv
<1>4. ASSUME NEW t \in Tabs, RefreshBegun(t) PROVE SpentInv'
  <2>1. /\ flight[t].at = "none" /\ flight'[t].at = "sent" /\ flight'[t].token = store.refresh
        /\ \A u \in Tabs \ {t} : flight'[u] = flight[u]
        /\ UNCHANGED <<store, spent, unheard, torn>>
        /\ store.refresh # None
    BY <1>4 DEF RefreshBegun
  <2>2. \A p \in Pairs : shown[p] \subseteq shown'[p]
    BY <1>1, <1>4 DEF RefreshBegun
  <2>3. \A u \in Tabs : flight[u].at = "ok" => u # t /\ flight'[u] = flight[u]
    BY <2>1
  <2>4. store.refresh \in spent =>
          \/ store.refresh \in unheard \cup torn
          \/ \E u \in Tabs : flight'[u].at = "ok" /\ flight'[u].token = store.refresh
    BY <2>3 DEF SpentInv
  <2>5. ASSUME NEW v \in Tabs, flight'[v].at = "sent", flight'[v].token \in spent
        PROVE  \/ flight'[v].token \in unheard \cup torn
               \/ \E u \in Tabs \ {v} : u \in shown'[flight'[v].token]
    <3>1. flight'[v].token \in Pairs
      BY <1>1, <2>5
    <3>2. CASE v = t
      <4>1. \A u \in Tabs : flight[u].at = "ok" => u \in shown[flight[u].token]
        BY DEF WireInv
      <4>2. \/ store.refresh \in unheard \cup torn
            \/ \E u \in Tabs \ {t} : u \in shown[store.refresh]
        BY <2>1, <2>3, <2>5, <3>2, <4>1 DEF SpentInv
      <4>3. QED
        BY <2>1, <2>2, <3>1, <3>2, <4>2
    <3>3. CASE v # t
      <4>1. flight'[v] = flight[v]
        BY <2>1, <3>3
      <4>2. \/ flight[v].token \in unheard \cup torn
            \/ \E u \in Tabs \ {v} : u \in shown[flight[v].token]
        BY <2>5, <4>1 DEF SpentInv
      <4>3. QED
        BY <2>2, <3>1, <4>1, <4>2
    <3>4. QED
      BY <3>2, <3>3
  <2>6. QED
    BY <2>1, <2>4, <2>5 DEF SpentInv
<1>5. ASSUME NEW t \in Tabs, RefreshServed(t) PROVE SpentInv'
  <2>1. /\ flight[t].at = "sent" /\ spent' = spent \cup {flight[t].token}
        /\ flight'[t].at = "ok" /\ flight'[t].token = flight[t].token
        /\ \A u \in Tabs \ {t} : flight'[u] = flight[u]
        /\ UNCHANGED <<store, shown, unheard, torn>>
    BY <1>5, RotateFacts DEF RefreshServed
  <2>2. t \in shown[flight[t].token]
    BY <2>1 DEF WireInv
  <2>3. \A u \in Tabs : flight[u].at = "ok" => flight'[u] = flight[u]
    BY <2>1
  <2>4. store.refresh \in spent' =>
          \/ store.refresh \in unheard \cup torn
          \/ \E u \in Tabs : flight'[u].at = "ok" /\ flight'[u].token = store.refresh
    BY <2>1, <2>3 DEF SpentInv
  <2>5. ASSUME NEW v \in Tabs, flight'[v].at = "sent", flight'[v].token \in spent'
        PROVE  \/ flight'[v].token \in unheard \cup torn
               \/ \E u \in Tabs \ {v} : u \in shown[flight'[v].token]
    <3>1. v # t /\ flight'[v] = flight[v]
      BY <2>1, <2>5
    <3>2. CASE flight[v].token = flight[t].token
      BY <2>2, <3>1, <3>2
    <3>3. CASE flight[v].token # flight[t].token
      BY <2>1, <2>5, <3>1, <3>3 DEF SpentInv
    <3>4. QED
      BY <3>2, <3>3
  <2>6. QED
    BY <2>1, <2>4, <2>5 DEF SpentInv
<1>6. ASSUME NEW p \in Pairs, OrphanServed(p) PROVE SpentInv'
  <2>1. /\ p \in orphans /\ spent' = spent \cup {p}
        /\ UNCHANGED <<store, flight, shown, unheard, torn>>
    BY <1>6, RotateFacts DEF OrphanServed
  <2>2. p \in torn
    BY <2>1 DEF WireInv
  <2>3. QED
    BY <2>1, <2>2 DEF SpentInv
<1>7. QED
  BY <1>2, <1>3, <1>4, <1>5, <1>6, NextCases

\* Nothing of a session signed out of comes on its way to the store.
LEMMA LeftStep == ASSUME TypeOK, WireInv, ComingInv, LeftInv, [Next]_vars PROVE LeftInv'
<1>1. /\ Issued \subseteq Pairs /\ issued \in Nat /\ Issued = 1..issued /\ None = 0
      /\ None \notin Issued /\ store.refresh \in 0..issued /\ left \subseteq Issued
  BY BasicTypes, TypeParts
<1>2. CASE QuietStep
  <2>1. /\ UNCHANGED <<issued, session>> /\ Issued' = Issued
        /\ \A c \in Calls : call'[c].at = "ok" => call[c].at = "ok" /\ call'[c].token = call[c].token
        /\ \A t \in Tabs : flight'[t].at \in {"sent", "ok"} => flight'[t] = flight[t]
    BY <1>2 DEF QuietStep, Issued
  <2>2. CASE StoreStays
    BY <2>1, <2>2 DEF StoreStays, LeftInv, BrowserForgets
  <2>3. CASE StoreCleared
    <3>1. ASSUME NEW s \in left' \ left
          PROVE  store.refresh \in Issued /\ s = session[store.refresh] /\ Refreshing(s) = {}
      BY <1>1, <2>3, <3>1 DEF StoreCleared
    <3>2. BrowserForgets'
      BY <2>3 DEF StoreCleared, BrowserForgets
    <3>3. ASSUME NEW t \in Tabs, flight'[t].at \in {"sent", "ok"}
          PROVE  session'[flight'[t].token] \notin left'
      <4>1. flight'[t] = flight[t] /\ session[flight[t].token] \notin left
        BY <2>1, <3>3 DEF LeftInv
      <4>2. t \in Refreshing(session[flight[t].token])
        BY <3>3, <4>1 DEF Refreshing
      <4>3. QED
        BY <2>1, <3>1, <4>1, <4>2
    <3>4. ASSUME NEW c \in Calls, call'[c].at = "ok"
          PROVE  /\ session'[call'[c].token] \notin left'
                 /\ \A q \in Issued' : session'[q] = session'[call'[c].token] => q = call'[c].token
      <4>1. /\ call[c].at = "ok" /\ call'[c].token = call[c].token
            /\ session[call[c].token] \notin left
            /\ \A q \in Issued : session[q] = session[call[c].token] => q = call[c].token
        BY <2>1, <3>4 DEF LeftInv
      <4>2. call[c].token \in Issued /\ call[c].token # store.refresh
        BY <4>1 DEF WireInv, ComingInv, ByLogin
      <4>3. QED
        BY <2>1, <3>1, <4>1, <4>2
    <3>5. QED
      BY <3>2, <3>3, <3>4 DEF LeftInv
  <2>4. CASE StoreFilled
    <3>1. session[store'.refresh] \notin left
      <4>1. ASSUME NEW c \in Calls, ByLogin(c, store'.refresh) PROVE session[store'.refresh] \notin left
        BY <4>1 DEF ByLogin, LeftInv
      <4>2. ASSUME NEW t \in Tabs, ByRefresh(t, store'.refresh)
            PROVE  session[store'.refresh] \notin left
        BY <4>2 DEF ByRefresh, LeftInv, WireInv
      <4>3. QED
        BY <2>4, <4>1, <4>2 DEF StoreFilled
    <3>2. BrowserForgets' /\ left' = left
      BY <2>1, <2>4, <3>1 DEF StoreFilled, BrowserForgets
    <3>3. QED
      BY <2>1, <3>2 DEF LeftInv
  <2>5. QED
    BY <1>2, <2>2, <2>3, <2>4 DEF QuietStep
<1>3. ASSUME NEW c \in Calls, LoginServed(c) PROVE LeftInv'
  <2>1. /\ Issued' = Issued \cup {issued + 1} /\ issued + 1 \notin Issued
        /\ \A p \in Issued : session'[p] = session[p]
        /\ session'[issued + 1] = issued + 1
    BY <1>1, <1>3, IssueFacts DEF LoginServed
  <2>2. /\ UNCHANGED <<store, flight, left>>
        /\ call'[c].at = "ok" /\ call'[c].token = issued + 1
        /\ \A d \in Calls \ {c} : call'[d] = call[d]
    BY <1>3 DEF LoginServed
  <2>3. BrowserForgets'
    BY <1>1, <2>1, <2>2 DEF LeftInv, BrowserForgets
  <2>4. \A t \in Tabs : flight[t].at \in {"sent", "ok"} => session'[flight[t].token] \notin left
    BY <2>1 DEF LeftInv, WireInv
  <2>5. ASSUME NEW d \in Calls, call'[d].at = "ok"
        PROVE  /\ session'[call'[d].token] \notin left
               /\ \A q \in Issued' : session'[q] = session'[call'[d].token] => q = call'[d].token
    <3>1. CASE d = c
      <4>1. \A q \in Issued : session'[q] \in Issued
        BY <2>1 DEF WireInv
      <4>2. QED
        BY <1>1, <2>1, <2>2, <3>1, <4>1
    <3>2. CASE d # c
      <4>1. /\ call[d].at = "ok" /\ call'[d].token = call[d].token /\ call[d].token \in Issued
            /\ session[call[d].token] \notin left /\ session[call[d].token] \in Issued
            /\ \A q \in Issued : session[q] = session[call[d].token] => q = call[d].token
        BY <2>2, <2>5, <3>2 DEF LeftInv, WireInv
      <4>2. QED
        BY <2>1, <4>1
    <3>3. QED
      BY <3>1, <3>2
  <2>6. QED
    BY <2>2, <2>3, <2>4, <2>5 DEF LeftInv
<1>4. ASSUME NEW t \in Tabs, RefreshBegun(t) PROVE LeftInv'
  <2>1. /\ UNCHANGED <<store, left, issued, session>> /\ Issued' = Issued
        /\ store.refresh # None /\ flight'[t].token = store.refresh
        /\ \A u \in Tabs \ {t} : flight'[u] = flight[u]
        /\ \A c \in Calls : call'[c].at = "ok" => call'[c] = call[c]
    BY <1>4 DEF RefreshBegun, Issued
  <2>2. BrowserForgets' /\ session[store.refresh] \notin left
    BY <2>1 DEF LeftInv, BrowserForgets
  <2>3. QED
    BY <2>1, <2>2 DEF LeftInv
<1>5. ASSUME NEW p, Rotate(p), UNCHANGED <<store, call, left>>, shown[p] # {},
             \A t \in Tabs : flight'[t].at \in {"sent", "ok"} =>
                flight[t].at \in {"sent", "ok"} /\ flight'[t].token = flight[t].token
      PROVE  LeftInv'
  <2>1. /\ Issued' = Issued \cup {issued + 1} /\ issued + 1 \notin Issued
        /\ \A q \in Issued : session'[q] = session[q]
        /\ session'[issued + 1] = session[p] /\ p \in Issued
    BY <1>1, <1>5, RotateFacts
  <2>2. BrowserForgets'
    BY <1>1, <1>5, <2>1 DEF LeftInv, BrowserForgets
  <2>3. \A t \in Tabs : flight'[t].at \in {"sent", "ok"} => session'[flight'[t].token] \notin left'
    BY <1>5, <2>1 DEF LeftInv, WireInv
  <2>4. ASSUME NEW d \in Calls, call[d].at = "ok"
        PROVE  /\ session'[call[d].token] \notin left
               /\ \A q \in Issued' : session'[q] = session'[call[d].token] => q = call[d].token
    <3>1. /\ call[d].token \in Issued /\ session[call[d].token] \notin left
          /\ \A q \in Issued : session[q] = session[call[d].token] => q = call[d].token
      BY <2>4 DEF LeftInv, WireInv
    <3>2. call[d].token # p
      BY <1>5, <2>4, <3>1 DEF ComingInv, ByLogin
    <3>3. QED
      BY <2>1, <3>1, <3>2
  <2>5. QED
    BY <1>5, <2>2, <2>3, <2>4 DEF LeftInv
<1>6. ASSUME NEW t \in Tabs, RefreshServed(t) PROVE LeftInv'
  <2>1. shown[flight[t].token] # {} /\ Rotate(flight[t].token) /\ UNCHANGED <<store, call, left>>
    BY <1>6 DEF RefreshServed, WireInv
  <2>2. \A u \in Tabs : flight'[u].at \in {"sent", "ok"} =>
                flight[u].at \in {"sent", "ok"} /\ flight'[u].token = flight[u].token
    BY <1>6 DEF RefreshServed
  <2>3. QED
    BY <1>5, <2>1, <2>2
<1>7. ASSUME NEW p \in Pairs, OrphanServed(p) PROVE LeftInv'
  <2>1. shown[p] # {} /\ Rotate(p) /\ UNCHANGED <<store, call, left, flight>>
    BY <1>7 DEF OrphanServed, WireInv
  <2>2. QED
    BY <1>5, <2>1
<1>8. QED
  BY <1>2, <1>3, <1>4, <1>6, <1>7, NextCases

\* No refresh of a session that has ended leaves it a good token.
LEMMA EndedStep == ASSUME TypeOK, WireInv, EndedStaysEnded, [Next]_vars PROVE EndedStaysEnded'
<1> USE DEF browserVars, wireVars, backendVars, pastVars
<1>1. /\ Issued \subseteq Pairs /\ issued \in Nat /\ Issued = 1..issued /\ None = 0
      /\ ended \subseteq Issued
  BY BasicTypes, TypeParts
<1>2. ASSUME UNCHANGED <<issued, session, spent, revoked, ended>> PROVE EndedStaysEnded'
  BY <1>2 DEF EndedStaysEnded, Good, Issued
<1>3. ASSUME issued' = issued, Issued \subseteq revoked' PROVE EndedStaysEnded'
  BY <1>3 DEF EndedStaysEnded, Good, Issued
<1>4. ASSUME Issue(None), UNCHANGED <<spent, revoked, ended>> PROVE EndedStaysEnded'
  <2>1. /\ Issued' = Issued \cup {issued + 1} /\ issued + 1 \notin Issued
        /\ \A p \in Issued : session'[p] = session[p]
        /\ session'[issued + 1] = issued + 1
    BY <1>1, <1>4, IssueFacts
  <2>2. QED
    BY <1>1, <1>4, <2>1 DEF EndedStaysEnded, Good
<1>5. ASSUME NEW p, Rotate(p) PROVE EndedStaysEnded'
  <2>1. /\ Issued' = Issued \cup {issued + 1} /\ issued + 1 \notin Issued
        /\ \A q \in Issued : session'[q] = session[q]
        /\ session'[issued + 1] = session[p] /\ p \in Issued
        /\ spent \subseteq spent' /\ UNCHANGED <<revoked, ended>>
    BY <1>1, <1>5, RotateFacts
  <2>2. session[p] \notin ended
    BY <1>5 DEF Rotate, Good, EndedStaysEnded
  <2>3. QED
    BY <2>1, <2>2 DEF EndedStaysEnded, Good
<1>6. ASSUME NEW p, Alarm(p) PROVE EndedStaysEnded'
  BY <1>3, <1>6 DEF Alarm
<1>7. ASSUME NEW c \in Calls, CallNext(c) PROVE EndedStaysEnded'
  <2>1. \/ UNCHANGED <<issued, session, spent, revoked, ended>>
        \/ Issue(None) /\ UNCHANGED <<spent, revoked, ended>>
    BY <1>7 DEF CallNext, Request, Serve, Login, Throw, Join, BeginRefresh, NothingToRefresh
  <2>2. QED
    BY <1>2, <1>4, <2>1
<1>8. ASSUME NEW t \in Tabs, RefreshNext(t) \/ UserSignsOut(t) \/ Load(t) PROVE EndedStaysEnded'
  <2>1. CASE ServeRefresh(t)
    BY <1>5, <1>6, <2>1 DEF ServeRefresh
  <2>2. CASE LoseRefresh(t) \/ Refreshed(t) \/ NotRefreshed(t) \/ UserSignsOut(t) \/ Load(t)
    BY <1>2, <2>2 DEF LoseRefresh, Refreshed, NotRefreshed, UserSignsOut, Load
  <2>3. QED
    BY <1>8, <2>1, <2>2 DEF RefreshNext
<1>9. ASSUME NEW p \in Pairs, ServeOrphan(p) PROVE EndedStaysEnded'
  BY <1>5, <1>6, <1>9 DEF ServeOrphan
<1>10. ASSUME NEW g \in goodbyes, Farewell(g) PROVE EndedStaysEnded'
  BY <1>2, <1>3, <1>10 DEF Farewell, RevokedBy
<1>11. CASE Expire \/ LoseOnTheWay \/ UNCHANGED vars
  BY <1>2, <1>11 DEF Expire, LoseOnTheWay, vars
<1>12. CASE ForceLogout
  BY <1>3, <1>12 DEF ForceLogout
<1>13. QED
  BY <1>7, <1>8, <1>9, <1>10, <1>11, <1>12 DEF Next

\* Nobody waits for a refresh that is not there.
LEMMA WaitStep == ASSUME TypeOK, NobodyWaitsInVain, [Next]_vars PROVE NobodyWaitsInVain'
<1> USE DEF browserVars, wireVars, backendVars, pastVars
<1>1. /\ TabOf \in [Calls -> Tabs] /\ call \in [Calls -> CallStates(issued)]
      /\ flight \in [Tabs -> FlightStates(issued)]
      /\ Idle.at = "idle" /\ NoFlight.at = "none" /\ issued \in Nat
  BY BasicTypes DEF Idle, NoFlight
<1>2. ASSUME UNCHANGED flight, NEW c \in Calls, \A d \in Calls \ {c} : call'[d] = call[d],
             call'[c].at # "waiting"
      PROVE  NobodyWaitsInVain'
  BY <1>2 DEF NobodyWaitsInVain
<1>3. ASSUME NEW c \in Calls, CallNext(c) PROVE NobodyWaitsInVain'
  <2>1. ASSUME NEW k, Request(c, k) PROVE NobodyWaitsInVain'
    <3>1. Sent(k).at = "sent" /\ call' = [call EXCEPT ![c] = Sent(k)] /\ flight' = flight
      BY <2>1 DEF Request, Sent
    <3>2. QED
      BY <1>1, <1>2, <3>1
  <2>2. CASE Serve(c)
    <3>1. /\ flight' = flight
          /\ \/ call' = [call EXCEPT ![c] = Idle]
             \/ Answer(c, "denied", None) \/ Answer(c, "ok", issued + 1)
      BY <2>2 DEF Serve
    <3>2. call'[c].at # "waiting" /\ \A d \in Calls \ {c} : call'[d] = call[d]
      BY <1>1, <3>1, CallServed
    <3>3. QED
      BY <1>2, <3>1, <3>2
  <2>3. CASE Login(c) \/ Throw(c) \/ NothingToRefresh(c)
    BY <1>1, <1>2, <2>3 DEF Login, Throw, NothingToRefresh
  <2>4. CASE Join(c)
    <3>1. \A d \in Calls \ {c} : call'[d] = call[d]
      BY <2>4, CallWaits DEF Join
    <3>2. flight' = flight /\ flight[TabOf[c]].at # "none"
      BY <2>4 DEF Join, Joins
    <3>3. QED
      BY <3>1, <3>2 DEF NobodyWaitsInVain
  <2>5. CASE BeginRefresh(c)
    <3>1. \A d \in Calls \ {c} : call'[d] = call[d]
      BY <2>5, CallWaits DEF BeginRefresh
    <3>2. [NoFlight EXCEPT !.at = "sent", !.token = store.refresh].at = "sent"
      BY DEF NoFlight
    <3>3. flight'[TabOf[c]].at = "sent" /\ \A u \in Tabs \ {TabOf[c]} : flight'[u] = flight[u]
      BY <1>1, <2>5, <3>2 DEF BeginRefresh
    <3>4. QED
      BY <1>1, <3>1, <3>3 DEF NobodyWaitsInVain
  <2>6. QED
    BY <1>3, <2>1, <2>2, <2>3, <2>4, <2>5 DEF CallNext
<1>4. ASSUME NEW t \in Tabs, flight'[t].at # "none", \A u \in Tabs \ {t} : flight'[u] = flight[u],
             UNCHANGED call
      PROVE  NobodyWaitsInVain'
  BY <1>1, <1>4 DEF NobodyWaitsInVain
<1>5. ASSUME NEW t \in Tabs, flight' = [flight EXCEPT ![t] = NoFlight],
             \A c \in Calls : call'[c].at = "waiting" => call'[c] = call[c] /\ TabOf[c] # t
      PROVE  NobodyWaitsInVain'
  BY <1>1, <1>5 DEF NobodyWaitsInVain
<1>6. ASSUME NEW t \in Tabs, RefreshNext(t) \/ UserSignsOut(t) \/ Load(t)
      PROVE  NobodyWaitsInVain'
  <2>1. CASE ServeRefresh(t)
    <3>1. /\ call' = call
          /\ \/ flight' = [flight EXCEPT ![t].at = "ok", ![t].new = issued + 1]
             \/ flight' = [flight EXCEPT ![t].at = "refused"]
      BY <2>1 DEF ServeRefresh
    <3>2. flight'[t].at # "none" /\ \A u \in Tabs \ {t} : flight'[u] = flight[u]
      BY <3>1, FlightBrings, FlightMoves
    <3>3. QED
      BY <1>4, <3>1, <3>2
  <2>2. CASE LoseRefresh(t)
    BY <1>4, <2>2, FlightMoves DEF LoseRefresh
  <2>3. CASE Refreshed(t)
    <3>1. flight' = [flight EXCEPT ![t] = NoFlight]
      BY <2>3 DEF Refreshed
    <3>2. ASSUME NEW c \in Calls, call'[c].at = "waiting" PROVE call'[c] = call[c] /\ TabOf[c] # t
      <4>1. call[c] \in CallStates(issued)
        BY <1>1
      <4>2. [call[c] EXCEPT !.at = "sent", !.token = Pair(flight[t].new).access,
                            !.retried = TRUE].at = "sent"
        BY <4>1 DEF CallStates
      <4>3. c \notin Waiters(t) /\ call'[c] = call[c]
        BY <2>3, <3>2, <4>2 DEF Refreshed
      <4>4. QED
        BY <3>2, <4>3 DEF Waiters
    <3>3. QED
      BY <1>5, <3>1, <3>2
  <2>4. CASE NotRefreshed(t)
    BY <1>1, <1>5, <2>4 DEF NotRefreshed, Waiters
  <2>5. CASE UserSignsOut(t)
    BY <2>5 DEF UserSignsOut, NobodyWaitsInVain
  <2>6. CASE Load(t)
    BY <1>1, <1>5, <2>6 DEF Load
  <2>7. QED
    BY <1>6, <2>1, <2>2, <2>3, <2>4, <2>5, <2>6 DEF RefreshNext
<1>7. ASSUME UNCHANGED <<call, flight>> PROVE NobodyWaitsInVain'
  BY <1>7 DEF NobodyWaitsInVain
<1>8. QED
  BY <1>3, <1>6, <1>7 DEF Next, ServeOrphan, Farewell, Expire, ForceLogout, LoseOnTheWay, vars

-----------------------------------------------------------------------------
(* The theorems.                                                           *)

\* The inductive invariant holds at the start,
LEMMA IInvInit == Init => IInv
<1> SUFFICES ASSUME Init PROVE IInv
  OBVIOUS
<1>1. issued = 0 /\ Issued = {} /\ None = 0
  BY DEF Init, Issued, None
<1>2. \A p \in Pairs : shown[p] = {}
  BY DEF Init
<1>3. \A t \in Tabs : flight[t].at = "none"
  BY DEF Init, NoFlight
<1>4. \A c \in Calls : call[c].at = "idle"
  BY DEF Init, Idle
<1>5. orphans = {} /\ spent = {} /\ store.refresh = None
  BY DEF Init, Pair
<1>6. TypeOK
  BY TypeInit
<1>7. WireInv
  BY <1>1, <1>2, <1>3, <1>4, <1>5, FS_EmptySet DEF WireInv
<1>8. ComingInv
  BY <1>1 DEF ComingInv
<1>9. SpentInv
  BY <1>5 DEF SpentInv
<1>10. LeftInv
  BY <1>3, <1>4, <1>5 DEF LeftInv, BrowserForgets
<1>11. NobodyWaitsInVain
  BY <1>4 DEF NobodyWaitsInVain
<1>12. EndedStaysEnded
  BY <1>1 DEF EndedStaysEnded
<1>13. QED
  BY <1>6, <1>7, <1>8, <1>9, <1>10, <1>11, <1>12 DEF IInv

\* and no step breaks it.
LEMMA IInvStep == IInv /\ [Next]_vars => IInv'
  BY TypeStep, WireStep, ComingStep, SpentStep, LeftStep, WaitStep, EndedStep DEF IInv

\* So it always holds.
LEMMA Invariance == Spec => []IInv
  BY IInvInit, IInvStep, PTL DEF Spec

\* The variables of the browser, of the wire and of the backend have their
\* types: nothing refers to a pair that has not been issued.
THEOREM TypeCorrect == Spec => []TypeOK
<1>1. IInv => TypeOK
  BY DEF IInv
<1>2. QED
  BY Invariance, <1>1, PTL

\* What refresh takes for theft has one of three reasons, in a browser with
\* any number of tabs: two of them have presented the token, the answer to it
\* was lost, or the page that waited for it has gone.  The requests of one tab
\* share a refresh (refreshInFlight) and never present a token twice.
THEOREM AlarmsHaveReasons == Spec => []AlarmsExplained
<1>1. ASSUME TypeOK, WireInv, SpentInv PROVE AlarmsExplained
  <2> SUFFICES ASSUME NEW p \in Suspicious, p \notin unheard \cup torn
               PROVE  Cardinality(shown[p]) > 1
    BY DEF AlarmsExplained
  <2>1. p \notin orphans
    BY <1>1 DEF WireInv
  <2>2. PICK t \in Tabs : flight[t].at = "sent" /\ flight[t].token = p /\ p \in spent
    BY <2>1 DEF Suspicious
  <2>3. PICK u \in Tabs \ {t} : u \in shown[p]
    BY <1>1, <2>2 DEF SpentInv
  <2>4. t \in shown[p] /\ p \in Issued
    BY <1>1, <2>2 DEF WireInv
  <2>5. IsFiniteSet(shown[p])
    BY <1>1, <2>4, BasicTypes DEF WireInv
  <2>6. IsFiniteSet({t}) /\ Cardinality({t}) = 1
    BY FS_Singleton
  <2> DEFINE T == {t}
  <2>7. u \notin T
    BY <2>3
  <2> HIDE DEF T
  <2>8. Cardinality(T \cup {u}) = 2
    <3>1. IsFiniteSet(T) /\ Cardinality(T) = 1
      BY <2>6 DEF T
    <3>2. Cardinality(T \cup {u}) = Cardinality(T) + 1
      BY <2>7, <3>1, FS_AddElement
    <3>3. QED
      BY <3>1, <3>2
  <2>9. T \cup {u} \subseteq shown[p]
    BY <2>3, <2>4 DEF T
  <2>10. Cardinality(T \cup {u}) <= Cardinality(shown[p]) /\ Cardinality(shown[p]) \in Nat
    BY <2>5, <2>9, FS_Subset, FS_CardinalityType
  <2>11. QED
    BY <2>8, <2>10
<1>2. IInv => AlarmsExplained
  BY <1>1 DEF IInv
<1>3. QED
  BY Invariance, <1>2, PTL

\* clearAuthState forgets for good: the store never again holds a token of a
\* session that was signed out of while no tab was refreshing it.
THEOREM SignedOutStaysOut == Spec => []BrowserForgets
<1>1. IInv => BrowserForgets
  BY DEF IInv, LeftInv
<1>2. QED
  BY Invariance, <1>1, PTL

\* Every request that waits for a refresh has one that will settle it: when
\* refreshInFlight of its tab is over, it goes on or throws.
THEOREM WaitersHaveAFlight == Spec => []NobodyWaitsInVain
<1>1. IInv => NobodyWaitsInVain
  BY DEF IInv
<1>2. QED
  BY Invariance, <1>1, PTL

\* A session that the backend has ended keeps no good token, whatever refresh
\* of it is under way.
THEOREM EndedForGood == Spec => []EndedStaysEnded
<1>1. IInv => EndedStaysEnded
  BY DEF IInv
<1>2. QED
  BY Invariance, <1>1, PTL
=============================================================================

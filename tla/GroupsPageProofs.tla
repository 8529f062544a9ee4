-------------------------- MODULE GroupsPageProofs --------------------------
(***************************************************************************)
(* Proofs about GroupsPage for any groups, users and names, any number of  *)
(* requests under way at a time, and any number of changes.                *)
(***************************************************************************)
EXTENDS GroupsPage, FiniteSetTheorems, TLAPS

(***************************************************************************)
(* The inductive invariant, group by group.  What a request under way has  *)
(* been rendered with is still what the page shows, and what it has        *)
(* changed at the backend is all that the page does not know yet - unless  *)
(* the history variable says that this is in doubt.                        *)
(***************************************************************************)

\* Request i is under way, and about g.
About(i, g) == request[i] # None /\ request[i].group = g

\* It has been answered by the backend.
Back(i, g) == About(i, g) /\ request[i].at = "ok"

\* What a request holds depends on what it is for.
Formed(q) ==
    /\ q.name # None <=> q.kind \in {"create", "rename"}
    /\ q.user # None <=> q.kind \in {"create", "leader", "add", "remove"}
    /\ q.kind # "create" => q.item # None /\ group[q.group] # None
    /\ q.at = "ok" /\ q.kind = "create" => group[q.group] # None
    /\ q.at = "ok" /\ q.kind = "delete" => group[q.group] = Gone

FormInv(g) == \A i \in Slots : About(i, g) => Formed(request[i])

\* What is listed has been there.
ListedInv(g) == answer[g] # None \/ list[g] # None => group[g] # None

\* A doubt about the rows, or about the item, is one about the number.
DoubtInv(g) == doubt[g] \cap {"item", "rows"} # {} => "count" \in doubt[g]

\* A request that has lost its card, or is under way while the page loads, is
\* one of a group of which nothing is known, or of one that is not shown.
OrphanInv(g) == doubt[g] # AllDoubt => \A i \in Slots : About(i, g) =>
    /\ ~request[i].mine => page = "shown" /\ list[g] = None
    /\ page # "shown" => request[i].kind = "create" /\ request[i].mine

\* A card that is not shown is a fresh one, and no request is its own.
FreshInv(g) == ~Visible(g) =>
    /\ card[g] = FreshCard
    /\ \A i \in Slots : About(i, g) /\ request[i].mine => request[i].kind = "create"

\* ControlsComeBack
Waits(g, kinds, users) == \E i \in Slots :
    About(i, g) /\ request[i].mine /\ request[i].kind \in kinds /\ request[i].user \in users

ControlInv(g) ==
    /\ card[g].busy => Waits(g, {"rename", "leader", "delete"}, Users \cup {None})
    /\ card[g].loading => Waits(g, {"members"}, {None})
    /\ card[g].adding => Waits(g, {"add"}, Users)
    /\ \A u \in card[g].removing : Waits(g, {"remove"}, {u})

\* An addition or a removal under way keeps its control disabled, so that
\* there is no second one of its kind.
Mine(i, g, k) == About(i, g) /\ request[i].mine /\ request[i].kind = k

BusyInv(g) ==
    /\ \A i \in Slots : Mine(i, g, "add") => card[g].adding
    /\ \A i \in Slots : Mine(i, g, "remove") => request[i].user \in card[g].removing
    /\ \A i, j \in Slots : Mine(i, g, "add") /\ Mine(j, g, "add") => i = j
    /\ \A i, j \in Slots :
          Mine(i, g, "remove") /\ Mine(j, g, "remove") /\ request[i].user = request[j].user => i = j

\* Once loaded, the members stay loaded.
LoadedInv(g) == \A i \in Slots :
    /\ About(i, g) /\ request[i].mine
    /\ request[i].kind \in {"add", "remove"} \/ request[i].rows # None
    => card[g].rows # None

\* While the members load there are neither rows nor an error, and afterwards
\* not both - unless they have been loaded twice at a time.
ErrorInv(g) == "error" \notin doubt[g] =>
    /\ card[g].failed => card[g].rows = None
    /\ \A i \in Slots : Mine(i, g, "members") => card[g].rows = None /\ ~card[g].failed
    /\ \A i, j \in Slots :
          /\ About(i, g) /\ request[i].kind = "members"
          /\ About(j, g) /\ request[j].kind = "members"
          => i = j

\* The list of groups that is shown, or will be.
Coming(g) == IF page = "answered" THEN answer[g] ELSE list[g]

Known == page \in {"answered", "shown"}

\* A group that is not listed, or is so still, has the answer under way.
ListInv(g) == Known /\ "list" \notin doubt[g] =>
    /\ g \in Existing /\ Coming(g) = None =>
          \E i \in Slots : Back(i, g) /\ request[i].kind = "create"
    /\ g \notin Existing /\ Coming(g) # None =>
          \E i \in Slots : Back(i, g) /\ request[i].kind = "delete"

\* The one request that writes the item has been rendered with it, and is on
\* its way back when name or leader are not the group's.
OneInv(g) == "item" \notin doubt[g] =>
    /\ \A i, j \in Slots :
          /\ About(i, g) /\ request[i].kind \in OfItem
          /\ About(j, g) /\ request[j].kind \in OfItem
          => i = j
    /\ Visible(g) => \A i \in Slots :
          About(i, g) /\ request[i].kind \in OfItem => request[i].item = list[g]

Says(q, r) ==
    /\ q.kind = "rename" => q.name = r.name
    /\ q.kind = "leader" => q.user = r.leader

ItemInv(g) == "item" \notin doubt[g] /\ Known /\ Coming(g) # None /\ g \in Existing =>
    /\ \A i \in Slots : Back(i, g) => Says(request[i], group[g])
    /\ Coming(g).name # group[g].name =>
          \E i \in Slots : Back(i, g) /\ request[i].kind = "rename"
    /\ Coming(g).leader # group[g].leader =>
          \E i \in Slots : Back(i, g) /\ request[i].kind = "leader"

\* Requests that may write the rows at a time are about different users, and
\* see no row twice.
ShapeInv(g) == Visible(g) /\ "rows" \notin doubt[g] =>
    /\ card[g].rows # None => \A u \in Users : card[g].rows[u] \in {0, 1}
    /\ \A i \in Slots : About(i, g) =>
          /\ request[i].kind = "leader" => request[i].rows = card[g].rows
          /\ request[i].kind = "add" => card[g].rows[request[i].user] = 0
          /\ request[i].kind = "remove" => card[g].rows[request[i].user] = 1
    /\ \A i, j \in Slots :
          i # j /\ About(i, g) /\ About(j, g) => ~Clash(request[i].kind, request[j].kind)

\* The rows are the members whom the page has had the means to know of, but for
\* what the requests on their way back have changed, which is what their answers
\* say; and the answer to a load has all the members.
Told(q, S) ==
    /\ q.kind = "leader" /\ q.rows # None => NextRows(q) = RowsFor(S)
    /\ q.kind = "add" => q.user \in S
    /\ q.kind = "remove" => q.user \notin S

Open(g, u) == \E i \in Slots :
    /\ Back(i, g)
    /\ \/ request[i].kind = "leader"
       \/ request[i].kind \in {"add", "remove"} /\ request[i].user = u

TruthInv(g) == g \in Existing /\ Visible(g) /\ "rows" \notin doubt[g] =>
    /\ \A i \in Slots : Back(i, g) =>
          /\ Told(request[i], Seen(g))
          /\ request[i].kind = "members" => request[i].data = group[g].members
    /\ card[g].rows # None => \A u \in Users :
          ~Open(g, u) => (card[g].rows[u] = 1 <=> u \in Seen(g))

\* The number on the card is that of these members, but for the request that is
\* on its way back.
Due(q, n, k) ==
    /\ q.kind = "add" => n = k + 1
    /\ q.kind = "remove" => n = k - 1
    /\ q.kind = "leader" /\ q.rows = None => n = k

CountInv(g) == g \in Existing /\ "count" \notin doubt[g] /\ Known /\ Coming(g) # None =>
    /\ \A i \in Slots : Back(i, g) =>
          Due(request[i], Cardinality(Seen(g)), Coming(g).count)
    /\ Cardinality(Seen(g)) # Coming(g).count =>
          \E i \in Slots : Back(i, g) /\ request[i].kind \in {"leader", "add", "remove"}

SumInv(g) == Visible(g) /\ "count" \notin doubt[g] /\ card[g].rows # None =>
    list[g].count = Total(card[g].rows)

\* The page that loads will know of every member there is.
UnseenInv(g) == doubt[g] # AllDoubt /\ page # "shown" => unseen[g] = {}

\* What always holds, and what does so as long as it is not in doubt.
Firm(g) ==
    /\ FormInv(g) /\ ListedInv(g) /\ DoubtInv(g) /\ OrphanInv(g) /\ FreshInv(g)
    /\ ControlInv(g) /\ BusyInv(g) /\ LoadedInv(g)

Sure(g) ==
    /\ ErrorInv(g) /\ ListInv(g) /\ OneInv(g) /\ ItemInv(g)
    /\ ShapeInv(g) /\ TruthInv(g) /\ CountInv(g) /\ SumInv(g) /\ UnseenInv(g)

IInv == TypeOK /\ \A g \in Groups : Firm(g) /\ Sure(g)

(***************************************************************************)
(* A group that a step leaves alone.                                       *)
(***************************************************************************)

Untouched(h) ==
    /\ page' = page
    /\ group'[h] = group[h] /\ answer'[h] = answer[h] /\ list'[h] = list[h]
    /\ card'[h] = card[h] /\ doubt'[h] = doubt[h] /\ unseen'[h] = unseen[h]
    /\ \A i \in Slots : /\ About(i, h)' <=> About(i, h)
                        /\ About(i, h) => request'[i] = request[i]

\* What is known of a group stays so in a step that leaves it alone.
LEMMA Frame ==
  ASSUME NEW h \in Groups, Untouched(h), Firm(h), Sure(h)
  PROVE  Firm(h)' /\ Sure(h)'
<1>1. /\ page' = page /\ group'[h] = group[h] /\ answer'[h] = answer[h] /\ list'[h] = list[h]
      /\ card'[h] = card[h] /\ doubt'[h] = doubt[h] /\ unseen'[h] = unseen[h]
  BY DEF Untouched
<1>2. \A i \in Slots : /\ About(i, h)' <=> About(i, h)
                       /\ About(i, h) => request'[i] = request[i]
  BY DEF Untouched
<1>3. \A i \in Slots : Back(i, h)' <=> Back(i, h)
  BY <1>2 DEF Back
<1>4. \A i \in Slots : About(i, h) => (Formed(request[i])' <=> Formed(request[i]))
  BY <1>1, <1>2 DEF About, Formed
<1>5. (h \in Existing)' <=> h \in Existing
  BY <1>1 DEF Existing
<1>6. /\ Coming(h)' = Coming(h) /\ Known' = Known /\ Visible(h)' = Visible(h)
  BY <1>1 DEF Coming, Known, Visible
<1>7. \A kinds, users : Waits(h, kinds, users)' <=> Waits(h, kinds, users)
  BY <1>2 DEF Waits
<1>8. \A i \in Slots : \A k : Mine(i, h, k)' <=> Mine(i, h, k)
  BY <1>2 DEF Mine
<1>9. \A u : Open(h, u)' <=> Open(h, u)
  BY <1>2, <1>3 DEF Open, Back
<1>10. FormInv(h)' /\ ListedInv(h)' /\ DoubtInv(h)' /\ OrphanInv(h)' /\ FreshInv(h)'
  BY <1>1, <1>2, <1>4, <1>6
     DEF Firm, FormInv, ListedInv, DoubtInv, OrphanInv, FreshInv
<1>11. ControlInv(h)'
  BY <1>1, <1>7 DEF Firm, ControlInv
<1>12. BusyInv(h)' /\ LoadedInv(h)'
  BY <1>1, <1>2, <1>8 DEF Firm, BusyInv, LoadedInv, Mine
<1>13. ErrorInv(h)'
  BY <1>1, <1>2, <1>8 DEF Sure, ErrorInv
<1>14. ListInv(h)'
  BY <1>1, <1>2, <1>3, <1>5, <1>6 DEF Sure, ListInv, Back
<1>15. OneInv(h)'
  BY <1>1, <1>2, <1>6 DEF Sure, OneInv
<1>16. ItemInv(h)'
  BY <1>1, <1>2, <1>3, <1>5, <1>6 DEF Sure, ItemInv, Back
<1>17. ShapeInv(h)'
  BY <1>1, <1>2, <1>6 DEF Sure, ShapeInv
<1>18. Seen(h)' = Seen(h)
  BY <1>1 DEF Seen
<1>19. TruthInv(h)'
  BY <1>1, <1>2, <1>3, <1>5, <1>6, <1>9, <1>18 DEF Sure, TruthInv, Back
<1>20. CountInv(h)' /\ SumInv(h)' /\ UnseenInv(h)'
  BY <1>1, <1>2, <1>3, <1>5, <1>6, <1>18 DEF Sure, CountInv, SumInv, UnseenInv, Back
<1> QED
  BY <1>10, <1>11, <1>12, <1>13, <1>14, <1>15, <1>16, <1>17, <1>19, <1>20 DEF Firm, Sure

\* Of a group of which everything is in doubt nothing is claimed that could
\* fail to hold.
LEMMA Doubtful ==
  ASSUME NEW g, doubt'[g] = AllDoubt
  PROVE  Sure(g)'
BY DEF AllDoubt, Sure, ErrorInv, ListInv, OneInv, ItemInv, ShapeInv, TruthInv, CountInv, SumInv,
       UnseenInv

(***************************************************************************)
(* A request is sent.                                                      *)
(***************************************************************************)

\* The card when the request q has been sent from it.
After(q, c) ==
    CASE q.kind \in {"rename", "leader", "delete"} -> [c EXCEPT !.busy = TRUE]
      [] q.kind = "members" -> Opened(c)
      [] q.kind = "add" -> [c EXCEPT !.adding = TRUE]
      [] q.kind = "remove" -> [c EXCEPT !.removing = @ \cup {q.user}]
      [] q.kind = "create" -> c

\* What the handlers have looked at before they send q from the card of g, and
\* what comes into doubt beyond what the requests under way bring.
Ready(q, g, more) ==
    /\ q.kind # "create" => Visible(g)
    /\ q.kind = "create" => list[g] = None
    /\ q.kind = "members" => card[g].rows = None
    /\ q.kind = "add" => /\ ~card[g].adding /\ card[g].rows # None
                         /\ card[g].rows[q.user] > 0 => more = {"count", "rows"}
    /\ q.kind = "remove" => /\ card[g].rows # None /\ card[g].rows[q.user] > 0
                            /\ q.user \notin card[g].removing
    /\ more \in {{}, {"count", "rows"}}

Sent(i, q, g, more) ==
    /\ request[i] = None /\ request' = [request EXCEPT ![i] = q]
    /\ q \in Requests /\ q.group = g /\ q.at = "sent" /\ q.mine /\ Formed(q)
    /\ q.item = list[g] /\ q.rows = IF q.kind = "leader" THEN card[g].rows ELSE None
    /\ Ready(q, g, more)
    /\ card' = [card EXCEPT ![g] = After(q, card[g])]
    /\ doubt' = [doubt EXCEPT ![g] = doubt[g] \cup Doubts(g, q.kind) \cup more]
    /\ UNCHANGED <<group, changes, page, answer, list, unseen>>

\* The kinds of requests, and how their answers find the flags they wait for.
LEMMA AfterCard ==
  ASSUME NEW c \in Cards, NEW q \in Requests, Formed(q)
  PROVE  LET d == After(q, c) IN
         /\ d \in Cards /\ d.rows = c.rows
         /\ d.failed = (c.failed /\ q.kind # "members")
         /\ d.busy = (c.busy \/ q.kind \in {"rename", "leader", "delete"})
         /\ d.loading = (c.loading \/ q.kind = "members")
         /\ d.adding = (c.adding \/ q.kind = "add")
         /\ d.removing = c.removing \cup (IF q.kind = "remove" THEN {q.user} ELSE {})
         /\ q.kind = "create" => d = c
<1>1. CASE q.kind \in {"rename", "leader", "delete"}
  <2>1. After(q, c) = [c EXCEPT !.busy = TRUE]
    BY <1>1 DEF After
  <2> QED
    BY <1>1, <2>1 DEF Cards
<1>2. CASE q.kind = "members"
  <2>1. After(q, c) = [c EXCEPT !.open = TRUE, !.loading = TRUE, !.failed = FALSE]
    BY <1>2 DEF After, Opened
  <2> QED
    BY <1>2, <2>1 DEF Cards
<1>3. CASE q.kind = "add"
  <2>1. After(q, c) = [c EXCEPT !.adding = TRUE]
    BY <1>3 DEF After
  <2> QED
    BY <1>3, <2>1 DEF Cards
<1>4. CASE q.kind = "remove"
  <2>1. After(q, c) = [c EXCEPT !.removing = c.removing \cup {q.user}]
    BY <1>4 DEF After, Cards
  <2>2. q.user \in Users
    BY <1>4 DEF Formed, Requests
  <2> QED
    BY <1>4, <2>1, <2>2 DEF Cards
<1>5. CASE q.kind = "create"
  <2>1. After(q, c) = c
    BY <1>5 DEF After
  <2> QED
    BY <1>5, <2>1 DEF Cards
<1> QED
  BY <1>1, <1>2, <1>3, <1>4, <1>5 DEF Requests

\* The groups that a request is not about.
LEMMA SentElsewhere ==
  ASSUME TypeOK, NEW i \in Slots, NEW g \in Groups, NEW q, NEW more, Sent(i, q, g, more),
         NEW h \in Groups \ {g}
  PROVE  Untouched(h)
<1>1. /\ request[i] = None /\ request' = [request EXCEPT ![i] = q] /\ q.group = g
      /\ UNCHANGED <<group, changes, page, answer, list, unseen>>
      /\ card' = [card EXCEPT ![g] = After(q, card[g])]
      /\ doubt' = [doubt EXCEPT ![g] = doubt[g] \cup Doubts(g, q.kind) \cup more]
  BY DEF Sent
<1>2. /\ request \in [Slots -> Requests \cup {None}] /\ doubt \in [Groups -> SUBSET AllDoubt]
      /\ card \in [Groups -> Cards]
  BY DEF TypeOK
<1>3. card'[h] = card[h] /\ doubt'[h] = doubt[h]
  BY <1>1, <1>2
<1>4. \A j \in Slots \ {i} : request'[j] = request[j]
  BY <1>1, <1>2
<1>5. ~About(i, h) /\ ~About(i, h)'
  BY <1>1, <1>2 DEF About
<1>6. \A j \in Slots : /\ About(j, h)' <=> About(j, h)
                       /\ About(j, h) => request'[j] = request[j]
  BY <1>4, <1>5 DEF About
<1> QED
  BY <1>1, <1>3, <1>6 DEF Untouched

\* A request that is sent disturbs nothing that is known of its group.
LEMMA SentKeeps ==
  ASSUME TypeOK, NEW i \in Slots, NEW g \in Groups, NEW q, NEW more, Sent(i, q, g, more),
         Firm(g), Sure(g)
  PROVE  TypeOK' /\ Firm(g)' /\ Sure(g)'
<1> DEFINE c == card[g]
           d == After(q, c)
<1>1. /\ request[i] = None /\ request' = [request EXCEPT ![i] = q] /\ Formed(q)
      /\ q \in Requests /\ q.group = g /\ q.at = "sent" /\ q.mine /\ Ready(q, g, more)
      /\ q.item = list[g] /\ q.rows = IF q.kind = "leader" THEN c.rows ELSE None
      /\ UNCHANGED <<group, changes, page, answer, list, unseen>>
      /\ card' = [card EXCEPT ![g] = d]
      /\ doubt' = [doubt EXCEPT ![g] = doubt[g] \cup Doubts(g, q.kind) \cup more]
  BY DEF Sent
<1>2. /\ request \in [Slots -> Requests \cup {None}] /\ doubt \in [Groups -> SUBSET AllDoubt]
      /\ card \in [Groups -> Cards] /\ c \in Cards
  BY DEF TypeOK
<1>3. /\ d \in Cards /\ d.rows = c.rows
      /\ d.failed = (c.failed /\ q.kind # "members")
      /\ d.busy = (c.busy \/ q.kind \in {"rename", "leader", "delete"})
      /\ d.loading = (c.loading \/ q.kind = "members")
      /\ d.adding = (c.adding \/ q.kind = "add")
      /\ d.removing = c.removing \cup (IF q.kind = "remove" THEN {q.user} ELSE {})
      /\ q.kind = "create" => d = c
  BY <1>1, <1>2, AfterCard
<1>4. more \in {{}, {"count", "rows"}} /\ Doubts(g, q.kind) \subseteq AllDoubt
  BY <1>1 DEF Ready, Doubts, AllDoubt
<1>5. /\ doubt' \in [Groups -> SUBSET AllDoubt]
      /\ doubt'[g] = doubt[g] \cup Doubts(g, q.kind) \cup more
  BY <1>1, <1>2, <1>4 DEF AllDoubt
<1>6. card'[g] = d /\ card' \in [Groups -> Cards]
  BY <1>1, <1>2, <1>3
<1>7. request' \in [Slots -> Requests \cup {None}]
  BY <1>1, <1>2
<1>8. TypeOK'
  BY <1>1, <1>5, <1>6, <1>7 DEF TypeOK
<1>9. q # None /\ request'[i] = q /\ About(i, g)' /\ ~About(i, g) /\ ~Back(i, g)'
  BY <1>1, <1>2, GroupsPageAssumption DEF About, Back
<1>10. \A j \in Slots \ {i} : /\ request'[j] = request[j]
                              /\ About(j, g)' <=> About(j, g)
  BY <1>1, <1>2 DEF About
<1>11. \A j \in Slots : Back(j, g)' <=> Back(j, g)
  BY <1>9, <1>10 DEF Back
<1>12. \A p : Formed(p)' <=> Formed(p)
  BY <1>1 DEF Formed
<1>13. /\ (g \in Existing)' <=> g \in Existing
       /\ Coming(g)' = Coming(g) /\ Known' = Known /\ Visible(g)' = Visible(g)
  BY <1>1 DEF Existing, Coming, Known, Visible
<1>14. \A kinds, users : Waits(g, kinds, users) => Waits(g, kinds, users)'
  BY <1>9, <1>10 DEF Waits
<1>15. \A kinds, users : q.kind \in kinds /\ q.user \in users => Waits(g, kinds, users)'
  BY <1>1, <1>9 DEF Waits
<1>16. \A u : Open(g, u)' <=> Open(g, u)
  BY <1>9, <1>10, <1>11 DEF Open
<1> HIDE DEF d
<1>20. FormInv(g)' /\ ListedInv(g)'
  BY <1>1, <1>9, <1>10, <1>12 DEF Firm, FormInv, ListedInv
<1>21. DoubtInv(g)'
  BY <1>4, <1>5 DEF Firm, DoubtInv, Doubts, Clash, OfItem
<1>22. OrphanInv(g)'
  BY <1>1, <1>2, <1>5, <1>9, <1>10 DEF Firm, OrphanInv, Ready, Visible
<1>23. FreshInv(g)'
  BY <1>1, <1>3, <1>6, <1>9, <1>10, <1>13 DEF Firm, FreshInv, Ready
<1>24. ControlInv(g)'
  BY <1>1, <1>3, <1>6, <1>14, <1>15 DEF Firm, ControlInv, Formed, Requests
<1>25. BusyInv(g)'
  <2>1. \A j \in Slots \ {i} : \A k : Mine(j, g, k)' <=> Mine(j, g, k)
    BY <1>9, <1>10 DEF Mine
  <2>2. \A k : Mine(i, g, k)' <=> q.kind = k
    BY <1>1, <1>9 DEF Mine
  <2>3. /\ q.kind = "add" => \A j \in Slots : ~Mine(j, g, "add")
        /\ q.kind = "remove" =>
              \A j \in Slots : Mine(j, g, "remove") => request[j].user # q.user
    BY <1>1 DEF Firm, BusyInv, Ready
  <2>4. \A j \in Slots : Mine(j, g, "add")' => d.adding
    BY <1>3, <2>1, <2>2 DEF Firm, BusyInv
  <2>5. \A j \in Slots : Mine(j, g, "remove")' => request'[j].user \in d.removing
    BY <1>3, <1>9, <1>10, <2>1, <2>2 DEF Firm, BusyInv
  <2>6. \A j, k \in Slots : Mine(j, g, "add")' /\ Mine(k, g, "add")' => j = k
    BY <2>1, <2>2, <2>3 DEF Firm, BusyInv
  <2>7. \A j, k \in Slots : Mine(j, g, "remove")' /\ Mine(k, g, "remove")'
                               /\ request'[j].user = request'[k].user => j = k
    BY <1>9, <1>10, <2>1, <2>2, <2>3 DEF Firm, BusyInv
  <2> QED
    BY <1>6, <2>4, <2>5, <2>6, <2>7 DEF BusyInv
<1>26. LoadedInv(g)'
  BY <1>1, <1>3, <1>6, <1>9, <1>10 DEF Firm, LoadedInv, Ready
<1>30. ErrorInv(g)'
  <2> SUFFICES ASSUME "error" \notin doubt'[g]
               PROVE  /\ d.failed => d.rows = None
                      /\ \A j \in Slots : Mine(j, g, "members")' => d.rows = None /\ ~d.failed
                      /\ \A j, k \in Slots :
                            /\ About(j, g)' /\ request'[j].kind = "members"
                            /\ About(k, g)' /\ request'[k].kind = "members"
                            => j = k
    BY <1>6 DEF ErrorInv
  <2>1. "error" \notin doubt[g] /\ "error" \notin Doubts(g, q.kind)
    BY <1>5
  <2>2. q.kind = "members" =>
          /\ \A j \in Slots : About(j, g) => request[j].kind # "members"
          /\ c.rows = None
    BY <1>1, <2>1 DEF Doubts, Kinds, About, Ready
  <2>3. \A j \in Slots \ {i} : Mine(j, g, "members")' <=> Mine(j, g, "members")
    BY <1>9, <1>10 DEF Mine
  <2>4. d.failed => d.rows = None
    BY <1>3, <2>1 DEF Sure, ErrorInv
  <2>5. \A j \in Slots : Mine(j, g, "members")' => d.rows = None /\ ~d.failed
    BY <1>3, <1>9, <2>1, <2>2, <2>3 DEF Sure, ErrorInv, Mine
  <2>6. \A j, k \in Slots :
          /\ About(j, g)' /\ request'[j].kind = "members"
          /\ About(k, g)' /\ request'[k].kind = "members"
          => j = k
    BY <1>9, <1>10, <2>1, <2>2 DEF Sure, ErrorInv
  <2> QED
    BY <2>4, <2>5, <2>6
<1>31. ListInv(g)'
  BY <1>1, <1>5, <1>9, <1>10, <1>11, <1>13 DEF Sure, ListInv
<1>32. OneInv(g)'
  BY <1>1, <1>5, <1>9, <1>10, <1>13 DEF Sure, OneInv, Ready, Doubts, Kinds, About
<1>33. ItemInv(g)'
  BY <1>1, <1>5, <1>9, <1>10, <1>11, <1>13 DEF Sure, ItemInv
<1>34. ShapeInv(g)'
  <2> SUFFICES ASSUME Visible(g), "rows" \notin doubt'[g]
               PROVE  /\ d.rows # None => \A u \in Users : d.rows[u] \in {0, 1}
                      /\ \A j \in Slots : About(j, g)' =>
                            /\ request'[j].kind = "leader" => request'[j].rows = d.rows
                            /\ request'[j].kind = "add" => d.rows[request'[j].user] = 0
                            /\ request'[j].kind = "remove" => d.rows[request'[j].user] = 1
                      /\ \A j, k \in Slots : j # k /\ About(j, g)' /\ About(k, g)' =>
                            ~Clash(request'[j].kind, request'[k].kind)
    BY <1>6, <1>13 DEF ShapeInv
  <2>1. "rows" \notin doubt[g] /\ "rows" \notin Doubts(g, q.kind) /\ more = {}
    BY <1>4, <1>5
  <2>2. c.rows # None => \A u \in Users : c.rows[u] \in {0, 1}
    BY <2>1 DEF Sure, ShapeInv
  <2>3. \A j \in Slots : About(j, g) => /\ ~Clash(request[j].kind, q.kind)
                                        /\ ~Clash(q.kind, request[j].kind)
    BY <2>1 DEF Doubts, Kinds, About, Clash
  <2>4. q.kind \in {"add", "remove"} => q.user \in Users /\ c.rows # None
    BY <1>1 DEF Formed, Requests, Ready
  <2>5. c.rows # None => c.rows \in [Users -> Nat]
    BY <1>2 DEF Cards, MemberRows
  <2>6. /\ q.kind = "add" => c.rows[q.user] = 0
        /\ q.kind = "remove" => c.rows[q.user] = 1
    BY <1>1, <2>1, <2>2, <2>4, <2>5 DEF Ready
  <2>7. \A j \in Slots \ {i} : About(j, g) =>
          /\ request[j].kind = "leader" => request[j].rows = c.rows
          /\ request[j].kind = "add" => c.rows[request[j].user] = 0
          /\ request[j].kind = "remove" => c.rows[request[j].user] = 1
    BY <2>1 DEF Sure, ShapeInv
  <2>8. \A j \in Slots : About(j, g)' =>
          /\ request'[j].kind = "leader" => request'[j].rows = d.rows
          /\ request'[j].kind = "add" => d.rows[request'[j].user] = 0
          /\ request'[j].kind = "remove" => d.rows[request'[j].user] = 1
    BY <1>1, <1>3, <1>9, <1>10, <2>6, <2>7
  <2>9. \A j, k \in Slots : j # k /\ About(j, g)' /\ About(k, g)' =>
          ~Clash(request'[j].kind, request'[k].kind)
    BY <1>9, <1>10, <2>1, <2>3 DEF Sure, ShapeInv
  <2> QED
    BY <1>3, <2>2, <2>8, <2>9
<1>35. Seen(g)' = Seen(g)
  BY <1>1 DEF Seen
<1>36. TruthInv(g)'
  BY <1>1, <1>3, <1>5, <1>6, <1>9, <1>10, <1>11, <1>13, <1>16, <1>35 DEF Sure, TruthInv
<1>37. CountInv(g)' /\ SumInv(g)'
  BY <1>1, <1>3, <1>5, <1>6, <1>9, <1>10, <1>11, <1>13, <1>35 DEF Sure, CountInv, SumInv
<1>38. UnseenInv(g)'
  BY <1>1, <1>2, <1>5 DEF Sure, UnseenInv
<1> QED
  BY <1>8, <1>20, <1>21, <1>22, <1>23, <1>24, <1>25, <1>26, <1>30, <1>31, <1>32, <1>33,
     <1>34, <1>36, <1>37, <1>38 DEF Firm, Sure

\* A request that is sent keeps the invariant, for its group and the others.
LEMMA SendingKeeps ==
  ASSUME IInv, NEW i \in Slots, NEW g \in Groups, NEW q, NEW more, Sent(i, q, g, more)
  PROVE  IInv'
<1>1. TypeOK' /\ Firm(g)' /\ Sure(g)'
  BY SentKeeps DEF IInv
<1>2. \A h \in Groups \ {g} : Firm(h)' /\ Sure(h)'
  BY SentElsewhere, Frame DEF IInv
<1> QED
  BY <1>1, <1>2 DEF IInv

\* The request that a handler sends.
Asked(k, g, x, u) ==
    [kind |-> k, group |-> g, name |-> x, user |-> u, at |-> "sent",
     item |-> list[g], rows |-> IF k = "leader" THEN card[g].rows ELSE None,
     mine |-> TRUE, data |-> {}]

\* The same of a Send whose request is one that a handler makes.
LEMMA SendSent ==
  ASSUME IInv, NEW g \in Groups, NEW k, NEW x, NEW u, NEW more, Send(k, g, x, u, more),
         k \in {"create", "rename", "leader", "delete", "members", "add", "remove"},
         x \in Names \cup {None}, u \in Users \cup {None},
         Formed(Asked(k, g, x, u)), Ready(Asked(k, g, x, u), g, more),
         card' = [card EXCEPT ![g] = After(Asked(k, g, x, u), card[g])]
  PROVE  IInv'
<1> DEFINE q == Asked(k, g, x, u)
<1>1. PICK i \in Slots : request[i] = None /\ request' = [request EXCEPT ![i] = q]
  BY DEF Send, Asked
<1>2. /\ doubt \in [Groups -> SUBSET AllDoubt] /\ list[g] \in Items \cup {None}
      /\ card[g] \in Cards
  BY DEF IInv, TypeOK, Lists
<1>3. card[g].rows \in MemberRows \cup {None}
  BY <1>2 DEF Cards
<1>4. q \in Requests
  BY <1>2, <1>3 DEF Requests, Asked
<1>5. /\ q.group = g /\ q.at = "sent" /\ q.mine /\ q.item = list[g] /\ q.kind = k
      /\ q.rows = IF q.kind = "leader" THEN card[g].rows ELSE None
  BY DEF Asked
<1>6. /\ doubt' = [doubt EXCEPT ![g] = doubt[g] \cup Doubts(g, q.kind) \cup more]
      /\ UNCHANGED <<group, changes, page, answer, list, unseen>>
  BY <1>2, <1>5 DEF Send, backendVars, pageVars, pastVars
<1>7. Sent(i, q, g, more)
  BY <1>1, <1>4, <1>5, <1>6 DEF Sent
<1> QED
  BY <1>7, SendingKeeps

\* Where a card is shown, its group has been there.
LEMMA ShownItem ==
  ASSUME IInv, NEW g \in Groups, Visible(g)
  PROVE  /\ list[g] \in Items /\ list[g] # None /\ group[g] # None
         /\ card[g] \in Cards
BY DEF IInv, Firm, ListedInv, Visible, TypeOK, Lists

\* The dialog for a new group, and the header of a card.
LEMMA CreateKeeps ==
  ASSUME IInv, NEW g \in Groups, NEW x \in Names, NEW u \in Users, Create(g, x, u)
  PROVE  IInv'
<1> DEFINE q == Asked("create", g, x, u)
<1>1. list[g] = None /\ Send("create", g, x, u, {}) /\ card' = card
  BY DEF Create
<1>2. Formed(q) /\ Ready(q, g, {})
  BY <1>1, GroupsPageAssumption DEF Formed, Ready, Asked
<1>3. card' = [card EXCEPT ![g] = After(q, card[g])]
  BY <1>1 DEF After, Asked, IInv, TypeOK
<1> QED
  BY <1>1, <1>2, <1>3, SendSent

\* handleRename, up to its await.
LEMMA RenameKeeps ==
  ASSUME IInv, NEW g \in Groups, NEW x \in Names, Rename(g, x)
  PROVE  IInv'
<1> DEFINE q == Asked("rename", g, x, None)
<1>1. Visible(g) /\ Send("rename", g, x, None, {}) /\ card' = [card EXCEPT ![g].busy = TRUE]
  BY DEF Rename
<1>2. list[g] # None /\ group[g] # None
  BY <1>1, ShownItem
<1>3. Formed(q) /\ Ready(q, g, {})
  BY <1>1, <1>2, GroupsPageAssumption DEF Formed, Ready, Asked
<1>4. card' = [card EXCEPT ![g] = After(q, card[g])]
  BY <1>1 DEF After, Asked
<1> QED
  BY <1>1, <1>3, <1>4, SendSent

\* handleChangeLeader, up to its await.
LEMMA ChangeLeaderKeeps ==
  ASSUME IInv, NEW g \in Groups, NEW u \in Users, ChangeLeader(g, u)
  PROVE  IInv'
<1> DEFINE q == Asked("leader", g, None, u)
<1>1. Visible(g) /\ Send("leader", g, None, u, {}) /\ card' = [card EXCEPT ![g].busy = TRUE]
  BY DEF ChangeLeader
<1>2. list[g] # None /\ group[g] # None
  BY <1>1, ShownItem
<1>3. Formed(q) /\ Ready(q, g, {})
  BY <1>1, <1>2, GroupsPageAssumption DEF Formed, Ready, Asked
<1>4. card' = [card EXCEPT ![g] = After(q, card[g])]
  BY <1>1 DEF After, Asked
<1> QED
  BY <1>1, <1>3, <1>4, SendSent

\* handleDelete, up to its await.
LEMMA DeleteKeeps ==
  ASSUME IInv, NEW g \in Groups, Delete(g)
  PROVE  IInv'
<1> DEFINE q == Asked("delete", g, None, None)
<1>1. Visible(g) /\ Send("delete", g, None, None, {}) /\ card' = [card EXCEPT ![g].busy = TRUE]
  BY DEF Delete
<1>2. list[g] # None /\ group[g] # None
  BY <1>1, ShownItem
<1>3. Formed(q) /\ Ready(q, g, {})
  BY <1>1, <1>2, GroupsPageAssumption DEF Formed, Ready, Asked
<1>4. card' = [card EXCEPT ![g] = After(q, card[g])]
  BY <1>1 DEF After, Asked
<1> QED
  BY <1>1, <1>3, <1>4, SendSent

\* The list of members.
LEMMA AddKeeps ==
  ASSUME IInv, NEW g \in Groups, Add(g)
  PROVE  IInv'
<1> DEFINE u == card[g].chosen
           more == IF card[g].rows[u] > 0 THEN {"count", "rows"} ELSE {}
           q == Asked("add", g, None, u)
<1>1. /\ Visible(g) /\ card[g].rows # None /\ ~card[g].adding /\ u # None
      /\ Send("add", g, None, u, more) /\ card' = [card EXCEPT ![g].adding = TRUE]
  BY DEF Add, MembersShown
<1>2. list[g] # None /\ group[g] # None /\ u \in Users
  BY <1>1, ShownItem DEF Cards
<1>3. Formed(q) /\ Ready(q, g, more)
  BY <1>1, <1>2, GroupsPageAssumption DEF Formed, Ready, Asked
<1>4. card' = [card EXCEPT ![g] = After(q, card[g])]
  BY <1>1 DEF After, Asked
<1> HIDE DEF more
<1> QED
  BY <1>1, <1>2, <1>3, <1>4, SendSent

\* handleRemoveMember, up to its await.
LEMMA RemoveKeeps ==
  ASSUME IInv, NEW g \in Groups, NEW u \in Users, Remove(g, u)
  PROVE  IInv'
<1> DEFINE q == Asked("remove", g, None, u)
<1>1. /\ Visible(g) /\ card[g].rows # None /\ card[g].rows[u] > 0 /\ u \notin card[g].removing
      /\ Send("remove", g, None, u, {})
      /\ card' = [card EXCEPT ![g].removing = @ \cup {u}]
  BY DEF Remove, MembersShown
<1>2. list[g] # None /\ group[g] # None
  BY <1>1, ShownItem
<1>3. Formed(q) /\ Ready(q, g, {})
  BY <1>1, <1>2, GroupsPageAssumption DEF Formed, Ready, Asked
<1>4. card' = [card EXCEPT ![g] = After(q, card[g])]
  BY <1>1 DEF After, Asked
<1> QED
  BY <1>1, <1>3, <1>4, SendSent

\* What the user does to a card without the backend: the list of members is
\* opened or closed, or a user chosen from it.
LEMMA CardOnlyKeeps ==
  ASSUME IInv, NEW g \in Groups, NEW c \in Cards, Visible(g),
         card' = [card EXCEPT ![g] = c],
         c.rows = card[g].rows, c.failed = card[g].failed, c.busy = card[g].busy,
         c.loading = card[g].loading, c.adding = card[g].adding, c.removing = card[g].removing,
         UNCHANGED <<group, changes, page, answer, list, request, doubt, unseen>>
  PROVE  IInv'
<1>1. card \in [Groups -> Cards] /\ card' \in [Groups -> Cards] /\ card'[g] = c
  BY DEF IInv, TypeOK
<1>2. TypeOK'
  BY <1>1 DEF IInv, TypeOK
<1>3. \A h \in Groups \ {g} : Untouched(h)
  BY <1>1 DEF Untouched, About
<1>4. \A h \in Groups \ {g} : Firm(h)' /\ Sure(h)'
  BY <1>3, Frame DEF IInv
<1>5. Firm(g) /\ Sure(g)
  BY DEF IInv
<1>6. FormInv(g)' /\ ListedInv(g)' /\ DoubtInv(g)' /\ OrphanInv(g)' /\ FreshInv(g)'
  BY <1>5 DEF Firm, FormInv, Formed, ListedInv, DoubtInv, OrphanInv, FreshInv, About, Visible
<1>7. ControlInv(g)' /\ BusyInv(g)' /\ LoadedInv(g)'
  BY <1>1, <1>5 DEF Firm, ControlInv, BusyInv, LoadedInv, About, Waits, Mine
<1>8. ErrorInv(g)' /\ ListInv(g)' /\ OneInv(g)' /\ ItemInv(g)'
  BY <1>1, <1>5 DEF Sure, ErrorInv, ListInv, OneInv, ItemInv, About, Mine, Back, Known, Coming,
                    Existing, Visible
<1>9. ShapeInv(g)' /\ TruthInv(g)' /\ CountInv(g)' /\ SumInv(g)' /\ UnseenInv(g)'
  BY <1>1, <1>5 DEF Sure, ShapeInv, TruthInv, CountInv, SumInv, UnseenInv, About, Back, Known,
                    Coming, Existing, Visible, Open, Seen
<1> QED
  BY <1>2, <1>4, <1>6, <1>7, <1>8, <1>9 DEF IInv, Firm, Sure

\* handleToggleMembers, which loads the members when they are not there.
LEMMA OpenMembersKeeps ==
  ASSUME IInv, NEW g \in Groups, OpenMembers(g)
  PROVE  IInv'
<1>1. CASE card[g].rows # None
  <2> DEFINE c == [card[g] EXCEPT !.open = TRUE]
  <2>1. /\ Visible(g) /\ card' = [card EXCEPT ![g] = c]
        /\ UNCHANGED <<group, changes, page, answer, list, request, doubt, unseen>>
    BY <1>1 DEF OpenMembers, backendVars, pageVars, pastVars
  <2>2. card[g] \in Cards
    BY <2>1, ShownItem
  <2>3. /\ c \in Cards
        /\ c.rows = card[g].rows /\ c.failed = card[g].failed /\ c.busy = card[g].busy
        /\ c.loading = card[g].loading /\ c.adding = card[g].adding
        /\ c.removing = card[g].removing
    BY <2>2 DEF Cards
  <2> QED
    BY <2>1, <2>3, CardOnlyKeeps
<1>2. CASE card[g].rows = None
  <2> DEFINE q == Asked("members", g, None, None)
  <2>1. /\ Visible(g) /\ Send("members", g, None, None, {})
        /\ card' = [card EXCEPT ![g] = Opened(@)]
    BY <1>2 DEF OpenMembers
  <2>2. list[g] # None /\ group[g] # None
    BY <2>1, ShownItem
  <2>3. Formed(q) /\ Ready(q, g, {})
    BY <1>2, <2>1, <2>2, GroupsPageAssumption DEF Formed, Ready, Asked
  <2>4. card' = [card EXCEPT ![g] = After(q, card[g])]
    BY <2>1 DEF After, Asked
  <2> QED
    BY <2>1, <2>3, <2>4, SendSent
<1> QED
  BY <1>1, <1>2

\* handleToggleMembers of a list that is open.
LEMMA CloseMembersKeeps ==
  ASSUME IInv, NEW g \in Groups, CloseMembers(g)
  PROVE  IInv'
<1> DEFINE c == [card[g] EXCEPT !.open = FALSE]
<1>1. /\ Visible(g) /\ card' = [card EXCEPT ![g] = c]
      /\ UNCHANGED <<group, changes, page, answer, list, request, doubt, unseen>>
  BY DEF CloseMembers, backendVars, pageVars, pastVars
<1>2. card[g] \in Cards
  BY <1>1, ShownItem
<1>3. /\ c \in Cards
      /\ c.rows = card[g].rows /\ c.failed = card[g].failed /\ c.busy = card[g].busy
      /\ c.loading = card[g].loading /\ c.adding = card[g].adding
      /\ c.removing = card[g].removing
  BY <1>2 DEF Cards
<1> QED
  BY <1>1, <1>3, CardOnlyKeeps

\* The select of the list of members.
LEMMA ChooseKeeps ==
  ASSUME IInv, NEW g \in Groups, NEW u \in Users \cup {None}, Choose(g, u)
  PROVE  IInv'
<1> DEFINE c == [card[g] EXCEPT !.chosen = u]
<1>1. /\ Visible(g) /\ card' = [card EXCEPT ![g] = c]
      /\ UNCHANGED <<group, changes, page, answer, list, request, doubt, unseen>>
  BY DEF Choose, MembersShown, backendVars, pageVars, pastVars
<1>2. card[g] \in Cards
  BY <1>1, ShownItem
<1>3. /\ c \in Cards
      /\ c.rows = card[g].rows /\ c.failed = card[g].failed /\ c.busy = card[g].busy
      /\ c.loading = card[g].loading /\ c.adding = card[g].adding
      /\ c.removing = card[g].removing
  BY <1>2 DEF Cards
<1> QED
  BY <1>1, <1>3, CardOnlyKeeps

(***************************************************************************)
(* The page loads.                                                         *)
(***************************************************************************)

\* ListGroups answers with the groups there are, and with what they are.
LEMMA ListedIsTrue ==
  ASSUME TypeOK, NEW g \in Groups
  PROVE  /\ Listed[g] \in Items \cup {None}
         /\ Listed[g] # None <=> g \in Existing
         /\ g \in Existing => /\ group[g] \in GroupRows /\ Listed[g] = Item(group[g])
                              /\ Cardinality(group[g].members) \in Nat
<1>1. CASE g \in Existing
  <2>1. group[g] \in GroupRows
    BY <1>1 DEF TypeOK, Existing
  <2>2. IsFiniteSet(group[g].members)
    BY <2>1, FS_Subset, GroupsPageAssumption DEF GroupRows
  <2>3. Cardinality(group[g].members) \in Nat
    BY <2>2, FS_CardinalityType
  <2>4. Listed[g] = Item(group[g])
    BY <1>1 DEF Listed
  <2>5. Item(group[g]) \in Items
    BY <2>1, <2>3 DEF Item, Items, GroupRows
  <2>6. Item(group[g]) # None
    BY <2>5, GroupsPageAssumption
  <2> QED
    BY <1>1, <2>1, <2>3, <2>4, <2>5, <2>6
<1>2. CASE g \notin Existing
  BY <1>2 DEF Listed
<1> QED
  BY <1>1, <1>2

\* The answer to a load that is awaited is what there is.
LEMMA ServePageKeeps == ASSUME IInv, ServePage PROVE IInv'
<1>1. /\ page = "asked" /\ page' = "answered" /\ answer' = Listed
      /\ UNCHANGED <<group, changes, list, card, request, doubt, unseen>>
  BY DEF ServePage, backendVars, pastVars
<1>2. TypeOK
  BY DEF IInv
<1>3. \A g \in Groups : Listed[g] \in Items \cup {None}
  BY <1>2, ListedIsTrue
<1>4. Listed \in Lists
  BY <1>3 DEF Listed, Lists
<1>5. TypeOK'
  BY <1>1, <1>2, <1>4 DEF TypeOK
<1>6. ASSUME NEW g \in Groups
      PROVE  Firm(g)' /\ Sure(g)'
  <2>1. Firm(g) /\ Sure(g)
    BY DEF IInv
  <2>2. /\ Listed[g] # None <=> g \in Existing
        /\ g \in Existing => /\ group[g] \in GroupRows /\ Listed[g] = Item(group[g])
                             /\ Cardinality(group[g].members) \in Nat
    BY <1>2, ListedIsTrue
  <2>3. ~Visible(g) /\ ~Visible(g)' /\ Coming(g)' = Listed[g]
    BY <1>1 DEF Visible, Coming
  <2>4. (g \in Existing)' <=> g \in Existing
    BY <1>1 DEF Existing
  <2>5. FormInv(g)' /\ DoubtInv(g)' /\ OrphanInv(g)' /\ FreshInv(g)'
    BY <1>1, <2>1, <2>3 DEF Firm, FormInv, Formed, DoubtInv, OrphanInv, FreshInv, About
  <2>6. ListedInv(g)'
    BY <1>1, <2>1, <2>2 DEF Firm, ListedInv, Existing
  <2>7. ControlInv(g)' /\ BusyInv(g)' /\ LoadedInv(g)'
    BY <1>1, <2>1 DEF Firm, ControlInv, BusyInv, LoadedInv, About, Waits, Mine
  <2>8. ErrorInv(g)' /\ OneInv(g)'
    BY <1>1, <2>1, <2>3 DEF Sure, ErrorInv, OneInv, About, Mine
  <2>9. ListInv(g)'
    BY <2>2, <2>3, <2>4 DEF ListInv
  <2>10. ItemInv(g)'
    <3> SUFFICES ASSUME g \in Existing, "item" \notin doubt[g]
                 PROVE  /\ Listed[g].name = group[g].name /\ Listed[g].leader = group[g].leader
                        /\ \A i \in Slots : About(i, g) => request[i].kind = "create"
      BY <1>1, <2>2, <2>3, <2>4 DEF ItemInv, Back, About, Says
    <3> QED
      BY <1>1, <2>1, <2>2 DEF Firm, OrphanInv, Item, AllDoubt
  <2>11. ShapeInv(g)' /\ TruthInv(g)' /\ SumInv(g)'
    BY <2>3 DEF ShapeInv, TruthInv, SumInv
  <2>12. Seen(g)' = Seen(g)
    BY <1>1 DEF Seen
  <2>13. CountInv(g)'
    <3> SUFFICES ASSUME g \in Existing, "count" \notin doubt[g]
                 PROVE  /\ Cardinality(Seen(g)) = Listed[g].count
                        /\ \A i \in Slots : About(i, g) => request[i].kind = "create"
      BY <1>1, <2>2, <2>3, <2>4, <2>12 DEF CountInv, Back, About, Due
    <3>1. doubt[g] # AllDoubt
      BY DEF AllDoubt
    <3>2. Seen(g) = group[g].members
      BY <1>1, <2>1, <3>1 DEF Sure, UnseenInv, Seen
    <3> QED
      BY <1>1, <2>1, <2>2, <3>1, <3>2 DEF Firm, OrphanInv, Item
  <2>14. UnseenInv(g)'
    BY <1>1, <2>1 DEF Sure, UnseenInv
  <2> QED
    BY <2>1, <2>5, <2>6, <2>7, <2>8, <2>9, <2>10, <2>11, <2>13, <2>14 DEF Firm, Sure
<1> QED
  BY <1>5, <1>6 DEF IInv

\* The page shows what it has been waiting for, or the error.
LEMMA AnswerPageKeeps == ASSUME IInv, AnswerPage PROVE IInv'
<1>1. /\ page \in {"asked", "answered"}
      /\ \/ page = "answered" /\ page' = "shown" /\ list' = answer
         \/ page' = "failed" /\ list' = list
      /\ answer' = NoList
      /\ UNCHANGED <<group, changes, card, request, doubt, unseen>>
  BY DEF AnswerPage, backendVars, pastVars
<1>2. TypeOK
  BY DEF IInv
<1>3. TypeOK'
  BY <1>1, <1>2 DEF TypeOK, NoList, Lists
<1>4. ASSUME NEW g \in Groups
      PROVE  Firm(g)' /\ Sure(g)'
  <2>1. Firm(g) /\ Sure(g) /\ ~Visible(g) /\ answer'[g] = None
    BY <1>1 DEF IInv, Visible, NoList
  <2>2. card[g] = FreshCard
    BY <2>1 DEF Firm, FreshInv
  <2>3. doubt[g] # AllDoubt => \A i \in Slots : About(i, g) =>
          request[i].kind = "create" /\ request[i].mine
    BY <1>1, <2>1 DEF Firm, OrphanInv
  <2>4. \A i \in Slots : About(i, g)' <=> About(i, g)
    BY <1>1 DEF About
  <2>5. (g \in Existing)' <=> g \in Existing
    BY <1>1 DEF Existing
  <2>6. FormInv(g)' /\ DoubtInv(g)'
    BY <1>1, <2>1 DEF Firm, FormInv, Formed, DoubtInv, About
  <2>7. ListedInv(g)'
    BY <1>1, <2>1 DEF Firm, ListedInv
  <2>8. OrphanInv(g)'
    BY <1>1, <2>3, <2>4 DEF OrphanInv
  <2>9. FreshInv(g)'
    BY <1>1, <2>1, <2>4 DEF Firm, FreshInv
  <2>10. ControlInv(g)' /\ BusyInv(g)' /\ LoadedInv(g)'
    BY <1>1, <2>1 DEF Firm, ControlInv, BusyInv, LoadedInv, About, Waits, Mine
  <2>11. CASE doubt[g] = AllDoubt
    <3>1. doubt'[g] = AllDoubt
      BY <1>1, <2>11
    <3>2. Sure(g)'
      BY <3>1, Doubtful
    <3> QED
      BY <2>6, <2>7, <2>8, <2>9, <2>10, <3>2 DEF Firm
  <2>12. CASE doubt[g] # AllDoubt
    <3>1. \A i \in Slots : About(i, g) => request[i].kind = "create" /\ request[i].mine
      BY <2>3, <2>12
    <3>2. ErrorInv(g)' /\ OneInv(g)'
      BY <1>1, <2>1, <2>4, <3>1 DEF Sure, ErrorInv, OneInv, Mine, OfItem
    <3>3. Known' => page = "answered" /\ Coming(g)' = Coming(g)
      BY <1>1 DEF Known, Coming
    <3>4. ListInv(g)' /\ ItemInv(g)' /\ CountInv(g)' /\ UnseenInv(g)'
      BY <1>1, <2>1, <2>4, <2>5, <3>3
         DEF Sure, ListInv, ItemInv, CountInv, UnseenInv, Back, About, Known, Seen
    <3>5. ShapeInv(g)'
      BY <1>1, <2>2, <2>4, <3>1 DEF ShapeInv, FreshCard, Clash
    <3>6. TruthInv(g)' /\ SumInv(g)'
      BY <1>1, <2>2, <2>4, <3>1 DEF TruthInv, SumInv, FreshCard, Back, About, Told
    <3> QED
      BY <2>6, <2>7, <2>8, <2>9, <2>10, <3>2, <3>4, <3>5, <3>6 DEF Firm, Sure
  <2> QED
    BY <2>11, <2>12
<1> QED
  BY <1>3, <1>4 DEF IInv

\* The page loads again: nothing is known any more, but nothing is wrong.
LEMMA ReloadKeeps ==
  ASSUME IInv, NEW rs \in [Slots -> Requests \cup {None}],
         \A i \in Slots : rs[i] \in {request[i], None},
         Reload(rs), UNCHANGED <<group, changes, list>>
  PROVE  IInv'
<1>1. /\ page' = "asked" /\ answer' = NoList
      /\ card' = [g \in Groups |-> FreshCard]
      /\ request' = Orphaned(rs, Groups)
      /\ doubt' = [g \in Groups |->
            IF \E i \in Slots : rs[i] # None /\ rs[i].group = g THEN AllDoubt ELSE {}]
      /\ unseen' = [g \in Groups |-> {}]
  BY DEF Reload, Fresh
<1>2. TypeOK
  BY DEF IInv
<1>3. \A i \in Slots :
        /\ rs[i] = None => request'[i] = None
        /\ rs[i] # None => /\ rs[i] = request[i] /\ rs[i] \in Requests
                           /\ request'[i] = [rs[i] EXCEPT !.mine = FALSE]
  BY <1>1 DEF Orphaned, Requests
<1>4. \A i \in Slots : rs[i] # None =>
        /\ request[i] # None /\ request'[i] # None /\ request'[i] \in Requests
        /\ request'[i].group = request[i].group /\ request'[i].kind = request[i].kind
        /\ request'[i].name = request[i].name /\ request'[i].user = request[i].user
        /\ request'[i].at = request[i].at /\ request'[i].item = request[i].item
        /\ request'[i].mine = FALSE
  <2> SUFFICES ASSUME NEW i \in Slots, rs[i] # None
               PROVE  /\ request[i] # None /\ request'[i] # None /\ request'[i] \in Requests
                      /\ request'[i].group = request[i].group /\ request'[i].kind = request[i].kind
                      /\ request'[i].name = request[i].name /\ request'[i].user = request[i].user
                      /\ request'[i].at = request[i].at /\ request'[i].item = request[i].item
                      /\ request'[i].mine = FALSE
    OBVIOUS
  <2>1. /\ request[i] # None /\ request[i] \in Requests
        /\ request'[i] = [request[i] EXCEPT !.mine = FALSE]
    BY <1>3
  <2>2. request'[i] \in Requests
    BY <2>1 DEF Requests
  <2> QED
    BY <2>1, <2>2, GroupsPageAssumption DEF Requests
<1>5. request' \in [Slots -> Requests \cup {None}]
  BY <1>1, <1>3, <1>4 DEF Orphaned
<1>6. FreshCard \in Cards
  BY DEF FreshCard, Cards
<1>7. TypeOK'
  BY <1>1, <1>2, <1>5, <1>6 DEF TypeOK, NoList, Lists, AllDoubt
<1>8. ASSUME NEW g \in Groups
      PROVE  Firm(g)' /\ Sure(g)'
  <2>1. Firm(g) /\ Sure(g) /\ ~Visible(g)' /\ ~Known'
    BY <1>1 DEF IInv, Visible, Known
  <2>2. card'[g] = FreshCard /\ answer'[g] = None
    BY <1>1 DEF NoList
  <2>3. \A i \in Slots : About(i, g)' => About(i, g) /\ ~request'[i].mine /\ rs[i] # None
    BY <1>3, <1>4 DEF About
  <2>4. \A i \in Slots : About(i, g)' => doubt'[g] = AllDoubt
    BY <1>1, <1>4, <2>3 DEF About
  <2>5. FormInv(g)'
    BY <1>4, <2>1, <2>3 DEF Firm, FormInv, Formed, About
  <2>6. ListedInv(g)'
    BY <2>1, <2>2 DEF Firm, ListedInv
  <2>7. DoubtInv(g)'
    BY <1>1 DEF DoubtInv, AllDoubt
  <2>8. OrphanInv(g)'
    BY <2>4 DEF OrphanInv
  <2>9. FreshInv(g)' /\ ControlInv(g)' /\ BusyInv(g)' /\ LoadedInv(g)'
    BY <2>2, <2>3 DEF FreshInv, ControlInv, BusyInv, LoadedInv, Mine, FreshCard
  <2>10. ErrorInv(g)' /\ OneInv(g)'
    BY <2>1, <2>2, <2>3, <2>4 DEF ErrorInv, OneInv, Mine, FreshCard, AllDoubt
  <2>11. ListInv(g)' /\ ItemInv(g)' /\ ShapeInv(g)' /\ TruthInv(g)' /\ CountInv(g)' /\ SumInv(g)'
    BY <2>1 DEF ListInv, ItemInv, ShapeInv, TruthInv, CountInv, SumInv
  <2>12. UnseenInv(g)'
    BY <1>1 DEF UnseenInv
  <2> QED
    BY <2>5, <2>6, <2>7, <2>8, <2>9, <2>10, <2>11, <2>12 DEF Firm, Sure
<1> QED
  BY <1>7, <1>8 DEF IInv

\* The button that counts reloadKey up.
LEMMA RetryKeeps == ASSUME IInv, Retry PROVE IInv'
<1>1. Reload(request) /\ UNCHANGED <<group, changes, list>>
  BY DEF Retry, backendVars
<1>2. request \in [Slots -> Requests \cup {None}]
  BY DEF IInv, TypeOK
<1> QED
  BY <1>1, <1>2, ReloadKeeps

(***************************************************************************)
(* The backend serves a request.                                           *)
(***************************************************************************)

\* Request i is answered with the members S, or without, or is stuck half-way; of
\* its group nothing changes but at the backend.
Served(i, a, S) ==
    /\ request[i] # None /\ request[i].at = "sent" /\ a \in {"half", "ok"}
    /\ request' = [request EXCEPT ![i] = [request[i] EXCEPT !.at = a, !.data = S]]
    /\ UNCHANGED <<page, answer, list, card>>

\* Another request, and what a request is but for its answer, are as before.
LEMMA ServedRequests ==
  ASSUME TypeOK, NEW i \in Slots, NEW a, NEW S \in SUBSET Users, Served(i, a, S)
  PROVE  /\ request' \in [Slots -> Requests \cup {None}]
         /\ request[i] \in Requests /\ request'[i] \in Requests /\ request'[i] # None
         /\ request'[i].group = request[i].group /\ request'[i].kind = request[i].kind
         /\ request'[i].name = request[i].name /\ request'[i].user = request[i].user
         /\ request'[i].item = request[i].item /\ request'[i].rows = request[i].rows
         /\ request'[i].mine = request[i].mine
         /\ request'[i].at = a /\ request'[i].data = S
         /\ \A j \in Slots \ {i} : request'[j] = request[j]
<1>1. /\ request \in [Slots -> Requests \cup {None}] /\ request[i] \in Requests
      /\ a \in {"half", "ok"}
      /\ request' = [request EXCEPT ![i] = [request[i] EXCEPT !.at = a, !.data = S]]
  BY DEF TypeOK, Served
<1> DEFINE q == [request[i] EXCEPT !.at = a, !.data = S]
<1>2. /\ q \in Requests /\ q.group = request[i].group /\ q.kind = request[i].kind
      /\ q.name = request[i].name /\ q.user = request[i].user
      /\ q.item = request[i].item /\ q.rows = request[i].rows
      /\ q.mine = request[i].mine /\ q.at = a /\ q.data = S
  BY <1>1 DEF Requests
<1>3. q # None
  BY <1>2, GroupsPageAssumption
<1>4. request'[i] = q /\ \A j \in Slots \ {i} : request'[j] = request[j]
  BY <1>1
<1> HIDE DEF q
<1>5. request' \in [Slots -> Requests \cup {None}]
  BY <1>1, <1>2 DEF q
<1> QED
  BY <1>1, <1>2, <1>3, <1>4, <1>5

\* What does not depend on the groups of the backend, nor on the answers.
LEMMA ServedSame ==
  ASSUME IInv, NEW i \in Slots, NEW a, NEW S \in SUBSET Users, Served(i, a, S),
         NEW g \in Groups, doubt[g] \subseteq doubt'[g], doubt'[g] \subseteq AllDoubt
  PROVE  /\ \A j \in Slots : /\ About(j, g)' <=> About(j, g)
                             /\ request'[j].kind = request[j].kind
                             /\ request'[j].user = request[j].user
                             /\ request'[j].name = request[j].name
                             /\ request'[j].rows = request[j].rows
                             /\ About(j, g) /\ j # i => request'[j] = request[j]
                             /\ Back(j, g)' <=>
                                   Back(j, g) \/ (About(j, g) /\ j = i /\ a = "ok")
         /\ Visible(g)' = Visible(g) /\ Known' = Known /\ Coming(g)' = Coming(g)
         /\ OrphanInv(g)' /\ FreshInv(g)' /\ ControlInv(g)' /\ BusyInv(g)' /\ LoadedInv(g)'
         /\ ErrorInv(g)' /\ OneInv(g)' /\ ShapeInv(g)' /\ SumInv(g)'
<1>1. TypeOK /\ Firm(g) /\ Sure(g)
  BY DEF IInv
<1>2. /\ request'[i] # None /\ request[i] # None
      /\ request'[i].group = request[i].group /\ request'[i].kind = request[i].kind
      /\ request'[i].name = request[i].name /\ request'[i].user = request[i].user
      /\ request'[i].item = request[i].item /\ request'[i].rows = request[i].rows
      /\ request'[i].mine = request[i].mine /\ request'[i].at = a
      /\ \A j \in Slots \ {i} : request'[j] = request[j]
  BY <1>1, ServedRequests DEF Served
<1>3. UNCHANGED <<page, answer, list, card>>
  BY DEF Served
<1>4. \A j \in Slots :
        /\ About(j, g)' <=> About(j, g)
        /\ request'[j].kind = request[j].kind /\ request'[j].user = request[j].user
        /\ request'[j].item = request[j].item /\ request'[j].rows = request[j].rows
        /\ request'[j].mine = request[j].mine /\ request'[j].name = request[j].name
        /\ About(j, g) /\ j # i => request'[j] = request[j]
  BY <1>2 DEF About
<1>5. \A j \in Slots : Back(j, g)' <=> Back(j, g) \/ (About(j, g) /\ j = i /\ a = "ok")
  BY <1>2, <1>4 DEF Back, Served
<1>6. Visible(g)' = Visible(g) /\ Known' = Known /\ Coming(g)' = Coming(g)
  BY <1>3 DEF Visible, Known, Coming
<1>7. \A j \in Slots : \A k : Mine(j, g, k)' <=> Mine(j, g, k)
  BY <1>4 DEF Mine
<1>8. \A kinds, users : Waits(g, kinds, users)' <=> Waits(g, kinds, users)
  BY <1>4 DEF Waits
<1>9. OrphanInv(g)' /\ FreshInv(g)'
  BY <1>1, <1>3, <1>4, <1>6 DEF Firm, OrphanInv, FreshInv
<1>10. ControlInv(g)'
  BY <1>1, <1>3, <1>8 DEF Firm, ControlInv
<1>11. BusyInv(g)' /\ LoadedInv(g)'
  BY <1>1, <1>3, <1>4, <1>7 DEF Firm, BusyInv, LoadedInv
<1>12. ErrorInv(g)' /\ OneInv(g)'
  BY <1>1, <1>3, <1>4, <1>6, <1>7 DEF Sure, ErrorInv, OneInv
<1>13. ShapeInv(g)' /\ SumInv(g)'
  BY <1>1, <1>3, <1>4, <1>6 DEF Sure, ShapeInv, SumInv
<1> QED
  BY <1>4, <1>5, <1>6, <1>9, <1>10, <1>11, <1>12, <1>13

\* The groups that the request is not about.
LEMMA ServedElsewhere ==
  ASSUME IInv, NEW i \in Slots, NEW a, NEW S \in SUBSET Users, Served(i, a, S),
         NEW h \in Groups, h # request[i].group, group'[h] = group[h], doubt'[h] = doubt[h],
         unseen'[h] = unseen[h]
  PROVE  Firm(h)' /\ Sure(h)'
<1>1. TypeOK /\ Firm(h) /\ Sure(h)
  BY DEF IInv
<1>2. /\ request'[i].group = request[i].group
      /\ \A j \in Slots \ {i} : request'[j] = request[j]
  BY <1>1, ServedRequests
<1>3. \A j \in Slots : /\ About(j, h)' <=> About(j, h)
                       /\ About(j, h) => request'[j] = request[j]
  BY <1>2 DEF About
<1>4. Untouched(h)
  BY <1>3 DEF Untouched, Served
<1> QED
  BY <1>1, <1>4, Frame

\* Members that have been asked for are those there are.
LEMMA ServeMembersKeeps ==
  ASSUME IInv, NEW i \in Slots, ServeMembers(i)
  PROVE  IInv'
<1>0. PICK g \in Groups : g = request[i].group
  BY DEF ServeMembers, IInv, TypeOK, Requests
<1> DEFINE S == IF g \in Existing THEN group[g].members ELSE {}
<1>1. /\ request[i] # None /\ request[i].kind = "members" /\ request[i].at = "sent"
      /\ UNCHANGED <<group, changes, page, answer, list, card, doubt, unseen>>
  BY DEF ServeMembers, backendVars, pageVars, pastVars
<1>2. TypeOK /\ request[i] \in Requests /\ g = request[i].group
  BY <1>0, <1>1 DEF IInv, TypeOK
<1>3. S \in SUBSET Users
  BY <1>2 DEF TypeOK, Existing, GroupRows
<1>4. Served(i, "ok", S)
  BY <1>1, <1>2 DEF ServeMembers, Served, TypeOK, Requests
<1> HIDE DEF S
<1>5. TypeOK'
  BY <1>1, <1>2, <1>3, <1>4, ServedRequests DEF TypeOK
<1>6. ASSUME NEW h \in Groups, h # g
      PROVE  Firm(h)' /\ Sure(h)'
  BY <1>1, <1>2, <1>3, <1>4, <1>6, ServedElsewhere
<1>7. Firm(g)' /\ Sure(g)'
  <2>1. Firm(g) /\ Sure(g) /\ DoubtInv(g)'
    BY <1>1, <1>2 DEF IInv, Firm, DoubtInv
  <2>2. doubt[g] \subseteq doubt'[g] /\ doubt'[g] \subseteq AllDoubt
    BY <1>1, <1>2 DEF TypeOK
  <2>3. /\ \A j \in Slots : /\ About(j, g)' <=> About(j, g)
                            /\ request'[j].kind = request[j].kind
                            /\ request'[j].user = request[j].user
                            /\ request'[j].name = request[j].name
                            /\ request'[j].rows = request[j].rows
                            /\ About(j, g) /\ j # i => request'[j] = request[j]
                            /\ Back(j, g)' <=> Back(j, g) \/ (About(j, g) /\ j = i)
        /\ Visible(g)' = Visible(g) /\ Known' = Known /\ Coming(g)' = Coming(g)
        /\ OrphanInv(g)' /\ FreshInv(g)' /\ ControlInv(g)' /\ BusyInv(g)' /\ LoadedInv(g)'
        /\ ErrorInv(g)' /\ OneInv(g)' /\ ShapeInv(g)' /\ SumInv(g)'
    BY <1>2, <1>3, <1>4, <2>2, ServedSame
  <2>4. /\ request'[i].data = S /\ request'[i].item = request[i].item
        /\ request'[i].group = g
    BY <1>2, <1>3, <1>4, ServedRequests
  <2>5. (g \in Existing)' <=> g \in Existing
    BY <1>1 DEF Existing
  <2>6. FormInv(g)' /\ ListedInv(g)'
    BY <1>1, <2>1, <2>3, <2>4 DEF Firm, FormInv, Formed, ListedInv, About
  <2>7. ListInv(g)'
    BY <1>1, <2>1, <2>3, <2>5 DEF Sure, ListInv
  <2>8. ItemInv(g)'
    <3>1. \A j \in Slots : Back(j, g) => j # i /\ About(j, g)
      BY <1>1 DEF Back
    <3> QED
      BY <1>1, <2>1, <2>3, <2>5, <3>1 DEF Sure, ItemInv, Says
  <2>9. Seen(g)' = Seen(g)
    BY <1>1 DEF Seen
  <2>10. TruthInv(g)'
    <3> SUFFICES ASSUME g \in Existing, Visible(g), "rows" \notin doubt[g]
                 PROVE  /\ \A j \in Slots : Back(j, g)' =>
                              /\ Told(request'[j], Seen(g))
                              /\ request'[j].kind = "members" => request'[j].data = group[g].members
                        /\ card[g].rows # None => \A u \in Users :
                              ~Open(g, u)' => (card[g].rows[u] = 1 <=> u \in Seen(g))
      BY <1>1, <2>3, <2>5, <2>9 DEF TruthInv, Told
    <3>1. \A j \in Slots : Back(j, g) =>
            /\ Told(request[j], Seen(g))
            /\ request[j].kind = "members" => request[j].data = group[g].members
      BY <2>1 DEF Sure, TruthInv
    <3>2. Told(request'[i], Seen(g)) /\ request'[i].data = group[g].members
      BY <1>1, <2>3, <2>4 DEF Told, S
    <3>3. \A j \in Slots : Back(j, g)' =>
            /\ Told(request'[j], Seen(g))
            /\ request'[j].kind = "members" => request'[j].data = group[g].members
      BY <2>3, <3>1, <3>2 DEF Back
    <3>4. \A u : Open(g, u) => Open(g, u)'
      BY <2>3 DEF Open
    <3>5. card[g].rows # None => \A u \in Users :
             ~Open(g, u) => (card[g].rows[u] = 1 <=> u \in Seen(g))
      BY <2>1 DEF Sure, TruthInv
    <3> QED
      BY <3>3, <3>4, <3>5
  <2>11. CountInv(g)'
    BY <1>1, <2>1, <2>3, <2>5, <2>9 DEF Sure, CountInv, Due
  <2>12. UnseenInv(g)'
    BY <1>1, <2>1 DEF Sure, UnseenInv
  <2> QED
    BY <2>1, <2>3, <2>6, <2>7, <2>8, <2>10, <2>11, <2>12 DEF Firm, Sure
<1> QED
  BY <1>5, <1>6, <1>7 DEF IInv

\* What the operations make of the row r of the group of q.
LEMMA DoneRow ==
  ASSUME TypeOK, NEW q \in Requests, Formed(q), Allowed(q), q.kind # "members"
  PROVE  LET r == group[q.group]
             s == Done(q, r)
         IN  /\ IF q.kind = "create" THEN r = None ELSE q.group \in Existing /\ r \in GroupRows
             /\ IF q.kind = "delete" THEN s = Gone ELSE s \in GroupRows
             /\ q.kind = "rename" => /\ s.name = q.name /\ s.leader = r.leader
                                     /\ s.members = r.members
             /\ q.kind = "leader" => /\ s.name = r.name /\ s.leader = q.user
                                     /\ s.members = r.members \cup {q.user} /\ q.user \in Users
             /\ q.kind = "add" => /\ s.name = r.name /\ s.leader = r.leader
                                  /\ s.members = r.members \cup {q.user} /\ q.user \in Users
             /\ q.kind = "remove" => /\ s.name = r.name /\ s.leader = r.leader
                                     /\ s.members = r.members \ {q.user} /\ q.user \in r.members
<1> DEFINE r == group[q.group]
           s == Done(q, r)
<1>1. q.group \in Existing => r \in GroupRows
  BY DEF TypeOK, Existing
<1>2. CASE q.kind = "create"
  <2>1. s = [name |-> q.name, leader |-> q.user, members |-> {q.user}] /\ r = None
    BY <1>2 DEF Done, Allowed
  <2>2. q.name \in Names /\ q.user \in Users
    BY <1>2 DEF Formed, Requests
  <2> QED
    BY <1>2, <2>1, <2>2 DEF GroupRows
<1>3. CASE q.kind = "rename"
  <2>1. s = [r EXCEPT !.name = q.name] /\ q.group \in Existing
    BY <1>3 DEF Done, Allowed
  <2>2. q.name \in Names
    BY <1>3 DEF Formed, Requests
  <2> QED
    BY <1>1, <1>3, <2>1, <2>2 DEF GroupRows
<1>4. CASE q.kind = "leader"
  <2>1. q.group \in Existing /\ r \in GroupRows /\ q.user \in Users
    BY <1>1, <1>4 DEF Allowed, Formed, Requests
  <2>2. s = [r EXCEPT !.leader = q.user, !.members = r.members \cup {q.user}]
    BY <1>4, <2>1 DEF Done, GroupRows
  <2> HIDE DEF s
  <2>3. r.members \cup {q.user} \in SUBSET Users
    BY <2>1 DEF GroupRows
  <2>4. /\ s \in GroupRows /\ s.name = r.name /\ s.leader = q.user
        /\ s.members = r.members \cup {q.user}
    BY <2>1, <2>2, <2>3 DEF GroupRows
  <2> QED
    BY <1>4, <2>1, <2>4 DEF s
<1>5. CASE q.kind = "delete"
  BY <1>1, <1>5 DEF Done, Allowed
<1>6. CASE q.kind = "add"
  <2>1. q.group \in Existing /\ r \in GroupRows /\ q.user \in Users
    BY <1>1, <1>6 DEF Allowed, Formed, Requests
  <2>2. s = [r EXCEPT !.members = r.members \cup {q.user}]
    BY <1>6, <2>1 DEF Done, GroupRows
  <2> QED
    BY <1>6, <2>1, <2>2 DEF GroupRows
<1>7. CASE q.kind = "remove"
  <2>1. q.group \in Existing /\ r \in GroupRows /\ q.user \in r.members
    BY <1>1, <1>7 DEF Allowed
  <2>2. s = [r EXCEPT !.members = r.members \ {q.user}]
    BY <1>7, <2>1 DEF Done, GroupRows
  <2> QED
    BY <1>7, <2>1, <2>2 DEF GroupRows
<1> QED
  BY <1>2, <1>3, <1>4, <1>5, <1>6, <1>7 DEF Requests

\* With no answer on its way that could tell more, the rows are the members whom
\* the page has had the means to know of.
LEMMA RowsBefore ==
  ASSUME IInv, NEW g \in Existing, Visible(g), "rows" \notin doubt[g], card[g].rows # None,
         NEW i \in Slots, About(i, g), request[i].at = "sent",
         request[i].kind \in {"leader", "add", "remove"}
  PROVE  /\ request[i].kind = "leader" =>
               \A u \in Users : card[g].rows[u] = IF u \in Seen(g) THEN 1 ELSE 0
         /\ request[i].kind = "leader" =>
               \A j \in Slots : Back(j, g) => request[j].kind \notin {"leader", "add", "remove", "members"}
         /\ request[i].kind \in {"add", "remove"} =>
               \A j \in Slots : Back(j, g) =>
                  /\ request[j].kind \notin {"leader", "members"}
                  /\ request[j].kind \in {"add", "remove"} => request[j].user # request[i].user
         /\ request[i].kind = "add" => request[i].user \notin Seen(g)
         /\ request[i].kind = "remove" => request[i].user \in Seen(g)
<1>1. g \in Groups /\ Firm(g) /\ Sure(g)
  BY DEF IInv, Existing
<1>2. \A j \in Slots : Back(j, g) => About(j, g) /\ i # j
  BY DEF Back
<1>3. \A j \in Slots : Back(j, g) => ~Clash(request[i].kind, request[j].kind)
  BY <1>1, <1>2 DEF Sure, ShapeInv
<1>4. card[g].rows # None => \A u \in Users : card[g].rows[u] \in {0, 1}
  BY <1>1 DEF Sure, ShapeInv
<1>5. \A u \in Users : ~Open(g, u) => (card[g].rows[u] = 1 <=> u \in Seen(g))
  BY <1>1 DEF Sure, TruthInv
<1>6. CASE request[i].kind = "leader"
  <2>1. \A j \in Slots : Back(j, g) => request[j].kind \notin {"leader", "add", "remove", "members"}
    BY <1>3, <1>6 DEF Clash
  <2>2. \A u \in Users : ~Open(g, u)
    BY <2>1 DEF Open
  <2> QED
    BY <1>4, <1>5, <1>6, <2>1, <2>2
<1>7. CASE request[i].kind \in {"add", "remove"}
  <2> DEFINE u == request[i].user
  <2>1. u \in Users
    BY <1>1, <1>7 DEF Firm, FormInv, Formed, About, IInv, TypeOK, Requests
  <2>2. \A j \in Slots : Back(j, g) => request[j].kind \notin {"leader", "members"}
    BY <1>3, <1>7 DEF Clash
  <2>3. /\ request[i].kind = "add" => card[g].rows[u] = 0
        /\ request[i].kind = "remove" => card[g].rows[u] = 1
    BY <1>1 DEF Sure, ShapeInv
  <2>4. \A j \in Slots : Back(j, g) =>
          /\ request[j].kind = "add" => card[g].rows[request[j].user] = 0
          /\ request[j].kind = "remove" => card[g].rows[request[j].user] = 1
    BY <1>1, <1>2 DEF Sure, ShapeInv
  <2>5. request[i].mine /\ \A j \in Slots : Back(j, g) => request[j].mine
    BY <1>1, <1>2 DEF Firm, OrphanInv, Visible, AllDoubt
  <2>6. \A j \in Slots : Back(j, g) /\ request[j].kind \in {"add", "remove"}
                            => request[j].user # u
    BY <1>1, <1>2, <1>7, <2>3, <2>4, <2>5 DEF Firm, BusyInv, Mine
  <2>7. ~Open(g, u)
    BY <2>2, <2>6 DEF Open
  <2> QED
    BY <1>5, <1>7, <2>1, <2>2, <2>3, <2>6, <2>7
<1> QED
  BY <1>6, <1>7

\* A change at the backend is on its way back to the page, which does not know
\* of it yet.
LEMMA ServeChangeKeeps ==
  ASSUME IInv, NEW i \in Slots, ServeChange(i)
  PROVE  IInv'
<1>0. PICK g \in Groups : g = request[i].group
  BY DEF ServeChange, IInv, TypeOK, Requests
<1> DEFINE q == request[i]
           r == group[g]
           s == Done(q, r)
           X == IF q.kind = "leader" /\ q.rows = None THEN unseen[g] \cup ({q.user} \ r.members)
                ELSE unseen[g] \ {q.user}
           T == s.members \ X
<1>1. /\ q # None /\ q.kind # "members" /\ q.at = "sent" /\ Allowed(q)
      /\ changes < MaxChanges /\ changes' = changes + 1
      /\ request' = [request EXCEPT ![i].at = "ok"]
      /\ UNCHANGED <<page, answer, list, card, doubt>>
  BY DEF ServeChange, pageVars
<1>2. TypeOK /\ q \in Requests /\ About(i, g) /\ Formed(q) /\ Firm(g) /\ Sure(g)
  BY <1>0, <1>1 DEF IInv, TypeOK, Firm, FormInv, About
<1>3. /\ IF q.kind = "create" THEN r = None ELSE g \in Existing /\ r \in GroupRows
      /\ IF q.kind = "delete" THEN s = Gone ELSE s \in GroupRows
      /\ q.kind = "rename" => s.name = q.name /\ s.leader = r.leader /\ s.members = r.members
      /\ q.kind = "leader" => /\ s.name = r.name /\ s.leader = q.user
                              /\ s.members = r.members \cup {q.user} /\ q.user \in Users
      /\ q.kind = "add" => /\ s.name = r.name /\ s.leader = r.leader
                           /\ s.members = r.members \cup {q.user} /\ q.user \in Users
      /\ q.kind = "remove" => /\ s.name = r.name /\ s.leader = r.leader
                              /\ s.members = r.members \ {q.user} /\ q.user \in r.members
  BY <1>0, <1>1, <1>2, DoneRow
<1>4. group' = [group EXCEPT ![g] = s] /\ unseen' = [unseen EXCEPT ![g] = X]
  BY <1>0, <1>2 DEF ServeChange, TypeOK
<1>5. Served(i, "ok", q.data) /\ q.data \in SUBSET Users
  BY <1>1, <1>2 DEF Served, TypeOK, Requests
<1> HIDE DEF s
<1>6. X \in SUBSET Users
  BY <1>2, <1>3 DEF TypeOK
<1> HIDE DEF X
<1>7. /\ group' \in [Groups -> GroupRows \cup {None, Gone}] /\ group'[g] = s
      /\ unseen' \in [Groups -> SUBSET Users] /\ unseen'[g] = X
      /\ \A h \in Groups \ {g} : group'[h] = group[h] /\ unseen'[h] = unseen[h]
  BY <1>2, <1>3, <1>4, <1>6 DEF TypeOK
<1>8. request' \in [Slots -> Requests \cup {None}] /\ changes' \in 0..MaxChanges
  BY <1>1, <1>2, <1>5, ServedRequests, GroupsPageAssumption DEF TypeOK
<1>9. TypeOK'
  BY <1>1, <1>2, <1>7, <1>8 DEF TypeOK
<1>10. \A h \in Groups \ {g} : Firm(h)' /\ Sure(h)'
  BY <1>0, <1>1, <1>5, <1>7, ServedElsewhere
<1>11. doubt'[g] = doubt[g] /\ doubt[g] \subseteq doubt'[g] /\ doubt'[g] \subseteq AllDoubt
  BY <1>1, <1>2 DEF TypeOK
<1>12. /\ \A j \in Slots : /\ About(j, g)' <=> About(j, g)
                           /\ request'[j].kind = request[j].kind
                           /\ request'[j].user = request[j].user
                           /\ request'[j].name = request[j].name
                           /\ request'[j].rows = request[j].rows
                           /\ About(j, g) /\ j # i => request'[j] = request[j]
                           /\ Back(j, g)' <=> Back(j, g) \/ (About(j, g) /\ j = i)
       /\ Visible(g)' = Visible(g) /\ Known' = Known /\ Coming(g)' = Coming(g)
       /\ OrphanInv(g)' /\ FreshInv(g)' /\ ControlInv(g)' /\ BusyInv(g)' /\ LoadedInv(g)'
       /\ ErrorInv(g)' /\ OneInv(g)' /\ ShapeInv(g)' /\ SumInv(g)'
  BY <1>5, <1>11, ServedSame
<1>13. /\ request'[i].data = q.data /\ request'[i].item = q.item
       /\ request'[i].group = g /\ request'[i].at = "ok"
  BY <1>0, <1>2, <1>5, ServedRequests
<1>14. /\ g \in Existing <=> r \notin {None, Gone}
       /\ (g \in Existing)' <=> s \notin {None, Gone}
       /\ s # None /\ (s = Gone <=> q.kind = "delete")
  BY <1>3, <1>7, GroupsPageAssumption DEF Existing
<1>15. q.kind = "create" => Coming(g) = None /\ ~Visible(g)
  BY <1>2, <1>3 DEF Firm, ListedInv, Coming, Visible
<1>16. \A j \in Slots : Back(j, g) => j # i /\ About(j, g) /\ Back(j, g)'
  BY <1>1, <1>12 DEF Back
<1>17. Back(i, g)'
  BY <1>2, <1>12
<1>18. Seen(g)' = T
  BY <1>7 DEF Seen
<1>19. /\ q.kind = "rename" => T = Seen(g)
       /\ q.kind = "leader" => T = IF q.rows = None THEN Seen(g) ELSE Seen(g) \cup {q.user}
       /\ q.kind = "add" => T = Seen(g) \cup {q.user}
       /\ q.kind = "remove" => T = Seen(g) \ {q.user}
  <2>1. unseen[g] \subseteq Users
    BY <1>2 DEF TypeOK
  <2>2. CASE q.kind = "rename"
    <3>1. X = unseen[g]
      BY <1>2, <2>1, <2>2, GroupsPageAssumption DEF X, Formed
    <3> QED
      BY <1>3, <2>2, <3>1 DEF Seen
  <2>3. CASE q.kind = "leader"
    BY <1>3, <2>3 DEF Seen, X
  <2>4. CASE q.kind = "add"
    BY <1>3, <2>4 DEF Seen, X
  <2>5. CASE q.kind = "remove"
    BY <1>3, <2>5 DEF Seen, X
  <2> QED
    BY <2>2, <2>3, <2>4, <2>5
<1> HIDE DEF r, T
<1>20. FormInv(g)'
  <2>1. ASSUME NEW j \in Slots, j # i, About(j, g)
        PROVE  Formed(request[j])'
    <3>1. Formed(request[j]) /\ request[j].group = g /\ request'[j] = request[j]
      BY <1>2, <1>12, <2>1 DEF Firm, FormInv, About
    <3>2. r # Gone
      BY <1>3, <1>14, GroupsPageAssumption
    <3> QED
      BY <1>7, <1>14, <3>1, <3>2 DEF Formed, r
  <2>2. Formed(request[i])'
    BY <1>2, <1>3, <1>7, <1>12, <1>13, <1>14 DEF Formed
  <2> QED
    BY <1>12, <2>1, <2>2 DEF FormInv
<1>21. ListedInv(g)' /\ DoubtInv(g)'
  BY <1>1, <1>2, <1>7, <1>14 DEF Firm, ListedInv, DoubtInv
<1>22. ListInv(g)'
  BY <1>2, <1>3, <1>7, <1>11, <1>12, <1>14, <1>15, <1>16, <1>17 DEF Sure, ListInv
<1>23. ItemInv(g)'
  <2> SUFFICES ASSUME "item" \notin doubt[g], Known, Coming(g) # None, s \notin {None, Gone}
               PROVE  /\ \A j \in Slots : Back(j, g)' => Says(request'[j], s)
                      /\ Coming(g).name # s.name =>
                            \E j \in Slots : Back(j, g)' /\ request'[j].kind = "rename"
                      /\ Coming(g).leader # s.leader =>
                            \E j \in Slots : Back(j, g)' /\ request'[j].kind = "leader"
    BY <1>7, <1>11, <1>12, <1>14 DEF ItemInv, Says
  <2>1. q.kind # "create" /\ q.kind # "delete" /\ g \in Existing
    BY <1>3, <1>14, <1>15
  <2>2. q.kind \in OfItem
    BY <1>1, <1>2, <2>1 DEF Requests, OfItem
  <2>3. \A j \in Slots : Back(j, g) => request[j].kind \notin {"rename", "leader"}
    BY <1>2, <1>16, <2>2 DEF Sure, OneInv, OfItem
  <2>4. Coming(g).name = r.name /\ Coming(g).leader = r.leader
    BY <1>2, <2>1, <2>3 DEF Sure, ItemInv, r
  <2>5. Says(request'[i], s)
    BY <1>3, <1>12 DEF Says
  <2>6. \A j \in Slots : Back(j, g)' => Says(request'[j], s)
    BY <1>12, <2>3, <2>5 DEF Says
  <2>7. /\ s.name # r.name => q.kind = "rename"
        /\ s.leader # r.leader => q.kind = "leader"
    BY <1>1, <1>3, <2>2 DEF OfItem
  <2> QED
    BY <1>12, <1>17, <2>4, <2>6, <2>7
<1>24. TruthInv(g)'
  <2> SUFFICES ASSUME s \notin {None, Gone}, Visible(g), "rows" \notin doubt[g]
               PROVE  /\ \A j \in Slots : Back(j, g)' =>
                            /\ Told(request'[j], T)
                            /\ request'[j].kind = "members" => request'[j].data = s.members
                      /\ card[g].rows # None => \A u \in Users :
                            ~Open(g, u)' => (card[g].rows[u] = 1 <=> u \in T)
    BY <1>1, <1>7, <1>11, <1>12, <1>14, <1>18 DEF TruthInv, Told
  <2>1. q.kind \notin {"create", "delete"} /\ g \in Existing
    BY <1>3, <1>14, <1>15
  <2>2. /\ \A j \in Slots : Back(j, g) =>
              /\ Told(request[j], Seen(g))
              /\ request[j].kind = "members" => request[j].data = r.members
        /\ card[g].rows # None => \A u \in Users :
              ~Open(g, u) => (card[g].rows[u] = 1 <=> u \in Seen(g))
    BY <1>2, <2>1 DEF Sure, TruthInv, r
  <2>3. \A u : Open(g, u) => Open(g, u)'
    BY <1>12 DEF Open
  <2>4. \A j \in Slots : Back(j, g) => request'[j] = request[j]
    BY <1>12, <1>16
  <2>5. CASE q.kind = "rename"
    <3>1. Told(request'[i], T) /\ request'[i].kind # "members"
      BY <1>12, <2>5 DEF Told
    <3> QED
      BY <1>3, <1>12, <1>19, <2>2, <2>3, <2>4, <2>5, <3>1
  <2>6. q.kind \in {"leader", "add", "remove"} => \A j \in Slots : Back(j, g) =>
          ~Clash(q.kind, request[j].kind)
    BY <1>2, <1>16, <2>1 DEF Sure, ShapeInv
  <2>7. CASE q.kind = "leader"
    <3>1. \A j \in Slots : Back(j, g)' => j = i \/ request[j].kind \notin {"leader", "add", "remove", "members"}
      BY <1>12, <2>6, <2>7 DEF Clash
    <3>2. q.rows = card[g].rows
      BY <1>2, <2>7 DEF Sure, ShapeInv
    <3>3. q.rows # None => NextRows(request'[i]) = RowsFor(T)
      <4> SUFFICES ASSUME q.rows # None
                   PROVE  NextRows(request'[i]) = RowsFor(T)
        OBVIOUS
      <4>1. \A u \in Users : q.rows[u] = IF u \in Seen(g) THEN 1 ELSE 0
        BY <1>1, <1>2, <2>1, <2>7, <3>2, RowsBefore
      <4>2. q.rows \in [Users -> Nat]
        BY <1>2 DEF Requests, MemberRows
      <4>3. NextRows(request'[i]) =
              IF q.rows[q.user] = 0 THEN [q.rows EXCEPT ![q.user] = 1] ELSE q.rows
        BY <1>12 DEF NextRows
      <4>4. NextRows(request'[i]) = [u \in Users |-> IF u \in Seen(g) \cup {q.user} THEN 1 ELSE 0]
        BY <1>3, <2>7, <4>1, <4>2, <4>3
      <4> QED
        BY <1>19, <2>7, <4>4 DEF RowsFor
    <3>4. Told(request'[i], T) /\ request'[i].kind # "members"
      BY <1>12, <2>7, <3>3 DEF Told
    <3>5. \A j \in Slots : Back(j, g)' =>
            Told(request'[j], T) /\ request'[j].kind # "members"
      BY <1>12, <3>1, <3>4 DEF Told
    <3>6. \A u : Open(g, u)'
      BY <1>12, <1>17, <2>7 DEF Open
    <3> QED
      BY <3>5, <3>6
  <2>8. CASE q.kind \in {"add", "remove"}
    <3>1. q.user \in Users /\ card[g].rows # None
      BY <1>2, <1>3, <2>8 DEF Firm, OrphanInv, LoadedInv, Visible, AllDoubt, GroupRows
    <3>2. \A j \in Slots : Back(j, g) =>
            /\ request[j].kind \notin {"leader", "members"}
            /\ request[j].kind \in {"add", "remove"} => request[j].user # q.user
      BY <1>1, <1>2, <2>1, <2>8, <3>1, RowsBefore
    <3>3. /\ q.kind = "add" => q.user \in T
          /\ q.kind = "remove" => q.user \notin T
          /\ \A u : u # q.user => (u \in T <=> u \in Seen(g))
      BY <1>19, <2>8
    <3>4. Told(request'[i], T) /\ request'[i].kind # "members"
      BY <1>12, <2>8, <3>3 DEF Told
    <3>5. \A j \in Slots : Back(j, g) => Told(request[j], T)
      BY <2>2, <3>2, <3>3 DEF Told
    <3>6. \A j \in Slots : Back(j, g)' =>
            Told(request'[j], T) /\ request'[j].kind # "members"
      BY <1>12, <2>4, <3>2, <3>4, <3>5
    <3>7. \A u : u = q.user => Open(g, u)'
      BY <1>12, <1>17, <2>8 DEF Open
    <3>8. \A u \in Users : ~Open(g, u)' => (card[g].rows[u] = 1 <=> u \in T)
      BY <2>2, <2>3, <3>1, <3>3, <3>7
    <3> QED
      BY <3>6, <3>8
  <2> QED
    BY <1>1, <1>2, <2>1, <2>5, <2>7, <2>8 DEF Requests
<1>25. CountInv(g)'
  <2> DEFINE n == Cardinality(Seen(g))
             m == Cardinality(T)
             k == Coming(g).count
  <2> SUFFICES ASSUME s \notin {None, Gone}, "count" \notin doubt[g], Known, Coming(g) # None
               PROVE  /\ \A j \in Slots : Back(j, g)' => Due(request'[j], m, k)
                      /\ m # k => \E j \in Slots :
                            Back(j, g)' /\ request'[j].kind \in {"leader", "add", "remove"}
    BY <1>1, <1>7, <1>12, <1>14, <1>18 DEF CountInv, Due
  <2> HIDE DEF k
  <2>1. q.kind \notin {"create", "delete"} /\ g \in Existing
    BY <1>3, <1>14, <1>15
  <2>2. q.kind \in OfItem
    BY <1>1, <1>2, <2>1 DEF Requests, OfItem
  <2>3. "item" \notin doubt[g] /\ "rows" \notin doubt[g]
    BY <1>2 DEF Firm, DoubtInv
  <2>4. \A j \in Slots : Back(j, g) => request[j].kind \notin OfItem
    BY <1>2, <1>16, <2>2, <2>3 DEF Sure, OneInv
  <2>5. n = k
    BY <1>2, <2>1, <2>4 DEF Sure, CountInv, k, OfItem
  <2>6. \A j \in Slots : Back(j, g) => Due(request'[j], m, k)
    BY <1>12, <2>4 DEF Due, OfItem
  <2>7. Visible(g) /\ q.mine
    BY <1>2, <2>1, <2>2 DEF Firm, OrphanInv, Known, Coming, Visible, AllDoubt
  <2>8. IsFiniteSet(Seen(g)) /\ n \in Nat
    <3>1. Seen(g) \subseteq Users
      BY <1>3, <2>1 DEF GroupRows, Seen, r
    <3> QED
      BY <3>1, FS_Subset, FS_CardinalityType, GroupsPageAssumption
  <2>9. CASE q.kind = "rename"
    BY <1>12, <1>19, <2>5, <2>6, <2>9 DEF Due
  <2>10. CASE q.kind = "leader"
    BY <1>12, <1>17, <1>19, <2>5, <2>6, <2>10 DEF Due
  <2>11. CASE q.kind = "add"
    <3>1. card[g].rows # None
      BY <1>2, <2>7, <2>11 DEF Firm, LoadedInv
    <3>2. q.user \notin Seen(g)
      BY <1>1, <1>2, <2>1, <2>3, <2>7, <2>11, <3>1, RowsBefore
    <3>3. m = n + 1
      BY <1>19, <2>8, <2>11, <3>2, FS_AddElement
    <3> QED
      BY <1>12, <1>17, <2>5, <2>6, <2>11, <3>3 DEF Due
  <2>12. CASE q.kind = "remove"
    <3>1. card[g].rows # None
      BY <1>2, <2>7, <2>12 DEF Firm, LoadedInv
    <3>2. q.user \in Seen(g)
      BY <1>1, <1>2, <2>1, <2>3, <2>7, <2>12, <3>1, RowsBefore
    <3>3. m = n - 1
      <4>1. T = Seen(g) \ {q.user}
        BY <1>19, <2>12
      <4> QED
        BY <2>8, <3>2, <4>1, FS_RemoveElement
    <3> QED
      BY <1>12, <1>17, <2>5, <2>6, <2>12, <3>3 DEF Due
  <2>13. q.kind # "members"
    BY <1>1
  <2> QED
    BY <2>2, <2>9, <2>10, <2>11, <2>12, <2>13 DEF OfItem
<1>26. UnseenInv(g)'
  <2> SUFFICES ASSUME doubt[g] # AllDoubt, page # "shown"
               PROVE  X = {}
    BY <1>1, <1>7 DEF UnseenInv
  <2>1. q.kind = "create" /\ unseen[g] = {}
    BY <1>2 DEF Firm, OrphanInv, Sure, UnseenInv
  <2> QED
    BY <2>1 DEF X
<1>30. Firm(g)' /\ Sure(g)'
  BY <1>12, <1>20, <1>21, <1>22, <1>23, <1>24, <1>25, <1>26 DEF Firm, Sure
<1> QED
  BY <1>9, <1>10, <1>30 DEF IInv

\* A change of leader that fails half-way leaves a member in the group of whom the
\* page will not be told; what the page has had the means to know is as before.
LEMMA ServeHalfKeeps ==
  ASSUME IInv, NEW i \in Slots, ServeHalf(i)
  PROVE  IInv'
<1>0. PICK g \in Groups : g = request[i].group
  BY DEF ServeHalf, IInv, TypeOK, Requests
<1> DEFINE q == request[i]
           r == group[g]
           s == [r EXCEPT !.members = r.members \cup {q.user}]
<1>1. /\ q # None /\ q.kind = "leader" /\ q.at = "sent"
      /\ changes < MaxChanges /\ changes' = changes + 1
      /\ g \in Existing /\ q.user \notin r.members
      /\ request' = [request EXCEPT ![i].at = "half"]
      /\ UNCHANGED <<page, answer, list, card, doubt>>
  BY <1>0 DEF ServeHalf, pageVars
<1>2. TypeOK /\ q \in Requests /\ About(i, g) /\ Formed(q) /\ Firm(g) /\ Sure(g)
  BY <1>0, <1>1 DEF IInv, TypeOK, Firm, FormInv, About
<1>3. r \in GroupRows /\ r \notin {None, Gone} /\ q.user \in Users
  BY <1>1, <1>2 DEF TypeOK, Existing, Formed, Requests
<1>4. /\ s \in GroupRows /\ s.name = r.name /\ s.leader = r.leader
      /\ s.members = r.members \cup {q.user}
  BY <1>3 DEF GroupRows
<1>5. group' = [group EXCEPT ![g] = s] /\ unseen' = [unseen EXCEPT ![g] = unseen[g] \cup {q.user}]
  BY <1>0, <1>2, <1>3 DEF ServeHalf, TypeOK, GroupRows
<1>6. Served(i, "half", q.data) /\ q.data \in SUBSET Users
  BY <1>1, <1>2 DEF Served, TypeOK, Requests
<1> HIDE DEF s
<1>7. /\ group' \in [Groups -> GroupRows \cup {None, Gone}] /\ group'[g] = s
      /\ unseen' \in [Groups -> SUBSET Users] /\ unseen'[g] = unseen[g] \cup {q.user}
      /\ \A h \in Groups \ {g} : group'[h] = group[h] /\ unseen'[h] = unseen[h]
  BY <1>2, <1>3, <1>4, <1>5 DEF TypeOK
<1>8. request' \in [Slots -> Requests \cup {None}] /\ changes' \in 0..MaxChanges
  BY <1>1, <1>2, <1>6, ServedRequests, GroupsPageAssumption DEF TypeOK
<1>9. TypeOK'
  BY <1>1, <1>2, <1>7, <1>8 DEF TypeOK
<1>10. \A h \in Groups \ {g} : Firm(h)' /\ Sure(h)'
  BY <1>0, <1>1, <1>6, <1>7, ServedElsewhere
<1>11. doubt'[g] = doubt[g] /\ doubt[g] \subseteq doubt'[g] /\ doubt'[g] \subseteq AllDoubt
  BY <1>1, <1>2 DEF TypeOK
<1>12. /\ \A j \in Slots : /\ About(j, g)' <=> About(j, g)
                           /\ request'[j].kind = request[j].kind
                           /\ request'[j].user = request[j].user
                           /\ request'[j].name = request[j].name
                           /\ request'[j].rows = request[j].rows
                           /\ About(j, g) /\ j # i => request'[j] = request[j]
                           /\ Back(j, g)' <=> Back(j, g)
       /\ Visible(g)' = Visible(g) /\ Known' = Known /\ Coming(g)' = Coming(g)
       /\ OrphanInv(g)' /\ FreshInv(g)' /\ ControlInv(g)' /\ BusyInv(g)' /\ LoadedInv(g)'
       /\ ErrorInv(g)' /\ OneInv(g)' /\ ShapeInv(g)' /\ SumInv(g)'
  BY <1>6, <1>11, ServedSame
<1>13. /\ request'[i].item = q.item /\ request'[i].group = g /\ request'[i].at = "half"
  BY <1>0, <1>2, <1>6, ServedRequests
<1>14. g \in Existing /\ g \in Existing'
  BY <1>1, <1>4, <1>7, GroupsPageAssumption DEF Existing
<1>15. Seen(g)' = Seen(g)
  BY <1>1, <1>4, <1>7 DEF Seen
<1>16. \A j \in Slots : Back(j, g) => j # i /\ About(j, g) /\ request'[j] = request[j]
  BY <1>1, <1>12 DEF Back
<1>20. FormInv(g)'
  <2>1. ASSUME NEW j \in Slots, j # i, About(j, g)
        PROVE  Formed(request[j])'
    <3>1. Formed(request[j]) /\ request[j].group = g /\ request'[j] = request[j]
      BY <1>2, <1>12, <2>1 DEF Firm, FormInv, About
    <3> QED
      BY <1>3, <1>4, <1>7, <3>1, GroupsPageAssumption DEF Formed
  <2>2. Formed(request[i])'
    BY <1>1, <1>2, <1>4, <1>7, <1>12, <1>13, GroupsPageAssumption DEF Formed
  <2> QED
    BY <1>12, <2>1, <2>2 DEF FormInv
<1>21. ListedInv(g)' /\ DoubtInv(g)'
  BY <1>1, <1>2, <1>4, <1>7, GroupsPageAssumption DEF Firm, ListedInv, DoubtInv
<1>22. ListInv(g)'
  BY <1>2, <1>11, <1>12, <1>14 DEF Sure, ListInv
<1>23. ItemInv(g)'
  BY <1>2, <1>4, <1>7, <1>11, <1>12, <1>14 DEF Sure, ItemInv, Says
<1>24. TruthInv(g)'
  <2> SUFFICES ASSUME Visible(g), "rows" \notin doubt[g]
               PROVE  /\ \A j \in Slots : Back(j, g) =>
                            Told(request[j], Seen(g)) /\ request[j].kind # "members"
                      /\ card[g].rows # None => \A u \in Users :
                            ~Open(g, u)' => (card[g].rows[u] = 1 <=> u \in Seen(g))
    BY <1>1, <1>11, <1>12, <1>15, <1>16 DEF TruthInv
  <2>1. /\ \A j \in Slots : Back(j, g) => Told(request[j], Seen(g))
        /\ card[g].rows # None => \A u \in Users :
              ~Open(g, u) => (card[g].rows[u] = 1 <=> u \in Seen(g))
    BY <1>2, <1>14 DEF Sure, TruthInv
  <2>2. \A u : Open(g, u) => Open(g, u)'
    BY <1>12 DEF Open
  <2>3. \A j \in Slots : Back(j, g) => request[j].kind # "members"
    BY <1>1, <1>2, <1>16 DEF Sure, ShapeInv, Clash
  <2> QED
    BY <2>1, <2>2, <2>3
<1>25. CountInv(g)'
  BY <1>2, <1>11, <1>12, <1>14, <1>15 DEF Sure, CountInv, Due
<1>26. UnseenInv(g)'
  BY <1>1, <1>2 DEF Firm, OrphanInv, UnseenInv
<1>30. Firm(g)' /\ Sure(g)'
  BY <1>12, <1>20, <1>21, <1>22, <1>23, <1>24, <1>25, <1>26 DEF Firm, Sure
<1> QED
  BY <1>9, <1>10, <1>30 DEF IInv

(***************************************************************************)
(* A request has its answer, or fails.                                     *)
(***************************************************************************)

\* What a handler leaves of the flags of its card c when it has had its answer
\* to q, and it never unloads the members.
Cleared(q, c, d) ==
    /\ d.busy = (c.busy /\ q.kind \notin {"rename", "leader", "delete"})
    /\ d.loading = (c.loading /\ q.kind # "members")
    /\ d.adding = (c.adding /\ q.kind # "add")
    /\ d.removing = c.removing \ (IF q.kind = "remove" THEN {q.user} ELSE {})
    /\ c.rows # None => d.rows # None
    /\ q.kind = "create" => d = c

\* Request i about g ends, and leaves the card d, if it is still there, and the
\* item l.
Ended(i, g, d, l) ==
    /\ About(i, g) /\ request' = [request EXCEPT ![i] = None]
    /\ d \in Cards /\ Cleared(request[i], card[g], d)
    /\ card' = IF request[i].mine THEN [card EXCEPT ![g] = d] ELSE card
    /\ l \in Items \cup {None} /\ (l = None <=> list[g] = None)
    /\ list' = [list EXCEPT ![g] = l]
    /\ UNCHANGED <<group, changes, page, answer>>

\* The end of a request keeps what always holds; what is then sure is left to
\* show.
LEMMA EndedKeeps ==
  ASSUME IInv, NEW i \in Slots, NEW g \in Groups, NEW d, NEW l, Ended(i, g, d, l),
         doubt' \in [Groups -> SUBSET AllDoubt], doubt[g] \subseteq doubt'[g], DoubtInv(g)',
         unseen' \in [Groups -> SUBSET Users],
         \A h \in Groups \ {g} : doubt'[h] = doubt[h] /\ unseen'[h] = unseen[h],
         Sure(g)'
  PROVE  IInv'
<1> DEFINE q == request[i]
           c == card[g]
<1>1. /\ About(i, g) /\ request' = [request EXCEPT ![i] = None]
      /\ d \in Cards /\ Cleared(q, c, d)
      /\ card' = IF q.mine THEN [card EXCEPT ![g] = d] ELSE card
      /\ l \in Items \cup {None} /\ (l = None <=> list[g] = None)
      /\ list' = [list EXCEPT ![g] = l]
      /\ UNCHANGED <<group, changes, page, answer>>
  BY DEF Ended
<1>2. TypeOK /\ Firm(g)
  BY DEF IInv
<1>3. /\ card' \in [Groups -> Cards] /\ card'[g] = (IF q.mine THEN d ELSE c)
      /\ list' \in Lists /\ list'[g] = l
      /\ request' \in [Slots -> Requests \cup {None}]
      /\ \A h \in Groups \ {g} : card'[h] = card[h] /\ list'[h] = list[h]
  BY <1>1, <1>2 DEF TypeOK, Lists
<1>4. TypeOK'
  BY <1>1, <1>2, <1>3 DEF TypeOK
<1>5. \A j \in Slots : /\ j # i => request'[j] = request[j]
                       /\ About(j, g)' <=> About(j, g) /\ j # i
                       /\ \A h \in Groups \ {g} : About(j, h)' <=> About(j, h)
  BY <1>1, <1>2 DEF About, TypeOK
<1>6. \A h \in Groups \ {g} : Untouched(h)
  BY <1>1, <1>3, <1>5 DEF Untouched, About
<1>7. \A h \in Groups \ {g} : Firm(h)' /\ Sure(h)'
  BY <1>6, Frame DEF IInv
<1>8. Visible(g)' = Visible(g)
  BY <1>1, <1>3 DEF Visible
<1>9. FormInv(g)' /\ ListedInv(g)'
  BY <1>1, <1>2, <1>3, <1>5 DEF Firm, FormInv, Formed, ListedInv
<1>10. OrphanInv(g)'
  <2> SUFFICES ASSUME doubt'[g] # AllDoubt, NEW j \in Slots, About(j, g)'
               PROVE  /\ ~request'[j].mine => page = "shown" /\ list'[g] = None
                      /\ page # "shown" => request'[j].kind = "create" /\ request'[j].mine
    BY <1>1 DEF OrphanInv
  <2>1. doubt[g] # AllDoubt
    OBVIOUS
  <2>2. About(j, g) /\ request'[j] = request[j]
    BY <1>5
  <2> QED
    BY <1>1, <1>2, <1>3, <2>1, <2>2 DEF Firm, OrphanInv
<1>11. FreshInv(g)'
  BY <1>1, <1>2, <1>3, <1>5, <1>8 DEF Firm, FreshInv, Cleared
<1>12. \A kinds, users : Waits(g, kinds, users) =>
         Waits(g, kinds, users)' \/ (q.mine /\ q.kind \in kinds /\ q.user \in users)
  BY <1>5 DEF Waits
<1>13. ControlInv(g)'
  <2>1. card'[g].busy => c.busy /\ (q.mine => q.kind \notin {"rename", "leader", "delete"})
    BY <1>1, <1>3 DEF Cleared
  <2>2. card'[g].loading => c.loading /\ (q.mine => q.kind # "members")
    BY <1>1, <1>3 DEF Cleared
  <2>3. card'[g].adding => c.adding /\ (q.mine => q.kind # "add")
    BY <1>1, <1>3 DEF Cleared
  <2>4. \A u \in card'[g].removing :
          u \in c.removing /\ (q.mine => ~(q.kind = "remove" /\ q.user = u))
    BY <1>1, <1>3 DEF Cleared
  <2>5. card'[g].busy => Waits(g, {"rename", "leader", "delete"}, Users \cup {None})'
    BY <1>2, <1>12, <2>1 DEF Firm, ControlInv
  <2>6. card'[g].loading => Waits(g, {"members"}, {None})'
    BY <1>2, <1>12, <2>2 DEF Firm, ControlInv
  <2>7. card'[g].adding => Waits(g, {"add"}, Users)'
    BY <1>2, <1>12, <2>3 DEF Firm, ControlInv
  <2>8. ASSUME NEW u \in card'[g].removing
        PROVE  Waits(g, {"remove"}, {u})'
    <3>1. Waits(g, {"remove"}, {u})
      BY <1>2, <2>4 DEF Firm, ControlInv
    <3>2. ~(q.mine /\ q.kind \in {"remove"} /\ q.user \in {u})
      BY <2>4
    <3> QED
      BY <1>12, <3>1, <3>2
  <2> QED
    BY <2>5, <2>6, <2>7, <2>8 DEF ControlInv
<1>14. \A j \in Slots : \A k : Mine(j, g, k)' <=> Mine(j, g, k) /\ j # i
  BY <1>5 DEF Mine
<1>15. BusyInv(g)'
  <2>1. \A j \in Slots : Mine(j, g, "add")' => card'[g].adding
    <3> SUFFICES ASSUME NEW j \in Slots, Mine(j, g, "add"), j # i
                 PROVE  card'[g].adding
      BY <1>14
    <3>1. c.adding /\ ~(q.mine /\ q.kind = "add")
      BY <1>1, <1>2 DEF Firm, BusyInv, Mine
    <3> QED
      BY <1>1, <1>3, <3>1 DEF Cleared
  <2>2. \A j \in Slots : Mine(j, g, "remove")' => request'[j].user \in card'[g].removing
    <3> SUFFICES ASSUME NEW j \in Slots, Mine(j, g, "remove"), j # i
                 PROVE  request[j].user \in card'[g].removing
      BY <1>5, <1>14
    <3>1. request[j].user \in c.removing
      BY <1>2 DEF Firm, BusyInv
    <3>2. ~(q.mine /\ q.kind = "remove" /\ q.user = request[j].user)
      BY <1>1, <1>2 DEF Firm, BusyInv, Mine
    <3> QED
      BY <1>1, <1>3, <3>1, <3>2 DEF Cleared
  <2>3. \A j, k \in Slots : Mine(j, g, "add")' /\ Mine(k, g, "add")' => j = k
    BY <1>2, <1>14 DEF Firm, BusyInv
  <2>4. \A j, k \in Slots : Mine(j, g, "remove")' /\ Mine(k, g, "remove")'
                               /\ request'[j].user = request'[k].user => j = k
    BY <1>2, <1>5, <1>14 DEF Firm, BusyInv
  <2> QED
    BY <2>1, <2>2, <2>3, <2>4 DEF BusyInv
<1>16. LoadedInv(g)'
  BY <1>1, <1>2, <1>3, <1>5 DEF Firm, LoadedInv, Cleared
<1>17. Firm(g)'
  BY <1>9, <1>10, <1>11, <1>13, <1>15, <1>16 DEF Firm
<1> QED
  BY <1>4, <1>7, <1>17 DEF IInv

\* What the failure leaves of the card.
LEMMA FailedCard ==
  ASSUME NEW c \in Cards, NEW q \in Requests
  PROVE  LET d == Failed(q, c) IN
         /\ d \in Cards /\ Cleared(q, c, d) /\ d.rows = c.rows
         /\ d.failed = (c.failed \/ q.kind = "members")
<1>1. CASE q.kind \in {"rename", "leader", "delete"}
  <2>1. Failed(q, c) = [c EXCEPT !.busy = FALSE]
    BY <1>1 DEF Failed
  <2> QED
    BY <1>1, <2>1 DEF Cards, Cleared
<1>2. CASE q.kind = "members"
  <2>1. Failed(q, c) = [c EXCEPT !.loading = FALSE, !.failed = TRUE]
    BY <1>2 DEF Failed
  <2> QED
    BY <1>2, <2>1 DEF Cards, Cleared
<1>3. CASE q.kind = "add"
  <2>1. Failed(q, c) = [c EXCEPT !.adding = FALSE]
    BY <1>3 DEF Failed
  <2> QED
    BY <1>3, <2>1 DEF Cards, Cleared
<1>4. CASE q.kind = "remove"
  <2>1. Failed(q, c) = [c EXCEPT !.removing = c.removing \ {q.user}]
    BY <1>4 DEF Failed, Cards
  <2> QED
    BY <1>4, <2>1 DEF Cards, Cleared
<1>5. CASE q.kind = "create"
  <2>1. Failed(q, c) = c
    BY <1>5 DEF Failed
  <2> QED
    BY <1>5, <2>1 DEF Cards, Cleared
<1> QED
  BY <1>1, <1>2, <1>3, <1>4, <1>5 DEF Requests

\* What is left of the group when request i has ended.
Left(i, g, d, l) ==
    /\ \A j \in Slots : /\ j # i => request'[j] = request[j]
                        /\ About(j, g)' <=> About(j, g) /\ j # i
                        /\ Back(j, g)' <=> Back(j, g) /\ j # i
                        /\ \A k : Mine(j, g, k)' <=> Mine(j, g, k) /\ j # i
    /\ card'[g] = (IF request[i].mine THEN d ELSE card[g])
    /\ list'[g] = l /\ Visible(g)' = Visible(g) /\ Known' = Known
    /\ Coming(g)' = (IF page = "answered" THEN answer[g] ELSE l)
    /\ (g \in Existing)' <=> g \in Existing
    /\ group' = group /\ page' = page

\* What the end of a request leaves of the others.
LEMMA EndedLeaves ==
  ASSUME IInv, NEW i \in Slots, NEW g \in Groups, NEW d, NEW l, Ended(i, g, d, l)
  PROVE  Left(i, g, d, l)
<1>1. /\ About(i, g) /\ request' = [request EXCEPT ![i] = None]
      /\ card' = IF request[i].mine THEN [card EXCEPT ![g] = d] ELSE card
      /\ (l = None <=> list[g] = None)
      /\ list' = [list EXCEPT ![g] = l]
      /\ UNCHANGED <<group, changes, page, answer>>
  BY DEF Ended
<1>2. TypeOK
  BY DEF IInv
<1>3. card'[g] = (IF request[i].mine THEN d ELSE card[g]) /\ list'[g] = l
  BY <1>1, <1>2 DEF TypeOK, Lists
<1>4. \A j \in Slots : /\ j # i => request'[j] = request[j]
                       /\ About(j, g)' <=> About(j, g) /\ j # i
  BY <1>1, <1>2 DEF About, TypeOK
<1>5. \A j \in Slots : /\ Back(j, g)' <=> Back(j, g) /\ j # i
                       /\ \A k : Mine(j, g, k)' <=> Mine(j, g, k) /\ j # i
  BY <1>4 DEF Back, Mine
<1>6. /\ Visible(g)' = Visible(g) /\ Known' = Known
      /\ Coming(g)' = (IF page = "answered" THEN answer[g] ELSE l)
      /\ (g \in Existing)' <=> g \in Existing
  BY <1>1, <1>3 DEF Visible, Known, Coming, Existing
<1> QED
  BY <1>1, <1>3, <1>4, <1>5, <1>6 DEF Left

\* A failure changes nothing that is shown but for the error; where the backend
\* may have done what was asked for, the page cannot know.
LEMMA FailKeeps ==
  ASSUME IInv, NEW i \in Slots, Fail(i)
  PROVE  IInv'
<1>0. PICK g \in Groups : g = request[i].group
  BY DEF Fail, IInv, TypeOK, Requests
<1> DEFINE q == request[i]
           c == card[g]
           d == Failed(q, c)
           l == list[g]
<1>1. /\ q # None /\ request' = [request EXCEPT ![i] = None]
      /\ card' = IF q.mine THEN [card EXCEPT ![g] = d] ELSE card
      /\ doubt' = [doubt EXCEPT ![g] =
            IF q.at = "ok" /\ q.kind # "members" THEN AllDoubt ELSE doubt[g]]
      /\ UNCHANGED <<group, changes, page, answer, list, unseen>>
  BY <1>0 DEF Fail, Set, backendVars, pageVars
<1>2. TypeOK /\ q \in Requests /\ About(i, g) /\ Firm(g) /\ Sure(g) /\ c \in Cards
  BY <1>0, <1>1 DEF IInv, TypeOK, About
<1>3. /\ d \in Cards /\ Cleared(q, c, d) /\ d.rows = c.rows
      /\ d.failed = (c.failed \/ q.kind = "members")
  BY <1>2, FailedCard
<1> HIDE DEF d
<1>4. l \in Items \cup {None} /\ list' = [list EXCEPT ![g] = l]
  BY <1>1, <1>2 DEF TypeOK, Lists
<1>5. Ended(i, g, d, l)
  BY <1>1, <1>2, <1>3, <1>4 DEF Ended
<1>6. Left(i, g, d, l)
  BY <1>5, EndedLeaves
<1>7. /\ doubt' \in [Groups -> SUBSET AllDoubt] /\ doubt[g] \subseteq doubt'[g]
      /\ unseen' \in [Groups -> SUBSET Users]
      /\ \A h \in Groups \ {g} : doubt'[h] = doubt[h] /\ unseen'[h] = unseen[h]
      /\ doubt'[g] = IF q.at = "ok" /\ q.kind # "members" THEN AllDoubt ELSE doubt[g]
  BY <1>1, <1>2 DEF TypeOK
<1>8. DoubtInv(g)'
  BY <1>2, <1>7 DEF Firm, DoubtInv, AllDoubt
<1>9. Sure(g)'
  <2>1. CASE q.at = "ok" /\ q.kind # "members"
    BY <1>7, <2>1, Doubtful
  <2>2. CASE q.at # "ok" \/ q.kind = "members"
    <3>1. doubt'[g] = doubt[g]
      BY <1>7, <2>2
    <3>2. /\ \A j \in Slots : /\ j # i => request'[j] = request[j]
                              /\ About(j, g)' <=> About(j, g) /\ j # i
                              /\ Back(j, g)' <=> Back(j, g) /\ j # i
                              /\ \A k : Mine(j, g, k)' <=> Mine(j, g, k) /\ j # i
          /\ card'[g] = (IF q.mine THEN d ELSE c)
          /\ list'[g] = list[g] /\ Visible(g)' = Visible(g) /\ Known' = Known
          /\ Coming(g)' = Coming(g)
          /\ (g \in Existing)' <=> g \in Existing
          /\ group' = group /\ page' = page
      BY <1>6 DEF Left, Coming
    <3>3. card'[g].rows = c.rows
      BY <1>3, <3>2
    <3>4. \A j \in Slots : Back(j, g) /\ request[j].kind # "members" => j # i
      BY <2>2 DEF Back
    <3>5. ErrorInv(g)'
      <4> SUFFICES ASSUME "error" \notin doubt[g]
                   PROVE  /\ card'[g].failed => c.rows = None
                          /\ \A j \in Slots : Mine(j, g, "members")' => c.rows = None /\ ~card'[g].failed
                          /\ \A j, k \in Slots :
                                /\ About(j, g)' /\ request'[j].kind = "members"
                                /\ About(k, g)' /\ request'[k].kind = "members"
                                => j = k
        BY <3>1, <3>3 DEF ErrorInv
      <4>1. q.mine /\ q.kind = "members" =>
               c.rows = None /\ \A j \in Slots : Mine(j, g, "members") => j = i
        BY <1>2 DEF Sure, ErrorInv, Mine
      <4>2. card'[g].failed => c.failed \/ (q.mine /\ q.kind = "members")
        BY <1>3, <3>2
      <4> QED
        BY <1>2, <3>2, <4>1, <4>2 DEF Sure, ErrorInv
    <3>6. ListInv(g)'
      BY <1>2, <3>1, <3>2, <3>4 DEF Sure, ListInv
    <3>7. OneInv(g)'
      BY <1>2, <3>1, <3>2 DEF Sure, OneInv
    <3>8. ItemInv(g)'
      BY <1>2, <3>1, <3>2, <3>4 DEF Sure, ItemInv
    <3>9. ShapeInv(g)'
      BY <1>2, <3>1, <3>2, <3>3 DEF Sure, ShapeInv
    <3>10. \A u : Open(g, u) => Open(g, u)'
      BY <3>2, <3>4 DEF Open
    <3>11. Seen(g)' = Seen(g)
      BY <1>1, <3>2 DEF Seen
    <3>12. TruthInv(g)'
      BY <1>2, <3>1, <3>2, <3>3, <3>10, <3>11 DEF Sure, TruthInv, Told
    <3>13. CountInv(g)'
      BY <1>2, <3>1, <3>2, <3>4, <3>11 DEF Sure, CountInv, Due
    <3>14. SumInv(g)' /\ UnseenInv(g)'
      BY <1>1, <1>2, <3>1, <3>2, <3>3 DEF Sure, SumInv, UnseenInv
    <3> QED
      BY <3>5, <3>6, <3>7, <3>8, <3>9, <3>12, <3>13, <3>14 DEF Sure
  <2> QED
    BY <2>1, <2>2
<1> QED
  BY <1>5, <1>7, <1>8, <1>9, EndedKeeps

(***************************************************************************)
(* Rows and their number.                                                  *)
(***************************************************************************)

RowSet(rows) == UNION {{u} \X (1..rows[u]) : u \in Users}

\* There are finitely many rows.
LEMMA RowSetFinite ==
  ASSUME NEW rows \in MemberRows
  PROVE  IsFiniteSet(RowSet(rows)) /\ Total(rows) \in Nat
<1> DEFINE R(u) == {u} \X (1..rows[u])
           T == {R(u) : u \in Users}
           f == [u \in Users |-> R(u)]
<1>1. IsFiniteSet(Users)
  BY GroupsPageAssumption
<1>2. \A u \in Users : IsFiniteSet(R(u))
  <2> SUFFICES ASSUME NEW u \in Users
               PROVE  IsFiniteSet({u} \X (1..rows[u]))
    OBVIOUS
  <2>1. rows[u] \in Nat
    BY DEF MemberRows
  <2>2. IsFiniteSet(1..rows[u])
    BY <2>1, FS_Interval
  <2>3. IsFiniteSet({u})
    BY FS_Singleton
  <2> QED
    BY <2>2, <2>3, FS_Product
<1> HIDE DEF R
<1>3. f \in Surjection(Users, T)
  BY DEF Surjection
<1>4. IsFiniteSet(T)
  BY <1>1, <1>3, FS_Surjection
<1>5. IsFiniteSet(UNION T)
  BY <1>2, <1>4, FS_UNION
<1>6. RowSet(rows) = UNION T /\ Total(rows) = Cardinality(UNION T)
  BY DEF RowSet, Total, R
<1> QED
  BY <1>5, <1>6, FS_CardinalityType

\* One more row, or one less.
LEMMA OneRow ==
  ASSUME NEW rows \in MemberRows, NEW more \in MemberRows, NEW u \in Users,
         rows[u] = 0, more[u] = 1, \A v \in Users \ {u} : more[v] = rows[v]
  PROVE  Total(more) = Total(rows) + 1
<1>1. \A v \in Users : rows[v] \in Nat /\ more[v] \in Nat
  BY DEF MemberRows
<1>2. <<u, 1>> \notin RowSet(rows)
  <2> SUFFICES ASSUME NEW v \in Users, <<u, 1>> \in {v} \X (1..rows[v])
               PROVE  FALSE
    BY DEF RowSet
  <2>1. u = v /\ 1 \in 1..rows[v]
    OBVIOUS
  <2> QED
    BY <2>1
<1>3. RowSet(more) = RowSet(rows) \cup {<<u, 1>>}
  <2>1. ASSUME NEW v \in Users, NEW e \in {v} \X (1..more[v])
        PROVE  e \in RowSet(rows) \cup {<<u, 1>>}
    <3>1. CASE v = u
      <4>1. more[v] = 1 /\ 1..more[v] = {1}
        BY <3>1
      <4>2. e = <<u, 1>>
        BY <2>1, <3>1, <4>1
      <4> QED
        BY <4>2
    <3>2. CASE v # u
      <4>1. e \in {v} \X (1..rows[v])
        BY <2>1, <3>2
      <4> QED
        BY <4>1 DEF RowSet
    <3> QED
      BY <3>1, <3>2
  <2>2. ASSUME NEW v \in Users, NEW e \in {v} \X (1..rows[v])
        PROVE  e \in RowSet(more)
    <3>1. v # u
      <4> SUFFICES ASSUME v = u PROVE FALSE
        OBVIOUS
      <4>1. 1..rows[v] = {}
        OBVIOUS
      <4> QED
        BY <2>2, <4>1
    <3>2. e \in {v} \X (1..more[v])
      BY <2>2, <3>1
    <3> QED
      BY <3>2 DEF RowSet
  <2>3. <<u, 1>> \in RowSet(more)
    <3>1. 1 \in 1..more[u]
      OBVIOUS
    <3>2. <<u, 1>> \in {u} \X (1..more[u])
      BY <3>1
    <3> QED
      BY <3>2 DEF RowSet
  <2>4. RowSet(more) \subseteq RowSet(rows) \cup {<<u, 1>>}
    BY <2>1 DEF RowSet
  <2>5. RowSet(rows) \subseteq RowSet(more)
    BY <2>2 DEF RowSet
  <2> QED
    BY <2>3, <2>4, <2>5
<1>4. IsFiniteSet(RowSet(rows)) /\ Total(rows) \in Nat
  BY RowSetFinite
<1>5. Cardinality(RowSet(more)) = Cardinality(RowSet(rows)) + 1
  BY <1>2, <1>3, <1>4, FS_AddElement
<1> QED
  BY <1>5 DEF Total, RowSet

\* Each member has a row.
LEMMA RowsOfMembers ==
  ASSUME NEW S \in SUBSET Users
  PROVE  /\ RowsFor(S) \in MemberRows
         /\ Cardinality(S) \in Nat /\ Total(RowsFor(S)) = Cardinality(S)
<1> DEFINE rows == RowsFor(S)
<1>1. rows \in MemberRows /\ \A u \in Users : rows[u] = IF u \in S THEN 1 ELSE 0
  BY DEF RowsFor, MemberRows
<1>2. RowSet(rows) = S \X {1}
  <2>1. \A u \in Users : u \in S => 1..rows[u] = {1}
    BY <1>1
  <2>2. \A u \in Users : u \notin S => 1..rows[u] = {}
    BY <1>1
  <2> HIDE DEF rows
  <2>3. ASSUME NEW u \in Users, NEW e \in {u} \X (1..rows[u])
        PROVE  e \in S \X {1}
    <3>1. u \in S
      BY <2>2, <2>3
    <3>2. e \in {u} \X {1}
      BY <2>1, <2>3, <3>1
    <3> QED
      BY <3>1, <3>2
  <2>4. ASSUME NEW u \in S
        PROVE  <<u, 1>> \in RowSet(rows)
    <3>1. u \in Users /\ <<u, 1>> \in {u} \X (1..rows[u])
      BY <2>1
    <3> QED
      BY <3>1 DEF RowSet
  <2>5. RowSet(rows) \subseteq S \X {1}
    BY <2>3 DEF RowSet
  <2>6. S \X {1} \subseteq RowSet(rows)
    BY <2>4
  <2> QED
    BY <2>5, <2>6
<1>3. IsFiniteSet(S)
  BY FS_Subset, GroupsPageAssumption
<1>4. Cardinality(S) \in Nat
  BY <1>3, FS_CardinalityType
<1>5. IsFiniteSet({1}) /\ Cardinality({1}) = 1
  BY FS_Singleton
<1>6. Cardinality(S \X {1}) = Cardinality(S) * 1
  BY <1>3, <1>5, FS_Product
<1>7. Total(rows) = Cardinality(S \X {1})
  BY <1>2 DEF Total, RowSet
<1> QED
  BY <1>1, <1>4, <1>6, <1>7

(***************************************************************************)
(* The answers.                                                            *)
(***************************************************************************)

\* With the members that are loaded, the page knows of all it has been told.
ToldAbout(i, g) ==
    /\ doubt' = doubt
    /\ unseen' = [unseen EXCEPT ![g] =
          IF request[i].kind = "members" THEN unseen[g] \ request[i].data ELSE unseen[g]]

\* Request i of a card that is shown has its answer, which leaves the item l
\* and the card d.
Goes(i, g, d, l) ==
    /\ Ended(i, g, d, l) /\ ToldAbout(i, g)
    /\ Back(i, g) /\ request[i].mine /\ Visible(g) /\ request[i].kind \in OfItem
    /\ l.name = IF request[i].kind = "rename" THEN request[i].name ELSE request[i].item.name
    /\ l.leader = IF request[i].kind = "leader" THEN request[i].user ELSE request[i].item.leader

\* What is known of the group before the answer, and what is left after it.
LEMMA GoesFrom ==
  ASSUME IInv, NEW i \in Slots, NEW g \in Groups, NEW d, NEW l, Goes(i, g, d, l),
         doubt[g] # AllDoubt
  PROVE  /\ \A j \in Slots : /\ j # i => request'[j] = request[j]
                             /\ About(j, g)' <=> About(j, g) /\ j # i
                             /\ Back(j, g)' <=> Back(j, g) /\ j # i
                             /\ Mine(j, g, "members")' <=> Mine(j, g, "members") /\ j # i
         /\ card'[g] = d /\ list'[g] = l /\ Visible(g)' /\ Known /\ Known'
         /\ list[g] \in Items /\ l \in Items /\ l # None
         /\ Coming(g) = list[g] /\ Coming(g)' = l
         /\ (g \in Existing)' <=> g \in Existing
         /\ group' = group /\ doubt' = doubt
         /\ request[i].kind # "members" => Seen(g)' = Seen(g)
         /\ \A j \in Slots : About(j, g) => /\ request[j].mine /\ request[j] \in Requests
                                            /\ Formed(request[j])
         /\ "item" \notin doubt[g] =>
               /\ request[i].item = list[g]
               /\ \A j \in Slots : About(j, g) /\ j # i => request[j].kind \notin OfItem
         /\ "rows" \notin doubt[g] => \A j \in Slots : About(j, g) /\ j # i =>
               ~Clash(request[i].kind, request[j].kind)
<1>1. TypeOK /\ Firm(g) /\ Sure(g) /\ Left(i, g, d, l)
  BY EndedLeaves DEF IInv, Goes
<1>2. /\ Back(i, g) /\ About(i, g) /\ request[i].mine /\ Visible(g) /\ request[i].kind \in OfItem
      /\ l \in Items \cup {None} /\ (l = None <=> list[g] = None) /\ doubt' = doubt
  BY DEF Goes, Ended, Back, ToldAbout
<1>3. /\ page = "shown" /\ list[g] # None /\ list[g] \in Items /\ l # None /\ l \in Items
  BY <1>1, <1>2 DEF Visible, TypeOK, Lists
<1>4. /\ \A j \in Slots : /\ j # i => request'[j] = request[j]
                          /\ About(j, g)' <=> About(j, g) /\ j # i
                          /\ Back(j, g)' <=> Back(j, g) /\ j # i
                          /\ Mine(j, g, "members")' <=> Mine(j, g, "members") /\ j # i
      /\ card'[g] = d /\ list'[g] = l /\ Visible(g)' /\ Known /\ Known'
      /\ Coming(g) = list[g] /\ Coming(g)' = l
      /\ group' = group
  BY <1>1, <1>2, <1>3 DEF Left, Known, Coming
<1>5. (g \in Existing)' <=> g \in Existing
  BY <1>1 DEF Left
<1>6. \A j \in Slots : About(j, g) => request[j] \in Requests /\ Formed(request[j])
  BY <1>1 DEF TypeOK, About, Firm, FormInv
<1>7. \A j \in Slots : About(j, g) => request[j].mine
  BY <1>1, <1>3 DEF Firm, OrphanInv
<1>8. "item" \notin doubt[g] =>
        /\ request[i].item = list[g]
        /\ \A j \in Slots : About(j, g) /\ j # i => request[j].kind \notin OfItem
  BY <1>1, <1>2 DEF Sure, OneInv
<1>9. "rows" \notin doubt[g] => \A j \in Slots : About(j, g) /\ j # i =>
        ~Clash(request[i].kind, request[j].kind)
  BY <1>1, <1>2 DEF Sure, ShapeInv
<1>10. request[i].kind # "members" => Seen(g)' = Seen(g)
  BY <1>1, <1>4 DEF Goes, ToldAbout, Seen, TypeOK
<1> QED
  BY <1>2, <1>3, <1>4, <1>5, <1>6, <1>7, <1>8, <1>9, <1>10

\* The list, the item, and the number once it is the right one.
LEMMA GoesItem ==
  ASSUME IInv, NEW i \in Slots, NEW g \in Groups, NEW d, NEW l, Goes(i, g, d, l),
         doubt[g] # AllDoubt
  PROVE  /\ ListInv(g)' /\ OneInv(g)' /\ ItemInv(g)'
         /\ UnseenInv(g)'
         /\ (g \in Existing /\ "count" \notin doubt[g] => l.count = Cardinality(Seen(g)'))
               => CountInv(g)'
<1>1. Firm(g) /\ Sure(g)
  BY DEF IInv
<1>2. /\ Back(i, g) /\ About(i, g) /\ request[i].mine /\ Visible(g) /\ request[i].kind \in OfItem
      /\ l.name = IF request[i].kind = "rename" THEN request[i].name ELSE request[i].item.name
      /\ l.leader = IF request[i].kind = "leader" THEN request[i].user ELSE request[i].item.leader
  BY DEF Goes, Back
<1>3. /\ \A j \in Slots : /\ j # i => request'[j] = request[j]
                          /\ About(j, g)' <=> About(j, g) /\ j # i
                          /\ Back(j, g)' <=> Back(j, g) /\ j # i
      /\ list'[g] = l /\ Visible(g)' /\ Known /\ Known' /\ list[g] \in Items /\ l # None
      /\ list[g] # None
      /\ Coming(g) = list[g] /\ Coming(g)' = l
      /\ group' = group /\ doubt' = doubt
  BY <1>2, GoesFrom DEF Visible
<1>4. (g \in Existing)' <=> g \in Existing
  BY GoesFrom
<1>5. "item" \notin doubt[g] =>
        /\ request[i].item = list[g]
        /\ \A j \in Slots : About(j, g) /\ j # i => request[j].kind \notin OfItem
  BY GoesFrom
<1>6. ListInv(g)'
  BY <1>1, <1>2, <1>3, <1>4 DEF Sure, ListInv, OfItem
<1>7. OneInv(g)'
  BY <1>3, <1>5 DEF OneInv
<1>8. ItemInv(g)'
  <2> SUFFICES ASSUME "item" \notin doubt[g], g \in Existing
               PROVE  /\ l.name = group[g].name /\ l.leader = group[g].leader
                      /\ \A j \in Slots : Back(j, g) /\ j # i => Says(request[j], group[g])
    BY <1>3, <1>4 DEF ItemInv, Says
  <2>1. \A j \in Slots : Back(j, g) /\ j # i => request[j].kind \notin OfItem
    BY <1>5 DEF Back
  <2>2. /\ \A j \in Slots : Back(j, g) => Says(request[j], group[g])
        /\ list[g].name # group[g].name =>
              \E j \in Slots : Back(j, g) /\ request[j].kind = "rename"
        /\ list[g].leader # group[g].leader =>
              \E j \in Slots : Back(j, g) /\ request[j].kind = "leader"
    BY <1>1, <1>3 DEF Sure, ItemInv
  <2>3. Says(request[i], group[g])
    BY <1>2, <2>2
  <2>4. l.name = group[g].name
    BY <1>2, <1>5, <2>1, <2>2, <2>3 DEF OfItem, Says
  <2>5. l.leader = group[g].leader
    BY <1>2, <1>5, <2>1, <2>2, <2>3 DEF OfItem, Says
  <2> QED
    BY <2>2, <2>4, <2>5
<1>9. ASSUME g \in Existing /\ "count" \notin doubt[g] => l.count = Cardinality(Seen(g)')
      PROVE  CountInv(g)'
  <2> SUFFICES ASSUME "count" \notin doubt[g], g \in Existing
               PROVE  /\ \A j \in Slots : Back(j, g) /\ j # i =>
                            Due(request[j], Cardinality(Seen(g)'), l.count)
                      /\ Cardinality(Seen(g)') = l.count
    BY <1>3, <1>4 DEF CountInv, Due
  <2>1. "item" \notin doubt[g]
    BY <1>1 DEF Firm, DoubtInv
  <2>2. \A j \in Slots : Back(j, g) /\ j # i => request[j].kind \notin OfItem
    BY <1>5, <2>1 DEF Back
  <2> QED
    BY <1>9, <2>2 DEF Due, OfItem
<1>10. UnseenInv(g)'
  BY <1>2, <1>3 DEF UnseenInv, Visible
<1> QED
  BY <1>6, <1>7, <1>8, <1>9, <1>10

\* handleRename
LEMMA RenamedSure ==
  ASSUME IInv, NEW i \in Slots, NEW g \in Groups, NEW d, NEW l, Goes(i, g, d, l),
         doubt[g] # AllDoubt, request[i].kind = "rename",
         l.count = request[i].item.count, d.rows = card[g].rows, d.failed = card[g].failed
  PROVE  Sure(g)'
<1>1. Firm(g) /\ Sure(g) /\ Back(i, g) /\ Visible(g)
  BY DEF IInv, Goes
<1>2. /\ \A j \in Slots : /\ j # i => request'[j] = request[j]
                          /\ About(j, g)' <=> About(j, g) /\ j # i
                          /\ Back(j, g)' <=> Back(j, g) /\ j # i
                          /\ Mine(j, g, "members")' <=> Mine(j, g, "members") /\ j # i
      /\ card'[g] = d /\ list'[g] = l /\ Visible(g)' /\ Known /\ Coming(g) = list[g]
      /\ list[g] \in Items /\ list[g] # None /\ group' = group /\ doubt' = doubt
  BY <1>1, GoesFrom DEF Visible
<1>3. ((g \in Existing)' <=> g \in Existing) /\ Seen(g)' = Seen(g)
  BY GoesFrom
<1>4. "item" \notin doubt[g] =>
        /\ request[i].item = list[g]
        /\ \A j \in Slots : About(j, g) /\ j # i => request[j].kind \notin OfItem
  BY GoesFrom
<1>5. "count" \notin doubt[g] => "item" \notin doubt[g] /\ "rows" \notin doubt[g]
  BY <1>1 DEF Firm, DoubtInv
<1>6. "count" \notin doubt[g] => l.count = list[g].count
  BY <1>4, <1>5
<1>7. g \in Existing /\ "count" \notin doubt[g] => l.count = Cardinality(Seen(g))
  <2> SUFFICES ASSUME g \in Existing, "count" \notin doubt[g]
               PROVE  list[g].count = Cardinality(Seen(g))
    BY <1>6
  <2>1. \A j \in Slots : Back(j, g) => request[j].kind \notin {"leader", "add", "remove"}
    BY <1>4, <1>5 DEF Back, OfItem
  <2> QED
    BY <1>1, <1>2, <2>1 DEF Sure, CountInv
<1>8. ListInv(g)' /\ OneInv(g)' /\ ItemInv(g)' /\ CountInv(g)' /\ UnseenInv(g)'
  BY <1>3, <1>7, GoesItem
<1>9. ErrorInv(g)'
  BY <1>1, <1>2 DEF Sure, ErrorInv
<1>10. ShapeInv(g)'
  BY <1>1, <1>2 DEF Sure, ShapeInv
<1>11. \A u : Open(g, u)' <=> Open(g, u)
  BY <1>2 DEF Open
<1>12. TruthInv(g)'
  BY <1>1, <1>2, <1>3, <1>11 DEF Sure, TruthInv, Told
<1>13. SumInv(g)'
  BY <1>1, <1>2, <1>6 DEF Sure, SumInv
<1> QED
  BY <1>8, <1>9, <1>10, <1>12, <1>13 DEF Sure

\* handleChangeLeader: the members are written back as they were, with the new
\* leader among them.
LEMMA LeaderChangedSure ==
  ASSUME IInv, NEW i \in Slots, NEW g \in Groups, NEW d, NEW l, Goes(i, g, d, l),
         doubt[g] # AllDoubt, request[i].kind = "leader",
         l.count = IF NextRows(request[i]) = None THEN request[i].item.count
                   ELSE Total(NextRows(request[i])),
         d.rows = IF NextRows(request[i]) = request[i].rows THEN card[g].rows
                  ELSE NextRows(request[i]),
         d.failed = card[g].failed
  PROVE  Sure(g)'
<1> DEFINE q == request[i]
           c == card[g]
           next == NextRows(q)
<1>1. Firm(g) /\ Sure(g) /\ Back(i, g) /\ About(i, g) /\ Visible(g) /\ d \in Cards /\ TypeOK
  BY DEF IInv, Goes, Ended
<1>2. /\ \A j \in Slots : /\ j # i => request'[j] = request[j]
                          /\ About(j, g)' <=> About(j, g) /\ j # i
                          /\ Back(j, g)' <=> Back(j, g) /\ j # i
                          /\ Mine(j, g, "members")' <=> Mine(j, g, "members") /\ j # i
      /\ card'[g] = d /\ list'[g] = l /\ Visible(g)' /\ Known /\ Coming(g) = list[g]
      /\ list[g] \in Items /\ list[g] # None /\ group' = group /\ doubt' = doubt
  BY <1>1, GoesFrom DEF Visible
<1>3. ((g \in Existing)' <=> g \in Existing) /\ Seen(g)' = Seen(g)
  BY GoesFrom
<1>4. /\ "item" \notin doubt[g] =>
           /\ q.item = list[g]
           /\ \A j \in Slots : About(j, g) /\ j # i => request[j].kind \notin OfItem
      /\ "rows" \notin doubt[g] => \A j \in Slots : About(j, g) /\ j # i => ~Clash(q.kind, request[j].kind)
      /\ \A j \in Slots : About(j, g) => request[j].mine
  BY GoesFrom
<1>5. "count" \notin doubt[g] => "item" \notin doubt[g] /\ "rows" \notin doubt[g]
  BY <1>1 DEF Firm, DoubtInv
<1>6. q \in Requests /\ q.user \in Users /\ q.rows \in MemberRows \cup {None} /\ c \in Cards
      /\ q.mine
  BY <1>1, GoesFrom DEF Formed, Requests, TypeOK
<1>7. /\ q.rows = None => next = None
      /\ q.rows # None => next \in MemberRows /\ next # None
  <2>1. q.rows = None => next = None
    BY DEF NextRows
  <2>2. q.rows # None => next \in MemberRows
    BY <1>6 DEF NextRows, MemberRows
  <2> QED
    BY <2>1, <2>2, GroupsPageAssumption
<1>8. "rows" \notin doubt[g] => q.rows = c.rows /\ d.rows = next
  BY <1>1 DEF Sure, ShapeInv
<1>9. q.rows # None => c.rows # None
  BY <1>1, <1>4 DEF Firm, LoadedInv
<1>10. d.rows = None <=> c.rows = None
  BY <1>7, <1>9
<1>11. "rows" \notin doubt[g] => \A j \in Slots : About(j, g) /\ j # i =>
         request[j].kind \notin {"leader", "members", "add", "remove"}
  BY <1>4 DEF Clash
<1>12. "rows" \notin doubt[g] /\ g \in Existing /\ q.rows # None => next = RowsFor(Seen(g))
  BY <1>1 DEF Sure, TruthInv, Told
<1> HIDE DEF next
<1>13. g \in Existing => Seen(g) \in SUBSET Users
  BY <1>1 DEF TypeOK, Existing, GroupRows, Seen
<1>14. g \in Existing /\ "count" \notin doubt[g] => l.count = Cardinality(Seen(g))
  <2> SUFFICES ASSUME g \in Existing, "count" \notin doubt[g]
               PROVE  l.count = Cardinality(Seen(g))
    OBVIOUS
  <2>1. CASE q.rows = None
    <3>1. l.count = list[g].count
      BY <1>4, <1>5, <1>7, <2>1 DEF next
    <3>2. Due(q, Cardinality(Seen(g)), list[g].count)
      BY <1>1, <1>2 DEF Sure, CountInv
    <3> QED
      BY <2>1, <3>1, <3>2 DEF Due
  <2>2. CASE q.rows # None
    <3>1. l.count = Total(next) /\ next = RowsFor(Seen(g))
      BY <1>5, <1>7, <1>12, <2>2 DEF next
    <3> QED
      BY <1>13, <3>1, RowsOfMembers
  <2> QED
    BY <2>1, <2>2
<1>15. ListInv(g)' /\ OneInv(g)' /\ ItemInv(g)' /\ CountInv(g)' /\ UnseenInv(g)'
  BY <1>3, <1>14, GoesItem
<1>16. ErrorInv(g)'
  BY <1>1, <1>2, <1>10 DEF Sure, ErrorInv
<1>17. ShapeInv(g)'
  <2> SUFFICES ASSUME "rows" \notin doubt[g]
               PROVE  d.rows # None => \A u \in Users : d.rows[u] \in {0, 1}
    BY <1>2, <1>11 DEF ShapeInv, Clash
  <2>1. c.rows # None => \A u \in Users : c.rows[u] \in {0, 1}
    BY <1>1 DEF Sure, ShapeInv
  <2> QED
    BY <1>6, <1>8, <2>1 DEF next, NextRows, MemberRows
<1>18. TruthInv(g)'
  <2> SUFFICES ASSUME "rows" \notin doubt[g], g \in Existing
               PROVE  /\ \A j \in Slots : Back(j, g) /\ j # i =>
                            /\ Told(request[j], Seen(g))
                            /\ request[j].kind = "members" => request[j].data = group[g].members
                      /\ d.rows # None => \A u \in Users : d.rows[u] = 1 <=> u \in Seen(g)
    BY <1>2, <1>3 DEF TruthInv, Told
  <2>1. \A j \in Slots : Back(j, g) /\ j # i =>
          /\ Told(request[j], Seen(g))
          /\ request[j].kind = "members" => request[j].data = group[g].members
    BY <1>1 DEF Sure, TruthInv
  <2>2. d.rows # None => d.rows = RowsFor(Seen(g))
    BY <1>7, <1>8, <1>12
  <2> QED
    BY <2>1, <2>2 DEF RowsFor
<1>19. SumInv(g)'
  <2> SUFFICES ASSUME "count" \notin doubt[g], d.rows # None
               PROVE  l.count = Total(d.rows)
    BY <1>2 DEF SumInv
  <2>1. next # None /\ d.rows = next
    BY <1>5, <1>7, <1>8
  <2> QED
    BY <2>1 DEF next
<1> QED
  BY <1>15, <1>16, <1>17, <1>18, <1>19 DEF Sure

\* handleToggleMembers: the members come, and are counted.
LEMMA MembersLoadedSure ==
  ASSUME IInv, NEW i \in Slots, NEW g \in Groups, NEW d, NEW l, Goes(i, g, d, l),
         doubt[g] # AllDoubt, request[i].kind = "members",
         l.count = Cardinality(request[i].data),
         d.rows = RowsFor(request[i].data), d.failed = card[g].failed
  PROVE  Sure(g)'
<1> DEFINE q == request[i]
           c == card[g]
<1>1. /\ Firm(g) /\ Sure(g) /\ Back(i, g) /\ About(i, g) /\ Visible(g) /\ Mine(i, g, "members")
  BY DEF IInv, Goes, Back, Mine
<1>2. /\ \A j \in Slots : /\ j # i => request'[j] = request[j]
                          /\ About(j, g)' <=> About(j, g) /\ j # i
                          /\ Back(j, g)' <=> Back(j, g) /\ j # i
                          /\ Mine(j, g, "members")' <=> Mine(j, g, "members") /\ j # i
      /\ card'[g] = d /\ list'[g] = l /\ Visible(g)' /\ group' = group /\ doubt' = doubt
  BY <1>1, GoesFrom DEF Visible
<1>3. (g \in Existing)' <=> g \in Existing
  BY GoesFrom
<1>4. "rows" \notin doubt[g] => \A j \in Slots : About(j, g) /\ j # i =>
        request[j].kind \notin {"leader", "add", "remove"}
  BY GoesFrom DEF Clash
<1>5. "count" \notin doubt[g] => "item" \notin doubt[g] /\ "rows" \notin doubt[g]
  BY <1>1 DEF Firm, DoubtInv
<1>6. q.data \in SUBSET Users
  BY <1>1, GoesFrom DEF Requests
<1>7. "rows" \notin doubt[g] /\ g \in Existing =>
        q.data = group[g].members /\ Seen(g)' = group[g].members
  <2> SUFFICES ASSUME "rows" \notin doubt[g], g \in Existing
               PROVE  q.data = group[g].members /\ Seen(g)' = group[g].members
    OBVIOUS
  <2>1. q.data = group[g].members
    BY <1>1 DEF Sure, TruthInv
  <2>2. unseen'[g] = unseen[g] \ q.data
    BY DEF Goes, ToldAbout, IInv, TypeOK
  <2> QED
    BY <1>2, <2>1, <2>2 DEF Seen
<1>8. g \in Existing /\ "count" \notin doubt[g] => l.count = Cardinality(Seen(g)')
  BY <1>5, <1>7
<1>9. ListInv(g)' /\ OneInv(g)' /\ ItemInv(g)' /\ CountInv(g)' /\ UnseenInv(g)'
  BY <1>8, GoesItem
<1>10. ErrorInv(g)'
  <2> SUFFICES ASSUME "error" \notin doubt[g]
               PROVE  /\ ~d.failed
                      /\ \A j \in Slots : About(j, g) /\ request[j].kind = "members" => j = i
    BY <1>2 DEF ErrorInv, Mine
  <2> QED
    BY <1>1 DEF Sure, ErrorInv, Mine
<1>11. ShapeInv(g)'
  <2> SUFFICES ASSUME "rows" \notin doubt[g]
               PROVE  /\ \A u \in Users : d.rows[u] \in {0, 1}
                      /\ \A j, k \in Slots : j # k /\ About(j, g) /\ About(k, g) =>
                            ~Clash(request[j].kind, request[k].kind)
    BY <1>2, <1>4 DEF ShapeInv
  <2> QED
    BY <1>1 DEF Sure, ShapeInv, RowsFor
<1>12. TruthInv(g)'
  <2> SUFFICES ASSUME "rows" \notin doubt[g], g \in Existing
               PROVE  /\ \A j \in Slots : Back(j, g) /\ j # i =>
                            /\ Told(request[j], Seen(g)')
                            /\ request[j].kind = "members" => request[j].data = group[g].members
                      /\ \A u \in Users : d.rows[u] = 1 <=> u \in Seen(g)'
    BY <1>2, <1>3 DEF TruthInv, Told
  <2>1. \A j \in Slots : Back(j, g) /\ j # i =>
          /\ Told(request[j], Seen(g)')
          /\ request[j].kind = "members" => request[j].data = group[g].members
    BY <1>1, <1>4 DEF Sure, TruthInv, Told, Back
  <2> QED
    BY <1>7, <2>1 DEF RowsFor
<1>13. SumInv(g)'
  BY <1>2, <1>6, RowsOfMembers DEF SumInv
<1> QED
  BY <1>9, <1>10, <1>11, <1>12, <1>13 DEF Sure

\* handleMemberAdded, handleMemberRemoved: one row more or less.
LEMMA RowChangedSure ==
  ASSUME IInv, NEW i \in Slots, NEW g \in Groups, NEW d, NEW l, Goes(i, g, d, l),
         doubt[g] # AllDoubt, request[i].kind \in {"add", "remove"},
         l.count = request[i].item.count + (IF request[i].kind = "add" THEN 1 ELSE -1),
         d.rows \in MemberRows,
         \A u \in Users \ {request[i].user} : d.rows[u] = card[g].rows[u],
         d.rows[request[i].user] = IF request[i].kind = "add"
                                   THEN card[g].rows[request[i].user] + 1 ELSE 0,
         d.failed = card[g].failed
  PROVE  Sure(g)'
<1> DEFINE q == request[i]
           c == card[g]
<1>1. Firm(g) /\ Sure(g) /\ Back(i, g) /\ About(i, g) /\ Visible(g) /\ TypeOK
  BY DEF IInv, Goes, Back
<1>2. /\ \A j \in Slots : /\ j # i => request'[j] = request[j]
                          /\ About(j, g)' <=> About(j, g) /\ j # i
                          /\ Back(j, g)' <=> Back(j, g) /\ j # i
                          /\ Mine(j, g, "members")' <=> Mine(j, g, "members") /\ j # i
      /\ card'[g] = d /\ list'[g] = l /\ Visible(g)' /\ Known /\ Coming(g) = list[g]
      /\ list[g] \in Items /\ list[g] # None /\ group' = group /\ doubt' = doubt
  BY <1>1, GoesFrom DEF Visible
<1>3. ((g \in Existing)' <=> g \in Existing) /\ Seen(g)' = Seen(g)
  BY GoesFrom
<1>4. /\ "item" \notin doubt[g] => q.item = list[g]
      /\ "rows" \notin doubt[g] => \A j \in Slots : About(j, g) /\ j # i =>
            request[j].kind \notin {"leader", "members"}
      /\ \A j \in Slots : About(j, g) => request[j].mine /\ request[j] \in Requests /\ Formed(request[j])
  BY GoesFrom DEF Clash
<1>5. "count" \notin doubt[g] => "item" \notin doubt[g] /\ "rows" \notin doubt[g]
  BY <1>1 DEF Firm, DoubtInv
<1>6. \A j \in Slots : About(j, g) /\ request[j].kind \in {"add", "remove"} => request[j].user \in Users
  BY <1>4 DEF Requests, Formed
<1>7. c.rows # None /\ c.rows \in MemberRows /\ d.rows # None /\ q.user \in Users
  BY <1>1, <1>4, <1>6, GroupsPageAssumption DEF Firm, LoadedInv, TypeOK, Cards
<1>8. "rows" \notin doubt[g] =>
        /\ \A u \in Users : c.rows[u] \in {0, 1}
        /\ c.rows[q.user] = (IF q.kind = "add" THEN 0 ELSE 1)
        /\ d.rows[q.user] = (IF q.kind = "add" THEN 1 ELSE 0)
  BY <1>1, <1>7 DEF Sure, ShapeInv
<1>9. "rows" \notin doubt[g] => \A j \in Slots :
        About(j, g) /\ j # i /\ request[j].kind \in {"add", "remove"} => request[j].user # q.user
  <2> SUFFICES ASSUME "rows" \notin doubt[g], NEW j \in Slots, About(j, g), j # i,
                      request[j].kind \in {"add", "remove"}, request[j].user = q.user
               PROVE  FALSE
    OBVIOUS
  <2>1. c.rows[q.user] = IF request[j].kind = "add" THEN 0 ELSE 1
    BY <1>1 DEF Sure, ShapeInv
  <2>2. request[j].kind = q.kind
    BY <1>8, <2>1
  <2> QED
    BY <1>1, <1>4, <2>2 DEF Firm, BusyInv, Mine
<1>10. g \in Existing /\ "count" \notin doubt[g] => l.count = Cardinality(Seen(g))
  <2> SUFFICES ASSUME g \in Existing, "count" \notin doubt[g]
               PROVE  l.count = Cardinality(Seen(g))
    OBVIOUS
  <2>1. Due(q, Cardinality(Seen(g)), list[g].count)
    BY <1>1, <1>2 DEF Sure, CountInv
  <2>2. q.item = list[g] /\ list[g].count \in Int
    BY <1>2, <1>4, <1>5 DEF Items
  <2> QED
    BY <2>1, <2>2 DEF Due
<1>11. ListInv(g)' /\ OneInv(g)' /\ ItemInv(g)' /\ CountInv(g)' /\ UnseenInv(g)'
  BY <1>3, <1>10, GoesItem
<1>12. ErrorInv(g)'
  BY <1>1, <1>2, <1>7 DEF Sure, ErrorInv
<1>13. ShapeInv(g)'
  <2> SUFFICES ASSUME "rows" \notin doubt[g]
               PROVE  /\ \A u \in Users : d.rows[u] \in {0, 1}
                      /\ \A j \in Slots : About(j, g) /\ j # i =>
                            /\ request[j].kind = "add" => d.rows[request[j].user] = 0
                            /\ request[j].kind = "remove" => d.rows[request[j].user] = 1
                      /\ \A j, k \in Slots : j # k /\ About(j, g) /\ About(k, g) =>
                            ~Clash(request[j].kind, request[k].kind)
    BY <1>2, <1>4 DEF ShapeInv
  <2>1. \A u \in Users : d.rows[u] \in {0, 1}
    BY <1>8
  <2>2. \A j \in Slots : About(j, g) =>
          /\ request[j].kind = "add" => c.rows[request[j].user] = 0
          /\ request[j].kind = "remove" => c.rows[request[j].user] = 1
    BY <1>1 DEF Sure, ShapeInv
  <2>3. \A j \in Slots : About(j, g) /\ j # i =>
          /\ request[j].kind = "add" => d.rows[request[j].user] = 0
          /\ request[j].kind = "remove" => d.rows[request[j].user] = 1
    BY <1>6, <1>9, <2>2
  <2>4. \A j, k \in Slots : j # k /\ About(j, g) /\ About(k, g) =>
          ~Clash(request[j].kind, request[k].kind)
    BY <1>1 DEF Sure, ShapeInv
  <2> QED
    BY <2>1, <2>3, <2>4
<1>14. TruthInv(g)'
  <2> SUFFICES ASSUME "rows" \notin doubt[g], g \in Existing
               PROVE  /\ \A j \in Slots : Back(j, g) /\ j # i =>
                            /\ Told(request[j], Seen(g))
                            /\ request[j].kind = "members" => request[j].data = group[g].members
                      /\ \A u \in Users :
                            ~Open(g, u)' => (d.rows[u] = 1 <=> u \in Seen(g))
    BY <1>2, <1>3 DEF TruthInv, Told
  <2>1. \A j \in Slots : Back(j, g) =>
          /\ Told(request[j], Seen(g))
          /\ request[j].kind = "members" => request[j].data = group[g].members
    BY <1>1 DEF Sure, TruthInv
  <2>2. \A u \in Users : ~Open(g, u) => (c.rows[u] = 1 <=> u \in Seen(g))
    BY <1>1, <1>7 DEF Sure, TruthInv
  <2>3. Told(q, Seen(g))
    BY <1>1, <2>1
  <2>4. d.rows[q.user] = 1 <=> q.user \in Seen(g)
    BY <1>8, <2>3 DEF Told
  <2>5. \A u \in Users \ {q.user} : Open(g, u) => Open(g, u)'
    BY <1>2 DEF Open
  <2> QED
    BY <2>1, <2>2, <2>4, <2>5
<1>15. SumInv(g)'
  <2> SUFFICES ASSUME "count" \notin doubt[g]
               PROVE  l.count = Total(d.rows)
    BY <1>2 DEF SumInv
  <2>1. /\ list[g].count = Total(c.rows) /\ q.item = list[g] /\ "rows" \notin doubt[g]
        /\ Total(c.rows) \in Nat /\ Total(d.rows) \in Nat
    BY <1>1, <1>4, <1>5, <1>7, RowSetFinite DEF Sure, SumInv
  <2>2. CASE q.kind = "add"
    <3>1. Total(d.rows) = Total(c.rows) + 1
      BY <1>7, <1>8, <2>1, <2>2, OneRow
    <3> QED
      BY <2>1, <2>2, <3>1
  <2>3. CASE q.kind = "remove"
    <3>1. Total(c.rows) = Total(d.rows) + 1
      BY <1>7, <1>8, <2>1, <2>3, OneRow
    <3> QED
      BY <2>1, <2>3, <3>1
  <2> QED
    BY <2>2, <2>3
<1> QED
  BY <1>11, <1>12, <1>13, <1>14, <1>15 DEF Sure

\* An answer to a card that has gone says nothing of what is shown.
LEMMA AnsweredKeeps ==
  ASSUME IInv, NEW i \in Slots, NEW g \in Groups, NEW d, NEW l, Ended(i, g, d, l), ToldAbout(i, g),
         Back(i, g), request[i].kind \in OfItem,
         Visible(g) /\ request[i].mine /\ doubt[g] # AllDoubt => Sure(g)'
  PROVE  IInv'
<1>1. TypeOK /\ Firm(g) /\ Sure(g) /\ About(i, g) /\ Left(i, g, d, l)
  BY EndedLeaves DEF IInv, Back
<1>2. (l = None <=> list[g] = None) /\ doubt' = doubt
  BY DEF Ended, ToldAbout
<1>3. Sure(g)'
  <2>1. CASE doubt[g] = AllDoubt
    <3>1. doubt'[g] = AllDoubt
      BY <1>2, <2>1
    <3> QED
      BY <3>1, Doubtful
  <2>2. CASE doubt[g] # AllDoubt /\ ~(Visible(g) /\ request[i].mine)
    <3>1. ~request[i].mine /\ page = "shown" /\ list[g] = None
      <4>1. page = "shown"
        BY <1>1, <2>2 DEF Firm, OrphanInv, OfItem
      <4>2. ~Visible(g) => ~request[i].mine
        BY <1>1 DEF Firm, FreshInv, OfItem
      <4> QED
        BY <1>1, <2>2, <4>1, <4>2 DEF Firm, OrphanInv
    <3>2. /\ \A j \in Slots : /\ j # i => request'[j] = request[j]
                              /\ About(j, g)' <=> About(j, g) /\ j # i
                              /\ Back(j, g)' <=> Back(j, g) /\ j # i
                              /\ Mine(j, g, "members")' <=> Mine(j, g, "members") /\ j # i
          /\ card'[g] = card[g] /\ ~Visible(g) /\ ~Visible(g)' /\ Known' = Known
          /\ Coming(g) = None /\ Coming(g)' = None
      BY <1>1, <1>2, <3>1 DEF Left, Visible, Coming
    <3>3. (g \in Existing)' <=> g \in Existing
      BY <1>1 DEF Left
    <3>4. ErrorInv(g)'
      BY <1>1, <1>2, <3>2 DEF Sure, ErrorInv
    <3>5. ListInv(g)'
      BY <1>1, <1>2, <3>2, <3>3 DEF Sure, ListInv, OfItem
    <3>6. OneInv(g)'
      BY <1>1, <1>2, <3>2 DEF Sure, OneInv
    <3>7. ItemInv(g)' /\ CountInv(g)' /\ ShapeInv(g)' /\ TruthInv(g)' /\ SumInv(g)'
      BY <3>2 DEF ItemInv, CountInv, ShapeInv, TruthInv, SumInv
    <3>8. UnseenInv(g)'
      BY <1>1, <3>1 DEF Left, UnseenInv
    <3> QED
      BY <3>4, <3>5, <3>6, <3>7, <3>8 DEF Sure
  <2> QED
    BY <2>1, <2>2
<1>4. /\ doubt' \in [Groups -> SUBSET AllDoubt] /\ doubt[g] \subseteq doubt'[g]
      /\ unseen' \in [Groups -> SUBSET Users]
      /\ \A h \in Groups \ {g} : doubt'[h] = doubt[h] /\ unseen'[h] = unseen[h]
  BY <1>1, <1>2 DEF TypeOK, ToldAbout
<1>5. DoubtInv(g)'
  BY <1>1, <1>2 DEF Firm, DoubtInv
<1> QED
  BY <1>3, <1>4, <1>5, EndedKeeps

\* The item and the card that an answer leaves.
Kept(g, item) == IF list[g] = None THEN None ELSE item

\* What the five answers that write an item have in common.
Answers(i, g) ==
    /\ Back(i, g) /\ request[i].kind \in OfItem
    /\ request' = [request EXCEPT ![i] = None]
    /\ ToldAbout(i, g)
    /\ UNCHANGED <<group, changes, page, answer>>

\* An answer that writes an item ends its request, whether its card is still
\* there or not.
LEMMA AnswerEnds ==
  ASSUME IInv, NEW i \in Slots, NEW g \in Groups, Answers(i, g), NEW item, NEW d,
         item \in Items, d \in Cards, Cleared(request[i], card[g], d),
         Updated(g, item), Set(request[i], d)
  PROVE  Ended(i, g, d, Kept(g, item))
<1> DEFINE l == Kept(g, item)
<1>1. About(i, g) /\ request[i].group = g
  BY DEF Answers, Back, About
<1>2. list' = [list EXCEPT ![g] = l]
  BY DEF Updated, Kept, IInv, TypeOK, Lists
<1>3. l \in Items \cup {None} /\ (l = None <=> list[g] = None)
  BY GroupsPageAssumption DEF Kept
<1>4. card' = IF request[i].mine THEN [card EXCEPT ![g] = d] ELSE card
  BY <1>1 DEF Set
<1> HIDE DEF l
<1>5. Ended(i, g, d, l)
  BY <1>1, <1>2, <1>3, <1>4 DEF Ended, Answers
<1> QED
  BY <1>5 DEF l

\* The request, its item and its card.
LEMMA AnswerTypes ==
  ASSUME IInv, NEW i \in Slots, NEW g \in Groups, Answers(i, g)
  PROVE  /\ request[i] \in Requests /\ Formed(request[i]) /\ request[i].item \in Items
         /\ request[i].group = g /\ card[g] \in Cards
         /\ request[i].kind \in {"leader", "add", "remove"} => request[i].user \in Users
         /\ request[i].kind = "rename" => request[i].name \in Names
<1>1. request[i] \in Requests /\ Formed(request[i]) /\ request[i].group = g /\ card[g] \in Cards
  BY DEF IInv, TypeOK, Firm, FormInv, Answers, Back, About
<1> QED
  BY <1>1 DEF Answers, OfItem, Formed, Requests

\* handleRename, after its await.
LEMMA RenamedKeeps ==
  ASSUME IInv, NEW i \in Slots, NEW g \in Groups, Answers(i, g), Renamed(request[i])
  PROVE  IInv'
<1> DEFINE q == request[i]
           item == [q.item EXCEPT !.name = q.name]
           d == [card[g] EXCEPT !.busy = FALSE]
           l == Kept(g, item)
<1>1. /\ q \in Requests /\ Formed(q) /\ q.item \in Items /\ q.group = g /\ card[g] \in Cards
      /\ q.kind = "rename" /\ q.name \in Names
  BY AnswerTypes DEF Renamed
<1>2. /\ item \in Items /\ item.name = q.name /\ item.leader = q.item.leader
      /\ item.count = q.item.count
  BY <1>1 DEF Items
<1>3. /\ d \in Cards /\ Cleared(q, card[g], d) /\ d.rows = card[g].rows
      /\ d.failed = card[g].failed
  BY <1>1 DEF Cards, Cleared
<1>4. Updated(g, item) /\ Set(q, d)
  BY <1>1 DEF Renamed
<1> HIDE DEF item, d
<1>5. Ended(i, g, d, l)
  BY <1>2, <1>3, <1>4, AnswerEnds
<1>6. Visible(g) /\ q.mine /\ doubt[g] # AllDoubt => Sure(g)'
  <2> SUFFICES ASSUME Visible(g), q.mine, doubt[g] # AllDoubt
               PROVE  Sure(g)'
    OBVIOUS
  <2>1. l = item
    BY DEF Kept, Visible
  <2>2. Goes(i, g, d, l)
    BY <1>1, <1>2, <1>5, <2>1 DEF Goes, Answers
  <2> QED
    BY <1>1, <1>2, <1>3, <2>1, <2>2, RenamedSure
<1> QED
  BY <1>5, <1>6, AnsweredKeeps DEF Answers

\* handleChangeLeader, after its await.
LEMMA LeaderChangedKeeps ==
  ASSUME IInv, NEW i \in Slots, NEW g \in Groups, Answers(i, g), LeaderChanged(request[i])
  PROVE  IInv'
<1> DEFINE q == request[i]
           next == NextRows(q)
           item == [q.item EXCEPT !.leader = q.user,
                                  !.count = IF next = None THEN @ ELSE Total(next)]
           d == [card[g] EXCEPT !.busy = FALSE, !.rows = IF next = q.rows THEN @ ELSE next]
           l == Kept(g, item)
<1>1. /\ q \in Requests /\ Formed(q) /\ q.item \in Items /\ q.group = g /\ card[g] \in Cards
      /\ q.kind = "leader" /\ q.user \in Users
  BY AnswerTypes DEF LeaderChanged
<1>2. Updated(g, item) /\ Set(q, d)
  BY <1>1 DEF LeaderChanged
<1>3. /\ q.rows = None => next = None
      /\ q.rows # None => next \in MemberRows /\ next # None
  <2>1. q.rows \in MemberRows \cup {None}
    BY <1>1 DEF Requests
  <2>2. q.rows = None => next = None
    BY DEF NextRows
  <2>3. q.rows # None => next \in MemberRows
    BY <1>1, <2>1 DEF NextRows, MemberRows
  <2> QED
    BY <2>2, <2>3, GroupsPageAssumption
<1>4. next # None => Total(next) \in Int
  BY <1>3, RowSetFinite
<1> HIDE DEF next
<1>5. /\ item \in Items /\ item.name = q.item.name /\ item.leader = q.user
      /\ item.count = IF next = None THEN q.item.count ELSE Total(next)
  BY <1>1, <1>4 DEF Items
<1>6. card[g].rows \in MemberRows \cup {None}
  BY <1>1 DEF Cards
<1>7. /\ d \in Cards /\ d.busy = FALSE /\ d.loading = card[g].loading /\ d.adding = card[g].adding
      /\ d.removing = card[g].removing /\ d.failed = card[g].failed
      /\ d.rows = IF next = q.rows THEN card[g].rows ELSE next
  BY <1>1, <1>3, <1>6 DEF Cards
<1> HIDE DEF item, d
<1>8. Cleared(q, card[g], d)
  BY <1>1, <1>3, <1>7 DEF Cleared, Cards
<1>9. Ended(i, g, d, l)
  BY <1>2, <1>5, <1>7, <1>8, AnswerEnds
<1>10. Visible(g) /\ q.mine /\ doubt[g] # AllDoubt => Sure(g)'
  <2> SUFFICES ASSUME Visible(g), q.mine, doubt[g] # AllDoubt
               PROVE  Sure(g)'
    OBVIOUS
  <2>1. l = item
    BY DEF Kept, Visible
  <2>2. Goes(i, g, d, l)
    BY <1>1, <1>5, <1>9, <2>1 DEF Goes, Answers
  <2> QED
    BY <1>1, <1>5, <1>7, <2>1, <2>2, LeaderChangedSure DEF next
<1> QED
  BY <1>9, <1>10, AnsweredKeeps DEF Answers

\* handleToggleMembers, after its await.
LEMMA MembersLoadedKeeps ==
  ASSUME IInv, NEW i \in Slots, NEW g \in Groups, Answers(i, g), MembersLoaded(request[i])
  PROVE  IInv'
<1> DEFINE q == request[i]
           item == [q.item EXCEPT !.count = Cardinality(q.data)]
           d == [card[g] EXCEPT !.rows = RowsFor(q.data), !.loading = FALSE]
           l == Kept(g, item)
<1>1. /\ q \in Requests /\ q.item \in Items /\ q.group = g /\ card[g] \in Cards
      /\ q.kind = "members" /\ q.data \in SUBSET Users
  BY AnswerTypes DEF MembersLoaded, Requests
<1>2. Updated(g, item) /\ Set(q, d)
  BY <1>1 DEF MembersLoaded
<1>3. /\ RowsFor(q.data) \in MemberRows /\ RowsFor(q.data) # None
      /\ Cardinality(q.data) \in Int
  BY <1>1, RowsOfMembers, GroupsPageAssumption
<1>4. /\ item \in Items /\ item.name = q.item.name /\ item.leader = q.item.leader
      /\ item.count = Cardinality(q.data)
  BY <1>1, <1>3 DEF Items
<1>5. /\ d \in Cards /\ d.rows = RowsFor(q.data) /\ d.busy = card[g].busy
      /\ d.loading = FALSE /\ d.adding = card[g].adding
      /\ d.removing = card[g].removing /\ d.failed = card[g].failed
  BY <1>1, <1>3 DEF Cards
<1> HIDE DEF item, d
<1>6. Cleared(q, card[g], d)
  BY <1>1, <1>3, <1>5 DEF Cleared, Cards
<1>7. Ended(i, g, d, l)
  BY <1>2, <1>4, <1>5, <1>6, AnswerEnds
<1>8. Visible(g) /\ q.mine /\ doubt[g] # AllDoubt => Sure(g)'
  <2> SUFFICES ASSUME Visible(g), q.mine, doubt[g] # AllDoubt
               PROVE  Sure(g)'
    OBVIOUS
  <2>1. l = item
    BY DEF Kept, Visible
  <2>2. Goes(i, g, d, l)
    BY <1>1, <1>4, <1>7, <2>1 DEF Goes, Answers
  <2> QED
    BY <1>1, <1>4, <1>5, <2>1, <2>2, MembersLoadedSure
<1> QED
  BY <1>7, <1>8, AnsweredKeeps DEF Answers

\* handleAddMember, after its await.
LEMMA AddedKeeps ==
  ASSUME IInv, NEW i \in Slots, NEW g \in Groups, Answers(i, g), Added(request[i])
  PROVE  IInv'
<1> DEFINE q == request[i]
           c == card[g]
           item == Counted(q.item, 1)
           rows == IF c.rows = None THEN RowsFor({q.user})
                   ELSE [c.rows EXCEPT ![q.user] = @ + 1]
           d == [c EXCEPT !.rows = rows, !.adding = FALSE, !.chosen = None]
           l == Kept(g, item)
<1>1. /\ q \in Requests /\ q.item \in Items /\ q.group = g /\ c \in Cards
      /\ q.kind = "add" /\ q.user \in Users
  BY AnswerTypes DEF Added
<1>2. Updated(g, item) /\ Set(q, d)
  BY <1>1 DEF Added
<1>3. c.rows \in MemberRows \cup {None}
  BY <1>1 DEF Cards
<1>4. rows \in MemberRows /\ rows # None
  <2>1. rows \in MemberRows
    BY <1>1, <1>3 DEF RowsFor, MemberRows
  <2> QED
    BY <2>1, GroupsPageAssumption
<1>5. c.rows # None =>
        /\ \A u \in Users \ {q.user} : rows[u] = c.rows[u]
        /\ rows[q.user] = c.rows[q.user] + 1
  BY <1>1, <1>3 DEF MemberRows
<1> HIDE DEF rows
<1>6. /\ item \in Items /\ item.name = q.item.name /\ item.leader = q.item.leader
      /\ item.count = q.item.count + 1
  BY <1>1 DEF Items, Counted
<1>7. /\ d \in Cards /\ d.rows = rows /\ d.busy = c.busy
      /\ d.loading = c.loading /\ d.adding = FALSE
      /\ d.removing = c.removing /\ d.failed = c.failed
  BY <1>1, <1>4 DEF Cards
<1> HIDE DEF item, d
<1>8. Cleared(q, c, d)
  BY <1>1, <1>4, <1>7 DEF Cleared, Cards
<1>9. Ended(i, g, d, l)
  BY <1>2, <1>6, <1>7, <1>8, AnswerEnds
<1>10. Visible(g) /\ q.mine /\ doubt[g] # AllDoubt => Sure(g)'
  <2> SUFFICES ASSUME Visible(g), q.mine, doubt[g] # AllDoubt
               PROVE  Sure(g)'
    OBVIOUS
  <2>1. l = item
    BY DEF Kept, Visible
  <2>2. Goes(i, g, d, l)
    BY <1>1, <1>6, <1>9, <2>1 DEF Goes, Answers
  <2>3. c.rows # None
    BY <1>1 DEF IInv, Firm, LoadedInv, Answers, Back
  <2> QED
    BY <1>1, <1>4, <1>5, <1>6, <1>7, <2>1, <2>2, <2>3, RowChangedSure
<1> QED
  BY <1>9, <1>10, AnsweredKeeps DEF Answers

\* handleRemoveMember, after its await.
LEMMA RemovedKeeps ==
  ASSUME IInv, NEW i \in Slots, NEW g \in Groups, Answers(i, g), Removed(request[i])
  PROVE  IInv'
<1> DEFINE q == request[i]
           c == card[g]
           item == Counted(q.item, -1)
           rows == IF c.rows = None THEN None ELSE Without(c.rows, q.user)
           d == [c EXCEPT !.rows = rows, !.removing = @ \ {q.user}]
           l == Kept(g, item)
<1>1. /\ q \in Requests /\ q.item \in Items /\ q.group = g /\ c \in Cards
      /\ q.kind = "remove" /\ q.user \in Users
  BY AnswerTypes DEF Removed
<1>2. Updated(g, item) /\ Set(q, d)
  BY <1>1 DEF Removed
<1>3. c.rows \in MemberRows \cup {None}
  BY <1>1 DEF Cards
<1>4. /\ rows \in MemberRows \cup {None}
      /\ c.rows # None => rows # None /\ rows \in MemberRows
  <2>1. c.rows # None => rows \in MemberRows
    BY <1>1, <1>3 DEF Without, MemberRows
  <2>2. c.rows = None => rows = None
    OBVIOUS
  <2> QED
    BY <2>1, <2>2, GroupsPageAssumption
<1>5. c.rows # None =>
        /\ \A u \in Users \ {q.user} : rows[u] = c.rows[u]
        /\ rows[q.user] = 0
  BY <1>1, <1>3 DEF MemberRows, Without
<1> HIDE DEF rows
<1>6. /\ item \in Items /\ item.name = q.item.name /\ item.leader = q.item.leader
      /\ item.count = q.item.count + (-1)
  BY <1>1 DEF Items, Counted
<1>7. /\ d \in Cards /\ d.rows = rows /\ d.busy = c.busy
      /\ d.loading = c.loading /\ d.adding = c.adding
      /\ d.removing = c.removing \ {q.user} /\ d.failed = c.failed
  BY <1>1, <1>4 DEF Cards
<1> HIDE DEF item, d
<1>8. Cleared(q, c, d)
  BY <1>1, <1>4, <1>7 DEF Cleared, Cards
<1>9. Ended(i, g, d, l)
  BY <1>2, <1>6, <1>7, <1>8, AnswerEnds
<1>10. Visible(g) /\ q.mine /\ doubt[g] # AllDoubt => Sure(g)'
  <2> SUFFICES ASSUME Visible(g), q.mine, doubt[g] # AllDoubt
               PROVE  Sure(g)'
    OBVIOUS
  <2>1. l = item
    BY DEF Kept, Visible
  <2>2. Goes(i, g, d, l)
    BY <1>1, <1>6, <1>9, <2>1 DEF Goes, Answers
  <2>3. c.rows # None
    BY <1>1 DEF IInv, Firm, LoadedInv, Answers, Back
  <2> QED
    BY <1>1, <1>4, <1>5, <1>6, <1>7, <2>1, <2>2, <2>3, RowChangedSure
<1> QED
  BY <1>9, <1>10, AnsweredKeeps DEF Answers

\* The answer to a deletion of g takes the card away.
Deleted(i, g) ==
    /\ Back(i, g) /\ request[i].kind = "delete"
    /\ list' = [list EXCEPT ![g] = None]
    /\ card' = Fresh({g})
    /\ request' = Orphaned([request EXCEPT ![i] = None], {g})
    /\ UNCHANGED <<group, changes, page, answer, doubt, unseen>>

\* The requests that are left after it.
LEMMA DeletedRequests ==
  ASSUME TypeOK, NEW i \in Slots, NEW g \in Groups, Deleted(i, g)
  PROVE  \A j \in Slots :
            /\ request'[j] \in Requests \cup {None}
            /\ ~About(j, g) => request'[j] = request[j]
            /\ j = i => request'[j] = None
            /\ About(j, g)' <=> About(j, g) /\ j # i
            /\ About(j, g)' => /\ request'[j].mine = FALSE
                               /\ request'[j].kind = request[j].kind
                               /\ request'[j].name = request[j].name
                               /\ request'[j].user = request[j].user
                               /\ request'[j].item = request[j].item
                               /\ request'[j].at = request[j].at
                               /\ request'[j].group = g
<1> TAKE j \in Slots
<1> DEFINE rest == [request EXCEPT ![i] = None]
<1>1. /\ rest \in [Slots -> Requests \cup {None}] /\ About(i, g) /\ request'[j] =
            IF rest[j] # None /\ rest[j].group \in {g} THEN [rest[j] EXCEPT !.mine = FALSE]
            ELSE rest[j]
  BY DEF TypeOK, Deleted, Orphaned, Back
<1>2. CASE j = i
  <2>1. rest[j] = None /\ request'[j] = None
    BY <1>1, <1>2 DEF TypeOK
  <2> QED
    BY <1>1, <1>2, <2>1 DEF About
<1>3. CASE j # i /\ ~About(j, g)
  <2>1. rest[j] = request[j] /\ request'[j] = request[j]
    BY <1>1, <1>3 DEF About, TypeOK
  <2> QED
    BY <1>1, <1>3, <2>1 DEF About, TypeOK
<1>4. CASE j # i /\ About(j, g)
  <2>1. /\ request[j] \in Requests /\ request[j].group = g
        /\ request'[j] = [request[j] EXCEPT !.mine = FALSE]
    BY <1>1, <1>4 DEF About, TypeOK
  <2>2. /\ request'[j] \in Requests /\ request'[j] # None /\ request'[j].group = g
        /\ request'[j].mine = FALSE /\ request'[j].kind = request[j].kind
        /\ request'[j].name = request[j].name /\ request'[j].user = request[j].user
        /\ request'[j].item = request[j].item /\ request'[j].at = request[j].at
    BY <2>1, GroupsPageAssumption DEF Requests
  <2> QED
    BY <1>4, <2>1, <2>2 DEF About
<1> QED
  BY <1>2, <1>3, <1>4

\* With the card of a group that has gone, what is under way about it loses it.
LEMMA DeletedKeeps ==
  ASSUME IInv, NEW i \in Slots, NEW g \in Groups, Deleted(i, g)
  PROVE  IInv'
<1>1. /\ About(i, g) /\ request[i].at = "ok" /\ request[i].kind = "delete"
      /\ list' = [list EXCEPT ![g] = None]
      /\ card' = [h \in Groups |-> IF h = g THEN FreshCard ELSE card[h]]
      /\ UNCHANGED <<group, changes, page, answer, doubt, unseen>>
  BY DEF Deleted, Back, Fresh
<1>2. TypeOK /\ Firm(g) /\ Sure(g)
  BY DEF IInv
<1>3. list'[g] = None /\ card'[g] = FreshCard /\ ~Visible(g)'
  BY <1>1, <1>2 DEF TypeOK, Lists, Visible
<1>4. \A j \in Slots :
        /\ request'[j] \in Requests \cup {None}
        /\ ~About(j, g) => request'[j] = request[j]
        /\ j = i => request'[j] = None
        /\ About(j, g)' <=> About(j, g) /\ j # i
        /\ About(j, g)' => /\ request'[j].mine = FALSE
                           /\ request'[j].kind = request[j].kind
                           /\ request'[j].name = request[j].name
                           /\ request'[j].user = request[j].user
                           /\ request'[j].item = request[j].item
                           /\ request'[j].at = request[j].at
                           /\ request'[j].group = g
  BY <1>2, DeletedRequests
<1>5. TypeOK'
  <2>1. request' \in [Slots -> Requests \cup {None}]
    BY <1>4 DEF Deleted, Orphaned
  <2>2. FreshCard \in Cards
    BY DEF FreshCard, Cards
  <2> QED
    BY <1>1, <1>2, <2>1, <2>2 DEF TypeOK, Lists
<1>6. ASSUME NEW h \in Groups \ {g}
      PROVE  Firm(h)' /\ Sure(h)'
  <2>1. \A j \in Slots : /\ About(j, h)' <=> About(j, h)
                         /\ About(j, h) => request'[j] = request[j]
    BY <1>4 DEF About
  <2>2. Untouched(h)
    BY <1>1, <1>2, <2>1 DEF Untouched, TypeOK, Lists
  <2> QED
    BY <2>2, Frame DEF IInv
<1>7. Formed(request[i]) /\ request[i].group = g
  BY <1>1, <1>2 DEF Firm, FormInv, About
<1>8. group'[g] = Gone /\ g \notin Existing'
  BY <1>1, <1>7 DEF Formed, Existing
<1>9. doubt[g] # AllDoubt => page = "shown"
  BY <1>1, <1>2 DEF Firm, OrphanInv
<1>10. Firm(g)'
  <2>1. FormInv(g)'
    BY <1>1, <1>2, <1>4 DEF Firm, FormInv, Formed, About
  <2>2. ListedInv(g)' /\ DoubtInv(g)'
    BY <1>1, <1>2, <1>3 DEF Firm, ListedInv, DoubtInv
  <2>3. OrphanInv(g)'
    BY <1>1, <1>3, <1>4, <1>9 DEF OrphanInv
  <2>4. FreshInv(g)' /\ ControlInv(g)' /\ BusyInv(g)' /\ LoadedInv(g)'
    BY <1>3, <1>4 DEF FreshInv, ControlInv, BusyInv, LoadedInv, Mine, FreshCard
  <2> QED
    BY <2>1, <2>2, <2>3, <2>4 DEF Firm
<1>11. Sure(g)'
  <2>1. CASE doubt[g] = AllDoubt
    <3>1. doubt'[g] = AllDoubt
      BY <1>1, <2>1
    <3> QED
      BY <3>1, Doubtful
  <2>2. CASE doubt[g] # AllDoubt
    <3>1. Coming(g)' = None
      BY <1>1, <1>3, <1>9, <2>2 DEF Coming
    <3>2. ErrorInv(g)' /\ OneInv(g)'
      BY <1>1, <1>2, <1>3, <1>4 DEF Sure, ErrorInv, OneInv, Mine, FreshCard
    <3>3. ListInv(g)' /\ ItemInv(g)' /\ CountInv(g)'
      BY <1>8, <3>1 DEF ListInv, ItemInv, CountInv
    <3>4. ShapeInv(g)' /\ TruthInv(g)' /\ SumInv(g)'
      BY <1>3 DEF ShapeInv, TruthInv, SumInv
    <3>5. UnseenInv(g)'
      BY <1>1, <1>2 DEF Sure, UnseenInv
    <3> QED
      BY <3>2, <3>3, <3>4, <3>5 DEF Sure
  <2> QED
    BY <2>1, <2>2
<1> QED
  BY <1>5, <1>6, <1>10, <1>11 DEF IInv

\* A new group has been made: the page loads again.
LEMMA CreatedKeeps ==
  ASSUME IInv, NEW i \in Slots, Reload([request EXCEPT ![i] = None]),
         UNCHANGED <<group, changes, list>>
  PROVE  IInv'
<1> DEFINE rest == [request EXCEPT ![i] = None]
<1>1. /\ rest \in [Slots -> Requests \cup {None}]
      /\ \A j \in Slots : rest[j] \in {request[j], None}
  BY DEF IInv, TypeOK
<1> HIDE DEF rest
<1>2. Reload(rest)
  BY DEF rest
<1> QED
  BY <1>1, <1>2, ReloadKeeps

\* A handler goes on after its await.
LEMMA AnswerKeeps ==
  ASSUME IInv, NEW i \in Slots, Answer(i)
  PROVE  IInv'
<1> DEFINE q == request[i]
           rest == [request EXCEPT ![i] = None]
<1>1. PICK g \in Groups : g = q.group
  BY DEF Answer, IInv, TypeOK, Requests
<1>2. /\ q # None /\ q.at = "ok" /\ UNCHANGED <<group, changes>>
      /\ \/ /\ Renamed(q) \/ LeaderChanged(q) \/ MembersLoaded(q) \/ Added(q) \/ Removed(q)
            /\ request' = rest
            /\ ToldAbout(i, g) /\ UNCHANGED <<page, answer>>
         \/ /\ q.kind = "delete"
            /\ list' = [list EXCEPT ![q.group] = None]
            /\ card' = Fresh({q.group})
            /\ request' = Orphaned(rest, {q.group})
            /\ UNCHANGED <<page, answer, doubt, unseen>>
         \/ q.kind = "create" /\ Reload(rest) /\ UNCHANGED list
  BY <1>1 DEF Answer, ToldAbout, IInv, TypeOK, backendVars, pastVars
<1>3. Back(i, g)
  BY <1>1, <1>2 DEF Back, About
<1>4. CASE /\ Renamed(q) \/ LeaderChanged(q) \/ MembersLoaded(q) \/ Added(q) \/ Removed(q)
           /\ request' = rest
           /\ ToldAbout(i, g) /\ UNCHANGED <<page, answer>>
  <2>1. q.kind \in OfItem
    BY <1>4 DEF Renamed, LeaderChanged, MembersLoaded, Added, Removed, OfItem
  <2>2. Answers(i, g)
    BY <1>2, <1>3, <1>4, <2>1 DEF Answers
  <2> QED
    BY <1>4, <2>2, RenamedKeeps, LeaderChangedKeeps, MembersLoadedKeeps, AddedKeeps, RemovedKeeps
<1>5. CASE /\ q.kind = "delete"
           /\ list' = [list EXCEPT ![q.group] = None]
           /\ card' = Fresh({q.group})
           /\ request' = Orphaned(rest, {q.group})
           /\ UNCHANGED <<page, answer, doubt, unseen>>
  <2>1. Deleted(i, g)
    BY <1>1, <1>2, <1>3, <1>5 DEF Deleted
  <2> QED
    BY <2>1, DeletedKeeps
<1>6. CASE q.kind = "create" /\ Reload(rest) /\ UNCHANGED list
  BY <1>2, <1>6, CreatedKeeps
<1> QED
  BY <1>2, <1>4, <1>5, <1>6

(***************************************************************************)
(* The specification.                                                      *)
(***************************************************************************)

\* In the beginning the page loads for the first time, and nothing is in doubt.
LEMMA InitIInv == Init => IInv
<1> SUFFICES ASSUME Init PROVE IInv
  OBVIOUS
<1>1. /\ group = Start /\ changes = 0
      /\ page = "asked" /\ answer = NoList /\ list = NoList
      /\ card = [g \in Groups |-> FreshCard]
      /\ request = [i \in Slots |-> None]
      /\ doubt = [g \in Groups |-> {}]
      /\ unseen = [g \in Groups |-> {}]
  BY DEF Init
<1>2. FreshCard \in Cards
  BY DEF FreshCard, Cards
<1>3. TypeOK
  BY <1>1, <1>2, GroupsPageAssumption DEF TypeOK, NoList, Lists
<1>4. ASSUME NEW g \in Groups
      PROVE  Firm(g) /\ Sure(g)
  <2>1. /\ card[g] = FreshCard /\ answer[g] = None /\ list[g] = None /\ doubt[g] = {}
        /\ unseen[g] = {} /\ ~Known /\ ~Visible(g)
    BY <1>1 DEF NoList, Known, Visible
  <2>2. \A i \in Slots : ~About(i, g)
    BY <1>1 DEF About
  <2>3. FormInv(g) /\ ListedInv(g) /\ DoubtInv(g) /\ OrphanInv(g) /\ FreshInv(g)
    BY <2>1, <2>2 DEF FormInv, ListedInv, DoubtInv, OrphanInv, FreshInv
  <2>4. ControlInv(g) /\ BusyInv(g) /\ LoadedInv(g)
    BY <2>1, <2>2 DEF ControlInv, BusyInv, LoadedInv, Mine, FreshCard
  <2>5. ErrorInv(g) /\ OneInv(g)
    BY <2>1, <2>2 DEF ErrorInv, OneInv, Mine, FreshCard
  <2>6. ListInv(g) /\ ItemInv(g) /\ ShapeInv(g) /\ TruthInv(g) /\ CountInv(g) /\ SumInv(g)
    BY <2>1 DEF ListInv, ItemInv, ShapeInv, TruthInv, CountInv, SumInv
  <2>7. UnseenInv(g)
    BY <2>1 DEF UnseenInv
  <2> QED
    BY <2>3, <2>4, <2>5, <2>6, <2>7 DEF Firm, Sure
<1> QED
  BY <1>3, <1>4 DEF IInv

\* Nothing happens.
LEMMA StutterKeeps == ASSUME IInv, UNCHANGED vars PROVE IInv'
<1>1. UNCHANGED <<group, changes, page, answer, list, card, request, doubt, unseen>>
  BY DEF vars, backendVars, pageVars, pastVars
<1>2. TypeOK'
  BY <1>1 DEF IInv, TypeOK
<1>3. \A g \in Groups : Untouched(g)
  BY <1>1 DEF Untouched, About
<1>4. \A g \in Groups : Firm(g)' /\ Sure(g)'
  BY <1>3, Frame DEF IInv
<1> QED
  BY <1>2, <1>4 DEF IInv

\* Every step keeps the invariant.
LEMMA NextKeeps == IInv /\ [Next]_vars => IInv'
<1> SUFFICES ASSUME IInv, [Next]_vars PROVE IInv'
  OBVIOUS
<1>1. ASSUME NEW g \in Used, UserNext(g) PROVE IInv'
  <2>1. g \in Groups
    BY GroupsPageAssumption
  <2> QED
    BY <1>1, <2>1, RenameKeeps, ChangeLeaderKeeps, DeleteKeeps, AddKeeps, RemoveKeeps,
       ChooseKeeps, OpenMembersKeeps, CloseMembersKeeps DEF UserNext
<1>2. ASSUME NEW g \in Groups, NEW x \in Names, NEW u \in Users, Create(g, x, u) PROVE IInv'
  BY <1>2, CreateKeeps
<1>3. ASSUME NEW i \in Slots,
             ServeChange(i) \/ ServeHalf(i) \/ ServeMembers(i) \/ Answer(i) \/ Fail(i)
      PROVE  IInv'
  BY <1>3, ServeChangeKeeps, ServeHalfKeeps, ServeMembersKeeps, AnswerKeeps, FailKeeps
<1> QED
  BY <1>1, <1>2, <1>3, RetryKeeps, ServePageKeeps, AnswerPageKeeps, StutterKeeps DEF Next

\* So it always holds.
LEMMA Invariance == Spec => []IInv
  BY InitIInv, NextKeeps, PTL DEF Spec

\* The backend, the page, its cards and the requests have their types.
THEOREM TypeCorrect == Spec => []TypeOK
<1>1. IInv => TypeOK
  BY DEF IInv
<1> QED
  BY Invariance, <1>1, PTL

\* When nothing is under way, the page lists the groups that ListGroups would
\* list, whatever handlers of cards and of the dialog were waiting meanwhile -
\* but where the reload has overtaken a request about the group, or an answer
\* was lost.
THEOREM ListsAreTrue == Spec => []ListIsTrue
<1>1. IInv => ListIsTrue
  BY DEF IInv, Sure, ListInv, ListIsTrue, Back, About, Known, Coming
<1> QED
  BY Invariance, <1>1, PTL

\* The members of Kinds(g) are the kinds of the requests about g.
LEMMA NoKinds ==
  ASSUME NEW g, Kinds(g) = {}
  PROVE  \A i \in Slots : ~About(i, g)
BY DEF Kinds, About

\* What handleGroupUpdated has left of a group is what the group is, its number of
\* members counting all but those whom a change of leader has brought in unseen:
\* unless an answer was lost, the page was loaded again while a request about the
\* group was under way, two requests that write its item were under way together,
\* or (for the number alone) a user was added who had come onto the list.
THEOREM CardsAreTrue == Spec => []CardIsTrue
<1>1. IInv => CardIsTrue
  <2> SUFFICES ASSUME IInv, NEW g \in Existing, Visible(g), Kinds(g) = {}
               PROVE  /\ "item" \notin doubt[g] =>
                            list[g].name = group[g].name /\ list[g].leader = group[g].leader
                      /\ "count" \notin doubt[g] => list[g].count = Cardinality(Seen(g))
    BY DEF CardIsTrue
  <2>1. Known /\ Coming(g) = list[g] /\ list[g] # None /\ g \in Groups
    BY DEF Visible, Known, Coming, Existing
  <2>2. \A i \in Slots : ~Back(i, g)
    BY NoKinds DEF Back
  <2> QED
    BY <2>1, <2>2 DEF IInv, Sure, ItemInv, CountInv
<1> QED
  BY Invariance, <1>1, PTL

\* The list of members that overlapping additions and removals have left, or a load
\* or a change of leader alone, shows each member once and nobody else - but not
\* those whom a change of leader that failed half-way has left in the group; and
\* unless an answer was lost, the page was loaded again while a request about the
\* group was under way, or a user was added who had come onto the list.
THEOREM RowsAreMembers == Spec => []RowsAreTrue
<1>1. IInv => RowsAreTrue
  <2> SUFFICES ASSUME IInv, NEW g \in Existing, Visible(g), Kinds(g) = {},
                      "rows" \notin doubt[g], card[g].rows # None
               PROVE  card[g].rows = RowsFor(Seen(g))
    BY DEF RowsAreTrue
  <2>1. g \in Groups /\ card[g].rows \in MemberRows
    BY DEF IInv, TypeOK, Cards, Existing
  <2>2. \A u \in Users : ~Open(g, u)
    BY NoKinds DEF Open, Back
  <2>3. \A u \in Users : card[g].rows[u] \in {0, 1}
    BY <2>1 DEF IInv, Sure, ShapeInv
  <2>4. \A u \in Users : card[g].rows[u] = 1 <=> u \in Seen(g)
    BY <2>1, <2>2 DEF IInv, Sure, TruthInv
  <2> QED
    BY <2>1, <2>3, <2>4 DEF RowsFor, MemberRows
<1> QED
  BY Invariance, <1>1, PTL

\* The number that the handlers write onto a card is the number of rows that
\* they leave in its list, at any time, with the proviso of CountIsRows.
THEOREM CountsAreRows == Spec => []CountIsRows
<1>1. IInv => CountIsRows
  BY DEF IInv, Sure, SumInv, CountIsRows
<1> QED
  BY Invariance, <1>1, PTL

\* Whatever is disabled, or loading, on a card has a request of this very card
\* under way whose handler frees it: no card is left behind disabled.
THEOREM ControlsAreFreed == Spec => []ControlsComeBack
<1>1. IInv => ControlsComeBack
  BY DEF IInv, Firm, ControlInv, Waits, About, ControlsComeBack
<1> QED
  BY Invariance, <1>1, PTL

\* Where membersError is shown there are no members, so that opening the list
\* again loads it, unless it was being loaded twice at a time.
THEOREM ErrorsCanBeRetried == Spec => []ErrorCanBeRetried
<1>1. IInv => ErrorCanBeRetried
  BY DEF IInv, Sure, ErrorInv, ErrorCanBeRetried
<1> QED
  BY Invariance, <1>1, PTL
=============================================================================

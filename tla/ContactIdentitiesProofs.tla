----------------------- MODULE ContactIdentitiesProofs -----------------------
(***************************************************************************)
(* Theorems about ContactIdentities for every number of contacts, every    *)
(* set of identities, sales and requests.                                  *)
(*                                                                         *)
(* TablesOk ties the tables to the contacts, FieldsOk each request to its  *)
(* step. The others say what requests rely on of each other: a contact     *)
(* that is being made is known to nobody (HiddenOk), what a booking has    *)
(* written is nobody else's (ClaimsOk) and its contact stays (HeldOk), the *)
(* two of a merge stay and with them the sales it moves (MergeOk), and the *)
(* contact of an answer owns its identity unless he is gone (AnswerOk).    *)
(***************************************************************************)
EXTENDS ContactIdentities, FiniteSetTheorems, TLAPS

Gone(c) == contacts[c] = "gone"
There(c) == contacts[c] = "live"
Creates(h) == req[h].pc \in {"claim", "adopt", "orphan"}
Hides(h) == req[h].contact # Nobody /\ (Creates(h) \/ contacts[req[h].contact] = "none")
Holds(h) == InTx(h) /\ (req[h].claims # {} \/ req[h].pc \in {"link", "own", "commit"})

TablesOk ==
  /\ \A v \in Values : owner[v] # Nobody => There(owner[v])
  /\ \A r \in Refs : link[r] # Nobody => There(link[r])
  /\ \A s \in Sales : \/ sale[s] = NoSale
                      \/ sale[s].of # Nobody /\ sale[s].status # "none" /\ There(sale[s].of)
  /\ \A p \in pairs : p[1] # p[2] /\ contacts[p[1]] # "none" /\ contacts[p[2]] # "none"
  /\ \A s, t \in Sales : sale[s].status = "open" /\ sale[t] = sale[s] => s = t

FieldsOk(h) ==
  /\ req[h].op = "none" <=> req[h].pc = "idle"
  /\ req[h].op = "merge" => req[h].pc \in {"lock", "close", "move", "commit"}
  /\ req[h].pc \in {"lock", "close", "move"} => req[h].op = "merge"
  /\ req[h].pc = "commit" => req[h].op \in {"merge", "booking"}
  /\ req[h].op = "delete" <=> req[h].pc = "delete"
  /\ req[h].op = "inbox" => req[h].single /\ req[h].primary \in Refs
  /\ req[h].op \in {"message", "booking", "inbox", "upsert"} => req[h].primary \in Values
  /\ req[h].single => req[h].op \in {"message", "booking", "inbox", "upsert"}
  /\ req[h].op # "merge" => req[h].shut = {} /\ req[h].moved = {} /\ req[h].drop = Nobody
  /\ req[h].pc = "lock" => req[h].shut = {}
  /\ (req[h].pc \in {"idle", "find", "create", "winner"}) <=> (req[h].contact = Nobody)
  /\ req[h].claims # {} => InTx(h) /\ req[h].pc \in {"extend", "attach", "link", "own", "commit"}
  /\ InTx(h) /\ req[h].pc = "extend" => req[h].claims # {}
  /\ req[h].links # {} => InTx(h) /\ req[h].pc \in {"own", "commit"}
  /\ req[h].found # {} => req[h].pc \in {"winner", "flag", "own", "commit", "orphan"} /\ req[h].op # "merge"
  /\ req[h].pc = "own" /\ req[h].found # {} => InTx(h)
  /\ req[h].pc # "orphan" => req[h].contact \notin req[h].found
  /\ \A c \in req[h].found : contacts[c] # "none"
  /\ req[h].drop # Nobody => contacts[req[h].drop] # "none"
  /\ req[h].contact # Nobody /\ contacts[req[h].contact] = "none" => InTx(h) /\ (Creates(h) \/ req[h].claims # {})

HiddenOk(h) ==
  Hides(h) =>
    /\ InTx(h) => contacts[req[h].contact] = "none"
    /\ \A v \in Values : owner[v] # req[h].contact
    /\ \A p \in pairs : req[h].contact \notin {p[1], p[2]}
    /\ \A g \in Handlers :
         /\ req[h].contact \notin req[g].found /\ req[g].drop # req[h].contact
         /\ g # h => req[g].contact # req[h].contact \/ req[g].op = "delete"

ClaimsOk(h) ==
  /\ \A v \in req[h].claims : owner[v] = Nobody /\ ~Pending(h, v)
  /\ \A r \in req[h].links : link[r] = Nobody /\ ~RowPending(h, r)

HeldOk(h) == Holds(h) => ~Gone(req[h].contact) /\ ~Locked(req[h].contact)

MergeOk(h) ==
  /\ req[h].op = "merge" => req[h].drop # Nobody /\ req[h].contact # req[h].drop
  /\ Merging(h) =>
       /\ There(req[h].contact) /\ There(req[h].drop)
       /\ \A g \in Handlers \ {h} : Merging(g) => {req[h].contact, req[h].drop} \cap {req[g].contact, req[g].drop} = {}
       /\ req[h].shut \subseteq OpenOf(req[h].drop)
  /\ req[h].pc = "commit" /\ req[h].op = "merge" =>
       /\ req[h].moved = {s \in Sales : sale[s].of = req[h].drop}
       /\ \A s \in req[h].moved \ req[h].shut : sale[s].status = "open" => OpenOf(req[h].contact) = {}

AnswerOk(h) ==
  /\ req[h].single /\ req[h].pc = "find" => req[h].todo = {req[h].primary}
  /\ req[h].single => req[h].pc \notin {"winner", "flag"}
  /\ req[h].pc = "orphan" => \A c \in req[h].found : Gone(c) \/ owner[req[h].primary] = c
  /\ req[h].single /\ req[h].pc \in {"extend", "attach", "link", "own", "commit", "sale"} =>
       \/ Gone(req[h].contact) \/ owner[req[h].primary] = req[h].contact
       \/ contacts[req[h].contact] = "none" /\ req[h].primary \in req[h].claims

Safe ==
  /\ TablesOk
  /\ \A h \in Handlers : FieldsOk(h) /\ HiddenOk(h) /\ ClaimsOk(h) /\ HeldOk(h) /\ MergeOk(h) /\ AnswerOk(h)

IInv == TypeOK /\ Safe

-----------------------------------------------------------------------------
(* Types. *)

LEMMA Fits ==
  /\ Idle \in Requests /\ Nobody = 0 /\ Nobody \notin Ids
  /\ NoSale \in [of : Ids \cup {Nobody}, status : {"none", "open", "lost", "won"}]
  /\ NoSale.of = Nobody /\ NoSale.status = "none"
  /\ Idle.op = "none" /\ Idle.pc = "idle" /\ Idle.contact = Nobody /\ Idle.drop = Nobody /\ ~Idle.single
  /\ Idle.todo = {} /\ Idle.found = {} /\ Idle.claims = {} /\ Idle.links = {} /\ Idle.shut = {} /\ Idle.moved = {}
BY BoundAssumption DEF Idle, Requests, NoSale, Nobody, Ids

LEMMA EndsTypes ==
  ASSUME TypeOK, NEW h \in Handlers, Ends(h)
  PROVE  /\ req' \in [Handlers -> Requests] /\ req'[h] = Idle
         /\ \A g \in Handlers \ {h} : req'[g] = req[g]
BY Fits DEF Ends, TypeOK

LEMMA SetTypes ==
  ASSUME TypeOK, NEW h \in Handlers, NEW r \in Requests, req' = [req EXCEPT ![h] = r]
  PROVE  req' \in [Handlers -> Requests] /\ req'[h] = r /\ \A g \in Handlers \ {h} : req'[g] = req[g]
BY DEF TypeOK

LEMMA GoesTypes ==
  ASSUME TypeOK, NEW h \in Handlers, NEW pc, Goes(h, pc),
         pc \in {"create", "claim", "adopt", "orphan", "extend", "attach", "link", "own", "commit", "sale", "close"}
  PROVE  /\ req' \in [Handlers -> Requests] /\ req'[h] = [req[h] EXCEPT !.pc = pc] /\ req'[h].pc = pc
         /\ \A g \in Handlers \ {h} : req'[g] = req[g]
<1> DEFINE r == [req[h] EXCEPT !.pc = pc]
<1>1. req[h] \in Requests
  BY DEF TypeOK
<1>2. r \in Requests /\ r.pc = pc
  BY <1>1 DEF Requests
<1>3. req' = [req EXCEPT ![h] = r]
  BY DEF Goes
<1> HIDE DEF r
<1>4. req' \in [Handlers -> Requests] /\ req'[h] = r /\ \A g \in Handlers \ {h} : req'[g] = req[g]
  BY <1>2, <1>3, SetTypes
<1> QED BY <1>2, <1>4 DEF r

(* A request goes on with the contact it has. *)
Continues(h, pc, T, C, L) == req'[h] = [req[h] EXCEPT !.pc = pc, !.todo = T, !.claims = C, !.links = L]

LEMMA InsertTypes ==
  ASSUME TypeOK, NEW h \in Handlers, NEW v \in Values, NEW pc \in {"extend", "attach"}, Insert(h, v, pc)
  PROVE  /\ owner' \in [Values -> Ids \cup {Nobody}] /\ req' \in [Handlers -> Requests]
         /\ Continues(h, pc, req[h].todo \ {v}, IF InTx(h) THEN req[h].claims \cup {v} ELSE req[h].claims, req[h].links)
         /\ \A g \in Handlers \ {h} : req'[g] = req[g]
<1> DEFINE r == [req[h] EXCEPT !.pc = pc, !.todo = req[h].todo \ {v},
                              !.claims = IF InTx(h) THEN req[h].claims \cup {v} ELSE req[h].claims]
<1>1. req[h] \in Requests
  BY DEF TypeOK
<1>2. r \in Requests
  BY <1>1 DEF Requests
<1>3. req' = [req EXCEPT ![h] = r]
  BY <1>1 DEF Insert, Requests
<1>4. owner' \in [Values -> Ids \cup {Nobody}]
  <2>1. req[h].contact \in Ids \cup {Nobody}
    BY <1>1 DEF Requests
  <2> QED BY <2>1 DEF Insert, TypeOK
<1> HIDE DEF r
<1>5. req' \in [Handlers -> Requests] /\ req'[h] = r /\ \A g \in Handlers \ {h} : req'[g] = req[g]
  BY <1>2, <1>3, SetTypes
<1>6. r = [req[h] EXCEPT !.pc = pc, !.todo = req[h].todo \ {v}, !.links = req[h].links,
                        !.claims = IF InTx(h) THEN req[h].claims \cup {v} ELSE req[h].claims]
  BY <1>1 DEF r, Requests
<1> QED BY <1>4, <1>5, <1>6 DEF Continues

-----------------------------------------------------------------------------
(* What one request does, seen by the others. *)

Apart(h) == \A g \in Handlers \ {h} : req'[g] = req[g]

(* The contact is not one that another request is making. *)
Knows(h, c) == \A g \in Handlers \ {h} : Hides(g) => req[g].contact # c

Fine(h) == FieldsOk(h) /\ HiddenOk(h) /\ ClaimsOk(h) /\ HeldOk(h) /\ MergeOk(h) /\ AnswerOk(h)

(* The request comes to know, and to lock, nothing that another relies on. *)
Meets(h) ==
  /\ \A b \in req'[h].found \cup {req'[h].drop} : b # Nobody => Knows(h, b)
  /\ req'[h].contact # Nobody => Knows(h, req'[h].contact) \/ req'[h].op = "delete"
  /\ Merging(h)' => \A g \in Handlers \ {h} : Holds(g) => req[g].contact \notin {req'[h].contact, req'[h].drop}

(* What is written is a contact's, c's; nothing is written for nobody. *)
Grows(h, c) ==
  /\ c = Nobody => UNCHANGED <<contacts, owner, link, sale, pairs>>
  /\ \A b \in Ids : contacts'[b] = contacts[b] \/ (contacts[b] = "none" /\ contacts'[b] = "live" /\ b = c)
  /\ \A v \in Values : owner'[v] = owner[v] \/ (owner[v] = Nobody /\ owner'[v] = c /\ contacts'[c] = "live" /\ ~Pending(h, v))
  /\ \A r \in Refs : link'[r] = link[r] \/ (link'[r] = c /\ contacts'[c] = "live" /\ ~RowPending(h, r))
  /\ \A p \in pairs' : p \in pairs \/ (p[1] = c /\ p[2] # c /\ contacts'[c] = "live" /\ contacts[p[2]] # "none" /\ Knows(h, p[2]))
  /\ \/ sale' = sale
     \/ \E s \in Sales : /\ sale[s] = NoSale /\ sale' = [sale EXCEPT ![s] = [of |-> c, status |-> "open"]]
                         /\ contacts'[c] = "live" /\ OpenOf(c) = {} /\ ~Locked(c)

LEMMA SaleFits ==
  ASSUME NEW c
  PROVE  /\ [of |-> c, status |-> "open"].of = c /\ [of |-> c, status |-> "open"].status = "open"
         /\ NoSale.of = Nobody /\ NoSale.status = "none"
BY DEF NoSale

LEMMA GrowTables ==
  ASSUME IInv, NEW h \in Handlers, NEW c \in Ids \cup {Nobody}, TypeOK', Grows(h, c)
  PROVE  TablesOk'
<1>1. TablesOk /\ TypeOK
  BY DEF IInv, Safe
<1> SUFFICES ASSUME c # Nobody PROVE TablesOk'
  BY <1>1 DEF Grows, TablesOk, There
<1>2. \A b \in Ids : contacts[b] = "live" => contacts'[b] = "live"
  BY <1>1 DEF Grows
<1>3. \A b \in Ids : contacts[b] # "none" => contacts'[b] # "none"
  BY <1>1 DEF Grows
<1>4. \A v \in Values : owner'[v] # Nobody => contacts'[owner'[v]] = "live"
  BY <1>1, <1>2, Fits DEF Grows, TablesOk, There, TypeOK
<1>5. \A r \in Refs : link'[r] # Nobody => contacts'[link'[r]] = "live"
  BY <1>1, <1>2, Fits DEF Grows, TablesOk, There, TypeOK
<1>6. \A p \in pairs' : p[1] # p[2] /\ contacts'[p[1]] # "none" /\ contacts'[p[2]] # "none"
  <2> SUFFICES ASSUME NEW p \in pairs' PROVE p[1] # p[2] /\ contacts'[p[1]] # "none" /\ contacts'[p[2]] # "none"
    OBVIOUS
  <2>1. p \in Ids \X Ids
    BY DEF TypeOK
  <2>2. p[1] \in Ids /\ p[2] \in Ids
    BY <2>1
  <2>3. CASE p \in pairs
    BY <1>1, <1>3, <2>2, <2>3 DEF TablesOk
  <2>4. CASE p \notin pairs
    <3>1. p[1] = c /\ p[2] # c /\ contacts'[c] = "live" /\ contacts[p[2]] # "none"
      BY <2>4 DEF Grows
    <3> QED BY <1>3, <2>2, <3>1
  <2> QED BY <2>3, <2>4
<1>7. /\ \A s \in Sales : \/ sale'[s] = NoSale
                          \/ sale'[s].of # Nobody /\ sale'[s].status # "none" /\ contacts'[sale'[s].of] = "live"
      /\ \A s, t \in Sales : sale'[s].status = "open" /\ sale'[t] = sale'[s] => s = t
  <2>1. CASE sale' = sale
    BY <1>1, <1>2, <2>1, Fits DEF TablesOk, There, TypeOK
  <2>2. ASSUME NEW s \in Sales, sale[s] = NoSale, sale' = [sale EXCEPT ![s] = [of |-> c, status |-> "open"]],
               contacts'[c] = "live", OpenOf(c) = {}
        PROVE  /\ \A t \in Sales : \/ sale'[t] = NoSale
                                   \/ sale'[t].of # Nobody /\ sale'[t].status # "none" /\ contacts'[sale'[t].of] = "live"
               /\ \A t, u \in Sales : sale'[t].status = "open" /\ sale'[u] = sale'[t] => t = u
    <3>1. /\ sale'[s] = [of |-> c, status |-> "open"] /\ sale'[s].of = c /\ sale'[s].status = "open"
          /\ \A t \in Sales \ {s} : sale'[t] = sale[t] /\ sale[t] # sale'[s]
      BY <1>1, <2>2, SaleFits DEF TypeOK, OpenOf
    <3>2. ASSUME NEW t \in Sales
          PROVE  sale'[t] = NoSale \/ (sale'[t].of # Nobody /\ sale'[t].status # "none" /\ contacts'[sale'[t].of] = "live")
      <4>1. CASE t = s
        BY <2>2, <3>1, <4>1, Fits DEF There
      <4>2. CASE t # s
        <5>1. sale'[t] = sale[t]
          BY <3>1, <4>2
        <5> QED BY <1>1, <1>2, <5>1, Fits DEF TablesOk, There, TypeOK
      <4> QED BY <4>1, <4>2
    <3>3. ASSUME NEW t \in Sales, NEW u \in Sales, sale'[t].status = "open", sale'[u] = sale'[t]
          PROVE  t = u
      <4>1. CASE t = s \/ u = s
        BY <3>1, <3>3, <4>1
      <4>2. CASE t # s /\ u # s
        <5>1. sale'[t] = sale[t] /\ sale'[u] = sale[u]
          BY <3>1, <4>2
        <5>2. sale[t].status = "open" /\ sale[u] = sale[t]
          BY <3>3, <5>1
        <5> QED BY <1>1, <5>2 DEF TablesOk
      <4> QED BY <4>1, <4>2
    <3> QED BY <3>2, <3>3
  <2>3. \/ sale' = sale
        \/ \E s \in Sales : sale[s] = NoSale /\ sale' = [sale EXCEPT ![s] = [of |-> c, status |-> "open"]]
                         /\ contacts'[c] = "live" /\ OpenOf(c) = {}
    BY DEF Grows
  <2> QED BY ONLY <2>1, <2>2, <2>3
<1> QED BY <1>4, <1>5, <1>6, <1>7 DEF TablesOk, There

(* Whatever another request does in its own part leaves what g relies on. *)
LEMMA GrowOthers ==
  ASSUME IInv, NEW h \in Handlers, NEW c \in Ids \cup {Nobody}, TypeOK', Grows(h, c), Knows(h, c), Apart(h), Meets(h),
         MergeOk(h)', ClaimsOk(h)', NEW g \in Handlers \ {h}
  PROVE  Fine(g)'
<1>1. TypeOK /\ TablesOk /\ Fine(g) /\ Fine(h) /\ req'[g] = req[g] /\ req[g] \in Requests
  BY DEF IInv, Safe, Apart, Fine, TypeOK
<1>2. \A b \in Ids : /\ contacts[b] = "live" => contacts'[b] = "live"
                     /\ contacts[b] # "none" => contacts'[b] # "none"
                     /\ contacts[b] = "gone" => contacts'[b] = "gone"
                     /\ contacts'[b] = "gone" => contacts[b] = "gone"
                     /\ contacts'[b] = "none" => contacts[b] = "none"
  BY <1>1 DEF Grows, TypeOK
<1>3. /\ req[g].contact \in Ids \cup {Nobody} /\ req[g].drop \in Ids \cup {Nobody} /\ req[g].found \subseteq Ids
      /\ req[g].claims \subseteq Values /\ req[g].links \subseteq Refs /\ req[g].moved \subseteq Sales
  BY <1>1 DEF Requests
<1>4. FieldsOk(g)'
  <2>1. FieldsOk(g)
    BY <1>1 DEF Fine
  <2>2. \A b \in Ids : contacts'[b] = "none" => contacts[b] = "none"
    BY <1>2
  <2> QED BY <1>1, <1>2, <1>3, <2>1, <2>2 DEF FieldsOk, Creates, InTx
<1>5. HiddenOk(g)'
  <2> SUFFICES ASSUME Hides(g) PROVE HiddenOk(g)'
    BY <1>1, <1>2, <1>3 DEF HiddenOk, Hides, Creates
  <2> DEFINE b == req[g].contact
  <2>1. b \in Ids /\ b # c /\ HiddenOk(g)
    BY <1>1, <1>3 DEF Fine, Hides, Knows
  <2>2. InTx(g)' => contacts'[b] = "none"
    BY <1>1, <2>1 DEF HiddenOk, InTx, Grows
  <2>3. \A v \in Values : owner'[v] # b
    BY <2>1 DEF HiddenOk, Grows
  <2>4. \A p \in pairs' : b \notin {p[1], p[2]}
    BY <1>1, <2>1 DEF HiddenOk, Grows, Knows
  <2>5. ASSUME NEW f \in Handlers
        PROVE  b \notin req'[f].found /\ req'[f].drop # b /\ (f # g => req'[f].contact # b \/ req'[f].op = "delete")
    <3>1. CASE f = h
      BY <1>1, <2>1, <3>1, Fits DEF Meets, Knows
    <3>2. CASE f # h
      BY <2>1, <3>2 DEF HiddenOk, Apart
    <3> QED BY <3>1, <3>2
  <2> QED BY <1>1, <2>2, <2>3, <2>4, <2>5 DEF HiddenOk
<1>6. ClaimsOk(g)'
  <2>1. ClaimsOk(g)
    BY <1>1 DEF Fine
  <2>2. ASSUME NEW v \in req[g].claims PROVE owner'[v] = Nobody /\ ~Pending(g, v)'
    <3>1. owner[v] = Nobody /\ ~Pending(g, v) /\ Pending(h, v) /\ v \in Values
      BY <1>3, <2>1 DEF ClaimsOk, Pending
    <3>2. owner'[v] = Nobody
      BY <3>1 DEF Grows
    <3>3. v \notin req'[h].claims
      BY <1>1 DEF ClaimsOk, Pending
    <3> QED BY <3>1, <3>2, <3>3 DEF Pending, Apart
  <2>3. ASSUME NEW r \in req[g].links PROVE link'[r] = Nobody /\ ~RowPending(g, r)'
    <3>1. link[r] = Nobody /\ ~RowPending(g, r) /\ RowPending(h, r) /\ r \in Refs
      BY <1>3, <2>1 DEF ClaimsOk, RowPending
    <3>2. link'[r] = Nobody
      BY <3>1 DEF Grows
    <3>3. r \notin req'[h].links
      BY <1>1 DEF ClaimsOk, RowPending
    <3> QED BY <3>1, <3>2, <3>3 DEF RowPending, Apart
  <2> QED BY <1>1, <2>2, <2>3 DEF ClaimsOk
<1>7. HeldOk(g)'
  <2> SUFFICES ASSUME Holds(g) PROVE ~Gone(req[g].contact)' /\ ~Locked(req[g].contact)'
    BY <1>1 DEF HeldOk, Holds, InTx, Gone, Locked
  <2>1. ~Gone(req[g].contact) /\ ~Locked(req[g].contact) /\ req[g].contact \in Ids
    BY <1>1, <1>3 DEF Fine, HeldOk, FieldsOk, Holds
  <2>2. ~Gone(req[g].contact)'
    BY <1>1, <1>2, <2>1 DEF Gone
  <2>3. ASSUME NEW f \in Handlers, Merging(f)' PROVE req[g].contact \notin {req'[f].contact, req'[f].drop}
    <3>1. CASE f = h
      BY <2>3, <3>1 DEF Meets
    <3>2. CASE f # h
      BY <2>1, <2>3, <3>2 DEF Locked, Merging, Apart
    <3> QED BY <3>1, <3>2
  <2> QED BY <1>1, <2>2, <2>3 DEF Locked
<1>8. MergeOk(g)'
  <2> DEFINE k == req[g].contact
             d == req[g].drop
  <2>1. MergeOk(g) /\ FieldsOk(g)
    BY <1>1 DEF Fine
  <2>2. req[g].op = "merge" => d # Nobody /\ k # d
    BY <2>1 DEF MergeOk
  <2>3. ASSUME Merging(g)
        PROVE  /\ There(k)' /\ There(d)'
               /\ \A f \in Handlers \ {g} : Merging(f)' => {k, d} \cap {req'[f].contact, req'[f].drop} = {}
               /\ req[g].shut \subseteq OpenOf(d)'
               /\ req[g].pc = "commit" => /\ req[g].moved = {s \in Sales : sale'[s].of = d}
                                          /\ \A s \in req[g].moved \ req[g].shut : sale'[s].status = "open" => OpenOf(k)' = {}
    <3>1. k \in Ids /\ d \in Ids /\ There(k) /\ There(d) /\ Locked(k) /\ Locked(d)
      BY <1>3, <2>1, <2>2, <2>3 DEF MergeOk, Merging, FieldsOk, Locked
    <3>2. There(k)' /\ There(d)'
      BY <1>1, <1>2, <3>1 DEF There
    <3>3. \A f \in Handlers \ {g} : Merging(f)' => {k, d} \cap {req'[f].contact, req'[f].drop} = {}
      <4> SUFFICES ASSUME NEW f \in Handlers \ {g}, Merging(f)'
                   PROVE  {k, d} \cap {req'[f].contact, req'[f].drop} = {}
        OBVIOUS
      <4>1. CASE f = h
        <5>1. Merging(g)'
          BY <1>1, <2>3 DEF Merging
        <5> QED BY <1>1, <4>1, <5>1 DEF MergeOk
      <4>2. CASE f # h
        BY <2>1, <2>3, <4>2 DEF MergeOk, Merging, Apart
      <4> QED BY <4>1, <4>2
    <3>4. \A s \in Sales : sale[s].of \in {k, d} \/ sale'[s].of \in {k, d} => sale'[s] = sale[s]
      <4>1. CASE sale' = sale
        BY <4>1
      <4>2. ASSUME NEW s \in Sales, sale[s] = NoSale, sale' = [sale EXCEPT ![s] = [of |-> c, status |-> "open"]], ~Locked(c)
            PROVE  <3>4
        BY <1>1, <3>1, <4>2, SaleFits, Fits DEF TypeOK
      <4> QED BY <4>1, <4>2 DEF Grows
    <3>5. OpenOf(k)' = OpenOf(k) /\ OpenOf(d)' = OpenOf(d)
      BY <1>1, <3>4 DEF OpenOf
    <3>6. req[g].shut \subseteq OpenOf(d)'
      BY <2>1, <2>3, <3>5 DEF MergeOk
    <3>7. req[g].pc = "commit" => req[g].moved = {s \in Sales : sale'[s].of = d}
      BY <2>1, <2>3, <3>4 DEF MergeOk, Merging
    <3>8. req[g].pc = "commit" => \A s \in req[g].moved \ req[g].shut : sale'[s].status = "open" => OpenOf(k)' = {}
      BY <1>3, <2>1, <2>3, <3>4, <3>5, <3>7 DEF MergeOk, Merging
    <3> QED BY <3>2, <3>3, <3>6, <3>7, <3>8
  <2> QED BY <1>1, <2>2, <2>3 DEF MergeOk, Merging
<1>9. AnswerOk(g)'
  <2>1. AnswerOk(g) /\ FieldsOk(g) /\ ClaimsOk(g)
    BY <1>1 DEF Fine
  <2>2. \A v \in Values : owner[v] # Nobody => owner'[v] = owner[v]
    BY DEF Grows
  <2>3. \A b \in Ids : contacts[b] = "gone" => contacts'[b] = "gone"
    BY <1>2
  <2>4. req[g].pc = "orphan" => \A b \in req[g].found : Gone(b)' \/ owner'[req[g].primary] = b
    <3> SUFFICES ASSUME req[g].pc = "orphan", NEW b \in req[g].found PROVE Gone(b)' \/ owner'[req[g].primary] = b
      OBVIOUS
    <3>1. req[g].op \in {"message", "booking", "inbox", "upsert"}
      BY <1>1, <2>1 DEF FieldsOk, Requests
    <3>2. req[g].primary \in Values /\ b \in Ids /\ b # Nobody
      BY <1>3, <2>1, <3>1, Fits DEF FieldsOk
    <3> QED BY <2>1, <2>2, <2>3, <3>2 DEF AnswerOk, Gone
  <2>5. ASSUME req[g].single, req[g].pc \in {"extend", "attach", "link", "own", "commit", "sale"}
        PROVE  \/ contacts'[req[g].contact] = "gone" \/ owner'[req[g].primary] = req[g].contact
               \/ contacts'[req[g].contact] = "none" /\ req[g].primary \in req[g].claims
    <3>1. req[g].op \in {"message", "booking", "inbox", "upsert"}
      BY <2>1, <2>5 DEF FieldsOk
    <3>2. req[g].primary \in Values /\ req[g].contact \in Ids /\ req[g].contact # Nobody
      BY <1>3, <2>1, <2>5, <3>1, Fits DEF FieldsOk
    <3>3. CASE Gone(req[g].contact)
      BY <2>3, <3>2, <3>3 DEF Gone
    <3>4. CASE owner[req[g].primary] = req[g].contact
      BY <2>2, <3>2, <3>4
    <3>5. CASE contacts[req[g].contact] = "none" /\ req[g].primary \in req[g].claims
      <4>1. req[g].contact # c
        BY <3>2, <3>5 DEF Knows, Hides
      <4>2. contacts'[req[g].contact] = contacts[req[g].contact]
        BY <3>2, <4>1 DEF Grows
      <4> QED BY <3>5, <4>2
    <3> QED BY <2>1, <2>5, <3>3, <3>4, <3>5 DEF AnswerOk
  <2> QED BY <1>1, <2>1, <2>4, <2>5 DEF AnswerOk, Gone
<1> QED BY <1>4, <1>5, <1>6, <1>7, <1>8, <1>9 DEF Fine

LEMMA GrowKeeps ==
  ASSUME IInv, NEW h \in Handlers, NEW c \in Ids \cup {Nobody}, TypeOK', Grows(h, c), Knows(h, c), Apart(h), Meets(h), Fine(h)'
  PROVE  IInv'
<1>1. TablesOk'
  BY GrowTables
<1>2. ASSUME NEW g \in Handlers PROVE Fine(g)'
  <2>1. CASE g = h
    BY <2>1
  <2>2. CASE g # h
    BY <2>2, GrowOthers DEF Fine
  <2> QED BY <2>1, <2>2
<1> QED BY <1>1, <1>2 DEF IInv, Safe, Fine

-----------------------------------------------------------------------------
(* A contact leaves: what was its own goes to k, or is nobody's. *)
Leaves(c, k) ==
  /\ contacts' = [contacts EXCEPT ![c] = "gone"]
  /\ owner' = [v \in Values |-> IF owner[v] = c THEN k ELSE owner[v]]
  /\ link' = [r \in Refs |-> IF link[r] = c THEN k ELSE link[r]]
  /\ pairs' = {p \in pairs : c \notin {p[1], p[2]}}
  /\ \A s \in Sales : IF sale[s].of # c THEN sale'[s] = sale[s]
                    ELSE sale'[s] = NoSale \/ (k # Nobody /\ sale'[s].of = k /\ sale'[s].status # "none")

OneOpen == \A s, t \in Sales : sale[s].status = "open" /\ sale[t] = sale[s] => s = t

LEMMA LeaveTables ==
  ASSUME IInv, NEW c \in Ids, NEW k \in Ids \cup {Nobody}, Leaves(c, k), TypeOK', OneOpen',
         k # Nobody => There(k) /\ k # c
  PROVE  TablesOk'
<1>1. TablesOk /\ TypeOK
  BY DEF IInv, Safe
<1>2. /\ \A b \in Ids : b # c /\ contacts[b] = "live" => contacts'[b] = "live"
      /\ \A b \in Ids : contacts[b] # "none" => contacts'[b] # "none"
  BY <1>1 DEF Leaves, TypeOK
<1>3. \A v \in Values : owner'[v] # Nobody => contacts'[owner'[v]] = "live"
  BY <1>1, <1>2, Fits DEF Leaves, TablesOk, There, TypeOK
<1>4. \A r \in Refs : link'[r] # Nobody => contacts'[link'[r]] = "live"
  BY <1>1, <1>2, Fits DEF Leaves, TablesOk, There, TypeOK
<1>5. \A p \in pairs' : p[1] # p[2] /\ contacts'[p[1]] # "none" /\ contacts'[p[2]] # "none"
  <2> SUFFICES ASSUME NEW p \in pairs' PROVE p[1] # p[2] /\ contacts'[p[1]] # "none" /\ contacts'[p[2]] # "none"
    OBVIOUS
  <2>1. p \in pairs /\ p \in Ids \X Ids
    BY <1>1 DEF Leaves, TypeOK
  <2>2. p[1] \in Ids /\ p[2] \in Ids
    BY <2>1
  <2> QED BY <1>1, <1>2, <2>1, <2>2 DEF TablesOk
<1>6. \A s \in Sales : \/ sale'[s] = NoSale
                       \/ sale'[s].of # Nobody /\ sale'[s].status # "none" /\ contacts'[sale'[s].of] = "live"
  BY <1>1, <1>2, Fits DEF Leaves, TablesOk, There, TypeOK
<1> QED BY <1>3, <1>4, <1>5, <1>6 DEF TablesOk, There, OneOpen

LEMMA LeaveOthers ==
  ASSUME IInv, NEW h \in Handlers, NEW c \in Ids, NEW k \in Ids \cup {Nobody}, TypeOK', Leaves(c, k),
         contacts[c] # "none", k # Nobody => There(k) /\ k # c /\ Knows(h, k),
         Apart(h), Meets(h), ~Merging(h)', ClaimsOk(h)', NEW g \in Handlers \ {h},
         Holds(g) => req[g].contact # c,
         Merging(g) => {c, k} \cap {req[g].contact, req[g].drop} = {}
  PROVE  Fine(g)'
<1>1. TypeOK /\ TablesOk /\ Fine(g) /\ Fine(h) /\ req'[g] = req[g] /\ req[g] \in Requests
  BY DEF IInv, Safe, Apart, Fine, TypeOK
<1>2. \A b \in Ids : /\ b # c => contacts'[b] = contacts[b]
                     /\ contacts'[b] = "none" <=> contacts[b] = "none"
                     /\ contacts[b] = "gone" => contacts'[b] = "gone"
  BY <1>1 DEF Leaves, TypeOK
<1>3. /\ req[g].contact \in Ids \cup {Nobody} /\ req[g].drop \in Ids \cup {Nobody} /\ req[g].found \subseteq Ids
      /\ req[g].claims \subseteq Values /\ req[g].links \subseteq Refs /\ req[g].moved \subseteq Sales
  BY <1>1 DEF Requests
<1>4. FieldsOk(g)'
  <2>1. FieldsOk(g)
    BY <1>1 DEF Fine
  <2> QED BY <1>1, <1>2, <1>3, <2>1 DEF FieldsOk, Creates, InTx
<1>5. HiddenOk(g)'
  <2> SUFFICES ASSUME Hides(g) PROVE HiddenOk(g)'
    BY <1>1, <1>2, <1>3 DEF HiddenOk, Hides, Creates
  <2> DEFINE b == req[g].contact
  <2>1. b \in Ids /\ b # Nobody /\ HiddenOk(g) /\ b # k
    BY <1>1, <1>3, Fits DEF Fine, Hides, Knows
  <2>2. InTx(g)' => contacts'[b] = "none"
    BY <1>1, <1>2, <2>1 DEF HiddenOk, InTx
  <2>3. \A v \in Values : owner'[v] # b
    BY <2>1 DEF HiddenOk, Leaves
  <2>4. \A p \in pairs' : b \notin {p[1], p[2]}
    BY <2>1 DEF HiddenOk, Leaves
  <2>5. ASSUME NEW f \in Handlers
        PROVE  b \notin req'[f].found /\ req'[f].drop # b /\ (f # g => req'[f].contact # b \/ req'[f].op = "delete")
    <3>1. CASE f = h
      BY <1>1, <2>1, <3>1, Fits DEF Meets, Knows
    <3>2. CASE f # h
      BY <2>1, <3>2 DEF HiddenOk, Apart
    <3> QED BY <3>1, <3>2
  <2> QED BY <1>1, <2>2, <2>3, <2>4, <2>5 DEF HiddenOk
<1>6. ClaimsOk(g)'
  <2>1. ClaimsOk(g)
    BY <1>1 DEF Fine
  <2>2. ASSUME NEW v \in req[g].claims PROVE owner'[v] = Nobody /\ ~Pending(g, v)'
    <3>1. owner[v] = Nobody /\ ~Pending(g, v) /\ v \in Values
      BY <1>3, <2>1 DEF ClaimsOk
    <3>2. owner'[v] = Nobody
      BY <3>1, Fits DEF Leaves
    <3>3. v \notin req'[h].claims
      BY <1>1 DEF ClaimsOk, Pending
    <3> QED BY <3>1, <3>2, <3>3 DEF Pending, Apart
  <2>3. ASSUME NEW r \in req[g].links PROVE link'[r] = Nobody /\ ~RowPending(g, r)'
    <3>1. link[r] = Nobody /\ ~RowPending(g, r) /\ r \in Refs
      BY <1>3, <2>1 DEF ClaimsOk
    <3>2. link'[r] = Nobody
      BY <3>1, Fits DEF Leaves
    <3>3. r \notin req'[h].links
      BY <1>1 DEF ClaimsOk, RowPending
    <3> QED BY <3>1, <3>2, <3>3 DEF RowPending, Apart
  <2> QED BY <1>1, <2>2, <2>3 DEF ClaimsOk
<1>7. HeldOk(g)'
  <2> SUFFICES ASSUME Holds(g) PROVE ~Gone(req[g].contact)' /\ ~Locked(req[g].contact)'
    BY <1>1 DEF HeldOk, Holds, InTx, Gone, Locked
  <2>1. ~Gone(req[g].contact) /\ ~Locked(req[g].contact) /\ req[g].contact \in Ids /\ req[g].contact # c
    BY <1>1, <1>3 DEF Fine, HeldOk, FieldsOk, Holds
  <2>2. ~Gone(req[g].contact)'
    BY <1>1, <1>2, <2>1 DEF Gone
  <2>3. ASSUME NEW f \in Handlers, Merging(f)' PROVE req[g].contact \notin {req'[f].contact, req'[f].drop}
    BY <2>1, <2>3 DEF Locked, Merging, Apart
  <2> QED BY <1>1, <2>2, <2>3 DEF Locked
<1>8. MergeOk(g)'
  <2> DEFINE m == req[g].contact
             d == req[g].drop
  <2>1. MergeOk(g) /\ FieldsOk(g)
    BY <1>1 DEF Fine
  <2>2. req[g].op = "merge" => d # Nobody /\ m # d
    BY <2>1 DEF MergeOk
  <2>3. ASSUME Merging(g)
        PROVE  /\ There(m)' /\ There(d)'
               /\ \A f \in Handlers \ {g} : Merging(f)' => {m, d} \cap {req'[f].contact, req'[f].drop} = {}
               /\ req[g].shut \subseteq OpenOf(d)'
               /\ req[g].pc = "commit" => /\ req[g].moved = {s \in Sales : sale'[s].of = d}
                                          /\ \A s \in req[g].moved \ req[g].shut : sale'[s].status = "open" => OpenOf(m)' = {}
    <3>1. m \in Ids /\ d \in Ids /\ There(m) /\ There(d) /\ m \notin {c, k, Nobody} /\ d \notin {c, k, Nobody}
      BY <1>3, <2>1, <2>2, <2>3, Fits DEF MergeOk, Merging, FieldsOk
    <3>2. There(m)' /\ There(d)'
      BY <1>1, <1>2, <3>1 DEF There
    <3>3. \A f \in Handlers \ {g} : Merging(f)' => {m, d} \cap {req'[f].contact, req'[f].drop} = {}
      BY <2>1, <2>3 DEF MergeOk, Merging, Apart
    <3>4. \A s \in Sales : sale[s].of \in {m, d} \/ sale'[s].of \in {m, d} => sale'[s] = sale[s]
      BY <3>1, SaleFits DEF Leaves
    <3>5. OpenOf(m)' = OpenOf(m) /\ OpenOf(d)' = OpenOf(d)
      BY <1>1, <3>4 DEF OpenOf
    <3>6. req[g].shut \subseteq OpenOf(d)'
      BY <2>1, <2>3, <3>5 DEF MergeOk
    <3>7. req[g].pc = "commit" => req[g].moved = {s \in Sales : sale'[s].of = d}
      BY <2>1, <2>3, <3>4 DEF MergeOk, Merging
    <3>8. req[g].pc = "commit" => \A s \in req[g].moved \ req[g].shut : sale'[s].status = "open" => OpenOf(m)' = {}
      BY <1>3, <2>1, <2>3, <3>4, <3>5, <3>7 DEF MergeOk, Merging
    <3> QED BY <3>2, <3>3, <3>6, <3>7, <3>8
  <2> QED BY <1>1, <2>2, <2>3 DEF MergeOk, Merging
<1>9. AnswerOk(g)'
  <2>1. AnswerOk(g) /\ FieldsOk(g)
    BY <1>1 DEF Fine
  <2>2. contacts'[c] = "gone" /\ \A v \in Values : owner[v] # Nobody /\ owner[v] # c => owner'[v] = owner[v]
    BY <1>1 DEF Leaves, TypeOK
  <2>3. \A b \in Ids : contacts[b] = "gone" => contacts'[b] = "gone"
    BY <1>2
  <2>4. req[g].pc = "orphan" => \A b \in req[g].found : contacts'[b] = "gone" \/ owner'[req[g].primary] = b
    <3> SUFFICES ASSUME req[g].pc = "orphan", NEW b \in req[g].found
                 PROVE  contacts'[b] = "gone" \/ owner'[req[g].primary] = b
      OBVIOUS
    <3>1. req[g].op \in {"message", "booking", "inbox", "upsert"}
      BY <1>1, <2>1 DEF FieldsOk, Requests
    <3>2. req[g].primary \in Values /\ b \in Ids /\ b # Nobody
      BY <1>3, <2>1, <3>1, Fits DEF FieldsOk
    <3> QED BY <2>1, <2>2, <2>3, <3>2 DEF AnswerOk, Gone
  <2>5. ASSUME req[g].single, req[g].pc \in {"extend", "attach", "link", "own", "commit", "sale"}
        PROVE  \/ contacts'[req[g].contact] = "gone" \/ owner'[req[g].primary] = req[g].contact
               \/ contacts'[req[g].contact] = "none" /\ req[g].primary \in req[g].claims
    <3>1. req[g].op \in {"message", "booking", "inbox", "upsert"}
      BY <2>1, <2>5 DEF FieldsOk
    <3>2. req[g].primary \in Values /\ req[g].contact \in Ids /\ req[g].contact # Nobody
      BY <1>3, <2>1, <2>5, <3>1, Fits DEF FieldsOk
    <3> QED BY <1>2, <2>1, <2>2, <2>3, <2>5, <3>2 DEF AnswerOk, Gone
  <2> QED BY <1>1, <2>1, <2>4, <2>5 DEF AnswerOk, Gone
<1> QED BY <1>4, <1>5, <1>6, <1>7, <1>8, <1>9 DEF Fine

LEMMA LeaveKeeps ==
  ASSUME IInv, NEW h \in Handlers, NEW c \in Ids, NEW k \in Ids \cup {Nobody}, TypeOK', Leaves(c, k), OneOpen',
         contacts[c] # "none", k # Nobody => There(k) /\ k # c /\ Knows(h, k),
         Apart(h), Meets(h), ~Merging(h)', Fine(h)',
         \A g \in Handlers \ {h} : /\ Holds(g) => req[g].contact # c
                                   /\ Merging(g) => {c, k} \cap {req[g].contact, req[g].drop} = {}
  PROVE  IInv'
<1>1. TablesOk'
  BY LeaveTables
<1>2. ASSUME NEW g \in Handlers PROVE Fine(g)'
  <2>1. CASE g = h
    BY <2>1
  <2>2. CASE g # h
    BY <2>2, LeaveOthers DEF Fine
  <2> QED BY <2>1, <2>2
<1> QED BY <1>1, <1>2 DEF IInv, Safe, Fine

(* A sale is closed or reopened, and nothing else. *)
LEMMA StatusKeeps ==
  ASSUME IInv, NEW s \in Sales, NEW status \in {"open", "lost", "won"}, sale[s] # NoSale,
         sale' = [sale EXCEPT ![s].status = status], ~SaleLocked(s),
         status = "open" => OpenOf(sale[s].of) = {} /\ ~IndexPending(sale[s].of),
         UNCHANGED <<contacts, born, owner, link, pairs, req, lost>>
  PROVE  IInv'
<1>1. TypeOK /\ TablesOk
  BY DEF IInv, Safe
<1>2. /\ sale'[s].of = sale[s].of /\ sale'[s].status = status /\ \A t \in Sales \ {s} : sale'[t] = sale[t]
      /\ sale' \in [Sales -> [of : Ids \cup {Nobody}, status : {"none", "open", "lost", "won"}]]
  BY <1>1 DEF TypeOK
<1>3. TypeOK'
  BY <1>1, <1>2 DEF TypeOK
<1>4. TablesOk'
  <2>1. \A t \in Sales : \/ sale'[t] = NoSale
                         \/ sale'[t].of # Nobody /\ sale'[t].status # "none" /\ There(sale'[t].of)
    BY <1>1, <1>2 DEF TablesOk
  <2>2. \A t, u \in Sales : sale'[t].status = "open" /\ sale'[u] = sale'[t] => t = u
    BY <1>1, <1>2 DEF TablesOk, OpenOf
  <2> QED BY <1>1, <2>1, <2>2 DEF TablesOk, There
<1>5. ASSUME NEW h \in Handlers PROVE Fine(h)'
  <2>1. Fine(h)
    BY DEF IInv, Safe, Fine
  <2>2. FieldsOk(h)' /\ HiddenOk(h)' /\ ClaimsOk(h)' /\ HeldOk(h)' /\ AnswerOk(h)'
    BY <2>1 DEF Fine, FieldsOk, HiddenOk, ClaimsOk, HeldOk, AnswerOk, Creates, Hides, InTx, Pending, RowPending, Holds,
                Gone, Locked, Merging
  <2>3. MergeOk(h)'
    <3>1. MergeOk(h) /\ s \notin req[h].shut \cup req[h].moved
      BY <2>1 DEF Fine, SaleLocked
    <3>2. \A t \in Sales : sale'[t].of = sale[t].of
      BY <1>2
    <3>3. req[h].shut \subseteq OpenOf(req[h].drop) => req[h].shut \subseteq OpenOf(req[h].drop)'
      BY <1>2, <3>1 DEF OpenOf
    <3>4. ASSUME req[h].pc = "commit", req[h].op = "merge"
          PROVE  /\ req[h].moved = {t \in Sales : sale'[t].of = req[h].drop}
                 /\ \A t \in req[h].moved \ req[h].shut : sale'[t].status = "open" => OpenOf(req[h].contact)' = {}
      <4>1. req[h].moved = {t \in Sales : sale[t].of = req[h].drop}
        BY <3>1, <3>4 DEF MergeOk
      <4>2. req[h].moved = {t \in Sales : sale'[t].of = req[h].drop}
        BY <3>2, <4>1
      <4>3. ASSUME NEW t \in req[h].moved \ req[h].shut, sale'[t].status = "open"
            PROVE  OpenOf(req[h].contact)' = {}
        <5>1. t \in Sales /\ sale[t].status = "open" /\ OpenOf(req[h].contact) = {}
          BY <1>2, <3>1, <3>4, <4>1, <4>3 DEF MergeOk
        <5>2. status = "open" => sale[s].of # req[h].contact
          BY <3>4, <4>3, <5>1 DEF IndexPending
        <5> QED BY <1>2, <3>2, <5>1, <5>2 DEF OpenOf
      <4> QED BY <4>2, <4>3
    <3> QED BY <3>1, <3>3, <3>4 DEF MergeOk, Merging, There
  <2> QED BY <2>2, <2>3 DEF Fine
<1> QED BY <1>3, <1>4, <1>5 DEF IInv, Safe, Fine

-----------------------------------------------------------------------------
(* The actions. *)

LEMMA Now ==
  ASSUME IInv, NEW h \in Handlers
  PROVE  TypeOK /\ TablesOk /\ Fine(h) /\ req[h] \in Requests
BY DEF IInv, Safe, Fine, TypeOK

LEMMA Knowing ==
  ASSUME IInv, NEW h \in Handlers
  PROVE  /\ Knows(h, Nobody)
         /\ \A c \in req[h].found : Knows(h, c)
         /\ req[h].op # "delete" => Knows(h, req[h].contact)
         /\ Knows(h, req[h].drop)
         /\ \A v \in Values : Knows(h, owner[v])
         /\ \A p \in pairs : Knows(h, p[1]) /\ Knows(h, p[2])
         /\ \A c \in Ids : Unused(c) => Knows(h, c)
<1> SUFFICES ASSUME NEW g \in Handlers \ {h}, Hides(g)
             PROVE  /\ req[g].contact # Nobody
                    /\ req[g].contact \notin req[h].found /\ req[g].contact # req[h].drop
                    /\ req[h].op # "delete" => req[g].contact # req[h].contact
                    /\ \A v \in Values : req[g].contact # owner[v]
                    /\ \A p \in pairs : req[g].contact \notin {p[1], p[2]}
                    /\ \A c \in Ids : Unused(c) => req[g].contact # c
  BY DEF Knows
<1>1. HiddenOk(g)
  BY DEF IInv, Safe
<1> QED BY <1>1 DEF HiddenOk, Hides, Unused

LEMMA EndsFine ==
  ASSUME IInv, NEW h \in Handlers, Ends(h)
  PROVE  Fine(h)' /\ Apart(h) /\ Meets(h) /\ ~Merging(h)' /\ req' \in [Handlers -> Requests]
<1>1. req'[h] = Idle /\ req' \in [Handlers -> Requests] /\ Apart(h)
  BY EndsTypes, Now DEF Apart
<1>2. FieldsOk(h)' /\ HiddenOk(h)' /\ ClaimsOk(h)' /\ HeldOk(h)' /\ AnswerOk(h)' /\ MergeOk(h)'
  BY <1>1, Fits DEF FieldsOk, HiddenOk, Hides, ClaimsOk, HeldOk, Holds, InTx, MergeOk, Merging, AnswerOk
<1>3. Meets(h) /\ ~Merging(h)'
  BY <1>1, Fits DEF Meets, Merging
<1> QED BY <1>1, <1>2, <1>3 DEF Fine

LEMMA EndsKeeps ==
  ASSUME IInv, NEW h \in Handlers, Ends(h), NEW c \in Ids \cup {Nobody}, Grows(h, c), Knows(h, c), TypeOK'
  PROVE  IInv'
BY EndsFine, GrowKeeps

LEMMA Still ==
  ASSUME NEW h, UNCHANGED <<contacts, owner, link, sale, pairs>>
  PROVE  Grows(h, Nobody) /\ \A c : c # Nobody => Grows(h, c)
BY DEF Grows

LEMMA EndsStill ==
  ASSUME IInv, NEW h \in Handlers, Ends(h), UNCHANGED Tables, lost' = lost \/ (lost' = lost \cup {req[h].contact} /\ Creates(h))
  PROVE  IInv'
<1>1. TypeOK'
  <2>1. req[h].contact \in Ids \cup {Nobody} /\ (Creates(h) => req[h].contact # Nobody)
    BY Now DEF Requests, Fine, FieldsOk, Creates
  <2> QED BY <2>1, Now, EndsFine DEF TypeOK, Tables
<1> QED BY <1>1, Knowing, Still, EndsKeeps DEF Tables

Resolving == {"message", "booking", "inbox", "upsert"}

LEMMA ContinueKeeps ==
  ASSUME IInv, NEW h \in Handlers, TypeOK', Apart(h), Grows(h, req[h].contact),
         NEW pc, NEW T, NEW C, NEW L, Continues(h, pc, T, C, L),
         req[h].op \in Resolving, pc \notin {"lock", "close", "move"},
         FieldsOk(h)', ClaimsOk(h)', AnswerOk(h)',
         Hides(h)' => Hides(h) /\ UNCHANGED <<contacts, owner, pairs>>,
         Holds(h)' => Holds(h) \/ (~Gone(req[h].contact) /\ ~Locked(req[h].contact))
  PROVE  IInv'
<1>1. /\ req'[h].pc = pc /\ req'[h].contact = req[h].contact /\ req'[h].found = req[h].found
      /\ req'[h].drop = req[h].drop /\ req'[h].op = req[h].op
  BY Now DEF Requests, Continues
<1>2. req[h].op # "delete" /\ req[h].op # "merge" /\ req[h].contact \in Ids \cup {Nobody} /\ ~Merging(h) /\ ~Merging(h)'
  BY <1>1, Now DEF Requests, Resolving, Merging
<1>3. Meets(h)
  BY <1>1, <1>2, Knowing DEF Meets
<1>4. HiddenOk(h)'
  <2> SUFFICES ASSUME Hides(h)' PROVE HiddenOk(h)'
    BY DEF HiddenOk
  <2>1. HiddenOk(h) /\ Hides(h) /\ UNCHANGED <<contacts, owner, pairs>>
    BY Now DEF Fine
  <2>2. \A g \in Handlers : req'[g].found = req[g].found /\ req'[g].drop = req[g].drop /\ req'[g].op = req[g].op
                          /\ req'[g].contact = req[g].contact
    BY <1>1 DEF Apart
  <2> QED BY <2>1, <2>2 DEF HiddenOk, InTx
<1>5. HeldOk(h)'
  <2> SUFFICES ASSUME Holds(h)' PROVE ~Gone(req[h].contact)' /\ ~Locked(req[h].contact)'
    BY <1>1 DEF HeldOk, Gone, Locked, Merging
  <2>1. ~Gone(req[h].contact) /\ ~Locked(req[h].contact)
    BY Now DEF Fine, HeldOk
  <2>2. ~Gone(req[h].contact)'
    <3>1. req[h].contact \in Ids
      BY <1>1, <1>2, Fits DEF Holds, FieldsOk
    <3> QED BY <1>1, <2>1, <3>1 DEF Gone, Grows
  <2>3. ASSUME NEW f \in Handlers, Merging(f)' PROVE req[h].contact \notin {req'[f].contact, req'[f].drop}
    <3>1. f # h
      BY <1>2, <2>3
    <3> QED BY <2>1, <2>3, <3>1 DEF Locked, Merging, Apart
  <2> QED BY <1>1, <2>2, <2>3 DEF Locked
<1>6. MergeOk(h)'
  BY <1>1, <1>2 DEF MergeOk, Merging
<1> QED BY <1>2, <1>3, <1>4, <1>5, <1>6, Knowing, GrowKeeps DEF Fine

(* A request goes on with nothing of the tables changed. *)
LEMMA StillKeeps ==
  ASSUME IInv, NEW h \in Handlers, NEW r \in Requests, req' = [req EXCEPT ![h] = r], UNCHANGED Tables, lost' = lost,
         Meets(h), Fine(h)'
  PROVE  IInv'
<1>1. req' \in [Handlers -> Requests] /\ req'[h] = r /\ Apart(h)
  BY SetTypes, Now DEF Apart
<1>2. TypeOK'
  BY <1>1, Now DEF TypeOK, Tables
<1> QED BY <1>1, <1>2, Knowing, Still, GrowKeeps DEF Tables

LEMMA AskKeeps ==
  ASSUME IInv, NEW h \in Handlers, NEW w \in Writes, NEW op \in Resolving, Ask(h, op, w)
  PROVE  IInv'
<1> DEFINE r == [Idle EXCEPT !.op = op, !.pc = "find", !.primary = w.primary, !.single = (w.others \subseteq {w.primary}),
                             !.todo = w.others \cup {w.primary}]
<1>1. w.primary \in Values /\ w.others \in SUBSET Values
  BY WritesAssumption
<1>2. /\ r \in Requests /\ r.op = op /\ r.pc = "find" /\ r.primary = w.primary /\ r.single = (w.others \subseteq {w.primary})
      /\ r.todo = w.others \cup {w.primary} /\ r.contact = Nobody /\ r.drop = Nobody /\ r.found = {} /\ r.claims = {}
      /\ r.links = {} /\ r.shut = {} /\ r.moved = {}
  BY <1>1 DEF Requests, Idle, Nobody, Resolving
<1>3. req' = [req EXCEPT ![h] = r] /\ UNCHANGED Tables /\ lost' = lost
  BY DEF Ask
<1> HIDE DEF r
<1>4. req'[h] = r /\ Apart(h)
  BY <1>2, <1>3, SetTypes, Now DEF Apart
<1>5. FieldsOk(h)'
  BY <1>1, <1>2, <1>4 DEF FieldsOk, Resolving, Ask
<1>6. HiddenOk(h)' /\ ClaimsOk(h)' /\ HeldOk(h)' /\ MergeOk(h)'
  BY <1>2, <1>4 DEF HiddenOk, Hides, ClaimsOk, HeldOk, Holds, MergeOk, Merging, Resolving
<1>7. AnswerOk(h)'
  BY <1>2, <1>4 DEF AnswerOk
<1>8. Meets(h)
  BY <1>2, <1>4 DEF Meets, Merging, Resolving
<1> QED BY <1>2, <1>3, <1>5, <1>6, <1>7, <1>8, StillKeeps DEF Fine

(* The request comes to work on a contact that others know. *)
TakesUp(h, pc, c, F) == req' = [req EXCEPT ![h] = [req[h] EXCEPT !.pc = pc, !.contact = c, !.found = F]]

LEMMA TakesUpKeeps ==
  ASSUME IInv, NEW h \in Handlers, req[h].op \in Resolving, NEW c \in Ids, NEW F, F \subseteq Ids,
         NEW pc \in {"attach", "flag"}, TakesUp(h, pc, c, F),
         UNCHANGED Tables, lost' = lost, req[h].claims = {}, req[h].links = {},
         Knows(h, c), contacts[c] # "none",
         (pc = "attach" /\ F = {}) \/ (pc = "flag" /\ F \subseteq req[h].found /\ c \notin F /\ ~req[h].single),
         req[h].single => Gone(c) \/ owner[req[h].primary] = c
  PROVE  IInv'
<1> DEFINE r == [req[h] EXCEPT !.pc = pc, !.contact = c, !.found = F]
<1>1. /\ r \in Requests /\ r.pc = pc /\ r.contact = c /\ r.found = F /\ r.op = req[h].op /\ r.primary = req[h].primary
      /\ r.single = req[h].single /\ r.drop = req[h].drop /\ r.claims = {} /\ r.links = {} /\ r.shut = req[h].shut
      /\ r.moved = req[h].moved /\ FieldsOk(h)
  BY Now DEF Requests, Fine
<1> HIDE DEF r
<1>0. req' = [req EXCEPT ![h] = r]
  BY DEF TakesUp, r
<1>2. req'[h] = r /\ Apart(h)
  BY <1>0, <1>1, SetTypes, Now DEF Apart
<1>3. UNCHANGED <<contacts, owner, link, sale, pairs>> /\ c # Nobody /\ req[h].drop = Nobody
  BY <1>1, Fits DEF Tables, FieldsOk, Resolving
<1>4. FieldsOk(h)'
  <2>1. \A b \in F : contacts[b] # "none"
    BY <1>1 DEF FieldsOk
  <2> QED BY <1>1, <1>2, <1>3, <2>1 DEF FieldsOk, Resolving
<1>5. HiddenOk(h)' /\ ClaimsOk(h)' /\ HeldOk(h)' /\ MergeOk(h)'
  BY <1>1, <1>2, <1>3 DEF HiddenOk, Hides, Creates, ClaimsOk, HeldOk, Holds, MergeOk, Merging, Resolving
<1>6. AnswerOk(h)'
  BY <1>1, <1>2, <1>3 DEF AnswerOk, Gone
<1>7. Meets(h)
  BY <1>1, <1>2, <1>3, Knowing DEF Meets, Merging, Resolving
<1> QED BY <1>0, <1>1, <1>2, <1>4, <1>5, <1>6, <1>7, StillKeeps DEF Fine

LEMMA FindKeeps ==
  ASSUME IInv, NEW h \in Handlers, Find(h)
  PROVE  IInv'
<1> DEFINE found == Owners(req[h].todo)
<1>1. /\ TypeOK /\ TablesOk /\ FieldsOk(h) /\ AnswerOk(h) /\ req[h] \in Requests /\ req[h].pc = "find"
      /\ UNCHANGED Tables /\ lost' = lost /\ UNCHANGED <<contacts, owner, link, sale, pairs>>
  BY Now DEF Find, Fine, Tables
<1>2. /\ req[h].op \in Resolving /\ req[h].contact = Nobody /\ req[h].found = {} /\ req[h].claims = {} /\ req[h].links = {}
      /\ req[h].todo \subseteq Values /\ req[h].drop = Nobody /\ req[h].primary \in Values
  BY <1>1 DEF FieldsOk, Requests, Resolving
<1>3. \A c \in found : c \in Ids /\ c # Nobody /\ contacts[c] = "live" /\ Knows(h, c)
  BY <1>1, <1>2, Knowing, Fits DEF Owners, TablesOk, There, TypeOK
<1>4. req[h].single => \A c \in found : owner[req[h].primary] = c
  BY <1>1 DEF AnswerOk, Owners
<1>5. CASE Goes(h, "create")
  <2>1. /\ req' \in [Handlers -> Requests] /\ req'[h] = [req[h] EXCEPT !.pc = "create"] /\ req'[h].pc = "create" /\ Apart(h)
    BY <1>1, <1>5, GoesTypes DEF Apart
  <2>2. FieldsOk(h)'
    BY <1>1, <1>2, <2>1 DEF FieldsOk, Requests, Resolving
  <2>3. HiddenOk(h)' /\ ClaimsOk(h)' /\ HeldOk(h)' /\ MergeOk(h)' /\ AnswerOk(h)' /\ Meets(h)
    BY <1>1, <1>2, <2>1 DEF HiddenOk, Hides, ClaimsOk, HeldOk, Holds, MergeOk, Merging, AnswerOk, Meets, Requests, Resolving
  <2>4. TypeOK'
    BY <1>1, <2>1 DEF TypeOK, Tables
  <2> QED BY <1>1, <2>1, <2>2, <2>3, <2>4, Knowing, Still, GrowKeeps DEF Fine
<1>6. ASSUME NEW c \in found, req' = [req EXCEPT ![h].pc = "attach", ![h].contact = c]
      PROVE  IInv'
  <2>1. TakesUp(h, "attach", c, {})
    BY <1>1, <1>2, <1>6 DEF Requests, TakesUp
  <2>2. /\ c \in Ids /\ contacts[c] # "none" /\ Knows(h, c)
        /\ req[h].single => Gone(c) \/ owner[req[h].primary] = c
    BY <1>3, <1>4
  <2>3. req[h].op \in Resolving /\ UNCHANGED Tables /\ lost' = lost /\ req[h].claims = {} /\ req[h].links = {}
    BY <1>1, <1>2
  <2> QED BY <2>1, <2>2, <2>3, TakesUpKeeps
<1>7. ASSUME Cardinality(found) > 1, req' = [req EXCEPT ![h].pc = "winner", ![h].found = found]
      PROVE  IInv'
  <2> DEFINE r == [req[h] EXCEPT !.pc = "winner", !.found = found]
  <2>1. req[h].single => found = {} \/ found = {owner[req[h].primary]}
    BY <1>4
  <2>2. ~req[h].single
    <3>1. Cardinality({}) = 0
      BY FS_EmptySet
    <3>2. Cardinality({owner[req[h].primary]}) = 1
      BY FS_Singleton
    <3> HIDE DEF found
    <3> QED BY <1>7, <2>1, <3>1, <3>2
  <2>3. found \in SUBSET Ids
    BY <1>3
  <2>4. /\ r \in Requests /\ r.pc = "winner" /\ r.contact = Nobody /\ r.found = found /\ r.op = req[h].op
        /\ r.primary = req[h].primary /\ ~r.single /\ r.drop = Nobody /\ r.claims = {} /\ r.links = {}
        /\ r.shut = req[h].shut /\ r.moved = req[h].moved
    BY <1>1, <1>2, <2>2, <2>3 DEF Requests
  <2>5. req' = [req EXCEPT ![h] = r]
    BY <1>7
  <2> HIDE DEF r, found
  <2>6. req'[h] = r /\ Apart(h)
    BY <1>1, <2>4, <2>5, SetTypes DEF Apart
  <2>7. FieldsOk(h)'
    <3>1. Nobody \notin found /\ \A c \in found : contacts'[c] # "none"
      BY <1>1, <1>3
    <3>2. req[h].shut = {} /\ req[h].moved = {} /\ req[h].op # "inbox"
      BY <1>1, <1>2, <2>2 DEF FieldsOk, Resolving
    <3> QED BY <1>2, <2>4, <2>6, <3>1, <3>2 DEF FieldsOk, Resolving
  <2>8. HiddenOk(h)' /\ ClaimsOk(h)' /\ HeldOk(h)' /\ MergeOk(h)' /\ AnswerOk(h)' /\ Meets(h)
    BY <1>2, <1>3, <2>4, <2>6 DEF HiddenOk, Hides, ClaimsOk, HeldOk, Holds, MergeOk, Merging, AnswerOk, Meets, Resolving
  <2> QED BY <1>1, <2>4, <2>5, <2>7, <2>8, StillKeeps DEF Fine
<1> QED BY <1>5, <1>6, <1>7 DEF Find

LEMMA InsertContactKeeps ==
  ASSUME IInv, NEW h \in Handlers, InsertContact(h)
  PROVE  IInv'
<1>1. PICK c \in Ids : /\ Unused(c)
                       /\ contacts' = IF InTx(h) THEN contacts ELSE [contacts EXCEPT ![c] = "live"]
                       /\ req' = [req EXCEPT ![h].pc = "claim", ![h].contact = c]
  BY DEF InsertContact
<1> DEFINE r == [req[h] EXCEPT !.pc = "claim", !.contact = c]
<1>2. /\ TypeOK /\ TablesOk /\ FieldsOk(h) /\ req[h] \in Requests /\ req[h].pc = "create"
      /\ UNCHANGED <<born, owner, link, sale, pairs, lost>>
  BY Now DEF InsertContact, Fine
<1>3. /\ req[h].op \in Resolving /\ req[h].contact = Nobody /\ req[h].found = {} /\ req[h].claims = {} /\ req[h].links = {}
      /\ req[h].drop = Nobody /\ req[h].primary \in Values /\ req[h].shut = {} /\ req[h].moved = {}
      /\ req[h].op = "inbox" => req[h].single /\ req[h].primary \in Refs
  BY <1>2 DEF FieldsOk, Requests, Resolving
<1>4. /\ r \in Requests /\ r.pc = "claim" /\ r.contact = c /\ r.found = {} /\ r.op = req[h].op /\ r.primary = req[h].primary
      /\ r.single = req[h].single /\ r.drop = Nobody /\ r.claims = {} /\ r.links = {} /\ r.shut = {} /\ r.moved = {}
  BY <1>2, <1>3 DEF Requests
<1>5. req' = [req EXCEPT ![h] = r]
  BY <1>1
<1> HIDE DEF r
<1>6. req'[h] = r /\ Apart(h) /\ req' \in [Handlers -> Requests]
  BY <1>2, <1>4, <1>5, SetTypes DEF Apart
<1>7. contacts[c] = "none" /\ c # Nobody
  BY <1>1, Fits DEF Unused
<1>8. /\ \A b \in Ids \ {c} : contacts'[b] = contacts[b]
      /\ contacts'[c] = IF InTx(h) THEN "none" ELSE "live"
      /\ contacts' \in [Ids -> {"none", "live", "gone"}]
  BY <1>1, <1>2, <1>7 DEF TypeOK
<1>9. TypeOK'
  BY <1>2, <1>6, <1>8 DEF TypeOK
<1>10. Grows(h, c)
  BY <1>2, <1>7, <1>8 DEF Grows
<1>11. Knows(h, c)
  BY <1>1, Knowing
<1>12. FieldsOk(h)'
  BY <1>3, <1>4, <1>6, <1>7, <1>8 DEF FieldsOk, Resolving, InTx, Creates
<1>13. HiddenOk(h)'
  <2>1. InTx(h)' => contacts'[c] = "none"
    BY <1>4, <1>6, <1>8 DEF InTx
  <2>2. (\A v \in Values : owner[v] # c) /\ (\A p \in pairs : c \notin {p[1], p[2]})
    BY <1>2, <1>7 DEF TablesOk, There
  <2>3. ASSUME NEW g \in Handlers
        PROVE  c \notin req'[g].found /\ req'[g].drop # c /\ (g # h => req'[g].contact # c)
    <3>1. CASE g = h
      BY <1>4, <1>6, <1>7, <3>1
    <3>2. CASE g # h
      <4>1. FieldsOk(g) /\ req'[g] = req[g]
        BY <1>6, <3>2 DEF IInv, Safe, Apart
      <4> QED BY <1>1, <1>7, <4>1 DEF FieldsOk, Unused
    <3> QED BY <3>1, <3>2
  <2> QED BY <1>2, <1>4, <1>6, <2>1, <2>2, <2>3 DEF HiddenOk
<1>14. ClaimsOk(h)' /\ HeldOk(h)' /\ MergeOk(h)' /\ AnswerOk(h)' /\ Meets(h)
  BY <1>3, <1>4, <1>6, <1>11 DEF ClaimsOk, HeldOk, Holds, MergeOk, Merging, AnswerOk, Meets, Resolving
<1> QED BY <1>6, <1>9, <1>10, <1>11, <1>12, <1>13, <1>14, GrowKeeps DEF Fine

LEMMA InsertKeeps ==
  ASSUME IInv, NEW h \in Handlers, NEW v \in Values, NEW pc, Insert(h, v, pc),
         ~Pending(h, v), ~Locked(req[h].contact), UNCHANGED <<contacts, born, link, sale, pairs, lost>>,
         \/ req[h].pc = "claim" /\ pc = "extend" /\ v = req[h].primary
         \/ req[h].pc \in {"extend", "attach"} /\ pc = req[h].pc
  PROVE  IInv'
<1> DEFINE c == req[h].contact
           T == req[h].todo \ {v}
           C == IF InTx(h) THEN req[h].claims \cup {v} ELSE req[h].claims
           L == req[h].links
<1>1. /\ TypeOK /\ TablesOk /\ Fine(h) /\ FieldsOk(h) /\ req[h] \in Requests /\ pc \in {"extend", "attach"}
  BY Now DEF Fine
<1>2. /\ req[h].op \in Resolving /\ c \in Ids /\ c # Nobody /\ req[h].found = {} /\ L = {} /\ contacts[c] # "gone"
      /\ req[h].drop = Nobody /\ req[h].shut = {} /\ req[h].moved = {}
  BY <1>1 DEF FieldsOk, Requests, Resolving, Insert, Here
<1>3. /\ owner' \in [Values -> Ids \cup {Nobody}] /\ req' \in [Handlers -> Requests] /\ Apart(h)
      /\ Continues(h, pc, T, C, L)
  BY <1>1, InsertTypes DEF Apart
<1>4. /\ req'[h].pc = pc /\ req'[h].contact = c /\ req'[h].found = {} /\ req'[h].op = req[h].op
      /\ req'[h].primary = req[h].primary /\ req'[h].single = req[h].single /\ req'[h].drop = Nobody
      /\ req'[h].claims = C /\ req'[h].links = {} /\ req'[h].shut = {} /\ req'[h].moved = {}
  BY <1>1, <1>2, <1>3 DEF Requests, Continues
<1>5. TypeOK'
  BY <1>1, <1>3 DEF TypeOK
<1>6. owner[v] = Nobody /\ v \notin req[h].claims
  BY DEF Insert, Taken
<1>7. IF InTx(h) THEN owner' = owner ELSE contacts[c] = "live" /\ owner' = [owner EXCEPT ![v] = c]
  BY <1>1, <1>2 DEF Insert, FieldsOk, TypeOK
<1>8. Grows(h, c)
  <2>1. \A u \in Values : owner'[u] = owner[u] \/ (owner[u] = Nobody /\ owner'[u] = c /\ contacts'[c] = "live" /\ ~Pending(h, u))
    BY <1>1, <1>6, <1>7 DEF TypeOK
  <2> QED BY <1>2, <2>1 DEF Grows
<1>9. FieldsOk(h)'
  <2>1. C # {} => InTx(h)
    BY <1>1 DEF FieldsOk
  <2>2. (contacts[c] = "none" => InTx(h) /\ C # {}) /\ (InTx(h) => C # {})
    BY <1>1, <1>2 DEF FieldsOk
  <2>3. req[h].op = "inbox" => req[h].single /\ req[h].primary \in Refs
    BY <1>1 DEF FieldsOk
  <2>4. req[h].primary \in Values
    BY <1>1, <1>2 DEF FieldsOk, Resolving
  <2> HIDE DEF C
  <2> QED BY <1>1, <1>2, <1>4, <2>1, <2>2, <2>3, <2>4 DEF FieldsOk, Resolving, InTx, Creates
<1>10. ClaimsOk(h)'
  <2> SUFFICES ASSUME NEW u \in C PROVE owner'[u] = Nobody /\ ~Pending(h, u)'
    BY <1>4 DEF ClaimsOk
  <2>1. InTx(h) /\ owner' = owner
    BY <1>1, <1>7 DEF FieldsOk
  <2>2. owner[u] = Nobody /\ ~Pending(h, u)
    BY <1>1, <1>6, <2>1 DEF Fine, ClaimsOk
  <2> QED BY <1>3, <2>1, <2>2 DEF Pending, Apart
<1>11. AnswerOk(h)'
  <2>1. CASE req[h].pc = "claim" /\ v = req[h].primary
    <3>1. InTx(h) => contacts[c] = "none"
      BY <1>1, <1>2, <2>1 DEF Fine, HiddenOk, Hides, Creates
    <3>2. contacts'[c] = contacts[c] /\ (IF InTx(h) THEN v \in C ELSE owner'[v] = c)
      BY <1>1, <1>7 DEF TypeOK
    <3> HIDE DEF C
    <3> QED BY <1>1, <1>4, <2>1, <3>1, <3>2 DEF AnswerOk
  <2>2. CASE req[h].pc \in {"extend", "attach"} /\ pc = req[h].pc
    <3>1. AnswerOk(h)
      BY <1>1 DEF Fine
    <3>2. owner[req[h].primary] = c => owner'[req[h].primary] = c
      BY <1>1, <1>2, <1>6, <1>7 DEF TypeOK, FieldsOk, Resolving
    <3>3. req[h].claims \subseteq C
      OBVIOUS
    <3> HIDE DEF C
    <3> QED BY <1>1, <1>4, <2>2, <3>1, <3>2, <3>3 DEF AnswerOk, Gone
  <2> QED BY <2>1, <2>2
<1>12. Hides(h)' => Hides(h) /\ UNCHANGED <<contacts, owner, pairs>>
  BY <1>1, <1>2, <1>4, <1>7 DEF Hides, Creates
<1>13. ~Gone(c) /\ ~Locked(c)
  BY <1>2 DEF Gone
<1>14. pc \notin {"lock", "close", "move"}
  BY <1>1
<1> QED BY <1>2, <1>3, <1>5, <1>8, <1>9, <1>10, <1>11, <1>12, <1>13, <1>14, ContinueKeeps

(* The step of a request is over, and nothing has been written. *)
LEMMA GoesKeeps ==
  ASSUME IInv, NEW h \in Handlers, NEW pc, Goes(h, pc), UNCHANGED Tables, lost' = lost, req[h].op \in Resolving,
         pc \in {"adopt", "link", "own", "commit", "sale"},
         req[h].contact # Nobody, req[h].found # {} => pc = "own" /\ InTx(h),
         req[h].claims # {} => pc \in {"link", "own", "commit"},
         req[h].links # {} => pc \in {"own", "commit"}, pc = "commit" => InTx(h),
         Creates(h) => pc = "adopt" /\ req[h].pc = "claim", pc = "adopt" => req[h].pc = "claim",
         req[h].single /\ pc # "adopt" =>
            \/ Gone(req[h].contact) \/ owner[req[h].primary] = req[h].contact
            \/ contacts[req[h].contact] = "none" /\ req[h].primary \in req[h].claims,
         InTx(h) /\ pc \in {"link", "own", "commit"} =>
            req[h].pc \in {"link", "own", "commit"} \/ (~Gone(req[h].contact) /\ ~Locked(req[h].contact))
  PROVE  IInv'
<1>1. /\ TypeOK /\ TablesOk /\ Fine(h) /\ FieldsOk(h) /\ req[h] \in Requests
      /\ UNCHANGED <<contacts, born, owner, link, sale, pairs>>
  BY Now DEF Fine, Tables
<1>2. req' \in [Handlers -> Requests] /\ req'[h] = [req[h] EXCEPT !.pc = pc] /\ req'[h].pc = pc /\ Apart(h)
  BY <1>1, GoesTypes DEF Apart
<1>3. Continues(h, pc, req[h].todo, req[h].claims, req[h].links)
  BY <1>1, <1>2 DEF Requests, Continues
<1>4. /\ req'[h].contact = req[h].contact /\ req'[h].found = req[h].found /\ req'[h].op = req[h].op
      /\ req'[h].primary = req[h].primary /\ req'[h].single = req[h].single /\ req'[h].drop = req[h].drop
      /\ req'[h].claims = req[h].claims /\ req'[h].links = req[h].links /\ req'[h].shut = req[h].shut
      /\ req'[h].moved = req[h].moved
  BY <1>1, <1>2 DEF Requests
<1>5. TypeOK'
  BY <1>1, <1>2 DEF TypeOK
<1>6. FieldsOk(h)'
  <2>1. /\ req[h].contact \notin req[h].found /\ req[h].drop = Nobody /\ req[h].shut = {} /\ req[h].moved = {}
        /\ req[h].op = "inbox" => req[h].single /\ req[h].primary \in Refs
        /\ \A c \in req[h].found : contacts[c] # "none"
        /\ req[h].claims # {} => InTx(h)
        /\ req[h].links # {} => InTx(h)
        /\ req[h].primary \in Values
    <3>1. FieldsOk(h) /\ req[h].op \in {"message", "booking", "inbox", "upsert"}
      BY <1>1 DEF Resolving
    <3>2. req[h].pc # "orphan"
      BY DEF Creates
    <3> QED BY ONLY <3>1, <3>2 DEF FieldsOk
  <2>2. contacts[req[h].contact] = "none" => InTx(h) /\ (pc = "adopt" \/ req[h].claims # {})
    BY <1>1 DEF FieldsOk
  <2> QED BY <1>1, <1>2, <1>4, <2>1, <2>2 DEF FieldsOk, Resolving, InTx, Creates
<1>7. ClaimsOk(h)'
  BY <1>1, <1>2, <1>4 DEF Fine, ClaimsOk, Pending, RowPending, Apart
<1>8. AnswerOk(h)'
  BY <1>1, <1>2, <1>4 DEF AnswerOk, Gone
<1>9. Hides(h)' => Hides(h) /\ UNCHANGED <<contacts, owner, pairs>>
  BY <1>1, <1>2, <1>4 DEF Hides, Creates
<1>10. Holds(h)' => Holds(h) \/ (~Gone(req[h].contact) /\ ~Locked(req[h].contact))
  BY <1>2, <1>4 DEF Holds, InTx
<1>11. Grows(h, req[h].contact)
  BY <1>1, Still
<1> QED BY <1>2, <1>3, <1>5, <1>6, <1>7, <1>8, <1>9, <1>10, <1>11, ContinueKeeps

LEMMA ClaimPrimaryKeeps ==
  ASSUME IInv, NEW h \in Handlers, ClaimPrimary(h)
  PROVE  IInv'
<1>1. /\ TypeOK /\ Fine(h) /\ FieldsOk(h) /\ req[h] \in Requests /\ req[h].pc = "claim"
      /\ ~Pending(h, req[h].primary) /\ ~Locked(req[h].contact) /\ UNCHANGED <<contacts, born, link, sale, pairs, lost>>
  BY Now DEF Fine, ClaimPrimary
<1>2. req[h].op \in Resolving /\ req[h].primary \in Values /\ req[h].contact # Nobody
  BY <1>1 DEF FieldsOk, Requests, Resolving
<1>3. CASE Insert(h, req[h].primary, "extend")
  BY <1>1, <1>2, <1>3, InsertKeeps
<1>4. CASE Dangles(h, req[h].primary)
  BY <1>1, <1>4, EndsStill DEF Dangles, Tables
<1>5. CASE Goes(h, "adopt") /\ UNCHANGED owner
  <2>1. req[h].found = {} /\ req[h].claims = {} /\ req[h].links = {}
    BY <1>1 DEF FieldsOk
  <2> QED BY <1>1, <1>2, <1>5, <2>1, GoesKeeps DEF Tables
<1> QED BY <1>3, <1>4, <1>5 DEF ClaimPrimary

LEMMA ExtendedKeeps ==
  ASSUME IInv, NEW h \in Handlers, Extended(h)
  PROVE  IInv'
<1>1. /\ Fine(h) /\ FieldsOk(h) /\ AnswerOk(h) /\ req[h] \in Requests /\ req[h].pc = "extend"
      /\ Goes(h, "link") /\ UNCHANGED Tables /\ lost' = lost
  BY Now DEF Fine, Extended
<1>2. req[h].op \in Resolving /\ req[h].contact # Nobody /\ req[h].found = {} /\ req[h].links = {}
  BY <1>1 DEF FieldsOk, Requests, Resolving
<1>3. InTx(h) => ~Gone(req[h].contact) /\ ~Locked(req[h].contact)
  BY <1>1 DEF Fine, FieldsOk, HeldOk, Holds
<1> QED BY <1>1, <1>2, <1>3, GoesKeeps DEF AnswerOk, Creates

LEMMA FillEmptyAndTouchKeeps ==
  ASSUME IInv, NEW h \in Handlers, FillEmptyAndTouch(h)
  PROVE  IInv'
<1>1. /\ Fine(h) /\ FieldsOk(h) /\ AnswerOk(h) /\ req[h] \in Requests /\ req[h].pc = "attach" /\ ~Locked(req[h].contact)
      /\ UNCHANGED Tables /\ lost' = lost
  BY Now DEF Fine, FillEmptyAndTouch
<1>2. req[h].op \in Resolving /\ req[h].contact # Nobody /\ req[h].found = {} /\ req[h].links = {}
  BY <1>1 DEF FieldsOk, Requests, Resolving
<1>3. CASE Goes(h, "link") /\ Here(h)
  BY <1>1, <1>2, <1>3, GoesKeeps DEF AnswerOk, Creates, Here, Gone
<1>4. CASE Ends(h)
  BY <1>1, <1>4, EndsStill
<1> QED BY <1>3, <1>4 DEF FillEmptyAndTouch

LEMMA AttachIdentitiesKeeps ==
  ASSUME IInv, NEW h \in Handlers, AttachIdentities(h)
  PROVE  IInv'
<1>1. /\ TypeOK /\ Fine(h) /\ FieldsOk(h) /\ AnswerOk(h) /\ req[h] \in Requests /\ req[h].pc \in {"extend", "attach"}
      /\ UNCHANGED <<contacts, born, link, sale, pairs, lost>>
  BY Now DEF Fine, AttachIdentities
<1>2. req[h].op \in Resolving /\ req[h].contact # Nobody /\ req[h].todo \subseteq Values
  BY <1>1 DEF FieldsOk, Requests, Resolving
<1>3. PICK v \in req[h].todo :
        /\ ~Pending(h, v) /\ ~Locked(req[h].contact)
        /\ \/ Insert(h, v, req[h].pc) \/ Dangles(h, v)
           \/ Taken(h, v) /\ req' = [req EXCEPT ![h].todo = @ \ {v}] /\ UNCHANGED owner
  BY DEF AttachIdentities
<1>4. CASE Insert(h, v, req[h].pc)
  <2>1. v \in Values
    BY <1>2
  <2> QED BY <1>1, <1>3, <1>4, <2>1, InsertKeeps
<1>5. CASE Dangles(h, v)
  BY <1>1, <1>5, EndsStill DEF Dangles, Tables
<1>6. CASE req' = [req EXCEPT ![h].todo = @ \ {v}] /\ UNCHANGED owner
  <2> DEFINE r == [req[h] EXCEPT !.todo = req[h].todo \ {v}]
  <2>1. /\ r \in Requests /\ r.pc = req[h].pc /\ r.contact = req[h].contact /\ r.found = req[h].found /\ r.op = req[h].op
        /\ r.primary = req[h].primary /\ r.single = req[h].single /\ r.drop = req[h].drop /\ r.claims = req[h].claims
        /\ r.links = req[h].links /\ r.shut = req[h].shut /\ r.moved = req[h].moved
    BY <1>1 DEF Requests
  <2>2. r = [req[h] EXCEPT !.pc = req[h].pc, !.todo = req[h].todo \ {v}, !.claims = req[h].claims, !.links = req[h].links]
    BY <1>1 DEF Requests
  <2>3. req' = [req EXCEPT ![h] = r]
    BY <1>6
  <2> HIDE DEF r
  <2>4. req' \in [Handlers -> Requests] /\ req'[h] = r /\ Apart(h)
    BY <1>1, <2>1, <2>3, SetTypes DEF Apart
  <2>5. Continues(h, req[h].pc, req[h].todo \ {v}, req[h].claims, req[h].links)
    BY <2>2, <2>4 DEF Continues
  <2>6. TypeOK'
    BY <1>1, <1>6, <2>4 DEF TypeOK
  <2>7. FieldsOk(h)' /\ AnswerOk(h)'
    BY <1>1, <1>6, <2>1, <2>4 DEF FieldsOk, AnswerOk, Gone, InTx, Creates
  <2>8. ClaimsOk(h)'
    BY <1>1, <1>6, <2>1, <2>4 DEF Fine, ClaimsOk, Pending, RowPending, Apart
  <2>9. Hides(h)' => Hides(h) /\ UNCHANGED <<contacts, owner, pairs>>
    BY <1>1, <1>6, <2>1, <2>4 DEF Hides, Creates
  <2>10. (Holds(h)' => Holds(h)) /\ Grows(h, req[h].contact)
    BY <1>1, <1>2, <1>6, <2>1, <2>4, Still DEF Holds, InTx
  <2>11. req[h].pc \notin {"lock", "close", "move"}
    BY <1>1
  <2> QED BY <1>2, <2>4, <2>5, <2>6, <2>7, <2>8, <2>9, <2>10, <2>11, ContinueKeeps
<1> QED BY <1>3, <1>4, <1>5, <1>6

LEMMA ReadOwnerKeeps ==
  ASSUME IInv, NEW h \in Handlers, ReadOwner(h)
  PROVE  IInv'
<1> DEFINE F == Owners({req[h].primary})
           r == [req[h] EXCEPT !.pc = "orphan", !.found = F]
<1>1. /\ TypeOK /\ TablesOk /\ Fine(h) /\ FieldsOk(h) /\ req[h] \in Requests /\ req[h].pc = "adopt"
      /\ UNCHANGED Tables /\ lost' = lost /\ UNCHANGED <<contacts, owner, link, sale, pairs>>
  BY Now DEF Fine, ReadOwner, Tables
<1>2. /\ req[h].op \in Resolving /\ req[h].contact # Nobody /\ req[h].claims = {} /\ req[h].links = {}
      /\ req[h].primary \in Values
  BY <1>1 DEF FieldsOk, Requests, Resolving
<1>3. /\ F \in SUBSET Ids /\ \A c \in F : c # Nobody /\ contacts[c] = "live" /\ owner[req[h].primary] = c /\ Knows(h, c)
  BY <1>1, <1>2, Knowing, Fits DEF Owners, TablesOk, There, TypeOK
<1> HIDE DEF F
<1>4. /\ r \in Requests /\ r.pc = "orphan" /\ r.contact = req[h].contact /\ r.found = F /\ r.op = req[h].op
      /\ r.primary = req[h].primary /\ r.single = req[h].single /\ r.drop = req[h].drop /\ r.claims = {}
      /\ r.links = {} /\ r.shut = req[h].shut /\ r.moved = req[h].moved
  BY <1>1, <1>2, <1>3 DEF Requests
<1>5. req' = [req EXCEPT ![h] = r]
  BY DEF ReadOwner, F
<1> HIDE DEF r
<1>6. req'[h] = r /\ Apart(h)
  BY <1>1, <1>4, <1>5, SetTypes DEF Apart
<1>7. FieldsOk(h)'
  BY <1>1, <1>2, <1>3, <1>4, <1>6 DEF FieldsOk, Resolving, InTx, Creates
<1>8. HiddenOk(h)'
  <2>1. HiddenOk(h) /\ Hides(h)
    BY <1>1, <1>2 DEF Fine, Hides, Creates
  <2>2. req[h].contact \notin F
    BY <1>2, <1>3, <2>1 DEF HiddenOk
  <2>3. \A g \in Handlers : /\ req'[g].contact = req[g].contact /\ req'[g].op = req[g].op /\ req'[g].drop = req[g].drop
                            /\ req'[g].found = req[g].found \/ g = h
    BY <1>4, <1>6 DEF Apart
  <2> QED BY <1>1, <1>4, <1>6, <2>1, <2>2, <2>3 DEF HiddenOk, InTx
<1>9. ClaimsOk(h)' /\ HeldOk(h)' /\ MergeOk(h)'
  BY <1>2, <1>4, <1>6 DEF ClaimsOk, HeldOk, Holds, MergeOk, Merging, Resolving
<1>10. AnswerOk(h)'
  BY <1>1, <1>3, <1>4, <1>6 DEF AnswerOk, Gone
<1>11. Meets(h)
  BY <1>2, <1>3, <1>4, <1>6, Knowing DEF Meets, Merging, Resolving
<1> QED BY <1>1, <1>4, <1>5, <1>7, <1>8, <1>9, <1>10, <1>11, StillKeeps DEF Fine

LEMMA LinkNullConversationsKeeps ==
  ASSUME IInv, NEW h \in Handlers, LinkNullConversations(h)
  PROVE  IInv'
<1> DEFINE c == req[h].contact
           mine == {r \in Refs : link[r] = Nobody /\ (owner[r] = c \/ r \in req[h].claims)}
           L == IF Here(h) THEN mine ELSE {}
<1>1. /\ TypeOK /\ Fine(h) /\ FieldsOk(h) /\ AnswerOk(h) /\ req[h] \in Requests /\ req[h].pc = "link"
      /\ UNCHANGED <<contacts, born, owner, sale, pairs, lost>> /\ \A r \in mine : ~RowPending(h, r)
  BY Now DEF Fine, LinkNullConversations
<1>2. /\ req[h].op \in Resolving /\ c # Nobody /\ c \in Ids /\ req[h].found = {} /\ req[h].links = {}
      /\ req[h].drop = Nobody /\ req[h].shut = {} /\ req[h].moved = {} /\ req[h].claims \subseteq Values
      /\ req[h].op = "inbox" => req[h].single /\ req[h].primary \in Refs
      /\ req[h].claims # {} => InTx(h)
      /\ req[h].primary \in Values
      /\ contacts[c] = "none" => InTx(h) /\ req[h].claims # {}
      /\ InTx(h) => ~Gone(c) /\ ~Locked(c)
  BY <1>1 DEF FieldsOk, Requests, Resolving, Creates, Fine, HeldOk, Holds
<1>3. CASE (InTx(h) \/ ~Here(h)) /\ UNCHANGED link /\ req' = [req EXCEPT ![h].pc = "own", ![h].links = L]
  <2> DEFINE r == [req[h] EXCEPT !.pc = "own", !.links = L]
  <2>1. /\ r \in Requests /\ r.pc = "own" /\ r.contact = c /\ r.found = {} /\ r.op = req[h].op
        /\ r.primary = req[h].primary /\ r.single = req[h].single /\ r.drop = Nobody /\ r.claims = req[h].claims
        /\ r.links = L /\ r.shut = {} /\ r.moved = {}
    BY <1>1, <1>2 DEF Requests
  <2>2. r = [req[h] EXCEPT !.pc = "own", !.todo = req[h].todo, !.claims = req[h].claims, !.links = L]
    BY <1>1 DEF Requests
  <2>3. req' = [req EXCEPT ![h] = r]
    BY <1>3
  <2>4. (L # {} => InTx(h)) /\ \A x \in L : link'[x] = Nobody /\ ~RowPending(h, x)
    BY <1>1, <1>3
  <2> HIDE DEF r, L, mine
  <2>5. req' \in [Handlers -> Requests] /\ req'[h] = r /\ Apart(h)
    BY <1>1, <2>1, <2>3, SetTypes DEF Apart
  <2>6. Continues(h, "own", req[h].todo, req[h].claims, L)
    BY <2>2, <2>5 DEF Continues
  <2>7. TypeOK'
    BY <1>1, <1>3, <2>5 DEF TypeOK
  <2>8. FieldsOk(h)'
    BY <1>1, <1>2, <2>1, <2>4, <2>5 DEF FieldsOk, InTx, Resolving
  <2>9. AnswerOk(h)'
    BY <1>1, <2>1, <2>5 DEF AnswerOk, Gone
  <2>10. ClaimsOk(h)'
    BY <1>1, <2>1, <2>4, <2>5 DEF Fine, ClaimsOk, Pending, RowPending, Apart
  <2>11. Hides(h)' => Hides(h) /\ UNCHANGED <<contacts, owner, pairs>>
    BY <1>1, <2>1, <2>5 DEF Hides, Creates
  <2>12. Holds(h)' => Holds(h)
    BY <1>1, <2>1, <2>5 DEF Holds, InTx
  <2>13. Grows(h, c)
    BY <1>1, <1>2, <1>3, Still
  <2> QED BY <1>2, <2>5, <2>6, <2>7, <2>8, <2>9, <2>10, <2>11, <2>12, <2>13, ContinueKeeps
<1>4. CASE /\ ~InTx(h) /\ Here(h) /\ link' = [r \in Refs |-> IF r \in mine THEN c ELSE link[r]] /\ Goes(h, "own")
  <2>1. req' \in [Handlers -> Requests] /\ req'[h] = [req[h] EXCEPT !.pc = "own"] /\ req'[h].pc = "own" /\ Apart(h)
    BY <1>1, <1>4, GoesTypes DEF Apart
  <2>2. Continues(h, "own", req[h].todo, req[h].claims, req[h].links)
    BY <1>1, <2>1 DEF Requests, Continues
  <2>3. /\ req'[h].contact = c /\ req'[h].found = {} /\ req'[h].op = req[h].op
        /\ req'[h].primary = req[h].primary /\ req'[h].single = req[h].single /\ req'[h].drop = Nobody
        /\ req'[h].claims = {} /\ req'[h].links = {} /\ req'[h].shut = {} /\ req'[h].moved = {} /\ req[h].claims = {}
    BY <1>1, <1>2, <1>4, <2>1 DEF Requests
  <2>4. contacts[c] = "live"
    BY <1>1, <1>2, <1>4 DEF Here, TypeOK
  <2>5. TypeOK'
    BY <1>1, <1>2, <1>4, <2>1 DEF TypeOK
  <2>6. FieldsOk(h)'
    BY <1>1, <1>2, <1>4, <2>1, <2>3, <2>4 DEF FieldsOk, InTx, Resolving
  <2>7. AnswerOk(h)'
    BY <1>1, <2>1, <2>3 DEF AnswerOk, Gone
  <2>8. ClaimsOk(h)'
    BY <2>3 DEF ClaimsOk
  <2>9. Hides(h)' => Hides(h) /\ UNCHANGED <<contacts, owner, pairs>>
    BY <1>1, <2>1, <2>3 DEF Hides, Creates
  <2>10. Holds(h)' => Holds(h)
    BY <1>4, <2>3 DEF Holds, InTx
  <2>11. Grows(h, c)
    BY <1>1, <1>2, <1>4, <2>4 DEF Grows, TypeOK
  <2> QED BY <1>2, <2>1, <2>2, <2>5, <2>6, <2>7, <2>8, <2>9, <2>10, <2>11, ContinueKeeps
<1> QED BY <1>3, <1>4 DEF LinkNullConversations

LEMMA PickWinnerKeeps ==
  ASSUME IInv, NEW h \in Handlers, PickWinner(h)
  PROVE  IInv'
<1>1. /\ TypeOK /\ FieldsOk(h) /\ AnswerOk(h) /\ req[h] \in Requests /\ req[h].pc = "winner" /\ UNCHANGED Tables /\ lost' = lost
  BY Now DEF Fine, PickWinner
<1>2. /\ req[h].op \in Resolving /\ req[h].claims = {} /\ req[h].links = {} /\ ~req[h].single /\ req[h].found \subseteq Ids
  BY <1>1 DEF FieldsOk, Requests, Resolving, AnswerOk
<1>3. CASE Ends(h)
  BY <1>1, <1>3, EndsStill
<1>4. ASSUME NEW c \in req[h].found, req' = [req EXCEPT ![h].pc = "flag", ![h].contact = c, ![h].found = @ \ {c}]
      PROVE  IInv'
  <2> DEFINE F == req[h].found \ {c}
  <2>1. TakesUp(h, "flag", c, F)
    BY <1>4 DEF TakesUp
  <2>2. c \in Ids /\ F \subseteq Ids /\ F \subseteq req[h].found /\ c \notin F /\ Knows(h, c) /\ contacts[c] # "none"
    BY <1>1, <1>2, Knowing DEF FieldsOk
  <2> HIDE DEF F
  <2> QED BY <1>1, <1>2, <2>1, <2>2, TakesUpKeeps
<1> QED BY <1>3, <1>4 DEF PickWinner

LEMMA RecordCandidatesKeeps ==
  ASSUME IInv, NEW h \in Handlers, RecordCandidates(h)
  PROVE  IInv'
<1> DEFINE c == req[h].contact
           both == {c} \cup req[h].found
<1>1. /\ TypeOK /\ Fine(h) /\ FieldsOk(h) /\ AnswerOk(h) /\ req[h] \in Requests /\ req[h].pc = "flag"
      /\ UNCHANGED <<contacts, born, owner, link, sale, lost>> /\ \A b \in both : ~Locked(b)
  BY Now DEF Fine, RecordCandidates
<1>2. /\ req[h].op \in Resolving /\ c # Nobody /\ c \in Ids /\ c \notin req[h].found /\ req[h].links = {} /\ req[h].claims = {}
      /\ req[h].drop = Nobody /\ req[h].shut = {} /\ req[h].moved = {} /\ req[h].found \subseteq Ids /\ ~req[h].single
      /\ req[h].op # "inbox" /\ req[h].primary \in Values /\ (contacts[c] = "none" => FALSE)
      /\ \A b \in req[h].found : contacts[b] # "none" /\ Knows(h, b)
      /\ Knows(h, c)
  BY <1>1, Knowing DEF FieldsOk, Requests, Resolving, Creates, AnswerOk
<1>3. CASE Ends(h) /\ UNCHANGED pairs
  BY <1>1, <1>3, EndsStill DEF Tables
<1>4. CASE (\A b \in both : contacts[b] # "gone") /\ InTx(h) /\ Goes(h, "own") /\ UNCHANGED pairs
  BY <1>1, <1>2, <1>4, GoesKeeps DEF Tables, Creates, Gone
<1>5. CASE /\ \A b \in both : contacts[b] # "gone"
           /\ ~InTx(h)
           /\ pairs' = pairs \cup {<<c, b>> : b \in req[h].found}
           /\ req' = [req EXCEPT ![h].pc = "own", ![h].found = {}]
  <2> DEFINE r == [req[h] EXCEPT !.pc = "own", !.found = {}]
  <2>1. /\ r \in Requests /\ r.pc = "own" /\ r.contact = c /\ r.found = {} /\ r.op = req[h].op
        /\ r.primary = req[h].primary /\ ~r.single /\ r.drop = Nobody /\ r.claims = {}
        /\ r.links = {} /\ r.shut = {} /\ r.moved = {}
    BY <1>1, <1>2 DEF Requests
  <2>2. req' = [req EXCEPT ![h] = r]
    BY <1>5
  <2> HIDE DEF r
  <2>3. req' \in [Handlers -> Requests] /\ req'[h] = r /\ Apart(h)
    BY <1>1, <2>1, <2>2, SetTypes DEF Apart
  <2>4. TypeOK'
    BY <1>1, <1>2, <1>5, <2>3 DEF TypeOK
  <2>5. Grows(h, c)
    <3>1. contacts[c] = "live"
      BY <1>1, <1>2, <1>5 DEF TypeOK
    <3>2. \A p \in pairs' : p \in pairs \/ (p[1] = c /\ p[2] # c /\ contacts'[c] = "live" /\ contacts[p[2]] # "none" /\ Knows(h, p[2]))
      BY <1>1, <1>2, <1>5, <3>1
    <3> QED BY <1>1, <1>2, <3>2 DEF Grows
  <2>6. FieldsOk(h)'
    BY <1>1, <1>2, <1>5, <2>1, <2>3 DEF FieldsOk, InTx, Resolving
  <2>7. HiddenOk(h)' /\ ClaimsOk(h)' /\ HeldOk(h)' /\ MergeOk(h)' /\ AnswerOk(h)'
    BY <1>1, <1>2, <1>5, <2>1, <2>3 DEF HiddenOk, Hides, Creates, ClaimsOk, HeldOk, Holds, InTx, MergeOk, Merging, Resolving, AnswerOk
  <2>8. Meets(h)
    BY <1>2, <2>1, <2>3 DEF Meets, Merging, Resolving
  <2> QED BY <1>2, <2>3, <2>4, <2>5, <2>6, <2>7, <2>8, GrowKeeps DEF Fine
<1> QED BY <1>3, <1>4, <1>5 DEF RecordCandidates

(* Erasing a contact lets it leave, to nobody. *)
LEMMA Erases ==
  ASSUME IInv, NEW c \in Ids, Erase(c)
  PROVE  /\ Leaves(c, Nobody) /\ OneOpen'
         /\ contacts' \in [Ids -> {"none", "live", "gone"}] /\ owner' \in [Values -> Ids \cup {Nobody}]
         /\ link' \in [Refs -> Ids \cup {Nobody}] /\ pairs' \subseteq Ids \X Ids
         /\ sale' \in [Sales -> [of : Ids \cup {Nobody}, status : {"none", "open", "lost", "won"}]]
<1>1. TypeOK /\ TablesOk
  BY DEF IInv, Safe
<1>2. \A s \in Sales : sale'[s] = IF sale[s].of = c THEN NoSale ELSE sale[s]
  BY DEF Erase
<1>3. OneOpen'
  BY <1>1, <1>2, SaleFits DEF OneOpen, TablesOk
<1>4. Leaves(c, Nobody)
  BY <1>2 DEF Erase, Leaves
<1> QED BY <1>1, <1>3, <1>4, Fits DEF Erase, TypeOK

LEMMA AdoptsFine ==
  ASSUME IInv, NEW h \in Handlers, req[h].pc = "orphan", Adopts(h),
         \A b \in req[h].found : /\ contacts'[b] # "none"
                                 /\ Gone(b) => contacts'[b] = "gone"
                                 /\ owner[req[h].primary] = b => owner'[req[h].primary] = b
  PROVE  Fine(h)' /\ Apart(h) /\ Meets(h) /\ ~Merging(h)' /\ req' \in [Handlers -> Requests]
<1>1. /\ TypeOK /\ FieldsOk(h) /\ AnswerOk(h) /\ req[h] \in Requests
  BY Now DEF Fine
<1>2. /\ req[h].op \in Resolving /\ req[h].claims = {} /\ req[h].links = {} /\ req[h].found \subseteq Ids
      /\ req[h].drop = Nobody /\ req[h].shut = {} /\ req[h].moved = {} /\ req[h].primary \in Values
      /\ req[h].op = "inbox" => req[h].single /\ req[h].primary \in Refs
  BY <1>1 DEF FieldsOk, Requests, Resolving
<1>3. CASE Ends(h)
  BY <1>3, EndsFine
<1>4. ASSUME NEW c \in req[h].found, req' = [req EXCEPT ![h].pc = "attach", ![h].contact = c, ![h].found = {}]
      PROVE  Fine(h)' /\ Apart(h) /\ Meets(h) /\ ~Merging(h)' /\ req' \in [Handlers -> Requests]
  <2> DEFINE r == [req[h] EXCEPT !.pc = "attach", !.contact = c, !.found = {}]
  <2>1. /\ r \in Requests /\ r.pc = "attach" /\ r.contact = c /\ r.found = {} /\ r.op = req[h].op
        /\ r.primary = req[h].primary /\ r.single = req[h].single /\ r.drop = Nobody /\ r.claims = {}
        /\ r.links = {} /\ r.shut = {} /\ r.moved = {}
    BY <1>1, <1>2 DEF Requests
  <2>2. req' = [req EXCEPT ![h] = r]
    BY <1>4
  <2> HIDE DEF r
  <2>8. c \in Ids /\ c # Nobody /\ Knows(h, c)
    BY <1>2, Fits, Knowing
  <2>3. req' \in [Handlers -> Requests] /\ req'[h] = r /\ Apart(h)
    BY <1>1, <2>1, <2>2, SetTypes DEF Apart
  <2>4. FieldsOk(h)'
    BY <1>2, <2>1, <2>3, <2>8 DEF FieldsOk, Resolving
  <2>5. HiddenOk(h)' /\ ClaimsOk(h)' /\ HeldOk(h)' /\ MergeOk(h)'
    BY <1>2, <2>1, <2>3, <2>8 DEF HiddenOk, Hides, Creates, ClaimsOk, HeldOk, Holds, MergeOk, Merging, Resolving
  <2>6. AnswerOk(h)'
    BY <1>1, <2>1, <2>3 DEF AnswerOk, Gone
  <2>7. Meets(h) /\ ~Merging(h)'
    BY <1>2, <2>1, <2>3, <2>8 DEF Meets, Merging, Resolving
  <2> QED BY <2>3, <2>4, <2>5, <2>6, <2>7 DEF Fine
<1> QED BY <1>3, <1>4 DEF Adopts

LEMMA DropOrphanKeeps ==
  ASSUME IInv, NEW h \in Handlers, DropOrphan(h)
  PROVE  IInv'
<1> DEFINE c == req[h].contact
<1>1. /\ TypeOK /\ TablesOk /\ Fine(h) /\ FieldsOk(h) /\ HiddenOk(h) /\ req[h] \in Requests /\ req[h].pc = "orphan"
      /\ Adopts(h) /\ UNCHANGED <<born, lost>>
  BY Now DEF Fine, DropOrphan
<1>2. /\ c \in Ids /\ c # Nobody /\ Hides(h) /\ req[h].found \subseteq Ids /\ req[h].primary \in Values
      /\ \A b \in req[h].found : contacts[b] # "none" /\ b # c
  BY <1>1 DEF FieldsOk, Requests, Hides, Creates, HiddenOk
<1>3. CASE UNCHANGED <<contacts, owner, link, sale, pairs>>
  <2>1. Fine(h)' /\ Apart(h) /\ Meets(h) /\ req' \in [Handlers -> Requests]
    BY <1>1, <1>2, <1>3, AdoptsFine DEF Gone
  <2>2. TypeOK'
    BY <1>1, <1>3, <2>1 DEF TypeOK
  <2> QED BY <1>3, <2>1, <2>2, Still, Knowing, GrowKeeps
<1>4. CASE ~InTx(h) /\ Erase(c)
  <2>1. /\ Leaves(c, Nobody) /\ OneOpen'
        /\ contacts' \in [Ids -> {"none", "live", "gone"}] /\ owner' \in [Values -> Ids \cup {Nobody}]
        /\ link' \in [Refs -> Ids \cup {Nobody}] /\ pairs' \subseteq Ids \X Ids
        /\ sale' \in [Sales -> [of : Ids \cup {Nobody}, status : {"none", "open", "lost", "won"}]]
    BY <1>2, <1>4, Erases
  <2>2. \A b \in req[h].found : /\ contacts'[b] # "none"
                                /\ Gone(b) => contacts'[b] = "gone"
                                /\ owner[req[h].primary] = b => owner'[req[h].primary] = b
    BY <1>1, <1>2, <2>1 DEF Leaves, TypeOK, Gone
  <2>3. Fine(h)' /\ Apart(h) /\ Meets(h) /\ ~Merging(h)' /\ req' \in [Handlers -> Requests]
    BY <1>1, <2>2, AdoptsFine
  <2>4. TypeOK'
    BY <1>1, <2>1, <2>3 DEF TypeOK
  <2>5. contacts[c] # "none"
    BY <1>1, <1>2, <1>4 DEF FieldsOk
  <2>6. ASSUME NEW g \in Handlers \ {h}
        PROVE  /\ Holds(g) => req[g].contact # c
               /\ Merging(g) => {c, Nobody} \cap {req[g].contact, req[g].drop} = {}
    <3>1. req[g].drop # c /\ (req[g].contact # c \/ req[g].op = "delete")
      BY <1>1, <1>2 DEF HiddenOk
    <3>2. Merging(g) => req[g].contact # Nobody /\ req[g].drop # Nobody
      BY DEF IInv, Safe, FieldsOk, MergeOk, Merging
    <3> QED BY <3>1, <3>2 DEF Holds, InTx, Merging
  <2> QED BY <1>2, <2>1, <2>3, <2>4, <2>5, <2>6, LeaveKeeps
<1> QED BY <1>1, <1>3, <1>4 DEF DropOrphan

LEMMA LinkOwnKeeps ==
  ASSUME IInv, NEW h \in Handlers, LinkOwn(h)
  PROVE  IInv'
<1> DEFINE c == req[h].contact
           v == req[h].primary
<1>1. /\ TypeOK /\ Fine(h) /\ FieldsOk(h) /\ AnswerOk(h) /\ ClaimsOk(h) /\ req[h] \in Requests /\ req[h].pc = "own"
      /\ UNCHANGED <<contacts, born, owner, sale, pairs, lost>>
      /\ Writable(h, v) => ~RowPending(h, v)
  BY Now DEF Fine, LinkOwn
<1>2. /\ req[h].op \in Resolving /\ c # Nobody /\ c \in Ids /\ req[h].links \subseteq Refs /\ Knows(h, c)
      /\ req[h].drop = Nobody /\ req[h].shut = {} /\ req[h].moved = {} /\ req[h].claims \subseteq Values
      /\ req[h].op = "inbox" => req[h].single /\ req[h].primary \in Refs
      /\ req[h].claims # {} \/ req[h].links # {} \/ req[h].found # {} => InTx(h)
      /\ req[h].primary \in Values
      /\ contacts[c] = "none" => InTx(h) /\ req[h].claims # {}
      /\ \A b \in req[h].found : contacts[b] # "none" /\ b # c
  BY <1>1, Knowing DEF FieldsOk, Requests, Resolving, Creates
<1>3. CASE Ends(h) /\ UNCHANGED link
  BY <1>1, <1>3, EndsStill DEF Tables
<1>4. ASSUME NEW L \in SUBSET Refs, InTx(h), UNCHANGED link, req' = [req EXCEPT ![h].pc = "commit", ![h].links = L],
             \A r \in L : link[r] = Nobody /\ ~RowPending(h, r)
      PROVE  IInv'
  <2> DEFINE r == [req[h] EXCEPT !.pc = "commit", !.links = L]
  <2>1. /\ r \in Requests /\ r.pc = "commit" /\ r.contact = c /\ r.found = req[h].found /\ r.op = req[h].op
        /\ r.primary = req[h].primary /\ r.single = req[h].single /\ r.drop = Nobody /\ r.claims = req[h].claims
        /\ r.links = L /\ r.shut = {} /\ r.moved = {}
    BY <1>1, <1>2 DEF Requests
  <2>2. r = [req[h] EXCEPT !.pc = "commit", !.todo = req[h].todo, !.claims = req[h].claims, !.links = L]
    BY <1>1 DEF Requests
  <2>3. req' = [req EXCEPT ![h] = r]
    BY <1>4
  <2> HIDE DEF r
  <2>4. req' \in [Handlers -> Requests] /\ req'[h] = r /\ Apart(h)
    BY <1>1, <2>1, <2>3, SetTypes DEF Apart
  <2>5. Continues(h, "commit", req[h].todo, req[h].claims, L)
    BY <2>2, <2>4 DEF Continues
  <2>6. TypeOK'
    BY <1>1, <1>4, <2>4 DEF TypeOK
  <2>7. FieldsOk(h)'
    BY <1>1, <1>2, <1>4, <2>1, <2>4 DEF FieldsOk, InTx, Resolving
  <2>8. AnswerOk(h)'
    BY <1>1, <2>1, <2>4 DEF AnswerOk, Gone
  <2>9. ClaimsOk(h)'
    BY <1>1, <1>4, <2>1, <2>4 DEF ClaimsOk, Pending, RowPending, Apart
  <2>10. Hides(h)' => Hides(h) /\ UNCHANGED <<contacts, owner, pairs>>
    BY <1>1, <2>1, <2>4 DEF Hides, Creates
  <2>11. Holds(h)' => Holds(h)
    BY <1>1, <2>1, <2>4 DEF Holds, InTx
  <2>12. Grows(h, c)
    BY <1>1, <1>2, <1>4, Still
  <2> QED BY <1>2, <2>4, <2>5, <2>6, <2>7, <2>8, <2>9, <2>10, <2>11, <2>12, ContinueKeeps
<1>5. ASSUME ~InTx(h), Writable(h, v), Here(h), link' = [link EXCEPT ![v] = c]
      PROVE  Grows(h, c) /\ link' \in [Refs -> Ids \cup {Nobody}]
  <2>1. contacts[c] = "live"
    BY <1>1, <1>2, <1>5 DEF Here, TypeOK
  <2>2. \A r \in Refs : link'[r] = link[r] \/ (link'[r] = c /\ contacts'[c] = "live" /\ ~RowPending(h, r))
    BY <1>1, <1>5, <2>1 DEF TypeOK
  <2> QED BY <1>1, <1>2, <1>5, <2>2 DEF Grows, TypeOK
<1>6. ASSUME ~InTx(h), Grows(h, c), link' \in [Refs -> Ids \cup {Nobody}], Goes(h, "sale")
      PROVE  IInv'
  <2>1. req' \in [Handlers -> Requests] /\ req'[h] = [req[h] EXCEPT !.pc = "sale"] /\ req'[h].pc = "sale" /\ Apart(h)
    BY <1>1, <1>6, GoesTypes DEF Apart
  <2>2. Continues(h, "sale", req[h].todo, req[h].claims, req[h].links)
    BY <1>1, <2>1 DEF Requests, Continues
  <2>3. /\ req'[h].contact = c /\ req'[h].found = {} /\ req'[h].op = req[h].op
        /\ req'[h].primary = req[h].primary /\ req'[h].single = req[h].single /\ req'[h].drop = Nobody
        /\ req'[h].claims = {} /\ req'[h].links = {} /\ req'[h].shut = {} /\ req'[h].moved = {} /\ req[h].claims = {}
    BY <1>1, <1>2, <1>6, <2>1 DEF Requests
  <2>4. TypeOK'
    BY <1>1, <1>6, <2>1 DEF TypeOK
  <2>5. FieldsOk(h)'
    BY <1>1, <1>2, <1>6, <2>1, <2>3 DEF FieldsOk, InTx, Resolving
  <2>6. AnswerOk(h)'
    BY <1>1, <2>1, <2>3 DEF AnswerOk, Gone
  <2>7. ClaimsOk(h)'
    BY <2>3 DEF ClaimsOk
  <2>8. Hides(h)' => Hides(h) /\ UNCHANGED <<contacts, owner, pairs>>
    BY <1>1, <2>1, <2>3 DEF Hides, Creates
  <2>9. Holds(h)' => Holds(h)
    BY <1>6, <2>3 DEF Holds, InTx
  <2> QED BY <1>2, <1>6, <2>1, <2>2, <2>4, <2>5, <2>6, <2>7, <2>8, <2>9, ContinueKeeps
<1>7. ASSUME ~InTx(h), Grows(h, c), link' \in [Refs -> Ids \cup {Nobody}], Ends(h)
      PROVE  IInv'
  <2>1. TypeOK'
    BY <1>1, <1>7, EndsFine DEF TypeOK
  <2> QED BY <1>2, <1>7, <2>1, EndsKeeps
<1>8. CASE Writable(h, v) /\ Here(h) /\ InTx(h) /\ UNCHANGED link /\ AfterLink(h, req[h].links \cup {v})
  <2>1. v \in Refs /\ link[v] = Nobody /\ ~RowPending(h, v)
    BY <1>1, <1>8 DEF Writable, InTx
  <2>2. req[h].links \cup {v} \in SUBSET Refs
    BY <1>2, <2>1
  <2>3. \A r \in req[h].links \cup {v} : link[r] = Nobody /\ ~RowPending(h, r)
    BY <1>1, <2>1 DEF ClaimsOk
  <2> QED BY <1>4, <1>8, <2>2, <2>3 DEF AfterLink
<1>9. CASE Writable(h, v) /\ Here(h) /\ ~InTx(h) /\ link' = [link EXCEPT ![v] = c] /\ AfterLink(h, req[h].links \cup {v})
  BY <1>5, <1>6, <1>7, <1>9 DEF AfterLink
<1>10. CASE ~Writable(h, v) /\ UNCHANGED link /\ AfterLink(h, req[h].links)
  <2>1. CASE InTx(h)
    <3>1. \A r \in req[h].links : link[r] = Nobody /\ ~RowPending(h, r)
      BY <1>1 DEF ClaimsOk
    <3> QED BY <1>2, <1>4, <1>10, <2>1, <3>1 DEF AfterLink
  <2>2. CASE ~InTx(h)
    <3>1. Grows(h, c) /\ link' \in [Refs -> Ids \cup {Nobody}]
      BY <1>1, <1>2, <1>10, Still DEF TypeOK
    <3> QED BY <1>6, <1>7, <1>10, <2>2, <3>1 DEF AfterLink
  <2> QED BY <2>1, <2>2
<1> QED BY <1>3, <1>8, <1>9, <1>10 DEF LinkOwn

LEMMA OpenSaleKeeps ==
  ASSUME IInv, NEW h \in Handlers, OpenSale(h)
  PROVE  IInv'
<1> DEFINE c == req[h].contact
<1>1. /\ TypeOK /\ FieldsOk(h) /\ req[h] \in Requests /\ req[h].pc = "sale" /\ ~Locked(c) /\ Ends(h)
      /\ UNCHANGED <<contacts, born, owner, link, pairs, lost>>
  BY Now DEF Fine, OpenSale
<1>2. c \in Ids /\ c # Nobody /\ Knows(h, c) /\ contacts[c] # "none"
  BY <1>1, Knowing DEF FieldsOk, Requests, Creates
<1>3. CASE UNCHANGED sale
  BY <1>1, <1>3, EndsStill DEF Tables
<1>4. ASSUME Here(h), OpenOf(c) = {}, NEW s \in Sales, sale[s] = NoSale, sale' = [sale EXCEPT ![s] = [of |-> c, status |-> "open"]]
      PROVE  IInv'
  <2>1. contacts[c] = "live"
    BY <1>1, <1>2, <1>4 DEF Here, TypeOK
  <2>2. Grows(h, c)
    BY <1>1, <1>2, <1>4, <2>1 DEF Grows
  <2>3. sale' \in [Sales -> [of : Ids \cup {Nobody}, status : {"none", "open", "lost", "won"}]]
    BY <1>1, <1>2, <1>4 DEF TypeOK
  <2>4. TypeOK'
    BY <1>1, <2>3, EndsFine DEF TypeOK
  <2> QED BY <1>1, <1>2, <2>2, <2>4, EndsKeeps
<1> QED BY <1>3, <1>4 DEF OpenSale

LEMMA SalesKeep ==
  ASSUME IInv, NEW s \in Sales, CloseSale(s) \/ ReopenSale(s)
  PROVE  IInv'
<1>1. sale[s].status \in {"open", "lost"} => sale[s] # NoSale
  BY Fits
<1>2. CASE CloseSale(s)
  <2>1. PICK status \in {"lost", "won"} : sale' = [sale EXCEPT ![s].status = status]
    BY <1>2 DEF CloseSale
  <2> QED BY <1>1, <1>2, <2>1, StatusKeeps DEF CloseSale
<1>3. CASE ReopenSale(s)
  BY <1>1, <1>3, StatusKeeps DEF ReopenSale
<1> QED BY <1>2, <1>3

LEMMA CommitBookingKeeps ==
  ASSUME IInv, NEW h \in Handlers, CommitBooking(h)
  PROVE  IInv'
<1> DEFINE c == req[h].contact
           r == [Idle EXCEPT !.op = "message", !.pc = "sale", !.primary = req[h].primary,
                             !.single = req[h].single, !.contact = c]
<1>1. /\ TypeOK /\ FieldsOk(h) /\ AnswerOk(h) /\ ClaimsOk(h) /\ HeldOk(h) /\ req[h] \in Requests /\ req[h].pc = "commit" /\ InTx(h)
      /\ UNCHANGED <<born, sale, lost>>
  BY Now DEF Fine, CommitBooking
<1>2. /\ c \in Ids /\ c # Nobody /\ Knows(h, c) /\ contacts[c] \in {"none", "live"} /\ req[h].primary \in Values
      /\ req[h].single \in BOOLEAN /\ req[h].found \subseteq Ids
      /\ \A b \in req[h].found : contacts[b] # "none" /\ b # c /\ Knows(h, b)
  <2>1. Knows(h, c) /\ \A b \in req[h].found : Knows(h, b)
    BY <1>1, Knowing DEF InTx
  <2>2. c \in Ids /\ c # Nobody /\ ~Gone(c)
    BY <1>1 DEF FieldsOk, Requests, HeldOk, Holds
  <2> QED BY <1>1, <2>1, <2>2 DEF FieldsOk, Requests, InTx, Gone, TypeOK
<1>3. /\ contacts' = [contacts EXCEPT ![c] = "live"]
      /\ owner' = [v \in Values |-> IF v \in req[h].claims THEN c ELSE owner[v]]
      /\ link' = [x \in Refs |-> IF x \in req[h].links THEN c ELSE link[x]]
      /\ pairs' = pairs \cup {<<c, b>> : b \in req[h].found}
      /\ req' = [req EXCEPT ![h] = r]
  BY DEF CommitBooking
<1>4. /\ r \in Requests /\ r.pc = "sale" /\ r.contact = c /\ r.found = {} /\ r.op = "message"
      /\ r.primary = req[h].primary /\ r.single = req[h].single /\ r.drop = Nobody /\ r.claims = {}
      /\ r.links = {} /\ r.shut = {} /\ r.moved = {}
  BY <1>2, Fits DEF Requests, Idle
<1> HIDE DEF r
<1>5. req' \in [Handlers -> Requests] /\ req'[h] = r /\ Apart(h)
  BY <1>1, <1>3, <1>4, SetTypes DEF Apart
<1>6. contacts'[c] = "live" /\ \A b \in Ids \ {c} : contacts'[b] = contacts[b]
  BY <1>1, <1>2, <1>3 DEF TypeOK
<1>7. TypeOK'
  BY <1>1, <1>2, <1>3, <1>5 DEF TypeOK
<1>8. Grows(h, c)
  <2>1. \A v \in Values : owner'[v] = owner[v] \/ (owner[v] = Nobody /\ owner'[v] = c /\ contacts'[c] = "live" /\ ~Pending(h, v))
    BY <1>1, <1>3, <1>6 DEF ClaimsOk
  <2>2. \A x \in Refs : link'[x] = link[x] \/ (link'[x] = c /\ contacts'[c] = "live" /\ ~RowPending(h, x))
    BY <1>1, <1>3, <1>6 DEF ClaimsOk
  <2>3. \A p \in pairs' : p \in pairs \/ (p[1] = c /\ p[2] # c /\ contacts'[c] = "live" /\ contacts[p[2]] # "none" /\ Knows(h, p[2]))
    BY <1>2, <1>3, <1>6
  <2>4. \A b \in Ids : contacts'[b] = contacts[b] \/ (contacts[b] = "none" /\ contacts'[b] = "live" /\ b = c)
    BY <1>2, <1>6
  <2> QED BY <1>1, <1>2, <2>1, <2>2, <2>3, <2>4 DEF Grows
<1>9. FieldsOk(h)'
  BY <1>2, <1>4, <1>5, <1>6 DEF FieldsOk
<1>10. HiddenOk(h)' /\ ClaimsOk(h)' /\ HeldOk(h)' /\ MergeOk(h)'
  BY <1>4, <1>5, <1>6 DEF HiddenOk, Hides, Creates, ClaimsOk, HeldOk, Holds, InTx, MergeOk, Merging
<1>11. AnswerOk(h)'
  <2>1. req[h].single => owner'[req[h].primary] = c
    BY <1>1, <1>2, <1>3 DEF AnswerOk, Gone
  <2> QED BY <1>4, <1>5, <2>1 DEF AnswerOk
<1>12. Meets(h)
  BY <1>2, <1>4, <1>5 DEF Meets, Merging
<1> QED BY <1>2, <1>5, <1>7, <1>8, <1>9, <1>10, <1>11, <1>12, GrowKeeps DEF Fine

(* The steps of a merge and of a deletion. *)
LEMMA MergeStepKeeps ==
  ASSUME IInv, NEW h \in Handlers, req[h].op = "merge", NEW pc \in {"close", "move", "commit"},
         NEW S \in SUBSET Sales, NEW M \in SUBSET Sales,
         req' = [req EXCEPT ![h] = [req[h] EXCEPT !.pc = pc, !.shut = S, !.moved = M]],
         UNCHANGED Tables, lost' = lost,
         ~Merging(h) => /\ There(req[h].contact) /\ There(req[h].drop)
                        /\ Free(req[h].contact) /\ Free(req[h].drop),
         S \subseteq OpenOf(req[h].drop),
         pc = "commit" => /\ M = {s \in Sales : sale[s].of = req[h].drop}
                          /\ OpenOf(req[h].contact) = {} \/ OpenOf(req[h].drop) \subseteq S
  PROVE  IInv'
<1> DEFINE k == req[h].contact
           d == req[h].drop
           r == [req[h] EXCEPT !.pc = pc, !.shut = S, !.moved = M]
<1>1. /\ TypeOK /\ FieldsOk(h) /\ MergeOk(h) /\ req[h] \in Requests /\ UNCHANGED <<contacts, born, owner, link, sale, pairs>>
  BY Now DEF Fine, Tables
<1>2. /\ k \in Ids /\ k # Nobody /\ d \in Ids /\ d # Nobody /\ k # d /\ Knows(h, k) /\ Knows(h, d) /\ There(k) /\ There(d)
      /\ ~req[h].single /\ req[h].claims = {} /\ req[h].links = {} /\ req[h].found = {}
  BY <1>1, Knowing DEF FieldsOk, MergeOk, Requests, InTx
<1>3. /\ r \in Requests /\ r.pc = pc /\ r.contact = k /\ r.found = {} /\ r.op = "merge"
      /\ r.primary = req[h].primary /\ ~r.single /\ r.drop = d /\ r.claims = {}
      /\ r.links = {} /\ r.shut = S /\ r.moved = M
  BY <1>1, <1>2 DEF Requests
<1> HIDE DEF r
<1>4. req' = [req EXCEPT ![h] = r]
  BY DEF r
<1>5. req' \in [Handlers -> Requests] /\ req'[h] = r /\ Apart(h)
  BY <1>1, <1>3, <1>4, SetTypes DEF Apart
<1>6. FieldsOk(h)'
  BY <1>1, <1>2, <1>3, <1>5 DEF FieldsOk, There
<1>7. HiddenOk(h)' /\ ClaimsOk(h)' /\ HeldOk(h)' /\ AnswerOk(h)'
  BY <1>1, <1>2, <1>3, <1>5 DEF HiddenOk, Hides, Creates, There, ClaimsOk, HeldOk, Holds, InTx, AnswerOk
<1>8. ASSUME NEW g \in Handlers \ {h}
      PROVE  /\ Merging(g) => {k, d} \cap {req[g].contact, req[g].drop} = {}
             /\ Holds(g) => req[g].contact \notin {k, d}
  <2>1. CASE Merging(h)
    <3>1. HeldOk(g)
      BY DEF IInv, Safe
    <3> QED BY <1>1, <2>1, <3>1 DEF MergeOk, HeldOk, Locked
  <2>2. CASE ~Merging(h)
    BY <2>2 DEF Free, Locked, Refers, Holds
  <2> QED BY <2>1, <2>2
<1>9. MergeOk(h)'
  <2>1. \A g \in Handlers \ {h} : Merging(g)' => {k, d} \cap {req'[g].contact, req'[g].drop} = {}
    BY <1>5, <1>8 DEF Apart, Merging
  <2>2. OpenOf(k)' = OpenOf(k) /\ OpenOf(d)' = OpenOf(d)
    BY <1>1 DEF OpenOf
  <2>3. pc = "commit" => \A s \in M \ S : sale'[s].status = "open" => OpenOf(k)' = {}
    BY <1>1, <2>2 DEF OpenOf
  <2> QED BY <1>1, <1>2, <1>3, <1>5, <2>1, <2>2, <2>3 DEF MergeOk, Merging, There
<1>10. Meets(h)
  BY <1>2, <1>3, <1>5, <1>8 DEF Meets
<1> QED BY <1>3, <1>4, <1>6, <1>7, <1>9, <1>10, StillKeeps DEF Fine

(* A person asks for a merge or a deletion. *)
LEMMA AsksKeep ==
  ASSUME IInv, NEW h \in Handlers, NEW r \in Requests, req' = [req EXCEPT ![h] = r],
         r.contact \in Ids, r.found = {}, ~r.single, r.claims = {}, r.links = {}, r.shut = {}, r.moved = {},
         UNCHANGED Tables, lost' = lost, contacts[r.contact] # "none",
         \/ /\ r.op = "merge" /\ r.pc = "lock" /\ r.drop # Nobody /\ contacts[r.drop] # "none" /\ r.contact # r.drop
            /\ Knows(h, r.contact) /\ Knows(h, r.drop)
         \/ r.op = "delete" /\ r.pc = "delete" /\ r.drop = Nobody
  PROVE  IInv'
<1>1. /\ TypeOK /\ UNCHANGED <<contacts, born, owner, link, sale, pairs>> /\ r.contact # Nobody
  BY Now, Fits DEF Tables
<1>2. req'[h] = r /\ Apart(h)
  BY <1>1, SetTypes DEF Apart
<1>3. FieldsOk(h)' /\ HiddenOk(h)' /\ ClaimsOk(h)' /\ HeldOk(h)' /\ MergeOk(h)' /\ AnswerOk(h)'
  BY <1>1, <1>2 DEF FieldsOk, HiddenOk, Hides, Creates, ClaimsOk, HeldOk, Holds, InTx, MergeOk, Merging, AnswerOk
<1>4. Meets(h)
  BY <1>1, <1>2 DEF Meets, Merging
<1> QED BY <1>3, <1>4, StillKeeps DEF Fine

LEMMA AskMergeKeeps ==
  ASSUME IInv, NEW h \in Handlers, NEW k \in Ids, NEW d \in Ids, AskMerge(h, k, d)
  PROVE  IInv'
<1> DEFINE r == [Idle EXCEPT !.op = "merge", !.pc = "lock", !.contact = k, !.drop = d]
<1>1. /\ r \in Requests /\ r.op = "merge" /\ r.pc = "lock" /\ r.contact = k /\ r.drop = d /\ r.found = {}
      /\ ~r.single /\ r.claims = {} /\ r.links = {} /\ r.shut = {} /\ r.moved = {}
  BY DEF Requests, Idle
<1>2. k # d /\ contacts[k] # "none" /\ contacts[d] # "none" /\ Knows(h, k) /\ Knows(h, d)
  BY Now, Knowing DEF AskMerge, TablesOk
<1>3. UNCHANGED Tables /\ lost' = lost /\ d # Nobody /\ req' = [req EXCEPT ![h] = r]
  BY Fits DEF AskMerge
<1> HIDE DEF r
<1> QED BY <1>1, <1>2, <1>3, AsksKeep

LEMMA AskDeleteKeeps ==
  ASSUME IInv, NEW h \in Handlers, NEW c \in Ids, AskDelete(h, c)
  PROVE  IInv'
<1> DEFINE r == [Idle EXCEPT !.op = "delete", !.pc = "delete", !.contact = c]
<1>1. /\ r \in Requests /\ r.op = "delete" /\ r.pc = "delete" /\ r.contact = c /\ r.drop = Nobody /\ r.found = {}
      /\ ~r.single /\ r.claims = {} /\ r.links = {} /\ r.shut = {} /\ r.moved = {}
  BY DEF Requests, Idle
<1>2. UNCHANGED Tables /\ lost' = lost /\ contacts[c] # "none"
  BY DEF AskDelete
<1>3. req' = [req EXCEPT ![h] = r]
  BY DEF AskDelete
<1> HIDE DEF r
<1> QED BY <1>1, <1>2, <1>3, AsksKeep

LEMMA LockBothKeeps ==
  ASSUME IInv, NEW h \in Handlers, LockBoth(h)
  PROVE  IInv'
<1>1. /\ TypeOK /\ FieldsOk(h) /\ MergeOk(h) /\ req[h] \in Requests /\ req[h].pc = "lock" /\ req[h].op = "merge"
      /\ UNCHANGED Tables /\ lost' = lost /\ Free(req[h].contact) /\ Free(req[h].drop)
  BY Now DEF Fine, LockBoth, FieldsOk
<1>2. CASE Ends(h)
  BY <1>1, <1>2, EndsStill
<1>3. CASE contacts[req[h].contact] = "live" /\ contacts[req[h].drop] = "live" /\ Goes(h, "close")
  <2> DEFINE M == req[h].moved
  <2>1. req' = [req EXCEPT ![h] = [req[h] EXCEPT !.pc = "close", !.shut = {}, !.moved = M]]
    <3>1. req[h].shut = {}
      BY <1>1 DEF FieldsOk
    <3> QED BY <1>1, <1>3, <3>1 DEF Goes, Requests
  <2>2. M \in SUBSET Sales /\ {} \in SUBSET Sales
    BY <1>1 DEF Requests
  <2>3. There(req[h].contact) /\ There(req[h].drop)
    BY <1>3 DEF There
  <2> HIDE DEF M
  <2> QED BY <1>1, <2>1, <2>2, <2>3, MergeStepKeeps
<1> QED BY <1>2, <1>3 DEF LockBoth

LEMMA CloseDroppedKeeps ==
  ASSUME IInv, NEW h \in Handlers, CloseDropped(h)
  PROVE  IInv'
<1> DEFINE S == IF OpenOf(req[h].contact) # {} THEN OpenOf(req[h].drop) ELSE {}
           M == req[h].moved
<1>1. /\ TypeOK /\ FieldsOk(h) /\ MergeOk(h) /\ req[h] \in Requests /\ req[h].pc = "close" /\ req[h].op = "merge"
      /\ UNCHANGED Tables /\ lost' = lost /\ Merging(h)
  BY Now DEF Fine, CloseDropped, FieldsOk, Merging
<1>2. req' = [req EXCEPT ![h] = [req[h] EXCEPT !.pc = "move", !.shut = S, !.moved = M]]
  BY <1>1 DEF CloseDropped, Requests
<1>3. M \in SUBSET Sales /\ S \in SUBSET Sales /\ S \subseteq OpenOf(req[h].drop)
  BY <1>1 DEF Requests, OpenOf
<1> HIDE DEF S, M
<1> QED BY <1>1, <1>2, <1>3, MergeStepKeeps

LEMMA MoveSalesKeeps ==
  ASSUME IInv, NEW h \in Handlers, MoveSales(h)
  PROVE  IInv'
<1> DEFINE S == req[h].shut
           M == {s \in Sales : sale[s].of = req[h].drop}
<1>1. /\ TypeOK /\ FieldsOk(h) /\ MergeOk(h) /\ req[h] \in Requests /\ req[h].pc = "move" /\ req[h].op = "merge"
      /\ UNCHANGED Tables /\ lost' = lost /\ Merging(h)
  BY Now DEF Fine, MoveSales, FieldsOk, Merging
<1>2. CASE Ends(h)
  BY <1>1, <1>2, EndsStill
<1>3. CASE /\ OpenOf(req[h].contact) = {} \/ OpenOf(req[h].drop) \subseteq S
           /\ req' = [req EXCEPT ![h].pc = "commit", ![h].moved = M]
  <2>1. req' = [req EXCEPT ![h] = [req[h] EXCEPT !.pc = "commit", !.shut = S, !.moved = M]]
    BY <1>1, <1>3 DEF Requests
  <2>2. M \in SUBSET Sales /\ S \in SUBSET Sales /\ S \subseteq OpenOf(req[h].drop) /\ M = {s \in Sales : sale[s].of = req[h].drop}
    BY <1>1 DEF Requests, MergeOk
  <2> HIDE DEF S, M
  <2> QED BY <1>1, <1>3, <2>1, <2>2, MergeStepKeeps
<1> QED BY <1>2, <1>3 DEF MoveSales

(* The sales of both are the survivor's, and at most one of them is open. *)
LEMMA MergeLeaves ==
  ASSUME IInv, NEW h \in Handlers, CommitMerge(h)
  PROVE  Leaves(req[h].drop, req[h].contact) /\ OneOpen'
<1> DEFINE k == req[h].contact
           d == req[h].drop
<1>1. /\ TypeOK /\ TablesOk /\ FieldsOk(h) /\ MergeOk(h) /\ req[h].pc = "commit" /\ req[h].op = "merge" /\ Merging(h)
  BY Now DEF Fine, CommitMerge, Merging
<1>2. k # Nobody /\ d # Nobody /\ k # d /\ req[h].moved = {s \in Sales : sale[s].of = d}
  BY <1>1 DEF FieldsOk, MergeOk
<1>3. \A s \in Sales : sale'[s] = IF sale[s].of # d THEN sale[s]
                                  ELSE [of |-> k, status |-> IF s \in req[h].shut THEN "lost" ELSE sale[s].status]
  BY <1>2 DEF CommitMerge
<1>4. \A s \in Sales : sale[s].of = d => sale'[s].of = k /\ sale'[s].status = (IF s \in req[h].shut THEN "lost" ELSE sale[s].status)
  <2>1. \A x : [of |-> k, status |-> x].of = k /\ [of |-> k, status |-> x].status = x
    OBVIOUS
  <2> QED BY <1>3, <2>1
<1>5. \A s \in Sales : sale[s].of = d => sale'[s].status # "none"
  BY <1>1, <1>2, <1>4, SaleFits DEF TablesOk
<1>6. \A s \in Sales : IF sale[s].of # d THEN sale'[s] = sale[s]
                       ELSE sale'[s] = NoSale \/ (k # Nobody /\ sale'[s].of = k /\ sale'[s].status # "none")
  BY <1>2, <1>3, <1>4, <1>5
<1>7. Leaves(d, k)
  BY <1>6 DEF CommitMerge, Leaves
<1>8. ASSUME NEW s \in Sales, NEW t \in Sales, sale'[s].status = "open", sale'[t] = sale'[s]
      PROVE  s = t
  <2>1. \A u \in Sales : sale'[u].status = "open" /\ sale[u].of = d => OpenOf(k) = {} /\ u \in OpenOf(d)
    BY <1>1, <1>2, <1>4 DEF MergeOk, OpenOf
  <2>2. \A u, w \in Sales : u \in OpenOf(d) /\ w \in OpenOf(d) => u = w
    <3> SUFFICES ASSUME NEW u \in Sales, NEW w \in Sales, u \in OpenOf(d), w \in OpenOf(d) PROVE u = w
      OBVIOUS
    <3>1. sale[u].of = d /\ sale[w].of = d /\ sale[u].status = "open" /\ sale[w].status = "open"
      BY DEF OpenOf
    <3>2. sale[u] = sale[w]
      BY <1>1, <3>1 DEF TypeOK
    <3> QED BY <1>1, <3>1, <3>2 DEF TablesOk
  <2>3. CASE sale[s].of = d /\ sale[t].of = d
    BY <1>8, <2>1, <2>2, <2>3
  <2>4. CASE sale[s].of # d /\ sale[t].of # d
    BY <1>1, <1>3, <1>8, <2>4 DEF TablesOk
  <2>5. \A u, w \in Sales : ~(sale[u].of = d /\ sale[w].of # d /\ sale'[u].status = "open" /\ sale'[w] = sale'[u])
    <3> SUFFICES ASSUME NEW u \in Sales, NEW w \in Sales, sale[u].of = d, sale[w].of # d,
                        sale'[u].status = "open", sale'[w] = sale'[u]
                 PROVE  FALSE
      OBVIOUS
    <3>1. OpenOf(k) = {} /\ sale'[u].of = k /\ sale'[w] = sale[w]
      BY <1>3, <1>4, <2>1
    <3> QED BY <3>1 DEF OpenOf
  <2> QED BY <1>8, <2>3, <2>4, <2>5
<1> QED BY <1>7, <1>8 DEF OneOpen

LEMMA CommitMergeKeeps ==
  ASSUME IInv, NEW h \in Handlers, CommitMerge(h)
  PROVE  IInv'
<1> DEFINE k == req[h].contact
           d == req[h].drop
<1>1. /\ TypeOK /\ FieldsOk(h) /\ MergeOk(h) /\ req[h] \in Requests /\ req[h].pc = "commit" /\ req[h].op = "merge" /\ Merging(h)
      /\ Ends(h) /\ UNCHANGED lost
  BY Now DEF Fine, CommitMerge, Merging
<1>2. /\ k \in Ids /\ d \in Ids /\ k # Nobody /\ k # d /\ There(k) /\ There(d) /\ contacts[d] # "none" /\ Knows(h, k)
  BY <1>1, Knowing DEF FieldsOk, MergeOk, Requests, There
<1>3. Leaves(d, k) /\ OneOpen'
  BY MergeLeaves
<1>4. Fine(h)' /\ Apart(h) /\ Meets(h) /\ ~Merging(h)' /\ req' \in [Handlers -> Requests]
  BY <1>1, EndsFine
<1>5. sale' \in [Sales -> [of : Ids \cup {Nobody}, status : {"none", "open", "lost", "won"}]]
  BY <1>1, <1>2, Fits DEF CommitMerge, TypeOK
<1>6. contacts' \in [Ids -> {"none", "live", "gone"}] /\ born' \in [Ids -> Nat]
  BY <1>1, <1>2 DEF CommitMerge, TypeOK
<1>7. TypeOK'
  BY <1>1, <1>2, <1>4, <1>5, <1>6 DEF CommitMerge, TypeOK
<1>8. ASSUME NEW g \in Handlers \ {h}
      PROVE  /\ Holds(g) => req[g].contact # d
             /\ Merging(g) => {d, k} \cap {req[g].contact, req[g].drop} = {}
  <2>1. HeldOk(g)
    BY DEF IInv, Safe
  <2> QED BY <1>1, <2>1 DEF MergeOk, HeldOk, Locked
<1> HIDE DEF k, d
<1> QED BY <1>2, <1>3, <1>4, <1>7, <1>8, LeaveKeeps

LEMMA DeleteContactKeeps ==
  ASSUME IInv, NEW h \in Handlers, DeleteContact(h)
  PROVE  IInv'
<1> DEFINE c == req[h].contact
<1>1. /\ TypeOK /\ FieldsOk(h) /\ req[h] \in Requests /\ req[h].pc = "delete" /\ Ends(h) /\ Free(c)
      /\ UNCHANGED <<born, lost>>
  BY Now DEF Fine, DeleteContact
<1>2. c \in Ids /\ c # Nobody /\ contacts[c] # "none"
  BY <1>1 DEF FieldsOk, Requests, InTx
<1>3. CASE UNCHANGED <<contacts, owner, link, sale, pairs>>
  BY <1>1, <1>3, EndsStill DEF Tables
<1>4. CASE Erase(c)
  <2>1. /\ Leaves(c, Nobody) /\ OneOpen'
        /\ contacts' \in [Ids -> {"none", "live", "gone"}] /\ owner' \in [Values -> Ids \cup {Nobody}]
        /\ link' \in [Refs -> Ids \cup {Nobody}] /\ pairs' \subseteq Ids \X Ids
        /\ sale' \in [Sales -> [of : Ids \cup {Nobody}, status : {"none", "open", "lost", "won"}]]
    BY <1>2, <1>4, Erases
  <2>2. Fine(h)' /\ Apart(h) /\ Meets(h) /\ ~Merging(h)' /\ req' \in [Handlers -> Requests]
    BY <1>1, EndsFine
  <2>3. TypeOK'
    BY <1>1, <2>1, <2>2 DEF TypeOK
  <2>4. ASSUME NEW g \in Handlers \ {h}
        PROVE  /\ Holds(g) => req[g].contact # c
               /\ Merging(g) => {c, Nobody} \cap {req[g].contact, req[g].drop} = {}
    <3>1. Merging(g) => req[g].contact # Nobody /\ req[g].drop # Nobody
      BY DEF IInv, Safe, FieldsOk, MergeOk, Merging
    <3> QED BY <1>1, <3>1 DEF Free, Locked, Refers, Holds
  <2> QED BY <1>2, <2>1, <2>2, <2>3, <2>4, LeaveKeeps
<1> QED BY <1>1, <1>3, <1>4 DEF DeleteContact

LEMMA DiesKeeps ==
  ASSUME IInv, NEW h \in Handlers, Dies(h)
  PROVE  IInv'
BY EndsStill DEF Dies, Unclaimed, Creates

LEMMA NextKeeps ==
  ASSUME IInv, [Next]_vars
  PROVE  IInv'
<1>1. CASE UNCHANGED vars
  BY <1>1 DEF IInv, Safe, vars, TypeOK, TablesOk, FieldsOk, HiddenOk, ClaimsOk, HeldOk, MergeOk, AnswerOk, Creates, Hides, Holds,
              InTx, Gone, There, Locked, Merging, Pending, RowPending, OpenOf
<1>2. ASSUME NEW h \in Handlers, NEW w \in Writes, NEW op \in Resolving, Ask(h, op, w) PROVE IInv'
  BY <1>2, AskKeeps
<1>3. ASSUME NEW h \in Handlers, Resolves(h) PROVE IInv'
  BY <1>3, FindKeeps, InsertContactKeeps, ClaimPrimaryKeeps, ReadOwnerKeeps, DropOrphanKeeps, AttachIdentitiesKeeps, ExtendedKeeps,
     FillEmptyAndTouchKeeps, LinkNullConversationsKeeps, PickWinnerKeeps, RecordCandidatesKeeps DEF Resolves
<1>4. ASSUME NEW h \in Handlers, Uses(h) \/ Merges(h) \/ DeleteContact(h) \/ Dies(h) PROVE IInv'
  BY <1>4, LinkOwnKeeps, CommitBookingKeeps, OpenSaleKeeps, LockBothKeeps, CloseDroppedKeeps, MoveSalesKeeps, CommitMergeKeeps,
     DeleteContactKeeps, DiesKeeps DEF Uses, Merges
<1>5. ASSUME NEW h \in Handlers, NEW k \in Ids, NEW d \in Ids, AskMerge(h, k, d) PROVE IInv'
  BY <1>5, AskMergeKeeps
<1>6. ASSUME NEW h \in Handlers, NEW c \in Ids, AskDelete(h, c) PROVE IInv'
  BY <1>6, AskDeleteKeeps
<1>7. ASSUME NEW s \in Sales, CloseSale(s) \/ ReopenSale(s) PROVE IInv'
  BY <1>7, SalesKeep
<1> QED BY <1>1, <1>2, <1>3, <1>4, <1>5, <1>6, <1>7 DEF Next, Resolving

LEMMA InitHolds == Init => IInv
<1> SUFFICES ASSUME Init PROVE IInv
  OBVIOUS
<1>1. \A h \in Handlers : req[h] = Idle
  BY DEF Init
<1>2. TypeOK
  <2>1. \A c \in Ids : c \in Nat
    BY BoundAssumption DEF Ids
  <2> QED BY <2>1, Fits DEF Init, TypeOK
<1>3. TablesOk
  BY Fits DEF Init, TablesOk
<1>4. ASSUME NEW h \in Handlers PROVE Fine(h)
  BY <1>1, Fits DEF Fine, FieldsOk, HiddenOk, Hides, ClaimsOk, HeldOk, Holds, InTx, MergeOk, Merging, AnswerOk
<1> QED BY <1>2, <1>3, <1>4 DEF IInv, Safe, Fine

(* Every state the requests can bring about has what they rely on of each other. *)
THEOREM Invariance == Spec => []IInv
<1>1. IInv /\ [Next]_vars => IInv'
  BY NextKeeps
<1> QED BY InitHolds, <1>1, PTL DEF Spec

(* Every table keeps to its columns (the types of contacts, contact_identities, conversations and opportunities). *)
THEOREM TypesHold == Spec => []TypeOK
<1>1. IInv => TypeOK
  BY DEF IInv
<1> QED BY Invariance, <1>1, PTL

(* Who resolveContactByIdentity answers for one identity owns it, unless he is gone. *)
THEOREM AnswersAreOwners == Spec => []AnswerIsOwner
<1>1. IInv => AnswerIsOwner
  BY DEF IInv, Safe, AnswerOk, AnswerIsOwner, Gone
<1> QED BY Invariance, <1>1, PTL

-----------------------------------------------------------------------------
(* Contacts without an identity. *)

LEMMA GhostStep ==
  ASSUME IInv, NoGhost, NEW h \in Handlers, Apart(h), lost \subseteq lost',
         \A c \in Ids : contacts'[c] = "live" =>
            \/ contacts[c] = "live" \/ \E v \in Values : owner'[v] = c
            \/ Unclaimed(h)' /\ req'[h].contact = c,
         \A c \in Ids, v \in Values : owner[v] = c /\ contacts'[c] = "live" => owner'[v] = c,
         Unclaimed(h) => \/ contacts'[req[h].contact] # "live" \/ req[h].contact \in lost'
                         \/ \E v \in Values : owner'[v] = req[h].contact
                         \/ Unclaimed(h)' /\ req'[h].contact = req[h].contact
  PROVE  NoGhost'
<1> SUFFICES ASSUME NEW c \in Ids, contacts'[c] = "live"
             PROVE  \/ c \in lost' \/ \E v \in Values : owner'[v] = c
                    \/ \E g \in Handlers : Unclaimed(g)' /\ req'[g].contact = c
  BY DEF NoGhost
<1>1. CASE contacts[c] = "live"
  <2>1. CASE c \in lost
    BY <2>1
  <2>2. CASE \E v \in Values : owner[v] = c
    BY <2>2
  <2>3. ASSUME NEW g \in Handlers, Unclaimed(g), req[g].contact = c
        PROVE  \/ c \in lost' \/ \E v \in Values : owner'[v] = c
               \/ \E f \in Handlers : Unclaimed(f)' /\ req'[f].contact = c
    <3>1. CASE g = h
      BY <2>3, <3>1
    <3>2. CASE g # h
      BY <2>3, <3>2 DEF Apart, Unclaimed, InTx
    <3> QED BY <3>1, <3>2
  <2> QED BY <1>1, <2>1, <2>2, <2>3 DEF NoGhost
<1>2. CASE contacts[c] # "live"
  BY <1>2
<1> QED BY <1>1, <1>2

LEMMA QuietStep ==
  ASSUME IInv, NoGhost, NEW h \in Handlers, Apart(h), ~Unclaimed(h), UNCHANGED <<contacts, lost>>,
         \A v \in Values : owner[v] # Nobody => owner'[v] = owner[v]
  PROVE  NoGhost'
<1>1. \A c \in Ids, v \in Values : owner[v] = c /\ contacts'[c] = "live" => owner'[v] = c
  BY Fits
<1> QED BY <1>1, GhostStep

LEMMA ApartFrom ==
  ASSUME TypeOK, NEW h \in Handlers, NEW r, req' = [req EXCEPT ![h] = r]
  PROVE  Apart(h) /\ req'[h] = r
BY DEF TypeOK, Apart

LEMMA ResolvingGhosts ==
  ASSUME IInv, NoGhost, NEW h \in Handlers, Resolves(h)
  PROVE  NoGhost'
<1>1. TypeOK /\ TablesOk /\ FieldsOk(h) /\ req[h] \in Requests
  BY Now DEF Fine
<1>2. CASE Find(h) \/ Extended(h) \/ FillEmptyAndTouch(h) \/ PickWinner(h)
  <2>1. Apart(h)
    BY <1>1, <1>2 DEF Find, Extended, FillEmptyAndTouch, PickWinner, Goes, Ends, Apart, TypeOK
  <2>2. ~Unclaimed(h) /\ UNCHANGED <<contacts, lost, owner>>
    BY <1>2 DEF Find, Extended, FillEmptyAndTouch, PickWinner, Unclaimed, Tables
  <2> QED BY <2>1, <2>2, QuietStep
<1>3. CASE LinkNullConversations(h) \/ RecordCandidates(h)
  <2>1. Apart(h)
    BY <1>1, <1>3 DEF LinkNullConversations, RecordCandidates, Goes, Ends, Apart, TypeOK
  <2>2. ~Unclaimed(h) /\ UNCHANGED <<contacts, lost, owner>>
    BY <1>3 DEF LinkNullConversations, RecordCandidates, Unclaimed, Tables
  <2> QED BY <2>1, <2>2, QuietStep
<1>4. CASE AttachIdentities(h)
  <2>1. Apart(h)
    BY <1>1, <1>4 DEF AttachIdentities, Insert, Dangles, Ends, Apart, TypeOK
  <2>2. ~Unclaimed(h) /\ UNCHANGED <<contacts, lost>>
    BY <1>4 DEF AttachIdentities, Unclaimed
  <2>3. \A v \in Values : owner[v] # Nobody => owner'[v] = owner[v]
    BY <1>1, <1>4 DEF AttachIdentities, Insert, Dangles, Taken, TypeOK
  <2> QED BY <2>1, <2>2, <2>3, QuietStep
<1>5. CASE InsertContact(h)
  <2>1. PICK c \in Ids : /\ contacts' = IF InTx(h) THEN contacts ELSE [contacts EXCEPT ![c] = "live"]
                         /\ req' = [req EXCEPT ![h].pc = "claim", ![h].contact = c]
    BY <1>5 DEF InsertContact
  <2>2. /\ Apart(h) /\ req'[h].pc = "claim" /\ req'[h].contact = c /\ req'[h].op = req[h].op
        /\ UNCHANGED <<owner, lost>> /\ ~Unclaimed(h)
    BY <1>1, <1>5, <2>1 DEF Apart, TypeOK, Requests, InsertContact, Unclaimed
  <2>3. \A b \in Ids : contacts'[b] = "live" => contacts[b] = "live" \/ (Unclaimed(h)' /\ req'[h].contact = b)
    BY <1>1, <2>1, <2>2 DEF Unclaimed, InTx, TypeOK
  <2> QED BY <2>2, <2>3, GhostStep
<1>6. CASE ClaimPrimary(h)
  <2> DEFINE v == req[h].primary
             c == req[h].contact
  <2>0. v \in Values /\ req[h].pc = "claim" /\ c \in Ids /\ UNCHANGED <<contacts, lost>>
    BY <1>1, <1>6 DEF FieldsOk, Requests, ClaimPrimary
  <2>1. CASE Insert(h, v, "extend")
    <3>1. Apart(h) /\ \A u \in Values : owner[u] # Nobody => owner'[u] = owner[u]
      BY <1>1, <2>1 DEF Insert, Taken, Apart, TypeOK
    <3>2. Unclaimed(h) => owner'[v] = c
      BY <1>1, <2>0, <2>1 DEF Insert, Unclaimed, TypeOK
    <3>3. \A b \in Ids, u \in Values : owner[u] = b /\ contacts'[b] = "live" => owner'[u] = b
      BY <3>1, Fits
    <3> HIDE DEF v, c
    <3> QED BY <2>0, <3>1, <3>2, <3>3, GhostStep DEF v, c
  <2>2. CASE Dangles(h, v)
    <3>1. Apart(h) /\ UNCHANGED owner /\ contacts'[c] # "live"
      BY <1>1, <2>0, <2>2, EndsFine DEF Dangles, Here
    <3> QED BY <2>0, <3>1, GhostStep
  <2>3. CASE Goes(h, "adopt") /\ UNCHANGED owner
    <3>1. Apart(h) /\ req'[h].pc = "adopt" /\ req'[h].contact = c /\ req'[h].op = req[h].op
      BY <1>1, <2>3 DEF Goes, Apart, TypeOK, Requests
    <3>2. Unclaimed(h) => Unclaimed(h)' /\ req'[h].contact = c
      BY <3>1 DEF Unclaimed, InTx
    <3> QED BY <2>0, <2>3, <3>1, <3>2, GhostStep
  <2> QED BY <1>6, <2>1, <2>2, <2>3 DEF ClaimPrimary
<1>7. CASE ReadOwner(h)
  <2>1. Apart(h) /\ req'[h].pc = "orphan" /\ req'[h].contact = req[h].contact /\ req'[h].op = req[h].op
    BY <1>1, <1>7 DEF ReadOwner, Apart, TypeOK, Requests
  <2>2. UNCHANGED <<contacts, owner, lost>>
    BY <1>7 DEF ReadOwner, Tables
  <2>3. Unclaimed(h) => Unclaimed(h)' /\ req'[h].contact = req[h].contact
    BY <2>1 DEF Unclaimed, InTx
  <2> QED BY <2>1, <2>2, <2>3, GhostStep
<1>8. CASE DropOrphan(h)
  <2> DEFINE c == req[h].contact
  <2>0. c \in Ids /\ UNCHANGED lost
    BY <1>1, <1>8 DEF FieldsOk, Requests, DropOrphan
  <2>1. Apart(h)
    BY <1>1, <1>8 DEF DropOrphan, Adopts, Ends, Apart, TypeOK
  <2>2. CASE InTx(h)
    <3>1. UNCHANGED <<contacts, owner>> /\ ~Unclaimed(h)
      BY <1>8, <2>2 DEF DropOrphan, Unclaimed
    <3> QED BY <2>0, <2>1, <3>1, QuietStep
  <2>3. CASE ~InTx(h)
    <3>1. Erase(c)
      BY <1>8, <2>3 DEF DropOrphan
    <3>2. contacts'[c] = "gone" /\ \A b \in Ids \ {c} : contacts'[b] = contacts[b]
      BY <1>1, <2>0, <3>1 DEF Erase, TypeOK
    <3>3. \A b \in Ids, u \in Values : owner[u] = b /\ contacts'[b] = "live" => owner'[u] = b
      BY <3>1, <3>2 DEF Erase
    <3>4. \A b \in Ids : contacts'[b] = "live" => contacts[b] = "live"
      BY <3>2
    <3> QED BY <2>0, <2>1, <3>2, <3>3, <3>4, GhostStep
  <2> QED BY <2>2, <2>3
<1> QED BY <1>2, <1>3, <1>4, <1>5, <1>6, <1>7, <1>8 DEF Resolves

LEMMA OtherGhosts ==
  ASSUME IInv, NoGhost, NEW h \in Handlers, Uses(h) \/ Merges(h) \/ DeleteContact(h) \/ Dies(h)
  PROVE  NoGhost'
<1>1. TypeOK /\ TablesOk /\ FieldsOk(h) /\ ClaimsOk(h) /\ MergeOk(h) /\ req[h] \in Requests
  BY Now DEF Fine
<1>2. CASE LinkOwn(h) \/ OpenSale(h)
  <2>1. Apart(h)
    BY <1>1, <1>2 DEF LinkOwn, AfterLink, OpenSale, Goes, Ends, Apart, TypeOK
  <2>2. ~Unclaimed(h) /\ UNCHANGED <<contacts, lost, owner>>
    BY <1>2 DEF LinkOwn, OpenSale, Unclaimed
  <2> QED BY <2>1, <2>2, QuietStep
<1>3. CASE LockBoth(h) \/ CloseDropped(h) \/ MoveSales(h)
  <2>1. Apart(h)
    BY <1>1, <1>3 DEF LockBoth, CloseDropped, MoveSales, Goes, Ends, Apart, TypeOK
  <2>2. ~Unclaimed(h) /\ UNCHANGED <<contacts, lost, owner>>
    BY <1>3 DEF LockBoth, CloseDropped, MoveSales, Unclaimed, Tables
  <2> QED BY <2>1, <2>2, QuietStep
<1>4. CASE CommitBooking(h)
  <2> DEFINE c == req[h].contact
  <2>1. /\ Apart(h) /\ UNCHANGED lost /\ ~Unclaimed(h) /\ c \in Ids /\ req[h].claims \subseteq Values
        /\ contacts[c] = "none" => req[h].claims # {}
    BY <1>1, <1>4 DEF CommitBooking, Apart, TypeOK, Unclaimed, FieldsOk, Requests, Creates
  <2>2. \A b \in Ids : b # c => contacts'[b] = contacts[b]
    BY <1>1, <1>4 DEF CommitBooking, TypeOK
  <2>3. \A v \in Values : owner[v] # Nobody => owner'[v] = owner[v]
    BY <1>1, <1>4 DEF CommitBooking, ClaimsOk
  <2>4. contacts[c] = "none" => \E v \in Values : owner'[v] = c
    BY <1>4, <2>1 DEF CommitBooking
  <2>5. contacts[c] # "gone"
    <3>1. HeldOk(h) /\ Holds(h)
      BY <1>4 DEF IInv, Safe, CommitBooking, Holds
    <3> QED BY <3>1 DEF HeldOk, Gone
  <2>6. \A b \in Ids : contacts'[b] = "live" => contacts[b] = "live" \/ \E v \in Values : owner'[v] = b
    <3>1. contacts[c] \in {"none", "live"}
      BY <1>1, <2>1, <2>5 DEF TypeOK
    <3> HIDE DEF c
    <3> QED BY <2>2, <2>4, <3>1
  <2>7. \A b \in Ids, u \in Values : owner[u] = b /\ contacts'[b] = "live" => owner'[u] = b
    BY <2>3, Fits
  <2> QED BY <2>1, <2>6, <2>7, GhostStep
<1>5. CASE CommitMerge(h)
  <2>1. Leaves(req[h].drop, req[h].contact) /\ req[h].drop \in Ids
    BY <1>1, <1>5, MergeLeaves DEF MergeOk, Requests, CommitMerge
  <2>2. Apart(h) /\ ~Unclaimed(h) /\ UNCHANGED lost
    BY <1>1, <1>5, EndsFine DEF CommitMerge, Unclaimed
  <2>3. contacts'[req[h].drop] = "gone" /\ \A b \in Ids : b # req[h].drop => contacts'[b] = contacts[b]
    BY <1>1, <2>1 DEF Leaves, TypeOK
  <2>4. \A b \in Ids, u \in Values : owner[u] = b /\ contacts'[b] = "live" => owner'[u] = b
    BY <2>1, <2>3 DEF Leaves
  <2>5. \A b \in Ids : contacts'[b] = "live" => contacts[b] = "live"
    BY <2>3
  <2> QED BY <2>2, <2>4, <2>5, GhostStep
<1>6. CASE DeleteContact(h)
  <2> DEFINE c == req[h].contact
  <2>1. Apart(h) /\ ~Unclaimed(h) /\ UNCHANGED lost /\ c \in Ids
    BY <1>1, <1>6, EndsFine DEF DeleteContact, Unclaimed, FieldsOk, Requests
  <2>2. CASE UNCHANGED <<contacts, owner>>
    BY <2>1, <2>2, QuietStep
  <2>3. CASE Erase(c)
    <3>1. contacts'[c] = "gone" /\ \A b \in Ids : b # c => contacts'[b] = contacts[b]
      BY <1>1, <2>1, <2>3 DEF Erase, TypeOK
    <3>2. \A b \in Ids, u \in Values : owner[u] = b /\ contacts'[b] = "live" => owner'[u] = b
      BY <2>3, <3>1 DEF Erase
    <3>3. \A b \in Ids : contacts'[b] = "live" => contacts[b] = "live"
      BY <3>1
    <3> QED BY <2>1, <3>2, <3>3, GhostStep
  <2> QED BY <1>6, <2>2, <2>3 DEF DeleteContact
<1>7. CASE Dies(h)
  <2>1. Apart(h) /\ UNCHANGED <<contacts, owner>> /\ lost \subseteq lost' /\ (Unclaimed(h) => req[h].contact \in lost')
    BY <1>1, <1>7, EndsFine DEF Dies, Tables
  <2> QED BY <2>1, GhostStep
<1> QED BY <1>2, <1>3, <1>4, <1>5, <1>6, <1>7 DEF Uses, Merges

LEMMA GhostsKeep ==
  ASSUME IInv, NoGhost, [Next]_vars
  PROVE  NoGhost'
<1>0. TypeOK
  BY DEF IInv
<1>1. CASE UNCHANGED vars \/ \E s \in Sales : CloseSale(s) \/ ReopenSale(s)
  BY <1>1 DEF vars, CloseSale, ReopenSale, NoGhost, Unclaimed, InTx
<1>2. ASSUME NEW h \in Handlers,
             \/ \E w \in Writes, op \in {"message", "booking", "inbox", "upsert"} : Ask(h, op, w)
             \/ \E k, d \in Ids : AskMerge(h, k, d)
             \/ \E c \in Ids : AskDelete(h, c)
      PROVE  NoGhost'
  <2>1. Apart(h)
    BY <1>0, <1>2 DEF Ask, AskMerge, AskDelete, Apart, TypeOK
  <2>2. ~Unclaimed(h) /\ UNCHANGED <<contacts, lost, owner>>
    BY <1>2, Fits DEF Ask, AskMerge, AskDelete, Unclaimed, Tables
  <2> QED BY <2>1, <2>2, QuietStep
<1>3. ASSUME NEW h \in Handlers, Resolves(h) \/ Uses(h) \/ Merges(h) \/ DeleteContact(h) \/ Dies(h) PROVE NoGhost'
  BY <1>3, ResolvingGhosts, OtherGhosts
<1> QED BY <1>1, <1>2, <1>3 DEF Next

(* A contact without an identity is one that is being made, or whose maker died: of *)
(* two first messages of one person the loser's contact is removed.                  *)
THEOREM GhostsAreMade == Spec => []NoGhost
<1>1. Init => NoGhost
  BY DEF Init, NoGhost
<1>2. IInv /\ NoGhost /\ [Next]_vars => NoGhost'
  BY GhostsKeep
<1> QED BY <1>1, <1>2, Invariance, PTL DEF Spec

-----------------------------------------------------------------------------
(* The refinement of Directory. *)

GoneOnes == {c \in Ids : contacts[c] = "gone"}
View == <<owner, link, sale, GoneOnes>>

LEMMA Same ==
  ASSUME UNCHANGED <<owner, link, sale>>, \A c \in Ids : contacts'[c] = "gone" <=> contacts[c] = "gone"
  PROVE  UNCHANGED View
BY DEF View, GoneOnes

(* Whatever a request writes for its contact is a step of Directory, or none. *)
LEMMA Learning ==
  ASSUME IInv, NEW h \in Handlers, NEW c \in Ids, TypeOK', ~Gone(c), UNCHANGED sale,
         \A b \in Ids : contacts'[b] = "gone" <=> contacts[b] = "gone",
         \A v \in Values : owner'[v] # owner[v] => owner[v] = Nobody /\ owner'[v] = c,
         \A r \in Refs : link'[r] # link[r] => link'[r] = c /\ (link[r] = Nobody \/ owner'[r] = c)
  PROVE  Contacts!Learns(c)
<1>1. GoneOnes' = GoneOnes
  BY DEF GoneOnes
<1> QED BY <1>1 DEF Contacts!Learns, GoneOnes, Gone

Kept == (\E c \in Ids : Contacts!Learns(c) \/ Contacts!Forget(c)) \/ (\E s \in Sales : Contacts!Trades(s))
        \/ (\E k, d \in Ids : Contacts!Merge(k, d)) \/ UNCHANGED View

LEMMA Forgetting ==
  ASSUME IInv, NEW c \in Ids, Erase(c), contacts[c] # "none"
  PROVE  Kept
<1>1. TypeOK /\ TablesOk
  BY DEF IInv, Safe
<1>2. contacts' = [contacts EXCEPT ![c] = "gone"] /\ GoneOnes' = GoneOnes \cup {c}
  BY <1>1 DEF Erase, GoneOnes, TypeOK
<1>3. DOMAIN owner = Values /\ DOMAIN link = Refs
  BY <1>1 DEF TypeOK
<1>4. CASE contacts[c] = "live"
  <2>1. /\ c \notin GoneOnes
        /\ owner' = [v \in Values |-> IF owner[v] = c THEN Nobody ELSE owner[v]]
        /\ link' = [r \in Refs |-> IF link[r] = c THEN Nobody ELSE link[r]]
        /\ sale' = [s \in Sales |-> IF sale[s].of = c THEN NoSale ELSE sale[s]]
    BY <1>4 DEF Erase, GoneOnes
  <2>2. Contacts!Forget(c)
    BY <1>2, <1>3, <2>1 DEF Contacts!Forget, Contacts!Becomes, GoneOnes
  <2> QED BY <2>2 DEF Kept
<1>5. CASE contacts[c] = "gone"
  <2>1. (\A v \in Values : owner[v] # c) /\ (\A r \in Refs : link[r] # c) /\ (\A s \in Sales : sale[s].of # c)
    BY <1>1, <1>5, Fits DEF TablesOk, There
  <2>2. owner' = owner /\ link' = link /\ sale' = sale
    BY <1>1, <2>1 DEF Erase, TypeOK
  <2>3. GoneOnes \cup {c} = GoneOnes
    BY <1>5 DEF GoneOnes
  <2> QED BY <1>2, <2>2, <2>3 DEF View, Kept
<1> QED BY <1>1, <1>4, <1>5 DEF TypeOK

LEMMA InsertLearns ==
  ASSUME IInv, NEW h \in Handlers, NEW v \in Values, NEW pc, Insert(h, v, pc), req[h].contact \in Ids, TypeOK',
         UNCHANGED <<contacts, link, sale>>
  PROVE  Kept
<1>1. CASE InTx(h)
  BY <1>1, Same DEF Insert, Kept
<1>2. CASE ~InTx(h)
  <2>1. owner[v] = Nobody /\ owner' = [owner EXCEPT ![v] = req[h].contact] /\ ~Gone(req[h].contact)
    BY <1>2 DEF Insert, Taken, Here, Gone
  <2>2. \A u \in Values : owner'[u] # owner[u] => owner[u] = Nobody /\ owner'[u] = req[h].contact
    BY <2>1 DEF IInv, TypeOK
  <2>3. Contacts!Learns(req[h].contact)
    BY <2>1, <2>2, Learning
  <2> QED BY <2>3 DEF Kept
<1> QED BY <1>1, <1>2

LEMMA ResolvingIsKept ==
  ASSUME IInv, TypeOK', NEW h \in Handlers, Resolves(h)
  PROVE  Kept
<1> DEFINE c == req[h].contact
<1>1. TypeOK /\ TablesOk /\ FieldsOk(h) /\ req[h] \in Requests
  BY Now DEF Fine
<1>2. CASE Find(h) \/ Extended(h) \/ FillEmptyAndTouch(h) \/ PickWinner(h) \/ ReadOwner(h) \/ RecordCandidates(h)
  <2>1. UNCHANGED <<contacts, owner, link, sale>>
    BY <1>2 DEF Find, Extended, FillEmptyAndTouch, PickWinner, ReadOwner, RecordCandidates, Tables
  <2> QED BY <2>1, Same DEF Kept
<1>3. CASE InsertContact(h)
  <2>1. UNCHANGED <<owner, link, sale>>
    BY <1>3 DEF InsertContact
  <2>2. \A b \in Ids : contacts'[b] = "gone" <=> contacts[b] = "gone"
    <3>1. PICK n \in Ids : /\ contacts[n] = "none"
                           /\ contacts' = IF InTx(h) THEN contacts ELSE [contacts EXCEPT ![n] = "live"]
      BY <1>3 DEF InsertContact, Unused
    <3> QED BY <1>1, <3>1 DEF TypeOK
  <2> QED BY <2>1, <2>2, Same DEF Kept
<1>4. CASE ClaimPrimary(h)
  <2>1. c \in Ids /\ req[h].primary \in Values /\ UNCHANGED <<contacts, link, sale>>
    BY <1>1, <1>4 DEF FieldsOk, Requests, ClaimPrimary
  <2>2. CASE UNCHANGED owner
    BY <2>1, <2>2, Same DEF Kept
  <2>3. CASE Insert(h, req[h].primary, "extend")
    BY <2>1, <2>3, InsertLearns
  <2> QED BY <1>4, <2>2, <2>3 DEF ClaimPrimary, Dangles
<1>5. CASE AttachIdentities(h)
  <2>1. c \in Ids /\ req[h].todo \subseteq Values /\ UNCHANGED <<contacts, link, sale>>
    BY <1>1, <1>5 DEF FieldsOk, Requests, AttachIdentities
  <2>2. CASE UNCHANGED owner
    BY <2>1, <2>2, Same DEF Kept
  <2>3. ASSUME NEW v \in req[h].todo, Insert(h, v, req[h].pc) PROVE Kept
    <3>1. v \in Values
      BY <2>1
    <3> QED BY <2>1, <2>3, <3>1, InsertLearns
  <2> QED BY <1>5, <2>2, <2>3 DEF AttachIdentities, Dangles
<1>6. CASE DropOrphan(h)
  <2>1. CASE UNCHANGED <<contacts, owner, link, sale>>
    BY <2>1, Same DEF Kept
  <2>2. CASE Erase(c) /\ ~InTx(h)
    <3>1. c \in Ids /\ contacts[c] # "none"
      BY <1>1, <1>6, <2>2 DEF FieldsOk, Requests, DropOrphan
    <3> QED BY <2>2, <3>1, Forgetting
  <2> QED BY <1>6, <2>1, <2>2 DEF DropOrphan
<1>7. CASE LinkNullConversations(h)
  <2>1. c \in Ids /\ UNCHANGED <<contacts, owner, sale>>
    BY <1>1, <1>7 DEF FieldsOk, Requests, LinkNullConversations
  <2>2. CASE UNCHANGED link
    BY <2>1, <2>2, Same DEF Kept
  <2>3. CASE Here(h) /\ ~UNCHANGED link
    <3>1. \A r \in Refs : link'[r] # link[r] => link'[r] = c /\ link[r] = Nobody
      BY <1>7, <2>3 DEF LinkNullConversations
    <3>2. Contacts!Learns(c)
      BY <2>1, <2>3, <3>1, Learning DEF Here, Gone
    <3> QED BY <2>1, <3>2 DEF Kept
  <2> QED BY <1>7, <2>2, <2>3 DEF LinkNullConversations
<1> QED BY <1>2, <1>3, <1>4, <1>5, <1>6, <1>7 DEF Resolves

LEMMA UsesAreKept ==
  ASSUME IInv, TypeOK', NEW h \in Handlers, Uses(h)
  PROVE  Kept
<1> DEFINE c == req[h].contact
<1>1. TypeOK /\ TablesOk /\ FieldsOk(h) /\ ClaimsOk(h) /\ HeldOk(h) /\ AnswerOk(h) /\ req[h] \in Requests
  BY Now DEF Fine
<1>2. c \in Ids
  BY <1>1 DEF Uses, LinkOwn, CommitBooking, OpenSale, FieldsOk, Requests
<1>3. CASE LinkOwn(h)
  <2>1. UNCHANGED <<contacts, owner, sale>>
    BY <1>3 DEF LinkOwn
  <2>2. CASE UNCHANGED link
    BY <2>1, <2>2, Same DEF Kept
  <2>3. CASE /\ Writable(h, req[h].primary) /\ Here(h) /\ ~InTx(h)
             /\ link' = [link EXCEPT ![req[h].primary] = c]
    <3>1. req[h].op = "inbox" => owner[req[h].primary] = c
      BY <1>1, <1>3, <2>3 DEF FieldsOk, AnswerOk, LinkOwn, Here, Gone
    <3>2. \A r \in Refs : link'[r] # link[r] => link'[r] = c /\ (link[r] = Nobody \/ owner'[r] = c)
      BY <1>1, <2>1, <2>3, <3>1 DEF Writable, TypeOK
    <3>3. Contacts!Learns(c)
      BY <1>2, <2>1, <2>3, <3>2, Learning DEF Here, Gone
    <3> QED BY <1>2, <3>3 DEF Kept
  <2> QED BY <1>3, <2>2, <2>3 DEF LinkOwn
<1>4. CASE CommitBooking(h)
  <2>1. ~Gone(c) /\ UNCHANGED sale
    BY <1>1, <1>4 DEF CommitBooking, HeldOk, Holds
  <2>2. \A b \in Ids : contacts'[b] = "gone" <=> contacts[b] = "gone"
    BY <1>1, <1>2, <1>4, <2>1 DEF CommitBooking, TypeOK, Gone
  <2>3. \A v \in Values : owner'[v] # owner[v] => owner[v] = Nobody /\ owner'[v] = c
    BY <1>1, <1>4 DEF CommitBooking, ClaimsOk
  <2>4. \A r \in Refs : link'[r] # link[r] => link'[r] = c /\ link[r] = Nobody
    BY <1>1, <1>4 DEF CommitBooking, ClaimsOk
  <2>5. Contacts!Learns(c)
    BY <1>2, <2>1, <2>2, <2>3, <2>4, Learning
  <2> QED BY <1>2, <2>5 DEF Kept
<1>5. CASE OpenSale(h)
  <2>1. UNCHANGED <<contacts, owner, link>> /\ GoneOnes' = GoneOnes
    BY <1>5 DEF OpenSale, GoneOnes
  <2>2. CASE UNCHANGED sale
    BY <2>1, <2>2 DEF Kept, View
  <2>3. ASSUME NEW s \in Sales, Here(h), sale[s] = NoSale, sale' = [sale EXCEPT ![s] = [of |-> c, status |-> "open"]]
        PROVE  Kept
    <3>1. /\ sale'[s].of = c /\ \A t \in Sales \ {s} : sale'[t] = sale[t]
      BY <1>1, <2>3, SaleFits DEF TypeOK
    <3>2. c \in Ids \ GoneOnes
      BY <1>2, <2>3 DEF Here, GoneOnes
    <3>3. Contacts!Trades(s)
      BY <2>1, <2>3, <3>1, <3>2 DEF Contacts!Trades, GoneOnes
    <3> QED BY <3>3 DEF Kept
  <2> QED BY <1>5, <2>2, <2>3 DEF OpenSale
<1> QED BY <1>3, <1>4, <1>5 DEF Uses

LEMMA MergesAreKept ==
  ASSUME IInv, TypeOK', NEW h \in Handlers, Merges(h) \/ DeleteContact(h) \/ Dies(h)
  PROVE  Kept
<1> DEFINE k == req[h].contact
           d == req[h].drop
<1>1. TypeOK /\ TablesOk /\ FieldsOk(h) /\ MergeOk(h) /\ req[h] \in Requests
  BY Now DEF Fine
<1>2. CASE LockBoth(h) \/ CloseDropped(h) \/ MoveSales(h) \/ Dies(h)
  <2>1. UNCHANGED <<contacts, owner, link, sale>>
    BY <1>2 DEF LockBoth, CloseDropped, MoveSales, Dies, Tables
  <2> QED BY <2>1, Same DEF Kept
<1>3. CASE CommitMerge(h)
  <2>1. /\ k \in Ids /\ d \in Ids /\ k # d /\ There(k) /\ There(d)
        /\ req[h].moved = {s \in Sales : sale[s].of = d}
    BY <1>1, <1>3 DEF MergeOk, Merging, FieldsOk, Requests, CommitMerge
  <2>2. contacts' = [contacts EXCEPT ![d] = "gone"] /\ GoneOnes' = GoneOnes \cup {d} /\ {k, d} \cap GoneOnes = {}
    BY <1>1, <1>3, <2>1 DEF CommitMerge, GoneOnes, TypeOK, There
  <2>3. DOMAIN owner = Values /\ DOMAIN link = Refs
    BY <1>1 DEF TypeOK
  <2>4. /\ owner' = [v \in Values |-> IF owner[v] = d THEN k ELSE owner[v]]
        /\ link' = [r \in Refs |-> IF link[r] = d THEN k ELSE link[r]]
    BY <1>3 DEF CommitMerge
  <2>5. \A s \in Sales : sale'[s] = IF sale[s].of # d THEN sale[s]
                                    ELSE [of |-> k, status |-> IF s \in req[h].shut THEN "lost" ELSE sale[s].status]
    BY <1>3, <2>1 DEF CommitMerge
  <2>6. \A x : [of |-> k, status |-> x].of = k /\ [of |-> k, status |-> x].status = x
    OBVIOUS
  <2>7. \A s \in Sales : IF sale[s].of = d THEN sale'[s].of = k /\ sale'[s].status \in {sale[s].status, "lost"}
                         ELSE sale'[s] = sale[s]
    <3> SUFFICES ASSUME NEW s \in Sales, sale[s].of = d PROVE sale'[s].of = k /\ sale'[s].status \in {sale[s].status, "lost"}
      BY <2>5
    <3>1. sale'[s].of = k /\ sale'[s].status = (IF s \in req[h].shut THEN "lost" ELSE sale[s].status)
      BY <2>5, <2>6
    <3> QED BY <3>1
  <2>8. ASSUME NEW a \in Ids, NEW b \in Ids, a = k, b = d PROVE Contacts!Merge(a, b)
    BY <2>1, <2>2, <2>3, <2>4, <2>7, <2>8 DEF Contacts!Merge, Contacts!Becomes, GoneOnes
  <2>9. PICK a \in Ids, b \in Ids : a = k /\ b = d
    BY <2>1
  <2> QED BY <2>8, <2>9 DEF Kept
<1>4. CASE DeleteContact(h)
  <2>1. k \in Ids /\ contacts[k] # "none"
    BY <1>1, <1>4 DEF DeleteContact, FieldsOk, Requests, InTx
  <2>2. CASE UNCHANGED <<contacts, owner, link, sale>>
    BY <2>2, Same DEF Kept
  <2>3. CASE Erase(k)
    BY <2>1, <2>3, Forgetting
  <2> QED BY <1>4, <2>2, <2>3 DEF DeleteContact
<1> QED BY <1>2, <1>3, <1>4 DEF Merges

LEMMA SalesAreKept ==
  ASSUME IInv, NEW s \in Sales, CloseSale(s) \/ ReopenSale(s)
  PROVE  Kept
<1>1. TypeOK
  BY DEF IInv
<1>2. /\ sale[s].status \in {"open", "lost"} /\ UNCHANGED <<contacts, owner, link>>
      /\ \E status \in {"open", "lost", "won"} : sale' = [sale EXCEPT ![s].status = status]
  BY DEF CloseSale, ReopenSale
<1>3. sale'[s].of = sale[s].of /\ (\A t \in Sales \ {s} : sale'[t] = sale[t]) /\ sale[s] # NoSale /\ GoneOnes' = GoneOnes
  BY <1>1, <1>2, Fits DEF TypeOK, GoneOnes
<1>4. Contacts!Trades(s)
  BY <1>2, <1>3 DEF Contacts!Trades, GoneOnes
<1> QED BY <1>4 DEF Kept

LEMMA NextIsKept ==
  ASSUME IInv, [Next]_vars
  PROVE  [Contacts!DirectoryNext]_View
<1>1. IInv' /\ TypeOK'
  BY NextKeeps DEF IInv
<1>2. Contacts!OneOpen'
  BY <1>1 DEF IInv, Safe, TablesOk, Contacts!OneOpen
<1>3. Kept
  <2>1. CASE UNCHANGED vars
    BY <2>1, Same DEF vars, Kept
  <2>2. CASE \/ \E h \in Handlers, w \in Writes, op \in {"message", "booking", "inbox", "upsert"} : Ask(h, op, w)
             \/ \E h \in Handlers, k, d \in Ids : AskMerge(h, k, d)
             \/ \E h \in Handlers, c \in Ids : AskDelete(h, c)
    <3>1. UNCHANGED <<contacts, owner, link, sale>>
      BY <2>2 DEF Ask, AskMerge, AskDelete, Tables
    <3> QED BY <3>1, Same DEF Kept
  <2>3. ASSUME NEW h \in Handlers, Resolves(h) \/ Uses(h) \/ Merges(h) \/ DeleteContact(h) \/ Dies(h) PROVE Kept
    BY <1>1, <2>3, ResolvingIsKept, UsesAreKept, MergesAreKept
  <2>4. ASSUME NEW s \in Sales, CloseSale(s) \/ ReopenSale(s) PROVE Kept
    BY <2>4, SalesAreKept
  <2> QED BY <2>1, <2>2, <2>3, <2>4 DEF Next
<1> QED BY <1>2, <1>3 DEF Kept, Contacts!DirectoryNext

(* Identities, conversations and sales change hands only as Directory allows: the *)
(* requests, merges and deletions of contactIdentities.ts and contacts.ts           *)
(* implement it.                                                                    *)
THEOREM DirectoryIsKept == Spec => DirectorySpec
<1>1. Init => Contacts!DirectoryInit
  <2>1. ASSUME Init PROVE {c \in Ids : contacts[c] = "gone"} = {}
    BY <2>1 DEF Init
  <2> QED BY <2>1 DEF Init, Contacts!DirectoryInit
<1>2. IInv /\ [Next]_vars => [Contacts!DirectoryNext]_<<owner, link, sale, {c \in Ids : contacts[c] = "gone"}>>
  BY NextIsKept DEF View, GoneOnes
<1> QED BY <1>1, <1>2, Invariance, PTL DEF Spec, DirectorySpec, Contacts!DirectorySpec
=============================================================================

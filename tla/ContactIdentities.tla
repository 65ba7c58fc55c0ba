--------------------------- MODULE ContactIdentities ---------------------------
(* The contacts of one client and the identities they are recognised by:        *)
(* src/db/repositories/contactIdentities.ts (resolveContactByIdentity, the only *)
(* way to create a contact; mergeContacts) and contacts.ts (deleteContact),     *)
(* under the requests that call them: messages, bookings, the API and the panel.*)
(*                                                                              *)
(* A booking resolves its contact inside its transaction, the others one        *)
(* statement at a time, each committed by itself. Whoever refers to a contact   *)
(* waits for a merge that has locked it, and a merge for a booking that refers   *)
(* to it; a wait that the database breaks is a request that dies.               *)
EXTENDS Naturals, FiniteSets

CONSTANTS
  MaxContacts,  \* bound: contacts are 1 .. MaxContacts, in the order they were created
  Values,       \* identities: phones, emails and opaque ids, normalised
  Refs,         \* those of them that are the reference of a conversation
  Sales,        \* bound: opportunities that may come to exist
  Writes,       \* what requests declare of a person: a primary identity, and others
  Ops,          \* the requests that are made: of "message", "booking", "inbox", "upsert", "merge", "delete"
  Handlers,     \* requests in flight at once
  NoValue

Nobody == 0
Ids == 1 .. MaxContacts

ASSUME BoundAssumption == MaxContacts \in Nat
ASSUME ValuesAssumption == Refs \subseteq Values /\ NoValue \notin Values
ASSUME WritesAssumption == Writes \subseteq [primary : Values, others : SUBSET Values]

VARIABLES
  contacts,  \* of each contact: none, live or gone
  born,      \* contacts.created_at
  owner,     \* contact_identities: the contact of each identity
  link,      \* conversations.contact_id, of the conversation with each reference
  sale,      \* opportunities: whose, and open, lost or won
  pairs,     \* duplicate_contact_candidates: <<keep, duplicate>>
  req,       \* requests in flight
  lost       \* history: contacts whose maker died before it claimed an identity for them

vars == <<contacts, born, owner, link, sale, pairs, req, lost>>

NoSale == [of |-> Nobody, status |-> "none"]
Idle == [op |-> "none", pc |-> "idle", primary |-> NoValue, single |-> FALSE, todo |-> {}, found |-> {},
         contact |-> Nobody, claims |-> {}, links |-> {}, drop |-> Nobody, shut |-> {}, moved |-> {}]

Init ==
  /\ contacts = [c \in Ids |-> "none"]
  /\ born = [c \in Ids |-> c]
  /\ owner = [v \in Values |-> Nobody]
  /\ link = [r \in Refs |-> Nobody]
  /\ sale = [s \in Sales |-> NoSale]
  /\ pairs = {}
  /\ req = [h \in Handlers |-> Idle]
  /\ lost = {}

Goes(h, pc) == req' = [req EXCEPT ![h].pc = pc]
Ends(h) == req' = [req EXCEPT ![h] = Idle]
Tables == <<contacts, born, owner, link, sale, pairs>>

-----------------------------------------------------------------------------
(* What a request holds until its transaction ends. *)
InTx(h) == req[h].op = "booking"
Merging(h) == req[h].op = "merge" /\ req[h].pc \in {"close", "move", "commit"}
Locked(c) == \E g \in Handlers : Merging(g) /\ c \in {req[g].contact, req[g].drop}
Refers(g, c) ==
  /\ InTx(g) /\ c \in {req[g].contact} \cup req[g].found
  /\ req[g].claims # {} \/ req[g].pc \in {"link", "own", "commit"}
Free_always(c) == TRUE
Free(c) == ~Locked(c) /\ \A g \in Handlers : ~Refers(g, c)
Pending(h, v) == \E g \in Handlers \ {h} : v \in req[g].claims
RowPending(h, r) == \E g \in Handlers \ {h} : r \in req[g].links

(* The contact a request works on is there: live, or made by its own transaction. *)
Here(h) == contacts[req[h].contact] # "gone"

OpenOf(c) == {s \in Sales : sale[s].of = c /\ sale[s].status = "open"}

(* A row of contacts is deleted: its identities, sales and candidates go with it, its conversations are unlinked. *)
Erase(c) ==
  /\ contacts' = [contacts EXCEPT ![c] = "gone"]
  /\ owner' = [v \in Values |-> IF owner[v] = c THEN Nobody ELSE owner[v]]
  /\ link' = [r \in Refs |-> IF link[r] = c THEN Nobody ELSE link[r]]
  /\ sale' = [s \in Sales |-> IF sale[s].of = c THEN NoSale ELSE sale[s]]
  /\ pairs' = {p \in pairs : c \notin {p[1], p[2]}}

-----------------------------------------------------------------------------
(* resolveContactByIdentity. *)
Ask(h, op, w) ==
  /\ req[h] = Idle /\ op \in Ops
  /\ op \in {"message", "inbox"} => w.primary \in Refs
  /\ op = "inbox" => w.others = {} /\ link[w.primary] = Nobody
  /\ req' = [req EXCEPT ![h] = [Idle EXCEPT !.op = op, !.pc = "find", !.primary = w.primary,
                                            !.single = (w.others \subseteq {w.primary}),
                                            !.todo = w.others \cup {w.primary}]]
  /\ UNCHANGED <<Tables, lost>>

Owners(V) == {owner[v] : v \in V} \ {Nobody}

Find(h) ==
  LET found == Owners(req[h].todo) IN
  /\ req[h].pc = "find"
  /\ \/ found = {} /\ Goes(h, "create")
     \/ \E c \in found : found = {c} /\ req' = [req EXCEPT ![h].pc = "attach", ![h].contact = c]
     \/ /\ Cardinality(found) > 1
        /\ req' = [req EXCEPT ![h].pc = "winner", ![h].found = found]
  /\ UNCHANGED <<Tables, lost>>

Unused(c) == contacts[c] = "none" /\ \A g \in Handlers : req[g].contact # c

InsertContact(h) ==
  /\ req[h].pc = "create"
  /\ \E c \in Ids :
       /\ Unused(c) /\ \A b \in Ids : b < c => ~Unused(b)
       /\ contacts' = IF InTx(h) THEN contacts ELSE [contacts EXCEPT ![c] = "live"]
       /\ req' = [req EXCEPT ![h].pc = "claim", ![h].contact = c]
  /\ UNCHANGED <<born, owner, link, sale, pairs, lost>>

(* INSERT ... ON CONFLICT DO NOTHING, then the foreign key. *)
Taken(h, v) == owner[v] # Nobody \/ v \in req[h].claims
Insert(h, v, pc) ==
  /\ ~Taken(h, v) /\ Here(h)
  /\ IF InTx(h)
     THEN req' = [req EXCEPT ![h].pc = pc, ![h].todo = @ \ {v}, ![h].claims = @ \cup {v}] /\ UNCHANGED owner
     ELSE req' = [req EXCEPT ![h].pc = pc, ![h].todo = @ \ {v}] /\ owner' = [owner EXCEPT ![v] = req[h].contact]
Dangles(h, v) == ~Taken(h, v) /\ ~Here(h) /\ Ends(h) /\ UNCHANGED owner

ClaimPrimary_unread(h) ==
  LET v == req[h].primary IN
  /\ req[h].pc = "claim" /\ ~Pending(h, v) /\ ~Locked(req[h].contact)
  /\ \/ Insert(h, v, "extend") \/ Dangles(h, v)
     \/ Taken(h, v) /\ Goes(h, "extend") /\ UNCHANGED owner
  /\ UNCHANGED <<contacts, born, link, sale, pairs, lost>>

ClaimPrimary(h) ==
  LET v == req[h].primary IN
  /\ req[h].pc = "claim" /\ ~Pending(h, v) /\ ~Locked(req[h].contact)
  /\ \/ Insert(h, v, "extend") \/ Dangles(h, v)
     \/ Taken(h, v) /\ Goes(h, "adopt") /\ UNCHANGED owner
  /\ UNCHANGED <<contacts, born, link, sale, pairs, lost>>

ReadOwner(h) ==
  /\ req[h].pc = "adopt"
  /\ req' = [req EXCEPT ![h].pc = "orphan", ![h].found = Owners({req[h].primary})]
  /\ UNCHANGED <<Tables, lost>>

Adopts(h) ==
  \/ req[h].found = {} /\ Ends(h)
  \/ \E c \in req[h].found : req' = [req EXCEPT ![h].pc = "attach", ![h].contact = c, ![h].found = {}]

DropOrphan_keeps(h) ==
  /\ req[h].pc = "orphan"
  /\ Adopts(h)
  /\ UNCHANGED <<Tables, lost>>

DropOrphan(h) ==
  /\ req[h].pc = "orphan"
  /\ IF InTx(h) THEN UNCHANGED <<contacts, owner, link, sale, pairs>> ELSE Erase(req[h].contact)
  /\ Adopts(h)
  /\ UNCHANGED <<born, lost>>

(* The other identities, in any order: one that somebody has is skipped. *)
AttachIdentities(h) ==
  /\ req[h].pc \in {"extend", "attach"}
  /\ \E v \in req[h].todo :
       /\ ~Pending(h, v) /\ ~Locked(req[h].contact)
       /\ \/ Insert(h, v, req[h].pc) \/ Dangles(h, v)
          \/ Taken(h, v) /\ req' = [req EXCEPT ![h].todo = @ \ {v}] /\ UNCHANGED owner
  /\ UNCHANGED <<contacts, born, link, sale, pairs, lost>>

Extended(h) == req[h].pc = "extend" /\ req[h].todo = {} /\ Goes(h, "link") /\ UNCHANGED <<Tables, lost>>

(* One who was there before is touched: a row that must still be there. *)
FillEmptyAndTouch(h) ==
  /\ req[h].pc = "attach" /\ req[h].todo = {}
  /\ ~Locked(req[h].contact)
  /\ \A g \in Handlers \ {h} : ~(InTx(g) /\ req[g].contact = req[h].contact /\ req[g].pc \in {"link", "own", "commit"})
  /\ IF Here(h) THEN Goes(h, "link") ELSE Ends(h)
  /\ UNCHANGED <<Tables, lost>>

(* Conversations of nobody whose reference is an identity of the contact; a failure is swallowed. *)
LinkNullConversations(h) ==
  LET mine == {r \in Refs : link[r] = Nobody /\ (owner[r] = req[h].contact \/ r \in req[h].claims)} IN
  /\ req[h].pc = "link"
  /\ mine # {} => ~Locked(req[h].contact)
  /\ \A r \in mine : ~RowPending(h, r)
  /\ IF InTx(h) \/ ~Here(h)
     THEN UNCHANGED link /\ req' = [req EXCEPT ![h].pc = "own", ![h].links = IF Here(h) THEN mine ELSE {}]
     ELSE link' = [r \in Refs |-> IF r \in mine THEN req[h].contact ELSE link[r]] /\ Goes(h, "own")
  /\ UNCHANGED <<contacts, born, owner, sale, pairs, lost>>

(* Several contacts: the oldest of those still there is answered, and each other is recorded as its duplicate. *)
PickWinner(h) ==
  LET live == {c \in req[h].found : contacts[c] = "live"} IN
  /\ req[h].pc = "winner"
  /\ \/ live = {} /\ Ends(h)
     \/ \E c \in live :
          /\ \A b \in live : born[c] <= born[b]
          /\ req' = [req EXCEPT ![h].pc = "flag", ![h].contact = c, ![h].found = @ \ {c}]
  /\ UNCHANGED <<Tables, lost>>

RecordCandidates(h) ==
  LET both == {req[h].contact} \cup req[h].found IN
  /\ req[h].pc = "flag"
  /\ \A c \in both : ~Locked(c)
  /\ \/ (\E c \in both : contacts[c] = "gone") /\ Ends(h) /\ UNCHANGED pairs
     \/ /\ \A c \in both : contacts[c] # "gone"
        /\ IF InTx(h) THEN Goes(h, "own") /\ UNCHANGED pairs
           ELSE /\ pairs' = pairs \cup {<<req[h].contact, c>> : c \in req[h].found}
                /\ req' = [req EXCEPT ![h].pc = "own", ![h].found = {}]
  /\ UNCHANGED <<contacts, born, owner, link, sale, lost>>

-----------------------------------------------------------------------------
(* What the callers do with the contact. *)
AfterLink(h, links) ==
  IF InTx(h) THEN req' = [req EXCEPT ![h].pc = "commit", ![h].links = links]
  ELSE IF req[h].op = "message" THEN Goes(h, "sale") ELSE Ends(h)

(* Nobody's conversation is given the contact; the inbox gives it whoever it has. *)
Writable_any(h, r) == r \in Refs /\ req[h].op # "upsert"
Writable(h, r) == r \in Refs /\ req[h].op # "upsert" /\ (link[r] = Nobody \/ req[h].op = "inbox")

LinkOwn(h) ==
  LET r == req[h].primary IN
  /\ req[h].pc = "own"
  /\ Writable(h, r) => ~RowPending(h, r) /\ ~Locked(req[h].contact)
  /\ \/ Writable(h, r) /\ ~Here(h) /\ Ends(h) /\ UNCHANGED link
     \/ /\ Writable(h, r) /\ Here(h)
        /\ IF InTx(h) THEN UNCHANGED link ELSE link' = [link EXCEPT ![r] = req[h].contact]
        /\ AfterLink(h, req[h].links \cup {r})
     \/ ~Writable(h, r) /\ UNCHANGED link /\ AfterLink(h, req[h].links)
  /\ UNCHANGED <<contacts, born, owner, sale, pairs, lost>>

CommitBooking(h) ==
  LET c == req[h].contact IN
  /\ req[h].pc = "commit" /\ InTx(h)
  /\ contacts' = [contacts EXCEPT ![c] = "live"]
  /\ owner' = [v \in Values |-> IF v \in req[h].claims THEN c ELSE owner[v]]
  /\ link' = [r \in Refs |-> IF r \in req[h].links THEN c ELSE link[r]]
  /\ pairs' = pairs \cup {<<c, b>> : b \in req[h].found}
  /\ req' = [req EXCEPT ![h] = [Idle EXCEPT !.op = "message", !.pc = "sale", !.primary = req[h].primary,
                                            !.single = req[h].single, !.contact = c]]
  /\ UNCHANGED <<born, sale, lost>>

(* The hook of a message or a booking; the index and the foreign key guard the insert. *)
OpenSale(h) ==
  LET c == req[h].contact IN
  /\ req[h].pc = "sale" /\ ~Locked(c)
  /\ \/ /\ Here(h) /\ OpenOf(c) = {}
        /\ \E s \in Sales : sale[s] = NoSale /\ sale' = [sale EXCEPT ![s] = [of |-> c, status |-> "open"]]
     \/ UNCHANGED sale
  /\ Ends(h)
  /\ UNCHANGED <<contacts, born, owner, link, pairs, lost>>

(* Sales are lost, won and reopened without a look at the contact's row. *)
SaleLocked(s) == \E g \in Handlers : s \in req[g].shut \cup req[g].moved
CloseSale(s) ==
  /\ sale[s].status = "open" /\ ~SaleLocked(s)
  /\ \E status \in {"lost", "won"} : sale' = [sale EXCEPT ![s].status = status]
  /\ UNCHANGED <<contacts, born, owner, link, pairs, req, lost>>

IndexPending(c) == \E g \in Handlers : req[g].pc = "commit" /\ req[g].op = "merge" /\ c = req[g].contact
                                       /\ \E s \in req[g].moved \ req[g].shut : sale[s].status = "open"
ReopenSale(s) ==
  /\ sale[s].status = "lost" /\ ~SaleLocked(s)
  /\ OpenOf(sale[s].of) = {} /\ ~IndexPending(sale[s].of)
  /\ sale' = [sale EXCEPT ![s].status = "open"]
  /\ UNCHANGED <<contacts, born, owner, link, pairs, req, lost>>

-----------------------------------------------------------------------------
(* Merge and deletion, by people. *)
AskMerge(h, k, d) ==
  /\ req[h] = Idle /\ "merge" \in Ops
  /\ <<k, d>> \in pairs \/ <<d, k>> \in pairs
  /\ req' = [req EXCEPT ![h] = [Idle EXCEPT !.op = "merge", !.pc = "lock", !.contact = k, !.drop = d]]
  /\ UNCHANGED <<Tables, lost>>

LockBoth(h) ==
  LET k == req[h].contact
      d == req[h].drop IN
  /\ req[h].pc = "lock"
  /\ Free(k) /\ Free(d)
  /\ IF contacts[k] = "live" /\ contacts[d] = "live" THEN Goes(h, "close") ELSE Ends(h)
  /\ UNCHANGED <<Tables, lost>>

(* Of two open sales the dropped contact's is closed. *)
CloseDropped(h) ==
  /\ req[h].pc = "close"
  /\ \A s \in OpenOf(req[h].drop) : ~SaleLocked(s)
  /\ req' = [req EXCEPT ![h].pc = "move",
                        ![h].shut = IF OpenOf(req[h].contact) # {} THEN OpenOf(req[h].drop) ELSE {}]
  /\ UNCHANGED <<Tables, lost>>

(* The sales change hands, unless the index of one open sale to a contact refuses: then all is rolled back. *)
MoveSales_onlyOpen(h) ==
  /\ req[h].pc = "move"
  /\ \/ /\ OpenOf(req[h].contact) = {} \/ OpenOf(req[h].drop) \subseteq req[h].shut
        /\ req' = [req EXCEPT ![h].pc = "commit", ![h].moved = OpenOf(req[h].drop)]
     \/ /\ OpenOf(req[h].contact) # {} /\ ~(OpenOf(req[h].drop) \subseteq req[h].shut)
        /\ Ends(h)
  /\ UNCHANGED <<Tables, lost>>

MoveSales(h) ==
  /\ req[h].pc = "move"
  /\ \/ /\ OpenOf(req[h].contact) = {} \/ OpenOf(req[h].drop) \subseteq req[h].shut
        /\ req' = [req EXCEPT ![h].pc = "commit", ![h].moved = {s \in Sales : sale[s].of = req[h].drop}]
     \/ /\ OpenOf(req[h].contact) # {} /\ ~(OpenOf(req[h].drop) \subseteq req[h].shut)
        /\ Ends(h)
  /\ UNCHANGED <<Tables, lost>>

(* The survivor is as old as the older of the two; the row of the other goes, with what is still its own. *)
CommitMerge(h) ==
  LET k == req[h].contact
      d == req[h].drop IN
  /\ req[h].pc = "commit" /\ req[h].op = "merge"
  /\ contacts' = [contacts EXCEPT ![d] = "gone"]
  /\ born' = [born EXCEPT ![k] = IF born[d] < @ THEN born[d] ELSE @]
  /\ owner' = [v \in Values |-> IF owner[v] = d THEN k ELSE owner[v]]
  /\ link' = [r \in Refs |-> IF link[r] = d THEN k ELSE link[r]]
  /\ sale' = [s \in Sales |-> IF sale[s].of # d THEN sale[s]
                              ELSE IF s \notin req[h].moved THEN NoSale
                              ELSE [of |-> k, status |-> IF s \in req[h].shut THEN "lost" ELSE sale[s].status]]
  /\ pairs' = {p \in pairs : d \notin {p[1], p[2]}}
  /\ Ends(h)
  /\ UNCHANGED lost

(* The check for financial history, and the deletion. *)
AskDelete(h, c) ==
  /\ req[h] = Idle /\ "delete" \in Ops
  /\ contacts[c] = "live" /\ \A s \in Sales : sale[s].of # c
  /\ req' = [req EXCEPT ![h] = [Idle EXCEPT !.op = "delete", !.pc = "delete", !.contact = c]]
  /\ UNCHANGED <<Tables, lost>>

DeleteContact(h) ==
  LET c == req[h].contact IN
  /\ req[h].pc = "delete" /\ Free(c)
  /\ IF Here(h) THEN Erase(c) ELSE UNCHANGED <<contacts, owner, link, sale, pairs>>
  /\ Ends(h)
  /\ UNCHANGED <<born, lost>>

-----------------------------------------------------------------------------
(* The process dies, or a statement fails: a transaction is rolled back, what was written by itself stays. *)
Unclaimed(h) == ~InTx(h) /\ req[h].pc \in {"claim", "adopt", "orphan"}
Dies(h) ==
  /\ req[h] # Idle
  /\ lost' = IF Unclaimed(h) THEN lost \cup {req[h].contact} ELSE lost
  /\ Ends(h)
  /\ UNCHANGED Tables

Resolves(h) ==
  \/ Find(h) \/ InsertContact(h) \/ ClaimPrimary(h) \/ ReadOwner(h) \/ DropOrphan(h) \/ AttachIdentities(h)
  \/ Extended(h) \/ FillEmptyAndTouch(h) \/ LinkNullConversations(h) \/ PickWinner(h) \/ RecordCandidates(h)
Uses(h) == LinkOwn(h) \/ CommitBooking(h) \/ OpenSale(h)
Merges(h) == LockBoth(h) \/ CloseDropped(h) \/ MoveSales(h) \/ CommitMerge(h)

Next ==
  \/ \E h \in Handlers, w \in Writes, op \in {"message", "booking", "inbox", "upsert"} : Ask(h, op, w)
  \/ \E h \in Handlers : Resolves(h) \/ Uses(h) \/ Merges(h) \/ DeleteContact(h) \/ Dies(h)
  \/ \E h \in Handlers, k, d \in Ids : AskMerge(h, k, d)
  \/ \E h \in Handlers, c \in Ids : AskDelete(h, c)
  \/ \E s \in Sales : CloseSale(s) \/ ReopenSale(s)

Spec == Init /\ [][Next]_vars

-----------------------------------------------------------------------------
Requests == [op : {"none", "message", "booking", "inbox", "upsert", "merge", "delete"},
             pc : {"idle", "find", "create", "claim", "adopt", "orphan", "extend", "attach", "link", "winner", "flag", "own",
                   "commit", "sale", "lock", "close", "move", "delete"},
             primary : Values \cup {NoValue}, single : BOOLEAN, todo : SUBSET Values, found : SUBSET Ids,
             contact : Ids \cup {Nobody}, claims : SUBSET Values, links : SUBSET Refs, drop : Ids \cup {Nobody},
             shut : SUBSET Sales, moved : SUBSET Sales]

(* Every table keeps to its columns. *)
TypeOK ==
  /\ contacts \in [Ids -> {"none", "live", "gone"}]
  /\ born \in [Ids -> Nat]
  /\ owner \in [Values -> Ids \cup {Nobody}]
  /\ link \in [Refs -> Ids \cup {Nobody}]
  /\ sale \in [Sales -> [of : Ids \cup {Nobody}, status : {"none", "open", "lost", "won"}]]
  /\ pairs \subseteq Ids \X Ids
  /\ req \in [Handlers -> Requests]
  /\ lost \subseteq Ids

(* Whatever messages, bookings, merges and deletions meet, identities, conversations  *)
(* and sales change hands only as Directory says: a merge takes all of the one contact *)
(* to the other, nothing is taken from anybody else, and nothing is left of one that   *)
(* is gone (mergeContacts' row locks, ON CONFLICT, the NULL guards, the foreign keys). *)
Contacts == INSTANCE Directory WITH gone <- {c \in Ids : contacts[c] = "gone"}
DirectorySpec == Contacts!DirectorySpec

(* Two first messages of one person leave one contact: a contact without an identity   *)
(* is one that is being made, or whose maker died (contactIdentities.ts:478-493).       *)
NoGhost ==
  \A c \in Ids : contacts[c] = "live" =>
    \/ c \in lost \/ \E v \in Values : owner[v] = c
    \/ \E h \in Handlers : Unclaimed(h) /\ req[h].contact = c

(* Who is answered for one identity is its owner as long as he is there, whatever was  *)
(* claimed, adopted, merged or deleted since it was looked up.                          *)
AnswerIsOwner ==
  \A h \in Handlers :
    req[h].single /\ req[h].pc \in {"link", "own", "commit", "sale"} /\ contacts[req[h].contact] = "live"
      => owner[req[h].primary] = req[h].contact

(* What the comments say and the code does not keep. *)

(* «never hard-delete a contact that carries money or pipeline history». *)
HistoryIsKept == [][\A s \in Sales : sale[s] # NoSale => sale'[s] # NoSale]_vars

(* «a reverse row would falsely suggest keeping the newer». *)
NoReversedPair == \A p \in pairs : <<p[2], p[1]>> \notin pairs

(* «so re-pointing can't violate the opportunities_one_open_per_contact unique index». *)
MergeFits ==
  \A h \in Handlers : req[h].pc = "move" => OpenOf(req[h].contact) = {} \/ OpenOf(req[h].drop) \subseteq req[h].shut
=============================================================================

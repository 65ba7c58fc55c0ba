------------------------------- MODULE Directory -------------------------------
(* Who a client's customers are, as the rest of the platform may rely on it:    *)
(* which contact an identity belongs to, which contact a conversation is linked *)
(* to, and whose a sale is. Two contacts become one by a person's decision      *)
(* only, and then everything of the one is the other's; a deleted contact frees *)
(* what was its own; and nobody ever belongs to a contact that is no more.      *)
EXTENDS Naturals

CONSTANTS Ids, Values, Refs, Sales, Nobody, NoSale
VARIABLES owner, link, sale, gone

DirectoryInit ==
  /\ owner = [v \in Values |-> Nobody] /\ link = [r \in Refs |-> Nobody]
  /\ sale = [s \in Sales |-> NoSale] /\ gone = {}

OneOpen == \A s, t \in Sales : sale[s].status = "open" /\ sale[t] = sale[s] => s = t

(* A contact learns identities nobody has, and conversations: linked to nobody, or his by their reference. *)
Learns(c) ==
  /\ c \notin gone
  /\ \A v \in Values : owner'[v] # owner[v] => owner[v] = Nobody /\ owner'[v] = c
  /\ \A r \in Refs : link'[r] # link[r] => link'[r] = c /\ (link[r] = Nobody \/ owner'[r] = c)
  /\ UNCHANGED <<sale, gone>>

Trades(s) ==
  /\ \A t \in Sales \ {s} : sale'[t] = sale[t]
  /\ \/ sale[s] = NoSale /\ sale'[s].of \in Ids \ gone
     \/ sale[s] # NoSale /\ sale'[s].of = sale[s].of
  /\ UNCHANGED <<owner, link, gone>>

Becomes(f, c, k) == [x \in DOMAIN f |-> IF f[x] = c THEN k ELSE f[x]]

Merge(k, d) ==
  /\ {k, d} \cap gone = {} /\ k # d
  /\ gone' = gone \cup {d}
  /\ owner' = Becomes(owner, d, k) /\ link' = Becomes(link, d, k)
  /\ \A s \in Sales : IF sale[s].of = d THEN sale'[s].of = k /\ sale'[s].status \in {sale[s].status, "lost"}
                      ELSE sale'[s] = sale[s]

Forget(c) ==
  /\ c \notin gone
  /\ gone' = gone \cup {c}
  /\ owner' = Becomes(owner, c, Nobody) /\ link' = Becomes(link, c, Nobody)
  /\ sale' = [s \in Sales |-> IF sale[s].of = c THEN NoSale ELSE sale[s]]

DirectoryNext ==
  /\ \/ \E c \in Ids : Learns(c) \/ Forget(c)
     \/ \E s \in Sales : Trades(s)
     \/ \E k, d \in Ids : Merge(k, d)
  /\ OneOpen'

DirectorySpec == DirectoryInit /\ [][DirectoryNext]_<<owner, link, sale, gone>>
=============================================================================

-------------------------- MODULE ConversationModes --------------------------
(* Who answers a conversation, and how that may change: the bot, nobody yet    *)
(* (an escalation waits for a person), or the agent who took it. Every change  *)
(* is along a legal edge, by a source allowed on it, and leaves its entry in   *)
(* the audit trail, of which the last is kept here.                            *)
CONSTANTS Convs, Agents, NoAgent
VARIABLES conv, last

ModesInit ==
  /\ conv = [c \in Convs |-> [mode |-> "bot", agent |-> NoAgent]]
  /\ last = [c \in Convs |-> [from |-> "none", to |-> "bot", source |-> "none", by |-> NoAgent]]

Edges == [agent |-> {<<"bot", "human">>, <<"pending", "human">>, <<"pending", "bot">>, <<"human", "bot">>},
          workflow |-> {<<"bot", "pending">>},
          platform_rule |-> {<<"bot", "pending">>, <<"pending", "bot">>, <<"human", "bot">>, <<"human", "pending">>}]

Change(c, to, source, by) ==
  /\ <<conv[c].mode, to>> \in Edges[source]
  /\ by \in Agents <=> source = "agent"
  /\ conv' = [conv EXCEPT ![c] = [mode |-> to, agent |-> IF to = "human" THEN by ELSE NoAgent]]
  /\ last' = [last EXCEPT ![c] = [from |-> conv[c].mode, to |-> to, source |-> source, by |-> by]]

ModesNext == \E c \in Convs, to \in {"bot", "pending", "human"}, source \in DOMAIN Edges, by \in Agents \cup {NoAgent} :
               Change(c, to, source, by)

ModesSpec == ModesInit /\ [][ModesNext]_<<conv, last>>
=============================================================================

------------------------------- MODULE Handoff -------------------------------
(* The handoff of conversations between the bot and the agents of one client:  *)
(* src/db/repositories/handoff.ts (transitionMode, the only way to change a    *)
(* mode), src/handoff/autoReturn.ts (the sweep), the inbox module's switch in  *)
(* src/db/repositories/clientModules.ts, and the requests that drive them from *)
(* web/ (agent actions, escalations, replies, removal of a member).            *)
(*                                                                             *)
(* A request reads the conversation, then asks for the change: the two are     *)
(* apart, and whatever the others do falls in between. A transition is gate,   *)
(* row lock and commit.                                                        *)
EXTENDS Naturals

CONSTANTS
  Convs,        \* the client's conversations
  Agents,       \* who may have access to the inbox
  Supervisors,  \* those of them with inbox.supervise
  Messages,     \* replies that may be written
  Handlers,     \* requests in flight at once
  Sweeper,      \* the auto-return job: one cycle at a time
  NoAgent, NoConv, NoMessage

ASSUME NamesAssumption ==
  /\ NoAgent \notin Agents /\ NoConv \notin Convs /\ NoMessage \notin Messages
  /\ Sweeper \notin Handlers /\ Supervisors \subseteq Agents

VARIABLES
  conv,    \* conversations: mode and assigned_agent_user_id
  last,    \* the last row of conversation_mode_transitions of each
  aged,    \* what lies further back than auto_return_minutes: the last change of mode, the last agent message
  inbox,   \* client_modules.enabled of inbox
  access,  \* the agents who have access
  msgs,    \* handoff_messages of human agents
  req      \* the requests in flight and the sweep

vars == <<conv, last, aged, inbox, access, msgs, req>>

Tasks == Handlers \cup {Sweeper}
Modes == {"bot", "pending", "human"}

Idle == [op |-> "none", pc |-> "idle", conv |-> NoConv, by |-> NoAgent, expected |-> Modes,
         todo |-> {}, msg |-> NoMessage, outcome |-> "none"]

Init ==
  /\ conv = [c \in Convs |-> [mode |-> "bot", agent |-> NoAgent]]
  /\ last = [c \in Convs |-> [from |-> "none", to |-> "bot", source |-> "none", by |-> NoAgent]]
  /\ aged = [c \in Convs |-> [change |-> FALSE, reply |-> "never"]]
  /\ inbox = TRUE
  /\ access = Agents
  /\ msgs = [m \in Messages |-> [status |-> "none", conv |-> NoConv]]
  /\ req = [h \in Tasks |-> Idle]

Goes(h, pc) == req' = [req EXCEPT ![h].pc = pc]
Ends(h) == req' = [req EXCEPT ![h] = Idle]
Asks(h, op, pc, c, a, expected) ==
  req' = [req EXCEPT ![h] = [Idle EXCEPT !.op = op, !.pc = pc, !.conv = c, !.by = a, !.expected = expected]]

Untouched == UNCHANGED <<conv, last, aged, inbox, access, msgs>>

-----------------------------------------------------------------------------
(* The mode machine. *)
LegalTransitions ==
  { <<"bot", "pending", "workflow">>, <<"bot", "pending", "platform_rule">>,
    <<"bot", "human", "agent">>, <<"pending", "human", "agent">>,
    <<"pending", "bot", "agent">>, <<"pending", "bot", "platform_rule">>,
    <<"human", "bot", "agent">>, <<"human", "bot", "platform_rule">>,
    <<"human", "pending", "platform_rule">> }

ToMode == [escalate |-> "pending", take |-> "human", dismiss |-> "bot", return |-> "bot",
           sweep |-> "bot", release |-> "pending"]
Source == [escalate |-> "workflow", take |-> "agent", dismiss |-> "agent", return |-> "agent",
           sweep |-> "platform_rule", release |-> "platform_rule"]

(* The lock on the module's row: shared by gated transitions, exclusive for the switch. *)
Shares_none(h) == FALSE
Shares(h) == req[h].op = "escalate" /\ req[h].pc \in {"lock", "write"}
Switching(h) == req[h].op = "disable" /\ req[h].pc \in {"count", "off"}
RowFree_always(c) == TRUE
RowFree(c) == \A g \in Tasks : ~(req[g].pc = "write" /\ req[g].conv = c)

Done_released(h) ==
  \E c \in req[h].todo : req' = [req EXCEPT ![h].pc = "lock", ![h].conv = c, ![h].todo = @ \ {c}]

(* The transition is over: the release goes on to the next of its list. *)
Done(h) ==
  \/ req[h].todo = {} /\ Ends(h)
  \/ \E c \in req[h].todo : req' = [req EXCEPT ![h].pc = "lock", ![h].conv = c, ![h].todo = @ \ {c}]

Gate(h) ==
  /\ req[h].pc = "gate"
  /\ \A g \in Tasks : ~Switching(g)
  /\ \/ inbox /\ Goes(h, "lock")
     \/ ~inbox /\ Ends(h)
  /\ Untouched

Allowed(h) ==
  LET r == req[h] IN
  /\ conv[r.conv].mode \in r.expected
  /\ <<conv[r.conv].mode, ToMode[r.op], Source[r.op]>> \in LegalTransitions

LockRow(h) ==
  /\ req[h].pc = "lock" /\ RowFree(req[h].conv)
  /\ \/ Allowed(h) /\ req' = [req EXCEPT ![h].pc = "write", ![h].expected = {conv[req[h].conv].mode}]
     \/ ~Allowed(h) /\ Done(h)
  /\ Untouched

(* The update and the audit row, with the mode that was read under the lock. *)
CommitMode(h) ==
  LET r == req[h]
      to == ToMode[r.op] IN
  /\ r.pc = "write"
  /\ conv' = [conv EXCEPT ![r.conv] = [mode |-> to, agent |-> IF to = "human" THEN r.by ELSE NoAgent]]
  /\ \E from \in r.expected :
       last' = [last EXCEPT ![r.conv] = [from |-> from, to |-> to, source |-> Source[r.op],
                                         by |-> IF Source[r.op] = "agent" THEN r.by ELSE NoAgent]]
  /\ aged' = [aged EXCEPT ![r.conv].change = FALSE]
  /\ Done(h)
  /\ UNCHANGED <<inbox, access, msgs>>

-----------------------------------------------------------------------------
(* Who asks for a change, and what it read before. *)
MayAct(a) == inbox /\ a \in access

Escalate(h, c) ==
  /\ req[h] = Idle /\ conv[c].mode = "bot"
  /\ Asks(h, "escalate", "gate", c, NoAgent, Modes)
  /\ Untouched

Take(h, a, c) ==
  /\ req[h] = Idle /\ MayAct(a) /\ conv[c].mode # "human"
  /\ Asks(h, "take", "lock", c, a, Modes)
  /\ Untouched

Dismiss(h, a, c) ==
  /\ req[h] = Idle /\ MayAct(a) /\ conv[c].mode = "pending"
  /\ Asks(h, "dismiss", "lock", c, a, {"pending"})
  /\ Untouched

ReturnToBot(h, a, c) ==
  /\ req[h] = Idle /\ MayAct(a) /\ conv[c].mode = "human"
  /\ a = conv[c].agent \/ a \in Supervisors
  /\ Asks(h, "return", "lock", c, a, {"human"})
  /\ Untouched

Stale_human(c) ==
  conv[c].mode = "human" /\ (aged[c].reply = "old" \/ (aged[c].reply = "never" /\ aged[c].change))
Stale_pending(c) == conv[c].mode = "pending" /\ aged[c].change

(* The last message of any agent counts, whoever has the conversation now. *)
Stale(c) ==
  \/ conv[c].mode = "pending" /\ aged[c].change
  \/ conv[c].mode = "human" /\ (aged[c].reply = "old" \/ (aged[c].reply = "never" /\ aged[c].change))

Sweep(c) ==
  /\ req[Sweeper] = Idle /\ Stale(c)
  /\ Asks(Sweeper, "sweep", "lock", c, NoAgent, {conv[c].mode})
  /\ Untouched

RemoveAgent(h, a) ==
  /\ req[h] = Idle /\ a \in access
  /\ access' = access \ {a}
  /\ Asks(h, "release", "list", NoConv, a, Modes)
  /\ UNCHANGED <<conv, last, aged, inbox, msgs>>

ListReleased(h) ==
  LET held == {c \in Convs : conv[c].mode = "human" /\ conv[c].agent = req[h].by} IN
  /\ req[h].pc = "list"
  /\ \/ held = {} /\ Ends(h)
     \/ \E c \in held : req' = [req EXCEPT ![h].pc = "lock", ![h].conv = c, ![h].todo = held \ {c}]
  /\ Untouched

-----------------------------------------------------------------------------
(* The inbox module. *)
LockModule(h) ==
  /\ req[h] = Idle
  /\ \A g \in Tasks : ~Shares(g) /\ ~Switching(g)
  /\ Asks(h, "disable", "count", NoConv, NoAgent, Modes)
  /\ Untouched

CountActive(h) ==
  /\ req[h].pc = "count"
  /\ \/ (\A c \in Convs : conv[c].mode = "bot") /\ Goes(h, "off")
     \/ (\E c \in Convs : conv[c].mode # "bot") /\ Ends(h)
  /\ Untouched

DisableInbox(h) ==
  /\ req[h].pc = "off"
  /\ inbox' = FALSE
  /\ Ends(h)
  /\ UNCHANGED <<conv, last, aged, access, msgs>>

EnableInbox ==
  /\ \A g \in Tasks : ~Shares(g) /\ ~Switching(g)
  /\ inbox' = TRUE
  /\ UNCHANGED <<conv, last, aged, access, msgs, req>>

-----------------------------------------------------------------------------
(* Replies of an agent, posted to the workflow's webhook. *)
AsksAbout(h, op, pc, c, a, m) ==
  req' = [req EXCEPT ![h] = [Idle EXCEPT !.op = op, !.pc = pc, !.conv = c, !.by = a, !.msg = m]]

SendMessage(h, a, c, m) ==
  /\ req[h] = Idle /\ MayAct(a) /\ conv[c].mode = "human"
  /\ msgs[m].status = "none" /\ \A g \in Handlers : req[g].msg # m
  /\ AsksAbout(h, "send", "insert", c, a, m)
  /\ Untouched

InsertMessage(h) ==
  /\ req[h].pc = "insert"
  /\ msgs' = [msgs EXCEPT ![req[h].msg] = [status |-> "sending", conv |-> req[h].conv]]
  /\ aged' = [aged EXCEPT ![req[h].conv].reply = "recent"]
  /\ Goes(h, "post")
  /\ UNCHANGED <<conv, last, inbox, access>>

RetrySend(h, a, c, m) ==
  /\ req[h] = Idle /\ MayAct(a) /\ conv[c].mode = "human" /\ msgs[m].conv = c
  /\ AsksAbout(h, "retry", "claim", c, a, m)
  /\ Untouched

ClaimFailedMessage_anyStatus(h) ==
  /\ req[h].pc = "claim"
  /\ msgs' = [msgs EXCEPT ![req[h].msg].status = "sending"] /\ Goes(h, "post")
  /\ UNCHANGED <<conv, last, aged, inbox, access>>

ClaimFailedMessage(h) ==
  LET m == req[h].msg IN
  /\ req[h].pc = "claim"
  /\ \/ /\ msgs[m].status = "failed"
        /\ msgs' = [msgs EXCEPT ![m].status = "sending"] /\ Goes(h, "post")
     \/ msgs[m].status # "failed" /\ UNCHANGED msgs /\ Ends(h)
  /\ UNCHANGED <<conv, last, aged, inbox, access>>

(* The channel takes the message or rejects it; an answer that does not come in time is a failure too. *)
SendToWebhook(h) ==
  /\ req[h].pc = "post"
  /\ \E outcome \in {"sent", "failed"} : req' = [req EXCEPT ![h].pc = "answered", ![h].outcome = outcome]
  /\ Untouched

UpdateMessageDelivery(h) ==
  /\ req[h].pc = "answered"
  /\ msgs' = [msgs EXCEPT ![req[h].msg].status = req[h].outcome]
  /\ Ends(h)
  /\ UNCHANGED <<conv, last, aged, inbox, access>>

-----------------------------------------------------------------------------
(* auto_return_minutes go by without a change of mode or a reply. *)
TimePasses(c) ==
  /\ ~aged[c].change \/ aged[c].reply = "recent"
  /\ aged' = [aged EXCEPT ![c] = [change |-> TRUE, reply |-> IF @.reply = "never" THEN "never" ELSE "old"]]
  /\ UNCHANGED <<conv, last, inbox, access, msgs, req>>

(* The process dies, or a statement fails: the transaction rolls back. *)
Dies(h) == req[h] # Idle /\ Ends(h) /\ Untouched

Transition(h) == LockRow(h) \/ CommitMode(h)
Continue(h) ==
  \/ Gate(h) \/ Transition(h) \/ ListReleased(h) \/ CountActive(h) \/ DisableInbox(h)
  \/ InsertMessage(h) \/ ClaimFailedMessage(h) \/ SendToWebhook(h) \/ UpdateMessageDelivery(h)
Starts(h) ==
  \/ \E c \in Convs : Escalate(h, c)
  \/ \E a \in Agents, c \in Convs : Take(h, a, c) \/ Dismiss(h, a, c) \/ ReturnToBot(h, a, c)
  \/ \E a \in Agents : RemoveAgent(h, a)
  \/ \E a \in Agents, c \in Convs, m \in Messages : SendMessage(h, a, c, m) \/ RetrySend(h, a, c, m)
  \/ LockModule(h)

Next ==
  \/ \E h \in Handlers : Starts(h) \/ Continue(h) \/ Dies(h)
  \/ \E c \in Convs : Sweep(c)
  \/ Transition(Sweeper) \/ Dies(Sweeper)
  \/ EnableInbox
  \/ \E c \in Convs : TimePasses(c)

Spec == Init /\ [][Next]_vars

(* Requests go on. The sweep runs every HANDOFF_AUTORETURN_INTERVAL_SECONDS over every stale *)
(* conversation, is granted a row in its turn and does not fail for ever; time goes by.       *)
SweepSettles == <>[][Dies(Sweeper) => LockRow(Sweeper)]_vars
Fairness ==
  /\ \A h \in Handlers : WF_vars(Continue(h))
  /\ \A c \in Convs : SF_vars(Sweep(c)) /\ WF_vars(TimePasses(c))
  /\ SF_vars(Transition(Sweeper))
  /\ SweepSettles
FairSpec == Spec /\ Fairness

-----------------------------------------------------------------------------
(* What is waited for can be done: a request that holds a row is not kept from its commit,  *)
(* the sweep from a stale conversation or from a row that is free, time from going by.      *)
StepsAreEnabled ==
  /\ \A h \in Handlers : req[h].pc = "write" => ENABLED <<Continue(h)>>_vars
  /\ \A c \in Convs : req[Sweeper] = Idle /\ Stale(c) => ENABLED <<Sweep(c)>>_vars
  /\ \A c \in Convs : ~aged[c].change \/ aged[c].reply = "recent" => ENABLED <<TimePasses(c)>>_vars
  /\ req[Sweeper].pc = "lock" /\ RowFree(req[Sweeper].conv) => ENABLED <<Transition(Sweeper)>>_vars
  /\ req[Sweeper].pc = "write" => ENABLED <<Transition(Sweeper)>>_vars

-----------------------------------------------------------------------------
Requests == [op : {"none", "escalate", "take", "dismiss", "return", "sweep", "release", "disable", "send", "retry"},
             pc : {"idle", "gate", "lock", "write", "list", "count", "off", "insert", "claim", "post", "answered"},
             conv : Convs \cup {NoConv}, by : Agents \cup {NoAgent}, expected : SUBSET Modes, todo : SUBSET Convs,
             msg : Messages \cup {NoMessage}, outcome : {"none", "sent", "failed"}]

(* Every table keeps to its columns, and a conversation has an agent exactly while it is 'human'. *)
TypeOK ==
  /\ conv \in [Convs -> [mode : Modes, agent : Agents \cup {NoAgent}]]
  /\ \A c \in Convs : conv[c].mode = "human" <=> conv[c].agent # NoAgent
  /\ last \in [Convs -> [from : Modes \cup {"none"}, to : Modes,
                         source : {"none", "workflow", "platform_rule", "agent"}, by : Agents \cup {NoAgent}]]
  /\ aged \in [Convs -> [change : BOOLEAN, reply : {"never", "recent", "old"}]]
  /\ inbox \in BOOLEAN
  /\ access \subseteq Agents
  /\ msgs \in [Messages -> [status : {"none", "sending", "sent", "failed"}, conv : Convs \cup {NoConv}]]
  /\ req \in [Tasks -> Requests]

(* However requests, the sweep and releases meet on a conversation, its mode changes   *)
(* only along the legal edges and the trail says from what, to what and by whom: two    *)
(* agents who take at once do not both get it (transitionMode's row lock).              *)
Promised == INSTANCE ConversationModes
ModesSpec == Promised!ModesSpec

(* An escalation of the workflow and the switch of the module exclude each other: while *)
(* the inbox is off no conversation waits for a person by the workflow's request        *)
(* (FOR SHARE against FOR UPDATE, clientModules.ts:112).                                *)
EscalationNeedsInbox ==
  ~inbox => \A c \in Convs : ~(conv[c].mode = "pending" /\ last[c].source = "workflow")

(* A reply is posted by one request at a time, and never again once the channel's       *)
(* acceptance is recorded (claimFailedMessageForRetry, handoff.ts:365).                 *)
Posting(h, m) == req[h].pc \in {"post", "answered"} /\ req[h].msg = m
PostedByOne ==
  \A m \in Messages, g, h \in Handlers : Posting(g, m) /\ Posting(h, m) => g = h /\ msgs[m].status = "sending"

(* A reply recorded as sent stays sent through every retry and every late answer, whose *)
(* writer asks for no status (updateMessageDelivery, handoff.ts:311).                    *)
SentStays == [][\A m \in Messages : msgs[m].status = "sent" => msgs'[m].status = "sent"]_vars

(* An escalation nobody takes is not left waiting: a person or the sweep ends it.       *)
EscalationEnds == \A c \in Convs : conv[c].mode = "pending" ~> conv[c].mode # "pending"

(* A customer is not stranded with an agent who lost access, even when the agent's take *)
(* was in flight while the release went through the list (memberActions.ts:30).         *)
Stranded(c) == conv[c].mode = "human" /\ conv[c].agent \notin access
StrandedIsReturned == \A c \in Convs : Stranded(c) ~> ~Stranded(c)

(* What the comments say and the code does not keep. *)

(* «these actions can't race a disable into an active-but-disabled state». *)
DisabledIsIdle == ~inbox => \A c \in Convs : conv[c].mode = "bot"

(* «An active human conversation (a recent agent message) is never taken away». *)
ActiveIsKept ==
  [][\A c \in Convs : conv[c].mode = "human" /\ conv[c].agent # NoAgent /\ aged[c].reply = "recent"
       /\ last'[c] # last[c] /\ req[Sweeper].pc = "write" /\ req'[Sweeper] = Idle => req[Sweeper].conv # c]_vars

(* «finds the agent's live 'human' conversations and re-queues each». *)
ReleasesOnlyTheirs ==
  [][\A h \in Handlers, c \in Convs :
       req[h].op = "release" /\ req[h].pc = "write" /\ req[h].conv = c /\ last'[c] # last[c] /\ req'[h] # req[h]
         => conv[c].agent = req[h].by]_vars
=============================================================================

------------------------------ MODULE EventHub ------------------------------
(***************************************************************************)
(* The WebSocket hub (sctp_probe/ws.py), the handlers that broadcast each   *)
(* message after they have saved it (main._on_message), and the web page    *)
(* (static/index.html) that subscribes, loads the log and appends what it   *)
(* is sent, and whose clearLog deletes the log and then empties its list.    *)
(* The log is the table of module Store.                                    *)
(*                                                                         *)
(* An element of Sockets is one WebSocket and the page that opened it.  A   *)
(* page that loses its socket opens another one two seconds later and loads *)
(* the log again: it counts as a new page, without the rows it had, whose   *)
(* user may have called clearLog before the new socket was open.            *)
(***************************************************************************)
EXTENDS Store, Lists, Functions

CONSTANTS
    Handlers,    \* tasks that run _on_message
    Sockets,     \* WebSockets, each used once
    PageRows,    \* the limit of the page's GET /api/messages, 200
    Room,        \* events a socket takes before send_text has to wait
    None,
    Watched,     \* bound: the pages whose GET is answered and whose users call clearLog,
                 \* one call at a time
    MaxMessages  \* bound: messages saved in a behaviour

ASSUME HubAssumption ==
    /\ PageRows \in Nat \ {0} /\ Room \in Nat \ {0} /\ MaxMessages \in Nat
    /\ None \notin Nat
    /\ Watched \subseteq Sockets

VARIABLES
    subscribers,  \* WsHub._subscribers
    pc,           \* each handler: "idle", its row "saved" by the thread but not yet
                  \* seen, or in a send_text of broadcast, "cast"
    event,        \* the id of the row each handler broadcasts
    targets,      \* the sockets its broadcast has not passed yet
    dead,         \* the sockets its broadcast has found dead
    sock,         \* each socket at the page: "new", "open" or "closed"
    serving,      \* sockets whose ws_events is running
    inbox,        \* ids under way to each socket's page
    load,         \* the page's GET on opening: "none", "asked", "answered", "done"
    rows,         \* the ids its answer holds
    loadedAt,     \* history: the last id in the log when the GET was answered
    shown,        \* how often each page shows each row
    clearing,     \* pages whose clearLog awaits the answer of its DELETE
    wiped,        \* history: rows that clearLog has taken off each page's list
    live,         \* history: ids that came over each open socket, in order
    announced,    \* history: ids whose broadcast has run to its end
    origin        \* history: the handler that saved each id, or "sent"

castVars == <<pc, event, targets, dead, announced, origin>>
pageVars == <<sock, serving, inbox, load, rows, loadedAt, shown, clearing, wiped, live>>
hubVars == <<storeVars, subscribers, castVars, pageVars>>

\* No row is shown; the rows ids are appended, whether the page shows them or not.
NoneShown == [i \in 1..MaxMessages |-> 0]

Appended(counts, ids) ==
    [i \in 1..MaxMessages |-> IF i \in ids THEN counts[i] + 1 ELSE counts[i]]

RowsShown(s) == {i \in 1..MaxMessages : shown[s][i] > 0}

Init ==
    /\ InitDb
    /\ subscribers = <<>>
    /\ pc = [h \in Handlers |-> "idle"]
    /\ event = [h \in Handlers |-> None]
    /\ targets = [h \in Handlers |-> <<>>]
    /\ dead = [h \in Handlers |-> {}]
    /\ sock = [s \in Sockets |-> "new"]
    /\ serving = {}
    /\ inbox = [s \in Sockets |-> <<>>]
    /\ load = [s \in Sockets |-> "none"]
    /\ rows = [s \in Sockets |-> {}]
    /\ loadedAt = [s \in Sockets |-> None]
    /\ shown = [s \in Sockets |-> NoneShown]
    /\ clearing = {}
    /\ wiped = [s \in Sockets |-> {}]
    /\ live = [s \in Sockets |-> <<>>]
    /\ announced = {}
    /\ origin = <<>>

-----------------------------------------------------------------------------
(* The handlers *)

\* Mutant: the last subscriber is removed, whoever it is.
Without_Last(list, gone) ==
    IF gone = {} \/ list = <<>> THEN list ELSE SubSeq(list, 1, Len(list) - 1)

\* The list without the sockets in gone: hub.disconnect for each of them.
Without(list, gone) == ElementsAt(list, {i \in DOMAIN list : list[i] \notin gone})

\* A row is saved; of what it holds the page's query could ask for the direction.
LogRow(from) ==
    /\ SaveMessage([direction |-> IF from = "sent" THEN "outbound" ELSE "inbound"])
    /\ origin' = Append(origin, from)

\* A message has arrived and the thread has saved its row.  (A handler cancelled
\* before that leaves no trace.)
Save(h) ==
    /\ pc[h] = "idle" /\ lastMessageId < MaxMessages
    /\ LogRow(h)
    /\ pc' = [pc EXCEPT ![h] = "saved"]
    /\ event' = [event EXCEPT ![h] = NextMessageId]
    /\ UNCHANGED <<subscribers, targets, dead, announced, pageVars>>

\* The broadcast of h goes on with the sockets in rest; after the last of them the
\* dead ones leave the list and the handler goes on to the rules.
Continue(h, row, rest, gone) ==
    IF rest = <<>>
    THEN /\ pc' = [pc EXCEPT ![h] = "idle"]
         /\ event' = [event EXCEPT ![h] = None]
         /\ targets' = [targets EXCEPT ![h] = <<>>]
         /\ dead' = [dead EXCEPT ![h] = {}]
         /\ announced' = announced \cup {row}
         /\ subscribers' = Without(subscribers, gone)
    ELSE /\ pc' = [pc EXCEPT ![h] = "cast"]
         /\ event' = [event EXCEPT ![h] = row]
         /\ targets' = [targets EXCEPT ![h] = rest]
         /\ dead' = [dead EXCEPT ![h] = gone]
         /\ UNCHANGED <<subscribers, announced>>

\* The handler resumes with the row; broadcast copies the list of subscribers.
Announce(h) ==
    /\ pc[h] = "saved"
    /\ Continue(h, event[h], subscribers, {})
    /\ UNCHANGED <<storeVars, origin, pageVars>>

\* The socket takes the event as soon as it has room.
SendText(h) ==
    LET s == Head(targets[h])
    IN  /\ pc[h] = "cast"
        /\ sock[s] = "open" /\ Len(inbox[s]) < Room
        /\ inbox' = [inbox EXCEPT ![s] = Append(@, event[h])]
        /\ Continue(h, event[h], Tail(targets[h]), dead[h])
        /\ UNCHANGED <<storeVars, origin, sock, serving, load, rows, loadedAt, shown, clearing, wiped, live>>

\* Mutant: a dead socket ends the broadcast.
SendToClosed_Aborts(h) ==
    /\ pc[h] = "cast"
    /\ sock[Head(targets[h])] = "closed"
    /\ Continue(h, event[h], <<>>, {Head(targets[h])})
    /\ UNCHANGED <<storeVars, origin, pageVars>>

\* Mutant: a send to a closed socket is never answered.
SendToClosed_Waits(h) ==
    /\ pc[h] = "cast"
    /\ sock[Head(targets[h])] = "closed"
    /\ UNCHANGED hubVars

\* The page is gone: send_text raises and the socket is dead, or the event is lost
\* on its way.
SendToClosed(h) ==
    LET s == Head(targets[h])
    IN  /\ pc[h] = "cast"
        /\ sock[s] = "closed"
        /\ \E gone \in {dead[h], dead[h] \cup {s}} : Continue(h, event[h], Tail(targets[h]), gone)
        /\ UNCHANGED <<storeVars, origin, pageVars>>

\* A stop or a disconnect cancels the handler after its row is saved, or before the
\* broadcast has passed every socket.
Cancel(h) ==
    /\ pc[h] # "idle"
    /\ pc' = [pc EXCEPT ![h] = "idle"]
    /\ event' = [event EXCEPT ![h] = None]
    /\ targets' = [targets EXCEPT ![h] = <<>>]
    /\ dead' = [dead EXCEPT ![h] = {}]
    /\ UNCHANGED <<storeVars, origin, subscribers, announced, pageVars>>

\* api/send saves its row and tells nobody.
SaveSent ==
    /\ lastMessageId < MaxMessages
    /\ LogRow("sent")
    /\ UNCHANGED <<subscribers, pc, event, targets, dead, announced, pageVars>>

\* DELETE /api/messages by any other client.
DeleteLog == DeleteAllMessages /\ UNCHANGED <<subscribers, castVars, pageVars>>

-----------------------------------------------------------------------------
(* Pages and ws_events *)

\* Mutant: the socket is subscribed on accept and once more.
Open_Twice(s) ==
    /\ sock[s] = "new"
    /\ sock' = [sock EXCEPT ![s] = "open"]
    /\ serving' = serving \cup {s}
    /\ subscribers' = subscribers \o <<s, s>>
    /\ load' = [load EXCEPT ![s] = "asked"]
    /\ UNCHANGED <<storeVars, castVars, inbox, rows, loadedAt, shown, clearing, wiped, live>>

\* connectWs, accept and append: the page comes to onopen and asks for the log.
Open(s) ==
    /\ sock[s] = "new"
    /\ sock' = [sock EXCEPT ![s] = "open"]
    /\ serving' = serving \cup {s}
    /\ subscribers' = Append(subscribers, s)
    /\ load' = [load EXCEPT ![s] = "asked"]
    /\ UNCHANGED <<storeVars, castVars, inbox, rows, loadedAt, shown, clearing, wiped, live>>

\* GET /api/messages?since_id=0&limit=200 is answered ...
Query(s) ==
    /\ s \in Watched /\ load[s] = "asked"
    /\ load' = [load EXCEPT ![s] = "answered"]
    /\ rows' = [rows EXCEPT ![s] = GetMessages(0, "any", PageRows)]
    /\ loadedAt' = [loadedAt EXCEPT ![s] = lastMessageId]
    /\ UNCHANGED <<storeVars, subscribers, castVars, sock, serving, inbox, shown, clearing, wiped, live>>

\* Mutant: the page asks for the log again and again.
Loaded_AsksAgain(s) ==
    /\ load[s] = "answered"
    /\ shown' = [shown EXCEPT ![s] = Appended(@, rows[s])]
    /\ load' = [load EXCEPT ![s] = "asked"]
    /\ rows' = [rows EXCEPT ![s] = {}]
    /\ UNCHANGED <<storeVars, subscribers, castVars, sock, serving, inbox, loadedAt, clearing, wiped, live>>

\* ... and its rows appended, to whatever the page shows.
Loaded(s) ==
    /\ load[s] = "answered"
    /\ shown' = [shown EXCEPT ![s] = Appended(@, rows[s])]
    /\ load' = [load EXCEPT ![s] = "done"]
    /\ rows' = [rows EXCEPT ![s] = {}]
    /\ UNCHANGED <<storeVars, subscribers, castVars, sock, serving, inbox, loadedAt, clearing, wiped, live>>

\* onmessage appends the row.
Deliver(s) ==
    /\ inbox[s] # <<>>
    /\ shown' = [shown EXCEPT ![s] = Appended(@, {Head(inbox[s])})]
    /\ live' = [live EXCEPT ![s] = Append(@, Head(inbox[s]))]
    /\ inbox' = [inbox EXCEPT ![s] = Tail(@)]
    /\ UNCHANGED <<storeVars, subscribers, castVars, sock, serving, load, rows, loadedAt, clearing, wiped>>

\* clearLog: its DELETE empties the log ...
ClearLog(s) ==
    /\ s \in Watched \ clearing /\ sock[s] # "closed"
    /\ DeleteAllMessages
    /\ clearing' = clearing \cup {s}
    /\ UNCHANGED <<subscribers, castVars, sock, serving, inbox, load, rows, loadedAt, shown, wiped, live>>

\* ... and when the answer is there the list is emptied, with all that has been
\* appended to it meanwhile.
EmptyList(s) ==
    /\ s \in clearing
    /\ clearing' = clearing \ {s}
    /\ wiped' = [wiped EXCEPT ![s] = @ \cup RowsShown(s)]
    /\ shown' = [shown EXCEPT ![s] = NoneShown]
    /\ UNCHANGED <<storeVars, subscribers, castVars, sock, serving, inbox, load, rows, loadedAt, live>>

\* The page is left or the connection lost, with the events under way; the rows of
\* the old page are no longer looked at.
Close(s) ==
    /\ sock[s] = "open"
    /\ sock' = [sock EXCEPT ![s] = "closed"]
    /\ inbox' = [inbox EXCEPT ![s] = <<>>]
    /\ load' = [load EXCEPT ![s] = "none"]
    /\ rows' = [rows EXCEPT ![s] = {}]
    /\ loadedAt' = [loadedAt EXCEPT ![s] = None]
    /\ shown' = [shown EXCEPT ![s] = NoneShown]
    /\ clearing' = clearing \ {s}
    /\ wiped' = [wiped EXCEPT ![s] = {}]
    /\ live' = [live EXCEPT ![s] = <<>>]
    /\ UNCHANGED <<storeVars, subscribers, castVars, serving>>

\* Mutant: ws_events has no finally block.
Unsubscribe_Forgotten(s) ==
    /\ sock[s] = "closed" /\ s \in serving
    /\ serving' = serving \ {s}
    /\ UNCHANGED <<storeVars, subscribers, castVars, sock, inbox, load, rows, loadedAt, shown, clearing, wiped, live>>

\* receive_text raises WebSocketDisconnect: the socket is removed from the list, if
\* no broadcast has done so.
Unsubscribe(s) ==
    /\ sock[s] = "closed" /\ s \in serving
    /\ serving' = serving \ {s}
    /\ subscribers' = Without(subscribers, {s})
    /\ UNCHANGED <<storeVars, castVars, sock, inbox, load, rows, loadedAt, shown, clearing, wiped, live>>

-----------------------------------------------------------------------------
CastStep(h) == SendText(h) \/ SendToClosed(h)

Next ==
    \/ \E h \in Handlers : Save(h) \/ Announce(h) \/ CastStep(h) \/ Cancel(h)
    \/ SaveSent \/ DeleteLog
    \/ \E s \in Sockets :
          \/ Open(s) \/ Query(s) \/ Loaded(s) \/ Deliver(s) \/ Close(s) \/ Unsubscribe(s)
          \/ ClearLog(s) \/ EmptyList(s)

Spec == Init /\ [][Next]_hubVars

\* The loop resumes a broadcast whose socket has room, or is closed; an open page
\* reads what it is sent.
Fairness ==
    /\ \A h \in Handlers : WF_hubVars(CastStep(h))
    /\ \A s \in Sockets : WF_hubVars(Deliver(s))

FairSpec == Spec /\ Fairness

-----------------------------------------------------------------------------
(* Properties *)

\* Types; a broadcast has sockets left to pass, a page nothing under way once its
\* socket is closed, and every open socket is subscribed.
TypeOK ==
    /\ lastMessageId \in 0..MaxMessages
    /\ DOMAIN messages \subseteq 1..lastMessageId
    /\ subscribers \in Seq(Sockets)
    /\ pc \in [Handlers -> {"idle", "saved", "cast"}]
    /\ \A h \in Handlers : pc[h] = "cast" <=> targets[h] # <<>>
    /\ \A h \in Handlers : pc[h] \in {"saved", "cast"} => event[h] \in 1..lastMessageId
    /\ \A h \in Handlers : targets[h] \in Seq(Sockets) /\ dead[h] \subseteq Sockets
    /\ sock \in [Sockets -> {"new", "open", "closed"}]
    /\ serving \subseteq Sockets
    /\ \A s \in Sockets : sock[s] = "open" => s \in Range(subscribers)
    /\ \A s \in Sockets : sock[s] # "open" => inbox[s] = <<>> /\ load[s] = "none"
    /\ clearing \subseteq {s \in Watched : sock[s] # "closed"}
    /\ \A s \in Sockets : rows[s] \subseteq 1..lastMessageId /\ (rows[s] # {} => load[s] = "answered")

\* A page that is connected, has loaded the log and read what it was sent has every
\* row that was broadcast to the end, if it is still in the log: rows before the load
\* are in the loaded page (if that is long enough), later ones came over the socket,
\* although loading and subscribing are independent.  Such a row is shown, unless the
\* page's own clearLog took it off the list: rows saved after its DELETE and shown
\* before the answer go too, although the log has them.
NothingMissed ==
    \A s \in Sockets : sock[s] = "open" /\ load[s] = "done" /\ inbox[s] = <<>> =>
        \A i \in announced \cap DOMAIN messages :
            i > loadedAt[s] \/ i \in GetMessages(0, "any", PageRows) =>
                i \in RowsShown(s) \cup wiped[s]

\* appendMessage looks for no row with the same id, so a row may be shown twice: once
\* from the load, if it was in the log then, and once from the socket, and on one
\* connection never more often, whatever is broadcast, loaded and cleared meanwhile.
ShownTwiceAtMost ==
    \A s \in Sockets : \A i \in RowsShown(s) :
        LET loaded == load[s] = "done" /\ i <= loadedAt[s]
            pushed == i \in Range(live[s])
        IN  /\ loaded \/ pushed
            /\ shown[s][i] <= IF loaded /\ pushed THEN 2 ELSE 1

\* The rows of one association reach a socket in the order of the log and at most
\* once: its handler awaits the broadcast before it receives again.  Rows of two
\* associations may change places.
LiveOrdered ==
    \A s \in Sockets :
        LET sent == live[s] \o inbox[s]
        IN  \A i, j \in DOMAIN sent :
                i < j /\ origin[sent[i]] = origin[sent[j]] => sent[i] < sent[j]

\* A socket is in the list only while its ws_events runs, and only once: whether a
\* broadcast or its own task notices first that it is closed, none stays behind.
NoneLeftBehind ==
    /\ Range(subscribers) \subseteq serving
    /\ \A i, j \in DOMAIN subscribers : subscribers[i] = subscribers[j] => i = j

\* Every broadcast ends, though it awaits each page in turn, as long as open pages
\* read: otherwise the handler would never come to the rules.
BroadcastEnds == \A h \in Handlers : []<>(pc[h] # "cast")
=============================================================================

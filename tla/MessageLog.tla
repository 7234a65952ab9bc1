----------------------------- MODULE MessageLog -----------------------------
(***************************************************************************)
(* The message log as its readers see it: writers that tag and save rows,  *)
(* users who delete the log or reset the session, and REST clients that    *)
(* poll GET /api/messages with since_id, direction and limit the way the   *)
(* README's "Efficient polling" tells them to: since_id is the id of the   *)
(* last message received.                                                  *)
(*                                                                         *)
(* A poll is two steps.  get_messages takes the page from the table in one *)
(* transaction; the response reaches the client later, or is lost and the  *)
(* client asks again.                                                      *)
(***************************************************************************)
EXTENDS Store

CONSTANTS
    Clients,      \* REST clients
    Direction,    \* Clients -> the direction parameter, "any" for none
    Limit,        \* Clients -> the limit parameter
    Writers,      \* handlers and requests that save a message
    None,
    MaxMessages,  \* bound: messages saved in a behaviour
    MaxResets     \* bound: session resets in a behaviour

Directions == {"inbound", "outbound"}

ASSUME ClientsAssumption ==
    /\ Direction \in [Clients -> Directions \cup {"any"}]
    /\ Limit \in [Clients -> Int]
ASSUME LogBoundsAssumption == MaxMessages \in Nat /\ MaxResets \in Nat /\ None \notin Nat

VARIABLES
    tag,         \* session id a writer has read for the message it will save
    since,       \* since_id of each client's next poll
    page,        \* ids in the response under way to each client, None for no poll
    seen,        \* history: ids each client has received
    deliveries   \* history: rows each client has received, with repetitions

clientVars == <<since, page, seen, deliveries>>
logVars == <<storeVars, tag, clientVars>>

Rows == [direction : Directions, session : 0..MaxResets]

Init ==
    /\ InitDb
    /\ tag = [w \in Writers |-> None]
    /\ since = [c \in Clients |-> 0]
    /\ page = [c \in Clients |-> None]
    /\ seen = [c \in Clients |-> {}]
    /\ deliveries = [c \in Clients |-> 0]

-----------------------------------------------------------------------------
(* Writers: _on_message, _execute and api/send all read the session id in   *)
(* one job and save the row in a later one.                                 *)

ReadTag(w) ==
    /\ tag[w] = None
    /\ tag' = [tag EXCEPT ![w] = session]
    /\ UNCHANGED <<storeVars, clientVars>>

Save(w) ==
    /\ tag[w] # None
    /\ lastMessageId < MaxMessages
    /\ \E d \in Directions : SaveMessage([direction |-> d, session |-> tag[w]])
    /\ tag' = [tag EXCEPT ![w] = None]
    /\ UNCHANGED clientVars

\* DELETE /api/messages
DeleteLog == DeleteAllMessages /\ UNCHANGED <<tag, clientVars>>

\* POST /api/session/reset
Reset ==
    /\ session < MaxResets
    /\ ResetSession
    /\ UNCHANGED <<tag, clientVars>>

-----------------------------------------------------------------------------
(* Clients *)

\* get_messages runs for the poll of client c.
Poll(c) ==
    /\ page[c] = None
    /\ page' = [page EXCEPT ![c] = GetMessages(since[c], Direction[c], Limit[c])]
    /\ UNCHANGED <<storeVars, tag, since, seen, deliveries>>

\* since_id of the next poll: the id of the last row of the page.
AdvanceTo(c) ==
    IF page[c] = {} THEN since[c]
    ELSE CHOOSE i \in page[c] : \A j \in page[c] : j <= i

\* The response arrives.
Arrive(c) ==
    /\ page[c] # None
    /\ since' = [since EXCEPT ![c] = AdvanceTo(c)]
    /\ seen' = [seen EXCEPT ![c] = @ \cup page[c]]
    /\ deliveries' = [deliveries EXCEPT ![c] = @ + Cardinality(page[c])]
    /\ page' = [page EXCEPT ![c] = None]
    /\ UNCHANGED <<storeVars, tag>>

\* The response is lost, or the client gives up on it.
Lose(c) ==
    /\ page[c] # None
    /\ page' = [page EXCEPT ![c] = None]
    /\ UNCHANGED <<storeVars, tag, since, seen, deliveries>>

Next ==
    \/ \E w \in Writers : ReadTag(w) \/ Save(w)
    \/ DeleteLog \/ Reset
    \/ \E c \in Clients : Poll(c) \/ Arrive(c) \/ Lose(c)

Spec == Init /\ [][Next]_logVars

\* A client goes on polling, and not every response to it is lost.
Fairness == \A c \in Clients : WF_logVars(Poll(c)) /\ SF_logVars(Arrive(c))

FairSpec == Spec /\ Fairness

-----------------------------------------------------------------------------
(* Export *)

\* The rows of export_json and export_pcap: the first page of the whole table,
\* filtered only if a session is named.
Exported(sessionId) ==
    {i \in GetMessages(0, "any", MaxLimit) :
        sessionId = None \/ messages[i].session = sessionId}

-----------------------------------------------------------------------------
(* Properties *)

\* The rows client c asks for that are newer than since_id, and the feed it gets:
\* those rows and the ones already on their way.
Wanted(c) == Newer(0, Direction[c])
OnTheWay(c) == IF page[c] = None THEN {} ELSE page[c]
Backlog(c) == {i \in Wanted(c) : i > since[c]} \cup OnTheWay(c)

\* Types of the tables and of the clients' state; ids never exceed the last one
\* given out, a page holds ids above since_id only.
TypeOK ==
    /\ lastMessageId \in 0..MaxMessages
    /\ messages \in [DOMAIN messages -> Rows]
    /\ DOMAIN messages \subseteq 1..lastMessageId
    /\ session \in 0..MaxResets
    /\ tag \in [Writers -> (0..MaxResets) \cup {None}]
    /\ since \in [Clients -> 0..lastMessageId]
    /\ page \in [Clients -> (SUBSET (1..lastMessageId)) \cup {None}]
    /\ \A c \in Clients : OnTheWay(c) \subseteq since[c] + 1..lastMessageId
    /\ seen \in [Clients -> SUBSET (1..lastMessageId)]
    /\ deliveries \in [Clients -> Nat]

\* A client that follows since_id misses nothing: each message of the log that it
\* asks for and that is not newer than its since_id has been received, whatever
\* was saved, deleted or lost between its polls and however small its limit.
PollNeverSkips ==
    \A c \in Clients, i \in DOMAIN messages : i \in Wanted(c) /\ i <= since[c] => i \in seen[c]

\* No row is received twice, although lost responses are asked for again and
\* the log may be emptied between two polls.
ReceivedOnce == \A c \in Clients : deliveries[c] = Cardinality(seen[c])

\* The log is a feed for each client (module MessageFeed): every message once, in
\* the order of logging.
Feed(c) == INSTANCE MessageFeed
    WITH pending <- Backlog(c), delivered <- seen[c], top <- lastMessageId
LogIsFeed ==
    /\ \A c \in Clients : Feed(c)!Init
    /\ [][\A c \in Clients : [Feed(c)!Next]_(Feed(c)!feedVars)]_logVars

\* Every message asked for is received in the end unless it is deleted, also by a
\* client that asks with limit 0 or less.
EventuallySeen ==
    \A c \in Clients, i \in 1..MaxMessages :
        i \in Backlog(c) ~> (i \in seen[c] \/ i \notin DOMAIN messages)

\* An export of one session is cut at the end only: a row of the session is missing
\* only if at least MaxLimit rows, of whatever sessions, are older than it.
ExportKeepsOldest ==
    \A i \in DOMAIN messages :
        i \notin Exported(messages[i].session) =>
            Cardinality({j \in DOMAIN messages : j < i}) >= MaxLimit
=============================================================================

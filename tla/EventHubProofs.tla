--------------------------- MODULE EventHubProofs ---------------------------
(***************************************************************************)
(* Theorems about EventHub for every number of handlers, sockets and        *)
(* messages, every room of a socket and every page size.                    *)
(***************************************************************************)
EXTENDS EventHub, ListsProofs, SequenceTheorems

\* Types of the log, of the broadcasts and of the pages, with the ids they may hold.
LogTypes ==
    /\ lastMessageId \in 0..MaxMessages
    /\ DOMAIN messages \subseteq 1..lastMessageId
    /\ origin \in Seq(Handlers \cup {"sent"}) /\ Len(origin) = lastMessageId
    /\ announced \subseteq 1..lastMessageId

CastTypes ==
    /\ pc \in [Handlers -> {"idle", "saved", "cast"}]
    /\ event \in [Handlers -> Nat \cup {None}]
    /\ targets \in [Handlers -> Seq(Sockets)]
    /\ dead \in [Handlers -> SUBSET Sockets]
    /\ \A h \in Handlers : pc[h] = "cast" <=> targets[h] # <<>>
    /\ \A h \in Handlers : pc[h] # "idle" => event[h] \in 1..lastMessageId

PageTypes ==
    /\ sock \in [Sockets -> {"new", "open", "closed"}]
    /\ serving \subseteq Sockets
    /\ inbox \in [Sockets -> Seq(Nat)] /\ live \in [Sockets -> Seq(Nat)]
    /\ load \in [Sockets -> {"none", "asked", "answered", "done"}]
    /\ rows \in [Sockets -> SUBSET Nat] /\ wiped \in [Sockets -> SUBSET Nat]
    /\ shown \in [Sockets -> [1..MaxMessages -> Nat]]
    /\ loadedAt \in [Sockets -> Nat \cup {None}]
    /\ \A s \in Sockets : sock[s] # "open" => inbox[s] = <<>> /\ load[s] = "none"
    /\ clearing \subseteq {s \in Watched : sock[s] # "closed"}
    /\ \A s \in Sockets : rows[s] \subseteq 1..lastMessageId /\ (rows[s] # {} => load[s] = "answered")

\* Who is in which list of sockets: every open one is subscribed, none before it is
\* opened, only closed ones are taken for dead, and a broadcast passes each once.
SocketLists ==
    /\ subscribers \in Seq(Sockets)
    /\ \A s \in Sockets : sock[s] = "open" => s \in Range(subscribers)
    /\ Range(subscribers) \subseteq serving
    /\ Distinct(subscribers)
    /\ \A s \in serving : sock[s] # "new"
    /\ \A h \in Handlers : \A s \in dead[h] : sock[s] = "closed"
    /\ \A h \in Handlers : Distinct(targets[h])

ListsInv == LogTypes /\ CastTypes /\ PageTypes /\ SocketLists

\* Everything that came or is coming over a socket.
Sent(s) == live[s] \o inbox[s]

\* Order: of the rows its handler has saved, the one it now holds is above all that a
\* socket was sent, unless its broadcast has passed that socket.
OrderInv ==
    /\ LiveOrdered
    /\ \A s \in Sockets : \A i \in DOMAIN Sent(s) : Sent(s)[i] \in 1..lastMessageId
    /\ \A h \in Handlers : pc[h] # "idle" => origin[event[h]] = h
    /\ \A h \in Handlers, s \in Sockets : \A i \in DOMAIN Sent(s) :
          pc[h] # "idle" /\ origin[Sent(s)[i]] = h =>
              /\ Sent(s)[i] <= event[h]
              /\ pc[h] = "saved" \/ s \in Range(targets[h]) => Sent(s)[i] < event[h]

\* What a page shows or has taken off its list, what it has of the rows after its load,
\* and of those up to it.
Seen(s) == RowsShown(s) \cup wiped[s]

Got(s) == Seen(s) \cup Range(inbox[s])

LaterRowsGot(s) ==
    /\ \A i \in announced : i > loadedAt[s] => i \in Got(s)
    /\ \A h \in Handlers :
          pc[h] = "cast" /\ event[h] > loadedAt[s] /\ s \notin Range(targets[h]) =>
              event[h] \in Got(s)

EarlierRowsLoaded(s) ==
    \A i \in GetMessages(0, "any", PageRows) : i <= loadedAt[s] => i \in rows[s] \cup Seen(s)

MissInv ==
    \A s \in Sockets : sock[s] = "open" /\ load[s] \in {"answered", "done"} =>
        /\ loadedAt[s] \in 0..lastMessageId
        /\ LaterRowsGot(s)
        /\ EarlierRowsLoaded(s)

-----------------------------------------------------------------------------
(* Lists of sockets *)

\* Removing sockets leaves the others, none twice.
LEMMA RangeOfWithout ==
    ASSUME NEW S, NEW list \in Seq(S), NEW gone
    PROVE  /\ Without(list, gone) \in Seq(S)
           /\ Range(Without(list, gone)) = Range(list) \ gone
           /\ Distinct(list) => Distinct(Without(list, gone))
  <1> DEFINE kept == {i \in DOMAIN list : list[i] \notin gone}
             left == ElementsAt(list, kept)
  <1>1. kept \in SUBSET (DOMAIN list)
    OBVIOUS
  <1>2. \A i \in DOMAIN list : i \in kept <=> list[i] \notin gone
    OBVIOUS
  <1>3. Without(list, gone) = left
    BY DEF Without
  <1> HIDE DEF kept
  <1>4. /\ left \in Seq(S)
        /\ \A i \in kept : Rank(kept, i) \in DOMAIN left /\ left[Rank(kept, i)] = list[i]
        /\ \A k \in DOMAIN left : \E i \in kept : Rank(kept, i) = k
    BY <1>1, Selects
  <1> HIDE DEF left
  <1>5. Range(left) = Range(list) \ gone
    BY <1>1, <1>2, <1>4 DEF Range
  <1>6. ASSUME Distinct(list), NEW k \in DOMAIN left, NEW m \in DOMAIN left, left[k] = left[m]
        PROVE  k = m
    <2>1. PICK i \in kept, j \in kept : Rank(kept, i) = k /\ Rank(kept, j) = m
      BY <1>4
    <2>2. list[i] = list[j]
      BY <1>4, <1>6, <2>1
    <2> QED
      BY <1>1, <1>6, <2>1, <2>2 DEF Distinct
  <1> QED
    BY <1>3, <1>4, <1>5, <1>6 DEF Distinct

-----------------------------------------------------------------------------
(* The lists of sockets *)

LEMMA ListsInit == Init => ListsInv
  <1> SUFFICES ASSUME Init PROVE ListsInv
    OBVIOUS
  <1>1. lastMessageId = 0 /\ messages = [i \in {} |-> 0]
    BY DEF Init, InitDb, NoRows
  <1>2. Distinct(<<>>) /\ Range(<<>>) = {}
    BY DEF Distinct, Range
  <1>3. LogTypes
    BY <1>1, HubAssumption DEF Init, LogTypes
  <1>4. CastTypes
    BY DEF Init, CastTypes
  <1>5. PageTypes
    BY DEF Init, PageTypes, NoneShown
  <1>6. SocketLists
    BY <1>2 DEF Init, SocketLists
  <1> QED
    BY <1>3, <1>4, <1>5, <1>6 DEF ListsInv

\* A row is saved: ids grow, the table and its history by one row.
LEMMA RowLogged ==
    ASSUME ListsInv, NEW from \in Handlers \cup {"sent"}, lastMessageId < MaxMessages, LogRow(from)
    PROVE  /\ lastMessageId \in Nat /\ lastMessageId' = lastMessageId + 1
           /\ lastMessageId' \in 0..MaxMessages
           /\ DOMAIN messages' = DOMAIN messages \cup {lastMessageId'}
           /\ DOMAIN messages' \subseteq 1..lastMessageId'
           /\ origin' \in Seq(Handlers \cup {"sent"}) /\ Len(origin') = lastMessageId'
           /\ origin'[lastMessageId'] = from
           /\ \A i \in 1..lastMessageId : origin'[i] = origin[i] /\ i \in 1..lastMessageId'
  <1>1. lastMessageId \in Nat /\ lastMessageId' = lastMessageId + 1
    BY HubAssumption DEF LogRow, SaveMessage, NextMessageId, ListsInv, LogTypes
  <1>2. DOMAIN messages' = DOMAIN messages \cup {lastMessageId'}
    BY <1>1 DEF LogRow, SaveMessage, NextMessageId, InsertRow
  <1>3. /\ origin' = Append(origin, from)
        /\ origin \in Seq(Handlers \cup {"sent"}) /\ Len(origin) = lastMessageId
        /\ DOMAIN messages \subseteq 1..lastMessageId
    BY DEF LogRow, ListsInv, LogTypes
  <1> QED
    BY <1>1, <1>2, <1>3, HubAssumption

\* A broadcast that goes on, or ends, with closed sockets as its dead ones.
LEMMA ContinueKeepsLists ==
    ASSUME ListsInv, NEW h \in Handlers, NEW row \in 1..lastMessageId,
           NEW rest \in Seq(Sockets), Distinct(rest),
           NEW gone \in SUBSET Sockets, \A s \in gone : sock[s] = "closed",
           Continue(h, row, rest, gone), UNCHANGED <<storeVars, origin, sock, serving>>
    PROVE  LogTypes' /\ CastTypes' /\ SocketLists'
  <1>1. CASE rest = <<>>
    <2>1. /\ pc' = [pc EXCEPT ![h] = "idle"]
          /\ event' = [event EXCEPT ![h] = None]
          /\ targets' = [targets EXCEPT ![h] = <<>>]
          /\ dead' = [dead EXCEPT ![h] = {}]
          /\ announced' = announced \cup {row}
          /\ subscribers' = Without(subscribers, gone)
      BY <1>1 DEF Continue
    <2>2. /\ subscribers' \in Seq(Sockets)
          /\ Range(subscribers') = Range(subscribers) \ gone
          /\ Distinct(subscribers) => Distinct(subscribers')
      BY <2>1, RangeOfWithout DEF ListsInv, SocketLists
    <2>3. LogTypes'
      BY <2>1 DEF storeVars, ListsInv, LogTypes
    <2>4. CastTypes'
      BY <2>1 DEF storeVars, ListsInv, CastTypes
    <2>5. \A k \in Handlers : Distinct(targets'[k])
      BY <2>1 DEF ListsInv, SocketLists, CastTypes, Distinct
    <2>6. SocketLists'
      BY <2>1, <2>2, <2>5 DEF ListsInv, SocketLists, CastTypes
    <2> QED
      BY <2>3, <2>4, <2>6
  <1>2. CASE rest # <<>>
    <2>1. /\ pc' = [pc EXCEPT ![h] = "cast"]
          /\ event' = [event EXCEPT ![h] = row]
          /\ targets' = [targets EXCEPT ![h] = rest]
          /\ dead' = [dead EXCEPT ![h] = gone]
          /\ UNCHANGED <<subscribers, announced>>
      BY <1>2 DEF Continue
    <2>2. LogTypes'
      BY <2>1 DEF storeVars, ListsInv, LogTypes
    <2>3. CastTypes'
      BY <1>2, <2>1 DEF storeVars, ListsInv, CastTypes, LogTypes
    <2>4. \A k \in Handlers : Distinct(targets'[k])
      BY <2>1 DEF ListsInv, SocketLists, CastTypes
    <2>5. SocketLists'
      BY <2>1, <2>4 DEF ListsInv, SocketLists, CastTypes
    <2> QED
      BY <2>2, <2>3, <2>5
  <1> QED
    BY <1>1, <1>2

\* What a handler does keeps the lists, whatever it has found.
LEMMA HandlerKeepsLists ==
    ASSUME ListsInv, NEW h \in Handlers,
           Save(h) \/ Announce(h) \/ CastStep(h) \/ Cancel(h)
    PROVE  ListsInv'
  <1> USE HubAssumption
  <1>1. CASE Save(h)
    <2>1. /\ LogRow(h) /\ lastMessageId < MaxMessages /\ NextMessageId = lastMessageId + 1
          /\ pc' = [pc EXCEPT ![h] = "saved"]
          /\ event' = [event EXCEPT ![h] = NextMessageId]
          /\ pc[h] = "idle"
          /\ UNCHANGED <<subscribers, targets, dead, announced, pageVars>>
      BY <1>1 DEF Save, NextMessageId
    <2>2. /\ lastMessageId \in Nat /\ lastMessageId' = lastMessageId + 1
          /\ lastMessageId' \in 0..MaxMessages
          /\ DOMAIN messages' \subseteq 1..lastMessageId'
          /\ origin' \in Seq(Handlers \cup {"sent"}) /\ Len(origin') = lastMessageId'
          /\ \A i \in 1..lastMessageId : i \in 1..lastMessageId'
      BY <2>1, RowLogged
    <2>3. LogTypes'
      BY <2>1, <2>2 DEF ListsInv, LogTypes
    <2>4. CastTypes'
      BY <2>1, <2>2 DEF ListsInv, CastTypes
    <2>5. PageTypes'
      BY <2>1, <2>2 DEF ListsInv, PageTypes, pageVars
    <2>6. SocketLists'
      BY <2>1 DEF ListsInv, SocketLists, pageVars
    <2> QED
      BY <2>3, <2>4, <2>5, <2>6 DEF ListsInv
  <1>2. CASE Announce(h)
    <2>1. /\ event[h] \in 1..lastMessageId
          /\ subscribers \in Seq(Sockets) /\ Distinct(subscribers)
          /\ Continue(h, event[h], subscribers, {})
          /\ UNCHANGED <<storeVars, origin, sock, serving>>
      BY <1>2 DEF Announce, ListsInv, CastTypes, SocketLists, pageVars
    <2>2. LogTypes' /\ CastTypes' /\ SocketLists'
      BY <2>1, ContinueKeepsLists
    <2>3. PageTypes'
      BY <1>2 DEF Announce, ListsInv, PageTypes, pageVars, storeVars
    <2> QED
      BY <2>2, <2>3 DEF ListsInv
  <1>3. CASE CastStep(h)
    <2> DEFINE s == Head(targets[h])
    <2>1. pc[h] = "cast"
      BY <1>3 DEF CastStep, SendText, SendToClosed
    <2>2. targets[h] \in Seq(Sockets) /\ targets[h] # <<>> /\ Distinct(targets[h])
      BY <2>1 DEF ListsInv, CastTypes, SocketLists
    <2>3. s \in Sockets /\ Tail(targets[h]) \in Seq(Sockets) /\ Distinct(Tail(targets[h]))
      BY <2>2, RangeOfTail
    <2>4. /\ event[h] \in 1..lastMessageId
          /\ dead[h] \in SUBSET Sockets /\ \A d \in dead[h] : sock[d] = "closed"
      BY <2>1 DEF ListsInv, CastTypes, SocketLists
    <2>5. CASE SendText(h)
      <3>1. /\ Continue(h, event[h], Tail(targets[h]), dead[h])
            /\ UNCHANGED <<storeVars, origin, sock, serving>>
            /\ inbox' = [inbox EXCEPT ![s] = Append(@, event[h])]
            /\ sock[s] = "open"
            /\ UNCHANGED <<load, rows, loadedAt, shown, clearing, wiped, live>>
        BY <2>5 DEF SendText
      <3>2. LogTypes' /\ CastTypes' /\ SocketLists'
        BY <2>3, <2>4, <3>1, ContinueKeepsLists
      <3>3. Append(inbox[s], event[h]) \in Seq(Nat)
        BY <2>3, <2>4 DEF ListsInv, PageTypes
      <3>4. PageTypes'
        BY <2>3, <3>1, <3>3 DEF ListsInv, PageTypes, storeVars
      <3> QED
        BY <3>2, <3>4 DEF ListsInv
    <2>6. CASE SendToClosed(h)
      <3>1. PICK gone \in {dead[h], dead[h] \cup {s}} :
                Continue(h, event[h], Tail(targets[h]), gone)
        BY <2>6 DEF SendToClosed
      <3>2. sock[s] = "closed" /\ UNCHANGED <<storeVars, origin, pageVars>>
        BY <2>6 DEF SendToClosed
      <3>3. gone \in SUBSET Sockets /\ \A d \in gone : sock[d] = "closed"
        BY <2>3, <2>4, <3>1, <3>2
      <3>4. LogTypes' /\ CastTypes' /\ SocketLists'
        BY <2>3, <2>4, <3>1, <3>2, <3>3, ContinueKeepsLists DEF pageVars
      <3>5. PageTypes'
        BY <3>2 DEF ListsInv, PageTypes, pageVars, storeVars
      <3> QED
        BY <3>4, <3>5 DEF ListsInv
    <2> QED
      BY <1>3, <2>5, <2>6 DEF CastStep
  <1>4. CASE Cancel(h)
    <2>1. /\ pc' = [pc EXCEPT ![h] = "idle"]
          /\ event' = [event EXCEPT ![h] = None]
          /\ targets' = [targets EXCEPT ![h] = <<>>]
          /\ dead' = [dead EXCEPT ![h] = {}]
          /\ UNCHANGED <<storeVars, origin, subscribers, announced, pageVars>>
      BY <1>4 DEF Cancel
    <2>2. LogTypes' /\ PageTypes'
      BY <2>1 DEF ListsInv, LogTypes, PageTypes, pageVars, storeVars
    <2>3. CastTypes'
      BY <2>1 DEF ListsInv, CastTypes, storeVars
    <2>4. \A k \in Handlers : Distinct(targets'[k])
      BY <2>1 DEF ListsInv, SocketLists, CastTypes, Distinct
    <2>5. SocketLists'
      BY <2>1, <2>4 DEF ListsInv, SocketLists, CastTypes, pageVars
    <2> QED
      BY <2>2, <2>3, <2>5 DEF ListsInv
  <1> QED
    BY <1>1, <1>2, <1>3, <1>4

\* Rows of api/send and the deletion of the log do not touch the sockets.
LEMMA LogKeepsLists ==
    ASSUME ListsInv, SaveSent \/ DeleteLog \/ \E s \in Sockets : ClearLog(s)
    PROVE  ListsInv'
  <1>1. CASE SaveSent
    <2>1. LogRow("sent") /\ lastMessageId < MaxMessages
          /\ UNCHANGED <<subscribers, pc, event, targets, dead, announced, pageVars>>
      BY <1>1 DEF SaveSent
    <2>2. /\ lastMessageId \in Nat /\ lastMessageId' = lastMessageId + 1
          /\ lastMessageId' \in 0..MaxMessages
          /\ DOMAIN messages' \subseteq 1..lastMessageId'
          /\ origin' \in Seq(Handlers \cup {"sent"}) /\ Len(origin') = lastMessageId'
          /\ \A i \in 1..lastMessageId : i \in 1..lastMessageId'
      BY <2>1, RowLogged
    <2>3. LogTypes' /\ CastTypes' /\ PageTypes' /\ SocketLists'
      BY <2>1, <2>2 DEF ListsInv, LogTypes, CastTypes, PageTypes, SocketLists, pageVars
    <2> QED
      BY <2>3 DEF ListsInv
  <1>2. CASE DeleteLog
    <2>1. /\ DOMAIN messages' = {}
          /\ UNCHANGED <<lastMessageId, subscribers, castVars, pageVars>>
      BY <1>2 DEF DeleteLog, DeleteAllMessages, NoRows
    <2> QED
      BY <2>1 DEF ListsInv, LogTypes, CastTypes, PageTypes, SocketLists, castVars, pageVars
  <1>3. CASE \E s \in Sockets : ClearLog(s)
    <2>1. /\ DOMAIN messages' = {}
          /\ UNCHANGED <<lastMessageId, subscribers, castVars>>
          /\ UNCHANGED <<sock, serving, inbox, load, rows, loadedAt, shown, wiped, live>>
          /\ clearing' \subseteq {s \in Watched : sock[s] # "closed"}
      BY <1>3 DEF ClearLog, DeleteAllMessages, NoRows, ListsInv, PageTypes
    <2> QED
      BY <2>1 DEF ListsInv, LogTypes, CastTypes, PageTypes, SocketLists, castVars
  <1> QED
    BY <1>1, <1>2, <1>3

\* Rows that are appended are shown once more, the others as before.
LEMMA AppendedCounts ==
    ASSUME NEW counts \in [1..MaxMessages -> Nat], NEW ids
    PROVE  /\ Appended(counts, ids) \in [1..MaxMessages -> Nat]
           /\ \A i \in 1..MaxMessages :
                 Appended(counts, ids)[i] = IF i \in ids THEN counts[i] + 1 ELSE counts[i]
  BY DEF Appended

\* What the pages and their ws_events do.
LEMMA PageKeepsLists ==
    ASSUME ListsInv, NEW s \in Sockets,
           Open(s) \/ Query(s) \/ Loaded(s) \/ Deliver(s) \/ Close(s) \/ Unsubscribe(s) \/ EmptyList(s)
    PROVE  ListsInv'
  <1> USE HubAssumption
  <1>0. UNCHANGED <<storeVars, castVars>>
    BY DEF Open, Query, Loaded, Deliver, Close, Unsubscribe, EmptyList
  <1>1. LogTypes' /\ CastTypes' /\ UNCHANGED <<lastMessageId, targets, dead>>
    BY <1>0 DEF ListsInv, LogTypes, CastTypes, castVars, storeVars
  <1>2. CASE Open(s)
    <2>1. PageTypes'
      BY <1>1, <1>2 DEF Open, ListsInv, PageTypes
    <2>2. s \notin serving /\ s \notin Range(subscribers)
      BY <1>2 DEF Open, ListsInv, SocketLists
    <2>3. Range(subscribers') = Range(subscribers) \cup {s} /\ subscribers' \in Seq(Sockets)
      BY <1>2, RangeOfAppend DEF Open, ListsInv, SocketLists
    <2>4. Distinct(subscribers')
      <3>1. /\ subscribers \in Seq(Sockets) /\ Distinct(subscribers)
            /\ subscribers' = Append(subscribers, s)
        BY <1>2 DEF Open, ListsInv, SocketLists
      <3>2. /\ DOMAIN subscribers' = 1..Len(subscribers) + 1 /\ Len(subscribers) \in Nat
            /\ DOMAIN subscribers = 1..Len(subscribers)
            /\ subscribers'[Len(subscribers) + 1] = s
            /\ \A i \in DOMAIN subscribers : subscribers'[i] = subscribers[i]
        BY <3>1
      <3>3. \A i \in DOMAIN subscribers' :
               (i \in DOMAIN subscribers /\ subscribers'[i] # s) \/ i = Len(subscribers) + 1
        BY <2>2, <3>2 DEF Range
      <3> QED
        BY <3>1, <3>2, <3>3 DEF Distinct
    <2>5. SocketLists'
      BY <1>1, <1>2, <2>3, <2>4 DEF Open, ListsInv, SocketLists, CastTypes, PageTypes
    <2> QED
      BY <1>1, <2>1, <2>5 DEF ListsInv
  <1>3. CASE Query(s)
    <2>1. GetMessages(0, "any", PageRows) \subseteq 1..lastMessageId
      BY DEF GetMessages, Newer, ListsInv, LogTypes
    <2>4. /\ rows' = [rows EXCEPT ![s] = GetMessages(0, "any", PageRows)]
          /\ loadedAt' = [loadedAt EXCEPT ![s] = lastMessageId]
          /\ load' = [load EXCEPT ![s] = "answered"] /\ load[s] = "asked"
          /\ UNCHANGED <<sock, serving, inbox, shown, clearing, wiped, live>>
      BY <1>3 DEF Query
    <2>5. lastMessageId \in Nat /\ GetMessages(0, "any", PageRows) \subseteq Nat
      BY <2>1 DEF ListsInv, LogTypes
    <2> DEFINE page == GetMessages(0, "any", PageRows)
    <2>6. /\ page \subseteq 1..lastMessageId /\ page \in SUBSET Nat
          /\ rows' = [rows EXCEPT ![s] = page]
      BY <2>1, <2>4, <2>5
    <2> HIDE DEF page
    <2>2. PageTypes'
      BY <1>1, <2>4, <2>5, <2>6 DEF ListsInv, PageTypes
    <2>3. SocketLists'
      BY <1>1, <1>3 DEF Query, ListsInv, SocketLists
    <2> QED
      BY <1>1, <2>2, <2>3 DEF ListsInv
  <1>4. CASE Loaded(s)
    <2>4. shown[s] \in [1..MaxMessages -> Nat]
      BY DEF ListsInv, PageTypes
    <2>1. Appended(shown[s], rows[s]) \in [1..MaxMessages -> Nat]
      BY <2>4, AppendedCounts
    <2>3. PageTypes'
      BY <1>1, <1>4, <2>1 DEF Loaded, ListsInv, PageTypes
    <2>2. SocketLists'
      BY <1>1, <1>4 DEF Loaded, ListsInv, SocketLists
    <2> QED
      BY <1>1, <2>2, <2>3 DEF ListsInv
  <1>5. CASE Deliver(s)
    <2>1. inbox[s] \in Seq(Nat) /\ inbox[s] # <<>> /\ live[s] \in Seq(Nat)
      BY <1>5 DEF Deliver, ListsInv, PageTypes
    <2>2. Head(inbox[s]) \in Nat /\ Tail(inbox[s]) \in Seq(Nat)
          /\ Append(live[s], Head(inbox[s])) \in Seq(Nat)
      BY <2>1
    <2>6. shown[s] \in [1..MaxMessages -> Nat]
      BY DEF ListsInv, PageTypes
    <2>5. Appended(shown[s], {Head(inbox[s])}) \in [1..MaxMessages -> Nat]
      BY <2>6, AppendedCounts
    <2>3. PageTypes'
      BY <1>1, <1>5, <2>1, <2>2, <2>5 DEF Deliver, ListsInv, PageTypes
    <2>4. SocketLists'
      BY <1>1, <1>5 DEF Deliver, ListsInv, SocketLists
    <2> QED
      BY <1>1, <2>3, <2>4 DEF ListsInv
  <1>6. CASE Close(s)
    <2>1. PageTypes'
      BY <1>1, <1>6 DEF Close, ListsInv, PageTypes, NoneShown
    <2>2. SocketLists'
      BY <1>1, <1>6 DEF Close, ListsInv, SocketLists, PageTypes, CastTypes
    <2> QED
      BY <1>1, <2>1, <2>2 DEF ListsInv
  <1>7. CASE Unsubscribe(s)
    <2>1. PageTypes'
      BY <1>1, <1>7 DEF Unsubscribe, ListsInv, PageTypes
    <2>2. /\ subscribers' \in Seq(Sockets)
          /\ Range(subscribers') = Range(subscribers) \ {s}
          /\ Distinct(subscribers')
      BY <1>7, RangeOfWithout DEF Unsubscribe, ListsInv, SocketLists
    <2>3. SocketLists'
      BY <1>1, <1>7, <2>2 DEF Unsubscribe, ListsInv, SocketLists
    <2> QED
      BY <1>1, <2>1, <2>3 DEF ListsInv
  <1>8. CASE EmptyList(s)
    <2>1. RowsShown(s) \subseteq Nat
      BY DEF RowsShown
    <2>2. PageTypes'
      BY <1>1, <1>8, <2>1 DEF EmptyList, ListsInv, PageTypes, NoneShown
    <2>3. SocketLists'
      BY <1>1, <1>8 DEF EmptyList, ListsInv, SocketLists
    <2> QED
      BY <1>1, <2>2, <2>3 DEF ListsInv
  <1> QED
    BY <1>2, <1>3, <1>4, <1>5, <1>6, <1>7, <1>8

LEMMA ListsStep == ListsInv /\ [Next]_hubVars => ListsInv'
  <1> SUFFICES ASSUME ListsInv, [Next]_hubVars PROVE ListsInv'
    OBVIOUS
  <1>1. CASE UNCHANGED hubVars
    BY <1>1 DEF hubVars, storeVars, castVars, pageVars, ListsInv, LogTypes, CastTypes,
                PageTypes, SocketLists
  <1>2. CASE Next
    BY <1>2, HandlerKeepsLists, LogKeepsLists, PageKeepsLists DEF Next
  <1> QED
    BY <1>1, <1>2

LEMMA ListsInductive == Spec => []ListsInv
  BY ListsInit, ListsStep, PTL DEF Spec

\* TypeOK holds for every number of handlers, sockets and messages.
THEOREM HubTypes == Spec => []TypeOK
  <1>1. ListsInv => TypeOK
    BY HubAssumption DEF ListsInv, LogTypes, CastTypes, PageTypes, SocketLists, TypeOK
  <1> QED
    BY <1>1, ListsInductive, PTL

\* NoneLeftBehind: whatever broadcasts and pages do meanwhile, the list has no socket
\* whose ws_events is over, and none twice.
THEOREM NoneStaysSubscribed == Spec => []NoneLeftBehind
  <1>1. ListsInv => NoneLeftBehind
    BY DEF ListsInv, SocketLists, NoneLeftBehind, Distinct
  <1> QED
    BY <1>1, ListsInductive, PTL

-----------------------------------------------------------------------------
(* The order of what a socket is sent *)

\* After a step of a broadcast or its end, the handler has fewer sockets to pass.
LEMMA ContinueEffect ==
    ASSUME CastTypes, NEW h \in Handlers, NEW row, NEW rest, NEW gone,
           Continue(h, row, rest, gone)
    PROVE  /\ \A k \in Handlers \ {h} :
                 pc'[k] = pc[k] /\ event'[k] = event[k] /\ targets'[k] = targets[k]
           /\ rest = <<>> => pc'[h] = "idle" /\ announced' = announced \cup {row}
           /\ rest # <<>> => /\ pc'[h] = "cast" /\ event'[h] = row /\ targets'[h] = rest
                             /\ announced' = announced
  BY DEF Continue, CastTypes

LEMMA SendExtends ==
    ASSUME NEW a \in Seq(Nat), NEW b \in Seq(Nat), NEW id \in Nat
    PROVE  a \o b \in Seq(Nat) /\ a \o Append(b, id) = Append(a \o b, id)
  <1>1. a \o b \in Seq(Nat) /\ <<id>> \in Seq(Nat)
    OBVIOUS
  <1>2. Append(b, id) = b \o <<id>> /\ Append(a \o b, id) = (a \o b) \o <<id>>
    BY <1>1, AppendIsConcat
  <1>3. a \o (b \o <<id>>) = (a \o b) \o <<id>>
    BY <1>1, ConcatAssociative
  <1> QED
    BY <1>1, <1>2, <1>3

LEMMA DeliveryKeepsSent ==
    ASSUME NEW a \in Seq(Nat), NEW b \in Seq(Nat), b # <<>>
    PROVE  Append(a, Head(b)) \o Tail(b) = a \o b
  <1>1. Head(b) \in Nat /\ Tail(b) \in Seq(Nat) /\ <<Head(b)>> \in Seq(Nat)
    OBVIOUS
  <1>2. b = <<Head(b)>> \o Tail(b)
    OBVIOUS
  <1>3. Append(a, Head(b)) = a \o <<Head(b)>>
    BY <1>1, AppendIsConcat
  <1>4. (a \o <<Head(b)>>) \o Tail(b) = a \o (<<Head(b)>> \o Tail(b))
    BY <1>1, ConcatAssociative
  <1> QED
    BY <1>2, <1>3, <1>4

\* Nothing else than a send, a delivery and a closing touches what a page is sent.
LEMMA SentByPage ==
    ASSUME ListsInv, NEW s \in Sockets,
           Open(s) \/ Query(s) \/ Loaded(s) \/ Deliver(s) \/ Close(s) \/ Unsubscribe(s)
           \/ ClearLog(s) \/ EmptyList(s)
    PROVE  \A t \in Sockets : Sent(t)' = Sent(t) \/ Sent(t)' = <<>>
  <1>1. CASE Deliver(s)
    <2>1. /\ inbox[s] \in Seq(Nat) /\ inbox[s] # <<>> /\ live[s] \in Seq(Nat)
          /\ inbox' = [inbox EXCEPT ![s] = Tail(@)]
          /\ live' = [live EXCEPT ![s] = Append(@, Head(inbox[s]))]
      BY <1>1 DEF Deliver, ListsInv, PageTypes
    <2>2. Append(live[s], Head(inbox[s])) \o Tail(inbox[s]) = live[s] \o inbox[s]
      BY <2>1, DeliveryKeepsSent
    <2>3. ASSUME NEW t \in Sockets PROVE Sent(t)' = Sent(t)
      <3>1. CASE t = s
        BY <2>1, <2>2, <3>1 DEF Sent, ListsInv, PageTypes
      <3>2. CASE t # s
        BY <2>1, <3>2 DEF Sent, ListsInv, PageTypes
      <3> QED
        BY <3>1, <3>2
    <2> QED
      BY <2>3
  <1>2. CASE Close(s)
    <2>1. /\ inbox' = [inbox EXCEPT ![s] = <<>>] /\ live' = [live EXCEPT ![s] = <<>>]
          /\ inbox \in [Sockets -> Seq(Nat)] /\ live \in [Sockets -> Seq(Nat)]
      BY <1>2 DEF Close, ListsInv, PageTypes
    <2>2. <<>> \o <<>> = <<>>
      OBVIOUS
    <2> QED
      BY <2>1, <2>2 DEF Sent
  <1>3. CASE UNCHANGED <<inbox, live>>
    BY <1>3 DEF Sent
  <1> QED
    BY <1>1, <1>2, <1>3 DEF Open, Query, Loaded, Unsubscribe, ClearLog, EmptyList

\* A step that sends nothing, and in which no handler gets another row or more
\* sockets to pass, keeps the order.
LEMMA OrderKept ==
    ASSUME ListsInv, OrderInv,
           \A t \in Sockets : Sent(t)' = Sent(t) \/ Sent(t)' = <<>>,
           lastMessageId' = lastMessageId, origin' = origin,
           \A k \in Handlers : pc'[k] # "idle" =>
               /\ pc[k] # "idle" /\ event'[k] = event[k]
               /\ pc'[k] = "saved" => pc[k] = "saved"
               /\ pc[k] = "saved" \/ Range(targets'[k]) \subseteq Range(targets[k])
    PROVE  OrderInv'
  <1>1. \A t \in Sockets : \A i \in DOMAIN Sent(t)' :
           i \in DOMAIN Sent(t) /\ Sent(t)'[i] = Sent(t)[i]
    OBVIOUS
  <1>2. LiveOrdered'
    <2> SUFFICES ASSUME NEW t \in Sockets, NEW i \in DOMAIN Sent(t)', NEW j \in DOMAIN Sent(t)',
                        i < j, origin'[Sent(t)'[i]] = origin'[Sent(t)'[j]]
                 PROVE  Sent(t)'[i] < Sent(t)'[j]
      BY DEF LiveOrdered, Sent
    <2>1. /\ i \in DOMAIN Sent(t) /\ j \in DOMAIN Sent(t)
          /\ Sent(t)'[i] = Sent(t)[i] /\ Sent(t)'[j] = Sent(t)[j]
      BY <1>1
    <2> QED
      BY <2>1 DEF OrderInv, LiveOrdered, Sent
  <1>3. \A t \in Sockets : \A i \in DOMAIN Sent(t)' : Sent(t)'[i] \in 1..lastMessageId'
    BY <1>1 DEF OrderInv
  <1>4. \A k \in Handlers : pc'[k] # "idle" => origin'[event'[k]] = k
    BY DEF OrderInv
  <1>5. ASSUME NEW k \in Handlers, NEW t \in Sockets, NEW i \in DOMAIN Sent(t)',
               pc'[k] # "idle", origin'[Sent(t)'[i]] = k
        PROVE  /\ Sent(t)'[i] <= event'[k]
               /\ pc'[k] = "saved" \/ t \in Range(targets'[k]) => Sent(t)'[i] < event'[k]
    <2>1. i \in DOMAIN Sent(t) /\ Sent(t)'[i] = Sent(t)[i] /\ origin[Sent(t)[i]] = k
      BY <1>1, <1>5
    <2>2. /\ pc[k] # "idle" /\ event'[k] = event[k]
          /\ pc'[k] = "saved" \/ t \in Range(targets'[k]) =>
                pc[k] = "saved" \/ t \in Range(targets[k])
      BY <1>5
    <2> QED
      BY <2>1, <2>2 DEF OrderInv
  <1> QED
    BY <1>2, <1>3, <1>4, <1>5 DEF OrderInv

\* A new row is above everything that was ever sent.
LEMMA OrderWithNewRow ==
    ASSUME ListsInv, OrderInv, NEW from \in Handlers \cup {"sent"},
           lastMessageId < MaxMessages, LogRow(from), UNCHANGED pageVars, UNCHANGED targets,
           \A k \in Handlers :
               \/ pc'[k] = pc[k] /\ event'[k] = event[k]
               \/ k = from /\ event'[k] = lastMessageId + 1 /\ pc'[k] = "saved"
    PROVE  OrderInv'
  <1>1. /\ lastMessageId \in Nat /\ lastMessageId' = lastMessageId + 1
        /\ origin'[lastMessageId'] = from
        /\ \A i \in 1..lastMessageId : origin'[i] = origin[i] /\ i \in 1..lastMessageId'
    BY RowLogged
  <1>2. \A t \in Sockets : Sent(t)' = Sent(t)
    BY DEF Sent, pageVars
  <1>3. \A t \in Sockets : \A i \in DOMAIN Sent(t) :
           /\ Sent(t)[i] \in 1..lastMessageId /\ origin'[Sent(t)[i]] = origin[Sent(t)[i]]
           /\ Sent(t)[i] < lastMessageId + 1
    BY <1>1 DEF OrderInv
  <1>4. LiveOrdered'
    <2> SUFFICES ASSUME NEW t \in Sockets, NEW i \in DOMAIN Sent(t)', NEW j \in DOMAIN Sent(t)',
                        i < j, origin'[Sent(t)'[i]] = origin'[Sent(t)'[j]]
                 PROVE  Sent(t)'[i] < Sent(t)'[j]
      BY DEF LiveOrdered, Sent
    <2>1. /\ i \in DOMAIN Sent(t) /\ j \in DOMAIN Sent(t)
          /\ Sent(t)'[i] = Sent(t)[i] /\ Sent(t)'[j] = Sent(t)[j]
          /\ origin[Sent(t)[i]] = origin[Sent(t)[j]]
      BY <1>2, <1>3
    <2> QED
      BY <2>1 DEF OrderInv, LiveOrdered, Sent
  <1>5. \A t \in Sockets : \A i \in DOMAIN Sent(t)' : Sent(t)'[i] \in 1..lastMessageId'
    BY <1>1, <1>2, <1>3
  <1>6. \A k \in Handlers : pc'[k] # "idle" => origin'[event'[k]] = k
    BY <1>1 DEF OrderInv, ListsInv, CastTypes
  <1>7. ASSUME NEW k \in Handlers, NEW t \in Sockets, NEW i \in DOMAIN Sent(t)',
               pc'[k] # "idle", origin'[Sent(t)'[i]] = k
        PROVE  /\ Sent(t)'[i] <= event'[k]
               /\ pc'[k] = "saved" \/ t \in Range(targets'[k]) => Sent(t)'[i] < event'[k]
    <2>1. /\ Sent(t)' = Sent(t) /\ i \in DOMAIN Sent(t) /\ origin[Sent(t)[i]] = k
          /\ Sent(t)[i] \in 1..lastMessageId
      BY <1>2, <1>3, <1>7
    <2>2. CASE pc'[k] = pc[k] /\ event'[k] = event[k]
      BY <1>7, <2>1, <2>2 DEF OrderInv
    <2>3. CASE event'[k] = lastMessageId + 1
      BY <1>1, <2>1, <2>3
    <2> QED
      BY <2>2, <2>3
  <1> QED
    BY <1>4, <1>5, <1>6, <1>7 DEF OrderInv

\* A socket gets the row of a handler whose broadcast had yet to pass it.
LEMMA OrderWithSend ==
    ASSUME ListsInv, OrderInv, NEW h \in Handlers, SendText(h)
    PROVE  OrderInv'
  <1>1. /\ pc[h] = "cast" /\ targets[h] \in Seq(Sockets) /\ targets[h] # <<>>
        /\ Distinct(targets[h]) /\ event[h] \in 1..lastMessageId /\ event[h] \in Nat
    BY DEF SendText, ListsInv, CastTypes, SocketLists
  <1>2. PICK s \in Sockets :
           /\ s = Head(targets[h]) /\ s \in Range(targets[h])
           /\ s \notin Range(Tail(targets[h])) /\ Range(Tail(targets[h])) \subseteq Range(targets[h])
    BY <1>1, RangeOfTail
  <1>3. /\ inbox' = [inbox EXCEPT ![s] = Append(@, event[h])]
        /\ Continue(h, event[h], Tail(targets[h]), dead[h])
        /\ UNCHANGED <<lastMessageId, origin, live>>
        /\ inbox \in [Sockets -> Seq(Nat)] /\ live \in [Sockets -> Seq(Nat)]
    BY <1>2 DEF SendText, storeVars, ListsInv, PageTypes
  <1>4. \A t \in Sockets \ {s} : Sent(t)' = Sent(t)
    BY <1>3 DEF Sent
  <1> DEFINE n == Len(Sent(s))
  <1>5. /\ n \in Nat /\ DOMAIN Sent(s) = 1..n /\ DOMAIN Sent(s)' = 1..n + 1
        /\ \A i \in 1..n : Sent(s)'[i] = Sent(s)[i]
        /\ Sent(s)'[n + 1] = event[h]
    <2>1. live[s] \in Seq(Nat) /\ inbox[s] \in Seq(Nat)
          /\ Sent(s) = live[s] \o inbox[s] /\ Sent(s)' = live[s] \o Append(inbox[s], event[h])
      BY <1>2, <1>3 DEF Sent
    <2> DEFINE before == Sent(s)
    <2>2. before \in Seq(Nat) /\ Sent(s)' = Append(before, event[h])
      <3>1. /\ live[s] \o inbox[s] \in Seq(Nat)
            /\ live[s] \o Append(inbox[s], event[h]) = Append(live[s] \o inbox[s], event[h])
        <4>1. live[s] \in Seq(Nat) /\ inbox[s] \in Seq(Nat) /\ event[h] \in Nat
          BY <1>1, <2>1
        <4> QED
          BY <4>1, SendExtends
      <3> QED
        BY <2>1, <3>1
    <2> HIDE DEF before
    <2>3. /\ Len(before) \in Nat /\ DOMAIN before = 1..Len(before)
          /\ DOMAIN Append(before, event[h]) = 1..Len(before) + 1
          /\ \A i \in 1..Len(before) : Append(before, event[h])[i] = before[i]
          /\ Append(before, event[h])[Len(before) + 1] = event[h]
      BY <1>1, <2>2
    <2> QED
      BY <2>2, <2>3 DEF before
  <1> HIDE DEF n
  <1>6. \A k \in Handlers : pc'[k] # "idle" =>
           /\ pc[k] # "idle" /\ event'[k] = event[k]
           /\ pc'[k] = "saved" => pc[k] = "saved" /\ k # h
           /\ k # h => targets'[k] = targets[k]
           /\ k = h => targets'[k] = Tail(targets[h])
    BY <1>1, <1>3, ContinueEffect DEF ListsInv
  <1>7. ASSUME NEW i \in 1..n, origin[Sent(s)[i]] = h
        PROVE  Sent(s)[i] < event[h]
    BY <1>1, <1>2, <1>5, <1>7 DEF OrderInv
  <1>8. origin[event[h]] = h
    BY <1>1 DEF OrderInv
  <1>9. LiveOrdered'
    <2> SUFFICES ASSUME NEW t \in Sockets, NEW i \in DOMAIN Sent(t)', NEW j \in DOMAIN Sent(t)',
                        i < j, origin'[Sent(t)'[i]] = origin'[Sent(t)'[j]]
                 PROVE  Sent(t)'[i] < Sent(t)'[j]
      BY DEF LiveOrdered, Sent
    <2>1. CASE t # s \/ j # n + 1
      <3>1. /\ i \in DOMAIN Sent(t) /\ j \in DOMAIN Sent(t)
            /\ Sent(t)'[i] = Sent(t)[i] /\ Sent(t)'[j] = Sent(t)[j]
            /\ origin[Sent(t)[i]] = origin[Sent(t)[j]]
        <4>1. CASE t # s
          BY <1>3, <1>4, <4>1
        <4>2. CASE t = s /\ j # n + 1
          <5>1. i \in 1..n + 1 /\ j \in 1..n + 1
            BY <1>5, <4>2
          <5>2. i \in 1..n /\ j \in 1..n
            BY <1>5, <4>2, <5>1
          <5> QED
            BY <1>3, <1>5, <4>2, <5>2
        <4> QED
          BY <2>1, <4>1, <4>2
      <3> QED
        BY <3>1 DEF OrderInv, LiveOrdered, Sent
    <2>2. CASE t = s /\ j = n + 1
      <3>1. i \in 1..n /\ Sent(t)'[i] = Sent(s)[i] /\ Sent(t)'[j] = event[h]
        BY <1>5, <2>2
      <3> QED
        BY <1>3, <1>7, <1>8, <3>1
    <2> QED
      BY <2>1, <2>2
  <1>10. \A t \in Sockets : \A i \in DOMAIN Sent(t)' : Sent(t)'[i] \in 1..lastMessageId'
    <2> SUFFICES ASSUME NEW t \in Sockets, NEW i \in DOMAIN Sent(t)'
                 PROVE  Sent(t)'[i] \in 1..lastMessageId
      BY <1>3
    <2>1. CASE t # s
      BY <1>4, <2>1 DEF OrderInv
    <2>2. CASE t = s
      <3>1. i \in 1..n \/ i = n + 1
        BY <1>5, <2>2
      <3> QED
        BY <1>1, <1>2, <1>5, <2>2, <3>1 DEF OrderInv
    <2> QED
      BY <2>1, <2>2
  <1>11. \A k \in Handlers : pc'[k] # "idle" => origin'[event'[k]] = k
    BY <1>3, <1>6 DEF OrderInv
  <1>12. ASSUME NEW k \in Handlers, NEW t \in Sockets, NEW i \in DOMAIN Sent(t)',
                pc'[k] # "idle", origin'[Sent(t)'[i]] = k
         PROVE  /\ Sent(t)'[i] <= event'[k]
                /\ pc'[k] = "saved" \/ t \in Range(targets'[k]) => Sent(t)'[i] < event'[k]
    <2>1. CASE t = s /\ i = n + 1
      <3>1. Sent(t)'[i] = event[h] /\ k = h
        BY <1>3, <1>5, <1>8, <1>12, <2>1
      <3> QED
        BY <1>1, <1>2, <1>6, <1>12, <2>1, <3>1
    <2>2. CASE ~(t = s /\ i = n + 1)
      <3>1. i \in DOMAIN Sent(t) /\ Sent(t)'[i] = Sent(t)[i] /\ origin[Sent(t)[i]] = k
        <4>1. CASE t # s
          BY <1>3, <1>4, <1>12, <4>1
        <4>2. CASE t = s
          <5>1. i \in 1..n
            BY <1>5, <2>2, <4>2
          <5> QED
            BY <1>3, <1>5, <1>12, <4>2, <5>1
        <4> QED
          BY <4>1, <4>2
      <3>2. /\ pc[k] # "idle" /\ event'[k] = event[k]
            /\ pc'[k] = "saved" \/ t \in Range(targets'[k]) =>
                  pc[k] = "saved" \/ t \in Range(targets[k])
        BY <1>2, <1>6, <1>12
      <3> QED
        BY <3>1, <3>2 DEF OrderInv
    <2> QED
      BY <2>1, <2>2
  <1> QED
    BY <1>9, <1>10, <1>11, <1>12 DEF OrderInv

LEMMA OrderStep == ListsInv /\ OrderInv /\ [Next]_hubVars => OrderInv'
  <1> SUFFICES ASSUME ListsInv, OrderInv, [Next]_hubVars PROVE OrderInv'
    OBVIOUS
  <1>1. ASSUME NEW h \in Handlers, Save(h) PROVE OrderInv'
    <2>1. /\ LogRow(h) /\ lastMessageId < MaxMessages /\ UNCHANGED <<targets, pageVars>>
          /\ pc' = [pc EXCEPT ![h] = "saved"]
          /\ event' = [event EXCEPT ![h] = lastMessageId + 1]
      BY <1>1 DEF Save, NextMessageId
    <2>2. \A k \in Handlers :
             \/ pc'[k] = pc[k] /\ event'[k] = event[k]
             \/ k = h /\ event'[k] = lastMessageId + 1 /\ pc'[k] = "saved"
      BY <2>1 DEF ListsInv, CastTypes
    <2> QED
      BY <2>1, <2>2, OrderWithNewRow
  <1>2. CASE SaveSent
    <2>1. LogRow("sent") /\ lastMessageId < MaxMessages /\ UNCHANGED <<pc, event, targets, pageVars>>
      BY <1>2 DEF SaveSent
    <2> QED
      BY <2>1, OrderWithNewRow
  <1>3. CASE DeleteLog \/ \E s \in Sockets : ClearLog(s)
    <2>1. UNCHANGED <<lastMessageId, castVars, inbox, live>>
      BY <1>3 DEF DeleteLog, ClearLog, DeleteAllMessages, pageVars
    <2>2. \A t \in Sockets : Sent(t)' = Sent(t)
      BY <2>1 DEF Sent
    <2> QED
      BY <2>1, <2>2, OrderKept DEF castVars
  <1>4. ASSUME NEW h \in Handlers, Announce(h) PROVE OrderInv'
    <2>1. /\ pc[h] = "saved" /\ Continue(h, event[h], subscribers, {})
          /\ UNCHANGED <<storeVars, origin, pageVars>>
      BY <1>4 DEF Announce
    <2>2. \A t \in Sockets : Sent(t)' = Sent(t)
      BY <2>1 DEF Sent, pageVars
    <2>3. \A k \in Handlers : pc'[k] # "idle" =>
             /\ pc[k] # "idle" /\ event'[k] = event[k]
             /\ pc'[k] = "saved" => pc[k] = "saved"
             /\ pc[k] = "saved" \/ Range(targets'[k]) \subseteq Range(targets[k])
      BY <2>1, ContinueEffect DEF ListsInv
    <2> QED
      BY <2>1, <2>2, <2>3, OrderKept DEF storeVars
  <1>5. ASSUME NEW h \in Handlers, SendToClosed(h) PROVE OrderInv'
    <2>1. /\ pc[h] = "cast" /\ UNCHANGED <<storeVars, origin, pageVars>>
          /\ targets[h] \in Seq(Sockets) /\ targets[h] # <<>>
      BY <1>5 DEF SendToClosed, ListsInv, CastTypes
    <2>2. PICK gone : Continue(h, event[h], Tail(targets[h]), gone)
      BY <1>5 DEF SendToClosed
    <2>3. \A t \in Sockets : Sent(t)' = Sent(t)
      BY <2>1 DEF Sent, pageVars
    <2>4. \A k \in Handlers : pc'[k] # "idle" =>
             /\ pc[k] # "idle" /\ event'[k] = event[k]
             /\ pc'[k] = "saved" => pc[k] = "saved"
             /\ pc[k] = "saved" \/ Range(targets'[k]) \subseteq Range(targets[k])
      BY <2>1, <2>2, ContinueEffect, RangeOfTail DEF ListsInv
    <2> QED
      BY <2>1, <2>3, <2>4, OrderKept DEF storeVars
  <1>6. ASSUME NEW h \in Handlers, Cancel(h) PROVE OrderInv'
    <2>1. /\ pc' = [pc EXCEPT ![h] = "idle"]
          /\ event' = [event EXCEPT ![h] = None]
          /\ targets' = [targets EXCEPT ![h] = <<>>]
          /\ UNCHANGED <<storeVars, origin, pageVars>>
      BY <1>6 DEF Cancel
    <2>2. \A t \in Sockets : Sent(t)' = Sent(t)
      BY <2>1 DEF Sent, pageVars
    <2>3. \A k \in Handlers : pc'[k] # "idle" =>
             pc'[k] = pc[k] /\ event'[k] = event[k] /\ targets'[k] = targets[k]
      BY <2>1 DEF ListsInv, CastTypes
    <2> QED
      BY <2>1, <2>2, <2>3, OrderKept DEF storeVars
  <1>7. ASSUME NEW s \in Sockets,
               Open(s) \/ Query(s) \/ Loaded(s) \/ Deliver(s) \/ Close(s) \/ Unsubscribe(s)
               \/ EmptyList(s)
        PROVE  OrderInv'
    <2>1. UNCHANGED <<storeVars, castVars>>
      BY <1>7 DEF Open, Query, Loaded, Deliver, Close, Unsubscribe, EmptyList
    <2>2. \A t \in Sockets : Sent(t)' = Sent(t) \/ Sent(t)' = <<>>
      BY <1>7, SentByPage
    <2> QED
      BY <2>1, <2>2, OrderKept DEF storeVars, castVars
  <1>8. CASE UNCHANGED hubVars
    <2>1. UNCHANGED <<storeVars, castVars, pageVars>>
      BY <1>8 DEF hubVars
    <2>2. \A t \in Sockets : Sent(t)' = Sent(t)
      BY <2>1 DEF Sent, pageVars
    <2> QED
      BY <2>1, <2>2, OrderKept DEF storeVars, castVars
  <1>9. CASE \E h \in Handlers : SendText(h)
    BY <1>9, OrderWithSend
  <1> QED
    BY <1>1, <1>2, <1>3, <1>4, <1>5, <1>6, <1>7, <1>8, <1>9 DEF Next, CastStep

LEMMA OrderInductive == Spec => []OrderInv
  <1>1. Init => OrderInv
    <2> SUFFICES ASSUME Init PROVE OrderInv
      OBVIOUS
    <2>1. \A s \in Sockets : live[s] = <<>> /\ inbox[s] = <<>>
      BY DEF Init
    <2>2. \A s \in Sockets : Sent(s) = <<>>
      BY <2>1 DEF Sent
    <2>3. \A h \in Handlers : pc[h] = "idle"
      BY DEF Init
    <2>4. LiveOrdered
      <3>1. DOMAIN (<<>> \o <<>>) = {}
        OBVIOUS
      <3> QED
        BY <2>1, <3>1 DEF LiveOrdered
    <2> QED
      BY <2>2, <2>3, <2>4 DEF OrderInv
  <1> QED
    BY <1>1, OrderStep, ListsInductive, PTL DEF Spec

\* LiveOrdered: the rows of one association reach every page in the order of the log
\* and once, for every number of associations, pages and messages under way.
THEOREM LiveInOrder == Spec => []LiveOrdered
  <1>1. OrderInv => LiveOrdered
    BY DEF OrderInv
  <1> QED
    BY <1>1, OrderInductive, PTL

-----------------------------------------------------------------------------
(* What a page has *)

\* A new row does not bring an older one onto the first page of the log.
LEMMA PageBelow ==
    ASSUME ListsInv, NEW from \in Handlers \cup {"sent"}, lastMessageId < MaxMessages, LogRow(from),
           NEW i \in GetMessages(0, "any", PageRows)', i <= lastMessageId
    PROVE  i \in GetMessages(0, "any", PageRows)
  <1> DEFINE hits == {j \in DOMAIN messages : j > 0}
             older == {j \in hits : j < i}
  <1>1. /\ lastMessageId \in Nat /\ lastMessageId' = lastMessageId + 1
        /\ DOMAIN messages' = DOMAIN messages \cup {lastMessageId'}
        /\ DOMAIN messages \subseteq 1..lastMessageId
    BY RowLogged DEF ListsInv, LogTypes
  <1>2. Newer(0, "any") = hits /\ Newer(0, "any")' = {j \in DOMAIN messages' : j > 0}
    BY DEF Newer
  <1>3. /\ i \in Newer(0, "any")'
        /\ Cardinality({j \in Newer(0, "any")' : j < i}) < PageSize(PageRows)
    BY DEF GetMessages, PageSize
  <1>4. i \in hits
    BY <1>1, <1>2, <1>3
  <1>5. {j \in Newer(0, "any")' : j < i} = older
    BY <1>1, <1>2, <1>4
  <1> QED
    BY <1>2, <1>3, <1>4, <1>5 DEF GetMessages

\* The log stays, or grows by a row, or is emptied: the part of its first page up to
\* a page's load does not grow, and that is what the page has.
LEMMA EarlierRowsStay ==
    ASSUME NEW s \in Sockets, loadedAt[s] \in 0..lastMessageId, EarlierRowsLoaded(s),
           ListsInv, [Next]_hubVars,
           loadedAt'[s] = loadedAt[s], rows[s] \cup Seen(s) \subseteq rows'[s] \cup Seen(s)'
    PROVE  EarlierRowsLoaded(s)'
  <1>1. ASSUME NEW from \in Handlers \cup {"sent"}, lastMessageId < MaxMessages, LogRow(from)
        PROVE  EarlierRowsLoaded(s)'
    <2> SUFFICES ASSUME NEW i \in GetMessages(0, "any", PageRows)', i <= loadedAt'[s]
                 PROVE  i \in rows'[s] \cup Seen(s)'
      BY DEF EarlierRowsLoaded
    <2>1. DOMAIN messages' \subseteq 1..lastMessageId' /\ lastMessageId' \in Nat /\ lastMessageId \in Nat
      BY <1>1, RowLogged
    <2>2. i \in Nat
      BY <2>1 DEF GetMessages, Newer
    <2>3. i <= lastMessageId
      BY <2>1, <2>2
    <2> QED
      BY <1>1, <2>3, PageBelow DEF EarlierRowsLoaded
  <1>2. CASE DeleteLog \/ \E t \in Sockets : ClearLog(t)
    <2>1. DOMAIN messages' = {}
      BY <1>2 DEF DeleteLog, ClearLog, DeleteAllMessages, NoRows
    <2>2. GetMessages(0, "any", PageRows)' = {}
      BY <2>1 DEF GetMessages, Newer
    <2> QED
      BY <2>2 DEF EarlierRowsLoaded
  <1>3. CASE UNCHANGED messages
    BY <1>3 DEF EarlierRowsLoaded, GetMessages, Newer, PageSize
  <1>4. \/ UNCHANGED messages \/ DeleteLog \/ \E t \in Sockets : ClearLog(t)
        \/ \E from \in Handlers \cup {"sent"} : lastMessageId < MaxMessages /\ LogRow(from)
    BY DEF Next, Save, Announce, CastStep, SendText, SendToClosed, Cancel, SaveSent,
           Open, Query, Loaded, Deliver, Close, Unsubscribe, EmptyList, hubVars, storeVars
  <1> QED
    BY <1>1, <1>2, <1>3, <1>4

\* Where the second of two sequences begins in both together.
LEMMA SecondBegins ==
    ASSUME NEW a \in Seq(Nat), NEW b \in Seq(Nat), b # <<>>
    PROVE  /\ Len(a) + 1 \in DOMAIN (a \o b) /\ (a \o b)[Len(a) + 1] = Head(b)
           /\ \A i \in DOMAIN a :
                 i \in DOMAIN (a \o b) /\ i < Len(a) + 1 /\ (a \o b)[i] = a[i]
  <1>1. /\ Len(a) \in Nat /\ Len(b) \in Nat /\ Len(b) > 0 /\ Head(b) = b[1]
        /\ DOMAIN a = 1..Len(a)
    OBVIOUS
  <1>2. /\ a \o b \in Seq(Nat) /\ Len(a \o b) = Len(a) + Len(b)
        /\ \A i \in 1..Len(a) + Len(b) :
              (a \o b)[i] = IF i <= Len(a) THEN a[i] ELSE b[i - Len(a)]
    BY ConcatProperties
  <1>3. DOMAIN (a \o b) = 1..Len(a) + Len(b)
    BY <1>2, LenProperties
  <1> QED
    BY <1>1, <1>2, <1>3

\* What is under way to a page is in the log's ids and has not come to it yet.
LEMMA HeadIsNew ==
    ASSUME ListsInv, OrderInv, NEW s \in Sockets, inbox[s] # <<>>
    PROVE  /\ Head(inbox[s]) \in 1..MaxMessages
           /\ Head(inbox[s]) \notin Range(live[s])
  <1> DEFINE first == Len(live[s]) + 1
  <1>1. inbox[s] \in Seq(Nat) /\ live[s] \in Seq(Nat)
    BY DEF ListsInv, PageTypes
  <1>2. /\ first \in DOMAIN Sent(s) /\ Sent(s)[first] = Head(inbox[s])
        /\ \A i \in DOMAIN live[s] : i \in DOMAIN Sent(s) /\ i < first /\ Sent(s)[i] = live[s][i]
    BY <1>1, SecondBegins DEF Sent
  <1> HIDE DEF first
  <1>3. \A i, j \in DOMAIN Sent(s) :
           i < j /\ origin[Sent(s)[i]] = origin[Sent(s)[j]] => Sent(s)[i] < Sent(s)[j]
    BY DEF OrderInv, LiveOrdered, Sent
  <1>4. Head(inbox[s]) \in 1..lastMessageId
    BY <1>2 DEF OrderInv
  <1>5. Head(inbox[s]) \in 1..MaxMessages
    BY <1>4, HubAssumption DEF ListsInv, LogTypes
  <1>6. ASSUME NEW i \in DOMAIN live[s], live[s][i] = Head(inbox[s]) PROVE FALSE
    <2>1. Sent(s)[i] = Sent(s)[first] /\ Sent(s)[i] < Sent(s)[first]
      BY <1>2, <1>3, <1>6
    <2> QED
      BY <1>2, <1>4, <2>1
  <1> QED
    BY <1>5, <1>6 DEF Range

\* What a page shows after rows were appended.
LEMMA AppendedSeen ==
    ASSUME ListsInv, NEW s \in Sockets, NEW ids \in SUBSET (1..MaxMessages),
           shown' = [shown EXCEPT ![s] = Appended(@, ids)]
    PROVE  RowsShown(s)' = RowsShown(s) \cup ids
  <1>1. shown[s] \in [1..MaxMessages -> Nat] /\ shown'[s] = Appended(shown[s], ids)
    BY DEF ListsInv, PageTypes
  <1>2. \A i \in 1..MaxMessages :
           shown'[s][i] = IF i \in ids THEN shown[s][i] + 1 ELSE shown[s][i]
    BY <1>1, AppendedCounts
  <1>3. \A i \in 1..MaxMessages : shown[s][i] \in Nat
    BY <1>1
  <1>4. \A i \in 1..MaxMessages : shown'[s][i] > 0 <=> shown[s][i] > 0 \/ i \in ids
    BY <1>2, <1>3
  <1> QED
    BY <1>4 DEF RowsShown

Loads(s) == sock[s] = "open" /\ load[s] \in {"answered", "done"}

\* A step that adds no broadcast a page would miss.
LEMMA LaterRowsStay ==
    ASSUME NEW s \in Sockets, LaterRowsGot(s), loadedAt'[s] = loadedAt[s],
           Got(s) \subseteq Got(s)', \A i \in announced' \ announced : i > loadedAt[s] => i \in Got(s)',
           \A k \in Handlers : pc'[k] = "cast" /\ s \notin Range(targets'[k]) =>
               \/ pc[k] = "cast" /\ event'[k] = event[k] /\ s \notin Range(targets[k])
               \/ event'[k] > loadedAt[s] => event'[k] \in Got(s)'
    PROVE  LaterRowsGot(s)'
  BY DEF LaterRowsGot

\* A step of a broadcast: a page the handler has passed has the row, if it is newer
\* than the page's load.
LEMMA LaterRowsWithCast ==
    ASSUME ListsInv, NEW s \in Sockets, LaterRowsGot(s), loadedAt'[s] = loadedAt[s],
           Got(s) \subseteq Got(s)', NEW h \in Handlers, NEW rest, NEW gone,
           Continue(h, event[h], rest, gone),
           s \notin Range(rest) => (event[h] > loadedAt[s] => event[h] \in Got(s)')
    PROVE  LaterRowsGot(s)'
  <1>1. /\ \A k \in Handlers \ {h} :
              pc'[k] = pc[k] /\ event'[k] = event[k] /\ targets'[k] = targets[k]
        /\ rest = <<>> => pc'[h] = "idle" /\ announced' = announced \cup {event[h]}
        /\ rest # <<>> => /\ pc'[h] = "cast" /\ event'[h] = event[h] /\ targets'[h] = rest
                          /\ announced' = announced
    BY ContinueEffect DEF ListsInv
  <1>2. \A i \in announced' \ announced : i > loadedAt[s] => i \in Got(s)'
    <2>1. Range(<<>>) = {}
      BY DEF Range
    <2> QED
      BY <1>1, <2>1
  <1>3. \A k \in Handlers : pc'[k] = "cast" /\ s \notin Range(targets'[k]) =>
           \/ pc[k] = "cast" /\ event'[k] = event[k] /\ s \notin Range(targets[k])
           \/ event'[k] > loadedAt[s] => event'[k] \in Got(s)'
    BY <1>1
  <1> QED
    BY <1>2, <1>3, LaterRowsStay

\* A page that is open and has asked for the log keeps what it has.
LEMMA PageKeeps ==
    ASSUME ListsInv, OrderInv, [Next]_hubVars, NEW s \in Sockets, Loads(s)', ~Query(s)
    PROVE  /\ Loads(s) /\ loadedAt'[s] = loadedAt[s]
           /\ rows[s] \cup Seen(s) \subseteq rows'[s] \cup Seen(s)'
           /\ Got(s) \subseteq Got(s)'
  <1>1. CASE UNCHANGED <<sock, inbox, load, rows, loadedAt, shown, wiped>>
    BY <1>1 DEF Loads, Got, Seen, RowsShown
  <1>2. ASSUME NEW h \in Handlers, SendText(h)
        PROVE  Loads(s) /\ loadedAt'[s] = loadedAt[s] /\ UNCHANGED <<rows, Seen(s)>>
               /\ Got(s) \subseteq Got(s)'
    <2>1. PICK t \in Sockets : t = Head(targets[h])
      BY <1>2, RangeOfTail DEF SendText, ListsInv, CastTypes
    <2>2. /\ event[h] \in Nat /\ inbox[t] \in Seq(Nat)
          /\ inbox' = [inbox EXCEPT ![t] = Append(@, event[h])]
          /\ UNCHANGED <<sock, load, rows, loadedAt, shown, wiped>>
      BY <1>2, <2>1 DEF SendText, ListsInv, CastTypes, PageTypes
    <2>3. Range(Append(inbox[t], event[h])) = Range(inbox[t]) \cup {event[h]}
      BY <2>2, RangeOfAppend
    <2>4. Range(inbox[s]) \subseteq Range(inbox'[s])
      BY <2>2, <2>3 DEF ListsInv, PageTypes
    <2> QED
      BY <2>2, <2>4 DEF Loads, Got, Seen, RowsShown
  <1>3. ASSUME NEW t \in Sockets,
               Open(t) \/ Query(t) \/ Loaded(t) \/ Deliver(t) \/ Close(t) \/ Unsubscribe(t)
               \/ EmptyList(t)
        PROVE  /\ Loads(s) /\ loadedAt'[s] = loadedAt[s]
               /\ rows[s] \cup Seen(s) \subseteq rows'[s] \cup Seen(s)'
               /\ Got(s) \subseteq Got(s)'
    <2>1. CASE t # s
      <3>1. /\ sock'[s] = sock[s] /\ inbox'[s] = inbox[s] /\ load'[s] = load[s]
            /\ rows'[s] = rows[s] /\ loadedAt'[s] = loadedAt[s]
            /\ shown'[s] = shown[s] /\ wiped'[s] = wiped[s]
        BY <1>3, <2>1 DEF Open, Query, Loaded, Deliver, Close, Unsubscribe, EmptyList,
           ListsInv, PageTypes
      <3> QED
        BY <3>1 DEF Loads, Got, Seen, RowsShown
    <2>2. CASE t = s /\ Loaded(s)
      <3>1. rows[s] \in SUBSET (1..MaxMessages)
        BY HubAssumption DEF ListsInv, PageTypes, LogTypes
      <3>2. RowsShown(s)' = RowsShown(s) \cup rows[s]
        BY <2>2, <3>1, AppendedSeen DEF Loaded
      <3>3. UNCHANGED <<wiped, inbox, sock, loadedAt>> /\ load[s] = "answered"
        BY <2>2 DEF Loaded
      <3> QED
        BY <3>2, <3>3 DEF Loads, Got, Seen
    <2>3. CASE t = s /\ Deliver(s)
      <3>1. inbox[s] \in Seq(Nat) /\ inbox[s] # <<>>
        BY <2>3 DEF Deliver, ListsInv, PageTypes
      <3>2. Range(inbox[s]) = Range(Tail(inbox[s])) \cup {Head(inbox[s])}
        BY <3>1, RangeOfTail
      <3>3. RowsShown(s)' = RowsShown(s) \cup {Head(inbox[s])}
        BY <2>3, <3>1, HeadIsNew, AppendedSeen DEF Deliver
      <3>4. UNCHANGED <<wiped, load, rows, sock, loadedAt>> /\ inbox'[s] = Tail(inbox[s])
        BY <2>3 DEF Deliver, ListsInv, PageTypes
      <3> QED
        BY <3>2, <3>3, <3>4 DEF Loads, Got, Seen
    <2>4. CASE t = s /\ Unsubscribe(s)
      BY <2>4 DEF Unsubscribe, Loads, Got, Seen, RowsShown
    <2>6. CASE t = s /\ EmptyList(s)
      <3>1. /\ wiped'[s] = wiped[s] \cup RowsShown(s)
            /\ UNCHANGED <<load, rows, sock, loadedAt, inbox>>
        BY <2>6 DEF EmptyList, ListsInv, PageTypes
      <3>2. Seen(s) \subseteq Seen(s)'
        BY <3>1 DEF Seen
      <3> QED
        BY <3>1, <3>2 DEF Loads, Got
    <2>5. ~(t = s /\ (Open(s) \/ Close(s)))
      BY DEF Open, Close, Loads, ListsInv, PageTypes
    <2> QED
      BY <1>3, <2>1, <2>2, <2>3, <2>4, <2>5, <2>6
  <1>4. \/ UNCHANGED <<sock, inbox, load, rows, loadedAt, shown, wiped>>
        \/ \E h \in Handlers : SendText(h)
        \/ \E t \in Sockets :
              \/ Open(t) \/ Query(t) \/ Loaded(t) \/ Deliver(t) \/ Close(t) \/ Unsubscribe(t)
              \/ EmptyList(t)
    BY DEF Next, Save, Announce, CastStep, SendToClosed, Cancel, SaveSent, DeleteLog, ClearLog,
           hubVars, pageVars
  <1> QED
    BY <1>1, <1>2, <1>3, <1>4

\* Every broadcast passes a page that is open, or the page loads the row.
LEMMA LaterRowsStep ==
    ASSUME ListsInv, [Next]_hubVars, NEW s \in Sockets, Loads(s), LaterRowsGot(s),
           sock'[s] = "open", loadedAt'[s] = loadedAt[s], Got(s) \subseteq Got(s)'
    PROVE  LaterRowsGot(s)'
  <1>1. ASSUME NEW h \in Handlers, Save(h) PROVE LaterRowsGot(s)'
    BY <1>1, LaterRowsStay DEF Save, ListsInv, CastTypes
  <1>2. ASSUME NEW h \in Handlers, Announce(h) PROVE LaterRowsGot(s)'
    <2>1. Continue(h, event[h], subscribers, {}) /\ s \in Range(subscribers)
      BY <1>2 DEF Announce, Loads, ListsInv, SocketLists
    <2> QED
      BY <2>1, LaterRowsWithCast
  <1>3. ASSUME NEW h \in Handlers, SendText(h) PROVE LaterRowsGot(s)'
    <2>1. /\ pc[h] = "cast" /\ targets[h] \in Seq(Sockets) /\ targets[h] # <<>>
          /\ Continue(h, event[h], Tail(targets[h]), dead[h]) /\ event[h] \in Nat
      BY <1>3 DEF SendText, ListsInv, CastTypes
    <2>2. PICK t \in Sockets : t = Head(targets[h]) /\ Range(targets[h]) = Range(Tail(targets[h])) \cup {t}
      BY <2>1, RangeOfTail
    <2>3. inbox'[t] = Append(inbox[t], event[h]) /\ inbox[t] \in Seq(Nat)
      BY <1>3, <2>2 DEF SendText, ListsInv, PageTypes
    <2>4. event[h] \in Got(t)'
      <3>1. Range(Append(inbox[t], event[h])) = Range(inbox[t]) \cup {event[h]}
        BY <2>1, <2>3, RangeOfAppend
      <3> QED
        BY <2>3, <3>1 DEF Got
    <2>5. s \notin Range(Tail(targets[h])) => (event[h] > loadedAt[s] => event[h] \in Got(s)')
      BY <2>1, <2>2, <2>4 DEF LaterRowsGot
    <2> QED
      BY <2>1, <2>5, LaterRowsWithCast
  <1>4. ASSUME NEW h \in Handlers, SendToClosed(h) PROVE LaterRowsGot(s)'
    <2>1. /\ pc[h] = "cast" /\ targets[h] \in Seq(Sockets) /\ targets[h] # <<>>
          /\ sock[Head(targets[h])] = "closed"
      BY <1>4 DEF SendToClosed, ListsInv, CastTypes
    <2>2. PICK gone : Continue(h, event[h], Tail(targets[h]), gone)
      BY <1>4 DEF SendToClosed
    <2>3. s # Head(targets[h]) /\ Range(targets[h]) = Range(Tail(targets[h])) \cup {Head(targets[h])}
      BY <2>1, RangeOfTail DEF Loads
    <2>4. s \notin Range(Tail(targets[h])) => (event[h] > loadedAt[s] => event[h] \in Got(s)')
      BY <2>1, <2>3 DEF LaterRowsGot
    <2> QED
      BY <2>2, <2>4, LaterRowsWithCast
  <1>5. ASSUME NEW h \in Handlers, Cancel(h) PROVE LaterRowsGot(s)'
    BY <1>5, LaterRowsStay DEF Cancel, ListsInv, CastTypes
  <1>6. CASE UNCHANGED <<pc, event, targets, announced>>
    BY <1>6, LaterRowsStay
  <1>7. \/ UNCHANGED <<pc, event, targets, announced>>
        \/ \E h \in Handlers :
              Save(h) \/ Announce(h) \/ SendText(h) \/ SendToClosed(h) \/ Cancel(h)
    BY DEF Next, CastStep, SaveSent, DeleteLog, Open, Query, Loaded, Deliver, Close, Unsubscribe,
           ClearLog, EmptyList, castVars, hubVars
  <1> QED
    BY <1>1, <1>2, <1>3, <1>4, <1>5, <1>6, <1>7

LEMMA MissStep == ListsInv /\ OrderInv /\ MissInv /\ [Next]_hubVars => MissInv'
  <1> SUFFICES ASSUME ListsInv, OrderInv, MissInv, [Next]_hubVars, NEW s \in Sockets, Loads(s)'
               PROVE  loadedAt'[s] \in 0..lastMessageId' /\ LaterRowsGot(s)' /\ EarlierRowsLoaded(s)'
    BY DEF MissInv, Loads
  <1>1. CASE Query(s)
    <2>1. /\ loadedAt'[s] = lastMessageId /\ rows'[s] = GetMessages(0, "any", PageRows)
          /\ UNCHANGED <<storeVars, castVars>>
      BY <1>1 DEF Query, ListsInv, PageTypes
    <2>2. \A k \in Handlers : pc[k] = "cast" => event[k] \in 1..lastMessageId
      BY DEF ListsInv, CastTypes
    <2>3. lastMessageId \in Nat /\ announced \subseteq 1..lastMessageId
      BY HubAssumption DEF ListsInv, LogTypes
    <2>4. LaterRowsGot(s)'
      BY <2>1, <2>2, <2>3 DEF LaterRowsGot, castVars
    <2>5. EarlierRowsLoaded(s)'
      BY <2>1 DEF EarlierRowsLoaded, GetMessages, Newer, PageSize, storeVars
    <2> QED
      BY <2>1, <2>3, <2>4, <2>5 DEF storeVars
  <1>2. CASE ~Query(s)
    <2>1. /\ Loads(s) /\ loadedAt'[s] = loadedAt[s]
          /\ rows[s] \cup Seen(s) \subseteq rows'[s] \cup Seen(s)'
          /\ Got(s) \subseteq Got(s)'
      BY <1>2, PageKeeps
    <2>2. loadedAt[s] \in 0..lastMessageId /\ LaterRowsGot(s) /\ EarlierRowsLoaded(s)
      BY <2>1 DEF MissInv, Loads
    <2>3. LaterRowsGot(s)'
      BY <2>1, <2>2, LaterRowsStep DEF Loads
    <2>4. EarlierRowsLoaded(s)'
      BY <2>1, <2>2, EarlierRowsStay
    <2>5. lastMessageId' = lastMessageId \/ lastMessageId' = lastMessageId + 1
      BY DEF Next, Save, Announce, CastStep, SendText, SendToClosed, Cancel, SaveSent, DeleteLog,
             LogRow, SaveMessage, NextMessageId, DeleteAllMessages,
             Open, Query, Loaded, Deliver, Close, Unsubscribe, ClearLog, EmptyList,
             hubVars, storeVars
    <2>6. lastMessageId \in Nat
      BY HubAssumption DEF ListsInv, LogTypes
    <2> QED
      BY <2>1, <2>2, <2>3, <2>4, <2>5, <2>6
  <1> QED
    BY <1>1, <1>2

\* NothingMissed: a page misses no row that was broadcast to the end, whenever it
\* subscribed, loaded the log, was held up or cleared the log, for every page size.
THEOREM PagesMissNothing == Spec => []NothingMissed
  <1>1. Init => MissInv
    BY DEF Init, MissInv
  <1>2. ListsInv /\ MissInv => NothingMissed
    <2> SUFFICES ASSUME ListsInv, MissInv, NEW s \in Sockets, sock[s] = "open", load[s] = "done",
                        inbox[s] = <<>>, NEW i \in announced \cap DOMAIN messages,
                        i > loadedAt[s] \/ i \in GetMessages(0, "any", PageRows)
                 PROVE  i \in Seen(s)
      BY DEF NothingMissed, Seen
    <2>1. loadedAt[s] \in 0..lastMessageId /\ LaterRowsGot(s) /\ EarlierRowsLoaded(s)
      BY DEF MissInv
    <2>2. Got(s) = Seen(s) /\ rows[s] = {}
      <3>1. rows[s] = {}
        BY DEF ListsInv, PageTypes
      <3>2. Range(inbox[s]) = {}
        BY DEF Range
      <3> QED
        BY <3>1, <3>2 DEF Got
    <2>3. i \in Int /\ loadedAt[s] \in Int
      BY <2>1 DEF ListsInv, LogTypes
    <2>4. CASE i > loadedAt[s]
      BY <2>1, <2>2, <2>4 DEF LaterRowsGot
    <2>5. CASE i <= loadedAt[s]
      BY <2>1, <2>2, <2>3, <2>5 DEF EarlierRowsLoaded
    <2> QED
      BY <2>3, <2>4, <2>5
  <1> QED
    BY <1>1, <1>2, MissStep, ListsInductive, OrderInductive, PTL DEF Spec
-----------------------------------------------------------------------------
(* How often a page shows a row *)

\* How often a row came to the page: with its load, and over its socket.
Times(s, i) ==
    (IF load[s] = "done" /\ i <= loadedAt[s] THEN 1 ELSE 0)
    + (IF i \in Range(live[s]) THEN 1 ELSE 0)

LoadedBefore(s) ==
    /\ load[s] \in {"answered", "done"} => loadedAt[s] \in Nat
    /\ \A i \in rows[s] : i <= loadedAt[s]

ShownInv ==
    \A s \in Sockets :
        LoadedBefore(s) /\ \A i \in 1..MaxMessages : shown[s][i] <= Times(s, i)

\* Of a page s nothing changes but what is under way to it.
LEMMA ShownStays ==
    ASSUME NEW s \in Sockets, LoadedBefore(s), \A i \in 1..MaxMessages : shown[s][i] <= Times(s, i),
           load'[s] = load[s], rows'[s] = rows[s], loadedAt'[s] = loadedAt[s],
           shown'[s] = shown[s], live'[s] = live[s]
    PROVE  LoadedBefore(s)' /\ \A i \in 1..MaxMessages : shown'[s][i] <= Times(s, i)'
  BY DEF LoadedBefore, Times

LEMMA ShownStep == ListsInv /\ OrderInv /\ ShownInv /\ [Next]_hubVars => ShownInv'
  <1> SUFFICES ASSUME ListsInv, OrderInv, ShownInv, [Next]_hubVars, NEW s \in Sockets
               PROVE  LoadedBefore(s)' /\ \A i \in 1..MaxMessages : shown'[s][i] <= Times(s, i)'
    BY DEF ShownInv
  <1> DEFINE Kept == /\ load'[s] = load[s] /\ rows'[s] = rows[s] /\ loadedAt'[s] = loadedAt[s]
                     /\ shown'[s] = shown[s] /\ live'[s] = live[s]
  <1>0. LoadedBefore(s) /\ \A i \in 1..MaxMessages : shown[s][i] <= Times(s, i)
    BY DEF ShownInv
  <1>1. /\ shown[s] \in [1..MaxMessages -> Nat] /\ live[s] \in Seq(Nat) /\ inbox[s] \in Seq(Nat)
        /\ rows[s] \subseteq 1..lastMessageId /\ lastMessageId \in Nat
        /\ load[s] # "answered" => rows[s] = {}
    BY HubAssumption DEF ListsInv, PageTypes, LogTypes
  <1>2. CASE Kept
    BY <1>0, <1>2, ShownStays
  <1>3. CASE Open(s)
    <2>1. load[s] = "none" /\ load'[s] = "asked" /\ UNCHANGED <<rows, loadedAt, shown, live>>
      BY <1>3 DEF Open, ListsInv, PageTypes
    <2> QED
      BY <1>0, <2>1 DEF LoadedBefore, Times
  <1>4. CASE Query(s)
    <2>1. /\ load[s] = "asked" /\ load'[s] = "answered" /\ loadedAt'[s] = lastMessageId
          /\ rows'[s] = GetMessages(0, "any", PageRows) /\ UNCHANGED <<shown, live>>
      BY <1>4 DEF Query, ListsInv, PageTypes
    <2>2. \A i \in rows'[s] : i <= loadedAt'[s]
      BY <2>1, HubAssumption DEF GetMessages, Newer, ListsInv, LogTypes
    <2> QED
      BY <1>0, <1>1, <2>1, <2>2 DEF LoadedBefore, Times
  <1>5. CASE Loaded(s)
    <2>1. /\ load[s] = "answered" /\ load'[s] = "done" /\ rows'[s] = {}
          /\ shown'[s] = Appended(shown[s], rows[s]) /\ UNCHANGED <<loadedAt, live>>
      BY <1>5 DEF Loaded, ListsInv, PageTypes
    <2>2. LoadedBefore(s)'
      BY <1>0, <2>1 DEF LoadedBefore
    <2>3. ASSUME NEW i \in 1..MaxMessages PROVE shown'[s][i] <= Times(s, i)'
      <3>1. shown'[s][i] = IF i \in rows[s] THEN shown[s][i] + 1 ELSE shown[s][i]
        BY <1>1, <2>1, AppendedCounts
      <3>2. shown[s][i] \in Nat /\ shown[s][i] <= IF i \in Range(live[s]) THEN 1 ELSE 0
        <4>1. Times(s, i) = IF i \in Range(live[s]) THEN 1 ELSE 0
          BY <2>1 DEF Times
        <4> QED
          BY <1>0, <1>1, <4>1
      <3>3. i \in rows[s] => i <= loadedAt[s]
        BY <1>0 DEF LoadedBefore
      <3> QED
        BY <2>1, <3>1, <3>2, <3>3 DEF Times
    <2> QED
      BY <2>2, <2>3
  <1>6. CASE Deliver(s)
    <2> DEFINE new == Head(inbox[s])
    <2>1. /\ inbox[s] # <<>> /\ shown'[s] = Appended(shown[s], {new})
          /\ live'[s] = Append(live[s], new)
          /\ UNCHANGED <<load, rows, loadedAt>>
      BY <1>6 DEF Deliver, ListsInv, PageTypes
    <2>2. new \in Nat /\ new \notin Range(live[s])
      BY <2>1, HeadIsNew, HubAssumption
    <2>3. Range(live'[s]) = Range(live[s]) \cup {new}
      BY <1>1, <2>1, <2>2, RangeOfAppend
    <2>4. LoadedBefore(s)'
      BY <1>0, <2>1 DEF LoadedBefore
    <2>5. ASSUME NEW i \in 1..MaxMessages PROVE shown'[s][i] <= Times(s, i)'
      <3>1. shown'[s][i] = IF i = new THEN shown[s][i] + 1 ELSE shown[s][i]
        <4>1. shown'[s][i] = IF i \in {new} THEN shown[s][i] + 1 ELSE shown[s][i]
          BY <2>1 DEF Appended
        <4> QED
          BY <4>1
      <3>2. shown[s][i] \in Nat /\ shown[s][i] <= Times(s, i)
        BY <1>0, <1>1
      <3>3. Times(s, i)' = IF i = new THEN Times(s, i) + 1 ELSE Times(s, i)
        BY <2>1, <2>2, <2>3 DEF Times
      <3>4. Times(s, i) \in Nat
        BY DEF Times
      <3> QED
        BY <3>1, <3>2, <3>3, <3>4
    <2> QED
      BY <2>4, <2>5
  <1>7. CASE Close(s)
    <2>1. load'[s] = "none" /\ rows'[s] = {} /\ \A i \in 1..MaxMessages : shown'[s][i] = 0
      BY <1>7 DEF Close, NoneShown, ListsInv, PageTypes
    <2>2. \A i \in 1..MaxMessages : Times(s, i)' \in Nat
      BY DEF Times
    <2> QED
      BY <2>1, <2>2 DEF LoadedBefore
  <1>8. CASE EmptyList(s)
    <2>1. /\ \A i \in 1..MaxMessages : shown'[s][i] = 0
          /\ UNCHANGED <<load, rows, loadedAt, live>>
      BY <1>8 DEF EmptyList, NoneShown, ListsInv, PageTypes
    <2>2. \A i \in 1..MaxMessages : Times(s, i)' \in Nat
      BY DEF Times
    <2> QED
      BY <1>0, <2>1, <2>2 DEF LoadedBefore
  <1>9. ASSUME NEW t \in Sockets \ {s},
               \/ Open(t) \/ Query(t) \/ Loaded(t) \/ Deliver(t) \/ Close(t) \/ EmptyList(t)
        PROVE  Kept
    BY <1>9 DEF Open, Query, Loaded, Deliver, Close, EmptyList, ListsInv, PageTypes
  <1>10. \/ UNCHANGED <<load, rows, loadedAt, shown, live>>
         \/ \E t \in Sockets :
               Open(t) \/ Query(t) \/ Loaded(t) \/ Deliver(t) \/ Close(t) \/ EmptyList(t)
    BY DEF Next, Save, Announce, CastStep, SendText, SendToClosed, Cancel, SaveSent, DeleteLog,
           Unsubscribe, ClearLog, hubVars, pageVars
  <1> QED
    BY <1>2, <1>3, <1>4, <1>5, <1>6, <1>7, <1>8, <1>9, <1>10

\* ShownTwiceAtMost: for every number of pages, handlers and messages a row is shown
\* twice only if it came both with the load and over the socket, and never more often.
THEOREM ShownAtMostTwice == Spec => []ShownTwiceAtMost
  <1>1. Init => ShownInv
    <2> SUFFICES ASSUME Init, NEW s \in Sockets
                 PROVE  LoadedBefore(s) /\ \A i \in 1..MaxMessages : shown[s][i] <= Times(s, i)
      BY DEF ShownInv
    <2>1. /\ load[s] = "none" /\ rows[s] = {} /\ \A i \in 1..MaxMessages : shown[s][i] = 0
      BY DEF Init, NoneShown
    <2>2. \A i \in 1..MaxMessages : Times(s, i) \in Nat
      BY DEF Times
    <2> QED
      BY <2>1, <2>2 DEF LoadedBefore
  <1>2. ListsInv /\ ShownInv => ShownTwiceAtMost
    <2> SUFFICES ASSUME ListsInv, ShownInv, NEW s \in Sockets, NEW i \in RowsShown(s)
                 PROVE  /\ (load[s] = "done" /\ i <= loadedAt[s]) \/ i \in Range(live[s])
                        /\ shown[s][i] <= IF load[s] = "done" /\ i <= loadedAt[s]
                                                /\ i \in Range(live[s]) THEN 2 ELSE 1
      BY DEF ShownTwiceAtMost
    <2>3. shown[s] \in [1..MaxMessages -> Nat]
      BY DEF ListsInv, PageTypes
    <2>1. i \in 1..MaxMessages /\ shown[s][i] > 0 /\ shown[s][i] \in Nat
      BY <2>3 DEF RowsShown
    <2>2. shown[s][i] <= Times(s, i)
      BY <2>1 DEF ShownInv
    <2> QED
      BY <2>1, <2>2 DEF Times
  <1> QED
    BY <1>1, <1>2, ShownStep, ListsInductive, OrderInductive, PTL DEF Spec
=============================================================================

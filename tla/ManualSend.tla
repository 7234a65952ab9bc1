----------------------------- MODULE ManualSend -----------------------------
(***************************************************************************)
(* POST /api/send (main.send_bytes): the request builds its bytes and gives *)
(* them to one client connection or, without connection_id, to every peer   *)
(* of every listener, and then logs them.  It iterates over                 *)
(* SctpServer._listeners with awaits in between, while listeners start and  *)
(* stop, associations come and go: those are the steps of SctpServer, with  *)
(* which this module is composed.                                           *)
(*                                                                         *)
(* A dict keeps its keys in the order of their insertion; an iterator over  *)
(* it holds a place in that order and raises RuntimeError when the number   *)
(* of keys is no longer the one it began with.                              *)
(***************************************************************************)
EXTENDS SctpServer, Sequences

CONSTANTS
    Requests,  \* requests to api/send
    Bodies,    \* their bodies: [template, hex, message_identifier, serial_number, connection_id]
    Junk,      \* a text that is not hex (module Codec)
    NotAPdu,   \* bytes that are no PDU
    MaxConns   \* bound: associations accepted in a behaviour

INSTANCE Codec

ASSUME SendAssumption ==
    /\ MaxConns \in Nat
    /\ \A b \in Bodies : b.connection_id \in BOOLEAN /\ b.template \in Templates \cup {None}

VARIABLES
    place,    \* the place of each listed port in the order of _listeners, 0 for none
    inserted, \* places given out so far
    req,      \* how far each request is, or its answer
    raw,      \* its bytes
    cursor,   \* the place of the entry its iteration is at
    size,     \* the number of keys when the iteration began
    todo,     \* the rest of list(entry["peers"].keys())
    target,   \* the conn whose send runs in a thread
    row,      \* the row the request has saved
    got,      \* history: how often each peer address got the bytes
    stayed    \* history: associations up and listed ever since the iteration began

iterVars == <<cursor, size, todo, target>>
requestVars == <<req, raw, iterVars, row, got, stayed>>
sendVars == <<serverVars, place, inserted, requestVars>>

Answers == {"200", "400", "409", "500"}

SendInit ==
    /\ Init
    /\ place = [p \in Ports |-> 0]
    /\ inserted = 0
    /\ req = [r \in Requests |-> "idle"]
    /\ raw = [r \in Requests |-> None]
    /\ cursor = [r \in Requests |-> 0]
    /\ size = [r \in Requests |-> 0]
    /\ todo = [r \in Requests |-> <<>>]
    /\ target = [r \in Requests |-> None]
    /\ row = [r \in Requests |-> None]
    /\ got = [r \in Requests |-> [a \in Addrs |-> 0]]
    /\ stayed = [r \in Requests |-> {}]

-----------------------------------------------------------------------------
(* The tables the request reads *)

Listed == {p \in Ports : listeners[p] # None}
PeersOf(p) == {a \in Addrs : peers[listeners[p]][a] # None}

\* Associations that status shows and that are up.
Reachable == {c \in up : \E p \in Listed : peers[listeners[p]][PeerAddr[c]] = c}

\* send_to_peer: the conn the first listener that knows the address has for it.
Lookup(a) ==
    LET hits == {p \in Listed : a \in PeersOf(p)}
    IN  IF hits = {} THEN None
        ELSE peers[listeners[CHOOSE p \in hits : \A q \in hits : place[p] <= place[q]]][a]

\* Every order list(entry["peers"].keys()) may have.
Orders(S) == {f \in [1..Cardinality(S) -> S] : \A a \in S : \E i \in DOMAIN f : f[i] = a}

\* The list from its first address that send_to_peer finds: the others cost a warning
\* and no await.
FromFound(list) ==
    LET found == {i \in DOMAIN list : Lookup(list[i]) # None}
    IN  IF found = {} THEN <<>>
        ELSE SubSeq(list, CHOOSE i \in found : \A j \in found : i <= j, Len(list))

-----------------------------------------------------------------------------
(* The request *)

\* The bytes of a body, None for an answer 400: a template without bytes, hex that
\* is none, or neither.
Wire(b) ==
    IF b.template # None THEN Encode(b.template, b)
    ELSE IF b.hex \in {None, Junk} THEN None
    ELSE b.hex

Reply(r, status) ==
    /\ req' = [req EXCEPT ![r] = status]
    /\ cursor' = [cursor EXCEPT ![r] = 0]
    /\ size' = [size EXCEPT ![r] = 0]
    /\ todo' = [todo EXCEPT ![r] = <<>>]
    /\ target' = [target EXCEPT ![r] = None]

\* The iteration is over, nothing is left but the log.
IterationOver(r) == Reply(r, "log")

\* Mutant: the address stays in the list.
Await_Again(r, keys, entryPlace, list) ==
    /\ req' = [req EXCEPT ![r] = "sending"]
    /\ cursor' = [cursor EXCEPT ![r] = entryPlace]
    /\ size' = [size EXCEPT ![r] = keys]
    /\ todo' = [todo EXCEPT ![r] = list]
    /\ target' = [target EXCEPT ![r] = Lookup(Head(list))]

\* send_to_peer is awaited for the first address of the list.
Await(r, keys, entryPlace, list) ==
    /\ req' = [req EXCEPT ![r] = "sending"]
    /\ cursor' = [cursor EXCEPT ![r] = entryPlace]
    /\ size' = [size EXCEPT ![r] = keys]
    /\ todo' = [todo EXCEPT ![r] = Tail(list)]
    /\ target' = [target EXCEPT ![r] = Lookup(Head(list))]

\* Mutant: the iteration ends where the number of keys has changed.
Continue_NoError(r, keys, entryPlace, list) ==
    LET rest == FromFound(list)
        later == {p \in Listed : place[p] > entryPlace /\ PeersOf(p) # {}}
    IN  \/ rest # <<>> /\ Await(r, keys, entryPlace, rest)
        \/ /\ rest = <<>>
           /\ Cardinality(Listed) # keys \/ later = {}
           /\ IterationOver(r)
        \/ /\ rest = <<>> /\ Cardinality(Listed) = keys
           /\ \E p \in later :
                 /\ \A q \in later : place[p] <= place[q]
                 /\ \E order \in Orders(PeersOf(p)) : Await(r, keys, place[p], order)

\* The loops go on to their next await: with the addresses left of this entry, or
\* with the next entry that has peers, unless the number of keys has changed.
Continue(r, keys, entryPlace, list) ==
    LET rest == FromFound(list)
        later == {p \in Listed : place[p] > entryPlace /\ PeersOf(p) # {}}
    IN  \/ rest # <<>> /\ Await(r, keys, entryPlace, rest)
        \/ rest = <<>> /\ Cardinality(Listed) # keys /\ Reply(r, "500")
        \/ rest = <<>> /\ Cardinality(Listed) = keys /\ later = {} /\ IterationOver(r)
        \/ /\ rest = <<>> /\ Cardinality(Listed) = keys
           /\ \E p \in later :
                 /\ \A q \in later : place[p] <= place[q]
                 /\ \E order \in Orders(PeersOf(p)) : Await(r, keys, place[p], order)

\* The request comes in: it is refused, handed to a client connection (SctpClient),
\* or begins its iteration.
Post(r) ==
    /\ req[r] = "idle"
    /\ \E b \in Bodies :
          /\ raw' = [raw EXCEPT ![r] = Wire(b)]
          /\ IF Wire(b) = None THEN Reply(r, "400") /\ UNCHANGED stayed
             ELSE IF b.connection_id THEN Reply(r, "client") /\ UNCHANGED stayed
             ELSE /\ Continue(r, Cardinality(Listed), 0, <<>>)
                  /\ stayed' = [stayed EXCEPT ![r] = Reachable]
    /\ UNCHANGED <<serverVars, place, inserted, row, got>>

\* SctpClient.send returns, or raises: KeyError and RuntimeError are answered with
\* 409, an error of the socket with 500.
ClientSend(r) ==
    /\ req[r] = "client"
    /\ Reply(r, "log") \/ Reply(r, "409") \/ Reply(r, "500")
    /\ UNCHANGED <<serverVars, place, inserted, raw, row, got, stayed>>

\* The thread's send: bytes for an association that is down are lost.
ThreadSend(r) ==
    /\ req[r] = "sending"
    /\ req' = [req EXCEPT ![r] = "sent"]
    /\ got' = IF target[r] \in up THEN [got EXCEPT ![r][PeerAddr[target[r]]] = @ + 1] ELSE got
    /\ UNCHANGED <<serverVars, place, inserted, raw, iterVars, row, stayed>>

\* It raises: the conn is closed, or its peer takes nothing for five seconds.
ThreadSendFails(r) ==
    /\ req[r] = "sending"
    /\ Reply(r, "500")
    /\ UNCHANGED <<serverVars, place, inserted, raw, row, got, stayed>>

\* The request resumes.
Resume(r) ==
    /\ req[r] = "sent"
    /\ Continue(r, size[r], cursor[r], todo[r])
    /\ UNCHANGED <<serverVars, place, inserted, raw, row, got, stayed>>

\* The session is read and the row saved (ReadTag and Save of MessageLog).
Log(r) ==
    /\ req[r] = "log"
    /\ row' = [row EXCEPT ![r] = Decode(raw[r])]
    /\ Reply(r, "200")
    /\ UNCHANGED <<serverVars, place, inserted, raw, got, stayed>>

\* The store raises: the bytes are out and have no row.
LogFails(r) ==
    /\ req[r] = "log"
    /\ Reply(r, "500")
    /\ UNCHANGED <<serverVars, place, inserted, raw, row, got, stayed>>

-----------------------------------------------------------------------------
(* The steps of the server meanwhile *)

\* Mutant: all keys at one place.
PlacesFollow_Same ==
    /\ place' = [p \in Ports |-> IF listeners'[p] = None THEN 0 ELSE 1]
    /\ UNCHANGED inserted

\* A new key goes to the end, one that is overwritten stays.
PlacesFollow ==
    LET new == {p \in Ports : listeners'[p] # None /\ listeners[p] = None}
    IN  /\ place' = [p \in Ports |->
                        IF listeners'[p] = None THEN 0
                        ELSE IF p \in new THEN inserted + 1 ELSE place[p]]
        /\ inserted' = inserted + Cardinality(new)

Iterating(r) == req[r] \in {"sending", "sent"}

\* Left to SctpServer is what the server does when no request is to come or looks at
\* it; and so are callbacks, which a request cannot tell from recv.
Looking == \E r \in Requests : req[r] = "idle" \/ Iterating(r)

ServerStep ==
    /\ Looking
    /\ Next
    /\ \A c \in Conns : handler'[c] # "callback"
    /\ Cardinality({c \in Conns : ~Unused(c)'}) <= MaxConns
    /\ PlacesFollow
    /\ stayed' = [r \in Requests |-> IF Iterating(r) THEN stayed[r] \cap Reachable' ELSE stayed[r]]
    /\ UNCHANGED <<req, raw, iterVars, row, got>>

RequestStep(r) ==
    ClientSend(r) \/ ThreadSend(r) \/ ThreadSendFails(r) \/ Resume(r) \/ Log(r) \/ LogFails(r)

SendNext == ServerStep \/ \E r \in Requests : Post(r) \/ RequestStep(r)

SendSpec == SendInit /\ [][SendNext]_sendVars

-----------------------------------------------------------------------------
(* Properties *)

\* Types; listed ports have places of their own, a request that waits for a send has
\* a conn, and an answer 200 means that the row of the bytes sent is saved.
SendTypeOK ==
    /\ TypeOK
    /\ place \in [Ports -> 0..inserted]
    /\ \A p \in Ports : place[p] = 0 <=> listeners[p] = None
    /\ \A p, q \in Ports : place[p] = place[q] => p = q \/ place[p] = 0
    /\ req \in [Requests -> {"idle", "client", "sending", "sent", "log"} \cup Answers]
    /\ \A r \in Requests : target[r] # None <=> req[r] \in {"sending", "sent"}
    /\ \A r \in Requests : target[r] \in Conns \cup {None}
    /\ \A r \in Requests : todo[r] \in Seq(Addrs)
    /\ \A r \in Requests : row[r] = IF req[r] = "200" THEN Decode(raw[r]) ELSE None

\* The accepted associations that use the peer address of c: send_to_peer cannot tell
\* them apart.
SameAddr(c) == {d \in Conns : home[d] # None /\ PeerAddr[d] = PeerAddr[c]}

\* A request answered with 200 has given its bytes to every association that was up
\* and listed all the while, although listeners start and stop and other peers come
\* and go during its awaits; of several with one address, to one of them at least.
EveryPeerServed ==
    \A r \in Requests : req[r] = "200" =>
        \A c \in stayed[r] : SameAddr(c) \subseteq stayed[r] => got[r][PeerAddr[c]] > 0

\* No address gets the bytes of a request more often than it has had associations,
\* whatever is started, stopped or replaced while the request iterates.
SentOnce ==
    \A r \in Requests, c \in Conns :
        got[r][PeerAddr[c]] <= Cardinality(SameAddr(c))
=============================================================================

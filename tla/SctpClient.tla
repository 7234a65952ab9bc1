----------------------------- MODULE SctpClient -----------------------------
(***************************************************************************)
(* The outgoing associations of sctp-probe (sctp_probe/sctp_client.py):     *)
(* connect, disconnect, disconnect_all and send, and for each connection a  *)
(* read loop and a heartbeat loop.  All are coroutines on one event loop;   *)
(* connect, recv, send and close run in worker threads.  A step performs    *)
(* the work a coroutine awaits and runs the coroutine up to its next await. *)
(*                                                                         *)
(* An element of Ids is a connect request, the connection it makes, and the *)
(* disconnect that takes it out of _conns.  A task that is cancelled ends,  *)
(* but the job its worker thread runs does not: it goes on with the socket  *)
(* for as long as its recv or send takes.  wait_for in disconnect needs no  *)
(* timeout here: either task ends at the first cancellation it sees, so a   *)
(* second one would find nothing to do.                                     *)
(***************************************************************************)
EXTENDS Integers, FiniteSets

CONSTANTS
    Ids,      \* connect requests and their connections
    Senders,  \* api/send requests with a connection_id
    None

ASSUME ClientAssumption == None \notin Ids

VARIABLES
    conns,       \* the keys of _conns
    state,       \* entry["state"], kept after the entry has gone
    phase,       \* how far the connect of each id, and its disconnect, has come
    up,          \* associations that are up at both ends
    reader,      \* the await of each read_task
    beat,        \* the await of each hb_task
    cancelRead,  \* read tasks with a cancellation they have not seen yet
    cancelBeat,  \* heartbeat tasks with a cancellation they have not seen yet
    late,        \* connections whose cancelled tasks have left a thread with a job
    sender,      \* the connection whose socket each api/send holds
    sweep,       \* disconnect_all: "idle", "on" or "over"
    listed,      \* its list(self._conns)
    todo,        \* the ids of the list not yet disconnected
    current,     \* the id whose disconnect it awaits
    unnamed      \* history: connections with a message from the peer "?:0"

sweepVars == <<sweep, listed, todo, current>>
taskVars == <<reader, beat, cancelRead, cancelBeat, late>>
clientVars == <<conns, state, phase, up, taskVars, sender, sweepVars, unnamed>>

\* "open" is the answer 200 of connect, "refused" its 502; the disconnect of an id
\* awaits the close of its socket in "closing" and the two tasks in "waiting".
Phases == {"idle", "connecting", "refused", "open", "closing", "waiting", "gone"}

Init ==
    /\ conns = {}
    /\ state = [c \in Ids |-> "CONNECTED"]
    /\ phase = [c \in Ids |-> "idle"]
    /\ up = {}
    /\ reader = [c \in Ids |-> "none"]
    /\ beat = [c \in Ids |-> "none"]
    /\ cancelRead = {}
    /\ cancelBeat = {}
    /\ late = {}
    /\ sender = [s \in Senders |-> None]
    /\ sweep = "idle" /\ listed = {} /\ todo = {} /\ current = None
    /\ unnamed = {}

To(c, next) == phase' = [phase EXCEPT ![c] = next]

\* The entry of c, if it has one still, is marked.
MarkError(c) == state' = IF c \in conns THEN [state EXCEPT ![c] = "ERROR"] ELSE state

-----------------------------------------------------------------------------
(* connect *)

Connect(c) ==
    /\ phase[c] = "idle"
    /\ To(c, "connecting")
    /\ UNCHANGED <<conns, state, up, taskVars, sender, sweepVars, unnamed>>

ConnectFails(c) ==
    /\ phase[c] = "connecting"
    /\ To(c, "refused")
    /\ UNCHANGED <<conns, state, up, taskVars, sender, sweepVars, unnamed>>

\* The association is up: both tasks are created and the entry stored.
Connected(c) ==
    /\ phase[c] = "connecting"
    /\ To(c, "open")
    /\ up' = up \cup {c}
    /\ conns' = conns \cup {c}
    /\ reader' = [reader EXCEPT ![c] = "recv"]
    /\ beat' = [beat EXCEPT ![c] = "sleep"]
    /\ UNCHANGED <<state, cancelRead, cancelBeat, late, sender, sweepVars, unnamed>>

\* The remote end closes, aborts or is lost.
PeerCloses(c) ==
    /\ c \in up
    /\ up' = up \ {c}
    /\ UNCHANGED <<conns, state, phase, taskVars, sender, sweepVars, unnamed>>

-----------------------------------------------------------------------------
(* The read loop *)

\* The top of the loop: it goes on while the id has an entry.
NextRead(c) == IF c \in conns THEN "recv" ELSE "over"

\* A message arrives.  The peer's name is looked up in the entry, now.
Receive(c) ==
    /\ reader[c] = "recv" /\ c \in up /\ c \notin cancelRead
    /\ reader' = [reader EXCEPT ![c] = "callback"]
    /\ unnamed' = IF c \in conns THEN unnamed ELSE unnamed \cup {c}
    /\ UNCHANGED <<conns, state, phase, up, beat, cancelRead, cancelBeat, late, sender, sweepVars>>

\* A timeout, a notification or an empty read.  At end of stream the kernel gives
\* empty reads without end.
ReadsNothing(c) ==
    /\ reader[c] = "recv" /\ c \notin cancelRead
    /\ reader' = [reader EXCEPT ![c] = NextRead(c)]
    /\ UNCHANGED <<conns, state, phase, up, beat, cancelRead, cancelBeat, late, sender, sweepVars, unnamed>>

\* Mutant: the failure is logged only.
ReadFails_Unmarked(c) ==
    /\ reader[c] = "recv" /\ c \notin cancelRead
    /\ reader' = [reader EXCEPT ![c] = "over"]
    /\ UNCHANGED <<conns, state, phase, up, beat, cancelRead, cancelBeat, late, sender, sweepVars, unnamed>>

\* recv raises anything else, also on an association that is up.
ReadFails(c) ==
    /\ reader[c] = "recv" /\ c \notin cancelRead
    /\ reader' = [reader EXCEPT ![c] = "over"]
    /\ MarkError(c)
    /\ UNCHANGED <<conns, phase, up, beat, cancelRead, cancelBeat, late, sender, sweepVars, unnamed>>

\* The callback (module RulePipeline) returns or raises.
CallbackReturns(c) ==
    /\ reader[c] = "callback" /\ c \notin cancelRead
    /\ reader' = [reader EXCEPT ![c] = NextRead(c)]
    /\ UNCHANGED <<conns, state, phase, up, beat, cancelRead, cancelBeat, late, sender, sweepVars, unnamed>>

\* A cancellation ends the loop in recv, which its thread goes on with, as well as
\* in the callback.
ReadCancelled(c) ==
    /\ c \in cancelRead
    /\ late' = IF reader[c] = "recv" THEN late \cup {c} ELSE late
    /\ reader' = [reader EXCEPT ![c] = "over"]
    /\ cancelRead' = cancelRead \ {c}
    /\ UNCHANGED <<conns, state, phase, up, beat, cancelBeat, sender, sweepVars, unnamed>>

-----------------------------------------------------------------------------
(* The heartbeat loop *)

BeatWakes(c) ==
    /\ beat[c] = "sleep" /\ c \notin cancelBeat
    /\ beat' = [beat EXCEPT ![c] = IF c \in conns THEN "send" ELSE "over"]
    /\ UNCHANGED <<conns, state, phase, up, reader, cancelRead, cancelBeat, late, sender, sweepVars, unnamed>>

BeatSent(c) ==
    /\ beat[c] = "send" /\ c \in up /\ c \notin cancelBeat
    /\ beat' = [beat EXCEPT ![c] = "sleep"]
    /\ UNCHANGED <<conns, state, phase, up, reader, cancelRead, cancelBeat, late, sender, sweepVars, unnamed>>

\* Mutant: the failure is logged only.
BeatFails_Unmarked(c) ==
    /\ beat[c] = "send" /\ c \notin cancelBeat
    /\ beat' = [beat EXCEPT ![c] = "sleep"]
    /\ UNCHANGED <<conns, state, phase, up, reader, cancelRead, cancelBeat, late, sender, sweepVars, unnamed>>

\* The send of the probe raises; it may on an association that is up (no room in
\* the send buffer for five seconds).
BeatFails(c) ==
    /\ beat[c] = "send" /\ c \notin cancelBeat
    /\ beat' = [beat EXCEPT ![c] = "sleep"]
    /\ MarkError(c)
    /\ UNCHANGED <<conns, phase, up, reader, cancelRead, cancelBeat, late, sender, sweepVars, unnamed>>

BeatCancelled(c) ==
    /\ c \in cancelBeat
    /\ late' = IF beat[c] = "send" THEN late \cup {c} ELSE late
    /\ beat' = [beat EXCEPT ![c] = "over"]
    /\ cancelBeat' = cancelBeat \ {c}
    /\ UNCHANGED <<conns, state, phase, up, reader, cancelRead, sender, sweepVars, unnamed>>

\* The threads that cancelled tasks have left come to the end of their recv or send,
\* at the latest after its timeout.  A message that such a recv takes is dropped.
JobsEnd(c) ==
    /\ c \in late
    /\ late' = late \ {c}
    /\ UNCHANGED <<conns, state, phase, up, reader, beat, cancelRead, cancelBeat, sender, sweepVars, unnamed>>

-----------------------------------------------------------------------------
(* disconnect and disconnect_all *)

\* Mutants: the entry is looked up, not popped; only the socket is closed before the
\* wait; only the heartbeat is cancelled.
Pop_EntryKept(c) ==
    /\ cancelRead' = cancelRead \cup ({c} \cap {d \in Ids : reader[d] # "over"})
    /\ cancelBeat' = cancelBeat \cup ({c} \cap {d \in Ids : beat[d] # "over"})
    /\ To(c, "closing")
    /\ UNCHANGED conns

Pop_NotCancelled(c) ==
    /\ conns' = conns \ {c}
    /\ To(c, "closing")
    /\ UNCHANGED <<cancelRead, cancelBeat>>

Pop_ReaderKept(c) ==
    /\ conns' = conns \ {c}
    /\ cancelBeat' = cancelBeat \cup ({c} \cap {d \in Ids : beat[d] # "over"})
    /\ To(c, "closing")
    /\ UNCHANGED cancelRead

\* The entry is popped and both tasks are cancelled; the close is awaited.
Pop(c) ==
    /\ conns' = conns \ {c}
    /\ cancelRead' = cancelRead \cup ({c} \cap {d \in Ids : reader[d] # "over"})
    /\ cancelBeat' = cancelBeat \cup ({c} \cap {d \in Ids : beat[d] # "over"})
    /\ To(c, "closing")

\* disconnect(conn_id), asked for by a request.
Disconnect(c) ==
    /\ c \in conns
    /\ Pop(c)
    /\ UNCHANGED <<state, up, reader, beat, late, sender, sweepVars, unnamed>>

\* The socket is shut down and closed ...
SocketClosed(c) ==
    /\ phase[c] = "closing"
    /\ up' = up \ {c}
    /\ To(c, "waiting")
    /\ UNCHANGED <<conns, state, taskVars, sender, sweepVars, unnamed>>

\* Mutant: the threads are waited for.
DisconnectReturns_WaitsForJobs(c) ==
    /\ phase[c] = "waiting"
    /\ reader[c] = "over" /\ beat[c] = "over" /\ c \notin late
    /\ To(c, "gone")
    /\ UNCHANGED <<conns, state, up, taskVars, sender, sweepVars, unnamed>>

\* ... and both tasks are over.
DisconnectReturns(c) ==
    /\ phase[c] = "waiting"
    /\ reader[c] = "over" /\ beat[c] = "over"
    /\ To(c, "gone")
    /\ UNCHANGED <<conns, state, up, taskVars, sender, sweepVars, unnamed>>

\* Mutant: disconnect_all stops at the first id that another request has taken.
SweepNext_StopsAtMissing ==
    /\ sweep = "on"
    /\ current # None => phase[current] = "gone"
    /\ \/ \E c \in todo \cap conns :
             /\ todo' = todo \ {c} /\ current' = c
             /\ Pop(c)
             /\ UNCHANGED sweep
       \/ /\ todo = {} \/ \E c \in todo : c \notin conns
          /\ sweep' = "over" /\ todo' = {} /\ current' = None
          /\ UNCHANGED <<conns, cancelRead, cancelBeat, phase>>
    /\ UNCHANGED <<state, up, reader, beat, late, sender, listed, unnamed>>

\* disconnect_all copies the ids ...
SweepBegins ==
    /\ sweep = "idle"
    /\ sweep' = "on" /\ listed' = conns /\ todo' = conns
    /\ UNCHANGED <<conns, state, phase, up, taskVars, sender, current, unnamed>>

\* ... and awaits one disconnect after the other.  An id that another request has
\* taken out meanwhile is passed over at once, so the step goes to the next one
\* that has an entry.
SweepNext ==
    /\ sweep = "on"
    /\ current # None => phase[current] = "gone"
    /\ \/ \E c \in todo \cap conns :
             /\ todo' = (todo \cap conns) \ {c} /\ current' = c
             /\ Pop(c)
             /\ UNCHANGED sweep
       \/ /\ todo \cap conns = {}
          /\ sweep' = "over" /\ todo' = {} /\ current' = None
          /\ UNCHANGED <<conns, cancelRead, cancelBeat, phase>>
    /\ UNCHANGED <<state, up, reader, beat, late, sender, listed, unnamed>>

-----------------------------------------------------------------------------
(* send *)

\* KeyError and RuntimeError leave everything as it is and are answered with 409.
Send(s, c) ==
    /\ sender[s] = None
    /\ c \in conns /\ state[c] = "CONNECTED"
    /\ sender' = [sender EXCEPT ![s] = c]
    /\ UNCHANGED <<conns, state, phase, up, taskVars, sweepVars, unnamed>>

\* The send returns, or raises: an error changes no state, only the two loops do.
SendEnds(s) ==
    /\ sender[s] # None
    /\ sender' = [sender EXCEPT ![s] = None]
    /\ UNCHANGED <<conns, state, phase, up, taskVars, sweepVars, unnamed>>

-----------------------------------------------------------------------------
BeatStep(c) == BeatWakes(c) \/ BeatSent(c) \/ BeatFails(c) \/ BeatCancelled(c)
ReadStep(c) ==
    Receive(c) \/ ReadsNothing(c) \/ ReadFails(c) \/ CallbackReturns(c) \/ ReadCancelled(c)
DisconnectStep(c) == SocketClosed(c) \/ DisconnectReturns(c)

Next ==
    \/ \E c \in Ids :
          \/ Connect(c) \/ ConnectFails(c) \/ Connected(c) \/ PeerCloses(c)
          \/ ReadStep(c) \/ BeatStep(c) \/ JobsEnd(c)
          \/ Disconnect(c) \/ DisconnectStep(c)
    \/ SweepBegins \/ SweepNext
    \/ \E s \in Senders : SendEnds(s) \/ \E c \in Ids : Send(s, c)

Spec == Init /\ [][Next]_clientVars

\* Sleeps end, worker threads run the sends and closes given to them, and the loop
\* resumes a cancelled task.  Nothing is assumed of the peers, of recv, of the users
\* of the API, of the callback, or of the threads that cancelled tasks have left.
Fairness ==
    /\ \A c \in Ids :
          /\ WF_clientVars(BeatStep(c))
          /\ WF_clientVars(ReadCancelled(c))
          /\ WF_clientVars(DisconnectStep(c))
    /\ WF_clientVars(SweepNext)

FairSpec == Spec /\ Fairness

-----------------------------------------------------------------------------
(* Properties *)

\* Types; an entry is there from the answer of connect to its disconnect, and only
\* a running task of a connection that was taken out has a cancellation to see.
TypeOK ==
    /\ conns = {c \in Ids : phase[c] = "open"}
    /\ state \in [Ids -> {"CONNECTED", "ERROR"}]
    /\ phase \in [Ids -> Phases]
    /\ up \subseteq Ids
    /\ reader \in [Ids -> {"none", "recv", "callback", "over"}]
    /\ beat \in [Ids -> {"none", "sleep", "send", "over"}]
    /\ cancelRead \subseteq {c \in Ids \ conns : reader[c] \in {"recv", "callback"}}
    /\ cancelBeat \subseteq {c \in Ids \ conns : beat[c] \in {"sleep", "send"}}
    /\ late \subseteq Ids \ conns
    /\ sender \in [Senders -> Ids \cup {None}]
    /\ sweep \in {"idle", "on", "over"}
    /\ listed \subseteq Ids /\ todo \subseteq listed
    /\ current \in Ids \cup {None}
    /\ unnamed \subseteq Ids

\* Every message is logged with its peer's name, although the name is looked up
\* after the await of recv, when a disconnect may have removed the entry: the
\* cancellation that comes with the removal keeps the loop from getting that far.
MessagesNamePeer == unnamed = {}

\* What GET /api/client/status lists as CONNECTED, and api/send takes, is read:
\* an error in a callback, a timeout or an empty read never ends the read loop, and
\* whatever else ends it is shown, whether the association is lost or not.
ConnectedIsRead ==
    \A c \in conns : state[c] = "CONNECTED" => reader[c] \in {"recv", "callback"}

\* When disconnect_all returns, every connection that it found is out of the table
\* and on its way down, in spite of disconnects by other requests while it waited.
SweepTakesAll ==
    sweep = "over" => \A c \in listed : c \notin conns /\ phase[c] \in {"closing", "waiting", "gone"}

\* A lost association is shown as ERROR in the end, also when the kernel only gives
\* empty reads, which the read loop skips, and when failing sends tell nobody.
LostIsNoticed == \A c \in Ids : []<>(c \in conns \ up => state[c] = "ERROR")

\* disconnect returns although the threads of its tasks may be in recv or send for
\* ever, with no need for the timeout of wait_for.
DisconnectEnds == \A c \in Ids : []<>(phase[c] \notin {"closing", "waiting"})

\* disconnect_all comes to its end although recv and callbacks may block, and
\* without the timeout of wait_for.
SweepEnds == []<>(sweep # "on")
=============================================================================

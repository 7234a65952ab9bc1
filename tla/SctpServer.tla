----------------------------- MODULE SctpServer -----------------------------
(***************************************************************************)
(* The listeners of sctp-probe (sctp_probe/sctp_server.py): start and stop  *)
(* requests, accept loops and connection handlers on one event loop, with   *)
(* bind, accept, recv and close in worker threads.  A step performs the     *)
(* work a coroutine awaits and runs the coroutine up to its next await.     *)
(*                                                                         *)
(* An element of Starts is a start request and, when it succeeds, the       *)
(* entry it puts into _listeners; the one stop() that takes the entry out   *)
(* again is part of its life too.  Timeouts of accept and recv lead back to *)
(* the same await, they are stuttering steps.  peers and peer_tasks of an   *)
(* entry are always written together: peers stands for both.                *)
(***************************************************************************)
EXTENDS Integers, FiniteSets

CONSTANTS
    Starts,    \* start requests
    Port,      \* Starts -> port
    Host,      \* Starts -> bind_host
    Conns,     \* associations of peers, each used once
    PeerAddr,  \* Conns -> the peer's "ip:port"
    None

Ports == {Port[e] : e \in Starts}
Addrs == {PeerAddr[c] : c \in Conns}

ASSUME ServerAssumption ==
    /\ DOMAIN Port = Starts /\ DOMAIN Host = Starts /\ DOMAIN PeerAddr = Conns
    /\ None \notin Starts \cup Conns

VARIABLES
    listeners,  \* _listeners: port -> entry
    phase,      \* how far each start request, and the stop of its entry, has come
    bound,      \* entries whose listening socket is open
    acceptor,   \* the accept task each start request has created
    acceptsOn,  \* the entry each accept task has looked up
    accepted,   \* the conn each accept task's thread has, the task not yet
    peers,      \* entry["peers"] and entry["peer_tasks"]: address -> conn
    up,         \* associations whose socket is open at both ends
    handler,    \* the handler task of each association
    cancelled,  \* handlers with a cancellation they have not seen yet
    home,       \* history: the entry whose socket gave the association
    toClose,    \* stop()'s list of conns
    toAwait,    \* stop()'s list of handler tasks
    reported    \* history: associations with an assoc_down event

acceptVars == <<acceptor, acceptsOn, accepted>>
stopVars == <<toClose, toAwait>>
connVars == <<peers, up, handler, cancelled, home, reported>>
serverVars == <<listeners, phase, bound, acceptVars, connVars, stopVars>>

\* The phases of a request: "up" is the answer 200, "refused" any other answer; the
\* phases from "closing" on are the awaits of stop().
Stopping == {"closing", "peers", "cancelling", "waiting"}
Phases == {"idle", "creating", "refused", "up", "stopped"} \cup Stopping

Init ==
    /\ listeners = [p \in Ports |-> None]
    /\ phase = [e \in Starts |-> "idle"]
    /\ bound = {}
    /\ acceptor = [e \in Starts |-> "none"]
    /\ acceptsOn = [e \in Starts |-> None]
    /\ accepted = [e \in Starts |-> None]
    /\ peers = [e \in Starts |-> [a \in Addrs |-> None]]
    /\ up = {}
    /\ handler = [c \in Conns |-> "none"]
    /\ cancelled = {}
    /\ home = [c \in Conns |-> None]
    /\ toClose = [e \in Starts |-> {}]
    /\ toAwait = [e \in Starts |-> {}]
    /\ reported = {}

To(e, next) == phase' = [phase EXCEPT ![e] = next]

-----------------------------------------------------------------------------
(* start *)

\* Mutant: the entry is stored before its socket exists.
Begin_StoresEntry(e) ==
    /\ phase[e] = "idle"
    /\ listeners[Port[e]] = None
    /\ To(e, "creating")
    /\ listeners' = [listeners EXCEPT ![Port[e]] = e]
    /\ UNCHANGED <<bound, acceptVars, connVars, stopVars>>

\* The port is not in _listeners: the socket is created in a thread.
Begin(e) ==
    /\ phase[e] = "idle"
    /\ listeners[Port[e]] = None
    /\ To(e, "creating")
    /\ UNCHANGED <<listeners, bound, acceptVars, connVars, stopVars>>

\* ValueError("Already listening on port ..."), answered with 409.
Refuse(e) ==
    /\ phase[e] = "idle"
    /\ listeners[Port[e]] # None
    /\ To(e, "refused")
    /\ UNCHANGED <<listeners, bound, acceptVars, connVars, stopVars>>

\* bind or listen raises: the address is in use, here or elsewhere.
CreateFails(e) ==
    /\ phase[e] = "creating"
    /\ To(e, "refused")
    /\ UNCHANGED <<listeners, bound, acceptVars, connVars, stopVars>>

\* The socket is open; its accept task is created and the entry stored, over
\* whatever entry the port has by now.
Register(e) ==
    /\ phase[e] = "creating"
    /\ \A f \in bound : ~(Port[f] = Port[e] /\ Host[f] = Host[e])
    /\ To(e, "up")
    /\ bound' = bound \cup {e}
    /\ acceptor' = [acceptor EXCEPT ![e] = "new"]
    /\ listeners' = [listeners EXCEPT ![Port[e]] = e]
    /\ UNCHANGED <<acceptsOn, accepted, connVars, stopVars>>

-----------------------------------------------------------------------------
(* The accept loop *)

\* The task's first step looks the entry of its port up.
AcceptLoopBegins(e) ==
    LET entry == listeners[Port[e]]
    IN  /\ acceptor[e] = "new"
        /\ acceptor' = [acceptor EXCEPT ![e] = IF entry = None THEN "over" ELSE "on"]
        /\ acceptsOn' = [acceptsOn EXCEPT ![e] = entry]
        /\ UNCHANGED <<listeners, phase, bound, accepted, connVars, stopVars>>

\* The kernel has one association between two addresses: peers that have one with the
\* address of f, whether its conn is registered or still with an accept task.
Connected(f) ==
    LET same(g) == Host[g] = Host[f] /\ Port[g] = Port[f]
    IN  {PeerAddr[c] : c \in {d \in up : home[d] # None /\ same(home[d])}}
        \cup {PeerAddr[accepted[g]] : g \in {h \in Starts : accepted[h] \in up /\ same(acceptsOn[h])}}

Unused(c) == home[c] = None /\ \A f \in Starts : accepted[f] # c

\* accept returns a conn in the worker thread, while the socket it works on is open ...
\* (The associations of one peer differ in nothing else: they come in one order.)
Accept(e, c) ==
    /\ acceptor[e] = "on" /\ accepted[e] = None
    /\ acceptsOn[e] \in bound
    /\ Unused(c) /\ c = CHOOSE d \in Conns : Unused(d) /\ PeerAddr[d] = PeerAddr[c]
    /\ PeerAddr[c] \notin Connected(acceptsOn[e])
    /\ accepted' = [accepted EXCEPT ![e] = c]
    /\ up' = up \cup {c}
    /\ UNCHANGED <<listeners, phase, bound, acceptor, acceptsOn, peers, handler, cancelled, home, reported, stopVars>>

\* ... and the task resumes with it, when that socket may be closed and the entry
\* taken out of the table: the conn is registered under its address, over an entry
\* that address may still have, and its handler is started.
AcceptResumes(e) ==
    LET c == accepted[e]
        entry == acceptsOn[e]
    IN  /\ acceptor[e] = "on" /\ c # None
        /\ accepted' = [accepted EXCEPT ![e] = None]
        /\ handler' = [handler EXCEPT ![c] = "recv"]
        /\ home' = [home EXCEPT ![c] = entry]
        /\ peers' = [peers EXCEPT ![entry][PeerAddr[c]] = c]
        /\ UNCHANGED <<listeners, phase, bound, acceptor, acceptsOn, up, cancelled, reported, stopVars>>

-----------------------------------------------------------------------------
(* Connection handlers *)

\* recv gives data and the callback is awaited (module RulePipeline).
Receive(c) ==
    /\ handler[c] = "recv" /\ c \in up /\ c \notin cancelled
    /\ handler' = [handler EXCEPT ![c] = "callback"]
    /\ UNCHANGED <<listeners, phase, bound, acceptVars, peers, up, cancelled, home, reported, stopVars>>

CallbackReturns(c) ==
    /\ handler[c] = "callback" /\ c \notin cancelled
    /\ handler' = [handler EXCEPT ![c] = "recv"]
    /\ UNCHANGED <<listeners, phase, bound, acceptVars, peers, up, cancelled, home, reported, stopVars>>

\* The remote end closes, aborts or is lost.
PeerCloses(c) ==
    /\ c \in up
    /\ up' = up \ {c}
    /\ UNCHANGED <<listeners, phase, bound, acceptVars, peers, handler, cancelled, home, reported, stopVars>>

\* Mutant: the finally block forgets to remove the address.
Unregister_Forgotten(c) == UNCHANGED peers

\* The first lines of the finally block: the address is removed from the entry the
\* port has now.
Unregister(c) ==
    LET entry == listeners[Port[home[c]]]
    IN  peers' = IF entry = None THEN peers ELSE [peers EXCEPT ![entry][PeerAddr[c]] = None]

\* The handler leaves its loop: the finally block up to its await.
Finally(c) ==
    /\ Unregister(c)
    /\ handler' = [handler EXCEPT ![c] = "closing"]
    /\ cancelled' = cancelled \ {c}
    /\ UNCHANGED <<listeners, phase, bound, acceptVars, up, home, reported, stopVars>>

\* End of stream, or a cancellation during recv or the callback.
Leave(c) ==
    /\ \/ handler[c] = "recv" /\ (c \notin up \/ c \in cancelled)
       \/ handler[c] = "callback" /\ c \in cancelled
    /\ Finally(c)

\* recv raises although the association is up: whatever it is, the loop ends.
RecvFails(c) ==
    /\ handler[c] = "recv" /\ c \in up /\ c \notin cancelled
    /\ Finally(c)

\* The conn is closed and assoc_down goes out ...
Closed(c) ==
    /\ handler[c] = "closing" /\ c \notin cancelled
    /\ up' = up \ {c}
    /\ handler' = [handler EXCEPT ![c] = "over"]
    /\ reported' = reported \cup {c}
    /\ UNCHANGED <<listeners, phase, bound, acceptVars, peers, cancelled, home, stopVars>>

\* ... or a cancellation hits this await and ends the task without the event.
CloseCancelled(c) ==
    /\ handler[c] = "closing" /\ c \in cancelled
    /\ up' = up \ {c}
    /\ handler' = [handler EXCEPT ![c] = "over"]
    /\ cancelled' = cancelled \ {c}
    /\ UNCHANGED <<listeners, phase, bound, acceptVars, peers, home, reported, stopVars>>

-----------------------------------------------------------------------------
(* stop *)

Registered(e) == {c \in Conns : peers[e][PeerAddr[c]] = c}
Running == {c \in Conns : handler[c] \in {"recv", "callback", "closing"}}

\* The entry leaves _listeners; its socket is closed in a thread.
Stop(e) ==
    /\ phase[e] = "up"
    /\ listeners[Port[e]] = e
    /\ listeners' = [listeners EXCEPT ![Port[e]] = None]
    /\ To(e, "closing")
    /\ UNCHANGED <<bound, acceptVars, connVars, stopVars>>

\* Mutant: the accept task is left running.
ListenerClosed_AcceptGoesOn(e) ==
    /\ phase[e] = "closing"
    /\ bound' = bound \ {e}
    /\ toClose' = [toClose EXCEPT ![e] = Registered(e)]
    /\ To(e, IF Registered(e) = {} THEN "waiting" ELSE "peers")
    /\ UNCHANGED <<listeners, acceptVars, connVars, toAwait>>

\* The socket is closed, the accept task cancelled, the conns listed.  A conn that
\* the task has not resumed with is closed when the task lets it go.  Without listed
\* conns there are no handlers to cancel either and nothing is awaited.
ListenerClosed(e) ==
    /\ phase[e] = "closing"
    /\ bound' = bound \ {e}
    /\ acceptor' = [acceptor EXCEPT ![e] = "over"]
    /\ accepted' = [accepted EXCEPT ![e] = None]
    /\ up' = up \ {accepted[e]}
    /\ toClose' = [toClose EXCEPT ![e] = Registered(e)]
    /\ To(e, IF Registered(e) = {} THEN "waiting" ELSE "peers")
    /\ UNCHANGED <<listeners, acceptsOn, peers, handler, cancelled, home, reported, toAwait>>

\* The listed conns are closed in threads.
PeersClosed(e) ==
    /\ phase[e] = "peers"
    /\ up' = up \ toClose[e]
    /\ To(e, "cancelling")
    /\ UNCHANGED <<listeners, bound, acceptVars, peers, handler, cancelled, home, reported, stopVars>>

\* Mutants: every handler of the port is cancelled, or awaited.
HandlersCancelled_OfPort(e) ==
    /\ phase[e] = "cancelling"
    /\ toAwait' = [toAwait EXCEPT ![e] = Registered(e)]
    /\ cancelled' = cancelled \cup {c \in Running : Port[home[c]] = Port[e]}
    /\ To(e, "waiting")
    /\ UNCHANGED <<listeners, bound, acceptVars, peers, up, handler, home, reported, toClose>>

HandlersCancelled_AwaitsPort(e) ==
    /\ phase[e] = "cancelling"
    /\ toAwait' = [toAwait EXCEPT ![e] = {c \in Running : Port[home[c]] = Port[e]}]
    /\ cancelled' = cancelled \cup (Registered(e) \cap Running)
    /\ To(e, "waiting")
    /\ UNCHANGED <<listeners, bound, acceptVars, peers, up, handler, home, reported, toClose>>

\* The handlers of the entry are listed and cancelled; cancelling one that is over
\* changes nothing.
HandlersCancelled(e) ==
    /\ phase[e] = "cancelling"
    /\ toAwait' = [toAwait EXCEPT ![e] = Registered(e)]
    /\ cancelled' = cancelled \cup (Registered(e) \cap Running)
    /\ To(e, "waiting")
    /\ UNCHANGED <<listeners, bound, acceptVars, peers, up, handler, home, reported, toClose>>

\* wait_for gives up after its timeout and cancels the tasks once more.
StopTimesOut(e) ==
    /\ phase[e] = "waiting"
    /\ toAwait[e] \cap Running # {}
    /\ cancelled' = cancelled \cup (toAwait[e] \cap Running)
    /\ UNCHANGED <<listeners, phase, bound, acceptVars, peers, up, handler, home, reported, stopVars>>

\* All tasks are over and the request is answered.
StopReturns(e) ==
    /\ phase[e] = "waiting"
    /\ toAwait[e] \cap Running = {}
    /\ To(e, "stopped")
    /\ UNCHANGED <<listeners, bound, acceptVars, connVars, stopVars>>

-----------------------------------------------------------------------------
StartStep(e) == Begin(e) \/ Refuse(e) \/ CreateFails(e) \/ Register(e) \/ AcceptLoopBegins(e)
StopStep(e) ==
    ListenerClosed(e) \/ PeersClosed(e) \/ HandlersCancelled(e) \/ StopReturns(e)
HandlerStep(c) == CallbackReturns(c) \/ Leave(c) \/ Closed(c) \/ CloseCancelled(c)

Next ==
    \/ \E e \in Starts :
          \/ StartStep(e) \/ Stop(e) \/ StopStep(e) \/ StopTimesOut(e)
          \/ (\E c \in Conns : Accept(e, c)) \/ AcceptResumes(e)
    \/ \E c \in Conns : Receive(c) \/ RecvFails(c) \/ PeerCloses(c) \/ HandlerStep(c)

Spec == Init /\ [][Next]_serverVars

\* The loop resumes every task whose await is over and worker threads run the
\* closes given to them.  A callback returns (HandlerReturns of RulePipeline).
Fairness ==
    /\ \A e \in Starts : WF_serverVars(StopStep(e))
    /\ \A c \in Conns : WF_serverVars(HandlerStep(c))

FairSpec == Spec /\ Fairness

-----------------------------------------------------------------------------
(* Properties *)

\* Types; an entry in the table is one whose start has succeeded on that port and
\* which no stop has taken; only running handlers have a cancellation to see.
TypeOK ==
    /\ listeners \in [Ports -> Starts \cup {None}]
    /\ phase \in [Starts -> Phases]
    /\ bound \subseteq Starts
    /\ acceptor \in [Starts -> {"none", "new", "on", "over"}]
    /\ acceptsOn \in [Starts -> Starts \cup {None}]
    /\ accepted \in [Starts -> Conns \cup {None}]
    /\ \A e \in Starts : accepted[e] # None => acceptor[e] = "on" /\ home[accepted[e]] = None
    /\ peers \in [Starts -> [Addrs -> Conns \cup {None}]]
    /\ up \subseteq Conns
    /\ handler \in [Conns -> {"none", "recv", "callback", "closing", "over"}]
    /\ cancelled \subseteq Running
    /\ home \in [Conns -> Starts \cup {None}]
    /\ toClose \in [Starts -> SUBSET Conns]
    /\ toAwait \in [Starts -> SUBSET Conns]
    /\ reported \subseteq Conns
    /\ \A p \in Ports : listeners[p] # None => Port[listeners[p]] = p /\ phase[listeners[p]] = "up"

\* What status shows and send_to_peer finds: every peer of a listed entry has an
\* association of that port whose handler has not begun to leave, in spite of
\* restarts, entries that replace each other, and accept loops that work on
\* another's entry.
ListedPeersAreServed ==
    \A p \in Ports, a \in Addrs :
        listeners[p] # None /\ peers[listeners[p]][a] # None =>
            LET c == peers[listeners[p]][a]
            IN  PeerAddr[c] = a /\ Port[home[c]] = p /\ handler[c] \in {"recv", "callback"}

\* When stop() returns, an association that the listener's own accept task registered,
\* from an address no other association has used, is no longer served: not even one
\* that the thread had accepted when the socket was closed, which the task might have
\* registered after the conns were listed.  It is down, unless its handler was leaving
\* before the stop and is in its last close.  The accept task of another start that
\* works on this entry is not cancelled: what it registers may survive.
StopLeavesNothing ==
    \A e \in Starts, c \in Conns :
        /\ phase[e] = "stopped" /\ home[c] = e
        /\ \A f \in Starts \ {e} : acceptsOn[f] # e
        /\ \A d \in Conns \ {c} : home[d] # None => PeerAddr[d] # PeerAddr[c]
        => /\ handler[c] \in {"closing", "over"}
           /\ c \in up => handler[c] = "closing" /\ c \notin toClose[e]

\* assoc_down is lost only to a stop: an association that ends under a listener
\* that was not stopped is reported, whatever happens to other listeners of the port.
DownIsReported ==
    \A c \in Conns : handler[c] = "over" /\ phase[home[c]] = "up" => c \in reported

\* stop() returns although recv, callbacks and closes are under way in threads.
StopTerminates == \A e \in Starts : phase[e] \in Stopping ~> phase[e] = "stopped"

-----------------------------------------------------------------------------
(* Claims of the documentation that the code does not keep *)

=============================================================================

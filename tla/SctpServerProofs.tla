-------------------------- MODULE SctpServerProofs --------------------------
(***************************************************************************)
(* Theorems about SctpServer for every number of start requests, ports,     *)
(* hosts, associations and addresses.                                       *)
(***************************************************************************)
EXTENDS SctpServer, TLAPS

\* Phases before an entry exists.
Fresh == {"idle", "creating", "refused"}

\* An entry holds only its own associations, under their addresses.
PeersAtHome ==
    \A e \in Starts, a \in Addrs : peers[e][a] # None =>
        home[peers[e][a]] = e /\ PeerAddr[peers[e][a]] = a

\* An association with a handler was accepted on an entry that exists.
HandlersHaveHomes ==
    \A c \in Conns : IF handler[c] = "none" THEN home[c] = None
                     ELSE home[c] \in Starts /\ phase[home[c]] \notin Fresh

\* An accept loop works on an entry of its own port, its own or another's, that it
\* has looked up once; no conn is with two of them.
AcceptorsOnPort ==
    /\ \A e \in Starts : acceptor[e] = "on" =>
          acceptsOn[e] \in Starts /\ Port[acceptsOn[e]] = Port[e] /\ phase[acceptsOn[e]] \notin Fresh
    /\ \A e \in Starts : acceptor[e] \in {"none", "new"} => acceptsOn[e] = None
    /\ \A e, f \in Starts : accepted[e] = accepted[f] => e = f \/ accepted[e] = None
    /\ \A e \in Starts : phase[e] \in Fresh => acceptor[e] = "none"

\* A stop cancels and awaits handlers of its own entry only.
CancelledAtHome ==
    /\ \A e \in Starts : \A c \in toAwait[e] : home[c] = e
    /\ \A c \in cancelled : phase[home[c]] \in {"waiting", "stopped"}

\* Listed peers have running handlers.
ListedRun ==
    \A p \in Ports, a \in Addrs :
        listeners[p] # None /\ peers[listeners[p]][a] # None =>
            handler[peers[listeners[p]][a]] \in {"recv", "callback"}

\* The inductive invariant.
ServerInv ==
    /\ TypeOK /\ PeersAtHome /\ HandlersHaveHomes /\ AcceptorsOnPort
    /\ CancelledAtHome /\ ListedRun /\ DownIsReported

-----------------------------------------------------------------------------
LEMMA PortAndAddr ==
    /\ \A e \in Starts : Port[e] \in Ports
    /\ \A c \in Conns : PeerAddr[c] \in Addrs
BY DEF Ports, Addrs

\* The invariant gives the property of the listed peers.
LEMMA InvServes == ServerInv => ListedPeersAreServed
<1> SUFFICES ASSUME ServerInv, NEW p \in Ports, NEW a \in Addrs,
                    listeners[p] # None, peers[listeners[p]][a] # None
             PROVE  LET c == peers[listeners[p]][a]
                    IN  PeerAddr[c] = a /\ Port[home[c]] = p /\ handler[c] \in {"recv", "callback"}
  BY DEF ListedPeersAreServed
<1>1. listeners[p] \in Starts /\ Port[listeners[p]] = p
  BY DEF ServerInv, TypeOK
<1> QED
  BY <1>1 DEF ServerInv, PeersAtHome, ListedRun

LEMMA ServerInit == Init => ServerInv
BY PortAndAddr
DEF Init, ServerInv, TypeOK, PeersAtHome, HandlersHaveHomes, AcceptorsOnPort, CancelledAtHome,
    ListedRun, DownIsReported, Phases, Running

-----------------------------------------------------------------------------
(* start *)

\* Steps that move one request between phases before its entry exists.
LEMMA FreshStep ==
    ASSUME ServerInv, NEW e \in Starts, Begin(e) \/ Refuse(e) \/ CreateFails(e)
    PROVE  ServerInv'
<1>0. /\ phase[e] \in Fresh
      /\ \E next \in Fresh : phase' = [phase EXCEPT ![e] = next]
      /\ UNCHANGED <<listeners, bound, acceptVars, connVars, stopVars>>
  BY DEF Begin, Refuse, CreateFails, To, Fresh
<1>1. /\ phase[e] \in Fresh
      /\ phase' \in [Starts -> Phases]
      /\ phase'[e] \in Fresh
      /\ \A f \in Starts \ {e} : phase'[f] = phase[f]
      /\ UNCHANGED <<listeners, bound, acceptVars, connVars, stopVars>>
  BY <1>0 DEF Fresh, ServerInv, TypeOK, Phases
<1>2. TypeOK'
  BY <1>1 DEF ServerInv, TypeOK, Fresh, acceptVars, connVars, stopVars, Running
<1>3. HandlersHaveHomes' /\ AcceptorsOnPort'
  BY <1>1 DEF ServerInv, HandlersHaveHomes, AcceptorsOnPort, acceptVars, connVars
<1>4. PeersAtHome' /\ ListedRun'
  BY <1>1 DEF ServerInv, PeersAtHome, ListedRun, connVars
<1>5. CancelledAtHome'
  <2>1. \A c \in cancelled : phase[home[c]] \in {"waiting", "stopped"} /\ home[c] \in Starts
    BY DEF ServerInv, CancelledAtHome, TypeOK, Running, HandlersHaveHomes
  <2>2. \A c \in cancelled : home[c] \in Starts \ {e}
    BY <1>1, <2>1 DEF Fresh
  <2> QED
    BY <1>1, <2>1, <2>2 DEF ServerInv, CancelledAtHome, connVars, stopVars
<1>6. DownIsReported'
  BY <1>1 DEF ServerInv, DownIsReported, HandlersHaveHomes, TypeOK, connVars
<1> QED
  BY <1>2, <1>3, <1>4, <1>5, <1>6 DEF ServerInv

\* A new entry has no peers yet, so replacing another in the table lists nothing wrong.
LEMMA RegisterStep ==
    ASSUME ServerInv, NEW e \in Starts, Register(e)
    PROVE  ServerInv'
<1>1. /\ phase[e] \in Fresh
      /\ phase' = [phase EXCEPT ![e] = "up"]
      /\ listeners' = [listeners EXCEPT ![Port[e]] = e]
      /\ acceptor' = [acceptor EXCEPT ![e] = "new"]
      /\ bound' = bound \cup {e}
      /\ UNCHANGED <<acceptsOn, accepted, connVars, stopVars>>
  BY DEF Register, To, Fresh
<1>2. \A a \in Addrs : peers[e][a] = None
  BY <1>1, ServerAssumption DEF ServerInv, TypeOK, PeersAtHome, HandlersHaveHomes
<1>3. \A c \in Conns : handler[c] # "none" => home[c] \in Starts \ {e}
  BY <1>1 DEF ServerInv, HandlersHaveHomes
<1>4. TypeOK'
  <2>1. \A p \in Ports : listeners'[p] # None =>
           Port[listeners'[p]] = p /\ phase'[listeners'[p]] = "up"
    BY <1>1, PortAndAddr DEF ServerInv, TypeOK
  <2>2. /\ listeners' \in [Ports -> Starts \cup {None}]
        /\ phase' \in [Starts -> Phases]
        /\ acceptor' \in [Starts -> {"none", "new", "on", "over"}]
        /\ bound' \subseteq Starts
    BY <1>1 DEF ServerInv, TypeOK, Phases
  <2>3. \A f \in Starts : accepted[f] # None => acceptor'[f] = "on" /\ home[accepted[f]] = None
    BY <1>1 DEF ServerInv, TypeOK, AcceptorsOnPort
  <2> QED
    BY <1>1, <2>1, <2>2, <2>3 DEF ServerInv, TypeOK, connVars, stopVars, Running
<1>5. PeersAtHome'
  BY <1>1 DEF ServerInv, PeersAtHome, connVars
<1>6. HandlersHaveHomes'
  BY <1>1, <1>3 DEF ServerInv, HandlersHaveHomes, TypeOK, connVars
<1>7. AcceptorsOnPort'
  BY <1>1 DEF ServerInv, AcceptorsOnPort, TypeOK, Fresh
<1>8. CancelledAtHome'
  BY <1>1, <1>3 DEF ServerInv, CancelledAtHome, TypeOK, Running, connVars, stopVars
<1>9. ListedRun'
  BY <1>1, <1>2, PortAndAddr DEF ServerInv, ListedRun, TypeOK, connVars
<1>10. DownIsReported'
  BY <1>1, <1>3 DEF ServerInv, DownIsReported, TypeOK, connVars
<1> QED
  BY <1>4, <1>5, <1>6, <1>7, <1>8, <1>9, <1>10 DEF ServerInv

LEMMA AcceptLoopStep ==
    ASSUME ServerInv, NEW e \in Starts, AcceptLoopBegins(e)
    PROVE  ServerInv'
<1> DEFINE entry == listeners[Port[e]]
<1>1. /\ acceptor' = [acceptor EXCEPT ![e] = IF entry = None THEN "over" ELSE "on"]
      /\ acceptsOn' = [acceptsOn EXCEPT ![e] = entry]
      /\ UNCHANGED <<listeners, phase, bound, accepted, connVars, stopVars>>
  BY DEF AcceptLoopBegins
<1>2. acceptor[e] = "new"
  BY DEF AcceptLoopBegins
<1>3. entry \in Starts \cup {None} /\ (entry # None => Port[entry] = Port[e] /\ phase[entry] = "up")
  BY PortAndAddr DEF ServerInv, TypeOK
<1>4. /\ acceptor' \in [Starts -> {"none", "new", "on", "over"}]
      /\ acceptsOn' \in [Starts -> Starts \cup {None}]
      /\ acceptor'[e] = (IF entry = None THEN "over" ELSE "on") /\ acceptsOn'[e] = entry
      /\ \A f \in Starts \ {e} : acceptor'[f] = acceptor[f] /\ acceptsOn'[f] = acceptsOn[f]
  BY <1>1, <1>3 DEF ServerInv, TypeOK
<1>5. TypeOK'
  <2>1. \A f \in Starts : accepted[f] # None => acceptor'[f] = "on" /\ home[accepted[f]] = None
    BY <1>4, <1>2 DEF ServerInv, TypeOK
  <2> QED
    BY <1>1, <1>4, <2>1 DEF ServerInv, TypeOK, connVars, stopVars, Running
<1>6. AcceptorsOnPort'
  <2>1. acceptor'[e] \in {"on", "over"}
    BY <1>4
  <2>2. \A f \in Starts : acceptor'[f] = "on" =>
           acceptsOn'[f] \in Starts /\ Port[acceptsOn'[f]] = Port[f] /\ phase[acceptsOn'[f]] \notin Fresh
    BY <1>3, <1>4 DEF ServerInv, AcceptorsOnPort, Fresh
  <2>3. \A f \in Starts : acceptor'[f] \in {"none", "new"} => acceptsOn'[f] = None
    BY <1>4, <2>1 DEF ServerInv, AcceptorsOnPort
  <2>4. \A f \in Starts : phase[f] \in Fresh => acceptor'[f] = "none"
    BY <1>4, <1>2 DEF ServerInv, AcceptorsOnPort
  <2> QED
    BY <1>1, <2>2, <2>3, <2>4 DEF ServerInv, AcceptorsOnPort
<1> QED
  BY <1>1, <1>6, <1>5
  DEF ServerInv, PeersAtHome, HandlersHaveHomes, CancelledAtHome, ListedRun, DownIsReported,
      connVars, stopVars

-----------------------------------------------------------------------------
(* Associations and handlers *)

\* A conn that is still with its accept task is in no table.
LEMMA AcceptStep ==
    ASSUME ServerInv, NEW e \in Starts, NEW c \in Conns, Accept(e, c)
    PROVE  ServerInv'
<1>1. /\ acceptor[e] = "on" /\ home[c] = None /\ \A f \in Starts : accepted[f] # c
      /\ accepted' = [accepted EXCEPT ![e] = c]
      /\ up' = up \cup {c}
      /\ UNCHANGED <<listeners, phase, bound, acceptor, acceptsOn, peers, handler, cancelled, home, reported, stopVars>>
  BY DEF Accept, Unused
<1>2. accepted'[e] = c /\ \A f \in Starts \ {e} : accepted'[f] = accepted[f]
  BY <1>1 DEF ServerInv, TypeOK
<1>3. TypeOK'
  BY <1>1, <1>2 DEF ServerInv, TypeOK, stopVars, Running
<1>4. AcceptorsOnPort'
  BY <1>1, <1>2 DEF ServerInv, AcceptorsOnPort
<1> QED
  BY <1>1, <1>3, <1>4
  DEF ServerInv, PeersAtHome, HandlersHaveHomes, CancelledAtHome, ListedRun, DownIsReported, stopVars

LEMMA RegisteredStep ==
    ASSUME ServerInv, NEW e \in Starts, AcceptResumes(e)
    PROVE  ServerInv'
<1> DEFINE f == acceptsOn[e]
           c == accepted[e]
<1>0. c \in Conns /\ home[c] = None /\ handler[c] = "none" /\ None \notin Starts
  BY ServerAssumption DEF AcceptResumes, ServerInv, TypeOK, HandlersHaveHomes
<1>1. /\ acceptor[e] = "on"
      /\ accepted' = [accepted EXCEPT ![e] = None]
      /\ handler' = [handler EXCEPT ![c] = "recv"]
      /\ home' = [home EXCEPT ![c] = f]
      /\ peers' = [peers EXCEPT ![f][PeerAddr[c]] = c]
      /\ UNCHANGED <<listeners, phase, bound, acceptor, acceptsOn, up, cancelled, reported, stopVars>>
  BY DEF AcceptResumes
<1>2. /\ accepted'[e] = None /\ \A g \in Starts \ {e} : accepted'[g] = accepted[g]
      /\ \A g \in Starts \ {e} : accepted[g] # c
  BY <1>0, <1>1, ServerAssumption DEF ServerInv, TypeOK, AcceptorsOnPort
<1>3. f \in Starts /\ phase[f] \notin Fresh /\ PeerAddr[c] \in Addrs
  BY <1>0, <1>1, PortAndAddr DEF ServerInv, AcceptorsOnPort
<1>4. \A g \in Starts, a \in Addrs :
         peers'[g][a] = IF g = f /\ a = PeerAddr[c] THEN c ELSE peers[g][a]
  BY <1>1, <1>3 DEF ServerInv, TypeOK
<1>5. peers' \in [Starts -> [Addrs -> Conns \cup {None}]]
  BY <1>1, <1>3 DEF ServerInv, TypeOK
<1>6. c \notin Running /\ home[c] = None /\ None \notin Starts \cup Conns
  BY <1>0, ServerAssumption DEF Running
<1>7. c \notin cancelled /\ \A g \in Starts : c \notin toAwait[g]
  BY <1>6 DEF ServerInv, TypeOK, CancelledAtHome
<1>8. \A g \in Starts, a \in Addrs : peers[g][a] # c
  BY <1>0, ServerAssumption DEF ServerInv, PeersAtHome
<1>9. /\ handler' \in [Conns -> {"none", "recv", "callback", "closing", "over"}]
      /\ home' \in [Conns -> Starts \cup {None}]
      /\ \A d \in Conns \ {c} : handler'[d] = handler[d] /\ home'[d] = home[d]
      /\ handler'[c] = "recv" /\ home'[c] = f
  BY <1>0, <1>1, <1>3 DEF ServerInv, TypeOK
<1>10. Running' = Running \cup {c}
  BY <1>0, <1>9 DEF Running
<1>11. TypeOK'
  <2>1. /\ accepted' \in [Starts -> Conns \cup {None}]
        /\ \A g \in Starts : accepted'[g] # None => acceptor[g] = "on" /\ home'[accepted'[g]] = None
    BY <1>1, <1>9, <1>2 DEF ServerInv, TypeOK
  <2> QED
    BY <1>1, <1>5, <1>9, <1>10, <2>1 DEF ServerInv, TypeOK, stopVars
<1>12. PeersAtHome'
  <2> SUFFICES ASSUME NEW g \in Starts, NEW a \in Addrs, peers'[g][a] # None
               PROVE  home'[peers'[g][a]] = g /\ PeerAddr[peers'[g][a]] = a
    BY DEF PeersAtHome
  <2>1. CASE g = f /\ a = PeerAddr[c]
    BY <1>4, <1>9, <2>1
  <2>2. CASE ~(g = f /\ a = PeerAddr[c])
    <3>1. peers'[g][a] = peers[g][a] /\ peers[g][a] \in Conns \ {c}
      BY <1>4, <1>8, <2>2 DEF ServerInv, TypeOK
    <3> QED
      BY <1>9, <3>1 DEF ServerInv, PeersAtHome
  <2> QED
    BY <2>1, <2>2
<1>13. HandlersHaveHomes'
  BY <1>1, <1>3, <1>9 DEF ServerInv, HandlersHaveHomes
<1>14. AcceptorsOnPort'
  BY <1>1, <1>2 DEF ServerInv, AcceptorsOnPort
<1>15. CancelledAtHome'
  BY <1>1, <1>7, <1>9 DEF ServerInv, CancelledAtHome, stopVars, TypeOK
<1>16. ListedRun'
  <2> SUFFICES ASSUME NEW p \in Ports, NEW a \in Addrs,
                      listeners[p] # None, peers'[listeners[p]][a] # None
               PROVE  handler'[peers'[listeners[p]][a]] \in {"recv", "callback"}
    BY <1>1 DEF ListedRun
  <2>1. listeners[p] \in Starts
    BY DEF ServerInv, TypeOK
  <2>2. CASE peers'[listeners[p]][a] = c
    BY <1>9, <2>2
  <2>3. CASE peers'[listeners[p]][a] # c
    <3>1. peers'[listeners[p]][a] = peers[listeners[p]][a] /\ peers[listeners[p]][a] \in Conns \ {c}
      BY <1>4, <1>8, <2>1, <2>3 DEF ServerInv, TypeOK
    <3> QED
      BY <1>9, <3>1 DEF ServerInv, ListedRun
  <2> QED
    BY <2>2, <2>3
<1>17. DownIsReported'
  BY <1>1, <1>9 DEF ServerInv, DownIsReported
<1> QED
  BY <1>11, <1>12, <1>13, <1>14, <1>15, <1>16, <1>17 DEF ServerInv

\* Data, callbacks and closing peers change no table.
LEMMA TrafficStep ==
    ASSUME ServerInv, NEW c \in Conns, Receive(c) \/ CallbackReturns(c) \/ PeerCloses(c)
    PROVE  ServerInv'
<1>1. /\ up' \subseteq Conns
      /\ handler' \in [Conns -> {"none", "recv", "callback", "closing", "over"}]
      /\ \A d \in Conns : handler'[d] = handler[d]
                           \/ (handler[d] \in {"recv", "callback"} /\ handler'[d] \in {"recv", "callback"})
      /\ UNCHANGED <<listeners, phase, bound, acceptVars, peers, cancelled, home, reported, stopVars>>
  BY DEF Receive, CallbackReturns, PeerCloses, ServerInv, TypeOK
<1>2. Running' = Running
  BY <1>1 DEF Running
<1>3. TypeOK'
  BY <1>1, <1>2 DEF ServerInv, TypeOK, acceptVars, stopVars
<1>4. PeersAtHome' /\ AcceptorsOnPort' /\ CancelledAtHome'
  BY <1>1 DEF ServerInv, PeersAtHome, AcceptorsOnPort, CancelledAtHome, acceptVars, stopVars
<1>5. HandlersHaveHomes' /\ DownIsReported'
  BY <1>1 DEF ServerInv, HandlersHaveHomes, DownIsReported
<1>6. ListedRun'
  <2> SUFFICES ASSUME NEW p \in Ports, NEW a \in Addrs,
                      listeners[p] # None, peers[listeners[p]][a] # None
               PROVE  handler'[peers[listeners[p]][a]] \in {"recv", "callback"}
    BY <1>1 DEF ListedRun
  <2>1. peers[listeners[p]][a] \in Conns
    BY DEF ServerInv, TypeOK
  <2> QED
    BY <1>1, <2>1 DEF ServerInv, ListedRun
<1> QED
  BY <1>3, <1>4, <1>5, <1>6 DEF ServerInv

\* The finally block removes its own address from the entry its port has: if that
\* entry lists the association, the entry is its home.
LEMMA LeaveStep ==
    ASSUME ServerInv, NEW c \in Conns, Leave(c) \/ RecvFails(c)
    PROVE  ServerInv'
<1> DEFINE f == listeners[Port[home[c]]]
<1>1. /\ handler[c] \in {"recv", "callback"}
      /\ handler' = [handler EXCEPT ![c] = "closing"]
      /\ cancelled' = cancelled \ {c}
      /\ peers' = IF f = None THEN peers ELSE [peers EXCEPT ![f][PeerAddr[c]] = None]
      /\ UNCHANGED <<listeners, phase, bound, acceptVars, up, home, reported, stopVars>>
  BY DEF Leave, RecvFails, Finally, Unregister
<1>2. home[c] \in Starts /\ Port[home[c]] \in Ports /\ PeerAddr[c] \in Addrs
  BY <1>1, PortAndAddr DEF ServerInv, HandlersHaveHomes
<1>3. f \in Starts \cup {None}
  BY <1>2 DEF ServerInv, TypeOK
<1>4. \A g \in Starts, a \in Addrs :
         peers'[g][a] = IF f # None /\ g = f /\ a = PeerAddr[c] THEN None ELSE peers[g][a]
  BY <1>1, <1>2, <1>3, ServerAssumption DEF ServerInv, TypeOK
<1>5. peers' \in [Starts -> [Addrs -> Conns \cup {None}]]
  BY <1>1, <1>2, <1>3 DEF ServerInv, TypeOK
<1>6. /\ handler' \in [Conns -> {"none", "recv", "callback", "closing", "over"}]
      /\ handler'[c] = "closing" /\ \A d \in Conns \ {c} : handler'[d] = handler[d]
  BY <1>1 DEF ServerInv, TypeOK
<1>7. Running' = Running
  BY <1>1, <1>6 DEF Running
<1>8. TypeOK'
  BY <1>1, <1>5, <1>6, <1>7 DEF ServerInv, TypeOK, acceptVars, stopVars
<1>9. PeersAtHome'
  BY <1>1, <1>4 DEF ServerInv, PeersAtHome
<1>10. HandlersHaveHomes' /\ DownIsReported'
  BY <1>1, <1>6 DEF ServerInv, HandlersHaveHomes, DownIsReported
<1>11. AcceptorsOnPort' /\ CancelledAtHome'
  BY <1>1 DEF ServerInv, AcceptorsOnPort, CancelledAtHome, acceptVars, stopVars
<1>12. ListedRun'
  <2> SUFFICES ASSUME NEW p \in Ports, NEW a \in Addrs,
                      listeners[p] # None, peers'[listeners[p]][a] # None
               PROVE  handler'[peers'[listeners[p]][a]] \in {"recv", "callback"}
    BY <1>1 DEF ListedRun
  <2> DEFINE g == listeners[p]
             d == peers'[g][a]
  <2>1. g \in Starts /\ Port[g] = p
    BY DEF ServerInv, TypeOK
  <2>2. d = peers[g][a] /\ d \in Conns
    BY <1>4, <2>1 DEF ServerInv, TypeOK
  <2>3. home[d] = g /\ PeerAddr[d] = a
    BY <2>1, <2>2 DEF ServerInv, PeersAtHome
  <2>4. d # c
    BY <1>4, <2>1, <2>3
  <2> QED
    BY <1>6, <2>2, <2>4 DEF ServerInv, ListedRun
<1> QED
  BY <1>8, <1>9, <1>10, <1>11, <1>12 DEF ServerInv

\* The end of a handler: reported, or cancelled by the stop of its own entry.
LEMMA ClosedStep ==
    ASSUME ServerInv, NEW c \in Conns, Closed(c) \/ CloseCancelled(c)
    PROVE  ServerInv'
<1>1. /\ handler[c] = "closing"
      /\ handler' = [handler EXCEPT ![c] = "over"]
      /\ up' = up \ {c}
      /\ cancelled' = cancelled \ {c}
      /\ \/ c \notin cancelled /\ reported' = reported \cup {c}
         \/ c \in cancelled /\ reported' = reported
      /\ UNCHANGED <<listeners, phase, bound, acceptVars, peers, home, stopVars>>
  BY DEF Closed, CloseCancelled
<1>2. /\ handler' \in [Conns -> {"none", "recv", "callback", "closing", "over"}]
      /\ handler'[c] = "over" /\ \A d \in Conns \ {c} : handler'[d] = handler[d]
  BY <1>1 DEF ServerInv, TypeOK
<1>3. Running' = Running \ {c}
  BY <1>1, <1>2 DEF Running
<1>4. TypeOK'
  BY <1>1, <1>2, <1>3 DEF ServerInv, TypeOK, acceptVars, stopVars
<1>5. PeersAtHome' /\ AcceptorsOnPort' /\ CancelledAtHome'
  BY <1>1 DEF ServerInv, PeersAtHome, AcceptorsOnPort, CancelledAtHome, acceptVars, stopVars
<1>6. HandlersHaveHomes'
  BY <1>1, <1>2 DEF ServerInv, HandlersHaveHomes
<1>7. ListedRun'
  <2> SUFFICES ASSUME NEW p \in Ports, NEW a \in Addrs,
                      listeners[p] # None, peers[listeners[p]][a] # None
               PROVE  handler'[peers[listeners[p]][a]] \in {"recv", "callback"}
    BY <1>1 DEF ListedRun
  <2>1. /\ peers[listeners[p]][a] \in Conns
        /\ handler[peers[listeners[p]][a]] \in {"recv", "callback"}
    BY DEF ServerInv, TypeOK, ListedRun
  <2> QED
    BY <1>1, <1>2, <2>1
<1>8. DownIsReported'
  BY <1>1, <1>2 DEF ServerInv, DownIsReported, CancelledAtHome
<1> QED
  BY <1>4, <1>5, <1>6, <1>7, <1>8 DEF ServerInv

-----------------------------------------------------------------------------
(* stop *)

\* What each step of a stop has in common: the entry goes from one phase to a later
\* one, and associations only go down.
LEMMA StopSteps ==
    ASSUME ServerInv, NEW e \in Starts, Stop(e) \/ StopStep(e) \/ StopTimesOut(e)
    PROVE  ServerInv'
<1>1. /\ phase[e] \in {"up"} \cup Stopping
      /\ \E next \in Stopping \cup {"stopped"} :
            /\ phase' = [phase EXCEPT ![e] = next]
            /\ phase[e] = "waiting" => next \in {"waiting", "stopped"}
            /\ cancelled' # cancelled => next = "waiting"
      /\ \/ listeners' = listeners
         \/ phase[e] = "up" /\ listeners[Port[e]] = e /\ listeners' = [listeners EXCEPT ![Port[e]] = None]
      /\ listeners' = listeners => phase[e] # "up"
      /\ bound' \subseteq bound
      /\ \/ acceptor' = acceptor /\ accepted' = accepted
         \/ acceptor' = [acceptor EXCEPT ![e] = "over"] /\ accepted' = [accepted EXCEPT ![e] = None]
      /\ up' \subseteq up
      /\ cancelled' \subseteq cancelled \cup ((Registered(e) \cup toAwait[e]) \cap Running)
      /\ (toClose' = toClose \/ toClose' = [toClose EXCEPT ![e] = Registered(e)])
      /\ (toAwait' = toAwait \/ toAwait' = [toAwait EXCEPT ![e] = Registered(e)])
      /\ UNCHANGED <<acceptsOn, peers, handler, home, reported>>
  <2>1. CASE Stop(e)
    BY <2>1, PortAndAddr, ServerAssumption
    DEF Stop, To, Stopping, acceptVars, connVars, stopVars, ServerInv, TypeOK
  <2>2. CASE ListenerClosed(e)
    BY <2>2 DEF ListenerClosed, To, Stopping
  <2>3. CASE PeersClosed(e)
    BY <2>3 DEF PeersClosed, To, Stopping, acceptVars, stopVars
  <2>4. CASE HandlersCancelled(e)
    BY <2>4 DEF HandlersCancelled, To, Stopping, acceptVars
  <2>5. CASE StopTimesOut(e)
    BY <2>5 DEF StopTimesOut, To, Stopping, acceptVars, stopVars, ServerInv, TypeOK
  <2>6. CASE StopReturns(e)
    BY <2>6 DEF StopReturns, To, Stopping, acceptVars, connVars, stopVars
  <2> QED
    BY <2>1, <2>2, <2>3, <2>4, <2>5, <2>6 DEF StopStep
<1>2. /\ phase' \in [Starts -> Phases]
      /\ phase'[e] \in Stopping \cup {"stopped"}
      /\ phase[e] = "waiting" => phase'[e] \in {"waiting", "stopped"}
      /\ phase[e] # "stopped"
      /\ cancelled' # cancelled => phase'[e] = "waiting"
      /\ \A g \in Starts \ {e} : phase'[g] = phase[g]
  BY <1>1 DEF ServerInv, TypeOK, Phases, Stopping
<1>3. \A c \in Registered(e) : home[c] = e
  BY PortAndAddr, ServerAssumption DEF ServerInv, PeersAtHome, Registered
<1>4. /\ listeners' \in [Ports -> Starts \cup {None}]
      /\ \A p \in Ports : listeners'[p] # None => listeners'[p] = listeners[p] /\ listeners[p] # e
  BY <1>1, PortAndAddr DEF ServerInv, TypeOK
<1>5. Running' = Running /\ Registered(e) \subseteq Conns
  BY <1>1 DEF Running, Registered
<1>6. /\ accepted' \in [Starts -> Conns \cup {None}]
      /\ \A g \in Starts : \/ acceptor'[g] = acceptor[g] /\ accepted'[g] = accepted[g]
                           \/ g = e /\ acceptor'[g] = "over" /\ accepted'[g] = None
  <2>1. /\ acceptor \in [Starts -> {"none", "new", "on", "over"}]
        /\ accepted \in [Starts -> Conns \cup {None}]
    BY DEF ServerInv, TypeOK
  <2>2. \/ acceptor' = acceptor /\ accepted' = accepted
        \/ acceptor' = [acceptor EXCEPT ![e] = "over"] /\ accepted' = [accepted EXCEPT ![e] = None]
    BY <1>1
  <2> QED
    BY <2>1, <2>2
<1>7. \A g \in Starts : toAwait'[g] = toAwait[g] \/ (g = e /\ toAwait'[g] = Registered(e))
  <2>1. toAwait \in [Starts -> SUBSET Conns]
    BY DEF ServerInv, TypeOK
  <2>2. toAwait' = toAwait \/ toAwait' = [toAwait EXCEPT ![e] = Registered(e)]
    BY <1>1
  <2> QED
    BY <2>1, <2>2
<1>8. TypeOK'
  <2>1. \A p \in Ports : listeners'[p] # None =>
           Port[listeners'[p]] = p /\ phase'[listeners'[p]] = "up"
    BY <1>2, <1>4 DEF ServerInv, TypeOK
  <2>2. /\ acceptor' \in [Starts -> {"none", "new", "on", "over"}]
        /\ toClose' \in [Starts -> SUBSET Conns]
        /\ toAwait' \in [Starts -> SUBSET Conns]
    <3>1. acceptor' \in [Starts -> {"none", "new", "on", "over"}]
      BY <1>1 DEF ServerInv, TypeOK
    <3>2. toClose \in [Starts -> SUBSET Conns] /\ toAwait \in [Starts -> SUBSET Conns]
      BY DEF ServerInv, TypeOK
    <3>3. Registered(e) \in SUBSET Conns
      BY <1>5
    <3>4. (toClose' = toClose \/ toClose' = [toClose EXCEPT ![e] = Registered(e)])
      BY <1>1
    <3>5. (toAwait' = toAwait \/ toAwait' = [toAwait EXCEPT ![e] = Registered(e)])
      BY <1>1
    <3>6. toClose' \in [Starts -> SUBSET Conns]
      BY <3>2, <3>3, <3>4
    <3>7. toAwait' \in [Starts -> SUBSET Conns]
      BY <3>2, <3>3, <3>5
    <3> QED
      BY <3>1, <3>6, <3>7
  <2>4. \A g \in Starts : accepted'[g] # None => acceptor'[g] = "on" /\ home[accepted'[g]] = None
    BY <1>6 DEF ServerInv, TypeOK
  <2>3. cancelled' \subseteq Running' /\ bound' \subseteq Starts /\ up' \subseteq Conns
    BY <1>1, <1>5 DEF ServerInv, TypeOK
  <2> QED
    BY <1>1, <1>2, <1>4, <1>6, <2>1, <2>2, <2>3, <2>4 DEF ServerInv, TypeOK
<1>9. PeersAtHome'
  BY <1>1 DEF ServerInv, PeersAtHome
<1>10. HandlersHaveHomes'
  BY <1>1, <1>2 DEF ServerInv, HandlersHaveHomes, Fresh, Stopping
<1>11. AcceptorsOnPort'
  <2>1. \A g \in Starts : phase[g] \notin Fresh <=> phase'[g] \notin Fresh
    BY <1>1, <1>2 DEF Fresh, Stopping
  <2>2. \A g \in Starts : acceptor'[g] = "on" =>
           acceptsOn[g] \in Starts /\ Port[acceptsOn[g]] = Port[g] /\ phase'[acceptsOn[g]] \notin Fresh
    BY <1>6, <2>1 DEF ServerInv, AcceptorsOnPort
  <2>3. \A g \in Starts : acceptor'[g] \in {"none", "new"} => acceptsOn[g] = None
    BY <1>6 DEF ServerInv, AcceptorsOnPort
  <2>4. \A g, h \in Starts : accepted'[g] = accepted'[h] => g = h \/ accepted'[g] = None
    BY <1>6 DEF ServerInv, AcceptorsOnPort
  <2>5. \A g \in Starts : phase'[g] \in Fresh => acceptor'[g] = "none"
    <3> SUFFICES ASSUME NEW g \in Starts, phase'[g] \in Fresh
                 PROVE  acceptor'[g] = "none"
      OBVIOUS
    <3>1. g # e /\ phase[g] \in Fresh
      BY <1>2, <2>1 DEF Fresh, Stopping
    <3> QED
      BY <1>6, <3>1 DEF ServerInv, AcceptorsOnPort
  <2> QED
    BY <1>1, <2>2, <2>3, <2>4, <2>5 DEF AcceptorsOnPort
<1>12. CancelledAtHome'
  <2>1. \A g \in Starts : \A c \in toAwait'[g] : home[c] = g
    BY <1>3, <1>7 DEF ServerInv, CancelledAtHome
  <2>2. ASSUME NEW c \in cancelled' PROVE phase'[home[c]] \in {"waiting", "stopped"}
    <3>1. CASE c \in cancelled
      <4>1. home[c] \in Starts /\ phase[home[c]] \in {"waiting", "stopped"}
        BY <3>1 DEF ServerInv, CancelledAtHome, TypeOK, Running, HandlersHaveHomes
      <4> QED
        BY <1>2, <4>1
    <3>2. CASE c \notin cancelled
      <4>1. home[c] = e
        BY <1>1, <1>3, <3>2 DEF ServerInv, CancelledAtHome
      <4> QED
        BY <1>2, <3>2, <4>1
    <3> QED
      BY <3>1, <3>2
  <2> QED
    BY <1>1, <2>1, <2>2 DEF CancelledAtHome
<1>13. ListedRun'
  BY <1>1, <1>4 DEF ServerInv, ListedRun
<1>14. DownIsReported'
  BY <1>1, <1>2 DEF ServerInv, DownIsReported, HandlersHaveHomes, Stopping
<1> QED
  BY <1>8, <1>9, <1>10, <1>11, <1>12, <1>13, <1>14 DEF ServerInv

-----------------------------------------------------------------------------
LEMMA ServerNext == ServerInv /\ [Next]_serverVars => ServerInv'
<1>1. ServerInv /\ UNCHANGED serverVars => ServerInv'
  BY DEF serverVars, acceptVars, connVars, stopVars, ServerInv, TypeOK, PeersAtHome, HandlersHaveHomes,
         AcceptorsOnPort, CancelledAtHome, ListedRun, DownIsReported, Running
<1> QED
  BY <1>1, FreshStep, RegisterStep, AcceptLoopStep, AcceptStep, RegisteredStep,
     TrafficStep, LeaveStep, ClosedStep, StopSteps
  DEF Next, StartStep, HandlerStep

\* The inductive invariant holds in every reachable state.
THEOREM ServerInvariant == Spec => []ServerInv
BY ServerInit, ServerNext, PTL DEF Spec

\* The tables, tasks and lists of the server keep their types; only successful starts
\* are listed, and only running handlers have a cancellation to see.
THEOREM ServerTypes == Spec => []TypeOK
BY ServerInvariant, PTL DEF ServerInv

\* Every peer that status shows and send_to_peer finds has an association of that
\* port and a handler that has not begun to leave.
THEOREM ListedServed == Spec => []ListedPeersAreServed
BY ServerInvariant, InvServes, PTL

\* Only the stop of its own listener can make an association end unreported.
THEOREM DownReported == Spec => []DownIsReported
BY ServerInvariant, PTL DEF ServerInv

-----------------------------------------------------------------------------
(* What a stop leaves behind: an association with an address of its own, which only
   the accept task of its listener can have registered, does not survive the stop *)

Serving(c) == handler[c] \in {"recv", "callback"}

\* No other association has ever used the address of c.
Alone(c) == \A d \in Conns \ {c} : home[d] # None => PeerAddr[d] # PeerAddr[c]

\* The associations the property speaks of, by their entry.
Own(e) == {c \in Conns : home[c] = e /\ Alone(c) /\ \A f \in Starts \ {e} : acceptsOn[f] # e}

\* A stop that has closed the listening socket, and one that has closed the conns.
Silent == {"peers", "cancelling", "waiting", "stopped"}
Down == {"cancelling", "waiting", "stopped"}

\* Nobody but its handler takes such an association out of the table.
OwnAreListed == \A e \in Starts, c \in Conns :
    c \in Own(e) /\ Serving(c) => peers[e][PeerAddr[c]] = c

\* The accept task of the entry registers nothing any more.
SilentIsOver == \A e \in Starts : phase[e] \in Silent => acceptor[e] = "over"

\* A stop closes conns of its own entry, once.
ListedAreDown == \A e \in Starts : \A c \in toClose[e] :
    home[c] = e /\ (phase[e] \in Down => c \notin up)

OverAreDown == \A c \in Conns : handler[c] = "over" => c \notin up

\* The stop has found each of them on its way: in the list it awaits.
OwnAreFound == \A e \in Starts, c \in Conns : c \in Own(e) =>
    /\ phase[e] = "waiting" /\ Serving(c) => c \in toAwait[e]
    /\ phase[e] = "stopped" => ~Serving(c)

StopInv == OwnAreListed /\ SilentIsOver /\ ListedAreDown /\ OverAreDown /\ OwnAreFound

-----------------------------------------------------------------------------
\* An entry that does not exist yet has no associations.
LEMMA FreshHasNone ==
    ASSUME ServerInv, NEW e \in Starts, phase[e] \in Fresh, NEW c \in Conns
    PROVE  home[c] # e
BY ServerAssumption DEF ServerInv, HandlersHaveHomes

\* Steps that register nothing, move no stop and let no handler go back to work.
LEMMA CalmStep ==
    ASSUME StopInv, UNCHANGED <<phase, home, acceptor, acceptsOn, stopVars>>, up' \subseteq up,
           \A c \in Conns : Serving(c)' => Serving(c),
           OwnAreListed', OverAreDown'
    PROVE  StopInv'
<1>1. \A e \in Starts : Own(e)' = Own(e)
  BY DEF Own, Alone
<1>2. SilentIsOver'
  BY DEF StopInv, SilentIsOver
<1>3. OwnAreFound'
  BY <1>1 DEF StopInv, OwnAreFound, stopVars
<1>4. ListedAreDown'
  BY DEF StopInv, ListedAreDown, stopVars
<1> QED
  BY <1>2, <1>3, <1>4 DEF StopInv

\* Steps of starts: the entry has no associations yet.
LEMMA StartKeeps ==
    ASSUME ServerInv, StopInv, NEW e \in Starts,
           Begin(e) \/ Refuse(e) \/ CreateFails(e) \/ Register(e)
    PROVE  StopInv'
<1>1. /\ phase[e] \in Fresh
      /\ \E next \in Fresh \cup {"up"} : phase' = [phase EXCEPT ![e] = next]
      /\ \A f \in Starts \ {e} : acceptor'[f] = acceptor[f]
      /\ UNCHANGED <<acceptsOn, connVars, stopVars>>
  BY DEF Begin, Refuse, CreateFails, Register, To, Fresh, acceptVars, ServerInv, TypeOK
<1>2. /\ phase'[e] \in Fresh \cup {"up"}
      /\ \A f \in Starts \ {e} : phase'[f] = phase[f]
  BY <1>1 DEF ServerInv, TypeOK
<1>3. \A c \in Conns : home[c] # e
  BY <1>1, FreshHasNone
<1>4. \A f \in Starts : Own(f)' = Own(f)
  BY <1>1 DEF Own, Alone, connVars
<1>5. OwnAreListed' /\ OverAreDown'
  BY <1>1, <1>4 DEF StopInv, OwnAreListed, OverAreDown, Serving, connVars
<1>6. ListedAreDown'
  BY <1>1, <1>2, <1>3 DEF StopInv, ListedAreDown, connVars, stopVars, ServerInv, TypeOK
<1>7. SilentIsOver'
  BY <1>1, <1>2 DEF StopInv, SilentIsOver, Silent, Fresh
<1>8. OwnAreFound'
  BY <1>1, <1>2, <1>3, <1>4 DEF StopInv, OwnAreFound, Serving, Own, connVars, stopVars
<1> QED
  BY <1>5, <1>6, <1>7, <1>8 DEF StopInv

\* A second loop on an entry makes its associations no longer its own.
LEMMA AcceptLoopKeeps ==
    ASSUME ServerInv, StopInv, NEW e \in Starts, AcceptLoopBegins(e)
    PROVE  StopInv'
<1>1. /\ acceptor[e] = "new" /\ acceptsOn[e] = None
      /\ \A f \in Starts \ {e} : acceptor'[f] = acceptor[f] /\ acceptsOn'[f] = acceptsOn[f]
      /\ UNCHANGED <<phase, connVars, stopVars>>
  BY DEF AcceptLoopBegins, ServerInv, TypeOK, AcceptorsOnPort
<1>2. \A f \in Starts : Own(f)' \subseteq Own(f)
  BY <1>1, ServerAssumption DEF Own, Alone, connVars
<1>3. SilentIsOver'
  BY <1>1 DEF StopInv, SilentIsOver
<1> QED
  BY <1>1, <1>2, <1>3
  DEF StopInv, OwnAreListed, ListedAreDown, OverAreDown, OwnAreFound, Serving, connVars, stopVars

\* A conn that is still with its accept task has no handler.
LEMMA AcceptKeeps ==
    ASSUME ServerInv, StopInv, NEW e \in Starts, NEW c \in Conns, Accept(e, c)
    PROVE  StopInv'
<1>1. /\ handler[c] = "none" /\ home[c] = None
      /\ up' = up \cup {c}
      /\ UNCHANGED <<phase, acceptor, acceptsOn, peers, handler, home, stopVars>>
  BY ServerAssumption DEF Accept, Unused, ServerInv, HandlersHaveHomes
<1>2. \A f \in Starts : Own(f)' = Own(f)
  BY <1>1 DEF Own, Alone
<1>3. ListedAreDown'
  BY <1>1, ServerAssumption DEF StopInv, ListedAreDown, stopVars
<1>4. OverAreDown'
  BY <1>1 DEF StopInv, OverAreDown
<1> QED
  BY <1>1, <1>2, <1>3, <1>4 DEF StopInv, OwnAreListed, SilentIsOver, OwnAreFound, Serving, stopVars

\* An association is registered at the entry of a loop that runs: the entry's own, which
\* no stop has silenced, or another's, and then it is not the entry's own.  It makes
\* others no longer alone, but none alone that was not.
LEMMA RegisteredKeeps ==
    ASSUME ServerInv, StopInv, NEW e \in Starts, AcceptResumes(e)
    PROVE  StopInv'
<1> DEFINE f == acceptsOn[e]
           c == accepted[e]
<1>0. c \in Conns /\ home[c] = None /\ handler[c] = "none"
  BY ServerAssumption DEF AcceptResumes, ServerInv, TypeOK, HandlersHaveHomes
<1>1. /\ acceptor[e] = "on"
      /\ handler' = [handler EXCEPT ![c] = "recv"]
      /\ home' = [home EXCEPT ![c] = f]
      /\ peers' = [peers EXCEPT ![f][PeerAddr[c]] = c]
      /\ UNCHANGED <<phase, acceptor, acceptsOn, up, stopVars>>
  BY DEF AcceptResumes
<1>2. f \in Starts /\ PeerAddr[c] \in Addrs /\ f # None
  BY <1>0, <1>1, PortAndAddr, ServerAssumption DEF ServerInv, AcceptorsOnPort
<1>3. \A g \in Starts, a \in Addrs :
         peers'[g][a] = IF g = f /\ a = PeerAddr[c] THEN c ELSE peers[g][a]
  BY <1>1, <1>2 DEF ServerInv, TypeOK
<1>4. /\ \A d \in Conns \ {c} : handler'[d] = handler[d] /\ home'[d] = home[d]
      /\ handler'[c] = "recv" /\ home'[c] = f
  BY <1>0, <1>1, <1>2 DEF ServerInv, TypeOK
<1>5. \A g \in Starts, d \in Conns \ {c} :
         d \in Own(g)' => d \in Own(g) /\ PeerAddr[d] # PeerAddr[c]
  BY <1>0, <1>1, <1>2, <1>4 DEF Own, Alone
<1>6. \A g \in Starts : c \in Own(g)' => g = f /\ phase[f] \notin Silent
  <2> SUFFICES ASSUME NEW g \in Starts, c \in Own(g)'
               PROVE  g = f /\ phase[f] \notin Silent
    OBVIOUS
  <2>1. g = f /\ e = f
    BY <1>1, <1>4 DEF Own
  <2> QED
    BY <1>1, <2>1 DEF StopInv, SilentIsOver
<1>7. OwnAreListed'
  <2> SUFFICES ASSUME NEW g \in Starts, NEW d \in Conns, d \in Own(g)', Serving(d)'
               PROVE  peers'[g][PeerAddr[d]] = d
    BY DEF OwnAreListed
  <2>1. CASE d = c
    BY <1>2, <1>3, <1>6, <2>1
  <2>2. CASE d # c
    <3>1. d \in Own(g) /\ Serving(d) /\ PeerAddr[d] # PeerAddr[c] /\ PeerAddr[d] \in Addrs
      BY <1>4, <1>5, <2>2, PortAndAddr DEF Serving
    <3> QED
      BY <1>3, <3>1 DEF StopInv, OwnAreListed
  <2> QED
    BY <2>1, <2>2
<1>8. ListedAreDown'
  BY <1>0, <1>1, <1>4, ServerAssumption DEF StopInv, ListedAreDown, stopVars, ServerInv, TypeOK
<1>9. SilentIsOver' /\ OverAreDown'
  BY <1>1, <1>4 DEF StopInv, SilentIsOver, OverAreDown
<1>10. OwnAreFound'
  <2> SUFFICES ASSUME NEW g \in Starts, NEW d \in Conns, d \in Own(g)', phase[g] \in Silent, Serving(d)'
               PROVE  /\ phase[g] = "waiting" => d \in toAwait[g]
                      /\ phase[g] # "stopped"
    BY <1>1 DEF OwnAreFound, stopVars, Silent
  <2>1. d # c
    BY <1>6
  <2>2. d \in Own(g) /\ Serving(d)
    BY <1>4, <1>5, <2>1 DEF Serving
  <2> QED
    BY <2>2 DEF StopInv, OwnAreFound
<1> QED
  BY <1>7, <1>8, <1>9, <1>10 DEF StopInv

LEMMA TrafficKeeps ==
    ASSUME ServerInv, StopInv, NEW c \in Conns, Receive(c) \/ CallbackReturns(c) \/ PeerCloses(c)
    PROVE  StopInv'
<1>1. /\ up' \subseteq up
      /\ \A d \in Conns : handler'[d] = handler[d]
                           \/ ({handler[d], handler'[d]} \subseteq {"recv", "callback"})
      /\ UNCHANGED <<phase, acceptor, acceptsOn, peers, home, stopVars>>
  BY DEF Receive, CallbackReturns, PeerCloses, acceptVars, ServerInv, TypeOK
<1>2. \A d \in Conns : Serving(d)' <=> Serving(d)
  BY <1>1 DEF Serving
<1>3. \A e \in Starts : Own(e)' = Own(e)
  BY <1>1 DEF Own, Alone
<1>4. OwnAreListed'
  BY <1>1, <1>2, <1>3 DEF StopInv, OwnAreListed
<1>5. OverAreDown'
  BY <1>1 DEF StopInv, OverAreDown
<1> QED
  BY <1>1, <1>2, <1>4, <1>5, CalmStep

\* The finally block takes out the handler's own address only, and an association
\* that is alone does not share it.
LEMMA LeaveKeeps ==
    ASSUME ServerInv, StopInv, NEW c \in Conns, Leave(c) \/ RecvFails(c)
    PROVE  StopInv'
<1> DEFINE f == listeners[Port[home[c]]]
<1>1. /\ handler[c] \in {"recv", "callback"}
      /\ handler' = [handler EXCEPT ![c] = "closing"]
      /\ peers' = IF f = None THEN peers ELSE [peers EXCEPT ![f][PeerAddr[c]] = None]
      /\ UNCHANGED <<phase, acceptor, acceptsOn, up, home, stopVars>>
  BY DEF Leave, RecvFails, Finally, Unregister, acceptVars
<1>2. /\ home[c] \in Starts /\ Port[home[c]] \in Ports /\ PeerAddr[c] \in Addrs /\ home[c] # None
  BY <1>1, PortAndAddr, ServerAssumption DEF ServerInv, HandlersHaveHomes
<1>3. f \in Starts \cup {None}
  BY <1>2 DEF ServerInv, TypeOK
<1>4. \A g \in Starts, a \in Addrs : a # PeerAddr[c] => peers'[g][a] = peers[g][a]
  BY <1>1, <1>2, <1>3 DEF ServerInv, TypeOK
<1>5. handler'[c] = "closing" /\ \A d \in Conns \ {c} : handler'[d] = handler[d]
  BY <1>1 DEF ServerInv, TypeOK
<1>6. /\ ~Serving(c)' /\ \A d \in Conns \ {c} : Serving(d)' <=> Serving(d)
  BY <1>5 DEF Serving
<1>7. \A e \in Starts : Own(e)' = Own(e)
  BY <1>1 DEF Own, Alone
<1>8. OwnAreListed'
  <2> SUFFICES ASSUME NEW g \in Starts, NEW d \in Conns, d \in Own(g), Serving(d)'
               PROVE  peers'[g][PeerAddr[d]] = d
    BY <1>7 DEF OwnAreListed
  <2>1. d # c /\ Serving(d)
    BY <1>6
  <2>2. PeerAddr[d] # PeerAddr[c] /\ PeerAddr[d] \in Addrs
    BY <1>2, <2>1, PortAndAddr DEF Own, Alone
  <2> QED
    BY <1>4, <2>1, <2>2 DEF StopInv, OwnAreListed
<1>9. OverAreDown'
  BY <1>1, <1>5 DEF StopInv, OverAreDown
<1> QED
  BY <1>1, <1>6, <1>8, <1>9, CalmStep

LEMMA ClosedKeeps ==
    ASSUME ServerInv, StopInv, NEW c \in Conns, Closed(c) \/ CloseCancelled(c)
    PROVE  StopInv'
<1>1. /\ handler[c] = "closing"
      /\ handler' = [handler EXCEPT ![c] = "over"]
      /\ up' = up \ {c}
      /\ UNCHANGED <<phase, acceptor, acceptsOn, peers, home, stopVars>>
  BY DEF Closed, CloseCancelled, acceptVars
<1>2. \A d \in Conns : Serving(d)' <=> Serving(d)
  BY <1>1 DEF Serving, ServerInv, TypeOK
<1>3. \A e \in Starts : Own(e)' = Own(e)
  BY <1>1 DEF Own, Alone
<1>4. OwnAreListed'
  BY <1>1, <1>2, <1>3 DEF StopInv, OwnAreListed
<1>5. OverAreDown'
  BY <1>1 DEF StopInv, OverAreDown, ServerInv, TypeOK
<1> QED
  BY <1>1, <1>2, <1>4, <1>5, CalmStep

-----------------------------------------------------------------------------
(* stop *)

\* What the steps of a stop leave alone.
LEMMA StopMoves ==
    ASSUME ServerInv, StopInv, NEW e \in Starts, NEW next \in Phases,
           phase' = [phase EXCEPT ![e] = next], UNCHANGED <<acceptsOn, peers, handler, home>>,
           up' \subseteq up
    PROVE  /\ phase'[e] = next /\ \A f \in Starts \ {e} : phase'[f] = phase[f]
           /\ \A c \in Conns : Serving(c)' <=> Serving(c)
           /\ \A f \in Starts : Own(f)' = Own(f)
           /\ OwnAreListed' /\ OverAreDown'
<1>1. phase'[e] = next /\ \A f \in Starts \ {e} : phase'[f] = phase[f]
  BY DEF ServerInv, TypeOK
<1>2. \A c \in Conns : Serving(c)' <=> Serving(c)
  BY DEF Serving
<1>3. \A f \in Starts : Own(f)' = Own(f)
  BY DEF Own, Alone
<1>4. OverAreDown'
  BY DEF StopInv, OverAreDown
<1> QED
  BY <1>1, <1>2, <1>3, <1>4 DEF StopInv, OwnAreListed

LEMMA StopBegins ==
    ASSUME ServerInv, StopInv, NEW e \in Starts, Stop(e)
    PROVE  StopInv'
<1>1. /\ phase[e] = "up" /\ phase' = [phase EXCEPT ![e] = "closing"]
      /\ UNCHANGED <<acceptor, acceptsOn, connVars, stopVars>>
  BY DEF Stop, To, acceptVars
<1>2. /\ phase'[e] = "closing" /\ \A f \in Starts \ {e} : phase'[f] = phase[f]
      /\ \A c \in Conns : Serving(c)' <=> Serving(c)
      /\ \A f \in Starts : Own(f)' = Own(f)
      /\ OwnAreListed' /\ OverAreDown'
  BY <1>1, StopMoves DEF connVars, Phases, Stopping
<1>3. ListedAreDown'
  BY <1>1, <1>2 DEF StopInv, ListedAreDown, Down, connVars, stopVars
<1>4. SilentIsOver'
  BY <1>1, <1>2 DEF StopInv, SilentIsOver, Silent
<1>5. OwnAreFound'
  BY <1>1, <1>2 DEF StopInv, OwnAreFound, connVars, stopVars
<1> QED
  BY <1>2, <1>3, <1>4, <1>5 DEF StopInv

\* Those that are served are registered; without any, there is none to await.
LEMMA ListenerClosedKeeps ==
    ASSUME ServerInv, StopInv, NEW e \in Starts, ListenerClosed(e)
    PROVE  StopInv'
<1> DEFINE next == IF Registered(e) = {} THEN "waiting" ELSE "peers"
<1>1. /\ phase[e] = "closing" /\ phase' = [phase EXCEPT ![e] = next]
      /\ acceptor' = [acceptor EXCEPT ![e] = "over"]
      /\ up' \subseteq up
      /\ toClose' = [toClose EXCEPT ![e] = Registered(e)]
      /\ UNCHANGED <<acceptsOn, peers, handler, home, toAwait>>
  BY DEF ListenerClosed, To
<1>2. next \in Phases
  BY DEF Phases, Stopping
<1>3. /\ phase'[e] = next /\ \A f \in Starts \ {e} : phase'[f] = phase[f]
      /\ \A c \in Conns : Serving(c)' <=> Serving(c)
      /\ \A f \in Starts : Own(f)' = Own(f)
      /\ OwnAreListed' /\ OverAreDown'
  BY <1>1, <1>2, StopMoves
<1>4. toClose'[e] = Registered(e) /\ \A f \in Starts \ {e} : toClose'[f] = toClose[f]
  BY <1>1 DEF ServerInv, TypeOK
<1>5. \A c \in Own(e) : Serving(c) => c \in Registered(e)
  BY DEF StopInv, OwnAreListed, Registered, Own
<1>6. \A c \in Registered(e) : home[c] = e
  BY PortAndAddr, ServerAssumption DEF ServerInv, PeersAtHome, Registered
<1>7. ListedAreDown'
  BY <1>1, <1>3, <1>4, <1>6 DEF StopInv, ListedAreDown, Down
<1>8. SilentIsOver'
  BY <1>1, <1>3 DEF StopInv, SilentIsOver, ServerInv, TypeOK
<1>9. OwnAreFound'
  <2> SUFFICES ASSUME NEW g \in Starts, NEW c \in Conns, c \in Own(g), Serving(c)
               PROVE  /\ phase'[g] = "waiting" => c \in toAwait[g]
                      /\ phase'[g] # "stopped"
    BY <1>1, <1>3 DEF OwnAreFound
  <2>1. CASE g = e
    BY <1>3, <1>5, <2>1
  <2>2. CASE g # e
    BY <1>3, <2>2 DEF StopInv, OwnAreFound
  <2> QED
    BY <2>1, <2>2
<1> QED
  BY <1>3, <1>7, <1>8, <1>9 DEF StopInv

LEMMA PeersClosedKeeps ==
    ASSUME ServerInv, StopInv, NEW e \in Starts, PeersClosed(e)
    PROVE  StopInv'
<1>1. /\ phase[e] = "peers" /\ phase' = [phase EXCEPT ![e] = "cancelling"]
      /\ up' = up \ toClose[e]
      /\ UNCHANGED <<acceptor, acceptsOn, peers, handler, home, stopVars>>
  BY DEF PeersClosed, To, acceptVars
<1>2. /\ phase'[e] = "cancelling" /\ \A f \in Starts \ {e} : phase'[f] = phase[f]
      /\ \A c \in Conns : Serving(c)' <=> Serving(c)
      /\ \A f \in Starts : Own(f)' = Own(f)
      /\ OwnAreListed' /\ OverAreDown'
  BY <1>1, StopMoves DEF Phases, Stopping
<1>3. ListedAreDown'
  BY <1>1, <1>2 DEF StopInv, ListedAreDown, stopVars
<1>4. SilentIsOver'
  BY <1>1, <1>2 DEF StopInv, SilentIsOver, Silent
<1>5. OwnAreFound'
  BY <1>1, <1>2 DEF StopInv, OwnAreFound, stopVars
<1> QED
  BY <1>2, <1>3, <1>4, <1>5 DEF StopInv

\* Those that are served are registered.
LEMMA CancelledKeeps ==
    ASSUME ServerInv, StopInv, NEW e \in Starts, HandlersCancelled(e)
    PROVE  StopInv'
<1>1. /\ phase[e] = "cancelling" /\ phase' = [phase EXCEPT ![e] = "waiting"]
      /\ toAwait' = [toAwait EXCEPT ![e] = Registered(e)]
      /\ UNCHANGED <<acceptor, acceptsOn, peers, up, handler, home, toClose>>
  BY DEF HandlersCancelled, To, acceptVars
<1>2. /\ phase'[e] = "waiting" /\ \A f \in Starts \ {e} : phase'[f] = phase[f]
      /\ \A c \in Conns : Serving(c)' <=> Serving(c)
      /\ \A f \in Starts : Own(f)' = Own(f)
      /\ OwnAreListed' /\ OverAreDown'
  BY <1>1, StopMoves DEF Phases, Stopping
<1>3. toAwait'[e] = Registered(e) /\ \A f \in Starts \ {e} : toAwait'[f] = toAwait[f]
  BY <1>1 DEF ServerInv, TypeOK
<1>4. \A c \in Own(e) : Serving(c) => c \in Registered(e)
  BY DEF StopInv, OwnAreListed, Registered, Own
<1>5. ListedAreDown'
  BY <1>1, <1>2 DEF StopInv, ListedAreDown, Down
<1>6. SilentIsOver'
  BY <1>1, <1>2 DEF StopInv, SilentIsOver, Silent
<1>7. OwnAreFound'
  <2> SUFFICES ASSUME NEW g \in Starts, NEW c \in Conns, c \in Own(g), Serving(c)
               PROVE  /\ phase'[g] = "waiting" => c \in toAwait'[g]
                      /\ phase'[g] # "stopped"
    BY <1>1, <1>2 DEF OwnAreFound
  <2>1. CASE g = e
    BY <1>2, <1>3, <1>4, <2>1
  <2>2. CASE g # e
    BY <1>2, <1>3, <2>2 DEF StopInv, OwnAreFound
  <2> QED
    BY <2>1, <2>2
<1> QED
  BY <1>2, <1>5, <1>6, <1>7 DEF StopInv

LEMMA TimesOutKeeps ==
    ASSUME StopInv, NEW e \in Starts, StopTimesOut(e)
    PROVE  StopInv'
<1>1. UNCHANGED <<phase, acceptor, acceptsOn, peers, up, handler, home, stopVars>>
  BY DEF StopTimesOut, acceptVars
<1> QED
  BY <1>1 DEF StopInv, OwnAreListed, SilentIsOver, ListedAreDown, OverAreDown, OwnAreFound, Own, Alone,
              Serving, stopVars

\* Those that are served would still be awaited.
LEMMA ReturnsKeeps ==
    ASSUME ServerInv, StopInv, NEW e \in Starts, StopReturns(e)
    PROVE  StopInv'
<1>1. /\ phase[e] = "waiting" /\ phase' = [phase EXCEPT ![e] = "stopped"]
      /\ toAwait[e] \cap Running = {}
      /\ UNCHANGED <<acceptor, acceptsOn, connVars, stopVars>>
  BY DEF StopReturns, To, acceptVars
<1>2. /\ phase'[e] = "stopped" /\ \A f \in Starts \ {e} : phase'[f] = phase[f]
      /\ \A c \in Conns : Serving(c)' <=> Serving(c)
      /\ \A f \in Starts : Own(f)' = Own(f)
      /\ OwnAreListed' /\ OverAreDown'
  BY <1>1, StopMoves DEF connVars, Phases, Stopping
<1>3. ListedAreDown'
  BY <1>1, <1>2 DEF StopInv, ListedAreDown, Down, connVars, stopVars
<1>4. SilentIsOver'
  BY <1>1, <1>2 DEF StopInv, SilentIsOver, Silent
<1>5. \A c \in Own(e) : ~Serving(c)
  BY <1>1 DEF StopInv, OwnAreFound, Running, Serving, Own
<1>6. OwnAreFound'
  <2> SUFFICES ASSUME NEW g \in Starts, NEW c \in Conns, c \in Own(g), Serving(c)
               PROVE  /\ phase'[g] = "waiting" => c \in toAwait[g]
                      /\ phase'[g] # "stopped"
    BY <1>1, <1>2 DEF OwnAreFound, stopVars
  <2>1. g # e
    BY <1>5
  <2> QED
    BY <1>2, <2>1 DEF StopInv, OwnAreFound
<1> QED
  BY <1>2, <1>3, <1>4, <1>6 DEF StopInv

-----------------------------------------------------------------------------
LEMMA StopInit == Init => StopInv
BY DEF Init, StopInv, OwnAreListed, SilentIsOver, ListedAreDown, OverAreDown, OwnAreFound,
       Serving, Silent, Down

LEMMA StopNext == ServerInv /\ StopInv /\ [Next]_serverVars => StopInv'
<1>1. StopInv /\ UNCHANGED serverVars => StopInv'
  BY DEF serverVars, acceptVars, connVars, stopVars, StopInv, OwnAreListed, SilentIsOver,
         ListedAreDown, OverAreDown, OwnAreFound, Own, Alone, Serving
<1> QED
  BY <1>1, StartKeeps, AcceptLoopKeeps, AcceptKeeps, RegisteredKeeps, TrafficKeeps, LeaveKeeps,
     ClosedKeeps, StopBegins, ListenerClosedKeeps, PeersClosedKeeps, CancelledKeeps,
     TimesOutKeeps, ReturnsKeeps
  DEF Next, StartStep, StopStep, HandlerStep

\* When a stop returns, an association that the listener's own accept task registered,
\* from an address no other one has used, is not served any more, and is up only in the
\* last close of a handler that was leaving before: for every number of starts, ports
\* and associations, whatever else starts, stops and reconnects, and wherever the accept
\* task was between the accept of a conn and its registration.
THEOREM StopComplete == Spec => []StopLeavesNothing
<1>1. ServerInv /\ StopInv => StopLeavesNothing
  <2> SUFFICES ASSUME ServerInv, StopInv, NEW e \in Starts, NEW c \in Conns,
                      phase[e] = "stopped", c \in Own(e)
               PROVE  /\ handler[c] \in {"closing", "over"}
                      /\ c \in up => handler[c] = "closing" /\ c \notin toClose[e]
    BY DEF StopLeavesNothing, Own, Alone
  <2>1. home[c] = e /\ ~Serving(c)
    BY DEF StopInv, OwnAreFound, Own
  <2>2. handler[c] \in {"closing", "over"}
    BY <2>1, ServerAssumption DEF ServerInv, HandlersHaveHomes, Serving, TypeOK
  <2> QED
    BY <2>2 DEF StopInv, OverAreDown, ListedAreDown, Down
<1> QED
  BY <1>1, StopInit, StopNext, ServerInvariant, PTL DEF Spec
=============================================================================

-------------------------- MODULE SctpClientProofs --------------------------
(***************************************************************************)
(* Theorems about SctpClient, for any number of connections and senders.    *)
(*                                                                         *)
(* The inductive invariant follows one connection at a time (Life), and the *)
(* list of disconnect_all (Sweep).  What carries the proof is that removal  *)
(* and cancellation are one step: a task of a removed entry is over or has  *)
(* a cancellation to see (Life, third conjunct), so it never gets past its  *)
(* next await.                                                             *)
(***************************************************************************)
EXTENDS SctpClient, TLAPS

Early == {"idle", "connecting", "refused"}
Popped == {"closing", "waiting", "gone"}

\* The stages of connection c: its tasks do not exist before the answer of connect;
\* listed, its heartbeat runs and its read loop ends only with a mark; removed, either
\* task is over or cancelled.
Life(c) ==
    /\ phase[c] \in Early => reader[c] = "none" /\ beat[c] = "none" /\ c \notin late
    /\ phase[c] = "open" =>
          /\ beat[c] \in {"sleep", "send"}
          /\ reader[c] \in {"recv", "callback"} \/ (reader[c] = "over" /\ state[c] = "ERROR")
    /\ phase[c] \in Popped =>
          /\ reader[c] = "over" \/ c \in cancelRead
          /\ beat[c] = "over" \/ c \in cancelBeat

\* The ids that disconnect_all has copied were open then; those no longer on its
\* list of work are out.
Sweep ==
    /\ \A c \in listed : phase[c] \in {"open"} \cup Popped
    /\ sweep # "idle" => \A c \in listed \ todo : phase[c] \in Popped
    /\ sweep = "idle" => listed = {}
    /\ sweep = "over" => todo = {}

ClientInv == TypeOK /\ (\A c \in Ids : Life(c)) /\ Sweep /\ MessagesNamePeer

LEMMA InitClient == Init => ClientInv
  BY ClientAssumption DEF Init, ClientInv, TypeOK, Life, Sweep, MessagesNamePeer, Phases,
     Early, Popped

-----------------------------------------------------------------------------
(* Steps of one connection *)

\* Connect requests, their answers, and the loss of an association.
LEMMA ConnectStep ==
    ASSUME ClientInv, NEW c \in Ids,
           Connect(c) \/ ConnectFails(c) \/ Connected(c) \/ PeerCloses(c)
    PROVE  ClientInv'
  <1> USE DEF ClientInv, TypeOK, Life, Sweep, MessagesNamePeer, Phases, Early, Popped,
          To, sweepVars, taskVars
  <1>1. CASE Connect(c)  BY <1>1 DEF Connect
  <1>2. CASE ConnectFails(c)  BY <1>2 DEF ConnectFails
  <1>3. CASE Connected(c)  BY <1>3 DEF Connected
  <1>4. CASE PeerCloses(c)  BY <1>4 DEF PeerCloses
  <1> QED  BY <1>1, <1>2, <1>3, <1>4

LEMMA ReadLoopStep ==
    ASSUME ClientInv, NEW c \in Ids, ReadStep(c) \/ JobsEnd(c)
    PROVE  ClientInv'
  <1> USE DEF ClientInv, TypeOK, Life, Sweep, MessagesNamePeer, Phases, Early, Popped,
          NextRead, MarkError, sweepVars
  <1>1. CASE Receive(c)  BY <1>1 DEF Receive
  <1>2. CASE ReadsNothing(c)  BY <1>2 DEF ReadsNothing
  <1>3. CASE ReadFails(c)  BY <1>3 DEF ReadFails
  <1>4. CASE CallbackReturns(c)  BY <1>4 DEF CallbackReturns
  <1>5. CASE ReadCancelled(c)  BY <1>5 DEF ReadCancelled
  <1>6. CASE JobsEnd(c)  BY <1>6 DEF JobsEnd
  <1> QED  BY <1>1, <1>2, <1>3, <1>4, <1>5, <1>6 DEF ReadStep

LEMMA HeartbeatStep ==
    ASSUME ClientInv, NEW c \in Ids, BeatStep(c)
    PROVE  ClientInv'
  <1> USE DEF ClientInv, TypeOK, Life, Sweep, MessagesNamePeer, Phases, Early, Popped,
          MarkError, sweepVars
  <1>1. CASE BeatWakes(c)  BY <1>1 DEF BeatWakes
  <1>2. CASE BeatSent(c)  BY <1>2 DEF BeatSent
  <1>3. CASE BeatFails(c)  BY <1>3 DEF BeatFails
  <1>4. CASE BeatCancelled(c)  BY <1>4 DEF BeatCancelled
  <1> QED  BY <1>1, <1>2, <1>3, <1>4 DEF BeatStep

LEMMA DisconnectSteps ==
    ASSUME ClientInv, NEW c \in Ids, Disconnect(c) \/ DisconnectStep(c)
    PROVE  ClientInv'
  <1> USE DEF ClientInv, TypeOK, Life, Sweep, MessagesNamePeer, Phases, Early, Popped,
          To, sweepVars, taskVars
  <1>1. CASE Disconnect(c)  BY <1>1 DEF Disconnect, Pop
  <1>2. CASE SocketClosed(c)  BY <1>2 DEF SocketClosed
  <1>3. CASE DisconnectReturns(c)  BY <1>3 DEF DisconnectReturns
  <1> QED  BY <1>1, <1>2, <1>3 DEF DisconnectStep

-----------------------------------------------------------------------------
(* disconnect_all *)

LEMMA SweepStep ==
    ASSUME ClientInv, SweepBegins \/ SweepNext
    PROVE  ClientInv'
  <1> USE DEF ClientInv, TypeOK, Life, Sweep, MessagesNamePeer, Phases, Early, Popped, To
  <1>1. CASE SweepBegins  BY <1>1 DEF SweepBegins, taskVars
  <1>2. CASE SweepNext
    <2>1. ASSUME NEW c \in todo \cap conns,
                 todo' = (todo \cap conns) \ {c}, current' = c, Pop(c), UNCHANGED sweep
          PROVE  ClientInv'
      BY <1>2, <2>1 DEF SweepNext, Pop
    <2>2. ASSUME todo \cap conns = {}, sweep' = "over", todo' = {}, current' = None,
                 UNCHANGED <<conns, cancelRead, cancelBeat, phase>>
          PROVE  ClientInv'
      BY <1>2, <2>2 DEF SweepNext
    <2> QED  BY <1>2, <2>1, <2>2 DEF SweepNext
  <1> QED  BY <1>1, <1>2

LEMMA SenderStep ==
    ASSUME ClientInv, NEW s \in Senders, SendEnds(s) \/ \E c \in Ids : Send(s, c)
    PROVE  ClientInv'
  BY DEF ClientInv, TypeOK, Life, Sweep, MessagesNamePeer, Phases, Early, Popped, SendEnds,
     Send, sweepVars, taskVars

LEMMA ClientStep == ClientInv /\ [Next]_clientVars => ClientInv'
  <1> SUFFICES ASSUME ClientInv, [Next]_clientVars PROVE ClientInv'
      OBVIOUS
  <1>1. CASE UNCHANGED clientVars
    BY <1>1 DEF clientVars, taskVars, sweepVars, ClientInv, TypeOK, Life, Sweep, MessagesNamePeer
  <1>2. CASE Next
    BY <1>2, ConnectStep, ReadLoopStep, HeartbeatStep, DisconnectSteps, SweepStep, SenderStep
       DEF Next
  <1> QED  BY <1>1, <1>2

LEMMA ClientAlways == Spec => []ClientInv
  BY InitClient, ClientStep, PTL DEF Spec

-----------------------------------------------------------------------------
(* Results *)

\* The tables and tasks of the client keep their types, and only tasks of removed
\* entries are cancelled.
THEOREM ClientTypes == Spec => []TypeOK
  BY ClientAlways, PTL DEF ClientInv

\* No message is logged without its peer's name, however a disconnect falls into recv.
THEOREM PeersNamed == Spec => []MessagesNamePeer
  BY ClientAlways, PTL DEF ClientInv

\* A connection that is listed as CONNECTED has its read loop, whatever recv raises.
THEOREM ConnectedRead == Spec => []ConnectedIsRead
  <1>1. ClientInv => ConnectedIsRead
    BY DEF ClientInv, TypeOK, Life, ConnectedIsRead
  <1> QED  BY <1>1, ClientAlways, PTL

\* A disconnect_all that has returned found every connection of its list out of the
\* table or took it out, whatever other requests did meanwhile.
THEOREM SweepComplete == Spec => []SweepTakesAll
  <1>1. ClientInv => SweepTakesAll
    BY DEF ClientInv, TypeOK, Sweep, Popped, SweepTakesAll
  <1> QED  BY <1>1, ClientAlways, PTL
=============================================================================

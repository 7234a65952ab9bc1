---------------------------- MODULE MessageFeed ----------------------------
(***************************************************************************)
(* What the message log promises to one client that polls it: a feed that  *)
(* hands over every message once, in the order in which the messages were  *)
(* logged, unless the message is deleted first.                            *)
(***************************************************************************)
EXTENDS Integers, FiniteSets

VARIABLES
    pending,    \* ids of messages logged and not yet handed over
    delivered,  \* ids of the messages handed over
    top         \* no message with an id above top was ever logged

feedVars == <<pending, delivered, top>>

Init == pending = {} /\ delivered = {} /\ top = 0

\* A message is logged; it is pending if it is one the client asks for.
Publish ==
    /\ top' > top
    /\ pending' \in {pending, pending \cup {top'}}
    /\ UNCHANGED delivered

\* The client gets the oldest of the pending messages.
Deliver ==
    /\ \E batch \in SUBSET pending :
          /\ \A i \in batch, j \in pending \ batch : i < j
          /\ pending' = pending \ batch
          /\ delivered' = delivered \cup batch
    /\ UNCHANGED top

\* Messages are deleted before the client gets them.
Discard ==
    /\ pending' \subseteq pending
    /\ UNCHANGED <<delivered, top>>

Next == Publish \/ Deliver \/ Discard

Spec == Init /\ [][Next]_feedVars
=============================================================================

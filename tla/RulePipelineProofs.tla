------------------------- MODULE RulePipelineProofs -------------------------
(***************************************************************************)
(* Theorems about RulePipeline for every number of associations, rules,    *)
(* requests and resets, and every choice of addresses and rule bodies.     *)
(***************************************************************************)
EXTENDS RulePipeline, FiniteSetTheorems, TLAPS

-----------------------------------------------------------------------------
(* Type correctness *)

\* save_message and increment_fired keep the types of the tables.
LEMMA SaveMessageTypes ==
    ASSUME TablesOK, NEW row, SaveMessage(row)
    PROVE  TablesOK'
BY DEF TablesOK, SaveMessage, InsertRow, NextMessageId

LEMMA IncrementFiredTypes ==
    ASSUME TablesOK, NEW id, IncrementFired(id)
    PROVE  TablesOK'
BY DEF TablesOK, IncrementFired

LEMMA StoreKeptTypes ==
    ASSUME TablesOK, UNCHANGED storeVars
    PROVE  TablesOK'
BY DEF TablesOK, storeVars

\* Fresh locals suit a handler that is down or receives.
LEMMA NoJobTypes ==
    /\ NoJob \in Locals
    /\ LocalsFit("down", NoJob)
    /\ LocalsFit("recv", NoJob)
BY DEF NoJob, Locals, LocalsFit, PCs, Jobs, StoreAwaits

\* A step of handler c that leaves it with suitable locals at its next await
\* keeps the types of all handlers.
LEMMA GotoTypes ==
    ASSUME HandlersOK, NEW c \in Conns, NEW next \in PCs, NEW locals \in Locals,
           LocalsFit(next, locals), Goto(c, next, locals), UNCHANGED lastRuleId
    PROVE  HandlersOK'
<1>1. Locals' = Locals
  BY DEF Locals, RuleRefs
<1>2. pc' \in [Conns -> PCs]
  BY DEF HandlersOK, Goto, PCs
<1>3. job' \in [Conns -> Locals']
  BY <1>1, NoJobTypes DEF HandlersOK, Goto
<1>4. ASSUME NEW d \in Conns PROVE LocalsFit(pc'[d], job'[d])
  <2>1. CASE d = c
    BY <2>1, NoJobTypes DEF HandlersOK, Goto
  <2>2. CASE d # c
    BY <2>2 DEF HandlersOK, Goto
  <2> QED
    BY <2>1, <2>2
<1>5. cancelled' \subseteq {d \in Conns : pc'[d] \in Jobs}
  BY DEF HandlersOK, Goto
<1> QED
  BY <1>2, <1>3, <1>4, <1>5 DEF HandlersOK, LocalsFit

LEMMA ReturnTypes ==
    ASSUME HandlersOK, NEW c \in Conns, Return(c), UNCHANGED lastRuleId
    PROVE  HandlersOK'
BY NoJobTypes, GotoTypes DEF Return, PCs

\* Every step of a callback keeps the types of the handlers.
LEMMA CallbackHandlersTypes ==
    ASSUME TypeOK, NEW c \in Conns, CallbackStep(c)
    PROVE  HandlersOK'
<1> USE DEF PCs, Jobs, StoreAwaits
<1>0. HandlersOK /\ TablesOK /\ AssociationsOK /\ job[c] \in Locals /\ LocalsFit(pc[c], job[c])
  BY DEF TypeOK, HandlersOK
<1>1. CASE ReadSession(c)
  <2> DEFINE locals == [job[c] EXCEPT !.tag = session]
  <2>1. locals \in Locals /\ LocalsFit("save", locals)
    BY <1>0, <1>1 DEF ReadSession, Locals, LocalsFit, TablesOK
  <2> QED
    BY <1>0, <1>1, <2>1, GotoTypes DEF ReadSession, storeVars
<1>2. CASE SaveInbound(c)
  <2> DEFINE locals == [job[c] EXCEPT !.id = NextMessageId]
  <2>1. NextMessageId \in Nat
    BY <1>0 DEF TablesOK, NextMessageId
  <2>2. locals \in Locals /\ LocalsFit("match", locals)
    BY <1>0, <1>2, <2>1, NoneAssumption DEF SaveInbound, Locals, LocalsFit
  <2> QED
    BY <1>0, <1>2, <2>2, GotoTypes DEF SaveInbound, SaveMessage
<1>3. CASE MatchNone(c)
  BY <1>0, <1>3, ReturnTypes DEF MatchNone, storeVars
<1>4. CASE MatchRule(c)
  <2>1. PICK r \in DOMAIN rules :
          Goto(c, IF rules[r].body.delay_ms > 0 THEN "delay" ELSE "fire",
               [job[c] EXCEPT !.rule = [id |-> r, body |-> rules[r].body]])
    BY <1>4 DEF MatchRule
  <2> DEFINE held == [id |-> r, body |-> rules[r].body]
             locals == [job[c] EXCEPT !.rule = held]
             next == IF rules[r].body.delay_ms > 0 THEN "delay" ELSE "fire"
  <2>2. held \in RuleRefs /\ held # None
    BY <1>0, NoneAssumption DEF TablesOK, RuleRefs
  <2>3. locals \in Locals /\ LocalsFit("delay", locals) /\ LocalsFit("fire", locals)
    BY <1>0, <1>4, <2>2 DEF MatchRule, Locals, LocalsFit
  <2>4. next \in PCs /\ LocalsFit(next, locals)
    BY <2>3
  <2> QED
    BY <1>0, <1>4, <2>1, <2>3, <2>4, GotoTypes DEF MatchRule, storeVars
<1>5. CASE DelayEnds(c)
  <2>1. LocalsFit("fire", job[c])
    BY <1>0, <1>5 DEF DelayEnds, LocalsFit
  <2> QED
    BY <1>0, <1>5, <2>1, GotoTypes DEF DelayEnds, storeVars
<1>6. CASE IncrementRule(c)
  <2>1. LocalsFit("lookup", job[c])
    BY <1>0, <1>6 DEF IncrementRule, LocalsFit
  <2> QED
    BY <1>0, <1>6, <2>1, GotoTypes, ReturnTypes DEF IncrementRule, IncrementFired
<1>7. CASE LookupPeer(c)
  <2> DEFINE conn == peers[PeerAddr[c]]
             locals == [job[c] EXCEPT !.to = IF conn \in open THEN conn ELSE None]
  <2>1. LocalsFit("tag", job[c])
    BY <1>0, <1>7 DEF LookupPeer, LocalsFit
  <2>2. locals \in Locals /\ LocalsFit("send", locals)
    BY <1>0, <1>7 DEF LookupPeer, LocalsFit, Locals, AssociationsOK
  <2> QED
    BY <1>0, <1>7, <2>1, <2>2, GotoTypes DEF LookupPeer, storeVars
<1>8. CASE SendReply(c)
  <2>1. LocalsFit("tag", job[c])
    BY <1>0, <1>8 DEF SendReply, LocalsFit
  <2> QED
    BY <1>0, <1>8, <2>1, GotoTypes DEF SendReply, storeVars
<1>9. CASE SendFails(c)
  BY <1>0, <1>9, ReturnTypes DEF SendFails, storeVars
<1>10. CASE ReadReplySession(c)
  <2> DEFINE locals == [job[c] EXCEPT !.tag = session]
  <2>1. locals \in Locals /\ LocalsFit("log", locals)
    BY <1>0, <1>10 DEF ReadReplySession, Locals, LocalsFit, TablesOK
  <2> QED
    BY <1>0, <1>10, <2>1, GotoTypes DEF ReadReplySession, storeVars
<1>11. CASE SaveReply(c)
  BY <1>0, <1>11, ReturnTypes DEF SaveReply, SaveMessage
<1>12. CASE StoreError(c)
  BY <1>0, <1>12, ReturnTypes DEF StoreError, storeVars
<1>13. CASE DropJob(c)
  BY <1>0, <1>13, GotoTypes, NoJobTypes DEF DropJob, storeVars
<1> QED
  BY <1>1, <1>2, <1>3, <1>4, <1>5, <1>6, <1>7, <1>8, <1>9, <1>10, <1>11, <1>12, <1>13
  DEF CallbackStep

LEMMA CallbackTypes ==
    ASSUME TypeOK, NEW c \in Conns, CallbackStep(c)
    PROVE  TypeOK'
<1>1. HandlersOK'
  BY CallbackHandlersTypes
<1>2. AssociationsOK'
  BY DEF CallbackStep, ReadSession, SaveInbound, MatchNone, MatchRule, DelayEnds, IncrementRule,
         LookupPeer, SendReply, SendFails, ReadReplySession, SaveReply, StoreError, DropJob,
         KeepConns, TypeOK, AssociationsOK
<1>3. TablesOK' /\ lastRuleId' = lastRuleId
  <2>1. CASE \E row : SaveMessage(row)
    BY <2>1, SaveMessageTypes DEF TypeOK, SaveMessage
  <2>2. CASE \E id : IncrementFired(id)
    BY <2>2, IncrementFiredTypes DEF TypeOK, IncrementFired
  <2>3. CASE UNCHANGED storeVars
    BY <2>3, StoreKeptTypes DEF TypeOK, storeVars
  <2> QED
    BY <2>1, <2>2, <2>3
    DEF CallbackStep, ReadSession, SaveInbound, MatchNone, MatchRule, DelayEnds, IncrementRule,
        LookupPeer, SendReply, SendFails, ReadReplySession, SaveReply, StoreError, DropJob
<1>4. HistoryOK'
  <2>1. CASE UNCHANGED wire
    BY <1>3, <2>1
    DEF CallbackStep, ReadSession, SaveInbound, MatchNone, MatchRule, DelayEnds, IncrementRule,
        LookupPeer, SendReply, SendFails, ReadReplySession, SaveReply, StoreError, DropJob,
        KeepConns, TypeOK, HistoryOK
  <2>2. CASE SendReply(c)
    <3>1. job[c] \in Locals /\ LocalsFit(pc[c], job[c]) /\ pc[c] = "send"
      BY <2>2 DEF TypeOK, HandlersOK, SendReply
    <3>2. job[c].rule \in RuleRefs /\ job[c].id \in Nat /\ job[c].to \in Conns
      BY <2>2, <3>1 DEF Locals, LocalsFit, SendReply, PCs, Jobs, StoreAwaits
    <3>3. [rule |-> job[c].rule.id, cause |-> job[c].id, conn |-> job[c].to]
             \in [rule : 1..lastRuleId, cause : Nat, conn : Conns]
      BY <3>2 DEF RuleRefs
    <3> QED
      BY <1>3, <2>2, <3>3 DEF SendReply, KeepConns, TypeOK, HistoryOK
  <2> QED
    BY <2>1, <2>2
    DEF CallbackStep, ReadSession, SaveInbound, MatchNone, MatchRule, DelayEnds, IncrementRule,
        LookupPeer, SendFails, ReadReplySession, SaveReply, StoreError, DropJob
<1> QED
  BY <1>1, <1>2, <1>3, <1>4 DEF TypeOK

\* Cutting the sockets of c out of the handlers' locals keeps their types.
LEMMA ShutTypes ==
    ASSUME NEW jobs \in [Conns -> Locals], NEW c \in Conns, Shut(c, jobs)
    PROVE  /\ job' \in [Conns -> Locals]
           /\ \A d \in Conns, await \in PCs :
                 LocalsFit(await, jobs[d]) => LocalsFit(await, job'[d])
<1>1. ASSUME NEW d \in Conns
      PROVE  job'[d] \in {jobs[d], [jobs[d] EXCEPT !.to = None]}
  BY <1>1 DEF Shut
<1>2. ASSUME NEW j \in Locals
      PROVE  LET k == [j EXCEPT !.to = None]
             IN  k \in Locals /\ k.request = j.request /\ k.id = j.id /\ k.rule = j.rule
  BY DEF Locals
<1>3. job' = [d \in Conns |-> job'[d]]
  BY DEF Shut
<1> QED
  BY <1>1, <1>2, <1>3 DEF LocalsFit

LEMMA CloseAndCancelTypes ==
    ASSUME HandlersOK, NEW c \in Conns, CloseAndCancel(c), UNCHANGED lastRuleId
    PROVE  HandlersOK'
<1> USE DEF PCs, Jobs, StoreAwaits
<1> DEFINE running == pc[c] \in Jobs
           jobs == [job EXCEPT ![c] = IF running THEN @ ELSE NoJob]
<1>1. Locals' = Locals
  BY DEF Locals, RuleRefs
<1>2. pc' = [pc EXCEPT ![c] = IF running THEN @ ELSE "down"] /\ Shut(c, jobs)
  BY DEF CloseAndCancel
<1>3. pc' \in [Conns -> PCs]
  BY <1>2 DEF HandlersOK
<1>4. jobs \in [Conns -> Locals]
  BY NoJobTypes DEF HandlersOK
<1>5. \A d \in Conns : LocalsFit(pc'[d], jobs[d])
  BY <1>2, NoJobTypes DEF HandlersOK
<1>6. job' \in [Conns -> Locals] /\ \A d \in Conns : LocalsFit(pc'[d], job'[d])
  <2> HIDE DEF jobs
  <2> QED
    BY <1>2, <1>3, <1>4, <1>5, ShutTypes
<1>7. cancelled' \subseteq {d \in Conns : pc'[d] \in Jobs}
  BY <1>2 DEF HandlersOK, CloseAndCancel
<1> QED
  BY <1>1, <1>3, <1>6, <1>7 DEF HandlersOK, LocalsFit

\* Receiving and the steps of associations, listener and process.
LEMMA ConnStepTypes ==
    ASSUME TypeOK, NEW c \in Conns,
           \/ Receive(c) \/ Accept(c) \/ Connect(c) \/ PeerCloses(c)
           \/ EndOfStream(c) \/ StopHandler(c) \/ Disconnect(c)
    PROVE  TypeOK'
<1> USE DEF PCs, Jobs, StoreAwaits
<1>0. TablesOK' /\ UNCHANGED <<lastRuleId, wire>>
  BY StoreKeptTypes
  DEF TypeOK, Receive, Accept, Connect, PeerCloses, EndOfStream, StopHandler, Disconnect, storeVars
<1>1. Locals' = Locals
  BY <1>0 DEF Locals, RuleRefs
<1>2. HistoryOK'
  BY <1>0, BoundsAssumption
  DEF TypeOK, HistoryOK, Receive, Accept, Connect, PeerCloses, EndOfStream, StopHandler, Disconnect
<1>3. AssociationsOK'
  BY ConnsAssumption
  DEF TypeOK, AssociationsOK, Receive, Accept, Connect, PeerCloses, EndOfStream, StopHandler,
      Disconnect, CloseAndCancel, Shut, Unregister, Conns
<1>4. HandlersOK'
  <2>1. CASE Receive(c)
    <3>1. PICK r \in Requests : Goto(c, "session", [NoJob EXCEPT !.request = r])
      BY <2>1 DEF Receive
    <3>2. [NoJob EXCEPT !.request = r] \in Locals
          /\ LocalsFit("session", [NoJob EXCEPT !.request = r])
      BY NoneAssumption DEF NoJob, Locals, LocalsFit
    <3> QED
      BY <1>0, <3>1, <3>2, GotoTypes DEF TypeOK
  <2>2. CASE Accept(c)
    BY <1>1, <2>2 DEF TypeOK, HandlersOK, Accept, LocalsFit
  <2>3. CASE Connect(c)
    BY <1>1, <2>3 DEF TypeOK, HandlersOK, Connect, LocalsFit
  <2>4. CASE PeerCloses(c)
    <3>1. job' \in [Conns -> Locals] /\ \A d \in Conns : LocalsFit(pc[d], job'[d])
      BY <2>4, ShutTypes DEF TypeOK, HandlersOK, PeerCloses
    <3> QED
      BY <1>1, <2>4, <3>1 DEF TypeOK, HandlersOK, PeerCloses, LocalsFit
  <2>5. CASE EndOfStream(c)
    <3>1. job' \in [Conns -> Locals] /\ \A d \in Conns : LocalsFit(pc[d], job'[d])
      BY <2>5, ShutTypes DEF TypeOK, HandlersOK, EndOfStream
    <3> QED
      BY <1>1, <2>5, <3>1 DEF TypeOK, HandlersOK, EndOfStream, LocalsFit
  <2>6. CASE StopHandler(c)
    BY <1>0, <2>6, CloseAndCancelTypes DEF TypeOK, StopHandler
  <2>7. CASE Disconnect(c)
    BY <1>0, <2>7, CloseAndCancelTypes DEF TypeOK, Disconnect
  <2> QED
    BY <2>1, <2>2, <2>3, <2>4, <2>5, <2>6, <2>7
<1> QED
  BY <1>0, <1>2, <1>3, <1>4 DEF TypeOK

LEMMA ProcessStepTypes ==
    ASSUME TypeOK, StartServer \/ StopServer \/ Crash
    PROVE  TypeOK'
<1>0. TablesOK' /\ UNCHANGED <<lastRuleId, wire, received>>
  BY StoreKeptTypes DEF TypeOK, StartServer, StopServer, Crash, ReopenDb, storeVars
<1>1. Locals' = Locals
  BY <1>0 DEF Locals, RuleRefs
<1>2. HistoryOK'
  BY <1>0 DEF TypeOK, HistoryOK
<1>3. AssociationsOK'
  BY DEF TypeOK, AssociationsOK, StartServer, StopServer, Crash, NoPeers
<1>4. HandlersOK'
  BY <1>1, NoJobTypes
  DEF TypeOK, HandlersOK, StartServer, StopServer, Crash, LocalsFit, PCs, Jobs, StoreAwaits
<1> QED
  BY <1>0, <1>2, <1>3, <1>4 DEF TypeOK

\* The REST requests on the store.
LEMMA ApiTypes ==
    ASSUME TypeOK,
           \/ \E body \in Bodies : CreateRule(body)
           \/ \E id \in DOMAIN rules : RemoveRule(id)
           \/ RemoveAllRules \/ RemoveAllMessages \/ Reset
    PROVE  TypeOK'
<1>0. UNCHANGED pipelineVars /\ lastRuleId' \in Nat /\ lastRuleId <= lastRuleId'
  <2>1. lastRuleId \in Nat
    BY BoundsAssumption DEF TypeOK, TablesOK
  <2>2. UNCHANGED pipelineVars /\ lastRuleId' \in {lastRuleId, lastRuleId + 1}
    BY DEF CreateRule, RemoveRule, RemoveAllRules, RemoveAllMessages, Reset, SaveRule,
           DeleteRule, DeleteAllRules, DeleteAllMessages, ResetSession, NextRuleId
  <2> QED
    BY <2>1, <2>2
<1>1. TablesOK'
  <2>1. CASE \E body \in Bodies : CreateRule(body)
    BY <2>1, BoundsAssumption
    DEF TypeOK, TablesOK, CreateRule, SaveRule, InsertRow, NextRuleId
  <2>2. CASE \E id \in DOMAIN rules : RemoveRule(id)
    BY <2>2 DEF TypeOK, TablesOK, RemoveRule, DeleteRule, DeleteRows
  <2>3. CASE RemoveAllRules
    BY <2>3 DEF TypeOK, TablesOK, RemoveAllRules, DeleteAllRules, NoRows
  <2>4. CASE RemoveAllMessages
    BY <2>4 DEF TypeOK, TablesOK, RemoveAllMessages, DeleteAllMessages, NoRows
  <2>5. CASE Reset
    BY <2>5, BoundsAssumption DEF TypeOK, TablesOK, Reset, ResetSession, NoRows
  <2> QED
    BY <2>1, <2>2, <2>3, <2>4, <2>5
<1>2. 1..lastRuleId \subseteq 1..lastRuleId'
  BY <1>0 DEF TypeOK, TablesOK
<1>3. Locals \subseteq Locals'
  BY <1>2 DEF Locals, RuleRefs
<1>4. HandlersOK'
  BY <1>0, <1>3 DEF TypeOK, HandlersOK, LocalsFit, pipelineVars
<1>5. HistoryOK' /\ AssociationsOK'
  BY <1>0, <1>2 DEF TypeOK, HistoryOK, AssociationsOK, pipelineVars
<1> QED
  BY <1>1, <1>4, <1>5 DEF TypeOK

LEMMA InitTypes == Init => TypeOK
<1> SUFFICES ASSUME Init PROVE TypeOK
  OBVIOUS
<1>1. TablesOK
  BY BoundsAssumption DEF Init, InitDb, NoRows, TablesOK
<1>2. AssociationsOK
  BY DEF Init, NoPeers, AssociationsOK
<1>3. HandlersOK
  BY NoJobTypes DEF Init, HandlersOK, PCs, Jobs, StoreAwaits
<1>4. HistoryOK
  BY BoundsAssumption DEF Init, HistoryOK
<1> QED
  BY <1>1, <1>2, <1>3, <1>4 DEF TypeOK

LEMMA NextTypes == TypeOK /\ [Next]_vars => TypeOK'
<1> SUFFICES ASSUME TypeOK, [Next]_vars PROVE TypeOK'
  OBVIOUS
<1>1. CASE \E c \in Conns : CallbackStep(c)
  BY <1>1, CallbackTypes
<1>2. CASE \E c \in Conns :
        \/ Receive(c) \/ Accept(c) \/ Connect(c) \/ PeerCloses(c)
        \/ EndOfStream(c) \/ StopHandler(c) \/ Disconnect(c)
  BY <1>2, ConnStepTypes
<1>3. CASE StartServer \/ StopServer \/ Crash
  BY <1>3, ProcessStepTypes
<1>4. CASE \/ \E body \in Bodies : CreateRule(body)
           \/ \E id \in DOMAIN rules : RemoveRule(id)
           \/ RemoveAllRules \/ RemoveAllMessages \/ Reset
  BY <1>4, ApiTypes
<1>5. CASE UNCHANGED vars
  BY <1>5
  DEF vars, storeVars, pipelineVars, TypeOK, TablesOK, AssociationsOK, HandlersOK, HistoryOK,
      Locals, RuleRefs, LocalsFit
<1> QED
  BY <1>1, <1>2, <1>3, <1>4, <1>5 DEF Next

\* The tables and the handlers' state keep their types, whatever the handlers,
\* the peers, the API and crashes do.
THEOREM TypeCorrect == Spec => []TypeOK
BY InitTypes, NextTypes, PTL DEF Spec

-----------------------------------------------------------------------------
(* Who holds a rule: what a step can do to the positions and locals of the *)
(* handlers.                                                               *)

\* A step of handler c touches no other handler; c itself ends, or stands at its
\* next await with its new locals.
LEMMA GotoFrame ==
    ASSUME HandlersOK, NEW c \in Conns, NEW next, NEW locals, Goto(c, next, locals)
    PROVE  /\ \A d \in Conns \ {c} : pc'[d] = pc[d] /\ job'[d] = job[d]
           /\ pc'[c] \in {"down", next}
           /\ pc'[c] # "down" => job'[c] = locals
BY DEF HandlersOK, Goto

\* A handler that is at the same await as before has the same rule in hand.
SameHold(d) == pc'[d] = pc[d] /\ job'[d].rule = job[d].rule

\* Steps other than those of a callback leave a handler where it is, or at an
\* await at which no rule is held.
LEMMA ConnStepFrame ==
    ASSUME TypeOK, NEW c \in Conns, NEW d \in Conns,
           \/ Receive(c) \/ Accept(c) \/ Connect(c) \/ PeerCloses(c)
           \/ EndOfStream(c) \/ StopHandler(c) \/ Disconnect(c)
    PROVE  SameHold(d) \/ pc'[d] \in {"down", "recv", "session"}
<1> USE DEF SameHold
<1>0. pc \in [Conns -> PCs] /\ job \in [Conns -> Locals]
  BY DEF TypeOK, HandlersOK
<1>1. ASSUME NEW jobs \in [Conns -> Locals], Shut(c, jobs) PROVE job'[d].rule = jobs[d].rule
  BY <1>1 DEF Shut, Locals
<1>2. ASSUME CloseAndCancel(c)
      PROVE  SameHold(d) \/ pc'[d] = "down"
  <2> DEFINE jobs == [job EXCEPT ![c] = IF pc[c] \in Jobs THEN @ ELSE NoJob]
  <2>1. jobs \in [Conns -> Locals] /\ Shut(c, jobs)
    BY <1>0, <1>2, NoJobTypes DEF CloseAndCancel
  <2>2. job'[d].rule = jobs[d].rule
    BY <1>1, <2>1
  <2> QED
    BY <1>0, <1>2, <2>2 DEF CloseAndCancel
<1>3. CASE Receive(c)
  BY <1>0, <1>3, GotoFrame DEF Receive, TypeOK
<1>4. CASE Accept(c) \/ Connect(c)
  BY <1>0, <1>4 DEF Accept, Connect
<1>5. CASE PeerCloses(c) \/ EndOfStream(c)
  BY <1>0, <1>1, <1>5 DEF PeerCloses, EndOfStream
<1>6. CASE StopHandler(c) \/ Disconnect(c)
  BY <1>2, <1>6 DEF StopHandler, Disconnect
<1> QED
  BY <1>3, <1>4, <1>5, <1>6

\* No such step, and none of the process, changes tables or history.
LEMMA ConnStepStore ==
    ASSUME NEW c \in Conns,
           \/ Receive(c) \/ Accept(c) \/ Connect(c) \/ PeerCloses(c)
           \/ EndOfStream(c) \/ StopHandler(c) \/ Disconnect(c)
    PROVE  UNCHANGED <<rules, wire, lastRuleId>>
BY DEF Receive, Accept, Connect, PeerCloses, EndOfStream, StopHandler, Disconnect, storeVars

-----------------------------------------------------------------------------
(* Counting handlers *)

\* The handlers that hold a rule are finitely many, at most all of them.
LEMMA HoldersFinite ==
    ASSUME NEW S, S \subseteq Conns
    PROVE  /\ IsFiniteSet(S)
           /\ Cardinality(S) \in Nat
           /\ Cardinality(Conns) \in Nat
           /\ Cardinality(S) <= Cardinality(Conns)
BY ConnsAssumption, FS_Subset, FS_CardinalityType

LEMMA FewerHolders ==
    ASSUME NEW S, NEW T, S \subseteq Conns, T \subseteq S
    PROVE  Cardinality(T) \in Nat /\ Cardinality(S) \in Nat /\ Cardinality(T) <= Cardinality(S)
BY HoldersFinite, FS_Subset, FS_CardinalityType

LEMMA OneHolderLess ==
    ASSUME NEW S, S \subseteq Conns, NEW c \in S, NEW T, T \subseteq S \ {c}
    PROVE  Cardinality(T) \in Nat /\ Cardinality(S) \in Nat
           /\ Cardinality(T) <= Cardinality(S) - 1
<1>1. IsFiniteSet(S) /\ Cardinality(S) \in Nat
  BY HoldersFinite
<1>2. Cardinality(S \ {c}) = Cardinality(S) - 1
  BY <1>1, FS_RemoveElement
<1>3. Cardinality(T) \in Nat /\ Cardinality(T) <= Cardinality(S \ {c})
  BY FewerHolders
<1> QED
  BY <1>1, <1>2, <1>3

-----------------------------------------------------------------------------
(* The count of a rule *)

\* A step after which every rule of the table is unchanged and has no new chooser
\* keeps the bound.
LEMMA OvershootKept ==
    ASSUME TypeOK, FiredOvershootBounded,
           \A r \in DOMAIN rules' : r \in DOMAIN rules /\ rules'[r] = rules[r],
           \A d \in Conns : pc'[d] \in {"delay", "fire"} =>
               pc[d] \in {"delay", "fire"} /\ job'[d].rule = job[d].rule
    PROVE  FiredOvershootBounded'
<1> SUFFICES ASSUME NEW r \in DOMAIN rules', rules'[r].body.count > 0
             PROVE  rules'[r].fired + Cardinality(Choosers(r)') <
                       rules'[r].body.count + Cardinality(Conns)
  BY DEF FiredOvershootBounded
<1>1. rules[r].fired + Cardinality(Choosers(r)) < rules[r].body.count + Cardinality(Conns)
  BY DEF FiredOvershootBounded
<1>2. Choosers(r)' \subseteq Choosers(r) /\ Choosers(r) \subseteq Conns
  BY DEF Choosers
<1>3. Cardinality(Choosers(r)') \in Nat /\ Cardinality(Choosers(r)) \in Nat
      /\ Cardinality(Choosers(r)') <= Cardinality(Choosers(r))
  BY <1>2, FewerHolders
<1>4. rules[r].fired \in Nat /\ rules[r].body.count \in Int /\ Cardinality(Conns) \in Nat
  BY HoldersFinite, BodiesAssumption DEF TypeOK, TablesOK
<1> QED
  BY <1>1, <1>3, <1>4

LEMMA OvershootMatch ==
    ASSUME TypeOK, FiredOvershootBounded, NEW c \in Conns, MatchRule(c)
    PROVE  FiredOvershootBounded'
<1>1. PICK m \in DOMAIN rules :
        /\ IsFirst(m, Matching(c))
        /\ Goto(c, IF rules[m].body.delay_ms > 0 THEN "delay" ELSE "fire",
                [job[c] EXCEPT !.rule = [id |-> m, body |-> rules[m].body]])
  BY DEF MatchRule
<1>2. CountLeft(rules[m])
  BY <1>1 DEF IsFirst, Matching, Matches
<1>3. rules' = rules /\ job[c] \in Locals
  BY DEF MatchRule, storeVars, TypeOK, HandlersOK
<1>4. pc'[c] # "down" => job'[c].rule.id = m
  BY <1>1, <1>3, GotoFrame DEF TypeOK, Locals
<1>5. \A d \in Conns \ {c} : pc'[d] = pc[d] /\ job'[d] = job[d]
  BY <1>1, GotoFrame DEF TypeOK
<1> SUFFICES ASSUME NEW r \in DOMAIN rules, rules[r].body.count > 0
             PROVE  rules[r].fired + Cardinality(Choosers(r)') <
                       rules[r].body.count + Cardinality(Conns)
  BY <1>3 DEF FiredOvershootBounded
<1>6. rules[r].fired \in Nat /\ rules[r].body.count \in Int /\ Cardinality(Conns) \in Nat
  BY HoldersFinite, BodiesAssumption DEF TypeOK, TablesOK
<1>7. CASE r = m
  <2>1. rules[r].fired < rules[r].body.count
    BY <1>2, <1>6, <1>7 DEF CountLeft
  <2>2. Choosers(r)' \subseteq Conns
    BY DEF Choosers
  <2>3. Cardinality(Choosers(r)') \in Nat /\ Cardinality(Choosers(r)') <= Cardinality(Conns)
    BY <2>2, HoldersFinite
  <2> QED
    BY <1>6, <2>1, <2>3
<1>8. CASE r # m
  <2>1. Choosers(r)' \subseteq Choosers(r) /\ Choosers(r) \subseteq Conns
    BY <1>4, <1>5, <1>8 DEF Choosers
  <2>2. Cardinality(Choosers(r)') \in Nat /\ Cardinality(Choosers(r)) \in Nat
        /\ Cardinality(Choosers(r)') <= Cardinality(Choosers(r))
    BY <2>1, FewerHolders
  <2> QED
    BY <1>6, <2>2 DEF FiredOvershootBounded
<1> QED
  BY <1>7, <1>8

LEMMA OvershootIncrement ==
    ASSUME TypeOK, FiredOvershootBounded, NEW c \in Conns, IncrementRule(c)
    PROVE  FiredOvershootBounded'
<1> DEFINE m == job[c].rule.id
<1>1. DOMAIN rules' = DOMAIN rules
      /\ \A r \in DOMAIN rules :
            rules'[r] = IF r = m THEN [rules[r] EXCEPT !.fired = @ + 1] ELSE rules[r]
  BY DEF IncrementRule, IncrementFired
<1>2. pc[c] = "fire" /\ c \in Choosers(m)
  BY DEF IncrementRule, Choosers
<1>3. /\ \A d \in Conns \ {c} : pc'[d] = pc[d] /\ job'[d] = job[d]
      /\ pc'[c] \in {"down", "recv", "lookup"}
  BY GotoFrame DEF IncrementRule, Return, TypeOK
<1> SUFFICES ASSUME NEW r \in DOMAIN rules, rules'[r].body.count > 0
             PROVE  rules'[r].fired + Cardinality(Choosers(r)') <
                       rules'[r].body.count + Cardinality(Conns)
  BY <1>1 DEF FiredOvershootBounded
<1>4. /\ rules[r].fired \in Nat /\ rules[r].body.count \in Int /\ Cardinality(Conns) \in Nat
      /\ rules'[r].body = rules[r].body
      /\ rules'[r].fired = IF r = m THEN rules[r].fired + 1 ELSE rules[r].fired
  BY <1>1, HoldersFinite, BodiesAssumption DEF TypeOK, TablesOK
<1>5. rules[r].fired + Cardinality(Choosers(r)) < rules[r].body.count + Cardinality(Conns)
  BY <1>4 DEF FiredOvershootBounded
<1>6. Choosers(r)' \subseteq Choosers(r) \ {c} /\ Choosers(r) \subseteq Conns
  BY <1>3 DEF Choosers
<1>7. CASE r = m
  BY <1>2, <1>4, <1>5, <1>6, <1>7, OneHolderLess
<1>8. CASE r # m
  BY <1>4, <1>5, <1>6, <1>8, FewerHolders
<1> QED
  BY <1>7, <1>8

LEMMA OvershootCreate ==
    ASSUME TypeOK, FiredOvershootBounded, NEW body \in Bodies, CreateRule(body)
    PROVE  FiredOvershootBounded'
<1>1. /\ DOMAIN rules' = DOMAIN rules \cup {NextRuleId}
      /\ \A r \in DOMAIN rules' :
            rules'[r] = IF r = NextRuleId THEN [body |-> body, fired |-> 0] ELSE rules[r]
      /\ UNCHANGED <<pc, job>>
  BY DEF CreateRule, SaveRule, InsertRow, pipelineVars
<1> SUFFICES ASSUME NEW r \in DOMAIN rules', rules'[r].body.count > 0
             PROVE  rules'[r].fired + Cardinality(Choosers(r)) <
                       rules'[r].body.count + Cardinality(Conns)
  BY <1>1 DEF FiredOvershootBounded, Choosers
<1>2. CASE r = NextRuleId
  <2>1. Choosers(r) \subseteq Conns
    BY DEF Choosers
  <2> QED
    BY <1>1, <1>2, <2>1, HoldersFinite, BodiesAssumption
<1>3. CASE r # NextRuleId
  BY <1>1, <1>3 DEF FiredOvershootBounded
<1> QED
  BY <1>2, <1>3

LEMMA OvershootNext ==
    ASSUME TypeOK, FiredOvershootBounded, [Next]_vars
    PROVE  FiredOvershootBounded'
<1>0. pc \in [Conns -> PCs] /\ job \in [Conns -> Locals] /\ HandlersOK
  BY DEF TypeOK, HandlersOK
<1>1. ASSUME NEW c \in Conns, CallbackStep(c), ~MatchRule(c), ~IncrementRule(c)
      PROVE  FiredOvershootBounded'
  <2>1. UNCHANGED rules
    BY <1>1
    DEF CallbackStep, ReadSession, SaveInbound, MatchNone, DelayEnds, LookupPeer, SendReply,
        SendFails, ReadReplySession, SaveReply, StoreError, DropJob, SaveMessage, storeVars
  <2>2. \A d \in Conns \ {c} : pc'[d] = pc[d] /\ job'[d] = job[d]
    BY <1>0, <1>1, GotoFrame
    DEF CallbackStep, ReadSession, SaveInbound, MatchNone, DelayEnds, LookupPeer, SendReply,
        SendFails, ReadReplySession, SaveReply, StoreError, DropJob, Return
  <2>3. pc'[c] \in {"delay", "fire"} => pc[c] \in {"delay", "fire"} /\ job'[c] = job[c]
    BY <1>0, <1>1, GotoFrame
    DEF CallbackStep, ReadSession, SaveInbound, MatchNone, DelayEnds, LookupPeer, SendReply,
        SendFails, ReadReplySession, SaveReply, StoreError, DropJob, Return
  <2> QED
    BY <2>1, <2>2, <2>3, OvershootKept
<1>2. ASSUME NEW c \in Conns,
             \/ Receive(c) \/ Accept(c) \/ Connect(c) \/ PeerCloses(c)
             \/ EndOfStream(c) \/ StopHandler(c) \/ Disconnect(c)
      PROVE  FiredOvershootBounded'
  BY <1>2, ConnStepFrame, ConnStepStore, OvershootKept DEF SameHold
<1>3. CASE StartServer \/ StopServer \/ Crash
  <2>1. UNCHANGED rules /\ \A d \in Conns : SameHold(d) \/ pc'[d] = "down"
    BY <1>3 DEF StartServer, StopServer, Crash, ReopenDb, storeVars, SameHold
  <2> QED
    BY <2>1, OvershootKept DEF SameHold
<1>4. CASE \/ \E id \in DOMAIN rules : RemoveRule(id)
           \/ RemoveAllRules \/ RemoveAllMessages \/ Reset
  <2>1. /\ UNCHANGED <<pc, job>>
        /\ \A r \in DOMAIN rules' : r \in DOMAIN rules /\ rules'[r] = rules[r]
    BY <1>4
    DEF RemoveRule, RemoveAllRules, RemoveAllMessages, Reset, DeleteRule, DeleteAllRules,
        DeleteAllMessages, ResetSession, DeleteRows, NoRows, pipelineVars
  <2> QED
    BY <2>1, OvershootKept
<1>5. CASE UNCHANGED vars
  BY <1>5, OvershootKept DEF vars, storeVars, pipelineVars
<1> QED
  BY <1>1, <1>2, <1>3, <1>4, <1>5, OvershootMatch, OvershootIncrement, OvershootCreate DEF Next

\* However many handlers choose a rule before one of them charges it, and whatever
\* is cancelled or crashes in between, a rule with a count fires less than
\* Cardinality(Conns) times too often.
THEOREM OvershootBounded == Spec => []FiredOvershootBounded
<1>1. Init => FiredOvershootBounded
  BY DEF Init, InitDb, NoRows, FiredOvershootBounded
<1> QED
  BY <1>1, OvershootNext, TypeCorrect, PTL DEF Spec

-----------------------------------------------------------------------------
(* Replies and the fired column *)

\* The inductive invariant: the history of sends is finite, so it can be counted.
RepliesInv == RepliesWithinFired /\ IsFiniteSet(wire)

\* The replies of a rule on the wire are finitely many, and none for an id not yet
\* given out.
LEMMA SendsFinite ==
    ASSUME IsFiniteSet(wire), NEW r
    PROVE  IsFiniteSet(Sends(r)) /\ Cardinality(Sends(r)) \in Nat
<1>1. Sends(r) \subseteq wire
  BY DEF Sends
<1> QED
  BY <1>1, FS_Subset, FS_CardinalityType

\* A step that sends nothing, lowers no counter and lets no handler begin to reply
\* keeps the invariant.
LEMMA RepliesKept ==
    ASSUME TypeOK, RepliesInv, UNCHANGED wire,
           \A r \in DOMAIN rules' : r \in DOMAIN rules /\ rules'[r] = rules[r],
           \A d \in Conns : pc'[d] \in {"lookup", "send"} =>
               pc[d] \in {"lookup", "send"} /\ job'[d].rule = job[d].rule
    PROVE  RepliesInv'
<1> SUFFICES ASSUME NEW r \in DOMAIN rules'
             PROVE  Cardinality(Sends(r)) + Cardinality(Repliers(r)') <= rules'[r].fired
  BY DEF RepliesInv, RepliesWithinFired, Sends
<1>1. Repliers(r)' \subseteq Repliers(r) /\ Repliers(r) \subseteq Conns
  BY DEF Repliers
<1>2. Cardinality(Repliers(r)') \in Nat /\ Cardinality(Repliers(r)) \in Nat
      /\ Cardinality(Repliers(r)') <= Cardinality(Repliers(r))
  BY <1>1, FewerHolders
<1>3. Cardinality(Sends(r)) \in Nat /\ rules[r].fired \in Nat
  BY SendsFinite DEF RepliesInv, TypeOK, TablesOK
<1> QED
  BY <1>2, <1>3 DEF RepliesInv, RepliesWithinFired

LEMMA RepliesIncrement ==
    ASSUME TypeOK, RepliesInv, NEW c \in Conns, IncrementRule(c)
    PROVE  RepliesInv'
<1> DEFINE m == job[c].rule.id
<1>1. DOMAIN rules' = DOMAIN rules /\ UNCHANGED wire
      /\ \A r \in DOMAIN rules :
            rules'[r] = IF r = m THEN [rules[r] EXCEPT !.fired = @ + 1] ELSE rules[r]
  BY DEF IncrementRule, IncrementFired
<1>2. /\ \A d \in Conns \ {c} : pc'[d] = pc[d] /\ job'[d] = job[d]
      /\ pc'[c] = "lookup" => job'[c] = job[c]
      /\ pc'[c] \in {"down", "recv", "lookup"}
      /\ pc[c] = "fire"
  BY GotoFrame DEF IncrementRule, Return, TypeOK
<1> SUFFICES ASSUME NEW r \in DOMAIN rules
             PROVE  Cardinality(Sends(r)) + Cardinality(Repliers(r)') <= rules'[r].fired
  BY <1>1 DEF RepliesInv, RepliesWithinFired, Sends
<1>3. /\ rules[r].fired \in Nat /\ Cardinality(Sends(r)) \in Nat
      /\ rules'[r].fired = IF r = m THEN rules[r].fired + 1 ELSE rules[r].fired
      /\ Cardinality(Sends(r)) + Cardinality(Repliers(r)) <= rules[r].fired
  BY <1>1, SendsFinite DEF TypeOK, TablesOK, RepliesInv, RepliesWithinFired
<1>4. CASE r = m
  <2>1. Repliers(r)' \subseteq Repliers(r) \cup {c} /\ Repliers(r) \cup {c} \subseteq Conns
    BY <1>2 DEF Repliers
  <2>2. c \notin Repliers(r) /\ IsFiniteSet(Repliers(r)) /\ Cardinality(Repliers(r)) \in Nat
    BY <1>2, <2>1, HoldersFinite DEF Repliers
  <2>3. Cardinality(Repliers(r) \cup {c}) = Cardinality(Repliers(r)) + 1
    BY <2>2, FS_AddElement
  <2>4. Cardinality(Repliers(r)') \in Nat
        /\ Cardinality(Repliers(r)') <= Cardinality(Repliers(r) \cup {c})
    BY <2>1, FewerHolders
  <2> QED
    BY <1>3, <1>4, <2>2, <2>3, <2>4
<1>5. CASE r # m
  <2>1. Repliers(r)' \subseteq Repliers(r) /\ Repliers(r) \subseteq Conns
    BY <1>2, <1>5 DEF Repliers
  <2> QED
    BY <1>3, <1>5, <2>1, FewerHolders
<1> QED
  BY <1>4, <1>5

LEMMA RepliesSend ==
    ASSUME TypeOK, RepliesInv, NEW c \in Conns, SendReply(c)
    PROVE  RepliesInv'
<1> DEFINE m == job[c].rule.id
           w == [rule |-> m, cause |-> job[c].id, conn |-> job[c].to]
<1>1. wire' = wire \cup {w} /\ UNCHANGED rules /\ pc[c] = "send"
  BY DEF SendReply, storeVars
<1>2. IsFiniteSet(wire')
  BY <1>1, FS_AddElement DEF RepliesInv
<1>3. /\ \A d \in Conns \ {c} : pc'[d] = pc[d] /\ job'[d] = job[d]
      /\ pc'[c] \in {"down", "tag"}
  BY GotoFrame DEF SendReply, TypeOK
<1> SUFFICES ASSUME NEW r \in DOMAIN rules
             PROVE  Cardinality(Sends(r)') + Cardinality(Repliers(r)') <= rules[r].fired
  BY <1>1, <1>2 DEF RepliesInv, RepliesWithinFired
<1>4. /\ IsFiniteSet(Sends(r)) /\ Cardinality(Sends(r)) \in Nat /\ rules[r].fired \in Nat
      /\ Cardinality(Sends(r)) + Cardinality(Repliers(r)) <= rules[r].fired
  BY SendsFinite DEF TypeOK, TablesOK, RepliesInv, RepliesWithinFired
<1>5. Repliers(r)' \subseteq Repliers(r) \ {c} /\ Repliers(r) \subseteq Conns
  BY <1>3 DEF Repliers
<1>6. CASE r = m
  <2>1. c \in Repliers(r)
    BY <1>1, <1>6 DEF Repliers
  <2>2. Cardinality(Repliers(r)') \in Nat /\ Cardinality(Repliers(r)) \in Nat
        /\ Cardinality(Repliers(r)') <= Cardinality(Repliers(r)) - 1
    BY <1>5, <2>1, OneHolderLess
  <2>3. Sends(r)' = Sends(r) \cup {w}
    BY <1>1, <1>6 DEF Sends
  <2>4. Cardinality(Sends(r)') \in Nat /\ Cardinality(Sends(r)') <= Cardinality(Sends(r)) + 1
    <3> HIDE DEF w
    <3>1. Cardinality(Sends(r) \cup {w})
             = IF w \in Sends(r) THEN Cardinality(Sends(r)) ELSE Cardinality(Sends(r)) + 1
      BY <1>4, FS_AddElement
    <3> QED
      BY <1>4, <2>3, <3>1
  <2> QED
    BY <1>4, <2>2, <2>4
<1>7. CASE r # m
  <2>1. Sends(r)' = Sends(r)
    BY <1>1, <1>7 DEF Sends
  <2> QED
    BY <1>4, <1>5, <2>1, FewerHolders
<1> QED
  BY <1>6, <1>7

LEMMA RepliesCreate ==
    ASSUME TypeOK, RepliesInv, NEW body \in Bodies, CreateRule(body)
    PROVE  RepliesInv'
<1>1. /\ DOMAIN rules' = DOMAIN rules \cup {NextRuleId}
      /\ \A r \in DOMAIN rules' :
            rules'[r] = IF r = NextRuleId THEN [body |-> body, fired |-> 0] ELSE rules[r]
      /\ UNCHANGED <<pc, job, wire>>
  BY DEF CreateRule, SaveRule, InsertRow, pipelineVars
<1> SUFFICES ASSUME NEW r \in DOMAIN rules'
             PROVE  Cardinality(Sends(r)) + Cardinality(Repliers(r)) <= rules'[r].fired
  BY <1>1 DEF RepliesInv, RepliesWithinFired, Sends, Repliers
<1>2. CASE r = NextRuleId
  <2>1. lastRuleId \in Nat /\ r \notin 1..lastRuleId
    BY <1>2, BoundsAssumption DEF NextRuleId, TypeOK, TablesOK
  <2>2. Sends(r) = {}
    BY <2>1 DEF Sends, TypeOK, HistoryOK
  <2>3. Repliers(r) = {}
    <3> SUFFICES ASSUME NEW d \in Repliers(r) PROVE FALSE
      OBVIOUS
    <3>1. job[d] \in Locals /\ job[d].rule # None /\ job[d].rule.id = r
      BY DEF Repliers, TypeOK, HandlersOK, LocalsFit
    <3> QED
      BY <2>1, <3>1 DEF Locals, RuleRefs
  <2> QED
    BY <1>1, <1>2, <2>2, <2>3, FS_EmptySet
<1>3. CASE r # NextRuleId
  BY <1>1, <1>3 DEF RepliesInv, RepliesWithinFired
<1> QED
  BY <1>2, <1>3

LEMMA RepliesNext ==
    ASSUME TypeOK, RepliesInv, [Next]_vars
    PROVE  RepliesInv'
<1>0. pc \in [Conns -> PCs] /\ job \in [Conns -> Locals] /\ HandlersOK
  BY DEF TypeOK, HandlersOK
<1>1. ASSUME NEW c \in Conns, CallbackStep(c), ~SendReply(c), ~IncrementRule(c)
      PROVE  RepliesInv'
  <2>1. UNCHANGED <<rules, wire>>
    BY <1>1
    DEF CallbackStep, ReadSession, SaveInbound, MatchNone, MatchRule, DelayEnds, LookupPeer,
        SendFails, ReadReplySession, SaveReply, StoreError, DropJob, SaveMessage, storeVars
  <2>2. \A d \in Conns \ {c} : pc'[d] = pc[d] /\ job'[d] = job[d]
    BY <1>0, <1>1, GotoFrame
    DEF CallbackStep, ReadSession, SaveInbound, MatchNone, MatchRule, DelayEnds, LookupPeer,
        SendFails, ReadReplySession, SaveReply, StoreError, DropJob, Return
  <2>3. pc'[c] \in {"lookup", "send"} =>
           pc[c] \in {"lookup", "send"} /\ job'[c].rule = job[c].rule
    <3>1. CASE LookupPeer(c)
      BY <1>0, <3>1, GotoFrame DEF LookupPeer, Locals
    <3>2. CASE MatchRule(c)
      <4>1. PICK r \in DOMAIN rules :
              \E locals : Goto(c, IF rules[r].body.delay_ms > 0 THEN "delay" ELSE "fire", locals)
        BY <3>2 DEF MatchRule
      <4> QED
        BY <1>0, <4>1, GotoFrame
    <3>3. CASE ~LookupPeer(c) /\ ~MatchRule(c)
      BY <1>0, <1>1, <3>3, GotoFrame
      DEF CallbackStep, ReadSession, SaveInbound, MatchNone, DelayEnds, SendFails,
          ReadReplySession, SaveReply, StoreError, DropJob, Return
    <3> QED
      BY <3>1, <3>2, <3>3
  <2> QED
    BY <2>1, <2>2, <2>3, RepliesKept
<1>2. ASSUME NEW c \in Conns,
             \/ Receive(c) \/ Accept(c) \/ Connect(c) \/ PeerCloses(c)
             \/ EndOfStream(c) \/ StopHandler(c) \/ Disconnect(c)
      PROVE  RepliesInv'
  BY <1>2, ConnStepFrame, ConnStepStore, RepliesKept DEF SameHold
<1>3. CASE StartServer \/ StopServer \/ Crash
  <2>1. UNCHANGED <<rules, wire>> /\ \A d \in Conns : SameHold(d) \/ pc'[d] = "down"
    BY <1>3 DEF StartServer, StopServer, Crash, ReopenDb, storeVars, SameHold
  <2> QED
    BY <2>1, RepliesKept DEF SameHold
<1>4. CASE \/ \E id \in DOMAIN rules : RemoveRule(id)
           \/ RemoveAllRules \/ RemoveAllMessages \/ Reset
  <2>1. /\ UNCHANGED <<pc, job, wire>>
        /\ \A r \in DOMAIN rules' : r \in DOMAIN rules /\ rules'[r] = rules[r]
    BY <1>4
    DEF RemoveRule, RemoveAllRules, RemoveAllMessages, Reset, DeleteRule, DeleteAllRules,
        DeleteAllMessages, ResetSession, DeleteRows, NoRows, pipelineVars
  <2> QED
    BY <2>1, RepliesKept
<1>5. CASE UNCHANGED vars
  BY <1>5, RepliesKept DEF vars, storeVars, pipelineVars
<1> QED
  BY <1>1, <1>2, <1>3, <1>4, <1>5, RepliesIncrement, RepliesSend, RepliesCreate DEF Next

\* The fired column of a stored rule is at all times, across cancellations and
\* restarts, at least the number of replies the rule has sent or is about to send.
THEOREM RepliesAccounted == Spec => []RepliesWithinFired
<1>1. Init => RepliesInv
  BY FS_EmptySet DEF Init, InitDb, NoRows, RepliesInv, RepliesWithinFired
<1> QED
  BY <1>1, RepliesNext, TypeCorrect, PTL DEF Spec, RepliesInv

-----------------------------------------------------------------------------
(* The rule a handler holds *)

\* A step that lets no handler choose a rule and adds none to the table, and that
\* changes no body in it, keeps held rules current.
LEMMA HeldKept ==
    ASSUME HeldRuleIsCurrent,
           \A r \in DOMAIN rules' : r \in DOMAIN rules /\ rules'[r].body = rules[r].body,
           \A d \in Conns : job'[d].rule \in {None, job[d].rule}
    PROVE  HeldRuleIsCurrent'
BY DEF HeldRuleIsCurrent

LEMMA HeldMatch ==
    ASSUME TypeOK, HeldRuleIsCurrent, NEW c \in Conns, MatchRule(c)
    PROVE  HeldRuleIsCurrent'
<1>1. PICK m \in DOMAIN rules :
        Goto(c, IF rules[m].body.delay_ms > 0 THEN "delay" ELSE "fire",
             [job[c] EXCEPT !.rule = [id |-> m, body |-> rules[m].body]])
  BY DEF MatchRule
<1>2. rules' = rules /\ job \in [Conns -> Locals]
  BY DEF MatchRule, storeVars, TypeOK, HandlersOK
<1>3. job'[c].rule \in {None, [id |-> m, body |-> rules[m].body]}
  BY <1>1, <1>2 DEF Goto, NoJob, Locals
<1>4. \A d \in Conns \ {c} : job'[d] = job[d]
  BY <1>1, GotoFrame DEF TypeOK
<1> QED
  BY <1>2, <1>3, <1>4 DEF HeldRuleIsCurrent

LEMMA HeldCreate ==
    ASSUME TypeOK, HeldRuleIsCurrent, NEW body \in Bodies, CreateRule(body)
    PROVE  HeldRuleIsCurrent'
<1>1. /\ DOMAIN rules' = DOMAIN rules \cup {NextRuleId}
      /\ \A r \in DOMAIN rules : r # NextRuleId => rules'[r] = rules[r]
      /\ job' = job
  BY DEF CreateRule, SaveRule, InsertRow, pipelineVars
<1>2. NextRuleId \notin 1..lastRuleId
  BY BoundsAssumption DEF NextRuleId, TypeOK, TablesOK
<1>3. ASSUME NEW d \in Conns, job[d].rule # None PROVE job[d].rule.id # NextRuleId
  BY <1>2, <1>3 DEF TypeOK, HandlersOK, Locals, RuleRefs
<1> QED
  BY <1>1, <1>3 DEF HeldRuleIsCurrent

LEMMA HeldNext ==
    ASSUME TypeOK, HeldRuleIsCurrent, [Next]_vars
    PROVE  HeldRuleIsCurrent'
<1>0. job \in [Conns -> Locals]
  BY DEF TypeOK, HandlersOK
<1>1. ASSUME NEW c \in Conns, CallbackStep(c), ~MatchRule(c)
      PROVE  HeldRuleIsCurrent'
  <2>1. \A r \in DOMAIN rules' : r \in DOMAIN rules /\ rules'[r].body = rules[r].body
    BY <1>1
    DEF CallbackStep, ReadSession, SaveInbound, MatchNone, DelayEnds, LookupPeer, SendReply,
        SendFails, ReadReplySession, SaveReply, StoreError, DropJob, SaveMessage, storeVars,
        IncrementRule, IncrementFired, TypeOK, TablesOK
  <2>2. ASSUME NEW next, NEW locals, Goto(c, next, locals),
               locals.rule \in {None, job[c].rule}
        PROVE  \A d \in Conns : job'[d].rule \in {None, job[d].rule}
    BY <1>0, <2>2 DEF Goto, NoJob
  <2>3. NoJob.rule = None
    BY DEF NoJob
  <2>4. \A d \in Conns : job'[d].rule \in {None, job[d].rule}
    <3>1. CASE ReadSession(c) \/ ReadReplySession(c) \/ SaveInbound(c) \/ LookupPeer(c)
      BY <1>0, <2>2, <3>1 DEF ReadSession, ReadReplySession, SaveInbound, LookupPeer, Locals
    <3>2. CASE MatchNone(c) \/ SendFails(c) \/ SaveReply(c) \/ StoreError(c) \/ DropJob(c)
      BY <2>2, <2>3, <3>2 DEF MatchNone, SendFails, SaveReply, StoreError, DropJob, Return
    <3>3. CASE DelayEnds(c) \/ IncrementRule(c) \/ SendReply(c)
      BY <2>2, <2>3, <3>3 DEF DelayEnds, IncrementRule, SendReply, Return
    <3> QED
      BY <1>1, <3>1, <3>2, <3>3 DEF CallbackStep
  <2> QED
    BY <2>1, <2>4, HeldKept
<1>2. ASSUME NEW c \in Conns,
             \/ Receive(c) \/ Accept(c) \/ Connect(c) \/ PeerCloses(c)
             \/ EndOfStream(c) \/ StopHandler(c) \/ Disconnect(c)
      PROVE  HeldRuleIsCurrent'
  <2>1. TypeOK'
    BY <1>2, ConnStepTypes
  <2>2. \A d \in Conns : job'[d].rule \in {None, job[d].rule}
    <3> SUFFICES ASSUME NEW d \in Conns PROVE job'[d].rule \in {None, job[d].rule}
      OBVIOUS
    <3>1. SameHold(d) \/ pc'[d] \in {"down", "recv", "session"}
      BY <1>2, ConnStepFrame
    <3>2. LocalsFit(pc'[d], job'[d])
      BY <2>1 DEF TypeOK, HandlersOK, LocalsFit
    <3> QED
      BY <3>1, <3>2 DEF SameHold, LocalsFit
  <2> QED
    BY <1>2, <2>2, ConnStepStore, HeldKept
<1>3. CASE StartServer \/ StopServer \/ Crash
  BY <1>3, HeldKept DEF StartServer, StopServer, Crash, ReopenDb, storeVars, NoJob
<1>4. CASE \/ \E id \in DOMAIN rules : RemoveRule(id)
           \/ RemoveAllRules \/ RemoveAllMessages \/ Reset
  BY <1>4, HeldKept
  DEF RemoveRule, RemoveAllRules, RemoveAllMessages, Reset, DeleteRule, DeleteAllRules,
      DeleteAllMessages, ResetSession, DeleteRows, NoRows, pipelineVars
<1>5. CASE UNCHANGED vars
  BY <1>5, HeldKept DEF vars, storeVars, pipelineVars
<1> QED
  BY <1>1, <1>2, <1>3, <1>4, <1>5, HeldMatch, HeldCreate DEF Next

\* The rule a handler charges and logs under an id is the one it matched, or one
\* that has been deleted: never another rule that got the same id later.
THEOREM HeldRulesCurrent == Spec => []HeldRuleIsCurrent
<1>1. Init => HeldRuleIsCurrent
  BY DEF Init, NoJob, HeldRuleIsCurrent
<1> QED
  BY <1>1, HeldNext, TypeCorrect, PTL DEF Spec

-----------------------------------------------------------------------------
(* The peers table *)

\* A step of a callback changes neither the table nor who serves its entries.
LEMMA ServedCallback ==
    ASSUME TypeOK, RegisteredPeersAreServed, NEW c \in Conns, CallbackStep(c)
    PROVE  RegisteredPeersAreServed'
<1>1. UNCHANGED peers
  BY DEF CallbackStep, ReadSession, SaveInbound, MatchNone, MatchRule, DelayEnds, IncrementRule,
         LookupPeer, SendReply, SendFails, ReadReplySession, SaveReply, StoreError, DropJob,
         KeepConns
<1>2. \E next, locals : Goto(c, next, locals) /\ (next # "down" \/ c \in cancelled)
  <2>1. CASE MatchRule(c)
    BY <2>1 DEF MatchRule
  <2>2. CASE LookupPeer(c)
    BY <2>2 DEF LookupPeer
  <2>3. CASE IncrementRule(c)
    BY <2>3 DEF IncrementRule, Return
  <2>4. CASE ~MatchRule(c) /\ ~LookupPeer(c) /\ ~IncrementRule(c)
    BY <2>4
    DEF CallbackStep, ReadSession, SaveInbound, MatchNone, DelayEnds, SendReply, SendFails,
        ReadReplySession, SaveReply, StoreError, DropJob, Return
  <2> QED
    BY <2>1, <2>2, <2>3, <2>4
<1>3. \A d \in Conns : d \notin cancelled /\ pc[d] # "down" =>
         d \notin cancelled' /\ pc'[d] # "down"
  BY <1>2 DEF Goto, TypeOK, HandlersOK
<1>4. \A a \in Addrs : peers[a] # None => peers[a] \in Conns
  BY DEF TypeOK, AssociationsOK, Conns
<1> QED
  BY <1>1, <1>3, <1>4 DEF RegisteredPeersAreServed

LEMMA ServedConnStep ==
    ASSUME TypeOK, RegisteredPeersAreServed, NEW c \in Conns,
           \/ Receive(c) \/ Accept(c) \/ Connect(c) \/ PeerCloses(c)
           \/ EndOfStream(c) \/ StopHandler(c) \/ Disconnect(c)
    PROVE  RegisteredPeersAreServed'
<1> USE DEF RegisteredPeersAreServed
<1>0. /\ pc \in [Conns -> PCs] /\ peers \in [Addrs -> ServerConns \cup {None}]
      /\ cancelled \subseteq {d \in Conns : pc[d] \in Jobs}
      /\ PeerAddr[c] \in Addrs /\ None \notin ServerConns /\ ServerConns \subseteq Conns
      /\ ServerConns \cap ClientConns = {}
  BY ConnsAssumption, NoneAssumption DEF TypeOK, HandlersOK, AssociationsOK, Conns
<1>1. CASE Receive(c)
  BY <1>0, <1>1 DEF Receive, Goto
<1>2. CASE Accept(c)
  BY <1>0, <1>2 DEF Accept, Jobs, StoreAwaits
<1>3. CASE Connect(c) \/ PeerCloses(c)
  BY <1>0, <1>3 DEF Connect, PeerCloses
<1>4. CASE EndOfStream(c)
  BY <1>0, <1>4 DEF EndOfStream, Unregister
<1>5. CASE StopHandler(c)
  BY <1>0, <1>5 DEF StopHandler, CloseAndCancel, Unregister
<1>6. CASE Disconnect(c)
  BY <1>0, <1>6 DEF Disconnect, CloseAndCancel
<1> QED
  BY <1>1, <1>2, <1>3, <1>4, <1>5, <1>6

\* Each conn of the peers table is read by a handler that runs and is not cancelled.
THEOREM PeersServed == Spec => []RegisteredPeersAreServed
<1>1. Init => RegisteredPeersAreServed
  BY DEF Init, NoPeers, RegisteredPeersAreServed
<1>2. TypeOK /\ RegisteredPeersAreServed /\ [Next]_vars => RegisteredPeersAreServed'
  <2> SUFFICES ASSUME TypeOK, RegisteredPeersAreServed, [Next]_vars
               PROVE  RegisteredPeersAreServed'
    OBVIOUS
  <2>1. CASE StartServer \/ StopServer \/ Crash
    BY <2>1 DEF StartServer, StopServer, Crash, NoPeers, RegisteredPeersAreServed
  <2>2. CASE \/ \E body \in Bodies : CreateRule(body)
             \/ \E id \in DOMAIN rules : RemoveRule(id)
             \/ RemoveAllRules \/ RemoveAllMessages \/ Reset \/ UNCHANGED vars
    BY <2>2
    DEF CreateRule, RemoveRule, RemoveAllRules, RemoveAllMessages, Reset, pipelineVars, vars,
        RegisteredPeersAreServed
  <2> QED
    BY <2>1, <2>2, ServedCallback, ServedConnStep DEF Next
<1> QED
  BY <1>1, <1>2, TypeCorrect, PTL DEF Spec

-----------------------------------------------------------------------------
(* The log that the handlers write: replies and requests of one association in
   order, sessions never going back *)

\* What a handler writes next: an inbound row from "save", an outbound one from "log".
Writing == {"save", "log"}

\* Every row was filed under a session there has been.
RowsHaveSessions == \A i \in DOMAIN messages : messages[i].session \in 0..session

\* A handler that has saved its request: no later request of its association is in
\* the log.
LastRequestHeld == \A c \in Conns : job[c].id # None =>
    /\ job[c].id \in 1..lastMessageId
    /\ \A i \in Inbound : messages[i].assoc = c => i <= job[c].id

\* A handler that is about to write has read a session that no row of its association
\* is ahead of.
TagsCurrent == \A c \in Conns : pc[c] \in Writing =>
    /\ job[c].tag \in 0..session
    /\ \A i \in DOMAIN messages : messages[i].assoc = c => messages[i].session <= job[c].tag

LogInv ==
    /\ RowsHaveSessions /\ LastRequestHeld /\ TagsCurrent
    /\ ReplyFollowsItsRequest /\ SessionsOrderedPerAssociation

-----------------------------------------------------------------------------
(* Steps that write nothing *)

\* Handler d has come no further, given up, or read the session.
Idles(d) ==
    /\ job'[d].id \in {None, job[d].id}
    /\ pc'[d] \in Writing =>
          \/ pc'[d] = pc[d] /\ job'[d].tag = job[d].tag
          \/ job'[d].tag = session

LEMMA NothingWritten ==
    ASSUME TypeOK, LogInv, \A d \in Conns : Idles(d),
           DOMAIN messages' \subseteq DOMAIN messages,
           \A i \in DOMAIN messages' : messages'[i] = messages[i],
           UNCHANGED lastMessageId, session' \in {session, session + 1}
    PROVE  LogInv'
<1>1. session \in Nat /\ session' \in Nat /\ session <= session'
  BY BoundsAssumption DEF TypeOK, TablesOK
<1>2. RowsHaveSessions'
  BY <1>1 DEF LogInv, RowsHaveSessions
<1>3. LastRequestHeld'
  <2> SUFFICES ASSUME NEW c \in Conns, job'[c].id # None
               PROVE  /\ job'[c].id \in 1..lastMessageId
                      /\ \A i \in Inbound' : messages'[i].assoc = c => i <= job'[c].id
    BY DEF LastRequestHeld
  <2>1. job'[c].id = job[c].id
    BY DEF Idles
  <2>2. Inbound' \subseteq Inbound
    BY DEF Inbound
  <2> QED
    BY <2>1, <2>2 DEF LogInv, LastRequestHeld, Inbound
<1>4. TagsCurrent'
  <2> SUFFICES ASSUME NEW c \in Conns, pc'[c] \in Writing
               PROVE  /\ job'[c].tag \in 0..session'
                      /\ \A i \in DOMAIN messages' :
                            messages'[i].assoc = c => messages'[i].session <= job'[c].tag
    BY DEF TagsCurrent
  <2>1. CASE pc'[c] = pc[c] /\ job'[c].tag = job[c].tag
    BY <1>1, <2>1 DEF LogInv, TagsCurrent
  <2>2. CASE job'[c].tag = session
    BY <1>1, <2>2 DEF LogInv, RowsHaveSessions
  <2> QED
    BY <2>1, <2>2 DEF Idles
<1>5. ReplyFollowsItsRequest'
  BY DEF LogInv, ReplyFollowsItsRequest, Inbound, Outbound
<1>6. SessionsOrderedPerAssociation'
  BY DEF LogInv, SessionsOrderedPerAssociation
<1> QED
  BY <1>2, <1>3, <1>4, <1>5, <1>6 DEF LogInv

-----------------------------------------------------------------------------
(* Steps that write a row *)

\* Handler c writes a row of its association with the tag it has read: a request it
\* may then hold, or the reply to the request it holds.
LEMMA RowWritten ==
    ASSUME TypeOK, LogInv, NEW c \in Conns, NEW row, SaveMessage(row),
           pc[c] \in Writing, row.assoc = c, row.session = job[c].tag,
           pc'[c] \notin Writing,
           \/ row.direction = "inbound" /\ job'[c].id \in {None, NextMessageId}
           \/ /\ row.direction = "outbound" /\ row.cause = job[c].id /\ job[c].id # None
              /\ job'[c].id = None,
           \A d \in Conns \ {c} : pc'[d] = pc[d] /\ job'[d] = job[d]
    PROVE  LogInv'
<1> DEFINE n == NextMessageId
<1>1. /\ n \in Nat /\ lastMessageId \in Nat /\ n = lastMessageId + 1 /\ lastMessageId' = n
      /\ DOMAIN messages \subseteq 1..lastMessageId
      /\ session' = session
  BY DEF TypeOK, TablesOK, NextMessageId, SaveMessage
<1>2. /\ DOMAIN messages' = DOMAIN messages \cup {n}
      /\ messages'[n] = row
      /\ \A i \in DOMAIN messages : messages'[i] = messages[i]
  BY <1>1 DEF SaveMessage, InsertRow
<1> HIDE DEF n
<1>3. \A i \in DOMAIN messages : i \in Nat /\ i < n
  BY <1>1
<1>4. job[c].tag \in 0..session
  BY DEF LogInv, TagsCurrent
<1>5. RowsHaveSessions'
  BY <1>1, <1>2, <1>4 DEF LogInv, RowsHaveSessions
<1>6. LastRequestHeld'
  <2> SUFFICES ASSUME NEW d \in Conns, job'[d].id # None
               PROVE  /\ job'[d].id \in 1..lastMessageId'
                      /\ \A i \in Inbound' : messages'[i].assoc = d => i <= job'[d].id
    BY DEF LastRequestHeld
  <2>1. CASE d = c
    <3>1. job'[d].id = n
      BY <2>1 DEF n
    <3> QED
      BY <1>1, <1>2, <1>3, <3>1 DEF Inbound
  <2>2. CASE d # c
    <3>1. job'[d] = job[d]
      BY <2>2
    <3>2. /\ job[d].id \in 1..lastMessageId
          /\ \A i \in Inbound : messages[i].assoc = d => i <= job[d].id
      BY <3>1 DEF LogInv, LastRequestHeld
    <3> QED
      BY <1>1, <1>2, <2>2, <3>1, <3>2 DEF Inbound
  <2> QED
    BY <2>1, <2>2
<1>7. TagsCurrent'
  <2> SUFFICES ASSUME NEW d \in Conns, pc'[d] \in Writing
               PROVE  /\ job'[d].tag \in 0..session
                      /\ \A i \in DOMAIN messages' :
                            messages'[i].assoc = d => messages'[i].session <= job'[d].tag
    BY <1>1 DEF TagsCurrent
  <2>1. d # c
    OBVIOUS
  <2>2. pc'[d] = pc[d] /\ job'[d] = job[d]
    BY <2>1
  <2> QED
    BY <1>2, <2>1, <2>2 DEF LogInv, TagsCurrent
<1>8. ReplyFollowsItsRequest'
  <2> SUFFICES ASSUME NEW o \in Outbound'
               PROVE  /\ messages'[o].cause < o
                      /\ \A i \in Inbound' : messages'[i].assoc = messages'[o].assoc =>
                            ~(messages'[o].cause < i /\ i < o)
    BY DEF ReplyFollowsItsRequest
  <2>1. CASE o = n
    <3>1. row.direction = "outbound"
      BY <1>2, <2>1 DEF Outbound
    <3>2. row.cause = job[c].id /\ job[c].id # None
      BY <3>1
    <3>3. /\ job[c].id \in 1..lastMessageId
          /\ \A i \in Inbound : messages[i].assoc = c => i <= job[c].id
      BY <3>2 DEF LogInv, LastRequestHeld
    <3>4. \A i \in Inbound' : i \in Inbound /\ messages'[i] = messages[i]
      BY <1>2, <3>1 DEF Inbound
    <3>5. \A i \in Inbound : i \in Nat
      BY <1>3 DEF Inbound
    <3> QED
      BY <1>1, <1>2, <2>1, <3>2, <3>3, <3>4, <3>5
  <2>2. CASE o # n
    <3>1. o \in Outbound /\ messages'[o] = messages[o] /\ o \in Nat /\ o < n
      BY <1>2, <1>3, <2>2 DEF Outbound
    <3>2. \A i \in Inbound' : i = n \/ (i \in Inbound /\ messages'[i] = messages[i])
      BY <1>2 DEF Inbound
    <3> QED
      BY <1>1, <3>1, <3>2 DEF LogInv, ReplyFollowsItsRequest
  <2> QED
    BY <2>1, <2>2
<1>9. SessionsOrderedPerAssociation'
  <2> SUFFICES ASSUME NEW i \in DOMAIN messages', NEW j \in DOMAIN messages', i < j,
                      messages'[i].assoc = messages'[j].assoc
               PROVE  messages'[i].session <= messages'[j].session
    BY DEF SessionsOrderedPerAssociation
  <2>1. i \in DOMAIN messages
    BY <1>1, <1>2, <1>3
  <2>2. CASE j = n
    BY <1>2, <2>1, <2>2 DEF LogInv, TagsCurrent
  <2>3. CASE j # n
    BY <1>2, <2>1, <2>3 DEF LogInv, SessionsOrderedPerAssociation
  <2> QED
    BY <2>2, <2>3
<1> QED
  BY <1>5, <1>6, <1>7, <1>8, <1>9 DEF LogInv

LEMMA InboundWritten ==
    ASSUME TypeOK, LogInv, NEW c \in Conns, SaveInbound(c)
    PROVE  LogInv'
<1> DEFINE locals == [job[c] EXCEPT !.id = NextMessageId]
           row == InboundRow(c)
<1>1. /\ pc[c] = "save" /\ SaveMessage(row) /\ Goto(c, "match", locals)
  BY DEF SaveInbound
<1>2. HandlersOK /\ job[c] \in Locals
  BY DEF TypeOK, HandlersOK
<1>3. row.assoc = c /\ row.session = job[c].tag /\ row.direction = "inbound"
  BY DEF InboundRow
<1>4. locals.id = NextMessageId
  BY <1>2 DEF Locals
<1>5. NoJob.id = None
  BY DEF NoJob
<1> HIDE DEF locals, row
<1>6. /\ \A d \in Conns \ {c} : pc'[d] = pc[d] /\ job'[d] = job[d]
      /\ pc'[c] \in {"down", "match"} /\ job'[c] \in {NoJob, locals}
  BY <1>1, <1>2 DEF Goto, HandlersOK
<1> QED
  BY <1>1, <1>3, <1>4, <1>5, <1>6, RowWritten DEF Writing

LEMMA ReplyWritten ==
    ASSUME TypeOK, LogInv, NEW c \in Conns, SaveReply(c)
    PROVE  LogInv'
<1> DEFINE row == OutboundRow(c)
<1>1. /\ pc[c] = "log" /\ SaveMessage(row) /\ Goto(c, "recv", NoJob)
  BY DEF SaveReply, Return
<1>2. HandlersOK /\ LocalsFit(pc[c], job[c])
  BY DEF TypeOK, HandlersOK
<1>3. /\ row.assoc = c /\ row.session = job[c].tag /\ row.direction = "outbound"
      /\ row.cause = job[c].id
  BY DEF OutboundRow
<1>4. job[c].id # None
  BY <1>1, <1>2 DEF LocalsFit, PCs, Jobs, StoreAwaits
<1>5. NoJob.id = None
  BY DEF NoJob
<1> HIDE DEF row
<1>6. /\ \A d \in Conns \ {c} : pc'[d] = pc[d] /\ job'[d] = job[d]
      /\ pc'[c] \in {"down", "recv"} /\ job'[c] = NoJob
  BY <1>1, <1>2 DEF Goto, HandlersOK
<1> QED
  BY <1>1, <1>3, <1>4, <1>5, <1>6, RowWritten DEF Writing

-----------------------------------------------------------------------------
(* All steps *)

\* A callback step that writes no row.
LEMMA CallbackIdles ==
    ASSUME TypeOK, NEW c \in Conns, CallbackStep(c), ~SaveInbound(c), ~SaveReply(c)
    PROVE  /\ \A d \in Conns : Idles(d)
           /\ UNCHANGED <<messages, lastMessageId, session>>
<1>0. job \in [Conns -> Locals] /\ pc \in [Conns -> PCs]
  BY DEF TypeOK, HandlersOK
<1>1. UNCHANGED <<messages, lastMessageId, session>>
  BY DEF CallbackStep, ReadSession, MatchNone, MatchRule, DelayEnds, IncrementRule, LookupPeer,
         SendReply, SendFails, ReadReplySession, StoreError, DropJob, IncrementFired, storeVars
<1>2. NoJob.id = None
  BY DEF NoJob
<1>3. ASSUME NEW next, NEW locals, Goto(c, next, locals), locals.id \in {None, job[c].id},
             next \in Writing => locals.tag = session
      PROVE  \A d \in Conns : Idles(d)
  <2> SUFFICES ASSUME NEW d \in Conns PROVE Idles(d)
    OBVIOUS
  <2>1. CASE d = c
    BY <1>0, <1>2, <1>3, <2>1 DEF Goto, Idles, Writing
  <2>2. CASE d # c
    BY <1>0, <1>3, <2>2 DEF Goto, Idles
  <2> QED
    BY <2>1, <2>2
<1>4. CASE ReadSession(c) \/ ReadReplySession(c)
  <2> DEFINE locals == [job[c] EXCEPT !.tag = session]
  <2>1. locals.id = job[c].id /\ locals.tag = session
    BY <1>0 DEF Locals
  <2>2. Goto(c, "save", locals) \/ Goto(c, "log", locals)
    BY <1>4 DEF ReadSession, ReadReplySession
  <2> HIDE DEF locals
  <2> QED
    BY <1>1, <1>3, <2>1, <2>2
<1>5. CASE MatchNone(c) \/ SendFails(c) \/ StoreError(c)
  <2>1. Goto(c, "recv", NoJob)
    BY <1>5 DEF MatchNone, SendFails, StoreError, Return
  <2> QED
    BY <1>1, <1>2, <1>3, <2>1 DEF Writing
<1>6. CASE MatchRule(c)
  <2>1. PICK r \in DOMAIN rules :
          Goto(c, IF rules[r].body.delay_ms > 0 THEN "delay" ELSE "fire",
               [job[c] EXCEPT !.rule = [id |-> r, body |-> rules[r].body]])
    BY <1>6 DEF MatchRule
  <2> DEFINE locals == [job[c] EXCEPT !.rule = [id |-> r, body |-> rules[r].body]]
             next == IF rules[r].body.delay_ms > 0 THEN "delay" ELSE "fire"
  <2>2. locals.id = job[c].id
    BY <1>0 DEF Locals
  <2>3. next \notin Writing
    BY DEF Writing
  <2>4. Goto(c, next, locals)
    BY <2>1
  <2> HIDE DEF locals, next
  <2> QED
    BY <1>1, <1>3, <2>2, <2>3, <2>4
<1>7. CASE DelayEnds(c) \/ SendReply(c) \/ IncrementRule(c)
  <2>1. \E next \in {"fire", "tag", "lookup"} : Goto(c, next, job[c]) \/ Goto(c, "recv", NoJob)
    BY <1>7 DEF DelayEnds, SendReply, IncrementRule, Return
  <2> QED
    BY <1>1, <1>2, <1>3, <2>1 DEF Writing
<1>8. CASE LookupPeer(c)
  <2> DEFINE conn == peers[PeerAddr[c]]
             locals == [job[c] EXCEPT !.to = IF conn \in open THEN conn ELSE None]
  <2>1. locals.id = job[c].id
    BY <1>0 DEF Locals
  <2>2. Goto(c, "tag", job[c]) \/ Goto(c, "send", locals)
    BY <1>8 DEF LookupPeer
  <2> HIDE DEF locals
  <2> QED
    BY <1>1, <1>3, <2>1, <2>2 DEF Writing
<1>9. CASE DropJob(c)
  <2>1. Goto(c, "down", NoJob)
    BY <1>9 DEF DropJob
  <2> QED
    BY <1>1, <1>2, <1>3, <2>1 DEF Writing
<1> QED
  BY <1>4, <1>5, <1>6, <1>7, <1>8, <1>9 DEF CallbackStep

\* The steps of associations: a handler stays where it is with its locals, except
\* for the socket it holds, or gives them up, or begins with a request.
LEMMA ConnStepIdles ==
    ASSUME TypeOK, NEW c \in Conns, NEW d \in Conns,
           \/ Receive(c) \/ Accept(c) \/ Connect(c) \/ PeerCloses(c)
           \/ EndOfStream(c) \/ StopHandler(c) \/ Disconnect(c)
    PROVE  Idles(d)
<1>0. pc \in [Conns -> PCs] /\ job \in [Conns -> Locals] /\ NoJob \in Locals /\ NoJob.id = None
  BY NoJobTypes DEF TypeOK, HandlersOK, NoJob
<1>1. ASSUME NEW jobs \in [Conns -> Locals], Shut(c, jobs)
      PROVE  job'[d].id = jobs[d].id /\ job'[d].tag = jobs[d].tag
  BY <1>1 DEF Shut, Locals
<1>2. ASSUME CloseAndCancel(c) PROVE Idles(d)
  <2> DEFINE jobs == [job EXCEPT ![c] = IF pc[c] \in Jobs THEN @ ELSE NoJob]
  <2>1. jobs \in [Conns -> Locals] /\ Shut(c, jobs)
    BY <1>0, <1>2 DEF CloseAndCancel
  <2>2. job'[d].id = jobs[d].id /\ job'[d].tag = jobs[d].tag
    BY <1>1, <2>1
  <2>3. pc' = [pc EXCEPT ![c] = IF pc[c] \in Jobs THEN @ ELSE "down"]
    BY <1>2 DEF CloseAndCancel
  <2>4. CASE d = c /\ pc[c] \notin Jobs
    BY <1>0, <2>2, <2>3, <2>4 DEF Idles, Writing
  <2>5. CASE d # c \/ pc[c] \in Jobs
    <3>1. jobs[d] = job[d] /\ pc'[d] = pc[d]
      BY <1>0, <2>3, <2>5
    <3> QED
      BY <2>2, <3>1 DEF Idles
  <2> QED
    BY <2>4, <2>5
<1>3. CASE Receive(c)
  <2>1. PICK r \in Requests : Goto(c, "session", [NoJob EXCEPT !.request = r])
    BY <1>3 DEF Receive
  <2>2. [NoJob EXCEPT !.request = r].id = None
    BY DEF NoJob
  <2> QED
    BY <1>0, <2>1, <2>2 DEF Goto, Idles, Writing
<1>4. CASE Accept(c) \/ Connect(c)
  BY <1>0, <1>4 DEF Accept, Connect, Idles, Writing
<1>5. CASE PeerCloses(c) \/ EndOfStream(c)
  BY <1>0, <1>1, <1>5 DEF PeerCloses, EndOfStream, Idles, Writing
<1>6. CASE StopHandler(c) \/ Disconnect(c)
  BY <1>2, <1>6 DEF StopHandler, Disconnect
<1> QED
  BY <1>3, <1>4, <1>5, <1>6

LEMMA LogNext == TypeOK /\ LogInv /\ [Next]_vars => LogInv'
<1> SUFFICES ASSUME TypeOK, LogInv, [Next]_vars PROVE LogInv'
  OBVIOUS
<1>1. ASSUME NEW c \in Conns, CallbackStep(c) PROVE LogInv'
  BY <1>1, InboundWritten, ReplyWritten, CallbackIdles, NothingWritten
<1>2. ASSUME NEW c \in Conns,
             \/ Receive(c) \/ Accept(c) \/ Connect(c) \/ PeerCloses(c)
             \/ EndOfStream(c) \/ StopHandler(c) \/ Disconnect(c)
      PROVE  LogInv'
  <2>1. UNCHANGED <<messages, lastMessageId, session>>
    BY <1>2
    DEF Receive, Accept, Connect, PeerCloses, EndOfStream, StopHandler, Disconnect, storeVars
  <2>2. \A d \in Conns : Idles(d)
    BY <1>2, ConnStepIdles
  <2> QED
    BY <2>1, <2>2, NothingWritten
<1>3. CASE StartServer \/ StopServer \/ Crash
  <2>1. UNCHANGED <<messages, lastMessageId, session>>
    BY <1>3 DEF StartServer, StopServer, Crash, ReopenDb, storeVars
  <2>2. \A d \in Conns : Idles(d)
    BY <1>3 DEF StartServer, StopServer, Crash, NoJob, Idles, Writing
  <2> QED
    BY <2>1, <2>2, NothingWritten
<1>4. CASE \/ \E body \in Bodies : CreateRule(body)
           \/ \E id \in DOMAIN rules : RemoveRule(id)
           \/ RemoveAllRules \/ RemoveAllMessages \/ Reset
  <2>1. UNCHANGED lastMessageId /\ session' \in {session, session + 1} /\ UNCHANGED pipelineVars
    BY <1>4
    DEF CreateRule, RemoveRule, RemoveAllRules, RemoveAllMessages, Reset, SaveRule, DeleteRule,
        DeleteAllRules, DeleteAllMessages, ResetSession
  <2>2. messages' = messages \/ messages' = NoRows
    BY <1>4
    DEF CreateRule, RemoveRule, RemoveAllRules, RemoveAllMessages, Reset, SaveRule, DeleteRule,
        DeleteAllRules, DeleteAllMessages, ResetSession
  <2>3. /\ DOMAIN messages' \subseteq DOMAIN messages
        /\ \A i \in DOMAIN messages' : messages'[i] = messages[i]
    BY <2>2 DEF NoRows
  <2>4. \A d \in Conns : Idles(d)
    BY <2>1 DEF pipelineVars, Idles
  <2> QED
    BY <2>1, <2>3, <2>4, NothingWritten
<1>5. CASE UNCHANGED vars
  <2>1. UNCHANGED <<messages, lastMessageId, session, pc, job>>
    BY <1>5 DEF vars, storeVars, pipelineVars
  <2>2. \A d \in Conns : Idles(d)
    BY <2>1 DEF Idles
  <2> QED
    BY <2>1, <2>2, NothingWritten
<1> QED
  BY <1>1, <1>2, <1>3, <1>4, <1>5 DEF Next

LEMMA LogInit == Init => LogInv
BY DEF Init, InitDb, NoRows, NoJob, LogInv, RowsHaveSessions, LastRequestHeld, TagsCurrent, Writing,
       ReplyFollowsItsRequest, SessionsOrderedPerAssociation, Inbound, Outbound

LEMMA LogInvariant == Spec => []LogInv
BY LogInit, LogNext, TypeCorrect, PTL DEF Spec

\* The row of a reply comes after that of its request, with no other request of the
\* association between them, for every number of handlers, cancellations and crashes.
THEOREM RepliesFollow == Spec => []ReplyFollowsItsRequest
BY LogInvariant, PTL DEF LogInv

\* The rows of an association never go back to an earlier session, although the
\* session is read in one thread job and saved in another.
THEOREM SessionsOrdered == Spec => []SessionsOrderedPerAssociation
BY LogInvariant, PTL DEF LogInv
=============================================================================

---------------------------- MODULE RulePipeline ----------------------------
(***************************************************************************)
(* What sctp-probe does with a received message: main._on_message, then    *)
(* RuleEngine.evaluate and _execute, run by the handler task of each       *)
(* association (SctpServer._handle_conn, SctpClient._read_loop) on one     *)
(* event loop, over the store of module Store.                             *)
(*                                                                         *)
(* A handler is a coroutine: it gives the loop away at every await, and    *)
(* what it awaits is a store method or a socket send in a worker thread.   *)
(* pc[c] names the await at which the handler of slot c stands, a step     *)
(* performs the awaited work and runs the code up to the next await.  The  *)
(* exception is the reading of the peers table, which happens on the loop  *)
(* after the awaited increment has returned: it has a step of its own.     *)
(*                                                                         *)
(* A slot stands for an association and its handler, and is used again     *)
(* when the handler and its last thread job are over: Cardinality(Conns)   *)
(* is the number of handlers that can be at work at the same time.         *)
(***************************************************************************)
EXTENDS Store

CONSTANTS
    ServerConns,     \* slots of associations accepted by the listener
    ClientConns,     \* slots of associations opened by api/client/connect
    Addrs,           \* peer addresses "ip:port"
    PeerAddr,        \* Conns -> Addrs; two slots may have the same address
    Requests,        \* received messages: [pdu_type, message_identifier, serial_number]
    Bodies,          \* bodies of POST /api/rules
    ReplyTemplates,  \* reply_template values for which encode gives bytes
    None,
    MaxRequests,     \* bound: messages received in a behaviour
    MaxRules,        \* bound: rules created in a behaviour
    MaxResets        \* bound: session resets in a behaviour

Conns == ServerConns \cup ClientConns

ASSUME ConnsAssumption ==
    /\ IsFiniteSet(Conns)
    /\ ServerConns \cap ClientConns = {}
    /\ PeerAddr \in [Conns -> Addrs]
ASSUME NoneAssumption ==
    None \notin Conns \cup Requests \cup Nat \cup [id : Nat, body : Bodies]
ASSUME BodiesAssumption == \A b \in Bodies : b.count \in Int /\ b.delay_ms \in Int
ASSUME BoundsAssumption == MaxRequests \in Nat /\ MaxRules \in Nat /\ MaxResets \in Nat

VARIABLES
    listening,  \* SctpServer._listeners holds the port
    peers,      \* entry["peers"] of that listener: address -> conn
    open,       \* slots whose association is up
    pc,         \* the await at which each handler stands
    job,        \* the locals of each handler's callback
    stopping,   \* slots a stop() has collected and not yet cancelled
    cancelled,  \* cancelled tasks whose last thread job may still run
    wire,       \* history: replies handed to a socket
    received    \* counts Receive, for MaxRequests

pipelineVars == <<listening, peers, open, pc, job, stopping, cancelled, wire, received>>
vars == <<storeVars, pipelineVars>>

\* The awaits whose work is a store method, and all those with a thread job.
StoreAwaits == {"session", "save", "match", "fire", "tag", "log"}
Jobs == StoreAwaits \cup {"send"}
PCs == Jobs \cup {"down", "recv", "delay", "lookup"}

\* The locals: request the received bytes, tag the session id last read, id the
\* row the request was saved under, rule the rule chosen by evaluate, to the
\* socket send_to_peer found.
NoJob == [request |-> None, tag |-> None, id |-> None, rule |-> None, to |-> None]

NoPeers == [a \in Addrs |-> None]

Init ==
    /\ InitDb
    /\ listening = FALSE
    /\ peers = NoPeers
    /\ open = {}
    /\ pc = [c \in Conns |-> "down"]
    /\ job = [c \in Conns |-> NoJob]
    /\ stopping = {}
    /\ cancelled = {}
    /\ wire = {}
    /\ received = 0

-----------------------------------------------------------------------------
(* Handlers *)

\* Mutant: the cancellation is swallowed and the handler goes on.
Goto_CancelSwallowed(c, next, locals) ==
    /\ pc' = [pc EXCEPT ![c] = next]
    /\ job' = [job EXCEPT ![c] = locals]
    /\ UNCHANGED cancelled

\* The thread job of handler c is over and the handler stands at its next await;
\* if the task was cancelled meanwhile, nothing follows the job.
Goto(c, next, locals) ==
    /\ pc' = [pc EXCEPT ![c] = IF c \in cancelled THEN "down" ELSE next]
    /\ job' = [job EXCEPT ![c] = IF c \in cancelled THEN NoJob ELSE locals]
    /\ cancelled' = cancelled \ {c}

\* The callback is over, the receive loop calls recv again.
Return(c) == Goto(c, "recv", NoJob)

\* A callback step changes neither the associations nor the listener.
KeepConns == UNCHANGED <<listening, peers, open, stopping, received>>

\* recv gives a message and the loop awaits the callback before the next recv.
Receive(c) ==
    /\ pc[c] = "recv"
    /\ c \in open
    /\ received < MaxRequests
    /\ received' = received + 1
    /\ \E r \in Requests : Goto(c, "session", [NoJob EXCEPT !.request = r])
    /\ UNCHANGED <<storeVars, listening, peers, open, stopping, wire>>

\* Mutant: the session id is the one read when the process started.
ReadSession_AtStartup(c) ==
    /\ pc[c] = "session"
    /\ Goto(c, "save", [job[c] EXCEPT !.tag = 0])
    /\ UNCHANGED <<storeVars, wire>> /\ KeepConns

\* session_id = await get_current_session_id(), then decode.
ReadSession(c) ==
    /\ pc[c] = "session"
    /\ Goto(c, "save", [job[c] EXCEPT !.tag = session])
    /\ UNCHANGED <<storeVars, wire>> /\ KeepConns

\* The rows saved for a request and for a reply.  assoc and cause are history:
\* the association handled, and the row of the request a reply answers.
InboundRow(c) ==
    [direction |-> "inbound", session |-> job[c].tag, peer |-> PeerAddr[c],
     content |-> job[c].request, rule |-> None, assoc |-> c, cause |-> None]

OutboundRow(c) ==
    [direction |-> "outbound", session |-> job[c].tag, peer |-> PeerAddr[c],
     content |-> job[c].rule.body.reply_template, rule |-> job[c].rule.id,
     assoc |-> c, cause |-> job[c].id]

\* Mutant: the row read back is the last one before the INSERT.
SaveInbound_ReadsPrevious(c) ==
    /\ pc[c] = "save"
    /\ SaveMessage(InboundRow(c))
    /\ Goto(c, "match", [job[c] EXCEPT !.id = lastMessageId])
    /\ UNCHANGED wire /\ KeepConns

\* saved = await save_message(...), then the broadcast to the web clients.
SaveInbound(c) ==
    /\ pc[c] = "save"
    /\ SaveMessage(InboundRow(c))
    /\ Goto(c, "match", [job[c] EXCEPT !.id = NextMessageId])
    /\ UNCHANGED wire /\ KeepConns

\* Mutant: a rule may fire once more than its count.
CountLeft_OneMore(rule) == rule.body.count = 0 \/ rule.fired <= rule.body.count

\* count = 0 is no limit; a rule that has fired count times no longer matches.
CountLeft(rule) == rule.body.count = 0 \/ rule.fired < rule.body.count

Matches(rule, request, addr) ==
    /\ rule.body.match_pdu_type \in {"*", request.pdu_type}
    /\ rule.body.match_message_identifier \in {None, request.message_identifier}
    /\ rule.body.match_serial_number \in {None, request.serial_number}
    /\ rule.body.match_peer_addr \in {None, addr}
    /\ CountLeft(rule)

\* The rules of the snapshot that match, and the first of them in id order.
Matching(c) == {r \in DOMAIN rules : Matches(rules[r], job[c].request, PeerAddr[c])}
IsFirst(r, ids) == r \in ids /\ \A q \in ids : r <= q

\* evaluate: rules = await get_rules(), then the first match decides.
MatchNone(c) ==
    /\ pc[c] = "match"
    /\ Matching(c) = {}
    /\ Return(c)
    /\ UNCHANGED <<storeVars, wire>> /\ KeepConns

MatchRule(c) ==
    /\ pc[c] = "match"
    /\ \E r \in DOMAIN rules :
          /\ IsFirst(r, Matching(c))
          /\ Goto(c, IF rules[r].body.delay_ms > 0 THEN "delay" ELSE "fire",
                  [job[c] EXCEPT !.rule = [id |-> r, body |-> rules[r].body]])
    /\ UNCHANGED <<storeVars, wire>> /\ KeepConns

\* asyncio.sleep(delay_ms) is over.
DelayEnds(c) ==
    /\ pc[c] = "delay"
    /\ Goto(c, "fire", job[c])
    /\ UNCHANGED <<storeVars, wire>> /\ KeepConns

\* An auto_reply with a template that encodes to bytes; drop, log_only, a missing
\* template and WRR_TIMEOUT return after the increment.
Replies(body) == body.action = "auto_reply" /\ body.reply_template \in ReplyTemplates

IncrementRule(c) ==
    /\ pc[c] = "fire"
    /\ IncrementFired(job[c].rule.id)
    /\ IF Replies(job[c].rule.body) THEN Goto(c, "lookup", job[c]) ELSE Return(c)
    /\ UNCHANGED wire /\ KeepConns

\* send_to_peer(peer_addr): the conn that the peers table has now.  No entry is a
\* warning and a normal return, after which the reply is logged all the same.
LookupPeer(c) ==
    LET conn == peers[PeerAddr[c]]
    IN  /\ pc[c] = "lookup"
        /\ IF conn = None
           THEN Goto(c, "tag", job[c])
           ELSE Goto(c, "send", [job[c] EXCEPT !.to = IF conn \in open THEN conn ELSE None])
        /\ UNCHANGED <<storeVars, wire>> /\ KeepConns

\* conn.send(raw) in a thread: on an association that is still up ...
SendReply(c) ==
    /\ pc[c] = "send"
    /\ job[c].to # None
    /\ wire' = wire \cup {[rule |-> job[c].rule.id, cause |-> job[c].id, conn |-> job[c].to]}
    /\ Goto(c, "tag", job[c])
    /\ UNCHANGED storeVars /\ KeepConns

\* Mutant: a send on a closed association waits for ever.
SendFails_Hangs(c) ==
    /\ pc[c] = "send"
    /\ job[c].to # None
    /\ Return(c)
    /\ UNCHANGED <<storeVars, wire>> /\ KeepConns

\* ... or it raises: _execute returns and logs nothing.
SendFails(c) ==
    /\ pc[c] = "send"
    /\ Return(c)
    /\ UNCHANGED <<storeVars, wire>> /\ KeepConns

ReadReplySession(c) ==
    /\ pc[c] = "tag"
    /\ Goto(c, "log", [job[c] EXCEPT !.tag = session])
    /\ UNCHANGED <<storeVars, wire>> /\ KeepConns

\* saved = await save_message(out_msg), then the two broadcasts.
SaveReply(c) ==
    /\ pc[c] = "log"
    /\ SaveMessage(OutboundRow(c))
    /\ Return(c)
    /\ UNCHANGED wire /\ KeepConns

\* Mutant: an error of increment_fired is caught and the reply goes out uncounted.
StoreError_ReplyAnyway(c) ==
    /\ pc[c] \in StoreAwaits
    /\ IF pc[c] = "fire" THEN Goto(c, "lookup", job[c]) ELSE Return(c)
    /\ UNCHANGED <<storeVars, wire>> /\ KeepConns

\* A store method raises (database locked, disk full): nothing is committed and
\* _call_cb swallows the exception.
StoreError(c) ==
    /\ pc[c] \in StoreAwaits
    /\ Return(c)
    /\ UNCHANGED <<storeVars, wire>> /\ KeepConns

\* The thread job of a cancelled task had not started and is dropped with it.
DropJob(c) ==
    /\ c \in cancelled
    /\ Goto(c, "down", NoJob)
    /\ UNCHANGED <<storeVars, wire>> /\ KeepConns

CallbackStep(c) ==
    \/ ReadSession(c) \/ SaveInbound(c) \/ MatchNone(c) \/ MatchRule(c) \/ DelayEnds(c)
    \/ IncrementRule(c) \/ LookupPeer(c) \/ SendReply(c) \/ SendFails(c)
    \/ ReadReplySession(c) \/ SaveReply(c) \/ StoreError(c) \/ DropJob(c)

-----------------------------------------------------------------------------
(* Associations *)

\* Mutant: the handler leaves its entry behind.
Unregister_Forgotten(c) == peers' = peers

\* finally of _handle_conn: the address is removed from the table of whatever
\* listener the port has now, whoever registered it.
Unregister(c) ==
    peers' = IF c \in ServerConns THEN [peers EXCEPT ![PeerAddr[c]] = None] ELSE peers

\* The association of c is gone: a send that holds its socket will raise.
Shut(c, jobs) ==
    /\ open' = open \ {c}
    /\ job' = [d \in Conns |-> IF jobs[d].to = c THEN [jobs[d] EXCEPT !.to = None] ELSE jobs[d]]

\* accept returned: register the conn under its address and start its handler.
\* The kernel has one association for an address at a time; the handler of an
\* earlier one may still be running.
Accept(c) ==
    /\ listening
    /\ c \in ServerConns
    /\ pc[c] = "down" /\ c \notin stopping
    /\ \A d \in open \cap ServerConns : PeerAddr[d] # PeerAddr[c]
    /\ pc' = [pc EXCEPT ![c] = "recv"]
    /\ open' = open \cup {c}
    /\ peers' = [peers EXCEPT ![PeerAddr[c]] = c]
    /\ UNCHANGED <<storeVars, listening, job, stopping, cancelled, wire, received>>

\* SctpClient.connect: the connection and its read loop.
Connect(c) ==
    /\ c \in ClientConns
    /\ pc[c] = "down"
    /\ pc' = [pc EXCEPT ![c] = "recv"]
    /\ open' = open \cup {c}
    /\ UNCHANGED <<storeVars, listening, peers, job, stopping, cancelled, wire, received>>

\* The remote end closes, aborts or is lost.
PeerCloses(c) ==
    /\ c \in open
    /\ Shut(c, job)
    /\ UNCHANGED <<storeVars, listening, peers, pc, stopping, cancelled, wire, received>>

\* recv gives an empty read or raises, the association up or not: the handler leaves
\* its loop and closes the conn.  (A client's conn stays open; nothing here uses it.)
EndOfStream(c) ==
    /\ pc[c] = "recv"
    /\ pc' = [pc EXCEPT ![c] = "down"]
    /\ Unregister(c)
    /\ Shut(c, job)
    /\ UNCHANGED <<storeVars, listening, stopping, cancelled, wire, received>>

\* Socket closed and task cancelled.  A task that waits for a thread job ends
\* at once, the job may still be executed.
CloseAndCancel(c) ==
    LET running == pc[c] \in Jobs
    IN  /\ pc' = [pc EXCEPT ![c] = IF running THEN @ ELSE "down"]
        /\ cancelled' = IF running THEN cancelled \cup {c} ELSE cancelled
        /\ Shut(c, [job EXCEPT ![c] = IF running THEN @ ELSE NoJob])

StartServer ==
    /\ ~listening
    /\ listening' = TRUE
    /\ UNCHANGED <<storeVars, peers, open, pc, job, stopping, cancelled, wire, received>>

\* stop(port): the entry leaves _listeners before anything is closed; the conns
\* it holds are the ones that will be closed and cancelled.
StopServer ==
    /\ listening
    /\ listening' = FALSE
    /\ peers' = NoPeers
    /\ stopping' = stopping \cup {c \in ServerConns : peers[PeerAddr[c]] = c}
    /\ UNCHANGED <<storeVars, open, pc, job, cancelled, wire, received>>

StopHandler(c) ==
    /\ c \in stopping
    /\ stopping' = stopping \ {c}
    /\ CloseAndCancel(c)
    /\ IF pc[c] = "down" THEN UNCHANGED peers ELSE Unregister(c)
    /\ UNCHANGED <<storeVars, listening, wire, received>>

\* SctpClient.disconnect
Disconnect(c) ==
    /\ c \in ClientConns \ cancelled
    /\ pc[c] # "down"
    /\ CloseAndCancel(c)
    /\ UNCHANGED <<storeVars, listening, peers, stopping, wire, received>>

\* The process dies and is started again on the same database.
Crash ==
    /\ ReopenDb
    /\ listening' = FALSE
    /\ peers' = NoPeers
    /\ open' = {}
    /\ pc' = [c \in Conns |-> "down"]
    /\ job' = [c \in Conns |-> NoJob]
    /\ stopping' = {}
    /\ cancelled' = {}
    /\ UNCHANGED <<wire, received>>

-----------------------------------------------------------------------------
(* REST requests on the store *)

CreateRule(body) ==
    /\ lastRuleId < MaxRules
    /\ SaveRule(body)
    /\ UNCHANGED pipelineVars

RemoveRule(id) == DeleteRule(id) /\ UNCHANGED pipelineVars

RemoveAllRules == DeleteAllRules /\ UNCHANGED pipelineVars

RemoveAllMessages == DeleteAllMessages /\ UNCHANGED pipelineVars

Reset ==
    /\ session < MaxResets
    /\ ResetSession
    /\ UNCHANGED pipelineVars

-----------------------------------------------------------------------------
Next ==
    \/ \E c \in Conns :
          \/ Receive(c) \/ CallbackStep(c)
          \/ Accept(c) \/ Connect(c) \/ PeerCloses(c) \/ EndOfStream(c)
          \/ StopHandler(c) \/ Disconnect(c)
    \/ StartServer \/ StopServer \/ Crash
    \/ \E body \in Bodies : CreateRule(body)
    \/ \E id \in DOMAIN rules : RemoveRule(id)
    \/ RemoveAllRules \/ RemoveAllMessages \/ Reset

Spec == Init /\ [][Next]_vars

\* The event loop resumes every handler whose await is over, worker threads run
\* the jobs given to them, and sleeps end.  Nothing is assumed of the peers, of the
\* users of the API, or of stop().
Fairness == \A c \in Conns : WF_vars(CallbackStep(c))

FairSpec == Spec /\ Fairness

-----------------------------------------------------------------------------
(* Properties *)

RuleRefs == [id : 1..lastRuleId, body : Bodies]

Locals ==
    [request : Requests \cup {None}, tag : (0..MaxResets) \cup {None},
     id : Nat \cup {None}, rule : RuleRefs \cup {None}, to : Conns \cup {None}]

\* A handler that stands at an await has exactly the locals it has reached by then.
LocalsFit(await, locals) ==
    /\ (locals.request # None) <=> (await \notin {"down", "recv"})
    /\ (locals.id # None) <=> (await \in PCs \ {"down", "recv", "session", "save"})
    /\ (locals.rule # None) <=> (await \in {"delay", "fire", "lookup", "send", "tag", "log"})

TablesOK ==
    /\ lastMessageId \in Nat
    /\ DOMAIN messages \subseteq 1..lastMessageId
    /\ lastRuleId \in 0..MaxRules
    /\ DOMAIN rules \subseteq 1..lastRuleId
    /\ \A r \in DOMAIN rules : rules[r] \in [body : Bodies, fired : Nat]
    /\ session \in 0..MaxResets

AssociationsOK ==
    /\ listening \in BOOLEAN
    /\ peers \in [Addrs -> ServerConns \cup {None}]
    /\ open \subseteq Conns
    /\ stopping \subseteq ServerConns

HandlersOK ==
    /\ pc \in [Conns -> PCs]
    /\ job \in [Conns -> Locals]
    /\ \A c \in Conns : LocalsFit(pc[c], job[c])
    /\ cancelled \subseteq {c \in Conns : pc[c] \in Jobs}

HistoryOK ==
    /\ wire \subseteq [rule : 1..lastRuleId, cause : Nat, conn : Conns]
    /\ received \in 0..MaxRequests

\* Types of the tables and of the handlers' state; the ids of stored and of held
\* rules have been given out, a handler has the locals its position needs, and only
\* a task that awaits a thread job can be cancelled and not be over.
TypeOK == TablesOK /\ AssociationsOK /\ HandlersOK /\ HistoryOK

\* Handlers that hold rule r chosen and not yet charged, and those charged and not
\* yet through with sending.
Choosers(r) == {c \in Conns : pc[c] \in {"delay", "fire"} /\ job[c].rule.id = r}
Repliers(r) == {c \in Conns : pc[c] \in {"lookup", "send"} /\ job[c].rule.id = r}

Sends(r) == {w \in wire : w.rule = r}

\* A rule with a count is tested in evaluate and charged later in _execute, with
\* awaits (and delay_ms) in between.  However the handlers interleave, are
\* cancelled or crash, it fires less than Cardinality(Conns) times too often: each
\* handler can hold at most one choice made while the rule was not exhausted.
FiredOvershootBounded ==
    \A r \in DOMAIN rules : rules[r].body.count > 0 =>
        rules[r].fired + Cardinality(Choosers(r)) < rules[r].body.count + Cardinality(Conns)

\* fired is committed before the reply leaves: the fired column of a rule is never
\* less than the replies it has put on the wire or is about to, also when the
\* process dies between the two and is started again.
RepliesWithinFired ==
    \A r \in DOMAIN rules : Cardinality(Sends(r)) + Cardinality(Repliers(r)) <= rules[r].fired

\* A rule is used after the awaits that followed its reading.  Ids are not given
\* out twice, so what the handler charges and logs under that id is the rule it
\* matched or a deleted one, never a rule created since.
HeldRuleIsCurrent ==
    \A c \in Conns : job[c].rule # None /\ job[c].rule.id \in DOMAIN rules =>
        rules[job[c].rule.id].body = job[c].rule.body

Inbound == {i \in DOMAIN messages : messages[i].direction = "inbound"}
Outbound == {i \in DOMAIN messages : messages[i].direction = "outbound"}

\* A reply's row comes after the row of the request it answers, and no other
\* request of the same association lies between the two: the handler awaits the
\* callback before it receives again, across cancellation and late thread jobs.
ReplyFollowsItsRequest ==
    \A o \in Outbound :
        /\ messages[o].cause < o
        /\ \A i \in Inbound : messages[i].assoc = messages[o].assoc =>
              ~(messages[o].cause < i /\ i < o)

\* The session id is read in one thread job and saved in another, so a reset in
\* between files a row under the old session.  The rows of one association still
\* never go back to an earlier session.
SessionsOrderedPerAssociation ==
    \A i, j \in DOMAIN messages :
        i < j /\ messages[i].assoc = messages[j].assoc => messages[i].session <= messages[j].session

\* Every conn in the peers table is read by a handler that is still running: the
\* table never outlives a handler, whatever order accept, the finally blocks,
\* stop and start come in.
RegisteredPeersAreServed ==
    \A a \in Addrs : peers[a] # None =>
        PeerAddr[peers[a]] = a /\ pc[peers[a]] # "down" /\ peers[a] \notin cancelled

\* Whatever store methods and sends do, every callback comes to its end: the
\* handler receives again or is over.
HandlerReturns == \A c \in Conns : pc[c] \notin {"recv", "down"} ~> pc[c] \in {"recv", "down"}

-----------------------------------------------------------------------------
(* Claims of the documentation that the code does not keep *)

\* DESIGN.md: count is the maximal number of replies (0 = unlimited).
CountLimit ==
    \A r \in DOMAIN rules : rules[r].body.count > 0 =>
        Cardinality(Sends(r)) <= rules[r].body.count

\* rules.py "Log the outbound reply": a logged auto-reply is one that was sent.
LoggedReplyWasSent == \A o \in Outbound : \E w \in wire : w.cause = messages[o].cause
=============================================================================

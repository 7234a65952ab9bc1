-------------------------- MODULE MessageLogProofs --------------------------
(***************************************************************************)
(* Theorems about MessageLog for every number of clients and writers and   *)
(* every limit, including negative ones: a client that follows since_id    *)
(* gets a lossless feed.                                                   *)
(***************************************************************************)
EXTENDS MessageLog, FiniteSetTheorems, WellFoundedInduction, TLAPS

\* What a page under way to client c is worth: it holds every row the client asks
\* for up to its last one, so advancing since_id to that row skips nothing; and
\* nothing up to since_id is outstanding.
PageComplete(c) ==
    \A i \in Wanted(c), j \in OnTheWay(c) : since[c] < i /\ i < j => i \in OnTheWay(c)

\* The inductive invariant.
LogInv ==
    /\ TypeOK
    /\ PollNeverSkips
    /\ \A c \in Clients : PageComplete(c)

-----------------------------------------------------------------------------
(* The page *)

\* Every nonempty set of row ids has a last one: the least bound of the set is in it.
LEMMA LastExists ==
    ASSUME NEW n \in Nat, NEW S, S \subseteq 1..n, S # {}
    PROVE  \E i \in S : \A j \in S : j <= i
<1> DEFINE bounds == {m \in Nat : \A j \in S : j <= m}
<1>1. n \in bounds
  OBVIOUS
<1>2. PICK m \in bounds : \A k \in bounds : ~(k < m)
  <2>1. \E m \in bounds : \A k \in bounds : ~(<<k, m>> \in OpToRel(<, Nat))
    BY <1>1, NatLessThanWellFounded, WFMin
  <2> QED
    BY <2>1 DEF OpToRel
<1>3. m \in S
  <2> SUFFICES ASSUME m \notin S PROVE FALSE
    OBVIOUS
  <2>1. PICK j \in S : TRUE
    OBVIOUS
  <2>2. m - 1 \in bounds
    BY <2>1
  <2> QED
    BY <1>2, <2>2
<1> QED
  BY <1>2, <1>3

\* get_messages gives a part of the rows asked for that is closed downwards.
LEMMA PageIsPrefix ==
    ASSUME NEW n \in Nat, DOMAIN messages \subseteq 1..n,
           NEW after, NEW direction, NEW limit \in Int,
           NEW i \in Newer(after, direction), NEW j \in GetMessages(after, direction, limit),
           i < j
    PROVE  i \in GetMessages(after, direction, limit)
<1> DEFINE hits == Newer(after, direction)
           below(x) == {y \in hits : y < x}
<1>1. hits \subseteq 1..n /\ i \in Int /\ j \in Int /\ j \in hits
  BY DEF Newer, GetMessages
<1>2. below(i) \subseteq below(j) /\ below(j) \subseteq 1..n
  BY <1>1
<1>3. IsFiniteSet(below(j))
  BY <1>2, FS_Interval, FS_Subset
<1>4. Cardinality(below(i)) \in Nat /\ Cardinality(below(j)) \in Nat
      /\ Cardinality(below(i)) <= Cardinality(below(j))
  BY <1>2, <1>3, FS_Subset, FS_CardinalityType
<1>5. PageSize(limit) \in Int
  BY MaxLimitAssumption DEF PageSize
<1>6. Cardinality(below(j)) < PageSize(limit)
  BY DEF GetMessages
<1> QED
  BY <1>1, <1>4, <1>5, <1>6 DEF GetMessages

\* A page has rows of the table that are asked for and newer than since_id.
LEMMA PageWanted ==
    ASSUME NEW after, NEW direction, NEW limit
    PROVE  GetMessages(after, direction, limit) \subseteq Newer(after, direction)
BY DEF GetMessages

\* since_id moves to the last row of the page, or stays when the page is empty.
LEMMA AdvanceToLast ==
    ASSUME TypeOK, NEW c \in Clients, page[c] # None
    PROVE  /\ page[c] = {} => AdvanceTo(c) = since[c]
           /\ page[c] # {} => AdvanceTo(c) \in page[c] /\ \A j \in page[c] : j <= AdvanceTo(c)
<1>1. CASE page[c] = {}
  BY <1>1 DEF AdvanceTo
<1>2. CASE page[c] # {}
  <2>1. lastMessageId \in Nat /\ page[c] \subseteq 1..lastMessageId
    BY LogBoundsAssumption DEF TypeOK, OnTheWay
  <2>2. \E i \in page[c] : \A j \in page[c] : j <= i
    BY <1>2, <2>1, LastExists
  <2> QED
    BY <1>2, <2>2 DEF AdvanceTo
<1> QED
  BY <1>1, <1>2

-----------------------------------------------------------------------------
(* The invariant *)

LEMMA InitInv == Init => LogInv
<1> SUFFICES ASSUME Init PROVE LogInv
  OBVIOUS
<1>1. DOMAIN messages = {} /\ messages = [i \in {} |-> 0] /\ lastMessageId = 0 /\ session = 0
  BY DEF Init, InitDb, NoRows
<1>2. \A c \in Clients : OnTheWay(c) = {}
  BY DEF Init, OnTheWay
<1>3. messages \in [DOMAIN messages -> Rows]
  BY <1>1
<1>4. TypeOK
  BY <1>1, <1>2, <1>3, LogBoundsAssumption DEF Init, TypeOK
<1> QED
  BY <1>1, <1>2, <1>4 DEF LogInv, PollNeverSkips, PageComplete

\* Saving a row adds one id above all others.
LEMMA SaveKeepsInv ==
    ASSUME LogInv, NEW w \in Writers, Save(w)
    PROVE  LogInv'
<1>1. PICK d \in Directions : SaveMessage([direction |-> d, session |-> tag[w]])
  BY DEF Save
<1> DEFINE n == lastMessageId + 1
           row == [direction |-> d, session |-> tag[w]]
<1>2. /\ lastMessageId \in Nat /\ lastMessageId' = n /\ n \in 0..MaxMessages
      /\ DOMAIN messages \subseteq 1..lastMessageId
      /\ DOMAIN messages' = DOMAIN messages \cup {n}
      /\ \A i \in DOMAIN messages : messages'[i] = messages[i]
      /\ messages'[n] = row /\ row \in Rows
      /\ messages' = [i \in DOMAIN messages' |-> messages'[i]]
  BY <1>1, LogBoundsAssumption DEF Save, SaveMessage, NextMessageId, InsertRow, LogInv, TypeOK, Rows
<1>3. UNCHANGED <<session, clientVars>> /\ tag' = [tag EXCEPT ![w] = None]
  BY <1>1 DEF Save, SaveMessage
<1>4. 1..lastMessageId \subseteq 1..lastMessageId' /\ 0..lastMessageId \subseteq 0..lastMessageId'
  BY <1>2
<1>5. TypeOK'
  <2>1. messages' \in [DOMAIN messages' -> Rows]
    BY <1>2 DEF LogInv, TypeOK
  <2>2. /\ tag' \in [Writers -> (0..MaxResets) \cup {None}]
        /\ since' \in [Clients -> 0..lastMessageId']
        /\ page' \in [Clients -> (SUBSET (1..lastMessageId')) \cup {None}]
        /\ seen' \in [Clients -> SUBSET (1..lastMessageId')]
    BY <1>3, <1>4 DEF LogInv, TypeOK, clientVars
  <2>3. ASSUME NEW c \in Clients PROVE OnTheWay(c)' \subseteq since'[c] + 1..lastMessageId'
    BY <1>2, <1>3 DEF LogInv, TypeOK, OnTheWay, clientVars
  <2> QED
    BY <1>2, <1>3, <2>1, <2>2, <2>3 DEF LogInv, TypeOK, clientVars
<1>6. ASSUME NEW c \in Clients, NEW i \in Wanted(c)' PROVE i = n \/ i \in Wanted(c)
  BY <1>2 DEF Wanted, Newer
<1>7. \A c \in Clients : since[c] \in Nat /\ since[c] < n /\ \A j \in OnTheWay(c) : j < n
  BY <1>2 DEF LogInv, TypeOK
<1>8. PollNeverSkips'
  BY <1>2, <1>3, <1>6, <1>7 DEF LogInv, PollNeverSkips, clientVars, Wanted, Newer
<1>9. ASSUME NEW c \in Clients PROVE PageComplete(c)'
  <2>1. OnTheWay(c)' = OnTheWay(c) /\ since' = since
    BY <1>3 DEF OnTheWay, clientVars
  <2>2. \A j \in OnTheWay(c) : j \in Int /\ ~(n < j)
    BY <1>2 DEF LogInv, TypeOK
  <2> QED
    BY <1>6, <2>1, <2>2 DEF LogInv, PageComplete
<1> QED
  BY <1>5, <1>8, <1>9 DEF LogInv

LEMMA DeleteKeepsInv == ASSUME LogInv, DeleteLog PROVE LogInv'
BY DEF DeleteLog, DeleteAllMessages, NoRows, clientVars, LogInv, TypeOK, Rows, PollNeverSkips,
       PageComplete, OnTheWay, Wanted, Newer

\* Steps that concern neither the rows nor the clients.
LEMMA TagsKeepInv ==
    ASSUME LogInv, Reset \/ (\E w \in Writers : ReadTag(w)) \/ UNCHANGED logVars
    PROVE  LogInv'
<1>1. /\ UNCHANGED <<messages, lastMessageId, clientVars>>
      /\ session' \in 0..MaxResets
      /\ tag' \in [Writers -> (0..MaxResets) \cup {None}]
  BY LogBoundsAssumption
  DEF Reset, ResetSession, ReadTag, logVars, storeVars, LogInv, TypeOK
<1> QED
  BY <1>1
  DEF clientVars, LogInv, TypeOK, Rows, PollNeverSkips, PageComplete, OnTheWay, Wanted, Newer

LEMMA PollKeepsInv == ASSUME LogInv, NEW c \in Clients, Poll(c) PROVE LogInv'
<1> DEFINE ids == GetMessages(since[c], Direction[c], Limit[c])
<1>1. /\ UNCHANGED <<storeVars, tag, since, seen, deliveries>>
      /\ page' = [page EXCEPT ![c] = ids]
  BY DEF Poll
<1>2. /\ lastMessageId \in Nat /\ DOMAIN messages \subseteq 1..lastMessageId
      /\ since[c] \in Nat /\ Limit[c] \in Int /\ page \in [Clients -> (SUBSET (1..lastMessageId)) \cup {None}]
  BY LogBoundsAssumption, ClientsAssumption DEF LogInv, TypeOK
<1>3. ids \subseteq Newer(since[c], Direction[c])
  BY PageWanted
<1>4. ids \subseteq since[c] + 1..lastMessageId /\ ids \subseteq 1..lastMessageId
  BY <1>2, <1>3 DEF Newer
<1>5. \A d \in Clients : OnTheWay(d)' = IF d = c THEN (IF ids = None THEN {} ELSE ids) ELSE OnTheWay(d)
  BY <1>1, <1>2 DEF OnTheWay
<1>6. TypeOK'
  BY <1>1, <1>2, <1>4, <1>5 DEF LogInv, TypeOK, storeVars, Rows
<1>7. PollNeverSkips'
  BY <1>1 DEF LogInv, PollNeverSkips, Wanted, Newer, storeVars
<1>8. ASSUME NEW d \in Clients PROVE PageComplete(d)'
  <2>1. CASE d = c
    <3> SUFFICES ASSUME NEW i \in Wanted(c), NEW j \in OnTheWay(c)', since[c] < i, i < j
                 PROVE  i \in OnTheWay(c)'
      BY <1>1, <2>1 DEF PageComplete, Wanted, Newer, storeVars
    <3>1. j \in ids /\ OnTheWay(c)' = ids
      BY <1>5
    <3>2. i \in Newer(since[c], Direction[c])
      BY DEF Wanted, Newer
    <3>3. i \in ids
      BY <1>2, <3>1, <3>2, PageIsPrefix
    <3> QED
      BY <3>1, <3>3
  <2>2. CASE d # c
    BY <1>1, <1>5, <2>2 DEF LogInv, PageComplete, Wanted, Newer, storeVars
  <2> QED
    BY <2>1, <2>2
<1> QED
  BY <1>6, <1>7, <1>8 DEF LogInv

LEMMA ArriveKeepsInv == ASSUME LogInv, NEW c \in Clients, Arrive(c) PROVE LogInv'
<1>1. /\ UNCHANGED <<storeVars, tag>>
      /\ page[c] # None
      /\ since' = [since EXCEPT ![c] = AdvanceTo(c)]
      /\ seen' = [seen EXCEPT ![c] = @ \cup page[c]]
      /\ deliveries' = [deliveries EXCEPT ![c] = @ + Cardinality(page[c])]
      /\ page' = [page EXCEPT ![c] = None]
  BY DEF Arrive
<1>2. /\ lastMessageId \in Nat /\ since[c] \in 0..lastMessageId
      /\ page[c] \subseteq since[c] + 1..lastMessageId /\ page[c] \subseteq 1..lastMessageId
      /\ OnTheWay(c) = page[c]
  BY <1>1, LogBoundsAssumption DEF LogInv, TypeOK, OnTheWay
<1>3. /\ page[c] = {} => AdvanceTo(c) = since[c]
      /\ page[c] # {} => AdvanceTo(c) \in page[c] /\ \A j \in page[c] : j <= AdvanceTo(c)
  BY <1>1, AdvanceToLast DEF LogInv
<1>4. AdvanceTo(c) \in 0..lastMessageId
  BY <1>2, <1>3
<1>5. Cardinality(page[c]) \in Nat
  <2>1. IsFiniteSet(1..lastMessageId)
    BY <1>2, FS_Interval
  <2>2. IsFiniteSet(page[c])
    BY <1>2, <2>1, FS_Subset
  <2> QED
    BY <2>2, FS_CardinalityType
<1>6. \A d \in Clients : OnTheWay(d)' = IF d = c THEN {} ELSE OnTheWay(d)
  BY <1>1 DEF OnTheWay, LogInv, TypeOK
<1>7. TypeOK'
  BY <1>1, <1>2, <1>4, <1>5, <1>6 DEF LogInv, TypeOK, storeVars, Rows
<1>8. PollNeverSkips'
  <2> SUFFICES ASSUME NEW d \in Clients, NEW i \in Wanted(d), i <= since'[d]
               PROVE  i \in seen'[d]
    BY <1>1 DEF PollNeverSkips, Wanted, Newer, storeVars
  <2>1. i \in DOMAIN messages /\ i \in Int
    BY DEF Wanted, Newer, LogInv, TypeOK
  <2>2. CASE d # c \/ i <= since[d]
    BY <1>1, <2>1, <2>2 DEF LogInv, TypeOK, PollNeverSkips
  <2>3. CASE d = c /\ ~(i <= since[c])
    <3>1. page[c] # {} /\ i <= AdvanceTo(c)
      BY <1>1, <1>3, <2>3 DEF LogInv, TypeOK
    <3>2. i \in page[c]
      BY <1>2, <1>3, <2>1, <2>3, <3>1 DEF LogInv, PageComplete
    <3> QED
      BY <1>1, <2>3, <3>2 DEF LogInv, TypeOK
  <2> QED
    BY <2>2, <2>3
<1>9. \A d \in Clients : PageComplete(d)'
  BY <1>1, <1>6 DEF LogInv, TypeOK, PageComplete, Wanted, Newer, storeVars
<1> QED
  BY <1>7, <1>8, <1>9 DEF LogInv

LEMMA LoseKeepsInv == ASSUME LogInv, NEW c \in Clients, Lose(c) PROVE LogInv'
<1>1. UNCHANGED <<storeVars, tag, since, seen, deliveries>> /\ page' = [page EXCEPT ![c] = None]
  BY DEF Lose
<1>2. \A d \in Clients : OnTheWay(d)' = IF d = c THEN {} ELSE OnTheWay(d)
  BY <1>1 DEF OnTheWay, LogInv, TypeOK
<1> QED
  BY <1>1, <1>2
  DEF LogInv, TypeOK, Rows, PollNeverSkips, PageComplete, Wanted, Newer, storeVars

LEMMA NextInv == LogInv /\ [Next]_logVars => LogInv'
BY SaveKeepsInv, DeleteKeepsInv, TagsKeepInv, PollKeepsInv, ArriveKeepsInv, LoseKeepsInv
DEF Next

\* The inductive invariant holds in every reachable state.
THEOREM LogInvariant == Spec => []LogInv
BY InitInv, NextInv, PTL DEF Spec

\* The tables and the clients' state keep their types.
THEOREM LogTypes == Spec => []TypeOK
BY LogInvariant, PTL DEF LogInv

\* A client that sets since_id to the last id it received misses no message it
\* asks for, whatever its limit.
THEOREM NothingSkipped == Spec => []PollNeverSkips
BY LogInvariant, PTL DEF LogInv

-----------------------------------------------------------------------------
(* The log implements the feed *)

\* Feed ids of a client: what is outstanding is above its since_id.
LEMMA BacklogAbove ==
    ASSUME LogInv, NEW c \in Clients, NEW i \in Backlog(c)
    PROVE  i \in Int /\ since[c] < i /\ i <= lastMessageId
BY LogBoundsAssumption DEF LogInv, TypeOK, Backlog, Wanted, Newer, OnTheWay

\* Logging a message publishes it to every client.
LEMMA SavePublishes ==
    ASSUME LogInv, NEW w \in Writers, Save(w), NEW c \in Clients
    PROVE  Feed(c)!Publish
<1>1. PICK d \in Directions : SaveMessage([direction |-> d, session |-> tag[w]])
  BY DEF Save
<1>2. /\ lastMessageId \in Nat /\ lastMessageId' = lastMessageId + 1
      /\ DOMAIN messages \subseteq 1..lastMessageId
      /\ DOMAIN messages' = DOMAIN messages \cup {lastMessageId'}
      /\ \A i \in DOMAIN messages : messages'[i] = messages[i]
      /\ UNCHANGED <<since, page, seen>>
      /\ since[c] \in 0..lastMessageId
  BY <1>1, LogBoundsAssumption
  DEF Save, SaveMessage, NextMessageId, InsertRow, clientVars, LogInv, TypeOK
<1>3. OnTheWay(c)' = OnTheWay(c)
  BY <1>2 DEF OnTheWay
<1>4. Wanted(c)' \in {Wanted(c), Wanted(c) \cup {lastMessageId'}}
  BY <1>2 DEF Wanted, Newer
<1>5. Backlog(c)' \in {Backlog(c), Backlog(c) \cup {lastMessageId'}}
  BY <1>2, <1>3, <1>4 DEF Backlog
<1> QED
  BY <1>2, <1>5 DEF Feed!Publish

\* Emptying the table or losing a page only takes from the backlog.
LEMMA DeleteDiscards ==
    ASSUME LogInv, DeleteLog, NEW c \in Clients
    PROVE  Feed(c)!Discard
BY DEF DeleteLog, DeleteAllMessages, NoRows, clientVars, Backlog, Wanted, Newer, OnTheWay,
       Feed!Discard

LEMMA LoseDiscards ==
    ASSUME LogInv, NEW d \in Clients, Lose(d), NEW c \in Clients
    PROVE  Feed(c)!Discard
<1>1. UNCHANGED <<storeVars, since, seen>> /\ page' = [page EXCEPT ![d] = None]
  BY DEF Lose
<1>2. OnTheWay(c)' \subseteq OnTheWay(c)
  BY <1>1 DEF OnTheWay, LogInv, TypeOK
<1> QED
  BY <1>1, <1>2 DEF Backlog, Wanted, Newer, storeVars, Feed!Discard

\* A poll reads rows of the backlog.
LEMMA PollStutters ==
    ASSUME LogInv, NEW d \in Clients, Poll(d), NEW c \in Clients
    PROVE  UNCHANGED Feed(c)!feedVars
<1> DEFINE ids == GetMessages(since[d], Direction[d], Limit[d])
<1>1. /\ UNCHANGED <<storeVars, since, seen>>
      /\ page[d] = None
      /\ page' = [page EXCEPT ![d] = ids]
  BY DEF Poll
<1>2. since[d] \in Nat
  BY LogBoundsAssumption DEF LogInv, TypeOK
<1>3. ids \subseteq {i \in Wanted(d) : i > since[d]}
  <2>1. ids \subseteq Newer(since[d], Direction[d])
    BY PageWanted
  <2>2. DOMAIN messages \subseteq Int
    BY DEF LogInv, TypeOK
  <2> QED
    BY <1>2, <2>1, <2>2 DEF Wanted, Newer
<1>4. OnTheWay(d) = {} /\ OnTheWay(d)' \in {{}, ids}
  BY <1>1 DEF OnTheWay, LogInv, TypeOK
<1>5. Backlog(c)' = Backlog(c)
  <2>1. Wanted(c)' = Wanted(c)
    BY <1>1 DEF Wanted, Newer, storeVars
  <2>2. CASE c = d
    BY <1>1, <1>3, <1>4, <2>1, <2>2 DEF Backlog
  <2>3. CASE c # d
    <3>1. OnTheWay(c)' = OnTheWay(c)
      BY <1>1, <2>3 DEF OnTheWay, LogInv, TypeOK
    <3> QED
      BY <1>1, <2>1, <3>1 DEF Backlog
  <2> QED
    BY <2>2, <2>3
<1> QED
  BY <1>1, <1>5 DEF Feed!feedVars, storeVars

\* A page that arrives is the oldest part of the backlog.
LEMMA ArriveDelivers ==
    ASSUME LogInv, NEW c \in Clients, Arrive(c)
    PROVE  Feed(c)!Deliver
<1>1. /\ UNCHANGED storeVars
      /\ page[c] # None /\ OnTheWay(c) = page[c]
      /\ since'[c] = AdvanceTo(c) /\ page'[c] = None
      /\ seen'[c] = seen[c] \cup page[c]
  BY DEF Arrive, OnTheWay, LogInv, TypeOK
<1>2. /\ since[c] \in Int /\ page[c] \subseteq Int
      /\ \A i \in page[c] : since[c] < i
      /\ Wanted(c) \subseteq Int
  BY <1>1, LogBoundsAssumption DEF LogInv, TypeOK, Wanted, Newer
<1>3. /\ page[c] = {} => AdvanceTo(c) = since[c]
      /\ page[c] # {} => AdvanceTo(c) \in page[c] /\ \A j \in page[c] : j <= AdvanceTo(c)
  BY <1>1, AdvanceToLast DEF LogInv
<1>4. Wanted(c)' = Wanted(c) /\ OnTheWay(c)' = {}
  BY <1>1 DEF Wanted, Newer, OnTheWay, storeVars
<1>5. Backlog(c) = {i \in Wanted(c) : i > since[c]} \cup page[c]
  BY <1>1 DEF Backlog
<1>6. Backlog(c)' = {i \in Wanted(c) : i > AdvanceTo(c)}
  BY <1>1, <1>4 DEF Backlog
<1>7. ASSUME NEW i \in Wanted(c), i > since[c], i \notin page[c]
      PROVE  i > AdvanceTo(c)
  <2>1. CASE page[c] = {}
    BY <1>3, <1>7, <2>1
  <2>2. CASE page[c] # {}
    <3>1. AdvanceTo(c) \in page[c] /\ i # AdvanceTo(c)
      BY <1>3, <1>7, <2>2
    <3>2. ~(i < AdvanceTo(c))
      BY <1>1, <1>2, <1>7, <3>1 DEF LogInv, PageComplete
    <3> QED
      BY <1>2, <3>1, <3>2
  <2> QED
    BY <2>1, <2>2
<1>8. ASSUME NEW i \in Wanted(c), i > AdvanceTo(c)
      PROVE  i > since[c] /\ i \notin page[c]
  BY <1>2, <1>3, <1>8
<1>9. Backlog(c)' = Backlog(c) \ page[c]
  BY <1>5, <1>6, <1>7, <1>8
<1>10. \A i \in page[c], j \in Backlog(c) \ page[c] : i < j
  <2> SUFFICES ASSUME NEW i \in page[c], NEW j \in Wanted(c), j > since[c], j \notin page[c]
               PROVE  i < j
    BY <1>5
  <2>1. j > AdvanceTo(c) /\ i <= AdvanceTo(c)
    BY <1>3, <1>7
  <2> QED
    BY <1>2, <1>3, <2>1
<1> QED
  BY <1>1, <1>5, <1>9, <1>10 DEF Feed!Deliver, storeVars

\* A page for another client changes nothing.
LEMMA ArriveElsewhere ==
    ASSUME LogInv, NEW d \in Clients, Arrive(d), NEW c \in Clients, c # d
    PROVE  UNCHANGED Feed(c)!feedVars
<1>1. UNCHANGED storeVars /\ since'[c] = since[c] /\ page'[c] = page[c] /\ seen'[c] = seen[c]
  BY DEF Arrive, LogInv, TypeOK
<1> QED
  BY <1>1 DEF Backlog, Wanted, Newer, OnTheWay, storeVars, Feed!feedVars

LEMMA NextImplementsFeed ==
    ASSUME LogInv, [Next]_logVars, NEW c \in Clients
    PROVE  [Feed(c)!Next]_(Feed(c)!feedVars)
<1>1. ASSUME NEW w \in Writers, ReadTag(w) PROVE UNCHANGED Feed(c)!feedVars
  BY <1>1 DEF ReadTag, storeVars, clientVars, Backlog, Wanted, Newer, OnTheWay, Feed!feedVars
<1>2. ASSUME Reset PROVE UNCHANGED Feed(c)!feedVars
  BY <1>2 DEF Reset, ResetSession, clientVars, Backlog, Wanted, Newer, OnTheWay, Feed!feedVars
<1>3. ASSUME UNCHANGED logVars PROVE UNCHANGED Feed(c)!feedVars
  BY <1>3 DEF logVars, storeVars, clientVars, Backlog, Wanted, Newer, OnTheWay, Feed!feedVars
<1> QED
  BY <1>1, <1>2, <1>3, SavePublishes, DeleteDiscards, LoseDiscards, PollStutters,
     ArriveDelivers, ArriveElsewhere
  DEF Next, Feed!Next

LEMMA InitImplementsFeed ==
    ASSUME Init, NEW c \in Clients
    PROVE  Feed(c)!Init
<1>1. DOMAIN messages = {} /\ lastMessageId = 0 /\ seen[c] = {} /\ OnTheWay(c) = {}
  BY DEF Init, InitDb, NoRows, OnTheWay
<1> QED
  BY <1>1 DEF Backlog, Wanted, Newer, Feed!Init

\* The log implements the feed of module MessageFeed for each of its clients: the
\* rows of get_messages reach it in the order of logging, none twice and none left
\* out, whatever the limits, losses and deletions.
THEOREM LogImplementsFeed == Spec => LogIsFeed
<1>1. Init => \A c \in Clients : Feed(c)!Init
  BY InitImplementsFeed
<1>2. LogInv /\ [Next]_logVars => [\A c \in Clients : [Feed(c)!Next]_(Feed(c)!feedVars)]_logVars
  BY NextImplementsFeed
<1> QED
  BY <1>1, <1>2, LogInvariant, PTL DEF Spec, LogIsFeed

-----------------------------------------------------------------------------
(* Nothing is received twice *)

\* The inductive invariant: what was received is not above since_id, and a page is.
OnceInv ==
    /\ ReceivedOnce
    /\ \A c \in Clients : seen[c] \subseteq 1..since[c]

LEMMA ArriveOnce ==
    ASSUME LogInv, OnceInv, NEW c \in Clients, Arrive(c)
    PROVE  OnceInv'
<1>1. /\ page[c] # None /\ OnTheWay(c) = page[c]
      /\ since' = [since EXCEPT ![c] = AdvanceTo(c)]
      /\ seen' = [seen EXCEPT ![c] = @ \cup page[c]]
      /\ deliveries' = [deliveries EXCEPT ![c] = @ + Cardinality(page[c])]
  BY DEF Arrive, OnTheWay
<1>2. /\ lastMessageId \in Nat /\ since[c] \in 0..lastMessageId
      /\ page[c] \subseteq since[c] + 1..lastMessageId /\ page[c] \subseteq 1..lastMessageId
      /\ seen[c] \subseteq 1..since[c]
  BY <1>1, LogBoundsAssumption DEF LogInv, TypeOK, OnceInv
<1>3. /\ page[c] = {} => AdvanceTo(c) = since[c]
      /\ page[c] # {} => AdvanceTo(c) \in page[c] /\ \A j \in page[c] : j <= AdvanceTo(c)
  BY <1>1, AdvanceToLast DEF LogInv
<1>4. seen[c] \cup page[c] \subseteq 1..AdvanceTo(c)
  BY <1>2, <1>3
<1>5. IsFiniteSet(1..lastMessageId) /\ IsFiniteSet(1..since[c])
  BY <1>2, FS_Interval
<1>6. IsFiniteSet(seen[c]) /\ IsFiniteSet(page[c])
  BY <1>2, <1>5, FS_Subset
<1>7. seen[c] \cap page[c] = {}
  BY <1>2
<1>8. Cardinality(seen[c] \cup page[c]) = Cardinality(seen[c]) + Cardinality(page[c])
  <2>1. Cardinality(seen[c] \cup page[c])
          = Cardinality(seen[c]) + Cardinality(page[c]) - Cardinality(seen[c] \cap page[c])
    BY <1>6, FS_Union
  <2>2. Cardinality(seen[c] \cap page[c]) = 0
    BY <1>7, FS_EmptySet
  <2>3. Cardinality(seen[c]) \in Nat /\ Cardinality(page[c]) \in Nat
    BY <1>6, FS_CardinalityType
  <2> QED
    BY <2>1, <2>2, <2>3
<1>9. ASSUME NEW d \in Clients
      PROVE  /\ deliveries'[d] = Cardinality(seen'[d])
             /\ seen'[d] \subseteq 1..since'[d]
  BY <1>1, <1>4, <1>8, <1>9 DEF LogInv, TypeOK, OnceInv, ReceivedOnce
<1> QED
  BY <1>9 DEF OnceInv, ReceivedOnce

LEMMA OnceNext == LogInv /\ OnceInv /\ [Next]_logVars => OnceInv'
<1> SUFFICES ASSUME LogInv, OnceInv, [Next]_logVars PROVE OnceInv'
  OBVIOUS
<1>1. ASSUME UNCHANGED <<since, seen, deliveries>> PROVE OnceInv'
  BY <1>1 DEF OnceInv, ReceivedOnce
<1>2. (\E c \in Clients : Arrive(c)) \/ UNCHANGED <<since, seen, deliveries>>
  BY DEF Next, logVars, clientVars, ReadTag, Save, DeleteLog, Reset, Poll, Lose
<1> QED
  BY <1>1, <1>2, ArriveOnce

\* No client receives a row twice.
THEOREM NothingTwice == Spec => []ReceivedOnce
<1>1. Init => OnceInv
  BY FS_EmptySet DEF Init, OnceInv, ReceivedOnce
<1> QED
  BY <1>1, OnceNext, LogInvariant, PTL DEF Spec, OnceInv

-----------------------------------------------------------------------------
(* Export *)

\* ExportKeepsOldest: an export of a session leaves a row of it out only behind a full
\* page of older rows, for every page size and whatever was deleted before.
THEOREM OldestExported == Spec => []ExportKeepsOldest
<1>1. TypeOK => ExportKeepsOldest
  <2> SUFFICES ASSUME TypeOK, NEW i \in DOMAIN messages, i \notin Exported(messages[i].session)
               PROVE  Cardinality({j \in DOMAIN messages : j < i}) >= MaxLimit
    BY DEF ExportKeepsOldest
  <2>1. i \notin GetMessages(0, "any", MaxLimit)
    BY DEF Exported
  <2>2. Newer(0, "any") = DOMAIN messages
    BY LogBoundsAssumption DEF Newer, TypeOK
  <2>3. PageSize(MaxLimit) = MaxLimit /\ MaxLimit \in Nat
    BY MaxLimitAssumption DEF PageSize
  <2>4. ~(Cardinality({j \in DOMAIN messages : j < i}) < MaxLimit)
    BY <2>1, <2>2, <2>3 DEF GetMessages
  <2>5. Cardinality({j \in DOMAIN messages : j < i}) \in Nat
    <3>1. lastMessageId \in Nat /\ {j \in DOMAIN messages : j < i} \subseteq 1..lastMessageId
      BY LogBoundsAssumption DEF TypeOK
    <3>2. IsFiniteSet(1..lastMessageId)
      BY <3>1, FS_Interval
    <3> QED
      BY <3>1, <3>2, FS_Subset, FS_CardinalityType
  <2> QED
    BY <2>3, <2>4, <2>5
<1> QED
  BY <1>1, LogTypes, PTL
=============================================================================

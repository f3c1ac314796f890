----------------------------- MODULE ClientProofs -----------------------------
(***************************************************************************)
(* Proofs about StreamFactory and Client, for any credentials, streams,    *)
(* services, caps and number of tasks that close.  First what the streams  *)
(* and their factory keep, whoever closes them (Spec); then the client     *)
(* (ClientSpec), which only does what they allow, so that what was proved  *)
(* of them is its own; that the pool outlives the streams needs to know,   *)
(* besides, what an owner that is done leaves behind.                      *)
(***************************************************************************)
EXTENDS Client, FiniteSetTheorems, TLAPS

USE StreamFactoryAssumption

-----------------------------------------------------------------------------
\* The types.

\* Releasing a stream keeps the types of the budget.
LEMMA ReleaseTyped ==
  ASSUME TypeOK, NEW s \in Streams, Release(s)
  PROVE  inUse' \in [Services -> Nat] /\ open' \subseteq open /\ uncalled' \subseteq uncalled
<1>1. \A n \in Nat : OneLess(n) \in Nat
  BY DEF OneLess
<1>2. CASE s \in uncalled
  BY <1>1, <1>2 DEF Release, TypeOK
<1>3. CASE s \notin uncalled
  BY <1>3 DEF Release, TypeOK, Budget
<1> QED
  BY <1>2, <1>3

\* So does the close of a stream up to its await, and the task waits for it, or
\* it is released.
LEMMA CloseTyped ==
  ASSUME TypeOK, NEW t \in Tasks, NEW s \in Streams, Close(t, s)
  PROVE  /\ inUse' \in [Services -> Nat] /\ open' \subseteq open /\ uncalled' \subseteq uncalled
         /\ closing' \subseteq Streams
         /\ waiting' \in [Tasks -> Streams \cup {NoStream}]
<1>1. CASE s \notin closing /\ socket[s] = "up"
  BY <1>1 DEF Close, TypeOK, Budget
<1>2. CASE ~ (s \notin closing /\ socket[s] = "up")
  BY <1>2, ReleaseTyped DEF Close, TypeOK
<1> QED
  BY <1>1, <1>2

\* Every step keeps the types.
LEMMA TypesKept == TypeOK /\ [Next]_vars => TypeOK'
<1> SUFFICES ASSUME TypeOK, [Next]_vars PROVE TypeOK'
  OBVIOUS
<1>1. ASSUME NEW s \in Streams, NEW good \in BOOLEAN, Create(s, good) PROVE TypeOK'
  BY <1>1 DEF Create, TypeOK, Owner, Factory
<1>2. ASSUME NEW s \in Streams, Start(s) \/ Started(s) \/ StartFails(s) \/ Leave(s)
      PROVE  TypeOK'
  BY <1>2 DEF Start, Started, StartFails, Leave, TypeOK, Owner, Factory, Budget
<1>3. ASSUME NEW s \in Streams, OwnerCloses(s) PROVE TypeOK'
  <2>1. s \in Tasks
    BY DEF Tasks
  <2> QED
    BY <1>3, <2>1, CloseTyped DEF OwnerCloses, TypeOK, Owner, Factory
<1>4. ASSUME NEW s \in Streams, ReaderEnds(s) PROVE TypeOK'
  BY <1>4 DEF ReaderEnds, TypeOK, Factory, Budget
<1>5. ASSUME NEW t \in Tasks, Closed(t) PROVE TypeOK'
  <2>1. waiting[t] \in Streams
    BY <1>5 DEF Closed, TypeOK
  <2> QED
    BY <1>5, <2>1, ReleaseTyped DEF Closed, TypeOK, Factory
<1>6. ASSUME NEW t \in Tasks, CloseCancelled(t) PROVE TypeOK'
  BY <1>6 DEF CloseCancelled, TypeOK, Budget
<1>7. ASSUME NEW c \in Closers, FactoryCloses(c) PROVE TypeOK'
  BY <1>7 DEF FactoryCloses, TypeOK, Budget
<1>8. ASSUME NEW c \in Closers, CloseNext(c) PROVE TypeOK'
  <2>1. PICK s \in left[c] : left' = [left EXCEPT ![c] = @ \ {s}] /\ Close(c, s)
    BY <1>8 DEF CloseNext
  <2>2. s \in Streams /\ c \in Tasks
    BY DEF TypeOK, Tasks
  <2> QED
    BY <1>8, <2>1, <2>2, CloseTyped DEF CloseNext, TypeOK
<1>9. CASE UNCHANGED vars
  BY <1>9 DEF vars, TypeOK
<1>10. ASSUME NEW t \in Tasks, Hangs(t) PROVE TypeOK'
  BY <1>10 DEF Hangs, TypeOK, Budget, Factory
<1> QED
  BY <1>1, <1>2, <1>3, <1>4, <1>5, <1>6, <1>7, <1>8, <1>9, <1>10 DEF Next, OwnerStep

\* The types of the budget, the factory and the tasks hold throughout.
THEOREM TypeCorrect == Spec => []TypeOK
<1>1. Init => TypeOK
  BY DEF Init, TypeOK, Owner
<1> QED
  BY <1>1, TypesKept, PTL DEF Spec

-----------------------------------------------------------------------------
\* The count.

\* Releasing a stream counts down if it was counted, and by one.
LEMMA ReleaseCounts ==
  ASSUME TypeOK, CountExact, NEW s \in Streams, Release(s)
  PROVE  CountExact'
<1>1. CASE s \notin uncalled
  BY <1>1 DEF Release, Budget, CountExact, Of
<1>2. CASE s \in uncalled
  <2>1. open' = uncalled'
    BY <1>2 DEF Release, CountExact
  <2>2. ASSUME NEW v \in Services
        PROVE  /\ inUse'[v] = Cardinality(Of(v)')
               /\ Enforce /\ v \in DOMAIN Caps => inUse'[v] <= Caps[v]
    <3>1. IsFiniteSet(Of(v))
      BY FS_Subset DEF Of, TypeOK
    <3>2. CASE v = ServiceOf[s]
      <4>1. s \in Of(v) /\ Of(v)' = Of(v) \ {s}
        BY <1>2, <3>2 DEF Release, Of
      <4>2. inUse'[v] = OneLess(inUse[v])
        BY <1>2, <3>2 DEF Release, TypeOK
      <4>3. Cardinality(Of(v)') = Cardinality(Of(v)) - 1
        BY <3>1, <4>1, FS_RemoveElement
      <4>4. Cardinality(Of(v)) # 0
        BY <3>1, <4>1, FS_EmptySet
      <4> QED
        BY <4>2, <4>3, <4>4 DEF OneLess, CountExact, TypeOK
    <3>3. CASE v # ServiceOf[s]
      <4>1. Of(v)' = Of(v)
        BY <1>2, <3>3 DEF Release, Of
      <4> QED
        BY <1>2, <3>3, <4>1 DEF Release, TypeOK, CountExact
    <3> QED
      BY <3>2, <3>3
  <2> QED
    BY <2>1, <2>2 DEF CountExact
<1> QED
  BY <1>1, <1>2

\* The close of a stream keeps the count, whether it waits or not.
LEMMA CloseCounts ==
  ASSUME TypeOK, CountExact, NEW t \in Tasks, NEW s \in Streams, Close(t, s)
  PROVE  CountExact'
<1>1. CASE s \notin closing /\ socket[s] = "up"
  BY <1>1 DEF Close, Budget, CountExact, Of
<1>2. CASE ~ (s \notin closing /\ socket[s] = "up")
  BY <1>2, ReleaseCounts DEF Close
<1> QED
  BY <1>1, <1>2

\* What is counted has been created.
Fresh == \A s \in Streams : owner[s] = "none" => s \notin open /\ \A c \in Closers : s \notin found[c]

\* Every step keeps that, since nobody forgets having created a stream.
LEMMA FreshKept == TypeOK /\ Fresh /\ [Next]_vars => Fresh'
<1> SUFFICES ASSUME TypeOK, Fresh, [Next]_vars PROVE Fresh'
  OBVIOUS
<1>1. ASSUME NEW s \in Streams, NEW good \in BOOLEAN, Create(s, good) PROVE Fresh'
  BY <1>1 DEF Create, TypeOK, Fresh, Factory
<1>2. ASSUME NEW s \in Streams, Start(s) \/ Started(s) \/ StartFails(s) \/ Leave(s)
      PROVE  Fresh'
  BY <1>2 DEF Start, Started, StartFails, Leave, TypeOK, Fresh, Factory, Budget
<1>3. ASSUME NEW s \in Streams, OwnerCloses(s) PROVE Fresh'
  <2>1. open' \subseteq open
    BY <1>3, CloseTyped DEF OwnerCloses, Tasks
  <2> QED
    BY <1>3, <2>1 DEF OwnerCloses, TypeOK, Fresh, Factory
<1>4. ASSUME NEW s \in Streams, ReaderEnds(s) PROVE Fresh'
  BY <1>4 DEF ReaderEnds, Fresh, Factory, Budget
<1>5. ASSUME NEW t \in Tasks, Closed(t) PROVE Fresh'
  <2>1. open' \subseteq open
    BY <1>5, ReleaseTyped DEF Closed, TypeOK
  <2> QED
    BY <1>5, <2>1 DEF Closed, Fresh, Factory
<1>6. ASSUME NEW t \in Tasks, CloseCancelled(t) PROVE Fresh'
  BY <1>6 DEF CloseCancelled, Fresh, Budget
<1>7. ASSUME NEW c \in Closers, FactoryCloses(c) PROVE Fresh'
  BY <1>7 DEF FactoryCloses, TypeOK, Fresh, Budget
<1>8. ASSUME NEW c \in Closers, CloseNext(c) PROVE Fresh'
  <2>1. open' \subseteq open
    BY <1>8, CloseTyped DEF CloseNext, TypeOK, Tasks
  <2> QED
    BY <1>8, <2>1 DEF CloseNext, Fresh
<1>9. CASE UNCHANGED vars
  BY <1>9 DEF vars, Fresh
<1>10. ASSUME NEW t \in Tasks, Hangs(t) PROVE Fresh'
  BY <1>10 DEF Hangs, Fresh, Budget, Factory
<1> QED
  BY <1>1, <1>2, <1>3, <1>4, <1>5, <1>6, <1>7, <1>8, <1>9, <1>10 DEF Next, OwnerStep

\* The creation of a stream counts it, within the cap.
LEMMA CreateCounts ==
  ASSUME TypeOK, CountExact, Fresh, NEW s \in Streams, NEW good \in BOOLEAN, Create(s, good)
  PROVE  CountExact'
<1>1. s \notin uncalled /\ open' = uncalled'
  BY DEF Create, Fresh, CountExact
<1>2. ASSUME NEW v \in Services
      PROVE  /\ inUse'[v] = Cardinality(Of(v)')
             /\ Enforce /\ v \in DOMAIN Caps => inUse'[v] <= Caps[v]
  <2>1. IsFiniteSet(Of(v))
    BY FS_Subset DEF Of, TypeOK
  <2>2. CASE v = ServiceOf[s]
    <3>1. s \notin Of(v) /\ Of(v)' = Of(v) \cup {s}
      BY <1>1, <2>2 DEF Create, Of
    <3>2. inUse'[v] = inUse[v] + 1
      BY <2>2 DEF Create, TypeOK
    <3>3. Cardinality(Of(v)') = Cardinality(Of(v)) + 1
      BY <2>1, <3>1, FS_AddElement
    <3>4. Enforce /\ v \in DOMAIN Caps => inUse[v] < Caps[v]
      BY <2>2 DEF Create, Room
    <3> QED
      BY <3>2, <3>3, <3>4 DEF CountExact, TypeOK
  <2>3. CASE v # ServiceOf[s]
    <3>1. Of(v)' = Of(v) /\ inUse'[v] = inUse[v]
      BY <2>3 DEF Create, Of, TypeOK
    <3> QED
      BY <3>1 DEF CountExact
  <2> QED
    BY <2>2, <2>3
<1> QED
  BY <1>1, <1>2 DEF CountExact

\* Every step keeps the count.
LEMMA CountKept == TypeOK /\ Fresh /\ CountExact /\ [Next]_vars => CountExact'
<1> SUFFICES ASSUME TypeOK, Fresh, CountExact, [Next]_vars PROVE CountExact'
  OBVIOUS
<1>1. ASSUME NEW s \in Streams, NEW good \in BOOLEAN, Create(s, good) PROVE CountExact'
  BY <1>1, CreateCounts
<1>2. ASSUME NEW s \in Streams, OwnerCloses(s) PROVE CountExact'
  BY <1>2, CloseCounts DEF OwnerCloses, Tasks
<1>3. ASSUME NEW t \in Tasks, Closed(t) PROVE CountExact'
  BY <1>3, ReleaseCounts DEF Closed, TypeOK
<1>4. ASSUME NEW c \in Closers, CloseNext(c) PROVE CountExact'
  BY <1>4, CloseCounts DEF CloseNext, TypeOK, Tasks
<1>5. ASSUME UNCHANGED Budget PROVE CountExact'
  BY <1>5 DEF Budget, CountExact, Of
<1>6. ASSUME NEW s \in Streams, Start(s) \/ Started(s) \/ StartFails(s) \/ Leave(s) \/ ReaderEnds(s)
      PROVE  CountExact'
  BY <1>5, <1>6 DEF Start, Started, StartFails, Leave, ReaderEnds
<1>7. ASSUME NEW t \in Tasks, CloseCancelled(t) PROVE CountExact'
  BY <1>5, <1>7 DEF CloseCancelled
<1>8. ASSUME NEW c \in Closers, FactoryCloses(c) PROVE CountExact'
  BY <1>5, <1>8 DEF FactoryCloses
<1>9. CASE UNCHANGED vars
  BY <1>5, <1>9 DEF vars, Budget
<1>10. ASSUME NEW t \in Tasks, Hangs(t) PROVE CountExact'
  BY <1>5, <1>10 DEF Hangs
<1> QED
  BY <1>1, <1>2, <1>3, <1>4, <1>6, <1>7, <1>8, <1>9, <1>10 DEF Next, OwnerStep

\* Whoever closes a stream and how often, it is counted once, from its creation
\* to the first close that ends, and no cap is passed.
THEOREM CountIsExact == Spec => []CountExact
<1>1. Init => Fresh
  BY DEF Init, Fresh
<1>2. Init => CountExact
  BY FS_EmptySet DEF Init, CountExact, Of
<1> QED
  BY <1>1, <1>2, TypeCorrect, FreshKept, CountKept, PTL DEF Spec

-----------------------------------------------------------------------------
\* What a closer found.

\* A closer's stream is still before it, or it is the one it waits for, or it
\* has been released, or a close of it was cancelled.
FoundAccounted ==
    \A c \in Closers :
        found[c] \cap open \subseteq abandoned \cup left[c] \cup {waiting[c]}

\* A close that starts leaves the stream waited for by the task or released.
LEMMA CloseAccounts ==
  ASSUME TypeOK, open = uncalled, NEW t \in Tasks, NEW s \in Streams, Close(t, s)
  PROVE  /\ s \notin open' \/ waiting'[t] = s
         /\ \A u \in Tasks : u # t => waiting'[u] = waiting[u]
         /\ waiting'[t] \in {waiting[t], s}
<1>1. CASE s \notin closing /\ socket[s] = "up"
  BY <1>1 DEF Close, TypeOK
<1>2. CASE ~ (s \notin closing /\ socket[s] = "up")
  BY <1>2 DEF Close, Release, Budget, TypeOK
<1> QED
  BY <1>1, <1>2

\* Every step keeps the account.
LEMMA AccountKept ==
  TypeOK /\ Fresh /\ CountExact /\ FoundAccounted /\ [Next]_vars => FoundAccounted'
<1> SUFFICES ASSUME TypeOK, Fresh, open = uncalled, FoundAccounted, [Next]_vars,
                    NEW c \in Closers, NEW s \in found'[c], s \in open'
             PROVE  s \in abandoned' \cup left'[c] \cup {waiting'[c]}
  BY DEF FoundAccounted, CountExact
<1>0. c \in Tasks
  BY DEF Tasks
<1>1. ASSUME NEW r \in Streams, NEW good \in BOOLEAN, Create(r, good)
      PROVE  s \in abandoned' \cup left'[c] \cup {waiting'[c]}
  BY <1>1 DEF Create, Fresh, FoundAccounted, Factory
<1>2. ASSUME NEW r \in Streams, Start(r) \/ Started(r) \/ StartFails(r) \/ Leave(r) \/ ReaderEnds(r)
      PROVE  s \in abandoned' \cup left'[c] \cup {waiting'[c]}
  BY <1>2 DEF Start, Started, StartFails, Leave, ReaderEnds, FoundAccounted, Factory, Budget
<1>3. ASSUME NEW r \in Streams, OwnerCloses(r)
      PROVE  s \in abandoned' \cup left'[c] \cup {waiting'[c]}
  <2>1. r \in Tasks /\ r # c
    BY DEF Tasks
  <2>2. open' \subseteq open /\ waiting'[c] = waiting[c]
    BY <1>0, <1>3, <2>1, CloseTyped, CloseAccounts DEF OwnerCloses
  <2> QED
    BY <1>3, <2>2 DEF OwnerCloses, FoundAccounted, Factory
<1>4. ASSUME NEW t \in Tasks, Closed(t)
      PROVE  s \in abandoned' \cup left'[c] \cup {waiting'[c]}
  <2>1. waiting[t] \in Streams /\ open' \subseteq open /\ waiting[t] \notin open'
    BY <1>4, ReleaseTyped DEF Closed, TypeOK, Release
  <2>2. s # waiting[t]
    BY <2>1
  <2>3. t = c \/ waiting'[c] = waiting[c]
    BY <1>0, <1>4 DEF Closed, TypeOK
  <2> QED
    BY <1>4, <2>1, <2>2, <2>3 DEF Closed, FoundAccounted, Factory
<1>5. ASSUME NEW t \in Tasks, CloseCancelled(t)
      PROVE  s \in abandoned' \cup left'[c] \cup {waiting'[c]}
  <2>1. s \in abandoned \cup left[c] \cup {waiting[c]}
    BY <1>5 DEF CloseCancelled, FoundAccounted, Budget
  <2>2. CASE t = c
    BY <1>5, <2>1, <2>2 DEF CloseCancelled
  <2>3. CASE t # c
    BY <1>0, <1>5, <2>1, <2>3 DEF CloseCancelled, TypeOK
  <2> QED
    BY <2>2, <2>3
<1>6. ASSUME NEW d \in Closers, FactoryCloses(d)
      PROVE  s \in abandoned' \cup left'[c] \cup {waiting'[c]}
  <2>1. CASE d = c
    BY <1>6, <2>1 DEF FactoryCloses, TypeOK
  <2>2. CASE d # c
    BY <1>6, <2>2 DEF FactoryCloses, TypeOK, FoundAccounted, Budget
  <2> QED
    BY <2>1, <2>2
<1>7. ASSUME NEW d \in Closers, CloseNext(d)
      PROVE  s \in abandoned' \cup left'[c] \cup {waiting'[c]}
  <2>1. PICK r \in left[d] : left' = [left EXCEPT ![d] = @ \ {r}] /\ Close(d, r)
    BY <1>7 DEF CloseNext
  <2>2. r \in Streams /\ d \in Tasks
    BY DEF TypeOK, Tasks
  <2>3. open' \subseteq open /\ found' = found /\ abandoned' = abandoned
    BY <1>7, <2>1, <2>2, CloseTyped DEF CloseNext
  <2>4. s \in abandoned \cup left[c] \cup {waiting[c]}
    BY <2>3 DEF FoundAccounted
  <2>5. /\ r \notin open' \/ waiting'[d] = r
        /\ \A u \in Tasks : u # d => waiting'[u] = waiting[u]
    BY <2>1, <2>2, CloseAccounts
  <2>6. CASE d = c
    <3>1. s # waiting[c]
      BY <1>7, <2>3, <2>6 DEF CloseNext, TypeOK
    <3> QED
      BY <2>1, <2>3, <2>4, <2>5, <2>6, <3>1 DEF TypeOK
  <2>7. CASE d # c
    BY <1>0, <2>1, <2>3, <2>4, <2>5, <2>7 DEF TypeOK
  <2> QED
    BY <2>6, <2>7
<1>8. CASE UNCHANGED vars
  BY <1>8 DEF vars, FoundAccounted
<1>9. ASSUME NEW t \in Tasks, Hangs(t)
      PROVE  s \in abandoned' \cup left'[c] \cup {waiting'[c]}
  BY <1>9 DEF Hangs, FoundAccounted, Budget, Factory
<1> QED
  BY <1>1, <1>2, <1>3, <1>4, <1>5, <1>6, <1>7, <1>8, <1>9 DEF Next, OwnerStep

\* When a closer has returned, every stream it found has been released, even if
\* others were closing it, but for the closes that were cancelled.
THEOREM FoundAreReleased == Spec => []FoundReleased
<1>1. Init => Fresh
  BY DEF Init, Fresh
<1>2. Init => FoundAccounted
  BY DEF Init, FoundAccounted
<1>3. TypeOK /\ FoundAccounted => FoundReleased
  BY DEF TypeOK, FoundAccounted, FoundReleased
<1> QED
  BY <1>1, <1>2, <1>3, TypeCorrect, CountIsExact, FreshKept, AccountKept, PTL DEF Spec

-----------------------------------------------------------------------------
\* The client does what its streams and their factory allow.

\* A step of the client is a step of StreamFactory or leaves it alone.
LEMMA ClientSteps == [ClientNext]_clientVars => [Next]_vars
<1> SUFFICES ASSUME [ClientNext]_clientVars PROVE [Next]_vars
  OBVIOUS
<1>1. ASSUME NEW credential \in Credentials, NEW injected \in BOOLEAN,
             Assemble(credential, injected)
      PROVE  UNCHANGED vars
  BY <1>1 DEF Assemble
<1>2. ASSUME NEW c \in Closers, CloseClient(c) PROVE UNCHANGED vars \/ FactoryCloses(c)
  BY <1>2 DEF CloseClient
<1>3. ASSUME NEW c \in Closers, ClosePool(c) PROVE UNCHANGED vars
  BY <1>3 DEF ClosePool
<1>4. ASSUME NEW c \in Closers, CancelClient(c) PROVE CloseCancelled(c)
  BY <1>4 DEF CancelClient
<1>5. ASSUME NEW s \in Streams, StreamStep(OwnerStep(s) \/ Hangs(s) \/ Closed(s) \/ CloseCancelled(s))
      PROVE  OwnerStep(s) \/ Hangs(s) \/ Closed(s) \/ CloseCancelled(s)
  BY <1>5 DEF StreamStep
<1>6. ASSUME NEW c \in Closers, StreamStep(Hangs(c) \/ Closed(c) \/ CloseNext(c))
      PROVE  Hangs(c) \/ Closed(c) \/ CloseNext(c)
  BY <1>6 DEF StreamStep
<1>7. ASSUME UNCHANGED clientVars PROVE UNCHANGED vars
  BY <1>7 DEF clientVars
<1> QED
  BY <1>1, <1>2, <1>3, <1>4, <1>5, <1>6, <1>7 DEF ClientNext, Next, Tasks

\* So whatever holds of the streams of a factory holds of those of a client,
\* whose aclose is theirs.
THEOREM ClientIsAFactory == ClientSpec => Spec
<1>1. ClientInit => Init
  BY DEF ClientInit
<1> QED
  BY <1>1, ClientSteps, PTL DEF ClientSpec, Spec

\* The count of a client's connections is exact, whoever closes what.
THEOREM ClientCountIsExact == ClientSpec => []CountExact
  BY ClientIsAFactory, CountIsExact, PTL

-----------------------------------------------------------------------------
\* What an owner that is done leaves behind.

\* A socket exists from the entry of its stream, and is dialed only then; an
\* owner waits for its own stream or for none.
SocketOf ==
    \A s \in Streams :
        /\ owner[s] \in {"none", "lost", "has"} => socket[s] = "none"
        /\ socket[s] = "dialing" => owner[s] = "starting"
        /\ waiting[s] \in {s, NoStream}

\* What is left to a closer is of what it found.
LeftWasFound == \A c \in Closers : left[c] \subseteq found[c]

OwnerIsGone(s) == owner[s] \in {"lost", "left"}

\* When the owners are done before the factory is closed, what a closer found
\* and whatever is closing has no owner any more; and a stream that was left is
\* closing, with somebody waiting for its socket until that is gone.
DoneFirst ==
    orderly =>
        /\ \A c \in Closers : \A s \in found[c] : OwnerIsGone(s)
        /\ \A s \in closing : OwnerIsGone(s)
        /\ \A s \in Streams : owner[s] = "left" => s \in closing
        /\ \A s \in closing \ abandoned :
            socket[s] = "up" => \E t \in Tasks : waiting[t] = s

StreamsInv == TypeOK /\ Fresh /\ SocketOf /\ LeftWasFound /\ DoneFirst

\* A task that is not among the streams has nothing left there, and one that
\* has not come to close has found nothing.
Stages ==
    \A c \in Closers :
        /\ stage[c] = "out" => found[c] = {}
        /\ stage[c] # "streams" => left[c] = {} /\ waiting[c] = NoStream

\* A pool is made by the factory call, and only an owned one is ever closed.
PoolKept ==
    /\ pool.by = "none" <=> client = "none"
    /\ pool.by # "none" /\ ~ pool.open => owned

ClientIInv == ClientTypeOK /\ StreamsInv /\ Stages /\ PoolKept

\* A close that starts adds its stream to what is closing; the task waits for
\* it when it is the first and there is a socket.
LEMMA CloseWaits ==
  ASSUME TypeOK, NEW t \in Tasks, NEW s \in Streams, Close(t, s)
  PROVE  /\ closing' = closing \cup {s}
         /\ \A u \in Tasks : u # t => waiting'[u] = waiting[u]
         /\ waiting'[t] \in {waiting[t], s}
         /\ s \notin closing /\ socket[s] = "up" => waiting'[t] = s
<1>1. closing' = closing \cup {s}
  BY DEF Close
<1>2. s \notin closing /\ socket[s] = "up" => waiting' = [waiting EXCEPT ![t] = s]
  BY DEF Close
<1>3. ~ (s \notin closing /\ socket[s] = "up") => waiting' = waiting
  BY DEF Close
<1> QED
  BY <1>1, <1>2, <1>3 DEF TypeOK

\* Every step keeps sockets and snapshots in order.
LEMMA SocketsKept ==
  TypeOK /\ SocketOf /\ LeftWasFound /\ [Next]_vars => SocketOf' /\ LeftWasFound'
<1> SUFFICES ASSUME TypeOK, SocketOf, LeftWasFound, [Next]_vars
             PROVE  SocketOf' /\ LeftWasFound'
  OBVIOUS
<1>1. ASSUME NEW s \in Streams, NEW good \in BOOLEAN, Create(s, good)
      PROVE  SocketOf' /\ LeftWasFound'
  BY <1>1 DEF Create, TypeOK, SocketOf, LeftWasFound, Factory
<1>2. ASSUME NEW s \in Streams, Start(s) \/ Started(s) \/ StartFails(s) \/ Leave(s)
      PROVE  SocketOf' /\ LeftWasFound'
  <2>1. /\ waiting' = waiting /\ left' = left /\ found' = found
        /\ \A r \in Streams : r # s => owner'[r] = owner[r] /\ socket'[r] = socket[r]
    BY <1>2 DEF Start, Started, StartFails, Leave, TypeOK, Factory
  <2>2. /\ owner'[s] \notin {"none", "lost", "has"}
        /\ socket'[s] = "dialing" => owner'[s] = "starting"
    BY <1>2 DEF Start, Started, StartFails, Leave, TypeOK, SocketOf
  <2> QED
    BY <2>1, <2>2 DEF SocketOf, LeftWasFound
<1>3. ASSUME NEW s \in Streams, OwnerCloses(s) PROVE SocketOf' /\ LeftWasFound'
  <2>1. s \in Tasks /\ Close(s, s)
    BY <1>3 DEF OwnerCloses, Tasks
  <2>2. \A r \in Streams : waiting'[r] \in {r, NoStream}
    BY <2>1, CloseWaits DEF SocketOf, Tasks
  <2>3. /\ socket' = socket /\ left' = left /\ found' = found
        /\ owner[s] = "leaving" /\ owner'[s] = "left"
        /\ \A r \in Streams : r # s => owner'[r] = owner[r]
    BY <1>3 DEF OwnerCloses, TypeOK, Factory
  <2> QED
    BY <2>2, <2>3 DEF SocketOf, LeftWasFound
<1>4. ASSUME NEW s \in Streams, ReaderEnds(s) PROVE SocketOf' /\ LeftWasFound'
  BY <1>4 DEF ReaderEnds, TypeOK, SocketOf, LeftWasFound, Factory
<1>5. ASSUME NEW t \in Tasks, Closed(t) PROVE SocketOf' /\ LeftWasFound'
  BY <1>5 DEF Closed, TypeOK, SocketOf, LeftWasFound, Factory, Tasks
<1>6. ASSUME NEW t \in Tasks, CloseCancelled(t) PROVE SocketOf' /\ LeftWasFound'
  BY <1>6 DEF CloseCancelled, TypeOK, SocketOf, LeftWasFound, Tasks
<1>7. ASSUME NEW c \in Closers, FactoryCloses(c) PROVE SocketOf' /\ LeftWasFound'
  BY <1>7 DEF FactoryCloses, TypeOK, SocketOf, LeftWasFound
<1>8. ASSUME NEW c \in Closers, CloseNext(c) PROVE SocketOf' /\ LeftWasFound'
  <2>1. PICK s \in left[c] : left' = [left EXCEPT ![c] = @ \ {s}] /\ Close(c, s)
    BY <1>8 DEF CloseNext
  <2>2. s \in Streams /\ c \in Tasks /\ c \notin Streams
    BY StreamFactoryAssumption DEF TypeOK, Tasks
  <2>3. \A r \in Streams : waiting'[r] = waiting[r]
    BY <2>1, <2>2, CloseWaits DEF Tasks
  <2>4. owner' = owner /\ socket' = socket /\ found' = found
    BY <1>8 DEF CloseNext
  <2> QED
    BY <2>1, <2>3, <2>4 DEF SocketOf, LeftWasFound, TypeOK
<1>9. CASE UNCHANGED vars
  BY <1>9 DEF vars, SocketOf, LeftWasFound
<1>10. ASSUME NEW t \in Tasks, Hangs(t) PROVE SocketOf' /\ LeftWasFound'
  BY <1>10 DEF Hangs, SocketOf, LeftWasFound, Factory
<1> QED
  BY <1>1, <1>2, <1>3, <1>4, <1>5, <1>6, <1>7, <1>8, <1>9, <1>10 DEF Next, OwnerStep

\* With owners that are done first, every step keeps what they leave behind.
LEMMA DoneFirstKept == StreamsInv /\ [Next]_vars => DoneFirst'
<1> SUFFICES ASSUME StreamsInv, [Next]_vars, orderly' PROVE DoneFirst'
  BY DEF DoneFirst
<1>0. orderly' = orderly
  BY DEF Next, OwnerStep, vars, Create, Start, Started, StartFails, Leave, OwnerCloses, ReaderEnds,
         Hangs, Closed, CloseCancelled, FactoryCloses, CloseNext
<1>1. /\ \A c \in Closers : \A s \in found[c] : OwnerIsGone(s)
      /\ \A s \in closing : OwnerIsGone(s)
      /\ \A s \in Streams : owner[s] = "left" => s \in closing
      /\ \A s \in closing \ abandoned : socket[s] = "up" => \E t \in Tasks : waiting[t] = s
  BY <1>0 DEF StreamsInv, DoneFirst
<1>2. /\ closing \subseteq Streams
      /\ \A c \in Closers : found[c] \subseteq Streams /\ left[c] \subseteq Streams
      /\ waiting \in [Tasks -> Streams \cup {NoStream}] /\ NoStream \notin Streams
  BY StreamFactoryAssumption DEF StreamsInv, TypeOK
\* Until its close nothing an owner does touches what has no owner.
<1>3. ASSUME NEW s \in Streams, ~ OwnerIsGone(s), owner'[s] # "left",
             \A r \in Streams : r # s => owner'[r] = owner[r] /\ socket'[r] = socket[r],
             UNCHANGED <<closing, waiting, found, abandoned>>
      PROVE  DoneFirst'
  BY <1>1, <1>2, <1>3 DEF OwnerIsGone, DoneFirst
<1>4. ASSUME NEW s \in Streams, NEW good \in BOOLEAN, Create(s, good) PROVE DoneFirst'
  <2>1. ~ OwnerIsGone(s) /\ owner'[s] # "left"
    BY <1>4 DEF Create, OwnerIsGone, StreamsInv, TypeOK
  <2>2. /\ \A r \in Streams : r # s => owner'[r] = owner[r] /\ socket'[r] = socket[r]
        /\ UNCHANGED <<closing, waiting, found, abandoned>>
    BY <1>4 DEF Create, StreamsInv, TypeOK, Factory
  <2> QED
    BY <1>3, <2>1, <2>2
<1>5. ASSUME NEW s \in Streams, Start(s) \/ Started(s) \/ StartFails(s) \/ Leave(s) PROVE DoneFirst'
  <2>1. ~ OwnerIsGone(s) /\ owner'[s] # "left"
    BY <1>5 DEF Start, Started, StartFails, Leave, OwnerIsGone, StreamsInv, TypeOK
  <2>2. /\ \A r \in Streams : r # s => owner'[r] = owner[r] /\ socket'[r] = socket[r]
        /\ UNCHANGED <<closing, waiting, found, abandoned>>
    BY <1>5 DEF Start, Started, StartFails, Leave, StreamsInv, TypeOK, Factory
  <2> QED
    BY <1>3, <2>1, <2>2
<1>6. ASSUME NEW s \in Streams, OwnerCloses(s) PROVE DoneFirst'
  <2>1. s \in Tasks /\ Close(s, s) /\ TypeOK
    BY <1>6 DEF OwnerCloses, Tasks, StreamsInv
  <2>2. /\ closing' = closing \cup {s}
        /\ \A u \in Tasks : u # s => waiting'[u] = waiting[u]
        /\ s \notin closing /\ socket[s] = "up" => waiting'[s] = s
    BY <2>1, CloseWaits
  <2>3. /\ socket' = socket /\ found' = found /\ abandoned' = abandoned
        /\ owner[s] = "leaving" /\ owner'[s] = "left"
        /\ \A r \in Streams : r # s => owner'[r] = owner[r]
    BY <1>6 DEF OwnerCloses, StreamsInv, TypeOK, Factory
  <2>4. s \notin closing /\ waiting[s] \in {s, NoStream}
    BY <1>1, <2>3 DEF OwnerIsGone, StreamsInv, SocketOf
  <2>5. ASSUME NEW r \in closing' \ abandoned', socket'[r] = "up"
        PROVE  \E t \in Tasks : waiting'[t] = r
    <3>1. CASE r = s
      BY <2>1, <2>2, <2>3, <2>4, <2>5, <3>1
    <3>2. CASE r # s
      <4>1. PICK t \in Tasks : waiting[t] = r
        BY <1>1, <2>2, <2>3, <2>5, <3>2
      <4>2. t # s
        BY <1>2, <2>2, <2>4, <2>5, <3>2, <4>1
      <4> QED
        BY <2>2, <4>1, <4>2
    <3> QED
      BY <3>1, <3>2
  <2> QED
    BY <1>1, <1>2, <2>2, <2>3, <2>5 DEF OwnerIsGone, DoneFirst
<1>7. ASSUME NEW s \in Streams, ReaderEnds(s) PROVE DoneFirst'
  <2>1. /\ UNCHANGED <<closing, waiting, found, abandoned, owner>>
        /\ \A r \in Streams : socket'[r] \in {"none", socket[r]}
    BY <1>7 DEF ReaderEnds, StreamsInv, TypeOK, Factory
  <2> QED
    BY <1>1, <1>2, <2>1 DEF OwnerIsGone, DoneFirst
<1>8. ASSUME NEW t \in Tasks, Closed(t) PROVE DoneFirst'
  <2>1. /\ UNCHANGED <<closing, found, abandoned, owner>>
        /\ \A r \in Streams : socket'[r] = IF r = waiting[t] THEN "none" ELSE socket[r]
        /\ \A u \in Tasks : u # t => waiting'[u] = waiting[u]
    BY <1>8 DEF Closed, StreamsInv, TypeOK, Factory
  <2>2. ASSUME NEW r \in closing' \ abandoned', socket'[r] = "up"
        PROVE  \E u \in Tasks : waiting'[u] = r
    <3>1. r \in Streams /\ r # waiting[t]
      BY <1>2, <2>1, <2>2
    <3>2. PICK u \in Tasks : waiting[u] = r
      BY <1>1, <2>1, <2>2, <3>1
    <3> QED
      BY <2>1, <3>1, <3>2
  <2> QED
    BY <1>1, <1>2, <2>1, <2>2 DEF OwnerIsGone, DoneFirst
<1>9. ASSUME NEW t \in Tasks, CloseCancelled(t) PROVE DoneFirst'
  <2>1. /\ UNCHANGED <<closing, found, owner, socket>>
        /\ abandoned \cup {waiting[t]} \subseteq abandoned'
        /\ \A u \in Tasks : u # t => waiting'[u] = waiting[u]
    BY <1>9 DEF CloseCancelled, StreamsInv, TypeOK
  <2>2. ASSUME NEW r \in closing' \ abandoned', socket'[r] = "up"
        PROVE  \E u \in Tasks : waiting'[u] = r
    <3>1. r # waiting[t] /\ r \in closing \ abandoned /\ socket[r] = "up"
      BY <2>1, <2>2
    <3>2. PICK u \in Tasks : waiting[u] = r
      BY <1>1, <3>1
    <3> QED
      BY <2>1, <3>1, <3>2
  <2> QED
    BY <1>1, <1>2, <2>1, <2>2 DEF OwnerIsGone, DoneFirst
\* All that is open has been created, and the owners are done.
<1>10. ASSUME NEW c \in Closers, FactoryCloses(c) PROVE DoneFirst'
  <2>1. /\ UNCHANGED <<closing, owner, socket, waiting, abandoned>>
        /\ \A d \in Closers : found'[d] = IF d = c THEN open ELSE found[d]
    BY <1>10 DEF FactoryCloses, StreamsInv, TypeOK
  <2>2. \A s \in open : s \in Streams /\ owner[s] # "none" /\ Done(s)
    BY <1>0, <1>10 DEF FactoryCloses, StreamsInv, TypeOK, Fresh
  <2>3. \A s \in open : OwnerIsGone(s)
    BY <2>2 DEF Done, OwnerIsGone
  <2> QED
    BY <1>1, <1>2, <2>1, <2>3 DEF OwnerIsGone, DoneFirst
<1>11. ASSUME NEW c \in Closers, CloseNext(c) PROVE DoneFirst'
  <2>1. PICK s \in left[c] : Close(c, s)
    BY <1>11 DEF CloseNext
  <2>2. s \in Streams /\ c \in Tasks /\ OwnerIsGone(s) /\ TypeOK
    BY <1>1, <1>2 DEF StreamsInv, LeftWasFound, Tasks
  <2>3. /\ closing' = closing \cup {s}
        /\ \A u \in Tasks : u # c => waiting'[u] = waiting[u]
        /\ s \notin closing /\ socket[s] = "up" => waiting'[c] = s
    BY <2>1, <2>2, CloseWaits
  <2>4. UNCHANGED <<owner, socket, found, abandoned>> /\ waiting[c] = NoStream
    BY <1>11 DEF CloseNext
  <2>5. ASSUME NEW r \in closing' \ abandoned', socket'[r] = "up"
        PROVE  \E t \in Tasks : waiting'[t] = r
    <3>1. CASE r \notin closing
      BY <2>2, <2>3, <2>4, <2>5, <3>1
    <3>2. CASE r \in closing
      <4>1. PICK t \in Tasks : waiting[t] = r
        BY <1>1, <2>4, <2>5, <3>2
      <4>2. t # c
        BY <1>2, <2>4, <3>2, <4>1
      <4> QED
        BY <2>3, <4>1, <4>2
    <3> QED
      BY <3>1, <3>2
  <2> QED
    BY <1>1, <1>2, <2>2, <2>3, <2>4, <2>5 DEF OwnerIsGone, DoneFirst
<1>12. CASE UNCHANGED vars
  BY <1>1, <1>12 DEF vars, OwnerIsGone, DoneFirst
<1>13. ASSUME NEW t \in Tasks, Hangs(t) PROVE DoneFirst'
  BY <1>1, <1>13 DEF Hangs, OwnerIsGone, DoneFirst, Factory
<1> QED
  BY <1>4, <1>5, <1>6, <1>7, <1>8, <1>9, <1>10, <1>11, <1>12, <1>13 DEF Next, OwnerStep

-----------------------------------------------------------------------------
\* The client.

\* Every step of the client keeps its types: one client is made, and it is the
\* one that is closed.
LEMMA ClientTypesKept == ClientTypeOK /\ PoolKept /\ [ClientNext]_clientVars => ClientTypeOK' /\ PoolKept'
<1> SUFFICES ASSUME ClientTypeOK, PoolKept, [ClientNext]_clientVars PROVE ClientTypeOK' /\ PoolKept'
  OBVIOUS
<1>1. TypeOK'
  BY ClientSteps, TypesKept DEF ClientTypeOK
<1>2. ASSUME NEW credential \in Credentials, NEW injected \in BOOLEAN,
             Assemble(credential, injected)
      PROVE  ClientTypeOK' /\ PoolKept'
  <2>1. /\ client = "none" /\ owned = FALSE /\ stage' = stage
        /\ \A c \in Closers : stage[c] = "out"
    BY <1>2 DEF Assemble, ClientTypeOK
  <2>2. pool' = [by |-> IF injected THEN "caller" ELSE "factory", open |-> TRUE]
    BY <1>2 DEF Assemble
  <2>3. \/ client' = "client" /\ owned' = ~ injected
        \/ client' = "raised" /\ owned' = FALSE
    <3>1. CASE Provider(credential).ok
      <4>1. client' = "client" /\ owned' = ~ injected
        BY <1>2, <3>1, Zenon DEF Assemble
      <4> QED
        BY <4>1, Zenon
    <3>2. CASE ~ Provider(credential).ok
      <4>1. client' = "raised" /\ owned' = owned
        BY <1>2, <3>2, Zenon DEF Assemble
      <4> QED
        BY <2>1, <4>1
    <3> QED
      BY <3>1, <3>2, Zenon
  <2> QED
    BY <1>1, <2>1, <2>2, <2>3 DEF ClientTypeOK, PoolKept
<1>3. ASSUME client' = client, owned' = owned, pool' = pool,
             \/ stage' = stage
             \/ \E c \in Closers, p \in {"streams", "cancelled"} :
                    client = "client" /\ stage' = [stage EXCEPT ![c] = p]
      PROVE  ClientTypeOK' /\ PoolKept'
  BY <1>1, <1>3 DEF ClientTypeOK, PoolKept
<1>4. ASSUME NEW c \in Closers, CloseClient(c) PROVE ClientTypeOK' /\ PoolKept'
  BY <1>3, <1>4 DEF CloseClient
<1>5. ASSUME NEW c \in Closers, ClosePool(c) PROVE ClientTypeOK' /\ PoolKept'
  <2>1. /\ client' = client /\ owned' = owned /\ client = "client"
        /\ stage' = [stage EXCEPT ![c] = "closed"]
    BY <1>5 DEF ClosePool, ClientTypeOK
  <2>2. \/ pool' = pool
        \/ owned /\ pool' = [pool EXCEPT !.open = FALSE]
    <3>1. owned \in BOOLEAN /\ pool.open \in BOOLEAN
      BY DEF ClientTypeOK
    <3>2. CASE owned
      <4>1. (pool.open /\ ~ owned) = FALSE
        BY <3>2
      <4> QED
        BY <1>5, <3>2, <4>1 DEF ClosePool
    <3>3. CASE ~ owned
      <4> DEFINE still == pool.open /\ ~ owned
      <4>1. pool' = [pool EXCEPT !.open = still]
        BY <1>5 DEF ClosePool
      <4>2. still = pool.open
        BY <3>1, <3>3
      <4>3. pool \in [by : {"none", "factory", "caller"}, open : BOOLEAN]
        BY DEF ClientTypeOK
      <4> HIDE DEF still
      <4>4. pool' = pool
        BY <4>1, <4>2, <4>3
      <4> QED
        BY <4>4
    <3> QED
      BY <3>2, <3>3
  <2>3. CASE pool' = pool
    BY <1>1, <2>1, <2>3 DEF ClientTypeOK, PoolKept
  <2>4. CASE owned /\ pool' = [pool EXCEPT !.open = FALSE]
    <3>1. pool' \in [by : {"none", "factory", "caller"}, open : BOOLEAN] /\ pool'.by = pool.by
      BY <2>4 DEF ClientTypeOK
    <3> QED
      BY <1>1, <2>1, <2>4, <3>1 DEF ClientTypeOK, PoolKept
  <2> QED
    BY <2>2, <2>3, <2>4
<1>6. ASSUME NEW c \in Closers, CancelClient(c) PROVE ClientTypeOK' /\ PoolKept'
  <2>1. client = "client"
    BY <1>6 DEF CancelClient, ClientTypeOK
  <2> QED
    BY <1>3, <1>6, <2>1 DEF CancelClient
<1>7. ASSUME NEW s \in Streams, StreamStep(OwnerStep(s) \/ Hangs(s) \/ Closed(s) \/ CloseCancelled(s))
      PROVE  ClientTypeOK' /\ PoolKept'
  BY <1>3, <1>7 DEF StreamStep
<1>8. ASSUME NEW c \in Closers, StreamStep(Hangs(c) \/ Closed(c) \/ CloseNext(c)) PROVE ClientTypeOK' /\ PoolKept'
  BY <1>3, <1>8 DEF StreamStep
<1>9. CASE UNCHANGED clientVars
  BY <1>3, <1>9 DEF clientVars
<1> QED
  BY <1>2, <1>4, <1>5, <1>6, <1>7, <1>8, <1>9 DEF ClientNext

\* A step of the streams leaves every task as the stages say.
LEMMA StagesOfTasks ==
  ASSUME TypeOK, Stages, NEW c \in Closers, stage' = stage,
         \/ \E s \in Streams : OwnerStep(s) \/ Hangs(s) \/ Closed(s) \/ CloseCancelled(s)
         \/ \E d \in Closers : Hangs(d) \/ Closed(d) \/ CloseNext(d)
         \/ UNCHANGED vars
  PROVE  /\ stage'[c] = "out" => found'[c] = {}
         /\ stage'[c] # "streams" => left'[c] = {} /\ waiting'[c] = NoStream
<1>0. c \in Tasks /\ c \notin Streams
  BY StreamFactoryAssumption DEF Tasks
<1>1. ASSUME found' = found, left'[c] = left[c],
             waiting'[c] = waiting[c] \/ waiting'[c] = NoStream
      PROVE  /\ stage'[c] = "out" => found'[c] = {}
             /\ stage'[c] # "streams" => left'[c] = {} /\ waiting'[c] = NoStream
  BY <1>1 DEF Stages
<1>2. ASSUME NEW s \in Streams, OwnerStep(s)
      PROVE  found' = found /\ left' = left /\ waiting'[c] = waiting[c]
  <2>1. CASE OwnerCloses(s)
    <3>1. s \in Tasks /\ Close(s, s)
      BY <2>1 DEF OwnerCloses, Tasks
    <3> QED
      BY <1>0, <2>1, <3>1, CloseWaits DEF OwnerCloses, Factory
  <2>2. CASE ~ OwnerCloses(s)
    BY <1>2, <2>2 DEF OwnerStep, Create, Start, Started, StartFails, Leave, ReaderEnds, Factory
  <2> QED
    BY <2>1, <2>2
<1>3. ASSUME NEW t \in Tasks, Closed(t)
      PROVE  found' = found /\ left' = left /\ (waiting'[c] = waiting[c] \/ waiting'[c] = NoStream)
  BY <1>0, <1>3 DEF Closed, TypeOK, Factory
<1>9. ASSUME NEW t \in Tasks, Hangs(t)
      PROVE  found' = found /\ left' = left /\ waiting'[c] = waiting[c]
  BY <1>9 DEF Hangs, Factory
<1>4. ASSUME NEW s \in Streams, CloseCancelled(s)
      PROVE  found' = found /\ left' = left /\ waiting'[c] = waiting[c]
  BY <1>0, <1>4, StreamFactoryAssumption DEF CloseCancelled, TypeOK, Tasks
<1>5. ASSUME NEW d \in Closers, CloseNext(d)
      PROVE  /\ stage'[c] = "out" => found'[c] = {}
             /\ stage'[c] # "streams" => left'[c] = {} /\ waiting'[c] = NoStream
  <2>1. PICK s \in left[d] : left' = [left EXCEPT ![d] = @ \ {s}] /\ Close(d, s)
    BY <1>5 DEF CloseNext
  <2>2. s \in Streams /\ d \in Tasks /\ found' = found /\ stage[d] = "streams"
    BY <1>5, <2>1 DEF TypeOK, Tasks, Stages, CloseNext
  <2>3. c # d => left'[c] = left[c] /\ waiting'[c] = waiting[c]
    BY <1>0, <2>1, <2>2, CloseWaits DEF TypeOK
  <2> QED
    BY <1>1, <2>2, <2>3 DEF Stages, TypeOK
<1>6. ASSUME UNCHANGED vars PROVE found' = found /\ left' = left /\ waiting'[c] = waiting[c]
  BY <1>6 DEF vars
<1>7. ASSUME NEW s \in Streams, OwnerStep(s) \/ Hangs(s) \/ Closed(s) \/ CloseCancelled(s)
      PROVE  /\ stage'[c] = "out" => found'[c] = {}
             /\ stage'[c] # "streams" => left'[c] = {} /\ waiting'[c] = NoStream
  BY <1>1, <1>2, <1>3, <1>4, <1>7, <1>9 DEF Tasks
<1>8. ASSUME NEW d \in Closers, Hangs(d) \/ Closed(d) \/ CloseNext(d)
      PROVE  /\ stage'[c] = "out" => found'[c] = {}
             /\ stage'[c] # "streams" => left'[c] = {} /\ waiting'[c] = NoStream
  BY <1>1, <1>3, <1>5, <1>8, <1>9 DEF Tasks
<1> QED
  BY <1>1, <1>6, <1>7, <1>8

\* Every step of the client keeps the stages.
LEMMA StagesKept == ClientTypeOK /\ Stages /\ [ClientNext]_clientVars => Stages'
<1> SUFFICES ASSUME ClientTypeOK, Stages, [ClientNext]_clientVars PROVE Stages'
  OBVIOUS
<1>0. TypeOK
  BY DEF ClientTypeOK
<1>1. ASSUME stage' = stage,
             \/ \E s \in Streams : OwnerStep(s) \/ Hangs(s) \/ Closed(s) \/ CloseCancelled(s)
             \/ \E d \in Closers : Hangs(d) \/ Closed(d) \/ CloseNext(d)
             \/ UNCHANGED vars
      PROVE  Stages'
  <2> SUFFICES ASSUME NEW c \in Closers
               PROVE  /\ stage'[c] = "out" => found'[c] = {}
                      /\ stage'[c] # "streams" => left'[c] = {} /\ waiting'[c] = NoStream
    BY DEF Stages
  <2> QED
    BY <1>0, <1>1, StagesOfTasks
<1>2. ASSUME NEW credential \in Credentials, NEW injected \in BOOLEAN,
             Assemble(credential, injected)
      PROVE  Stages'
  BY <1>1, <1>2 DEF Assemble
<1>3. ASSUME NEW c \in Closers, CloseClient(c) PROVE Stages'
  <2>1. /\ waiting' = waiting
        /\ stage'[c] = "streams"
        /\ \A d \in Closers : d # c => stage'[d] = stage[d]
    BY <1>3 DEF CloseClient, FactoryCloses, vars, ClientTypeOK
  <2>2. \A d \in Closers : d # c => left'[d] = left[d] /\ found'[d] = found[d]
    BY <1>0, <1>3 DEF CloseClient, FactoryCloses, vars, TypeOK
  <2> QED
    BY <2>1, <2>2 DEF Stages
<1>4. ASSUME NEW c \in Closers, ClosePool(c) PROVE Stages'
  <2>1. /\ left' = left /\ found' = found /\ waiting' = waiting
        /\ left[c] = {} /\ waiting[c] = NoStream
        /\ stage'[c] = "closed"
        /\ \A d \in Closers : d # c => stage'[d] = stage[d]
    BY <1>4 DEF ClosePool, StreamsClosed, vars, ClientTypeOK
  <2> QED
    BY <2>1 DEF Stages
<1>5. ASSUME NEW c \in Closers, CancelClient(c) PROVE Stages'
  <2>1. /\ CloseCancelled(c) /\ found' = found
        /\ stage'[c] = "cancelled"
        /\ \A d \in Closers : d # c => stage'[d] = stage[d]
    BY <1>5 DEF CancelClient, CloseCancelled, ClientTypeOK
  <2>2. /\ left'[c] = {} /\ waiting'[c] = NoStream
        /\ \A d \in Closers : d # c => left'[d] = left[d] /\ waiting'[d] = waiting[d]
    BY <1>0, <2>1 DEF CloseCancelled, TypeOK, Tasks
  <2> QED
    BY <2>1, <2>2 DEF Stages
<1>6. ASSUME NEW s \in Streams, StreamStep(OwnerStep(s) \/ Hangs(s) \/ Closed(s) \/ CloseCancelled(s))
      PROVE  Stages'
  BY <1>1, <1>6 DEF StreamStep
<1>7. ASSUME NEW c \in Closers, StreamStep(Hangs(c) \/ Closed(c) \/ CloseNext(c)) PROVE Stages'
  BY <1>1, <1>7 DEF StreamStep
<1>8. CASE UNCHANGED clientVars
  BY <1>1, <1>8 DEF clientVars
<1> QED
  BY <1>2, <1>3, <1>4, <1>5, <1>6, <1>7, <1>8 DEF ClientNext

\* The invariant holds at first and is kept.
LEMMA ClientInvariant == ClientSpec => []ClientIInv
<1>1. ClientInit => ClientIInv
  <2> SUFFICES ASSUME ClientInit PROVE ClientIInv
    OBVIOUS
  <2>1. Init
    BY DEF ClientInit
  <2>2. TypeOK
    BY <2>1 DEF Init, TypeOK, Owner
  <2>3. Fresh /\ SocketOf /\ LeftWasFound /\ DoneFirst
    BY <2>1 DEF Init, Fresh, SocketOf, LeftWasFound, DoneFirst, Tasks
  <2>4. ClientTypeOK /\ PoolKept
    BY <2>2 DEF ClientInit, ClientTypeOK, PoolKept
  <2>5. Stages
    BY <2>1 DEF ClientInit, Init, Stages, Tasks
  <2> QED
    BY <2>2, <2>3, <2>4, <2>5 DEF ClientIInv, StreamsInv
<1>2. ClientIInv /\ [ClientNext]_clientVars => ClientIInv'
  BY ClientSteps, TypesKept, FreshKept, SocketsKept, DoneFirstKept, ClientTypesKept, StagesKept
  DEF ClientIInv, StreamsInv
<1> QED
  BY <1>1, <1>2, PTL DEF ClientSpec

\* Whoever closes found a client, one is made, and the pool it owns is the one
\* the factory made for it.
THEOREM ClientTypeCorrect == ClientSpec => []ClientTypeOK
  BY ClientInvariant, PTL DEF ClientIInv

\* The pool is closed after the streams that get their tokens through it, by
\* whoever has closed all it found; a pool that was given is not closed.
THEOREM PoolIsLast == ClientSpec => []PoolOutlivesStreams
<1>1. ClientIInv /\ FoundReleased => PoolOutlivesStreams
  <2> SUFFICES ASSUME ClientIInv, FoundReleased, pool.by # "none" /\ ~ pool.open
               PROVE  /\ pool.by = "factory"
                      /\ \A c \in Closers : stage[c] = "closed" => \A s \in found[c] \ abandoned :
                          /\ s \notin open
                          /\ orderly /\ socket[s] # "none" => \E t \in Tasks : waiting[t] = s
    BY DEF PoolOutlivesStreams
  <2>1. pool.by = "factory"
    BY DEF ClientIInv, PoolKept, ClientTypeOK
  <2>2. ASSUME NEW c \in Closers, stage[c] = "closed", NEW s \in found[c] \ abandoned
        PROVE  /\ s \notin open
               /\ orderly /\ socket[s] # "none" => \E t \in Tasks : waiting[t] = s
    <3>1. left[c] = {} /\ waiting[c] = NoStream
      BY <2>2 DEF ClientIInv, Stages
    <3>2. s \notin open
      BY <3>1 DEF FoundReleased
    <3>3. ASSUME orderly, socket[s] # "none" PROVE \E t \in Tasks : waiting[t] = s
      <4>1. s \in Streams /\ socket[s] \in {"dialing", "up"}
        BY <3>3 DEF ClientIInv, StreamsInv, TypeOK
      <4>2. OwnerIsGone(s)
        BY <3>3 DEF ClientIInv, StreamsInv, DoneFirst
      <4>3. owner[s] = "left" /\ socket[s] = "up"
        BY <4>1, <4>2, <3>3 DEF OwnerIsGone, ClientIInv, StreamsInv, SocketOf
      <4> QED
        BY <3>3, <4>1, <4>3 DEF ClientIInv, StreamsInv, DoneFirst
    <3> QED
      BY <3>2, <3>3
  <2> QED
    BY <2>1, <2>2
<1> QED
  BY <1>1, ClientInvariant, ClientIsAFactory, FoundAreReleased, PTL
=============================================================================

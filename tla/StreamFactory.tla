---------------------------- MODULE StreamFactory ----------------------------
(***************************************************************************)
(* bacsy.ws.factory.StreamFactory and bacsy.ws.stream.BaseStream: streams  *)
(* counted against ConnectionBudget from their creation to their close.    *)
(*                                                                         *)
(* The owner of a stream creates it, enters it with async with and leaves  *)
(* it; closers are tasks in StreamFactory.aclose.  Of the connection, which*)
(* WebSocketConnection has, only its socket and the flag of its aclose     *)
(* matter: the first call closes the socket and waits for the reader,      *)
(* which may be for ever, and every other call returns at once.  While the *)
(* reader connects again the stream counts as having its socket.           *)
(***************************************************************************)
EXTENDS Naturals, FiniteSets

CONSTANTS
    Streams,     \* streams that may be created
    Services,    \* Service
    ServiceOf,   \* the service of each stream
    Caps,        \* DEFAULT_CONNECTION_CAPS: the caps of the services that have one
    Enforce,     \* enforce_connection_caps
    MarketData,  \* Service.MARKET_DATA: its streams have keys and an on_open hook
    Closers,     \* tasks that call StreamFactory.aclose
    NoStream     \* a value that is no stream

ASSUME StreamFactoryAssumption ==
    /\ IsFiniteSet(Streams)
    /\ ServiceOf \in [Streams -> Services]
    /\ \E capped \in SUBSET Services : Caps \in [capped -> Nat]
    /\ Enforce \in BOOLEAN
    /\ Streams \cap Closers = {}
    /\ NoStream \notin Streams

VARIABLES
    orderly,    \* the factory is closed when the owners are done with their streams
    inUse,      \* ConnectionBudget._open
    open,       \* StreamFactory._open
    uncalled,   \* streams whose _on_close has not run
    owner,      \* where the owner of each stream is
    socket,     \* the socket of each stream's connection
    closing,    \* streams with connection._closing
    waiting,    \* the stream a task waits for in the aclose of its connection
    hanging,    \* streams waited for whose reader does not end: see Hangs
    left,       \* what is left of the snapshot a closer iterates over
    found,      \* history: that snapshot
    abandoned   \* history: streams whose close was cancelled

vars == <<orderly, inUse, open, uncalled, owner, socket, closing, waiting, hanging, left, found,
          abandoned>>

Budget == <<inUse, open, uncalled>>
Factory == <<left, found>>
Tasks  == Streams \cup Closers

Init ==
    /\ orderly \in BOOLEAN
    /\ inUse = [v \in Services |-> 0]
    /\ open = {} /\ uncalled = {}
    /\ owner = [s \in Streams |-> "none"]
    /\ socket = [s \in Streams |-> "none"]
    /\ closing = {}
    /\ waiting = [t \in Tasks |-> NoStream]
    /\ hanging = {}
    /\ left = [c \in Closers |-> {}] /\ found = [c \in Closers |-> {}]
    /\ abandoned = {}

-----------------------------------------------------------------------------
\* ConnectionBudget.acquire and release.

\* Mutant of Room: one connection more than the cap.
RoomForOneMore(v) == Enforce /\ v \in DOMAIN Caps => inUse[v] <= Caps[v]

Room(v) == Enforce /\ v \in DOMAIN Caps => inUse[v] < Caps[v]

OneLess(n) == IF n = 0 THEN 0 ELSE n - 1

\* _on_close, once, which is StreamFactory._release.
Release(s) ==
    IF s \in uncalled
    THEN /\ inUse' = [inUse EXCEPT ![ServiceOf[s]] = OneLess(@)]
         /\ open' = open \ {s}
         /\ uncalled' = uncalled \ {s}
    ELSE UNCHANGED Budget

-----------------------------------------------------------------------------
\* The owner of a stream.

\* market_data and _push_stream, up to the cap.  quotes and its kind raise for
\* keys that are none after they have created the stream: nobody has it then.
Create(s, keysAreGood) ==
    /\ owner[s] = "none"
    /\ Room(ServiceOf[s])
    /\ keysAreGood \/ ServiceOf[s] = MarketData
    /\ inUse' = [inUse EXCEPT ![ServiceOf[s]] = @ + 1]
    /\ open' = open \cup {s} /\ uncalled' = uncalled \cup {s}
    /\ owner' = [owner EXCEPT ![s] = IF keysAreGood THEN "has" ELSE "lost"]
    /\ UNCHANGED <<orderly, hanging, socket, closing, waiting, Factory, abandoned>>

\* __aenter__, which does not look whether the connection has been closed.
Start(s) ==
    /\ owner[s] = "has"
    /\ owner' = [owner EXCEPT ![s] = "starting"]
    /\ socket' = [socket EXCEPT ![s] = "dialing"]
    /\ UNCHANGED <<orderly, hanging, Budget, closing, waiting, Factory, abandoned>>

Started(s) ==
    /\ owner[s] = "starting"
    /\ owner' = [owner EXCEPT ![s] = "using"]
    /\ socket' = [socket EXCEPT ![s] = "up"]
    /\ UNCHANGED <<orderly, hanging, Budget, closing, waiting, Factory, abandoned>>

\* The handshake fails or is cancelled, or the hook fails and the socket stays:
\* __aenter__ closes the stream.
StartFails(s) ==
    /\ owner[s] = "starting"
    /\ owner' = [owner EXCEPT ![s] = "leaving"]
    /\ \E left_over \in {"none", "up"} :
        /\ left_over = "up" => ServiceOf[s] = MarketData
        /\ socket' = [socket EXCEPT ![s] = left_over]
    /\ UNCHANGED <<orderly, hanging, Budget, closing, waiting, Factory, abandoned>>

\* The body of async with ends.
Leave(s) ==
    /\ owner[s] = "using"
    /\ owner' = [owner EXCEPT ![s] = "leaving"]
    /\ UNCHANGED <<orderly, hanging, Budget, socket, closing, waiting, Factory, abandoned>>

-----------------------------------------------------------------------------
\* BaseStream.aclose, by its owner or a closer.

\* Mutant of Close: without a socket there is nothing to do.
CloseConnectedOnly(t, s) ==
    /\ closing' = closing \cup {s}
    /\ waiting' = IF s \notin closing /\ socket[s] = "up" THEN [waiting EXCEPT ![t] = s] ELSE waiting
    /\ UNCHANGED Budget

\* Until the await in the connection's aclose, or to the end: a call that is
\* not the first, or that finds neither socket nor reader, does not wait.
Close(t, s) ==
    /\ closing' = closing \cup {s}
    /\ IF s \notin closing /\ socket[s] = "up"
       THEN waiting' = [waiting EXCEPT ![t] = s] /\ UNCHANGED Budget
       ELSE Release(s) /\ UNCHANGED waiting

OwnerCloses(s) ==
    /\ owner[s] = "leaving"
    /\ owner' = [owner EXCEPT ![s] = "left"]
    /\ Close(s, s)
    /\ UNCHANGED <<orderly, hanging, socket, Factory, abandoned>>

\* The socket is closed and the reader does not end: it waits to put a frame in a full
\* queue that nobody reads, or reads a socket that opened while aclose was under way.
Hangs(t) ==
    /\ waiting[t] # NoStream
    /\ hanging' = hanging \cup {waiting[t]}
    /\ UNCHANGED <<orderly, Budget, owner, socket, closing, waiting, Factory, abandoned>>

\* The connection's aclose returns: its socket is closed and its reader has ended, of
\* itself, because somebody read the queue after all, or because the task that waits for
\* it was cancelled, which cancels the reader and goes no further.
Closed(t) ==
    /\ waiting[t] # NoStream
    /\ LET s == waiting[t] IN
       /\ socket' = [socket EXCEPT ![s] = "none"]
       /\ Release(s)
    /\ waiting' = [waiting EXCEPT ![t] = NoStream]
    /\ hanging' = hanging \ {waiting[t]}
    /\ UNCHANGED <<orderly, owner, closing, Factory, abandoned>>

\* A task is cancelled while the socket closes: the callback does not run.  A
\* closer gives up the rest of its streams, too.
CloseCancelled(t) ==
    /\ waiting[t] # NoStream /\ waiting[t] \notin hanging
    /\ abandoned' = abandoned \cup {waiting[t]} \cup (IF t \in Closers THEN left[t] ELSE {})
    /\ waiting' = [waiting EXCEPT ![t] = NoStream]
    /\ left' = IF t \in Closers THEN [left EXCEPT ![t] = {}] ELSE left
    /\ UNCHANGED <<orderly, hanging, Budget, owner, socket, closing, found>>

\* The reader of a connection that is closed loses the socket: it ends.
ReaderEnds(s) ==
    /\ s \in closing /\ socket[s] = "up"
    /\ \A t \in Tasks : waiting[t] # s
    /\ socket' = [socket EXCEPT ![s] = "none"]
    /\ UNCHANGED <<orderly, hanging, Budget, owner, closing, waiting, Factory, abandoned>>

-----------------------------------------------------------------------------
\* StreamFactory.aclose.

Done(s) == owner[s] \in {"none", "lost", "left"} /\ waiting[s] = NoStream

\* list(self._open).  With no stream there is nothing to do.
FactoryCloses(c) ==
    /\ found[c] = {}
    /\ orderly => \A s \in Streams : Done(s)
    /\ open # {}
    /\ left' = [left EXCEPT ![c] = open]
    /\ found' = [found EXCEPT ![c] = open]
    /\ UNCHANGED <<orderly, hanging, Budget, owner, socket, closing, waiting, abandoned>>

\* One stream after the other, in the order of a set.
CloseNext(c) ==
    /\ waiting[c] = NoStream
    /\ \E s \in left[c] :
        /\ left' = [left EXCEPT ![c] = @ \ {s}]
        /\ Close(c, s)
    /\ UNCHANGED <<orderly, hanging, owner, socket, found, abandoned>>

OwnerStep(s) ==
    \/ \E keysAreGood \in BOOLEAN : Create(s, keysAreGood)
    \/ Start(s) \/ Started(s) \/ StartFails(s) \/ Leave(s) \/ OwnerCloses(s)
    \/ ReaderEnds(s)

Next ==
    \/ \E s \in Streams : OwnerStep(s)
    \/ \E t \in Tasks : Hangs(t) \/ Closed(t) \/ CloseCancelled(t)
    \/ \E c \in Closers : FactoryCloses(c) \/ CloseNext(c)

Spec == Init /\ [][Next]_vars

-----------------------------------------------------------------------------
Owner == {"none", "lost", "has", "starting", "using", "leaving", "left"}

\* The types of the budget, the factory and the tasks.
TypeOK ==
    /\ orderly \in BOOLEAN
    /\ inUse \in [Services -> Nat]
    /\ open \subseteq Streams /\ uncalled \subseteq Streams
    /\ owner \in [Streams -> Owner]
    /\ socket \in [Streams -> {"none", "dialing", "up"}]
    /\ closing \subseteq Streams
    /\ waiting \in [Tasks -> Streams \cup {NoStream}]
    /\ hanging \subseteq Streams
    /\ left \in [Closers -> SUBSET Streams] /\ found \in [Closers -> SUBSET Streams]
    /\ abandoned \subseteq Streams

Of(v) == {s \in uncalled : ServiceOf[s] = v}

\* A stream is counted from its creation to its close and once only, whoever
\* closes it and how often: what is in use is what is open, and within the cap.
CountExact ==
    /\ open = uncalled
    /\ \A v \in Services :
        /\ inUse[v] = Cardinality(Of(v))
        /\ Enforce /\ v \in DOMAIN Caps => inUse[v] <= Caps[v]

\* "Close every open stream this factory created": when a closer has returned,
\* what it found is released, although others closed or cancelled meanwhile.
FoundReleased ==
    \A c \in Closers :
        left[c] = {} /\ waiting[c] = NoStream => found[c] \cap open \subseteq abandoned

HangsIn(t) == waiting[t] \in hanging

\* Who leaves a stream, entered or not, gives its connection back, unless the
\* close is cancelled or the owner waits in it for ever.
LeftReleased ==
    \A s \in Streams :
        owner[s] = "leaving" ~> s \notin uncalled \/ s \in abandoned \/ HangsIn(s)
=============================================================================

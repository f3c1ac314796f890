------------------------- MODULE WebSocketConnection -------------------------
(***************************************************************************)
(* bacsy.ws.connection.WebSocketConnection: one socket kept alive behind a *)
(* bounded queue of frames.                                                *)
(*                                                                         *)
(* Four tasks share the object: the caller of `start`, the reader task     *)
(* `_run` that reads, backs off and reconnects, the consumer that calls    *)
(* `next_frame`, and the callers of `aclose`.  asyncio switches between    *)
(* them only at an await, so an action is the code from one await to the   *)
(* next.  The server, or the network, may drop a socket at any time.       *)
(* `start` is called again after one that failed or was cancelled, and by  *)
(* another task while the first call connects; two reader tasks at once,   *)
(* as when both of these calls succeed, are not modelled.                  *)
(*                                                                         *)
(* Sockets are numbered from 1 in the order they open, frames are numbered *)
(* in the order each socket delivers them; a payload is nothing else.      *)
(* Frames that are not JSON are dropped by the reader without a trace and  *)
(* are not numbered.                                                       *)
(***************************************************************************)
EXTENDS Integers, Sequences

CONSTANTS
    Closers,           \* the tasks that call aclose
    Settings,          \* the settings a connection is tried with
    Unlimited,         \* stands for max_attempts = None
    LastDelay,         \* the last attempt whose delay is a number: 1024 in the code
    MaxSockets,        \* bound: sockets that open
    MaxFrames          \* bound: frames per socket

\* StreamOptions and ReconnectPolicy, and how the callers of the connection
\* behave: `orderly` ones call aclose only after start has returned and start
\* only before aclose, and `timeouts` tells whether they put one on aclose.
Setting ==
    [queueSize : Nat \ {0}, block : BOOLEAN, reconnect : BOOLEAN,
     maxAttempts : Nat \cup {Unlimited}, orderly : BOOLEAN, timeouts : BOOLEAN]

ASSUME ConnectionAssumption ==
    /\ Settings \subseteq Setting
    /\ LastDelay \in Nat \ {0}
    /\ MaxSockets \in Nat \ {0}
    /\ MaxFrames \in Nat

VARIABLES
    set,       \* the settings of this connection
    state,     \* self.state
    ws,        \* self._ws: a socket, or 0 for None
    up,        \* the sockets that are open
    opened,    \* how many sockets have opened
    left,      \* history: sockets that a cancelled or overlapped start has left open
    queue,     \* self._queue
    dropped,   \* self.dropped_frames
    closing,   \* self._closing
    starter,   \* the caller of start
    reader,    \* where the reader task is
    dial,      \* where the _connect in progress is
    attempt,   \* attempts of the current outage
    got,       \* frames read from the current socket
    cancelled, \* task.cancel() was called and has not taken effect
    closer,    \* where each caller of aclose is
    target,    \* the socket aclose found and is closing
    last,      \* history: the last frame the consumer got
    ended      \* history: the last end the consumer saw

vars == <<set, state, ws, up, opened, left, queue, dropped, closing, starter, reader,
          dial, attempt, got, cancelled, closer, target, last, ended>>

Buffer  == <<queue, dropped>>
Sockets == <<up, opened, left>>
Task    == <<reader, dial, attempt, got, cancelled>>
Closing == <<closer, target>>
Seen    == <<last, ended>>

Frame(k, n)  == [kind |-> "frame", conn |-> k, n |-> n]
Reconnected  == [kind |-> "reconnected", conn |-> 0, n |-> 0]
End(kind)    == [kind |-> kind, conn |-> 0, n |-> 0]
Ends         == {"error", "stop"}

Init ==
    /\ set \in Settings
    /\ state = "IDLE" /\ ws = 0 /\ up = {} /\ opened = 0 /\ left = {}
    /\ queue = <<>> /\ dropped = 0
    /\ closing = FALSE
    /\ starter = "idle" /\ reader = "none" /\ dial = "no"
    /\ attempt = 0 /\ got = 0 /\ cancelled = FALSE
    /\ closer = [c \in Closers |-> "idle"] /\ target = 0
    /\ last = [conn |-> 1, n |-> 0, marked |-> FALSE, dropped |-> 0]
    /\ ended = "no"

-----------------------------------------------------------------------------
\* The queue.

Full == Len(queue) >= set.queueSize

\* Mutants of Push: the new item put before the rest; the eviction not counted.
PushWrongEnd(item) ==
    IF Full THEN /\ queue' = <<item>> \o Tail(queue)
                 /\ dropped' = dropped + 1
            ELSE /\ queue' = Append(queue, item)
                 /\ UNCHANGED dropped

PushUncounted(item) ==
    /\ queue' = IF Full THEN Append(Tail(queue), item) ELSE Append(queue, item)
    /\ UNCHANGED dropped

\* _push: never waits; a full queue loses its oldest item.
Push(item) ==
    \/ /\ ~ Full
       /\ queue' = Append(queue, item)
       /\ UNCHANGED dropped
    \/ /\ Full
       /\ queue' = Append(Tail(queue), item)
       /\ dropped' = dropped + 1

\* _finish
Finish(kind) ==
    /\ state' = "CLOSED"
    /\ Push(End(kind))

\* Mutant of NextFrame: the end is taken and not put back.
NextFrameTakesEnd ==
    /\ queue # <<>>
    /\ queue' = Tail(queue)
    /\ LET item == Head(queue) IN
       /\ ended' = IF item.kind \in Ends THEN item.kind ELSE ended
       /\ last' = IF item.kind = "reconnected" THEN [last EXCEPT !.marked = TRUE]
                  ELSE IF item.kind = "frame"
                       THEN [conn |-> item.conn, n |-> item.n, marked |-> FALSE,
                             dropped |-> dropped]
                       ELSE last
    /\ UNCHANGED <<state, ws, Sockets, dropped, closing, starter, Task, Closing>>

\* next_frame: an end marker goes back to the end of the queue.
NextFrame ==
    /\ queue # <<>>
    /\ LET item == Head(queue) IN
       \/ /\ item.kind \in Ends
          /\ queue' = Append(Tail(queue), item)
          /\ ended' = item.kind
          /\ UNCHANGED last
       \/ /\ item.kind = "reconnected"
          /\ queue' = Tail(queue)
          /\ last' = [last EXCEPT !.marked = TRUE]
          /\ UNCHANGED ended
       \/ /\ item.kind = "frame"
          /\ queue' = Tail(queue)
          /\ last' = [conn |-> item.conn, n |-> item.n, marked |-> FALSE,
                      dropped |-> dropped]
          /\ UNCHANGED ended
    /\ UNCHANGED <<state, ws, Sockets, dropped, closing, starter, Task, Closing>>

-----------------------------------------------------------------------------
\* _connect, run by the caller of start or by the reader task.

Dialing == dial \in {"first", "second"}

\* The token and the handshake succeed: the socket is open and on_open runs.
DialOpens ==
    /\ Dialing
    /\ opened < MaxSockets
    /\ opened' = opened + 1
    /\ up' = up \cup {opened'}
    /\ ws' = opened'
    /\ state' = "OPEN"
    /\ dial' = "opening"
    /\ UNCHANGED <<left, Buffer, closing, starter, reader, attempt, got, cancelled,
                   Closing, Seen>>

\* The handshake is rejected as unauthenticated and the provider has another
\* token: one more try.
DialRejected ==
    /\ dial = "first"
    /\ dial' = "second"
    /\ UNCHANGED <<state, ws, Sockets, Buffer, closing, starter, reader,
                   attempt, got, cancelled, Closing, Seen>>

\* Mutant of NextAttempt: the attempts are not counted against the limit.
NextAttemptNoLimit ==
    /\ reader' = "backoff"
    /\ UNCHANGED <<state, Buffer, attempt>>

\* What follows an attempt that failed: give up at the limit, or back off.
\* The state is left as the attempt left it.  The power in backoff_delay passes
\* the range of a float after LastDelay, before it is capped: the OverflowError
\* ends the task and nothing is queued.
NextAttempt ==
    \/ /\ set.maxAttempts # Unlimited
       /\ attempt + 1 > set.maxAttempts
       /\ Finish("error")
       /\ reader' = "done"
       /\ UNCHANGED attempt
    \/ /\ set.maxAttempts # Unlimited => attempt + 1 <= set.maxAttempts
       /\ attempt' = attempt + 1
       /\ reader' = IF attempt + 1 > LastDelay THEN "done" ELSE "backoff"
       /\ UNCHANGED <<state, Buffer>>

\* The connector, the provider or on_open raises something else than an
\* AuthenticationError.  start lets it through; the reader tries again.
\* on_open only sends, so it fails when its socket is gone.
DialFails ==
    /\ \/ Dialing
       \/ dial = "opening" /\ ws \notin up
    /\ dial' = "no"
    /\ \/ /\ starter = "dialing"
          /\ starter' = "failed"
          /\ UNCHANGED <<state, Buffer, reader, attempt>>
       \/ /\ reader = "dialing"
          /\ NextAttempt
          /\ UNCHANGED starter
    /\ UNCHANGED <<ws, Sockets, closing, got, cancelled, Closing, Seen>>

\* No usable token, or a second token rejected: an AuthenticationError.
DialFatal ==
    /\ Dialing
    /\ dial' = "no"
    /\ \/ /\ starter = "dialing"
          /\ starter' = "failed"
          /\ UNCHANGED <<state, Buffer, reader>>
       \/ /\ reader = "dialing"
          /\ Finish("error")
          /\ reader' = "done"
          /\ UNCHANGED starter
    /\ UNCHANGED <<ws, Sockets, closing, attempt, got, cancelled, Closing, Seen>>

\* on_open returns.  start creates the reader task, so the first frame comes from
\* this socket; the reader queues the marker and reads on.
DialDone ==
    /\ dial = "opening"
    /\ dial' = "no"
    /\ got' = 0
    /\ reader' = "recv"
    /\ \/ /\ starter = "dialing"
          /\ starter' = "done"
          /\ last' = [last EXCEPT !.conn = ws]
          /\ UNCHANGED Buffer
       \/ /\ reader = "dialing"
          /\ Push(Reconnected)
          /\ UNCHANGED <<starter, last>>
    /\ UNCHANGED <<state, ws, Sockets, closing, attempt, cancelled, Closing, ended>>

DialEnds == DialOpens \/ DialRejected \/ DialFails \/ DialFatal \/ DialDone

\* start: it looks at the task only, not at _closing, nor at a socket that an
\* earlier start has left.
Start ==
    /\ reader = "none" /\ starter # "dialing"
    /\ set.orderly => ~ closing
    /\ starter' = "dialing"
    /\ dial' = "first"
    /\ state' = "CONNECTING"
    /\ UNCHANGED <<ws, Sockets, Buffer, closing, reader, attempt, got,
                   cancelled, Closing, Seen>>

\* The caller of start is cancelled, as by a timeout.  A handshake that is under
\* way is given up; during on_open the socket is left open, and no task reads it.
StartCancelled ==
    /\ starter = "dialing"
    /\ starter' = "failed"
    /\ dial' = "no"
    /\ left' = IF dial = "opening" THEN left \cup {ws} ELSE left
    /\ UNCHANGED <<state, ws, up, opened, Buffer, closing, reader, attempt, got,
                   cancelled, Closing, Seen>>

\* Another task calls start while the first call connects, and ends first: its
\* handshake fails, or it opens a socket of its own and is cancelled in on_open.
\* One of the two sockets is then nobody's: the first call reads from the later.
OverlappingStart ==
    /\ starter = "dialing"
    /\ \/ /\ state' = "CONNECTING"
          /\ UNCHANGED <<ws, Sockets>>
       \/ /\ opened < MaxSockets
          /\ opened' = opened + 1
          /\ up' = up \cup {opened'}
          /\ ws' = opened'
          /\ state' = "OPEN"
          /\ left' = left \cup {IF dial = "opening" THEN ws ELSE opened'}
    /\ UNCHANGED <<Buffer, closing, starter, Task, Closing, Seen>>

-----------------------------------------------------------------------------
\* _run, _read_until_closed and _reconnect_loop: the reader task.

\* recv returns a frame: queue it, evicting the oldest or waiting for room.
\* A socket that is gone may still hand out what it had buffered.
ReadFrame ==
    /\ reader = "recv" /\ ~ cancelled
    /\ got < MaxFrames
    /\ got' = got + 1
    /\ IF set.block /\ Full
       THEN /\ reader' = "put"
            /\ UNCHANGED Buffer
       ELSE /\ Push(Frame(ws, got'))
            /\ UNCHANGED reader
    /\ UNCHANGED <<state, ws, Sockets, closing, starter, dial, attempt,
                   cancelled, Closing, Seen>>

\* `await self._queue.put(frame)` finds room.
PutFrame ==
    /\ reader = "put" /\ ~ cancelled
    /\ ~ Full
    /\ Push(Frame(ws, got))
    /\ reader' = "recv"
    /\ UNCHANGED <<state, ws, Sockets, closing, starter, dial, attempt, got,
                   cancelled, Closing, Seen>>

\* Mutant of SocketLost: the reader gives a live socket up, as for a bad frame.
SocketAbandoned ==
    /\ reader = "recv" /\ ~ cancelled
    /\ ~ closing
    /\ ws' = 0
    /\ state' = "RECONNECTING"
    /\ attempt' = 1
    /\ reader' = "backoff"
    /\ UNCHANGED <<Sockets, Buffer, closing, starter, dial, got, cancelled, Closing, Seen>>

\* recv raises: stop if closing or not to reconnect, else begin an outage.
SocketLost ==
    /\ reader = "recv" /\ ~ cancelled
    /\ ws \notin up
    /\ ws' = 0
    /\ \/ /\ closing
          /\ Finish("stop")
          /\ reader' = "done"
          /\ UNCHANGED attempt
       \/ /\ ~ closing
          /\ ~ set.reconnect \/ set.maxAttempts = 0
          /\ Finish("error")
          /\ reader' = "done"
          /\ UNCHANGED attempt
       \/ /\ ~ closing
          /\ set.reconnect /\ set.maxAttempts # 0
          /\ state' = "RECONNECTING"
          /\ attempt' = 1
          /\ reader' = "backoff"
          /\ UNCHANGED Buffer
    /\ UNCHANGED <<Sockets, closing, starter, dial, got, cancelled, Closing, Seen>>

\* Mutant of BackoffEnds: _closing is not looked at.
BackoffEndsBlindly ==
    /\ reader = "backoff" /\ ~ cancelled
    /\ state' = "CONNECTING"
    /\ reader' = "dialing"
    /\ dial' = "first"
    /\ UNCHANGED <<ws, Sockets, Buffer, closing, starter, attempt, got, cancelled,
                   Closing, Seen>>

\* The backoff sleep ends; _closing is looked at here and nowhere else.
BackoffEnds ==
    /\ reader = "backoff" /\ ~ cancelled
    /\ \/ /\ closing
          /\ Finish("stop")
          /\ reader' = "done"
          /\ UNCHANGED dial
       \/ /\ ~ closing
          /\ state' = "CONNECTING"
          /\ reader' = "dialing"
          /\ dial' = "first"
          /\ UNCHANGED Buffer
    /\ UNCHANGED <<ws, Sockets, closing, starter, attempt, got, cancelled,
                   Closing, Seen>>

\* CancelledError reaches the task at the await it is in.
Cancelled ==
    /\ cancelled
    /\ reader \notin {"none", "done"}
    /\ cancelled' = FALSE
    /\ ws' = IF reader \in {"recv", "put"} THEN 0 ELSE ws
    /\ dial' = "no"
    /\ reader' = "done"
    /\ Finish("stop")
    /\ UNCHANGED <<Sockets, closing, starter, attempt, got, Closing, Seen>>

ReaderStep == ReadFrame \/ PutFrame \/ SocketLost \/ BackoffEnds \/ Cancelled

-----------------------------------------------------------------------------
\* aclose.

\* Mutant of JoinTask: aclose does not wait for the task.
JoinNothing(c) ==
    /\ closer' = [closer EXCEPT ![c] = "returned"]
    /\ Finish("stop")
    /\ UNCHANGED cancelled

\* After the socket: wait for a task that is not done, cancelling it only in
\* the first sleep of an outage; then queue the end marker.
JoinTask(c) ==
    \/ /\ reader \in {"none", "done"}
       /\ closer' = [closer EXCEPT ![c] = "returned"]
       /\ Finish("stop")
       /\ UNCHANGED cancelled
    \/ /\ reader \notin {"none", "done"}
       /\ closer' = [closer EXCEPT ![c] = "joining"]
       /\ cancelled' = (cancelled \/ state = "RECONNECTING")
       /\ UNCHANGED <<state, Buffer>>

Aclose(c) ==
    /\ closer[c] = "idle"
    /\ set.orderly => starter # "dialing"
    /\ closing' = TRUE
    /\ \/ /\ closing
          /\ closer' = [closer EXCEPT ![c] = "returned"]
          /\ UNCHANGED <<state, Buffer, cancelled, target>>
       \/ /\ ~ closing /\ ws # 0
          /\ closer' = [closer EXCEPT ![c] = "closing"]
          /\ target' = ws
          /\ UNCHANGED <<state, Buffer, cancelled>>
       \/ /\ ~ closing /\ ws = 0
          /\ JoinTask(c)
          /\ UNCHANGED target
    /\ UNCHANGED <<ws, Sockets, starter, reader, dial, attempt, got, Seen>>

\* ws.close() completes on the socket aclose found.
SocketClosed(c) ==
    /\ closer[c] = "closing"
    /\ up' = up \ {target}
    /\ JoinTask(c)
    /\ UNCHANGED <<ws, opened, left, closing, starter, reader, dial, attempt, got,
                   target, Seen>>

\* The task ended: queue the end marker and return.
Joined(c) ==
    /\ closer[c] = "joining"
    /\ reader = "done"
    /\ closer' = [closer EXCEPT ![c] = "returned"]
    /\ Finish("stop")
    /\ UNCHANGED <<ws, Sockets, closing, starter, Task, target, Seen>>

\* A timeout cancels the caller of aclose: inside ws.close() it escapes, while
\* waiting for the task it cancels the task and is swallowed.
CloseTimesOut(c) ==
    /\ set.timeouts
    /\ \/ /\ closer[c] = "closing"
          /\ closer' = [closer EXCEPT ![c] = "escaped"]
          /\ UNCHANGED cancelled
       \/ /\ closer[c] = "joining" /\ reader # "done"
          /\ cancelled' = TRUE
          /\ UNCHANGED closer
    /\ UNCHANGED <<state, ws, Sockets, Buffer, closing, starter, reader, dial,
                   attempt, got, target, Seen>>

CloserStep(c) == SocketClosed(c) \/ Joined(c)

-----------------------------------------------------------------------------
\* The server or the network drops a socket.
Drop ==
    \E k \in up :
        /\ up' = up \ {k}
        /\ UNCHANGED <<state, ws, opened, left, Buffer, closing, starter, Task,
                       Closing, Seen>>

Next ==
    /\ UNCHANGED set
    /\ \/ Start \/ StartCancelled \/ OverlappingStart \/ DialEnds \/ ReaderStep
       \/ NextFrame \/ Drop
       \/ \E c \in Closers : Aclose(c) \/ CloserStep(c) \/ CloseTimesOut(c)

Spec == Init /\ [][Next]_vars

\* The event loop runs every ready task; connecting, closing a socket and
\* sleeping end (the connector and close have timeouts).  The server, the
\* consumer and the callers owe nothing.
FairSpec ==
    /\ Spec
    /\ WF_vars(UNCHANGED set /\ DialEnds)
    /\ WF_vars(UNCHANGED set /\ ReaderStep)
    /\ \A c \in Closers : WF_vars(UNCHANGED set /\ CloserStep(c))

-----------------------------------------------------------------------------
Socket == 1 .. MaxSockets
Item ==
    {Frame(k, n) : k \in Socket, n \in 1 .. MaxFrames}
        \cup {Reconnected} \cup {End(kind) : kind \in Ends}

\* The types of the variables; the queue never outgrows its size.
TypeOK ==
    /\ set \in Settings
    /\ state \in {"IDLE", "CONNECTING", "OPEN", "RECONNECTING", "CLOSED"}
    /\ ws \in 0 .. MaxSockets
    /\ up \subseteq Socket
    /\ opened \in 0 .. MaxSockets
    /\ left \subseteq Socket
    /\ queue \in Seq(Item) /\ Len(queue) <= set.queueSize
    /\ dropped \in Nat
    /\ closing \in BOOLEAN
    /\ starter \in {"idle", "dialing", "done", "failed"}
    /\ reader \in {"none", "recv", "put", "backoff", "dialing", "done"}
    /\ dial \in {"no", "first", "second", "opening"}
    /\ attempt \in Nat
    /\ got \in 0 .. MaxFrames
    /\ cancelled \in BOOLEAN
    /\ closer \in [Closers -> {"idle", "closing", "joining", "returned", "escaped"}]
    /\ target \in 0 .. MaxSockets
    /\ last \in [conn : Socket, n : 0 .. MaxFrames, marked : BOOLEAN, dropped : Nat]
    /\ ended \in Ends \cup {"no"}

\* A start, a reconnect or a close never leaves a socket open beside a new one,
\* whatever failed attempts, backoff and other closes came between; the socket
\* that a start cancelled in on_open, or two overlapping ones, leave to nobody is
\* the one exception.
OneSocketOpen == \A j, k \in up \ left : j = k

\* A step in which the consumer gets a frame.
Delivers == last'.n # 0 /\ <<last'.conn, last'.n>> # <<last.conn, last.n>>

\* Frames reach the consumer once each and in the order they were received,
\* across evictions, a reader waiting for room and reconnects, and no event
\* follows the end of the stream, unless it was closed before it was open.
FramesInOrder ==
    [][/\ set.orderly => ended = "no"
       /\ Delivers => \/ last'.conn > last.conn
                      \/ last'.conn = last.conn /\ last'.n > last.n]_last

\* Every gap can be told: between two frames that are not consecutive the
\* consumer saw a Reconnected marker, or dropped_frames has grown.
NoSilentGap ==
    [][Delivers =>
          \/ last'.conn = last.conn /\ last'.n = last.n + 1
          \/ last.marked
          \/ last'.dropped > last.dropped]_last

\* "Close the socket, stop reconnecting and wait for the reader task to end":
\* once the calls of aclose have returned (a second one does so while the first
\* is at work), and no timeout cut a wait short, the socket they found is closed,
\* no other is open but those that starts have left to nobody, and no reader is
\* running.  A start that was not over, or that came later, is the one exception:
\* its reader runs after the close, on the socket it opened, and never reconnects.
ClosedMeansClosed ==
    /\ ~ set.timeouts
    /\ \E c \in Closers : closer[c] = "returned"
    /\ \A c \in Closers : closer[c] \notin {"closing", "joining"}
    => /\ target \notin up
       /\ \/ up \subseteq left /\ reader \in {"none", "done"}
          \/ ~ set.orderly /\ attempt = 0 /\ reader \notin {"backoff", "dialing"}

\* "Later calls see the same end marker" (ws/connection.py:236): once the reader
\* has ended, whatever else is queued, evicted, taken and put back, an end is in
\* the queue for every later call of next_frame.  An outage that outlives the
\* attempts whose delay is a number is the exception: it ends without a word.
LaterCallsSeeTheEnd ==
    reader = "done" /\ attempt <= LastDelay =>
        state = "CLOSED" /\ \E i \in DOMAIN queue : queue[i].kind \in Ends

\* aclose outwaits a read, a backoff sleep and the attempts of an outage: it
\* returns, or in "block" mode the reader is left waiting for room in the queue,
\* or the handshake that aclose found under way has opened a socket, which
\* nobody closes.  Once its socket is closed and no connect is under way, none
\* begins and only the full queue can hold aclose up.
AcloseOutwaitsReader ==
    \A c \in Closers :
        /\ closer[c] = "joining"
              ~> (closer[c] = "returned" \/ reader = "put" \/ ~ (up \subseteq left))
        /\ closer[c] = "joining" /\ dial = "no" /\ up \subseteq left
              ~> (closer[c] = "returned" \/ reader = "put")

\* "Close the socket, stop reconnecting and wait for the reader task to end"
\* (ws/connection.py:256), without the exceptions.
AcloseReturns ==
    \A c \in Closers : closer[c] = "joining" ~> closer[c] = "returned"

\* With a limit on the attempts an outage ends, in a new socket or in the end
\* of the connection.
OutageEnds ==
    (set.maxAttempts # Unlimited /\ reader = "backoff") ~> reader \in {"recv", "put", "done"}
=============================================================================

----------------------- MODULE WebSocketConnectionProofs -----------------------
(***************************************************************************)
(* Proofs about WebSocketConnection, for any settings, any number of       *)
(* tasks in aclose, and any number of sockets and frames.                  *)
(***************************************************************************)
EXTENDS WebSocketConnection, SequenceTheorems, TLAPS

USE ConnectionAssumption

-----------------------------------------------------------------------------
\* The tasks and the sockets.

Reading == reader \in {"recv", "put"}

\* A connect is run by the caller of start or by the reader, which there is
\* once start is done; what reads has the last socket, and what dials has none.
TasksOK ==
    /\ starter \in {"idle", "failed"} => reader = "none" /\ dial = "no" /\ up \subseteq left
    /\ starter = "dialing" => reader = "none" /\ dial # "no"
    /\ starter = "done" => reader # "none" /\ (dial # "no" <=> reader = "dialing")
    /\ starter = "done" => opened # 0
    /\ starter # "done" => attempt = 0
    /\ up \subseteq 1 .. opened
    /\ up \subseteq left \cup {opened}
    /\ ws <= opened
    /\ Dialing \/ reader = "backoff" => up \subseteq left
    /\ Reading \/ dial = "opening" => ws = opened /\ opened # 0
    /\ target <= opened
    /\ reader = "put" => got # 0

\* Without a timeout only the first sleep of an outage is cancelled, so nobody
\* leaves a socket open but who reads from it, and starts that leave it to nobody.
QuietOK ==
    ~ set.timeouts =>
        /\ cancelled => reader = "backoff"
        /\ state = "RECONNECTING" => reader = "backoff"
        /\ starter # "dialing" /\ ~ Reading /\ dial # "opening" => up \subseteq left

\* Whoever is in aclose, or was, has set _closing; the socket it found is open
\* only as long as somebody is closing it, or was cut short by a timeout.
ClosingOK ==
    /\ (\E c \in Closers : closer[c] # "idle") => closing
    /\ set.orderly /\ closing => starter # "dialing"
    /\ target \in up => \E c \in Closers : closer[c] \in {"closing", "escaped"}
    /\ \A c \in Closers : closer[c] = "escaped" => set.timeouts

\* Everybody in aclose has returned.
AllReturned ==
    /\ ~ set.timeouts /\ closing
    /\ \A c \in Closers : closer[c] \notin {"closing", "joining"}

\* No task is left then, but for a start that was not over or that came later.
ReturnedOK ==
    AllReturned =>
        \/ starter # "dialing" /\ reader \in {"none", "done"}
        \/ ~ set.orderly /\ attempt = 0 /\ reader \notin {"backoff", "dialing"}

-----------------------------------------------------------------------------
\* The queue.

IsFrame(x)   == x.kind = "frame"
IsEvent(x)   == x.kind \notin Ends

\* Frame b is the one after a; event a tells of a gap before frame b, or there
\* is none; frame b was received after a.
Follows(a, b) == a.conn = b.conn /\ b.n = a.n + 1
Meets(a, b)   == a.kind = "reconnected" \/ Follows(a, b)
Before(a, b)  == a.conn < b.conn \/ (a.conn = b.conn /\ a.n < b.n)

\* Item i of q is the event before place j; there is none before j.
Precedes(q, i, j) == IsEvent(q[i]) /\ \A m \in i + 1 .. j - 1 : ~ IsEvent(q[m])
Eventless(q, j)   == \A m \in 1 .. j - 1 : ~ IsEvent(q[m])

\* No two frames of q have an unmarked gap between them.
Gapless(q) ==
    \A j \in 1 .. Len(q), i \in 1 .. Len(q) :
        i < j /\ IsFrame(q[j]) /\ Precedes(q, i, j) => Meets(q[i], q[j])

\* Nor have the last frame that was delivered, a, and the first of q.
Joins(a, q) ==
    \A j \in 1 .. Len(q) : IsFrame(q[j]) /\ Eventless(q, j) => Follows(a, q[j])

\* Nor have the last frame of q, or a when it has none, and frame b.
Ready(q, b) ==
    \A i \in 1 .. Len(q) : Precedes(q, i, Len(q) + 1) => Meets(q[i], b)

\* The consumer was told of the gap before the next frame.
Told == last.marked \/ dropped > last.dropped

\* The next frame that is queued, if there is one.
Coming ==
    IF reader = "recv" THEN [conn |-> opened, n |-> got + 1]
    ELSE IF reader = "put" THEN [conn |-> opened, n |-> got]
    ELSE IF dial = "opening" THEN [conn |-> opened, n |-> 1]
    ELSE [conn |-> opened + 1, n |-> 1]

\* What is told and what is queued leave no gap without a mark.
GaplessOK ==
    /\ Gapless(queue)
    /\ Told \/ Joins(last, queue)
    /\ Reading => Ready(queue, Coming)
    /\ Reading /\ Eventless(queue, Len(queue) + 1) => Told \/ Follows(last, Coming)
    /\ starter # "done" => last.conn = 1 /\ last.n = 0 /\ Eventless(queue, Len(queue) + 1)
    /\ dropped >= last.dropped

\* The frames of q are in the order they came.
InOrder(q) ==
    \A j \in 1 .. Len(q), i \in 1 .. Len(q) :
        i < j /\ IsFrame(q[i]) /\ IsFrame(q[j]) => Before(q[i], q[j])

Within(q, a, b) ==
    \A i \in 1 .. Len(q) : IsFrame(q[i]) => Before(a, q[i]) /\ Before(q[i], b)

OrderOK ==
    /\ InOrder(queue)
    /\ Within(queue, last, Coming)
    /\ Before(last, Coming)

\* The ends are last in q.
EndsLast(q) ==
    \A j \in 1 .. Len(q), i \in 1 .. Len(q) : i < j /\ ~ IsEvent(q[i]) => ~ IsEvent(q[j])

\* Nothing that queues an event is left.
Over ==
    /\ reader \in {"none", "done"}
    /\ starter # "dialing"
    /\ starter \in {"idle", "failed"} => closing

\* With orderly callers the end of the stream is the end.
EndsOK ==
    set.orderly =>
        /\ EndsLast(queue)
        /\ ended # "no" => Eventless(queue, Len(queue) + 1)
        /\ ended # "no" \/ (\E i \in 1 .. Len(queue) : ~ IsEvent(queue[i])) => Over

IInv ==
    /\ TypeOK /\ TasksOK /\ QuietOK /\ ClosingOK /\ ReturnedOK
    /\ GaplessOK /\ OrderOK /\ EndsOK

-----------------------------------------------------------------------------
\* The rest of a queue, without its head.

LEMMA Rest ==
  ASSUME NEW q \in Seq(Item), q # <<>>
  PROVE  /\ Len(q) \in Nat /\ Len(q) >= 1 /\ Head(q) = q[1] /\ q[1] \in Item
         /\ Tail(q) \in Seq(Item) /\ Len(Tail(q)) = Len(q) - 1
         /\ \A i \in 1 .. Len(q) - 1 : Tail(q)[i] = q[i + 1]
<1>1. Len(q) \in Nat /\ Len(q) >= 1
  BY EmptySeq, LenProperties
<1> QED
  BY <1>1, HeadTailProperties, ElementOfSeq

\* The event before place j of the rest is that before place j + 1.
LEMMA RestPrecedes ==
  ASSUME NEW q \in Seq(Item), q # <<>>, NEW i \in Nat \ {0}, NEW j \in Nat, i < j, j <= Len(q),
         Precedes(Tail(q), i, j)
  PROVE  Precedes(q, i + 1, j + 1)
<1>1. Len(q) \in Nat /\ \A k \in 1 .. Len(q) - 1 : Tail(q)[k] = q[k + 1]
  BY Rest
<1>2. IsEvent(q[i + 1])
  BY <1>1 DEF Precedes
<1>3. ASSUME NEW m \in i + 2 .. j PROVE ~ IsEvent(q[m])
  <2>1. m - 1 \in i + 1 .. j - 1 /\ m - 1 \in 1 .. Len(q) - 1 /\ m = (m - 1) + 1
    OBVIOUS
  <2>2. ~ IsEvent(Tail(q)[m - 1])
    BY <2>1 DEF Precedes
  <2> QED
    BY <1>1, <2>1, <2>2
<1> QED
  BY <1>2, <1>3 DEF Precedes

LEMMA RestEventless ==
  ASSUME NEW q \in Seq(Item), q # <<>>, NEW j \in Nat \ {0}, j <= Len(q),
         Eventless(Tail(q), j)
  PROVE  /\ \A m \in 2 .. j : ~ IsEvent(q[m])
         /\ IsEvent(q[1]) => Precedes(q, 1, j + 1)
         /\ ~ IsEvent(q[1]) => Eventless(q, j + 1)
<1>1. Len(q) \in Nat /\ \A k \in 1 .. Len(q) - 1 : Tail(q)[k] = q[k + 1]
  BY Rest
<1>2. ASSUME NEW m \in 2 .. j PROVE ~ IsEvent(q[m])
  <2>1. m - 1 \in 1 .. j - 1 /\ m - 1 \in 1 .. Len(q) - 1 /\ m = (m - 1) + 1
    OBVIOUS
  <2>2. ~ IsEvent(Tail(q)[m - 1])
    BY <2>1 DEF Eventless
  <2> QED
    BY <1>1, <2>1, <2>2
<1> QED
  BY <1>2 DEF Precedes, Eventless

\* What holds of a queue holds of its rest.
LEMMA RestKeeps ==
  ASSUME NEW q \in Seq(Item), q # <<>>
  PROVE  /\ Gapless(q) => Gapless(Tail(q))
         /\ \A b : Ready(q, b) => Ready(Tail(q), b)
         /\ InOrder(q) => InOrder(Tail(q))
         /\ \A a, b : Within(q, a, b) => Within(Tail(q), a, b)
         /\ EndsLast(q) => EndsLast(Tail(q))
         /\ Eventless(q, Len(q) + 1) => Eventless(Tail(q), Len(Tail(q)) + 1)
<1>1. /\ Len(q) \in Nat /\ Len(q) >= 1 /\ Len(Tail(q)) = Len(q) - 1
      /\ \A k \in 1 .. Len(q) - 1 : Tail(q)[k] = q[k + 1]
  BY Rest
<1>2. ASSUME Gapless(q) PROVE Gapless(Tail(q))
  <2> SUFFICES ASSUME NEW j \in 1 .. Len(Tail(q)), NEW i \in 1 .. Len(Tail(q)),
                      i < j, IsFrame(Tail(q)[j]), Precedes(Tail(q), i, j)
               PROVE  Meets(Tail(q)[i], Tail(q)[j])
    BY DEF Gapless
  <2>1. Precedes(q, i + 1, j + 1)
    BY <1>1, RestPrecedes
  <2>2. Tail(q)[i] = q[i + 1] /\ Tail(q)[j] = q[j + 1]
    BY <1>1
  <2> QED
    BY <1>1, <1>2, <2>1, <2>2 DEF Gapless
<1>3. ASSUME NEW b, Ready(q, b) PROVE Ready(Tail(q), b)
  <2> SUFFICES ASSUME NEW i \in 1 .. Len(Tail(q)), Precedes(Tail(q), i, Len(Tail(q)) + 1)
               PROVE  Meets(Tail(q)[i], b)
    BY DEF Ready
  <2>1. Precedes(Tail(q), i, Len(q))
    BY <1>1
  <2>2. Precedes(q, i + 1, Len(q) + 1)
    BY <1>1, <2>1, RestPrecedes
  <2> QED
    BY <1>1, <1>3, <2>2 DEF Ready
<1>4. InOrder(q) => InOrder(Tail(q))
  BY <1>1 DEF InOrder
<1>5. \A a, b : Within(q, a, b) => Within(Tail(q), a, b)
  BY <1>1 DEF Within
<1>6. EndsLast(q) => EndsLast(Tail(q))
  BY <1>1 DEF EndsLast
<1>7. Eventless(q, Len(q) + 1) => Eventless(Tail(q), Len(Tail(q)) + 1)
  BY <1>1 DEF Eventless
<1> QED
  BY <1>2, <1>3, <1>4, <1>5, <1>6, <1>7

\* Once the head is delivered, the rest joins it; an end that is taken does not
\* come between.
LEMMA RestJoins ==
  ASSUME NEW q \in Seq(Item), q # <<>>
  PROVE  /\ IsFrame(q[1]) /\ Gapless(q) => Joins(q[1], Tail(q))
         /\ \A a : ~ IsEvent(q[1]) /\ Joins(a, q) => Joins(a, Tail(q))
<1>1. /\ Len(q) \in Nat /\ Len(q) >= 1 /\ Len(Tail(q)) = Len(q) - 1
      /\ \A k \in 1 .. Len(q) - 1 : Tail(q)[k] = q[k + 1]
  BY Rest
<1>2. ASSUME NEW j \in 1 .. Len(Tail(q)), IsFrame(Tail(q)[j]), Eventless(Tail(q), j)
      PROVE  /\ j + 1 \in 1 .. Len(q) /\ Tail(q)[j] = q[j + 1] /\ IsFrame(q[j + 1])
             /\ IsEvent(q[1]) => Precedes(q, 1, j + 1)
             /\ ~ IsEvent(q[1]) => Eventless(q, j + 1)
  BY <1>1, <1>2, RestEventless
<1>3. IsFrame(q[1]) => IsEvent(q[1]) /\ q[1].kind # "reconnected"
  BY DEF IsFrame, IsEvent, Ends
<1>4. ASSUME IsFrame(q[1]), Gapless(q) PROVE Joins(q[1], Tail(q))
  BY <1>1, <1>2, <1>3, <1>4 DEF Joins, Gapless, Meets
<1>5. ASSUME NEW a, ~ IsEvent(q[1]), Joins(a, q) PROVE Joins(a, Tail(q))
  BY <1>1, <1>2, <1>5 DEF Joins
<1> QED
  BY <1>4, <1>5

\* When the rest holds no event and the next frame is b, b meets the head.
LEMMA RestReady ==
  ASSUME NEW q \in Seq(Item), q # <<>>, NEW b, Ready(q, b),
         Eventless(Tail(q), Len(Tail(q)) + 1), IsEvent(q[1])
  PROVE  Meets(q[1], b)
<1>1. Len(q) \in Nat /\ Len(q) >= 1 /\ Len(Tail(q)) = Len(q) - 1
  BY Rest
<1>2. Eventless(Tail(q), Len(q))
  BY <1>1
<1>3. Precedes(q, 1, Len(q) + 1)
  BY <1>1, <1>2, RestEventless
<1> QED
  BY <1>1, <1>3 DEF Ready

-----------------------------------------------------------------------------
\* A queue with one more item at its end.

LEMMA More ==
  ASSUME NEW q \in Seq(Item), NEW x \in Item
  PROVE  /\ Append(q, x) \in Seq(Item) /\ Append(q, x) # <<>>
         /\ Len(q) \in Nat /\ Len(Append(q, x)) = Len(q) + 1
         /\ \A i \in 1 .. Len(q) : Append(q, x)[i] = q[i]
         /\ Append(q, x)[Len(q) + 1] = x
BY AppendProperties, LenProperties

LEMMA MorePrecedes ==
  ASSUME NEW q \in Seq(Item), NEW x \in Item,
         NEW i \in Nat \ {0}, NEW j \in Nat, i < j, j <= Len(q) + 1
  PROVE  Precedes(Append(q, x), i, j) <=> Precedes(q, i, j)
<1>1. Len(q) \in Nat /\ \A k \in 1 .. Len(q) : Append(q, x)[k] = q[k]
  BY More
<1> QED
  BY <1>1 DEF Precedes

LEMMA MoreEventless ==
  ASSUME NEW q \in Seq(Item), NEW x \in Item, NEW j \in Nat, j <= Len(q) + 1
  PROVE  Eventless(Append(q, x), j) <=> Eventless(q, j)
<1>1. Len(q) \in Nat /\ \A k \in 1 .. Len(q) : Append(q, x)[k] = q[k]
  BY More
<1> QED
  BY <1>1 DEF Eventless

\* The new item is the last event, or leaves the last one what it was.
LEMMA MoreReady ==
  ASSUME NEW q \in Seq(Item), NEW x \in Item, NEW b
  PROVE  /\ IsEvent(x) /\ Meets(x, b) => Ready(Append(q, x), b)
         /\ IsEvent(x) => ~ Eventless(Append(q, x), Len(Append(q, x)) + 1)
         /\ ~ IsEvent(x) /\ Ready(q, b) => Ready(Append(q, x), b)
         /\ ~ IsEvent(x) => (Eventless(Append(q, x), Len(Append(q, x)) + 1) <=> Eventless(q, Len(q) + 1))
<1>1. /\ Len(q) \in Nat /\ Len(Append(q, x)) = Len(q) + 1
      /\ \A k \in 1 .. Len(q) : Append(q, x)[k] = q[k]
      /\ Append(q, x)[Len(q) + 1] = x
  BY More
<1>2. ASSUME IsEvent(x), Meets(x, b), NEW i \in 1 .. Len(q) + 1, Precedes(Append(q, x), i, Len(q) + 2)
      PROVE  Meets(Append(q, x)[i], b)
  <2>1. i = Len(q) + 1
    BY <1>1, <1>2 DEF Precedes
  <2> QED
    BY <1>1, <1>2, <2>1
<1>3. ASSUME ~ IsEvent(x), Ready(q, b), NEW i \in 1 .. Len(q) + 1, Precedes(Append(q, x), i, Len(q) + 2)
      PROVE  Meets(Append(q, x)[i], b)
  <2>1. i \in 1 .. Len(q)
    BY <1>1, <1>3 DEF Precedes
  <2>2. Precedes(q, i, Len(q) + 1)
    BY <1>1, <1>3, <2>1 DEF Precedes
  <2> QED
    BY <1>1, <1>3, <2>1, <2>2 DEF Ready
<1>4. IsEvent(x) => ~ Eventless(Append(q, x), Len(q) + 2)
  BY <1>1 DEF Eventless
<1>5. ~ IsEvent(x) => (Eventless(Append(q, x), Len(q) + 2) <=> Eventless(q, Len(q) + 1))
  BY <1>1 DEF Eventless
<1> QED
  BY <1>1, <1>2, <1>3, <1>4, <1>5 DEF Ready

\* A frame that meets the last event leaves no gap, an end never does.
LEMMA MoreGapless ==
  ASSUME NEW q \in Seq(Item), NEW x \in Item, Gapless(q), IsFrame(x) => Ready(q, x)
  PROVE  Gapless(Append(q, x))
<1>1. /\ Len(q) \in Nat /\ Len(Append(q, x)) = Len(q) + 1
      /\ \A k \in 1 .. Len(q) : Append(q, x)[k] = q[k]
      /\ Append(q, x)[Len(q) + 1] = x
  BY More
<1> SUFFICES ASSUME NEW j \in 1 .. Len(q) + 1, NEW i \in 1 .. Len(q) + 1,
                    i < j, IsFrame(Append(q, x)[j]), Precedes(Append(q, x), i, j)
             PROVE  Meets(Append(q, x)[i], Append(q, x)[j])
  BY <1>1 DEF Gapless
<1>2. i \in 1 .. Len(q) /\ Append(q, x)[i] = q[i] /\ Precedes(q, i, j)
  BY <1>1, MorePrecedes
<1>3. CASE j = Len(q) + 1
  BY <1>1, <1>2, <1>3 DEF Ready
<1>4. CASE j \in 1 .. Len(q)
  BY <1>1, <1>2, <1>4 DEF Gapless
<1> QED
  BY <1>1, <1>3, <1>4

LEMMA MoreJoins ==
  ASSUME NEW q \in Seq(Item), NEW x \in Item, NEW a, Joins(a, q),
         IsFrame(x) /\ Eventless(q, Len(q) + 1) => Follows(a, x)
  PROVE  Joins(a, Append(q, x))
<1>1. /\ Len(q) \in Nat /\ Len(Append(q, x)) = Len(q) + 1
      /\ \A k \in 1 .. Len(q) : Append(q, x)[k] = q[k]
      /\ Append(q, x)[Len(q) + 1] = x
  BY More
<1> SUFFICES ASSUME NEW j \in 1 .. Len(q) + 1, IsFrame(Append(q, x)[j]), Eventless(Append(q, x), j)
             PROVE  Follows(a, Append(q, x)[j])
  BY <1>1 DEF Joins
<1>2. Eventless(q, j)
  BY <1>1, MoreEventless
<1>3. CASE j = Len(q) + 1
  BY <1>1, <1>2, <1>3
<1>4. CASE j \in 1 .. Len(q)
  BY <1>1, <1>2, <1>4 DEF Joins
<1> QED
  BY <1>1, <1>3, <1>4

\* The order of the frames, and of the ends after everything else.
LEMMA MoreOrder ==
  ASSUME NEW q \in Seq(Item), NEW x \in Item
  PROVE  /\ ~ IsFrame(x) /\ InOrder(q) => InOrder(Append(q, x))
         /\ \A a, b : ~ IsFrame(x) /\ Within(q, a, b) => Within(Append(q, x), a, b)
         /\ \A a : InOrder(q) /\ Within(q, a, x) => InOrder(Append(q, x))
         /\ ~ IsEvent(x) /\ EndsLast(q) => EndsLast(Append(q, x))
         /\ (\A i \in 1 .. Len(q) : IsEvent(q[i])) => EndsLast(Append(q, x))
<1>1. /\ Len(q) \in Nat /\ Len(Append(q, x)) = Len(q) + 1
      /\ \A k \in 1 .. Len(q) : Append(q, x)[k] = q[k]
      /\ Append(q, x)[Len(q) + 1] = x
  BY More
<1>2. ~ IsFrame(x) /\ InOrder(q) => InOrder(Append(q, x))
  BY <1>1 DEF InOrder
<1>3. \A a, b : ~ IsFrame(x) /\ Within(q, a, b) => Within(Append(q, x), a, b)
  BY <1>1 DEF Within
<1>4. ASSUME NEW a, InOrder(q), Within(q, a, x) PROVE InOrder(Append(q, x))
  BY <1>1, <1>4 DEF InOrder, Within
<1>5. ~ IsEvent(x) /\ EndsLast(q) => EndsLast(Append(q, x))
  BY <1>1 DEF EndsLast
<1>6. (\A i \in 1 .. Len(q) : IsEvent(q[i])) => EndsLast(Append(q, x))
  BY <1>1 DEF EndsLast
<1> QED
  BY <1>2, <1>3, <1>4, <1>5, <1>6

-----------------------------------------------------------------------------
\* The types.

LEMMA EndsTyped ==
  /\ \A kind \in Ends : End(kind) \in Item /\ ~ IsEvent(End(kind)) /\ ~ IsFrame(End(kind))
  /\ Reconnected \in Item /\ IsEvent(Reconnected) /\ ~ IsFrame(Reconnected)
BY DEF Item, End, Ends, Reconnected, IsEvent, IsFrame

LEMMA FramesTyped ==
  ASSUME NEW k \in Socket, NEW n \in 1 .. MaxFrames
  PROVE  Frame(k, n) \in Item /\ IsEvent(Frame(k, n)) /\ IsFrame(Frame(k, n))
BY DEF Item, Ends, Frame, IsEvent, IsFrame

\* The fields of an item, whatever it is.
LEMMA ItemTyped ==
  ASSUME NEW x \in Item
  PROVE  /\ IsFrame(x) => /\ x.conn \in Socket /\ x.n \in 1 .. MaxFrames
                          /\ x = Frame(x.conn, x.n)
         /\ x.kind \in {"frame", "reconnected"} \cup Ends
         /\ IsFrame(x) => IsEvent(x)
BY DEF Item, Ends, End, Frame, Reconnected, IsEvent, IsFrame

\* A push puts the item behind the queue, or behind what is left of it.
LEMMA Pushed ==
  ASSUME TypeOK, NEW x \in Item, Push(x)
  PROVE  /\ queue' \in Seq(Item) /\ Len(queue') <= set.queueSize
         /\ dropped' \in Nat /\ dropped' >= dropped
         /\ \E q \in Seq(Item) :
               /\ queue' = Append(q, x)
               /\ \/ q = queue /\ dropped' = dropped
                  \/ queue # <<>> /\ q = Tail(queue) /\ dropped' = dropped + 1
<1>1. queue \in Seq(Item) /\ Len(queue) \in Nat /\ dropped \in Nat
      /\ set.queueSize \in Nat \ {0} /\ Len(queue) <= set.queueSize
  BY LenProperties DEF TypeOK, Setting
<1>2. CASE ~ Full /\ queue' = Append(queue, x) /\ UNCHANGED dropped
  BY <1>1, <1>2, More DEF Full
<1>3. CASE Full /\ queue' = Append(Tail(queue), x) /\ dropped' = dropped + 1
  <2>1. queue # <<>>
    BY <1>1, <1>3, EmptySeq DEF Full
  <2>2. Tail(queue) \in Seq(Item) /\ Len(Tail(queue)) = Len(queue) - 1
    BY <1>1, <2>1, Rest
  <2>3. queue' \in Seq(Item) /\ Len(queue') = Len(queue)
    BY <1>1, <1>3, <2>2, More
  <2>4. \E q \in Seq(Item) :
          /\ queue' = Append(q, x)
          /\ \/ q = queue /\ dropped' = dropped
             \/ queue # <<>> /\ q = Tail(queue) /\ dropped' = dropped + 1
    <3> Tail(queue) \in Seq(Item)
      BY <2>2
    <3> WITNESS Tail(queue) \in Seq(Item)
    <3> QED
      BY <1>3, <2>1
  <2>5. Len(queue') <= set.queueSize /\ dropped' \in Nat /\ dropped' >= dropped
    BY <1>1, <1>3, <2>3
  <2> QED
    BY <2>3, <2>4, <2>5
<1> QED
  BY <1>2, <1>3 DEF Push

\* So does the end of the connection.
LEMMA Finished ==
  ASSUME TypeOK, NEW kind \in Ends, Finish(kind)
  PROVE  /\ state' = "CLOSED"
         /\ queue' \in Seq(Item) /\ Len(queue') <= set.queueSize
         /\ dropped' \in Nat /\ dropped' >= dropped
BY EndsTyped, Pushed DEF Finish

\* What the consumer takes is the head; an end goes to the end of the rest.
LEMMA Taken ==
  ASSUME TypeOK, NextFrame
  PROVE  /\ queue # <<>> /\ queue \in Seq(Item) /\ Head(queue) = queue[1]
         /\ queue' \in Seq(Item) /\ Len(queue') <= Len(queue)
         /\ \/ /\ queue[1].kind \in Ends
               /\ queue' = Append(Tail(queue), queue[1])
               /\ ended' = queue[1].kind /\ last' = last
            \/ /\ queue[1].kind = "reconnected"
               /\ queue' = Tail(queue)
               /\ ended' = ended
               /\ last' = [last EXCEPT !.marked = TRUE]
            \/ /\ IsFrame(queue[1])
               /\ queue' = Tail(queue)
               /\ ended' = ended
               /\ last' = [conn |-> queue[1].conn, n |-> queue[1].n, marked |-> FALSE,
                           dropped |-> dropped]
<1>1. queue \in Seq(Item) /\ queue # <<>>
  BY DEF TypeOK, NextFrame
<1>2. /\ Len(queue) \in Nat /\ Len(queue) >= 1 /\ Head(queue) = queue[1] /\ queue[1] \in Item
      /\ Tail(queue) \in Seq(Item) /\ Len(Tail(queue)) = Len(queue) - 1
  BY <1>1, Rest
<1>3. /\ Append(Tail(queue), queue[1]) \in Seq(Item)
      /\ Len(Append(Tail(queue), queue[1])) = Len(queue)
  BY <1>2, More
<1> QED
  BY <1>1, <1>2, <1>3, SMTT(30) DEF NextFrame, IsFrame

\* Every step keeps the types.
LEMMA TypesKept == TypeOK /\ TasksOK /\ [Next]_vars => TypeOK'
<1> SUFFICES ASSUME TypeOK, TasksOK, [Next]_vars PROVE TypeOK'
  OBVIOUS
<1>0. /\ \A kind \in Ends : Finish(kind) =>
            /\ state' = "CLOSED"
            /\ queue' \in Seq(Item) /\ Len(queue') <= set.queueSize
            /\ dropped' \in Nat
      /\ "stop" \in Ends /\ "error" \in Ends
  BY Finished DEF Ends
<1>1. CASE UNCHANGED vars
  BY <1>1 DEF vars, TypeOK
<1>2. CASE UNCHANGED set /\ Start
  BY <1>2 DEF Start, TypeOK, Sockets, Buffer, Closing, Seen
<1>20. CASE UNCHANGED set /\ StartCancelled
  <2>1. left' \subseteq Socket
    BY <1>20 DEF StartCancelled, TypeOK, TasksOK, Socket
  <2> QED
    BY <1>20, <2>1 DEF StartCancelled, TypeOK, Buffer, Closing, Seen
<1>21. CASE UNCHANGED set /\ OverlappingStart
  <2>1. /\ UNCHANGED <<Buffer, closing, starter, Task, Closing, Seen, set>>
        /\ state' \in {"CONNECTING", "OPEN"}
    BY <1>21 DEF OverlappingStart
  <2>2. /\ ws \in 0 .. MaxSockets /\ opened \in 0 .. MaxSockets
        /\ up \subseteq Socket /\ left \subseteq Socket
        /\ dial = "opening" => ws \in Socket
    BY DEF TypeOK, TasksOK, Socket
  <2>3. CASE UNCHANGED <<ws, up, opened, left>>
    BY <2>1, <2>3 DEF TypeOK, Buffer, Task, Closing, Seen
  <2>4. CASE /\ opened < MaxSockets /\ opened' = opened + 1 /\ up' = up \cup {opened'}
             /\ ws' = opened' /\ left' = left \cup {IF dial = "opening" THEN ws ELSE opened'}
    <3>1. opened' \in Socket
      BY <2>2, <2>4 DEF Socket
    <3>2. /\ ws' \in 0 .. MaxSockets /\ opened' \in 0 .. MaxSockets
          /\ up' \subseteq Socket /\ left' \subseteq Socket
      BY <2>2, <2>4, <3>1 DEF Socket
    <3> QED
      BY <2>1, <3>2 DEF TypeOK, Buffer, Task, Closing, Seen
  <2> QED
    BY <1>21, <2>3, <2>4 DEF OverlappingStart, Sockets
<1>3. CASE UNCHANGED set /\ DialOpens
  BY <1>3 DEF DialOpens, TypeOK, Sockets, Buffer, Closing, Seen, Socket
<1>4. CASE UNCHANGED set /\ DialRejected
  BY <1>4 DEF DialRejected, TypeOK, Sockets, Buffer, Closing, Seen
<1>5. CASE UNCHANGED set /\ DialFails
  BY <1>0, <1>5 DEF DialFails, NextAttempt, TypeOK, Sockets, Buffer, Closing, Seen
<1>6. CASE UNCHANGED set /\ DialFatal
  BY <1>0, <1>6 DEF DialFatal, TypeOK, Sockets, Buffer, Closing, Seen
<1>7. CASE UNCHANGED set /\ DialDone
  <2>1. Push(Reconnected) => /\ queue' \in Seq(Item) /\ Len(queue') <= set.queueSize
                             /\ dropped' \in Nat
    BY EndsTyped, Pushed
  <2>2. last' \in [conn : Socket, n : 0 .. MaxFrames, marked : BOOLEAN, dropped : Nat]
    <3>1. /\ last \in [conn : Socket, n : 0 .. MaxFrames, marked : BOOLEAN, dropped : Nat]
          /\ ws \in Socket
      BY <1>7 DEF DialDone, TypeOK, TasksOK, Socket
    <3>2. last' = last \/ last' = [last EXCEPT !.conn = ws]
      BY <1>7 DEF DialDone
    <3> QED
      BY <3>1, <3>2
  <2>3. /\ queue' \in Seq(Item) /\ Len(queue') <= set.queueSize /\ dropped' \in Nat
        /\ starter' \in {"done", starter} /\ got' = 0 /\ reader' = "recv" /\ dial' = "no"
        /\ UNCHANGED <<set, state, ws, Sockets, closing, attempt, cancelled, Closing, ended>>
    BY <1>7, <2>1 DEF DialDone, TypeOK, Buffer
  <2> QED
    BY <2>2, <2>3 DEF TypeOK, Sockets, Closing
<1>8. CASE UNCHANGED set /\ ReadFrame
  <2>1. ws \in Socket /\ got' \in 1 .. MaxFrames
    BY <1>8 DEF ReadFrame, TypeOK, TasksOK, Reading, Socket
  <2>2. Push(Frame(ws, got')) => /\ queue' \in Seq(Item) /\ Len(queue') <= set.queueSize
                                /\ dropped' \in Nat
    BY <2>1, FramesTyped, Pushed
  <2> QED
    BY <1>8, <2>1, <2>2 DEF ReadFrame, TypeOK, Sockets, Buffer, Closing, Seen
<1>9. CASE UNCHANGED set /\ PutFrame
  <2>1. ws \in Socket /\ got \in 1 .. MaxFrames
    BY <1>9 DEF PutFrame, TypeOK, TasksOK, Reading, Socket
  <2>2. Push(Frame(ws, got)) => /\ queue' \in Seq(Item) /\ Len(queue') <= set.queueSize
                               /\ dropped' \in Nat
    BY <2>1, FramesTyped, Pushed
  <2> QED
    BY <1>9, <2>1, <2>2 DEF PutFrame, TypeOK, Sockets, Buffer, Closing, Seen
<1>10. CASE UNCHANGED set /\ SocketLost
  BY <1>0, <1>10 DEF SocketLost, TypeOK, Sockets, Buffer, Closing, Seen
<1>11. CASE UNCHANGED set /\ BackoffEnds
  BY <1>0, <1>11 DEF BackoffEnds, TypeOK, Sockets, Buffer, Closing, Seen
<1>12. CASE UNCHANGED set /\ Cancelled
  <2>1. ws' \in 0 .. MaxSockets
    BY <1>12 DEF Cancelled, TypeOK
  <2>2. /\ reader' = "done" /\ dial' = "no" /\ cancelled' = FALSE
        /\ UNCHANGED <<set, Sockets, closing, starter, attempt, got, Closing, Seen>>
        /\ Finish("stop")
    BY <1>12 DEF Cancelled
  <2> QED
    BY <1>0, <2>1, <2>2 DEF TypeOK, Sockets, Closing, Seen
<1>13. CASE UNCHANGED set /\ NextFrame
  <2>1. /\ queue' \in Seq(Item) /\ Len(queue') <= set.queueSize
        /\ ended' \in Ends \cup {"no"}
    <3>1. Len(queue) \in Nat /\ Len(queue') \in Nat /\ set.queueSize \in Nat
      BY <1>13, Taken, LenProperties DEF TypeOK, Setting
    <3>2. queue' \in Seq(Item) /\ Len(queue') <= Len(queue)
      BY <1>13, Taken
    <3>3. ended' \in Ends \cup {ended}
      BY <1>13, Taken
    <3> QED
      BY <3>1, <3>2, <3>3 DEF TypeOK
  <2>2. last' \in [conn : Socket, n : 0 .. MaxFrames, marked : BOOLEAN, dropped : Nat]
    <3>1. queue[1] \in Item
      BY <1>13, Taken, Rest
    <3>2. IsFrame(queue[1]) => queue[1].conn \in Socket /\ queue[1].n \in 0 .. MaxFrames
      BY <3>1, ItemTyped
    <3>3. /\ last \in [conn : Socket, n : 0 .. MaxFrames, marked : BOOLEAN, dropped : Nat]
          /\ dropped \in Nat
      BY DEF TypeOK
    <3>4. CASE last' = last \/ last' = [last EXCEPT !.marked = TRUE]
      BY <3>3, <3>4
    <3>5. CASE /\ IsFrame(queue[1])
               /\ last' = [conn |-> queue[1].conn, n |-> queue[1].n, marked |-> FALSE,
                           dropped |-> dropped]
      BY <3>2, <3>3, <3>5
    <3> QED
      BY <1>13, <3>4, <3>5, Taken
  <2> QED
    BY <1>13, <2>1, <2>2, SMTT(30) DEF NextFrame, TypeOK, Sockets, Task, Closing
<1>14. CASE UNCHANGED set /\ Drop
  BY <1>14 DEF Drop, TypeOK, Buffer, Task, Closing, Seen
<1>15. ASSUME NEW c \in Closers, JoinTask(c)
       PROVE  /\ closer' \in [Closers -> {"idle", "closing", "joining", "returned", "escaped"}]
              /\ cancelled' \in BOOLEAN
              /\ state' \in {"IDLE", "CONNECTING", "OPEN", "RECONNECTING", "CLOSED"}
              /\ queue' \in Seq(Item) /\ Len(queue') <= set.queueSize
              /\ dropped' \in Nat
  BY <1>0, <1>15 DEF JoinTask, TypeOK, Buffer
<1>16. ASSUME UNCHANGED set, NEW c \in Closers, Aclose(c) PROVE TypeOK'
  BY <1>15, <1>16 DEF Aclose, TypeOK, Sockets, Buffer, Seen
<1>17. ASSUME UNCHANGED set, NEW c \in Closers, SocketClosed(c) PROVE TypeOK'
  BY <1>15, <1>17 DEF SocketClosed, TypeOK, Sockets, Seen
<1>18. ASSUME UNCHANGED set, NEW c \in Closers, Joined(c) PROVE TypeOK'
  BY <1>0, <1>18 DEF Joined, TypeOK, Sockets, Task, Seen
<1>19. ASSUME UNCHANGED set, NEW c \in Closers, CloseTimesOut(c) PROVE TypeOK'
  <2>1. closer' \in [Closers -> {"idle", "closing", "joining", "returned", "escaped"}]
    BY <1>19 DEF CloseTimesOut, TypeOK
  <2>2. cancelled' \in BOOLEAN
    BY <1>19 DEF CloseTimesOut, TypeOK
  <2>3. UNCHANGED <<set, state, ws, Sockets, Buffer, closing, starter, reader, dial, attempt, got, target, Seen>>
    BY <1>19 DEF CloseTimesOut
  <2> QED
    BY <2>1, <2>2, <2>3 DEF TypeOK, Sockets, Buffer, Seen
<1> QED
  BY <1>1, <1>2, <1>3, <1>4, <1>5, <1>6, <1>7, <1>8, <1>9, <1>10, <1>11, <1>12, <1>13, <1>14,
     <1>16, <1>17, <1>18, <1>19, <1>20, <1>21 DEF Next, DialEnds, ReaderStep, CloserStep

-----------------------------------------------------------------------------
\* The tasks and the sockets.

\* Every step keeps them as they are.
LEMMA TasksKept == TypeOK /\ TasksOK /\ [Next]_vars => TasksOK'
<1> SUFFICES ASSUME TypeOK, TasksOK, [Next]_vars PROVE TasksOK'
  OBVIOUS
<1> USE DEF TasksOK, Reading, Dialing
<1>0. opened \in Nat /\ ws \in Nat /\ target \in Nat /\ got \in Nat /\ up \subseteq Nat
  BY DEF TypeOK, Socket
<1>1. CASE UNCHANGED vars
  BY <1>1 DEF vars, Sockets, Task, Closing
<1>2. CASE Start
  <2>1. starter \in {"idle", "failed"}
    BY <1>2 DEF Start, TypeOK
  <2> QED
    BY <1>0, <1>2, <2>1 DEF Start, Sockets, Closing
<1>17. CASE StartCancelled
  <2>1. up' \subseteq left' /\ left \subseteq left'
    BY <1>17 DEF StartCancelled, TypeOK
  <2>2. /\ starter = "dialing" /\ starter' = "failed" /\ dial' = "no"
        /\ UNCHANGED <<ws, up, opened, reader, attempt, got, target>>
    BY <1>17 DEF StartCancelled, Closing
  <2> QED
    BY <1>0, <2>1, <2>2
<1>18. CASE OverlappingStart
  <2>1. /\ starter = "dialing" /\ UNCHANGED <<starter, reader, dial, attempt, got, target>>
        /\ \/ UNCHANGED <<ws, up, opened, left>>
           \/ /\ opened' = opened + 1 /\ ws' = opened' /\ up' = up \cup {opened'}
              /\ left' = left \cup {IF dial = "opening" THEN ws ELSE opened'}
    BY <1>18 DEF OverlappingStart, Sockets, Task, Closing
  <2>2. CASE UNCHANGED <<ws, up, opened, left>>
    BY <1>0, <2>1, <2>2
  <2>3. CASE /\ opened' = opened + 1 /\ ws' = opened' /\ up' = up \cup {opened'}
             /\ left' = left \cup {IF dial = "opening" THEN ws ELSE opened'}
    <3>1. up' \subseteq 1 .. opened' /\ up' \subseteq left' \cup {opened'}
      <4>1. up \subseteq left'
        BY <2>1, <2>3 DEF TypeOK
      <4> QED
        BY <1>0, <2>3, <4>1
    <3>2. Dialing => up' \subseteq left'
      BY <2>3
    <3> QED
      BY <1>0, <2>1, <2>3, <3>1, <3>2
  <2> QED
    BY <2>1, <2>2, <2>3
<1>3. CASE DialOpens
  <2>1. up \subseteq left
    BY <1>3 DEF DialOpens
  <2>2. /\ opened' = opened + 1 /\ ws' = opened' /\ up' = up \cup {opened'} /\ dial' = "opening"
        /\ UNCHANGED <<left, starter, reader, got, target, attempt>>
    BY <1>3 DEF DialOpens, Closing
  <2>3. up' \subseteq 1 .. opened' /\ up' \subseteq left' \cup {opened'}
    BY <1>0, <2>1, <2>2
  <2>4. starter \in {"dialing", "done"}
    BY <1>3 DEF DialOpens, TypeOK
  <2>5. \/ starter = "dialing" /\ reader = "none"
        \/ starter = "done" /\ reader = "dialing"
    BY <1>3, <2>4 DEF DialOpens
  <2> QED
    BY <1>0, <2>2, <2>3, <2>5
<1>4. CASE DialRejected
  BY <1>0, <1>4 DEF DialRejected, Sockets, Closing
<1>5. CASE DialFails
  <2>1. up \subseteq left
    BY <1>5 DEF DialFails
  <2>2. starter \in {"dialing", "done"}
    BY <1>5 DEF DialFails, TypeOK
  <2>3. /\ dial' = "no" /\ UNCHANGED <<ws, up, opened, left, got, target>>
        /\ \/ starter = "dialing" /\ starter' = "failed" /\ UNCHANGED <<reader, attempt>>
           \/ starter = "done" /\ starter' = "done" /\ reader' \in {"done", "backoff"}
    BY <1>5, <2>2 DEF DialFails, NextAttempt, Sockets, Closing
  <2> QED
    BY <1>0, <2>1, <2>3
<1>6. CASE DialFatal
  BY <1>0, <1>6 DEF DialFatal, Sockets, Closing
<1>7. CASE DialDone
  BY <1>0, <1>7 DEF DialDone, Sockets, Closing
<1>8. CASE ReadFrame \/ PutFrame
  <2>1. /\ UNCHANGED <<starter, dial, opened, left, ws, up, target, attempt>>
        /\ reader \in {"recv", "put"} /\ reader' \in {"recv", "put"}
        /\ reader' = "put" => got' = got + 1
    BY <1>8 DEF ReadFrame, PutFrame, Sockets, Closing
  <2> QED
    BY <1>0, <2>1
<1>9. CASE SocketLost
  <2>1. up \subseteq left /\ starter = "done"
    BY <1>9 DEF SocketLost, TypeOK
  <2>2. /\ reader = "recv" /\ reader' \in {"done", "backoff"} /\ ws' = 0
        /\ UNCHANGED <<starter, dial, opened, left, up, target>>
    BY <1>9 DEF SocketLost, Sockets, Closing
  <2> QED
    BY <1>0, <2>1, <2>2 DEF TypeOK
<1>10. CASE BackoffEnds
  BY <1>0, <1>10 DEF BackoffEnds, Sockets, Closing
<1>11. CASE Cancelled
  BY <1>0, <1>11 DEF Cancelled, Sockets, Closing
<1>12. CASE NextFrame
  BY <1>0, <1>12 DEF NextFrame, Sockets, Task, Closing
<1>13. CASE Drop
  BY <1>0, <1>13 DEF Drop, Task, Closing
<1>14. ASSUME NEW c \in Closers, Aclose(c) PROVE TasksOK'
  BY <1>0, <1>14 DEF Aclose, Sockets
<1>15. ASSUME NEW c \in Closers, SocketClosed(c) PROVE TasksOK'
  BY <1>0, <1>15 DEF SocketClosed
<1>16. ASSUME NEW c \in Closers, Joined(c) \/ CloseTimesOut(c) PROVE TasksOK'
  BY <1>0, <1>16 DEF Joined, CloseTimesOut, Sockets, Task
<1> QED
  BY <1>1, <1>2, <1>3, <1>4, <1>5, <1>6, <1>7, <1>8, <1>9, <1>10, <1>11, <1>12, <1>13, <1>14,
     <1>15, <1>16, <1>17, <1>18 DEF Next, DialEnds, ReaderStep, CloserStep

\* A socket that a reconnect opens is never beside another: the reader comes to
\* dial only when the socket it had is gone.
LEMMA OneAtATime == TasksOK => OneSocketOpen
BY DEF TasksOK, OneSocketOpen

\* Every step without a timeout leaves no socket behind.
LEMMA QuietKept == TypeOK /\ TasksOK /\ QuietOK /\ [Next]_vars => QuietOK'
<1> SUFFICES ASSUME TypeOK, TasksOK, QuietOK, [Next]_vars PROVE QuietOK'
  OBVIOUS
<1> USE DEF QuietOK, TasksOK, Reading, Dialing
<1>1. CASE UNCHANGED vars
  BY <1>1 DEF vars, Sockets, Task
<1>2. CASE UNCHANGED set /\ Start
  BY <1>2 DEF Start, Sockets
<1>18. CASE UNCHANGED set /\ StartCancelled
  BY <1>18 DEF StartCancelled, TypeOK
<1>19. CASE UNCHANGED set /\ OverlappingStart
  <2>1. UNCHANGED <<set, starter, reader, cancelled>> /\ starter = "dialing"
        /\ state' \in {"CONNECTING", "OPEN"}
    BY <1>19 DEF OverlappingStart, Task
  <2> QED
    BY <2>1
<1>3. CASE UNCHANGED set /\ DialOpens
  BY <1>3 DEF DialOpens
<1>4. CASE UNCHANGED set /\ DialRejected
  BY <1>4 DEF DialRejected, Sockets
<1>5. CASE UNCHANGED set /\ DialFails
  <2>1. up \subseteq left
    BY <1>5 DEF DialFails
  <2> QED
    BY <1>5, <2>1 DEF DialFails, NextAttempt, Finish, Sockets
<1>6. CASE UNCHANGED set /\ DialFatal
  BY <1>6 DEF DialFatal, Finish, Sockets
<1>7. CASE UNCHANGED set /\ DialDone
  BY <1>7 DEF DialDone, Sockets
<1>8. CASE UNCHANGED set /\ (ReadFrame \/ PutFrame)
  BY <1>8 DEF ReadFrame, PutFrame, Sockets
<1>9. CASE UNCHANGED set /\ SocketLost
  BY <1>9 DEF SocketLost, Finish, Sockets
<1>10. CASE UNCHANGED set /\ BackoffEnds
  BY <1>10 DEF BackoffEnds, Finish, Sockets
<1>11. CASE UNCHANGED set /\ Cancelled
  BY <1>11 DEF Cancelled, Finish, Sockets
<1>12. CASE UNCHANGED set /\ NextFrame
  BY <1>12 DEF NextFrame, Sockets, Task
<1>13. CASE UNCHANGED set /\ Drop
  BY <1>13 DEF Drop, Task
<1>14. ASSUME UNCHANGED set, NEW c \in Closers, Aclose(c) PROVE QuietOK'
  BY <1>14 DEF Aclose, JoinTask, Finish, Sockets
<1>15. ASSUME UNCHANGED set, NEW c \in Closers, SocketClosed(c) PROVE QuietOK'
  BY <1>15 DEF SocketClosed, JoinTask, Finish
<1>16. ASSUME UNCHANGED set, NEW c \in Closers, Joined(c) PROVE QuietOK'
  BY <1>16 DEF Joined, Finish, Sockets, Task
<1>17. ASSUME UNCHANGED set, NEW c \in Closers, CloseTimesOut(c) PROVE QuietOK'
  BY <1>17 DEF CloseTimesOut
<1> QED
  BY <1>1, <1>2, <1>3, <1>4, <1>5, <1>6, <1>7, <1>8, <1>9, <1>10, <1>11, <1>12, <1>13, <1>14,
     <1>15, <1>16, <1>17, <1>18, <1>19 DEF Next, DialEnds, ReaderStep, CloserStep

\* Every step keeps track of who is in aclose.
LEMMA ClosingKept == TypeOK /\ TasksOK /\ ClosingOK /\ [Next]_vars => ClosingOK'
<1> SUFFICES ASSUME TypeOK, TasksOK, ClosingOK, [Next]_vars PROVE ClosingOK'
  OBVIOUS
<1> USE DEF ClosingOK
<1>1. CASE UNCHANGED vars \/ (UNCHANGED set /\ NextFrame) \/ (UNCHANGED set /\ Drop)
  <2>1. UNCHANGED <<set, closing, closer, target, starter>> /\ up' \subseteq up
    BY <1>1 DEF vars, NextFrame, Drop, Closing, Sockets
  <2> QED
    BY <2>1
<1>2. CASE UNCHANGED set /\ (Start \/ StartCancelled)
  <2>1. /\ UNCHANGED <<set, closing, closer, target, up>>
        /\ starter' = "dialing" /\ set.orderly => ~ closing
    BY <1>2 DEF Start, StartCancelled, Closing, Sockets
  <2> QED
    BY <2>1
<1>8. CASE UNCHANGED set /\ OverlappingStart
  <2>1. /\ UNCHANGED <<set, closing, closer, target, starter>>
        /\ up' = up \/ up' = up \cup {opened + 1}
    BY <1>8 DEF OverlappingStart, Closing, Sockets
  <2>2. target # opened + 1
    BY DEF TypeOK, TasksOK
  <2> QED
    BY <2>1, <2>2
<1>3. CASE UNCHANGED set /\ DialEnds
  <2>1. /\ UNCHANGED <<set, closing, closer, target>>
        /\ starter' = "dialing" => starter = "dialing"
        /\ up' = up \/ up' = up \cup {opened + 1}
    BY <1>3 DEF DialEnds, DialOpens, DialRejected, DialFails, DialFatal, DialDone, Closing, Sockets
  <2>2. target # opened + 1
    BY DEF TypeOK, TasksOK
  <2> QED
    BY <2>1, <2>2
<1>4. CASE UNCHANGED set /\ ReaderStep
  <2>1. UNCHANGED <<set, closing, closer, target, starter, up>>
    BY <1>4 DEF ReaderStep, ReadFrame, PutFrame, SocketLost, BackoffEnds, Cancelled, Closing, Sockets
  <2> QED
    BY <2>1
<1>5. ASSUME UNCHANGED set, NEW c \in Closers, Aclose(c) PROVE ClosingOK'
  <2>1. /\ closing' = TRUE /\ UNCHANGED <<set, up, starter>> /\ closer[c] = "idle"
        /\ set.orderly => starter # "dialing"
    BY <1>5 DEF Aclose, Sockets
  <2>2. /\ \A d \in Closers \ {c} : closer'[d] = closer[d]
        /\ closer'[c] \in {"returned", "closing", "joining"}
        /\ target' # target => closer'[c] = "closing"
    BY <1>5 DEF Aclose, JoinTask, TypeOK
  <2> QED
    BY <2>1, <2>2
<1>6. ASSUME UNCHANGED set, NEW c \in Closers, SocketClosed(c) PROVE ClosingOK'
  <2>1. /\ UNCHANGED <<set, closing, starter, target>> /\ target \notin up'
        /\ closer[c] = "closing"
    BY <1>6 DEF SocketClosed
  <2>2. /\ \A d \in Closers \ {c} : closer'[d] = closer[d]
        /\ closer'[c] \in {"returned", "joining"}
    BY <1>6 DEF SocketClosed, JoinTask, TypeOK
  <2> QED
    BY <2>1, <2>2
<1>7. ASSUME UNCHANGED set, NEW c \in Closers, Joined(c) \/ CloseTimesOut(c) PROVE ClosingOK'
  <2>1. UNCHANGED <<set, closing, starter, target, up>>
    BY <1>7 DEF Joined, CloseTimesOut, Sockets
  <2>2. /\ \A d \in Closers \ {c} : closer'[d] = closer[d]
        /\ \/ closer[c] = "joining" /\ closer'[c] \in {"returned", "joining"}
           \/ closer[c] = "closing" /\ closer'[c] = "escaped" /\ set.timeouts
    BY <1>7 DEF Joined, CloseTimesOut, TypeOK
  <2> QED
    BY <2>1, <2>2
<1> QED
  BY <1>1, <1>2, <1>3, <1>4, <1>5, <1>6, <1>7, <1>8 DEF Next, CloserStep

\* When the last aclose returns, there is no task left, or only a start.
LEMMA JoinReturns ==
  ASSUME TypeOK, TasksOK, ClosingOK, NEW c \in Closers,
         Aclose(c) \/ SocketClosed(c) \/ Joined(c),
         closer'[c] = "returned", ~ AllReturned, UNCHANGED set, AllReturned'
  PROVE  /\ reader \in {"none", "done"}
         /\ starter # "dialing" \/ (~ set.orderly /\ attempt = 0)
<1> USE DEF TasksOK, Reading, Dialing
<1>0. reader \in {"none", "done"}
  <2>1. CASE Aclose(c)
    <3>1. ~ closing
      <4>1. ASSUME closing PROVE AllReturned
        <5>1. ~ set.timeouts
          BY DEF AllReturned
        <5>2. ASSUME NEW d \in Closers PROVE closer[d] \notin {"closing", "joining"}
          <6>1. d # c => closer'[d] = closer[d]
            BY <2>1, <4>1 DEF Aclose, TypeOK
          <6>2. closer'[d] \notin {"closing", "joining"}
            BY DEF AllReturned
          <6> QED
            BY <2>1, <6>1, <6>2 DEF Aclose
        <5> QED
          BY <4>1, <5>1, <5>2 DEF AllReturned
      <4> QED
        BY <4>1
    <3> QED
      BY <2>1, <3>1 DEF Aclose, JoinTask, TypeOK
  <2>2. CASE SocketClosed(c)
    <3>1. closer[c] = "closing"
      BY <2>2 DEF SocketClosed
    <3> QED
      BY <2>2, <3>1 DEF SocketClosed, JoinTask, TypeOK
  <2>3. CASE Joined(c)
    BY <2>3 DEF Joined
  <2> QED
    BY <2>1, <2>2, <2>3
<1>1. set.orderly => starter # "dialing"
  BY DEF Aclose, SocketClosed, Joined, ClosingOK
<1> QED
  BY <1>0, <1>1

\* Every step after the last return of aclose leaves no reconnect.
LEMMA ReturnedKept ==
  TypeOK /\ TasksOK /\ QuietOK /\ ClosingOK /\ ReturnedOK /\ [Next]_vars => ReturnedOK'
<1> SUFFICES ASSUME TypeOK, TasksOK, QuietOK, ClosingOK, ReturnedOK, [Next]_vars, AllReturned'
             PROVE  ReturnedOK'
  BY DEF ReturnedOK
<1> USE DEF TasksOK, Reading, Dialing
<1>1. ASSUME NEW c \in Closers, UNCHANGED set, Aclose(c) \/ SocketClosed(c) \/ Joined(c)
      PROVE  ReturnedOK'
  <2>1. closer'[c] = "returned"
    <3>1. closer'[c] \in {"returned", "closing", "joining"}
      BY <1>1 DEF Aclose, SocketClosed, JoinTask, Joined, TypeOK
    <3> QED
      BY <3>1 DEF AllReturned
  <2>2. UNCHANGED <<set, reader, starter, attempt>>
    BY <1>1 DEF Aclose, SocketClosed, Joined, Task
  <2>3. CASE AllReturned
    BY <2>2, <2>3 DEF ReturnedOK
  <2>4. CASE ~ AllReturned
    BY <1>1, <2>1, <2>2, <2>4, JoinReturns DEF ReturnedOK
  <2> QED
    BY <2>3, <2>4
<1>2. ASSUME NEW c \in Closers, UNCHANGED set, CloseTimesOut(c) PROVE ReturnedOK'
  BY <1>2 DEF CloseTimesOut, AllReturned
<1>3. ASSUME UNCHANGED <<set, closing, closer>> PROVE AllReturned
  BY <1>3 DEF AllReturned
<1>4. CASE UNCHANGED vars \/ (UNCHANGED set /\ NextFrame) \/ (UNCHANGED set /\ Drop)
  <2>1. UNCHANGED <<set, closing, closer, starter, reader, attempt>>
    BY <1>4 DEF vars, NextFrame, Drop, Task, Closing
  <2> QED
    BY <1>3, <2>1 DEF ReturnedOK
<1>6. CASE UNCHANGED set /\ Start
  <2>1. /\ UNCHANGED <<set, closing, closer, reader, attempt>> /\ reader = "none"
        /\ starter # "done" /\ (set.orderly => ~ closing)
    BY <1>6 DEF Start, Closing
  <2>2. closing
    BY <1>3, <2>1 DEF AllReturned
  <2> QED
    BY <2>1, <2>2 DEF ReturnedOK
<1>9. CASE UNCHANGED set /\ StartCancelled
  <2>1. /\ UNCHANGED <<set, closing, closer, reader>> /\ reader = "none"
        /\ starter' = "failed"
    BY <1>9 DEF StartCancelled, Closing
  <2> QED
    BY <2>1 DEF ReturnedOK
<1>10. CASE UNCHANGED set /\ OverlappingStart
  <2>1. UNCHANGED <<set, closing, closer, starter, reader, attempt>>
    BY <1>10 DEF OverlappingStart, Task, Closing
  <2> QED
    BY <1>3, <2>1 DEF ReturnedOK
<1>7. CASE UNCHANGED set /\ DialEnds
  <2>1. UNCHANGED <<set, closing, closer>> /\ dial # "no"
    BY <1>7 DEF DialEnds, DialOpens, DialRejected, DialFails, DialFatal, DialDone, Dialing, Closing
  <2>2. /\ starter = "dialing" /\ reader = "none" /\ ~ set.orderly /\ attempt = 0
    BY <1>3, <2>1 DEF ReturnedOK, TypeOK
  <2>3. attempt' = 0 /\ reader' \in {"none", "recv"}
    BY <1>7, <2>2 DEF DialEnds, DialOpens, DialRejected, DialFails, DialFatal, DialDone
  <2> QED
    BY <2>1, <2>2, <2>3 DEF ReturnedOK
<1>8. CASE UNCHANGED set /\ ReaderStep
  <2>1. UNCHANGED <<set, closing, closer, starter>> /\ reader \notin {"none", "done"}
    BY <1>8 DEF ReaderStep, ReadFrame, PutFrame, SocketLost, BackoffEnds, Cancelled, Closing
  <2>2. ~ set.orderly /\ attempt = 0 /\ reader \in {"recv", "put"} /\ closing
    BY <1>3, <2>1 DEF ReturnedOK, AllReturned, TypeOK
  <2>3. reader' \in {"recv", "put", "done"} /\ attempt' = 0
    BY <1>8, <2>2 DEF ReaderStep, ReadFrame, PutFrame, SocketLost, BackoffEnds, Cancelled
  <2> QED
    BY <2>1, <2>2, <2>3 DEF ReturnedOK
<1> QED
  BY <1>1, <1>2, <1>4, <1>6, <1>7, <1>8, <1>9, <1>10 DEF Next, CloserStep

\* What the parts say of a connection that was closed.
LEMMA ReturnedClosed ==
  TypeOK /\ TasksOK /\ QuietOK /\ ClosingOK /\ ReturnedOK => ClosedMeansClosed
<1> SUFFICES ASSUME TypeOK, TasksOK, QuietOK, ClosingOK, ReturnedOK,
                    ~ set.timeouts,
                    NEW c \in Closers, closer[c] = "returned",
                    \A d \in Closers : closer[d] \notin {"closing", "joining"}
             PROVE  /\ target \notin up
                    /\ \/ up \subseteq left /\ reader \in {"none", "done"}
                       \/ ~ set.orderly /\ attempt = 0 /\ reader \notin {"backoff", "dialing"}
  BY DEF ClosedMeansClosed
<1>1. AllReturned /\ target \notin up
  BY DEF AllReturned, ClosingOK
<1>2. CASE starter # "dialing" /\ reader \in {"none", "done"}
  BY <1>1, <1>2 DEF QuietOK, TasksOK, Reading, TypeOK
<1> QED
  BY <1>1, <1>2 DEF ReturnedOK

-----------------------------------------------------------------------------
\* The gaps between the frames.

LEMMA LastTyped ==
  ASSUME TypeOK
  PROVE  /\ last \in [conn : Socket, n : 0 .. MaxFrames, marked : BOOLEAN, dropped : Nat]
         /\ last.conn \in Nat /\ last.n \in Nat /\ last.dropped \in Nat /\ dropped \in Nat
         /\ opened \in Nat /\ got \in Nat
         /\ queue \in Seq(Item) /\ Len(queue) \in Nat
BY LenProperties DEF TypeOK, Socket

\* An item that is pushed leaves no gap if it is an end or a marker, or if it
\* meets what is queued; what it evicts is counted.
LEMMA PushGapless ==
  ASSUME TypeOK, GaplessOK, NEW x \in Item, Push(x), last' = last,
         IsFrame(x) => /\ Ready(queue, x)
                       /\ Eventless(queue, Len(queue) + 1) => Told \/ Follows(last, x)
  PROVE  /\ Gapless(queue')
         /\ Told' \/ Joins(last, queue')
         /\ \A b : IsEvent(x) /\ Meets(x, b) => Ready(queue', b)
         /\ IsEvent(x) => ~ Eventless(queue', Len(queue') + 1)
         /\ ~ IsEvent(x) /\ Eventless(queue, Len(queue) + 1) => Eventless(queue', Len(queue') + 1)
         /\ dropped' >= last'.dropped
<1>1. PICK q \in Seq(Item) :
        /\ queue' = Append(q, x)
        /\ \/ q = queue /\ dropped' = dropped
           \/ queue # <<>> /\ q = Tail(queue) /\ dropped' = dropped + 1
  BY Pushed
<1>2. queue \in Seq(Item) /\ dropped \in Nat /\ last.dropped \in Nat /\ dropped >= last.dropped
  BY LastTyped DEF GaplessOK
<1>3. Gapless(q) /\ (IsFrame(x) => Ready(q, x))
      /\ (Eventless(queue, Len(queue) + 1) => Eventless(q, Len(q) + 1))
  BY <1>1, <1>2, RestKeeps DEF GaplessOK
<1>4. Told' \/ Joins(last, queue')
  <2>1. CASE q = queue /\ dropped' = dropped
    <3>1. Told' <=> Told
      BY <2>1 DEF Told
    <3>2. ASSUME ~ Told PROVE Joins(last, Append(q, x))
      <4>1. Joins(last, q) /\ (IsFrame(x) /\ Eventless(q, Len(q) + 1) => Follows(last, x))
        BY <2>1, <3>2 DEF GaplessOK
      <4> QED
        BY <4>1, MoreJoins
    <3> QED
      BY <1>1, <3>1, <3>2
  <2>2. CASE dropped' = dropped + 1
    BY <1>2, <2>2 DEF Told
  <2> QED
    BY <1>1, <2>1, <2>2
<1>5. Gapless(queue')
  BY <1>1, <1>3, MoreGapless
<1>6. /\ \A b : IsEvent(x) /\ Meets(x, b) => Ready(queue', b)
      /\ IsEvent(x) => ~ Eventless(queue', Len(queue') + 1)
      /\ ~ IsEvent(x) /\ Eventless(queue, Len(queue) + 1) => Eventless(queue', Len(queue') + 1)
  BY <1>1, <1>3, MoreReady
<1>7. dropped' >= last'.dropped
  BY <1>1, <1>2
<1> QED
  BY <1>4, <1>5, <1>6, <1>7

\* What the consumer takes leaves no gap behind it.
LEMMA TakeGapless ==
  ASSUME TypeOK, GaplessOK, NextFrame, UNCHANGED <<dropped, starter>>
  PROVE  /\ Gapless(queue')
         /\ Told' \/ Joins(last', queue')
         /\ \A b : Ready(queue, b) => Ready(queue', b)
         /\ \A b : /\ Ready(queue, b)
                   /\ Eventless(queue, Len(queue) + 1) => Told \/ Follows(last, b)
                   /\ Eventless(queue', Len(queue') + 1)
                   => Told' \/ Follows(last', b)
         /\ starter' # "done" => /\ last'.conn = 1 /\ last'.n = 0
                                 /\ Eventless(queue', Len(queue') + 1)
         /\ dropped' >= last'.dropped
<1> DEFINE q == queue
<1>1. q \in Seq(Item) /\ q # <<>> /\ Tail(q) \in Seq(Item) /\ q[1] \in Item
      /\ Len(q) \in Nat /\ Len(q) >= 1 /\ Len(Tail(q)) = Len(q) - 1
  BY Taken, Rest
<1>2. Gapless(Tail(q)) /\ (\A b : Ready(q, b) => Ready(Tail(q), b))
      /\ (Eventless(q, Len(q) + 1) => Eventless(Tail(q), Len(Tail(q)) + 1))
  BY <1>1, RestKeeps DEF GaplessOK
<1>3. starter' # "done" => last.conn = 1 /\ last.n = 0 /\ Eventless(q, Len(q) + 1) /\ ~ IsEvent(q[1])
  <2>1. Eventless(q, Len(q) + 1) => ~ IsEvent(q[1])
    BY <1>1 DEF Eventless
  <2> QED
    BY <2>1 DEF GaplessOK
<1>4. CASE /\ q[1].kind \in Ends
           /\ queue' = Append(Tail(q), q[1])
           /\ last' = last
  <2>1. ~ IsEvent(q[1]) /\ ~ IsFrame(q[1])
    BY <1>1, <1>4, ItemTyped DEF IsEvent
  <2>2. Gapless(queue')
    BY <1>1, <1>2, <1>4, <2>1, MoreGapless
  <2>3. Told' <=> Told
    BY <1>4 DEF Told
  <2>4. Told \/ Joins(last, queue')
    BY <1>1, <1>4, <2>1, RestJoins, MoreJoins DEF GaplessOK
  <2>5. \A b : Ready(q, b) => Ready(queue', b)
    BY <1>1, <1>2, <1>4, <2>1, MoreReady
  <2>6. Eventless(queue', Len(queue') + 1) <=> Eventless(Tail(q), Len(Tail(q)) + 1)
    BY <1>1, <1>4, <2>1, MoreReady
  <2>7. Eventless(Tail(q), Len(Tail(q)) + 1) => Eventless(q, Len(q) + 1)
    <3>1. Len(Tail(q)) + 1 = Len(q)
      BY <1>1
    <3> QED
      BY <1>1, <2>1, <3>1, RestEventless
  <2> QED
    BY <1>2, <1>3, <1>4, <2>2, <2>3, <2>4, <2>5, <2>6, <2>7 DEF GaplessOK
<1>5. CASE /\ q[1].kind = "reconnected"
           /\ queue' = Tail(q)
           /\ last' = [last EXCEPT !.marked = TRUE]
  <2>1. last'.marked = TRUE /\ last'.dropped = last.dropped
    BY <1>5, LastTyped
  <2>2. IsEvent(q[1])
    BY <1>5 DEF IsEvent, Ends
  <2> QED
    BY <1>2, <1>3, <1>5, <2>1, <2>2 DEF GaplessOK, Told
<1>6. CASE /\ IsFrame(q[1])
           /\ queue' = Tail(q)
           /\ last' = [conn |-> q[1].conn, n |-> q[1].n, marked |-> FALSE, dropped |-> dropped]
  <2>1. IsEvent(q[1]) /\ q[1].kind # "reconnected"
    BY <1>6 DEF IsFrame, IsEvent, Ends
  <2>2. \A b : Follows(last', b) <=> Follows(q[1], b)
    BY <1>6 DEF Follows
  <2>3. Joins(last', queue')
    <3>1. Joins(q[1], Tail(q))
      BY <1>1, <1>6, RestJoins DEF GaplessOK
    <3> QED
      BY <1>6, <2>2, <3>1 DEF Joins
  <2>4. ASSUME NEW b, Ready(q, b), Eventless(queue', Len(queue') + 1)
        PROVE  Follows(last', b)
    BY <1>1, <1>6, <2>1, <2>2, <2>4, RestReady DEF Meets
  <2>5. dropped' >= last'.dropped
    BY <1>6, LastTyped
  <2> QED
    BY <1>2, <1>3, <1>6, <2>1, <2>3, <2>4, <2>5
<1> QED
  BY <1>4, <1>5, <1>6, Taken

\* A step that queues and takes nothing.
LEMMA StillGapless ==
  ASSUME GaplessOK, UNCHANGED <<queue, dropped, last>>,
         Reading' => Reading /\ Coming' = Coming,
         starter' # "done" => starter # "done"
  PROVE  GaplessOK'
BY DEF GaplessOK, Told, Joins, Follows, Ready, Meets, Precedes, Eventless, IsEvent, IsFrame, Gapless

\* A step that ends the connection.
LEMMA FinishGapless ==
  ASSUME TypeOK, GaplessOK, NEW kind \in Ends, Finish(kind), last' = last,
         ~ Reading', starter' # "done" => starter # "done"
  PROVE  GaplessOK'
<1>1. /\ End(kind) \in Item /\ ~ IsEvent(End(kind)) /\ ~ IsFrame(End(kind))
      /\ Push(End(kind))
  BY EndsTyped DEF Finish
<1>2. /\ Gapless(queue')
      /\ Told' \/ Joins(last, queue')
      /\ Eventless(queue, Len(queue) + 1) => Eventless(queue', Len(queue') + 1)
      /\ dropped' >= last'.dropped
  BY <1>1, PushGapless
<1> QED
  BY <1>2 DEF GaplessOK

\* A step that queues the frame that was to come, before the next one.
LEMMA FrameGapless ==
  ASSUME TypeOK, GaplessOK, Reading, Reading', NEW x \in Item, IsFrame(x), Push(x),
         x.conn = Coming.conn, x.n = Coming.n, Follows(x, Coming'),
         last' = last, starter' = "done"
  PROVE  GaplessOK'
<1>1. IsEvent(x)
  BY ItemTyped
<1>2. Ready(queue, x) /\ (Eventless(queue, Len(queue) + 1) => Told \/ Follows(last, x))
  <2>1. \A a : Follows(a, Coming) <=> Follows(a, x)
    BY DEF Follows
  <2>2. \A a : Meets(a, Coming) <=> Meets(a, x)
    BY <2>1 DEF Meets
  <2>3. Ready(queue, Coming) /\ (Eventless(queue, Len(queue) + 1) => Told \/ Follows(last, Coming))
    BY DEF GaplessOK
  <2> QED
    BY <2>1, <2>2, <2>3 DEF Ready
<1>3. /\ Gapless(queue')
      /\ Told' \/ Joins(last, queue')
      /\ \A b : IsEvent(x) /\ Meets(x, b) => Ready(queue', b)
      /\ IsEvent(x) => ~ Eventless(queue', Len(queue') + 1)
      /\ dropped' >= last'.dropped
  BY <1>2, PushGapless
<1>4. Ready(queue', Coming')
  BY <1>1, <1>3 DEF Meets
<1> QED
  BY <1>1, <1>3, <1>4 DEF GaplessOK

\* Every step keeps the gaps marked or counted.
LEMMA GaplessKept == TypeOK /\ TasksOK /\ GaplessOK /\ [Next]_vars => GaplessOK'
<1> SUFFICES ASSUME TypeOK, TasksOK, GaplessOK, [Next]_vars PROVE GaplessOK'
  OBVIOUS
<1>0. "stop" \in Ends /\ "error" \in Ends
  BY DEF Ends
<1>1. CASE UNCHANGED vars \/ Drop
  <2>1. UNCHANGED <<queue, dropped, last, reader, dial, opened, got, starter>>
    BY <1>1 DEF vars, Drop, Buffer, Task, Seen
  <2> QED
    BY <2>1, StillGapless DEF Reading, Coming
<1>2. CASE Start \/ StartCancelled \/ OverlappingStart \/ DialRejected \/ DialOpens
  <2>1. /\ UNCHANGED <<queue, dropped, last, reader>>
        /\ starter' # "done" => starter # "done"
        /\ reader \notin {"recv", "put"}
    BY <1>2 DEF Start, StartCancelled, OverlappingStart, DialRejected, DialOpens, Dialing,
                TasksOK, TypeOK, Buffer, Task, Seen
  <2> QED
    BY <2>1, StillGapless DEF Reading
<1>3. CASE DialFails \/ DialFatal
  <2>1. /\ last' = last /\ ~ Reading'
        /\ starter' # "done" => starter # "done"
        /\ UNCHANGED <<queue, dropped>> \/ Finish("error")
    BY <1>3 DEF DialFails, DialFatal, NextAttempt, Dialing, Reading, TasksOK, TypeOK, Buffer, Seen
  <2> QED
    BY <1>0, <2>1, StillGapless, FinishGapless
<1>4. CASE DialDone
  <2>1. /\ reader' = "recv" /\ got' = 0 /\ opened' = opened /\ starter' = "done"
        /\ ws = opened /\ opened \in Nat
    BY <1>4 DEF DialDone, TasksOK, TypeOK, Sockets
  <2>2. CASE UNCHANGED Buffer /\ starter = "dialing" /\ last' = [last EXCEPT !.conn = ws]
    <3>1. last.n = 0 /\ Eventless(queue, Len(queue) + 1)
      BY <2>2 DEF GaplessOK
    <3>2. /\ last'.conn = opened /\ last'.n = 0
          /\ last'.marked = last.marked /\ last'.dropped = last.dropped
      BY <2>1, <2>2, <3>1, LastTyped
    <3>3. Follows(last', Coming')
      BY <2>1, <3>2 DEF Follows, Coming
    <3>4. \A b : Ready(queue, b)
      BY <3>1, LastTyped DEF Ready, Eventless, Precedes
    <3>5. queue' = queue /\ dropped' = dropped
      BY <2>2 DEF Buffer
    <3>6. Ready(queue', Coming')
      BY <3>4, <3>5
    <3>7. Joins(last', queue')
      BY <3>1, <3>5, LastTyped, ItemTyped DEF Joins, Eventless, IsEvent, IsFrame, Ends
    <3>8. Gapless(queue') /\ dropped' >= last'.dropped
      BY <3>2, <3>5 DEF GaplessOK
    <3> QED
      BY <2>1, <3>3, <3>6, <3>7, <3>8 DEF GaplessOK
  <2>3. CASE Push(Reconnected) /\ last' = last
    <3>1. Reconnected \in Item /\ IsEvent(Reconnected) /\ ~ IsFrame(Reconnected)
          /\ \A b : Meets(Reconnected, b)
      BY EndsTyped DEF Meets, Reconnected
    <3>2. /\ Gapless(queue')
          /\ Told' \/ Joins(last, queue')
          /\ \A b : Ready(queue', b)
          /\ ~ Eventless(queue', Len(queue') + 1)
          /\ dropped' >= last'.dropped
      BY <2>3, <3>1, PushGapless
    <3>3. Ready(queue', Coming')
      BY <3>2
    <3> QED
      BY <2>1, <2>3, <3>2, <3>3 DEF GaplessOK
  <2> QED
    BY <1>4, <2>2, <2>3 DEF DialDone
<1>5. CASE ReadFrame
  <2>1. /\ reader = "recv" /\ got' = got + 1 /\ got < MaxFrames
        /\ UNCHANGED <<last, opened, starter>> /\ ws = opened /\ ws \in Socket
        /\ starter = "done" /\ got \in Nat /\ opened \in Nat
    BY <1>5 DEF ReadFrame, TasksOK, TypeOK, Reading, Socket, Sockets, Seen
  <2>2. CASE reader' = "put" /\ UNCHANGED Buffer
    BY <2>1, <2>2, StillGapless DEF Reading, Coming, Buffer
  <2>3. CASE reader' = reader /\ Push(Frame(ws, got'))
    <3>1. Frame(ws, got') \in Item /\ IsFrame(Frame(ws, got'))
      BY <2>1, FramesTyped DEF TypeOK
    <3>2. Frame(ws, got').conn = opened /\ Frame(ws, got').n = got + 1
      BY <2>1 DEF Frame
    <3>3. Coming = [conn |-> opened, n |-> got + 1] /\ Coming' = [conn |-> opened, n |-> got + 2]
          /\ Reading /\ Reading'
      BY <2>1, <2>3 DEF Coming, Reading
    <3>4. Follows(Frame(ws, got'), Coming')
      BY <2>1, <3>2, <3>3 DEF Follows
    <3> QED
      BY <2>1, <2>3, <3>1, <3>2, <3>3, <3>4, FrameGapless
  <2> QED
    BY <1>5, <2>2, <2>3 DEF ReadFrame
<1>6. CASE PutFrame
  <2>1. /\ reader = "put" /\ reader' = "recv" /\ got \in 1 .. MaxFrames
        /\ UNCHANGED <<last, opened, starter, got>> /\ ws = opened /\ ws \in Socket
        /\ starter = "done" /\ opened \in Nat /\ Push(Frame(ws, got))
    BY <1>6 DEF PutFrame, TasksOK, TypeOK, Reading, Socket, Sockets, Seen
  <2>2. Frame(ws, got) \in Item /\ IsFrame(Frame(ws, got))
    BY <2>1, FramesTyped
  <2>3. Frame(ws, got).conn = opened /\ Frame(ws, got).n = got
    BY <2>1 DEF Frame
  <2>4. Coming = [conn |-> opened, n |-> got] /\ Coming' = [conn |-> opened, n |-> got + 1]
        /\ Reading /\ Reading'
    BY <2>1 DEF Coming, Reading
  <2>5. Follows(Frame(ws, got), Coming')
    BY <2>1, <2>3, <2>4 DEF Follows
  <2> QED
    BY <2>1, <2>2, <2>3, <2>4, <2>5, FrameGapless
<1>7. CASE SocketLost \/ BackoffEnds \/ Cancelled
  <2>1. /\ last' = last /\ ~ Reading' /\ starter' = starter
        /\ UNCHANGED <<queue, dropped>> \/ Finish("stop") \/ Finish("error")
    BY <1>7 DEF SocketLost, BackoffEnds, Cancelled, Reading, Buffer, Seen
  <2> QED
    BY <1>0, <2>1, StillGapless, FinishGapless
<1>8. CASE NextFrame
  <2>1. UNCHANGED <<dropped, starter, reader, dial, opened, got>>
    BY <1>8 DEF NextFrame, Sockets, Task
  <2>2. Coming' = Coming /\ Reading' = Reading
    BY <2>1 DEF Coming, Reading
  <2> QED
    BY <1>8, <2>1, <2>2, TakeGapless DEF GaplessOK
<1>9. ASSUME NEW c \in Closers, Aclose(c) \/ SocketClosed(c) \/ Joined(c) \/ CloseTimesOut(c)
      PROVE  GaplessOK'
  <2>1. /\ UNCHANGED <<last, reader, dial, opened, got, starter>>
        /\ \/ UNCHANGED <<queue, dropped>>
           \/ Finish("stop") /\ reader \in {"none", "done"}
    BY <1>9 DEF Aclose, SocketClosed, Joined, CloseTimesOut, JoinTask, Sockets, Task, Buffer, Seen
  <2> QED
    BY <1>0, <2>1, StillGapless, FinishGapless DEF Reading, Coming
<1> QED
  BY <1>1, <1>2, <1>3, <1>4, <1>5, <1>6, <1>7, <1>8, <1>9 DEF Next, DialEnds, ReaderStep, CloserStep

-----------------------------------------------------------------------------
\* The order of the frames, and of the end.

\* A start is over: the first reader reads from the socket it opened.
FirstReads ==
    /\ DialDone
    /\ starter = "dialing"
    /\ UNCHANGED <<queue, dropped, ended>>
    /\ last' = [last EXCEPT !.conn = opened]

\* What a step does to the queue.
LEMMA QueueSteps ==
  ASSUME TypeOK, TasksOK, [Next]_vars
  PROVE  \/ UNCHANGED <<queue, last, ended>>
         \/ /\ UNCHANGED <<last, ended>>
            /\ \E x \in Item : ~ IsFrame(x) /\ Push(x)
         \/ /\ UNCHANGED <<last, ended>>
            /\ \E x \in Item : /\ IsFrame(x) /\ Push(x) /\ Follows(x, Coming')
                               /\ x.conn = Coming.conn /\ x.n = Coming.n
         \/ NextFrame
         \/ FirstReads
<1>0. \A kind : kind \in {"stop", "error"} /\ Finish(kind)
                  => \E x \in Item : ~ IsFrame(x) /\ Push(x)
  BY EndsTyped DEF Finish, Ends
<1>1. CASE \/ UNCHANGED vars \/ Drop \/ Start \/ StartCancelled \/ OverlappingStart
           \/ DialRejected \/ DialOpens
  BY <1>1 DEF vars, Drop, Start, StartCancelled, OverlappingStart, DialRejected, DialOpens,
              Buffer, Seen
<1>2. CASE \/ DialFails \/ DialFatal \/ SocketLost \/ BackoffEnds \/ Cancelled
  <2>1. /\ UNCHANGED <<last, ended>>
        /\ UNCHANGED queue \/ Finish("stop") \/ Finish("error")
    BY <1>2 DEF DialFails, DialFatal, NextAttempt, SocketLost, BackoffEnds, Cancelled, Buffer, Seen
  <2> QED
    BY <1>0, <2>1
<1>3. ASSUME NEW c \in Closers, Aclose(c) \/ SocketClosed(c) \/ Joined(c) \/ CloseTimesOut(c)
      PROVE  /\ UNCHANGED <<last, ended>>
             /\ UNCHANGED queue \/ Finish("stop")
  BY <1>3 DEF Aclose, SocketClosed, Joined, CloseTimesOut, JoinTask, Buffer, Seen
<1>4. CASE DialDone
  <2>1. CASE Push(Reconnected) /\ last' = last
    BY <1>4, <2>1, EndsTyped DEF DialDone
  <2>2. CASE starter = "dialing" /\ UNCHANGED Buffer /\ last' = [last EXCEPT !.conn = ws]
    <3>1. ws = opened
      BY <1>4 DEF DialDone, TasksOK
    <3> QED
      BY <1>4, <2>2, <3>1 DEF FirstReads, DialDone, Buffer
  <2> QED
    BY <1>4, <2>1, <2>2 DEF DialDone
<1>5. CASE ReadFrame
  <2>1. /\ reader = "recv" /\ got' = got + 1 /\ got' \in 1 .. MaxFrames
        /\ UNCHANGED <<last, ended, opened>> /\ ws = opened /\ ws \in Socket /\ got \in Nat
    BY <1>5 DEF ReadFrame, TasksOK, TypeOK, Reading, Socket, Sockets, Seen
  <2>2. CASE reader' = reader /\ Push(Frame(ws, got'))
    <3>1. Frame(ws, got') \in Item /\ IsFrame(Frame(ws, got'))
      BY <2>1, FramesTyped
    <3>2. Frame(ws, got').conn = opened /\ Frame(ws, got').n = got + 1
      BY <2>1 DEF Frame
    <3>3. Coming = [conn |-> opened, n |-> got + 1] /\ Coming' = [conn |-> opened, n |-> got + 2]
      BY <2>1, <2>2 DEF Coming
    <3>4. Follows(Frame(ws, got'), Coming')
      BY <2>1, <3>2, <3>3 DEF Follows
    <3> QED
      BY <2>1, <2>2, <3>1, <3>2, <3>3, <3>4
  <2> QED
    BY <1>5, <2>1, <2>2 DEF ReadFrame, Buffer
<1>6. CASE PutFrame
  <2>1. /\ reader = "put" /\ reader' = "recv" /\ got \in 1 .. MaxFrames
        /\ UNCHANGED <<last, ended, opened, got>> /\ ws = opened /\ ws \in Socket
        /\ Push(Frame(ws, got))
    BY <1>6 DEF PutFrame, TasksOK, TypeOK, Reading, Socket, Sockets, Seen
  <2>2. Frame(ws, got) \in Item /\ IsFrame(Frame(ws, got))
    BY <2>1, FramesTyped
  <2>3. Frame(ws, got).conn = opened /\ Frame(ws, got).n = got
    BY <2>1 DEF Frame
  <2>4. Coming = [conn |-> opened, n |-> got] /\ Coming' = [conn |-> opened, n |-> got + 1]
    BY <2>1 DEF Coming
  <2>5. Follows(Frame(ws, got), Coming')
    BY <2>1, <2>3, <2>4 DEF Follows
  <2> QED
    BY <2>1, <2>2, <2>3, <2>4, <2>5
<1> QED
  BY <1>0, <1>1, <1>2, <1>3, <1>4, <1>5, <1>6 DEF Next, DialEnds, ReaderStep, CloserStep

AtLeast(a, b) == a.conn < b.conn \/ (a.conn = b.conn /\ a.n <= b.n)

LEMMA ComingTyped ==
  ASSUME TypeOK
  PROVE  Coming.conn \in Nat /\ Coming.n \in Nat
BY LastTyped DEF Coming

\* The frame that is to come never comes before one that was.
LEMMA ComingGrows ==
  ASSUME TypeOK, TasksOK, [Next]_vars
  PROVE  AtLeast(Coming, Coming')
<1> USE DEF AtLeast, Coming, TasksOK, Reading, Dialing
<1>0. opened \in Nat /\ got \in Nat
  BY LastTyped
<1>1. CASE \/ UNCHANGED vars \/ Drop \/ NextFrame
           \/ \E c \in Closers : Aclose(c) \/ SocketClosed(c) \/ Joined(c) \/ CloseTimesOut(c)
  <2>1. UNCHANGED <<reader, dial, opened, got>>
    BY <1>1 DEF vars, Drop, NextFrame, Aclose, SocketClosed, Joined, CloseTimesOut, Sockets, Task
  <2> QED
    BY <1>0, <2>1
<1>2. CASE \/ Start \/ StartCancelled \/ DialOpens \/ DialRejected \/ DialFails \/ DialFatal
           \/ DialDone
  <2>1. reader \notin {"recv", "put"}
    BY <1>2 DEF Start, StartCancelled, DialOpens, DialRejected, DialFails, DialFatal, DialDone, TypeOK
  <2>2. CASE Start \/ DialRejected
    BY <1>0, <2>1, <2>2 DEF Start, DialRejected, Sockets
  <2>3. CASE DialOpens
    BY <1>0, <2>1, <2>3 DEF DialOpens
  <2>4. CASE StartCancelled \/ DialFails \/ DialFatal
    <3>1. opened' = opened /\ dial' = "no" /\ reader' \notin {"recv", "put"}
      BY <2>1, <2>4 DEF StartCancelled, DialFails, DialFatal, NextAttempt, Sockets
    <3> QED
      BY <1>0, <2>1, <3>1
  <2>5. CASE DialDone
    BY <1>0, <2>1, <2>5 DEF DialDone, Sockets
  <2> QED
    BY <1>2, <2>2, <2>3, <2>4, <2>5
<1>5. CASE OverlappingStart
  <2>1. /\ UNCHANGED <<starter, reader, dial, got>> /\ starter = "dialing"
        /\ opened' = opened \/ opened' = opened + 1
    BY <1>5 DEF OverlappingStart, Sockets, Task
  <2>2. reader = "none" /\ reader' = "none" /\ dial' = dial
    BY <2>1
  <2> QED
    BY <1>0, <2>1, <2>2
<1>3. CASE ReadFrame \/ PutFrame
  <2>1. /\ opened' = opened
        /\ \/ reader = "recv" /\ got' = got + 1 /\ reader' \in {"recv", "put"}
           \/ reader = "put" /\ got' = got /\ reader' = "recv"
    BY <1>3 DEF ReadFrame, PutFrame, Sockets
  <2> QED
    BY <1>0, <2>1
<1>4. CASE SocketLost \/ BackoffEnds \/ Cancelled
  <2>1. /\ opened' = opened /\ reader' \notin {"recv", "put"}
        /\ dial' = "opening" => dial = "opening" /\ reader \notin {"recv", "put"}
    BY <1>4 DEF SocketLost, BackoffEnds, Cancelled, Sockets, TypeOK
  <2> QED
    BY <1>0, <2>1
<1> QED
  BY <1>1, <1>2, <1>3, <1>4, <1>5 DEF Next, DialEnds, ReaderStep, CloserStep

\* The frames of a queue are within wider bounds.
LEMMA Wider ==
  ASSUME NEW q \in Seq(Item), NEW a, NEW b, NEW c, Within(q, a, b), AtLeast(b, c),
         b.conn \in Nat, b.n \in Nat, c.conn \in Nat, c.n \in Nat
  PROVE  Within(q, a, c)
<1> SUFFICES ASSUME NEW i \in 1 .. Len(q), IsFrame(q[i])
             PROVE  Before(a, q[i]) /\ Before(q[i], c)
  BY DEF Within
<1>1. q[i] \in Item
  BY ElementOfSeq
<1>2. q[i].conn \in Nat /\ q[i].n \in Nat
  BY <1>1, ItemTyped DEF Socket
<1>3. Before(a, q[i]) /\ Before(q[i], b)
  BY DEF Within
<1> QED
  BY <1>2, <1>3 DEF Before, AtLeast

\* A pushed frame is behind all the others.
LEMMA MoreWithin ==
  ASSUME NEW q \in Seq(Item), NEW x \in Item, NEW a, NEW b,
         Within(q, a, b), Before(a, x), Before(x, b)
  PROVE  Within(Append(q, x), a, b)
<1>1. /\ Len(q) \in Nat /\ Len(Append(q, x)) = Len(q) + 1
      /\ \A k \in 1 .. Len(q) : Append(q, x)[k] = q[k]
      /\ Append(q, x)[Len(q) + 1] = x
  BY More
<1> QED
  BY <1>1 DEF Within

\* Every step keeps the frames in order.
LEMMA OrderKept == TypeOK /\ TasksOK /\ GaplessOK /\ OrderOK /\ [Next]_vars => OrderOK'
<1> SUFFICES ASSUME TypeOK, TasksOK, GaplessOK, OrderOK, [Next]_vars PROVE OrderOK'
  OBVIOUS
<1> DEFINE d == Coming'
<1>1. AtLeast(Coming, d) /\ Coming.conn \in Nat /\ Coming.n \in Nat /\ d.conn \in Nat /\ d.n \in Nat
  <2>1. TypeOK'
    BY TypesKept
  <2>2. d.conn \in Nat /\ d.n \in Nat
    <3>1. opened' \in Nat /\ got' \in Nat
      BY <2>1 DEF TypeOK
    <3>2. \/ Coming' = [conn |-> opened', n |-> got' + 1]
          \/ Coming' = [conn |-> opened', n |-> got']
          \/ Coming' = [conn |-> opened', n |-> 1]
          \/ Coming' = [conn |-> opened' + 1, n |-> 1]
      BY DEF Coming
    <3> QED
      BY <3>1, <3>2
  <2> QED
    BY <2>2, ComingGrows, ComingTyped
<1>2. queue \in Seq(Item) /\ last.conn \in Nat /\ last.n \in Nat
  BY LastTyped
<1>3. InOrder(queue) /\ Within(queue, last, Coming) /\ Before(last, Coming)
  BY DEF OrderOK
<1> HIDE DEF d
<1>4. Before(last, d) /\ Within(queue, last, d)
  BY <1>1, <1>2, <1>3, Wider DEF Before, AtLeast
<1>5. ASSUME InOrder(queue'), Within(queue', last', d), Before(last', d) PROVE OrderOK'
  BY <1>5 DEF OrderOK, d, InOrder, Within, Before, IsFrame
<1>6. CASE UNCHANGED <<queue, last>>
  BY <1>3, <1>4, <1>5, <1>6
<1>7. ASSUME last' = last, NEW x \in Item, Push(x),
             IsFrame(x) => x.conn = Coming.conn /\ x.n = Coming.n /\ Follows(x, d)
      PROVE  OrderOK'
  <2>1. PICK q \in Seq(Item) :
          /\ queue' = Append(q, x)
          /\ \/ q = queue /\ dropped' = dropped
             \/ queue # <<>> /\ q = Tail(queue) /\ dropped' = dropped + 1
    BY <1>7, Pushed
  <2>2. InOrder(q) /\ Within(q, last, Coming) /\ Within(q, last, d)
    BY <1>2, <1>3, <1>4, <2>1, RestKeeps
  <2>3. CASE ~ IsFrame(x)
    BY <1>4, <1>5, <1>7, <2>1, <2>2, <2>3, MoreOrder
  <2>4. CASE IsFrame(x)
    <3>1. Before(last, x) /\ Before(x, d) /\ Within(q, last, x)
      BY <1>1, <1>3, <1>7, <2>2, <2>4 DEF Before, Follows, Within
    <3>2. InOrder(Append(q, x)) /\ Within(Append(q, x), last, d)
      BY <2>2, <3>1, MoreOrder, MoreWithin
    <3> QED
      BY <1>4, <1>5, <1>7, <2>1, <3>2
  <2> QED
    BY <2>3, <2>4
<1>8. CASE NextFrame
  <2> DEFINE q == queue
  <2>1. q \in Seq(Item) /\ q # <<>> /\ Tail(q) \in Seq(Item) /\ q[1] \in Item
        /\ Len(q) \in Nat /\ Len(q) >= 1 /\ Len(Tail(q)) = Len(q) - 1
        /\ \A k \in 1 .. Len(q) - 1 : Tail(q)[k] = q[k + 1]
    BY <1>8, Taken, Rest
  <2>2. InOrder(Tail(q)) /\ Within(Tail(q), last, d)
    BY <1>3, <1>4, <2>1, RestKeeps
  <2>3. CASE q[1].kind \in Ends /\ queue' = Append(Tail(q), q[1]) /\ last' = last
    <3>1. ~ IsFrame(q[1])
      BY <2>3 DEF IsFrame, Ends
    <3> QED
      BY <1>4, <1>5, <2>1, <2>2, <2>3, <3>1, MoreOrder
  <2>4. CASE queue' = Tail(q) /\ last' = [last EXCEPT !.marked = TRUE]
    <3>1. last'.conn = last.conn /\ last'.n = last.n
      BY <2>4, LastTyped
    <3> QED
      BY <1>4, <1>5, <2>2, <2>4, <3>1 DEF Within, Before
  <2>5. CASE /\ IsFrame(q[1])
             /\ queue' = Tail(q)
             /\ last' = [conn |-> q[1].conn, n |-> q[1].n, marked |-> FALSE, dropped |-> dropped]
    <3>1. last'.conn = q[1].conn /\ last'.n = q[1].n
      BY <2>5
    <3>2. Before(last', d)
      BY <1>4, <2>1, <2>5, <3>1 DEF Within, Before
    <3>3. Within(Tail(q), last', d)
      BY <1>3, <2>1, <2>2, <2>5, <3>1 DEF Within, InOrder, Before
    <3> QED
      BY <1>5, <2>2, <2>5, <3>2, <3>3
  <2> QED
    BY <1>8, <2>3, <2>4, <2>5, Taken
<1>9. CASE FirstReads
  <2>1. Eventless(queue, Len(queue) + 1) /\ last.n = 0
    BY <1>9 DEF FirstReads, GaplessOK
  <2>2. last'.conn = opened /\ last'.n = 0
    BY <1>9, <2>1, LastTyped DEF FirstReads
  <2>3. d = [conn |-> opened, n |-> 1]
    BY <1>9 DEF FirstReads, DialDone, d, Coming, Sockets
  <2>4. Before(last', d)
    BY <2>2, <2>3 DEF Before
  <2>5. \A i \in 1 .. Len(queue) : ~ IsFrame(queue[i])
    BY <1>2, <2>1, LastTyped, ElementOfSeq, ItemTyped DEF Eventless
  <2>6. queue' = queue
    BY <1>9 DEF FirstReads
  <2>7. Within(queue', last', d)
    BY <2>5, <2>6 DEF Within
  <2> QED
    BY <1>3, <1>5, <2>4, <2>6, <2>7
<1> QED
  BY <1>6, <1>7, <1>8, <1>9, QueueSteps DEF d

\* With orderly callers, what is over stays over.
LEMMA OverStays ==
  ASSUME TypeOK, TasksOK, set.orderly, Over, [Next]_vars
  PROVE  Over'
<1> USE DEF Over
<1>1. reader \in {"none", "done"} /\ dial = "no" /\ starter # "dialing"
  BY DEF TasksOK, TypeOK
<1>2. CASE \/ UNCHANGED vars \/ Drop \/ NextFrame
           \/ \E c \in Closers : Aclose(c) \/ SocketClosed(c) \/ Joined(c) \/ CloseTimesOut(c)
  <2>1. UNCHANGED <<reader, starter>> /\ (closing => closing')
    BY <1>2 DEF vars, Drop, NextFrame, Aclose, SocketClosed, Joined, CloseTimesOut, Task
  <2> QED
    BY <1>1, <2>1
<1>3. ~ (Start \/ StartCancelled \/ OverlappingStart \/ DialEnds \/ ReaderStep)
  BY <1>1 DEF TasksOK, TypeOK, Start, StartCancelled, OverlappingStart, DialEnds, DialOpens, DialRejected, DialFails, DialFatal, DialDone, Dialing,
              ReaderStep, ReadFrame, PutFrame, SocketLost, BackoffEnds, Cancelled
<1> QED
  BY <1>2, <1>3 DEF Next, CloserStep

\* An event is queued by who is not over, and the end by who then is.
LEMMA PushesEnd ==
  ASSUME TypeOK, TasksOK, ClosingOK, set.orderly, [Next]_vars
  PROVE  \/ UNCHANGED <<queue, ended>>
         \/ /\ ended' = ended /\ Over'
            /\ \E x \in Item : ~ IsEvent(x) /\ Push(x)
         \/ /\ ended' = ended /\ ~ Over
            /\ \E x \in Item : IsEvent(x) /\ Push(x)
         \/ NextFrame
<1>0. \A kind : kind \in {"stop", "error"} /\ Finish(kind)
                  => \E x \in Item : ~ IsEvent(x) /\ Push(x)
  BY EndsTyped DEF Finish, Ends
<1>1. CASE \/ UNCHANGED vars \/ Drop \/ Start \/ StartCancelled \/ OverlappingStart
           \/ DialRejected \/ DialOpens
  BY <1>1 DEF vars, Drop, Start, StartCancelled, OverlappingStart, DialRejected, DialOpens,
              Buffer, Seen
<1>2. CASE \/ DialFails \/ DialFatal \/ SocketLost \/ BackoffEnds \/ Cancelled
  <2>1. /\ ended' = ended
        /\ \/ UNCHANGED queue
           \/ /\ Finish("stop") \/ Finish("error")
              /\ reader' = "done" /\ starter' = starter /\ reader # "none"
    BY <1>2 DEF DialFails, DialFatal, NextAttempt, SocketLost, BackoffEnds, Cancelled, Buffer, Seen
  <2>2. reader # "none" => starter = "done"
    BY DEF TasksOK, TypeOK
  <2> QED
    BY <1>0, <2>1, <2>2 DEF Over
<1>3. ASSUME NEW c \in Closers, Aclose(c) \/ SocketClosed(c) \/ Joined(c) \/ CloseTimesOut(c)
      PROVE  /\ ended' = ended
             /\ UNCHANGED queue \/ (Finish("stop") /\ Over')
  <2>1. /\ UNCHANGED <<ended, starter, reader>>
        /\ \/ UNCHANGED queue
           \/ Finish("stop") /\ reader \in {"none", "done"}
    BY <1>3 DEF Aclose, SocketClosed, Joined, CloseTimesOut, JoinTask, Buffer, Seen, Task
  <2>2. closing' /\ starter # "dialing"
    BY <1>3 DEF Aclose, SocketClosed, Joined, CloseTimesOut, ClosingOK
  <2> QED
    BY <2>1, <2>2 DEF Over
<1>4. CASE DialDone
  <2>1. ~ Over
    BY <1>4 DEF DialDone, Over
  <2> QED
    BY <1>4, <2>1, EndsTyped DEF DialDone, Buffer, Seen
<1>5. CASE ReadFrame \/ PutFrame
  <2>1. /\ ended' = ended /\ ~ Over /\ ws \in Socket
        /\ \/ UNCHANGED queue
           \/ \E n \in 1 .. MaxFrames : Push(Frame(ws, n))
    BY <1>5 DEF ReadFrame, PutFrame, TasksOK, TypeOK, Reading, Socket, Sockets, Seen, Buffer, Over
  <2> QED
    BY <2>1, FramesTyped
<1> QED
  BY <1>0, <1>1, <1>2, <1>3, <1>4, <1>5 DEF Next, DialEnds, ReaderStep, CloserStep

\* Every step keeps the end last.
LEMMA EndsKept == TypeOK /\ TasksOK /\ ClosingOK /\ EndsOK /\ [Next]_vars => EndsOK'
<1> SUFFICES ASSUME TypeOK, TasksOK, ClosingOK, EndsOK, [Next]_vars, set'.orderly
             PROVE  /\ EndsLast(queue')
                    /\ ended' # "no" => Eventless(queue', Len(queue') + 1)
                    /\ ended' # "no" \/ (\E i \in 1 .. Len(queue') : ~ IsEvent(queue'[i])) => Over'
  BY DEF EndsOK, EndsLast, Eventless, IsEvent
<1>1. /\ set.orderly /\ queue \in Seq(Item) /\ Len(queue) \in Nat
      /\ EndsLast(queue)
      /\ ended # "no" => Eventless(queue, Len(queue) + 1)
      /\ ended # "no" \/ (\E i \in 1 .. Len(queue) : ~ IsEvent(queue[i])) => Over
      /\ Over => Over'
  BY OverStays, LastTyped DEF Next, vars, EndsOK
<1>2. CASE UNCHANGED <<queue, ended>>
  BY <1>1, <1>2
<1>3. ASSUME NEW x \in Item, Push(x), ended' = ended
      PROVE  \E q \in Seq(Item) :
               /\ queue' = Append(q, x) /\ EndsLast(q)
               /\ ended # "no" => Eventless(q, Len(q) + 1)
               /\ (\E i \in 1 .. Len(q) : ~ IsEvent(q[i])) => Over
  <2>1. PICK q \in Seq(Item) :
          /\ queue' = Append(q, x)
          /\ \/ q = queue /\ dropped' = dropped
             \/ queue # <<>> /\ q = Tail(queue) /\ dropped' = dropped + 1
    BY <1>3, Pushed
  <2>2. EndsLast(q) /\ (ended # "no" => Eventless(q, Len(q) + 1))
    BY <1>1, <2>1, RestKeeps
  <2>3. ASSUME NEW i \in 1 .. Len(q), ~ IsEvent(q[i]) PROVE Over
    <3>1. CASE q = queue
      BY <1>1, <2>3, <3>1
    <3>2. CASE queue # <<>> /\ q = Tail(queue)
      BY <1>1, <2>3, <3>2, Rest
    <3> QED
      BY <2>1, <3>1, <3>2
  <2> QED
    BY <2>1, <2>2, <2>3
<1>4. ASSUME NEW x \in Item, Push(x), ended' = ended, ~ IsEvent(x), Over'
      PROVE  EndsLast(queue') /\ (ended' # "no" => Eventless(queue', Len(queue') + 1))
  <2>1. PICK q \in Seq(Item) :
          /\ queue' = Append(q, x) /\ EndsLast(q)
          /\ ended # "no" => Eventless(q, Len(q) + 1)
    BY <1>3, <1>4
  <2> QED
    BY <1>4, <2>1, MoreOrder, MoreReady
<1>5. ASSUME NEW x \in Item, Push(x), ended' = ended, IsEvent(x), ~ Over
      PROVE  /\ EndsLast(queue') /\ ended' = "no"
             /\ \A i \in 1 .. Len(queue') : IsEvent(queue'[i])
  <2>1. PICK q \in Seq(Item) :
          /\ queue' = Append(q, x)
          /\ (\E i \in 1 .. Len(q) : ~ IsEvent(q[i])) => Over
    BY <1>3, <1>5
  <2>2. \A i \in 1 .. Len(q) : IsEvent(q[i])
    BY <1>5, <2>1
  <2>3. EndsLast(Append(q, x))
    BY <2>2, MoreOrder
  <2>4. \A i \in 1 .. Len(Append(q, x)) : IsEvent(Append(q, x)[i])
    BY <1>5, <2>2, More
  <2> QED
    BY <1>1, <1>5, <2>1, <2>3, <2>4
<1>6. CASE NextFrame
  <2> DEFINE q == queue
  <2>1. q \in Seq(Item) /\ q # <<>> /\ Tail(q) \in Seq(Item) /\ q[1] \in Item
        /\ Len(q) \in Nat /\ Len(q) >= 1 /\ Len(Tail(q)) = Len(q) - 1
        /\ \A k \in 1 .. Len(q) - 1 : Tail(q)[k] = q[k + 1]
    BY <1>6, Taken, Rest
  <2>2. EndsLast(Tail(q)) /\ (Eventless(q, Len(q) + 1) => Eventless(Tail(q), Len(Tail(q)) + 1))
    BY <1>1, <2>1, RestKeeps
  <2>3. CASE q[1].kind \in Ends /\ queue' = Append(Tail(q), q[1])
    <3>1. ~ IsEvent(q[1])
      BY <2>3 DEF IsEvent
    <3>2. Eventless(q, Len(q) + 1)
      BY <1>1, <2>1, <3>1 DEF EndsLast, Eventless
    <3>3. EndsLast(queue') /\ Eventless(queue', Len(queue') + 1)
      BY <2>1, <2>2, <2>3, <3>1, <3>2, MoreOrder, MoreReady
    <3>4. Over
      BY <1>1, <2>1, <3>1
    <3> QED
      BY <1>1, <3>3, <3>4
  <2>4. CASE q[1].kind \notin Ends /\ queue' = Tail(q) /\ ended' = ended
    <3>1. ended = "no"
      BY <1>1, <2>1, <2>4 DEF Eventless, IsEvent
    <3>2. (\E i \in 1 .. Len(queue') : ~ IsEvent(queue'[i])) => Over
      BY <1>1, <2>1, <2>4
    <3> QED
      BY <1>1, <2>2, <2>4, <3>1, <3>2
  <2>5. IsFrame(q[1]) \/ q[1].kind = "reconnected" => q[1].kind \notin Ends
    BY DEF IsFrame, Ends
  <2> QED
    BY <1>6, <2>3, <2>4, <2>5, Taken
<1> QED
  BY <1>1, <1>2, <1>4, <1>5, <1>6, PushesEnd

-----------------------------------------------------------------------------
\* What always holds.

LEMMA InitHolds == Init => IInv
<1> SUFFICES ASSUME Init PROVE IInv
  OBVIOUS
<1>1. /\ set \in Settings /\ set \in Setting /\ queue = <<>> /\ Len(queue) = 0
      /\ last = [conn |-> 1, n |-> 0, marked |-> FALSE, dropped |-> 0]
  BY DEF Init
<1>2. TypeOK
  <2>1. queue \in Seq(Item) /\ Len(queue) <= set.queueSize
    BY <1>1, EmptySeq DEF Setting
  <2>2. last \in [conn : Socket, n : 0 .. MaxFrames, marked : BOOLEAN, dropped : Nat]
    BY <1>1 DEF Socket
  <2>3. /\ ws \in 0 .. MaxSockets /\ opened \in 0 .. MaxSockets /\ target \in 0 .. MaxSockets
        /\ got \in 0 .. MaxFrames /\ dropped \in Nat /\ attempt \in Nat
    BY DEF Init
  <2>4. closer \in [Closers -> {"idle", "closing", "joining", "returned", "escaped"}]
    BY DEF Init
  <2>5. /\ state = "IDLE" /\ up = {} /\ left = {} /\ closing = FALSE /\ cancelled = FALSE
        /\ starter = "idle" /\ reader = "none" /\ dial = "no" /\ ended = "no"
    BY DEF Init
  <2> QED
    BY <1>1, <2>1, <2>2, <2>3, <2>4, <2>5 DEF TypeOK
<1>3. TasksOK /\ QuietOK /\ ClosingOK /\ ReturnedOK
  BY DEF Init, TasksOK, QuietOK, ClosingOK, ReturnedOK, AllReturned, Reading, Dialing
<1>4. GaplessOK
  BY <1>1 DEF Init, GaplessOK, Gapless, Joins, Eventless, Reading
<1>5. OrderOK
  <2>1. Coming = [conn |-> 1, n |-> 1]
    BY DEF Init, Coming
  <2> QED
    BY <1>1, <2>1 DEF OrderOK, InOrder, Within, Before
<1>6. EndsOK
  BY <1>1 DEF Init, EndsOK, EndsLast
<1> QED
  BY <1>2, <1>3, <1>4, <1>5, <1>6 DEF IInv

LEMMA InvHolds == Spec => []IInv
<1>1. IInv /\ [Next]_vars => IInv'
  BY TypesKept, TasksKept, QuietKept, ClosingKept, ReturnedKept, GaplessKept, OrderKept, EndsKept
     DEF IInv
<1> QED
  BY <1>1, InitHolds, PTL DEF Spec

\* The types hold throughout, and the queue never outgrows its size, whatever
\* ends, markers and frames are put in it.
THEOREM TypeCorrect == Spec => []TypeOK
<1>1. IInv => TypeOK
  BY DEF IInv
<1> QED
  BY <1>1, InvHolds, PTL

\* "Owns one socket": whatever the order of starts that fail, are cancelled,
\* are called again or overlap, of reconnects, timeouts and closes, two sockets are
\* never open at once but for those that starts have left to nobody.
THEOREM OneSocket == Spec => []OneSocketOpen
<1>1. IInv => OneSocketOpen
  BY OneAtATime DEF IInv
<1> QED
  BY <1>1, InvHolds, PTL

\* "Close the socket, stop reconnecting and wait for the reader task to end":
\* with any number of tasks in aclose, when they have all returned nothing is
\* left of the connection, but for what starts have left to nobody and a
\* start that overlaps the close or comes after it.
THEOREM ClosedIsClosed == Spec => []ClosedMeansClosed
<1>1. IInv => ClosedMeansClosed
  BY ReturnedClosed DEF IInv
<1> QED
  BY <1>1, InvHolds, PTL

\* What the consumer takes when it takes anything but an end, or it is to take
\* its first frame.
LEMMA LastChanges ==
  ASSUME IInv, [Next]_vars, last' # last
  PROVE  \/ starter = "dialing" /\ last'.n = 0
         \/ /\ queue[1] \in Item /\ Len(queue) \in Nat /\ Len(queue) >= 1
            /\ queue[1].kind \notin Ends
            /\ \/ last'.conn = last.conn /\ last'.n = last.n
               \/ /\ IsFrame(queue[1])
                  /\ last'.conn = queue[1].conn /\ last'.n = queue[1].n
                  /\ last'.dropped = dropped
<1>1. TypeOK /\ TasksOK
  BY DEF IInv
<1>2. NextFrame \/ FirstReads
  BY <1>1, QueueSteps
<1>3. CASE FirstReads
  <2>1. last.n = 0
    BY <1>3 DEF FirstReads, IInv, GaplessOK
  <2>2. last'.n = last.n
    BY <1>1, <1>3, LastTyped DEF FirstReads
  <2> QED
    BY <1>3, <2>1, <2>2 DEF FirstReads
<1>4. CASE NextFrame
  <2>1. queue[1] \in Item /\ Len(queue) \in Nat /\ Len(queue) >= 1
    BY <1>1, <1>4, Taken, Rest
  <2>2. CASE /\ queue[1].kind = "reconnected"
             /\ last' = [last EXCEPT !.marked = TRUE]
    <3>1. last'.conn = last.conn /\ last'.n = last.n
      BY <1>1, <2>2, LastTyped
    <3> QED
      BY <2>1, <2>2, <3>1 DEF Ends
  <2>3. CASE /\ IsFrame(queue[1])
             /\ last' = [conn |-> queue[1].conn, n |-> queue[1].n, marked |-> FALSE, dropped |-> dropped]
    BY <2>1, <2>3 DEF IsFrame, Ends
  <2> QED
    BY <1>1, <1>4, <2>2, <2>3, Taken
<1> QED
  BY <1>2, <1>3, <1>4

\* Frames reach the consumer once each and in the order they were received,
\* across evictions, waits for room and reconnects, and with orderly callers
\* nothing follows the end.
THEOREM InOrderOnce == Spec => FramesInOrder
<1> DEFINE A == /\ set.orderly => ended = "no"
                /\ Delivers => \/ last'.conn > last.conn
                               \/ last'.conn = last.conn /\ last'.n > last.n
<1>1. ASSUME IInv, [Next]_vars, last' # last PROVE A
  <2>1. set.orderly => ended = "no"
    <3>1. CASE starter = "dialing"
      <4>1. EndsOK /\ ~ Over
        BY <1>1, <3>1 DEF IInv, Over
      <4> QED
        BY <4>1 DEF EndsOK
    <3>2. CASE Len(queue) \in Nat /\ Len(queue) >= 1 /\ queue[1].kind \notin Ends
      BY <1>1, <3>2 DEF IInv, EndsOK, Eventless, IsEvent
    <3> QED
      BY <1>1, <3>1, <3>2, LastChanges
  <2>2. ASSUME Delivers
        PROVE  \/ last'.conn > last.conn
               \/ last'.conn = last.conn /\ last'.n > last.n
    <3>1. /\ IsFrame(queue[1]) /\ last'.conn = queue[1].conn /\ last'.n = queue[1].n
          /\ queue[1] \in Item /\ Len(queue) \in Nat /\ Len(queue) >= 1
      BY <1>1, <2>2, LastChanges DEF Delivers
    <3>2. Before(last, queue[1])
      BY <1>1, <3>1 DEF IInv, OrderOK, Within
    <3>3. queue[1].conn \in Nat /\ queue[1].n \in Nat /\ last.conn \in Nat /\ last.n \in Nat
      BY <1>1, <3>1, LastTyped, ItemTyped DEF IInv, Socket
    <3> QED
      BY <3>1, <3>2, <3>3 DEF Before
  <2> QED
    BY <2>1, <2>2
<1>2. IInv /\ [Next]_vars => [A]_last
  BY <1>1
<1> QED
  BY <1>2, InvHolds, PTL DEF Spec, FramesInOrder

\* Every gap can be told: between two frames that are not consecutive the
\* consumer got a marker, or an eviction was counted.
THEOREM GapsAreTold == Spec => NoSilentGap
<1> DEFINE A == Delivers => \/ last'.conn = last.conn /\ last'.n = last.n + 1
                           \/ last.marked
                           \/ last'.dropped > last.dropped
<1>1. ASSUME IInv, [Next]_vars, last' # last, Delivers
      PROVE  \/ last'.conn = last.conn /\ last'.n = last.n + 1
             \/ last.marked
             \/ last'.dropped > last.dropped
  <2>1. /\ IsFrame(queue[1]) /\ last'.conn = queue[1].conn /\ last'.n = queue[1].n
        /\ last'.dropped = dropped /\ Len(queue) \in Nat /\ Len(queue) >= 1
    BY <1>1, LastChanges DEF Delivers
  <2>2. Told \/ Follows(last, queue[1])
    <3>1. Told \/ Joins(last, queue)
      BY <1>1 DEF IInv, GaplessOK
    <3>2. Eventless(queue, 1)
      BY DEF Eventless
    <3> QED
      BY <2>1, <3>1, <3>2 DEF Joins
  <2> QED
    BY <2>1, <2>2 DEF Told, Follows
<1>2. IInv /\ [Next]_vars => [A]_last
  BY <1>1
<1> QED
  BY <1>2, InvHolds, PTL DEF Spec, NoSilentGap

=============================================================================

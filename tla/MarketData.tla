------------------------------ MODULE MarketData ------------------------------
(***************************************************************************)
(* bacsy.ws.market_data.MarketDataStream: subscriptions kept in a registry *)
(* and told to the server, all of them again on every new socket.          *)
(*                                                                         *)
(* The callers of subscribe_* and unsubscribe_* and the on_open hook, run  *)
(* by whoever connects, send through send_json: it picks the socket, waits *)
(* for its turn in the send bucket and only then sends.  The server acts   *)
(* on the messages of a socket in the order they were sent, and forgets    *)
(* the subscriptions with the socket.  WebSocketConnection has the rest of *)
(* the connection's life; here it is down, open, or open and lost.         *)
(***************************************************************************)
EXTENDS Naturals, Sequences, FiniteSets, SequencesExt

CONSTANTS
    Callers,        \* tasks that change subscriptions
    Hook,           \* the task that runs on_open
    KeysOf,         \* the subscription keys of each group, a data type and a parameter
    MaxInstruments, \* MAX_INSTRUMENTS_PER_CONNECTION
    Presets,        \* what a factory method may have put in the registry
    MaxSockets,     \* bound: sockets that open
    MaxChanges      \* bound: changes asked for

Groups == DOMAIN KeysOf
Keys   == UNION {KeysOf[g] : g \in Groups}
Tasks  == Callers \cup {Hook}

ASSUME MarketDataAssumption ==
    /\ IsFiniteSet(Groups)
    /\ \A g, h \in Groups : g # h => KeysOf[g] \cap KeysOf[h] = {}
    /\ Hook \notin Callers
    /\ MaxInstruments \in Nat /\ MaxSockets \in Nat \ {0} /\ MaxChanges \in Nat
    /\ Presets \subseteq SUBSET Keys

VARIABLES
    registry,  \* self._registry._keys
    isOpen,    \* the connection's state is OPEN
    ws,        \* the number of its socket, 0 before the first
    up,        \* that socket is alive
    served,    \* the server: subscriptions of that socket
    pacing,    \* the tasks waiting in the send bucket, with the socket of each
    pending,   \* the messages each task has still to send
    changes,   \* changes asked for
    cancelled, \* history: keys of messages cancelled while this socket lasts
    raced      \* history: keys unsubscribed before the hook had sent them again

vars == <<registry, isOpen, ws, up, served, pacing, pending, changes, cancelled, raced>>

Link    == <<isOpen, ws, up>>
History == <<cancelled, raced>>

Init ==
    /\ registry \in Presets
    /\ isOpen = FALSE /\ ws = 0 /\ up = FALSE
    /\ served = {}
    /\ pacing = <<>>
    /\ pending = [t \in Tasks |-> <<>>]
    /\ changes = 0
    /\ cancelled = {} /\ raced = {}

-----------------------------------------------------------------------------
\* SubscriptionRegistry.messages: one for each group with keys, in an order that
\* depends on the names of the instruments, as sorted(..., key=str) mixes the
\* groups of one type.
Message(subscribe, keys) == [subscribe |-> subscribe, keys |-> keys]
Replay == {Message(TRUE, KeysOf[g] \cap registry) : g \in {h \in Groups : KeysOf[h] \cap registry # {}}}

Unsent(t) == UNION {pending[t][i].keys : i \in DOMAIN pending[t]}
Waiting(t) == \E i \in DOMAIN pacing : pacing[i].task = t

\* send_json: nothing is sent unless the connection is open.
Send(t, message) ==
    IF isOpen
    THEN /\ pacing' = Append(pacing, [task |-> t, ws |-> ws])
         /\ pending' = [pending EXCEPT ![t] = <<message>>]
    ELSE UNCHANGED <<pacing, pending>>

Ready(c) == pending[c] = <<>> /\ changes < MaxChanges /\ changes' = changes + 1

\* _change, for a subscription within the limit; beyond it nothing changes.
Subscribe(c, keys) ==
    /\ Ready(c)
    /\ Cardinality(registry) + Cardinality(keys \ registry) <= MaxInstruments
    /\ registry' = registry \cup keys
    /\ Send(c, Message(TRUE, keys))
    /\ UNCHANGED <<Link, served, History>>

\* _change, for an unsubscription.
Unsubscribe(c, keys) ==
    /\ Ready(c)
    /\ registry' = registry \ keys
    /\ Send(c, Message(FALSE, keys))
    /\ raced' = raced \cup (keys \cap Unsent(Hook))
    /\ UNCHANGED <<Link, served, cancelled>>

Apply(message) == IF message.subscribe THEN served \cup message.keys ELSE served \ message.keys

\* Mutant of Paced: the last one goes first.
PacedLastFirst ==
    /\ pacing # <<>>
    /\ pacing' = SubSeq(pacing, 1, Len(pacing) - 1)
    /\ LET p == pacing[Len(pacing)] IN
       /\ served' = IF up /\ p.ws = ws THEN Apply(Head(pending[p.task])) ELSE served
       /\ pending' = [pending EXCEPT ![p.task] =
              IF up /\ p.ws = ws THEN Tail(@) ELSE <<>>]
    /\ UNCHANGED <<registry, Link, changes, History>>

\* The bucket lets the first one go and its message is sent; on a socket that
\* is lost, send raises, which ends the caller, or the hook with its messages.
Paced ==
    /\ pacing # <<>>
    /\ pacing' = Tail(pacing)
    /\ LET t == Head(pacing).task IN
       \/ /\ up /\ Head(pacing).ws = ws
          /\ served' = Apply(Head(pending[t]))
          /\ pending' = [pending EXCEPT ![t] = Tail(@)]
       \/ /\ ~ (up /\ Head(pacing).ws = ws)
          /\ pending' = [pending EXCEPT ![t] = <<>>]
          /\ UNCHANGED served
    /\ UNCHANGED <<registry, Link, changes, History>>

\* resubscribe goes on with the next of its messages.
Resubscribe ==
    /\ pending[Hook] # <<>> /\ ~ Waiting(Hook)
    /\ pacing' = Append(pacing, [task |-> Hook, ws |-> ws])
    /\ UNCHANGED <<registry, Link, served, pending, changes, History>>

\* A caller is cancelled while it waits for its turn.
Cancel(c) ==
    /\ \E i \in DOMAIN pacing : pacing[i].task = c /\ pacing' = RemoveAt(pacing, i)
    /\ pending' = [pending EXCEPT ![c] = <<>>]
    /\ cancelled' = cancelled \cup Unsent(c)
    /\ UNCHANGED <<registry, Link, served, changes, raced>>

-----------------------------------------------------------------------------
\* The connection.

\* Mutant of Connect: what is sent again is what the last socket served.
ConnectServed ==
    /\ ~ isOpen /\ ws < MaxSockets
    /\ isOpen' = TRUE /\ ws' = ws + 1 /\ up' = TRUE
    /\ cancelled' = {} /\ raced' = {}
    /\ UNCHANGED <<registry, served, pacing, pending, changes>>

\* _connect, up to the first await of the hook, which stands in the bucket.
Connect ==
    /\ ~ isOpen /\ ws < MaxSockets
    /\ isOpen' = TRUE /\ ws' = ws + 1 /\ up' = TRUE
    /\ served' = {}
    /\ \E messages \in SetToSeqs(Replay) :
        /\ pending' = [pending EXCEPT ![Hook] = messages]
        /\ pacing' = IF messages = <<>> THEN pacing ELSE Append(pacing, [task |-> Hook, ws |-> ws'])
    /\ cancelled' = {} /\ raced' = {}
    /\ UNCHANGED <<registry, changes>>

\* The socket is lost.
Drop ==
    /\ up /\ ws < MaxSockets
    /\ up' = FALSE
    /\ UNCHANGED <<registry, isOpen, ws, served, pacing, pending, changes, History>>

\* The reader, or the loop that connects when the hook has failed, finds out.
Notice ==
    /\ isOpen /\ ~ up /\ pending[Hook] = <<>>
    /\ isOpen' = FALSE
    /\ UNCHANGED <<registry, ws, up, served, pacing, pending, changes, History>>

Change ==
    \E c \in Callers, g \in Groups : \E keys \in (SUBSET KeysOf[g]) \ {{}} :
        Subscribe(c, keys) \/ Unsubscribe(c, keys)

Next ==
    \/ Change \/ Paced \/ Resubscribe \/ Connect \/ Drop \/ Notice
    \/ \E c \in Callers : Cancel(c)

Spec == Init /\ [][Next]_vars

\* The bucket serves whoever waits, the hook goes on, and the connection is
\* opened, whenever it is lost again.
FairSpec == Spec /\ WF_vars(Paced) /\ WF_vars(Resubscribe) /\ WF_vars(Connect) /\ WF_vars(Notice)

-----------------------------------------------------------------------------
\* The types; no message is without keys.
TypeOK ==
    /\ registry \subseteq Keys
    /\ isOpen \in BOOLEAN /\ ws \in 0 .. MaxSockets /\ up \in BOOLEAN
    /\ served \subseteq Keys
    /\ pacing \in Seq([task : Tasks, ws : 1 .. MaxSockets])
    /\ pending \in [Tasks -> Seq([subscribe : BOOLEAN, keys : (SUBSET Keys) \ {{}}])]
    /\ changes \in 0 .. MaxChanges
    /\ cancelled \subseteq Keys /\ raced \subseteq Keys

\* Nothing is on its way on the current socket.
Quiet == isOpen /\ up /\ \A t \in Tasks : pending[t] = <<>>

\* "The registry of active subscriptions": once everything is sent the server
\* has what the registry has, whatever sockets were lost and in whatever order
\* callers and hook were let go.  Exempt are messages that were cancelled and
\* an unsubscribe made before the hook had sent the key again.
RegistryServed ==
    Quiet => /\ registry \ cancelled \subseteq served
             /\ served \ (cancelled \cup raced) \subseteq registry

\* "a subscription made while the connection is down is sent once it is back".
SentOnceBack ==
    \A k \in Keys : k \in registry ~> k \in served \/ k \notin registry \/ k \in cancelled
=============================================================================

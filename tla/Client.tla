------------------------------- MODULE Client -------------------------------
(***************************************************************************)
(* bacsy.client.TradeApiClient over StreamFactory: the client a factory    *)
(* assembles from a credential and a connection pool, its own or one it    *)
(* was given, and its close, which closes the streams and then the pool it *)
(* owns.  The closers of StreamFactory are the tasks in aclose.            *)
(***************************************************************************)
EXTENDS StreamFactory, RefreshTokens

CONSTANTS
    Credentials   \* what a factory is called with: [from, given, env]

VARIABLES
    client,  \* what the factory returned: "none", "client" or an error "raised"
    owned,   \* _owned_pool is set
    pool,    \* the connection pool: who made it, "factory" or "caller", and if it is open
    stage    \* how far each closer is

clientVars == <<vars, client, owned, pool, stage>>

ClientInit ==
    /\ Init
    /\ client = "none" /\ owned = FALSE /\ pool = [by |-> "none", open |-> FALSE]
    /\ stage = [c \in Closers |-> "out"]

\* from_account, from_refresh_token and from_access_token.
Provider(credential) ==
    CASE credential.from = "account" -> AccountTokenProvider(credential.given, credential.env)
      [] credential.from = "refresh" -> RefreshTokenProvider(credential.given, credential.env)
      [] credential.from = "access" -> [ok |-> TRUE]

\* Mutant of Assemble: a pool that was given is taken for the client's own.
AssembleOwning(credential, injected) ==
    /\ client = "none"
    /\ pool' = [by |-> IF injected THEN "caller" ELSE "factory", open |-> TRUE]
    /\ IF Provider(credential).ok THEN client' = "client" /\ owned' = TRUE
       ELSE client' = "raised" /\ UNCHANGED owned
    /\ UNCHANGED <<vars, stage>>

\* _assemble: the pool is made first, and a provider that cannot be made
\* leaves it open.
Assemble(credential, injected) ==
    /\ client = "none"
    /\ pool' = [by |-> IF injected THEN "caller" ELSE "factory", open |-> TRUE]
    /\ IF Provider(credential).ok THEN client' = "client" /\ owned' = ~ injected
       ELSE client' = "raised" /\ UNCHANGED owned
    /\ UNCHANGED <<vars, stage>>

\* A task in the streams' aclose has come to its end.
StreamsClosed(c) == left[c] = {} /\ waiting[c] = NoStream

\* aclose: the streams first, when there are any.
CloseClient(c) ==
    /\ client = "client" /\ stage[c] = "out"
    /\ orderly => \A s \in Streams : Done(s)
    /\ stage' = [stage EXCEPT ![c] = "streams"]
    /\ IF open = {} THEN UNCHANGED vars ELSE FactoryCloses(c)
    /\ UNCHANGED <<client, owned, pool>>

\* Then the pool, which closing again does no harm.
ClosePool(c) ==
    /\ stage[c] = "streams" /\ StreamsClosed(c)
    /\ stage' = [stage EXCEPT ![c] = "closed"]
    /\ pool' = [pool EXCEPT !.open = @ /\ ~ owned]
    /\ UNCHANGED <<vars, client, owned>>

\* Cancelled between or during the closes of the streams: the pool is left.
CancelClient(c) ==
    /\ stage[c] = "streams" /\ waiting[c] # NoStream
    /\ CloseCancelled(c)
    /\ stage' = [stage EXCEPT ![c] = "cancelled"]
    /\ UNCHANGED <<client, owned, pool>>

\* A step of the streams, of a client that is there.
StreamStep(step) ==
    /\ client = "client"
    /\ step
    /\ UNCHANGED <<client, owned, pool, stage>>

ClientNext ==
    \/ \E credential \in Credentials, injected \in BOOLEAN : Assemble(credential, injected)
    \/ \E c \in Closers : CloseClient(c) \/ ClosePool(c) \/ CancelClient(c)
    \/ \E s \in Streams : StreamStep(OwnerStep(s) \/ Hangs(s) \/ Closed(s) \/ CloseCancelled(s))
    \/ \E c \in Closers : StreamStep(Hangs(c) \/ Closed(c) \/ CloseNext(c))

\* A close that does not hang.
ClosedInTime(t) == ~ HangsIn(t) /\ Closed(t)

\* The event loop goes on with who leaves a stream and with a closer.  The close of a
\* connection ends or it hangs: nothing makes one that hangs end.
Progress ==
    /\ \A s \in Streams :
        WF_clientVars(StreamStep(OwnerCloses(s))) /\ WF_clientVars(StreamStep(ClosedInTime(s)))
    /\ \A c \in Closers :
        /\ WF_clientVars(StreamStep(ClosedInTime(c))) /\ WF_clientVars(StreamStep(CloseNext(c)))
        /\ WF_clientVars(ClosePool(c))

ClientSpec == ClientInit /\ [][ClientNext]_clientVars /\ Progress

-----------------------------------------------------------------------------
\* The types: whoever closes found a client, and only a factory's own pool is
\* owned.
ClientTypeOK ==
    /\ TypeOK
    /\ client \in {"none", "client", "raised"} /\ owned \in BOOLEAN
    /\ pool \in [by : {"none", "factory", "caller"}, open : BOOLEAN]
    /\ stage \in [Closers -> {"out", "streams", "closed", "cancelled"}]
    /\ (\E c \in Closers : stage[c] # "out") => client = "client"
    /\ owned <=> client = "client" /\ pool.by = "factory"

\* "Close open streams and, if a factory created it, the connection pool": the
\* pool outlives the streams that get their tokens through it.  Who has closed
\* it had found every stream that was open; each is released, and when their
\* owners were done none has a socket any more, but for a close that was
\* cancelled or that another task waits for.  A pool that was given stays open.
PoolOutlivesStreams ==
    pool.by # "none" /\ ~ pool.open =>
        /\ pool.by = "factory"
        /\ \A c \in Closers : stage[c] = "closed" => \A s \in found[c] \ abandoned :
            /\ s \notin open
            /\ orderly /\ socket[s] # "none" => \E t \in Tasks : waiting[t] = s

\* Nothing is kept for good but by a close that was cancelled or hangs: who leaves a
\* stream gives its connection back, though another task hangs in its close, and a
\* client that is closed gives its pool up, whatever the other streams and tasks do
\* meanwhile and however many streams there are before it.
GivenBack ==
    /\ LeftReleased
    /\ \A c \in Closers :
        stage[c] = "streams" /\ pool.by = "factory"
            ~> ~ pool.open \/ stage[c] = "cancelled" \/ HangsIn(c)
=============================================================================

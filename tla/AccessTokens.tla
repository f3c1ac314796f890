----------------------------- MODULE AccessTokens -----------------------------
(***************************************************************************)
(* bacsy.auth.provider.RefreshingAccessTokenProvider over                  *)
(* bacsy.auth.cache.DefaultAccessTokenCache: a process that mints access   *)
(* tokens from refresh tokens, remembers them and shares them with other   *)
(* processes through a file.                                               *)
(*                                                                         *)
(* The callers take turns at the provider's lock; `task` is where its      *)
(* holder is, and an action is the code from one await to the next.  The   *)
(* other processes appear as what they do to the file.  A write of the     *)
(* file is one step: module PrivateFile is about how the lock file makes   *)
(* it one.  A writer that is cancelled gives the lock back while its       *)
(* thread goes on, so that its write may be late.  An access token is its  *)
(* number in the order of minting.  Time is in ticks, and so are Skew,     *)
(* Life and ExpiresAt.                                                     *)
(***************************************************************************)
EXTENDS Integers, Sequences, FiniteSets, SequencesExt

CONSTANTS
    Refresh,      \* refresh tokens, by session id
    ScopeOf,      \* the scope each was issued for
    ExpiresAt,    \* the tick from which the endpoint rejects it
    None,         \* no refresh token
    Skew,         \* access_skew_seconds
    Life,         \* expires_in of a minted token
    MaxCalls,     \* bound: callers at the lock, and threads left, at once
    MaxLate,      \* bound: threads of cancelled writers at once
    MaxMint,      \* bound: tokens the endpoint mints
    MaxTime       \* bound: the last tick

Scope == {"read", "write"}

ASSUME TokensAssumption ==
    /\ ScopeOf \in [Refresh -> Scope]
    /\ ExpiresAt \in [Refresh -> Nat]
    /\ None \notin Refresh
    /\ Skew \in Nat /\ Life \in Nat
    /\ MaxCalls \in Nat /\ MaxLate \in Nat /\ MaxMint \in Nat /\ MaxTime \in Nat

VARIABLES
    now,       \* the clock
    minted,    \* how many access tokens the endpoint minted
    file,      \* the cache file: an access token for each refresh token
    readable,  \* _file is not None: the file could be read so far
    writable,  \* _writable: and written
    memory,    \* the memory cache
    late,      \* what a thread of a cancelled writer is about to write
    hot,       \* _hot: what serves each scope
    resolved,  \* _tokens is not None: the source of refresh tokens was asked
    rejected,  \* _rejected
    queue,     \* the calls at _lock, the holder's first
    task,      \* the holder's place in get or invalidate
    dropped    \* history: the access tokens the process invalidated and no late
               \* write has brought back since

Usability == <<readable, writable>>

vars == <<now, minted, file, Usability, memory, late, hot, resolved, rejected, queue, task, dropped>>

Access   == [n : 0 .. MaxMint, exp : Nat]
NoAccess == [n |-> 0, exp |-> 0]

\* A call at the lock: get(scope), or invalidate(token) with no scope.
Call == [scope : Scope \cup {"none"}, token : 0 .. MaxMint]

\* AccessToken.is_valid and RefreshToken.is_expired, at time t
Valid(a, t)   == t + Skew < a.exp
Expired(r, t) == t + Skew >= ExpiresAt[r]

Capabilities(s) == IF s = "write" THEN {"read", "write"} ELSE {"read"}
Rank(r)         == IF ScopeOf[r] = "write" THEN 2 ELSE 1
Granting(s)     == {r \in Refresh : s \in Capabilities(ScopeOf[r])}

\* The order of select_refresh_tokens: least privileged, then latest expiry.
Better(q, r) ==
    \/ Rank(q) < Rank(r)
    \/ Rank(q) = Rank(r) /\ ExpiresAt[q] > ExpiresAt[r]

\* Mutant of Usable: rejected tokens are usable.
UsableThoughRejected(s, t) == {r \in Granting(s) : ~ Expired(r, t)}

\* select_refresh_tokens
Usable(s, t) == {r \in Granting(s) : ~ Expired(r, t) /\ r \notin rejected}

Idle == [at |-> "entering", asof |-> 0, left |-> {}, trying |-> None, scopes |-> {}]

NotServing == [from |-> None, token |-> NoAccess]

Init ==
    /\ now = 0 /\ minted = 0
    /\ file = [r \in Refresh |-> NoAccess]
    /\ readable = TRUE /\ writable = TRUE
    /\ memory = [r \in Refresh |-> NoAccess]
    /\ late = {}
    /\ hot = [s \in Scope |-> NotServing]
    /\ resolved = FALSE
    /\ rejected = {}
    /\ queue = <<>>
    /\ task = Idle
    /\ dropped = {}

-----------------------------------------------------------------------------
Holder    == Head(queue)
At(place) == queue # <<>> /\ task.at = place
Crowd     == Len(queue) + Cardinality(late)

\* The holder's call returns or raises; the next caller gets the lock.
Leave ==
    /\ queue' = Tail(queue)
    /\ task' = Idle

\* _adopt, and the return from get.
Adopt(a) ==
    /\ hot' = [hot EXCEPT ![Holder.scope] = [from |-> task.trying, token |-> a]]
    /\ Leave

\* Mutant of TryNext: the candidates in the order they were configured.
TryNextUnsorted(asof, left) ==
    \/ /\ left = {}
       /\ Leave
    \/ \E r \in left :
        /\ task' = [Idle EXCEPT !.at = "reading", !.asof = asof, !.left = left, !.trying = r]
        /\ UNCHANGED queue

\* The next turn of get's loop over the candidates; after the last, it raises
\* NoUsableTokenError.
TryNext(asof, left) ==
    \/ /\ left = {}
       /\ Leave
    \/ \E r \in left :
        /\ ~ \E q \in left : Better(q, r)
        /\ task' = [Idle EXCEPT !.at = "reading", !.asof = asof, !.left = left, !.trying = r]
        /\ UNCHANGED queue

\* A write of the cache file leaves the expired entries out.
Unexpired(entries) == [r \in Refresh |-> IF now < entries[r].exp THEN entries[r] ELSE NoAccess]
Write(entries)     == file' = Unexpired(entries)

\* The writer is cancelled and its thread is left with the write.
LeaveLate(entries) ==
    /\ Cardinality(late) < MaxLate
    /\ late' = late \cup {Unexpired(entries)}

\* An OSError in the lock file or the cache file puts an end to the writing.
WriteFails ==
    /\ readable /\ writable
    /\ writable' = FALSE
    /\ UNCHANGED file

\* The await of a write by this process is over; there is nothing to wait for
\* when the file is not written any more.
Written(entries) ==
    \/ /\ readable /\ writable
       /\ Write(entries)
       /\ UNCHANGED writable
    \/ WriteFails
    \/ /\ ~ (readable /\ writable)
       /\ UNCHANGED <<file, writable>>

\* The await of the file half of cache.delete(r) is over.
Deleted(r) ==
    \/ /\ file[r] # NoAccess
       /\ Written([file EXCEPT ![r] = NoAccess])
    \/ /\ file[r] = NoAccess
       /\ UNCHANGED <<file, writable>> \/ WriteFails

Forget(r) == memory' = [memory EXCEPT ![r] = NoAccess]

-----------------------------------------------------------------------------
\* get: a valid hot token is returned at once, which changes nothing; without
\* one, queue for the lock.
Get(s) ==
    /\ Crowd < MaxCalls
    /\ ~ Valid(hot[s].token, now)
    /\ queue' = Append(queue, [scope |-> s, token |-> 0])
    /\ UNCHANGED <<now, minted, file, Usability, memory, late, hot, resolved, rejected, task, dropped>>

\* Mutant of EnterGet: the hot token is not looked at again under the lock.
EnterGetNoRecheck ==
    /\ At("entering") /\ Holder.scope # "none"
    /\ TryNext(now, Usable(Holder.scope, now))
    /\ UNCHANGED <<now, minted, file, Usability, memory, late, hot, resolved, rejected, dropped>>

\* The lock is taken: look again, then choose among the refresh tokens, which
\* the source has to be asked for the first time.
EnterGet ==
    /\ At("entering") /\ Holder.scope # "none"
    /\ \/ /\ Valid(hot[Holder.scope].token, now)
          /\ Leave
       \/ /\ ~ Valid(hot[Holder.scope].token, now) /\ resolved
          /\ TryNext(now, Usable(Holder.scope, now))
       \/ /\ ~ Valid(hot[Holder.scope].token, now) /\ ~ resolved
          /\ task' = [Idle EXCEPT !.at = "resolving", !.asof = now]
          /\ UNCHANGED queue
    /\ UNCHANGED <<now, minted, file, Usability, memory, late, hot, resolved, rejected, dropped>>

\* tokens(): the source answers, a list of tokens at once, or raises through get.
Resolve ==
    /\ At("resolving")
    /\ \/ /\ resolved' = TRUE
          /\ TryNext(task.asof, Usable(Holder.scope, task.asof))
       \/ Leave /\ UNCHANGED resolved
    /\ UNCHANGED <<now, minted, file, Usability, memory, late, hot, rejected, dropped>>

\* cache.get: memory before the file, whatever the memory's entry is worth.  A
\* valid entry serves, judged by the time the lock was taken.
ReadCache ==
    LET r == task.trying
        a == IF memory[r] # NoAccess THEN memory[r]
             ELSE IF readable' THEN file[r] ELSE NoAccess IN
    /\ At("reading")
    /\ \/ UNCHANGED readable
       \/ /\ readable /\ memory[r] = NoAccess
          /\ readable' = FALSE
    /\ \/ /\ Valid(a, task.asof)
          /\ Adopt(a)
       \/ /\ ~ Valid(a, task.asof)
          /\ task' = [task EXCEPT !.at = "exchanging"]
          /\ UNCHANGED <<queue, hot>>
    /\ UNCHANGED <<now, minted, file, writable, memory, late, resolved, rejected, dropped>>

\* The endpoint mints a token; it goes to memory and is on its way to the file.
Mint ==
    /\ At("exchanging")
    /\ now < ExpiresAt[task.trying]
    /\ minted < MaxMint
    /\ minted' = minted + 1
    /\ memory' = [memory EXCEPT ![task.trying] = [n |-> minted', exp |-> task.asof + Life]]
    /\ task' = [task EXCEPT !.at = "storing"]
    /\ UNCHANGED <<now, file, Usability, late, hot, resolved, rejected, queue, dropped>>

\* The token is in the file, or cannot be put there.
Stored ==
    LET r == task.trying IN
    /\ At("storing")
    /\ Written([file EXCEPT ![r] = memory[r]])
    /\ Adopt(memory[r])
    /\ UNCHANGED <<now, minted, readable, memory, late, resolved, rejected, dropped>>

\* The endpoint rejects the refresh token for a known reason: expired, deleted
\* in the web terminal, malformed or of another client.
Reject ==
    /\ At("exchanging")
    /\ rejected' = rejected \cup {task.trying}
    /\ Forget(task.trying)
    /\ task' = [task EXCEPT !.at = "dropping"]
    /\ UNCHANGED <<now, minted, file, Usability, late, hot, resolved, queue, dropped>>

\* An unknown reason, a failing endpoint, no connection: get raises.
Fail ==
    /\ At("exchanging")
    /\ Leave
    /\ UNCHANGED <<now, minted, file, Usability, memory, late, hot, resolved, rejected, dropped>>

\* The rejected token's entry is out of the file; on_rejected is called.
Dropped ==
    /\ At("dropping")
    /\ Deleted(task.trying)
    /\ task' = [task EXCEPT !.at = "reporting"]
    /\ UNCHANGED <<now, minted, readable, memory, late, hot, resolved, rejected, queue, dropped>>

\* on_rejected returns, or raises through get.
Reported ==
    /\ At("reporting")
    /\ \/ TryNext(task.asof, task.left \ {task.trying})
       \/ Leave
    /\ UNCHANGED <<now, minted, file, Usability, memory, late, hot, resolved, rejected, dropped>>

-----------------------------------------------------------------------------
\* invalidate, of any token: the API may refuse one at any time.
Invalidate(n) ==
    /\ Crowd < MaxCalls
    /\ queue' = Append(queue, [scope |-> "none", token |-> n])
    /\ UNCHANGED <<now, minted, file, Usability, memory, late, hot, resolved, rejected, task, dropped>>

\* The next turn of invalidate's loop, or its end.
ExpireNext(scopes) ==
    \/ /\ scopes = {}
       /\ Leave
       /\ UNCHANGED memory
    \/ \E s \in scopes :
        /\ Forget(hot[s].from)
        /\ task' = [Idle EXCEPT !.at = "expiring", !.trying = hot[s].from, !.scopes = scopes]
        /\ UNCHANGED queue

\* The lock is taken: find the scopes the token serves.
EnterInvalidate ==
    /\ At("entering") /\ Holder.scope = "none"
    /\ ExpireNext({s \in Scope : hot[s].token.n = Holder.token})
    /\ UNCHANGED <<now, minted, file, Usability, late, hot, resolved, rejected, dropped>>

\* Mutant of Expire: the entry stays in the file.
ExpireMemoryOnly ==
    /\ At("expiring")
    /\ \E s \in task.scopes :
        /\ hot[s].from = task.trying
        /\ hot' = [hot EXCEPT ![s].token.exp = 0]
        /\ ExpireNext(task.scopes \ {s})
        /\ dropped' = IF task.scopes = {s} THEN dropped \cup {Holder.token} ELSE dropped
    /\ UNCHANGED <<now, minted, file, Usability, late, resolved, rejected>>

\* The entry is out of the cache: the hot token expires.
Expire ==
    /\ At("expiring")
    /\ Deleted(task.trying)
    /\ \E s \in task.scopes :
        /\ hot[s].from = task.trying
        /\ hot' = [hot EXCEPT ![s].token.exp = 0]
        /\ ExpireNext(task.scopes \ {s})
        /\ dropped' = IF task.scopes = {s} THEN dropped \cup {Holder.token} ELSE dropped
    /\ UNCHANGED <<now, minted, readable, late, resolved, rejected>>

-----------------------------------------------------------------------------
\* Mutant of CancelHolder: the lock is not released.
CancelHolderKeepsLock ==
    /\ queue # <<>>
    /\ task' = [task EXCEPT !.at = "gone"]
    /\ UNCHANGED <<now, minted, file, Usability, memory, late, hot, resolved, rejected, queue, dropped>>

\* The holder is cancelled at its await and leaves with what it has changed.
\* When it was about to write the file its thread may have begun, and goes on.
CancelHolder ==
    /\ queue # <<>>
    /\ Leave
    /\ \/ UNCHANGED late
       \/ /\ readable /\ writable
          /\ \/ /\ task.at = "storing"
                /\ LeaveLate([file EXCEPT ![task.trying] = memory[task.trying]])
             \/ /\ task.at \in {"dropping", "expiring"} /\ file[task.trying] # NoAccess
                /\ LeaveLate([file EXCEPT ![task.trying] = NoAccess])
    /\ UNCHANGED <<now, minted, file, Usability, memory, hot, resolved, rejected, dropped>>

\* The late write is done, whatever was written since; or it fails, or is lost
\* between another's reading and writing.
LateWrite(entries) ==
    /\ entries \in late
    /\ late' = late \ {entries}
    /\ \/ /\ file' = entries
          /\ dropped' = {n \in dropped : \A r \in Refresh : entries[r].n # n}
       \/ UNCHANGED <<file, dropped>>
    /\ UNCHANGED <<now, minted, Usability, memory, hot, resolved, rejected, queue, task>>

\* A caller waiting for the lock is cancelled.
CancelWaiter(i) ==
    /\ i > 1
    /\ queue' = RemoveAt(queue, i)
    /\ UNCHANGED <<now, minted, file, Usability, memory, late, hot, resolved, rejected, task, dropped>>

\* Another process stores a token it minted, or drops an entry; its writer may be
\* cancelled as well.
OtherWrites(entries) ==
    \/ Write(entries) /\ UNCHANGED late
    \/ Crowd < MaxCalls /\ LeaveLate(entries) /\ UNCHANGED file

OtherStores(r) ==
    /\ minted < MaxMint
    /\ minted' = minted + 1
    /\ OtherWrites([file EXCEPT ![r] = [n |-> minted', exp |-> now + Life]])
    /\ UNCHANGED <<now, Usability, memory, hot, resolved, rejected, queue, task, dropped>>

OtherDeletes(r) ==
    /\ OtherWrites([file EXCEPT ![r] = NoAccess])
    /\ UNCHANGED <<now, minted, Usability, memory, hot, resolved, rejected, queue, task, dropped>>

\* The process dies, its threads with it, and starts again: the file is what is
\* left.
Restart ==
    /\ readable' = TRUE /\ writable' = TRUE
    /\ memory' = [r \in Refresh |-> NoAccess]
    /\ late' \in SUBSET late
    /\ hot' = [s \in Scope |-> NotServing]
    /\ resolved' = FALSE
    /\ rejected' = {}
    /\ queue' = <<>>
    /\ task' = Idle
    /\ dropped' = {}
    /\ UNCHANGED <<now, minted, file>>

Tick ==
    /\ now < MaxTime
    /\ now' = now + 1
    /\ UNCHANGED <<minted, file, Usability, memory, late, hot, resolved, rejected, queue, task, dropped>>

HolderStep ==
    \/ EnterGet \/ Resolve \/ ReadCache \/ Mint \/ Stored \/ Reject \/ Fail \/ Dropped \/ Reported
    \/ EnterInvalidate \/ Expire

Next ==
    \/ HolderStep \/ CancelHolder \/ Restart \/ Tick
    \/ \E s \in Scope : Get(s)
    \/ \E n \in 1 .. minted : Invalidate(n)
    \/ \E i \in DOMAIN queue : CancelWaiter(i)
    \/ \E entries \in late : LateWrite(entries)
    \/ \E r \in Refresh : OtherStores(r) \/ OtherDeletes(r)

Spec == Init /\ [][Next]_vars

-----------------------------------------------------------------------------
Places == {"entering", "resolving", "reading", "exchanging", "storing", "dropping", "reporting", "expiring"}

\* The types of the variables; what serves a scope was minted from a refresh
\* token that grants it.
TypeOK ==
    /\ now \in Nat /\ minted \in 0 .. MaxMint
    /\ file \in [Refresh -> Access]
    /\ readable \in BOOLEAN /\ writable \in BOOLEAN
    /\ memory \in [Refresh -> Access]
    /\ hot \in [Scope -> [from : Refresh \cup {None}, token : Access]]
    /\ \A s \in Scope : hot[s].from \in Granting(s) \cup {None}
    /\ late \subseteq [Refresh -> Access]
    /\ resolved \in BOOLEAN
    /\ rejected \subseteq Refresh
    /\ queue \in Seq(Call)
    /\ task \in [at : Places, asof : Nat, left : SUBSET Refresh,
                 trying : Refresh \cup {None}, scopes : SUBSET Scope]
    /\ dropped \subseteq 1 .. MaxMint

\* A rejected refresh token is "skipped for the rest of the process": whatever
\* was queued when it was rejected, it is not sent again.
NoRejectedReuse == At("exchanging") => task.trying \notin rejected

\* "The provider picks the least-privileged, longest-lived refresh token": a
\* worse one serves a scope only when every better one is rejected or expired.
LeastPrivilege ==
    \A s \in Scope : hot[s].from # None =>
        \A q \in Granting(s) : Better(q, hot[s].from) => q \in rejected \/ Expired(q, now)

\* "Concurrent callers wait for the exchange in progress": none of them starts
\* another while its scope has a token, or memory one of the refresh token it
\* tries, that was valid when its turn came.
NoNeedlessExchange ==
    [][At("reading") /\ task'.at = "exchanging" =>
          /\ ~ Valid(hot[Holder.scope].token, task.asof)
          /\ ~ Valid(memory[task.trying], task.asof)]_task

Serves(n) == \E s \in Scope : hot[s].token.n = n /\ Valid(hot[s].token, now)

\* Access token n is not served, and neither memory nor the file has it.
IsGone(n) ==
    /\ ~ Serves(n)
    /\ \A r \in Refresh : memory[r].n # n /\ (readable => file[r].n # n)

\* An access token the process invalidated does not come back, from memory or
\* from the file the other processes write, unless the file cannot be written;
\* one that the late write of a cancelled writer puts back has to be
\* invalidated again.
InvalidatedStaysDropped == writable => \A n \in dropped : IsGone(n)

\* The lock is never held by nobody: whatever raised or was cancelled, the call
\* at its head can go on.
HolderGoesOn == queue # <<>> => ENABLED HolderStep
=============================================================================

----------------------------- MODULE PrivateFile ------------------------------
(***************************************************************************)
(* bacsy._util.files: updates of a file under FileLock, as the token cache *)
(* and the account store make them: take the lock file, read, write the    *)
(* whole text to a temporary file and rename it, let the lock go.          *)
(*                                                                         *)
(* Each of the four is a job that asyncio.to_thread gives to the process's *)
(* pool of threads while the writer's task awaits it.  Cancelling the task *)
(* does not stop a job that has started.  A process may die at any time.   *)
(* The content of the file is the set of updates in it.                    *)
(***************************************************************************)
EXTENDS Naturals, FiniteSets

CONSTANTS
    Writers,   \* tasks that update the file once each
    Procs,     \* processes
    Home,      \* the process of each writer
    Pool,      \* threads in the pool of a process
    None       \* no writer

ASSUME FileAssumption ==
    /\ Home \in [Writers -> Procs]
    /\ Pool \in Nat \ {0}
    /\ None \notin Writers
    /\ IsFiniteSet(Writers)

VARIABLES
    file,      \* the updates in the file
    lock,      \* the writer whose descriptor holds the flock
    pc,        \* the job each writer awaits, or how it ended
    result,    \* how the writer will end once the lock is released
    copy,      \* what the writer read
    threads,   \* the jobs the pools are running
    torn       \* history: the writers cancelled in the middle of a write

vars == <<file, lock, pc, result, copy, threads, torn>>

Jobs == {"acquire", "read", "write", "release"}
Ends == {"done", "failed", "cancelled"}

Init ==
    /\ file = {}
    /\ lock = None
    /\ pc = [w \in Writers |-> "idle"]
    /\ result = [w \in Writers |-> "done"]
    /\ copy = [w \in Writers |-> {}]
    /\ threads = {}
    /\ torn = {}

Running(p) == {t \in threads : Home[t[1]] = p}

\* `async with FileLock(path)` is entered.
Begin(w) ==
    /\ pc[w] = "idle"
    /\ pc' = [pc EXCEPT ![w] = "acquire"]
    /\ UNCHANGED <<file, lock, result, copy, threads, torn>>

\* A thread of the pool is free for the job the writer awaits.
StartJob(w) ==
    /\ pc[w] \in Jobs
    /\ <<w, pc[w]>> \notin threads
    /\ Cardinality(Running(Home[w])) < Pool
    /\ threads' = threads \cup {<<w, pc[w]>>}
    /\ UNCHANGED <<file, lock, pc, result, copy, torn>>

\* A job ends; if its writer still awaits it, the writer goes on to `next`.
JobEnds(w, job, next) ==
    /\ <<w, job>> \in threads
    /\ threads' = threads \ {<<w, job>>}
    /\ pc' = IF pc[w] = job THEN [pc EXCEPT ![w] = next] ELSE pc

\* Mutant of Acquired: a shared lock, granted beside another.
AcquiredShared(w) ==
    /\ JobEnds(w, "acquire", "read")
    /\ lock' = w
    /\ UNCHANGED <<file, result, copy, torn>>

\* _acquire: flock is granted.
Acquired(w) ==
    /\ JobEnds(w, "acquire", "read")
    /\ lock = None
    /\ lock' = w
    /\ UNCHANGED <<file, result, copy, torn>>

\* _acquire raises: no lock file, or ten seconds of waiting on Windows.
AcquireFails(w) ==
    /\ JobEnds(w, "acquire", "failed")
    /\ UNCHANGED <<file, lock, result, copy, torn>>

\* read_private_text
Read(w) ==
    /\ JobEnds(w, "read", "write")
    /\ copy' = IF pc[w] = "read" THEN [copy EXCEPT ![w] = file] ELSE copy
    /\ UNCHANGED <<file, lock, result, torn>>

\* write_private_text: the temporary file replaces the file, whether or not
\* the writer still waits for it.
Replaced(w) ==
    /\ JobEnds(w, "write", "release")
    /\ file' = copy[w] \cup {w}
    /\ UNCHANGED <<lock, result, copy, torn>>

\* Reading or writing raises; the file stays as it is.
JobFails(w) ==
    /\ \E job \in {"read", "write"} :
        /\ JobEnds(w, job, "release")
        /\ result' = IF pc[w] = job THEN [result EXCEPT ![w] = "failed"] ELSE result
    /\ UNCHANGED <<file, lock, copy, torn>>

\* Mutant of Released: a writer that failed keeps its lock.
ReleasedOnSuccess(w) ==
    /\ JobEnds(w, "release", result[w])
    /\ lock' = IF lock = w /\ result[w] = "done" THEN None ELSE lock
    /\ UNCHANGED <<file, result, copy, torn>>

\* _release
Released(w) ==
    /\ JobEnds(w, "release", result[w])
    /\ lock' = IF lock = w THEN None ELSE lock
    /\ UNCHANGED <<file, result, copy, torn>>

\* The writer's task is cancelled.  A job that has started goes on; inside the
\* block __aexit__ releases the lock, outside it nobody does.
Cancel(w) ==
    /\ \/ /\ pc[w] \in {"acquire", "release"}
          /\ pc' = [pc EXCEPT ![w] = "cancelled"]
          /\ UNCHANGED <<result, torn>>
       \/ /\ pc[w] \in {"read", "write"}
          /\ pc' = [pc EXCEPT ![w] = "release"]
          /\ result' = [result EXCEPT ![w] = "cancelled"]
          /\ torn' = IF <<w, "write">> \in threads THEN torn \cup {w} ELSE torn
    /\ UNCHANGED <<file, lock, copy, threads>>

\* A process dies; the kernel closes its descriptors.
Crash(p) ==
    /\ \E w \in Writers : Home[w] = p /\ pc[w] \in Jobs
    /\ pc' = [w \in Writers |-> IF Home[w] = p /\ pc[w] \in Jobs THEN "failed" ELSE pc[w]]
    /\ threads' = threads \ Running(p)
    /\ lock' = IF lock # None /\ Home[lock] = p THEN None ELSE lock
    /\ UNCHANGED <<file, result, copy, torn>>

Step(w) ==
    \/ StartJob(w) \/ Acquired(w) \/ AcquireFails(w) \/ Read(w) \/ Replaced(w)
    \/ JobFails(w) \/ Released(w)

Next ==
    \/ \E w \in Writers : Begin(w) \/ Step(w) \/ Cancel(w)
    \/ \E p \in Procs : Crash(p)

Spec == Init /\ [][Next]_vars

\* The pools run what they are given and the kernel grants a free lock to one
\* of those that wait, in no particular order.
FairSpec ==
    /\ Spec
    /\ \A w \in Writers :
        /\ WF_vars(StartJob(w)) /\ WF_vars(Acquired(w))
        /\ WF_vars(Read(w)) /\ WF_vars(Replaced(w)) /\ WF_vars(Released(w))

-----------------------------------------------------------------------------
\* The types of the variables, and the size of the pools.
TypeOK ==
    /\ file \subseteq Writers
    /\ lock \in Writers \cup {None}
    /\ pc \in [Writers -> Jobs \cup Ends \cup {"idle"}]
    /\ result \in [Writers -> Ends]
    /\ copy \in [Writers -> SUBSET Writers]
    /\ threads \subseteq Writers \X Jobs
    /\ torn \subseteq Writers
    /\ \A p \in Procs : Cardinality(Running(p)) <= Pool

\* "Writers in this process and in other processes take turns": an update that
\* succeeded is in the file for good, whoever else fails, dies or is cancelled,
\* unless a writer was cancelled in the middle of its write.
UpdatesKept ==
    torn = {} => \A w \in Writers : pc[w] = "done" => w \in file

\* For its users the file is one that is updated at once: every update takes effect
\* at most once and whole, on all the updates before it, and before its writer is
\* told, with the same exception.
Atomic == INSTANCE AtomicFile WITH succeeded <- {w \in Writers : pc[w] = "done"}
ImplementsAtomicFile == Atomic!Spec

\* The lock was granted to a writer that had been cancelled while it waited.
Leaked == lock # None /\ pc[lock] = "cancelled" /\ <<lock, "release">> \notin threads

\* Writers take turns: each gets the lock, unless it leaked.
TurnsTaken ==
    \A w \in Writers : pc[w] = "acquire" ~> (pc[w] # "acquire" \/ Leaked)
=============================================================================

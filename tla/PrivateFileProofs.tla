-------------------------- MODULE PrivateFileProofs ---------------------------
(***************************************************************************)
(* Proofs about PrivateFile, for any number of writers and processes and   *)
(* any size of the pools.                                                  *)
(***************************************************************************)
EXTENDS PrivateFile, FiniteSetTheorems, TLAPS

USE FileAssumption

-----------------------------------------------------------------------------
\* The pools hold no more than their threads.

\* The types without the sizes of the pools.
Typed ==
    /\ file \subseteq Writers
    /\ lock \in Writers \cup {None}
    /\ pc \in [Writers -> Jobs \cup Ends \cup {"idle"}]
    /\ result \in [Writers -> Ends]
    /\ copy \in [Writers -> SUBSET Writers]
    /\ threads \subseteq Writers \X Jobs
    /\ torn \subseteq Writers

\* Every step keeps the types.
LEMMA TypedKept == Typed /\ [Next]_vars => Typed'
<1> SUFFICES ASSUME Typed, [Next]_vars PROVE Typed'
  OBVIOUS
<1> USE DEF Typed, Jobs, Ends
<1>1. ASSUME NEW w \in Writers, Begin(w) PROVE Typed'
  BY <1>1 DEF Begin
<1>2. ASSUME NEW w \in Writers, StartJob(w) PROVE Typed'
  BY <1>2 DEF StartJob
<1>3. ASSUME NEW w \in Writers, Acquired(w) PROVE Typed'
  BY <1>3 DEF Acquired, JobEnds
<1>4. ASSUME NEW w \in Writers, AcquireFails(w) PROVE Typed'
  BY <1>4 DEF AcquireFails, JobEnds
<1>5. ASSUME NEW w \in Writers, Read(w) PROVE Typed'
  BY <1>5 DEF Read, JobEnds
<1>6. ASSUME NEW w \in Writers, Replaced(w) PROVE Typed'
  BY <1>6 DEF Replaced, JobEnds
<1>7. ASSUME NEW w \in Writers, JobFails(w) PROVE Typed'
  BY <1>7 DEF JobFails, JobEnds
<1>8. ASSUME NEW w \in Writers, Released(w) PROVE Typed'
  BY <1>8 DEF Released, JobEnds
<1>9. ASSUME NEW w \in Writers, Cancel(w) PROVE Typed'
  BY <1>9 DEF Cancel
<1>10. ASSUME NEW p \in Procs, Crash(p) PROVE Typed'
  BY <1>10 DEF Crash, Running
<1>11. CASE UNCHANGED vars
  BY <1>11 DEF vars
<1> QED
  BY <1>1, <1>2, <1>3, <1>4, <1>5, <1>6, <1>7, <1>8, <1>9, <1>10, <1>11 DEF Next, Step

\* The threads of a process are finitely many.
LEMMA RunningFinite ==
  ASSUME Typed, NEW p \in Procs
  PROVE  IsFiniteSet(Running(p))
<1>1. IsFiniteSet(Jobs)
  <2>1. IsFiniteSet({"acquire"}) /\ IsFiniteSet({"read"})
        /\ IsFiniteSet({"write"}) /\ IsFiniteSet({"release"})
    BY FS_Singleton
  <2>2. IsFiniteSet({"acquire"} \cup {"read"}) /\ IsFiniteSet({"write"} \cup {"release"})
    BY <2>1, FS_Union
  <2>3. Jobs = ({"acquire"} \cup {"read"}) \cup ({"write"} \cup {"release"})
    BY DEF Jobs
  <2> QED
    BY <2>2, <2>3, FS_Union
<1>2. IsFiniteSet(Writers \X Jobs)
  BY <1>1, FS_Product
<1> QED
  BY <1>2, FS_Subset DEF Running, Typed

PoolsBounded == \A p \in Procs : Cardinality(Running(p)) <= Pool

\* A pool that only loses threads stays within its size.
LEMMA FewerThreads ==
  ASSUME Typed, PoolsBounded, threads' \subseteq threads
  PROVE  PoolsBounded'
<1> SUFFICES ASSUME NEW p \in Procs PROVE Cardinality(Running(p)') <= Pool
  BY DEF PoolsBounded
<1>1. Running(p)' \subseteq Running(p)
  BY DEF Running
<1>2. IsFiniteSet(Running(p))
  BY RunningFinite
<1>3. /\ Cardinality(Running(p)') <= Cardinality(Running(p))
      /\ Cardinality(Running(p)') \in Nat /\ Cardinality(Running(p)) \in Nat
  BY <1>1, <1>2, FS_Subset, FS_CardinalityType
<1> QED
  BY <1>3 DEF PoolsBounded

\* A job starts only where there is room for it.
LEMMA RoomForJob ==
  ASSUME Typed, PoolsBounded, NEW w \in Writers, StartJob(w)
  PROVE  PoolsBounded'
<1> SUFFICES ASSUME NEW p \in Procs PROVE Cardinality(Running(p)') <= Pool
  BY DEF PoolsBounded
<1> DEFINE new == <<w, pc[w]>>
<1>1. IsFiniteSet(Running(p)) /\ Cardinality(Running(p)) \in Nat
  BY RunningFinite, FS_CardinalityType
<1>2. CASE Home[w] = p
  <2>1. Running(p)' = Running(p) \cup {new} /\ new \notin Running(p)
    BY <1>2 DEF StartJob, Running
  <2>2. Cardinality(Running(p)') = Cardinality(Running(p)) + 1
    BY <1>1, <2>1, FS_AddElement
  <2>3. Cardinality(Running(p)) < Pool
    BY <1>2 DEF StartJob
  <2> QED
    BY <1>1, <2>2, <2>3
<1>3. CASE Home[w] # p
  <2>1. Running(p)' = Running(p)
    BY <1>3 DEF StartJob, Running
  <2> QED
    BY <2>1 DEF PoolsBounded
<1> QED
  BY <1>2, <1>3

\* The types, and the pools never run more jobs than they have threads.
THEOREM TypeCorrect == Spec => []TypeOK
<1>1. Init => Typed /\ PoolsBounded
  <2> SUFFICES ASSUME Init PROVE Typed /\ PoolsBounded
    OBVIOUS
  <2>1. Typed
    BY DEF Init, Typed, Jobs, Ends
  <2>2. \A p \in Procs : Running(p) = {}
    BY DEF Init, Running
  <2> QED
    BY <2>1, <2>2, FS_EmptySet DEF PoolsBounded
<1>2. Typed /\ PoolsBounded /\ [Next]_vars => Typed' /\ PoolsBounded'
  <2> SUFFICES ASSUME Typed, PoolsBounded, [Next]_vars PROVE PoolsBounded'
    BY TypedKept
  <2>1. ASSUME NEW w \in Writers, StartJob(w) PROVE PoolsBounded'
    BY <2>1, RoomForJob
  <2>2. (\A w \in Writers : ~ StartJob(w)) => threads' \subseteq threads
    BY DEF Next, Step, Begin, Acquired, AcquireFails, Read, Replaced, JobFails, Released,
           JobEnds, Cancel, Crash, vars
  <2> QED
    BY <2>1, <2>2, FewerThreads
<1>3. Typed /\ PoolsBounded => TypeOK
  BY DEF Typed, PoolsBounded, TypeOK
<1> QED
  BY <1>1, <1>2, <1>3, PTL DEF Spec

-----------------------------------------------------------------------------
\* Updates are kept.

Inside == {"read", "write", "release"}

\* Only the holder of the lock is inside the block; a job outlives its await
\* only when the writer was cancelled.
LockInv ==
    /\ \A w \in Writers : pc[w] \in Inside => lock = w
    /\ \A w \in Writers : <<w, "acquire">> \in threads => pc[w] \in {"acquire", "cancelled"}
    /\ \A w \in Writers : <<w, "release">> \in threads => pc[w] \in {"release", "cancelled"}
    /\ \A w \in Writers : <<w, "write">> \in threads => pc[w] = "write" \/ w \in torn

\* What the holder read is still what is there, and what it wrote too.
CopyInv ==
    torn = {} => \A w \in Writers :
        /\ pc[w] = "write" => copy[w] = file
        /\ pc[w] = "release" /\ result[w] = "done" => w \in file
        /\ pc[w] = "done" => w \in file

IInv == Typed /\ LockInv /\ CopyInv

LEMMA Initially == Init => IInv
BY DEF Init, IInv, Typed, LockInv, CopyInv, Inside, Jobs, Ends

LEMMA LockKept == IInv /\ [Next]_vars => LockInv'
<1> SUFFICES ASSUME IInv, [Next]_vars PROVE LockInv'
  OBVIOUS
<1> USE DEF IInv, Typed, LockInv, Inside, Jobs, Ends
<1>1. ASSUME NEW w \in Writers, Begin(w) PROVE LockInv'
  BY <1>1 DEF Begin
<1>2. ASSUME NEW w \in Writers, StartJob(w) PROVE LockInv'
  BY <1>2 DEF StartJob
<1>3. ASSUME NEW w \in Writers, Acquired(w) PROVE LockInv'
  BY <1>3 DEF Acquired, JobEnds
<1>4. ASSUME NEW w \in Writers, AcquireFails(w) PROVE LockInv'
  BY <1>4 DEF AcquireFails, JobEnds
<1>5. ASSUME NEW w \in Writers, Read(w) PROVE LockInv'
  BY <1>5 DEF Read, JobEnds
<1>6. ASSUME NEW w \in Writers, Replaced(w) PROVE LockInv'
  BY <1>6 DEF Replaced, JobEnds
<1>7. ASSUME NEW w \in Writers, JobFails(w) PROVE LockInv'
  BY <1>7 DEF JobFails, JobEnds
<1>8. ASSUME NEW w \in Writers, Released(w) PROVE LockInv'
  BY <1>8 DEF Released, JobEnds
<1>9. ASSUME NEW w \in Writers, Cancel(w) PROVE LockInv'
  BY <1>9 DEF Cancel
<1>10. ASSUME NEW p \in Procs, Crash(p) PROVE LockInv'
  BY <1>10 DEF Crash, Running
<1>11. CASE UNCHANGED vars
  BY <1>11 DEF vars
<1> QED
  BY <1>1, <1>2, <1>3, <1>4, <1>5, <1>6, <1>7, <1>8, <1>9, <1>10, <1>11 DEF Next, Step

\* A write that ends finds nobody else inside, unless its writer was cancelled.
LEMMA WriteIsWhole ==
  ASSUME IInv, NEW w \in Writers, Replaced(w), torn = {}
  PROVE  /\ pc[w] = "write"
         /\ file' = file \cup {w}
         /\ \A v \in Writers \ {w} : pc[v] \notin Inside
BY DEF IInv, Typed, LockInv, CopyInv, Inside, Replaced, JobEnds

LEMMA CopyKept == IInv /\ [Next]_vars => CopyInv'
<1> SUFFICES ASSUME IInv, [Next]_vars, torn' = {} PROVE CopyInv'
  BY DEF CopyInv
<1> torn = {}
  BY DEF Next, Step, Begin, StartJob, Acquired, AcquireFails, Read, Replaced, JobFails,
         Released, Cancel, Crash, vars
<1> USE DEF IInv, Typed, CopyInv, Jobs, Ends
<1>1. ASSUME NEW w \in Writers, Begin(w) PROVE CopyInv'
  BY <1>1 DEF Begin
<1>2. ASSUME NEW w \in Writers, StartJob(w) PROVE CopyInv'
  BY <1>2 DEF StartJob
<1>3. ASSUME NEW w \in Writers, Acquired(w) PROVE CopyInv'
  BY <1>3 DEF Acquired, JobEnds
<1>4. ASSUME NEW w \in Writers, AcquireFails(w) PROVE CopyInv'
  BY <1>4 DEF AcquireFails, JobEnds
<1>5. ASSUME NEW w \in Writers, Read(w) PROVE CopyInv'
  BY <1>5 DEF Read, JobEnds
<1>6. ASSUME NEW w \in Writers, Replaced(w) PROVE CopyInv'
  <2>1. /\ pc[w] = "write"
        /\ file' = file \cup {w}
        /\ \A v \in Writers \ {w} : pc[v] \notin Inside
    BY <1>6, WriteIsWhole
  <2> QED
    BY <1>6, <2>1 DEF Replaced, JobEnds, Inside
<1>7. ASSUME NEW w \in Writers, JobFails(w) PROVE CopyInv'
  BY <1>7 DEF JobFails, JobEnds
<1>8. ASSUME NEW w \in Writers, Released(w) PROVE CopyInv'
  BY <1>8 DEF Released, JobEnds
<1>9. ASSUME NEW w \in Writers, Cancel(w) PROVE CopyInv'
  BY <1>9 DEF Cancel
<1>10. ASSUME NEW p \in Procs, Crash(p) PROVE CopyInv'
  BY <1>10 DEF Crash
<1>11. CASE UNCHANGED vars
  BY <1>11 DEF vars
<1> QED
  BY <1>1, <1>2, <1>3, <1>4, <1>5, <1>6, <1>7, <1>8, <1>9, <1>10, <1>11 DEF Next, Step

LEMMA Inductive == IInv /\ [Next]_vars => IInv'
BY TypedKept, LockKept, CopyKept DEF IInv

\* An update that succeeded is in the file for good, for any writers in any
\* processes, unless a writer was cancelled in the middle of its write.
THEOREM SucceededUpdatesKept == Spec => []UpdatesKept
<1>1. IInv => UpdatesKept
  BY DEF IInv, CopyInv, UpdatesKept
<1> QED
  BY <1>1, Initially, Inductive, PTL DEF Spec

-----------------------------------------------------------------------------
\* The file is updated at once.

\* A writer that was torn from its write is never told that it succeeded.
TornInv == \A w \in torn : pc[w] \in {"release", "cancelled", "failed"} /\ result[w] = "cancelled"

\* A writer that has still to replace the file is in nobody's text.
NotYet(w) == pc[w] \in {"idle", "acquire", "read", "write"} \/ <<w, "write">> \in threads
OnceInv == \A w \in Writers : NotYet(w) => w \notin file /\ \A v \in Writers : w \notin copy[v]

LEMMA TornKept == IInv /\ TornInv /\ [Next]_vars => TornInv'
<1> SUFFICES ASSUME IInv, TornInv, [Next]_vars PROVE TornInv'
  OBVIOUS
<1> USE DEF IInv, Typed, LockInv, TornInv, Jobs, Ends
<1>1. ASSUME NEW w \in Writers, Begin(w) PROVE TornInv'
  BY <1>1 DEF Begin
<1>2. ASSUME NEW w \in Writers, StartJob(w) PROVE TornInv'
  BY <1>2 DEF StartJob
<1>3. ASSUME NEW w \in Writers, Acquired(w) \/ AcquireFails(w) PROVE TornInv'
  BY <1>3 DEF Acquired, AcquireFails, JobEnds
<1>4. ASSUME NEW w \in Writers, Read(w) PROVE TornInv'
  BY <1>4 DEF Read, JobEnds
<1>5. ASSUME NEW w \in Writers, Replaced(w) PROVE TornInv'
  BY <1>5 DEF Replaced, JobEnds
<1>6. ASSUME NEW w \in Writers, JobFails(w) PROVE TornInv'
  BY <1>6 DEF JobFails, JobEnds
<1>7. ASSUME NEW w \in Writers, Released(w) PROVE TornInv'
  BY <1>7 DEF Released, JobEnds
<1>8. ASSUME NEW w \in Writers, Cancel(w) PROVE TornInv'
  BY <1>8 DEF Cancel
<1>9. ASSUME NEW p \in Procs, Crash(p) PROVE TornInv'
  BY <1>9 DEF Crash
<1>10. CASE UNCHANGED vars
  BY <1>10 DEF vars
<1> QED
  BY <1>1, <1>2, <1>3, <1>4, <1>5, <1>6, <1>7, <1>8, <1>9, <1>10 DEF Next, Step

LEMMA OnceKept == IInv /\ TornInv /\ OnceInv /\ [Next]_vars => OnceInv'
<1> SUFFICES ASSUME IInv, TornInv, OnceInv, [Next]_vars PROVE OnceInv'
  OBVIOUS
<1> USE DEF IInv, Typed, OnceInv, NotYet, Jobs, Ends
<1>1. ASSUME NEW w \in Writers, Begin(w) PROVE OnceInv'
  BY <1>1 DEF Begin
<1>2. ASSUME NEW w \in Writers, StartJob(w) PROVE OnceInv'
  BY <1>2 DEF StartJob
<1>3. ASSUME NEW w \in Writers, Acquired(w) \/ AcquireFails(w) PROVE OnceInv'
  BY <1>3 DEF Acquired, AcquireFails, JobEnds
<1>4. ASSUME NEW w \in Writers, Read(w) PROVE OnceInv'
  BY <1>4 DEF Read, JobEnds
<1>5. ASSUME NEW w \in Writers, Replaced(w) PROVE OnceInv'
  <2>1. ~ NotYet(w)'
    BY <1>5 DEF Replaced, JobEnds, LockInv, TornInv
  <2>2. \A v \in Writers : v # w /\ NotYet(v)' => NotYet(v)
    BY <1>5 DEF Replaced, JobEnds
  <2> QED
    BY <1>5, <2>1, <2>2 DEF Replaced
<1>6. ASSUME NEW w \in Writers, JobFails(w) PROVE OnceInv'
  BY <1>6 DEF JobFails, JobEnds
<1>7. ASSUME NEW w \in Writers, Released(w) PROVE OnceInv'
  BY <1>7 DEF Released, JobEnds
<1>8. ASSUME NEW w \in Writers, Cancel(w) PROVE OnceInv'
  BY <1>8 DEF Cancel
<1>9. ASSUME NEW p \in Procs, Crash(p) PROVE OnceInv'
  BY <1>9 DEF Crash, Running
<1>10. CASE UNCHANGED vars
  BY <1>10 DEF vars
<1> QED
  BY <1>1, <1>2, <1>3, <1>4, <1>5, <1>6, <1>7, <1>8, <1>9, <1>10 DEF Next, Step

\* Those who were told that they succeeded.
Succeeded == {w \in Writers : pc[w] = "done"}

\* A replace is an update at once, on the file as it is unless a writer was torn.
LEMMA ReplacedAtomically ==
  ASSUME IInv, TornInv, OnceInv, NEW w \in Writers, Replaced(w)
  PROVE  Atomic!Update(w) \/ Atomic!Overwrite(w)
<1>1. torn' = torn /\ Succeeded' = Succeeded /\ w \notin Succeeded
  BY DEF IInv, Typed, LockInv, TornInv, Replaced, JobEnds, Succeeded, Jobs, Ends
<1>2. w \notin file /\ file' = copy[w] \cup {w} /\ copy[w] \in SUBSET Writers
  BY DEF IInv, Typed, OnceInv, NotYet, Replaced, JobEnds
<1>3. CASE torn = {}
  BY <1>1, <1>2, <1>3, WriteIsWhole DEF Atomic!Update, Succeeded
<1>4. CASE torn # {}
  BY <1>1, <1>2, <1>4 DEF Atomic!Overwrite, Succeeded
<1> QED
  BY <1>3, <1>4

\* Whoever is told that its update succeeded, it did.
LEMMA ReleasedAtomically ==
  ASSUME IInv, TornInv, NEW w \in Writers, Released(w)
  PROVE  Atomic!Succeed(w) \/ UNCHANGED <<file, Succeeded, torn>>
<1>1. file' = file /\ torn' = torn
  BY DEF Released
<1>2. CASE pc[w] = "release" /\ result[w] = "done"
  <2>1. w \notin Succeeded \cup torn /\ (torn = {} => w \in file)
    BY <1>2 DEF IInv, CopyInv, TornInv, Succeeded
  <2>2. Succeeded' = Succeeded \cup {w}
    BY <1>2 DEF IInv, Typed, Released, JobEnds, Succeeded
  <2> QED
    BY <1>1, <2>1, <2>2 DEF Atomic!Succeed, Succeeded
<1>3. CASE ~ (pc[w] = "release" /\ result[w] = "done")
  BY <1>1, <1>3 DEF IInv, Typed, Released, JobEnds, Succeeded
<1> QED
  BY <1>2, <1>3

LEMMA CancelAtomically ==
  ASSUME IInv, TornInv, NEW w \in Writers, Cancel(w)
  PROVE  Atomic!Tear(w) \/ UNCHANGED <<file, Succeeded, torn>>
<1>1. file' = file /\ Succeeded' = Succeeded
  BY DEF IInv, Typed, Cancel, Succeeded, Jobs, Ends
<1>2. CASE pc[w] \in {"read", "write"}
  <2>1. w \notin Succeeded \cup torn
    BY <1>2 DEF TornInv, Succeeded
  <2>2. torn' = torn \/ torn' = torn \cup {w}
    BY <1>2 DEF Cancel
  <2> QED
    BY <1>1, <2>1, <2>2 DEF Atomic!Tear, Succeeded
<1>3. CASE pc[w] \notin {"read", "write"}
  BY <1>1, <1>3 DEF Cancel
<1> QED
  BY <1>2, <1>3

\* The users of the file may take every update for one step: it takes effect once
\* at most and whole, before its writer is told, for any writers and processes,
\* until a writer is cancelled in the middle of its write.
THEOREM Implements == Spec => ImplementsAtomicFile
<1>1. Init => IInv /\ TornInv /\ OnceInv /\ Atomic!Init
  BY Initially DEF Init, TornInv, OnceInv, NotYet, Atomic!Init
<1>2. IInv /\ TornInv /\ OnceInv /\ [Next]_vars => IInv' /\ TornInv' /\ OnceInv'
  BY Inductive, TornKept, OnceKept
<1>3. IInv /\ TornInv /\ OnceInv /\ [Next]_vars => [Atomic!Next]_(Atomic!vars)
  <2> SUFFICES ASSUME IInv, TornInv, OnceInv, [Next]_vars
               PROVE  Atomic!Next \/ UNCHANGED <<file, Succeeded, torn>>
    BY DEF Atomic!vars, Succeeded
  <2> USE DEF Succeeded, IInv, Typed, Jobs, Ends
  <2>1. ASSUME NEW w \in Writers, Begin(w) PROVE UNCHANGED <<file, Succeeded, torn>>
    BY <2>1 DEF Begin
  <2>2. ASSUME NEW w \in Writers, StartJob(w) PROVE UNCHANGED <<file, Succeeded, torn>>
    BY <2>2 DEF StartJob
  <2>3. ASSUME NEW w \in Writers, Acquired(w) \/ AcquireFails(w) \/ Read(w) \/ JobFails(w)
        PROVE  UNCHANGED <<file, Succeeded, torn>>
    BY <2>3 DEF Acquired, AcquireFails, Read, JobFails, JobEnds
  <2>4. ASSUME NEW p \in Procs, Crash(p) PROVE UNCHANGED <<file, Succeeded, torn>>
    BY <2>4 DEF Crash
  <2>5. CASE UNCHANGED vars
    BY <2>5 DEF vars
  <2>6. ASSUME NEW w \in Writers, Replaced(w) PROVE Atomic!Next
    BY <2>6, ReplacedAtomically DEF Atomic!Next
  <2>7. ASSUME NEW w \in Writers, Released(w)
        PROVE  Atomic!Next \/ UNCHANGED <<file, Succeeded, torn>>
    BY <2>7, ReleasedAtomically DEF Atomic!Next
  <2>8. ASSUME NEW w \in Writers, Cancel(w)
        PROVE  Atomic!Next \/ UNCHANGED <<file, Succeeded, torn>>
    BY <2>8, CancelAtomically DEF Atomic!Next
  <2> QED
    BY <2>1, <2>2, <2>3, <2>4, <2>5, <2>6, <2>7, <2>8 DEF Next, Step
<1> QED
  BY <1>1, <1>2, <1>3, PTL DEF Spec, ImplementsAtomicFile, Atomic!Spec
=============================================================================

----------------------------- MODULE ThreadPool -----------------------------
(***************************************************************************)
(* The thread pool of libupnp                                              *)
(* (src/ThirdParties/libupnp-1.2.1/threadutil/src/ThreadPool.c).           *)
(*                                                                         *)
(* Everything happens under tp->mutex, but calls let it go: CreateWorker   *)
(* waits until the new thread has counted itself, AddPersistent until its  *)
(* job has been picked up, Shutdown until the threads are gone; each on    *)
(* the condition start_and_shutdown.                                       *)
(*                                                                         *)
(* The threads wait for work on the other condition, for a limited time.   *)
(* Times are left out, and with them the signals that end this wait early: *)
(* an idle thread looks for work at any moment, as if its wait had timed   *)
(* out, and a job may have starved at any moment.  The system does not     *)
(* refuse threads or memory.                                               *)
(***************************************************************************)
EXTENDS Integers, Sequences, FiniteSets, SequencesExt

CONSTANTS
  Callers,   \* the threads that use the pool
  First,     \* the one that calls ThreadPoolInit
  MaxJobs,   \* bound: the jobs added; they are numbered in that order
  Workers,   \* bound: the pool's threads at a time, numbers
  Attrs,     \* the attributes that SetAttr is called with
  FirstAttr  \* and those that ThreadPoolInit is called with

INFINITE_THREADS == -1

Priorities == {"high", "med", "low"}
Jobs       == 1..MaxJobs
ThreadPoolJob == [number : Jobs, jobId : 0..MaxJobs, priority : Priorities]
NULL       == [number |-> 0, jobId |-> -1, priority |-> "med"]

ASSUME ThreadPoolAssumption ==
  /\ MaxJobs \in Nat
  /\ IsFiniteSet(Workers) /\ Workers = 1..Cardinality(Workers)
  /\ IsFiniteSet(Callers) /\ First \in Callers
  /\ \A a \in Attrs \cup {FirstAttr} :
       /\ a.minThreads \in Nat
       /\ a.maxThreads \in Nat \cup {INFINITE_THREADS}
       /\ a.jobsPerThread \in Nat
       /\ a.maxThreads # INFINITE_THREADS => a.minThreads <= a.maxThreads

VARIABLES
  \* The ThreadPool.
  attr,
  jobQ,               \* highJobQ, medJobQ and lowJobQ
  persistentJob,
  totalThreads, persistentThreads, lastJobId,
  shutdown,           \* "no", "yes", or "destroyed" as the pool is
  \* Its jobs.
  jobs,               \* how many there have been
  ended,              \* history: those done, removed or dropped
  \* Its threads.
  worker,             \* worker[w]: where thread w is
  job,                \* job[w]: the number of the one it runs, or 0
  persistent,         \* persistent[w]: the local variable
  \* The callers.
  call,               \* call[c]: the call that caller c waits in
  sleeping,           \* those that wait for start_and_shutdown
  \* History.
  crowded,            \* a thread was created while another started, or
                      \* SetAttr set the maximum below the threads there are
  overwritten         \* jobs that were in persistentJob when it was set

pool    == <<attr, jobQ, persistentJob, totalThreads, persistentThreads,
             lastJobId, shutdown>>
works   == <<jobs, ended>>
threads == <<worker, job, persistent>>
calls   == <<call, sleeping>>
history == <<crowded, overwritten>>
vars    == <<pool, works, threads, calls, history>>

NoJobs == [p \in Priorities |-> <<>>]

\* The function that was called, where it is, currentThreads of CreateWorker,
\* jobs of AddWorker, and the count of its loop (threads, or i of SetAttr).
Frame(f, at, target, load, count) ==
  [function |-> f, at |-> at, target |-> target, load |-> load,
   count |-> count]

NoCall == Frame("none", "idle", 0, 0, 0)

\* The first caller is in ThreadPoolInit, which is called before all else, at
\* the beginning of its loop.
Init ==
  /\ attr = FirstAttr
  /\ jobQ = NoJobs
  /\ persistentJob = NULL
  /\ totalThreads = 0 /\ persistentThreads = 0 /\ lastJobId = 0
  /\ shutdown = "no"
  /\ jobs = 0
  /\ ended = {}
  /\ worker = [w \in Workers |-> "none"]
  /\ job = [w \in Workers |-> 0]
  /\ persistent = [w \in Workers |-> -1]
  /\ call = [c \in Callers |->
       IF c = First THEN Frame("init", "create", 0, 0, -1) ELSE NoCall]
  /\ sleeping = {}
  /\ crowded = FALSE
  /\ overwritten = {}

-----------------------------------------------------------------------------
(* Conditions.                                                             *)

\* ithread_cond_broadcast(&tp->start_and_shutdown)
Broadcast == sleeping' = {}

\* Its wait for that condition has ended.
Awake(c, at) ==
  call[c].at = at /\ c \notin sleeping /\ shutdown # "destroyed"

-----------------------------------------------------------------------------
(* The pool's threads.                                                     *)

\* Mutant of Start: nobody is told.
StartQuietly(w) ==
  /\ worker[w] = "starting"
  /\ shutdown # "destroyed"
  /\ worker' = [worker EXCEPT ![w] = "top"]
  /\ totalThreads' = totalThreads + 1
  /\ UNCHANGED <<attr, jobQ, persistentJob, persistentThreads, lastJobId,
                 shutdown, works, job, persistent, calls, history>>

Start(w) ==
  /\ worker[w] = "starting"
  /\ shutdown # "destroyed"
  /\ worker' = [worker EXCEPT ![w] = "top"]
  /\ totalThreads' = totalThreads + 1
  /\ Broadcast
  /\ UNCHANGED <<attr, jobQ, persistentJob, persistentThreads, lastJobId,
                 shutdown, works, job, persistent, call, history>>

\* It has the mutex, after its last job or after a wait.
Looks(w) ==
  /\ worker[w] \in {"top", "idle"}
  /\ shutdown # "destroyed"

\* Mutant of Regular: the thread stays a persistent one.
RegularNever(w) == persistentThreads

\* "Persistent thread becomes a regular thread", at the top of the loop.
Regular(w) ==
  persistentThreads - (IF worker[w] = "top" /\ persistent[w] = 1 THEN 1 ELSE 0)

NoWork == jobQ = NoJobs /\ persistentJob = NULL /\ shutdown = "no"

TooMany == attr.maxThreads # INFINITE_THREADS /\ totalThreads > attr.maxThreads

MayGo(w) ==
  \/ worker[w] = "idle" /\ totalThreads > attr.minThreads
  \/ TooMany

Rest(w) ==
  /\ Looks(w)
  /\ worker[w] = "top"
  /\ NoWork /\ ~TooMany
  /\ worker' = [worker EXCEPT ![w] = "idle"]
  /\ persistent' = [persistent EXCEPT ![w] = -1]
  /\ persistentThreads' = Regular(w)
  /\ UNCHANGED <<attr, jobQ, persistentJob, totalThreads, lastJobId, shutdown,
                 works, job, calls, history>>

\* Mutant of Bumped: each starved job is put at the head of the next queue.
BumpedAtHead(i, k, m) ==
  LET med == jobQ["med"]
      low == jobQ["low"]
      Reversed(q, n) == [h \in 1..n |-> q[n + 1 - h]] IN
    [high |-> Reversed(low, m) \o Reversed(med, i) \o jobQ["high"],
     med  |-> SubSeq(low, m + 1, k) \o SubSeq(med, i + 1, Len(med)),
     low  |-> SubSeq(low, k + 1, Len(low))]

\* BumpPriority, if i jobs of medium and k jobs of low priority have starved:
\* those of low priority go on from the medium queue, if nothing is before
\* them there.
Bumped(i, k, m) ==
  LET med == jobQ["med"]
      low == jobQ["low"] IN
    [high |-> jobQ["high"] \o SubSeq(med, 1, i) \o SubSeq(low, 1, m),
     med  |-> SubSeq(med, i + 1, Len(med)) \o SubSeq(low, m + 1, k),
     low  |-> SubSeq(low, k + 1, Len(low))]

BumpPriority ==
  LET med == Len(jobQ["med"])
      low == Len(jobQ["low"])
      Starved == {s \in (0..med) \X (0..low) \X (0..low) :
                    s[3] <= s[2] /\ (s[3] > 0 => s[1] = med)} IN
    {Bumped(s[1], s[2], s[3]) : s \in Starved}

\* The thread ends: too many, idle for too long, or the pool is shut down, which
\* it looks at after BumpPriority.
Exit(w) ==
  /\ Looks(w)
  /\ (NoWork /\ MayGo(w)) \/ shutdown = "yes"
  /\ worker' = [worker EXCEPT ![w] = "none"]
  /\ persistent' = [persistent EXCEPT ![w] = -1]
  /\ totalThreads' = totalThreads - 1
  /\ persistentThreads' = Regular(w)
  /\ jobQ' \in BumpPriority
  /\ Broadcast
  /\ UNCHANGED <<attr, persistentJob, lastJobId, shutdown, works, job, call,
                 history>>

Run(w, j, p) ==
  /\ worker' = [worker EXCEPT ![w] = "running"]
  /\ job' = [job EXCEPT ![w] = j.number]
  /\ persistent' = [persistent EXCEPT ![w] = p]
  /\ UNCHANGED <<attr, totalThreads, lastJobId, shutdown, works, call, history>>

\* Mutant of TakePersistent: the job is not taken out.
TakePersistentKeeps(w) ==
  /\ Looks(w)
  /\ shutdown = "no" /\ persistentJob # NULL
  /\ jobQ' \in BumpPriority
  /\ Run(w, persistentJob, 1)
  /\ UNCHANGED persistentJob
  /\ persistentThreads' = Regular(w) + 1
  /\ Broadcast

TakePersistent(w) ==
  /\ Looks(w)
  /\ shutdown = "no" /\ persistentJob # NULL
  /\ jobQ' \in BumpPriority
  /\ Run(w, persistentJob, 1)
  /\ persistentJob' = NULL
  /\ persistentThreads' = Regular(w) + 1
  /\ Broadcast

\* "Pick the highest priority job".
Take(w) ==
  /\ Looks(w)
  /\ shutdown = "no" /\ persistentJob = NULL /\ jobQ # NoJobs
  /\ \E q \in BumpPriority :
       LET p == IF q["high"] # <<>> THEN "high"
                ELSE IF q["med"] # <<>> THEN "med" ELSE "low" IN
         /\ Run(w, Head(q[p]), 0)
         /\ jobQ' = [q EXCEPT ![p] = Tail(@)]
  /\ persistentThreads' = Regular(w)
  /\ UNCHANGED <<persistentJob, sleeping>>

\* The job's function returns.
Done(w) ==
  /\ worker[w] = "running"
  /\ worker' = [worker EXCEPT ![w] = "top"]
  /\ ended' = ended \cup {job[w]}
  /\ job' = [job EXCEPT ![w] = 0]
  /\ UNCHANGED <<pool, jobs, persistent, calls, history>>

-----------------------------------------------------------------------------
(* The calls.  A caller keeps the mutex until it waits or returns.         *)

Starting == {w \in Workers : worker[w] = "starting"}

\* Mutant of AtMaximum: one more is created.
AtMaximumLate(a) ==
  a.maxThreads # INFINITE_THREADS /\ totalThreads > a.maxThreads

AtMaximum(a) ==
  a.maxThreads # INFINITE_THREADS /\ totalThreads + 1 > a.maxThreads

Wait(c, frame) ==
  /\ call' = [call EXCEPT ![c] = frame]
  /\ sleeping' = sleeping \cup {c}

Return(c) ==
  /\ call' = [call EXCEPT ![c] = NoCall]
  /\ UNCHANGED sleeping

\* For history: see crowded.
Watch ==
  crowded' = \/ crowded
             \/ worker' # worker /\ Starting # {}
             \/ attr' # attr /\ attr'.maxThreads # INFINITE_THREADS
                  /\ totalThreads + Cardinality(Starting) > attr'.maxThreads

\* The new thread takes the lowest free number.
CreateWorker(c, f, load, count) ==
  /\ \E w \in Workers :
       /\ worker[w] = "none"
       /\ \A v \in 1..(w - 1) : worker[v] # "none"
       /\ worker' = [worker EXCEPT ![w] = "starting"]
  /\ Wait(c, Frame(f, "create", totalThreads + 1, load, count))

\* AddWorker and the rest of ThreadPoolAdd: "( threads == 0 ) || ( ( jobs /
\* threads ) > tp->attr.jobsPerThread )".  It does not mind the maximum.
AddWorker(c, load, count) ==
  LET more == load >= (attr.jobsPerThread + 1) * count /\ ~AtMaximum(attr) IN
    \/ /\ more
       /\ CreateWorker(c, "add", load, count)
       /\ UNCHANGED lastJobId
    \/ /\ ~more
       /\ Return(c)
       /\ lastJobId' = lastJobId + 1
       /\ UNCHANGED worker

\* The loops of ThreadPoolInit and SetAttr.
AddThreads(c, f, a, count) ==
  \/ /\ count < a.minThreads /\ ~AtMaximum(a)
     /\ CreateWorker(c, f, 0, count)
  \/ /\ count >= a.minThreads
     /\ Return(c)
     /\ UNCHANGED worker

\* A thread is refused: "clean up if the min threads could not be created".
\* It is when another caller has created one since the loop began.
Refused(c, f, a, count) ==
  /\ count < a.minThreads /\ AtMaximum(a)
  /\ call' = [call EXCEPT ![c] = Frame(f, "stop", 0, 0, 0)]
  /\ UNCHANGED <<worker, sleeping>>

\* The id of a job is read now, and counted when the call returns.
NewJob(p) == [number |-> jobs + 1, jobId |-> lastJobId, priority |-> p]

\* The wait of AddPersistent, until the job has been picked up.
PutPersistent(c) ==
  /\ persistentJob' = NewJob("med")
  /\ jobs' = jobs + 1
  /\ overwritten' = overwritten \cup ({persistentJob.number} \ {0})
  /\ Wait(c, Frame("persist", "handoff", 0, 0, 0))

-----------------------------------------------------------------------------
\* ThreadPoolInit has returned, and Shutdown has not.  No function looks at
\* tp->shutdown: a call that gets the mutex while Shutdown waits is made on a
\* pool whose lists are still in use.
Calls(c) ==
  /\ call[c] = NoCall /\ shutdown # "destroyed"
  /\ call[First].function # "init"

\* The calls of AddPersistent that have not put their job yet.
Coming ==
  {c \in Callers : call[c].function = "persist" /\ call[c].at = "create"}

\* Bound: more jobs may be added.
RoomForJob == jobs + Cardinality(Coming) < MaxJobs

ThreadPoolAdd(c, p) ==
  /\ Calls(c) /\ RoomForJob
  /\ jobQ' = [jobQ EXCEPT ![p] = Append(@, NewJob(p))]
  /\ jobs' = jobs + 1
  /\ AddWorker(c, Len(jobQ["high"]) + Len(jobQ["med"]) + Len(jobQ["low"]) + 1,
               totalThreads - persistentThreads)
  /\ UNCHANGED <<attr, persistentJob, totalThreads, persistentThreads, shutdown,
                 ended, job, persistent, overwritten>>
  /\ Watch

\* If there are not enough threads it fails, and has changed nothing.
ThreadPoolAddPersistent(c) ==
  /\ Calls(c) /\ RoomForJob
  /\ \/ /\ totalThreads < attr.maxThreads
        /\ CreateWorker(c, "persist", 0, 0)
        /\ UNCHANGED <<persistentJob, jobs, overwritten>>
     \/ /\ totalThreads >= attr.maxThreads
        /\ (totalThreads - persistentThreads) - 1 # 0
        /\ PutPersistent(c)
        /\ UNCHANGED worker
  /\ UNCHANGED <<attr, jobQ, totalThreads, persistentThreads, lastJobId,
                 shutdown, ended, job, persistent>>
  /\ Watch

\* Job i of queue p has that id, and no job before it.
Above == [high |-> {}, med |-> {"high"}, low |-> {"high", "med"}]

FirstWith(id, p, i) ==
  /\ jobQ[p][i].jobId = id
  /\ \A h \in 1..(i - 1) : jobQ[p][h].jobId # id
  /\ \A q \in Above[p] : \A h \in DOMAIN jobQ[q] : jobQ[q][h].jobId # id

\* The first job with that id, and else the persistent job.
ThreadPoolRemove(c, id) ==
  /\ Calls(c)
  /\ \/ \E p \in Priorities : \E i \in DOMAIN jobQ[p] :
          /\ FirstWith(id, p, i)
          /\ jobQ' = [jobQ EXCEPT ![p] = RemoveAt(@, i)]
          /\ ended' = ended \cup {jobQ[p][i].number}
          /\ UNCHANGED persistentJob
     \/ /\ \A p \in Priorities : \A i \in DOMAIN jobQ[p] :
             jobQ[p][i].jobId # id
        /\ persistentJob # NULL /\ persistentJob.jobId = id
        /\ persistentJob' = NULL
        /\ ended' = ended \cup {persistentJob.number}
        /\ UNCHANGED jobQ
  /\ UNCHANGED <<attr, totalThreads, persistentThreads, lastJobId, shutdown,
                 jobs, threads, calls, history>>

ThreadPoolSetAttr(c, a) ==
  /\ Calls(c)
  /\ attr = FirstAttr  \* bound: once
  /\ attr' = a
  /\ AddThreads(c, "attr", a, totalThreads)
  /\ UNCHANGED <<jobQ, persistentJob, totalThreads, persistentThreads,
                 lastJobId, shutdown, works, job, persistent, overwritten>>
  /\ Watch

\* The jobs that no thread has taken yet.
Queued  == UNION {Range(jobQ[p]) : p \in Priorities}
Waiting == {j.number : j \in Queued \cup ({persistentJob} \ {NULL})}

ThreadPoolShutdown(c) ==
  /\ Calls(c) \/ Awake(c, "stop")
  /\ shutdown' = "yes"
  /\ ended' = ended \cup Waiting
  /\ jobQ' = NoJobs
  /\ persistentJob' = NULL
  /\ call' = [call EXCEPT ![c] = Frame("shutdown", "join", 0, 0, 0)]
  /\ UNCHANGED <<attr, totalThreads, persistentThreads, lastJobId, jobs,
                 threads, sleeping, history>>

-----------------------------------------------------------------------------
(* The ends of the waits.                                                  *)

\* "while( tp->totalThreads < currentThreads )", and the other loops.
WaitsOn(c) ==
  /\ \/ Awake(c, "create") /\ totalThreads < call[c].target
     \/ Awake(c, "handoff") /\ persistentJob # NULL
     \/ Awake(c, "join") /\ totalThreads > 0
  /\ sleeping' = sleeping \cup {c}
  /\ UNCHANGED <<pool, works, threads, call, history>>

Created(c) ==
  /\ Awake(c, "create") /\ totalThreads >= call[c].target
  /\ \/ /\ call[c].function = "add"
        /\ AddWorker(c, call[c].load, call[c].count + 1)
        /\ UNCHANGED <<persistentJob, jobs, overwritten>>
     \/ /\ call[c].function \in {"init", "attr"}
        /\ \/ AddThreads(c, call[c].function, attr, call[c].count + 1)
           \/ Refused(c, call[c].function, attr, call[c].count + 1)
        /\ UNCHANGED <<persistentJob, lastJobId, jobs, overwritten>>
     \/ /\ call[c].function = "persist"
        /\ PutPersistent(c)
        /\ UNCHANGED <<lastJobId, worker>>
  /\ UNCHANGED <<attr, jobQ, totalThreads, persistentThreads, shutdown, ended,
                 job, persistent>>
  /\ Watch

PickedUp(c) ==
  /\ Awake(c, "handoff") /\ persistentJob = NULL
  /\ Return(c)
  /\ lastJobId' = lastJobId + 1
  /\ UNCHANGED <<attr, jobQ, persistentJob, totalThreads, persistentThreads,
                 shutdown, works, threads, history>>

\* The threads are gone; from here on nobody may use the pool.
Destroy(c) ==
  /\ Awake(c, "join") /\ totalThreads <= 0
  /\ Return(c)
  /\ shutdown' = "destroyed"
  /\ UNCHANGED <<attr, jobQ, persistentJob, totalThreads, persistentThreads,
                 lastJobId, works, threads, history>>

-----------------------------------------------------------------------------
WorkerThread(w) ==
  \/ Start(w) \/ Rest(w) \/ Exit(w) \/ TakePersistent(w) \/ Take(w)

\* The steps that a caller does not choose to make.
Continues(c) ==
  \/ WaitsOn(c) \/ Created(c) \/ PickedUp(c) \/ Destroy(c)
  \/ call[c].at = "stop" /\ ThreadPoolShutdown(c)

Next ==
  \/ \E w \in Workers : WorkerThread(w) \/ Done(w)
  \/ \E c \in Callers :
       \/ Continues(c)
       \/ \E p \in Priorities : ThreadPoolAdd(c, p)
       \/ ThreadPoolAddPersistent(c)
       \/ \E id \in 0..(lastJobId - 1) : ThreadPoolRemove(c, id)
       \/ \E a \in Attrs : ThreadPoolSetAttr(c, a)
       \/ call[c].at = "idle" /\ ThreadPoolShutdown(c)

Spec == Init /\ [][Next]_vars

\* Threads are scheduled, their waits time out, and jobs end, but for the
\* persistent ones, which may last.
Fairness ==
  /\ \A w \in Workers :
       /\ WF_vars(WorkerThread(w))
       /\ WF_vars(persistent[w] = 0 /\ Done(w))
  /\ \A c \in Callers : WF_vars(Continues(c))

FairSpec == Spec /\ Fairness

-----------------------------------------------------------------------------
(* Properties.                                                             *)

Counted == {w \in Workers : worker[w] \notin {"none", "starting"}}

Persistent == {w \in Counted : persistent[w] = 1
                                 /\ worker[w] \in {"running", "top"}}

Frames ==
  [function : {"none", "init", "attr", "add", "persist", "shutdown"},
   at : {"idle", "create", "handoff", "stop", "join"},
   target : 0..Cardinality(Workers), load : Nat, count : Nat \cup {-1}]

\* The numbers count the threads that they should.
TypeOK ==
  /\ attr \in Attrs \cup {FirstAttr}
  /\ jobQ \in [Priorities -> Seq(ThreadPoolJob)]
  /\ persistentJob \in ThreadPoolJob \cup {NULL}
  /\ totalThreads = Cardinality(Counted)
  /\ persistentThreads = Cardinality(Persistent)
  /\ lastJobId \in 0..MaxJobs
  /\ shutdown \in {"no", "yes", "destroyed"}
  /\ jobs \in 0..MaxJobs
  /\ ended \subseteq Jobs
  /\ worker \in [Workers -> {"none", "starting", "top", "idle",
                             "running"}]
  /\ job \in [Workers -> 0..MaxJobs]
  /\ persistent \in [Workers -> -1..1]
  /\ call \in [Callers -> Frames]
  /\ sleeping \subseteq Callers
  /\ crowded \in BOOLEAN
  /\ overwritten \subseteq Jobs

\* The header promises that the pool "will never have less than" its minimum
\* and "never have more than" its maximum of threads.  It has more if two
\* callers create one at a time, as a thread is counted only when it runs.  And
\* when Shutdown has destroyed the pool, no thread that would use it is left,
\* unless a call was in progress, or a thread not yet counted was overlooked.
BoundsAreKept ==
  /\ \/ crowded \/ attr.maxThreads = INFINITE_THREADS
     \/ totalThreads + Cardinality(Starting) <= attr.maxThreads
  /\ shutdown = "no" /\ (\A c \in Callers :
                            call[c].function \notin {"init", "attr"})
       => totalThreads >= attr.minThreads
  /\ shutdown = "destroyed" /\ ~crowded
       /\ (\A c \in Callers : call[c] = NoCall)
         => \A w \in Workers : worker[w] = "none"

\* Every job is in one place: it waits, or one thread runs it, or it is done,
\* removed or dropped.  A persistent job is lost if another one is added
\* before a thread has picked it up, and then its caller is told nothing.
EveryJobIsSomewhere ==
  LET running == {w \in Workers : worker[w] = "running"} IN
    /\ 1..jobs = Waiting \cup {job[w] : w \in running} \cup ended
                   \cup overwritten
    /\ jobs = Len(jobQ["high"]) + Len(jobQ["med"]) + Len(jobQ["low"])
                + (IF persistentJob = NULL THEN 0 ELSE 1)
                + Cardinality(running) + Cardinality(ended)
                + Cardinality(overwritten)

\* Starved jobs are moved to other queues, but jobs of the same priority are
\* run in the order in which they were added.
TakenInOrder ==
  [][\A j \in Queued, w \in Workers :
       job'[w] = j.number /\ job[w] # j.number =>
         \A i \in Queued' : i.priority = j.priority => j.number < i.number]_vars

\* All threads run persistent jobs, and no other one is coming.
AllPersistent ==
  /\ Starting = {} /\ Counted # {}
  /\ \A w \in Counted : worker[w] = "running" /\ persistent[w] = 1

\* The calls that wait in vain: for a number of threads that was there, but an
\* idle one has ended meanwhile; for a thread to pick up a persistent job when
\* there is no regular one left, when the pool is being shut down, or when the
\* job has been removed or dropped, as nobody is told; and for persistent jobs
\* to end.
Stuck(c) ==
  \/ call[c].at = "create" /\ totalThreads < call[c].target /\ Starting = {}
  \/ call[c].at = "handoff" /\ (AllPersistent \/ shutdown = "yes")
  \/ call[c].at = "handoff" /\ persistentJob = NULL /\ c \in sleeping
  \/ call[c].at = "join" /\ Persistent # {}

IsQueued(n) == \E j \in Queued : j.number = n

\* Every other call returns.  And every job of any priority is taken in the end,
\* or removed, or the pool shut down, unless the threads have become persistent
\* ones.  (Shutdown drops the jobs that are queued; one that is added while it
\* waits is neither run nor dropped.)
CallsEnd ==
  /\ \A c \in Callers :
       []<>(call[c] = NoCall \/ Stuck(c) \/ shutdown = "destroyed")
  /\ \A n \in Jobs :
       []<>(~IsQueued(n) \/ AllPersistent \/ shutdown # "no")

=============================================================================

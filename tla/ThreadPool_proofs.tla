------------------------- MODULE ThreadPool_proofs -------------------------
(***************************************************************************)
(* Proofs about ThreadPool, for any number of callers, threads and jobs,   *)
(* and any attributes.                                                     *)
(***************************************************************************)
EXTENDS ThreadPool, FiniteSetTheorems, SequenceTheorems, TLAPS

(* The invariant of the threads.                                           *)

\* The threads' part of TypeOK.  A thread that does not run a job, and is not
\* between two, has no part in persistentThreads.
WorkersOK ==
  /\ totalThreads = Cardinality(Counted)
  /\ persistentThreads = Cardinality(Persistent)
  /\ worker \in [Workers -> {"none", "starting", "top", "idle", "running"}]
  /\ job \in [Workers -> 0..MaxJobs]
  /\ persistent \in [Workers -> -1..1]
  /\ \A w \in Workers :
       worker[w] \in {"none", "starting", "idle"} => persistent[w] = -1

\* What a frame says of its function.
FrameOK(f) ==
  /\ f.at = "handoff" => f.function = "persist"
  /\ f.function \in {"init", "attr"} /\ f.at = "create" =>
       f.target >= f.count + 1

\* Its job has an id that is not counted yet, or is not there yet.
IsUncounted(f) == \/ f.function = "add" /\ f.at = "create"
                  \/ f.at = "handoff"
IsComing(f)    == f.function = "persist" /\ f.at = "create"

Uncounted == {c \in Callers : IsUncounted(call[c])}

\* A job that is there has an id below the number of jobs, and there is room for
\* those that are coming.
CallsOK ==
  /\ call \in [Callers -> Frames]
  /\ sleeping \subseteq Callers
  /\ \A c \in Callers : FrameOK(call[c])
  /\ lastJobId \in Nat /\ jobs \in Nat
  /\ lastJobId + Cardinality(Uncounted) = jobs
  /\ jobs + Cardinality(Coming) <= MaxJobs

\* One caller at a time has created a thread, and waits for it.
CreatorOK ==
  ~crowded =>
    /\ \A v, w \in Starting : v = w
    /\ Starting # {} =>
         \E c \in Callers :
           call[c].at = "create" /\ call[c].target > totalThreads

\* Shutdown has waited for the threads that are counted.
GoneOK == shutdown = "destroyed" => totalThreads = 0

-----------------------------------------------------------------------------
(* The numbers of threads.                                                 *)

LEMMA ThreadNumbers ==
  ASSUME ThreadPoolAssumption, WorkersOK
  PROVE  /\ IsFiniteSet(Counted) /\ IsFiniteSet(Persistent)
         /\ totalThreads \in 0..Cardinality(Workers)
         /\ persistentThreads \in 0..totalThreads
         /\ \A w \in Workers :
              worker[w] \in {"none", "starting"} =>
                totalThreads + 1 \in 1..Cardinality(Workers)
         /\ \A w \in Counted : totalThreads >= 1
<1>1. IsFiniteSet(Workers) /\ Cardinality(Workers) \in Nat
  BY FS_CardinalityType DEF ThreadPoolAssumption
<1>2. IsFiniteSet(Counted) /\ totalThreads \in 0..Cardinality(Workers)
  <2>1. Counted \in SUBSET Workers
    BY DEF Counted
  <2>2. IsFiniteSet(Counted) /\ Cardinality(Counted) <= Cardinality(Workers)
    BY <1>1, <2>1, FS_Subset
  <2>3. Cardinality(Counted) \in Nat
    BY <2>2, FS_CardinalityType
  <2>4. QED
    BY <1>1, <2>2, <2>3 DEF WorkersOK
<1>3. IsFiniteSet(Persistent) /\ persistentThreads \in 0..totalThreads
  <2>1. Persistent \in SUBSET Counted
    BY DEF Persistent
  <2>2. IsFiniteSet(Persistent) /\ Cardinality(Persistent) <= Cardinality(Counted)
    BY <1>2, <2>1, FS_Subset
  <2>3. Cardinality(Persistent) \in Nat
    BY <2>2, FS_CardinalityType
  <2>4. QED
    BY <1>2, <2>2, <2>3 DEF WorkersOK
<1>4. ASSUME NEW w \in Workers, worker[w] \in {"none", "starting"}
      PROVE  totalThreads + 1 \in 1..Cardinality(Workers)
  <2>1. Counted \cup {w} \in SUBSET Workers /\ w \notin Counted
    BY <1>4 DEF Counted
  <2>2. Cardinality(Counted \cup {w}) = totalThreads + 1
    BY <1>2, <2>1, FS_AddElement DEF WorkersOK
  <2>3. Cardinality(Counted \cup {w}) <= Cardinality(Workers)
    BY <1>1, <2>1, FS_Subset
  <2>4. QED
    BY <1>1, <1>2, <2>2, <2>3
<1>5. ASSUME NEW w \in Counted PROVE totalThreads >= 1
  <2>1. Counted # {}
    BY <1>5
  <2>2. Cardinality(Counted) # 0
    BY <1>2, <2>1, FS_EmptySet
  <2>3. QED
    BY <1>2, <2>2 DEF WorkersOK
<1>6. QED
  BY <1>2, <1>3, <1>4, <1>5

\* What a step of a caller may do to the threads: create one.
Creates ==
  /\ \/ UNCHANGED worker
     \/ \E w \in Workers :
          /\ worker[w] = "none"
          /\ worker' = [worker EXCEPT ![w] = "starting"]
  /\ UNCHANGED <<totalThreads, persistentThreads, job, persistent>>

\* The steps of a caller, Shutdown in either place.
CallerSteps(c) ==
  \/ Continues(c) \/ ThreadPoolAddPersistent(c) \/ ThreadPoolShutdown(c)
  \/ \E p \in Priorities : ThreadPoolAdd(c, p)
  \/ \E id \in 0..(lastJobId - 1) : ThreadPoolRemove(c, id)
  \/ \E a \in Attrs : ThreadPoolSetAttr(c, a)

LEMMA CallersCreate ==
  ASSUME NEW c \in Callers, CallerSteps(c)
  PROVE  Creates
<1>1. \A f, load, count :
        CreateWorker(c, f, load, count) =>
          \E w \in Workers : /\ worker[w] = "none"
                             /\ worker' = [worker EXCEPT ![w] = "starting"]
  BY DEF CreateWorker
<1>2. CASE ThreadPoolAddPersistent(c)
  BY <1>1, <1>2 DEF Creates, ThreadPoolAddPersistent
<1>3. CASE ThreadPoolShutdown(c)
  BY <1>3 DEF Creates, ThreadPoolShutdown, threads
<1>4. CASE \E p \in Priorities : ThreadPoolAdd(c, p)
  BY <1>1, <1>4 DEF Creates, ThreadPoolAdd, AddWorker
<1>5. CASE \E id \in 0..(lastJobId - 1) : ThreadPoolRemove(c, id)
  BY <1>5 DEF Creates, ThreadPoolRemove, threads
<1>6. CASE \E a \in Attrs : ThreadPoolSetAttr(c, a)
  BY <1>1, <1>6 DEF Creates, ThreadPoolSetAttr, AddThreads
<1>7. CASE WaitsOn(c)
  BY <1>7 DEF Creates, WaitsOn, pool, threads
<1>8. CASE Created(c)
  BY <1>1, <1>8 DEF Creates, Created, AddWorker, AddThreads, Refused
<1>9. CASE PickedUp(c)
  BY <1>9 DEF Creates, PickedUp, threads
<1>10. CASE Destroy(c)
  BY <1>10 DEF Creates, Destroy, threads
<1>11. QED
  BY <1>2, <1>3, <1>4, <1>5, <1>6, <1>7, <1>8, <1>9, <1>10 DEF CallerSteps, Continues

LEMMA CreateWorkers ==
  ASSUME WorkersOK, Creates
  PROVE  WorkersOK' /\ Counted' = Counted
<1>1. /\ worker' \in [Workers -> {"none", "starting", "top", "idle", "running"}]
      /\ \A w \in Workers : \/ worker'[w] = worker[w]
                            \/ worker[w] = "none" /\ worker'[w] = "starting"
      /\ persistent' = persistent /\ job' = job
      /\ totalThreads' = totalThreads /\ persistentThreads' = persistentThreads
  BY DEF WorkersOK, Creates
<1>2. Counted' = Counted
  BY <1>1 DEF Counted
<1>3. Persistent' = Persistent
  BY <1>1, <1>2 DEF Persistent, Counted
<1>4. QED
  BY <1>1, <1>2, <1>3 DEF WorkersOK

\* A thread that looks for work becomes a regular one.
LEMMA RegularThread ==
  ASSUME ThreadPoolAssumption, WorkersOK, NEW w \in Workers, Looks(w)
  PROVE  /\ w \in Counted
         /\ Regular(w) = Cardinality(Persistent \ {w})
<1>1. w \in Counted
  BY DEF Looks, Counted
<1>2. w \in Persistent <=> worker[w] = "top" /\ persistent[w] = 1
  BY <1>1 DEF Looks, Persistent
<1>3. /\ Cardinality(Persistent \ {w}) =
           IF w \in Persistent THEN Cardinality(Persistent) - 1
           ELSE Cardinality(Persistent)
      /\ Cardinality(Persistent) \in Nat
  BY ThreadNumbers, FS_RemoveElement, FS_CardinalityType
<1>4. QED
  BY <1>1, <1>2, <1>3 DEF Regular, WorkersOK

-----------------------------------------------------------------------------
(* The queues as one, in the order in which their jobs are taken.          *)

AsOne(q) == q["high"] \o q["med"] \o q["low"]

Queue == AsOne(jobQ)

\* No job is in a queue above its priority's, but for starved ones.
Levels(q) ==
  /\ \A i \in 1..Len(q["med"]) : q["med"][i].priority # "high"
  /\ \A i \in 1..Len(q["low"]) : q["low"][i].priority = "low"

QueueType(q) == q \in [Priorities -> Seq(ThreadPoolJob)]

\* The elements of three sequences are those of s.
Joined(a, b, c, s) ==
  /\ Len(s) = Len(a) + Len(b) + Len(c)
  /\ \A i \in 1..Len(a) : s[i] = a[i]
  /\ \A i \in 1..Len(b) : s[Len(a) + i] = b[i]
  /\ \A i \in 1..Len(c) : s[Len(a) + Len(b) + i] = c[i]

LEMMA ThreeConcat ==
  ASSUME NEW S, NEW a \in Seq(S), NEW b \in Seq(S), NEW c \in Seq(S)
  PROVE  a \o b \o c \in Seq(S) /\ Joined(a, b, c, a \o b \o c)
<1>1. PICK d \in Seq(S) : d = a \o b
  BY ConcatProperties
<1>2. /\ Len(d) = Len(a) + Len(b)
      /\ \A i \in 1..Len(a) + Len(b) :
           d[i] = IF i <= Len(a) THEN a[i] ELSE b[i - Len(a)]
  BY <1>1, ConcatProperties
<1>3. PICK e \in Seq(S) : e = d \o c
  BY ConcatProperties
<1>4. /\ Len(e) = Len(d) + Len(c)
      /\ \A i \in 1..Len(d) + Len(c) :
           e[i] = IF i <= Len(d) THEN d[i] ELSE c[i - Len(d)]
  BY <1>3, ConcatProperties
<1>5. Len(a) \in Nat /\ Len(b) \in Nat /\ Len(c) \in Nat
  OBVIOUS
<1>6. ASSUME NEW i \in 1..Len(a) PROVE e[i] = a[i]
  BY <1>2, <1>4, <1>5
<1>7. ASSUME NEW i \in 1..Len(b) PROVE e[Len(a) + i] = b[i]
  <2>1. /\ Len(a) + i \in 1..Len(a) + Len(b) /\ ~(Len(a) + i <= Len(a))
        /\ (Len(a) + i) - Len(a) = i
    BY <1>5
  <2>2. d[Len(a) + i] = b[i]
    BY <1>2, <2>1
  <2>3. Len(a) + i \in 1..Len(d) + Len(c) /\ Len(a) + i <= Len(d)
    BY <1>2, <1>5
  <2>4. QED
    BY <1>4, <2>2, <2>3
<1>8. ASSUME NEW i \in 1..Len(c) PROVE e[Len(a) + Len(b) + i] = c[i]
  <2>1. /\ Len(a) + Len(b) + i \in 1..Len(d) + Len(c)
        /\ ~(Len(a) + Len(b) + i <= Len(d))
        /\ (Len(a) + Len(b) + i) - Len(d) = i
    BY <1>2, <1>5
  <2>2. QED
    BY <1>4, <2>1
<1>9. a \o b \o c = e
  BY <1>1, <1>3
<1>10. Joined(a, b, c, e)
  BY <1>2, <1>4, <1>6, <1>7, <1>8 DEF Joined
<1>11. QED
  BY <1>3, <1>9, <1>10

\* Two neighbours, one of which is empty, change places.
Regroups(S, h, a, b, c, d, e) ==
  (/\ h \in Seq(S) /\ a \in Seq(S) /\ b \in Seq(S)
   /\ c \in Seq(S) /\ d \in Seq(S) /\ e \in Seq(S)
   /\ b = <<>> \/ c = <<>>)
    => (h \o a \o b) \o (c \o d) \o e = h \o (a \o c) \o ((b \o d) \o e)

LEMMA Regroup ==
  ASSUME NEW S, NEW h, NEW a, NEW b, NEW c, NEW d, NEW e
  PROVE  Regroups(S, h, a, b, c, d, e)
<1>1. SUFFICES ASSUME h \in Seq(S), a \in Seq(S), b \in Seq(S),
                      c \in Seq(S), d \in Seq(S), e \in Seq(S),
                      b = <<>> \/ c = <<>>
               PROVE  (h \o a \o b) \o (c \o d) \o e
                        = h \o (a \o c) \o ((b \o d) \o e)
  BY DEF Regroups
<1>h. h \in Seq(S)
  BY <1>1
<1>a. a \in Seq(S)
  BY <1>1
<1>b. b \in Seq(S)
  BY <1>1
<1>c. c \in Seq(S)
  BY <1>1
<1>d. d \in Seq(S)
  BY <1>1
<1>e. e \in Seq(S)
  BY <1>1
<1>2. PICK x : x \in Seq(S) /\ x = h \o a
  BY <1>h, <1>a, ConcatProperties
<1>x. x \in Seq(S)
  BY <1>2
<1>3. PICK y : y \in Seq(S) /\ y = x \o b
  BY <1>x, <1>b, ConcatProperties
<1>y. y \in Seq(S)
  BY <1>3
<1>4. PICK z : z \in Seq(S) /\ z = x \o c
  BY <1>x, <1>c, ConcatProperties
<1>z. z \in Seq(S)
  BY <1>4
<1>5. (y \o c) \o d = y \o (c \o d)
  BY <1>y, <1>c, <1>d, ConcatAssociative
<1>6. y \o c = z \o b
  <2>1. x \o <<>> = x
    BY <1>x, ConcatEmptySeq
  <2>2. y \o <<>> = y
    BY <1>y, ConcatEmptySeq
  <2>3. z \o <<>> = z
    BY <1>z, ConcatEmptySeq
  <2>4. CASE b = <<>>
    BY <1>3, <1>4, <2>1, <2>3, <2>4
  <2>5. CASE c = <<>>
    BY <1>3, <1>4, <2>1, <2>2, <2>5
  <2>6. QED
    BY <1>1, <2>4, <2>5
<1>7. PICK v : v \in Seq(S) /\ v = b \o d
  BY <1>b, <1>d, ConcatProperties
<1>8. (z \o b) \o d = z \o v
  BY <1>z, <1>b, <1>d, <1>7, ConcatAssociative
<1>9. (z \o v) \o e = z \o (v \o e)
  <2>1. v \in Seq(S)
    BY <1>7
  <2>2. QED
    BY <1>z, <1>e, <2>1, ConcatAssociative
<1>10. z = h \o (a \o c)
  BY <1>2, <1>4, <1>h, <1>a, <1>c, ConcatAssociative
<1>11. (h \o a \o b) \o (c \o d) \o e = ((y \o c) \o d) \o e
  BY <1>2, <1>3, <1>5
<1>12. QED
  BY <1>6, <1>7, <1>8, <1>9, <1>10, <1>11

\* A sequence in two parts.
LEMMA Parts ==
  ASSUME NEW S, NEW s \in Seq(S), NEW i \in 0..Len(s), NEW k \in 0..Len(s),
         i <= k
  PROVE  /\ SubSeq(s, i + 1, k) \in Seq(S)
         /\ \A h \in 1..Len(SubSeq(s, i + 1, k)) :
              \E j \in 1..Len(s) : SubSeq(s, i + 1, k)[h] = s[j]
         /\ i = k => SubSeq(s, i + 1, k) = <<>>
         /\ SubSeq(s, 1, i) \o SubSeq(s, i + 1, k) = SubSeq(s, 1, k)
<1>1. \A j \in (i + 1)..k : s[j] \in S
  BY ElementOfSeq
<1>2. i + 1 \in Int /\ k \in Int
  OBVIOUS
<1>3. /\ SubSeq(s, i + 1, k) \in Seq(S)
      /\ Len(SubSeq(s, i + 1, k)) = IF i + 1 <= k THEN k - (i + 1) + 1 ELSE 0
      /\ \A h \in 1..k - (i + 1) + 1 : SubSeq(s, i + 1, k)[h] = s[i + 1 + h - 1]
  BY <1>1, <1>2, SubSeqProperties
<1>4. PICK t \in Seq(S) :
        /\ t = SubSeq(s, i + 1, k)
        /\ Len(t) = IF i + 1 <= k THEN k - (i + 1) + 1 ELSE 0
        /\ \A h \in 1..k - (i + 1) + 1 : t[h] = s[i + 1 + h - 1]
  BY <1>3
<1>5. \A h \in 1..Len(t) : \E j \in 1..Len(s) : t[h] = s[j]
  <2>1. ASSUME NEW h \in 1..Len(t) PROVE \E j \in 1..Len(s) : t[h] = s[j]
    <3>1. h \in 1..k - (i + 1) + 1 /\ i + 1 + h - 1 \in 1..Len(s)
      BY <1>4
    <3>2. QED
      BY <1>4, <3>1
  <2>2. QED
    BY <2>1
<1>6. i = k => t = <<>>
  BY <1>2, <1>4, SubSeqEmpty
<1>7. SubSeq(s, 1, i) \o SubSeq(s, i + 1, k) = SubSeq(s, 1, k)
  <2>1. 1 \in 1..Len(s) + 1 /\ i \in 1 - 1..Len(s) /\ k \in i..Len(s)
    OBVIOUS
  <2>2. QED
    BY <2>1, ConcatAdjacentSubSeq
<1>8. QED
  BY <1>4, <1>5, <1>6, <1>7

\* Every element of t is one of s.
Within(t, s) == \A n \in 1..Len(t) : \E j \in 1..Len(s) : t[n] = s[j]

\* s, cut after i elements, is a and then c.
Two(S, s, i, a, c) ==
  /\ a \in Seq(S) /\ c \in Seq(S)
  /\ a = SubSeq(s, 1, i) /\ c = SubSeq(s, i + 1, Len(s))
  /\ a \o c = s
  /\ i = Len(s) => c = <<>>
  /\ Within(c, s)

LEMMA TwoParts ==
  ASSUME NEW S, NEW s \in Seq(S), NEW i \in 0..Len(s)
  PROVE  \E a, c : Two(S, s, i, a, c)
<1>1. /\ 0 \in 0..Len(s) /\ Len(s) \in 0..Len(s) /\ i <= Len(s) /\ 0 <= i
      /\ 0 + 1 = 1
  OBVIOUS
<1>2. SubSeq(s, 1, i) \in Seq(S)
  BY <1>1, Parts
<1>3. SubSeq(s, i + 1, Len(s)) \in Seq(S)
  BY <1>1, Parts
<1>4. Within(SubSeq(s, i + 1, Len(s)), s)
  BY <1>1, Parts DEF Within
<1>5. i = Len(s) => SubSeq(s, i + 1, Len(s)) = <<>>
  BY <1>1, Parts
<1>6. SubSeq(s, 1, i) \o SubSeq(s, i + 1, Len(s)) = SubSeq(s, 1, Len(s))
  BY <1>1, Parts
<1>7. SubSeq(s, 1, Len(s)) = s
  BY SubSeqFull
<1>8. Two(S, s, i, SubSeq(s, 1, i), SubSeq(s, i + 1, Len(s)))
  BY <1>2, <1>3, <1>4, <1>5, <1>6, <1>7 DEF Two
<1>9. QED
  BY <1>8

\* s, cut after m and after k elements, is b, d and e.
Three(S, s, m, k, b, d, e) ==
  /\ b \in Seq(S) /\ d \in Seq(S) /\ e \in Seq(S)
  /\ b = SubSeq(s, 1, m) /\ d = SubSeq(s, m + 1, k)
  /\ e = SubSeq(s, k + 1, Len(s))
  /\ (b \o d) \o e = s
  /\ m = 0 => b = <<>>
  /\ Within(d, s) /\ Within(e, s)

LEMMA ThreeParts ==
  ASSUME NEW S, NEW s \in Seq(S), NEW k \in 0..Len(s), NEW m \in 0..Len(s),
         m <= k
  PROVE  \E b, d, e : Three(S, s, m, k, b, d, e)
<1>1. 0 \in 0..Len(s) /\ 0 <= m /\ 0 + 1 = 1
  OBVIOUS
<1>2. SubSeq(s, 1, m) \in Seq(S)
  BY <1>1, Parts
<1>3. m = 0 => SubSeq(s, 1, m) = <<>>
  BY <1>1, Parts
<1>4. SubSeq(s, m + 1, k) \in Seq(S)
  BY Parts
<1>5. Within(SubSeq(s, m + 1, k), s)
  BY Parts DEF Within
<1>6. SubSeq(s, 1, m) \o SubSeq(s, m + 1, k) = SubSeq(s, 1, k)
  BY Parts
<1>7. PICK a, e : Two(S, s, k, a, e)
  BY TwoParts
<1>8. /\ a = SubSeq(s, 1, k) /\ a \o e = s
      /\ e \in Seq(S) /\ e = SubSeq(s, k + 1, Len(s)) /\ Within(e, s)
  BY <1>7 DEF Two
<1>9. (SubSeq(s, 1, m) \o SubSeq(s, m + 1, k)) \o e = s
  BY <1>6, <1>8
<1>10. Three(S, s, m, k, SubSeq(s, 1, m), SubSeq(s, m + 1, k), e)
  BY <1>2, <1>3, <1>4, <1>5, <1>8, <1>9 DEF Three
<1>11. QED
  BY <1>10

\* BumpPriority moves the borders between the queues, and no job.
LEMMA BumpedQueue ==
  ASSUME QueueType(jobQ), NEW q \in BumpPriority
  PROVE  /\ QueueType(q)
         /\ AsOne(q) = Queue
         /\ Levels(jobQ) => Levels(q)
<1>0. PICK S : S = ThreadPoolJob
  OBVIOUS
<1>1. PICK h, med, low :
        /\ h = jobQ["high"] /\ med = jobQ["med"] /\ low = jobQ["low"]
        /\ h \in Seq(S) /\ med \in Seq(S) /\ low \in Seq(S)
  BY <1>0 DEF QueueType, Priorities
<1>2. PICK i \in 0..Len(med), k \in 0..Len(low), m \in 0..Len(low) :
        m <= k /\ (m > 0 => i = Len(med)) /\ q = Bumped(i, k, m)
  BY <1>1 DEF BumpPriority
<1>3. PICK a, c : Two(S, med, i, a, c)
  <2>1. med \in Seq(S)
    BY <1>1
  <2>2. QED
    BY <2>1, TwoParts
<1>4. PICK b, d, e : Three(S, low, m, k, b, d, e)
  <2>1. low \in Seq(S) /\ m <= k
    BY <1>1, <1>2
  <2>2. QED
    BY <2>1, ThreeParts
<1>5. PICK x, y : x = h \o a \o b /\ y = c \o d
  OBVIOUS
<1>6. q = [high |-> x, med |-> y, low |-> e]
  BY <1>1, <1>2, <1>3, <1>4, <1>5 DEF Bumped, Two, Three
<1>7. x \in Seq(S) /\ y \in Seq(S) /\ e \in Seq(S)
  <2>1. h \in Seq(S) /\ a \in Seq(S) /\ b \in Seq(S)
    BY <1>1, <1>3, <1>4 DEF Two, Three
  <2>2. h \o a \o b \in Seq(S)
    BY <2>1, ThreeConcat
  <2>3. c \in Seq(S) /\ d \in Seq(S)
    BY <1>3, <1>4 DEF Two, Three
  <2>4. c \o d \in Seq(S)
    BY <2>3, ConcatProperties
  <2>5. QED
    BY <1>4, <1>5, <2>2, <2>4 DEF Three
<1>8. q \in [Priorities -> Seq(S)]
  BY <1>6, <1>7 DEF Priorities
<1>9. AsOne(q) = Queue
  <2>1. /\ h \in Seq(S) /\ a \in Seq(S) /\ b \in Seq(S)
        /\ c \in Seq(S) /\ d \in Seq(S) /\ e \in Seq(S)
    BY <1>1, <1>3, <1>4 DEF Two, Three
  <2>2. m = 0 \/ i = Len(med)
    BY <1>2
  <2>3. b = <<>> \/ c = <<>>
    BY <1>3, <1>4, <2>2 DEF Two, Three
  <2>4. (h \o a \o b) \o (c \o d) \o e = h \o (a \o c) \o ((b \o d) \o e)
    <3>1. Regroups(S, h, a, b, c, d, e)
      BY Regroup
    <3>2. QED
      BY <2>1, <2>3, <3>1 DEF Regroups
  <2>5. a \o c = med /\ (b \o d) \o e = low
    BY <1>3, <1>4 DEF Two, Three
  <2>6. AsOne(q) = x \o y \o e
    BY <1>6 DEF AsOne
  <2>7. Queue = h \o med \o low
    BY <1>1 DEF Queue, AsOne
  <2>8. QED
    BY <1>5, <2>4, <2>5, <2>6, <2>7
<1>10. ASSUME Levels(jobQ) PROVE Levels(q)
  <2>1. /\ \A j \in 1..Len(med) : med[j].priority # "high"
        /\ \A j \in 1..Len(low) : low[j].priority = "low"
    BY <1>1, <1>10 DEF Levels
  <2>2. \A n \in 1..Len(c) : c[n].priority # "high"
    BY <1>3, <2>1 DEF Two, Within
  <2>3. /\ \A n \in 1..Len(d) : d[n].priority # "high"
        /\ \A n \in 1..Len(e) : e[n].priority = "low"
    BY <1>4, <2>1 DEF Three, Within
  <2>4. c \in Seq(S) /\ d \in Seq(S)
    BY <1>3, <1>4 DEF Two, Three
  <2>5. ASSUME NEW n \in 1..Len(c \o d) PROVE (c \o d)[n].priority # "high"
    <3>1. /\ Len(c \o d) = Len(c) + Len(d)
          /\ (c \o d)[n] = IF n <= Len(c) THEN c[n] ELSE d[n - Len(c)]
      BY <2>4, ConcatProperties
    <3>2. Len(c) \in Nat /\ Len(d) \in Nat
      BY <2>4
    <3>3. n \in 1..Len(c) \/ (~(n <= Len(c)) /\ n - Len(c) \in 1..Len(d))
      BY <3>1, <3>2
    <3>4. CASE n \in 1..Len(c)
      BY <2>2, <3>1, <3>2, <3>4
    <3>5. CASE ~(n <= Len(c)) /\ n - Len(c) \in 1..Len(d)
      BY <2>3, <3>1, <3>5
    <3>6. QED
      BY <3>3, <3>4, <3>5
  <2>6. QED
    BY <1>5, <1>6, <2>3, <2>5 DEF Levels
<1>11. QED
  BY <1>0, <1>8, <1>9, <1>10 DEF QueueType

-----------------------------------------------------------------------------
(* The places of the queues.                                               *)

\* Place i of queue p comes before place k of queue r.
Precedes(p, i, r, k) == p \in Above[r] \/ (p = r /\ i < k)

\* Jobs are distinct, and those of a priority in order.
Ordered(q) ==
  \A p, r \in Priorities : \A i \in 1..Len(q[p]), k \in 1..Len(q[r]) :
    Precedes(p, i, r, k) =>
      /\ q[p][i].number # q[r][k].number
      /\ q[p][i].priority = q[r][k].priority =>
           q[p][i].number < q[r][k].number

\* The same of the queues as one.
InOrder(s) ==
  \A i, k \in 1..Len(s) :
    i < k =>
      /\ s[i].number # s[k].number
      /\ s[i].priority = s[k].priority => s[i].number < s[k].number

\* The jobs of the queues.
Items(q) == UNION {Range(q[p]) : p \in Priorities}

LEMMA QueueTypes ==
  ASSUME NEW q, QueueType(q), NEW p \in Priorities
  PROVE  /\ q[p] \in Seq(ThreadPoolJob)
         /\ Len(q[p]) \in Nat
         /\ DOMAIN q[p] = 1..Len(q[p])
         /\ \A i \in 1..Len(q[p]) : q[p][i] \in ThreadPoolJob
<1>1. q[p] \in Seq(ThreadPoolJob)
  BY DEF QueueType
<1>2. PICK s : s = q[p]
  OBVIOUS
<1>3. s \in Seq(ThreadPoolJob)
  BY <1>1, <1>2
<1>4. /\ Len(s) \in Nat /\ DOMAIN s = 1..Len(s)
      /\ \A i \in 1..Len(s) : s[i] \in ThreadPoolJob
  BY <1>3, LenProperties, ElementOfSeq
<1>5. QED
  BY <1>1, <1>2, <1>4

LEMMA ItemsAre ==
  ASSUME NEW q, QueueType(q)
  PROVE  /\ \A j : j \in Items(q) <=>
                     \E p \in Priorities : \E i \in 1..Len(q[p]) : q[p][i] = j
         /\ Items(q) \subseteq ThreadPoolJob
<1>1. \A p \in Priorities : \A j :
        j \in Range(q[p]) <=> \E i \in 1..Len(q[p]) : q[p][i] = j
  BY QueueTypes DEF Range
<1>2. \A p \in Priorities : \A i \in 1..Len(q[p]) : q[p][i] \in ThreadPoolJob
  BY QueueTypes
<1>3. \A j : j \in Items(q) <=> \E p \in Priorities : j \in Range(q[p])
  BY DEF Items
<1>4. \A j : j \in Items(q) <=>
               \E p \in Priorities : \E i \in 1..Len(q[p]) : q[p][i] = j
  BY <1>1, <1>3
<1>5. QED
  BY <1>2, <1>4

\* How many places come before queue p.
Before(q, p) ==
  IF p = "high" THEN 0
  ELSE IF p = "med" THEN Len(q["high"])
  ELSE Len(q["high"]) + Len(q["med"])

\* Where a place is in the queues as one.
LEMMA PlacesAsOne ==
  ASSUME NEW q, QueueType(q)
  PROVE  /\ AsOne(q) \in Seq(ThreadPoolJob)
         /\ Len(AsOne(q)) = Len(q["high"]) + Len(q["med"]) + Len(q["low"])
         /\ \A p \in Priorities : \A i \in 1..Len(q[p]) :
              /\ Before(q, p) + i \in 1..Len(AsOne(q))
              /\ AsOne(q)[Before(q, p) + i] = q[p][i]
         /\ \A n \in 1..Len(AsOne(q)) :
              \E p \in Priorities : \E i \in 1..Len(q[p]) : n = Before(q, p) + i
<1>1. PICK h, m, l : h = q["high"] /\ m = q["med"] /\ l = q["low"]
  OBVIOUS
<1>2. h \in Seq(ThreadPoolJob) /\ m \in Seq(ThreadPoolJob) /\ l \in Seq(ThreadPoolJob)
  BY <1>1 DEF QueueType, Priorities
<1>3. Len(h) \in Nat /\ Len(m) \in Nat /\ Len(l) \in Nat
  BY <1>2, LenProperties
<1>4. PICK s : s = h \o m \o l
  OBVIOUS
<1>5. /\ s \in Seq(ThreadPoolJob) /\ Joined(h, m, l, s)
  BY <1>2, <1>4, ThreeConcat
<1>6. AsOne(q) = s
  BY <1>1, <1>4 DEF AsOne
<1>7. /\ Before(q, "high") = 0 /\ Before(q, "med") = Len(h)
      /\ Before(q, "low") = Len(h) + Len(m)
  BY <1>1 DEF Before
<1>8. ASSUME NEW p \in Priorities, NEW i \in 1..Len(q[p])
      PROVE  Before(q, p) + i \in 1..Len(s) /\ s[Before(q, p) + i] = q[p][i]
  <2>1. CASE p = "high"
    <3>1. q[p] = h /\ i \in 1..Len(h)
      BY <1>1, <2>1
    <3>2. QED
      BY <1>3, <1>5, <1>7, <2>1, <3>1 DEF Joined
  <2>2. CASE p = "med"
    <3>1. q[p] = m /\ i \in 1..Len(m) /\ Before(q, p) = Len(h)
      BY <1>1, <1>7, <2>2
    <3>2. Len(s) = Len(h) + Len(m) + Len(l) /\ s[Len(h) + i] = m[i]
      BY <1>5, <3>1 DEF Joined
    <3>3. QED
      BY <1>3, <3>1, <3>2
  <2>3. CASE p = "low"
    <3>1. q[p] = l /\ i \in 1..Len(l)
      BY <1>1, <2>3
    <3>2. QED
      BY <1>3, <1>5, <1>7, <2>3, <3>1 DEF Joined
  <2>4. QED
    BY <2>1, <2>2, <2>3 DEF Priorities
<1>9. ASSUME NEW n \in 1..Len(s)
      PROVE  \E p \in Priorities : \E i \in 1..Len(q[p]) : n = Before(q, p) + i
  <2>1. CASE n <= Len(h)
    <3>1. n \in 1..Len(q["high"]) /\ n = Before(q, "high") + n
      BY <1>1, <1>3, <1>7, <2>1
    <3>2. QED
      BY <3>1 DEF Priorities
  <2>2. CASE Len(h) < n /\ n <= Len(h) + Len(m)
    <3>1. n - Len(h) \in 1..Len(m) /\ n = Len(h) + (n - Len(h))
      BY <1>3, <2>2
    <3>2. QED
      BY <1>1, <1>7, <3>1 DEF Priorities
  <2>3. CASE Len(h) + Len(m) < n
    <3>1. Len(s) = Len(h) + Len(m) + Len(l)
      BY <1>5 DEF Joined
    <3>2. /\ n - (Len(h) + Len(m)) \in 1..Len(l)
          /\ n = Len(h) + Len(m) + (n - (Len(h) + Len(m)))
      BY <1>3, <2>3, <3>1
    <3>3. QED
      BY <1>1, <1>7, <3>2 DEF Priorities
  <2>4. QED
    BY <1>3, <2>1, <2>2, <2>3
<1>10. QED
  BY <1>1, <1>5, <1>6, <1>8, <1>9 DEF Joined

LEMMA PlacesPrecede ==
  ASSUME NEW q, QueueType(q), NEW p \in Priorities, NEW r \in Priorities,
         NEW i \in 1..Len(q[p]), NEW k \in 1..Len(q[r])
  PROVE  /\ Precedes(p, i, r, k) <=> Before(q, p) + i < Before(q, r) + k
         /\ Precedes(p, i, r, k) \/ Precedes(r, k, p, i) \/ (p = r /\ i = k)
<1>1. PICK x \in Nat, y \in Nat, z \in Nat :
        x = Len(q["high"]) /\ y = Len(q["med"]) /\ z = Len(q["low"])
  BY QueueTypes DEF Priorities
<1>2. /\ Before(q, "high") = 0 /\ Before(q, "med") = x
      /\ Before(q, "low") = x + y
  BY <1>1 DEF Before
<1>3. /\ Above["high"] = {} /\ Above["med"] = {"high"}
      /\ Above["low"] = {"high", "med"}
  BY DEF Above
<1>4. /\ i \in Nat /\ 1 <= i /\ k \in Nat /\ 1 <= k
      /\ p = "high" => i <= x
      /\ p = "med" => i <= y
      /\ r = "high" => k <= x
      /\ r = "med" => k <= y
  BY <1>1, QueueTypes
<1>5. /\ p \in {"high", "med", "low"} /\ r \in {"high", "med", "low"}
  BY DEF Priorities
<1>6. CASE p = "high"
  BY <1>2, <1>3, <1>4, <1>5, <1>6 DEF Precedes
<1>7. CASE p = "med"
  BY <1>2, <1>3, <1>4, <1>5, <1>7 DEF Precedes
<1>8. CASE p = "low"
  BY <1>2, <1>3, <1>4, <1>5, <1>8 DEF Precedes
<1>9. QED
  BY <1>5, <1>6, <1>7, <1>8

LEMMA OrderedAsOne ==
  ASSUME NEW q, QueueType(q)
  PROVE  /\ Ordered(q) <=> InOrder(AsOne(q))
         /\ Items(q) = {AsOne(q)[n] : n \in 1..Len(AsOne(q))}
<1>1. PICK s : s = AsOne(q)
  OBVIOUS
<1>2. /\ \A p \in Priorities : \A i \in 1..Len(q[p]) :
           Before(q, p) + i \in 1..Len(s) /\ s[Before(q, p) + i] = q[p][i]
      /\ \A n \in 1..Len(s) :
           \E p \in Priorities : \E i \in 1..Len(q[p]) : n = Before(q, p) + i
  BY <1>1, PlacesAsOne
<1>3. ASSUME InOrder(s) PROVE Ordered(q)
  <2>1. ASSUME NEW p \in Priorities, NEW r \in Priorities,
               NEW i \in 1..Len(q[p]), NEW k \in 1..Len(q[r]),
               Precedes(p, i, r, k)
        PROVE  /\ q[p][i].number # q[r][k].number
               /\ q[p][i].priority = q[r][k].priority =>
                    q[p][i].number < q[r][k].number
    <3>1. PICK x, y : x = Before(q, p) + i /\ y = Before(q, r) + k
      OBVIOUS
    <3>2. x < y
      BY <2>1, <3>1, PlacesPrecede
    <3>3. x \in 1..Len(s) /\ y \in 1..Len(s) /\ s[x] = q[p][i] /\ s[y] = q[r][k]
      BY <1>2, <3>1
    <3>4. /\ s[x].number # s[y].number
          /\ s[x].priority = s[y].priority => s[x].number < s[y].number
      BY <1>3, <3>2, <3>3 DEF InOrder
    <3>5. QED
      BY <3>3, <3>4
  <2>2. QED
    BY <2>1 DEF Ordered
<1>4. ASSUME Ordered(q) PROVE InOrder(s)
  <2>1. ASSUME NEW x \in 1..Len(s), NEW y \in 1..Len(s), x < y
        PROVE  /\ s[x].number # s[y].number
               /\ s[x].priority = s[y].priority => s[x].number < s[y].number
    <3>1. PICK p \in Priorities : \E i \in 1..Len(q[p]) : x = Before(q, p) + i
      BY <1>2
    <3>2. PICK i \in 1..Len(q[p]) : x = Before(q, p) + i
      BY <3>1
    <3>3. PICK r \in Priorities : \E k \in 1..Len(q[r]) : y = Before(q, r) + k
      BY <1>2
    <3>4. PICK k \in 1..Len(q[r]) : y = Before(q, r) + k
      BY <3>3
    <3>5. Precedes(p, i, r, k)
      BY <2>1, <3>2, <3>4, PlacesPrecede
    <3>6. s[x] = q[p][i] /\ s[y] = q[r][k]
      BY <1>2, <3>2, <3>4
    <3>7. QED
      BY <1>4, <3>5, <3>6 DEF Ordered
  <2>2. QED
    BY <2>1 DEF InOrder
<1>5. Items(q) = {s[n] : n \in 1..Len(s)}
  <2>1. ASSUME NEW j \in Items(q) PROVE j \in {s[n] : n \in 1..Len(s)}
    BY <1>2, ItemsAre
  <2>2. ASSUME NEW n \in 1..Len(s) PROVE s[n] \in Items(q)
    BY <1>2, ItemsAre
  <2>3. QED
    BY <2>1, <2>2
<1>6. QED
  BY <1>1, <1>3, <1>4, <1>5

\* What BumpPriority keeps.
LEMMA BumpedOrder ==
  ASSUME QueueType(jobQ), NEW q \in BumpPriority
  PROVE  /\ QueueType(q)
         /\ Items(q) = Queued
         /\ Ordered(jobQ) => Ordered(q)
         /\ Levels(jobQ) => Levels(q)
<1>2. QueueType(q) /\ AsOne(q) = AsOne(jobQ) /\ (Levels(jobQ) => Levels(q))
  BY BumpedQueue DEF Queue
<1>3. Items(q) = Items(jobQ) /\ (Ordered(jobQ) => Ordered(q))
  BY <1>2, OrderedAsOne
<1>4. QED
  BY <1>2, <1>3 DEF Queued, Items

-----------------------------------------------------------------------------
(* Jobs come into the queues and leave them.                               *)

\* Removing place i of a queue: what is left, and where.
LEMMA RemoveAtProperties ==
  ASSUME NEW S, NEW q \in Seq(S), NEW i \in 1 .. Len(q)
  PROVE  /\ RemoveAt(q, i) \in Seq(S)
         /\ Len(RemoveAt(q, i)) = Len(q) - 1
         /\ \A j \in 1 .. Len(q) - 1 :
              RemoveAt(q, i)[j] = IF j < i THEN q[j] ELSE q[j + 1]
<1>1. PICK l, r : l = SubSeq(q, 1, i - 1) /\ r = SubSeq(q, i + 1, Len(q))
  OBVIOUS
<1>2. l \in Seq(S) /\ Len(l) = i - 1 /\ \A j \in 1 .. i - 1 : l[j] = q[j]
  BY <1>1
<1>3. r \in Seq(S) /\ Len(r) = Len(q) - i
      /\ \A j \in 1 .. Len(q) - i : r[j] = q[i + j]
  BY <1>1
<1>4. /\ l \o r \in Seq(S)
      /\ Len(l \o r) = Len(q) - 1
      /\ \A j \in 1 .. Len(q) - 1 :
           (l \o r)[j] = IF j <= Len(l) THEN l[j] ELSE r[j - Len(l)]
  BY <1>2, <1>3, ConcatProperties
<1>5. ASSUME NEW j \in 1 .. Len(q) - 1
      PROVE  (l \o r)[j] = IF j < i THEN q[j] ELSE q[j + 1]
  <2>1. CASE j < i
    BY <1>2, <1>4, <2>1
  <2>2. CASE ~(j < i)
    <3>1. (l \o r)[j] = r[j - (i - 1)] /\ j - (i - 1) \in 1 .. Len(q) - i
      BY <1>2, <1>4, <2>2
    <3>2. QED
      BY <1>3, <2>2, <3>1
  <2>3. QED
    BY <2>1, <2>2
<1>6. RemoveAt(q, i) = l \o r
  BY <1>1 DEF RemoveAt
<1>7. QED
  BY <1>4, <1>5, <1>6

\* r is q without the job at place x of queue p.
Without(q, p, x, r) ==
  /\ QueueType(r)
  /\ \A v \in Priorities : v # p => r[v] = q[v]
  /\ Len(r[p]) = Len(q[p]) - 1
  /\ \A j \in 1..Len(r[p]) : r[p][j] = IF j < x THEN q[p][j] ELSE q[p][j + 1]

\* r is q with the queue s in the place of queue p.
Changed(q, p, s, r) ==
  /\ QueueType(r) /\ r[p] = s
  /\ \A v \in Priorities : v # p => r[v] = q[v]

LEMMA ExceptQueue ==
  ASSUME NEW q, QueueType(q), NEW p \in Priorities,
         NEW s, s \in Seq(ThreadPoolJob), NEW r, r = [q EXCEPT ![p] = s]
  PROVE  Changed(q, p, s, r)
BY DEF QueueType, Changed

LEMMA RemoveWithout ==
  ASSUME NEW q, QueueType(q), NEW p \in Priorities, NEW x \in 1..Len(q[p]),
         NEW r, r = [q EXCEPT ![p] = RemoveAt(@, x)]
  PROVE  Without(q, p, x, r)
<1>1. PICK t : t = q[p]
  OBVIOUS
<1>2. t \in Seq(ThreadPoolJob) /\ x \in 1..Len(t)
  BY <1>1, QueueTypes
<1>3. PICK s : s = RemoveAt(t, x)
  OBVIOUS
<1>4. /\ s \in Seq(ThreadPoolJob) /\ Len(s) = Len(t) - 1
      /\ \A j \in 1..Len(t) - 1 : s[j] = IF j < x THEN t[j] ELSE t[j + 1]
  BY <1>2, <1>3, RemoveAtProperties
<1>5. r = [q EXCEPT ![p] = s]
  BY <1>1, <1>3
<1>6. Changed(q, p, s, r)
  <2>1. s \in Seq(ThreadPoolJob)
    BY <1>4
  <2>2. QED
    BY <1>5, <2>1, ExceptQueue
<1>7. QED
  BY <1>1, <1>4, <1>6 DEF Without, Changed

LEMMA TailWithout ==
  ASSUME NEW q, QueueType(q), NEW p \in Priorities, q[p] # <<>>,
         NEW r, r = [q EXCEPT ![p] = Tail(@)]
  PROVE  /\ 1 \in 1..Len(q[p]) /\ Head(q[p]) = q[p][1]
         /\ Without(q, p, 1, r)
<1>1. PICK t : t = q[p]
  OBVIOUS
<1>2. t \in Seq(ThreadPoolJob) /\ t # <<>>
  BY <1>1, QueueTypes
<1>3. 1 \in 1..Len(t) /\ Head(t) = t[1]
  BY <1>2, EmptySeq
<1>4. PICK s : s = Tail(t)
  OBVIOUS
<1>5. /\ s \in Seq(ThreadPoolJob) /\ Len(s) = Len(t) - 1
      /\ \A j \in 1..Len(s) : s[j] = t[j + 1]
  BY <1>2, <1>4, HeadTailProperties
<1>6. r = [q EXCEPT ![p] = s]
  BY <1>1, <1>4
<1>7. Changed(q, p, s, r)
  <2>1. s \in Seq(ThreadPoolJob)
    BY <1>5
  <2>2. QED
    BY <1>6, <2>1, ExceptQueue
<1>8. Without(q, p, 1, r)
  BY <1>1, <1>5, <1>7 DEF Without, Changed
<1>9. QED
  BY <1>1, <1>3, <1>8

\* Where a place of r was in q.
Was(p, x, v, j) == IF v = p /\ j >= x THEN j + 1 ELSE j

LEMMA WithoutWas ==
  ASSUME NEW q, QueueType(q), NEW p \in Priorities, NEW x \in 1..Len(q[p]),
         NEW r, Without(q, p, x, r), NEW v \in Priorities, NEW j \in 1..Len(r[v])
  PROVE  /\ Was(p, x, v, j) \in 1..Len(q[v])
         /\ r[v][j] = q[v][Was(p, x, v, j)]
         /\ ~(v = p /\ Was(p, x, v, j) = x)
<1>1. Len(q[p]) \in Nat /\ Len(q[v]) \in Nat
  BY QueueTypes
<1>2. CASE v = p
  <2>1. /\ Len(r[p]) = Len(q[p]) - 1 /\ j \in 1..Len(r[p])
        /\ r[p][j] = IF j < x THEN q[p][j] ELSE q[p][j + 1]
    BY <1>2 DEF Without
  <2>2. CASE j < x
    BY <1>1, <1>2, <2>1, <2>2 DEF Was
  <2>3. CASE j >= x
    BY <1>1, <1>2, <2>1, <2>3 DEF Was
  <2>4. QED
    BY <1>1, <2>1, <2>2, <2>3
<1>3. CASE v # p
  BY <1>3 DEF Without, Was
<1>4. QED
  BY <1>2, <1>3

\* Jobs of one number are one job.
LEMMA NumbersDiffer ==
  ASSUME NEW q, QueueType(q), Ordered(q),
         NEW p \in Priorities, NEW r \in Priorities,
         NEW i \in 1..Len(q[p]), NEW k \in 1..Len(q[r]),
         q[p][i].number = q[r][k].number
  PROVE  p = r /\ i = k
<1>1. Precedes(p, i, r, k) \/ Precedes(r, k, p, i) \/ (p = r /\ i = k)
  BY PlacesPrecede
<1>2. ~Precedes(p, i, r, k)
  BY DEF Ordered
<1>3. ~Precedes(r, k, p, i)
  BY DEF Ordered
<1>4. QED
  BY <1>1, <1>2, <1>3

LEMMA WithoutKeeps ==
  ASSUME NEW q, QueueType(q), Ordered(q), Levels(q),
         NEW p \in Priorities, NEW x \in 1..Len(q[p]),
         NEW r, Without(q, p, x, r)
  PROVE  /\ Ordered(r) /\ Levels(r)
         /\ q[p][x] \in Items(q)
         /\ \A j : j \in Items(r) <=>
                     j \in Items(q) /\ j.number # q[p][x].number
<1>1. QueueType(r)
  BY DEF Without
<1>2. ASSUME NEW v \in Priorities, NEW w \in Priorities,
             NEW i \in 1..Len(r[v]), NEW k \in 1..Len(r[w]),
             Precedes(v, i, w, k)
      PROVE  /\ r[v][i].number # r[w][k].number
             /\ r[v][i].priority = r[w][k].priority =>
                  r[v][i].number < r[w][k].number
  <2>1. PICK a, b : a = Was(p, x, v, i) /\ b = Was(p, x, w, k)
    OBVIOUS
  <2>2. /\ a \in 1..Len(q[v]) /\ r[v][i] = q[v][a]
        /\ b \in 1..Len(q[w]) /\ r[w][k] = q[w][b]
    BY <2>1, WithoutWas
  <2>3. Precedes(v, a, w, b)
    <3>1. v = w /\ i < k => a < b
      BY <2>1 DEF Was
    <3>2. QED
      BY <1>2, <3>1 DEF Precedes
  <2>4. QED
    BY <2>2, <2>3 DEF Ordered
<1>3. Ordered(r)
  BY <1>2 DEF Ordered
<1>4. Levels(r)
  <2>1. \A v \in Priorities : \A i \in 1..Len(r[v]) :
          \E a \in 1..Len(q[v]) : r[v][i] = q[v][a]
    BY WithoutWas
  <2>2. /\ \A i \in 1..Len(r["med"]) :
             \E a \in 1..Len(q["med"]) : r["med"][i] = q["med"][a]
        /\ \A i \in 1..Len(r["low"]) :
             \E a \in 1..Len(q["low"]) : r["low"][i] = q["low"][a]
    BY <2>1 DEF Priorities
  <2>3. /\ \A a \in 1..Len(q["med"]) : q["med"][a].priority # "high"
        /\ \A a \in 1..Len(q["low"]) : q["low"][a].priority = "low"
    BY DEF Levels
  <2>4. /\ \A i \in 1..Len(r["med"]) : r["med"][i].priority # "high"
        /\ \A i \in 1..Len(r["low"]) : r["low"][i].priority = "low"
    BY <2>2, <2>3
  <2>5. QED
    BY <2>4 DEF Levels
<1>5. q[p][x] \in Items(q)
  BY ItemsAre
<1>6. ASSUME NEW j \in Items(r)
      PROVE  j \in Items(q) /\ j.number # q[p][x].number
  <2>1. PICK v \in Priorities : \E i \in 1..Len(r[v]) : r[v][i] = j
    BY <1>1, ItemsAre
  <2>2. PICK i \in 1..Len(r[v]) : r[v][i] = j
    BY <2>1
  <2>3. PICK a \in 1..Len(q[v]) : j = q[v][a] /\ ~(v = p /\ a = x)
    BY <2>2, WithoutWas
  <2>4. j \in Items(q)
    BY <2>3, ItemsAre
  <2>5. j.number # q[p][x].number
    BY <2>3, NumbersDiffer
  <2>6. QED
    BY <2>4, <2>5
<1>7. ASSUME NEW j \in Items(q), j.number # q[p][x].number
      PROVE  j \in Items(r)
  <2>1. PICK v \in Priorities : \E a \in 1..Len(q[v]) : q[v][a] = j
    BY ItemsAre
  <2>2. PICK a \in 1..Len(q[v]) : q[v][a] = j
    BY <2>1
  <2>3. Len(q[v]) \in Nat /\ Len(q[p]) \in Nat
    BY QueueTypes
  <2>4. \E i \in 1..Len(r[v]) : r[v][i] = j
    <3>1. CASE v # p
      BY <2>2, <3>1 DEF Without
    <3>2. CASE v = p
      <4>1. /\ Len(r[p]) = Len(q[p]) - 1
            /\ \A i \in 1..Len(r[p]) :
                 r[p][i] = IF i < x THEN q[p][i] ELSE q[p][i + 1]
        BY DEF Without
      <4>2. a # x
        BY <1>7, <2>2, <3>2
      <4>3. CASE a < x
        <5>1. a \in 1..Len(r[p]) /\ r[p][a] = q[p][a]
          BY <2>3, <3>2, <4>1, <4>3
        <5>2. QED
          BY <2>2, <3>2, <5>1
      <4>4. CASE a > x
        <5>1. a - 1 \in 1..Len(r[p]) /\ ~(a - 1 < x) /\ (a - 1) + 1 = a
          BY <2>3, <3>2, <4>1, <4>4
        <5>2. r[p][a - 1] = q[p][a]
          BY <4>1, <5>1
        <5>3. QED
          BY <2>2, <3>2, <5>1, <5>2
      <4>5. QED
        BY <4>2, <4>3, <4>4
    <3>3. QED
      BY <3>1, <3>2
  <2>5. QED
    BY <1>1, <2>4, ItemsAre
<1>8. QED
  BY <1>3, <1>4, <1>5, <1>6, <1>7

\* What has no queue above it with a job is taken before the others.
LEMMA FirstIsFirst ==
  ASSUME NEW q, QueueType(q), Ordered(q), NEW p \in Priorities,
         1 \in 1..Len(q[p]), \A v \in Above[p] : q[v] = <<>>,
         NEW j \in Items(q), j.number # q[p][1].number,
         j.priority = q[p][1].priority
  PROVE  q[p][1].number < j.number
<1>1. PICK v \in Priorities : \E a \in 1..Len(q[v]) : q[v][a] = j
  BY ItemsAre
<1>2. PICK a \in 1..Len(q[v]) : q[v][a] = j
  BY <1>1
<1>3. v \notin Above[p]
  BY <1>2, EmptySeq
<1>4. ~Precedes(v, a, p, 1)
  BY <1>2, <1>3 DEF Precedes
<1>5. Precedes(p, 1, v, a)
  BY <1>2, <1>4, PlacesPrecede
<1>6. QED
  BY <1>2, <1>5 DEF Ordered

\* A new job comes last in the queue of its priority.
Appended(q, x, r) == r = [q EXCEPT ![x.priority] = Append(@, x)]

LEMMA AppendKeeps ==
  ASSUME NEW q, QueueType(q), Ordered(q), Levels(q),
         NEW x \in ThreadPoolJob, \A j \in Items(q) : j.number < x.number,
         NEW r, Appended(q, x, r)
  PROVE  /\ QueueType(r) /\ Ordered(r) /\ Levels(r)
         /\ Items(r) = Items(q) \cup {x}
<1>1. PICK p \in Priorities : p = x.priority
  BY DEF ThreadPoolJob
<1>2. PICK t : t = q[p]
  OBVIOUS
<1>3. t \in Seq(ThreadPoolJob) /\ Len(t) \in Nat
  BY <1>2, QueueTypes
<1>4. PICK s : s = Append(t, x)
  OBVIOUS
<1>5. /\ s \in Seq(ThreadPoolJob) /\ Len(s) = Len(t) + 1
      /\ \A i \in 1..Len(t) : s[i] = t[i]
      /\ s[Len(t) + 1] = x
  BY <1>3, <1>4, AppendProperties
<1>6. r = [q EXCEPT ![p] = s]
  BY <1>1, <1>2, <1>4 DEF Appended
<1>7. Changed(q, p, s, r)
  <2>1. s \in Seq(ThreadPoolJob)
    BY <1>5
  <2>2. QED
    BY <1>6, <2>1, ExceptQueue
<1>8. \A v \in Priorities : \A i \in 1..Len(r[v]) :
        \/ i \in 1..Len(q[v]) /\ r[v][i] = q[v][i]
        \/ v = p /\ i = Len(q[p]) + 1 /\ r[v][i] = x
  BY <1>2, <1>3, <1>5, <1>7 DEF Changed
<1>9. \A v \in Priorities : \A i \in 1..Len(q[v]) :
        i \in 1..Len(r[v]) /\ r[v][i] = q[v][i]
  BY <1>2, <1>3, <1>5, <1>7 DEF Changed
<1>10. Len(q[p]) + 1 \in 1..Len(r[p]) /\ r[p][Len(q[p]) + 1] = x
  BY <1>2, <1>3, <1>5, <1>7 DEF Changed
<1>11. Items(r) = Items(q) \cup {x}
  <2>1. \A j : j \in Items(r) <=>
                 \E v \in Priorities : \E i \in 1..Len(r[v]) : r[v][i] = j
    <3>1. QueueType(r)
      BY <1>7 DEF Changed
    <3>2. QED
      BY <3>1, ItemsAre
  <2>2. \A j : j \in Items(q) <=>
                 \E v \in Priorities : \E i \in 1..Len(q[v]) : q[v][i] = j
    BY ItemsAre
  <2>3. ASSUME NEW j \in Items(r) PROVE j \in Items(q) \cup {x}
    BY <1>8, <2>1, <2>2
  <2>4. ASSUME NEW j \in Items(q) PROVE j \in Items(r)
    <3>1. PICK v \in Priorities : \E i \in 1..Len(q[v]) : q[v][i] = j
      BY <2>2
    <3>2. PICK i \in 1..Len(q[v]) : q[v][i] = j
      BY <3>1
    <3>3. i \in 1..Len(r[v]) /\ r[v][i] = j
      BY <1>9, <3>2
    <3>4. QED
      BY <2>1, <3>3
  <2>5. x \in Items(r)
    BY <1>10, <2>1
  <2>6. QED
    BY <2>3, <2>4, <2>5
<1>12. Levels(r)
  <2>1. p = "med" \/ p = "low" \/ p = "high"
    BY DEF Priorities
  <2>2. \A i \in 1..Len(r["med"]) : r["med"][i].priority # "high"
    BY <1>1, <1>8 DEF Levels, Priorities
  <2>3. \A i \in 1..Len(r["low"]) : r["low"][i].priority = "low"
    BY <1>1, <1>8 DEF Levels, Priorities
  <2>4. QED
    BY <2>2, <2>3 DEF Levels
<1>13. ASSUME NEW v \in Priorities, NEW w \in Priorities,
              NEW i \in 1..Len(r[v]), NEW k \in 1..Len(r[w]),
              Precedes(v, i, w, k)
       PROVE  /\ r[v][i].number # r[w][k].number
              /\ r[v][i].priority = r[w][k].priority =>
                   r[v][i].number < r[w][k].number
  <2>1. \A u \in Priorities : \A n \in 1..Len(q[u]) :
          q[u][n] \in Items(q) /\ q[u][n].number < x.number
    BY ItemsAre
  <2>2. x.number \in Nat
    BY DEF ThreadPoolJob, Jobs
  <2>3. CASE i \in 1..Len(q[v]) /\ k \in 1..Len(q[w])
    <3>1. r[v][i] = q[v][i] /\ r[w][k] = q[w][k]
      BY <1>9, <2>3
    <3>2. QED
      BY <1>13, <2>3, <3>1 DEF Ordered
  <2>4. CASE /\ i \in 1..Len(q[v]) /\ r[v][i] = q[v][i]
             /\ r[w][k] = x
    <3>1. q[v][i].number < x.number /\ q[v][i].number \in Nat
      BY <2>1, <2>4, ItemsAre DEF ThreadPoolJob, Jobs
    <3>2. QED
      BY <2>2, <2>4, <3>1
  <2>5. CASE /\ v = p /\ i = Len(q[p]) + 1 /\ r[v][i] = x
             /\ k \in 1..Len(q[w]) /\ r[w][k] = q[w][k]
    <3>1. v \in Above[w]
      <4>1. CASE v = w
        BY <1>2, <1>3, <1>13, <2>5, <4>1 DEF Precedes
      <4>2. CASE v # w
        BY <1>13, <4>2 DEF Precedes
      <4>3. QED
        BY <4>1, <4>2
    <3>2. q[w][k].priority # p
      BY <2>5, <3>1 DEF Levels, Above, Priorities
    <3>3. q[w][k].number < x.number /\ q[w][k].number \in Nat
      BY <2>1, <2>5, ItemsAre DEF ThreadPoolJob, Jobs
    <3>4. QED
      BY <1>1, <2>2, <2>5, <3>2, <3>3
  <2>6. CASE /\ v = p /\ i = Len(q[p]) + 1
             /\ w = p /\ k = Len(q[p]) + 1
    BY <1>2, <1>3, <1>13, <2>6 DEF Precedes, Above, Priorities
  <2>7. QED
    BY <1>8, <2>3, <2>4, <2>5, <2>6
<1>14. Ordered(r)
  BY <1>13 DEF Ordered
<1>15. QED
  BY <1>7, <1>11, <1>12, <1>14 DEF Changed

-----------------------------------------------------------------------------
(* The invariant of the jobs.                                              *)

QueuedNumbers == {j.number : j \in Queued}

HandedOver == {persistentJob.number} \ {0}

Running == {w \in Workers : worker[w] = "running"}

RunNow == {job[w] : w \in Running}

\* The first n jobs are in five places, each in one.
Places(n, q, h, r, e, o) ==
  /\ q \cap h = {} /\ q \cap r = {} /\ q \cap e = {} /\ q \cap o = {}
  /\ h \cap r = {} /\ h \cap e = {} /\ h \cap o = {}
  /\ r \cap e = {} /\ r \cap o = {}
  /\ e \cap o = {}
  /\ q \cup h \cup r \cup e \cup o = 1..n

\* They wait in a queue or to be handed over, run, or have ended or are lost.
PlacesOK == Places(jobs, QueuedNumbers, HandedOver, RunNow, ended, overwritten)

\* No job is run by two threads.
RunningOK == \A v, w \in Running : job[v] = job[w] => v = w

JobsInv == Ordered(jobQ) /\ Levels(jobQ) /\ PlacesOK /\ RunningOK

\* What the types say of the jobs.
JobTypes ==
  /\ QueueType(jobQ)
  /\ persistentJob \in ThreadPoolJob \cup {NULL}
  /\ jobs \in 0..MaxJobs
  /\ worker \in [Workers -> {"none", "starting", "top", "idle", "running"}]
  /\ job \in [Workers -> 0..MaxJobs]

LEMMA QueuedItems == Queued = Items(jobQ)
BY DEF Queued, Items

LEMMA HandedOverIs ==
  ASSUME ThreadPoolAssumption, JobTypes
  PROVE  /\ persistentJob = NULL => HandedOver = {}
         /\ persistentJob # NULL =>
              HandedOver = {persistentJob.number} /\ persistentJob.number \in Jobs
<1>1. NULL.number = 0 /\ \A j \in ThreadPoolJob : j.number \in Jobs /\ j.number # 0
  BY DEF NULL, ThreadPoolJob, Jobs
<1>2. QED
  BY <1>1 DEF HandedOver, JobTypes

\* The moves of a job, or of all that wait.
LEMMA JobComes ==
  ASSUME NEW n \in Nat, NEW q, NEW h, NEW r, NEW e, NEW o,
         Places(n, q, h, r, e, o)
  PROVE  /\ n + 1 \notin q \cup h \cup r \cup e \cup o
         /\ Places(n + 1, q \cup {n + 1}, h, r, e, o)
         /\ Places(n + 1, q, {n + 1}, r, e, o \cup h)
<1>1. 1..(n + 1) = (1..n) \cup {n + 1} /\ n + 1 \notin 1..n
  OBVIOUS
<1>2. n + 1 \notin q \cup h \cup r \cup e \cup o
  BY <1>1 DEF Places
<1>3. Places(n + 1, q \cup {n + 1}, h, r, e, o)
  BY <1>1, <1>2 DEF Places
<1>4. Places(n + 1, q, {n + 1}, r, e, o \cup h)
  BY <1>1, <1>2 DEF Places
<1>5. QED
  BY <1>2, <1>3, <1>4

LEMMA QueuedJobMoves ==
  ASSUME NEW n, NEW q, NEW h, NEW r, NEW e, NEW o, Places(n, q, h, r, e, o),
         NEW x \in q
  PROVE  /\ x \notin r
         /\ Places(n, q \ {x}, h, r \cup {x}, e, o)
         /\ Places(n, q \ {x}, h, r, e \cup {x}, o)
BY DEF Places

LEMMA HandedOverMoves ==
  ASSUME NEW n, NEW q, NEW x, NEW r, NEW e, NEW o, Places(n, q, {x}, r, e, o)
  PROVE  /\ x \notin r
         /\ Places(n, q, {}, r \cup {x}, e, o)
         /\ Places(n, q, {}, r, e \cup {x}, o)
BY DEF Places

LEMMA RunningJobEnds ==
  ASSUME NEW n, NEW q, NEW h, NEW r, NEW e, NEW o, Places(n, q, h, r, e, o),
         NEW x \in r
  PROVE  Places(n, q, h, r \ {x}, e \cup {x}, o)
BY DEF Places

LEMMA WaitingJobsEnd ==
  ASSUME NEW n, NEW q, NEW h, NEW r, NEW e, NEW o, Places(n, q, h, r, e, o)
  PROVE  Places(n, {}, {}, r, e \cup q \cup h, o)
BY DEF Places

-----------------------------------------------------------------------------
(* Each step keeps it.                                                     *)

\* A step that moves no job.
UnchangedJobs ==
  UNCHANGED <<jobQ, persistentJob, jobs, ended, overwritten, job>>

LEMMA SameJobs ==
  ASSUME JobsInv, UnchangedJobs, Running' = Running
  PROVE  JobsInv'
<1>1. /\ QueuedNumbers' = QueuedNumbers /\ HandedOver' = HandedOver
      /\ RunNow' = RunNow
  BY DEF UnchangedJobs, QueuedNumbers, Queued, HandedOver, RunNow
<1>2. Ordered(jobQ)' /\ Levels(jobQ)'
  BY DEF UnchangedJobs, JobsInv, Ordered, Levels
<1>3. PlacesOK'
  BY <1>1 DEF UnchangedJobs, JobsInv, PlacesOK
<1>4. RunningOK'
  BY DEF UnchangedJobs, JobsInv, RunningOK
<1>5. QED
  BY <1>2, <1>3, <1>4 DEF JobsInv

LEMMA CreateRunning ==
  ASSUME JobTypes, Creates PROVE Running' = Running /\ job' = job
<1>1. \A w \in Workers : worker'[w] = "running" <=> worker[w] = "running"
  BY DEF JobTypes, Creates
<1>2. QED
  BY <1>1 DEF Running, Creates

\* A thread begins to run job n.
LEMMA RunJob ==
  ASSUME JobTypes, RunningOK, NEW w \in Workers, Looks(w),
         NEW j, NEW p, Run(w, j, p), j.number \notin RunNow
  PROVE  RunNow' = RunNow \cup {j.number} /\ RunningOK'
<1>1. w \notin Running /\ Running' = Running \cup {w}
  BY DEF JobTypes, Looks, Run, Running
<1>2. /\ job'[w] = j.number
      /\ \A v \in Running : job'[v] = job[v]
  BY <1>1 DEF JobTypes, Run, Running
<1>3. RunNow' = RunNow \cup {j.number}
  BY <1>1, <1>2 DEF RunNow
<1>4. \A v \in Running : job[v] # j.number
  BY DEF RunNow
<1>5. RunningOK'
  BY <1>1, <1>2, <1>4 DEF RunningOK
<1>6. QED
  BY <1>3, <1>5

LEMMA DoneJobs ==
  ASSUME JobTypes, JobsInv, NEW w \in Workers, Done(w)
  PROVE  JobsInv'
<1>1. w \in Running /\ Running' = Running \ {w}
  BY DEF JobTypes, Done, Running
<1>2. \A v \in Running' : job'[v] = job[v]
  BY <1>1 DEF JobTypes, Done, Running
<1>3. RunNow' = RunNow \ {job[w]} /\ job[w] \in RunNow
  BY <1>1, <1>2 DEF RunNow, JobsInv, RunningOK
<1>4. RunningOK'
  BY <1>1, <1>2 DEF JobsInv, RunningOK
<1>5. /\ jobQ' = jobQ /\ QueuedNumbers' = QueuedNumbers
      /\ HandedOver' = HandedOver /\ jobs' = jobs
      /\ ended' = ended \cup {job[w]} /\ overwritten' = overwritten
  BY DEF Done, pool, history, QueuedNumbers, Queued, HandedOver
<1>6. PlacesOK'
  <2>1. Places(jobs, QueuedNumbers, HandedOver, RunNow \ {job[w]},
               ended \cup {job[w]}, overwritten)
    BY <1>3, RunningJobEnds DEF JobsInv, PlacesOK
  <2>2. QED
    BY <1>3, <1>5, <2>1 DEF PlacesOK
<1>7. Ordered(jobQ)' /\ Levels(jobQ)'
  BY <1>5 DEF JobsInv, Ordered, Levels
<1>8. QED
  BY <1>4, <1>6, <1>7 DEF JobsInv

LEMMA TakePersistentJobs ==
  ASSUME ThreadPoolAssumption, JobTypes, JobsInv, NEW w \in Workers,
         TakePersistent(w)
  PROVE  JobsInv'
<1>1. /\ persistentJob # NULL /\ persistentJob' = NULL /\ jobQ' \in BumpPriority
      /\ Looks(w) /\ Run(w, persistentJob, 1)
      /\ jobs' = jobs /\ ended' = ended /\ overwritten' = overwritten
  BY DEF TakePersistent, Run, works, history
<1>2. /\ Items(jobQ') = Queued /\ Ordered(jobQ') /\ Levels(jobQ')
  BY <1>1, BumpedOrder DEF JobTypes, JobsInv
<1>3. QueuedNumbers' = QueuedNumbers
  BY <1>2 DEF QueuedNumbers, Queued, Items
<1>4. HandedOver = {persistentJob.number} /\ HandedOver' = {}
  <2>1. HandedOver = {persistentJob.number}
    BY <1>1, HandedOverIs
  <2>2. HandedOver' = {}
    BY <1>1 DEF HandedOver, NULL
  <2>3. QED
    BY <2>1, <2>2
<1>5. /\ persistentJob.number \notin RunNow
      /\ Places(jobs, QueuedNumbers, {}, RunNow \cup {persistentJob.number},
                ended, overwritten)
  <2>1. Places(jobs, QueuedNumbers, {persistentJob.number}, RunNow, ended,
               overwritten)
    BY <1>4 DEF JobsInv, PlacesOK
  <2>2. QED
    BY <2>1, HandedOverMoves
<1>6. RunNow' = RunNow \cup {persistentJob.number} /\ RunningOK'
  BY <1>1, <1>5, RunJob DEF JobsInv
<1>7. PlacesOK'
  BY <1>1, <1>3, <1>4, <1>5, <1>6 DEF PlacesOK
<1>8. QED
  BY <1>2, <1>6, <1>7 DEF JobsInv, Ordered, Levels

\* A thread that ends may have moved jobs that are queued.
LEMMA ExitJobs ==
  ASSUME ThreadPoolAssumption, JobTypes, JobsInv, NEW w \in Workers, Exit(w)
  PROVE  JobsInv' /\ QueueType(jobQ')
<1>1. /\ jobQ' \in BumpPriority /\ Looks(w)
      /\ worker' = [worker EXCEPT ![w] = "none"]
      /\ UNCHANGED <<persistentJob, jobs, ended, overwritten, job>>
  BY DEF Exit, works, history
<1>2. QueueType(jobQ') /\ Items(jobQ') = Queued /\ Ordered(jobQ') /\ Levels(jobQ')
  BY <1>1, BumpedOrder DEF JobTypes, JobsInv
<1>3. QueuedNumbers' = QueuedNumbers
  BY <1>2 DEF QueuedNumbers, Queued, Items
<1>4. HandedOver' = HandedOver
  BY <1>1 DEF HandedOver
<1>5. Running' = Running
  BY <1>1 DEF JobTypes, Looks, Running
<1>6. RunNow' = RunNow /\ RunningOK'
  BY <1>1, <1>5 DEF RunNow, RunningOK, JobsInv
<1>7. PlacesOK'
  BY <1>1, <1>3, <1>4, <1>6 DEF PlacesOK, JobsInv
<1>8. QED
  BY <1>2, <1>6, <1>7 DEF JobsInv, Ordered, Levels

\* The job that Take takes, and what is left.
Taken(w, j) ==
  /\ j \in Queued
  /\ Run(w, j, 0)
  /\ QueueType(jobQ') /\ Ordered(jobQ') /\ Levels(jobQ')
  /\ \A i : i \in Items(jobQ') <=> i \in Queued /\ i.number # j.number
  /\ \A i \in Queued : i.number # j.number /\ i.priority = j.priority =>
                         j.number < i.number

LEMMA TakeFirst ==
  ASSUME JobTypes, JobsInv, NEW w \in Workers, Take(w)
  PROVE  \E j : Taken(w, j)
<1>1. PICK q \in BumpPriority, p \in Priorities :
        /\ p = IF q["high"] # <<>> THEN "high"
               ELSE IF q["med"] # <<>> THEN "med" ELSE "low"
        /\ Run(w, Head(q[p]), 0)
        /\ jobQ' = [q EXCEPT ![p] = Tail(@)]
  BY DEF Take, Priorities
<1>2. QueueType(jobQ) /\ QueueType(q) /\ Items(q) = Queued
      /\ Ordered(q) /\ Levels(q)
  BY BumpedOrder DEF JobTypes, JobsInv
<1>3. \E v \in Priorities : jobQ[v] # <<>>
  <2>1. jobQ # NoJobs
    BY DEF Take
  <2>2. QED
    BY <1>2, <2>1 DEF NoJobs, QueueType
<1>4. Queued # {}
  <2>1. PICK v \in Priorities : jobQ[v] # <<>>
    BY <1>3
  <2>2. 1 \in 1..Len(jobQ[v])
    BY <1>2, <2>1, QueueTypes, EmptySeq
  <2>3. jobQ[v][1] \in Items(jobQ)
    BY <1>2, <2>2, ItemsAre
  <2>4. QED
    BY <2>3, QueuedItems
<1>5. q[p] # <<>> /\ \A v \in Above[p] : q[v] = <<>>
  <2>1. PICK j : j \in Items(q)
    BY <1>2, <1>4
  <2>2. PICK v \in Priorities : \E i \in 1..Len(q[v]) : q[v][i] = j
    BY <1>2, <2>1, ItemsAre
  <2>3. q[v] # <<>>
    BY <2>2, EmptySeq
  <2>4. q["high"] # <<>> \/ q["med"] # <<>> \/ q["low"] # <<>>
    BY <2>3 DEF Priorities
  <2>5. QED
    BY <1>1, <2>4 DEF Above
<1>6. 1 \in 1..Len(q[p]) /\ Head(q[p]) = q[p][1] /\ Without(q, p, 1, jobQ')
  BY <1>1, <1>2, <1>5, TailWithout
<1>7. PICK j : j = q[p][1]
  OBVIOUS
<1>8. Run(w, j, 0)
  BY <1>1, <1>6, <1>7
<1>9. /\ Ordered(jobQ') /\ Levels(jobQ') /\ j \in Items(q)
      /\ \A i : i \in Items(jobQ') <=> i \in Items(q) /\ i.number # j.number
  BY <1>2, <1>6, <1>7, WithoutKeeps
<1>10. \A i \in Items(q) : i.number # j.number /\ i.priority = j.priority =>
                             j.number < i.number
  BY <1>2, <1>5, <1>6, <1>7, FirstIsFirst
<1>11. QueueType(jobQ')
  BY <1>6 DEF Without
<1>12. Taken(w, j)
  BY <1>2, <1>8, <1>9, <1>10, <1>11 DEF Taken
<1>13. QED
  BY <1>12

\* A job leaves the queues with all of its number.
LEMMA NumbersLeft ==
  ASSUME NEW j \in Queued,
         \A i : (i \in Queued)' <=> i \in Queued /\ i.number # j.number
  PROVE  QueuedNumbers' = QueuedNumbers \ {j.number} /\ j.number \in QueuedNumbers
<1>1. ASSUME NEW n \in QueuedNumbers' PROVE n \in QueuedNumbers \ {j.number}
  BY DEF QueuedNumbers
<1>2. ASSUME NEW n \in QueuedNumbers \ {j.number} PROVE n \in QueuedNumbers'
  BY DEF QueuedNumbers
<1>3. QED
  BY <1>1, <1>2 DEF QueuedNumbers

LEMMA TakeJobs ==
  ASSUME JobTypes, JobsInv, NEW w \in Workers, Take(w)
  PROVE  JobsInv'
<1>1. PICK j : Taken(w, j)
  BY TakeFirst
<1>2. /\ persistentJob' = persistentJob /\ jobs' = jobs /\ ended' = ended
      /\ overwritten' = overwritten /\ Looks(w) /\ HandedOver' = HandedOver
  BY DEF Take, Run, works, history, HandedOver
<1>3. j \in Queued /\ \A i : (i \in Queued)' <=> i \in Queued /\ i.number # j.number
  <2>1. Queued' = Items(jobQ')
    BY DEF Queued, Items
  <2>2. QED
    BY <1>1, <2>1 DEF Taken
<1>4. QueuedNumbers' = QueuedNumbers \ {j.number} /\ j.number \in QueuedNumbers
  BY <1>3, NumbersLeft
<1>5. /\ j.number \notin RunNow
      /\ Places(jobs, QueuedNumbers \ {j.number}, HandedOver,
                RunNow \cup {j.number}, ended, overwritten)
  <2>1. Places(jobs, QueuedNumbers, HandedOver, RunNow, ended, overwritten)
    BY DEF JobsInv, PlacesOK
  <2>2. QED
    BY <1>4, <2>1, QueuedJobMoves
<1>6. RunNow' = RunNow \cup {j.number} /\ RunningOK'
  BY <1>1, <1>2, <1>5, RunJob DEF JobsInv, Taken
<1>7. PlacesOK'
  BY <1>2, <1>4, <1>5, <1>6 DEF PlacesOK
<1>8. QED
  BY <1>1, <1>6, <1>7 DEF JobsInv, Taken, Ordered, Levels

LEMMA AddJobs ==
  ASSUME ThreadPoolAssumption, JobTypes, JobsInv,
         NEW c \in Callers, NEW p \in Priorities, ThreadPoolAdd(c, p), Creates,
         NewJob(p) \in ThreadPoolJob
  PROVE  JobsInv'
<1>1. PICK j : j = NewJob(p)
  OBVIOUS
<1>2. j \in ThreadPoolJob /\ j.number = jobs + 1 /\ j.priority = p
  BY <1>1 DEF NewJob
<1>3. /\ jobQ' = [jobQ EXCEPT ![j.priority] = Append(@, j)] /\ jobs' = jobs + 1
      /\ persistentJob' = persistentJob /\ ended' = ended
      /\ overwritten' = overwritten
  BY <1>1, <1>2 DEF ThreadPoolAdd
<1>4. jobs \in Nat /\ Places(jobs, QueuedNumbers, HandedOver, RunNow, ended, overwritten)
  BY DEF JobTypes, JobsInv, PlacesOK, ThreadPoolAssumption
<1>5. \A i \in Items(jobQ) : i.number < j.number
  <2>1. \A i \in Queued : i.number \in 1..jobs
    BY <1>4 DEF Places, QueuedNumbers
  <2>2. QED
    BY <1>2, <1>4, <2>1, QueuedItems
<1>6. /\ Ordered(jobQ') /\ Levels(jobQ') /\ Items(jobQ') = Items(jobQ) \cup {j}
  <2>1. Appended(jobQ, j, jobQ')
    BY <1>3 DEF Appended
  <2>2. QueueType(jobQ) /\ Ordered(jobQ) /\ Levels(jobQ)
    BY DEF JobTypes, JobsInv
  <2>3. QED
    BY <1>2, <1>5, <2>1, <2>2, AppendKeeps
<1>7. QueuedNumbers' = QueuedNumbers \cup {jobs + 1}
  <2>1. Queued' = Queued \cup {j}
    BY <1>6, QueuedItems DEF Queued, Items
  <2>2. QED
    BY <1>2, <2>1 DEF QueuedNumbers
<1>8. Running' = Running /\ job' = job
  BY CreateRunning
<1>9. RunNow' = RunNow /\ RunningOK' /\ HandedOver' = HandedOver
  BY <1>3, <1>8 DEF JobsInv, RunNow, RunningOK, HandedOver
<1>10. PlacesOK'
  <2>1. Places(jobs + 1, QueuedNumbers \cup {jobs + 1}, HandedOver, RunNow,
               ended, overwritten)
    BY <1>4, JobComes
  <2>2. QED
    BY <1>3, <1>7, <1>9, <2>1 DEF PlacesOK
<1>11. QED
  BY <1>6, <1>9, <1>10 DEF JobsInv, Ordered, Levels

LEMMA PutJobs ==
  ASSUME ThreadPoolAssumption, JobTypes, JobsInv, NEW c \in Callers,
         PutPersistent(c), Creates, UNCHANGED <<jobQ, ended>>
  PROVE  JobsInv'
<1>1. /\ persistentJob'.number = jobs + 1 /\ jobs' = jobs + 1
      /\ overwritten' = overwritten \cup HandedOver
  BY DEF PutPersistent, NewJob, HandedOver
<1>2. jobs \in Nat /\ Places(jobs, QueuedNumbers, HandedOver, RunNow, ended, overwritten)
  BY DEF JobTypes, JobsInv, PlacesOK, ThreadPoolAssumption
<1>3. HandedOver' = {jobs + 1}
  <2>1. jobs + 1 # 0
    BY <1>2
  <2>2. QED
    BY <1>1, <2>1 DEF HandedOver
<1>4. QueuedNumbers' = QueuedNumbers /\ Ordered(jobQ)' /\ Levels(jobQ)'
  BY DEF QueuedNumbers, Queued, JobsInv, Ordered, Levels
<1>5. Running' = Running /\ job' = job
  BY CreateRunning
<1>6. RunNow' = RunNow /\ RunningOK'
  BY <1>5 DEF JobsInv, RunNow, RunningOK
<1>7. PlacesOK'
  <2>1. Places(jobs + 1, QueuedNumbers, {jobs + 1}, RunNow, ended,
               overwritten \cup HandedOver)
    BY <1>2, JobComes
  <2>2. QED
    BY <1>1, <1>3, <1>4, <1>6, <2>1 DEF PlacesOK
<1>8. QED
  BY <1>4, <1>6, <1>7 DEF JobsInv

LEMMA RemoveJobs ==
  ASSUME ThreadPoolAssumption, JobTypes, JobsInv, NEW c \in Callers, NEW id,
         ThreadPoolRemove(c, id)
  PROVE  JobsInv'
<1>1. /\ jobs' = jobs /\ overwritten' = overwritten
      /\ job' = job /\ Running' = Running
  BY DEF ThreadPoolRemove, threads, history, Running
<1>2. RunNow' = RunNow /\ RunningOK'
  BY <1>1 DEF JobsInv, RunNow, RunningOK
<1>3. Places(jobs, QueuedNumbers, HandedOver, RunNow, ended, overwritten)
  BY DEF JobsInv, PlacesOK
<1>4. CASE \E p \in Priorities : \E i \in DOMAIN jobQ[p] :
             /\ jobQ' = [jobQ EXCEPT ![p] = RemoveAt(@, i)]
             /\ ended' = ended \cup {jobQ[p][i].number}
             /\ UNCHANGED persistentJob
  <2>1. PICK p \in Priorities : \E i \in DOMAIN jobQ[p] :
             /\ jobQ' = [jobQ EXCEPT ![p] = RemoveAt(@, i)]
             /\ ended' = ended \cup {jobQ[p][i].number}
             /\ UNCHANGED persistentJob
    BY <1>4
  <2>2. PICK i \in DOMAIN jobQ[p] :
             /\ jobQ' = [jobQ EXCEPT ![p] = RemoveAt(@, i)]
             /\ ended' = ended \cup {jobQ[p][i].number}
             /\ UNCHANGED persistentJob
    BY <2>1
  <2>3. QueueType(jobQ) /\ Ordered(jobQ) /\ Levels(jobQ) /\ i \in 1..Len(jobQ[p])
    BY QueueTypes DEF JobTypes, JobsInv
  <2>4. Without(jobQ, p, i, jobQ')
    BY <2>2, <2>3, RemoveWithout
  <2>5. PICK j : j = jobQ[p][i]
    OBVIOUS
  <2>6. /\ Ordered(jobQ') /\ Levels(jobQ') /\ j \in Items(jobQ)
        /\ \A k : k \in Items(jobQ') <=> k \in Items(jobQ) /\ k.number # j.number
    BY <2>3, <2>4, <2>5, WithoutKeeps
  <2>7. /\ j \in Queued
        /\ \A k : (k \in Queued)' <=> k \in Queued /\ k.number # j.number
    BY <2>6 DEF Queued, Items
  <2>8. QueuedNumbers' = QueuedNumbers \ {j.number} /\ j.number \in QueuedNumbers
    BY <2>7, NumbersLeft
  <2>9. HandedOver' = HandedOver /\ ended' = ended \cup {j.number}
    BY <2>2, <2>5 DEF HandedOver
  <2>10. Places(jobs, QueuedNumbers \ {j.number}, HandedOver, RunNow,
                ended \cup {j.number}, overwritten)
    BY <1>3, <2>8, QueuedJobMoves
  <2>11. PlacesOK'
    BY <1>1, <1>2, <2>8, <2>9, <2>10 DEF PlacesOK
  <2>12. QED
    BY <1>2, <2>6, <2>11 DEF JobsInv, Ordered, Levels
<1>5. CASE /\ persistentJob # NULL /\ persistentJob' = NULL
           /\ ended' = ended \cup {persistentJob.number}
           /\ UNCHANGED jobQ
  <2>1. QueuedNumbers' = QueuedNumbers /\ Ordered(jobQ)' /\ Levels(jobQ)'
    BY <1>5 DEF QueuedNumbers, Queued, JobsInv, Ordered, Levels
  <2>2. HandedOver = {persistentJob.number}
    BY <1>5, HandedOverIs
  <2>3. HandedOver' = {}
    BY <1>5 DEF HandedOver, NULL
  <2>4. Places(jobs, QueuedNumbers, {}, RunNow,
               ended \cup {persistentJob.number}, overwritten)
    <3>1. Places(jobs, QueuedNumbers, {persistentJob.number}, RunNow, ended,
                 overwritten)
      BY <1>3, <2>2
    <3>2. QED
      BY <3>1, HandedOverMoves
  <2>5. PlacesOK'
    BY <1>1, <1>2, <1>5, <2>1, <2>3, <2>4 DEF PlacesOK
  <2>6. QED
    BY <1>2, <2>1, <2>5 DEF JobsInv
<1>6. QED
  BY <1>4, <1>5 DEF ThreadPoolRemove

LEMMA WaitingIs ==
  ASSUME ThreadPoolAssumption, JobTypes
  PROVE  Waiting = QueuedNumbers \cup HandedOver
<1>1. CASE persistentJob = NULL
  BY <1>1, HandedOverIs DEF Waiting, QueuedNumbers
<1>2. CASE persistentJob # NULL
  BY <1>2, HandedOverIs DEF Waiting, QueuedNumbers
<1>3. QED
  BY <1>1, <1>2

LEMMA NoJobsAre ==
  QueueType(NoJobs) /\ Ordered(NoJobs) /\ Levels(NoJobs) /\ Items(NoJobs) = {}
<1>1. QueueType(NoJobs)
  <2>1. <<>> \in Seq(ThreadPoolJob)
    OBVIOUS
  <2>2. QED
    BY <2>1 DEF NoJobs, QueueType
<1>2. \A p \in Priorities : 1..Len(NoJobs[p]) = {} /\ DOMAIN NoJobs[p] = {}
  <2>1. \A p \in Priorities : Len(NoJobs[p]) = 0 /\ DOMAIN NoJobs[p] = {}
    BY EmptySeq DEF NoJobs
  <2>2. QED
    BY <2>1
<1>3. Ordered(NoJobs) /\ Levels(NoJobs)
  BY <1>2 DEF Ordered, Levels, Priorities
<1>4. Items(NoJobs) = {}
  BY <1>2 DEF Items, Range
<1>5. QED
  BY <1>1, <1>3, <1>4

LEMMA ShutdownJobs ==
  ASSUME ThreadPoolAssumption, JobTypes, JobsInv, NEW c \in Callers,
         ThreadPoolShutdown(c)
  PROVE  JobsInv'
<1>1. /\ jobs' = jobs /\ overwritten' = overwritten
      /\ job' = job /\ Running' = Running
      /\ jobQ' = NoJobs /\ persistentJob' = NULL
      /\ ended' = ended \cup Waiting
  BY DEF ThreadPoolShutdown, threads, history, Running
<1>2. RunNow' = RunNow /\ RunningOK'
  BY <1>1 DEF JobsInv, RunNow, RunningOK
<1>3. QueuedNumbers' = {}
  BY <1>1, NoJobsAre DEF QueuedNumbers, Queued, Items
<1>4. HandedOver' = {}
  BY <1>1 DEF HandedOver, NULL
<1>5. PlacesOK'
  <2>1. Places(jobs, QueuedNumbers, HandedOver, RunNow, ended, overwritten)
    BY DEF JobsInv, PlacesOK
  <2>2. Places(jobs, {}, {}, RunNow, ended \cup QueuedNumbers \cup HandedOver,
               overwritten)
    BY <2>1, WaitingJobsEnd
  <2>3. ended' = ended \cup QueuedNumbers \cup HandedOver
    BY <1>1, WaitingIs
  <2>4. QED
    BY <1>1, <1>2, <1>3, <1>4, <2>2, <2>3 DEF PlacesOK
<1>6. Ordered(jobQ)' /\ Levels(jobQ)'
  BY <1>1, NoJobsAre
<1>7. QED
  BY <1>2, <1>5, <1>6 DEF JobsInv

-----------------------------------------------------------------------------
(* The threads' own steps.                                                 *)

\* Thread w is counted from now on.
LEMMA StartWorkers ==
  ASSUME ThreadPoolAssumption, WorkersOK, NEW w \in Workers, Start(w)
  PROVE  WorkersOK'
<1>1. /\ worker[w] = "starting" /\ worker' = [worker EXCEPT ![w] = "top"]
      /\ totalThreads' = totalThreads + 1 /\ persistent' = persistent
      /\ job' = job /\ persistentThreads' = persistentThreads
  BY DEF Start
<1>2. Counted' = Counted \cup {w} /\ w \notin Counted
  BY <1>1 DEF WorkersOK, Counted
<1>3. Cardinality(Counted') = Cardinality(Counted) + 1
  BY <1>2, ThreadNumbers, FS_AddElement
<1>4. Persistent' = Persistent
  BY <1>1, <1>2 DEF WorkersOK, Persistent, Counted
<1>5. QED
  BY <1>1, <1>3, <1>4 DEF WorkersOK

LEMMA RestWorkers ==
  ASSUME ThreadPoolAssumption, WorkersOK, NEW w \in Workers, Rest(w)
  PROVE  WorkersOK' /\ Counted' = Counted
<1>1. /\ Looks(w) /\ worker' = [worker EXCEPT ![w] = "idle"]
      /\ persistent' = [persistent EXCEPT ![w] = -1]
      /\ job' = job /\ totalThreads' = totalThreads
      /\ persistentThreads' = Regular(w)
  BY DEF Rest
<1>2. w \in Counted /\ Regular(w) = Cardinality(Persistent \ {w})
  BY <1>1, RegularThread
<1>3. Counted' = Counted
  BY <1>1, <1>2 DEF WorkersOK, Counted
<1>4. Persistent' = Persistent \ {w}
  BY <1>1, <1>2, <1>3 DEF WorkersOK, Persistent, Counted
<1>5. QED
  BY <1>1, <1>2, <1>3, <1>4 DEF WorkersOK

LEMMA ExitWorkers ==
  ASSUME ThreadPoolAssumption, WorkersOK, NEW w \in Workers, Exit(w)
  PROVE  WorkersOK'
<1>1. /\ Looks(w) /\ worker' = [worker EXCEPT ![w] = "none"]
      /\ persistent' = [persistent EXCEPT ![w] = -1]
      /\ job' = job /\ totalThreads' = totalThreads - 1
      /\ persistentThreads' = Regular(w)
  BY DEF Exit
<1>2. w \in Counted /\ Regular(w) = Cardinality(Persistent \ {w})
  BY <1>1, RegularThread
<1>3. Counted' = Counted \ {w}
  BY <1>1 DEF WorkersOK, Counted
<1>4. Cardinality(Counted') = Cardinality(Counted) - 1
  BY <1>2, <1>3, ThreadNumbers, FS_RemoveElement
<1>5. Persistent' = Persistent \ {w}
  BY <1>1, <1>3 DEF WorkersOK, Persistent, Counted
<1>6. QED
  BY <1>1, <1>2, <1>4, <1>5 DEF WorkersOK

\* It runs job j, a persistent one or not.
LEMMA RunWorkers ==
  ASSUME ThreadPoolAssumption, WorkersOK, NEW w \in Workers, Looks(w),
         NEW j, j.number \in Jobs, NEW p \in {0, 1}, Run(w, j, p),
         persistentThreads' = Regular(w) + p
  PROVE  WorkersOK' /\ Counted' = Counted
<1>1. /\ worker' = [worker EXCEPT ![w] = "running"]
      /\ persistent' = [persistent EXCEPT ![w] = p]
      /\ job' = [job EXCEPT ![w] = j.number] /\ totalThreads' = totalThreads
  BY DEF Run
<1>2. w \in Counted /\ Regular(w) = Cardinality(Persistent \ {w})
  BY RegularThread
<1>3. Counted' = Counted
  BY <1>1, <1>2 DEF WorkersOK, Counted
<1>4. Persistent' = IF p = 1 THEN (Persistent \ {w}) \cup {w} ELSE Persistent \ {w}
  BY <1>1, <1>2, <1>3 DEF WorkersOK, Persistent, Counted
<1>5. /\ IsFiniteSet(Persistent \ {w})
      /\ Cardinality(Persistent \ {w}) \in Nat
      /\ Cardinality((Persistent \ {w}) \cup {w}) =
           Cardinality(Persistent \ {w}) + 1
  <2>1. IsFiniteSet(Persistent \ {w})
    BY ThreadNumbers, FS_RemoveElement
  <2>2. QED
    BY <2>1, FS_AddElement, FS_CardinalityType
<1>6. Cardinality(Persistent') = Regular(w) + p
  BY <1>2, <1>4, <1>5
<1>7. j.number \in 0..MaxJobs
  BY DEF Jobs, ThreadPoolAssumption
<1>8. QED
  BY <1>1, <1>3, <1>6, <1>7 DEF WorkersOK

LEMMA DoneWorkers ==
  ASSUME ThreadPoolAssumption, WorkersOK, NEW w \in Workers, Done(w)
  PROVE  WorkersOK' /\ Counted' = Counted
<1>1. /\ worker[w] = "running" /\ worker' = [worker EXCEPT ![w] = "top"]
      /\ persistent' = persistent /\ job' = [job EXCEPT ![w] = 0]
      /\ totalThreads' = totalThreads /\ persistentThreads' = persistentThreads
  BY DEF Done, pool
<1>2. Counted' = Counted
  BY <1>1 DEF WorkersOK, Counted
<1>3. Persistent' = Persistent
  BY <1>1, <1>2 DEF WorkersOK, Persistent, Counted
<1>4. 0 \in 0..MaxJobs
  BY DEF ThreadPoolAssumption
<1>5. QED
  BY <1>1, <1>2, <1>3, <1>4 DEF WorkersOK

LEMMA ThreadWorkers ==
  ASSUME ThreadPoolAssumption, WorkersOK, JobTypes, JobsInv,
         NEW w \in Workers, WorkerThread(w) \/ Done(w)
  PROVE  WorkersOK'
<1>1. CASE Start(w)
  BY <1>1, StartWorkers
<1>2. CASE Rest(w)
  BY <1>2, RestWorkers
<1>3. CASE Exit(w)
  BY <1>3, ExitWorkers
<1>4. CASE TakePersistent(w)
  <2>1. /\ Looks(w) /\ Run(w, persistentJob, 1) /\ persistentJob # NULL
        /\ persistentThreads' = Regular(w) + 1
    BY <1>4 DEF TakePersistent
  <2>2. persistentJob.number \in Jobs
    BY <2>1, HandedOverIs
  <2>3. QED
    BY <2>1, <2>2, RunWorkers
<1>5. CASE Take(w)
  <2>1. PICK j : Taken(w, j)
    BY <1>5, TakeFirst
  <2>2. j.number \in Jobs /\ Run(w, j, 0)
    BY <2>1, QueuedItems, ItemsAre DEF Taken, JobTypes, ThreadPoolJob
  <2>3. Looks(w) /\ persistentThreads' = Regular(w)
    BY <1>5 DEF Take
  <2>4. Regular(w) + 0 = Regular(w)
    <3>1. Regular(w) = Cardinality(Persistent \ {w})
      BY <2>3, RegularThread
    <3>2. Cardinality(Persistent \ {w}) \in Nat
      BY ThreadNumbers, FS_RemoveElement, FS_CardinalityType
    <3>3. QED
      BY <3>1, <3>2
  <2>5. QED
    BY <2>2, <2>3, <2>4, RunWorkers
<1>6. CASE Done(w)
  BY <1>6, DoneWorkers
<1>7. QED
  BY <1>1, <1>2, <1>3, <1>4, <1>5, <1>6 DEF WorkerThread

-----------------------------------------------------------------------------
(* The calls.                                                              *)

\* How many elements x of S, calls of Uncounted and of Coming f is.
Has(S, x)      == IF x \in S THEN 1 ELSE 0
UncountedBy(f) == IF IsUncounted(f) THEN 1 ELSE 0
ComingBy(f)    == IF IsComing(f) THEN 1 ELSE 0

LEMMA SetChanges ==
  ASSUME NEW S, IsFiniteSet(S), NEW T, NEW x, T \ {x} = S \ {x}
  PROVE  /\ Cardinality(S) \in Nat /\ Cardinality(T) \in Nat
         /\ Cardinality(T) = Cardinality(S) + Has(T, x) - Has(S, x)
<1>1. PICK R : R = S \ {x}
  OBVIOUS
<1>2. IsFiniteSet(R) /\ Cardinality(R) \in Nat /\ x \notin R
  <2>1. IsFiniteSet(R)
    BY <1>1, FS_RemoveElement
  <2>2. QED
    BY <1>1, <2>1, FS_CardinalityType
<1>3. Cardinality(R \cup {x}) = Cardinality(R) + 1
  BY <1>2, FS_AddElement
<1>4. Cardinality(S) = Cardinality(R) + Has(S, x)
  <2>1. CASE x \in S
    BY <1>1, <1>2, <1>3, <2>1 DEF Has
  <2>2. CASE x \notin S
    <3>1. S = R
      BY <1>1, <2>2
    <3>2. QED
      BY <1>2, <2>2, <3>1 DEF Has
  <2>3. QED
    BY <2>1, <2>2
<1>5. Cardinality(T) = Cardinality(R) + Has(T, x)
  <2>1. CASE x \in T
    BY <1>1, <1>2, <1>3, <2>1 DEF Has
  <2>2. CASE x \notin T
    <3>1. T = R
      BY <1>1, <2>2
    <3>2. QED
      BY <1>2, <2>2, <3>1 DEF Has
  <2>3. QED
    BY <2>1, <2>2
<1>6. QED
  BY <1>2, <1>4, <1>5 DEF Has

\* What a step may do to the call of c.
Moves(c, f) ==
  /\ f \in Frames /\ FrameOK(f)
  /\ call' = [call EXCEPT ![c] = f]
  /\ sleeping' \subseteq Callers

LEMMA CallChanges ==
  ASSUME ThreadPoolAssumption, CallsOK, NEW c \in Callers, NEW f, Moves(c, f)
  PROVE  /\ Cardinality(Uncounted') = Cardinality(Uncounted)
              + UncountedBy(f) - UncountedBy(call[c])
         /\ Cardinality(Coming') = Cardinality(Coming)
              + ComingBy(f) - ComingBy(call[c])
         /\ Cardinality(Uncounted) \in Nat /\ Cardinality(Coming) \in Nat
<1>1. call'[c] = f /\ \A d \in Callers : d # c => call'[d] = call[d]
  BY DEF CallsOK, Moves
<1>2. Coming = {d \in Callers : IsComing(call[d])}
  BY DEF Coming, IsComing
<1>3. Coming' = {d \in Callers : IsComing(call'[d])}
  BY DEF Coming, IsComing
<1>4. Uncounted' = {d \in Callers : IsUncounted(call'[d])}
  BY DEF Uncounted, IsUncounted
<1>5. IsFiniteSet(Uncounted) /\ IsFiniteSet(Coming)
  BY FS_Subset DEF ThreadPoolAssumption, Uncounted, Coming
<1>6. /\ Uncounted' \ {c} = Uncounted \ {c}
      /\ c \in Uncounted' <=> IsUncounted(f)
      /\ c \in Uncounted <=> IsUncounted(call[c])
  BY <1>1, <1>4 DEF Uncounted
<1>7. /\ Coming' \ {c} = Coming \ {c}
      /\ c \in Coming' <=> IsComing(f)
      /\ c \in Coming <=> IsComing(call[c])
  BY <1>1, <1>2, <1>3
<1>8. /\ Cardinality(Uncounted') = Cardinality(Uncounted)
           + Has(Uncounted', c) - Has(Uncounted, c)
      /\ Cardinality(Uncounted) \in Nat
  BY <1>5, <1>6, SetChanges
<1>9. /\ Cardinality(Coming') = Cardinality(Coming)
           + Has(Coming', c) - Has(Coming, c)
      /\ Cardinality(Coming) \in Nat
  BY <1>5, <1>7, SetChanges
<1>10. QED
  BY <1>6, <1>7, <1>8, <1>9 DEF Has, UncountedBy, ComingBy

\* Jobs are put, and ids counted, as the frames say.
LEMMA CallMoves ==
  ASSUME ThreadPoolAssumption, CallsOK, NEW c \in Callers, NEW f, Moves(c, f),
         lastJobId' \in Nat, jobs' \in Nat,
         lastJobId' + UncountedBy(f) + jobs
           = lastJobId + UncountedBy(call[c]) + jobs',
         \/ jobs' + ComingBy(f) <= jobs + ComingBy(call[c])
         \/ RoomForJob /\ jobs' + ComingBy(f) <= jobs + ComingBy(call[c]) + 1
  PROVE  CallsOK'
<1>1. /\ call' \in [Callers -> Frames] /\ sleeping' \subseteq Callers
      /\ \A d \in Callers : FrameOK(call'[d])
  BY DEF CallsOK, Moves
<1>2. /\ Cardinality(Uncounted') = Cardinality(Uncounted)
           + UncountedBy(f) - UncountedBy(call[c])
      /\ Cardinality(Coming') = Cardinality(Coming)
           + ComingBy(f) - ComingBy(call[c])
      /\ Cardinality(Uncounted) \in Nat /\ Cardinality(Coming) \in Nat
  BY CallChanges
<1>3. PICK u \in Int, v \in Int, x \in Int, y \in Int :
        /\ u = UncountedBy(f) /\ v = UncountedBy(call[c])
        /\ x = ComingBy(f) /\ y = ComingBy(call[c])
  BY DEF UncountedBy, ComingBy
<1>4. PICK m \in Nat, k \in Nat : m = Cardinality(Uncounted) /\ k = Cardinality(Coming)
  BY <1>2
<1>5. Cardinality(Uncounted') = m + u - v /\ Cardinality(Coming') = k + x - y
  BY <1>2, <1>3, <1>4
<1>6. /\ lastJobId \in Nat /\ jobs \in Nat /\ MaxJobs \in Nat
      /\ lastJobId + m = jobs /\ jobs + k <= MaxJobs
      /\ RoomForJob <=> jobs + k < MaxJobs
  BY <1>4 DEF CallsOK, ThreadPoolAssumption, RoomForJob
<1>7. /\ lastJobId' + u + jobs = lastJobId + v + jobs'
      /\ jobs' + x <= jobs + y \/ (RoomForJob /\ jobs' + x <= jobs + y + 1)
  BY <1>3
<1>8. lastJobId' + (m + u - v) = jobs'
  <2>1. PICK l \in Nat, n \in Nat, l1 \in Nat, n1 \in Nat :
          l = lastJobId /\ n = jobs /\ l1 = lastJobId' /\ n1 = jobs'
    BY <1>6
  <2>2. l + m = n /\ l1 + u + n = l + v + n1
    BY <1>6, <1>7, <2>1
  <2>3. l1 + (m + u - v) = n1
    BY <2>2
  <2>4. QED
    BY <2>1, <2>3
<1>9. jobs' + (k + x - y) <= MaxJobs
  <2>1. \A n \in Nat, n1 \in Nat, b \in Nat :
          n + k <= b /\ (n1 + x <= n + y \/ (n + k < b /\ n1 + x <= n + y + 1))
            => n1 + (k + x - y) <= b
    OBVIOUS
  <2>2. QED
    BY <1>6, <1>7, <2>1
<1>10. QED
  BY <1>1, <1>5, <1>8, <1>9 DEF CallsOK

\* The number and the id of a new job are in their bounds.
LEMMA NewJobType ==
  ASSUME ThreadPoolAssumption, CallsOK, NEW p \in Priorities,
         RoomForJob \/ Coming # {}
  PROVE  jobs + 1 \in Jobs /\ NewJob(p) \in ThreadPoolJob
<1>1. /\ IsFiniteSet(Uncounted) /\ Cardinality(Uncounted) \in Nat
      /\ IsFiniteSet(Coming) /\ Cardinality(Coming) \in Nat
  BY FS_Subset, FS_CardinalityType DEF ThreadPoolAssumption, Uncounted, Coming
<1>2. Coming # {} => Cardinality(Coming) # 0
  BY <1>1, FS_EmptySet
<1>3. jobs + 1 \in Jobs /\ lastJobId \in 0..MaxJobs
  BY <1>1, <1>2 DEF CallsOK, RoomForJob, ThreadPoolAssumption, Jobs
<1>4. QED
  BY <1>3 DEF NewJob, ThreadPoolJob

LEMMA LastJobIdType ==
  ASSUME ThreadPoolAssumption, CallsOK
  PROVE  lastJobId \in 0..MaxJobs /\ jobs \in 0..MaxJobs
<1>1. /\ IsFiniteSet(Uncounted) /\ Cardinality(Uncounted) \in Nat
      /\ IsFiniteSet(Coming) /\ Cardinality(Coming) \in Nat
  BY FS_Subset, FS_CardinalityType DEF ThreadPoolAssumption, Uncounted, Coming
<1>2. QED
  BY <1>1 DEF CallsOK, ThreadPoolAssumption
LEMMA NoCallIs ==
  ASSUME ThreadPoolAssumption
  PROVE  /\ NoCall \in Frames /\ FrameOK(NoCall)
         /\ ~IsUncounted(NoCall) /\ ~IsComing(NoCall)
<1>1. Cardinality(Workers) \in Nat
  BY FS_CardinalityType DEF ThreadPoolAssumption
<1>2. QED
  BY <1>1 DEF NoCall, Frame, Frames, FrameOK, IsUncounted, IsComing

\* A caller that waits for a thread, or for nothing.
LEMMA ReturnMoves ==
  ASSUME ThreadPoolAssumption, CallsOK, NEW c \in Callers, Return(c)
  PROVE  Moves(c, NoCall)
BY NoCallIs DEF Return, Moves, CallsOK

LEMMA CreateMoves ==
  ASSUME ThreadPoolAssumption, WorkersOK, CallsOK, NEW c \in Callers,
         NEW f \in {"init", "attr", "add", "persist"}, NEW load \in Nat,
         NEW count \in Nat, count <= totalThreads \/ f \in {"add", "persist"},
         CreateWorker(c, f, load, count)
  PROVE  \E g : /\ Moves(c, g)
                /\ IsUncounted(g) <=> f = "add"
                /\ IsComing(g) <=> f = "persist"
<1>1. PICK g : g = Frame(f, "create", totalThreads + 1, load, count)
  OBVIOUS
<1>2. totalThreads \in Nat /\ totalThreads + 1 \in 0..Cardinality(Workers)
  <2>1. PICK w \in Workers : worker[w] = "none"
    BY DEF CreateWorker
  <2>2. /\ totalThreads \in 0..Cardinality(Workers)
        /\ totalThreads + 1 \in 1..Cardinality(Workers)
    BY <2>1, ThreadNumbers
  <2>3. Cardinality(Workers) \in Nat
    BY FS_CardinalityType DEF ThreadPoolAssumption
  <2>4. QED
    BY <2>2, <2>3
<1>3. g \in Frames
  BY <1>1, <1>2 DEF Frame, Frames
<1>4. FrameOK(g)
  BY <1>1, <1>2 DEF Frame, FrameOK
<1>5. Moves(c, g)
  BY <1>1, <1>3, <1>4 DEF Moves, CreateWorker, Wait, CallsOK
<1>6. QED
  BY <1>1, <1>5 DEF Frame, IsUncounted, IsComing

\* The job of Add is counted when the call returns.
LEMMA AddWorkerMoves ==
  ASSUME ThreadPoolAssumption, WorkersOK, CallsOK, NEW c \in Callers,
         NEW load \in Nat, NEW count \in Nat, AddWorker(c, load, count)
  PROVE  \E g : /\ Moves(c, g) /\ ~IsComing(g)
                /\ IF IsUncounted(g) THEN lastJobId' = lastJobId
                   ELSE lastJobId' = lastJobId + 1
<1>1. CASE CreateWorker(c, "add", load, count) /\ UNCHANGED lastJobId
  <2>1. PICK g : /\ Moves(c, g) /\ IsUncounted(g) /\ ~IsComing(g)
    BY <1>1, CreateMoves
  <2>2. QED
    BY <1>1, <2>1
<1>2. CASE Return(c) /\ lastJobId' = lastJobId + 1
  <2>1. Moves(c, NoCall) /\ ~IsUncounted(NoCall) /\ ~IsComing(NoCall)
    BY <1>2, ReturnMoves, NoCallIs
  <2>2. QED
    BY <1>2, <2>1
<1>3. QED
  BY <1>1, <1>2 DEF AddWorker

\* The frames of ThreadPoolInit and SetAttr have no job.
LEMMA AddThreadsMoves ==
  ASSUME ThreadPoolAssumption, WorkersOK, CallsOK, NEW c \in Callers,
         NEW f \in {"init", "attr"}, NEW a,
         NEW count \in Nat, count <= totalThreads,
         AddThreads(c, f, a, count) \/ Refused(c, f, a, count)
  PROVE  \E g : Moves(c, g) /\ ~IsComing(g) /\ ~IsUncounted(g)
<1>1. CASE CreateWorker(c, f, 0, count)
  <2>1. f \in {"init", "attr", "add", "persist"} /\ 0 \in Nat /\ f # "add" /\ f # "persist"
    OBVIOUS
  <2>2. PICK g : /\ Moves(c, g)
                 /\ IsUncounted(g) <=> f = "add"
                 /\ IsComing(g) <=> f = "persist"
    BY <1>1, <2>1, CreateMoves
  <2>3. QED
    BY <2>1, <2>2
<1>2. CASE Return(c)
  BY <1>2, ReturnMoves, NoCallIs
<1>3. CASE Refused(c, f, a, count)
  <2>1. PICK g : g = Frame(f, "stop", 0, 0, 0)
    OBVIOUS
  <2>2. Cardinality(Workers) \in Nat
    BY FS_CardinalityType DEF ThreadPoolAssumption
  <2>3. g \in Frames /\ FrameOK(g)
    BY <2>1, <2>2 DEF Frame, Frames, FrameOK
  <2>4. Moves(c, g)
    BY <1>3, <2>1, <2>3 DEF Refused, Moves, CallsOK
  <2>5. QED
    BY <2>1, <2>4 DEF Frame, IsUncounted, IsComing
<1>4. QED
  BY <1>1, <1>2, <1>3 DEF AddThreads

LEMMA PutMoves ==
  ASSUME ThreadPoolAssumption, CallsOK, NEW c \in Callers, PutPersistent(c)
  PROVE  \E g : /\ Moves(c, g) /\ IsUncounted(g) /\ ~IsComing(g)
                /\ jobs' = jobs + 1
<1>1. PICK g : g = Frame("persist", "handoff", 0, 0, 0)
  OBVIOUS
<1>2. Cardinality(Workers) \in Nat
  BY FS_CardinalityType DEF ThreadPoolAssumption
<1>3. g \in Frames /\ FrameOK(g)
  BY <1>1, <1>2 DEF Frame, Frames, FrameOK
<1>4. Moves(c, g)
  BY <1>1, <1>3 DEF PutPersistent, Wait, Moves, CallsOK
<1>5. QED
  BY <1>1, <1>4 DEF Frame, IsUncounted, IsComing, PutPersistent

-----------------------------------------------------------------------------
(* Each step keeps their invariant.                                        *)

LEMMA SameCalls ==
  ASSUME CallsOK, UNCHANGED <<call, lastJobId, jobs>>, sleeping' \subseteq Callers
  PROVE  CallsOK'
<1>1. Uncounted' = Uncounted /\ Coming' = Coming
  BY DEF Uncounted, Coming
<1>2. QED
  BY <1>1 DEF CallsOK

LEMMA ThreadCalls ==
  ASSUME CallsOK, NEW w \in Workers, WorkerThread(w) \/ Done(w)
  PROVE  CallsOK'
<1>1. UNCHANGED <<call, lastJobId, jobs>>
  BY DEF WorkerThread, Done, Start, Rest, Exit, Take, TakePersistent, Run, works,
         pool, calls
<1>2. sleeping' \subseteq Callers
  BY DEF WorkerThread, Done, Start, Rest, Exit, Take, TakePersistent, Broadcast,
         calls, CallsOK
<1>3. QED
  BY <1>1, <1>2, SameCalls

LEMMA AddCalls ==
  ASSUME ThreadPoolAssumption, WorkersOK, CallsOK, JobTypes,
         NEW c \in Callers, NEW p \in Priorities, ThreadPoolAdd(c, p)
  PROVE  CallsOK'
<1>1. PICK load \in Nat, count \in Nat : AddWorker(c, load, count)
  <2>1. PICK load : load = Len(jobQ["high"]) + Len(jobQ["med"]) + Len(jobQ["low"]) + 1
    OBVIOUS
  <2>2. load \in Nat
    <3>1. /\ Len(jobQ["high"]) \in Nat /\ Len(jobQ["med"]) \in Nat
          /\ Len(jobQ["low"]) \in Nat
      BY QueueTypes DEF JobTypes, Priorities
    <3>2. PICK x \in Nat, y \in Nat, z \in Nat :
            x = Len(jobQ["high"]) /\ y = Len(jobQ["med"]) /\ z = Len(jobQ["low"])
      BY <3>1
    <3>3. x + y + z + 1 \in Nat
      OBVIOUS
    <3>4. load = x + y + z + 1
      BY ONLY <2>1, <3>2
    <3>5. QED
      BY <3>3, <3>4
  <2>3. totalThreads - persistentThreads \in Nat
    <3>1. totalThreads \in 0..Cardinality(Workers) /\ persistentThreads \in 0..totalThreads
      BY ThreadNumbers
    <3>2. totalThreads \in Nat /\ persistentThreads \in Nat
      BY <3>1
    <3>3. QED
      BY <3>1, <3>2
  <2>4. QED
    BY <2>1, <2>2, <2>3 DEF ThreadPoolAdd
<1>2. PICK g : /\ Moves(c, g) /\ ~IsComing(g)
               /\ IF IsUncounted(g) THEN lastJobId' = lastJobId
                  ELSE lastJobId' = lastJobId + 1
  BY <1>1, AddWorkerMoves
<1>3. call[c] = NoCall /\ RoomForJob /\ jobs' = jobs + 1
  BY DEF ThreadPoolAdd, Calls
<1>4. lastJobId \in Nat /\ jobs \in Nat
  BY DEF CallsOK
<1>5. UncountedBy(call[c]) = 0 /\ ComingBy(call[c]) = 0 /\ ComingBy(g) = 0
  BY <1>2, <1>3, NoCallIs DEF UncountedBy, ComingBy
<1>6. lastJobId' + UncountedBy(g) = lastJobId + 1 /\ lastJobId' \in Nat
  BY <1>2, <1>4 DEF UncountedBy
<1>7. /\ lastJobId' + UncountedBy(g) + jobs
           = lastJobId + UncountedBy(call[c]) + jobs'
      /\ jobs' + ComingBy(g) <= jobs + ComingBy(call[c]) + 1
      /\ jobs' \in Nat
  BY <1>3, <1>4, <1>5, <1>6
<1>8. QED
  BY <1>2, <1>3, <1>6, <1>7, CallMoves

LEMMA AddPersistentCalls ==
  ASSUME ThreadPoolAssumption, WorkersOK, CallsOK,
         NEW c \in Callers, ThreadPoolAddPersistent(c)
  PROVE  CallsOK'
<1>1. call[c] = NoCall /\ RoomForJob /\ lastJobId' = lastJobId
  BY DEF ThreadPoolAddPersistent, Calls
<1>2. lastJobId \in Nat /\ jobs \in Nat
  BY DEF CallsOK
<1>3. UncountedBy(call[c]) = 0 /\ ComingBy(call[c]) = 0
  BY <1>1, NoCallIs DEF UncountedBy, ComingBy
<1>4. CASE CreateWorker(c, "persist", 0, 0) /\ UNCHANGED jobs
  <2>1. PICK g : Moves(c, g) /\ ~IsUncounted(g) /\ IsComing(g)
    BY <1>4, CreateMoves
  <2>2. UncountedBy(g) = 0 /\ ComingBy(g) = 1
    BY <2>1 DEF UncountedBy, ComingBy
  <2>3. /\ lastJobId' + UncountedBy(g) + jobs
             = lastJobId + UncountedBy(call[c]) + jobs'
        /\ jobs' + ComingBy(g) <= jobs + ComingBy(call[c]) + 1
        /\ jobs' \in Nat /\ lastJobId' \in Nat
    BY <1>1, <1>2, <1>3, <1>4, <2>2
  <2>4. QED
    BY <1>1, <2>1, <2>3, CallMoves
<1>5. CASE PutPersistent(c)
  <2>1. PICK g : Moves(c, g) /\ IsUncounted(g) /\ ~IsComing(g) /\ jobs' = jobs + 1
    BY <1>5, PutMoves
  <2>2. UncountedBy(g) = 1 /\ ComingBy(g) = 0
    BY <2>1 DEF UncountedBy, ComingBy
  <2>3. /\ lastJobId' + UncountedBy(g) + jobs
             = lastJobId + UncountedBy(call[c]) + jobs'
        /\ jobs' + ComingBy(g) <= jobs + ComingBy(call[c]) + 1
        /\ jobs' \in Nat /\ lastJobId' \in Nat
    BY <1>1, <1>2, <1>3, <2>1, <2>2
  <2>4. QED
    BY <1>1, <2>1, <2>3, CallMoves
<1>6. QED
  BY <1>4, <1>5 DEF ThreadPoolAddPersistent

\* No job is put, and no id counted.
LEMMA OtherMoves ==
  ASSUME ThreadPoolAssumption, CallsOK, NEW c \in Callers, NEW g, Moves(c, g),
         ~IsUncounted(call[c]), ~IsUncounted(g), ~IsComing(g),
         UNCHANGED <<lastJobId, jobs>>
  PROVE  CallsOK'
<1>1. lastJobId \in Nat /\ jobs \in Nat
  BY DEF CallsOK
<1>2. /\ UncountedBy(call[c]) = 0 /\ UncountedBy(g) = 0 /\ ComingBy(g) = 0
      /\ ComingBy(call[c]) \in Nat
  BY DEF UncountedBy, ComingBy
<1>3. /\ lastJobId' + UncountedBy(g) + jobs
           = lastJobId + UncountedBy(call[c]) + jobs'
      /\ jobs' + ComingBy(g) <= jobs + ComingBy(call[c])
      /\ jobs' \in Nat /\ lastJobId' \in Nat
  BY <1>1, <1>2
<1>4. QED
  BY <1>3, CallMoves

LEMMA SetAttrCalls ==
  ASSUME ThreadPoolAssumption, WorkersOK, CallsOK,
         NEW c \in Callers, NEW a \in Attrs, ThreadPoolSetAttr(c, a)
  PROVE  CallsOK'
<1>1. /\ call[c] = NoCall /\ UNCHANGED <<lastJobId, jobs>>
      /\ AddThreads(c, "attr", a, totalThreads)
  BY DEF ThreadPoolSetAttr, Calls, works
<1>2. totalThreads \in Nat
  BY ThreadNumbers
<1>3. PICK g : Moves(c, g) /\ ~IsComing(g) /\ ~IsUncounted(g)
  <2>1. totalThreads <= totalThreads
    BY <1>2
  <2>2. QED
    BY <1>1, <1>2, <2>1, AddThreadsMoves
<1>4. QED
  BY <1>1, <1>3, NoCallIs, OtherMoves

LEMMA ShutdownCalls ==
  ASSUME ThreadPoolAssumption, CallsOK, NEW c \in Callers, ThreadPoolShutdown(c)
  PROVE  CallsOK'
<1>1. PICK g : g = Frame("shutdown", "join", 0, 0, 0)
  OBVIOUS
<1>2. Cardinality(Workers) \in Nat
  BY FS_CardinalityType DEF ThreadPoolAssumption
<1>3. g \in Frames /\ FrameOK(g) /\ ~IsComing(g) /\ ~IsUncounted(g)
  BY <1>1, <1>2 DEF Frame, Frames, FrameOK, IsComing, IsUncounted
<1>4. Moves(c, g) /\ UNCHANGED <<lastJobId, jobs>>
  BY <1>1, <1>3 DEF ThreadPoolShutdown, Moves, CallsOK
<1>5. ~IsUncounted(call[c])
  BY NoCallIs DEF ThreadPoolShutdown, Calls, Awake, IsUncounted
<1>6. QED
  BY <1>3, <1>4, <1>5, OtherMoves

LEMMA PickedUpCalls ==
  ASSUME ThreadPoolAssumption, CallsOK, NEW c \in Callers, PickedUp(c)
  PROVE  CallsOK'
<1>1. /\ Moves(c, NoCall) /\ lastJobId' = lastJobId + 1 /\ jobs' = jobs
      /\ call[c].at = "handoff"
  BY ReturnMoves DEF PickedUp, Awake, works
<1>2. /\ UncountedBy(call[c]) = 1 /\ ComingBy(call[c]) = 0
      /\ UncountedBy(NoCall) = 0 /\ ComingBy(NoCall) = 0
  BY <1>1, NoCallIs DEF UncountedBy, ComingBy, IsUncounted, IsComing
<1>3. lastJobId \in Nat /\ jobs \in Nat
  BY DEF CallsOK
<1>4. /\ lastJobId' + UncountedBy(NoCall) + jobs
           = lastJobId + UncountedBy(call[c]) + jobs'
      /\ jobs' + ComingBy(NoCall) <= jobs + ComingBy(call[c])
      /\ jobs' \in Nat /\ lastJobId' \in Nat
  BY <1>1, <1>2, <1>3
<1>5. QED
  BY <1>1, <1>4, CallMoves

LEMMA DestroyCalls ==
  ASSUME ThreadPoolAssumption, CallsOK, NEW c \in Callers, Destroy(c)
  PROVE  CallsOK'
<1>1. Moves(c, NoCall) /\ UNCHANGED <<lastJobId, jobs>> /\ ~IsUncounted(call[c])
  BY ReturnMoves DEF Destroy, Awake, works, IsUncounted
<1>2. QED
  BY <1>1, NoCallIs, OtherMoves

LEMMA CreatedCalls ==
  ASSUME ThreadPoolAssumption, WorkersOK, CallsOK, NEW c \in Callers, Created(c)
  PROVE  CallsOK'
<1>1. /\ call[c].at = "create" /\ totalThreads >= call[c].target
      /\ call[c] \in Frames /\ FrameOK(call[c])
  BY DEF Created, Awake, CallsOK
<1>2. /\ totalThreads \in Nat /\ call[c].load \in Nat
      /\ call[c].count \in Nat \cup {-1} /\ call[c].count + 1 \in Nat
      /\ call[c].target \in Nat
  BY <1>1, ThreadNumbers DEF Frames
<1>3. lastJobId \in Nat /\ jobs \in Nat
  BY DEF CallsOK
<1>4. CASE /\ call[c].function = "add"
           /\ AddWorker(c, call[c].load, call[c].count + 1)
           /\ UNCHANGED jobs
  <2>1. PICK g : /\ Moves(c, g) /\ ~IsComing(g)
                 /\ IF IsUncounted(g) THEN lastJobId' = lastJobId
                    ELSE lastJobId' = lastJobId + 1
    BY <1>2, <1>4, AddWorkerMoves
  <2>2. UncountedBy(call[c]) = 1 /\ ComingBy(call[c]) = 0 /\ ComingBy(g) = 0
    BY <1>1, <1>4, <2>1 DEF UncountedBy, ComingBy, IsUncounted, IsComing
  <2>3. lastJobId' + UncountedBy(g) = lastJobId + 1 /\ lastJobId' \in Nat
    BY <1>3, <2>1 DEF UncountedBy
  <2>4. /\ lastJobId' + UncountedBy(g) + jobs
             = lastJobId + UncountedBy(call[c]) + jobs'
        /\ jobs' + ComingBy(g) <= jobs + ComingBy(call[c])
        /\ jobs' \in Nat
    BY <1>3, <1>4, <2>2, <2>3
  <2>5. QED
    BY <2>1, <2>3, <2>4, CallMoves
<1>5. CASE /\ call[c].function \in {"init", "attr"}
           /\ \/ AddThreads(c, call[c].function, attr, call[c].count + 1)
              \/ Refused(c, call[c].function, attr, call[c].count + 1)
           /\ UNCHANGED <<lastJobId, jobs>>
  <2>1. call[c].count + 1 <= totalThreads
    BY <1>1, <1>2, <1>5 DEF FrameOK
  <2>2. PICK g : Moves(c, g) /\ ~IsComing(g) /\ ~IsUncounted(g)
    BY <1>2, <1>5, <2>1, AddThreadsMoves
  <2>3. ~IsUncounted(call[c])
    BY <1>1, <1>5 DEF IsUncounted
  <2>4. QED
    BY <1>5, <2>2, <2>3, OtherMoves
<1>6. CASE /\ call[c].function = "persist"
           /\ PutPersistent(c)
           /\ UNCHANGED lastJobId
  <2>1. PICK g : Moves(c, g) /\ IsUncounted(g) /\ ~IsComing(g) /\ jobs' = jobs + 1
    BY <1>6, PutMoves
  <2>2. /\ UncountedBy(g) = 1 /\ ComingBy(g) = 0
        /\ UncountedBy(call[c]) = 0 /\ ComingBy(call[c]) = 1
    BY <1>1, <1>6, <2>1 DEF UncountedBy, ComingBy, IsUncounted, IsComing
  <2>3. /\ lastJobId' + UncountedBy(g) + jobs
             = lastJobId + UncountedBy(call[c]) + jobs'
        /\ jobs' + ComingBy(g) <= jobs + ComingBy(call[c])
        /\ jobs' \in Nat /\ lastJobId' \in Nat
    BY <1>3, <1>6, <2>1, <2>2
  <2>4. QED
    BY <2>1, <2>3, CallMoves
<1>7. QED
  BY <1>4, <1>5, <1>6 DEF Created

LEMMA CallerCalls ==
  ASSUME ThreadPoolAssumption, WorkersOK, CallsOK, JobTypes,
         NEW c \in Callers, CallerSteps(c)
  PROVE  CallsOK'
<1>1. CASE \E id \in 0..(lastJobId - 1) : ThreadPoolRemove(c, id)
  <2>1. UNCHANGED <<call, lastJobId, jobs>> /\ sleeping' = sleeping
    BY <1>1 DEF ThreadPoolRemove, calls
  <2>2. QED
    BY <2>1, SameCalls DEF CallsOK
<1>2. CASE WaitsOn(c)
  <2>1. UNCHANGED <<call, lastJobId, jobs>> /\ sleeping' = sleeping \cup {c}
    BY <1>2 DEF WaitsOn, pool, works
  <2>2. QED
    BY <2>1, SameCalls DEF CallsOK
<1>3. CASE \E p \in Priorities : ThreadPoolAdd(c, p)
  BY <1>3, AddCalls
<1>4. CASE \E a \in Attrs : ThreadPoolSetAttr(c, a)
  BY <1>4, SetAttrCalls
<1>5. CASE ThreadPoolAddPersistent(c)
  BY <1>5, AddPersistentCalls
<1>6. CASE ThreadPoolShutdown(c)
  BY <1>6, ShutdownCalls
<1>7. CASE Created(c)
  BY <1>7, CreatedCalls
<1>8. CASE PickedUp(c)
  BY <1>8, PickedUpCalls
<1>9. CASE Destroy(c)
  BY <1>9, DestroyCalls
<1>10. QED
  BY <1>1, <1>2, <1>3, <1>4, <1>5, <1>6, <1>7, <1>8, <1>9
     DEF CallerSteps, Continues

-----------------------------------------------------------------------------
(* Each step keeps the invariant of the jobs, and their types.             *)

QueuesOK == QueueType(jobQ) /\ persistentJob \in ThreadPoolJob \cup {NULL}

LEMMA JobTypesAre ==
  ASSUME ThreadPoolAssumption, WorkersOK, CallsOK, QueuesOK
  PROVE  JobTypes
BY LastJobIdType DEF WorkersOK, QueuesOK, JobTypes

LEMMA ThreadJobs ==
  ASSUME ThreadPoolAssumption, JobTypes, JobsInv,
         NEW w \in Workers, WorkerThread(w) \/ Done(w)
  PROVE  JobsInv' /\ QueuesOK'
<1>1. CASE UnchangedJobs /\ \E s \in {"top", "idle", "none"} :
             worker[w] # "running" /\ worker' = [worker EXCEPT ![w] = s]
  <2>1. Running' = Running
    BY <1>1 DEF JobTypes, Running
  <2>2. JobsInv'
    BY <1>1, <2>1, SameJobs
  <2>3. QueuesOK'
    BY <1>1 DEF JobTypes, QueuesOK, UnchangedJobs, QueueType
  <2>4. QED
    BY <2>2, <2>3
<1>2. CASE Start(w)
  BY <1>1, <1>2 DEF Start, UnchangedJobs, works, history
<1>3. CASE Rest(w)
  BY <1>1, <1>3 DEF Rest, Looks, UnchangedJobs, works, history
<1>4. CASE Exit(w)
  <2>1. JobsInv' /\ QueueType(jobQ')
    BY <1>4, ExitJobs
  <2>2. persistentJob' = persistentJob
    BY <1>4 DEF Exit
  <2>3. QED
    BY <2>1, <2>2 DEF QueuesOK, JobTypes
<1>5. CASE TakePersistent(w)
  <2>1. JobsInv'
    BY <1>5, TakePersistentJobs
  <2>2. jobQ' \in BumpPriority /\ persistentJob' = NULL
    BY <1>5 DEF TakePersistent
  <2>3. QueueType(jobQ')
    BY <2>2, BumpedOrder DEF JobTypes
  <2>4. QED
    BY <2>1, <2>2, <2>3 DEF QueuesOK, QueueType
<1>6. CASE Take(w)
  <2>1. JobsInv'
    BY <1>6, TakeJobs
  <2>2. QueueType(jobQ')
    BY <1>6, TakeFirst DEF Taken
  <2>3. persistentJob' = persistentJob
    BY <1>6 DEF Take
  <2>4. QED
    BY <2>1, <2>2, <2>3 DEF QueuesOK, QueueType, JobTypes
<1>7. CASE Done(w)
  <2>1. JobsInv'
    BY <1>7, DoneJobs
  <2>2. jobQ' = jobQ /\ persistentJob' = persistentJob
    BY <1>7 DEF Done, pool
  <2>3. QED
    BY <2>1, <2>2 DEF QueuesOK, QueueType, JobTypes
<1>8. QED
  BY <1>2, <1>3, <1>4, <1>5, <1>6, <1>7 DEF WorkerThread

LEMMA AddTypes ==
  ASSUME ThreadPoolAssumption, JobTypes, CallsOK,
         NEW c \in Callers, NEW p \in Priorities, ThreadPoolAdd(c, p)
  PROVE  NewJob(p) \in ThreadPoolJob /\ QueuesOK'
<1>1. /\ jobQ' = [jobQ EXCEPT ![p] = Append(@, NewJob(p))]
      /\ persistentJob' = persistentJob /\ RoomForJob
  BY DEF ThreadPoolAdd
<1>2. PICK j \in ThreadPoolJob : j = NewJob(p)
  BY <1>1, NewJobType
<1>3. PICK s \in Seq(ThreadPoolJob) : s = Append(jobQ[p], j)
  <2>1. jobQ[p] \in Seq(ThreadPoolJob)
    BY QueueTypes DEF JobTypes
  <2>2. Append(jobQ[p], j) \in Seq(ThreadPoolJob)
    BY <2>1, AppendProperties
  <2>3. QED
    BY <2>2
<1>4. Changed(jobQ, p, s, jobQ')
  <2>1. jobQ' = [jobQ EXCEPT ![p] = s]
    BY <1>1, <1>2, <1>3
  <2>2. s \in Seq(ThreadPoolJob)
    OBVIOUS
  <2>3. QueueType(jobQ)
    BY DEF JobTypes
  <2>4. QED
    BY <2>1, <2>2, <2>3, ExceptQueue
<1>5. QueueType(jobQ')
  BY <1>4 DEF Changed
<1>6. QED
  BY <1>1, <1>2, <1>5 DEF QueuesOK, JobTypes, QueueType

LEMMA RemoveTypes ==
  ASSUME JobTypes, NEW c \in Callers, NEW id, ThreadPoolRemove(c, id)
  PROVE  QueuesOK'
<1>1. CASE /\ \E p \in Priorities : \E i \in DOMAIN jobQ[p] :
                jobQ' = [jobQ EXCEPT ![p] = RemoveAt(@, i)]
           /\ UNCHANGED persistentJob
  <2>1. PICK p \in Priorities : \E i \in DOMAIN jobQ[p] :
          jobQ' = [jobQ EXCEPT ![p] = RemoveAt(@, i)]
    BY <1>1
  <2>2. PICK i \in DOMAIN jobQ[p] : jobQ' = [jobQ EXCEPT ![p] = RemoveAt(@, i)]
    BY <2>1
  <2>3. QueueType(jobQ) /\ i \in 1..Len(jobQ[p])
    BY QueueTypes DEF JobTypes
  <2>4. Without(jobQ, p, i, jobQ')
    BY <2>2, <2>3, RemoveWithout
  <2>5. QueueType(jobQ')
    BY <2>4 DEF Without
  <2>6. QED
    BY <1>1, <2>5 DEF QueuesOK, JobTypes, QueueType
<1>2. CASE persistentJob' = NULL /\ UNCHANGED jobQ
  BY <1>2 DEF QueuesOK, JobTypes, QueueType
<1>3. QED
  BY <1>1, <1>2 DEF ThreadPoolRemove

LEMMA ShutdownTypes ==
  ASSUME NEW c \in Callers, ThreadPoolShutdown(c)
  PROVE  QueuesOK'
BY NoJobsAre DEF ThreadPoolShutdown, QueuesOK, QueueType

LEMMA CallerJobs ==
  ASSUME ThreadPoolAssumption, JobTypes, CallsOK, JobsInv,
         NEW c \in Callers, CallerSteps(c)
  PROVE  JobsInv' /\ QueuesOK'
<1>1. Creates
  BY CallersCreate
<1>2. CASE UnchangedJobs
  <2>1. Running' = Running
    BY <1>1, CreateRunning
  <2>2. JobsInv'
    BY <1>2, <2>1, SameJobs
  <2>3. QueuesOK'
    BY <1>2 DEF JobTypes, QueuesOK, UnchangedJobs, QueueType
  <2>4. QED
    BY <2>2, <2>3
<1>3. CASE /\ PutPersistent(c) /\ UNCHANGED <<jobQ, ended>>
           /\ RoomForJob \/ Coming # {}
  <2>1. JobsInv'
    BY <1>1, <1>3, PutJobs
  <2>2. persistentJob' \in ThreadPoolJob
    <3>1. "med" \in Priorities
      BY DEF Priorities
    <3>2. NewJob("med") \in ThreadPoolJob
      BY <1>3, <3>1, NewJobType
    <3>3. QED
      BY <1>3, <3>2 DEF PutPersistent
  <2>3. QueuesOK'
    BY <1>3, <2>2 DEF JobTypes, QueuesOK, QueueType
  <2>4. QED
    BY <2>1, <2>3
<1>4. CASE \E p \in Priorities : ThreadPoolAdd(c, p)
  <2>1. PICK p \in Priorities : ThreadPoolAdd(c, p)
    BY <1>4
  <2>2. NewJob(p) \in ThreadPoolJob /\ QueuesOK'
    BY <2>1, AddTypes
  <2>3. QED
    BY <1>1, <2>1, <2>2, AddJobs
<1>5. CASE \E id \in 0..(lastJobId - 1) : ThreadPoolRemove(c, id)
  BY <1>5, RemoveJobs, RemoveTypes
<1>6. CASE \E a \in Attrs : ThreadPoolSetAttr(c, a)
  BY <1>1, <1>2, <1>6 DEF ThreadPoolSetAttr, works, UnchangedJobs
<1>7. CASE ThreadPoolAddPersistent(c)
  <2>1. CASE PutPersistent(c)
    <3>1. UNCHANGED <<jobQ, ended>> /\ RoomForJob
      BY <1>7 DEF ThreadPoolAddPersistent
    <3>2. QED
      BY <1>3, <2>1, <3>1
  <2>2. CASE UNCHANGED <<persistentJob, jobs, overwritten>>
    BY <1>1, <1>2, <1>7, <2>2 DEF ThreadPoolAddPersistent, UnchangedJobs
  <2>3. QED
    BY <1>7, <2>1, <2>2 DEF ThreadPoolAddPersistent
<1>8. CASE ThreadPoolShutdown(c)
  BY <1>8, ShutdownJobs, ShutdownTypes
<1>9. CASE WaitsOn(c)
  BY <1>1, <1>2, <1>9 DEF WaitsOn, pool, works, threads, history, UnchangedJobs
<1>10. CASE Created(c)
  <2>1. CASE call[c].function = "persist" /\ PutPersistent(c)
    <3>1. UNCHANGED <<jobQ, ended>> /\ call[c].at = "create"
      BY <1>10 DEF Created, Awake
    <3>2. Coming # {}
      BY <2>1, <3>1 DEF Coming
    <3>3. QED
      BY <1>3, <2>1, <3>1, <3>2
  <2>2. CASE UNCHANGED <<persistentJob, jobs, overwritten>>
    BY <1>1, <1>2, <1>10, <2>2 DEF Created, UnchangedJobs
  <2>3. QED
    BY <1>10, <2>1, <2>2 DEF Created
<1>11. CASE PickedUp(c)
  BY <1>1, <1>2, <1>11 DEF PickedUp, works, threads, history, UnchangedJobs
<1>12. CASE Destroy(c)
  BY <1>1, <1>2, <1>12 DEF Destroy, works, threads, history, UnchangedJobs
<1>13. QED
  BY <1>4, <1>5, <1>6, <1>7, <1>8, <1>9, <1>10, <1>11, <1>12
     DEF CallerSteps, Continues

\* The rest of the types.
RestOK ==
  /\ attr \in Attrs \cup {FirstAttr}
  /\ shutdown \in {"no", "yes", "destroyed"}
  /\ crowded \in BOOLEAN

LEMMA ThreadRest ==
  ASSUME RestOK, NEW w \in Workers, WorkerThread(w) \/ Done(w)
  PROVE  UNCHANGED <<attr, shutdown, crowded>> /\ RestOK'
<1>1. UNCHANGED <<attr, shutdown, crowded>>
  BY DEF WorkerThread, Start, Rest, Exit, Take, TakePersistent, Run, Done, pool,
         history
<1>2. QED
  BY <1>1 DEF RestOK

LEMMA CallerRest ==
  ASSUME RestOK, NEW c \in Callers, CallerSteps(c)
  PROVE  RestOK'
<1>1. attr' \in Attrs \cup {FirstAttr}
  BY DEF RestOK, CallerSteps, Continues, ThreadPoolAddPersistent, ThreadPoolShutdown,
         ThreadPoolAdd, ThreadPoolRemove, ThreadPoolSetAttr, WaitsOn, Created,
         PickedUp, Destroy, pool
<1>2. shutdown' \in {"no", "yes", "destroyed"}
  BY DEF RestOK, CallerSteps, Continues, ThreadPoolAddPersistent, ThreadPoolShutdown,
         ThreadPoolAdd, ThreadPoolRemove, ThreadPoolSetAttr, WaitsOn, Created,
         PickedUp, Destroy, pool
<1>3. crowded' \in BOOLEAN
  <2>1. Watch => crowded' \in BOOLEAN
    BY DEF Watch
  <2>2. Watch \/ crowded' = crowded
    BY DEF CallerSteps, Continues, ThreadPoolAddPersistent, ThreadPoolShutdown,
           ThreadPoolAdd, ThreadPoolRemove, ThreadPoolSetAttr, WaitsOn, Created,
           PickedUp, Destroy, history
  <2>3. QED
    BY <2>1, <2>2 DEF RestOK
<1>4. QED
  BY <1>1, <1>2, <1>3 DEF RestOK

-----------------------------------------------------------------------------
(* The bounds of the number of threads.                                    *)

\* The third bound needs to know who has created a thread, and that Shutdown
\* has waited for the others.
BoundsInv == CreatorOK /\ GoneOK /\ BoundsAreKept

\* What a step of caller c does for the maximum of threads.
Limited(c) ==
  /\ Creates
  /\ crowded => crowded'
  /\ worker' # worker =>
       /\ Starting # {} => crowded'
       /\ attr'.maxThreads = INFINITE_THREADS
            \/ totalThreads + 1 <= attr'.maxThreads
       /\ call'[c].at = "create" /\ call'[c].target > totalThreads
  /\ attr' # attr =>
       \/ crowded' \/ attr'.maxThreads = INFINITE_THREADS
       \/ totalThreads + Cardinality(Starting) <= attr'.maxThreads

\* And for the minimum, and what waits for it.
Settled(c) ==
  /\ \A d \in Callers \ {c} : call'[d] = call[d]
  /\ call'[c] # call[c] /\ call[c].at = "create" =>
       totalThreads >= call[c].target
  /\ \/ call'[c].function \in {"init", "attr"}
     \/ shutdown' # "no"
     \/ totalThreads >= attr'.minThreads
     \/ attr' = attr /\ call[c].function \notin {"init", "attr"}
  /\ shutdown' = "no" => shutdown = "no"
  /\ shutdown' = "destroyed" => shutdown = "destroyed" \/ totalThreads <= 0

LEMMA AttrIs ==
  ASSUME ThreadPoolAssumption, NEW a \in Attrs \cup {FirstAttr}
  PROVE  /\ a.minThreads \in Nat /\ a.maxThreads \in Int
         /\ a.maxThreads # INFINITE_THREADS => a.minThreads <= a.maxThreads
BY DEF ThreadPoolAssumption, INFINITE_THREADS

LEMMA StartingIs ==
  ASSUME ThreadPoolAssumption
  PROVE  IsFiniteSet(Starting) /\ Cardinality(Starting) \in Nat
BY FS_Subset, FS_CardinalityType DEF ThreadPoolAssumption, Starting

LEMMA CreatesFor ==
  ASSUME CallsOK, NEW c \in Callers, NEW f, NEW load, NEW count,
         totalThreads \in Nat, CreateWorker(c, f, load, count)
  PROVE  /\ call'[c].at = "create" /\ call'[c].target > totalThreads
         /\ call'[c].function = f
         /\ \A d \in Callers \ {c} : call'[d] = call[d]
BY DEF CallsOK, CreateWorker, Wait, Frame

LEMMA ReturnsFrom ==
  ASSUME CallsOK, NEW c \in Callers, Return(c)
  PROVE  \A d \in Callers \ {c} : call'[d] = call[d]
BY DEF CallsOK, Return

LEMMA AddBounds ==
  ASSUME ThreadPoolAssumption, WorkersOK, CallsOK, RestOK, Creates,
         NEW c \in Callers, NEW load, NEW count, AddWorker(c, load, count),
         Watch, UNCHANGED <<attr, shutdown>>,
         call[c].function \notin {"init", "attr"},
         call[c].at = "create" => totalThreads >= call[c].target
  PROVE  Limited(c) /\ Settled(c)
<1>1. totalThreads \in Nat /\ attr.maxThreads \in Int
  BY ThreadNumbers, AttrIs DEF RestOK
<1>2. CASE CreateWorker(c, "add", load, count) /\ ~AtMaximum(attr)
  <2>1. /\ call'[c].at = "create" /\ call'[c].target > totalThreads
        /\ \A d \in Callers \ {c} : call'[d] = call[d]
    BY <1>1, <1>2, CreatesFor
  <2>2. attr.maxThreads = INFINITE_THREADS \/ totalThreads + 1 <= attr.maxThreads
    BY <1>1, <1>2 DEF AtMaximum
  <2>3. Limited(c)
    BY <2>1, <2>2 DEF Limited, Watch
  <2>4. Settled(c)
    BY <2>1 DEF Settled
  <2>5. QED
    BY <2>3, <2>4
<1>3. CASE Return(c) /\ UNCHANGED worker
  <2>1. Limited(c)
    BY <1>3 DEF Limited, Watch
  <2>2. Settled(c)
    BY <1>3, ReturnsFrom DEF Settled
  <2>3. QED
    BY <2>1, <2>2
<1>4. QED
  BY <1>2, <1>3 DEF AddWorker

\* The loop ends when there are enough threads, and not otherwise.
LEMMA AddThreadsBounds ==
  ASSUME ThreadPoolAssumption, WorkersOK, CallsOK, RestOK, Creates,
         NEW c \in Callers, NEW f \in {"init", "attr"},
         NEW a \in Attrs \cup {FirstAttr}, attr' = a,
         NEW count \in Nat, count <= totalThreads,
         AddThreads(c, f, a, count) \/ Refused(c, f, a, count),
         Watch, UNCHANGED shutdown,
         call[c].at = "create" => totalThreads >= call[c].target
  PROVE  Limited(c) /\ Settled(c)
<1>1. /\ totalThreads \in Nat /\ a.minThreads \in Nat /\ a.maxThreads \in Int
      /\ Cardinality(Starting) \in Nat
  BY ThreadNumbers, AttrIs, StartingIs
<1>2. attr' # attr => \/ crowded' \/ a.maxThreads = INFINITE_THREADS
                      \/ totalThreads + Cardinality(Starting) <= a.maxThreads
  BY <1>1 DEF Watch
<1>3. CASE CreateWorker(c, f, 0, count) /\ ~AtMaximum(a)
  <2>1. /\ call'[c].at = "create" /\ call'[c].target > totalThreads
        /\ call'[c].function = f
        /\ \A d \in Callers \ {c} : call'[d] = call[d]
    BY <1>1, <1>3, CreatesFor
  <2>2. a.maxThreads = INFINITE_THREADS \/ totalThreads + 1 <= a.maxThreads
    BY <1>1, <1>3 DEF AtMaximum
  <2>3. Limited(c)
    BY <1>2, <2>1, <2>2 DEF Limited, Watch
  <2>4. Settled(c)
    BY <2>1 DEF Settled
  <2>5. QED
    BY <2>3, <2>4
<1>4. CASE Return(c) /\ UNCHANGED worker /\ count >= a.minThreads
  <2>1. Limited(c)
    BY <1>2, <1>4 DEF Limited, Watch
  <2>2. totalThreads >= a.minThreads
    BY <1>1, <1>4
  <2>3. Settled(c)
    BY <1>4, <2>2, ReturnsFrom DEF Settled
  <2>4. QED
    BY <2>1, <2>3
<1>5. CASE Refused(c, f, a, count)
  <2>1. Limited(c)
    BY <1>2, <1>5 DEF Limited, Watch, Refused
  <2>2. /\ call'[c].function = f
        /\ \A d \in Callers \ {c} : call'[d] = call[d]
    BY <1>5 DEF Refused, Frame, CallsOK
  <2>3. Settled(c)
    BY <2>2 DEF Settled
  <2>4. QED
    BY <2>1, <2>3
<1>6. QED
  BY <1>3, <1>4, <1>5 DEF AddThreads

\* A step that creates no thread and changes no attributes.
LEMMA LimitedBy ==
  ASSUME Creates, UNCHANGED <<worker, attr>>, Watch \/ UNCHANGED crowded,
         NEW c \in Callers
  PROVE  Limited(c)
<1>1. crowded => crowded'
  BY DEF Watch
<1>2. worker' = worker /\ attr' = attr
  OBVIOUS
<1>3. QED
  BY <1>1, <1>2 DEF Limited

LEMMA CreatedBounds ==
  ASSUME ThreadPoolAssumption, WorkersOK, CallsOK, RestOK, Creates,
         NEW c \in Callers, Created(c)
  PROVE  Limited(c) /\ Settled(c)
<1>1. /\ call[c].at = "create" /\ totalThreads >= call[c].target
      /\ call[c] \in Frames /\ FrameOK(call[c])
      /\ Watch /\ UNCHANGED <<attr, shutdown>>
  BY DEF Created, Awake, CallsOK
<1>2. CASE /\ call[c].function = "add"
           /\ AddWorker(c, call[c].load, call[c].count + 1)
  <2>1. call[c].function \notin {"init", "attr"}
    BY <1>2
  <2>2. QED
    BY <1>1, <1>2, <2>1, AddBounds
<1>3. CASE /\ call[c].function \in {"init", "attr"}
           /\ \/ AddThreads(c, call[c].function, attr, call[c].count + 1)
              \/ Refused(c, call[c].function, attr, call[c].count + 1)
  <2>1. PICK count : count = call[c].count + 1
    OBVIOUS
  <2>2. count \in Nat /\ count <= totalThreads
    <3>1. totalThreads \in Nat
      BY ThreadNumbers
    <3>2. /\ call[c].count \in Nat \cup {-1} /\ call[c].target \in Nat
          /\ call[c].target >= call[c].count + 1
      BY <1>1, <1>3 DEF Frames, FrameOK
    <3>3. QED
      BY <1>1, <2>1, <3>1, <3>2
  <2>3. PICK a \in Attrs \cup {FirstAttr} : a = attr /\ attr' = a
    BY <1>1 DEF RestOK
  <2>4. PICK f \in {"init", "attr"} : f = call[c].function
    BY <1>3
  <2>5. AddThreads(c, f, a, count) \/ Refused(c, f, a, count)
    BY <1>3, <2>1, <2>3, <2>4
  <2>6. QED
    BY <1>1, <2>2, <2>3, <2>5, AddThreadsBounds
<1>4. CASE /\ call[c].function = "persist"
           /\ PutPersistent(c)
           /\ UNCHANGED worker
  <2>1. Limited(c)
    BY <1>1, <1>4, LimitedBy
  <2>2. Settled(c)
    BY <1>1, <1>4 DEF Settled, PutPersistent, Wait, CallsOK
  <2>3. QED
    BY <2>1, <2>2
<1>5. QED
  BY <1>2, <1>3, <1>4 DEF Created

LEMMA CallerBounds ==
  ASSUME ThreadPoolAssumption, WorkersOK, CallsOK, RestOK,
         NEW c \in Callers, CallerSteps(c)
  PROVE  Limited(c) /\ Settled(c)
<1>1. Creates /\ totalThreads \in Nat /\ call \in [Callers -> Frames]
  BY CallersCreate, ThreadNumbers DEF CallsOK
<1>2. /\ NoCall.at # "create" /\ NoCall.function \notin {"init", "attr"}
  BY DEF NoCall, Frame
<1>3. CASE \E p \in Priorities : ThreadPoolAdd(c, p)
  <2>1. PICK load, count : AddWorker(c, load, count)
    BY <1>3 DEF ThreadPoolAdd
  <2>2. /\ Watch /\ UNCHANGED <<attr, shutdown>> /\ call[c] = NoCall
    BY <1>3 DEF ThreadPoolAdd, Calls
  <2>3. QED
    BY <1>1, <1>2, <2>1, <2>2, AddBounds
<1>4. CASE \E a \in Attrs : ThreadPoolSetAttr(c, a)
  <2>1. PICK a \in Attrs : ThreadPoolSetAttr(c, a)
    BY <1>4
  <2>2. /\ Watch /\ UNCHANGED shutdown /\ call[c] = NoCall /\ attr' = a
        /\ AddThreads(c, "attr", a, totalThreads) /\ totalThreads <= totalThreads
    BY <1>1, <2>1 DEF ThreadPoolSetAttr, Calls
  <2>3. a \in Attrs \cup {FirstAttr} /\ "attr" \in {"init", "attr"}
    OBVIOUS
  <2>4. QED
    BY <1>1, <1>2, <2>2, <2>3, AddThreadsBounds
<1>5. CASE ThreadPoolAddPersistent(c)
  <2>1. call[c] = NoCall /\ UNCHANGED <<attr, shutdown>> /\ Watch
    BY <1>5 DEF ThreadPoolAddPersistent, Calls
  <2>2. CASE CreateWorker(c, "persist", 0, 0) /\ totalThreads < attr.maxThreads
    <3>1. /\ call'[c].at = "create" /\ call'[c].target > totalThreads
          /\ \A d \in Callers \ {c} : call'[d] = call[d]
      BY <1>1, <2>2, CreatesFor
    <3>2. totalThreads + 1 <= attr.maxThreads
      BY <1>1, <2>2, AttrIs DEF RestOK
    <3>3. Limited(c)
      BY <1>1, <2>1, <3>1, <3>2 DEF Limited, Watch
    <3>4. Settled(c)
      BY <1>2, <2>1, <3>1 DEF Settled
    <3>5. QED
      BY <3>3, <3>4
  <2>3. CASE PutPersistent(c) /\ UNCHANGED worker
    <3>1. Limited(c)
      BY <1>1, <2>1, <2>3, LimitedBy
    <3>2. Settled(c)
      BY <1>1, <1>2, <2>1, <2>3 DEF Settled, PutPersistent, Wait
    <3>3. QED
      BY <3>1, <3>2
  <2>4. QED
    BY <1>5, <2>2, <2>3 DEF ThreadPoolAddPersistent
<1>6. CASE ThreadPoolShutdown(c)
  <2>1. UNCHANGED <<worker, attr, crowded>>
    BY <1>6 DEF ThreadPoolShutdown, threads, history
  <2>2. Limited(c)
    BY <1>1, <2>1, LimitedBy
  <2>3. call[c].at # "create" /\ shutdown' = "yes"
    BY <1>2, <1>6 DEF ThreadPoolShutdown, Calls, Awake
  <2>4. \A d \in Callers \ {c} : call'[d] = call[d]
    BY <1>1, <1>6 DEF ThreadPoolShutdown
  <2>5. Settled(c)
    BY <2>3, <2>4 DEF Settled
  <2>6. QED
    BY <2>2, <2>5
<1>7. CASE \E id \in 0..(lastJobId - 1) : ThreadPoolRemove(c, id)
  <2>1. UNCHANGED <<worker, attr, crowded, call, shutdown>> /\ call[c] = NoCall
    BY <1>7 DEF ThreadPoolRemove, threads, history, calls, Calls
  <2>2. Limited(c)
    BY <1>1, <2>1, LimitedBy
  <2>3. Settled(c)
    BY <1>2, <2>1 DEF Settled
  <2>4. QED
    BY <2>2, <2>3
<1>8. CASE WaitsOn(c)
  <2>1. UNCHANGED <<worker, attr, crowded, call, shutdown>>
    BY <1>8 DEF WaitsOn, pool, threads, history
  <2>2. Limited(c)
    BY <1>1, <2>1, LimitedBy
  <2>3. Settled(c)
    BY <2>1 DEF Settled
  <2>4. QED
    BY <2>2, <2>3
<1>9. CASE Created(c)
  BY <1>1, <1>9, CreatedBounds
<1>10. CASE PickedUp(c)
  <2>1. UNCHANGED <<worker, attr, crowded, shutdown>> /\ call[c].at = "handoff"
    BY <1>10 DEF PickedUp, threads, history, Awake
  <2>2. Limited(c)
    BY <1>1, <2>1, LimitedBy
  <2>3. call[c].function = "persist"
    BY <2>1 DEF CallsOK, FrameOK
  <2>4. \A d \in Callers \ {c} : call'[d] = call[d]
    BY <1>10, ReturnsFrom DEF PickedUp
  <2>5. Settled(c)
    BY <2>1, <2>3, <2>4 DEF Settled
  <2>6. QED
    BY <2>2, <2>5
<1>11. CASE Destroy(c)
  <2>1. /\ UNCHANGED <<worker, attr, crowded>> /\ call[c].at = "join"
        /\ shutdown' = "destroyed" /\ totalThreads <= 0
    BY <1>11 DEF Destroy, threads, history, Awake
  <2>2. Limited(c)
    BY <1>1, <2>1, LimitedBy
  <2>3. \A d \in Callers \ {c} : call'[d] = call[d]
    BY <1>11, ReturnsFrom DEF Destroy
  <2>4. Settled(c)
    BY <2>1, <2>3 DEF Settled
  <2>5. QED
    BY <2>2, <2>4
<1>12. QED
  BY <1>3, <1>4, <1>5, <1>6, <1>7, <1>8, <1>9, <1>10, <1>11
     DEF CallerSteps, Continues

\* The third bound follows from the rest of the invariant.
LEMMA GoneThreads ==
  ASSUME ThreadPoolAssumption, WorkersOK', CreatorOK', GoneOK',
         shutdown' = "destroyed", ~crowded', \A c \in Callers : call'[c] = NoCall,
         NEW w \in Workers
  PROVE  worker'[w] = "none"
<1>1. w \notin Counted'
  <2>1. Cardinality(Counted') = 0
    BY DEF GoneOK, WorkersOK
  <2>2. IsFiniteSet(Counted')
    BY FS_Subset DEF ThreadPoolAssumption, Counted
  <2>3. QED
    BY <2>1, <2>2, FS_EmptySet
<1>2. Starting' = {}
  BY DEF CreatorOK, NoCall, Frame
<1>3. QED
  BY <1>1, <1>2 DEF WorkersOK, Counted, Starting

LEMMA CallerKeepsBounds ==
  ASSUME ThreadPoolAssumption, WorkersOK, CallsOK, RestOK, BoundsInv,
         NEW c \in Callers, Limited(c), Settled(c), WorkersOK', RestOK'
  PROVE  BoundsInv'
<1>1. /\ Creates /\ totalThreads' = totalThreads /\ totalThreads \in Nat
      /\ attr'.maxThreads \in Int /\ attr'.minThreads \in Nat
  BY ThreadNumbers, AttrIs DEF Limited, Creates, RestOK
<1>2. /\ worker' = worker => Starting' = Starting
      /\ worker' # worker => \E w : w \notin Starting /\ Starting' = Starting \cup {w}
  <2>1. worker' = worker => Starting' = Starting
    BY DEF Starting
  <2>2. ASSUME worker' # worker
        PROVE  \E w : w \notin Starting /\ Starting' = Starting \cup {w}
    <3>1. PICK w \in Workers : /\ worker[w] = "none"
                               /\ worker' = [worker EXCEPT ![w] = "starting"]
      BY <1>1, <2>2 DEF Creates
    <3>2. w \notin Starting /\ Starting' = Starting \cup {w}
      BY <3>1 DEF WorkersOK, Starting
    <3>3. QED
      BY <3>2
  <2>3. QED
    BY <2>1, <2>2
<1>3. CreatorOK'
  <2>1. SUFFICES ASSUME ~crowded'
                 PROVE  /\ \A v, w \in Starting' : v = w
                        /\ Starting' # {} =>
                             \E d \in Callers : /\ call'[d].at = "create"
                                                /\ call'[d].target > totalThreads'
    BY DEF CreatorOK
  <2>2. ~crowded
    BY <2>1 DEF Limited
  <2>3. CASE worker' = worker
    <3>1. Starting' = Starting /\ \A v, w \in Starting : v = w
      BY <1>2, <2>2, <2>3 DEF BoundsInv, CreatorOK
    <3>2. ASSUME NEW d \in Callers, call[d].at = "create",
                 call[d].target > totalThreads
          PROVE  call'[d] = call[d]
      <4>1. CASE d = c
        <5>1. call[d].target \in Nat
          BY <1>1 DEF CallsOK, Frames
        <5>2. ~(totalThreads >= call[d].target)
          BY <1>1, <3>2, <5>1
        <5>3. QED
          BY <3>2, <4>1, <5>2 DEF Settled
      <4>2. CASE d # c
        BY <4>2 DEF Settled
      <4>3. QED
        BY <4>1, <4>2
    <3>3. QED
      BY <1>1, <2>2, <3>1, <3>2 DEF BoundsInv, CreatorOK
  <2>4. CASE worker' # worker
    <3>1. Starting = {}
      BY <2>1, <2>4 DEF Limited
    <3>2. \A v, w \in Starting' : v = w
      BY <1>2, <2>4, <3>1
    <3>3. call'[c].at = "create" /\ call'[c].target > totalThreads'
      BY <1>1, <2>4 DEF Limited
    <3>4. QED
      BY <3>2, <3>3
  <2>5. QED
    BY <2>3, <2>4
<1>4. GoneOK'
  BY <1>1 DEF BoundsInv, GoneOK, Settled
<1>5. \/ crowded' \/ attr'.maxThreads = INFINITE_THREADS
      \/ totalThreads' + Cardinality(Starting') <= attr'.maxThreads
  <2>1. SUFFICES ASSUME ~crowded', attr'.maxThreads # INFINITE_THREADS
                 PROVE  totalThreads + Cardinality(Starting') <= attr'.maxThreads
    BY <1>1
  <2>2. CASE worker' = worker
    <3>1. totalThreads + Cardinality(Starting) <= attr'.maxThreads
      BY <2>1 DEF Limited, BoundsInv, BoundsAreKept
    <3>2. QED
      BY <1>2, <2>2, <3>1
  <2>3. CASE worker' # worker
    <3>1. Starting = {} /\ totalThreads + 1 <= attr'.maxThreads
      BY <2>1, <2>3 DEF Limited
    <3>2. Cardinality(Starting') = 1
      <4>1. PICK w : Starting' = {w}
        BY <1>2, <2>3, <3>1
      <4>2. QED
        BY <4>1, FS_Singleton
    <3>3. QED
      BY <3>1, <3>2
  <2>4. QED
    BY <2>2, <2>3
<1>6. ASSUME shutdown' = "no",
             \A d \in Callers : call'[d].function \notin {"init", "attr"}
      PROVE  totalThreads' >= attr'.minThreads
  <2>1. CASE totalThreads >= attr'.minThreads
    BY <1>1, <2>1
  <2>2. CASE attr' = attr /\ call[c].function \notin {"init", "attr"}
    <3>1. shutdown = "no" /\ \A d \in Callers : call[d].function \notin {"init", "attr"}
      BY <1>6, <2>2 DEF Settled
    <3>2. QED
      BY <1>1, <2>2, <3>1 DEF BoundsInv, BoundsAreKept
  <2>3. QED
    BY <1>6, <2>1, <2>2 DEF Settled
<1>7. BoundsAreKept'
  <2>1. ASSUME shutdown' = "destroyed", ~crowded',
               \A d \in Callers : call'[d] = NoCall
        PROVE  \A w \in Workers : worker'[w] = "none"
    BY <1>3, <1>4, <2>1, GoneThreads
  <2>2. QED
    BY <1>5, <1>6, <2>1 DEF BoundsAreKept
<1>8. QED
  BY <1>3, <1>4, <1>7 DEF BoundsInv

\* What a step of a thread does to the numbers.
LEMMA ThreadNumbersChange ==
  ASSUME ThreadPoolAssumption, WorkersOK, RestOK,
         NEW w \in Workers, WorkerThread(w) \/ Done(w)
  PROVE  /\ call' = call
         /\ \/ /\ w \in Starting /\ Starting' = Starting \ {w}
               /\ totalThreads' = totalThreads + 1 /\ shutdown # "destroyed"
            \/ /\ Starting' = Starting /\ totalThreads' = totalThreads
            \/ /\ Starting' = Starting /\ totalThreads' = totalThreads - 1
               /\ shutdown = "no" => totalThreads > attr.minThreads
               /\ shutdown # "destroyed"
<1>1. call' = call
  BY DEF WorkerThread, Start, Rest, Exit, Take, TakePersistent, Run, Done, calls
<1>2. CASE Start(w)
  BY <1>1, <1>2 DEF Start, WorkersOK, Starting
<1>3. CASE Exit(w)
  <2>1. Starting' = Starting
    BY <1>3 DEF Exit, Looks, WorkersOK, Starting
  <2>2. shutdown = "no" => totalThreads > attr.minThreads
    <3>1. /\ totalThreads \in Nat
          /\ attr.minThreads \in Nat /\ attr.maxThreads \in Int
          /\ attr.maxThreads # INFINITE_THREADS => attr.minThreads <= attr.maxThreads
      BY ThreadNumbers, AttrIs DEF RestOK
    <3>2. shutdown = "no" => MayGo(w)
      BY <1>3 DEF Exit
    <3>3. QED
      BY <3>1, <3>2 DEF MayGo, TooMany
  <2>3. QED
    BY <1>1, <1>3, <2>1, <2>2 DEF Exit, Looks
<1>4. ASSUME NEW s \in {"top", "idle", "running"}, worker[w] # "starting",
             worker' = [worker EXCEPT ![w] = s]
      PROVE  Starting' = Starting
  BY <1>4 DEF WorkersOK, Starting
<1>5. CASE Rest(w)
  BY <1>1, <1>4, <1>5 DEF Rest, Looks
<1>6. CASE Take(w)
  <2>1. worker' = [worker EXCEPT ![w] = "running"] /\ totalThreads' = totalThreads
    BY <1>6 DEF Take, Run
  <2>2. QED
    BY <1>1, <1>4, <1>6, <2>1 DEF Take, Looks
<1>7. CASE TakePersistent(w)
  <2>1. worker' = [worker EXCEPT ![w] = "running"] /\ totalThreads' = totalThreads
    BY <1>7 DEF TakePersistent, Run
  <2>2. QED
    BY <1>1, <1>4, <1>7, <2>1 DEF TakePersistent, Looks
<1>8. CASE Done(w)
  BY <1>1, <1>4, <1>8 DEF Done, pool
<1>9. QED
  BY <1>2, <1>3, <1>5, <1>6, <1>7, <1>8 DEF WorkerThread

LEMMA ThreadKeepsBounds ==
  ASSUME ThreadPoolAssumption, WorkersOK, CallsOK, RestOK, BoundsInv,
         NEW w \in Workers, WorkerThread(w) \/ Done(w), WorkersOK'
  PROVE  BoundsInv'
<1>1. /\ call' = call
      /\ \/ /\ w \in Starting /\ Starting' = Starting \ {w}
            /\ totalThreads' = totalThreads + 1 /\ shutdown # "destroyed"
         \/ /\ Starting' = Starting /\ totalThreads' = totalThreads
         \/ /\ Starting' = Starting /\ totalThreads' = totalThreads - 1
            /\ shutdown = "no" => totalThreads > attr.minThreads
            /\ shutdown # "destroyed"
  BY ThreadNumbersChange
<1>2. UNCHANGED <<attr, shutdown, crowded>>
  BY ThreadRest
<1>3. /\ totalThreads \in Nat /\ attr.maxThreads \in Int
      /\ attr.minThreads \in Nat
      /\ IsFiniteSet(Starting) /\ Cardinality(Starting) \in Nat
  BY ThreadNumbers, AttrIs, StartingIs DEF RestOK
<1>4. CreatorOK'
  <2>1. SUFFICES ASSUME ~crowded
                 PROVE  /\ \A v, u \in Starting' : v = u
                        /\ Starting' # {} =>
                             \E d \in Callers : /\ call'[d].at = "create"
                                                /\ call'[d].target > totalThreads'
    BY <1>2 DEF CreatorOK
  <2>2. \A v, u \in Starting : v = u
    BY <2>1 DEF BoundsInv, CreatorOK
  <2>3. CASE w \in Starting /\ Starting' = Starting \ {w}
    BY <2>2, <2>3
  <2>4. CASE /\ Starting' = Starting
             /\ totalThreads' = totalThreads \/ totalThreads' = totalThreads - 1
    <3>1. \A d \in Callers : call[d].target \in Nat
      <4>1. Cardinality(Workers) \in Nat
        BY FS_CardinalityType DEF ThreadPoolAssumption
      <4>2. QED
        BY <4>1 DEF CallsOK, Frames
    <3>2. \A d \in Callers :
            call[d].target > totalThreads => call[d].target > totalThreads'
      BY <1>3, <2>4, <3>1
    <3>3. QED
      BY <1>1, <2>1, <2>2, <2>4, <3>2 DEF BoundsInv, CreatorOK
  <2>5. QED
    BY <1>1, <2>3, <2>4
<1>5. GoneOK'
  BY <1>1, <1>2 DEF BoundsInv, GoneOK
<1>6. \/ crowded' \/ attr'.maxThreads = INFINITE_THREADS
      \/ totalThreads' + Cardinality(Starting') <= attr'.maxThreads
  <2>1. totalThreads' + Cardinality(Starting') <= totalThreads + Cardinality(Starting)
    <3>1. CASE w \in Starting /\ Starting' = Starting \ {w}
                 /\ totalThreads' = totalThreads + 1
      <4>1. Cardinality(Starting') = Cardinality(Starting) - 1
        BY <1>3, <3>1, FS_RemoveElement
      <4>2. QED
        BY <1>3, <3>1, <4>1
    <3>2. QED
      BY <1>1, <1>3, <3>1
  <2>2. totalThreads' \in Int /\ Cardinality(Starting') \in Int
    <3>1. IsFiniteSet(Starting')
      BY <1>1, <1>3, FS_RemoveElement
    <3>2. Cardinality(Starting') \in Nat
      BY <3>1, FS_CardinalityType
    <3>3. QED
      BY <1>1, <1>3, <3>2
  <2>3. QED
    BY <1>2, <1>3, <2>1, <2>2 DEF BoundsInv, BoundsAreKept
<1>7. ASSUME shutdown' = "no",
             \A d \in Callers : call'[d].function \notin {"init", "attr"}
      PROVE  totalThreads' >= attr'.minThreads
  <2>1. totalThreads >= attr.minThreads
    BY <1>1, <1>2, <1>7 DEF BoundsInv, BoundsAreKept
  <2>2. QED
    BY <1>1, <1>2, <1>3, <1>7, <2>1
<1>8. BoundsAreKept'
  <2>1. ASSUME shutdown' = "destroyed", ~crowded',
               \A d \in Callers : call'[d] = NoCall
        PROVE  \A u \in Workers : worker'[u] = "none"
    BY <1>4, <1>5, <2>1, GoneThreads
  <2>2. QED
    BY <1>6, <1>7, <2>1 DEF BoundsAreKept
<1>9. QED
  BY <1>4, <1>5, <1>8 DEF BoundsInv

-----------------------------------------------------------------------------
(* The number of jobs.                                                     *)

LEMMA SameSize ==
  ASSUME NEW S, IsFiniteSet(S), NEW T, NEW f \in [S -> T], T = {f[x] : x \in S},
         \A x, y \in S : f[x] = f[y] => x = y
  PROVE  Cardinality(T) = Cardinality(S)
<1>1. \A t \in T : \E x \in S : f[x] = t
  OBVIOUS
<1>2. f \in Surjection(S, T)
  BY <1>1 DEF Surjection
<1>3. f \in Injection(S, T)
  BY DEF Injection, IsInjective
<1>4. QED
  BY <1>2, <1>3, FS_Surjection

LEMMA DisjointUnion ==
  ASSUME NEW S, NEW T, IsFiniteSet(S), IsFiniteSet(T), S \cap T = {}
  PROVE  /\ IsFiniteSet(S \cup T)
         /\ Cardinality(S \cup T) = Cardinality(S) + Cardinality(T)
<1>1. /\ IsFiniteSet(S \cup T)
      /\ Cardinality(S \cup T)
           = Cardinality(S) + Cardinality(T) - Cardinality(S \cap T)
  BY FS_Union
<1>2. Cardinality(S \cap T) = 0
  BY FS_EmptySet
<1>3. Cardinality(S) \in Nat /\ Cardinality(T) \in Nat
  BY FS_CardinalityType
<1>4. QED
  BY <1>1, <1>2, <1>3

LEMMA PlacesSize ==
  ASSUME NEW n \in Nat, NEW q, NEW h, NEW r, NEW e, NEW o,
         Places(n, q, h, r, e, o)
  PROVE  /\ IsFiniteSet(q) /\ IsFiniteSet(h) /\ IsFiniteSet(r)
         /\ IsFiniteSet(e) /\ IsFiniteSet(o)
         /\ n = Cardinality(q) + Cardinality(h) + Cardinality(r)
                  + Cardinality(e) + Cardinality(o)
<1>1. IsFiniteSet(1..n) /\ Cardinality(1..n) = n
  BY FS_Interval
<1>2. /\ q \in SUBSET (1..n) /\ h \in SUBSET (1..n) /\ r \in SUBSET (1..n)
      /\ e \in SUBSET (1..n) /\ o \in SUBSET (1..n)
  BY DEF Places
<1>3. /\ IsFiniteSet(q) /\ IsFiniteSet(h) /\ IsFiniteSet(r)
      /\ IsFiniteSet(e) /\ IsFiniteSet(o)
  BY <1>1, <1>2, FS_Subset
<1>4. PICK a : a = q \cup h
  OBVIOUS
<1>5. PICK b : b = a \cup r
  OBVIOUS
<1>6. PICK d : d = b \cup e
  OBVIOUS
<1>7. /\ q \cap h = {} /\ a \cap r = {} /\ b \cap e = {} /\ d \cap o = {}
      /\ d \cup o = 1..n
  BY <1>4, <1>5, <1>6 DEF Places
<1>8. IsFiniteSet(a) /\ Cardinality(a) = Cardinality(q) + Cardinality(h)
  BY <1>3, <1>4, <1>7, DisjointUnion
<1>9. IsFiniteSet(b) /\ Cardinality(b) = Cardinality(a) + Cardinality(r)
  BY <1>3, <1>5, <1>7, <1>8, DisjointUnion
<1>10. IsFiniteSet(d) /\ Cardinality(d) = Cardinality(b) + Cardinality(e)
  BY <1>3, <1>6, <1>7, <1>9, DisjointUnion
<1>11. n = Cardinality(d) + Cardinality(o)
  BY <1>1, <1>3, <1>7, <1>10, DisjointUnion
<1>12. QED
  BY <1>3, <1>8, <1>9, <1>10, <1>11

LEMMA QueuedSize ==
  ASSUME JobTypes, JobsInv
  PROVE  Cardinality(QueuedNumbers)
           = Len(jobQ["high"]) + Len(jobQ["med"]) + Len(jobQ["low"])
<1>1. PICK s : s = AsOne(jobQ)
  OBVIOUS
<1>2. QueueType(jobQ) /\ Ordered(jobQ)
  BY DEF JobTypes, JobsInv
<1>3. /\ s \in Seq(ThreadPoolJob)
      /\ Len(s) = Len(jobQ["high"]) + Len(jobQ["med"]) + Len(jobQ["low"])
  BY <1>1, <1>2, PlacesAsOne
<1>4. PICK n \in Nat : n = Len(s)
  BY ONLY <1>3, LenProperties
<1>5. InOrder(s) /\ Queued = {s[i] : i \in 1..n}
  BY <1>1, <1>2, <1>4, OrderedAsOne, QueuedItems
<1>6. PICK f : f = [i \in 1..n |-> s[i].number]
  OBVIOUS
<1>7. QueuedNumbers = {f[i] : i \in 1..n}
  BY <1>5, <1>6 DEF QueuedNumbers
<1>8. \A i, k \in 1..n : f[i] = f[k] => i = k
  <2>1. \A i, k \in 1..n : i < k => f[i] # f[k]
    BY <1>4, <1>5, <1>6 DEF InOrder
  <2>2. \A i, k \in 1..n : i < k \/ k < i \/ i = k
    OBVIOUS
  <2>3. QED
    BY <2>1, <2>2
<1>9. IsFiniteSet(1..n) /\ Cardinality(1..n) = n
  BY FS_Interval
<1>10. Cardinality(QueuedNumbers) = n
  <2>1. f \in [1..n -> QueuedNumbers]
    BY <1>6, <1>7
  <2>2. QED
    BY <1>7, <1>8, <1>9, <2>1, SameSize
<1>11. QED
  BY <1>3, <1>4, <1>10

LEMMA RunningSize ==
  ASSUME ThreadPoolAssumption, JobTypes, RunningOK
  PROVE  Cardinality(RunNow) = Cardinality(Running)
<1>1. IsFiniteSet(Running)
  BY FS_Subset DEF ThreadPoolAssumption, Running
<1>2. PICK f : f = [w \in Running |-> job[w]]
  OBVIOUS
<1>3. RunNow = {f[w] : w \in Running} /\ f \in [Running -> RunNow]
  BY <1>2 DEF RunNow
<1>4. \A v, w \in Running : f[v] = f[w] => v = w
  BY <1>2 DEF RunningOK
<1>5. QED
  BY <1>1, <1>3, <1>4, SameSize

LEMMA JobsAreSomewhere ==
  ASSUME ThreadPoolAssumption, JobTypes, JobsInv
  PROVE  EveryJobIsSomewhere
<1>1. PICK n \in Nat : n = jobs
  BY DEF JobTypes, ThreadPoolAssumption
<1>2. Places(n, QueuedNumbers, HandedOver, RunNow, ended, overwritten)
  BY <1>1 DEF JobsInv, PlacesOK
<1>3. n = Cardinality(QueuedNumbers) + Cardinality(HandedOver)
            + Cardinality(RunNow) + Cardinality(ended) + Cardinality(overwritten)
  BY <1>2, PlacesSize
<1>4. Cardinality(HandedOver) = IF persistentJob = NULL THEN 0 ELSE 1
  <2>1. CASE persistentJob = NULL
    BY <2>1, HandedOverIs, FS_EmptySet
  <2>2. CASE persistentJob # NULL
    BY <2>2, HandedOverIs, FS_Singleton
  <2>3. QED
    BY <2>1, <2>2
<1>5. /\ Cardinality(QueuedNumbers)
           = Len(jobQ["high"]) + Len(jobQ["med"]) + Len(jobQ["low"])
      /\ Cardinality(RunNow) = Cardinality(Running)
  BY QueuedSize, RunningSize DEF JobsInv
<1>6. 1..jobs = Waiting \cup RunNow \cup ended \cup overwritten
  BY <1>1, <1>2, WaitingIs DEF Places
<1>7. jobs = Len(jobQ["high"]) + Len(jobQ["med"]) + Len(jobQ["low"])
               + (IF persistentJob = NULL THEN 0 ELSE 1)
               + Cardinality(Running) + Cardinality(ended)
               + Cardinality(overwritten)
  BY <1>1, <1>3, <1>4, <1>5
<1>8. QED
  BY <1>6, <1>7 DEF EveryJobIsSomewhere, Running, RunNow

-----------------------------------------------------------------------------
(* The theorems.                                                           *)

\* The inductive invariant.
PoolInv ==
  WorkersOK /\ CallsOK /\ RestOK /\ QueuesOK /\ JobsInv /\ BoundsInv

LEMMA InitialInv ==
  ASSUME ThreadPoolAssumption, Init PROVE PoolInv
<1>1. Counted = {} /\ Persistent = {} /\ Starting = {} /\ Running = {}
  BY DEF Init, Counted, Persistent, Starting, Running
<1>2. MaxJobs \in Nat /\ Cardinality(Workers) \in Nat
  BY FS_CardinalityType DEF ThreadPoolAssumption
<1>3. WorkersOK
  <2>1. Cardinality({}) = 0
    BY FS_EmptySet
  <2>2. 0 \in 0..MaxJobs
    BY <1>2
  <2>3. QED
    BY <1>1, <2>1, <2>2 DEF Init, WorkersOK
<1>4. CallsOK
  <2>1. PICK f : f = Frame("init", "create", 0, 0, -1)
    OBVIOUS
  <2>2. /\ f \in Frames /\ FrameOK(f) /\ ~IsUncounted(f) /\ ~IsComing(f)
        /\ f.function = "init" /\ f.at = "create"
    BY <1>2, <2>1 DEF Frame, Frames, FrameOK, IsUncounted, IsComing
  <2>3. call = [c \in Callers |-> IF c = First THEN f ELSE NoCall]
    BY <2>1 DEF Init
  <2>4. \A c \in Callers : call[c] = f \/ call[c] = NoCall
    BY <2>3
  <2>5. call \in [Callers -> Frames] /\ \A c \in Callers : FrameOK(call[c])
    BY <2>2, <2>3, <2>4, NoCallIs
  <2>6. Uncounted = {} /\ Coming = {}
    BY <2>2, <2>4, NoCallIs DEF Uncounted, Coming, IsComing
  <2>7. lastJobId + Cardinality(Uncounted) = jobs /\ jobs + Cardinality(Coming) <= MaxJobs
    BY <1>2, <2>6, FS_EmptySet DEF Init
  <2>8. QED
    BY <2>5, <2>7 DEF Init, CallsOK
<1>5. RestOK /\ QueuesOK
  BY NoJobsAre DEF Init, RestOK, QueuesOK
<1>6. JobsInv
  <2>1. QueuedNumbers = {} /\ HandedOver = {} /\ RunNow = {}
    BY <1>1, NoJobsAre, QueuedItems DEF Init, QueuedNumbers, HandedOver, RunNow, NULL
  <2>2. 1..jobs = {} /\ ended = {} /\ overwritten = {}
    BY DEF Init
  <2>3. PlacesOK
    BY <2>1, <2>2 DEF PlacesOK, Places
  <2>4. QED
    BY <1>1, <2>3, NoJobsAre DEF Init, JobsInv, RunningOK
<1>7. BoundsInv
  <2>1. CreatorOK /\ GoneOK
    BY <1>1 DEF Init, CreatorOK, GoneOK
  <2>2. /\ attr.maxThreads = INFINITE_THREADS \/ 0 <= attr.maxThreads
        /\ attr.minThreads \in Nat /\ attr.maxThreads \in Int
    BY DEF Init, ThreadPoolAssumption, INFINITE_THREADS
  <2>3. totalThreads + Cardinality(Starting) = 0
    BY <1>1, FS_EmptySet DEF Init
  <2>4. call[First].function = "init" /\ First \in Callers /\ shutdown = "no"
    BY DEF Init, ThreadPoolAssumption, Frame
  <2>5. BoundsAreKept
    BY <2>2, <2>3, <2>4 DEF BoundsAreKept
  <2>6. QED
    BY <2>1, <2>5 DEF BoundsInv
<1>8. QED
  BY <1>3, <1>4, <1>5, <1>6, <1>7 DEF PoolInv

LEMMA ThreadStep ==
  ASSUME ThreadPoolAssumption, PoolInv, NEW w \in Workers, WorkerThread(w) \/ Done(w)
  PROVE  PoolInv'
<1>1. /\ WorkersOK /\ CallsOK /\ RestOK /\ QueuesOK /\ JobsInv /\ BoundsInv
      /\ JobTypes
  BY JobTypesAre DEF PoolInv
<1>2. WorkersOK'
  BY <1>1, ThreadWorkers
<1>3. CallsOK'
  BY <1>1, ThreadCalls
<1>4. RestOK'
  BY <1>1, ThreadRest
<1>5. JobsInv' /\ QueuesOK'
  BY <1>1, ThreadJobs
<1>6. BoundsInv'
  BY <1>1, <1>2, ThreadKeepsBounds
<1>7. QED
  BY <1>2, <1>3, <1>4, <1>5, <1>6 DEF PoolInv

LEMMA CallerStep ==
  ASSUME ThreadPoolAssumption, PoolInv, NEW c \in Callers, CallerSteps(c)
  PROVE  PoolInv'
<1>1. /\ WorkersOK /\ CallsOK /\ RestOK /\ QueuesOK /\ JobsInv /\ BoundsInv
      /\ JobTypes
  BY JobTypesAre DEF PoolInv
<1>2. WorkersOK'
  BY <1>1, CallersCreate, CreateWorkers
<1>3. CallsOK'
  BY <1>1, CallerCalls
<1>4. RestOK'
  BY <1>1, CallerRest
<1>5. JobsInv' /\ QueuesOK'
  BY <1>1, CallerJobs
<1>6. BoundsInv'
  <2>1. Limited(c) /\ Settled(c)
    BY <1>1, CallerBounds
  <2>2. QED
    BY <1>1, <1>2, <1>4, <2>1, CallerKeepsBounds
<1>7. QED
  BY <1>2, <1>3, <1>4, <1>5, <1>6 DEF PoolInv

LEMMA SameInv ==
  ASSUME PoolInv, UNCHANGED vars PROVE PoolInv'
<1>1. /\ Counted' = Counted /\ Persistent' = Persistent /\ Starting' = Starting
      /\ Running' = Running /\ Uncounted' = Uncounted /\ Coming' = Coming
  BY DEF vars, pool, works, threads, calls, history, Counted, Persistent, Starting,
         Running, Uncounted, Coming
<1>2. WorkersOK' /\ CallsOK'
  BY <1>1 DEF PoolInv, WorkersOK, CallsOK, vars, pool, works, threads, calls
<1>3. RestOK' /\ QueuesOK'
  BY DEF PoolInv, RestOK, QueuesOK, QueueType, vars, pool, works, threads, history
<1>4. JobsInv'
  BY <1>1, SameJobs
     DEF PoolInv, UnchangedJobs, vars, pool, works, threads, history
<1>5. BoundsInv'
  BY <1>1 DEF PoolInv, BoundsInv, CreatorOK, GoneOK, BoundsAreKept, vars, pool,
              works, threads, calls, history
<1>6. QED
  BY <1>2, <1>3, <1>4, <1>5 DEF PoolInv

LEMMA NextCases ==
  ASSUME Next
  PROVE  \/ \E w \in Workers : WorkerThread(w) \/ Done(w)
         \/ \E c \in Callers : CallerSteps(c)
BY DEF Next, CallerSteps

LEMMA Invariant == Spec => []PoolInv
<1>1. Init => PoolInv
  BY InitialInv, ThreadPoolAssumption
<1>2. PoolInv /\ [Next]_vars => PoolInv'
  BY ThreadPoolAssumption, NextCases, ThreadStep, CallerStep, SameInv
<1>3. QED
  BY <1>1, <1>2, PTL DEF Spec

\* The numbers of threads, of persistent threads and of jobs are what they
\* should be, whatever the threads and the callers do, and in whichever order
\* they get the mutex.
THEOREM TypeCorrect == Spec => []TypeOK
<1>1. PoolInv => TypeOK
  <2>1. SUFFICES ASSUME PoolInv PROVE TypeOK
    OBVIOUS
  <2>2. lastJobId \in 0..MaxJobs /\ jobs \in 0..MaxJobs
    BY <2>1, ThreadPoolAssumption, LastJobIdType DEF PoolInv
  <2>3. ended \subseteq Jobs /\ overwritten \subseteq Jobs
    <3>1. ended \subseteq 1..jobs /\ overwritten \subseteq 1..jobs
      BY <2>1 DEF PoolInv, JobsInv, PlacesOK, Places
    <3>2. 1..jobs \subseteq Jobs
      BY <2>2, ThreadPoolAssumption DEF Jobs, ThreadPoolAssumption
    <3>3. QED
      BY <3>1, <3>2
  <2>4. QED
    BY <2>1, <2>2, <2>3
       DEF TypeOK, PoolInv, WorkersOK, CallsOK, RestOK, QueuesOK, QueueType
<1>2. QED
  BY <1>1, Invariant, PTL

\* The pool keeps to its minimum and maximum of threads, as far as it does, and
\* when it has been destroyed no thread is left that would use it.
THEOREM BoundsCorrect == Spec => []BoundsAreKept
<1>1. PoolInv => BoundsAreKept
  BY DEF PoolInv, BoundsInv
<1>2. QED
  BY <1>1, Invariant, PTL

\* No job is lost or run twice, but for a persistent one that is overwritten.
THEOREM JobsCorrect == Spec => []EveryJobIsSomewhere
<1>1. PoolInv => EveryJobIsSomewhere
  BY ThreadPoolAssumption, JobTypesAre, JobsAreSomewhere DEF PoolInv
<1>2. QED
  BY <1>1, Invariant, PTL

\* The job that a thread begins to run, and what waits then.
LEMMA FirstTaken ==
  ASSUME ThreadPoolAssumption, JobTypes, JobsInv, NEW w \in Workers,
         WorkerThread(w) \/ Done(w),
         NEW j \in Queued, NEW v \in Workers, job'[v] = j.number,
         job[v] # j.number, NEW i \in Queued', i.priority = j.priority
  PROVE  j.number < i.number
<1>1. j.number \in Jobs /\ j.number # 0 /\ j.number \in QueuedNumbers
  BY QueuedItems, ItemsAre DEF JobTypes, ThreadPoolJob, Jobs, QueuedNumbers
<1>2. CASE Take(w)
  <2>1. PICK k : Taken(w, k)
    BY <1>2, TakeFirst
  <2>2. k \in Queued /\ job' = [job EXCEPT ![w] = k.number]
    BY <2>1 DEF Taken, Run
  <2>3. k.number = j.number
    BY <2>2 DEF JobTypes
  <2>4. k = j
    <3>1. QueueType(jobQ) /\ Ordered(jobQ) /\ k \in Items(jobQ) /\ j \in Items(jobQ)
      BY <2>2, QueuedItems DEF JobTypes, JobsInv
    <3>2. PICK p \in Priorities : \E x \in 1..Len(jobQ[p]) : jobQ[p][x] = k
      BY <3>1, ItemsAre
    <3>3. PICK x \in 1..Len(jobQ[p]) : jobQ[p][x] = k
      BY <3>2
    <3>4. PICK r \in Priorities : \E y \in 1..Len(jobQ[r]) : jobQ[r][y] = j
      BY <3>1, ItemsAre
    <3>5. PICK y \in 1..Len(jobQ[r]) : jobQ[r][y] = j
      BY <3>4
    <3>6. p = r /\ x = y
      BY <2>3, <3>1, <3>3, <3>5, NumbersDiffer
    <3>7. QED
      BY <3>3, <3>5, <3>6
  <2>5. i \in Queued /\ i.number # k.number
    <3>1. i \in Items(jobQ')
      BY DEF Queued, Items
    <3>2. QED
      BY <2>1, <3>1 DEF Taken
  <2>6. QED
    BY <2>1, <2>4, <2>5 DEF Taken
<1>3. CASE TakePersistent(w)
  <2>1. job' = [job EXCEPT ![w] = persistentJob.number] /\ persistentJob # NULL
    BY <1>3 DEF TakePersistent, Run
  <2>2. persistentJob.number = j.number
    BY <2>1 DEF JobTypes
  <2>3. persistentJob.number \in HandedOver
    BY <2>1, HandedOverIs
  <2>4. QED
    BY <1>1, <2>2, <2>3 DEF JobsInv, PlacesOK, Places
<1>4. CASE Done(w)
  BY <1>1, <1>4 DEF Done, JobTypes
<1>5. CASE Start(w) \/ Rest(w) \/ Exit(w)
  BY <1>5 DEF Start, Rest, Exit
<1>6. QED
  BY <1>2, <1>3, <1>4, <1>5 DEF WorkerThread

\* Jobs of the same priority are taken in the order in which they were added,
\* although starved ones are moved from queue to queue.
THEOREM OrderCorrect == Spec => TakenInOrder
<1>1. ASSUME PoolInv, [Next]_vars, NEW j \in Queued, NEW v \in Workers,
             job'[v] = j.number, job[v] # j.number,
             NEW i \in Queued', i.priority = j.priority
      PROVE  j.number < i.number
  <2>1. JobTypes /\ JobsInv
    BY <1>1, ThreadPoolAssumption, JobTypesAre DEF PoolInv
  <2>2. ASSUME NEW w \in Workers, WorkerThread(w) \/ Done(w)
        PROVE  j.number < i.number
    BY <1>1, <2>1, <2>2, ThreadPoolAssumption, FirstTaken
  <2>3. ASSUME job' = job PROVE FALSE
    BY <1>1, <2>3
  <2>4. ASSUME NEW c \in Callers, CallerSteps(c)
        PROVE  FALSE
    BY <2>3, <2>4, CallersCreate DEF Creates
  <2>5. CASE UNCHANGED vars
    BY <2>3, <2>5 DEF vars, threads
  <2>6. CASE Next
    BY <2>2, <2>4, <2>6, NextCases
  <2>7. QED
    BY <1>1, <2>5, <2>6
<1>2. PoolInv /\ [Next]_vars =>
        [\A j \in Queued, w \in Workers :
           job'[w] = j.number /\ job[w] # j.number =>
             \A i \in Queued' : i.priority = j.priority => j.number < i.number]_vars
  BY <1>1
<1>3. QED
  BY <1>2, Invariant, PTL DEF Spec, TakenInOrder
=============================================================================

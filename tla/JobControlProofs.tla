-------------------------- MODULE JobControlProofs --------------------------
(***************************************************************************)
(* Theorems about JobControl, for any number of pids, launches and jobs    *)
(* kept: its types; that a job number names one job; that every process    *)
(* is counted once; that no job whose status a script may still ask for is *)
(* forgotten; that a module's child is left to it; that a report leaves no *)
(* finished job; that a wait answers the status its job ended with.        *)
(*                                                                         *)
(* From the counting on they need `Steady': no pid is handed out again     *)
(* while the table names it, and under job control no process leaves its   *)
(* group and no pipeline has a process between the first and the last,     *)
(* which the table does not name (job.c:350).  The last two say what else. *)
(***************************************************************************)
EXTENDS JobControl, FiniteSetTheorems, SequenceTheorems, WellFoundedInduction, TLAPS

-----------------------------------------------------------------------------
(* What the operators on the table and the process table return. *)

\* The values that stand for nothing are values.
LEMMA Sets ==
  /\ 0 \in St /\ StopSt \in St /\ NotChild \in St
  /\ NoSt \in Answer /\ St \subseteq Answer /\ Status \subseteq St
  /\ NoPid \in Maybe /\ Pid \subseteq Maybe
  /\ 0 \in Owner /\ Module \in Owner /\ Launch \subseteq Owner
  BY ConstantsAssumption
     DEF St, StopSt, NotChild, NoSt, Answer, Maybe, Owner, Module, Launch

\* Writing one entry of the table keeps it a table.
LEMMA UpdateType ==
  ASSUME NEW js \in Seq(Job), NEW k, NEW j, k \in DOMAIN js => j \in Job
  PROVE  /\ [js EXCEPT ![k] = j] \in Seq(Job)
         /\ Len([js EXCEPT ![k] = j]) = Len(js)
         /\ DOMAIN [js EXCEPT ![k] = j] = DOMAIN js
<1> DEFINE g == [js EXCEPT ![k] = j]
<1>1. Len(js) \in Nat /\ DOMAIN js = 1..Len(js) /\ js \in [1..Len(js) -> Job]
  OBVIOUS
<1>2. g \in [1..Len(js) -> Job]
  BY <1>1
<1>3. g \in Seq(Job)
  BY <1>1, <1>2
<1>4. DOMAIN g = 1..Len(js)
  BY <1>2
<1>5. Len(g) = Len(js)
  BY <1>1, <1>3, <1>4
<1>6. QED
  BY <1>1, <1>3, <1>4, <1>5

\* jc_drop's swap leaves a table of jobs that were in it.
LEMMA WithoutType ==
  ASSUME NEW js \in Seq(Job), NEW k \in DOMAIN js
  PROVE  /\ Without(js, k) \in Seq(Job)
         /\ Len(Without(js, k)) = Len(js) - 1
         /\ DOMAIN Without(js, k) = 1..(Len(js) - 1)
         /\ \A i \in 1..(Len(js) - 1) :
              Without(js, k)[i] = IF i = k THEN js[Len(js)] ELSE js[i]
<1> DEFINE n == Len(js) - 1
           f(i) == IF i = k THEN js[Len(js)] ELSE js[i]
<1>1. Len(js) \in Nat /\ Len(js) # 0 /\ DOMAIN js = 1..Len(js) /\ n \in Nat
  OBVIOUS
<1>2. \A i \in 1..n : f(i) \in Job
  BY <1>1
<1>3. [i \in 1..n |-> f(i)] \in [1..n -> Job]
  BY <1>2
<1>4. [i \in 1..n |-> f(i)] \in Seq(Job)
  BY <1>1, <1>3
<1>5. QED
  BY <1>1, <1>4 DEF Without

\* Waiting, continuing and stopping keep a process record a process record.
LEMMA ProcType ==
  ASSUME TypeOK
  PROVE  /\ Free \in Process
         /\ \A p \in Pid : Taken(p) \in Process
         /\ \A S : Continued(S) \in [Pid -> Process]
         /\ \A S : Halted(S) \in [Pid -> Process]
<1>1. Free \in Process
  BY Sets DEF Free, Process
<1>2. ASSUME NEW p \in Pid PROVE proc[p] \in Process
  BY <1>2 DEF TypeOK
<1>3. \A p \in Pid : Taken(p) \in Process
  BY <1>1, <1>2 DEF Taken, Process
<1>4. ASSUME NEW p \in Pid
      PROVE  /\ [proc[p] EXCEPT !.ph = "run", !.told = FALSE] \in Process
             /\ [proc[p] EXCEPT !.ph = "stop", !.told = FALSE] \in Process
  <2> DEFINE r == proc[p]
  <2>1. r \in Process
    BY <1>2
  <2> HIDE DEF r
  <2>2. [r EXCEPT !.ph = "run", !.told = FALSE] \in Process
    BY <2>1 DEF Process
  <2>3. [r EXCEPT !.ph = "stop", !.told = FALSE] \in Process
    BY <2>1 DEF Process
  <2>4. QED
    BY <2>2, <2>3 DEF r
<1>5. \A S : Continued(S) \in [Pid -> Process]
  BY <1>2, <1>4 DEF Continued
<1>6. \A S : Halted(S) \in [Pid -> Process]
  BY <1>2, <1>4 DEF Halted
<1>7. QED
  BY <1>1, <1>3, <1>5, <1>6

\* The job jc_new makes is a job.
LEMMA FreshType ==
  ASSUME TypeOK, launched < MaxLaunch, NEW bg \in BOOLEAN,
         NEW ps \in Seq(Maybe), ps # <<>>
  PROVE  /\ Fresh(ps, bg) \in Job
         /\ Fresh(ps, bg).id \in Nat \ {0}
<1>1. Len(ps) \in Nat /\ ps[1] \in Maybe /\ ps[Len(ps)] \in Maybe
  OBVIOUS
<1>2. launched + 1 \in Launch
  BY ConstantsAssumption DEF TypeOK, Launch
<1>3. QED
  BY <1>1, <1>2, Sets DEF Fresh, Job, TypeOK

\* A wait's bookkeeping keeps a job a job.
LEMMA AfterType ==
  ASSUME NEW j \in Job, NEW p
  PROVE  /\ After(j, p) \in Job
         /\ [After(j, p) EXCEPT !.st = StopSt] \in Job
  BY Sets DEF After, Job, StopSt

\* jc_poll leaves a table of jobs with the same numbers, and processes.
LEMMA PollType ==
  ASSUME TypeOK, Poll
  PROVE  /\ jobs' \in Seq(Job)
         /\ Len(jobs') = Len(jobs)
         /\ \A k \in DOMAIN jobs : jobs'[k].id = jobs[k].id
         /\ proc' \in [Pid -> Process]
<1>1. Len(jobs) \in Nat /\ DOMAIN jobs = 1..Len(jobs)
  BY DEF TypeOK
<1>2. PICK late \in BOOLEAN : jobs' = [k \in DOMAIN jobs |-> Polled(k, late)]
  BY DEF Poll
<1>3. ASSUME NEW k \in DOMAIN jobs
      PROVE  Polled(k, late) \in Job /\ Polled(k, late).id = jobs[k].id
  <2> DEFINE j == jobs[k]
             stops == {p \in Claim(k) : Stopped(p)}
             exits == Claim(k) \ stops
             nd == j.ndone + Cardinality(exits)
             over == exits # {} /\ nd >= j.np
             st == PolledStatus(j, exits, stops, late)
  <2>1. j \in Job
    BY <1>1 DEF TypeOK
  <2>2. exits \subseteq Pid
    BY DEF Claim, News, Who, Child
  <2>3. Cardinality(exits) \in Nat
    BY <2>2, ConstantsAssumption, FS_Subset, FS_CardinalityType
  <2>4. nd \in Nat
    BY <2>1, <2>3 DEF Job
  <2>5. st \in St
    <3>1. ASSUME NEW p \in Pid PROVE proc[p].st \in St
      BY DEF TypeOK, Process
    <3>2. j.st \in St
      BY <2>1 DEF Job
    <3> HIDE DEF j, stops, exits
    <3>3. QED
      BY <2>2, <3>1, <3>2, Sets DEF PolledStatus
  <2> DEFINE state == IF over THEN "done" ELSE IF stops # {} THEN "stop" ELSE j.state
             note == j.note /\ ~over /\ (stops = {} \/ j.state = "stop")
  <2>6. state \in {"run", "stop", "done"}
    BY <2>1 DEF Job
  <2>7. note \in BOOLEAN
    OBVIOUS
  <2>8. Polled(k, late) = [j EXCEPT !.ndone = nd, !.state = state, !.st = st,
                                    !.note = note]
    BY DEF Polled
  <2> HIDE DEF j, stops, exits, nd, over, st, state, note
  <2>9. [j EXCEPT !.ndone = nd, !.state = state, !.st = st, !.note = note] \in Job
    BY <2>1, <2>4, <2>5, <2>6, <2>7 DEF Job
  <2>10. Polled(k, late).id = j.id
    BY <2>1, <2>8 DEF Job
  <2>11. QED
    BY <2>8, <2>9, <2>10 DEF j
<1>4. jobs' \in [1..Len(jobs) -> Job]
  BY <1>1, <1>2, <1>3
<1>5. jobs' \in Seq(Job) /\ Len(jobs') = Len(jobs)
  BY <1>1, <1>4
<1>6. \A k \in DOMAIN jobs : jobs'[k].id = jobs[k].id
  BY <1>1, <1>2, <1>3
<1>7. proc' \in [Pid -> Process]
  BY ProcType DEF Poll, TypeOK
<1>8. QED
  BY <1>5, <1>6, <1>7

\* A job number that is in the table is found where it is.
LEMMA AtType ==
  ASSUME NEW id, HasJob(id)
  PROVE  At(id) \in DOMAIN jobs /\ jobs[At(id)].id = id
  BY DEF HasJob, At

\* jc_drop on a table of jobs.
LEMMA DropType ==
  ASSUME TypeOK, NEW js \in Seq(Job), NEW k \in DOMAIN js, Drop(js, k)
  PROVE  /\ jobs' \in Seq(Job)
         /\ jid' = jid /\ jcur' \in Nat /\ jprv' = jprv
  BY WithoutType DEF Drop, TypeOK

\* The locals keep their type under every update the code makes.
LEMMA NoWorkType == NoWork \in Work
  BY Sets DEF NoWork, Work, Ops

\* Setting one local to a value of its type.
LEMMA WorkType ==
  ASSUME NEW v \in Work
  PROVE  /\ \A op \in Ops :
               [v EXCEPT !.op = op] \in Work
         /\ \A op \in Ops, id \in Nat :
               [v EXCEPT !.op = op, !.id = id] \in Work
         /\ \A op \in Ops, id \in Nat, own \in Owner :
               [v EXCEPT !.op = op, !.id = id, !.own = own] \in Work
         /\ \A own \in Owner :
               [v EXCEPT !.own = own] \in Work
         /\ \A p \in Pid, own \in Owner :
               [v EXCEPT !.pid = p, !.own = own] \in Work
         /\ \A i \in Nat \ {0} :
               [v EXCEPT !.i = i] \in Work
         /\ \A st \in St :
               [v EXCEPT !.st = st] \in Work
         /\ \A st \in Answer :
               [v EXCEPT !.ans = st] \in Work
         /\ \A own \in Owner, st \in Answer :
               [v EXCEPT !.own = own, !.ans = st] \in Work
         /\ \A own \in Owner, st \in Answer :
               [v EXCEPT !.ans = st, !.own = own] \in Work
         /\ \A own \in Owner, st \in St :
               [v EXCEPT !.own = own, !.st = st] \in Work
<1>1. \A op \in Ops :
       [v EXCEPT !.op = op] \in Work
  BY DEF Work
<1>2. \A op \in Ops, id \in Nat :
       [v EXCEPT !.op = op, !.id = id] \in Work
  BY DEF Work
<1>3. \A op \in Ops, id \in Nat, own \in Owner :
       [v EXCEPT !.op = op, !.id = id, !.own = own] \in Work
  BY DEF Work
<1>4. \A own \in Owner :
       [v EXCEPT !.own = own] \in Work
  BY DEF Work
<1>5. \A p \in Pid, own \in Owner :
       [v EXCEPT !.pid = p, !.own = own] \in Work
  BY Sets DEF Work
<1>6. \A i \in Nat \ {0} :
       [v EXCEPT !.i = i] \in Work
  BY DEF Work
<1>7. \A st \in St :
       [v EXCEPT !.st = st] \in Work
  BY DEF Work
<1>8. \A st \in Answer :
       [v EXCEPT !.ans = st] \in Work
  BY DEF Work
<1>9. \A own \in Owner, st \in Answer :
       [v EXCEPT !.own = own, !.ans = st] \in Work
  BY DEF Work
<1>10. \A own \in Owner, st \in Answer :
       [v EXCEPT !.ans = st, !.own = own] \in Work
  BY DEF Work
<1>11. \A own \in Owner, st \in St :
       [v EXCEPT !.own = own, !.st = st] \in Work
  BY DEF Work
<1>12. QED
  BY <1>1, <1>2, <1>3, <1>4, <1>5, <1>6, <1>7, <1>8, <1>9, <1>10, <1>11

\* Settling a launch keeps the history's type.
LEMMA SettledType ==
  ASSUME TypeOK, NEW u, NEW how \in {"told", "disowned"}, Settled(u, how)
  PROVE  hist' \in [Launch -> Past]
<1>1. ASSUME NEW v \in Launch PROVE [hist[v] EXCEPT !.owed = how] \in Past
  <2> DEFINE r == hist[v]
  <2>1. r \in Past
    BY DEF TypeOK
  <2> HIDE DEF r
  <2>2. [r EXCEPT !.owed = how] \in Past
    BY <2>1 DEF Past
  <2>3. QED
    BY <2>2 DEF r
<1>2. QED
  BY <1>1 DEF Settled, TypeOK

\* Starting processes keeps the kernel's and the history's types.
LEMMA StartedType ==
  ASSUME TypeOK, launched < MaxLaunch, NEW ps \in Seq(Pid), ps # <<>>, Started(ps)
  PROVE  /\ proc' \in [Pid -> Process]
         /\ hist' \in [Launch -> Past]
         /\ launched' \in 0..MaxLaunch
<1>1. ps[1] \in Pid /\ ps[Len(ps)] \in Pid
  OBVIOUS
<1>2. launched + 1 \in Launch /\ launched + 1 \in Owner /\ launched + 1 \in 0..MaxLaunch
  BY ConstantsAssumption DEF TypeOK, Launch, Owner, Module
<1>3. proc' \in [Pid -> Process]
  BY <1>1, <1>2, Sets DEF Started, TypeOK, Process
<1>4. hist' \in [Launch -> Past]
  <2> DEFINE r == hist[launched + 1]
  <2>1. r \in Past
    BY <1>2 DEF TypeOK
  <2> HIDE DEF r
  <2>2. [r EXCEPT !.tail = ps[Len(ps)]] \in Past
    BY <2>1, <1>1, Sets DEF Past
  <2>3. hist' = [hist EXCEPT ![launched + 1] = [r EXCEPT !.tail = ps[Len(ps)]]]
    BY DEF Started, r
  <2>4. QED
    BY <2>2, <2>3 DEF TypeOK
<1>5. QED
  BY <1>2, <1>3, <1>4 DEF Started
-----------------------------------------------------------------------------
(* Every step keeps the types and the job a wait holds. *)

\* A launch that has started still fits under the bound.
Room == pc \in {"tidy", "fork"} => launched < MaxLaunch

Typed == TypeOK /\ HeldJob /\ Room

\* A step of a child, the kernel or a module.
LEMMA KernelTyped ==
  ASSUME Typed, Kernel
  PROVE  Typed'
<1>1. UNCHANGED <<jobs, jid, jcur, jprv, pc, w, launched>>
  BY DEF Kernel, KExit, KStop, KCont, KLeave, ModFork, ModReap, KSignal, shell
<1>2. proc' \in [Pid -> Process] /\ hist' \in [Launch -> Past]
      /\ chld' \in BOOLEAN /\ intr' \in BOOLEAN /\ sig' \in BOOLEAN
  <2>1. ASSUME NEW p \in Pid, NEW s \in Status, KExit(p, s)
        PROVE  /\ proc' \in [Pid -> Process] /\ hist' \in [Launch -> Past]
               /\ chld' \in BOOLEAN /\ intr' \in BOOLEAN /\ sig' \in BOOLEAN
    <3>1. s \in St /\ proc[p] \in Process
      BY ConstantsAssumption DEF Typed, TypeOK
    <3>2. proc' \in [Pid -> Process]
      <4> DEFINE r == proc[p]
      <4>1. proc' = [proc EXCEPT ![p] =
                       [r EXCEPT !.ph = "zombie", !.st = s, !.told = FALSE]]
        BY <2>1 DEF KExit, Typed, TypeOK
      <4>2. r \in Process
        BY <3>1
      <4> HIDE DEF r
      <4>3. [r EXCEPT !.ph = "zombie", !.st = s, !.told = FALSE] \in Process
        BY <3>1, <4>2 DEF Process
      <4>4. QED
        BY <4>1, <4>3 DEF Typed, TypeOK
    <3>3. hist' \in [Launch -> Past]
      <4>1. ASSUME NEW u \in Launch PROVE [hist[u] EXCEPT !.st = s] \in Past
        <5> DEFINE r == hist[u]
        <5>1. r \in Past
          BY DEF Typed, TypeOK
        <5> HIDE DEF r
        <5>2. [r EXCEPT !.st = s] \in Past
          BY <3>1, <5>1, Sets DEF Past
        <5>3. QED
          BY <5>2 DEF r
      <4>2. QED
        BY <2>1, <4>1 DEF KExit, Typed, TypeOK
    <3>4. QED
      BY <2>1, <3>2, <3>3 DEF KExit, Sigchld, Typed, TypeOK
  <2>2. ASSUME NEW p \in Pid, KStop(p) \/ KCont(p)
        PROVE  /\ proc' \in [Pid -> Process] /\ hist' \in [Launch -> Past]
               /\ chld' \in BOOLEAN /\ intr' \in BOOLEAN /\ sig' \in BOOLEAN
    BY <2>2, ProcType DEF KStop, KCont, Sigchld, Typed, TypeOK
  <2>3. ASSUME NEW p \in Pid, KLeave(p) \/ ModFork(p) \/ ModReap(p)
        PROVE  /\ proc' \in [Pid -> Process] /\ hist' \in [Launch -> Past]
               /\ chld' \in BOOLEAN /\ intr' \in BOOLEAN /\ sig' \in BOOLEAN
    <3>1. proc[p] \in Process /\ Module \in Owner
      BY ConstantsAssumption DEF Typed, TypeOK, Owner, Module
    <3>2. CASE KLeave(p)
      BY <3>1, <3>2, Sets DEF KLeave, Typed, TypeOK, Process
    <3>3. CASE ModFork(p)
      BY <3>1, <3>3, Sets DEF ModFork, Typed, TypeOK, Process
    <3>4. CASE ModReap(p)
      BY <3>4, ProcType DEF ModReap, Typed, TypeOK
    <3>5. QED
      BY <2>3, <3>2, <3>3, <3>4
  <2>4. CASE KSignal
    BY <2>4 DEF KSignal, Waiting, Typed, TypeOK
  <2>5. QED
    BY <2>1, <2>2, <2>3, <2>4 DEF Kernel
<1>3. TypeOK'
  BY <1>1, <1>2 DEF Typed, TypeOK
<1>4. HeldJob'
  BY <1>1 DEF Typed, HeldJob, HasJob, Waiting
<1>5. Room'
  BY <1>1 DEF Typed, Room
<1>6. QED
  BY <1>3, <1>4, <1>5 DEF Typed

\* Launching a job, in the background or the foreground.
LEMMA LaunchTyped ==
  ASSUME Typed,
         \/ Background \/ TidyForget \/ TidyEnd \/ ForkFails
         \/ \E p \in Pid : Fork(p)
         \/ \E ps \in Pipelines : Foreground(ps)
  PROVE  Typed'
<1> USE DEF shell
<1>1. CASE Background
  <2>1. jobs' \in Seq(Job) /\ proc' \in [Pid -> Process]
    BY <1>1, PollType DEF Background, Typed, TypeOK
  <2>2. pc' \in {"fork", "tidy"}
    BY <1>1 DEF Background
  <2>3. QED
    BY <1>1, <2>1, <2>2 DEF Background, Ready, Typed, TypeOK, HeldJob, Waiting, PC, Room
<1>2. CASE TidyForget
  <2>1. PICK k \in DoneJobs : Drop(jobs, k)
    BY <1>2 DEF TidyForget
  <2>2. jobs' \in Seq(Job) /\ jid' \in Nat /\ jcur' \in Nat /\ jprv' \in Nat
    BY <2>1, DropType DEF DoneJobs, Typed, TypeOK
  <2>3. QED
    BY <1>2, <2>2 DEF TidyForget, Typed, TypeOK, HeldJob, Waiting, Room
<1>3. CASE TidyEnd
  BY <1>3 DEF TidyEnd, Typed, TypeOK, HeldJob, Waiting, PC, Room
<1>4. CASE ForkFails
  <2>1. launched < MaxLaunch
    BY <1>4 DEF ForkFails, Typed, Room
  <2> DEFINE ps == <<NoPid>>
  <2>2. ps \in Seq(Maybe) /\ ps # <<>>
    BY Sets
  <2>3. jid' = Fresh(ps, TRUE).id
    BY <1>4 DEF ForkFails
  <2> HIDE DEF ps
  <2>4. jid' \in Nat
    BY <2>1, <2>2, <2>3, FreshType DEF Typed
  <2>5. launched + 1 \in 0..MaxLaunch
    BY <2>1, ConstantsAssumption DEF Typed, TypeOK
  <2>6. QED
    BY <1>4, <2>4, <2>5 DEF ForkFails, Typed, TypeOK, HeldJob, Waiting, PC, Room
<1>5. ASSUME NEW p \in Pid, Fork(p) PROVE Typed'
  <2>1. launched < MaxLaunch
    BY <1>5 DEF Fork, Typed, Room
  <2> DEFINE ps == <<p>>
             j == Fresh(ps, TRUE)
  <2>2. ps \in Seq(Pid) /\ ps \in Seq(Maybe) /\ ps # <<>>
    BY Sets
  <2>3. Started(ps) /\ Added(j)
    BY <1>5 DEF Fork
  <2> HIDE DEF ps
  <2>4. j \in Job /\ j.id \in Nat
    BY <2>1, <2>2, FreshType DEF Typed
  <2>5. /\ proc' \in [Pid -> Process] /\ hist' \in [Launch -> Past]
        /\ launched' \in 0..MaxLaunch
    BY <2>1, <2>2, <2>3, StartedType DEF Typed
  <2> HIDE DEF j
  <2>6. jobs' \in Seq(Job) /\ jid' \in Nat /\ jprv' \in Nat /\ jcur' \in Nat
    BY <2>3, <2>4 DEF Added, Typed, TypeOK
  <2>7. QED
    BY <1>5, <2>5, <2>6 DEF Fork, Typed, TypeOK, HeldJob, Waiting, PC, Room
<1>6. ASSUME NEW ps \in Pipelines, Foreground(ps) PROVE Typed'
  <2>1. PICK n \in 1..MaxStages : ps \in [1..n -> Pid]
    BY DEF Pipelines
  <2>2. ps \in Seq(Pid) /\ ps \in Seq(Maybe) /\ ps # <<>>
    BY <2>1, Sets
  <2>3. launched < MaxLaunch
    BY <1>6 DEF Foreground
  <2> DEFINE j == Fresh(ps, FALSE)
  <2>4. j \in Job /\ j.id \in Nat
    BY <2>2, <2>3, FreshType DEF Typed
  <2>5. /\ proc' \in [Pid -> Process] /\ hist' \in [Launch -> Past]
        /\ launched' \in 0..MaxLaunch
    BY <1>6, <2>2, <2>3, StartedType DEF Foreground, Typed
  <2> HIDE DEF j
  <2>6. Added(j)
    BY <1>6 DEF Foreground, j
  <2>7. jobs' \in Seq(Job) /\ jid' \in Nat /\ jprv' \in Nat /\ jcur' \in Nat
    BY <2>4, <2>6 DEF Added, Typed, TypeOK
  <2>8. Len(jobs) + 1 \in DOMAIN jobs' /\ jobs'[Len(jobs) + 1] = j
    BY <2>4, <2>6 DEF Added, Typed, TypeOK
  <2>9. PICK op \in {"fg", "pipe"} :
          w' = [NoWork EXCEPT !.op = op, !.id = j.id, !.own = launched + 1]
    BY <1>6 DEF Foreground, j
  <2>10. launched + 1 \in Owner
    BY <2>3, ConstantsAssumption DEF Owner, Module, Typed, TypeOK
  <2>11. w' \in Work
    BY <2>4, <2>9, <2>10, NoWorkType, WorkType DEF Ops
  <2>12. w'.id = j.id /\ w'.op # "pid"
    BY <2>9 DEF NoWork
  <2>13. HeldJob'
    BY <2>8, <2>12 DEF HeldJob, HasJob
  <2>14. QED
    BY <1>6, <2>5, <2>7, <2>11, <2>13 DEF Foreground, Typed, TypeOK, PC, Room
<1>7. QED
  BY <1>1, <1>2, <1>3, <1>4, <1>5, <1>6

\* Changing one job's record, and nothing that tells jobs apart.
LEMMA HeldKept ==
  ASSUME TypeOK, NEW k \in DOMAIN jobs, NEW j, j.id = jobs[k].id, j \in Job,
         jobs' = [jobs EXCEPT ![k] = j]
  PROVE  /\ jobs' \in Seq(Job)
         /\ DOMAIN jobs' = DOMAIN jobs
         /\ \A h \in DOMAIN jobs : jobs'[h].id = jobs[h].id
  BY UpdateType DEF TypeOK

\* Reaping or stopping one process.
LEMMA TakenTyped ==
  ASSUME TypeOK, NEW p \in Pid, proc' = [proc EXCEPT ![p] = Taken(p)]
  PROVE  proc' \in [Pid -> Process]
  BY ProcType DEF TypeOK

\* What the kernel table says of a process has its type.
LEMMA StatusType ==
  ASSUME TypeOK, NEW p \in Pid
  PROVE  proc[p].st \in St /\ proc[p].own \in Owner
  BY DEF TypeOK, Process

\* fg's wait for its job.
LEMMA FgTyped ==
  ASSUME Typed, \/ \E p \in Pid : FgReap(p)
                \/ FgEnd
  PROVE  Typed'
<1> USE DEF shell
<1> DEFINE k == At(w.id)
<1>1. HasJob(w.id)
  BY DEF FgReap, FgEnd, Typed, HeldJob, Waiting
<1>2. k \in DOMAIN jobs /\ jobs[k].id = w.id /\ jobs[k] \in Job
  BY <1>1, AtType DEF Typed, TypeOK
<1>3. w \in Work /\ w.st \in St
  BY DEF Typed, TypeOK, Work
<1>4. ASSUME NEW p \in Pid, FgReap(p) PROVE Typed'
  <2>1. After(jobs[k], p) \in Job /\ After(jobs[k], p).id = jobs[k].id
    BY <1>2, AfterType DEF After, Job
  <2>2. jobs' = [jobs EXCEPT ![k] = After(jobs[k], p)]
    BY <1>2, <1>4 DEF FgReap, Typed, TypeOK
  <2>3. jobs' \in Seq(Job) /\ k \in DOMAIN jobs' /\ jobs'[k].id = w.id
    BY <1>2, <2>1, <2>2, HeldKept DEF Typed
  <2> DEFINE st == IF Stopped(p) THEN StopSt
                   ELSE IF p = jobs[k].last THEN proc[p].st ELSE w.st
  <2>4. st \in St
    BY <1>3, StatusType, Sets DEF Typed
  <2>5. w' = [w EXCEPT !.st = st]
    BY <1>3, <1>4 DEF FgReap, Work
  <2> HIDE DEF st
  <2>6. w' \in Work /\ w'.id = w.id /\ w'.op = w.op
    BY <1>3, <2>4, <2>5, WorkType DEF Work
  <2>7. proc' \in [Pid -> Process]
    BY <1>4, TakenTyped DEF FgReap, Typed
  <2>8. TypeOK'
    BY <1>4, <2>3, <2>6, <2>7 DEF FgReap, Typed, TypeOK
  <2>9. HeldJob'
    <3>1. w'.op # "pid"
      BY <1>4, <2>6 DEF FgReap
    <3> HIDE DEF k
    <3>2. QED
      BY <2>3, <2>6, <3>1 DEF HeldJob, HasJob
  <2>10. Room'
    BY <1>4 DEF FgReap, Typed, Room
  <2>11. QED
    BY <2>8, <2>9, <2>10 DEF Typed
<1>5. CASE FgEnd
  <2>1. UNCHANGED <<proc, chld, intr, sig, launched>> /\ pc' = "end"
    BY <1>5 DEF FgEnd
  <2>2. CASE jobs[k].state = "stop"
    <3> DEFINE j == [jobs[k] EXCEPT !.bg = TRUE, !.st = w.st, !.note = TRUE]
    <3>1. jobs' = [jobs EXCEPT ![k] = j] /\ UNCHANGED <<shell, w, hist>>
      BY <1>2, <1>5, <2>2 DEF FgEnd, Typed, TypeOK
    <3>2. j \in Job
      BY <1>2, <1>3 DEF Job
    <3> HIDE DEF j
    <3>3. jobs' \in Seq(Job)
      BY <1>2, <3>1, <3>2, UpdateType DEF Typed, TypeOK
    <3>4. QED
      BY <2>1, <3>1, <3>3 DEF Typed, TypeOK, PC, HeldJob, Waiting, Room
  <2>3. CASE jobs[k].state # "stop"
    <3>1. Drop(jobs, k) /\ Settled(jobs[k].uid, "told") /\ w' = [w EXCEPT !.ans = w.st]
      BY <1>5, <2>3 DEF FgEnd
    <3>2. jobs' \in Seq(Job) /\ jid' \in Nat /\ jcur' \in Nat /\ jprv' \in Nat
      BY <1>2, <3>1, DropType DEF Typed, TypeOK
    <3>3. hist' \in [Launch -> Past]
      BY <3>1, SettledType DEF Typed
    <3>4. w' \in Work
      BY <1>3, <3>1, WorkType, Sets
    <3>5. QED
      BY <2>1, <3>2, <3>3, <3>4 DEF Typed, TypeOK, PC, HeldJob, Waiting, Room
  <2>4. QED
    BY <2>2, <2>3
<1>6. QED
  BY <1>4, <1>5

\* fg, bg, kill and disown.
LEMMA CommandTyped ==
  ASSUME Typed, NEW id \in Launch,
         \/ Command \/ CmdFg(id) \/ CmdBg(id) \/ CmdDisown(id)
         \/ \E s \in {"TERM", "STOP", "CONT"} : CmdKill(id, s)
  PROVE  Typed'
<1> USE DEF shell
<1> DEFINE k == At(id)
<1>1. CASE Command
  BY <1>1 DEF Command, Typed, TypeOK, PC, HeldJob, Waiting, Room
<1>2. ASSUME HasJob(id)
      PROVE  /\ k \in DOMAIN jobs /\ jobs[k].id = id /\ jobs[k] \in Job
             /\ id \in Nat /\ jobs[k].uid \in Owner
  <2>1. k \in DOMAIN jobs /\ jobs[k].id = id
    BY <1>2, AtType
  <2> HIDE DEF k
  <2>2. jobs[k] \in Job
    BY <2>1 DEF Typed, TypeOK
  <2>3. id \in Nat /\ jobs[k].uid \in Owner
    BY <2>2, Sets DEF Job, Launch
  <2>4. QED
    BY <2>1, <2>2, <2>3
<1>3. CASE CmdFg(id)
  <2> DEFINE j == [jobs[k] EXCEPT !.state = "run", !.bg = FALSE, !.note = FALSE]
  <2>1. /\ k \in DOMAIN jobs /\ jobs[k].id = id /\ jobs[k] \in Job
        /\ id \in Nat /\ jobs[k].uid \in Owner
    BY <1>2, <1>3 DEF CmdFg, Resumable
  <2>2. jobs' = [jobs EXCEPT ![k] = j]
    BY <1>3, <2>1 DEF CmdFg, Typed, TypeOK
  <2>3. j \in Job /\ j.id = jobs[k].id
    BY <2>1 DEF Job
  <2> HIDE DEF j
  <2>4. jobs' \in Seq(Job) /\ k \in DOMAIN jobs' /\ jobs'[k].id = id
    BY <2>1, <2>2, <2>3, HeldKept DEF Typed
  <2>5. proc' \in [Pid -> Process]
    BY <1>3, ProcType DEF CmdFg, Typed
  <2>6. w' = [NoWork EXCEPT !.op = "fg", !.id = id, !.own = jobs[k].uid]
    BY <1>3 DEF CmdFg
  <2>7. "fg" \in Ops
    BY DEF Ops
  <2>8. w' \in Work
    BY <2>1, <2>6, <2>7, NoWorkType, WorkType
  <2>9. w'.id = id /\ w'.op # "pid"
    BY <2>6 DEF NoWork
  <2>10. HeldJob'
    <3> HIDE DEF k
    <3>1. QED
      BY <2>4, <2>9 DEF HeldJob, HasJob
  <2>11. QED
    BY <1>3, <2>1, <2>4, <2>5, <2>8, <2>10 DEF CmdFg, Typed, TypeOK, PC, Room
<1>4. CASE CmdBg(id)
  <2> DEFINE j == [jobs[k] EXCEPT !.state = "run", !.bg = TRUE, !.note = TRUE]
  <2>1. k \in DOMAIN jobs /\ jobs[k].id = id /\ jobs[k] \in Job
    BY <1>2, <1>4 DEF CmdBg, Resumable
  <2>2. jobs' = [jobs EXCEPT ![k] = j]
    BY <1>4, <2>1 DEF CmdBg, Typed, TypeOK
  <2>3. j \in Job /\ j.id = jobs[k].id
    BY <2>1 DEF Job
  <2> HIDE DEF j
  <2>4. jobs' \in Seq(Job)
    BY <2>1, <2>2, <2>3, HeldKept DEF Typed
  <2>5. proc' \in [Pid -> Process]
    BY <1>4, ProcType DEF CmdBg, Typed
  <2>6. QED
    BY <1>4, <2>4, <2>5 DEF CmdBg, Typed, TypeOK, PC, HeldJob, Waiting, Room
<1>5. CASE CmdDisown(id)
  <2>1. k \in DOMAIN jobs /\ Drop(jobs, k) /\ Settled(jobs[k].uid, "disowned")
    BY <1>2, <1>5 DEF CmdDisown
  <2>2. jobs' \in Seq(Job) /\ jid' \in Nat /\ jcur' \in Nat /\ jprv' \in Nat
    BY <2>1, DropType DEF Typed, TypeOK
  <2>3. hist' \in [Launch -> Past]
    BY <2>1, SettledType DEF Typed
  <2>4. QED
    BY <1>5, <2>2, <2>3 DEF CmdDisown, Typed, TypeOK, PC, HeldJob, Waiting, Room
<1>6. ASSUME NEW s, CmdKill(id, s) PROVE Typed'
  <2>1. k \in DOMAIN jobs /\ jobs[k] \in Job
    BY <1>2, <1>6 DEF CmdKill
  <2> DEFINE j == [jobs[k] EXCEPT !.state = "run"]
  <2>2. j \in Job
    BY <2>1 DEF Job
  <2>3. jobs' = jobs \/ jobs' = [jobs EXCEPT ![k] = j]
    BY <1>6, <2>1 DEF CmdKill, Typed, TypeOK
  <2> HIDE DEF j
  <2>4. jobs' \in Seq(Job)
    BY <2>1, <2>2, <2>3, UpdateType DEF Typed, TypeOK
  <2>5. proc' \in [Pid -> Process]
    BY <1>6, ProcType DEF CmdKill, Typed, TypeOK
  <2>6. QED
    BY <1>6, <2>4, <2>5 DEF CmdKill, Typed, TypeOK, PC, HeldJob, Waiting, Room
<1>7. QED
  BY <1>1, <1>3, <1>4, <1>5, <1>6

\* jobs and the report before a prompt.
LEMMA ReportTyped ==
  ASSUME Typed, CmdJobs \/ Prompt \/ Walk \/ WalkEnd \/ CmdPoll
  PROVE  Typed'
<1> USE DEF shell
<1>1. CASE CmdJobs \/ Prompt
  BY <1>1, PollType, NoWorkType
     DEF CmdJobs, Prompt, Typed, TypeOK, PC, HeldJob, Waiting, Room
<1>2. CASE CmdPoll
  BY <1>2, PollType DEF CmdPoll, Typed, TypeOK, PC, HeldJob, Waiting, Room
<1>3. CASE WalkEnd
  BY <1>3, NoWorkType DEF WalkEnd, Typed, TypeOK, PC, HeldJob, Waiting, Room
<1>4. CASE Walk
  <2>1. w \in Work /\ w.i \in Nat \ {0} /\ w.i + 1 \in Nat \ {0}
    BY DEF Typed, TypeOK, Work
  <2>2. [w EXCEPT !.i = @ + 1] \in Work
    BY <2>1, WorkType
  <2>3. UNCHANGED <<proc, pc, chld, intr, sig, launched>> /\ pc \in {"list", "report"}
    BY <1>4 DEF Walk
  <2>4. CASE Passed(w.i)
    BY <2>2, <2>3, <2>4 DEF Passed, Typed, TypeOK, HeldJob, Waiting, Room
  <2>5. CASE Shown(w.i)
    <3>1. w.i \in DOMAIN jobs /\ jobs[w.i] \in Job
      BY <1>4, <2>1 DEF Walk, Typed, TypeOK
    <3>2. CASE jobs[w.i].state = "done"
      <4>1. Drop(jobs, w.i) /\ Settled(jobs[w.i].uid, "told") /\ UNCHANGED w
        BY <2>5, <3>2 DEF Shown
      <4>2. jobs' \in Seq(Job) /\ jid' \in Nat /\ jcur' \in Nat /\ jprv' \in Nat
        BY <3>1, <4>1, DropType DEF Typed, TypeOK
      <4>3. hist' \in [Launch -> Past]
        BY <4>1, SettledType DEF Typed
      <4>4. QED
        BY <2>3, <4>1, <4>2, <4>3 DEF Typed, TypeOK, HeldJob, Waiting, Room
    <3>3. CASE jobs[w.i].state # "done"
      <4> DEFINE j == [jobs[w.i] EXCEPT !.note = TRUE]
      <4>1. j \in Job
        BY <3>1 DEF Job
      <4>2. jobs' = [jobs EXCEPT ![w.i] = j]
        BY <2>5, <3>1, <3>3 DEF Shown, Typed, TypeOK
      <4> HIDE DEF j
      <4>3. jobs' \in Seq(Job)
        BY <3>1, <4>1, <4>2, UpdateType DEF Typed, TypeOK
      <4>4. w' \in Work /\ UNCHANGED <<shell, hist>>
        BY <2>2, <2>5, <3>3 DEF Shown
      <4>5. QED
        BY <2>3, <4>3, <4>4 DEF Typed, TypeOK, HeldJob, Waiting, Room
    <3>4. QED
      BY <3>2, <3>3
  <2>6. QED
    BY <1>4, <2>4, <2>5 DEF Walk
<1>5. QED
  BY <1>1, <1>2, <1>3, <1>4

\* A set of positions that is not empty has a first one.
LEMMA FirstExists ==
  ASSUME NEW S \in SUBSET Nat, S # {}
  PROVE  \E k \in S : \A h \in S : k <= h
<1>1. PICK k \in S : \A h \in S : ~(<<h, k>> \in OpToRel(<, Nat))
  BY NatLessThanWellFounded, WFMin
<1>2. \A h \in S : ~(h < k)
  BY <1>1 DEF OpToRel
<1>3. QED
  BY <1>2

\* A set of launches that is not empty has a last one.
LEMMA LastExists ==
  ASSUME NEW S \in SUBSET Launch, S # {}
  PROVE  \E u \in S : \A v \in S : v <= u
<1> DEFINE T == {MaxLaunch - u : u \in S}
<1>1. T \in SUBSET Nat /\ T # {}
  <2>1. \A u \in S : MaxLaunch - u \in Nat
    BY ConstantsAssumption DEF Launch
  <2>2. T \in SUBSET Nat
    BY <2>1
  <2>3. T # {}
    OBVIOUS
  <2>4. QED
    BY <2>2, <2>3
<1>2. PICK k \in T : \A h \in T : k <= h
  BY <1>1, FirstExists
<1>3. PICK u \in S : k = MaxLaunch - u
  BY <1>2
<1>4. \A v \in S : MaxLaunch - u <= MaxLaunch - v
  BY <1>2, <1>3
<1>5. QED
  BY <1>4, ConstantsAssumption DEF Launch

\* jc_bypid answers a place in the table or none; a pid means a launch or none.
LEMMA ByPidType ==
  ASSUME TypeOK, NEW p, NEW reaped
  PROVE  ByPid(p, reaped) = 0 \/ ByPid(p, reaped) \in DOMAIN jobs
<1> DEFINE named   == {k \in DOMAIN jobs : p \in {jobs[k].pgid, jobs[k].last}}
           grouped == {k \in DOMAIN jobs : /\ p \in Child /\ ~reaped
                                           /\ jobs[k].pgid = proc[p].grp}
           hits    == IF named # {} THEN named ELSE grouped
<1>1. hits \in SUBSET DOMAIN jobs /\ DOMAIN jobs \in SUBSET Nat
  BY DEF TypeOK
<1>2. ByPid(p, reaped) = IF hits = {} THEN 0
                         ELSE CHOOSE k \in hits : \A h \in hits : k <= h
  BY DEF ByPid
<1> HIDE DEF hits
<1>3. hits # {} => \E k \in hits : \A h \in hits : k <= h
  BY <1>1, FirstExists
<1>4. QED
  BY <1>1, <1>2, <1>3

\* What an operand means is a job number or nothing.
LEMMA MeantType ==
  ASSUME NEW p
  PROVE  Meant(p) \in Owner
<1> DEFINE us == {u \in Launch : hist[u].tail = p}
<1>1. us \in SUBSET Launch
  OBVIOUS
<1>2. Meant(p) = IF us = {} THEN 0 ELSE CHOOSE u \in us : \A v \in us : v <= u
  BY DEF Meant
<1> HIDE DEF us
<1>3. us # {} => \E u \in us : \A v \in us : v <= u
  BY <1>1, LastExists
<1>4. QED
  BY <1>1, <1>2, <1>3, Sets

\* One operand of wait, and the end of the list.
LEMMA OperandTyped ==
  ASSUME Typed,
         \/ \E id \in Launch : WaitJob(id)
         \/ \E p \in Pid : WaitPid(p)
         \/ WaitEnd
  PROVE  Typed'
<1> USE DEF shell
<1>1. CASE WaitEnd
  BY <1>1 DEF WaitEnd, Typed, TypeOK, PC, HeldJob, Waiting, Room
<1>2. ASSUME NEW k, k = 0 \/ k \in DOMAIN jobs, NEW arg \in Work,
             Operand(k, arg), intr' = FALSE, UNCHANGED <<proc, chld, sig, launched>>
      PROVE  Typed'
  <2>1. CASE k = 0
    <3>1. UNCHANGED <<jobs, shell, hist>>
      BY <1>2, <2>1 DEF Operand, Typed, TypeOK
    <3>2. /\ pc' \in {"more", "ask"}
          /\ w' \in {NoWork, [arg EXCEPT !.op = "pid"]}
      BY <1>2, <2>1 DEF Operand, Typed, TypeOK
    <3>3. w' \in Work
      BY <1>2, <3>2, NoWorkType, WorkType DEF Ops
    <3>4. /\ w'.op \notin {"fg", "pipe", "job"}
          /\ w'.op = "pid" => w'.pid # NoPid
      BY <1>2, <2>1 DEF Operand, NoWork, Work, Typed, TypeOK
    <3>5. QED
      BY <1>2, <3>1, <3>2, <3>3, <3>4 DEF Typed, TypeOK, PC, HeldJob, Room
  <2>2. CASE k \in DOMAIN jobs
    <3>1. jobs[k] \in Job /\ k # 0
      BY <2>2 DEF Typed, TypeOK
    <3>2. jobs[k].id \in Nat /\ jobs[k].st \in Answer
      BY <3>1, Sets DEF Job
    <3>3. CASE jobs[k].state = "done"
      <4>1. /\ pc' = "more" /\ w' = [arg EXCEPT !.ans = jobs[k].st]
            /\ Drop(jobs, k) /\ Settled(jobs[k].uid, "told")
        BY <1>2, <3>1, <3>3 DEF Operand
      <4>2. jobs' \in Seq(Job) /\ jid' \in Nat /\ jcur' \in Nat /\ jprv' \in Nat
        BY <2>2, <4>1, DropType DEF Typed, TypeOK
      <4>3. hist' \in [Launch -> Past]
        BY <4>1, SettledType DEF Typed
      <4>4. w' \in Work
        BY <1>2, <3>2, <4>1, WorkType
      <4>5. QED
        BY <1>2, <4>1, <4>2, <4>3, <4>4 DEF Typed, TypeOK, PC, HeldJob, Waiting, Room
    <3>4. CASE jobs[k].state = "stop"
      BY <1>2, <3>1, <3>4, NoWorkType
         DEF Operand, Typed, TypeOK, PC, HeldJob, Waiting, Room
    <3>5. CASE jobs[k].state = "run"
      <4>1. /\ pc' = "ask" /\ w' = [arg EXCEPT !.op = "job", !.id = jobs[k].id]
            /\ UNCHANGED <<jobs, shell, hist>>
        BY <1>2, <3>1, <3>5 DEF Operand
      <4>2. w' \in Work
        BY <1>2, <3>2, <4>1, WorkType DEF Ops
      <4>3. w'.id = jobs[k].id
        BY <1>2, <4>1 DEF Work
      <4>4. HeldJob'
        BY <2>2, <4>1, <4>3 DEF HeldJob, HasJob
      <4>5. QED
        BY <1>2, <4>1, <4>2, <4>4 DEF Typed, TypeOK, PC, Room
    <3>6. QED
      BY <3>1, <3>3, <3>4, <3>5 DEF Job
  <2>3. QED
    BY <1>2, <2>1, <2>2
<1>3. ASSUME NEW id \in Launch, WaitJob(id) PROVE Typed'
  <2> DEFINE k == IF HasJob(id) THEN At(id) ELSE 0
             arg == [NoWork EXCEPT !.own = IF k = 0 THEN 0 ELSE jobs[k].uid]
  <2>1. k = 0 \/ k \in DOMAIN jobs
    BY AtType
  <2>2. Operand(k, arg) /\ intr' = FALSE /\ UNCHANGED <<proc, chld, sig, launched>>
    BY <1>3 DEF WaitJob
  <2> HIDE DEF k
  <2>3. k # 0 => jobs[k] \in Job
    BY <2>1 DEF Typed, TypeOK
  <2>4. (IF k = 0 THEN 0 ELSE jobs[k].uid) \in Owner
    BY <2>3, Sets DEF Job
  <2>5. arg \in Work
    BY <2>4, NoWorkType, WorkType
  <2> HIDE DEF arg
  <2>6. QED
    BY <1>2, <2>1, <2>2, <2>5
<1>4. ASSUME NEW p \in Pid, WaitPid(p) PROVE Typed'
  <2> DEFINE k == ByPid(p, FALSE)
             arg == [NoWork EXCEPT !.pid = p, !.own = Meant(p)]
  <2>1. k = 0 \/ k \in DOMAIN jobs
    BY ByPidType DEF Typed
  <2>2. Operand(k, arg) /\ intr' = FALSE /\ UNCHANGED <<proc, chld, sig, launched>>
    BY <1>4 DEF WaitPid
  <2>3. arg \in Work
    BY NoWorkType, WorkType, MeantType
  <2> HIDE DEF k, arg
  <2>4. QED
    BY <1>2, <2>1, <2>2, <2>3
<1>5. QED
  BY <1>1, <1>3, <1>4

\* The rounds of wait %job and wait pid, its sleep and its end.
LEMMA RoundTyped ==
  ASSUME Typed,
         \/ \E mode \in {"n", "all"} : WaitAny(mode)
         \/ WaitTrapped \/ JobDoze \/ JobEnd \/ PidRound \/ Wake
         \/ \E p \in Pid : JobReap(p)
  PROVE  Typed'
<1> USE DEF shell
<1> DEFINE k == At(w.id)
<1>1. ASSUME NEW mode \in {"n", "all"}, WaitAny(mode) PROVE Typed'
  <2>1. w' = [NoWork EXCEPT !.op = mode] /\ mode \in Ops
    BY <1>1 DEF WaitAny, Ops
  <2>2. w' \in Work /\ w'.op = mode
    BY <2>1, NoWorkType, WorkType DEF NoWork
  <2>3. QED
    BY <1>1, <2>2 DEF WaitAny, Typed, TypeOK, PC, HeldJob, Room
<1>2. CASE WaitTrapped
  BY <1>2, NoWorkType DEF WaitTrapped, Typed, TypeOK, PC, HeldJob, Waiting, Room
<1>3. CASE JobDoze
  BY <1>3 DEF JobDoze, Doze, Rounds, Typed, TypeOK, PC, HeldJob, HasJob, Waiting, Room
<1>4. CASE Wake
  BY <1>4 DEF Wake, Typed, TypeOK, PC, HeldJob, HasJob, Waiting, Room
<1>5. ASSUME Rounds({"job"})
      PROVE  /\ HasJob(w.id) /\ k \in DOMAIN jobs /\ jobs[k].id = w.id
             /\ jobs[k] \in Job /\ w \in Work /\ w.st \in St
  <2>1. HasJob(w.id)
    BY <1>5 DEF Rounds, Typed, HeldJob, Waiting
  <2>2. k \in DOMAIN jobs /\ jobs[k].id = w.id
    BY <2>1, AtType
  <2> HIDE DEF k
  <2>3. QED
    BY <2>1, <2>2 DEF Typed, TypeOK, Work
<1>6. CASE JobEnd
  <2>1. k \in DOMAIN jobs /\ w \in Work /\ w.st \in Answer
    BY <1>5, <1>6, Sets DEF JobEnd
  <2>2. Drop(jobs, k) /\ Settled(jobs[k].uid, "told") /\ w' = [w EXCEPT !.ans = w.st]
    BY <1>6 DEF JobEnd
  <2>3. jobs' \in Seq(Job) /\ jid' \in Nat /\ jcur' \in Nat /\ jprv' \in Nat
    BY <2>1, <2>2, DropType DEF Typed, TypeOK
  <2>4. hist' \in [Launch -> Past]
    BY <2>2, SettledType DEF Typed
  <2>5. w' \in Work
    BY <2>1, <2>2, WorkType
  <2>6. QED
    BY <1>6, <2>3, <2>4, <2>5 DEF JobEnd, Typed, TypeOK, PC, HeldJob, Waiting, Room
<1>7. CASE PidRound
  <2>1. w \in Work /\ w.pid \in Pid
    BY <1>7 DEF PidRound, Rounds, Typed, TypeOK, Work, Maybe, HeldJob, Waiting
  <2>2. proc[w.pid].st \in Answer /\ proc[w.pid].own \in Owner /\ w.own \in Owner
    BY <2>1, StatusType, Sets DEF Typed, Work
  <2>3. CASE pc' = "sleep"
    BY <1>7, <2>3
       DEF PidRound, Doze, Rounds, Typed, TypeOK, PC, HeldJob, HasJob, Waiting, Room
  <2>4. CASE pc' # "sleep"
    <3>1. /\ pc' = "more" /\ UNCHANGED <<jobs, shell, chld, intr, sig, launched, hist>>
          /\ proc' \in {proc, [proc EXCEPT ![w.pid] = Free]}
      BY <1>7, <2>4 DEF PidRound, Doze
    <3>2. PICK own \in Owner :
             \/ w' = [w EXCEPT !.ans = proc[w.pid].st, !.own = own]
             \/ w' = [w EXCEPT !.own = own, !.st = NotChild]
      BY <1>7, <2>2, <2>4, Sets DEF PidRound, Doze
    <3>3. w' \in Work
      <4>1. CASE w' = [w EXCEPT !.ans = proc[w.pid].st, !.own = own]
        BY <2>1, <2>2, <4>1, WorkType
      <4>2. CASE w' = [w EXCEPT !.own = own, !.st = NotChild]
        BY <2>1, <4>2, WorkType, Sets
      <4>3. QED
        BY <3>2, <4>1, <4>2
    <3>4. proc' \in [Pid -> Process]
      BY <2>1, <3>1, ProcType DEF Typed, TypeOK
    <3>5. QED
      BY <3>1, <3>3, <3>4 DEF Typed, TypeOK, PC, HeldJob, Waiting, Room
  <2>5. QED
    BY <2>3, <2>4
<1>8. ASSUME NEW p \in Pid, JobReap(p) PROVE Typed'
  <2>1. /\ k \in DOMAIN jobs /\ jobs[k].id = w.id
        /\ jobs[k] \in Job /\ w \in Work /\ w.st \in St
    BY <1>5, <1>8 DEF JobReap
  <2>2. proc' \in [Pid -> Process]
    BY <1>8, TakenTyped DEF JobReap, Typed
  <2>3. CASE Stopped(p)
    <3> DEFINE j == [After(jobs[k], p) EXCEPT !.st = StopSt]
    <3>1. j \in Job
      BY <2>1, AfterType
    <3>2. jobs' = [jobs EXCEPT ![k] = j] /\ pc' = "more" /\ w' = NoWork
      BY <1>8, <2>1, <2>3 DEF JobReap, Typed, TypeOK
    <3> HIDE DEF j
    <3>3. jobs' \in Seq(Job)
      BY <2>1, <3>1, <3>2, UpdateType DEF Typed, TypeOK
    <3>4. QED
      BY <1>8, <2>2, <3>2, <3>3, NoWorkType
         DEF JobReap, Typed, TypeOK, PC, HeldJob, Waiting, Room
  <2>4. CASE ~Stopped(p)
    <3> DEFINE j  == After(jobs[k], p)
               st == IF p = jobs[k].last THEN proc[p].st ELSE w.st
    <3>1. j \in Job /\ j.id = jobs[k].id
      BY <2>1, AfterType DEF After, Job
    <3>2. jobs' = [jobs EXCEPT ![k] = j] /\ UNCHANGED pc
      BY <1>8, <2>1, <2>4 DEF JobReap, Typed, TypeOK
    <3>3. w' = [w EXCEPT !.st = st]
      BY <1>8, <2>1, <2>4 DEF JobReap, Work
    <3>4. st \in St
      BY <2>1, StatusType DEF Typed
    <3> HIDE DEF j, st
    <3>5. w' \in Work /\ w'.id = w.id /\ w'.op = w.op
      BY <2>1, <3>3, <3>4, WorkType DEF Work
    <3>6. jobs' \in Seq(Job) /\ k \in DOMAIN jobs' /\ jobs'[k].id = w.id
      BY <2>1, <3>1, <3>2, HeldKept DEF Typed
    <3>7. w'.op # "pid"
      BY <1>8, <3>5 DEF JobReap, Rounds
    <3> HIDE DEF k
    <3>8. HeldJob'
      BY <3>5, <3>6, <3>7 DEF HeldJob, HasJob
    <3>9. QED
      BY <1>8, <2>2, <3>2, <3>5, <3>6, <3>8 DEF JobReap, Typed, TypeOK, Room
  <2>5. QED
    BY <2>3, <2>4
<1>9. QED
  BY <1>1, <1>2, <1>3, <1>4, <1>6, <1>7, <1>8

\* jc_anyone leaves a table of jobs.
LEMMA MarkedType ==
  ASSUME TypeOK, NEW K
  PROVE  Marked(K) \in Seq(Job) /\ DOMAIN Marked(K) = DOMAIN jobs
<1>1. ASSUME NEW k \in DOMAIN jobs
      PROVE  [jobs[k] EXCEPT !.state = "done"] \in Job /\ jobs[k] \in Job
  <2> DEFINE j == jobs[k]
  <2>1. j \in Job
    BY DEF TypeOK
  <2> HIDE DEF j
  <2>2. [j EXCEPT !.state = "done"] \in Job
    BY <2>1 DEF Job
  <2>3. QED
    BY <2>1, <2>2 DEF j
<1>2. Len(jobs) \in Nat /\ DOMAIN jobs = 1..Len(jobs)
  BY DEF TypeOK
<1>3. Marked(K) \in [1..Len(jobs) -> Job]
  BY <1>1, <1>2 DEF Marked
<1>4. QED
  BY <1>2, <1>3

\* What b_wait counts leaves a table of jobs.
LEMMA CountType ==
  ASSUME TypeOK, NEW js \in Seq(Job), NEW b, b = 0 \/ b \in DOMAIN js, NEW p,
         Count(js, b, p)
  PROVE  /\ jobs' \in Seq(Job)
         /\ jid' = jid /\ jcur' \in Nat /\ jprv' = jprv
<1> USE DEF shell
<1>1. CASE b = 0
  BY <1>1 DEF Count, TypeOK
<1>2. CASE b # 0
  <2>1. b \in DOMAIN js /\ js[b] \in Job
    BY <1>2
  <2>2. CASE Stopped(p)
    <3> DEFINE j == [After(js[b], p) EXCEPT !.st = StopSt]
    <3>1. j \in Job
      BY <2>1, AfterType
    <3>2. jobs' = [js EXCEPT ![b] = j] /\ UNCHANGED shell
      BY <1>2, <2>1, <2>2 DEF Count
    <3> HIDE DEF j
    <3>3. QED
      BY <2>1, <3>1, <3>2, UpdateType DEF TypeOK
  <2>3. CASE ~Stopped(p) /\ js[b].ndone + 1 >= js[b].np
    BY <1>2, <2>1, <2>3, DropType DEF Count
  <2>4. CASE ~Stopped(p) /\ ~(js[b].ndone + 1 >= js[b].np)
    <3> DEFINE j == After(js[b], p)
    <3>1. j \in Job
      BY <2>1, AfterType
    <3>2. jobs' = [js EXCEPT ![b] = j] /\ UNCHANGED shell
      BY <1>2, <2>1, <2>4 DEF Count
    <3> HIDE DEF j
    <3>3. QED
      BY <2>1, <3>1, <3>2, UpdateType DEF TypeOK
  <2>5. QED
    BY <2>2, <2>3, <2>4
<1>3. QED
  BY <1>1, <1>2

\* wait, wait -n and what follows a command.
LEMMA AnyTyped ==
  ASSUME Typed,
         \/ \E p \in Pid : AnyReap(p)
         \/ AnyQuiet \/ CmdEnd \/ RunTraps
  PROVE  Typed'
<1> USE DEF shell
<1>1. CASE AnyQuiet
  BY <1>1, MarkedType
     DEF AnyQuiet, Rounds, Typed, TypeOK, PC, HeldJob, Waiting, Room
<1>2. CASE CmdEnd
  BY <1>2, NoWorkType DEF CmdEnd, Typed, TypeOK, PC, HeldJob, Waiting, Room
<1>3. CASE RunTraps
  BY <1>3 DEF RunTraps, Typed, TypeOK, PC, HeldJob, Waiting, Room
<1>4. ASSUME NEW p \in Pid, AnyReap(p) PROVE Typed'
  <2>1. PICK k \in Active : Count(Marked({h \in Deserted : h < k}),
                                  ByPid(p, ~Stopped(p)), p)
    BY <1>4 DEF AnyReap
  <2>2. jobs' \in Seq(Job) /\ jid' \in Nat /\ jcur' \in Nat /\ jprv' \in Nat
    <3> DEFINE js == Marked({h \in Deserted : h < k})
               b  == ByPid(p, ~Stopped(p))
    <3>1. js \in Seq(Job) /\ DOMAIN js = DOMAIN jobs
      BY MarkedType DEF Typed
    <3>2. b = 0 \/ b \in DOMAIN jobs
      BY ByPidType DEF Typed
    <3>3. Count(js, b, p)
      BY <2>1
    <3> HIDE DEF js, b
    <3>4. QED
      BY <3>1, <3>2, <3>3, CountType DEF Typed, TypeOK
  <2>3. proc' \in [Pid -> Process]
    BY <1>4, TakenTyped DEF AnyReap, Typed
  <2>4. hist' \in [Launch -> Past]
    BY <1>4, SettledType DEF AnyReap, Typed, TypeOK
  <2>5. /\ w \in Work /\ w.op \in {"n", "all"} /\ proc[p].own \in Owner
        /\ proc[p].st \in Answer
    BY <1>4, StatusType, Sets DEF AnyReap, Rounds, Typed, TypeOK
  <2>6. \/ pc' = pc /\ w' = w
        \/ pc' = "end" /\ w' \in {NoWork, [w EXCEPT !.own = proc[p].own,
                                                     !.ans = proc[p].st]}
    BY <1>4 DEF AnyReap
  <2>7. w' \in Work
    <3>1. [w EXCEPT !.own = proc[p].own, !.ans = proc[p].st] \in Work
      BY <2>5, WorkType
    <3>2. QED
      BY <2>5, <2>6, <3>1, NoWorkType
  <2>8. HeldJob'
    BY <2>5, <2>6 DEF HeldJob, Waiting
  <2>9. QED
    BY <1>4, <2>2, <2>3, <2>4, <2>6, <2>7, <2>8
       DEF AnyReap, Rounds, Typed, TypeOK, PC, Room
<1>5. QED
  BY <1>1, <1>2, <1>3, <1>4

-----------------------------------------------------------------------------

\* The inductive invariant holds at the start.
LEMMA InitTyped == Init => Typed
<1>1. [p \in Pid |-> Free] \in [Pid -> Process]
  BY Sets DEF Free, Process
<1>2. [tail |-> NoPid, st |-> NoSt, owed |-> "yes"] \in Past
  BY Sets DEF Past
<1>3. 0 \in 0..MaxLaunch
  BY ConstantsAssumption
<1>4. <<>> \in Seq(Job)
  OBVIOUS
<1>5. Init => proc \in [Pid -> Process] /\ hist \in [Launch -> Past]
  BY <1>1, <1>2 DEF Init
<1>6. Init => w \in Work /\ jobs \in Seq(Job) /\ launched \in 0..MaxLaunch
  BY <1>3, <1>4, NoWorkType DEF Init
<1>7. Init => pc \in PC /\ jid \in Nat /\ jcur \in Nat /\ jprv \in Nat
  BY DEF Init, PC
<1>8. Init => chld \in BOOLEAN /\ intr \in BOOLEAN /\ sig \in BOOLEAN
  BY DEF Init
<1>9. Init => TypeOK
  BY <1>5, <1>6, <1>7, <1>8 DEF TypeOK
<1>10. Init => HeldJob /\ Room
  BY DEF Init, HeldJob, Waiting, Room
<1>11. QED
  BY <1>9, <1>10 DEF Typed

\* Every step keeps the inductive invariant: one step per action.
LEMMA StepTyped == Typed /\ [Next]_vars => Typed'
<1> SUFFICES ASSUME Typed, [Next]_vars PROVE Typed'
  OBVIOUS
<1>1. CASE Kernel
  BY <1>1, KernelTyped
<1>2. CASE Start
  <2>1. CASE Background \/ \E ps \in Pipelines : Distinct(ps) /\ Foreground(ps)
    BY <2>1, LaunchTyped
  <2>2. CASE Command
    BY <2>2, CommandTyped, ConstantsAssumption DEF Launch
  <2>3. CASE \E id \in Launch : \/ CmdFg(id) \/ CmdBg(id) \/ CmdDisown(id)
                                \/ \E s \in {"TERM", "STOP", "CONT"} : CmdKill(id, s)
    BY <2>3, CommandTyped
  <2>4. CASE CmdJobs \/ Prompt
    BY <2>4, ReportTyped
  <2>5. CASE (\E id \in Launch : WaitJob(id)) \/ (\E p \in Pid : WaitPid(p))
    BY <2>5, OperandTyped
  <2>6. CASE \E mode \in {"n", "all"} : WaitAny(mode)
    BY <2>6, RoundTyped
  <2>7. CASE RunTraps
    BY <2>7, AnyTyped
  <2>8. QED
    BY <1>2, <2>1, <2>2, <2>3, <2>4, <2>5, <2>6, <2>7 DEF Start
<1>3. CASE Continue
  <2>1. CASE TidyForget \/ TidyEnd \/ ForkFails \/ \E p \in Pid : Fork(p)
    BY <2>1, LaunchTyped
  <2>2. CASE FgEnd \/ \E p \in Pid : FgReap(p)
    BY <2>2, FgTyped
  <2>3. CASE Walk \/ WalkEnd \/ CmdPoll
    BY <2>3, ReportTyped
  <2>4. CASE WaitEnd
    BY <2>4, OperandTyped
  <2>5. CASE \/ WaitTrapped \/ JobDoze \/ JobEnd \/ PidRound \/ Wake
             \/ \E p \in Pid : JobReap(p)
    BY <2>5, RoundTyped
  <2>6. CASE AnyQuiet \/ CmdEnd \/ \E p \in Pid : AnyReap(p)
    BY <2>6, AnyTyped
  <2>7. QED
    BY <1>3, <2>1, <2>2, <2>3, <2>4, <2>5, <2>6 DEF Continue
<1>4. CASE UNCHANGED vars
  BY <1>4 DEF vars, shell, Typed, TypeOK, HeldJob, HasJob, Waiting, Room
<1>5. QED
  BY <1>1, <1>2, <1>3, <1>4 DEF Next

\* Every variable keeps its type, for any number of processes, launches and
\* stages and every combination of the switches.
THEOREM TypeCorrect == Spec => []TypeOK
<1>1. Typed => TypeOK
  BY DEF Typed
<1>2. QED
  BY <1>1, InitTyped, StepTyped, PTL DEF Spec

\* The job fg or wait is working on is never taken out of the table under it.
THEOREM HeldJobCorrect == Spec => []HeldJob
<1>1. Typed => HeldJob
  BY DEF Typed
<1>2. QED
  BY <1>1, InitTyped, StepTyped, PTL DEF Spec

-----------------------------------------------------------------------------
(* A job number names one job.  The table changes in four ways only, and    *)
(* each keeps the numbers apart.                                            *)

SameIds(js) == /\ js \in Seq(Job)
               /\ DOMAIN js = DOMAIN jobs
               /\ \A k \in DOMAIN jobs : js[k].id = jobs[k].id

TableStep ==
  \/ SameIds(jobs') /\ jid' = jid
  \/ \E js \in Seq(Job) : \E k \in DOMAIN js : SameIds(js) /\ Drop(js, k)
  \/ \E j \in Job : Added(j) /\ j.id = (IF jobs = <<>> THEN 0 ELSE jid) + 1
  \/ jobs' = jobs /\ jid' = (IF jobs = <<>> THEN 0 ELSE jid) + 1

\* Each of the four keeps the numbers unique and within jid.
LEMMA TableUnique ==
  ASSUME TypeOK, IdsUnique, TableStep
  PROVE  IdsUnique'
<1> DEFINE n == Len(jobs)
<1>1. /\ n \in Nat /\ DOMAIN jobs = 1..n /\ jid \in Nat
      /\ \A k \in 1..n : jobs[k].id \in 1..jid
      /\ \A i, k \in 1..n : jobs[i].id = jobs[k].id => i = k
  BY DEF TypeOK, IdsUnique
<1>2. CASE SameIds(jobs') /\ jid' = jid
  BY <1>2 DEF SameIds, IdsUnique
<1>3. ASSUME NEW js \in Seq(Job), NEW k \in DOMAIN js, SameIds(js), Drop(js, k)
      PROVE  IdsUnique'
  <2>1. /\ Len(js) = n /\ k \in 1..n
        /\ \A i \in 1..n : js[i].id = jobs[i].id
    BY <1>1, <1>3 DEF SameIds
  <2>2. /\ jobs' = Without(js, k) /\ jid' = jid
    BY <1>3 DEF Drop
  <2>3. /\ DOMAIN jobs' = 1..(n - 1)
        /\ \A i \in 1..(n - 1) : jobs'[i] = IF i = k THEN js[n] ELSE js[i]
    BY <2>1, <2>2, WithoutType
  <2> HIDE DEF n
  <2>4. \A i \in 1..(n - 1) : jobs'[i].id = jobs[IF i = k THEN n ELSE i].id
    BY <1>1, <2>1, <2>3
  <2>5. \A i \in 1..(n - 1) : jobs'[i].id \in 1..jid
    BY <1>1, <2>4
  <2>6. ASSUME NEW i \in 1..(n - 1), NEW h \in 1..(n - 1), jobs'[i].id = jobs'[h].id
        PROVE  i = h
    BY <1>1, <2>1, <2>4, <2>6
  <2>7. QED
    BY <2>2, <2>3, <2>5, <2>6 DEF IdsUnique
<1>4. ASSUME NEW j \in Job, Added(j), j.id = (IF jobs = <<>> THEN 0 ELSE jid) + 1
      PROVE  IdsUnique'
  <2>1. jobs' = Append(jobs, j) /\ jid' = j.id
    BY <1>4 DEF Added
  <2>2. /\ DOMAIN jobs' = 1..(n + 1) /\ jobs'[n + 1] = j
        /\ \A i \in 1..n : jobs'[i] = jobs[i]
    BY <2>1 DEF TypeOK
  <2>3. \A i \in 1..n : jobs[i].id \in 1..(j.id - 1)
    <3>1. CASE jobs = <<>>
      BY <3>1
    <3>2. CASE jobs # <<>>
      BY <1>1, <1>4, <3>2
    <3>3. QED
      BY <3>1, <3>2
  <2>4. j.id \in Nat \ {0}
    BY <1>1, <1>4
  <2> HIDE DEF n
  <2>5. QED
    BY <1>1, <2>1, <2>2, <2>3, <2>4 DEF IdsUnique
<1>5. CASE jobs' = jobs /\ jid' = (IF jobs = <<>> THEN 0 ELSE jid) + 1
  <2>1. CASE jobs = <<>>
    BY <1>5, <2>1 DEF IdsUnique
  <2>2. CASE jobs # <<>>
    BY <1>1, <1>5, <2>2 DEF IdsUnique
  <2>3. QED
    BY <2>1, <2>2
<1>6. QED
  BY <1>2, <1>3, <1>4, <1>5 DEF TableStep

\* Writing a record that keeps its number.
LEMMA SameUpdate ==
  ASSUME TypeOK, NEW k \in DOMAIN jobs, NEW j \in Job, j.id = jobs[k].id
  PROVE  SameIds([jobs EXCEPT ![k] = j])
  BY UpdateType DEF SameIds, TypeOK

\* A table left alone keeps its numbers.
LEMMA SameItself ==
  ASSUME TypeOK
  PROVE  SameIds(jobs)
  BY DEF SameIds, TypeOK

\* jc_anyone's marks keep the numbers.
LEMMA SameMarked ==
  ASSUME TypeOK, NEW K
  PROVE  SameIds(Marked(K))
<1>1. ASSUME NEW k \in DOMAIN jobs PROVE Marked(K)[k].id = jobs[k].id
  BY DEF Marked, TypeOK, Job
<1>2. QED
  BY <1>1, MarkedType DEF SameIds

\* jc_poll keeps the numbers.
LEMMA SamePoll ==
  ASSUME TypeOK, Poll
  PROVE  SameIds(jobs')
<1>1. Len(jobs) \in Nat /\ DOMAIN jobs = 1..Len(jobs)
  BY DEF TypeOK
<1>2. QED
  BY <1>1, PollType DEF SameIds

\* What b_wait counts changes one job or drops it.
LEMMA CountStep ==
  ASSUME TypeOK, NEW js, SameIds(js), NEW b, b = 0 \/ b \in DOMAIN js, NEW p,
         Count(js, b, p)
  PROVE  TableStep
<1> USE DEF shell
<1>1. js \in Seq(Job) /\ SameIds(jobs)
  BY SameItself DEF SameIds
<1>2. CASE b = 0
  BY <1>2 DEF Count, TableStep
<1>3. CASE b # 0
  <2>1. b \in DOMAIN js /\ js[b] \in Job
    BY <1>1, <1>3
  <2>2. ASSUME NEW j \in Job, j.id = js[b].id, jobs' = [js EXCEPT ![b] = j],
               UNCHANGED shell
        PROVE  TableStep
    <3>1. SameIds(jobs')
      BY <1>1, <2>1, <2>2, UpdateType DEF SameIds
    <3>2. QED
      BY <2>2, <3>1 DEF TableStep
  <2>3. CASE Stopped(p)
    <3>1. [After(js[b], p) EXCEPT !.st = StopSt] \in Job
      BY <2>1, AfterType
    <3>2. [After(js[b], p) EXCEPT !.st = StopSt].id = js[b].id
      BY <2>1 DEF After, Job
    <3>3. QED
      BY <1>3, <2>1, <2>2, <2>3, <3>1, <3>2 DEF Count
  <2>4. CASE ~Stopped(p) /\ js[b].ndone + 1 >= js[b].np
    BY <1>1, <1>3, <2>1, <2>4 DEF Count, TableStep
  <2>5. CASE ~Stopped(p) /\ ~(js[b].ndone + 1 >= js[b].np)
    <3>1. After(js[b], p) \in Job /\ After(js[b], p).id = js[b].id
      BY <2>1, AfterType DEF After, Job
    <3>2. QED
      BY <1>3, <2>1, <2>2, <2>5, <3>1 DEF Count
  <2>6. QED
    BY <2>3, <2>4, <2>5
<1>4. QED
  BY <1>2, <1>3

\* An operand of wait changes the table only to drop a finished job.
LEMMA OperandStep ==
  ASSUME TypeOK, NEW k, k = 0 \/ k \in DOMAIN jobs, NEW arg, Operand(k, arg)
  PROVE  TableStep
  BY SameItself DEF Operand, TableStep, TypeOK, shell

\* Every step of a command that fg, bg, kill, disown or jobs runs.
LEMMA CommandStep ==
  ASSUME Typed, NEW id \in Launch,
         \/ Command \/ CmdFg(id) \/ CmdBg(id) \/ CmdDisown(id)
         \/ \E s \in {"TERM", "STOP", "CONT"} : CmdKill(id, s)
         \/ CmdJobs \/ Prompt \/ Walk \/ WalkEnd \/ CmdPoll
  PROVE  TableStep
<1> USE DEF shell
<1> DEFINE k == At(id)
<1>1. TypeOK /\ SameIds(jobs) /\ jobs \in Seq(Job)
  BY SameItself DEF Typed, SameIds
<1>2. CASE Command \/ WalkEnd
  BY <1>1, <1>2 DEF Command, WalkEnd, TableStep
<1>3. CASE CmdJobs \/ Prompt \/ CmdPoll
  BY <1>1, <1>3, SamePoll DEF CmdJobs, Prompt, CmdPoll, TableStep
<1>4. ASSUME HasJob(id) PROVE k \in DOMAIN jobs /\ jobs[k] \in Job
  <2>1. k \in DOMAIN jobs
    BY <1>4, AtType
  <2> HIDE DEF k
  <2>2. QED
    BY <1>1, <2>1
<1>5. CASE CmdDisown(id)
  BY <1>1, <1>4, <1>5 DEF CmdDisown, TableStep
<1>6. CASE CmdFg(id) \/ CmdBg(id) \/ \E s \in {"TERM", "STOP", "CONT"} : CmdKill(id, s)
  <2>1. k \in DOMAIN jobs /\ jobs[k] \in Job
    BY <1>4, <1>6 DEF CmdFg, CmdBg, CmdKill, Resumable
  <2> DEFINE fg == [jobs[k] EXCEPT !.state = "run", !.bg = FALSE, !.note = FALSE]
             bg == [jobs[k] EXCEPT !.state = "run", !.bg = TRUE, !.note = TRUE]
             on == [jobs[k] EXCEPT !.state = "run"]
  <2>2. /\ fg \in Job /\ fg.id = jobs[k].id
        /\ bg \in Job /\ bg.id = jobs[k].id
        /\ on \in Job /\ on.id = jobs[k].id
    <3> DEFINE j == jobs[k]
    <3>1. j \in Job
      BY <2>1
    <3> HIDE DEF j
    <3>2. /\ [j EXCEPT !.state = "run", !.bg = FALSE, !.note = FALSE] \in Job
          /\ [j EXCEPT !.state = "run", !.bg = FALSE, !.note = FALSE].id = j.id
      BY <3>1 DEF Job
    <3>3. /\ [j EXCEPT !.state = "run", !.bg = TRUE, !.note = TRUE] \in Job
          /\ [j EXCEPT !.state = "run", !.bg = TRUE, !.note = TRUE].id = j.id
      BY <3>1 DEF Job
    <3>4. /\ [j EXCEPT !.state = "run"] \in Job
          /\ [j EXCEPT !.state = "run"].id = j.id
      BY <3>1 DEF Job
    <3>5. QED
      BY <3>2, <3>3, <3>4 DEF j
  <2>3. /\ jobs' \in {jobs, [jobs EXCEPT ![k] = fg], [jobs EXCEPT ![k] = bg],
                      [jobs EXCEPT ![k] = on]}
        /\ jid' = jid
    BY <1>1, <1>6, <2>1 DEF CmdFg, CmdBg, CmdKill
  <2> HIDE DEF fg, bg, on
  <2>4. SameIds(jobs')
    BY <1>1, <2>1, <2>2, <2>3, SameUpdate
  <2>5. QED
    BY <2>3, <2>4 DEF TableStep
<1>7. CASE Walk
  <2>1. w.i \in DOMAIN jobs /\ jobs[w.i] \in Job
    BY <1>1, <1>7 DEF Walk, TypeOK, Work
  <2> DEFINE j == [jobs[w.i] EXCEPT !.note = TRUE]
  <2>2. j \in Job /\ j.id = jobs[w.i].id
    BY <2>1 DEF Job
  <2>3. \/ Drop(jobs, w.i)
        \/ jobs' = [jobs EXCEPT ![w.i] = j] /\ jid' = jid
        \/ jobs' = jobs /\ jid' = jid
    BY <1>1, <1>7, <2>1 DEF Walk, Passed, Shown
  <2> HIDE DEF j
  <2>4. QED
    BY <1>1, <2>1, <2>2, <2>3, SameUpdate DEF TableStep
<1>8. QED
  BY <1>2, <1>3, <1>5, <1>6, <1>7

\* Launching appends one job or gives up its number.
LEMMA LaunchStep ==
  ASSUME Typed,
         \/ Background \/ TidyForget \/ TidyEnd \/ ForkFails
         \/ \E p \in Pid : Fork(p)
         \/ \E ps \in Pipelines : Foreground(ps)
  PROVE  TableStep
<1> USE DEF shell
<1>1. TypeOK /\ SameIds(jobs) /\ jobs \in Seq(Job)
  BY SameItself DEF Typed, SameIds
<1>2. CASE Background
  BY <1>1, <1>2, SamePoll DEF Background, TableStep
<1>3. CASE TidyForget
  BY <1>1, <1>3 DEF TidyForget, DoneJobs, TableStep
<1>4. CASE TidyEnd
  BY <1>1, <1>4 DEF TidyEnd, TableStep
<1>5. CASE ForkFails
  BY <1>5 DEF ForkFails, Fresh, TableStep
<1>6. ASSUME NEW ps \in Seq(Maybe), ps # <<>>, NEW bg \in BOOLEAN,
             launched < MaxLaunch, Added(Fresh(ps, bg))
      PROVE  TableStep
  <2>1. Fresh(ps, bg) \in Job
    BY <1>1, <1>6, FreshType
  <2>2. Fresh(ps, bg).id = (IF jobs = <<>> THEN 0 ELSE jid) + 1
    BY DEF Fresh
  <2>3. QED
    BY <1>6, <2>1, <2>2 DEF TableStep
<1>7. ASSUME NEW p \in Pid, Fork(p) PROVE TableStep
  <2> DEFINE ps == <<p>>
  <2>1. ps \in Seq(Maybe) /\ ps # <<>>
    BY Sets
  <2>2. launched < MaxLaunch /\ Added(Fresh(ps, TRUE))
    BY <1>7 DEF Fork, Typed, Room
  <2> HIDE DEF ps
  <2>3. QED
    BY <1>6, <2>1, <2>2
<1>8. ASSUME NEW ps \in Pipelines, Foreground(ps) PROVE TableStep
  <2>1. PICK n \in 1..MaxStages : ps \in [1..n -> Pid]
    BY DEF Pipelines
  <2>2. ps \in Seq(Maybe) /\ ps # <<>>
    BY <2>1, Sets
  <2>3. launched < MaxLaunch /\ Added(Fresh(ps, FALSE))
    BY <1>8 DEF Foreground
  <2>4. QED
    BY <1>6, <2>2, <2>3
<1>9. QED
  BY <1>2, <1>3, <1>4, <1>5, <1>7, <1>8

\* A wait changes one job, drops one, or marks those that have no child left.
LEMMA WaitStep ==
  ASSUME Typed,
         \/ \E p \in Pid : FgReap(p) \/ JobReap(p) \/ AnyReap(p)
         \/ FgEnd \/ JobEnd \/ AnyQuiet
  PROVE  TableStep
<1> USE DEF shell
<1> DEFINE k == At(w.id)
<1>1. TypeOK /\ SameIds(jobs) /\ jobs \in Seq(Job)
  BY SameItself DEF Typed, SameIds
<1>2. ASSUME pc = "ask", w.op \in {"fg", "pipe", "job"}
      PROVE  k \in DOMAIN jobs /\ jobs[k] \in Job
  <2>1. HasJob(w.id)
    BY <1>2 DEF Typed, HeldJob, Waiting
  <2>2. k \in DOMAIN jobs
    BY <2>1, AtType
  <2> HIDE DEF k
  <2>3. QED
    BY <1>1, <2>2
<1>3. ASSUME NEW p \in Pid, FgReap(p) \/ JobReap(p) PROVE TableStep
  <2>1. k \in DOMAIN jobs /\ jobs[k] \in Job
    BY <1>2, <1>3 DEF FgReap, JobReap, Rounds
  <2> DEFINE a == After(jobs[k], p)
             s == [After(jobs[k], p) EXCEPT !.st = StopSt]
  <2>2. a \in Job /\ s \in Job
    BY <2>1, AfterType
  <2>3. a.id = jobs[k].id /\ s.id = jobs[k].id
    BY <2>1 DEF After, Job
  <2>4. jobs' \in {[jobs EXCEPT ![k] = a], [jobs EXCEPT ![k] = s]} /\ jid' = jid
    BY <1>1, <1>3, <2>1 DEF FgReap, JobReap
  <2> HIDE DEF a, s, k
  <2>5. SameIds(jobs')
    BY <1>1, <2>1, <2>2, <2>3, <2>4, SameUpdate
  <2>6. QED
    BY <2>4, <2>5 DEF TableStep
<1>4. ASSUME NEW p \in Pid, AnyReap(p) PROVE TableStep
  <2>1. PICK h \in Active : Count(Marked({i \in Deserted : i < h}),
                                  ByPid(p, ~Stopped(p)), p)
    BY <1>4 DEF AnyReap
  <2> DEFINE js == Marked({i \in Deserted : i < h})
             b  == ByPid(p, ~Stopped(p))
  <2>2. SameIds(js)
    BY <1>1, SameMarked
  <2>3. b = 0 \/ b \in DOMAIN jobs
    BY <1>1, ByPidType
  <2>4. Count(js, b, p)
    BY <2>1
  <2> HIDE DEF js, b
  <2>5. QED
    BY <1>1, <2>2, <2>3, <2>4, CountStep DEF SameIds
<1>5. CASE FgEnd
  <2>1. k \in DOMAIN jobs /\ jobs[k] \in Job /\ w.st \in St
    BY <1>1, <1>2, <1>5 DEF FgEnd, TypeOK, Work
  <2> DEFINE j == [jobs[k] EXCEPT !.bg = TRUE, !.st = w.st, !.note = TRUE]
  <2>2. j \in Job /\ j.id = jobs[k].id
    BY <2>1 DEF Job
  <2>3. \/ jobs' = [jobs EXCEPT ![k] = j] /\ jid' = jid
        \/ Drop(jobs, k)
    BY <1>1, <1>5, <2>1 DEF FgEnd
  <2> HIDE DEF j, k
  <2>4. QED
    BY <1>1, <2>1, <2>2, <2>3, SameUpdate DEF TableStep
<1>6. CASE JobEnd
  BY <1>1, <1>2, <1>6 DEF JobEnd, Rounds, TableStep
<1>7. CASE AnyQuiet
  BY <1>1, <1>7, SameMarked DEF AnyQuiet, TableStep
<1>8. QED
  BY <1>3, <1>4, <1>5, <1>6, <1>7

\* Every step of the specification changes the table in one of the four ways.
LEMMA NextStep == Typed /\ [Next]_vars => TableStep
<1> SUFFICES ASSUME Typed, [Next]_vars PROVE TableStep
  OBVIOUS
<1> USE DEF shell
<1>1. TypeOK /\ SameIds(jobs)
  BY SameItself DEF Typed
<1>2. ASSUME UNCHANGED <<jobs, jid>> PROVE TableStep
  BY <1>1, <1>2 DEF TableStep
<1>3. CASE Kernel
  BY <1>2, <1>3 DEF Kernel, KExit, KStop, KCont, KLeave, ModFork, ModReap, KSignal
<1>4. CASE Start
  <2>1. CASE Background \/ \E ps \in Pipelines : Distinct(ps) /\ Foreground(ps)
    BY <2>1, LaunchStep
  <2>2. CASE Command \/ CmdJobs \/ Prompt
    BY <2>2, CommandStep, ConstantsAssumption DEF Launch
  <2>3. CASE \E id \in Launch : \/ CmdFg(id) \/ CmdBg(id) \/ CmdDisown(id)
                                \/ \E s \in {"TERM", "STOP", "CONT"} : CmdKill(id, s)
    BY <2>3, CommandStep
  <2>4. ASSUME NEW id \in Launch, WaitJob(id) PROVE TableStep
    <3> DEFINE k   == IF HasJob(id) THEN At(id) ELSE 0
               arg == [NoWork EXCEPT !.own = IF k = 0 THEN 0 ELSE jobs[k].uid]
    <3>1. k = 0 \/ k \in DOMAIN jobs
      BY AtType
    <3>2. Operand(k, arg)
      BY <2>4 DEF WaitJob
    <3> HIDE DEF k, arg
    <3>3. QED
      BY <1>1, <3>1, <3>2, OperandStep
  <2>5. ASSUME NEW p \in Pid, WaitPid(p) PROVE TableStep
    BY <1>1, <2>5, ByPidType, OperandStep DEF WaitPid
  <2>6. CASE RunTraps \/ \E mode \in {"n", "all"} : WaitAny(mode)
    BY <1>2, <2>6 DEF RunTraps, WaitAny
  <2>7. QED
    BY <1>4, <2>1, <2>2, <2>3, <2>4, <2>5, <2>6 DEF Start
<1>5. CASE Continue
  <2>1. CASE TidyForget \/ TidyEnd \/ ForkFails \/ \E p \in Pid : Fork(p)
    BY <2>1, LaunchStep
  <2>2. CASE \/ FgEnd \/ JobEnd \/ AnyQuiet
             \/ \E p \in Pid : FgReap(p) \/ JobReap(p) \/ AnyReap(p)
    BY <2>2, WaitStep
  <2>3. CASE Walk \/ WalkEnd \/ CmdPoll
    BY <2>3, CommandStep, ConstantsAssumption DEF Launch
  <2>4. CASE WaitEnd \/ WaitTrapped \/ JobDoze \/ PidRound \/ Wake \/ CmdEnd
    BY <1>2, <2>4 DEF WaitEnd, WaitTrapped, JobDoze, Doze, PidRound, Wake, CmdEnd
  <2>5. QED
    BY <1>5, <2>1, <2>2, <2>3, <2>4 DEF Continue
<1>6. CASE UNCHANGED vars
  BY <1>2, <1>6 DEF vars
<1>7. QED
  BY <1>3, <1>4, <1>5, <1>6 DEF Next

\* However many jobs come and go, and in whatever order jc_drop moves them,
\* no two jobs in the table have one number, and jc_new's next one is free.
THEOREM IdsUniqueCorrect == Spec => []IdsUnique
<1>1. Init => IdsUnique
  BY DEF Init, IdsUnique
<1>2. Typed /\ IdsUnique /\ [Next]_vars => IdsUnique'
  BY NextStep, TableUnique DEF Typed
<1>3. QED
  BY <1>1, <1>2, InitTyped, StepTyped, PTL DEF Spec

-----------------------------------------------------------------------------
\* The processes of a job are those the table knows it by, and nobody else's.
Steady == ~Recycle /\ (Interactive => MaxStages <= 2 /\ Leavers = {})

-----------------------------------------------------------------------------
(***************************************************************************)
(* What the table says of the processes                                    *)
(***************************************************************************)

\* The pids a job is known by.
Named(j) == {j.pgid, j.last}
ProcsIn(pr, u) == {p \in Pid : pr[p].own = u}

\* A job's processes are those it names that the kernel still has, they are
\* its group, and with those that were counted they are all there were.
Owned(pr, n, j) ==
  /\ j.uid \in 1 .. n
  /\ Named(j) \subseteq Pid
  /\ \A p \in Pid : pr[p].own = j.uid <=> p \in Named(j) /\ pr[p].ph # "free"
  /\ Interactive =>
       \A p \in Pid : pr[p].ph # "free" => (pr[p].grp = j.pgid <=> pr[p].own = j.uid)
  /\ ~Interactive => j.pgid = j.last
  /\ Cardinality(ProcsIn(pr, j.uid)) + j.ndone = j.np
  /\ j.state = "done" => j.ndone = j.np

\* No two jobs are of one launch or name one pid.
Apart(i, j) == i.uid # j.uid /\ Named(i) \cap Named(j) = {}

\* All of the table but place b, which may be about to be dropped.
TableBut(pr, n, js, b) ==
  \A k \in DOMAIN js \ {b} :
    /\ Owned(pr, n, js[k])
    /\ \A i \in DOMAIN js \ {b, k} : Apart(js[i], js[k])

\* A process is of a launch or of a module, and a pid nobody has of neither.
ProcsFit(pr, n) ==
  \A p \in Pid : /\ pr[p].own \in (0 .. n) \cup {Module}
                 /\ pr[p].ph = "free" => pr[p].own = 0

\* A pid waited for by itself is no job's.
Asked ==
  Waiting /\ w.op = "pid" => \A k \in DOMAIN jobs : w.pid \notin Named(jobs[k])

CountInv ==
  /\ Typed
  /\ ProcsFit(proc, launched)
  /\ TableBut(proc, launched, jobs, 0)
  /\ Asked

-----------------------------------------------------------------------------
(***************************************************************************)
(* Reaping                                                                 *)
(***************************************************************************)

\* From pr to qr those of S were reaped, and no other changed hands.
Reap(pr, qr, S) ==
  \A p \in Pid :
    IF p \in S THEN qr[p] = Free
    ELSE /\ qr[p].own = pr[p].own /\ (Interactive => qr[p].grp = pr[p].grp)
         /\ qr[p].ph = "free" <=> pr[p].ph = "free"

\* What becomes of a job j when those of S are reaped and its own are counted.
Same(j, n, pr, S) ==
  /\ n.uid = j.uid /\ n.pgid = j.pgid /\ n.last = j.last /\ n.np = j.np
  /\ n.ndone = j.ndone + Cardinality(ProcsIn(pr, j.uid) \cap S)
  /\ n.state = "done" => n.ndone = n.np

LEMMA Finite ==
  ASSUME NEW pr, NEW u
  PROVE  /\ IsFiniteSet(ProcsIn(pr, u)) /\ Cardinality(ProcsIn(pr, u)) \in Nat
         /\ Cardinality(ProcsIn(pr, u)) = 0 <=> ProcsIn(pr, u) = {}
<1>1. ProcsIn(pr, u) \in SUBSET Pid
  BY DEF ProcsIn
<1>2. IsFiniteSet(ProcsIn(pr, u))
  BY <1>1, ConstantsAssumption, FS_Subset
<1>3. QED
  BY <1>2, FS_CardinalityType, FS_EmptySet

LEMMA ReapFits ==
  ASSUME NEW pr, NEW qr, NEW S, NEW n \in Nat, NEW m \in Nat, n <= m,
         ProcsFit(pr, n), Reap(pr, qr, S)
  PROVE  ProcsFit(qr, m)
<1>1. Free.own = 0
  BY DEF Free
<1>2. ASSUME NEW p \in Pid
      PROVE  qr[p].own \in (0 .. m) \cup {Module} /\ (qr[p].ph = "free" => qr[p].own = 0)
  <2>1. CASE p \in S
    <3>1. qr[p].own = 0
      BY <1>1, <2>1 DEF Reap
    <3>2. QED
      BY <3>1
  <2>2. CASE p \notin S
    <3>1. /\ qr[p].own = pr[p].own /\ (qr[p].ph = "free" <=> pr[p].ph = "free")
          /\ pr[p].own \in (0 .. n) \cup {Module} /\ (pr[p].ph = "free" => pr[p].own = 0)
      BY <2>2 DEF Reap, ProcsFit
    <3>2. QED
      BY <3>1
  <2>3. QED
    BY <2>1, <2>2
<1>3. QED
  BY <1>2 DEF ProcsFit

\* A job whose processes were counted as they were reaped is as it should be.
LEMMA OwnedReap ==
  ASSUME NEW pr, NEW qr, NEW S, NEW n \in Nat, NEW m \in Nat, n <= m,
         Reap(pr, qr, S), NEW j \in Job, NEW i \in Job,
         Owned(pr, n, j), Same(j, i, pr, S)
  PROVE  Owned(qr, m, i)
<1> DEFINE u == j.uid
           P == ProcsIn(pr, u)
<1>1. u \in 1 .. n /\ u # 0 /\ i.uid = u /\ Named(i) = Named(j)
  BY DEF Owned, Same, Named
<1>2. Free.own = 0 /\ Free.ph = "free"
  BY DEF Free
<1>3. ASSUME NEW p \in Pid
      PROVE  /\ qr[p].own = u <=> pr[p].own = u /\ p \notin S
             /\ qr[p].own = u <=> p \in Named(i) /\ qr[p].ph # "free"
             /\ Interactive /\ qr[p].ph # "free" => (qr[p].grp = i.pgid <=> qr[p].own = u)
  <2>1. pr[p].own = u <=> p \in Named(j) /\ pr[p].ph # "free"
    BY DEF Owned
  <2>2. Interactive /\ pr[p].ph # "free" => (pr[p].grp = j.pgid <=> pr[p].own = u)
    BY DEF Owned
  <2>3. i.pgid = j.pgid
    BY DEF Same
  <2>4. CASE p \in S
    <3>1. qr[p].own = 0 /\ qr[p].ph = "free"
      BY <1>2, <2>4 DEF Reap
    <3>2. QED
      BY <1>1, <2>4, <3>1
  <2>5. CASE p \notin S
    <3>1. /\ qr[p].own = pr[p].own /\ (Interactive => qr[p].grp = pr[p].grp)
          /\ qr[p].ph = "free" <=> pr[p].ph = "free"
      BY <2>5 DEF Reap
    <3> HIDE DEF u
    <3>2. QED
      BY <1>1, <2>1, <2>2, <2>3, <2>5, <3>1
  <2>6. QED
    BY <2>4, <2>5
<1>4. ProcsIn(qr, u) = P \ S
  BY <1>3 DEF ProcsIn
<1>5. IsFiniteSet(P) /\ Cardinality(P) \in Nat
  BY Finite
<1>6. Cardinality(P \ S) = Cardinality(P) - Cardinality(P \cap S)
  BY <1>5, FS_Difference
<1>7. IsFiniteSet(P \cap S) /\ Cardinality(P \cap S) \in Nat
  BY <1>5, FS_Intersection, FS_CardinalityType
<1>8. Cardinality(P) + j.ndone = j.np /\ j.ndone \in Nat /\ j.np \in Nat
  BY DEF Owned, Job
<1>9. i.ndone = j.ndone + Cardinality(P \cap S) /\ i.np = j.np
  BY DEF Same
<1>10. Cardinality(ProcsIn(qr, u)) + i.ndone = i.np
  <2> HIDE DEF P
  <2>1. QED
    BY <1>4, <1>5, <1>6, <1>7, <1>8, <1>9
<1>11. /\ u \in 1 .. m /\ Named(i) \subseteq Pid
       /\ ~Interactive => i.pgid = i.last
       /\ i.state = "done" => i.ndone = i.np
  <2>1. u \in 1 .. m
    BY <1>1
  <2>2. Named(j) \subseteq Pid
    BY DEF Owned
  <2>3. QED
    BY <1>1, <2>1, <2>2 DEF Owned, Same
<1> HIDE DEF u, P
<1>12. QED
  BY <1>1, <1>3, <1>10, <1>11 DEF Owned

\* Those a wait asks for are the job's processes.
LEMMA Members ==
  ASSUME NEW j, NEW n, Owned(proc, n, j)
  PROVE  Who(j) = ProcsIn(proc, j.uid) /\ Ask(j) = ProcsIn(proc, j.uid)
<1> DEFINE P == ProcsIn(proc, j.uid)
<1>1. \A p \in Pid : p \in P <=> p \in Named(j) /\ proc[p].ph # "free"
  BY DEF Owned, ProcsIn
<1>2. j.last \in Pid /\ (~Interactive => j.pgid = j.last)
  BY DEF Owned, Named
<1>3. Interactive => \A p \in Pid : proc[p].ph # "free" => (proc[p].grp = j.pgid <=> p \in P)
  BY DEF Owned, ProcsIn
<1>4. P \subseteq Pid
  BY DEF ProcsIn
<1> HIDE DEF P
<1>5. CASE Interactive
  <2>1. Who(j) = P
    BY <1>1, <1>3, <1>4, <1>5 DEF Who, Child
  <2>2. P = {} => Child \cap {j.last} = {}
    BY <1>1, <1>2 DEF Child, Named
  <2>3. QED
    BY <1>5, <2>1, <2>2 DEF Ask, P
<1>6. CASE ~Interactive
  <2>1. Who(j) = P
    BY <1>1, <1>2, <1>4, <1>6 DEF Who, Child, Named
  <2>2. QED
    BY <1>6, <2>1 DEF Ask, P
<1>7. QED
  BY <1>5, <1>6

-----------------------------------------------------------------------------
(***************************************************************************)
(* The table                                                               *)
(***************************************************************************)

\* None of a job's processes was reaped.
LEMMA SameApart ==
  ASSUME NEW pr, NEW S, NEW n, NEW j \in Job, NEW i \in Job, Owned(pr, n, j),
         ProcsIn(pr, j.uid) \cap S = {},
         i.uid = j.uid, i.pgid = j.pgid, i.last = j.last, i.np = j.np,
         i.ndone = j.ndone,
         i.state = "done" => j.state = "done" \/ ProcsIn(pr, j.uid) = {}
  PROVE  Same(j, i, pr, S)
<1>1. Cardinality(ProcsIn(pr, j.uid) \cap S) = 0
  BY FS_EmptySet
<1>2. ProcsIn(pr, j.uid) = {} => Cardinality(ProcsIn(pr, j.uid)) = 0
  BY FS_EmptySet
<1>3. j.ndone \in Nat /\ j.np \in Nat
  BY DEF Job
<1>4. ProcsIn(pr, j.uid) = {} => j.ndone = j.np
  BY <1>2, <1>3 DEF Owned
<1>5. j.state = "done" => j.ndone = j.np
  BY DEF Owned
<1>6. QED
  BY <1>1, <1>3, <1>4, <1>5 DEF Same

\* One was, and was counted.
LEMMA SameOne ==
  ASSUME NEW pr, NEW p, NEW j \in Job, NEW i \in Job,
         p \in ProcsIn(pr, j.uid),
         i.uid = j.uid, i.pgid = j.pgid, i.last = j.last, i.np = j.np,
         i.ndone = j.ndone + 1, i.state # "done"
  PROVE  Same(j, i, pr, {p})
<1>1. ProcsIn(pr, j.uid) \cap {p} = {p}
  OBVIOUS
<1>2. Cardinality({p}) = 1
  BY FS_Singleton
<1>3. QED
  BY <1>1, <1>2 DEF Same

\* Two jobs stay apart as long as they keep their names.
LEMMA KeptTable ==
  ASSUME NEW pr, NEW qr, NEW S, NEW n \in Nat, NEW m \in Nat, n <= m,
         Reap(pr, qr, S), NEW js \in Seq(Job), NEW is \in Seq(Job),
         DOMAIN is = DOMAIN js, NEW b, TableBut(pr, n, js, 0),
         \A k \in DOMAIN js \ {b} : Same(js[k], is[k], pr, S)
  PROVE  TableBut(qr, m, is, b)
<1>1. ASSUME NEW k \in DOMAIN js
      PROVE  js[k] \in Job /\ is[k] \in Job /\ k # 0
  <2>1. js[k] \in Job /\ k # 0
    OBVIOUS
  <2>2. is[k] \in Job
    OBVIOUS
  <2>3. QED
    BY <2>1, <2>2
<1>2. ASSUME NEW k \in DOMAIN js \ {b}
      PROVE  Owned(qr, m, is[k])
  <2>1. Owned(pr, n, js[k])
    BY <1>1 DEF TableBut
  <2>2. QED
    BY <1>1, <2>1, OwnedReap
<1>3. ASSUME NEW k \in DOMAIN js \ {b}, NEW i \in DOMAIN js \ {b, k}
      PROVE  Apart(is[i], is[k])
  <2>1. Apart(js[i], js[k])
    BY <1>1 DEF TableBut
  <2>2. /\ is[i].uid = js[i].uid /\ Named(is[i]) = Named(js[i])
        /\ is[k].uid = js[k].uid /\ Named(is[k]) = Named(js[k])
    BY DEF Same, Named
  <2>3. QED
    BY <2>1, <2>2 DEF Apart
<1>4. QED
  BY <1>2, <1>3 DEF TableBut

\* jc_drop.
LEMMA DropTable ==
  ASSUME NEW pr, NEW n, NEW js \in Seq(Job), NEW b \in DOMAIN js,
         TableBut(pr, n, js, b)
  PROVE  TableBut(pr, n, Without(js, b), 0)
<1> DEFINE l == Len(js)
           is == Without(js, b)
           g(i) == IF i = b THEN l ELSE i
<1>1. l \in Nat /\ DOMAIN js = 1 .. l
  OBVIOUS
<1>2. /\ DOMAIN is = 1 .. (l - 1)
      /\ \A i \in 1 .. (l - 1) : is[i] = IF i = b THEN js[l] ELSE js[i]
  BY WithoutType
<1>3. \A i \in 1 .. (l - 1) : g(i) \in DOMAIN js \ {b} /\ is[i] = js[g(i)]
  BY <1>1, <1>2
<1>4. \A i, k \in 1 .. (l - 1) : i # k => g(i) # g(k)
  BY <1>1
<1> HIDE DEF is, g
<1>5. ASSUME NEW k \in 1 .. (l - 1)
      PROVE  Owned(pr, n, is[k])
  BY <1>3 DEF TableBut
<1>6. ASSUME NEW k \in 1 .. (l - 1), NEW i \in 1 .. (l - 1), i # k
      PROVE  Apart(is[i], is[k])
  <2>1. g(k) \in DOMAIN js \ {b} /\ g(i) \in DOMAIN js \ {b, g(k)}
    BY <1>3, <1>4, <1>6
  <2>2. Apart(js[g(i)], js[g(k)])
    BY <2>1 DEF TableBut
  <2>3. QED
    BY <1>3, <2>2
<1>7. QED
  BY <1>2, <1>5, <1>6 DEF TableBut, is

\* A step that reaps those of S: the job at b, if any, is dropped, and every
\* other is counted.
LEMMA Step ==
  ASSUME CountInv, Typed', NEW S, Reap(proc, proc', S), launched <= launched',
         NEW js \in Seq(Job), DOMAIN js = DOMAIN jobs, NEW b,
         \A k \in DOMAIN jobs \ {b} : Same(jobs[k], js[k], proc, S),
         \/ b \notin DOMAIN jobs /\ jobs' = js
         \/ b \in DOMAIN jobs /\ jobs' = Without(js, b)
  PROVE  ProcsFit(proc', launched') /\ TableBut(proc', launched', jobs', 0)
<1>1. launched \in Nat /\ launched' \in Nat /\ jobs \in Seq(Job)
  BY ConstantsAssumption DEF CountInv, Typed, TypeOK
<1>2. ProcsFit(proc', launched')
  BY <1>1, ReapFits DEF CountInv
<1>3. TableBut(proc', launched', js, b)
  BY <1>1, KeptTable DEF CountInv
<1>4. CASE b \notin DOMAIN jobs /\ jobs' = js
  BY <1>2, <1>3, <1>4 DEF TableBut
<1>5. CASE b \in DOMAIN jobs /\ jobs' = Without(js, b)
  BY <1>2, <1>3, <1>5, DropTable
<1>6. QED
  BY <1>4, <1>5

\* What is known of one job of the table.
LEMMA One ==
  ASSUME CountInv, NEW k \in DOMAIN jobs
  PROVE  /\ jobs[k] \in Job /\ k # 0 /\ Owned(proc, launched, jobs[k])
         /\ Who(jobs[k]) = ProcsIn(proc, jobs[k].uid)
         /\ Ask(jobs[k]) = ProcsIn(proc, jobs[k].uid)
         /\ \A i \in DOMAIN jobs : i # k => Apart(jobs[i], jobs[k])
<1>1. jobs[k] \in Job /\ k # 0
  BY DEF CountInv, Typed, TypeOK
<1>2. /\ Owned(proc, launched, jobs[k])
      /\ \A i \in DOMAIN jobs \ {0, k} : Apart(jobs[i], jobs[k])
  BY <1>1 DEF CountInv, TableBut
<1>3. \A i \in DOMAIN jobs : i # 0
  BY DEF CountInv, Typed, TypeOK
<1>4. QED
  BY <1>1, <1>2, <1>3, Members

\* Nothing of a job changes.
LEMMA SameSelf ==
  ASSUME CountInv, NEW k \in DOMAIN jobs, NEW S, ProcsIn(proc, jobs[k].uid) \cap S = {}
  PROVE  Same(jobs[k], jobs[k], proc, S)
  BY One, SameApart

\* A job keeps its names and its count, and is done only if nothing is left.
Alike(j, i) ==
  /\ i \in Job
  /\ i.uid = j.uid /\ i.pgid = j.pgid /\ i.last = j.last /\ i.np = j.np
  /\ i.ndone = j.ndone
  /\ i.state = "done" => j.state = "done" \/ ProcsIn(proc, j.uid) = {}

\* A step that reaps nothing: the job at b, if any, is dropped.
LEMMA QuietStep ==
  ASSUME CountInv, Typed', Reap(proc, proc', {}), launched <= launched',
         NEW js \in Seq(Job), DOMAIN js = DOMAIN jobs, NEW b,
         \A k \in DOMAIN jobs \ {b} : Alike(jobs[k], js[k]),
         \/ b \notin DOMAIN jobs /\ jobs' = js
         \/ b \in DOMAIN jobs /\ jobs' = Without(js, b)
  PROVE  ProcsFit(proc', launched') /\ TableBut(proc', launched', jobs', 0)
<1>1. ASSUME NEW k \in DOMAIN jobs \ {b}
      PROVE  Same(jobs[k], js[k], proc, {})
  <2>1. /\ jobs[k] \in Job /\ Owned(proc, launched, jobs[k])
        /\ Alike(jobs[k], js[k])
    BY One
  <2>2. QED
    BY <2>1, SameApart DEF Alike
<1>2. QED
  BY <1>1, Step

\* And none is changed.
LEMMA StillStep ==
  ASSUME CountInv, Typed', Reap(proc, proc', {}), launched <= launched',
         jobs' = jobs
  PROVE  ProcsFit(proc', launched') /\ TableBut(proc', launched', jobs', 0)
<1>1. /\ jobs \in Seq(Job) /\ 0 \notin DOMAIN jobs
      /\ \A k \in DOMAIN jobs \ {0} : Alike(jobs[k], jobs[k])
  BY DEF CountInv, Typed, TypeOK, Alike
<1>2. QED
  BY <1>1, QuietStep

\* Or one is only dropped.
LEMMA DropStep ==
  ASSUME CountInv, Typed', Reap(proc, proc', {}), launched <= launched',
         NEW b \in DOMAIN jobs, jobs' = Without(jobs, b)
  PROVE  ProcsFit(proc', launched') /\ TableBut(proc', launched', jobs', 0)
<1>1. /\ jobs \in Seq(Job)
      /\ \A k \in DOMAIN jobs \ {b} : Alike(jobs[k], jobs[k])
  BY DEF CountInv, Typed, TypeOK, Alike
<1>2. QED
  BY <1>1, QuietStep

\* The process table is as it was, or stops and goes on.
LEMMA ReapNone ==
  ASSUME TypeOK
  PROVE  /\ Reap(proc, proc, {})
         /\ \A S : Reap(proc, Halted(S), {}) /\ Reap(proc, Continued(S), {})
         /\ \A p \in Pid : Stopped(p) => Reap(proc, [proc EXCEPT ![p] = Taken(p)], {})
         /\ \A p \in Pid : proc[p].ph = "zombie" =>
              Reap(proc, [proc EXCEPT ![p] = Taken(p)], {p})
<1>1. \A p \in Pid : proc[p] \in Process
  BY DEF TypeOK
<1>2. DOMAIN proc = Pid
  BY DEF TypeOK
<1>3. Reap(proc, proc, {})
  BY DEF Reap
<1>4. ASSUME NEW S, NEW p \in Pid
      PROVE  /\ Halted(S)[p].own = proc[p].own /\ Halted(S)[p].grp = proc[p].grp
             /\ Halted(S)[p].ph = "free" <=> proc[p].ph = "free"
  BY <1>1 DEF Halted, Process
<1>5. ASSUME NEW S, NEW p \in Pid
      PROVE  /\ Continued(S)[p].own = proc[p].own /\ Continued(S)[p].grp = proc[p].grp
             /\ Continued(S)[p].ph = "free" <=> proc[p].ph = "free"
  BY <1>1 DEF Continued, Process
<1>6. ASSUME NEW p \in Pid, Stopped(p)
      PROVE  Reap(proc, [proc EXCEPT ![p] = Taken(p)], {})
  <2>1. /\ Taken(p).own = proc[p].own /\ Taken(p).grp = proc[p].grp
        /\ Taken(p).ph = "free" <=> proc[p].ph = "free"
    BY <1>1, <1>6 DEF Taken, Process, Stopped
  <2>2. QED
    BY <1>2, <2>1 DEF Reap
<1>7. ASSUME NEW p \in Pid, proc[p].ph = "zombie"
      PROVE  Reap(proc, [proc EXCEPT ![p] = Taken(p)], {p})
  <2>1. Taken(p) = Free
    BY <1>7 DEF Taken
  <2>2. QED
    BY <1>2, <2>1 DEF Reap
<1>8. QED
  BY <1>3, <1>4, <1>5, <1>6, <1>7 DEF Reap

\* New processes that are not the job's leave it as it was.
LEMMA OwnedBorn ==
  ASSUME NEW pr, NEW qr, NEW n \in Nat, NEW m \in Nat, n <= m, ProcsFit(pr, n),
         NEW j \in Job, Owned(pr, n, j),
         \A p \in Pid :
           \/ qr[p] = pr[p]
           \/ /\ pr[p].ph = "free" /\ p \notin Named(j) /\ qr[p].ph # "free"
              /\ qr[p].own # j.uid /\ (Interactive => qr[p].grp # j.pgid)
  PROVE  Owned(qr, m, j)
<1>1. j.uid \in 1 .. n /\ j.uid # 0
  BY DEF Owned
<1>2. ASSUME NEW p \in Pid
      PROVE  /\ qr[p].own = j.uid <=> pr[p].own = j.uid
             /\ qr[p].own = j.uid <=> p \in Named(j) /\ qr[p].ph # "free"
             /\ Interactive /\ qr[p].ph # "free"
                  => (qr[p].grp = j.pgid <=> qr[p].own = j.uid)
  <2>1. /\ pr[p].own = j.uid <=> p \in Named(j) /\ pr[p].ph # "free"
        /\ Interactive /\ pr[p].ph # "free"
             => (pr[p].grp = j.pgid <=> pr[p].own = j.uid)
        /\ pr[p].ph = "free" => pr[p].own = 0
    BY DEF Owned, ProcsFit
  <2>2. QED
    BY <1>1, <2>1
<1>3. ProcsIn(qr, j.uid) = ProcsIn(pr, j.uid)
  BY <1>2 DEF ProcsIn
<1>4. j.uid \in 1 .. m
  BY <1>1
<1>5. QED
  BY <1>2, <1>3, <1>4 DEF Owned

\* A step that reaps processes of no job.
LEMMA OtherStep ==
  ASSUME CountInv, Typed', NEW S, Reap(proc, proc', S), launched <= launched',
         jobs' = jobs, \A k \in DOMAIN jobs : ProcsIn(proc, jobs[k].uid) \cap S = {}
  PROVE  ProcsFit(proc', launched') /\ TableBut(proc', launched', jobs', 0)
<1>1. jobs \in Seq(Job) /\ 0 \notin DOMAIN jobs
  BY DEF CountInv, Typed, TypeOK
<1>2. \A k \in DOMAIN jobs \ {0} : Same(jobs[k], jobs[k], proc, S)
  BY SameSelf
<1>3. QED
  BY <1>1, <1>2, Step

LEMMA AskedKept ==
  ASSUME Asked, Waiting' /\ w'.op = "pid" => Waiting /\ w' = w /\ jobs' = jobs
  PROVE  Asked'
  BY DEF Asked

-----------------------------------------------------------------------------
(***************************************************************************)
(* The kernel and the modules                                              *)
(***************************************************************************)

\* A child of a module is no job's.
LEMMA ModuleApart ==
  ASSUME CountInv, NEW k \in DOMAIN jobs
  PROVE  jobs[k].uid # Module
<1>1. jobs[k].uid \in 1 .. launched /\ launched \in 0 .. MaxLaunch
  BY One DEF Owned, CountInv, Typed, TypeOK
<1>2. QED
  BY <1>1, ConstantsAssumption DEF Module

LEMMA KernelCounts ==
  ASSUME CountInv, Typed', Steady, Kernel
  PROVE  CountInv'
<1>1. /\ jobs' = jobs /\ w' = w /\ pc' = pc /\ launched' = launched
  BY DEF Kernel, KExit, KStop, KCont, KLeave, ModFork, ModReap, KSignal
<1>2. Asked'
  BY <1>1, AskedKept DEF CountInv, Waiting
<1>3. TypeOK /\ launched \in Nat /\ \A p \in Pid : proc[p] \in Process
  BY ConstantsAssumption DEF CountInv, Typed, TypeOK
<1>4. ASSUME Reap(proc, proc', {})
      PROVE  CountInv'
  BY <1>1, <1>2, <1>3, <1>4, StillStep DEF CountInv
<1>5. ASSUME NEW p \in Pid, NEW s \in Status, KExit(p, s)
      PROVE  Reap(proc, proc', {})
  <2>1. proc' = [proc EXCEPT ![p].ph = "zombie", ![p].st = s, ![p].told = FALSE]
    BY <1>5 DEF KExit
  <2>2. /\ proc'[p].own = proc[p].own /\ proc'[p].grp = proc[p].grp
        /\ proc'[p].ph = "zombie" /\ proc[p].ph # "free"
        /\ \A q \in Pid \ {p} : proc'[q] = proc[q]
    BY <1>3, <1>5, <2>1 DEF KExit, Live, TypeOK, Process
  <2>3. QED
    BY <2>2 DEF Reap
<1>6. ASSUME KSignal \/ \E p \in Pid : KStop(p) \/ KCont(p)
      PROVE  Reap(proc, proc', {})
  BY <1>3, <1>6, ReapNone DEF KStop, KCont, KSignal
<1>7. ASSUME NEW p \in Pid, KLeave(p)
      PROVE  Reap(proc, proc', {})
  <2>1. /\ ~Interactive /\ proc' = [proc EXCEPT ![p].grp = NoPid]
    BY <1>7 DEF KLeave, Steady
  <2>2. /\ proc'[p].own = proc[p].own /\ proc'[p].ph = proc[p].ph
        /\ \A q \in Pid \ {p} : proc'[q] = proc[q]
    BY <1>3, <2>1 DEF TypeOK, Process
  <2>3. QED
    BY <2>1, <2>2 DEF Reap
<1>8. ASSUME NEW p \in Pid, ModReap(p)
      PROVE  CountInv'
  <2>1. Reap(proc, proc', {p})
    <3>1. proc[p].ph = "zombie" /\ proc' = [proc EXCEPT ![p] = Taken(p)]
      BY <1>8 DEF ModReap, Taken
    <3>2. Reap(proc, [proc EXCEPT ![p] = Taken(p)], {p})
      BY <1>3, <3>1, ReapNone
    <3>3. QED
      BY <3>1, <3>2
  <2>2. \A k \in DOMAIN jobs : ProcsIn(proc, jobs[k].uid) \cap {p} = {}
    BY <1>8, ModuleApart DEF ModReap, ProcsIn
  <2>3. ProcsFit(proc', launched') /\ TableBut(proc', launched', jobs', 0)
    BY <1>1, <1>3, <2>1, <2>2, OtherStep
  <2>4. QED
    BY <1>2, <2>3 DEF CountInv
<1>9. ASSUME NEW p \in Pid, ModFork(p)
      PROVE  CountInv'
  <2>1. /\ proc' = [proc EXCEPT ![p] = [ph |-> "run", grp |-> p, st |-> 0,
                                       told |-> FALSE, own |-> Module]]
        /\ proc[p].ph = "free"
        /\ \A k \in DOMAIN jobs : p \notin {jobs[k].last, jobs[k].pgid}
    BY <1>9 DEF ModFork, FreshPid, Steady
  <2>2. /\ proc'[p].ph = "run" /\ proc'[p].grp = p /\ proc'[p].own = Module
        /\ \A q \in Pid \ {p} : proc'[q] = proc[q]
    BY <1>3, <2>1 DEF TypeOK
  <2>3. ProcsFit(proc', launched')
    BY <1>1, <2>2 DEF CountInv, ProcsFit
  <2>4. ASSUME NEW k \in DOMAIN jobs
        PROVE  Owned(proc', launched', jobs[k])
    <3>1. /\ jobs[k] \in Job /\ Owned(proc, launched, jobs[k])
          /\ jobs[k].uid # Module /\ p \notin Named(jobs[k])
      BY <2>1, One, ModuleApart DEF Named
    <3>2. \A q \in Pid :
            \/ proc'[q] = proc[q]
            \/ /\ proc[q].ph = "free" /\ q \notin Named(jobs[k])
               /\ proc'[q].ph # "free" /\ proc'[q].own # jobs[k].uid
               /\ Interactive => proc'[q].grp # jobs[k].pgid
      BY <2>1, <2>2, <3>1 DEF Named
    <3>3. launched <= launched' /\ launched' \in Nat /\ ProcsFit(proc, launched)
      BY <1>1, <1>3 DEF CountInv
    <3>4. QED
      BY <1>3, <3>1, <3>2, <3>3, OwnedBorn
  <2>5. TableBut(proc', launched', jobs', 0)
    BY <1>1, <2>4 DEF CountInv, TableBut
  <2>6. QED
    BY <1>2, <2>3, <2>5 DEF CountInv
<1>10. QED
  BY <1>4, <1>5, <1>6, <1>7, <1>8, <1>9 DEF Kernel

-----------------------------------------------------------------------------
(***************************************************************************)
(* jc_poll                                                                 *)
(***************************************************************************)

\* No job is asked about another's processes, so a poll reaps each once.
LEMMA ClaimIs ==
  ASSUME CountInv, NEW k \in DOMAIN jobs
  PROVE  Claim(k) = IF jobs[k].state = "done" THEN {}
                    ELSE News(ProcsIn(proc, jobs[k].uid))
<1> DEFINE P == ProcsIn(proc, jobs[k].uid)
<1>1. Who(jobs[k]) = P
  BY One
<1>2. ASSUME NEW p \in P, NEW h \in 1 .. (k - 1)
      PROVE  p \notin Who(jobs[h])
  <2>1. h \in DOMAIN jobs /\ h # k
    BY DEF CountInv, Typed, TypeOK
  <2>2. Who(jobs[h]) = ProcsIn(proc, jobs[h].uid) /\ jobs[h].uid # jobs[k].uid
    BY <2>1, One DEF Apart
  <2>3. QED
    BY <2>2 DEF ProcsIn
<1> HIDE DEF P
<1>3. {p \in Who(jobs[k]) : \A h \in 1 .. (k - 1) :
         jobs[h].state = "done" \/ p \notin Who(jobs[h])} = P
  BY <1>1, <1>2
<1>4. QED
  BY <1>3 DEF Claim, P

LEMMA PollCounts ==
  ASSUME CountInv, Typed', Poll, launched' = launched
  PROVE  ProcsFit(proc', launched') /\ TableBut(proc', launched', jobs', 0)
<1> DEFINE P(k) == ProcsIn(proc, jobs[k].uid)
           S == {p \in Pid : proc[p].ph = "zombie" /\ \E k \in DOMAIN jobs : p \in Claim(k)}
<1>1. PICK late \in BOOLEAN : jobs' = [k \in DOMAIN jobs |-> Polled(k, late)]
  BY DEF Poll
<1>2. proc' = [p \in Pid |-> IF \E k \in DOMAIN jobs : p \in Claim(k)
                             THEN Taken(p) ELSE proc[p]]
  BY DEF Poll
<1>3. TypeOK /\ TypeOK' /\ launched \in Nat
  BY ConstantsAssumption DEF CountInv, Typed, TypeOK
<1>4. Reap(proc, proc', S)
  <2>1. ASSUME NEW p \in Pid
        PROVE  IF p \in S THEN proc'[p] = Free
               ELSE /\ proc'[p].own = proc[p].own
                    /\ Interactive => proc'[p].grp = proc[p].grp
                    /\ proc'[p].ph = "free" <=> proc[p].ph = "free"
    <3>1. proc[p] \in Process
      BY <1>3 DEF TypeOK
    <3>2. proc'[p] \in {Taken(p), proc[p]} /\ (p \in S => proc'[p] = Taken(p))
      BY <1>2
    <3>3. proc[p].ph = "zombie" /\ p \notin S => proc'[p] = proc[p]
      BY <1>2
    <3> HIDE DEF S
    <3>4. CASE proc[p].ph = "zombie"
      BY <3>2, <3>3, <3>4 DEF Taken
    <3>5. CASE proc[p].ph # "zombie"
      <4>1. p \notin S
        BY <3>5 DEF S
      <4>2. /\ Taken(p).own = proc[p].own /\ Taken(p).grp = proc[p].grp
            /\ Taken(p).ph = proc[p].ph
        BY <3>1, <3>5 DEF Taken, Process
      <4>3. QED
        BY <3>2, <4>1, <4>2
    <3>6. QED
      BY <3>4, <3>5
  <2>2. QED
    BY <2>1 DEF Reap
<1>5. ASSUME NEW k \in DOMAIN jobs
      PROVE  Same(jobs[k], jobs'[k], proc, S)
  <2> DEFINE j == jobs[k]
             stops == {p \in Claim(k) : Stopped(p)}
             exits == Claim(k) \ stops
             nd == j.ndone + Cardinality(exits)
             over == exits # {} /\ nd >= j.np
  <2>1. j \in Job /\ Owned(proc, launched, j)
    BY One
  <2>2. /\ jobs'[k] = Polled(k, late)
        /\ Polled(k, late).uid = j.uid /\ Polled(k, late).pgid = j.pgid
        /\ Polled(k, late).last = j.last /\ Polled(k, late).np = j.np
        /\ Polled(k, late).ndone = nd
        /\ Polled(k, late).state = IF over THEN "done"
                                   ELSE IF stops # {} THEN "stop" ELSE j.state
    <3>1. jobs'[k] = Polled(k, late)
      BY <1>1
    <3>2. QED
      BY <2>1, <3>1 DEF Polled, Job
  <2>3. j.state = "done" => P(k) = {}
    <3>1. Cardinality(P(k)) \in Nat /\ (Cardinality(P(k)) = 0 <=> P(k) = {})
      BY Finite
    <3>2. /\ j.state = "done" => j.ndone = j.np
          /\ Cardinality(P(k)) + j.ndone = j.np /\ j.ndone \in Nat
      BY <2>1 DEF Owned, Job
    <3>3. QED
      BY <3>1, <3>2
  <2>4. exits = P(k) \cap S
    <3>1. ASSUME NEW p \in Pid
          PROVE  p \in exits <=> p \in P(k) /\ p \in S
      <4>1. p \in exits <=> p \in Claim(k) /\ proc[p].ph = "zombie"
        BY ClaimIs DEF News, Stopped
      <4>2. p \in Claim(k) => p \in P(k)
        BY ClaimIs DEF News
      <4>3. p \in P(k) /\ proc[p].ph = "zombie" => p \in Claim(k)
        BY <2>3, ClaimIs DEF News
      <4>4. QED
        BY <4>1, <4>2, <4>3
    <3>2. exits \subseteq Pid /\ P(k) \subseteq Pid
      BY ClaimIs DEF News, ProcsIn
    <3>3. QED
      BY <3>1, <3>2
  <2>5. /\ Cardinality(exits) \in Nat /\ Cardinality(P(k)) \in Nat
        /\ Cardinality(exits) <= Cardinality(P(k))
        /\ exits = {} => Cardinality(exits) = 0
    <3>1. IsFiniteSet(P(k)) /\ exits \in SUBSET P(k)
      BY <2>4, Finite
    <3>2. QED
      BY <3>1, FS_Subset, FS_CardinalityType, FS_EmptySet
  <2>6. j.state = "done" => exits = {} /\ stops = {}
    BY ClaimIs
  <2>7. /\ j.ndone \in Nat /\ j.np \in Nat /\ Cardinality(P(k)) + j.ndone = j.np
        /\ j.state = "done" => j.ndone = j.np
    BY <2>1 DEF Owned, Job
  <2>8. jobs'[k].state = "done" => nd = j.np
    <3> HIDE DEF stops, exits, P, j
    <3>1. QED
      BY <2>2, <2>5, <2>6, <2>7
  <2> HIDE DEF stops, exits, j, over
  <2>9. QED
    BY <2>2, <2>4, <2>8 DEF Same, j
<1>6. jobs' \in Seq(Job) /\ DOMAIN jobs' = DOMAIN jobs /\ 0 \notin DOMAIN jobs
  BY <1>1, <1>3 DEF TypeOK
<1> HIDE DEF S
<1>7. \A k \in DOMAIN jobs \ {0} : Same(jobs[k], jobs'[k], proc, S)
  BY <1>5
<1>8. launched <= launched'
  BY <1>3
<1>9. QED
  BY <1>4, <1>6, <1>7, <1>8, Step

-----------------------------------------------------------------------------
(***************************************************************************)
(* Launching                                                               *)
(***************************************************************************)

\* The first and the last are all there are, and they are different.
LEMMA Stages ==
  ASSUME NEW ps \in Seq(Pid), ps # <<>>, Len(ps) <= 2, Distinct(ps)
  PROVE  /\ ps[1] \in Pid /\ ps[Len(ps)] \in Pid
         /\ Len(ps) \in {1, 2}
         /\ \A p : (\E i \in DOMAIN ps : ps[i] = p) <=> p \in {ps[1], ps[Len(ps)]}
         /\ Cardinality({ps[1], ps[Len(ps)]}) = Len(ps)
<1>1. Len(ps) \in {1, 2} /\ DOMAIN ps = 1 .. Len(ps)
  <2>1. Len(ps) \in Nat /\ DOMAIN ps = 1 .. Len(ps)
    OBVIOUS
  <2>2. Len(ps) # 0
    BY EmptySeq
  <2>3. QED
    BY <2>1, <2>2
<1>2. ps[1] \in Pid /\ ps[Len(ps)] \in Pid
  BY <1>1
<1>3. \A p : (\E i \in DOMAIN ps : ps[i] = p) <=> p \in {ps[1], ps[Len(ps)]}
  BY <1>1
<1>4. CASE Len(ps) = 1
  <2>1. {ps[1], ps[Len(ps)]} = {ps[1]}
    BY <1>4
  <2>2. QED
    BY <1>1, <1>2, <1>3, <1>4, <2>1, FS_Singleton
<1>5. CASE Len(ps) = 2
  <2>1. ps[1] # ps[2]
    BY <1>1, <1>5 DEF Distinct
  <2>2. {ps[1], ps[2]} = {ps[1]} \cup {ps[2]} /\ ps[2] \notin {ps[1]}
    BY <2>1
  <2>3. IsFiniteSet({ps[1]}) /\ Cardinality({ps[1]}) = 1
    BY FS_Singleton
  <2>4. Cardinality({ps[1], ps[2]}) = 2
    <3>1. Cardinality({ps[1]} \cup {ps[2]}) = Cardinality({ps[1]}) + 1
      BY <2>2, <2>3, FS_AddElement
    <3>2. QED
      BY <2>2, <2>3, <3>1
  <2>5. {ps[1], ps[Len(ps)]} = {ps[1], ps[2]}
    BY <1>5
  <2>6. Cardinality({ps[1], ps[Len(ps)]}) = 2
    BY <2>4, <2>5
  <2>7. QED
    BY <1>1, <1>2, <1>3, <1>5, <2>6
<1>6. QED
  BY <1>1, <1>4, <1>5

LEMMA StartCounts ==
  ASSUME CountInv, Typed', Steady, launched < MaxLaunch,
         NEW ps \in Seq(Pid), ps # <<>>, Len(ps) <= 2, Distinct(ps),
         ~Interactive => Len(ps) = 1, NEW bg \in BOOLEAN,
         \A i \in DOMAIN ps : FreshPid(ps[i]),
         Started(ps), Added(Fresh(ps, bg))
  PROVE  ProcsFit(proc', launched') /\ TableBut(proc', launched', jobs', 0)
<1> DEFINE j == Fresh(ps, bg)
           u == launched + 1
           g == IF Interactive THEN ps[1] ELSE NoPid
           N == Named(j)
           new == [ph |-> "run", st |-> 0, told |-> FALSE, grp |-> g, own |-> u]
           l == Len(jobs)
<1>1. /\ launched \in Nat /\ u \in Nat \ {0} /\ u < Module
      /\ l \in Nat /\ DOMAIN jobs = 1 .. l /\ jobs \in Seq(Job)
  BY ConstantsAssumption DEF CountInv, Typed, TypeOK, Module
<1>2. /\ j.pgid = ps[1] /\ j.last = ps[Len(ps)] /\ j.uid = u
      /\ j.np = Len(ps) /\ j.ndone = 0 /\ j.state = "run"
  BY DEF Fresh
<1>3. /\ N = {ps[1], ps[Len(ps)]} /\ N \subseteq Pid
      /\ Cardinality(N) = Len(ps) /\ ps[1] \in N
      /\ \A p : (\E i \in DOMAIN ps : ps[i] = p) <=> p \in N
      /\ Len(ps) \in {1, 2}
  BY <1>2, Stages DEF Named
<1>4. /\ launched' = u
      /\ proc' = [p \in Pid |-> IF \E i \in DOMAIN ps : ps[i] = p THEN new ELSE proc[p]]
  BY DEF Started
<1>5. jobs' = Append(jobs, j)
  BY DEF Added
<1>6. j \in Job
  <2>1. jobs' \in Seq(Job)
    BY DEF Typed, TypeOK
  <2>2. jobs'[l + 1] = j /\ l + 1 \in DOMAIN jobs'
    BY <1>1, <1>5
  <2>3. QED
    BY <2>1, <2>2
<1>7. \A p \in N : /\ proc[p].ph = "free"
                   /\ \A q \in Child : proc[q].grp # p
                   /\ \A k \in DOMAIN jobs : p \notin Named(jobs[k])
  <2>1. ASSUME NEW p \in N PROVE FreshPid(p)
    <3>1. \E i \in DOMAIN ps : ps[i] = p
      BY <1>3
    <3>2. QED
      BY <3>1
  <2>2. QED
    BY <2>1 DEF FreshPid, Steady, Named
<1> HIDE DEF j, N
<1>8. \A p \in Pid : proc'[p] = IF p \in N THEN new ELSE proc[p]
  BY <1>3, <1>4
<1>9. new.ph = "run" /\ new.own = u /\ new.grp = g
  OBVIOUS
<1> HIDE DEF new
<1>10. \A p \in Pid : /\ proc[p].own \in (0 .. launched) \cup {Module}
                      /\ proc[p].ph = "free" => proc[p].own = 0
  BY DEF CountInv, ProcsFit
<1>11. \A p \in Pid : proc[p].own # u
  BY <1>1, <1>10
<1>12. ProcsFit(proc', launched')
  BY <1>1, <1>4, <1>8, <1>9, <1>10 DEF ProcsFit
<1>13. Owned(proc', u, j)
  <2>1. \A p \in Pid : /\ proc'[p].own = u <=> p \in N
                       /\ proc'[p].own = u <=> p \in N /\ proc'[p].ph # "free"
    BY <1>8, <1>9, <1>11
  <2>2. ProcsIn(proc', u) = N
    BY <1>3, <2>1 DEF ProcsIn
  <2>3. Cardinality(ProcsIn(proc', u)) + j.ndone = j.np
    <3>1. Cardinality(ProcsIn(proc', u)) = Len(ps) /\ Len(ps) \in {1, 2}
      BY <1>3, <2>2
    <3> HIDE DEF u
    <3>2. QED
      BY <1>2, <3>1
  <2>4. Interactive => \A p \in Pid : proc'[p].ph # "free" =>
                          (proc'[p].grp = j.pgid <=> proc'[p].own = u)
    BY <1>2, <1>3, <1>7, <1>8, <1>9, <1>11 DEF Child
  <2>5. ~Interactive => j.pgid = j.last
    BY <1>2
  <2>6. u \in 1 .. u
    BY <1>1
  <2>7. QED
    BY <1>2, <1>3, <2>1, <2>3, <2>4, <2>5, <2>6 DEF Owned, N
<1>14. ASSUME NEW k \in DOMAIN jobs
       PROVE  Owned(proc', u, jobs[k]) /\ Apart(j, jobs[k]) /\ Apart(jobs[k], j)
  <2>1. jobs[k] \in Job /\ Owned(proc, launched, jobs[k])
    BY One
  <2>2. jobs[k].uid # u
    BY <1>1, <2>1 DEF Owned
  <2>3. jobs[k].pgid \in Named(jobs[k]) /\ N \cap Named(jobs[k]) = {}
    <3>1. jobs[k].pgid \in Named(jobs[k])
      BY DEF Named
    <3>2. \A p \in N : p \notin Named(jobs[k])
      BY <1>7
    <3>3. QED
      BY <3>1, <3>2
  <2>4. \A p \in Pid :
          \/ proc'[p] = proc[p]
          \/ /\ proc[p].ph = "free" /\ p \notin Named(jobs[k])
             /\ proc'[p].ph # "free" /\ proc'[p].own # jobs[k].uid
             /\ Interactive => proc'[p].grp # jobs[k].pgid
    BY <1>3, <1>7, <1>8, <1>9, <2>2, <2>3
  <2>5. Owned(proc', u, jobs[k])
    BY <1>1, <2>1, <2>4, OwnedBorn DEF CountInv
  <2>6. QED
    BY <1>2, <2>2, <2>3, <2>5 DEF Apart, N
<1>15. /\ DOMAIN jobs' = 1 .. (l + 1) /\ jobs'[l + 1] = j
       /\ \A k \in 1 .. l : jobs'[k] = jobs[k]
  BY <1>1, <1>5, <1>6
<1>16. ASSUME NEW k \in DOMAIN jobs'
       PROVE  Owned(proc', u, jobs'[k])
  BY <1>1, <1>13, <1>14, <1>15
<1>17. ASSUME NEW k \in DOMAIN jobs', NEW i \in DOMAIN jobs', i # k
       PROVE  Apart(jobs'[i], jobs'[k])
  <2>1. CASE i = l + 1
    <3>1. k \in DOMAIN jobs /\ jobs'[k] = jobs[k]
      BY <1>1, <1>15, <1>17, <2>1
    <3>2. QED
      BY <1>14, <1>15, <2>1, <3>1
  <2>2. CASE k = l + 1
    <3>1. i \in DOMAIN jobs /\ jobs'[i] = jobs[i]
      BY <1>1, <1>15, <1>17, <2>2
    <3>2. QED
      BY <1>14, <1>15, <2>2, <3>1
  <2>3. CASE i # l + 1 /\ k # l + 1
    <3>1. /\ i \in DOMAIN jobs /\ k \in DOMAIN jobs
          /\ jobs'[i] = jobs[i] /\ jobs'[k] = jobs[k]
      BY <1>1, <1>15, <2>3
    <3>2. QED
      BY <3>1, <1>17, One
  <2>4. QED
    BY <2>1, <2>2, <2>3
<1>18. TableBut(proc', u, jobs', 0)
  BY <1>16, <1>17 DEF TableBut
<1>19. QED
  BY <1>4, <1>12, <1>18

LEMMA LaunchCounts ==
  ASSUME CountInv, Typed', Steady,
         \/ Background \/ TidyForget \/ TidyEnd \/ ForkFails
         \/ \E p \in Pid : Fork(p)
         \/ \E ps \in Pipelines : Distinct(ps) /\ Foreground(ps)
  PROVE  CountInv'
<1> USE DEF shell
<1>1. TypeOK /\ launched \in Nat /\ Reap(proc, proc, {})
  BY ConstantsAssumption, ReapNone DEF CountInv, Typed, TypeOK
<1>2. CASE Background
  <2>1. Asked'
    BY <1>2, AskedKept DEF Background, CountInv, Waiting
  <2>2. CASE jobs = <<>>
    <3>1. jobs' = jobs /\ proc' = proc /\ launched' = launched
      BY <1>2, <2>2 DEF Background
    <3>2. QED
      BY <1>1, <2>1, <3>1, StillStep DEF CountInv
  <2>3. CASE jobs # <<>>
    <3>1. Poll /\ launched' = launched
      BY <1>2, <2>3 DEF Background
    <3>2. QED
      BY <2>1, <3>1, PollCounts DEF CountInv
  <2>4. QED
    BY <2>2, <2>3
<1>3. CASE TidyForget
  <2>1. PICK k \in DOMAIN jobs : Drop(jobs, k)
    BY <1>3 DEF TidyForget, DoneJobs
  <2>2. jobs' = Without(jobs, k) /\ proc' = proc /\ launched' = launched
    BY <1>3, <2>1 DEF TidyForget, Drop
  <2>3. Asked'
    BY <1>3, AskedKept DEF TidyForget, CountInv, Waiting
  <2>4. QED
    BY <1>1, <2>2, <2>3, DropStep DEF CountInv
<1>4. CASE TidyEnd \/ ForkFails
  <2>1. jobs' = jobs /\ proc' = proc /\ launched' \in {launched, launched + 1}
    BY <1>4 DEF TidyEnd, ForkFails
  <2>2. Asked'
    BY <1>4, AskedKept DEF TidyEnd, ForkFails, CountInv, Waiting
  <2>3. launched <= launched'
    BY <1>1, <2>1
  <2>4. Reap(proc, proc', {})
    BY <1>1, <2>1
  <2>5. QED
    BY <2>1, <2>2, <2>3, <2>4, StillStep DEF CountInv
<1>5. ASSUME NEW p \in Pid, Fork(p)
      PROVE  CountInv'
  <2> DEFINE ps == <<p>>
  <2>1. /\ ps \in Seq(Pid) /\ ps # <<>> /\ Len(ps) = 1 /\ Distinct(ps)
        /\ \A i \in DOMAIN ps : ps[i] = p
    BY DEF Distinct
  <2>2. /\ launched < MaxLaunch /\ FreshPid(p)
        /\ Started(ps) /\ Added(Fresh(ps, TRUE))
    BY <1>5 DEF Fork, CountInv, Typed, Room
  <2>3. Asked'
    BY <1>5, AskedKept DEF Fork, CountInv, Waiting
  <2> HIDE DEF ps
  <2>4. Len(ps) <= 2 /\ \A i \in DOMAIN ps : FreshPid(ps[i])
    BY <2>1, <2>2
  <2>5. QED
    BY <2>1, <2>2, <2>3, <2>4, StartCounts DEF CountInv
<1>6. ASSUME NEW ps \in Pipelines, Distinct(ps), Foreground(ps)
      PROVE  CountInv'
  <2>1. PICK n \in 1 .. MaxStages : ps \in [1 .. n -> Pid]
    BY DEF Pipelines
  <2>2. Interactive /\ MaxStages <= 2 /\ MaxStages \in Nat
    BY <1>6, ConstantsAssumption DEF Foreground, Steady
  <2>3. ps \in Seq(Pid) /\ ps # <<>> /\ Len(ps) <= 2
    BY <2>1, <2>2
  <2>4. /\ launched < MaxLaunch /\ \A i \in DOMAIN ps : FreshPid(ps[i])
        /\ Started(ps) /\ Added(Fresh(ps, FALSE))
    BY <1>6 DEF Foreground
  <2>5. Asked'
    <3>1. w'.op \in {"fg", "pipe"}
      BY <1>6 DEF Foreground, NoWork
    <3>2. QED
      BY <3>1 DEF Asked
  <2>6. QED
    BY <1>6, <2>2, <2>3, <2>4, <2>5, StartCounts DEF CountInv
<1>7. QED
  BY <1>2, <1>3, <1>4, <1>5, <1>6

-----------------------------------------------------------------------------
(***************************************************************************)
(* fg, bg, kill, disown, jobs and the report before a prompt               *)
(***************************************************************************)

\* A step that reaps nothing and changes one job at most.
LEMMA OneAlike ==
  ASSUME CountInv, Typed', Reap(proc, proc', {}), launched' = launched,
         NEW k \in DOMAIN jobs, NEW i, Alike(jobs[k], i),
         jobs' \in {jobs, [jobs EXCEPT ![k] = i], Without(jobs, k)}
  PROVE  ProcsFit(proc', launched') /\ TableBut(proc', launched', jobs', 0)
<1>1. TypeOK /\ launched \in Nat /\ launched <= launched' /\ 0 \notin DOMAIN jobs
  BY ConstantsAssumption DEF CountInv, Typed, TypeOK
<1>2. CASE jobs' = jobs
  BY <1>1, <1>2, StillStep
<1>3. CASE jobs' = Without(jobs, k)
  BY <1>1, <1>3, DropStep
<1>4. CASE jobs' = [jobs EXCEPT ![k] = i]
  <2>1. jobs \in Seq(Job) /\ i \in Job
    BY <1>1 DEF TypeOK, Alike
  <2>2. jobs' \in Seq(Job) /\ DOMAIN jobs' = DOMAIN jobs
    BY <1>4, <2>1, UpdateType
  <2>3. ASSUME NEW h \in DOMAIN jobs \ {0} PROVE Alike(jobs[h], jobs'[h])
    <3>1. jobs[h] \in Job
      BY <2>1
    <3>2. CASE h = k
      BY <1>4, <3>2
    <3>3. CASE h # k
      BY <1>4, <3>1, <3>3 DEF Alike
    <3>4. QED
      BY <3>2, <3>3
  <2>4. QED
    BY <1>1, <2>2, <2>3, QuietStep
<1>5. QED
  BY <1>2, <1>3, <1>4

LEMMA CommandCounts ==
  ASSUME CountInv, Typed', NEW id \in Launch,
         \/ Command \/ CmdFg(id) \/ CmdBg(id) \/ CmdDisown(id)
         \/ \E s \in {"TERM", "STOP", "CONT"} : CmdKill(id, s)
  PROVE  CountInv'
<1> USE DEF shell
<1> DEFINE k == At(id)
<1>1. TypeOK /\ launched \in Nat /\ Reap(proc, proc, {})
  BY ConstantsAssumption, ReapNone DEF CountInv, Typed, TypeOK
<1>2. CASE Command
  <2>1. jobs' = jobs /\ proc' = proc /\ launched' = launched /\ pc' = "end"
    BY <1>2 DEF Command
  <2>2. launched <= launched'
    BY <1>1, <2>1
  <2>3. Reap(proc, proc', {})
    BY <1>1, <2>1
  <2>4. QED
    BY <2>1, <2>2, <2>3, StillStep DEF CountInv, Asked, Waiting
<1>3. CASE CmdFg(id) \/ CmdBg(id) \/ CmdDisown(id)
           \/ \E s \in {"TERM", "STOP", "CONT"} : CmdKill(id, s)
  <2>1. k \in DOMAIN jobs /\ jobs[k] \in Job
    <3>1. k \in DOMAIN jobs
      BY <1>3, AtType DEF CmdFg, CmdBg, CmdKill, CmdDisown, Resumable
    <3> HIDE DEF k
    <3>2. QED
      BY <1>1, <3>1 DEF TypeOK
  <2> DEFINE fg == [jobs[k] EXCEPT !.state = "run", !.bg = FALSE, !.note = FALSE]
             bg == [jobs[k] EXCEPT !.state = "run", !.bg = TRUE, !.note = TRUE]
             on == [jobs[k] EXCEPT !.state = "run"]
  <2>2. Alike(jobs[k], fg) /\ Alike(jobs[k], bg) /\ Alike(jobs[k], on)
    <3> DEFINE j == jobs[k]
    <3>1. j \in Job
      BY <2>1
    <3> HIDE DEF j
    <3>2. Alike(j, [j EXCEPT !.state = "run", !.bg = FALSE, !.note = FALSE])
      BY <3>1 DEF Alike, Job
    <3>3. Alike(j, [j EXCEPT !.state = "run", !.bg = TRUE, !.note = TRUE])
      BY <3>1 DEF Alike, Job
    <3>4. Alike(j, [j EXCEPT !.state = "run"])
      BY <3>1 DEF Alike, Job
    <3>5. QED
      BY <3>2, <3>3, <3>4 DEF j
  <2>3. jobs' \in {jobs, [jobs EXCEPT ![k] = fg], [jobs EXCEPT ![k] = bg],
                   [jobs EXCEPT ![k] = on], Without(jobs, k)}
    BY <1>1, <1>3, <2>1 DEF CmdFg, CmdBg, CmdKill, CmdDisown, Drop, TypeOK
  <2>4. launched' = launched
    BY <1>3 DEF CmdFg, CmdBg, CmdKill, CmdDisown
  <2>5. Reap(proc, proc', {})
    <3>1. proc' = proc \/ \E S : proc' = Halted(S) \/ proc' = Continued(S)
      BY <1>3 DEF CmdFg, CmdBg, CmdKill, CmdDisown
    <3>2. QED
      BY <1>1, <3>1, ReapNone
  <2>6. Asked'
    <3>1. CASE CmdFg(id)
      BY <3>1 DEF CmdFg, NoWork, Asked
    <3>2. CASE CmdBg(id) \/ CmdDisown(id)
               \/ \E s \in {"TERM", "STOP", "CONT"} : CmdKill(id, s)
      BY <3>2 DEF CmdBg, CmdDisown, CmdKill, Asked, Waiting
    <3>3. QED
      BY <1>3, <3>1, <3>2
  <2> HIDE DEF k, fg, bg, on
  <2>7. ProcsFit(proc', launched') /\ TableBut(proc', launched', jobs', 0)
    BY <2>1, <2>2, <2>3, <2>4, <2>5, OneAlike
  <2>8. QED
    BY <2>6, <2>7 DEF CountInv
<1>4. QED
  BY <1>2, <1>3

LEMMA ReportCounts ==
  ASSUME CountInv, Typed', CmdJobs \/ Prompt \/ Walk \/ WalkEnd \/ CmdPoll
  PROVE  CountInv'
<1> USE DEF shell
<1>1. TypeOK /\ launched \in Nat /\ Reap(proc, proc, {}) /\ launched' = launched
  BY ConstantsAssumption, ReapNone
     DEF CountInv, Typed, TypeOK, CmdJobs, Prompt, Walk, WalkEnd, CmdPoll
<1>2. Asked'
  BY DEF CmdJobs, Prompt, Walk, WalkEnd, CmdPoll, Asked, Waiting
<1>3. CASE CmdJobs \/ Prompt \/ CmdPoll
  <2>1. Poll
    BY <1>3 DEF CmdJobs, Prompt, CmdPoll
  <2>2. QED
    BY <1>1, <1>2, <2>1, PollCounts DEF CountInv
<1>4. CASE WalkEnd
  <2>1. jobs' = jobs /\ Reap(proc, proc', {}) /\ launched <= launched'
    BY <1>1, <1>4 DEF WalkEnd
  <2>2. QED
    BY <1>2, <2>1, StillStep DEF CountInv
<1>5. CASE Walk
  <2> DEFINE k == w.i
             i == [jobs[k] EXCEPT !.note = TRUE]
  <2>1. k \in DOMAIN jobs /\ jobs[k] \in Job
    BY <1>1, <1>5 DEF Walk, TypeOK, Work
  <2>2. Alike(jobs[k], i)
    BY <2>1 DEF Alike, Job
  <2>3. jobs' \in {jobs, [jobs EXCEPT ![k] = i], Without(jobs, k)} /\ proc' = proc
    BY <1>1, <1>5, <2>1 DEF Walk, Passed, Shown, Drop, TypeOK
  <2> HIDE DEF k, i
  <2>4. Reap(proc, proc', {})
    BY <1>1, <2>3
  <2>5. ProcsFit(proc', launched') /\ TableBut(proc', launched', jobs', 0)
    BY <1>1, <2>1, <2>2, <2>3, <2>4, OneAlike
  <2>6. QED
    BY <1>2, <2>5 DEF CountInv
<1>6. QED
  BY <1>3, <1>4, <1>5

-----------------------------------------------------------------------------
(***************************************************************************)
(* fg's wait, and wait                                                     *)
(***************************************************************************)

\* A job of which p was taken: counted if it exited, stopped if it stopped.
Reaped(j, i, p) ==
  /\ i \in Job
  /\ i.uid = j.uid /\ i.pgid = j.pgid /\ i.last = j.last /\ i.np = j.np
  /\ i.ndone = IF Stopped(p) THEN j.ndone ELSE j.ndone + 1
  /\ i.state # "done"

LEMMA AfterReaped ==
  ASSUME NEW j \in Job, j.state = "run", NEW p
  PROVE  /\ Reaped(j, After(j, p), p)
         /\ Stopped(p) => Reaped(j, [After(j, p) EXCEPT !.st = StopSt], p)
<1>1. CASE Stopped(p)
  BY <1>1, Sets DEF After, Reaped, Job
<1>2. CASE ~Stopped(p)
  BY <1>2 DEF After, Reaped, Job
<1>3. QED
  BY <1>1, <1>2

\* A step that takes one process: it is counted for its job, or its job is
\* dropped.
LEMMA OneReaped ==
  ASSUME CountInv, Typed', launched' = launched, NEW k \in DOMAIN jobs,
         NEW p \in News(ProcsIn(proc, jobs[k].uid)),
         proc' = [proc EXCEPT ![p] = Taken(p)],
         NEW js \in Seq(Job), DOMAIN js = DOMAIN jobs,
         \A h \in DOMAIN jobs \ {k} : Alike(jobs[h], js[h]),
         \/ Reaped(jobs[k], js[k], p) /\ jobs' = js
         \/ jobs' = Without(js, k)
  PROVE  ProcsFit(proc', launched') /\ TableBut(proc', launched', jobs', 0)
<1> DEFINE S == IF Stopped(p) THEN {} ELSE {p}
<1>1. TypeOK /\ launched <= launched' /\ 0 \notin DOMAIN jobs
  BY ConstantsAssumption DEF CountInv, Typed, TypeOK
<1>2. p \in Pid /\ proc[p].own = jobs[k].uid /\ (~Stopped(p) => proc[p].ph = "zombie")
  BY DEF News, ProcsIn
<1>3. Reap(proc, proc', S)
  BY <1>1, <1>2, ReapNone
<1>4. ASSUME NEW h \in DOMAIN jobs \ {k}
      PROVE  Same(jobs[h], js[h], proc, S)
  <2>1. /\ jobs[h] \in Job /\ Owned(proc, launched, jobs[h]) /\ Alike(jobs[h], js[h])
        /\ Apart(jobs[h], jobs[k])
    BY One
  <2>2. ProcsIn(proc, jobs[h].uid) \cap S = {}
    BY <1>2, <2>1 DEF Apart, ProcsIn
  <2> HIDE DEF S
  <2>3. QED
    BY <2>1, <2>2, SameApart DEF Alike
<1>5. ASSUME Reaped(jobs[k], js[k], p)
      PROVE  Same(jobs[k], js[k], proc, S)
  <2>1. jobs[k] \in Job /\ Owned(proc, launched, jobs[k])
    BY One
  <2>2. CASE Stopped(p)
    <3>1. S = {}
      BY <2>2
    <3>2. ProcsIn(proc, jobs[k].uid) \cap S = {}
      BY <3>1
    <3> HIDE DEF S
    <3>3. js[k].ndone = jobs[k].ndone
      BY <1>5, <2>2 DEF Reaped
    <3>4. QED
      BY <1>5, <2>1, <3>2, <3>3, SameApart DEF Reaped
  <2>3. CASE ~Stopped(p)
    <3>1. S = {p}
      BY <2>3
    <3>2. p \in ProcsIn(proc, jobs[k].uid)
      BY <1>2 DEF ProcsIn
    <3>3. js[k].ndone = jobs[k].ndone + 1
      BY <1>5, <2>3 DEF Reaped
    <3>4. Same(jobs[k], js[k], proc, {p})
      BY <1>5, <2>1, <3>2, <3>3, SameOne DEF Reaped
    <3>5. QED
      BY <3>1, <3>4
  <2>4. QED
    BY <2>2, <2>3
<1> HIDE DEF S
<1>6. CASE Reaped(jobs[k], js[k], p) /\ jobs' = js
  <2>1. \A h \in DOMAIN jobs \ {0} : Same(jobs[h], js[h], proc, S)
    BY <1>4, <1>5, <1>6
  <2>2. QED
    BY <1>1, <1>3, <1>6, <2>1, Step
<1>7. CASE jobs' = Without(js, k)
  BY <1>1, <1>3, <1>4, <1>7, Step
<1>8. QED
  BY <1>6, <1>7

\* fg and a wait for one job.
LEMMA HeldCounts ==
  ASSUME CountInv, Typed',
         FgEnd \/ JobEnd \/ \E p \in Pid : FgReap(p) \/ JobReap(p)
  PROVE  CountInv'
<1> USE DEF shell
<1> DEFINE k == At(w.id)
<1>1. TypeOK /\ launched' = launched /\ Reap(proc, proc, {})
  BY ReapNone DEF CountInv, Typed, FgEnd, JobEnd, FgReap, JobReap
<1>2. k \in DOMAIN jobs
  <2>1. HasJob(w.id)
    BY DEF FgReap, FgEnd, JobReap, JobEnd, Rounds, CountInv, Typed, HeldJob, Waiting
  <2>2. QED
    BY <2>1, AtType
<1>3. CASE FgEnd \/ JobEnd
  <2> DEFINE i == [jobs[k] EXCEPT !.bg = TRUE, !.st = w.st, !.note = TRUE]
  <2>1. jobs[k] \in Job /\ w.st \in St
    <3> HIDE DEF k
    <3>1. QED
      BY <1>1, <1>2 DEF TypeOK, Work
  <2>2. Alike(jobs[k], i)
    <3> DEFINE j == jobs[k]
    <3> HIDE DEF j
    <3>1. Alike(j, [j EXCEPT !.bg = TRUE, !.st = w.st, !.note = TRUE])
      BY <2>1 DEF Alike, Job, j
    <3>2. QED
      BY <3>1 DEF j
  <2>3. jobs' \in {jobs, [jobs EXCEPT ![k] = i], Without(jobs, k)} /\ proc' = proc
    BY <1>1, <1>2, <1>3, <2>1 DEF FgEnd, JobEnd, Drop, TypeOK
  <2>4. Asked'
    BY <1>3 DEF FgEnd, JobEnd, Asked, Waiting
  <2> HIDE DEF k, i
  <2>5. Reap(proc, proc', {})
    BY <1>1, <2>3
  <2>6. ProcsFit(proc', launched') /\ TableBut(proc', launched', jobs', 0)
    BY <1>1, <1>2, <2>2, <2>3, <2>5, OneAlike
  <2>7. QED
    BY <2>4, <2>6 DEF CountInv
<1>4. ASSUME NEW p \in Pid, FgReap(p) \/ JobReap(p) PROVE CountInv'
  <2> DEFINE i == After(jobs[k], p)
             s == [After(jobs[k], p) EXCEPT !.st = StopSt]
  <2>1. /\ jobs[k].state = "run"
        /\ p \in News(Who(jobs[k])) \/ p \in News(Ask(jobs[k]))
        /\ proc' = [proc EXCEPT ![p] = Taken(p)]
    BY <1>4 DEF FgReap, JobReap, Unfinished
  <2>2. \/ jobs' = [jobs EXCEPT ![k] = i]
        \/ Stopped(p) /\ jobs' = [jobs EXCEPT ![k] = s]
    BY <1>1, <1>2, <1>4 DEF FgReap, JobReap, TypeOK
  <2>3. Asked'
    <3>1. w'.op # "pid"
      BY <1>1, <1>4 DEF FgReap, JobReap, Rounds, NoWork, TypeOK, Work
    <3>2. QED
      BY <3>1 DEF Asked
  <2> HIDE DEF k, i, s
  <2>4. p \in News(ProcsIn(proc, jobs[k].uid)) /\ jobs[k] \in Job
    BY <1>2, <2>1, One
  <2>5. Reaped(jobs[k], i, p) /\ (Stopped(p) => Reaped(jobs[k], s, p))
    BY <2>1, <2>4, AfterReaped DEF i, s
  <2>6. PICK n : Reaped(jobs[k], n, p) /\ jobs' = [jobs EXCEPT ![k] = n]
    BY <2>2, <2>5
  <2>7. jobs \in Seq(Job) /\ n \in Job
    BY <1>1, <2>6 DEF TypeOK, Reaped
  <2>8. jobs' \in Seq(Job) /\ DOMAIN jobs' = DOMAIN jobs
    BY <2>6, <2>7, UpdateType
  <2>9. /\ \A h \in DOMAIN jobs \ {k} : Alike(jobs[h], jobs'[h])
        /\ Reaped(jobs[k], jobs'[k], p)
    <3>1. \A h \in DOMAIN jobs \ {k} : jobs'[h] = jobs[h] /\ jobs[h] \in Job
      BY <2>6, <2>7
    <3>2. jobs'[k] = n
      BY <1>2, <2>6
    <3>3. QED
      BY <2>6, <3>1, <3>2 DEF Alike
  <2>10. ProcsFit(proc', launched') /\ TableBut(proc', launched', jobs', 0)
    BY <1>1, <1>2, <2>1, <2>4, <2>8, <2>9, OneReaped
  <2>11. QED
    BY <2>3, <2>10 DEF CountInv
<1>5. QED
  BY <1>3, <1>4

\* jc_bypid finds the job a pid names, and none for a pid no job names that
\* is in no job's group.
LEMMA ByPidIs ==
  ASSUME CountInv, NEW p, NEW reaped
  PROVE  /\ ByPid(p, reaped) = 0 => \A k \in DOMAIN jobs : p \notin Named(jobs[k])
         /\ \A k \in DOMAIN jobs : p \in Named(jobs[k]) => ByPid(p, reaped) = k
<1> DEFINE named   == {k \in DOMAIN jobs : p \in {jobs[k].pgid, jobs[k].last}}
           grouped == {k \in DOMAIN jobs : /\ p \in Child /\ ~reaped
                                           /\ jobs[k].pgid = proc[p].grp}
           hits    == IF named # {} THEN named ELSE grouped
<1>1. hits \in SUBSET DOMAIN jobs /\ DOMAIN jobs \in SUBSET Nat /\ 0 \notin DOMAIN jobs
  BY DEF CountInv, Typed, TypeOK
<1>2. ByPid(p, reaped) = IF hits = {} THEN 0
                         ELSE CHOOSE k \in hits : \A h \in hits : k <= h
  BY DEF ByPid
<1>3. named # {} => hits = named
  OBVIOUS
<1>4. \A k \in DOMAIN jobs : k \in named <=> p \in Named(jobs[k])
  BY DEF Named
<1> HIDE DEF hits, named
<1>5. hits # {} => \E k \in hits : \A h \in hits : k <= h
  BY <1>1, FirstExists
<1>6. hits # {} => ByPid(p, reaped) \in hits
  BY <1>2, <1>5
<1>7. ASSUME NEW k \in DOMAIN jobs, p \in Named(jobs[k])
      PROVE  ByPid(p, reaped) = k
  <2>1. hits = named /\ ByPid(p, reaped) \in named
    BY <1>3, <1>4, <1>6, <1>7
  <2>2. ByPid(p, reaped) \in DOMAIN jobs /\ p \in Named(jobs[ByPid(p, reaped)])
    BY <1>1, <1>4, <2>1
  <2>3. ByPid(p, reaped) # k => Apart(jobs[ByPid(p, reaped)], jobs[k])
    BY <2>2, One
  <2>4. QED
    BY <1>7, <2>2, <2>3 DEF Apart
<1>8. QED
  BY <1>1, <1>6, <1>7

LEMMA OperandCounts ==
  ASSUME CountInv, Typed',
         \/ \E id \in Launch : WaitJob(id)
         \/ \E p \in Pid : WaitPid(p)
  PROVE  CountInv'
<1> USE DEF shell
<1>1. TypeOK /\ launched' = launched /\ launched <= launched'
  <2>1. launched' = launched
    BY DEF WaitJob, WaitPid
  <2>2. TypeOK /\ launched \in Nat
    BY ConstantsAssumption DEF CountInv, Typed, TypeOK
  <2>3. QED
    BY <2>1, <2>2
<1>2. proc' = proc /\ Reap(proc, proc', {})
  <2>1. proc' = proc
    BY DEF WaitJob, WaitPid
  <2>2. QED
    BY <1>1, <2>1, ReapNone
<1>3. ASSUME NEW k, k = 0 \/ k \in DOMAIN jobs, NEW arg, Operand(k, arg),
             k = 0 => \A h \in DOMAIN jobs : arg.pid \notin Named(jobs[h]),
             arg \in Work
      PROVE  CountInv'
  <2>1. jobs' = jobs \/ (k # 0 /\ jobs' = Without(jobs, k))
    BY <1>3 DEF Operand, Drop
  <2>2. ProcsFit(proc', launched') /\ TableBut(proc', launched', jobs', 0)
    <3>1. CASE jobs' = jobs
      BY <1>1, <1>2, <3>1, StillStep
    <3>2. CASE k # 0 /\ jobs' = Without(jobs, k)
      BY <1>1, <1>2, <1>3, <3>2, DropStep
    <3>3. QED
      BY <2>1, <3>1, <3>2
  <2>3. Asked'
    <3>1. CASE pc' = "more"
      BY <3>1 DEF Asked, Waiting
    <3>2. CASE k # 0 /\ w' = [arg EXCEPT !.op = "job", !.id = jobs[k].id]
      BY <1>3, <3>2 DEF Asked, Work
    <3>3. CASE k = 0 /\ w' = [arg EXCEPT !.op = "pid"] /\ jobs' = jobs
      <4>1. w'.pid = arg.pid
        BY <1>3, <3>3 DEF Work
      <4>2. QED
        BY <1>3, <3>3, <4>1 DEF Asked
    <3>4. QED
      BY <1>3, <3>1, <3>2, <3>3 DEF Operand
  <2>4. QED
    BY <2>2, <2>3 DEF CountInv
<1>4. ASSUME NEW id \in Launch, WaitJob(id) PROVE CountInv'
  <2> DEFINE k == IF HasJob(id) THEN At(id) ELSE 0
             arg == [NoWork EXCEPT !.own = IF k = 0 THEN 0 ELSE jobs[k].uid]
  <2>1. k = 0 \/ k \in DOMAIN jobs
    BY AtType
  <2>2. Operand(k, arg)
    BY <1>4 DEF WaitJob
  <2>3. k # 0 => jobs[k].uid \in Owner
    <3> HIDE DEF k
    <3>1. k # 0 => jobs[k] \in Job
      BY <1>1, <2>1 DEF TypeOK
    <3>2. QED
      BY <3>1, Sets DEF Job
  <2>4. arg \in Work
    <3> DEFINE o == IF k = 0 THEN 0 ELSE jobs[k].uid
    <3>1. o \in Owner
      BY <2>3, Sets
    <3> HIDE DEF o
    <3>2. [NoWork EXCEPT !.own = o] \in Work
      BY <3>1, NoWorkType, WorkType
    <3>3. QED
      BY <3>2 DEF o
  <2>5. arg.pid = NoPid
    BY DEF NoWork
  <2>6. \A h \in DOMAIN jobs : NoPid \notin Named(jobs[h])
    BY One, ConstantsAssumption DEF Owned
  <2> HIDE DEF k, arg
  <2>7. QED
    BY <1>3, <2>1, <2>2, <2>4, <2>5, <2>6
<1>5. ASSUME NEW p \in Pid, WaitPid(p) PROVE CountInv'
  <2> DEFINE k == ByPid(p, FALSE)
             arg == [NoWork EXCEPT !.pid = p, !.own = Meant(p)]
  <2>1. k = 0 \/ k \in DOMAIN jobs
    BY <1>1, ByPidType
  <2>2. Operand(k, arg)
    BY <1>5 DEF WaitPid
  <2>3. arg \in Work
    BY MeantType, NoWorkType, WorkType
  <2>4. arg.pid = p
    BY DEF NoWork
  <2>5. k = 0 => \A h \in DOMAIN jobs : p \notin Named(jobs[h])
    BY ByPidIs
  <2> HIDE DEF k, arg
  <2>6. QED
    BY <1>3, <2>1, <2>2, <2>3, <2>4, <2>5
<1>6. QED
  BY <1>4, <1>5

\* What changes neither table.
LEMMA RoundCounts ==
  ASSUME CountInv, Typed',
         \/ WaitEnd \/ WaitTrapped \/ JobDoze \/ Wake \/ CmdEnd \/ RunTraps
         \/ \E mode \in {"n", "all"} : WaitAny(mode)
         \/ UNCHANGED vars
  PROVE  CountInv'
<1> USE DEF shell
<1>1. TypeOK /\ launched \in Nat
  BY ConstantsAssumption DEF CountInv, Typed, TypeOK
<1>2. jobs' = jobs /\ proc' = proc /\ launched' = launched
  BY DEF WaitEnd, WaitTrapped, JobDoze, Doze, Wake, CmdEnd, RunTraps, WaitAny, vars
<1>3. Reap(proc, proc', {}) /\ launched <= launched'
  BY <1>1, <1>2, ReapNone
<1>4. Asked'
  <2>1. CASE WaitEnd \/ WaitTrapped \/ CmdEnd \/ RunTraps \/ UNCHANGED vars
    BY <2>1 DEF WaitEnd, WaitTrapped, CmdEnd, RunTraps, vars, CountInv, Asked, Waiting
  <2>2. CASE JobDoze \/ Wake
    <3>1. w' = w /\ Waiting /\ jobs' = jobs
      BY <2>2 DEF JobDoze, Doze, Wake, Rounds, Waiting
    <3>2. QED
      BY <3>1, AskedKept DEF CountInv
  <2>3. CASE \E mode \in {"n", "all"} : WaitAny(mode)
    BY <2>3 DEF WaitAny, NoWork, Asked
  <2>4. QED
    BY <2>1, <2>2, <2>3
<1>5. QED
  BY <1>2, <1>3, <1>4, StillStep DEF CountInv

\* A pid that is no job's.
LEMMA PidCounts ==
  ASSUME CountInv, Typed', PidRound
  PROVE  CountInv'
<1> USE DEF shell
<1>1. /\ TypeOK /\ launched <= launched' /\ jobs' = jobs
      /\ w.op = "pid" /\ Waiting /\ w.pid \in Maybe
  BY ConstantsAssumption
     DEF CountInv, Typed, TypeOK, Work, PidRound, Doze, Rounds, Waiting
<1>2. w.pid \in Pid
  BY <1>1 DEF CountInv, Typed, HeldJob, Maybe
<1>3. Asked'
  <2>1. Waiting' => w' = w
    BY DEF PidRound, Doze, Waiting
  <2>2. QED
    BY <1>1, <2>1, AskedKept DEF CountInv
<1>4. CASE proc' = proc
  <2>1. Reap(proc, proc', {})
    BY <1>1, <1>4, ReapNone
  <2>2. QED
    BY <1>1, <1>3, <2>1, StillStep DEF CountInv
<1>5. CASE proc[w.pid].ph = "zombie" /\ proc' = [proc EXCEPT ![w.pid] = Free]
  <2>1. Reap(proc, proc', {w.pid})
    <3>1. proc' = [proc EXCEPT ![w.pid] = Taken(w.pid)]
      BY <1>5 DEF Taken
    <3>2. Reap(proc, [proc EXCEPT ![w.pid] = Taken(w.pid)], {w.pid})
      BY <1>1, <1>2, <1>5, ReapNone
    <3>3. QED
      BY <3>1, <3>2
  <2>2. ASSUME NEW k \in DOMAIN jobs
        PROVE  ProcsIn(proc, jobs[k].uid) \cap {w.pid} = {}
    <3>1. w.pid \notin Named(jobs[k])
      BY <1>1 DEF CountInv, Asked
    <3>2. Owned(proc, launched, jobs[k])
      BY One
    <3>3. proc[w.pid].own # jobs[k].uid
      BY <1>2, <3>1, <3>2 DEF Owned
    <3>4. QED
      BY <3>3 DEF ProcsIn
  <2>3. ProcsFit(proc', launched') /\ TableBut(proc', launched', jobs', 0)
    BY <1>1, <2>1, <2>2, OtherStep
  <2>4. QED
    BY <1>3, <2>3 DEF CountInv
<1>6. QED
  BY <1>4, <1>5 DEF PidRound, Doze

\* wait and wait -n with no operand.
LEMMA AnyCounts ==
  ASSUME CountInv, Typed', AnyQuiet \/ \E p \in Pid : AnyReap(p)
  PROVE  CountInv'
<1> USE DEF shell
<1>1. /\ TypeOK /\ launched' = launched /\ jobs \in Seq(Job)
      /\ DOMAIN jobs \in SUBSET Nat /\ 0 \notin DOMAIN jobs
  <2>1. launched' = launched
    BY DEF AnyQuiet, AnyReap
  <2>2. TypeOK /\ jobs \in Seq(Job)
    BY DEF CountInv, Typed, TypeOK
  <2>3. DOMAIN jobs \in SUBSET Nat /\ 0 \notin DOMAIN jobs
    BY <2>2
  <2>4. QED
    BY <2>1, <2>2, <2>3
<1>2. launched <= launched'
  BY <1>1, ConstantsAssumption DEF TypeOK
<1>3. ASSUME NEW K \in SUBSET Deserted
      PROVE  /\ Marked(K) \in Seq(Job) /\ DOMAIN Marked(K) = DOMAIN jobs
             /\ \A h \in DOMAIN jobs : Alike(jobs[h], Marked(K)[h])
             /\ \A h \in DOMAIN jobs \ K : Marked(K)[h] = jobs[h]
  <2>1. Marked(K) \in Seq(Job) /\ DOMAIN Marked(K) = DOMAIN jobs
    BY <1>1, MarkedType
  <2>2. ASSUME NEW h \in DOMAIN jobs
        PROVE  Alike(jobs[h], Marked(K)[h]) /\ (h \notin K => Marked(K)[h] = jobs[h])
    <3> DEFINE j == jobs[h]
    <3>1. j \in Job /\ Ask(j) = ProcsIn(proc, j.uid)
      BY One
    <3>2. Marked(K)[h] = IF h \in K THEN [j EXCEPT !.state = "done"] ELSE j
      BY DEF Marked
    <3>3. h \in K => ProcsIn(proc, j.uid) = {}
      BY <3>1 DEF Deserted
    <3> HIDE DEF j
    <3>4. [j EXCEPT !.state = "done"] \in Job
      BY <3>1 DEF Job
    <3>5. ProcsIn(proc, j.uid) = {} => Alike(j, [j EXCEPT !.state = "done"])
      BY <3>1, <3>4 DEF Alike, Job
    <3>6. Alike(j, j)
      BY <3>1 DEF Alike
    <3>7. Alike(j, Marked(K)[h]) /\ (h \notin K => Marked(K)[h] = j)
      BY <3>2, <3>3, <3>5, <3>6
    <3>8. QED
      BY <3>7 DEF j
  <2>3. QED
    BY <2>1, <2>2
<1>4. CASE AnyQuiet
  <2>1. jobs' = Marked(Deserted) /\ proc' = proc
    BY <1>4 DEF AnyQuiet
  <2>2. Reap(proc, proc', {})
    BY <1>1, <2>1, ReapNone
  <2>3. /\ jobs' \in Seq(Job) /\ DOMAIN jobs' = DOMAIN jobs
        /\ \A h \in DOMAIN jobs \ {0} : Alike(jobs[h], jobs'[h])
    BY <1>3, <2>1
  <2>4. ProcsFit(proc', launched') /\ TableBut(proc', launched', jobs', 0)
    BY <1>1, <1>2, <2>2, <2>3, QuietStep
  <2>5. Asked'
    BY <1>4 DEF AnyQuiet, Rounds, Asked
  <2>6. QED
    BY <2>4, <2>5 DEF CountInv
<1>5. ASSUME NEW p \in Pid, AnyReap(p) PROVE CountInv'
  <2>1. proc' = [proc EXCEPT ![p] = Taken(p)]
    BY <1>5 DEF AnyReap
  <2>2. PICK k \in Active :
          /\ p \in News(Ask(jobs[k]))
          /\ Count(Marked({h \in Deserted : h < k}), ByPid(p, ~Stopped(p)), p)
    BY <1>5 DEF AnyReap
  <2> DEFINE K == {h \in Deserted : h < k}
             js == Marked(K)
  <2>3. k \in DOMAIN jobs /\ jobs[k].state = "run" /\ k \notin K /\ K \in SUBSET Deserted
    BY <1>1 DEF Active
  <2>4. /\ jobs[k] \in Job /\ Owned(proc, launched, jobs[k])
        /\ p \in News(ProcsIn(proc, jobs[k].uid))
    BY <2>2, <2>3, One
  <2>5. p \in Named(jobs[k])
    BY <2>4 DEF News, ProcsIn, Owned
  <2>6. ByPid(p, ~Stopped(p)) = k
    BY <2>3, <2>5, ByPidIs
  <2>7. /\ js \in Seq(Job) /\ DOMAIN js = DOMAIN jobs /\ js[k] = jobs[k]
        /\ \A h \in DOMAIN jobs : Alike(jobs[h], js[h])
    <3> HIDE DEF K
    <3>1. QED
      BY <1>3, <2>3
  <2>8. Count(js, k, p)
    BY <2>2, <2>6
  <2> HIDE DEF js, K
  <2> DEFINE i == After(jobs[k], p)
             s == [After(jobs[k], p) EXCEPT !.st = StopSt]
  <2>9. \/ jobs' = [js EXCEPT ![k] = i]
        \/ Stopped(p) /\ jobs' = [js EXCEPT ![k] = s]
        \/ jobs' = Without(js, k)
    BY <1>1, <2>3, <2>7, <2>8 DEF Count, Drop
  <2>10. Reaped(jobs[k], i, p) /\ (Stopped(p) => Reaped(jobs[k], s, p))
    BY <2>3, <2>4, AfterReaped
  <2> HIDE DEF i, s
  <2>11. ProcsFit(proc', launched') /\ TableBut(proc', launched', jobs', 0)
    <3>1. CASE jobs' = Without(js, k)
      BY <1>1, <2>1, <2>3, <2>4, <2>7, <3>1, OneReaped
    <3>2. ASSUME NEW n, Reaped(jobs[k], n, p), jobs' = [js EXCEPT ![k] = n]
          PROVE  ProcsFit(proc', launched') /\ TableBut(proc', launched', jobs', 0)
      <4>1. n \in Job
        BY <3>2 DEF Reaped
      <4>2. jobs' \in Seq(Job) /\ DOMAIN jobs' = DOMAIN jobs
        BY <2>7, <3>2, <4>1, UpdateType
      <4>3. /\ \A h \in DOMAIN jobs \ {k} : Alike(jobs[h], jobs'[h])
            /\ Reaped(jobs[k], jobs'[k], p)
        <5>1. \A h \in DOMAIN jobs \ {k} : jobs'[h] = js[h]
          BY <2>7, <3>2
        <5>2. jobs'[k] = n
          BY <2>3, <2>7, <3>2
        <5>3. QED
          BY <2>7, <3>2, <5>1, <5>2
      <4>4. QED
        BY <1>1, <2>1, <2>3, <2>4, <4>2, <4>3, OneReaped
    <3>3. QED
      BY <2>9, <2>10, <3>1, <3>2
  <2>12. Asked'
    <3>1. w'.op # "pid" \/ pc' = "end"
      BY <1>5 DEF AnyReap, Rounds
    <3>2. QED
      BY <3>1 DEF Asked, Waiting
  <2>13. QED
    BY <2>11, <2>12 DEF CountInv
<1>6. QED
  BY <1>4, <1>5

-----------------------------------------------------------------------------
(***************************************************************************)
(* Every process is counted once                                           *)
(***************************************************************************)

LEMMA InitCounts == Init => CountInv
<1> SUFFICES ASSUME Init PROVE CountInv
  OBVIOUS
<1>1. Typed
  BY InitTyped
<1>2. ProcsFit(proc, launched)
  BY DEF Init, ProcsFit, Free
<1>3. DOMAIN jobs = {}
  BY DEF Init
<1>4. TableBut(proc, launched, jobs, 0)
  BY <1>3 DEF TableBut
<1>5. Asked
  BY <1>3 DEF Asked
<1>6. QED
  BY <1>1, <1>2, <1>4, <1>5 DEF CountInv

\* One step per action.
LEMMA StepCounts ==
  ASSUME Steady, CountInv, [Next]_vars
  PROVE  CountInv'
<1>1. Typed'
  BY StepTyped DEF CountInv
<1>2. CASE Kernel
  BY <1>1, <1>2, KernelCounts
<1>3. CASE Start
  <2>1. CASE Background \/ \E ps \in Pipelines : Distinct(ps) /\ Foreground(ps)
    BY <1>1, <2>1, LaunchCounts
  <2>2. CASE Command
    BY <1>1, <2>2, CommandCounts, ConstantsAssumption DEF Launch
  <2>3. CASE \E id \in Launch : \/ CmdFg(id) \/ CmdBg(id) \/ CmdDisown(id)
                                \/ \E s \in {"TERM", "STOP", "CONT"} : CmdKill(id, s)
    BY <1>1, <2>3, CommandCounts
  <2>4. CASE CmdJobs \/ Prompt
    BY <1>1, <2>4, ReportCounts
  <2>5. CASE (\E id \in Launch : WaitJob(id)) \/ (\E p \in Pid : WaitPid(p))
    BY <1>1, <2>5, OperandCounts
  <2>6. CASE RunTraps \/ \E mode \in {"n", "all"} : WaitAny(mode)
    BY <1>1, <2>6, RoundCounts
  <2>7. QED
    BY <1>3, <2>1, <2>2, <2>3, <2>4, <2>5, <2>6 DEF Start
<1>4. CASE Continue
  <2>1. CASE TidyForget \/ TidyEnd \/ ForkFails \/ \E p \in Pid : Fork(p)
    BY <1>1, <2>1, LaunchCounts
  <2>2. CASE FgEnd \/ JobEnd \/ \E p \in Pid : FgReap(p) \/ JobReap(p)
    BY <1>1, <2>2, HeldCounts
  <2>3. CASE Walk \/ WalkEnd \/ CmdPoll
    BY <1>1, <2>3, ReportCounts
  <2>4. CASE WaitEnd \/ WaitTrapped \/ JobDoze \/ Wake \/ CmdEnd
    BY <1>1, <2>4, RoundCounts
  <2>5. CASE PidRound
    BY <1>1, <2>5, PidCounts
  <2>6. CASE AnyQuiet \/ \E p \in Pid : AnyReap(p)
    BY <1>1, <2>6, AnyCounts
  <2>7. QED
    BY <1>4, <2>1, <2>2, <2>3, <2>4, <2>5, <2>6 DEF Continue
<1>5. CASE UNCHANGED vars
  BY <1>1, <1>5, RoundCounts
<1>6. QED
  BY <1>2, <1>3, <1>4, <1>5 DEF Next

\* jc_poll, jc_fg, jc_waitjob and b_wait count each process they reap for the
\* job it is of, once: a job is finished exactly when the kernel holds none of
\* its processes.
THEOREM CountedCorrect == ASSUME Steady PROVE Spec => []Counted
<1>1. CountInv => Counted
  <2> SUFFICES ASSUME CountInv, NEW k \in DOMAIN jobs
               PROVE  Cardinality(Processes(jobs[k].uid)) =
                        IF jobs[k].state = "done" THEN 0
                        ELSE jobs[k].np - jobs[k].ndone
    BY DEF Counted
  <2>1. jobs[k] \in Job /\ Owned(proc, launched, jobs[k])
    BY One
  <2>2. Processes(jobs[k].uid) = ProcsIn(proc, jobs[k].uid)
    BY DEF Processes, ProcsIn
  <2>3. Cardinality(ProcsIn(proc, jobs[k].uid)) \in Nat
    BY Finite
  <2>4. /\ Cardinality(ProcsIn(proc, jobs[k].uid)) + jobs[k].ndone = jobs[k].np
        /\ jobs[k].state = "done" => jobs[k].ndone = jobs[k].np
        /\ jobs[k].ndone \in Nat /\ jobs[k].np \in Nat
    BY <2>1 DEF Owned, Job
  <2>5. QED
    BY <2>2, <2>3, <2>4
<1>2. CountInv /\ [Next]_vars => CountInv'
  BY StepCounts
<1>3. QED
  BY <1>1, <1>2, InitCounts, PTL DEF Spec

-----------------------------------------------------------------------------
(***************************************************************************)
(* What the table forgets: no job whose status a script may still ask for, *)
(* and no child.  It needs the counting, since a job that is dropped as    *)
(* finished has no process left.                                           *)
(***************************************************************************)

InTable(u) == \E k \in DOMAIN jobs : jobs[k].uid = u

\* A launch the table may no longer hold.
Lost(u) ==
  \/ hist[u].tail = NoPid
  \/ /\ hist[u].owed # "yes" \/ (~Interactive /\ u + JKeep <= launched)
     /\ hist[u].owed # "disowned" => Processes(u) = {}

\* A launch that has not happened has no process.
Unborn == \A u \in Launch : u > launched => hist[u].tail = NoPid

\* Job numbers are given out in the order of the launches, so the job with the
\* least number, which jc_tidy forgets, is the oldest.
Order ==
  \A i, k \in DOMAIN jobs : jobs[i].id < jobs[k].id <=> jobs[i].uid < jobs[k].uid

\* The job a wait holds is running: a stop ends the wait.
Running ==
  Waiting /\ w.op = "job" =>
    \A k \in DOMAIN jobs : jobs[k].id = w.id => jobs[k].state = "run"

MemInv == CountInv /\ IdsUnique /\ Remembered /\ Unborn /\ Order /\ Running

-----------------------------------------------------------------------------
(***************************************************************************)
(* What a step does to the table, the launches and the processes           *)
(***************************************************************************)

SameNames(js) ==
  /\ js \in Seq(Job) /\ DOMAIN js = DOMAIN jobs
  /\ \A k \in DOMAIN jobs : js[k].id = jobs[k].id /\ js[k].uid = jobs[k].uid

\* The table keeps its jobs, drops one that may be forgotten, or gains one.
Move ==
  \/ SameNames(jobs') /\ launched' = launched
  \/ \E js \in Seq(Job) : \E b \in DOMAIN jobs : \E u \in Launch :
       /\ SameNames(js) /\ jobs' = Without(js, b) /\ launched' = launched
       /\ u = jobs[b].uid /\ Lost(u)'
  \/ \E j \in Job : /\ jobs' = Append(jobs, j) /\ j.uid = launched + 1
                    /\ j.id = (IF jobs = <<>> THEN 0 ELSE jid) + 1
                    /\ launched' = launched + 1
  \/ jobs' = jobs /\ launched' = launched + 1 /\ hist' = hist

\* Only a new launch gets a process, and only one in the table an answer.
Noted ==
  \A u \in Launch :
    /\ hist'[u].tail = hist[u].tail \/ (u = launched' /\ launched' = launched + 1)
    /\ hist'[u].owed = hist[u].owed \/ InTable(u)

\* Only a new launch, or a module, gains a process.
Shrinks ==
  \A p \in Pid : proc'[p].own \in {proc[p].own, 0, launched + 1, Module}

LEMMA Fewer ==
  ASSUME CountInv, Shrinks, NEW u \in 1 .. launched
  PROVE  Processes(u)' \subseteq Processes(u)
<1>1. u # 0 /\ u # launched + 1 /\ u # Module
  BY ConstantsAssumption DEF CountInv, Typed, TypeOK, Module
<1>2. ASSUME NEW p \in Pid, proc'[p].own = u PROVE proc[p].own = u
  BY <1>1, <1>2 DEF Shrinks
<1>3. QED
  BY <1>2 DEF Processes

\* What a move leaves in the table.
LEMMA MoveKeeps ==
  ASSUME CountInv, Move, NEW u, InTable(u)
  PROVE  InTable(u)' \/ Lost(u)'
<1>1. PICK k \in DOMAIN jobs : jobs[k].uid = u
  BY DEF InTable
<1>2. jobs \in Seq(Job) /\ Len(jobs) \in Nat /\ DOMAIN jobs = 1 .. Len(jobs)
  BY DEF CountInv, Typed, TypeOK
<1>3. CASE SameNames(jobs')
  <2>1. k \in DOMAIN jobs' /\ jobs'[k].uid = u
    BY <1>1, <1>3 DEF SameNames
  <2>2. QED
    BY <2>1 DEF InTable
<1>4. ASSUME NEW js \in Seq(Job), NEW b \in DOMAIN jobs, SameNames(js),
             jobs' = Without(js, b), NEW v \in Launch, v = jobs[b].uid, Lost(v)'
      PROVE  InTable(u)' \/ Lost(u)'
  <2>1. /\ Len(js) = Len(jobs) /\ b \in DOMAIN js
        /\ \A h \in DOMAIN jobs : js[h].uid = jobs[h].uid
    BY <1>2, <1>4 DEF SameNames
  <2>2. /\ DOMAIN jobs' = 1 .. (Len(jobs) - 1)
        /\ \A i \in 1 .. (Len(jobs) - 1) :
             jobs'[i] = IF i = b THEN js[Len(jobs)] ELSE js[i]
    <3>1. /\ DOMAIN Without(js, b) = 1 .. (Len(js) - 1)
          /\ \A i \in 1 .. (Len(js) - 1) :
               Without(js, b)[i] = IF i = b THEN js[Len(js)] ELSE js[i]
      BY <2>1, WithoutType
    <3>2. QED
      BY <1>4, <2>1, <3>1
  <2>3. CASE k = b
    BY <1>1, <1>4, <2>3
  <2>4. CASE k # b /\ k = Len(jobs)
    <3>1. b \in DOMAIN jobs' /\ jobs'[b] = js[k]
      BY <1>2, <2>2, <2>4
    <3>2. jobs'[b].uid = u
      BY <1>1, <2>1, <3>1
    <3>3. QED
      BY <3>1, <3>2 DEF InTable
  <2>5. CASE k # b /\ k # Len(jobs)
    <3>1. k \in DOMAIN jobs' /\ jobs'[k] = js[k]
      BY <1>2, <2>2, <2>5
    <3>2. jobs'[k].uid = u
      BY <1>1, <2>1, <3>1
    <3>3. QED
      BY <3>1, <3>2 DEF InTable
  <2>6. QED
    BY <2>3, <2>4, <2>5
<1>5. ASSUME NEW j \in Job, jobs' = Append(jobs, j)
      PROVE  InTable(u)'
  <2>1. k \in DOMAIN jobs' /\ jobs'[k] = jobs[k]
    BY <1>2, <1>5
  <2>2. QED
    BY <1>1, <2>1 DEF InTable
<1>6. CASE jobs' = jobs
  BY <1>1, <1>6 DEF InTable
<1>7. QED
  BY <1>3, <1>4, <1>5, <1>6 DEF Move

LEMMA MoveRemembers ==
  ASSUME MemInv, CountInv', Move, Noted, Shrinks
  PROVE  Remembered' /\ Unborn'
<1>1. launched \in 0 .. MaxLaunch /\ launched' \in 0 .. MaxLaunch /\ MaxLaunch \in Nat
  BY ConstantsAssumption DEF MemInv, CountInv, Typed, TypeOK
<1>2. launched' \in {launched, launched + 1}
  BY DEF Move
<1>3. CountInv /\ Remembered /\ Unborn
  BY DEF MemInv
<1>4. Unborn'
  <2>1. ASSUME NEW u \in Launch, u > launched' PROVE hist'[u].tail = NoPid
    BY <1>1, <1>2, <1>3, <2>1 DEF Unborn, Noted, Launch
  <2>2. QED
    BY <2>1 DEF Unborn
<1>5. ASSUME NEW u \in 1 .. launched, ~InTable(u) PROVE Lost(u)'
  <2>1. u \in Launch /\ u # launched + 1
    BY <1>1 DEF Launch
  <2>2. Lost(u)
    BY <1>3, <1>5 DEF Remembered, Lost, InTable
  <2>3. hist'[u].tail = hist[u].tail /\ hist'[u].owed = hist[u].owed
    BY <1>2, <1>5, <2>1 DEF Noted
  <2>4. Processes(u)' \subseteq Processes(u)
    BY <1>3, Fewer
  <2>5. u + JKeep <= launched => u + JKeep <= launched'
    BY <1>1, <1>2, ConstantsAssumption
  <2>6. Processes(u) = {} => Processes(u)' = {}
    BY <2>4
  <2>7. QED
    BY <2>2, <2>3, <2>5, <2>6 DEF Lost
<1>6. ASSUME NEW u \in 1 .. launched PROVE InTable(u)' \/ Lost(u)'
  BY <1>3, <1>5, MoveKeeps
<1>7. ASSUME NEW u \in 1 .. MaxLaunch, u = launched', launched' = launched + 1
      PROVE  InTable(u)' \/ Lost(u)'
  <2>1. CASE hist' = hist
    <3>1. u \in Launch /\ u > launched
      BY <1>1, <1>7 DEF Launch
    <3>2. hist[u].tail = NoPid
      BY <1>3, <3>1 DEF Unborn
    <3>3. QED
      BY <2>1, <3>2 DEF Lost
  <2>2. ASSUME NEW j \in Job, jobs' = Append(jobs, j), j.uid = launched + 1
        PROVE  InTable(u)'
    <3>1. Len(jobs) \in Nat /\ jobs \in Seq(Job)
      BY <1>3 DEF CountInv, Typed, TypeOK
    <3>2. Len(jobs) + 1 \in DOMAIN jobs' /\ jobs'[Len(jobs) + 1] = j
      BY <2>2, <3>1
    <3>3. QED
      BY <1>7, <2>2, <3>2 DEF InTable
  <2>3. QED
    BY <1>1, <1>7, <2>1, <2>2 DEF Move
<1>8. ASSUME NEW u \in 1 .. launched' PROVE InTable(u)' \/ Lost(u)'
  <2>1. \/ u \in 1 .. launched
        \/ u \in 1 .. MaxLaunch /\ u = launched' /\ launched' = launched + 1
    BY <1>1, <1>2
  <2>2. QED
    BY <1>6, <1>7, <2>1
<1>9. QED
  BY <1>4, <1>8 DEF Remembered, InTable, Lost

\* jc_drop moves a job and jc_new numbers one after all the others.
LEMMA MoveOrder ==
  ASSUME MemInv, Move
  PROVE  Order'
<1> DEFINE n == Len(jobs)
<1>1. /\ n \in Nat /\ DOMAIN jobs = 1 .. n /\ jid \in Nat /\ jobs \in Seq(Job)
      /\ launched \in Nat
  BY ConstantsAssumption DEF MemInv, CountInv, Typed, TypeOK
<1>2. \A i, k \in 1 .. n : jobs[i].id < jobs[k].id <=> jobs[i].uid < jobs[k].uid
  BY <1>1 DEF MemInv, Order
<1>3. ASSUME NEW k \in 1 .. n
      PROVE  jobs[k].id \in 1 .. jid /\ jobs[k].uid \in 1 .. launched
  <2>1. k \in DOMAIN jobs
    BY <1>1
  <2>2. Owned(proc, launched, jobs[k])
    BY <2>1, One DEF MemInv
  <2>3. QED
    BY <2>1, <2>2 DEF MemInv, IdsUnique, Owned
<1> HIDE DEF n
<1>4. CASE SameNames(jobs')
  BY <1>1, <1>2, <1>4 DEF SameNames, Order
<1>5. ASSUME NEW js \in Seq(Job), NEW b \in DOMAIN jobs, SameNames(js),
             jobs' = Without(js, b)
      PROVE  Order'
  <2>1. /\ Len(js) = n /\ b \in DOMAIN js
        /\ \A h \in 1 .. n : js[h].id = jobs[h].id /\ js[h].uid = jobs[h].uid
    BY <1>1, <1>5 DEF SameNames, n
  <2>2. /\ DOMAIN jobs' = 1 .. (n - 1)
        /\ \A i \in 1 .. (n - 1) : jobs'[i] = IF i = b THEN js[n] ELSE js[i]
    <3>1. /\ DOMAIN Without(js, b) = 1 .. (Len(js) - 1)
          /\ \A i \in 1 .. (Len(js) - 1) :
               Without(js, b)[i] = IF i = b THEN js[Len(js)] ELSE js[i]
      BY <2>1, WithoutType
    <3>2. QED
      BY <1>5, <2>1, <3>1
  <2> DEFINE g(i) == IF i = b THEN n ELSE i
  <2>3. \A i \in 1 .. (n - 1) :
          g(i) \in 1 .. n /\ jobs'[i].id = jobs[g(i)].id /\ jobs'[i].uid = jobs[g(i)].uid
    BY <1>1, <2>1, <2>2
  <2> HIDE DEF g
  <2>4. QED
    BY <1>2, <2>2, <2>3 DEF Order
<1>6. ASSUME NEW j \in Job, jobs' = Append(jobs, j), j.uid = launched + 1,
             j.id = (IF jobs = <<>> THEN 0 ELSE jid) + 1
      PROVE  Order'
  <2>1. /\ DOMAIN jobs' = 1 .. (n + 1) /\ jobs'[n + 1] = j
        /\ \A i \in 1 .. n : jobs'[i] = jobs[i]
    BY <1>1, <1>6 DEF n
  <2>2. \A i \in 1 .. n : jobs[i].id < j.id /\ jobs[i].uid < j.uid
    <3>1. CASE jobs = <<>>
      BY <3>1 DEF n
    <3>2. CASE jobs # <<>>
      BY <1>1, <1>3, <1>6, <3>2
    <3>3. QED
      BY <3>1, <3>2
  <2>3. ASSUME NEW i \in 1 .. (n + 1), NEW k \in 1 .. (n + 1)
        PROVE  jobs'[i].id < jobs'[k].id <=> jobs'[i].uid < jobs'[k].uid
    <3>1. j.id \in Nat /\ j.uid \in Nat
      BY <1>1, <1>6
    <3>2. CASE i = n + 1 /\ k = n + 1
      BY <2>1, <3>1, <3>2
    <3>3. CASE i \in 1 .. n /\ k = n + 1
      BY <2>1, <2>2, <3>3
    <3>4. CASE i = n + 1 /\ k \in 1 .. n
      <4>1. /\ jobs'[i] = j /\ jobs'[k] = jobs[k]
            /\ jobs[k].id < j.id /\ jobs[k].uid < j.uid
            /\ jobs[k].id \in Nat /\ jobs[k].uid \in Nat
        BY <1>1, <1>3, <2>1, <2>2, <3>4
      <4>2. QED
        BY <3>1, <4>1
    <3>5. CASE i \in 1 .. n /\ k \in 1 .. n
      BY <1>2, <2>1, <3>5
    <3>6. QED
      BY <1>1, <3>2, <3>3, <3>4, <3>5
  <2>4. QED
    BY <2>1, <2>3 DEF Order
<1>7. CASE jobs' = jobs
  BY <1>7 DEF Order, MemInv
<1>8. QED
  BY <1>4, <1>5, <1>6, <1>7 DEF Move

-----------------------------------------------------------------------------
(***************************************************************************)
(* What the parts of a step do                                             *)
(***************************************************************************)

LEMMA OwnKept ==
  ASSUME TypeOK
  PROVE  /\ proc' = proc => Shrinks
         /\ \A S : proc' = Halted(S) \/ proc' = Continued(S) => Shrinks
         /\ \A p \in Pid : proc' = [proc EXCEPT ![p] = Taken(p)] => Shrinks
         /\ \A p \in Pid : proc' = [proc EXCEPT ![p] = Free] => Shrinks
<1>1. \A p \in Pid : proc[p] \in Process
  BY DEF TypeOK
<1>2. DOMAIN proc = Pid
  BY DEF TypeOK
<1>3. \A p \in Pid : Taken(p).own \in {proc[p].own, 0} /\ Free.own = 0
  BY <1>1 DEF Taken, Process, Free
<1>4. proc' = proc => Shrinks
  BY DEF Shrinks
<1>5. ASSUME NEW S, NEW p \in Pid
      PROVE  Halted(S)[p].own = proc[p].own /\ Continued(S)[p].own = proc[p].own
  BY <1>1 DEF Halted, Continued, Process
<1>6. ASSUME NEW p \in Pid, proc' = [proc EXCEPT ![p] = Taken(p)]
      PROVE  Shrinks
  <2>1. ASSUME NEW q \in Pid PROVE proc'[q].own \in {proc[q].own, 0}
    <3>1. CASE q = p
      BY <1>2, <1>3, <1>6, <3>1
    <3>2. CASE q # p
      BY <1>2, <1>6, <3>2
    <3>3. QED
      BY <3>1, <3>2
  <2>2. QED
    BY <2>1 DEF Shrinks
<1>7. ASSUME NEW p \in Pid, proc' = [proc EXCEPT ![p] = Free]
      PROVE  Shrinks
  <2>1. ASSUME NEW q \in Pid PROVE proc'[q].own \in {proc[q].own, 0}
    <3>1. CASE q = p
      BY <1>2, <1>3, <1>7, <3>1
    <3>2. CASE q # p
      BY <1>2, <1>7, <3>2
    <3>3. QED
      BY <3>1, <3>2
  <2>2. QED
    BY <2>1 DEF Shrinks
<1>8. ASSUME NEW S, proc' = Halted(S) \/ proc' = Continued(S)
      PROVE  Shrinks
  <2>1. \A p \in Pid : proc'[p].own = proc[p].own
    BY <1>5, <1>8
  <2>2. QED
    BY <2>1 DEF Shrinks
<1>9. QED
  BY <1>4, <1>6, <1>7, <1>8

\* jc_poll.
LEMMA PollMoves ==
  ASSUME CountInv, Poll, launched' = launched
  PROVE  Move /\ Shrinks
<1>1. TypeOK
  BY DEF CountInv, Typed
<1>2. jobs' \in Seq(Job) /\ DOMAIN jobs' = DOMAIN jobs
  <2>1. Len(jobs') = Len(jobs) /\ jobs' \in Seq(Job)
    BY <1>1, PollType
  <2>2. QED
    BY <1>1, <2>1 DEF TypeOK
<1>3. ASSUME NEW k \in DOMAIN jobs
      PROVE  jobs'[k].id = jobs[k].id /\ jobs'[k].uid = jobs[k].uid
  <2>1. PICK late \in BOOLEAN : jobs' = [h \in DOMAIN jobs |-> Polled(h, late)]
    BY DEF Poll
  <2>2. jobs'[k] = Polled(k, late) /\ jobs[k] \in Job
    BY <1>1, <2>1 DEF TypeOK
  <2>3. QED
    BY <2>2 DEF Polled, Job
<1>4. Move
  BY <1>2, <1>3 DEF Move, SameNames
<1>5. Shrinks
  <2>1. ASSUME NEW p \in Pid PROVE proc'[p].own \in {proc[p].own, 0}
    <3>1. proc'[p] \in {Taken(p), proc[p]} /\ proc[p] \in Process
      BY <1>1 DEF Poll, TypeOK
    <3>2. Taken(p).own \in {proc[p].own, 0}
      BY <3>1 DEF Taken, Process, Free
    <3>3. QED
      BY <3>1, <3>2
  <2>2. QED
    BY <2>1 DEF Shrinks
<1>6. QED
  BY <1>4, <1>5

LEMMA SameMoves ==
  ASSUME TypeOK, launched' = launched
  PROVE  /\ jobs' = jobs => Move
         /\ hist' = hist => Noted
<1>1. jobs \in Seq(Job)
  BY DEF TypeOK
<1>2. QED
  BY <1>1 DEF Move, SameNames, Noted

\* One job changes.
LEMMA UpdateNames ==
  ASSUME NEW js, SameNames(js), NEW k \in DOMAIN jobs, NEW i \in Job,
         i.id = jobs[k].id, i.uid = jobs[k].uid
  PROVE  SameNames([js EXCEPT ![k] = i])
<1> DEFINE is == [js EXCEPT ![k] = i]
<1>1. js \in Seq(Job) /\ DOMAIN js = DOMAIN jobs
  BY DEF SameNames
<1>2. is \in Seq(Job) /\ DOMAIN is = DOMAIN jobs
  BY <1>1, UpdateType
<1>3. ASSUME NEW h \in DOMAIN jobs
      PROVE  is[h].id = jobs[h].id /\ is[h].uid = jobs[h].uid
  <2>1. CASE h = k
    BY <1>1, <2>1
  <2>2. CASE h # k
    BY <1>1, <2>2 DEF SameNames
  <2>3. QED
    BY <2>1, <2>2
<1>4. QED
  BY <1>2, <1>3 DEF SameNames

\* A job with all its processes counted has none left.
LEMMA NoneLeft ==
  ASSUME CountInv, NEW k \in DOMAIN jobs,
         jobs[k].state = "done" \/ jobs[k].ndone >= jobs[k].np
  PROVE  ProcsIn(proc, jobs[k].uid) = {}
<1> DEFINE P == ProcsIn(proc, jobs[k].uid)
<1>1. jobs[k] \in Job /\ Owned(proc, launched, jobs[k])
  BY One
<1>2. Cardinality(P) \in Nat /\ (Cardinality(P) = 0 <=> P = {})
  BY Finite
<1>3. /\ Cardinality(P) + jobs[k].ndone = jobs[k].np
      /\ jobs[k].state = "done" => jobs[k].ndone = jobs[k].np
      /\ jobs[k].ndone \in Nat /\ jobs[k].np \in Nat
  BY <1>1 DEF Owned, Job
<1> HIDE DEF P
<1>4. QED
  BY <1>2, <1>3 DEF P

\* A job is dropped once its status was told, with no process left, or
\* because the user asked for it.
LEMMA DropMoves ==
  ASSUME CountInv, NEW js, SameNames(js), NEW b \in DOMAIN jobs, Drop(js, b),
         NEW how \in {"told", "disowned"}, Settled(jobs[b].uid, how),
         how = "told" => Processes(jobs[b].uid) \subseteq
                           {p \in Pid : proc'[p].own # jobs[b].uid},
         launched' = launched, Shrinks
  PROVE  Move /\ Noted
<1>1. TypeOK /\ jobs[b] \in Job
  BY One DEF CountInv, Typed
<1>2. PICK u \in Launch : u = jobs[b].uid
  BY <1>1 DEF Job
<1>3. hist' = [v \in Launch |-> IF v = u THEN [hist[v] EXCEPT !.owed = how] ELSE hist[v]]
  BY <1>2 DEF Settled
<1>4. \A v \in Launch : hist[v] \in Past
  BY <1>1 DEF TypeOK
<1>5. hist'[u].owed = how
  BY <1>3, <1>4 DEF Past
<1>6. Noted
  <2>1. InTable(u)
    BY <1>2 DEF InTable
  <2>2. ASSUME NEW v \in Launch
        PROVE  hist'[v].tail = hist[v].tail /\ (v # u => hist'[v].owed = hist[v].owed)
    BY <1>3, <1>4 DEF Past
  <2>3. QED
    BY <2>1, <2>2 DEF Noted
<1>7. Lost(u)'
  <2>1. CASE how = "disowned"
    BY <1>5, <2>1 DEF Lost
  <2>2. CASE how = "told"
    <3>1. u \in 1 .. launched
      BY <1>2, One DEF Owned
    <3>2. Processes(u)' \subseteq Processes(u)
      BY <3>1, Fewer
    <3>3. \A p \in Processes(u) : proc'[p].own # u
      BY <1>2, <2>2
    <3>4. Processes(u)' = {}
      BY <3>2, <3>3 DEF Processes
    <3>5. QED
      BY <1>5, <2>2, <3>4 DEF Lost
  <2>3. QED
    BY <2>1, <2>2
<1>8. jobs' = Without(js, b) /\ js \in Seq(Job)
  BY DEF Drop, SameNames
<1>9. Move
  BY <1>2, <1>7, <1>8 DEF Move
<1>10. QED
  BY <1>6, <1>9

LEMMA RunningKept ==
  ASSUME Running, Waiting' /\ w'.op = "job" => Waiting /\ w' = w /\ jobs' = jobs
  PROVE  Running'
  BY DEF Running

-----------------------------------------------------------------------------
(***************************************************************************)
(* The actions                                                             *)
(***************************************************************************)

LEMMA KernelMoves ==
  ASSUME MemInv, Kernel
  PROVE  Move /\ Noted /\ Shrinks /\ Running'
<1>1. TypeOK /\ DOMAIN proc = Pid
  BY DEF MemInv, CountInv, Typed, TypeOK
<1>2. jobs' = jobs /\ launched' = launched /\ w' = w /\ pc' = pc
  BY DEF Kernel, KExit, KStop, KCont, KLeave, ModFork, ModReap, KSignal
<1>3. Running'
  BY <1>2, RunningKept DEF MemInv, Waiting
<1>4. Move
  BY <1>1, <1>2, SameMoves
<1>5. ASSUME NEW p \in Pid, NEW s \in Status, KExit(p, s) PROVE Noted /\ Shrinks
  <2>1. \A u \in Launch : hist[u] \in Past
    BY <1>1 DEF TypeOK
  <2>2. ASSUME NEW u \in Launch
        PROVE  hist'[u].tail = hist[u].tail /\ hist'[u].owed = hist[u].owed
    BY <1>5, <2>1 DEF KExit, Past
  <2>3. Noted
    BY <2>2 DEF Noted
  <2>4. \A q \in Pid : proc[q] \in Process
    BY <1>1 DEF TypeOK
  <2>5. \A q \in Pid : proc'[q].own = proc[q].own
    BY <1>1, <1>5, <2>4 DEF KExit, Process
  <2>6. QED
    BY <2>3, <2>5 DEF Shrinks
<1>6. ASSUME NEW p \in Pid, KStop(p) \/ KCont(p) \/ ModReap(p) \/ KSignal
      PROVE  Noted /\ Shrinks
  <2>1. /\ hist' = hist
        /\ \/ proc' = proc \/ proc' = Halted({p}) \/ proc' = Continued({p})
           \/ proc' = [proc EXCEPT ![p] = Free]
    BY <1>6 DEF KStop, KCont, ModReap, KSignal
  <2>2. QED
    BY <1>1, <1>2, <2>1, OwnKept, SameMoves
<1>7. ASSUME NEW p \in Pid, KLeave(p) \/ ModFork(p) PROVE Noted /\ Shrinks
  <2>1. \A q \in Pid : proc[q] \in Process
    BY <1>1 DEF TypeOK
  <2>2. \A q \in Pid : proc'[q].own \in {proc[q].own, Module}
    BY <1>1, <1>7, <2>1 DEF KLeave, ModFork, Process
  <2>3. hist' = hist
    BY <1>7 DEF KLeave, ModFork
  <2>4. QED
    BY <1>1, <1>2, <2>2, <2>3, SameMoves DEF Shrinks
<1>8. KSignal => Noted /\ Shrinks
  BY <1>1, <1>2, OwnKept, SameMoves DEF KSignal
<1>9. QED
  BY <1>3, <1>4, <1>5, <1>6, <1>7, <1>8 DEF Kernel

\* jc_tidy forgets the oldest finished job, after JKeep younger ones.
LEMMA TidyMoves ==
  ASSUME MemInv, TidyForget
  PROVE  Move /\ Noted /\ Shrinks /\ Running'
<1>1. /\ CountInv /\ TypeOK /\ jobs \in Seq(Job) /\ SameNames(jobs)
      /\ launched \in Nat /\ JKeep \in Nat
  BY ConstantsAssumption DEF MemInv, CountInv, Typed, TypeOK, SameNames
<1>2. PICK k \in DoneJobs : /\ \A h \in DoneJobs : jobs[k].id <= jobs[h].id
                            /\ Drop(jobs, k)
  BY DEF TidyForget
<1>3. /\ ~Interactive /\ Cardinality(DoneJobs) > JKeep
      /\ UNCHANGED <<proc, pc, w, launched, hist>>
  BY DEF TidyForget
<1>4. k \in DOMAIN jobs /\ jobs[k].state = "done"
  BY <1>2 DEF DoneJobs
<1> DEFINE u == jobs[k].uid
           Younger == (u + 1) .. launched
           f == [h \in DoneJobs \ {k} |-> jobs[h].uid]
<1>5. \A h \in DOMAIN jobs : jobs[h].id \in Nat /\ jobs[h].uid \in 1 .. launched
  BY One DEF MemInv, Owned, Job
<1>6. ASSUME NEW h \in DoneJobs \ {k}
      PROVE  f[h] \in Younger
  <2>1. h \in DOMAIN jobs /\ jobs[k].id <= jobs[h].id /\ jobs[h].id # jobs[k].id
    BY <1>2, <1>4 DEF DoneJobs, MemInv, IdsUnique
  <2>2. jobs[k].id < jobs[h].id
    BY <1>4, <1>5, <2>1
  <2>3. u < jobs[h].uid
    BY <1>4, <2>1, <2>2 DEF MemInv, Order
  <2>4. u \in Nat /\ jobs[h].uid \in 1 .. launched
    BY <1>4, <1>5, <2>1
  <2> HIDE DEF u
  <2>5. QED
    BY <1>1, <2>3, <2>4
<1>7. f \in Injection(DoneJobs \ {k}, Younger)
  <2>1. \A h, i \in DoneJobs \ {k} : h # i => jobs[h].uid # jobs[i].uid
    BY <1>1, One DEF DoneJobs, Apart
  <2> HIDE DEF Younger
  <2>2. f \in [DoneJobs \ {k} -> Younger]
    BY <1>6
  <2>3. ASSUME NEW h \in DoneJobs \ {k}, NEW i \in DoneJobs \ {k}, f[h] = f[i]
        PROVE  h = i
    BY <2>1, <2>3
  <2> HIDE DEF f
  <2>4. QED
    BY <2>2, <2>3 DEF Injection, IsInjective
<1>8. u \in 1 .. launched
  BY <1>4, <1>5
<1>9. IsFiniteSet(Younger) /\ Cardinality(Younger) = launched - u
  <2> HIDE DEF u
  <2>1. u + 1 \in Int /\ launched \in Int
    BY <1>1, <1>8
  <2>2. /\ IsFiniteSet((u + 1) .. launched)
        /\ Cardinality((u + 1) .. launched) =
             IF u + 1 > launched THEN 0 ELSE launched - (u + 1) + 1
    BY <2>1, FS_Interval
  <2>3. QED
    BY <1>1, <1>8, <2>2
<1>10. IsFiniteSet(DoneJobs)
  <2>1. IsFiniteSet(1 .. Len(jobs)) /\ DoneJobs \in SUBSET (1 .. Len(jobs))
    BY <1>1, FS_Interval DEF DoneJobs
  <2>2. QED
    BY <2>1, FS_Subset
<1> HIDE DEF f, Younger, u
<1>11. Cardinality(DoneJobs \ {k}) <= Cardinality(Younger)
  BY <1>7, <1>9, FS_Injection
<1>12. Cardinality(DoneJobs \ {k}) = Cardinality(DoneJobs) - 1
  BY <1>2, <1>10, FS_RemoveElement
<1>13. Cardinality(DoneJobs) \in Nat
  BY <1>10, FS_CardinalityType
<1>14. u + JKeep <= launched
  BY <1>1, <1>3, <1>8, <1>9, <1>11, <1>12, <1>13
<1>15. Processes(u) = {}
  BY <1>1, <1>4, NoneLeft DEF Processes, ProcsIn, u
<1>16. PICK v \in Launch : v = u
  <2>1. jobs[k] \in Job
    BY <1>1, <1>4
  <2>2. QED
    BY <2>1 DEF Job, u
<1>17. Lost(v) /\ Lost(v)'
  <2>1. Lost(v)
    <3>1. hist[v].owed \in {"yes", "told", "disowned"} /\ v + JKeep <= launched
          /\ Processes(v) = {}
      BY <1>1, <1>14, <1>15, <1>16 DEF TypeOK, Past
    <3>2. QED
      BY <1>3, <3>1 DEF Lost
  <2>2. QED
    BY <1>3, <2>1 DEF Lost, Processes
<1>18. jobs' = Without(jobs, k)
  BY <1>2 DEF Drop
<1>19. Move
  BY <1>1, <1>3, <1>4, <1>16, <1>17, <1>18 DEF Move, u
<1>20. Noted /\ Shrinks
  BY <1>1, <1>3, SameMoves, OwnKept
<1>21. Running'
  BY DEF TidyForget, Running, Waiting
<1>22. QED
  BY <1>19, <1>20, <1>21

\* A new job.
LEMMA StartMoves ==
  ASSUME MemInv, launched < MaxLaunch, NEW ps \in Seq(Pid), ps # <<>>,
         NEW bg \in BOOLEAN, Started(ps), Added(Fresh(ps, bg))
  PROVE  Move /\ Noted /\ Shrinks
<1> DEFINE j == Fresh(ps, bg)
<1>1. TypeOK /\ ps \in Seq(Maybe)
  <2>1. \A i \in DOMAIN ps : ps[i] \in Maybe
    BY Sets
  <2>2. QED
    BY <2>1 DEF MemInv, CountInv, Typed
<1>2. j \in Job
  BY <1>1, FreshType
<1>3. /\ j.uid = launched + 1 /\ j.id = (IF jobs = <<>> THEN 0 ELSE jid) + 1
      /\ jobs' = Append(jobs, j) /\ launched' = launched + 1
  BY DEF Fresh, Added, Started
<1> HIDE DEF j
<1>4. Move
  BY <1>2, <1>3 DEF Move
<1>5. Noted
  <2>1. hist' = [hist EXCEPT ![launched + 1].tail = ps[Len(ps)]]
    BY DEF Started
  <2>2. ASSUME NEW u \in Launch
        PROVE  /\ hist'[u].tail = hist[u].tail \/ u = launched + 1
               /\ hist'[u].owed = hist[u].owed
    <3>1. DOMAIN hist = Launch /\ hist[u] \in Past
      BY <1>1 DEF TypeOK
    <3>2. CASE u = launched + 1
      <4> DEFINE r == hist[u]
                 t == ps[Len(ps)]
      <4>1. hist'[u] = [r EXCEPT !.tail = t]
        BY <2>1, <3>1, <3>2
      <4>2. r \in Past
        BY <3>1
      <4> HIDE DEF r, t
      <4>3. [r EXCEPT !.tail = t].owed = r.owed
        BY ONLY <4>2 DEF Past
      <4>4. QED
        BY <3>2, <4>1, <4>3 DEF r
    <3>3. CASE u # launched + 1
      <4>1. hist'[u] = hist[u]
        BY <2>1, <3>1, <3>3
      <4>2. QED
        BY <4>1
    <3>4. QED
      BY <3>2, <3>3
  <2>3. QED
    BY <1>3, <2>2 DEF Noted
<1>6. Shrinks
  BY DEF Started, Shrinks
<1>7. QED
  BY <1>4, <1>5, <1>6

LEMMA LaunchMoves ==
  ASSUME MemInv,
         \/ Background \/ TidyEnd \/ ForkFails
         \/ \E p \in Pid : Fork(p)
         \/ \E ps \in Pipelines : Foreground(ps)
  PROVE  Move /\ Noted /\ Shrinks /\ Running'
<1> USE DEF shell
<1>1. TypeOK /\ CountInv
  BY DEF MemInv, CountInv, Typed
<1>2. CASE Background
  <2>1. launched' = launched /\ hist' = hist /\ pc' \in {"fork", "tidy"}
    BY <1>2 DEF Background
  <2>2. Move /\ Shrinks
    <3>1. CASE jobs = <<>>
      <4>1. jobs' = jobs /\ proc' = proc
        BY <1>2, <3>1 DEF Background
      <4>2. QED
        BY <1>1, <2>1, <4>1, SameMoves, OwnKept
    <3>2. CASE jobs # <<>>
      <4>1. Poll
        BY <1>2, <3>2 DEF Background
      <4>2. QED
        BY <1>1, <2>1, <4>1, PollMoves
    <3>3. QED
      BY <3>1, <3>2
  <2>3. QED
    BY <1>1, <2>1, <2>2, SameMoves DEF Running, Waiting
<1>3. CASE TidyEnd
  <2>1. UNCHANGED <<jobs, proc, launched, hist>> /\ pc' = "fork"
    BY <1>3 DEF TidyEnd
  <2>2. QED
    BY <1>1, <2>1, SameMoves, OwnKept DEF Running, Waiting
<1>4. CASE ForkFails
  <2>1. /\ UNCHANGED <<jobs, proc, hist>> /\ launched' = launched + 1
        /\ pc' = "idle"
    BY <1>4 DEF ForkFails
  <2>2. Noted
    BY <2>1 DEF Noted
  <2>3. QED
    BY <1>1, <2>1, <2>2, OwnKept DEF Move, Running, Waiting
<1>5. ASSUME NEW p \in Pid, Fork(p) PROVE Move /\ Noted /\ Shrinks /\ Running'
  <2> DEFINE ps == <<p>>
  <2>1. ps \in Seq(Pid) /\ ps # <<>>
    OBVIOUS
  <2>2. launched < MaxLaunch /\ Started(ps) /\ Added(Fresh(ps, TRUE))
    BY <1>5 DEF Fork, MemInv, CountInv, Typed, Room
  <2>3. Running'
    BY <1>5 DEF Fork, Running, Waiting
  <2> HIDE DEF ps
  <2>4. QED
    BY <2>1, <2>2, <2>3, StartMoves
<1>6. ASSUME NEW ps \in Pipelines, Foreground(ps)
      PROVE  Move /\ Noted /\ Shrinks /\ Running'
  <2>1. PICK n \in 1 .. MaxStages : ps \in [1 .. n -> Pid]
    BY DEF Pipelines
  <2>2. ps \in Seq(Pid) /\ ps # <<>>
    BY <2>1, ConstantsAssumption
  <2>3. launched < MaxLaunch /\ Started(ps) /\ Added(Fresh(ps, FALSE))
    BY <1>6 DEF Foreground
  <2>4. Running'
    <3>1. w'.op \in {"fg", "pipe"}
      BY <1>6 DEF Foreground, NoWork
    <3>2. QED
      BY <3>1 DEF Running
  <2>5. QED
    BY <2>2, <2>3, <2>4, StartMoves
<1>7. QED
  BY <1>2, <1>3, <1>4, <1>5, <1>6

\* fg, bg, kill and disown.
LEMMA CommandMoves ==
  ASSUME MemInv, NEW id \in Launch,
         \/ Command \/ CmdFg(id) \/ CmdBg(id) \/ CmdDisown(id)
         \/ \E s \in {"TERM", "STOP", "CONT"} : CmdKill(id, s)
  PROVE  Move /\ Noted /\ Shrinks /\ Running'
<1> USE DEF shell
<1> DEFINE k == At(id)
<1>1. TypeOK /\ CountInv /\ SameNames(jobs)
  BY DEF MemInv, CountInv, Typed, TypeOK, SameNames
<1>2. Shrinks
  <2>1. proc' = proc \/ \E S : proc' = Halted(S) \/ proc' = Continued(S)
    BY DEF Command, CmdFg, CmdBg, CmdKill, CmdDisown
  <2>2. QED
    BY <1>1, <2>1, OwnKept
<1>3. launched' = launched
  BY DEF Command, CmdFg, CmdBg, CmdKill, CmdDisown
<1>4. Running'
  <2>1. CASE CmdFg(id)
    BY <2>1 DEF CmdFg, NoWork, Running
  <2>2. CASE Command \/ CmdBg(id) \/ CmdDisown(id)
             \/ \E s \in {"TERM", "STOP", "CONT"} : CmdKill(id, s)
    BY <2>2 DEF Command, CmdBg, CmdDisown, CmdKill, Running, Waiting
  <2>3. QED
    BY <2>1, <2>2
<1>5. CASE Command
  BY <1>1, <1>2, <1>3, <1>4, <1>5, SameMoves DEF Command
<1>6. ASSUME HasJob(id) PROVE k \in DOMAIN jobs /\ jobs[k] \in Job
  <2>1. k \in DOMAIN jobs
    BY <1>6, AtType
  <2> HIDE DEF k
  <2>2. QED
    BY <1>1, <2>1 DEF TypeOK
<1>7. CASE CmdDisown(id)
  <2>1. k \in DOMAIN jobs /\ Drop(jobs, k) /\ Settled(jobs[k].uid, "disowned")
    BY <1>6, <1>7 DEF CmdDisown
  <2> HIDE DEF k
  <2>2. QED
    BY <1>1, <1>2, <1>3, <1>4, <2>1, DropMoves
<1>8. CASE CmdFg(id) \/ CmdBg(id) \/ \E s \in {"TERM", "STOP", "CONT"} : CmdKill(id, s)
  <2>1. k \in DOMAIN jobs /\ jobs[k] \in Job
    BY <1>6, <1>8 DEF CmdFg, CmdBg, CmdKill, Resumable
  <2> DEFINE fg == [jobs[k] EXCEPT !.state = "run", !.bg = FALSE, !.note = FALSE]
             bg == [jobs[k] EXCEPT !.state = "run", !.bg = TRUE, !.note = TRUE]
             on == [jobs[k] EXCEPT !.state = "run"]
             Names(i) == i \in Job /\ i.id = jobs[k].id /\ i.uid = jobs[k].uid
  <2>2. Names(fg) /\ Names(bg) /\ Names(on)
    <3> DEFINE j == jobs[k]
    <3>1. j \in Job
      BY <2>1
    <3> HIDE DEF j
    <3>2. /\ [j EXCEPT !.state = "run", !.bg = FALSE, !.note = FALSE] \in Job
          /\ [j EXCEPT !.state = "run", !.bg = FALSE, !.note = FALSE].id = j.id
          /\ [j EXCEPT !.state = "run", !.bg = FALSE, !.note = FALSE].uid = j.uid
      BY <3>1 DEF Job
    <3>3. /\ [j EXCEPT !.state = "run", !.bg = TRUE, !.note = TRUE] \in Job
          /\ [j EXCEPT !.state = "run", !.bg = TRUE, !.note = TRUE].id = j.id
          /\ [j EXCEPT !.state = "run", !.bg = TRUE, !.note = TRUE].uid = j.uid
      BY <3>1 DEF Job
    <3>4. /\ [j EXCEPT !.state = "run"] \in Job
          /\ [j EXCEPT !.state = "run"].id = j.id
          /\ [j EXCEPT !.state = "run"].uid = j.uid
      BY <3>1 DEF Job
    <3>5. QED
      BY <3>2, <3>3, <3>4 DEF j
  <2>3. /\ jobs' \in {jobs, [jobs EXCEPT ![k] = fg], [jobs EXCEPT ![k] = bg],
                      [jobs EXCEPT ![k] = on]}
        /\ hist' = hist
    BY <1>1, <1>8, <2>1 DEF CmdFg, CmdBg, CmdKill, TypeOK
  <2> HIDE DEF k, fg, bg, on
  <2>4. SameNames(jobs')
    BY <1>1, <2>1, <2>2, <2>3, UpdateNames
  <2>5. Move /\ Noted
    BY <1>1, <1>3, <2>3, <2>4, SameMoves DEF Move
  <2>6. QED
    BY <1>2, <1>4, <2>5
<1>9. QED
  BY <1>5, <1>7, <1>8

\* jobs and the report before a prompt.
LEMMA ReportMoves ==
  ASSUME MemInv, CmdJobs \/ Prompt \/ Walk \/ WalkEnd \/ CmdPoll
  PROVE  Move /\ Noted /\ Shrinks /\ Running'
<1> USE DEF shell
<1>1. TypeOK /\ CountInv /\ SameNames(jobs)
  BY DEF MemInv, CountInv, Typed, TypeOK, SameNames
<1>2. launched' = launched /\ Running'
  BY DEF CmdJobs, Prompt, Walk, WalkEnd, CmdPoll, Running, Waiting
<1>3. CASE CmdJobs \/ Prompt \/ CmdPoll
  <2>1. Poll /\ hist' = hist
    BY <1>3 DEF CmdJobs, Prompt, CmdPoll
  <2>2. QED
    BY <1>1, <1>2, <2>1, PollMoves, SameMoves
<1>4. CASE WalkEnd
  <2>1. UNCHANGED <<proc, jobs, hist>>
    BY <1>4 DEF WalkEnd
  <2>2. QED
    BY <1>1, <1>2, <2>1, SameMoves, OwnKept
<1>5. CASE Walk
  <2> DEFINE k == w.i
             i == [jobs[k] EXCEPT !.note = TRUE]
  <2>1. k \in DOMAIN jobs /\ jobs[k] \in Job
    BY <1>1, <1>5 DEF Walk, TypeOK, Work
  <2>2. i \in Job /\ i.id = jobs[k].id /\ i.uid = jobs[k].uid
    BY <2>1 DEF Job
  <2>3. Shrinks
    BY <1>1, <1>5, OwnKept DEF Walk
  <2>4. \/ jobs' \in {jobs, [jobs EXCEPT ![k] = i]} /\ hist' = hist
        \/ /\ jobs[k].state = "done"
           /\ Drop(jobs, k) /\ Settled(jobs[k].uid, "told")
    BY <1>1, <1>5, <2>1 DEF Walk, Passed, Shown, TypeOK
  <2> HIDE DEF k, i
  <2>5. CASE jobs' \in {jobs, [jobs EXCEPT ![k] = i]} /\ hist' = hist
    <3>1. SameNames(jobs')
      BY <1>1, <2>1, <2>2, <2>5, UpdateNames
    <3>2. QED
      BY <1>1, <1>2, <2>3, <2>5, <3>1, SameMoves DEF Move
  <2>6. CASE /\ jobs[k].state = "done"
             /\ Drop(jobs, k) /\ Settled(jobs[k].uid, "told")
    <3>1. Processes(jobs[k].uid) = {}
      BY <1>1, <2>1, <2>6, NoneLeft DEF Processes, ProcsIn
    <3>2. QED
      BY <1>1, <1>2, <2>1, <2>3, <2>6, <3>1, DropMoves
  <2>7. QED
    BY <2>4, <2>5, <2>6
<1>6. QED
  BY <1>3, <1>4, <1>5

\* fg and a wait for one job.
LEMMA HeldMoves ==
  ASSUME MemInv, FgEnd \/ JobEnd \/ \E p \in Pid : FgReap(p) \/ JobReap(p)
  PROVE  Move /\ Noted /\ Shrinks /\ Running'
<1> USE DEF shell
<1> DEFINE k == At(w.id)
<1>1. TypeOK /\ CountInv /\ SameNames(jobs) /\ launched' = launched
  <2>1. launched' = launched
    BY DEF FgEnd, JobEnd, FgReap, JobReap
  <2>2. QED
    BY <2>1 DEF MemInv, CountInv, Typed, TypeOK, SameNames
<1>2. k \in DOMAIN jobs /\ jobs[k].id = w.id
  <2>1. HasJob(w.id)
    BY <1>1 DEF FgReap, FgEnd, JobReap, JobEnd, Rounds, CountInv, Typed, HeldJob, Waiting
  <2>2. QED
    BY <2>1, AtType
<1>3. jobs[k] \in Job /\ w.st \in St
  <2> HIDE DEF k
  <2>1. QED
    BY <1>1, <1>2 DEF TypeOK, Work
<1>4. CASE FgEnd \/ JobEnd
  <2> DEFINE i == [jobs[k] EXCEPT !.bg = TRUE, !.st = w.st, !.note = TRUE]
  <2>1. i \in Job /\ i.id = jobs[k].id /\ i.uid = jobs[k].uid
    <3> DEFINE j == jobs[k]
               n == [j EXCEPT !.bg = TRUE, !.st = w.st, !.note = TRUE]
    <3>1. j \in Job
      BY <1>3
    <3> HIDE DEF j
    <3>2. n \in Job /\ n.id = j.id /\ n.uid = j.uid
      BY <1>3, <3>1 DEF Job
    <3>3. QED
      BY <3>2 DEF j
  <2>2. Shrinks /\ Running'
    BY <1>1, <1>4, OwnKept DEF FgEnd, JobEnd, Running, Waiting
  <2>3. \/ jobs' = [jobs EXCEPT ![k] = i] /\ hist' = hist
        \/ /\ Drop(jobs, k) /\ Settled(jobs[k].uid, "told")
           /\ \/ Who(jobs[k]) = {} \/ Ask(jobs[k]) = {}
              \/ jobs[k].ndone >= jobs[k].np \/ jobs[k].state = "done"
    <3>1. CASE FgEnd
      <4>1. jobs[k].ndone \in Nat /\ jobs[k].np \in Nat
            /\ jobs[k].state \in {"run", "stop", "done"}
        BY <1>3 DEF Job
      <4>2. CASE jobs[k].state = "stop"
        BY <1>1, <1>2, <3>1, <4>2 DEF FgEnd, TypeOK
      <4>3. CASE jobs[k].state # "stop"
        <5>1. Drop(jobs, k) /\ Settled(jobs[k].uid, "told")
          BY <3>1, <4>3 DEF FgEnd
        <5>2. ~Unfinished(jobs[k]) \/ Who(jobs[k]) = {}
          BY <3>1 DEF FgEnd
        <5> HIDE DEF k
        <5>3. QED
          BY <4>1, <4>3, <5>1, <5>2 DEF Unfinished
      <4>4. QED
        BY <4>2, <4>3
    <3>2. CASE JobEnd
      <4>1. jobs[k].ndone \in Nat /\ jobs[k].np \in Nat
        BY <1>3 DEF Job
      <4>2. Drop(jobs, k) /\ Settled(jobs[k].uid, "told")
            /\ (~Unfinished(jobs[k]) \/ Ask(jobs[k]) = {})
        BY <3>2 DEF JobEnd
      <4>3. w.op = "job" /\ Waiting
        BY <3>2 DEF JobEnd, Rounds, Waiting
      <4>4. jobs[k].state = "run"
        BY <1>2, <4>3 DEF MemInv, Running
      <4> HIDE DEF k
      <4>5. QED
        BY <4>1, <4>2, <4>4 DEF Unfinished
    <3>3. QED
      BY <1>4, <3>1, <3>2
  <2> HIDE DEF k, i
  <2>4. CASE jobs' = [jobs EXCEPT ![k] = i] /\ hist' = hist
    <3>1. SameNames(jobs')
      BY <1>1, <1>2, <2>1, <2>4, UpdateNames
    <3>2. QED
      BY <1>1, <2>2, <2>4, <3>1, SameMoves DEF Move
  <2>5. CASE /\ Drop(jobs, k) /\ Settled(jobs[k].uid, "told")
             /\ \/ Who(jobs[k]) = {} \/ Ask(jobs[k]) = {}
                \/ jobs[k].ndone >= jobs[k].np \/ jobs[k].state = "done"
    <3>1. ProcsIn(proc, jobs[k].uid) = {}
      BY <1>1, <1>2, <2>5, NoneLeft, One
    <3>2. Processes(jobs[k].uid) = {}
      BY <3>1 DEF Processes, ProcsIn
    <3>3. QED
      BY <1>1, <1>2, <2>2, <2>5, <3>2, DropMoves
  <2>6. QED
    BY <2>3, <2>4, <2>5
<1>5. ASSUME NEW p \in Pid, FgReap(p) \/ JobReap(p)
      PROVE  Move /\ Noted /\ Shrinks /\ Running'
  <2> DEFINE i == After(jobs[k], p)
             s == [After(jobs[k], p) EXCEPT !.st = StopSt]
  <2>1. /\ i \in Job /\ i.id = jobs[k].id /\ i.uid = jobs[k].uid
        /\ s \in Job /\ s.id = jobs[k].id /\ s.uid = jobs[k].uid
        /\ ~Stopped(p) => i.state = jobs[k].state
    <3> DEFINE j == jobs[k]
    <3>1. j \in Job
      BY <1>3
    <3> HIDE DEF j
    <3>2. /\ After(j, p) \in Job /\ [After(j, p) EXCEPT !.st = StopSt] \in Job
          /\ After(j, p).id = j.id /\ After(j, p).uid = j.uid
          /\ [After(j, p) EXCEPT !.st = StopSt].id = j.id
          /\ [After(j, p) EXCEPT !.st = StopSt].uid = j.uid
          /\ ~Stopped(p) => After(j, p).state = j.state
      BY <3>1, AfterType DEF After, Job
    <3>3. QED
      BY <3>2 DEF j
  <2>2. jobs' \in {[jobs EXCEPT ![k] = i], [jobs EXCEPT ![k] = s]} /\ hist' = hist
    BY <1>1, <1>2, <1>5 DEF FgReap, JobReap, TypeOK
  <2>3. Shrinks
    BY <1>1, <1>5, OwnKept DEF FgReap, JobReap
  <2>4. \/ ~Stopped(p) /\ jobs' = [jobs EXCEPT ![k] = i] /\ w'.id = w.id
        \/ w'.op # "job"
    BY <1>1, <1>2, <1>5 DEF FgReap, JobReap, Rounds, NoWork, TypeOK, Work
  <2>5. jobs[k].state = "run"
    BY <1>5 DEF FgReap, JobReap, Unfinished
  <2> HIDE DEF k, i, s
  <2>6. SameNames(jobs')
    BY <1>1, <1>2, <2>1, <2>2, UpdateNames
  <2>7. Running'
    <3>1. CASE ~Stopped(p) /\ jobs' = [jobs EXCEPT ![k] = i] /\ w'.id = w.id
      <4>1. ASSUME NEW h \in DOMAIN jobs', jobs'[h].id = w'.id
            PROVE  jobs'[h].state = "run"
        <5>1. h \in DOMAIN jobs /\ jobs[h].id = jobs[k].id
          BY <1>2, <2>6, <3>1, <4>1 DEF SameNames
        <5>2. h = k
          BY <1>2, <5>1 DEF MemInv, IdsUnique
        <5>3. jobs'[k] = i
          BY <1>1, <1>2, <3>1 DEF TypeOK
        <5>4. QED
          BY <2>1, <2>5, <3>1, <5>2, <5>3
      <4>2. QED
        BY <4>1 DEF Running
    <3>2. CASE w'.op # "job"
      BY <3>2 DEF Running
    <3>3. QED
      BY <2>4, <3>1, <3>2
  <2>8. QED
    BY <1>1, <2>2, <2>3, <2>6, <2>7, SameMoves DEF Move
<1>6. QED
  BY <1>4, <1>5

\* An operand of wait.
LEMMA OperandMoves ==
  ASSUME MemInv,
         \/ \E id \in Launch : WaitJob(id)
         \/ \E p \in Pid : WaitPid(p)
  PROVE  Move /\ Noted /\ Shrinks /\ Running'
<1> USE DEF shell
<1>1. TypeOK /\ CountInv /\ SameNames(jobs)
  BY DEF MemInv, CountInv, Typed, TypeOK, SameNames
<1>2. launched' = launched /\ proc' = proc
  BY DEF WaitJob, WaitPid
<1>3. Shrinks
  BY <1>1, <1>2, OwnKept
<1>4. ASSUME NEW k, k = 0 \/ k \in DOMAIN jobs, NEW arg \in Work, Operand(k, arg)
      PROVE  Move /\ Noted /\ Running'
  <2>1. CASE /\ k # 0 /\ jobs[k].state = "done"
             /\ Drop(jobs, k) /\ Settled(jobs[k].uid, "told") /\ pc' = "more"
    <3>1. k \in DOMAIN jobs
      BY <1>4, <2>1
    <3>2. Processes(jobs[k].uid) = {}
      BY <1>1, <2>1, <3>1, NoneLeft DEF Processes, ProcsIn
    <3>3. Move /\ Noted
      BY <1>1, <1>2, <1>3, <2>1, <3>1, <3>2, DropMoves
    <3>4. QED
      BY <2>1, <3>3 DEF Running, Waiting
  <2>2. CASE /\ jobs' = jobs /\ hist' = hist
             /\ \/ pc' = "more"
                \/ w' = [arg EXCEPT !.op = "pid"]
    <3>1. Running'
      BY <1>4, <2>2 DEF Running, Waiting, Work
    <3>2. QED
      BY <1>1, <1>2, <2>2, <3>1, SameMoves
  <2>3. CASE /\ jobs' = jobs /\ hist' = hist /\ k # 0 /\ jobs[k].state = "run"
             /\ w' = [arg EXCEPT !.op = "job", !.id = jobs[k].id]
    <3>1. k \in DOMAIN jobs /\ w'.id = jobs[k].id
      BY <1>4, <2>3 DEF Work
    <3>2. \A h \in DOMAIN jobs : jobs[h].id = w'.id => h = k
      BY <3>1 DEF MemInv, IdsUnique
    <3>3. Running'
      BY <2>3, <3>2 DEF Running
    <3>4. QED
      BY <1>1, <1>2, <2>3, <3>3, SameMoves
  <2>4. QED
    BY <1>4, <2>1, <2>2, <2>3 DEF Operand
<1>5. ASSUME NEW id \in Launch, WaitJob(id) PROVE Move /\ Noted /\ Running'
  <2> DEFINE k == IF HasJob(id) THEN At(id) ELSE 0
             u == IF k = 0 THEN 0 ELSE jobs[k].uid
             arg == [NoWork EXCEPT !.own = u]
  <2>1. k = 0 \/ k \in DOMAIN jobs
    BY AtType
  <2>2. Operand(k, arg)
    BY <1>5 DEF WaitJob
  <2>3. u \in Owner
    <3> HIDE DEF k
    <3>1. k # 0 => jobs[k] \in Job
      BY <1>1, <2>1 DEF TypeOK
    <3>2. QED
      BY <3>1, Sets DEF Job
  <2> HIDE DEF u
  <2>4. arg \in Work
    BY <2>3, NoWorkType, WorkType
  <2> HIDE DEF k, arg
  <2>5. QED
    BY <1>4, <2>1, <2>2, <2>4
<1>6. ASSUME NEW p \in Pid, WaitPid(p) PROVE Move /\ Noted /\ Running'
  <2> DEFINE k == ByPid(p, FALSE)
             arg == [NoWork EXCEPT !.pid = p, !.own = Meant(p)]
  <2>1. k = 0 \/ k \in DOMAIN jobs
    BY <1>1, ByPidType
  <2>2. Operand(k, arg)
    BY <1>6 DEF WaitPid
  <2>3. arg \in Work
    BY MeantType, NoWorkType, WorkType
  <2> HIDE DEF k, arg
  <2>4. QED
    BY <1>4, <2>1, <2>2, <2>3
<1>7. QED
  BY <1>3, <1>5, <1>6

\* What changes neither table nor history.
LEMMA RoundMoves ==
  ASSUME MemInv,
         \/ WaitEnd \/ WaitTrapped \/ JobDoze \/ Wake \/ CmdEnd \/ RunTraps
         \/ PidRound
         \/ \E mode \in {"n", "all"} : WaitAny(mode)
         \/ UNCHANGED vars
  PROVE  Move /\ Noted /\ Shrinks /\ Running'
<1> USE DEF shell
<1>1. TypeOK
  BY DEF MemInv, CountInv, Typed
<1>2. jobs' = jobs /\ launched' = launched /\ hist' = hist
  BY DEF WaitEnd, WaitTrapped, JobDoze, Doze, Wake, CmdEnd, RunTraps, PidRound, WaitAny, vars
<1>3. Shrinks
  <2>1. CASE PidRound
    <3>1. w.pid \in Pid
      BY <2>1 DEF PidRound, Rounds, MemInv, CountInv, Typed, TypeOK, HeldJob, Waiting,
                  Work, Maybe
    <3>2. proc' = proc \/ proc' = [proc EXCEPT ![w.pid] = Free]
      BY <2>1 DEF PidRound, Doze
    <3>3. QED
      BY <1>1, <3>1, <3>2, OwnKept
  <2>2. CASE ~PidRound
    <3>1. proc' = proc
      BY <2>2 DEF WaitEnd, WaitTrapped, JobDoze, Doze, Wake, CmdEnd, RunTraps, WaitAny, vars
    <3>2. QED
      BY <1>1, <3>1, OwnKept
  <2>3. QED
    BY <2>1, <2>2
<1>4. Running'
  <2>1. CASE WaitEnd \/ WaitTrapped \/ CmdEnd \/ RunTraps \/ UNCHANGED vars
    BY <2>1 DEF WaitEnd, WaitTrapped, CmdEnd, RunTraps, vars, MemInv, Running, Waiting
  <2>2. CASE JobDoze \/ Wake \/ (PidRound /\ w' = w)
    <3>1. w' = w /\ Waiting
      BY <2>2 DEF JobDoze, Doze, Wake, PidRound, Rounds, Waiting
    <3>2. QED
      BY <1>2, <3>1, RunningKept DEF MemInv
  <2>3. CASE PidRound /\ w' # w
    BY <2>3 DEF PidRound, Doze, Running, Waiting
  <2>4. CASE \E mode \in {"n", "all"} : WaitAny(mode)
    BY <2>4 DEF WaitAny, NoWork, Running
  <2>5. QED
    BY <2>1, <2>2, <2>3, <2>4
<1>5. QED
  BY <1>1, <1>2, <1>3, <1>4, SameMoves

\* wait and wait -n with no operand.
LEMMA AnyMoves ==
  ASSUME MemInv, AnyQuiet \/ \E p \in Pid : AnyReap(p)
  PROVE  Move /\ Noted /\ Shrinks /\ Running'
<1> USE DEF shell
<1>1. /\ TypeOK /\ CountInv /\ jobs \in Seq(Job)
      /\ DOMAIN jobs \in SUBSET Nat /\ 0 \notin DOMAIN jobs
  BY DEF MemInv, CountInv, Typed, TypeOK
<1>2. launched' = launched
  BY DEF AnyQuiet, AnyReap
<1>3. ASSUME NEW K PROVE SameNames(Marked(K))
  <2>1. ASSUME NEW h \in DOMAIN jobs
        PROVE  Marked(K)[h].id = jobs[h].id /\ Marked(K)[h].uid = jobs[h].uid
    <3>1. jobs[h] \in Job /\ Marked(K)[h] \in {jobs[h], [jobs[h] EXCEPT !.state = "done"]}
      BY <1>1 DEF Marked
    <3>2. QED
      BY <3>1 DEF Job
  <2>2. QED
    BY <1>1, <2>1, MarkedType DEF SameNames
<1>4. w'.op # "job" \/ pc' = "end"
  BY DEF AnyQuiet, AnyReap, Rounds
<1>5. Running'
  BY <1>4 DEF Running, Waiting
<1>6. CASE AnyQuiet
  <2>1. jobs' = Marked(Deserted) /\ proc' = proc /\ hist' = hist
    BY <1>6 DEF AnyQuiet
  <2>2. QED
    BY <1>1, <1>2, <1>3, <1>5, <2>1, SameMoves, OwnKept DEF Move
<1>7. ASSUME NEW p \in Pid, AnyReap(p)
      PROVE  Move /\ Noted /\ Shrinks /\ Running'
  <2>1. proc' = [proc EXCEPT ![p] = Taken(p)]
    BY <1>7 DEF AnyReap
  <2>2. Shrinks
    BY <1>1, <2>1, OwnKept
  <2>3. PICK k \in Active :
          /\ p \in News(Ask(jobs[k]))
          /\ Count(Marked({h \in Deserted : h < k}), ByPid(p, ~Stopped(p)), p)
    BY <1>7 DEF AnyReap
  <2> DEFINE K == {h \in Deserted : h < k}
             js == Marked(K)
             u == jobs[k].uid
  <2>4. k \in DOMAIN jobs /\ k \notin K
    BY <1>1 DEF Active
  <2>5. /\ jobs[k] \in Job /\ Owned(proc, launched, jobs[k])
        /\ p \in News(ProcsIn(proc, u))
    BY <1>1, <2>3, <2>4, One
  <2>6. p \in Named(jobs[k]) /\ proc[p].own = u
    BY <2>5 DEF News, ProcsIn, Owned
  <2>7. ByPid(p, ~Stopped(p)) = k
    BY <1>1, <2>4, <2>6, ByPidIs
  <2>8. SameNames(js) /\ js[k] = jobs[k]
    BY <1>3, <2>4 DEF Marked
  <2>9. Count(js, k, p)
    BY <2>3, <2>7
  <2> HIDE DEF js, K
  <2> DEFINE i == After(jobs[k], p)
             s == [After(jobs[k], p) EXCEPT !.st = StopSt]
  <2>10. /\ i \in Job /\ i.id = jobs[k].id /\ i.uid = jobs[k].uid
         /\ s \in Job /\ s.id = jobs[k].id /\ s.uid = jobs[k].uid
    <3> DEFINE j == jobs[k]
    <3>1. j \in Job
      BY <2>5
    <3> HIDE DEF j
    <3>2. /\ After(j, p) \in Job /\ [After(j, p) EXCEPT !.st = StopSt] \in Job
          /\ After(j, p).id = j.id /\ After(j, p).uid = j.uid
          /\ [After(j, p) EXCEPT !.st = StopSt].id = j.id
          /\ [After(j, p) EXCEPT !.st = StopSt].uid = j.uid
      BY <3>1, AfterType DEF After, Job
    <3>3. QED
      BY <3>2 DEF j
  <2>11. \/ jobs' \in {[js EXCEPT ![k] = i], [js EXCEPT ![k] = s]}
         \/ ~Stopped(p) /\ jobs[k].ndone + 1 >= jobs[k].np /\ Drop(js, k)
    BY <1>1, <2>4, <2>8, <2>9 DEF Count, SameNames
  <2> HIDE DEF i, s
  <2>12. CASE jobs' \in {[js EXCEPT ![k] = i], [js EXCEPT ![k] = s]}
    <3>1. SameNames(jobs')
      BY <2>4, <2>8, <2>10, <2>12, UpdateNames
    <3>2. hist' = hist \/ Settled(u, "told")
      BY <1>7, <2>6 DEF AnyReap
    <3>3. InTable(u) /\ \A v \in Launch : hist[v] \in Past
      BY <1>1, <2>4 DEF InTable, TypeOK
    <3> HIDE DEF u
    <3>4. ASSUME NEW v \in Launch, Settled(u, "told")
          PROVE  hist'[v].tail = hist[v].tail /\ (hist'[v].owed = hist[v].owed \/ v = u)
      BY <3>3, <3>4 DEF Settled, Past
    <3>5. Noted
      BY <3>2, <3>3, <3>4 DEF Noted
    <3>6. QED
      BY <1>2, <1>5, <2>2, <3>1, <3>5 DEF Move
  <2>13. CASE ~Stopped(p) /\ jobs[k].ndone + 1 >= jobs[k].np /\ Drop(js, k)
    <3>1. ProcsIn(proc, u) = {p}
      <4> DEFINE P == ProcsIn(proc, u)
      <4>1. IsFiniteSet(P) /\ Cardinality(P) \in Nat
        BY Finite
      <4>2. /\ Cardinality(P) + jobs[k].ndone = jobs[k].np
            /\ jobs[k].ndone \in Nat /\ jobs[k].np \in Nat
        BY <2>5 DEF Owned, Job
      <4>3. p \in P
        BY <2>6 DEF ProcsIn
      <4> HIDE DEF P
      <4>4. Cardinality(P) <= 1
        BY <2>13, <4>1, <4>2
      <4>5. IsFiniteSet(P \ {p}) /\ Cardinality(P \ {p}) = Cardinality(P) - 1
        BY <4>1, <4>3, FS_RemoveElement
      <4>6. Cardinality(P \ {p}) \in Nat
        BY <4>5, FS_CardinalityType
      <4>7. Cardinality(P \ {p}) = 0
        BY <4>1, <4>4, <4>5, <4>6
      <4>8. P \ {p} = {}
        BY <4>5, <4>7, FS_EmptySet
      <4>9. QED
        BY <4>3, <4>8 DEF P
    <3>2. Settled(u, "told")
      <4>1. ~ \E q \in Pid \ {p} : proc[q].own = proc[p].own
        BY <2>6, <3>1 DEF ProcsIn
      <4>2. QED
        BY <1>7, <2>6, <2>13, <4>1 DEF AnyReap
    <3>3. proc'[p].own = 0 /\ u # 0
      <4>1. proc[p].ph = "zombie" /\ DOMAIN proc = Pid
        BY <1>1, <2>5, <2>13 DEF News, TypeOK
      <4>2. Taken(p).own = 0
        BY <4>1 DEF Taken, Free
      <4>3. u # 0
        BY <2>5 DEF Owned
      <4>4. QED
        BY <2>1, <4>1, <4>2, <4>3
    <3>4. Processes(u) \subseteq {q \in Pid : proc'[q].own # u}
      BY <3>1, <3>3 DEF Processes, ProcsIn
    <3>5. Move /\ Noted
      BY <1>1, <1>2, <2>2, <2>4, <2>8, <2>13, <3>2, <3>4, DropMoves
    <3>6. QED
      BY <1>5, <2>2, <3>5
  <2>14. QED
    BY <2>11, <2>12, <2>13
<1>8. QED
  BY <1>6, <1>7

-----------------------------------------------------------------------------
(***************************************************************************)
(* No job is forgotten                                                     *)
(***************************************************************************)

LEMMA InitRemembers == Init => MemInv
<1> SUFFICES ASSUME Init PROVE MemInv
  OBVIOUS
<1>1. CountInv
  BY InitCounts
<1>2. DOMAIN jobs = {} /\ launched = 0 /\ pc = "idle"
      /\ hist = [u \in Launch |-> [tail |-> NoPid, st |-> NoSt, owed |-> "yes"]]
  BY DEF Init
<1>3. IdsUnique /\ Order /\ Running
  BY <1>2 DEF IdsUnique, Order, Running
<1>4. Remembered /\ Unborn
  BY <1>2 DEF Remembered, Unborn
<1>5. QED
  BY <1>1, <1>3, <1>4 DEF MemInv

\* One step per action.
LEMMA StepMoves ==
  ASSUME Steady, MemInv, [Next]_vars
  PROVE  Move /\ Noted /\ Shrinks /\ Running'
<1>1. CASE Kernel
  BY <1>1, KernelMoves
<1>2. CASE Start
  <2>1. CASE Background \/ \E ps \in Pipelines : Distinct(ps) /\ Foreground(ps)
    BY <2>1, LaunchMoves
  <2>2. CASE Command
    BY <2>2, CommandMoves, ConstantsAssumption DEF Launch
  <2>3. CASE \E id \in Launch : \/ CmdFg(id) \/ CmdBg(id) \/ CmdDisown(id)
                                \/ \E s \in {"TERM", "STOP", "CONT"} : CmdKill(id, s)
    BY <2>3, CommandMoves
  <2>4. CASE CmdJobs \/ Prompt
    BY <2>4, ReportMoves
  <2>5. CASE (\E id \in Launch : WaitJob(id)) \/ (\E p \in Pid : WaitPid(p))
    BY <2>5, OperandMoves
  <2>6. CASE RunTraps \/ \E mode \in {"n", "all"} : WaitAny(mode)
    BY <2>6, RoundMoves
  <2>7. QED
    BY <1>2, <2>1, <2>2, <2>3, <2>4, <2>5, <2>6 DEF Start
<1>3. CASE Continue
  <2>1. CASE TidyEnd \/ ForkFails \/ \E p \in Pid : Fork(p)
    BY <2>1, LaunchMoves
  <2>2. CASE TidyForget
    BY <2>2, TidyMoves
  <2>3. CASE FgEnd \/ JobEnd \/ \E p \in Pid : FgReap(p) \/ JobReap(p)
    BY <2>3, HeldMoves
  <2>4. CASE Walk \/ WalkEnd \/ CmdPoll
    BY <2>4, ReportMoves
  <2>5. CASE WaitEnd \/ WaitTrapped \/ JobDoze \/ Wake \/ CmdEnd \/ PidRound
    BY <2>5, RoundMoves
  <2>6. CASE AnyQuiet \/ \E p \in Pid : AnyReap(p)
    BY <2>6, AnyMoves
  <2>7. QED
    BY <1>3, <2>1, <2>2, <2>3, <2>4, <2>5, <2>6 DEF Continue
<1>4. CASE UNCHANGED vars
  BY <1>4, RoundMoves
<1>5. QED
  BY <1>1, <1>2, <1>3, <1>4 DEF Next

LEMMA StepRemembers ==
  ASSUME Steady, MemInv, [Next]_vars
  PROVE  MemInv'
<1>1. CountInv'
  BY StepCounts DEF MemInv
<1>2. IdsUnique'
  BY NextStep, TableUnique DEF MemInv, CountInv, Typed
<1>3. Move /\ Noted /\ Shrinks /\ Running'
  BY StepMoves
<1>4. Remembered' /\ Unborn'
  BY <1>1, <1>3, MoveRemembers
<1>5. Order'
  BY <1>3, MoveOrder
<1>6. QED
  BY <1>1, <1>2, <1>3, <1>4, <1>5 DEF MemInv

\* jc_tidy, jc_drop and the waits lose no child: one the shell has not reaped
\* is in the table unless the user disowned it, and a script can still ask for
\* any of the last HIBR_JKEEP jobs it has had no answer for.
THEOREM RememberedCorrect == ASSUME Steady PROVE Spec => []Remembered
<1>1. MemInv /\ [Next]_vars => MemInv'
  BY StepRemembers
<1>2. MemInv => Remembered
  BY DEF MemInv
<1>3. QED
  BY <1>1, <1>2, InitRemembers, PTL DEF Spec

-----------------------------------------------------------------------------
(***************************************************************************)
(* A module's child                                                        *)
(***************************************************************************)

\* No job waits for a child of a module.
LEMMA Foreign ==
  ASSUME CountInv, NEW p \in Pid, proc[p].own = Module, NEW k \in DOMAIN jobs
  PROVE  p \notin Who(jobs[k]) /\ p \notin Ask(jobs[k]) /\ p \notin Claim(k)
<1>1. jobs[k].uid # Module
  BY ModuleApart
<1>2. p \notin ProcsIn(proc, jobs[k].uid)
  BY <1>1 DEF ProcsIn
<1>3. Who(jobs[k]) = ProcsIn(proc, jobs[k].uid) /\ Ask(jobs[k]) = ProcsIn(proc, jobs[k].uid)
  BY One
<1>4. p \notin Claim(k)
  BY <1>2, ClaimIs DEF News
<1>5. QED
  BY <1>2, <1>3, <1>4

\* Stopping and continuing change no owner, nor does forking another process.
LEMMA ModuleKept ==
  ASSUME CountInv, NEW p \in Pid, proc[p].own = Module
  PROVE  /\ \A S : proc' = Halted(S) \/ proc' = Continued(S) => proc'[p].own = Module
         /\ \A q \in Pid \ {p} : proc' = [proc EXCEPT ![q] = Taken(q)]
                                   => proc'[p].own = Module
         /\ Poll => proc'[p].own = Module
         /\ \A ps : (\A i \in DOMAIN ps : FreshPid(ps[i])) /\ Started(ps)
                      => proc'[p].own = Module
<1>1. proc[p] \in Process /\ DOMAIN proc = Pid
  BY DEF CountInv, Typed, TypeOK
<1>2. proc[p].ph # "free"
  BY ConstantsAssumption DEF CountInv, ProcsFit, Module
<1>3. ASSUME NEW S, proc' = Halted(S) \/ proc' = Continued(S)
      PROVE  proc'[p].own = Module
  <2>1. Halted(S)[p].own = Module /\ Continued(S)[p].own = Module
    BY <1>1 DEF Halted, Continued, Process
  <2>2. QED
    BY <1>3, <2>1
<1>4. \A q \in Pid \ {p} : proc' = [proc EXCEPT ![q] = Taken(q)] => proc'[p].own = Module
  BY <1>1
<1>5. Poll => proc'[p].own = Module
  BY Foreign DEF Poll
<1>6. ASSUME NEW ps, \A i \in DOMAIN ps : FreshPid(ps[i]), Started(ps)
      PROVE  proc'[p].own = Module
  <2>1. ~ \E i \in DOMAIN ps : ps[i] = p
    BY <1>2, <1>6 DEF FreshPid
  <2>2. proc'[p] = proc[p]
    BY <1>6, <2>1 DEF Started
  <2>3. QED
    BY <2>2
<1>7. QED
  BY <1>3, <1>4, <1>5, <1>6

\* One step per action.
LEMMA OnlyItsOwn ==
  ASSUME CountInv, [Next]_vars, NEW p \in Pid, proc[p].own = Module,
         proc'[p].own # Module
  PROVE  ModReap(p) \/ w.op = "pid"
<1>1. proc' # proc
  OBVIOUS
<1>2. CASE Kernel
  <2>1. \A q \in Pid : proc[q] \in Process
    BY DEF CountInv, Typed, TypeOK
  <2>2. DOMAIN proc = Pid
    BY DEF CountInv, Typed, TypeOK
  <2>3. ASSUME NEW q \in Pid, NEW s \in Status
        PROVE  ~KExit(q, s)
    BY <2>1, <2>2 DEF KExit, Process
  <2>4. ASSUME NEW q \in Pid
        PROVE  ~KStop(q) /\ ~KCont(q)
    BY ModuleKept DEF KStop, KCont
  <2>5. ASSUME NEW q \in Pid
        PROVE  ~KLeave(q) /\ ~ModFork(q) /\ (ModReap(q) => q = p)
    <3>1. ~KLeave(q)
      BY <2>1, <2>2 DEF KLeave, Process
    <3>2. ~ModFork(q)
      <4>1. ModFork(q) => proc' = [proc EXCEPT ![q] =
                [ph |-> "run", grp |-> q, st |-> 0, told |-> FALSE, own |-> Module]]
        BY DEF ModFork
      <4>2. QED
        BY <2>2, <4>1
    <3>3. ModReap(q) => q = p
      <4>1. ModReap(q) => proc' = [proc EXCEPT ![q] = Free]
        BY DEF ModReap
      <4>2. QED
        BY <2>2, <4>1
    <3>4. QED
      BY <3>1, <3>2, <3>3
  <2>6. ~KSignal
    BY <1>1 DEF KSignal
  <2>7. QED
    BY <1>2, <2>3, <2>4, <2>5, <2>6 DEF Kernel
<1>3. ~Start
  <2>1. ~Poll
    BY ModuleKept
  <2>2. ~Background /\ ~Command /\ ~CmdJobs /\ ~Prompt /\ ~RunTraps
    BY <1>1, <2>1 DEF Background, Command, CmdJobs, Prompt, RunTraps
  <2>3. ASSUME NEW ps \in Pipelines PROVE ~Foreground(ps)
    BY ModuleKept DEF Foreground
  <2>4. ASSUME NEW id \in Launch
        PROVE  ~CmdFg(id) /\ ~CmdBg(id) /\ ~CmdDisown(id) /\ ~WaitJob(id)
    BY <1>1, ModuleKept DEF CmdFg, CmdBg, CmdDisown, WaitJob
  <2>5. ASSUME NEW id \in Launch, NEW s \in {"TERM", "STOP", "CONT"}
        PROVE  ~CmdKill(id, s)
    BY <1>1, ModuleKept DEF CmdKill
  <2>6. ASSUME NEW q \in Pid PROVE ~WaitPid(q)
    BY <1>1 DEF WaitPid
  <2>7. ASSUME NEW mode PROVE ~WaitAny(mode)
    BY <1>1 DEF WaitAny
  <2>8. QED
    BY <2>2, <2>3, <2>4, <2>5, <2>6, <2>7 DEF Start
<1>4. CASE Continue
  <2>1. ~Poll
    BY ModuleKept
  <2>2. /\ ~TidyForget /\ ~TidyEnd /\ ~ForkFails /\ ~FgEnd /\ ~Walk /\ ~WalkEnd
        /\ ~WaitEnd /\ ~WaitTrapped /\ ~JobDoze /\ ~JobEnd /\ ~AnyQuiet /\ ~Wake
        /\ ~CmdEnd /\ ~CmdPoll
    BY <1>1, <2>1
    DEF TidyForget, TidyEnd, ForkFails, FgEnd, Walk, WalkEnd, WaitEnd, WaitTrapped,
        JobDoze, Doze, JobEnd, AnyQuiet, Wake, CmdEnd, CmdPoll
  <2>3. PidRound => w.op = "pid"
    BY DEF PidRound, Rounds
  <2>4. ASSUME NEW q \in Pid PROVE ~Fork(q)
    <3>1. Fork(q) => FreshPid(q) /\ Started(<<q>>)
      BY DEF Fork
    <3>2. \A i \in DOMAIN <<q>> : <<q>>[i] = q
      OBVIOUS
    <3>3. QED
      BY <3>1, <3>2, ModuleKept
  <2>5. ASSUME NEW q \in Pid, FgReap(q) \/ JobReap(q) \/ AnyReap(q)
        PROVE  FALSE
    <3>1. proc' = [proc EXCEPT ![q] = Taken(q)]
      BY <2>5 DEF FgReap, JobReap, AnyReap
    <3>2. q = p
      BY <3>1, ModuleKept
    <3>3. \E k \in DOMAIN jobs : q \in Who(jobs[k]) \/ q \in Ask(jobs[k])
      <4>1. CASE FgReap(q)
        <5>1. Waiting /\ w.op \in {"fg", "pipe"} /\ q \in News(Who(jobs[At(w.id)]))
          BY <4>1 DEF FgReap, Waiting
        <5>2. At(w.id) \in DOMAIN jobs
          BY <5>1, AtType DEF CountInv, Typed, HeldJob
        <5>3. QED
          BY <5>1, <5>2 DEF News
      <4>2. CASE JobReap(q)
        <5>1. Waiting /\ w.op = "job" /\ q \in News(Ask(jobs[At(w.id)]))
          BY <4>2 DEF JobReap, Rounds, Waiting
        <5>2. At(w.id) \in DOMAIN jobs
          BY <5>1, AtType DEF CountInv, Typed, HeldJob
        <5>3. QED
          BY <5>1, <5>2 DEF News
      <4>3. CASE AnyReap(q)
        BY <4>3 DEF AnyReap, Answering, Active, News
      <4>4. QED
        BY <2>5, <4>1, <4>2, <4>3
    <3>4. QED
      BY <3>2, <3>3, Foreign
  <2>6. QED
    BY <1>4, <2>2, <2>3, <2>4, <2>5 DEF Continue
<1>5. CASE UNCHANGED vars
  BY <1>1, <1>5 DEF vars
<1>6. QED
  BY <1>2, <1>3, <1>4, <1>5 DEF Next

\* What forked a child gets its status (job.c:603): jc_poll and every form of
\* wait ask for processes of jobs alone, and only a wait for its very pid takes
\* a module's child from it.
THEOREM ModuleKeepsCorrect == ASSUME Steady PROVE Spec => ModuleKeeps
<1>1. CountInv /\ [Next]_vars
        => [\A p \in Pid : proc[p].own = Module /\ proc'[p].own # Module
              => ModReap(p) \/ w.op = "pid"]_vars
  BY OnlyItsOwn
<1>2. CountInv /\ [Next]_vars => CountInv'
  BY StepCounts
<1>3. QED
  BY <1>1, <1>2, InitCounts, PTL DEF Spec, ModuleKeeps

-----------------------------------------------------------------------------
(***************************************************************************)
(* What a prompt leaves in the table.  A job that is finished has not been *)
(* shown as running, since it is marked when its last process is counted   *)
(* and a job that was marked is never found to be without children later:  *)
(* that needs fg and bg not to be used on a finished job, which they would *)
(* mark running again.                                                     *)
(***************************************************************************)

\* A finished job is not noted as shown, and one with all counted is finished.
Sound(j) == /\ j.state = "done" => ~j.note
            /\ j.ndone = j.np => j.state = "done"

\* A wait holds the job and has not dropped it yet.
Holding(j) == Waiting /\ w.op \in {"fg", "pipe", "job"} /\ j.id = w.id

Reported ==
  \A k \in DOMAIN jobs : Sound(jobs[k]) \/ (Holding(jobs[k]) /\ jobs[k].state = "run")

\* The walk of a report has left no finished job behind it.
Walked ==
  pc = "report" => \A k \in DOMAIN jobs : k < w.i => jobs[k].state # "done"

ReportInv == MemInv /\ Reported /\ Walked

\* Each job of a table after a drop was in it before.
LEMMA Remains ==
  ASSUME NEW js \in Seq(Job), NEW b \in DOMAIN js, NEW k \in DOMAIN Without(js, b)
  PROVE  /\ \E h \in DOMAIN js \ {b} : Without(js, b)[k] = js[h]
         /\ k < b => k \in DOMAIN js /\ Without(js, b)[k] = js[k]
<1>1. Len(js) \in Nat /\ DOMAIN js = 1 .. Len(js)
  OBVIOUS
<1>2. /\ DOMAIN Without(js, b) = 1 .. (Len(js) - 1)
      /\ Without(js, b)[k] = IF k = b THEN js[Len(js)] ELSE js[k]
  BY WithoutType
<1>3. CASE k = b
  <2>1. Len(js) \in DOMAIN js \ {b} /\ Without(js, b)[k] = js[Len(js)]
    BY <1>1, <1>2, <1>3
  <2>2. QED
    BY <1>3, <2>1
<1>4. CASE k # b
  BY <1>1, <1>2, <1>4
<1>5. QED
  BY <1>3, <1>4

\* A job of which a process is left is not all counted, and the other way round.
LEMMA Uncounted ==
  ASSUME CountInv, NEW k \in DOMAIN jobs
  PROVE  jobs[k].ndone = jobs[k].np <=> ProcsIn(proc, jobs[k].uid) = {}
<1> DEFINE P == ProcsIn(proc, jobs[k].uid)
<1>1. jobs[k] \in Job /\ Owned(proc, launched, jobs[k])
  BY One
<1>2. Cardinality(P) \in Nat /\ (Cardinality(P) = 0 <=> P = {})
  BY Finite
<1>3. Cardinality(P) + jobs[k].ndone = jobs[k].np /\ jobs[k].ndone \in Nat /\ jobs[k].np \in Nat
  BY <1>1 DEF Owned, Job
<1> HIDE DEF P
<1>4. QED
  BY <1>2, <1>3 DEF P

\* Without a wait under way every job is sound.
LEMMA Unheld ==
  ASSUME Reported, NEW k \in DOMAIN jobs, ~Holding(jobs[k])
  PROVE  Sound(jobs[k])
  BY DEF Reported

LEMMA Keeps ==
  ASSUME Reported, Walked, jobs' = jobs,
         ~Waiting \/ (Waiting' /\ w'.op = w.op /\ w'.id = w.id)
           \/ w.op \notin {"fg", "pipe", "job"},
         pc' = "report" => pc = "report" /\ w' = w
  PROVE  Reported' /\ Walked'
<1>1. ASSUME NEW k \in DOMAIN jobs'
      PROVE  (Sound(jobs[k]) \/ (Holding(jobs[k]) /\ jobs[k].state = "run"))'
  BY DEF Reported, Holding
<1>2. QED
  BY <1>1 DEF Reported, Walked

\* jc_drop, of any job when no wait holds one, or of the one it holds.
LEMMA DropReports ==
  ASSUME CountInv, IdsUnique, Reported, NEW b \in DOMAIN jobs, jobs' = Without(jobs, b),
         Waiting /\ w.op \in {"fg", "pipe", "job"} => jobs[b].id = w.id
  PROVE  Reported'
<1>1. jobs \in Seq(Job)
  BY DEF CountInv, Typed, TypeOK
<1>2. ASSUME NEW k \in DOMAIN jobs' PROVE Sound(jobs'[k])
  <2>1. PICK h \in DOMAIN jobs \ {b} : jobs'[k] = jobs[h]
    BY <1>1, Remains
  <2>2. jobs[h].id # jobs[b].id
    BY DEF IdsUnique
  <2>3. ~Holding(jobs[h])
    BY <2>2 DEF Holding
  <2>4. QED
    BY <2>1, <2>3, Unheld
<1>3. QED
  BY <1>2 DEF Reported

\* One job changes: none is held, or it is the one.
LEMMA ChangeReports ==
  ASSUME CountInv, IdsUnique, Reported, NEW b \in DOMAIN jobs, NEW i,
         jobs' = [jobs EXCEPT ![b] = i],
         Waiting /\ w.op \in {"fg", "pipe", "job"} => jobs[b].id = w.id,
         Sound(i) \/ (i.state = "run" /\ Waiting' /\ w'.op \in {"fg", "pipe", "job"}
                                      /\ i.id = w'.id)
  PROVE  Reported'
<1>1. jobs \in Seq(Job)
  BY DEF CountInv, Typed, TypeOK
<1>2. ASSUME NEW k \in DOMAIN jobs, k # b
      PROVE  Sound(jobs'[k])
  <2>1. jobs[k].id # jobs[b].id
    BY <1>2 DEF IdsUnique
  <2>2. ~Holding(jobs[k])
    BY <2>1 DEF Holding
  <2>3. QED
    BY <1>1, <1>2, <2>2, Unheld
<1>3. DOMAIN jobs' = DOMAIN jobs /\ jobs'[b] = i
  BY <1>1
<1>4. ASSUME NEW k \in DOMAIN jobs'
      PROVE  (Sound(jobs[k]) \/ (Holding(jobs[k]) /\ jobs[k].state = "run"))'
  BY <1>2, <1>3, <1>4 DEF Holding
<1>5. QED
  BY <1>4 DEF Reported

\* jc_poll marks a job done with the last of its processes, and forgets then
\* that it was shown.
LEMMA PollReports ==
  ASSUME CountInv, Reported, ~Waiting, Poll
  PROVE  Reported'
<1>1. jobs \in Seq(Job)
  BY DEF CountInv, Typed, TypeOK
<1>2. PICK late \in BOOLEAN : jobs' = [k \in DOMAIN jobs |-> Polled(k, late)]
  BY DEF Poll
<1>3. ASSUME NEW k \in DOMAIN jobs
      PROVE  Sound(jobs'[k])
  <2> DEFINE j     == jobs[k]
             stops == {p \in Claim(k) : Stopped(p)}
             exits == Claim(k) \ stops
             nd    == j.ndone + Cardinality(exits)
             over  == exits # {} /\ nd >= j.np
  <2>1. j \in Job /\ Sound(j)
    BY One, Unheld DEF Holding
  <2>2. j.ndone \in Nat /\ j.np \in Nat
    BY <2>1 DEF Job
  <2>3. exits = {} => Cardinality(exits) = 0
    BY FS_EmptySet
  <2>4. Claim(k) \in SUBSET ProcsIn(proc, j.uid)
    BY ClaimIs DEF News
  <2>5. Cardinality(exits) \in Nat
    <3>1. IsFiniteSet(ProcsIn(proc, j.uid))
      BY Finite
    <3>2. exits \in SUBSET ProcsIn(proc, j.uid)
      BY <2>4
    <3>3. QED
      BY <3>1, <3>2, FS_Subset, FS_CardinalityType
  <2>6. jobs'[k] = Polled(k, late)
    BY <1>2
  <2>7. /\ Polled(k, late).ndone = nd /\ Polled(k, late).np = j.np
        /\ Polled(k, late).state = IF over THEN "done" ELSE IF stops # {} THEN "stop" ELSE j.state
        /\ Polled(k, late).note = (j.note /\ ~over /\ (stops = {} \/ j.state = "stop"))
    BY <2>1 DEF Polled, Job
  <2> HIDE DEF stops, exits
  <2>8. nd = j.np => Polled(k, late).state = "done"
    <3>1. CASE exits # {}
      BY <2>2, <2>5, <2>7, <3>1
    <3>2. CASE exits = {}
      <4>1. nd = j.ndone
        BY <2>2, <2>3, <3>2
      <4>2. nd = j.np => j.state = "done"
        BY <2>1, <4>1 DEF Sound
      <4>3. j.state = "done" => stops = {}
        BY DEF Claim, stops
      <4>4. ~over
        BY <3>2
      <4>5. QED
        BY <2>7, <4>2, <4>3, <4>4
    <3>3. QED
      BY <3>1, <3>2
  <2>9. ~over /\ Polled(k, late).state = "done" => j.state = "done"
    BY <2>7
  <2>10. j.state = "done" => ~j.note
    BY <2>1 DEF Sound
  <2>11. Polled(k, late).state = "done" => ~Polled(k, late).note
    BY <2>7, <2>9, <2>10
  <2>12. QED
    BY <2>6, <2>7, <2>8, <2>11 DEF Sound
<1>4. DOMAIN jobs' = DOMAIN jobs
  BY <1>2
<1>5. QED
  BY <1>3, <1>4 DEF Reported

LEMMA KernelAside ==
  ASSUME Kernel
  PROVE  jobs' = jobs /\ w' = w /\ pc' = pc /\ launched' = launched
  BY DEF Kernel, KExit, KStop, KCont, KLeave, ModFork, ModReap, KSignal

LEMMA QuietReports ==
  ASSUME ReportInv,
         \/ Kernel \/ Command \/ RunTraps \/ TidyEnd \/ ForkFails \/ WalkEnd
         \/ WaitEnd \/ WaitTrapped \/ JobDoze \/ Wake \/ CmdEnd \/ PidRound
         \/ (\E mode \in {"n", "all"} : WaitAny(mode)) \/ UNCHANGED vars
  PROVE  Reported' /\ Walked'
<1>1. Reported /\ Walked
  BY DEF ReportInv, MemInv
<1>2. CASE Kernel \/ UNCHANGED vars
  <2>1. jobs' = jobs /\ w' = w /\ pc' = pc
    BY <1>2, KernelAside DEF vars
  <2>2. Waiting' = Waiting
    BY <2>1 DEF Waiting
  <2>3. QED
    BY <1>1, <2>1, <2>2, Keeps
<1>3. CASE \/ Command \/ RunTraps \/ TidyEnd \/ ForkFails \/ WalkEnd \/ WaitEnd
           \/ CmdEnd \/ \E mode \in {"n", "all"} : WaitAny(mode)
  <2>1. jobs' = jobs /\ ~Waiting /\ pc' # "report"
    BY <1>3 DEF Command, RunTraps, TidyEnd, ForkFails, WalkEnd, WaitEnd, CmdEnd, WaitAny,
                Ready, Waiting
  <2>2. QED
    BY <1>1, <2>1, Keeps
<1>4. CASE WaitTrapped
  <2>1. jobs' = jobs /\ pc' # "report" /\ Waiting
    BY <1>4 DEF WaitTrapped, Rounds, Waiting
  <2>2. ASSUME NEW k \in DOMAIN jobs
        PROVE  Sound(jobs[k])
    <3>1. CASE Holding(jobs[k])
      <4>1. w.op = "job"
        BY <1>4, <3>1 DEF WaitTrapped, Rounds, Holding
      <4>2. HasJob(w.id) /\ jobs[k].id = w.id
        BY <3>1 DEF Holding, HasJob
      <4>3. At(w.id) = k
        BY <4>2, AtType DEF ReportInv, MemInv, IdsUnique
      <4>4. jobs[k].ndone < jobs[k].np /\ jobs[k].state = "run"
        BY <1>4, <4>1, <4>3 DEF WaitTrapped, Unfinished
      <4>5. jobs[k].ndone \in Nat /\ jobs[k].np \in Nat
        BY One DEF Job, ReportInv, MemInv
      <4>6. QED
        BY <4>4, <4>5 DEF Sound
    <3>2. QED
      BY <1>1, <3>1, Unheld
  <2>3. QED
    BY <2>1, <2>2 DEF Reported, Walked
<1>5. CASE JobDoze \/ Wake
  <2>1. jobs' = jobs /\ w' = w /\ Waiting' /\ pc' # "report"
    BY <1>5 DEF JobDoze, Doze, Wake, Waiting
  <2>2. QED
    BY <1>1, <2>1, Keeps
<1>6. CASE PidRound
  <2>1. jobs' = jobs /\ w.op = "pid" /\ pc' # "report"
    BY <1>6 DEF PidRound, Doze, Rounds
  <2>2. QED
    BY <1>1, <2>1, Keeps
<1>7. QED
  BY <1>2, <1>3, <1>4, <1>5, <1>6

LEMMA LaunchReports ==
  ASSUME ReportInv,
         \/ Background \/ TidyForget \/ (\E p \in Pid : Fork(p))
         \/ (\E ps \in Pipelines : Distinct(ps) /\ Foreground(ps))
  PROVE  Reported' /\ Walked'
<1>1. CountInv /\ IdsUnique /\ Reported /\ jobs \in Seq(Job) /\ Walked
  BY DEF ReportInv, MemInv, CountInv, Typed, TypeOK
<1>2. ~Waiting /\ pc' # "report"
  <2>1. /\ Background \/ TidyForget => ~Waiting /\ pc' # "report"
        /\ \A p \in Pid : Fork(p) => ~Waiting /\ pc' # "report"
    BY DEF Background, TidyForget, Fork, Ready, Waiting
  <2>2. \A ps \in Pipelines : Foreground(ps) => ~Waiting /\ pc' # "report"
    BY ONLY DEF Foreground, Ready, Waiting
  <2>3. QED
    BY <2>1, <2>2
<1>3. Walked'
  BY <1>2 DEF Walked
<1>4. CASE Background
  <2>1. jobs' = jobs \/ Poll
    BY <1>4 DEF Background
  <2>2. QED
    BY <1>1, <1>2, <1>3, <2>1, PollReports, Keeps
<1>5. CASE TidyForget
  <2>1. PICK k \in DoneJobs : Drop(jobs, k)
    BY <1>5 DEF TidyForget
  <2>2. k \in DOMAIN jobs /\ jobs' = Without(jobs, k)
    BY <2>1 DEF DoneJobs, Drop
  <2>3. QED
    BY <1>1, <1>2, <1>3, <2>2, DropReports
<1>6. ASSUME NEW ps, Len(ps) \in Nat \ {0}, NEW bg, Added(Fresh(ps, bg))
      PROVE  Reported'
  <2>1. jobs' = Append(jobs, Fresh(ps, bg))
    BY <1>6 DEF Added
  <2>2. Sound(Fresh(ps, bg))
    BY <1>6 DEF Fresh, Sound
  <2>3. ASSUME NEW k \in DOMAIN jobs' PROVE Sound(jobs'[k])
    <3>1. \/ k \in DOMAIN jobs /\ jobs'[k] = jobs[k]
          \/ jobs'[k] = Fresh(ps, bg)
      <4> HIDE DEF Fresh
      <4>1. QED
        BY <1>1, <2>1
    <3>2. QED
      BY <1>1, <1>2, <2>2, <3>1, Unheld DEF Holding
  <2>4. QED
    BY <2>3 DEF Reported
<1>7. ASSUME NEW p \in Pid, Fork(p) PROVE Reported'
  <2> DEFINE ps == <<p>>
  <2>1. Added(Fresh(ps, TRUE))
    BY <1>7 DEF Fork
  <2>2. Len(ps) \in Nat \ {0}
    OBVIOUS
  <2> HIDE DEF ps
  <2>3. QED
    BY <1>6, <2>1, <2>2
<1>8. ASSUME NEW ps \in Pipelines, Foreground(ps) PROVE Reported'
  <2>1. Added(Fresh(ps, FALSE))
    BY ONLY <1>8 DEF Foreground
  <2>2. PICK n \in 1 .. MaxStages : ps \in [1 .. n -> Pid]
    BY DEF Pipelines
  <2>3. Len(ps) \in Nat \ {0}
    BY <2>2, ConstantsAssumption
  <2>4. QED
    BY <1>6, <2>1, <2>3
<1>9. QED
  BY <1>3, <1>4, <1>5, <1>7, <1>8

\* A job keeps its names.
Kin(j, i) == /\ i \in Job
             /\ i.id = j.id /\ i.uid = j.uid /\ i.np = j.np /\ i.last = j.last

\* What fg, bg and kill make of a job: it runs, and had not finished.
LEMMA CommandIs ==
  ASSUME ReportInv, ~ResumeDone, NEW id \in Launch,
         \/ CmdFg(id) \/ CmdBg(id)
         \/ \E s \in {"TERM", "STOP", "CONT"} : CmdKill(id, s)
  PROVE  \E k \in DOMAIN jobs :
           /\ jobs[k].id = id
           /\ \/ jobs' = jobs
              \/ \E i : /\ jobs' = [jobs EXCEPT ![k] = i] /\ Kin(jobs[k], i)
                        /\ i.state = "run"
                        /\ i.ndone = jobs[k].ndone /\ jobs[k].ndone # jobs[k].np
<1> DEFINE k == At(id)
           j == jobs[k]
           fg == [j EXCEPT !.state = "run", !.bg = FALSE, !.note = FALSE]
           bg == [j EXCEPT !.state = "run", !.bg = TRUE, !.note = TRUE]
           on == [j EXCEPT !.state = "run"]
<1>1. CountInv /\ jobs \in Seq(Job) /\ Reported
  BY DEF ReportInv, MemInv, CountInv, Typed, TypeOK
<1>2. k \in DOMAIN jobs /\ jobs[k].id = id
  BY AtType DEF CmdFg, CmdBg, CmdKill, Resumable
<1>3. ~Waiting
  BY DEF CmdFg, CmdBg, CmdKill, Resumable, Ready, Waiting
<1>4. jobs' \in {jobs, [jobs EXCEPT ![k] = fg], [jobs EXCEPT ![k] = bg],
                 [jobs EXCEPT ![k] = on]}
  BY <1>1, <1>2 DEF CmdFg, CmdBg, CmdKill
<1>5. j.state # "done" \/ Who(j) # {}
  BY DEF CmdFg, CmdBg, CmdKill, Resumable
<1> HIDE DEF k
<1>6. j \in Job /\ j.ndone # j.np
  <2>1. j \in Job
    BY <1>1, <1>2
  <2>2. CASE j.state # "done"
    BY <1>1, <1>2, <1>3, <2>2, Unheld DEF Holding, Sound
  <2>3. CASE Who(j) # {}
    BY <1>1, <1>2, <2>3, One, Uncounted
  <2>4. QED
    BY <1>5, <2>1, <2>2, <2>3
<1> HIDE DEF j
<1>7. /\ Kin(j, fg) /\ fg.state = "run" /\ fg.ndone = j.ndone
      /\ Kin(j, bg) /\ bg.state = "run" /\ bg.ndone = j.ndone
      /\ Kin(j, on) /\ on.state = "run" /\ on.ndone = j.ndone
  BY <1>6 DEF Kin, Job
<1> HIDE DEF fg, bg, on
<1>8. CASE jobs' = jobs
  BY <1>2, <1>8
<1>9. ASSUME NEW i \in {fg, bg, on}, jobs' = [jobs EXCEPT ![k] = i]
      PROVE  \E n : /\ jobs' = [jobs EXCEPT ![k] = n] /\ Kin(jobs[k], n)
                    /\ n.state = "run"
                    /\ n.ndone = jobs[k].ndone /\ jobs[k].ndone # jobs[k].np
  BY <1>6, <1>7, <1>9 DEF j
<1>10. QED
  BY <1>2, <1>4, <1>8, <1>9

\* What fg and a wait for one job make of it when they reap p.
LEMMA ReapIs ==
  ASSUME CountInv, NEW p \in Pid, FgReap(p) \/ JobReap(p)
  PROVE  /\ Waiting /\ w.op \in {"fg", "pipe", "job"}
         /\ \E k \in DOMAIN jobs : \E i :
              /\ jobs[k].id = w.id /\ proc[p].own = jobs[k].uid
              /\ jobs' = [jobs EXCEPT ![k] = i] /\ Kin(jobs[k], i)
              /\ jobs[k].ndone # jobs[k].np
              /\ \/ /\ Stopped(p) /\ i.state = "stop" /\ i.ndone = jobs[k].ndone
                    /\ \/ pc' = pc /\ w' = [w EXCEPT !.st = StopSt]
                       \/ pc' = "more" /\ w' = NoWork
                 \/ /\ proc[p].ph = "zombie" /\ i.state = "run" /\ pc' = pc
                    /\ w' = [w EXCEPT !.st = IF p = jobs[k].last THEN proc[p].st
                                             ELSE w.st]
<1> DEFINE k == At(w.id)
           j == jobs[k]
           a == After(j, p)
           s == [a EXCEPT !.st = StopSt]
<1>1. CountInv /\ jobs \in Seq(Job) /\ w \in Work /\ proc[p] \in Process
  BY DEF CountInv, Typed, TypeOK
<1>2. Waiting /\ w.op \in {"fg", "pipe", "job"}
  BY DEF FgReap, JobReap, Rounds, Waiting
<1>3. k \in DOMAIN jobs /\ jobs[k].id = w.id
  BY <1>2, AtType DEF CountInv, Typed, HeldJob
<1>4. Unfinished(j) /\ p \in News(Who(j)) \cup News(Ask(j))
  BY DEF FgReap, JobReap
<1>5. jobs' \in {[jobs EXCEPT ![k] = a], [jobs EXCEPT ![k] = s]}
  BY <1>1, <1>3 DEF FgReap, JobReap
<1>6. /\ Stopped(p) => \/ pc' = pc /\ w' = [w EXCEPT !.st = StopSt]
                       \/ pc' = "more" /\ w' = NoWork
      /\ ~Stopped(p) => /\ pc' = pc /\ jobs' = [jobs EXCEPT ![k] = a]
                        /\ w' = [w EXCEPT !.st = IF p = j.last THEN proc[p].st ELSE w.st]
  <2>1. FgReap(p) => /\ pc' = pc /\ jobs' = [jobs EXCEPT ![k] = a]
                     /\ w' = [w EXCEPT !.st = IF Stopped(p) THEN StopSt
                                              ELSE IF p = j.last THEN proc[p].st ELSE w.st]
    BY <1>1, <1>3 DEF FgReap
  <2>2. JobReap(p) => IF Stopped(p) THEN pc' = "more" /\ w' = NoWork
                      ELSE /\ pc' = pc /\ jobs' = [jobs EXCEPT ![k] = a]
                           /\ w' = [w EXCEPT !.st = IF p = j.last THEN proc[p].st ELSE w.st]
    BY <1>1, <1>3 DEF JobReap
  <2> HIDE DEF k, j, a
  <2>3. QED
    BY <2>1, <2>2
<1> HIDE DEF k
<1>7. j \in Job /\ j.state = "run" /\ j.ndone # j.np
  <2>1. j \in Job
    BY <1>1, <1>3
  <2>2. QED
    BY <1>4, <2>1 DEF Unfinished, Job
<1>8. proc[p].own = j.uid /\ (Stopped(p) \/ proc[p].ph = "zombie")
  <2>1. Who(j) = ProcsIn(proc, j.uid) /\ Ask(j) = ProcsIn(proc, j.uid)
    BY <1>3, One
  <2>2. QED
    BY <1>4, <2>1 DEF News, ProcsIn
<1> HIDE DEF j
<1>9. /\ Kin(j, a) /\ (Stopped(p) => a.state = "stop" /\ a.ndone = j.ndone)
      /\ ~Stopped(p) => a.state = "run"
  BY <1>7 DEF After, Kin, Job
<1>10. Kin(j, s) /\ s.state = a.state /\ s.ndone = a.ndone
  <2>1. a \in Job
    BY <1>9 DEF Kin
  <2> HIDE DEF a
  <2>2. QED
    BY <1>9, <2>1 DEF Kin, Job, StopSt, St
<1> HIDE DEF a, s
<1>11. PICK i \in {a, s} : jobs' = [jobs EXCEPT ![k] = i] /\ (~Stopped(p) => i = a)
  BY <1>5, <1>6
<1>12. Kin(j, i) /\ (Stopped(p) => i.state = "stop" /\ i.ndone = j.ndone)
       /\ (~Stopped(p) => i.state = "run")
  BY <1>9, <1>10, <1>11
<1>13. QED
  BY <1>2, <1>3, <1>6, <1>7, <1>8, <1>11, <1>12 DEF j

\* How fg and a wait for one job end: a stopped job stays, any other is dropped
\* with all its processes counted.
LEMMA EndIs ==
  ASSUME MemInv, FgEnd \/ JobEnd
  PROVE  /\ Waiting /\ w.op \in {"fg", "pipe", "job"} /\ pc' \in {"end", "more"}
         /\ \E k \in DOMAIN jobs :
              /\ jobs[k].id = w.id
              /\ \/ \E i : /\ jobs' = [jobs EXCEPT ![k] = i] /\ Kin(jobs[k], i)
                           /\ i.state = "stop" /\ i.ndone = jobs[k].ndone
                           /\ jobs[k].state = "stop"
                           /\ w' = w /\ hist' = hist
                 \/ /\ Drop(jobs, k) /\ Settled(jobs[k].uid, "told")
                    /\ jobs[k].ndone = jobs[k].np /\ w' = [w EXCEPT !.ans = w.st]
<1> DEFINE k == At(w.id)
           j == jobs[k]
           i == [j EXCEPT !.bg = TRUE, !.st = w.st, !.note = TRUE]
<1>1. CountInv /\ jobs \in Seq(Job) /\ w \in Work
  BY DEF MemInv, CountInv, Typed, TypeOK
<1>2. Waiting /\ w.op \in {"fg", "pipe", "job"} /\ pc' \in {"end", "more"}
  BY DEF FgEnd, JobEnd, Rounds, Waiting
<1>3. k \in DOMAIN jobs /\ jobs[k].id = w.id
  BY <1>1, <1>2, AtType DEF CountInv, Typed, HeldJob
<1>4. ~Unfinished(j) \/ Who(j) = {} \/ Ask(j) = {}
  BY DEF FgEnd, JobEnd
<1>5. \/ /\ jobs' = [jobs EXCEPT ![k] = i] /\ j.state = "stop"
         /\ w' = w /\ hist' = hist
      \/ /\ Drop(jobs, k) /\ Settled(j.uid, "told") /\ w' = [w EXCEPT !.ans = w.st]
         /\ FgEnd => j.state # "stop"
         /\ JobEnd => w.op = "job"
  <2>1. CASE FgEnd
    <3>1. CASE j.state = "stop"
      <4>1. jobs' = [jobs EXCEPT ![k] = i] /\ w' = w /\ hist' = hist
        BY <1>1, <1>3, <2>1, <3>1 DEF FgEnd
      <4>2. QED
        BY <3>1, <4>1
    <3>2. CASE j.state # "stop"
      <4>1. Drop(jobs, k) /\ Settled(j.uid, "told") /\ w' = [w EXCEPT !.ans = w.st]
        BY <2>1, <3>2 DEF FgEnd
      <4>2. ~JobEnd \/ w.op = "job"
        BY DEF JobEnd, Rounds
      <4>3. QED
        BY <3>2, <4>1, <4>2
    <3>3. QED
      BY <3>1, <3>2
  <2>2. CASE JobEnd
    <3>1. Drop(jobs, k) /\ Settled(j.uid, "told") /\ w' = [w EXCEPT !.ans = w.st]
      BY <2>2 DEF JobEnd
    <3>2. w.op = "job" /\ ~FgEnd
      BY <2>2 DEF JobEnd, Rounds, FgEnd
    <3>3. QED
      BY <3>1, <3>2
  <2>3. QED
    BY <2>1, <2>2
<1> HIDE DEF k
<1>6. j \in Job
  BY <1>1, <1>3
<1>7. Kin(j, i) /\ i.state = j.state /\ i.ndone = j.ndone
  <2> HIDE DEF j
  <2>1. QED
    BY <1>1, <1>6 DEF Kin, Job, Work
<1>8. (FgEnd => j.state # "stop") /\ (JobEnd => w.op = "job") => j.ndone = j.np
  <2> SUFFICES ASSUME FgEnd => j.state # "stop", JobEnd => w.op = "job"
               PROVE  j.ndone = j.np
    OBVIOUS
  <2>1. j.state # "stop"
    BY <1>2, <1>3 DEF MemInv, Running
  <2>2. j.state \in {"run", "stop", "done"} /\ j.ndone \in Nat /\ j.np \in Nat
    BY <1>6 DEF Job
  <2>3. Owned(proc, launched, j)
    BY <1>1, <1>3, One
  <2>4. CASE Who(j) = {} \/ Ask(j) = {}
    BY <1>1, <1>3, <2>4, One, Uncounted
  <2>5. CASE ~Unfinished(j)
    <3>1. Cardinality(ProcsIn(proc, j.uid)) + j.ndone = j.np
          /\ (j.state = "done" => j.ndone = j.np)
      BY <2>3 DEF Owned
    <3>2. Cardinality(ProcsIn(proc, j.uid)) \in Nat
      BY Finite
    <3>3. QED
      BY <2>1, <2>2, <2>5, <3>1, <3>2 DEF Unfinished
  <2>6. QED
    BY <1>4, <2>4, <2>5
<1> HIDE DEF i
<1>9. QED
  BY <1>2, <1>3, <1>5, <1>7, <1>8 DEF j

\* Every running job has a process, so jc_anyone marks none.
LEMMA NoneDeserted ==
  ASSUME CountInv, Reported, w.op \in {"n", "all"}
  PROVE  /\ Deserted = {} /\ Marked({}) = jobs
         /\ \A k \in DOMAIN jobs : jobs[k].state = "run" => jobs[k].ndone # jobs[k].np
<1>1. ASSUME NEW k \in DOMAIN jobs, jobs[k].state = "run"
      PROVE  jobs[k].ndone # jobs[k].np /\ Ask(jobs[k]) # {}
  <2>1. ~Holding(jobs[k])
    BY DEF Holding
  <2>2. jobs[k].ndone # jobs[k].np
    BY <1>1, <2>1, Unheld DEF Sound
  <2>3. QED
    BY <2>2, Uncounted, One
<1>2. Deserted = {}
  BY <1>1 DEF Deserted, Active
<1>3. Marked({}) = jobs
  <2>1. jobs = [k \in DOMAIN jobs |-> jobs[k]]
    BY DEF CountInv, Typed, TypeOK
  <2>2. QED
    BY <2>1 DEF Marked
<1>4. QED
  BY <1>1, <1>2, <1>3

\* What wait and wait -n make of the job they reap p of.
LEMMA AnyIs ==
  ASSUME CountInv, Reported, NEW p \in Pid, AnyReap(p)
  PROVE  \E k \in DOMAIN jobs :
           /\ proc[p].own = jobs[k].uid
           /\ jobs[k].ndone # jobs[k].np
           /\ \/ /\ proc[p].ph = "zombie" /\ jobs[k].ndone + 1 >= jobs[k].np
                 /\ Drop(jobs, k)
              \/ \E i : /\ jobs' = [jobs EXCEPT ![k] = i] /\ Kin(jobs[k], i)
                        /\ i.state \in {"run", "stop"}
                        /\ \/ Stopped(p) /\ i.ndone = jobs[k].ndone
                           \/ /\ proc[p].ph = "zombie" /\ i.ndone = jobs[k].ndone + 1
                              /\ i.ndone # jobs[k].np
<1>1. jobs \in Seq(Job) /\ DOMAIN jobs \in SUBSET Nat /\ 0 \notin DOMAIN jobs
  BY DEF CountInv, Typed, TypeOK
<1>2. w.op \in {"n", "all"}
  BY DEF AnyReap, Rounds
<1>3. PICK k \in Active :
        /\ p \in News(Ask(jobs[k]))
        /\ Count(Marked({h \in Deserted : h < k}), ByPid(p, ~Stopped(p)), p)
  BY DEF AnyReap
<1>4. k \in DOMAIN jobs /\ k # 0 /\ jobs[k].state = "run"
  BY <1>1, <1>3 DEF Active
<1>5. /\ jobs[k] \in Job /\ Owned(proc, launched, jobs[k])
      /\ p \in News(ProcsIn(proc, jobs[k].uid))
  BY <1>3, <1>4, One
<1>6. p \in Named(jobs[k]) /\ proc[p].own = jobs[k].uid
      /\ (Stopped(p) \/ proc[p].ph = "zombie") /\ (proc[p].ph = "zombie" => ~Stopped(p))
  BY <1>5 DEF News, ProcsIn, Owned, Stopped
<1>7. ByPid(p, ~Stopped(p)) = k
  BY <1>4, <1>6, ByPidIs
<1>8. Count(jobs, k, p)
  <2>1. {h \in Deserted : h < k} = {} /\ Marked({}) = jobs
    BY <1>2, NoneDeserted
  <2>2. QED
    BY <1>3, <1>7, <2>1
<1> DEFINE j == jobs[k]
           a == After(j, p)
           s == [a EXCEPT !.st = StopSt]
<1>9. \/ Stopped(p) /\ jobs' = [jobs EXCEPT ![k] = s]
      \/ ~Stopped(p) /\ j.ndone + 1 >= j.np /\ Drop(jobs, k)
      \/ ~Stopped(p) /\ ~(j.ndone + 1 >= j.np) /\ jobs' = [jobs EXCEPT ![k] = a]
  BY <1>1, <1>4, <1>8 DEF Count
<1>10. j \in Job /\ j.ndone # j.np /\ j.ndone \in Nat /\ j.np \in Nat /\ j.state = "run"
  BY <1>2, <1>4, <1>5, NoneDeserted DEF Job
<1> HIDE DEF j
<1>11. /\ Kin(j, a) /\ a.state \in {"run", "stop"}
       /\ a.ndone = IF Stopped(p) THEN j.ndone ELSE j.ndone + 1
  BY <1>10 DEF After, Kin, Job
<1>12. Kin(j, s) /\ s.state = a.state /\ s.ndone = a.ndone
  <2>1. a \in Job
    BY <1>11 DEF Kin
  <2> HIDE DEF a
  <2>2. QED
    BY <1>11, <2>1 DEF Kin, Job, StopSt, St
<1> HIDE DEF a, s
<1>13. CASE Stopped(p) /\ jobs' = [jobs EXCEPT ![k] = s]
  <2>1. Kin(j, s) /\ s.state \in {"run", "stop"} /\ s.ndone = j.ndone
    BY <1>11, <1>12, <1>13
  <2>2. QED
    BY <1>4, <1>6, <1>10, <1>13, <2>1 DEF j
<1>14. CASE ~Stopped(p) /\ j.ndone + 1 >= j.np /\ Drop(jobs, k)
  BY <1>4, <1>6, <1>10, <1>14 DEF j
<1>15. CASE ~Stopped(p) /\ ~(j.ndone + 1 >= j.np) /\ jobs' = [jobs EXCEPT ![k] = a]
  <2>1. a.ndone = j.ndone + 1 /\ a.ndone # j.np
    BY <1>10, <1>11, <1>15
  <2>2. QED
    BY <1>4, <1>6, <1>10, <1>11, <1>15, <2>1 DEF j
<1>16. QED
  BY <1>9, <1>13, <1>14, <1>15

LEMMA CommandReports ==
  ASSUME ReportInv, ~ResumeDone, NEW id \in Launch,
         \/ CmdFg(id) \/ CmdBg(id) \/ CmdDisown(id)
         \/ \E s \in {"TERM", "STOP", "CONT"} : CmdKill(id, s)
  PROVE  Reported' /\ Walked'
<1>1. CountInv /\ IdsUnique /\ Reported /\ Walked
  BY DEF ReportInv, MemInv
<1>2. ~Waiting /\ pc' # "report"
  BY DEF CmdFg, CmdBg, CmdKill, CmdDisown, Resumable, Ready, Waiting
<1>3. Walked'
  BY <1>2 DEF Walked
<1>4. CASE CmdDisown(id)
  <2>1. At(id) \in DOMAIN jobs /\ jobs' = Without(jobs, At(id))
    BY <1>4, AtType DEF CmdDisown, Drop
  <2>2. QED
    BY <1>1, <1>2, <1>3, <2>1, DropReports
<1>5. CASE \/ CmdFg(id) \/ CmdBg(id)
           \/ \E s \in {"TERM", "STOP", "CONT"} : CmdKill(id, s)
  <2>1. PICK k \in DOMAIN jobs :
          \/ jobs' = jobs
          \/ \E i : /\ jobs' = [jobs EXCEPT ![k] = i] /\ Kin(jobs[k], i)
                    /\ i.state = "run"
                    /\ i.ndone = jobs[k].ndone /\ jobs[k].ndone # jobs[k].np
    BY <1>5, CommandIs
  <2>2. CASE jobs' = jobs
    BY <1>1, <1>2, <2>2, Keeps
  <2>3. ASSUME NEW i, jobs' = [jobs EXCEPT ![k] = i], Kin(jobs[k], i), i.state = "run",
               i.ndone = jobs[k].ndone, jobs[k].ndone # jobs[k].np
        PROVE  Reported' /\ Walked'
    <3>1. Sound(i)
      BY <2>3 DEF Kin, Sound
    <3>2. QED
      BY <1>1, <1>2, <1>3, <2>3, <3>1, ChangeReports
  <2>4. QED
    BY <2>1, <2>2, <2>3
<1>6. QED
  BY <1>4, <1>5

LEMMA WalkReports ==
  ASSUME ReportInv, CmdJobs \/ Prompt \/ CmdPoll \/ Walk
  PROVE  Reported' /\ Walked'
<1>1. /\ CountInv /\ IdsUnique /\ Reported /\ Walked
      /\ jobs \in Seq(Job) /\ w \in Work
  BY DEF ReportInv, MemInv, CountInv, Typed, TypeOK
<1>2. ~Waiting
  BY DEF CmdJobs, Prompt, CmdPoll, Walk, Ready, Waiting
<1>3. CASE CmdJobs \/ Prompt \/ CmdPoll
  <2>1. Poll /\ (pc' = "report" => w'.i = 1)
    BY <1>3 DEF CmdJobs, Prompt, CmdPoll, NoWork
  <2>2. Reported'
    BY <1>1, <1>2, <2>1, PollReports
  <2>3. jobs' \in Seq(Job)
    BY <1>1, <2>1, PollType DEF CountInv, Typed
  <2>4. Walked'
    BY <2>1, <2>3 DEF Walked
  <2>5. QED
    BY <2>2, <2>4
<1>4. CASE Walk
  <2> DEFINE k == w.i
             j == jobs[k]
             i == [j EXCEPT !.note = TRUE]
  <2>1. k \in DOMAIN jobs /\ k \in Nat /\ pc' = pc
    BY <1>1, <1>4 DEF Walk, Work
  <2>2. w' = w \/ w' = [w EXCEPT !.i = @ + 1]
    BY <1>4 DEF Walk, Passed, Shown
  <2>3. w' # w => w'.i = k + 1
    BY <1>1, <2>1, <2>2 DEF Work
  <2>4. \/ /\ pc = "report" => j.state # "done"
           /\ jobs' \in {jobs, [jobs EXCEPT ![k] = i]} /\ w' = [w EXCEPT !.i = @ + 1]
           /\ jobs' # jobs => j.state # "done"
        \/ j.state = "done" /\ jobs' = Without(jobs, k) /\ w' = w
    <3>1. Sound(j)
      BY <1>1, <1>2, <2>1, Unheld DEF Holding
    <3>2. CASE pc = "report" /\ (j.state = "run" \/ j.note)
      BY <1>4, <3>1, <3>2 DEF Walk, Passed, Sound
    <3>3. CASE ~(pc = "report" /\ (j.state = "run" \/ j.note))
      <4>1. Shown(k)
        BY <1>4, <3>3 DEF Walk
      <4>2. j.state # "done" => jobs' = [jobs EXCEPT ![k] = i] /\ w' = [w EXCEPT !.i = @ + 1]
        BY <1>1, <2>1, <4>1 DEF Shown
      <4>3. j.state = "done" => jobs' = Without(jobs, k) /\ w' = w
        BY <4>1 DEF Shown, Drop
      <4>4. QED
        BY <4>2, <4>3
    <3>4. QED
      BY <3>2, <3>3
  <2>5. j \in Job
    BY <1>1, <2>1
  <2>6. /\ i.state = j.state /\ i.id = j.id /\ i.ndone = j.ndone /\ i.np = j.np
    <3> HIDE DEF j
    <3>1. QED
      BY <2>5 DEF Job
  <2> HIDE DEF k, i
  <2>7. CASE /\ pc = "report" => j.state # "done"
             /\ jobs' \in {jobs, [jobs EXCEPT ![k] = i]} /\ w' = [w EXCEPT !.i = @ + 1]
             /\ jobs' # jobs => j.state # "done"
    <3>1. w'.i = k + 1
      BY <1>1, <2>7 DEF Work, k
    <3>2. DOMAIN jobs' = DOMAIN jobs /\ \A h \in DOMAIN jobs : jobs'[h].state = jobs[h].state
      BY <1>1, <2>1, <2>6, <2>7
    <3>3. Walked'
      <4>1. ASSUME pc = "report", NEW h \in DOMAIN jobs, h < k + 1
            PROVE  jobs[h].state # "done"
        <5>1. h < k \/ h = k
          BY <1>1, <2>1, <4>1
        <5>2. QED
          BY <1>1, <2>7, <4>1, <5>1 DEF Walked, k
      <4>2. QED
        BY <2>1, <3>1, <3>2, <4>1 DEF Walked
    <3>4. Reported'
      <4>1. CASE jobs' = jobs
        <5>1. ASSUME NEW h \in DOMAIN jobs PROVE Sound(jobs[h])
          BY <1>1, <1>2, Unheld DEF Holding
        <5>2. QED
          BY <4>1, <5>1 DEF Reported
      <4>2. CASE jobs' = [jobs EXCEPT ![k] = i] /\ jobs' # jobs
        <5>1. Sound(j)
          BY <1>1, <1>2, <2>1, Unheld DEF Holding
        <5>2. j.state # "done"
          BY <2>7, <4>2
        <5>3. Sound(i)
          BY <2>6, <5>1, <5>2 DEF Sound
        <5>4. QED
          BY <1>1, <1>2, <2>1, <4>2, <5>3, ChangeReports
      <4>3. QED
        BY <2>7, <4>1, <4>2
    <3>5. QED
      BY <3>3, <3>4
  <2>8. CASE j.state = "done" /\ jobs' = Without(jobs, k) /\ w' = w
    <3>1. Reported'
      BY <1>1, <1>2, <2>1, <2>8, DropReports
    <3>2. ASSUME pc = "report", NEW h \in DOMAIN jobs', h < k
          PROVE  jobs'[h].state # "done"
      <4>1. h \in DOMAIN jobs /\ jobs'[h] = jobs[h]
        BY <1>1, <2>1, <2>8, <3>2, Remains
      <4>2. QED
        BY <1>1, <3>2, <4>1 DEF Walked, k
    <3>3. Walked'
      BY <2>1, <2>8, <3>2 DEF Walked, k
    <3>4. QED
      BY <3>1, <3>3
  <2>9. QED
    BY <2>4, <2>7, <2>8
<1>5. QED
  BY <1>3, <1>4

LEMMA HeldReports ==
  ASSUME ReportInv, FgEnd \/ JobEnd \/ \E p \in Pid : FgReap(p) \/ JobReap(p)
  PROVE  Reported' /\ Walked'
<1>1. MemInv /\ CountInv /\ IdsUnique /\ Reported /\ w \in Work
  BY DEF ReportInv, MemInv, CountInv, Typed, TypeOK
<1>2. CASE FgEnd \/ JobEnd
  <2>1. /\ Waiting /\ w.op \in {"fg", "pipe", "job"} /\ pc' \in {"end", "more"}
        /\ \E k \in DOMAIN jobs :
             /\ jobs[k].id = w.id
             /\ \/ \E i : /\ jobs' = [jobs EXCEPT ![k] = i] /\ Kin(jobs[k], i)
                          /\ i.state = "stop" /\ i.ndone = jobs[k].ndone
                          /\ jobs[k].state = "stop"
                \/ jobs' = Without(jobs, k)
    BY <1>1, <1>2, EndIs DEF Drop
  <2>2. Walked'
    BY <2>1 DEF Walked
  <2>3. PICK k \in DOMAIN jobs :
          /\ jobs[k].id = w.id
          /\ \/ \E i : /\ jobs' = [jobs EXCEPT ![k] = i] /\ Kin(jobs[k], i)
                       /\ i.state = "stop" /\ i.ndone = jobs[k].ndone
                       /\ jobs[k].state = "stop"
             \/ jobs' = Without(jobs, k)
    BY <2>1
  <2>4. ASSUME NEW i, jobs' = [jobs EXCEPT ![k] = i], Kin(jobs[k], i), i.state = "stop",
               i.ndone = jobs[k].ndone, jobs[k].state = "stop"
        PROVE  Reported'
    <3>1. Sound(jobs[k])
      BY <1>1, <2>4 DEF Reported
    <3>2. Sound(i)
      BY <2>4, <3>1 DEF Sound, Kin
    <3>3. QED
      BY <1>1, <2>3, <2>4, <3>2, ChangeReports
  <2>5. CASE jobs' = Without(jobs, k)
    BY <1>1, <2>2, <2>3, <2>5, DropReports
  <2>6. QED
    BY <2>2, <2>3, <2>4, <2>5
<1>3. ASSUME NEW p \in Pid, FgReap(p) \/ JobReap(p)
      PROVE  Reported' /\ Walked'
  <2>1. /\ Waiting /\ w.op \in {"fg", "pipe", "job"}
        /\ \E k \in DOMAIN jobs : \E i :
             /\ jobs[k].id = w.id
             /\ jobs' = [jobs EXCEPT ![k] = i] /\ Kin(jobs[k], i)
             /\ jobs[k].ndone # jobs[k].np
             /\ \/ i.state = "stop" /\ i.ndone = jobs[k].ndone /\ pc' \in {pc, "more"}
                \/ /\ i.state = "run" /\ pc' = pc
                   /\ w' = [w EXCEPT !.st = IF p = jobs[k].last THEN proc[p].st
                                            ELSE w.st]
    BY <1>1, <1>3, ReapIs
  <2>2. pc' # "report"
    BY <2>1 DEF Waiting
  <2>3. Walked'
    BY <2>2 DEF Walked
  <2>4. PICK k \in DOMAIN jobs : \E i :
          /\ jobs[k].id = w.id
          /\ jobs' = [jobs EXCEPT ![k] = i] /\ Kin(jobs[k], i)
          /\ jobs[k].ndone # jobs[k].np
          /\ \/ i.state = "stop" /\ i.ndone = jobs[k].ndone
             \/ /\ i.state = "run" /\ pc' = pc
                /\ w' = [w EXCEPT !.st = IF p = jobs[k].last THEN proc[p].st ELSE w.st]
    BY <2>1
  <2>5. PICK i :
          /\ jobs[k].id = w.id
          /\ jobs' = [jobs EXCEPT ![k] = i] /\ Kin(jobs[k], i)
          /\ jobs[k].ndone # jobs[k].np
          /\ \/ i.state = "stop" /\ i.ndone = jobs[k].ndone
             \/ /\ i.state = "run" /\ pc' = pc
                /\ w' = [w EXCEPT !.st = IF p = jobs[k].last THEN proc[p].st ELSE w.st]
    BY <2>4
  <2>6. CASE i.state = "stop" /\ i.ndone = jobs[k].ndone
    <3>1. Sound(i)
      BY <2>5, <2>6 DEF Sound, Kin
    <3>2. QED
      BY <1>1, <2>3, <2>5, <3>1, ChangeReports
  <2>7. CASE /\ i.state = "run" /\ pc' = pc
             /\ w' = [w EXCEPT !.st = IF p = jobs[k].last THEN proc[p].st ELSE w.st]
    <3>1. Waiting' /\ w'.op = w.op /\ w'.id = w.id
      BY <1>1, <2>1, <2>7 DEF Waiting, Work
    <3>2. i.state = "run" /\ i.id = w'.id
      BY <2>5, <2>7, <3>1 DEF Kin
    <3>3. QED
      BY <1>1, <2>1, <2>3, <2>5, <3>1, <3>2, ChangeReports
  <2>8. QED
    BY <2>5, <2>6, <2>7
<1>4. QED
  BY <1>2, <1>3

LEMMA WaitReports ==
  ASSUME ReportInv,
         \/ (\E id \in Launch : WaitJob(id)) \/ (\E p \in Pid : WaitPid(p))
         \/ AnyQuiet \/ (\E p \in Pid : AnyReap(p))
  PROVE  Reported' /\ Walked'
<1>1. CountInv /\ IdsUnique /\ Reported /\ Walked /\ TypeOK
  BY DEF ReportInv, MemInv, CountInv, Typed
<1>2. ASSUME NEW k, k = 0 \/ k \in DOMAIN jobs, NEW arg, Operand(k, arg), WaitStart
      PROVE  Reported' /\ Walked'
  <2>1. ~Waiting
    BY <1>2 DEF WaitStart, Ready, Waiting
  <2>2. pc' # "report" /\ (jobs' = jobs \/ (k # 0 /\ jobs' = Without(jobs, k)))
    BY <1>2 DEF Operand, Drop
  <2>3. CASE jobs' = jobs
    BY <1>1, <2>1, <2>2, <2>3, Keeps
  <2>4. CASE k # 0 /\ jobs' = Without(jobs, k)
    BY <1>1, <1>2, <2>1, <2>2, <2>4, DropReports DEF Walked
  <2>5. QED
    BY <2>2, <2>3, <2>4
<1>3. ASSUME NEW id \in Launch, WaitJob(id) PROVE Reported' /\ Walked'
  <2> DEFINE k == IF HasJob(id) THEN At(id) ELSE 0
             arg == [NoWork EXCEPT !.own = IF k = 0 THEN 0 ELSE jobs[k].uid]
  <2>1. k = 0 \/ k \in DOMAIN jobs
    BY AtType
  <2>2. Operand(k, arg) /\ WaitStart
    BY <1>3 DEF WaitJob
  <2> HIDE DEF k, arg
  <2>3. QED
    BY <1>2, <2>1, <2>2
<1>4. ASSUME NEW p \in Pid, WaitPid(p) PROVE Reported' /\ Walked'
  <2> DEFINE k == ByPid(p, FALSE)
             arg == [NoWork EXCEPT !.pid = p, !.own = Meant(p)]
  <2>1. k = 0 \/ k \in DOMAIN jobs
    BY <1>1, ByPidType
  <2>2. Operand(k, arg) /\ WaitStart
    BY <1>4 DEF WaitPid
  <2> HIDE DEF k, arg
  <2>3. QED
    BY <1>2, <2>1, <2>2
<1>5. CASE AnyQuiet
  <2>1. w.op \in {"n", "all"} /\ jobs' = jobs /\ pc' # "report"
    BY <1>1, <1>5, NoneDeserted DEF AnyQuiet, Rounds
  <2>2. QED
    BY <1>1, <2>1, Keeps
<1>6. ASSUME NEW p \in Pid, AnyReap(p) PROVE Reported' /\ Walked'
  <2>1. w.op \in {"n", "all"} /\ pc' # "report"
    BY <1>6 DEF AnyReap, Rounds
  <2>2. Walked'
    BY <2>1 DEF Walked
  <2>3. PICK k \in DOMAIN jobs :
          /\ jobs[k].ndone # jobs[k].np
          /\ \/ Drop(jobs, k)
             \/ \E i : /\ jobs' = [jobs EXCEPT ![k] = i] /\ Kin(jobs[k], i)
                       /\ i.state \in {"run", "stop"}
                       /\ i.ndone = jobs[k].ndone \/ i.ndone # jobs[k].np
    BY <1>1, <1>6, AnyIs
  <2>4. CASE Drop(jobs, k)
    <3>1. jobs' = Without(jobs, k)
      BY <2>4 DEF Drop
    <3>2. QED
      BY <1>1, <2>1, <2>2, <3>1, DropReports
  <2>5. ASSUME NEW i, jobs' = [jobs EXCEPT ![k] = i], Kin(jobs[k], i),
               i.state \in {"run", "stop"}, i.ndone = jobs[k].ndone \/ i.ndone # jobs[k].np
        PROVE  Reported'
    <3>1. Sound(i)
      BY <2>3, <2>5 DEF Sound, Kin
    <3>2. QED
      BY <1>1, <2>1, <2>5, <3>1, ChangeReports
  <2>6. QED
    BY <2>2, <2>3, <2>4, <2>5
<1>7. QED
  BY <1>3, <1>4, <1>5, <1>6

\* One step per action.
LEMMA StepReports ==
  ASSUME Steady, ~ResumeDone, ReportInv, [Next]_vars
  PROVE  ReportInv'
<1>1. MemInv'
  BY StepRemembers DEF ReportInv
<1>2. Reported' /\ Walked'
  <2>1. CASE Kernel \/ UNCHANGED vars
    BY <2>1, QuietReports
  <2>2. CASE Start
    <3>1. CASE Background \/ \E ps \in Pipelines : Distinct(ps) /\ Foreground(ps)
      BY <3>1, LaunchReports
    <3>2. CASE Command \/ RunTraps \/ \E mode \in {"n", "all"} : WaitAny(mode)
      BY <3>2, QuietReports
    <3>3. CASE CmdJobs \/ Prompt
      BY <3>3, WalkReports
    <3>4. CASE \E id \in Launch : \/ CmdFg(id) \/ CmdBg(id) \/ CmdDisown(id)
                                  \/ \E s \in {"TERM", "STOP", "CONT"} : CmdKill(id, s)
      BY <3>4, CommandReports
    <3>5. CASE (\E id \in Launch : WaitJob(id)) \/ (\E p \in Pid : WaitPid(p))
      BY <3>5, WaitReports
    <3>6. QED
      BY <2>2, <3>1, <3>2, <3>3, <3>4, <3>5 DEF Start
  <2>3. CASE Continue
    <3>1. CASE \/ TidyEnd \/ ForkFails \/ WalkEnd \/ WaitEnd \/ WaitTrapped \/ JobDoze
               \/ Wake \/ CmdEnd \/ PidRound
      BY <3>1, QuietReports
    <3>2. CASE TidyForget \/ \E p \in Pid : Fork(p)
      BY <3>2, LaunchReports
    <3>3. CASE FgEnd \/ JobEnd \/ \E p \in Pid : FgReap(p) \/ JobReap(p)
      BY <3>3, HeldReports
    <3>4. CASE Walk \/ CmdPoll
      BY <3>4, WalkReports
    <3>5. CASE AnyQuiet \/ \E p \in Pid : AnyReap(p)
      BY <3>5, WaitReports
    <3>6. QED
      BY <2>3, <3>1, <3>2, <3>3, <3>4, <3>5 DEF Continue
  <2>4. QED
    BY <2>1, <2>2, <2>3 DEF Next
<1>3. QED
  BY <1>1, <1>2 DEF ReportInv

LEMMA InitReports == Init => ReportInv
<1>1. Init => MemInv
  BY InitRemembers
<1>2. Init => jobs = <<>> /\ pc = "idle"
  BY DEF Init
<1>3. QED
  BY <1>1, <1>2 DEF ReportInv, Reported, Walked

\* The walk of jc_report ends with no finished job in the table, where nothing
\* would ever report it: none is behind it, although a drop moves the last job
\* into the place of another, and none was noted as shown before it finished.
THEOREM ReportCompleteCorrect ==
  ASSUME Steady, ~ResumeDone PROVE Spec => ReportComplete
<1>1. ReportInv /\ [Next]_vars => ReportInv'
  BY StepReports
<1>2. ReportInv /\ [Next]_vars => [pc = "report" /\ pc' = "idle" => DoneJobs = {}]_vars
  <2> SUFFICES ASSUME ReportInv, Next, pc = "report", pc' = "idle"
               PROVE  DoneJobs = {}
    BY DEF vars
  <2>1. jobs \in Seq(Job) /\ w \in Work /\ Walked
    BY DEF ReportInv, MemInv, CountInv, Typed, TypeOK
  <2>2. WalkEnd
    <3>1. ~Kernel
      BY KernelAside
    <3>2. ~Start
      <4>1. pc # "idle" /\ pc # "more"
        OBVIOUS
      <4>2. ~Ready /\ ~WaitStart
        BY <4>1 DEF Ready, WaitStart
      <4>3. /\ ~Background /\ ~Command /\ ~CmdJobs /\ ~Prompt /\ ~RunTraps
            /\ \A mode : ~WaitAny(mode)
        BY <4>2 DEF Background, Command, CmdJobs, Prompt, RunTraps, WaitAny
      <4>4. \A ps : ~Foreground(ps)
        BY <4>2 DEF Foreground
      <4>5. \A id : ~CmdFg(id) /\ ~CmdBg(id) /\ ~CmdDisown(id) /\ ~WaitJob(id)
                    /\ \A s : ~CmdKill(id, s)
        BY <4>2 DEF CmdFg, CmdBg, CmdDisown, WaitJob, CmdKill, Resumable
      <4>6. \A p : ~WaitPid(p)
        BY <4>2 DEF WaitPid
      <4>7. QED
        BY <4>3, <4>4, <4>5, <4>6 DEF Start
    <3>3. CASE Continue
      <4>1. /\ ~TidyForget /\ ~TidyEnd /\ ~ForkFails /\ ~FgEnd /\ ~WaitEnd
            /\ ~WaitTrapped /\ ~JobDoze /\ ~JobEnd /\ ~PidRound /\ ~AnyQuiet /\ ~Wake
            /\ ~CmdEnd /\ ~CmdPoll /\ ~Walk
        BY DEF TidyForget, TidyEnd, ForkFails, FgEnd, WaitEnd, WaitTrapped, JobDoze, JobEnd,
               PidRound, AnyQuiet, Wake, CmdEnd, CmdPoll, Walk, Rounds
      <4>2. \A p \in Pid : ~Fork(p) /\ ~FgReap(p) /\ ~JobReap(p) /\ ~AnyReap(p)
        BY DEF Fork, FgReap, JobReap, AnyReap, Rounds
      <4>3. QED
        BY <3>3, <4>1, <4>2 DEF Continue
    <3>4. QED
      BY <3>1, <3>2, <3>3 DEF Next
  <2>3. w.i > Len(jobs) /\ w.i \in Nat
    BY <2>1, <2>2 DEF WalkEnd, Work
  <2>4. \A k \in DOMAIN jobs : k < w.i
    BY <2>1, <2>3
  <2>5. QED
    BY <2>1, <2>4 DEF Walked, DoneJobs
<1>3. QED
  BY <1>1, <1>2, InitReports, PTL DEF Spec, ReportComplete

-----------------------------------------------------------------------------
(***************************************************************************)
(* What wait answers, in a script: each job there is one process, which    *)
(* the status is of.  The status goes from the process that ends to the    *)
(* poll or the wait that reaps it, from there to the job or the wait's own *)
(* running status, and from there to the answer.                           *)
(***************************************************************************)

\* The process of a launch is its last one, and ended with the status it had.
Ends ==
  \A p \in Pid :
    /\ proc[p].grp \in {NoPid, p}
    /\ proc[p].own \in Launch =>
         /\ hist[proc[p].own].tail = p
         /\ proc[p].ph = "zombie" => proc[p].st = hist[proc[p].own].st

\* A job is of the last launch of its process, and has its status when done.
Tells(h, j) ==
  /\ j.np = 1 /\ h[j.uid].tail = j.last
  /\ \A v \in Launch : v > j.uid => h[v].tail # j.last
  /\ j.state = "done" => j.st = h[j.uid].st
Told == \A k \in DOMAIN jobs : Tells(hist, jobs[k])

\* A wait for a job is asked about its launch, and has its status when the job
\* is all counted.
Taking ==
  \A k \in DOMAIN jobs : Holding(jobs[k]) =>
    /\ w.own = jobs[k].uid
    /\ jobs[k].ndone = jobs[k].np => w.st = hist[jobs[k].uid].st

\* An answer is of a launch that has ended.
Answered ==
  /\ w.own \in 0 .. launched
  /\ w.ans # NoSt /\ w.own # 0 => w.ans = hist[w.own].st /\ Processes(w.own) = {}

AnswerInv == ReportInv /\ Ends /\ Told /\ Taking /\ Answered

\* Of the launches only what the shell owes changes.
SameEnds ==
  \A u \in Launch : hist'[u].tail = hist[u].tail /\ hist'[u].st = hist[u].st

\* No process ends, or is born.
Ages ==
  \A p \in Pid :
    \/ proc'[p] = Free
    \/ /\ proc'[p].own = proc[p].own /\ proc'[p].grp \in {proc[p].grp, NoPid}
       /\ proc'[p].ph = "zombie" => proc[p].ph = "zombie" /\ proc'[p].st = proc[p].st

\* Jobs are dropped, or change without being done.
Turns ==
  \A k \in DOMAIN jobs' : \E h \in DOMAIN jobs :
    \/ jobs'[k] = jobs[h]
    \/ Kin(jobs[h], jobs'[k]) /\ jobs'[k].state # "done"

LEMMA EndsKept ==
  ASSUME Ends, Ages, SameEnds
  PROVE  Ends'
<1>1. ASSUME NEW p \in Pid
      PROVE  /\ proc'[p].grp \in {NoPid, p}
             /\ proc'[p].own \in Launch =>
                  /\ hist'[proc'[p].own].tail = p
                  /\ proc'[p].ph = "zombie" => proc'[p].st = hist'[proc'[p].own].st
  <2>1. CASE proc'[p] = Free
    BY <2>1 DEF Free, Launch
  <2>2. CASE /\ proc'[p].own = proc[p].own /\ proc'[p].grp \in {proc[p].grp, NoPid}
             /\ proc'[p].ph = "zombie" => proc[p].ph = "zombie" /\ proc'[p].st = proc[p].st
    BY <2>2 DEF Ends, SameEnds
  <2>3. QED
    BY <2>1, <2>2 DEF Ages
<1>2. QED
  BY <1>1 DEF Ends

LEMMA ToldKept ==
  ASSUME CountInv, Told, Turns, SameEnds
  PROVE  Told'
<1>1. ASSUME NEW h \in DOMAIN jobs, NEW i,
             i = jobs[h] \/ (Kin(jobs[h], i) /\ i.state # "done")
      PROVE  Tells(hist', i)
  <2>1. Tells(hist, jobs[h]) /\ jobs[h].uid \in Launch
    BY One DEF Told, Job
  <2>2. /\ i.uid = jobs[h].uid /\ i.np = jobs[h].np /\ i.last = jobs[h].last
        /\ i.state = "done" => i.st = jobs[h].st /\ jobs[h].state = "done"
    BY <1>1 DEF Kin
  <2>3. QED
    BY <2>1, <2>2 DEF Tells, SameEnds
<1>2. QED
  BY <1>1 DEF Turns, Told

LEMMA AnsweredKept ==
  ASSUME CountInv, Answered, Shrinks, SameEnds, launched' \in Nat, launched <= launched',
         \/ w'.ans = w.ans /\ w'.own \in {w.own, 0}
         \/ w'.ans = NoSt /\ w'.own \in 0 .. launched
  PROVE  Answered'
<1>1. launched \in Nat /\ launched <= MaxLaunch /\ MaxLaunch \in Nat
  BY ConstantsAssumption DEF CountInv, Typed, TypeOK
<1>2. w'.own \in 0 .. launched'
  BY <1>1 DEF Answered
<1>3. ASSUME w'.ans = w.ans, w'.own = w.own, w.ans # NoSt, w.own # 0
      PROVE  w'.ans = hist'[w'.own].st /\ Processes(w.own)' = {}
  <2>1. w.own \in 1 .. launched /\ w.own \in Launch
    BY <1>1, <1>3 DEF Answered, Launch
  <2>2. w.ans = hist[w.own].st /\ Processes(w.own) = {}
    BY <1>3 DEF Answered
  <2>3. \A u \in 1 .. launched : Processes(u) = {} => \A p \in Pid : proc'[p].own # u
    BY Fewer DEF Processes
  <2>4. Processes(w.own)' = {}
    BY <1>3, <2>1, <2>2, <2>3 DEF Processes
  <2>5. QED
    BY <1>3, <2>1, <2>2, <2>4 DEF SameEnds
<1>4. QED
  BY <1>2, <1>3 DEF Answered

LEMMA TakingKept ==
  ASSUME CountInv, Taking, SameEnds, jobs' = jobs,
         \/ w' = w /\ (Waiting' => Waiting)
         \/ ~Waiting'
         \/ w'.op \notin {"fg", "pipe", "job"}
  PROVE  Taking'
<1>1. ASSUME NEW k \in DOMAIN jobs, Holding(jobs[k])'
      PROVE  /\ w'.own = jobs[k].uid
             /\ jobs[k].ndone = jobs[k].np => w'.st = hist'[jobs[k].uid].st
  <2>1. w' = w /\ Holding(jobs[k])
    BY <1>1 DEF Holding
  <2>2. jobs[k].uid \in Launch
    BY One DEF Job
  <2>3. QED
    BY <2>1, <2>2 DEF Taking, SameEnds
<1>2. QED
  BY <1>1 DEF Taking

LEMMA SameEndsIs ==
  ASSUME TypeOK
  PROVE  /\ hist' = hist => SameEnds
         /\ \A u : \A how : Settled(u, how) => SameEnds
<1>1. \A u \in Launch : hist[u] \in Past
  BY DEF TypeOK
<1>2. QED
  BY <1>1 DEF SameEnds, Settled, Past

LEMMA AgesIs ==
  ASSUME TypeOK
  PROVE  /\ proc' = proc => Ages
         /\ \A S : proc' = Halted(S) \/ proc' = Continued(S) => Ages
         /\ \A p \in Pid : proc' = [proc EXCEPT ![p] = Taken(p)] => Ages
         /\ \A p \in Pid : proc' = [proc EXCEPT ![p] = Free] => Ages
         /\ Poll => Ages
<1>1. \A p \in Pid : proc[p] \in Process
  BY DEF TypeOK
<1>2. DOMAIN proc = Pid
  BY DEF TypeOK
<1> DEFINE Older(p, n) ==
             \/ n = Free
             \/ /\ n.own = proc[p].own /\ n.grp \in {proc[p].grp, NoPid}
                /\ n.ph = "zombie" => proc[p].ph = "zombie" /\ n.st = proc[p].st
<1>3. \A p \in Pid : Older(p, proc[p])
  OBVIOUS
<1>4. \A p \in Pid : Older(p, Taken(p))
  <2>1. ASSUME NEW p \in Pid, proc[p].ph # "zombie"
        PROVE  /\ Taken(p).own = proc[p].own /\ Taken(p).grp = proc[p].grp
               /\ Taken(p).ph # "zombie"
    BY <1>1, <2>1 DEF Taken, Process
  <2>2. ASSUME NEW p \in Pid, proc[p].ph = "zombie" PROVE Taken(p) = Free
    BY <2>2 DEF Taken
  <2>3. QED
    BY <2>1, <2>2
<1>5. ASSUME NEW S, NEW p \in Pid
      PROVE  Older(p, Halted(S)[p]) /\ Older(p, Continued(S)[p])
  BY <1>1 DEF Halted, Continued, Process
<1>6. (\A p \in Pid : Older(p, proc'[p])) => Ages
  BY DEF Ages
<1> HIDE DEF Older
<1>7. proc' = proc => Ages
  BY <1>3, <1>6
<1>8. ASSUME NEW S, proc' = Halted(S) \/ proc' = Continued(S) PROVE Ages
  BY <1>5, <1>6, <1>8
<1>9. ASSUME NEW p \in Pid, proc' = [proc EXCEPT ![p] = Taken(p)] PROVE Ages
  <2>1. \A q \in Pid : proc'[q] \in {proc[q], Taken(q)}
    BY <1>2, <1>9
  <2>2. QED
    BY <1>3, <1>4, <1>6, <2>1
<1>10. ASSUME NEW p \in Pid, proc' = [proc EXCEPT ![p] = Free] PROVE Ages
  <2>1. \A q \in Pid : proc'[q] \in {proc[q], Free}
    BY <1>2, <1>10
  <2>2. \A q \in Pid : Older(q, Free)
    BY DEF Older
  <2>3. QED
    BY <1>3, <1>6, <2>1, <2>2
<1>11. ASSUME Poll PROVE Ages
  <2>1. \A q \in Pid : proc'[q] \in {proc[q], Taken(q)}
    BY <1>11 DEF Poll
  <2>2. QED
    BY <1>3, <1>4, <1>6, <2>1
<1>12. QED
  BY <1>7, <1>8, <1>9, <1>10, <1>11

LEMMA TurnsIs ==
  ASSUME CountInv
  PROVE  /\ jobs' = jobs => Turns
         /\ \A k \in DOMAIN jobs : jobs' = Without(jobs, k) => Turns
         /\ \A k \in DOMAIN jobs : \A i :
              jobs' = [jobs EXCEPT ![k] = i] /\ Kin(jobs[k], i) /\ i.state # "done" => Turns
<1>1. jobs \in Seq(Job)
  BY DEF CountInv, Typed, TypeOK
<1>2. jobs' = jobs => Turns
  BY DEF Turns
<1>3. ASSUME NEW k \in DOMAIN jobs, jobs' = Without(jobs, k) PROVE Turns
  BY <1>1, <1>3, Remains DEF Turns
<1>4. ASSUME NEW k \in DOMAIN jobs, NEW i, jobs' = [jobs EXCEPT ![k] = i],
             Kin(jobs[k], i), i.state # "done"
      PROVE  Turns
  <2>1. DOMAIN jobs' = DOMAIN jobs /\ \A h \in DOMAIN jobs :
          jobs'[h] = jobs[h] \/ (h = k /\ jobs'[h] = i)
    BY <1>1, <1>4
  <2>2. QED
    BY <1>4, <2>1 DEF Turns
<1>5. QED
  BY <1>2, <1>3, <1>4

\* In a script a job is one process, which both of its names are.
LEMMA OneProcess ==
  ASSUME CountInv, ~Interactive, NEW k \in DOMAIN jobs
  PROVE  /\ jobs[k].uid \in Launch /\ jobs[k].uid \in 1 .. launched
         /\ jobs[k].last \in Pid /\ Named(jobs[k]) = {jobs[k].last}
         /\ \A p \in Pid : proc[p].own = jobs[k].uid <=> p = jobs[k].last /\ proc[p].ph # "free"
<1>1. jobs[k] \in Job /\ Owned(proc, launched, jobs[k])
  BY One
<1>2. jobs[k].pgid = jobs[k].last
  BY <1>1 DEF Owned
<1>3. QED
  BY <1>1, <1>2 DEF Owned, Named, Job

\* An exit is of the launch whose last process it is, and of no job that is
\* all counted.
LEMMA ExitAnswers ==
  ASSUME AnswerInv, NEW p \in Pid, NEW s \in Status, KExit(p, s)
  PROVE  Ends' /\ Told' /\ Taking' /\ Answered'
<1> DEFINE own == proc[p].own
<1>1. /\ TypeOK /\ CountInv
      /\ \A q \in Pid : proc[q] \in Process
      /\ \A u \in Launch : hist[u] \in Past
  BY DEF AnswerInv, ReportInv, MemInv, CountInv, Typed, TypeOK
<1>2. /\ jobs' = jobs /\ w' = w /\ pc' = pc /\ launched' = launched
      /\ \A q \in Pid \ {p} : proc'[q] = proc[q]
      /\ proc'[p].own = own /\ proc'[p].grp = proc[p].grp /\ proc'[p].st = s
  BY <1>1 DEF KExit, TypeOK, Process
<1>3. \A u \in Launch : /\ hist'[u].tail = hist[u].tail
                        /\ u # own \/ hist[u].tail # p => hist'[u].st = hist[u].st
                        /\ u = own /\ hist[u].tail = p => hist'[u].st = s
  BY <1>1 DEF KExit, Past
<1>4. Ends'
  <2>1. ASSUME NEW q \in Pid
        PROVE  /\ proc'[q].grp \in {NoPid, q}
               /\ proc'[q].own \in Launch =>
                    /\ hist'[proc'[q].own].tail = q
                    /\ proc'[q].ph = "zombie" => proc'[q].st = hist'[proc'[q].own].st
    <3>1. /\ proc[q].grp \in {NoPid, q}
          /\ proc[q].own \in Launch =>
               /\ hist[proc[q].own].tail = q
               /\ proc[q].ph = "zombie" => proc[q].st = hist[proc[q].own].st
      BY DEF AnswerInv, Ends
    <3>2. CASE q = p
      BY <1>2, <1>3, <3>1, <3>2
    <3>3. CASE q # p
      BY <1>2, <1>3, <3>1, <3>3
    <3>4. QED
      BY <3>2, <3>3
  <2>2. QED
    BY <2>1 DEF Ends
<1>5. \A k \in DOMAIN jobs : /\ jobs[k].uid \in Launch
                             /\ jobs[k].state = "done" \/ jobs[k].ndone = jobs[k].np
                                  => hist'[jobs[k].uid].st = hist[jobs[k].uid].st
  <2>1. ASSUME NEW k \in DOMAIN jobs
        PROVE  /\ jobs[k].uid \in Launch
               /\ jobs[k].state = "done" \/ jobs[k].ndone = jobs[k].np => jobs[k].uid # own
    <3>1. jobs[k] \in Job
      BY <1>1, One
    <3>2. jobs[k].state = "done" \/ jobs[k].ndone = jobs[k].np
            => ProcsIn(proc, jobs[k].uid) = {}
      BY <1>1, NoneLeft, Uncounted
    <3>3. QED
      BY <3>1, <3>2 DEF ProcsIn, Job
  <2>2. QED
    BY <1>3, <2>1
<1>6. Told'
  BY <1>2, <1>3, <1>5 DEF AnswerInv, Told, Tells
<1>7. Taking'
  BY <1>2, <1>5 DEF AnswerInv, Taking, Holding, Waiting
<1>8. Answered'
  <2>1. ASSUME w.ans # NoSt, w.own # 0
        PROVE  w.ans = hist'[w.own].st /\ Processes(w.own)' = {}
    <3>1. w.ans = hist[w.own].st /\ Processes(w.own) = {} /\ w.own \in 1 .. launched
      BY <1>1, <2>1 DEF AnswerInv, Answered, TypeOK
    <3>2. w.own \in Launch /\ w.own # own
      BY <1>1, <3>1, ConstantsAssumption DEF Processes, Launch, TypeOK
    <3>3. \A q \in Pid : proc'[q].own = proc[q].own
      BY <1>2
    <3>4. QED
      BY <1>2, <1>3, <3>1, <3>2, <3>3 DEF Processes
  <2>2. QED
    BY <1>2, <2>1 DEF AnswerInv, Answered
<1>9. QED
  BY <1>4, <1>6, <1>7, <1>8

\* What else the kernel or a module does changes no answer.
LEMMA KernelAnswers ==
  ASSUME AnswerInv, Kernel, Shrinks
  PROVE  Ends' /\ Told' /\ Taking' /\ Answered'
<1>1. TypeOK /\ CountInv
  BY DEF AnswerInv, ReportInv, MemInv, CountInv, Typed
<1>2. jobs' = jobs /\ w' = w /\ pc' = pc /\ launched' = launched
  BY KernelAside
<1>3. ASSUME hist' = hist, Ends' \/ Ages
      PROVE  Ends' /\ Told' /\ Taking' /\ Answered'
  <2>1. SameEnds /\ Turns
    BY <1>1, <1>2, <1>3, SameEndsIs, TurnsIs
  <2>2. Ends'
    BY <1>3, <2>1, EndsKept DEF AnswerInv
  <2>3. Told'
    BY <1>1, <2>1, ToldKept DEF AnswerInv
  <2>4. Taking'
    BY <1>1, <1>2, <2>1, TakingKept DEF AnswerInv, Waiting
  <2>5. Answered'
    BY <1>1, <1>2, <2>1, AnsweredKept DEF AnswerInv, TypeOK
  <2>6. QED
    BY <2>2, <2>3, <2>4, <2>5
<1>4. ASSUME NEW p \in Pid, NEW s \in Status, KExit(p, s)
      PROVE  Ends' /\ Told' /\ Taking' /\ Answered'
  BY <1>4, ExitAnswers
<1>5. ASSUME NEW p \in Pid, KStop(p) \/ KCont(p) PROVE hist' = hist /\ Ages
  BY <1>1, <1>5, AgesIs DEF KStop, KCont
<1>6. ASSUME NEW p \in Pid, KLeave(p) PROVE hist' = hist /\ Ages
  BY <1>1, <1>6 DEF KLeave, Ages, TypeOK, Process
<1>7. ASSUME NEW p \in Pid, ModFork(p) PROVE hist' = hist /\ Ends'
  <2>1. /\ hist' = hist /\ \A q \in Pid \ {p} : proc'[q] = proc[q]
        /\ proc'[p].grp = p /\ proc'[p].own = Module
    BY <1>1, <1>7 DEF ModFork, TypeOK
  <2>2. Module \notin Launch
    BY ConstantsAssumption DEF Module, Launch
  <2>3. QED
    BY <2>1, <2>2 DEF AnswerInv, Ends
<1>8. ASSUME NEW p \in Pid, ModReap(p) PROVE hist' = hist /\ Ages
  BY <1>1, <1>8, AgesIs DEF ModReap
<1>9. KSignal => hist' = hist /\ Ages
  BY <1>1, AgesIs DEF KSignal
<1>10. QED
  BY <1>3, <1>4, <1>5, <1>6, <1>7, <1>8, <1>9 DEF Kernel

\* A poll that finds a job finished reaps its one process, and takes the
\* status the launch ended with.
LEMMA PollTells ==
  ASSUME CountInv, ~Interactive, Ends, Told, Poll, hist' = hist
  PROVE  Told'
<1>1. TypeOK
  BY DEF CountInv, Typed
<1>2. PICK late \in BOOLEAN : jobs' = [k \in DOMAIN jobs |-> Polled(k, late)]
  BY DEF Poll
<1>3. ASSUME NEW k \in DOMAIN jobs
      PROVE  Tells(hist', Polled(k, late))
  <2> DEFINE j     == jobs[k]
             stops == {p \in Claim(k) : Stopped(p)}
             exits == Claim(k) \ stops
             i     == Polled(k, late)
  <2>1. j \in Job /\ Tells(hist, j)
    BY One DEF Told
  <2>2. /\ i.uid = j.uid /\ i.np = j.np /\ i.last = j.last
        /\ i.st = PolledStatus(j, exits, stops, late)
        /\ i.state = "done" => exits # {} \/ (stops = {} /\ j.state = "done")
    BY <2>1 DEF Polled, Job
  <2>3. Claim(k) \subseteq {j.last} /\ (j.state = "done" => Claim(k) = {})
        /\ \A p \in Claim(k) : p \in Pid /\ proc[p].own = j.uid
                                /\ (proc[p].ph = "zombie" \/ Stopped(p))
    BY ClaimIs, OneProcess DEF News, ProcsIn
  <2>4. CASE exits # {}
    <3>1. j.last \in Pid /\ proc[j.last].ph = "zombie" /\ proc[j.last].own = j.uid
          /\ j.last \in exits /\ stops = {}
      BY <2>3, <2>4 DEF Stopped
    <3>2. i.st = proc[j.last].st
      BY <2>2, <3>1 DEF PolledStatus
    <3>3. proc[j.last].st = hist[j.uid].st
      BY <2>1, <3>1 DEF Ends, Job
    <3>4. QED
      BY <2>1, <2>2, <3>2, <3>3 DEF Tells
  <2>5. CASE exits = {}
    <3>1. i.state = "done" => j.state = "done" /\ i.st = j.st
      BY <2>2, <2>5 DEF PolledStatus
    <3>2. QED
      BY <2>1, <2>2, <3>1 DEF Tells
  <2>6. QED
    BY <2>4, <2>5
<1>4. QED
  BY <1>2, <1>3 DEF Told

\* A step that ends no process and finishes no job keeps what the answers
\* rest on, if it leaves the wait under way as it was or starts none.
LEMMA AsideAnswers ==
  ASSUME AnswerInv, Shrinks, Ages, SameEnds, Turns \/ Told',
         launched' \in {launched, launched + 1},
         \/ w'.ans = w.ans /\ w'.own \in {w.own, 0}
         \/ w'.ans = NoSt /\ w'.own \in 0 .. launched,
         \/ ~Waiting' \/ w'.op \notin {"fg", "pipe", "job"}
         \/ jobs' = jobs /\ w' = w /\ Waiting
  PROVE  Ends' /\ Told' /\ Taking' /\ Answered'
<1>1. CountInv /\ Ends /\ Told /\ Taking /\ Answered /\ launched \in Nat
  BY DEF AnswerInv, ReportInv, MemInv, CountInv, Typed, TypeOK
<1>2. Ends'
  BY <1>1, EndsKept
<1>3. Told'
  BY <1>1, ToldKept
<1>4. Taking'
  <2>1. CASE ~Waiting' \/ w'.op \notin {"fg", "pipe", "job"}
    BY <2>1 DEF Taking, Holding
  <2>2. CASE jobs' = jobs /\ w' = w /\ Waiting
    BY <1>1, <2>2, TakingKept
  <2>3. QED
    BY <2>1, <2>2
<1>5. Answered'
  BY <1>1, AnsweredKept
<1>6. QED
  BY <1>2, <1>3, <1>4, <1>5

\* The walk over the table drops the job it is at, or marks it as shown.
LEMMA WalkTurns ==
  ASSUME CountInv, Walk
  PROVE  /\ Turns /\ SameEnds /\ ~Waiting'
         /\ w'.ans = w.ans /\ w'.own = w.own
<1>1. jobs \in Seq(Job) /\ w \in Work /\ TypeOK
  BY DEF CountInv, Typed, TypeOK
<1> DEFINE k == w.i
           j == jobs[k]
           i == [j EXCEPT !.note = TRUE]
<1>2. k \in DOMAIN jobs
  BY <1>1 DEF Walk, Work
<1>3. Passed(k) \/ Shown(k)
  BY DEF Walk
<1>4. j \in Job
  BY <1>1, <1>2
<1> HIDE DEF k, j
<1>5. Kin(j, i) /\ i.state = j.state
  BY <1>4 DEF Kin, Job
<1> HIDE DEF i
<1>6. /\ w' = w \/ w' = [w EXCEPT !.i = @ + 1]
      /\ hist' = hist \/ Settled(j.uid, "told")
      /\ \/ jobs' = jobs \/ jobs' = Without(jobs, k)
         \/ j.state # "done" /\ jobs' = [jobs EXCEPT ![k] = i]
  <2>1. CASE Passed(k)
    BY <2>1 DEF Passed
  <2>2. CASE Shown(k) /\ j.state = "done"
    BY <2>2 DEF Shown, Drop, j
  <2>3. CASE Shown(k) /\ j.state # "done"
    BY <1>1, <1>2, <2>3 DEF Shown, i, j
  <2>4. QED
    BY <1>3, <2>1, <2>2, <2>3
<1>7. SameEnds
  BY <1>1, <1>6, SameEndsIs
<1>8. Turns
  BY <1>2, <1>5, <1>6, TurnsIs DEF j
<1>9. ~Waiting' /\ w'.ans = w.ans /\ w'.own = w.own
  BY <1>1, <1>6 DEF Walk, Waiting, Work
<1>10. QED
  BY <1>7, <1>8, <1>9

\* What neither ends a wait nor takes a status.
LEMMA QuietAnswers ==
  ASSUME AnswerInv, Shrinks,
         \/ Command \/ RunTraps \/ (\E mode \in {"n", "all"} : WaitAny(mode))
         \/ TidyForget \/ TidyEnd \/ ForkFails \/ Walk \/ WalkEnd \/ WaitEnd
         \/ WaitTrapped \/ JobDoze \/ Wake \/ CmdEnd \/ AnyQuiet \/ UNCHANGED vars
  PROVE  Ends' /\ Told' /\ Taking' /\ Answered'
<1>1. TypeOK /\ CountInv /\ Reported /\ jobs \in Seq(Job) /\ launched \in Nat
  BY DEF AnswerInv, ReportInv, MemInv, CountInv, Typed, TypeOK
<1>2. proc' = proc /\ Ages
  BY <1>1, AgesIs DEF Command, RunTraps, WaitAny, TidyForget, TidyEnd, ForkFails, Walk,
     WalkEnd, WaitEnd, WaitTrapped, JobDoze, Doze, Wake, CmdEnd, AnyQuiet, vars
<1>3. launched' \in {launched, launched + 1}
  BY DEF Command, RunTraps, WaitAny, TidyForget, TidyEnd, ForkFails, Walk,
     WalkEnd, WaitEnd, WaitTrapped, JobDoze, Wake, CmdEnd, AnyQuiet, vars
<1>4. NoWork.ans = NoSt /\ NoWork.own = 0 /\ 0 \in 0 .. launched
  BY <1>1 DEF NoWork
<1>5. CASE Command \/ WaitEnd \/ TidyEnd \/ ForkFails \/ TidyForget
  <2>1. w' = w /\ hist' = hist /\ ~Waiting'
    BY <1>5 DEF Command, WaitEnd, TidyEnd, ForkFails, TidyForget, Waiting
  <2>2. Turns
    BY <1>1, <1>5, TurnsIs DEF Command, WaitEnd, TidyEnd, ForkFails, TidyForget, Drop, DoneJobs
  <2>3. QED
    BY <1>1, <1>2, <1>3, <2>1, <2>2, SameEndsIs, AsideAnswers
<1>6. CASE RunTraps \/ JobDoze \/ Wake \/ AnyQuiet \/ UNCHANGED vars
  <2>1. w' = w /\ hist' = hist /\ (Waiting' => Waiting)
    BY <1>6 DEF RunTraps, JobDoze, Doze, Wake, AnyQuiet, Waiting, Rounds, vars
  <2>2. jobs' = jobs
    BY <1>1, <1>6, NoneDeserted DEF RunTraps, JobDoze, Doze, Wake, AnyQuiet, Rounds, vars
  <2>3. Turns
    BY <1>1, <2>2, TurnsIs
  <2>4. QED
    BY <1>1, <1>2, <1>3, <2>1, <2>2, <2>3, SameEndsIs, AsideAnswers
<1>7. CASE WalkEnd \/ WaitTrapped \/ CmdEnd
  <2>1. w' = NoWork /\ hist' = hist /\ ~Waiting' /\ jobs' = jobs
    BY <1>7 DEF WalkEnd, WaitTrapped, CmdEnd, Waiting
  <2>2. Turns
    BY <1>1, <2>1, TurnsIs
  <2>3. QED
    BY <1>1, <1>2, <1>3, <1>4, <2>1, <2>2, SameEndsIs, AsideAnswers
<1>8. ASSUME NEW mode \in {"n", "all"}, WaitAny(mode)
      PROVE  Ends' /\ Told' /\ Taking' /\ Answered'
  <2>1. hist' = hist /\ jobs' = jobs /\ w' = [NoWork EXCEPT !.op = mode]
    BY <1>8 DEF WaitAny
  <2>2. w'.op = mode /\ w'.ans = NoSt /\ w'.own = 0
    BY <2>1 DEF NoWork
  <2>3. Turns
    BY <1>1, <2>1, TurnsIs
  <2>4. QED
    BY <1>1, <1>2, <1>3, <1>4, <2>1, <2>2, <2>3, SameEndsIs, AsideAnswers
<1>9. CASE Walk
  BY <1>1, <1>2, <1>3, <1>9, WalkTurns, AsideAnswers
<1>10. QED
  BY <1>5, <1>6, <1>7, <1>8, <1>9

\* A poll, before `&', after a command or in jobs.
LEMMA PollAnswers ==
  ASSUME AnswerInv, Shrinks, ~Interactive, Background \/ CmdJobs \/ CmdPoll
  PROVE  Ends' /\ Told' /\ Taking' /\ Answered'
<1>1. TypeOK /\ CountInv /\ launched \in Nat /\ Ends /\ Told
  BY DEF AnswerInv, ReportInv, MemInv, CountInv, Typed, TypeOK
<1>2. /\ hist' = hist /\ launched' = launched /\ ~Waiting'
      /\ w' \in {w, NoWork} /\ (Poll \/ (proc' = proc /\ jobs' = jobs))
  BY DEF Background, CmdJobs, CmdPoll, Waiting
<1>3. Ages /\ SameEnds
  BY <1>1, <1>2, AgesIs, SameEndsIs
<1>4. Turns \/ Told'
  BY <1>1, <1>2, PollTells, TurnsIs
<1>5. w' = NoWork => w'.ans = NoSt /\ w'.own \in 0 .. launched
  BY <1>1 DEF NoWork
<1>6. QED
  BY <1>2, <1>3, <1>4, <1>5, AsideAnswers

\* fg, bg, kill and disown: fg starts to wait for a job that is not finished.
LEMMA CommandAnswers ==
  ASSUME AnswerInv, Shrinks, ~ResumeDone, NEW id \in Launch,
         \/ CmdFg(id) \/ CmdBg(id) \/ CmdDisown(id)
         \/ \E s \in {"TERM", "STOP", "CONT"} : CmdKill(id, s)
  PROVE  Ends' /\ Told' /\ Taking' /\ Answered'
<1>1. /\ TypeOK /\ CountInv /\ IdsUnique /\ ReportInv /\ launched \in Nat
      /\ jobs \in Seq(Job)
  BY DEF AnswerInv, ReportInv, MemInv, CountInv, Typed, TypeOK
<1>2. Ages
  BY <1>1, AgesIs DEF CmdFg, CmdBg, CmdDisown, CmdKill
<1>3. launched' = launched
  BY DEF CmdFg, CmdBg, CmdDisown, CmdKill
<1>4. CASE CmdDisown(id)
  <2>1. At(id) \in DOMAIN jobs /\ jobs' = Without(jobs, At(id)) /\ w' = w /\ ~Waiting'
        /\ Settled(jobs[At(id)].uid, "disowned")
    BY <1>4, AtType DEF CmdDisown, Drop, Waiting
  <2>2. Turns /\ SameEnds
    BY <1>1, <2>1, TurnsIs, SameEndsIs
  <2>3. QED
    BY <1>2, <1>3, <2>1, <2>2, AsideAnswers
<1>5. CASE \/ CmdFg(id) \/ CmdBg(id)
           \/ \E s \in {"TERM", "STOP", "CONT"} : CmdKill(id, s)
  <2>1. PICK k \in DOMAIN jobs :
          /\ jobs[k].id = id
          /\ \/ jobs' = jobs
             \/ \E i : /\ jobs' = [jobs EXCEPT ![k] = i] /\ Kin(jobs[k], i)
                       /\ i.state = "run"
                       /\ i.ndone = jobs[k].ndone /\ jobs[k].ndone # jobs[k].np
    BY <1>1, <1>5, CommandIs
  <2>2. Turns
    BY <1>1, <2>1, TurnsIs
  <2>3. SameEnds
    BY <1>1, <1>5, SameEndsIs DEF CmdFg, CmdBg, CmdKill
  <2>4. CASE \/ CmdBg(id) \/ \E s \in {"TERM", "STOP", "CONT"} : CmdKill(id, s)
    <3>1. w' = w /\ ~Waiting'
      BY <2>4 DEF CmdBg, CmdKill, Waiting
    <3>2. QED
      BY <1>2, <1>3, <2>2, <2>3, <3>1, AsideAnswers
  <2>5. CASE CmdFg(id)
    <3>1. At(id) \in DOMAIN jobs /\ jobs[At(id)].id = id
      BY <2>5, AtType DEF CmdFg, Resumable
    <3>2. At(id) = k
      BY <1>1, <2>1, <3>1 DEF IdsUnique
    <3>3. w' = [NoWork EXCEPT !.op = "fg", !.id = id, !.own = jobs[k].uid]
      BY <2>5, <3>2 DEF CmdFg
    <3>4. w'.ans = NoSt /\ w'.own = jobs[k].uid /\ w'.id = id
      BY <3>3 DEF NoWork
    <3>5. jobs[k].uid \in 0 .. launched
      BY <1>1, One DEF Owned
    <3>6. Ends' /\ Told' /\ Answered'
      BY <1>1, <1>2, <1>3, <2>2, <2>3, <3>4, <3>5, EndsKept, ToldKept, AnsweredKept
         DEF AnswerInv
    <3>7. \E i : /\ jobs' = [jobs EXCEPT ![k] = i] /\ Kin(jobs[k], i)
                 /\ i.ndone = jobs[k].ndone /\ jobs[k].ndone # jobs[k].np
      <4>1. jobs' # jobs \/ jobs[k].state # "done"
        BY <2>5, <3>2 DEF CmdFg, Resumable
      <4>2. CASE jobs' = jobs
        <5>1. ~Holding(jobs[k]) /\ jobs[k].state # "done"
          BY <2>5, <4>1, <4>2 DEF Holding, CmdFg, Resumable, Ready, Waiting
        <5>2. jobs[k].ndone # jobs[k].np
          BY <1>1, <5>1, Unheld DEF Sound, ReportInv
        <5>3. jobs' = [jobs EXCEPT ![k] = jobs[k]] /\ Kin(jobs[k], jobs[k])
          BY <1>1, <4>2, One DEF Kin
        <5>4. QED
          BY <5>2, <5>3
      <4>3. CASE jobs' # jobs
        BY <2>1, <4>3
      <4>4. QED
        BY <4>2, <4>3
    <3>8. Taking'
      <4>1. ASSUME NEW h \in DOMAIN jobs', Holding(jobs[h])'
            PROVE  w'.own = jobs'[h].uid /\ jobs'[h].ndone # jobs'[h].np
        <5>1. PICK i : /\ jobs' = [jobs EXCEPT ![k] = i] /\ Kin(jobs[k], i)
                       /\ i.ndone = jobs[k].ndone /\ jobs[k].ndone # jobs[k].np
          BY <3>7
        <5>2. h \in DOMAIN jobs /\ jobs'[h].id = id
          BY <1>1, <3>4, <4>1, <5>1 DEF Holding
        <5>3. h = k
          BY <1>1, <2>1, <5>1, <5>2 DEF IdsUnique
        <5>4. jobs'[h] = i
          BY <1>1, <5>1, <5>3
        <5>5. QED
          BY <3>4, <5>1, <5>4 DEF Kin
      <4>2. QED
        BY <4>1 DEF Taking
    <3>9. QED
      BY <3>6, <3>8
  <2>6. QED
    BY <1>5, <2>4, <2>5
<1>6. QED
  BY <1>4, <1>5

\* A new launch is the last of its pid, which no job of the table bears.
LEMMA ForkAnswers ==
  ASSUME AnswerInv, Shrinks, ~Interactive, ~Recycle, NEW p \in Pid, Fork(p)
  PROVE  Ends' /\ Told' /\ Taking' /\ Answered'
<1> DEFINE n == launched + 1
           j == Fresh(<<p>>, TRUE)
<1>1. /\ CountInv /\ TypeOK /\ Unborn /\ jobs \in Seq(Job)
      /\ launched \in Nat /\ launched < MaxLaunch /\ MaxLaunch \in Nat
      /\ \A u \in Launch : hist[u] \in Past
  BY ConstantsAssumption DEF AnswerInv, ReportInv, MemInv, CountInv, Typed, TypeOK, Room, Fork
<1>2. n \in Launch /\ Module \notin Launch /\ \A u \in 1 .. launched : u \in Launch /\ u # n
  BY <1>1 DEF Launch, Module
<1>3. Len(<<p>>) = 1 /\ <<p>>[1] = p /\ \A q : (\E i \in DOMAIN <<p>> : <<p>>[i] = q) <=> q = p
  OBVIOUS
<1>4. /\ \A q \in Pid \ {p} : proc'[q] = proc[q]
      /\ proc'[p].ph = "run" /\ proc'[p].grp = NoPid /\ proc'[p].own = n
  BY <1>3 DEF Fork, Started
<1>5. hist' = [hist EXCEPT ![n].tail = p]
  BY <1>3 DEF Fork, Started
<1>6. /\ hist'[n].tail = p /\ \A u \in Launch \ {n} : hist'[u] = hist[u]
  BY <1>1, <1>2, <1>5 DEF TypeOK, Past
<1>7. j.np = 1 /\ j.last = p /\ j.uid = n /\ j.state = "run"
  BY <1>3 DEF Fresh
<1>8. jobs' = Append(jobs, j) /\ launched' = n /\ w' = w /\ pc' = "idle" /\ FreshPid(p)
  BY DEF Fork, Started, Added
<1> HIDE DEF n, j
<1>9. Ends'
  <2>1. ASSUME NEW q \in Pid \ {p}, proc[q].own \in Launch PROVE proc[q].own # n
    BY <1>1, <1>2, <2>1 DEF CountInv, ProcsFit, n
  <2>2. ASSUME NEW q \in Pid
        PROVE  /\ proc'[q].grp \in {NoPid, q}
               /\ proc'[q].own \in Launch =>
                    /\ hist'[proc'[q].own].tail = q
                    /\ proc'[q].ph = "zombie" => proc'[q].st = hist'[proc'[q].own].st
    <3>1. CASE q = p
      BY <1>4, <1>6, <3>1
    <3>2. CASE q # p
      BY <1>4, <1>6, <2>1, <3>2 DEF AnswerInv, Ends
    <3>3. QED
      BY <3>1, <3>2
  <2>3. QED
    BY <2>2 DEF Ends
<1>10. Told'
  <2>1. ASSUME NEW k \in DOMAIN jobs PROVE Tells(hist', jobs[k])
    <3>1. Tells(hist, jobs[k]) /\ jobs[k].uid \in 1 .. launched
      BY <1>1, One DEF AnswerInv, Told, Owned
    <3>2. jobs[k].last # p
      BY <1>8 DEF FreshPid
    <3>3. QED
      BY <1>2, <1>6, <3>1, <3>2 DEF Tells
  <2>2. Tells(hist', j)
    <3>1. \A v \in Launch : v > n => hist'[v].tail = NoPid
      BY <1>1, <1>2, <1>6 DEF Unborn, n, Launch
    <3>2. QED
      BY <1>6, <1>7, <3>1, ConstantsAssumption DEF Tells
  <2>3. \A k \in DOMAIN jobs' : (k \in DOMAIN jobs /\ jobs'[k] = jobs[k]) \/ jobs'[k] = j
    BY <1>1, <1>8
  <2>4. QED
    BY <2>1, <2>2, <2>3 DEF Told
<1>11. Taking'
  BY <1>8 DEF Taking, Holding, Waiting
<1>12. Answered'
  <2>1. w.own \in 0 .. launched'
    BY <1>1, <1>8 DEF AnswerInv, Answered, n
  <2>2. ASSUME w.ans # NoSt, w.own # 0
        PROVE  w.ans = hist'[w.own].st /\ Processes(w.own)' = {}
    <3>1. w.ans = hist[w.own].st /\ Processes(w.own) = {} /\ w.own \in 1 .. launched
      BY <1>1, <2>2 DEF AnswerInv, Answered
    <3>2. \A q \in Pid : proc'[q].own = proc[q].own \/ proc'[q].own = n
      BY <1>4
    <3>3. QED
      BY <1>2, <1>6, <1>8, <3>1, <3>2 DEF Processes
  <2>3. QED
    BY <1>8, <2>1, <2>2 DEF Answered
<1>13. QED
  BY <1>9, <1>10, <1>11, <1>12

\* What fg, or a wait for a job, reaps is the one process of the job it was
\* asked about, whose status it takes.
LEMMA ReapAnswers ==
  ASSUME AnswerInv, Shrinks, ~Interactive, NEW p \in Pid, FgReap(p) \/ JobReap(p)
  PROVE  Ends' /\ Told' /\ Taking' /\ Answered'
<1>1. /\ CountInv /\ TypeOK /\ IdsUnique /\ launched \in Nat /\ jobs \in Seq(Job) /\ w \in Work
      /\ Ends /\ Told /\ Taking /\ Answered
  BY DEF AnswerInv, ReportInv, MemInv, CountInv, Typed, TypeOK
<1>2. Ages
  BY <1>1, AgesIs DEF FgReap, JobReap
<1>3. SameEnds /\ launched' = launched
  BY <1>1, SameEndsIs DEF FgReap, JobReap
<1>4. PICK k \in DOMAIN jobs : \E i :
        /\ jobs[k].id = w.id /\ proc[p].own = jobs[k].uid
        /\ jobs' = [jobs EXCEPT ![k] = i] /\ Kin(jobs[k], i)
        /\ jobs[k].ndone # jobs[k].np
        /\ \/ /\ Stopped(p) /\ i.state = "stop" /\ i.ndone = jobs[k].ndone
              /\ \/ pc' = pc /\ w' = [w EXCEPT !.st = StopSt]
                 \/ pc' = "more" /\ w' = NoWork
           \/ /\ proc[p].ph = "zombie" /\ i.state = "run" /\ pc' = pc
              /\ w' = [w EXCEPT !.st = IF p = jobs[k].last THEN proc[p].st ELSE w.st]
  BY <1>1, ReapIs
<1>5. PICK i :
        /\ jobs[k].id = w.id /\ proc[p].own = jobs[k].uid
        /\ jobs' = [jobs EXCEPT ![k] = i] /\ Kin(jobs[k], i)
        /\ jobs[k].ndone # jobs[k].np
        /\ \/ /\ Stopped(p) /\ i.state = "stop" /\ i.ndone = jobs[k].ndone
              /\ \/ pc' = pc /\ w' = [w EXCEPT !.st = StopSt]
                 \/ pc' = "more" /\ w' = NoWork
           \/ /\ proc[p].ph = "zombie" /\ i.state = "run" /\ pc' = pc
              /\ w' = [w EXCEPT !.st = IF p = jobs[k].last THEN proc[p].st ELSE w.st]
  BY <1>4
<1>6. Turns
  BY <1>1, <1>5, TurnsIs
<1>7. Ends' /\ Told'
  BY <1>1, <1>2, <1>3, <1>6, EndsKept, ToldKept
<1>8. Answered'
  <2>1. \/ w'.ans = w.ans /\ w'.own = w.own
        \/ w'.ans = NoSt /\ w'.own = 0
    BY <1>1, <1>5 DEF Work, NoWork
  <2>2. 0 \in 0 .. launched
    BY <1>1
  <2>3. QED
    BY <1>1, <1>3, <2>1, <2>2, AnsweredKept
<1>9. Taking'
  <2>1. ASSUME NEW h \in DOMAIN jobs', Holding(jobs[h])'
        PROVE  /\ w'.own = jobs'[h].uid
               /\ jobs'[h].ndone = jobs'[h].np => w'.st = hist'[jobs'[h].uid].st
    <3>1. pc' = pc /\ w'.op = w.op /\ w'.id = w.id /\ w'.own = w.own
      BY <1>1, <1>5, <2>1 DEF Holding, Waiting, Work
    <3>2. h \in DOMAIN jobs /\ jobs'[h].id = jobs[h].id
      BY <1>1, <1>5 DEF Kin
    <3>3. h = k
      BY <1>1, <1>5, <2>1, <3>1, <3>2 DEF Holding, IdsUnique
    <3>4. jobs'[h] = i
      BY <1>1, <1>5, <3>3
    <3>5. Holding(jobs[k])
      BY <1>5, <2>1, <3>1, <3>2, <3>3 DEF Holding, Waiting
    <3>6. w.own = jobs[k].uid
      BY <1>1, <3>5 DEF Taking
    <3>7. ASSUME i.ndone = i.np PROVE w'.st = hist'[i.uid].st
      <4>1. /\ proc[p].ph = "zombie"
            /\ w' = [w EXCEPT !.st = IF p = jobs[k].last THEN proc[p].st ELSE w.st]
        BY <1>5, <3>1, <3>7 DEF Kin
      <4>2. p = jobs[k].last /\ jobs[k].uid \in Launch
        BY <1>1, <1>5, OneProcess
      <4>3. w'.st = proc[p].st
        BY <1>1, <4>1, <4>2 DEF Work
      <4>4. proc[p].st = hist[jobs[k].uid].st
        BY <1>1, <1>5, <4>1, <4>2 DEF Ends
      <4>5. QED
        BY <1>3, <1>5, <4>2, <4>3, <4>4 DEF Kin, SameEnds
    <3>8. QED
      BY <1>5, <3>1, <3>4, <3>6, <3>7 DEF Kin
  <2>2. QED
    BY <2>1 DEF Taking
<1>10. QED
  BY <1>7, <1>8, <1>9

\* A wait that ends has the status of the launch it was asked about.
LEMMA EndAnswers ==
  ASSUME AnswerInv, Shrinks, FgEnd \/ JobEnd
  PROVE  Ends' /\ Told' /\ Taking' /\ Answered'
<1>1. /\ CountInv /\ TypeOK /\ MemInv /\ launched \in Nat /\ jobs \in Seq(Job) /\ w \in Work
      /\ Ends /\ Told /\ Taking /\ Answered
  BY DEF AnswerInv, ReportInv, MemInv, CountInv, Typed, TypeOK
<1>2. proc' = proc /\ Ages /\ launched' = launched
  BY <1>1, AgesIs DEF FgEnd, JobEnd
<1>3. /\ Waiting /\ w.op \in {"fg", "pipe", "job"} /\ pc' \in {"end", "more"}
      /\ \E k \in DOMAIN jobs :
           /\ jobs[k].id = w.id
           /\ \/ \E i : /\ jobs' = [jobs EXCEPT ![k] = i] /\ Kin(jobs[k], i)
                        /\ i.state = "stop" /\ i.ndone = jobs[k].ndone
                        /\ jobs[k].state = "stop"
                        /\ w' = w /\ hist' = hist
              \/ /\ Drop(jobs, k) /\ Settled(jobs[k].uid, "told")
                 /\ jobs[k].ndone = jobs[k].np /\ w' = [w EXCEPT !.ans = w.st]
  BY <1>1, EndIs
<1>4. ~Waiting'
  BY <1>3 DEF Waiting
<1>5. PICK k \in DOMAIN jobs :
        /\ jobs[k].id = w.id
        /\ \/ \E i : /\ jobs' = [jobs EXCEPT ![k] = i] /\ Kin(jobs[k], i)
                     /\ i.state = "stop" /\ w' = w /\ hist' = hist
           \/ /\ jobs' = Without(jobs, k) /\ Settled(jobs[k].uid, "told")
              /\ jobs[k].ndone = jobs[k].np /\ w' = [w EXCEPT !.ans = w.st]
  BY <1>3 DEF Drop
<1>6. Turns /\ SameEnds
  BY <1>1, <1>5, TurnsIs, SameEndsIs
<1>7. CASE w' = w
  BY <1>2, <1>4, <1>6, <1>7, AsideAnswers
<1>8. CASE jobs[k].ndone = jobs[k].np /\ w' = [w EXCEPT !.ans = w.st]
  <2>1. w.own = jobs[k].uid /\ w.st = hist[jobs[k].uid].st
    BY <1>1, <1>3, <1>5, <1>8 DEF Taking, Holding
  <2>2. jobs[k].uid \in Launch /\ Processes(jobs[k].uid) = {}
    BY <1>1, <1>8, Uncounted, One DEF Processes, ProcsIn, Job
  <2>3. w'.ans = w.st /\ w'.own = w.own
    BY <1>1, <1>8 DEF Work
  <2>4. Processes(w.own)' = {}
    BY <1>2, <2>1, <2>2, <2>3 DEF Processes
  <2>5. Answered'
    BY <1>1, <1>2, <1>6, <2>1, <2>2, <2>3, <2>4 DEF Answered, SameEnds
  <2>6. Taking'
    BY <1>4 DEF Taking, Holding
  <2>7. QED
    BY <1>1, <1>2, <1>6, <2>5, <2>6, EndsKept, ToldKept
<1>9. QED
  BY <1>5, <1>7, <1>8

\* In a script a pid that finds a job means the launch the job is of.
LEMMA MeantIs ==
  ASSUME AnswerInv, ~Interactive, NEW p \in Pid
  PROVE  /\ Meant(p) \in 0 .. launched
         /\ ByPid(p, FALSE) # 0 => /\ ByPid(p, FALSE) \in DOMAIN jobs
                                   /\ Meant(p) = jobs[ByPid(p, FALSE)].uid
<1> DEFINE us == {u \in Launch : hist[u].tail = p}
           k == ByPid(p, FALSE)
<1>1. CountInv /\ Unborn /\ TypeOK /\ Told /\ Ends /\ launched \in Nat
  BY DEF AnswerInv, ReportInv, MemInv, CountInv, Typed, TypeOK
<1>2. us \in SUBSET Launch /\ Launch \subseteq Nat
  BY DEF Launch
<1>3. Meant(p) = IF us = {} THEN 0 ELSE CHOOSE u \in us : \A v \in us : v <= u
  BY DEF Meant
<1>4. us \subseteq 0 .. launched
  BY <1>1, ConstantsAssumption DEF Unborn, Launch
<1>5. ASSUME k # 0 PROVE k \in DOMAIN jobs /\ p = jobs[k].last
  <2>1. k \in DOMAIN jobs
    BY <1>1, <1>5, ByPidType
  <2>2. p \in Named(jobs[k]) \/ (p \in Child /\ jobs[k].pgid = proc[p].grp)
    <3> DEFINE named   == {h \in DOMAIN jobs : p \in {jobs[h].pgid, jobs[h].last}}
               grouped == {h \in DOMAIN jobs : /\ p \in Child /\ ~FALSE
                                               /\ jobs[h].pgid = proc[p].grp}
               hits    == IF named # {} THEN named ELSE grouped
    <3>1. hits \in SUBSET DOMAIN jobs /\ DOMAIN jobs \in SUBSET Nat
      BY <1>1 DEF TypeOK
    <3>2. k = IF hits = {} THEN 0 ELSE CHOOSE h \in hits : \A i \in hits : h <= i
      BY DEF ByPid
    <3>3. \A h \in hits : p \in Named(jobs[h]) \/ (p \in Child /\ jobs[h].pgid = proc[p].grp)
      BY DEF Named
    <3> HIDE DEF hits, k
    <3>4. hits # {} => \E h \in hits : \A i \in hits : h <= i
      BY <3>1, FirstExists
    <3>5. k \in hits
      BY <1>5, <3>2, <3>4
    <3>6. QED
      BY <3>3, <3>5
  <2> HIDE DEF k
  <2>3. Named(jobs[k]) = {jobs[k].last} /\ jobs[k].last \in Pid
    BY <1>1, <2>1, OneProcess
  <2>4. jobs[k].pgid = jobs[k].last
    BY <2>3 DEF Named
  <2>5. proc[p].grp \in {NoPid, p}
    BY <1>1 DEF Ends
  <2>6. QED
    BY <2>1, <2>2, <2>3, <2>4, <2>5, ConstantsAssumption
<1>6. ASSUME NEW h \in DOMAIN jobs, p = jobs[h].last
      PROVE  jobs[h].uid \in us /\ \A v \in us : v <= jobs[h].uid
  <2>1. Tells(hist, jobs[h]) /\ jobs[h].uid \in Launch
    BY <1>1, One DEF Told, Job
  <2>2. jobs[h].uid \in us
    BY <1>6, <2>1 DEF Tells
  <2>3. ASSUME NEW v \in us PROVE v <= jobs[h].uid
    <3>1. v \in Launch /\ v \in Nat /\ jobs[h].uid \in Nat /\ hist[v].tail = jobs[h].last
      BY <1>2, <1>6, <2>1
    <3>2. ~(v > jobs[h].uid)
      BY <2>1, <3>1 DEF Tells
    <3>3. QED
      BY <3>1, <3>2
  <2>4. QED
    BY <2>2, <2>3
<1> HIDE DEF us, k
<1>7. us # {} => Meant(p) \in us /\ \A v \in us : v <= Meant(p)
  BY <1>2, <1>3, LastExists
<1>8. Meant(p) \in 0 .. launched
  <2>1. CASE us = {}
    BY <1>1, <1>3, <2>1
  <2>2. CASE us # {}
    BY <1>4, <1>7, <2>2
  <2>3. QED
    BY <2>1, <2>2
<1>9. ASSUME k # 0 PROVE k \in DOMAIN jobs /\ Meant(p) = jobs[k].uid
  <2>1. jobs[k].uid \in us /\ \A v \in us : v <= jobs[k].uid
    BY <1>5, <1>6, <1>9
  <2>2. Meant(p) \in us /\ jobs[k].uid <= Meant(p) /\ Meant(p) <= jobs[k].uid
    BY <1>7, <2>1
  <2>3. Meant(p) \in Nat /\ jobs[k].uid \in Nat
    BY <1>2, <2>1, <2>2
  <2>4. Meant(p) = jobs[k].uid
    BY <2>2, <2>3
  <2>5. QED
    BY <1>5, <1>9, <2>4
<1>10. QED
  BY <1>8, <1>9 DEF k

\* One operand of wait: the status of a finished job, or a wait for one that
\* is not.
LEMMA OperandAnswers ==
  ASSUME AnswerInv, Shrinks, NEW k, k = 0 \/ k \in DOMAIN jobs, NEW arg \in Work,
         arg.ans = NoSt, arg.own \in 0 .. launched, k # 0 => arg.own = jobs[k].uid,
         Operand(k, arg), WaitStart, proc' = proc, launched' = launched
  PROVE  Ends' /\ Told' /\ Taking' /\ Answered'
<1>1. /\ CountInv /\ TypeOK /\ IdsUnique /\ Reported /\ launched \in Nat
      /\ Ends /\ Told /\ Answered /\ jobs \in Seq(Job)
  BY DEF AnswerInv, ReportInv, MemInv, CountInv, Typed, TypeOK
<1>2. Ages
  BY <1>1, AgesIs
<1>3. ~Waiting
  BY DEF WaitStart, Ready, Waiting
<1>4. CASE /\ jobs' = jobs /\ hist' = hist
           /\ w' = NoWork \/ w' = [arg EXCEPT !.op = "pid"]
  <2>1. /\ w'.ans = NoSt /\ w'.own \in 0 .. launched
        /\ w'.op \notin {"fg", "pipe", "job"}
    BY <1>1, <1>4 DEF NoWork, Work
  <2>2. Turns /\ SameEnds
    BY <1>1, <1>4, TurnsIs, SameEndsIs
  <2>3. QED
    BY <1>2, <2>1, <2>2, AsideAnswers
<1>5. CASE /\ k # 0 /\ jobs[k].state = "done"
           /\ pc' = "more" /\ w' = [arg EXCEPT !.ans = jobs[k].st]
           /\ Drop(jobs, k) /\ Settled(jobs[k].uid, "told")
  <2>1. Turns /\ SameEnds
    BY <1>1, <1>5, TurnsIs, SameEndsIs DEF Drop
  <2>2. jobs[k].st = hist[jobs[k].uid].st /\ jobs[k].uid \in Launch
    BY <1>1, <1>5, One DEF Told, Tells, Job
  <2>3. Processes(jobs[k].uid) = {}
    BY <1>1, <1>5, NoneLeft DEF Processes, ProcsIn
  <2>4. w'.ans = jobs[k].st /\ w'.own = jobs[k].uid
    BY <1>5 DEF Work
  <2>5. Processes(w.own)' = {}
    BY <2>3, <2>4 DEF Processes
  <2>6. Answered'
    BY <1>5, <2>1, <2>2, <2>4, <2>5 DEF Answered, SameEnds
  <2>7. Taking'
    BY <1>5 DEF Taking, Holding, Waiting
  <2>8. QED
    BY <1>1, <1>2, <2>1, <2>6, <2>7, EndsKept, ToldKept
<1>6. CASE /\ k # 0 /\ jobs[k].state = "run"
           /\ w' = [arg EXCEPT !.op = "job", !.id = jobs[k].id]
           /\ jobs' = jobs /\ hist' = hist
  <2>1. w'.ans = NoSt /\ w'.own = jobs[k].uid /\ w'.own \in 0 .. launched /\ w'.id = jobs[k].id
    BY <1>6 DEF Work
  <2>2. Turns /\ SameEnds
    BY <1>1, <1>6, TurnsIs, SameEndsIs
  <2>3. Taking'
    <3>1. ASSUME NEW h \in DOMAIN jobs, jobs[h].id = w'.id
          PROVE  w'.own = jobs[h].uid /\ jobs[h].ndone # jobs[h].np
      <4>1. h = k
        BY <1>1, <1>6, <2>1, <3>1 DEF IdsUnique
      <4>2. Sound(jobs[k])
        BY <1>1, <1>3, <1>6, Unheld DEF Holding
      <4>3. QED
        BY <1>6, <2>1, <4>1, <4>2 DEF Sound
    <3>2. QED
      BY <1>6, <3>1 DEF Taking, Holding
  <2>4. QED
    BY <1>1, <1>2, <2>1, <2>2, <2>3, EndsKept, ToldKept, AnsweredKept
<1>7. QED
  BY <1>4, <1>5, <1>6 DEF Operand

LEMMA ListAnswers ==
  ASSUME AnswerInv, Shrinks, ~Interactive,
         (\E id \in Launch : WaitJob(id)) \/ (\E p \in Pid : WaitPid(p))
  PROVE  Ends' /\ Told' /\ Taking' /\ Answered'
<1>1. CountInv /\ launched \in Nat
  BY DEF AnswerInv, ReportInv, MemInv, CountInv, Typed, TypeOK
<1>2. ASSUME NEW id \in Launch, WaitJob(id)
      PROVE  Ends' /\ Told' /\ Taking' /\ Answered'
  <2> DEFINE k == IF HasJob(id) THEN At(id) ELSE 0
             own == IF k = 0 THEN 0 ELSE jobs[k].uid
             arg == [NoWork EXCEPT !.own = own]
  <2>1. k = 0 \/ k \in DOMAIN jobs
    BY AtType
  <2>2. Operand(k, arg) /\ WaitStart /\ proc' = proc /\ launched' = launched
    BY <1>2 DEF WaitJob
  <2> HIDE DEF k
  <2>3. own \in 0 .. launched /\ own \in Owner
    <3>1. \A h \in DOMAIN jobs : jobs[h].uid \in 1 .. launched /\ jobs[h].uid \in Launch
      BY <1>1, One DEF Owned, Job
    <3>2. CASE k = 0
      BY <1>1, <3>2, Sets
    <3>3. CASE k # 0
      BY <1>1, <2>1, <3>1, <3>3, Sets
    <3>4. QED
      BY <3>2, <3>3
  <2> HIDE DEF own
  <2>4. arg \in Work /\ arg.ans = NoSt /\ arg.own = own
    BY <2>3, NoWorkType, WorkType DEF NoWork
  <2>5. k # 0 => arg.own = jobs[k].uid
    BY <2>4 DEF own
  <2> HIDE DEF arg
  <2>6. QED
    BY <2>1, <2>2, <2>3, <2>4, <2>5, OperandAnswers
<1>3. ASSUME NEW p \in Pid, WaitPid(p)
      PROVE  Ends' /\ Told' /\ Taking' /\ Answered'
  <2> DEFINE k == ByPid(p, FALSE)
             own == Meant(p)
             arg == [NoWork EXCEPT !.pid = p, !.own = own]
  <2>1. own \in 0 .. launched /\ (k # 0 => k \in DOMAIN jobs /\ own = jobs[k].uid)
    BY MeantIs
  <2>2. Operand(k, arg) /\ WaitStart /\ proc' = proc /\ launched' = launched
    BY <1>3 DEF WaitPid
  <2>3. own \in Owner /\ p \in Maybe
    BY MeantType DEF Maybe
  <2> HIDE DEF k, own
  <2>4. arg \in Work /\ arg.ans = NoSt /\ arg.own = own
    BY <2>3, NoWorkType DEF NoWork, Work
  <2> HIDE DEF arg
  <2>5. QED
    BY <2>1, <2>2, <2>4, OperandAnswers
<1>4. QED
  BY <1>2, <1>3

\* A pid asked for by itself: its exit is the launch's if the launch had it.
LEMMA PidAnswers ==
  ASSUME AnswerInv, Shrinks, PidRound
  PROVE  Ends' /\ Told' /\ Taking' /\ Answered'
<1>1. /\ CountInv /\ TypeOK /\ launched \in Nat /\ w \in Work /\ Waiting
      /\ Ends /\ Told /\ Answered /\ HeldJob /\ w.op = "pid"
  BY DEF AnswerInv, ReportInv, MemInv, CountInv, Typed, TypeOK, PidRound, Rounds, Waiting
<1>2. w.pid \in Pid
  BY <1>1 DEF HeldJob, Work, Maybe
<1>3. jobs' = jobs /\ hist' = hist /\ launched' = launched
  BY DEF PidRound, Doze
<1>4. Turns /\ SameEnds
  BY <1>1, <1>3, TurnsIs, SameEndsIs
<1>5. CASE /\ proc[w.pid].ph = "zombie"
           /\ proc' = [proc EXCEPT ![w.pid] = Free]
           /\ w' = [w EXCEPT !.ans = proc[w.pid].st,
                            !.own = IF proc[w.pid].own = @ THEN @ ELSE 0]
           /\ pc' = "more"
  <2>1. Ages
    BY <1>1, <1>2, <1>5, AgesIs
  <2>2. /\ w'.ans = proc[w.pid].st
        /\ w'.own = IF proc[w.pid].own = w.own THEN w.own ELSE 0
    BY <1>1, <1>5 DEF Work
  <2>3. ASSUME w'.own # 0 PROVE w'.ans = hist[w'.own].st /\ Processes(w.own)' = {}
    <3>1. w'.own = w.own /\ proc[w.pid].own = w.own /\ w.own \in Launch
      BY <1>1, <2>2, <2>3, ConstantsAssumption DEF Answered, Launch, TypeOK
    <3>2. hist[w.own].tail = w.pid /\ proc[w.pid].st = hist[w.own].st
      BY <1>1, <1>2, <1>5, <3>1 DEF Ends
    <3>3. ASSUME NEW q \in Pid PROVE proc'[q].own # w.own
      <4>1. CASE q = w.pid
        BY <1>1, <1>2, <1>5, <2>3, <3>1, <4>1 DEF TypeOK, Free
      <4>2. CASE q # w.pid
        BY <1>1, <1>2, <1>5, <3>1, <3>2, <4>2 DEF TypeOK, Ends
      <4>3. QED
        BY <4>1, <4>2
    <3>4. QED
      BY <2>2, <3>1, <3>2, <3>3 DEF Processes
  <2>4. w'.own \in 0 .. launched'
    BY <1>1, <1>3, <2>2 DEF Answered
  <2>5. Answered'
    BY <1>3, <2>3, <2>4 DEF Answered
  <2>6. Taking'
    BY <1>5 DEF Taking, Holding, Waiting
  <2>7. QED
    BY <1>1, <1>4, <2>1, <2>5, <2>6, EndsKept, ToldKept
<1>6. CASE /\ w' = [w EXCEPT !.own = 0, !.st = NotChild]
           /\ pc' = "more" /\ proc' = proc
  <2>1. Ages /\ ~Waiting' /\ w'.ans = w.ans /\ w'.own = 0
    BY <1>1, <1>6, AgesIs DEF Waiting, Work
  <2>2. QED
    BY <1>3, <1>4, <2>1, AsideAnswers
<1>7. CASE Doze
  <2>1. Ages /\ w' = w
    BY <1>1, <1>7, AgesIs DEF Doze
  <2>2. QED
    BY <1>1, <1>3, <1>4, <2>1, AsideAnswers
<1>8. QED
  BY <1>5, <1>6, <1>7 DEF PidRound

\* wait -n answers the exit it reaped, and wait none.
LEMMA AnyAnswers ==
  ASSUME AnswerInv, Shrinks, ~Interactive, NEW p \in Pid, AnyReap(p)
  PROVE  Ends' /\ Told' /\ Taking' /\ Answered'
<1>1. /\ CountInv /\ TypeOK /\ launched \in Nat /\ w \in Work /\ Reported
      /\ Ends /\ Told /\ Answered
  BY DEF AnswerInv, ReportInv, MemInv, CountInv, Typed, TypeOK
<1>2. /\ w.op \in {"n", "all"} /\ launched' = launched
      /\ proc' = [proc EXCEPT ![p] = Taken(p)]
  BY DEF AnyReap, Rounds
<1>3. PICK k \in DOMAIN jobs :
        /\ proc[p].own = jobs[k].uid
        /\ \/ proc[p].ph = "zombie" /\ Drop(jobs, k)
           \/ \E i : /\ jobs' = [jobs EXCEPT ![k] = i] /\ Kin(jobs[k], i)
                     /\ i.state \in {"run", "stop"}
                     /\ Stopped(p) \/ proc[p].ph = "zombie"
  BY <1>1, AnyIs
<1>4. Ages
  BY <1>1, <1>2, AgesIs
<1>5. SameEnds
  BY <1>1, SameEndsIs DEF AnyReap
<1>6. Turns
  BY <1>1, <1>3, TurnsIs DEF Drop
<1>7. CASE w' = w
  BY <1>2, <1>4, <1>5, <1>6, <1>7, AsideAnswers
<1>8. CASE pc' = "end" /\ w' = NoWork
  <2>1. ~Waiting' /\ w'.ans = NoSt /\ w'.own \in 0 .. launched
    BY <1>1, <1>8 DEF Waiting, NoWork
  <2>2. QED
    BY <1>2, <1>4, <1>5, <1>6, <2>1, AsideAnswers
<1>9. CASE /\ ~Stopped(p) /\ pc' = "end"
           /\ w' = [w EXCEPT !.own = proc[p].own, !.ans = proc[p].st]
  <2>1. proc[p].ph = "zombie" /\ jobs[k].uid \in Launch
    BY <1>1, <1>3, <1>9, One DEF Job
  <2>2. w'.own = jobs[k].uid /\ w'.ans = proc[p].st
    BY <1>1, <1>3, <1>9 DEF Work
  <2>3. proc[p].st = hist[jobs[k].uid].st
    BY <1>1, <1>3, <2>1 DEF Ends
  <2>4. ASSUME NEW q \in Pid PROVE proc'[q].own # jobs[k].uid
    <3>1. CASE q = p
      BY <1>1, <1>2, <2>1, <3>1 DEF TypeOK, Taken, Free, Launch
    <3>2. CASE q # p
      BY <1>1, <1>2, <1>3, <2>1, <3>2 DEF TypeOK, Ends
    <3>3. QED
      BY <3>1, <3>2
  <2>5. Processes(w.own)' = {}
    BY <2>2, <2>4 DEF Processes
  <2>6. jobs[k].uid \in 0 .. launched
    BY <1>1, One DEF Owned
  <2>7. Answered'
    BY <1>2, <1>5, <2>1, <2>2, <2>3, <2>5, <2>6 DEF Answered, SameEnds
  <2>8. Taking'
    BY <1>9 DEF Taking, Holding, Waiting
  <2>9. QED
    BY <1>1, <1>4, <1>5, <1>6, <2>7, <2>8, EndsKept, ToldKept
<1>10. QED
  BY <1>7, <1>8, <1>9 DEF AnyReap

\* One step per action; a script has no foreground jobs and no prompt.
LEMMA StepAnswers ==
  ASSUME Steady, ~Interactive, ~ResumeDone, AnswerInv, [Next]_vars
  PROVE  AnswerInv'
<1>1. ReportInv'
  BY StepReports DEF AnswerInv
<1>2. Shrinks /\ ~Recycle
  BY StepMoves DEF AnswerInv, ReportInv, Steady
<1>3. Ends' /\ Told' /\ Taking' /\ Answered'
  <2>1. CASE Kernel
    BY <1>2, <2>1, KernelAnswers
  <2>2. CASE UNCHANGED vars
    BY <1>2, <2>2, QuietAnswers
  <2>3. CASE Start
    <3>1. ~Prompt /\ \A ps : ~Foreground(ps)
      BY DEF Prompt, Foreground
    <3>2. CASE Background \/ CmdJobs
      BY <1>2, <3>2, PollAnswers
    <3>3. CASE Command \/ RunTraps \/ \E mode \in {"n", "all"} : WaitAny(mode)
      BY <1>2, <3>3, QuietAnswers
    <3>4. CASE \E id \in Launch : \/ CmdFg(id) \/ CmdBg(id) \/ CmdDisown(id)
                                  \/ \E s \in {"TERM", "STOP", "CONT"} : CmdKill(id, s)
      BY <1>2, <3>4, CommandAnswers
    <3>5. CASE (\E id \in Launch : WaitJob(id)) \/ (\E p \in Pid : WaitPid(p))
      BY <1>2, <3>5, ListAnswers
    <3>6. QED
      BY <2>3, <3>1, <3>2, <3>3, <3>4, <3>5 DEF Start
  <2>4. CASE Continue
    <3>1. CASE \/ TidyForget \/ TidyEnd \/ ForkFails \/ Walk \/ WalkEnd \/ WaitEnd
               \/ WaitTrapped \/ JobDoze \/ Wake \/ CmdEnd \/ AnyQuiet
      BY <1>2, <3>1, QuietAnswers
    <3>2. CASE \E p \in Pid : Fork(p) \/ FgReap(p) \/ JobReap(p) \/ AnyReap(p)
      BY <1>2, <3>2, ForkAnswers, ReapAnswers, AnyAnswers
    <3>3. CASE FgEnd \/ JobEnd
      BY <1>2, <3>3, EndAnswers
    <3>4. CASE PidRound
      BY <1>2, <3>4, PidAnswers
    <3>5. CASE CmdPoll
      BY <1>2, <3>5, PollAnswers
    <3>6. QED
      BY <2>4, <3>1, <3>2, <3>3, <3>4, <3>5 DEF Continue
  <2>5. QED
    BY <2>1, <2>2, <2>3, <2>4 DEF Next
<1>4. QED
  BY <1>1, <1>3 DEF AnswerInv

LEMMA InitAnswers == Init => AnswerInv
<1> SUFFICES ASSUME Init PROVE AnswerInv
  OBVIOUS
<1>1. ReportInv
  BY InitReports
<1>2. Ends
  BY ConstantsAssumption DEF Init, Ends, Free, Launch
<1>3. Told /\ Taking
  BY DEF Init, Told, Taking
<1>4. Answered
  BY DEF Init, Answered, NoWork
<1>5. QED
  BY <1>1, <1>2, <1>3, <1>4 DEF AnswerInv

\* What wait, wait -n and fg answer for a job of a script is the status its
\* process exited with, whichever of a poll, a wait for the job, for its pid
\* or for any reaped it, and however many jobs came and went in between.
THEOREM WaitAnswersCorrect ==
  ASSUME Steady, ~Interactive, ~ResumeDone
  PROVE  Spec => []WaitAnswers
<1>1. AnswerInv /\ [Next]_vars => AnswerInv'
  BY StepAnswers
<1>2. AnswerInv => WaitAnswers
  BY DEF AnswerInv, Answered, WaitAnswers
<1>3. QED
  BY <1>1, <1>2, InitAnswers, PTL DEF Spec
=============================================================================

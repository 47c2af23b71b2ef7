----------------------------- MODULE JobControl -----------------------------
(***************************************************************************)
(* The job table of src/job.c, the commands that read and change it, and   *)
(* the kernel's process table they consult through fork, waitpid and kill. *)
(*                                                                         *)
(* The shell is one thread: between two of its system calls any child may  *)
(* stop, continue, leave its process group or exit, a trapped signal may   *)
(* arrive, and the pid of a reaped child may be handed out again.  So a    *)
(* command whose code makes one system call after another is several       *)
(* actions here, one per call, and `pc' says where in the command it is.   *)
(***************************************************************************)
EXTENDS Naturals, Sequences, FiniteSets

CONSTANTS
  Pid,          \* the process ids the kernel hands out
  NoPid,        \* no process; as a group, the shell's own process group
  Status,       \* the exit statuses children end with
  Interactive,  \* TRUE: an interactive shell with a terminal (job control)
  JKeep,        \* HIBR_JKEEP: finished jobs a script keeps the status of
  MaxLaunch,    \* bound: jobs launched in a behaviour
  MaxStages,    \* bound: processes of one foreground pipeline
  Stops,        \* TRUE: children are stopped and continued by signals
  Leavers,      \* processes that may move themselves to the shell's group
  Traps,        \* TRUE: signals the script traps arrive
  Modules,      \* TRUE: modules fork children of their own (pty, coproc)
  Recycle,      \* TRUE: a pid the job table still names is handed out again
  ResumeDone    \* TRUE: fg and bg are used on a job that already finished

StopSt   == 148   \* 128 + SIGTSTP
TrapSt   == 138   \* 128 + the trapped signal
NotChild == 127   \* what wait answers for a pid that is not a child
NoSt     == 256   \* no status yet
St       == 0..255
Answer   == St \cup {NoSt}

ASSUME ConstantsAssumption ==
  /\ IsFiniteSet(Pid) /\ NoPid \notin Pid
  /\ Status \subseteq St
  /\ JKeep \in Nat
  /\ MaxLaunch \in Nat \ {0}
  /\ MaxStages \in Nat \ {0}
  /\ Leavers \subseteq Pid
  /\ {Interactive, Stops, Traps, Modules, Recycle, ResumeDone} \subseteq BOOLEAN

Launch == 1..MaxLaunch
Module == MaxLaunch + 1   \* the owner of a child a module forked
Owner  == 0..Module       \* 0: nobody
Maybe  == Pid \cup {NoPid}

VARIABLES
  proc,      \* the kernel's table: what each pid names
  jobs,      \* s->jobs, the table in the order the code keeps it
  jid,       \* s->jid, the last job number given out
  jcur,      \* s->jcur, the job %+ names
  jprv,      \* s->jprv, the job %- names
  pc,        \* where the shell is
  w,         \* the locals of the command that is running
  chld,      \* jc_chld: a child has changed state since the last poll
  intr,      \* a signal is pending for the thread asleep in pselect
  sig,       \* a trapped signal has arrived and its trap has not run
  launched,  \* how many jobs were launched (names each launch)
  hist       \* history: each launch's last process, the status it ended
             \* with, and whether the shell still owes an answer for it

vars == <<proc, jobs, jid, jcur, jprv, pc, w, chld, intr, sig, launched, hist>>

shell == <<jid, jcur, jprv>>

PC == {"idle", "tidy", "fork", "ask", "sleep", "more", "list", "report",
       "end", "poll"}

Job == [id : Nat, bg : BOOLEAN, state : {"run", "stop", "done"}, np : Nat,
        ndone : Nat, st : St, note : BOOLEAN, pgid : Maybe,
        last : Maybe, uid : Launch]

Past == [tail : Maybe, st : Answer,
         owed : {"yes", "told", "disowned"}]

Process == [ph : {"free", "run", "stop", "zombie"}, grp : Maybe,
            st : St, told : BOOLEAN, own : Owner]

(* The locals: op is the command, id and pid what it names, i its loop     *)
(* index, st its running status; own and ans are history: the launch the   *)
(* command was asked about and the status it answered for it.              *)
Ops  == {"none", "fg", "pipe", "job", "pid", "n", "all"}
Work == [op : Ops, id : Nat, pid : Maybe, i : Nat \ {0}, st : St, own : Owner,
         ans : Answer]

Free == [ph |-> "free", grp |-> NoPid, st |-> 0, told |-> FALSE, own |-> 0]

NoWork == [op |-> "none", id |-> 0, pid |-> NoPid, i |-> 1, st |-> 0,
           own |-> 0, ans |-> NoSt]

Init ==
  /\ proc = [p \in Pid |-> Free]
  /\ jobs = <<>>
  /\ jid = 0 /\ jcur = 0 /\ jprv = 0
  /\ pc = "idle"
  /\ w = NoWork
  /\ chld = FALSE /\ intr = FALSE /\ sig = FALSE
  /\ launched = 0
  /\ hist = [u \in Launch |-> [tail |-> NoPid, st |-> NoSt, owed |-> "yes"]]

-----------------------------------------------------------------------------
(* The kernel's side of waitpid and kill. *)

Child   == {p \in Pid : proc[p].ph # "free"}
Live(p) == proc[p].ph \in {"run", "stop"}

\* What waitpid(.., WNOHANG | WUNTRACED) can report: an exit, or a stop not
\* reported before.
Stopped(p) == proc[p].ph = "stop"
News(S) == {p \in S : proc[p].ph = "zombie" \/ (Stopped(p) /\ ~proc[p].told)}

\* waitpid takes what it reports: a zombie's pid is free again.
Taken(p) == IF proc[p].ph = "zombie" THEN Free
            ELSE [proc[p] EXCEPT !.told = TRUE]
Continued(S) == [p \in Pid |->
                   IF p \in S /\ proc[p].ph = "stop"
                   THEN [proc[p] EXCEPT !.ph = "run", !.told = FALSE]
                   ELSE proc[p]]
Halted(S) == [p \in Pid |->
                IF p \in S /\ proc[p].ph = "run"
                THEN [proc[p] EXCEPT !.ph = "stop", !.told = FALSE]
                ELSE proc[p]]

\* A pid fork can return: unused, no process group bears it, and, unless
\* Recycle, no job in the table still remembers it.
FreshPid(p) ==
  /\ proc[p].ph = "free"
  /\ \A q \in Child : proc[q].grp # p
  /\ Recycle \/ \A k \in DOMAIN jobs : p \notin {jobs[k].last, jobs[k].pgid}

(* The job table. *)

HasJob(id) == \E k \in DOMAIN jobs : jobs[k].id = id
At(id)     == CHOOSE k \in DOMAIN jobs : jobs[k].id = id
DoneJobs   == {k \in DOMAIN jobs : jobs[k].state = "done"}

MutWho(j) == Child   \* a plausible slip: waitpid(-1)

\* jc_who: the children a wait or a signal for a job reaches.
Who(j) == IF Interactive THEN {p \in Child : proc[p].grp = j.pgid}
          ELSE Child \cap {j.last}

\* jc_anyone and jc_waitjob go on to the last process's own pid when the
\* group has no child left.
Ask(j) == IF Interactive /\ Who(j) = {} THEN Child \cap {j.last} ELSE Who(j)

\* jc_bypid: the first job that remembers p as its group or its last
\* process, else the first whose group p is in, else none.  A process that
\* was just reaped is in no group: getpgid fails.
ByPid(p, reaped) ==
  LET named   == {k \in DOMAIN jobs : p \in {jobs[k].pgid, jobs[k].last}}
      grouped == {k \in DOMAIN jobs : /\ p \in Child /\ ~reaped
                                      /\ jobs[k].pgid = proc[p].grp}
      hits    == IF named # {} THEN named ELSE grouped
  IN  IF hits = {} THEN 0 ELSE CHOOSE k \in hits : \A h \in hits : k <= h

\* jc_drop: the last job moves into the slot, and %+ falls back on %-.
Without(js, k) == [i \in 1..(Len(js) - 1) |-> IF i = k THEN js[Len(js)] ELSE js[i]]
Drop(js, k) ==
  /\ jobs' = Without(js, k)
  /\ jcur' = IF jcur = js[k].id THEN jprv ELSE jcur
  /\ UNCHANGED <<jid, jprv>>

\* History: the shell answered for launch u, or was told to forget it.
Settled(u, how) ==
  hist' = [v \in Launch |-> IF v = u THEN [hist[v] EXCEPT !.owed = how] ELSE hist[v]]

\* Slips: the record is not cleared; the number is the table's length.
MutFreshDirty(ps, bg) ==
  [id |-> (IF jobs = <<>> THEN 0 ELSE jid) + 1, bg |-> bg, state |-> "run",
   np |-> Len(ps), ndone |-> 0, st |-> NoSt, note |-> FALSE,
   pgid |-> ps[1], last |-> ps[Len(ps)], uid |-> launched + 1]
MutFreshLength(ps, bg) ==
  [id |-> Len(jobs) + 1, bg |-> bg, state |-> "run",
   np |-> Len(ps), ndone |-> 0, st |-> 0, note |-> FALSE,
   pgid |-> ps[1], last |-> ps[Len(ps)], uid |-> launched + 1]

\* jc_new.
Fresh(ps, bg) ==
  [id |-> (IF jobs = <<>> THEN 0 ELSE jid) + 1, bg |-> bg, state |-> "run",
   np |-> Len(ps), ndone |-> 0, st |-> 0, note |-> FALSE,
   pgid |-> ps[1], last |-> ps[Len(ps)], uid |-> launched + 1]

\* What jc_poll makes of job k: it drains every report of the job's group.
\* `late' says whether a stop is reported after the exits or before them.
Claim(k) ==
  IF jobs[k].state = "done" THEN {}
  ELSE News({p \in Who(jobs[k]) : \A h \in 1..(k - 1) :
               jobs[h].state = "done" \/ p \notin Who(jobs[h])})
\* The status a poll leaves: the last report decides.
MutPolledStatus(j, exits, stops, late) == IF stops # {} THEN StopSt ELSE j.st
PolledStatus(j, exits, stops, late) ==
  IF j.last \in exits /\ (stops = {} \/ ~late) THEN proc[j.last].st
  ELSE IF stops # {} THEN StopSt ELSE j.st
Polled(k, late) ==
  LET j     == jobs[k]
      stops == {p \in Claim(k) : Stopped(p)}
      exits == Claim(k) \ stops
      nd    == j.ndone + Cardinality(exits)
      over  == exits # {} /\ nd >= j.np
  IN  [j EXCEPT
        !.ndone = nd,
        !.state = IF over THEN "done" ELSE IF stops # {} THEN "stop" ELSE j.state,
        !.st    = PolledStatus(j, exits, stops, late),
        !.note  = j.note /\ ~over /\ (stops = {} \/ j.state = "stop")]

\* jc_poll(s, 0).
Poll ==
  /\ \E late \in BOOLEAN : jobs' = [k \in DOMAIN jobs |-> Polled(k, late)]
  /\ proc' = [p \in Pid |-> IF \E k \in DOMAIN jobs : p \in Claim(k)
                            THEN Taken(p) ELSE proc[p]]

-----------------------------------------------------------------------------
(* Children, the kernel and the modules. *)

Waiting == pc \in {"ask", "sleep"}

\* SIGCHLD: its handler sets jc_chld whichever thread takes it, but only the
\* waiting thread's own copy wakes its pselect.
Sigchld ==
  /\ chld' = TRUE
  /\ intr' \in IF Waiting THEN {TRUE, intr} ELSE {intr}

KExit(p, s) ==
  /\ Live(p)
  /\ proc' = [proc EXCEPT ![p].ph = "zombie", ![p].st = s, ![p].told = FALSE]
  /\ hist' = [u \in Launch |-> IF u = proc[p].own /\ hist[u].tail = p
                               THEN [hist[u] EXCEPT !.st = s] ELSE hist[u]]
  /\ Sigchld
  /\ UNCHANGED <<jobs, shell, pc, w, sig, launched>>

KStop(p) ==
  /\ Stops
  /\ proc[p].ph = "run"
  /\ proc' = Halted({p})
  /\ Sigchld
  /\ UNCHANGED <<jobs, shell, pc, w, sig, launched, hist>>

KCont(p) ==
  /\ Stops
  /\ Stopped(p)
  /\ proc' = Continued({p})
  /\ UNCHANGED <<jobs, shell, pc, w, chld, intr, sig, launched, hist>>

KLeave(p) ==
  /\ p \in Leavers
  /\ proc[p].ph = "run"
  /\ proc[p].grp # NoPid
  /\ proc' = [proc EXCEPT ![p].grp = NoPid]
  /\ UNCHANGED <<jobs, shell, pc, w, chld, intr, sig, launched, hist>>

\* A signal the script traps arrives.
KSignal ==
  /\ Traps
  /\ ~sig
  /\ sig' = TRUE
  /\ intr' = (intr \/ Waiting)
  /\ UNCHANGED <<proc, jobs, shell, pc, w, chld, launched, hist>>

\* A module forks a child into a session of its own, and later reaps it.
ModFork(p) ==
  /\ Modules
  /\ pc = "idle"
  /\ FreshPid(p)
  /\ \A q \in Pid : proc[q].own # Module
  /\ proc' = [proc EXCEPT ![p] = [ph |-> "run", grp |-> p, st |-> 0,
                                  told |-> FALSE, own |-> Module]]
  /\ UNCHANGED <<jobs, shell, pc, w, chld, intr, sig, launched, hist>>

ModReap(p) ==
  /\ pc = "idle"
  /\ proc[p].own = Module
  /\ proc[p].ph = "zombie"
  /\ proc' = [proc EXCEPT ![p] = Free]
  /\ UNCHANGED <<jobs, shell, pc, w, chld, intr, sig, launched, hist>>

-----------------------------------------------------------------------------
(* Launching. *)

\* ex() runs pending traps before each command, so none is pending when a
\* command starts.
Ready == pc = "idle" /\ ~sig

\* `cmd &': ex_bg reaps what finished before it forks.
Background ==
  /\ Ready
  /\ launched < MaxLaunch
  /\ IF jobs = <<>> THEN pc' = "fork" /\ UNCHANGED <<proc, jobs>>
     ELSE pc' = "tidy" /\ Poll
  /\ UNCHANGED <<shell, w, chld, intr, sig, launched, hist>>

MutTidyForget ==     \* a slip: the newest instead
  /\ pc = "tidy"
  /\ ~Interactive /\ Cardinality(DoneJobs) > JKeep
  /\ \E k \in DoneJobs :
       /\ \A h \in DoneJobs : jobs[h].id <= jobs[k].id
       /\ Drop(jobs, k)
  /\ UNCHANGED <<proc, pc, w, chld, intr, sig, launched, hist>>

\* jc_tidy, one turn of its loop: the oldest finished job is forgotten.
TidyForget ==
  /\ pc = "tidy"
  /\ ~Interactive /\ Cardinality(DoneJobs) > JKeep
  /\ \E k \in DoneJobs :
       /\ \A h \in DoneJobs : jobs[k].id <= jobs[h].id
       /\ Drop(jobs, k)
  /\ UNCHANGED <<proc, pc, w, chld, intr, sig, launched, hist>>

TidyEnd ==
  /\ pc = "tidy"
  /\ Interactive \/ Cardinality(DoneJobs) <= JKeep
  /\ pc' = "fork"
  /\ UNCHANGED <<proc, jobs, shell, w, chld, intr, sig, launched, hist>>

\* The processes ps start as one job: every stage joins the first one's
\* group under job control, and stays in the shell's without it.
Started(ps) ==
  /\ launched' = launched + 1
  /\ hist' = [hist EXCEPT ![launched + 1].tail = ps[Len(ps)]]
  /\ proc' = [p \in Pid |->
                IF \E i \in DOMAIN ps : ps[i] = p
                THEN [ph |-> "run", st |-> 0, told |-> FALSE,
                      grp |-> IF Interactive THEN ps[1] ELSE NoPid,
                      own |-> launched + 1]
                ELSE proc[p]]

Added(j) ==
  /\ jobs' = Append(jobs, j)
  /\ jid' = j.id
  /\ jprv' = jcur
  /\ jcur' = j.id

Fork(p) ==
  /\ pc = "fork"
  /\ FreshPid(p)
  /\ Started(<<p>>)
  /\ Added(Fresh(<<p>>, TRUE))
  /\ pc' = "idle"
  /\ UNCHANGED <<w, chld, intr, sig>>

\* fork fails: the job jc_new added is dropped again.
ForkFails ==
  /\ pc = "fork"
  /\ launched' = launched + 1
  /\ jid' = Fresh(<<NoPid>>, TRUE).id
  /\ jprv' = jcur
  /\ pc' = "idle"
  /\ UNCHANGED <<proc, jobs, jcur, w, chld, intr, sig, hist>>

\* A foreground command or pipeline under job control is a job too.
Foreground(ps) ==
  /\ Interactive
  /\ Ready
  /\ launched < MaxLaunch
  /\ \A i \in DOMAIN ps : FreshPid(ps[i])
  /\ Started(ps)
  /\ Added(Fresh(ps, FALSE))
  /\ pc' = "ask"
  /\ w' = [NoWork EXCEPT !.op = IF Len(ps) = 1 THEN "fg" ELSE "pipe",
                         !.id = Fresh(ps, FALSE).id, !.own = launched + 1]
  /\ UNCHANGED <<chld, intr, sig>>

-----------------------------------------------------------------------------
(* jc_fg: a blocking wait for each process of the job. *)

Unfinished(j) == j.ndone < j.np /\ j.state = "run"

MutAfter(j, p) == [j EXCEPT !.ndone = @ + 1]   \* a slip: a stop is counted

\* The job after a wait took p: a stop, or one more process gone.
After(j, p) == IF Stopped(p) THEN [j EXCEPT !.state = "stop"]
               ELSE [j EXCEPT !.ndone = @ + 1]

FgReap(p) ==
  /\ pc = "ask" /\ w.op \in {"fg", "pipe"}
  /\ LET k == At(w.id) IN
       /\ Unfinished(jobs[k])
       /\ p \in News(Who(jobs[k]))
       /\ jobs' = [jobs EXCEPT ![k] = After(@, p)]
       /\ w' = [w EXCEPT !.st = IF Stopped(p) THEN StopSt
                                ELSE IF p = jobs[k].last THEN proc[p].st ELSE @]
  /\ proc' = [proc EXCEPT ![p] = Taken(p)]
  /\ UNCHANGED <<shell, pc, chld, intr, sig, launched, hist>>

\* The loop ends when every process is gone, one stopped, or waitpid says
\* ECHILD: a stopped job stays in the table, any other leaves it.
FgEnd ==
  /\ pc = "ask" /\ w.op \in {"fg", "pipe"}
  /\ LET k == At(w.id) IN
       /\ ~Unfinished(jobs[k]) \/ Who(jobs[k]) = {}
       /\ IF jobs[k].state = "stop"
          THEN /\ jobs' = [jobs EXCEPT ![k].bg = TRUE, ![k].st = w.st,
                                       ![k].note = TRUE]
               /\ UNCHANGED <<shell, w, hist>>
          ELSE /\ Drop(jobs, k)
               /\ Settled(jobs[k].uid, "told")
               /\ w' = [w EXCEPT !.ans = w.st]
  /\ pc' = "end"
  /\ UNCHANGED <<proc, chld, intr, sig, launched>>

-----------------------------------------------------------------------------
(* fg, bg, kill, disown and jobs. *)

\* Any other command, and one that names no job: nothing here changes.
Command ==
  /\ Ready
  /\ pc' = "end"
  /\ UNCHANGED <<proc, jobs, shell, w, chld, intr, sig, launched, hist>>

\* The job fg and bg are given.  Both mark it running before they know
\* whether there is anything left to continue.
Resumable(id) ==
  /\ Ready
  /\ HasJob(id)
  /\ ResumeDone \/ jobs[At(id)].state # "done"

CmdFg(id) ==
  /\ Resumable(id)
  /\ LET k == At(id) IN
       /\ jobs' = [jobs EXCEPT ![k].state = "run", ![k].bg = FALSE,
                               ![k].note = FALSE]
       /\ proc' = Continued(Who(jobs[k]))
       /\ w' = [NoWork EXCEPT !.op = "fg", !.id = id, !.own = jobs[k].uid]
  /\ jprv' = jcur /\ jcur' = id
  /\ pc' = "ask"
  /\ UNCHANGED <<jid, chld, intr, sig, launched, hist>>

CmdBg(id) ==
  /\ Resumable(id)
  /\ LET k == At(id) IN
       /\ jobs' = [jobs EXCEPT ![k].state = "run", ![k].bg = TRUE,
                               ![k].note = TRUE]
       /\ proc' = Continued(Who(jobs[k]))
  /\ pc' = "end"
  /\ UNCHANGED <<shell, w, chld, intr, sig, launched, hist>>

\* kill %job: TERM wakes a stopped job so it can die, CONT marks it running;
\* none of it happens when there is nothing left to signal.
CmdKill(id, s) ==
  /\ Ready
  /\ HasJob(id)
  /\ LET k == At(id)  to == Who(jobs[k]) IN
       /\ to # {}
       /\ proc' = CASE s = "STOP" -> Halted(to)
                    [] s = "CONT" \/ jobs[k].state = "stop" -> Continued(to)
                    [] OTHER -> proc
       /\ jobs' = IF s = "CONT" THEN [jobs EXCEPT ![k].state = "run"] ELSE jobs
  /\ pc' = "end"
  /\ UNCHANGED <<shell, w, chld, intr, sig, launched, hist>>

CmdDisown(id) ==
  /\ Ready
  /\ HasJob(id)
  /\ Drop(jobs, At(id))
  /\ Settled(jobs[At(id)].uid, "disowned")
  /\ pc' = "end"
  /\ UNCHANGED <<proc, w, chld, intr, sig, launched>>

\* b_jobs, and the report before a prompt: a poll, then a walk over the
\* table that drops each finished job it shows -- and the last job moves
\* into its slot, so the walk looks at that slot again.
CmdJobs ==
  /\ Ready
  /\ Poll
  /\ pc' = "list"
  /\ w' = NoWork
  /\ UNCHANGED <<shell, chld, intr, sig, launched, hist>>

Prompt ==
  /\ Interactive
  /\ Ready
  /\ Poll
  /\ pc' = "report"
  /\ w' = NoWork
  /\ UNCHANGED <<shell, chld, intr, sig, launched, hist>>

MutShown(k) ==       \* a slip: the walk steps past the job moved in
  IF jobs[k].state = "done"
  THEN /\ Drop(jobs, k) /\ Settled(jobs[k].uid, "told")
       /\ w' = [w EXCEPT !.i = @ + 1]
  ELSE /\ jobs' = [jobs EXCEPT ![k].note = TRUE]
       /\ w' = [w EXCEPT !.i = @ + 1]
       /\ UNCHANGED <<shell, hist>>
Shown(k) ==
  IF jobs[k].state = "done"
  THEN Drop(jobs, k) /\ Settled(jobs[k].uid, "told") /\ UNCHANGED w
  ELSE /\ jobs' = [jobs EXCEPT ![k].note = TRUE]
       /\ w' = [w EXCEPT !.i = @ + 1]
       /\ UNCHANGED <<shell, hist>>

Passed(k) == w' = [w EXCEPT !.i = @ + 1] /\ UNCHANGED <<jobs, shell, hist>>

Walk ==
  /\ pc \in {"list", "report"}
  /\ w.i <= Len(jobs)
  /\ IF pc = "report" /\ (jobs[w.i].state = "run" \/ jobs[w.i].note)
     THEN Passed(w.i) ELSE Shown(w.i)
  /\ UNCHANGED <<proc, pc, chld, intr, sig, launched>>

WalkEnd ==
  /\ pc \in {"list", "report"}
  /\ w.i > Len(jobs)
  /\ w' = NoWork
  /\ pc' = IF pc = "list" THEN "end" ELSE "idle"
  /\ UNCHANGED <<proc, jobs, shell, chld, intr, sig, launched, hist>>

-----------------------------------------------------------------------------
(* wait: jc_waitone for each operand, jc_anyone for `wait' and `wait -n'.   *)
(* A round asks the kernel without blocking, under jc_blk's mask; with      *)
(* nothing to report it sleeps in jc_sleep, and asks again when it wakes.   *)

\* The launch a user means by a pid: the last one whose $! it was.
Meant(p) ==
  LET us == {u \in Launch : hist[u].tail = p}
  IN  IF us = {} THEN 0 ELSE CHOOSE u \in us : \A v \in us : v <= u

\* One operand of wait, a job number or a pid, whichever job k it resolves to
\* (0: none).  A finished job's status is the one it left behind.
Operand(k, arg) ==
  \/ /\ k = 0 /\ arg.pid = NoPid
     /\ pc' = "more" /\ w' = NoWork
     /\ UNCHANGED <<jobs, shell, hist>>
  \/ /\ k = 0 /\ arg.pid # NoPid
     /\ pc' = "ask" /\ w' = [arg EXCEPT !.op = "pid"]
     /\ UNCHANGED <<jobs, shell, hist>>
  \/ /\ k # 0 /\ jobs[k].state = "done"
     /\ pc' = "more" /\ w' = [arg EXCEPT !.ans = jobs[k].st]
     /\ Drop(jobs, k) /\ Settled(jobs[k].uid, "told")
  \/ /\ k # 0 /\ jobs[k].state = "stop"
     /\ pc' = "more" /\ w' = NoWork
     /\ UNCHANGED <<jobs, shell, hist>>
  \/ /\ k # 0 /\ jobs[k].state = "run"
     /\ pc' = "ask" /\ w' = [arg EXCEPT !.op = "job", !.id = jobs[k].id]
     /\ UNCHANGED <<jobs, shell, hist>>

\* `wait' goes on to its next operand without a command boundary between.
WaitStart == Ready \/ pc = "more"

WaitJob(id) ==
  /\ WaitStart
  /\ LET k == IF HasJob(id) THEN At(id) ELSE 0
     IN  Operand(k, [NoWork EXCEPT !.own = IF k = 0 THEN 0 ELSE jobs[k].uid])
  /\ intr' = FALSE
  /\ UNCHANGED <<proc, chld, sig, launched>>

WaitPid(p) ==
  /\ WaitStart
  /\ Operand(ByPid(p, FALSE), [NoWork EXCEPT !.pid = p, !.own = Meant(p)])
  /\ intr' = FALSE
  /\ UNCHANGED <<proc, chld, sig, launched>>

WaitEnd ==
  /\ pc = "more"
  /\ pc' = "end"
  /\ UNCHANGED <<proc, jobs, shell, w, chld, intr, sig, launched, hist>>

WaitAny(mode) ==
  /\ Ready
  /\ pc' = "ask"
  /\ w' = [NoWork EXCEPT !.op = mode]
  /\ intr' = FALSE
  /\ UNCHANGED <<proc, jobs, shell, chld, sig, launched, hist>>

Rounds(ops) == pc = "ask" /\ w.op \in ops

Doze == pc' = "sleep" /\ UNCHANGED <<proc, jobs, shell, w>>

\* tr_waitsig: a trapped signal ends the whole command at once.
WaitTrapped ==
  /\ Rounds({"job", "pid", "n", "all"})
  /\ sig
  /\ w.op = "job" => Unfinished(jobs[At(w.id)])
  /\ pc' = "end"
  /\ w' = NoWork
  /\ UNCHANGED <<proc, jobs, shell, chld, intr, sig, launched, hist>>

MutJobReap(p) ==     \* a slip: the job is dropped inside the loop
  /\ Rounds({"job"})
  /\ ~sig
  /\ LET k == At(w.id) IN
       /\ Unfinished(jobs[k])
       /\ p \in News(Ask(jobs[k]))
       /\ Drop(jobs, k)
  /\ w' = [w EXCEPT !.st = proc[p].st]
  /\ proc' = [proc EXCEPT ![p] = Taken(p)]
  /\ UNCHANGED <<pc, chld, intr, sig, launched, hist>>

\* jc_waitjob.  The status is the last process's only if this wait is what
\* reaps it; waitpid saying ECHILD ends the wait as well.
JobReap(p) ==
  /\ Rounds({"job"})
  /\ ~sig
  /\ LET k == At(w.id) IN
       /\ Unfinished(jobs[k])
       /\ p \in News(Ask(jobs[k]))
       /\ IF Stopped(p)
          THEN /\ jobs' = [jobs EXCEPT ![k] = [After(@, p) EXCEPT !.st = StopSt]]
               /\ pc' = "more" /\ w' = NoWork
          ELSE /\ jobs' = [jobs EXCEPT ![k] = After(@, p)]
               /\ w' = [w EXCEPT !.st = IF p = jobs[k].last THEN proc[p].st ELSE @]
               /\ UNCHANGED pc
  /\ proc' = [proc EXCEPT ![p] = Taken(p)]
  /\ UNCHANGED <<shell, chld, intr, sig, launched, hist>>

JobDoze ==
  /\ Rounds({"job"})
  /\ ~sig
  /\ LET j == jobs[At(w.id)] IN
       Unfinished(j) /\ Ask(j) # {} /\ News(Ask(j)) = {}
  /\ Doze
  /\ UNCHANGED <<chld, intr, sig, launched, hist>>

JobEnd ==
  /\ Rounds({"job"})
  /\ LET k == At(w.id) IN
       /\ ~Unfinished(jobs[k]) \/ (~sig /\ Ask(jobs[k]) = {})
       /\ Drop(jobs, k)
       /\ Settled(jobs[k].uid, "told")
  /\ w' = [w EXCEPT !.ans = w.st]
  /\ pc' = "more"
  /\ UNCHANGED <<proc, chld, intr, sig, launched>>

\* A pid that is no job's: asked for by itself, and for its exit alone.
PidRound ==
  /\ Rounds({"pid"})
  /\ ~sig
  /\ \/ /\ proc[w.pid].ph = "zombie"
        /\ proc' = [proc EXCEPT ![w.pid] = Free]
        /\ w' = [w EXCEPT !.ans = proc[w.pid].st,
                         !.own = IF proc[w.pid].own = @ THEN @ ELSE 0]
        /\ pc' = "more"
        /\ UNCHANGED <<jobs, shell>>
     \/ /\ proc[w.pid].ph = "free"
        /\ w' = [w EXCEPT !.own = 0, !.st = NotChild]
        /\ pc' = "more"
        /\ UNCHANGED <<proc, jobs, shell>>
     \/ Live(w.pid) /\ Doze
  /\ UNCHANGED <<chld, intr, sig, launched, hist>>

\* jc_anyone asks each running job in turn.  One that has no child left is
\* marked done, the first with something to report answers.
Active   == {k \in DOMAIN jobs : jobs[k].state = "run"}
MutDeserted == {k \in Active : News(Ask(jobs[k])) = {}}   \* a slip: 0 is ECHILD
Deserted == {k \in Active : Ask(jobs[k]) = {}}
Answering(k) == /\ k \in Active
                /\ News(Ask(jobs[k])) # {}
                /\ \A h \in Active : h < k => News(Ask(jobs[h])) = {}
Marked(K) == [k \in DOMAIN jobs |-> IF k \in K
                THEN [jobs[k] EXCEPT !.state = "done"] ELSE jobs[k]]

MutCount(js, b, p) ==   \* a slip: the job is dropped at its first exit
  IF b = 0 THEN jobs' = js /\ UNCHANGED shell
  ELSE IF Stopped(p)
  THEN /\ jobs' = [js EXCEPT ![b] = [After(@, p) EXCEPT !.st = StopSt]]
       /\ UNCHANGED shell
  ELSE Drop(js, b)

\* What b_wait does with process p that jc_anyone returned, b being the job
\* jc_bypid finds: count it, and drop the job once all are counted.
Count(js, b, p) ==
  IF b = 0 THEN jobs' = js /\ UNCHANGED shell
  ELSE IF Stopped(p)
  THEN /\ jobs' = [js EXCEPT ![b] = [After(@, p) EXCEPT !.st = StopSt]]
       /\ UNCHANGED shell
  ELSE IF js[b].ndone + 1 >= js[b].np
  THEN Drop(js, b)
  ELSE jobs' = [js EXCEPT ![b] = After(@, p)] /\ UNCHANGED shell

AnyReap(p) ==
  /\ Rounds({"n", "all"})
  /\ ~sig
  /\ \E k \in Active :
       /\ Answering(k)
       /\ p \in News(Ask(jobs[k]))
       /\ Count(Marked({h \in Deserted : h < k}), ByPid(p, ~Stopped(p)), p)
  /\ proc' = [proc EXCEPT ![p] = Taken(p)]
  /\ IF w.op = "all" THEN UNCHANGED <<pc, w>>
     ELSE /\ pc' = "end"
          /\ w' = IF Stopped(p) THEN NoWork
                  ELSE [w EXCEPT !.own = proc[p].own, !.ans = proc[p].st]
  /\ IF Stopped(p) \/ \E q \in Pid \ {p} : proc[q].own = proc[p].own
     THEN UNCHANGED hist ELSE Settled(proc[p].own, "told")
  /\ UNCHANGED <<chld, intr, sig, launched>>

AnyQuiet ==
  /\ Rounds({"n", "all"})
  /\ ~sig
  /\ \A k \in Active : News(Ask(jobs[k])) = {}
  /\ jobs' = Marked(Deserted)
  /\ pc' = IF Active = Deserted THEN "end" ELSE "sleep"
  /\ UNCHANGED <<proc, shell, w, chld, intr, sig, launched, hist>>

\* jc_sleep: a signal ends it, and a tenth of a second at most.
MutCapRunsOut == FALSE
CapRunsOut == TRUE
Wake ==
  /\ pc = "sleep"
  /\ intr \/ CapRunsOut
  /\ pc' = "ask"
  /\ intr' = FALSE
  /\ UNCHANGED <<proc, jobs, shell, w, chld, sig, launched, hist>>

-----------------------------------------------------------------------------
(* Between commands. *)

MutCmdEnd ==         \* a slip: nothing is reaped between commands
  /\ pc = "end"
  /\ w' = NoWork
  /\ pc' = "idle"
  /\ UNCHANGED <<proc, jobs, shell, chld, intr, sig, launched, hist>>

\* The end of ex_cmd clears jc_chld and only then polls; ex_pipe does not.
CmdEnd ==
  /\ pc = "end"
  /\ w' = NoWork
  /\ IF chld /\ jobs # <<>> /\ w.op # "pipe"
     THEN pc' = "poll" /\ chld' = FALSE
     ELSE pc' = "idle" /\ UNCHANGED chld
  /\ UNCHANGED <<proc, jobs, shell, intr, sig, launched, hist>>

CmdPoll ==
  /\ pc = "poll"
  /\ Poll
  /\ pc' = "idle"
  /\ UNCHANGED <<shell, w, chld, intr, sig, launched, hist>>

\* tr_run, before the next command.
RunTraps ==
  /\ pc = "idle"
  /\ sig
  /\ sig' = FALSE
  /\ UNCHANGED <<proc, jobs, shell, pc, w, chld, intr, launched, hist>>

Pipelines == UNION {[1..n -> Pid] : n \in 1..MaxStages}
Distinct(ps) == \A i, j \in DOMAIN ps : i # j => ps[i] # ps[j]

Kernel ==
  \/ \E p \in Pid : \/ \E s \in Status : KExit(p, s)
                    \/ KStop(p) \/ KCont(p) \/ KLeave(p)
                    \/ ModFork(p) \/ ModReap(p)
  \/ KSignal

Start ==
  \/ Background \/ Command \/ CmdJobs \/ Prompt
  \/ \E ps \in Pipelines : Distinct(ps) /\ Foreground(ps)
  \/ \E id \in Launch : \/ CmdFg(id) \/ CmdBg(id) \/ CmdDisown(id)
                        \/ \E s \in {"TERM", "STOP", "CONT"} : CmdKill(id, s)
                        \/ WaitJob(id)
  \/ \E p \in Pid : WaitPid(p)
  \/ \E mode \in {"n", "all"} : WaitAny(mode)
  \/ RunTraps

Continue ==
  \/ TidyForget \/ TidyEnd \/ ForkFails
  \/ \E p \in Pid : Fork(p) \/ FgReap(p) \/ JobReap(p) \/ AnyReap(p)
  \/ FgEnd \/ Walk \/ WalkEnd
  \/ WaitEnd \/ WaitTrapped \/ JobDoze \/ JobEnd \/ PidRound \/ AnyQuiet \/ Wake
  \/ CmdEnd \/ CmdPoll

Next == Kernel \/ Start \/ Continue

\* The shell is one thread the kernel keeps scheduling inside a command.  It
\* may sit at a prompt for ever, and a child may run for ever.
Spec == Init /\ [][Next]_vars /\ WF_vars(Continue)
-----------------------------------------------------------------------------
(* What makes the job table correct. *)

\* Every variable keeps its type.
TypeOK ==
  /\ proc \in [Pid -> Process]
  /\ jobs \in Seq(Job)
  /\ jid \in Nat /\ jcur \in Nat /\ jprv \in Nat
  /\ pc \in PC
  /\ w \in Work
  /\ chld \in BOOLEAN /\ intr \in BOOLEAN /\ sig \in BOOLEAN
  /\ launched \in 0..MaxLaunch
  /\ hist \in [Launch -> Past]

\* A job number names one job: jc_new may start again from 1 only because the
\* table is empty, and jc_drop moves a job without copying it.
IdsUnique ==
  /\ \A i, k \in DOMAIN jobs : jobs[i].id = jobs[k].id => i = k
  /\ \A k \in DOMAIN jobs : jobs[k].id \in 1..jid

\* The job a wait holds (the C code holds a pointer to it) stays in the table
\* until the wait itself drops it.
HeldJob ==
  Waiting => /\ w.op \in {"fg", "pipe", "job"} => HasJob(w.id)
             /\ w.op = "pid" => w.pid # NoPid

\* jc_poll, jc_fg, jc_waitjob and b_wait each count the processes they reap:
\* a job is finished exactly when the kernel holds none of its processes.
Processes(u) == {p \in Pid : proc[p].own = u}
Counted ==
  \A k \in DOMAIN jobs :
    Cardinality(Processes(jobs[k].uid)) =
      IF jobs[k].state = "done" THEN 0 ELSE jobs[k].np - jobs[k].ndone

\* The shell loses no child: one it has not reaped is in the table unless the
\* user disowned it, and a script can still ask for the status of any of the
\* last HIBR_JKEEP jobs it launched and has had no answer for.
Remembered ==
  \A u \in 1..launched :
    \/ \E k \in DOMAIN jobs : jobs[k].uid = u
    \/ hist[u].tail = NoPid
    \/ /\ hist[u].owed # "yes" \/ (~Interactive /\ u + JKeep <= launched)
       /\ hist[u].owed # "disowned" => Processes(u) = {}

\* What wait, wait -n and fg answer for a job is the status its last process
\* exited with, whoever reaped it and whenever.
WaitAnswers ==
  w.ans # NoSt /\ w.own # 0 => w.ans = hist[w.own].st

\* The same of wait with an operand (docs/builtins.md:292: it waits "for each,
\* answering the last one's status").
WaitStatus == w.op \in {"none", "job", "pid"} => WaitAnswers

\* A job the table shows as running has a process (docs/builtins.md:290: jobs
\* lists "active jobs").
RunningIsAlive ==
  \A k \in DOMAIN jobs : jobs[k].state = "run" => \/ Processes(jobs[k].uid) # {}
                                                 \/ Waiting

\* While the table holds a job, %+ names one of them, so fg, bg and disown do
\* with no operand what docs/builtins.md:291 and 295 say they do to a job.
CurrentExists == jobs # <<>> => HasJob(jcur)

\* Whatever forked a child is the thing entitled to its status (job.c:603):
\* only the module reaps its child, unless the user waits for that very pid.
ModuleKeeps ==
  [][\A p \in Pid : proc[p].own = Module /\ proc'[p].own # Module
       => ModReap(p) \/ w.op = "pid"]_vars

\* Once a prompt has reported, no finished job is left in the table, where
\* nothing would ever report it.
ReportComplete ==
  [][pc = "report" /\ pc' = "idle" => DoneJobs = {}]_vars

\* wait, in any form, comes back once there is nothing alive left to wait
\* for, even when another thread took the SIGCHLD meant for it.
WaitedFor ==
  {p \in Child : IF w.op = "pid" THEN p = w.pid
                 ELSE w.op \in {"n", "all"} \/ proc[p].own = jobs[At(w.id)].uid}
WaitReturns ==
  (Waiting /\ \A p \in WaitedFor : ~Live(p)) ~> ~Waiting

\* A script that goes on running commands notices that a job has finished.
Unnoticed(u) ==
  /\ \E k \in DOMAIN jobs : jobs[k].uid = u /\ jobs[k].state # "done"
  /\ \A p \in Processes(u) : ~Live(p)
FinishNoticed ==
  []<>(pc = "end") => \A u \in Launch : Unnoticed(u) ~> ~Unnoticed(u)
=============================================================================

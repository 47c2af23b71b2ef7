----------------------------- MODULE Evaluator -----------------------------
(***************************************************************************)
(* How a script is run: the walk over its commands (src/src/exec.c ex),    *)
(* the flags that make it leave constructs early - break, continue,        *)
(* return, exit, errexit - and the handlers that run in between            *)
(* (src/src/trap.c).                                                       *)
(*                                                                         *)
(* The walk is recursive in C; here its calls are a stack.  What the next  *)
(* node of the script is, and how a command ends, is chosen when the walk  *)
(* gets there, so that every script within the bounds is run.  Each call   *)
(* returns s->st, which `up' says has just happened.                       *)
(***************************************************************************)
EXTENDS Integers, Sequences, FiniteSets

CONSTANTS
  Signals,  \* the signals a script traps, 1 to as many as there are
  Scripts   \* bound: families of scripts.  Of each: kinds, the constructs used;
            \* reach, what commands do besides ending with a status, and how
            \* deep they do it ("signal": how deep one may arrive); depth, how
            \* deep a construct is entered, its calls counted; traps, how many
            \* are set at a time; errexit, whether set -e is on

Loops == {"while", "until", "for"}
Tests == {"and", "or", "not", "if"}

ASSUME EvaluatorAssumption ==
  /\ IsFiniteSet(Signals) /\ Signals = 1 .. Cardinality(Signals)
  /\ \A s \in Scripts :
       /\ s.kinds \subseteq Loops \cup Tests \cup {"cmd", "seq", "grp"}
       /\ s.errexit \in BOOLEAN
       /\ s.depth \in Nat /\ s.traps \in Nat /\ s.reach \in [DOMAIN s.reach -> Nat]

VARIABLES
  script,  \* the family of the script that is run
  stk,     \* the calls under way, outermost first
  up,      \* the innermost has a result of the call it made
  st,      \* s->st: 0 or 1
  tst,     \* s->tst: the status of the node about to run is tested
  quit, stop, ret,  \* the shell, the line or the function is being left
  brk, cont,        \* how many loops are still to be left
  loops,   \* ex_loops: how many there are
  intry,   \* s->intry: inside try
  trap,    \* which of the traps ERR, DEBUG, RETURN and EXIT are set
  pend,    \* tr_pend: the signals that have arrived
  any,     \* tr_any: one may have
  abline,  \* ex_abline: the line that is left was given up, and no more than it
  aim      \* the loop the break or continue under way is to leave; none: 0

flags == <<quit, stop, ret, brk, cont, aim>>
traps == <<trap, intry>>
globals == <<pend, any, abline>>
vars == <<script, stk, up, st, tst, flags, loops, traps, globals>>

\* A call: of what, how far it is, the tested flag it was called with, and
\* what it keeps of the shell's state to put back.
Places ==
  {"start", "enter", "handled", "item", "tested", "body", "last",
   "debug", "run", "try", "called", "unbound", "check", "err", "trip", "return",
   "line", "ran", "scan", "handler", "exit", "ended"}
Call == [k: Loops \cup Tests \cup {"shell", "text", "sig", "node", "cmd", "call", "seq", "grp"},
         pc: Places, t: BOOLEAN, v: 0 .. 1, n: Nat, o: Seq(Int)]
New(k, pc) == [k |-> k, pc |-> pc, t |-> FALSE, v |-> 0, n |-> 0, o |-> <<>>]

Depth == Len(stk)
Top == stk[Depth]
At(k, pc) == Top.k = k /\ Top.pc = pc
Going(k, pc) == ~up /\ At(k, pc)
Back(k, pc) == up /\ At(k, pc)
Ended == At("shell", "ended")

Leaving == quit \/ stop \/ ret
Jumping == brk > 0 \/ cont > 0
Within(e) == e \in DOMAIN script.reach /\ Depth <= script.reach[e]
In(k) == {i \in DOMAIN stk : stk[i].k \in k}
Last(S) == CHOOSE i \in S \cup {0} : \A j \in S : j <= i

\* The innermost call becomes c; calls d; returns.
Become(c) == stk' = [stk EXCEPT ![Depth] = c] /\ up' = FALSE
To(pc) == Become([Top EXCEPT !.pc = pc])
Make(c, d) == stk' = Append([stk EXCEPT ![Depth] = c], d) /\ up' = FALSE
Enter(pc, d) == Make([Top EXCEPT !.pc = pc], d)
Return == stk' = SubSeq(stk, 1, Depth - 1) /\ up' = TRUE
Node == New("node", "enter")
Text == New("text", "line")

\* The loop a break or continue that has just run is to leave or to take up
\* again; -1, which promises nothing, for one made in the condition of a loop
\* it is to leave, by a handler outside of which the loop is, or after such.
Left(n) ==
  LET here == {i \in In(Loops) : i > Last(In({"call"}))}
      to == CHOOSE i \in here : Cardinality({j \in here : j >= i}) = n
  IN  IF \/ Jumping
         \/ to < Last(In({"sig"}))
         \/ \E i \in to .. Depth : \/ stk[i].k = "cmd" /\ stk[i].pc = "debug"
                                   \/ stk[i].k = "call" /\ stk[i].pc = "return"
                                   \/ i \in here /\ stk[i].pc # "body"
      THEN -1 ELSE to
Aim == aim' = IF brk' = 0 /\ cont' = 0 THEN 0 ELSE aim

-----------------------------------------------------------------------------
(***************************************************************************)
(* ex: entering a node                                                     *)
(***************************************************************************)

\* A node is passed over while anything is being left, and the tested flag
\* meant for it is not taken.
Skip ==
  /\ Going("node", "enter") /\ (Leaving \/ Jumping)
  /\ Return
  /\ UNCHANGED <<st, tst, flags, loops, traps, globals>>

\* Signals are handled first: tr_run clears tr_any and then looks at each.
Handle ==
  /\ Going("node", "enter") /\ ~Leaving /\ ~Jumping /\ any
  /\ any' = FALSE
  /\ Enter("handled", [New("sig", "scan") EXCEPT !.v = st, !.n = 1])
  /\ UNCHANGED <<st, tst, flags, loops, traps, pend, abline>>

Abandon ==
  /\ Back("node", "handled") /\ (quit \/ stop)
  /\ Return
  /\ UNCHANGED <<st, tst, flags, loops, traps, globals>>

\* A node that is not passed over takes the tested flag.
Entered ==
  /\ \/ Going("node", "enter") /\ ~Leaving /\ ~Jumping /\ ~any
     \/ Back("node", "handled") /\ ~quit /\ ~stop
  /\ tst' = FALSE

Choose(k) ==
  /\ Entered
  /\ k = "cmd" \/ Depth <= script.depth
  /\ Become([New(k, "start") EXCEPT !.t = tst])
  /\ loops' = IF k \in Loops THEN loops + 1 ELSE loops
  /\ UNCHANGED <<st, flags, traps, globals>>

\* A group, an if or a loop whose redirections fail: its status is 1, and
\* neither the ERR trap nor errexit hears of it.
RedirFails(k) ==
  /\ Entered
  /\ k \in Loops \cup {"grp", "if"} /\ Depth <= script.depth
  /\ st' = 1
  /\ Return
  /\ UNCHANGED <<flags, loops, traps, globals>>

-----------------------------------------------------------------------------
(***************************************************************************)
(* Lists, tests and groups                                                 *)
(***************************************************************************)

Still == UNCHANGED <<flags, loops, traps, globals>>

\* a; b; c - the first runs untested, the others as the list is.
SeqFirst == Going("seq", "start") /\ Enter("item", Node) /\ UNCHANGED <<st, tst>> /\ Still
SeqNext ==
  /\ Back("seq", "item")
  /\ \E pc \in IF Leaving \/ Jumping THEN {"last"} ELSE {"item", "last"} :
       Enter(pc, Node)
  /\ tst' = Top.t
  /\ UNCHANGED st /\ Still

\* a && b, a || b, ! a and the condition of an if run tested.
Test ==
  /\ ~up /\ Top.k \in Tests /\ Top.pc = "start"
  /\ tst' = TRUE
  /\ Enter("tested", Node)
  /\ UNCHANGED st /\ Still

AndOr ==
  /\ up /\ Top.k \in {"and", "or"} /\ Top.pc = "tested"
  /\ IF (st = 0) = (Top.k = "and")
       THEN tst' = Top.t /\ Enter("last", Node)
       ELSE Return /\ UNCHANGED tst
  /\ UNCHANGED st /\ Still

Not ==
  /\ Back("not", "tested")
  /\ st' = IF Leaving THEN st ELSE 1 - st
  /\ Return
  /\ UNCHANGED tst /\ Still

If ==
  /\ Back("if", "tested")
  /\ tst' = Top.t
  /\ \/ ~Leaving /\ Enter("last", Node) /\ UNCHANGED st
     \/ ~Leaving /\ st = 1 /\ st' = 0 /\ Return
     \/ Leaving /\ Return /\ UNCHANGED st
  /\ Still

\* A group, or a case's clause: the tested flag goes no further.
Group == Going("grp", "start") /\ Enter("last", Node) /\ UNCHANGED <<st, tst>> /\ Still

\* The last of a node's calls gives it its status.
Through ==
  /\ up /\ Top.pc = "last" /\ Top.k \in Tests \cup {"seq", "grp"}
  /\ Return
  /\ UNCHANGED <<st, tst>> /\ Still

-----------------------------------------------------------------------------
(***************************************************************************)
(* Loops                                                                   *)
(***************************************************************************)

\* ex_loop and ex_for end with the status of the last body.
LoopEnd(v) == st' = v /\ loops' = loops - 1 /\ Return

LoopTest ==
  /\ ~up /\ Top.k \in {"while", "until"} /\ Top.pc = "start"
  /\ IF Leaving THEN LoopEnd(Top.v) /\ UNCHANGED tst
     ELSE tst' = TRUE /\ Enter("tested", Node) /\ UNCHANGED <<st, loops>>
  /\ UNCHANGED <<flags, traps, globals>>

LoopTested ==
  /\ up /\ Top.k \in {"while", "until"} /\ Top.pc = "tested"
  /\ tst' = FALSE
  /\ CASE Leaving -> LoopEnd(st)
       [] ~Leaving /\ (st = 0) # (Top.k = "while") -> LoopEnd(Top.v)
       [] OTHER -> Enter("body", Node) /\ UNCHANGED <<st, loops>>
  /\ UNCHANGED <<flags, traps, globals>>

ForNext ==
  /\ Going("for", "start")
  /\ \/ \E v \in {Top.v, 1} : LoopEnd(v)   \* no word left; or it is refused
     \/ Enter("body", Node) /\ UNCHANGED <<st, loops>>
  /\ UNCHANGED <<tst, flags, traps, globals>>

\* A fault: break n leaves one loop.
MutLoopBody ==
  /\ up /\ Top.k \in Loops /\ Top.pc = "body"
  /\ brk' = 0
  /\ cont' = IF brk = 0 /\ cont > 0 THEN cont - 1 ELSE cont
  /\ Aim
  /\ IF brk > 0 \/ cont > 1 \/ Leaving
       THEN LoopEnd(st)
       ELSE Become([Top EXCEPT !.pc = "start", !.v = st]) /\ UNCHANGED <<st, loops>>
  /\ UNCHANGED <<tst, quit, stop, ret, traps, globals>>

\* After the body: one loop fewer to break, or one fewer to continue.
LoopBody ==
  /\ up /\ Top.k \in Loops /\ Top.pc = "body"
  /\ brk' = IF brk > 0 THEN brk - 1 ELSE 0
  /\ cont' = IF brk = 0 /\ cont > 0 THEN cont - 1 ELSE cont
  /\ Aim
  /\ IF brk > 0 \/ cont > 1 \/ Leaving
       THEN LoopEnd(st)
       ELSE Become([Top EXCEPT !.pc = "start", !.v = st]) /\ UNCHANGED <<st, loops>>
  /\ UNCHANGED <<tst, quit, stop, ret, traps, globals>>

-----------------------------------------------------------------------------
(***************************************************************************)
(* Simple commands and functions                                           *)
(***************************************************************************)

\* The DEBUG trap is out while its handler runs, and what the handler did to
\* the status and the flags is undone, but for an exit.
Bit(b) == IF b THEN 1 ELSE 0
Kept == <<st, Bit(stop), brk, cont, Bit(ret)>>
PutBack(o) ==
  /\ st' = o[1] /\ stop' = (o[2] = 1) /\ ret' = (o[5] = 1)
  /\ brk' = o[3] /\ cont' = o[4] /\ Aim

Debug ==
  /\ Going("cmd", "start")
  /\ IF "DEBUG" \in trap
       THEN /\ trap' = trap \ {"DEBUG"}
            /\ Make([Top EXCEPT !.pc = "debug", !.o = Kept], Text)
       ELSE To("run") /\ UNCHANGED trap
  /\ UNCHANGED <<st, tst, flags, loops, intry, globals>>

Debugged ==
  /\ Back("cmd", "debug")
  /\ PutBack(Top.o) /\ trap' = trap \cup {"DEBUG"}
  /\ Become([Top EXCEPT !.pc = "run", !.o = <<>>])
  /\ UNCHANGED <<tst, quit, loops, intry, globals>>

\* ex_cmd runs nothing when the handler exited.
Refused ==
  /\ Going("cmd", "run") /\ (quit \/ stop)
  /\ st' = 1
  /\ To("check")
  /\ UNCHANGED tst /\ Still

Run == Going("cmd", "run") /\ ~quit /\ ~stop

\* Any command with nothing but a status.
Status(x) ==
  /\ Run /\ st' = x /\ To("check")
  /\ UNCHANGED tst /\ Still

InCall == In({"call"}) # {}

\* break n and continue n, n at most the loops there are; a count out of range
\* leaves them all, with status 1.
Break(n) ==
  /\ Run /\ loops > 0 /\ Within("break")
  /\ brk' = IF n = 0 THEN loops ELSE n
  /\ aim' = Left(brk')
  /\ st' = IF n = 0 THEN 1 ELSE 0
  /\ To("check")
  /\ UNCHANGED <<tst, quit, stop, ret, cont, loops, traps, globals>>

Continue(n) ==
  /\ Run /\ loops > 0 /\ n > 0 /\ Within("continue")
  /\ cont' = n /\ aim' = Left(n) /\ st' = 0
  /\ To("check")
  /\ UNCHANGED <<tst, quit, stop, ret, brk, loops, traps, globals>>

ReturnFn(x) ==
  /\ Run /\ InCall /\ Within("return")
  /\ ret' = TRUE /\ st' = x
  /\ To("check")
  /\ UNCHANGED <<tst, quit, stop, brk, cont, aim, loops, traps, globals>>

Exit(x) ==
  /\ Run /\ Within("exit")
  /\ quit' = TRUE /\ st' = x
  /\ To("check")
  /\ UNCHANGED <<tst, stop, ret, brk, cont, aim, loops, traps, globals>>

\* An assignment that is refused, or an operand too many: the line is given
\* up, or with a type's refusal or under errexit the script.
GiveUp ==
  /\ Run /\ Within("giveup")
  /\ st' = 1
  /\ \/ stop' = TRUE /\ abline' = TRUE /\ UNCHANGED quit
     \/ quit' = TRUE /\ UNCHANGED <<stop, abline>>
     \/ script.errexit /\ ~tst /\ ~intry /\ quit' = TRUE /\ stop' = TRUE /\ UNCHANGED abline
  /\ To("check")
  /\ UNCHANGED <<tst, ret, brk, cont, aim, loops, traps, pend, any>>

SetTrap(w) ==
  /\ Run /\ Within(w)
  /\ trap' \in {trap \cup {w}, trap \ {w}} /\ Cardinality(trap') <= script.traps
  /\ st' = 0
  /\ To("check")
  /\ UNCHANGED <<tst, flags, loops, intry, globals>>

\* try and eval run a text; a function is a call with loops of its own.
Try ==
  /\ Run /\ Within("try")
  /\ intry' = TRUE
  /\ Make([Top EXCEPT !.pc = "try", !.n = Bit(intry)], Text)
  /\ UNCHANGED <<st, tst, flags, loops, trap, globals>>

Tried ==
  /\ Back("cmd", "try")
  /\ intry' = (Top.n = 1) /\ stop' = FALSE /\ st' = 0
  /\ Become([Top EXCEPT !.pc = "check", !.n = 0])
  /\ UNCHANGED <<tst, quit, ret, brk, cont, aim, loops, trap, globals>>

Eval ==
  /\ Run /\ Within("eval")
  /\ Enter("called", Text)
  /\ UNCHANGED <<st, tst>> /\ Still

FnCall ==
  /\ Run /\ Within("call")
  /\ loops' = 0
  /\ Enter("called", [New("call", "start") EXCEPT !.n = loops])
  /\ UNCHANGED <<st, tst, flags, traps, globals>>

Called ==
  /\ Back("cmd", "called")
  /\ To("check")
  /\ UNCHANGED <<st, tst>> /\ Still

FnBody ==
  /\ Going("call", "start")
  /\ Enter("body", Node)
  /\ UNCHANGED <<st, tst>> /\ Still

\* fn_bind refuses the arguments: there is no body, only what comes after it.
FnUnbound ==
  /\ Going("call", "start")
  /\ st' = 1
  /\ To("unbound")
  /\ UNCHANGED tst /\ Still

\* A fault: the loops around a function are not counted again.
MutFnEnd ==
  /\ loops' = loops /\ Return

\* fn_call: a return ends here, then the RETURN trap is run and forgotten.
FnEnd ==
  /\ loops' = Top.n /\ Return

FnReturned ==
  /\ Back("call", "body") \/ Going("call", "unbound")
  /\ ret' = FALSE
  /\ IF "RETURN" \in trap
       THEN /\ trap' = trap \ {"RETURN"}
            /\ Make([Top EXCEPT !.pc = "return", !.o = [Kept EXCEPT ![5] = 0]], Text)
            /\ UNCHANGED loops
       ELSE FnEnd /\ UNCHANGED trap
  /\ UNCHANGED <<st, tst, quit, stop, brk, cont, aim, intry, globals>>

FnTrapped ==
  /\ Back("call", "return")
  /\ PutBack(Top.o) /\ FnEnd
  /\ UNCHANGED <<tst, quit, traps, globals>>

\* ex_chk: the ERR trap, out while its handler runs, and then errexit.
Untested == st = 1 /\ ~Top.t /\ ~stop /\ ~intry

Err ==
  /\ Going("cmd", "check") /\ Untested /\ "ERR" \in trap
  /\ trap' = trap \ {"ERR"}
  /\ Enter("err", Text)
  /\ UNCHANGED <<st, tst, flags, loops, intry, globals>>

Erred ==
  /\ Back("cmd", "err")
  /\ stop' = FALSE /\ st' = 1 /\ trap' = trap \cup {"ERR"}
  /\ To("trip")
  /\ UNCHANGED <<tst, quit, ret, brk, cont, aim, loops, intry, globals>>

Check ==
  /\ \/ Going("cmd", "trip")
     \/ Going("cmd", "check") /\ ~(Untested /\ "ERR" \in trap)
  /\ IF Untested /\ script.errexit /\ ~quit
       THEN stop' = TRUE /\ quit' = TRUE
       ELSE UNCHANGED <<stop, quit>>
  /\ Return
  /\ UNCHANGED <<st, tst, ret, brk, cont, aim, loops, traps, globals>>

-----------------------------------------------------------------------------
(***************************************************************************)
(* Texts, signal handlers and the shell                                    *)
(***************************************************************************)

\* sh_runx: a text is run line by line until something is being left.
Line ==
  /\ Going("text", "line")
  /\ Enter("ran", Node)
  /\ UNCHANGED <<st, tst>> /\ Still

LineDone ==
  /\ Back("text", "ran")
  /\ stop' = (stop /\ ~abline) /\ abline' = FALSE
  /\ UNCHANGED <<st, tst, quit, ret, brk, cont, aim, loops, traps, pend, any>>

\* A fault: a text is run on although it is being left.
MutLineRan == LineDone /\ (Return \/ To("line"))

\* A line that was given up is over; whatever else is being left is, from here.
LineRan ==
  /\ LineDone
  /\ \/ Return
     \/ ~quit /\ ~stop' /\ ~ret /\ ~Jumping /\ To("line")

\* tr_run, one signal at a time.  A handler's failure does not stop what it
\* interrupted; its exit does.
Scan ==
  /\ Going("sig", "scan")
  /\ IF Top.n \notin Signals
       THEN st' = Top.v /\ Return /\ UNCHANGED pend
       ELSE /\ pend' = [pend EXCEPT ![Top.n] = FALSE]
            /\ IF pend[Top.n] THEN Enter("handler", Text)
               ELSE Become([Top EXCEPT !.n = Top.n + 1])
            /\ UNCHANGED st
  /\ UNCHANGED <<tst, flags, loops, traps, any, abline>>

\* A fault: tr_any is cleared after a handler.
MutHandled ==
  /\ Back("sig", "handler")
  /\ stop' = FALSE /\ any' = FALSE
  /\ IF quit THEN Return ELSE Become([Top EXCEPT !.pc = "scan", !.n = Top.n + 1])
  /\ UNCHANGED <<st, tst, quit, ret, brk, cont, aim, loops, traps, pend, abline>>

Handled ==
  /\ Back("sig", "handler")
  /\ stop' = FALSE
  /\ IF quit THEN Return ELSE Become([Top EXCEPT !.pc = "scan", !.n = Top.n + 1])
  /\ UNCHANGED <<st, tst, quit, ret, brk, cont, aim, loops, traps, globals>>

\* on_trap, at any moment.
Arrive(i) ==
  /\ ~Ended /\ Within("signal") /\ ~(pend[i] /\ any)
  /\ pend' = [pend EXCEPT ![i] = TRUE] /\ any' = TRUE
  /\ UNCHANGED <<stk, up, st, tst, flags, loops, traps, abline>>

\* tr_exit, when the script has ended.
Finish ==
  /\ Back("shell", "run")
  /\ IF "EXIT" \in trap
       THEN /\ trap' = trap \ {"EXIT"} /\ quit' = FALSE /\ stop' = FALSE
            /\ Enter("exit", Text)
       ELSE To("ended") /\ UNCHANGED <<trap, quit, stop>>
  /\ UNCHANGED <<st, tst, ret, brk, cont, aim, loops, intry, globals>>

Finished ==
  /\ Back("shell", "exit")
  /\ quit' = TRUE
  /\ To("ended")
  /\ UNCHANGED <<st, tst, stop, ret, brk, cont, aim, loops, traps, globals>>

-----------------------------------------------------------------------------

Init ==
  /\ script \in Scripts
  /\ stk = <<New("shell", "run"), Text>> /\ up = FALSE
  /\ st = 0 /\ tst = FALSE
  /\ quit = FALSE /\ stop = FALSE /\ ret = FALSE /\ brk = 0 /\ cont = 0
  /\ loops = 0 /\ intry = FALSE /\ trap = {}
  /\ pend = [i \in Signals |-> FALSE] /\ any = FALSE /\ abline = FALSE
  /\ aim = 0

Command ==
  \/ Debug \/ Debugged \/ Refused \/ GiveUp
  \/ \E x \in 0 .. 1 : Status(x) \/ ReturnFn(x) \/ Exit(x)
  \/ \E n \in 0 .. loops : Break(n) \/ Continue(n)
  \/ \E w \in {"ERR", "DEBUG", "RETURN", "EXIT"} : SetTrap(w)
  \/ Try \/ Tried \/ Eval \/ FnCall \/ Called
  \/ FnBody \/ FnUnbound \/ FnReturned \/ FnTrapped
  \/ Err \/ Erred \/ Check

Walk ==
  \/ Skip \/ Handle \/ Abandon \/ \E k \in script.kinds : Choose(k) \/ RedirFails(k)
  \/ SeqFirst \/ SeqNext \/ Test \/ AndOr \/ Not \/ If \/ Group \/ Through
  \/ LoopTest \/ LoopTested \/ ForNext \/ LoopBody
  \/ Line \/ LineRan \/ Scan \/ Handled \/ Finish \/ Finished

Next == (Command \/ Walk \/ \E i \in Signals : Arrive(i)) /\ UNCHANGED script

Spec == Init /\ [][Next]_vars

\* The shell goes on with what it is doing, whatever arrives.
FairSpec == Spec /\ WF_vars((Command \/ Walk) /\ UNCHANGED script)

-----------------------------------------------------------------------------
(***************************************************************************)
(* Correctness                                                             *)
(***************************************************************************)

TypeOK ==
  /\ script \in Scripts
  /\ stk \in Seq(Call) /\ stk # <<>> /\ up \in BOOLEAN
  /\ st \in 0 .. 1 /\ tst \in BOOLEAN
  /\ quit \in BOOLEAN /\ stop \in BOOLEAN /\ ret \in BOOLEAN
  /\ loops = Cardinality({i \in In(Loops) : i > Last(In({"call"}))})
  /\ brk \in Nat /\ cont \in Nat
  /\ intry \in BOOLEAN
  /\ trap \in SUBSET {"ERR", "DEBUG", "RETURN", "EXIT"}
  /\ pend \in [Signals -> BOOLEAN] /\ any \in BOOLEAN /\ abline \in BOOLEAN
  /\ aim \in -1 .. Depth

\* A break or a continue gets to the loop it is for, through whatever is in
\* between - tests, groups, lists, evals, try, the ERR trap - and no further
\* (bi.c b_brk, b_cont; exec.c ex_loop, ex_for).
Lands ==
  [][aim > 0 /\ brk' = 0 /\ cont' = 0
       => Len(stk') = IF brk > 0 \/ Leaving THEN aim - 1 ELSE aim]_vars

\* A trapped signal that has arrived is in tr_any, or before it lies the scan
\* of a tr_run that is under way: none is forgotten before the
\* shell exits (trap.c on_trap, tr_run).
NoneLost ==
  \A s \in Signals : pend[s] =>
    quit \/ stk[1].pc # "run" \/ any \/
    \E i \in In({"sig"}) : IF stk[i].pc = "scan" THEN stk[i].n <= s
                                  ELSE stk[i].n < s

\* Whatever is under way is left in the end: after exit, or a failure under
\* errexit, the shell ends or runs its EXIT trap, and a break or continue
\* arrives (the checks after every call of ex).
Leaves == []<>((quit => Ended) /\ aim <= 0)

\* The innermost command is in the condition of an if or a loop, left of && or
\* ||, or after !, in the text or function body it belongs to.
Tested ==
  \E i \in In(Tests \cup {"while", "until"}) :
    i > Last(In({"text", "call"})) /\ stk[i].pc = "tested"

\* Under set -e a command that fails where its status is not tested ends the
\* script: the exemption applies only to the pipeline being tested
\* (docs/adr/0002-errexit-is-scoped.md).
ErrexitStops ==
  [][/\ script.errexit /\ Depth > 0 /\ Top.k = "cmd" /\ Len(stk') < Depth
     /\ st = 1 /\ ~Tested /\ ~intry
     => quit']_vars

\* One that fails where it is tested does not (ADR 0002; exec.c ex_sub).
TestedIsExempt ==
  [][/\ Top.k = "cmd" /\ Len(stk') < Depth /\ Tested /\ ~quit => ~quit']_vars

\* exit inside a trap ends the shell with its own status
\* (tests/997-trap-exit.t).
ExitKept == [][quit /\ quit' /\ up' => st' = st]_vars

\* Giving a line up does not end the script: bi_many's comment says that the
\* next line still runs (bi.c:433; exec.c ex_cmd, main.c sh_runx).
LineGivenUp == Back("shell", "run") /\ stop => quit
=============================================================================

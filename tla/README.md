# hibr in TLA+

hibr is a command shell in C: it reads scripts or lines, runs programs and
builtins, keeps jobs, and loads extensions as shared objects. This directory
holds specifications of the parts of it whose correctness is a matter of
*order* - which call came first, what was saved before what, which process was
reaped by whom - together with the TLC configurations that check them on small
instances and the proofs that TLAPS checks for every instance.

Every definition is read from the C, not from the documents; `PROJECT.json`
("map") names the lines behind each. The documents, comments and tests are what
the code is compared with. Where the two disagree the README says so with a
script that shows it ("Where the code and the documents disagree"), and the
configuration by which TLC finds the disagreement is kept.

## The system

One process, one thread that matters. The shell is a tree walker (`ex` and
`ex_cmd`, src/src/exec.c) over a parsed tree; everything else hangs from the
shell record `sh` it carries. A few modules start threads of their own, and
those can take a signal meant for the shell. Concurrency is therefore with the
*kernel*: children that exit, stop, continue and change their group between any
two system calls, signals that interrupt sleeps, and pids that are reused.

| component | state | operations | talks to |
|---|---|---|---|
| jobs, `job.c` | the table `s->jobs`, the last number `jid`, `jcur`, `jprv`, the flag `jc_chld` | `jc_new`, `jc_drop`, `jc_poll`, `jc_tidy`, `jc_fg`, `jc_waitjob`, `jc_waitone`, `jc_anyone`; `fg`, `bg`, `kill`, `disown`, `jobs`, `wait` | the kernel (fork, waitpid, kill, pselect), exec (launch, poll after each command), trap (wait is cut short), main (report before a prompt) |
| traps, `trap.c` | `s->trap[]`, `tr_pend[]`, `tr_any`, the ERR/DEBUG/EXIT handlers | `on_trap` (in a signal handler), `tr_run` (at a command boundary), `tr_waitsig`, `tr_err`, `tr_exit` | exec calls it, handlers call exec again |
| redirections, `exec.c` | the process's descriptors, one `sv` vector per call | `rd_do`, `rd_save`, `rd_undo` | every compound and command; `exec` and `{v}>` make lasting changes from inside |
| control flow, `exec.c` | `st`, `quit`, `stop`, `ret`, `brk`, `cont`, `tst` | `ex`, `ex_chk`, the loops | traps (ERR), options (`set -e`) |
| functions and scopes, `exec.c` | `s->fns` with the index `fht`, `s->scope`, `sav` records | `fn_add`, `fn_hfind`, `fn_call`, `asg_push`, `asg_hide`, `asg_pop` | variables |
| launching, `exec.c` | none of its own | `ex_bg`, `ex_pipe`, `ex_sub`, `xpsub` | jobs |
| process substitutions, `exec.c` | the table `xps` of descriptors and pids | `xpsub`, `xpsub_done` | descriptors, children |
| variables, `var.c` | the variable table; a map is a linked chain whose head owns a tail pointer and a hash index with tombstones | `hibr_set`, `v_take`, `v_back`, `mp_add`, `mp_del`, `mp_find` | scopes, expansion, JSON |
| memory, `mem.c` | arenas: chunks, marks | `ar_get`, `ar_mark`, `ar_rel` | everything |
| module registry, `mod.c` | `s->mods`, interfaces, the autoload index, exec hooks | `m_load`, `m_drop`, `m_dropall`, `hibr_require`, `m_ldauto` | a module's init and finaliser call back into the registry |
| lexer, parser, expansion, `lex.c` `parse.c` `expand.c` `text.c` `regex.c` | none between calls | text to tree, words to strings | control flow |
| builtins, `bi.c` `daily.c` `fs.c` `json.c` | mostly none | one call each | all of the above |
| line editor `edit.c`, main loop `main.c` | buffer, history; the hangup flag | keys; read, report, run | jobs, traps |
| networking `net.c`, plan mode `plan.c` | sockets; the record of a dry run | `net_open`; `pl_redir`, `pl_prog` | redirections |
| hold, `mods/hold` | a session: its displays, which is the primary, where each is, what is remembered of one that left | attach, detach, place, size, choose, upgrade, over a socket; `hd_loop`, `hd_conn` | the pty and term modules; `programs/desktop/wm/hold.hibr` attaches |
| pty, `mods/pty` | a child in a session of its own | spawn, read, reap | must not be reaped by jobs |
| term, console, img, documents, mail, databases and other modules; the desktop programs | grids, trees, files | data in, data out | the shell's interface for modules |

### What is hard here, and what makes each part correct

* **Jobs.** Four places reap children (`jc_poll`, `jc_fg`, `jc_waitjob`,
  `jc_anyone`), a module may reap its own, and each must count every process
  once. Jobs are numbered, dropped, moved in the table and forgotten while
  commands hold pointers to them. Correct when: numbers name one job; a job held
  by a wait is not freed; a job is done exactly when the kernel has none of its
  processes; `wait` answers the status the job really ended with; a status a
  script may still ask for is not forgotten; a wait comes back.
* **Redirections.** The save of a descriptor is itself a descriptor, in the same
  table that the rest of the list and the body go on changing. Correct when
  taking the saves back, last first, rebuilds what was there, except for what
  the body changed for good on purpose.
* **Control flow.** Six flags - `quit`, `stop`, `ret`, `brk`, `cont`, `tst` -
  are the shell's own, not a call's, and every caller of `ex` decides which to
  look at. Correct when a break gets to the loop it is for and no further,
  whatever lies in between; when whatever is being left is left; when `set -e`
  exempts what is tested and nothing else.
* **Traps.** A handler runs inside the scan of pending signals, and may send
  signals, set traps, wait or leave. Correct when no signal is lost and none is
  run twice, and a handler set by a handler stays.
* **Scopes.** Save records of nested calls restore in reverse; an unset, a
  readonly or a second local may come between, and the process's own environment
  is a copy kept beside the table. Correct when the caller finds its variables as
  it left them, and a child finds the environment the table says.
* **Maps.** Chain, tail and index change one after the other. Correct when the
  structure is an ordered map: insertion order kept, one entry a key, found by
  index exactly when in the chain.
* **Modules.** Initialisers and finalisers call the registry that is calling
  them. Correct when the list, the mapped objects, the offers and the index of
  builtins tell one story, and nothing is unloaded while its interface is in use.
* **Hold.** The one distributed protocol: a display asks where to join and joins
  later, and any display may hang up in between, or while it is being drawn.
  Correct when there is one primary and it is the right one, no display is off
  the screen or moved by anything but a request, and what a display was last
  sent is what it shows.

`PROJECT.json` ("hazards") lists the places these go wrong, with the properties
that watch each or the reason none does yet.

## The modules

| module | what it is | proofs |
|---|---|---|
| `JobControl` | the job table, its commands and the kernel's process table | `JobControlProofs` |
| `MCJobControl` | instances for TLC | |
| `Redirections` | the descriptor table, the saves, and the calls that nest | `RedirectionsProofs` |
| `MCRedirections` | instances for TLC | |
| `OrderedMap` | what a script sees of a map: a sequence of keys and values, one entry a key | |
| `MapChain` | maps as var.c keeps them, which implement `OrderedMap` | `MapChainProofs` |
| `MCMapChain` | instances for TLC | |
| `DynamicScopes` | what is promised of a name: bindings that cover each other and are uncovered | |
| `Scopes` | locals, parameters and prefix assignments as exec.c and var.c do them, which implement `DynamicScopes` | `ScopesProofs` |
| `MCScopes` | instances for TLC | |
| `Evaluator` | the walk over a script: control flow, errexit, traps and signals | `EvaluatorProofs` |
| `MCEvaluator` | instances for TLC: families of scripts | |
| `Registry` | the loadable modules, what they ask of each other, the indexes of builtins | `RegistryProofs` |
| `MCRegistry` | the modules a desktop loads | |
| `HoldServer` | the server of a held session and the displays that attach to it | `HoldServerProofs` |
| `MCHoldServer` | instances for TLC | |
| `HoldStalls` | that server with peers that make it wait in the middle of a message: what every display may still expect | |
| `MCHoldStalls` | instances for TLC | |
| `Positions` | lemmas: a non-empty set of positions has a first and a last | itself |

`JobControl`, `Redirections`, `Scopes` and `Evaluator` are four views of one shell:
each keeps the state of its own component and lets the others' steps be any
choice. `Evaluator` chooses how a command ends, `JobControl` says how a wait
ends; `Redirections` and `Scopes` choose what a body does, and nest as
`Evaluator`'s calls nest.

### JobControl

`proc` is the kernel's table: what each pid is (free, running, stopped, a
zombie), its group, its status, whether a stop was told to the parent yet. `jobs`,
`jid`, `jcur`, `jprv` are the fields of `sh`, `chld` is `jc_chld`. The shell is
one thread, but any child may act between two of its system calls, so a
command that makes several calls is several actions: `pc` says where in the
command the shell is, and `w` holds the command's locals. `launched` and `hist`
are history: which launch each job is, the status its last process really ended
with, and whether an answer is still owed.

Kernel actions (`KExit`, `KStop`, `KCont`, `KLeave`, `KSignal`, `ModFork`,
`ModReap`) are external. `Start` begins a command: `Background` and `Fork`
(`ex_bg`), `Foreground` (`ex_pipe`), `CmdFg`, `CmdBg`, `CmdKill`, `CmdDisown`,
`CmdJobs`, the forms of `wait`, a command that is neither (`Command`), the
prompt. `Continue` is everything the shell does inside one: `TidyForget`
(`jc_tidy`), `FgReap`, `JobReap`, `AnyReap`, one `waitpid` each; `JobDoze`,
`Wake`, `CapRunsOut`, the sleep in `pselect` with its cap; `CmdEnd` and
`CmdPoll`, the poll after every command; `Walk` and `WalkEnd`, the walk of
`jobs` and of the report, which drops jobs from the table it walks.

### Redirections

`fds` is the descriptor table, a function from numbers to open files or
`Closed`; `Lowest` and `LowestFrom` are how the kernel picks a number. `saves`
is all the `sv` vectors end to end, innermost last; a frame is one call of
`rd_do` with what follows it, and remembers where its saves begin. A frame is a
`body` (group, loop, function, builtin, alias), a `bare` command (no words), or
`exec` alone (`sv` is null: nothing is saved). One action is one turn of
`rd_do`'s loop, with the open, the saves, the `dup2`s and the closes in the
code's order: `OpenKept`, `OpenBothKept` (`&>`), `WordKept` (`>& word`),
`DupKept`, `CloseKept`, the same five under `exec`, and `NameOpen` and `NameDup`
(`{v}>`), which are never saved. `Undo` is one turn of `rd_undo`.

Three variables are history. `past` has, for each save, the table it must lead
back to; `plain` is the table with nothing redirected. A change made for good
from inside a body reaches both, down to the innermost list that has that
descriptor to put back (`Amend`): this is what "permanent" can mean in a body
whose own redirections are undone. `trod` records that a list or a body has
trodden on a save in one of five ways, each a place where the code's scheme does
not hold:

* `landed` - the file was opened on the very descriptor it is meant for before
  that descriptor was saved;
* `full` - `rd_save`'s dup found no room;
* `overwritten` - a body used `exec` on the descriptor a save is kept on;
* `dropped` - a command with no words failed in its list and its saves were let
  go;
* `copied` - a list named a copy as the source of a duplicate. This one breaks
  nothing that is undone, and the properties allow it.

The properties hold as long as none of the first four has happened; three of
the four have a configuration of their own (below). `full` is the fourth: with
`ulimit -n 4; true >/tmp/f; echo x` the shell loses its output, because
`rd_save` (exec.c:278) records a dup that failed as a descriptor that was
closed, and `rd_undo` closes it.

### OrderedMap and MapChain

`OrderedMap` is what the documents promise of an array or a map: entries in the
order their keys were first given, one to a key; `Put`, `Del`, `Copy`, `Clear`,
and `Fill`, by which a module fills an empty one at once.

`MapChain` is how src/src/var.c keeps that promise. `ents` is memory: the entries
and what is in them (`k`, `s`, `tl`, `ix`). `chain` is, for each owner of a map,
the entries its `nx` pointers lead through, `count` the `n` beside it. The head of
a chain holds its tail and, from `HIBR_MPHASH` entries on, an index: a table with
a slot for each of `cap` places, probed one after the other from the key's hash,
with `MP_GONE` where an entry was removed. An action is one call: `PutOld` and
`PutNew` (`v_setp`, `mp_add`), `Del` (`v_delp`, `mp_del`), `Clear` (`v_free_el`),
`Copy` (`v_copy`, `v_copyp`, `m_clone`), `Link` (mods/csv.c, which builds a chain
by hand, with no tail and for the rows of a long table an index). `mp_ixbuild`'s
loop is a step an entry (`BuildStep`, `todo`): no other call can come between, and
what a map holds does not change while it runs, so each is a stutter of
`OrderedMap`. Entries below entries are maps of their own: a `Var` is any owner of
a chain, and a deletion's `mp_free(e->map)` is a `Clear` of another one first.
`Alloc` is the allocator; the instance takes the lowest free entry, so that freed
memory is used again as soon as possible.

`Find` looks where `mp_find` looks, in the index when there is one. `IndexExact`
says that each slot and both counters are right, `ProbeEnds` that an empty slot is
left for `mp_ixput`'s unbounded loop to end at, `HeadKnows` that the tail, the count
and the index are where the code expects them, and `ImplementsMap` that `Seen`, the
keys and values read off the chains, is `OrderedMap`. `PutOld`, `PutNew` and `Del`
go by `Find`, so that an index that misses a key, or finds one that was removed,
is a step `OrderedMap` does not have.

### DynamicScopes and Scopes

`DynamicScopes` is docs/language.md's promise: what is seen of a name is the
binding made last; a call or a command covers names with bindings of its own; when
it ends these go, and what they covered is seen again, or is what the next binding
up covers. `Shown` has what a command's own binding may leave behind, which the
code does on purpose: the export flag, and the binding itself if it was made
readonly meanwhile.

`Scopes` is how the code does it, with two mechanisms that are not alike. A variable
holds a string (`v->v`) and, when it is an array, elements as well (`v->map`, `v->am`);
the string follows element 0. `tab` is the variable table, `env` the process's
environment as `setenv` left it, `saved` the `struct sav` records of `s->scope`
(`local`, `declare`, `fn_bind`) and of `ex_cmd`'s `old` (prefix assignments) in the
order they were made, each with the call it is of, `calls` whether each level is a
function's or a command's. A function lifts the variable itself out of the table
(`v_take`) and puts it back whole (`v_back`). A command copies the value and puts it
back by assigning it, unless the variable held an array. `PutBack` is one record of
`asg_pop`, newest first. Actions that belong to a script come between in any order:
`Assign`, `AssignElement`, `AssignArray`, `Replace` (`read`), `Bind` (`:=`), `Unset`,
`UnsetElement`, `Export`, `Unexport`, `Readonly`. The environment is told when a whole
string is given or taken away and not when an element is (`v_setp`, `v_delp`), so an
exported array's element 0 is what `$name` reads and not what `getenv` answers; a child
is given the table's (`v_envp`). `EnvMatches` says this: an exported *string* is in the
environment, whatever array was there before it, and a name that is not exported has
nothing there unless a function hides an exported variable. `ImplementsScopes` says that
`Scopes` is `DynamicScopes`, with `covered` read off `saved`.

`Exceptions` switches on what a script may do although the code then breaks a promise of
the documents, each with a configuration below: `"eval_local"`, `X=1 eval 'local X'`,
where a record of the function is made after, but put back after, the command's;
`"copied_array"`, a name a command keeps the value of is made an array;
`"fixed_element"`, an element of a readonly array is unset; `"fixed_bind"`, a readonly
name is given a result with `:=`.

### Evaluator

`ex` is recursive; `stk` is its calls, and `up` that the innermost has just had a result
of the call it made. The script is not given: which node comes next (`Choose`) and how a
command ends (`Status`, `Break`, `Continue`, `ReturnFn`, `Exit`, `SetTrap`) is chosen
when the walk gets there, so that one run covers every script of a family within the
bounds. `st`, `tst`, `quit`, `stop`, `ret`, `brk`, `cont`, `loops`, `intry` are fields
of `sh`; `trap`, `pend`, `any` are those of trap.c, `abline` is `ex_abline`. Each caller
of `ex` is a kind of call with the checks that caller makes: lists, `&&` and `||`, `!`,
`if`, groups, loops (`LoopTest`, `LoopTested`, `ForNext`, `LoopBody`), functions
(`FnCall`, `FnUnbound` when the parameters are refused, `FnReturned`, `FnTrapped`),
redirections of a group, an `if` or a loop that fail (`RedirFails`), texts (`sh_runx`:
eval, handlers, try, the script itself), `ex_chk` (`Err`, `Erred`, `Check`), `tr_run`
(`Handle`, `Scan`, `Handled`), the DEBUG, RETURN and EXIT traps. `GiveUp` is a refused
assignment or an operand too many: it stops the line, or under a type or `set -e` the
script, and `LineDone` lets whoever runs the text go on with the next line. Signals
arrive between any two steps (`Arrive`, which is `on_trap`).

`aim` is history: the loop a break or continue that has just run is for, or -1 where
the code promises nothing (a break in a handler about a loop outside it, or in the
condition of a loop it is to leave).

`Lands` says that a break or continue gets there; `NoneLost` that a signal which has
arrived is in `tr_any` or lies before a scan that is under way; `Leaves` that what is
being left is left in the end, a line that was given up among them; `TypeOK` includes
that `ex_loops` counts the loops that are around. `ErrexitStops` is what ADR 0002 says
of `set -e`; the code violates it.

### Registry

`mods` is `s->mods`, `open` what dlopen has mapped, `apis` `s->apis`, `held` which
modules' tables a module keeps pointers to, `mx` the index of loaded modules'
builtins, `bix` the index of the path's, `there` the objects on the path, `old` the
modules that ask for other versions than are offered: such an offer is as good as none,
but ends the search (`Wrong`). Loads nest
in C, as an init asks for an interface and the walk loads the object that says it
has it; `calls` is that stack. `Load` is `m_load` up to the init, `Ask`, `Got`,
`Failed`, `Done` the init's own requests, `Walk` and `Walked` `m_seek` an object at a
time, `Called` a builtin that has asked. What a script asks: `ModLoad`, `Need`,
`ModFind`, `LdAuto` (`m_ldauto`, a command that is nothing else), `Use`, `Drop`,
`DropAll`. `Gone` is a removal from the list, the finaliser's withdrawals and dlclose in
one step: what else a finaliser calls is not modelled, so `OffersLive` says nothing of a
call into a module that has gone, which `UsersFirst.cfg` shows. `Install` is the file
system's. A `Lookup` of a command may come at any
time, also within an init.

The modules' own parts are read from mods/term, mods/hold, mods/pty and
mods/console: what their inits offer, say, and want, and where a builtin keeps a
table it asked for.

### HoldServer

The server is one thread; a pass of `hd_loop` is the phases `poll`, `clients`, `accept`,
`draw`. `srv` is the server: `cls` the clients (`struct hd_cli`), `slots` what is
remembered of a machine's display by name, `shift` how far the origin was normalised,
`gone` is `hd_gone`, `size` the union the program's terminal was sized to, `told` that
the program had its SIGWINCH. `ready` is the list poll answered with, which goes stale
as the pass drops clients. One action is one message or one request: `Hangup`, `Resize`,
`Gfx`, `Depth` from a client; `AskWidth`, `AskNames` and `AskPlace`, the three requests
of a terminal that is to join (`HD_INFO`, `HD_CLIENTS`, `HD_SLOT`, each on a connection
of its own), `AskTakeOver` of one that takes over, and later its `Attach`, with `plan`
what it was told so far (programs/desktop/wm/hold.hibr); `Move`, `SwitchOff`, `Choose`,
`DetachAll`, `Colours`, `Upgrade`, `End`. `Settle` is what the loop puts right after
departures, `Render` the draw, `Due` the deadline of a client that never says what it
draws. Every send may fail, for one client a step, which is dropped on the spot
(`Draw`). The code treats rows and columns alike, line by line, so a place is one
number.

`HoldStalls` adds what the one thread of the server is exposed to: `hd_recv` and `hd_wr`
(src/mods/hold/wire.c) go on until a message is complete, without a limit, so a peer that
has sent half a message or reads no more stops everyone. `stalled` is the server in such
a call; `Stall` may come before any step of any phase, and `GoOn`, the peer sending the
rest or hanging up, need never come.

`owner`, `left` and `did` are history: whose role the primary's is, where each display
was when it went, the request of this pass.

## The runs

| run | bounds | shows |
|---|---|---|
| `script_jobs` | 3 pids, 3 launches, `HIBR_JKEEP` 1 | `TypeOK`, `IdsUnique`, `HeldJob`, `Counted`, `Remembered` for a script |
| `script_status` | 2 pids, 2 launches, two statuses, stops, traps, a module's children, which may leave their group | `WaitAnswers`, `ModuleKeeps` |
| `script_waits` | 2 pids, 2 launches, traps | `WaitReturns`, `FinishNoticed` under fairness |
| `interactive_jobs` | 3 pids, 2 launches of up to 2 processes, stops | `Counted`, `Remembered`, `ReportComplete` with job control |
| `redirected` | descriptors 0..5, 3 saves, 2 nested lists, shells with and without input | `Unwinds`, `Held`, `Restored` |
| `maps` | two maps over 4 entries of memory, 4 keys of which 2 hash alike, indexes of 4 slots or more from 2 entries on | `TypeOK`, `IndexExact`, `ProbeEnds`, `HeadKnows`, and that the chains implement `OrderedMap` |
| `scopes` | one name, two strings and an array, 3 calls or commands nested, 2 records, no exception | `EnvMatches`, and that the table and the records implement `DynamicScopes` |
| `evaluator` | five families of scripts (below), two signals | `TypeOK`, `NoneLost`, `Lands`, `Leaves` under fairness |
| `registry` | pty, term, hold and console wired as in the source, one builtin, objects that come and go, of which hold and console may want other versions | `ListIsOpen`, `IndexFresh`, `OffersLive`, `Settles` under fairness |
| `hold` | 2 displays of two names, one asking at a time, two widths, moves left of the primary, an arrangement of 2 columns, the origin normalised once | `TypeOK`, `OnScreen`, `FrontTrue`, `Sized`, `Returned`, `MoveMeans`, `Anchored` |
| `hold_three` | 3 terminals, 2 of one name, of which 2 are attached at once and one asking, one width, peers that stall the server in any phase | `OnePrimary`, `RoleKept`, `ShownWhenHeard` under fairness |
| `stale_test` | one loop, `&&`, `\|\|`, break, `set -e` | a violation of `ErrexitStops` |

### Why the bounds are enough for the interesting cases

**Jobs.** Two jobs are needed for a drop to move one, three for `jprv` to go stale and
for `HIBR_JKEEP` of 1 to forget one of two finished jobs while a third runs; two
processes a pipeline for "the last one's status" to differ from "the last one
reaped". A pipeline of three, where the middle process is remembered by nobody, does
not finish in minutes and is left out. Statuses are symmetric except where a status is
answered, so one is enough where no property is about answers. `Stops`, `Traps`,
`Modules`, `Leavers`, `Recycle` and `ResumeDone` switch parts of the environment on.
`ResumeDone` is on only for the disagreement it leads to, and `Recycle` in none: with
it `Counted` and `Remembered` fail as a consequence (hazard job.c:339). `Leavers` is on in
`script_status`, for a module's child; with job control a process that leaves its
group is lost to `fg` (hazard job.c:556), and `Remembered` fails.

**Redirections.** Six descriptors leave three free: one for a file, one for a copy and
one for a copy of a copy; the named ones are 1, and 3, which is both the first
descriptor a file opens on and the place of the first copy, so lists can name a
descriptor that is also a save. `&>` saves twice, so three saves are a `&>` within a
redirected body. A shell started without input opens every file on 0 first, and is
an initial state beside the usual one. `FewLast` with `Lasting` 1 bounds what lists
leave behind: outside every list at most one descriptor differs from what the shell
started with; inside a body, changes for good to a saved descriptor are not bounded.
The constraint `StillClean` stops at states in which something has been trodden on:
`trod` only grows and no property but the types says anything of such a state, so
nothing checked is lost. `High`, 10 in the code, is 4.

**Maps.** Four keys make a probe chain: two that hash alike, one in their way and one
whose probe wraps round the end. Indexes start at two entries instead of 16 and at
four slots instead of 32, so that three entries or tombstones bring a rebuild; the
ratios are the code's. Two maps are needed for a copy to share what it should not, and
for freed entries of one to be used by the other. `OneWorn`: of two maps in use one
has no tombstones. `OneSet`: rows without values are in one map, and one of them is
given a value. The view `Places` names entries by their place on a chain instead of
their address, which no definition looks at.

**Scopes.** Names do not interact, in the code or the model, so one is enough; an
empty string and another tell a value from its absence, one array beside the one without
elements the lifting from the copying. Three levels are a command in a function in a
function, two records a variable covered twice, by any two of them.

**Evaluator.** A script of every construct at every depth is out of reach, so a `script`
is a family: the constructs it uses, what its commands do and how deep, how many traps
are set at a time. `Loopy` nests loops, with functions, evals and try in them, and
leaves them every way; `Trapped` sets two of the ERR, DEBUG, RETURN and EXIT traps at a
time, in each other's handlers too; `Signalled` has two signals arrive before, during
and after each other's handlers and the scan; `Interrupted` runs a handler's return or
break just before a loop; `Refusing` gives lines up, within loops, functions, evals, try
and the handler of an ERR, DEBUG or RETURN trap. The depth of a construct bounds what
nests: 5 in `Loopy` is a loop in a function in a loop. `st` is 0 or 1, as nothing looks
at more; `Signals` 2, so that one may arrive behind the scan and one before it.

**Registry.** The four modules have what a desktop has: hold wants two
interfaces of which term, which wants one of them itself, offers the other; console
and term ask for each other's provider from builtins. `need` on names nobody has, a
failing init after others have loaded, and a dropped provider all arise. One builtin
is enough for the index to be stale. `Old` has hold, which asks from its init, and
console, which asks from a builtin: one of each kind.

**Hold.** Three terminals are what a stand-in, its stand-in and a return take; of one
name, two, for one to be given what the other left in the slot they share. Two attached
at once suffice, as the third's turn comes when one has left (`MaxHere`). Two widths make
a size change, one place to the left a normalisation, and `MaxShift` bounds how often.
`MaxAsk` 1: one terminal at a time is between its requests and joining, while the others
do anything but ask. `HoldTwins.cfg` is beside the runs and has what they leave out: two
terminals that ask at once, and so may be told one free name or one edge, and two of
one name attached at once (`MaxTwin` 2); it passes with `OnePrimary` and `RoleKept`, of
which the theorems are for any number of either.

### Fairness

* `JobControl`: weak fairness of `Continue`, the steps inside a command: the kernel
  goes on scheduling the shell's thread, `waitpid` with WNOHANG returns, and
  `pselect` returns when its cap runs out (that cap, in `jc_sleep`, is in the code
  exactly because another thread may take the SIGCHLD). There is none of `Start` - a
  prompt may sit for ever - nor of the kernel: a child may run for ever.
  `FinishNoticed` therefore supposes that the script runs commands for ever.
* `Evaluator`: weak fairness of the walk as a whole: the shell goes on with what it is
  doing. None of any choice, so a loop may run for ever; `Leaves` says that nothing
  that is being left does. None of `Arrive`.
* `Registry`: weak fairness of the steps inside a load or a drop, which are C calls that
  go on (`UNCHANGED old` there only says which versions a module wants stays as it is).
  None of what a script asks.
* `HoldServer` has none: its specification is of safety. A pass does not end by itself,
  because `hd_recv` and `hd_wr` (wire.c:140, 322) wait without a limit for a peer that has
  sent half a message or reads no more, and the comment at wire.c:406 says that the
  server's reads must. `HoldStalls` therefore supposes no more than that a step which is
  let go on again and again gets to its end, since a message is finite (strong fairness of
  `Goes`, while not `stalled`), and that a deadline is looked at when the server is at its
  poll again and again while it is due, since the poll sleeps no longer than until the
  nearest one and every pass looks at all of them (strong fairness of `Wait`). Nothing is
  assumed of a peer: `GoOn` has no fairness. `ShownWhenHeard` is what is left of the promise,
  that every display gets its first frame unless some peer stalls the server for ever,
  and `Stalled.cfg` shows that this condition is needed.
* `Redirections`, `MapChain` and `Scopes` state no liveness: nothing there waits.

Deadlock is checked except in `Evaluator`'s runs, where a script ends.

## Where the code and the documents disagree

Each was confirmed on a build of the shell, but for `Stalled.cfg`, which is read from
the code. `stale_test` is a run of the project; the
others are shown by a configuration kept beside it, by which TLC finds the property
violated, and are described here because the properties of the runs are stated
around them.

* `StaleTest.cfg`, `ErrexitStops`: `ex` sets `s->tst` for the node it calls next
  (exec.c:2940), and a node that is passed over, because a break, continue or return is
  under way, does not take it; the next command that runs does and is exempt from
  errexit. One to a line, `set -e; for i in 1; do break && x || y; done; false; echo
  leaked` prints leaked, where docs/adr/0002-errexit-is-scoped.md:16 says "Exemption
  applies only to the pipeline being tested".
* `BgFinished.cfg`, `RunningIsAlive`: `bg` marks a job running before it finds there
  is nobody to signal (job.c:780): `(exit 7) & sleep .2; bg; jobs` shows it Running
  for ever; docs/builtins.md:290 says `jobs` is to "list active jobs".
* `PipelineStatus.cfg`, `WaitStatus`: `wait` for a pipeline whose last process was
  reaped by an earlier `fg` or poll answers 0 instead of its status (job.c:319).
* `CurrentJob.cfg`, `CurrentExists`: after two drops `%+` names nothing though the table
  holds a job (job.c:209).
* `Landed.cfg`, `RestoredWhenLanded`: `true 3>/tmp/f; echo x >&3` writes to f, when 3
  was free (exec.c:479): the redirection of `true` is never undone.
* `Overwritten.cfg`, `RestoredWhenOverwritten`: `{ exec 4>/tmp/g; } >/tmp/f; echo x`,
  when 3 and 4 were free, leaves standard output on g: the save of 1 was kept on 4
  (exec.c:278).
* `Dropped.cfg`, `RestoredWhenDropped`: `>/tmp/f </nonexistent; echo x` leaves standard
  output on f (exec.c:1842).
* `EvalLocals.cfg`, `ImplementsScopes`: `ex_cmd` keeps what its assignments cover in a
  list of its own, and `local` keeps its in the function's, so the two are not put back
  in reverse (exec.c:2072): `X=0; f(){ X=1 eval 'local X=2'; }; f; echo $X` prints 1.
* `CopiedArray.cfg`, `ImplementsScopes`: what a command keeps of a string is its value, and
  putting that back assigns to whatever the name is by then; a string assigned to an
  array empties it and leaves it one: `X=0; f() { X=(a b); }; X=1 f; declare -p X` prints
  `declare -ax X=()`, where docs/language.md:511 says that a binding is restored.
* `FixedElement.cfg`, `ImplementsScopes`: `v_delp` does not look at the readonly flag:
  `Z=(1 2); readonly Z; unset 'Z[0]'` succeeds, where docs/builtins.md:108 has `unset` remove array
  elements too and says "a readonly variable is refused with status 1".
* `FixedBind.cfg`, `ImplementsScopes`: `v_copy` is refused the string and goes on with the
  elements (var.c:1013): `readonly Z=5; g() { RET=(x y); ret -k; }; Z := g` makes Z an
  array; docs/language.md:594 lists "an assignment to a readonly" with what stops a script.
* `LineGivenUp.cfg`, `LineGivenUp`: `fn_call` runs the RETURN trap with its flags set aside
  and puts the stop back after it, when the text that is the handler has taken `ex_abline`
  away: `readonly R=1; f() { trap 'echo ret' RETURN; R=2; }; f`, and the next line never
  runs; the comment at bi.c:433 says "so the next line still runs".
* `Stalled.cfg`, `Shown`: see Fairness; srv.c gives every display a deadline for its first
  frame, and one peer that sends half a message keeps all of them from it.
* `UsersFirst.cfg`, `UsersFirst`: `m_load` puts a module on the list before its init
  asks for others, so those are newer and `m_dropall`, newest first, unloads pty before
  term, whose finaliser then calls into it (mod.c:416, mods/term/term.c:1017): `mod
  load term; x := term open sleep 30` ends in a segmentation fault when the script
  does. The comment at mod.c:407 says "a module that asked for another's table goes
  before the one that offered it".
* `HoldGone.cfg`, `Settled`: `hd_loop` puts departures right before it draws, so a
  display whose send fails while drawing leaves the next poll waiting with no primary
  and the old union (srv.c:1345); the comment at srv.c:88 says the loop puts it right
  "however a display went".
* `ExitKept.cfg`, `ExitKept`: an exit's status is lost in an ERR, DEBUG, RETURN or EXIT
  handler and in try, where what runs the text puts the status it had back;
  tests/997-trap-exit.t:1 says "exit inside a trap ends the shell with its own status",
  and tests a signal's.
* `TestedIsExempt.cfg`, `TestedIsExempt`: a handler takes the tested flag that was meant
  for the command it runs before: `set -e; trap : USR1; kill -USR1 $$ && false || echo
  ok` exits 1.

Found while reading, and modelled as the code has them: a compound command whose
redirection fails neither ends a script under `set -e` nor runs the ERR trap (`set -e; {
:; } </nonexistent; echo on` prints on, exec.c:2995); the first command of a list in
a condition, and one in braces or a `case` there, is not exempt (`set -e; { false; } ||
echo ok` exits); a break in the condition of a loop leaves `tst`, and in the last loop
ends the script: `until break; do :; done; echo here` prints nothing (exec.c:2339,
docs/builtins.md:256); a handler's break or return lets one more command run;
`trap - ERR` in the ERR handler is undone (trap.c:281); `Y=0; Y=1 f` leaves Y exported;
`local Z` hides an exported Z from a child at once, since `v_envp` builds what a child
gets from the table, where the comment at var.c:339 says that "until the local is given
a value, a child still sees the outer one"; with no room for a descriptor, `rd_save` records a
dup that failed as a descriptor that was closed (exec.c:278): after `ulimit -n 4; true
>/tmp/f` the shell has no output.

## What is proved

The proofs suppose the modules' assumptions on constants, and some theorems hypotheses
more, which their paragraphs give (`Steady` for JobControl's from the counting on, with
`~ResumeDone` for two of them and `~Interactive` for one; what `Exceptions` has for
Scopes; one offer an interface for Registry): `ConstantsAssumption` (finitely many pids,
positive bounds, statuses of eight bits), `RedirectionsAssumption` (at least the
descriptors 0, 1 and 2; `Path` among `File`, `Closed` outside it), `ScopesAssumption` (a
string is not an array, and `None` neither; the bare array is an array), `MapAssumption`
(finitely many keys and addresses, an allocator that gives free entries and gives none
twice, indexes of at least four slots), `RegistryAssumption` (the types of what modules
offer, say and want; any of them may be of other versions), `EvaluatorAssumption`
(finitely many signals, numbered from 1; a family of scripts is made of the constructs
there are) and `HoldAssumption` (each terminal goes by a name, a display has a width,
`None` is no slot, a name is for one terminal at least). They hold for any number of
pids, descriptors, launches, nested lists, names, calls, maps, keys, scripts, signals,
modules, terminals and sizes, for any hash and any allocator; the bounds are arbitrary
constants.

**JobControl.** `TypeCorrect` and `HeldJobCorrect` are one induction: that an
index such as `At(w.id)` is in the table needs the held job to be there, and that
it is there needs the types. The invariant is `Typed` (types, `HeldJob`, and room
for one more launch while a fork is under way), with one lemma an action over
lemmas about `Without`, `Drop`, `Added` and `Poll`. `IdsUniqueCorrect` is an
induction over what a step may do to the table: `TableStep` says that every step
keeps the jobs' numbers, drops a job, adds one with the next number, or starts
again from an empty table; each of the four keeps numbers distinct and at most
`jid`.

The other five need `Steady`: no pid is handed out again
while the table names it (`~Recycle`), and under job control no process leaves its
group and no pipeline has a process between the first and the last. Each part is a
hazard of the code: a pid is looked up in finished jobs too (job.c:339), a middle
process is remembered by nobody (job.c:350), and one that left its group is lost to
`fg` (job.c:556). A script's jobs may be left by anything and the theorems hold of
finished jobs that are resumed as well.

The invariant of the first is `CountInv`: `Typed`; that every process is of a launch
or a module (`ProcsFit`); that a job's processes are those it names that the kernel
still has, that under job control they are its group, that with those counted they
are all there were, and that no two jobs name one pid (`TableBut`); and that a pid
waited for by itself is no job's (`Asked`). `jc_note` finds the job of a process by
those names, so a process reaped is counted once, for the job it is of (`Reap`,
`Same`). `TableBut` leaves a place out because a wait counts the last process of a job
and drops the job in one step.

The second, `MemInv`, adds that nobody has a history before it is launched (`Unborn`),
that numbers are given out in the order of launches (`Order`) and that the job a wait
holds is running (`Running`). Each action is put as what it does to three things: the
table (`Move`), what a script may still ask (`Noted`) and the processes (`Shrinks`).
The step that could lose an answer is `jc_tidy`'s: it drops a finished job only when
`HIBR_JKEEP` finished ones stay behind it, and by `Order` those were all launched
later, so at least `HIBR_JKEEP` launches are (`TidyMoves`, a one-to-one map of the jobs
that stay into the later launches).

`ModuleKeepsCorrect` is of the steps, over `CountInv`: a module's child is no job's
process, so no job asks for it (`Foreign`), not by its group, not by its own pid and not
in a poll.

`ReportCompleteCorrect` supposes `~ResumeDone` as well: `fg` and `bg` are not used on a
finished job, which they would mark running again (job.c:780, as `BgFinished.cfg`
shows). The walk of a report drops finished jobs and steps over the others, and a drop
moves the last job into the place it is at: that none is behind it is `Walked`. A job is
stepped over when it was shown before, so a finished one must never have been:
`Reported` says that of every job (`Sound`), and that one with all its processes counted
is finished, but for the job a wait holds.

`WaitAnswersCorrect` is of a script (`~Interactive`), where a job is one process; of a
pipeline under job control it is false, which `PipelineStatus.cfg` shows. The status goes from
the process to the table or to the wait, and from there to the answer, and `AnswerInv`
follows it: a process is the last of its launch and a zombie has the launch's status
(`Ends`); a finished job has it (`Told`), and is of the last launch of its pid, so that a
pid means the launch its job is of (`MeantIs`); a wait for a job has it as soon as all of
the job is counted (`Taking`); and an answer, once given, is of a launch with no process
left, whose status no longer changes (`Answered`).

**Redirections.** `UnwindsCorrect` and `HeldCorrect` are one induction too. That
putting save `i` back rebuilds the table it was made from needs its copy to be
open still, or to be put back by a later save; that the copy survives needs every
later change to leave it alone or to be recorded above it. The invariant `Inv` is
`TypeOK /\ Unwinds /\ Held`. The proof first shows what a chain of saves means
(`ChainMeaning`, `ChainAt`), how it grows (`Push`), shrinks (`Pop`) and follows a
change made for good (`AmendChain`); each redirection is then one or two pushes
with what `rd_save` and `dup2` do to a table (`SavedTable`, `BackSaved`,
`Resave`). `RestoredCorrect` needs one more fact, `Based`: outside every call
nothing is saved, from which `Above(0) = plain` is `fds = plain`.

**MapChain.** Five theorems come of one induction, over `Inv`: memory holds entries, no
entry is on two chains, and each chain is `Sound` - keys of its own, the tail known to
the head or to nobody, and an index, if there is one, that `Fits` what it is said to
hold. While `BuildStep` runs that is the part of the chain before `todo`, which is what
an index made in one go could not have said. `Fits` is the fact about open addressing:
an entry is reached from its key's hash over no empty slot, a slot holds an entry or a
tombstone, both counters are right, and their sum is less than the slots, so that the
probes end (`EmptySlot`). `ProbeCovers` says that a probe visits every slot, `PutFits` and
`DelFits` that `mp_ixput` and `mp_ixdel` keep `Fits`. An action changes one map and
leaves the others' entries alone; `OneMap` takes the invariant from the map to them
all, and `LayStep` does the same for the calls that make a chain at once (`Copy`,
`Link`). `TypeCorrect`, which includes that every entry of a chain is live and on that chain
once and on no other, `IndexExactCorrect`, `ProbeEndsCorrect` and `HeadKnowsCorrect` read
off `Inv`. `ImplementsMapCorrect` is the refinement of `OrderedMap`, in the same
step lemmas: `Find` is the chain's position of a key whether it walks or probes, each
call is then `Put`, `Del`, `Copy`, `Clear` or `Fill` of the map it is of, and a step of
`BuildStep` shows a script nothing.

**Scopes.** `EnvMatchesCorrect` is an induction whose invariant is `EnvMatches` name by
name (`Matches`): a step that changes a variable keeps its own name's by what `Set`,
`Del`, `Back` do to both tables, a step that only changes elements leaves a variable that is
an array, of which nothing is claimed, and a step that takes a record away must show that it
was not the one that excused what the environment has (`Hidden`). It holds whatever else a
script does, but for `"fixed_bind"`. `ScopesCorrect` is
the refinement: initial states map to initial states (`Promised!Init`), and every step
to a step of `DynamicScopes` or a stutter. `PutBack` is the hard one: the abstract
`Uncover` gives what a record covered to the next record above it of the same name,
and the code assigns to the table. They agree because the newest record of the
innermost call has none above it, which is `Tidy`: records are in the order of the
calls they are of, and only a command keeps a copy. `Tidy` needs that nothing is
`"eval_local"`, and that what a command put a copy of aside is a string when the copy is
put back (`StringsCopied`) that nothing is `"copied_array"`. `ScopesCorrect` supposes that
`Exceptions` is empty, and the four configurations show that none of them can be let in.

**Registry.** `TypeCorrect` is types together with `Nested`: an init under way is of a
module on the list, of no module twice, and at a request it makes; without it neither
`Top.k` nor `Place` is in range. `ListIsOpenCorrect` goes by what a step may do to the
list and the mapped objects together: neither changes, one that was in neither joins
both, or one that was in both leaves both. `IndexFreshCorrect`: an index that is
current was built from the list as it is, since every change of the list forgets it.
`OffersLiveCorrect` is two inductions, over `Claims` (an offer is of a loaded module
that makes it, and of none whose init runs) and over `Offered` (whoever is through its
init has its offers). The second has a hypothesis, that no two modules offer one
interface: with two, the one that goes withdraws the other's by name
(`hibr_unprovide`), and nothing in the code prevents it.

**HoldServer.** `OnePrimaryCorrect`, `OnScreenCorrect`, `FrontTrueCorrect`,
`SizedCorrect` and `TypeCorrect` are one induction, over `Inv`. The server is `Loose`
when its types are right, there is at most one primary and, unless a departure is still
to be put right, one at all, no remembered place is off the screen, and what each
display was sent is of where it is; `Good` when, besides, no display is off the screen
and the terminal has the size of the union. Each operation of the server has a lemma:
a client that joins, moves or changes its size leaves it `Loose` (`JoinLoose`,
`PutLoose`), `hd_union` makes a loose one good (`UnionGood`), and drawing, a failed
send, telling the program or dropping a display keep it good (`DrawGood`, `PokeGood`,
`DropGood`). That is why nearly every handler calls `hd_union` before it draws, and the
proof of an action is the order of those calls. `Heard`, that the program was told, is
carried beside it. `SlotsFit` could not be had of the places alone: a place that is
remembered stays on the screen because the origin is only ever normalised one way
(`Shifted`), which also needs that `Lowest` exists (`Least`). That a terminal which
joins is given a name at all (`dt_dispfree`) is the pigeonhole, `FreeNameExists`.

`RoleKeptCorrect`, `ReturnedCorrect`, `MoveMeansCorrect` and `AnchoredCorrect` are a second
induction over the first, with `Memory`: no terminal is attached twice (`Apart`, under
which the place of a terminal has a meaning at all), a role that is not lost is with the
display it belongs to or remembered of it (`Roles`), what is remembered of a place is
where the display was when it last went (`Whence`), and nobody is told a place off the
screen. Each operation of the server is shown to be one of few kinds of change: nothing a
property sees (`Same`), one client gone and remembered (`Gone`), one come (`Joined`); and
since a failed send may drop a client in any of them, a handler is a chain of changes in
which at most one display goes and no other is moved (`Follows`, `Calm`). Places are
compared in the frame of the session (`PlaceOf`), since `hd_union` renumbers them all when
something is put to the left of the first. A display takes a role only when it comes first
with nobody remembered, or is chosen (`Takes`, `JoinRoles`); every other handler keeps
`Roles`, and that is `RoleKept`. `Anchored` is of the steps: at most one display that stays
is somewhere else after a step, and it is the one this pass asked to move.

**Evaluator.** `TypeCorrect` and `LandsCorrect` are one induction, over `EvInv`: `Types`,
which has the flags and counts, and `Frames`, which is three facts about the stack of
calls. Its shape (`ShapeOf`): the shell is outermost and nowhere else, every call but the
innermost is where it waits for one it made, a node only ever waits for handlers, and
each function keeps the number of loops there were around it. `ex_loops` is the `Level`
of the stack, the loops since the last function call. And what a break or continue finds
on its way (`AimedOf`): from its loop inwards all calls are at places where they look at
`brk` and `cont` after `ex` and return (`Passable`), one of the two is zero, and the
other is the number of loops from the innermost to the one aimed at. The last is why
`Lands` holds, and is not inductive without the others: a loop that returns takes one
from the count and from the level at once, but only because `ex_loops` counts what
`Level` does, which a function that returns in the middle of its loops could upset, had
it not kept what was around it. An action is one of three changes to the stack - the
innermost call goes on, makes a call or returns (`BecomeStep`, `MakeStep`, `ReturnStep`,
over `LevelStep`) - and `LeftFrames` begins the way of a break: the loop `Left(n)` is the
n-th from the top (`NthExists`), and what lies between is passable because it waits.

`NoneLostCorrect` needs no more than `EvInv` beside itself. A signal that is pending and
not in `tr_any` lies before a scan; a step that is not of a scan leaves every scan where
it is, since only the innermost call changes (`Below`, `Elsewhere`); a scan passes a
signal only when it is not pending or is to be run (`ScanKeeps`); and a signal that
arrives behind it has set `tr_any` again, which no step clears but the one that begins a
new scan. A scan that is given up, by an exit in its handler, goes with `quit`.

**Positions** has the two facts about sets of positions that the proofs above take
from the well-ordering of the naturals.

**Only model-checked.** Liveness (`WaitReturns`, `FinishNoticed`, `Leaves`, `Settles`,
`ShownWhenHeard`), which the prover cannot do under fairness. Every invariant and every action
property of a passing run is a theorem as well, and so are the two refinements. The type
invariants of Redirections, Scopes and Registry are proved rather than checked in a run.

## What is not modelled

In JobControl: a fork that fails after `jc_new` has entered a foreground job
(exec.c:1985): of one command it leaves a job without a process, which is shown running
for ever and which the theorems suppose away, and of a pipeline it leaves a shorter one;
`HIBR_TIMEOUT` (`jc_waitt`), pids the kernel hands out again while the table names them
(`Recycle`, written but set by no run), PIPESTATUS of a foreground job, which process
group owns the terminal, hangup, process substitutions; a script's own pipelines, whose
stages it waits for one by one. In Redirections: numbers beyond the process's limit,
plan mode, noclobber's test, sockets apart from the descriptor they give, redirections a
forked child makes for itself. In MapChain: attributes, the copy of element 0 a
variable's own value keeps, types of JSON values, two columns of one name in `csv read
-H`. In Scopes: the hash of the variable table, integer and case attributes, namerefs,
`declare -a` of a name that has a value, allexport, the function table and its index. In
Evaluator: select, the C-style for, `time`, what bare `(( ))` and `[[ ]]` add, subshells
and pipelines (each child is a walk of its own, with the traps and flags fork leaves
it), `set -n`, `set -o keepgoing`, an interactive shell, which goes on where a script
ends. In Registry: what a finaliser calls besides withdrawing its offers, the exec
hooks, the file modules declare their builtins in, listings. In HoldServer: a display
nobody named (`client-N`, srv.c:213, whose place is never remembered; `dt_dispname` of
hold.hibr always finds a name), a request whose answer comes too late for who asked
(`HD_REPLYMS`), the bytes on the wire, the client's half, what keys and the mouse send,
the terminal a session runs.

Elsewhere: what the components list in `PROJECT.json` says under `not_modelled`, for
the reason it gives: text in, text out (lexer, parser, expansion, documents, plan
mode), one call of the system (most builtins), data (screens, images), or not yet.
Most of the source is of those kinds - parsers of documents and mail, tables of
Unicode and entities, the desktop's drawing - which is why the share of lines the
modules stand for is small although the shell's order-sensitive core is in them.

## The plan

1. Subshells and pipelines of `Evaluator`, with what a fork keeps of traps and flags;
   process substitutions over `Redirections`.
2. Timeouts and hangup in JobControl; the function index; arenas and their marks.
3. The line editor's history and the connection retries of networking.

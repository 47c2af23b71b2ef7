--------------------------- MODULE Redirections ---------------------------
(***************************************************************************)
(* Redirections on the shell's own descriptors: rd_do, rd_save and rd_undo *)
(* of src/src/exec.c, and the three ways they are called.  A group, loop,  *)
(* function, alias or builtin applies a list, runs its body and undoes the *)
(* list; a command with no words applies and undoes it; `exec' with no     *)
(* program applies it for good.  Bodies nest.  Redirections made in a      *)
(* forked child die with the child and are not here.                       *)
(*                                                                         *)
(* What rd_save keeps is itself a descriptor, the lowest free one, in the  *)
(* table that the list and the body go on changing.                        *)
(***************************************************************************)
EXTENDS Integers, Sequences

CONSTANTS
  Top,        \* the highest descriptor the process may have (its limit)
  High,       \* where {v}> puts its descriptors: 10 in the code
  File,       \* open files, as descriptors share them
  Path,       \* those a redirection opens
  Closed,     \* what a free descriptor holds
  Given,      \* the tables the shell may start with
  Named,      \* bound: the descriptors that lists name
  MaxSaves,   \* bound: saved descriptors at one time
  MaxDepth    \* bound: lists within bodies of lists

Fd == 0..Top
NoFd == -1
Table == [Fd -> File \cup {Closed}]

ASSUME RedirectionsAssumption ==
  /\ Top \in Nat /\ Top >= 2 /\ High \in Nat
  /\ Path \subseteq File /\ Closed \notin File
  /\ Given \subseteq Table /\ Named \subseteq Fd
  /\ MaxSaves \in Nat /\ MaxDepth \in Nat

Kind == {"body", "bare", "exec"}
Phase == {"list", "listed", "body", "undo"}
Frame == [kind : Kind, phase : Phase, base : Nat, ok : BOOLEAN]
Save == [fd : Fd, copy : Fd \cup {NoFd}]

VARIABLES
  fds,     \* the process's descriptors
  saves,   \* what every sv vector holds, innermost list last
  frames,  \* the calls in progress: rd_do, the body, rd_undo
  \* History, which the code does not keep:
  past,    \* for each save, the table to come back to
  plain,   \* the table with nothing redirected: what exec and {v} have made
  trod     \* in which ways a descriptor has been trodden on

vars == <<fds, saves, frames, past, plain, trod>>

Cause == {"landed", "full", "overwritten", "dropped", "copied"}

-----------------------------------------------------------------------------
\* The lowest free descriptor not below a number, as open, dup and
\* fcntl(F_DUPFD) choose it.
LowestFrom(n, t) ==
  LET free == {d \in Fd : d >= n /\ t[d] = Closed}
  IN  IF free = {} THEN NoFd ELSE CHOOSE d \in free : \A x \in free : d <= x

Lowest(t) == LowestFrom(0, t)

\* rd_save: a copy of the descriptor, or none.
Copy(t, d) == IF t[d] = Closed THEN NoFd ELSE Lowest(t)
Entry(t, d) == [fd |-> d, copy |-> Copy(t, d)]
Saved(t, d) == IF Copy(t, d) = NoFd THEN t ELSE [t EXCEPT ![Copy(t, d)] = t[d]]

\* One turn of rd_undo's loop: dup2 and close, or close.  dup2 from a
\* descriptor that is closed by now does nothing.
Back(e, t) ==
  IF e.copy = NoFd THEN [t EXCEPT ![e.fd] = Closed]
  ELSE IF t[e.copy] = Closed THEN t
  ELSE [t EXCEPT ![e.fd] = t[e.copy], ![e.copy] = Closed]

-----------------------------------------------------------------------------
Last == frames[Len(frames)]
Listing == frames # <<>> /\ Last.phase = "list"
Keeping == Last.kind # "exec"

SetLast(f) == frames' = [frames EXCEPT ![Len(frames)] = f]
Went(ok) == SetLast([Last EXCEPT !.ok = @ /\ ok])

\* A descriptor that holds a save and nothing else.
Private(d) ==
  \E i \in DOMAIN saves : /\ saves[i].copy = d
                          /\ \A j \in i + 1..Len(saves) : saves[j].fd # d

Full(t, d) == t[d] # Closed /\ Lowest(t) = NoFd
Trod(c) == trod' = trod \cup c
Because(c, holds) == IF holds THEN {c} ELSE {}

\* A change made for good reaches every table to come back to, down to the
\* innermost list that has that descriptor to put back.
Within(i, d) == \E j \in i..Len(saves) : saves[j].fd = d
Amended(i, t, D, x) ==
  [d \in Fd |-> IF d \in D /\ ~Within(i, d) THEN x ELSE t[d]]
Amend(D, x) ==
  /\ past' = [i \in DOMAIN past |-> Amended(i, past[i], D, x)]
  /\ plain' = Amended(1, plain, D, x)

-----------------------------------------------------------------------------
\* open, rd_save, dup2, close: what `d< f', `d> f', here-documents and
\* sockets do to the table, without &>.
Opened(x) == [fds EXCEPT ![Lowest(fds)] = x]
Moved(t, d, x) ==
  IF Lowest(fds) = d THEN t ELSE [t EXCEPT ![d] = x, ![Lowest(fds)] = Closed]

OpenKept(d, x) ==
  /\ Listing /\ Keeping /\ Lowest(fds) # NoFd /\ Len(saves) < MaxSaves
  /\ fds' = Moved(Saved(Opened(x), d), d, x)
  /\ saves' = Append(saves, Entry(Opened(x), d))
  /\ past' = Append(past, fds)
  /\ Trod(Because("landed", Lowest(fds) = d) \cup Because("full", Full(Opened(x), d)))
  /\ Went(TRUE)
  /\ UNCHANGED plain

\* `&> f': the same on 1, then 2 saved and made a copy of 1.
OpenBothKept(x) ==
  LET one == Moved(Saved(Opened(x), 1), 1, x) IN
  /\ Listing /\ Keeping /\ Lowest(fds) # NoFd /\ Len(saves) + 1 < MaxSaves
  /\ fds' = [Saved(one, 2) EXCEPT ![2] = one[1]]
  /\ saves' = saves \o <<Entry(Opened(x), 1), Entry(one, 2)>>
  /\ past' = past \o <<fds, one>>
  /\ Trod(Because("landed", Lowest(fds) = 1)
          \cup Because("full", Full(Opened(x), 1) \/ Full(one, 2)))
  /\ Went(TRUE)
  /\ UNCHANGED plain

\* `>& word': both are saved before either is replaced, and a file that was
\* opened as 0, 1 or 2 is left open.
WordKept(x) ==
  LET one == Saved(Opened(x), 1)
      two == [Saved(one, 2) EXCEPT ![1] = x, ![2] = x]
      low == Lowest(fds) <= 2
  IN
  /\ Listing /\ Keeping /\ Lowest(fds) # NoFd /\ Len(saves) + 1 < MaxSaves
  /\ fds' = IF low THEN two ELSE [two EXCEPT ![Lowest(fds)] = Closed]
  /\ saves' = saves \o <<Entry(Opened(x), 1), Entry(one, 2)>>
  /\ past' = past \o <<fds, [one EXCEPT ![1] = x, ![Lowest(fds)] = Closed]>>
  /\ Trod(Because("landed", low)
          \cup Because("full", Full(Opened(x), 1) \/ Full(one, 2)))
  /\ Went(TRUE)
  /\ UNCHANGED plain

\* `d>&n': saved whether or not n is open, and n looked at only afterwards.
DupKept(d, n) ==
  LET t == Saved(fds, d) IN
  /\ Listing /\ Keeping /\ Len(saves) < MaxSaves
  /\ fds' = IF t[n] = Closed THEN t ELSE [t EXCEPT ![d] = t[n]]
  /\ saves' = Append(saves, Entry(fds, d))
  /\ past' = Append(past, fds)
  /\ Trod(Because("full", Full(fds, d))
          \cup Because("copied", Private(n) \/ (fds[n] = Closed /\ t[n] # Closed)))
  /\ Went(t[n] # Closed)
  /\ UNCHANGED plain

\* A mutant: the descriptor is closed and not saved.
MutCloseKept(d) ==
  /\ Listing /\ Keeping
  /\ fds' = [fds EXCEPT ![d] = Closed]
  /\ Went(TRUE)
  /\ UNCHANGED <<saves, past, plain, trod>>

\* `d>&-' and `{v}>&-', whose variable may hold any number.
CloseKept(d) ==
  /\ Listing /\ Keeping /\ Len(saves) < MaxSaves
  /\ fds' = [Saved(fds, d) EXCEPT ![d] = Closed]
  /\ saves' = Append(saves, Entry(fds, d))
  /\ past' = Append(past, fds)
  /\ Trod(Because("full", Full(fds, d)))
  /\ Went(TRUE)
  /\ UNCHANGED plain

-----------------------------------------------------------------------------
\* The same under `exec': nothing is saved.
ForGood(D, x) ==
  /\ Amend(D, x)
  /\ Went(TRUE)
  /\ UNCHANGED saves

Overwritten(D) == Because("overwritten", \E d \in D : Private(d))

OpenForGood(d, x) ==
  /\ Listing /\ ~Keeping /\ Lowest(fds) # NoFd
  /\ fds' = Moved(Opened(x), d, x)
  /\ Trod(Overwritten({d}))
  /\ ForGood({d}, x)

OpenBothForGood(x) ==
  /\ Listing /\ ~Keeping /\ Lowest(fds) # NoFd
  /\ fds' = [Moved(Opened(x), 1, x) EXCEPT ![2] = x]
  /\ Trod(Overwritten({1, 2}))
  /\ ForGood({1, 2}, x)

WordForGood(x) ==
  LET both == [Opened(x) EXCEPT ![1] = x, ![2] = x] IN
  /\ Listing /\ ~Keeping /\ Lowest(fds) # NoFd
  /\ fds' = IF Lowest(fds) <= 2 THEN both ELSE [both EXCEPT ![Lowest(fds)] = Closed]
  /\ Trod(Overwritten({1, 2}) \cup Because("landed", Lowest(fds) = 0))
  /\ ForGood({1, 2}, x)

DupForGood(d, n) ==
  /\ Listing /\ ~Keeping /\ fds[n] # Closed
  /\ fds' = [fds EXCEPT ![d] = fds[n]]
  /\ Trod(Overwritten({d}) \cup Because("copied", Private(n)))
  /\ ForGood({d}, fds[n])

CloseForGood(d) ==
  /\ Listing /\ ~Keeping
  /\ fds' = [fds EXCEPT ![d] = Closed]
  /\ Trod(Overwritten({d}))
  /\ ForGood({d}, Closed)

-----------------------------------------------------------------------------
\* `{v}> f' opens above 9, or where it can, and lasts, whoever asks for it.
NameOpen(x) ==
  LET hi == LowestFrom(High, Opened(x))
      d  == IF hi = NoFd THEN Lowest(fds) ELSE hi
  IN
  /\ Listing /\ Lowest(fds) # NoFd
  /\ fds' = [fds EXCEPT ![d] = x]
  /\ ForGood({d}, x)
  /\ UNCHANGED trod

\* `{v}>&n'.
NameDup(n) ==
  LET d == LowestFrom(High, fds) IN
  /\ Listing /\ fds[n] # Closed /\ d # NoFd
  /\ fds' = [fds EXCEPT ![d] = fds[n]]
  /\ Trod(Because("copied", Private(n)))
  /\ ForGood({d}, fds[n])

\* A word that is no descriptor, or under `exec' a closed one, fails and the
\* list goes on; a file that cannot be opened, for one because the table is
\* full, ends it.
ItemFails ==
  /\ Listing /\ Went(FALSE)
  /\ UNCHANGED <<fds, saves, past, plain, trod>>

OpenFails ==
  /\ Listing /\ SetLast([Last EXCEPT !.ok = FALSE, !.phase = "listed"])
  /\ UNCHANGED <<fds, saves, past, plain, trod>>

-----------------------------------------------------------------------------
\* A command whose words are done begins its list, in the shell's own
\* process.
Begin(k) ==
  /\ Len(frames) < MaxDepth
  /\ frames # <<>> => Last.phase = "body"
  /\ frames' = Append(frames, [kind |-> k, phase |-> "list",
                               base |-> Len(saves), ok |-> TRUE])
  /\ UNCHANGED <<fds, saves, past, plain, trod>>

Leave == frames' = SubSeq(frames, 1, Len(frames) - 1)

\* rd_do returns: the body runs if the list went well, and the list is
\* undone otherwise.
Returned == frames # <<>> /\ Last.phase \in {"list", "listed"}

RunBody ==
  /\ Returned /\ Last.kind = "body" /\ Last.ok
  /\ SetLast([Last EXCEPT !.phase = "body"])
  /\ UNCHANGED <<fds, saves, past, plain, trod>>

\* A mutant: a list that failed is not undone.
MutGiveBack ==
  /\ Returned /\ Last.kind = (IF Last.ok THEN "bare" ELSE "body")
  /\ IF Last.ok THEN /\ SetLast([Last EXCEPT !.phase = "undo"])
                     /\ UNCHANGED <<saves, past>>
     ELSE /\ Leave
          /\ saves' = SubSeq(saves, 1, Last.base)
          /\ past' = SubSeq(past, 1, Last.base)
  /\ UNCHANGED <<fds, plain, trod>>

GiveBack ==
  /\ Returned /\ Last.kind = (IF Last.ok THEN "bare" ELSE "body")
  /\ SetLast([Last EXCEPT !.phase = "undo"])
  /\ UNCHANGED <<fds, saves, past, plain, trod>>

\* A bare command whose list failed lets its vector go instead.
LetGo ==
  /\ Returned /\ Last.kind = "bare" /\ ~Last.ok
  /\ Leave
  /\ saves' = SubSeq(saves, 1, Last.base)
  /\ past' = SubSeq(past, 1, Last.base)
  /\ Trod(Because("dropped", Len(saves) > Last.base))
  /\ UNCHANGED <<fds, plain>>

Lasts ==
  /\ Returned /\ Last.kind = "exec"
  /\ Leave
  /\ UNCHANGED <<fds, saves, past, plain, trod>>

\* The body ends, by its end, a return, a break or an interrupt.
BodyEnds ==
  /\ frames # <<>> /\ Last.phase = "body"
  /\ SetLast([Last EXCEPT !.phase = "undo"])
  /\ UNCHANGED <<fds, saves, past, plain, trod>>

\* A mutant: first save first.
MutUndo ==
  /\ frames # <<>> /\ Last.phase = "undo" /\ Len(saves) > Last.base
  /\ fds' = Back(saves[Last.base + 1], fds)
  /\ saves' = SubSeq(saves, 1, Last.base) \o SubSeq(saves, Last.base + 2, Len(saves))
  /\ past' = SubSeq(past, 1, Last.base) \o SubSeq(past, Last.base + 2, Len(past))
  /\ UNCHANGED <<frames, plain, trod>>

\* rd_undo, last save first.
Undo ==
  /\ frames # <<>> /\ Last.phase = "undo" /\ Len(saves) > Last.base
  /\ fds' = Back(saves[Len(saves)], fds)
  /\ saves' = SubSeq(saves, 1, Len(saves) - 1)
  /\ past' = SubSeq(past, 1, Len(past) - 1)
  /\ UNCHANGED <<frames, plain, trod>>

Undone ==
  /\ frames # <<>> /\ Last.phase = "undo" /\ Len(saves) = Last.base
  /\ Leave
  /\ UNCHANGED <<fds, saves, past, plain, trod>>

-----------------------------------------------------------------------------
Init ==
  /\ plain \in Given /\ fds = plain
  /\ saves = <<>> /\ past = <<>> /\ frames = <<>> /\ trod = {}

Item ==
  \/ \E d \in Named, x \in Path : OpenKept(d, x) \/ OpenForGood(d, x)
  \/ \E x \in Path : \/ OpenBothKept(x) \/ OpenBothForGood(x)
                     \/ WordKept(x) \/ WordForGood(x)
                     \/ NameOpen(x)
  \/ \E d, n \in Named : DupKept(d, n) \/ DupForGood(d, n)
  \/ \E d \in Named : CloseKept(d) \/ CloseForGood(d) \/ NameDup(d)
  \/ ItemFails
  \/ OpenFails

Next ==
  \/ \E k \in Kind : Begin(k)
  \/ Item
  \/ RunBody \/ GiveBack \/ LetGo \/ Lasts
  \/ BodyEnds
  \/ Undo \/ Undone

Spec == Init /\ [][Next]_vars

-----------------------------------------------------------------------------
\* Every variable has its type, each call's saves lie above its caller's,
\* and each save has its table to come back to.
TypeOK ==
  /\ fds \in Table /\ plain \in Table
  /\ saves \in Seq(Save) /\ past \in Seq(Table) /\ Len(past) = Len(saves)
  /\ frames \in Seq(Frame) /\ trod \subseteq Cause
  /\ \A k \in DOMAIN frames : frames[k].base <= Len(saves)
  /\ \A k \in DOMAIN frames : \A h \in 1..k : frames[h].base <= frames[k].base
  /\ \A k \in 1..Len(frames) - 1 : frames[k].phase = "body"

Clean == trod \subseteq {"copied"}

\* What the next save above this one found, or the table as it is.
Above(i) == IF i = Len(saves) THEN fds ELSE past[i + 1]

\* At any moment in a list, a body or an undoing, taking the saves back one
\* after the other leads to the table each one was made from, amended by
\* what the body has changed for good, and in the end to the table with
\* nothing redirected: rd_undo's order, and rd_save's copies, are enough.
Unwinds ==
  Clean => /\ \A i \in DOMAIN saves : Back(saves[i], Above(i)) = past[i]
           /\ Above(0) = plain

\* From the moment it is made, the copy a save is kept on stays open, unless
\* a list within has that descriptor to put back, which it will before the
\* save is needed.
Held ==
  Clean => \A i \in DOMAIN saves : \A j \in i..Len(saves) :
             \/ saves[i].copy = NoFd
             \/ \E k \in i + 1..j : saves[k].fd = saves[i].copy
             \/ Above(j)[saves[i].copy] # Closed

\* Between commands the shell's descriptors are what its exec and {v}
\* redirections have made of those it started with: nothing is left
\* redirected, closed or open by a list that was undone.
Restored == (Clean /\ frames = <<>>) => fds = plain

\* The same if a file may be opened on the descriptor it is meant for before
\* rd_save looks at that descriptor (rd_do, `3>f' when 3 is the lowest free).
RestoredWhenLanded == (trod \subseteq {"landed"} /\ frames = <<>>) => fds = plain

\* The same if a body may use exec on the descriptor a save is kept on.
RestoredWhenOverwritten ==
  (trod \subseteq {"overwritten"} /\ frames = <<>>) => fds = plain

\* The same if a command with no words may fail in its list (ex_cmd).
RestoredWhenDropped == (trod \subseteq {"dropped"} /\ frames = <<>>) => fds = plain

=============================================================================

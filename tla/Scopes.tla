------------------------------- MODULE Scopes -------------------------------
(***************************************************************************)
(* Variables and the bindings that stand for a while: a function's         *)
(* parameters and locals, and the assignments before a command             *)
(* (src/src/exec.c asg_*, fn_bind, fn_call, ex_cmd; src/src/var.c; the     *)
(* builtins of src/src/bi.c that change a variable or its flags).          *)
(*                                                                         *)
(* A function sets what a local hides aside whole and puts it back whole;  *)
(* a command sets aside a copy of the value, or an array whole, and puts   *)
(* the value back by assigning it.  Both leave the process's own           *)
(* environment, which setenv keeps beside the table, to catch up.          *)
(*                                                                         *)
(* A variable has a string and, when it is an array, elements: the string  *)
(* is what $name reads, and follows element 0.                             *)
(***************************************************************************)
EXTENDS Naturals, Sequences

CONSTANTS
  Name,        \* the variables
  Text, Array, \* strings, and what an array can hold
  Empty,       \* the empty string
  Bare,        \* the array without elements
  None,        \* no variable, no string, or no array
  MaxCalls,    \* bound: the calls and commands that nest
  MaxSaved,    \* bound: the bindings set aside
  Exceptions   \* what a script may do although the code then breaks a promise:
               \* "eval_local", an `eval' or `.' with assignments before it
               \* declares a local of the function it is in; "copied_array", a
               \* name whose value a command keeps a copy of is made an array;
               \* "fixed_element", an element of a readonly array is unset;
               \* "fixed_bind", a readonly name is given a result with :=

ASSUME ScopesAssumption ==
  /\ Empty \in Text
  /\ Bare \in Array
  /\ None \notin Text \cup Array
  /\ None \notin [v: [s: Text, map: Array \cup {None}], ex: BOOLEAN, ro: BOOLEAN]

VARIABLES
  tab,    \* s->tab: the variable of each name, or None
  env,    \* environ: the string of each name in the environment, or None
  calls,  \* the calls (TRUE) and commands with assignments (FALSE) under way
  saved,  \* the records of s->scope and of ex_cmd's `old', oldest first
  phase   \* of the innermost call: "bind" its parameters or assignments, "run"
          \* its body, "leave" it

vars == <<tab, env, calls, saved, phase>>

\* A variable's string (v->v) and its elements (v->map and v->am), or None.
Value == [s: Text, map: Array \cup {None}]
Scalar(x) == [s |-> x, map |-> None]
Var == [v: Value, ex: BOOLEAN, ro: BOOLEAN]
Phases == {"bind", "run", "leave"}

\* A struct sav: the name, what it had, whether that is the variable itself,
\* lifted out of the table (sv->w), or a copy of its value, and whose it is.
Saved == [k: Name, old: Var \cup {None}, lift: BOOLEAN, by: Nat]

Fixed(k) == tab[k] # None /\ tab[k].ro
Exported(k) == tab[k] # None /\ tab[k].ex
IsArray(k) == tab[k] # None /\ tab[k].v.map # None

\* A variable is given to a name, with setenv when it is exported.
Set(k, b) ==
  /\ tab' = [tab EXCEPT ![k] = b]
  /\ env' = IF b.ex THEN [env EXCEPT ![k] = b.v.s] ELSE env

\* hibr_set: the string and, if asked, the export flag.  An array loses its
\* elements and stays one.
SetValue(k, x, ex) ==
  Set(k, IF tab[k] = None THEN [v |-> Scalar(x), ex |-> ex, ro |-> FALSE]
         ELSE [v |-> [s |-> x, map |-> IF IsArray(k) THEN Bare ELSE None],
               ex |-> tab[k].ex \/ ex, ro |-> tab[k].ro])

\* v_del.
Del(k) ==
  /\ tab' = [tab EXCEPT ![k] = None]
  /\ env' = IF Exported(k) THEN [env EXCEPT ![k] = None] ELSE env

\* Changed: the environment is left as the deletion made it.
MutBack(k, b) ==
  /\ tab' = [tab EXCEPT ![k] = b]
  /\ env' = IF Exported(k) THEN [env EXCEPT ![k] = None] ELSE env

\* v_back: whatever has the name goes, as v_del has it, and the variable that
\* was lifted out takes its place.
Back(k, b) ==
  /\ tab' = [tab EXCEPT ![k] = b]
  /\ env' = IF b.ex \/ Exported(k)
              THEN [env EXCEPT ![k] = IF b.ex THEN b.v.s ELSE None]
              ELSE env

-----------------------------------------------------------------------------
(***************************************************************************)
(* What a script does to a variable                                        *)
(***************************************************************************)

Running == phase = "run" /\ UNCHANGED <<calls, saved, phase>>

\* The last record of the name keeps a copy of its value.
Copied(k) ==
  \E i \in DOMAIN saved :
    /\ saved[i].k = k /\ saved[i].old # None /\ ~saved[i].lift
    /\ \A j \in i + 1 .. Len(saved) : saved[j].k # k
MayBeArray(k) == Copied(k) /\ ~IsArray(k) => "copied_array" \in Exceptions

\* v_setp: an element is given, of a name that may be new; element 0 is the
\* string as well.  The environment is not told.
Put(k, strings) ==
  /\ MayBeArray(k)
  /\ \E x \in strings, a \in Array \ {Bare} :
       tab' = [tab EXCEPT ![k] = [v |-> [s |-> x, map |-> a],
                                  ex |-> Exported(k), ro |-> FALSE]]
  /\ UNCHANGED env

\* name=value: an array gets it as its element 0.
Assign(k, x) ==
  /\ Running /\ ~Fixed(k)
  /\ IF IsArray(k) THEN Put(k, {x}) ELSE SetValue(k, x, FALSE)

\* name[key]=value.
AssignElement(k, x) ==
  /\ Running /\ ~Fixed(k)
  /\ Put(k, {x, IF tab[k] = None THEN Empty ELSE tab[k].v.s})

\* name=(...): v_arr empties the variable first, and so exports "", then puts
\* the elements, if there are any.
AssignArray(k, x, a) ==
  /\ Running /\ ~Fixed(k) /\ MayBeArray(k)
  /\ a = Bare => x = Empty
  /\ tab' = [tab EXCEPT ![k] = [v |-> [s |-> x, map |-> a],
                                ex |-> Exported(k), ro |-> FALSE]]
  /\ env' = IF Exported(k) THEN [env EXCEPT ![k] = Empty] ELSE env

\* `read' and the shell's own writes replace the value.
Replace(k, x) == Running /\ ~Fixed(k) /\ SetValue(k, x, FALSE)

\* name := call (v_copy): the result, elements and all.  A readonly name
\* refuses the string, and its elements are replaced.
Bind(k, v) ==
  /\ Running
  /\ v.map # None => MayBeArray(k)
  /\ IF Fixed(k)
       THEN /\ "fixed_bind" \in Exceptions
            /\ tab' = [tab EXCEPT ![k] = [v |-> [s |-> tab[k].v.s, map |-> v.map],
                                          ex |-> tab[k].ex, ro |-> TRUE]]
            /\ UNCHANGED env
       ELSE Set(k, [v |-> v, ex |-> Exported(k), ro |-> FALSE])

\* unset name[key] (v_delp): the string of one that loses its element 0 is
\* empty.  The environment is not told, and a readonly name not asked about.
UnsetElement(k) ==
  /\ Running /\ IsArray(k) /\ tab[k].v.map # Bare
  /\ Fixed(k) => "fixed_element" \in Exceptions
  /\ \E x \in {tab[k].v.s, Empty}, a \in Array :
       tab' = [tab EXCEPT ![k] = [v |-> [s |-> x, map |-> a],
                                  ex |-> tab[k].ex, ro |-> tab[k].ro]]
  /\ UNCHANGED env

Unset(k) == Running /\ tab[k] # None /\ ~Fixed(k) /\ Del(k)

Export(k) ==
  /\ Running
  /\ Set(k, IF tab[k] = None THEN [v |-> Scalar(Empty), ex |-> TRUE, ro |-> FALSE]
            ELSE [tab[k] EXCEPT !.ex = TRUE])

Unexport(k) ==
  /\ Running
  /\ tab' = IF tab[k] = None THEN tab ELSE [tab EXCEPT ![k].ex = FALSE]
  /\ env' = [env EXCEPT ![k] = None]

Readonly(k) ==
  /\ Running
  /\ tab' = [tab EXCEPT ![k] = IF tab[k] = None
                               THEN [v |-> Scalar(Empty), ex |-> FALSE, ro |-> TRUE]
                               ELSE [tab[k] EXCEPT !.ro = TRUE]]
  /\ UNCHANGED env

-----------------------------------------------------------------------------
(***************************************************************************)
(* Setting aside                                                           *)
(***************************************************************************)

Depth == Len(calls)

Save(k, lift, d) ==
  saved' = Append(saved, [k |-> k, old |-> tab[k], lift |-> lift, by |-> d])

\* The running function, which is the innermost but for the commands it runs.
Functions == {d \in DOMAIN calls : calls[d]}
Function == CHOOSE d \in Functions : \A e \in Functions : e <= d
InFunction ==
  /\ phase = "run" /\ Functions # {} /\ Len(saved) < MaxSaved
  /\ "eval_local" \in Exceptions \/ Function = Depth

Begin(fn) ==
  /\ phase = "run" /\ Depth < MaxCalls
  /\ calls' = Append(calls, fn) /\ phase' = "bind"
  /\ UNCHANGED <<tab, env, saved>>

\* fn_bind: each parameter hides its name (asg_hide), exported or not, and is
\* a string, the rest of the arguments as an array, or a copy of a variable.
Param(k, v) ==
  /\ phase = "bind" /\ calls[Depth] /\ Len(saved) < MaxSaved
  /\ ~Fixed(k)
  /\ Save(k, tab[k] # None, Depth)
  /\ tab' = [tab EXCEPT ![k] = [v |-> v, ex |-> FALSE, ro |-> FALSE]]
  /\ UNCHANGED <<env, calls, phase>>

\* asg_push: an array is lifted out and the name made afresh, anything else is
\* copied and assigned.  A readonly name is refused and nothing is kept.
Prefix(k, x) ==
  /\ phase = "bind" /\ ~calls[Depth] /\ Len(saved) < MaxSaved
  /\ ~Fixed(k)
  /\ Save(k, IsArray(k), Depth)
  /\ IF IsArray(k) THEN Set(k, [v |-> Scalar(x), ex |-> TRUE, ro |-> FALSE])
     ELSE SetValue(k, x, TRUE)
  /\ UNCHANGED <<calls, phase>>

Start ==
  /\ phase = "bind" /\ phase' = "run"
  /\ UNCHANGED <<tab, env, calls, saved>>

\* `local name' hides without creating; the environment is left alone.
Local(k) ==
  /\ InFunction /\ ~Fixed(k)
  /\ Save(k, tab[k] # None, Function)
  /\ tab' = [tab EXCEPT ![k] = None]
  /\ UNCHANGED <<env, calls, phase>>

\* `local name=value', and `declare' with a value or None, -a, -x and -r: given
\* a value in the place of an exported one, a local is exported too.  The value
\* of an array is its element 0, which the environment is not told.
Declare(k, x, a, ex, ro) ==
  /\ InFunction /\ ~Fixed(k)
  /\ x = None /\ a # None => a = Bare
  /\ Save(k, tab[k] # None, Function)
  /\ LET b == [v |-> [s |-> IF x = None THEN Empty ELSE x, map |-> a],
               ex |-> ex \/ (x # None /\ Exported(k)), ro |-> ro]
     IN  IF x # None /\ a # None THEN tab' = [tab EXCEPT ![k] = b] /\ UNCHANGED env
         ELSE Set(k, b)
  /\ UNCHANGED <<calls, phase>>

-----------------------------------------------------------------------------
(***************************************************************************)
(* Putting back                                                            *)
(***************************************************************************)

\* The body has ended, or a parameter was refused; not the shell's own level.
Leave ==
  /\ phase \in {"bind", "run"} /\ calls # <<>>
  /\ phase' = "leave"
  /\ UNCHANGED <<tab, env, calls, saved>>

Own == {i \in DOMAIN saved : saved[i].by = Depth}

\* Changed: the records are put back oldest first.
MutNewest == CHOOSE i \in Own : \A j \in Own : i <= j
Newest == CHOOSE i \in Own : \A j \in Own : j <= i

\* asg_pop, one record of the innermost call at a time, newest first: a name
\* made readonly since refuses the copy, and
\* one made an array since is an empty one.
PutBack ==
  /\ phase = "leave" /\ Own # {}
  /\ LET r == saved[Newest]
     IN  CASE r.old = None        -> Del(r.k)
           [] r.old # None /\ r.lift -> Back(r.k, r.old)
           [] r.old # None /\ ~r.lift ->
                IF Fixed(r.k) THEN UNCHANGED <<tab, env>>
                ELSE SetValue(r.k, r.old.v.s, r.old.ex)
  /\ saved' = [j \in 1 .. Len(saved) - 1 |->
                 IF j < Newest THEN saved[j] ELSE saved[j + 1]]
  /\ UNCHANGED <<calls, phase>>

End ==
  /\ phase = "leave" /\ Own = {}
  /\ calls' = SubSeq(calls, 1, Depth - 1) /\ phase' = "run"
  /\ UNCHANGED <<tab, env, saved>>

-----------------------------------------------------------------------------

\* v_env: the variables are those of the environment, exported.
Init ==
  /\ \E given \in [Name -> Text \cup {None}] :
       /\ env = given
       /\ tab = [k \in Name |-> IF given[k] = None THEN None
                                ELSE [v |-> Scalar(given[k]), ex |-> TRUE, ro |-> FALSE]]
  /\ calls = <<>> /\ saved = <<>> /\ phase = "run"

Script(k) ==
  \/ \E x \in Text : Assign(k, x) \/ AssignElement(k, x) \/ Replace(k, x)
  \/ \E x \in Text, a \in Array : AssignArray(k, x, a)
  \/ \E v \in Value : Bind(k, v)
  \/ UnsetElement(k)
  \/ Unset(k) \/ Export(k) \/ Unexport(k) \/ Readonly(k)

Shadow(k) ==
  \/ \E v \in Value : Param(k, v)
  \/ \E x \in Text : Prefix(k, x)
  \/ Local(k)
  \/ \E x \in Text \cup {None}, a \in Array \cup {None}, ex, ro \in BOOLEAN :
       Declare(k, x, a, ex, ro)

Next ==
  \/ \E k \in Name : Script(k) \/ Shadow(k)
  \/ \E fn \in BOOLEAN : Begin(fn)
  \/ Start \/ Leave \/ PutBack \/ End

Spec == Init /\ [][Next]_vars

-----------------------------------------------------------------------------
(***************************************************************************)
(* Correctness                                                             *)
(***************************************************************************)

TypeOK ==
  /\ tab \in [Name -> Var \cup {None}]
  /\ env \in [Name -> Text \cup {None}]
  /\ calls \in Seq(BOOLEAN)
  /\ saved \in Seq(Saved)
  /\ phase \in Phases

\* A string that is exported is in the shell's own environment, at every
\* depth and whatever array was there before it: an array's is not, since its
\* elements change without setenv (v_setp, v_delp).  A name that is not
\* exported has nothing there, unless a function hides an exported variable of
\* that name.  So once every call has ended getenv answers for strings as
\* $name does (var.c v_assign, v_copy, v_del, v_take, v_back; bi.c b_exp).
EnvMatches ==
  \A k \in Name :
    IF Exported(k) THEN IsArray(k) \/ env[k] = tab[k].v.s
    ELSE env[k] # None =>
           \E i \in DOMAIN saved : /\ saved[i].k = k /\ saved[i].old # None
                                   /\ saved[i].lift /\ saved[i].old.ex

\* Every binding is restored on return, including its export flag
\* (docs/language.md): what is seen is the binding made last, and the end of
\* a call uncovers what it covered (fn_call, asg_pop).
Promised ==
  INSTANCE DynamicScopes WITH
    Unbound <- None, seen <- tab,
    covered <- [i \in DOMAIN saved |->
                  [k |-> saved[i].k, b |-> saved[i].old, by |-> saved[i].by]]
ImplementsScopes == Promised!Spec
=============================================================================

------------------------------ MODULE Registry ------------------------------
(***************************************************************************)
(* Loadable modules (src/src/mod.c): the list of those loaded, the         *)
(* interfaces they offer each other, the index of their builtins and the   *)
(* index a missing command is looked up in.                                *)
(*                                                                         *)
(* A module's init may ask for an interface nobody offers yet; the shell   *)
(* then walks the module path and loads whichever object says it offers    *)
(* it, whose init may ask for another.  These loads are a stack here       *)
(* (`calls'), as they are in C, so that what happens between two of their  *)
(* steps can be seen.  What a module itself does is modelled from its      *)
(* init, its finaliser and the places it keeps a table it asked for:       *)
(* mods/hold/hold.c, mods/term/term.c, mods/pty/bi.c,                      *)
(* mods/console/console.c.                                                 *)
(***************************************************************************)
EXTENDS Integers, Sequences, FiniteSets

CONSTANTS
  Module,    \* the modules, each an object of its own name
  Iface,     \* the interfaces, some with the name of a module
  Builtin,   \* the names of the modules' builtins
  None,      \* no module
  Path,      \* the objects in the order the module path is walked
  Offers,    \* Offers[m]: the interfaces m's init offers
  Says,      \* Says[m]: the one interface m's descriptor names, or None
  Wants,     \* Wants[m]: the interfaces m's init asks for, in order
  Later,     \* Later[m]: those its builtins ask for when they first need one
  Adds,      \* Adds[m]: the builtins m adds
  Old        \* those that may be built for other versions of the interfaces

ASSUME RegistryAssumption ==
  /\ Path \in Seq(Module)
  /\ Offers \in [Module -> SUBSET Iface]
  /\ Says \in [Module -> Iface \cup {None}]
  /\ Wants \in [Module -> Seq(Iface)]
  /\ Later \in [Module -> SUBSET Iface]
  /\ Adds \in [Module -> SUBSET Builtin]
  /\ Old \subseteq Module
  /\ None \notin Module \cup Iface

VARIABLES
  old,      \* the modules that ask for other versions than are offered
  there,    \* the objects that are on the path now
  open,     \* the objects that are mapped (dlopen, dlclose)
  mods,     \* s->mods, oldest first
  apis,     \* s->apis: whose table each interface is
  held,     \* the modules whose tables a module keeps a pointer to
  mx,       \* the index of the loaded modules' builtins
  bix,      \* the index of the builtins on the path, or None before it is built
  calls,    \* what is being loaded or looked for, innermost last
  ret,      \* how the call that just returned ended
  dropping  \* m_dropall is under way

vars == <<old, there, open, mods, apis, held, mx, bix, calls, ret, dropping>>

Loaded == {mods[i] : i \in DOMAIN mods}
Names == [Builtin -> Module \cup {None}]

\* A module's init, at its k'th request, which it has made; a walk of the path
\* from object `at' for one that offers an interface, or has a builtin; and a
\* builtin that asks.
Call == [op: {"init"}, m: Module, k: Nat \ {0}, asked: BOOLEAN]
  \cup  [op: {"offers"}, key: Iface \cup Module, at: Nat \ {0}, need: BOOLEAN]
  \cup  [op: {"adds"}, key: Builtin, at: Nat \ {0}]
  \cup  [op: {"call"}, m: Module, key: Iface]
Init_(m)      == [op |-> "init", m |-> m, k |-> 1, asked |-> FALSE]
Seek(i, need) == [op |-> "offers", key |-> i, at |-> 1, need |-> need]

Top == calls[Len(calls)]
Below == SubSeq(calls, 1, Len(calls) - 1)
Running(op) == calls # <<>> /\ Top.op = op
Idle == calls = <<>> /\ ~dropping

-----------------------------------------------------------------------------
(***************************************************************************)
(* The index of the modules' builtins                                      *)
(***************************************************************************)

\* What a scan of the list finds: the newest module that adds the name.
Scan(b) ==
  LET has == {i \in DOMAIN mods : b \in Adds[mods[i]]}
  IN  IF has = {} THEN None ELSE mods[CHOOSE i \in has : \A j \in has : j <= i]

\* A mutant: the index is not forgotten.
MutStale(x) == x

\* mx_stale: what the index holds is not read until it is built again.
NoIndex == [ok |-> FALSE, n |-> 0, tab |-> [b \in Builtin |-> None]]
Stale(x) == NoIndex

\* m_find: the index is built when it is stale or of another length.
Current == mx.ok /\ mx.n = Len(mods)
Indexed == IF mods = <<>> \/ Current THEN mx
           ELSE [ok |-> TRUE, n |-> Len(mods), tab |-> [b \in Builtin |-> Scan(b)]]
Find(b) == IF mods = <<>> THEN None ELSE Indexed.tab[b]

\* A command is looked up, by a script or by anything an init runs.
Lookup ==
  /\ ~dropping
  /\ Indexed # mx
  /\ mx' = Indexed
  /\ UNCHANGED <<there, open, mods, apis, held, bix, calls, ret, dropping>>

-----------------------------------------------------------------------------
(***************************************************************************)
(* Loading                                                                 *)
(***************************************************************************)

\* m_load with what is to be left of `calls' under it: the object is not there,
\* a module of its name is already loaded, or it joins the list and its init
\* begins.
Load(m, under) ==
  IF m \in there \ Loaded
  THEN /\ open' = open \cup {m}
       /\ mods' = Append(mods, m)
       /\ mx' = Stale(mx)
       /\ calls' = Append(under, Init_(m))
       /\ ret' = "none"
  ELSE /\ calls' = under
       /\ ret' = "fail"
       /\ UNCHANGED <<open, mods, mx>>

\* A mutant: the last one goes, by position.
MutWithout(m) == SubSeq(mods, 1, Len(mods) - 1)

\* What is left of the list when m goes: those after it move up.
Place(m) == CHOOSE i \in DOMAIN mods : mods[i] = m
Without(m) ==
  [j \in 1 .. Len(mods) - 1 |-> IF j < Place(m) THEN mods[j] ELSE mods[j + 1]]

\* m_offered: an offer of another version is as good as none, but ends the search.
Wrong(m, i) == apis[i] # None /\ m \in old

\* m's init asks for the next interface (hibr_require).
Ask ==
  /\ Running("init") /\ ~Top.asked /\ Top.k <= Len(Wants[Top.m])
  /\ LET i == Wants[Top.m][Top.k]
     IN  /\ ~Wrong(Top.m, i)
         /\ IF apis[i] # None
            THEN /\ held' = [held EXCEPT ![Top.m] = @ \cup {apis[i]}]
                 /\ calls' = Append(Below, [Top EXCEPT !.k = @ + 1])
            ELSE /\ calls' = Append(Below, [Top EXCEPT !.asked = TRUE])
                               \o <<Seek(i, FALSE)>>
                 /\ UNCHANGED held
  /\ ret' = "none"
  /\ UNCHANGED <<there, open, mods, apis, mx, bix, dropping>>

\* The walk it made has ended and somebody offers the interface now.
Got ==
  /\ Running("init") /\ Top.asked
  /\ LET by == apis[Wants[Top.m][Top.k]]
     IN  /\ by # None /\ Top.m \notin old
         /\ held' = [held EXCEPT ![Top.m] = @ \cup {by}]
  /\ calls' = Append(Below, [Top EXCEPT !.k = @ + 1, !.asked = FALSE])
  /\ ret' = "none"
  /\ UNCHANGED <<there, open, mods, apis, mx, bix, dropping>>

\* Nobody does, or another version of it: the init fails, and the record goes,
\* which by now may not be the last.
Failed ==
  /\ Running("init") /\ Top.k <= Len(Wants[Top.m])
  /\ LET i == Wants[Top.m][Top.k] IN Wrong(Top.m, i) \/ (Top.asked /\ apis[i] = None)
  /\ mods' = Without(Top.m)
  /\ open' = open \ {Top.m}
  /\ mx' = Stale(mx)
  /\ held' = [held EXCEPT ![Top.m] = {}]
  /\ calls' = Below
  /\ ret' = "fail"
  /\ UNCHANGED <<there, apis, bix, dropping>>

\* The init has what it wants and offers its own (hibr_provide), over whoever
\* offered it before.
Done ==
  /\ Running("init") /\ Top.k > Len(Wants[Top.m])
  /\ apis' = [i \in Iface |-> IF i \in Offers[Top.m] THEN Top.m ELSE apis[i]]
  /\ calls' = Below
  /\ ret' = "ok"
  /\ UNCHANGED <<there, open, mods, held, mx, bix, dropping>>

\* m_saysso: the object is there and its descriptor says so.
Fits(c, j) ==
  /\ Path[j] \in there
  /\ IF c.op = "adds" THEN c.key \in Adds[Path[j]] ELSE Says[Path[j]] = c.key
Ahead(c) == {j \in c.at .. Len(Path) : Fits(c, j)}

Nearest(c) == CHOOSE j \in Ahead(c) : \A o \in Ahead(c) : j <= o

\* A mutant: an object that does not load is tried again.
MutWalk ==
  /\ calls # <<>> /\ Top.op \in {"offers", "adds"}
  /\ ret # "ok" /\ Ahead(Top) # {}
  /\ Load(Path[Nearest(Top)], calls)
  /\ UNCHANGED <<there, apis, held, bix, dropping>>

\* m_seek: the next object that says it has what is looked for is loaded; one
\* that does not load is passed over.
Walk ==
  /\ calls # <<>> /\ Top.op \in {"offers", "adds"}
  /\ ret # "ok" /\ Ahead(Top) # {}
  /\ Load(Path[Nearest(Top)], Append(Below, [Top EXCEPT !.at = Nearest(Top) + 1]))
  /\ UNCHANGED <<there, apis, held, bix, dropping>>

\* The walk ends, with an object loaded or the path at its end.
Walked ==
  /\ calls # <<>> /\ Top.op \in {"offers", "adds"}
  /\ ret = "ok" \/ Ahead(Top) = {}
  /\ IF ret # "ok" /\ Top.op = "offers" /\ Top.need /\ Top.key \in Module
     THEN Load(Top.key, Below)
     ELSE /\ calls' = Below
          /\ ret' = IF ret = "ok" THEN "ok" ELSE "fail"
          /\ UNCHANGED <<open, mods, mx>>
  /\ UNCHANGED <<there, apis, held, bix, dropping>>

\* The table a builtin asked for is kept, if it gets one.
Called ==
  /\ Running("call")
  /\ held' = [held EXCEPT ![Top.m] =
                @ \cup IF Top.m \in old THEN {} ELSE {apis[Top.key]} \ {None}]
  /\ calls' = Below /\ ret' = "none"
  /\ UNCHANGED <<there, open, mods, apis, mx, bix, dropping>>

Within == Ask \/ Got \/ Failed \/ Done \/ Walk \/ Walked \/ Called

-----------------------------------------------------------------------------
(***************************************************************************)
(* What a script asks                                                      *)
(***************************************************************************)

\* mod load m.
ModLoad(m) ==
  /\ Idle
  /\ Load(m, <<>>)
  /\ UNCHANGED <<there, apis, held, bix, dropping>>

\* need i (m_need), when neither an offer nor a module of that name is there.
Need(i) ==
  /\ Idle /\ i \notin Loaded /\ (i \in Iface => apis[i] = None)
  /\ calls' = <<Seek(i, TRUE)>> /\ ret' = "none"
  /\ UNCHANGED <<there, open, mods, apis, held, mx, bix, dropping>>

\* mod find b (m_findbi).
ModFind(b) ==
  /\ Idle
  /\ mx' = Indexed
  /\ IF Find(b) # None
     THEN ret' = "ok" /\ calls' = <<>>
     ELSE ret' = "none" /\ calls' = <<[op |-> "adds", key |-> b, at |-> 1]>>
  /\ UNCHANGED <<there, open, mods, apis, held, bix, dropping>>

\* A command that is nothing else (m_ldauto): the index of the path is built
\* once, from the objects there were then.
LdAuto(b) ==
  LET x == IF bix # None THEN bix
           ELSE [c \in Builtin |->
                  LET fit == {j \in DOMAIN Path :
                                Path[j] \in there /\ c \in Adds[Path[j]]}
                  IN  IF fit = {} THEN None
                      ELSE Path[CHOOSE j \in fit : \A o \in fit : j <= o]]
  IN  /\ Idle /\ Find(b) = None
      /\ bix' = x
      /\ IF x[b] = None
         THEN ret' = "fail" /\ UNCHANGED <<open, mods, mx, calls>>
         ELSE Load(x[b], <<>>)
      /\ UNCHANGED <<there, apis, held, dropping>>

\* A builtin of m asks for an interface it has not asked for before, and keeps
\* the pointer (tm_dp, cn_hf).
Use(m, i) ==
  /\ Idle /\ m \in Loaded /\ i \in Later[m]
  /\ \A n \in held[m] : i \notin Offers[n]
  /\ calls' = IF apis[i] # None THEN <<[op |-> "call", m |-> m, key |-> i]>>
              ELSE <<[op |-> "call", m |-> m, key |-> i], Seek(i, FALSE)>>
  /\ ret' = "none"
  /\ UNCHANGED <<there, open, mods, apis, held, mx, bix, dropping>>

\* A mutant: the finaliser leaves the offers.
MutGone(m) ==
  /\ mods' = Without(m)
  /\ open' = open \ {m}
  /\ mx' = Stale(mx)
  /\ held' = [held EXCEPT ![m] = {}]
  /\ UNCHANGED apis

\* A module goes: out of the list, then its finaliser, which withdraws what it
\* offered by name (hibr_unprovide), then its object.
Gone(m) ==
  /\ mods' = Without(m)
  /\ open' = open \ {m}
  /\ mx' = Stale(mx)
  /\ held' = [held EXCEPT ![m] = {}]
  /\ apis' = [i \in Iface |-> IF i \in Offers[m] THEN None ELSE apis[i]]

\* mod drop m (m_drop).
Drop(m) ==
  /\ Idle /\ m \in Loaded
  /\ Gone(m)
  /\ ret' = "ok"
  /\ UNCHANGED <<there, bix, calls, dropping>>

\* mod drop all, and the end of the shell (m_dropall): newest first.
DropAll ==
  /\ Idle /\ dropping' = TRUE
  /\ UNCHANGED <<there, open, mods, apis, held, mx, bix, calls, ret>>
DropNewest ==
  /\ dropping /\ mods # <<>>
  /\ Gone(mods[Len(mods)])
  /\ UNCHANGED <<there, bix, calls, ret, dropping>>
Dropped ==
  /\ dropping /\ mods = <<>>
  /\ dropping' = FALSE /\ ret' = "ok"
  /\ UNCHANGED <<there, open, mods, apis, held, mx, bix, calls>>

\* Objects are installed and removed while the shell runs.
Install(m) ==
  /\ Idle
  /\ there' = IF m \in there THEN there \ {m} ELSE there \cup {m}
  /\ UNCHANGED <<open, mods, apis, held, mx, bix, calls, ret, dropping>>

Asked ==
  \/ \E m \in Module :
       ModLoad(m) \/ Drop(m) \/ Install(m) \/ \E i \in Iface : Use(m, i)
  \/ \E i \in Iface \cup Module : Need(i)
  \/ \E b \in Builtin : ModFind(b) \/ LdAuto(b)
  \/ DropAll

Init ==
  /\ old \in SUBSET Old
  /\ there \in SUBSET Module
  /\ open = {} /\ mods = <<>>
  /\ apis = [i \in Iface |-> None]
  /\ held = [m \in Module |-> {}]
  /\ mx = NoIndex
  /\ bix = None
  /\ calls = <<>> /\ ret = "none" /\ dropping = FALSE

Dropping == DropNewest \/ Dropped
Next == (Lookup \/ Within \/ Dropping \/ Asked) /\ UNCHANGED old

\* A load that has begun is a C call that goes on, and so is a drop.
Spec == Init /\ [][Next]_vars /\ WF_vars(Within /\ UNCHANGED old)
                        /\ WF_vars(Dropping /\ UNCHANGED old)

-----------------------------------------------------------------------------
(***************************************************************************)
(* Properties                                                              *)
(***************************************************************************)

\* Types.
TypeOK ==
  /\ old \subseteq Module /\ there \subseteq Module /\ open \subseteq Module
  /\ mods \in Seq(Module)
  /\ apis \in [Iface -> Module \cup {None}]
  /\ held \in [Module -> SUBSET Module]
  /\ mx \in [ok: BOOLEAN, n: Nat, tab: Names]
  /\ bix \in Names \cup {None}
  /\ calls \in Seq(Call)
  /\ ret \in {"none", "ok", "fail"}
  /\ dropping \in BOOLEAN

\* The list holds exactly the objects that are mapped, each once, whatever an
\* init loads before it fails: no record of one that was closed, which a later
\* walk of the list would read, and none forgotten (m_load, m_drop).
ListIsOpen ==
  /\ Loaded = open
  /\ \A i, j \in DOMAIN mods : mods[i] = mods[j] => i = j

\* The index is used only while it says what a scan of the list would, so no
\* name resolves to a module that has gone or has not the newest claim to it.
IndexFresh ==
  Current /\ mods # <<>> => mx.tab = [b \in Builtin |-> Scan(b)]

\* Whoever is on the list and is not still in its init has its offers in the
\* registry, and nobody who has gone, or failed, has one there.
OffersLive ==
  /\ \A i \in Iface : apis[i] # None => apis[i] \in Loaded /\ i \in Offers[apis[i]]
  /\ \A m \in Loaded :
       (\A c \in DOMAIN calls : calls[c].op = "init" => calls[c].m # m)
         => \A i \in Offers[m] : apis[i] # None

\* A load comes to an end whatever the inits ask for, modules that ask for each
\* other included: the one that is in the list is not loaded again under itself.
Settles == calls # <<>> ~> calls = <<>>

\* The comment at mod.c:407: "newest first -- so a module that asked for
\* another's table goes before the one that offered it".  A module is put on
\* the list before its init asks, so what it asks for is newer.
UsersFirst ==
  [][dropping /\ mods # mods'
       => \A m \in Loaded' : held[m] \cap (Loaded \ Loaded') = {}]_vars
=============================================================================

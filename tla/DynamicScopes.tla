---------------------------- MODULE DynamicScopes ----------------------------
(***************************************************************************)
(* What the shell promises of a name: `local' gives dynamic scoping, and   *)
(* every binding is restored on return (docs/language.md).                 *)
(*                                                                         *)
(* Calls and commands nest.  Each may cover a name with a binding of its   *)
(* own, and what is seen is the binding made last.  When a call ends, its  *)
(* bindings go, from wherever they are among the others, and what they     *)
(* covered is seen again, or is what the next one up covers.               *)
(***************************************************************************)
EXTENDS Naturals, Sequences

CONSTANTS Name, Value, Unbound

VARIABLES
  seen,     \* the binding of each name that is seen, or Unbound
  covered,  \* the bindings that are not: of which name, covered by which call
  calls     \* the calls and commands under way: whether each is a function's

vars == <<seen, covered, calls>>

Binding == [v: Value, ex: BOOLEAN, ro: BOOLEAN]
Fixed(k) == seen[k] # Unbound /\ seen[k].ro

\* A name gets another value or other flags, or is unset; one that is readonly
\* keeps its value.
Change(k) ==
  /\ \E b \in Binding \cup {Unbound} :
       /\ Fixed(k) => b # Unbound /\ b.ro /\ b.v = seen[k].v
       /\ seen' = [seen EXCEPT ![k] = b]
  /\ UNCHANGED <<covered, calls>>

Begin(fn) ==
  /\ calls' = Append(calls, fn)
  /\ UNCHANGED <<seen, covered>>

\* Call d covers a name that is not readonly.
Cover(k, d) ==
  /\ d \in DOMAIN calls /\ ~Fixed(k)
  /\ \E b \in Binding \cup {Unbound} : seen' = [seen EXCEPT ![k] = b]
  /\ covered' = Append(covered, [k |-> k, b |-> seen[k], by |-> d])
  /\ UNCHANGED calls

\* The i'th goes: what it covered is what the next one of its name covers, or
\* what is seen.  A command's own binding leaves its export flag behind, and
\* stays as it is if it was made readonly over another.
Above(i) == {j \in i + 1 .. Len(covered) : covered[j].k = covered[i].k}
Nearest(S) == CHOOSE j \in S : \A o \in S : j <= o
Gone(i) == [j \in 1 .. Len(covered) - 1 |->
              LET c == covered[IF j < i THEN j ELSE j + 1]
              IN  IF Above(i) # {} /\ j + 1 = Nearest(Above(i))
                  THEN [c EXCEPT !.b = covered[i].b] ELSE c]
Shown(r, b) ==
  \/ b = r.b
  \/ /\ ~calls[r.by] /\ r.b # Unbound
     /\ \/ Fixed(r.k) /\ b = seen[r.k]
        \/ /\ b # Unbound /\ b.v = r.b.v /\ ~b.ro /\ (r.b.ex => b.ex)
Uncover(i) ==
  /\ i \in DOMAIN covered /\ covered[i].by = Len(calls)
  /\ covered' = Gone(i)
  /\ IF Above(i) # {} THEN UNCHANGED seen
     ELSE \E b \in Binding \cup {Unbound} :
            Shown(covered[i], b) /\ seen' = [seen EXCEPT ![covered[i].k] = b]
  /\ UNCHANGED calls

\* A call ends when nothing is covered by it any more.
End ==
  /\ calls # <<>>
  /\ \A i \in DOMAIN covered : covered[i].by # Len(calls)
  /\ calls' = SubSeq(calls, 1, Len(calls) - 1)
  /\ UNCHANGED <<seen, covered>>

Init ==
  /\ seen \in [Name -> Binding \cup {Unbound}]
  /\ covered = <<>> /\ calls = <<>>

Next ==
  \/ \E k \in Name : Change(k) \/ \E d \in DOMAIN calls : Cover(k, d)
  \/ \E fn \in BOOLEAN : Begin(fn)
  \/ \E i \in DOMAIN covered : Uncover(i)
  \/ End

Spec == Init /\ [][Next]_vars
=============================================================================

----------------------------- MODULE MCRegistry -----------------------------
(* The modules a desktop loads, wired as they are in mods/. *)
EXTENDS Registry, TLC

CONSTANTS pty, term, hold, console, terminal, display

PathOrder == <<console, hold, pty, term>>
MyOffers == (pty :> {pty}) @@ (term :> {terminal}) @@ (hold :> {hold})
              @@ (console :> {display})
MySays == (pty :> pty) @@ (term :> terminal) @@ (hold :> hold)
              @@ (console :> display)
MyWants == (pty :> <<>>) @@ (term :> <<pty>>) @@ (hold :> <<pty, terminal>>)
              @@ (console :> <<>>)
MyLater == (pty :> {}) @@ (term :> {display}) @@ (hold :> {})
              @@ (console :> {hold})
MyAdds == [m \in Module |-> {m} \cap Builtin]
=============================================================================

---------------------------- MODULE MCEvaluator ----------------------------
\* Instances of Evaluator for TLC: five families of scripts.
EXTENDS Evaluator, TLC

Leave == {"break", "continue", "return", "exit"}
Inner == {"call", "eval", "try"}
Reach(S, d) == [e \in S |-> d]

\* Loops within loops, left from where a text or a function is run in them.
Loopy ==
  [kinds |-> {"cmd", "seq", "and", "while", "until", "for"},
   reach |-> Reach(Leave, 9) @@ Reach(Inner, 4),
   depth |-> 5, traps |-> 0, errexit |-> FALSE]

\* Traps about everything, and about each other's handlers.
Trapped ==
  [kinds |-> {"cmd", "seq", "and", "not", "if", "grp", "for"},
   reach |-> Reach(Leave, 9) @@ Reach(Inner \cup {"ERR", "DEBUG", "RETURN", "EXIT"}, 4),
   depth |-> 4, traps |-> 2, errexit |-> TRUE]

\* Signals that arrive during each other's handlers.
Signalled ==
  [kinds |-> {"cmd", "seq", "and", "while"},
   reach |-> Reach(Leave, 9) @@ Reach({"call", "ERR"}, 4) @@ Reach({"signal"}, 7),
   depth |-> 4, traps |-> 1, errexit |-> TRUE]

\* A loop that a handler's return or break is run just before.
Interrupted ==
  [kinds |-> {"cmd", "while"},
   reach |-> Reach({"return", "break"}, 9) @@ Reach({"call"}, 3) @@ Reach({"signal"}, 6),
   depth |-> 5, traps |-> 0, errexit |-> FALSE]

\* One loop, tests and a break.
Broken ==
  [kinds |-> {"cmd", "and", "or", "for"}, reach |-> Reach({"break"}, 9),
   depth |-> 5, traps |-> 0, errexit |-> TRUE]

\* Lines that are given up, with a RETURN, ERR or DEBUG trap.
Refusing ==
  [kinds |-> {"cmd", "seq", "if", "for"},
   reach |-> Reach({"giveup", "break"}, 9) @@ Reach(Inner \cup {"ERR", "DEBUG", "RETURN"}, 4),
   depth |-> 4, traps |-> 1, errexit |-> TRUE]

OneBreak == {Broken}
OneGivenUp == {Refusing}
All == {Loopy, Trapped, Signalled, Interrupted, Refusing}
=============================================================================

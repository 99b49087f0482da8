--------------------------- MODULE MCEvalHarness ---------------------------
EXTENDS EvalHarnessSafety

CONSTANTS c1, c2, c3, h1, h2, A, B, X, D, s1, s2

MCScriptsOf == [x \in {A, B, X, D} |-> IF x = X THEN {s1, s2} ELSE {s1}]
NoScript == [x \in {A, B, X, D} |-> None]
Lane(cases) == [lane |-> "offline_gate", attempt |-> 1, cases |-> cases, script |-> NoScript,
                ready |-> TRUE]
Qwen(cases, ready) == [Lane(cases) EXCEPT !.lane = "qwen_baseline", !.ready = ready]
Scripted(cases, s) == [Lane(cases) EXCEPT !.script = [NoScript EXCEPT ![X] = s]]

Together == [c \in {c1, c2} |-> h1]
Apart == [c \in {c1, c2} |-> IF c = c1 THEN h1 ELSE h2]

PairCommands == {Lane(<<A, B>>), Lane(<<B, A>>)}
ReplayCommands == {Scripted(<<X>>, s1), Scripted(<<X>>, s2), Lane(<<X>>), Lane(<<B, A>>)}
EveryCommand ==
  {Lane(<<>>), Lane(<<A>>), Lane(<<X, D>>),
   Scripted(<<X>>, s2),
   Qwen(<<X>>, TRUE), Qwen(<<A, B>>, FALSE), Qwen(<<B>>, TRUE)}
============================================================================

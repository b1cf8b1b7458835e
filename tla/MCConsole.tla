----------------------------- MODULE MCConsole -----------------------------
(* Small instances of Console for TLC: one task that prints all kinds of    *)
(* items while keys are pressed and a handler prints, and two tasks and a   *)
(* handler that print numbers.                                              *)
EXTENDS Console

S(str) == [kind |-> "s", str |-> str]
L(str, n) == [kind |-> "l", str |-> str, n |-> n]
D(v) == [kind |-> "d", v |-> v]
X(v) == [kind |-> "x", v |-> v]
Other == [kind |-> "other"]

CONSTANTS a, b, tick

Said(ofA, ofB, ofTick) ==
    [p \in {a, b, tick} |-> IF p = a THEN ofA ELSE IF p = b THEN ofB ELSE ofTick]

Scene(says, types) == [script |-> says, typed |-> types]

\* Keys: 1 with and without shift, held down, and Enter.
MCScenarios ==
    {Scene(Said(<<D(205), X(32), S(<<LF>>), D(7)>>, << >>, << >>), <<2, 1, 5, 6, 1, 1>>),
     Scene(Said(<<L(<<65, 0, 66>>, 3), X(0), Other, L(<<66, 67>>, 1), D(0), D(10)>>, << >>,
                <<S(<<83, LF>>)>>), <<1, 2, 3, 6>>),
     Scene(Said(<<D(12)>>, <<X(171)>>, << >>), << >>),
     Scene(Said(<<D(123)>>, <<D(4)>>, << >>), << >>),
     Scene(Said(<<D(56)>>, << >>, <<D(789)>>), <<1, 5>>),
     Scene(Said(<<D(-3), D(12)>>, << >>, <<D(-45)>>), << >>)}
=============================================================================

------------------------------- MODULE MCDbus -------------------------------
(* Small instances of DbusMediation for TLC.                               *)
EXTENDS DbusMediation

CONSTANTS s1, s2

Call(dest, method) == [dest |-> dest, method |-> method]
Name(labels) == [labels |-> labels, star |-> FALSE]
Under(labels) == [labels |-> labels, star |-> TRUE]

MCHello == Call(<<"bus">>, <<"Hello">>)
MCRefused == {<<"r">>}
MCSignals == {<<"a">>, <<"b">>}

\* The first workload calls a service under a, which it may talk to, twice.
\* The second calls b, one method of which it is allowed although b is denied,
\* or Hello, or a child of a refused name.
MCCalls ==
    [s \in {s1, s2} |->
        IF s = s1 THEN {Call(<<"a", "x">>, <<"m">>)}
                  ELSE {Call(<<"b">>, <<"m">>), MCHello, Call(<<"r", "x">>, <<"m">>)}]

MCRules ==
    [s \in {s1, s2} |->
        [talk |-> {Under(<<"a">>)}, broadcast |-> {Name(<<"c">>)},
         call |-> {[dest |-> Name(<<"b">>), method |-> Name(<<"m">>)]},
         deny |-> IF s = s1 THEN {} ELSE {Name(<<"b">>)}]]

MCNCalls == [s \in {s1, s2} |-> IF s = s1 THEN 2 ELSE 1]
MCMaxSignals == [s \in {s1, s2} |-> IF s = s1 THEN 0 ELSE 1]
=============================================================================

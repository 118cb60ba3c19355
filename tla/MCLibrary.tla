------------------------------ MODULE MCLibrary ------------------------------
(***************************************************************************)
(* Small applications for AtpLibrary: which annotations their text has,    *)
(* how many times they are executed and what may go wrong.                 *)
(***************************************************************************)
EXTENDS AtpLibrary, TLC

CONSTANTS p1, p2, p3,              \* processes
          default, dom1, dom2,     \* domain names
          a, b, c1, e1             \* parameters, a constraint, an expression

TwoProcs == {p1, p2}
ThreeProcs == {p1, p2, p3}
OneProc == {p1}
Symmetry2 == Permutations(TwoProcs)
Symmetry3 == Permutations(ThreeProcs)

AllDomains == {default, dom1, dom2}
AllParams == {a, b}
Hints == {<<1>>, <<2, 1>>}
Garbage == {<<>>, <<9>>}
NoGarbage == {<<>>}

P(n, t, v, d) == [pname |-> n, ptype |-> t, deflt |-> v, domName |-> d]
V(n, vs, d) == [pname |-> n, vArray |-> vs, domName |-> d]
C(n, x, d) == [cname |-> n, expr |-> x, domName |-> d]
X(l, d) == [expList |-> l, domName |-> d]
G(n, d) == [pname |-> n, domName |-> d]

-----------------------------------------------------------------------------
(* One process and every kind of call: a name declared in two domains,     *)
(* calls that are refused, a parameter that gets its values twice, one     *)
(* that never does.                                                        *)

ApiParams == {P(a, 1, 5, dom1), P(b, 2, 0, NULL), P(a, 2, 7, dom2)}
ApiValues == {V(a, <<1, 5, 2>>, dom1), V(a, <<1, 5>>, dom1), V(a, <<4>>, dom2),
              V(b, NULL, NULL), V(b, <<>>, NULL)}
ApiConstraints == {C(c1, e1, dom1), C(c1, e1, NULL), C(c1, NULL, dom1)}
ApiExplorations == {X(<<1>>, dom1), X(<<2, 1>>, default), X(NULL, dom1),
                    X(<<1>>, NULL)}
ApiGets == {G(a, dom1), G(b, NULL)}
ApiPlan == <<"DTA", "RAT">>
ApiFaults == <<{"garbage"}, {}>>

-----------------------------------------------------------------------------
(* Several processes that declare, end, are killed and start again.        *)

LockParams == {P(a, 1, 5, dom1), P(b, 2, 0, default)}
LockValues == {V(a, <<1, 5, 2>>, dom1)}
LockConstraints == {}
LockExplorations == {}
LockGets == {G(a, dom1), G(b, default)}
LockPlan == <<"DTA", "RAT">>
LockFaults == <<{"kill", "open"}, {"open"}>>

\* The same application, killed at any point of a first collection, collects
\* again without faults.
RestartPlan == <<"DTA", "DTA", "RAT">>
RestartFaults == <<{"kill", "open"}, {}, {"kill"}>>

=============================================================================

-------------------------------- MODULE MCQuery --------------------------------
(***************************************************************************)
(* Domains and servers for OcQuery.                                        *)
(***************************************************************************)
EXTENDS OcQuery

CONSTANTS default, unit, tens, single, none, strange, bare, dom9, p1, p2, p3,
          c1, c2, s1, s2, dirA

Param(n, t, vs) ==
  [paramName |-> n, paramType |-> t, defaultVal |-> 0, valueArray |-> vs]
Constraint(n, l, r) == [constName |-> n, constExpr |-> [less |-> l, than |-> r]]
Domain(n, ps, cs) ==
  [NewDomain(n) EXCEPT !.paramsArray = ps, !.constraintsArray = cs]

RangeOf(n, lo, hi, step) == Param(n, 1, <<lo, hi, step>>)
EnumOf(n, vs) == Param(n, 2, vs)

\* An enum in front of two ranges, one in steps of 2, and two constraints.
Unit == Domain(unit, <<EnumOf(p1, <<1, 4>>), RangeOf(p2, 1, 3, 1), RangeOf(p3, -2, 3, 2)>>,
               <<Constraint(c1, p1, p2), Constraint(c2, p2, 3)>>)

\* A range that does not begin at a multiple of its step.
Odd == Domain(default, <<RangeOf(p1, 1, 6, 2)>>, <<>>)

\* A constraint on a range in steps.
Tens == Domain(tens, <<RangeOf(p1, 0, 6, 3)>>, <<Constraint(c1, p1, 2)>>)

\* No tuple satisfies the constraint.
None == Domain(none, <<RangeOf(p1, 1, 2, 1)>>, <<Constraint(c1, 2, p1)>>)

\* A constraint on a parameter of another domain.
Strange == Domain(strange, <<RangeOf(p2, 1, 2, 1)>>, <<Constraint(c2, p1, 2)>>)

\* A parameter of a type that is neither, first and last, and one without values.
Single == Domain(single, <<EnumOf(p1, <<2>>), Param(p2, 3, <<1>>)>>, <<>>)
Bare == Domain(bare, <<Param(p2, 3, <<1>>), RangeOf(p1, 1, 2, 1)>>, <<>>)
Empty == Domain(dom9, <<EnumOf(p3, <<>>)>>, <<>>)

AllDomains == <<Odd, Unit, Tens, None, Strange, Single, Bare, Empty>>
AllNames == {NULL, unit, tens, none, strange, single, bare, dom9, p3}
TwoDomains == <<Unit, None, Domain(single, <<RangeOf(p1, 1, 2, 1)>>, <<>>)>>
TwoNames == {unit, none, single}

MCNames == {default, unit, tens, single, none, strange, bare, dom9, p1, p2, p3, c1, c2}

OneDir(servers) == [s \in servers |-> dirA]
DirOf1 == OneDir({s1})
DirOf2 == OneDir({s1, s2})
MCGarbage == {0, 3}
AllFaults == {"lua", "open", "fork"}
=============================================================================

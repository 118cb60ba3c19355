-------------------------------- MODULE MCDesc --------------------------------
(***************************************************************************)
(* Description files for AtpDesc: up to two domains after "default" and    *)
(* two parameters in a domain, with and without values and constraints.    *)
(***************************************************************************)
EXTENDS AtpDesc

CONSTANTS default, dom1, dom2, a, b, c, z, c1, c2, e1, e2

Param(n, t, v, vs) ==
  [paramName |-> n, paramType |-> t, defaultVal |-> v, valueArray |-> vs]
Constraint(n, e) == [constName |-> n, constExpr |-> e]
Domain(n, ps, cs) == [NewDomain(n) EXCEPT !.paramsArray = ps, !.constraintsArray = cs]

\* The parameters and constraints of one domain.  x and y are its names.
ParamLists(x, y) ==
  {<<>>, <<Param(x, 1, 5, <<1, 9, 2>>)>>, <<Param(x, 2, 7, <<>>)>>,
   <<Param(x, 1, 5, <<1, 9, 2>>), Param(y, 2, 3, <<4>>)>>,
   <<Param(x, 2, 7, <<>>), Param(y, 1, 6, <<2, 8, 3>>)>>}

ConstraintLists ==
  {<<>>, <<Constraint(c1, e1)>>, <<Constraint(c1, e1), Constraint(c2, e2)>>}

MCDescriptions ==
  {<<Domain(default, ps, cs)>> : ps \in ParamLists(a, b), cs \in ConstraintLists}
  \cup
  {<<Domain(default, ps, cs), Domain(dom1, qs, es)>> :
     ps \in ParamLists(a, b), cs \in ConstraintLists,
     qs \in ParamLists(c, z), es \in ConstraintLists}
  \cup
  {<<Domain(default, <<>>, <<>>), Domain(dom1, ps, cs), Domain(dom2, qs, <<>>)>> :
     ps \in ParamLists(a, b), cs \in ConstraintLists, qs \in ParamLists(c, z)}

MCNames == {default, dom1, dom2, a, b, c, z, c1, c2}
MCExprs == {e1, e2}

MCGarbage == {0, 1, 7}

\* The order of ATP_gen_descfile, and the others that leave in_range clear.
RangeNotLast ==
  {<<"range", "type", "default">>, <<"range", "default", "type">>,
   <<"type", "range", "default">>, <<"default", "range", "type">>}
=============================================================================

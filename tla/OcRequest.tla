------------------------------- MODULE OcRequest -------------------------------
(***************************************************************************)
(* The request that the ATP server sends the Omega calculator for a domain *)
(* (ATP_build_oc_request of src/common/atpcommon.c), and what the          *)
(* calculator makes of it.                                                 *)
(*                                                                         *)
(* A request is a relation from the parameters p to results R: for each    *)
(* parameter a clause that says which results it may have and of which     *)
(* step they are multiples, and the constraints, which are about the p.    *)
(* Its text is not modelled, but for the "&&" in front of a clause.        *)
(***************************************************************************)
EXTENDS AtpCommon, SequencesExt

CONSTANTS
  Names,        \* the names of domains, parameters and constraints
  MaxIndex      \* bound: the p are looked for in -MaxIndex..MaxIndex

ASSUME MaxIndexAssumption == MaxIndex \in Nat

-----------------------------------------------------------------------------
(* Constraints: [less |-> x, than |-> y], a name or a number each.         *)

Expressions == [less : Names \cup Int, than : Names \cup Int]

NamesOf(expr) == {expr.less, expr.than} \ Int

\* expr under an assignment of numbers to names.
Holds(expr, env) ==
  LET Val(t) == IF t \in Int THEN t ELSE env[t]
  IN Val(expr.less) < Val(expr.than)

-----------------------------------------------------------------------------
(* The request.                                                            *)

IsRange(param) == param.paramType = ATP_PARAM_TYPE_RANGE
Known(param) == param.paramType \in {ATP_PARAM_TYPE_RANGE, ATP_PARAM_TYPE_ENUM}

\* The loops read the values by their index, also those that are not there.
ValueOf(param, k, garbage) ==
  IF k <= Len(param.valueArray) THEN param.valueArray[k] ELSE garbage

\* Mutant: the bounds are those of the index.
RangeClause_index(param, garbage) ==
  LET step == ValueOf(param, 3, garbage)
  IN [values |-> {step * v : v \in ValueOf(param, 1, garbage)
                                     ..ValueOf(param, 2, garbage)},
      step |-> step]

\* (lo <= R <= hi) && ( R = p * step )
RangeClause(param, garbage) ==
  [values |-> ValueOf(param, 1, garbage)..ValueOf(param, 2, garbage),
   step |-> ValueOf(param, 3, garbage)]

\* ( (R = v1) || (R = v2) ... ) && ( R = p * 1 ).  The list of results of a first
\* enum begins with a comma, "-> [ ,R0 ]", which the calculator reads over.
EnumClause(param, garbage) ==
  [values |-> {ValueOf(param, 1, garbage)} \cup Range(param.valueArray),
   step |-> 1]

\* The clause of the i-th parameter: any but the first brings its own "&&".
\* One of another type has none, and is in neither of the lists.
ClauseOf(domain, i, garbage) ==
  LET param == domain.paramsArray[i]
      clause == IF IsRange(param) THEN RangeClause(param, garbage)
                                  ELSE EnumClause(param, garbage)
  IN IF ~Known(param) THEN <<>>
     ELSE << [param |-> param.paramName, values |-> clause.values,
              step |-> clause.step, joined |-> i > 1] >>

\* Mutant: only the first constraint.
ConstraintsOf_first(domain) ==
  IF domain.constraintsArray = <<>> THEN <<>>
  ELSE <<domain.constraintsArray[1].constExpr>>

ConstraintsOf(domain) ==
  [i \in 1..Len(domain.constraintsArray) |-> domain.constraintsArray[i].constExpr]

ATP_build_oc_request(domain, garbage) ==
  [clauses |-> FlattenSeq([i \in 1..Len(domain.paramsArray) |->
                             ClauseOf(domain, i, garbage)]),
   constraints |-> ConstraintsOf(domain)]

-----------------------------------------------------------------------------
(***************************************************************************)
(* The Omega calculator, an external program: what lua/oc prints.          *)
(***************************************************************************)
Silent == [kind |-> "silent"]          \* nothing, but for what goes to stderr
Message == [kind |-> "message"]        \* a complaint on the standard output
Unrunnable == [kind |-> "unrunnable"]  \* loops with operators that Lua lacks
Program(ts) == [kind |-> "program", tuples |-> ts]

\* A condition does not begin with "&&", and there is a variable to speak of.
Parses(request) == request.clauses # <<>> /\ ~request.clauses[1].joined

ParamsOf(request) ==
  {request.clauses[k].param : k \in 1..Len(request.clauses)}

Understood(request) ==
  \A k \in 1..Len(request.constraints) :
    NamesOf(request.constraints[k]) \subseteq ParamsOf(request)

\* The tuples of results: of those p that satisfy the clauses and constraints.
Solutions(request) ==
  LET cs == request.clauses
      Indices(k) == {q \in -MaxIndex..MaxIndex : q * cs[k].step \in cs[k].values}
      step(x) == cs[CHOOSE k \in 1..Len(cs) : cs[k].param = x].step
      choices == {p \in [ParamsOf(request) -> -MaxIndex..MaxIndex] :
                    /\ \A k \in 1..Len(cs) : p[cs[k].param] \in Indices(k)
                    /\ \A c \in Range(request.constraints) : Holds(c, p)}
  IN {[k \in 1..Len(cs) |-> p[cs[k].param] * step(cs[k].param)] : p \in choices}

\* A relation without solutions makes the calculator abort.
OcOutputs(request) ==
  IF ~Parses(request) THEN {Silent}
  ELSE IF ~Understood(request) THEN {Message}
  ELSE IF Solutions(request) = {} THEN {Silent}
  ELSE {Program(Solutions(request)), Unrunnable}

-----------------------------------------------------------------------------
(***************************************************************************)
(* What the tuples of a domain should be, by the words of the documents: a *)
(* range is {min, max, step} (README.md), an enum lists its values, and a  *)
(* constraint is a relation among the parameters of its domain.            *)
(***************************************************************************)
StepOf(param) == IF IsRange(param) THEN param.valueArray[3] ELSE 1

\* What a value of the parameter is one of.
ValuesOf(param) ==
  IF IsRange(param) THEN param.valueArray[1]..param.valueArray[2]
                    ELSE Range(param.valueArray)

\* A range or an enum that has its values, in steps upwards.
Complete(param) ==
  /\ Known(param)
  /\ Len(param.valueArray) >= (IF IsRange(param) THEN 3 ELSE 1)
  /\ StepOf(param) > 0

\* Every parameter has its values and a constraint names parameters only.
Proper(domain) ==
  LET ps == Range(domain.paramsArray)
      names == {param.paramName : param \in ps}
  IN /\ ps # {}
     /\ \A param \in ps : Complete(param)
     /\ \A c \in Range(domain.constraintsArray) : NamesOf(c.constExpr) \subseteq names

ValidValues(param) ==
  IF IsRange(param)
    THEN {v \in ValuesOf(param) : (v - param.valueArray[1]) % StepOf(param) = 0}
    ELSE ValuesOf(param)

ValidTuples(domain) ==
  LET ps == domain.paramsArray
      names == {ps[i].paramName : i \in 1..Len(ps)}
      param(x) == ps[CHOOSE i \in 1..Len(ps) : ps[i].paramName = x]
      all == UNION {ValidValues(ps[i]) : i \in 1..Len(ps)}
      envs == {env \in [names -> all] :
                 /\ \A x \in names : env[x] \in ValidValues(param(x))
                 /\ \A c \in Range(domain.constraintsArray) : Holds(c.constExpr, env)}
  IN {[i \in 1..Len(ps) |-> env[ps[i].paramName]] : env \in envs}

\* The ranges begin at a multiple of their step, and are not counted in steps
\* where constraints speak of them.
Aligned(domain) ==
  \A param \in Range(domain.paramsArray) :
    IsRange(param) =>
      /\ param.valueArray[1] % StepOf(param) = 0
      /\ StepOf(param) = 1 \/
           \A c \in Range(domain.constraintsArray) : param.paramName \notin NamesOf(c.constExpr)
=============================================================================

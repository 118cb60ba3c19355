------------------------------ MODULE AtpCommon ------------------------------
(***************************************************************************)
(* The in-memory description of the application's tuning parameters that   *)
(* the ATP library and the ATP server both keep: domArray of               *)
(* src/common/atpcommon.c, with the functions that look things up in it    *)
(* and the functions that extend it.                                       *)
(*                                                                         *)
(* Everything here is a pure operator on the sequence of domains.  A       *)
(* pointer into the C arrays is an index into a sequence, and the NULL     *)
(* pointer such a lookup may return is the index 0.  The modules that      *)
(* EXTEND this one hold the sequence in their variables.                   *)
(***************************************************************************)
EXTENDS Integers, Sequences

CONSTANTS
  NULL,             \* the NULL pointer given as an argument
  Uninit,           \* what a field holds before the code first assigns it
  ATP_DFLT_DOMAIN   \* the name of the domain used when the caller names none

NoIndex == 0

ATP_PARAM_TYPE_RANGE == 1
ATP_PARAM_TYPE_ENUM == 2

-----------------------------------------------------------------------------
(***************************************************************************)
(* The records.  A parameter's valueArray and nValues are one sequence,    *)
(* and Uninit until ATP_param_add_values sets both.                        *)
(***************************************************************************)
atp_param_t(PName, PType, Value) ==
  [paramName : PName, paramType : PType, defaultVal : Value,
   valueArray : Seq(Value) \cup {Uninit}]

atp_constraint_t(CName, Expr) == [constName : CName, constExpr : Expr]

atp_domain_t(DName, Param, Constraint, Hint) ==
  [domName : DName, paramsArray : Seq(Param), constraintsArray : Seq(Constraint),
   explorationArray : Seq(Hint), numExplorations : {0}]

\* explorationArray is what the domain holds, numExplorations how many of its
\* entries the domain says there are.
NewDomain(domName) ==
  [domName |-> domName, paramsArray |-> <<>>, constraintsArray |-> <<>>,
   explorationArray |-> <<>>, numExplorations |-> 0]

\* What a lookup by domain name looks for: NULL stands for "default".
Named(domName) == IF domName = NULL THEN ATP_DFLT_DOMAIN ELSE domName

-----------------------------------------------------------------------------
(* Lookups.  The loops stop at the first match.                            *)

FirstOf(hits) ==
  IF hits = {} THEN NoIndex
  ELSE CHOOSE m \in hits : \A k \in hits : m <= k

LastOf(hits) ==
  IF hits = {} THEN NoIndex
  ELSE CHOOSE m \in hits : \A k \in hits : k <= m

ATP_domain_find(domName, domains) ==
  FirstOf({i \in 1..Len(domains) : domains[i].domName = Named(domName)})

ATP_param_find(pname, domain) ==
  FirstOf({j \in 1..Len(domain.paramsArray) :
             domain.paramsArray[j].paramName = pname})

ATP_constraint_find(cname, domain) ==
  FirstOf({j \in 1..Len(domain.constraintsArray) :
             domain.constraintsArray[j].constName = cname})

\* The domain and the index in it.  The break leaves the inner loop only:
\* a name held by several domains is looked up in the last of them.
ATP_param_find_unique(pname, domains) ==
  LET last == LastOf({i \in 1..Len(domains) :
                        ATP_param_find(pname, domains[i]) # NoIndex})
  IN IF last = NoIndex
       THEN <<NoIndex, NoIndex>>
       ELSE <<last, ATP_param_find(pname, domains[last])>>

-----------------------------------------------------------------------------
(* Updates.                                                                *)

ATP_domain_new(domName, domains) ==
  IF ATP_domain_find(domName, domains) # NoIndex
    THEN domains
    ELSE Append(domains, NewDomain(domName))

ATP_param_new(pname, ptype, deflt, dom, domains) ==
  [domains EXCEPT ![dom].paramsArray =
     Append(@, [paramName |-> pname, paramType |-> ptype,
                defaultVal |-> deflt, valueArray |-> Uninit])]

ATP_param_add_values(param, dom, vArray, domains) ==
  [domains EXCEPT ![dom].paramsArray[param].valueArray = vArray]

ATP_constraint_new(cname, expr, dom, domains) ==
  [domains EXCEPT ![dom].constraintsArray =
     Append(@, [constName |-> cname, constExpr |-> expr])]

\* numExplorations stays what ATP_domain_new made it.
ATP_exploration_new(expList, dom, domains) ==
  [domains EXCEPT ![dom].explorationArray = expList]

\* What the RRL is told when every parameter of the domains is declared to it.
DeclaredIn(domains) ==
  UNION {{<<domains[i].paramsArray[j].paramName,
            domains[i].paramsArray[j].defaultVal,
            domains[i].domName>> : j \in 1..Len(domains[i].paramsArray)} :
         i \in 1..Len(domains)}
=============================================================================

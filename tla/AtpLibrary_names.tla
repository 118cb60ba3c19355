--------------------------- MODULE AtpLibrary_names ---------------------------
(***************************************************************************)
(* Names stay unique and ranges keep their triples, for any annotations,   *)
(* processes and executions: through every declaration, through the file,  *)
(* and in the processes that load it.                                      *)
(***************************************************************************)
EXTENDS AtpLibrary_proofs

-----------------------------------------------------------------------------
(* UniqueNames and RangeTriples, of one description.                       *)

Apart(ds, i, j) ==
  \A k \in 1..Len(ds[i].paramsArray), l \in 1..Len(ds[j].paramsArray) :
    ds[i].paramsArray[k].paramName = ds[j].paramsArray[l].paramName => i = j /\ k = l

UniqueIn(ds) ==
  \A i, j \in 1..Len(ds) :
    (ds[i].domName = ds[j].domName => i = j) /\ Apart(ds, i, j)

TripleOf(param) ==
  param.paramType = ATP_PARAM_TYPE_RANGE /\ param.valueArray # Uninit
    => param.valueArray \in GarbageArrays \/ Len(param.valueArray) = 3

TriplesIn(ds) ==
  \A i \in 1..Len(ds) : \A k \in 1..Len(ds[i].paramsArray) :
    TripleOf(ds[i].paramsArray[k])

Good(ds) == UniqueIn(ds) /\ TriplesIn(ds)

LEMMA UniqueNamed ==
  ASSUME NEW ds, UniqueIn(ds), NEW i \in 1..Len(ds), NEW j \in 1..Len(ds),
         NEW k \in 1..Len(ds[i].paramsArray), NEW l \in 1..Len(ds[j].paramsArray),
         ds[i].paramsArray[k].paramName = ds[j].paramsArray[l].paramName
  PROVE  i = j /\ k = l
<1>1. Apart(ds, i, j)
  BY DEF UniqueIn
<1> QED BY <1>1 DEF Apart

\* The same domains and parameters, by their names.
SameNames(ds, es) ==
  /\ Len(es) = Len(ds)
  /\ \A i \in 1..Len(ds) :
       /\ es[i].domName = ds[i].domName
       /\ Len(es[i].paramsArray) = Len(ds[i].paramsArray)
       /\ \A k \in 1..Len(ds[i].paramsArray) :
            es[i].paramsArray[k].paramName = ds[i].paramsArray[k].paramName

LEMMA SameUnique ==
  ASSUME NEW ds, NEW es, SameNames(ds, es), UniqueIn(ds)
  PROVE  UniqueIn(es)
<1>1. ASSUME NEW i \in 1..Len(es), NEW j \in 1..Len(es)
      PROVE  es[i].domName = es[j].domName => i = j
  BY DEF SameNames, UniqueIn
<1>2. ASSUME NEW i \in 1..Len(es), NEW j \in 1..Len(es),
             NEW k \in 1..Len(es[i].paramsArray), NEW l \in 1..Len(es[j].paramsArray),
             es[i].paramsArray[k].paramName = es[j].paramsArray[l].paramName
      PROVE  i = j /\ k = l
  <2>1. /\ i \in 1..Len(ds) /\ k \in 1..Len(ds[i].paramsArray)
        /\ es[i].paramsArray[k].paramName = ds[i].paramsArray[k].paramName
    BY DEF SameNames
  <2>2. /\ j \in 1..Len(ds) /\ l \in 1..Len(ds[j].paramsArray)
        /\ es[j].paramsArray[l].paramName = ds[j].paramsArray[l].paramName
    BY DEF SameNames
  <2>3. ds[i].paramsArray[k].paramName = ds[j].paramsArray[l].paramName
    BY <1>2, <2>1, <2>2
  <2>4. Apart(ds, i, j)
    BY <2>1, <2>2 DEF UniqueIn
  <2> QED BY <2>1, <2>2, <2>3, <2>4 DEF Apart
<1> QED BY <1>1, <1>2 DEF UniqueIn, Apart

-----------------------------------------------------------------------------
(* The updates of AtpCommon.                                               *)

LEMMA EmptyGood == Good(<<>>)
BY DEF Good, UniqueIn, TriplesIn

LEMMA DomainNewGood ==
  ASSUME NEW ds \in Seq(Domains), Good(ds), NEW domName \in DomArgs
  PROVE  Good(ATP_domain_new(Named(domName), ds))
<1> DEFINE n == Named(domName)
           es == Append(ds, NewDomain(n))
<1>1. Len(ds) \in Nat /\ Named(n) = n
  BY NamedType
<1>2. CASE ATP_domain_find(n, ds) # NoIndex
  BY <1>2 DEF ATP_domain_new
<1>3. CASE ATP_domain_find(n, ds) = NoIndex
  <2>1. \A i \in 1..Len(ds) : ds[i].domName # n
    BY <1>1, <1>3, DomainFind DEF NoIndex
  <2>2. NewDomain(n).domName = n /\ NewDomain(n).paramsArray = <<>>
    BY DEF NewDomain
  <2>3. /\ Len(es) = Len(ds) + 1
        /\ \A i \in 1..Len(ds) : es[i] = ds[i]
        /\ es[Len(ds) + 1] = NewDomain(n)
    BY NamedType, NewDomainType
  <2>4. \A i \in 1..Len(es) : i \in 1..Len(ds) \/ i = Len(ds) + 1
    BY <1>1, <2>3
  <2> HIDE DEF es, n
  <2>5. UniqueIn(es)
    <3> SUFFICES ASSUME NEW i \in 1..Len(es), NEW j \in 1..Len(es)
                 PROVE  (es[i].domName = es[j].domName => i = j) /\ Apart(es, i, j)
      BY DEF UniqueIn
    <3>1. CASE i \in 1..Len(ds) /\ j \in 1..Len(ds)
      <4>1. es[i] = ds[i] /\ es[j] = ds[j]
        BY <2>3, <3>1
      <4>2. es[i].domName = es[j].domName => i = j
        BY <3>1, <4>1 DEF Good, UniqueIn
      <4>3. ASSUME NEW k \in 1..Len(es[i].paramsArray), NEW l \in 1..Len(es[j].paramsArray),
                   es[i].paramsArray[k].paramName = es[j].paramsArray[l].paramName
            PROVE  i = j /\ k = l
        BY <3>1, <4>1, <4>3, UniqueNamed DEF Good
      <4> QED BY <4>2, <4>3 DEF Apart
    <3>2. CASE i = Len(ds) + 1 \/ j = Len(ds) + 1
      BY <2>1, <2>2, <2>3, <2>4, <3>2 DEF Apart
    <3> QED BY <2>4, <3>1, <3>2
  <2>6. TriplesIn(es)
    BY <2>2, <2>3, <2>4 DEF Good, TriplesIn
  <2>7. ATP_domain_new(n, ds) = es
    BY <1>3 DEF ATP_domain_new, es
  <2> QED BY <2>5, <2>6, <2>7 DEF Good, n
<1> QED BY <1>2, <1>3

\* One domain is replaced by one of the same name.
LEMMA Replaced ==
  ASSUME NEW ds \in Seq(Domains), NEW dom \in 1..Len(ds), NEW d, NEW es,
         es = [ds EXCEPT ![dom] = d]
  PROVE  /\ Len(es) = Len(ds)
         /\ es[dom] = d
         /\ \A i \in 1..Len(ds) : i # dom => es[i] = ds[i]
OBVIOUS

\* The parameter a declaration makes, and the place it takes in its domain.
NewParam(c) == [paramName |-> c.pname, paramType |-> c.ptype,
                defaultVal |-> c.deflt, valueArray |-> Uninit]
NewPlace(ds, dom, i, k) == i = dom /\ k = Len(ds[dom].paramsArray) + 1

\* es is ds with a new parameter, the last one of its domain.
WithNewParam(ds, dom, c, es) ==
  /\ Len(es) = Len(ds)
  /\ \A i \in 1..Len(ds) : es[i].domName = ds[i].domName
  /\ \A i \in 1..Len(ds) : \A k \in 1..Len(es[i].paramsArray) :
       \/ NewPlace(ds, dom, i, k) /\ es[i].paramsArray[k] = NewParam(c)
       \/ /\ ~NewPlace(ds, dom, i, k)
          /\ k \in 1..Len(ds[i].paramsArray)
          /\ es[i].paramsArray[k] = ds[i].paramsArray[k]

LEMMA ParamNewFields ==
  ASSUME NEW ds \in Seq(Domains), NEW dom \in 1..Len(ds), NEW c \in ParamDecls
  PROVE  WithNewParam(ds, dom, c, ATP_param_new(c.pname, c.ptype, c.deflt, dom, ds))
<1> DEFINE param == NewParam(c)
           ps == ds[dom].paramsArray
           d == [ds[dom] EXCEPT !.paramsArray = Append(@, param)]
           es == ATP_param_new(c.pname, c.ptype, c.deflt, dom, ds)
<1>1. ds[dom] \in Domains /\ ps \in Seq(Params) /\ Len(ps) \in Nat
  <2>1. ds[dom] \in Domains
    OBVIOUS
  <2> QED BY <2>1, DomainFields
<1>2. param \in Params
  BY AnnotationsAssumption DEF NewParam, Params, atp_param_t
<1>3. es = [ds EXCEPT ![dom] = d]
  BY DEF ATP_param_new, NewParam
<1> HIDE DEF param, es
<1>4. d.domName = ds[dom].domName /\ d.paramsArray = Append(ps, param)
  BY <1>1 DEF Domains, atp_domain_t
<1> HIDE DEF d
<1>5. /\ Len(es) = Len(ds)
      /\ es[dom] = d
      /\ \A i \in 1..Len(ds) : i # dom => es[i] = ds[i]
  BY <1>3, Replaced
<1> HIDE DEF ps
<1>6. /\ Len(d.paramsArray) = Len(ps) + 1
      /\ \A k \in 1..Len(ps) : d.paramsArray[k] = ps[k]
      /\ d.paramsArray[Len(ps) + 1] = param
      /\ \A k \in 1..Len(d.paramsArray) : k \in 1..Len(ps) \/ k = Len(ps) + 1
  BY <1>1, <1>2, <1>4
<1>7. ASSUME NEW i \in 1..Len(ds), NEW k \in 1..Len(es[i].paramsArray)
      PROVE  \/ i = dom /\ k = Len(ps) + 1 /\ es[i].paramsArray[k] = param
             \/ /\ ~(i = dom /\ k = Len(ps) + 1)
                /\ k \in 1..Len(ds[i].paramsArray)
                /\ es[i].paramsArray[k] = ds[i].paramsArray[k]
  <2>1. CASE i # dom
    BY <1>5, <2>1
  <2>2. CASE i = dom /\ k = Len(ps) + 1
    BY <1>5, <1>6, <2>2
  <2>3. CASE i = dom /\ k # Len(ps) + 1
    <3>1. k \in 1..Len(ps)
      BY <1>5, <1>6, <2>3
    <3> QED BY <1>5, <1>6, <2>3, <3>1 DEF ps
  <2> QED BY <2>1, <2>2, <2>3
<1>8. \A i \in 1..Len(ds) : es[i].domName = ds[i].domName
  BY <1>4, <1>5
<1>9. WithNewParam(ds, dom, c, es)
  BY <1>5, <1>7, <1>8 DEF WithNewParam, NewPlace, ps, param
<1> QED BY <1>9 DEF es

\* es is ds with q in the place of one parameter.
WithParam(ds, dom, param, q, es) ==
  /\ Len(es) = Len(ds)
  /\ \A i \in 1..Len(ds) : /\ es[i].domName = ds[i].domName
                           /\ Len(es[i].paramsArray) = Len(ds[i].paramsArray)
  /\ \A i \in 1..Len(ds) : \A k \in 1..Len(ds[i].paramsArray) :
       \/ es[i].paramsArray[k] = ds[i].paramsArray[k]
       \/ i = dom /\ k = param /\ es[i].paramsArray[k] = q

\* The values of one parameter are set, and nothing else changes.
GivenValues(ds, dom, param, vArray, es) ==
  \E q : /\ WithParam(ds, dom, param, q, es)
         /\ q.paramName = ds[dom].paramsArray[param].paramName
         /\ q.paramType = ds[dom].paramsArray[param].paramType
         /\ q.defaultVal = ds[dom].paramsArray[param].defaultVal
         /\ q.valueArray = vArray

LEMMA AddValuesFields ==
  ASSUME NEW ds \in Seq(Domains), NEW dom \in 1..Len(ds),
         NEW param \in 1..Len(ds[dom].paramsArray), NEW vArray \in Seq(Int)
  PROVE  GivenValues(ds, dom, param, vArray,
                     ATP_param_add_values(param, dom, vArray, ds))
<1> DEFINE ps == ds[dom].paramsArray
           q == [ps[param] EXCEPT !.valueArray = vArray]
           qs == [ps EXCEPT ![param] = q]
           d == [ds[dom] EXCEPT !.paramsArray = [@ EXCEPT ![param] = q]]
           es == ATP_param_add_values(param, dom, vArray, ds)
<1>1. ds[dom] \in Domains /\ ps \in Seq(Params) /\ Len(ps) \in Nat
  <2>1. ds[dom] \in Domains
    OBVIOUS
  <2> QED BY <2>1, DomainFields
<1>2. /\ q.paramName = ps[param].paramName
      /\ q.paramType = ps[param].paramType
      /\ q.defaultVal = ps[param].defaultVal
      /\ q.valueArray = vArray
  <2>1. ps[param] \in Params
    BY <1>1
  <2> QED BY <2>1 DEF Params, atp_param_t
<1>3. es = [ds EXCEPT ![dom] = d]
  BY DEF ATP_param_add_values
<1> HIDE DEF q, es
<1>4. d.domName = ds[dom].domName /\ d.paramsArray = qs
  BY <1>1 DEF Domains, atp_domain_t
<1> HIDE DEF d
<1>5. /\ Len(es) = Len(ds)
      /\ es[dom] = d
      /\ \A i \in 1..Len(ds) : i # dom => es[i] = ds[i]
  BY <1>3, Replaced
<1>6. /\ Len(qs) = Len(ps)
      /\ qs[param] = q
      /\ \A k \in 1..Len(ps) : k # param => qs[k] = ps[k]
  BY <1>1
<1> HIDE DEF qs
<1>7. \A i \in 1..Len(ds) : /\ es[i].domName = ds[i].domName
                            /\ Len(es[i].paramsArray) = Len(ds[i].paramsArray)
  BY <1>4, <1>5, <1>6
<1>8. ASSUME NEW i \in 1..Len(ds), NEW k \in 1..Len(ds[i].paramsArray)
      PROVE  \/ es[i].paramsArray[k] = ds[i].paramsArray[k]
             \/ i = dom /\ k = param /\ es[i].paramsArray[k] = q
  BY <1>4, <1>5, <1>6
<1>9. WithParam(ds, dom, param, q, es)
  BY <1>5, <1>7, <1>8 DEF WithParam
<1> QED BY <1>2, <1>9 DEF GivenValues, es, ps

\* The same domains with the same parameters: constraints and hints only.
SameParams(ds, es) ==
  /\ Len(es) = Len(ds)
  /\ \A i \in 1..Len(ds) : /\ es[i].domName = ds[i].domName
                           /\ es[i].paramsArray = ds[i].paramsArray

LEMMA SameParamsGood ==
  ASSUME NEW ds, NEW es, Good(ds), SameParams(ds, es)
  PROVE  Good(es)
<1>1. SameNames(ds, es)
  BY DEF SameNames, SameParams
<1>2. TriplesIn(es)
  BY DEF Good, TriplesIn, SameParams
<1> QED BY <1>1, <1>2, SameUnique DEF Good

LEMMA ConstraintNewSame ==
  ASSUME NEW ds \in Seq(Domains), NEW dom \in 1..Len(ds), NEW cname, NEW expr
  PROVE  SameParams(ds, ATP_constraint_new(cname, expr, dom, ds))
<1> DEFINE constraint == [constName |-> cname, constExpr |-> expr]
           d == [ds[dom] EXCEPT !.constraintsArray = Append(@, constraint)]
           es == ATP_constraint_new(cname, expr, dom, ds)
<1>1. es = [ds EXCEPT ![dom] = d]
  BY DEF ATP_constraint_new
<1> HIDE DEF constraint, es
<1>2. d.domName = ds[dom].domName /\ d.paramsArray = ds[dom].paramsArray
  <2>1. ds[dom] \in Domains
    OBVIOUS
  <2> QED BY <2>1 DEF Domains, atp_domain_t
<1> HIDE DEF d
<1>3. /\ Len(es) = Len(ds)
      /\ es[dom] = d
      /\ \A i \in 1..Len(ds) : i # dom => es[i] = ds[i]
  BY <1>1, Replaced
<1> QED BY <1>2, <1>3 DEF SameParams, es

LEMMA ExplorationNewSame ==
  ASSUME NEW ds \in Seq(Domains), NEW dom \in 1..Len(ds), NEW expList
  PROVE  SameParams(ds, ATP_exploration_new(expList, dom, ds))
<1> DEFINE d == [ds[dom] EXCEPT !.explorationArray = expList]
           es == ATP_exploration_new(expList, dom, ds)
<1>1. es = [ds EXCEPT ![dom] = d]
  BY DEF ATP_exploration_new
<1> HIDE DEF es
<1>2. d.domName = ds[dom].domName /\ d.paramsArray = ds[dom].paramsArray
  <2>1. ds[dom] \in Domains
    OBVIOUS
  <2> QED BY <2>1 DEF Domains, atp_domain_t
<1> HIDE DEF d
<1>3. /\ Len(es) = Len(ds)
      /\ es[dom] = d
      /\ \A i \in 1..Len(ds) : i # dom => es[i] = ds[i]
  BY <1>1, Replaced
<1> QED BY <1>2, <1>3 DEF SameParams, es

LEMMA ParamNewGood ==
  ASSUME NEW ds \in Seq(Domains), Good(ds), NEW dom \in 1..Len(ds), NEW c \in ParamDecls,
         ATP_param_find_unique(c.pname, ds)[1] = NoIndex
  PROVE  Good(ATP_param_new(c.pname, c.ptype, c.deflt, dom, ds))
<1> DEFINE param == NewParam(c)
           New(m, n) == NewPlace(ds, dom, m, n)
           es == ATP_param_new(c.pname, c.ptype, c.deflt, dom, ds)
<1>1. \A i \in 1..Len(ds) : \A k \in 1..Len(ds[i].paramsArray) :
        ds[i].paramsArray[k].paramName # c.pname
  <2>1. Len(ds) \in Nat /\ \A i \in 1..Len(ds) : Len(ds[i].paramsArray) \in Nat
    BY ParamsCounted
  <2>2. PICK name, at : name = c.pname /\ at = ATP_param_find_unique(name, ds)
    OBVIOUS
  <2>3. \/ \A i \in 1..Len(ds) : \A k \in 1..Len(ds[i].paramsArray) :
             ds[i].paramsArray[k].paramName # name
        \/ at[1] \in 1..Len(ds)
    BY <2>1, <2>2, ParamFindUnique
  <2>4. at[1] = 0
    BY <2>2 DEF NoIndex
  <2>5. ~(at[1] \in 1..Len(ds))
    BY <2>1, <2>4
  <2> QED BY <2>2, <2>3, <2>5
<1>2. param.paramName = c.pname /\ param.valueArray = Uninit
  BY DEF NewParam
<1>0. WithNewParam(ds, dom, c, es)
  BY ParamNewFields
<1> HIDE DEF param, es
<1>3. /\ Len(es) = Len(ds)
      /\ \A i \in 1..Len(ds) : es[i].domName = ds[i].domName
      /\ \A i \in 1..Len(ds) : \A k \in 1..Len(es[i].paramsArray) :
           \/ New(i, k) /\ es[i].paramsArray[k] = param
           \/ /\ ~New(i, k)
              /\ k \in 1..Len(ds[i].paramsArray)
              /\ es[i].paramsArray[k] = ds[i].paramsArray[k]
  BY <1>0 DEF WithNewParam, param
<1>4. \A i, j \in 1..Len(ds) : es[i].domName = es[j].domName => i = j
  BY <1>3 DEF Good, UniqueIn
<1>5. ASSUME NEW i \in 1..Len(ds), NEW j \in 1..Len(ds),
             NEW k \in 1..Len(es[i].paramsArray), NEW l \in 1..Len(es[j].paramsArray),
             es[i].paramsArray[k].paramName = es[j].paramsArray[l].paramName
      PROVE  i = j /\ k = l
  <2>1. CASE New(i, k) /\ New(j, l)
    BY <2>1 DEF NewPlace
  <2>2. CASE ~New(i, k) /\ ~New(j, l)
    <3> HIDE DEF New
    <3>1. /\ k \in 1..Len(ds[i].paramsArray) /\ l \in 1..Len(ds[j].paramsArray)
          /\ ds[i].paramsArray[k].paramName = ds[j].paramsArray[l].paramName
      BY <1>3, <1>5, <2>2
    <3>2. Apart(ds, i, j)
      BY DEF Good, UniqueIn
    <3> QED BY <3>1, <3>2 DEF Apart
  <2>3. CASE New(i, k) /\ ~New(j, l)
    <3> HIDE DEF New
    <3>1. l \in 1..Len(ds[j].paramsArray) /\ ds[j].paramsArray[l].paramName = c.pname
      BY <1>2, <1>3, <1>5, <2>3
    <3> QED BY <1>1, <3>1
  <2>4. CASE ~New(i, k) /\ New(j, l)
    <3> HIDE DEF New
    <3>1. k \in 1..Len(ds[i].paramsArray) /\ ds[i].paramsArray[k].paramName = c.pname
      BY <1>2, <1>3, <1>5, <2>4
    <3> QED BY <1>1, <3>1
  <2> QED BY <2>1, <2>2, <2>3, <2>4
<1> HIDE DEF New
<1>6. UniqueIn(es)
  BY <1>3, <1>4, <1>5 DEF UniqueIn, Apart
<1>7. TriplesIn(es)
  <2> SUFFICES ASSUME NEW i \in 1..Len(ds), NEW k \in 1..Len(es[i].paramsArray)
               PROVE  TripleOf(es[i].paramsArray[k])
    BY <1>3 DEF TriplesIn
  <2>1. CASE es[i].paramsArray[k] = param
    BY <1>2, <2>1 DEF TripleOf
  <2>2. CASE k \in 1..Len(ds[i].paramsArray) /\ es[i].paramsArray[k] = ds[i].paramsArray[k]
    BY <2>2 DEF Good, TriplesIn
  <2> QED BY <1>3, <2>1, <2>2
<1> QED BY <1>6, <1>7 DEF Good, es

LEMMA AddValuesGood ==
  ASSUME NEW ds \in Seq(Domains), Good(ds), NEW dom \in 1..Len(ds),
         NEW param \in 1..Len(ds[dom].paramsArray), NEW vArray \in Seq(Int),
         ds[dom].paramsArray[param].paramType = ATP_PARAM_TYPE_RANGE => Len(vArray) = 3
  PROVE  Good(ATP_param_add_values(param, dom, vArray, ds))
<1> DEFINE es == ATP_param_add_values(param, dom, vArray, ds)
<1>1. GivenValues(ds, dom, param, vArray, es)
  BY AddValuesFields
<1> HIDE DEF es
<1>2. PICK q : /\ WithParam(ds, dom, param, q, es)
               /\ q.paramName = ds[dom].paramsArray[param].paramName
               /\ q.paramType = ds[dom].paramsArray[param].paramType
               /\ q.valueArray = vArray
  BY <1>1 DEF GivenValues
<1>3. SameNames(ds, es)
  <2>1. \A i \in 1..Len(ds) : \A k \in 1..Len(ds[i].paramsArray) :
          es[i].paramsArray[k].paramName = ds[i].paramsArray[k].paramName
    BY <1>2 DEF WithParam
  <2> QED BY <1>2, <2>1 DEF SameNames, WithParam
<1>4. TriplesIn(es)
  <2>1. TripleOf(q)
    BY <1>2 DEF TripleOf
  <2>2. ASSUME NEW i \in 1..Len(es), NEW k \in 1..Len(es[i].paramsArray)
        PROVE  TripleOf(es[i].paramsArray[k])
    BY <1>2, <2>1 DEF Good, TriplesIn, WithParam
  <2> QED BY <2>2 DEF TriplesIn
<1> QED BY <1>3, <1>4, SameUnique DEF Good, es

-----------------------------------------------------------------------------
(* The calls of the application.                                           *)

LEMMA DeclareGood ==
  ASSUME Shape, NEW p \in Procs, Good(lib[p].domains), Declare(p)
  PROVE  \E ds \in Seq(Domains) : Good(ds) /\ (Collect(p, ds) \/ EndCollection(p, ds))
<1> DEFINE ds == Collected(p)
<1>1. lib[p] \in Libs /\ HasDomains(lib[p])
  BY DEF Shape, TypeOK
<1>2. ds \in Seq(Domains) /\ Good(ds)
  <2>1. StartCollection(lib[p]) \in Libs
    BY <1>1, Start
  <2>2. CASE lib[p].init
    <3>1. StartCollection(lib[p]) = lib[p]
      BY <1>1, <2>2, Start
    <3> QED BY <2>1, <3>1 DEF Collected, Libs
  <2>3. CASE ~lib[p].init
    <3> DEFINE fresh == ATP_domain_new(ATP_DFLT_DOMAIN, <<>>)
    <3>1. Good(fresh)
      <4>1. <<>> \in Seq(Domains)
        OBVIOUS
      <4>2. ATP_DFLT_DOMAIN \in DomArgs /\ Named(ATP_DFLT_DOMAIN) = ATP_DFLT_DOMAIN
        BY NamesAssumption DEF DomArgs, Named
      <4> QED BY <4>1, <4>2, EmptyGood, DomainNewGood
    <3> HIDE DEF fresh
    <3>2. StartCollection(lib[p]).domains = fresh
      BY <2>3 DEF StartCollection, ATP_init, ATP_collection_is_not_init,
                  ATP_collection_set, fresh
    <3> QED BY <2>1, <3>1, <3>2 DEF Collected, Libs
  <2> QED BY <2>2, <2>3
<1>3. Len(ds) \in Nat
  BY <1>2
<1>4. ASSUME NEW c \in ParamDecls
      PROVE  LET new == WithDomain(p, c)
             IN /\ new \in Seq(Domains)
                /\ Good(new)
                /\ ATP_domain_find(c.domName, new) \in 1..Len(new)
  <2>1. c.domName \in DomArgs
    BY AnnotationsAssumption
  <2> QED BY <1>2, <2>1, DomainNew, DomainNewGood DEF WithDomain
<1> HIDE DEF ds
<1>5. ASSUME NEW c \in ParamDecls, atp_param_declare(p, c)
      PROVE  \E es \in Seq(Domains) : Good(es) /\ Collect(p, es)
  <2> DEFINE new == WithDomain(p, c)
             dom == ATP_domain_find(c.domName, new)
             es == ATP_param_new(c.pname, c.ptype, c.deflt, dom, new)
  <2>1. /\ ATP_param_find_unique(c.pname, new)[1] = NoIndex
        /\ Collect(p, es)
    BY <1>5 DEF atp_param_declare
  <2>2. new \in Seq(Domains) /\ Good(new) /\ dom \in 1..Len(new)
    BY <1>4
  <2>3. es \in Seq(Domains) /\ Good(es)
    <3> HIDE DEF new, dom
    <3> QED BY <2>1, <2>2, ParamNewType, ParamNewGood
  <2> HIDE DEF es
  <2> QED BY <2>1, <2>3
<1>6. ASSUME NEW c \in ParamDecls, atp_param_declare_again(p, c)
      PROVE  \E es \in Seq(Domains) : Good(es) /\ EndCollection(p, es)
  BY <1>4, <1>6 DEF atp_param_declare_again
<1>7. ASSUME NEW c \in ValueDecls, atp_param_add_values(p, c)
      PROVE  \E es \in Seq(Domains) : Good(es) /\ Collect(p, es)
  <2> DEFINE dom == ATP_domain_find(c.domName, ds)
             param == IF dom = NoIndex THEN NoIndex
                      ELSE ATP_param_find(c.pname, ds[dom])
             accepted == /\ c.vArray # NULL
                         /\ c.vArray # <<>>
                         /\ param # NoIndex
                         /\ ds[dom].paramsArray[param].paramType
                              = ATP_PARAM_TYPE_RANGE => Len(c.vArray) = 3
             es == IF accepted THEN ATP_param_add_values(param, dom, c.vArray, ds)
                               ELSE ds
  <2>1. ASSUME accepted PROVE es \in Seq(Domains) /\ Good(es)
    <3>1. dom \in 1..Len(ds)
      <4>1. dom # NoIndex
        BY <2>1
      <4> QED BY <1>3, <4>1, DomainFind
    <3>2. Len(ds[dom].paramsArray) \in Nat
      <4>1. ds[dom] \in Domains
        BY <1>2, <3>1
      <4> QED BY <4>1, DomainFields
    <3>3. param \in 1..Len(ds[dom].paramsArray)
      <4>1. param = ATP_param_find(c.pname, ds[dom]) /\ param # NoIndex
        BY <2>1
      <4> QED BY <3>2, <4>1, ParamFind
    <3>4. c.vArray \in Seq(Int)
      BY <2>1, AnnotationsAssumption
    <3>5. /\ es = ATP_param_add_values(param, dom, c.vArray, ds)
          /\ ds[dom].paramsArray[param].paramType = ATP_PARAM_TYPE_RANGE
               => Len(c.vArray) = 3
      BY <2>1
    <3> HIDE DEF dom, param, es
    <3> QED BY <1>2, <3>1, <3>3, <3>4, <3>5, ParamAddValuesType, AddValuesGood
  <2>2. ASSUME ~accepted PROVE es \in Seq(Domains) /\ Good(es)
    BY <1>2, <2>2
  <2>3. Collect(p, es)
    BY <1>7 DEF atp_param_add_values, ds
  <2> HIDE DEF es
  <2> QED BY <2>1, <2>2, <2>3
<1>8. ASSUME NEW c \in ConstraintDecls, atp_constraint_declare(p, c)
      PROVE  \E es \in Seq(Domains) : Good(es) /\ Collect(p, es)
  <2> DEFINE dom == ATP_domain_find(c.domName, ds)
             refused == c.expr = NULL \/ dom = NoIndex
             es == IF refused THEN ds
                   ELSE ATP_constraint_new(c.cname, c.expr, dom, ds)
  <2>1. ASSUME ~refused PROVE es \in Seq(Domains) /\ Good(es)
    <3>1. dom \in 1..Len(ds)
      BY <2>1, <1>3, DomainFind
    <3>2. c.cname \in ConstraintNames /\ c.expr \in Exprs
      BY <2>1, AnnotationsAssumption
    <3>3. es = ATP_constraint_new(c.cname, c.expr, dom, ds)
      BY <2>1
    <3> HIDE DEF dom, es
    <3> QED BY <1>2, <3>1, <3>2, <3>3, ConstraintNewType, ConstraintNewSame,
              SameParamsGood
  <2>2. ASSUME refused PROVE es \in Seq(Domains) /\ Good(es)
    BY <1>2, <2>2
  <2>3. Collect(p, es)
    BY <1>8 DEF atp_constraint_declare, ds
  <2> HIDE DEF es
  <2> QED BY <2>1, <2>2, <2>3
<1>9. ASSUME NEW c \in ConstraintDecls, atp_constraint_declare_again(p, c)
      PROVE  \E es \in Seq(Domains) : Good(es) /\ EndCollection(p, es)
  BY <1>2, <1>9 DEF atp_constraint_declare_again, ds
<1>10. ASSUME NEW c \in ExplorationDecls, atp_exploration_declare(p, c)
       PROVE  \E es \in Seq(Domains) : Good(es) /\ Collect(p, es)
  <2> DEFINE dom == ATP_domain_find(c.domName, ds)
             refused == c.expList = NULL \/ c.domName = NULL \/ dom = NoIndex
             es == IF refused THEN ds ELSE ATP_exploration_new(c.expList, dom, ds)
  <2>1. ASSUME ~refused PROVE es \in Seq(Domains) /\ Good(es)
    <3>1. dom \in 1..Len(ds)
      BY <2>1, <1>3, DomainFind
    <3>2. c.expList \in Seq(PTypes)
      BY <2>1, AnnotationsAssumption, NamesAssumption
    <3>3. es = ATP_exploration_new(c.expList, dom, ds)
      BY <2>1
    <3> HIDE DEF dom, es
    <3> QED BY <1>2, <3>1, <3>2, <3>3, ExplorationNewType,
              ExplorationNewSame, SameParamsGood
  <2>2. ASSUME refused PROVE es \in Seq(Domains) /\ Good(es)
    BY <1>2, <2>2
  <2>3. Collect(p, es)
    BY <1>10 DEF atp_exploration_declare, ds
  <2> HIDE DEF es
  <2> QED BY <2>1, <2>2, <2>3
<1> QED BY <1>5, <1>6, <1>7, <1>8, <1>9, <1>10 DEF Declare

-----------------------------------------------------------------------------
(* What is printed and loaded.  An array of values that was never set is   *)
(* printed as garbage, and a triple as it is.                              *)

\* An array of values that was never set is printed as garbage.
LEMMA PrintedValue ==
  ASSUME NEW d \in Domains,
         NEW garbage \in [1..Len(d.paramsArray) -> GarbageArrays],
         NEW k \in 1..Len(d.paramsArray), d.paramsArray[k].valueArray = Uninit
  PROVE  Printed(d, garbage).paramsArray[k].valueArray = garbage[k]
<1> DEFINE q(i) == [d.paramsArray[i] EXCEPT
                      !.valueArray = IF @ = Uninit THEN garbage[i] ELSE @]
           ps == [i \in 1..Len(d.paramsArray) |-> q(i)]
           hints == SubSeq(d.explorationArray, 1, d.numExplorations)
<1>1. d.paramsArray[k] \in Params
  BY DomainFields
<1>2. q(k).valueArray = garbage[k]
  BY <1>1 DEF Params, atp_param_t
<1>3. Printed(d, garbage) = [d EXCEPT !.paramsArray = ps, !.explorationArray = hints]
  BY DEF Printed
<1>4. ps[k] = q(k)
  OBVIOUS
<1> HIDE DEF ps, q, hints
<1>5. Printed(d, garbage).paramsArray = ps
  BY <1>3 DEF Domains, atp_domain_t
<1> QED BY <1>2, <1>4, <1>5

LEMMA LoadedGood ==
  ASSUME NEW f \in Seq(Chunks \cup {Torn}), NEW es \in Seq(Domains), Whole(f),
         Len(f) <= Len(es), \A i \in 1..Len(f) : PrintOf(f[i], es, i), Good(es)
  PROVE  Good(Loaded(f))
<1> DEFINE ds == Loaded(f)
<1>1. Restored(ds, es) /\ Len(ds) = Len(f)
  BY WholeRestores, LoadedType
<1>2. \A i \in 1..Len(f) : ds[i].paramsArray = f[i].domain.paramsArray
  BY LoadedType
<1> HIDE DEF ds
<1>3. SameNames(es, ds)
  BY <1>1 DEF Restored, SameNames
<1>4. ASSUME NEW i \in 1..Len(ds), NEW k \in 1..Len(ds[i].paramsArray)
      PROVE  TripleOf(ds[i].paramsArray[k])
  <2>1. /\ i \in 1..Len(es) /\ es[i] \in Domains
        /\ k \in 1..Len(es[i].paramsArray)
        /\ TripleOf(es[i].paramsArray[k])
        /\ ds[i].paramsArray[k].paramType = es[i].paramsArray[k].paramType
    <3>1. i \in 1..Len(es) /\ Len(ds[i].paramsArray) = Len(es[i].paramsArray)
      BY <1>1 DEF Restored
    <3>2. es[i] \in Domains
      BY <3>1
    <3>3. k \in 1..Len(es[i].paramsArray)
      BY <3>1
    <3>4. TripleOf(es[i].paramsArray[k])
      BY <3>1, <3>3 DEF Good, TriplesIn
    <3>5. ds[i].paramsArray[k].paramType = es[i].paramsArray[k].paramType
      BY <1>1 DEF Restored
    <3> QED BY <3>1, <3>2, <3>3, <3>4, <3>5
  <2>2. CASE es[i].paramsArray[k].valueArray # Uninit
    BY <1>1, <2>1, <2>2 DEF Restored, TripleOf
  <2>3. CASE es[i].paramsArray[k].valueArray = Uninit
    <3>1. PICK garbage \in [1..Len(es[i].paramsArray) -> GarbageArrays] :
            f[i].domain = Printed(es[i], garbage)
      BY <1>1 DEF PrintOf
    <3>2. es[i].paramsArray[k] \in Params
      <4>1. es[i].paramsArray \in Seq(Params)
        BY <2>1, DomainFields
      <4> QED BY <2>1, <4>1
    <3>3. ds[i].paramsArray = f[i].domain.paramsArray
      BY <1>1, <1>2
    <3>4. Printed(es[i], garbage).paramsArray[k].valueArray = garbage[k]
      BY <2>1, <2>3, <3>2, PrintedValue
    <3>5. ds[i].paramsArray[k].valueArray \in GarbageArrays
      BY <2>1, <3>1, <3>3, <3>4
    <3> QED BY <3>5 DEF TripleOf
  <2> QED BY <2>2, <2>3
<1>5. TriplesIn(ds)
  BY <1>4 DEF TriplesIn
<1> QED BY <1>3, <1>5, SameUnique DEF Good, ds

-----------------------------------------------------------------------------
(***************************************************************************)
(* The descriptions of all processes, and the one on its way through the   *)
(* file, are good.  That the loaded one is needs the file to be a print of *)
(* a single description: Shape, LockHeld and FileHeld.                     *)
(***************************************************************************)
AllGood == Good(exported.domains) /\ \A p \in Procs : Good(lib[p].domains)

LEMMA InitAllGood == Init => AllGood
BY EmptyGood DEF Init, AllGood, FreshLib

\* A step that leaves the export alone, and gives at most one process domains
\* that are good.
LEMMA GoodKept ==
  ASSUME TypeOK, AllGood, UNCHANGED exported, NEW p \in Procs, NEW l,
         lib' = [lib EXCEPT ![p] = l], Good(l.domains)
  PROVE  AllGood'
<1>1. \A q \in Procs : q # p => lib'[q] = lib[q]
  BY DEF TypeOK
<1>2. lib'[p] = l
  BY DEF TypeOK
<1> QED BY <1>1, <1>2, Zenon DEF AllGood

LEMMA NextAllGood ==
  ASSUME Shape, LockHeld, FileHeld, AllGood, [Next]_vars
  PROVE  AllGood'
<1>0. TypeOK /\ \A p \in Procs : lib[p] \in Libs /\ Good(lib[p].domains)
  BY DEF Shape, TypeOK, AllGood
<1>1. ASSUME NEW p \in Procs, NEW ds \in Seq(Domains), Good(ds),
             Collect(p, ds) \/ EndCollection(p, ds)
      PROVE  AllGood'
  <2>1. CASE Collect(p, ds)
    <3> DEFINE l == [StartCollection(lib[p]) EXCEPT !.domains = ds]
    <3>1. lib' = [lib EXCEPT ![p] = l] /\ UNCHANGED exported
      BY <2>1 DEF Collect
    <3>2. l.domains = ds
      <4>1. StartCollection(lib[p]) \in Libs
        BY <1>0, Start DEF Shape
      <4> QED BY <4>1 DEF Libs
    <3> HIDE DEF l
    <3> QED BY <1>0, <1>1, <3>1, <3>2, GoodKept
  <2>2. CASE EndCollection(p, ds)
    <3> DEFINE l == ATP_collection_unset([lib[p] EXCEPT !.domains = ds])
    <3>1. lib' = [lib EXCEPT ![p] = l] /\ UNCHANGED exported
      BY <2>2 DEF EndCollection
    <3>2. l.domains = ds
      BY <1>0 DEF ATP_collection_unset, Libs
    <3> HIDE DEF l
    <3> QED BY <1>0, <1>1, <3>1, <3>2, GoodKept
  <2> QED BY <1>1, <2>1, <2>2
<1>2. ASSUME NEW p \in Procs, Declare(p) PROVE AllGood'
  BY <1>0, <1>1, <1>2, DeclareGood
<1>3. ASSUME NEW p \in Procs, atp_end_collection(p) PROVE AllGood'
  <2>1. EndCollection(p, lib[p].domains) /\ lib[p].domains \in Seq(Domains)
    BY <1>0, <1>3 DEF atp_end_collection, Libs
  <2> QED BY <1>0, <1>1, <2>1
<1>4. ASSUME NEW p \in Procs, OpenDesc(p) PROVE AllGood'
  <2>1. exported'.domains = lib[p].domains /\ UNCHANGED lib
    BY <1>4 DEF OpenDesc
  <2> QED BY <1>0, <2>1 DEF AllGood
<1>5. ASSUME NEW p \in Procs, load_desc_file(p) PROVE AllGood'
  <2> DEFINE ds == Loaded(file)
             l == ATP_collection_unset([ATP_init(lib[p]) EXCEPT !.domains = ds])
  <2>1. /\ lib' = [lib EXCEPT ![p] = l] /\ UNCHANGED exported
        /\ Whole(file) /\ ~lib[p].init
    BY <1>5 DEF load_desc_file
  <2>2. Good(ds)
    BY <1>0, <2>1, LoadedGood DEF TypeOK, FileHeld, OneDescription, AllGood
  <2> HIDE DEF ds
  <2>3. l.domains = ds
    BY <2>1 DEF ATP_init, ATP_collection_unset
  <2> HIDE DEF l
  <2> QED BY <1>0, <2>1, <2>2, <2>3, GoodKept
<1>6. ASSUME NEW p \in Procs,
             Exit(p) \/ Kill(p) \/ SegFault(p) \/ OpenCrashes(p)
      PROVE AllGood'
  <2>1. lib' = [lib EXCEPT ![p] = FreshLib] /\ UNCHANGED exported
    BY <1>6 DEF Exit, Kill, SegFault, OpenCrashes, Gone
  <2> QED BY <1>0, <2>1, EmptyGood, GoodKept DEF FreshLib
<1>7. ASSUME UNCHANGED <<lib, exported>> PROVE AllGood'
  BY <1>7 DEF AllGood
<1> QED BY <1>2, <1>3, <1>4, <1>5, <1>6, <1>7, Zenon
        DEF Next, ATP_gen_descfile, ATP_create_lockfile, LockTaken, WriteDomain, Fault,
            OpenFails, atp_param_get, ServerLoads, Relaunch, Terminated, vars

LEMMA GoodHeld ==
  ASSUME Barrier, ~Served
  PROVE  Spec => []AllGood
<1>1. Init => AllGood
  BY InitAllGood
<1>2. (Shape /\ LockHeld /\ FileHeld) /\ AllGood /\ [Next]_vars => AllGood'
  BY NextAllGood
<1> QED BY <1>1, <1>2, Held, PTL DEF Spec

\* With the barrier and no server, no process has two domains, or two parameters in any
\* of its domains, of one name: however its declarations are ordered, and after
\* the description went through the file (atp_param_declare's lookup over all
\* domains, ATP_domain_new's over the domains).
THEOREM NamesUnique == Barrier /\ ~Served /\ Spec => []UniqueNames
<1>1. ASSUME Barrier, ~Served PROVE Spec => []UniqueNames
  <2>1. AllGood => UniqueNames
    BY DEF AllGood, Good, UniqueIn, Apart, UniqueNames
  <2> QED BY <1>1, <2>1, GoodHeld, PTL
<1> QED BY <1>1

\* With the barrier and no server, the values of a range are three wherever they are not
\* garbage, in the process that declared it and in those that loaded it
\* (atp_param_add_values' test of numValues).
THEOREM RangesTriple == Barrier /\ ~Served /\ Spec => []RangeTriples
<1>1. ASSUME Barrier, ~Served PROVE Spec => []RangeTriples
  <2>1. AllGood => RangeTriples
    BY DEF AllGood, Good, TriplesIn, TripleOf, RangeTriples
  <2> QED BY <1>1, <2>1, GoodHeld, PTL
<1> QED BY <1>1
=============================================================================

-------------------------- MODULE AtpLibrary_proofs --------------------------
(***************************************************************************)
(* Theorems about AtpLibrary, for any processes, plan, faults and          *)
(* annotations.                                                            *)
(***************************************************************************)
EXTENDS AtpLibrary, AtpCommon_proofs

(***************************************************************************)
(* The updates of AtpCommon keep a description well typed.                 *)
(***************************************************************************)
LEMMA NamedType ==
  ASSUME NEW domName \in DomArgs
  PROVE  Named(domName) \in DomainNames /\ Named(Named(domName)) = Named(domName)
BY NamesAssumption DEF Named, DomArgs

LEMMA NewDomainType ==
  ASSUME NEW domName \in DomainNames
  PROVE  NewDomain(domName) \in Domains
<1>1. /\ <<>> \in Seq(Params)
      /\ <<>> \in Seq(Constraints)
      /\ <<>> \in Seq(PTypes)
  OBVIOUS
<1> QED BY <1>1 DEF NewDomain, Domains, atp_domain_t

LEMMA DomainNew ==
  ASSUME NEW ds \in Seq(Domains), NEW domName \in DomArgs
  PROVE  LET new == ATP_domain_new(Named(domName), ds)
         IN /\ new \in Seq(Domains)
            /\ new # <<>>
            /\ ATP_domain_find(domName, new) \in 1..Len(new)
<1> DEFINE new == ATP_domain_new(Named(domName), ds)
           found == ATP_domain_find(Named(domName), ds)
<1>0. Len(ds) \in Nat
  OBVIOUS
<1>1. CASE found # NoIndex
  <2>1. new = ds
    BY <1>1 DEF ATP_domain_new
  <2>2. found \in 1..Len(ds) /\ ds[found].domName = Named(Named(domName))
    BY <1>0, <1>1, DomainFind
  <2>3. ds[found].domName = Named(domName)
    BY <2>2, NamedType
  <2>4. ATP_domain_find(domName, ds) \in 1..Len(ds)
    BY <1>0, <2>2, <2>3, DomainFind
  <2> QED BY <2>1, <2>2, <2>4
<1>2. CASE found = NoIndex
  <2>1. new = Append(ds, NewDomain(Named(domName)))
    BY <1>2 DEF ATP_domain_new
  <2>2. NewDomain(Named(domName)) \in Domains
    BY NamedType, NewDomainType
  <2>3. new \in Seq(Domains) /\ Len(new) = Len(ds) + 1
        /\ new[Len(ds) + 1] = NewDomain(Named(domName))
    BY <2>1, <2>2
  <2>4. new[Len(ds) + 1].domName = Named(domName)
    BY <2>3 DEF NewDomain
  <2>5. Len(ds) + 1 \in 1..Len(new) /\ Len(new) \in Nat
    BY <1>0, <2>3
  <2>6. ATP_domain_find(domName, new) \in 1..Len(new)
    BY <2>4, <2>5, DomainFind
  <2> QED BY <2>3, <2>5, <2>6
<1> QED BY <1>1, <1>2

LEMMA DomainFields ==
  ASSUME NEW d \in Domains
  PROVE  /\ d.domName \in DomainNames
         /\ d.paramsArray \in Seq(Params)
         /\ d.constraintsArray \in Seq(Constraints)
         /\ d.explorationArray \in Seq(PTypes)
         /\ d.numExplorations = 0
BY DEF Domains, atp_domain_t

LEMMA ParamsCounted ==
  ASSUME NEW ds \in Seq(Domains)
  PROVE  \A i \in 1..Len(ds) : /\ ds[i].paramsArray \in Seq(Params)
                              /\ Len(ds[i].paramsArray) \in Nat
<1> SUFFICES ASSUME NEW i \in 1..Len(ds)
             PROVE  ds[i].paramsArray \in Seq(Params) /\ Len(ds[i].paramsArray) \in Nat
  OBVIOUS
<1>1. ds[i] \in Domains
  OBVIOUS
<1> QED BY <1>1, DomainFields

LEMMA ParamNewType ==
  ASSUME NEW ds \in Seq(Domains), NEW dom \in 1..Len(ds), NEW c \in ParamDecls
  PROVE  ATP_param_new(c.pname, c.ptype, c.deflt, dom, ds) \in Seq(Domains)
<1> DEFINE param == [paramName |-> c.pname, paramType |-> c.ptype,
                     defaultVal |-> c.deflt, valueArray |-> Uninit]
           d == [ds[dom] EXCEPT !.paramsArray = Append(@, param)]
<1>1. param \in Params
  BY AnnotationsAssumption DEF Params, atp_param_t
<1>2. ds[dom] \in Domains
  OBVIOUS
<1>3. Append(ds[dom].paramsArray, param) \in Seq(Params)
  BY <1>1, <1>2, DomainFields
<1>4. d \in Domains
  <2> HIDE DEF param
  <2> QED BY <1>2, <1>3 DEF Domains, atp_domain_t
<1>5. ATP_param_new(c.pname, c.ptype, c.deflt, dom, ds) = [ds EXCEPT ![dom] = d]
  BY DEF ATP_param_new
<1> HIDE DEF d
<1> QED BY <1>4, <1>5

LEMMA ParamAddValuesType ==
  ASSUME NEW ds \in Seq(Domains), NEW dom \in 1..Len(ds),
         NEW param \in 1..Len(ds[dom].paramsArray), NEW vArray \in Seq(Int)
  PROVE  ATP_param_add_values(param, dom, vArray, ds) \in Seq(Domains)
<1> DEFINE q == [ds[dom].paramsArray[param] EXCEPT !.valueArray = vArray]
           d == [ds[dom] EXCEPT !.paramsArray = [@ EXCEPT ![param] = q]]
<1>1. ds[dom] \in Domains
  OBVIOUS
<1>2. ds[dom].paramsArray \in Seq(Params)
  BY <1>1, DomainFields
<1>3. q \in Params
  <2>1. ds[dom].paramsArray[param] \in Params
    BY <1>2
  <2> QED BY <2>1 DEF Params, atp_param_t
<1>4. [ds[dom].paramsArray EXCEPT ![param] = q] \in Seq(Params)
  <2> HIDE DEF q
  <2> QED BY <1>2, <1>3
<1>5. d \in Domains
  <2> HIDE DEF q
  <2> QED BY <1>1, <1>4 DEF Domains, atp_domain_t
<1>6. ATP_param_add_values(param, dom, vArray, ds) = [ds EXCEPT ![dom] = d]
  BY DEF ATP_param_add_values
<1> HIDE DEF d
<1> QED BY <1>5, <1>6

LEMMA ConstraintNewType ==
  ASSUME NEW ds \in Seq(Domains), NEW dom \in 1..Len(ds),
         NEW cname \in ConstraintNames, NEW expr \in Exprs
  PROVE  ATP_constraint_new(cname, expr, dom, ds) \in Seq(Domains)
<1> DEFINE constraint == [constName |-> cname, constExpr |-> expr]
           d == [ds[dom] EXCEPT !.constraintsArray = Append(@, constraint)]
<1>1. constraint \in Constraints
  BY DEF Constraints, atp_constraint_t
<1>2. ds[dom] \in Domains
  OBVIOUS
<1>3. Append(ds[dom].constraintsArray, constraint) \in Seq(Constraints)
  BY <1>1, <1>2, DomainFields
<1>4. d \in Domains
  <2> HIDE DEF constraint
  <2> QED BY <1>2, <1>3 DEF Domains, atp_domain_t
<1>5. ATP_constraint_new(cname, expr, dom, ds) = [ds EXCEPT ![dom] = d]
  BY DEF ATP_constraint_new
<1> HIDE DEF d
<1> QED BY <1>4, <1>5

LEMMA ExplorationNewType ==
  ASSUME NEW ds \in Seq(Domains), NEW dom \in 1..Len(ds), NEW expList \in Seq(PTypes)
  PROVE  ATP_exploration_new(expList, dom, ds) \in Seq(Domains)
<1> DEFINE d == [ds[dom] EXCEPT !.explorationArray = expList]
<1>1. d \in Domains
  <2>1. ds[dom] \in Domains
    OBVIOUS
  <2> QED BY <2>1 DEF Domains, atp_domain_t
<1>2. ATP_exploration_new(expList, dom, ds) = [ds EXCEPT ![dom] = d]
  BY DEF ATP_exploration_new
<1> HIDE DEF d
<1> QED BY <1>1, <1>2

-----------------------------------------------------------------------------
(***************************************************************************)
(* The calls of the application.  Whatever a declaration does, it leaves   *)
(* the collection started with a typed, nonempty description, or ends it   *)
(* with one.                                                               *)
(***************************************************************************)

\* What a call relies on: an active collection has at least one domain.
HasDomains(l) == l.collection = 1 => l.domains # <<>>

LEMMA Start ==
  ASSUME NEW l \in Libs, HasDomains(l)
  PROVE  LET s == StartCollection(l)
         IN /\ s \in Libs
            /\ s.init
            /\ HasDomains(s)
            /\ l.init => s = l
<1> DEFINE fresh == ATP_domain_new(ATP_DFLT_DOMAIN, <<>>)
<1>1. fresh \in Seq(Domains) /\ fresh # <<>>
  <2>1. <<>> \in Seq(Domains)
    OBVIOUS
  <2>2. ATP_DFLT_DOMAIN \in DomArgs /\ Named(ATP_DFLT_DOMAIN) = ATP_DFLT_DOMAIN
    BY NamesAssumption DEF DomArgs, Named
  <2> QED BY <2>1, <2>2, DomainNew
<1>2. CASE l.init
  <2>1. l.collection # -1
    BY DEF Libs
  <2>2. StartCollection(l) = l
    BY <1>2, <2>1 DEF StartCollection, ATP_init, ATP_collection_is_not_init
  <2> QED BY <1>2, <2>2
<1>3. CASE ~l.init
  <2> HIDE DEF fresh
  <2>1. StartCollection(l) = [init |-> TRUE, collection |-> 1, domains |-> fresh]
    BY <1>3 DEF StartCollection, ATP_init, ATP_collection_is_not_init,
                ATP_collection_set, fresh
  <2> QED BY <1>1, <1>3, <2>1 DEF Libs, HasDomains
<1> QED BY <1>2, <1>3

\* The two outcomes of a declaration.
Declared(p, ds) ==
  /\ Collect(p, ds)
  /\ rrl' \in [Procs -> SUBSET Told]

LEMMA DeclareOutcome ==
  ASSUME TypeOK, NEW p \in Procs, HasDomains(lib[p]), Declare(p)
  PROVE  /\ Collecting(p)
         /\ \E ds \in Seq(Domains) : ds # <<>> /\ (Declared(p, ds) \/ EndCollection(p, ds))
<1> DEFINE ds == Collected(p)
<1>1. lib[p] \in Libs /\ rrl \in [Procs -> SUBSET Told]
  BY DEF TypeOK
<1>2. Collecting(p)
  BY DEF Declare, atp_param_declare, atp_param_declare_again, atp_param_add_values,
         atp_constraint_declare, atp_constraint_declare_again,
         atp_exploration_declare
<1>3. ds \in Seq(Domains) /\ ds # <<>>
  <2>1. StartCollection(lib[p]) \in Libs /\ HasDomains(StartCollection(lib[p]))
    BY <1>1, Start
  <2> QED BY <1>2, <2>1 DEF Collected, Collecting, ATP_collection_is_active,
                            HasDomains, Libs
<1>4. Len(ds) \in Nat
  BY <1>3
<1>5. ASSUME NEW c \in ParamDecls
      PROVE  LET new == WithDomain(p, c)
             IN new \in Seq(Domains) /\ new # <<>>
                /\ ATP_domain_find(c.domName, new) \in 1..Len(new)
  <2>1. c.domName \in DomArgs
    BY AnnotationsAssumption
  <2> QED BY <1>3, <2>1, DomainNew DEF WithDomain
<1> HIDE DEF ds
<1>6. ASSUME NEW c \in ParamDecls, atp_param_declare(p, c)
      PROVE  \E es \in Seq(Domains) : es # <<>> /\ Declared(p, es)
  <2> DEFINE new == WithDomain(p, c)
             dom == ATP_domain_find(c.domName, new)
             es == ATP_param_new(c.pname, c.ptype, c.deflt, dom, new)
  <2>1. new \in Seq(Domains) /\ new # <<>> /\ dom \in 1..Len(new)
    BY <1>5
  <2>2. es \in Seq(Domains)
    <3> HIDE DEF new, dom
    <3> QED BY <2>1, ParamNewType
  <2>3. es # <<>>
    <3>1. Len(es) = Len(new)
      <4> HIDE DEF new, dom
      <4> QED BY <2>1 DEF ATP_param_new
    <3> QED BY <2>1, <2>2, <3>1
  <2>4. Collect(p, es)
    BY <1>6 DEF atp_param_declare
  <2>5. rrl' \in [Procs -> SUBSET Told]
    <3>1. <<c.pname, c.deflt, c.domName>> \in Told
      BY AnnotationsAssumption DEF Told
    <3>2. rrl' = [rrl EXCEPT ![p] = @ \cup {<<c.pname, c.deflt, c.domName>>}]
      BY <1>6 DEF atp_param_declare
    <3> QED BY <1>1, <3>1, <3>2
  <2> HIDE DEF es
  <2> QED BY <2>2, <2>3, <2>4, <2>5 DEF Declared
<1>7. ASSUME NEW c \in ParamDecls, atp_param_declare_again(p, c)
      PROVE  \E es \in Seq(Domains) : es # <<>> /\ EndCollection(p, es)
  BY <1>5, <1>7 DEF atp_param_declare_again
<1>8. ASSUME NEW c \in ValueDecls, atp_param_add_values(p, c)
      PROVE  \E es \in Seq(Domains) : es # <<>> /\ Declared(p, es)
  <2> DEFINE dom == ATP_domain_find(c.domName, ds)
             param == IF dom = NoIndex THEN NoIndex
                      ELSE ATP_param_find(c.pname, ds[dom])
             accepted == /\ c.vArray # NULL
                         /\ c.vArray # <<>>
                         /\ param # NoIndex
                         /\ ds[dom].paramsArray[param].paramType
                              = ATP_PARAM_TYPE_RANGE => Len(c.vArray) = 3
             es == IF accepted THEN ATP_param_add_values(param, dom, c.vArray, ds)
                               ELSE ds
  <2>1. ASSUME accepted PROVE es \in Seq(Domains) /\ es # <<>>
    <3>1. dom \in 1..Len(ds)
      <4>1. dom # NoIndex
        BY <2>1
      <4> QED BY <1>4, <4>1, DomainFind
    <3>2. ds[dom].paramsArray \in Seq(Params)
      <4>1. ds[dom] \in Domains
        BY <1>3, <3>1
      <4> QED BY <4>1, DomainFields
    <3>3. param \in 1..Len(ds[dom].paramsArray)
      <4>1. param = ATP_param_find(c.pname, ds[dom]) /\ param # NoIndex
        BY <2>1
      <4>2. Len(ds[dom].paramsArray) \in Nat
        BY <3>2
      <4> QED BY <4>1, <4>2, ParamFind
    <3>4. c.vArray \in Seq(Int)
      BY <2>1, AnnotationsAssumption
    <3>5. es = ATP_param_add_values(param, dom, c.vArray, ds)
      BY <2>1
    <3>6. es \in Seq(Domains)
      <4> HIDE DEF dom, param
      <4> QED BY <1>3, <3>1, <3>3, <3>4, <3>5, ParamAddValuesType
    <3>7. Len(es) = Len(ds)
      <4> HIDE DEF dom, param
      <4> QED BY <1>3, <3>1, <3>5 DEF ATP_param_add_values
    <3> QED BY <1>3, <3>6, <3>7
  <2>2. ASSUME ~accepted PROVE es \in Seq(Domains) /\ es # <<>>
    BY <1>3, <2>2
  <2>3. es \in Seq(Domains) /\ es # <<>>
    BY <2>1, <2>2
  <2>4. Collect(p, es) /\ UNCHANGED rrl
    BY <1>8 DEF atp_param_add_values, ds
  <2> HIDE DEF es
  <2> QED BY <1>1, <2>3, <2>4 DEF Declared
<1>9. ASSUME NEW c \in ConstraintDecls, atp_constraint_declare(p, c)
      PROVE  \E es \in Seq(Domains) : es # <<>> /\ Declared(p, es)
  <2> DEFINE dom == ATP_domain_find(c.domName, ds)
             refused == c.expr = NULL \/ dom = NoIndex
             es == IF refused THEN ds
                   ELSE ATP_constraint_new(c.cname, c.expr, dom, ds)
  <2>1. ASSUME ~refused PROVE es \in Seq(Domains) /\ es # <<>>
    <3>1. dom \in 1..Len(ds)
      BY <2>1, <1>4, DomainFind
    <3>2. c.cname \in ConstraintNames /\ c.expr \in Exprs
      BY <2>1, AnnotationsAssumption
    <3>3. es = ATP_constraint_new(c.cname, c.expr, dom, ds)
      BY <2>1
    <3>4. es \in Seq(Domains)
      <4> HIDE DEF dom
      <4> QED BY <1>3, <3>1, <3>2, <3>3, ConstraintNewType
    <3>5. Len(es) = Len(ds)
      <4> HIDE DEF dom
      <4> QED BY <1>3, <3>1, <3>3 DEF ATP_constraint_new
    <3> QED BY <1>3, <3>4, <3>5
  <2>2. ASSUME refused PROVE es \in Seq(Domains) /\ es # <<>>
    BY <1>3, <2>2
  <2>3. es \in Seq(Domains) /\ es # <<>>
    BY <2>1, <2>2
  <2>4. Collect(p, es) /\ UNCHANGED rrl
    BY <1>9 DEF atp_constraint_declare, ds
  <2> HIDE DEF es
  <2> QED BY <1>1, <2>3, <2>4 DEF Declared
<1>10. ASSUME NEW c \in ConstraintDecls, atp_constraint_declare_again(p, c)
       PROVE  \E es \in Seq(Domains) : es # <<>> /\ EndCollection(p, es)
  BY <1>3, <1>10 DEF atp_constraint_declare_again, ds
<1>11. ASSUME NEW c \in ExplorationDecls, atp_exploration_declare(p, c)
       PROVE  \E es \in Seq(Domains) : es # <<>> /\ Declared(p, es)
  <2> DEFINE dom == ATP_domain_find(c.domName, ds)
             refused == c.expList = NULL \/ c.domName = NULL \/ dom = NoIndex
             es == IF refused THEN ds ELSE ATP_exploration_new(c.expList, dom, ds)
  <2>1. ASSUME ~refused PROVE es \in Seq(Domains) /\ es # <<>>
    <3>1. dom \in 1..Len(ds)
      BY <2>1, <1>4, DomainFind
    <3>2. c.expList \in Seq(PTypes)
      BY <2>1, AnnotationsAssumption, NamesAssumption
    <3>3. es = ATP_exploration_new(c.expList, dom, ds)
      BY <2>1
    <3>4. es \in Seq(Domains)
      <4> HIDE DEF dom
      <4> QED BY <1>3, <3>1, <3>2, <3>3, ExplorationNewType
    <3>5. Len(es) = Len(ds)
      <4> HIDE DEF dom
      <4> QED BY <1>3, <3>1, <3>3 DEF ATP_exploration_new
    <3> QED BY <1>3, <3>4, <3>5
  <2>2. ASSUME refused PROVE es \in Seq(Domains) /\ es # <<>>
    BY <1>3, <2>2
  <2>3. es \in Seq(Domains) /\ es # <<>>
    BY <2>1, <2>2
  <2>4. Collect(p, es) /\ UNCHANGED rrl
    BY <1>11 DEF atp_exploration_declare, ds
  <2> HIDE DEF es
  <2> QED BY <1>1, <2>3, <2>4 DEF Declared
<1> QED BY <1>2, <1>6, <1>7, <1>8, <1>9, <1>10, <1>11 DEF Declare

-----------------------------------------------------------------------------
(* What is printed of a domain, and read back from it, is a domain.        *)

LEMMA PrintedType ==
  ASSUME NEW d \in Domains,
         NEW garbage \in [1..Len(d.paramsArray) -> GarbageArrays]
  PROVE  LET printed == Printed(d, garbage)
         IN /\ printed \in Domains
            /\ printed.domName = d.domName
            /\ printed.constraintsArray = d.constraintsArray
            /\ printed.explorationArray = <<>>
            /\ Len(printed.paramsArray) = Len(d.paramsArray)
            /\ \A k \in 1..Len(d.paramsArray) :
                 /\ printed.paramsArray[k].paramName = d.paramsArray[k].paramName
                 /\ printed.paramsArray[k].paramType = d.paramsArray[k].paramType
                 /\ printed.paramsArray[k].defaultVal = d.paramsArray[k].defaultVal
                 /\ d.paramsArray[k].valueArray # Uninit =>
                      printed.paramsArray[k].valueArray
                        = d.paramsArray[k].valueArray
<1> DEFINE q(k) == [d.paramsArray[k] EXCEPT
                      !.valueArray = IF @ = Uninit THEN garbage[k] ELSE @]
           ps == [k \in 1..Len(d.paramsArray) |-> q(k)]
           hints == SubSeq(d.explorationArray, 1, d.numExplorations)
<1>1. d.paramsArray \in Seq(Params) /\ Len(d.paramsArray) \in Nat
  BY DomainFields
<1>2. ASSUME NEW k \in 1..Len(d.paramsArray)
      PROVE  /\ q(k) \in Params
             /\ q(k).paramName = d.paramsArray[k].paramName
             /\ q(k).paramType = d.paramsArray[k].paramType
             /\ q(k).defaultVal = d.paramsArray[k].defaultVal
             /\ d.paramsArray[k].valueArray # Uninit =>
                  q(k).valueArray = d.paramsArray[k].valueArray
  <2>1. d.paramsArray[k] \in Params
    BY <1>1
  <2>2. garbage[k] \in Seq(Int)
    BY NamesAssumption
  <2> QED BY <2>1, <2>2 DEF Params, atp_param_t
<1>3. ps \in Seq(Params) /\ Len(ps) = Len(d.paramsArray)
  <2> HIDE DEF q
  <2> QED BY <1>1, <1>2
<1>4. hints = <<>>
  <2>1. d.numExplorations = 0
    BY DomainFields
  <2> QED BY <2>1
<1>5. <<>> \in Seq(PTypes)
  OBVIOUS
<1>6. Printed(d, garbage) = [d EXCEPT !.paramsArray = ps, !.explorationArray = hints]
  BY DEF Printed
<1>7. \A k \in 1..Len(d.paramsArray) : ps[k] = q(k)
  OBVIOUS
<1> HIDE DEF ps, q, hints
<1>8. /\ Printed(d, garbage) \in Domains
      /\ Printed(d, garbage).paramsArray = ps
      /\ Printed(d, garbage).domName = d.domName
      /\ Printed(d, garbage).constraintsArray = d.constraintsArray
      /\ Printed(d, garbage).explorationArray = <<>>
  BY <1>3, <1>4, <1>5, <1>6 DEF Domains, atp_domain_t
<1> QED BY <1>2, <1>3, <1>7, <1>8

LEMMA LoadedType ==
  ASSUME NEW f \in Seq(Chunks \cup {Torn}), Whole(f)
  PROVE  /\ Loaded(f) \in Seq(Domains)
         /\ Len(Loaded(f)) = Len(f)
         /\ Loaded(f) # <<>>
         /\ \A i \in 1..Len(f) : /\ f[i] \in Chunks
                                 /\ Loaded(f)[i].domName = f[i].domain.domName
                                 /\ Loaded(f)[i].paramsArray = f[i].domain.paramsArray
                                 /\ Loaded(f)[i].constraintsArray
                                      = f[i].domain.constraintsArray
<1> DEFINE d(i) == [f[i].domain EXCEPT !.explorationArray = <<>>]
<1>1. ASSUME NEW i \in 1..Len(f)
      PROVE  /\ f[i] \in Chunks
             /\ d(i) \in Domains
             /\ d(i).domName = f[i].domain.domName
             /\ d(i).paramsArray = f[i].domain.paramsArray
             /\ d(i).constraintsArray = f[i].domain.constraintsArray
  <2>1. f[i] \in Chunks
    BY DEF Whole
  <2>2. f[i].domain \in Domains /\ <<>> \in Seq(PTypes)
    BY <2>1 DEF Chunks
  <2> QED BY <2>1, <2>2 DEF Domains, atp_domain_t
<1>2. Loaded(f) = [i \in 1..Len(f) |-> d(i)]
  BY DEF Loaded
<1>3. Len(f) \in Nat /\ Len(f) # 0
  BY DEF Whole
<1> HIDE DEF d
<1>4. Loaded(f) \in Seq(Domains) /\ Len(Loaded(f)) = Len(f)
  BY <1>1, <1>2, <1>3
<1>5. Loaded(f) # <<>>
  BY <1>3, <1>4
<1>6. \A i \in 1..Len(f) : Loaded(f)[i] = d(i)
  BY <1>2
<1> QED BY <1>1, <1>4, <1>5, <1>6

-----------------------------------------------------------------------------
(***************************************************************************)
(* Type correctness.  TypeOK alone is not inductive: WriteDomain reads the *)
(* domain at the cursor, so the cursor of a writer has to stay inside its  *)
(* description, and that description must have a first domain.             *)
(***************************************************************************)
Writing == {"lock", "open", "write"}

Shape ==
  /\ TypeOK
  /\ \A p \in Procs : HasDomains(lib[p])
  /\ \A p \in Procs : pc[p] \in Writing => lib[p].domains # <<>>
  /\ \A p \in Procs : pc[p] = "write" => cursor[p] \in 1..Len(lib[p].domains)
  /\ \A p \in Procs : pc[p] = "down" => ~lib[p].init
  /\ LockNotStale

LEMMA FreshLibType == FreshLib \in Libs /\ HasDomains(FreshLib) /\ ~FreshLib.init
<1>1. <<>> \in Seq(Domains)
  OBVIOUS
<1> QED BY <1>1 DEF FreshLib, Libs, HasDomains

LEMMA InitShape == Init => Shape
<1> SUFFICES ASSUME Init PROVE Shape
  OBVIOUS
<1> USE DEF Init
<1>1. Len(Plan) \in Nat \ {0}
  BY PlanAssumption
<1>2. /\ <<>> \in Seq(Chunks \cup {Torn})
      /\ <<>> \in Seq(Domains)
  OBVIOUS
<1>3. TypeOK
  BY <1>1, <1>2, FreshLibType DEF TypeOK, NoLock
<1>4. LockNotStale
  BY DEF LockNotStale
<1> QED BY <1>3, <1>4, FreshLibType DEF Shape, Writing

LEMMA CollectShape ==
  ASSUME Shape, NEW p \in Procs, NEW ds \in Seq(Domains), ds # <<>>,
         Collecting(p), Declared(p, ds)
  PROVE  Shape'
<1> DEFINE l == [StartCollection(lib[p]) EXCEPT !.domains = ds]
<1>1. TypeOK /\ lib[p] \in Libs /\ HasDomains(lib[p]) /\ LockNotStale
  BY DEF Shape, TypeOK
<1>2. l \in Libs /\ l.init /\ l.domains = ds
  <2>1. StartCollection(lib[p]) \in Libs /\ StartCollection(lib[p]).init
    BY <1>1, Start
  <2> QED BY <2>1 DEF Libs
<1>3. HasDomains(l)
  BY <1>2 DEF HasDomains
<1>4. lib' = [lib EXCEPT ![p] = l]
  BY DEF Declared, Collect
<1>5. /\ rrl' \in [Procs -> SUBSET Told]
      /\ lock' = IF lib[p].init THEN lock ELSE NoLock
      /\ UNCHANGED <<asked, pc, cursor, file, execution, creators, exported>>
  BY DEF Declared, Collect, RemoveLockIfFirst
<1>6. pc[p] = "app"
  BY DEF Collecting
<1> HIDE DEF l
<1>7. \A q \in Procs : lib'[q] = IF q = p THEN l ELSE lib[q]
  BY <1>1, <1>4 DEF TypeOK
<1>8. TypeOK'
  BY <1>1, <1>2, <1>4, <1>5 DEF TypeOK
<1>9. LockNotStale'
  BY <1>1, <1>5, <1>7 DEF LockNotStale
<1> QED BY <1>3, <1>5, <1>6, <1>7, <1>8, <1>9 DEF Shape, Writing

LEMMA EndShape ==
  ASSUME Shape, NEW p \in Procs, NEW ds \in Seq(Domains), ds # <<>>,
         pc[p] = "app", EndCollection(p, ds)
  PROVE  Shape'
<1> DEFINE l == ATP_collection_unset([lib[p] EXCEPT !.domains = ds])
<1>1. TypeOK /\ lib[p] \in Libs /\ LockNotStale
  BY DEF Shape, TypeOK
<1>2. l \in Libs /\ l.init = lib[p].init /\ l.domains = ds /\ l.collection = 0
  BY <1>1 DEF Libs, ATP_collection_unset
<1>3. HasDomains(l)
  BY <1>2 DEF HasDomains
<1>4. lib' = [lib EXCEPT ![p] = l] /\ pc' = [pc EXCEPT ![p] = "lock"]
  BY DEF EndCollection
<1>5. UNCHANGED <<rrl, asked, cursor, lock, file, execution, creators, exported>>
  BY DEF EndCollection
<1> HIDE DEF l
<1>6. \A q \in Procs : /\ lib'[q] = IF q = p THEN l ELSE lib[q]
                       /\ pc'[q] = IF q = p THEN "lock" ELSE pc[q]
  BY <1>1, <1>4 DEF TypeOK
<1>7. TypeOK'
  BY <1>1, <1>2, <1>4, <1>5 DEF TypeOK
<1>8. LockNotStale'
  BY <1>1, <1>2, <1>5, <1>6 DEF LockNotStale
<1> QED BY <1>2, <1>3, <1>5, <1>6, <1>7, <1>8 DEF Shape, Writing

LEMMA GoneShape ==
  ASSUME Shape, NEW p \in Procs, Gone(p)
  PROVE  Shape'
<1>1. TypeOK /\ LockNotStale
  BY DEF Shape
<1>2. \A q \in Procs : /\ lib'[q] = IF q = p THEN FreshLib ELSE lib[q]
                       /\ pc'[q] = IF q = p THEN "down" ELSE pc[q]
  BY <1>1 DEF TypeOK, Gone
<1>3. TypeOK'
  BY <1>1, FreshLibType DEF TypeOK, Gone
<1>4. LockNotStale'
  BY <1>1, <1>2, FreshLibType DEF LockNotStale, Gone
<1>5. UNCHANGED cursor
  BY DEF Gone
<1> QED BY <1>2, <1>3, <1>4, <1>5, FreshLibType DEF Shape, Writing

\* What can be told of an RRL once asked for a parameter of this process.
LEMMA GetShape ==
  ASSUME Shape, NEW p \in Procs, NEW g \in Gets, atp_param_get(p, g)
  PROVE  Shape'
<1> DEFINE ds == lib[p].domains
           at == ATP_param_find_unique(g.pname, ds)
           told == <<g.pname, ds[at[1]].paramsArray[at[2]].defaultVal, g.domName>>
<1>1. TypeOK /\ ds \in Seq(Domains) /\ Len(ds) \in Nat
  BY DEF Shape, TypeOK, Libs
<1>2. \A i \in 1..Len(ds) : /\ ds[i].paramsArray \in Seq(Params)
                            /\ Len(ds[i].paramsArray) \in Nat
  BY <1>1, ParamsCounted
<1> HIDE DEF ds
<1>3. at[1] \in 1..Len(ds) /\ at[2] \in 1..Len(ds[at[1]].paramsArray)
  <2>1. at[1] # NoIndex
    BY DEF atp_param_get, ds
  <2> QED BY <1>1, <1>2, <2>1, ParamFindUnique
<1>4. ds[at[1]].paramsArray[at[2]].defaultVal \in Int
  <2> HIDE DEF at
  <2>1. ds[at[1]].paramsArray[at[2]] \in Params
    BY <1>2, <1>3
  <2> QED BY <2>1 DEF Params, atp_param_t
<1>5. told \in Told
  BY <1>4, AnnotationsAssumption DEF Told
<1>6. /\ asked' = [asked EXCEPT ![p] = @ \cup {told}]
      /\ UNCHANGED <<lib, rrl, pc, cursor, lock, file, execution, creators, exported>>
  BY DEF atp_param_get, ds
<1> HIDE DEF told
<1>7. TypeOK'
  BY <1>1, <1>5, <1>6 DEF TypeOK
<1> QED BY <1>6, <1>7 DEF Shape, LockNotStale

LEMMA LoadShape ==
  ASSUME Shape, NEW p \in Procs, load_desc_file(p)
  PROVE  Shape'
<1> DEFINE ds == Loaded(file)
           l == ATP_collection_unset([ATP_init(lib[p]) EXCEPT !.domains = ds])
<1>1. TypeOK /\ LockNotStale /\ ~lib[p].init /\ pc[p] = "app"
  BY DEF Shape, load_desc_file
<1>2. ds \in Seq(Domains) /\ Len(ds) \in Nat
  <2>1. file \in Seq(Chunks \cup {Torn}) /\ Whole(file)
    BY <1>1 DEF TypeOK, load_desc_file
  <2> QED BY <2>1, LoadedType
<1>3. DeclaredIn(ds) \in SUBSET Told
  <2>1. ASSUME NEW i \in 1..Len(ds), NEW j \in 1..Len(ds[i].paramsArray)
        PROVE  <<ds[i].paramsArray[j].paramName,
                 ds[i].paramsArray[j].defaultVal, ds[i].domName>> \in Told
    <3>1. ds[i] \in Domains
      BY <1>2
    <3>2. ds[i].paramsArray[j] \in Params /\ ds[i].domName \in DomArgs
      BY <3>1, DomainFields DEF DomArgs
    <3> QED BY <3>2 DEF Params, atp_param_t, Told
  <2> HIDE DEF ds
  <2> QED BY <2>1 DEF DeclaredIn
<1>4. /\ lib' = [lib EXCEPT ![p] = l]
      /\ lock' = NoLock
      /\ rrl' = [rrl EXCEPT ![p] = DeclaredIn(ds)]
      /\ UNCHANGED <<asked, pc, cursor, file, execution, creators, exported>>
  BY <1>1 DEF load_desc_file, RemoveLockIfFirst
<1> HIDE DEF ds
<1>5. l \in Libs /\ l.init /\ l.collection = 0 /\ l.domains = ds
  BY <1>1, <1>2 DEF ATP_init, ATP_collection_unset, Libs
<1>6. HasDomains(l)
  BY <1>5 DEF HasDomains
<1> HIDE DEF l
<1>7. \A q \in Procs : lib'[q] = IF q = p THEN l ELSE lib[q]
  BY <1>1, <1>4 DEF TypeOK
<1>8. TypeOK'
  BY <1>1, <1>3, <1>4, <1>5 DEF TypeOK, NoLock
<1>9. LockNotStale'
  BY <1>4 DEF LockNotStale
<1> QED BY <1>1, <1>4, <1>6, <1>7, <1>8, <1>9 DEF Shape, Writing

LEMMA WriteAtType ==
  ASSUME NEW S, NEW f \in Seq(S \cup {Torn}), NEW at \in Nat \ {0}, NEW chunk \in S
  PROVE  WriteAt(at, chunk, f) \in Seq(S \cup {Torn})
<1> DEFINE n == IF at > Len(f) THEN at ELSE Len(f)
           e(i) == IF i = at THEN IF at > Len(f) THEN chunk
                                  ELSE IF f[at] = chunk THEN chunk ELSE Torn
                   ELSE IF i <= Len(f) THEN f[i] ELSE Torn
<1>1. CASE at = Len(f) + 1
  BY <1>1 DEF WriteAt
<1>2. CASE at # Len(f) + 1
  <2>1. n \in Nat
    OBVIOUS
  <2>2. \A i \in 1..n : e(i) \in S \cup {Torn}
    OBVIOUS
  <2>3. WriteAt(at, chunk, f) = [i \in 1..n |-> e(i)]
    BY <1>2 DEF WriteAt
  <2> HIDE DEF n, e
  <2> QED BY <2>1, <2>2, <2>3
<1> QED BY <1>1, <1>2

LEMMA WriteShape ==
  ASSUME Shape, NEW p \in Procs, WriteDomain(p)
  PROVE  Shape'
<1> DEFINE ds == lib[p].domains
           at == cursor[p]
           last == at = Len(ds)
<1>1. /\ TypeOK /\ LockNotStale
      /\ ds \in Seq(Domains) /\ Len(ds) \in Nat
      /\ pc[p] = "write"
      /\ at \in 1..Len(ds)
  BY DEF Shape, TypeOK, Libs, WriteDomain
<1>2. PICK garbage \in [1..Len(ds[at].paramsArray) -> GarbageArrays] :
        file' = WriteAt(at, [domain |-> Printed(ds[at], garbage), last |-> last], file)
  BY DEF WriteDomain
<1>3. [domain |-> Printed(ds[at], garbage), last |-> last] \in Chunks
  <2>1. ds[at] \in Domains
    BY <1>1
  <2> HIDE DEF ds, at
  <2>2. Printed(ds[at], garbage) \in Domains
    BY <2>1, PrintedType
  <2> QED BY <2>2 DEF Chunks
<1>4. file' \in Seq(Chunks \cup {Torn})
  <2>1. file \in Seq(Chunks \cup {Torn}) /\ at \in Nat \ {0}
    BY <1>1 DEF TypeOK
  <2> HIDE DEF at, last, ds
  <2> QED BY <1>2, <1>3, <2>1, WriteAtType
<1>5. /\ cursor' = [cursor EXCEPT ![p] = at + 1]
      /\ pc' = [pc EXCEPT ![p] = IF last THEN "app" ELSE "write"]
      /\ UNCHANGED <<lib, rrl, asked, lock, execution, creators, exported>>
  BY DEF WriteDomain
<1> HIDE DEF ds, last, at
<1>6. \A q \in Procs : /\ cursor'[q] = IF q = p THEN at + 1 ELSE cursor[q]
                       /\ pc'[q] = IF q = p THEN IF last THEN "app" ELSE "write"
                                   ELSE pc[q]
  BY <1>1, <1>5 DEF TypeOK
<1>7. TypeOK'
  BY <1>1, <1>4, <1>5 DEF TypeOK
<1>8. pc'[p] = "write" => cursor'[p] \in 1..Len(lib'[p].domains)
  BY <1>1, <1>5, <1>6 DEF last, ds
<1>9. LockNotStale'
  BY <1>1, <1>5 DEF LockNotStale
<1> QED BY <1>1, <1>5, <1>6, <1>7, <1>8, <1>9 DEF Shape, Writing

LEMMA DescfileShape ==
  ASSUME Shape, NEW p \in Procs, ATP_gen_descfile(p) \/ OpenFails(p)
  PROVE  Shape'
<1>1. TypeOK /\ LockNotStale
  BY DEF Shape
<1>2. CASE ATP_create_lockfile(p)
  <2>1. /\ pc[p] = "lock"
        /\ pc' = [pc EXCEPT ![p] = "open"]
        /\ lock' = execution
        /\ creators' = creators \cup {p}
        /\ UNCHANGED <<lib, rrl, asked, cursor, file, execution, exported>>
    BY <1>2 DEF ATP_create_lockfile
  <2>2. \A q \in Procs : pc'[q] = IF q = p THEN "open" ELSE pc[q]
    BY <1>1, <2>1 DEF TypeOK
  <2>3. TypeOK'
    BY <1>1, <2>1 DEF TypeOK
  <2>4. LockNotStale'
    BY <2>1 DEF LockNotStale
  <2> QED BY <2>1, <2>2, <2>3, <2>4 DEF Shape, Writing
<1>3. CASE LockTaken(p) \/ OpenFails(p)
  <2>1. /\ pc[p] \in Writing
        /\ pc' = [pc EXCEPT ![p] = "app"]
        /\ UNCHANGED <<lib, rrl, asked, cursor, lock, file, execution, creators,
                       exported>>
    BY <1>3 DEF LockTaken, OpenFails, Writing
  <2>2. \A q \in Procs : pc'[q] = IF q = p THEN "app" ELSE pc[q]
    BY <1>1, <2>1 DEF TypeOK
  <2>3. TypeOK'
    BY <1>1, <2>1 DEF TypeOK
  <2>4. LockNotStale'
    BY <1>1, <2>1 DEF LockNotStale
  <2> QED BY <2>1, <2>2, <2>3, <2>4 DEF Shape, Writing
<1>4. CASE OpenDesc(p)
  <2>1. /\ pc[p] = "open"
        /\ pc' = [pc EXCEPT ![p] = "write"]
        /\ cursor' = [cursor EXCEPT ![p] = 1]
        /\ file' = <<>>
        /\ exported' = [execution |-> execution, domains |-> lib[p].domains]
        /\ UNCHANGED <<lib, rrl, asked, lock, execution, creators>>
    BY <1>4 DEF OpenDesc
  <2>2. \A q \in Procs : /\ pc'[q] = IF q = p THEN "write" ELSE pc[q]
                         /\ cursor'[q] = IF q = p THEN 1 ELSE cursor[q]
    BY <1>1, <2>1 DEF TypeOK
  <2>3. lib[p].domains \in Seq(Domains) /\ lib[p].domains # <<>>
    BY <2>1 DEF Shape, TypeOK, Libs, Writing
  <2>4. TypeOK'
    <3>1. <<>> \in Seq(Chunks \cup {Torn})
      OBVIOUS
    <3> QED BY <1>1, <2>1, <2>3, <3>1 DEF TypeOK
  <2>5. 1 \in 1..Len(lib[p].domains)
    BY <2>3
  <2>6. LockNotStale'
    BY <1>1, <2>1 DEF LockNotStale
  <2> QED BY <2>1, <2>2, <2>4, <2>5, <2>6 DEF Shape, Writing
<1>5. CASE WriteDomain(p)
  BY <1>5, WriteShape
<1> QED BY <1>2, <1>3, <1>4, <1>5 DEF ATP_gen_descfile

LEMMA RelaunchShape ==
  ASSUME Shape, Relaunch
  PROVE  Shape'
<1>1. TypeOK /\ \A p \in Procs : ~lib[p].init /\ HasDomains(lib[p])
  BY DEF Shape, Relaunch, AllDown
<1>2. /\ execution < Len(Plan)
      /\ execution' = execution + 1
      /\ pc' = [p \in Procs |-> "app"]
      /\ cursor' = [p \in Procs |-> 1]
      /\ creators' = {}
      /\ UNCHANGED <<lib, rrl, asked, lock, file, exported>>
  BY DEF Relaunch
<1>3. Len(Plan) \in Nat
  BY PlanAssumption
<1>4. TypeOK'
  BY <1>1, <1>2, <1>3 DEF TypeOK
<1>5. LockNotStale'
  BY <1>1, <1>2 DEF LockNotStale
<1> QED BY <1>1, <1>2, <1>4, <1>5 DEF Shape, Writing

LEMMA NextShape == Shape /\ [Next]_vars => Shape'
<1> SUFFICES ASSUME Shape, [Next]_vars PROVE Shape'
  OBVIOUS
<1>1. ASSUME NEW p \in Procs, Declare(p) PROVE Shape'
  <2>1. TypeOK /\ HasDomains(lib[p])
    BY DEF Shape
  <2>2. Collecting(p) /\ pc[p] = "app"
    BY <1>1, <2>1, DeclareOutcome DEF Collecting
  <2>3. PICK ds \in Seq(Domains) :
          ds # <<>> /\ (Declared(p, ds) \/ EndCollection(p, ds))
    BY <1>1, <2>1, DeclareOutcome
  <2> QED BY <2>2, <2>3, CollectShape, EndShape
<1>2. ASSUME NEW p \in Procs, atp_end_collection(p) PROVE Shape'
  <2>1. pc[p] = "app" /\ EndCollection(p, lib[p].domains)
    BY <1>2 DEF atp_end_collection
  <2>2. lib[p].domains \in Seq(Domains) /\ lib[p].domains # <<>>
    BY <1>2 DEF atp_end_collection, ATP_collection_is_active, Shape, HasDomains,
                TypeOK, Libs
  <2> QED BY <2>1, <2>2, EndShape
<1>3. ASSUME NEW p \in Procs, NEW g \in Gets, atp_param_get(p, g) PROVE Shape'
  BY <1>3, GetShape
<1>4. ASSUME NEW p \in Procs, ATP_gen_descfile(p) \/ OpenFails(p) PROVE Shape'
  BY <1>4, DescfileShape
<1>5. ASSUME NEW p \in Procs, load_desc_file(p) PROVE Shape'
  BY <1>5, LoadShape
<1>6. ASSUME NEW p \in Procs,
             Exit(p) \/ Kill(p) \/ SegFault(p) \/ OpenCrashes(p)
      PROVE Shape'
  BY <1>6, GoneShape DEF Exit, Kill, SegFault, OpenCrashes
<1>7. CASE Relaunch
  BY <1>7, RelaunchShape
<1>8. CASE ServerLoads
  BY <1>8 DEF ServerLoads, Shape, TypeOK, LockNotStale, NoLock
<1>9. CASE Terminated \/ UNCHANGED vars
  BY <1>9 DEF Terminated, vars, Shape, TypeOK, LockNotStale
<1> QED BY <1>1, <1>2, <1>3, <1>4, <1>5, <1>6, <1>7, <1>8, <1>9 DEF Next, Fault

\* Every reachable state is well typed.
THEOREM TypeCorrect == Spec => []TypeOK
<1>1. Spec => []Shape
  BY InitShape, NextShape, PTL DEF Spec
<1>2. Shape => TypeOK
  BY DEF Shape
<1> QED BY <1>1, <1>2, PTL

\* A lock file left by an earlier execution, crashed or not, never stands in
\* the way of a process that has started (ATP_init's ATP_remove_lockfile).
THEOREM NoStaleLock == Spec => []LockNotStale
<1>1. Spec => []Shape
  BY InitShape, NextShape, PTL DEF Spec
<1>2. Shape => LockNotStale
  BY DEF Shape
<1> QED BY <1>1, <1>2, PTL

-----------------------------------------------------------------------------
(***************************************************************************)
(* One writer.  Behind the barrier every process of the execution has run  *)
(* ATP_init, and so removed the lock file, before any process tries to     *)
(* create it; without a server no one else removes it: once created it     *)
(* stays for the rest of the execution.                                    *)
(***************************************************************************)
LockHeld ==
  /\ creators # {} => lock = execution /\ AllStarted
  /\ \A p \in Procs : pc[p] \in Writing => AllStarted
  /\ SingleWriter

LEMMA InitLockHeld == Init => LockHeld
BY DEF Init, LockHeld, SingleWriter, Writing

\* A step that leaves the lock and its creators alone, lets nobody into the
\* writing who was not there unless all have started, and undoes no start.
LEMMA LockKept ==
  ASSUME LockHeld,
         UNCHANGED <<lock, creators, execution>>,
         \A p \in Procs : pc'[p] \in Writing => pc[p] \in Writing \/ AllStarted,
         AllStarted => AllStarted'
  PROVE  LockHeld'
BY DEF LockHeld, SingleWriter

LEMMA NextLockHeld ==
  ASSUME Barrier, ~Served, Shape, LockHeld, [Next]_vars
  PROVE  LockHeld'
<1>0. TypeOK
  BY DEF Shape
<1>1. ASSUME NEW p \in Procs, NEW ds \in Seq(Domains), Collecting(p), Collect(p, ds)
      PROVE  LockHeld'
  <2>1. lib[p] \in Libs /\ HasDomains(lib[p]) /\ pc[p] = "app"
    BY <1>1 DEF Shape, TypeOK, Collecting
  <2>2. \A q \in Procs : lib[q].init => lib'[q].init
    <3>1. [StartCollection(lib[p]) EXCEPT !.domains = ds].init
      BY <2>1, Start DEF Libs
    <3>2. lib' = [lib EXCEPT ![p] = [StartCollection(lib[p]) EXCEPT !.domains = ds]]
      BY <1>1 DEF Collect
    <3> QED BY <1>0, <3>1, <3>2 DEF TypeOK
  <2>3. UNCHANGED <<pc, creators, execution>>
    BY <1>1 DEF Collect
  <2>4. AllStarted => AllStarted'
    BY <2>2, <2>3 DEF AllStarted
  <2>5. CASE creators = {}
    BY <2>3, <2>4, <2>5 DEF LockHeld, SingleWriter
  <2>6. CASE creators # {}
    <3>1. lib[p].init
      BY <2>1, <2>6 DEF LockHeld, AllStarted
    <3>2. UNCHANGED lock
      BY <1>1, <3>1 DEF Collect, RemoveLockIfFirst
    <3> QED BY <2>3, <2>4, <3>2, LockKept
  <2> QED BY <2>5, <2>6
<1>2. ASSUME NEW p \in Procs, NEW ds \in Seq(Domains), pc[p] = "app",
             EndCollection(p, ds)
      PROVE  LockHeld'
  <2>1. AllStarted
    BY <1>2 DEF EndCollection, MayEnd
  <2>2. /\ lib' = [lib EXCEPT ![p] =
                     ATP_collection_unset([lib[p] EXCEPT !.domains = ds])]
        /\ pc' = [pc EXCEPT ![p] = "lock"]
        /\ UNCHANGED <<lock, creators, execution>>
    BY <1>2 DEF EndCollection
  <2>3. \A q \in Procs : lib'[q].init = lib[q].init /\ (q # p => pc'[q] = pc[q])
    BY <1>0, <2>2 DEF TypeOK, Libs, ATP_collection_unset
  <2>4. lib[p].init
    BY <1>2, <2>1 DEF AllStarted
  <2>5. AllStarted'
    BY <2>1, <2>3, <2>4 DEF AllStarted
  <2> QED BY <2>1, <2>2, <2>5, LockKept
<1>3. ASSUME NEW p \in Procs, Declare(p) PROVE LockHeld'
  <2>1. HasDomains(lib[p])
    BY DEF Shape
  <2>2. Collecting(p) /\ pc[p] = "app"
    BY <1>0, <1>3, <2>1, DeclareOutcome DEF Collecting
  <2>3. PICK ds \in Seq(Domains) : Declared(p, ds) \/ EndCollection(p, ds)
    BY <1>0, <1>3, <2>1, DeclareOutcome
  <2> QED BY <1>1, <1>2, <2>2, <2>3 DEF Declared
<1>4. ASSUME NEW p \in Procs, atp_end_collection(p) PROVE LockHeld'
  <2>1. lib[p].domains \in Seq(Domains)
    BY <1>0 DEF TypeOK, Libs
  <2> QED BY <1>2, <1>4, <2>1 DEF atp_end_collection
<1>5. ASSUME NEW p \in Procs, load_desc_file(p) PROVE LockHeld'
  <2>1. ~lib[p].init /\ pc[p] = "app"
    BY <1>5 DEF load_desc_file
  <2>2. ~AllStarted
    BY <2>1 DEF AllStarted
  <2>3. creators = {} /\ \A q \in Procs : pc[q] \notin Writing
    BY <2>2 DEF LockHeld
  <2>4. UNCHANGED <<pc, creators>>
    BY <1>5 DEF load_desc_file
  <2> QED BY <2>3, <2>4 DEF LockHeld, SingleWriter
<1>6. ASSUME NEW p \in Procs, ATP_create_lockfile(p) PROVE LockHeld'
  <2>1. /\ pc[p] = "lock" /\ lock = NoLock
        /\ lock' = execution /\ creators' = creators \cup {p}
        /\ pc' = [pc EXCEPT ![p] = "open"]
        /\ UNCHANGED <<lib, execution>>
    BY <1>6 DEF ATP_create_lockfile
  <2>2. creators = {}
    BY <1>0, <2>1 DEF LockHeld, TypeOK, NoLock
  <2>3. AllStarted
    BY <2>1 DEF LockHeld, Writing
  <2>4. \A q \in Procs : q # p => pc'[q] = pc[q]
    BY <1>0, <2>1 DEF TypeOK
  <2>5. AllStarted'
    BY <2>1, <2>3, <2>4 DEF AllStarted
  <2> QED BY <2>1, <2>2, <2>5 DEF LockHeld, SingleWriter
<1>7. ASSUME NEW p \in Procs,
             LockTaken(p) \/ OpenDesc(p) \/ WriteDomain(p) \/ OpenFails(p)
      PROVE  LockHeld'
  <2>1. pc[p] \in Writing /\ UNCHANGED <<lib, lock, creators, execution>>
    BY <1>7 DEF LockTaken, OpenDesc, WriteDomain, OpenFails, Writing
  <2>2. \A q \in Procs : q # p => pc'[q] = pc[q]
    BY <1>0, <1>7 DEF TypeOK, LockTaken, OpenDesc, WriteDomain, OpenFails
  <2>3. AllStarted
    BY <2>1 DEF LockHeld
  <2>4. AllStarted'
    BY <2>1, <2>2, <2>3 DEF AllStarted, Writing
  <2> QED BY <2>1, <2>3, <2>4, LockKept
<1>8. ASSUME NEW p \in Procs, NEW g \in Gets, atp_param_get(p, g) PROVE LockHeld'
  <2>1. UNCHANGED <<lib, pc, lock, creators, execution>>
    BY <1>8 DEF atp_param_get
  <2>2. AllStarted => AllStarted'
    BY <2>1 DEF AllStarted
  <2>3. \A q \in Procs : pc'[q] = pc[q]
    BY <2>1
  <2> QED BY <2>1, <2>2, <2>3, LockKept
<1>9. ASSUME NEW p \in Procs,
             Exit(p) \/ Kill(p) \/ SegFault(p) \/ OpenCrashes(p)
      PROVE LockHeld'
  <2>1. Gone(p)
    BY <1>9 DEF Exit, Kill, SegFault, OpenCrashes
  <2>2. UNCHANGED <<lock, creators, execution>>
    BY <2>1 DEF Gone
  <2>3. \A q \in Procs : /\ lib'[q] = IF q = p THEN FreshLib ELSE lib[q]
                         /\ pc'[q] = IF q = p THEN "down" ELSE pc[q]
    BY <1>0, <2>1 DEF TypeOK, Gone
  <2>4. AllStarted => AllStarted'
    BY <2>3 DEF AllStarted
  <2> QED BY <2>2, <2>3, <2>4, LockKept DEF Writing
<1>10. CASE Relaunch
  <2>1. pc' = [p \in Procs |-> "app"] /\ creators' = {}
    BY <1>10 DEF Relaunch
  <2> QED BY <2>1 DEF LockHeld, SingleWriter, Writing
<1>11. CASE Terminated \/ UNCHANGED vars
  BY <1>11 DEF Terminated, vars, LockHeld, AllStarted, SingleWriter
<1>12. ~ServerLoads
  BY DEF ServerLoads
<1> QED BY <1>3, <1>4, <1>5, <1>6, <1>7, <1>8, <1>9, <1>10, <1>11, <1>12
        DEF Next, ATP_gen_descfile, Fault

\* With the barrier, and no server in the directory, at most one process of an
\* execution creates the lock file (the comment of ATP_create_lockfile).  Otherwise
\* the statement is false: a process whose first call comes late, or a server that
\* loads the description, removes the lock of another.
THEOREM OneWriter == Barrier /\ ~Served /\ Spec => []SingleWriter
<1>1. ASSUME Barrier, ~Served PROVE Spec => []SingleWriter
  <2>1. Init => Shape /\ LockHeld
    BY InitShape, InitLockHeld
  <2>2. Shape /\ LockHeld /\ [Next]_vars => (Shape /\ LockHeld)'
    BY <1>1, NextShape, NextLockHeld
  <2>3. Shape /\ LockHeld => SingleWriter
    BY DEF LockHeld
  <2> QED BY <2>1, <2>2, <2>3, PTL DEF Spec
<1> QED BY <1>1

-----------------------------------------------------------------------------
(* Collection ends for good: an action of a process whose collection has   *)
(* ended leaves its description alone or is the end of the process.        *)

LEMMA EndedStep == Shape /\ [Next]_vars => StaysEnded \/ UNCHANGED vars
<1> SUFFICES ASSUME Shape, [Next]_vars, NEW p \in Procs,
                    lib[p].init, lib[p].collection = 0
             PROVE  lib'[p] = lib[p] \/ pc'[p] = "down"
  BY DEF StaysEnded
<1>0. TypeOK /\ lib[p] \in Libs
  BY DEF Shape, TypeOK
<1>1. ~Collecting(p) /\ ~ATP_collection_is_active(lib[p])
  BY DEF Collecting, StartCollection, ATP_init, ATP_collection_is_not_init,
         ATP_collection_is_active
<1>2. ASSUME NEW q \in Procs, Declare(q) PROVE lib'[p] = lib[p]
  <2>1. /\ Collecting(q)
        /\ \E ds \in Seq(Domains) : Declared(q, ds) \/ EndCollection(q, ds)
    BY <1>0, <1>2, DeclareOutcome DEF Shape
  <2>2. q # p
    BY <1>1, <2>1
  <2> QED BY <1>0, <2>1, <2>2 DEF Declared, Collect, EndCollection, TypeOK
<1>3. ASSUME NEW q \in Procs, atp_end_collection(q) PROVE lib'[p] = lib[p]
  <2>1. q # p /\ EndCollection(q, lib[q].domains)
    BY <1>1, <1>3 DEF atp_end_collection
  <2> QED BY <1>0, <2>1 DEF EndCollection, TypeOK
<1>4. ASSUME NEW q \in Procs, load_desc_file(q) PROVE lib'[p] = lib[p]
  <2>1. PICK l : lib' = [lib EXCEPT ![q] = l]
    BY <1>4 DEF load_desc_file
  <2>2. q # p
    BY <1>4 DEF load_desc_file
  <2> QED BY <1>0, <2>1, <2>2 DEF TypeOK
<1>5. ASSUME NEW q \in Procs,
             ATP_gen_descfile(q) \/ OpenFails(q) \/ (\E g \in Gets : atp_param_get(q, g))
      PROVE  lib'[p] = lib[p]
  BY <1>5 DEF ATP_gen_descfile, ATP_create_lockfile, LockTaken, OpenDesc, WriteDomain,
              OpenFails, atp_param_get
<1>6. ASSUME NEW q \in Procs, Exit(q) \/ Kill(q) \/ SegFault(q) \/ OpenCrashes(q)
      PROVE  lib'[p] = lib[p] \/ pc'[p] = "down"
  BY <1>0, <1>6 DEF Exit, Kill, SegFault, OpenCrashes, Gone, TypeOK
<1>7. CASE ServerLoads \/ Relaunch \/ Terminated \/ UNCHANGED vars
  BY <1>7 DEF ServerLoads, Relaunch, Terminated, vars
<1> QED BY <1>2, <1>3, <1>4, <1>5, <1>6, <1>7 DEF Next, Fault

\* After its collection has ended, no call of a process changes the description
\* that it writes (atp_init_collection's guard on collection, and load_desc_file's
\* on desc_file_loaded).
THEOREM CollectionEnds == Spec => EndedForGood
<1>1. Spec => []Shape
  BY InitShape, NextShape, PTL DEF Spec
<1>2. Shape /\ [Next]_vars => [StaysEnded]_vars
  BY EndedStep
<1> QED BY <1>1, <1>2, PTL DEF Spec, EndedForGood

-----------------------------------------------------------------------------
(***************************************************************************)
(* One description.  The only process that can be past the lock is the one *)
(* that created it, so the file it truncated grows by the domains it still *)
(* holds, in their order; and in a RAT execution nobody writes.  A file    *)
(* that is then found whole is all of that description.                    *)
(***************************************************************************)
FileHeld ==
  /\ \A p \in Procs : pc[p] \in {"open", "write"} => p \in creators
  /\ \A p \in Procs : pc[p] = "write" => /\ exported.domains = lib[p].domains
                                         /\ cursor[p] = Len(file) + 1
  /\ ATP_check_exec_mode = "RAT" => \A p \in Procs : pc[p] \notin Writing
  /\ OneDescription
  /\ LoadedIsCollected

LEMMA InitFileHeld == Init => FileHeld
BY DEF Init, FileHeld, Writing, OneDescription, LoadedIsCollected, FreshLib

\* A step that leaves the files, and the library of every writer and of every
\* process that has loaded, as they are, and lets nobody write who did not.
LEMMA FileKept ==
  ASSUME FileHeld,
         UNCHANGED <<file, exported, execution, creators, cursor>>,
         \A p \in Procs : \/ pc'[p] = pc[p] /\ lib'[p] = lib[p]
                          \/ /\ pc'[p] \notin {"open", "write"}
                             /\ ATP_check_exec_mode = "RAT" =>
                                  pc'[p] \notin Writing /\ ~lib'[p].init
  PROVE  FileHeld'
<1>1. OneDescription'
  BY DEF FileHeld, OneDescription
<1>2. LoadedIsCollected'
  BY DEF FileHeld, LoadedIsCollected, ATP_check_exec_mode
<1> QED BY <1>1, <1>2 DEF FileHeld, ATP_check_exec_mode

LEMMA WriteFileHeld ==
  ASSUME Shape, SingleWriter, FileHeld, NEW p \in Procs, WriteDomain(p)
  PROVE  FileHeld'
<1> DEFINE ds == lib[p].domains
           at == cursor[p]
           last == at = Len(ds)
<1>1. /\ TypeOK
      /\ ds \in Seq(Domains) /\ Len(ds) \in Nat
      /\ file \in Seq(Chunks \cup {Torn})
      /\ pc[p] = "write" /\ p \in creators
      /\ at \in 1..Len(ds) /\ at = Len(file) + 1
      /\ exported.domains = ds
  BY DEF Shape, TypeOK, Libs, WriteDomain, FileHeld
<1>2. PICK garbage \in [1..Len(ds[at].paramsArray) -> GarbageArrays] :
        file' = WriteAt(at, [domain |-> Printed(ds[at], garbage), last |-> last], file)
  BY DEF WriteDomain
<1> DEFINE chunk == [domain |-> Printed(ds[at], garbage), last |-> last]
<1>3. /\ cursor' = [cursor EXCEPT ![p] = at + 1]
      /\ pc' = [pc EXCEPT ![p] = IF last THEN "app" ELSE "write"]
      /\ UNCHANGED <<lib, execution, creators, exported>>
  BY DEF WriteDomain
<1>4. chunk \in Chunks /\ PrintOf(chunk, ds, at)
  <2>1. ds[at] \in Domains
    BY <1>1
  <2> HIDE DEF ds, at
  <2>2. Printed(ds[at], garbage) \in Domains
    BY <2>1, PrintedType
  <2> QED BY <2>2 DEF Chunks, PrintOf
<1> HIDE DEF chunk
<1>5. file' = Append(file, chunk)
  BY <1>1, <1>2 DEF WriteAt, chunk
<1> HIDE DEF ds, at, last
<1>6. /\ Len(file') = at
      /\ file'[at] = chunk
      /\ \A i \in 1..Len(file) : file'[i] = file[i]
  BY <1>1, <1>4, <1>5
<1>7. OneDescription'
  <2>1. chunk # Torn
    BY <1>4, TornAssumption
  <2>2. \A i \in 1..Len(file') : i = at \/ i \in 1..Len(file)
    BY <1>1, <1>6
  <2>3. \A i \in 1..Len(file) : file[i] # Torn /\ PrintOf(file[i], ds, i)
    BY <1>1 DEF FileHeld, OneDescription
  <2>4. \A i \in 1..Len(file') : file'[i] # Torn /\ PrintOf(file'[i], ds, i)
    BY <1>4, <1>6, <2>1, <2>2, <2>3
  <2>5. exported'.domains = ds
    BY <1>1, <1>3
  <2> QED BY <1>1, <1>6, <2>4, <2>5 DEF OneDescription, PrintOf
<1>8. \A q \in Procs : q # p => pc'[q] = pc[q] /\ pc[q] \notin {"open", "write"}
  BY <1>1, <1>3 DEF FileHeld, SingleWriter, TypeOK
<1>9. pc'[p] = "write" => cursor'[p] = Len(file') + 1
  BY <1>1, <1>3, <1>6 DEF TypeOK
<1>10. pc[p] \in Writing /\ ATP_check_exec_mode # "RAT"
  BY <1>1 DEF FileHeld, Writing
<1> QED BY <1>1, <1>3, <1>7, <1>8, <1>9, <1>10
        DEF FileHeld, ATP_check_exec_mode, LoadedIsCollected, ds

LEMMA OpenFileHeld ==
  ASSUME Shape, SingleWriter, FileHeld, NEW p \in Procs, OpenDesc(p)
  PROVE  FileHeld'
<1>1. TypeOK /\ Len(lib[p].domains) \in Nat
  BY DEF Shape, TypeOK, Libs
<1>2. /\ pc[p] = "open" /\ p \in creators
      /\ pc' = [pc EXCEPT ![p] = "write"]
      /\ cursor' = [cursor EXCEPT ![p] = 1]
      /\ file' = <<>>
      /\ exported'.domains = lib[p].domains
      /\ UNCHANGED <<lib, execution, creators>>
  BY DEF OpenDesc, FileHeld
<1>3. \A q \in Procs : q # p => pc'[q] = pc[q] /\ pc[q] \notin {"open", "write"}
  BY <1>1, <1>2 DEF FileHeld, SingleWriter, TypeOK
<1>4. pc'[p] = "write" /\ cursor'[p] = Len(file') + 1
  BY <1>1, <1>2 DEF TypeOK
<1>5. OneDescription'
  BY <1>1, <1>2 DEF OneDescription
<1>6. ATP_check_exec_mode # "RAT"
  BY <1>2 DEF FileHeld, Writing
<1> QED BY <1>2, <1>3, <1>4, <1>5, <1>6
        DEF FileHeld, ATP_check_exec_mode, LoadedIsCollected

\* A whole file that is a beginning of what is printed of es is all of it, and
\* restores es.
LEMMA WholeRestores ==
  ASSUME NEW f \in Seq(Chunks \cup {Torn}), NEW es \in Seq(Domains), Whole(f),
         Len(f) <= Len(es), \A i \in 1..Len(f) : PrintOf(f[i], es, i)
  PROVE  Restored(Loaded(f), es)
<1> DEFINE ds == Loaded(f)
<1>1. Len(f) = Len(es)
  <2>1. Len(f) \in 1..Len(f)
    BY DEF Whole
  <2> QED BY <2>1 DEF Whole, PrintOf
<1> HIDE DEF ds
<1>2. ASSUME NEW i \in 1..Len(ds)
      PROVE  /\ ds[i].domName = es[i].domName
             /\ ds[i].constraintsArray = es[i].constraintsArray
             /\ Len(ds[i].paramsArray) = Len(es[i].paramsArray)
             /\ \A k \in 1..Len(ds[i].paramsArray) :
                  /\ ds[i].paramsArray[k].paramName = es[i].paramsArray[k].paramName
                  /\ ds[i].paramsArray[k].paramType = es[i].paramsArray[k].paramType
                  /\ ds[i].paramsArray[k].defaultVal = es[i].paramsArray[k].defaultVal
                  /\ es[i].paramsArray[k].valueArray # Uninit =>
                       ds[i].paramsArray[k].valueArray
                         = es[i].paramsArray[k].valueArray
  <2>1. i \in 1..Len(f) /\ es[i] \in Domains
    BY <1>1, LoadedType DEF ds
  <2>2. /\ ds[i].domName = f[i].domain.domName
        /\ ds[i].paramsArray = f[i].domain.paramsArray
        /\ ds[i].constraintsArray = f[i].domain.constraintsArray
    BY <2>1, LoadedType DEF ds
  <2>3. PICK garbage \in [1..Len(es[i].paramsArray) -> GarbageArrays] :
          f[i].domain = Printed(es[i], garbage)
    BY <2>1 DEF PrintOf
  <2> QED BY <2>1, <2>2, <2>3, PrintedType
<1>3. Len(ds) = Len(es)
  BY <1>1, LoadedType DEF ds
<1> QED BY <1>2, <1>3 DEF Restored, ds

LEMMA LoadFileHeld ==
  ASSUME Shape, FileHeld, NEW p \in Procs, load_desc_file(p)
  PROVE  FileHeld'
<1> DEFINE ds == Loaded(file)
           es == exported.domains
<1>1. /\ TypeOK /\ OneDescription /\ Whole(file)
      /\ file \in Seq(Chunks \cup {Torn}) /\ Len(file) \in Nat
      /\ es \in Seq(Domains) /\ Len(es) \in Nat
  BY DEF Shape, TypeOK, FileHeld, load_desc_file
<1>3. Restored(ds, es)
  BY <1>1, WholeRestores DEF OneDescription
<1>4. /\ lib' = [lib EXCEPT ![p] =
                   ATP_collection_unset([ATP_init(lib[p]) EXCEPT !.domains = ds])]
      /\ UNCHANGED <<pc, cursor, file, execution, creators, exported>>
  BY DEF load_desc_file
<1>5. ~lib[p].init /\ pc[p] = "app"
  BY DEF load_desc_file
<1> HIDE DEF ds
<1>6. lib'[p].domains = ds
  BY <1>1, <1>4, <1>5 DEF TypeOK, ATP_init, ATP_collection_unset
<1>7. \A q \in Procs : q # p => lib'[q] = lib[q]
  BY <1>1, <1>4 DEF TypeOK
<1>8. LoadedIsCollected'
  BY <1>3, <1>4, <1>6, <1>7 DEF FileHeld, LoadedIsCollected, ATP_check_exec_mode
<1>9. OneDescription'
  BY <1>1, <1>4 DEF OneDescription
<1> QED BY <1>4, <1>5, <1>7, <1>8, <1>9 DEF FileHeld, ATP_check_exec_mode

LEMMA NextFileHeld ==
  ASSUME Shape, LockHeld, FileHeld, [Next]_vars
  PROVE  FileHeld'
<1>0. TypeOK /\ SingleWriter
  BY DEF Shape, LockHeld
<1>1. ASSUME NEW p \in Procs, Declare(p) PROVE FileHeld'
  <2>1. PICK ds \in Seq(Domains) : Declared(p, ds) \/ EndCollection(p, ds)
    BY <1>0, <1>1, DeclareOutcome DEF Shape
  <2>2. Collecting(p)
    BY <1>0, <1>1, DeclareOutcome DEF Shape
  <2>3. pc[p] = "app" /\ ATP_check_exec_mode # "RAT"
    BY <2>2 DEF Collecting
  <2>4. UNCHANGED <<file, exported, execution, creators, cursor>>
    BY <2>1 DEF Declared, Collect, EndCollection
  <2>5. \A q \in Procs : /\ q # p => pc'[q] = pc[q] /\ lib'[q] = lib[q]
                         /\ pc'[p] \notin {"open", "write"}
    BY <1>0, <2>1, <2>3 DEF Declared, Collect, EndCollection, TypeOK
  <2> QED BY <2>3, <2>4, <2>5, FileKept
<1>2. ASSUME NEW p \in Procs, atp_end_collection(p) PROVE FileHeld'
  <2>1. /\ EndCollection(p, lib[p].domains)
        /\ ATP_check_exec_mode # "RAT"
    BY <1>2 DEF atp_end_collection
  <2>2. UNCHANGED <<file, exported, execution, creators, cursor>>
    BY <2>1 DEF EndCollection
  <2>3. \A q \in Procs : /\ q # p => pc'[q] = pc[q] /\ lib'[q] = lib[q]
                         /\ pc'[p] \notin {"open", "write"}
    BY <1>0, <2>1 DEF EndCollection, TypeOK
  <2> QED BY <2>1, <2>2, <2>3, FileKept
<1>3. ASSUME NEW p \in Procs, ATP_create_lockfile(p) PROVE FileHeld'
  <2>1. /\ pc[p] = "lock"
        /\ pc' = [pc EXCEPT ![p] = "open"]
        /\ creators' = creators \cup {p}
        /\ UNCHANGED <<lib, cursor, file, execution, exported>>
    BY <1>3 DEF ATP_create_lockfile
  <2>2. \A q \in Procs : pc'[q] = IF q = p THEN "open" ELSE pc[q]
    BY <1>0, <2>1 DEF TypeOK
  <2>3. ATP_check_exec_mode # "RAT"
    BY <2>1 DEF FileHeld, Writing
  <2>4. OneDescription' /\ LoadedIsCollected'
    BY <2>1, <2>3 DEF FileHeld, OneDescription, LoadedIsCollected, ATP_check_exec_mode
  <2> QED BY <2>1, <2>2, <2>3, <2>4 DEF FileHeld, ATP_check_exec_mode
<1>4. ASSUME NEW p \in Procs, LockTaken(p) \/ OpenFails(p) PROVE FileHeld'
  <2>1. /\ pc[p] \in Writing
        /\ pc' = [pc EXCEPT ![p] = "app"]
        /\ UNCHANGED <<lib, cursor, file, execution, creators, exported>>
    BY <1>4 DEF LockTaken, OpenFails, Writing
  <2>2. \A q \in Procs : /\ q # p => pc'[q] = pc[q] /\ lib'[q] = lib[q]
                         /\ pc'[p] \notin {"open", "write"}
    BY <1>0, <2>1 DEF TypeOK
  <2>3. ATP_check_exec_mode # "RAT"
    BY <2>1 DEF FileHeld
  <2> QED BY <2>1, <2>2, <2>3, FileKept
<1>5. ASSUME NEW p \in Procs, OpenDesc(p) \/ WriteDomain(p) \/ load_desc_file(p)
      PROVE  FileHeld'
  BY <1>0, <1>5, OpenFileHeld, WriteFileHeld, LoadFileHeld
<1>6. ASSUME NEW p \in Procs, NEW g \in Gets, atp_param_get(p, g) PROVE FileHeld'
  <2>1. UNCHANGED <<lib, pc, cursor, file, execution, creators, exported>>
    BY <1>6 DEF atp_param_get
  <2>2. \A q \in Procs : pc'[q] = pc[q] /\ lib'[q] = lib[q]
    BY <2>1
  <2> QED BY <2>1, <2>2, FileKept
<1>7. ASSUME NEW p \in Procs,
             Exit(p) \/ Kill(p) \/ SegFault(p) \/ OpenCrashes(p)
      PROVE FileHeld'
  <2>1. Gone(p)
    BY <1>7 DEF Exit, Kill, SegFault, OpenCrashes
  <2>2. UNCHANGED <<file, exported, execution, creators, cursor>>
    BY <2>1 DEF Gone
  <2>3. \A q \in Procs : /\ q # p => pc'[q] = pc[q] /\ lib'[q] = lib[q]
                         /\ pc'[p] = "down" /\ lib'[p] = FreshLib
    BY <1>0, <2>1 DEF Gone, TypeOK
  <2> QED BY <2>2, <2>3, FreshLibType, FileKept DEF Writing
<1>8. CASE Relaunch
  <2>1. /\ pc' = [p \in Procs |-> "app"]
        /\ UNCHANGED <<lib, file, exported>>
    BY <1>8 DEF Relaunch
  <2>2. \A p \in Procs : ~lib[p].init
    BY <1>8 DEF Relaunch, AllDown, Shape
  <2>3. OneDescription' /\ LoadedIsCollected'
    BY <2>1, <2>2 DEF FileHeld, OneDescription, LoadedIsCollected
  <2> QED BY <2>1, <2>3 DEF FileHeld, Writing
<1>9. CASE ServerLoads \/ Terminated \/ UNCHANGED vars
  <2>1. UNCHANGED <<lib, pc, cursor, file, execution, creators, exported>>
    BY <1>9 DEF ServerLoads, Terminated, vars
  <2> QED BY <2>1, FileKept
<1> QED BY <1>1, <1>2, <1>3, <1>4, <1>5, <1>6, <1>7, <1>8, <1>9
        DEF Next, ATP_gen_descfile, Fault

LEMMA Held ==
  ASSUME Barrier, ~Served
  PROVE  Spec => [](Shape /\ LockHeld /\ FileHeld)
<1>1. Init => Shape /\ LockHeld /\ FileHeld
  BY InitShape, InitLockHeld, InitFileHeld
<1>2. Shape /\ LockHeld /\ FileHeld /\ [Next]_vars => (Shape /\ LockHeld /\ FileHeld)'
  BY NextShape, NextLockHeld, NextFileHeld
<1> QED BY <1>1, <1>2, PTL DEF Spec

\* With the barrier and no server the description file never mixes the descriptions of two
\* processes, through truncation, kills and restarts (ATP_gen_descfile writes
\* only after ATP_create_lockfile succeeded).
THEOREM NoMixture == Barrier /\ ~Served /\ Spec => []OneDescription
<1>1. ASSUME Barrier, ~Served PROVE Spec => []OneDescription
  <2>1. Shape /\ LockHeld /\ FileHeld => OneDescription
    BY DEF FileHeld
  <2> QED BY <1>1, <2>1, Held, PTL
<1> QED BY <1>1

\* With the barrier and no server a RAT process never works from other than
\* what one DTA process collected (load_desc_file after ATP_gen_descfile).
THEOREM FaithfulLoad == Barrier /\ ~Served /\ Spec => []LoadedIsCollected
<1>1. ASSUME Barrier, ~Served PROVE Spec => []LoadedIsCollected
  <2>1. Shape /\ LockHeld /\ FileHeld => LoadedIsCollected
    BY DEF FileHeld
  <2> QED BY <1>1, <2>1, Held, PTL
<1> QED BY <1>1
=============================================================================

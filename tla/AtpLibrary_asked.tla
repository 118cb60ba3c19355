--------------------------- MODULE AtpLibrary_asked ---------------------------
(***************************************************************************)
(* When the RRL is asked for what it was told: the condition on the        *)
(* annotations under which atp_param_get never misses, for any processes   *)
(* and executions.                                                         *)
(***************************************************************************)
EXTENDS AtpLibrary_names

\* Every declaration names its domain, and a parameter is got under the domain it
\* is declared in.  Without this the property fails: one declared under NULL is
\* told to the RRL under NULL when it is collected and, by commit_param, under
\* "default" when it is loaded, and atp_param_get asks under NULL in both.
NamesItsDomain ==
  \A c \in ParamDecls :
    /\ c.domName # NULL
    /\ \A g \in Gets : g.pname = c.pname => g.domName = c.domName

\* What the RRL may be told of.
Scope == {t \in Told : \E c \in ParamDecls : t[1] = c.pname /\ t[3] = c.domName}

\* The parameters of ds, as the RRL is told of them, are in T.
Every(ds, T) ==
  \A i \in 1..Len(ds) : \A k \in 1..Len(ds[i].paramsArray) :
    <<ds[i].paramsArray[k].paramName, ds[i].paramsArray[k].defaultVal,
      ds[i].domName>> \in T

-----------------------------------------------------------------------------
(* The updates of AtpCommon.                                               *)

LEMMA EmptyEvery == ASSUME NEW T PROVE Every(<<>>, T)
BY DEF Every

LEMMA MoreEvery ==
  ASSUME NEW ds, NEW T, NEW U, Every(ds, T), T \subseteq U
  PROVE  Every(ds, U)
BY DEF Every

LEMMA SameEvery ==
  ASSUME NEW ds, NEW es, NEW T, Every(ds, T), SameParams(ds, es)
  PROVE  Every(es, T)
BY DEF Every, SameParams

LEMMA DomainNewEvery ==
  ASSUME NEW ds \in Seq(Domains), NEW T, Every(ds, T), NEW domName \in DomArgs
  PROVE  Every(ATP_domain_new(Named(domName), ds), T)
<1> DEFINE n == Named(domName)
           new == ATP_domain_new(n, ds)
<1>1. Len(ds) \in Nat /\ n \in DomainNames
  BY NamedType
<1> HIDE DEF n
<1>2. CASE ATP_domain_find(n, ds) # NoIndex
  BY <1>2 DEF ATP_domain_new, n
<1>3. CASE ATP_domain_find(n, ds) = NoIndex
  <2>1. new = Append(ds, NewDomain(n))
    BY <1>3 DEF ATP_domain_new
  <2>2. /\ Len(new) = Len(ds) + 1
        /\ \A i \in 1..Len(ds) : new[i] = ds[i]
        /\ new[Len(ds) + 1] = NewDomain(n)
    BY <1>1, <2>1, NewDomainType
  <2> HIDE DEF new
  <2>3. \A i \in 1..Len(new) : i \in 1..Len(ds) \/ i = Len(ds) + 1
    BY <1>1, <2>2
  <2>4. new[Len(ds) + 1].paramsArray = <<>>
    BY <2>2 DEF NewDomain
  <2>5. ASSUME NEW i \in 1..Len(new), NEW k \in 1..Len(new[i].paramsArray)
        PROVE  <<new[i].paramsArray[k].paramName, new[i].paramsArray[k].defaultVal,
                 new[i].domName>> \in T
    <3>1. i \in 1..Len(ds) /\ new[i] = ds[i]
      BY <2>2, <2>3, <2>4
    <3> QED BY <3>1 DEF Every
  <2> QED BY <2>5 DEF Every, new, n
<1> QED BY <1>2, <1>3

\* A parameter of es is the declared one, or was there before.
NamedNew(ds, dom, c, es) ==
  /\ Len(es) = Len(ds)
  /\ \A i \in 1..Len(ds) : es[i].domName = ds[i].domName
  /\ \A i \in 1..Len(ds) : \A k \in 1..Len(es[i].paramsArray) :
       \/ /\ i = dom
          /\ es[i].paramsArray[k].paramName = c.pname
          /\ es[i].paramsArray[k].defaultVal = c.deflt
       \/ /\ k \in 1..Len(ds[i].paramsArray)
          /\ es[i].paramsArray[k] = ds[i].paramsArray[k]

LEMMA ParamNewNames ==
  ASSUME NEW ds \in Seq(Domains), NEW dom \in 1..Len(ds), NEW c \in ParamDecls
  PROVE  NamedNew(ds, dom, c, ATP_param_new(c.pname, c.ptype, c.deflt, dom, ds))
<1> DEFINE es == ATP_param_new(c.pname, c.ptype, c.deflt, dom, ds)
<1>1. NewParam(c).paramName = c.pname /\ NewParam(c).defaultVal = c.deflt
  BY DEF NewParam
<1>2. WithNewParam(ds, dom, c, es)
  BY ParamNewFields
<1>3. \A i, k : NewPlace(ds, dom, i, k) => i = dom
  BY DEF NewPlace
<1> HIDE DEF es
<1>4. /\ Len(es) = Len(ds)
      /\ \A i \in 1..Len(ds) : es[i].domName = ds[i].domName
      /\ \A i \in 1..Len(ds) : \A k \in 1..Len(es[i].paramsArray) :
           \/ NewPlace(ds, dom, i, k) /\ es[i].paramsArray[k] = NewParam(c)
           \/ /\ k \in 1..Len(ds[i].paramsArray)
              /\ es[i].paramsArray[k] = ds[i].paramsArray[k]
  BY <1>2 DEF WithNewParam
<1>5. NamedNew(ds, dom, c, es)
  BY <1>1, <1>3, <1>4 DEF NamedNew
<1> QED BY <1>5 DEF es

LEMMA ParamNewEvery ==
  ASSUME NEW ds \in Seq(Domains), NEW T, Every(ds, T), NEW dom \in 1..Len(ds),
         NEW c \in ParamDecls, <<c.pname, c.deflt, ds[dom].domName>> \in T
  PROVE  Every(ATP_param_new(c.pname, c.ptype, c.deflt, dom, ds), T)
<1> DEFINE es == ATP_param_new(c.pname, c.ptype, c.deflt, dom, ds)
<1>1. NamedNew(ds, dom, c, es)
  BY ParamNewNames
<1> HIDE DEF es
<1>2. ASSUME NEW i \in 1..Len(es), NEW k \in 1..Len(es[i].paramsArray)
      PROVE  <<es[i].paramsArray[k].paramName, es[i].paramsArray[k].defaultVal,
               es[i].domName>> \in T
  <2>1. i \in 1..Len(ds) /\ es[i].domName = ds[i].domName
    BY <1>1 DEF NamedNew
  <2>2. CASE /\ i = dom
             /\ es[i].paramsArray[k].paramName = c.pname
             /\ es[i].paramsArray[k].defaultVal = c.deflt
    BY <2>1, <2>2
  <2>3. CASE /\ k \in 1..Len(ds[i].paramsArray)
             /\ es[i].paramsArray[k] = ds[i].paramsArray[k]
    BY <2>1, <2>3 DEF Every
  <2> QED BY <1>1, <2>1, <2>2, <2>3 DEF NamedNew
<1> QED BY <1>2 DEF Every, es

LEMMA AddValuesEvery ==
  ASSUME NEW ds \in Seq(Domains), NEW T, Every(ds, T), NEW dom \in 1..Len(ds),
         NEW param \in 1..Len(ds[dom].paramsArray), NEW vArray \in Seq(Int)
  PROVE  Every(ATP_param_add_values(param, dom, vArray, ds), T)
<1> DEFINE es == ATP_param_add_values(param, dom, vArray, ds)
<1>1. GivenValues(ds, dom, param, vArray, es)
  BY AddValuesFields
<1> HIDE DEF es
<1>2. PICK q : /\ WithParam(ds, dom, param, q, es)
               /\ q.paramName = ds[dom].paramsArray[param].paramName
               /\ q.defaultVal = ds[dom].paramsArray[param].defaultVal
  BY <1>1 DEF GivenValues
<1>3. ASSUME NEW i \in 1..Len(es), NEW k \in 1..Len(es[i].paramsArray)
      PROVE  <<es[i].paramsArray[k].paramName, es[i].paramsArray[k].defaultVal,
               es[i].domName>> \in T
  BY <1>2 DEF Every, WithParam
<1> QED BY <1>3 DEF Every, es

-----------------------------------------------------------------------------
(* The calls of the application.                                           *)

LEMMA DeclaredHere ==
  ASSUME NEW ds, NEW i \in 1..Len(ds), NEW k \in 1..Len(ds[i].paramsArray)
  PROVE  <<ds[i].paramsArray[k].paramName, ds[i].paramsArray[k].defaultVal,
           ds[i].domName>> \in DeclaredIn(ds)
<1> DEFINE here == {<<ds[i].paramsArray[j].paramName, ds[i].paramsArray[j].defaultVal,
                      ds[i].domName>> : j \in 1..Len(ds[i].paramsArray)}
<1>1. here \subseteq DeclaredIn(ds)
  BY DEF DeclaredIn
<1>2. <<ds[i].paramsArray[k].paramName, ds[i].paramsArray[k].defaultVal,
        ds[i].domName>> \in here
  OBVIOUS
<1> HIDE DEF here
<1> QED BY <1>1, <1>2

\* The parameters of a process are known to the RRL, under a declaration.
Known(p) == rrl[p] \cap Scope

LEMMA DeclareAsked ==
  ASSUME NamesItsDomain, Shape, NEW p \in Procs, Every(lib[p].domains, Known(p)),
         Declare(p)
  PROVE  /\ \A q \in Procs : rrl[q] \subseteq rrl'[q]
         /\ \E ds \in Seq(Domains) : /\ Every(ds, Known(p)')
                                     /\ Collect(p, ds) \/ EndCollection(p, ds)
<1> DEFINE ds == Collected(p)
<1>1. lib[p] \in Libs /\ HasDomains(lib[p]) /\ rrl \in [Procs -> SUBSET Told]
  BY DEF Shape, TypeOK
<1>2. ds \in Seq(Domains) /\ Every(ds, Known(p))
  <2>1. StartCollection(lib[p]) \in Libs
    BY <1>1, Start
  <2>2. CASE lib[p].init
    <3>1. StartCollection(lib[p]) = lib[p]
      BY <1>1, <2>2, Start
    <3> QED BY <2>1, <3>1 DEF Collected, Libs
  <2>3. CASE ~lib[p].init
    <3> DEFINE fresh == ATP_domain_new(ATP_DFLT_DOMAIN, <<>>)
    <3>1. Every(fresh, Known(p))
      <4>1. <<>> \in Seq(Domains)
        OBVIOUS
      <4>2. ATP_DFLT_DOMAIN \in DomArgs /\ Named(ATP_DFLT_DOMAIN) = ATP_DFLT_DOMAIN
        BY NamesAssumption DEF DomArgs, Named
      <4> QED BY <4>1, <4>2, EmptyEvery, DomainNewEvery
    <3> HIDE DEF fresh
    <3>2. StartCollection(lib[p]).domains = fresh
      BY <2>3 DEF StartCollection, ATP_init, ATP_collection_is_not_init,
                  ATP_collection_set, fresh
    <3> QED BY <2>1, <3>1, <3>2 DEF Collected, Libs
  <2> QED BY <2>2, <2>3
<1>3. Len(ds) \in Nat
  BY <1>2
<1>4. ASSUME NEW c \in ParamDecls
      PROVE  LET new == WithDomain(p, c)
             IN /\ new \in Seq(Domains)
                /\ Every(new, Known(p))
                /\ ATP_domain_find(c.domName, new) \in 1..Len(new)
  <2>1. c.domName \in DomArgs
    BY AnnotationsAssumption
  <2> QED BY <1>2, <2>1, DomainNew, DomainNewEvery DEF WithDomain
<1>0. rrl' = rrl => Known(p)' = Known(p)
  BY DEF Known, Scope
<1> HIDE DEF ds
<1>5. ASSUME NEW c \in ParamDecls, atp_param_declare(p, c)
      PROVE  /\ \A q \in Procs : rrl[q] \subseteq rrl'[q]
             /\ \E es \in Seq(Domains) : Every(es, Known(p)') /\ Collect(p, es)
  <2> DEFINE new == WithDomain(p, c)
             dom == ATP_domain_find(c.domName, new)
             es == ATP_param_new(c.pname, c.ptype, c.deflt, dom, new)
             t == <<c.pname, c.deflt, c.domName>>
  <2>1. /\ Collect(p, es)
        /\ rrl' = [rrl EXCEPT ![p] = @ \cup {t}]
    BY <1>5 DEF atp_param_declare
  <2>2. new \in Seq(Domains) /\ Every(new, Known(p)) /\ dom \in 1..Len(new)
    BY <1>4
  <2>3. c \in [pname : ParamNames, ptype : PTypes, deflt : Int, domName : DomArgs]
    BY AnnotationsAssumption
  <2>4. new[dom].domName = c.domName
    <3>1. Named(c.domName) = c.domName
      BY DEF NamesItsDomain, Named
    <3>2. Len(new) \in Nat /\ dom # NoIndex
      BY <2>2 DEF NoIndex
    <3> HIDE DEF new
    <3> QED BY <3>1, <3>2, DomainFind
  <2>5. t \in Scope
    BY <2>3 DEF Scope, Told
  <2>6. /\ rrl'[p] = rrl[p] \cup {t}
        /\ \A q \in Procs : rrl[q] \subseteq rrl'[q]
    BY <1>1, <2>1
  <2>7. Known(p) \subseteq Known(p)' /\ t \in Known(p)'
    <3>1. Scope' = Scope
      BY DEF Scope
    <3> QED BY <2>5, <2>6, <3>1 DEF Known
  <2> HIDE DEF new, dom
  <2>8. Every(new, Known(p)')
    BY <2>2, <2>7, MoreEvery
  <2>9. <<c.pname, c.deflt, new[dom].domName>> \in Known(p)'
    BY <2>4, <2>7
  <2>10. es \in Seq(Domains) /\ Every(es, Known(p)')
    BY <2>2, <2>8, <2>9, ParamNewType, ParamNewEvery
  <2> HIDE DEF es, t
  <2> QED BY <2>1, <2>6, <2>10
<1>6. ASSUME NEW c \in ParamDecls, atp_param_declare_again(p, c)
      PROVE  /\ UNCHANGED rrl
             /\ \E es \in Seq(Domains) : Every(es, Known(p)) /\ EndCollection(p, es)
  BY <1>4, <1>6 DEF atp_param_declare_again, EndCollection
<1>7. ASSUME NEW c \in ValueDecls, atp_param_add_values(p, c)
      PROVE  /\ UNCHANGED rrl
             /\ \E es \in Seq(Domains) : Every(es, Known(p)) /\ Collect(p, es)
  <2> DEFINE dom == ATP_domain_find(c.domName, ds)
             param == IF dom = NoIndex THEN NoIndex
                      ELSE ATP_param_find(c.pname, ds[dom])
             accepted == /\ c.vArray # NULL
                         /\ c.vArray # <<>>
                         /\ param # NoIndex
                         /\ ds[dom].paramsArray[param].paramType
                              = ATP_PARAM_TYPE_RANGE => Len(c.vArray) = 3
             es == IF accepted THEN ATP_param_add_values(param, dom, c.vArray, ds)
                               ELSE ds
  <2>1. ASSUME accepted PROVE es \in Seq(Domains) /\ Every(es, Known(p))
    <3>1. dom \in 1..Len(ds)
      <4>1. dom # NoIndex
        BY <2>1
      <4> QED BY <1>3, <4>1, DomainFind
    <3>2. Len(ds[dom].paramsArray) \in Nat
      <4>1. ds[dom] \in Domains
        BY <1>2, <3>1
      <4> QED BY <4>1, DomainFields
    <3>3. param \in 1..Len(ds[dom].paramsArray)
      <4>1. param = ATP_param_find(c.pname, ds[dom]) /\ param # NoIndex
        BY <2>1
      <4> QED BY <3>2, <4>1, ParamFind
    <3>4. c.vArray \in Seq(Int)
      BY <2>1, AnnotationsAssumption
    <3>5. es = ATP_param_add_values(param, dom, c.vArray, ds)
      BY <2>1
    <3> HIDE DEF dom, param, es
    <3> QED BY <1>2, <3>1, <3>3, <3>4, <3>5, ParamAddValuesType, AddValuesEvery
  <2>2. ASSUME ~accepted PROVE es \in Seq(Domains) /\ Every(es, Known(p))
    BY <1>2, <2>2
  <2>3. Collect(p, es) /\ UNCHANGED rrl
    BY <1>7 DEF atp_param_add_values, ds
  <2> HIDE DEF es
  <2> QED BY <2>1, <2>2, <2>3
<1>8. ASSUME NEW c \in ConstraintDecls, atp_constraint_declare(p, c)
      PROVE  /\ UNCHANGED rrl
             /\ \E es \in Seq(Domains) : Every(es, Known(p)) /\ Collect(p, es)
  <2> DEFINE dom == ATP_domain_find(c.domName, ds)
             refused == c.expr = NULL \/ dom = NoIndex
             es == IF refused THEN ds
                   ELSE ATP_constraint_new(c.cname, c.expr, dom, ds)
  <2>1. ASSUME ~refused PROVE es \in Seq(Domains) /\ Every(es, Known(p))
    <3>1. dom \in 1..Len(ds)
      BY <2>1, <1>3, DomainFind
    <3>2. c.cname \in ConstraintNames /\ c.expr \in Exprs
      BY <2>1, AnnotationsAssumption
    <3>3. es = ATP_constraint_new(c.cname, c.expr, dom, ds)
      BY <2>1
    <3> HIDE DEF dom, es
    <3> QED BY <1>2, <3>1, <3>2, <3>3, ConstraintNewType, ConstraintNewSame,
              SameEvery
  <2>2. ASSUME refused PROVE es \in Seq(Domains) /\ Every(es, Known(p))
    BY <1>2, <2>2
  <2>3. Collect(p, es) /\ UNCHANGED rrl
    BY <1>8 DEF atp_constraint_declare, ds
  <2> HIDE DEF es
  <2> QED BY <2>1, <2>2, <2>3
<1>9. ASSUME NEW c \in ConstraintDecls, atp_constraint_declare_again(p, c)
      PROVE  /\ UNCHANGED rrl
             /\ \E es \in Seq(Domains) : Every(es, Known(p)) /\ EndCollection(p, es)
  BY <1>2, <1>9 DEF atp_constraint_declare_again, EndCollection, ds
<1>10. ASSUME NEW c \in ExplorationDecls, atp_exploration_declare(p, c)
       PROVE  /\ UNCHANGED rrl
              /\ \E es \in Seq(Domains) : Every(es, Known(p)) /\ Collect(p, es)
  <2> DEFINE dom == ATP_domain_find(c.domName, ds)
             refused == c.expList = NULL \/ c.domName = NULL \/ dom = NoIndex
             es == IF refused THEN ds ELSE ATP_exploration_new(c.expList, dom, ds)
  <2>1. ASSUME ~refused PROVE es \in Seq(Domains) /\ Every(es, Known(p))
    <3>1. dom \in 1..Len(ds)
      BY <2>1, <1>3, DomainFind
    <3>2. c.expList \in Seq(PTypes)
      BY <2>1, AnnotationsAssumption, NamesAssumption
    <3>3. es = ATP_exploration_new(c.expList, dom, ds)
      BY <2>1
    <3> HIDE DEF dom, es
    <3> QED BY <1>2, <3>1, <3>2, <3>3, ExplorationNewType,
              ExplorationNewSame, SameEvery
  <2>2. ASSUME refused PROVE es \in Seq(Domains) /\ Every(es, Known(p))
    BY <1>2, <2>2
  <2>3. Collect(p, es) /\ UNCHANGED rrl
    BY <1>10 DEF atp_exploration_declare, ds
  <2> HIDE DEF es
  <2> QED BY <2>1, <2>2, <2>3
<1> QED BY <1>0, <1>5, <1>6, <1>7, <1>8, <1>9, <1>10 DEF Declare

-----------------------------------------------------------------------------
(* What is loaded, and what is asked.                                      *)

LEMMA LoadedEvery ==
  ASSUME NEW ds, NEW es, Restored(ds, es), Every(es, Scope)
  PROVE  Every(ds, DeclaredIn(ds) \cap Scope)
<1> SUFFICES ASSUME NEW i \in 1..Len(ds), NEW k \in 1..Len(ds[i].paramsArray)
             PROVE  <<ds[i].paramsArray[k].paramName, ds[i].paramsArray[k].defaultVal,
                      ds[i].domName>> \in DeclaredIn(ds) \cap Scope
  BY DEF Every
<1> DEFINE t == <<ds[i].paramsArray[k].paramName, ds[i].paramsArray[k].defaultVal,
                  ds[i].domName>>
<1>1. t \in Scope
  <2>1. /\ i \in 1..Len(es) /\ k \in 1..Len(es[i].paramsArray)
        /\ ds[i].domName = es[i].domName
        /\ ds[i].paramsArray[k].paramName = es[i].paramsArray[k].paramName
        /\ ds[i].paramsArray[k].defaultVal = es[i].paramsArray[k].defaultVal
    BY DEF Restored
  <2>2. <<es[i].paramsArray[k].paramName, es[i].paramsArray[k].defaultVal,
          es[i].domName>> \in Scope
    BY <2>1, Zenon DEF Every
  <2> QED BY <2>1, <2>2
<1>2. t \in DeclaredIn(ds)
  BY DeclaredHere
<1> QED BY <1>1, <1>2

LEMMA GetKnown ==
  ASSUME NamesItsDomain, Shape, NEW p \in Procs, Every(lib[p].domains, Known(p)),
         NEW g \in Gets, atp_param_get(p, g)
  PROVE  /\ lib[p].domains # <<>>
         /\ \E t \in rrl[p] : asked' = [asked EXCEPT ![p] = @ \cup {t}]
<1> DEFINE ds == lib[p].domains
           at == ATP_param_find_unique(g.pname, ds)
           i == at[1]
           k == at[2]
           t == <<ds[i].paramsArray[k].paramName, ds[i].paramsArray[k].defaultVal,
                  ds[i].domName>>
           asks == <<g.pname, ds[i].paramsArray[k].defaultVal, g.domName>>
<1>1. ds \in Seq(Domains) /\ Len(ds) \in Nat
  BY DEF Shape, TypeOK, Libs
<1>2. \A m \in 1..Len(ds) : Len(ds[m].paramsArray) \in Nat
  <2> HIDE DEF ds
  <2> QED BY <1>1, ParamsCounted
<1>3. i # NoIndex /\ asked' = [asked EXCEPT ![p] = @ \cup {asks}]
  BY DEF atp_param_get
<1>4. /\ i \in 1..Len(ds) /\ k \in 1..Len(ds[i].paramsArray)
      /\ ds[i].paramsArray[k].paramName = g.pname
  <2> HIDE DEF ds
  <2> QED BY <1>1, <1>2, <1>3, ParamFindUnique
<1> HIDE DEF at
<1>5. t \in rrl[p] /\ t \in Scope
  BY <1>4 DEF Every, Known
<1>6. PICK c \in ParamDecls : t[1] = c.pname /\ t[3] = c.domName
  BY <1>5 DEF Scope
<1>7. g.domName = ds[i].domName
  BY <1>4, <1>6 DEF NamesItsDomain
<1>8. asks = t
  BY <1>4, <1>7
<1>9. ds # <<>>
  BY <1>4
<1> QED BY <1>3, <1>5, <1>8, <1>9

-----------------------------------------------------------------------------
(***************************************************************************)
(* The parameters of every process are known to its RRL, and what it asked *)
(* is.  A load replaces what the RRL knows, so it must come before any     *)
(* question: a process that has not started has no parameters to ask for.  *)
(***************************************************************************)
AllAsked ==
  /\ Every(exported.domains, Scope)
  /\ \A p \in Procs :
       /\ Every(lib[p].domains, Known(p))
       /\ asked[p] \subseteq rrl[p]
       /\ ~lib[p].init => lib[p].domains = <<>> /\ asked[p] = {}

LEMMA InitAllAsked == Init => AllAsked
BY EmptyEvery DEF Init, AllAsked, FreshLib

\* A step after which one process has started, with domains known to its RRL.
LEMMA AskedKept ==
  ASSUME TypeOK, AllAsked, NEW p \in Procs, NEW l, lib' = [lib EXCEPT ![p] = l],
         l.init, Every(l.domains, Known(p)'), asked'[p] \subseteq rrl'[p],
         \A q \in Procs \ {p} : rrl[q] \subseteq rrl'[q] /\ asked'[q] = asked[q],
         UNCHANGED exported
  PROVE  AllAsked'
<1>1. Scope' = Scope
  BY DEF Scope
<1>2. \A q \in Procs \ {p} : Known(q) \subseteq Known(q)' /\ lib'[q] = lib[q]
  BY <1>1 DEF Known, TypeOK
<1>3. lib'[p] = l
  BY DEF TypeOK
<1>4. \A q \in Procs \ {p} : Every(lib'[q].domains, Known(q)')
  BY <1>2, MoreEvery DEF AllAsked
<1>5. Every(exported'.domains, Scope')
  BY <1>1 DEF AllAsked
<1>6. ASSUME NEW q \in Procs
      PROVE  /\ Every(lib'[q].domains, Known(q)')
             /\ asked'[q] \subseteq rrl'[q]
             /\ ~lib'[q].init => lib'[q].domains = <<>> /\ asked'[q] = {}
  <2>1. CASE q = p
    BY <1>3, <2>1
  <2>2. CASE q # p
    BY <1>2, <1>4, <2>2 DEF AllAsked
  <2> QED BY <2>1, <2>2
<1> QED BY <1>5, <1>6 DEF AllAsked

LEMMA NextAllAsked ==
  ASSUME Barrier, ~Served, NamesItsDomain, Shape, FileHeld, AllAsked, [Next]_vars
  PROVE  AllAsked'
<1>0. /\ TypeOK
      /\ \A p \in Procs : lib[p] \in Libs /\ Every(lib[p].domains, Known(p))
      /\ Scope' = Scope
  BY DEF Shape, TypeOK, AllAsked, Scope
<1>1. ASSUME NEW p \in Procs, NEW ds \in Seq(Domains), Every(ds, Known(p)'),
             \A q \in Procs : rrl[q] \subseteq rrl'[q], pc[p] = "app",
             Collect(p, ds) \/ EndCollection(p, ds)
      PROVE  AllAsked'
  <2>1. /\ UNCHANGED <<asked, exported>>
        /\ \A q \in Procs : asked'[q] \subseteq rrl'[q]
    BY <1>1 DEF Collect, EndCollection, AllAsked
  <2>2. CASE Collect(p, ds)
    <3> DEFINE l == [StartCollection(lib[p]) EXCEPT !.domains = ds]
    <3>1. lib' = [lib EXCEPT ![p] = l]
      BY <2>2 DEF Collect
    <3>2. l.domains = ds /\ l.init
      <4>1. StartCollection(lib[p]) \in Libs /\ StartCollection(lib[p]).init
        BY <1>0, Start DEF Shape
      <4> QED BY <4>1 DEF Libs
    <3> HIDE DEF l
    <3> QED BY <1>0, <1>1, <2>1, <3>1, <3>2, AskedKept
  <2>3. CASE EndCollection(p, ds)
    <3> DEFINE l == ATP_collection_unset([lib[p] EXCEPT !.domains = ds])
    <3>1. lib' = [lib EXCEPT ![p] = l] /\ lib[p].init
      BY <1>1, <2>3 DEF EndCollection, MayEnd, AllStarted
    <3>2. l.domains = ds /\ l.init
      BY <1>0, <3>1 DEF ATP_collection_unset, Libs
    <3> HIDE DEF l
    <3> QED BY <1>0, <1>1, <2>1, <3>1, <3>2, AskedKept
  <2> QED BY <1>1, <2>2, <2>3
<1>2. ASSUME NEW p \in Procs, Declare(p) PROVE AllAsked'
  <2>1. pc[p] = "app"
    BY <1>2 DEF Declare, Collecting, atp_param_declare, atp_param_declare_again,
                atp_param_add_values, atp_constraint_declare,
                atp_constraint_declare_again, atp_exploration_declare
  <2> QED BY <1>0, <1>1, <1>2, <2>1, DeclareAsked
<1>3. ASSUME NEW p \in Procs, atp_end_collection(p) PROVE AllAsked'
  <2>1. /\ EndCollection(p, lib[p].domains) /\ lib[p].domains \in Seq(Domains)
        /\ pc[p] = "app" /\ UNCHANGED rrl
    BY <1>0, <1>3 DEF atp_end_collection, EndCollection, Libs
  <2>2. Known(p)' = Known(p)
    BY <1>0, <2>1 DEF Known
  <2> QED BY <1>0, <1>1, <2>1, <2>2
<1>4. ASSUME NEW p \in Procs, NEW g \in Gets, atp_param_get(p, g) PROVE AllAsked'
  <2>1. PICK t \in rrl[p] : asked' = [asked EXCEPT ![p] = @ \cup {t}]
    <3>1. Every(lib[p].domains, Known(p))
      BY <1>0
    <3> QED BY <1>4, <3>1, GetKnown
  <2>2. lib[p].domains # <<>> /\ UNCHANGED <<lib, rrl, exported>>
    BY <1>0, <1>4, GetKnown DEF atp_param_get
  <2>3. \A q \in Procs : Known(q)' = Known(q)
    BY <1>0, <2>2 DEF Known
  <2>4. ASSUME NEW q \in Procs
        PROVE  /\ asked'[q] \subseteq rrl'[q]
               /\ ~lib'[q].init => lib'[q].domains = <<>> /\ asked'[q] = {}
    BY <1>0, <2>1, <2>2 DEF AllAsked, TypeOK
  <2> QED BY <1>0, <2>2, <2>3, <2>4 DEF AllAsked
<1>5. ASSUME NEW p \in Procs, OpenDesc(p) PROVE AllAsked'
  <2>1. exported'.domains = lib[p].domains /\ UNCHANGED <<lib, rrl, asked>>
    BY <1>5 DEF OpenDesc
  <2>2. Every(lib[p].domains, Scope)
    <3>1. Known(p) \subseteq Scope
      BY DEF Known
    <3> QED BY <1>0, <3>1, MoreEvery
  <2>3. \A q \in Procs : Known(q)' = Known(q)
    BY <1>0, <2>1 DEF Known
  <2> QED BY <1>0, <2>1, <2>2, <2>3 DEF AllAsked
<1>6. ASSUME NEW p \in Procs, load_desc_file(p) PROVE AllAsked'
  <2> DEFINE ds == Loaded(file)
             l == ATP_collection_unset([ATP_init(lib[p]) EXCEPT !.domains = ds])
  <2>1. /\ lib' = [lib EXCEPT ![p] = l] /\ UNCHANGED <<asked, exported>>
        /\ rrl' = [rrl EXCEPT ![p] = DeclaredIn(ds)]
        /\ Whole(file) /\ ~lib[p].init
    BY <1>6 DEF load_desc_file
  <2>2. Restored(ds, exported.domains)
    BY <1>0, <2>1, WholeRestores DEF TypeOK, FileHeld, OneDescription
  <2> HIDE DEF ds
  <2>3. rrl'[p] = DeclaredIn(ds) /\ \A q \in Procs \ {p} : rrl'[q] = rrl[q]
    BY <1>0, <2>1 DEF TypeOK
  <2>4. Every(ds, Known(p)')
    BY <1>0, <2>2, <2>3, LoadedEvery DEF Known, AllAsked
  <2>5. l.domains = ds /\ l.init
    BY <2>1 DEF ATP_init, ATP_collection_unset
  <2>6. asked'[p] = {} 
    BY <2>1 DEF AllAsked
  <2> HIDE DEF l
  <2> QED BY <1>0, <2>1, <2>3, <2>4, <2>5, <2>6, AskedKept
<1>7. ASSUME NEW p \in Procs,
             Exit(p) \/ Kill(p) \/ SegFault(p) \/ OpenCrashes(p)
      PROVE AllAsked'
  <2>1. /\ lib' = [lib EXCEPT ![p] = FreshLib] /\ rrl' = [rrl EXCEPT ![p] = {}]
        /\ asked' = [asked EXCEPT ![p] = {}] /\ UNCHANGED exported
    BY <1>7 DEF Exit, Kill, SegFault, OpenCrashes, Gone
  <2>2. ASSUME NEW q \in Procs
        PROVE  /\ Every(lib'[q].domains, Known(q)')
               /\ asked'[q] \subseteq rrl'[q]
               /\ ~lib'[q].init => lib'[q].domains = <<>> /\ asked'[q] = {}
    <3>1. CASE q = p
      <4>1. lib'[q].domains = <<>> /\ asked'[q] = {}
        BY <1>0, <2>1, <3>1 DEF TypeOK, FreshLib
      <4> QED BY <4>1, EmptyEvery
    <3>2. CASE q # p
      <4>1. lib'[q] = lib[q] /\ rrl'[q] = rrl[q] /\ asked'[q] = asked[q]
        BY <1>0, <2>1, <3>2 DEF TypeOK
      <4>2. Known(q)' = Known(q)
        BY <1>0, <4>1 DEF Known
      <4> QED BY <4>1, <4>2 DEF AllAsked
    <3> QED BY <3>1, <3>2
  <2> QED BY <1>0, <2>1, <2>2 DEF AllAsked
<1>8. ASSUME UNCHANGED <<lib, rrl, asked, exported>> PROVE AllAsked'
  <2>1. \A q \in Procs : Known(q)' = Known(q)
    BY <1>0, <1>8 DEF Known
  <2> QED BY <1>0, <1>8, <2>1 DEF AllAsked
<1> QED BY <1>2, <1>3, <1>4, <1>5, <1>6, <1>7, <1>8
        DEF Next, ATP_gen_descfile, ATP_create_lockfile, LockTaken, WriteDomain, Fault,
            OpenFails, ServerLoads, Relaunch, Terminated, vars

\* With the barrier and no server, an application whose declarations name their domains, and
\* that gets every parameter under the domain it declared it in, never asks the
\* RRL for what the RRL was not told, in either mode (atp_param_declare and
\* commit_param tell it, atp_param_get asks).
THEOREM AsksWhatItTold == Barrier /\ ~Served /\ NamesItsDomain /\ Spec => []AskedAsDeclared
<1>1. ASSUME Barrier, ~Served, NamesItsDomain PROVE Spec => []AskedAsDeclared
  <2>1. Init => AllAsked
    BY InitAllAsked
  <2>2. (Shape /\ LockHeld /\ FileHeld) /\ AllAsked /\ [Next]_vars => AllAsked'
    BY <1>1, NextAllAsked
  <2>3. AllAsked => AskedAsDeclared
    BY DEF AllAsked, AskedAsDeclared
  <2> QED BY <1>1, <2>1, <2>2, <2>3, Held, PTL DEF Spec
<1> QED BY <1>1
=============================================================================

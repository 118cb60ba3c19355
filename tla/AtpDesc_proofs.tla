---------------------------- MODULE AtpDesc_proofs ----------------------------
(***************************************************************************)
(* What the loader of the description file keeps true for every file that  *)
(* ATP_gen_descfile prints.                                                *)
(*                                                                         *)
(* At every visit, what has been visited is in domArray, except for the    *)
(* parameter and the constraint that were read last, which are pending in  *)
(* data_buf.  The invariant says so for each of the places the walk can    *)
(* be at.                                                                  *)
(***************************************************************************)
EXTENDS AtpDesc, AtpCommon_proofs

-----------------------------------------------------------------------------
(* What remains to be visited at each place of a file.                     *)

DomainParts(ds, order) == [i \in 1..Len(ds) |-> DomainVisits(ds[i], order)]

ParamParts(d, order) ==
  [j \in 1..Len(d.paramsArray) |-> ParamVisits(d.paramsArray[j], order)]

ConstraintParts(d) ==
  [j \in 1..Len(d.constraintsArray) |-> ConstraintVisits(d.constraintsArray[j])]

FieldParts(param, order) ==
  [k \in 1..Len(order) |-> FieldVisits(param, order[k])]

AtDomain(ds, order, i) == From(DomainParts(ds, order), i, <<EndOfFile>>)

AtExplorations(ds, order, i) ==
  Cons(Key(2, "explorations"),
       Cons(Array(ds[i].numExplorations), AtDomain(ds, order, i + 1)))

AtConstraint(ds, order, i, j) ==
  From(ConstraintParts(ds[i]), j, AtExplorations(ds, order, i))

AtParam(ds, order, i, j) ==
  From(ParamParts(ds[i], order), j,
       Cons(Key(2, "constraints"), AtConstraint(ds, order, i, 1)))

AtField(ds, order, i, j, k) ==
  From(FieldParts(ds[i].paramsArray[j], order), k, AtParam(ds, order, i, j + 1))

AtInteger(ds, order, i, j, k, c) ==
  LET vs == ds[i].paramsArray[j].valueArray
  IN SubSeq(Integers(vs), c, Len(vs)) \o AtField(ds, order, i, j, k + 1)

AtValue(ds, order, i, j, k) ==
  LET p == ds[i].paramsArray[j]
  IN CASE order[k] = "range" ->
            Cons(Array(Len(p.valueArray)), AtInteger(ds, order, i, j, k, 1))
       [] order[k] = "type" ->
            Cons(Integer(p.paramType), AtField(ds, order, i, j, k + 1))
       [] order[k] = "default" ->
            Cons(Integer(p.defaultVal), AtField(ds, order, i, j, k + 1))

AtExpr(ds, order, i, j) ==
  Cons(String(ds[i].constraintsArray[j].constExpr), AtConstraint(ds, order, i, j + 1))

-----------------------------------------------------------------------------
(* The types of what is in a file.                                         *)

Params == atp_param_t(Names, Int, Int)
Constraints == atp_constraint_t(Names, Exprs)
Domains == atp_domain_t(Names, Params, Constraints, {})

Keywords == FieldKeys \cup {"params", "constraints", "explorations", "expr"}

Visit ==
  {Key(depth, name) : depth \in 1..4, name \in Names \cup Keywords} \cup
  {Array(length) : length \in Nat} \cup {Integer(v) : v \in Int} \cup
  {String(v) : v \in Exprs} \cup {EndOfFile}

LEMMA VisitTypes ==
  /\ \A depth \in 1..4 : \A name \in Names \cup Keywords : Key(depth, name) \in Visit
  /\ \A length \in Nat : Array(length) \in Visit
  /\ \A v \in Int : Integer(v) \in Visit
  /\ \A v \in Exprs : String(v) \in Visit
  /\ EndOfFile \in Visit
BY DEF Visit

LEMMA SourceTypes ==
  ASSUME NEW ds \in Descriptions
  PROVE  /\ ds \in Seq(Domains) /\ Len(ds) \in Nat \ {0}
         /\ ds[1].domName = ATP_DFLT_DOMAIN
         /\ \A i, k \in 1..Len(ds) : ds[i].domName = ds[k].domName => i = k
<1>1. Printed(ds)
  BY DescriptionsAssumption
<1>2. ds \in Seq(Domains) /\ ds # <<>>
  BY <1>1 DEF Printed, Domains, Params, Constraints
<1>3. Len(ds) \in Nat \ {0}
  BY <1>2, EmptySeq
<1> QED BY <1>1, <1>2, <1>3 DEF Printed

LEMMA DomainTypes ==
  ASSUME NEW ds \in Descriptions, NEW i \in 1..Len(ds)
  PROVE  /\ ds[i] \in Domains /\ ds[i].domName \in Names
         /\ ds[i].paramsArray \in Seq(Params) /\ Len(ds[i].paramsArray) \in Nat
         /\ ds[i].constraintsArray \in Seq(Constraints)
         /\ Len(ds[i].constraintsArray) \in Nat
         /\ ds[i].explorationArray = <<>> /\ ds[i].numExplorations = 0
<1>1. ds[i] \in Domains
  BY SourceTypes, ElementOfSeq
<1>2. /\ ds[i].domName \in Names /\ ds[i].paramsArray \in Seq(Params)
      /\ ds[i].constraintsArray \in Seq(Constraints)
      /\ ds[i].explorationArray \in Seq({}) /\ ds[i].numExplorations \in {0}
  BY <1>1 DEF Domains, atp_domain_t
<1>3. ds[i].explorationArray = <<>>
  <2>1. Len(ds[i].explorationArray) = 0
    <3>1. Len(ds[i].explorationArray) \in Nat
      BY <1>2, LenProperties
    <3>2. \A k \in 1..Len(ds[i].explorationArray) : ds[i].explorationArray[k] \in {}
      BY <1>2, ElementOfSeq
    <3> QED BY <3>1, <3>2
  <2> QED BY <1>2, <2>1, EmptySeq
<1> QED BY <1>1, <1>2, <1>3, LenProperties

LEMMA ParamTypes ==
  ASSUME NEW ds \in Descriptions, NEW i \in 1..Len(ds),
         NEW j \in 1..Len(ds[i].paramsArray)
  PROVE  LET p == ds[i].paramsArray[j]
         IN /\ p \in Params /\ p.paramName \in Names
            /\ p.paramType \in Int /\ p.defaultVal \in Int
            /\ p.valueArray \in Seq(Int) /\ Len(p.valueArray) \in Nat
<1> DEFINE p == ds[i].paramsArray[j]
<1>1. p \in Params
  BY DomainTypes, ElementOfSeq
<1>2. p.valueArray # Uninit
  BY DescriptionsAssumption DEF Printed
<1>3. /\ p.paramName \in Names /\ p.paramType \in Int /\ p.defaultVal \in Int
      /\ p.valueArray \in Seq(Int) \cup {Uninit}
  BY <1>1 DEF Params, atp_param_t
<1> QED BY <1>1, <1>2, <1>3, LenProperties

LEMMA ParamVisitTypes ==
  ASSUME NEW ds \in Descriptions, NEW i \in 1..Len(ds),
         NEW j \in 1..Len(ds[i].paramsArray)
  PROVE  LET p == ds[i].paramsArray[j]
         IN /\ Key(3, p.paramName) \in Visit /\ Array(Len(p.valueArray)) \in Visit
            /\ Integer(p.paramType) \in Visit /\ Integer(p.defaultVal) \in Visit
<1> DEFINE p == ds[i].paramsArray[j]
<1>1. /\ p.paramName \in Names \cup Keywords /\ Len(p.valueArray) \in Nat
      /\ p.paramType \in Int /\ p.defaultVal \in Int
  BY ParamTypes
<1> HIDE DEF p
<1>2. 3 \in 1..4
  OBVIOUS
<1>3. /\ Key(3, p.paramName) \in Visit /\ Array(Len(p.valueArray)) \in Visit
      /\ Integer(p.paramType) \in Visit /\ Integer(p.defaultVal) \in Visit
  BY <1>1, <1>2, VisitTypes, Zenon
<1> QED BY <1>3 DEF p

LEMMA ConstraintTypes ==
  ASSUME NEW ds \in Descriptions, NEW i \in 1..Len(ds),
         NEW j \in 1..Len(ds[i].constraintsArray)
  PROVE  LET c == ds[i].constraintsArray[j]
         IN c \in Constraints /\ c.constName \in Names /\ c.constExpr \in Exprs
<1>1. ds[i].constraintsArray[j] \in Constraints
  BY DomainTypes, ElementOfSeq
<1> QED BY <1>1 DEF Constraints, atp_constraint_t

LEMMA OrderTypes ==
  ASSUME NEW order \in KeyOrders
  PROVE  /\ Len(order) = 3 /\ \A k \in 1..3 : order[k] \in FieldKeys
         /\ \A key \in FieldKeys : \E k \in 1..3 : order[k] = key
         /\ \A m, n \in 1..3 : order[m] = order[n] => m = n
         /\ order[3] # "range"
<1>1. /\ order \in [1..3 -> FieldKeys] /\ order[3] # "range"
      /\ \A m, n \in 1..3 : order[m] = order[n] => m = n
  BY KeyOrdersAssumption
<1>2. Len(order) = 3
  BY <1>1
<1>3. \A key \in FieldKeys : \E k \in 1..3 : order[k] = key
  <2>1. /\ order[1] \in FieldKeys /\ order[2] \in FieldKeys /\ order[3] \in FieldKeys
        /\ order[1] # order[2] /\ order[1] # order[3] /\ order[2] # order[3]
    BY <1>1
  <2> QED BY <2>1 DEF FieldKeys
<1> QED BY <1>1, <1>2, <1>3

-----------------------------------------------------------------------------
(* The visits of a file are visits.                                        *)

LEMMA IntegersType ==
  ASSUME NEW vs \in Seq(Int)
  PROVE  /\ Integers(vs) \in Seq(Visit) /\ Len(Integers(vs)) = Len(vs)
         /\ \A k \in 1..Len(vs) : Integers(vs)[k] = Integer(vs[k])
<1>1. Len(vs) \in Nat /\ \A k \in 1..Len(vs) : Integer(vs[k]) \in Visit
  BY VisitTypes
<1>2. Integers(vs) \in [1..Len(vs) -> Visit]
  BY <1>1 DEF Integers
<1> QED BY <1>1, <1>2, SeqDef DEF Integers

LEMMA FieldVisitsType ==
  ASSUME NEW ds \in Descriptions, NEW i \in 1..Len(ds),
         NEW j \in 1..Len(ds[i].paramsArray), NEW key \in FieldKeys
  PROVE  FieldVisits(ds[i].paramsArray[j], key) \in Seq(Visit)
<1> DEFINE p == ds[i].paramsArray[j]
<1>1. <<Key(4, key)>> \in Seq(Visit)
  BY VisitTypes DEF Keywords
<1>2. CASE key = "range"
  <2>1. <<Array(Len(p.valueArray))>> \in Seq(Visit)
    <3>1. Array(Len(p.valueArray)) \in Visit
      BY ParamVisitTypes
    <3> QED BY <3>1
  <2>2. Integers(p.valueArray) \in Seq(Visit)
    BY ParamTypes, IntegersType
  <2> QED BY <1>1, <1>2, <2>1, <2>2, ConcatProperties DEF FieldVisits
<1>3. CASE key = "type"
  <2>1. <<Integer(p.paramType)>> \in Seq(Visit)
    <3>1. Integer(p.paramType) \in Visit
      BY ParamVisitTypes
    <3> QED BY <3>1
  <2> QED BY <1>1, <1>3, <2>1, ConcatProperties DEF FieldVisits
<1>4. CASE key = "default"
  <2>1. Integer(p.defaultVal) \in Visit
    BY ParamVisitTypes
  <2> QED BY <1>1, <1>4, <2>1, ConcatProperties DEF FieldVisits
<1> QED BY <1>2, <1>3, <1>4 DEF FieldKeys

LEMMA FieldPartsType ==
  ASSUME NEW ds \in Descriptions, NEW order \in KeyOrders, NEW i \in 1..Len(ds),
         NEW j \in 1..Len(ds[i].paramsArray)
  PROVE  LET p == ds[i].paramsArray[j]
             parts == FieldParts(p, order)
         IN /\ parts \in Seq(Seq(Visit)) /\ Len(parts) = 3
            /\ \A k \in 1..3 : parts[k] = FieldVisits(p, order[k])
<1> DEFINE p == ds[i].paramsArray[j]
           parts == FieldParts(p, order)
<1>1. parts = [k \in 1..3 |-> FieldVisits(p, order[k])]
  BY OrderTypes DEF FieldParts
<1>2. \A k \in 1..3 : FieldVisits(p, order[k]) \in Seq(Visit)
  BY OrderTypes, FieldVisitsType
<1>3. parts \in [1..3 -> Seq(Visit)]
  BY <1>1, <1>2
<1>4. parts \in Seq(Seq(Visit)) /\ Len(parts) = 3
  <2> HIDE DEF parts
  <2> QED BY <1>3, FunctionIsSeq
<1> QED BY <1>1, <1>4

LEMMA ParamVisitsType ==
  ASSUME NEW ds \in Descriptions, NEW order \in KeyOrders, NEW i \in 1..Len(ds),
         NEW j \in 1..Len(ds[i].paramsArray)
  PROVE  ParamVisits(ds[i].paramsArray[j], order) \in Seq(Visit)
<1> DEFINE p == ds[i].paramsArray[j]
<1>1. <<Key(3, p.paramName)>> \in Seq(Visit)
  <2>1. Key(3, p.paramName) \in Visit
    BY ParamVisitTypes
  <2> QED BY <2>1
<1>2. FlattenSeq(FieldParts(p, order)) \in Seq(Visit)
  BY FieldPartsType, FlattenType
<1>3. ParamVisits(p, order) = <<Key(3, p.paramName)>> \o FlattenSeq(FieldParts(p, order))
  BY DEF ParamVisits, FieldParts
<1> QED BY <1>1, <1>2, <1>3, ConcatProperties

LEMMA ParamPartsType ==
  ASSUME NEW ds \in Descriptions, NEW order \in KeyOrders, NEW i \in 1..Len(ds)
  PROVE  LET parts == ParamParts(ds[i], order)
         IN /\ parts \in Seq(Seq(Visit)) /\ Len(parts) = Len(ds[i].paramsArray)
            /\ \A j \in 1..Len(parts) :
                 parts[j] = ParamVisits(ds[i].paramsArray[j], order)
<1> DEFINE parts == ParamParts(ds[i], order)
<1>0. PICK n \in Nat : n = Len(ds[i].paramsArray)
  BY DomainTypes
<1>1. parts = [j \in 1..n |-> ParamVisits(ds[i].paramsArray[j], order)]
  BY <1>0 DEF ParamParts
<1>2. \A j \in 1..n : ParamVisits(ds[i].paramsArray[j], order) \in Seq(Visit)
  BY <1>0, ParamVisitsType
<1>3. parts \in [1..n -> Seq(Visit)]
  BY <1>1, <1>2
<1>4. parts \in Seq(Seq(Visit)) /\ Len(parts) = n
  BY <1>3, SeqDef
<1> QED BY <1>0, <1>1, <1>4

LEMMA ConstraintPartsType ==
  ASSUME NEW ds \in Descriptions, NEW i \in 1..Len(ds)
  PROVE  LET parts == ConstraintParts(ds[i])
         IN /\ parts \in Seq(Seq(Visit)) /\ Len(parts) = Len(ds[i].constraintsArray)
            /\ \A j \in 1..Len(parts) :
                 parts[j] = ConstraintVisits(ds[i].constraintsArray[j])
<1> DEFINE parts == ConstraintParts(ds[i])
<1>0. PICK n \in Nat : n = Len(ds[i].constraintsArray)
  BY DomainTypes
<1>1. parts = [j \in 1..n |-> ConstraintVisits(ds[i].constraintsArray[j])]
  BY <1>0 DEF ConstraintParts
<1>2. \A j \in 1..n : ConstraintVisits(ds[i].constraintsArray[j]) \in Seq(Visit)
  BY <1>0, ConstraintTypes, VisitTypes DEF ConstraintVisits, Keywords
<1>3. parts \in [1..n -> Seq(Visit)]
  BY <1>1, <1>2
<1>4. parts \in Seq(Seq(Visit)) /\ Len(parts) = n
  BY <1>3, SeqDef
<1> QED BY <1>0, <1>1, <1>4

\* The five parts of a domain.
LEMMA DomainVisitsParts ==
  ASSUME NEW ds \in Descriptions, NEW order \in KeyOrders, NEW i \in 1..Len(ds)
  PROVE  LET d == ds[i]
             names == <<Key(1, d.domName), Key(2, "params")>>
             params == FlattenSeq(ParamParts(d, order))
             constraints == FlattenSeq(ConstraintParts(d))
             explorations == <<Key(2, "explorations"), Array(d.numExplorations)>>
         IN /\ DomainVisits(d, order) =
                 (((names \o params) \o <<Key(2, "constraints")>>) \o constraints)
                 \o explorations
            /\ names \in Seq(Visit) /\ params \in Seq(Visit)
            /\ <<Key(2, "constraints")>> \in Seq(Visit) /\ constraints \in Seq(Visit)
            /\ explorations \in Seq(Visit)
<1>1. FlattenSeq(ParamParts(ds[i], order)) \in Seq(Visit)
  BY ParamPartsType, FlattenType
<1>2. FlattenSeq(ConstraintParts(ds[i])) \in Seq(Visit)
  BY ConstraintPartsType, FlattenType
<1>3. /\ Key(1, ds[i].domName) \in Visit /\ Key(2, "params") \in Visit
      /\ Key(2, "constraints") \in Visit /\ Key(2, "explorations") \in Visit
      /\ Array(ds[i].numExplorations) \in Visit
  BY DomainTypes, VisitTypes DEF Keywords
<1> QED BY <1>1, <1>2, <1>3 DEF DomainVisits, ParamParts, ConstraintParts

LEMMA DomainPartsType ==
  ASSUME NEW ds \in Descriptions, NEW order \in KeyOrders
  PROVE  LET parts == DomainParts(ds, order)
         IN /\ parts \in Seq(Seq(Visit)) /\ Len(parts) = Len(ds)
            /\ \A i \in 1..Len(parts) : parts[i] = DomainVisits(ds[i], order)
<1> DEFINE parts == DomainParts(ds, order)
<1>0. PICK n \in Nat : n = Len(ds)
  BY SourceTypes
<1>1. parts = [i \in 1..n |-> DomainVisits(ds[i], order)]
  BY <1>0 DEF DomainParts
<1>2. ASSUME NEW i \in 1..n PROVE DomainVisits(ds[i], order) \in Seq(Visit)
  <2> DEFINE d == ds[i]
             names == <<Key(1, d.domName), Key(2, "params")>>
             params == FlattenSeq(ParamParts(d, order))
             constraints == FlattenSeq(ConstraintParts(d))
             explorations == <<Key(2, "explorations"), Array(d.numExplorations)>>
             mark == <<Key(2, "constraints")>>
  <2>1. /\ DomainVisits(d, order) =
             (((names \o params) \o mark) \o constraints) \o explorations
        /\ names \in Seq(Visit) /\ params \in Seq(Visit) /\ mark \in Seq(Visit)
        /\ constraints \in Seq(Visit) /\ explorations \in Seq(Visit)
    BY <1>0, DomainVisitsParts
  <2> HIDE DEF d, names, params, constraints, explorations, mark
  <2>2. names \o params \in Seq(Visit)
    BY <2>1, ConcatProperties
  <2>3. (names \o params) \o mark \in Seq(Visit)
    BY <2>1, <2>2, ConcatProperties
  <2>4. ((names \o params) \o mark) \o constraints \in Seq(Visit)
    BY <2>1, <2>3, ConcatProperties
  <2> QED BY <2>1, <2>4, ConcatProperties DEF d
<1>3. parts \in [1..n -> Seq(Visit)]
  BY <1>1, <1>2
<1>4. parts \in Seq(Seq(Visit)) /\ Len(parts) = n
  BY <1>3, SeqDef
<1> QED BY <1>0, <1>1, <1>4

-----------------------------------------------------------------------------
(* What is visited first at each place, and what then remains.             *)

LEMMA EndOfFileType == <<EndOfFile>> \in Seq(Visit)
BY VisitTypes

LEMMA AtDomainType ==
  ASSUME NEW ds \in Descriptions, NEW order \in KeyOrders, NEW i \in 1..Len(ds) + 1
  PROVE  AtDomain(ds, order, i) \in Seq(Visit)
<1>1. i \in Nat \ {0}
  OBVIOUS
<1> QED BY <1>1, DomainPartsType, EndOfFileType, FromType DEF AtDomain

LEMMA AtArrayType ==
  ASSUME NEW ds \in Descriptions, NEW order \in KeyOrders, NEW i \in 1..Len(ds)
  PROVE  /\ Array(ds[i].numExplorations) \in Visit
         /\ AtDomain(ds, order, i + 1) \in Seq(Visit)
         /\ Cons(Array(ds[i].numExplorations), AtDomain(ds, order, i + 1)) \in Seq(Visit)
<1>1. AtDomain(ds, order, i + 1) \in Seq(Visit)
  <2>1. i + 1 \in 1..Len(ds) + 1
    BY SourceTypes
  <2> QED BY <2>1, AtDomainType
<1>2. Array(ds[i].numExplorations) \in Visit
  BY DomainTypes, VisitTypes
<1> QED BY <1>1, <1>2, ConsProperties

LEMMA AtExplorationsType ==
  ASSUME NEW ds \in Descriptions, NEW order \in KeyOrders, NEW i \in 1..Len(ds)
  PROVE  AtExplorations(ds, order, i) \in Seq(Visit)
<1>1. Key(2, "explorations") \in Visit
  BY VisitTypes DEF Keywords
<1> QED BY <1>1, AtArrayType, ConsProperties DEF AtExplorations

LEMMA AtConstraintType ==
  ASSUME NEW ds \in Descriptions, NEW order \in KeyOrders, NEW i \in 1..Len(ds),
         NEW j \in Nat \ {0}
  PROVE  AtConstraint(ds, order, i, j) \in Seq(Visit)
BY ConstraintPartsType, AtExplorationsType, FromType DEF AtConstraint

LEMMA AtConstraintsType ==
  ASSUME NEW ds \in Descriptions, NEW order \in KeyOrders, NEW i \in 1..Len(ds)
  PROVE  Cons(Key(2, "constraints"), AtConstraint(ds, order, i, 1)) \in Seq(Visit)
<1>1. AtConstraint(ds, order, i, 1) \in Seq(Visit)
  BY AtConstraintType
<1>2. Key(2, "constraints") \in Visit
  BY VisitTypes DEF Keywords
<1> QED BY <1>1, <1>2, ConsProperties

LEMMA AtParamType ==
  ASSUME NEW ds \in Descriptions, NEW order \in KeyOrders, NEW i \in 1..Len(ds),
         NEW j \in Nat \ {0}
  PROVE  AtParam(ds, order, i, j) \in Seq(Visit)
BY ParamPartsType, AtConstraintsType, FromType DEF AtParam

LEMMA AtFieldType ==
  ASSUME NEW ds \in Descriptions, NEW order \in KeyOrders, NEW i \in 1..Len(ds),
         NEW j \in 1..Len(ds[i].paramsArray), NEW k \in Nat \ {0}
  PROVE  AtField(ds, order, i, j, k) \in Seq(Visit)
<1>1. AtParam(ds, order, i, j + 1) \in Seq(Visit)
  BY AtParamType
<1> QED BY <1>1, FieldPartsType, FromType DEF AtField

LEMMA AtIntegerType ==
  ASSUME NEW ds \in Descriptions, NEW order \in KeyOrders, NEW i \in 1..Len(ds),
         NEW j \in 1..Len(ds[i].paramsArray), NEW k \in Nat \ {0}, NEW c \in Nat \ {0}
  PROVE  AtInteger(ds, order, i, j, k, c) \in Seq(Visit)
<1> DEFINE vs == ds[i].paramsArray[j].valueArray
<1>1. AtField(ds, order, i, j, k + 1) \in Seq(Visit)
  BY AtFieldType
<1>2. vs \in Seq(Int) /\ Len(vs) \in Nat
  BY ParamTypes
<1>3. SubSeq(Integers(vs), c, Len(vs)) \in Seq(Visit)
  <2> HIDE DEF vs
  <2>1. \A h \in c..Len(vs) : Integers(vs)[h] \in Visit
    BY <1>2, IntegersType
  <2>2. c \in Int /\ Len(vs) \in Int
    BY <1>2
  <2> QED BY <2>1, <2>2, SubSeqProperties
<1> QED BY <1>1, <1>3, ConcatProperties DEF AtInteger

LEMMA AtValueType ==
  ASSUME NEW ds \in Descriptions, NEW order \in KeyOrders, NEW i \in 1..Len(ds),
         NEW j \in 1..Len(ds[i].paramsArray), NEW k \in 1..3
  PROVE  AtValue(ds, order, i, j, k) \in Seq(Visit)
<1> DEFINE p == ds[i].paramsArray[j]
<1>1. /\ Array(Len(p.valueArray)) \in Visit /\ Integer(p.paramType) \in Visit
      /\ Integer(p.defaultVal) \in Visit
  <2>1. Len(p.valueArray) \in Nat /\ p.paramType \in Int /\ p.defaultVal \in Int
    BY ParamTypes
  <2> QED BY <2>1, VisitTypes
<1>2. AtInteger(ds, order, i, j, k, 1) \in Seq(Visit)
      /\ AtField(ds, order, i, j, k + 1) \in Seq(Visit)
  BY AtIntegerType, AtFieldType
<1>3. /\ Cons(Array(Len(p.valueArray)), AtInteger(ds, order, i, j, k, 1)) \in Seq(Visit)
      /\ Cons(Integer(p.paramType), AtField(ds, order, i, j, k + 1)) \in Seq(Visit)
      /\ Cons(Integer(p.defaultVal), AtField(ds, order, i, j, k + 1)) \in Seq(Visit)
  BY <1>1, <1>2, ConsProperties
<1>4. order[k] \in {"range", "type", "default"}
  BY OrderTypes DEF FieldKeys
<1> QED BY <1>3, <1>4 DEF AtValue

LEMMA AtExprType ==
  ASSUME NEW ds \in Descriptions, NEW order \in KeyOrders, NEW i \in 1..Len(ds),
         NEW j \in 1..Len(ds[i].constraintsArray)
  PROVE  AtExpr(ds, order, i, j) \in Seq(Visit)
<1>1. j + 1 \in Nat \ {0}
  OBVIOUS
<1>2. AtConstraint(ds, order, i, j + 1) \in Seq(Visit)
  BY <1>1, AtConstraintType
<1>3. String(ds[i].constraintsArray[j].constExpr) \in Visit
  BY ConstraintTypes, VisitTypes
<1> QED BY <1>2, <1>3, ConsProperties DEF AtExpr

LEMMA DomainFirst ==
  ASSUME NEW ds \in Descriptions, NEW order \in KeyOrders, NEW i \in 1..Len(ds)
  PROVE  AtDomain(ds, order, i) =
           Cons(Key(1, ds[i].domName), Cons(Key(2, "params"), AtParam(ds, order, i, 1)))
<1> DEFINE d == ds[i]
           names == <<Key(1, d.domName), Key(2, "params")>>
           params == FlattenSeq(ParamParts(d, order))
           constraints == FlattenSeq(ConstraintParts(d))
           explorations == <<Key(2, "explorations"), Array(d.numExplorations)>>
           mark == <<Key(2, "constraints")>>
           next == AtDomain(ds, order, i + 1)
<1>1. /\ DomainVisits(d, order) =
           (((names \o params) \o mark) \o constraints) \o explorations
      /\ names \in Seq(Visit) /\ params \in Seq(Visit) /\ mark \in Seq(Visit)
      /\ constraints \in Seq(Visit) /\ explorations \in Seq(Visit)
  BY DomainVisitsParts
<1>2. next \in Seq(Visit)
  <2>1. i + 1 \in 1..Len(ds) + 1
    BY SourceTypes
  <2> QED BY <2>1, AtDomainType
<1>3. AtDomain(ds, order, i) = DomainVisits(d, order) \o next
  <2>1. LET parts == DomainParts(ds, order)
        IN parts \in Seq(Seq(Visit)) /\ i \in 1..Len(parts)
           /\ parts[i] = DomainVisits(d, order)
    BY DomainPartsType
  <2> QED BY <2>1, EndOfFileType, FromNext DEF AtDomain
<1>4. /\ Key(1, d.domName) \in Visit /\ Key(2, "params") \in Visit
      /\ Key(2, "explorations") \in Visit /\ Array(d.numExplorations) \in Visit
  BY DomainTypes, VisitTypes DEF Keywords
<1>5. AtExplorations(ds, order, i) = explorations \o next
  BY <1>2, <1>4, ConcatTwo DEF AtExplorations
<1>6. AtConstraint(ds, order, i, 1) = constraints \o (explorations \o next)
  BY <1>5, ConstraintPartsType, FromFirst DEF AtConstraint
<1>7. AtParam(ds, order, i, 1) =
        params \o (mark \o (constraints \o (explorations \o next)))
  BY <1>6, ParamPartsType, FromFirst DEF AtParam, Cons
<1>8. AtParam(ds, order, i, 1) \in Seq(Visit)
  BY AtParamType
<1>9. names \o AtParam(ds, order, i, 1) =
        Cons(Key(1, d.domName), Cons(Key(2, "params"), AtParam(ds, order, i, 1)))
  BY <1>4, <1>8, ConcatTwo
<1> HIDE DEF d, names, params, constraints, explorations, mark, next
<1>10. DomainVisits(d, order) \o next = names \o AtParam(ds, order, i, 1)
  <2> DEFINE two == names \o params
             three == two \o mark
             four == three \o constraints
  <2>1. two \in Seq(Visit) /\ three \in Seq(Visit) /\ four \in Seq(Visit)
    <3>1. two \in Seq(Visit)
      BY <1>1, ConcatProperties
    <3>2. three \in Seq(Visit)
      BY <1>1, <3>1, ConcatProperties
    <3>3. four \in Seq(Visit)
      BY <1>1, <3>2, ConcatProperties
    <3> QED BY <3>1, <3>2, <3>3
  <2>2. explorations \o next \in Seq(Visit)
    BY <1>1, <1>2, ConcatProperties
  <2>3. constraints \o (explorations \o next) \in Seq(Visit)
    BY <1>1, <2>2, ConcatProperties
  <2>4. mark \o (constraints \o (explorations \o next)) \in Seq(Visit)
    BY <1>1, <2>3, ConcatProperties
  <2>5. Associates(four, explorations, next)
    BY <1>1, <1>2, <2>1, ConcatAssociates
  <2>6. Associates(three, constraints, explorations \o next)
    BY <1>1, <2>1, <2>2, ConcatAssociates
  <2>7. Associates(two, mark, constraints \o (explorations \o next))
    BY <1>1, <2>1, <2>3, ConcatAssociates
  <2>8. Associates(names, params, mark \o (constraints \o (explorations \o next)))
    BY <1>1, <2>4, ConcatAssociates
  <2> QED BY <1>1, <1>7, <2>5, <2>6, <2>7, <2>8, Zenon DEF Associates
<1> QED BY <1>3, <1>9, <1>10 DEF d

LEMMA DomainEnd ==
  ASSUME NEW ds \in Descriptions, NEW order \in KeyOrders
  PROVE  AtDomain(ds, order, Len(ds) + 1) = <<EndOfFile>>
<1> DEFINE parts == DomainParts(ds, order)
<1>1. parts \in Seq(Seq(Visit)) /\ Len(parts) = Len(ds)
  BY DomainPartsType
<1> HIDE DEF parts
<1>2. From(parts, Len(parts) + 1, <<EndOfFile>>) = <<EndOfFile>>
  BY <1>1, EndOfFileType, FromEnd
<1> QED BY <1>1, <1>2 DEF AtDomain, parts

LEMMA ParamFirst ==
  ASSUME NEW ds \in Descriptions, NEW order \in KeyOrders, NEW i \in 1..Len(ds),
         NEW j \in 1..Len(ds[i].paramsArray)
  PROVE  AtParam(ds, order, i, j) =
           Cons(Key(3, ds[i].paramsArray[j].paramName), AtField(ds, order, i, j, 1))
<1> DEFINE p == ds[i].paramsArray[j]
           next == AtParam(ds, order, i, j + 1)
           fields == FlattenSeq(FieldParts(p, order))
<1>1. AtParam(ds, order, i, j) = ParamVisits(p, order) \o next
  <2>1. LET parts == ParamParts(ds[i], order)
        IN parts \in Seq(Seq(Visit)) /\ j \in 1..Len(parts)
           /\ parts[j] = ParamVisits(p, order)
    BY ParamPartsType
  <2> QED BY <2>1, AtConstraintsType, FromNext DEF AtParam
<1>2. ParamVisits(p, order) = <<Key(3, p.paramName)>> \o fields
  BY DEF ParamVisits, FieldParts
<1>3. AtField(ds, order, i, j, 1) = fields \o next
  BY FieldPartsType, FromFirst DEF AtField
<1>4. next \in Seq(Visit) /\ fields \in Seq(Visit)
  <2>1. j + 1 \in Nat \ {0}
    OBVIOUS
  <2>2. next \in Seq(Visit)
    BY <2>1, AtParamType
  <2>3. FieldParts(p, order) \in Seq(Seq(Visit))
    BY FieldPartsType
  <2> QED BY <2>2, <2>3, FlattenType
<1>5. Key(3, p.paramName) \in Visit
  BY ParamVisitTypes
<1>6. <<Key(3, p.paramName)>> \in Seq(Visit)
  BY <1>5
<1>7. Associates(<<Key(3, p.paramName)>>, fields, next)
  BY <1>4, <1>6, ConcatAssociates
<1> HIDE DEF next, fields
<1> QED BY <1>1, <1>2, <1>3, <1>7, Zenon DEF Associates, Cons

LEMMA ParamEnd ==
  ASSUME NEW ds \in Descriptions, NEW order \in KeyOrders, NEW i \in 1..Len(ds)
  PROVE  AtParam(ds, order, i, Len(ds[i].paramsArray) + 1) =
           Cons(Key(2, "constraints"), AtConstraint(ds, order, i, 1))
<1> DEFINE parts == ParamParts(ds[i], order)
           next == Cons(Key(2, "constraints"), AtConstraint(ds, order, i, 1))
<1>1. parts \in Seq(Seq(Visit)) /\ Len(parts) = Len(ds[i].paramsArray)
  BY ParamPartsType
<1>2. next \in Seq(Visit)
  BY AtConstraintsType
<1> HIDE DEF parts, next
<1>3. From(parts, Len(parts) + 1, next) = next
  BY <1>1, <1>2, FromEnd
<1> QED BY <1>1, <1>3 DEF AtParam, parts, next

LEMMA ConstraintFirst ==
  ASSUME NEW ds \in Descriptions, NEW order \in KeyOrders, NEW i \in 1..Len(ds),
         NEW j \in 1..Len(ds[i].constraintsArray)
  PROVE  AtConstraint(ds, order, i, j) =
           Cons(Key(3, ds[i].constraintsArray[j].constName),
                Cons(Key(4, "expr"), AtExpr(ds, order, i, j)))
<1> DEFINE c == ds[i].constraintsArray[j]
           next == AtConstraint(ds, order, i, j + 1)
<1>1. AtConstraint(ds, order, i, j) = ConstraintVisits(c) \o next
  <2>1. LET parts == ConstraintParts(ds[i])
        IN parts \in Seq(Seq(Visit)) /\ j \in 1..Len(parts)
           /\ parts[j] = ConstraintVisits(c)
    BY ConstraintPartsType
  <2> QED BY <2>1, AtExplorationsType, FromNext DEF AtConstraint
<1>2. next \in Seq(Visit)
  BY AtConstraintType
<1>3. Key(3, c.constName) \in Visit /\ Key(4, "expr") \in Visit /\ String(c.constExpr) \in Visit
  BY ConstraintTypes, VisitTypes DEF Keywords
<1> DEFINE x == Key(3, c.constName)
           y == Key(4, "expr")
           z == String(c.constExpr)
<1>4. ConstraintVisits(c) = <<x, y, z>>
  BY DEF ConstraintVisits
<1>5. AtExpr(ds, order, i, j) = Cons(z, next)
  BY DEF AtExpr
<1> HIDE DEF x, y, z, next
<1>6. <<x, y, z>> \o next = Cons(x, Cons(y, Cons(z, next)))
  BY <1>2, <1>3, ConcatThree DEF x, y, z
<1> QED BY <1>1, <1>4, <1>5, <1>6, Zenon DEF x, y

LEMMA ConstraintEnd ==
  ASSUME NEW ds \in Descriptions, NEW order \in KeyOrders, NEW i \in 1..Len(ds)
  PROVE  AtConstraint(ds, order, i, Len(ds[i].constraintsArray) + 1) =
           AtExplorations(ds, order, i)
BY ConstraintPartsType, AtExplorationsType, FromEnd DEF AtConstraint

LEMMA FieldEnd ==
  ASSUME NEW ds \in Descriptions, NEW order \in KeyOrders, NEW i \in 1..Len(ds),
         NEW j \in 1..Len(ds[i].paramsArray)
  PROVE  AtField(ds, order, i, j, 4) = AtParam(ds, order, i, j + 1)
<1>1. AtParam(ds, order, i, j + 1) \in Seq(Visit)
  BY AtParamType
<1> DEFINE parts == FieldParts(ds[i].paramsArray[j], order)
<1>2. parts \in Seq(Seq(Visit)) /\ Len(parts) = 3
  BY FieldPartsType
<1> HIDE DEF parts
<1>3. From(parts, Len(parts) + 1, AtParam(ds, order, i, j + 1)) = AtParam(ds, order, i, j + 1)
  BY <1>1, <1>2, FromEnd
<1>4. Len(parts) + 1 = 4
  BY <1>2
<1> QED BY <1>3, <1>4 DEF AtField, parts

LEMMA FieldFirst ==
  ASSUME NEW ds \in Descriptions, NEW order \in KeyOrders, NEW i \in 1..Len(ds),
         NEW j \in 1..Len(ds[i].paramsArray), NEW k \in 1..3
  PROVE  AtField(ds, order, i, j, k) = Cons(Key(4, order[k]), AtValue(ds, order, i, j, k))
<1> DEFINE p == ds[i].paramsArray[j]
           next == AtField(ds, order, i, j, k + 1)
           key == order[k]
           value == CASE key = "range" ->
                           <<Array(Len(p.valueArray))>> \o Integers(p.valueArray)
                      [] key = "type" -> <<Integer(p.paramType)>>
                      [] key = "default" -> <<Integer(p.defaultVal)>>
<1>1. AtField(ds, order, i, j, k) = FieldVisits(p, key) \o next
  <2> DEFINE parts == FieldParts(p, order)
             rest == AtParam(ds, order, i, j + 1)
  <2>1. /\ parts \in Seq(Seq(Visit)) /\ Len(parts) = 3
        /\ parts[k] = FieldVisits(p, key)
    BY FieldPartsType, Zenon
  <2>2. rest \in Seq(Visit)
    BY AtParamType
  <2>3. AtField(ds, order, i, j, k) = From(parts, k, rest)
    BY DEF AtField
  <2>4. next = From(parts, k + 1, rest)
    BY DEF AtField
  <2> HIDE DEF parts, rest, next, key, p
  <2>5. From(parts, k, rest) = parts[k] \o From(parts, k + 1, rest)
    BY <2>1, <2>2, FromNext
  <2> QED BY <2>1, <2>3, <2>4, <2>5, Zenon
<1>2. next \in Seq(Visit)
  BY AtFieldType
<1>3. FieldVisits(p, key) = <<Key(4, key)>> \o value
  BY DEF FieldVisits
<1>4. key \in FieldKeys
  BY OrderTypes
<1>5. <<Key(4, key)>> \in Seq(Visit)
  BY <1>4, VisitTypes DEF Keywords
<1>6. value \in Seq(Visit) /\ value \o next = AtValue(ds, order, i, j, k)
  <2>1. p.paramType \in Int /\ p.defaultVal \in Int
        /\ p.valueArray \in Seq(Int) /\ Len(p.valueArray) \in Nat
    BY ParamTypes
  <2> HIDE DEF next
  <2>2. CASE key = "range"
    <3> DEFINE vs == p.valueArray
               ints == Integers(vs)
               size == <<Array(Len(vs))>>
    <3>1. size \in Seq(Visit) /\ ints \in Seq(Visit) /\ Len(ints) = Len(vs)
      <4>1. Array(Len(vs)) \in Visit
        BY <2>1, VisitTypes
      <4> QED BY <4>1, <2>1, IntegersType
    <3>2. AtInteger(ds, order, i, j, k, 1) = ints \o next
      <4>1. SubSeq(ints, 1, Len(vs)) = ints
        BY <3>1, SubSeqFull
      <4> QED BY <4>1 DEF AtInteger, next
    <3>3. AtValue(ds, order, i, j, k) = size \o (ints \o next)
      BY <2>2, <3>2 DEF AtValue, Cons
    <3>4. value = size \o ints
      BY <2>2
    <3> HIDE DEF value, ints, size
    <3>5. Associates(size, ints, next)
      BY <1>2, <3>1, ConcatAssociates
    <3>6. value \in Seq(Visit)
      BY <3>1, <3>4, ConcatProperties
    <3> QED BY <3>3, <3>4, <3>5, <3>6, Zenon DEF Associates
  <2>3. CASE key = "type"
    <3>1. value = <<Integer(p.paramType)>> /\ Integer(p.paramType) \in Visit
      BY <2>1, <2>3, VisitTypes
    <3> QED BY <2>3, <3>1 DEF AtValue, Cons, next
  <2>4. CASE key = "default"
    <3>1. value = <<Integer(p.defaultVal)>> /\ Integer(p.defaultVal) \in Visit
      BY <2>1, <2>4, VisitTypes
    <3> QED BY <2>4, <3>1 DEF AtValue, Cons, next
  <2> QED BY <1>4, <2>2, <2>3, <2>4 DEF FieldKeys
<1> HIDE DEF value, next
<1>7. Associates(<<Key(4, key)>>, value, next)
  BY <1>2, <1>5, <1>6, ConcatAssociates
<1> QED BY <1>1, <1>3, <1>6, <1>7, Zenon DEF Associates, Cons

LEMMA IntegerFirst ==
  ASSUME NEW ds \in Descriptions, NEW order \in KeyOrders, NEW i \in 1..Len(ds),
         NEW j \in 1..Len(ds[i].paramsArray), NEW k \in 1..3,
         NEW c \in 1..Len(ds[i].paramsArray[j].valueArray)
  PROVE  AtInteger(ds, order, i, j, k, c) =
           Cons(Integer(ds[i].paramsArray[j].valueArray[c]),
                AtInteger(ds, order, i, j, k, c + 1))
<1> DEFINE vs == ds[i].paramsArray[j].valueArray
           ints == Integers(vs)
           next == AtField(ds, order, i, j, k + 1)
           rest == SubSeq(ints, c + 1, Len(vs))
<1>1. vs \in Seq(Int) /\ Len(vs) \in Nat
  BY ParamTypes
<1>2. next \in Seq(Visit)
  BY AtFieldType
<1>3. AtInteger(ds, order, i, j, k, c) = SubSeq(ints, c, Len(vs)) \o next
      /\ AtInteger(ds, order, i, j, k, c + 1) = rest \o next
  BY DEF AtInteger
<1>4. c \in 1..Len(vs)
  OBVIOUS
<1> HIDE DEF vs, next
<1>5. ints \in Seq(Visit) /\ Len(ints) = Len(vs) /\ ints[c] = Integer(vs[c])
  BY <1>1, <1>4, IntegersType
<1> HIDE DEF ints
<1>6. SubSeq(ints, c, Len(vs)) = <<ints[c]>> \o rest
  <2>1. c \in 1..Len(ints) /\ Len(ints) \in c..Len(ints)
    BY <1>1, <1>4, <1>5
  <2> QED BY <1>5, <2>1, SubSeqRecursiveFirst
<1>7. rest \in Seq(Visit) /\ ints[c] \in Visit
  <2>1. c + 1 \in Int /\ Len(vs) \in Int /\ \A h \in c + 1..Len(vs) : ints[h] \in Visit
    BY <1>1, <1>4, <1>5
  <2>2. rest \in Seq(Visit)
    BY <2>1, SubSeqProperties
  <2> QED BY <1>4, <1>5, <2>2
<1> HIDE DEF rest
<1>8. <<ints[c]>> \in Seq(Visit)
  BY <1>7
<1>9. Associates(<<ints[c]>>, rest, next)
  BY <1>2, <1>7, <1>8, ConcatAssociates
<1> QED BY <1>3, <1>5, <1>6, <1>9, Zenon DEF Cons, Associates, vs

LEMMA IntegerEnd ==
  ASSUME NEW ds \in Descriptions, NEW order \in KeyOrders, NEW i \in 1..Len(ds),
         NEW j \in 1..Len(ds[i].paramsArray), NEW k \in 1..3
  PROVE  AtInteger(ds, order, i, j, k, Len(ds[i].paramsArray[j].valueArray) + 1) =
           AtField(ds, order, i, j, k + 1)
<1> DEFINE vs == ds[i].paramsArray[j].valueArray
<1>1. Len(vs) \in Nat
  BY ParamTypes
<1>2. SubSeq(Integers(vs), Len(vs) + 1, Len(vs)) = <<>>
  <2> HIDE DEF vs
  <2>1. Len(vs) + 1 \in Int /\ Len(vs) \in Int /\ Len(vs) < Len(vs) + 1
    BY <1>1
  <2> QED BY <2>1, SubSeqEmpty
<1>3. AtField(ds, order, i, j, k + 1) \in Seq(Visit)
  BY AtFieldType
<1> QED BY <1>2, <1>3, ConcatEmptySeq DEF AtInteger

-----------------------------------------------------------------------------
(* What domArray holds when p parameters and c constraints of the i-th     *)
(* domain have been moved into it, and what is pending.                    *)

Beginning(d, p, c) ==
  [d EXCEPT !.paramsArray = SubSeq(@, 1, p), !.constraintsArray = SubSeq(@, 1, c)]

Stored(ds, i, p, c) ==
  [h \in 1..i |-> IF h < i THEN ds[h] ELSE Beginning(ds[i], p, c)]

Before(j) == IF j = 0 THEN 0 ELSE j - 1

NParams(i) == Len(source[i].paramsArray)
NConstraints(i) == Len(source[i].constraintsArray)

-----------------------------------------------------------------------------
(* What moving an entry into domArray makes of it.                         *)

LEMMA BeginningFields ==
  ASSUME NEW ds \in Descriptions, NEW i \in 1..Len(ds),
         NEW p \in 0..Len(ds[i].paramsArray), NEW c \in 0..Len(ds[i].constraintsArray)
  PROVE  LET b == Beginning(ds[i], p, c)
             ps == ds[i].paramsArray
             cs == ds[i].constraintsArray
         IN /\ b \in Domains /\ b.domName = ds[i].domName
            /\ b.paramsArray = SubSeq(ps, 1, p)
            /\ b.paramsArray \in Seq(Params) /\ Len(b.paramsArray) = p
            /\ \A j \in 1..p : b.paramsArray[j] = ps[j]
            /\ b.constraintsArray = SubSeq(cs, 1, c)
            /\ b.constraintsArray \in Seq(Constraints) /\ Len(b.constraintsArray) = c
            /\ \A j \in 1..c : b.constraintsArray[j] = cs[j]
<1> DEFINE b == Beginning(ds[i], p, c)
           ps == ds[i].paramsArray
           cs == ds[i].constraintsArray
<1>1. ds[i] \in Domains
  BY DomainTypes
<1>2. b.domName = ds[i].domName /\ b.paramsArray = SubSeq(ps, 1, p)
      /\ b.constraintsArray = SubSeq(cs, 1, c)
  BY <1>1 DEF Beginning, Domains, atp_domain_t
<1>3. ps \in Seq(Params) /\ cs \in Seq(Constraints) /\ Len(ps) \in Nat /\ Len(cs) \in Nat
      /\ p \in 0..Len(ps) /\ c \in 0..Len(cs)
  BY DomainTypes
<1>4. /\ SubSeq(ps, 1, p) \in Seq(Params) /\ Len(SubSeq(ps, 1, p)) = p
      /\ \A j \in 1..p : SubSeq(ps, 1, p)[j] = ps[j]
  <2> HIDE DEF ps
  <2>1. \A j \in 1..p : ps[j] \in Params
    BY <1>3
  <2>2. 1 \in Int /\ p \in Int /\ p - 1 + 1 = p /\ (IF 1 <= p THEN p - 1 + 1 ELSE 0) = p
        /\ \A j \in 1..p : 1 + j - 1 = j
    BY <1>3
  <2> QED BY <2>1, <2>2, SubSeqProperties
<1>5. /\ SubSeq(cs, 1, c) \in Seq(Constraints) /\ Len(SubSeq(cs, 1, c)) = c
      /\ \A j \in 1..c : SubSeq(cs, 1, c)[j] = cs[j]
  <2> HIDE DEF cs
  <2>1. \A j \in 1..c : cs[j] \in Constraints
    BY <1>3
  <2>2. 1 \in Int /\ c \in Int /\ c - 1 + 1 = c /\ (IF 1 <= c THEN c - 1 + 1 ELSE 0) = c
        /\ \A j \in 1..c : 1 + j - 1 = j
    BY <1>3
  <2> QED BY <2>1, <2>2, SubSeqProperties
<1>6. b \in Domains
  <2> HIDE DEF ps, cs
  <2> QED BY <1>1, <1>4, <1>5 DEF Beginning, Domains, atp_domain_t, ps, cs
<1> QED BY <1>2, <1>4, <1>5, <1>6

\* The same under a name, for steps that need no more than one instance of it.
BeginsWith(b, d, p, c) ==
  /\ b \in Domains /\ b.domName = d.domName
  /\ b.paramsArray = SubSeq(d.paramsArray, 1, p)
  /\ b.paramsArray \in Seq(Params) /\ Len(b.paramsArray) = p
  /\ \A j \in 1..p : b.paramsArray[j] = d.paramsArray[j]
  /\ b.constraintsArray = SubSeq(d.constraintsArray, 1, c)
  /\ b.constraintsArray \in Seq(Constraints) /\ Len(b.constraintsArray) = c
  /\ \A j \in 1..c : b.constraintsArray[j] = d.constraintsArray[j]

LEMMA BeginningBegins ==
  ASSUME NEW ds \in Descriptions, NEW i \in 1..Len(ds),
         NEW p \in 0..Len(ds[i].paramsArray), NEW c \in 0..Len(ds[i].constraintsArray)
  PROVE  BeginsWith(Beginning(ds[i], p, c), ds[i], p, c)
BY BeginningFields DEF BeginsWith

LEMMA StoredType ==
  ASSUME NEW ds \in Descriptions, NEW i \in 1..Len(ds),
         NEW p \in 0..Len(ds[i].paramsArray), NEW c \in 0..Len(ds[i].constraintsArray)
  PROVE  /\ Stored(ds, i, p, c) \in Seq(Domains) /\ Len(Stored(ds, i, p, c)) = i
         /\ Stored(ds, i, p, c) \in [1..i -> Domains]
         /\ \A h \in 1..i - 1 : Stored(ds, i, p, c)[h] = ds[h]
         /\ Stored(ds, i, p, c)[i] = Beginning(ds[i], p, c)
<1>1. i \in Nat /\ i \in 1..i
  BY SourceTypes
<1>2. \A h \in 1..i : ds[h] \in Domains
  BY SourceTypes, DomainTypes
<1>3. Beginning(ds[i], p, c) \in Domains
  BY BeginningFields
<1>4. Stored(ds, i, p, c) \in [1..i -> Domains]
  BY <1>2, <1>3 DEF Stored
<1>5. Stored(ds, i, p, c) \in Seq(Domains) /\ Len(Stored(ds, i, p, c)) = i
  BY <1>1, <1>4, FunctionIsSeq
<1> QED BY <1>1, <1>4, <1>5 DEF Stored

\* A store is known by its domains, and a domain by its parameters and
\* constraints.
LEMMA StoredEqual ==
  ASSUME NEW ds \in Descriptions, NEW i \in 1..Len(ds),
         NEW p \in 0..Len(ds[i].paramsArray), NEW c \in 0..Len(ds[i].constraintsArray),
         NEW f \in [1..i -> Domains], \A h \in 1..i - 1 : f[h] = ds[h],
         f[i].domName = ds[i].domName,
         f[i].paramsArray = SubSeq(ds[i].paramsArray, 1, p),
         f[i].constraintsArray = SubSeq(ds[i].constraintsArray, 1, c)
  PROVE  f = Stored(ds, i, p, c)
<1> DEFINE b == Beginning(ds[i], p, c)
<1>1. i \in Nat
  BY SourceTypes
<1>2. /\ b \in Domains /\ b.domName = ds[i].domName
      /\ b.paramsArray = SubSeq(ds[i].paramsArray, 1, p)
      /\ b.constraintsArray = SubSeq(ds[i].constraintsArray, 1, c)
  BY BeginningFields
<1> HIDE DEF b
<1>3. f[i] = b
  <2> DEFINE d == f[i]
  <2>1. d \in Domains
    BY <1>1
  <2>2. d.domName = b.domName /\ d.paramsArray = b.paramsArray
        /\ d.constraintsArray = b.constraintsArray
    BY <1>2
  <2> HIDE DEF d
  <2>3. \A s \in Seq({}) : s = <<>>
    <3> SUFFICES ASSUME NEW s \in Seq({}) PROVE s = <<>>
      OBVIOUS
    <3>1. Len(s) \in Nat /\ \A k \in 1..Len(s) : s[k] \in {}
      OBVIOUS
    <3>2. Len(s) = 0
      BY <3>1
    <3> QED BY <3>2, EmptySeq
  <2>4. d.explorationArray = <<>> /\ b.explorationArray = <<>>
        /\ d.numExplorations = 0 /\ b.numExplorations = 0
    BY <1>2, <2>1, <2>3 DEF Domains, atp_domain_t
  <2>5. /\ d = [domName |-> d.domName, paramsArray |-> d.paramsArray,
                constraintsArray |-> d.constraintsArray,
                explorationArray |-> d.explorationArray,
                numExplorations |-> d.numExplorations]
        /\ b = [domName |-> b.domName, paramsArray |-> b.paramsArray,
                constraintsArray |-> b.constraintsArray,
                explorationArray |-> b.explorationArray,
                numExplorations |-> b.numExplorations]
    <3>1. b \in Domains
      BY <1>2
    <3> QED BY <2>1, <3>1 DEF Domains, atp_domain_t
  <2>6. d = b
    BY <2>2, <2>4, <2>5
  <2> QED BY <2>6 DEF d
<1>4. /\ Stored(ds, i, p, c) \in [1..i -> Domains] /\ Stored(ds, i, p, c)[i] = b
      /\ \A h \in 1..i - 1 : Stored(ds, i, p, c)[h] = ds[h]
  BY StoredType DEF b
<1>5. \A h \in 1..i : f[h] = Stored(ds, i, p, c)[h]
  <2> SUFFICES ASSUME NEW h \in 1..i PROVE f[h] = Stored(ds, i, p, c)[h]
    OBVIOUS
  <2>1. h = i \/ h \in 1..i - 1
    BY <1>1
  <2> QED BY <1>3, <1>4, <2>1
<1> QED BY <1>4, <1>5

LEMMA ParamCommitted ==
  ASSUME NEW ds \in Descriptions, NEW i \in 1..Len(ds),
         NEW p \in 1..Len(ds[i].paramsArray), NEW c \in 0..Len(ds[i].constraintsArray)
  PROVE  LET param == ds[i].paramsArray[p]
             added == ATP_param_new(param.paramName, param.paramType, param.defaultVal,
                                    i, Stored(ds, i, p - 1, c))
         IN ATP_param_add_values(Len(added[i].paramsArray), i, param.valueArray, added)
              = Stored(ds, i, p, c)
<1> DEFINE param == ds[i].paramsArray[p]
           ps == ds[i].paramsArray
           old == Stored(ds, i, p - 1, c)
           new == [paramName |-> param.paramName, paramType |-> param.paramType,
                   defaultVal |-> param.defaultVal, valueArray |-> Uninit]
           added == ATP_param_new(param.paramName, param.paramType, param.defaultVal, i, old)
           result == ATP_param_add_values(Len(added[i].paramsArray), i, param.valueArray, added)
<1>0. p \in Nat /\ p - 1 \in 0..Len(ds[i].paramsArray) /\ i \in 1..i /\ p \in 0..Len(ps)
  BY DomainTypes, SourceTypes
<1>1. /\ old \in [1..i -> Domains] /\ old[i] = Beginning(ds[i], p - 1, c)
      /\ \A h \in 1..i - 1 : old[h] = ds[h]
  BY <1>0, StoredType
<1>2. /\ old[i] \in Domains /\ old[i].domName = ds[i].domName
      /\ old[i].paramsArray \in Seq(Params) /\ Len(old[i].paramsArray) = p - 1
      /\ \A j \in 1..p - 1 : old[i].paramsArray[j] = ps[j]
      /\ old[i].constraintsArray = SubSeq(ds[i].constraintsArray, 1, c)
  <2> DEFINE b == Beginning(ds[i], p - 1, c)
  <2>1. /\ b \in Domains /\ b.domName = ds[i].domName
        /\ b.paramsArray \in Seq(Params) /\ Len(b.paramsArray) = p - 1
        /\ \A j \in 1..p - 1 : b.paramsArray[j] = ps[j]
        /\ b.constraintsArray = SubSeq(ds[i].constraintsArray, 1, c)
    <3>1. BeginsWith(Beginning(ds[i], p - 1, c), ds[i], p - 1, c)
      BY <1>0, BeginningBegins, Zenon
    <3> QED BY <3>1 DEF BeginsWith
  <2> HIDE DEF old, b, ps
  <2>2. old[i] = b
    BY <1>1 DEF b
  <2> QED BY <2>1, <2>2
<1>3. /\ param \in Params /\ param.valueArray \in Seq(Int)
  BY ParamTypes
<1>4. new \in Params /\ [new EXCEPT !.valueArray = param.valueArray] = param
  BY <1>3 DEF Params, atp_param_t
<1>5. added = [old EXCEPT ![i].paramsArray = Append(@, new)]
  BY DEF ATP_param_new
<1> HIDE DEF old, new, added
<1>6. /\ added \in [1..i -> Domains] /\ \A h \in 1..i - 1 : added[h] = ds[h]
      /\ added[i].domName = ds[i].domName
      /\ added[i].paramsArray = Append(old[i].paramsArray, new)
      /\ added[i].constraintsArray = SubSeq(ds[i].constraintsArray, 1, c)
  <2>1. Append(old[i].paramsArray, new) \in Seq(Params)
    BY <1>2, <1>4
  <2>2. [old[i] EXCEPT !.paramsArray = Append(@, new)] \in Domains
    BY <1>2, <2>1 DEF Domains, atp_domain_t
  <2>3. added = [old EXCEPT ![i] = [old[i] EXCEPT !.paramsArray = Append(@, new)]]
    BY <1>5
  <2>4. added[i] = [old[i] EXCEPT !.paramsArray = Append(@, new)]
    BY <1>0, <1>1, <2>3
  <2>5. added \in [1..i -> Domains] /\ \A h \in 1..i - 1 : added[h] = old[h]
    BY <1>0, <1>1, <2>2, <2>3
  <2> QED BY <1>1, <1>2, <2>4, <2>5 DEF Domains, atp_domain_t
<1>7. /\ Len(added[i].paramsArray) = p /\ added[i].paramsArray[p] = new
      /\ added[i].paramsArray \in Seq(Params)
      /\ \A j \in 1..p - 1 : added[i].paramsArray[j] = ps[j]
  <2> DEFINE s == old[i].paramsArray
  <2>1. s \in Seq(Params) /\ Len(s) = p - 1 /\ \A j \in 1..p - 1 : s[j] = ps[j]
    BY <1>2
  <2>2. (p - 1) + 1 = p
    BY <1>0
  <2> HIDE DEF s, ps
  <2>3. /\ Append(s, new) \in Seq(Params) /\ Len(Append(s, new)) = p
        /\ Append(s, new)[p] = new
        /\ \A j \in 1..p - 1 : Append(s, new)[j] = s[j]
    BY <1>4, <2>1, <2>2, AppendProperties
  <2> QED BY <1>6, <2>1, <2>3 DEF s
<1> DEFINE qs == [added[i].paramsArray EXCEPT ![p] = param]
<1>8. result = [added EXCEPT ![i] = [added[i] EXCEPT !.paramsArray = qs]]
  <2>1. result = [added EXCEPT ![i].paramsArray[p].valueArray = param.valueArray]
    BY <1>7 DEF ATP_param_add_values
  <2>2. [added[i].paramsArray[p] EXCEPT !.valueArray = param.valueArray] = param
    BY <1>4, <1>7
  <2> QED BY <2>1, <2>2
<1>9. qs = SubSeq(ps, 1, p) /\ qs \in Seq(Params)
  <2>1. qs \in Seq(Params) /\ Len(qs) = p /\ \A j \in 1..p : qs[j] = ps[j]
    <3>1. p \in 1..Len(added[i].paramsArray)
      BY <1>0, <1>7
    <3>2. /\ qs \in Seq(Params) /\ Len(qs) = Len(added[i].paramsArray)
          /\ \A j \in 1..Len(added[i].paramsArray) :
               qs[j] = IF j = p THEN param ELSE added[i].paramsArray[j]
      BY <1>3, <1>7, <3>1, ExceptSeq
    <3> QED BY <1>0, <1>7, <3>2
  <2>2. LET b == Beginning(ds[i], p, c)
        IN /\ b.paramsArray = SubSeq(ps, 1, p) /\ b.paramsArray \in Seq(Params)
           /\ Len(b.paramsArray) = p /\ \A j \in 1..p : b.paramsArray[j] = ps[j]
    <3>1. BeginsWith(Beginning(ds[i], p, c), ds[i], p, c)
      BY <1>0, BeginningBegins, Zenon
    <3> QED BY <3>1 DEF BeginsWith
  <2> HIDE DEF qs, ps
  <2> QED BY <2>1, <2>2, SeqEqual
<1> HIDE DEF qs, result
<1> DEFINE last == [added[i] EXCEPT !.paramsArray = qs]
<1>10. /\ last \in Domains /\ last.domName = ds[i].domName
       /\ last.paramsArray = qs
       /\ last.constraintsArray = SubSeq(ds[i].constraintsArray, 1, c)
  <2>1. added[i] \in Domains
    BY <1>0, <1>6
  <2> QED BY <1>6, <1>9, <2>1 DEF Domains, atp_domain_t
<1> HIDE DEF last
<1>11. /\ result \in [1..i -> Domains] /\ result[i] = last
       /\ \A h \in 1..i - 1 : result[h] = ds[h]
  <2>1. result = [added EXCEPT ![i] = last]
    BY <1>8 DEF last
  <2> QED BY <1>0, <1>6, <1>10, <2>1
<1>12. /\ result[i].domName = ds[i].domName
       /\ result[i].paramsArray = SubSeq(ps, 1, p)
       /\ result[i].constraintsArray = SubSeq(ds[i].constraintsArray, 1, c)
  BY <1>9, <1>10, <1>11
<1>13. result = Stored(ds, i, p, c)
  BY <1>0, <1>11, <1>12, StoredEqual, Zenon
<1> QED BY <1>13 DEF result, added, old

LEMMA ConstraintCommitted ==
  ASSUME NEW ds \in Descriptions, NEW i \in 1..Len(ds),
         NEW p \in 0..Len(ds[i].paramsArray), NEW c \in 1..Len(ds[i].constraintsArray)
  PROVE  LET constraint == ds[i].constraintsArray[c]
         IN ATP_constraint_new(constraint.constName, constraint.constExpr, i,
                               Stored(ds, i, p, c - 1))
              = Stored(ds, i, p, c)
<1> DEFINE constraint == ds[i].constraintsArray[c]
           cs == ds[i].constraintsArray
           old == Stored(ds, i, p, c - 1)
           new == [constName |-> constraint.constName, constExpr |-> constraint.constExpr]
           result == ATP_constraint_new(constraint.constName, constraint.constExpr, i, old)
<1>0. c \in Nat /\ c - 1 \in 0..Len(ds[i].constraintsArray) /\ i \in 1..i
      /\ c \in 0..Len(cs)
  BY DomainTypes, SourceTypes
<1>1. /\ old \in [1..i -> Domains] /\ old[i] = Beginning(ds[i], p, c - 1)
      /\ \A h \in 1..i - 1 : old[h] = ds[h]
  BY <1>0, StoredType
<1>2. /\ old[i] \in Domains /\ old[i].domName = ds[i].domName
      /\ old[i].constraintsArray \in Seq(Constraints)
      /\ Len(old[i].constraintsArray) = c - 1
      /\ \A j \in 1..c - 1 : old[i].constraintsArray[j] = cs[j]
      /\ old[i].paramsArray = SubSeq(ds[i].paramsArray, 1, p)
  <2> DEFINE b == Beginning(ds[i], p, c - 1)
  <2>1. /\ b \in Domains /\ b.domName = ds[i].domName
        /\ b.paramsArray = SubSeq(ds[i].paramsArray, 1, p)
        /\ b.constraintsArray \in Seq(Constraints) /\ Len(b.constraintsArray) = c - 1
        /\ \A j \in 1..c - 1 : b.constraintsArray[j] = cs[j]
    <3>1. BeginsWith(Beginning(ds[i], p, c - 1), ds[i], p, c - 1)
      BY <1>0, BeginningBegins, Zenon
    <3> QED BY <3>1 DEF BeginsWith
  <2> HIDE DEF old, b, cs
  <2>2. old[i] = b
    BY <1>1 DEF b
  <2> QED BY <2>1, <2>2
<1>3. new \in Constraints /\ new = cs[c]
  BY ConstraintTypes DEF Constraints, atp_constraint_t
<1>4. result = [old EXCEPT ![i] = [old[i] EXCEPT !.constraintsArray = Append(@, new)]]
  BY DEF ATP_constraint_new
<1> HIDE DEF old, new, result
<1> DEFINE es == Append(old[i].constraintsArray, new)
<1>5. es = SubSeq(cs, 1, c) /\ es \in Seq(Constraints)
  <2>1. es \in Seq(Constraints) /\ Len(es) = c /\ \A j \in 1..c : es[j] = cs[j]
    BY <1>0, <1>2, <1>3
  <2>2. LET b == Beginning(ds[i], p, c)
        IN /\ b.constraintsArray = SubSeq(cs, 1, c)
           /\ b.constraintsArray \in Seq(Constraints)
           /\ Len(b.constraintsArray) = c /\ \A j \in 1..c : b.constraintsArray[j] = cs[j]
    <3>1. BeginsWith(Beginning(ds[i], p, c), ds[i], p, c)
      BY <1>0, BeginningBegins, Zenon
    <3> QED BY <3>1 DEF BeginsWith
  <2> HIDE DEF es, cs
  <2> QED BY <2>1, <2>2, SeqEqual
<1>6. result = [old EXCEPT ![i] = [old[i] EXCEPT !.constraintsArray = es]]
  BY <1>4
<1> HIDE DEF es
<1> DEFINE last == [old[i] EXCEPT !.constraintsArray = es]
<1>7. /\ last \in Domains /\ last.domName = ds[i].domName
      /\ last.constraintsArray = es
      /\ last.paramsArray = SubSeq(ds[i].paramsArray, 1, p)
  BY <1>2, <1>5 DEF Domains, atp_domain_t
<1> HIDE DEF last
<1>8. /\ result \in [1..i -> Domains] /\ result[i] = last
      /\ \A h \in 1..i - 1 : result[h] = ds[h]
  <2>1. result = [old EXCEPT ![i] = last]
    BY <1>6 DEF last
  <2> QED BY <1>0, <1>1, <1>7, <2>1
<1>9. /\ result[i].domName = ds[i].domName
      /\ result[i].paramsArray = SubSeq(ds[i].paramsArray, 1, p)
      /\ result[i].constraintsArray = SubSeq(cs, 1, c)
  BY <1>5, <1>7, <1>8
<1>10. result = Stored(ds, i, p, c)
  BY <1>0, <1>8, <1>9, StoredEqual, Zenon
<1> QED BY <1>10 DEF result, old

LEMMA StoredWhole ==
  ASSUME NEW ds \in Descriptions, NEW i \in 1..Len(ds)
  PROVE  Stored(ds, i, Len(ds[i].paramsArray), Len(ds[i].constraintsArray))
           = SubSeq(ds, 1, i)
<1> DEFINE f == SubSeq(ds, 1, i)
           ps == ds[i].paramsArray
           cs == ds[i].constraintsArray
<1>0. Len(ds) \in Nat /\ i \in Nat \ {0} /\ ds \in Seq(Domains) /\ i \in 1..i
  BY SourceTypes
<1>1. f \in Seq(Domains) /\ Len(f) = i /\ \A h \in 1..i : f[h] = ds[h]
  <2>1. \A h \in 1..i : ds[h] \in Domains
    BY <1>0
  <2>2. 1 \in Int /\ i \in Int /\ (IF 1 <= i THEN i - 1 + 1 ELSE 0) = i
        /\ i - 1 + 1 = i /\ \A h \in 1..i : 1 + h - 1 = h
    BY <1>0
  <2> QED BY <2>1, <2>2, SubSeqProperties
<1>2. f \in [1..i -> Domains]
  <2> HIDE DEF f
  <2> QED BY <1>1, LenProperties
<1>3. ps = SubSeq(ps, 1, Len(ps)) /\ cs = SubSeq(cs, 1, Len(cs))
      /\ Len(ps) \in 0..Len(ps) /\ Len(cs) \in 0..Len(cs)
  BY DomainTypes, SubSeqFull
<1>4. f[i] = ds[i] /\ ds[i] \in Domains
  BY <1>0, <1>1, DomainTypes
<1> HIDE DEF f
<1>5. \A h \in 1..i - 1 : f[h] = ds[h]
  BY <1>0, <1>1
<1>6. f = Stored(ds, i, Len(ps), Len(cs))
  <2>1. f[i].domName = ds[i].domName /\ f[i].paramsArray = ps /\ f[i].constraintsArray = cs
    BY <1>4
  <2>2. /\ f[i].paramsArray = SubSeq(ps, 1, Len(ps))
        /\ f[i].constraintsArray = SubSeq(cs, 1, Len(cs))
    BY <1>3, <2>1, Zenon
  <2> QED BY <1>2, <1>3, <1>5, <2>1, <2>2, StoredEqual, Zenon
<1> QED BY <1>6 DEF f

LEMMA StoredNext ==
  ASSUME NEW ds \in Descriptions, NEW i \in 1..Len(ds), i + 1 <= Len(ds)
  PROVE  Append(SubSeq(ds, 1, i), NewDomain(ds[i + 1].domName)) = Stored(ds, i + 1, 0, 0)
<1> DEFINE old == SubSeq(ds, 1, i)
           d == ds[i + 1]
           new == NewDomain(d.domName)
           f == Append(old, new)
<1>0. Len(ds) \in Nat /\ i \in Nat \ {0} /\ i + 1 \in 1..Len(ds) /\ ds \in Seq(Domains)
  BY SourceTypes
<1>1. old \in Seq(Domains) /\ Len(old) = i /\ \A h \in 1..i : old[h] = ds[h]
  <2>1. \A h \in 1..i : ds[h] \in Domains
    BY <1>0
  <2>2. 1 \in Int /\ i \in Int /\ (IF 1 <= i THEN i - 1 + 1 ELSE 0) = i
        /\ i - 1 + 1 = i /\ \A h \in 1..i : 1 + h - 1 = h
    BY <1>0
  <2> QED BY <2>1, <2>2, SubSeqProperties
<1>2. /\ new \in Domains /\ new.domName = d.domName
      /\ new.paramsArray = <<>> /\ new.constraintsArray = <<>>
  <2>1. d.domName \in Names
    BY <1>0, DomainTypes
  <2> QED BY <2>1 DEF NewDomain, Domains, atp_domain_t
<1>3. SubSeq(d.paramsArray, 1, 0) = <<>> /\ SubSeq(d.constraintsArray, 1, 0) = <<>>
      /\ 0 \in 0..Len(d.paramsArray) /\ 0 \in 0..Len(d.constraintsArray)
  BY <1>0, DomainTypes, SubSeqEmpty
<1> HIDE DEF old, new
<1>4. f \in Seq(Domains) /\ Len(f) = i + 1 /\ f[i + 1] = new
      /\ \A h \in 1..i : f[h] = ds[h]
  BY <1>0, <1>1, <1>2
<1> HIDE DEF f
<1>5. f \in [1..i + 1 -> Domains]
  BY <1>4, LenProperties
<1>6. \A h \in 1..(i + 1) - 1 : f[h] = ds[h]
  BY <1>0, <1>4
<1>7. /\ f[i + 1].domName = d.domName
      /\ f[i + 1].paramsArray = SubSeq(d.paramsArray, 1, 0)
      /\ f[i + 1].constraintsArray = SubSeq(d.constraintsArray, 1, 0)
  BY <1>2, <1>3, <1>4
<1>8. f = Stored(ds, i + 1, 0, 0)
  BY <1>0, <1>3, <1>5, <1>6, <1>7, StoredEqual, Zenon
<1> QED BY <1>8 DEF f, old, new

LEMMA StoredFirst ==
  ASSUME NEW ds \in Descriptions
  PROVE  Stored(ds, 1, 0, 0) = <<NewDomain(ATP_DFLT_DOMAIN)>>
<1> DEFINE d == ds[1]
           new == NewDomain(ATP_DFLT_DOMAIN)
           f == <<new>>
<1>0. 1 \in 1..Len(ds) /\ d.domName = ATP_DFLT_DOMAIN
  BY SourceTypes
<1>1. /\ new \in Domains /\ new.domName = d.domName
      /\ new.paramsArray = <<>> /\ new.constraintsArray = <<>>
  <2>1. d.domName \in Names
    BY <1>0, DomainTypes
  <2> QED BY <1>0, <2>1 DEF NewDomain, Domains, atp_domain_t
<1>2. SubSeq(d.paramsArray, 1, 0) = <<>> /\ SubSeq(d.constraintsArray, 1, 0) = <<>>
      /\ 0 \in 0..Len(d.paramsArray) /\ 0 \in 0..Len(d.constraintsArray)
  BY <1>0, DomainTypes, SubSeqEmpty
<1> HIDE DEF new
<1>3. f \in [1..1 -> Domains] /\ f[1] = new
      /\ \A h \in 1..1 - 1 : f[h] = ds[h]
  BY <1>1
<1> HIDE DEF f
<1>4. /\ f[1].domName = d.domName
      /\ f[1].paramsArray = SubSeq(d.paramsArray, 1, 0)
      /\ f[1].constraintsArray = SubSeq(d.constraintsArray, 1, 0)
  BY <1>1, <1>2, <1>3
<1>5. f = Stored(ds, 1, 0, 0)
  BY <1>0, <1>2, <1>3, <1>4, StoredEqual, Zenon
<1> QED BY <1>5 DEF f, new

-----------------------------------------------------------------------------
(* What the RRL is to be told when that much has been moved.               *)

Declaration(d, j) ==
  <<d.paramsArray[j].paramName, d.paramsArray[j].defaultVal, d.domName>>

DeclaredBy(t, ds, i, p) ==
  \E h \in 1..i : \E j \in 1..Len(ds[h].paramsArray) :
    (h = i => j <= p) /\ t = Declaration(ds[h], j)

LEMMA DeclaredMember ==
  ASSUME NEW f, NEW t
  PROVE  t \in DeclaredIn(f) <=>
           \E h \in 1..Len(f) : \E j \in 1..Len(f[h].paramsArray) :
             t = Declaration(f[h], j)
BY DEF DeclaredIn, Declaration

LEMMA DeclaredStored ==
  ASSUME NEW ds \in Descriptions, NEW i \in 1..Len(ds),
         NEW p \in 0..Len(ds[i].paramsArray), NEW c \in 0..Len(ds[i].constraintsArray),
         NEW t
  PROVE  t \in DeclaredIn(Stored(ds, i, p, c)) <=> DeclaredBy(t, ds, i, p)
<1> DEFINE f == Stored(ds, i, p, c)
           b == Beginning(ds[i], p, c)
<1>0. i \in Nat \ {0} /\ Len(ds) \in Nat /\ p \in Nat
      /\ p <= Len(ds[i].paramsArray) /\ Len(ds[i].paramsArray) \in Nat
  BY SourceTypes, DomainTypes
<1>1. Len(f) = i /\ f[i] = b /\ \A h \in 1..i - 1 : f[h] = ds[h]
  BY StoredType
<1>2. /\ b.domName = ds[i].domName /\ Len(b.paramsArray) = p
      /\ \A j \in 1..p : b.paramsArray[j] = ds[i].paramsArray[j]
  BY BeginningFields
<1> HIDE DEF f, b
<1>3. \A j \in 1..p : Declaration(f[i], j) = Declaration(ds[i], j)
  BY <1>1, <1>2 DEF Declaration
<1>4. ASSUME t \in DeclaredIn(f) PROVE DeclaredBy(t, ds, i, p)
  <2>1. PICK h \in 1..i : \E j \in 1..Len(f[h].paramsArray) : t = Declaration(f[h], j)
    BY <1>1, <1>4, DeclaredMember
  <2>2. CASE h = i
    <3>1. PICK j \in 1..p : t = Declaration(ds[i], j)
      BY <1>1, <1>2, <1>3, <2>1, <2>2
    <3>2. j \in 1..Len(ds[i].paramsArray) /\ j <= p /\ i \in 1..i
      BY <1>0
    <3> QED BY <3>1, <3>2 DEF DeclaredBy
  <2>3. CASE h # i
    <3>1. h \in 1..i - 1
      BY <1>0, <2>3
    <3> QED BY <1>1, <2>1, <2>3, <3>1 DEF DeclaredBy
  <2> QED BY <2>2, <2>3
<1>5. ASSUME DeclaredBy(t, ds, i, p) PROVE t \in DeclaredIn(f)
  <2>0. PICK h \in 1..i : \E j \in 1..Len(ds[h].paramsArray) :
          (h = i => j <= p) /\ t = Declaration(ds[h], j)
    BY <1>5 DEF DeclaredBy
  <2>1. PICK j \in 1..Len(ds[h].paramsArray) :
          (h = i => j <= p) /\ t = Declaration(ds[h], j)
    BY <2>0
  <2>2. CASE h = i
    <3>1. j \in 1..p
      BY <1>0, <2>1, <2>2
    <3>2. j \in 1..Len(f[i].paramsArray) /\ t = Declaration(f[i], j)
      BY <1>1, <1>2, <1>3, <2>1, <2>2, <3>1
    <3> QED BY <1>1, <2>2, <3>2, DeclaredMember
  <2>3. CASE h # i
    <3>1. f[h] = ds[h]
      BY <1>0, <1>1, <2>3
    <3> QED BY <1>1, <2>1, <3>1, DeclaredMember
  <2> QED BY <2>2, <2>3
<1> QED BY <1>4, <1>5 DEF f

LEMMA DeclaredParam ==
  ASSUME NEW ds \in Descriptions, NEW i \in 1..Len(ds),
         NEW p \in 1..Len(ds[i].paramsArray), NEW c \in 0..Len(ds[i].constraintsArray)
  PROVE  DeclaredIn(Stored(ds, i, p, c)) =
           DeclaredIn(Stored(ds, i, p - 1, c)) \cup {Declaration(ds[i], p)}
<1>0. i \in Nat \ {0} /\ p \in 0..Len(ds[i].paramsArray)
      /\ p - 1 \in 0..Len(ds[i].paramsArray)
  BY SourceTypes, DomainTypes
<1> SUFFICES ASSUME NEW t
             PROVE  DeclaredBy(t, ds, i, p) <=>
                      DeclaredBy(t, ds, i, p - 1) \/ t = Declaration(ds[i], p)
  <2>1. \A t : t \in DeclaredIn(Stored(ds, i, p, c)) <=> DeclaredBy(t, ds, i, p)
    BY <1>0, DeclaredStored
  <2>2. \A t : t \in DeclaredIn(Stored(ds, i, p - 1, c)) <=> DeclaredBy(t, ds, i, p - 1)
    BY <1>0, DeclaredStored
  <2> QED BY <2>1, <2>2
<1>1. \A h \in 1..i : \A j \in 1..Len(ds[h].paramsArray) : j \in Int
  OBVIOUS
<1>2. \A j \in Int : j <= p <=> (j <= p - 1 \/ j = p)
  BY <1>0
<1>3. i \in 1..i /\ p \in 1..Len(ds[i].paramsArray) /\ p <= p
  BY <1>0
<1> QED BY <1>1, <1>2, <1>3 DEF DeclaredBy

\* The constraints do not matter.
LEMMA DeclaredConstraint ==
  ASSUME NEW ds \in Descriptions, NEW i \in 1..Len(ds),
         NEW p \in 0..Len(ds[i].paramsArray), NEW c \in 0..Len(ds[i].constraintsArray),
         NEW e \in 0..Len(ds[i].constraintsArray)
  PROVE  DeclaredIn(Stored(ds, i, p, c)) = DeclaredIn(Stored(ds, i, p, e))
<1>1. \A t : t \in DeclaredIn(Stored(ds, i, p, c)) <=> DeclaredBy(t, ds, i, p)
  BY DeclaredStored
<1>2. \A t : t \in DeclaredIn(Stored(ds, i, p, e)) <=> DeclaredBy(t, ds, i, p)
  BY DeclaredStored
<1> QED BY <1>1, <1>2

LEMMA DeclaredDomain ==
  ASSUME NEW ds \in Descriptions, NEW i \in 1..Len(ds), i + 1 <= Len(ds)
  PROVE  DeclaredIn(Stored(ds, i + 1, 0, 0)) =
           DeclaredIn(Stored(ds, i, Len(ds[i].paramsArray), Len(ds[i].constraintsArray)))
<1> DEFINE p == Len(ds[i].paramsArray)
<1>0. /\ i \in Nat \ {0} /\ i + 1 \in 1..Len(ds) /\ p \in 0..p
      /\ Len(ds[i].constraintsArray) \in 0..Len(ds[i].constraintsArray)
      /\ 0 \in 0..Len(ds[i + 1].paramsArray) /\ 0 \in 0..Len(ds[i + 1].constraintsArray)
  BY SourceTypes, DomainTypes
<1>1. \A t : t \in DeclaredIn(Stored(ds, i + 1, 0, 0)) <=> DeclaredBy(t, ds, i + 1, 0)
  BY <1>0, DeclaredStored
<1>2. \A t : t \in DeclaredIn(Stored(ds, i, p, Len(ds[i].constraintsArray)))
              <=> DeclaredBy(t, ds, i, p)
  BY <1>0, DeclaredStored
<1>3. ASSUME NEW t PROVE DeclaredBy(t, ds, i + 1, 0) <=> DeclaredBy(t, ds, i, p)
  <2>1. ASSUME DeclaredBy(t, ds, i + 1, 0) PROVE DeclaredBy(t, ds, i, p)
    <3>0. PICK h \in 1..i + 1 : \E j \in 1..Len(ds[h].paramsArray) :
            (h = i + 1 => j <= 0) /\ t = Declaration(ds[h], j)
      BY <2>1 DEF DeclaredBy
    <3>1. PICK j \in 1..Len(ds[h].paramsArray) :
            (h = i + 1 => j <= 0) /\ t = Declaration(ds[h], j)
      BY <3>0
    <3>2. h # i + 1
      BY <3>1
    <3>3. h \in 1..i
      BY <1>0, <3>2
    <3>4. h = i => j <= p
      OBVIOUS
    <3> QED BY <3>1, <3>3, <3>4 DEF DeclaredBy
  <2>2. ASSUME DeclaredBy(t, ds, i, p) PROVE DeclaredBy(t, ds, i + 1, 0)
    <3>1. PICK h \in 1..i :
            \E j \in 1..Len(ds[h].paramsArray) : t = Declaration(ds[h], j)
      BY <2>2 DEF DeclaredBy
    <3>2. h \in 1..i + 1 /\ h # i + 1
      BY <1>0
    <3> QED BY <3>1, <3>2 DEF DeclaredBy
  <2> QED BY <2>1, <2>2
<1> QED BY <1>1, <1>2, <1>3

LEMMA DeclaredFirst ==
  ASSUME NEW ds \in Descriptions
  PROVE  DeclaredIn(<<NewDomain(ATP_DFLT_DOMAIN)>>) = {}
<1>1. 1 \in 1..Len(ds) /\ 0 \in 0..Len(ds[1].paramsArray)
      /\ 0 \in 0..Len(ds[1].constraintsArray)
  BY SourceTypes, DomainTypes
<1>2. \A t : t \in DeclaredIn(Stored(ds, 1, 0, 0)) <=> DeclaredBy(t, ds, 1, 0)
  BY <1>1, DeclaredStored
<1>3. \A t : ~DeclaredBy(t, ds, 1, 0)
  BY DEF DeclaredBy
<1> QED BY <1>2, <1>3, StoredFirst

\* The value of a key of the parameter has been read.
Holds(key, param) ==
  CASE key = "range" -> buf.range = param.valueArray /\ buf.nvalues = Len(buf.range)
    [] key = "type" -> buf.type = param.paramType
    [] key = "default" -> buf.dflt = param.defaultVal

PendingParam(i, j) ==
  /\ buf.param_counter = j
  /\ j # 0 => /\ buf.pname = source[i].paramsArray[j].paramName
              /\ \A key \in FieldKeys : Holds(key, source[i].paramsArray[j])

PendingConstraint(i, j) ==
  /\ buf.constraint_counter = j
  /\ j # 0 => /\ buf.cname = source[i].constraintsArray[j].constName
              /\ buf.expr = source[i].constraintsArray[j].constExpr

\* The j-th parameter of the i-th domain is read: the first k - 1 keys were.
ReadingParam(order, i, j, k) ==
  /\ buf.in_param = 1 /\ buf.in_constraint = 0 /\ buf.in_exploration = 0
  /\ domains = Stored(source, i, j - 1, 0)
  /\ buf.param_counter = j
  /\ buf.pname = source[i].paramsArray[j].paramName
  /\ \A m \in 1..k - 1 : Holds(order[m], source[i].paramsArray[j])
  /\ PendingConstraint(i, 0)

\* The constraints of the i-th domain are read: all its parameters were, and
\* j of the constraints are stored.
ReadingConstraints(i, j) ==
  /\ buf.in_param = 0 /\ buf.in_constraint = 1 /\ buf.in_exploration = 0
  /\ buf.in_range = 0
  /\ domains = Stored(source, i, Before(NParams(i)), j)
  /\ PendingParam(i, NParams(i))

\* Everything of the i-th domain was read.
ReadDomain(i) ==
  /\ buf.in_range = 0
  /\ domains = Stored(source, i, Before(NParams(i)), Before(NConstraints(i)))
  /\ PendingParam(i, NParams(i)) /\ PendingConstraint(i, NConstraints(i))

-----------------------------------------------------------------------------
(* The places.                                                             *)

AtStart(order) ==
  /\ visits = AtDomain(source, order, 1)
  /\ buf \in UninitialisedBuf
  /\ domains = <<NewDomain(ATP_DFLT_DOMAIN)>>

AtParams(order, i) ==
  /\ visits = Cons(Key(2, "params"), AtParam(source, order, i, 1))
  /\ buf.in_range = 0
  /\ domains = Stored(source, i, 0, 0)
  /\ PendingParam(i, 0) /\ PendingConstraint(i, 0)

AtParamKey(order, i, j) ==
  /\ visits = AtParam(source, order, i, j)
  /\ buf.in_param = 1 /\ buf.in_constraint = 0 /\ buf.in_exploration = 0
  /\ buf.in_range = 0
  /\ domains = Stored(source, i, Before(j - 1), 0)
  /\ PendingParam(i, j - 1) /\ PendingConstraint(i, 0)

AtFieldKey(order, i, j, k) ==
  /\ visits = AtField(source, order, i, j, k)
  /\ ReadingParam(order, i, j, k)

AtFieldValue(order, i, j, k) ==
  /\ visits = AtValue(source, order, i, j, k)
  /\ ReadingParam(order, i, j, k)
  /\ buf.in_range = Flag(order[k] = "range")
  /\ buf.in_type = Flag(order[k] = "type")
  /\ buf.in_default = Flag(order[k] = "default")

AtRangeValue(order, i, j, k, c) ==
  LET vs == source[i].paramsArray[j].valueArray
  IN /\ visits = AtInteger(source, order, i, j, k, c)
     /\ order[k] = "range" /\ c \in 1..Len(vs)
     /\ ReadingParam(order, i, j, k)
     /\ buf.in_range = 1 /\ buf.in_type = 0 /\ buf.in_default = 0
     /\ buf.nvalues = Len(vs) /\ buf.cursor = c - 1
     /\ buf.range \in Seq(Int \cup {Uninit}) /\ Len(buf.range) = Len(vs)
     /\ \A h \in 1..c - 1 : buf.range[h] = vs[h]

AtConstraintKey(order, i, j) ==
  /\ visits = AtConstraint(source, order, i, j)
  /\ ReadingConstraints(i, Before(j - 1))
  /\ PendingConstraint(i, j - 1)

AtExprKey(order, i, j) ==
  /\ visits = Cons(Key(4, "expr"), AtExpr(source, order, i, j))
  /\ ReadingConstraints(i, j - 1)
  /\ buf.constraint_counter = j
  /\ buf.cname = source[i].constraintsArray[j].constName

AtExprValue(order, i, j) ==
  /\ visits = AtExpr(source, order, i, j)
  /\ ReadingConstraints(i, j - 1)
  /\ buf.constraint_counter = j
  /\ buf.cname = source[i].constraintsArray[j].constName

AtExplorationArray(order, i) ==
  /\ visits = Cons(Array(source[i].numExplorations), AtDomain(source, order, i + 1))
  /\ ReadDomain(i)

AtDomainKey(order, i) ==
  /\ visits = AtDomain(source, order, i + 1)
  /\ ReadDomain(i)

InDomain(order, i) ==
  /\ buf.in_domain = 1 /\ buf.current_domain = i /\ Len(domains) = i
  /\ \/ AtParams(order, i)
     \/ \E j \in 1..NParams(i) + 1 : AtParamKey(order, i, j)
     \/ \E j \in 1..NParams(i), k \in 1..3 :
          \/ AtFieldKey(order, i, j, k)
          \/ AtFieldValue(order, i, j, k)
          \/ \E c \in Nat : AtRangeValue(order, i, j, k, c)
     \/ \E j \in 1..NConstraints(i) + 1 : AtConstraintKey(order, i, j)
     \/ \E j \in 1..NConstraints(i) :
          AtExprKey(order, i, j) \/ AtExprValue(order, i, j)
     \/ AtExplorationArray(order, i)
     \/ AtDomainKey(order, i)

Walking ==
  \E order \in KeyOrders :
    AtStart(order) \/ \E i \in 1..Len(source) : InDomain(order, i)

BufferFields ==
  {"current_domain", "pname", "cname", "range", "nvalues", "nexplorations",
   "explorations", "cursor", "type", "dflt", "expr", "in_domain", "in_param",
   "in_range", "in_type", "in_default", "in_constraint", "in_exploration",
   "param_counter", "constraint_counter"}

BufferType ==
  /\ DOMAIN buf = BufferFields
  /\ buf.in_domain \in Garbage \cup {1}
  /\ \A f \in {buf.in_param, buf.in_range, buf.in_type, buf.in_default,
               buf.in_constraint, buf.in_exploration} : f \in {0, 1}
  /\ buf.cursor \in 0..Len(buf.range)

IInv ==
  /\ source \in Descriptions
  /\ status \in {"walking", "loaded", "crashed"}
  /\ BufferType
  /\ buf.current_domain \in 0..Len(domains)
  /\ Len(domains) <= Len(source)
  /\ RrlFollows
  /\ status = "walking" => Walking
  /\ status = "loaded" => domains = source
  /\ status = "crashed" => domains = <<NewDomain(ATP_DFLT_DOMAIN)>>

-----------------------------------------------------------------------------
(* The commits, and which action visits what.                              *)

LEMMA CommitParam ==
  ASSUME source \in Descriptions, NEW i \in 1..Len(source),
         NEW p \in 0..NParams(i), NEW c \in 0..NConstraints(i),
         domains = Stored(source, i, Before(p), c),
         PendingParam(i, p), buf.current_domain = i
  PROVE  /\ commit_param = Stored(source, i, p, c)
         /\ RrlFollows => commit_param_rrl = DeclaredIn(Stored(source, i, p, c))
<1>0. NParams(i) \in Nat /\ NParams(i) = Len(source[i].paramsArray)
      /\ NConstraints(i) = Len(source[i].constraintsArray)
  BY DomainTypes DEF NParams, NConstraints
<1>1. CASE p = 0
  BY <1>1 DEF PendingParam, Before, commit_param, commit_param_rrl, RrlFollows
<1>2. CASE p # 0
  <2> DEFINE param == source[i].paramsArray[p]
             old == Stored(source, i, p - 1, c)
  <2>1. p \in 1..Len(source[i].paramsArray) /\ c \in 0..Len(source[i].constraintsArray)
    BY <1>0, <1>2
  <2>2. domains = old
    BY <1>2 DEF Before
  <2>3. /\ buf.param_counter # 0 /\ buf.pname = param.paramName
        /\ buf.type = param.paramType /\ buf.dflt = param.defaultVal
        /\ buf.range = param.valueArray /\ buf.nvalues = Len(buf.range)
    BY <1>2 DEF PendingParam, Holds, FieldKeys
  <2>4. SubSeq(buf.range, 1, buf.nvalues) = param.valueArray
    <3>1. param.valueArray \in Seq(Int)
      BY <2>1, ParamTypes
    <3>2. SubSeq(param.valueArray, 1, Len(param.valueArray)) = param.valueArray
      BY <3>1, SubSeqFull
    <3> HIDE DEF param
    <3> QED BY <2>3, <3>2
  <2>5. commit_param =
          LET added == ATP_param_new(param.paramName, param.paramType,
                                     param.defaultVal, i, old)
          IN ATP_param_add_values(Len(added[i].paramsArray), i, param.valueArray, added)
    <3> HIDE DEF param, old
    <3> QED BY <2>2, <2>3, <2>4 DEF commit_param
  <2>6. commit_param = Stored(source, i, p, c)
    BY <2>1, <2>5, ParamCommitted
  <2>7. domains[i].domName = source[i].domName
    <3>1. p - 1 \in 0..Len(source[i].paramsArray)
      BY <2>1
    <3> QED BY <2>1, <2>2, <3>1, StoredType, BeginningFields
  <2>8. commit_param_rrl = rrl \cup {Declaration(source[i], p)}
    BY <2>3, <2>7 DEF commit_param_rrl, Declaration
  <2>9. RrlFollows => commit_param_rrl = DeclaredIn(Stored(source, i, p, c))
    <3>1. DeclaredIn(Stored(source, i, p, c)) =
            DeclaredIn(old) \cup {Declaration(source[i], p)}
      BY <2>1, DeclaredParam
    <3> HIDE DEF old
    <3> QED BY <2>2, <2>8, <3>1 DEF RrlFollows
  <2> QED BY <2>6, <2>9
<1> QED BY <1>1, <1>2

LEMMA CommitConstraint ==
  ASSUME source \in Descriptions, NEW i \in 1..Len(source),
         NEW p \in 0..NParams(i), NEW c \in 0..NConstraints(i),
         PendingConstraint(i, c), buf.current_domain = i
  PROVE  commit_constraint(Stored(source, i, p, Before(c))) = Stored(source, i, p, c)
<1>0. NConstraints(i) \in Nat /\ NParams(i) = Len(source[i].paramsArray)
      /\ NConstraints(i) = Len(source[i].constraintsArray)
  BY DomainTypes DEF NParams, NConstraints
<1>1. CASE c = 0
  BY <1>1 DEF PendingConstraint, Before, commit_constraint
<1>2. CASE c # 0
  <2> DEFINE constraint == source[i].constraintsArray[c]
             old == Stored(source, i, p, c - 1)
  <2>1. c \in 1..Len(source[i].constraintsArray) /\ p \in 0..Len(source[i].paramsArray)
    BY <1>0, <1>2
  <2>2. Stored(source, i, p, Before(c)) = old
    BY <1>2 DEF Before
  <2>3. /\ buf.constraint_counter # 0 /\ buf.cname = constraint.constName
        /\ buf.expr = constraint.constExpr
    BY <1>2 DEF PendingConstraint
  <2>4. commit_constraint(old) =
          ATP_constraint_new(constraint.constName, constraint.constExpr, i, old)
    <3> HIDE DEF constraint, old
    <3> QED BY <2>3 DEF commit_constraint
  <2> QED BY <2>1, <2>2, <2>4, ConstraintCommitted
<1> QED BY <1>1, <1>2

LEMMA StepAt ==
  ASSUME NEW x \in Visit, NEW rest \in Seq(Visit), visits = Cons(x, rest),
         status = "walking", Next
  PROVE  /\ Head(visits) = x /\ visits' = rest /\ source' = source
         /\ \/ x.visit = "key" /\ x.depth = 1 /\ (enter_domain \/ crash)
            \/ x.visit = "key" /\ x.depth = 2 /\ enter_section
            \/ x.visit = "key" /\ x.depth = 3 /\ (enter_param \/ enter_constraint)
            \/ x.visit = "key" /\ x.depth = 4 /\ enter_subsection
            \/ x.visit = "array" /\ process_array
            \/ x.visit = "integer" /\ process_integer
            \/ x.visit = "string" /\ process_string
            \/ x.visit = "end" /\ finish
<1>1. Head(visits) = x /\ Tail(visits) = rest
  BY ConsProperties
<1>2. ~Done
  BY DEF Done
<1>3. CASE enter_domain
  BY <1>1, <1>3 DEF enter_domain, VisitingKey, Visiting
<1>4. CASE crash
  BY <1>1, <1>4 DEF crash, VisitingKey, Visiting
<1>5. CASE enter_section
  BY <1>1, <1>5 DEF enter_section, VisitingKey, Visiting
<1>6. CASE enter_param
  BY <1>1, <1>6 DEF enter_param, VisitingKey, Visiting
<1>7. CASE enter_constraint
  BY <1>1, <1>7 DEF enter_constraint, VisitingKey, Visiting
<1>8. CASE enter_subsection
  BY <1>1, <1>8 DEF enter_subsection, VisitingKey, Visiting
<1>9. CASE process_array
  BY <1>1, <1>9 DEF process_array, Visiting
<1>10. CASE process_integer
  BY <1>1, <1>10 DEF process_integer, Visiting
<1>11. CASE process_string
  BY <1>1, <1>11 DEF process_string, Visiting
<1>12. CASE finish
  BY <1>1, <1>12 DEF finish, Visiting
<1> QED BY <1>2, <1>3, <1>4, <1>5, <1>6, <1>7, <1>8, <1>9, <1>10, <1>11, <1>12 DEF Next

-----------------------------------------------------------------------------
(* One step from each place.                                               *)

\* What holds at every place in the i-th domain.
Active(i) ==
  /\ source \in Descriptions /\ status = "walking" /\ BufferType /\ RrlFollows
  /\ buf.in_domain = 1 /\ buf.current_domain = i /\ Len(domains) = i

LEMMA Counts ==
  ASSUME source \in Descriptions, NEW i \in 1..Len(source)
  PROVE  /\ NParams(i) = Len(source[i].paramsArray) /\ NParams(i) \in Nat
         /\ NConstraints(i) = Len(source[i].constraintsArray) /\ NConstraints(i) \in Nat
         /\ Before(NParams(i)) \in 0..NParams(i)
         /\ Before(NConstraints(i)) \in 0..NConstraints(i)
BY DomainTypes DEF NParams, NConstraints, Before

LEMMA PendingKept ==
  ASSUME NEW i, NEW j, source' = source,
         buf'.param_counter = buf.param_counter, buf'.pname = buf.pname,
         buf'.range = buf.range, buf'.nvalues = buf.nvalues,
         buf'.type = buf.type, buf'.dflt = buf.dflt,
         PendingParam(i, j)
  PROVE  PendingParam(i, j)'
BY DEF PendingParam, Holds

\* What a change of the flags alone leaves.
FlagFields == {"in_param", "in_range", "in_type", "in_default", "in_constraint",
               "in_exploration"}

LEMMA SectionStep ==
  ASSUME BufferType, enter_section, NEW name, Head(visits).name = name
  PROVE  /\ \A f \in BufferFields \ {"in_param", "in_constraint", "in_exploration"} :
              buf'[f] = buf[f]
         /\ buf'.in_param = Flag(name = "params")
         /\ buf'.in_constraint = Flag(name = "constraints")
         /\ buf'.in_exploration = Flag(name = "explorations")
         /\ BufferType' /\ domains' = domains /\ rrl' = rrl /\ status' = status
<1>1. buf' = [buf EXCEPT !.in_param = Flag(name = "params"),
                         !.in_constraint = Flag(name = "constraints"),
                         !.in_exploration = Flag(name = "explorations")]
      /\ domains' = domains /\ rrl' = rrl /\ status' = status
  BY DEF enter_section
<1>2. DOMAIN buf = BufferFields
  BY DEF BufferType
<1>3. \A b : Flag(b) \in {0, 1}
  BY DEF Flag
<1>4. /\ \A f \in BufferFields \ {"in_param", "in_constraint", "in_exploration"} :
            buf'[f] = buf[f]
      /\ buf'.in_param = Flag(name = "params")
      /\ buf'.in_constraint = Flag(name = "constraints")
      /\ buf'.in_exploration = Flag(name = "explorations")
      /\ DOMAIN buf' = BufferFields
  BY <1>1, <1>2 DEF BufferFields
<1>5. BufferType'
  BY <1>3, <1>4 DEF BufferType, BufferFields
<1> QED BY <1>1, <1>4, <1>5

LEMMA SubsectionStep ==
  ASSUME BufferType, enter_subsection, NEW name, Head(visits).name = name
  PROVE  /\ \A f \in BufferFields \ {"in_range", "in_type", "in_default"} :
              buf'[f] = buf[f]
         /\ buf'.in_range = Flag(name = "range")
         /\ buf'.in_type = Flag(name = "type")
         /\ buf'.in_default = Flag(name = "default")
         /\ BufferType' /\ domains' = domains /\ rrl' = rrl /\ status' = status
<1>1. buf' = [buf EXCEPT !.in_range = Flag(name = "range"),
                         !.in_type = Flag(name = "type"),
                         !.in_default = Flag(name = "default")]
      /\ domains' = domains /\ rrl' = rrl /\ status' = status
  BY DEF enter_subsection
<1>2. DOMAIN buf = BufferFields
  BY DEF BufferType
<1>3. \A b : Flag(b) \in {0, 1}
  BY DEF Flag
<1>4. /\ \A f \in BufferFields \ {"in_range", "in_type", "in_default"} : buf'[f] = buf[f]
      /\ buf'.in_range = Flag(name = "range")
      /\ buf'.in_type = Flag(name = "type")
      /\ buf'.in_default = Flag(name = "default")
      /\ DOMAIN buf' = BufferFields
  BY <1>1, <1>2 DEF BufferFields
<1>5. BufferType'
  BY <1>3, <1>4 DEF BufferType, BufferFields
<1> QED BY <1>1, <1>4, <1>5

LEMMA PendingStays ==
  ASSUME NEW i, source' = source,
         buf'.param_counter = buf.param_counter, buf'.pname = buf.pname,
         buf'.range = buf.range, buf'.nvalues = buf.nvalues,
         buf'.type = buf.type, buf'.dflt = buf.dflt,
         PendingParam(i, NParams(i))
  PROVE  NParams(i)' = NParams(i) /\ PendingParam(i, NParams(i))'
<1>1. PICK n : n = NParams(i) /\ NParams(i)' = n
  BY DEF NParams
<1>2. PendingParam(i, n)
  BY <1>1
<1>3. PendingParam(i, n)'
  BY <1>2, PendingKept
<1> QED BY <1>1, <1>3 DEF PendingParam

LEMMA ReadDomainStays ==
  ASSUME NEW i, source' = source, domains' = domains,
         buf'.in_range = buf.in_range,
         buf'.constraint_counter = buf.constraint_counter,
         buf'.cname = buf.cname, buf'.expr = buf.expr,
         buf'.param_counter = buf.param_counter, buf'.pname = buf.pname,
         buf'.range = buf.range, buf'.nvalues = buf.nvalues,
         buf'.type = buf.type, buf'.dflt = buf.dflt,
         ReadDomain(i)
  PROVE  ReadDomain(i)'
<1>1. NParams(i)' = NParams(i) /\ PendingParam(i, NParams(i))'
  BY PendingStays DEF ReadDomain
<1>2. NConstraints(i)' = NConstraints(i)
  BY DEF NConstraints
<1>3. PendingConstraint(i, NConstraints(i))'
  BY <1>2 DEF ReadDomain, PendingConstraint
<1> QED BY <1>1, <1>2, <1>3 DEF ReadDomain

LEMMA FromParams ==
  ASSUME NEW order \in KeyOrders, NEW i \in 1..Len(source),
         Active(i), AtParams(order, i), Next
  PROVE  source' = source /\ Active(i)' /\ AtParamKey(order, i, 1)'
<1> DEFINE x == Key(2, "params")
           rest == AtParam(source, order, i, 1)
<1>0. source \in Descriptions /\ BufferType /\ status = "walking"
  BY DEF Active
<1>1. x \in Visit /\ rest \in Seq(Visit) /\ visits = Cons(x, rest)
  BY <1>0, AtParamType, VisitTypes DEF AtParams, Keywords
<1>2. x.visit = "key" /\ x.depth = 2 /\ x.name = "params"
  BY DEF Key
<1> HIDE DEF x, rest
<1>3. Head(visits) = x /\ visits' = rest /\ source' = source /\ enter_section
  BY <1>0, <1>1, <1>2, StepAt
<1>4. /\ \A f \in BufferFields \ {"in_param", "in_constraint", "in_exploration"} :
            buf'[f] = buf[f]
      /\ buf'.in_param = Flag("params" = "params")
      /\ buf'.in_constraint = Flag("params" = "constraints")
      /\ buf'.in_exploration = Flag("params" = "explorations")
      /\ BufferType' /\ domains' = domains /\ rrl' = rrl /\ status' = status
  BY <1>0, <1>2, <1>3, SectionStep
<1>5. buf'.in_param = 1 /\ buf'.in_constraint = 0 /\ buf'.in_exploration = 0
  BY <1>4 DEF Flag
<1>6. /\ buf'.in_domain = buf.in_domain /\ buf'.current_domain = buf.current_domain
      /\ buf'.in_range = buf.in_range /\ buf'.param_counter = buf.param_counter
      /\ buf'.constraint_counter = buf.constraint_counter
  BY <1>4 DEF BufferFields
<1>7. Active(i)'
  BY <1>3, <1>4, <1>6 DEF Active, RrlFollows
<1>8. AtParamKey(order, i, 1)'
  BY <1>3, <1>4, <1>5, <1>6 DEF AtParams, AtParamKey, rest, PendingParam,
     PendingConstraint, Before
<1> QED BY <1>3, <1>7, <1>8

LEMMA FromParamKey ==
  ASSUME NEW order \in KeyOrders, NEW i \in 1..Len(source), NEW j \in 1..NParams(i),
         Active(i), AtParamKey(order, i, j), Next
  PROVE  source' = source /\ Active(i)' /\ AtFieldKey(order, i, j, 1)'
<1> DEFINE name == source[i].paramsArray[j].paramName
           x == Key(3, name)
           rest == AtField(source, order, i, j, 1)
<1>0. /\ source \in Descriptions /\ BufferType /\ status = "walking" /\ RrlFollows
      /\ buf.current_domain = i /\ buf.in_domain = 1 /\ Len(domains) = i
  BY DEF Active
<1>1. j \in 1..Len(source[i].paramsArray) /\ j - 1 \in 0..NParams(i)
      /\ 0 \in 0..NConstraints(i)
  BY <1>0, Counts
<1>2. x \in Visit /\ rest \in Seq(Visit) /\ visits = Cons(x, rest)
  <2>1. x \in Visit
    BY <1>0, <1>1, ParamTypes, VisitTypes
  <2>2. rest \in Seq(Visit)
    BY <1>0, <1>1, AtFieldType
  <2>3. visits = Cons(x, rest)
    BY <1>0, <1>1, ParamFirst DEF AtParamKey
  <2> QED BY <2>1, <2>2, <2>3
<1>3. x.visit = "key" /\ x.depth = 3 /\ x.name = name
  BY DEF Key
<1> HIDE DEF x, rest, name
<1>4. buf.in_constraint = 0
  BY DEF AtParamKey
<1>5. Head(visits) = x /\ visits' = rest /\ source' = source /\ enter_param
  BY <1>0, <1>2, <1>3, <1>4, StepAt DEF enter_constraint
<1>6. /\ domains' = commit_param /\ rrl' = commit_param_rrl /\ status' = status
      /\ buf' = [buf EXCEPT !.param_counter = @ + 1, !.pname = name]
  BY <1>3, <1>5 DEF enter_param
<1>7. /\ \A f \in BufferFields \ {"param_counter", "pname"} : buf'[f] = buf[f]
      /\ buf'.param_counter = buf.param_counter + 1 /\ buf'.pname = name
      /\ DOMAIN buf' = BufferFields
  BY <1>0, <1>6 DEF BufferType, BufferFields
<1>8. BufferType'
  BY <1>0, <1>7 DEF BufferType, BufferFields
<1>9. domains' = Stored(source, i, j - 1, 0) /\ rrl' = DeclaredIn(domains')
  BY <1>0, <1>1, <1>6, CommitParam DEF AtParamKey
<1>10. Len(domains') = i
  <2>1. j - 1 \in 0..Len(source[i].paramsArray) /\ 0 \in 0..Len(source[i].constraintsArray)
    BY <1>1 DEF NParams, NConstraints
  <2> QED BY <1>0, <1>9, <2>1, StoredType
<1>11. /\ buf'.in_domain = buf.in_domain /\ buf'.current_domain = buf.current_domain
       /\ buf'.in_param = 1 /\ buf'.in_constraint = 0 /\ buf'.in_exploration = 0
       /\ buf'.constraint_counter = buf.constraint_counter
  BY <1>7 DEF BufferFields, AtParamKey
<1>12. buf'.param_counter = j
  BY <1>7, <1>1 DEF AtParamKey, PendingParam
<1>13. Active(i)'
  BY <1>0, <1>5, <1>6, <1>8, <1>9, <1>10, <1>11 DEF Active, RrlFollows
<1>14. ReadingParam(order, i, j, 1)'
  BY <1>5, <1>7, <1>9, <1>11, <1>12 DEF ReadingParam, AtParamKey, PendingConstraint, name
<1> QED BY <1>5, <1>13, <1>14 DEF AtFieldKey, rest

LEMMA ToConstraints ==
  ASSUME NEW order \in KeyOrders, NEW i \in 1..Len(source),
         Active(i), AtParamKey(order, i, NParams(i) + 1), Next
  PROVE  source' = source /\ Active(i)' /\ AtConstraintKey(order, i, 1)'
<1> DEFINE x == Key(2, "constraints")
           rest == AtConstraint(source, order, i, 1)
<1>0. source \in Descriptions /\ BufferType /\ status = "walking"
  BY DEF Active
<1>1. x \in Visit /\ rest \in Seq(Visit) /\ visits = Cons(x, rest)
  <2>1. x \in Visit
    BY VisitTypes DEF Keywords
  <2>2. rest \in Seq(Visit)
    BY <1>0, AtConstraintType
  <2>3. visits = Cons(x, rest)
    BY <1>0, ParamEnd DEF AtParamKey, NParams
  <2> QED BY <2>1, <2>2, <2>3
<1>2. x.visit = "key" /\ x.depth = 2 /\ x.name = "constraints"
  BY DEF Key
<1> HIDE DEF x, rest
<1>3. Head(visits) = x /\ visits' = rest /\ source' = source /\ enter_section
  BY <1>0, <1>1, <1>2, StepAt
<1>4. /\ \A f \in BufferFields \ {"in_param", "in_constraint", "in_exploration"} :
            buf'[f] = buf[f]
      /\ buf'.in_param = Flag("constraints" = "params")
      /\ buf'.in_constraint = Flag("constraints" = "constraints")
      /\ buf'.in_exploration = Flag("constraints" = "explorations")
      /\ BufferType' /\ domains' = domains /\ rrl' = rrl /\ status' = status
  BY <1>0, <1>2, <1>3, SectionStep
<1>5. buf'.in_param = 0 /\ buf'.in_constraint = 1 /\ buf'.in_exploration = 0
  BY <1>4 DEF Flag
<1>6. /\ buf'.in_domain = buf.in_domain /\ buf'.current_domain = buf.current_domain
      /\ buf'.in_range = buf.in_range /\ buf'.param_counter = buf.param_counter
      /\ buf'.constraint_counter = buf.constraint_counter
      /\ buf'.pname = buf.pname /\ buf'.range = buf.range /\ buf'.nvalues = buf.nvalues
      /\ buf'.type = buf.type /\ buf'.dflt = buf.dflt
  BY <1>4 DEF BufferFields
<1>7. Active(i)'
  BY <1>3, <1>4, <1>6 DEF Active, RrlFollows
<1>8. (NParams(i) + 1) - 1 = NParams(i) /\ NParams(i)' = NParams(i)
  BY <1>0, <1>3, Counts DEF NParams
<1>9. PendingParam(i, NParams(i)) /\ PendingConstraint(i, 0) /\ buf.in_range = 0
      /\ domains = Stored(source, i, Before(NParams(i)), 0)
  BY <1>8 DEF AtParamKey
<1>10. PendingParam(i, NParams(i))'
  BY <1>3, <1>6, <1>9, PendingStays
<1>11. AtConstraintKey(order, i, 1)'
  BY <1>3, <1>4, <1>5, <1>6, <1>8, <1>9, <1>10 DEF AtConstraintKey, ReadingConstraints,
     PendingConstraint, Before, rest
<1> QED BY <1>3, <1>7, <1>11

LEMMA FromFieldKey ==
  ASSUME NEW order \in KeyOrders, NEW i \in 1..Len(source), NEW j \in 1..NParams(i),
         NEW k \in 1..3, Active(i), AtFieldKey(order, i, j, k), Next
  PROVE  source' = source /\ Active(i)' /\ AtFieldValue(order, i, j, k)'
<1> DEFINE key == order[k]
           x == Key(4, key)
           rest == AtValue(source, order, i, j, k)
<1>0. source \in Descriptions /\ BufferType /\ status = "walking"
  BY DEF Active
<1>1. x \in Visit /\ rest \in Seq(Visit) /\ visits = Cons(x, rest)
  <2>0. j \in 1..Len(source[i].paramsArray)
    BY DEF NParams
  <2>1. x \in Visit
    BY OrderTypes, VisitTypes DEF Keywords
  <2>2. rest \in Seq(Visit)
    BY <1>0, <2>0, AtValueType
  <2>3. visits = Cons(x, rest)
    BY <1>0, <2>0, FieldFirst DEF AtFieldKey
  <2> QED BY <2>1, <2>2, <2>3
<1>2. x.visit = "key" /\ x.depth = 4 /\ x.name = key
  BY DEF Key
<1> HIDE DEF x, rest, key
<1>3. Head(visits) = x /\ visits' = rest /\ source' = source /\ enter_subsection
  BY <1>0, <1>1, <1>2, StepAt
<1>4. /\ \A f \in BufferFields \ {"in_range", "in_type", "in_default"} : buf'[f] = buf[f]
      /\ buf'.in_range = Flag(key = "range")
      /\ buf'.in_type = Flag(key = "type")
      /\ buf'.in_default = Flag(key = "default")
      /\ BufferType' /\ domains' = domains /\ rrl' = rrl /\ status' = status
  BY <1>0, <1>2, <1>3, SubsectionStep
<1>5. /\ buf'.in_domain = buf.in_domain /\ buf'.current_domain = buf.current_domain
      /\ buf'.in_param = buf.in_param /\ buf'.in_constraint = buf.in_constraint
      /\ buf'.in_exploration = buf.in_exploration
      /\ buf'.param_counter = buf.param_counter
      /\ buf'.constraint_counter = buf.constraint_counter
      /\ buf'.pname = buf.pname /\ buf'.range = buf.range /\ buf'.nvalues = buf.nvalues
      /\ buf'.type = buf.type /\ buf'.dflt = buf.dflt
  BY <1>4 DEF BufferFields
<1>6. Active(i)'
  BY <1>3, <1>4, <1>5 DEF Active, RrlFollows
<1>7. ReadingParam(order, i, j, k)'
  <2>1. ReadingParam(order, i, j, k)
    BY DEF AtFieldKey
  <2>2. (\A m \in 1..k - 1 : Holds(order[m], source[i].paramsArray[j]))'
    BY <1>3, <1>5, <2>1 DEF ReadingParam, Holds
  <2>3. PendingConstraint(i, 0)'
    BY <1>5, <2>1 DEF ReadingParam, PendingConstraint
  <2> QED BY <1>3, <1>4, <1>5, <2>1, <2>2, <2>3 DEF ReadingParam
<1> QED BY <1>3, <1>4, <1>6, <1>7 DEF AtFieldValue, rest, key

\* After the value of the last key comes the next entry.
LEMMA FieldDone ==
  ASSUME NEW order \in KeyOrders, NEW i \in 1..Len(source), NEW j \in 1..NParams(i),
         NEW k \in 1..3, source \in Descriptions, source' = source,
         visits' = AtField(source, order, i, j, k + 1),
         ReadingParam(order, i, j, k + 1)', buf'.in_range = Flag(order[k] = "range")
  PROVE  /\ k # 3 => k + 1 \in 1..3 /\ AtFieldKey(order, i, j, k + 1)'
         /\ k = 3 => AtParamKey(order, i, j + 1)'
<1>1. CASE k # 3
  BY <1>1 DEF AtFieldKey
<1>2. CASE k = 3
  <2>1. visits' = AtParam(source', order, i, j + 1)
    <3>1. j \in 1..Len(source[i].paramsArray) /\ k + 1 = 4
      BY <1>2 DEF NParams
    <3> QED BY <3>1, FieldEnd
  <2>2. buf'.in_range = 0
    BY <1>2, OrderTypes DEF Flag
  <2>3. (j + 1) - 1 = j /\ j # 0 /\ Before(j) = j - 1
    BY Counts DEF Before
  <2>4. /\ buf'.in_param = 1 /\ buf'.in_constraint = 0 /\ buf'.in_exploration = 0
        /\ domains' = Stored(source', i, j - 1, 0)
        /\ buf'.param_counter = j
        /\ buf'.pname = source'[i].paramsArray[j].paramName
        /\ \A m \in 1..3 : Holds(order[m], source[i].paramsArray[j])'
        /\ PendingConstraint(i, 0)'
    BY <1>2 DEF ReadingParam
  <2>5. \A key \in FieldKeys : Holds(key, source[i].paramsArray[j])'
    BY <2>4, OrderTypes
  <2>6. PendingParam(i, j)'
    BY <2>4, <2>5 DEF PendingParam
  <2> QED BY <1>2, <2>1, <2>2, <2>3, <2>4, <2>6 DEF AtParamKey
<1> QED BY <1>1, <1>2

LEMMA FromRangeArray ==
  ASSUME NEW order \in KeyOrders, NEW i \in 1..Len(source), NEW j \in 1..NParams(i),
         NEW k \in 1..3, order[k] = "range",
         Active(i), AtFieldValue(order, i, j, k), Next
  PROVE  /\ source' = source /\ Active(i)'
         /\ \/ AtRangeValue(order, i, j, k, 1)'
            \/ k + 1 \in 1..3 /\ AtFieldKey(order, i, j, k + 1)'
<1>0. source \in Descriptions /\ BufferType /\ status = "walking"
  BY DEF Active
<1>p. j \in 1..Len(source[i].paramsArray)
  BY DEF NParams
<1>v. PICK vs \in Seq(Int) : vs = source[i].paramsArray[j].valueArray
  BY <1>0, <1>p, ParamTypes
<1> DEFINE x == Array(Len(vs))
           rest == AtInteger(source, order, i, j, k, 1)
           fresh == [h \in 1..Len(vs) |-> Uninit]
<1>n. Len(vs) \in Nat
  OBVIOUS
<1>1. x \in Visit /\ rest \in Seq(Visit) /\ visits = Cons(x, rest)
  <2>1. x \in Visit
    BY VisitTypes
  <2>2. rest \in Seq(Visit)
    <3>1. k \in Nat \ {0} /\ 1 \in Nat \ {0}
      OBVIOUS
    <3> QED BY <1>0, <1>p, <3>1, AtIntegerType
  <2>3. visits = Cons(x, rest)
    BY <1>v DEF AtFieldValue, AtValue
  <2> QED BY <2>1, <2>2, <2>3
<1>2. x.visit = "array" /\ x.length = Len(vs)
  BY DEF Array
<1> HIDE DEF x, rest
<1>3. Head(visits) = x /\ visits' = rest /\ source' = source /\ process_array
  BY <1>0, <1>1, <1>2, StepAt
<1>4. buf.in_range = 1 /\ buf.in_exploration = 0 /\ buf.in_type = 0 /\ buf.in_default = 0
  BY DEF AtFieldValue, ReadingParam, Flag
<1>5. /\ buf' = [buf EXCEPT !.nvalues = Len(vs), !.range = fresh, !.cursor = 0]
      /\ domains' = domains /\ rrl' = rrl /\ status' = status
  <2>1. /\ buf' = [buf EXCEPT !.nvalues = Head(visits).length,
                              !.range = [h \in 1..Head(visits).length |-> Uninit],
                              !.cursor = 0]
        /\ domains' = domains /\ rrl' = rrl /\ status' = status
    BY <1>3, <1>4 DEF process_array
  <2>2. Head(visits).length = Len(vs)
    BY <1>2, <1>3
  <2> QED BY <2>1, <2>2
<1>6. fresh \in Seq(Int \cup {Uninit}) /\ Len(fresh) = Len(vs)
  <2>1. fresh \in [1..Len(vs) -> Int \cup {Uninit}]
    OBVIOUS
  <2> HIDE DEF fresh
  <2> QED BY <1>n, <2>1, FunctionIsSeq
<1> HIDE DEF fresh
<1>7. /\ \A f \in BufferFields \ {"nvalues", "range", "cursor"} : buf'[f] = buf[f]
      /\ buf'.nvalues = Len(vs) /\ buf'.range = fresh /\ buf'.cursor = 0
      /\ DOMAIN buf' = BufferFields
  BY <1>0, <1>5 DEF BufferType, BufferFields
<1>8. /\ buf'.in_domain = buf.in_domain /\ buf'.current_domain = buf.current_domain
      /\ buf'.in_param = buf.in_param /\ buf'.in_constraint = buf.in_constraint
      /\ buf'.in_exploration = buf.in_exploration
      /\ buf'.in_range = buf.in_range /\ buf'.in_type = buf.in_type
      /\ buf'.in_default = buf.in_default
      /\ buf'.param_counter = buf.param_counter
      /\ buf'.constraint_counter = buf.constraint_counter
      /\ buf'.pname = buf.pname /\ buf'.type = buf.type /\ buf'.dflt = buf.dflt
  BY <1>7 DEF BufferFields
<1>9. BufferType'
  <2>1. buf'.cursor \in 0..Len(buf'.range)
    BY <1>n, <1>6, <1>7
  <2> QED BY <1>0, <1>7, <1>8, <2>1 DEF BufferType
<1>10. Active(i)'
  BY <1>3, <1>5, <1>8, <1>9 DEF Active, RrlFollows
\* The keys read before are others.
<1>11. \A m \in 1..k - 1 : order[m] # "range" /\ order[m] \in FieldKeys
  BY OrderTypes
<1>12. ReadingParam(order, i, j, k)'
  BY <1>3, <1>5, <1>8, <1>11 DEF AtFieldValue, ReadingParam, Holds, PendingConstraint,
     FieldKeys
<1>13. CASE Len(vs) = 0
  <2>1. buf'.range = vs /\ buf'.nvalues = Len(buf'.range)
    BY <1>6, <1>7, <1>13, EmptySeq
  <2>2. Holds("range", source[i].paramsArray[j])'
    BY <1>3, <1>v, <2>1 DEF Holds
  <2>3. ReadingParam(order, i, j, k + 1)'
    BY <1>3, <1>12, <2>2 DEF ReadingParam
  <2>4. visits' = AtField(source, order, i, j, k + 1)
    <3>1. AtInteger(source, order, i, j, k, Len(vs) + 1) = AtField(source, order, i, j, k + 1)
      BY <1>0, <1>p, <1>v, IntegerEnd
    <3> QED BY <1>3, <1>13, <3>1 DEF rest
  <2>5. buf'.in_range = Flag(order[k] = "range") /\ k # 3
    BY <1>4, <1>8, OrderTypes DEF Flag
  <2> QED BY <1>0, <1>3, <1>10, <2>3, <2>4, <2>5, FieldDone
<1>14. CASE Len(vs) # 0
  <2>1. 1 \in 1..Len(vs)
    BY <1>n, <1>14
  <2>2. AtRangeValue(order, i, j, k, 1)'
    BY <1>3, <1>4, <1>6, <1>7, <1>8, <1>12, <1>v, <2>1 DEF AtRangeValue, rest
  <2> QED BY <1>3, <1>10, <2>2
<1> QED BY <1>13, <1>14

LEMMA FromFieldInteger ==
  ASSUME NEW order \in KeyOrders, NEW i \in 1..Len(source), NEW j \in 1..NParams(i),
         NEW k \in 1..3, order[k] # "range",
         Active(i), AtFieldValue(order, i, j, k), Next
  PROVE  /\ source' = source /\ Active(i)'
         /\ \/ k + 1 \in 1..3 /\ AtFieldKey(order, i, j, k + 1)'
            \/ AtParamKey(order, i, j + 1)'
<1>0. source \in Descriptions /\ BufferType /\ status = "walking"
  BY DEF Active
<1>p. j \in 1..Len(source[i].paramsArray)
  BY DEF NParams
<1>k. order[k] = "type" \/ order[k] = "default"
  BY OrderTypes DEF FieldKeys
<1> DEFINE param == source[i].paramsArray[j]
           rest == AtField(source, order, i, j, k + 1)
<1>v. PICK v \in Int : v = IF order[k] = "type" THEN param.paramType ELSE param.defaultVal
  BY <1>0, <1>p, ParamTypes
<1> DEFINE x == Integer(v)
<1>1. x \in Visit /\ rest \in Seq(Visit) /\ visits = Cons(x, rest)
  <2>1. x \in Visit
    BY VisitTypes
  <2>2. rest \in Seq(Visit)
    <3>1. k + 1 \in Nat \ {0}
      OBVIOUS
    <3> QED BY <1>0, <1>p, <3>1, AtFieldType
  <2>3. visits = Cons(x, rest)
    BY <1>k, <1>v DEF AtFieldValue, AtValue
  <2> QED BY <2>1, <2>2, <2>3
<1>2. x.visit = "integer" /\ x.value = v
  BY DEF Integer
<1> HIDE DEF x, rest
<1>3. Head(visits) = x /\ visits' = rest /\ source' = source /\ process_integer
  BY <1>0, <1>1, <1>2, StepAt
<1>4. buf.in_range = 0 /\ buf.in_type = Flag(order[k] = "type")
      /\ buf.in_default = Flag(order[k] = "default")
  BY DEF AtFieldValue, ReadingParam, Flag
<1>5. /\ buf' = [buf EXCEPT !.range = @, !.cursor = @,
                            !.type = IF order[k] = "type" THEN v ELSE @,
                            !.dflt = IF order[k] = "default" THEN v ELSE @]
      /\ domains' = domains /\ rrl' = rrl /\ status' = status
  <2>1. /\ buf' = [buf EXCEPT !.range = @, !.cursor = @,
                              !.type = IF buf.in_type = 1 THEN Head(visits).value ELSE @,
                              !.dflt = IF buf.in_default = 1 THEN Head(visits).value ELSE @]
        /\ domains' = domains /\ rrl' = rrl /\ status' = status
    <3>1. buf.in_range # 1
      BY <1>4
    <3> QED BY <1>3, <3>1 DEF process_integer
  <2>2. Head(visits).value = v
    BY <1>2, <1>3
  <2>3. CASE order[k] = "type"
    <3>1. buf.in_type = 1 /\ buf.in_default # 1 /\ order[k] # "default"
      BY <1>4, <2>3 DEF Flag
    <3> QED BY <2>1, <2>2, <2>3, <3>1
  <2>4. CASE order[k] = "default"
    <3>1. buf.in_type # 1 /\ buf.in_default = 1 /\ order[k] # "type"
      BY <1>4, <2>4 DEF Flag
    <3> QED BY <2>1, <2>2, <2>4, <3>1
  <2> QED BY <1>k, <2>3, <2>4
<1>6. /\ \A f \in BufferFields \ {"type", "dflt"} : buf'[f] = buf[f]
      /\ buf'.type = (IF order[k] = "type" THEN v ELSE buf.type)
      /\ buf'.dflt = (IF order[k] = "default" THEN v ELSE buf.dflt)
      /\ DOMAIN buf' = BufferFields
  BY <1>0, <1>5 DEF BufferType, BufferFields
<1>7. /\ buf'.in_domain = buf.in_domain /\ buf'.current_domain = buf.current_domain
      /\ buf'.in_param = buf.in_param /\ buf'.in_constraint = buf.in_constraint
      /\ buf'.in_exploration = buf.in_exploration
      /\ buf'.in_range = buf.in_range /\ buf'.in_type = buf.in_type
      /\ buf'.in_default = buf.in_default
      /\ buf'.param_counter = buf.param_counter
      /\ buf'.constraint_counter = buf.constraint_counter
      /\ buf'.pname = buf.pname /\ buf'.range = buf.range
      /\ buf'.nvalues = buf.nvalues /\ buf'.cursor = buf.cursor
  BY <1>6 DEF BufferFields
<1>8. BufferType'
  BY <1>0, <1>6, <1>7 DEF BufferType
<1>9. Active(i)'
  BY <1>3, <1>5, <1>7, <1>8 DEF Active, RrlFollows
\* The keys read before are others.
<1>10. \A m \in 1..k - 1 : order[m] # order[k] /\ order[m] \in FieldKeys
  BY OrderTypes
<1>11. \A m \in 1..k - 1 : Holds(order[m], source[i].paramsArray[j])'
  <2> SUFFICES ASSUME NEW m \in 1..k - 1
               PROVE  Holds(order[m], source[i].paramsArray[j])'
    OBVIOUS
  <2>1. Holds(order[m], source[i].paramsArray[j])
    BY DEF AtFieldValue, ReadingParam
  <2>2. order[m] # order[k] /\ order[m] \in {"range", "type", "default"}
    BY <1>10 DEF FieldKeys
  <2> QED BY <1>3, <1>6, <1>7, <2>1, <2>2 DEF Holds
<1>12. Holds(order[k], source[i].paramsArray[j])'
  BY <1>3, <1>6, <1>k, <1>v DEF Holds
<1>13. ReadingParam(order, i, j, k + 1)'
  <2>1. \A m \in 1..(k + 1) - 1 : Holds(order[m], source[i].paramsArray[j])'
    <3>1. \A m \in 1..(k + 1) - 1 : m \in 1..k - 1 \/ m = k
      OBVIOUS
    <3> QED BY <1>11, <1>12, <3>1
  <2> QED BY <1>3, <1>5, <1>7, <2>1 DEF AtFieldValue, ReadingParam, PendingConstraint
<1>14. buf'.in_range = Flag(order[k] = "range")
  BY <1>7 DEF AtFieldValue
<1>15. visits' = AtField(source, order, i, j, k + 1)
  BY <1>3 DEF rest
<1> QED BY <1>0, <1>3, <1>9, <1>13, <1>14, <1>15, FieldDone

LEMMA FromRangeValue ==
  ASSUME NEW order \in KeyOrders, NEW i \in 1..Len(source), NEW j \in 1..NParams(i),
         NEW k \in 1..3, NEW c \in Nat,
         Active(i), AtRangeValue(order, i, j, k, c), Next
  PROVE  /\ source' = source /\ Active(i)'
         /\ \/ AtRangeValue(order, i, j, k, c + 1)'
            \/ k + 1 \in 1..3 /\ AtFieldKey(order, i, j, k + 1)'
<1>0. source \in Descriptions /\ BufferType /\ status = "walking"
  BY DEF Active
<1>p. j \in 1..Len(source[i].paramsArray)
  BY DEF NParams
<1>v. PICK vs \in Seq(Int) : vs = source[i].paramsArray[j].valueArray
  BY <1>0, <1>p, ParamTypes
<1>c. c \in 1..Len(vs) /\ Len(vs) \in Nat /\ vs[c] \in Int /\ order[k] = "range"
  <2>1. c \in 1..Len(vs) /\ order[k] = "range"
    BY <1>v, Zenon DEF AtRangeValue
  <2> QED BY <2>1
<1> DEFINE x == Integer(vs[c])
           rest == AtInteger(source, order, i, j, k, c + 1)
           range == [buf.range EXCEPT ![c] = vs[c]]
<1>1. x \in Visit /\ rest \in Seq(Visit) /\ visits = Cons(x, rest)
  <2>1. x \in Visit
    BY <1>c, VisitTypes
  <2>2. rest \in Seq(Visit)
    <3>1. k \in Nat \ {0} /\ c + 1 \in Nat \ {0}
      OBVIOUS
    <3> QED BY <1>0, <1>p, <3>1, AtIntegerType
  <2>3. visits = Cons(x, rest)
    BY <1>0, <1>p, <1>v, <1>c, IntegerFirst DEF AtRangeValue
  <2> QED BY <2>1, <2>2, <2>3
<1>2. x.visit = "integer" /\ x.value = vs[c]
  BY DEF Integer
<1> HIDE DEF x, rest
<1>3. Head(visits) = x /\ visits' = rest /\ source' = source /\ process_integer
  BY <1>0, <1>1, <1>2, StepAt
<1>4. /\ buf.in_range = 1 /\ buf.in_type = 0 /\ buf.in_default = 0
      /\ buf.nvalues = Len(vs) /\ buf.cursor = c - 1
      /\ buf.range \in Seq(Int \cup {Uninit}) /\ Len(buf.range) = Len(vs)
      /\ \A h \in 1..c - 1 : buf.range[h] = vs[h]
      /\ ReadingParam(order, i, j, k)
  BY <1>v DEF AtRangeValue
<1>5. /\ buf' = [buf EXCEPT !.range = [@ EXCEPT ![c] = vs[c]], !.cursor = @ + 1,
                            !.type = @, !.dflt = @]
      /\ domains' = domains /\ rrl' = rrl /\ status' = status
  <2>1. /\ buf' = [buf EXCEPT !.range = [@ EXCEPT ![buf.cursor + 1] = Head(visits).value],
                              !.cursor = @ + 1, !.type = @, !.dflt = @]
        /\ domains' = domains /\ rrl' = rrl /\ status' = status
    BY <1>3, <1>4 DEF process_integer
  <2>2. buf.cursor + 1 = c /\ Head(visits).value = vs[c]
    BY <1>2, <1>3, <1>4
  <2> QED BY <2>1, <2>2
<1>6. /\ \A f \in BufferFields \ {"range", "cursor"} : buf'[f] = buf[f]
      /\ buf'.range = range /\ buf'.cursor = c
      /\ DOMAIN buf' = BufferFields
  <2>1. buf.cursor + 1 = c
    BY <1>4
  <2> QED BY <1>0, <1>5, <2>1 DEF BufferType, BufferFields
<1>7. /\ buf'.in_domain = buf.in_domain /\ buf'.current_domain = buf.current_domain
      /\ buf'.in_param = buf.in_param /\ buf'.in_constraint = buf.in_constraint
      /\ buf'.in_exploration = buf.in_exploration
      /\ buf'.in_range = buf.in_range /\ buf'.in_type = buf.in_type
      /\ buf'.in_default = buf.in_default
      /\ buf'.param_counter = buf.param_counter
      /\ buf'.constraint_counter = buf.constraint_counter
      /\ buf'.pname = buf.pname /\ buf'.type = buf.type /\ buf'.dflt = buf.dflt
      /\ buf'.nvalues = buf.nvalues
  BY <1>6 DEF BufferFields
<1>8. /\ range \in Seq(Int \cup {Uninit}) /\ Len(range) = Len(vs)
      /\ \A h \in 1..c : range[h] = vs[h]
  <2> DEFINE old == buf.range
  <2>1. old \in Seq(Int \cup {Uninit}) /\ c \in 1..Len(old) /\ vs[c] \in Int \cup {Uninit}
    BY <1>c, <1>4
  <2> HIDE DEF old
  <2>2. LET new == [old EXCEPT ![c] = vs[c]]
        IN /\ new \in Seq(Int \cup {Uninit}) /\ Len(new) = Len(old)
           /\ \A h \in 1..Len(old) : new[h] = IF h = c THEN vs[c] ELSE old[h]
    BY <2>1, ExceptSeq
  <2>3. range \in Seq(Int \cup {Uninit}) /\ Len(range) = Len(vs)
    BY <1>4, <2>2 DEF old
  <2>4. ASSUME NEW h \in 1..c PROVE range[h] = vs[h]
    <3>1. h \in 1..Len(old) /\ (h # c => h \in 1..c - 1)
      BY <2>1
    <3>2. range[h] = IF h = c THEN vs[c] ELSE old[h]
      BY <2>2, <3>1 DEF old
    <3> QED BY <1>4, <3>1, <3>2 DEF old
  <2> QED BY <2>3, <2>4
<1> HIDE DEF range
<1>9. BufferType'
  <2>1. buf'.cursor \in 0..Len(buf'.range)
    BY <1>c, <1>6, <1>8
  <2> QED BY <1>0, <1>6, <1>7, <2>1 DEF BufferType
<1>10. Active(i)'
  BY <1>3, <1>5, <1>7, <1>9 DEF Active, RrlFollows
\* The keys read before are others.
<1>11. \A m \in 1..k - 1 : order[m] # "range" /\ order[m] \in FieldKeys
  BY <1>c, OrderTypes
<1>12. ReadingParam(order, i, j, k)'
  BY <1>3, <1>4, <1>5, <1>7, <1>11 DEF ReadingParam, Holds, PendingConstraint, FieldKeys
<1>13. CASE c = Len(vs)
  <2>1. buf'.range = vs /\ buf'.nvalues = Len(buf'.range)
    <3>1. vs \in Seq(Int \cup {Uninit})
      BY SeqMonotonic
    <3>2. range = vs
      BY <1>8, <1>13, <3>1, SeqEqual
    <3> QED BY <1>4, <1>6, <1>7, <1>8, <3>2
  <2>2. Holds("range", source[i].paramsArray[j])'
    BY <1>3, <1>v, <2>1 DEF Holds
  <2>3. ReadingParam(order, i, j, k + 1)'
    BY <1>3, <1>12, <1>c, <2>2 DEF ReadingParam
  <2>4. visits' = AtField(source, order, i, j, k + 1)
    <3>1. AtInteger(source, order, i, j, k, Len(vs) + 1) = AtField(source, order, i, j, k + 1)
      BY <1>0, <1>p, <1>v, IntegerEnd
    <3> QED BY <1>3, <1>13, <3>1 DEF rest
  <2>5. buf'.in_range = Flag(order[k] = "range") /\ k # 3
    BY <1>4, <1>7, <1>c, OrderTypes DEF Flag
  <2> QED BY <1>0, <1>3, <1>10, <2>3, <2>4, <2>5, FieldDone
<1>14. CASE c # Len(vs)
  <2>1. c + 1 \in 1..Len(vs) /\ (c + 1) - 1 = c
    BY <1>c, <1>14
  <2>2. AtRangeValue(order, i, j, k, c + 1)'
    BY <1>3, <1>4, <1>6, <1>7, <1>8, <1>12, <1>c, <1>v, <2>1 DEF AtRangeValue, rest
  <2> QED BY <1>3, <1>10, <2>2
<1> QED BY <1>13, <1>14

LEMMA FromConstraintKey ==
  ASSUME NEW order \in KeyOrders, NEW i \in 1..Len(source), NEW j \in 1..NConstraints(i),
         Active(i), AtConstraintKey(order, i, j), Next
  PROVE  source' = source /\ Active(i)' /\ AtExprKey(order, i, j)'
<1> DEFINE name == source[i].constraintsArray[j].constName
           x == Key(3, name)
           rest == Cons(Key(4, "expr"), AtExpr(source, order, i, j))
<1>0. /\ source \in Descriptions /\ BufferType /\ status = "walking" /\ RrlFollows
      /\ buf.current_domain = i /\ buf.in_domain = 1 /\ Len(domains) = i
  BY DEF Active
<1>1. j \in 1..Len(source[i].constraintsArray) /\ j - 1 \in 0..NConstraints(i)
      /\ Before(NParams(i)) \in 0..NParams(i)
  BY <1>0, Counts
<1>2. x \in Visit /\ rest \in Seq(Visit) /\ visits = Cons(x, rest)
  <2>1. x \in Visit
    BY <1>0, <1>1, ConstraintTypes, VisitTypes
  <2>2. AtExpr(source, order, i, j) \in Seq(Visit) /\ Key(4, "expr") \in Visit
    BY <1>0, <1>1, AtExprType, VisitTypes DEF Keywords
  <2>3. rest \in Seq(Visit)
    BY <2>2, ConsProperties
  <2>4. visits = Cons(x, rest)
    BY <1>0, <1>1, ConstraintFirst DEF AtConstraintKey
  <2> QED BY <2>1, <2>3, <2>4
<1>3. x.visit = "key" /\ x.depth = 3 /\ x.name = name
  BY DEF Key
<1> HIDE DEF x, rest, name
<1>4. buf.in_param = 0
  BY DEF AtConstraintKey, ReadingConstraints
<1>5. Head(visits) = x /\ visits' = rest /\ source' = source /\ enter_constraint
  BY <1>0, <1>2, <1>3, <1>4, StepAt DEF enter_param
<1>6. /\ domains' = commit_constraint(domains) /\ rrl' = rrl /\ status' = status
      /\ buf' = [buf EXCEPT !.constraint_counter = @ + 1, !.cname = name]
  BY <1>3, <1>5 DEF enter_constraint
<1>7. /\ \A f \in BufferFields \ {"constraint_counter", "cname"} : buf'[f] = buf[f]
      /\ buf'.constraint_counter = buf.constraint_counter + 1 /\ buf'.cname = name
      /\ DOMAIN buf' = BufferFields
  BY <1>0, <1>6 DEF BufferType, BufferFields
<1>8. BufferType'
  BY <1>0, <1>7 DEF BufferType, BufferFields
<1>9. domains = Stored(source, i, Before(NParams(i)), Before(j - 1))
      /\ PendingConstraint(i, j - 1) /\ PendingParam(i, NParams(i))
  BY DEF AtConstraintKey, ReadingConstraints
<1>10. domains' = Stored(source, i, Before(NParams(i)), j - 1)
  BY <1>0, <1>1, <1>6, <1>9, CommitConstraint
<1>t. /\ Before(NParams(i)) \in 0..Len(source[i].paramsArray)
      /\ j - 1 \in 0..Len(source[i].constraintsArray)
      /\ Before(j - 1) \in 0..Len(source[i].constraintsArray)
  BY <1>1 DEF NParams, NConstraints, Before
<1>11. Len(domains') = i
  BY <1>0, <1>10, <1>t, StoredType
<1>12. rrl' = DeclaredIn(domains')
  BY <1>0, <1>6, <1>9, <1>10, <1>t, DeclaredConstraint DEF RrlFollows
<1>13. /\ buf'.in_domain = buf.in_domain /\ buf'.current_domain = buf.current_domain
       /\ buf'.in_param = buf.in_param /\ buf'.in_constraint = buf.in_constraint
       /\ buf'.in_exploration = buf.in_exploration /\ buf'.in_range = buf.in_range
       /\ buf'.param_counter = buf.param_counter
       /\ buf'.pname = buf.pname /\ buf'.range = buf.range /\ buf'.nvalues = buf.nvalues
       /\ buf'.type = buf.type /\ buf'.dflt = buf.dflt
  BY <1>7 DEF BufferFields
<1>14. Active(i)'
  BY <1>0, <1>5, <1>6, <1>8, <1>11, <1>12, <1>13 DEF Active, RrlFollows
<1>15. buf'.constraint_counter = j
  BY <1>1, <1>7, <1>9 DEF PendingConstraint
<1>16. NParams(i)' = NParams(i) /\ PendingParam(i, NParams(i))'
  BY <1>5, <1>9, <1>13, PendingStays
<1>17. ReadingConstraints(i, j - 1)'
  BY <1>5, <1>10, <1>13, <1>16 DEF AtConstraintKey, ReadingConstraints
<1> QED BY <1>5, <1>7, <1>14, <1>15, <1>17 DEF AtExprKey, rest, name

LEMMA FromExprKey ==
  ASSUME NEW order \in KeyOrders, NEW i \in 1..Len(source), NEW j \in 1..NConstraints(i),
         Active(i), AtExprKey(order, i, j), Next
  PROVE  source' = source /\ Active(i)' /\ AtExprValue(order, i, j)'
<1> DEFINE x == Key(4, "expr")
           rest == AtExpr(source, order, i, j)
<1>0. source \in Descriptions /\ BufferType /\ status = "walking"
  BY DEF Active
<1>1. x \in Visit /\ rest \in Seq(Visit) /\ visits = Cons(x, rest)
  <2>1. j \in 1..Len(source[i].constraintsArray)
    BY <1>0, Counts
  <2> QED BY <1>0, <2>1, AtExprType, VisitTypes DEF AtExprKey, Keywords
<1>2. x.visit = "key" /\ x.depth = 4 /\ x.name = "expr"
  BY DEF Key
<1> HIDE DEF x, rest
<1>3. Head(visits) = x /\ visits' = rest /\ source' = source /\ enter_subsection
  BY <1>0, <1>1, <1>2, StepAt
<1>4. /\ \A f \in BufferFields \ {"in_range", "in_type", "in_default"} : buf'[f] = buf[f]
      /\ buf'.in_range = Flag("expr" = "range")
      /\ BufferType' /\ domains' = domains /\ rrl' = rrl /\ status' = status
  BY <1>0, <1>2, <1>3, SubsectionStep
<1>5. /\ buf'.in_domain = buf.in_domain /\ buf'.current_domain = buf.current_domain
      /\ buf'.in_param = buf.in_param /\ buf'.in_constraint = buf.in_constraint
      /\ buf'.in_exploration = buf.in_exploration
      /\ buf'.constraint_counter = buf.constraint_counter /\ buf'.cname = buf.cname
      /\ buf'.param_counter = buf.param_counter
      /\ buf'.pname = buf.pname /\ buf'.range = buf.range /\ buf'.nvalues = buf.nvalues
      /\ buf'.type = buf.type /\ buf'.dflt = buf.dflt
  BY <1>4 DEF BufferFields
<1>6. buf'.in_range = 0
  BY <1>4 DEF Flag
<1>7. Active(i)'
  BY <1>3, <1>4, <1>5 DEF Active, RrlFollows
<1>8. NParams(i)' = NParams(i) /\ PendingParam(i, NParams(i))'
  BY <1>3, <1>5, PendingStays DEF AtExprKey, ReadingConstraints
<1>9. ReadingConstraints(i, j - 1)'
  BY <1>3, <1>4, <1>5, <1>6, <1>8 DEF AtExprKey, ReadingConstraints
<1> QED BY <1>3, <1>5, <1>7, <1>9 DEF AtExprKey, AtExprValue, rest

LEMMA FromExprValue ==
  ASSUME NEW order \in KeyOrders, NEW i \in 1..Len(source), NEW j \in 1..NConstraints(i),
         Active(i), AtExprValue(order, i, j), Next
  PROVE  source' = source /\ Active(i)' /\ AtConstraintKey(order, i, j + 1)'
<1> DEFINE expr == source[i].constraintsArray[j].constExpr
           x == String(expr)
           rest == AtConstraint(source, order, i, j + 1)
<1>0. source \in Descriptions /\ BufferType /\ status = "walking"
  BY DEF Active
<1>j. j \in 1..Len(source[i].constraintsArray) /\ (j + 1) - 1 = j /\ j # 0
      /\ Before(j) = j - 1
  BY <1>0, Counts DEF Before
<1>1. x \in Visit /\ rest \in Seq(Visit) /\ visits = Cons(x, rest)
  <2>1. x \in Visit
    BY <1>0, <1>j, ConstraintTypes, VisitTypes
  <2>2. rest \in Seq(Visit)
    <3>1. j + 1 \in Nat \ {0}
      BY <1>j
    <3> QED BY <1>0, <3>1, AtConstraintType
  <2> QED BY <2>1, <2>2 DEF AtExprValue, AtExpr
<1>2. x.visit = "string" /\ x.value = expr
  BY DEF String
<1> HIDE DEF x, rest, expr
<1>3. Head(visits) = x /\ visits' = rest /\ source' = source /\ process_string
  BY <1>0, <1>1, <1>2, StepAt
<1>4. /\ buf' = [buf EXCEPT !.expr = expr]
      /\ domains' = domains /\ rrl' = rrl /\ status' = status
  BY <1>2, <1>3 DEF process_string, AtExprValue, ReadingConstraints
<1>5. /\ \A f \in BufferFields \ {"expr"} : buf'[f] = buf[f]
      /\ buf'.expr = expr /\ DOMAIN buf' = BufferFields
  BY <1>0, <1>4 DEF BufferType, BufferFields
<1>6. /\ buf'.in_domain = buf.in_domain /\ buf'.current_domain = buf.current_domain
      /\ buf'.in_param = buf.in_param /\ buf'.in_constraint = buf.in_constraint
      /\ buf'.in_exploration = buf.in_exploration /\ buf'.in_range = buf.in_range
      /\ buf'.constraint_counter = buf.constraint_counter /\ buf'.cname = buf.cname
      /\ buf'.param_counter = buf.param_counter
      /\ buf'.pname = buf.pname /\ buf'.range = buf.range /\ buf'.nvalues = buf.nvalues
      /\ buf'.type = buf.type /\ buf'.dflt = buf.dflt
  BY <1>5 DEF BufferFields
<1>7. BufferType'
  BY <1>0, <1>5 DEF BufferType, BufferFields
<1>8. Active(i)'
  BY <1>3, <1>4, <1>6, <1>7 DEF Active, RrlFollows
<1>9. NParams(i)' = NParams(i) /\ PendingParam(i, NParams(i))'
  BY <1>3, <1>6, PendingStays DEF AtExprValue, ReadingConstraints
<1>10. ReadingConstraints(i, j - 1)'
  BY <1>3, <1>4, <1>6, <1>9 DEF AtExprValue, ReadingConstraints
<1>11. PendingConstraint(i, j)'
  BY <1>3, <1>5, <1>6 DEF AtExprValue, PendingConstraint, expr
<1> QED BY <1>3, <1>8, <1>10, <1>11, <1>j DEF AtConstraintKey, rest

LEMMA ToExplorations ==
  ASSUME NEW order \in KeyOrders, NEW i \in 1..Len(source),
         Active(i), AtConstraintKey(order, i, NConstraints(i) + 1), Next
  PROVE  source' = source /\ Active(i)' /\ AtExplorationArray(order, i)'
<1> DEFINE x == Key(2, "explorations")
           rest == Cons(Array(source[i].numExplorations), AtDomain(source, order, i + 1))
<1>0. source \in Descriptions /\ BufferType /\ status = "walking"
  BY DEF Active
<1>1. x \in Visit /\ rest \in Seq(Visit) /\ visits = Cons(x, rest)
  <2>1. x \in Visit
    BY VisitTypes DEF Keywords
  <2>2. rest \in Seq(Visit)
    BY <1>0, AtArrayType
  <2>3. visits = Cons(x, rest)
    BY <1>0, ConstraintEnd DEF AtConstraintKey, NConstraints, AtExplorations
  <2> QED BY <2>1, <2>2, <2>3
<1>2. x.visit = "key" /\ x.depth = 2 /\ x.name = "explorations"
  BY DEF Key
<1> HIDE DEF x, rest
<1>3. Head(visits) = x /\ visits' = rest /\ source' = source /\ enter_section
  BY <1>0, <1>1, <1>2, StepAt
<1>4. /\ \A f \in BufferFields \ {"in_param", "in_constraint", "in_exploration"} :
            buf'[f] = buf[f]
      /\ BufferType' /\ domains' = domains /\ rrl' = rrl /\ status' = status
  BY <1>0, <1>2, <1>3, SectionStep
<1>5. /\ buf'.in_domain = buf.in_domain /\ buf'.current_domain = buf.current_domain
      /\ buf'.in_range = buf.in_range
      /\ buf'.constraint_counter = buf.constraint_counter /\ buf'.cname = buf.cname
      /\ buf'.expr = buf.expr /\ buf'.param_counter = buf.param_counter
      /\ buf'.pname = buf.pname /\ buf'.range = buf.range /\ buf'.nvalues = buf.nvalues
      /\ buf'.type = buf.type /\ buf'.dflt = buf.dflt
  BY <1>4 DEF BufferFields
<1>6. Active(i)'
  BY <1>3, <1>4, <1>5 DEF Active, RrlFollows
<1>7. (NConstraints(i) + 1) - 1 = NConstraints(i)
  BY <1>0, Counts
<1>8. ReadDomain(i)
  BY <1>7 DEF AtConstraintKey, ReadingConstraints, ReadDomain
<1>9. ReadDomain(i)'
  BY <1>3, <1>4, <1>5, <1>8, ReadDomainStays
<1> QED BY <1>3, <1>6, <1>9 DEF AtExplorationArray, rest

LEMMA FromExplorationArray ==
  ASSUME NEW order \in KeyOrders, NEW i \in 1..Len(source),
         Active(i), AtExplorationArray(order, i), Next
  PROVE  source' = source /\ Active(i)' /\ AtDomainKey(order, i)'
<1> DEFINE x == Array(source[i].numExplorations)
           rest == AtDomain(source, order, i + 1)
<1>0. source \in Descriptions /\ BufferType /\ status = "walking"
  BY DEF Active
<1>1. x \in Visit /\ rest \in Seq(Visit) /\ visits = Cons(x, rest)
  BY <1>0, AtArrayType DEF AtExplorationArray
<1>2. x.visit = "array" /\ x.length = 0
  BY <1>0, DomainTypes DEF Array
<1> HIDE DEF x, rest
<1>3. Head(visits) = x /\ visits' = rest /\ source' = source /\ process_array
  BY <1>0, <1>1, <1>2, StepAt
<1>4. /\ domains' = domains /\ rrl' = rrl /\ status' = status
      /\ \A f \in BufferFields \ {"nexplorations", "explorations", "cursor"} :
           buf'[f] = buf[f]
      /\ buf'.cursor \in {0, buf.cursor} /\ DOMAIN buf' = BufferFields
  <2>1. buf.in_range # 1
    BY DEF AtExplorationArray, ReadDomain
  <2>2. domains' = domains /\ rrl' = rrl /\ status' = status
        /\ \/ buf' = buf
           \/ buf' = [buf EXCEPT !.nexplorations = Head(visits).length,
                        !.explorations = [k \in 1..Head(visits).length |-> Uninit],
                        !.cursor = 0]
    BY <1>3, <2>1 DEF process_array
  <2> QED BY <1>0, <2>2 DEF BufferType, BufferFields
<1>5. /\ buf'.in_domain = buf.in_domain /\ buf'.current_domain = buf.current_domain
      /\ buf'.in_range = buf.in_range
      /\ buf'.constraint_counter = buf.constraint_counter /\ buf'.cname = buf.cname
      /\ buf'.expr = buf.expr /\ buf'.param_counter = buf.param_counter
      /\ buf'.pname = buf.pname /\ buf'.range = buf.range /\ buf'.nvalues = buf.nvalues
      /\ buf'.type = buf.type /\ buf'.dflt = buf.dflt
      /\ buf'.in_param = buf.in_param /\ buf'.in_type = buf.in_type
      /\ buf'.in_default = buf.in_default /\ buf'.in_constraint = buf.in_constraint
      /\ buf'.in_exploration = buf.in_exploration
  BY <1>4 DEF BufferFields
<1>6. BufferType'
  <2>1. buf'.cursor \in 0..Len(buf'.range)
    BY <1>0, <1>4, <1>5 DEF BufferType
  <2> QED BY <1>0, <1>4, <1>5, <2>1 DEF BufferType
<1>7. Active(i)'
  BY <1>3, <1>4, <1>5, <1>6 DEF Active, RrlFollows
<1>8. ReadDomain(i)'
  BY <1>3, <1>4, <1>5, ReadDomainStays DEF AtExplorationArray
<1> QED BY <1>3, <1>7, <1>8 DEF AtDomainKey, rest

\* What has been read when a domain ends is all moved.
LEMMA CommitBoth ==
  ASSUME NEW i \in 1..Len(source), Active(i), ReadDomain(i)
  PROVE  /\ commit_constraint(commit_param) = SubSeq(source, 1, i)
         /\ commit_param_rrl = DeclaredIn(SubSeq(source, 1, i))
<1>0. source \in Descriptions /\ RrlFollows /\ buf.current_domain = i
  BY DEF Active
<1> DEFINE p == NParams(i)
           c == NConstraints(i)
<1>1. /\ p \in 0..NParams(i) /\ c \in 0..NConstraints(i)
      /\ Before(c) \in 0..NConstraints(i)
      /\ p = Len(source[i].paramsArray) /\ c = Len(source[i].constraintsArray)
  BY <1>0, Counts
<1>2. /\ domains = Stored(source, i, Before(p), Before(c))
      /\ PendingParam(i, p) /\ PendingConstraint(i, c)
  BY DEF ReadDomain
<1>3. /\ commit_param = Stored(source, i, p, Before(c))
      /\ commit_param_rrl = DeclaredIn(Stored(source, i, p, Before(c)))
  BY <1>0, <1>1, <1>2, CommitParam
<1>4. commit_constraint(Stored(source, i, p, Before(c))) = Stored(source, i, p, c)
  BY <1>0, <1>1, <1>2, CommitConstraint
<1>5. DeclaredIn(Stored(source, i, p, Before(c))) = DeclaredIn(Stored(source, i, p, c))
  BY <1>0, <1>1, DeclaredConstraint
<1>6. Stored(source, i, p, c) = SubSeq(source, 1, i)
  BY <1>0, <1>1, StoredWhole
<1> QED BY <1>3, <1>4, <1>5, <1>6

LEMMA FreshBuffer ==
  ASSUME NEW d \in Nat,
         buf' = [data_buf_init EXCEPT !.in_domain = 1, !.current_domain = d]
  PROVE  /\ BufferType' /\ buf'.in_domain = 1 /\ buf'.current_domain = d
         /\ buf'.in_range = 0 /\ buf'.param_counter = 0 /\ buf'.constraint_counter = 0
<1>1. /\ DOMAIN buf' = BufferFields /\ buf'.in_domain = 1 /\ buf'.current_domain = d
      /\ buf'.in_param = 0 /\ buf'.in_range = 0 /\ buf'.in_type = 0
      /\ buf'.in_default = 0 /\ buf'.in_constraint = 0 /\ buf'.in_exploration = 0
      /\ buf'.param_counter = 0 /\ buf'.constraint_counter = 0
      /\ buf'.cursor = 0 /\ buf'.range = <<>>
  BY DEF data_buf_init, BufferFields
<1>2. buf'.cursor \in 0..Len(buf'.range)
  BY <1>1
<1> QED BY <1>1, <1>2 DEF BufferType

LEMMA UninitialisedFields ==
  ASSUME NEW b \in UninitialisedBuf
  PROVE  /\ DOMAIN b = BufferFields /\ b.in_domain \in Garbage /\ b.current_domain = 0
         /\ b.in_param = 0 /\ b.in_range = 0 /\ b.in_type = 0
         /\ b.in_default = 0 /\ b.in_constraint = 0 /\ b.in_exploration = 0
         /\ b.cursor = 0 /\ b.range = <<>>
<1>1. \A g, h, i \in Garbage :
        LET u == Uninitialised(g, h, i)
        IN /\ DOMAIN u = BufferFields /\ u.in_domain = g /\ u.current_domain = 0
           /\ u.in_param = 0 /\ u.in_range = 0 /\ u.in_type = 0
           /\ u.in_default = 0 /\ u.in_constraint = 0 /\ u.in_exploration = 0
           /\ u.cursor = 0 /\ u.range = <<>>
  BY DEF Uninitialised, data_buf_init, BufferFields, NoIndex
<1>2. \E g, h, i \in Garbage : b = Uninitialised(g, h, i)
  BY DEF UninitialisedBuf
<1> QED BY <1>1, <1>2

LEMMA ToNextDomain ==
  ASSUME NEW order \in KeyOrders, NEW i \in 1..Len(source), i # Len(source),
         Active(i), AtDomainKey(order, i), Next
  PROVE  /\ source' = source /\ i + 1 \in 1..Len(source)
         /\ Active(i + 1)' /\ AtParams(order, i + 1)'
<1> DEFINE name == source[i + 1].domName
           x == Key(1, name)
           rest == Cons(Key(2, "params"), AtParam(source, order, i + 1, 1))
           whole == SubSeq(source, 1, i)
<1>0. /\ source \in Descriptions /\ BufferType /\ status = "walking" /\ RrlFollows
      /\ buf.current_domain = i /\ buf.in_domain = 1
  BY DEF Active
<1>1. i + 1 \in 1..Len(source) /\ i \in Nat \ {0} /\ i + 1 <= Len(source)
  BY <1>0, SourceTypes
<1>2. x \in Visit /\ rest \in Seq(Visit) /\ visits = Cons(x, rest) /\ name \in Names
  <2>1. name \in Names /\ x \in Visit
    BY <1>0, <1>1, DomainTypes, VisitTypes
  <2>2. AtParam(source, order, i + 1, 1) \in Seq(Visit) /\ Key(2, "params") \in Visit
    BY <1>0, <1>1, AtParamType, VisitTypes DEF Keywords
  <2>3. rest \in Seq(Visit)
    BY <2>2, ConsProperties
  <2>4. visits = Cons(x, rest)
    BY <1>0, <1>1, DomainFirst DEF AtDomainKey
  <2> QED BY <2>1, <2>3, <2>4
<1>3. x.visit = "key" /\ x.depth = 1 /\ x.name = name
  BY DEF Key
<1>4. /\ whole \in Seq(Domains) /\ Len(whole) = i
      /\ \A h \in 1..i : whole[h] = source[h]
  <2>1. Stored(source, i, Len(source[i].paramsArray), Len(source[i].constraintsArray)) = whole
    BY <1>0, StoredWhole
  <2>2. i \in Int /\ 1 \in Int /\ (IF 1 <= i THEN i - 1 + 1 ELSE 0) = i
        /\ i - 1 + 1 = i /\ \A h \in 1..i : 1 + h - 1 = h
    BY <1>1
  <2>3. \A h \in 1..i : source[h] \in Domains
    BY <1>0, SourceTypes
  <2> QED BY <2>2, <2>3, SubSeqProperties
<1>5. /\ commit_constraint(commit_param) = whole /\ commit_param_rrl = DeclaredIn(whole)
  BY CommitBoth DEF AtDomainKey
<1>6. Named(name) = name
  BY <1>2, DescriptionsAssumption DEF Named
<1>7. \A h \in 1..i : whole[h].domName # name
  <2> SUFFICES ASSUME NEW h \in 1..i, whole[h].domName = name PROVE FALSE
    OBVIOUS
  <2>1. h \in 1..Len(source) /\ h # i + 1
    BY <1>1
  <2>2. source[h].domName = source[i + 1].domName
    BY <1>4
  <2> QED BY <1>0, <1>1, <2>1, <2>2, SourceTypes
<1>8. Append(whole, NewDomain(name)) = Stored(source, i + 1, 0, 0)
  BY <1>0, <1>1, StoredNext
<1>9. DeclaredIn(Stored(source, i + 1, 0, 0)) = DeclaredIn(whole)
  BY <1>0, <1>1, StoredWhole, DeclaredDomain
<1> HIDE DEF x, rest, name, whole
<1>10. ~crash
  <2>1. buf.current_domain # NoIndex
    BY <1>0, <1>1 DEF NoIndex
  <2> QED BY <2>1 DEF crash, CommitsGarbage
<1>11. Head(visits) = x /\ visits' = rest /\ source' = source /\ enter_domain
  BY <1>0, <1>2, <1>3, <1>10, StepAt
<1> DEFINE ds == ATP_domain_new(name, whole)
<1>12. /\ domains' = ds /\ rrl' = DeclaredIn(whole) /\ status' = status
       /\ buf' = [data_buf_init EXCEPT !.in_domain = 1,
                     !.current_domain = ATP_domain_find(name, ds)]
  BY <1>0, <1>3, <1>5, <1>11 DEF enter_domain
<1>13. ds = Stored(source, i + 1, 0, 0)
  <2>1. ATP_domain_find(name, whole) = NoIndex
    <3>1. Len(whole) \in Nat
      BY <1>1, <1>4
    <3> QED BY <1>4, <1>6, <1>7, <3>1, DomainFind
  <2> QED BY <1>8, <2>1 DEF ATP_domain_new
<1> HIDE DEF ds
<1>14. Len(ds) = i + 1 /\ ds[i + 1].domName = name
       /\ \A h \in 1..i : ds[h] = source[h]
  <2>1. 0 \in 0..Len(source[i + 1].paramsArray)
        /\ 0 \in 0..Len(source[i + 1].constraintsArray) /\ (i + 1) - 1 = i
    BY <1>0, <1>1, DomainTypes
  <2>2. /\ Len(ds) = i + 1 /\ ds[i + 1] = Beginning(source[i + 1], 0, 0)
        /\ \A h \in 1..i : ds[h] = source[h]
    BY <1>0, <1>1, <1>13, <2>1, StoredType
  <2>3. Beginning(source[i + 1], 0, 0).domName = source[i + 1].domName
    BY <1>0, <1>1, <2>1, BeginningFields
  <2> QED BY <2>2, <2>3 DEF name
<1>15. ATP_domain_find(name, ds) = i + 1
  <2>1. Len(ds) \in Nat /\ i + 1 \in 1..Len(ds)
    BY <1>1, <1>14
  <2>2. \A h \in 1..i : ds[h].domName # name
    BY <1>4, <1>7, <1>14
  <2>3. /\ ATP_domain_find(name, ds) \in 1..Len(ds)
        /\ ds[ATP_domain_find(name, ds)].domName = name
    BY <1>6, <1>14, <2>1, DomainFind
  <2>4. ATP_domain_find(name, ds) \notin 1..i
    BY <2>2, <2>3
  <2> QED BY <1>1, <1>14, <2>3, <2>4
<1>16. /\ BufferType' /\ buf'.in_domain = 1 /\ buf'.current_domain = i + 1
       /\ buf'.in_range = 0 /\ buf'.param_counter = 0 /\ buf'.constraint_counter = 0
  <2>1. i + 1 \in Nat
    BY <1>1
  <2>2. buf' = [data_buf_init EXCEPT !.in_domain = 1, !.current_domain = i + 1]
    BY <1>12, <1>15
  <2> QED BY <2>1, <2>2, FreshBuffer
<1>17. Active(i + 1)'
  BY <1>0, <1>9, <1>11, <1>12, <1>13, <1>14, <1>16 DEF Active, RrlFollows
<1>18. AtParams(order, i + 1)'
  BY <1>11, <1>12, <1>13, <1>16 DEF AtParams, PendingParam, PendingConstraint, rest
<1> QED BY <1>1, <1>11, <1>17, <1>18

LEMMA ToEnd ==
  ASSUME NEW order \in KeyOrders, Active(Len(source)), AtDomainKey(order, Len(source)),
         Next
  PROVE  /\ source' = source /\ status' = "loaded" /\ domains' = source
         /\ buf' = buf /\ RrlFollows'
<1>0. source \in Descriptions /\ status = "walking"
  BY DEF Active
<1>1. Len(source) \in 1..Len(source) /\ SubSeq(source, 1, Len(source)) = source
  BY <1>0, SourceTypes, SubSeqFull
<1>2. visits = Cons(EndOfFile, <<>>)
  <2>1. visits = <<EndOfFile>>
    BY <1>0, DomainEnd DEF AtDomainKey
  <2>2. Cons(EndOfFile, <<>>) = <<EndOfFile>>
    BY EndOfFileType, ConcatEmptySeq DEF Cons
  <2> QED BY <2>1, <2>2
<1>3. EndOfFile \in Visit /\ <<>> \in Seq(Visit) /\ EndOfFile.visit = "end"
  BY VisitTypes DEF EndOfFile
<1>4. source' = source /\ finish
  BY <1>0, <1>2, <1>3, StepAt
<1>5. /\ commit_constraint(commit_param) = source /\ commit_param_rrl = DeclaredIn(source)
  BY <1>1, CommitBoth DEF AtDomainKey
<1> QED BY <1>4, <1>5 DEF finish, RrlFollows

LEMMA FromStart ==
  ASSUME NEW order \in KeyOrders, source \in Descriptions, status = "walking",
         RrlFollows, AtStart(order), Next
  PROVE  /\ source' = source
         /\ \/ Active(1)' /\ AtParams(order, 1)'
            \/ status' = "crashed" /\ UNCHANGED <<buf, domains, rrl>>
<1> DEFINE name == source[1].domName
           x == Key(1, name)
           rest == Cons(Key(2, "params"), AtParam(source, order, 1, 1))
           new == NewDomain(ATP_DFLT_DOMAIN)
<1>1. 1 \in 1..Len(source) /\ name = ATP_DFLT_DOMAIN /\ name \in Names
  BY SourceTypes, DomainTypes
<1>2. x \in Visit /\ rest \in Seq(Visit) /\ visits = Cons(x, rest)
  <2>1. x \in Visit
    BY <1>1, VisitTypes
  <2>2. AtParam(source, order, 1, 1) \in Seq(Visit) /\ Key(2, "params") \in Visit
    BY <1>1, AtParamType, VisitTypes DEF Keywords
  <2>3. rest \in Seq(Visit)
    BY <2>2, ConsProperties
  <2>4. visits = Cons(x, rest)
    BY <1>1, DomainFirst DEF AtStart
  <2> QED BY <2>1, <2>3, <2>4
<1>3. x.visit = "key" /\ x.depth = 1 /\ x.name = name
  BY DEF Key
<1>4. Named(name) = name
  BY <1>1, DescriptionsAssumption DEF Named
<1>5. domains = <<new>> /\ new.domName = name /\ <<new>> = Stored(source, 1, 0, 0)
  BY <1>1, StoredFirst DEF AtStart, NewDomain
<1> HIDE DEF x, rest, name, new
<1>6. Head(visits) = x /\ visits' = rest /\ source' = source /\ (enter_domain \/ crash)
  BY <1>2, <1>3, StepAt
<1>7. CASE crash
  BY <1>6, <1>7 DEF crash
<1>8. CASE enter_domain
  <2>1. buf.in_domain = 1 => buf.param_counter = 0 /\ buf.constraint_counter = 0
    <3>1. buf.current_domain = NoIndex
      BY UninitialisedFields DEF AtStart, NoIndex
    <3> QED BY <1>8, <3>1 DEF enter_domain, CommitsGarbage
  <2>2. /\ domains' = ATP_domain_new(name, domains) /\ rrl' = rrl /\ status' = status
        /\ buf' = [data_buf_init EXCEPT !.in_domain = 1,
                     !.current_domain = ATP_domain_find(name, ATP_domain_new(name, domains))]
    BY <1>3, <1>6, <1>8, <2>1 DEF enter_domain, commit_param, commit_constraint,
       commit_param_rrl
  <2>3. ATP_domain_find(name, domains) = 1
    <3>1. Len(domains) \in Nat /\ Len(domains) = 1 /\ domains[1].domName = name
      BY <1>5
    <3> QED BY <1>4, <3>1, DomainFind
  <2>4. ATP_domain_new(name, domains) = domains
    BY <2>3 DEF ATP_domain_new, NoIndex
  <2>5. /\ BufferType' /\ buf'.in_domain = 1 /\ buf'.current_domain = 1
        /\ buf'.in_range = 0 /\ buf'.param_counter = 0 /\ buf'.constraint_counter = 0
    BY <2>2, <2>3, <2>4, FreshBuffer
  <2>6. Active(1)'
    <3>1. Len(domains) = 1
      BY <1>5
    <3> QED BY <1>6, <2>2, <2>4, <2>5, <3>1 DEF Active, RrlFollows
  <2>7. AtParams(order, 1)'
    BY <1>5, <1>6, <2>2, <2>4, <2>5 DEF AtParams, PendingParam, PendingConstraint, rest
  <2> QED BY <1>6, <2>6, <2>7
<1> QED BY <1>6, <1>7, <1>8

-----------------------------------------------------------------------------
(* The invariant.                                                          *)

LEMMA Initially == Init => IInv
<1> SUFFICES ASSUME Init PROVE IInv
  OBVIOUS
<1>1. source \in Descriptions /\ status = "walking" /\ rrl = {} /\ buf \in UninitialisedBuf
  BY DEF Init
<1>2. PICK order \in KeyOrders : visits = FileVisits(source, order)
  BY DEF Init
<1>3. domains = <<NewDomain(ATP_DFLT_DOMAIN)>>
  <2>1. ATP_domain_find(ATP_DFLT_DOMAIN, <<>>) = NoIndex
    BY DomainFind
  <2> QED BY <2>1 DEF Init, ATP_domain_new
<1>4. visits = AtDomain(source, order, 1)
  <2>1. FileVisits(source, order) = FlattenSeq(DomainParts(source, order)) \o <<EndOfFile>>
    BY DEF FileVisits, DomainParts
  <2> QED BY <1>1, <1>2, <2>1, DomainPartsType, FromFirst DEF AtDomain
<1>5. Walking
  BY <1>1, <1>3, <1>4 DEF Walking, AtStart
<1>6. buf.current_domain = 0 /\ BufferType
  <2>2. /\ DOMAIN buf = BufferFields /\ buf.in_domain \in Garbage /\ buf.current_domain = 0
        /\ buf.in_param = 0 /\ buf.in_range = 0 /\ buf.in_type = 0
        /\ buf.in_default = 0 /\ buf.in_constraint = 0 /\ buf.in_exploration = 0
        /\ buf.cursor = 0 /\ buf.range = <<>>
    BY <1>1, UninitialisedFields
  <2>3. buf.cursor \in 0..Len(buf.range)
    BY <2>2
  <2> QED BY <2>2, <2>3 DEF BufferType
<1>7. RrlFollows
  BY <1>1, <1>3, DeclaredFirst DEF RrlFollows
<1>8. Len(domains) = 1 /\ Len(source) \in Nat \ {0}
  BY <1>1, <1>3, SourceTypes
<1>9. buf.current_domain \in 0..Len(domains) /\ Len(domains) <= Len(source)
  BY <1>6, <1>8
<1> QED BY <1>1, <1>5, <1>6, <1>7, <1>9 DEF IInv

\* Every step in a domain leads to a place in it or in the next, or to the end.
LEMMA StepInDomain ==
  ASSUME NEW order \in KeyOrders, NEW i \in 1..Len(source),
         IInv, status = "walking", InDomain(order, i), Next
  PROVE  \/ source' = source /\ Active(i)' /\ InDomain(order, i)'
         \/ /\ source' = source /\ i + 1 \in 1..Len(source)
            /\ Active(i + 1)' /\ InDomain(order, i + 1)'
         \/ /\ source' = source /\ status' = "loaded" /\ domains' = source
            /\ buf' = buf /\ RrlFollows'
<1>0. Active(i) /\ source \in Descriptions
  BY DEF IInv, InDomain, Active
<1>n. /\ NParams(i) \in Nat /\ NConstraints(i) \in Nat
  BY <1>0, Counts
<1>p. source' = source => NParams(i)' = NParams(i) /\ NConstraints(i)' = NConstraints(i)
  BY DEF NParams, NConstraints
<1>1. CASE AtParams(order, i)
  <2>1. source' = source /\ Active(i)' /\ AtParamKey(order, i, 1)'
    BY <1>0, <1>1, FromParams
  <2>2. 1 \in 1..NParams(i)' + 1
    BY <1>n, <1>p, <2>1
  <2> QED BY <2>1, <2>2 DEF InDomain, Active
<1>2. CASE \E j \in 1..NParams(i) + 1 : AtParamKey(order, i, j)
  <2>1. PICK j \in 1..NParams(i) + 1 : AtParamKey(order, i, j)
    BY <1>2
  <2>2. CASE j = NParams(i) + 1
    <3>1. source' = source /\ Active(i)' /\ AtConstraintKey(order, i, 1)'
      BY <1>0, <2>1, <2>2, ToConstraints
    <3>2. 1 \in 1..NConstraints(i)' + 1
      BY <1>n, <1>p, <3>1
    <3> QED BY <3>1, <3>2 DEF InDomain, Active
  <2>3. CASE j \in 1..NParams(i)
    <3>1. source' = source /\ Active(i)' /\ AtFieldKey(order, i, j, 1)'
      BY <1>0, <2>1, <2>3, FromParamKey
    <3>2. j \in 1..NParams(i)' /\ 1 \in 1..3
      BY <1>p, <2>3, <3>1
    <3> QED BY <3>1, <3>2 DEF InDomain, Active
  <2> QED BY <1>n, <2>2, <2>3
<1>3. CASE \E j \in 1..NParams(i), k \in 1..3 :
             \/ AtFieldKey(order, i, j, k) \/ AtFieldValue(order, i, j, k)
             \/ \E c \in Nat : AtRangeValue(order, i, j, k, c)
  <2>1. PICK j \in 1..NParams(i), k \in 1..3 :
             \/ AtFieldKey(order, i, j, k) \/ AtFieldValue(order, i, j, k)
             \/ \E c \in Nat : AtRangeValue(order, i, j, k, c)
    BY <1>3
  <2>2. /\ source' = source /\ Active(i)'
        /\ \/ AtFieldValue(order, i, j, k)'
           \/ \E c \in Nat : AtRangeValue(order, i, j, k, c)'
           \/ k + 1 \in 1..3 /\ AtFieldKey(order, i, j, k + 1)'
           \/ AtParamKey(order, i, j + 1)'
    <3>1. CASE AtFieldKey(order, i, j, k)
      BY <1>0, <3>1, FromFieldKey
    <3>2. CASE AtFieldValue(order, i, j, k) /\ order[k] = "range"
      <4>1. 1 \in Nat
        OBVIOUS
      <4> QED BY <1>0, <3>2, <4>1, FromRangeArray
    <3>3. CASE AtFieldValue(order, i, j, k) /\ order[k] # "range"
      BY <1>0, <3>3, FromFieldInteger
    <3>4. CASE \E c \in Nat : AtRangeValue(order, i, j, k, c)
      <4>1. PICK c \in Nat : AtRangeValue(order, i, j, k, c)
        BY <3>4
      <4>2. c + 1 \in Nat
        OBVIOUS
      <4> QED BY <1>0, <4>1, <4>2, FromRangeValue
    <3> QED BY <2>1, <3>1, <3>2, <3>3, <3>4
  <2>3. j \in 1..NParams(i)' /\ j + 1 \in 1..NParams(i)' + 1
    BY <1>n, <1>p, <2>2
  <2> QED BY <2>2, <2>3 DEF InDomain, Active
<1>4. CASE \E j \in 1..NConstraints(i) + 1 : AtConstraintKey(order, i, j)
  <2>1. PICK j \in 1..NConstraints(i) + 1 : AtConstraintKey(order, i, j)
    BY <1>4
  <2>2. CASE j = NConstraints(i) + 1
    <3>1. source' = source /\ Active(i)' /\ AtExplorationArray(order, i)'
      BY <1>0, <2>1, <2>2, ToExplorations
    <3> QED BY <3>1 DEF InDomain, Active
  <2>3. CASE j \in 1..NConstraints(i)
    <3>1. source' = source /\ Active(i)' /\ AtExprKey(order, i, j)'
      BY <1>0, <2>1, <2>3, FromConstraintKey
    <3>2. j \in 1..NConstraints(i)'
      BY <1>p, <2>3, <3>1
    <3> QED BY <3>1, <3>2 DEF InDomain, Active
  <2> QED BY <1>n, <2>2, <2>3
<1>5. CASE \E j \in 1..NConstraints(i) : AtExprKey(order, i, j) \/ AtExprValue(order, i, j)
  <2>1. PICK j \in 1..NConstraints(i) : AtExprKey(order, i, j) \/ AtExprValue(order, i, j)
    BY <1>5
  <2>2. /\ source' = source /\ Active(i)'
        /\ AtExprValue(order, i, j)' \/ AtConstraintKey(order, i, j + 1)'
    BY <1>0, <2>1, FromExprKey, FromExprValue
  <2>3. j \in 1..NConstraints(i)' /\ j + 1 \in 1..NConstraints(i)' + 1
    BY <1>n, <1>p, <2>2
  <2> QED BY <2>2, <2>3 DEF InDomain, Active
<1>6. CASE AtExplorationArray(order, i)
  <2>1. source' = source /\ Active(i)' /\ AtDomainKey(order, i)'
    BY <1>0, <1>6, FromExplorationArray
  <2> QED BY <2>1 DEF InDomain, Active
<1>7. CASE AtDomainKey(order, i)
  <2>1. CASE i # Len(source)
    BY <1>0, <1>7, <2>1, ToNextDomain DEF InDomain, Active
  <2>2. CASE i = Len(source)
    BY <1>0, <1>7, <2>2, ToEnd
  <2> QED BY <2>1, <2>2
<1> QED BY <1>1, <1>2, <1>3, <1>4, <1>5, <1>6, <1>7 DEF InDomain

\* Everywhere in the i-th domain, beginnings of it are stored.
LEMMA InDomainStored ==
  ASSUME source \in Descriptions, NEW order, NEW i \in 1..Len(source),
         InDomain(order, i)
  PROVE  \E p \in 0..NParams(i), c \in 0..NConstraints(i) :
           domains = Stored(source, i, p, c)
<1>1. /\ NParams(i) \in Nat /\ NConstraints(i) \in Nat
      /\ 0 \in 0..NParams(i) /\ 0 \in 0..NConstraints(i)
      /\ Before(NParams(i)) \in 0..NParams(i)
      /\ Before(NConstraints(i)) \in 0..NConstraints(i)
  BY Counts
<1>2. CASE AtParams(order, i)
  BY <1>1, <1>2 DEF AtParams
<1>3. ASSUME NEW j \in 1..NParams(i) + 1, AtParamKey(order, i, j)
      PROVE  \E p \in 0..NParams(i) : domains = Stored(source, i, p, 0)
  <2>1. Before(j - 1) \in 0..NParams(i)
    BY <1>1 DEF Before
  <2> QED BY <1>3, <2>1 DEF AtParamKey
<1>4. ASSUME NEW j \in 1..NParams(i), NEW k, ReadingParam(order, i, j, k)
      PROVE  \E p \in 0..NParams(i) : domains = Stored(source, i, p, 0)
  <2>1. j - 1 \in 0..NParams(i)
    BY <1>1
  <2> QED BY <1>4, <2>1 DEF ReadingParam
<1>5. ASSUME NEW j \in 0..NConstraints(i), ReadingConstraints(i, j)
      PROVE  domains = Stored(source, i, Before(NParams(i)), j)
  BY <1>5 DEF ReadingConstraints
<1>6. ASSUME NEW j \in 1..NConstraints(i) + 1, AtConstraintKey(order, i, j)
      PROVE  \E c \in 0..NConstraints(i) :
               domains = Stored(source, i, Before(NParams(i)), c)
  <2>1. Before(j - 1) \in 0..NConstraints(i)
    BY <1>1 DEF Before
  <2> QED BY <1>5, <1>6, <2>1 DEF AtConstraintKey
<1>7. ASSUME NEW j \in 1..NConstraints(i),
             AtExprKey(order, i, j) \/ AtExprValue(order, i, j)
      PROVE  \E c \in 0..NConstraints(i) :
               domains = Stored(source, i, Before(NParams(i)), c)
  <2>1. j - 1 \in 0..NConstraints(i)
    BY <1>1
  <2> QED BY <1>5, <1>7, <2>1 DEF AtExprKey, AtExprValue
<1>8. CASE AtExplorationArray(order, i) \/ AtDomainKey(order, i)
  BY <1>1, <1>8 DEF AtExplorationArray, AtDomainKey, ReadDomain
<1>9. ASSUME NEW j \in 1..NParams(i), NEW k \in 1..3,
             \/ AtFieldKey(order, i, j, k) \/ AtFieldValue(order, i, j, k)
             \/ \E c \in Nat : AtRangeValue(order, i, j, k, c)
      PROVE  \E p \in 0..NParams(i) : domains = Stored(source, i, p, 0)
  BY <1>4, <1>9 DEF AtFieldKey, AtFieldValue, AtRangeValue
<1> QED BY <1>1, <1>2, <1>3, <1>6, <1>7, <1>8, <1>9 DEF InDomain

\* Every step from a state of the invariant leads to one.
LEMMA Inductive == IInv /\ [Next]_vars => IInv'
<1> SUFFICES ASSUME IInv, [Next]_vars PROVE IInv'
  OBVIOUS
<1>0. source \in Descriptions /\ Len(source) \in Nat \ {0}
  BY SourceTypes DEF IInv
<1>1. CASE UNCHANGED vars
  <2>1. /\ source' = source /\ visits' = visits /\ buf' = buf /\ domains' = domains
        /\ rrl' = rrl /\ status' = status
    BY <1>1 DEF vars
  <2>2. BufferType' /\ RrlFollows'
    BY <2>1 DEF IInv, BufferType, RrlFollows
  <2>3. \A i : NParams(i)' = NParams(i) /\ NConstraints(i)' = NConstraints(i)
    BY <2>1 DEF NParams, NConstraints
  <2>4. \A i, j : PendingParam(i, j) => PendingParam(i, j)'
    BY <2>1, PendingKept
  <2>5. \A i, j : PendingConstraint(i, j) => PendingConstraint(i, j)'
    BY <2>1 DEF PendingConstraint
  <2>6. ASSUME NEW order, NEW i, NEW j, NEW k, ReadingParam(order, i, j, k)
        PROVE  ReadingParam(order, i, j, k)'
    <3> DEFINE param == source[i].paramsArray[j]
    <3>1. \A m \in 1..k - 1 : Holds(order[m], param)
      BY <2>6 DEF ReadingParam
    <3>2. ASSUME NEW m \in 1..k - 1 PROVE Holds(order[m], param)'
      <4>1. Holds(order[m], param)
        BY <3>1
      <4> QED BY <2>1, <4>1 DEF Holds
    <3> QED BY <2>1, <2>5, <2>6, <3>2 DEF ReadingParam
  <2>7. \A i, j : ReadingConstraints(i, j) => ReadingConstraints(i, j)'
    BY <2>1, <2>3, <2>4 DEF ReadingConstraints
  <2>8. \A i : ReadDomain(i) => ReadDomain(i)'
    BY <2>1, <2>3, <2>4, <2>5 DEF ReadDomain
  <2>9. ASSUME NEW order, NEW i, InDomain(order, i)
        PROVE  InDomain(order, i)'
    <3>1. AtParams(order, i) => AtParams(order, i)'
      BY <2>1, <2>4, <2>5 DEF AtParams
    <3>2. \A j : AtParamKey(order, i, j) => AtParamKey(order, i, j)'
      BY <2>1, <2>4, <2>5 DEF AtParamKey
    <3>3. \A j, k : AtFieldKey(order, i, j, k) => AtFieldKey(order, i, j, k)'
      BY <2>1, <2>6 DEF AtFieldKey
    <3>4. \A j, k : AtFieldValue(order, i, j, k) => AtFieldValue(order, i, j, k)'
      BY <2>1, <2>6 DEF AtFieldValue
    <3>5. \A j, k, c : AtRangeValue(order, i, j, k, c) => AtRangeValue(order, i, j, k, c)'
      BY <2>1, <2>6 DEF AtRangeValue
    <3>6. \A j : AtConstraintKey(order, i, j) => AtConstraintKey(order, i, j)'
      BY <2>1, <2>5, <2>7 DEF AtConstraintKey
    <3>7. \A j : AtExprKey(order, i, j) => AtExprKey(order, i, j)'
      BY <2>1, <2>7 DEF AtExprKey
    <3>8. \A j : AtExprValue(order, i, j) => AtExprValue(order, i, j)'
      BY <2>1, <2>7 DEF AtExprValue
    <3>9. /\ AtExplorationArray(order, i) => AtExplorationArray(order, i)'
          /\ AtDomainKey(order, i) => AtDomainKey(order, i)'
      BY <2>1, <2>8 DEF AtExplorationArray, AtDomainKey
    <3> QED BY <2>1, <2>3, <2>9, <3>1, <3>2, <3>3, <3>4, <3>5, <3>6, <3>7, <3>8, <3>9
       DEF InDomain
  <2>10. Walking => Walking'
    BY <2>1, <2>9 DEF Walking, AtStart
  <2> QED BY <2>1, <2>2, <2>10 DEF IInv
<1>2. CASE Next /\ status # "walking"
  <2>1. Done
    BY <1>2 DEF Next, enter_domain, crash, enter_section, enter_param,
       enter_constraint, enter_subsection, process_array, process_integer,
       process_string, finish, VisitingKey, Visiting
  <2> QED BY <1>1, <2>1 DEF Done
\* A place in a domain is a state of the invariant.
<1>3. ASSUME NEW order \in KeyOrders, NEW i \in 1..Len(source), source' = source,
             Active(i)', InDomain(order, i)'
      PROVE  IInv'
  <2>1. Walking'
    BY <1>3 DEF Walking
  <2>2. i \in 0..i /\ i <= Len(source)
    BY <1>0
  <2>3. /\ source' \in Descriptions /\ status' = "walking" /\ BufferType' /\ RrlFollows'
        /\ buf'.current_domain = i /\ Len(domains') = i
    BY <1>3 DEF Active
  <2> QED BY <1>3, <2>1, <2>2, <2>3 DEF IInv
<1>4. CASE Next /\ status = "walking"
  <2>1. PICK order \in KeyOrders :
          AtStart(order) \/ \E i \in 1..Len(source) : InDomain(order, i)
    BY <1>4 DEF IInv, Walking
  <2>2. CASE AtStart(order)
    <3>1. /\ source' = source
          /\ \/ Active(1)' /\ AtParams(order, 1)'
             \/ status' = "crashed" /\ UNCHANGED <<buf, domains, rrl>>
      BY <1>0, <1>4, <2>2, FromStart DEF IInv
    <3>2. CASE Active(1)' /\ AtParams(order, 1)'
      <4>1. InDomain(order, 1)' /\ 1 \in 1..Len(source)
        BY <1>0, <3>2 DEF InDomain, Active
      <4> QED BY <1>3, <3>1, <3>2, <4>1
    <3>3. CASE status' = "crashed" /\ UNCHANGED <<buf, domains, rrl>>
      <4>1. domains' = <<NewDomain(ATP_DFLT_DOMAIN)>>
        BY <2>2, <3>3 DEF AtStart
      <4>2. BufferType' /\ RrlFollows'
        BY <3>3 DEF IInv, BufferType, RrlFollows
      <4> QED BY <3>1, <3>3, <4>1, <4>2 DEF IInv
    <3> QED BY <3>1, <3>2, <3>3
  <2>3. CASE \E i \in 1..Len(source) : InDomain(order, i)
    <3>1. PICK i \in 1..Len(source) : InDomain(order, i)
      BY <2>3
    <3>2. CASE source' = source /\ Active(i)' /\ InDomain(order, i)'
      BY <1>3, <3>2
    <3>3. CASE /\ source' = source /\ i + 1 \in 1..Len(source)
               /\ Active(i + 1)' /\ InDomain(order, i + 1)'
      BY <1>3, <3>3
    <3>4. CASE /\ source' = source /\ status' = "loaded" /\ domains' = source
               /\ buf' = buf /\ RrlFollows'
      <4>1. BufferType'
        BY <3>4 DEF IInv, BufferType
      <4>2. buf'.current_domain \in 0..Len(domains') /\ Len(domains') <= Len(source')
        BY <1>0, <3>4 DEF IInv
      <4> QED BY <1>0, <3>4, <4>1, <4>2 DEF IInv
    <3> QED BY <1>4, <3>1, <3>2, <3>3, <3>4, StepInDomain
  <2> QED BY <2>1, <2>2, <2>3
<1> QED BY <1>1, <1>2, <1>4

-----------------------------------------------------------------------------
(* The theorems.                                                           *)

\* Loading any file that ATP_gen_descfile prints, whatever data_buf holds at
\* first, the walk is always at one of the places above: what was visited is in
\* domArray, except for the last parameter and constraint, pending in data_buf.
THEOREM InvariantHolds == Spec => []IInv
<1> QED BY Initially, Inductive, PTL DEF Spec

\* data_buf's flags, indices and cursor stay in their ranges: the domain that
\* is being read is in domArray, and the cursor is in the range's buffer.
THEOREM TypeCorrect == Spec => []TypeOK
<1>1. IInv => TypeOK
  BY DEF IInv, BufferType, TypeOK
<1> QED BY <1>1, InvariantHolds, PTL

\* A file that is read to its end gives exactly the description it was printed
\* from (ATP_gen_descfile, then ATP_load_descfile).
THEOREM RoundTripHolds == Spec => []RoundTrip
<1>1. IInv => RoundTrip
  BY DEF IInv, RoundTrip
<1> QED BY <1>1, InvariantHolds, PTL

\* ATP_param_declare told the RRL of exactly the parameters that are in
\* domArray, under the domain and with the default they have there.
THEOREM RrlFollowsHolds == Spec => []RrlFollows
<1>1. IInv => RrlFollows
  BY DEF IInv
<1> QED BY <1>1, InvariantHolds, PTL

LEMMA StoredIsBeginning ==
  ASSUME source \in Descriptions, NEW i \in 1..Len(source),
         NEW p \in 0..NParams(i), NEW c \in 0..NConstraints(i),
         domains = Stored(source, i, p, c)
  PROVE  NothingWrongYet
<1>1. p \in 0..Len(source[i].paramsArray) /\ c \in 0..Len(source[i].constraintsArray)
  BY DEF NParams, NConstraints
<1>2. /\ Len(domains) = i /\ domains[i] = Beginning(source[i], p, c)
      /\ \A h \in 1..i - 1 : domains[h] = source[h]
  BY <1>1, StoredType
<1>3. /\ domains[i].domName = source[i].domName
      /\ IsPrefix(domains[i].paramsArray, source[i].paramsArray)
      /\ IsPrefix(domains[i].constraintsArray, source[i].constraintsArray)
  <2> DEFINE b == Beginning(source[i], p, c)
             ps == source[i].paramsArray
             cs == source[i].constraintsArray
  <2>0. LET b2 == Beginning(source[i], p, c)
        IN /\ b2.domName = source[i].domName
           /\ b2.paramsArray = SubSeq(source[i].paramsArray, 1, p)
           /\ b2.paramsArray \in Seq(Params) /\ Len(b2.paramsArray) = p
           /\ b2.constraintsArray = SubSeq(source[i].constraintsArray, 1, c)
           /\ b2.constraintsArray \in Seq(Constraints) /\ Len(b2.constraintsArray) = c
    <3> HIDE DEF b, ps, cs
    <3> QED BY <1>1, BeginningFields
  <2>1. /\ b.domName = source[i].domName
        /\ b.paramsArray = SubSeq(ps, 1, p) /\ b.paramsArray \in Seq(Params)
        /\ Len(b.paramsArray) = p
        /\ b.constraintsArray = SubSeq(cs, 1, c) /\ b.constraintsArray \in Seq(Constraints)
        /\ Len(b.constraintsArray) = c
    BY <2>0, Zenon
  <2>2. SubSeq(b.paramsArray, 1, p) = b.paramsArray
    <3> HIDE DEF b
    <3> QED BY <2>1, SubSeqFull
  <2>3. SubSeq(b.constraintsArray, 1, c) = b.constraintsArray
    <3> HIDE DEF b
    <3> QED BY <2>1, SubSeqFull
  <2>4. p <= Len(ps) /\ c <= Len(cs)
    BY <1>1
  <2> HIDE DEF b, ps, cs
  <2>5. IsPrefix(b.paramsArray, ps) /\ IsPrefix(b.constraintsArray, cs)
    BY <2>1, <2>2, <2>3, <2>4 DEF IsPrefix
  <2> QED BY <1>2, <2>1, <2>5 DEF b, ps, cs
<1>4. ASSUME NEW h \in 1..i - 1
      PROVE  /\ domains[h].domName = source[h].domName
             /\ IsPrefix(domains[h].paramsArray, source[h].paramsArray)
             /\ IsPrefix(domains[h].constraintsArray, source[h].constraintsArray)
  <2>1. h \in 1..Len(source)
    BY SourceTypes
  <2>2. Len(source[h].paramsArray) \in Nat /\ Len(source[h].constraintsArray) \in Nat
    BY <2>1, DomainTypes
  <2> QED BY <1>2, <2>2 DEF IsPrefix
<1>5. \A h \in 1..Len(domains) : h \in 1..i - 1 \/ h = i
  BY <1>2
<1> QED BY <1>3, <1>4, <1>5 DEF NothingWrongYet

\* At every visit the domains of domArray are the first ones of the file, in
\* its order, each with a beginning of its parameters and constraints: a walk
\* that stops early has added nothing wrong.
THEOREM NothingWrong == Spec => []NothingWrongYet
<1>1. ASSUME IInv PROVE NothingWrongYet
  <2>0. source \in Descriptions /\ Len(source) \in Nat \ {0}
    BY <1>1, SourceTypes DEF IInv
  <2>1. 1 \in 1..Len(source) /\ 0 \in 0..NParams(1) /\ 0 \in 0..NConstraints(1)
    BY <2>0, Counts
  <2>2. CASE domains = <<NewDomain(ATP_DFLT_DOMAIN)>>
    BY <2>0, <2>1, <2>2, StoredFirst, StoredIsBeginning
  <2>3. CASE domains = source
    <3>1. \A h \in 1..Len(source) :
            Len(source[h].paramsArray) \in Nat /\ Len(source[h].constraintsArray) \in Nat
      BY <2>0, DomainTypes
    <3> QED BY <2>3, <3>1 DEF NothingWrongYet, IsPrefix
  <2>4. CASE Walking
    <3>1. PICK order \in KeyOrders :
            AtStart(order) \/ \E i \in 1..Len(source) : InDomain(order, i)
      BY <2>4 DEF Walking
    <3>2. CASE AtStart(order)
      BY <2>2, <3>2 DEF AtStart
    <3>3. CASE \E i \in 1..Len(source) : InDomain(order, i)
      BY <2>0, <3>3, InDomainStored, StoredIsBeginning
    <3> QED BY <3>1, <3>2, <3>3
  <2> QED BY <1>1, <2>2, <2>3, <2>4 DEF IInv
<1> QED BY <1>1, InvariantHolds, PTL
=============================================================================

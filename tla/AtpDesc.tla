------------------------------- MODULE AtpDesc -------------------------------
(***************************************************************************)
(* The loader of the description file (src/common/atpdesc.c): it walks the *)
(* JSON value once and fills data_buf, one field per visited value, and    *)
(* moves what data_buf holds into domArray only when it meets the next     *)
(* entry, the next domain or the end.  AtpLibrary's load_desc_file takes   *)
(* this walk as one step that copies the file.                             *)
(*                                                                         *)
(* The recursion over the JSON value is a sequence of visits: a key of an  *)
(* object with its depth, the beginning of an array, an integer, a string, *)
(* and the end of the outermost object.                                    *)
(***************************************************************************)
EXTENDS AtpCommon, SequencesExt

CONSTANTS
  Names, Exprs,  \* the names and the constraint expressions in them
  Descriptions,  \* the descriptions that may be in the file
  KeyOrders,     \* the orders of "range", "type" and "default" in an entry
  Garbage        \* what data_buf's counters and flags may hold at first

\* What ATP_gen_descfile prints: "default" is the first domain, no two domains
\* have one name, every parameter has its values, and explorations stay empty.
Printed(ds) ==
  /\ ds \in Seq(atp_domain_t(Names, atp_param_t(Names, Int, Int),
                             atp_constraint_t(Names, Exprs), {}))
  /\ ds # <<>> /\ ds[1].domName = ATP_DFLT_DOMAIN
  /\ \A i, k \in 1..Len(ds) : ds[i].domName = ds[k].domName => i = k
  /\ \A i \in 1..Len(ds) : \A j \in 1..Len(ds[i].paramsArray) :
       ds[i].paramsArray[j].valueArray # Uninit

ASSUME DescriptionsAssumption ==
  NULL \notin Names /\ \A ds \in Descriptions : Printed(ds)

\* Every entry has the three keys, once each, and "range" is not the last.
FieldKeys == {"range", "type", "default"}

ASSUME KeyOrdersAssumption ==
  \A order \in KeyOrders :
    /\ order \in [1..3 -> FieldKeys]
    /\ \A m, n \in 1..3 : order[m] = order[n] => m = n
    /\ order[3] # "range"

VARIABLES
  source,        \* the description that is in the file
  visits,        \* what remains to be visited of the file
  buf,           \* data_buf
  domains,       \* domArray, after ATP_init
  rrl,           \* what rrl_atp_param_declare was told
  status         \* "walking", "loaded" or "crashed"

vars == <<source, visits, buf, domains, rrl, status>>

-----------------------------------------------------------------------------
(* The file that ATP_gen_descfile prints, as the visits it gives rise to.  *)

Key(depth, name) == [visit |-> "key", depth |-> depth, name |-> name]
Array(length) == [visit |-> "array", length |-> length]
Integer(v) == [visit |-> "integer", value |-> v]
String(v) == [visit |-> "string", value |-> v]
EndOfFile == [visit |-> "end"]

Integers(vs) == [k \in 1..Len(vs) |-> Integer(vs[k])]

FieldVisits(param, key) ==
  <<Key(4, key)>> \o
  CASE key = "range" -> <<Array(Len(param.valueArray))>> \o Integers(param.valueArray)
    [] key = "type" -> <<Integer(param.paramType)>>
    [] key = "default" -> <<Integer(param.defaultVal)>>

ParamVisits(param, order) ==
  <<Key(3, param.paramName)>> \o
  FlattenSeq([k \in 1..Len(order) |-> FieldVisits(param, order[k])])

ConstraintVisits(c) ==
  <<Key(3, c.constName), Key(4, "expr"), String(c.constExpr)>>

DomainVisits(d, order) ==
  <<Key(1, d.domName), Key(2, "params")>> \o
  FlattenSeq([j \in 1..Len(d.paramsArray) |-> ParamVisits(d.paramsArray[j], order)]) \o
  <<Key(2, "constraints")>> \o
  FlattenSeq([j \in 1..Len(d.constraintsArray) |->
                ConstraintVisits(d.constraintsArray[j])]) \o
  <<Key(2, "explorations"), Array(d.numExplorations)>>

FileVisits(ds, order) ==
  FlattenSeq([i \in 1..Len(ds) |-> DomainVisits(ds[i], order)]) \o <<EndOfFile>>

-----------------------------------------------------------------------------
(* data_buf.  Flags are integers, as they are compared with 1.             *)

data_buf_init ==
  [current_domain |-> NoIndex, pname |-> NULL, cname |-> NULL, range |-> <<>>,
   nvalues |-> 0, nexplorations |-> 0, explorations |-> <<>>, cursor |-> 0,
   type |-> 0, dflt |-> 0, expr |-> NULL,
   in_domain |-> 0, in_param |-> 0, in_range |-> 0, in_type |-> 0,
   in_default |-> 0, in_constraint |-> 0, in_exploration |-> 0,
   param_counter |-> 0, constraint_counter |-> 0]

\* parse_atp_desc declares data_buf without initialising it.
Uninitialised(g, h, i) ==
  [data_buf_init EXCEPT !.in_domain = g, !.param_counter = h,
                        !.constraint_counter = i]

UninitialisedBuf == {Uninitialised(g, h, i) : g, h, i \in Garbage}

\* Moving the pending entry into the domain it was read in.  Nothing is
\* pending when the counter is 0.
commit_param ==
  IF buf.param_counter = 0
    THEN domains
    ELSE LET d == buf.current_domain
             ds == ATP_param_new(buf.pname, buf.type, buf.dflt, d, domains)
         IN ATP_param_add_values(Len(ds[d].paramsArray), d,
                                 SubSeq(buf.range, 1, buf.nvalues), ds)

\* Mutant: every parameter is declared in the domain "default".
commit_param_rrl_dflt ==
  IF buf.param_counter = 0
    THEN rrl
    ELSE rrl \cup {<<buf.pname, buf.dflt, ATP_DFLT_DOMAIN>>}

commit_param_rrl ==
  IF buf.param_counter = 0
    THEN rrl
    ELSE rrl \cup {<<buf.pname, buf.dflt, domains[buf.current_domain].domName>>}

commit_constraint(ds) ==
  IF buf.constraint_counter = 0
    THEN ds
    ELSE ATP_constraint_new(buf.cname, buf.expr, buf.current_domain, ds)

Flag(b) == IF b THEN 1 ELSE 0

-----------------------------------------------------------------------------
Init ==
  /\ source \in Descriptions
  /\ \E order \in KeyOrders : visits = FileVisits(source, order)
  /\ buf \in UninitialisedBuf
  /\ domains = ATP_domain_new(ATP_DFLT_DOMAIN, <<>>)
  /\ rrl = {}
  /\ status = "walking"

Visiting(kind) ==
  /\ status = "walking"
  /\ Head(visits).visit = kind
  /\ visits' = Tail(visits)
  /\ UNCHANGED source

VisitingKey(depth) == Visiting("key") /\ Head(visits).depth = depth

\* What is committed before data_buf_init has ever run is garbage.
CommitsGarbage ==
  /\ buf.in_domain = 1
  /\ buf.current_domain = NoIndex
  /\ buf.param_counter # 0 \/ buf.constraint_counter # 0

enter_domain ==
  LET committed == IF buf.in_domain = 1 THEN commit_constraint(commit_param)
                                        ELSE domains
      name == Head(visits).name
      ds == ATP_domain_new(name, committed)
  IN /\ VisitingKey(1)
     /\ ~CommitsGarbage
     /\ domains' = ds
     /\ rrl' = IF buf.in_domain = 1 THEN commit_param_rrl ELSE rrl
     /\ buf' = [data_buf_init EXCEPT !.in_domain = 1,
                  !.current_domain = ATP_domain_find(name, ds)]
     /\ UNCHANGED status

crash ==
  /\ VisitingKey(1)
  /\ CommitsGarbage
  /\ status' = "crashed"
  /\ UNCHANGED <<buf, domains, rrl>>

enter_section ==
  /\ VisitingKey(2)
  /\ LET name == Head(visits).name
     IN buf' = [buf EXCEPT !.in_param = Flag(name = "params"),
                           !.in_constraint = Flag(name = "constraints"),
                           !.in_exploration = Flag(name = "explorations")]
  /\ UNCHANGED <<domains, rrl, status>>

\* Mutant: the pending parameter is overwritten.
enter_param_overwriting ==
  /\ VisitingKey(3)
  /\ buf.in_param = 1
  /\ buf' = [buf EXCEPT !.param_counter = @ + 1, !.pname = Head(visits).name]
  /\ UNCHANGED <<domains, rrl, status>>

enter_param ==
  /\ VisitingKey(3)
  /\ buf.in_param = 1
  /\ domains' = commit_param
  /\ rrl' = commit_param_rrl
  /\ buf' = [buf EXCEPT !.param_counter = @ + 1, !.pname = Head(visits).name]
  /\ UNCHANGED status

enter_constraint ==
  /\ VisitingKey(3)
  /\ buf.in_constraint = 1
  /\ domains' = commit_constraint(domains)
  /\ buf' = [buf EXCEPT !.constraint_counter = @ + 1, !.cname = Head(visits).name]
  /\ UNCHANGED <<rrl, status>>

enter_subsection ==
  /\ VisitingKey(4)
  /\ LET name == Head(visits).name
     IN buf' = [buf EXCEPT !.in_range = Flag(name = "range"),
                           !.in_type = Flag(name = "type"),
                           !.in_default = Flag(name = "default")]
  /\ UNCHANGED <<domains, rrl, status>>

\* Mutant: the cursor is not reset.
process_array_resuming ==
  LET length == Head(visits).length
      fresh == [k \in 1..length |-> Uninit]
  IN /\ Visiting("array")
     /\ buf' = IF buf.in_range = 1
                 THEN [buf EXCEPT !.nvalues = length, !.range = fresh]
                 ELSE buf
     /\ UNCHANGED <<domains, rrl, status>>

\* The flags of the last key stay set: an array is taken for every one of
\* them that is 1.
process_array ==
  LET length == Head(visits).length
      fresh == [k \in 1..length |-> Uninit]
      ranged == IF buf.in_range = 1
                  THEN [buf EXCEPT !.nvalues = length, !.range = fresh, !.cursor = 0]
                  ELSE buf
  IN /\ Visiting("array")
     /\ buf' = IF buf.in_exploration = 1
                 THEN [ranged EXCEPT !.nexplorations = length,
                                     !.explorations = fresh, !.cursor = 0]
                 ELSE ranged
     /\ UNCHANGED <<domains, rrl, status>>

\* type is int8_t here and uint8_t where it is stored: the same value again.
\* The integers of a file are in its params, as its explorations are empty.
process_integer ==
  LET v == Head(visits).value
      ranging == buf.in_range = 1
  IN /\ Visiting("integer")
     /\ buf.in_param = 1
     /\ buf' = [buf EXCEPT
          !.range = IF ranging THEN [@ EXCEPT ![buf.cursor + 1] = v] ELSE @,
          !.cursor = IF ranging THEN @ + 1 ELSE @,
          !.type = IF buf.in_type = 1 THEN v ELSE @,
          !.dflt = IF buf.in_default = 1 THEN v ELSE @]
     /\ UNCHANGED <<domains, rrl, status>>

process_string ==
  /\ Visiting("string")
  /\ buf' = IF buf.in_constraint = 1 THEN [buf EXCEPT !.expr = Head(visits).value]
                                     ELSE buf
  /\ UNCHANGED <<domains, rrl, status>>

\* Mutant: what is pending at the end is lost.
finish_early ==
  /\ Visiting("end")
  /\ status' = "loaded"
  /\ UNCHANGED <<buf, domains, rrl>>

\* The end of the object of depth 1 commits what is still pending.
finish ==
  /\ Visiting("end")
  /\ domains' = commit_constraint(commit_param)
  /\ rrl' = commit_param_rrl
  /\ status' = "loaded"
  /\ UNCHANGED buf

Done == status # "walking" /\ UNCHANGED vars

Next == \/ enter_domain \/ crash \/ enter_section \/ enter_param
        \/ enter_constraint \/ enter_subsection \/ process_array
        \/ process_integer \/ process_string \/ finish \/ Done

Spec == Init /\ [][Next]_vars

-----------------------------------------------------------------------------
TypeOK ==
  /\ source \in Descriptions
  /\ status \in {"walking", "loaded", "crashed"}
  /\ buf.in_domain \in Garbage \cup {1}
  /\ \A f \in {buf.in_param, buf.in_range, buf.in_type, buf.in_default,
               buf.in_constraint, buf.in_exploration} : f \in {0, 1}
  /\ buf.current_domain \in 0..Len(domains)
  /\ buf.cursor \in 0..Len(buf.range)
  /\ Len(domains) <= Len(source)

\* Loading is the inverse of printing: no pending entry is lost at the end of
\* a domain or of the file, committed twice, or committed with a field that
\* another entry left in data_buf.
RoundTrip == status = "loaded" => domains = source

\* At every visit, each domain holds a beginning of the parameters and of the
\* constraints it is to hold, so that a walk that stops early (the crash, a
\* process killed while loading) has added nothing wrong.
NothingWrongYet ==
  \A i \in 1..Len(domains) :
    /\ domains[i].domName = source[i].domName
    /\ IsPrefix(domains[i].paramsArray, source[i].paramsArray)
    /\ IsPrefix(domains[i].constraintsArray, source[i].constraintsArray)

\* While the file is walked the RRL is told of exactly the parameters that
\* are in domArray, under the domain and with the default they have there.
RrlFollows == rrl = DeclaredIn(domains)
=============================================================================

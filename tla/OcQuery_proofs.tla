---------------------------- MODULE OcQuery_proofs ----------------------------
(***************************************************************************)
(* What holds of the query for any number of servers, directories and      *)
(* domains, and any answers of the calculator: the types, and that a       *)
(* server alone in its directory answers with what was found for its own   *)
(* request, whose tuples are those of the domain that was asked for.       *)
(***************************************************************************)
EXTENDS OcQuery, AtpCommon_proofs

(***************************************************************************)
(* The description that the servers have loaded.                           *)
(***************************************************************************)
AParam == atp_param_t(Names, Int, Int)
AConstraint == atp_constraint_t(Names, Expressions)

Params(d) == domains[d].paramsArray
Constraints(d) == domains[d].constraintsArray

LEMMA DomainsLen == Len(domains) \in Nat
<1>1. domains \in Seq(atp_domain_t(Names, AParam, AConstraint, {}))
  BY DomainsAssumption DEF AParam, AConstraint
<1> QED BY <1>1

LEMMA DomainFields ==
  ASSUME NEW d \in 1..Len(domains)
  PROVE  Params(d) \in Seq(AParam) /\ Constraints(d) \in Seq(AConstraint)
<1> DEFINE D == atp_domain_t(Names, AParam, AConstraint, {})
<1>1. domains \in Seq(D)
  BY DomainsAssumption DEF AParam, AConstraint
<1>2. domains[d] \in D
  <2> HIDE DEF D
  <2> QED BY <1>1
<1> QED BY <1>2 DEF atp_domain_t, Params, Constraints

LEMMA ParamFields ==
  ASSUME NEW d \in 1..Len(domains), NEW i \in 1..Len(Params(d))
  PROVE  /\ Params(d)[i] \in AParam
         /\ Params(d)[i].paramType \in Int
         /\ Params(d)[i].valueArray \in Seq(Int)
         /\ \A j \in 1..Len(Params(d)) :
              Params(d)[j].paramName = Params(d)[i].paramName => j = i
<1>1. Params(d)[i] \in AParam
  BY DomainFields
<1>2. /\ Params(d)[i].paramType \in Int
      /\ Params(d)[i].valueArray \in Seq(Int) \cup {Uninit}
  <2> DEFINE p == Params(d)[i]
  <2>1. p \in AParam
    BY <1>1
  <2> HIDE DEF p
  <2>2. p.paramType \in Int /\ p.valueArray \in Seq(Int) \cup {Uninit}
    BY <2>1 DEF AParam, atp_param_t
  <2> QED BY <2>2 DEF p
<1>3. /\ Params(d)[i].valueArray # Uninit
      /\ \A j \in 1..Len(Params(d)) :
           Params(d)[j].paramName = Params(d)[i].paramName => j = i
  BY DomainsAssumption, Zenon DEF Params
<1> QED BY <1>1, <1>2, <1>3

(***************************************************************************)
(* The files, and what the texts in them are told apart by.                *)
(***************************************************************************)
LEMMA FoundDomain ==
  ASSUME NEW name
  PROVE  ATP_domain_find(name, domains) \in 0..Len(domains)
<1> DEFINE hits == {i \in 1..Len(domains) : domains[i].domName = Named(name)}
<1>1. hits \in SUBSET (1..Len(domains))
  OBVIOUS
<1>2. FirstOf(hits) = NoIndex \/ FirstOf(hits) \in hits
  <2> HIDE DEF hits
  <2> QED BY <1>1, FirstOfMatch, DomainsLen
<1> QED BY <1>2, DomainsLen DEF ATP_domain_find, NoIndex

LEMMA NoQueryDom == NoQuery.dom \in 0..Len(domains)
BY DomainsLen DEF NoQuery, NoIndex

LEMMA SilentKind == Silent.kind \in Texts
BY DEF Silent, Texts

LEMMA OutputKinds ==
  ASSUME NEW request, NEW o \in OcOutputs(request)
  PROVE  o.kind \in Texts
BY DEF OcOutputs, Texts, Silent, Message, Unrunnable, Program

LEMMA CodeKinds ==
  ASSUME NEW text
  PROVE  parse_code(text).kind \in {"program", "broken"}
<1>1. CASE text.kind = "silent"
  BY <1>1 DEF parse_code, Program
<1>2. CASE text.kind = "program"
  BY <1>2 DEF parse_code, Program
<1>3. CASE text.kind \notin {"silent", "program"}
  BY <1>3 DEF parse_code, Broken
<1> QED BY <1>1, <1>2, <1>3

LEMMA RequestFields ==
  ASSUME NEW domain, NEW garbage
  PROVE  DOMAIN ATP_build_oc_request(domain, garbage) = {"clauses", "constraints"}
BY DEF ATP_build_oc_request
-----------------------------------------------------------------------------
(***************************************************************************)
(* Types.  Between the question and the answer there is a request.         *)
(***************************************************************************)
Shape ==
  /\ DOMAIN query = Servers /\ DOMAIN code = Servers /\ DOMAIN reply = Servers
  /\ DOMAIN in = Dirs /\ DOMAIN out = Dirs /\ DOMAIN gen = Dirs

Working == {"lua", "write in", "execute oc", "oc", "read out", "open gen",
            "write gen", "execute gen"}

Asking ==
  \A s \in Servers :
    pc[s] \in Working => DOMAIN query[s].request = {"clauses", "constraints"}

Typed == TypeOK /\ Shape /\ Asking

LEMMA InitTyped == Init => Typed
<1> SUFFICES ASSUME Init PROVE Typed
  OBVIOUS
<1>1. \A s \in Servers : query[s].dom \in 0..Len(domains)
  BY DomainsLen DEF Init, NoQuery, NoIndex
<1>2. TypeOK
  BY <1>1 DEF Init, TypeOK, Texts, Silent, NoReply, NoFile, Opened
<1> QED BY <1>2 DEF Init, Typed, Shape, Asking, Working

LEMMA AskTyped ==
  ASSUME Typed, NEW s \in Servers, NEW name, UnknownDomain(s, name) \/ Ask(s, name)
  PROVE  Typed'
<1> USE DEF At, Go, Reply
<1>1. CASE UnknownDomain(s, name)
  <2>1. \A r \in Servers : query'[r].dom \in 0..Len(domains)
    BY <1>1, NoQueryDom DEF UnknownDomain, Typed, Shape, TypeOK
  <2>2. TypeOK'
    BY <1>1, <2>1 DEF UnknownDomain, Typed, Shape, TypeOK, Failure, files
  <2>3. Shape' /\ Asking'
    BY <1>1 DEF UnknownDomain, Typed, Shape, TypeOK, Asking, Working, files
  <2> QED BY <2>2, <2>3 DEF Typed
<1>2. CASE Ask(s, name)
  <2> DEFINE dom == ATP_domain_find(name, domains)
  <2>1. PICK garbage \in Garbage :
          query' = [query EXCEPT ![s] =
            [dom |-> dom, request |-> ATP_build_oc_request(domains[dom], garbage)]]
    BY <1>2 DEF Ask
  <2>2. dom \in 0..Len(domains)
    BY FoundDomain
  <2>3. DOMAIN ATP_build_oc_request(domains[dom], garbage) = {"clauses", "constraints"}
    BY RequestFields
  <2> HIDE DEF dom
  <2>4. query'[s].dom = dom /\ \A r \in Servers \ {s} : query'[r] = query[r]
    BY <2>1 DEF Typed, Shape
  <2>5. TypeOK'
    BY <1>2, <2>2, <2>4 DEF Ask, Typed, Shape, TypeOK, NoReply, files
  <2>6. Shape' /\ Asking'
    BY <1>2, <2>1, <2>3 DEF Ask, Typed, Shape, TypeOK, Asking, Working, files
  <2> QED BY <2>5, <2>6 DEF Typed
<1> QED BY <1>1, <1>2

LEMMA RunTyped ==
  ASSUME Typed, NEW s \in Servers, oc_request_range_generation(s)
  PROVE  Typed'
<1> USE DirsAssumption DEF At, Go, Reply, InDir, Typed, Shape, TypeOK, Asking, Working
<1>1. CASE OpenIn(s)
  BY <1>1 DEF OpenIn, Opened, NoFile
<1>2. CASE WriteIn(s)
  BY <1>2 DEF WriteIn
<1>3. CASE Redirect(s)
  BY <1>3 DEF Redirect, Silent, Texts
<1>4. CASE RunOc(s)
  <2>1. PICK o \in IF in[DirOf[s]] = Opened THEN {Silent} ELSE OcOutputs(in[DirOf[s]]) :
          out' = [out EXCEPT ![DirOf[s]] = o]
    BY <1>4 DEF RunOc
  <2>2. o.kind \in Texts
    <3>1. CASE in[DirOf[s]] = Opened
      BY <2>1, <3>1, SilentKind
    <3>2. CASE in[DirOf[s]] # Opened
      BY <2>1, <3>2, OutputKinds
    <3> QED BY <3>1, <3>2
  <2>3. out' = [out EXCEPT ![DirOf[s]] = o]
    BY <2>1
  <2> QED BY <1>4, <2>2, <2>3 DEF RunOc
<1>5. CASE ReadOut(s)
  BY <1>5 DEF ReadOut, NoFile, files
<1>6. CASE NoOutput(s)
  BY <1>6 DEF NoOutput, Gone, NoReply, files
<1>7. CASE OpenGen(s)
  BY <1>7 DEF OpenGen, Opened
<1>8. CASE WriteGen(s)
  <2>1. parse_code(code[s]).kind \in {"program", "broken"}
    BY CodeKinds
  <2> QED BY <1>8, <2>1 DEF WriteGen
<1>9. CASE execute_lua_code(s)
  BY <1>9 DEF execute_lua_code, Success, Failure, files
<1> QED BY <1>1, <1>2, <1>3, <1>4, <1>5, <1>6, <1>7, <1>8, <1>9
       DEF oc_request_range_generation

LEMMA FaultTyped ==
  ASSUME Typed, NEW s \in Servers, Fault(s) \/ Restart(s)
  PROVE  Typed'
<1> USE DEF At, Go, Reply, Typed, Shape, TypeOK, Asking, Working, files
<1>1. CASE LuaFails(s)
  BY <1>1 DEF LuaFails, Failure
<1>2. CASE ForkFails(s)
  BY <1>2 DEF ForkFails
<1>3. CASE Gone(s)
  BY <1>3 DEF Gone, NoReply
<1>4. CASE Restart(s)
  BY <1>4, NoQueryDom, SilentKind DEF Restart
<1> QED BY <1>1, <1>2, <1>3, <1>4 DEF Fault, OpenFails, Kill

LEMMA StepTyped == Typed /\ [Next]_vars => Typed'
<1> SUFFICES ASSUME Typed, [Next]_vars PROVE Typed'
  OBVIOUS
<1>1. CASE Next
  BY <1>1, AskTyped, RunTyped, FaultTyped DEF Next
<1>2. CASE UNCHANGED vars
  BY <1>2 DEF vars, files, Typed, Shape, TypeOK, Asking
<1> QED BY <1>1, <1>2

(***************************************************************************)
(* Every reachable state is well typed: whatever order servers and the     *)
(* calculator write the files in, gen_file.lua holds no text of the        *)
(* calculator as it is, and oc_query.in nothing but a request.             *)
(***************************************************************************)
THEOREM TypeCorrect == Spec => []TypeOK
<1>1. Init => Typed
  BY InitTyped
<1>2. Typed /\ [Next]_vars => Typed'
  BY StepTyped
<1>3. Typed => TypeOK
  BY DEF Typed
<1> QED BY <1>1, <1>2, <1>3, PTL DEF Spec
-----------------------------------------------------------------------------
(***************************************************************************)
(* The way of a request through the files of a server that is alone in its *)
(* directory: what it wrote is what is found, at each of the stations.     *)
(***************************************************************************)
Outputs(s) == OcOutputs(query[s].request)

FlowOf(s) ==
  /\ pc[s] \in {"execute oc", "oc"} => in[DirOf[s]] = query[s].request
  /\ pc[s] = "read out" /\ ~unrun[s] => out[DirOf[s]] \in Outputs(s)
  /\ pc[s] \in {"open gen", "write gen"} /\ ~unrun[s] => code[s] \in Outputs(s)
  /\ pc[s] = "execute gen" /\ ~unrun[s] =>
       \E o \in Outputs(s) : gen[DirOf[s]] = parse_code(o)
  /\ Succeeded(s) /\ ~unrun[s] =>
       \E o \in Outputs(s) : /\ parse_code(o).kind = "program"
                            /\ reply[s] = Success(parse_code(o).tuples)
  /\ pc[s] = "gone" => reply[s].status = "none"

Flow == \A s \in Servers : Alone(s) => FlowOf(s)

\* What the conditions of FlowOf look at.
View(s) == <<pc[s], query[s], code[s], reply[s], unrun[s],
             in[DirOf[s]], out[DirOf[s]], gen[DirOf[s]]>>

LEMMA ViewDecides ==
  ASSUME NEW s \in Servers, FlowOf(s), View(s)' = View(s)
  PROVE  FlowOf(s)'
<1>1. /\ pc'[s] = pc[s] /\ query'[s] = query[s] /\ code'[s] = code[s]
      /\ reply'[s] = reply[s] /\ unrun'[s] = unrun[s]
      /\ in'[DirOf[s]] = in[DirOf[s]] /\ out'[DirOf[s]] = out[DirOf[s]]
      /\ gen'[DirOf[s]] = gen[DirOf[s]]
  BY DEF View
<1> QED BY <1>1 DEF FlowOf, Outputs, Succeeded, At

(***************************************************************************)
(* The steps of a server leave another one's directory alone.              *)
(***************************************************************************)
LEMMA OthersKept ==
  ASSUME Typed, NEW s \in Servers, NEW r \in Servers, r # s, Alone(r),
         NEW name,
         \/ UnknownDomain(s, name) \/ Ask(s, name)
         \/ oc_request_range_generation(s) \/ Fault(s) \/ Restart(s)
  PROVE  View(r)' = View(r)
<1>1. DirOf[s] # DirOf[r] /\ DirOf[r] \in Dirs /\ DirOf[s] \in Dirs
  BY DirsAssumption DEF Alone
<1> USE <1>1 DEF At, Go, Reply, InDir, Typed, Shape, TypeOK, View, files
<1>2. CASE UnknownDomain(s, name) \/ Ask(s, name)
  BY <1>2 DEF UnknownDomain, Ask
<1>3. CASE OpenIn(s) \/ WriteIn(s) \/ Redirect(s)
  BY <1>3 DEF OpenIn, WriteIn, Redirect
<1>4. CASE RunOc(s)
  BY <1>4 DEF RunOc
<1>5. CASE ReadOut(s) \/ OpenGen(s) \/ WriteGen(s) \/ execute_lua_code(s)
  BY <1>5 DEF ReadOut, OpenGen, WriteGen, execute_lua_code
<1>6. CASE NoOutput(s) \/ Fault(s)
  BY <1>6 DEF NoOutput, Fault, LuaFails, ForkFails, OpenFails, Kill, Gone
<1>7. CASE Restart(s)
  BY <1>7 DEF Restart
<1> QED BY <1>2, <1>3, <1>4, <1>5, <1>6, <1>7 DEF oc_request_range_generation

(***************************************************************************)
(* Its own steps take the request one station on.                          *)
(***************************************************************************)
LEMMA OwnStep ==
  ASSUME Typed, NEW s \in Servers, FlowOf(s), oc_request_range_generation(s)
  PROVE  FlowOf(s)'
<1>1. DirOf[s] \in Dirs
  BY DirsAssumption
<1> USE <1>1 DEF At, Go, Reply, InDir, Typed, Shape, TypeOK, FlowOf, Outputs,
                 Succeeded
<1>2. CASE OpenIn(s)
  BY <1>2 DEF OpenIn
<1>3. CASE WriteIn(s)
  BY <1>3 DEF WriteIn
<1>4. CASE Redirect(s)
  BY <1>4 DEF Redirect
<1>5. CASE RunOc(s)
  <2>1. pc[s] = "oc" /\ DOMAIN query[s].request = {"clauses", "constraints"}
    BY <1>5 DEF RunOc, Asking, Working
  <2>2. in[DirOf[s]] = query[s].request
    BY <2>1
  <2>3. DOMAIN Opened = {"kind"}
    BY DEF Opened
  <2>4. in[DirOf[s]] # Opened
    BY <2>1, <2>2, <2>3
  <2>5. PICK o \in OcOutputs(query[s].request) : out' = [out EXCEPT ![DirOf[s]] = o]
    BY <1>5, <2>2, <2>4 DEF RunOc
  <2>6. out'[DirOf[s]] \in OcOutputs(query[s].request)
    BY <2>5
  <2> QED BY <1>5, <2>6 DEF RunOc
<1>6. CASE ReadOut(s)
  BY <1>6 DEF ReadOut, files
<1>7. CASE NoOutput(s)
  BY <1>7 DEF NoOutput, Gone, NoReply, files
<1>8. CASE OpenGen(s)
  BY <1>8 DEF OpenGen
<1>9. CASE WriteGen(s)
  BY <1>9 DEF WriteGen
<1>10. CASE execute_lua_code(s)
  <2>1. reply'[s].status = "success" => /\ gen[DirOf[s]].kind = "program"
                                        /\ reply'[s] = Success(gen[DirOf[s]].tuples)
    BY <1>10 DEF execute_lua_code, Failure
  <2> QED BY <1>10, <2>1 DEF execute_lua_code, files
<1> QED BY <1>2, <1>3, <1>4, <1>5, <1>6, <1>7, <1>8, <1>9, <1>10
       DEF oc_request_range_generation

LEMMA OtherStep ==
  ASSUME Typed, NEW s \in Servers, FlowOf(s), NEW name,
         UnknownDomain(s, name) \/ Ask(s, name) \/ Fault(s) \/ Restart(s)
  PROVE  FlowOf(s)'
<1> USE DEF At, Go, Reply, Typed, Shape, TypeOK, FlowOf, Outputs, Succeeded, files
<1>1. CASE UnknownDomain(s, name)
  BY <1>1 DEF UnknownDomain, Failure
<1>2. CASE Ask(s, name)
  BY <1>2 DEF Ask
<1>3. CASE LuaFails(s)
  BY <1>3 DEF LuaFails, Failure
<1>4. CASE ForkFails(s)
  BY <1>4 DEF ForkFails
<1>5. CASE Gone(s)
  BY <1>5 DEF Gone, NoReply
<1>6. CASE Restart(s)
  BY <1>6 DEF Restart
<1> QED BY <1>1, <1>2, <1>3, <1>4, <1>5, <1>6 DEF Fault, OpenFails, Kill

LEMMA InitFlow == Init => Flow
BY DEF Init, Flow, FlowOf, Succeeded, At, NoReply

LEMMA StepFlow == Typed /\ Flow /\ [Next]_vars => Flow'
<1> SUFFICES ASSUME Typed, Flow, [Next]_vars,
                    NEW r \in Servers, Alone(r)
             PROVE  FlowOf(r)'
  BY DEF Flow, Alone
<1>1. FlowOf(r)
  BY DEF Flow
<1>2. CASE Next
  <2>1. PICK s \in Servers :
          \/ \E name \in Asked : UnknownDomain(s, name) \/ Ask(s, name)
          \/ oc_request_range_generation(s)
          \/ Fault(s)
          \/ Restart(s)
    BY <1>2 DEF Next
  <2>2. PICK name : \/ UnknownDomain(s, name) \/ Ask(s, name)
                    \/ oc_request_range_generation(s) \/ Fault(s) \/ Restart(s)
    BY <2>1
  <2>3. CASE r = s
    BY <1>1, <2>2, <2>3, OwnStep, OtherStep
  <2>4. CASE r # s
    <3>1. View(r)' = View(r)
      BY <2>2, <2>4, OthersKept
    <3> QED BY <1>1, <3>1, ViewDecides
  <2> QED BY <2>3, <2>4
<1>3. CASE UNCHANGED vars
  <2>1. View(r)' = View(r)
    BY <1>3 DEF vars, files, View
  <2> QED BY <1>1, <2>1, ViewDecides
<1> QED BY <1>2, <1>3

(***************************************************************************)
(* For any number of servers, and whatever the calculator says, fails to   *)
(* say, or is asked: a server alone in its directory answers with what was *)
(* found for the request it built, in spite of kills and of the files they *)
(* leave (ATPS_send_valid_parameters, oc_query.lua, lua_codex.lua).        *)
(***************************************************************************)
THEOREM AnswersItsOwn == Spec => []OwnAnswer
<1>1. Init => Typed /\ Flow
  BY InitTyped, InitFlow
<1>2. Typed /\ Flow /\ [Next]_vars => (Typed /\ Flow)'
  BY StepTyped, StepFlow
<1>3. Typed /\ Flow => OwnAnswer
  BY DEF Flow, FlowOf, Outputs, OwnAnswer
<1> QED BY <1>1, <1>2, <1>3, PTL DEF Spec
-----------------------------------------------------------------------------
(***************************************************************************)
(* What is asked for: from the question to the answer a server keeps the   *)
(* index of a domain and the request that was built of it.                 *)
(***************************************************************************)
BuiltOf(s) ==
  /\ pc[s] \in Working \/ Succeeded(s) =>
       /\ query[s].dom \in 1..Len(domains)
       /\ \E garbage \in Garbage :
            query[s].request = ATP_build_oc_request(Answering(s), garbage)
  /\ pc[s] = "gone" => reply[s].status = "none"

Built == \A s \in Servers : BuiltOf(s)

LEMMA InitBuilt == Init => Built
BY DEF Init, Built, BuiltOf, Working, Succeeded, At, NoReply

LEMMA BuiltKept ==
  ASSUME NEW s \in Servers, BuiltOf(s),
         pc'[s] = pc[s], query'[s] = query[s], reply'[s] = reply[s]
  PROVE  BuiltOf(s)'
BY DEF BuiltOf, Succeeded, At, Answering

LEMMA AskBuilt ==
  ASSUME Typed, NEW s \in Servers, NEW name, Ask(s, name)
  PROVE  BuiltOf(s)'
<1> DEFINE dom == ATP_domain_find(name, domains)
<1>1. PICK garbage \in Garbage :
        query' = [query EXCEPT ![s] =
          [dom |-> dom, request |-> ATP_build_oc_request(domains[dom], garbage)]]
  BY DEF Ask
<1>2. dom \in 1..Len(domains)
  <2>1. dom \in 0..Len(domains)
    BY FoundDomain
  <2>2. dom # 0
    BY DEF Ask, NoIndex
  <2> HIDE DEF dom
  <2> QED BY <2>1, <2>2, DomainsLen
<1> HIDE DEF dom
<1>3. query'[s] = [dom |-> dom, request |-> ATP_build_oc_request(domains[dom], garbage)]
  BY <1>1 DEF Typed, Shape
<1>4. /\ query'[s].dom = dom
      /\ query'[s].request = ATP_build_oc_request(domains[dom], garbage)
  BY <1>3
<1>5. pc'[s] = "lua"
  BY DEF Ask, Go, Typed, TypeOK
<1> QED BY <1>2, <1>4, <1>5 DEF BuiltOf, Answering

LEMMA OwnBuilt ==
  ASSUME Typed, NEW s \in Servers, BuiltOf(s), NEW name,
         \/ UnknownDomain(s, name) \/ oc_request_range_generation(s)
         \/ Fault(s) \/ Restart(s)
  PROVE  BuiltOf(s)'
<1> USE DEF At, Go, Reply, Typed, Shape, TypeOK, Succeeded, files
<1>1. CASE UnknownDomain(s, name) \/ LuaFails(s)
  <2>1. Reply(s, Failure)
    BY <1>1 DEF UnknownDomain, LuaFails
  <2>2. Failure.status = "failure"
    BY DEF Failure
  <2>3. pc'[s] = "idle" /\ reply'[s].status = "failure"
    BY <2>1, <2>2
  <2> QED BY <2>3 DEF BuiltOf, Working
<1>2. CASE /\ pc[s] \in Working /\ pc'[s] \in Working
           /\ query'[s] = query[s]
  BY <1>2 DEF BuiltOf, Answering, Working
<1>3. CASE OpenIn(s) \/ WriteIn(s) \/ Redirect(s) \/ RunOc(s)
  BY <1>2, <1>3 DEF OpenIn, WriteIn, Redirect, RunOc, Working
<1>4. CASE ReadOut(s) \/ OpenGen(s) \/ WriteGen(s) \/ ForkFails(s)
  BY <1>2, <1>4 DEF ReadOut, OpenGen, WriteGen, ForkFails, Working
<1>5. CASE execute_lua_code(s)
  <2>1. pc[s] \in Working /\ pc'[s] = "idle" /\ query'[s] = query[s]
    BY <1>5 DEF execute_lua_code, Working
  <2> QED BY <2>1 DEF BuiltOf, Answering, Working
<1>6. CASE Gone(s)
  BY <1>6 DEF Gone, NoReply, BuiltOf, Working
<1>7. CASE Restart(s)
  BY <1>7 DEF Restart, BuiltOf, Working
<1> QED BY <1>1, <1>3, <1>4, <1>5, <1>6, <1>7
       DEF oc_request_range_generation, NoOutput, Fault, OpenFails, Kill

LEMMA OthersQueryKept ==
  ASSUME Typed, NEW s \in Servers, NEW r \in Servers, r # s, NEW name,
         \/ UnknownDomain(s, name) \/ Ask(s, name)
         \/ oc_request_range_generation(s) \/ Fault(s) \/ Restart(s)
  PROVE  pc'[r] = pc[r] /\ query'[r] = query[r] /\ reply'[r] = reply[r]
<1> USE DEF At, Go, Reply, Typed, Shape, TypeOK, files
<1>1. CASE UnknownDomain(s, name) \/ Ask(s, name)
  BY <1>1 DEF UnknownDomain, Ask
<1>2. CASE OpenIn(s) \/ WriteIn(s) \/ Redirect(s) \/ RunOc(s)
  BY <1>2 DEF OpenIn, WriteIn, Redirect, RunOc
<1>3. CASE ReadOut(s) \/ OpenGen(s) \/ WriteGen(s) \/ execute_lua_code(s)
  BY <1>3 DEF ReadOut, OpenGen, WriteGen, execute_lua_code
<1>4. CASE NoOutput(s) \/ Fault(s)
  BY <1>4 DEF NoOutput, Fault, LuaFails, ForkFails, OpenFails, Kill, Gone
<1>5. CASE Restart(s)
  BY <1>5 DEF Restart
<1> QED BY <1>1, <1>2, <1>3, <1>4, <1>5 DEF oc_request_range_generation

LEMMA StepBuilt == Typed /\ Built /\ [Next]_vars => Built'
<1> SUFFICES ASSUME Typed, Built, [Next]_vars, NEW r \in Servers
             PROVE  BuiltOf(r)'
  BY DEF Built
<1>1. BuiltOf(r)
  BY DEF Built
<1>2. CASE Next
  <2>1. PICK s \in Servers :
          \/ \E name \in Asked : UnknownDomain(s, name) \/ Ask(s, name)
          \/ oc_request_range_generation(s)
          \/ Fault(s)
          \/ Restart(s)
    BY <1>2 DEF Next
  <2>2. PICK name : \/ UnknownDomain(s, name) \/ Ask(s, name)
                    \/ oc_request_range_generation(s) \/ Fault(s) \/ Restart(s)
    BY <2>1
  <2>3. CASE r = s
    BY <1>1, <2>2, <2>3, AskBuilt, OwnBuilt
  <2>4. CASE r # s
    BY <1>1, <2>2, <2>4, OthersQueryKept, BuiltKept
  <2> QED BY <2>3, <2>4
<1>3. CASE UNCHANGED vars
  BY <1>1, <1>3, BuiltKept DEF vars
<1> QED BY <1>2, <1>3

-----------------------------------------------------------------------------
(***************************************************************************)
(* The clauses of a request: one for each parameter of a known type.       *)
(***************************************************************************)
Clause(domain, i, garbage) == ClauseOf(domain, i, garbage)[1]

ClausesOf(domain, garbage) ==
  [i \in 1..Len(domain.paramsArray) |-> ClauseOf(domain, i, garbage)]

LEMMA ClauseFields ==
  ASSUME NEW domain, NEW i, NEW garbage, Known(domain.paramsArray[i])
  PROVE  /\ ClauseOf(domain, i, garbage) = <<Clause(domain, i, garbage)>>
         /\ Clause(domain, i, garbage).param = domain.paramsArray[i].paramName
         /\ Clause(domain, i, garbage).joined = (i > 1)
BY DEF Clause, ClauseOf

LEMMA NoClause ==
  ASSUME NEW domain, NEW i, NEW garbage, ~Known(domain.paramsArray[i])
  PROVE  ClauseOf(domain, i, garbage) = <<>>
BY DEF ClauseOf

LEMMA ClauseLength ==
  ASSUME NEW domain, NEW i, NEW garbage
  PROVE  /\ Len(ClauseOf(domain, i, garbage)) \in 0..1
         /\ Len(ClauseOf(domain, i, garbage)) = 1 <=> Known(domain.paramsArray[i])
         /\ ClauseOf(domain, i, garbage) \in Seq({Clause(domain, i, garbage)})
<1> DEFINE c == Clause(domain, i, garbage)
<1>1. CASE Known(domain.paramsArray[i])
  <2>1. ClauseOf(domain, i, garbage) = <<c>>
    BY <1>1, ClauseFields
  <2> HIDE DEF c
  <2>2. Len(<<c>>) = 1 /\ <<c>> \in Seq({c})
    OBVIOUS
  <2> QED BY <1>1, <2>1, <2>2 DEF c
<1>2. CASE ~Known(domain.paramsArray[i])
  <2>1. ClauseOf(domain, i, garbage) = <<>>
    BY <1>2, NoClause
  <2> HIDE DEF c
  <2>2. Len(<<>>) = 0 /\ <<>> \in Seq({c})
    OBVIOUS
  <2> QED BY <1>2, <2>1, <2>2 DEF c
<1> QED BY <1>1, <1>2

LEMMA ClausesSeq ==
  ASSUME NEW domain, NEW garbage, Len(domain.paramsArray) \in Nat
  PROVE  /\ \E T : ClausesOf(domain, garbage) \in Seq(Seq(T))
         /\ Len(ClausesOf(domain, garbage)) = Len(domain.paramsArray)
         /\ \A i \in 1..Len(domain.paramsArray) :
              ClausesOf(domain, garbage)[i] = ClauseOf(domain, i, garbage)
         /\ ATP_build_oc_request(domain, garbage).clauses
              = FlattenSeq(ClausesOf(domain, garbage))
<1>0. PICK n \in Nat : n = Len(domain.paramsArray)
  OBVIOUS
<1> DEFINE T == {Clause(domain, i, garbage) : i \in 1..n}
<1>1. ASSUME NEW i \in 1..n PROVE ClauseOf(domain, i, garbage) \in Seq(T)
  <2>1. ClauseOf(domain, i, garbage) \in Seq({Clause(domain, i, garbage)})
    BY ClauseLength
  <2>2. {Clause(domain, i, garbage)} \subseteq T
    OBVIOUS
  <2> HIDE DEF T
  <2> QED BY <2>1, <2>2
<1>2. ClausesOf(domain, garbage) \in [1..n -> Seq(T)]
  <2> HIDE DEF T
  <2> QED BY <1>0, <1>1 DEF ClausesOf
<1>3. ClausesOf(domain, garbage) \in Seq(Seq(T)) /\ Len(ClausesOf(domain, garbage)) = n
  <2> HIDE DEF T
  <2> QED BY <1>2, FunctionIsSeq
<1>4. ATP_build_oc_request(domain, garbage).clauses = FlattenSeq(ClausesOf(domain, garbage))
  BY DEF ATP_build_oc_request, ClausesOf
<1>5. \A i \in 1..n : ClausesOf(domain, garbage)[i] = ClauseOf(domain, i, garbage)
  BY <1>0 DEF ClausesOf
<1> HIDE DEF T
<1> QED BY <1>0, <1>3, <1>4, <1>5

LEMMA ClausesCounted ==
  ASSUME NEW d \in 1..Len(domains), NEW garbage
  PROVE  LET cs == ATP_build_oc_request(domains[d], garbage).clauses
         IN Len(cs) = Cardinality({i \in 1..Len(Params(d)) : Known(Params(d)[i])})
<1> DEFINE seqs == ClausesOf(domains[d], garbage)
<1>1. PICK n \in Nat : n = Len(Params(d))
  BY DomainFields
<1>2. Len(domains[d].paramsArray) \in Nat
  BY <1>1 DEF Params
<1>3. PICK T : seqs \in Seq(Seq(T))
  <2>1. \E T : ClausesOf(domains[d], garbage) \in Seq(Seq(T))
    BY <1>2, ClausesSeq, Zenon
  <2> QED
    BY <2>1
<1>4. /\ Len(seqs) = n
      /\ \A i \in 1..n : seqs[i] = ClauseOf(domains[d], i, garbage)
      /\ ATP_build_oc_request(domains[d], garbage).clauses = FlattenSeq(seqs)
  BY <1>1, <1>2, ClausesSeq DEF Params
<1>5. ASSUME NEW i \in 1..n
      PROVE  Len(seqs[i]) \in 0..1 /\ (Len(seqs[i]) = 1 <=> Known(Params(d)[i]))
  <2>1. seqs[i] = ClauseOf(domains[d], i, garbage)
    BY <1>4, Zenon
  <2>2. /\ Len(ClauseOf(domains[d], i, garbage)) \in 0..1
        /\ Len(ClauseOf(domains[d], i, garbage)) = 1 <=> Known(domains[d].paramsArray[i])
    BY ClauseLength, Zenon
  <2> HIDE DEF seqs
  <2> QED BY <2>1, <2>2, Zenon DEF Params
<1> HIDE DEF seqs
<1>6. Len(FlattenSeq(seqs)) = Cardinality({i \in 1..Len(seqs) : Len(seqs[i]) = 1})
  BY <1>3, <1>4, <1>5, FlattenOptional
<1>7. {i \in 1..Len(seqs) : Len(seqs[i]) = 1} = {i \in 1..n : Known(Params(d)[i])}
  BY <1>4, <1>5
<1> QED BY <1>1, <1>4, <1>6, <1>7

LEMMA ClausesAll ==
  ASSUME NEW d \in 1..Len(domains), NEW garbage,
         \A i \in 1..Len(Params(d)) : Known(Params(d)[i])
  PROVE  LET cs == ATP_build_oc_request(domains[d], garbage).clauses
         IN /\ Len(cs) = Len(Params(d))
            /\ \A i \in 1..Len(cs) : cs[i] = Clause(domains[d], i, garbage)
<1> DEFINE seqs == ClausesOf(domains[d], garbage)
<1>1. PICK n \in Nat : n = Len(Params(d))
  BY DomainFields
<1>2. Len(domains[d].paramsArray) \in Nat
  BY <1>1 DEF Params
<1>3. PICK T : seqs \in Seq(Seq(T))
  <2>1. \E T : ClausesOf(domains[d], garbage) \in Seq(Seq(T))
    BY <1>2, ClausesSeq, Zenon
  <2> QED
    BY <2>1
<1>4. /\ Len(seqs) = n
      /\ \A i \in 1..n : seqs[i] = ClauseOf(domains[d], i, garbage)
      /\ ATP_build_oc_request(domains[d], garbage).clauses = FlattenSeq(seqs)
  BY <1>1, <1>2, ClausesSeq DEF Params
<1>5. ASSUME NEW i \in 1..n
      PROVE  Len(seqs[i]) = 1 /\ seqs[i][1] = Clause(domains[d], i, garbage)
  <2>1. seqs[i] = ClauseOf(domains[d], i, garbage)
    BY <1>4, Zenon
  <2>2. Known(domains[d].paramsArray[i])
    BY <1>1, Zenon DEF Params
  <2> HIDE DEF seqs
  <2>3. Len(ClauseOf(domains[d], i, garbage)) = 1
    BY <2>2, ClauseLength
  <2> QED BY <2>1, <2>3 DEF Clause
<1> HIDE DEF seqs
<1>6. /\ Len(FlattenSeq(seqs)) = n
      /\ \A i \in 1..n : FlattenSeq(seqs)[i] = seqs[i][1]
  BY <1>3, <1>4, <1>5, FlattenSingles
<1> QED BY <1>1, <1>4, <1>5, <1>6

LEMMA ClausesLen ==
  ASSUME NEW d \in 1..Len(domains), NEW garbage
  PROVE  Len(ATP_build_oc_request(domains[d], garbage).clauses) \in Nat
<1>1. PICK n \in Nat : n = Len(Params(d))
  BY DomainFields
<1> DEFINE known == {i \in 1..n : Known(Params(d)[i])}
<1>2. IsFiniteSet(1..n) /\ known \in SUBSET (1..n)
  BY FS_Interval
<1>3. Cardinality(known) \in Nat
  <2> HIDE DEF known
  <2> QED BY <1>2, FS_Subset, FS_CardinalityType
<1> QED BY <1>1, <1>3, ClausesCounted
-----------------------------------------------------------------------------
(***************************************************************************)
(* The tuples have a value for each clause.                                *)
(***************************************************************************)
LEMMA SolutionLength ==
  ASSUME NEW request, Len(request.clauses) \in Nat, NEW t \in Solutions(request)
  PROVE  Len(t) = Len(request.clauses)
<1>0. PICK n \in Nat : n = Len(request.clauses)
  OBVIOUS
<1>1. DOMAIN t = 1..n
  BY <1>0 DEF Solutions
<1>2. PICK f : t = [k \in 1..n |-> f[k]]
  BY <1>0 DEF Solutions
<1>3. Len([k \in 1..n |-> f[k]]) = n
  OBVIOUS
<1> QED BY <1>0, <1>2, <1>3

LEMMA Answers ==
  ASSUME NEW request, NEW o \in OcOutputs(request), parse_code(o).kind = "program"
  PROVE  parse_code(o).tuples \in {{}, Solutions(request)}
<1>1. CASE o = Silent
  BY <1>1 DEF Silent, parse_code, Program
<1>2. CASE o = Message
  BY <1>2 DEF Message, parse_code, Broken
<1>3. CASE o = Unrunnable
  BY <1>3 DEF Unrunnable, parse_code, Broken
<1>4. CASE o = Program(Solutions(request))
  BY <1>4 DEF parse_code, Program
<1> QED BY <1>1, <1>2, <1>3, <1>4 DEF OcOutputs

(***************************************************************************)
(* What holds of a server that has its directory to itself.                *)
(***************************************************************************)
IInv == Typed /\ Flow /\ Built

\* The inductive invariant: the types, the way of each request through the files,
\* and the domain that it was built of (oc_query.lua, ATPS_send_valid_parameters).
THEOREM InvariantHolds == Spec => []IInv
<1>1. Init => IInv
  BY InitTyped, InitFlow, InitBuilt DEF IInv
<1>2. IInv /\ [Next]_vars => IInv'
  BY StepTyped, StepFlow, StepBuilt DEF IInv
<1> QED BY <1>1, <1>2, PTL DEF Spec

\* Every server has a directory to itself.
Private == \A s \in Servers : Alone(s)

\* The answer of s comes of the request that it built.
Answered(s, garbage) ==
  LET request == ATP_build_oc_request(Answering(s), garbage)
  IN \E o \in OcOutputs(request) : /\ parse_code(o).kind = "program"
                                   /\ reply[s] = Success(parse_code(o).tuples)

LEMMA AnsweredOne ==
  ASSUME IInv, Private, NEW s \in Servers, Succeeded(s), ~unrun[s]
  PROVE  query[s].dom \in 1..Len(domains) /\ \E garbage : Answered(s, garbage)
<1>1. \E o \in Outputs(s) : /\ parse_code(o).kind = "program"
                            /\ reply[s] = Success(parse_code(o).tuples)
  BY DEF IInv, Flow, FlowOf, Private
<1>2. BuiltOf(s)
  BY DEF IInv, Built
<1> QED BY <1>1, <1>2, Zenon DEF BuiltOf, Answered, Outputs

LEMMA SuccessFields ==
  ASSUME NEW ts
  PROVE  /\ Success(ts).count = Cardinality(ts) /\ Success(ts).tuples = ts
         /\ Success(ts).elems = IF ts = {} THEN 0 ELSE Len(CHOOSE t \in ts : TRUE)
BY DEF Success

LEMMA AnswerLengths ==
  ASSUME NEW s, NEW garbage, Answered(s, garbage), query[s].dom \in 1..Len(domains)
  PROVE  \A t \in reply[s].tuples :
           Len(t) = Cardinality({i \in 1..Len(Answering(s).paramsArray) :
                                   Known(Answering(s).paramsArray[i])})
<1> DEFINE request == ATP_build_oc_request(Answering(s), garbage)
<1>1. PICK o \in OcOutputs(request) : /\ parse_code(o).kind = "program"
                                      /\ reply[s] = Success(parse_code(o).tuples)
  BY DEF Answered
<1>2. reply[s].tuples \in {{}, Solutions(request)}
  <2>1. reply[s].tuples = parse_code(o).tuples
    BY <1>1, SuccessFields
  <2> HIDE DEF request
  <2> QED BY <1>1, <2>1, Answers
<1>3. /\ Len(request.clauses) \in Nat
      /\ Len(request.clauses) = Cardinality({i \in 1..Len(Answering(s).paramsArray) :
                                               Known(Answering(s).paramsArray[i])})
  BY ClausesLen, ClausesCounted DEF Answering, Params
<1>4. ASSUME NEW t \in reply[s].tuples PROVE Len(t) = Len(request.clauses)
  <2>1. t \in Solutions(request)
    BY <1>2
  <2> HIDE DEF request
  <2> QED BY <1>3, <2>1, SolutionLength
<1> QED BY <1>3, <1>4, Zenon

LEMMA FitsOne ==
  ASSUME IInv, Private, NEW s \in Servers, Succeeded(s), ~unrun[s]
  PROVE  /\ reply[s].count = Cardinality(reply[s].tuples)
         /\ \A t \in reply[s].tuples : Len(t) = reply[s].elems
         /\ reply[s].elems =
              IF reply[s].tuples = {} THEN 0
              ELSE Cardinality({i \in 1..Len(Answering(s).paramsArray) :
                                  Known(Answering(s).paramsArray[i])})
<1>1. PICK garbage : Answered(s, garbage)
  BY AnsweredOne
<1>2. query[s].dom \in 1..Len(domains)
  BY AnsweredOne
<1> DEFINE n == Cardinality({i \in 1..Len(Answering(s).paramsArray) :
                               Known(Answering(s).paramsArray[i])})
           ts == reply[s].tuples
<1>3. \A t \in ts : Len(t) = n
  BY <1>1, <1>2, AnswerLengths, Zenon
<1>4. /\ reply[s].count = Cardinality(ts)
      /\ reply[s].elems = IF ts = {} THEN 0 ELSE Len(CHOOSE t \in ts : TRUE)
  <2>1. PICK o : reply[s] = Success(parse_code(o).tuples)
    BY <1>1, Zenon DEF Answered
  <2>2. PICK u : reply[s] = Success(u)
    BY <2>1, Zenon
  <2>3. /\ Success(u).count = Cardinality(u) /\ Success(u).tuples = u
        /\ Success(u).elems = IF u = {} THEN 0 ELSE Len(CHOOSE t \in u : TRUE)
    BY SuccessFields, Zenon
  <2>4. reply[s].tuples = u
    BY <2>2, <2>3, Zenon
  <2>5. /\ reply[s].count = Cardinality(u)
        /\ reply[s].elems = IF u = {} THEN 0 ELSE Len(CHOOSE t \in u : TRUE)
    BY <2>2, <2>3, Zenon
  <2> QED BY <2>4, <2>5, Zenon
<1>5. ts # {} => (CHOOSE t \in ts : TRUE) \in ts
  OBVIOUS
<1> HIDE DEF n, ts
<1>6. reply[s].elems = IF ts = {} THEN 0 ELSE n
  BY <1>3, <1>4, <1>5
<1>7. \A t \in ts : Len(t) = reply[s].elems
  BY <1>3, <1>6
<1> QED BY <1>4, <1>6, <1>7, Zenon DEF n, ts

(***************************************************************************)
(* Behind servers with directories of their own, for any description that  *)
(* was loaded, the head of an answer fits its tuples: how many there are,  *)
(* and how long each is, a value for each parameter of a known type        *)
(* (execute_lua_code of lua_codex.lua, atpquery.c).                        *)
(***************************************************************************)
THEOREM AnswersFit == Private /\ Spec => []AnswerFits
<1>1. ASSUME Private PROVE Spec => []AnswerFits
  <2>1. IInv => AnswerFits
    BY <1>1, FitsOne DEF AnswerFits
  <2> QED BY <2>1, InvariantHolds, PTL
<1> QED BY <1>1

-----------------------------------------------------------------------------
(***************************************************************************)
(* The request of a domain with values for every parameter: what was found *)
(* where a value is missing has no part in it.                             *)
(***************************************************************************)
LEMMA ProperParams ==
  ASSUME NEW d \in 1..Len(domains), Proper(domains[d])
  PROVE  /\ Params(d) # <<>>
         /\ \A i \in 1..Len(Params(d)) : Complete(Params(d)[i])
         /\ \A j \in 1..Len(Constraints(d)) :
              NamesOf(Constraints(d)[j].constExpr)
                \subseteq {Params(d)[i].paramName : i \in 1..Len(Params(d))}
<1>1. /\ Params(d) \in Seq(AParam) /\ Constraints(d) \in Seq(AConstraint)
  BY DomainFields
<1>2. /\ Range(Params(d)) # {}
      /\ \A param \in Range(Params(d)) : Complete(param)
      /\ \A c \in Range(Constraints(d)) :
           NamesOf(c.constExpr) \subseteq {param.paramName : param \in Range(Params(d))}
  BY DEF Proper, Params, Constraints
<1>3. /\ Range(Params(d)) = {Params(d)[i] : i \in 1..Len(Params(d))}
      /\ Range(Constraints(d)) = {Constraints(d)[j] : j \in 1..Len(Constraints(d))}
  BY <1>1 DEF Range
<1>4. Params(d) # <<>>
  <2>1. SUFFICES ASSUME Params(d) = <<>> PROVE FALSE
    OBVIOUS
  <2>2. Len(Params(d)) = 0
    BY <2>1
  <2> QED BY <1>2, <1>3, <2>2
<1>5. {param.paramName : param \in Range(Params(d))}
        = {Params(d)[i].paramName : i \in 1..Len(Params(d))}
  BY <1>3
<1> QED BY <1>2, <1>3, <1>4, <1>5, Zenon

LEMMA CompleteFields ==
  ASSUME NEW d \in 1..Len(domains), NEW i \in 1..Len(Params(d)), Complete(Params(d)[i])
  PROVE  /\ Known(Params(d)[i])
         /\ StepOf(Params(d)[i]) \in Nat \ {0}
         /\ ValuesOf(Params(d)[i]) \subseteq Int
         /\ \A v \in ValuesOf(Params(d)[i]) :
              /\ -(MaxIndex * StepOf(Params(d)[i])) <= v
              /\ v <= MaxIndex * StepOf(Params(d)[i])
<1>1. Params(d) \in Seq(AParam) /\ Params(d)[i].valueArray \in Seq(Int)
  BY DomainFields, ParamFields
<1>2. Params(d)[i] \in Range(domains[d].paramsArray)
  BY <1>1 DEF Range, Params
<1>3. \A v \in ValuesOf(Params(d)[i]) :
        /\ -(MaxIndex * StepOf(Params(d)[i])) <= v
        /\ v <= MaxIndex * StepOf(Params(d)[i])
  BY <1>2, MaxIndexReaches
<1> DEFINE p == Params(d)[i]
<1>4. p.valueArray \in Seq(Int) /\ Complete(p)
  BY <1>1
<1> HIDE DEF p
<1>5. Known(p) /\ StepOf(p) > 0
  BY <1>4 DEF Complete
<1>6. StepOf(p) \in Int
  <2>1. CASE IsRange(p)
    BY <1>4, <2>1 DEF Complete, StepOf
  <2>2. CASE ~IsRange(p)
    BY <2>2 DEF StepOf
  <2> QED BY <2>1, <2>2
<1>7. ValuesOf(p) \subseteq Int
  <2>1. CASE IsRange(p)
    BY <1>4, <2>1 DEF Complete, ValuesOf
  <2>2. CASE ~IsRange(p)
    BY <1>4, <2>2 DEF ValuesOf, Range
  <2> QED BY <2>1, <2>2
<1> QED BY <1>3, <1>5, <1>6, <1>7 DEF p

LEMMA CompleteClause ==
  ASSUME NEW d \in 1..Len(domains), NEW i \in 1..Len(Params(d)), Complete(Params(d)[i]),
         NEW garbage
  PROVE  LET c == Clause(domains[d], i, garbage)
         IN /\ c.param = Params(d)[i].paramName /\ c.joined = (i > 1)
            /\ c.values = ValuesOf(Params(d)[i]) /\ c.step = StepOf(Params(d)[i])
<1> DEFINE p == Params(d)[i]
           clause == IF IsRange(p) THEN RangeClause(p, garbage) ELSE EnumClause(p, garbage)
<1>1. p.valueArray \in Seq(Int) /\ Complete(p)
  BY ParamFields
<1>2. Known(p)
  BY <1>1 DEF Complete
<1>3. Clause(domains[d], i, garbage)
        = [param |-> p.paramName, values |-> clause.values, step |-> clause.step,
           joined |-> i > 1]
  BY <1>2 DEF Clause, ClauseOf, Params
<1> HIDE DEF p
<1>4. CASE IsRange(p)
  <2>1. Len(p.valueArray) >= 3
    BY <1>1, <1>4 DEF Complete
  <2>2. \A k \in 1..3 : ValueOf(p, k, garbage) = p.valueArray[k]
    BY <1>1, <2>1 DEF ValueOf
  <2>3. clause = [values |-> p.valueArray[1]..p.valueArray[2], step |-> p.valueArray[3]]
    BY <1>4, <2>2 DEF RangeClause
  <2>4. clause.values = ValuesOf(p) /\ clause.step = StepOf(p)
    BY <1>4, <2>3 DEF ValuesOf, StepOf
  <2> QED BY <1>3, <2>4 DEF p
<1>5. CASE ~IsRange(p)
  <2>1. Len(p.valueArray) >= 1
    BY <1>1, <1>5 DEF Complete
  <2>2. ValueOf(p, 1, garbage) \in Range(p.valueArray)
    BY <1>1, <2>1 DEF ValueOf, Range
  <2>3. clause = [values |-> Range(p.valueArray), step |-> 1]
    BY <1>5, <2>2 DEF EnumClause
  <2>4. clause.values = ValuesOf(p) /\ clause.step = StepOf(p)
    BY <1>5, <2>3 DEF ValuesOf, StepOf
  <2> QED BY <1>3, <2>4 DEF p
<1> QED BY <1>4, <1>5

\* request says of the parameters and constraints of domain d what it should.
Tells(request, d) ==
  /\ Len(request.clauses) = Len(Params(d))
  /\ \A k \in 1..Len(Params(d)) :
       LET c == request.clauses[k]
       IN /\ c.param = Params(d)[k].paramName /\ c.joined = (k > 1)
          /\ c.values = ValuesOf(Params(d)[k]) /\ c.step = StepOf(Params(d)[k])
  /\ Len(request.constraints) = Len(Constraints(d))
  /\ \A j \in 1..Len(Constraints(d)) : request.constraints[j] = Constraints(d)[j].constExpr
  /\ Range(request.constraints)
       = {Constraints(d)[j].constExpr : j \in 1..Len(Constraints(d))}

LEMMA ProperRequest ==
  ASSUME NEW d \in 1..Len(domains), Proper(domains[d]), NEW garbage
  PROVE  Tells(ATP_build_oc_request(domains[d], garbage), d)
<1> DEFINE request == ATP_build_oc_request(domains[d], garbage)
<1>1. \A i \in 1..Len(Params(d)) : Complete(Params(d)[i])
  BY ProperParams
<1>2. \A i \in 1..Len(Params(d)) : Known(Params(d)[i])
  BY <1>1 DEF Complete
<1>3. /\ Len(request.clauses) = Len(Params(d))
      /\ \A i \in 1..Len(Params(d)) : request.clauses[i] = Clause(domains[d], i, garbage)
  BY <1>2, ClausesAll
<1>4. \A k \in 1..Len(Params(d)) :
        LET c == request.clauses[k]
        IN /\ c.param = Params(d)[k].paramName /\ c.joined = (k > 1)
           /\ c.values = ValuesOf(Params(d)[k]) /\ c.step = StepOf(Params(d)[k])
  <2> SUFFICES ASSUME NEW k \in 1..Len(Params(d))
               PROVE  LET c == request.clauses[k]
                      IN /\ c.param = Params(d)[k].paramName /\ c.joined = (k > 1)
                         /\ c.values = ValuesOf(Params(d)[k])
                         /\ c.step = StepOf(Params(d)[k])
    OBVIOUS
  <2>1. request.clauses[k] = Clause(domains[d], k, garbage) /\ Complete(Params(d)[k])
    BY <1>1, <1>3, Zenon
  <2> DEFINE c == Clause(domains[d], k, garbage)
  <2>2. /\ c.param = Params(d)[k].paramName /\ c.joined = (k > 1)
        /\ c.values = ValuesOf(Params(d)[k]) /\ c.step = StepOf(Params(d)[k])
    BY <2>1, CompleteClause
  <2> HIDE DEF request, c
  <2>3. request.clauses[k] = c
    BY <2>1 DEF c
  <2> QED BY <2>2, <2>3
<1>5. PICK m \in Nat : m = Len(Constraints(d))
  BY DomainFields
<1>6. request.constraints = [j \in 1..m |-> Constraints(d)[j].constExpr]
  BY <1>5 DEF ATP_build_oc_request, ConstraintsOf, Constraints
<1> HIDE DEF request
<1>7. /\ Len(request.constraints) = m
      /\ \A j \in 1..m : request.constraints[j] = Constraints(d)[j].constExpr
      /\ Range(request.constraints) = {Constraints(d)[j].constExpr : j \in 1..m}
  BY <1>6 DEF Range
<1> QED BY <1>3, <1>4, <1>5, <1>7 DEF Tells, request

-----------------------------------------------------------------------------
(***************************************************************************)
(* The tuples of a request that tells of a domain, by the parameters.      *)
(***************************************************************************)
NamesIn(d) == {Params(d)[i].paramName : i \in 1..Len(Params(d))}
ParamOf(d, x) == Params(d)[CHOOSE i \in 1..Len(Params(d)) : Params(d)[i].paramName = x]
Constrains(d, env) ==
  \A j \in 1..Len(Constraints(d)) : Holds(Constraints(d)[j].constExpr, env)

\* The numbers p, counted in steps, that make a tuple of results.
Counts(d) ==
  {p \in [NamesIn(d) -> -MaxIndex..MaxIndex] :
     /\ \A i \in 1..Len(Params(d)) :
          p[Params(d)[i].paramName] * StepOf(Params(d)[i]) \in ValuesOf(Params(d)[i])
     /\ Constrains(d, p)}

CountedTuple(d, p) ==
  [i \in 1..Len(Params(d)) |-> p[Params(d)[i].paramName] * StepOf(Params(d)[i])]

LEMMA ParamOfName ==
  ASSUME NEW d \in 1..Len(domains), NEW i \in 1..Len(Params(d))
  PROVE  /\ ParamOf(d, Params(d)[i].paramName) = Params(d)[i]
         /\ (CHOOSE j \in 1..Len(Params(d)) :
               Params(d)[j].paramName = Params(d)[i].paramName) = i
<1> DEFINE k == CHOOSE j \in 1..Len(Params(d)) :
                  Params(d)[j].paramName = Params(d)[i].paramName
<1>1. k \in 1..Len(Params(d)) /\ Params(d)[k].paramName = Params(d)[i].paramName
  OBVIOUS
<1>2. k = i
  <2> HIDE DEF k
  <2> QED BY <1>1, ParamFields
<1> QED BY <1>2 DEF ParamOf

LEMMA SolutionsCounted ==
  ASSUME NEW d \in 1..Len(domains), NEW request, Tells(request, d)
  PROVE  Solutions(request) = {CountedTuple(d, p) : p \in Counts(d)}
<1> DEFINE n == Len(Params(d))
           cs == request.clauses
           Indices(k) == {q \in -MaxIndex..MaxIndex : q * cs[k].step \in cs[k].values}
           step(x) == cs[CHOOSE k \in 1..Len(cs) : cs[k].param = x].step
           choices == {p \in [ParamsOf(request) -> -MaxIndex..MaxIndex] :
                         /\ \A k \in 1..Len(cs) : p[cs[k].param] \in Indices(k)
                         /\ \A c \in Range(request.constraints) : Holds(c, p)}
           tuple(p) == [k \in 1..Len(cs) |-> p[cs[k].param] * step(cs[k].param)]
<1>1. Solutions(request) = {tuple(p) : p \in choices}
  BY DEF Solutions
<1>2. /\ Len(cs) = n
      /\ \A k \in 1..n : /\ cs[k].param = Params(d)[k].paramName
                         /\ cs[k].values = ValuesOf(Params(d)[k])
                         /\ cs[k].step = StepOf(Params(d)[k])
  BY DEF Tells
<1>3. ParamsOf(request) = NamesIn(d)
  BY <1>2 DEF ParamsOf, NamesIn
<1>4. \A p : (\A c \in Range(request.constraints) : Holds(c, p)) <=> Constrains(d, p)
  <2>1. Range(request.constraints)
          = {Constraints(d)[j].constExpr : j \in 1..Len(Constraints(d))}
    BY DEF Tells
  <2> QED BY <2>1, Zenon DEF Constrains
<1>5. ASSUME NEW k \in 1..n PROVE step(cs[k].param) = StepOf(Params(d)[k])
  <2>1. (CHOOSE j \in 1..n : Params(d)[j].paramName = Params(d)[k].paramName) = k
    BY ParamOfName
  <2>2. \A j \in 1..n : cs[j].param = Params(d)[j].paramName
    BY <1>2
  <2>3. (CHOOSE j \in 1..Len(cs) : cs[j].param = cs[k].param)
          = CHOOSE j \in 1..n : Params(d)[j].paramName = Params(d)[k].paramName
    BY <1>2, <2>2
  <2> QED BY <1>2, <2>1, <2>3
<1>6. \A p : tuple(p) = CountedTuple(d, p)
  <2> SUFFICES ASSUME NEW p PROVE tuple(p) = CountedTuple(d, p)
    OBVIOUS
  <2>1. \A k \in 1..n : p[cs[k].param] * step(cs[k].param)
                          = p[Params(d)[k].paramName] * StepOf(Params(d)[k])
    BY <1>2, <1>5
  <2> HIDE DEF step
  <2> QED BY <1>2, <2>1 DEF CountedTuple
<1>7. choices = Counts(d)
  <2>1. ASSUME NEW p \in [NamesIn(d) -> -MaxIndex..MaxIndex]
        PROVE  (\A k \in 1..Len(cs) : p[cs[k].param] \in Indices(k))
                 <=> \A i \in 1..n : p[Params(d)[i].paramName] * StepOf(Params(d)[i])
                                       \in ValuesOf(Params(d)[i])
    <3>1. \A i \in 1..n : p[Params(d)[i].paramName] \in -MaxIndex..MaxIndex
      BY DEF NamesIn
    <3> QED BY <1>2, <3>1
  <2> HIDE DEF Indices
  <2> QED BY <1>3, <1>4, <2>1 DEF Counts
<1> HIDE DEF tuple, choices
<1> QED BY <1>1, <1>6, <1>7

(***************************************************************************)
(* The tuples that a domain should have, in the same terms.                *)
(***************************************************************************)
Valuations(d) ==
  {env \in [NamesIn(d) -> UNION {ValidValues(Params(d)[i]) : i \in 1..Len(Params(d))}] :
     /\ \A i \in 1..Len(Params(d)) :
          env[Params(d)[i].paramName] \in ValidValues(Params(d)[i])
     /\ Constrains(d, env)}

ValuedTuple(d, env) == [i \in 1..Len(Params(d)) |-> env[Params(d)[i].paramName]]

LEMMA ValidTuplesValued ==
  ASSUME NEW d \in 1..Len(domains)
  PROVE  ValidTuples(domains[d]) = {ValuedTuple(d, env) : env \in Valuations(d)}
<1> DEFINE all == UNION {ValidValues(Params(d)[i]) : i \in 1..Len(Params(d))}
           envs == {env \in [NamesIn(d) -> all] :
                      /\ \A x \in NamesIn(d) : env[x] \in ValidValues(ParamOf(d, x))
                      /\ \A c \in Range(Constraints(d)) : Holds(c.constExpr, env)}
<1>1. ValidTuples(domains[d]) = {ValuedTuple(d, env) : env \in envs}
  BY DEF ValidTuples, ValuedTuple, ParamOf, NamesIn, Params, Constraints
<1>2. \A env : (\A x \in NamesIn(d) : env[x] \in ValidValues(ParamOf(d, x)))
                 <=> \A i \in 1..Len(Params(d)) :
                       env[Params(d)[i].paramName] \in ValidValues(Params(d)[i])
  BY ParamOfName DEF NamesIn
<1>3. \A env : (\A c \in Range(Constraints(d)) : Holds(c.constExpr, env))
                 <=> Constrains(d, env)
  <2>1. Constraints(d) \in Seq(AConstraint)
    BY DomainFields
  <2>2. Range(Constraints(d)) = {Constraints(d)[j] : j \in 1..Len(Constraints(d))}
    BY <2>1 DEF Range
  <2> QED BY <2>2, Zenon DEF Constrains
<1>4. envs = Valuations(d)
  <2> HIDE DEF all
  <2>1. \A env : env \in envs <=> env \in {e \in [NamesIn(d) -> all] :
          /\ \A i \in 1..Len(Params(d)) :
               e[Params(d)[i].paramName] \in ValidValues(Params(d)[i])
          /\ Constrains(d, e)}
    BY <1>2, <1>3, Zenon
  <2> QED BY <2>1, Zenon DEF Valuations, all
<1> QED BY <1>1, <1>4, Zenon

-----------------------------------------------------------------------------
(***************************************************************************)
(* A request of a proper domain is understood, and what is understood is   *)
(* answered with all of its tuples.                                        *)
(***************************************************************************)
LEMMA ProperUnderstood ==
  ASSUME NEW d \in 1..Len(domains), Proper(domains[d]), NEW request, Tells(request, d)
  PROVE  Parses(request) /\ Understood(request)
<1>1. Len(Params(d)) \in Nat \ {0}
  BY ProperParams, DomainFields, EmptySeq
<1>2. Parses(request)
  <2>1. Len(request.clauses) # 0
    BY <1>1 DEF Tells
  <2>2. request.clauses[1].joined = (1 > 1)
    BY <1>1 DEF Tells
  <2>3. ~request.clauses[1].joined
    <3>1. ~(1 > 1)
      OBVIOUS
    <3> QED BY <2>2, <3>1, Zenon
  <2>4. request.clauses # <<>>
    <3>1. Len(<<>>) = 0
      OBVIOUS
    <3> QED BY <2>1, <3>1, Zenon
  <2> QED BY <2>3, <2>4, Zenon DEF Parses
<1>3. ParamsOf(request) = NamesIn(d)
  BY DEF Tells, ParamsOf, NamesIn
<1>4. Understood(request)
  <2>1. \A j \in 1..Len(Constraints(d)) :
          NamesOf(Constraints(d)[j].constExpr) \subseteq NamesIn(d)
    BY ProperParams, Zenon DEF NamesIn
  <2> QED BY <1>3, <2>1 DEF Tells, Understood
<1> QED BY <1>2, <1>4

LEMMA AnsweredAll ==
  ASSUME NEW s, query[s].dom \in 1..Len(domains), Proper(Answering(s)),
         NEW garbage, Answered(s, garbage)
  PROVE  reply[s].tuples = {CountedTuple(query[s].dom, p) : p \in Counts(query[s].dom)}
<1> DEFINE d == query[s].dom
           request == ATP_build_oc_request(Answering(s), garbage)
<1>1. Tells(request, d)
  BY ProperRequest DEF Answering
<1>2. PICK o \in OcOutputs(request) : /\ parse_code(o).kind = "program"
                                      /\ reply[s] = Success(parse_code(o).tuples)
  BY DEF Answered
<1>3. reply[s].tuples = parse_code(o).tuples
  BY <1>2, SuccessFields
<1>4. Parses(request) /\ Understood(request)
  <2>1. d \in 1..Len(domains) /\ Proper(domains[d])
    BY DEF Answering
  <2> HIDE DEF request, d
  <2> QED BY <1>1, <2>1, ProperUnderstood
<1>5. Solutions(request) = {CountedTuple(d, p) : p \in Counts(d)}
  <2> HIDE DEF request
  <2> QED BY <1>1, SolutionsCounted
<1> HIDE DEF request
<1>6. CASE Solutions(request) = {}
  <2>1. o = Silent
    BY <1>2, <1>4, <1>6 DEF OcOutputs
  <2>2. parse_code(Silent).tuples = {}
    BY DEF Silent, parse_code, Program
  <2> QED BY <1>3, <1>5, <1>6, <2>1, <2>2
<1>7. CASE Solutions(request) # {}
  <2>1. o \in {Program(Solutions(request)), Unrunnable}
    BY <1>2, <1>4, <1>7 DEF OcOutputs
  <2>2. parse_code(Unrunnable).kind = "broken"
    BY DEF Unrunnable, parse_code, Broken
  <2>3. parse_code(Program(Solutions(request))).tuples = Solutions(request)
    BY DEF parse_code, Program
  <2>4. o # Unrunnable
    BY <1>2, <2>2
  <2> QED BY <1>3, <1>5, <2>1, <2>3, <2>4
<1> QED BY <1>6, <1>7

LEMMA WithinOne ==
  ASSUME IInv, Private, NEW s \in Servers, Succeeded(s), ~unrun[s],
         Proper(Answering(s)), NEW t \in reply[s].tuples
  PROVE  /\ Len(t) = Len(Answering(s).paramsArray)
         /\ \A i \in 1..Len(Answering(s).paramsArray) :
              t[i] \in ValuesOf(Answering(s).paramsArray[i])
<1>1. PICK garbage : Answered(s, garbage)
  BY AnsweredOne
<1>2. query[s].dom \in 1..Len(domains)
  BY AnsweredOne
<1> DEFINE d == query[s].dom
<1>3. PICK p \in Counts(d) : t = CountedTuple(d, p)
  BY <1>1, <1>2, AnsweredAll
<1>4. PICK n \in Nat : n = Len(Params(d))
  BY <1>2, DomainFields
<1>5. /\ t = [i \in 1..n |-> p[Params(d)[i].paramName] * StepOf(Params(d)[i])]
      /\ \A i \in 1..n : p[Params(d)[i].paramName] * StepOf(Params(d)[i])
                           \in ValuesOf(Params(d)[i])
  BY <1>3, <1>4 DEF CountedTuple, Counts
<1> HIDE DEF d
<1>6. Len(t) = n /\ \A i \in 1..n : t[i] \in ValuesOf(Params(d)[i])
  BY <1>5
<1> QED BY <1>4, <1>6 DEF d, Params, Answering

(***************************************************************************)
(* Whatever the ranges, their steps and the constraints are: a server with *)
(* a directory to itself answers with no value outside of the range or the *)
(* enumeration of its parameter (ATP_build_oc_request).                    *)
(***************************************************************************)
THEOREM RangesKept == Private /\ Spec => []WithinRanges
<1>1. ASSUME Private PROVE Spec => []WithinRanges
  <2>1. IInv => WithinRanges
    BY <1>1, WithinOne DEF WithinRanges
  <2> QED BY <2>1, InvariantHolds, PTL
<1> QED BY <1>1

-----------------------------------------------------------------------------
(***************************************************************************)
(* Where a step counts from 0 the counts and the values are two names of   *)
(* the same tuples.                                                        *)
(***************************************************************************)
LEMMA HoldsAlike ==
  ASSUME NEW expr, NEW env, NEW p, \A x \in NamesOf(expr) : env[x] = p[x]
  PROVE  Holds(expr, env) <=> Holds(expr, p)
<1>1. /\ expr.less \notin Int => env[expr.less] = p[expr.less]
      /\ expr.than \notin Int => env[expr.than] = p[expr.than]
  BY DEF NamesOf
<1> QED BY <1>1 DEF Holds

LEMMA AlignedParams ==
  ASSUME NEW d \in 1..Len(domains), Aligned(domains[d]), NEW i \in 1..Len(Params(d))
  PROVE  /\ IsRange(Params(d)[i]) =>
              Params(d)[i].valueArray[1] % StepOf(Params(d)[i]) = 0
         /\ \A j \in 1..Len(Constraints(d)) :
              Params(d)[i].paramName \in NamesOf(Constraints(d)[j].constExpr) =>
                StepOf(Params(d)[i]) = 1
<1>1. Params(d) \in Seq(AParam) /\ Constraints(d) \in Seq(AConstraint)
  BY DomainFields
<1>2. /\ Params(d)[i] \in Range(Params(d))
      /\ \A j \in 1..Len(Constraints(d)) : Constraints(d)[j] \in Range(Constraints(d))
  BY <1>1 DEF Range
<1> DEFINE p == Params(d)[i]
<1>3. IsRange(p) =>
        /\ p.valueArray[1] % StepOf(p) = 0
        /\ \/ StepOf(p) = 1
           \/ \A c \in Range(Constraints(d)) : p.paramName \notin NamesOf(c.constExpr)
  BY <1>2, Zenon DEF Aligned, Params, Constraints
<1>4. ~IsRange(p) => StepOf(p) = 1
  BY DEF StepOf
<1> HIDE DEF p
<1>5. \A j \in 1..Len(Constraints(d)) :
        p.paramName \in NamesOf(Constraints(d)[j].constExpr) => StepOf(p) = 1
  BY <1>2, <1>3, <1>4, Zenon
<1> QED BY <1>3, <1>5, Zenon DEF p

LEMMA ConstrainsAlike ==
  ASSUME NEW d \in 1..Len(domains), Proper(domains[d]), Aligned(domains[d]),
         NEW p, NEW env,
         \A i \in 1..Len(Params(d)) :
           /\ p[Params(d)[i].paramName] \in Int
           /\ env[Params(d)[i].paramName]
                = p[Params(d)[i].paramName] * StepOf(Params(d)[i])
  PROVE  Constrains(d, env) <=> Constrains(d, p)
<1>1. ASSUME NEW j \in 1..Len(Constraints(d)),
             NEW x \in NamesOf(Constraints(d)[j].constExpr)
      PROVE  env[x] = p[x]
  <2>1. PICK i \in 1..Len(Params(d)) : x = Params(d)[i].paramName
    BY ProperParams
  <2>2. StepOf(Params(d)[i]) = 1
    BY <2>1, AlignedParams
  <2>3. p[x] \in Int /\ env[x] = p[x] * 1
    BY <2>1, <2>2
  <2> QED BY <2>3
<1>2. \A j \in 1..Len(Constraints(d)) :
        Holds(Constraints(d)[j].constExpr, env) <=> Holds(Constraints(d)[j].constExpr, p)
  BY <1>1, HoldsAlike
<1> QED BY <1>2, Zenon DEF Constrains

LEMMA CountedIsValid ==
  ASSUME NEW d \in 1..Len(domains), Proper(domains[d]), Aligned(domains[d]),
         NEW i \in 1..Len(Params(d)), NEW q \in Int,
         q * StepOf(Params(d)[i]) \in ValuesOf(Params(d)[i])
  PROVE  q * StepOf(Params(d)[i]) \in ValidValues(Params(d)[i])
<1> DEFINE param == Params(d)[i]
<1>1. CASE ~IsRange(param)
  BY <1>1 DEF ValidValues
<1>2. CASE IsRange(param)
  <2>1. PICK b \in Nat \ {0} : b = StepOf(param)
    BY ProperParams, CompleteFields
  <2>2. PICK lo \in Int : lo = param.valueArray[1]
    <3>1. param.valueArray \in Seq(Int) /\ Complete(param)
      BY ProperParams, ParamFields
    <3> HIDE DEF param
    <3>2. Len(param.valueArray) >= 3
      BY <1>2, <3>1 DEF Complete
    <3> QED BY <3>1, <3>2
  <2>3. lo % b = 0
    BY <1>2, <2>1, <2>2, AlignedParams
  <2>4. PICK r \in Int : lo = r * b
    BY <2>3, MultipleMod
  <2>5. q * b - lo = (q - r) * b /\ q - r \in Int /\ q * b - lo \in Int
    BY <2>4
  <2>6. (q * b - lo) % b = 0
    BY <2>5, MultipleMod
  <2>7. q * b \in ValuesOf(param)
    BY <2>1
  <2> HIDE DEF param
  <2>8. q * b \in ValidValues(param)
    BY <1>2, <2>1, <2>2, <2>6, <2>7 DEF ValidValues
  <2> QED BY <2>1, <2>8 DEF param
<1> QED BY <1>1, <1>2

LEMMA ValidIsCounted ==
  ASSUME NEW d \in 1..Len(domains), Proper(domains[d]), Aligned(domains[d]),
         NEW i \in 1..Len(Params(d)), NEW v \in ValidValues(Params(d)[i])
  PROVE  /\ v \in ValuesOf(Params(d)[i])
         /\ \E q \in -MaxIndex..MaxIndex : v = q * StepOf(Params(d)[i])
<1> DEFINE param == Params(d)[i]
<1>1. v \in ValuesOf(param)
  BY DEF ValidValues
<1>2. PICK b \in Nat \ {0} : b = StepOf(param)
  BY ProperParams, CompleteFields
<1>3. v \in Int /\ -(MaxIndex * b) <= v /\ v <= MaxIndex * b
  BY <1>1, <1>2, ProperParams, CompleteFields
<1>4. \E q \in Int : v = q * b
  <2>1. CASE ~IsRange(param)
    <3>1. b = 1
      BY <1>2, <2>1 DEF StepOf
    <3>2. v = v * b
      BY <1>3, <3>1
    <3> QED BY <1>3, <3>2
  <2>2. CASE IsRange(param)
    <3>1. PICK lo \in Int : lo = param.valueArray[1]
      <4>1. param.valueArray \in Seq(Int) /\ Complete(param)
        BY ProperParams, ParamFields
      <4> HIDE DEF param
      <4>2. Len(param.valueArray) >= 3
        BY <2>2, <4>1 DEF Complete
      <4> QED BY <4>1, <4>2
    <3>2. lo % b = 0
      BY <1>2, <2>2, <3>1, AlignedParams
    <3>3. PICK r \in Int : lo = r * b
      BY <3>2, MultipleMod
    <3>4. (v - lo) % b = 0
      BY <1>2, <2>2, <3>1 DEF ValidValues
    <3>5. PICK k \in Int : v - lo = k * b
      <4> DEFINE a == v - lo
      <4>1. a \in Int /\ a % b = 0
        BY <1>3, <3>4
      <4> HIDE DEF a
      <4>2. \E k \in Int : a = k * b
        BY <4>1, MultipleMod
      <4> QED BY <4>2 DEF a
    <3>6. v = (k + r) * b /\ k + r \in Int
      BY <1>3, <3>3, <3>5
    <3> QED BY <3>6
  <2> QED BY <2>1, <2>2
<1>5. PICK q \in Int : v = q * b
  BY <1>4
<1>6. q \in -MaxIndex..MaxIndex
  BY <1>3, <1>5, MultipleBound, MaxIndexAssumption
<1> QED BY <1>1, <1>2, <1>5, <1>6

LEMMA CountedSame ==
  ASSUME NEW d \in 1..Len(domains), Proper(domains[d]), Aligned(domains[d]),
         NEW p \in Counts(d)
  PROVE  CountedTuple(d, p) \in ValidTuples(domains[d])
<1> DEFINE all == UNION {ValidValues(Params(d)[i]) : i \in 1..Len(Params(d))}
           env == [x \in NamesIn(d) |-> p[x] * StepOf(ParamOf(d, x))]
<1>1. \A i \in 1..Len(Params(d)) :
        /\ Params(d)[i].paramName \in NamesIn(d)
        /\ ParamOf(d, Params(d)[i].paramName) = Params(d)[i]
  BY ParamOfName DEF NamesIn
<1>2. \A i \in 1..Len(Params(d)) :
        /\ p[Params(d)[i].paramName] \in Int
        /\ p[Params(d)[i].paramName] * StepOf(Params(d)[i]) \in ValuesOf(Params(d)[i])
  BY <1>1, MaxIndexAssumption DEF Counts
<1>3. \A i \in 1..Len(Params(d)) :
        env[Params(d)[i].paramName] = p[Params(d)[i].paramName] * StepOf(Params(d)[i])
  BY <1>1
<1>4. \A i \in 1..Len(Params(d)) :
        env[Params(d)[i].paramName] \in ValidValues(Params(d)[i])
  BY <1>2, <1>3, CountedIsValid
<1>5. env \in [NamesIn(d) -> all]
  <2>1. ASSUME NEW x \in NamesIn(d) PROVE env[x] \in all
    <3>1. PICK i \in 1..Len(Params(d)) : x = Params(d)[i].paramName
      BY DEF NamesIn
    <3> QED BY <1>4, <3>1
  <2> HIDE DEF all
  <2> QED BY <2>1
<1>6. Constrains(d, env)
  <2>1. Constrains(d, p)
    BY DEF Counts
  <2> HIDE DEF env
  <2> QED BY <1>2, <1>3, <2>1, ConstrainsAlike
<1> HIDE DEF env
<1>7. env \in Valuations(d)
  BY <1>4, <1>5, <1>6 DEF Valuations
<1>8. CountedTuple(d, p) = ValuedTuple(d, env)
  BY <1>3 DEF CountedTuple, ValuedTuple
<1> QED BY <1>7, <1>8, ValidTuplesValued

LEMMA ValuedSame ==
  ASSUME NEW d \in 1..Len(domains), Proper(domains[d]), Aligned(domains[d]),
         NEW env \in Valuations(d)
  PROVE  \E p \in Counts(d) : CountedTuple(d, p) = ValuedTuple(d, env)
<1> DEFINE Of(x) == CHOOSE q \in -MaxIndex..MaxIndex :
                      env[x] = q * StepOf(ParamOf(d, x))
           p == [x \in NamesIn(d) |-> Of(x)]
<1>1. \A i \in 1..Len(Params(d)) :
        /\ Params(d)[i].paramName \in NamesIn(d)
        /\ ParamOf(d, Params(d)[i].paramName) = Params(d)[i]
  BY ParamOfName DEF NamesIn
<1>2. ASSUME NEW i \in 1..Len(Params(d))
      PROVE  LET x == Params(d)[i].paramName
             IN /\ env[x] \in ValuesOf(Params(d)[i])
                /\ Of(x) \in -MaxIndex..MaxIndex
                /\ env[x] = Of(x) * StepOf(Params(d)[i])
  <2> DEFINE x == Params(d)[i].paramName
  <2>1. env[x] \in ValidValues(Params(d)[i])
    BY DEF Valuations
  <2>2. env[x] \in ValuesOf(Params(d)[i])
    BY <2>1, ValidIsCounted
  <2>3. \E q \in -MaxIndex..MaxIndex : env[x] = q * StepOf(ParamOf(d, x))
    BY <1>1, <2>1, ValidIsCounted
  <2>4. Of(x) \in -MaxIndex..MaxIndex /\ env[x] = Of(x) * StepOf(ParamOf(d, x))
    BY <2>3, Zenon
  <2> HIDE DEF Of
  <2> QED BY <1>1, <2>2, <2>4
<1> HIDE DEF Of
<1>3. \A i \in 1..Len(Params(d)) :
        /\ p[Params(d)[i].paramName] \in -MaxIndex..MaxIndex
        /\ p[Params(d)[i].paramName] \in Int
        /\ env[Params(d)[i].paramName]
             = p[Params(d)[i].paramName] * StepOf(Params(d)[i])
        /\ p[Params(d)[i].paramName] * StepOf(Params(d)[i]) \in ValuesOf(Params(d)[i])
  BY <1>1, <1>2, MaxIndexAssumption
<1>4. p \in [NamesIn(d) -> -MaxIndex..MaxIndex]
  <2>1. ASSUME NEW x \in NamesIn(d) PROVE Of(x) \in -MaxIndex..MaxIndex
    <3>1. PICK i \in 1..Len(Params(d)) : x = Params(d)[i].paramName
      BY DEF NamesIn
    <3> QED BY <1>2, <3>1
  <2> QED BY <2>1
<1> HIDE DEF p
<1>5. Constrains(d, p)
  <2>1. Constrains(d, env)
    BY DEF Valuations
  <2> QED BY <1>3, <2>1, ConstrainsAlike
<1>6. p \in Counts(d)
  BY <1>3, <1>4, <1>5 DEF Counts
<1>7. CountedTuple(d, p) = ValuedTuple(d, env)
  BY <1>3 DEF CountedTuple, ValuedTuple
<1> QED BY <1>6, <1>7

LEMMA ExactOne ==
  ASSUME IInv, Private, NEW s \in Servers, Succeeded(s), ~unrun[s],
         Proper(Answering(s)), Aligned(Answering(s))
  PROVE  reply[s].tuples = ValidTuples(Answering(s))
<1>1. PICK garbage : Answered(s, garbage)
  BY AnsweredOne
<1>2. query[s].dom \in 1..Len(domains)
  BY AnsweredOne
<1>3. PICK d \in 1..Len(domains) : d = query[s].dom
  BY <1>2
<1>4. /\ Proper(domains[d]) /\ Aligned(domains[d])
      /\ ValidTuples(Answering(s)) = ValidTuples(domains[d])
  BY <1>3 DEF Answering
<1>5. reply[s].tuples = {CountedTuple(d, p) : p \in Counts(d)}
  <2>1. reply[s].tuples = {CountedTuple(query[s].dom, p) : p \in Counts(query[s].dom)}
    BY <1>1, <1>2, AnsweredAll, Zenon
  <2> QED BY <1>3, <2>1, Zenon
<1>6. \A t \in reply[s].tuples : t \in ValidTuples(domains[d])
  BY <1>4, <1>5, CountedSame
<1>7. ASSUME NEW t \in ValidTuples(domains[d]) PROVE t \in reply[s].tuples
  <2>1. PICK env \in Valuations(d) : t = ValuedTuple(d, env)
    BY ValidTuplesValued
  <2> QED BY <1>4, <1>5, <2>1, ValuedSame
<1> QED BY <1>4, <1>6, <1>7

(***************************************************************************)
(* For any description, of whatever ranges that begin at a multiple of     *)
(* their step, and any constraints on those in steps of 1: behind a server *)
(* with a directory to itself success comes with all the valid tuples of   *)
(* the domain and with no other (README.md, "all the available             *)
(* combinatins"), through faults, kills and what they leave in the files.  *)
(***************************************************************************)
THEOREM AnswersExact == Private /\ Spec => []Exact
<1>1. ASSUME Private PROVE Spec => []Exact
  <2>1. IInv => Exact
    BY <1>1, ExactOne DEF Exact
  <2> QED BY <2>1, InvariantHolds, PTL
<1> QED BY <1>1
=============================================================================

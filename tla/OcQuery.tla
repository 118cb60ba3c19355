-------------------------------- MODULE OcQuery --------------------------------
(***************************************************************************)
(* The query of the Omega calculator behind an answer to getvalidparams:   *)
(* ATPS_send_valid_parameters of the ATP server, the C side of the query   *)
(* (atpquery.c) and its Lua side (lua/oc_query.lua, lua/parse_oc_code.lua, *)
(* lua/lua_codex.lua).                                                     *)
(*                                                                         *)
(* The request goes to the calculator through the file oc_query.in, the    *)
(* answer comes back through oc_query.out, is translated to Lua, written   *)
(* to gen_file.lua and executed from there.  The three files have these    *)
(* names in the directory of the query whoever asks, so servers may share  *)
(* them, and they stay when a server ends.  A step is what one process     *)
(* does to one file; of two processes that write the same file at once the *)
(* last to close it wins.                                                  *)
(***************************************************************************)
EXTENDS OcRequest

CONSTANTS
  Servers,     \* the ATP servers
  Dirs,        \* the directories they run the query in
  DirOf,       \* per server: ATP_OC_PATH, or where it was started
  domains,     \* the description that the servers have loaded
  Asked,       \* the domain names that clients ask for
  Garbage,     \* values found where a parameter has none
  Faults       \* "lua", "open", "fork": what may go wrong

ASSUME DirsAssumption == DirOf \in [Servers -> Dirs]

\* The description is one that ATP_gen_descfile printed and the loader put back:
\* no domain has two parameters of one name, and each has its values, if only none.
ASSUME DomainsAssumption ==
  /\ domains \in Seq(atp_domain_t(Names, atp_param_t(Names, Int, Int),
                                  atp_constraint_t(Names, Expressions), {}))
  /\ \A i \in 1..Len(domains) :
       LET ps == domains[i].paramsArray
       IN /\ \A j \in 1..Len(ps) : ps[j].valueArray # Uninit
          /\ \A j, k \in 1..Len(ps) : ps[j].paramName = ps[k].paramName => j = k

\* The bound of the calculator's search leaves no value of a parameter out.
ASSUME MaxIndexReaches ==
  \A i \in 1..Len(domains) : \A param \in Range(domains[i].paramsArray) :
    Complete(param) =>
      \A v \in ValuesOf(param) :
        -(MaxIndex * StepOf(param)) <= v /\ v <= MaxIndex * StepOf(param)

ASSUME FaultsAssumption == Faults \subseteq {"lua", "open", "fork"}

VARIABLES
  pc,       \* per server: where it is in the query
  query,    \* per server: the index of the domain asked for, and the request
  code,     \* per server: the text that was read from oc_query.out
  reply,    \* per server: what the client is sent, or NoReply
  in,       \* per directory: oc_query.in
  out,      \* per directory: oc_query.out
  gen,      \* per directory: gen_file.lua
  unrun     \* history, per server: os.execute of this query ran nothing

files == <<in, out, gen>>
vars == <<pc, query, code, reply, files, unrun>>

NoReply == [status |-> "none"]
NoQuery == [dom |-> NoIndex]
NoFile == [kind |-> "no file"]
Opened == [kind |-> "opened"]         \* truncated, and not written yet
Broken == [kind |-> "broken"]         \* what Lua refuses to load or to run

Init ==
  /\ pc = [s \in Servers |-> "idle"]
  /\ query = [s \in Servers |-> NoQuery]
  /\ code = [s \in Servers |-> Silent]
  /\ reply = [s \in Servers |-> NoReply]
  /\ in = [d \in Dirs |-> NoFile]
  /\ out = [d \in Dirs |-> NoFile]
  /\ gen = [d \in Dirs |-> NoFile]
  /\ unrun = [s \in Servers |-> FALSE]

At(s, label) == pc[s] = label
Go(s, label) == pc' = [pc EXCEPT ![s] = label]
InDir(s, f, content) == [f EXCEPT ![DirOf[s]] = content]

-----------------------------------------------------------------------------
(* ATPS_send_valid_parameters and the C side of the query.                 *)

Failure == [status |-> "failure", count |-> 0, elems |-> 0, tuples |-> {}]

\* Mutant: the elements are counted over all the tuples.
Success_total(ts) ==
  [status |-> "success", count |-> Cardinality(ts),
   elems |-> IF ts = {} THEN 0 ELSE Len(CHOOSE t \in ts : TRUE) * Cardinality(ts),
   tuples |-> ts]

\* execute_lua_code counts the tuples, and the elements in one of them.
Success(ts) ==
  [status |-> "success", count |-> Cardinality(ts),
   elems |-> IF ts = {} THEN 0 ELSE Len(CHOOSE t \in ts : TRUE), tuples |-> ts]

Reply(s, r) ==
  /\ reply' = [reply EXCEPT ![s] = r]
  /\ Go(s, "idle")

UnknownDomain(s, name) ==
  /\ At(s, "idle")
  /\ ATP_domain_find(name, domains) = NoIndex
  /\ query' = [query EXCEPT ![s] = NoQuery]
  /\ Reply(s, Failure)
  /\ UNCHANGED <<code, files, unrun>>

Ask(s, name) ==
  LET dom == ATP_domain_find(name, domains)
  IN /\ At(s, "idle")
     /\ dom # NoIndex
     /\ \E garbage \in Garbage :
          query' = [query EXCEPT ![s] =
            [dom |-> dom, request |-> ATP_build_oc_request(domains[dom], garbage)]]
     /\ reply' = [reply EXCEPT ![s] = NoReply]
     /\ unrun' = [unrun EXCEPT ![s] = FALSE]
     /\ Go(s, "lua")
     /\ UNCHANGED <<code, files>>

\* luaL_loadfile, or the pcall that runs the file: ATP_PATH leads nowhere.
LuaFails(s) ==
  /\ At(s, "lua")
  /\ "lua" \in Faults
  /\ Reply(s, Failure)
  /\ UNCHANGED <<query, code, files, unrun>>

-----------------------------------------------------------------------------
(* launch_oc.                                                              *)

OpenIn(s) ==
  /\ At(s, "lua")
  /\ in' = InDir(s, in, Opened)
  /\ Go(s, "write in")
  /\ UNCHANGED <<query, code, reply, out, gen, unrun>>

WriteIn(s) ==
  /\ At(s, "write in")
  /\ in' = InDir(s, in, query[s].request)
  /\ Go(s, "execute oc")
  /\ UNCHANGED <<query, code, reply, out, gen, unrun>>

\* Mutant: the calculator is started in the background.
Redirect_background(s) ==
  /\ At(s, "execute oc")
  /\ out' = InDir(s, out, Silent)
  /\ Go(s, "read out")
  /\ UNCHANGED <<query, code, reply, in, gen, unrun>>

\* The shell truncates the output before the calculator runs.
Redirect(s) ==
  /\ At(s, "execute oc")
  /\ out' = InDir(s, out, Silent)
  /\ Go(s, "oc")
  /\ UNCHANGED <<query, code, reply, in, gen, unrun>>

\* The calculator reads the request that is in the file now, which another
\* server may have opened anew.
RunOc(s) ==
  /\ At(s, "oc")
  /\ \E o \in IF in[DirOf[s]] = Opened THEN {Silent} ELSE OcOutputs(in[DirOf[s]]) :
       out' = InDir(s, out, o)
  /\ Go(s, "read out")
  /\ UNCHANGED <<query, code, reply, in, gen, unrun>>

\* os.execute starts nothing.  Its result is not looked at.
ForkFails(s) ==
  /\ At(s, "execute oc")
  /\ "fork" \in Faults
  /\ unrun' = [unrun EXCEPT ![s] = TRUE]
  /\ Go(s, "read out")
  /\ UNCHANGED <<query, code, reply, files>>

\* Mutant: waits for a text.
ReadOut_waiting(s) ==
  /\ At(s, "read out")
  /\ out[DirOf[s]] \notin {NoFile, Silent}
  /\ code' = [code EXCEPT ![s] = out[DirOf[s]]]
  /\ Go(s, "open gen")
  /\ UNCHANGED <<query, reply, files, unrun>>

ReadOut(s) ==
  /\ At(s, "read out")
  /\ out[DirOf[s]] # NoFile
  /\ code' = [code EXCEPT ![s] = out[DirOf[s]]]
  /\ Go(s, "open gen")
  /\ UNCHANGED <<query, reply, files, unrun>>

-----------------------------------------------------------------------------
(* codegen: the translation, and its execution.                            *)

\* Mutant: a text that is no program is passed on.
parse_code_unchecked(text) == IF text.kind = "silent" THEN Program({}) ELSE text

\* parse_code starts the table of tuples, so a text without loops leaves it
\* empty.  A line it does not know is kept as it is, and makes what it returns a
\* text that Lua refuses: the tag stands for the whole of it.
parse_code(text) ==
  CASE text.kind = "silent" -> Program({})
    [] text.kind = "program" -> text
    [] OTHER -> Broken

OpenGen(s) ==
  /\ At(s, "open gen")
  /\ gen' = InDir(s, gen, Opened)
  /\ Go(s, "write gen")
  /\ UNCHANGED <<query, code, reply, in, out, unrun>>

WriteGen(s) ==
  /\ At(s, "write gen")
  /\ gen' = InDir(s, gen, parse_code(code[s]))
  /\ Go(s, "execute gen")
  /\ UNCHANGED <<query, code, reply, in, out, unrun>>

\* An empty file leaves tuples nil: also an error, caught by lua_pcall.
execute_lua_code(s) ==
  LET program == gen[DirOf[s]]
  IN /\ At(s, "execute gen")
     /\ Reply(s, IF program.kind = "program" THEN Success(program.tuples) ELSE Failure)
     /\ UNCHANGED <<query, code, files, unrun>>

-----------------------------------------------------------------------------
(* The end of a server.                                                    *)

Gone(s) ==
  /\ pc' = [pc EXCEPT ![s] = "gone"]
  /\ reply' = [reply EXCEPT ![s] = NoReply]
  /\ UNCHANGED <<query, code, files, unrun>>

\* os.exit ends the server: a file cannot be opened.
OpenFails(s) ==
  /\ "open" \in Faults
  /\ pc[s] \in {"lua", "read out", "open gen"}
  /\ Gone(s)

\* os.exit as well: the calculator was never run, and there is no output at all.
NoOutput(s) ==
  /\ At(s, "read out")
  /\ out[DirOf[s]] = NoFile
  /\ Gone(s)

Kill(s) == pc[s] # "gone" /\ Gone(s)

\* A new server finds the files that the old one left.
Restart(s) ==
  /\ At(s, "gone")
  /\ query' = [query EXCEPT ![s] = NoQuery]
  /\ code' = [code EXCEPT ![s] = Silent]
  /\ Go(s, "idle")
  /\ UNCHANGED <<reply, files, unrun>>

oc_request_range_generation(s) ==
  \/ OpenIn(s)
  \/ WriteIn(s)
  \/ Redirect(s)
  \/ RunOc(s)
  \/ ReadOut(s)
  \/ NoOutput(s)
  \/ OpenGen(s)
  \/ WriteGen(s)
  \/ execute_lua_code(s)

Fault(s) == LuaFails(s) \/ ForkFails(s) \/ OpenFails(s) \/ Kill(s)

Next ==
  \E s \in Servers :
    \/ \E name \in Asked : UnknownDomain(s, name) \/ Ask(s, name)
    \/ oc_request_range_generation(s)
    \/ Fault(s)
    \/ Restart(s)

Spec == Init /\ [][Next]_vars

\* The calculator ends, and the operating system runs a server on.  No fault need
\* occur.
FairSpec == Spec /\ \A s \in Servers : WF_vars(oc_request_range_generation(s))

-----------------------------------------------------------------------------
(* Properties.                                                             *)

Texts == {"silent", "message", "unrunnable", "program"}

\* The type invariant: gen_file.lua holds what parse_code returned, which Lua runs or
\* refuses, and oc_query.in nothing but a request.
TypeOK ==
  /\ pc \in [Servers -> {"idle", "lua", "write in", "execute oc", "oc", "read out",
                         "open gen", "write gen", "execute gen", "gone"}]
  /\ \A s \in Servers : /\ query[s].dom \in 0..Len(domains)
                        /\ code[s].kind \in Texts
                        /\ reply[s].status \in {"none", "success", "failure"}
  /\ \A d \in Dirs :
       /\ in[d] \in {NoFile, Opened} \/ DOMAIN in[d] = {"clauses", "constraints"}
       /\ out[d] = NoFile \/ out[d].kind \in Texts
       /\ gen[d].kind \in {"no file", "opened", "program", "broken"}
  /\ unrun \in [Servers -> BOOLEAN]

\* The domain that s answers for.
Answering(s) == domains[query[s].dom]

Succeeded(s) == At(s, "idle") /\ reply[s].status = "success"

\* Whatever the steps of its ranges are, no answer has a value that is outside of
\* its parameter's range or enumeration, nor a value for another parameter: also
\* behind a server that was killed in the middle of a query.
WithinRanges ==
  \A s \in Servers :
    Succeeded(s) /\ ~unrun[s] /\ Proper(Answering(s)) =>
      LET ps == Answering(s).paramsArray
      IN \A t \in reply[s].tuples :
           Len(t) = Len(ps) /\ \A i \in 1..Len(ps) : t[i] \in ValuesOf(ps[i])

\* "returns all the available combinatins that parameters can have in a single
\* domain" (README.md): a query that reports success has the valid tuples of the
\* domain that was asked for, all of them and no other, where the ranges are such
\* that a step counts from 0.  So success with no tuple says that none is valid,
\* and no answer is made of what an earlier query, or an earlier server, left.
Exact ==
  \A s \in Servers :
    Succeeded(s) /\ ~unrun[s] /\ Proper(Answering(s)) /\ Aligned(Answering(s)) =>
      reply[s].tuples = ValidTuples(Answering(s))

\* No other server uses the directory of s.
Alone(s) == \A other \in Servers \ {s} : DirOf[other] # DirOf[s]

\* Whatever the domain looks like, a server that has its directory to itself
\* answers with what the calculator says of the very request it has built: not
\* with a text, nor with a program, that an earlier query left in the files, also
\* one that failed or was cut off by the end of the server.
OwnAnswer ==
  \A s \in Servers :
    Succeeded(s) /\ ~unrun[s] /\ Alone(s) =>
      \E o \in OcOutputs(query[s].request) :
        /\ parse_code(o).kind = "program"
        /\ reply[s] = Success(parse_code(o).tuples)

\* What the client reads by: the count is that of the tuples, and each of them is
\* as long as the answer says.  That length, "elements per combination", is 0
\* where there are none, and otherwise the number of the parameters of a known
\* type: that of README.md:123, "equal to number of parameters in domain", only if
\* there are tuples and all types are known.  AtpServer takes this for granted
\* (OcResults).
AnswerFits ==
  \A s \in Servers :
    Succeeded(s) /\ ~unrun[s] =>
      /\ reply[s].count = Cardinality(reply[s].tuples)
      /\ \A t \in reply[s].tuples : Len(t) = reply[s].elems
      /\ reply[s].elems =
           IF reply[s].tuples = {} THEN 0
           ELSE Cardinality({i \in 1..Len(Answering(s).paramsArray) :
                               Known(Answering(s).paramsArray[i])})

\* A server that was asked answers, or is gone: what the calculator says or does
\* not say cannot hold it.
QueryEnds ==
  \A s \in Servers : pc[s] # "idle" ~> (pc[s] = "gone" \/ reply[s] # NoReply)

-----------------------------------------------------------------------------
(* Statements of the documentation that the code does not meet.            *)

\* The same of every range {min, max, step} and every constraint on it (README.md,
\* and the example of atplib.h).
StepsCountFromMin ==
  \A s \in Servers :
    Succeeded(s) /\ ~unrun[s] /\ Proper(Answering(s)) =>
      reply[s].tuples = ValidTuples(Answering(s))
=============================================================================

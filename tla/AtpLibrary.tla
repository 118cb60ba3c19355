------------------------------ MODULE AtpLibrary ------------------------------
(***************************************************************************)
(* The ATP library (src/atplib/atplib.c with src/common/atpcommon.c) in    *)
(* the processes of an annotated application, over several executions of   *)
(* that application in one working directory.                              *)
(*                                                                         *)
(* In a DTA execution every process collects the declarations it meets,    *)
(* until a second declaration of a name (or an explicit call) ends its     *)
(* collection.  The processes then race for the lock file atp.lck: the one *)
(* that creates it writes the description file.  In a RAT execution every  *)
(* process loads the description file instead of collecting.  Processes    *)
(* share nothing but the two files.                                        *)
(*                                                                         *)
(* The application is the set of annotations in its text: any process may  *)
(* reach any of them, in any order and any number of times.  Of a server    *)
(* (AtpServer) started in the same directory, only its load is seen here.  *)
(***************************************************************************)
EXTENDS AtpCommon, FiniteSets

CONSTANTS
  Procs,             \* the processes of the application
  Plan,              \* the executions: a sequence of "DTA" and "RAT"
  Faults,            \* for each execution, what may go wrong in it
  Barrier,           \* no process ends its collection before all started theirs
  Served,            \* servers of ATP are started in the application's directory
  DomainNames, ParamNames, ConstraintNames, Exprs, ExpLists,
  ParamDecls, ValueDecls, ConstraintDecls, ExplorationDecls, Gets,
                     \* the application's annotations: arguments of its calls
  GarbageArrays,     \* what an uninitialised valueArray and nValues may print
  Torn               \* a stretch of the file that is not one whole domain

PTypes == 0..255                                   \* uint8_t
DomArgs == DomainNames \cup {NULL}

ASSUME NamesAssumption ==
  /\ ATP_DFLT_DOMAIN \in DomainNames
  /\ NULL \notin DomainNames
  /\ ExpLists \subseteq Seq(PTypes)
  /\ Uninit \notin Seq(Int)
  /\ GarbageArrays \subseteq Seq(Int)
  /\ GarbageArrays # {}

ASSUME PlanAssumption ==
  /\ Plan \in Seq({"DTA", "RAT"})
  /\ Plan # <<>>
  /\ Faults \in Seq(SUBSET {"kill", "open", "garbage"})
  /\ Len(Faults) = Len(Plan)
  /\ Barrier \in BOOLEAN /\ Served \in BOOLEAN

ASSUME AnnotationsAssumption ==
  /\ ParamDecls \subseteq [pname : ParamNames, ptype : PTypes, deflt : Int,
                           domName : DomArgs]
  /\ ValueDecls \subseteq [pname : ParamNames, vArray : Seq(Int) \cup {NULL},
                           domName : DomArgs]
  /\ ConstraintDecls \subseteq [cname : ConstraintNames,
                                expr : Exprs \cup {NULL}, domName : DomArgs]
  /\ ExplorationDecls \subseteq [expList : ExpLists \cup {NULL},
                                 domName : DomArgs]
  /\ Gets \subseteq [pname : ParamNames, domName : DomArgs]

VARIABLES
  lib,        \* per process: domArray, and whether ATP_init has run
  rrl,        \* per process: what rrl_atp_param_declare has told the RRL
  asked,      \* history, per process: what rrl_atp_param_get asked of the RRL
  pc,         \* per process: in the application, or where in ATP_gen_descfile
  cursor,     \* per process: the index i of ATP_gen_descfile's loop
  lock,       \* atp.lck: the execution that created it, or NoLock
  file,       \* the description file, as the domains written to it
  execution,  \* the execution going on, an index into Plan
  creators,   \* history: who created the lock file in this execution
  exported    \* history: what the last process to open the file set out to write

vars == <<lib, rrl, asked, pc, cursor, lock, file, execution, creators, exported>>

-----------------------------------------------------------------------------
(* Types.                                                                  *)

Params == atp_param_t(ParamNames, PTypes, Int)
Constraints == atp_constraint_t(ConstraintNames, Exprs)
Domains == atp_domain_t(DomainNames, Params, Constraints, PTypes)
Libs == [init : BOOLEAN, collection : {0, 1}, domains : Seq(Domains)]
Chunks == [domain : Domains, last : BOOLEAN]
Told == ParamNames \X Int \X DomArgs

NoLock == 0

ASSUME TornAssumption == Torn \notin Chunks

TypeOK ==
  /\ lib \in [Procs -> Libs]
  /\ rrl \in [Procs -> SUBSET Told]
  /\ asked \in [Procs -> SUBSET Told]
  /\ pc \in [Procs -> {"app", "lock", "open", "write", "down"}]
  /\ cursor \in [Procs -> Nat \ {0}]
  /\ lock \in {NoLock} \cup 1..Len(Plan)
  /\ file \in Seq(Chunks \cup {Torn})
  /\ execution \in 1..Len(Plan)
  /\ creators \subseteq Procs
  /\ exported \in [execution : {0} \cup 1..Len(Plan), domains : Seq(Domains)]

-----------------------------------------------------------------------------
(***************************************************************************)
(* The state of the library in one process.  domArray is a static          *)
(* variable: collection is 0, not -1, until ATP_init runs.  The static     *)
(* desc_file_loaded of a RAT process is its init: a load that succeeds     *)
(* sets both, one that fails neither.                                      *)
(***************************************************************************)
FreshLib == [init |-> FALSE, collection |-> 0, domains |-> <<>>]

ATP_init(l) ==
  IF l.init THEN l
  ELSE [init |-> TRUE, collection |-> -1,
        domains |-> ATP_domain_new(ATP_DFLT_DOMAIN, <<>>)]

ATP_collection_is_active(l) == l.collection = 1
ATP_collection_is_not_init(l) == l.collection = -1
ATP_collection_set(l) == [l EXCEPT !.collection = 1]
ATP_collection_unset(l) == [l EXCEPT !.collection = 0]

\* Mutant: without the test of ATP_collection_is_not_init.
StartCollection_again(l) == ATP_collection_set(ATP_init(l))

\* The DTA branch of atp_init_collection.
StartCollection(l) ==
  LET i == ATP_init(l)
  IN IF ATP_collection_is_not_init(i) THEN ATP_collection_set(i) ELSE i

ATP_check_exec_mode == Plan[execution]

\* Mutants: removed by every call, removed by none.
RemoveLock_always(p) == lock' = NoLock
RemoveLock_never(p) == lock' = lock

\* ATP_init's call of ATP_remove_lockfile, the first time it runs.
RemoveLockIfFirst(p) == lock' = IF lib[p].init THEN lock ELSE NoLock

Init ==
  /\ lib = [p \in Procs |-> FreshLib]
  /\ rrl = [p \in Procs |-> {}]
  /\ asked = [p \in Procs |-> {}]
  /\ pc = [p \in Procs |-> "app"]
  /\ cursor = [p \in Procs |-> 1]
  /\ lock = NoLock
  /\ file = <<>>
  /\ execution = 1
  /\ creators = {}
  /\ exported = [execution |-> 0, domains |-> <<>>]

-----------------------------------------------------------------------------
(***************************************************************************)
(* The API calls of a DTA process.  Each declaration first starts the      *)
(* collection if no call did before.  A call that finds the collection     *)
(* ended returns and changes nothing, which is a stuttering step.          *)
(***************************************************************************)
Collecting(p) ==
  /\ pc[p] = "app"
  /\ ATP_check_exec_mode = "DTA"
  /\ ATP_collection_is_active(StartCollection(lib[p]))

\* The domains of p once its collection is started.
Collected(p) == StartCollection(lib[p]).domains

\* The call leaves the collection started and its domains ds.
Collect(p, ds) ==
  /\ lib' = [lib EXCEPT ![p] = [StartCollection(@) EXCEPT !.domains = ds]]
  /\ RemoveLockIfFirst(p)
  /\ UNCHANGED <<asked, pc, cursor, file, execution, creators, exported>>

AllStarted == \A q \in Procs : lib[q].init \/ pc[q] = "down"

\* The application's own synchronisation, assumed only if Barrier.
MayEnd == Barrier => AllStarted

\* atp_end_collection up to the call of ATP_gen_descfile.
EndCollection(p, ds) ==
  /\ MayEnd
  /\ lib' = [lib EXCEPT ![p] = ATP_collection_unset([@ EXCEPT !.domains = ds])]
  /\ pc' = [pc EXCEPT ![p] = "lock"]
  /\ UNCHANGED <<rrl, asked, cursor, lock, file, execution, creators, exported>>

\* The domain is created if it is not there, before the name is looked up.
WithDomain(p, c) == ATP_domain_new(Named(c.domName), Collected(p))

\* Mutant: the name is looked up in the given domain only.
atp_param_declare_scoped(p, c) ==
  LET ds == WithDomain(p, c)
      dom == ATP_domain_find(c.domName, ds)
  IN /\ Collecting(p)
     /\ ATP_param_find(c.pname, ds[dom]) = NoIndex
     /\ Collect(p, ATP_param_new(c.pname, c.ptype, c.deflt, dom, ds))
     /\ rrl' = [rrl EXCEPT ![p] = @ \cup {<<c.pname, c.deflt, c.domName>>}]

atp_param_declare(p, c) ==
  LET ds == WithDomain(p, c)
      dom == ATP_domain_find(c.domName, ds)
  IN /\ Collecting(p)
     /\ ATP_param_find_unique(c.pname, ds)[1] = NoIndex
     /\ Collect(p, ATP_param_new(c.pname, c.ptype, c.deflt, dom, ds))
     /\ rrl' = [rrl EXCEPT ![p] = @ \cup {<<c.pname, c.deflt, c.domName>>}]

\* A name in use: "considered looping".
atp_param_declare_again(p, c) ==
  /\ Collecting(p)
  /\ ATP_param_find_unique(c.pname, WithDomain(p, c))[1] # NoIndex
  /\ EndCollection(p, WithDomain(p, c))

\* Mutant: a range takes any number of values.
atp_param_add_values_unchecked(p, c) ==
  LET ds == Collected(p)
      dom == ATP_domain_find(c.domName, ds)
      param == IF dom = NoIndex THEN NoIndex ELSE ATP_param_find(c.pname, ds[dom])
      accepted == c.vArray # NULL /\ c.vArray # <<>> /\ param # NoIndex
  IN /\ Collecting(p)
     /\ Collect(p, IF accepted THEN ATP_param_add_values(param, dom, c.vArray, ds)
                               ELSE ds)
     /\ UNCHANGED rrl

atp_param_add_values(p, c) ==
  LET ds == Collected(p)
      dom == ATP_domain_find(c.domName, ds)
      param == IF dom = NoIndex THEN NoIndex ELSE ATP_param_find(c.pname, ds[dom])
      accepted == /\ c.vArray # NULL
                  /\ c.vArray # <<>>
                  /\ param # NoIndex
                  /\ ds[dom].paramsArray[param].paramType = ATP_PARAM_TYPE_RANGE
                       => Len(c.vArray) = 3
  IN /\ Collecting(p)
     /\ Collect(p, IF accepted THEN ATP_param_add_values(param, dom, c.vArray, ds)
                               ELSE ds)
     /\ UNCHANGED rrl

\* The constraint of that name in the domain the call names, if both exist.
ConstraintOf(c, ds) ==
  LET dom == ATP_domain_find(c.domName, ds)
  IN IF dom = NoIndex THEN NoIndex ELSE ATP_constraint_find(c.cname, ds[dom])

atp_constraint_declare(p, c) ==
  LET ds == Collected(p)
      dom == ATP_domain_find(c.domName, ds)
  IN /\ Collecting(p)
     /\ c.expr = NULL \/ ConstraintOf(c, ds) = NoIndex
     /\ Collect(p, IF c.expr = NULL \/ dom = NoIndex THEN ds
                   ELSE ATP_constraint_new(c.cname, c.expr, dom, ds))
     /\ UNCHANGED rrl

atp_constraint_declare_again(p, c) ==
  /\ Collecting(p)
  /\ c.expr # NULL
  /\ ConstraintOf(c, Collected(p)) # NoIndex
  /\ EndCollection(p, Collected(p))

\* Mutant: a NULL list is not refused.
atp_exploration_declare_null(p, c) ==
  LET ds == Collected(p)
      dom == ATP_domain_find(c.domName, ds)
  IN /\ Collecting(p)
     /\ Collect(p, IF c.domName = NULL \/ dom = NoIndex THEN ds
                   ELSE ATP_exploration_new(c.expList, dom, ds))
     /\ UNCHANGED rrl

atp_exploration_declare(p, c) ==
  LET ds == Collected(p)
      dom == ATP_domain_find(c.domName, ds)
  IN /\ Collecting(p)
     /\ Collect(p, IF c.expList = NULL \/ c.domName = NULL \/ dom = NoIndex THEN ds
                   ELSE ATP_exploration_new(c.expList, dom, ds))
     /\ UNCHANGED rrl

\* The explicit call starts no collection.
atp_end_collection(p) ==
  /\ pc[p] = "app"
  /\ ATP_check_exec_mode = "DTA"
  /\ ATP_collection_is_active(lib[p])
  /\ EndCollection(p, lib[p].domains)

\* In either mode.  The lookup ignores the domain, the RRL is given it as
\* the caller wrote it.  A name not found is only reported.
atp_param_get(p, g) ==
  LET at == ATP_param_find_unique(g.pname, lib[p].domains)
  IN /\ pc[p] = "app"
     /\ at[1] # NoIndex
     /\ asked' = [asked EXCEPT ![p] = @ \cup
          {<<g.pname, lib[p].domains[at[1]].paramsArray[at[2]].defaultVal,
             g.domName>>}]
     /\ UNCHANGED <<lib, rrl, pc, cursor, lock, file, execution, creators, exported>>

-----------------------------------------------------------------------------
(* ATP_gen_descfile, one step per system call that others can see.         *)

\* Mutant: open without O_EXCL.
ATP_create_lockfile_shared(p) ==
  /\ pc[p] = "lock"
  /\ lock' = execution
  /\ creators' = creators \cup {p}
  /\ pc' = [pc EXCEPT ![p] = "open"]
  /\ UNCHANGED <<lib, rrl, asked, cursor, file, execution, exported>>

ATP_create_lockfile(p) ==
  /\ pc[p] = "lock"
  /\ lock = NoLock
  /\ lock' = execution
  /\ creators' = creators \cup {p}
  /\ pc' = [pc EXCEPT ![p] = "open"]
  /\ UNCHANGED <<lib, rrl, asked, cursor, file, execution, exported>>

\* Mutant: a lock that is there is no reason not to write.
LockTaken_ignored(p) ==
  /\ pc[p] = "lock"
  /\ lock # NoLock
  /\ pc' = [pc EXCEPT ![p] = "open"]
  /\ UNCHANGED <<lib, rrl, asked, cursor, lock, file, execution, creators, exported>>

\* O_EXCL found the file, or open failed otherwise, which ATP_create_lockfile does
\* not tell apart: the process leaves the writing to another.
LockTaken(p) ==
  /\ pc[p] = "lock"
  /\ lock # NoLock \/ "open" \in Faults[execution]
  /\ pc' = [pc EXCEPT ![p] = "app"]
  /\ UNCHANGED <<lib, rrl, asked, cursor, lock, file, execution, creators, exported>>

\* Mutant: fopen with "r+".
OpenDesc_in_place(p) ==
  /\ pc[p] = "open"
  /\ pc' = [pc EXCEPT ![p] = "write"]
  /\ cursor' = [cursor EXCEPT ![p] = 1]
  /\ exported' = [execution |-> execution, domains |-> lib[p].domains]
  /\ UNCHANGED <<lib, rrl, asked, lock, file, execution, creators>>

\* fopen with "w" truncates.
OpenDesc(p) ==
  /\ pc[p] = "open"
  /\ pc' = [pc EXCEPT ![p] = "write"]
  /\ cursor' = [cursor EXCEPT ![p] = 1]
  /\ file' = <<>>
  /\ exported' = [execution |-> execution, domains |-> lib[p].domains]
  /\ UNCHANGED <<lib, rrl, asked, lock, execution, creators>>

\* fopen fails: the lock file stays.
OpenFails(p) ==
  /\ pc[p] = "open"
  /\ "open" \in Faults[execution]
  /\ pc' = [pc EXCEPT ![p] = "app"]
  /\ UNCHANGED <<lib, rrl, asked, cursor, lock, file, execution, creators, exported>>

\* What is printed of a domain, garbage standing for the uninitialised
\* arrays of values, and numExplorations bounding the hints.
Printed(domain, garbage) ==
  [domain EXCEPT
     !.paramsArray =
        [i \in 1..Len(domain.paramsArray) |->
           [domain.paramsArray[i] EXCEPT
              !.valueArray = IF @ = Uninit THEN garbage[i] ELSE @]],
     !.explorationArray = SubSeq(@, 1, domain.numExplorations)]

\* A stream writes at its own offset, whatever others did to the file: past
\* the end it leaves a hole, and it overwrites what is there.
WriteAt(at, chunk, f) ==
  IF at = Len(f) + 1 THEN Append(f, chunk)
  ELSE [i \in 1..(IF at > Len(f) THEN at ELSE Len(f)) |->
          IF i = at THEN IF at > Len(f) THEN chunk
                         ELSE IF f[at] = chunk THEN chunk ELSE Torn
          ELSE IF i <= Len(f) THEN f[i] ELSE Torn]

\* Mutant: the closing brace is forgotten.
WriteDomain_unclosed(p) ==
  LET domain == lib[p].domains[cursor[p]]
      last == cursor[p] = Len(lib[p].domains)
  IN /\ pc[p] = "write"
     /\ \E garbage \in [1..Len(domain.paramsArray) -> GarbageArrays] :
          file' = WriteAt(cursor[p],
                    [domain |-> Printed(domain, garbage), last |-> FALSE], file)
     /\ cursor' = [cursor EXCEPT ![p] = @ + 1]
     /\ pc' = [pc EXCEPT ![p] = IF last THEN "app" ELSE "write"]
     /\ UNCHANGED <<lib, rrl, asked, lock, execution, creators, exported>>

\* The last domain brings the closing brace, and fclose.
WriteDomain(p) ==
  LET domain == lib[p].domains[cursor[p]]
      last == cursor[p] = Len(lib[p].domains)
  IN /\ pc[p] = "write"
     /\ \E garbage \in [1..Len(domain.paramsArray) -> GarbageArrays] :
          file' = WriteAt(cursor[p],
                    [domain |-> Printed(domain, garbage), last |-> last], file)
     /\ cursor' = [cursor EXCEPT ![p] = @ + 1]
     /\ pc' = [pc EXCEPT ![p] = IF last THEN "app" ELSE "write"]
     /\ UNCHANGED <<lib, rrl, asked, lock, execution, creators, exported>>

-----------------------------------------------------------------------------
(***************************************************************************)
(* A RAT process: any declaration loads the description file unless one    *)
(* did before, and does nothing else.  The file is read in one call.  If   *)
(* it is not one whole JSON text the load fails, is only reported, and is  *)
(* tried again by the next call: a stuttering step.  The "default" domain  *)
(* that ATP_init creates is the first of every file.                       *)
(***************************************************************************)
\* Mutant: a text that ends early is accepted.
Whole_truncated(f) == f # <<>> /\ \A i \in 1..Len(f) : f[i] # Torn

Whole(f) ==
  /\ f # <<>>
  /\ \A i \in 1..Len(f) : f[i] # Torn /\ (f[i].last <=> i = Len(f))

\* Mutant: the last domain is not committed.
Loaded_but_last(f) ==
  [i \in 1..Len(f) - 1 |-> [f[i].domain EXCEPT !.explorationArray = <<>>]]

\* The explorations are read into data_buf and go no further.
Loaded(f) == [i \in 1..Len(f) |-> [f[i].domain EXCEPT !.explorationArray = <<>>]]

\* Mutant: the RRL is not told of the loaded parameters.
load_desc_file_untold(p) ==
  /\ pc[p] = "app"
  /\ ATP_check_exec_mode = "RAT"
  /\ ~lib[p].init
  /\ Whole(file)
  /\ lib' = [lib EXCEPT ![p] =
               ATP_collection_unset([ATP_init(@) EXCEPT !.domains = Loaded(file)])]
  /\ RemoveLockIfFirst(p)
  /\ UNCHANGED <<rrl, asked, pc, cursor, file, execution, creators, exported>>

load_desc_file(p) ==
  LET ds == Loaded(file)
  IN /\ pc[p] = "app"
     /\ ATP_check_exec_mode = "RAT"
     /\ ~lib[p].init
     /\ Whole(file)
     /\ lib' = [lib EXCEPT ![p] =
                  ATP_collection_unset([ATP_init(@) EXCEPT !.domains = ds])]
     /\ RemoveLockIfFirst(p)
     /\ rrl' = [rrl EXCEPT ![p] = DeclaredIn(ds)]
     /\ UNCHANGED <<asked, pc, cursor, file, execution, creators, exported>>

\* A server loads the description for its first request, and its ATP_init removes
\* the lock file as that of a process does.  Servers come and go: one that has not
\* loaded yet may be there at any time.
ServerLoads ==
  /\ Served
  /\ Whole(file)
  /\ lock' = NoLock
  /\ UNCHANGED <<lib, rrl, asked, pc, cursor, file, execution, creators, exported>>

-----------------------------------------------------------------------------
(* The end of a process, of an execution and of the plan.                  *)

Gone(p) ==
  /\ lib' = [lib EXCEPT ![p] = FreshLib]
  /\ rrl' = [rrl EXCEPT ![p] = {}]
  /\ asked' = [asked EXCEPT ![p] = {}]
  /\ pc' = [pc EXCEPT ![p] = "down"]
  /\ UNCHANGED <<cursor, lock, file, execution, creators, exported>>

Exit(p) == pc[p] = "app" /\ Gone(p)

Kill(p) ==
  /\ pc[p] # "down"
  /\ "kill" \in Faults[execution]
  /\ Gone(p)

\* Reading valueArray through an uninitialised pointer or count.
SegFault(p) ==
  /\ pc[p] = "write"
  /\ "garbage" \in Faults[execution]
  /\ \E i \in 1..Len(lib[p].domains[cursor[p]].paramsArray) :
        lib[p].domains[cursor[p]].paramsArray[i].valueArray = Uninit
  /\ Gone(p)

\* parse_atp_desc finds a file that it may not open, and gives fclose a NULL.
OpenCrashes(p) ==
  /\ pc[p] = "app"
  /\ ATP_check_exec_mode = "RAT"
  /\ ~lib[p].init
  /\ "open" \in Faults[execution]
  /\ file # <<>>
  /\ Gone(p)

AllDown == \A p \in Procs : pc[p] = "down"

Relaunch ==
  /\ AllDown
  /\ execution < Len(Plan)
  /\ execution' = execution + 1
  /\ pc' = [p \in Procs |-> "app"]
  /\ cursor' = [p \in Procs |-> 1]
  /\ creators' = {}
  /\ UNCHANGED <<lib, rrl, asked, lock, file, exported>>

Terminated ==
  /\ AllDown
  /\ execution = Len(Plan)
  /\ UNCHANGED vars

-----------------------------------------------------------------------------
Declare(p) ==
  \/ \E c \in ParamDecls : atp_param_declare(p, c)
  \/ \E c \in ParamDecls : atp_param_declare_again(p, c)
  \/ \E c \in ValueDecls : atp_param_add_values(p, c)
  \/ \E c \in ConstraintDecls : atp_constraint_declare(p, c)
  \/ \E c \in ConstraintDecls : atp_constraint_declare_again(p, c)
  \/ \E c \in ExplorationDecls : atp_exploration_declare(p, c)

ATP_gen_descfile(p) ==
  \/ ATP_create_lockfile(p)
  \/ LockTaken(p)
  \/ OpenDesc(p)
  \/ WriteDomain(p)

Fault(p) == OpenFails(p) \/ Kill(p) \/ SegFault(p) \/ OpenCrashes(p)

Next ==
  \/ \E p \in Procs : \/ Declare(p)
                      \/ atp_end_collection(p)
                      \/ \E g \in Gets : atp_param_get(p, g)
                      \/ ATP_gen_descfile(p)
                      \/ load_desc_file(p)
                      \/ Exit(p)
                      \/ Fault(p)
  \/ ServerLoads
  \/ Relaunch
  \/ Terminated

Spec == Init /\ [][Next]_vars

\* A process that is inside ATP_gen_descfile is not waiting for anything: the
\* operating system runs it on.  Nothing is assumed of the application.
FairSpec == Spec /\ \A p \in Procs : WF_vars(ATP_gen_descfile(p))

-----------------------------------------------------------------------------
(* Properties of one process.                                              *)

\* atp_param_declare promises that a parameter name is unique across all
\* domains, and ATP_domain_new that a domain name is: whatever the order of the
\* calls, and also after the description has been through the file, a name
\* stands for one entry.
UniqueNames ==
  \A p \in Procs : \A i, j \in 1..Len(lib[p].domains) :
    LET d == lib[p].domains[i]
        e == lib[p].domains[j]
    IN /\ d.domName = e.domName => i = j
       /\ \A k \in 1..Len(d.paramsArray), l \in 1..Len(e.paramsArray) :
            d.paramsArray[k].paramName = e.paramsArray[l].paramName
              => i = j /\ k = l

\* A range parameter that was given values has the three of them that the
\* server later reads by their index (atpcommon.c:504 and 560).
RangeTriples ==
  \A p \in Procs : \A i \in 1..Len(lib[p].domains) :
    \A k \in 1..Len(lib[p].domains[i].paramsArray) :
      LET param == lib[p].domains[i].paramsArray[k]
      IN param.paramType = ATP_PARAM_TYPE_RANGE /\ param.valueArray # Uninit
           => param.valueArray \in GarbageArrays \/ Len(param.valueArray) = 3

\* atp_param_get never asks the RRL for a parameter the RRL has not been told
\* of under that domain and with that default, by this process: neither while
\* parameters are declared nor after they were loaded from the file.
AskedAsDeclared == \A p \in Procs : asked[p] \subseteq rrl[p]

\* Collection happens once: after its end no call of the process changes the
\* description again, so that what ATP_gen_descfile reads while it writes is
\* what the collection ended with.
StaysEnded ==
  \A p \in Procs :
    lib[p].init /\ lib[p].collection = 0 =>
      lib'[p] = lib[p] \/ pc'[p] = "down"

EndedForGood == [][StaysEnded]_vars

-----------------------------------------------------------------------------
(* Properties of the processes together, and across executions.            *)

\* A lock file that an earlier execution left behind, however that one ended,
\* is gone by the time a process of this execution has started its collection
\* or loaded the file (the comment of ATP_remove_lockfile).
LockNotStale ==
  \A p \in Procs : lib[p].init => lock \in {NoLock, execution}

\* The comment of ATP_create_lockfile: only one process creates the lock
\* file.  (Of an execution, that is: see LockNotStale.)
SingleWriter == \A p, q \in creators : p = q

\* A chunk is what ATP_gen_descfile prints of the i-th of the domains ds.
PrintOf(chunk, ds, i) ==
  /\ \E garbage \in [1..Len(ds[i].paramsArray) -> GarbageArrays] :
       chunk.domain = Printed(ds[i], garbage)
  /\ chunk.last <=> i = Len(ds)

\* The file never mixes the descriptions of two processes: at every moment it
\* is a beginning of the description that the last process to open it had
\* collected, the one that still writes or the one that was stopped.
OneDescription ==
  /\ Len(file) <= Len(exported.domains)
  /\ \A i \in 1..Len(file) : file[i] # Torn /\ PrintOf(file[i], exported.domains, i)

\* ds is what es becomes when it is printed and loaded: every domain of it,
\* every parameter with its type, default and values, every constraint, in the
\* order of their declaration, and nothing else.
Restored(ds, es) ==
  /\ Len(ds) = Len(es)
  /\ \A i \in 1..Len(ds) :
       /\ ds[i].domName = es[i].domName
       /\ ds[i].constraintsArray = es[i].constraintsArray
       /\ Len(ds[i].paramsArray) = Len(es[i].paramsArray)
       /\ \A k \in 1..Len(ds[i].paramsArray) :
            LET l == ds[i].paramsArray[k]
                e == es[i].paramsArray[k]
            IN /\ l.paramName = e.paramName
               /\ l.paramType = e.paramType
               /\ l.defaultVal = e.defaultVal
               /\ e.valueArray # Uninit => l.valueArray = e.valueArray

\* What a RAT process works from is all that one DTA process collected, never
\* half of it and never a mixture of two.
LoadedIsCollected ==
  \A p \in Procs :
    ATP_check_exec_mode = "RAT" /\ lib[p].init =>
      Restored(lib[p].domains, exported.domains)

\* A collection that ends in an execution without faults leads to a whole
\* file of that execution, also when the execution before was killed at any
\* point and left its lock file or half of a file.
ExportCompletes ==
  \A e \in 1..Len(Plan) : \A p \in Procs :
    (execution = e /\ Faults[e] = {} /\ pc[p] = "lock")
      ~> (Whole(file) /\ exported.execution = e)

-----------------------------------------------------------------------------
(* What the library promises, and how its state shows it.                  *)

\* What a process ended its collection with.
Final ==
  [p \in Procs |->
     IF ATP_check_exec_mode = "DTA" /\ lib[p].init /\ lib[p].collection = 0
       THEN lib[p].domains ELSE <<>>]

\* What a process loaded.
Seen ==
  [p \in Procs |->
     IF ATP_check_exec_mode = "RAT" /\ lib[p].init THEN lib[p].domains ELSE <<>>]

\* What a process could load.
Store == IF Whole(file) THEN Loaded(file) ELSE <<>>

Done == Whole(file) /\ exported.execution = execution

Export ==
  INSTANCE DescriptionExport WITH
    None <- <<>>, Restores <- Restored,
    final <- Final, store <- Store, done <- Done, seen <- Seen

\* The lock file, the streams and the loads of the processes do what
\* DescriptionExport says: the description appears in one step, whole, at most
\* once in an execution, is the one that some process ended its collection with,
\* and neither a late process nor one that is killed takes it away again.
PublishedOnce == Export!Spec

-----------------------------------------------------------------------------
(* Statements of the documentation that the code does not meet.            *)

\* "generate the ATP description fil from the ATP internal data structures"
\* (atpcommon.h:145), which hold the explorations (atpcommon.h:63): what is
\* written of a domain has the explorations declared for it.
ExplorationsWritten ==
  \A i \in 1..Len(file) :
    file[i] # Torn /\ i <= Len(exported.domains) =>
      file[i].domain.explorationArray = exported.domains[i].explorationArray
=============================================================================

# A verification project for READEX ATP

READEX-ATP lets an application declare its own tuning parameters (ATPs). The
application is annotated with calls of the ATP library. In a *DTA* execution the
library collects the declarations and writes them to a description file; the ATP
server reads that file and answers the questions of a tuning client (PTF). In a
*RAT* execution the library reads the file back and takes values from the READEX
runtime library (RRL).

This directory holds TLA+ modules that model the library, the description file,
its loader and the server; TLC configurations that check them on small instances;
and proofs, checked by TLAPS, of what holds for every instance. All paths below
are relative to the repository, all line numbers those of its sources.

## 1. Inventory

| component | state | operations | modelled in |
|---|---|---|---|
| description store, `src/common/atpcommon.c:40-294` | `domArray`: domains with parameters, constraints, explorations; `collection` (-1, 0, 1) | find, new, add values | `AtpCommon` |
| library calls, `src/atplib/atplib.c` | the same, plus what the RRL was told | declare a parameter, its values, a constraint, an exploration; get; end | `AtpLibrary` |
| lock file and export, `atpcommon.c:14-62, 297-372` | `atp.lck`, the description file | create and remove the lock, print the description | `AtpLibrary`; the promise in `DescriptionExport` |
| loader, `src/common/atpdesc.c` | `data_buf`, with its `in_…` flags; `desc_file_loaded` | walk over the JSON value, commit | `AtpDesc`; as one step in `AtpLibrary` and `AtpServer` |
| server: startup, `src/atpserver/atpserver.c:14-512` | port, socket, the connection to the registry and its entry | search a port; connect to the registry, create an entry, quit; accept | `AtpServer` |
| server: requests, `atpserver.c:515-763`, getters `atpcommon.c:377-519` | the connection, `domArray` | receive, load, answer | `AtpServer` |
| the server's client, `test/atpserver_test.c` | what it has read | ask, read, close | `AtpServer` |
| Omega request builder, `atpcommon.c:524-676` | none | build a request from a domain | `OcRequest` |
| Omega query, `atpquery.c`, `lua/oc_query.lua`, `lua/lua_codex.lua`, `lua/parse_oc_code.lua` | `oc_query.in`, `oc_query.out`, `gen_file.lua` | write, run, read, translate, execute | `OcQuery`; its results in `AtpServer` |
| JSON parser, Fortran wrappers, messages, `constraint_parser.lua` | | | no (section 7) |

How they interact. The processes of an application share nothing but two files in
their directory. `atp.lck`, created with `O_EXCL`, decides who writes the
description; every process removes it the first time it enters the library
(`ATP_init`). The server is a program of its own that reads the description file,
perhaps while an application writes it. It enters `ATP_init` as well when it loads the
file, and then removes the `atp.lck` of the directory it was started in. Its client finds
it through the registry, or is told its port, and asks over one TCP connection. The library tells the RRL of every
parameter it declares or loads, and asks it for values.

What is hard, and what must hold there:

* *Processes and files.* They remove, create and write in any order, may be killed
  between any two system calls, and are started again in the same directory. One of
  them must write the file; the file must never mix two descriptions; a lock left
  behind must not keep the next execution from writing.
* *Order of calls.* A declaration that is met twice ends the collection, at any
  point of a long sequence of calls, some of which are refused. Names must stay
  unique, ranges must keep three values, and the end must be for good.
* *Deferred commits.* The loader writes an entry to the store one visit after it has
  read it, under flags that have to be reset in time. Nothing may be lost, doubled
  or mixed, and the RRL must know what the store has.
* *A stream without frames.* An answer is up to five messages whose lengths both
  sides compute from different functions. One count that is wrong, or one reply too
  many, and each later answer is misread.
  Requests come over the same stream: two at once, or one in two pieces.
* *The end of the server.* No line of its loop leaves it when the client is gone.
* *Files as a channel.* A query goes to the calculator and comes back through three
  files of fixed names. They outlive the query, the server that made it, and any
  failure in between, and a second server in the same directory uses the same ones.

`PROJECT.json` lists these hazards with their lines and the properties that cover them.

## 2. Modules

```
AtpCommon ── AtpLibrary ── MCLibrary      (AtpLibrary implements DescriptionExport)
         ├── AtpDesc ───── MCDesc
         ├── AtpServer ─── MCServer
         └── OcRequest ─── OcQuery ── MCQuery

AtpCommon_proofs ── AtpLibrary_proofs ── AtpLibrary_names ── AtpLibrary_asked
                │                    └── AtpLibrary_refines
                ├── AtpDesc_proofs
                ├── AtpServer_proofs
                └── OcQuery_proofs
```

**AtpCommon** has the records and the functions that read and update `domArray`, as
operators on a sequence of domains. A pointer is an index, `NULL` as a result is 0.
`ATP_param_find_unique` keeps the code's `break` that leaves the inner loop only.

**AtpLibrary** has the processes (`pc`, `lib`, `cursor`), the two files (`lock`,
`file`) and a plan of executions, DTA and RAT, with what may go wrong in each. Each
API call is one action: it has no effect on other processes before
`ATP_gen_descfile`. That function is one action per system call others can see:
create the lock, open (which truncates), write a domain, the last one with the end of
the file. `Kill` may come between any two. Where servers are started in the
application's directory (`Served`), one may load the description at any time
(`ServerLoads`), which removes the lock file. `creators`, `exported` and `asked` are
history variables.

**DescriptionExport** is what the two files are for, without locks and streams: of the
processes that end their collection in an execution at most one publishes its
description, at once and entirely, and who loads gets what is published. `AtpLibrary`
implements it (`PublishedOnce`) under the mapping `final` ← the description of a process
whose collection has ended, `store` ← the file once it is whole, `done` ← whether a whole
file of this execution is there, `seen` ← what a RAT process loaded. Creating the lock,
truncating the file and writing all but its last domain are then `Withdraw` or
stuttering, and the last write is `Publish`.

**AtpDesc** is the loader: a file is the sequence of visits that `process_value`
makes of the JSON value, and each visit is an action on `buf` (`data_buf`) and
`domains`. `buf` starts with any content the build may leave on the stack; a content
that would commit through wild pointers ends in `crash`.

**AtpServer** is the server (`pc` from `bind` to `exited` or `dead`), a client, the
connection between them (`inbox` with requests, `outbox` with words) and the
description file, which the application replaces at any time. Before that come the search
for a port, each try of which may fail whether the port is free or not, and the dialogue
with the registry, a line at a time, with a registry that may be absent, refuse,
or leave. An answer is a sequence of messages, `Send` sends one. `tried`, `failed`,
`mangled`, `specs` and `tuples` are history variables.

**OcRequest** has the request for the Omega calculator as what it says: for each
parameter a clause (the values it may have, the step they are multiples of, and whether
its text brings a `&&` along), and the constraints. It also has the calculator, by what
it prints for a request, and, to compare with, the valid tuples of a domain by the words
of the README.

**OcQuery** is the query: servers, each in a directory, with the three files of each
directory. One action is one operation of a process on one file. A server may fail
to open a file, find no Lua file, start no shell, be killed at any point and start
again, and finds then what the last one left. The history variable `unrun` marks a query
whose `os.execute` ran nothing.

The MC modules hold the annotations, files and requests of the runs.

### Correspondence

| code | model |
|---|---|
| `domArray.collection`, the first call of `ATP_init` | `lib[p].collection`, `lib[p].init` |
| `atp_init_collection`, `atp_end_collection` | `StartCollection`, `EndCollection`, `atp_end_collection` |
| `atp_param_declare` (new name / known name) | `atp_param_declare`, `atp_param_declare_again` |
| `atp_constraint_declare` (the same) | `atp_constraint_declare`, `atp_constraint_declare_again` |
| a call that returns early without effect | a stuttering step |
| `open(…, O_CREAT \| O_EXCL)`, `fopen`, `fprintf` … `fclose` | `ATP_create_lockfile` / `LockTaken`, `OpenDesc` / `OpenFails`, `WriteDomain` |
| reading `valueArray` and `nValues` that were never set | `GarbageArrays`, or `SegFault` |
| an `open` of the lock file that fails for another reason than that it exists | `LockTaken`, which the code does not tell apart |
| `load_desc_file`, `desc_file_loaded` | `load_desc_file`; in `AtpLibrary` the flag is `lib[p].init`, in `AtpServer` it is `domArray # NoFile` |
| `fclose(NULL)` for a description that cannot be opened | `OpenCrashes` of `AtpLibrary`, the `Trap` in `LoadErrors` of `AtpServer` |
| `ATP_init` in a server that loads the description | `ServerLoads` of `AtpLibrary` |
| `process_object`, `process_array`, `process_value` | `enter_*`, `process_*`, `finish` of `AtpDesc` |
| `ATPS_sockets_server_startup_retry`: a try that succeeds; one in which `socket`, `setsockopt`, `bind` or `listen` fails; none left | `Bind`; `TryFails`; `GiveUp` |
| the dialogue with the registry: connect, welcome, create, quit | `sockets_client_connect_retry`, `sockets_open_registry`, `sockets_registry_create_entry` and `ReadCreated`, `sockets_close_registry` |
| the registry closes the connection, or ends | `RegistryLeaves` |
| `recv`, the loop that clears the buffer | `Receive`, `ReceiveBeginning`, `ReceiveNothing` |
| `extract_domain_name` on a request without a `;` | `Beginnings`, `Overrun` |
| `ATPS_dispatch_and_respond` with its `send`s | `ATPS_dispatch_and_respond`, `Send`, `Sent` |
| `SIGPIPE`; `SIGFPE`, `SIGSEGV`, `os.exit` | `SendKilled`, `Trapped` |
| `ATP_build_oc_request` | `ATP_build_oc_request`, from `RangeClause`, `EnumClause`, `ConstraintsOf` |
| `launch_oc`: write `oc_query.in`, run the shell, read `oc_query.out` | `OpenIn`, `WriteIn`; `Redirect`, `RunOc`; `ReadOut` |
| `codegen`, `write_lua_code` with `gen_file.lua`; the translation | `OpenGen`, `WriteGen`; `parse_code` |
| `execute_lua_code` | `execute_lua_code`, `Success`, `Failure` |
| an `io.open` that fails (`os.exit`), a Lua file that is not there, an `os.execute` without a shell, no output file | `OpenFails`, `LuaFails`, `ForkFails`, `NoOutput` |

### Abstractions

* The description file is a sequence of chunks, one per domain, the last with the
  closing brace. A stretch that is not one whole chunk is `Torn`; a text with a
  `Torn` chunk, or without its end, does not parse. A write past the end of the file
  leaves a hole, as a stream with its own offset does.
* A file is read in one step (one `fread` of the size `stat` gave).
* Names, expressions and values are model values or small integers; a name in an
  answer is one word.
* A request comes whole, together with later ones, or one of them in two pieces (`Cuts`).
  Of a domain name that is cut the server takes the whole name, if the cut is right
  before its `;`, or one that no domain has: that no name of a domain is the beginning of
  another is assumed. Where `extract_domain_name` runs on behind the end of a request it
  may end the process, or find no name.
* What the Omega calculator finds for n parameters is, in `AtpServer`, any of 0 to 2
  tuples of n values, a failure, or the end of the process. `AnswerFits` of `OcQuery`
  is the reason why these are the right ones.
* The calculator prints nothing on its standard output for a request it cannot parse (one
  that begins with `&&`, or has no clause) and for one without solutions, where it
  aborts; a message for a name that is no variable; and otherwise loops, which may
  have operators that Lua lacks. A message or such loops are `Broken` Lua, which is a
  failure, and nothing at all is a program that leaves the table of tuples empty: a
  success with no tuple.
* `Solutions` looks for indices in `-MaxIndex..MaxIndex`; the assumption
  `MaxIndexReaches` says that no value divided by its step is beyond that.
* A number is an integer of any size: that the difference of two limits of a range fits in
  an `int32_t` is not looked at.
* Of two processes that write one file at once, the last to close it wins. A calculator
  ends with the server that waits for it.

## 3. Runs

| run | what it has | states | shows |
|---|---|---|---|
| `lib_api` | 1 process, and a server; 2 names, 3 domains; every kind of call, with arguments that are refused | 9 636 | types, unique names, triples of ranges, one end of the collection, a faithful reload |
| `lib_lock` | 3 processes behind the barrier; DTA with kills and failing opens of the lock and the file, then RAT with failing opens | 113 906 | one writer, one description, all or nothing in each RAT process, the RRL asked as it was told, an export in one step |
| `lib_restart` | 2 processes; DTA with kills and failing opens, DTA without, RAT with kills; fair | 55 551 | no stale lock, one description, the second collection always gets written |
| `desc_load` | each file of up to 3 domains with up to 2 parameters and 2 constraints, 4 orders of members, 3 contents of the stack | 81 798 | the loader puts back what was printed, step by step, and tells the RRL |
| `server_startup` | 3 ports two apart, any of which fails, a registry and 2 attempts to reach it; fair | 1 378 | each port tried before giving up, an entry with the bound port and a server behind it, the end of the startup |
| `server` | 6 contents of the file that change at any time; 2 of 4 requests, one after the other, at once, or one in two pieces; fair | 325 686 | answers in step and right, each request answered, the server's end |
| `oc_query` | 1 server, 8 domains and an unknown one, each fault, kills and restarts; fair | 38 256 | the tuples are the valid ones of the domain asked for, whatever the files held; each query ends |
| `lib_no_barrier` | 2 processes without the barrier | | violation: two writers |
| `lib_explorations` | 1 process that declares explorations | | violation: they are never written |
| `server_no_file` | a request before there is a file | | violation: two replies to one request |
| `oc_steps` | 1 server; a range that does not begin at a multiple of its step, and one in steps with a constraint | | violation: its values are counted from 0 |
| `oc_shared` | 2 servers in one directory | | violation: one answers with the other's tuples, or with none |

Why the bounds are enough to meet the interesting cases. Two processes make every
race for a lock, and with a third there is one that neither writes nor waits. One
killed execution leaves every remainder the next can find; `lib_restart` has a third
execution to read what the second wrote. Two parameters in two domains are the least
that make a name clash across domains, a `break` that leaves one loop only, and a commit
of a predecessor. Two requests are the least that misplace an answer, and two
exports with different numbers of parameters the least that make specs and tuples
disagree. Two requests with a window of two may come together, and a cut in either of
them leaves a remainder in front of the other; a second cut would only make another
beginning. Three ports have a first, one in the middle and a last one to fail on, and
two attempts one to fail on. `server` has a range with step 0 and one without
values because `atp_param_add_values` lets both happen, and a parameter of a type that is
neither range nor enum, which `atp_param_declare` takes with a warning. The eight domains of `oc_query`
have, between them, each kind of clause in each position, steps of 1 and more, and
each kind of output of the calculator; any two queries in a row are enough for an
answer to be left over. The runs meet no cap on a counter of the code: `MaxRequests`
bounds the client and `Plan` the executions. No symmetry is used under liveness.

`desc_load` has the order of members that `ATP_gen_descfile` prints and three others.
It leaves out those with `range` as the last member of a parameter, whose values
`in_range` would keep and lose: no file the library writes has them (`RangeNotLast`).

**The barrier.** `Barrier` says that no process ends its collection before all have
entered the library or are gone. Nothing in the library provides this; MPI programs that
declare their parameters before a collective operation have it. `lib_no_barrier`
shows what happens otherwise: `ATP_init` of a late process removes the lock another
one holds (`atpcommon.c:58`). All other properties of several processes are stated
behind it, and for a directory in which no server is started (`~Served`). The barrier
does not bind a server: it enters `ATP_init` with its first load (`atpdesc.c:269`), and
with `Served = TRUE` in `lib_lock.cfg` TLC finds two writers. `lib_api` has
such a server beside its one process. `ATP_DESCRIPTION_FILE` lets a server read the
file from another directory, where it has a lock file of its own to remove.
The comment of `ATP_remove_lockfile` (`atpcommon.c:28-30`) also has it called when the file
is written; no line does that, and the lock stays until the next execution.

**Fairness.** `AtpLibrary`: weak fairness of `ATP_gen_descfile(p)`, as a process
inside that function waits for nothing and is run on by the operating system. Nothing is
assumed of the application: it need not make any call, nor end. `AtpServer`: weak
fairness of the startup (a bind or a connect that is tried returns, and the registry
answers a line or closes), of the server's loop, of the arrival of a reset, and of the
client reading an answer that has come. The client need not ask and need not close, and
`accept` may wait for ever. `OcQuery`: weak fairness of the query of each server, as
the calculator is a program that ends; no fault, kill or restart is fair.

## 4. Properties

* `UniqueNames`, `RangeTriples`, `EndedForGood`: what a sequence of calls may not
  do to the description of one process.
* `SingleWriter`, `OneDescription`, `LockNotStale`, `ExportCompletes`: the lock file
  and the file it protects, across processes, kills and executions.
* `LoadedIsCollected`: what a RAT process works from is all of what one DTA process
  collected, for every order of kills, opens and writes before.
* `PublishedOnce`: all of this together, as the refinement of `DescriptionExport`.
* `AskedAsDeclared`: `atp_param_get` asks the RRL for what the RRL was told.
* `RoundTrip`, `NothingWrongYet`, `RrlFollows`: the loader, at its end and at each
  visit.
* `GivesUpLast`: the server gives up only after a try on every port it may take, whichever
  call fails. It says nothing of ports that are free when it gives up: a try may fail on a
  free port, and one that was in use may be left meanwhile.
* `EntryServed`: an entry in the registry has the port that was bound, and no answer
  and no reset of the registry ends the server before it accepts. `StartupEnds`: the startup
  comes to an end whatever the registry does, short of silence.
* `AnsweredExactly`, `SpecsDescribe`, `TuplesFitSpecs`: an answer ends where the
  client's own arithmetic says, decodes to the description, and agrees with answers
  before it. The client of `test/atpserver_test.c` takes the type 1 for a range with three
  values, whatever the third word is; `SpecsDescribe` says of that word that it is how often
  one may step up in the range, and not, as the README has it, 3 (section 5).
  `SpecsDescribe` and `TuplesFitSpecs` are stated of descriptions whose parameters are
  ranges and enums: one of another type is told to the client as a range would be, and left
  out of the tuples (`atpcommon.c:555-565`).
* `Answered`, `ServerEnds`: a waiting client gets its answer; a server without a
  client ends, by `SIGPIPE`.
* `WithinRanges`: each tuple has one value for each parameter, out of its range or
  enumeration. `Exact`: the tuples are the valid ones, all of them and no other, for a
  domain whose parameters have values and whose ranges are such that counting steps from 0 or from
  the minimum is the same (`Proper`, `Aligned`).
* `OwnAnswer`: the answer comes from the request of this query, not from what a file
  held before. `AnswerFits`: its counts are those of its tuples, the number of elements
  also where there is no tuple (0) and where a parameter is neither range nor enum (it does
  not count), in which it differs from the README (section 5). `QueryEnds`: the query
  ends.

`AnsweredExactly` holds while every load has succeeded (`failed` is false) and
no request was lost or cut (`mangled` is false). Without the first condition it is
`InStep`, which `server_no_file` refutes. Without the second it fails too: the loop
behind `recv` clears the buffer up to its end, so that of two requests that come
together the second is not answered, and a request in two pieces is answered twice.
`SpecsDescribe`, `TuplesFitSpecs` and `Answered` have the same conditions, `ServerEnds` and the
properties of the startup have none.

The properties of `OcQuery` leave out queries whose `os.execute` ran nothing
(`unrun`): `launch_oc` does not look at its result, and then reads the output of an
earlier query as its own.

Each property of a passing run has a mutant in `PROJECT.json`: an operator marked
`Mutant` in the module, with a plausible bug, under which TLC finds the property
violated.

## 5. Where code and documentation differ

Five runs end in a violation. In each the code does something else than a comment, a header
or a document of the repository says. Two more divergences need no counterexample: the
property of a passing run says what the code does, and the README another thing.
`PROJECT.json` quotes code and claim under "findings".

* A late process breaks the lock, and two processes write the description
  (`lib_no_barrier`). So does a server that loads the description beside them.
* Explorations are collected and never written (`lib_explorations`).
* A failed load sends the error and then the answer: two replies (`server_no_file`).
* A range is sent with the type 1 and the number of its steps; the README has the type
  0 and the number of its values, 3 (`SpecsDescribe`).
* A range `{1, 6, 2}` gives 2, 4, 6: the request asks for multiples of the step, and
  a constraint speaks of the multiple, not of the value (`oc_steps`).
* A success without tuples has 0 elements per combination, not the number of parameters;
  and a parameter of no known type is never counted (`AnswerFits`).
* Two servers in one directory answer with each other's tuples, or, where one reads the
  request that the other has just truncated, with a success without tuples (`oc_shared`).

One more divergence needs no run, as it follows from three lines. A parameter without
a domain is told to the RRL under `NULL` when it is declared and under `default` when it
is loaded (`atpdesc.c:49`), and `atp_param_get` asks for it under `NULL` in both.
`AskedAsDeclared` is therefore stated of applications that name their domains.

## 6. Proofs

Twenty-six theorems, each for every value of the constants: any set of processes, plan,
faults, annotations and names; any description file; any ports, retries, files and
requests; any servers, directories, domains, ranges and constraints.

| module | theorem | property | under |
|---|---|---|---|
| `AtpLibrary_proofs` | `TypeCorrect` | `TypeOK` | |
| | `NoStaleLock` | `LockNotStale` | |
| | `CollectionEnds` | `EndedForGood` | |
| | `OneWriter` | `SingleWriter` | `Barrier`, `~Served` |
| | `NoMixture` | `OneDescription` | `Barrier`, `~Served` |
| | `FaithfulLoad` | `LoadedIsCollected` | `Barrier`, `~Served` |
| `AtpLibrary_names` | `NamesUnique` | `UniqueNames` | `Barrier`, `~Served` |
| | `RangesTriple` | `RangeTriples` | `Barrier`, `~Served` |
| `AtpLibrary_asked` | `AsksWhatItTold` | `AskedAsDeclared` | `Barrier`, `~Served`, `NamesItsDomain` |
| `AtpLibrary_refines` | `Refinement` | `PublishedOnce` | `Barrier`, `~Served` |
| `AtpDesc_proofs` | `InvariantHolds` | (`IInv`) | |
| | `TypeCorrect` | `TypeOK` | |
| | `RoundTripHolds` | `RoundTrip` | |
| | `NothingWrong` | `NothingWrongYet` | |
| | `RrlFollowsHolds` | `RrlFollows` | |
| `AtpServer_proofs` | `TypeCorrect` | `TypeOK` | |
| | `GivesUpAtLast` | `GivesUpLast` | |
| | `EntryIsServed` | `EntryServed` | |
| | `AnswersInStep` | `AnsweredExactly` | |
| | `SpecsDescribed` | `SpecsDescribe` | |
| | `TuplesFit` | `TuplesFitSpecs` | |
| `OcQuery_proofs` | `TypeCorrect` | `TypeOK` | |
| | `AnswersItsOwn` | `OwnAnswer` | |
| | `AnswersFit` | `AnswerFits` | `Private` |
| | `RangesKept` | `WithinRanges` | `Private` |
| | `AnswersExact` | `Exact` | `Private` |

(`OcQuery_proofs` also has the theorem that its own `IInv` is invariant.)

### Assumptions

The theorems rest on the named assumptions of the modules, which TLC evaluates in every
run, and on those of the last column.

* `AtpLibrary`: `default` is a domain name, `NULL` is none, annotations and plan are
  well typed, `Torn` is no chunk.
* `AtpDesc`: the files are what `ATP_gen_descfile` prints of well typed descriptions
  (`DescriptionsAssumption`), and each parameter has its three members, with the range not
  the last of them (`KeyOrdersAssumption`). The file may be of any size.
* `AtpServer`: ports and counts are numbers and `Step` is not 0; the files that can be
  loaded are well typed descriptions whose values are there, if only none
  (`FilesAssumption`); what is read where a range has no values is a number.
* `OcQuery`: each server has a directory, the domains are well typed descriptions, and
  `MaxIndex` is as large as their values need. `Private` says that no two servers
  have the same directory; `oc_shared` shows what happens otherwise.
* `Barrier` and `~Served` (section 3), and `NamesItsDomain`: every declaration names its
  domain, and a parameter is got under the domain it was declared in; without it the
  property is false (section 5).

None of the safety properties is inductive, so each module builds an inductive invariant
in layers.

### Lemmas

`AtpCommon_proofs` has what the proofs share. An index that a lookup finds is in range,
is a match, and exists if there is one. A concatenation has its parts one behind the
other, at places that add up (`FlattenPlaces`, `ConcatElements`), can be taken apart
again (`PrefixSuffix`, `CutFront`), and grows by what is appended to it
(`FlattenAppend`).

Much of what is proved is about functions defined by recursion: `FlattenSeq`, the sums of
the server, the walk of a client over an answer. The induction theorems of the library
take an operator as a parameter, which no installed prover can instantiate. Here
an induction is over a *set* of numbers instead: `NaturalInduction` and
`BoundedInduction` say that a set with 0 that is closed under successor has all of them.
A recursive function is then compared with an explicit one: `AgreeAll` says that two
functions that begin alike and go on alike are equal, so that it is enough to name
the function the recursion computes (for a sum, where the parts of the concatenation end)
and to show that it satisfies the recursion.

### The library

1. `Shape`: `TypeOK`, `LockNotStale`, and what keeps an index in range: a process
   that has entered the library has a domain, the cursor of a process that writes is
   within its domains, and a process that is down has left nothing in memory.
   `TypeOK` alone is not inductive: `WriteDomain` indexes the description by the
   cursor.
2. `LockHeld` (with `Barrier` and `~Served`): once the lock has been created it stays,
   because all have entered the library and neither a `RemoveLockIfFirst` nor a
   `ServerLoads` can follow; a process past the end of its collection means the same; and
   there is one creator. It gives `SingleWriter`.
3. `FileHeld` (with `LockHeld`): who opens or writes created the lock; the
   writer's description is `exported` and its cursor is one behind the file; nobody
   writes in a RAT execution. With `OneDescription` this is inductive, and with `Whole`
   the file is all of `exported`, which is `LoadedIsCollected`.
4. `AllGood` (`AtpLibrary_names`): names are unique and ranges have triples in the
   description of each process and in `exported`; a load carries this from one
   execution to the next, which is why it needs `FileHeld`. One lemma for each update
   of `AtpCommon` says that it preserves this.
5. `AllAsked` (`AtpLibrary_asked`): every parameter of a description is one of a
   declaration, and what a process has told the RRL covers its description.
6. `ExportHeld` (`AtpLibrary_refines`): what the mapping needs to tell a file of this
   execution from an older one: `exported` is of this execution once its writer has
   begun to write, and is not before, and who is about to write has ended its
   collection. The proof has one step per action, and names the step of
   `DescriptionExport` or the stutter it maps to.

### The loader

`RoundTrip` is about the end of the walk and `NothingWrongYet` about `domains` only, so
neither says why the next visit is right. `IInv` does: `Walking` says that the walk is at
one of twelve places of a file, each given by indices (the i-th domain, its j-th
parameter, the k-th member of it, the c-th value of its range). At each place it says

* what is left to visit (`AtParam`, `AtField`, … , written as what follows from there),
* what is in `domains` (`Stored`): all entries visited, but for the last parameter and the
  last constraint, which wait in `buf` for the visit that commits them
  (`PendingParam`, `PendingConstraint`, with the members read so far in `Holds`), and
* which flags of `buf` are set, which is where a reset that comes too late would show.

One lemma per place shows that its visit leads to the next place; the files of
any order of members are covered because `Holds` depends on the set of members that were
read, not on their order. That `range` is not the last of them is where `in_range` needs
it. `RrlFollows` needs no invariant of its own: what the RRL was told is a function
of `domains` (`DeclaredBy`).

### The server

`Inv` is `TypeOK`, what the queues hold (`Queues`), where the search is (`Searched`), and
what an entry goes with (`Owned`). `Searched` says that the ports tried so far are those
before the one at hand, so that `GivesUpLast` follows behind the last port. `Owned` says
that an entry is for the port the server has, that this is one of `Ports`, and that a
registry which made an entry has read all it was sent and does not reset the connection
before the last line: so nothing but `accept` follows, which is `EntryServed`.

The dialogue is framed by nothing but the numbers in it, so that its invariant speaks of
whole streams. `Stream(got, replies, msgs, part)`: the client waits for the answers to the
requests `got` that the server has taken, and to those still in `inbox`; what it has not
read and what the server has not sent are together the `replies` to `got`, each one
`IsAnswer` for its request and the server's description. If the server is about to end
inside the last of them, they are all but that one, and a `part` of it which the client
does not take for the whole (`TooShort`). `Conversation` is this while no load has
failed and no request was lost or cut, with what the client remembers (`Remembered`) being
answers for the description the server has now; `Connection` says when there is a client,
and that nothing is on the way before.

* A request that is answered appends a reply (`DispatchStep`). `AnswerKinds` says that
  every answer is complete or breaks off: the five messages of getatpspecs have the length
  that their three counts announce, because the sums of three functions of `atpcommon.c`
  are the lengths of what three others list (`TotalOfLengths`, `DetailsTotal`).
* A read takes exactly the first reply (`ReadStep`): how long an answer is shows in its
  own first words (`SameBeginning`), so that what comes behind it changes nothing, and a
  part that is too short is not read at all.
* `AnswersInStep` then says that in a waiting server nothing is left to send.
* `SpecsDescribed` follows from `HasSpecs`, where each word of an answer is, by
  `DetailsAtIs`: the walk of the client is at the place where each parameter begins.
* `TuplesFit` follows as both answers are about one description, `domArray`.

### The query

`Typed` and `Flow`: at each point of a query, what the files and `code`
hold follows from the request of this very query, for a server that is alone in its
directory. A server that restarts begins with files that hold anything, and `Flow`
says nothing of a file before the query has written it. `Built` adds that the request is
one that `ATP_build_oc_request` builds of the domain asked for.

`AnswersFit`, `RangesKept` and `AnswersExact` follow from these and from what a request
says. `Tells` is what the conjunction of its clauses and constraints means for an
assignment of numbers to the names. Its solutions count steps (`CountedTuple`) while the
README's tuples have values (`ValuedTuple`); for ranges that begin at a multiple of
their step, with constraints on steps of 1 only, dividing by the step takes the ones to
the others and back (`MultipleMod`, `MultipleBound`). `RangesKept` needs none of these
conditions.

### Only model-checked

Liveness (`ExportCompletes`, `StartupEnds`, `Answered`, `ServerEnds`, `QueryEnds`) is
beyond the prover. So are the violations of section 5, which need a counterexample
each and no proof. All other properties of the runs are theorems.

## 7. Not modelled

* `constraint_parser.lua`: nothing loads it. `json.c`: vendored; the loader
  starts from its result. `atplibF.c`: copies strings and calls the C functions.
  `atpreport.c`: output.
* Lengths: names longer than the 100 characters of their field, and the buffers of
  the request builder, of which one has an uninitialised size (`atpcommon.c:527`).
* More than two pieces of a request, and more than one request in pieces.
* The fields of the registry's lines, and a registry that keeps the connection and never
  answers: no line of the dialogue has a timeout, so that the startup then waits for ever.
* A `luaL_newstate` without memory, after which `status` is read uninitialised
  (`atpserver.c:651`).
* What a server leaves in the registry: its entry is never deleted (`CMD_DELETE` of
  `ATP_registry_protocol.h` is not used), so that an entry outlives a server which ended
  after it began to accept. `EntryServed` is about the time before.
* The sockets of the tries that failed, which are not closed.
* Overflow of a port: the port, the step and the retries are fixed (20000, 10 and 10,
  `atpserver.c:14-41`), far below the 16 bits of a port.
* The comma in front of the list of results when the first parameter is an enum
  (`atpcommon.c:557, 570`): the calculator of the repository reads over it.
* `src/README.md:125-126` gives the size of the second message of getvalidparams as the
  number of combinations times itself, clearly for times the elements of each.
* The calculator itself (a binary) and the patterns by which `parse_oc_code.lua`
  turns its C into Lua; both are modelled by what comes out.
* A calculator that outlives its server.
* Of the library's tests, only the kind of annotations they make (`MCLibrary`).

## 8. Plan

What is left, in the order of its worth:

1. The server reading a file that `AtpLibrary` is writing. `AtpServer` takes its
   `Files` as given, and `PublishedOnce` says which there are: none, or a whole one.
2. `AtpServer` with `OcQuery` in the place of `OcResults`, for two servers and their
   clients. `AnswersFit` is the fact that it would rest on.
3. The lengths of section 7, with what a name that is cut does to `UniqueNames`.

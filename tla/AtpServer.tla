------------------------------ MODULE AtpServer ------------------------------
(***************************************************************************)
(* The ATP server (src/atpserver/atpserver.c) and one client, from the     *)
(* search for a free port to the end of the server.  The server reads the  *)
(* description file that the application writes, also while the            *)
(* application writes it, and answers the client's requests over one       *)
(* connection.                                                             *)
(*                                                                         *)
(* A request arrives whole, in two pieces, or together with later ones.  A *)
(* reply is a stream of words: an int32_t, or a name in its 100            *)
(* characters.  The client is the one of test/atpserver_test.c, which      *)
(* takes the lengths from the words themselves.                            *)
(***************************************************************************)
EXTENDS AtpCommon, SequencesExt

CONSTANTS
  Names,                    \* the names of domains and parameters
  InitPort, Retries, Step,  \* the ports: InitPort, InitPort + Step, ...
  RegHost,                  \* whether a registry was named on the command line
  Attempts,                 \* to connect to the registry
  Files,                    \* what the description file may hold
  NoFile,                   \* in Files: no file, or not one whole JSON text
  Requests,                 \* what the client may ask
  MaxRequests,              \* bound: how many requests it sends
  Window,                   \* how many requests it sends before it reads
  Cuts,                     \* bound: whether a request may be cut, one of them
  Garbage                   \* words found where a range has no values

\* A name is not the NULL pointer.
ASSUME NamesAssumption == NULL \notin Names \cup Int

\* A file that can be loaded is one that ATP_gen_descfile printed: no parameter is
\* without its values, if only none.  The constraints are left out.
ASSUME FilesAssumption ==
  /\ Files \ {NoFile} \subseteq Seq(atp_domain_t(Names, atp_param_t(Names, Int, Int), {}, {}))
  /\ \A ds \in Files \ {NoFile} : \A i \in 1..Len(ds) :
       \A j \in 1..Len(ds[i].paramsArray) : ds[i].paramsArray[j].valueArray # Uninit

ASSUME GarbageAssumption == Garbage \subseteq Int

ASSUME PortsAssumption ==
  InitPort \in Nat /\ Retries \in Nat /\ Step \in Nat \ {0}

ASSUME RegistryAssumption == RegHost \in BOOLEAN /\ Attempts \in Nat

ASSUME ClientAssumption ==
  MaxRequests \in Nat /\ Window \in Nat \ {0} /\ Cuts \in BOOLEAN

Ports == {InitPort + k * Step : k \in 0..Retries}

NoPort == 0
Refused == <<NULL>>             \* what a client that has closed was sent
Empty == [name |-> "empty"]     \* what recv leaves when the client has closed
Piece == [name |-> "piece"]     \* a part of a request that is none by itself

VARIABLES
  pc,         \* where the server is
  port,       \* the port tried, then the port bound
  tried,      \* history: the ports that were tried in vain
  attempts,   \* how often the registry could not be connected to
  registry,   \* the connection to the registry
  entry,      \* the port in the registry's entry for this server
  file,       \* what the description file holds
  domArray,   \* the server's description: NoFile until a load succeeds
  request,    \* the request in buffer
  sending,    \* the messages of the answer that are not sent yet
  inbox,      \* requests sent and not received
  outbox,     \* words sent and not read
  client,     \* "away", "connected" or "closed"
  reset,      \* the kernel knows that the client is gone
  sent,       \* how many requests the client has sent
  pending,    \* the requests the client waits for
  specs,      \* history: the last answer to getatpspecs that was read
  tuples,     \* history: the last answer to getvalidparams, and for what domain
  failed,     \* history: a load has failed
  mangled     \* history: a request was cleared from the buffer unread, or cut

search == <<port, tried>>
dialogue == <<attempts, registry, entry>>
startup == <<search, dialogue>>
network == <<inbox, outbox, client, reset>>
asking == <<sent, pending, specs, tuples>>
history == <<failed, mangled>>
vars == <<pc, startup, file, domArray, request, sending, network, asking, history>>

NoTuples == [domain |-> NULL, words |-> <<>>]

Init ==
  /\ pc = "bind"
  /\ port = InitPort /\ tried = {}
  /\ attempts = 0 /\ registry = "none" /\ entry = NoPort
  /\ file \in Files
  /\ domArray = NoFile
  /\ request = Empty
  /\ sending = <<>>
  /\ inbox = <<>> /\ outbox = <<>> /\ client = "away" /\ reset = FALSE
  /\ sent = 0 /\ pending = <<>> /\ specs = <<>> /\ tuples = NoTuples
  /\ failed = FALSE /\ mangled = FALSE

-----------------------------------------------------------------------------
(* Startup.                                                                *)

Serving == <<file, domArray, request, sending, network, asking, history>>

Bound == IF RegHost THEN "connect" ELSE "accept"

\* Mutant: the caller's port is not updated, the first one is registered.
Registered_first == InitPort

Registered == port

\* Mutant: the last port is not tried.
LastPort_missed == InitPort + Retries * Step - 1

\* Mutant: one port more than the retries.
LastPort_over == InitPort + (Retries + 1) * Step

LastPort == InitPort + Retries * Step

\* Whether a port can be had is not for the server to know: another process may take
\* it, or leave it, at any time of the search.
Bind ==
  /\ pc = "bind"
  /\ port <= LastPort
  /\ pc' = Bound
  /\ UNCHANGED <<search, dialogue, Serving>>

\* Mutant: begins again behind the last port.
TryFails_wraps ==
  /\ pc = "bind"
  /\ port <= LastPort
  /\ port' = IF port + Step > LastPort THEN InitPort ELSE port + Step
  /\ tried' = tried \cup {port}
  /\ UNCHANGED <<pc, dialogue, Serving>>

\* socket, setsockopt, bind or listen fails, also on a port that is free.  The next
\* try is on the next port, whichever it was.
TryFails ==
  /\ pc = "bind"
  /\ port <= LastPort
  /\ port' = port + Step
  /\ tried' = tried \cup {port}
  /\ UNCHANGED <<pc, dialogue, Serving>>

GiveUp ==
  /\ pc = "bind"
  /\ port > LastPort
  /\ pc' = "exited"
  /\ UNCHANGED <<startup, Serving>>

\* One attempt, or the exit(1) behind the last of them.
sockets_client_connect_retry ==
  /\ pc = "connect"
  /\ \/ /\ attempts < Attempts
        /\ pc' = "welcome" /\ attempts' = 0 /\ registry' = "open"
     \/ /\ attempts < Attempts
        /\ attempts' = attempts + 1
        /\ UNCHANGED <<pc, registry>>
     \/ /\ attempts = Attempts
        /\ pc' = "exited"
        /\ UNCHANGED <<attempts, registry>>
  /\ UNCHANGED <<search, entry, Serving>>

\* A line of success or not; none is taken for a refusal.  Then exit(1).
sockets_open_registry ==
  /\ pc = "welcome"
  /\ pc' \in {"create", "exited"}
  /\ registry' = IF pc' = "exited" THEN "none" ELSE registry
  /\ UNCHANGED <<search, attempts, entry, Serving>>

\* The registry makes the entry, or refuses it.  Of one that has gone the reset may
\* come back by the next line.
sockets_registry_create_entry ==
  /\ pc = "create"
  /\ pc' = "created"
  /\ entry' \in IF registry = "open" THEN {Registered, NoPort} ELSE {NoPort}
  /\ registry' \in IF registry = "open" THEN {"open"} ELSE {"gone", "reset"}
  /\ UNCHANGED <<search, attempts, Serving>>

\* Mutant: without an entry id the server ends.
ReadCreated_strict ==
  /\ pc = "created"
  /\ pc' = IF registry = "gone" \/ entry = NoPort THEN "exited" ELSE "quit"
  /\ UNCHANGED <<startup, Serving>>

\* Whatever it answers, and if it does not: this is only reported.
ReadCreated ==
  /\ pc = "created"
  /\ pc' = "quit"
  /\ UNCHANGED <<startup, Serving>>

\* Its answer is only reported as well, but a line after the reset is SIGPIPE.
sockets_close_registry ==
  /\ pc = "quit"
  /\ pc' = IF registry = "reset" THEN "dead" ELSE "accept"
  /\ registry' = "none"
  /\ UNCHANGED <<search, attempts, entry, Serving>>

\* The registry ends, or closes the connection, with a reset if it has not read
\* all that it was sent.
RegistryLeaves ==
  /\ registry = "open"
  /\ registry' \in IF pc = "created" /\ entry = NoPort THEN {"gone", "reset"} ELSE {"gone"}
  /\ UNCHANGED <<pc, search, attempts, entry, Serving>>

\* The client finds the server through the registry, or is told its port.
ATPS_sockets_server_accept_client ==
  /\ pc = "accept"
  /\ client = "away"
  /\ RegHost => entry = port
  /\ client' = "connected"
  /\ pc' = "recv"
  /\ UNCHANGED <<startup, file, domArray, request, sending, inbox, outbox, reset,
                 asking, history>>

\* The first getsockopt on -1 ends the loop of requests.
AcceptFails ==
  /\ pc = "accept"
  /\ pc' = "exited"
  /\ UNCHANGED <<startup, Serving>>

-----------------------------------------------------------------------------
(* The answers, as the messages they are sent in.                          *)

\* The sum of a sequence of numbers.
Total(ns) ==
  LET sum[k \in 0..Len(ns)] == IF k = 0 THEN 0 ELSE sum[k - 1] + ns[k]
  IN sum[Len(ns)]

IsEnum(param) == param.paramType = ATP_PARAM_TYPE_ENUM
Known(param) == param.paramType \in {ATP_PARAM_TYPE_RANGE, ATP_PARAM_TYPE_ENUM}

NumParams(domain) == Len(domain.paramsArray)
NumKnown(domain) ==
  Cardinality({j \in 1..NumParams(domain) : Known(domain.paramsArray[j])})
AllParams(ds) == FlattenSeq([i \in 1..Len(ds) |-> ds[i].paramsArray])

ATP_get_total_domain_details(ds) == [i \in 1..Len(ds) |-> NumParams(ds[i])]
ATP_get_total_parameter_number(ds) == Total(ATP_get_total_domain_details(ds))

\* Mutant: a range counts for three values, also one that has none.
ATP_get_total_parameter_values_number_three(ds) ==
  Total([k \in 1..Len(AllParams(ds)) |->
           IF IsEnum(AllParams(ds)[k]) THEN Len(AllParams(ds)[k].valueArray) ELSE 3])

ATP_get_total_parameter_values_number(ds) ==
  Total([k \in 1..Len(AllParams(ds)) |-> Len(AllParams(ds)[k].valueArray)])

ATP_get_total_domain_names(ds) == [i \in 1..Len(ds) |-> ds[i].domName]
ATP_get_total_parameter_names(ds) ==
  [k \in 1..Len(AllParams(ds)) |-> AllParams(ds)[k].paramName]

\* Division of C.
Quotient(a, b) ==
  LET Abs(x) == IF x < 0 THEN -x ELSE x
      q == Abs(a) \div Abs(b)
  IN IF (a < 0) = (b < 0) THEN q ELSE -q

HasTriple(param) == Len(param.valueArray) >= 3

\* The third word: the number of values, or of the steps of a range.  A range
\* without values is read from whatever is there.
ThirdWord(param, garbage) ==
  IF IsEnum(param) THEN Len(param.valueArray)
  ELSE IF HasTriple(param)
    THEN Quotient(param.valueArray[2] - param.valueArray[1], param.valueArray[3])
    ELSE garbage

\* Mutant: the third word of an enum counts its steps.
DetailsOf_steps(param, garbage) ==
  <<param.paramType, param.defaultVal,
    IF IsEnum(param) THEN Len(param.valueArray) - 1 ELSE ThirdWord(param, garbage)>>
    \o param.valueArray

DetailsOf(param, garbage) ==
  <<param.paramType, param.defaultVal, ThirdWord(param, garbage)>> \o param.valueArray

ATP_get_total_parameter_details(ds, garbage) ==
  FlattenSeq([k \in 1..Len(AllParams(ds)) |-> DetailsOf(AllParams(ds)[k], garbage)])

\* A division by zero kills the process, and garbage may be zero too.
MayTrap(param) ==
  /\ ~IsEnum(param)
  /\ HasTriple(param) => param.valueArray[3] = 0

MustTrap(param) == ~IsEnum(param) /\ HasTriple(param) /\ param.valueArray[3] = 0

Some(P(_), ds) == \E i \in 1..Len(AllParams(ds)) : P(AllParams(ds)[i])

\* In the place of a message that is never sent, because the process ends.
Trap == <<NULL>>

ATPS_send_error == << <<-1>> >>

SpecsHeader(ds) ==
  << <<Len(ds), ATP_get_total_parameter_number(ds),
       ATP_get_total_parameter_values_number(ds)>>,
     ATP_get_total_domain_details(ds),
     ATP_get_total_domain_names(ds),
     ATP_get_total_parameter_names(ds) >>

\* The possible answers to getatpspecs.
ATPS_send_atp_specs(ds) ==
  LET details == {ATP_get_total_parameter_details(ds, garbage) :
                    garbage \in IF Some(MustTrap, ds) THEN {} ELSE Garbage}
      trap == IF Some(MayTrap, ds) THEN {Trap} ELSE {}
  IN {Append(SpecsHeader(ds), last) : last \in details \cup trap}

\* What the Omega calculator may find for n parameters: tuples of n values, and
\* none without parameters (OcQuery says which: AnswerFits).  7 stands for each
\* value here.
OcResults(n) ==
  {[i \in 1..k |-> [j \in 1..n |-> 7]] : k \in IF n = 0 THEN {0} ELSE 0..2}

\* The elements per combination are counted in the combinations.  The Lua code
\* ends the process when it cannot open one of its files.
Tuples(ds, domName) ==
  LET dom == ATP_domain_find(domName, ds)
  IN IF dom = NoIndex THEN {}
     ELSE {<<Trap>>} \cup
          {<< <<1, Len(r), IF r = <<>> THEN 0 ELSE Len(r[1])>>, FlattenSeq(r)>> :
             r \in OcResults(NumKnown(ds[dom]))}

\* Mutant: a query that fails is not answered.
ATPS_send_valid_parameters_silent(ds, domName) == {<<>>} \cup Tuples(ds, domName)

\* An unknown domain, and whatever goes wrong with Lua or with the calculator.
ATPS_send_valid_parameters(ds, domName) ==
  {<< <<0, 0, 0>> >>} \cup Tuples(ds, domName)

\* Before a load succeeds there are no domains, not even "default".
Described(desc) == IF desc = NoFile THEN <<>> ELSE desc

\* Without a ";" extract_domain_name reads on behind the end of the request.
Overrun(req) == IF req.domain = Piece THEN {<<Trap>>} ELSE {}

\* Mutant: a request that is not known is not answered.
Answers_silent(req, desc) ==
  CASE req.name = "getatpspecs" -> ATPS_send_atp_specs(Described(desc))
    [] req.name = "getvalidparams" ->
         ATPS_send_valid_parameters(Described(desc), req.domain) \cup Overrun(req)
    [] OTHER -> {<<>>}

Answers(req, desc) ==
  CASE req.name = "getatpspecs" -> ATPS_send_atp_specs(Described(desc))
    [] req.name = "getvalidparams" ->
         ATPS_send_valid_parameters(Described(desc), req.domain) \cup Overrun(req)
    [] OTHER -> {ATPS_send_error}

-----------------------------------------------------------------------------
(* The loop of requests.                                                   *)

MayBeCut(queue) == Cuts /\ queue # <<>> /\ ~mangled

\* The first request of the queue has lost its beginning.
CutFirst(queue) == <<Piece>> \o Tail(queue)

\* What a request is taken for whose end has not come.  strncmp needs only the name
\* of getvalidparams; without the comma there is no domain, and behind it the whole
\* name, or one that the description does not have.
Beginnings(req) ==
  {Piece} \cup
    IF req.name # "getvalidparams" THEN {}
    ELSE {[req EXCEPT !.domain = d] :
            d \in {NULL, req.domain} \cup IF req.domain = NULL THEN {} ELSE {Piece}}

\* recv returns what is there.  Behind the first ";" the buffer is cleared, and
\* what follows may be the beginning of a request.
Receive ==
  /\ pc = "recv"
  /\ \E n \in 1..Len(inbox) :
       LET later == SubSeq(inbox, n + 1, Len(inbox))
       IN /\ inbox' \in {later} \cup IF MayBeCut(later) THEN {CutFirst(later)} ELSE {}
          /\ mangled' = (mangled \/ n > 1 \/ inbox' # later)
  /\ request' = inbox[1]
  /\ pc' = "dispatch"
  /\ UNCHANGED <<startup, file, domArray, sending, outbox, client, reset, asking,
                 failed>>

ReceiveBeginning ==
  /\ pc = "recv"
  /\ MayBeCut(inbox)
  /\ request' \in Beginnings(inbox[1])
  /\ inbox' = CutFirst(inbox)
  /\ mangled' = TRUE
  /\ pc' = "dispatch"
  /\ UNCHANGED <<startup, file, domArray, sending, outbox, client, reset, asking,
                 failed>>

\* recv returns 0, again and again, once the client has closed: an empty
\* request.
ReceiveNothing ==
  /\ pc = "recv"
  /\ client = "closed"
  /\ inbox = <<>>
  /\ request' = Empty
  /\ pc' = "dispatch"
  /\ UNCHANGED <<startup, file, domArray, sending, network, asking, history>>

\* Mutant: the file is read for every request.
load_desc_file_again == domArray' = file

\* desc_file_loaded is set with domArray, and a load that succeeded is the last.
load_desc_file == domArray' = IF domArray # NoFile THEN domArray ELSE file

\* The error, or, where the file is there and cannot be opened, fclose(NULL).
LoadErrors == IF domArray' = NoFile THEN {ATPS_send_error, <<Trap>>} ELSE {<<>>}

\* A load that fails does not keep the request from being answered.
ATPS_dispatch_and_respond ==
  /\ pc = "dispatch"
  /\ load_desc_file
  /\ failed' = (failed \/ domArray' = NoFile)
  /\ \E error \in LoadErrors, answer \in Answers(request, domArray') :
       sending' = error \o answer
  /\ pc' = "send"
  /\ UNCHANGED <<startup, file, request, network, asking, mangled>>

\* One send.  What a client that has closed is sent only provokes the reset.
Send ==
  /\ pc = "send"
  /\ sending # <<>>
  /\ Head(sending) # Trap
  /\ ~reset
  /\ sending' = Tail(sending)
  /\ outbox' = IF client = "closed" THEN Refused ELSE outbox \o Head(sending)
  /\ UNCHANGED <<pc, startup, file, domArray, request, inbox, client, reset,
                 asking, history>>

Sent ==
  /\ pc = "send"
  /\ sending = <<>>
  /\ pc' = "recv"
  /\ UNCHANGED <<startup, Serving>>

\* SIGPIPE, which nothing in the server handles.
SendKilled ==
  /\ pc = "send"
  /\ sending # <<>>
  /\ Head(sending) # Trap
  /\ reset
  /\ pc' = "dead"
  /\ UNCHANGED <<startup, Serving>>

\* SIGFPE in ATP_get_total_parameter_details, os.exit of oc_query.lua, or SIGSEGV.
Trapped ==
  /\ pc = "send"
  /\ sending # <<>>
  /\ Head(sending) = Trap
  /\ pc' = "dead"
  /\ UNCHANGED <<startup, Serving>>

-----------------------------------------------------------------------------
(* The client, the network and the application.                            *)

\* A word that is no count, an error or a name, makes the client read nothing.
Count(w) == IF w \in Nat THEN w ELSE 0

\* How many words the client takes for the answer to req, as the words say.
AnswerLength(req, words) ==
  IF req.name \notin {"getatpspecs", "getvalidparams"} THEN 1
  ELSE IF Len(words) < 3 THEN 3
  ELSE IF req.name = "getatpspecs"
    THEN 3 + 2 * Count(words[1]) + 4 * Count(words[2]) + Count(words[3])
    ELSE 3 + Count(words[2]) * Count(words[3])

Ask ==
  /\ client = "connected"
  /\ sent < MaxRequests
  /\ Len(pending) < Window
  /\ \E req \in Requests :
       /\ inbox' = Append(inbox, req)
       /\ pending' = Append(pending, req)
  /\ sent' = sent + 1
  /\ UNCHANGED <<pc, startup, file, domArray, request, sending, outbox, client,
                 reset, specs, tuples, history>>

ReadAnswer ==
  /\ client = "connected"
  /\ pending # <<>>
  /\ LET req == pending[1]
         n == AnswerLength(req, outbox)
         answer == SubSeq(outbox, 1, n)
     IN /\ Len(outbox) >= n
        /\ outbox' = SubSeq(outbox, n + 1, Len(outbox))
        /\ specs' = IF req.name = "getatpspecs" THEN answer ELSE specs
        /\ tuples' = IF req.name = "getvalidparams"
                       THEN [domain |-> req.domain, words |-> answer] ELSE tuples
  /\ pending' = Tail(pending)
  /\ UNCHANGED <<pc, startup, file, domArray, request, sending, inbox, client,
                 reset, sent, history>>

\* What the client has not read is refused, and what it has read is forgotten.
Close ==
  /\ client = "connected"
  /\ client' = "closed"
  /\ outbox' = IF outbox = <<>> THEN <<>> ELSE Refused
  /\ pending' = <<>> /\ specs' = <<>> /\ tuples' = NoTuples
  /\ UNCHANGED <<pc, startup, file, domArray, request, sending, inbox, reset, sent,
                 history>>

\* What a closed client was sent is refused.
ResetArrives ==
  /\ client = "closed"
  /\ outbox # <<>>
  /\ ~reset
  /\ reset' = TRUE
  /\ UNCHANGED <<pc, startup, file, domArray, request, sending, inbox, outbox,
                 client, asking, history>>

\* The application opens its description file anew, and closes it.
Export ==
  /\ file' \in Files
  /\ UNCHANGED <<pc, startup, domArray, request, sending, network, asking, history>>

Ended == pc \in {"exited", "dead"}

-----------------------------------------------------------------------------
Startup ==
  \/ Bind
  \/ TryFails
  \/ GiveUp
  \/ sockets_client_connect_retry
  \/ sockets_open_registry
  \/ sockets_registry_create_entry
  \/ ReadCreated
  \/ sockets_close_registry

Accept == ATPS_sockets_server_accept_client \/ AcceptFails

ATPS_receive_and_process_requests ==
  \/ Receive
  \/ ReceiveBeginning
  \/ ReceiveNothing
  \/ ATPS_dispatch_and_respond
  \/ Send
  \/ Sent
  \/ SendKilled
  \/ Trapped

Outside == RegistryLeaves \/ Ask \/ ReadAnswer \/ Close \/ ResetArrives \/ Export

Next == Startup \/ Accept \/ ATPS_receive_and_process_requests \/ Outside

Spec == Init /\ [][Next]_vars

\* The server is scheduled, the network delivers, the registry answers a line or
\* closes, and the client reads what has come.  The client need not ask, nor
\* close, and a connection need not come.
FairSpec ==
  /\ Spec
  /\ WF_vars(Startup)
  /\ WF_vars(ATPS_receive_and_process_requests)
  /\ WF_vars(ReadAnswer)
  /\ WF_vars(ResetArrives)

-----------------------------------------------------------------------------
(* Properties.                                                             *)

Arriving == Requests \cup {Piece}

\* The type invariant; the port tried never goes beyond one step behind the last
\* one of ATPS_sockets_server_startup_retry.
TypeOK ==
  /\ pc \in {"bind", "connect", "welcome", "create", "created", "quit", "accept",
             "recv", "dispatch", "send", "exited", "dead"}
  /\ tried \subseteq Ports
  /\ port \in Ports \cup {InitPort + (Retries + 1) * Step}
  /\ attempts \in 0..Attempts
  /\ registry \in {"none", "open", "gone", "reset"}
  /\ entry \in Ports \cup {NoPort}
  /\ file \in Files /\ domArray \in Files \cup {NoFile}
  /\ request \in {Empty} \cup Arriving \cup UNION {Beginnings(req) : req \in Arriving}
  /\ client \in {"away", "connected", "closed"}
  /\ reset \in BOOLEAN /\ failed \in BOOLEAN /\ mangled \in BOOLEAN
  /\ sent \in 0..MaxRequests
  /\ Len(pending) <= Window /\ Len(inbox) <= sent

\* The server gives up only behind a try on every port it may take, the last one
\* included, each of them in vain: the loop of ATPS_sockets_server_startup_retry
\* leaves none out, whichever of its four calls fails.
GivesUpLast == [][pc = "bind" /\ pc' = "exited" => tried = Ports]_vars

\* The registry sends no client to a server that never comes to wait for it.  From
\* the moment there is an entry it has the port that was bound, and nothing that
\* the registry does behind it - no answer, the end of the connection, a reset -
\* ends the server before it accepts.  (What ends it later leaves the entry behind.)
EntryServed ==
  [][entry' # NoPort =>
       /\ entry' = port'
       /\ Ended' => pc \notin {"create", "created", "quit"}]_vars

\* Where the answers to reqs end, one behind the other.
AnswersEnd(reqs, words) ==
  LET end[k \in 0..Len(reqs)] ==
        IF k = 0 THEN 0
        ELSE end[k - 1] +
               AnswerLength(reqs[k], SubSeq(words, end[k - 1] + 1, Len(words)))
  IN end[Len(reqs)]

\* The server comes to wait for its client, or ends, also if the registry refuses
\* it, leaves in the middle of the dialogue, or was never there: none of the loops
\* of the startup turns for ever.
StartupEnds == pc = "bind" ~> (pc = "accept" \/ Ended)

\* When the server waits for a request, the client has in front of it the answers
\* to the requests that were received, in their order, complete and with nothing
\* behind them: the two sides agree on where an answer ends.
InStep ==
  pc = "recv" /\ client = "connected" =>
    Len(outbox) =
      AnswersEnd(SubSeq(pending, 1, Len(pending) - Len(inbox)), outbox)

\* The two sides are in step as long as every load of the description file has
\* succeeded and each recv has brought one request, which a client that waits for
\* each answer, as the one of the test, and a request that fits in a segment
\* assure.
AnsweredExactly == ~failed /\ ~mangled => InStep

\* Where a parameter's words begin in an answer to getatpspecs: they are as many
\* as the words of the parameters before it say (test/atpserver_test.c:120-131).
DetailsAt(words) ==
  LET at[k \in 1..words[2] + 1] ==
        IF k = 1 THEN 3 + 2 * words[1] + words[2]
        ELSE at[k - 1] + 3 +
             IF words[at[k - 1] + 1] = ATP_PARAM_TYPE_RANGE THEN 3
             ELSE words[at[k - 1] + 3]
  IN at

DecodedParams(words) ==
  [k \in 1..words[2] |->
     [paramName |-> words[3 + 2 * words[1] + k],
      paramType |-> words[DetailsAt(words)[k] + 1],
      defaultVal |-> words[DetailsAt(words)[k] + 2],
      valueArray |-> SubSeq(words, DetailsAt(words)[k] + 4, DetailsAt(words)[k + 1])]]

DecodedDomains(words) ==
  [i \in 1..words[1] |-> <<words[3 + words[1] + i], words[3 + i]>>]

WellFormed(param) == Known(param) /\ (~IsEnum(param) => Len(param.valueArray) = 3)

\* The client has specs that it may take for those of the description.
HasGoodSpecs ==
  /\ ~failed /\ ~mangled /\ specs # <<>>
  /\ \A k \in 1..Len(AllParams(domArray)) : WellFormed(AllParams(domArray)[k])

\* n is how many steps of a range fit between its limits.
CountsSteps(n, vs) ==
  vs[1] + n * vs[3] <= vs[2] /\ vs[2] < vs[1] + (n + 1) * vs[3]

Upwards(param) ==
  ~IsEnum(param) /\ param.valueArray[1] <= param.valueArray[2] /\ param.valueArray[3] > 0

\* A client that walks over the answer to getatpspecs as test/atpserver_test.c
\* does finds the domains and parameters of the description: the counts of the
\* header, the third word of each parameter and the values, which six functions
\* of atpcommon.c produce, agree.  The third word of a range ("max values" for that
\* client) is how often one may step up in it, and its type is ATP_PARAM_TYPE_RANGE,
\* 1: README.md:105-109 has there the number of its values, 3, and the type 0.
SpecsDescribe ==
  HasGoodSpecs =>
  /\ DecodedDomains(specs) =
       [i \in 1..Len(domArray) |-> <<domArray[i].domName, NumParams(domArray[i])>>]
  /\ DecodedParams(specs) = AllParams(domArray)
  /\ \A k \in 1..Len(AllParams(domArray)) :
       LET param == AllParams(domArray)[k]
       IN Upwards(param) => CountsSteps(specs[DetailsAt(specs)[k] + 3], param.valueArray)

\* Where all parameters are ranges and enums, the tuples of getvalidparams have a
\* value for each that getatpspecs announced for the domain, also if the application
\* writes another description between the two requests: load_desc_file loads one
\* description for good.
TuplesFitSpecs ==
  ~failed /\ ~mangled /\ specs # <<>> /\ tuples.words # <<>> /\ tuples.words[2] > 0
    /\ (\A k \in 1..Len(AllParams(domArray)) : Known(AllParams(domArray)[k])) =>
    <<Named(tuples.domain), tuples.words[3]>> \in Range(DecodedDomains(specs))

\* A client that waits gets its answers, unless a load has failed, a request was
\* dropped or cut, the client goes away, or the server has ended.
Answered ==
  pending # <<>> ~> (pending = <<>> \/ failed \/ mangled \/ client = "closed" \/ Ended)

\* A server whose client has gone ends.  No line of the loop ends it: the errors
\* it sends in answer to the nothing it receives do, by SIGPIPE.
ServerEnds == client = "closed" ~> Ended
=============================================================================

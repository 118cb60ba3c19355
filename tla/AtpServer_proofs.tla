--------------------------- MODULE AtpServer_proofs ---------------------------
(***************************************************************************)
(* The startup of the server for any number of ports, retries and attempts *)
(* to reach the registry, the types of the server and its client, and the  *)
(* dialogue of the two: for any description, any number of requests and    *)
(* any number of them on the way, the answers are where the client takes   *)
(* them, and say what the description says.                                *)
(***************************************************************************)
EXTENDS AtpServer, AtpCommon_proofs

PortOf(k) == InitPort + k * Step

LEMMA Multiples ==
  ASSUME NEW k \in Nat, NEW n \in Nat
  PROVE  /\ PortOf(k) \in Nat
         /\ PortOf(k + 1) = PortOf(k) + Step
         /\ PortOf(k) <= PortOf(n) => k <= n
<1>1. k * Step \in Nat /\ n * Step \in Nat /\ Step \in Nat \ {0}
  BY PortsAssumption
<1>2. (k + 1) * Step = k * Step + Step
  BY PortsAssumption
<1>3. ASSUME k > n PROVE k * Step > n * Step
  <2> DEFINE d == k - n
  <2>1. d \in Nat \ {0} /\ k = n + d
    BY <1>3
  <2>2. d * Step > 0
    <3> HIDE DEF d
    <3> QED BY <2>1, <1>1
  <2>3. k * Step = n * Step + d * Step
    <3> HIDE DEF d
    <3> QED BY <2>1, <1>1
  <2>4. d * Step \in Nat
    <3> HIDE DEF d
    <3> QED BY <2>1, <1>1
  <2> HIDE DEF d
  <2> QED BY <1>1, <2>2, <2>3, <2>4
<1> QED BY <1>1, <1>2, <1>3, PortsAssumption DEF PortOf
-----------------------------------------------------------------------------
(***************************************************************************)
(* The invariant.  The search has tried the ports before the j-th, each in *)
(* vain; behind it the port is one of those it may take, and an entry is   *)
(* for this port and was made by a registry that has read all it was sent. *)
(***************************************************************************)
TriedBefore(j) == {PortOf(k) : k \in 0..j - 1}

Searched == \E j \in 0..Retries + 1 : port = PortOf(j) /\ tried = TriedBefore(j)

Owned ==
  /\ pc \in {"bind", "connect", "welcome", "create"} => entry = NoPort
  /\ pc \notin {"bind", "exited", "dead"} => port \in Ports
  /\ entry # NoPort => entry = port /\ (pc \in {"created", "quit"} => registry # "reset")

Queues == inbox \in Seq(Arriving) /\ pending \in Seq(Requests)

Inv == TypeOK /\ Queues /\ Searched /\ Owned

LEMMA InitInv == Init => Inv
<1> SUFFICES ASSUME Init PROVE Inv
  OBVIOUS
<1>1. InitPort \in Ports /\ InitPort = PortOf(0)
  <2>1. 0 \in 0..Retries /\ InitPort + 0 * Step = InitPort
    BY PortsAssumption
  <2> QED BY <2>1 DEF Ports, PortOf
<1>2. TypeOK
  <2>1. attempts \in 0..Attempts /\ sent \in 0..MaxRequests
    BY RegistryAssumption, ClientAssumption DEF Init
  <2>2. Len(pending) <= Window /\ Len(inbox) <= sent
    BY ClientAssumption DEF Init
  <2>3. failed \in BOOLEAN /\ mangled \in BOOLEAN /\ reset \in BOOLEAN
    BY DEF Init
  <2> QED BY <1>1, <2>1, <2>2, <2>3 DEF Init, TypeOK
<1>3. Searched
  <2>1. 0 \in 0..Retries + 1 /\ TriedBefore(0) = {}
    BY PortsAssumption DEF TriedBefore
  <2> QED BY <1>1, <2>1 DEF Init, Searched
<1> QED BY <1>2, <1>3 DEF Init, Inv, Queues, Owned

\* A port that is not behind the last one is one of those the search may take.
LEMMA WithinRetries ==
  ASSUME NEW j \in 0..Retries + 1, port = PortOf(j), port <= LastPort
  PROVE  j \in 0..Retries /\ port \in Ports
<1>1. LastPort = PortOf(Retries) /\ j \in Nat /\ Retries \in Nat
  BY PortsAssumption DEF LastPort, PortOf
<1>2. j <= Retries
  BY <1>1, Multiples
<1>3. j \in 0..Retries
  BY <1>1, <1>2
<1> QED BY <1>3 DEF Ports, PortOf

LEMMA SearchStep ==
  ASSUME Inv, Bind \/ TryFails \/ GiveUp
  PROVE  Inv'
<1>1. PICK j \in 0..Retries + 1 : port = PortOf(j) /\ tried = TriedBefore(j)
  BY DEF Inv, Searched
<1>2. j \in Nat /\ Retries \in Nat
  BY PortsAssumption
<1>3. CASE Bind
  <2>1. port \in Ports
    BY <1>1, <1>3, WithinRetries DEF Bind
  <2>2. TypeOK'
    BY <1>3 DEF Bind, Bound, Inv, TypeOK, Serving, search, dialogue, network, asking,
                history
  <2>3. Searched'
    BY <1>1, <1>3 DEF Bind, Searched, search
  <2>4. Owned'
    BY <1>3, <2>1 DEF Bind, Bound, Inv, Owned, search, dialogue
  <2>5. Queues'
    BY <1>3 DEF Bind, Inv, Queues, Serving, network, asking
  <2> QED BY <2>2, <2>3, <2>4, <2>5 DEF Inv
<1>4. CASE TryFails
  <2>1. j \in 0..Retries /\ port \in Ports
    BY <1>1, <1>4, WithinRetries DEF TryFails
  <2>2. port' = PortOf(j + 1)
    BY <1>1, <1>2, <1>4, Multiples DEF TryFails
  <2>3. port' \in Ports \cup {PortOf(Retries + 1)}
    <3>1. CASE j < Retries
      <4>1. j + 1 \in 0..Retries
        BY <1>2, <3>1
      <4> QED BY <2>2, <4>1 DEF Ports, PortOf
    <3>2. CASE j = Retries
      BY <2>2, <3>2
    <3> QED BY <1>2, <2>1, <3>1, <3>2
  <2>4. tried' \subseteq Ports
    BY <1>4, <2>1 DEF TryFails, Inv, TypeOK
  <2>5. TypeOK'
    BY <1>4, <2>3, <2>4 DEF TryFails, Inv, TypeOK, Serving, dialogue, network, asking,
                            history, PortOf
  <2>6. Searched'
    <3>1. j + 1 \in 0..Retries + 1
      BY <1>2, <2>1
    <3>2. 0..(j + 1) - 1 = (0..j - 1) \cup {j}
      BY <1>2
    <3>3. TriedBefore(j + 1) = TriedBefore(j) \cup {PortOf(j)}
      BY <3>2 DEF TriedBefore
    <3>4. tried' = TriedBefore(j + 1)
      BY <1>1, <1>4, <3>3 DEF TryFails
    <3> QED BY <2>2, <3>1, <3>4 DEF Searched
  <2>7. Owned' /\ Queues'
    BY <1>4 DEF TryFails, Inv, Owned, Queues, Serving, dialogue, network, asking
  <2> QED BY <2>5, <2>6, <2>7 DEF Inv
<1>5. CASE GiveUp
  <2>1. TypeOK'
    BY <1>5 DEF GiveUp, Inv, TypeOK, Serving, startup, search, dialogue, network, asking,
                history
  <2>2. Searched' /\ Owned' /\ Queues'
    BY <1>5 DEF GiveUp, Inv, Searched, Owned, Queues, Serving, startup, search, dialogue,
                network, asking
  <2> QED BY <2>1, <2>2 DEF Inv
<1> QED BY <1>3, <1>4, <1>5

LEMMA RegistryStep ==
  ASSUME Inv,
         \/ sockets_client_connect_retry \/ sockets_open_registry
         \/ sockets_registry_create_entry \/ ReadCreated
         \/ sockets_close_registry \/ RegistryLeaves
  PROVE  Inv'
<1>1. CASE sockets_client_connect_retry
  BY <1>1, RegistryAssumption
     DEF sockets_client_connect_retry, Inv, TypeOK, Queues, Searched, Owned,
         Serving, search, network, asking, history
<1>2. CASE sockets_open_registry
  BY <1>2 DEF sockets_open_registry, Inv, TypeOK, Queues, Searched, Owned,
              Serving, search, network, asking, history
<1>3. CASE sockets_registry_create_entry
  BY <1>3 DEF sockets_registry_create_entry, Registered, Inv, TypeOK, Queues, Searched,
              Owned, Serving, search, network, asking, history
<1>4. CASE ReadCreated
  BY <1>4 DEF ReadCreated, Inv, TypeOK, Queues, Searched, Owned,
              Serving, startup, search, dialogue, network, asking, history
<1>5. CASE sockets_close_registry
  BY <1>5 DEF sockets_close_registry, Inv, TypeOK, Queues, Searched, Owned,
              Serving, search, network, asking, history
<1>6. CASE RegistryLeaves
  BY <1>6 DEF RegistryLeaves, Inv, TypeOK, Queues, Searched, Owned,
              Serving, search, network, asking, history
<1> QED BY <1>1, <1>2, <1>3, <1>4, <1>5, <1>6

(***************************************************************************)
(* From accept on, the ports and the entry stay, and so do their parts of  *)
(* the invariant.                                                          *)
(***************************************************************************)
LEMMA StartupKept ==
  ASSUME Inv, UNCHANGED startup,
         pc' \in {"bind", "connect", "welcome", "create", "created", "quit"} => pc' = pc,
         pc' \notin {"bind", "exited", "dead"} => pc \notin {"bind", "exited", "dead"}
  PROVE  Searched' /\ Owned'
BY DEF startup, search, dialogue, Inv, Searched, Owned

\* A request that has lost its beginning is still in its place.
LEMMA CutKept ==
  ASSUME NEW queue \in Seq(Arriving), queue # <<>>
  PROVE  CutFirst(queue) \in Seq(Arriving) /\ Len(CutFirst(queue)) = Len(queue)
<1>1. Tail(queue) \in Seq(Arriving) /\ Len(Tail(queue)) = Len(queue) - 1
  OBVIOUS
<1>2. <<Piece>> \in Seq(Arriving)
  BY DEF Arriving
<1> QED BY <1>1, <1>2 DEF CutFirst

LEMMA ServeStep ==
  ASSUME Inv, Accept \/ ATPS_receive_and_process_requests
  PROVE  Inv'
<1> USE DEF Inv, TypeOK, Queues
<1>1. CASE Accept
  <2>1. Searched' /\ Owned'
    BY <1>1, StartupKept DEF Accept, ATPS_sockets_server_accept_client, AcceptFails
  <2> QED BY <1>1, <2>1 DEF Accept, ATPS_sockets_server_accept_client, AcceptFails,
        startup, search, dialogue, Serving, network, asking, history
<1>2. CASE Receive
  <2>1. Searched' /\ Owned'
    BY <1>2, StartupKept DEF Receive
  <2>2. PICK n \in 1..Len(inbox) :
          LET later == SubSeq(inbox, n + 1, Len(inbox))
          IN /\ \/ inbox' = later
                \/ later # <<>> /\ inbox' = CutFirst(later)
             /\ mangled' = (mangled \/ n > 1 \/ inbox' # later)
    BY <1>2 DEF Receive, MayBeCut
  <2> DEFINE later == SubSeq(inbox, n + 1, Len(inbox))
  <2>3. later \in Seq(Arriving) /\ Len(later) <= Len(inbox) /\ inbox[1] \in Arriving
    OBVIOUS
  <2>4. inbox' \in Seq(Arriving) /\ Len(inbox') <= Len(inbox)
    <3> HIDE DEF later
    <3>1. inbox' = later \/ (later # <<>> /\ inbox' = CutFirst(later))
      BY <2>2 DEF later
    <3> QED BY <2>3, <3>1, CutKept
  <2>5. mangled' \in BOOLEAN
    BY <2>2
  <2> QED BY <1>2, <2>1, <2>3, <2>4, <2>5 DEF Receive, startup, search, dialogue, asking
<1>7. CASE ReceiveBeginning
  <2>1. Searched' /\ Owned'
    BY <1>7, StartupKept DEF ReceiveBeginning
  <2>2. inbox # <<>> /\ inbox' = CutFirst(inbox) /\ mangled' \in BOOLEAN
    BY <1>7 DEF ReceiveBeginning, MayBeCut
  <2>3. inbox' \in Seq(Arriving) /\ Len(inbox') <= Len(inbox)
    BY <2>2, CutKept
  <2>4. inbox[1] \in Arriving /\ request' \in Beginnings(inbox[1])
    BY <1>7, <2>2 DEF ReceiveBeginning
  <2>5. request' \in UNION {Beginnings(req) : req \in Arriving}
    BY <2>4
  <2> QED BY <1>7, <2>1, <2>2, <2>3, <2>5
          DEF ReceiveBeginning, startup, search, dialogue, asking
<1>3. CASE ReceiveNothing
  <2>1. Searched' /\ Owned'
    BY <1>3, StartupKept DEF ReceiveNothing
  <2> QED BY <1>3, <2>1 DEF ReceiveNothing, startup, search, dialogue, network, asking,
                            history
<1>4. CASE ATPS_dispatch_and_respond
  <2>1. Searched' /\ Owned'
    BY <1>4, StartupKept DEF ATPS_dispatch_and_respond
  <2>2. failed' \in BOOLEAN /\ domArray' \in Files \cup {NoFile}
    BY <1>4 DEF ATPS_dispatch_and_respond, load_desc_file
  <2> QED BY <1>4, <2>1, <2>2 DEF ATPS_dispatch_and_respond, startup, search, dialogue,
                                  network, asking
<1>5. CASE Send
  <2>1. Searched' /\ Owned'
    BY <1>5, StartupKept DEF Send
  <2> QED BY <1>5, <2>1 DEF Send, startup, search, dialogue, asking, history
<1>6. CASE Sent \/ SendKilled \/ Trapped
  <2>1. Searched' /\ Owned'
    BY <1>6, StartupKept DEF Sent, SendKilled, Trapped
  <2> QED BY <1>6, <2>1 DEF Sent, SendKilled, Trapped, startup, search, dialogue,
                            Serving, network, asking, history
<1> QED BY <1>1, <1>2, <1>3, <1>4, <1>5, <1>6, <1>7 DEF ATPS_receive_and_process_requests

LEMMA OutsideStep ==
  ASSUME Inv, Ask \/ ReadAnswer \/ Close \/ ResetArrives \/ Export
  PROVE  Inv'
<1>1. Searched' /\ Owned'
  BY StartupKept DEF Ask, ReadAnswer, Close, ResetArrives, Export
<1> USE <1>1 DEF Inv, TypeOK, Queues, startup, search, dialogue
<1>2. CASE Ask
  <2>1. PICK req \in Requests : inbox' = Append(inbox, req) /\ pending' = Append(pending, req)
    BY <1>2 DEF Ask
  <2>2. /\ inbox' \in Seq(Arriving) /\ Len(inbox') = Len(inbox) + 1
        /\ pending' \in Seq(Requests) /\ Len(pending') = Len(pending) + 1
    BY <2>1 DEF Arriving
  <2>3. sent' \in 0..MaxRequests /\ Len(pending') <= Window /\ Len(inbox') <= sent'
    BY <1>2, <2>2, ClientAssumption DEF Ask
  <2> QED BY <1>2, <2>2, <2>3 DEF Ask, history
<1>3. CASE ReadAnswer
  <2>1. pending' \in Seq(Requests) /\ Len(pending') <= Window
    BY <1>3, ClientAssumption DEF ReadAnswer
  <2> QED BY <1>3, <2>1 DEF ReadAnswer, history
<1>4. CASE Close
  <2>1. pending' \in Seq(Requests) /\ Len(pending') <= Window
    BY <1>4, ClientAssumption DEF Close
  <2> QED BY <1>4, <2>1 DEF Close, history
<1>5. CASE ResetArrives
  BY <1>5 DEF ResetArrives, asking, history
<1>6. CASE Export
  BY <1>6 DEF Export, network, asking, history
<1> QED BY <1>2, <1>3, <1>4, <1>5, <1>6

LEMMA StepInv == Inv /\ [Next]_vars => Inv'
<1> SUFFICES ASSUME Inv, [Next]_vars PROVE Inv'
  OBVIOUS
<1>1. CASE Next
  BY <1>1, SearchStep, RegistryStep, ServeStep, OutsideStep DEF Next, Startup, Outside
<1>2. CASE UNCHANGED vars
  BY <1>2 DEF vars, startup, search, dialogue, network, asking, history, Inv, TypeOK,
              Queues, Searched, Owned
<1> QED BY <1>1, <1>2

(***************************************************************************)
(* Every reachable state is well typed, and the port tried is never more   *)
(* than one step behind the last one.                                      *)
(***************************************************************************)
THEOREM TypeCorrect == Spec => []TypeOK
<1>1. Inv => TypeOK
  BY DEF Inv
<1> QED BY InitInv, StepInv, <1>1, PTL DEF Spec

(***************************************************************************)
(* Only GiveUp and the dialogue with the registry end a server that has    *)
(* not come to accept.                                                     *)
(***************************************************************************)
LEMMA EndsEarly ==
  ASSUME Next, pc \in {"bind", "create", "created", "quit"}, pc' \in {"exited", "dead"}
  PROVE  GiveUp \/ sockets_close_registry
BY DEF Next, Startup, Accept, ATPS_receive_and_process_requests, Outside, Bind, Bound,
       TryFails, sockets_client_connect_retry, sockets_open_registry,
       sockets_registry_create_entry, ReadCreated, ATPS_sockets_server_accept_client,
       AcceptFails, Receive, ReceiveBeginning, ReceiveNothing, ATPS_dispatch_and_respond,
       Send, Sent, SendKilled, Trapped, RegistryLeaves, Ask, ReadAnswer, Close,
       ResetArrives, Export

(***************************************************************************)
(* The server gives up its search only after it has tried every port: the  *)
(* last one included, for any number of retries and any step, and          *)
(* whichever of the calls of ATPS_sockets_server_startup_retry fails.      *)
(***************************************************************************)
LEMMA GivesUpStep ==
  Inv /\ [Next]_vars => [pc = "bind" /\ pc' = "exited" => tried = Ports]_vars
<1> SUFFICES ASSUME Inv, Next, pc = "bind", pc' = "exited"
             PROVE  tried = Ports
  BY DEF vars
<1>1. GiveUp
  BY EndsEarly DEF sockets_close_registry
<1>2. PICK j \in 0..Retries + 1 : port = PortOf(j) /\ tried = TriedBefore(j)
  BY DEF Inv, Searched
<1>3. j = Retries + 1
  <2>1. LastPort = PortOf(Retries) /\ port > LastPort
    BY <1>1 DEF GiveUp, LastPort, PortOf
  <2>2. PortOf(j) \in Nat /\ PortOf(Retries) \in Nat
    BY PortsAssumption, Multiples
  <2>3. Retries <= j
    BY <1>2, <2>1, <2>2, PortsAssumption, Multiples
  <2>4. j # Retries
    BY <1>2, <2>1, <2>2
  <2> QED BY <2>3, <2>4, PortsAssumption
<1>4. 0..j - 1 = 0..Retries
  BY <1>3, PortsAssumption
<1> QED BY <1>2, <1>4 DEF TriedBefore, Ports, PortOf

THEOREM GivesUpAtLast == Spec => GivesUpLast
BY InitInv, StepInv, GivesUpStep, PTL DEF Spec, GivesUpLast

(***************************************************************************)
(* A registry that has made the entry sends its clients to the port that   *)
(* the server has, and nothing in the rest of the dialogue ends the server *)
(* before it accepts: only a registry that refused, and left unread what   *)
(* it was sent, can reset the connection in front of the last line         *)
(* (ATPS_sockets_register_with_registry).                                  *)
(***************************************************************************)
LEMMA EntryServedStep ==
  Inv /\ Inv' /\ [Next]_vars =>
    [entry' # NoPort =>
       /\ entry' = port'
       /\ Ended' => pc \notin {"create", "created", "quit"}]_vars
<1> SUFFICES ASSUME Inv, Inv', Next, entry' # NoPort
             PROVE  /\ entry' = port'
                    /\ Ended' => pc \notin {"create", "created", "quit"}
  BY DEF vars
<1>1. entry' = port'
  BY DEF Inv, Owned
<1>2. ASSUME Ended', pc \in {"create", "created", "quit"} PROVE FALSE
  <2>1. GiveUp \/ sockets_close_registry
    BY <1>2, EndsEarly DEF Ended
  <2>2. pc = "quit" /\ pc' = "dead" /\ registry = "reset" /\ entry' = entry
    BY <1>2, <2>1 DEF GiveUp, sockets_close_registry, Ended
  <2> QED BY <2>2 DEF Inv, Owned
<1> QED BY <1>1, <1>2

THEOREM EntryIsServed == Spec => EntryServed
<1>1. Spec => []Inv
  BY InitInv, StepInv, PTL DEF Spec
<1> QED BY <1>1, EntryServedStep, PTL DEF Spec, EntryServed

-----------------------------------------------------------------------------
(***************************************************************************)
(* The sums of atpcommon.c, and the words of the answers.                  *)
(***************************************************************************)
Sums(sums, ns, n) ==
  /\ sums = [k \in 0..n |-> sums[k]]
  /\ sums[0] = 0
  /\ \A k \in 1..n : sums[k] = sums[k - 1] + ns[k]

LEMMA TotalIs ==
  ASSUME NEW ns, NEW n \in Nat, Len(ns) = n, NEW sums, Sums(sums, ns, n)
  PROVE  Total(ns) = sums[n]
<1> USE DEF Sums
<1> DEFINE Rule(f) == [k \in 0..n |-> IF k = 0 THEN 0 ELSE f[k - 1] + ns[k]]
           g == CHOOSE f : f = [k \in 0..Len(ns) |-> IF k = 0 THEN 0 ELSE f[k - 1] + ns[k]]
<1>1. sums = Rule(sums)
  <2>1. \A k \in 0..n : sums[k] = IF k = 0 THEN 0 ELSE sums[k - 1] + ns[k]
    <3> TAKE k \in 0..n
    <3>1. CASE k = 0
      BY <3>1
    <3>2. CASE k # 0
      <4>1. k \in 1..n
        BY <3>2
      <4> QED BY <3>2, <4>1
    <3> QED BY <3>1, <3>2
  <2>2. [k \in 0..n |-> sums[k]] = Rule(sums)
    BY <2>1
  <2> HIDE DEF Rule
  <2> QED BY <2>2, Zenon
<1>2. g = Rule(g)
  <2>1. g = [k \in 0..Len(ns) |-> IF k = 0 THEN 0 ELSE g[k - 1] + ns[k]]
    <3>1. \E f : f = [k \in 0..Len(ns) |-> IF k = 0 THEN 0 ELSE f[k - 1] + ns[k]]
      BY <1>1, Zenon
    <3> QED BY <3>1, Zenon
  <2> HIDE DEF g
  <2> QED BY <2>1, Zenon
<1>3. Total(ns) = g[n]
  BY Zenon DEF Total
<1> HIDE DEF g
<1>4. g[0] = 0 /\ \A k \in 1..n : g[k] = g[k - 1] + ns[k]
  <2>1. \A k \in 0..n : Rule(g)[k] = IF k = 0 THEN 0 ELSE g[k - 1] + ns[k]
    OBVIOUS
  <2> HIDE DEF Rule
  <2>2. \A k \in 0..n : g[k] = IF k = 0 THEN 0 ELSE g[k - 1] + ns[k]
    BY <1>2, <2>1, Zenon
  <2> QED BY <2>2
<1>5. AreAlike(g, sums, n)
  <2>1. GoAlike(g, sums, n)
    BY <1>4 DEF GoAlike
  <2> QED BY <2>1, AgreeAll
<1>6. g[n] = sums[n]
  BY <1>5 DEF AreAlike
<1> QED BY <1>3, <1>6

LEMMA TotalOfLengths ==
  ASSUME NEW T, NEW seqs \in Seq(Seq(T)), NEW n \in Nat, Len(seqs) = n,
         NEW ns, Len(ns) = n, \A k \in 1..n : ns[k] = Len(seqs[k])
  PROVE  Total(ns) = Len(FlattenSeq(seqs))
<1>1. PICK off : Places(off, seqs, FlattenSeq(seqs))
  BY FlattenPlaces
<1>2. /\ off \in [0..n -> Nat] /\ off[0] = 0 /\ off[n] = Len(FlattenSeq(seqs))
      /\ \A k \in 1..n : off[k] = off[k - 1] + ns[k]
  BY <1>1, Zenon DEF Places
<1>3. off = [k \in 0..n |-> off[k]]
  BY <1>2
<1>4. Sums(off, ns, n)
  BY <1>2, <1>3, Zenon DEF Sums
<1>5. Total(ns) = off[n]
  BY <1>4, TotalIs
<1> QED BY <1>2, <1>5

\* What the answers are made of: names and numbers.
Word == Names \cup Int

\* What a load leaves of a parameter, and the sequences the sums are made of.
LoadedParam ==
  [paramName : Names, paramType : Int, defaultVal : Int, valueArray : Seq(Int)]
ParamsOf(ds) == [i \in 1..Len(ds) |-> ds[i].paramsArray]
ValuesOf(ds) == [k \in 1..Len(AllParams(ds)) |-> AllParams(ds)[k].valueArray]

LEMMA LoadedTypes ==
  ASSUME NEW ds \in Files \ {NoFile}
  PROVE  /\ Len(ds) \in Nat
         /\ \A i \in 1..Len(ds) :
              ds[i].domName \in Names /\ ds[i].paramsArray \in Seq(LoadedParam)
<1>1. ds \in Seq(atp_domain_t(Names, atp_param_t(Names, Int, Int), {}, {}))
  BY FilesAssumption
<1>2. ASSUME NEW i \in 1..Len(ds)
      PROVE  ds[i].domName \in Names /\ ds[i].paramsArray \in Seq(LoadedParam)
  <2>1. ds[i] \in atp_domain_t(Names, atp_param_t(Names, Int, Int), {}, {})
    BY <1>1
  <2>2. /\ ds[i].domName \in Names
        /\ ds[i].paramsArray \in Seq(atp_param_t(Names, Int, Int))
    BY <2>1 DEF atp_domain_t
  <2>3. PICK n \in Nat : n = Len(ds[i].paramsArray)
    BY <2>2
  <2> DEFINE ps == ds[i].paramsArray
  <2>4. \A j \in 1..n : ps[j] \in LoadedParam
    <3> TAKE j \in 1..n
    <3>1. ps[j] \in atp_param_t(Names, Int, Int)
      BY <2>2, <2>3
    <3>2. ps[j].valueArray # Uninit
      BY <2>3, FilesAssumption
    <3> HIDE DEF ps
    <3> QED BY <3>1, <3>2 DEF atp_param_t, LoadedParam
  <2>5. ps = [j \in 1..n |-> ps[j]]
    BY <2>2, <2>3
  <2> HIDE DEF ps
  <2>6. ps \in [1..n -> LoadedParam]
    BY <2>4, <2>5
  <2>7. ps \in Seq(LoadedParam)
    BY <2>6, FunctionIsSeq
  <2> QED BY <2>2, <2>7 DEF ps
<1> QED BY <1>1, <1>2

LEMMA AllParamsType ==
  ASSUME NEW ds \in Files \ {NoFile}
  PROVE  /\ AllParams(ds) \in Seq(LoadedParam)
         /\ ATP_get_total_parameter_number(ds) = Len(AllParams(ds))
<1>0. PICK n \in Nat : n = Len(ds)
  BY LoadedTypes
<1>1. ParamsOf(ds) \in [1..n -> Seq(LoadedParam)]
  <2>1. \A i \in 1..n : ds[i].paramsArray \in Seq(LoadedParam)
    BY <1>0, LoadedTypes
  <2> QED BY <1>0, <2>1 DEF ParamsOf
<1>2. ParamsOf(ds) \in Seq(Seq(LoadedParam)) /\ Len(ParamsOf(ds)) = n
  BY <1>1, FunctionIsSeq
<1>3. AllParams(ds) = FlattenSeq(ParamsOf(ds))
  BY DEF AllParams, ParamsOf
<1>4. Total(ATP_get_total_domain_details(ds)) = Len(FlattenSeq(ParamsOf(ds)))
  <2> DEFINE ns == ATP_get_total_domain_details(ds)
  <2>1. Len(ns) = n
    BY <1>0 DEF ATP_get_total_domain_details
  <2>2. \A k \in 1..n : ns[k] = Len(ParamsOf(ds)[k])
    BY <1>0 DEF ATP_get_total_domain_details, ParamsOf, NumParams
  <2> HIDE DEF ns
  <2>3. Total(ns) = Len(FlattenSeq(ParamsOf(ds)))
    BY <1>2, <2>1, <2>2, TotalOfLengths
  <2> QED BY <2>3 DEF ns
<1> QED BY <1>2, <1>3, <1>4, FlattenType DEF ATP_get_total_parameter_number

LEMMA ValuesType ==
  ASSUME NEW ds \in Files \ {NoFile}
  PROVE  /\ ValuesOf(ds) \in Seq(Seq(Int)) /\ Len(ValuesOf(ds)) = Len(AllParams(ds))
         /\ ATP_get_total_parameter_values_number(ds) = Len(FlattenSeq(ValuesOf(ds)))
         /\ ATP_get_total_parameter_values_number(ds) \in Nat
<1>0. PICK n \in Nat : n = Len(AllParams(ds))
  BY AllParamsType
<1>1. ValuesOf(ds) \in [1..n -> Seq(Int)]
  <2>1. \A k \in 1..n : AllParams(ds)[k].valueArray \in Seq(Int)
    <3> TAKE k \in 1..n
    <3>1. AllParams(ds)[k] \in LoadedParam
      BY <1>0, AllParamsType
    <3> QED BY <3>1 DEF LoadedParam
  <2> QED BY <1>0, <2>1 DEF ValuesOf
<1>2. ValuesOf(ds) \in Seq(Seq(Int)) /\ Len(ValuesOf(ds)) = n
  BY <1>1, FunctionIsSeq
<1>3. ATP_get_total_parameter_values_number(ds) = Len(FlattenSeq(ValuesOf(ds)))
  <2> DEFINE ns == [k \in 1..Len(AllParams(ds)) |-> Len(AllParams(ds)[k].valueArray)]
  <2>1. Len(ns) = n
    BY <1>0
  <2>2. \A k \in 1..n : ns[k] = Len(ValuesOf(ds)[k])
    BY <1>0 DEF ValuesOf
  <2>3. ATP_get_total_parameter_values_number(ds) = Total(ns)
    BY DEF ATP_get_total_parameter_values_number
  <2> HIDE DEF ns
  <2>4. Total(ns) = Len(FlattenSeq(ValuesOf(ds)))
    BY <1>2, <2>1, <2>2, TotalOfLengths
  <2> QED BY <2>3, <2>4
<1>4. FlattenSeq(ValuesOf(ds)) \in Seq(Int)
  BY <1>2, FlattenType
<1>5. Len(FlattenSeq(ValuesOf(ds))) \in Nat
  BY <1>4
<1> QED BY <1>0, <1>2, <1>3, <1>5

LEMMA QuotientType ==
  ASSUME NEW m \in Int, NEW d \in Int, d # 0
  PROVE  Quotient(m, d) \in Int
<1> DEFINE Abs(x) == IF x < 0 THEN -x ELSE x
<1>1. Abs(m) \in Nat /\ Abs(d) \in Nat \ {0}
  OBVIOUS
<1>2. \A x \in Nat, y \in Nat \ {0} : x \div y \in Int
  OBVIOUS
<1>3. Abs(m) \div Abs(d) \in Int
  <2> HIDE DEF Abs
  <2> QED BY <1>1, <1>2
<1>4. Quotient(m, d) = IF (m < 0) = (d < 0) THEN Abs(m) \div Abs(d) ELSE -(Abs(m) \div Abs(d))
  BY DEF Quotient
<1> HIDE DEF Abs
<1> QED BY <1>3, <1>4

LEMMA DetailsWords ==
  ASSUME NEW param \in LoadedParam, ~MustTrap(param), NEW garbage \in Int
  PROVE  LET va == param.valueArray
             d == DetailsOf(param, garbage)
         IN /\ d \in Seq(Int) /\ Len(d) = 3 + Len(va)
            /\ d[1] = param.paramType /\ d[2] = param.defaultVal
            /\ d[3] = ThirdWord(param, garbage)
            /\ \A j \in 1..Len(va) : d[3 + j] = va[j]
<1> DEFINE va == param.valueArray
           third == ThirdWord(param, garbage)
           head == <<param.paramType, param.defaultVal, third>>
<1>1. param.paramType \in Int /\ param.defaultVal \in Int /\ va \in Seq(Int)
  BY DEF LoadedParam
<1>2. third \in Int
  <2>1. CASE IsEnum(param)
    <3>1. Len(va) \in Int
      BY <1>1
    <3> QED BY <2>1, <3>1 DEF ThirdWord
  <2>2. CASE ~IsEnum(param) /\ ~HasTriple(param)
    BY <2>2 DEF ThirdWord
  <2>3. CASE ~IsEnum(param) /\ HasTriple(param)
    <3>1. Len(va) \in Nat /\ Len(va) >= 3
      BY <1>1, <2>3 DEF HasTriple
    <3>2. va[1] \in Int /\ va[2] \in Int /\ va[3] \in Int
      BY <1>1, <3>1
    <3>3. va[3] # 0
      BY <2>3 DEF MustTrap
    <3>4. third = Quotient(va[2] - va[1], va[3])
      BY <2>3 DEF ThirdWord
    <3>5. va[2] - va[1] \in Int
      BY <3>2
    <3> HIDE DEF va, third
    <3> QED BY <3>2, <3>3, <3>4, <3>5, QuotientType
  <2> QED BY <2>1, <2>2, <2>3
<1>3. DetailsOf(param, garbage) = head \o va
  BY DEF DetailsOf
<1> HIDE DEF va, third
<1>4. /\ head \in Seq(Int) /\ Len(head) = 3
      /\ head[1] = param.paramType /\ head[2] = param.defaultVal /\ head[3] = third
  BY <1>1, <1>2
<1> HIDE DEF head
<1>5. head \o va \in Seq(Int) /\ Joined(head \o va, head, va)
  <2>1. head \in Seq(Int) /\ va \in Seq(Int)
    BY <1>1, <1>4
  <2> QED BY <2>1, ConcatElements, Zenon
<1>6. 1 \in 1..3 /\ 2 \in 1..3 /\ 3 \in 1..3
  OBVIOUS
<1> DEFINE d == head \o va
<1>7. /\ d \in Seq(Int) /\ Len(d) = 3 + Len(va)
      /\ d[1] = param.paramType /\ d[2] = param.defaultVal /\ d[3] = third
      /\ \A j \in 1..Len(va) : d[3 + j] = va[j]
  BY <1>4, <1>5, <1>6 DEF Joined
<1> HIDE DEF d
<1> QED BY <1>3, <1>7 DEF va, third, d

DetailsSeqs(ds, garbage) ==
  [k \in 1..Len(AllParams(ds)) |-> DetailsOf(AllParams(ds)[k], garbage)]

LEMMA DetailsType ==
  ASSUME NEW ds \in Files \ {NoFile}, ~Some(MustTrap, ds), NEW garbage \in Garbage
  PROVE  /\ DetailsSeqs(ds, garbage) \in Seq(Seq(Int))
         /\ Len(DetailsSeqs(ds, garbage)) = Len(AllParams(ds))
         /\ \A k \in 1..Len(AllParams(ds)) :
              Len(DetailsSeqs(ds, garbage)[k]) = 3 + Len(ValuesOf(ds)[k])
<1>0. PICK n \in Nat : n = Len(AllParams(ds))
  BY AllParamsType
<1>1. ASSUME NEW k \in 1..n
      PROVE  /\ DetailsOf(AllParams(ds)[k], garbage) \in Seq(Int)
             /\ Len(DetailsOf(AllParams(ds)[k], garbage)) = 3 + Len(ValuesOf(ds)[k])
  <2>1. AllParams(ds)[k] \in LoadedParam
    BY <1>0, AllParamsType
  <2>2. ~MustTrap(AllParams(ds)[k])
    BY <1>0 DEF Some
  <2>3. ValuesOf(ds)[k] = AllParams(ds)[k].valueArray
    BY <1>0 DEF ValuesOf
  <2>4. garbage \in Int
    BY GarbageAssumption
  <2> QED BY <2>1, <2>2, <2>3, <2>4, DetailsWords
<1>2. DetailsSeqs(ds, garbage) \in [1..n -> Seq(Int)]
  BY <1>0, <1>1 DEF DetailsSeqs
<1>3. DetailsSeqs(ds, garbage) \in Seq(Seq(Int)) /\ Len(DetailsSeqs(ds, garbage)) = n
  BY <1>2, FunctionIsSeq
<1>4. \A k \in 1..n : DetailsSeqs(ds, garbage)[k] = DetailsOf(AllParams(ds)[k], garbage)
  BY <1>0 DEF DetailsSeqs
<1> QED BY <1>0, <1>1, <1>3, <1>4

(***************************************************************************)
(* The third count of an answer to getatpspecs counts the words of the     *)
(* values, and each parameter has three more.                              *)
(***************************************************************************)
LEMMA DetailsTotal ==
  ASSUME NEW ds \in Files \ {NoFile}, ~Some(MustTrap, ds), NEW garbage \in Garbage
  PROVE  LET d == ATP_get_total_parameter_details(ds, garbage)
         IN /\ d \in Seq(Int)
            /\ Len(d) = 3 * Len(AllParams(ds)) + ATP_get_total_parameter_values_number(ds)
<1> DEFINE seqs == DetailsSeqs(ds, garbage)
           vals == ValuesOf(ds)
<1>0. PICK n \in Nat : n = Len(AllParams(ds))
  BY AllParamsType
<1>1. /\ seqs \in Seq(Seq(Int)) /\ Len(seqs) = n
      /\ \A k \in 1..n : Len(seqs[k]) = 3 + Len(vals[k])
  BY <1>0, DetailsType
<1>2. /\ vals \in Seq(Seq(Int)) /\ Len(vals) = n
      /\ ATP_get_total_parameter_values_number(ds) = Len(FlattenSeq(vals))
  BY <1>0, ValuesType
<1>3. ATP_get_total_parameter_details(ds, garbage) = FlattenSeq(seqs)
  BY DEF ATP_get_total_parameter_details, DetailsSeqs
<1> HIDE DEF seqs, vals
<1>4. PICK off : Places(off, seqs, FlattenSeq(seqs))
  BY <1>1, FlattenPlaces
<1>5. PICK ends : Places(ends, vals, FlattenSeq(vals))
  BY <1>2, FlattenPlaces
<1> DEFINE sums == [k \in 0..n |-> 3 * k + ends[k]]
<1>6. /\ ends \in [0..n -> Nat] /\ ends[0] = 0 /\ ends[n] = Len(FlattenSeq(vals))
      /\ \A k \in 1..n : ends[k] = ends[k - 1] + Len(vals[k])
  BY <1>2, <1>5, Zenon DEF Places
<1>7. /\ off[0] = 0 /\ off[n] = Len(FlattenSeq(seqs))
      /\ \A k \in 1..n : off[k] = off[k - 1] + (3 + Len(vals[k]))
  BY <1>1, <1>4, Zenon DEF Places
<1>8. GoAlike(off, sums, n)
  <2>1. sums[0] = 0
    BY <1>6
  <2>2. ASSUME NEW k \in 1..n, off[k - 1] = sums[k - 1] PROVE off[k] = sums[k]
    <3>1. sums[k - 1] = 3 * (k - 1) + ends[k - 1] /\ sums[k] = 3 * k + ends[k]
      OBVIOUS
    <3>2. ends[k - 1] \in Nat /\ ends[k] \in Nat
      <4>1. k - 1 \in 0..n /\ k \in 0..n
        OBVIOUS
      <4> QED BY <1>6, <4>1, Zenon
    <3>3. Len(vals[k]) \in Nat
      BY <1>2
    <3>4. ends[k] = ends[k - 1] + Len(vals[k]) /\ off[k] = off[k - 1] + (3 + Len(vals[k]))
      BY <1>6, <1>7, Zenon
    <3> HIDE DEF sums
    <3> QED BY <2>2, <3>1, <3>2, <3>3, <3>4
  <2> HIDE DEF sums
  <2> QED BY <1>7, <2>1, <2>2 DEF GoAlike
<1>9. off[n] = sums[n]
  <2> HIDE DEF sums
  <2>1. AreAlike(off, sums, n)
    BY <1>8, AgreeAll
  <2> QED BY <2>1 DEF AreAlike
<1>10. sums[n] = 3 * n + Len(FlattenSeq(vals))
  <2>1. sums[n] = 3 * n + ends[n]
    OBVIOUS
  <2> QED BY <1>6, <2>1, Zenon
<1>11. FlattenSeq(seqs) \in Seq(Int)
  BY <1>1, FlattenType
<1> HIDE DEF sums
<1>12. Len(FlattenSeq(seqs)) = 3 * n + Len(FlattenSeq(vals))
  BY <1>7, <1>9, <1>10
<1> QED BY <1>0, <1>2, <1>3, <1>11, <1>12, Zenon

(***************************************************************************)
(* What is where in an answer to getatpspecs.                              *)
(***************************************************************************)
HasSpecs(words, ds, last) ==
  LET N == Len(ds)
      P == Len(AllParams(ds))
  IN /\ words \in Seq(Word)
     /\ Len(words) = 3 + N + N + P + Len(last)
     /\ words[1] = N /\ words[2] = P
     /\ words[3] = ATP_get_total_parameter_values_number(ds)
     /\ \A i \in 1..N : words[3 + i] = NumParams(ds[i])
     /\ \A i \in 1..N : words[3 + N + i] = ds[i].domName
     /\ \A k \in 1..P : words[3 + N + N + k] = AllParams(ds)[k].paramName
     /\ \A j \in 1..Len(last) : words[3 + N + N + P + j] = last[j]

LEMMA SpecsHeaderType ==
  ASSUME NEW ds \in Files \ {NoFile}, NEW last \in Seq(Word)
  PROVE  LET N == Len(ds)
             P == Len(AllParams(ds))
             V == ATP_get_total_parameter_values_number(ds)
             counts == <<N, P, V>>
             dd == ATP_get_total_domain_details(ds)
             dn == ATP_get_total_domain_names(ds)
             pn == ATP_get_total_parameter_names(ds)
         IN /\ SpecsHeader(ds) = <<counts, dd, dn, pn>>
            /\ counts \in Seq(Word) /\ Len(counts) = 3
            /\ counts[1] = N /\ counts[2] = P /\ counts[3] = V
            /\ dd \in Seq(Word) /\ Len(dd) = N /\ \A i \in 1..N : dd[i] = NumParams(ds[i])
            /\ dn \in Seq(Word) /\ Len(dn) = N /\ \A i \in 1..N : dn[i] = ds[i].domName
            /\ pn \in Seq(Word) /\ Len(pn) = P
            /\ \A k \in 1..P : pn[k] = AllParams(ds)[k].paramName
<1>0. PICK N \in Nat, P \in Nat, V \in Nat :
        N = Len(ds) /\ P = Len(AllParams(ds)) /\ V = ATP_get_total_parameter_values_number(ds)
  <2>1. Len(ds) \in Nat /\ ATP_get_total_parameter_values_number(ds) \in Nat
    BY LoadedTypes, ValuesType
  <2>2. Len(AllParams(ds)) \in Nat
    BY AllParamsType
  <2> QED BY <2>1, <2>2
<1>1. SpecsHeader(ds) = <<<<N, P, V>>, ATP_get_total_domain_details(ds),
                          ATP_get_total_domain_names(ds), ATP_get_total_parameter_names(ds)>>
  BY <1>0, AllParamsType DEF SpecsHeader
<1>2. /\ <<N, P, V>> \in Seq(Word) /\ Len(<<N, P, V>>) = 3
      /\ <<N, P, V>>[1] = N /\ <<N, P, V>>[2] = P /\ <<N, P, V>>[3] = V
  BY DEF Word
<1> DEFINE dd == ATP_get_total_domain_details(ds)
           dn == ATP_get_total_domain_names(ds)
           pn == ATP_get_total_parameter_names(ds)
<1>3. dd \in Seq(Word) /\ Len(dd) = N /\ \A i \in 1..N : dd[i] = NumParams(ds[i])
  <2>1. \A i \in 1..N : NumParams(ds[i]) \in Word
    <3> TAKE i \in 1..N
    <3>1. ds[i].paramsArray \in Seq(LoadedParam)
      BY <1>0, LoadedTypes
    <3>2. Len(ds[i].paramsArray) \in Int
      BY <3>1
    <3> QED BY <3>2 DEF NumParams, Word
  <2>2. dd = [i \in 1..N |-> NumParams(ds[i])]
    BY <1>0 DEF ATP_get_total_domain_details
  <2> HIDE DEF dd
  <2>3. dd \in [1..N -> Word] /\ \A i \in 1..N : dd[i] = NumParams(ds[i])
    BY <2>1, <2>2
  <2> QED BY <2>3, FunctionIsSeq
<1>4. dn \in Seq(Word) /\ Len(dn) = N /\ \A i \in 1..N : dn[i] = ds[i].domName
  <2>1. \A i \in 1..N : ds[i].domName \in Word
    BY <1>0, LoadedTypes DEF Word
  <2>2. dn = [i \in 1..N |-> ds[i].domName]
    BY <1>0 DEF ATP_get_total_domain_names
  <2> HIDE DEF dn
  <2>3. dn \in [1..N -> Word] /\ \A i \in 1..N : dn[i] = ds[i].domName
    BY <2>1, <2>2
  <2> QED BY <2>3, FunctionIsSeq
<1>5. pn \in Seq(Word) /\ Len(pn) = P /\ \A k \in 1..P : pn[k] = AllParams(ds)[k].paramName
  <2>1. \A k \in 1..P : AllParams(ds)[k].paramName \in Word
    <3> TAKE k \in 1..P
    <3>1. AllParams(ds)[k] \in LoadedParam
      BY <1>0, AllParamsType
    <3> QED BY <3>1 DEF LoadedParam, Word
  <2>2. pn = [k \in 1..P |-> AllParams(ds)[k].paramName]
    BY <1>0 DEF ATP_get_total_parameter_names
  <2> HIDE DEF pn
  <2>3. pn \in [1..P -> Word] /\ \A k \in 1..P : pn[k] = AllParams(ds)[k].paramName
    BY <2>1, <2>2
  <2> QED BY <2>3, FunctionIsSeq
<1> HIDE DEF dd, dn, pn
<1>6. SpecsHeader(ds) = <<<<N, P, V>>, dd, dn, pn>>
  BY <1>1 DEF dd, dn, pn
<1> QED BY <1>0, <1>2, <1>3, <1>4, <1>5, <1>6, Zenon DEF dd, dn, pn

\* The elements of s are in words behind the first n.
Placed(words, n, s) == \A j \in 1..Len(s) : words[n + j] = s[j]

FiveParts(w, s1, s2, s3, s4, s5) ==
  LET n1 == Len(s1)
      n2 == Len(s2)
      n3 == Len(s3)
      n4 == Len(s4)
  IN /\ Len(w) = n1 + n2 + n3 + n4 + Len(s5)
     /\ Placed(w, 0, s1) /\ Placed(w, n1, s2) /\ Placed(w, n1 + n2, s3)
     /\ Placed(w, n1 + n2 + n3, s4) /\ Placed(w, n1 + n2 + n3 + n4, s5)

LEMMA AppendFifth ==
  ASSUME NEW S, NEW s1 \in S, NEW s2 \in S, NEW s3 \in S, NEW s4 \in S, NEW s5 \in S
  PROVE  LET s == Append(<<s1, s2, s3, s4>>, s5)
         IN /\ s \in Seq(S) /\ Len(s) = 5
            /\ s[1] = s1 /\ s[2] = s2 /\ s[3] = s3 /\ s[4] = s4 /\ s[5] = s5
OBVIOUS

LEMMA FivePlaces ==
  ASSUME NEW T, NEW s1 \in Seq(T), NEW s2 \in Seq(T), NEW s3 \in Seq(T), NEW s4 \in Seq(T),
         NEW s5 \in Seq(T)
  PROVE  LET w == FlattenSeq(Append(<<s1, s2, s3, s4>>, s5))
         IN w \in Seq(T) /\ FiveParts(w, s1, s2, s3, s4, s5)
<1>0. PICK n1 \in Nat, n2 \in Nat, n3 \in Nat, n4 \in Nat :
        n1 = Len(s1) /\ n2 = Len(s2) /\ n3 = Len(s3) /\ n4 = Len(s4)
  OBVIOUS
<1> DEFINE first == <<s1, s2, s3, s4>>
           seqs == Append(first, s5)
           w == FlattenSeq(seqs)
<1>1. /\ seqs \in Seq(Seq(T)) /\ Len(seqs) = 5
      /\ seqs[1] = s1 /\ seqs[2] = s2 /\ seqs[3] = s3 /\ seqs[4] = s4 /\ seqs[5] = s5
  BY AppendFifth
<1> HIDE DEF first, seqs
<1>2. PICK off : Places(off, seqs, w)
  BY <1>1, FlattenPlaces
<1>3. w \in Seq(T)
  BY <1>1, FlattenType
<1> HIDE DEF w
<1>4. /\ off[0] = 0 /\ off[5] = Len(w)
      /\ \A k \in 1..5 : off[k] = off[k - 1] + Len(seqs[k]) /\ Placed(w, off[k - 1], seqs[k])
  BY <1>1, <1>2, Zenon DEF Places, Placed
<1>5. /\ off[1] = off[0] + n1 /\ Placed(w, off[0], s1)
      /\ off[2] = off[1] + n2 /\ Placed(w, off[1], s2)
      /\ off[3] = off[2] + n3 /\ Placed(w, off[2], s3)
      /\ off[4] = off[3] + n4 /\ Placed(w, off[3], s4)
      /\ off[5] = off[4] + Len(s5) /\ Placed(w, off[4], s5)
  <2>1. /\ 1 \in 1..5 /\ 2 \in 1..5 /\ 3 \in 1..5 /\ 4 \in 1..5 /\ 5 \in 1..5
        /\ 1 - 1 = 0 /\ 2 - 1 = 1 /\ 3 - 1 = 2 /\ 4 - 1 = 3 /\ 5 - 1 = 4
    OBVIOUS
  <2> QED BY <1>0, <1>1, <1>4, <2>1
<1>6. /\ off[0] = 0 /\ off[1] = n1 /\ off[2] = n1 + n2 /\ off[3] = n1 + n2 + n3
      /\ off[4] = n1 + n2 + n3 + n4
  BY <1>4, <1>5
<1>7. /\ Len(w) = n1 + n2 + n3 + n4 + Len(s5)
      /\ Placed(w, 0, s1) /\ Placed(w, n1, s2) /\ Placed(w, n1 + n2, s3)
      /\ Placed(w, n1 + n2 + n3, s4) /\ Placed(w, n1 + n2 + n3 + n4, s5)
  BY <1>4, <1>5, <1>6
<1>8. FiveParts(w, s1, s2, s3, s4, s5)
  BY <1>0, <1>7, Zenon DEF FiveParts
<1> QED BY <1>3, <1>8 DEF w, seqs, first

LEMMA SpecsPlaces ==
  ASSUME NEW ds \in Files \ {NoFile}, NEW last \in Seq(Word)
  PROVE  HasSpecs(FlattenSeq(Append(SpecsHeader(ds), last)), ds, last)
<1> DEFINE w == FlattenSeq(Append(SpecsHeader(ds), last))
           V == ATP_get_total_parameter_values_number(ds)
           counts == <<Len(ds), Len(AllParams(ds)), V>>
           dd == ATP_get_total_domain_details(ds)
           dn == ATP_get_total_domain_names(ds)
           pn == ATP_get_total_parameter_names(ds)
<1>0. PICK N \in Nat, P \in Nat : N = Len(ds) /\ P = Len(AllParams(ds))
  BY LoadedTypes, AllParamsType
<1>1. /\ SpecsHeader(ds) = <<counts, dd, dn, pn>>
      /\ counts \in Seq(Word) /\ Len(counts) = 3
      /\ counts[1] = N /\ counts[2] = P /\ counts[3] = V
      /\ dd \in Seq(Word) /\ Len(dd) = N /\ \A i \in 1..N : dd[i] = NumParams(ds[i])
      /\ dn \in Seq(Word) /\ Len(dn) = N /\ \A i \in 1..N : dn[i] = ds[i].domName
      /\ pn \in Seq(Word) /\ Len(pn) = P
      /\ \A k \in 1..P : pn[k] = AllParams(ds)[k].paramName
  BY <1>0, SpecsHeaderType, Zenon
<1>2. w = FlattenSeq(Append(<<counts, dd, dn, pn>>, last))
  BY <1>1, Zenon
<1> HIDE DEF counts, dd, dn, pn, w, V
<1>3. /\ w \in Seq(Word) /\ Len(w) = 3 + N + N + P + Len(last)
      /\ Placed(w, 0, counts) /\ Placed(w, 3, dd) /\ Placed(w, 3 + N, dn)
      /\ Placed(w, 3 + N + N, pn) /\ Placed(w, 3 + N + N + P, last)
  <2>1. w \in Seq(Word) /\ FiveParts(w, counts, dd, dn, pn, last)
    BY <1>1, <1>2, FivePlaces, Zenon
  <2> QED BY <1>1, <2>1, Zenon DEF FiveParts
<1>4. w[1] = N /\ w[2] = P /\ w[3] = V
  <2>1. 1 \in 1..3 /\ 2 \in 1..3 /\ 3 \in 1..3 /\ 0 + 1 = 1 /\ 0 + 2 = 2 /\ 0 + 3 = 3
    OBVIOUS
  <2> QED BY <1>1, <1>3, <2>1 DEF Placed
<1>5. \A i \in 1..N : w[3 + i] = NumParams(ds[i])
  BY <1>1, <1>3, Zenon DEF Placed
<1>6. \A i \in 1..N : w[3 + N + i] = ds[i].domName
  BY <1>1, <1>3, Zenon DEF Placed
<1>7. \A k \in 1..P : w[3 + N + N + k] = AllParams(ds)[k].paramName
  BY <1>1, <1>3, Zenon DEF Placed
<1>8. \A j \in 1..Len(last) : w[3 + N + N + P + j] = last[j]
  BY <1>3, Zenon DEF Placed
<1>9. HasSpecs(w, ds, last)
  BY <1>0, <1>3, <1>4, <1>5, <1>6, <1>7, <1>8, Zenon DEF HasSpecs, V
<1> QED BY <1>9 DEF w

(***************************************************************************)
(* One answer: what of it the client can rely on, and that the client      *)
(* takes all of it and no more.                                            *)
(***************************************************************************)
IsSpecs(ds, words) ==
  /\ ~Some(MustTrap, ds)
  /\ \E garbage \in Garbage :
       HasSpecs(words, ds, ATP_get_total_parameter_details(ds, garbage))

IsTuples(ds, domName, words) ==
  words[2] > 0 => LET dom == ATP_domain_find(domName, ds)
                  IN dom \in 1..Len(ds) /\ words[3] = NumKnown(ds[dom])

IsAnswer(req, ds, words) ==
  /\ words \in Seq(Word)
  /\ AnswerLength(req, words) = Len(words)
  /\ req.name = "getatpspecs" => IsSpecs(ds, words)
  /\ req.name = "getvalidparams" => IsTuples(ds, req.domain, words)

\* An answer that is sent to its end, and one in which the process ends: the
\* client waits for more than it is sent.
Complete(req, ds, answer) == answer \in Seq(Seq(Word)) /\ IsAnswer(req, ds, FlattenSeq(answer))

TooShort(req, words) == AnswerLength(req, words) > Len(words)

BreaksOff(req, answer) ==
  \E msgs \in Seq(Seq(Word)) : answer = Append(msgs, Trap) /\ TooShort(req, FlattenSeq(msgs))

LEMMA FlattenOne ==
  ASSUME NEW T, NEW s \in Seq(T)
  PROVE  FlattenSeq(<<s>>) = s
<1>1. <<s>> \in Seq(Seq(T)) /\ <<s>> # <<>> /\ Head(<<s>>) = s /\ Tail(<<s>>) = <<>>
  OBVIOUS
<1>2. FlattenSeq(<<s>>) = s \o FlattenSeq(<<>>)
  BY <1>1, FlattenHead, Zenon
<1> QED BY <1>2, FlattenEmpty, ConcatEmptySeq

LEMMA FlattenTwo ==
  ASSUME NEW T, NEW s \in Seq(T), NEW u \in Seq(T)
  PROVE  <<s, u>> \in Seq(Seq(T)) /\ FlattenSeq(<<s, u>>) = s \o u
<1>1. /\ <<s, u>> \in Seq(Seq(T)) /\ <<s, u>> # <<>>
      /\ Head(<<s, u>>) = s /\ Tail(<<s, u>>) = <<u>>
  OBVIOUS
<1>2. FlattenSeq(<<s, u>>) = s \o FlattenSeq(<<u>>)
  BY <1>1, FlattenHead, Zenon
<1> QED BY <1>1, <1>2, FlattenOne, Zenon

LEMMA SpecsLength ==
  ASSUME NEW ds \in Files \ {NoFile}, NEW last \in Seq(Word), NEW words,
         HasSpecs(words, ds, last), NEW req, req.name = "getatpspecs"
  PROVE  AnswerLength(req, words) =
           3 + 2 * Len(ds) + 4 * Len(AllParams(ds)) + ATP_get_total_parameter_values_number(ds)
<1>0. PICK N \in Nat, P \in Nat, V \in Nat :
        N = Len(ds) /\ P = Len(AllParams(ds)) /\ V = ATP_get_total_parameter_values_number(ds)
  BY LoadedTypes, AllParamsType, ValuesType
<1>1. words[1] = N /\ words[2] = P /\ words[3] = V /\ Len(words) = 3 + N + N + P + Len(last)
  BY <1>0, Zenon DEF HasSpecs
<1>2. Len(last) \in Nat
  OBVIOUS
<1>3. ~(Len(words) < 3)
  BY <1>1, <1>2
<1>4. Count(words[1]) = N /\ Count(words[2]) = P /\ Count(words[3]) = V
  BY <1>1 DEF Count
<1>5. AnswerLength(req, words) = 3 + 2 * N + 4 * P + V
  BY <1>3, <1>4 DEF AnswerLength
<1> QED BY <1>0, <1>5

LEMMA SpecsAnswered ==
  ASSUME NEW ds \in Files \ {NoFile}, NEW req, req.name = "getatpspecs",
         NEW answer \in ATPS_send_atp_specs(ds)
  PROVE  Complete(req, ds, answer) \/ BreaksOff(req, answer)
<1> DEFINE header == SpecsHeader(ds)
<1>0. PICK N \in Nat, P \in Nat, V \in Nat :
        N = Len(ds) /\ P = Len(AllParams(ds)) /\ V = ATP_get_total_parameter_values_number(ds)
  BY LoadedTypes, AllParamsType, ValuesType
<1>1. header \in Seq(Seq(Word))
  <2> DEFINE counts == <<Len(ds), Len(AllParams(ds)),
                         ATP_get_total_parameter_values_number(ds)>>
             dd == ATP_get_total_domain_details(ds)
             dn == ATP_get_total_domain_names(ds)
             pn == ATP_get_total_parameter_names(ds)
  <2>1. /\ header = <<counts, dd, dn, pn>> /\ counts \in Seq(Word) /\ dd \in Seq(Word)
        /\ dn \in Seq(Word) /\ pn \in Seq(Word)
    <3>1. <<>> \in Seq(Word)
      OBVIOUS
    <3> QED BY <3>1, SpecsHeaderType, Zenon
  <2> HIDE DEF counts, dd, dn, pn, header
  <2> QED BY <2>1
<1>2. PICK last : /\ answer = Append(header, last)
                  /\ \/ /\ ~Some(MustTrap, ds)
                        /\ \E garbage \in Garbage :
                             last = ATP_get_total_parameter_details(ds, garbage)
                     \/ Some(MayTrap, ds) /\ last = Trap
  BY DEF ATPS_send_atp_specs
<1> HIDE DEF header
<1>3. ASSUME ~Some(MustTrap, ds), NEW garbage \in Garbage,
             last = ATP_get_total_parameter_details(ds, garbage)
      PROVE  Complete(req, ds, answer)
  <2>1. last \in Seq(Int) /\ Len(last) = 3 * P + V
    BY <1>0, <1>3, DetailsTotal
  <2>2. last \in Seq(Word)
    BY <2>1 DEF Word
  <2>3. answer \in Seq(Seq(Word))
    BY <1>1, <1>2, <2>2
  <2>4. HasSpecs(FlattenSeq(answer), ds, last)
    BY <1>2, <2>2, SpecsPlaces DEF header
  <2>5. FlattenSeq(answer) \in Seq(Word) /\ Len(FlattenSeq(answer)) = 3 + N + N + P + Len(last)
    BY <1>0, <2>4, Zenon DEF HasSpecs
  <2>6. AnswerLength(req, FlattenSeq(answer)) = 3 + 2 * N + 4 * P + V
    BY <1>0, <2>2, <2>4, SpecsLength
  <2>7. AnswerLength(req, FlattenSeq(answer)) = Len(FlattenSeq(answer))
    BY <2>1, <2>5, <2>6
  <2>8. IsSpecs(ds, FlattenSeq(answer))
    BY <1>3, <2>4 DEF IsSpecs
  <2>9. req.name # "getvalidparams"
    OBVIOUS
  <2> QED BY <2>3, <2>5, <2>7, <2>8, <2>9, Zenon DEF Complete, IsAnswer
<1>4. ASSUME Some(MayTrap, ds), last = Trap
      PROVE  BreaksOff(req, answer)
  <2> DEFINE part == FlattenSeq(header)
             none == <<>>
  <2>1. P >= 1
    BY <1>0, <1>4 DEF Some
  <2>2. none \in Seq(Word) /\ Len(none) = 0
    OBVIOUS
  <2>3. part \in Seq(Word)
    BY <1>1, FlattenType
  <2>4. FlattenSeq(Append(header, none)) = part
    <3>1. FlattenSeq(Append(header, none)) = part \o none
      <4> HIDE DEF none
      <4> QED BY <1>1, <2>2, FlattenAppend
    <3> QED BY <2>3, <3>1, ConcatEmptySeq
  <2>5. HasSpecs(FlattenSeq(Append(header, none)), ds, none)
    <3> HIDE DEF none
    <3> QED BY <2>2, SpecsPlaces DEF header
  <2> HIDE DEF part, none
  <2>6. HasSpecs(part, ds, none)
    BY <2>4, <2>5
  <2>7. Len(part) = 3 + N + N + P + 0
    BY <1>0, <2>2, <2>6, Zenon DEF HasSpecs
  <2>8. AnswerLength(req, part) = 3 + 2 * N + 4 * P + V
    BY <1>0, <2>2, <2>6, SpecsLength
  <2>9. TooShort(req, part)
    BY <2>1, <2>7, <2>8 DEF TooShort
  <2>10. answer = Append(header, Trap) /\ TooShort(req, FlattenSeq(header))
    BY <1>2, <1>4, <2>9 DEF part
  <2> QED BY <1>1, <2>10 DEF BreaksOff
<1> QED BY <1>2, <1>3, <1>4

LEMMA TuplesLength ==
  ASSUME NEW req, req.name = "getvalidparams", NEW words, Len(words) \in Nat,
         Len(words) >= 3, words[2] \in Nat, words[3] \in Nat
  PROVE  AnswerLength(req, words) = 3 + words[2] * words[3]
BY DEF AnswerLength, Count

\* Any rows of n words.
LEMMA FlattenRows ==
  ASSUME NEW T, NEW rows \in Seq(Seq(T)), NEW n \in Nat,
         \A i \in 1..Len(rows) : Len(rows[i]) = n
  PROVE  FlattenSeq(rows) \in Seq(T) /\ Len(FlattenSeq(rows)) = Len(rows) * n
<1>0. PICK m \in Nat : m = Len(rows)
  OBVIOUS
<1>1. PICK off : Places(off, rows, FlattenSeq(rows))
  BY FlattenPlaces
<1> DEFINE g == [k \in 0..m |-> k * n]
<1>2. GoAlike(off, g, m)
  <2>1. /\ off[0] = 0
        /\ \A k \in 1..m : off[k] = off[k - 1] + n
    BY <1>0, <1>1, Zenon DEF Places
  <2>2. g[0] = 0
    OBVIOUS
  <2>3. ASSUME NEW k \in 1..m PROVE g[k] = g[k - 1] + n
    <3>1. k * n = (k - 1) * n + n
      OBVIOUS
    <3> QED BY <3>1
  <2> HIDE DEF g
  <2> QED BY <2>1, <2>2, <2>3 DEF GoAlike
<1>3. g[m] = m * n
  OBVIOUS
<1> HIDE DEF g
<1>4. off[m] = g[m]
  <2>1. AreAlike(off, g, m)
    BY <1>2, AgreeAll
  <2> QED BY <2>1 DEF AreAlike
<1>5. off[m] = Len(FlattenSeq(rows))
  BY <1>0, <1>1, Zenon DEF Places
<1>6. FlattenSeq(rows) \in Seq(T)
  BY FlattenType
<1> QED BY <1>0, <1>3, <1>4, <1>5, <1>6

LEMMA TuplesAnswered ==
  ASSUME NEW ds \in Files \ {NoFile}, NEW req, req.name = "getvalidparams",
         NEW dom \in 1..Len(ds), dom = ATP_domain_find(req.domain, ds),
         NEW r \in OcResults(NumKnown(ds[dom]))
  PROVE  Complete(req, ds,
           << <<1, Len(r), IF r = <<>> THEN 0 ELSE Len(r[1])>>, FlattenSeq(r)>>)
<1>0. PICK n \in Nat : n = NumKnown(ds[dom])
  <2>1. Len(ds[dom].paramsArray) \in Nat
    BY LoadedTypes
  <2>2. IsFiniteSet(1..Len(ds[dom].paramsArray))
    <3>1. 1 \in Int /\ Len(ds[dom].paramsArray) \in Int
      BY <2>1
    <3> QED BY <3>1, FS_Interval
  <2>3. IsFiniteSet({j \in 1..Len(ds[dom].paramsArray) : Known(ds[dom].paramsArray[j])})
    BY <2>2, FS_Subset
  <2> QED BY <2>3, FS_CardinalityType DEF NumKnown, NumParams
<1>1. PICK k \in 0..2 : r = [i \in 1..k |-> [j \in 1..n |-> 7]]
  <2>1. PICK k \in IF n = 0 THEN {0} ELSE 0..2 : r = [i \in 1..k |-> [j \in 1..n |-> 7]]
    BY <1>0, Zenon DEF OcResults
  <2>2. k \in 0..2
    BY <2>1
  <2> QED BY <2>1, <2>2
<1>2. r \in Seq(Seq(Int)) /\ Len(r) = k /\ \A i \in 1..k : Len(r[i]) = n
  <2> DEFINE row == [j \in 1..n |-> 7]
  <2>1. row \in [1..n -> Int]
    OBVIOUS
  <2>2. row \in Seq(Int) /\ Len(row) = n
    <3> HIDE DEF row
    <3> QED BY <2>1, FunctionIsSeq
  <2> HIDE DEF row
  <2>3. r \in [1..k -> Seq(Int)] /\ \A i \in 1..k : r[i] = row
    BY <1>1, <2>2 DEF row
  <2>4. r \in Seq(Seq(Int)) /\ Len(r) = k
    BY <2>3, FunctionIsSeq
  <2> QED BY <2>2, <2>3, <2>4
<1> DEFINE len == IF r = <<>> THEN 0 ELSE Len(r[1])
           counts == <<1, Len(r), len>>
           values == FlattenSeq(r)
           words == FlattenSeq(<<counts, values>>)
<1>3. values \in Seq(Int) /\ Len(values) = k * n
  BY <1>2, FlattenRows
<1>4. len \in Nat /\ (k > 0 => len = n) /\ k * len = k * n
  <2>1. CASE k = 0
    <3>1. r = <<>>
      BY <1>2, <2>1, EmptySeq
    <3>2. len = 0
      BY <3>1
    <3> HIDE DEF len
    <3> QED BY <2>1, <3>2
  <2>2. CASE k # 0
    <3>1. r # <<>>
      BY <1>2, <2>2
    <3>2. Len(r[1]) = n
      BY <1>2, <2>2
    <3>3. len = n
      BY <3>1, <3>2
    <3> HIDE DEF len
    <3> QED BY <3>3
  <2> QED BY <2>1, <2>2
<1> HIDE DEF len, values
<1>5. /\ counts \in Seq(Int) /\ Len(counts) = 3
      /\ counts[1] = 1 /\ counts[2] = k /\ counts[3] = len
  BY <1>2, <1>4
<1> HIDE DEF counts
<1>6. words = counts \o values /\ <<counts, values>> \in Seq(Seq(Int))
  BY <1>3, <1>5, FlattenTwo
<1>7. words \in Seq(Int) /\ Joined(words, counts, values)
  BY <1>3, <1>5, <1>6, ConcatElements, Zenon
<1>8. Len(words) = 3 + k * n /\ words[2] = k /\ words[3] = len
  <2>1. 2 \in 1..3 /\ 3 \in 1..3
    OBVIOUS
  <2> QED BY <1>3, <1>5, <1>7, <2>1, Zenon DEF Joined
<1> HIDE DEF words
<1>9. AnswerLength(req, words) = Len(words)
  <2>1. Len(words) \in Nat /\ Len(words) >= 3
    <3>1. k * n \in Nat
      OBVIOUS
    <3> QED BY <1>8, <3>1
  <2>2. words[2] \in Nat /\ words[3] \in Nat
    BY <1>4, <1>8
  <2>3. AnswerLength(req, words) = 3 + words[2] * words[3]
    BY <2>1, <2>2, TuplesLength
  <2> QED BY <1>4, <1>8, <2>3
<1>10. IsTuples(ds, req.domain, words)
  BY <1>0, <1>4, <1>8 DEF IsTuples
<1>11. words \in Seq(Word) /\ <<counts, values>> \in Seq(Seq(Word))
  <2>1. words \in Seq(Word)
    BY <1>7 DEF Word
  <2>2. counts \in Seq(Word) /\ values \in Seq(Word)
    BY <1>3, <1>5 DEF Word
  <2>3. <<counts, values>> \in Seq(Seq(Word))
    BY <2>2
  <2> QED BY <2>1, <2>3
<1>12. req.name # "getatpspecs"
  OBVIOUS
<1>13. Complete(req, ds, <<counts, values>>)
  BY <1>9, <1>10, <1>11, <1>12 DEF Complete, IsAnswer, words
<1> QED BY <1>13 DEF counts, values, len

LEMMA AnswerKinds ==
  ASSUME NEW ds \in Files \ {NoFile}, NEW req, NEW answer \in Answers(req, ds)
  PROVE  Complete(req, ds, answer) \/ BreaksOff(req, answer)
<1>1. Described(ds) = ds
  BY DEF Described
<1>2. CASE req.name = "getatpspecs"
  <2>1. answer \in ATPS_send_atp_specs(ds)
    BY <1>1, <1>2 DEF Answers
  <2> QED BY <1>2, <2>1, SpecsAnswered
<1>3. CASE req.name = "getvalidparams"
  <2>1. \/ answer = << <<0, 0, 0>> >>
        \/ answer = <<Trap>>
        \/ answer \in Tuples(ds, req.domain) \ {<<Trap>>}
    <3>1. answer \in ATPS_send_valid_parameters(ds, req.domain) \cup Overrun(req)
      BY <1>1, <1>3 DEF Answers
    <3> QED BY <3>1 DEF ATPS_send_valid_parameters, Overrun
  <2>2. CASE answer = << <<0, 0, 0>> >>
    <3> DEFINE none == <<0, 0, 0>>
    <3>1. none \in Seq(Word) /\ Len(none) = 3 /\ none[2] = 0 /\ none[3] = 0
      BY DEF Word
    <3>2. answer = <<none>>
      BY <2>2
    <3> HIDE DEF none
    <3>3. answer \in Seq(Seq(Word)) /\ FlattenSeq(answer) = none
      BY <3>1, <3>2, FlattenOne
    <3>4. AnswerLength(req, none) = Len(none)
      <4>1. Len(none) \in Nat /\ Len(none) >= 3 /\ none[2] \in Nat /\ none[3] \in Nat
        BY <3>1
      <4>2. AnswerLength(req, none) = 3 + none[2] * none[3]
        BY <1>3, <4>1, TuplesLength
      <4> QED BY <3>1, <4>2
    <3>5. IsTuples(ds, req.domain, none)
      BY <3>1 DEF IsTuples
    <3>6. req.name # "getatpspecs"
      BY <1>3
    <3>7. IsAnswer(req, ds, none)
      BY <3>1, <3>4, <3>5, <3>6, Zenon DEF IsAnswer
    <3> QED BY <3>3, <3>7, Zenon DEF Complete
  <2>3. CASE answer = <<Trap>>
    <3> DEFINE none == <<>>
    <3>1. none \in Seq(Seq(Word)) /\ answer = Append(none, Trap)
      BY <2>3
    <3>2. FlattenSeq(none) = <<>>
      BY FlattenEmpty
    <3>3. AnswerLength(req, <<>>) = 3 /\ Len(<<>>) = 0
      BY <1>3 DEF AnswerLength
    <3>4. TooShort(req, FlattenSeq(none))
      BY <3>2, <3>3 DEF TooShort
    <3> HIDE DEF none
    <3> QED BY <3>1, <3>4, Zenon DEF BreaksOff
  <2>4. CASE answer \in Tuples(ds, req.domain) \ {<<Trap>>}
    <3> DEFINE dom == ATP_domain_find(req.domain, ds)
    <3>1. Len(ds) \in Nat
      BY LoadedTypes
    <3>2. dom # NoIndex
      BY <2>4, Zenon DEF Tuples
    <3>3. dom \in 1..Len(ds)
      BY <3>1, <3>2, DomainFind
    <3>4. PICK r \in OcResults(NumKnown(ds[dom])) :
            answer = << <<1, Len(r), IF r = <<>> THEN 0 ELSE Len(r[1])>>, FlattenSeq(r)>>
      BY <2>4, <3>2, Zenon DEF Tuples
    <3> HIDE DEF dom
    <3>5. dom = ATP_domain_find(req.domain, ds)
      BY DEF dom
    <3>6. Complete(req, ds, << <<1, Len(r), IF r = <<>> THEN 0 ELSE Len(r[1])>>, FlattenSeq(r)>>)
      BY <1>3, <3>3, <3>5, TuplesAnswered, Zenon
    <3> QED BY <3>4, <3>6, Zenon
  <2> QED BY <2>1, <2>2, <2>3, <2>4
<1>4. CASE req.name \notin {"getatpspecs", "getvalidparams"}
  <2> DEFINE error == <<-1>>
  <2>1. answer = <<error>>
    BY <1>4 DEF Answers, ATPS_send_error
  <2>2. error \in Seq(Word) /\ Len(error) = 1
    BY DEF Word
  <2> HIDE DEF error
  <2>3. answer \in Seq(Seq(Word)) /\ FlattenSeq(answer) = error
    BY <2>1, <2>2, FlattenOne
  <2>4. AnswerLength(req, error) = Len(error)
    BY <1>4, <2>2 DEF AnswerLength
  <2>5. IsAnswer(req, ds, error)
    BY <1>4, <2>2, <2>4 DEF IsAnswer
  <2> QED BY <2>3, <2>5, Zenon DEF Complete
<1> QED BY <1>2, <1>3, <1>4

(***************************************************************************)
(* How long an answer is shows in its first words: more words behind it    *)
(* change nothing.                                                         *)
(***************************************************************************)
LEMMA LengthPositive ==
  ASSUME NEW req, NEW words
  PROVE  AnswerLength(req, words) \in Nat \ {0}
<1>1. Count(words[1]) \in Nat /\ Count(words[2]) \in Nat /\ Count(words[3]) \in Nat
  BY DEF Count
<1>2. Count(words[2]) * Count(words[3]) \in Nat
  BY <1>1
<1>3. 3 + 2 * Count(words[1]) + 4 * Count(words[2]) + Count(words[3]) \in Nat \ {0}
  BY <1>1
<1>4. 3 + Count(words[2]) * Count(words[3]) \in Nat \ {0}
  BY <1>2
<1> DEFINE ofSpecs == 3 + 2 * Count(words[1]) + 4 * Count(words[2]) + Count(words[3])
           ofTuples == 3 + Count(words[2]) * Count(words[3])
<1>5. AnswerLength(req, words) \in {1, 3, ofSpecs, ofTuples}
  BY DEF AnswerLength
<1> HIDE DEF ofSpecs, ofTuples
<1>6. ofSpecs \in Nat \ {0} /\ ofTuples \in Nat \ {0}
  BY <1>3, <1>4 DEF ofSpecs, ofTuples
<1> QED BY <1>5, <1>6

LEMMA SameBeginning ==
  ASSUME NEW req, NEW words \in Seq(Word), NEW more \in Seq(Word),
         AnswerLength(req, words) <= Len(words),
         Len(words) <= Len(more), \A i \in 1..Len(words) : more[i] = words[i]
  PROVE  AnswerLength(req, more) = AnswerLength(req, words)
<1>1. CASE req.name \notin {"getatpspecs", "getvalidparams"}
  BY <1>1 DEF AnswerLength
<1>2. CASE req.name \in {"getatpspecs", "getvalidparams"}
  <2>1. ~(Len(words) < 3)
    <3>1. ASSUME Len(words) < 3 PROVE FALSE
      <4>1. AnswerLength(req, words) = 3
        BY <1>2, <3>1 DEF AnswerLength
      <4> QED BY <3>1, <4>1
    <3> QED BY <3>1
  <2>2. ~(Len(more) < 3)
    BY <2>1
  <2>3. more[1] = words[1] /\ more[2] = words[2] /\ more[3] = words[3]
    <3>1. 1 \in 1..Len(words) /\ 2 \in 1..Len(words) /\ 3 \in 1..Len(words)
      BY <2>1
    <3> QED BY <3>1
  <2> QED BY <2>1, <2>2, <2>3, Zenon DEF AnswerLength
<1> QED BY <1>1, <1>2

-----------------------------------------------------------------------------
(***************************************************************************)
(* The invariant of the dialogue.  The client waits for the answers to got *)
(* and then for those to the requests still on the way.  What it has not   *)
(* read, and what the server has not sent yet, are the answers to got; if  *)
(* the server is about to end in the last of them, they are all but that   *)
(* one, and a part of it that the client will not take for the whole.      *)
(***************************************************************************)
SentWhole(got, replies, msgs, part) ==
  /\ sending = msgs /\ part = <<>>
  /\ Len(got) = IF pc = "dispatch" THEN Len(replies) + 1 ELSE Len(replies)

SentPartly(got, replies, msgs, part) ==
  /\ sending = Append(msgs, Trap)
  /\ pc \in {"send", "dead"}
  /\ Len(got) = Len(replies) + 1 /\ TooShort(got[Len(replies) + 1], part)

Stream(got, replies, msgs, part) ==
  /\ got \in Seq(Arriving) /\ pending = got \o inbox
  /\ replies \in Seq(Seq(Word)) /\ msgs \in Seq(Seq(Word)) /\ part \in Seq(Word)
  /\ outbox \in Seq(Word)
  /\ outbox \o FlattenSeq(msgs) = FlattenSeq(replies) \o part
  /\ \A k \in 1..Len(replies) : IsAnswer(got[k], domArray, replies[k])
  /\ SentWhole(got, replies, msgs, part) \/ SentPartly(got, replies, msgs, part)
  /\ pc \in {"recv", "dispatch"} => sending = <<>>
  /\ pc = "dispatch" => request = got[Len(got)]
  /\ replies # <<>> => domArray # NoFile

Connection ==
  /\ client = "connected" => pc \in {"recv", "dispatch", "send", "dead"} /\ ~reset
  /\ client = "away" =>
       /\ pending = <<>> /\ inbox = <<>> /\ outbox = <<>> /\ sending = <<>> /\ ~reset
       /\ pc \notin {"recv", "dispatch", "send"}
  /\ client # "connected" => specs = <<>> /\ tuples = NoTuples

\* What the client has read belongs to the description that the server has.
Remembered ==
  /\ specs # <<>> => domArray # NoFile /\ IsSpecs(domArray, specs)
  /\ tuples.words # <<>> =>
       domArray # NoFile /\ IsTuples(domArray, tuples.domain, tuples.words)

Undisturbed == ~failed /\ ~mangled /\ client = "connected"

Conversation ==
  Undisturbed => Remembered /\ \E got, replies, msgs, part : Stream(got, replies, msgs, part)

LEMMA ConnectionStep ==
  ASSUME Connection, [Next]_vars
  PROVE  Connection'
<1> USE DEF Connection
<1>1. CASE Startup \/ RegistryLeaves
  BY <1>1 DEF Startup, RegistryLeaves, Bind, Bound, TryFails, GiveUp,
       sockets_client_connect_retry, sockets_open_registry, sockets_registry_create_entry,
       ReadCreated, sockets_close_registry, Serving, network, asking
<1>2. CASE Accept
  BY <1>2 DEF Accept, ATPS_sockets_server_accept_client, AcceptFails, Serving, network,
              asking
<1>3. CASE Receive \/ ReceiveBeginning \/ ReceiveNothing
  BY <1>3 DEF Receive, ReceiveBeginning, ReceiveNothing, network, asking
<1>4. CASE ATPS_dispatch_and_respond
  BY <1>4 DEF ATPS_dispatch_and_respond, network, asking
<1>5. CASE Send \/ Sent \/ SendKilled \/ Trapped
  BY <1>5 DEF Send, Sent, SendKilled, Trapped, Serving, network, asking
<1>6. CASE Ask \/ ReadAnswer
  BY <1>6 DEF Ask, ReadAnswer
<1>7. CASE Close \/ ResetArrives \/ Export
  BY <1>7 DEF Close, ResetArrives, Export, network, asking
<1>8. CASE UNCHANGED vars
  BY <1>8 DEF vars, network, asking
<1> QED BY <1>1, <1>2, <1>3, <1>4, <1>5, <1>6, <1>7, <1>8
        DEF Next, ATPS_receive_and_process_requests, Outside

LEMMA StreamKept ==
  ASSUME Conversation, Undisturbed' => Undisturbed,
         UNCHANGED <<pc, domArray, request, sending, inbox, outbox, pending, specs, tuples>>
  PROVE  Conversation'
<1> SUFFICES ASSUME Undisturbed'
             PROVE  Remembered' /\ \E got, replies, msgs, part : Stream(got, replies, msgs, part)'
  BY DEF Conversation
<1>1. PICK got, replies, msgs, part : Stream(got, replies, msgs, part)
  BY DEF Conversation
<1>2. Remembered /\ Remembered'
  BY DEF Conversation, Remembered
<1>3. Stream(got, replies, msgs, part)'
  BY <1>1 DEF Stream, SentWhole, SentPartly
<1> QED BY <1>2, <1>3

LEMMA AcceptStep ==
  ASSUME Connection, ATPS_sockets_server_accept_client
  PROVE  Conversation'
<1> DEFINE none == <<>>
<1>1. /\ pending' = none /\ inbox' = none /\ outbox' = none /\ sending' = none
      /\ specs' = none /\ tuples' = NoTuples /\ pc' = "recv"
  BY DEF Connection, ATPS_sockets_server_accept_client, asking
<1>2. /\ none \in Seq(Arriving) /\ none \in Seq(Seq(Word)) /\ none \in Seq(Word)
      /\ Len(none) = 0 /\ none \o none = none
  OBVIOUS
<1>3. FlattenSeq(none) = none
  BY FlattenEmpty
<1>4. NoTuples.words = none
  BY DEF NoTuples
<1> HIDE DEF none
<1>5. Remembered'
  BY <1>1, <1>4 DEF Remembered, none
<1>6. SentWhole(none, none, none, none)'
  BY <1>1, <1>2 DEF SentWhole, none
<1>7. Stream(none, none, none, none)'
  BY <1>1, <1>2, <1>3, <1>6 DEF Stream
<1> QED BY <1>5, <1>7, Zenon DEF Conversation

\* A trap is no message.
LEMMA TrapIsNone == Trap \notin Seq(Word)
<1> SUFFICES ASSUME Trap \in Seq(Word) PROVE FALSE
  OBVIOUS
<1>1. Len(Trap) = 1 /\ Trap[1] = NULL
  BY DEF Trap
<1>2. Trap[1] \in Word
  BY <1>1
<1> QED BY <1>1, <1>2, NamesAssumption DEF Word

LEMMA ReceiveStep ==
  ASSUME Inv, Conversation, Receive
  PROVE  Conversation'
<1> SUFFICES ASSUME Undisturbed'
             PROVE  Remembered' /\ \E got, replies, msgs, part : Stream(got, replies, msgs, part)'
  BY DEF Conversation
<1>1. PICK n \in 1..Len(inbox) :
        mangled' = (mangled \/ n > 1 \/ inbox' # SubSeq(inbox, n + 1, Len(inbox)))
  BY DEF Receive
<1>2. /\ pc = "recv" /\ pc' = "dispatch" /\ request' = inbox[1]
      /\ UNCHANGED <<domArray, sending, outbox, client, pending, specs, tuples, failed>>
  BY DEF Receive, asking
<1>3. inbox \in Seq(Arriving) /\ inbox # <<>>
  BY <1>1 DEF Inv, Queues
<1>4. n = 1 /\ inbox' = SubSeq(inbox, 2, Len(inbox)) /\ ~mangled
  <2>1. ~(mangled \/ n > 1 \/ inbox' # SubSeq(inbox, n + 1, Len(inbox)))
    BY <1>1, Zenon DEF Undisturbed
  <2>2. n = 1 /\ n + 1 = 2
    BY <2>1
  <2> QED BY <2>1, <2>2
<1>5. inbox' = Tail(inbox) /\ inbox[1] \in Arriving /\ Tail(inbox) \in Seq(Arriving)
  BY <1>3, <1>4, TailIsSubSeq
<1>6. Undisturbed
  BY <1>2, <1>4 DEF Undisturbed
<1>7. PICK got, replies, msgs, part : Stream(got, replies, msgs, part)
  BY <1>6 DEF Conversation
<1>8. Remembered'
  BY <1>2, <1>6 DEF Conversation, Remembered
<1>m. PICK more : more = Append(got, inbox[1])
  OBVIOUS
<1>9. sending = <<>> /\ SentWhole(got, replies, msgs, part)
  BY <1>2, <1>7 DEF Stream, SentPartly
<1>10. Len(got) = Len(replies) /\ got \in Seq(Arriving) /\ Len(replies) \in Nat
  <2>1. Len(got) = Len(replies) /\ got \in Seq(Arriving)
    BY <1>2, <1>7, <1>9 DEF Stream, SentWhole
  <2>2. Len(got) \in Nat
    BY <2>1
  <2> QED BY <2>1, <2>2
<1>11. /\ more \in Seq(Arriving) /\ Len(more) = Len(replies) + 1
       /\ more[Len(more)] = inbox[1] /\ \A k \in 1..Len(replies) : more[k] = got[k]
  <2>1. /\ more \in Seq(Arriving) /\ Len(more) = Len(got) + 1
        /\ \A k \in 1..Len(got) : more[k] = got[k]
        /\ more[Len(got) + 1] = inbox[1]
    BY <1>5, <1>10, <1>m, AppendProperties
  <2> QED BY <1>10, <2>1
<1>12. pending' = more \o inbox'
  <2>1. got \o inbox = Append(got, inbox[1]) \o Tail(inbox)
    BY <1>3, <1>10, MoveFirst
  <2>2. pending = got \o inbox
    BY <1>7 DEF Stream
  <2> QED BY <1>2, <1>5, <1>m, <2>1, <2>2, Zenon
<1>13. SentWhole(more, replies, msgs, part)'
  <2>1. sending' = msgs /\ part = <<>>
    BY <1>2, <1>9 DEF SentWhole
  <2> QED BY <1>2, <1>11, <2>1 DEF SentWhole
<1>14. \A k \in 1..Len(replies) : IsAnswer(more[k], domArray', replies[k])
  BY <1>2, <1>7, <1>11, Zenon DEF Stream
<1>15. Stream(more, replies, msgs, part)'
  <2>1. /\ replies \in Seq(Seq(Word)) /\ msgs \in Seq(Seq(Word)) /\ part \in Seq(Word)
        /\ outbox' \in Seq(Word)
        /\ outbox' \o FlattenSeq(msgs) = FlattenSeq(replies) \o part
    BY <1>2, <1>7, Zenon DEF Stream
  <2>2. /\ sending' = <<>>
        /\ request' = more[Len(more)]
        /\ replies # <<>> => domArray' # NoFile
    BY <1>2, <1>7, <1>9, <1>11, Zenon DEF Stream
  <2>3. more \in Seq(Arriving)
    BY <1>11
  <2> QED BY <1>12, <1>13, <1>14, <2>1, <2>2, <2>3 DEF Stream
<1> QED BY <1>8, <1>15

LEMMA DispatchStep ==
  ASSUME Inv, Conversation, ATPS_dispatch_and_respond
  PROVE  Conversation'
<1> SUFFICES ASSUME Undisturbed'
             PROVE  Remembered' /\ \E got, replies, msgs, part : Stream(got, replies, msgs, part)'
  BY DEF Conversation
<1>1. /\ pc = "dispatch" /\ pc' = "send"
      /\ UNCHANGED <<request, inbox, outbox, client, pending, specs, tuples, mangled>>
      /\ domArray' = IF domArray # NoFile THEN domArray ELSE file
      /\ failed' = (failed \/ domArray' = NoFile)
  BY DEF ATPS_dispatch_and_respond, load_desc_file, network, asking
<1>2. domArray' \in Files \ {NoFile} /\ (domArray # NoFile => domArray' = domArray)
  BY <1>1 DEF Undisturbed, Inv, TypeOK
<1>3. Undisturbed
  BY <1>1 DEF Undisturbed
<1>4. PICK got, replies, msgs, part : Stream(got, replies, msgs, part)
  BY <1>3 DEF Conversation
<1>5. Remembered'
  BY <1>1, <1>2, <1>3 DEF Conversation, Remembered
<1>6. sending = <<>> /\ SentWhole(got, replies, msgs, part)
  BY <1>1, <1>4 DEF Stream, SentPartly
<1>7. /\ msgs = <<>> /\ part = <<>> /\ Len(got) = Len(replies) + 1 /\ got \in Seq(Arriving)
      /\ replies \in Seq(Seq(Word)) /\ outbox \in Seq(Word)
      /\ request = got[Len(got)] /\ pending = got \o inbox
      /\ \A k \in 1..Len(replies) : IsAnswer(got[k], domArray, replies[k])
      /\ replies # <<>> => domArray # NoFile
  BY <1>1, <1>4, <1>6 DEF Stream, SentWhole
<1>8. outbox = FlattenSeq(replies)
  <2>1. outbox \o FlattenSeq(<<>>) = FlattenSeq(replies) \o <<>>
    BY <1>4, <1>7 DEF Stream
  <2>2. FlattenSeq(replies) \in Seq(Word)
    BY <1>7, FlattenType
  <2> QED BY <1>7, <2>1, <2>2, FlattenEmpty, ConcatEmptySeq
<1>9. \A k \in 1..Len(replies) : IsAnswer(got[k], domArray', replies[k])
  <2>1. CASE replies = <<>>
    BY <2>1
  <2>2. CASE replies # <<>>
    BY <1>2, <1>7, <2>2
  <2> QED BY <2>1, <2>2
<1>10. PICK answer \in Answers(request, domArray') : sending' = <<>> \o answer
  BY <1>2 DEF ATPS_dispatch_and_respond, LoadErrors
<1>11. CASE Complete(request, domArray', answer)
  <2> DEFINE words == FlattenSeq(answer)
             now == Append(replies, words)
  <2>1. answer \in Seq(Seq(Word)) /\ IsAnswer(request, domArray', words)
    BY <1>11 DEF Complete
  <2>2. sending' = answer
    BY <1>10, <2>1, ConcatEmptySeq
  <2>3. words \in Seq(Word)
    BY <2>1 DEF IsAnswer
  <2>4. outbox \o words = FlattenSeq(now) \o <<>>
    <3>1. FlattenSeq(now) = FlattenSeq(replies) \o words
      <4> HIDE DEF words
      <4> QED BY <1>7, <2>3, FlattenAppend
    <3>2. FlattenSeq(replies) \o words \in Seq(Word)
      <4> HIDE DEF words
      <4> QED BY <1>7, <1>8, <2>3, ConcatElements
    <3> HIDE DEF words, now
    <3> QED BY <1>8, <3>1, <3>2, ConcatEmptySeq
  <2>5. now \in Seq(Seq(Word)) /\ Len(now) = Len(replies) + 1
    <3> HIDE DEF words
    <3>1. Append(replies, words) \in Seq(Seq(Word)) /\ Len(Append(replies, words)) = Len(replies) + 1
      BY <1>7, <2>3, AppendProperties
    <3> QED BY <3>1
  <2>6. \A k \in 1..Len(now) : IsAnswer(got[k], domArray', now[k])
    <3>1. /\ \A k \in 1..Len(replies) : now[k] = replies[k]
          /\ now[Len(replies) + 1] = words
      <4> DEFINE S == Seq(Word)
      <4>1. replies \in Seq(S) /\ words \in S
        BY <1>7, <2>3
      <4> HIDE DEF words, S
      <4> QED BY <4>1, AppendProperties
    <3>2. Len(replies) \in Nat /\ got[Len(replies) + 1] = request
      <4>1. Len(replies) \in Nat
        <5>1. replies \in Seq(Seq(Word))
          BY <1>7
        <5> QED BY <5>1
      <4> QED BY <1>7, <4>1
    <3> SUFFICES ASSUME NEW k \in 1..Len(replies) + 1 PROVE IsAnswer(got[k], domArray', now[k])
      BY <2>5
    <3> HIDE DEF words, now
    <3>3. CASE k = Len(replies) + 1
      BY <2>1, <3>1, <3>2, <3>3
    <3>4. CASE k # Len(replies) + 1
      <4>1. k \in 1..Len(replies)
        BY <3>2, <3>4
      <4> QED BY <1>9, <3>1, <4>1
    <3> QED BY <3>3, <3>4
  <2> HIDE DEF now
  <2>7. SentWhole(got, now, answer, <<>>)'
    BY <1>1, <1>7, <2>2, <2>5 DEF SentWhole
  <2>8. <<>> \in Seq(Word)
    OBVIOUS
  <2>9. outbox' \o FlattenSeq(answer) = FlattenSeq(now) \o <<>>
    BY <1>1, <2>4
  <2> HIDE DEF words
  <2>10. Stream(got, now, answer, <<>>)'
    <3>1. outbox' \in Seq(Word) /\ pending' = got \o inbox'
      BY <1>1, <1>7
    <3> QED BY <1>1, <1>2, <1>7, <2>1, <2>5, <2>6, <2>7, <2>8, <2>9, <3>1 DEF Stream
  <2> QED BY <1>5, <2>10
<1>12. CASE BreaksOff(request, answer)
  <2>1. PICK begun \in Seq(Seq(Word)) :
          answer = Append(begun, Trap) /\ TooShort(request, FlattenSeq(begun))
    BY <1>12 DEF BreaksOff
  <2>2. sending' = Append(begun, Trap)
    <3>1. begun \in Seq(Seq(Word) \cup {Trap}) /\ Trap \in Seq(Word) \cup {Trap}
      BY <2>1
    <3>2. Append(begun, Trap) \in Seq(Seq(Word) \cup {Trap})
      BY <3>1, AppendProperties
    <3> QED BY <1>10, <2>1, <3>2, ConcatEmptySeq
  <2>3. FlattenSeq(begun) \in Seq(Word)
    BY FlattenType
  <2>4. outbox' \o FlattenSeq(begun) = FlattenSeq(replies) \o FlattenSeq(begun)
    BY <1>1, <1>8
  <2>5. got[Len(replies) + 1] = request
    BY <1>7
  <2>6. SentPartly(got, replies, begun, FlattenSeq(begun))'
    BY <1>1, <1>7, <2>1, <2>2, <2>5 DEF SentPartly
  <2>7. Stream(got, replies, begun, FlattenSeq(begun))'
    <3>1. outbox' \in Seq(Word) /\ pending' = got \o inbox' /\ pc' \notin {"recv", "dispatch"}
      BY <1>1, <1>7
    <3>2. replies # <<>> => domArray' # NoFile
      BY <1>2
    <3> QED BY <1>7, <1>9, <2>3, <2>4, <2>6, <3>1, <3>2 DEF Stream
  <2> QED BY <1>5, <2>7
<1> QED BY <1>2, <1>11, <1>12, AnswerKinds

LEMMA SendStep ==
  ASSUME Conversation, Connection, Send
  PROVE  Conversation'
<1> SUFFICES ASSUME Undisturbed'
             PROVE  Remembered' /\ \E got, replies, msgs, part : Stream(got, replies, msgs, part)'
  BY DEF Conversation
<1>1. /\ pc = "send" /\ sending # <<>> /\ Head(sending) # Trap
      /\ sending' = Tail(sending) /\ client = "connected"
      /\ outbox' = outbox \o Head(sending)
      /\ UNCHANGED <<pc, domArray, request, inbox, client, pending, specs, tuples>>
      /\ failed' = failed /\ mangled' = mangled
  BY DEF Send, Undisturbed, asking, history
<1>2. Undisturbed
  BY <1>1 DEF Undisturbed
<1>3. PICK got, replies, msgs, part : Stream(got, replies, msgs, part)
  BY <1>2 DEF Conversation
<1>4. Remembered'
  BY <1>1, <1>2 DEF Conversation, Remembered
<1>5. /\ msgs \in Seq(Seq(Word)) /\ outbox \in Seq(Word)
      /\ SentWhole(got, replies, msgs, part) \/ SentPartly(got, replies, msgs, part)
  BY <1>3 DEF Stream
<1>6. sending = msgs \/ sending = Append(msgs, Trap)
  BY <1>5 DEF SentWhole, SentPartly
<1>7. /\ Head(Append(msgs, Trap)) = IF msgs = <<>> THEN Trap ELSE Head(msgs)
      /\ Tail(Append(msgs, Trap)) = IF msgs = <<>> THEN <<>> ELSE Append(Tail(msgs), Trap)
  BY <1>5, HeadTailAppend
<1>8. msgs # <<>>
  BY <1>1, <1>6, <1>7
<1>9. PICK first, rest : first = Head(msgs) /\ rest = Tail(msgs)
  OBVIOUS
<1>10. first \in Seq(Word) /\ rest \in Seq(Seq(Word))
  BY <1>5, <1>8, <1>9, HeadTailProperties
<1>11. Head(sending) = first
  BY <1>6, <1>7, <1>8, <1>9
<1>12. SentWhole(got, replies, rest, part)' \/ SentPartly(got, replies, rest, part)'
  <2>1. CASE SentWhole(got, replies, msgs, part)
    BY <1>1, <1>9, <2>1 DEF SentWhole
  <2>2. CASE SentPartly(got, replies, msgs, part)
    <3>1. sending' = Append(rest, Trap)
      BY <1>1, <1>7, <1>8, <1>9, <2>2 DEF SentPartly
    <3> QED BY <1>1, <2>2, <3>1 DEF SentPartly
  <2> QED BY <1>5, <2>1, <2>2
<1>13. outbox' \in Seq(Word) /\ outbox' \o FlattenSeq(rest) = outbox \o FlattenSeq(msgs)
  <2>1. FlattenSeq(msgs) = first \o FlattenSeq(rest)
    BY <1>5, <1>8, <1>9, FlattenHead
  <2>2. FlattenSeq(rest) \in Seq(Word)
    BY <1>10, FlattenType
  <2>3. Associates(outbox, first, FlattenSeq(rest))
    BY <1>5, <1>10, <2>2, ConcatAssociates
  <2>4. outbox' = outbox \o first
    BY <1>1, <1>11
  <2>5. outbox \o first \in Seq(Word)
    BY <1>5, <1>10, ConcatElements
  <2> QED BY <2>1, <2>3, <2>4, <2>5, Zenon DEF Associates
<1>14. Stream(got, replies, rest, part)'
  BY <1>1, <1>3, <1>10, <1>12, <1>13 DEF Stream
<1> QED BY <1>4, <1>14

LEMMA SentStep ==
  ASSUME Conversation, Connection, Sent \/ SendKilled \/ Trapped
  PROVE  Conversation'
<1> SUFFICES ASSUME Undisturbed'
             PROVE  Remembered' /\ \E got, replies, msgs, part : Stream(got, replies, msgs, part)'
  BY DEF Conversation
<1>1. /\ pc = "send"
      /\ UNCHANGED <<domArray, request, sending, inbox, outbox, client, reset, pending,
                     specs, tuples, failed, mangled>>
      /\ \/ pc' = "recv" /\ sending = <<>>
         \/ pc' = "dead" /\ sending # <<>> /\ reset
         \/ pc' = "dead" /\ sending # <<>> /\ Head(sending) = Trap
  BY DEF Sent, SendKilled, Trapped, Serving, network, asking, history
<1>2. Undisturbed /\ ~reset
  BY <1>1 DEF Undisturbed, Connection
<1>3. PICK got, replies, msgs, part : Stream(got, replies, msgs, part)
  BY <1>2 DEF Conversation
<1>4. Remembered'
  BY <1>1, <1>2 DEF Conversation, Remembered
<1>5. CASE pc' = "recv"
  <2>1. sending = <<>>
    BY <1>1, <1>5
  <2>2. SentWhole(got, replies, msgs, part)
    <3>1. msgs \in Seq(Seq(Word)) /\ Append(msgs, Trap) # <<>>
      <4>1. msgs \in Seq(Seq(Word))
        BY <1>3 DEF Stream
      <4>2. msgs \in Seq(Seq(Word) \cup {Trap}) /\ Trap \in Seq(Word) \cup {Trap}
        BY <4>1
      <4> QED BY <4>1, <4>2, AppendProperties
    <3> QED BY <1>3, <2>1, <3>1 DEF Stream, SentPartly
  <2>3. SentWhole(got, replies, msgs, part)'
    BY <1>1, <1>5, <2>2 DEF SentWhole
  <2>4. Stream(got, replies, msgs, part)'
    BY <1>1, <1>3, <1>5, <2>1, <2>3 DEF Stream
  <2> QED BY <1>4, <2>4
<1>6. CASE pc' = "dead"
  <2>1. sending # <<>> /\ Head(sending) = Trap
    BY <1>1, <1>2, <1>6
  <2>2. SentPartly(got, replies, msgs, part)
    <3>1. ASSUME SentWhole(got, replies, msgs, part) PROVE FALSE
      <4>1. sending \in Seq(Seq(Word))
        BY <1>3, <3>1 DEF Stream, SentWhole
      <4>2. Head(sending) \in Seq(Word)
        BY <2>1, <4>1, HeadTailProperties
      <4> QED BY <2>1, <4>2, TrapIsNone
    <3> QED BY <1>3, <3>1 DEF Stream
  <2>3. SentPartly(got, replies, msgs, part)'
    BY <1>1, <1>6, <2>2 DEF SentPartly
  <2>4. Stream(got, replies, msgs, part)'
    BY <1>1, <1>3, <1>6, <2>3 DEF Stream
  <2> QED BY <1>4, <2>4
<1> QED BY <1>1, <1>5, <1>6

LEMMA AskStep ==
  ASSUME Inv, Conversation, Ask
  PROVE  Conversation'
<1> SUFFICES ASSUME Undisturbed'
             PROVE  Remembered' /\ \E got, replies, msgs, part : Stream(got, replies, msgs, part)'
  BY DEF Conversation
<1>1. PICK req \in Requests : inbox' = Append(inbox, req) /\ pending' = Append(pending, req)
  BY DEF Ask
<1>2. UNCHANGED <<pc, domArray, request, sending, outbox, client, specs, tuples, failed,
                  mangled>>
  BY DEF Ask, history
<1>3. Undisturbed
  BY <1>2 DEF Undisturbed
<1>4. PICK got, replies, msgs, part : Stream(got, replies, msgs, part)
  BY <1>3 DEF Conversation
<1>5. Remembered'
  BY <1>2, <1>3 DEF Conversation, Remembered
<1>6. pending' = got \o inbox'
  <2>1. pending = got \o inbox /\ got \in Seq(Arriving)
    BY <1>4 DEF Stream
  <2>2. inbox \in Seq(Arriving) /\ req \in Arriving
    BY DEF Inv, Queues, Arriving
  <2>3. AppendsLast(got, inbox, req)
    BY <2>1, <2>2, AppendConcat
  <2> QED BY <1>1, <2>1, <2>3, Zenon DEF AppendsLast
<1>7. Stream(got, replies, msgs, part)'
  BY <1>2, <1>4, <1>6 DEF Stream, SentWhole, SentPartly
<1> QED BY <1>5, <1>7

LEMMA ReadStep ==
  ASSUME Inv, Conversation, ReadAnswer
  PROVE  Conversation'
<1> SUFFICES ASSUME Undisturbed'
             PROVE  Remembered' /\ \E got, replies, msgs, part : Stream(got, replies, msgs, part)'
  BY DEF Conversation
<1>1. PICK req, n :
        /\ req = pending[1] /\ n = AnswerLength(req, outbox)
        /\ Len(outbox) >= n
        /\ outbox' = SubSeq(outbox, n + 1, Len(outbox))
        /\ specs' = IF req.name = "getatpspecs" THEN SubSeq(outbox, 1, n) ELSE specs
        /\ tuples' = IF req.name = "getvalidparams"
                       THEN [domain |-> req.domain, words |-> SubSeq(outbox, 1, n)]
                       ELSE tuples
  BY DEF ReadAnswer
<1>2. /\ pending # <<>> /\ pending' = Tail(pending)
      /\ UNCHANGED <<pc, domArray, request, sending, inbox, client, failed, mangled>>
  BY DEF ReadAnswer, history
<1>3. Undisturbed
  BY <1>2 DEF Undisturbed
<1>4. PICK got, replies, msgs, part : Stream(got, replies, msgs, part)
  BY <1>3 DEF Conversation
<1>5. Remembered
  BY <1>3 DEF Conversation
<1>6. /\ got \in Seq(Arriving) /\ pending = got \o inbox /\ inbox \in Seq(Arriving)
      /\ replies \in Seq(Seq(Word)) /\ msgs \in Seq(Seq(Word)) /\ part \in Seq(Word)
      /\ outbox \in Seq(Word)
  BY <1>4 DEF Stream, Inv, Queues
<1> DEFINE unsent == FlattenSeq(msgs)
<1>7. unsent \in Seq(Word) /\ outbox \o unsent = FlattenSeq(replies) \o part
  BY <1>4, <1>6, FlattenType DEF Stream
<1>8. SentWhole(got, replies, msgs, part) \/ SentPartly(got, replies, msgs, part)
  BY <1>4 DEF Stream
<1> HIDE DEF unsent
<1>9. /\ n \in Nat \ {0} /\ Len(outbox) \in Nat /\ n <= Len(outbox)
      /\ Len(outbox \o unsent) >= Len(outbox)
      /\ outbox \o unsent \in Seq(Word)
      /\ AnswerLength(req, outbox \o unsent) = n
  <2>1. n \in Nat \ {0} /\ Len(outbox) \in Nat /\ n <= Len(outbox)
    <3>1. AnswerLength(req, outbox) \in Nat \ {0}
      BY LengthPositive
    <3>2. n <= Len(outbox) /\ n = AnswerLength(req, outbox)
      BY <1>1
    <3>3. Len(outbox) \in Nat
      BY <1>6
    <3> QED BY <3>1, <3>2, <3>3
  <2>2. outbox \o unsent \in Seq(Word) /\ Joined(outbox \o unsent, outbox, unsent)
    BY <1>6, <1>7, ConcatElements, Zenon
  <2>3. Len(unsent) \in Nat
    BY <1>7
  <2> DEFINE all == outbox \o unsent
  <2>4. all \in Seq(Word) /\ Joined(all, outbox, unsent)
    BY <2>2
  <2> HIDE DEF all
  <2>5. Len(all) >= Len(outbox) /\ \A i \in 1..Len(outbox) : all[i] = outbox[i]
    BY <2>1, <2>3, <2>4 DEF Joined
  <2>6. AnswerLength(req, all) = n
    BY <1>1, <1>6, <2>1, <2>4, <2>5, SameBeginning
  <2> QED BY <2>1, <2>4, <2>5, <2>6 DEF all
<1>10. replies # <<>>
  <2> SUFFICES ASSUME replies = <<>> PROVE FALSE
    OBVIOUS
  <2>1. outbox \o unsent = part
    <3>1. FlattenSeq(replies) = <<>>
      BY FlattenEmpty
    <3> QED BY <1>6, <1>7, <3>1, ConcatEmptySeq
  <2>2. n <= Len(part) /\ Len(part) \in Nat /\ AnswerLength(req, part) = n
    BY <1>6, <1>9, <2>1
  <2>3. CASE SentWhole(got, replies, msgs, part)
    <3>1. part = <<>>
      BY <2>3 DEF SentWhole
    <3>2. Len(part) = 0
      BY <3>1
    <3> QED BY <1>9, <2>2, <3>2
  <2>4. CASE SentPartly(got, replies, msgs, part)
    <3>1. Len(replies) = 0
      OBVIOUS
    <3>2. Len(got) = 1 /\ TooShort(got[1], part)
      BY <2>4, <3>1 DEF SentPartly
    <3>3. got # <<>>
      BY <3>2
    <3>4. req = got[1]
      BY <1>1, <1>6, <3>3, TailConcat
    <3> QED BY <1>9, <2>2, <3>2, <3>4 DEF TooShort
  <2> QED BY <1>8, <2>3, <2>4
<1>11. PICK m \in Nat : m = Len(replies)
  BY <1>6
<1>12. m >= 1 /\ Len(got) >= m /\ Len(got) \in Nat
  <2>1. Len(got) >= m
    BY <1>8, <1>11 DEF SentWhole, SentPartly
  <2>2. m >= 1
    BY <1>6, <1>10, <1>11, EmptySeq
  <2> QED BY <1>6, <2>1, <2>2
<1>13. got # <<>>
  BY <1>12
<1>14. Tail(pending) = Tail(got) \o inbox /\ pending[1] = got[1]
  BY <1>6, <1>13, TailConcat
<1>15. IsAnswer(got[1], domArray, replies[1])
  BY <1>4, <1>11, <1>12 DEF Stream
<1>16. PICK first, later : first = replies[1] /\ later = Tail(replies)
  OBVIOUS
<1>17. /\ first \in Seq(Word) /\ first = Head(replies)
       /\ later \in Seq(Seq(Word)) /\ Len(later) = m - 1
       /\ \A k \in 1..m - 1 : later[k] = replies[k + 1]
  <2> DEFINE S == Seq(Word)
  <2>1. replies \in Seq(S)
    BY <1>6
  <2> HIDE DEF S
  <2>2. /\ first \in S /\ first = Head(replies)
        /\ later \in Seq(S) /\ Len(later) = m - 1
        /\ \A k \in 1..m - 1 : later[k] = replies[k + 1]
    <3>1. Head(replies) = replies[1]
      OBVIOUS
    <3> QED BY <1>10, <1>11, <1>16, <2>1, <3>1, HeadTailProperties
  <2> QED BY <2>2 DEF S
<1> DEFINE after == FlattenSeq(later) \o part
<1>18. after \in Seq(Word) /\ outbox \o unsent = first \o after
  <2>1. FlattenSeq(replies) = first \o FlattenSeq(later)
    BY <1>6, <1>10, <1>16, <1>17, FlattenHead
  <2>2. FlattenSeq(later) \in Seq(Word)
    BY <1>17, FlattenType
  <2>3. Associates(first, FlattenSeq(later), part)
    BY <1>6, <1>17, <2>2, ConcatAssociates
  <2>4. after \in Seq(Word)
    BY <1>6, <2>2, ConcatElements
  <2> QED BY <1>7, <2>1, <2>3, <2>4, Zenon DEF Associates
<1> HIDE DEF after
<1>19. n = Len(first)
  <2> DEFINE all == first \o after
  <2>1. all \in Seq(Word) /\ Joined(all, first, after)
    BY <1>17, <1>18, ConcatElements, Zenon
  <2>2. AnswerLength(req, all) = n
    BY <1>9, <1>18
  <2> HIDE DEF all
  <2>3. AnswerLength(req, first) = Len(first)
    BY <1>1, <1>14, <1>15, <1>16 DEF IsAnswer
  <2>4. Len(first) \in Nat /\ Len(after) \in Nat
    BY <1>17, <1>18
  <2>5. Len(first) <= Len(all) /\ \A i \in 1..Len(first) : all[i] = first[i]
    BY <2>1, <2>4 DEF Joined
  <2>6. AnswerLength(req, all) = AnswerLength(req, first)
    <3>1. AnswerLength(req, first) <= Len(first)
      BY <2>3, <2>4
    <3> QED BY <3>1, <1>17, <2>1, <2>3, <2>4, <2>5, SameBeginning
  <2> QED BY <2>2, <2>3, <2>6
<1>20. /\ SubSeq(outbox, 1, n) = first
       /\ outbox' \in Seq(Word) /\ outbox' \o unsent = after
  <2>1. Len(first) <= Len(outbox)
    BY <1>9, <1>19
  <2>2. PICK rest \in Seq(Word) : CutBehind(outbox, first, rest, unsent, after)
    <3>1. first \in Seq(Word) /\ after \in Seq(Word) /\ unsent \in Seq(Word)
      BY <1>7, <1>17, <1>18
    <3>2. first \o after = outbox \o unsent
      BY <1>18
    <3> QED BY <1>6, <2>1, <3>1, <3>2, CutFront
  <2> QED BY <1>1, <1>19, <2>2 DEF CutBehind
<1>21. domArray # NoFile /\ IsAnswer(req, domArray, first)
  BY <1>1, <1>4, <1>10, <1>14, <1>15, <1>16 DEF Stream
<1>22. Remembered'
  <2>1. specs' # <<>> => domArray' # NoFile /\ IsSpecs(domArray', specs')
    BY <1>1, <1>2, <1>5, <1>20, <1>21 DEF Remembered, IsAnswer
  <2>2. tuples'.words # <<>> =>
          domArray' # NoFile /\ IsTuples(domArray', tuples'.domain, tuples'.words)
    <3>1. CASE req.name = "getvalidparams"
      <4>1. tuples'.domain = req.domain /\ tuples'.words = first
        BY <1>1, <1>20, <3>1
      <4> QED BY <1>2, <1>21, <3>1, <4>1 DEF IsAnswer
    <3>2. CASE req.name # "getvalidparams"
      <4>1. tuples' = tuples
        BY <1>1, <3>2
      <4> QED BY <1>2, <1>5, <4>1 DEF Remembered
    <3> QED BY <3>1, <3>2
  <2> QED BY <2>1, <2>2 DEF Remembered
<1>23. PICK rest : rest = Tail(got)
  OBVIOUS
<1>24. /\ rest \in Seq(Arriving) /\ Len(rest) = Len(got) - 1
       /\ \A k \in 1..Len(got) - 1 : rest[k] = got[k + 1]
  BY <1>6, <1>13, <1>23, HeadTailProperties
<1>25. \A k \in 1..Len(later) : IsAnswer(rest[k], domArray', later[k])
  <2> SUFFICES ASSUME NEW k \in 1..m - 1 PROVE IsAnswer(rest[k], domArray', later[k])
    BY <1>17
  <2>1. k + 1 \in 1..m /\ k \in 1..Len(got) - 1
    BY <1>12
  <2>2. IsAnswer(got[k + 1], domArray, replies[k + 1])
    BY <1>4, <1>11, <2>1 DEF Stream
  <2>3. rest[k] = got[k + 1] /\ later[k] = replies[k + 1]
    BY <1>17, <1>24, <2>1
  <2> QED BY <1>2, <2>2, <2>3
<1>26. SentWhole(rest, later, msgs, part)' \/ SentPartly(rest, later, msgs, part)'
  <2>1. CASE SentWhole(got, replies, msgs, part)
    <3>1. Len(rest) = IF pc = "dispatch" THEN Len(later) + 1 ELSE Len(later)
      BY <1>11, <1>12, <1>17, <1>24, <2>1 DEF SentWhole
    <3> QED BY <1>2, <2>1, <3>1 DEF SentWhole
  <2>2. CASE SentPartly(got, replies, msgs, part)
    <3>1. Len(got) = m + 1 /\ TooShort(got[m + 1], part)
      BY <1>11, <2>2 DEF SentPartly
    <3>2. Len(rest) = Len(later) + 1 /\ rest[Len(later) + 1] = got[m + 1]
      <4>1. m \in 1..Len(got) - 1 /\ Len(later) + 1 = m
        BY <1>12, <1>17, <3>1
      <4> QED BY <1>24, <3>1, <4>1
    <3> QED BY <1>2, <2>2, <3>1, <3>2 DEF SentPartly
  <2> QED BY <1>8, <2>1, <2>2
<1>27. pc = "dispatch" => request = rest[Len(rest)]
  <2> SUFFICES ASSUME pc = "dispatch" PROVE request = rest[Len(rest)]
    OBVIOUS
  <2>1. request = got[Len(got)]
    BY <1>4 DEF Stream
  <2>2. Len(got) = m + 1
    BY <1>8, <1>11 DEF SentWhole, SentPartly
  <2>3. Len(got) - 1 \in 1..Len(got) - 1 /\ (Len(got) - 1) + 1 = Len(got)
    BY <1>12, <2>2
  <2> QED BY <1>24, <2>1, <2>3
<1>28. Stream(rest, later, msgs, part)'
  <2>1. pending' = rest \o inbox'
    BY <1>2, <1>14, <1>23
  <2>2. outbox' \o FlattenSeq(msgs) = FlattenSeq(later) \o part
    BY <1>20 DEF unsent, after
  <2>3. pc' \in {"recv", "dispatch"} => sending' = <<>>
    BY <1>2, <1>4 DEF Stream
  <2>4. later # <<>> => domArray' # NoFile
    BY <1>2, <1>21
  <2>5. pc' = "dispatch" => request' = rest[Len(rest)]
    BY <1>2, <1>27
  <2> QED BY <1>6, <1>17, <1>20, <1>24, <1>25, <1>26, <2>1, <2>2, <2>3, <2>4, <2>5 DEF Stream
<1> QED BY <1>22, <1>28

TalkInv == Inv /\ Connection /\ Conversation

LEMMA InitTalk == Init => TalkInv
<1> SUFFICES ASSUME Init PROVE TalkInv
  OBVIOUS
<1>1. Inv
  BY InitInv
<1>2. Connection
  BY DEF Init, Connection
<1>3. Conversation
  BY DEF Init, Conversation, Undisturbed
<1> QED BY <1>1, <1>2, <1>3 DEF TalkInv

LEMMA StepTalk == TalkInv /\ [Next]_vars => TalkInv'
<1> SUFFICES ASSUME TalkInv, [Next]_vars PROVE TalkInv'
  OBVIOUS
<1>1. Inv /\ Connection /\ Conversation
  BY DEF TalkInv
<1>2. Inv' /\ Connection'
  BY <1>1, StepInv, ConnectionStep
<1> SUFFICES Conversation'
  BY <1>2 DEF TalkInv
<1>3. CASE Startup
  <2>1. pc \notin {"recv", "dispatch", "send", "dead"} /\ client' = client
    BY <1>3 DEF Startup, Bind, TryFails, GiveUp, sockets_client_connect_retry,
                sockets_open_registry, sockets_registry_create_entry, ReadCreated,
                sockets_close_registry, Serving, network
  <2> QED BY <1>1, <2>1 DEF Connection, Conversation, Undisturbed
<1>4. CASE ATPS_sockets_server_accept_client
  BY <1>1, <1>4, AcceptStep
<1>5. CASE AcceptFails
  <2>1. pc = "accept" /\ client' = client
    BY <1>5 DEF AcceptFails, Serving, network
  <2> QED BY <1>1, <2>1 DEF Connection, Conversation, Undisturbed
<1>6. CASE Receive
  BY <1>1, <1>6, ReceiveStep
<1>7. CASE ReceiveBeginning
  BY <1>7 DEF ReceiveBeginning, Conversation, Undisturbed
<1>8. CASE ReceiveNothing \/ Close \/ ResetArrives
  BY <1>8 DEF ReceiveNothing, Close, ResetArrives, network, Conversation, Undisturbed
<1>9. CASE ATPS_dispatch_and_respond
  BY <1>1, <1>9, DispatchStep
<1>10. CASE Send
  BY <1>1, <1>10, SendStep
<1>11. CASE Sent \/ SendKilled \/ Trapped
  BY <1>1, <1>11, SentStep
<1>12. CASE Ask
  BY <1>1, <1>12, AskStep
<1>13. CASE ReadAnswer
  BY <1>1, <1>13, ReadStep
<1>14. CASE RegistryLeaves \/ Export \/ UNCHANGED vars
  <2>1. /\ Undisturbed' => Undisturbed
        /\ UNCHANGED <<pc, domArray, request, sending, inbox, outbox, pending, specs, tuples>>
    BY <1>14 DEF RegistryLeaves, Export, vars, Serving, network, asking, history, Undisturbed
  <2> QED BY <1>1, <2>1, StreamKept
<1> QED BY <1>3, <1>4, <1>5, <1>6, <1>7, <1>8, <1>9, <1>10, <1>11, <1>12, <1>13, <1>14
        DEF Next, Accept, ATPS_receive_and_process_requests, Outside

LEMMA TalkHolds == Spec => []TalkInv
BY InitTalk, StepTalk, PTL DEF Spec

-----------------------------------------------------------------------------
(***************************************************************************)
(* The words that the client has in front of it are the answers it waits   *)
(* for.                                                                    *)
(***************************************************************************)
Ends(end, reqs, words, n) ==
  /\ end = [k \in 0..n |-> end[k]]
  /\ end[0] = 0
  /\ \A k \in 1..n :
       end[k] = end[k - 1] +
                AnswerLength(reqs[k], SubSeq(words, end[k - 1] + 1, Len(words)))

LEMMA AnswersEndIs ==
  ASSUME NEW reqs, NEW words, NEW n \in Nat, Len(reqs) = n, NEW end, Ends(end, reqs, words, n)
  PROVE  AnswersEnd(reqs, words) = end[n]
<1> USE DEF Ends
<1> DEFINE NextEnd(e, k) == e + AnswerLength(reqs[k], SubSeq(words, e + 1, Len(words)))
           Rule(f) == [k \in 0..n |-> IF k = 0 THEN 0 ELSE NextEnd(f[k - 1], k)]
           g == CHOOSE f : f = [k \in 0..Len(reqs) |->
                                  IF k = 0 THEN 0
                                  ELSE f[k - 1] +
                                         AnswerLength(reqs[k],
                                                      SubSeq(words, f[k - 1] + 1, Len(words)))]
<1>1. end = Rule(end)
  <2>1. \A k \in 0..n : end[k] = IF k = 0 THEN 0 ELSE NextEnd(end[k - 1], k)
    <3> TAKE k \in 0..n
    <3>1. CASE k = 0
      BY <3>1
    <3>2. CASE k # 0
      <4>1. k \in 1..n
        BY <3>2
      <4> QED BY <3>2, <4>1
    <3> QED BY <3>1, <3>2
  <2> HIDE DEF NextEnd
  <2>2. [k \in 0..n |-> end[k]] = Rule(end)
    BY <2>1
  <2> HIDE DEF Rule
  <2> QED BY <2>2, Zenon
<1>2. g = Rule(g)
  <2>1. g = [k \in 0..Len(reqs) |->
               IF k = 0 THEN 0
               ELSE g[k - 1] + AnswerLength(reqs[k], SubSeq(words, g[k - 1] + 1, Len(words)))]
    <3>1. \E f : f = [k \in 0..Len(reqs) |->
                        IF k = 0 THEN 0
                        ELSE f[k - 1] +
                               AnswerLength(reqs[k], SubSeq(words, f[k - 1] + 1, Len(words)))]
      BY <1>1, Zenon
    <3> QED BY <3>1, Zenon
  <2> HIDE DEF g
  <2> QED BY <2>1, Zenon
<1>3. AnswersEnd(reqs, words) = g[n]
  BY Zenon DEF AnswersEnd
<1> HIDE DEF g, NextEnd
<1>4. g[0] = 0 /\ \A k \in 1..n : g[k] = NextEnd(g[k - 1], k)
  <2>1. \A k \in 0..n : Rule(g)[k] = IF k = 0 THEN 0 ELSE NextEnd(g[k - 1], k)
    OBVIOUS
  <2> HIDE DEF Rule
  <2>2. \A k \in 0..n : g[k] = IF k = 0 THEN 0 ELSE NextEnd(g[k - 1], k)
    BY <1>2, <2>1, Zenon
  <2> QED BY <2>2
<1>5. \A k \in 1..n : end[k] = NextEnd(end[k - 1], k)
  BY Zenon DEF NextEnd
<1>6. AreAlike(g, end, n)
  <2>1. GoAlike(g, end, n)
    BY <1>4, <1>5 DEF GoAlike
  <2> QED BY <2>1, AgreeAll
<1>7. g[n] = end[n]
  BY <1>6 DEF AreAlike
<1> QED BY <1>3, <1>7

LEMMA RepliesEnd ==
  ASSUME NEW got, NEW replies \in Seq(Seq(Word)), Len(got) = Len(replies),
         \A k \in 1..Len(replies) : AnswerLength(got[k], replies[k]) = Len(replies[k])
  PROVE  AnswersEnd(got, FlattenSeq(replies)) = Len(FlattenSeq(replies))
<1> DEFINE words == FlattenSeq(replies)
<1>0. PICK n \in Nat : n = Len(replies)
  OBVIOUS
<1>1. words \in Seq(Word)
  BY FlattenType
<1>2. PICK off : Places(off, replies, words)
  BY FlattenPlaces
<1> HIDE DEF words
<1>3. /\ off \in [0..n -> Nat] /\ off[0] = 0 /\ off[n] = Len(words)
      /\ \A k \in 1..n :
           /\ off[k] = off[k - 1] + Len(replies[k])
           /\ off[k] <= Len(words)
           /\ \A j \in 1..Len(replies[k]) : words[off[k - 1] + j] = replies[k][j]
  BY <1>0, <1>2, Zenon DEF Places
<1>4. off = [k \in 0..n |-> off[k]]
  BY <1>3
<1>5. ASSUME NEW k \in 1..n
      PROVE  off[k] = off[k - 1] +
                        AnswerLength(got[k], SubSeq(words, off[k - 1] + 1, Len(words)))
  <2>1. PICK at, reply : at = off[k - 1] /\ reply = replies[k]
    OBVIOUS
  <2>2. at \in Nat /\ Len(words) \in Nat
    <3>1. k - 1 \in 0..n
      OBVIOUS
    <3>2. off[k - 1] \in Nat
      BY <1>3, <3>1, Zenon
    <3> QED BY <1>1, <2>1, <3>2
  <2>3. reply \in Seq(Word) /\ Len(reply) \in Nat
    <3>1. reply \in Seq(Word)
      BY <1>0, <2>1
    <3> QED BY <3>1
  <2>4. /\ off[k] = at + Len(reply) /\ at + Len(reply) <= Len(words)
        /\ \A j \in 1..Len(reply) : words[at + j] = reply[j]
    BY <1>3, <2>1, Zenon
  <2> DEFINE rest == SubSeq(words, at + 1, Len(words))
  <2>5. /\ rest \in Seq(Word) /\ Len(reply) <= Len(rest)
        /\ \A j \in 1..Len(reply) : rest[j] = reply[j]
    <3>1. rest \in Seq(Word) /\ Len(rest) = Len(words) - at
      BY <1>1, <2>2, <2>3, <2>4
    <3>2. \A j \in 1..Len(words) - at : rest[j] = words[at + j]
      BY <1>1, <2>2, <2>3, <2>4
    <3>3. \A j \in 1..Len(reply) : j \in 1..Len(words) - at
      BY <2>2, <2>3, <2>4
    <3> HIDE DEF rest
    <3>4. \A j \in 1..Len(reply) : rest[j] = reply[j]
      BY <2>4, <3>2, <3>3, Zenon
    <3> QED BY <2>2, <2>3, <2>4, <3>1, <3>4
  <2>6. AnswerLength(got[k], reply) = Len(reply)
    BY <1>0, <2>1
  <2> HIDE DEF rest
  <2>7. AnswerLength(got[k], rest) = Len(reply)
    <3>1. AnswerLength(got[k], reply) <= Len(reply)
      BY <2>3, <2>6
    <3> QED BY <2>3, <2>5, <2>6, <3>1, SameBeginning
  <2> QED BY <2>1, <2>4, <2>7, Zenon DEF rest
<1>6. Ends(off, got, words, n)
  BY <1>3, <1>4, <1>5, Zenon DEF Ends
<1>7. AnswersEnd(got, words) = off[n]
  BY <1>0, <1>6, AnswersEndIs
<1> QED BY <1>3, <1>7 DEF words

LEMMA TalkInStep == TalkInv => AnsweredExactly
<1> SUFFICES ASSUME TalkInv, ~failed, ~mangled, pc = "recv", client = "connected"
             PROVE  Len(outbox) =
                      AnswersEnd(SubSeq(pending, 1, Len(pending) - Len(inbox)), outbox)
  BY DEF AnsweredExactly, InStep
<1>1. PICK got, replies, msgs, part : Stream(got, replies, msgs, part)
  BY DEF TalkInv, Conversation, Undisturbed
<1>2. /\ got \in Seq(Arriving) /\ pending = got \o inbox /\ inbox \in Seq(Arriving)
      /\ replies \in Seq(Seq(Word)) /\ outbox \in Seq(Word)
      /\ outbox \o FlattenSeq(msgs) = FlattenSeq(replies) \o part
      /\ \A k \in 1..Len(replies) : IsAnswer(got[k], domArray, replies[k])
  BY <1>1 DEF Stream, TalkInv, Inv, Queues
<1>3. msgs = <<>> /\ part = <<>> /\ Len(got) = Len(replies)
  BY <1>1 DEF Stream, SentWhole, SentPartly
<1>4. outbox = FlattenSeq(replies)
  <2>1. outbox \o <<>> = FlattenSeq(replies) \o <<>>
    BY <1>2, <1>3, FlattenEmpty, Zenon
  <2>2. FlattenSeq(replies) \in Seq(Word)
    BY <1>2, FlattenType
  <2> QED BY <1>2, <2>1, <2>2, ConcatEmptySeq
<1>5. SubSeq(pending, 1, Len(pending) - Len(inbox)) = got
  <2>1. /\ SubSeq(got \o inbox, 1, Len(got)) = got
        /\ Joined(got \o inbox, got, inbox)
    <3>1. got \in Seq(Arriving) /\ inbox \in Seq(Arriving)
      BY <1>2
    <3>2. SubSeq(got \o inbox, 1, Len(got)) = got
      BY <3>1, PrefixSuffix, Zenon
    <3>3. Joined(got \o inbox, got, inbox)
      BY <3>1, ConcatElements, Zenon
    <3> QED BY <3>2, <3>3, Zenon
  <2>2. Len(got) \in Nat /\ Len(inbox) \in Nat
    BY <1>2
  <2>3. SubSeq(pending, 1, Len(got)) = got /\ Len(pending) = Len(got) + Len(inbox)
    BY <1>2, <2>1, Zenon DEF Joined
  <2>4. Len(pending) - Len(inbox) = Len(got)
    BY <2>2, <2>3
  <2> QED BY <2>3, <2>4
<1>6. \A k \in 1..Len(replies) : AnswerLength(got[k], replies[k]) = Len(replies[k])
  BY <1>2 DEF IsAnswer
<1>7. AnswersEnd(got, FlattenSeq(replies)) = Len(FlattenSeq(replies))
  BY <1>2, <1>3, <1>6, RepliesEnd
<1> QED BY <1>4, <1>5, <1>7

(***************************************************************************)
(* As long as no load has failed and no request was dropped or cut, what   *)
(* the client has in front of it when the server waits for a request is    *)
(* the answers to what the server has received, in order, whole and        *)
(* nothing behind them: the lengths the client computes from the words     *)
(* (test/atpserver_test.c) are the lengths ATPS_send_atp_specs,            *)
(* ATPS_send_valid_parameters and ATPS_send_error send, for every          *)
(* description, every number of requests and every pipelining of them.     *)
(***************************************************************************)
THEOREM AnswersInStep == Spec => []AnsweredExactly
BY TalkHolds, TalkInStep, PTL

-----------------------------------------------------------------------------
(***************************************************************************)
(* A client that walks over an answer to getatpspecs finds each parameter. *)
(***************************************************************************)
NextDetails(words, at) ==
  at + 3 + IF words[at + 1] = ATP_PARAM_TYPE_RANGE THEN 3 ELSE words[at + 3]

Walks(at, words, n) ==
  /\ at[0] = 3 + 2 * words[1] + words[2]
  /\ \A k \in 1..n : at[k] = NextDetails(words, at[k - 1])

LEMMA DetailsAtIs ==
  ASSUME NEW words, NEW n \in Nat, words[2] = n, NEW at, Walks(at, words, n)
  PROVE  \A k \in 0..n : DetailsAt(words)[k + 1] = at[k]
<1> DEFINE first == 3 + 2 * words[1] + words[2]
           Rule(f) == [k \in 1..n + 1 |-> IF k = 1 THEN first ELSE NextDetails(words, f[k - 1])]
           g == CHOOSE f : f = [k \in 1..words[2] + 1 |->
                  IF k = 1 THEN 3 + 2 * words[1] + words[2]
                  ELSE f[k - 1] + 3 +
                         IF words[f[k - 1] + 1] = ATP_PARAM_TYPE_RANGE THEN 3
                         ELSE words[f[k - 1] + 3]]
           f0 == [k \in 1..n + 1 |-> at[k - 1]]
<1>1. f0 = Rule(f0)
  <2>1. \A k \in 1..n + 1 : at[k - 1] = IF k = 1 THEN first ELSE NextDetails(words, f0[k - 1])
    <3> TAKE k \in 1..n + 1
    <3>1. CASE k = 1
      BY <3>1 DEF Walks
    <3>2. CASE k # 1
      <4>1. k - 1 \in 1..n /\ k - 1 \in 1..n + 1
        BY <3>2
      <4>2. f0[k - 1] = at[(k - 1) - 1]
        BY <4>1
      <4>3. at[k - 1] = NextDetails(words, at[(k - 1) - 1])
        BY <4>1, Zenon DEF Walks
      <4> HIDE DEF f0
      <4> QED BY <3>2, <4>2, <4>3, Zenon
    <3> QED BY <3>1, <3>2
  <2> HIDE DEF first
  <2>2. [k \in 1..n + 1 |-> at[k - 1]] = Rule(f0)
    BY <2>1, Zenon
  <2> QED BY <2>2, Zenon
<1>2. g = Rule(g)
  <2>1. g = [k \in 1..words[2] + 1 |->
               IF k = 1 THEN 3 + 2 * words[1] + words[2]
               ELSE g[k - 1] + 3 +
                      IF words[g[k - 1] + 1] = ATP_PARAM_TYPE_RANGE THEN 3
                      ELSE words[g[k - 1] + 3]]
    <3>1. \E f : f = [k \in 1..words[2] + 1 |->
                        IF k = 1 THEN 3 + 2 * words[1] + words[2]
                        ELSE f[k - 1] + 3 +
                               IF words[f[k - 1] + 1] = ATP_PARAM_TYPE_RANGE THEN 3
                               ELSE words[f[k - 1] + 3]]
      <4> HIDE DEF f0
      <4> QED BY <1>1, Zenon DEF NextDetails
    <3> QED BY <3>1, Zenon
  <2> HIDE DEF g
  <2> QED BY <2>1, Zenon DEF NextDetails
<1>3. DetailsAt(words) = g
  BY Zenon DEF DetailsAt
<1> HIDE DEF g, f0
<1>4. \A k \in 1..n + 1 : g[k] = IF k = 1 THEN first ELSE NextDetails(words, g[k - 1])
  <2>1. \A k \in 1..n + 1 : Rule(g)[k] = IF k = 1 THEN first ELSE NextDetails(words, g[k - 1])
    OBVIOUS
  <2> HIDE DEF Rule, first
  <2> QED BY <1>2, <2>1, Zenon
<1> DEFINE h == [k \in 0..n |-> g[k + 1]]
<1>5. GoAlike(h, at, n)
  <2>1. h[0] = at[0]
    <3>1. 0 \in 0..n /\ 1 \in 1..n + 1 /\ 0 + 1 = 1
      OBVIOUS
    <3>2. h[0] = g[0 + 1]
      BY <3>1
    <3> HIDE DEF h
    <3> QED BY <1>4, <3>1, <3>2 DEF Walks
  <2>2. ASSUME NEW k \in 1..n, h[k - 1] = at[k - 1] PROVE h[k] = at[k]
    <3>1. /\ k \in 0..n /\ k - 1 \in 0..n /\ k + 1 \in 1..n + 1 /\ k + 1 # 1
          /\ (k + 1) - 1 = k /\ (k - 1) + 1 = k
      OBVIOUS
    <3>2. h[k] = g[k + 1] /\ h[k - 1] = g[k]
      BY <3>1
    <3>3. g[k + 1] = NextDetails(words, g[k])
      BY <1>4, <3>1
    <3>4. at[k] = NextDetails(words, at[k - 1])
      BY Zenon DEF Walks
    <3> HIDE DEF h
    <3> QED BY <2>2, <3>2, <3>3, <3>4, Zenon
  <2> HIDE DEF h
  <2> QED BY <2>1, <2>2 DEF GoAlike
<1>6. \A k \in 0..n : h[k] = g[k + 1]
  OBVIOUS
<1> HIDE DEF h
<1>7. AreAlike(h, at, n)
  BY <1>5, AgreeAll
<1> QED BY <1>3, <1>6, <1>7, Zenon DEF AreAlike

LEMMA QuotientCounts ==
  ASSUME NEW m \in Nat, NEW d \in Nat \ {0}
  PROVE  LET q == Quotient(m, d) IN q \in Nat /\ q * d <= m /\ m < (q + 1) * d
<1>1. Quotient(m, d) = m \div d
  BY DEF Quotient
<1>2. PICK q : q = m \div d
  OBVIOUS
<1>3. q \in Nat /\ q * d <= m /\ m < (q + 1) * d
  BY <1>2
<1> QED BY <1>1, <1>2, <1>3

\* The third word of a range whose limits are in order.
LEMMA ThirdCounts ==
  ASSUME NEW va \in Seq(Int), Len(va) = 3, va[1] <= va[2], va[3] > 0
  PROVE  CountsSteps(Quotient(va[2] - va[1], va[3]), va)
<1>1. PICK lo \in Int, hi \in Int, st \in Int : lo = va[1] /\ hi = va[2] /\ st = va[3]
  <2>1. va[1] \in Int /\ va[2] \in Int /\ va[3] \in Int
    OBVIOUS
  <2> QED BY <2>1
<1>2. hi - lo \in Nat /\ st \in Nat \ {0}
  BY <1>1
<1>3. PICK q : q = Quotient(hi - lo, st)
  OBVIOUS
<1>4. q \in Nat /\ q * st <= hi - lo /\ hi - lo < (q + 1) * st
  BY <1>2, <1>3, QuotientCounts
<1>5. q * st \in Int /\ (q + 1) * st \in Int
  BY <1>2, <1>4
<1>6. lo + q * st <= hi /\ hi < lo + (q + 1) * st
  BY <1>4, <1>5
<1> QED BY <1>1, <1>3, <1>6, Zenon DEF CountsSteps

\* The words of the k-th parameter's details, which begin behind the word n.
HasDetails(words, n, param) ==
  LET va == param.valueArray
  IN /\ words[n + 1] = param.paramType /\ words[n + 2] = param.defaultVal
     /\ words[n + 3] \in Int
     /\ IsEnum(param) => words[n + 3] = Len(va)
     /\ ~IsEnum(param) /\ HasTriple(param) =>
          words[n + 3] = Quotient(va[2] - va[1], va[3])
     /\ \A j \in 1..Len(va) : words[n + (3 + j)] = va[j]

LEMMA DetailsPlaces ==
  ASSUME NEW ds \in Files \ {NoFile}, ~Some(MustTrap, ds), NEW garbage \in Garbage,
         NEW words, HasSpecs(words, ds, ATP_get_total_parameter_details(ds, garbage)),
         NEW n \in Nat, n = Len(AllParams(ds))
  PROVE  \E at \in [0..n -> Nat] :
           /\ at[0] = 3 + 2 * words[1] + words[2]
           /\ \A k \in 1..n : /\ at[k] = at[k - 1] + (3 + Len(AllParams(ds)[k].valueArray))
                              /\ at[k] <= Len(words)
                              /\ HasDetails(words, at[k - 1], AllParams(ds)[k])
<1> DEFINE seqs == DetailsSeqs(ds, garbage)
           last == ATP_get_total_parameter_details(ds, garbage)
           params == AllParams(ds)
<1>0. PICK m \in Nat, base \in Nat : m = Len(ds) /\ base = 3 + m + m + n
  <2>1. PICK m \in Nat : m = Len(ds)
    BY LoadedTypes
  <2>2. 3 + m + m + n \in Nat
    OBVIOUS
  <2> QED BY <2>1, <2>2
<1>1. /\ words[1] = m /\ words[2] = n /\ Len(words) = base + Len(last)
      /\ \A j \in 1..Len(last) : words[base + j] = last[j]
  BY <1>0, Zenon DEF HasSpecs
<1>2. seqs \in Seq(Seq(Int)) /\ Len(seqs) = n
  BY DetailsType
<1>3. last = FlattenSeq(seqs)
  BY DEF ATP_get_total_parameter_details, DetailsSeqs
<1>4. PICK off : Places(off, seqs, last)
  BY <1>2, <1>3, FlattenPlaces
<1>5. last \in Seq(Int)
  BY <1>2, <1>3, FlattenType
<1>6. ASSUME NEW k \in 1..n
      PROVE  LET va == params[k].valueArray
                 d == seqs[k]
             IN /\ va \in Seq(Int)
                /\ d \in Seq(Int) /\ Len(d) = 3 + Len(va)
                /\ d[1] = params[k].paramType /\ d[2] = params[k].defaultVal
                /\ d[3] = ThirdWord(params[k], garbage)
                /\ \A j \in 1..Len(va) : d[3 + j] = va[j]
  <2>1. params[k] \in LoadedParam /\ ~MustTrap(params[k]) /\ garbage \in Int
    BY AllParamsType, GarbageAssumption DEF Some
  <2>2. seqs[k] = DetailsOf(params[k], garbage)
    BY DEF DetailsSeqs
  <2>3. params[k].valueArray \in Seq(Int)
    BY <2>1 DEF LoadedParam
  <2> HIDE DEF seqs, params
  <2>4. PICK param : param = params[k]
    OBVIOUS
  <2>5. LET va == param.valueArray
            d == DetailsOf(param, garbage)
        IN /\ d \in Seq(Int) /\ Len(d) = 3 + Len(va)
           /\ d[1] = param.paramType /\ d[2] = param.defaultVal
           /\ d[3] = ThirdWord(param, garbage)
           /\ \A j \in 1..Len(va) : d[3 + j] = va[j]
    BY <2>1, <2>4, DetailsWords
  <2> QED BY <2>2, <2>3, <2>4, <2>5, Zenon
<1> HIDE DEF seqs, last, params
<1>7. /\ off \in [0..n -> Nat] /\ off[0] = 0
      /\ \A k \in 1..n :
           /\ off[k] = off[k - 1] + Len(seqs[k])
           /\ off[k] <= Len(last)
           /\ \A j \in 1..Len(seqs[k]) : last[off[k - 1] + j] = seqs[k][j]
  BY <1>2, <1>4, Zenon DEF Places
<1> DEFINE at == [k \in 0..n |-> base + off[k]]
<1>8. at \in [0..n -> Nat] /\ at[0] = 3 + 2 * words[1] + words[2]
  <2>1. \A k \in 0..n : base + off[k] \in Nat
    BY <1>7
  <2>2. at[0] = base + off[0]
    OBVIOUS
  <2>3. at[0] = 3 + 2 * words[1] + words[2]
    BY <1>0, <1>1, <1>7, <2>2
  <2> QED BY <2>1, <2>3
<1>9. ASSUME NEW k \in 1..n
      PROVE  /\ at[k] = at[k - 1] + (3 + Len(params[k].valueArray))
             /\ at[k] <= Len(words)
             /\ HasDetails(words, at[k - 1], params[k])
  <2>1. PICK o, p, va, d : /\ o = off[k - 1] /\ p = off[k]
                           /\ va = params[k].valueArray /\ d = seqs[k]
    OBVIOUS
  <2>2. /\ va \in Seq(Int) /\ d \in Seq(Int) /\ Len(d) = 3 + Len(va)
        /\ d[1] = params[k].paramType /\ d[2] = params[k].defaultVal
        /\ d[3] = ThirdWord(params[k], garbage)
        /\ \A j \in 1..Len(va) : d[3 + j] = va[j]
    BY <1>6, <2>1
  <2>3. Len(va) \in Nat /\ Len(last) \in Nat
    BY <1>5, <2>2
  <2>4. o \in Nat /\ p \in Nat /\ at[k - 1] = base + o /\ at[k] = base + p
    <3>1. k - 1 \in 0..n /\ k \in 0..n
      OBVIOUS
    <3> QED BY <1>7, <2>1, <3>1
  <2> HIDE DEF at
  <2>5. /\ p = o + (3 + Len(va)) /\ p <= Len(last)
        /\ \A j \in 1..3 + Len(va) : last[o + j] = d[j]
    BY <1>7, <2>1, <2>2, Zenon
  <2>6. \A j \in 1..3 + Len(va) : words[(base + o) + j] = d[j]
    <3> TAKE j \in 1..3 + Len(va)
    <3>1. o + j \in 1..Len(last) /\ base + (o + j) = (base + o) + j
      BY <2>3, <2>4, <2>5
    <3>2. words[base + (o + j)] = last[o + j]
      BY <1>1, <3>1, Zenon
    <3> QED BY <2>5, <3>1, <3>2
  <2>7. /\ words[(base + o) + 1] = d[1] /\ words[(base + o) + 2] = d[2]
        /\ words[(base + o) + 3] = d[3]
    <3>1. 1 \in 1..3 + Len(va) /\ 2 \in 1..3 + Len(va) /\ 3 \in 1..3 + Len(va)
      BY <2>3
    <3> QED BY <2>6, <3>1
  <2>8. d[3] \in Int
    BY <2>2, <2>3
  <2>9. /\ IsEnum(params[k]) => d[3] = Len(va)
        /\ ~IsEnum(params[k]) /\ HasTriple(params[k]) => d[3] = Quotient(va[2] - va[1], va[3])
    BY <2>1, <2>2, Zenon DEF ThirdWord
  <2>10. ASSUME NEW j \in 1..Len(va) PROVE words[(base + o) + (3 + j)] = va[j]
    <3>1. 3 + j \in 1..3 + Len(va)
      BY <2>3
    <3> QED BY <2>2, <2>6, <3>1
  <2>11. HasDetails(words, base + o, params[k])
    BY <2>1, <2>2, <2>7, <2>8, <2>9, <2>10, Zenon DEF HasDetails
  <2>12. base + p = (base + o) + (3 + Len(va)) /\ base + p <= Len(words)
    BY <1>1, <2>3, <2>4, <2>5
  <2> QED BY <2>1, <2>4, <2>11, <2>12
<1> HIDE DEF at
<1> QED BY <1>8, <1>9, Zenon DEF params

LEMMA ParamsRead ==
  ASSUME NEW ds \in Files \ {NoFile}, ~Some(MustTrap, ds), NEW garbage \in Garbage,
         NEW words, HasSpecs(words, ds, ATP_get_total_parameter_details(ds, garbage)),
         \A k \in 1..Len(AllParams(ds)) : WellFormed(AllParams(ds)[k])
  PROVE  /\ DecodedParams(words) = AllParams(ds)
         /\ \A k \in 1..Len(AllParams(ds)) :
              LET param == AllParams(ds)[k]
              IN Upwards(param) =>
                   CountsSteps(words[DetailsAt(words)[k] + 3], param.valueArray)
<1> DEFINE params == AllParams(ds)
<1>0. PICK n \in Nat : n = Len(params)
  BY AllParamsType
<1>1. words \in Seq(Word) /\ words[2] = n
  BY <1>0, Zenon DEF HasSpecs
<1>2. params \in Seq(LoadedParam)
  BY AllParamsType
<1>3. PICK at \in [0..n -> Nat] :
        /\ at[0] = 3 + 2 * words[1] + words[2]
        /\ \A k \in 1..n : /\ at[k] = at[k - 1] + (3 + Len(params[k].valueArray))
                           /\ at[k] <= Len(words)
                           /\ HasDetails(words, at[k - 1], params[k])
  BY <1>0, DetailsPlaces
<1>4. \A k \in 1..n : WellFormed(params[k])
  BY <1>0
<1>5. /\ 3 + 2 * words[1] + words[2] \in Nat
      /\ \A k \in 1..n : words[3 + 2 * words[1] + k] = params[k].paramName
  <2>1. PICK m \in Nat : m = Len(ds)
    BY LoadedTypes
  <2>2. words[1] = m /\ \A k \in 1..n : words[3 + m + m + k] = params[k].paramName
    BY <1>0, <2>1, Zenon DEF HasSpecs
  <2>3. 3 + 2 * m + n \in Nat /\ 3 + 2 * m = 3 + m + m
    OBVIOUS
  <2> HIDE DEF params
  <2> QED BY <1>1, <2>2, <2>3
<1> HIDE DEF params
<1>6. ASSUME NEW k \in 1..n
      PROVE  /\ at[k] = NextDetails(words, at[k - 1])
             /\ words[at[k - 1] + 1] = params[k].paramType
             /\ words[at[k - 1] + 2] = params[k].defaultVal
             /\ SubSeq(words, at[k - 1] + 4, at[k]) = params[k].valueArray
  <2>1. PICK o, p, param, va :
          o = at[k - 1] /\ p = at[k] /\ param = params[k] /\ va = param.valueArray
    OBVIOUS
  <2>2. va \in Seq(Int)
    <3>1. param \in LoadedParam
      BY <1>0, <1>2, <2>1
    <3> QED BY <2>1, <3>1 DEF LoadedParam
  <2>3. PICK v \in Nat : v = Len(va)
    BY <2>2
  <2>4. o \in Nat /\ p \in Nat /\ Len(words) \in Nat
    <3>1. k - 1 \in 0..n /\ k \in 0..n
      OBVIOUS
    <3> QED BY <1>1, <1>3, <2>1, <3>1
  <2>5. p = o + (3 + v) /\ p <= Len(words) /\ HasDetails(words, o, param)
    BY <1>3, <2>1, <2>3, Zenon
  <2>6. /\ words[o + 1] = param.paramType /\ words[o + 2] = param.defaultVal
        /\ IsEnum(param) => words[o + 3] = v
        /\ \A j \in 1..v : words[o + (3 + j)] = va[j]
    BY <2>1, <2>3, <2>5, Zenon DEF HasDetails
  <2>7. Known(param) /\ (~IsEnum(param) => v = 3)
    BY <1>4, <2>1, <2>3 DEF WellFormed
  <2>8. p = NextDetails(words, o)
    <3>1. CASE IsEnum(param)
      <4>1. words[o + 1] # ATP_PARAM_TYPE_RANGE /\ words[o + 3] = v
        BY <2>6, <3>1 DEF IsEnum, ATP_PARAM_TYPE_RANGE, ATP_PARAM_TYPE_ENUM
      <4>2. NextDetails(words, o) = o + 3 + v
        BY <4>1 DEF NextDetails
      <4> QED BY <2>4, <2>5, <4>2
    <3>2. CASE ~IsEnum(param)
      <4>1. words[o + 1] = ATP_PARAM_TYPE_RANGE /\ v = 3
        BY <2>6, <2>7, <3>2 DEF IsEnum, Known
      <4>2. NextDetails(words, o) = o + 3 + 3
        BY <4>1 DEF NextDetails
      <4> QED BY <2>4, <2>5, <4>1, <4>2
    <3> QED BY <3>1, <3>2
  <2>9. SubSeq(words, o + 4, p) = va
    <3> DEFINE sub == SubSeq(words, o + 4, p)
    <3>1. sub \in Seq(Word) /\ Len(sub) = v
      BY <1>1, <2>4, <2>5
    <3>2. \A j \in 1..v : sub[j] = words[(o + 4) + j - 1]
      BY <1>1, <2>4, <2>5
    <3> HIDE DEF sub
    <3>3. \A j \in 1..v : sub[j] = va[j]
      <4> TAKE j \in 1..v
      <4>1. (o + 4) + j - 1 = o + (3 + j)
        BY <2>4
      <4> QED BY <2>6, <3>2, <4>1
    <3>4. sub = [j \in 1..v |-> sub[j]] /\ va = [j \in 1..v |-> va[j]]
      BY <2>2, <2>3, <3>1
    <3>5. sub = va
      BY <3>3, <3>4
    <3> QED BY <3>5 DEF sub
  <2> QED BY <2>1, <2>6, <2>8, <2>9
<1>7. Walks(at, words, n)
  BY <1>3, <1>6, Zenon DEF Walks
<1>8. \A k \in 0..n : DetailsAt(words)[k + 1] = at[k]
  BY <1>1, <1>7, DetailsAtIs
<1>9. ASSUME NEW k \in 1..n
      PROVE  params[k] = [paramName |-> words[3 + 2 * words[1] + k],
                          paramType |-> words[DetailsAt(words)[k] + 1],
                          defaultVal |-> words[DetailsAt(words)[k] + 2],
                          valueArray |-> SubSeq(words, DetailsAt(words)[k] + 4,
                                                DetailsAt(words)[k + 1])]
  <2>1. DetailsAt(words)[k] = at[k - 1] /\ DetailsAt(words)[k + 1] = at[k]
    <3>1. k - 1 \in 0..n /\ k \in 0..n /\ (k - 1) + 1 = k
      OBVIOUS
    <3>2. DetailsAt(words)[(k - 1) + 1] = at[k - 1] /\ DetailsAt(words)[k + 1] = at[k]
      BY <1>8, <3>1, Zenon
    <3> QED BY <3>1, <3>2, Zenon
  <2>2. params[k] = [paramName |-> params[k].paramName, paramType |-> params[k].paramType,
                     defaultVal |-> params[k].defaultVal, valueArray |-> params[k].valueArray]
    <3>1. params[k] \in LoadedParam
      BY <1>0, <1>2
    <3> QED BY <3>1 DEF LoadedParam
  <2> QED BY <1>5, <1>6, <2>1, <2>2, Zenon
<1>10. params = [k \in 1..n |-> params[k]]
  BY <1>0, <1>2
<1>11. DecodedParams(words) =
         [k \in 1..n |-> [paramName |-> words[3 + 2 * words[1] + k],
                          paramType |-> words[DetailsAt(words)[k] + 1],
                          defaultVal |-> words[DetailsAt(words)[k] + 2],
                          valueArray |-> SubSeq(words, DetailsAt(words)[k] + 4,
                                                DetailsAt(words)[k + 1])]]
  BY <1>1, Zenon DEF DecodedParams
<1>12. DecodedParams(words) = [k \in 1..n |-> params[k]]
  BY <1>9, <1>11, Zenon
<1>13. ASSUME NEW k \in 1..n, Upwards(params[k])
       PROVE  CountsSteps(words[DetailsAt(words)[k] + 3], params[k].valueArray)
  <2>1. PICK o, param, va :
          o = at[k - 1] /\ param = params[k] /\ va = param.valueArray
    OBVIOUS
  <2>2. va \in Seq(Int)
    <3>1. param \in LoadedParam
      BY <1>0, <1>2, <2>1
    <3> QED BY <2>1, <3>1 DEF LoadedParam
  <2>3. ~IsEnum(param) /\ va[1] <= va[2] /\ va[3] > 0
    BY <1>13, <2>1, Zenon DEF Upwards
  <2>4. Len(va) = 3
    BY <1>4, <2>1, <2>3, Zenon DEF WellFormed
  <2>5. words[o + 3] = Quotient(va[2] - va[1], va[3])
    <3>1. HasTriple(param)
      BY <2>1, <2>4 DEF HasTriple
    <3>2. HasDetails(words, o, param)
      BY <1>3, <2>1, Zenon
    <3> QED BY <2>1, <2>3, <3>1, <3>2, Zenon DEF HasDetails
  <2>6. DetailsAt(words)[k] = o
    <3>1. k - 1 \in 0..n /\ (k - 1) + 1 = k
      OBVIOUS
    <3>2. DetailsAt(words)[(k - 1) + 1] = at[k - 1]
      BY <1>8, <3>1, Zenon
    <3> QED BY <2>1, <3>1, <3>2, Zenon
  <2>7. CountsSteps(Quotient(va[2] - va[1], va[3]), va)
    BY <2>2, <2>3, <2>4, ThirdCounts
  <2> QED BY <2>1, <2>5, <2>6, <2>7, Zenon
<1> QED BY <1>0, <1>10, <1>12, <1>13, Zenon DEF params

LEMMA DomainsRead ==
  ASSUME NEW ds \in Files \ {NoFile}, NEW words, NEW last, HasSpecs(words, ds, last)
  PROVE  DecodedDomains(words) = [i \in 1..Len(ds) |-> <<ds[i].domName, NumParams(ds[i])>>]
<1>1. PICK m \in Nat : m = Len(ds)
  BY LoadedTypes
<1>2. /\ words[1] = m
      /\ \A i \in 1..m : words[3 + i] = NumParams(ds[i]) /\ words[3 + m + i] = ds[i].domName
  BY <1>1, Zenon DEF HasSpecs
<1>3. DecodedDomains(words) = [i \in 1..m |-> <<words[3 + m + i], words[3 + i]>>]
  BY <1>2, Zenon DEF DecodedDomains
<1>4. [i \in 1..m |-> <<words[3 + m + i], words[3 + i]>>] =
        [i \in 1..m |-> <<ds[i].domName, NumParams(ds[i])>>]
  BY <1>2, Zenon
<1> QED BY <1>1, <1>3, <1>4, Zenon

LEMMA TalkDescribes == TalkInv => SpecsDescribe
<1> SUFFICES ASSUME TalkInv, HasGoodSpecs
             PROVE  /\ DecodedDomains(specs) =
                         [i \in 1..Len(domArray) |->
                            <<domArray[i].domName, NumParams(domArray[i])>>]
                    /\ DecodedParams(specs) = AllParams(domArray)
                    /\ \A k \in 1..Len(AllParams(domArray)) :
                         LET param == AllParams(domArray)[k]
                         IN Upwards(param) =>
                              CountsSteps(specs[DetailsAt(specs)[k] + 3], param.valueArray)
  BY Zenon DEF SpecsDescribe
<1>0. /\ ~failed /\ ~mangled /\ specs # <<>>
      /\ \A k \in 1..Len(AllParams(domArray)) : WellFormed(AllParams(domArray)[k])
  BY DEF HasGoodSpecs
<1>1. Remembered /\ domArray \in Files \cup {NoFile}
  BY <1>0 DEF TalkInv, Connection, Conversation, Undisturbed, Inv, TypeOK
<1>2. PICK ds : ds = domArray
  OBVIOUS
<1>3. PICK words : words = specs
  OBVIOUS
<1>4. ds \in Files \ {NoFile} /\ IsSpecs(ds, words)
  BY <1>0, <1>1, <1>2, <1>3 DEF Remembered
<1>5. ~Some(MustTrap, ds)
  BY <1>4 DEF IsSpecs
<1>6. PICK garbage \in Garbage :
        HasSpecs(words, ds, ATP_get_total_parameter_details(ds, garbage))
  BY <1>4 DEF IsSpecs
<1>7. \A k \in 1..Len(AllParams(ds)) : WellFormed(AllParams(ds)[k])
  BY <1>0, <1>2
<1>8. /\ DecodedParams(words) = AllParams(ds)
      /\ \A k \in 1..Len(AllParams(ds)) :
           LET param == AllParams(ds)[k]
           IN Upwards(param) => CountsSteps(words[DetailsAt(words)[k] + 3], param.valueArray)
  BY <1>4, <1>5, <1>6, <1>7, ParamsRead
<1>9. DecodedDomains(words) = [i \in 1..Len(ds) |-> <<ds[i].domName, NumParams(ds[i])>>]
  BY <1>4, <1>6, DomainsRead
<1> QED BY <1>2, <1>3, <1>8, <1>9, Zenon

(***************************************************************************)
(* A client that walks over the answer to getatpspecs as                   *)
(* test/atpserver_test.c does finds every domain and every parameter of    *)
(* the server's description, with its values, for every description of     *)
(* ranges with their three values and of enums: what six functions of      *)
(* atpcommon.c count and list one by one fits together.  The third word of *)
(* a range is the number of steps that fit between its limits.             *)
(***************************************************************************)
THEOREM SpecsDescribed == Spec => []SpecsDescribe
BY TalkHolds, TalkDescribes, PTL

LEMMA AllKnown ==
  ASSUME NEW ds \in Files \ {NoFile},
         \A k \in 1..Len(AllParams(ds)) : Known(AllParams(ds)[k]),
         NEW dom \in 1..Len(ds)
  PROVE  NumKnown(ds[dom]) = NumParams(ds[dom])
<1> DEFINE seqs == ParamsOf(ds)
           ps == ds[dom].paramsArray
           params == AllParams(ds)
<1>0. PICK n \in Nat, v \in Nat : n = Len(ds) /\ v = Len(ps)
  BY LoadedTypes
<1>1. seqs \in Seq(Seq(LoadedParam)) /\ Len(seqs) = n /\ seqs[dom] = ps
  <2>1. seqs \in [1..n -> Seq(LoadedParam)]
    BY <1>0, LoadedTypes DEF ParamsOf
  <2>2. seqs[dom] = ps
    BY DEF ParamsOf
  <2> HIDE DEF seqs
  <2> QED BY <2>1, <2>2, FunctionIsSeq
<1>2. params = FlattenSeq(seqs)
  BY DEF AllParams, ParamsOf
<1>3. Len(params) \in Nat
  BY AllParamsType
<1> HIDE DEF seqs, ps, params
<1>4. PICK off : Places(off, seqs, params)
  <2>1. \E off : Places(off, seqs, FlattenSeq(seqs))
    BY <1>1, FlattenPlaces, Zenon
  <2> QED BY <1>2, <2>1, Zenon
<1>5. /\ off \in [0..n -> Nat] /\ off[dom] = off[dom - 1] + v /\ off[dom] <= Len(params)
      /\ \A j \in 1..v : params[off[dom - 1] + j] = ps[j]
  <2>1. /\ off \in [0..n -> Nat]
        /\ \A k \in 1..n : /\ off[k] = off[k - 1] + Len(seqs[k])
                           /\ off[k] <= Len(params)
                           /\ \A j \in 1..Len(seqs[k]) :
                                params[off[k - 1] + j] = seqs[k][j]
    BY <1>1, <1>4, Zenon DEF Places
  <2>2. dom \in 1..n /\ seqs[dom] = ps /\ Len(ps) = v
    BY <1>0, <1>1, Zenon
  <2> QED BY <2>1, <2>2, Zenon
<1>6. PICK o, p : o = off[dom - 1] /\ p = off[dom]
  OBVIOUS
<1>7. o \in Nat /\ p = o + v /\ p <= Len(params) /\ \A j \in 1..v : params[o + j] = ps[j]
  <2>1. dom - 1 \in 0..n
    BY <1>0
  <2> QED BY <1>5, <1>6, <2>1, Zenon
<1>8. ASSUME NEW j \in 1..v PROVE Known(ps[j])
  <2>1. o + j \in 1..Len(params)
    BY <1>3, <1>7
  <2>2. Known(params[o + j])
    BY <2>1, Zenon DEF params
  <2> QED BY <1>7, <2>2, Zenon
<1>9. {j \in 1..v : Known(ps[j])} = 1..v
  BY <1>8
<1>10. NumKnown(ds[dom]) = Cardinality(1..v)
  BY <1>0, <1>9, Zenon DEF NumKnown, NumParams, ps
<1>11. Cardinality(1..v) = v
  BY FS_Interval
<1> QED BY <1>0, <1>10, <1>11, Zenon DEF NumParams, ps

LEMMA TalkFits == TalkInv => TuplesFitSpecs
<1> SUFFICES ASSUME TalkInv, ~failed, ~mangled, specs # <<>>,
                    tuples.words # <<>>, tuples.words[2] > 0,
                    \A k \in 1..Len(AllParams(domArray)) : Known(AllParams(domArray)[k])
             PROVE  <<Named(tuples.domain), tuples.words[3]>> \in Range(DecodedDomains(specs))
  BY DEF TuplesFitSpecs
<1>1. Remembered /\ domArray \in Files \cup {NoFile}
  BY DEF TalkInv, Connection, Conversation, Undisturbed, Inv, TypeOK
<1>2. PICK ds, words, name, found :
        ds = domArray /\ words = specs /\ name = tuples.domain /\ found = tuples.words
  OBVIOUS
<1>3. ds \in Files \ {NoFile} /\ IsSpecs(ds, words) /\ IsTuples(ds, name, found)
  BY <1>1, <1>2 DEF Remembered
<1>4. PICK dom : dom = ATP_domain_find(name, ds)
  OBVIOUS
<1>5. dom \in 1..Len(ds) /\ found[3] = NumKnown(ds[dom])
  BY <1>2, <1>3, <1>4 DEF IsTuples
<1>6. Len(ds) \in Nat
  BY <1>3, LoadedTypes
<1>7. ds[dom].domName = Named(name)
  <2>1. dom # NoIndex
    BY <1>5, <1>6 DEF NoIndex
  <2> QED BY <1>4, <1>6, <2>1, DomainFind
<1>8. NumKnown(ds[dom]) = NumParams(ds[dom])
  BY <1>2, <1>3, <1>5, AllKnown
<1>9. PICK garbage \in Garbage :
        HasSpecs(words, ds, ATP_get_total_parameter_details(ds, garbage))
  BY <1>3 DEF IsSpecs
<1>10. DecodedDomains(words) = [i \in 1..Len(ds) |-> <<ds[i].domName, NumParams(ds[i])>>]
  BY <1>3, <1>9, DomainsRead
<1> DEFINE listed == [i \in 1..Len(ds) |-> <<ds[i].domName, NumParams(ds[i])>>]
<1>11. dom \in DOMAIN listed /\ listed[dom] = <<ds[dom].domName, NumParams(ds[dom])>>
  BY <1>5
<1> HIDE DEF listed
<1>12. listed[dom] \in Range(listed)
  BY <1>11, Zenon DEF Range
<1>13. <<Named(name), found[3]>> \in Range(DecodedDomains(words))
  BY <1>5, <1>7, <1>8, <1>10, <1>11, <1>12, Zenon DEF listed
<1> QED BY <1>2, <1>13, Zenon

(***************************************************************************)
(* The tuples that ATPS_send_valid_parameters sends have a value for each  *)
(* parameter that ATPS_send_atp_specs has announced for the domain, though *)
(* the application may have written another description between the two    *)
(* requests: load_desc_file loads one description for good.  Parameters of *)
(* an unknown type are left out of the tuples only, and so is the claim    *)
(* for descriptions that have one.                                         *)
(***************************************************************************)
THEOREM TuplesFit == Spec => []TuplesFitSpecs
BY TalkHolds, TalkFits, PTL
=============================================================================

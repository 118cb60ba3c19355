-------------------------- MODULE AtpLibrary_refines --------------------------
(***************************************************************************)
(* AtpLibrary implements DescriptionExport behind the barrier, for any     *)
(* processes, plan, faults and annotations.                                *)
(***************************************************************************)
EXTENDS AtpLibrary_proofs

(***************************************************************************)
(* What the proof needs beyond Shape, LockHeld and FileHeld: the process   *)
(* that comes to open the file is the first of its execution, and nobody   *)
(* is in ATP_gen_descfile who has not ended its collection.                *)
(***************************************************************************)
ExportHeld ==
  /\ exported.execution <= execution
  /\ creators = {} => exported.execution < execution
  /\ \A p \in Procs : pc[p] = "open" => exported.execution < execution
  /\ \A p \in Procs : pc[p] = "write" => exported.execution = execution
  /\ \A p \in Procs : pc[p] \in Writing => lib[p].init /\ lib[p].collection = 0

LEMMA InitExportHeld == Init => ExportHeld
BY DEF Init, ExportHeld, Writing

\* A step of p that is neither the creation of the lock file nor the opening of
\* the description.
LEMMA ExportKept ==
  ASSUME ExportHeld, NEW p \in Procs,
         UNCHANGED <<exported, execution, creators>>,
         \A q \in Procs : q # p => pc'[q] = pc[q] /\ lib'[q] = lib[q],
         pc'[p] # "open",
         pc'[p] = "write" => pc[p] = "write",
         pc'[p] \in Writing => lib'[p].init /\ lib'[p].collection = 0
  PROVE  ExportHeld'
BY DEF ExportHeld

LEMMA Modes == Shape => ATP_check_exec_mode \in {"DTA", "RAT"}
BY PlanAssumption DEF Shape, TypeOK, ATP_check_exec_mode

\* A file that its writer has not finished is not whole.
LEMMA NotWhole ==
  ASSUME Shape, FileHeld, NEW p \in Procs, pc[p] = "write"
  PROVE  ~Whole(file)
<1>1. /\ Len(file) \in Nat
      /\ Len(exported.domains) \in Nat
      /\ Len(file) < Len(exported.domains)
  BY DEF Shape, TypeOK, Libs, FileHeld
<1>2. \A i \in 1..Len(file) : file[i].last <=> i = Len(exported.domains)
  BY DEF FileHeld, OneDescription, PrintOf
<1>3. SUFFICES ASSUME Whole(file) PROVE FALSE
  OBVIOUS
<1>4. Len(file) \in 1..Len(file)
  BY <1>1, <1>3 DEF Whole, Shape, TypeOK
<1>5. file[Len(file)].last
  BY <1>3, <1>4 DEF Whole
<1> QED BY <1>1, <1>2, <1>4, <1>5

\* The last domain of a description makes the file whole.
LEMMA LastWrite ==
  ASSUME Shape, SingleWriter, FileHeld, NEW p \in Procs, WriteDomain(p),
         cursor[p] = Len(lib[p].domains)
  PROVE  Whole(file') /\ Restored(Loaded(file'), lib[p].domains)
<1> DEFINE ds == lib[p].domains
<1>1. /\ Shape' /\ FileHeld'
      /\ ds \in Seq(Domains) /\ Len(ds) \in Nat /\ ds # <<>>
      /\ exported'.domains = ds
      /\ file \in Seq(Chunks \cup {Torn})
      /\ Len(file) + 1 = Len(ds)
  <2>1. Shape' /\ FileHeld'
    BY WriteShape, WriteFileHeld
  <2>2. pc[p] = "write" /\ UNCHANGED exported
    BY DEF WriteDomain
  <2>3. ds \in Seq(Domains) /\ ds # <<>> /\ file \in Seq(Chunks \cup {Torn})
    BY <2>2 DEF Shape, TypeOK, Libs, Writing
  <2> QED BY <2>1, <2>2, <2>3 DEF FileHeld
<1>2. /\ file' \in Seq(Chunks \cup {Torn})
      /\ Len(file') <= Len(ds)
      /\ \A i \in 1..Len(file') : file'[i] # Torn /\ PrintOf(file'[i], ds, i)
  BY <1>1 DEF Shape, TypeOK, FileHeld, OneDescription
<1>3. Len(file') = Len(ds)
  <2>1. PICK chunk : file' = WriteAt(Len(file) + 1, chunk, file)
    BY <1>1 DEF WriteDomain
  <2>2. file' = Append(file, chunk)
    BY <2>1 DEF WriteAt
  <2> QED BY <1>1, <2>2
<1>4. Whole(file')
  <2>1. file' # <<>>
    BY <1>1, <1>3
  <2>2. \A i \in 1..Len(file') : file'[i].last <=> i = Len(file')
    BY <1>2, <1>3 DEF PrintOf
  <2> QED BY <1>2, <2>1, <2>2 DEF Whole
<1>5. Restored(Loaded(file'), ds)
  BY <1>1, <1>2, <1>4, WholeRestores
<1> QED BY <1>4, <1>5

\* Any other leaves it unfinished.
LEMMA OtherWrite ==
  ASSUME Shape, SingleWriter, FileHeld, NEW p \in Procs, WriteDomain(p),
         cursor[p] # Len(lib[p].domains)
  PROVE  ~Whole(file')
<1> DEFINE ds == lib[p].domains
<1>1. Shape' /\ FileHeld'
  BY WriteShape, WriteFileHeld
<1>2. pc[p] = "write" /\ pc' = [pc EXCEPT ![p] = "write"]
  BY DEF WriteDomain
<1>3. pc'[p] = "write"
  BY <1>2 DEF Shape, TypeOK
<1>4. /\ Len(file') \in Nat
      /\ Len(exported'.domains) \in Nat
      /\ Len(file') < Len(exported'.domains)
      /\ file' \in Seq(Chunks \cup {Torn})
  BY <1>1, <1>3 DEF Shape, TypeOK, Libs, FileHeld
<1>5. \A i \in 1..Len(file') : file'[i].last <=> i = Len(exported'.domains)
  BY <1>1 DEF FileHeld, OneDescription, PrintOf
<1>6. SUFFICES ASSUME Whole(file') PROVE FALSE
  OBVIOUS
<1>7. Len(file') \in 1..Len(file') /\ file'[Len(file')].last
  BY <1>4, <1>6 DEF Whole
<1> QED BY <1>4, <1>5, <1>7

-----------------------------------------------------------------------------
(***************************************************************************)
(* The steps.  Each lemma takes an action to the step of DescriptionExport *)
(* it is, or to none, and keeps ExportHeld.                                *)
(***************************************************************************)
Inv == Shape /\ LockHeld /\ FileHeld /\ ExportHeld

Implements == ExportHeld' /\ [Export!Next]_Export!vars

\* What a step does not touch.
LEMMA StoreKept ==
  ASSUME UNCHANGED <<file, exported, execution>>
  PROVE  UNCHANGED <<Store, Done>> /\ (UNCHANGED lib => UNCHANGED <<Final, Seen>>)
BY DEF Store, Done, Final, Seen, ATP_check_exec_mode

LEMMA StutterStep ==
  ASSUME Inv, UNCHANGED <<lib, pc, file, execution, creators, exported>>
  PROVE  Implements
<1>1. UNCHANGED Export!vars
  BY StoreKept DEF Export!vars
<1>2. ExportHeld'
  BY DEF Inv, ExportHeld
<1> QED BY <1>1, <1>2 DEF Implements

LEMMA DeclareStep ==
  ASSUME Inv, Barrier, NEW p \in Procs, NEW ds \in Seq(Domains), Collecting(p),
         Declared(p, ds)
  PROVE  Implements
<1> DEFINE l == [StartCollection(lib[p]) EXCEPT !.domains = ds]
<1>1. /\ TypeOK /\ lib[p] \in Libs /\ pc[p] = "app" /\ HasDomains(lib[p])
      /\ ATP_check_exec_mode = "DTA"
      /\ StartCollection(lib[p]).collection = 1
  BY DEF Inv, Shape, TypeOK, Collecting, ATP_collection_is_active
<1>2. /\ lib' = [lib EXCEPT ![p] = l]
      /\ UNCHANGED <<asked, pc, cursor, file, execution, creators, exported>>
  BY DEF Declared, Collect
<1>3. l.collection = 1
  BY <1>1, Start DEF Libs
<1> HIDE DEF l
<1>4. \A q \in Procs : lib'[q] = IF q = p THEN l ELSE lib[q]
  BY <1>1, <1>2 DEF TypeOK
<1>5. lib[p].init => lib[p].collection = 1
  BY <1>1, Start
<1>6. UNCHANGED Final
  BY <1>1, <1>2, <1>3, <1>4, <1>5 DEF Final, ATP_check_exec_mode
<1>7. UNCHANGED Seen
  BY <1>1, <1>2 DEF Seen, ATP_check_exec_mode
<1>8. UNCHANGED Export!vars
  BY <1>2, <1>6, <1>7, StoreKept DEF Export!vars
<1>9. ExportHeld'
  BY <1>1, <1>2, <1>4, ExportKept DEF Inv, Writing
<1> QED BY <1>8, <1>9 DEF Implements

LEMMA EndStep ==
  ASSUME Inv, Barrier, NEW p \in Procs, NEW ds \in Seq(Domains), ds # <<>>,
         pc[p] = "app", ATP_check_exec_mode = "DTA",
         lib[p].init => lib[p].collection = 1, EndCollection(p, ds)
  PROVE  Implements
<1> DEFINE l == ATP_collection_unset([lib[p] EXCEPT !.domains = ds])
<1>1. TypeOK /\ lib[p] \in Libs /\ AllStarted /\ lib[p].init
  BY DEF Inv, Shape, TypeOK, EndCollection, MayEnd, AllStarted
<1>2. /\ lib' = [lib EXCEPT ![p] = l]
      /\ pc' = [pc EXCEPT ![p] = "lock"]
      /\ UNCHANGED <<rrl, asked, cursor, lock, file, execution, creators, exported>>
  BY DEF EndCollection
<1>3. l.collection = 0 /\ l.init /\ l.domains = ds
  BY <1>1 DEF Libs, ATP_collection_unset
<1> HIDE DEF l
<1>4. \A q \in Procs : /\ lib'[q] = IF q = p THEN l ELSE lib[q]
                       /\ pc'[q] = IF q = p THEN "lock" ELSE pc[q]
  BY <1>1, <1>2 DEF TypeOK
<1>5. Final[p] = <<>> /\ Final'[p] = ds /\ Final' = [Final EXCEPT ![p] = ds]
  <2>1. \A q \in Procs : Final'[q] = IF q = p THEN ds ELSE Final[q]
    BY <1>2, <1>3, <1>4 DEF Final, ATP_check_exec_mode
  <2>2. Final[p] = <<>>
    BY <1>1 DEF Final
  <2>3. Final = [q \in Procs |-> Final[q]] /\ Final' = [q \in Procs |-> Final'[q]]
    BY DEF Final
  <2> HIDE DEF Final
  <2> QED BY <2>1, <2>2, <2>3
<1>6. UNCHANGED Seen
  BY <1>2 DEF Seen, ATP_check_exec_mode
<1>7. Export!End(p)
  BY <1>2, <1>5, <1>6, StoreKept DEF Export!End
<1>8. ExportHeld'
  BY <1>2, <1>3, <1>4, ExportKept DEF Inv
<1> QED BY <1>7, <1>8 DEF Implements, Export!Next

LEMMA LockStep ==
  ASSUME Inv, NEW p \in Procs, ATP_create_lockfile(p) \/ LockTaken(p) \/ OpenFails(p)
  PROVE  Implements
<1>1. TypeOK /\ pc[p] \in Writing
  BY DEF Inv, Shape, ATP_create_lockfile, LockTaken, OpenFails, Writing
<1>2. UNCHANGED <<lib, file, exported, execution>>
  BY DEF ATP_create_lockfile, LockTaken, OpenFails
<1>3. UNCHANGED Export!vars
  BY <1>2, StoreKept DEF Export!vars
<1>4. CASE ATP_create_lockfile(p)
  <2>1. creators = {}
    BY <1>1, <1>4 DEF ATP_create_lockfile, Inv, LockHeld, TypeOK, NoLock
  <2>2. \A q \in Procs : pc'[q] = IF q = p THEN "open" ELSE pc[q]
    BY <1>1, <1>4 DEF ATP_create_lockfile, TypeOK
  <2>3. creators' # {}
    BY <1>4 DEF ATP_create_lockfile
  <2>4. ExportHeld'
    BY <1>1, <1>2, <2>1, <2>2, <2>3 DEF Inv, ExportHeld
  <2> QED BY <1>3, <2>4 DEF Implements
<1>5. CASE LockTaken(p) \/ OpenFails(p)
  <2>1. \A q \in Procs : pc'[q] = IF q = p THEN "app" ELSE pc[q]
    BY <1>1, <1>5 DEF LockTaken, OpenFails, TypeOK
  <2>2. UNCHANGED creators
    BY <1>5 DEF LockTaken, OpenFails
  <2>3. ExportHeld'
    BY <1>2, <2>1, <2>2, ExportKept DEF Inv, Writing
  <2> QED BY <1>3, <2>3 DEF Implements
<1> QED BY <1>4, <1>5

LEMMA OpenStep ==
  ASSUME Inv, NEW p \in Procs, OpenDesc(p)
  PROVE  Implements
<1>1. /\ TypeOK /\ SingleWriter
      /\ pc[p] = "open" /\ p \in creators
      /\ exported.execution < execution
      /\ execution \in Nat /\ exported.execution \in Nat
      /\ lib[p].init /\ lib[p].collection = 0
  BY PlanAssumption DEF Inv, Shape, TypeOK, LockHeld, FileHeld, ExportHeld, OpenDesc, Writing
<1>2. /\ pc' = [pc EXCEPT ![p] = "write"]
      /\ file' = <<>>
      /\ exported' = [execution |-> execution, domains |-> lib[p].domains]
      /\ UNCHANGED <<lib, execution, creators>>
  BY DEF OpenDesc
<1>3. ~Whole(file')
  BY <1>2 DEF Whole
<1>4. UNCHANGED <<Final, Seen>>
  BY <1>2 DEF Final, Seen, ATP_check_exec_mode
<1>5. Export!Withdraw
  <2>1. ~Done /\ ~Done' /\ Store' = <<>>
    BY <1>1, <1>3 DEF Done, Store
  <2>2. UNCHANGED Done
    BY <1>1, <1>3 DEF Done
  <2> QED BY <1>4, <2>1, <2>2 DEF Export!Withdraw
<1>6. \A q \in Procs : pc'[q] = IF q = p THEN "write" ELSE pc[q]
  BY <1>1, <1>2 DEF TypeOK
<1>7. \A q \in Procs : q # p => pc[q] \notin {"open", "write"}
  BY <1>1 DEF Inv, FileHeld, SingleWriter
<1>8. exported'.execution = execution /\ execution' = execution
  BY <1>2
<1>9. \A q \in Procs : pc'[q] \in Writing => lib'[q].init /\ lib'[q].collection = 0
  BY <1>1, <1>2, <1>6 DEF Inv, ExportHeld
<1>10. creators' # {}
  BY <1>1, <1>2
<1>11. \A q \in Procs : pc'[q] # "open"
  BY <1>6, <1>7
<1>12. ExportHeld'
  BY <1>1, <1>8, <1>9, <1>10, <1>11 DEF ExportHeld
<1> QED BY <1>5, <1>12 DEF Implements, Export!Next

LEMMA WriteStep ==
  ASSUME Inv, NEW p \in Procs, WriteDomain(p)
  PROVE  Implements
<1> DEFINE ds == lib[p].domains
<1>1. /\ TypeOK /\ SingleWriter /\ Shape /\ FileHeld
      /\ pc[p] = "write"
      /\ exported.execution = execution
      /\ lib[p].init /\ lib[p].collection = 0 /\ ds # <<>>
  BY DEF Inv, Shape, LockHeld, ExportHeld, WriteDomain, Writing
<1>2. /\ pc' = [pc EXCEPT ![p] = IF cursor[p] = Len(ds) THEN "app" ELSE "write"]
      /\ UNCHANGED <<lib, exported, execution, creators>>
  BY DEF WriteDomain
<1>3. UNCHANGED <<Final, Seen>>
  BY <1>2 DEF Final, Seen, ATP_check_exec_mode
<1>4. ~Whole(file)
  BY <1>1, NotWhole
<1>5. ASSUME cursor[p] # Len(ds) PROVE UNCHANGED Export!vars
  <2>1. ~Whole(file')
    BY <1>1, <1>5, OtherWrite
  <2>2. UNCHANGED <<Store, Done>>
    BY <1>4, <2>1 DEF Store, Done
  <2> QED BY <1>3, <2>2 DEF Export!vars
<1>6. ASSUME cursor[p] = Len(ds) PROVE Export!Publish(p)
  <2>1. Whole(file') /\ Restored(Loaded(file'), ds)
    BY <1>1, <1>6, LastWrite
  <2>2. Store' # <<>>
    <3>1. file' \in Seq(Chunks \cup {Torn})
      BY <1>1, WriteShape DEF Shape, TypeOK
    <3>2. Loaded(file') # <<>>
      BY <2>1, <3>1, LoadedType
    <3> QED BY <2>1, <3>2 DEF Store
  <2>3. ATP_check_exec_mode = "DTA"
    BY <1>1, Modes DEF FileHeld, Writing
  <2>4. Final[p] = ds
    BY <1>1, <2>3 DEF Final
  <2>5. ~Done /\ Done' = TRUE
    BY <1>1, <1>2, <1>4, <2>1 DEF Done
  <2>6. Store' = Loaded(file')
    BY <2>1 DEF Store
  <2> QED BY <1>1, <1>3, <2>1, <2>2, <2>4, <2>5, <2>6 DEF Export!Publish
<1>7. [Export!Next]_Export!vars
  BY <1>5, <1>6 DEF Export!Next
<1>8. \A q \in Procs : q # p => pc'[q] = pc[q] /\ lib'[q] = lib[q]
  BY <1>1, <1>2 DEF TypeOK
<1>9. pc'[p] # "open"
  BY <1>1, <1>2 DEF TypeOK
<1>10. ExportHeld'
  BY <1>1, <1>2, <1>8, <1>9, ExportKept DEF Inv
<1> QED BY <1>7, <1>10 DEF Implements

LEMMA LoadStep ==
  ASSUME Inv, NEW p \in Procs, load_desc_file(p)
  PROVE  Implements
<1> DEFINE ds == Loaded(file)
           l == ATP_collection_unset([ATP_init(lib[p]) EXCEPT !.domains = ds])
<1>1. /\ TypeOK /\ ATP_check_exec_mode = "RAT" /\ ~lib[p].init /\ pc[p] = "app"
      /\ Whole(file) /\ file \in Seq(Chunks \cup {Torn})
  BY DEF Inv, Shape, TypeOK, load_desc_file
<1>2. /\ lib' = [lib EXCEPT ![p] = l]
      /\ UNCHANGED <<pc, file, execution, creators, exported>>
  BY DEF load_desc_file
<1>3. l.init /\ l.domains = ds
  BY <1>1 DEF ATP_init, ATP_collection_unset, TypeOK, Libs
<1>4. ds # <<>>
  BY <1>1, LoadedType
<1> HIDE DEF l, ds
<1>5. \A q \in Procs : lib'[q] = IF q = p THEN l ELSE lib[q]
  BY <1>1, <1>2 DEF TypeOK
<1>6. Store = ds
  BY <1>1 DEF Store, ds
<1>7. UNCHANGED Final
  BY <1>1, <1>2 DEF Final, ATP_check_exec_mode
<1>8. Seen[p] = <<>> /\ Seen' = [Seen EXCEPT ![p] = ds]
  <2>1. \A q \in Procs : Seen'[q] = IF q = p THEN ds ELSE Seen[q]
    BY <1>1, <1>2, <1>3, <1>5 DEF Seen, ATP_check_exec_mode
  <2>2. Seen[p] = <<>>
    BY <1>1 DEF Seen
  <2>3. Seen = [q \in Procs |-> Seen[q]] /\ Seen' = [q \in Procs |-> Seen'[q]]
    BY DEF Seen
  <2> HIDE DEF Seen
  <2> QED BY <2>1, <2>2, <2>3
<1>9. Export!Load(p)
  BY <1>2, <1>4, <1>6, <1>7, <1>8, StoreKept DEF Export!Load
<1>10. ExportHeld'
  BY <1>1, <1>2, <1>5, ExportKept DEF Inv, Writing
<1> QED BY <1>9, <1>10 DEF Implements, Export!Next

LEMMA GoneStep ==
  ASSUME Inv, NEW p \in Procs, Gone(p)
  PROVE  Implements
<1>1. TypeOK
  BY DEF Inv, Shape
<1>2. UNCHANGED <<file, execution, creators, exported>>
  BY DEF Gone
<1>3. \A q \in Procs : /\ lib'[q] = IF q = p THEN FreshLib ELSE lib[q]
                       /\ pc'[q] = IF q = p THEN "down" ELSE pc[q]
  BY <1>1 DEF Gone, TypeOK
<1>4. Final' = [Final EXCEPT ![p] = <<>>]
  <2>1. \A q \in Procs : Final'[q] = IF q = p THEN <<>> ELSE Final[q]
    BY <1>2, <1>3 DEF Final, ATP_check_exec_mode, FreshLib
  <2>2. Final = [q \in Procs |-> Final[q]] /\ Final' = [q \in Procs |-> Final'[q]]
    BY DEF Final
  <2> HIDE DEF Final
  <2> QED BY <2>1, <2>2
<1>5. Seen' = [Seen EXCEPT ![p] = <<>>]
  <2>1. \A q \in Procs : Seen'[q] = IF q = p THEN <<>> ELSE Seen[q]
    BY <1>2, <1>3 DEF Seen, ATP_check_exec_mode, FreshLib
  <2>2. Seen = [q \in Procs |-> Seen[q]] /\ Seen' = [q \in Procs |-> Seen'[q]]
    BY DEF Seen
  <2> HIDE DEF Seen
  <2> QED BY <2>1, <2>2
<1>6. Export!Leave(p)
  BY <1>2, <1>4, <1>5, StoreKept DEF Export!Leave
<1>7. ExportHeld'
  BY <1>2, <1>3, ExportKept DEF Inv, Writing
<1> QED BY <1>6, <1>7 DEF Implements, Export!Next

LEMMA RelaunchStep ==
  ASSUME Inv, Relaunch
  PROVE  Implements
<1>1. /\ TypeOK /\ \A p \in Procs : ~lib[p].init
      /\ execution \in Nat /\ exported.execution \in Nat
      /\ exported.execution <= execution
  BY PlanAssumption DEF Inv, Shape, TypeOK, ExportHeld, Relaunch, AllDown
<1>2. /\ execution' = execution + 1
      /\ pc' = [p \in Procs |-> "app"]
      /\ UNCHANGED <<lib, file, exported>>
  BY DEF Relaunch
<1>3. /\ \A p \in Procs : Final[p] = <<>> /\ Seen[p] = <<>>
      /\ UNCHANGED <<Final, Seen>>
  BY <1>1, <1>2 DEF Final, Seen
<1>4. UNCHANGED Store /\ Done' = FALSE
  BY <1>1, <1>2 DEF Store, Done
<1>5. Export!Relaunch
  BY <1>3, <1>4 DEF Export!Relaunch
<1>6. ExportHeld'
  BY <1>1, <1>2 DEF ExportHeld, Writing
<1> QED BY <1>5, <1>6 DEF Implements, Export!Next

LEMMA NextStep ==
  ASSUME Barrier, ~Served, Inv, [Next]_vars
  PROVE  Implements
<1>1. TypeOK /\ Shape
  BY DEF Inv, Shape
<1>2. ASSUME NEW p \in Procs, Declare(p) PROVE Implements
  <2>1. HasDomains(lib[p])
    BY <1>1 DEF Shape
  <2>2. Collecting(p)
    BY <1>1, <1>2, <2>1, DeclareOutcome
  <2>3. PICK ds \in Seq(Domains) : ds # <<>> /\ (Declared(p, ds) \/ EndCollection(p, ds))
    BY <1>1, <1>2, <2>1, DeclareOutcome
  <2>4. CASE Declared(p, ds)
    BY <2>2, <2>4, DeclareStep
  <2>5. CASE EndCollection(p, ds)
    <3>1. lib[p].init => lib[p].collection = 1
      BY <1>1, <2>1, <2>2, Start DEF Collecting, ATP_collection_is_active, TypeOK
    <3>2. pc[p] = "app" /\ ATP_check_exec_mode = "DTA"
      BY <2>2 DEF Collecting
    <3> QED BY <2>3, <2>5, <3>1, <3>2, EndStep
  <2> QED BY <2>3, <2>4, <2>5
<1>3. ASSUME NEW p \in Procs, atp_end_collection(p) PROVE Implements
  <2>1. /\ pc[p] = "app" /\ ATP_check_exec_mode = "DTA"
        /\ lib[p].collection = 1 /\ EndCollection(p, lib[p].domains)
    BY <1>3 DEF atp_end_collection, ATP_collection_is_active
  <2>2. lib[p].domains \in Seq(Domains) /\ lib[p].domains # <<>>
    BY <1>1, <2>1 DEF Shape, HasDomains, TypeOK, Libs
  <2> QED BY <2>1, <2>2, EndStep
<1>4. ASSUME NEW p \in Procs, ATP_gen_descfile(p) \/ OpenFails(p) PROVE Implements
  BY <1>4, LockStep, OpenStep, WriteStep DEF ATP_gen_descfile
<1>5. ASSUME NEW p \in Procs, load_desc_file(p) PROVE Implements
  BY <1>5, LoadStep
<1>6. ASSUME NEW p \in Procs,
             Exit(p) \/ Kill(p) \/ SegFault(p) \/ OpenCrashes(p)
      PROVE Implements
  BY <1>6, GoneStep DEF Exit, Kill, SegFault, OpenCrashes
<1>7. CASE Relaunch
  BY <1>7, RelaunchStep
<1>8. CASE \/ ServerLoads \/ Terminated \/ UNCHANGED vars
           \/ \E p \in Procs, g \in Gets : atp_param_get(p, g)
  <2>1. UNCHANGED <<lib, pc, file, execution, creators, exported>>
    BY <1>8 DEF ServerLoads, Terminated, vars, atp_param_get
  <2> QED BY <2>1, StutterStep
<1> QED BY <1>2, <1>3, <1>4, <1>5, <1>6, <1>7, <1>8 DEF Next, Fault

LEMMA InitMaps == Init => Export!Init
<1> SUFFICES ASSUME Init PROVE Export!Init
  OBVIOUS
<1>1. Final = [p \in Procs |-> <<>>] /\ Seen = [p \in Procs |-> <<>>]
  BY DEF Init, FreshLib, Final, Seen
<1>2. Store = <<>> /\ Done = FALSE
  BY DEF Init, Whole, Store, Done
<1> QED BY <1>1, <1>2 DEF Export!Init

\* Behind the barrier and without a server the lock file, the truncation, the writing domain by domain,
\* the loads, the kills and the launches of the processes are the steps of
\* DescriptionExport: one process publishes, whole and once, and what is loaded is
\* what is published (ATP_gen_descfile and load_desc_file).
THEOREM Refinement == Barrier /\ ~Served /\ Spec => PublishedOnce
<1>1. ASSUME Barrier, ~Served PROVE Spec => PublishedOnce
  <2>1. Init => Shape /\ LockHeld /\ FileHeld /\ ExportHeld
    BY InitShape, InitLockHeld, InitFileHeld, InitExportHeld
  <2>2. Shape /\ LockHeld /\ FileHeld /\ ExportHeld /\ [Next]_vars
          => (Shape /\ LockHeld /\ FileHeld /\ ExportHeld)'
    BY <1>1, NextShape, NextLockHeld, NextFileHeld, NextStep DEF Inv, Implements
  <2>3. Shape /\ LockHeld /\ FileHeld /\ ExportHeld /\ [Next]_vars
          => [Export!Next]_Export!vars
    BY <1>1, NextStep DEF Inv, Implements
  <2> QED BY <2>1, <2>2, <2>3, InitMaps, PTL DEF Spec, PublishedOnce, Export!Spec
<1> QED BY <1>1
=============================================================================

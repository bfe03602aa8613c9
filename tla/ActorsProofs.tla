----------------------------- MODULE ActorsProofs ------------------------------
(***************************************************************************)
(* Actors implements Membership, for any number of callers, rows, people   *)
(* and spellings, over both repositories.                                  *)
(*                                                                         *)
(* The argument: what a request has read is still so when it writes,       *)
(* unless it is marked as overtaken, and then its write is where the       *)
(* refinement stops.  A transfer between its writes relies on what it has  *)
(* read as well, and nobody else writes that until it is done.  The ledger *)
(* has an invariant of its own, which such a write does not end.           *)
(***************************************************************************)
EXTENDS Actors, TLAPS

\* In no row a person is spelled in two ways.
Apart(forms) == \A f, g \in forms : Of[f] # "" /\ Of[f] = Of[g] => f = g
ApartAtFirst == \A f \in Initial : \A t \in Task : Apart(f[t])

-----------------------------------------------------------------------------
(* The inductive invariant. *)

\* A request has the fields of a request.
Shaped(j) ==
  /\ j = [op |-> j.op, pc |-> j.pc, task |-> j.task, who |-> j.who, to |-> j.to,
          row |-> j.row, forms |-> j.forms, plan |-> j.plan, was |-> j.was,
          read |-> j.read, overtaken |-> j.overtaken]
  /\ j.overtaken \in BOOLEAN

Handlers == {"add", "transfer", "remove", "execute"}
Arguments(j) ==
  /\ j.op \in Handlers /\ j.task \in Task
  /\ j.op \in {"add", "remove"} => j.who \subseteq User
  /\ j.op = "transfer" => (\E u \in User : j.who = {u}) /\ j.to \in User

\* What the next definitions are about: a request j, and the tables, which are
\* parameters so that they can be those of the next state; here is who is on
\* each row.
Loaded == [t \in Task |-> Present(t)]

Leaving(j, here) == {p \in dedupStrs(here[j.task]) : Of[p] \in j.who}

\* The row and its participants have been read, or everything has.
OnRow(j) == TaskRow(j.task) \in j.read /\ ActorRows(j.task) \in j.read
OnAll(j) == \A t \in Task : TaskRow(t) \in j.read /\ ActorRows(t) \in j.read

\* Whom the last write of a transfer leaves on the row.
Left(j, forms) ==
  /\ forms # {}
  /\ People(forms) = Handed(j)
  /\ ApartAtFirst => Apart(forms)

Hop(row) == [row EXCEPT !.hops = @ + 1]
Deleting(j, here) == RemoveTaskActor(j.task, ActorDeleteForms(Leaving(j, here)))
Adding(j) == AddTaskActor(j.task, {j.to})
Updating(j, now, forms) == UpdateTask(j.task, Hop(now[j.task]), forms)

\* A transfer before its first, second and third write.
Before1(j, now, here, forms) ==
  /\ j.plan = <<Deleting(j, here), Adding(j), Updating(j, now, forms)>>
  /\ j.was = People(here[j.task]) /\ j.who \subseteq j.was
Before2(j, now, here, forms) ==
  /\ j.plan = <<Adding(j), Updating(j, now, forms)>>
  /\ People(here[j.task]) = j.was \ j.who
Before3(j, now, here, forms) ==
  /\ j.plan = <<Updating(j, now, forms)>>
  /\ People(here[j.task]) = Handed(j)
PlannedTransfer(j, now, here) ==
  /\ OnRow(j) /\ now[j.task].open
  /\ j.to \notin j.was \ j.who
  /\ \E forms \in SUBSET Form :
       /\ Left(j, forms)
       /\ \/ Before1(j, now, here, forms)
          \/ Before2(j, now, here, forms)
          \/ Before3(j, now, here, forms)

Done(j, now) == Completed(now[j.task])
PlannedExecute(j, now, here) ==
  /\ OnAll(j)
  /\ \/ /\ now[j.task].open
        /\ j.plan = <<UpdateTask(j.task, Done(j, now), here[j.task]),
                      UpdateInstance([now EXCEPT ![j.task] = Done(j, now)], here)>>
     \/ j.plan = <<UpdateInstance(now, here)>>

PlannedAdd(j, s, here) ==
  \/ s = "jdbc" /\ ActorRows(j.task) \in j.read
     /\ j.plan = <<AddTaskActor(j.task, j.who \ People(here[j.task]))>>
  \/ s = "memory" /\ j.plan = <<AddTaskActor(j.task, j.who)>>

PlannedRemove(j, now, here) ==
  /\ OnRow(j) /\ now[j.task].open
  /\ Leaving(j, here) # {} /\ Remaining(j, dedupStrs(here[j.task])) # {}
  /\ j.plan = <<Deleting(j, here)>>

\* What a request that is not overtaken can rely on.
Planned(j, s, now, here) ==
  /\ j.op = "add" => PlannedAdd(j, s, here)
  /\ j.op = "remove" => PlannedRemove(j, now, here)
  /\ j.op = "transfer" => PlannedTransfer(j, now, here)
  /\ j.op = "execute" => PlannedExecute(j, now, here)

Reading(j, s, now, here) ==
  LET t == j.task IN
  /\ j.pc \in {"joined", "actors", "existing", "instance"} /\ j.op # "add" =>
       OnRow(j) /\ now[t].open /\ j.row = now[t]
  /\ j.pc = "existing" => s = "jdbc"
  /\ j.pc \in {"actors", "instance"} => j.forms = here[t]
  /\ j.pc = "existing" /\ j.op = "transfer" =>
       j.forms = dedupStrs(here[t]) /\ MayTransfer(j, dedupStrs(here[t]))

Steps == {"idle", "task", "joined", "actors", "existing", "instance", "write"}
Route(j) ==
  /\ j.pc \in Steps
  /\ j.pc # "idle" => Arguments(j)
  /\ j.pc \in {"task", "joined", "actors"} => j.op # "add"
  /\ j.pc = "instance" => j.op = "execute"
  /\ j.pc = "existing" => j.op \in {"add", "transfer"}
Relies(j, s, now, here) ==
  Reading(j, s, now, here) /\ (j.pc = "write" => Planned(j, s, now, here))
JobOK(j, s, now, here) ==
  /\ Shaped(j) /\ Route(j)
  /\ ~j.overtaken => Relies(j, s, now, here)
  /\ MidTransfer(j) => ~j.overtaken

TablesOK ==
  /\ store \in {"memory", "jdbc"}
  /\ task \in [Task -> [open : BOOLEAN, hops : Nat]]
  /\ rows \in [Task -> [Form -> {0, 1}]]
  /\ ApartAtFirst => \A t \in Task : Apart(Present(t))

\* One transfer of a row at a time is between its writes.
OneAtATime ==
  \A c, d \in Client : MidTransfer(job[c]) /\ MidTransfer(job[d]) /\ job[c].task = job[d].task => c = d

Inv ==
  /\ TablesOK
  /\ job = [c \in Client |-> job[c]] /\ \A c \in Client : JobOK(job[c], store, task, Loaded)
  /\ OneAtATime

IInv == disturbed \in BOOLEAN /\ (disturbed \/ Inv)

-----------------------------------------------------------------------------
(* Spellings. *)

LEMMA UserForms ==
  /\ User \subseteq Form /\ \A u \in User : Of[u] = u /\ u # ""
  /\ \A f \in Form : Of[f] \in User \union {""}
  /\ \A f \in Form : Of[f] # "" => f # ""
  BY SpellingAssumption

LEMMA PersonIn ==
  ASSUME NEW forms, NEW u
  PROVE  u \in People(forms) <=> u # "" /\ \E f \in forms : Of[f] = u
  BY DEF People

LEMMA PeopleOf ==
  ASSUME NEW forms \in SUBSET Form
  PROVE  People(forms) \subseteq User
  <1> SUFFICES ASSUME NEW u \in People(forms) PROVE u \in User
    OBVIOUS
  <1>1. PICK f \in forms : Of[f] = u /\ u # ""
    BY PersonIn
  <1> QED
    BY <1>1, UserForms

LEMMA PeopleKnown ==
  ASSUME NEW forms \in SUBSET Form
  PROVE  People(dedupStrs(forms)) = People(forms)
  <1>1. ASSUME NEW u PROVE u \in People(dedupStrs(forms)) <=> u \in People(forms)
    <2>1. u \in People(dedupStrs(forms)) <=> u # "" /\ \E f \in dedupStrs(forms) : Of[f] = u
      BY PersonIn
    <2>2. u \in People(forms) <=> u # "" /\ \E f \in forms : Of[f] = u
      BY PersonIn
    <2>3. \A f \in forms : Of[f] # "" => f \in dedupStrs(forms)
      BY UserForms DEF dedupStrs
    <2> QED
      BY <2>1, <2>2, <2>3 DEF dedupStrs
  <1> QED
    BY <1>1

LEMMA PeopleUnion ==
  ASSUME NEW forms \in SUBSET Form, NEW people \in SUBSET User
  PROVE  People(forms \union people) = People(forms) \union people
  <1>1. ASSUME NEW u PROVE u \in People(forms \union people) <=> u \in People(forms) \union people
    <2>1. u \in People(forms \union people) <=> u # "" /\ \E f \in forms \union people : Of[f] = u
      BY PersonIn
    <2>2. u \in People(forms) <=> u # "" /\ \E f \in forms : Of[f] = u
      BY PersonIn
    <2>3. u \in people <=> u # "" /\ \E f \in people : Of[f] = u
      BY UserForms
    <2> QED
      BY <2>1, <2>2, <2>3
  <1> QED
    BY <1>1

\* What is deleted are those who leave, in all their spellings.
LEMMA PeopleDeleted ==
  ASSUME NEW forms \in SUBSET Form, NEW who,
         NEW gone, gone = ActorDeleteForms({p \in dedupStrs(forms) : Of[p] \in who})
  PROVE  /\ gone \subseteq Form
         /\ People(forms \ gone) = People(forms) \ who
  <1> DEFINE leaving == {p \in dedupStrs(forms) : Of[p] \in who}
  <1>1. leaving \subseteq forms /\ \A p \in leaving : Of[p] \in who
    BY DEF dedupStrs
  <1>2. \A f \in forms : Of[f] # "" /\ Of[f] \in who => f \in leaving
    BY UserForms DEF dedupStrs
  <1> HIDE DEF leaving
  <1>3. gone = {f \in leaving : Of[f] # ""} \union People(leaving)
    BY DEF ActorDeleteForms, leaving
  <1>4a. leaving \in SUBSET Form
    BY <1>1
  <1>4b. \A u : u \in People(leaving) => u \in who
    BY <1>1, PersonIn
  <1>4. People(leaving) \subseteq User /\ People(leaving) \subseteq who
    BY <1>4a, <1>4b, PeopleOf
  <1>5. \A f \in forms : f \in gone <=> Of[f] # "" /\ Of[f] \in who
    <2> TAKE f \in forms
    <2>1. CASE f \in leaving
      BY <2>1, <1>1, <1>3, <1>4, UserForms
    <2>2. CASE f \notin leaving
      BY <2>2, <1>2, <1>3, <1>4, UserForms
    <2> QED
      BY <2>1, <2>2
  <1>6. gone \subseteq Form
    BY <1>1, <1>3, <1>4, UserForms
  <1>7. ASSUME NEW u PROVE u \in People(forms \ gone) <=> u \in People(forms) \ who
    <2>1. u \in People(forms \ gone) <=> u # "" /\ \E f \in forms \ gone : Of[f] = u
      BY PersonIn
    <2>2. u \in People(forms) <=> u # "" /\ \E f \in forms : Of[f] = u
      BY PersonIn
    <2> QED
      BY <2>1, <2>2, <1>5
  <1> QED
    BY <1>6, <1>7

LEMMA ApartSubset ==
  ASSUME NEW forms, NEW less \in SUBSET forms, Apart(forms)
  PROVE  Apart(less)
  BY DEF Apart

LEMMA ApartUnion ==
  ASSUME NEW forms \in SUBSET Form, NEW people \in SUBSET User, Apart(forms),
         people \intersect People(forms) = {}
  PROVE  Apart(forms \union people)
  <1> SUFFICES ASSUME NEW f \in forms \union people, NEW g \in forms \union people,
                      Of[f] # "", Of[f] = Of[g]
               PROVE  f = g
    BY DEF Apart
  <1>1. CASE f \in forms /\ g \in forms
    BY <1>1 DEF Apart
  <1>2. CASE f \in people /\ g \in people
    BY <1>2, UserForms
  <1>3. CASE f \in forms /\ g \in people
    <2>1. Of[f] \in People(forms)
      BY <1>3, PersonIn
    <2> QED
      BY <1>3, <2>1, UserForms
  <1>4. CASE f \in people /\ g \in forms
    <2>1. Of[g] \in People(forms)
      BY <1>4, PersonIn
    <2> QED
      BY <1>4, <2>1, UserForms
  <1> QED
    BY <1>1, <1>2, <1>3, <1>4

LEMMA PresentForms == \A t : Present(t) \subseteq Form
  BY DEF Present

LEMMA OncePresent ==
  ASSUME NEW t \in Task, rows \in [Task -> [Form -> {0, 1}]]
  PROVE  Once(Present(t)) = rows[t]
  <1>1. \A f \in Form : f \in Present(t) <=> rows[t][f] = 1
    BY DEF Present
  <1> QED
    BY <1>1 DEF Once

LEMMA PresentOnce ==
  ASSUME NEW t \in Task, NEW forms \in SUBSET Form, rows[t] = Once(forms)
  PROVE  Present(t) = forms
  BY DEF Present, Once

-----------------------------------------------------------------------------
(* The first state, and steps that only read. *)

LEMMA IdleOK ==
  ASSUME NEW s, NEW now, NEW here
  PROVE  JobOK(Idle, s, now, here)
  BY DEF JobOK, Idle, Shaped, Relies, Reading, Route, Steps, MidTransfer

\* Reading more, and being overtaken, change no other field.
LEMMA Reread ==
  ASSUME NEW j, Shaped(j), NEW objects,
         NEW k, k = [j EXCEPT !.read = @ \union objects]
  PROVE  /\ Shaped(k) /\ k.read = j.read \union objects
         /\ k.op = j.op /\ k.pc = j.pc /\ k.task = j.task /\ k.who = j.who /\ k.to = j.to
         /\ k.row = j.row /\ k.forms = j.forms /\ k.plan = j.plan /\ k.was = j.was
         /\ k.overtaken = j.overtaken
  BY DEF Shaped

\* A job that goes on to its writes keeps the call it answers.
LEMMA PlanningKeeps ==
  ASSUME NEW j, Shaped(j), NEW plan, NEW i, i = Planning(j, plan)
  PROVE  /\ Shaped(i) /\ i.read = j.read
         /\ i.op = j.op /\ i.pc = "write" /\ i.task = j.task /\ i.who = j.who /\ i.to = j.to
         /\ i.plan = plan /\ i.was = People(Present(j.task)) /\ i.overtaken = j.overtaken
  <1>1. i = [op |-> j.op, pc |-> "write", task |-> j.task, who |-> j.who, to |-> j.to,
             row |-> [open |-> FALSE, hops |-> 0], forms |-> {}, plan |-> plan,
             was |-> People(Present(j.task)), read |-> j.read, overtaken |-> j.overtaken]
    BY DEF Planning, Idle
  <1> QED
    BY <1>1 DEF Shaped

LEMMA Overtaken ==
  ASSUME NEW j, Shaped(j), NEW b \in BOOLEAN,
         NEW k, k = [j EXCEPT !.overtaken = b]
  PROVE  /\ Shaped(k) /\ k.read = j.read
         /\ k.op = j.op /\ k.pc = j.pc /\ k.task = j.task /\ k.who = j.who /\ k.to = j.to
         /\ k.row = j.row /\ k.forms = j.forms /\ k.plan = j.plan /\ k.was = j.was
         /\ k.overtaken = b
  BY DEF Shaped

LEMMA InitInv == Init => IInv
  <1> SUFFICES ASSUME Init PROVE IInv
    OBVIOUS
  <1>1. PICK f \in Initial : rows = [t \in Task |-> Once(f[t])]
    BY DEF Init
  <1>2. f \in [Task -> SUBSET Form]
    BY InitialAssumption
  <1>3. rows \in [Task -> [Form -> {0, 1}]]
    BY <1>1, <1>2 DEF Once
  <1>4. \A t \in Task : Present(t) = f[t]
    BY <1>1, <1>2, PresentOnce
  <1>5. ApartAtFirst => \A t \in Task : Apart(Present(t))
    BY <1>4 DEF ApartAtFirst
  <1>6. TablesOK
    BY <1>3, <1>5, StoresAssumption DEF Init, TablesOK
  <1>8. \A c \in Client : JobOK(job[c], store, task, Loaded)
    BY IdleOK DEF Init
  <1>9. OneAtATime
    BY DEF OneAtATime, Init, Idle, MidTransfer
  <1> QED
    BY <1>6, <1>8, <1>9 DEF IInv, Inv, Init

\* A step that writes nothing and leaves its request in order.
LEMMA ReadKeeps ==
  ASSUME Inv, NEW c \in Client, NEW k, job' = [job EXCEPT ![c] = k],
         UNCHANGED <<store, task, rows>>,
         JobOK(k, store, task, Loaded), ~MidTransfer(k)
  PROVE  Inv'
  <1>1. Loaded' = Loaded
    BY DEF Loaded, Present
  <1>2. job' = [d \in Client |-> IF d = c THEN k ELSE job[d]]
    BY DEF Inv
  <1>3. ASSUME NEW d \in Client PROVE JobOK(job'[d], store', task', Loaded')
    BY <1>1, <1>2 DEF Inv
  <1>4. TablesOK'
    BY DEF Inv, TablesOK, Present
  <1>5. OneAtATime'
    <2> SUFFICES ASSUME NEW d \in Client, NEW e \in Client,
                        MidTransfer(job'[d]), MidTransfer(job'[e]), job'[d].task = job'[e].task
                 PROVE  d = e
      BY DEF OneAtATime
    <2>1. d # c /\ e # c
      BY <1>2
    <2> QED
      BY <2>1, <1>2 DEF Inv, OneAtATime
  <1> QED
    BY <1>2, <1>3, <1>4, <1>5 DEF Inv

\* The tables agree in what a request has read.
OfTasks(f) == f = [t \in Task |-> f[t]]
SameTo(j, now, here, now2, here2) ==
  \A t \in Task : /\ TaskRow(t) \in j.read => now2[t] = now[t]
                  /\ ActorRows(t) \in j.read => here2[t] = here[t]

\* A request relies on what it has read only.
LEMMA ReliesStays ==
  ASSUME NEW j, j.task \in Task, NEW s, NEW now, NEW here, NEW now2, NEW here2,
         OfTasks(now), OfTasks(here), OfTasks(now2), OfTasks(here2),
         SameTo(j, now, here, now2, here2), Route(j), Relies(j, s, now, here)
  PROVE  Relies(j, s, now2, here2)
  <1>2. ASSUME OnRow(j) PROVE now2[j.task] = now[j.task] /\ here2[j.task] = here[j.task]
    BY <1>2 DEF OnRow, SameTo
  <1>1. Reading(j, s, now2, here2)
    BY <1>2 DEF Relies, Reading, Route
  <1>3. ASSUME OnRow(j) PROVE /\ PlannedTransfer(j, now, here) => PlannedTransfer(j, now2, here2)
                              /\ PlannedRemove(j, now, here) => PlannedRemove(j, now2, here2)
    <2>1. Leaving(j, here2) = Leaving(j, here) /\ Deleting(j, here2) = Deleting(j, here)
      BY <1>2, <1>3 DEF Leaving, Deleting
    <2>2. \A forms : Updating(j, now2, forms) = Updating(j, now, forms)
      BY <1>2, <1>3 DEF Updating
    <2> QED
      BY <1>2, <1>3, <2>1, <2>2 DEF PlannedTransfer, Before1, Before2, Before3, PlannedRemove
  <1>4. ASSUME OnAll(j) PROVE now2 = now /\ here2 = here
    <2>1. \A t \in Task : now2[t] = now[t] /\ here2[t] = here[t]
      BY <1>4 DEF OnAll, SameTo
    <2> QED
      BY <2>1 DEF OfTasks
  <1>5. PlannedAdd(j, s, here) => PlannedAdd(j, s, here2)
    BY DEF PlannedAdd, SameTo
  <1>6. /\ PlannedTransfer(j, now, here) => PlannedTransfer(j, now2, here2)
        /\ PlannedRemove(j, now, here) => PlannedRemove(j, now2, here2)
    BY <1>3 DEF PlannedTransfer, PlannedRemove
  <1>7. PlannedExecute(j, now, here) => PlannedExecute(j, now2, here2)
    BY <1>4 DEF PlannedExecute
  <1>8. Planned(j, s, now, here) => Planned(j, s, now2, here2)
    BY <1>5, <1>6, <1>7 DEF Planned
  <1> QED
    BY <1>1, <1>8 DEF Relies

-----------------------------------------------------------------------------
(* The calls that read. *)

Reads(c) == \E k :
  /\ job' = [job EXCEPT ![c] = k] /\ UNCHANGED <<store, task, rows, disturbed>>
  /\ job[c].pc # "write"
  /\ JobOK(k, store, task, Loaded) /\ ~MidTransfer(k)

LEMMA Asks ==
  ASSUME Inv, NEW c \in Client, NEW j, Enter(c, j), Shaped(j),
         JobOK([j EXCEPT !.read = @ \union {}], store, task, Loaded),
         ~MidTransfer([j EXCEPT !.read = @ \union {}])
  PROVE  Reads(c)
  BY DEF Enter, Proceed, Reads

LEMMA Answers ==
  ASSUME Inv, NEW c \in Client, NEW pc, At(c, pc), pc # "write",
         NEW j, NEW objects, Proceed(c, j, objects),
         NEW k, k = [j EXCEPT !.read = @ \union objects],
         JobOK(k, store, task, Loaded), ~MidTransfer(k)
  PROVE  Reads(c)
  BY DEF At, Proceed, Reads

LEMMA Ends ==
  ASSUME Inv, NEW c \in Client, NEW pc, At(c, pc), pc # "write", End(c)
  PROVE  Reads(c)
  <1>1. [Idle EXCEPT !.read = @ \union {}] = Idle
    BY DEF Idle
  <1>2. ~MidTransfer(Idle)
    BY DEF Idle, MidTransfer
  <1> QED
    BY <1>1, <1>2, IdleOK, Answers DEF End

LEMMA taskAddActorReads ==
  ASSUME Inv, NEW c \in Client, taskAddActor(c)
  PROVE  Reads(c)
  <1>1. PICK t \in Task, people \in (SUBSET User) \ {{}} :
          LET j == [Idle EXCEPT !.op = "add", !.task = t, !.who = people] IN
          Enter(c, IF store = "jdbc" THEN [j EXCEPT !.pc = "existing"]
                   ELSE [Planning(j, <<AddTaskActor(t, people)>>) EXCEPT !.op = "add"])
    BY DEF taskAddActor
  <1>2. PICK j : j = [Idle EXCEPT !.op = "add", !.task = t, !.who = people]
    OBVIOUS
  <1>3. Shaped(j) /\ j.op = "add" /\ j.task = t /\ j.who = people /\ ~j.overtaken
    BY <1>2 DEF Idle, Shaped
  <1>4. CASE store = "jdbc"
    <2>1. PICK i : i = [j EXCEPT !.pc = "existing"]
      OBVIOUS
    <2>2. Shaped(i) /\ i.op = "add" /\ i.task = t /\ i.who = people /\ i.pc = "existing" /\ ~i.overtaken
      BY <1>3, <2>1 DEF Shaped
    <2>3. PICK k : k = [i EXCEPT !.read = @ \union {}]
      OBVIOUS
    <2>4. Shaped(k) /\ k.op = "add" /\ k.task = t /\ k.who = people /\ k.pc = "existing" /\ ~k.overtaken
      BY <2>2, <2>3, Reread
    <2>5. JobOK(k, store, task, Loaded) /\ ~MidTransfer(k)
      BY <2>4, <1>4 DEF JobOK, Relies, Reading, Route, Steps, Arguments, Handlers, MidTransfer
    <2> QED
      BY <1>1, <1>2, <1>4, <2>1, <2>2, <2>3, <2>5, Asks
  <1>5. CASE store # "jdbc"
    <2>1. PICK i : i = [Planning(j, <<AddTaskActor(t, people)>>) EXCEPT !.op = "add"]
      OBVIOUS
    <2>2. /\ Shaped(i) /\ i.op = "add" /\ i.task = t /\ i.who = people /\ i.pc = "write" /\ ~i.overtaken
          /\ i.plan = <<AddTaskActor(t, people)>>
      BY <1>3, <2>1 DEF Shaped, Planning, Idle
    <2>3. PICK k : k = [i EXCEPT !.read = @ \union {}]
      OBVIOUS
    <2>4. /\ Shaped(k) /\ k.op = "add" /\ k.task = t /\ k.who = people /\ k.pc = "write" /\ ~k.overtaken
          /\ k.plan = <<AddTaskActor(t, people)>>
      BY <2>2, <2>3, Reread
    <2>5. Relies(k, store, task, Loaded)
      BY <2>4, <1>5 DEF Inv, TablesOK, Relies, Reading, Planned, PlannedAdd
    <2>6. JobOK(k, store, task, Loaded) /\ ~MidTransfer(k)
      BY <2>4, <2>5 DEF JobOK, Route, Steps, Arguments, Handlers, MidTransfer
    <2> QED
      BY <1>1, <1>2, <1>5, <2>1, <2>2, <2>3, <2>6, Asks
  <1> QED
    BY <1>4, <1>5

\* The other handlers first load the row.
LEMMA LoadsRow ==
  ASSUME Inv, NEW c \in Client, NEW i, Enter(c, i), Shaped(i), Arguments(i),
         i.pc = "task", i.op # "add"
  PROVE  Reads(c)
  <1>0. PICK k : k = [i EXCEPT !.read = @ \union {}]
    OBVIOUS
  <1>1. /\ Shaped(k) /\ k.op = i.op /\ k.task = i.task /\ k.who = i.who /\ k.to = i.to /\ k.pc = "task"
    BY <1>0, Reread
  <1>2. JobOK(k, store, task, Loaded) /\ ~MidTransfer(k)
    BY <1>1 DEF JobOK, Relies, Reading, Route, Steps, Arguments, MidTransfer
  <1> QED
    BY <1>0, <1>2, Asks

LEMMA taskTransferReads ==
  ASSUME Inv, NEW c \in Client, taskTransfer(c)
  PROVE  Reads(c)
  <1>1. PICK t \in Task, from \in User, to \in User :
          Enter(c, [Idle EXCEPT !.op = "transfer", !.pc = "task", !.task = t, !.who = {from}, !.to = to])
    BY DEF taskTransfer
  <1>0. PICK i : i = [Idle EXCEPT !.op = "transfer", !.pc = "task", !.task = t, !.who = {from}, !.to = to]
    OBVIOUS
  <1>2. /\ Shaped(i) /\ i.op = "transfer" /\ i.task = t /\ i.who = {from} /\ i.to = to /\ i.pc = "task"
    BY <1>0 DEF Idle, Shaped
  <1>3. Arguments(i)
    BY <1>2 DEF Arguments, Handlers
  <1> QED
    BY <1>0, <1>1, <1>2, <1>3, LoadsRow

LEMMA taskRemoveActorReads ==
  ASSUME Inv, NEW c \in Client, taskRemoveActor(c)
  PROVE  Reads(c)
  <1>1. PICK t \in Task, people \in (SUBSET User) \ {{}} :
          Enter(c, [Idle EXCEPT !.op = "remove", !.pc = "task", !.task = t, !.who = people])
    BY DEF taskRemoveActor
  <1>0. PICK i : i = [Idle EXCEPT !.op = "remove", !.pc = "task", !.task = t, !.who = people]
    OBVIOUS
  <1>2. /\ Shaped(i) /\ i.op = "remove" /\ i.task = t /\ i.who = people /\ i.pc = "task"
    BY <1>0 DEF Idle, Shaped
  <1>3. Arguments(i)
    BY <1>2 DEF Arguments, Handlers
  <1> QED
    BY <1>0, <1>1, <1>2, <1>3, LoadsRow

LEMMA executeReads ==
  ASSUME Inv, NEW c \in Client, execute(c)
  PROVE  Reads(c)
  <1>1. PICK t \in Task, u \in User \union Privileged :
          Enter(c, [Idle EXCEPT !.op = "execute", !.pc = "task", !.task = t, !.who = {u}])
    BY DEF execute
  <1>0. PICK i : i = [Idle EXCEPT !.op = "execute", !.pc = "task", !.task = t, !.who = {u}]
    OBVIOUS
  <1>2. /\ Shaped(i) /\ i.op = "execute" /\ i.task = t /\ i.who = {u} /\ i.pc = "task"
    BY <1>0 DEF Idle, Shaped
  <1>3. Arguments(i)
    BY <1>2 DEF Arguments, Handlers
  <1> QED
    BY <1>0, <1>1, <1>2, <1>3, LoadsRow

LEMMA FindTaskByIDReads ==
  ASSUME Inv, NEW c \in Client, FindTaskByID(c)
  PROVE  Reads(c)
  <1>1. PICK j : j = job[c]
    OBVIOUS
  <1>2. PICK t : t = j.task
    OBVIOUS
  <1>3. CASE ~task[t].open
    BY <1>1, <1>2, <1>3, Ends DEF FindTaskByID
  <1>4. CASE task[t].open
    <2> DEFINE follow == IF store = "jdbc" THEN "joined" ELSE "actors"
               forms == IF store = "jdbc" THEN {} ELSE Present(t)
    <2>1. PICK i : i = [j EXCEPT !.row = task[t], !.pc = follow, !.forms = forms]
      OBVIOUS
    <2>2. At(c, "task") /\ Proceed(c, i, {TaskRow(t), ActorRows(t)})
      BY <1>1, <1>2, <1>4, <2>1 DEF FindTaskByID
    <2>3. Shaped(j) /\ Arguments(j) /\ j.op # "add" /\ t \in Task
      BY <1>1, <1>2, <2>2 DEF Inv, JobOK, Route, Arguments, At
    <2>4. /\ Shaped(i) /\ i.op = j.op /\ i.task = t /\ i.who = j.who /\ i.to = j.to /\ i.pc = follow
          /\ i.row = task[t] /\ i.forms = forms
      BY <1>2, <2>1, <2>3 DEF Shaped
    <2>5. PICK k : k = [i EXCEPT !.read = @ \union {TaskRow(t), ActorRows(t)}]
      OBVIOUS
    <2>6. /\ Shaped(k) /\ k.op = j.op /\ k.task = t /\ k.who = j.who /\ k.to = j.to /\ k.pc = follow
          /\ k.row = task[t] /\ k.forms = forms /\ TaskRow(t) \in k.read /\ ActorRows(t) \in k.read
      BY <2>4, <2>5, Reread
    <2>7. Route(k) /\ ~MidTransfer(k)
      BY <2>3, <2>6 DEF Route, Steps, Arguments, MidTransfer
    <2>8. Relies(k, store, task, Loaded)
      BY <1>4, <2>3, <2>6 DEF Relies, Reading, OnRow, Loaded
    <2> QED
      BY <2>2, <2>5, <2>6, <2>7, <2>8, Answers DEF JobOK
  <1> QED
    BY <1>3, <1>4

LEMMA findTaskActorsReads ==
  ASSUME Inv, NEW c \in Client, findTaskActors(c)
  PROVE  Reads(c)
  <1>1. PICK j : j = job[c]
    OBVIOUS
  <1>2. Shaped(j) /\ Route(j) /\ j.pc = "joined" /\ Arguments(j) /\ j.op # "add"
        /\ (~j.overtaken => Relies(j, store, task, Loaded))
    BY <1>1 DEF Inv, JobOK, Route, findTaskActors, At
  <1>3. PICK i : i = [j EXCEPT !.forms = Present(j.task), !.pc = "actors"]
    OBVIOUS
  <1>4. /\ Shaped(i) /\ i.op = j.op /\ i.task = j.task /\ i.who = j.who /\ i.to = j.to /\ i.pc = "actors"
        /\ i.row = j.row /\ i.forms = Present(j.task) /\ i.read = j.read /\ i.overtaken = j.overtaken
    BY <1>2, <1>3 DEF Shaped
  <1>5. PICK k : k = [i EXCEPT !.read = @ \union {}]
    OBVIOUS
  <1>6. /\ Shaped(k) /\ k.op = j.op /\ k.task = j.task /\ k.who = j.who /\ k.to = j.to /\ k.pc = "actors"
        /\ k.row = j.row /\ k.forms = Present(j.task) /\ k.read = j.read /\ k.overtaken = j.overtaken
    BY <1>4, <1>5, Reread
  <1>7. Route(k) /\ ~MidTransfer(k)
    BY <1>2, <1>6 DEF Route, Steps, Arguments, MidTransfer
  <1>8. ~k.overtaken => Relies(k, store, task, Loaded)
    BY <1>2, <1>6 DEF Relies, Reading, OnRow, Loaded, Arguments
  <1> QED
    BY <1>1, <1>3, <1>5, <1>6, <1>7, <1>8, Answers DEF JobOK, findTaskActors

\* Who is on a row when u has handed it to another.
Kept(here, u) == {p \in dedupStrs(here) : Of[p] # u}
HandedForms(here, u, to) == dedupStrs(Kept(here, u) \union {to})

LEMMA HandsOver ==
  ASSUME NEW here \in SUBSET Form, NEW u \in User, NEW to \in User,
         \E p \in dedupStrs(here) : Of[p] = u, \A p \in dedupStrs(here) : Of[p] = to => to = u
  PROVE  /\ u \in People(here) /\ to \notin People(here) \ {u}
         /\ HandedForms(here, u, to) \in SUBSET Form /\ to \in HandedForms(here, u, to)
         /\ People(HandedForms(here, u, to)) = (People(here) \ {u}) \union {to}
         /\ Apart(here) => Apart(HandedForms(here, u, to))
  <1>0. PICK known, kept, forms : /\ known = dedupStrs(here) /\ forms = HandedForms(here, u, to)
                                  /\ kept = {p \in known : Of[p] # u} /\ forms = dedupStrs(kept \union {to})
    BY DEF HandedForms, Kept
  <1>1. known \in SUBSET Form /\ known \in SUBSET here /\ kept \in SUBSET Form /\ kept \in SUBSET here
    BY <1>0 DEF dedupStrs
  <1>2. People(known) = People(here)
    BY <1>0, PeopleKnown
  <1>3. \A v : v \in People(known) <=> v # "" /\ \E f \in known : Of[f] = v
    BY PersonIn
  <1>4. u \in People(here) /\ to \notin People(here) \ {u}
    BY <1>0, <1>2, <1>3, UserForms
  <1>5. \A v : v \in People(kept) <=> v # "" /\ \E f \in kept : Of[f] = v
    BY PersonIn
  <1>6. People(kept) = People(here) \ {u}
    <2>1. \A v : v \in People(kept) <=> v \in People(known) /\ v # u
      BY <1>0, <1>3, <1>5
    <2> QED
      BY <2>1, <1>2
  <1>7. kept \union {to} \in SUBSET Form /\ {to} \in SUBSET User
    <2>1. to \in Form
      BY UserForms
    <2> QED
      BY <2>1, <1>1
  <1>8. People(forms) = (People(here) \ {u}) \union {to}
    <2>1. People(kept \union {to}) = People(kept) \union {to}
      BY <1>1, <1>7, PeopleUnion
    <2> QED
      BY <2>1, <1>0, <1>6, <1>7, PeopleKnown
  <1>9. Apart(here) => Apart(forms)
    <2> SUFFICES ASSUME Apart(here) PROVE Apart(forms)
      OBVIOUS
    <2>1. Apart(kept)
      BY <1>1, ApartSubset
    <2>2. {to} \intersect People(kept) = {}
      BY <1>4, <1>6
    <2>3. Apart(kept \union {to})
      BY <1>1, <1>7, <2>1, <2>2, ApartUnion
    <2>4. forms \in SUBSET (kept \union {to})
      BY <1>0 DEF dedupStrs
    <2> QED
      BY <2>3, <2>4, ApartSubset
  <1>10. forms \in SUBSET Form /\ to \in forms
    BY <1>0, <1>7, UserForms DEF dedupStrs
  <1> QED
    BY <1>0, <1>4, <1>8, <1>9, <1>10

\* What a transfer plans, when it may.
LEMMA MayPlan ==
  ASSUME Inv, NEW k, Arguments(k), k.op = "transfer", OnRow(k), task[k.task].open,
         NEW j, k.task = j.task, k.who = j.who, k.to = j.to, j.row = task[j.task],
         NEW known, known = dedupStrs(Present(k.task)), MayTransfer(j, known),
         k.was = People(Present(k.task)),
         k.plan = <<Transferred(j, known)[1], Adding(k), Transferred(j, known)[3]>>
  PROVE  PlannedTransfer(k, task, Loaded)
  <1>1. PICK t \in Task, u \in User, to \in User : t = k.task /\ k.who = {u} /\ k.to = to
    BY DEF Arguments
  <1>2. PICK here \in SUBSET Form : here = Present(t) /\ Loaded[t] = here
    BY <1>1, PresentForms DEF Loaded
  <1>3. PICK from, forms : /\ from = {p \in known : Of[p] \in {u}}
                           /\ forms = HandedForms(here, u, to) /\ forms = dedupStrs((known \ from) \union {to})
    <2>1. Kept(here, u) = known \ {p \in known : Of[p] \in {u}}
      BY <1>1, <1>2 DEF Kept
    <2> QED
      BY <2>1 DEF HandedForms
  <1>4. (\E p \in known : Of[p] = u) /\ (\A p \in known : Of[p] = to => to = u)
    BY <1>1 DEF MayTransfer
  <1>5. /\ u \in People(here) /\ to \notin People(here) \ {u}
        /\ forms \in SUBSET Form /\ to \in forms
        /\ People(forms) = (People(here) \ {u}) \union {to}
        /\ Apart(here) => Apart(forms)
    <2>1. known = dedupStrs(here)
      BY <1>1, <1>2
    <2>2. /\ \E p \in dedupStrs(here) : Of[p] = u
          /\ \A p \in dedupStrs(here) : Of[p] = to => to = u
      BY <2>1, <1>4
    <2>3. /\ u \in People(here) /\ to \notin People(here) \ {u}
          /\ HandedForms(here, u, to) \in SUBSET Form /\ to \in HandedForms(here, u, to)
          /\ People(HandedForms(here, u, to)) = (People(here) \ {u}) \union {to}
          /\ Apart(here) => Apart(HandedForms(here, u, to))
      BY <2>2, HandsOver
    <2> QED
      BY <2>3, <1>3
  <1>6. k.was = People(here)
    BY <1>1, <1>2
  <1>7. Left(k, forms)
    BY <1>1, <1>2, <1>5, <1>6 DEF Left, Handed, Inv, TablesOK
  <1>8. from = Leaving(k, Loaded)
    BY <1>1, <1>2, <1>3 DEF Leaving
  <1>9. Before1(k, task, Loaded, forms)
    <2>1. k.plan = <<Deleting(k, Loaded), Adding(k), Updating(k, task, forms)>>
      BY <1>1, <1>3, <1>8 DEF Transferred, Deleting, Updating, Hop
    <2> QED
      BY <2>1, <1>1, <1>2, <1>5, <1>6 DEF Before1
  <1> QED
    BY <1>1, <1>5, <1>6, <1>7, <1>9 DEF PlannedTransfer

LEMMA FindTaskActorsReads ==
  ASSUME Inv, NEW c \in Client, FindTaskActors(c)
  PROVE  Reads(c)
  <1>1. PICK j, t : j = job[c] /\ t = j.task
    OBVIOUS
  <1>2. Shaped(j) /\ Route(j) /\ j.pc = "actors" /\ Arguments(j) /\ j.op # "add" /\ t \in Task
        /\ (~j.overtaken => Relies(j, store, task, Loaded)) /\ At(c, "actors")
    BY <1>1 DEF Inv, JobOK, Route, FindTaskActors, At, Arguments
  <1>3. PICK known : known = dedupStrs(j.forms \union Present(t))
    OBVIOUS
  <1>4. ASSUME ~j.overtaken
        PROVE  /\ OnRow(j) /\ task[t].open /\ j.row = task[t]
               /\ j.forms = Present(t) /\ known = dedupStrs(Present(t)) /\ Loaded[t] = Present(t)
    BY <1>1, <1>2, <1>3, <1>4 DEF Relies, Reading, Loaded
  <1>5. CASE End(c)
    BY <1>2, <1>5, Ends
  <1>6. CASE j.op = "transfer" /\ ~End(c)
    <2>1. MayTransfer(j, known)
          /\ Proceed(c, IF store = "jdbc" THEN [j EXCEPT !.forms = known, !.pc = "existing"]
                        ELSE Planning(j, Transferred(j, known)), {ActorRows(t)})
      BY <1>1, <1>3, <1>6 DEF FindTaskActors
    <2>2. CASE store = "jdbc"
      <3>1. PICK i : i = [j EXCEPT !.forms = known, !.pc = "existing"]
        OBVIOUS
      <3>2. /\ Shaped(i) /\ i.op = j.op /\ i.task = t /\ i.who = j.who /\ i.to = j.to /\ i.pc = "existing"
            /\ i.row = j.row /\ i.forms = known /\ i.read = j.read /\ i.overtaken = j.overtaken
        BY <1>1, <1>2, <3>1 DEF Shaped
      <3>3. PICK k : k = [i EXCEPT !.read = @ \union {ActorRows(t)}]
        OBVIOUS
      <3>4. /\ Shaped(k) /\ k.op = j.op /\ k.task = t /\ k.who = j.who /\ k.to = j.to /\ k.pc = "existing"
            /\ k.row = j.row /\ k.forms = known /\ k.read = j.read \union {ActorRows(t)} /\ k.overtaken = j.overtaken
        BY <3>2, <3>3, Reread
      <3>5. Route(k) /\ ~MidTransfer(k)
        BY <1>1, <1>2, <1>6, <3>4 DEF Route, Steps, Arguments, MidTransfer
      <3>6. ASSUME ~k.overtaken PROVE Relies(k, store, task, Loaded)
        <4>1. MayTransfer(k, known)
          BY <2>1, <3>4 DEF MayTransfer
        <4>2. /\ OnRow(k) /\ task[t].open /\ k.row = task[t]
              /\ k.forms = dedupStrs(Loaded[t]) /\ MayTransfer(k, dedupStrs(Loaded[t]))
          BY <1>1, <1>4, <3>4, <3>6, <4>1 DEF OnRow
        <4> QED
          BY <2>2, <3>4, <4>2 DEF Relies, Reading
      <3> QED
        BY <1>2, <2>1, <2>2, <3>1, <3>3, <3>4, <3>5, <3>6, Answers DEF JobOK
    <2>3. CASE store # "jdbc"
      <3>1. PICK k : k = [Planning(j, Transferred(j, known)) EXCEPT !.read = @ \union {ActorRows(t)}]
        OBVIOUS
      <3>2. /\ Shaped(k) /\ k.read = j.read \union {ActorRows(t)}
            /\ k.op = j.op /\ k.pc = "write" /\ k.task = t /\ k.who = j.who /\ k.to = j.to
            /\ k.plan = Transferred(j, known) /\ k.was = People(Present(t))
            /\ k.overtaken = j.overtaken
        BY <1>1, <1>2, <3>1, PlanningKeeps, Reread
      <3>3. Route(k) /\ ~MidTransfer(k)
        BY <1>1, <1>2, <1>6, <3>2 DEF Route, Steps, Arguments, MidTransfer, Transferred
      <3>4. ASSUME ~k.overtaken PROVE Relies(k, store, task, Loaded)
        <4>1. MayTransfer(j, known) /\ OnRow(k) /\ task[t].open /\ j.row = task[t]
              /\ known = dedupStrs(Present(t)) /\ Arguments(k)
          BY <1>1, <1>2, <1>4, <2>1, <3>2, <3>4 DEF OnRow, Arguments
        <4>2. k.plan = <<Transferred(j, known)[1], Adding(k), Transferred(j, known)[3]>>
          BY <1>1, <3>2 DEF Transferred, Adding
        <4>3. PlannedTransfer(k, task, Loaded)
          BY <1>1, <1>6, <3>2, <4>1, <4>2, MayPlan
        <4> QED
          BY <1>6, <3>2, <4>3 DEF Relies, Reading, Planned
      <3> QED
        BY <1>2, <2>1, <2>3, <3>1, <3>2, <3>3, <3>4, Answers DEF JobOK
    <2> QED
      BY <2>2, <2>3
  <1>7. CASE j.op = "remove" /\ ~End(c)
    <2> DEFINE leaving == {p \in known : Of[p] \in j.who}
    <2>1. /\ leaving # {} /\ Remaining(j, known) # {}
          /\ Proceed(c, Planning(j, <<RemoveTaskActor(t, ActorDeleteForms(leaving))>>), {ActorRows(t)})
      BY <1>1, <1>3, <1>7 DEF FindTaskActors
    <2>2. PICK plan : plan = <<RemoveTaskActor(t, ActorDeleteForms(leaving))>>
      OBVIOUS
    <2>3. PICK k : k = [Planning(j, plan) EXCEPT !.read = @ \union {ActorRows(t)}]
      OBVIOUS
    <2>4. /\ Shaped(k) /\ k.read = j.read \union {ActorRows(t)}
          /\ k.op = j.op /\ k.pc = "write" /\ k.task = t /\ k.who = j.who /\ k.to = j.to
          /\ k.plan = plan /\ k.was = People(Present(t))
          /\ k.overtaken = j.overtaken
      BY <1>1, <1>2, <2>3, PlanningKeeps, Reread
    <2>5. Route(k) /\ ~MidTransfer(k)
      BY <1>1, <1>2, <1>7, <2>4 DEF Route, Steps, Arguments, MidTransfer
    <2>6. ASSUME ~k.overtaken PROVE Relies(k, store, task, Loaded)
      <3>1. OnRow(k) /\ task[t].open /\ known = dedupStrs(Loaded[t])
        BY <1>1, <1>4, <2>4, <2>6 DEF OnRow
      <3>2. leaving = Leaving(k, Loaded) /\ Remaining(k, known) = Remaining(j, known)
        BY <2>4, <3>1 DEF Leaving, Remaining
      <3>3. PlannedRemove(k, task, Loaded)
        BY <2>1, <2>2, <2>4, <3>1, <3>2 DEF PlannedRemove, Deleting
      <3> QED
        BY <1>7, <2>4, <3>3 DEF Relies, Reading, Planned
    <2> QED
      BY <1>2, <2>1, <2>2, <2>3, <2>4, <2>5, <2>6, Answers DEF JobOK
  <1>8. CASE j.op = "execute" /\ ~End(c)
    <2>1. PICK i : i = [j EXCEPT !.pc = "instance"]
      OBVIOUS
    <2>2. Proceed(c, i, {ActorRows(t)})
      BY <1>1, <1>3, <1>8, <2>1 DEF FindTaskActors
    <2>3. /\ Shaped(i) /\ i.op = j.op /\ i.task = t /\ i.who = j.who /\ i.to = j.to /\ i.pc = "instance"
          /\ i.row = j.row /\ i.forms = j.forms /\ i.read = j.read /\ i.overtaken = j.overtaken
      BY <1>1, <1>2, <2>1 DEF Shaped
    <2>4. PICK k : k = [i EXCEPT !.read = @ \union {ActorRows(t)}]
      OBVIOUS
    <2>5. /\ Shaped(k) /\ k.op = j.op /\ k.task = t /\ k.who = j.who /\ k.to = j.to /\ k.pc = "instance"
          /\ k.row = j.row /\ k.forms = j.forms /\ k.read = j.read \union {ActorRows(t)} /\ k.overtaken = j.overtaken
      BY <2>3, <2>4, Reread
    <2>6. Route(k) /\ ~MidTransfer(k)
      BY <1>1, <1>2, <1>8, <2>5 DEF Route, Steps, Arguments, MidTransfer
    <2>7. ~k.overtaken => Relies(k, store, task, Loaded)
      BY <1>1, <1>4, <1>8, <2>5 DEF Relies, Reading, OnRow
    <2> QED
      BY <1>2, <2>2, <2>4, <2>5, <2>6, <2>7, Answers DEF JobOK
  <1>9. j.op \in {"transfer", "remove", "execute"}
    BY <1>2 DEF Arguments, Handlers
  <1> QED
    BY <1>5, <1>6, <1>7, <1>8, <1>9

LEMMA existingReads ==
  ASSUME Inv, NEW c \in Client, existing(c)
  PROVE  Reads(c)
  <1>1. PICK j, t : j = job[c] /\ t = j.task
    OBVIOUS
  <1>2. Shaped(j) /\ Route(j) /\ j.pc = "existing" /\ Arguments(j) /\ t \in Task
        /\ (~j.overtaken => Relies(j, store, task, Loaded)) /\ At(c, "existing")
    BY <1>1 DEF Inv, JobOK, Route, existing, At, Arguments
  <1>3. PICK writes : writes = Transferred(j, j.forms)
    OBVIOUS
  <1>4. CASE End(c)
    BY <1>2, <1>4, Ends
  <1>5. CASE j.op = "transfer" /\ ~End(c)
    <2>1. PICK there, plan : /\ there = Present(t) \ writes[1].forms
                             /\ plan = <<writes[1], AddTaskActor(t, Missing(there, {j.to})), writes[3]>>
      OBVIOUS
    <2>2. Proceed(c, Planning(j, plan), {ActorRows(t)})
      BY <1>1, <1>3, <1>5, <2>1 DEF existing
    <2>3. PICK k : k = [Planning(j, plan) EXCEPT !.read = @ \union {ActorRows(t)}]
      OBVIOUS
    <2>4. /\ Shaped(k) /\ k.read = j.read \union {ActorRows(t)}
          /\ k.op = j.op /\ k.pc = "write" /\ k.task = t /\ k.who = j.who /\ k.to = j.to
          /\ k.plan = plan /\ k.was = People(Present(t))
          /\ k.overtaken = j.overtaken
      BY <1>1, <1>2, <2>3, PlanningKeeps, Reread
    <2>5. Route(k) /\ ~MidTransfer(k)
      BY <1>1, <1>2, <1>5, <2>1, <2>4 DEF Route, Steps, Arguments, MidTransfer
    <2>6. ASSUME ~k.overtaken PROVE Relies(k, store, task, Loaded)
      <3>1. /\ OnRow(j) /\ task[t].open /\ j.row = task[t] /\ Loaded[t] = Present(t)
            /\ j.forms = dedupStrs(Present(t)) /\ MayTransfer(j, j.forms)
        BY <1>1, <1>2, <1>5, <2>4, <2>6 DEF Relies, Reading, Loaded
      <3>2. Missing(there, {j.to}) = {j.to}
        <4>1. there = Present(t) \ ActorDeleteForms({p \in dedupStrs(Present(t)) : Of[p] \in j.who})
          BY <1>1, <1>3, <2>1, <3>1 DEF Transferred, RemoveTaskActor
        <4>2. People(there) = People(Present(t)) \ j.who
          BY <4>1, PresentForms, PeopleDeleted
        <4>3. ASSUME j.to \in People(Present(t)) PROVE j.to \in j.who
          <5>1. j.to \in People(dedupStrs(Present(t)))
            BY <4>3, PresentForms, PeopleKnown
          <5>2. PICK p \in j.forms : Of[p] = j.to
            BY <3>1, <5>1, PersonIn
          <5> QED
            BY <3>1, <5>2 DEF MayTransfer
        <4> QED
          BY <4>2, <4>3 DEF Missing
      <3>3. OnRow(k) /\ Arguments(k)
        BY <1>1, <1>2, <2>4, <3>1 DEF OnRow, Arguments
      <3>4. k.plan = <<writes[1], Adding(k), writes[3]>>
        BY <2>1, <2>4, <3>2 DEF Adding
      <3>5. PlannedTransfer(k, task, Loaded)
        BY <1>1, <1>3, <1>5, <2>4, <3>1, <3>3, <3>4, MayPlan
      <3> QED
        BY <1>5, <2>4, <3>5 DEF Relies, Reading, Planned
    <2> QED
      BY <1>2, <2>2, <2>3, <2>4, <2>5, <2>6, Answers DEF JobOK
  <1>6. CASE j.op = "add" /\ ~End(c)
    <2>1. PICK plan : plan = <<AddTaskActor(t, Missing(Present(t), j.who))>>
      OBVIOUS
    <2>2. Proceed(c, Planning(j, plan), {ActorRows(t)})
      BY <1>1, <1>6, <2>1 DEF existing
    <2>3. PICK k : k = [Planning(j, plan) EXCEPT !.read = @ \union {ActorRows(t)}]
      OBVIOUS
    <2>4. /\ Shaped(k) /\ k.read = j.read \union {ActorRows(t)}
          /\ k.op = j.op /\ k.pc = "write" /\ k.task = t /\ k.who = j.who /\ k.to = j.to
          /\ k.plan = plan /\ k.was = People(Present(t))
          /\ k.overtaken = j.overtaken
      BY <1>1, <1>2, <2>3, PlanningKeeps, Reread
    <2>5. Route(k) /\ ~MidTransfer(k)
      BY <1>1, <1>2, <1>6, <2>4 DEF Route, Steps, Arguments, MidTransfer
    <2>6. ASSUME ~k.overtaken PROVE Relies(k, store, task, Loaded)
      <3>1. store = "jdbc" /\ Loaded[t] = Present(t)
        BY <1>2, <2>4, <2>6 DEF Relies, Reading, Loaded
      <3>2. PlannedAdd(k, store, Loaded)
        BY <2>1, <2>4, <3>1 DEF PlannedAdd, Missing
      <3> QED
        BY <1>6, <2>4, <3>2 DEF Relies, Reading, Planned
    <2> QED
      BY <1>2, <2>2, <2>3, <2>4, <2>5, <2>6, Answers DEF JobOK
  <1> QED
    BY <1>2, <1>4, <1>5, <1>6 DEF Route

LEMMA FindInstanceByIDReads ==
  ASSUME Inv, NEW c \in Client, FindInstanceByID(c)
  PROVE  Reads(c)
  <1>1. PICK j, t : j = job[c] /\ t = j.task
    OBVIOUS
  <1>2. Shaped(j) /\ Route(j) /\ j.pc = "instance" /\ Arguments(j) /\ j.op = "execute" /\ t \in Task
        /\ (~j.overtaken => Relies(j, store, task, Loaded)) /\ At(c, "instance")
    BY <1>1 DEF Inv, JobOK, Route, FindInstanceByID, At, Arguments
  <1>3. PICK states, forms, objects, plan :
          /\ states = [u \in Task |-> IF u = t THEN Completed(j.row) ELSE task[u]]
          /\ forms = [u \in Task |-> IF u = t THEN j.forms ELSE Present(u)]
          /\ objects = {TaskRow(u) : u \in Task} \union {ActorRows(u) : u \in Task}
          /\ plan = <<UpdateTask(t, Completed(j.row), j.forms), UpdateInstance(states, forms)>>
    OBVIOUS
  <1>4. Proceed(c, Planning(j, plan), objects)
    BY <1>1, <1>3 DEF FindInstanceByID
  <1>5. PICK k : k = [Planning(j, plan) EXCEPT !.read = @ \union objects]
    OBVIOUS
  <1>6. /\ Shaped(k) /\ k.read = j.read \union objects
        /\ k.op = j.op /\ k.pc = "write" /\ k.task = t /\ k.who = j.who /\ k.to = j.to
        /\ k.plan = plan /\ k.was = People(Present(t))
        /\ k.overtaken = j.overtaken
    BY <1>1, <1>2, <1>5, PlanningKeeps, Reread
  <1>7. Route(k) /\ ~MidTransfer(k)
    BY <1>1, <1>2, <1>6 DEF Route, Steps, Arguments, MidTransfer
  <1>8. ASSUME ~k.overtaken PROVE Relies(k, store, task, Loaded)
    <2>1. task[t].open /\ j.row = task[t] /\ j.forms = Present(t) /\ Loaded[t] = Present(t)
      BY <1>1, <1>2, <1>6, <1>8 DEF Relies, Reading, Loaded
    <2>2. OnAll(k)
      BY <1>3, <1>6 DEF OnAll
    <2>3. forms = Loaded
      BY <1>3, <2>1 DEF Loaded
    <2>4. states = [task EXCEPT ![t] = Completed(task[t])]
      BY <1>3, <2>1 DEF Inv, TablesOK
    <2>5. PlannedExecute(k, task, Loaded)
      BY <1>3, <1>6, <2>1, <2>2, <2>3, <2>4, ZenonT(40) DEF PlannedExecute, Done
    <2> QED
      BY <1>2, <1>6, <2>5 DEF Relies, Reading, Planned
  <1> QED
    BY <1>2, <1>4, <1>5, <1>6, <1>7, <1>8, Answers DEF JobOK

\* Every call but a write.
LEMMA CallReads ==
  ASSUME Inv, NEW c \in Client,
         \/ taskAddActor(c) \/ taskTransfer(c) \/ taskRemoveActor(c) \/ execute(c)
         \/ FindTaskByID(c) \/ findTaskActors(c) \/ FindTaskActors(c) \/ existing(c)
         \/ FindInstanceByID(c)
  PROVE  Reads(c)
  BY taskAddActorReads, taskTransferReads, taskRemoveActorReads, executeReads, FindTaskByIDReads,
     findTaskActorsReads, FindTaskActorsReads, existingReads, FindInstanceByIDReads

-----------------------------------------------------------------------------
(* The calls that write. *)

LEMMA Planned1 ==
  ASSUME NEW a
  PROVE  Head(<<a>>) = a /\ Len(<<a>>) = 1
  OBVIOUS

LEMMA Planned2 ==
  ASSUME NEW a, NEW b
  PROVE  Head(<<a, b>>) = a /\ Len(<<a, b>>) = 2 /\ Tail(<<a, b>>) = <<b>>
  OBVIOUS

LEMMA Planned3 ==
  ASSUME NEW a, NEW b, NEW c
  PROVE  Head(<<a, b, c>>) = a /\ Len(<<a, b, c>>) = 3 /\ Tail(<<a, b, c>>) = <<b, c>>
  OBVIOUS

\* A write of c leaves forms and state in its row, and no other row changes.
Written(c, forms, state) ==
  /\ rows' = [rows EXCEPT ![job[c].task] = Once(forms)]
  /\ task' = [task EXCEPT ![job[c].task] = state]
  /\ forms \in SUBSET Form /\ UNCHANGED store

LEMMA RowAdded ==
  ASSUME TablesOK, NEW t \in Task, NEW new \in SUBSET Form, new \intersect Present(t) = {}
  PROVE  [f \in Form |-> IF f \in new THEN rows[t][f] + 1 ELSE rows[t][f]] = Once(Present(t) \union new)
  <1>1. \A f \in Form : rows[t][f] \in {0, 1}
    BY DEF TablesOK
  <1>2. \A f \in Form : f \in Present(t) <=> rows[t][f] = 1
    BY <1>1 DEF Present
  <1>3. \A f \in Form : (IF f \in new THEN rows[t][f] + 1 ELSE rows[t][f])
                          = IF f \in Present(t) \union new THEN 1 ELSE 0
    BY <1>1, <1>2
  <1> QED
    BY <1>3 DEF Once

LEMMA RowRemoved ==
  ASSUME TablesOK, NEW t \in Task, NEW gone
  PROVE  [f \in Form |-> IF f \in gone THEN 0 ELSE rows[t][f]] = Once(Present(t) \ gone)
  <1>1. \A f \in Form : rows[t][f] \in {0, 1}
    BY DEF TablesOK
  <1>2. \A f \in Form : f \in Present(t) <=> rows[t][f] = 1
    BY <1>1 DEF Present
  <1>3. \A f \in Form : (IF f \in gone THEN 0 ELSE rows[t][f])
                          = IF f \in Present(t) \ gone THEN 1 ELSE 0
    BY <1>1, <1>2
  <1> QED
    BY <1>3 DEF Once

\* The rows written back as they were loaded stay as they are.
LEMMA RowStored ==
  ASSUME TablesOK, NEW t \in Task
  PROVE  Once(Present(t)) = rows[t] /\ Stored(t, Present(t)) = rows[t]
  BY OncePresent DEF TablesOK, Stored

LEMMA Unwritten ==
  ASSUME TablesOK, NEW t \in Task
  PROVE  rows = [rows EXCEPT ![t] = Once(Present(t))] /\ task = [task EXCEPT ![t] = task[t]]
  BY RowStored DEF TablesOK

\* A person who is on a row in no spelling is not there in the trimmed one.
LEMMA MissingNew ==
  ASSUME NEW t, NEW people \in SUBSET User
  PROVE  /\ Missing(Present(t), people) = people \ People(Present(t))
         /\ (people \ People(Present(t))) \intersect Present(t) = {}
  <1>1. ASSUME NEW u \in people, u \in Present(t) PROVE u \in People(Present(t))
    BY <1>1, UserForms, PersonIn
  <1> QED
    BY <1>1 DEF Missing

LEMMA AddTaskActorWrites ==
  ASSUME Inv, NEW c \in Client, job[c].task \in Task,
         NEW people \in SUBSET User, NEW new, new = people \ People(Present(job[c].task)),
         NEW w, w = AddTaskActor(job[c].task, people) \/ (store = "jdbc" /\ w = AddTaskActor(job[c].task, new)),
         store = "jdbc" => w = AddTaskActor(job[c].task, new),
         rows' = RowsAfter(w), task' = TasksAfter(w), UNCHANGED store
  PROVE  Written(c, Present(job[c].task) \union new, task[job[c].task])
  <1>1. PICK t \in Task : t = job[c].task
    OBVIOUS
  <1>2. new \intersect Present(t) = {} /\ Missing(Present(t), people) = new /\ new \in SUBSET Form
    BY <1>1, MissingNew, UserForms
  <1>3. w.kind = "add" /\ w.task = t /\ (IF store = "memory" THEN Missing(Present(t), w.forms) ELSE w.forms) = new
    BY <1>1, <1>2 DEF AddTaskActor, Inv, TablesOK
  <1>4. rows' = [rows EXCEPT ![t] = [f \in Form |-> IF f \in new THEN @[f] + 1 ELSE @[f]]]
    BY <1>3 DEF RowsAfter
  <1>5. rows' = [rows EXCEPT ![t] = Once(Present(t) \union new)]
    BY <1>2, <1>4, RowAdded DEF Inv
  <1>6. task' = [task EXCEPT ![t] = task[t]]
    BY <1>3, Unwritten DEF TasksAfter, Inv
  <1> QED
    BY <1>1, <1>2, <1>5, <1>6, PresentForms DEF Written

LEMMA RemoveTaskActorWrites ==
  ASSUME Inv, NEW c \in Client, job[c].task \in Task,
         NEW gone, NEW w, w = RemoveTaskActor(job[c].task, gone),
         rows' = RowsAfter(w), task' = TasksAfter(w), UNCHANGED store
  PROVE  Written(c, Present(job[c].task) \ gone, task[job[c].task])
  <1>1. PICK t \in Task : t = job[c].task
    OBVIOUS
  <1>2. w.kind = "remove" /\ w.task = t /\ w.forms = gone
    BY <1>1 DEF RemoveTaskActor
  <1>3. rows' = [rows EXCEPT ![t] = [f \in Form |-> IF f \in gone THEN 0 ELSE @[f]]]
    BY <1>2 DEF RowsAfter
  <1>4. rows' = [rows EXCEPT ![t] = Once(Present(t) \ gone)]
    BY <1>3, RowRemoved DEF Inv
  <1>5. task' = [task EXCEPT ![t] = task[t]]
    BY <1>2, Unwritten DEF TasksAfter, Inv
  <1> QED
    BY <1>1, <1>4, <1>5, PresentForms DEF Written

LEMMA UpdateTaskWrites ==
  ASSUME Inv, NEW c \in Client, job[c].task \in Task,
         NEW forms \in SUBSET Form, NEW state, NEW w, w = UpdateTask(job[c].task, state, forms),
         forms # {} \/ forms = Present(job[c].task),
         rows' = RowsAfter(w), task' = TasksAfter(w), UNCHANGED store
  PROVE  Written(c, IF store = "memory" THEN forms ELSE Present(job[c].task), state)
  <1>1. PICK t \in Task : t = job[c].task
    OBVIOUS
  <1>2. w.kind = "update" /\ w.task = t /\ w.forms = forms /\ w.state = state
    BY <1>1 DEF UpdateTask
  <1>3. rows' = [rows EXCEPT ![t] = Stored(t, forms)] /\ task' = [task EXCEPT ![t] = state]
    BY <1>2 DEF RowsAfter, TasksAfter
  <1>4. Stored(t, forms) = Once(IF store = "memory" THEN forms ELSE Present(t))
    BY <1>1, RowStored DEF Stored, Inv
  <1> QED
    BY <1>1, <1>3, <1>4, PresentForms DEF Written

LEMMA UpdateInstanceWrites ==
  ASSUME Inv, NEW c \in Client, job[c].task \in Task,
         NEW w, w = UpdateInstance(task, Loaded),
         rows' = RowsAfter(w), task' = TasksAfter(w), UNCHANGED store
  PROVE  Written(c, Present(job[c].task), task[job[c].task])
  <1>1. PICK t \in Task : t = job[c].task
    OBVIOUS
  <1>2. w.kind = "cascade" /\ w.forms = Loaded /\ w.states = task
    BY DEF UpdateInstance
  <1>3. rows' = [u \in Task |-> Stored(u, Loaded[u])] /\ task' = task
    BY <1>2 DEF RowsAfter, TasksAfter
  <1>4. \A u \in Task : Stored(u, Loaded[u]) = rows[u]
    BY RowStored DEF Loaded, Inv
  <1>5. rows' = rows
    BY <1>3, <1>4 DEF Inv, TablesOK
  <1> QED
    BY <1>1, <1>3, <1>5, Unwritten, PresentForms DEF Written, Inv

\* The tables after a write.
LEMMA AfterWrite ==
  ASSUME Inv, NEW c \in Client, NEW t \in Task, t = job[c].task,
         NEW forms, NEW state, Written(c, forms, state)
  PROVE  /\ rows' \in [Task -> [Form -> {0, 1}]]
         /\ OfTasks(task) /\ OfTasks(Loaded) /\ OfTasks(task') /\ OfTasks(Loaded')
         /\ task'[t] = state /\ Loaded'[t] = forms /\ Loaded[t] = Present(t)
         /\ \A u \in Task : u # t => task'[u] = task[u] /\ Loaded'[u] = Loaded[u]
         /\ \A u \in Task : Loaded'[u] # Loaded[u] => rows'[u] # rows[u]
  <1>1. Once(forms) \in [Form -> {0, 1}]
    BY DEF Once
  <1>2. rows' = [rows EXCEPT ![t] = Once(forms)] /\ task' = [task EXCEPT ![t] = state] /\ forms \in SUBSET Form
    BY DEF Written
  <1>3. rows \in [Task -> [Form -> {0, 1}]] /\ task = [u \in Task |-> task[u]]
    BY DEF Inv, TablesOK
  <1>4. rows' \in [Task -> [Form -> {0, 1}]] /\ rows'[t] = Once(forms)
        /\ \A u \in Task : u # t => rows'[u] = rows[u]
    BY <1>1, <1>2, <1>3
  <1>5. \A u \in Task : Present(u)' = {f \in Form : rows'[u][f] > 0} /\ Present(u) = {f \in Form : rows[u][f] > 0}
    BY DEF Present
  <1>6. Present(t)' = forms
    <2>1. \A f \in Form : Once(forms)[f] > 0 <=> f \in forms
      BY <1>2 DEF Once
    <2>2. Present(t)' = {f \in Form : Once(forms)[f] > 0}
      BY <1>4, <1>5
    <2> QED
      BY <1>2, <2>1, <2>2
  <1>7. ASSUME NEW u \in Task, u # t PROVE Present(u)' = Present(u)
    <2>1. rows'[u] = rows[u]
      BY <1>4, <1>7
    <2> QED
      BY <1>5, <2>1
  <1>8. Loaded' = [u \in Task |-> Present(u)'] /\ Loaded = [u \in Task |-> Present(u)]
    BY DEF Loaded
  <1>10. task' = [u \in Task |-> IF u = t THEN state ELSE task[u]]
    BY <1>2, <1>3
  <1>11. OfTasks(task) /\ OfTasks(Loaded) /\ OfTasks(task') /\ OfTasks(Loaded')
    BY <1>3, <1>8, <1>10 DEF OfTasks
  <1>12. \A u \in Task : Loaded'[u] # Loaded[u] => rows'[u] # rows[u]
    BY <1>5, <1>8
  <1> QED
    BY <1>4, <1>6, <1>7, <1>8, <1>10, <1>11, <1>12

\* What c writes, as the others see it.
Objects ==
  {TaskRow(u) : u \in {v \in Task : task'[v] # task[v]}}
    \union {ActorRows(u) : u \in {v \in Task : rows'[v] # rows[v]}}

LEMMA WriteSeen ==
  ASSUME Inv, NEW c \in Client, WriteNext(c), NEW t \in Task, t = job[c].task,
         NEW forms, NEW state, Written(c, forms, state)
  PROVE  /\ \A u \in Task : /\ task'[u] # task[u] => TaskRow(u) \in Objects
                            /\ Loaded'[u] # Loaded[u] => ActorRows(u) \in Objects
         /\ ~disturbed' => /\ ~disturbed /\ ~job[c].overtaken
                           /\ \A d \in Client \ {c} : MidTransfer(job[d]) => job[d].read \intersect Objects = {}
         /\ job' = [d \in Client |-> job'[d]]
         /\ job'[c] = IF Len(job[c].plan) = 1 THEN Idle
                      ELSE [job[c] EXCEPT !.plan = Tail(@), !.read = @ \union Objects]
         /\ \A d \in Client \ {c} :
              job'[d] = [job[d] EXCEPT !.overtaken = @ \/ job[d].read \intersect Objects # {}]
  <1>1. task' = TasksAfter(Head(job[c].plan)) /\ rows' = RowsAfter(Head(job[c].plan))
    BY DEF WriteNext
  <1>2. Changes(Head(job[c].plan)) = Objects
    BY <1>1 DEF Changes, Objects
  <1>3. \A u \in Task : /\ task'[u] # task[u] => TaskRow(u) \in Objects
                        /\ Loaded'[u] # Loaded[u] => ActorRows(u) \in Objects
    <2>1. \A u \in Task : Loaded'[u] # Loaded[u] => rows'[u] # rows[u]
      BY AfterWrite
    <2> QED
      BY <2>1 DEF Objects
  <1>4. disturbed' = \/ disturbed \/ job[c].overtaken
                     \/ \E d \in Client \ {c} : MidTransfer(job[d]) /\ job[d].read \intersect Objects # {}
    BY <1>2 DEF WriteNext
  <1>5. job' = [d \in Client |->
                 IF d = c THEN IF Len(job[c].plan) = 1 THEN Idle
                               ELSE [job[c] EXCEPT !.plan = Tail(@), !.read = @ \union Objects]
                 ELSE [job[d] EXCEPT !.overtaken = @ \/ job[d].read \intersect Objects # {}]]
    BY <1>2 DEF WriteNext
  <1> HIDE DEF Objects
  <1> QED
    BY <1>3, <1>4, <1>5

\* The request of another caller is in order after a write, or marked.
LEMMA OthersKeep ==
  ASSUME Inv, NEW c \in Client, WriteNext(c), ~disturbed', NEW t \in Task, t = job[c].task,
         NEW forms, NEW state, Written(c, forms, state),
         NEW d \in Client, d # c
  PROVE  /\ JobOK(job'[d], store', task', Loaded')
         /\ MidTransfer(job'[d]) = MidTransfer(job[d])
         /\ job'[d].task = job[d].task /\ job'[d].pc = job[d].pc /\ job'[d].plan = job[d].plan
         /\ Handed(job'[d]) = Handed(job[d])
         /\ MidTransfer(job[d]) /\ job[d].task = t => forms = Present(t) /\ state = task[t]
  <1>0. /\ OfTasks(task) /\ OfTasks(Loaded) /\ OfTasks(task') /\ OfTasks(Loaded')
        /\ task'[t] = state /\ Loaded'[t] = forms /\ Loaded[t] = Present(t)
    BY AfterWrite
  <1>1. PICK i, k, objects, b :
          /\ i = job[d] /\ k = job'[d] /\ objects = Objects
          /\ b = (i.overtaken \/ i.read \intersect objects # {})
    OBVIOUS
  <1>2. /\ k = [i EXCEPT !.overtaken = b] /\ (MidTransfer(i) => i.read \intersect objects = {})
        /\ \A u \in Task : /\ task'[u] # task[u] => TaskRow(u) \in objects
                           /\ Loaded'[u] # Loaded[u] => ActorRows(u) \in objects
    BY <1>1, WriteSeen
  <1>3. JobOK(i, store, task, Loaded) /\ Shaped(i) /\ Route(i)
    BY <1>1 DEF Inv, JobOK
  <1>3a. b \in BOOLEAN
    BY <1>1, <1>3 DEF Shaped
  <1>4. /\ Shaped(k) /\ k.read = i.read
        /\ k.op = i.op /\ k.pc = i.pc /\ k.task = i.task /\ k.who = i.who /\ k.to = i.to
        /\ k.row = i.row /\ k.forms = i.forms /\ k.plan = i.plan /\ k.was = i.was
        /\ k.overtaken = b
    BY <1>2, <1>3, <1>3a, Overtaken
  <1>5. MidTransfer(i) => i.read \intersect objects = {} /\ ~i.overtaken /\ ~b
    BY <1>1, <1>2, <1>3 DEF JobOK, MidTransfer
  <1>6. Route(k) /\ MidTransfer(k) = MidTransfer(i) /\ Handed(k) = Handed(i)
    BY <1>3, <1>4 DEF Route, Arguments, MidTransfer, Handed
  <1>7. ASSUME ~b
        PROVE  k = i /\ SameTo(i, task, Loaded, task', Loaded')
    <2>1. k = i
      BY <1>1, <1>3, <1>4, <1>7 DEF Shaped
    <2>2. i.read \intersect objects = {}
      BY <1>1, <1>7
    <2> QED
      BY <1>2, <2>1, <2>2 DEF SameTo
  <1>8. ASSUME ~b, i.pc # "idle"
        PROVE  Relies(i, store, task', Loaded')
    <2>1. i.task \in Task /\ Relies(i, store, task, Loaded)
      BY <1>1, <1>3, <1>8 DEF Route, Arguments, JobOK
    <2> QED
      BY <1>0, <1>3, <1>7, <1>8, <2>1, ReliesStays
  <1>9. ASSUME i.pc = "idle"
        PROVE  Relies(i, store, task', Loaded')
    BY <1>9 DEF Relies, Reading
  <1>10. store' = store
    BY DEF Written
  <1>11. JobOK(k, store', task', Loaded')
    BY <1>4, <1>5, <1>6, <1>7, <1>8, <1>9, <1>10 DEF JobOK
  <1>12. ASSUME MidTransfer(i), i.task = t
         PROVE  forms = Present(t) /\ state = task[t]
    <2>1. OnRow(i)
      BY <1>3, <1>5, <1>12 DEF JobOK, Relies, Planned, PlannedTransfer, MidTransfer
    <2>2. TaskRow(t) \notin objects /\ ActorRows(t) \notin objects
      BY <1>5, <1>12, <2>1 DEF OnRow
    <2>3. task'[t] = task[t] /\ Loaded'[t] = Loaded[t]
      BY <1>2, <2>2
    <2> QED
      BY <1>0, <2>3
  <1> QED
    BY <1>1, <1>4, <1>6, <1>11, <1>12

\* Who writes has been left alone.
LEMMA WriterRelies ==
  ASSUME Inv, NEW c \in Client, WriteNext(c), ~disturbed'
  PROVE  /\ Shaped(job[c]) /\ Route(job[c]) /\ Arguments(job[c]) /\ job[c].pc = "write" /\ job[c].task \in Task
         /\ ~job[c].overtaken /\ Planned(job[c], store, task, Loaded) /\ Loaded[job[c].task] = Present(job[c].task)
         /\ rows' = RowsAfter(Head(job[c].plan)) /\ task' = TasksAfter(Head(job[c].plan)) /\ UNCHANGED store
  <1>1. JobOK(job[c], store, task, Loaded) /\ job[c].pc = "write" /\ ~job[c].overtaken
    BY DEF Inv, WriteNext, At
  <1>2. Route(job[c]) /\ Arguments(job[c]) /\ job[c].task \in Task
    BY <1>1 DEF JobOK, Route, Arguments
  <1>3. rows' = RowsAfter(Head(job[c].plan)) /\ task' = TasksAfter(Head(job[c].plan)) /\ UNCHANGED store
    BY DEF WriteNext
  <1> QED
    BY <1>1, <1>2, <1>3 DEF JobOK, Relies, Loaded

LEMMA addWrites ==
  ASSUME Inv, NEW c \in Client, WriteNext(c), ~disturbed', job[c].op = "add"
  PROVE  /\ Written(c, Present(job[c].task) \union (job[c].who \ People(Present(job[c].task))), task[job[c].task])
         /\ Len(job[c].plan) = 1
  <1>1. PICK j, t, who, new, w : /\ j = job[c] /\ t = j.task /\ who = j.who /\ w = Head(j.plan)
                                 /\ new = who \ People(Present(t))
    OBVIOUS
  <1>2. PlannedAdd(j, store, Loaded) /\ t \in Task /\ Loaded[t] = Present(t) /\ who \in SUBSET User
        /\ rows' = RowsAfter(w) /\ task' = TasksAfter(w) /\ UNCHANGED store
    BY <1>1, WriterRelies DEF Planned, Arguments
  <1>3. CASE store = "jdbc"
    <2>1. j.plan = <<AddTaskActor(t, new)>>
      BY <1>1, <1>2, <1>3 DEF PlannedAdd
    <2>2. w = AddTaskActor(t, new) /\ Len(j.plan) = 1
      BY <1>1, <2>1, Planned1
    <2> QED
      BY <1>1, <1>2, <1>3, <2>2, AddTaskActorWrites
  <1>4. CASE store # "jdbc"
    <2>1. j.plan = <<AddTaskActor(t, who)>>
      BY <1>1, <1>2, <1>4 DEF PlannedAdd
    <2>2. w = AddTaskActor(t, who) /\ Len(j.plan) = 1
      BY <1>1, <2>1, Planned1
    <2> QED
      BY <1>1, <1>2, <1>4, <2>2, AddTaskActorWrites
  <1> QED
    BY <1>3, <1>4

LEMMA removeWrites ==
  ASSUME Inv, NEW c \in Client, WriteNext(c), ~disturbed', job[c].op = "remove"
  PROVE  /\ Written(c, Present(job[c].task) \ ActorDeleteForms(Leaving(job[c], Loaded)), task[job[c].task])
         /\ Len(job[c].plan) = 1 /\ PlannedRemove(job[c], task, Loaded)
  <1>1. PlannedRemove(job[c], task, Loaded) /\ job[c].task \in Task
        /\ rows' = RowsAfter(Head(job[c].plan)) /\ task' = TasksAfter(Head(job[c].plan)) /\ UNCHANGED store
    BY WriterRelies DEF Planned
  <1>2. job[c].plan = <<RemoveTaskActor(job[c].task, ActorDeleteForms(Leaving(job[c], Loaded)))>>
    BY <1>1 DEF PlannedRemove, Deleting
  <1>3. Head(job[c].plan) = RemoveTaskActor(job[c].task, ActorDeleteForms(Leaving(job[c], Loaded)))
        /\ Len(job[c].plan) = 1
    BY <1>2, Planned1
  <1> QED
    BY <1>1, <1>3, RemoveTaskActorWrites

LEMMA transferWrites1 ==
  ASSUME Inv, NEW c \in Client, WriteNext(c), ~disturbed', job[c].op = "transfer",
         NEW forms, Before1(job[c], task, Loaded, forms)
  PROVE  /\ Written(c, Present(job[c].task) \ ActorDeleteForms(Leaving(job[c], Loaded)), task[job[c].task])
         /\ Len(job[c].plan) = 3 /\ Tail(job[c].plan) = <<Adding(job[c]), Updating(job[c], task, forms)>>
  <1>1. job[c].plan = <<RemoveTaskActor(job[c].task, ActorDeleteForms(Leaving(job[c], Loaded))),
                        Adding(job[c]), Updating(job[c], task, forms)>>
    BY DEF Before1, Deleting
  <1>2. Head(job[c].plan) = RemoveTaskActor(job[c].task, ActorDeleteForms(Leaving(job[c], Loaded)))
        /\ Len(job[c].plan) = 3 /\ Tail(job[c].plan) = <<Adding(job[c]), Updating(job[c], task, forms)>>
    BY <1>1, Planned3
  <1> QED
    BY <1>2, WriterRelies, RemoveTaskActorWrites

LEMMA transferWrites2 ==
  ASSUME Inv, NEW c \in Client, WriteNext(c), ~disturbed', job[c].op = "transfer",
         PlannedTransfer(job[c], task, Loaded), NEW forms, Before2(job[c], task, Loaded, forms)
  PROVE  /\ Written(c, Present(job[c].task) \union {job[c].to}, task[job[c].task])
         /\ Len(job[c].plan) = 2 /\ Tail(job[c].plan) = <<Updating(job[c], task, forms)>>
         /\ job[c].to \notin People(Present(job[c].task))
  <1>1. PICK j, t, to, people, w : /\ j = job[c] /\ t = j.task /\ to = j.to /\ w = Head(j.plan) /\ people = {to}
    OBVIOUS
  <1>2. t \in Task /\ Loaded[t] = Present(t) /\ people \in SUBSET User
        /\ rows' = RowsAfter(w) /\ task' = TasksAfter(w) /\ UNCHANGED store
    BY <1>1, WriterRelies DEF Arguments
  <1>3. to \notin People(Present(t))
    BY <1>1, <1>2 DEF Before2, PlannedTransfer
  <1>4. people = people \ People(Present(t))
    BY <1>1, <1>3
  <1>5. j.plan = <<AddTaskActor(t, people), Updating(j, task, forms)>>
    BY <1>1 DEF Before2, Adding
  <1>6. w = AddTaskActor(t, people) /\ Len(j.plan) = 2 /\ Tail(j.plan) = <<Updating(j, task, forms)>>
    BY <1>1, <1>5, Planned2
  <1> QED
    BY <1>1, <1>2, <1>3, <1>4, <1>6, AddTaskActorWrites

LEMMA transferWrites3 ==
  ASSUME Inv, NEW c \in Client, WriteNext(c), ~disturbed', job[c].op = "transfer",
         NEW forms, forms \in SUBSET Form, forms # {}, Before3(job[c], task, Loaded, forms)
  PROVE  /\ Written(c, IF store = "memory" THEN forms ELSE Present(job[c].task), Hop(task[job[c].task]))
         /\ Len(job[c].plan) = 1
  <1>1. job[c].plan = <<UpdateTask(job[c].task, Hop(task[job[c].task]), forms)>>
    BY DEF Before3, Updating
  <1>2. Head(job[c].plan) = UpdateTask(job[c].task, Hop(task[job[c].task]), forms) /\ Len(job[c].plan) = 1
    BY <1>1, Planned1
  <1> QED
    BY <1>2, WriterRelies, UpdateTaskWrites

LEMMA executeWrites ==
  ASSUME Inv, NEW c \in Client, WriteNext(c), ~disturbed', job[c].op = "execute"
  PROVE  /\ OnAll(job[c])
         /\ \/ /\ Written(c, Present(job[c].task), Completed(task[job[c].task]))
               /\ Len(job[c].plan) = 2 /\ task[job[c].task].open
               /\ Tail(job[c].plan) = <<UpdateInstance(task', Loaded)>>
            \/ Written(c, Present(job[c].task), task[job[c].task]) /\ Len(job[c].plan) = 1
  <1>1. PICK j, t, w, done : /\ j = job[c] /\ t = j.task /\ w = Head(j.plan) /\ done = Completed(task[t])
    OBVIOUS
  <1>2. PlannedExecute(j, task, Loaded) /\ t \in Task /\ Loaded[t] = Present(t)
        /\ rows' = RowsAfter(w) /\ task' = TasksAfter(w) /\ UNCHANGED store
    BY <1>1, WriterRelies DEF Planned
  <1>3. CASE j.plan = <<UpdateInstance(task, Loaded)>>
    <2>1. w = UpdateInstance(task, Loaded) /\ Len(j.plan) = 1
      BY <1>1, <1>3, Planned1
    <2> QED
      BY <1>1, <1>2, <2>1, UpdateInstanceWrites DEF PlannedExecute
  <1>4. CASE j.plan # <<UpdateInstance(task, Loaded)>>
    <2>1. j.plan = <<UpdateTask(t, done, Present(t)), UpdateInstance([task EXCEPT ![t] = done], Loaded)>>
          /\ task[t].open /\ OnAll(j)
      BY <1>1, <1>2, <1>4 DEF PlannedExecute, Done
    <2>2. w = UpdateTask(t, done, Present(t)) /\ Len(j.plan) = 2
          /\ Tail(j.plan) = <<UpdateInstance([task EXCEPT ![t] = done], Loaded)>>
      BY <1>1, <2>1, Planned2
    <2>3. Present(t) \in SUBSET Form
      BY PresentForms
    <2>4. Written(c, IF store = "memory" THEN Present(t) ELSE Present(t), done)
      BY <1>1, <1>2, <2>2, <2>3, UpdateTaskWrites
    <2>5. task' = [task EXCEPT ![t] = done]
      BY <1>1, <2>4 DEF Written
    <2> QED
      BY <1>1, <2>1, <2>2, <2>4, <2>5
  <1> QED
    BY <1>3, <1>4

\* A write that leaves everything in order: the row, and what c does next.
Orderly(c, forms, state) ==
  /\ Written(c, forms, state)
  /\ ApartAtFirst => Apart(forms)
  /\ state \in [open : BOOLEAN, hops : Nat] /\ state.hops >= task[job[c].task].hops
  /\ JobOK(job'[c], store', task', Loaded')
  /\ MidTransfer(job'[c]) =>
       /\ job'[c].task = job[c].task /\ Handed(job'[c]) = Handed(job[c])
       /\ MidTransfer(job[c]) \/ forms # Present(job[c].task)

\* What a write means to Membership.
Adds(j, forms, state) ==
  /\ j.op = "add" /\ Len(j.plan) = 1
  /\ People(forms) = People(Present(j.task)) \union j.who /\ state = task[j.task]
Leaves(j, forms, state) ==
  /\ j.op = "remove" /\ Len(j.plan) = 1
  /\ People(forms) = People(Present(j.task)) \ j.who /\ People(forms) # {}
  /\ forms # Present(j.task) /\ task[j.task].open /\ state = task[j.task]
Hands(j, k, forms, state) ==
  /\ j.op = "transfer" /\ Len(j.plan) = 3 /\ MidTransfer(k)
  /\ j.was = People(Present(j.task)) /\ j.who \subseteq j.was /\ j.to \notin j.was \ j.who
  /\ forms # Present(j.task) /\ task[j.task].open /\ state = task[j.task]
HandsOn(j, k, forms, state) ==
  /\ MidTransfer(j) /\ (state.open <=> task[j.task].open)
  /\ MidTransfer(k) \/ People(forms) = Handed(j)
Completes(j, k, forms, state) ==
  /\ j.op = "execute" /\ Len(j.plan) = 2 /\ Len(k.plan) = 1
  /\ forms = Present(j.task) /\ task[j.task].open /\ ~state.open
Cascades(j, forms, state) ==
  /\ j.op = "execute" /\ Len(j.plan) = 1
  /\ forms = Present(j.task) /\ state = task[j.task]
Means(j, k, forms, state) ==
  \/ Adds(j, forms, state) \/ Leaves(j, forms, state)
  \/ Hands(j, k, forms, state) \/ HandsOn(j, k, forms, state)
  \/ Completes(j, k, forms, state) \/ Cascades(j, forms, state)

\* The last write of a request.
LEMMA LastWrite ==
  ASSUME Inv, NEW c \in Client, WriteNext(c), job[c].task \in Task, Len(job[c].plan) = 1,
         NEW forms, NEW state, Written(c, forms, state), ApartAtFirst => Apart(forms),
         state \in [open : BOOLEAN, hops : Nat], state.hops >= task[job[c].task].hops
  PROVE  Orderly(c, forms, state)
  <1>1. job'[c] = Idle
    BY WriteSeen
  <1>2. JobOK(Idle, store', task', Loaded') /\ ~MidTransfer(Idle)
    BY IdleOK DEF MidTransfer, Idle
  <1> QED
    BY <1>1, <1>2 DEF Orderly

LEMMA StateFields ==
  ASSUME NEW r \in [open : BOOLEAN, hops : Nat], NEW o \in BOOLEAN, NEW n \in Nat
  PROVE  /\ [r EXCEPT !.open = o] \in [open : BOOLEAN, hops : Nat]
         /\ [r EXCEPT !.open = o].open = o /\ [r EXCEPT !.open = o].hops = r.hops
         /\ [r EXCEPT !.hops = n] \in [open : BOOLEAN, hops : Nat]
         /\ [r EXCEPT !.hops = n].open = r.open /\ [r EXCEPT !.hops = n].hops = n
         /\ r.hops \in Nat
  OBVIOUS

LEMMA StateTyped ==
  ASSUME TablesOK, NEW t \in Task
  PROVE  /\ task[t] \in [open : BOOLEAN, hops : Nat] /\ task[t].hops >= task[t].hops
         /\ Completed(task[t]) \in [open : BOOLEAN, hops : Nat]
         /\ Completed(task[t]).open = FALSE /\ Completed(task[t]).hops >= task[t].hops
         /\ Hop(task[t]) \in [open : BOOLEAN, hops : Nat]
         /\ Hop(task[t]).open = task[t].open /\ Hop(task[t]).hops >= task[t].hops
  <1>1. PICK r \in [open : BOOLEAN, hops : Nat] : r = task[t]
    BY DEF TablesOK
  <1>2. PICK n \in Nat : n = r.hops
    BY StateFields
  <1>3. n >= n /\ n + 1 \in Nat /\ n + 1 >= n
    OBVIOUS
  <1>4. Completed(r) \in [open : BOOLEAN, hops : Nat] /\ Completed(r).open = FALSE /\ Completed(r).hops = n
    BY <1>2, StateFields DEF Completed
  <1>5. Hop(r) \in [open : BOOLEAN, hops : Nat] /\ Hop(r).open = r.open /\ Hop(r).hops = n + 1
    BY <1>2, <1>3, StateFields DEF Hop
  <1> QED
    BY <1>1, <1>2, <1>3, <1>4, <1>5

LEMMA addOrderly ==
  ASSUME Inv, NEW c \in Client, WriteNext(c), ~disturbed', job[c].op = "add"
  PROVE  \E forms, state : Orderly(c, forms, state) /\ Means(job[c], job'[c], forms, state)
  <1>1. PICK t, people, new, here, forms :
          /\ t = job[c].task /\ people = job[c].who /\ here = Present(t)
          /\ new = people \ People(here) /\ forms = here \union new
    OBVIOUS
  <1>2. t \in Task /\ people \in SUBSET User /\ new \in SUBSET User /\ here \in SUBSET Form
    BY <1>1, WriterRelies, PresentForms DEF Arguments
  <1>3. Written(c, forms, task[t]) /\ Len(job[c].plan) = 1
    BY <1>1, addWrites
  <1>4. People(forms) = People(here) \union people
    <2>1. People(forms) = People(here) \union new
      BY <1>1, <1>2, PeopleUnion
    <2> QED
      BY <2>1, <1>1
  <1>5. ApartAtFirst => Apart(forms)
    <2> SUFFICES ASSUME ApartAtFirst PROVE Apart(forms)
      OBVIOUS
    <2>1. Apart(here) /\ new \intersect People(here) = {}
      BY <1>1, <1>2 DEF Inv, TablesOK
    <2> QED
      BY <1>1, <1>2, <2>1, ApartUnion
  <1>6. Orderly(c, forms, task[t])
    BY <1>1, <1>2, <1>3, <1>5, StateTyped, LastWrite DEF Inv
  <1> QED
    BY <1>1, <1>3, <1>4, <1>6 DEF Means, Adds

LEMMA RemainingPeople ==
  ASSUME NEW here \in SUBSET Form, NEW j, Remaining(j, dedupStrs(here)) # {}
  PROVE  People(here) \ j.who # {}
  <1>1. PICK p \in dedupStrs(here) : Of[p] # "" /\ Of[p] \notin j.who
    BY DEF Remaining
  <1>2. Of[p] \in People(here)
    BY <1>1, PersonIn DEF dedupStrs
  <1> QED
    BY <1>1, <1>2

LEMMA removeOrderly ==
  ASSUME Inv, NEW c \in Client, WriteNext(c), ~disturbed', job[c].op = "remove"
  PROVE  \E forms, state : Orderly(c, forms, state) /\ Means(job[c], job'[c], forms, state)
  <1>1. PICK j, t, who, here, gone, forms :
          /\ j = job[c] /\ t = j.task /\ who = j.who /\ here = Present(t)
          /\ gone = ActorDeleteForms({p \in dedupStrs(here) : Of[p] \in who}) /\ forms = here \ gone
    OBVIOUS
  <1>2. t \in Task /\ who \subseteq User /\ here \in SUBSET Form /\ Loaded[t] = here
    BY <1>1, WriterRelies, PresentForms DEF Arguments
  <1>3. Leaving(j, Loaded) = {p \in dedupStrs(here) : Of[p] \in who}
    BY <1>1, <1>2 DEF Leaving
  <1>4. Written(c, forms, task[t]) /\ Len(j.plan) = 1 /\ PlannedRemove(j, task, Loaded)
    BY <1>1, <1>3, removeWrites
  <1>5. People(forms) = People(here) \ who
    BY <1>1, <1>2, PeopleDeleted
  <1>6. People(forms) # {} /\ task[t].open
    BY <1>1, <1>2, <1>4, <1>5, RemainingPeople DEF PlannedRemove
  <1>7. forms # here
    <2>1. PICK p \in dedupStrs(here) : Of[p] \in who
      BY <1>3, <1>4 DEF PlannedRemove
    <2>2. p \in here /\ Of[p] # ""
      BY <1>2, <2>1, UserForms DEF dedupStrs
    <2>3. Of[p] \in People(here)
      BY <2>2, PersonIn
    <2> QED
      BY <1>5, <2>1, <2>3
  <1>8. ApartAtFirst => Apart(forms)
    <2>1. forms \in SUBSET here
      BY <1>1
    <2> QED
      BY <1>1, <1>2, <2>1, ApartSubset DEF Inv, TablesOK
  <1>9. Orderly(c, forms, task[t])
    BY <1>1, <1>2, <1>4, <1>8, StateTyped, LastWrite DEF Inv
  <1> QED
    BY <1>1, <1>4, <1>5, <1>6, <1>7, <1>9 DEF Means, Leaves

\* The request after a write that is not its last.
LEMMA NextWrite ==
  ASSUME Inv, NEW c \in Client, WriteNext(c), ~disturbed', Len(job[c].plan) # 1,
         NEW forms, NEW state, Written(c, forms, state)
  PROVE  LET j == job[c]
             k == job'[c]
         IN  /\ Shaped(k) /\ Route(k) /\ ~k.overtaken /\ (OnRow(j) => OnRow(k)) /\ (OnAll(j) => OnAll(k))
             /\ k.op = j.op /\ k.pc = "write" /\ k.task = j.task /\ k.who = j.who /\ k.to = j.to
             /\ k.plan = Tail(j.plan) /\ k.was = j.was /\ Handed(k) = Handed(j)
  <1>1. PICK j, k, plan, objects : j = job[c] /\ k = job'[c] /\ objects = Objects /\ plan = Tail(j.plan)
    OBVIOUS
  <1>2. Shaped(j) /\ Route(j) /\ j.pc = "write" /\ ~j.overtaken /\ j.task \in Task
    BY <1>1, WriterRelies
  <1>3. k = [j EXCEPT !.plan = plan, !.read = @ \union objects]
    BY <1>1, <1>2, WriteSeen
  <1>4. /\ Shaped(k) /\ k.read = j.read \union objects
        /\ k.op = j.op /\ k.pc = j.pc /\ k.task = j.task /\ k.who = j.who /\ k.to = j.to
        /\ k.row = j.row /\ k.forms = j.forms /\ k.plan = plan /\ k.was = j.was
        /\ k.overtaken = j.overtaken
    BY <1>2, <1>3 DEF Shaped
  <1>5. Route(k)
    BY <1>2, <1>4 DEF Route, Arguments
  <1> QED
    BY <1>1, <1>2, <1>4, <1>5 DEF OnRow, OnAll, Handed

\* A transfer between its writes.
LEMMA Between ==
  ASSUME NEW k, k.op = "transfer", k.pc = "write", Len(k.plan) \in {1, 2}
  PROVE  MidTransfer(k)
  <1>1. \A n \in {1, 2} : n < 3
    OBVIOUS
  <1>2. Len(k.plan) < 3
    BY <1>1
  <1> QED
    BY <1>2 DEF MidTransfer

LEMMA BetweenPlanned ==
  ASSUME NEW k, NEW s, NEW now, NEW here, Shaped(k), Route(k), ~k.overtaken,
         k.op = "transfer", k.pc = "write", PlannedTransfer(k, now, here)
  PROVE  JobOK(k, s, now, here)
  BY DEF JobOK, Relies, Reading, Planned

\* A transfer once its first write is done.
LEMMA Deleted ==
  ASSUME NEW k, NEW now, NEW here, NEW last,
         k.plan = <<Adding(k), Updating(k, now, last)>>, People(here[k.task]) = k.was \ k.who
  PROVE  Before2(k, now, here, last)
  BY DEF Before2

LEMMA PeopleLeaving ==
  ASSUME NEW j, NEW here, here[j.task] \subseteq Form
  PROVE  People(here[j.task] \ ActorDeleteForms(Leaving(j, here))) = People(here[j.task]) \ j.who
  <1>1. PICK forms \in SUBSET Form : forms = here[j.task]
    OBVIOUS
  <1>2. PICK who, gone : who = j.who /\ gone = ActorDeleteForms({p \in dedupStrs(forms) : Of[p] \in who})
    OBVIOUS
  <1>3. People(forms \ gone) = People(forms) \ who
    BY <1>2, PeopleDeleted
  <1>4. gone = ActorDeleteForms(Leaving(j, here))
    BY <1>1, <1>2 DEF Leaving
  <1> QED
    BY <1>1, <1>2, <1>3, <1>4

LEMMA transferOrderly1 ==
  ASSUME Inv, NEW c \in Client, WriteNext(c), ~disturbed', job[c].op = "transfer",
         PlannedTransfer(job[c], task, Loaded),
         NEW last, last \in SUBSET Form, Left(job[c], last), Before1(job[c], task, Loaded, last)
  PROVE  \E forms, state : Orderly(c, forms, state) /\ Means(job[c], job'[c], forms, state)
  <1>1. PICK j, k, t, who, here, gone, forms :
          /\ j = job[c] /\ k = job'[c] /\ t = j.task /\ who = j.who /\ here = Present(t)
          /\ gone = ActorDeleteForms({p \in dedupStrs(here) : Of[p] \in who}) /\ forms = here \ gone
    OBVIOUS
  <1>2. t \in Task /\ here \in SUBSET Form /\ Loaded[t] = here
    BY <1>1, WriterRelies, PresentForms DEF Arguments
  <1>3. Leaving(j, Loaded) = {p \in dedupStrs(here) : Of[p] \in who}
    BY <1>1, <1>2 DEF Leaving
  <1>4. /\ Written(c, forms, task[t])
        /\ Len(j.plan) = 3 /\ Tail(j.plan) = <<Adding(j), Updating(j, task, last)>>
    BY <1>1, <1>3, transferWrites1
  <1>5. /\ Shaped(k) /\ Route(k) /\ ~k.overtaken /\ OnRow(k)
        /\ k.op = j.op /\ k.pc = "write" /\ k.task = j.task /\ k.who = j.who /\ k.to = j.to
        /\ k.plan = Tail(j.plan) /\ k.was = j.was /\ Handed(k) = Handed(j)
    BY <1>1, <1>4, NextWrite DEF PlannedTransfer
  <1>6. /\ task[t].open /\ j.to \notin j.was \ who
        /\ j.was = People(here) /\ who \subseteq j.was
    BY <1>1, <1>2 DEF PlannedTransfer, Before1
  <1>7. People(forms) = People(here) \ who
    <2>1. People(Loaded[j.task] \ ActorDeleteForms(Leaving(j, Loaded))) = People(Loaded[j.task]) \ j.who
      BY <1>1, <1>2, PeopleLeaving
    <2> QED
      BY <1>1, <1>2, <1>3, <2>1
  <1>8. forms # here
    <2>1. who # {}
      BY <1>1, WriterRelies DEF Arguments
    <2> QED
      BY <1>6, <1>7, <2>1
  <1>9. ApartAtFirst => Apart(forms)
    <2>1. forms \in SUBSET here
      BY <1>1
    <2> QED
      BY <1>1, <1>2, <2>1, ApartSubset DEF Inv, TablesOK
  <1>10. task'[t] = task[t] /\ Loaded'[t] = forms
    BY <1>1, <1>2, <1>4, AfterWrite, SMTT(30)
  <1>11. JobOK(k, store', task', Loaded') /\ MidTransfer(k)
    <2>1. k.plan = <<Adding(k), Updating(k, task', last)>>
      BY <1>1, <1>4, <1>5, <1>10 DEF Adding, Updating
    <2>2. Before2(k, task', Loaded', last)
      <3>1. k.task = t /\ k.who = who /\ k.was = j.was
        BY <1>1, <1>5
      <3>2. People(Loaded'[k.task]) = k.was \ k.who
        BY <1>6, <1>7, <1>10, <3>1
      <3> QED
        BY <2>1, <3>2, Deleted
    <2>2a. Left(k, last)
      BY <1>1, <1>5 DEF Left
    <2>3. PlannedTransfer(k, task', Loaded')
      BY <1>1, <1>5, <1>6, <1>10, <2>2, <2>2a DEF PlannedTransfer
    <2>4. k.op = "transfer"
      BY <1>1, <1>5
    <2>5. Len(k.plan) \in {1, 2}
      BY <2>1, Planned2
    <2>6. JobOK(k, store', task', Loaded')
      BY <1>5, <2>3, <2>4, BetweenPlanned
    <2> QED
      BY <1>5, <2>4, <2>5, <2>6, Between
  <1>12. Orderly(c, forms, task[t])
    BY <1>1, <1>2, <1>4, <1>5, <1>8, <1>9, <1>11, StateTyped DEF Orderly, Inv
  <1>13. Hands(j, k, forms, task[t])
    BY <1>1, <1>4, <1>6, <1>8, <1>11 DEF Hands
  <1> QED
    BY <1>1, <1>12, <1>13 DEF Means

LEMMA transferOrderly2 ==
  ASSUME Inv, NEW c \in Client, WriteNext(c), ~disturbed', job[c].op = "transfer",
         PlannedTransfer(job[c], task, Loaded),
         NEW last, last \in SUBSET Form, Left(job[c], last), Before2(job[c], task, Loaded, last)
  PROVE  \E forms, state : Orderly(c, forms, state) /\ Means(job[c], job'[c], forms, state)
  <1>1. PICK j, k, t, to, people, here, forms :
          /\ j = job[c] /\ k = job'[c] /\ t = j.task /\ to = j.to /\ here = Present(t)
          /\ people = {to} /\ forms = here \union people
    OBVIOUS
  <1>2. t \in Task /\ people \in SUBSET User /\ here \in SUBSET Form /\ Loaded[t] = here
    BY <1>1, WriterRelies, PresentForms DEF Arguments
  <1>3. /\ Written(c, forms, task[t])
        /\ Len(j.plan) = 2 /\ Tail(j.plan) = <<Updating(j, task, last)>>
        /\ to \notin People(here)
    BY <1>1, transferWrites2
  <1>4. /\ Shaped(k) /\ Route(k) /\ ~k.overtaken /\ OnRow(k)
        /\ k.op = j.op /\ k.pc = "write" /\ k.task = j.task /\ k.who = j.who /\ k.to = j.to
        /\ k.plan = Tail(j.plan) /\ k.was = j.was /\ Handed(k) = Handed(j)
    BY <1>1, <1>3, NextWrite DEF PlannedTransfer
  <1>5. /\ task[t].open /\ to \notin j.was \ j.who /\ People(here) = j.was \ j.who
    BY <1>1, <1>2 DEF PlannedTransfer, Before2
  <1>6. People(forms) = Handed(j)
    <2>1. People(forms) = People(here) \union people
      BY <1>1, <1>2, PeopleUnion
    <2> QED
      BY <1>1, <1>5, <2>1 DEF Handed
  <1>7. ApartAtFirst => Apart(forms)
    <2> SUFFICES ASSUME ApartAtFirst PROVE Apart(forms)
      OBVIOUS
    <2>1. Apart(here) /\ people \intersect People(here) = {}
      BY <1>1, <1>2, <1>3 DEF Inv, TablesOK
    <2> QED
      BY <1>1, <1>2, <2>1, ApartUnion
  <1>8. task'[t] = task[t] /\ Loaded'[t] = forms
    BY <1>1, <1>2, <1>3, AfterWrite
  <1>9. JobOK(k, store', task', Loaded') /\ MidTransfer(k) /\ MidTransfer(j)
    <2>1. k.plan = <<Updating(k, task', last)>>
      BY <1>1, <1>3, <1>4, <1>8 DEF Updating
    <2>2. Before3(k, task', Loaded', last) /\ Left(k, last)
      BY <1>1, <1>4, <1>6, <1>8, <2>1 DEF Before3, Left
    <2>3. PlannedTransfer(k, task', Loaded')
      BY <1>1, <1>4, <1>5, <1>8, <2>2 DEF PlannedTransfer
    <2>4. k.op = "transfer" /\ j.op = "transfer" /\ j.pc = "write"
      BY <1>1, <1>4, WriterRelies
    <2>5. Len(k.plan) \in {1, 2} /\ Len(j.plan) \in {1, 2}
      BY <1>3, <2>1, Planned1
    <2>6. JobOK(k, store', task', Loaded')
      BY <1>4, <2>3, <2>4, BetweenPlanned
    <2> QED
      BY <1>4, <2>4, <2>5, <2>6, Between
  <1>10. Orderly(c, forms, task[t])
    BY <1>1, <1>2, <1>3, <1>4, <1>7, <1>9, StateTyped DEF Orderly, Inv
  <1>11. HandsOn(j, k, forms, task[t])
    BY <1>1, <1>9 DEF HandsOn
  <1> QED
    BY <1>1, <1>10, <1>11 DEF Means

LEMMA transferOrderly3 ==
  ASSUME Inv, NEW c \in Client, WriteNext(c), ~disturbed', job[c].op = "transfer",
         PlannedTransfer(job[c], task, Loaded),
         NEW last, last \in SUBSET Form, Left(job[c], last), Before3(job[c], task, Loaded, last)
  PROVE  \E forms, state : Orderly(c, forms, state) /\ Means(job[c], job'[c], forms, state)
  <1>1. PICK t, here, forms :
          /\ t = job[c].task /\ here = Present(t) /\ forms = IF store = "memory" THEN last ELSE here
    OBVIOUS
  <1>2. t \in Task /\ Loaded[t] = here
    BY <1>1, WriterRelies
  <1>3. Written(c, forms, Hop(task[t])) /\ Len(job[c].plan) = 1
    BY <1>1, transferWrites3 DEF Left
  <1>4. People(forms) = Handed(job[c])
    BY <1>1, <1>2 DEF Left, Before3
  <1>5. ApartAtFirst => Apart(forms)
    BY <1>1, <1>2 DEF Left, Inv, TablesOK
  <1>6. Orderly(c, forms, Hop(task[t]))
    BY <1>1, <1>2, <1>3, <1>5, StateTyped, LastWrite DEF Inv
  <1>7. MidTransfer(job[c])
    BY <1>3, WriterRelies DEF MidTransfer
  <1>8. HandsOn(job[c], job'[c], forms, Hop(task[t]))
    BY <1>1, <1>2, <1>4, <1>7, StateTyped DEF HandsOn, Inv
  <1> QED
    BY <1>6, <1>8 DEF Means

LEMMA executeOrderly ==
  ASSUME Inv, NEW c \in Client, WriteNext(c), ~disturbed', job[c].op = "execute"
  PROVE  \E forms, state : Orderly(c, forms, state) /\ Means(job[c], job'[c], forms, state)
  <1>1. PICK j, k, t, here : j = job[c] /\ k = job'[c] /\ t = j.task /\ here = Present(t)
    OBVIOUS
  <1>2. t \in Task /\ Loaded[t] = here /\ OnAll(j)
    BY <1>1, WriterRelies, executeWrites
  <1>3. ApartAtFirst => Apart(here)
    BY <1>1, <1>2 DEF Inv, TablesOK
  <1>4. CASE Written(c, here, task[t]) /\ Len(j.plan) = 1
    <2>1. Orderly(c, here, task[t])
      BY <1>1, <1>2, <1>3, <1>4, StateTyped, LastWrite DEF Inv
    <2> QED
      BY <1>1, <1>4, <2>1 DEF Means, Cascades
  <1>5. CASE /\ Written(c, here, Completed(task[t])) /\ Len(j.plan) = 2 /\ task[t].open
             /\ Tail(j.plan) = <<UpdateInstance(task', Loaded)>>
    <2>1. /\ Shaped(k) /\ Route(k) /\ ~k.overtaken /\ OnAll(k)
          /\ k.op = "execute" /\ k.pc = "write" /\ k.plan = Tail(j.plan)
      BY <1>1, <1>2, <1>5, NextWrite
    <2>2. Loaded' = Loaded
      <3>1. OfTasks(Loaded) /\ OfTasks(Loaded') /\ Loaded'[t] = here
            /\ \A v \in Task : v # t => Loaded'[v] = Loaded[v]
        BY <1>1, <1>2, <1>5, AfterWrite
      <3>2. \A v \in Task : Loaded'[v] = Loaded[v]
        BY <1>2, <3>1
      <3> QED
        BY <3>1, <3>2 DEF OfTasks
    <2>3. PlannedExecute(k, task', Loaded')
      BY <1>5, <2>1, <2>2 DEF PlannedExecute
    <2>4. JobOK(k, store', task', Loaded') /\ ~MidTransfer(k)
      BY <2>1, <2>3 DEF JobOK, MidTransfer, Relies, Reading, Planned
    <2>5. Orderly(c, here, Completed(task[t]))
      BY <1>1, <1>2, <1>3, <1>5, <2>4, StateTyped DEF Orderly, Inv
    <2>6. Completes(j, k, here, Completed(task[t]))
      <3>1. Len(k.plan) = 1
        BY <1>5, <2>1, Planned1
      <3> QED
        BY <1>1, <1>2, <1>5, <3>1, StateTyped DEF Completes, Inv
    <2> QED
      BY <1>1, <2>5, <2>6 DEF Means
  <1> QED
    BY <1>1, <1>4, <1>5, executeWrites

LEMMA WriteOrderly ==
  ASSUME Inv, NEW c \in Client, WriteNext(c), ~disturbed'
  PROVE  \E forms, state : Orderly(c, forms, state) /\ Means(job[c], job'[c], forms, state)
  <1>1. job[c].op \in Handlers /\ Planned(job[c], store, task, Loaded)
    BY WriterRelies DEF Arguments
  <1>2. CASE job[c].op = "transfer"
    <2>1. PlannedTransfer(job[c], task, Loaded)
      BY <1>1, <1>2 DEF Planned
    <2>2. PICK last \in SUBSET Form : Left(job[c], last) /\ (\/ Before1(job[c], task, Loaded, last)
                                                          \/ Before2(job[c], task, Loaded, last)
                                                          \/ Before3(job[c], task, Loaded, last))
      BY <2>1 DEF PlannedTransfer
    <2> QED
      BY <1>2, <2>1, <2>2, transferOrderly1, transferOrderly2, transferOrderly3
  <1> QED
    BY <1>1, <1>2, addOrderly, removeOrderly, executeOrderly DEF Handlers

LEMMA WriteKeeps ==
  ASSUME Inv, NEW c \in Client, WriteNext(c), ~disturbed'
  PROVE  Inv'
  <1>1. PICK forms, state : Orderly(c, forms, state)
    BY WriteOrderly
  <1>2. PICK t \in Task : t = job[c].task
    BY WriterRelies
  <1>3. Written(c, forms, state) /\ forms \in SUBSET Form
    BY <1>1 DEF Orderly, Written
  <1>4. TablesOK'
    <2>1. store' = store /\ rows' \in [Task -> [Form -> {0, 1}]]
      BY <1>2, <1>3, AfterWrite DEF Written
    <2>2. task' \in [Task -> [open : BOOLEAN, hops : Nat]]
      <3>1. task' = [task EXCEPT ![t] = state] /\ state \in [open : BOOLEAN, hops : Nat]
        BY <1>1, <1>2, <1>3 DEF Orderly, Written
      <3> QED
        BY <3>1 DEF Inv, TablesOK
    <2>3. ASSUME ApartAtFirst, NEW v \in Task PROVE Apart(Present(v)')
      <3>1. Present(v)' = Loaded'[v] /\ Present(v) = Loaded[v]
        BY DEF Loaded
      <3>2. Loaded'[t] = forms /\ (v # t => Loaded'[v] = Loaded[v])
        BY <1>2, <1>3, AfterWrite
      <3>3. Apart(forms) /\ Apart(Present(v))
        BY <1>1, <2>3 DEF Orderly, Inv, TablesOK
      <3> QED
        BY <3>1, <3>2, <3>3
    <2> QED
      BY <2>1, <2>2, <2>3 DEF TablesOK, Inv, Apart, ApartAtFirst
  <1>5. ASSUME NEW d \in Client PROVE JobOK(job'[d], store', task', Loaded')
    BY <1>1, <1>2, <1>3, OthersKeep DEF Orderly
  <1>6. job' = [d \in Client |-> job'[d]]
    BY <1>2, <1>3, WriteSeen
  <1>7. OneAtATime'
    <2> SUFFICES ASSUME NEW d \in Client, NEW e \in Client,
                        MidTransfer(job'[d]), MidTransfer(job'[e]), job'[d].task = job'[e].task
                 PROVE  d = e
      BY DEF OneAtATime
    <2>1. ASSUME NEW x \in Client, x # c
          PROVE  /\ MidTransfer(job'[x]) = MidTransfer(job[x]) /\ job'[x].task = job[x].task
                 /\ MidTransfer(job[x]) /\ job[x].task = t => forms = Present(t)
      BY <1>2, <1>3, <2>1, OthersKeep
    <2>2. MidTransfer(job'[c]) => job'[c].task = t /\ (MidTransfer(job[c]) \/ forms # Present(t))
      BY <1>1, <1>2 DEF Orderly
    <2>3. \A x, y \in Client : MidTransfer(job[x]) /\ MidTransfer(job[y]) /\ job[x].task = job[y].task => x = y
      BY DEF Inv, OneAtATime
    <2>4. CASE d # c /\ e # c
      BY <2>1, <2>3, <2>4
    <2>5. CASE d = c /\ e # c
      BY <1>2, <2>1, <2>2, <2>3, <2>5
    <2>6. CASE d # c /\ e = c
      BY <1>2, <2>1, <2>2, <2>3, <2>6
    <2> QED
      BY <2>4, <2>5, <2>6
  <1> QED
    BY <1>4, <1>5, <1>6, <1>7 DEF Inv

\* Every step keeps what is disturbed so, and calls of others are calls of theirs.
LEMMA StepOf ==
  ASSUME IInv, Next
  PROVE  /\ disturbed' \in BOOLEAN /\ (disturbed => disturbed')
         /\ ~disturbed' => Inv /\ \E c \in Client : Reads(c) \/ WriteNext(c)
  <1>1. PICK c \in Client :
          \/ taskAddActor(c) \/ taskTransfer(c) \/ taskRemoveActor(c) \/ execute(c)
          \/ FindTaskByID(c) \/ findTaskActors(c) \/ FindTaskActors(c) \/ existing(c)
          \/ FindInstanceByID(c) \/ WriteNext(c)
    BY DEF Next
  <1>2a. taskAddActor(c) \/ taskTransfer(c) \/ taskRemoveActor(c) \/ execute(c) => UNCHANGED disturbed
    BY DEF taskAddActor, taskTransfer, taskRemoveActor, execute, Enter, Proceed
  <1>2b. FindTaskByID(c) \/ findTaskActors(c) \/ FindTaskActors(c) => UNCHANGED disturbed
    BY DEF FindTaskByID, findTaskActors, FindTaskActors, End, Proceed
  <1>2c. existing(c) \/ FindInstanceByID(c) => UNCHANGED disturbed
    BY DEF existing, FindInstanceByID, End, Proceed
  <1>2. UNCHANGED disturbed \/ WriteNext(c)
    BY <1>1, <1>2a, <1>2b, <1>2c
  <1>3. WriteNext(c) => disturbed' \in BOOLEAN /\ (disturbed => disturbed')
    BY DEF WriteNext
  <1>4. disturbed' \in BOOLEAN /\ (disturbed => disturbed')
    BY <1>2, <1>3 DEF IInv
  <1>5. ASSUME ~disturbed' PROVE Inv
    BY <1>4, <1>5 DEF IInv
  <1> QED
    BY <1>1, <1>4, <1>5, CallReads

\* Until a request writes that was overtaken, the tables are as they should be,
\* and every request can rely on what it has read.
THEOREM Inductive == Spec => []IInv
  <1>1. Init => IInv
    BY InitInv
  <1>2. IInv /\ [Next]_vars => IInv'
    <2> SUFFICES ASSUME IInv, [Next]_vars PROVE IInv'
      OBVIOUS
    <2>1. CASE Next
      <3>1. ASSUME ~disturbed' PROVE Inv'
        <4>1. PICK c \in Client : Reads(c) \/ WriteNext(c)
          BY <2>1, <3>1, StepOf
        <4>2. Inv
          BY <2>1, <3>1, StepOf
        <4>3. CASE Reads(c)
          BY <4>2, <4>3, ReadKeeps DEF Reads
        <4> QED
          BY <3>1, <4>1, <4>2, <4>3, WriteKeeps
      <3> QED
        BY <2>1, <3>1, StepOf DEF IInv
    <2>2. CASE UNCHANGED vars
      BY <2>2 DEF vars, IInv, Inv, TablesOK, OneAtATime, Loaded, Present
    <2> QED
      BY <2>1, <2>2
  <1> QED
    BY <1>1, <1>2, PTL DEF Spec

\* A row holds a participant once, in one spelling, if that is so at first
\* (the writers store trimmed names and delete a person in every spelling).
THEOREM OnceEach == ASSUME ApartAtFirst PROVE Spec => []OneRowEach
  <1>1. ASSUME IInv PROVE OneRowEach
    <2> SUFFICES ASSUME ~disturbed, NEW t \in Task, NEW f \in Present(t)
                 PROVE  /\ rows[t][f] = 1
                        /\ Of[f] # "" => \A g \in Present(t) : Of[g] = Of[f] => g = f
      BY DEF OneRowEach
    <2>1. TablesOK
      BY <1>1 DEF IInv, Inv
    <2>2. rows[t][f] = 1
      BY <2>1 DEF TablesOK, Present
    <2>3. Apart(Present(t))
      BY <2>1 DEF TablesOK
    <2> QED
      BY <2>2, <2>3 DEF Apart
  <1> QED
    BY <1>1, Inductive, PTL

-----------------------------------------------------------------------------
(* The ledger.  The invariant above says nothing once a request has written *)
(* that was overtaken; this one always holds.  A request that was not       *)
(* overtaken finds the ledger as it has read it, and adds to that, whatever *)
(* the others have done.                                                    *)

RowStates == [open : BOOLEAN, hops : Nat]

\* The kinds of writes: some leave the ledger alone, others store it with the row.
Spares(w) == w.kind \in {"add", "remove"}
StoresRow(w) == w.kind = "update" /\ w.task \in Task /\ w.state \in RowStates
StoresAll(w) == w.kind = "cascade" /\ w.states \in [Task -> RowStates]

\* A write stores at least the ledger the row has, and what it stores was read.
Raises(read, w, now) ==
  /\ w.kind = "update" => TaskRow(w.task) \in read /\ now[w.task].hops <= w.state.hops
  /\ w.kind = "cascade" => \A t \in Task : TaskRow(t) \in read /\ now[t].hops <= w.states[t].hops
Raising(read, p, now) == \A k \in 1 .. Len(p) : Raises(read, p[k], now)

\* The writes left: those of one call, those of a completion, those of a transfer.
OneLeft(p) == p = <<p[1]>> /\ (Spares(p[1]) \/ StoresRow(p[1]) \/ StoresAll(p[1]))
TwoLeft(p) ==
  /\ p = <<p[1], p[2]>>
  /\ \/ Spares(p[1]) /\ StoresRow(p[2])
     \/ StoresRow(p[1]) /\ StoresAll(p[2]) /\ p[2].states[p[1].task] = p[1].state
ThreeLeft(p) == p = <<p[1], p[2], p[3]>> /\ Spares(p[1]) /\ Spares(p[2]) /\ StoresRow(p[3])

LedgerPlanned(j, now) ==
  /\ OneLeft(j.plan) \/ TwoLeft(j.plan) \/ ThreeLeft(j.plan)
  /\ ~j.overtaken => Raising(j.read, j.plan, now)

\* The row a request has loaded, and works on.
Loads(j) == j.pc \in {"joined", "actors", "instance"} \/ (j.pc = "existing" /\ j.op = "transfer")

LedgerRead(j, now) ==
  /\ Shaped(j)
  /\ j.pc \in {"task", "joined", "actors", "existing", "instance"} => j.task \in Task
  /\ Loads(j) => /\ j.row \in RowStates
                 /\ ~j.overtaken => TaskRow(j.task) \in j.read /\ j.row = now[j.task]
  /\ j.pc = "write" => LedgerPlanned(j, now)

LedgerInv ==
  /\ task \in [Task -> RowStates]
  /\ job = [c \in Client |-> job[c]] /\ \A c \in Client : LedgerRead(job[c], task)

LEMMA RowFields ==
  ASSUME NEW r \in RowStates
  PROVE  /\ r.hops \in Nat /\ r.hops <= r.hops
         /\ Completed(r) \in RowStates /\ Completed(r).hops = r.hops
         /\ Hop(r) \in RowStates /\ Hop(r).hops = r.hops + 1 /\ r.hops <= Hop(r).hops
  <1>1. r.hops \in Nat /\ r \in [open : BOOLEAN, hops : Nat]
    BY DEF RowStates
  <1>2. r.hops + 1 \in Nat /\ r.hops <= r.hops + 1 /\ r.hops <= r.hops
    BY <1>1
  <1>3. [r EXCEPT !.open = FALSE] \in [open : BOOLEAN, hops : Nat] /\ [r EXCEPT !.open = FALSE].hops = r.hops
    BY <1>1, StateFields
  <1>4. /\ [r EXCEPT !.hops = r.hops + 1] \in [open : BOOLEAN, hops : Nat]
        /\ [r EXCEPT !.hops = r.hops + 1].hops = r.hops + 1
    BY <1>1, <1>2, StateFields
  <1>5. Hop(r) = [r EXCEPT !.hops = r.hops + 1]
    BY DEF Hop
  <1> QED
    BY <1>1, <1>2, <1>3, <1>4, <1>5 DEF RowStates, Completed

LEMMA LedgerInit == Init => LedgerInv
  <1> SUFFICES ASSUME Init PROVE LedgerInv
    OBVIOUS
  <1>1. task \in [Task -> RowStates]
    BY DEF Init, RowStates
  <1>2. LedgerRead(Idle, task)
    BY DEF LedgerRead, Shaped, Idle, Loads
  <1> QED
    BY <1>1, <1>2 DEF Init, LedgerInv

\* A request that goes on, and one that begins or ends.
LedgerReads(c) == UNCHANGED task /\ job' = [job EXCEPT ![c] = job'[c]] /\ LedgerRead(job'[c], task)

LEMMA LedgerAnswers ==
  ASSUME LedgerInv, NEW c \in Client, NEW i, NEW objects, Proceed(c, i, objects),
         LedgerRead([i EXCEPT !.read = @ \union objects], task)
  PROVE  LedgerReads(c)
  <1>1. job' = [job EXCEPT ![c] = [i EXCEPT !.read = @ \union objects]] /\ UNCHANGED task
    BY DEF Proceed
  <1>2. job'[c] = [i EXCEPT !.read = @ \union objects]
    BY <1>1 DEF LedgerInv
  <1> QED
    BY <1>1, <1>2 DEF LedgerReads

LEMMA LedgerEnds ==
  ASSUME LedgerInv, NEW c \in Client, End(c)
  PROVE  LedgerReads(c)
  <1>1. Shaped(Idle) /\ Idle.pc = "idle"
    BY DEF Shaped, Idle
  <1>2. PICK k : k = [Idle EXCEPT !.read = @ \union {}]
    OBVIOUS
  <1>3. LedgerRead(k, task)
    BY <1>1, <1>2, Reread DEF LedgerRead, Loads
  <1> QED
    BY <1>2, <1>3, LedgerAnswers DEF End

LEMMA LedgerKept ==
  ASSUME LedgerInv, NEW c \in Client, LedgerReads(c)
  PROVE  LedgerInv'
  <1>1. job' = [d \in Client |-> IF d = c THEN job'[c] ELSE job[d]]
    BY DEF LedgerInv, LedgerReads
  <1>2. \A d \in Client : LedgerRead(job'[d], task)
    BY <1>1 DEF LedgerInv, LedgerReads
  <1> QED
    BY <1>1, <1>2 DEF LedgerInv, LedgerReads

\* The writes a request plans.
LEMMA LedgerPlans ==
  ASSUME LedgerInv, NEW c \in Client, NEW j, Shaped(j), NEW plan, NEW objects,
         Proceed(c, Planning(j, plan), objects),
         OneLeft(plan) \/ TwoLeft(plan) \/ ThreeLeft(plan),
         NEW all, all = j.read \union objects,
         ~j.overtaken => Raising(all, plan, task)
  PROVE  LedgerReads(c)
  <1>1. PICK k : k = [Planning(j, plan) EXCEPT !.read = @ \union objects]
    OBVIOUS
  <1>2. Shaped(k) /\ k.read = all /\ k.pc = "write" /\ k.plan = plan /\ k.overtaken = j.overtaken
    BY <1>1, PlanningKeeps, Reread
  <1>3. LedgerPlanned(k, task)
    BY <1>2 DEF LedgerPlanned
  <1>4. LedgerRead(k, task)
    BY <1>2, <1>3 DEF LedgerRead, Loads
  <1> QED
    BY <1>1, <1>4, LedgerAnswers

\* A single write that leaves the ledger alone.
LEMMA LedgerSpared ==
  ASSUME LedgerInv, NEW c \in Client, NEW j, Shaped(j), NEW w, Spares(w), NEW objects,
         Proceed(c, Planning(j, <<w>>), objects)
  PROVE  LedgerReads(c)
  <1>1. OneLeft(<<w>>) /\ Len(<<w>>) = 1 /\ <<w>>[1] = w
    BY DEF OneLeft
  <1>2. \A read : Raises(read, w, task)
    BY DEF Spares, Raises
  <1>3. \A read : Raising(read, <<w>>, task)
    BY <1>1, <1>2 DEF Raising
  <1> QED
    BY <1>1, <1>3, LedgerPlans

LEMMA LedgerEnters ==
  ASSUME LedgerInv, NEW c \in Client,
         taskAddActor(c) \/ taskTransfer(c) \/ taskRemoveActor(c) \/ execute(c)
  PROVE  LedgerReads(c)
  <1>1. CASE taskAddActor(c)
    <2> DEFINE request(t, people) == [Idle EXCEPT !.op = "add", !.task = t, !.who = people]
    <2>0. PICK t \in Task, people \in (SUBSET User) \ {{}} :
            Enter(c, IF store = "jdbc" THEN [request(t, people) EXCEPT !.pc = "existing"]
                     ELSE [Planning(request(t, people), <<AddTaskActor(t, people)>>) EXCEPT !.op = "add"])
      BY <1>1 DEF taskAddActor
    <2>1. PICK j : /\ j = request(t, people)
                   /\ Enter(c, IF store = "jdbc" THEN [j EXCEPT !.pc = "existing"]
                               ELSE [Planning(j, <<AddTaskActor(t, people)>>) EXCEPT !.op = "add"])
      BY <2>0
    <2> HIDE DEF request
    <2>2. Shaped(j) /\ j.op = "add" /\ j.task = t
      BY <2>1 DEF request, Idle, Shaped
    <2>3. CASE store = "jdbc"
      <3>1. Proceed(c, [j EXCEPT !.pc = "existing"], {})
        BY <2>1, <2>3 DEF Enter
      <3>2. PICK i : i = [j EXCEPT !.pc = "existing"]
        OBVIOUS
      <3>3. Shaped(i) /\ i.op = "add" /\ i.task = t /\ i.pc = "existing"
        BY <2>2, <3>2 DEF Shaped
      <3>4. LedgerRead([i EXCEPT !.read = @ \union {}], task)
        BY <3>3, Reread DEF LedgerRead, Loads
      <3> QED
        BY <3>1, <3>2, <3>4, LedgerAnswers
    <2>4. CASE store # "jdbc"
      <3>1. Planning(j, <<AddTaskActor(t, people)>>).op = "add"
        BY <2>2, PlanningKeeps
      <3>2. [Planning(j, <<AddTaskActor(t, people)>>) EXCEPT !.op = "add"]
              = Planning(j, <<AddTaskActor(t, people)>>)
        BY <3>1 DEF Planning, Idle
      <3>3. Proceed(c, Planning(j, <<AddTaskActor(t, people)>>), {})
        BY <2>1, <2>4, <3>2 DEF Enter
      <3> QED
        BY <2>2, <3>3, LedgerSpared DEF AddTaskActor, Spares
    <2> QED
      BY <2>3, <2>4
  <1>2. ASSUME NEW i, Enter(c, i), Shaped(i), i.pc = "task", i.task \in Task
        PROVE  LedgerReads(c)
    <2>1. Proceed(c, i, {})
      BY <1>2 DEF Enter
    <2>2. LedgerRead([i EXCEPT !.read = @ \union {}], task)
      BY <1>2, Reread DEF LedgerRead, Loads
    <2> QED
      BY <2>1, <2>2, LedgerAnswers
  <1>3. CASE taskTransfer(c)
    <2>1. PICK t \in Task, from, to \in User :
            Enter(c, [Idle EXCEPT !.op = "transfer", !.pc = "task", !.task = t, !.who = {from}, !.to = to])
      BY <1>3 DEF taskTransfer
    <2>2. PICK i : i = [Idle EXCEPT !.op = "transfer", !.pc = "task", !.task = t, !.who = {from}, !.to = to]
      OBVIOUS
    <2>3. Shaped(i) /\ i.pc = "task" /\ i.task = t
      BY <2>2 DEF Idle, Shaped
    <2> QED
      BY <1>2, <2>1, <2>2, <2>3
  <1>4. CASE taskRemoveActor(c)
    <2>1. PICK t \in Task, people \in (SUBSET User) \ {{}} :
            Enter(c, [Idle EXCEPT !.op = "remove", !.pc = "task", !.task = t, !.who = people])
      BY <1>4 DEF taskRemoveActor
    <2>2. PICK i : i = [Idle EXCEPT !.op = "remove", !.pc = "task", !.task = t, !.who = people]
      OBVIOUS
    <2>3. Shaped(i) /\ i.pc = "task" /\ i.task = t
      BY <2>2 DEF Idle, Shaped
    <2> QED
      BY <1>2, <2>1, <2>2, <2>3
  <1>5. CASE execute(c)
    <2>1. PICK t \in Task, u \in User \union Privileged :
            Enter(c, [Idle EXCEPT !.op = "execute", !.pc = "task", !.task = t, !.who = {u}])
      BY <1>5 DEF execute
    <2>2. PICK i : i = [Idle EXCEPT !.op = "execute", !.pc = "task", !.task = t, !.who = {u}]
      OBVIOUS
    <2>3. Shaped(i) /\ i.pc = "task" /\ i.task = t
      BY <2>2 DEF Idle, Shaped
    <2> QED
      BY <1>2, <2>1, <2>2, <2>3
  <1> QED
    BY <1>1, <1>3, <1>4, <1>5

LEMMA LedgerFinds ==
  ASSUME LedgerInv, NEW c \in Client, FindTaskByID(c)
  PROVE  LedgerReads(c)
  <1>1. PICK j, t : j = job[c] /\ t = j.task
    OBVIOUS
  <1>2. CASE End(c)
    BY <1>2, LedgerEnds
  <1>3. CASE ~End(c)
    <2> DEFINE follow == IF store = "jdbc" THEN "joined" ELSE "actors"
               forms == IF store = "jdbc" THEN {} ELSE Present(t)
    <2>1. PICK i : i = [j EXCEPT !.row = task[t], !.pc = follow, !.forms = forms]
      OBVIOUS
    <2>2. j.pc = "task" /\ Proceed(c, i, {TaskRow(t), ActorRows(t)})
      BY <1>1, <1>3, <2>1 DEF FindTaskByID, At
    <2>3. Shaped(j) /\ t \in Task /\ task[t] \in RowStates
      BY <1>1, <2>2 DEF LedgerInv, LedgerRead
    <2>4. Shaped(i) /\ i.task = t /\ i.pc = follow /\ i.row = task[t]
      BY <1>1, <2>1, <2>3 DEF Shaped
    <2>5. PICK k : k = [i EXCEPT !.read = @ \union {TaskRow(t), ActorRows(t)}]
      OBVIOUS
    <2>6. Shaped(k) /\ k.task = t /\ k.pc = follow /\ k.row = task[t] /\ TaskRow(t) \in k.read
      BY <2>4, <2>5, Reread
    <2>7. LedgerRead(k, task)
      BY <2>3, <2>6 DEF LedgerRead
    <2> QED
      BY <2>2, <2>5, <2>7, LedgerAnswers
  <1> QED
    BY <1>2, <1>3

\* A request that goes on with the row it has loaded.
LEMMA LedgerGoesOn ==
  ASSUME LedgerInv, NEW c \in Client, NEW j, j = job[c], Loads(j), NEW objects,
         NEW i, Proceed(c, i, objects), Shaped(i), i.task = j.task, i.row = j.row,
         i.read = j.read, i.overtaken = j.overtaken, i.pc \in {"actors", "existing", "instance"}
  PROVE  LedgerReads(c)
  <1>1. LedgerRead(j, task) /\ j.task \in Task
    BY DEF LedgerInv, LedgerRead, Loads
  <1>2. PICK k : k = [i EXCEPT !.read = @ \union objects]
    OBVIOUS
  <1>3. /\ Shaped(k) /\ k.task = j.task /\ k.row = j.row /\ k.pc = i.pc /\ k.op = i.op
        /\ k.overtaken = j.overtaken /\ j.read \subseteq k.read
    BY <1>2, Reread
  <1>4. LedgerRead(k, task)
    BY <1>1, <1>3 DEF LedgerRead
  <1> QED
    BY <1>2, <1>4, LedgerAnswers

LEMMA LedgerJoins ==
  ASSUME LedgerInv, NEW c \in Client, findTaskActors(c)
  PROVE  LedgerReads(c)
  <1>1. PICK j : j = job[c]
    OBVIOUS
  <1>2. j.pc = "joined" /\ Shaped(j) /\ Loads(j)
    BY <1>1 DEF findTaskActors, At, LedgerInv, LedgerRead, Loads
  <1>3. PICK i : i = [j EXCEPT !.forms = Present(j.task), !.pc = "actors"]
    OBVIOUS
  <1>4. Proceed(c, i, {})
    BY <1>1, <1>3 DEF findTaskActors
  <1>5. /\ Shaped(i) /\ i.task = j.task /\ i.row = j.row /\ i.read = j.read
        /\ i.overtaken = j.overtaken /\ i.pc = "actors"
    BY <1>2, <1>3 DEF Shaped
  <1> QED
    BY <1>1, <1>2, <1>4, <1>5, LedgerGoesOn

\* The three writes of a transfer, as they were planned or with fewer inserts.
LEMMA LedgerHandsOver ==
  ASSUME LedgerInv, NEW c \in Client, NEW j, j = job[c], Loads(j), NEW objects,
         NEW a, NEW b, NEW forms, Spares(a), Spares(b),
         Proceed(c, Planning(j, <<a, b, UpdateTask(j.task, Hop(j.row), forms)>>), objects)
  PROVE  LedgerReads(c)
  <1>1. /\ Shaped(j) /\ j.task \in Task /\ j.row \in RowStates
        /\ ~j.overtaken => TaskRow(j.task) \in j.read /\ j.row = task[j.task]
    BY DEF LedgerInv, LedgerRead, Loads
  <1>2. PICK w : w = UpdateTask(j.task, Hop(j.row), forms)
    OBVIOUS
  <1>3. w.kind = "update" /\ w.task = j.task /\ w.state = Hop(j.row)
    BY <1>2 DEF UpdateTask
  <1>4. Hop(j.row) \in RowStates /\ j.row.hops <= Hop(j.row).hops
    BY <1>1, RowFields
  <1>5. PICK p : p = <<a, b, w>>
    OBVIOUS
  <1>6. Len(p) = 3 /\ p[1] = a /\ p[2] = b /\ p[3] = w /\ p = <<p[1], p[2], p[3]>>
    BY <1>5
  <1>7. ThreeLeft(p)
    BY <1>1, <1>3, <1>4, <1>6 DEF ThreeLeft, StoresRow
  <1>8. PICK all : all = j.read \union objects
    OBVIOUS
  <1>9. ASSUME ~j.overtaken PROVE Raising(all, p, task)
    <2> SUFFICES ASSUME NEW k \in 1 .. Len(p) PROVE Raises(all, p[k], task)
      BY DEF Raising
    <2>1. CASE p[k] = w
      BY <1>1, <1>3, <1>4, <1>8, <1>9, <2>1 DEF Raises
    <2>2. CASE Spares(p[k])
      BY <2>2 DEF Spares, Raises
    <2>3. k = 1 \/ k = 2 \/ k = 3
      BY <1>6
    <2> QED
      BY <1>6, <2>1, <2>2, <2>3
  <1> QED
    BY <1>1, <1>2, <1>5, <1>7, <1>8, <1>9, LedgerPlans

LEMMA TransferWrites ==
  ASSUME NEW j, NEW known
  PROVE  \E forms : Transferred(j, known)
           = <<RemoveTaskActor(j.task, ActorDeleteForms({p \in known : Of[p] \in j.who})),
               AddTaskActor(j.task, {j.to}), UpdateTask(j.task, Hop(j.row), forms)>>
  BY DEF Transferred, Hop

LEMMA SparingWrites ==
  /\ \A t, forms : Spares(RemoveTaskActor(t, forms))
  /\ \A t, people : Spares(AddTaskActor(t, people))
  BY DEF Spares, RemoveTaskActor, AddTaskActor

LEMMA LedgerAsks ==
  ASSUME LedgerInv, NEW c \in Client, FindTaskActors(c)
  PROVE  LedgerReads(c)
  <1>1. PICK j, t, known, objects :
          /\ j = job[c] /\ t = j.task
          /\ known = dedupStrs(j.forms \union Present(t)) /\ objects = {ActorRows(t)}
    OBVIOUS
  <1>2. j.pc = "actors" /\ Shaped(j) /\ Loads(j) /\ t \in Task
    BY <1>1 DEF FindTaskActors, At, LedgerInv, LedgerRead, Loads
  <1>3. CASE End(c)
    BY <1>3, LedgerEnds
  <1>4. CASE j.op = "transfer" /\ ~End(c)
    <2>1. Proceed(c, IF store = "jdbc" THEN [j EXCEPT !.forms = known, !.pc = "existing"]
                     ELSE Planning(j, Transferred(j, known)), objects)
      BY <1>1, <1>4 DEF FindTaskActors
    <2>2. CASE store = "jdbc"
      <3>1. PICK i : i = [j EXCEPT !.forms = known, !.pc = "existing"]
        OBVIOUS
      <3>2. /\ Shaped(i) /\ i.task = j.task /\ i.row = j.row /\ i.read = j.read
            /\ i.overtaken = j.overtaken /\ i.pc = "existing"
        BY <1>2, <3>1 DEF Shaped
      <3> QED
        BY <1>1, <1>2, <2>1, <2>2, <3>1, <3>2, LedgerGoesOn
    <2>3. CASE store # "jdbc"
      <3>1. Proceed(c, Planning(j, Transferred(j, known)), objects)
        BY <2>1, <2>3
      <3> QED
        <4>1. PICK forms : Transferred(j, known)
                = <<RemoveTaskActor(j.task, ActorDeleteForms({p \in known : Of[p] \in j.who})),
                    AddTaskActor(j.task, {j.to}), UpdateTask(j.task, Hop(j.row), forms)>>
          BY TransferWrites
        <4> QED
          BY <1>1, <1>2, <3>1, <4>1, SparingWrites, LedgerHandsOver
    <2> QED
      BY <2>2, <2>3
  <1>5. CASE j.op = "remove" /\ ~End(c)
    <2>1. Proceed(c, Planning(j, <<RemoveTaskActor(t, ActorDeleteForms({p \in known : Of[p] \in j.who}))>>), objects)
      BY <1>1, <1>5 DEF FindTaskActors
    <2> QED
      BY <1>2, <2>1, SparingWrites, LedgerSpared
  <1>6. CASE j.op = "execute" /\ ~End(c)
    <2>1. PICK i : i = [j EXCEPT !.pc = "instance"]
      OBVIOUS
    <2>2. Proceed(c, i, objects)
      BY <1>1, <1>6, <2>1 DEF FindTaskActors
    <2>3. /\ Shaped(i) /\ i.task = j.task /\ i.row = j.row /\ i.read = j.read
          /\ i.overtaken = j.overtaken /\ i.pc = "instance"
      BY <1>2, <2>1 DEF Shaped
    <2> QED
      BY <1>1, <1>2, <2>2, <2>3, LedgerGoesOn
  <1> QED
    BY <1>1, <1>3, <1>4, <1>5, <1>6 DEF FindTaskActors

LEMMA LedgerLooks ==
  ASSUME LedgerInv, NEW c \in Client, existing(c)
  PROVE  LedgerReads(c)
  <1>1. PICK j, t : j = job[c] /\ t = j.task
    OBVIOUS
  <1>2. j.pc = "existing" /\ Shaped(j)
    BY <1>1 DEF existing, At, LedgerInv, LedgerRead
  <1>3. CASE End(c)
    BY <1>3, LedgerEnds
  <1>4. CASE j.op = "transfer" /\ ~End(c)
    <2>1. PICK forms : Transferred(j, j.forms)
            = <<RemoveTaskActor(j.task, ActorDeleteForms({p \in j.forms : Of[p] \in j.who})),
                AddTaskActor(j.task, {j.to}), UpdateTask(j.task, Hop(j.row), forms)>>
      BY TransferWrites
    <2>2. PICK plan : plan = Transferred(j, j.forms)
      OBVIOUS
    <2>3. /\ plan[1] = RemoveTaskActor(j.task, ActorDeleteForms({p \in j.forms : Of[p] \in j.who}))
          /\ plan[3] = UpdateTask(j.task, Hop(j.row), forms)
      BY <2>1, <2>2
    <2>4. PICK b : b = AddTaskActor(t, Missing(Present(t) \ plan[1].forms, {j.to}))
      OBVIOUS
    <2>5. Proceed(c, Planning(j, <<plan[1], b, plan[3]>>), {ActorRows(t)})
      BY <1>1, <1>4, <2>2, <2>4 DEF existing
    <2>6. Spares(plan[1]) /\ Spares(b)
      BY <2>3, <2>4, SparingWrites
    <2>7. Loads(j)
      BY <1>2, <1>4 DEF Loads
    <2> QED
      BY <1>1, <2>3, <2>5, <2>6, <2>7, LedgerHandsOver
  <1>5. CASE j.op # "transfer" /\ ~End(c)
    <2>1. Proceed(c, Planning(j, <<AddTaskActor(t, Missing(Present(t), j.who))>>), {ActorRows(t)})
      BY <1>1, <1>5 DEF existing
    <2> QED
      BY <1>2, <2>1, SparingWrites, LedgerSpared
  <1> QED
    BY <1>3, <1>4, <1>5

LEMMA LedgerCompletes ==
  ASSUME LedgerInv, NEW c \in Client, FindInstanceByID(c)
  PROVE  LedgerReads(c)
  <1>1. PICK j, t : j = job[c] /\ t = j.task
    OBVIOUS
  <1>2. j.pc = "instance"
    BY <1>1 DEF FindInstanceByID, At
  <1>3. /\ Shaped(j) /\ t \in Task /\ j.row \in RowStates
        /\ ~j.overtaken => j.row = task[t]
    BY <1>1, <1>2 DEF LedgerInv, LedgerRead, Loads
  <1>4. PICK states, forms, objects, v, w :
          /\ states = [u \in Task |-> IF u = t THEN Completed(j.row) ELSE task[u]]
          /\ forms = [u \in Task |-> IF u = t THEN j.forms ELSE Present(u)]
          /\ objects = {TaskRow(u) : u \in Task} \union {ActorRows(u) : u \in Task}
          /\ v = UpdateTask(t, Completed(j.row), j.forms) /\ w = UpdateInstance(states, forms)
    OBVIOUS
  <1>5. Proceed(c, Planning(j, <<v, w>>), objects)
    BY <1>1, <1>4 DEF FindInstanceByID
  <1>6. /\ v.kind = "update" /\ v.task = t /\ v.state = Completed(j.row)
        /\ w.kind = "cascade" /\ w.states = states
    BY <1>4 DEF UpdateTask, UpdateInstance
  <1>7. Completed(j.row) \in RowStates /\ Completed(j.row).hops = j.row.hops
    BY <1>3, RowFields
  <1>8. task \in [Task -> RowStates] /\ \A u \in Task : task[u] \in RowStates /\ task[u].hops <= task[u].hops
    BY RowFields DEF LedgerInv
  <1>9. states \in [Task -> RowStates] /\ states[t] = Completed(j.row)
    BY <1>3, <1>4, <1>7, <1>8
  <1>10. PICK p : p = <<v, w>>
    OBVIOUS
  <1>11. Len(p) = 2 /\ p[1] = v /\ p[2] = w /\ p = <<p[1], p[2]>>
    BY <1>10
  <1>12. TwoLeft(p)
    BY <1>3, <1>6, <1>7, <1>9, <1>11 DEF TwoLeft, StoresRow, StoresAll
  <1>13. PICK all : all = j.read \union objects
    OBVIOUS
  <1>14. \A u \in Task : TaskRow(u) \in all
    BY <1>4, <1>13
  <1>15. ASSUME ~j.overtaken PROVE Raising(all, p, task)
    <2> SUFFICES ASSUME NEW k \in 1 .. Len(p) PROVE Raises(all, p[k], task)
      BY DEF Raising
    <2>1. \A u \in Task : task[u].hops <= states[u].hops
      BY <1>3, <1>4, <1>7, <1>8, <1>15
    <2>2. k = 1 \/ k = 2
      BY <1>11
    <2>3. CASE k = 1
      BY <1>3, <1>6, <1>9, <1>11, <1>14, <2>1, <2>3 DEF Raises
    <2>4. CASE k = 2
      BY <1>6, <1>11, <1>14, <2>1, <2>4 DEF Raises
    <2> QED
      BY <2>2, <2>3, <2>4
  <1> QED
    BY <1>3, <1>5, <1>10, <1>12, <1>13, <1>15, LedgerPlans

\* Each write of a plan is of one of the three kinds.
LEMMA PlanKinds ==
  ASSUME NEW p, OneLeft(p) \/ TwoLeft(p) \/ ThreeLeft(p), NEW k \in 1 .. Len(p)
  PROVE  StoresRow(p[k]) \/ StoresAll(p[k]) \/ Spares(p[k])
  <1>1. CASE OneLeft(p)
    <2>1. Len(p) = 1
      BY <1>1, Planned1 DEF OneLeft
    <2> QED
      BY <1>1, <2>1 DEF OneLeft
  <1>2. CASE TwoLeft(p)
    <2>1. Len(p) = 2
      BY <1>2, Planned2 DEF TwoLeft
    <2>2. k = 1 \/ k = 2
      BY <2>1
    <2> QED
      BY <1>2, <2>2 DEF TwoLeft
  <1>3. CASE ThreeLeft(p)
    <2>1. Len(p) = 3
      BY <1>3, Planned3 DEF ThreeLeft
    <2>2. k = 1 \/ k = 2 \/ k = 3
      BY <2>1
    <2> QED
      BY <1>3, <2>2 DEF ThreeLeft
  <1> QED
    BY <1>1, <1>2, <1>3

\* A write keeps or adds to the ledger of every row, unless its request was
\* overtaken.
LEMMA LedgerWritten ==
  ASSUME LedgerInv, NEW c \in Client, WriteNext(c)
  PROVE  /\ Writing(c) /\ LedgerInv'
         /\ ~job[c].overtaken => \A t \in Task : task[t].hops <= task'[t].hops
  <1>1. PICK j, p, w, objects : j = job[c] /\ p = j.plan /\ w = Head(p) /\ objects = Changes(w)
    OBVIOUS
  <1>2. /\ task' = TasksAfter(w)
        /\ job' = [d \in Client |->
             IF d = c THEN IF Len(p) = 1 THEN Idle ELSE [j EXCEPT !.plan = Tail(@), !.read = @ \union objects]
             ELSE [job[d] EXCEPT !.overtaken = @ \/ job[d].read \intersect objects # {}]]
        /\ j.pc = "write"
    BY <1>1 DEF WriteNext, At
  <1>3. Shaped(j) /\ LedgerPlanned(j, task) /\ task \in [Task -> RowStates]
    BY <1>1, <1>2 DEF LedgerInv, LedgerRead
  <1>4. \/ OneLeft(p) /\ Len(p) = 1 /\ w = p[1]
        \/ TwoLeft(p) /\ Len(p) = 2 /\ w = p[1] /\ Tail(p) = <<p[2]>>
        \/ ThreeLeft(p) /\ Len(p) = 3 /\ w = p[1] /\ Tail(p) = <<p[2], p[3]>>
    <2>1. ASSUME p = <<p[1]>> PROVE Head(p) = p[1] /\ Len(p) = 1
      BY <2>1, Planned1
    <2>2. ASSUME p = <<p[1], p[2]>> PROVE Head(p) = p[1] /\ Len(p) = 2 /\ Tail(p) = <<p[2]>>
      BY <2>2, Planned2
    <2>3. ASSUME p = <<p[1], p[2], p[3]>> PROVE Head(p) = p[1] /\ Len(p) = 3 /\ Tail(p) = <<p[2], p[3]>>
      <3>1. PICK a, b, e : a = p[1] /\ b = p[2] /\ e = p[3]
        OBVIOUS
      <3>2. p = <<a, b, e>>
        BY <2>3, <3>1
      <3>3. Head(p) = a /\ Len(p) = 3 /\ Tail(p) = <<b, e>>
        BY <3>2, Planned3
      <3> QED
        BY <3>1, <3>3
    <2> QED
      BY <1>1, <1>3, <2>1, <2>2, <2>3 DEF LedgerPlanned, OneLeft, TwoLeft, ThreeLeft
  <1>5. w = p[1] /\ (Spares(w) \/ StoresRow(w) \/ StoresAll(w))
    BY <1>4 DEF OneLeft, TwoLeft, ThreeLeft
  <1>6. ~j.overtaken => Raises(j.read, w, task)
    BY <1>1, <1>3, <1>4 DEF LedgerPlanned, Raising
  <1>7. /\ Spares(w) => task' = task
        /\ StoresRow(w) => task' = [task EXCEPT ![w.task] = w.state]
        /\ StoresAll(w) => task' = w.states
    BY <1>2 DEF Spares, StoresRow, StoresAll, TasksAfter
  <1>8. task' \in [Task -> RowStates]
    BY <1>3, <1>5, <1>7 DEF StoresRow, StoresAll
  <1>9. \A t \in Task : task[t].hops <= task[t].hops
    BY <1>3, RowFields
  <1>10. ASSUME ~j.overtaken, NEW t \in Task PROVE task[t].hops <= task'[t].hops
    <2>1. CASE Spares(w)
      BY <1>7, <1>9, <2>1
    <2>2. CASE StoresRow(w)
      <3>1. task[w.task].hops <= w.state.hops /\ w.task \in Task
        BY <1>6, <1>10, <2>2 DEF Raises, StoresRow
      <3>2. task' = [task EXCEPT ![w.task] = w.state]
        BY <1>7, <2>2
      <3> QED
        BY <1>3, <1>9, <3>1, <3>2
    <2>3. CASE StoresAll(w)
      BY <1>6, <1>7, <1>10, <2>3 DEF Raises, StoresAll
    <2> QED
      BY <1>5, <2>1, <2>2, <2>3
  <1>11. \A t \in Task : task'[t] # task[t] => TaskRow(t) \in objects
    BY <1>1, <1>2 DEF Changes
  \* The writer: one write fewer, what it has stored is what is there.
  <1>12. c \in Client /\ job'[c] = IF Len(p) = 1 THEN Idle ELSE [j EXCEPT !.plan = Tail(@), !.read = @ \union objects]
    BY <1>2
  <1>13. LedgerRead(job'[c], task') /\ job'[c].plan # p
    <2>1. CASE Len(p) = 1
      <3>1. LedgerRead(Idle, task') /\ Len(Idle.plan) = 0
        BY DEF LedgerRead, Shaped, Idle, Loads
      <3> QED
        BY <1>12, <2>1, <3>1
    <2>2. CASE Len(p) # 1
      <3>1. PICK k : k = [j EXCEPT !.plan = Tail(@), !.read = @ \union objects]
        OBVIOUS
      <3>2. /\ Shaped(k) /\ k.pc = "write" /\ k.plan = Tail(p) /\ k.read = j.read \union objects
            /\ k.overtaken = j.overtaken
        BY <1>1, <1>2, <1>3, <3>1 DEF Shaped
      <3>3. CASE TwoLeft(p) /\ Len(p) = 2 /\ Tail(p) = <<p[2]>>
        <4>1. Len(k.plan) = 1 /\ k.plan[1] = p[2] /\ k.plan = <<k.plan[1]>>
          BY <3>2, <3>3
        <4>2. OneLeft(k.plan)
          BY <3>3, <4>1 DEF OneLeft, TwoLeft
        <4>3. ASSUME ~k.overtaken PROVE Raises(k.read, p[2], task')
          <5>1. Raises(j.read, p[2], task) /\ \A r \in j.read : r \in k.read
            BY <1>1, <1>3, <3>2, <3>3, <4>3 DEF LedgerPlanned, Raising
          <5>2. CASE Spares(w)
            BY <1>7, <5>1, <5>2 DEF Raises
          <5>3. CASE StoresRow(w) /\ StoresAll(p[2]) /\ p[2].states[w.task] = w.state
            <6>1. task' = [task EXCEPT ![w.task] = w.state] /\ w.task \in Task /\ w.state \in RowStates
              BY <1>7, <5>3 DEF StoresRow
            <6>2. w.state.hops <= w.state.hops
              BY <6>1, RowFields
            <6>3. p[2].kind = "cascade" /\ p[2].kind # "update"
              BY <5>3 DEF StoresAll
            <6>4. \A t \in Task : TaskRow(t) \in k.read /\ task[t].hops <= p[2].states[t].hops
              BY <5>1, <6>3 DEF Raises
            <6>5. ASSUME NEW t \in Task PROVE task'[t].hops <= p[2].states[t].hops
              BY <1>3, <5>3, <6>1, <6>2, <6>4
            <6> QED
              BY <6>3, <6>4, <6>5 DEF Raises
          <5> QED
            BY <1>5, <3>3, <5>2, <5>3 DEF TwoLeft
        <4>4. LedgerPlanned(k, task')
          BY <4>1, <4>2, <4>3 DEF LedgerPlanned, Raising
        <4> QED
          BY <1>12, <2>2, <3>1, <3>2, <3>3, <4>1, <4>4 DEF LedgerRead, Loads
      <3>4. CASE ThreeLeft(p) /\ Len(p) = 3 /\ Tail(p) = <<p[2], p[3]>>
        <4>1. /\ Len(k.plan) = 2 /\ k.plan[1] = p[2] /\ k.plan[2] = p[3]
              /\ k.plan = <<k.plan[1], k.plan[2]>>
          BY <3>2, <3>4
        <4>2. TwoLeft(k.plan) /\ Spares(w)
          BY <1>5, <3>4, <4>1 DEF TwoLeft, ThreeLeft
        <4>3. ASSUME ~k.overtaken PROVE Raises(k.read, p[2], task') /\ Raises(k.read, p[3], task')
          <5>1. Raises(j.read, p[2], task) /\ Raises(j.read, p[3], task) /\ \A r \in j.read : r \in k.read
            BY <1>1, <1>3, <3>2, <3>4, <4>3 DEF LedgerPlanned, Raising
          <5> QED
            BY <1>7, <4>2, <5>1 DEF Raises
        <4>4. \A m \in 1 .. Len(k.plan) : m = 1 \/ m = 2
          BY <4>1
        <4>5. LedgerPlanned(k, task')
          BY <4>1, <4>2, <4>3, <4>4 DEF LedgerPlanned, Raising
        <4> QED
          BY <1>12, <2>2, <3>1, <3>2, <3>4, <4>1, <4>5 DEF LedgerRead, Loads
      <3> QED
        BY <1>4, <2>2, <3>3, <3>4
    <2> QED
      BY <2>1, <2>2
  \* The others: what they have read is as it was, or they are overtaken.
  <1>14. ASSUME NEW d \in Client, d # c PROVE LedgerRead(job'[d], task')
    <2>1. PICK i, b : i = job[d] /\ b = (i.overtaken \/ i.read \intersect objects # {})
      OBVIOUS
    <2>2. LedgerRead(i, task) /\ Shaped(i) /\ b \in BOOLEAN
      BY <2>1 DEF LedgerInv, LedgerRead, Shaped
    <2>3. PICK k : k = [i EXCEPT !.overtaken = b]
      OBVIOUS
    <2>4. job'[d] = k
      BY <1>2, <1>14, <2>1, <2>3
    <2>5. /\ Shaped(k) /\ k.read = i.read /\ k.op = i.op /\ k.pc = i.pc /\ k.task = i.task
          /\ k.row = i.row /\ k.plan = i.plan /\ k.overtaken = b
      BY <2>2, <2>3, Overtaken
    <2>6. ~b => ~i.overtaken /\ \A t \in Task : TaskRow(t) \in i.read => task'[t] = task[t]
      BY <1>11, <2>1
    <2>7. Loads(k) => /\ k.row \in RowStates
                      /\ ~k.overtaken => TaskRow(k.task) \in k.read /\ k.row = task'[k.task]
      BY <2>2, <2>5, <2>6 DEF LedgerRead, Loads
    <2>8. ASSUME k.pc = "write" PROVE LedgerPlanned(k, task')
      <3>1. LedgerPlanned(i, task)
        BY <2>2, <2>5, <2>8 DEF LedgerRead
      <3>2. ASSUME ~b, NEW v, Raises(i.read, v, task), StoresRow(v) \/ StoresAll(v) \/ Spares(v)
            PROVE  Raises(k.read, v, task')
        BY <2>5, <2>6, <3>2 DEF Raises, StoresRow, StoresAll, Spares
      <3>3. \A m \in 1 .. Len(i.plan) : StoresRow(i.plan[m]) \/ StoresAll(i.plan[m]) \/ Spares(i.plan[m])
        BY <3>1, PlanKinds DEF LedgerPlanned
      <3> QED
        BY <2>5, <2>6, <3>1, <3>2, <3>3 DEF LedgerPlanned, Raising
    <2> QED
      BY <2>2, <2>4, <2>5, <2>7, <2>8 DEF LedgerRead
  <1>15. \A d \in Client : LedgerRead(job'[d], task')
    BY <1>13, <1>14
  <1>16. job' = [d \in Client |-> job'[d]]
    BY <1>2
  <1> QED
    BY <1>1, <1>2, <1>8, <1>10, <1>13, <1>15, <1>16 DEF Writing, LedgerInv

LEMMA LedgerStep ==
  ASSUME LedgerInv, Next
  PROVE  /\ LedgerInv'
         /\ \A t \in Task : task'[t].hops >= task[t].hops
              \/ \E c \in Client : Writing(c) /\ job[c].overtaken
  <1>1. PICK c \in Client :
          \/ taskAddActor(c) \/ taskTransfer(c) \/ taskRemoveActor(c) \/ execute(c)
          \/ FindTaskByID(c) \/ findTaskActors(c) \/ FindTaskActors(c) \/ existing(c)
          \/ FindInstanceByID(c) \/ WriteNext(c)
    BY DEF Next
  <1>2. CASE WriteNext(c)
    <2>1. task \in [Task -> RowStates] /\ task' \in [Task -> RowStates]
      BY <1>2, LedgerWritten DEF LedgerInv
    <2>2. \A t \in Task : task[t].hops \in Nat /\ task'[t].hops \in Nat
      BY <2>1, RowFields
    <2> QED
      BY <1>2, <2>2, LedgerWritten
  <1>3. CASE ~WriteNext(c)
    <2>1. LedgerReads(c)
      BY <1>1, <1>3, LedgerEnters, LedgerFinds, LedgerJoins, LedgerAsks, LedgerLooks, LedgerCompletes
    <2>2. \A t \in Task : task[t].hops \in Nat /\ task' = task
      BY <2>1, RowFields DEF LedgerInv, LedgerReads
    <2> QED
      BY <2>1, <2>2, LedgerKept
  <1> QED
    BY <1>2, <1>3

\* Transfers are added to the ledger of a row and never taken from it, while
\* others transfer, add and remove, and when the row is completed, except by
\* the write of a request which itself was overtaken on what it had read: not
\* by those before it and not by those after it.
THEOREM Ledger == Spec => LedgerGrows
  <1>1. LedgerInv /\ [Next]_vars => LedgerInv'
    <2>1. CASE UNCHANGED vars
      BY <2>1 DEF vars, LedgerInv
    <2> QED
      BY <2>1, LedgerStep
  <1>2. LedgerInv /\ [Next]_vars =>
          [\A t \in Task : task'[t].hops >= task[t].hops
             \/ \E c \in Client : Writing(c) /\ job[c].overtaken]_vars
    BY LedgerStep
  <1> QED
    BY <1>1, <1>2, LedgerInit, PTL DEF LedgerGrows, Spec

-----------------------------------------------------------------------------
(* What a row is to Membership. *)

Underway(jobs, t) == {c \in Client : MidTransfer(jobs[c]) /\ jobs[c].task = t}
Who(jobs, forms, t) ==
  IF Underway(jobs, t) # {} THEN Handed(jobs[CHOOSE c \in Underway(jobs, t) : TRUE]) ELSE People(forms)

LEMMA WhoIs == \A t : MembersOf(t) = Who(job, Present(t), t) /\ MembersOf(t)' = Who(job', Present(t)', t)
  BY DEF MembersOf, Transferring, Who, Underway

LEMMA WhoHanded ==
  ASSUME NEW jobs, NEW forms, NEW t, NEW c, Underway(jobs, t) = {c}
  PROVE  Who(jobs, forms, t) = Handed(jobs[c])
  BY DEF Who

LEMMA WhoPresent ==
  ASSUME NEW jobs, NEW forms, NEW t, Underway(jobs, t) = {}
  PROVE  Who(jobs, forms, t) = People(forms)
  BY DEF Who

\* Who is on a row while a transfer of it is between its writes is on it when
\* the transfer is done.
LEMMA HandedHas ==
  ASSUME Inv, NEW d \in Client, MidTransfer(job[d])
  PROVE  job[d].task \in Task /\ People(Present(job[d].task)) \subseteq Handed(job[d])
  <1>1. JobOK(job[d], store, task, Loaded) /\ ~job[d].overtaken /\ job[d].pc = "write" /\ job[d].op = "transfer"
    BY DEF Inv, JobOK, MidTransfer
  <1>2. PlannedTransfer(job[d], task, Loaded) /\ job[d].task \in Task
    BY <1>1 DEF JobOK, Relies, Planned, Route, Arguments
  <1>3. PICK forms : \/ Before1(job[d], task, Loaded, forms)
                     \/ Before2(job[d], task, Loaded, forms)
                     \/ Before3(job[d], task, Loaded, forms)
    BY <1>2 DEF PlannedTransfer
  <1>4. ~Before1(job[d], task, Loaded, forms)
    <2> SUFFICES ASSUME Before1(job[d], task, Loaded, forms) PROVE FALSE
      OBVIOUS
    <2>1. Len(job[d].plan) = 3
      BY Planned3 DEF Before1
    <2> QED
      BY <2>1 DEF MidTransfer
  <1>5. Loaded[job[d].task] = Present(job[d].task)
    BY <1>2 DEF Loaded
  <1> QED
    BY <1>2, <1>3, <1>4, <1>5 DEF Before2, Before3, Handed

LEMMA OnlyOne ==
  ASSUME Inv, NEW d \in Client, MidTransfer(job[d])
  PROVE  Underway(job, job[d].task) = {d}
  BY DEF Inv, OneAtATime, Underway

\* A write leaves the transfers of others where they are.
LEMMA OthersUnderway ==
  ASSUME Inv, NEW c \in Client, NEW t \in Task, NEW u \in Task, NEW forms, NEW state,
         WriteNext(c), ~disturbed', t = job[c].task, Orderly(c, forms, state)
  PROVE  /\ Underway(job', u) \ {c} = Underway(job, u) \ {c}
         /\ u # t => c \notin Underway(job', u) /\ c \notin Underway(job, u)
         /\ \A d \in Underway(job, u) \ {c} : Handed(job'[d]) = Handed(job[d])
  <1>1. ASSUME NEW d \in Client, d # c
        PROVE  /\ MidTransfer(job'[d]) = MidTransfer(job[d]) /\ job'[d].task = job[d].task
               /\ Handed(job'[d]) = Handed(job[d])
               /\ MidTransfer(job[d]) /\ job[d].task = t => forms = Present(t) /\ state = task[t]
    BY <1>1, OthersKeep DEF Orderly
  <1>2. MidTransfer(job'[c]) => job'[c].task = t
    BY DEF Orderly
  <1> QED
    BY <1>1, <1>2 DEF Underway

\* Where another transfer is between its writes, a write changes nothing.
LEMMA OthersAsTheyAre ==
  ASSUME Inv, NEW c \in Client, NEW t \in Task, NEW forms, NEW state,
         WriteNext(c), ~disturbed', t = job[c].task, Orderly(c, forms, state)
  PROVE  /\ \A d \in Underway(job, t) \ {c} : forms = Present(t) /\ state = task[t]
         /\ MidTransfer(job'[c]) => c \in Underway(job', t)
  <1>1. ASSUME NEW d \in Client, d # c, MidTransfer(job[d]), job[d].task = t
        PROVE  forms = Present(t) /\ state = task[t]
    BY <1>1, OthersKeep DEF Orderly
  <1>2. MidTransfer(job'[c]) => job'[c].task = t
    BY DEF Orderly
  <1> QED
    BY <1>1, <1>2 DEF Underway

\* Who is on the rows after a write.
LEMMA WhoAfter ==
  ASSUME Inv, NEW c \in Client, NEW t \in Task, NEW forms, NEW state,
         WriteNext(c), ~disturbed', t = job[c].task, Orderly(c, forms, state)
  PROVE  /\ \A u \in Task : u # t => MembersOf(u)' = MembersOf(u)
         /\ MidTransfer(job[c]) => MembersOf(t) = Handed(job[c])
         /\ MidTransfer(job[c]) /\ MidTransfer(job'[c]) => MembersOf(t)' = Handed(job[c])
         /\ MidTransfer(job[c]) /\ ~MidTransfer(job'[c]) => MembersOf(t)' = People(forms)
         /\ ~MidTransfer(job[c]) /\ ~MidTransfer(job'[c]) =>
              \/ /\ MembersOf(t)' = People(forms) /\ MembersOf(t) = People(Present(t))
              \/ /\ MembersOf(t)' = MembersOf(t) /\ People(Present(t)) \subseteq MembersOf(t)
                 /\ forms = Present(t) /\ state = task[t]
         /\ ~MidTransfer(job[c]) /\ MidTransfer(job'[c]) =>
              MembersOf(t)' = Handed(job[c]) /\ MembersOf(t) = People(Present(t))
  <1>1. Written(c, forms, state)
    BY DEF Orderly
  <1>2. /\ Present(t)' = forms /\ \A u \in Task : u # t => Present(u)' = Present(u)
    <2>1. Loaded'[t] = forms /\ \A u \in Task : u # t => Loaded'[u] = Loaded[u]
      BY <1>1, AfterWrite
    <2>2. \A u \in Task : Loaded[u] = Present(u) /\ Loaded'[u] = Present(u)'
      BY DEF Loaded
    <2> QED
      BY <2>1, <2>2
  <1>3. ASSUME NEW u \in Task, u # t PROVE MembersOf(u)' = MembersOf(u)
    <2>1. Underway(job', u) = Underway(job, u) /\ \A d \in Underway(job, u) : Handed(job'[d]) = Handed(job[d])
      BY <1>3, OthersUnderway
    <2>2. Who(job', Present(u), u) = Who(job, Present(u), u)
      BY <2>1 DEF Who
    <2> QED
      BY <1>2, <1>3, <2>2, WhoIs
  <1>4. /\ Underway(job', t) \ {c} = Underway(job, t) \ {c}
        /\ \A d \in Underway(job, t) \ {c} : Handed(job'[d]) = Handed(job[d]) /\ forms = Present(t) /\ state = task[t]
        /\ MidTransfer(job'[c]) => c \in Underway(job', t)
    <2>1. /\ Underway(job', t) \ {c} = Underway(job, t) \ {c}
          /\ \A d \in Underway(job, t) \ {c} : Handed(job'[d]) = Handed(job[d])
      BY OthersUnderway
    <2>2. /\ \A d \in Underway(job, t) \ {c} : forms = Present(t) /\ state = task[t]
          /\ MidTransfer(job'[c]) => c \in Underway(job', t)
      BY OthersAsTheyAre
    <2> QED
      BY <2>1, <2>2
  <1>5. (c \in Underway(job, t) <=> MidTransfer(job[c])) /\ (c \in Underway(job', t) <=> MidTransfer(job'[c]))
    BY <1>4 DEF Underway
  <1>6. MembersOf(t) = Who(job, Present(t), t) /\ MembersOf(t)' = Who(job', forms, t)
    BY <1>2, WhoIs
  <1>7. MidTransfer(job'[c]) => Handed(job'[c]) = Handed(job[c]) /\ (MidTransfer(job[c]) \/ forms # Present(t))
    BY DEF Orderly
  <1>8. CASE MidTransfer(job[c])
    <2>1. Underway(job, t) = {c} /\ MembersOf(t) = Handed(job[c])
      BY <1>6, <1>8, OnlyOne, WhoHanded
    <2>2. MidTransfer(job'[c]) => Underway(job', t) = {c}
      BY <1>4, <1>5, <2>1
    <2>3. ~MidTransfer(job'[c]) => Underway(job', t) = {}
      BY <1>4, <1>5, <2>1
    <2>4. MidTransfer(job'[c]) => MembersOf(t)' = Handed(job[c])
      BY <1>6, <1>7, <2>2, WhoHanded
    <2>5. ~MidTransfer(job'[c]) => MembersOf(t)' = People(forms)
      BY <1>6, <2>3, WhoPresent
    <2> QED
      BY <1>3, <1>8, <2>1, <2>4, <2>5
  <1>9. CASE ~MidTransfer(job[c]) /\ Underway(job, t) = {}
    <2>1. MembersOf(t) = People(Present(t))
      BY <1>6, <1>9, WhoPresent
    <2>2. MidTransfer(job'[c]) => Underway(job', t) = {c}
      BY <1>4, <1>5, <1>9
    <2>3. ~MidTransfer(job'[c]) => Underway(job', t) = {}
      BY <1>4, <1>5, <1>9
    <2>4. MidTransfer(job'[c]) => MembersOf(t)' = Handed(job[c])
      BY <1>6, <1>7, <2>2, WhoHanded
    <2>5. ~MidTransfer(job'[c]) => MembersOf(t)' = People(forms)
      BY <1>6, <2>3, WhoPresent
    <2> QED
      BY <1>3, <1>9, <2>1, <2>4, <2>5
  <1>10. CASE ~MidTransfer(job[c]) /\ Underway(job, t) # {}
    <2>1. PICK d \in Client : d # c /\ d \in Underway(job, t) /\ MidTransfer(job[d]) /\ job[d].task = t
      BY <1>10 DEF Underway
    <2>2. Underway(job, t) = {d} /\ People(Present(t)) \subseteq Handed(job[d])
      BY <2>1, OnlyOne, HandedHas
    <2>3. MembersOf(t) = Handed(job[d])
      BY <1>6, <2>2, WhoHanded
    <2>4. Handed(job'[d]) = Handed(job[d]) /\ forms = Present(t) /\ state = task[t]
      BY <1>4, <2>1
    <2>5. ~MidTransfer(job'[c]) /\ Underway(job', t) = {d}
      BY <1>4, <1>5, <1>7, <1>10, <2>1, <2>2, <2>4
    <2>6. MembersOf(t)' = Handed(job[d])
      BY <1>6, <2>4, <2>5, WhoHanded
    <2> QED
      BY <1>3, <1>10, <2>2, <2>3, <2>4, <2>5, <2>6
  <1> QED
    BY <1>8, <1>9, <1>10

-----------------------------------------------------------------------------
(* Actors implements Membership. *)

Members == [t \in Task |-> MembersOf(t)]
Open == {t \in Task : task[t].open}

LEMMA InitImplements == Init => Abstract!Init
  <1> SUFFICES ASSUME Init PROVE Abstract!Init
    OBVIOUS
  <1>1. PICK f \in Initial : rows = [t \in Task |-> Once(f[t])]
    BY DEF Init
  <1>2. f \in [Task -> SUBSET Form]
    BY InitialAssumption
  <1>3. ASSUME NEW t \in Task PROVE MembersOf(t) \in (SUBSET User) \ {{}}
    <2>1. Present(t) = f[t]
      BY <1>1, <1>2, PresentOnce
    <2>2. Underway(job, t) = {}
      BY DEF Init, Idle, MidTransfer, Underway
    <2>3. MembersOf(t) = People(f[t])
      BY <2>1, <2>2, WhoIs, WhoPresent
    <2>4. People(f[t]) \subseteq User
      BY <1>2, PeopleOf
    <2>5. PICK p \in f[t] : Of[p] # ""
      BY InitialAssumption
    <2>6. Of[p] \in People(f[t])
      BY <2>5, PersonIn
    <2> QED
      BY <2>3, <2>4, <2>6
  <1>4. {t \in Task : task[t].open} = Task
    BY DEF Init
  <1> QED
    BY <1>3, <1>4 DEF Abstract!Init

LEMMA ReadStutters ==
  ASSUME Inv, NEW c \in Client, Reads(c)
  PROVE  UNCHANGED Abstract!vars /\ ~\E d \in Client : Serves(d)
  <1>1. PICK k : job' = [job EXCEPT ![c] = k] /\ ~MidTransfer(k)
    BY DEF Reads
  <1>2. job[c].pc # "write" /\ task' = task /\ rows' = rows
    BY DEF Reads
  <1>3. ~MidTransfer(job[c]) /\ ~MidTransfer(job'[c]) /\ \A d \in Client \ {c} : job'[d] = job[d]
    BY <1>1, <1>2 DEF Inv, MidTransfer
  <1>4. ASSUME NEW t \in Task PROVE MembersOf(t)' = MembersOf(t)
    <2>1. Underway(job', t) = Underway(job, t) /\ \A d \in Underway(job, t) : job'[d] = job[d]
      BY <1>3 DEF Underway
    <2>2. Who(job', Present(t), t) = Who(job, Present(t), t)
      BY <2>1 DEF Who
    <2>3. Present(t)' = Present(t)
      BY <1>2 DEF Present
    <2> QED
      BY <2>2, <2>3, WhoIs
  <1>5. UNCHANGED Abstract!vars
    BY <1>2, <1>4 DEF Abstract!vars
  <1>6. ~\E d \in Client : Serves(d)
    BY <1>2, <1>3 DEF Serves, Writing
  <1> QED
    BY <1>5, <1>6

\* The state of a row after a write, and the plans of the others.
LEMMA StateAfter ==
  ASSUME Inv, NEW c \in Client, NEW t \in Task, NEW forms, NEW state,
         WriteNext(c), ~disturbed', t = job[c].task, Orderly(c, forms, state)
  PROVE  /\ (state.open <=> task[t].open) => Open' = Open
         /\ ~state.open => Open' = Open \ {t}
         /\ \A d \in Client : Serves(d) => d = c
         /\ (Serves(c) <=> Len(job[c].plan) = Writes(job[c].op) /\ job[c].plan # job'[c].plan)
  <1>1. /\ task'[t] = state /\ \A u \in Task : u # t => task'[u] = task[u]
    BY AfterWrite DEF Orderly
  <1>2. ASSUME NEW d \in Client, d # c PROVE ~Serves(d)
    <2>1. job'[d].plan = job[d].plan
      BY <1>2, OthersKeep DEF Orderly
    <2> QED
      BY <2>1 DEF Serves, Writing
  <1>3. job[c].pc = "write"
    BY WriterRelies
  <1> QED
    BY <1>1, <1>2, <1>3 DEF Open, Serves, Writing

LEMMA Idles ==
  ASSUME Inv, NEW c \in Client, NEW forms, NEW state,
         WriteNext(c), ~disturbed', Len(job[c].plan) = 1, Written(c, forms, state)
  PROVE  job'[c] = Idle /\ ~MidTransfer(job'[c]) /\ Len(job'[c].plan) # 1
  <1>1. job[c].task \in Task
    BY WriterRelies
  <1>2. job'[c] = Idle
    BY <1>1, WriteSeen
  <1>3. ~MidTransfer(Idle) /\ Len(Idle.plan) # 1
    BY DEF MidTransfer, Idle
  <1> QED
    BY <1>2, <1>3

\* The first write of a request that has more than one, or its only one.
LEMMA First ==
  ASSUME NEW c, job[c].pc = "write", Len(job[c].plan) = Writes(job[c].op),
         Len(job'[c].plan) # Writes(job[c].op)
  PROVE  Serves(c)
  BY DEF Serves, Writing

LEMMA WritesOf ==
  Writes("add") = 1 /\ Writes("remove") = 1 /\ Writes("execute") = 2 /\ Writes("transfer") = 3
  BY DEF Writes

\* A write that has an effect on Membership is the first of its request.
Served(c) == Serves(c) /\ Effect(job[c])
Unserved == ~(\E c \in Client : Serves(c)) /\ UNCHANGED Abstract!vars

LEMMA MembersChange ==
  ASSUME NEW t \in Task, \A u \in Task : u # t => MembersOf(u)' = MembersOf(u)
  PROVE  Members' = [Members EXCEPT ![t] = MembersOf(t)'] /\ Members[t] = MembersOf(t)
         /\ (MembersOf(t)' = MembersOf(t) => Members' = Members)
  BY DEF Members

LEMMA AbstractVars == Abstract!vars = <<Members, Open>>
  BY DEF Abstract!vars, Members, Open

LEMMA AddImplements ==
  ASSUME Inv, NEW c \in Client, WriteNext(c), ~disturbed',
         NEW forms, NEW state, Orderly(c, forms, state), Adds(job[c], forms, state)
  PROVE  Served(c)
  <1>1. PICK j, t : j = job[c] /\ t = j.task
    OBVIOUS
  <1>2. t \in Task /\ job[c].pc = "write"
    BY <1>1, WriterRelies
  <1>3. /\ j.op = "add" /\ Len(j.plan) = 1 /\ state = task[t]
        /\ People(forms) = People(Present(t)) \union j.who
    BY <1>1 DEF Adds
  <1>4. Written(c, forms, state)
    BY DEF Orderly
  <1>5. ~MidTransfer(job[c]) /\ ~MidTransfer(job'[c]) /\ Len(job'[c].plan) # 1
    BY <1>1, <1>3, <1>4, Idles DEF MidTransfer
  <1>6. MembersOf(t)' = MembersOf(t) \union j.who /\ \A u \in Task : u # t => MembersOf(u)' = MembersOf(u)
    BY <1>1, <1>2, <1>3, <1>5, WhoAfter
  <1>7. Open' = Open
    BY <1>1, <1>2, <1>3, StateAfter
  <1>8. Serves(c)
    <2>1. Writes(job[c].op) = 1
      BY <1>1, <1>3, WritesOf
    <2> QED
      BY <1>1, <1>2, <1>3, <1>5, <2>1, First
  <1>9. Members' = [Members EXCEPT ![t] = @ \union j.who]
    BY <1>2, <1>6, MembersChange
  <1>10. Abstract!Add(t, j.who)
    BY <1>7, <1>9 DEF Abstract!Add, Members, Open
  <1> QED
    BY <1>1, <1>3, <1>8, <1>10 DEF Served, Effect

LEMMA LeaveImplements ==
  ASSUME Inv, NEW c \in Client, WriteNext(c), ~disturbed',
         NEW forms, NEW state, Orderly(c, forms, state), Leaves(job[c], forms, state)
  PROVE  Served(c)
  <1>1. PICK j, t : j = job[c] /\ t = j.task
    OBVIOUS
  <1>2. t \in Task /\ job[c].pc = "write"
    BY <1>1, WriterRelies
  <1>3. /\ j.op = "remove" /\ Len(j.plan) = 1 /\ state = task[t] /\ task[t].open
        /\ People(forms) = People(Present(t)) \ j.who /\ People(forms) # {} /\ forms # Present(t)
    BY <1>1 DEF Leaves
  <1>4. Written(c, forms, state)
    BY DEF Orderly
  <1>5. ~MidTransfer(job[c]) /\ ~MidTransfer(job'[c]) /\ Len(job'[c].plan) # 1
    BY <1>1, <1>3, <1>4, Idles DEF MidTransfer
  <1>6. /\ MembersOf(t)' = MembersOf(t) \ j.who /\ MembersOf(t)' # {}
        /\ \A u \in Task : u # t => MembersOf(u)' = MembersOf(u)
    BY <1>1, <1>2, <1>3, <1>5, WhoAfter
  <1>7. Open' = Open
    BY <1>1, <1>2, <1>3, StateAfter
  <1>8. Serves(c)
    <2>1. Writes(job[c].op) = 1
      BY <1>1, <1>3, WritesOf
    <2> QED
      BY <1>1, <1>2, <1>3, <1>5, <2>1, First
  <1>9. Members' = [Members EXCEPT ![t] = @ \ j.who] /\ Members[t] \ j.who # {} /\ t \in Open
    BY <1>2, <1>3, <1>6, MembersChange DEF Open
  <1>10. Abstract!Leave(t, j.who)
    BY <1>7, <1>9 DEF Abstract!Leave, Members, Open
  <1> QED
    BY <1>1, <1>3, <1>8, <1>10 DEF Served, Effect

LEMMA TransferImplements ==
  ASSUME Inv, NEW c \in Client, WriteNext(c), ~disturbed',
         NEW forms, NEW state, Orderly(c, forms, state), Hands(job[c], job'[c], forms, state)
  PROVE  Served(c)
  <1>1. PICK j, t : j = job[c] /\ t = j.task
    OBVIOUS
  <1>2. t \in Task /\ job[c].pc = "write"
    BY <1>1, WriterRelies
  <1>3. /\ j.op = "transfer" /\ Len(j.plan) = 3 /\ state = task[t] /\ task[t].open
        /\ j.was = People(Present(t)) /\ j.who \subseteq j.was /\ j.to \notin j.was \ j.who
        /\ forms # Present(t) /\ MidTransfer(job'[c])
    BY <1>1 DEF Hands
  <1>4. PICK from : j.who = {from}
    BY <1>1, <1>3, WriterRelies DEF Arguments
  <1>5. ~MidTransfer(job[c]) /\ Len(job'[c].plan) # 3
    BY <1>1, <1>3 DEF MidTransfer
  <1>6. /\ MembersOf(t)' = (MembersOf(t) \ {from}) \union {j.to} /\ MembersOf(t) = j.was
        /\ \A u \in Task : u # t => MembersOf(u)' = MembersOf(u)
    <2>1. MembersOf(t)' = Handed(j) /\ MembersOf(t) = People(Present(t))
          /\ \A u \in Task : u # t => MembersOf(u)' = MembersOf(u)
      BY <1>1, <1>2, <1>3, <1>5, WhoAfter
    <2> QED
      BY <1>3, <1>4, <2>1 DEF Handed
  <1>7. Open' = Open
    BY <1>1, <1>2, <1>3, StateAfter
  <1>8. Serves(c)
    <2>1. Writes(job[c].op) = 3
      BY <1>1, <1>3, WritesOf
    <2> QED
      BY <1>1, <1>2, <1>3, <1>5, <2>1, First
  <1>9. /\ Members' = [Members EXCEPT ![t] = (@ \ {from}) \union {j.to}]
        /\ from \in Members[t] /\ j.to \notin Members[t] \ {from} /\ t \in Open
    BY <1>2, <1>3, <1>4, <1>6, MembersChange DEF Open
  <1>10. Abstract!Transfer(t, from, j.to)
    BY <1>7, <1>9 DEF Abstract!Transfer, Members, Open
  <1> QED
    BY <1>1, <1>3, <1>4, <1>8, <1>10 DEF Served, Effect

LEMMA CompleteImplements ==
  ASSUME Inv, NEW c \in Client, WriteNext(c), ~disturbed',
         NEW forms, NEW state, Orderly(c, forms, state), Completes(job[c], job'[c], forms, state)
  PROVE  Served(c)
  <1>1. PICK j, t : j = job[c] /\ t = j.task
    OBVIOUS
  <1>2. t \in Task /\ job[c].pc = "write"
    BY <1>1, WriterRelies
  <1>3. /\ j.op = "execute" /\ Len(j.plan) = 2 /\ Len(job'[c].plan) = 1
        /\ task[t].open /\ ~state.open /\ forms = Present(t)
    BY <1>1 DEF Completes
  <1>5. ~MidTransfer(job[c]) /\ ~MidTransfer(job'[c])
    BY <1>1, <1>3 DEF MidTransfer, Orderly
  <1>6. \A u \in Task : MembersOf(u)' = MembersOf(u)
    BY <1>1, <1>2, <1>3, <1>5, WhoAfter
  <1>7. Open' = Open \ {t} /\ t \in Open
    BY <1>1, <1>2, <1>3, StateAfter DEF Open
  <1>8. Serves(c)
    <2>1. Writes(job[c].op) = 2
      BY <1>1, <1>3, WritesOf
    <2>2. Len(job'[c].plan) # 2
      BY <1>3
    <2> QED
      BY <1>1, <1>2, <1>3, <2>1, <2>2, First
  <1>9. Members' = Members
    BY <1>6 DEF Members
  <1>10. Abstract!Complete(job[c].task)
    BY <1>1, <1>7, <1>9 DEF Abstract!Complete, Members, Open
  <1> QED
    <2>1. job[c].op = "execute"
      BY <1>1, <1>3
    <2>2. Effect(job[c])
      BY <1>10, <2>1, Zenon DEF Effect
    <2> QED
      BY <1>8, <2>2, Zenon DEF Served

\* The second and third write of a transfer, and the cascade of a completion,
\* change nothing that Membership knows of.
LEMMA RestImplements ==
  ASSUME Inv, NEW c \in Client, WriteNext(c), ~disturbed',
         NEW forms, NEW state, Orderly(c, forms, state),
         HandsOn(job[c], job'[c], forms, state) \/ Cascades(job[c], forms, state)
  PROVE  Unserved
  <1>1. PICK j, t : j = job[c] /\ t = j.task
    OBVIOUS
  <1>2. t \in Task
    BY <1>1, WriterRelies
  <1>3. state.open <=> task[t].open
    BY <1>1 DEF HandsOn, Cascades
  <1>4. \A u \in Task : u # t => MembersOf(u)' = MembersOf(u)
    BY <1>1, <1>2, WhoAfter
  <1>5. MembersOf(t)' = MembersOf(t)
    <2>1. CASE HandsOn(job[c], job'[c], forms, state)
      BY <1>1, <1>2, <2>1, WhoAfter DEF HandsOn
    <2>2. CASE Cascades(job[c], forms, state)
      <3>1. ~MidTransfer(job[c]) /\ ~MidTransfer(job'[c]) /\ forms = Present(t)
        BY <1>1, <2>2 DEF Cascades, MidTransfer, Orderly
      <3> QED
        BY <1>1, <1>2, <3>1, WhoAfter
    <2> QED
      BY <2>1, <2>2
  <1>6. ~Serves(c)
    <2>1. CASE HandsOn(job[c], job'[c], forms, state)
      <3>1. Writes(job[c].op) = 3 /\ Len(job[c].plan) < 3
        BY <2>1, WritesOf DEF HandsOn, MidTransfer
      <3>2. \A n : n = 3 => ~(n < 3)
        OBVIOUS
      <3>3. Len(job[c].plan) # Writes(job[c].op)
        BY <3>1, <3>2, Zenon
      <3> QED
        BY <3>3, Zenon DEF Serves
    <2>2. CASE Cascades(job[c], forms, state)
      <3>1. Writes(job[c].op) = 2 /\ Len(job[c].plan) = 1
        BY <2>2, WritesOf DEF Cascades
      <3> QED
        BY <3>1 DEF Serves
    <2> QED
      BY <2>1, <2>2
  <1>7. Open' = Open /\ \A d \in Client : Serves(d) => d = c
    BY <1>1, <1>2, <1>3, StateAfter
  <1>8. Members' = Members
    BY <1>4, <1>5 DEF Members
  <1> QED
    BY <1>6, <1>7, <1>8, AbstractVars DEF Unserved, Abstract!vars, Members, Open

LEMMA StepImplements ==
  ASSUME IInv, Next, ~disturbed'
  PROVE  (\E c \in Client : Served(c)) \/ Unserved
  <1>1. PICK c \in Client : Reads(c) \/ WriteNext(c)
    BY StepOf
  <1>2. Inv
    BY StepOf
  <1>3. CASE Reads(c)
    BY <1>2, <1>3, ReadStutters DEF Unserved
  <1>4. CASE WriteNext(c)
    <2>1. PICK forms, state : Orderly(c, forms, state) /\ Means(job[c], job'[c], forms, state)
      BY <1>2, <1>4, WriteOrderly
    <2> QED
      BY <1>2, <1>4, <2>1, AddImplements, LeaveImplements, TransferImplements, CompleteImplements,
         RestImplements DEF Means
  <1> QED
    BY <1>1, <1>3, <1>4

\* A request that succeeds has the effect Membership says it has, and nothing
\* else has one, until a request writes that was overtaken: over either
\* repository, and however the names are spelled in old rows.
THEOREM Refinement == Spec => Implements
  <1>1. Init => Abstract!Init
    BY InitImplements
  <1>2. IInv /\ [Next]_vars =>
          [ \/ disturbed'
            \/ \E c \in Client : Serves(c) /\ Effect(job[c])
            \/ ~(\E c \in Client : Serves(c)) /\ UNCHANGED Abstract!vars ]_vars
    BY StepImplements DEF Served, Unserved
  <1> QED
    BY <1>1, <1>2, Inductive, PTL DEF Implements, Spec

\* As nobody who leaves is the last on a row, a row keeps somebody who may act
\* on it, whoever is added, handed over to or removed at the same time.
THEOREM SomebodyStays == Spec => [](disturbed \/ Abstract!SomebodyLeft)
  <1>1. Init => Abstract!SomebodyLeft
    BY InitImplements DEF Abstract!Init, Abstract!SomebodyLeft
  <1>2. ASSUME IInv, Next, ~disturbed', Abstract!SomebodyLeft
        PROVE  Abstract!SomebodyLeft'
    <2>1. \A t \in Task : Members[t] # {}
      BY <1>2 DEF Abstract!SomebodyLeft, Members
    <2>2. CASE Unserved
      BY <2>1, <2>2, AbstractVars DEF Unserved, Abstract!vars, Abstract!SomebodyLeft, Members
    <2>3. ASSUME NEW c \in Client, Effect(job[c]), job[c].op \in Handlers
          PROVE  Abstract!SomebodyLeft'
      <3>1. CASE job[c].op = "add"
        <4>1. Abstract!Add(job[c].task, job[c].who)
          BY <2>3, <3>1 DEF Effect
        <4> QED
          BY <2>1, <4>1 DEF Abstract!Add, Abstract!SomebodyLeft, Members
      <3>2. CASE job[c].op = "transfer"
        <4>1. PICK from \in job[c].who : Abstract!Transfer(job[c].task, from, job[c].to)
          BY <2>3, <3>2 DEF Effect
        <4> QED
          BY <2>1, <4>1, ZenonT(40) DEF Abstract!Transfer, Abstract!SomebodyLeft, Members
      <3>3. CASE job[c].op = "remove"
        <4>1. Abstract!Leave(job[c].task, job[c].who)
          BY <2>3, <3>3 DEF Effect
        <4> QED
          BY <2>1, <4>1 DEF Abstract!Leave, Abstract!SomebodyLeft, Members
      <3>4. CASE job[c].op = "execute"
        <4>1. Abstract!Complete(job[c].task)
          BY <2>3, <3>4, Zenon DEF Effect
        <4> QED
          BY <2>1, <4>1 DEF Abstract!Complete, Abstract!SomebodyLeft, Members
      <3> QED
        BY <2>3, <3>1, <3>2, <3>3, <3>4 DEF Handlers
    <2>4. ASSUME NEW c \in Client, Served(c) PROVE job[c].op \in Handlers
      BY <1>2, <2>4, StepOf DEF Served, Serves, Writing, Inv, JobOK, Route, Arguments
    <2> QED
      BY <1>2, <2>2, <2>3, <2>4, StepImplements DEF Served
  <1>3. IInv /\ [Next]_vars /\ (disturbed \/ Abstract!SomebodyLeft) =>
          disturbed' \/ Abstract!SomebodyLeft'
    <2> SUFFICES ASSUME IInv, [Next]_vars, disturbed \/ Abstract!SomebodyLeft, ~disturbed'
                 PROVE  Abstract!SomebodyLeft'
      OBVIOUS
    <2>1. CASE Next
      BY <1>2, <2>1, StepOf
    <2>2. CASE UNCHANGED vars
      BY <2>2 DEF vars, Abstract!SomebodyLeft, MembersOf, Transferring, Present
    <2> QED
      BY <2>1, <2>2
  <1> QED
    BY <1>1, <1>3, Inductive, PTL DEF Spec
===============================================================================

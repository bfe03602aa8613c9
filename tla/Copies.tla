-------------------------------- MODULE Copies ---------------------------------
(***************************************************************************)
(* Carbon copies of an instance and the events they fire: the copies made  *)
(* by processInstance/createCCInstance, by an execution (tf_ccActors) and  *)
(* by a start (f_ccActors), the marking of a copy as read, the dispatch of *)
(* events to the listeners, and the after-commit legs listeners ask for,   *)
(* over the transactions of WithTx.                                        *)
(*                                                                         *)
(* An action is a script of what it does: WithTx is entered by Flow for    *)
(* the whole action and again by every command of the engine in it.  With  *)
(* the memory repository there is no transaction: what is written is seen  *)
(* at once and stays, even if the action fails.                            *)
(*                                                                         *)
(* A definition F_Bug is F with the bug its name tells; the properties are *)
(* checked to fail with it.                                                *)
(***************************************************************************)
EXTENDS Naturals, Sequences, FiniteSets, Functions

CONSTANTS
  Client,     \* callers of Flow
  Person,     \* those a copy may go to, by the trimmed spelling of the name
  Of,         \* spelling -> person, "" for a blank one
  Lists,      \* the lists of spellings that are submitted
  Listeners,  \* what the registered listeners do, in the order of registration
  Boss,       \* whom a "forward" listener copies in its leg
  Stores      \* the repositories considered, a subset of {"memory", "jdbc"}

\* "panic": the listener panics.  "leg": it hands a leg to RunAfterCommit, which
\* notifies the person the event is about.  "forward": so it does, and the leg
\* makes a copy for Boss by HandleCcActors with the context it was given.
ASSUME ListenersAssumption == Listeners \in Seq({"panic", "leg", "forward"})
ASSUME StoresAssumption == Stores \subseteq {"memory", "jdbc"}
\* A leg that copies somebody is followed where it runs after a commit.
ASSUME ForwardAssumption ==
  "memory" \in Stores => \A l \in DOMAIN Listeners : Listeners[l] # "forward"
Nobody == ""
ASSUME SpellingAssumption ==
  /\ Nobody \notin Person
  /\ Boss \in DOMAIN Of /\ Of[Boss] = Boss
  /\ \A f \in DOMAIN Of : Of[f] \in Person \union {Nobody}
  /\ Lists \subseteq Seq(DOMAIN Of)

VARIABLES
  store,   \* the repository in use
  born,    \* the instance is started, and others can see it
  copies,  \* person -> the rows of wf_process_cc_instance: [unread, read] of them
  told,    \* listener -> person -> how many of its legs about the person have run
  owed,    \* listener -> person -> how many legs should have run: history variable
  job,     \* what each caller is doing
  raced    \* history variable: two actions copied the same person at the same time

vars == <<store, born, copies, told, owed, job, raced>>

Rows(p) == copies[p].unread + copies[p].read
There == {p \in Person : Rows(p) > 0}
Listener == DOMAIN Listeners

\* NormalizeActors: trimmed, without blanks, each person where it is first met.
\* Lists of people have gaps: they are functions from positions.
NormalizeActors(forms) ==
  LET firsts == {i \in DOMAIN forms : /\ Of[forms[i]] # Nobody
                                      /\ \A k \in 1 .. i - 1 : Of[forms[k]] # Of[forms[i]]}
  IN [i \in firsts |-> Of[forms[i]]]

(***************************************************************************)
(* Transactions                                                            *)
(***************************************************************************)
\* pc: "run", the head of the script is next; "second", the read of
\* CreateCcInstance after that of CreateCcInstanceIfAbsent; "fire", events are
\* dispatched; "legs", the transaction is committed and fires its legs.
\* table: the after-commit legs as AfterCommit finds them in the context.
\* events: those whose event is still to be fired; event: the one whose event is
\* handed to the listeners, listener: the next of them.
Idle == [pc |-> "idle", script |-> <<>>, forms |-> <<>>, depth |-> 0, table |-> "none",
         own |-> {}, fresh |-> <<>>, seen |-> {}, events |-> <<>>, event |-> Nobody, listener |-> 1,
         legs |-> <<>>]

Request(script, forms) == [Idle EXCEPT !.pc = "run", !.script = script, !.forms = forms]

InTransaction(j) == j.depth > 0
Seen(j) == There \union j.own
Advance(j) == [j EXCEPT !.script = Tail(@), !.pc = "run"]
At(c, step) == job[c].pc = "run" /\ job[c].script # <<>> /\ Head(job[c].script) = step
Become(c, j) == job' = [job EXCEPT ![c] = j]
Step(c, j) == Become(c, j) /\ UNCHANGED <<store, born, copies, told, owed, raced>>

\* WithTx inside WithTx joins the transaction there is; the outermost one
\* commits, rolls back and holds the table of legs.
Outermost(j) == j.depth = 1

Enter(c) ==
  LET j == Advance(job[c]) IN
  /\ At(c, "enter")
  /\ Step(c, IF store = "memory" THEN j
             ELSE [j EXCEPT !.depth = @ + 1, !.table = "open"])

\* A row is inserted unread.
Inserted(people) == [p \in Person |-> IF p \in people THEN [copies[p] EXCEPT !.unread = @ + 1]
                                      ELSE copies[p]]

\* tx.Commit, and the legs come due.
Leave(c) ==
  LET j == Advance(job[c]) IN
  /\ At(c, "leave")
  /\ IF InTransaction(j) /\ Outermost(j)
     THEN /\ Become(c, [j EXCEPT !.depth = 0, !.table = "done", !.own = {}, !.pc = "legs"])
          /\ copies' = Inserted(j.own)
          /\ raced' = (raced \/ j.own \intersect There # {})
          /\ owed' = [l \in Listener |-> [p \in Person |-> owed[l][p] +
                        Cardinality({k \in DOMAIN j.legs : j.legs[k] = <<l, p>>})]]
          /\ born' = TRUE
          /\ UNCHANGED <<store, told>>
     ELSE Step(c, [j EXCEPT !.depth = IF InTransaction(j) THEN @ - 1 ELSE 0])

\* An error or a panic: everything is rolled back, and the legs are discarded;
\* without a transaction what was written stays.
Abort(c) ==
  /\ At(c, "work") \/ (At(c, "leave") /\ InTransaction(job[c]) /\ Outermost(job[c]))
  /\ Step(c, Idle)

\* The other writes of a command that succeeds, that of the instance among them.
Work(c) ==
  /\ At(c, "work")
  /\ born' = (born \/ store = "memory")
  /\ Become(c, Advance(job[c]))
  /\ UNCHANGED <<store, copies, told, owed, raced>>

End(c) ==
  /\ job[c].pc = "run" /\ job[c].script = <<>>
  /\ Step(c, IF job[c].legs # <<>> THEN [job[c] EXCEPT !.pc = "legs"] ELSE Idle)

(***************************************************************************)
(* HandleCcActors                                                          *)
(***************************************************************************)
\* The subset that CreateCcInstanceIfAbsent returns, and events are fired for.
Fresh(people, there) == Restrict(people, {i \in DOMAIN people : people[i] \notin there})

\* The memory repository appends a row where there is none.
CreateCcInstance_Upserts(people) ==
  [p \in Person |-> IF p \in people THEN [unread |-> 1, read |-> 0] ELSE copies[p]]
CreateCcInstance(people) == Inserted(people \ There)

\* It holds its lock for the whole of CreateCcInstanceIfAbsent.
CopyInMemory(c) ==
  LET people == NormalizeActors(job[c].forms)
  IN
  /\ At(c, "copy") /\ store = "memory"
  /\ copies' = CreateCcInstance(Range(people))
  /\ Become(c, [Advance(job[c]) EXCEPT !.pc = "fire", !.events = Fresh(people, There)])
  /\ UNCHANGED <<store, born, told, owed, raced>>

\* The JDBC repository reads, and if somebody is missing
FindCcActorIDs(c) ==
  LET j == job[c]
      fresh == Fresh(NormalizeActors(j.forms), Seen(j))
  IN
  /\ At(c, "copy") /\ store = "jdbc"
  /\ Step(c, IF Range(fresh) = {} THEN Advance(j)
             ELSE [j EXCEPT !.fresh = fresh, !.seen = Seen(j), !.pc = "second"])

\* reads again and inserts those that are still missing; whether the second
\* read shows what the first one did is up to the isolation of the database.
\* The first read decides for whom events are fired.
InsertMissing(c) == \E seen \in {job[c].seen, Seen(job[c])} :
  LET j == job[c]
      missing == Range(j.fresh) \ seen
      next == [Advance(j) EXCEPT !.pc = "fire", !.events = j.fresh, !.fresh = <<>>, !.seen = {}]
  IN
  /\ j.pc = "second"
  /\ raced' = (raced \/ missing # Range(j.fresh) \/ (~InTransaction(j) /\ missing \intersect There # {}))
  /\ IF InTransaction(j)
     THEN Become(c, [next EXCEPT !.own = @ \union missing]) /\ UNCHANGED copies
     ELSE Become(c, next) /\ copies' = Inserted(missing)
  /\ UNCHANGED <<store, born, told, owed>>

(***************************************************************************)
(* Events                                                                  *)
(***************************************************************************)
\* dispatchListeners: a panic is logged and the next listener is called.
Heard_UntilPanic == {l \in Listener : \A k \in 1 .. l : Listeners[k] # "panic"}
Heard == {l \in Listener : Listeners[l] # "panic"}

\* AfterCommit: the context of the legs of a committed transaction still shows
\* its table.
AfterCommit_Never(j) == FALSE
AfterCommit(j) == j.table # "none"

\* CC_CREATE for the next of those that were copied.
NextEvent(c) ==
  LET j == job[c]
      Dropped(i) == Restrict(j.events, DOMAIN j.events \ {i})
  IN
  /\ j.pc = "fire" /\ j.event = Nobody
  /\ \E i \in DOMAIN j.events :
       /\ \A k \in DOMAIN j.events : i <= k
       /\ Step(c, [j EXCEPT !.events = Dropped(i), !.event = j.events[i], !.listener = 1])

\* The next listener.  RunAfterCommit: its leg is left to AfterCommit, which
\* drops it when the table is done, or runs at once.
FireEvent(c) ==
  LET j == job[c]
      leg == <<j.listener, j.event>>
      next == [j EXCEPT !.listener = @ + 1]
      Counted(f) == [f EXCEPT ![j.listener][j.event] = @ + 1]
  IN
  /\ j.pc = "fire" /\ j.event # Nobody /\ j.listener \in Listener
  /\ \/ j.listener \notin Heard /\ Step(c, next)
     \/ /\ j.listener \in Heard /\ ~AfterCommit(j)
        /\ told' = Counted(told)
        /\ owed' = Counted(owed)
        /\ Become(c, next)
        /\ UNCHANGED <<store, born, copies, raced>>
     \/ /\ j.listener \in Heard /\ AfterCommit(j)
        /\ owed' = IF InTransaction(j) THEN owed ELSE Counted(owed)
        /\ Become(c, IF j.table = "open" THEN [next EXCEPT !.legs = Append(@, leg)] ELSE next)
        /\ UNCHANGED <<store, born, copies, told, raced>>

Fired(c) ==
  /\ job[c].pc = "fire" /\ job[c].event # Nobody /\ job[c].listener \notin Listener
  /\ Step(c, [job[c] EXCEPT !.event = Nobody])

AllFired(c) ==
  /\ job[c].pc = "fire" /\ job[c].event = Nobody /\ DOMAIN job[c].events = {}
  /\ Step(c, [job[c] EXCEPT !.pc = "run"])

\* txState.fire: the legs run one after the other, outside of the transaction.
FireLeg(c) ==
  LET j == job[c]
      l == Head(j.legs)[1]
      p == Head(j.legs)[2]
      next == [j EXCEPT !.legs = Tail(@)]
  IN
  /\ j.pc = "legs" /\ j.legs # <<>>
  /\ told' = [told EXCEPT ![l][p] = @ + 1]
  /\ Become(c, IF Listeners[l] = "forward"
               THEN [next EXCEPT !.pc = "run", !.script = <<"copy">> \o @, !.forms = <<Boss>>]
               ELSE next)
  /\ UNCHANGED <<store, born, copies, owed, raced>>

LegsDone(c) ==
  /\ job[c].pc = "legs" /\ job[c].legs = <<>>
  /\ Step(c, [job[c] EXCEPT !.pc = "run"])

(***************************************************************************)
(* Actions                                                                 *)
(***************************************************************************)
Flow(c, script) == \E forms \in Lists :
  job[c].pc = "idle" /\ Step(c, Request(script, forms))

createCCInstance(c) == born /\ Flow(c, <<"enter", "copy", "leave">>)

\* Copies are made when the row is completed, before the token moves.
executeProcessTask(c) ==
  born /\ Flow(c, <<"enter", "enter", "copy", "work", "leave", "leave">>)

\* The instance is started, copies are made, and the applicant's row is executed.
startAndExecute(c) ==
  /\ ~born /\ \A d \in Client : job[d].pc = "idle"
  /\ Flow(c, <<"enter", "enter", "work", "leave", "copy", "enter", "work", "leave", "leave">>)

\* One UPDATE, of every copy of the person that is committed.
updateCCStatus(c) == \E p \in Person :
  /\ born /\ job[c].pc = "idle"
  /\ copies' = [copies EXCEPT ![p] = [unread |-> 0, read |-> Rows(p)]]
  /\ UNCHANGED <<store, born, told, owed, job, raced>>

Init ==
  /\ store \in Stores
  /\ born = FALSE
  /\ copies = [p \in Person |-> [unread |-> 0, read |-> 0]]
  /\ told = [l \in Listener |-> [p \in Person |-> 0]]
  /\ owed = told
  /\ job = [c \in Client |-> Idle]
  /\ raced = FALSE

Next == \E c \in Client :
  \/ createCCInstance(c) \/ executeProcessTask(c) \/ startAndExecute(c) \/ updateCCStatus(c)
  \/ Enter(c) \/ Leave(c) \/ Work(c) \/ Abort(c) \/ End(c)
  \/ CopyInMemory(c) \/ FindCcActorIDs(c) \/ InsertMissing(c)
  \/ NextEvent(c) \/ FireEvent(c) \/ Fired(c) \/ AllFired(c) \/ FireLeg(c) \/ LegsDone(c)

Spec == Init /\ [][Next]_vars

(***************************************************************************)
(* Properties                                                              *)
(***************************************************************************)
Settled == \A c \in Client : job[c].pc = "idle"

\* Whatever failed, was submitted twice or in two spellings, in the end each
\* person has at most one copy, and every listener with a leg has told those
\* who have one about it, once, and nobody else; until two actions copy the
\* same person at the same time.
AsCopied ==
  Settled => raced \/ \A p \in Person :
    /\ Rows(p) <= 1
    /\ \A l \in Listener : told[l][p] = IF Listeners[l] = "panic" THEN 0 ELSE Rows(p)

\* A leg runs when the copy it tells about can be seen by everybody: never for
\* what is rolled back, never before the commit.
LegsSeeCopies ==
  [][\A l \in Listener, p \in Person : told'[l][p] > told[l][p] => Rows(p) > 0]_vars

\* Copying somebody again does not make the copy unread again.
ReadStays ==
  [][\A p \in Person : copies[p].read > 0 => raced' \/ copies'[p] = copies[p]]_vars

\* "没有活动事务或载体没这条通道 => 立即执行" (engine/interceptor.go:399): a leg that is
\* handed to RunAfterCommit runs, unless its transaction is rolled back.
EveryLegRuns == Settled => told = owed
=============================================================================
